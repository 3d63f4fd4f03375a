------------------------------ MODULE Pairing ------------------------------
(***************************************************************************)
(* Connections and pairing of the desktop engine (engine/mod.rs), several  *)
(* devices at once.                                                        *)
(*                                                                         *)
(* A session is one TCP connection with a completed Noise handshake; its   *)
(* handshake hash, and so the verification code (SAS) both users compare,  *)
(* is unique to it: the session stands for its code.  Each of its two ends *)
(* is served by one thread running Inner::run_connection.  Next to these   *)
(* threads every device runs the GUI thread (respond_pairing, forget,      *)
(* set_blocked, disconnect), threads that send data (send_to) and the      *)
(* housekeeping thread (expire_pairings).  They share the mutex-protected  *)
(* tables `trust' and `conns'; one action is one critical section, or one  *)
(* critical section and the sends that follow it, wherever no other thread *)
(* can tell the difference.                                                *)
(*                                                                         *)
(* Devices are honest and run this engine.  Names, addresses, Hello (which *)
(* only refreshes names and last-seen times) and Ping/Pong carry no        *)
(* decision and are left out; files behave like Text here and have their   *)
(* own module.                                                             *)
(***************************************************************************)
EXTENDS Naturals, Sequences, FiniteSets

CONSTANTS
    Device,           \* devices; a device stands for its static public key
    Session,          \* the TCP connections that may be attempted
    None,             \* "no such entry"
    PairedBefore,     \* pairs of devices whose trust stores come from earlier sessions
    MAX_CONNECTIONS,  \* engine/mod.rs
    MAX_TRUSTED,      \* MAX_TRUSTED_DEVICES of security/trust.rs
    Budget            \* bound: what may happen how often, one of several alternatives

\* What is bounded: connections dialled, pairing prompts answered with yes and
\* with no, texts sent, requests (forget, block, unblock, disconnect), connections
\* lost by the network, process crashes followed by a restart, pairing timeouts.
Kind == {"dial", "accept", "reject", "text", "admin", "cut", "restart", "timeout"}

Role == {"dialer", "listener"}

End == Session \X Role

Other(e) == <<e[1], IF e[2] = "dialer" THEN "listener" ELSE "dialer">>

\* The fields of struct Conn that decide anything; `end' stands for its sender.
Conn == [end : End, authorised : BOOLEAN, local_ok : BOOLEAN,
         remote_ok : BOOLEAN, prompted : BOOLEAN]

Message == {"PairRequest", "PairAccept", "PairReject", "Text", "TextAck"}

\* Message::allowed_before_pairing
AllowedBeforePairing == {"PairRequest", "PairAccept", "PairReject"}

\* The engine events that move the pairing prompt of the GUI.
PairingRequired == [kind : {"PairingRequired"}, device : Device, session : Session]
PairingFinished == [kind : {"PairingFinished"}, device : Device]
Event == PairingRequired \cup PairingFinished

ASSUME ConstantsAssumption ==
    /\ IsFiniteSet(Device)
    /\ MAX_CONNECTIONS \in Nat \ {0} /\ MAX_TRUSTED \in Nat
    /\ Budget \subseteq [Kind -> Nat]
    /\ PairedBefore \subseteq Device \X Device
    /\ \A p \in PairedBefore : <<p[2], p[1]>> \in PairedBefore
    /\ None \notin Device \cup Session /\ None \notin End /\ None \notin Conn /\ None \notin Event

VARIABLES
    owner,      \* end -> device it belongs to, None while the session is unused
    thread,     \* end -> where its run_connection thread is
    snap,       \* end -> local variable `authorised' of run_connection
    chan,       \* end -> messages sent to it and not yet read
    down,       \* end -> its socket is shut down or dead
    trust,      \* device -> peer -> entry of the trust store
    conns,      \* device -> peer -> entry of the connection table
    ui,         \* device -> where its GUI thread is
    events,     \* device -> engine events the GUI has not pumped yet
    prompt,     \* device -> the pairing prompt on the screen
    data,       \* device -> the end a send_to call has picked and not yet used
    inbox,      \* history: ends whose peer got a text shown in the chat
    approvals,  \* history: <<n, q, s>>, the user of n confirmed q and saw the code of s
                \* (None: in an earlier session)
    used        \* how much of the budget is used up

netVars  == <<owner, thread, snap, chan, down>>
dataVars == <<data, inbox>>
uiVars   == <<ui, events, prompt, approvals>>
vars     == <<owner, thread, snap, chan, down, trust, conns, ui, events, prompt,
              data, inbox, approvals, used>>

-----------------------------------------------------------------------------
Idle == [pc |-> "idle", device |-> None, end |-> None]

Node(e) == owner[e]
Peer(e) == owner[Other(e)]

\* The connection thread owns an entry of conns: from conns.insert to conns.remove.
Live == {"loop", "finalize", "add", "grant", "removing"}

ThreadPC == {"none", "handshake", "checked", "done"} \cup Live

UiPC == {"idle", "local_ok", "send", "add", "grant", "disconnect"}

ConnPeers(n) == {q \in Device : conns[n][q] # None}

Known(n) == {q \in Device : trust[n][q] # "unknown"}

\* `conns.get(&device).map(|c| c.authorised).unwrap_or(false)'
Authorised(n, q) == conns[n][q] # None /\ conns[n][q].authorised

\* The connection table with entry c for q.
Stored(n, q, c) == [conns EXCEPT ![n][q] = c]

\* A write that can reach the peer.
CanSend(e) == ~down[e] /\ ~down[Other(e)]

Sent(ch, e, m) == IF CanSend(e) THEN [ch EXCEPT ![Other(e)] = Append(@, m)] ELSE ch

\* PairingRequired with the code of session s; PairingFinished.
Prompted(n, q, s) ==
    [events EXCEPT ![n] = Append(@, [kind |-> "PairingRequired", device |-> q, session |-> s])]
Finished(n, q) ==
    [events EXCEPT ![n] = Append(@, [kind |-> "PairingFinished", device |-> q])]

\* trust.add: an unknown key needs room, a known one is refreshed and unblocked.
TrustFull(n, q) == q \notin Known(n) /\ Cardinality(Known(n)) >= MAX_TRUSTED

Added(n, q) == [trust EXCEPT ![n][q] = "trusted"]

Granted_PromptOnly(n, q) ==
    IF conns[n][q] = None THEN conns
    ELSE Stored(n, q, [conns[n][q] EXCEPT !.prompted = FALSE])

\* The last section of try_finalize_pairing, on whatever entry q has by then.
Granted(n, q) ==
    IF conns[n][q] = None THEN conns
    ELSE Stored(n, q, [conns[n][q] EXCEPT !.authorised = TRUE, !.prompted = FALSE])

Ready_OneSided(n, q) ==
    conns[n][q] # None /\ conns[n][q].remote_ok /\ ~conns[n][q].authorised

\* The first section of try_finalize_pairing.
Ready(n, q) ==
    /\ conns[n][q] # None
    /\ conns[n][q].local_ok /\ conns[n][q].remote_ok /\ ~conns[n][q].authorised

Admitted_NoDuplicateCheck(n, q) == Cardinality(ConnPeers(n)) < MAX_CONNECTIONS

\* Under the lock of conns: no second connection to the device, no more than the limit.
Admitted(n, q) == conns[n][q] = None /\ Cardinality(ConnPeers(n)) < MAX_CONNECTIONS

NewConn_NoPromptTime(e) == [end |-> e, authorised |-> snap[e], local_ok |-> FALSE,
                            remote_ok |-> FALSE, prompted |-> None]

NewConn(e) == [end |-> e, authorised |-> snap[e], local_ok |-> FALSE,
               remote_ok |-> FALSE, prompted |-> ~snap[e]]

GuiGoto(n, pc) == ui' = [ui EXCEPT ![n].pc = pc]

Goto(e, pc) == thread' = [thread EXCEPT ![e] = pc]

Spend(what) ==
    /\ used' = [used EXCEPT ![what] = @ + 1]
    /\ \E limit \in Budget : \A k \in Kind : used'[k] <= limit[k]

-----------------------------------------------------------------------------
Init ==
    /\ owner = [e \in End |-> None]
    /\ thread = [e \in End |-> "none"]
    /\ snap = [e \in End |-> FALSE]
    /\ chan = [e \in End |-> <<>>]
    /\ down = [e \in End |-> FALSE]
    /\ trust = [n \in Device |-> [q \in Device |->
                  IF <<n, q>> \in PairedBefore THEN "trusted" ELSE "unknown"]]
    /\ conns = [n \in Device |-> [q \in Device |-> None]]
    /\ ui = [n \in Device |-> Idle]
    /\ events = [n \in Device |-> <<>>]
    /\ prompt = [n \in Device |-> None]
    /\ data = [n \in Device |-> None]
    /\ inbox = {}
    /\ approvals = {<<p[1], p[2], None>> : p \in PairedBefore}
    /\ used = [k \in Kind |-> 0]

-----------------------------------------------------------------------------
(* Engine::dial, the listener and the handshake *)

\* Device n dials q, the device behind the dialed address; both sides start
\* the handshake (it fails in CheckPeer).
Dial(n, q, s) ==
    /\ n # q
    /\ owner[<<s, "dialer">>] = None
    /\ Cardinality(ConnPeers(n)) < MAX_CONNECTIONS
    /\ owner' = [owner EXCEPT ![<<s, "dialer">>] = n, ![<<s, "listener">>] = q]
    /\ thread' = [e \in End |-> IF e[1] = s THEN "handshake" ELSE thread[e]]
    /\ Spend("dial")
    /\ UNCHANGED <<snap, chan, down, trust, conns, uiVars, dataVars>>

-----------------------------------------------------------------------------
(* Inner::run_connection *)

\* The end of the handshake, the expected-key check and the trust lookup.
\* Inputs: whether the handshake succeeds on this side (admit may refuse the
\* stream, it may time out, the dialer may meet another key than it expects)
\* and the allow_new_pairings setting.
CheckPeer(e, handshakeOk, allowNewPairings) ==
    LET entry == trust[Node(e)][Peer(e)]
        refused == \/ ~handshakeOk
                   \/ entry = "blocked"
                   \/ entry = "unknown" /\ ~allowNewPairings
    IN
    /\ thread[e] = "handshake"
    /\ Goto(e, IF refused THEN "done" ELSE "checked")
    /\ down' = [down EXCEPT ![e] = @ \/ refused]
    /\ snap' = [snap EXCEPT ![e] = ~refused /\ entry = "trusted"]
    /\ UNCHANGED <<owner, chan, trust, conns, uiVars, dataVars, used>>

\* conns.insert, then for an unpaired peer the dialer's pairing request and
\* the prompt; a connection that is not admitted is closed.
Register(e) ==
    LET n == Node(e)  q == Peer(e) IN
    /\ thread[e] = "checked"
    /\ \/ /\ Admitted(n, q)
          /\ conns' = Stored(n, q, NewConn(e))
          /\ chan' = IF ~snap[e] /\ e[2] = "dialer" THEN Sent(chan, e, "PairRequest") ELSE chan
          /\ events' = IF snap[e] THEN events ELSE Prompted(n, q, e[1])
          /\ Goto(e, "loop")
          /\ UNCHANGED down
       \/ /\ ~Admitted(n, q)
          /\ Goto(e, "done")
          /\ down' = [down EXCEPT ![e] = TRUE]
          /\ UNCHANGED <<conns, chan, events>>
    /\ snap' = [snap EXCEPT ![e] = FALSE]   \* not used any more
    /\ UNCHANGED <<owner, trust, ui, prompt, approvals, dataVars, used>>

\* The loop ends, and sender.close() follows.
Break(e) ==
    /\ Goto(e, "removing")
    /\ down' = [down EXCEPT ![e] = TRUE]

RecvError_LocalOnly(e) ==
    /\ thread[e] = "loop"
    /\ down[e]
    /\ Break(e)
    /\ UNCHANGED <<owner, snap, chan, trust, conns, uiVars, dataVars, used>>

\* reader.recv fails: the socket was shut down on one side or died.
RecvError(e) ==
    /\ thread[e] = "loop"
    /\ down[e] \/ down[Other(e)]
    /\ Break(e)
    /\ UNCHANGED <<owner, snap, chan, trust, conns, uiVars, dataVars, used>>

\* conns.remove(&device): by device, not by connection.
Remove(e) ==
    /\ thread[e] = "removing"
    /\ Goto(e, "done")
    /\ conns' = Stored(Node(e), Peer(e), None)
    /\ chan' = [chan EXCEPT ![e] = <<>>]
    /\ UNCHANGED <<owner, snap, down, trust, uiVars, dataVars, used>>

-----------------------------------------------------------------------------
(* Inner::on_message *)

\* The thread of e takes message m from the socket.
Takes(e, m) ==
    /\ thread[e] = "loop"
    /\ chan[e] # <<>>
    /\ Head(chan[e]) = m

Rest(e) == [chan EXCEPT ![e] = Tail(@)]

\* Data from a peer that is not paired ends the connection.
OnDataBeforePairing(e) ==
    /\ \E m \in Message \ AllowedBeforePairing : Takes(e, m)
    /\ ~Authorised(Node(e), Peer(e))
    /\ chan' = Rest(e)
    /\ Break(e)
    /\ UNCHANGED <<owner, snap, trust, conns, uiVars, dataVars, used>>

\* The prompt clock starts again.
OnPairRequest(e) ==
    LET n == Node(e)  q == Peer(e) IN
    /\ Takes(e, "PairRequest")
    /\ chan' = Rest(e)
    /\ IF conns[n][q] = None
       THEN Break(e) /\ UNCHANGED <<conns, events>>
       ELSE /\ conns' = Stored(n, q, [conns[n][q] EXCEPT !.prompted = TRUE])
            /\ events' = IF Authorised(n, q) THEN events
                         ELSE Prompted(n, q, conns[n][q].end[1])
            /\ UNCHANGED <<thread, down>>
    /\ UNCHANGED <<owner, snap, trust, ui, prompt, approvals, dataVars, used>>

OnPairAccept(e) ==
    LET n == Node(e)  q == Peer(e) IN
    /\ Takes(e, "PairAccept")
    /\ chan' = Rest(e)
    /\ conns' = IF conns[n][q] = None THEN conns
                ELSE Stored(n, q, [conns[n][q] EXCEPT !.remote_ok = TRUE])
    /\ Goto(e, "finalize")
    /\ UNCHANGED <<owner, snap, down, trust, uiVars, dataVars, used>>

OnPairReject(e) ==
    /\ Takes(e, "PairReject")
    /\ chan' = Rest(e)
    /\ events' = Finished(Node(e), Peer(e))
    /\ Break(e)
    /\ UNCHANGED <<owner, snap, trust, conns, ui, prompt, approvals, dataVars, used>>

\* The text is shown and acknowledged on the current connection.
OnText(e) ==
    LET n == Node(e)  q == Peer(e) IN
    /\ Takes(e, "Text")
    /\ Authorised(n, q)
    /\ inbox' = inbox \cup {e}
    /\ chan' = Sent(Rest(e), conns[n][q].end, "TextAck")
    /\ UNCHANGED <<owner, thread, snap, down, trust, conns, uiVars, data, used>>

OnTextAck(e) ==
    /\ Takes(e, "TextAck")
    /\ Authorised(Node(e), Peer(e))
    /\ chan' = Rest(e)
    /\ UNCHANGED <<owner, thread, snap, down, trust, conns, uiVars, dataVars, used>>

-----------------------------------------------------------------------------
(* Inner::try_finalize_pairing, run by the connection thread *)

FinalizeCheck(e) ==
    /\ thread[e] = "finalize"
    /\ Goto(e, IF Ready(Node(e), Peer(e)) THEN "add" ELSE "loop")
    /\ UNCHANGED <<owner, snap, chan, down, trust, conns, uiVars, dataVars, used>>

FinalizeAdd(e) ==
    LET n == Node(e)  q == Peer(e) IN
    /\ thread[e] = "add"
    /\ Goto(e, IF TrustFull(n, q) THEN "loop" ELSE "grant")
    /\ trust' = IF TrustFull(n, q) THEN trust ELSE Added(n, q)
    /\ UNCHANGED <<owner, snap, chan, down, conns, uiVars, dataVars, used>>

FinalizeGrant(e) ==
    LET n == Node(e)  q == Peer(e) IN
    /\ thread[e] = "grant"
    /\ Goto(e, "loop")
    /\ conns' = Granted(n, q)
    /\ events' = Finished(n, q)
    /\ UNCHANGED <<owner, snap, chan, down, trust, ui, prompt, approvals, dataVars, used>>

-----------------------------------------------------------------------------
(* The GUI thread *)

\* pump_events: a prompt replaces the one shown; a finished pairing takes its
\* device's prompt down.  A lost connection leaves it on the screen.
PumpEvent(n) ==
    /\ ui[n].pc = "idle"
    /\ events[n] # <<>>
    /\ events' = [events EXCEPT ![n] = Tail(@)]
    /\ LET ev == Head(events[n]) IN
       prompt' = [prompt EXCEPT ![n] =
                    IF ev.kind = "PairingRequired" THEN ev
                    ELSE IF @ # None /\ @.device = ev.device THEN None
                    ELSE @]
    /\ UNCHANGED <<netVars, trust, conns, ui, approvals, dataVars, used>>

\* respond_pairing for a device that has no connection any more.
AnswerTooLate(n) ==
    /\ ui[n].pc = "idle" /\ prompt[n] # None
    /\ conns[n][prompt[n].device] = None
    /\ prompt' = [prompt EXCEPT ![n] = None]
    /\ UNCHANGED <<netVars, trust, conns, ui, events, approvals, dataVars, used>>

\* respond_pairing(device, false), on the connection the device has now.
Reject(n) ==
    /\ ui[n].pc = "idle" /\ prompt[n] # None
    /\ Spend("reject")
    /\ LET q == prompt[n].device IN
       /\ conns[n][q] # None
       /\ chan' = Sent(chan, conns[n][q].end, "PairReject")
       /\ down' = [down EXCEPT ![conns[n][q].end] = TRUE]
       /\ events' = Finished(n, q)
    /\ prompt' = [prompt EXCEPT ![n] = None]
    /\ UNCHANGED <<owner, thread, snap, trust, conns, ui, approvals, dataVars>>

\* respond_pairing(device, true): first the sender of the current connection.
Accept(n) ==
    /\ ui[n].pc = "idle" /\ prompt[n] # None
    /\ Spend("accept")
    /\ LET q == prompt[n].device IN
       /\ conns[n][q] # None
       /\ ui' = [ui EXCEPT ![n] = [pc |-> "local_ok", device |-> q, end |-> conns[n][q].end]]
       /\ approvals' = approvals \cup {<<n, q, prompt[n].session>>}
    /\ UNCHANGED <<netVars, trust, conns, events, prompt, dataVars>>

AcceptLocalOk(n) ==
    LET q == ui[n].device IN
    /\ ui[n].pc = "local_ok"
    /\ conns' = IF conns[n][q] = None THEN conns
                ELSE Stored(n, q, [conns[n][q] EXCEPT !.local_ok = TRUE])
    /\ GuiGoto(n, "send")
    /\ UNCHANGED <<netVars, trust, events, prompt, approvals, dataVars, used>>

\* try_finalize_pairing, run by the GUI thread; the prompt goes when it returns.
Return(n) ==
    /\ ui' = [ui EXCEPT ![n] = Idle]
    /\ prompt' = [prompt EXCEPT ![n] = None]

\* PairAccept is sent, then the first section of try_finalize_pairing.
AcceptSend(n) ==
    /\ ui[n].pc = "send"
    /\ chan' = Sent(chan, ui[n].end, "PairAccept")
    /\ IF Ready(n, ui[n].device)
       THEN GuiGoto(n, "add") /\ UNCHANGED prompt
       ELSE Return(n)
    /\ UNCHANGED <<owner, thread, snap, down, trust, conns, events, approvals, dataVars, used>>

AcceptAdd(n) ==
    LET q == ui[n].device IN
    /\ ui[n].pc = "add"
    /\ IF TrustFull(n, q)
       THEN Return(n) /\ UNCHANGED trust
       ELSE /\ GuiGoto(n, "grant")
            /\ trust' = Added(n, q)
            /\ UNCHANGED prompt
    /\ UNCHANGED <<netVars, conns, events, approvals, dataVars, used>>

AcceptGrant(n) ==
    /\ ui[n].pc = "grant"
    /\ conns' = Granted(n, ui[n].device)
    /\ events' = Finished(n, ui[n].device)
    /\ Return(n)
    /\ UNCHANGED <<netVars, trust, approvals, dataVars, used>>

\* Engine::forget and Engine::set_blocked(true): the trust store first.  Without
\* an entry or a connection there is no effect (set_blocked changes no absent entry).
Revoke(n, q, entry) ==
    /\ ui[n].pc = "idle"
    /\ q \in Known(n) \cup ConnPeers(n)
    /\ Spend("admin")
    /\ trust' = [trust EXCEPT ![n][q] = IF @ = "unknown" THEN @ ELSE entry]
    /\ ui' = [ui EXCEPT ![n] = [pc |-> "disconnect", device |-> q, end |-> None]]
    /\ UNCHANGED <<netVars, conns, events, prompt, approvals, dataVars>>

Forget(n, q) == Revoke(n, q, "unknown")

Block(n, q) == Revoke(n, q, "blocked")

Shutdown(n, q) ==
    down' = IF conns[n][q] = None THEN down
            ELSE [down EXCEPT ![conns[n][q].end] = TRUE]

\* ... and then the connection the device has by that time.
RevokeDisconnect(n) ==
    /\ ui[n].pc = "disconnect"
    /\ Shutdown(n, ui[n].device)
    /\ ui' = [ui EXCEPT ![n] = Idle]
    /\ UNCHANGED <<owner, thread, snap, chan, trust, conns, events, prompt, approvals, dataVars, used>>

Unblock(n, q) ==
    /\ ui[n].pc = "idle"
    /\ trust[n][q] = "blocked"
    /\ Spend("admin")
    /\ trust' = [trust EXCEPT ![n][q] = "trusted"]
    /\ UNCHANGED <<netVars, conns, uiVars, dataVars>>

Disconnect(n, q) ==
    /\ ui[n].pc = "idle"
    /\ conns[n][q] # None
    /\ Spend("admin")
    /\ Shutdown(n, q)
    /\ UNCHANGED <<owner, thread, snap, chan, trust, conns, uiVars, dataVars>>

-----------------------------------------------------------------------------
(* Inner::send_to, on the GUI thread or a file-sending thread *)

PickConn_Unpaired(n, q) ==
    /\ data[n] = None
    /\ conns[n][q] # None
    /\ Spend("text")
    /\ data' = [data EXCEPT ![n] = conns[n][q].end]
    /\ UNCHANGED <<netVars, trust, conns, uiVars, inbox>>

PickConn(n, q) ==
    /\ data[n] = None
    /\ Authorised(n, q)
    /\ Spend("text")
    /\ data' = [data EXCEPT ![n] = conns[n][q].end]
    /\ UNCHANGED <<netVars, trust, conns, uiVars, inbox>>

SendData(n) ==
    /\ data[n] # None
    /\ chan' = Sent(chan, data[n], "Text")
    /\ data' = [data EXCEPT ![n] = None]
    /\ UNCHANGED <<owner, thread, snap, down, trust, conns, uiVars, inbox, used>>

-----------------------------------------------------------------------------
(* Housekeeping, the network, crashes *)

Expirable_AnsweredHere(n, q) ==
    /\ conns[n][q] # None
    /\ ~conns[n][q].authorised /\ conns[n][q].prompted /\ conns[n][q].local_ok

\* PAIRING_TIMEOUT may pass at any moment of an open prompt.
Expirable(n, q) ==
    conns[n][q] # None /\ ~conns[n][q].authorised /\ conns[n][q].prompted

\* expire_pairings
ExpirePairing(n, q) ==
    /\ Expirable(n, q)
    /\ ~down[conns[n][q].end]
    /\ Spend("timeout")
    /\ Shutdown(n, q)
    /\ UNCHANGED <<owner, thread, snap, chan, trust, conns, uiVars, dataVars>>

\* The network loses an established connection.
Cut(s) ==
    /\ \E r \in Role : thread[<<s, r>>] \notin {"none", "done"}
    /\ Spend("cut")
    /\ down' = [e \in End |-> down[e] \/ e[1] = s]
    /\ UNCHANGED <<owner, thread, snap, chan, trust, conns, uiVars, dataVars>>

\* The process of n dies and starts again: the trust store was saved inside
\* every critical section that changed it, everything else is gone.
Restart(n) ==
    LET lost == {e \in End : owner[e] = n /\ thread[e] # "none"} IN
    /\ Spend("restart")
    /\ thread' = [e \in End |-> IF e \in lost THEN "done" ELSE thread[e]]
    /\ down' = [e \in End |-> down[e] \/ e \in lost]
    /\ chan' = [e \in End |-> IF e \in lost THEN <<>> ELSE chan[e]]
    /\ conns' = [conns EXCEPT ![n] = [q \in Device |-> None]]
    /\ ui' = [ui EXCEPT ![n] = Idle]
    /\ events' = [events EXCEPT ![n] = <<>>]
    /\ prompt' = [prompt EXCEPT ![n] = None]
    /\ data' = [data EXCEPT ![n] = None]
    /\ UNCHANGED <<owner, snap, trust, inbox, approvals>>

-----------------------------------------------------------------------------
OnMessage(e) ==
    \/ OnDataBeforePairing(e) \/ OnPairRequest(e) \/ OnPairAccept(e)
    \/ OnPairReject(e) \/ OnText(e) \/ OnTextAck(e)

RunConnection(e) ==
    \/ \E handshakeOk, allowNewPairings \in BOOLEAN : CheckPeer(e, handshakeOk, allowNewPairings)
    \/ Register(e) \/ OnMessage(e)
    \/ FinalizeCheck(e) \/ FinalizeAdd(e) \/ FinalizeGrant(e)
    \/ RecvError(e) \/ Remove(e)

Answer(n) == AnswerTooLate(n) \/ Reject(n) \/ Accept(n)

\* Steps the GUI thread takes by itself, once the user has acted.
GuiThread(n) ==
    \/ PumpEvent(n) \/ AcceptLocalOk(n) \/ AcceptSend(n)
    \/ AcceptAdd(n) \/ AcceptGrant(n) \/ RevokeDisconnect(n)

User(n) ==
    \/ Answer(n)
    \/ \E q \in Device :
          \/ \E s \in Session : Dial(n, q, s)
          \/ Forget(n, q) \/ Block(n, q) \/ Unblock(n, q) \/ Disconnect(n, q)
          \/ PickConn(n, q)

Next ==
    \/ \E s \in Session : Cut(s)
    \/ \E e \in End : RunConnection(e)
    \/ \E n \in Device :
          \/ User(n) \/ GuiThread(n) \/ SendData(n) \/ Restart(n)
          \/ \E q \in Device : ExpirePairing(n, q)

Spec == Init /\ [][Next]_vars

\* Threads keep running, handshakes have a timeout and housekeeping wakes every
\* two seconds; users, the network and crashes promise nothing.
Fairness ==
    /\ \A e \in End : WF_vars(RunConnection(e))
    /\ \A n \in Device :
          /\ WF_vars(GuiThread(n))
          /\ WF_vars(SendData(n))
          /\ \A q \in Device : WF_vars(ExpirePairing(n, q))

FairSpec == Spec /\ Fairness

-----------------------------------------------------------------------------
(* Properties *)

TypeOK ==
    /\ owner \in [End -> Device \cup {None}]
    /\ thread \in [End -> ThreadPC]
    /\ snap \in [End -> BOOLEAN]
    /\ chan \in [End -> Seq(Message)]
    /\ down \in [End -> BOOLEAN]
    /\ trust \in [Device -> [Device -> {"unknown", "trusted", "blocked"}]]
    /\ conns \in [Device -> [Device -> Conn \cup {None}]]
    /\ ui \in [Device -> [pc : UiPC, device : Device \cup {None}, end : End \cup {None}]]
    /\ events \in [Device -> Seq(Event)]
    /\ prompt \in [Device -> PairingRequired \cup {None}]
    /\ data \in [Device -> End \cup {None}]
    /\ inbox \subseteq End
    /\ approvals \subseteq Device \X Device \X (Session \cup {None})
    /\ used \in [Kind -> Nat]

\* The user of n has at some time confirmed a pairing with q.
Approved(n, q) == \E s \in Session \cup {None} : <<n, q, s>> \in approvals

\* Pairing needs both users: no trust entry (and no connection treated as
\* paired) exists unless the users of both devices confirmed the other one.
MutualApproval ==
    \A n, q \in Device :
        trust[n][q] # "unknown" \/ Authorised(n, q) => Approved(n, q) /\ Approved(q, n)

EntryOwned(n, q) ==
    conns[n][q] # None =>
        /\ thread[conns[n][q].end] \in Live
        /\ Node(conns[n][q].end) = n /\ Peer(conns[n][q].end) = q

ThreadHasEntry(e) ==
    thread[e] \in Live => conns[Node(e)][Peer(e)] # None /\ conns[Node(e)][Peer(e)].end = e

\* Every entry of the connection table belongs to the one connection thread
\* between its insert and its remove, and every such thread has its entry: so
\* remove(&device) at the end never drops the entry of a newer connection.
ConnsOwned ==
    /\ \A n, q \in Device : EntryOwned(n, q)
    /\ \A e \in End : ThreadHasEntry(e)

\* Threads that passed the early checks of dial and admit together still do
\* not exceed the connection limit.
ConnLimit == \A n \in Device : Cardinality(ConnPeers(n)) <= MAX_CONNECTIONS

\* Somebody is inside try_finalize_pairing, or on the way to it, for q.
Finalizing(n, q) ==
    \/ thread[conns[n][q].end] \in {"finalize", "add", "grant"}
    \/ ui[n].device = q /\ ui[n].pc \in {"send", "add", "grant"}

\* The GUI thread and the connection thread record the two confirmations
\* independently; whichever order they run in, a connection that has both is
\* authorised or about to be (unless the trust store can be full).
ApprovalNotLost ==
    Cardinality(Device) <= MAX_TRUSTED =>
        \A n, q \in Device : Ready(n, q) => Finalizing(n, q)

\* The answer to a prompt is applied to the connection the device has by then.
\* So a connection may be paired on the code of another one, but only of one
\* that its user was shown and that has ended: never of one still standing,
\* whose peer may be somebody else.
CodeOfThisOrLostSession ==
    [][\A n, q \in Device :
         conns[n][q] # None /\ ~Authorised(n, q) /\ Authorised(n, q)'
            => \E s \in Session :
                  /\ <<n, q, s>> \in approvals
                  /\ \/ s = conns[n][q].end[1]
                     \/ \A r \in Role : Node(<<s, r>>) = n => thread[<<s, r>>] = "done"]_vars

\* The acknowledgement of a text is never taken for data sent before pairing:
\* whoever is sent one still regards the connection as paired.
AckNotRefused ==
    \A e \in End :
        (\E i \in DOMAIN chan[e] : chan[e][i] = "TextAck") => Authorised(Node(e), Peer(e))

\* A connection that is registered and not paired does not stay so: it is
\* paired, or closed by the pairing timeout at the latest.
UnpairedDoesNotLinger ==
    \A e \in End :
        thread[e] \in Live /\ ~Authorised(Node(e), Peer(e))
            ~> thread[e] \notin Live \/ Authorised(Node(e), Peer(e))

\* disconnect() and the timeouts only shut the socket down; the connection
\* thread then always gives the table entry back, so the peer can reconnect.
ShutdownFreesEntry ==
    \A e \in End : thread[e] \in Live /\ (down[e] \/ down[Other(e)]) ~> thread[e] = "done"

-----------------------------------------------------------------------------
(* What the documents and comments say and the code does not do *)

\* "a peer whose static key is not in the trust store may send only the
\* handful of messages listed": text is shown only from a key trusted now.
TextOnlyFromTrustedKey ==
    [][\A e \in inbox' \ inbox : trust[Node(e)][Peer(e)] = "trusted"]_vars
=============================================================================
