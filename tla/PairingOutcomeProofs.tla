------------------------ MODULE PairingOutcomeProofs ------------------------
(* What comes of the confirmations in Pairing, and of the texts sent over a *)
(* paired connection, for every set of devices and sessions.                *)
EXTENDS PairingSafetyProofs

-----------------------------------------------------------------------------
(* How a step may change one end, one entry, one GUI thread *)

\* A thread goes forwards, and what it decided by is what it read.
ThreadMoves(e) ==
    \/ thread'[e] = thread[e]
    \/ thread[e] = "none" /\ thread'[e] = "handshake"
    \/ thread[e] = "handshake" /\ thread'[e] = "checked"
    \/ thread[e] = "checked" /\ thread'[e] = "loop"
    \/ thread[e] \in {"handshake", "checked"} /\ thread'[e] = "done" /\ down'[e]
    \/ thread[e] = "loop" /\ thread'[e] = "finalize"
    \/ thread[e] = "loop" /\ thread'[e] = "removing" /\ down'[e]
    \/ thread[e] = "finalize" /\ thread'[e] = "loop" /\ ~Ready(Node(e), Peer(e))
    \/ thread[e] = "finalize" /\ thread'[e] = "add" /\ Ready(Node(e), Peer(e))
    \/ thread[e] = "add" /\ thread'[e] = "loop" /\ TrustFull(Node(e), Peer(e))
    \/ thread[e] = "add" /\ thread'[e] = "grant"
    \/ thread[e] = "grant" /\ thread'[e] = "loop" /\ conns' = Granted(Node(e), Peer(e))
    \/ thread[e] = "removing" /\ thread'[e] = "done" /\ chan'[e] = <<>>
    \/ thread[e] # "none" /\ thread'[e] = "done" /\ down'[e] /\ chan'[e] = <<>>

EndMoves(e) ==
    /\ \/ owner'[e] = owner[e] /\ owner'[Other(e)] = owner[Other(e)]
       \/ thread[e] = "none" /\ owner'[e] # owner'[Other(e)]
    /\ down[e] => down'[e]
    /\ ThreadMoves(e)

UiMoves(n) ==
    \/ ui'[n] = ui[n]
    \/ /\ ui[n].pc = "idle" /\ ui'[n].pc = "local_ok"
       /\ prompt[n] # None /\ ui'[n].device = prompt[n].device
       /\ <<n, prompt[n].device, prompt[n].session>> \in approvals'
    \/ /\ ui'[n].device = ui[n].device
       /\ <<ui[n].pc, ui'[n].pc>> \in {<<"local_ok", "send">>, <<"send", "add">>, <<"add", "grant">>}
    \/ ui[n].pc = "send" /\ ui'[n].pc = "idle" /\ ~Ready(n, ui[n].device)
    \/ ui[n].pc = "add" /\ ui'[n].pc = "idle" /\ TrustFull(n, ui[n].device)
    \/ ui[n].pc = "grant" /\ ui'[n].pc = "idle" /\ conns' = Granted(n, ui[n].device)
    \/ ui[n].pc \in {"idle", "disconnect"} /\ ui'[n].pc \in {"idle", "disconnect"}
    \/ ui'[n].pc = "idle" /\ \A q \in Device : conns'[n][q] = None

\* Who may have written each field of an entry that stays.
EntryChanges(n, q, old, new) ==
    /\ new # None /\ new.end = old.end
    /\ old.authorised => new.authorised
    /\ new.local_ok => \/ old.local_ok
                       \/ /\ ui[n].pc = "local_ok" /\ ui'[n].pc = "send"
                          /\ ui[n].device = q /\ ui'[n].device = q
    /\ new.remote_ok => \/ old.remote_ok
                        \/ \E e \in End : /\ thread[e] \in Live /\ thread'[e] = "finalize"
                                          /\ Node(e) = n /\ Peer(e) = q
    /\ new.authorised => \/ old.authorised
                         \/ ui[n].pc = "grant" /\ ui[n].device = q
                         \/ \E e \in End : thread[e] = "grant" /\ Node(e) = n /\ Peer(e) = q

EntryMoves(n, q) ==
    \/ conns'[n][q] = conns[n][q]
    \/ conns'[n][q] = None
    \/ conns[n][q] = None /\ ~conns'[n][q].local_ok
    \/ conns[n][q] # None /\ EntryChanges(n, q, conns[n][q], conns'[n][q])

Holds(ch, e, m) == \E i \in DOMAIN ch[e] : ch[e][i] = m

ChanMoves(e) ==
    /\ Holds(chan', e, "Text") => \/ Holds(chan, e, "Text")
                                  \/ \E n \in Device : data[n] = Other(e)
    /\ Holds(chan', e, "TextAck") => \/ Holds(chan, e, "TextAck")
                                     \/ Holds(chan, Other(e), "Text") /\ ~down[e]

DataMoves(n) ==
    \/ data'[n] \in {data[n], None}
    \/ \E q \in Device : Authorised(n, q) /\ data'[n] = conns[n][q].end

\* A prompt is about the connection that was registered when it was raised.
EventsMove(n) ==
    \A i \in DOMAIN events'[n] :
        \/ \E j \in DOMAIN events[n] : events'[n][i] = events[n][j]
        \/ events'[n][i].kind = "PairingFinished"
        \/ \E e \in End : /\ thread'[e] \in Live /\ owner[e] = n /\ owner[Other(e)] = events'[n][i].device
                          /\ owner' = owner /\ events'[n][i].session = e[1]

PromptMoves(n) ==
    \/ prompt'[n] \in {prompt[n], None}
    \/ \E j \in DOMAIN events[n] : /\ events[n][j].kind = "PairingRequired"
                                   /\ prompt'[n] = events[n][j]

ApprovalsMove ==
    \/ approvals' = approvals
    \/ \E n \in Device : /\ prompt[n] # None
                         /\ approvals' = approvals \cup {<<n, prompt[n].device, prompt[n].session>>}

-----------------------------------------------------------------------------
(* The invariants *)

\* A connection thread closes its socket before it takes its entry away.
ClosedWhenLeaving == \A e \in End : thread[e] \in {"removing", "done"} => down[e]

\* The end of a connection its device regards as paired, or one that is over.
PairedEnd(e) == thread[e] \in Live /\ Authorised(Node(e), Peer(e))

SenderOK(e) == PairedEnd(e) \/ thread[e] = "done"

\* Texts, and the answers to them, come from such ends only.
TextsFromPaired ==
    /\ \A n \in Device : data[n] # None => SenderOK(data[n])
    /\ \A e \in End : Holds(chan, e, "Text") => SenderOK(Other(e))
    /\ \A e \in End : Holds(chan, e, "TextAck") => PairedEnd(e)

\* The code of session s was shown to the user of n, for q: by a connection
\* that is registered, or was.
Shown(n, q, s) ==
    /\ s \in Session
    /\ \E r \in Role : LET e == <<s, r>> IN
         Node(e) = n /\ Peer(e) = q /\ thread[e] \in Live \cup {"done"}

ShownFirst ==
    /\ \A e \in End : owner[e] # None => owner[e] # owner[Other(e)]
    /\ \A n \in Device : \A i \in DOMAIN events[n] :
          events[n][i].kind = "PairingRequired" => Shown(n, events[n][i].device, events[n][i].session)
    /\ \A n \in Device : prompt[n] # None => Shown(n, prompt[n].device, prompt[n].session)
    /\ \A n, q \in Device : \A s \in Session : <<n, q, s>> \in approvals => Shown(n, q, s)

\* The user of n has confirmed q on the code of a session.
Confirmed(n, q) == \E s \in Session : <<n, q, s>> \in approvals

ConfirmedFirst ==
    /\ \A n, q \in Device : conns[n][q] # None /\ conns[n][q].local_ok => Confirmed(n, q)
    /\ \A e \in End : thread[e] \in {"add", "grant"} => Confirmed(Node(e), Peer(e))
    /\ \A n \in Device : ui[n].pc \in {"local_ok", "send", "add", "grant"} => Confirmed(n, ui[n].device)
-----------------------------------------------------------------------------
(* Every step is of these kinds *)

\* One thread moves, and the others stand still.
LEMMA OneThread ==
  ASSUME TypeInv, NEW x \in End, NEW pc, Goto(x, pc), NEW e \in End
  PROVE  thread'[e] = IF e = x THEN pc ELSE thread[e]
BY DEF Goto, TypeInv, TypeOK

LEMMA EndStep ==
  ASSUME TypeInv, [Next]_vars, NEW e \in End
  PROVE  EndMoves(e)
<1> TypeOK
  BY DEF TypeInv
<1> USE ConstantsAssumption, OtherEnd DEF netVars, dataVars, uiVars
<1>1. ASSUME NEW n \in Device, NEW q \in Device, NEW s \in Session, Dial(n, q, s)
      PROVE  EndMoves(e)
  <2>1. thread[e] # "none" => owner[e] # None
    BY DEF TypeInv, ActorsOK
  <2>2. down' = down
    BY <1>1 DEF Dial
  <2>3. e[1] = s => owner'[e] # owner'[Other(e)]
    <3>1. /\ <<s, "dialer">> \in End /\ owner'[<<s, "dialer">>] = n
          /\ <<s, "listener">> \in End /\ owner'[<<s, "listener">>] = q /\ n # q
      BY <1>1 DEF Dial, TypeOK, End, Role
    <3>2. e[1] = s => \/ e = <<s, "dialer">> /\ Other(e) = <<s, "listener">>
                      \/ e = <<s, "listener">> /\ Other(e) = <<s, "dialer">>
      BY DEF End, Role, Other
    <3> QED
      BY <3>1, <3>2
  <2> QED
    BY <1>1, <2>1, <2>2, <2>3, DialFresh DEF EndMoves, ThreadMoves
<1>2. ASSUME NEW x \in End, NEW ok \in BOOLEAN, NEW allow \in BOOLEAN, CheckPeer(x, ok, allow)
      PROVE  EndMoves(e)
  <2>1. owner' = owner
    BY <1>2 DEF CheckPeer
  <2>2. down[e] => down'[e]
    BY <1>2 DEF CheckPeer, TypeOK
  <2>3. e # x => thread'[e] = thread[e]
    BY <1>2 DEF CheckPeer, Goto, TypeOK
  <2>4. thread[x] = "handshake" /\ (thread'[x] = "checked" \/ (thread'[x] = "done" /\ down'[x]))
    BY <1>2 DEF CheckPeer, Goto, TypeOK
  <2> QED
    BY <2>1, <2>2, <2>3, <2>4 DEF EndMoves, ThreadMoves
<1>3. ASSUME NEW x \in End, Register(x)
      PROVE  EndMoves(e)
  <2>1. owner' = owner
    BY <1>3 DEF Register
  <2>2. down[e] => down'[e]
    BY <1>3 DEF Register, TypeOK
  <2>3. e # x => thread'[e] = thread[e]
    BY <1>3 DEF Register, Goto, TypeOK
  <2>4. thread[x] = "checked" /\ (thread'[x] = "loop" \/ (thread'[x] = "done" /\ down'[x]))
    BY <1>3 DEF Register, Goto, TypeOK
  <2> QED
    BY <2>1, <2>2, <2>3, <2>4 DEF EndMoves, ThreadMoves
<1>4. ASSUME NEW x \in End, Break(x), thread[x] = "loop", owner' = owner
      PROVE  EndMoves(e)
  <2>1. e # x => thread'[e] = thread[e]
    BY <1>4 DEF Break, Goto, TypeOK
  <2>2. thread'[x] = "removing" /\ down'[x] /\ (down[e] => down'[e])
    BY <1>4 DEF Break, Goto, TypeOK
  <2> QED
    BY <1>4, <2>1, <2>2 DEF EndMoves, ThreadMoves
<1>5. ASSUME owner' = owner, \A x \in End : down[x] => down'[x], ThreadMoves(e)
      PROVE  EndMoves(e)
  BY <1>5 DEF EndMoves
<1>6. ASSUME NEW x \in End, RecvError(x) \/ OnDataBeforePairing(x) \/ OnPairReject(x)
      PROVE  EndMoves(e)
  BY <1>4, <1>6 DEF RecvError, OnDataBeforePairing, OnPairReject, Takes
<1>7. ASSUME NEW x \in End, OnPairRequest(x)
      PROVE  EndMoves(e)
  <2>1. CASE Break(x)
    BY <1>4, <1>7, <2>1 DEF OnPairRequest, Takes
  <2>2. CASE UNCHANGED <<thread, down>>
    BY <1>5, <1>7, <2>2 DEF OnPairRequest, ThreadMoves
  <2> QED
    BY <1>7, <2>1, <2>2 DEF OnPairRequest
<1>8. ASSUME NEW x \in End, \/ Remove(x) \/ OnPairAccept(x) \/ FinalizeCheck(x)
                            \/ FinalizeAdd(x) \/ FinalizeGrant(x)
      PROVE  EndMoves(e)
  <2>1. owner' = owner /\ down' = down
    BY <1>8 DEF Remove, OnPairAccept, FinalizeCheck, FinalizeAdd, FinalizeGrant
  <2>2. e # x => thread'[e] = thread[e]
    BY <1>8, OneThread DEF Remove, OnPairAccept, FinalizeCheck, FinalizeAdd, FinalizeGrant
  <2>3. ThreadMoves(x)
    <3>1. CASE Remove(x)
      BY <3>1, OneThread DEF Remove, ThreadMoves, TypeOK
    <3>2. CASE OnPairAccept(x)
      BY <3>2, OneThread DEF OnPairAccept, Takes, ThreadMoves
    <3>3. CASE FinalizeCheck(x)
      BY <3>3, OneThread DEF FinalizeCheck, ThreadMoves
    <3>4. CASE FinalizeAdd(x)
      BY <3>4, OneThread DEF FinalizeAdd, ThreadMoves
    <3>5. CASE FinalizeGrant(x)
      BY <3>5, OneThread DEF FinalizeGrant, ThreadMoves
    <3> QED
      BY <1>8, <3>1, <3>2, <3>3, <3>4, <3>5
  <2> QED
    BY <1>5, <2>1, <2>2, <2>3 DEF ThreadMoves
<1>9. ASSUME owner' = owner, thread' = thread, \A x \in End : down[x] => down'[x]
      PROVE  EndMoves(e)
  BY <1>9 DEF EndMoves, ThreadMoves
<1>10. ASSUME NEW x \in End, OnText(x) \/ OnTextAck(x)
       PROVE  EndMoves(e)
  BY <1>9, <1>10 DEF OnText, OnTextAck
<1>11. ASSUME NEW n \in Device,
              \/ AnswerTooLate(n) \/ Accept(n) \/ PumpEvent(n) \/ AcceptLocalOk(n) \/ AcceptSend(n)
              \/ AcceptAdd(n) \/ AcceptGrant(n) \/ SendData(n)
       PROVE  EndMoves(e)
  BY <1>9, <1>11 DEF AnswerTooLate, Accept, PumpEvent, AcceptLocalOk, AcceptSend, AcceptAdd,
                     AcceptGrant, SendData
<1>12. ASSUME NEW x, down' = [down EXCEPT ![x] = TRUE]
       PROVE  \A y \in End : down[y] => down'[y]
  BY <1>12 DEF TypeOK
<1>13. ASSUME NEW n \in Device, Reject(n)
       PROVE  EndMoves(e)
  BY <1>9, <1>12, <1>13 DEF Reject
<1>14. ASSUME NEW n \in Device, RevokeDisconnect(n)
       PROVE  EndMoves(e)
  BY <1>9, <1>12, <1>14 DEF RevokeDisconnect, Shutdown
<1>15. ASSUME NEW n \in Device, NEW q \in Device,
              \/ Forget(n, q) \/ Block(n, q) \/ Unblock(n, q) \/ PickConn(n, q)
              \/ Disconnect(n, q) \/ ExpirePairing(n, q)
       PROVE  EndMoves(e)
  BY <1>9, <1>12, <1>15 DEF Forget, Block, Revoke, Unblock, PickConn, Disconnect, ExpirePairing, Shutdown
<1>16. ASSUME NEW s \in Session, Cut(s)
       PROVE  EndMoves(e)
  BY <1>9, <1>16 DEF Cut
<1>17. ASSUME NEW n \in Device, Restart(n)
       PROVE  EndMoves(e)
  <2>1. owner' = owner /\ \A x \in End : down[x] => down'[x]
    BY <1>17 DEF Restart
  <2>2. \/ thread'[e] = thread[e]
        \/ thread[e] # "none" /\ thread'[e] = "done" /\ down'[e] /\ chan'[e] = <<>>
    BY <1>17 DEF Restart
  <2> QED
    BY <1>5, <2>1, <2>2 DEF ThreadMoves
<1>18. CASE UNCHANGED vars
  BY <1>9, <1>18 DEF vars
<1> QED
  BY <1>1, <1>2, <1>3, <1>6, <1>7, <1>8, <1>10, <1>11, <1>13, <1>14, <1>15, <1>16, <1>17, <1>18
     DEF Next, RunConnection, OnMessage, User, Answer, GuiThread

\* An entry is written at the place it is looked up at, and nowhere else.
LEMMA StoredAt ==
  ASSUME TypeOK, NEW m \in Device, NEW p \in Device, NEW c, conns' = Stored(m, p, c),
         NEW n \in Device, NEW q \in Device
  PROVE  conns'[n][q] = IF n = m /\ q = p THEN c ELSE conns[n][q]
BY DEF Stored, TypeOK

LEMMA GrantedAt ==
  ASSUME TypeOK, NEW m \in Device, NEW p \in Device, conns' = Granted(m, p),
         NEW n \in Device, NEW q \in Device
  PROVE  /\ n # m \/ q # p \/ conns[m][p] = None => conns'[n][q] = conns[n][q]
         /\ conns[m][p] # None =>
              /\ conns'[m][p] # None /\ conns'[m][p].authorised
              /\ conns'[m][p].end = conns[m][p].end
              /\ conns'[m][p].local_ok = conns[m][p].local_ok
              /\ conns'[m][p].remote_ok = conns[m][p].remote_ok
<1>1. CASE conns[m][p] = None
  BY <1>1 DEF Granted
<1>2. CASE conns[m][p] # None
  <2>1. conns[m][p] \in Conn
    BY <1>2 DEF TypeOK
  <2> DEFINE c == [conns[m][p] EXCEPT !.authorised = TRUE, !.prompted = FALSE]
  <2>2. conns' = Stored(m, p, c)
    BY <1>2 DEF Granted
  <2>3. /\ c \in Conn /\ c.authorised /\ c.end = conns[m][p].end
        /\ c.local_ok = conns[m][p].local_ok /\ c.remote_ok = conns[m][p].remote_ok
    BY <2>1 DEF Conn
  <2> HIDE DEF c
  <2> QED
    BY <1>2, <2>2, <2>3, StoredAt, ConstantsAssumption
<1> QED
  BY <1>1, <1>2

LEMMA EntryStep ==
  ASSUME TypeInv, [Next]_vars, NEW n \in Device, NEW q \in Device
  PROVE  EntryMoves(n, q)
<1> TypeOK
  BY DEF TypeInv
<1> USE ConstantsAssumption, OtherEnd DEF netVars, dataVars, uiVars
<1>1. ASSUME conns' = conns
      PROVE  EntryMoves(n, q)
  BY <1>1 DEF EntryMoves
<1>2. ASSUME NEW e \in End, Register(e)
      PROVE  EntryMoves(n, q)
  <2>1. Node(e) \in Device /\ Peer(e) \in Device
    BY <1>2 DEF Register, TypeInv, ActorsOK, Node, Peer
  <2>2. CASE Admitted(Node(e), Peer(e))
    <3>1. conns' = Stored(Node(e), Peer(e), NewConn(e)) /\ conns[Node(e)][Peer(e)] = None
      BY <1>2, <2>2 DEF Register, Admitted
    <3>2. ~NewConn(e).local_ok
      BY DEF NewConn
    <3> QED
      BY <2>1, <3>1, <3>2, StoredAt DEF EntryMoves
  <2> QED
    BY <1>1, <1>2, <2>2 DEF Register
<1>3. ASSUME NEW e \in End, Remove(e)
      PROVE  EntryMoves(n, q)
  <2>1. Node(e) \in Device /\ Peer(e) \in Device
    BY <1>3 DEF Remove, TypeInv, ActorsOK, Node, Peer
  <2> QED
    BY <1>3, <2>1, StoredAt DEF Remove, EntryMoves
<1>4. ASSUME NEW e \in End, OnPairRequest(e)
      PROVE  EntryMoves(n, q)
  <2> DEFINE m == Node(e)
             p == Peer(e)
             c == [conns[m][p] EXCEPT !.prompted = TRUE]
  <2>1. m \in Device /\ p \in Device
    BY <1>4 DEF OnPairRequest, Takes, TypeInv, ActorsOK, Node, Peer
  <2>2. CASE conns[m][p] = None
    BY <1>1, <1>4, <2>2 DEF OnPairRequest
  <2>3. CASE conns[m][p] # None
    <3>1. conns' = Stored(m, p, c)
      BY <1>4, <2>3 DEF OnPairRequest
    <3>2. conns[m][p] \in Conn
      BY <2>1, <2>3 DEF TypeOK
    <3>3. EntryChanges(m, p, conns[m][p], c)
      BY <3>2 DEF EntryChanges, Conn
    <3> HIDE DEF m, p, c
    <3> QED
      BY <2>1, <2>3, <3>1, <3>3, StoredAt DEF EntryMoves
  <2> QED
    BY <2>2, <2>3
<1>5. ASSUME NEW e \in End, OnPairAccept(e)
      PROVE  EntryMoves(n, q)
  <2> DEFINE m == Node(e)
             p == Peer(e)
             c == [conns[m][p] EXCEPT !.remote_ok = TRUE]
  <2>1. m \in Device /\ p \in Device
    BY <1>5 DEF OnPairAccept, Takes, TypeInv, ActorsOK, Node, Peer
  <2>2. CASE conns[m][p] = None
    BY <1>1, <1>5, <2>2 DEF OnPairAccept
  <2>3. CASE conns[m][p] # None
    <3>1. conns' = Stored(m, p, c)
      BY <1>5, <2>3 DEF OnPairAccept
    <3>2. conns[m][p] \in Conn
      BY <2>1, <2>3 DEF TypeOK
    <3>3. thread[e] \in Live /\ thread'[e] = "finalize"
      BY <1>5, OneThread DEF OnPairAccept, Takes, Live
    <3>4. /\ c # None /\ c.end = conns[m][p].end /\ c.authorised = conns[m][p].authorised
          /\ c.local_ok = conns[m][p].local_ok
      BY <3>2 DEF Conn
    <3>5. EntryChanges(m, p, conns[m][p], c)
      BY <3>3, <3>4 DEF EntryChanges
    <3> HIDE DEF m, p, c
    <3> QED
      BY <2>1, <2>3, <3>1, <3>5, StoredAt DEF EntryMoves
  <2> QED
    BY <2>2, <2>3
<1>6. ASSUME NEW n0 \in Device, AcceptLocalOk(n0)
      PROVE  EntryMoves(n, q)
  <2> DEFINE p == ui[n0].device
             c == [conns[n0][p] EXCEPT !.local_ok = TRUE]
  <2>1. p \in Device
    BY <1>6 DEF AcceptLocalOk, TypeInv, ActorsOK
  <2>2. CASE conns[n0][p] = None
    BY <1>1, <1>6, <2>2 DEF AcceptLocalOk
  <2>3. CASE conns[n0][p] # None
    <3>1. conns' = Stored(n0, p, c)
      BY <1>6, <2>3 DEF AcceptLocalOk
    <3>2. conns[n0][p] \in Conn
      BY <2>1, <2>3 DEF TypeOK
    <3>3. ui[n0].pc = "local_ok" /\ ui'[n0].pc = "send" /\ ui'[n0].device = p
      <4>1. GuiGoto(n0, "send") /\ "send" \in UiPC
        BY <1>6 DEF AcceptLocalOk, UiPC
      <4> QED
        BY <1>6, <4>1, GuiGotoType DEF AcceptLocalOk
    <3>4. /\ c # None /\ c.end = conns[n0][p].end /\ c.authorised = conns[n0][p].authorised
          /\ c.remote_ok = conns[n0][p].remote_ok
      BY <3>2 DEF Conn
    <3>5. EntryChanges(n0, p, conns[n0][p], c)
      BY <3>3, <3>4 DEF EntryChanges
    <3> HIDE DEF p, c
    <3> QED
      BY <2>1, <2>3, <3>1, <3>5, StoredAt DEF EntryMoves
  <2> QED
    BY <2>2, <2>3
<1>7. ASSUME NEW n0 \in Device, NEW p \in Device, conns' = Granted(n0, p),
             \/ ui[n0].pc = "grant" /\ ui[n0].device = p
             \/ \E e \in End : thread[e] = "grant" /\ Node(e) = n0 /\ Peer(e) = p
      PROVE  EntryMoves(n, q)
  BY <1>7, GrantedAt DEF EntryMoves, EntryChanges
<1>8. ASSUME NEW e \in End, FinalizeGrant(e)
      PROVE  EntryMoves(n, q)
  <2>1. Node(e) \in Device /\ Peer(e) \in Device
    BY <1>8 DEF FinalizeGrant, TypeInv, ActorsOK, Node, Peer
  <2> QED
    BY <1>7, <1>8, <2>1 DEF FinalizeGrant
<1>9. ASSUME NEW n0 \in Device, AcceptGrant(n0)
      PROVE  EntryMoves(n, q)
  <2>1. ui[n0].device \in Device
    BY <1>9 DEF AcceptGrant, TypeInv, ActorsOK
  <2> QED
    BY <1>7, <1>9, <2>1 DEF AcceptGrant
<1>10. ASSUME NEW n0 \in Device, Restart(n0)
       PROVE  EntryMoves(n, q)
  BY <1>10 DEF Restart, EntryMoves, TypeOK
<1>11. ASSUME NEW e \in End,
              \/ \E ok, allow \in BOOLEAN : CheckPeer(e, ok, allow)
              \/ OnDataBeforePairing(e) \/ OnPairReject(e) \/ OnText(e) \/ OnTextAck(e)
              \/ FinalizeCheck(e) \/ FinalizeAdd(e) \/ RecvError(e)
       PROVE  EntryMoves(n, q)
  BY <1>1, <1>11 DEF CheckPeer, OnDataBeforePairing, OnPairReject, OnText, OnTextAck,
                     FinalizeCheck, FinalizeAdd, RecvError
<1>12. ASSUME NEW m \in Device,
              \/ Answer(m) \/ PumpEvent(m) \/ AcceptSend(m) \/ AcceptAdd(m)
              \/ RevokeDisconnect(m) \/ SendData(m)
       PROVE  EntryMoves(n, q)
  BY <1>1, <1>12 DEF Answer, AnswerTooLate, Reject, Accept, PumpEvent, AcceptSend, AcceptAdd,
                     RevokeDisconnect, SendData
<1>13. ASSUME NEW m \in Device, NEW p \in Device,
              \/ \E s \in Session : Dial(m, p, s)
              \/ Forget(m, p) \/ Block(m, p) \/ Unblock(m, p) \/ Disconnect(m, p)
              \/ PickConn(m, p) \/ ExpirePairing(m, p)
       PROVE  EntryMoves(n, q)
  BY <1>1, <1>13 DEF Dial, Forget, Block, Revoke, Unblock, Disconnect, PickConn, ExpirePairing
<1>14. CASE (\E s \in Session : Cut(s)) \/ UNCHANGED vars
  BY <1>1, <1>14 DEF Cut, vars
<1> QED
  BY <1>2, <1>3, <1>4, <1>5, <1>6, <1>8, <1>9, <1>10, <1>11, <1>12, <1>13, <1>14
     DEF Next, RunConnection, OnMessage, User, GuiThread

LEMMA UiStep ==
  ASSUME TypeInv, [Next]_vars, NEW n \in Device
  PROVE  UiMoves(n)
<1> TypeOK
  BY DEF TypeInv
<1> USE ConstantsAssumption DEF netVars, dataVars, uiVars
<1>1. ASSUME ui' = ui
      PROVE  UiMoves(n)
  BY <1>1 DEF UiMoves
<1>2. ASSUME NEW m \in Device, NEW r, ui' = [ui EXCEPT ![m] = r]
      PROVE  ui'[n] = IF n = m THEN r ELSE ui[n]
  BY <1>2 DEF TypeOK
<1>0. ASSUME NEW m \in Device, Return(m)
       PROVE  UiMoves(n) \/ (n = m /\ ui'[n].pc = "idle")
  <2>1. n = m => ui'[n].pc = "idle"
    <3>1. n = m => ui'[n] = Idle
      BY <1>2, <1>0 DEF Return
    <3> QED
      BY <3>1 DEF Idle
  <2>2. n # m => ui'[n] = ui[n]
    BY <1>2, <1>0 DEF Return
  <2> QED
    BY <2>1, <2>2 DEF UiMoves
<1>3. ASSUME NEW m \in Device, Accept(m)
      PROVE  UiMoves(n)
  <2>1. /\ ui[m].pc = "idle" /\ prompt[m] # None
        /\ ui' = [ui EXCEPT ![m] = [pc |-> "local_ok", device |-> prompt[m].device,
                                    end |-> conns[m][prompt[m].device].end]]
        /\ <<m, prompt[m].device, prompt[m].session>> \in approvals'
    BY <1>3 DEF Accept
  <2> QED
    BY <1>2, <2>1 DEF UiMoves
<1>4. ASSUME NEW m \in Device, NEW pc \in {"send", "add", "grant"}, GuiGoto(m, pc),
             <<ui[m].pc, pc>> \in {<<"local_ok", "send">>, <<"send", "add">>, <<"add", "grant">>}
      PROVE  UiMoves(n)
  <2>1. ui'[m].pc = pc /\ ui'[m].device = ui[m].device /\ \A x \in Device \ {m} : ui'[x] = ui[x]
    BY <1>4, GuiGotoType DEF UiPC
  <2> QED
    BY <1>4, <2>1 DEF UiMoves
<1>5. ASSUME NEW m \in Device, AcceptLocalOk(m)
      PROVE  UiMoves(n)
  BY <1>4, <1>5 DEF AcceptLocalOk
<1>6. ASSUME NEW m \in Device, AcceptSend(m)
      PROVE  UiMoves(n)
  <2>1. CASE Ready(m, ui[m].device)
    BY <1>4, <1>6, <2>1 DEF AcceptSend
  <2>2. CASE ~Ready(m, ui[m].device)
    BY <1>6, <1>0, <2>2 DEF AcceptSend, UiMoves
  <2> QED
    BY <2>1, <2>2
<1>7. ASSUME NEW m \in Device, AcceptAdd(m)
      PROVE  UiMoves(n)
  <2>1. CASE ~TrustFull(m, ui[m].device)
    BY <1>4, <1>7, <2>1 DEF AcceptAdd
  <2>2. CASE TrustFull(m, ui[m].device)
    BY <1>7, <1>0, <2>2 DEF AcceptAdd, UiMoves
  <2> QED
    BY <2>1, <2>2
<1>8. ASSUME NEW m \in Device, AcceptGrant(m)
      PROVE  UiMoves(n)
  <2>1. ui[m].pc = "grant" /\ Return(m) /\ conns' = Granted(m, ui[m].device)
    BY <1>8 DEF AcceptGrant
  <2>2. CASE UiMoves(n)
    BY <2>2
  <2>3. CASE n = m /\ ui'[n].pc = "idle"
    BY <2>1, <2>3 DEF UiMoves
  <2> QED
    BY <1>0, <2>1, <2>2, <2>3
<1>9. ASSUME NEW m \in Device, NEW q \in Device, Forget(m, q) \/ Block(m, q)
      PROVE  UiMoves(n)
  <2>1. /\ ui[m].pc = "idle"
        /\ ui' = [ui EXCEPT ![m] = [pc |-> "disconnect", device |-> q, end |-> None]]
    BY <1>9 DEF Forget, Block, Revoke
  <2> QED
    BY <1>2, <2>1 DEF UiMoves
<1>10. ASSUME NEW m \in Device, RevokeDisconnect(m)
       PROVE  UiMoves(n)
  BY <1>2, <1>10 DEF RevokeDisconnect, Idle, UiMoves
<1>11. ASSUME NEW m \in Device, Restart(m)
       PROVE  UiMoves(n)
  <2>1. conns' = [conns EXCEPT ![m] = [q \in Device |-> None]] /\ ui' = [ui EXCEPT ![m] = Idle]
    BY <1>11 DEF Restart
  <2>2. \A q \in Device : conns'[m][q] = None
    BY <2>1 DEF TypeOK
  <2> QED
    BY <1>2, <2>1, <2>2 DEF Idle, UiMoves
<1>12. ASSUME NEW e \in End, RunConnection(e)
       PROVE  UiMoves(n)
  BY <1>1, <1>12 DEF RunConnection, OnMessage, CheckPeer, Register, OnDataBeforePairing,
       OnPairRequest, OnPairAccept, OnPairReject, OnText, OnTextAck, FinalizeCheck, FinalizeAdd,
       FinalizeGrant, RecvError, Remove
<1>13. ASSUME NEW m \in Device, AnswerTooLate(m) \/ Reject(m) \/ PumpEvent(m) \/ SendData(m)
       PROVE  UiMoves(n)
  BY <1>1, <1>13 DEF AnswerTooLate, Reject, PumpEvent, SendData
<1>14. ASSUME NEW m \in Device, NEW q \in Device,
              \/ \E s \in Session : Dial(m, q, s)
              \/ Unblock(m, q) \/ Disconnect(m, q) \/ PickConn(m, q) \/ ExpirePairing(m, q)
       PROVE  UiMoves(n)
  BY <1>1, <1>14 DEF Dial, Unblock, Disconnect, PickConn, ExpirePairing
<1>15. CASE (\E s \in Session : Cut(s)) \/ UNCHANGED vars
  BY <1>1, <1>15 DEF Cut, vars
<1> QED
  BY <1>3, <1>5, <1>6, <1>7, <1>8, <1>9, <1>10, <1>11, <1>12, <1>13, <1>14, <1>15
     DEF Next, User, Answer, GuiThread

-----------------------------------------------------------------------------
(* Two confirmations make a pairing *)

\* With room for every device, the trust store refuses none.
LEMMA TrustHasRoom ==
  ASSUME TypeOK, Cardinality(Device) <= MAX_TRUSTED, NEW n \in Device, NEW q \in Device
  PROVE  ~TrustFull(n, q)
<1> SUFFICES ASSUME q \notin Known(n) PROVE ~(Cardinality(Known(n)) >= MAX_TRUSTED)
  BY DEF TrustFull
<1>1. IsFiniteSet(Device) /\ Known(n) \subseteq Device /\ Known(n) # Device
  BY ConstantsAssumption DEF Known
<1>2. /\ Cardinality(Known(n)) \in Nat /\ Cardinality(Device) \in Nat
      /\ Cardinality(Known(n)) <= Cardinality(Device)
      /\ Cardinality(Known(n)) # Cardinality(Device)
  BY <1>1, FS_Subset, FS_CardinalityType
<1> QED
  BY <1>2, ConstantsAssumption

LEMMA NotLostInit == Init => ApprovalNotLost
BY DEF Init, ApprovalNotLost, Ready

LEMMA NotLostNext == TypeInv /\ ConnsOwned /\ ApprovalNotLost /\ [Next]_vars => ApprovalNotLost'
<1> SUFFICES ASSUME TypeInv, ConnsOwned, ApprovalNotLost, [Next]_vars,
                    Cardinality(Device) <= MAX_TRUSTED,
                    NEW n \in Device, NEW q \in Device, Ready(n, q)'
             PROVE  Finalizing(n, q)'
  BY DEF ApprovalNotLost
<1> TypeOK
  BY DEF TypeInv
<1>1. /\ conns'[n][q] # None /\ conns'[n][q].local_ok /\ conns'[n][q].remote_ok
      /\ ~conns'[n][q].authorised
  BY DEF Ready
<1>2. conns[n][q] # None /\ conns'[n][q].end = conns[n][q].end
  BY <1>1, EntryStep DEF EntryMoves, EntryChanges
<1> DEFINE e == conns[n][q].end
<1>3. e \in End /\ Node(e) = n /\ Peer(e) = q /\ thread[e] \in Live
  BY <1>2, ConnEndType DEF ConnsOwned, EntryOwned
<1>4. \A x \in End : thread[x] \in Live /\ Node(x) = n /\ Peer(x) = q => x = e
  BY DEF ConnsOwned, ThreadHasEntry
\* The two confirmations as they are recorded, and as they were before.
<1>5. CASE Ready(n, q)
  <2>1. ~TrustFull(n, q) /\ Finalizing(n, q)
    BY <1>5, TrustHasRoom DEF ApprovalNotLost
  <2>2. conns' # Granted(n, q)
    BY <1>1, <1>2, GrantedAt
  <2>3. CASE thread[e] \in {"finalize", "add", "grant"}
    <3>1. thread'[e] # "done"
      BY <1>1, <1>2, <1>3, OwnedNext DEF ConnsOwned, EntryOwned, Live
    <3>2. ThreadMoves(e)
      BY <1>3, EndStep DEF EndMoves
    <3>3. thread'[e] \in {"finalize", "add", "grant"}
      BY <1>3, <1>5, <2>1, <2>2, <2>3, <3>1, <3>2 DEF ThreadMoves
    <3> QED
      BY <1>2, <3>3 DEF Finalizing
  <2>4. CASE ui[n].device = q /\ ui[n].pc \in {"send", "add", "grant"}
    <3>1. ui'[n].device = q /\ ui'[n].pc \in {"send", "add", "grant"}
      BY <1>1, <1>5, <2>1, <2>2, <2>4, UiStep DEF UiMoves
    <3> QED
      BY <3>1 DEF Finalizing
  <2> QED
    BY <2>1, <2>3, <2>4 DEF Finalizing
<1>6. CASE ~Ready(n, q)
  <2>1. EntryChanges(n, q, conns[n][q], conns'[n][q])
    BY <1>1, <1>2, <1>6, EntryStep DEF EntryMoves, Ready
  <2>2. CASE ~conns[n][q].local_ok
    BY <1>1, <2>1, <2>2 DEF EntryChanges, Finalizing
  <2>3. CASE ~conns[n][q].remote_ok
    <3>1. thread'[e] = "finalize"
      BY <1>1, <1>4, <2>1, <2>3 DEF EntryChanges
    <3> QED
      BY <1>2, <3>1 DEF Finalizing
  <2> QED
    BY <1>1, <1>2, <1>6, <2>1, <2>2, <2>3 DEF EntryChanges, Ready
<1> QED
  BY <1>5, <1>6

\* A connection both users have confirmed is paired, or a thread is at work
\* to pair it: the two threads that record the confirmations never both leave
\* the pairing to the other, whatever else is lost, revoked or restarted.
THEOREM NoApprovalLost == Spec => []ApprovalNotLost
<1>1. Init => TypeInv /\ ConnsOwned /\ ApprovalNotLost
  BY TypeInvInit, OwnedInit, NotLostInit
<1>2. TypeInv /\ ConnsOwned /\ ApprovalNotLost /\ [Next]_vars
        => (TypeInv /\ ConnsOwned /\ ApprovalNotLost)'
  BY TypeInvNext, OwnedNext, NotLostNext
<1> QED
  BY <1>1, <1>2, PTL DEF Spec

-----------------------------------------------------------------------------
(* Texts and their answers *)

LEMMA SentHolds ==
  ASSUME NEW ch \in [End -> Seq(Message)], NEW x \in End, NEW m \in Message,
         NEW e \in End, NEW k, Holds(Sent(ch, x, m), e, k)
  PROVE  Holds(ch, e, k) \/ (k = m /\ e = Other(x) /\ CanSend(x))
<1>1. CASE CanSend(x) /\ e = Other(x)
  <2>1. Sent(ch, x, m)[e] = Append(ch[e], m) /\ ch[e] \in Seq(Message)
    BY <1>1, OtherEnd DEF Sent
  <2> QED
    BY <1>1, <2>1 DEF Holds
<1>2. CASE ~(CanSend(x) /\ e = Other(x))
  <2>1. Sent(ch, x, m)[e] = ch[e]
    BY <1>2, OtherEnd DEF Sent
  <2> QED
    BY <2>1 DEF Holds
<1> QED
  BY <1>1, <1>2

LEMMA RestHolds ==
  ASSUME TypeOK, NEW x \in End, NEW m, Takes(x, m), NEW e \in End, NEW k
  PROVE  /\ Rest(x) \in [End -> Seq(Message)]
         /\ Holds(Rest(x), e, k) => Holds(chan, e, k)
         /\ Holds(chan, x, m)
<1>1. chan[x] \in Seq(Message) /\ chan[x] # <<>> /\ Head(chan[x]) = m
  BY DEF TypeOK, Takes
<1>2. \A y \in End : Rest(x)[y] = IF y = x THEN Tail(chan[x]) ELSE chan[y]
  BY DEF Rest, TypeOK
<1>3. ASSUME NEW i \in DOMAIN Tail(chan[x])
      PROVE  Tail(chan[x])[i] = chan[x][i + 1] /\ i + 1 \in DOMAIN chan[x]
  BY <1>1
<1>4. Holds(Rest(x), e, k) => Holds(chan, e, k)
  BY <1>2, <1>3 DEF Holds
<1>5. chan[x][1] = m /\ 1 \in DOMAIN chan[x]
  BY <1>1
<1>6. Rest(x) \in [End -> Seq(Message)]
  BY <1>1 DEF Rest, TypeOK
<1> QED
  BY <1>4, <1>5, <1>6 DEF Holds

LEMMA ChanStep ==
  ASSUME TypeInv, ConnsOwned, [Next]_vars, NEW e \in End
  PROVE  ChanMoves(e)
<1> TypeOK
  BY DEF TypeInv
<1> USE ConstantsAssumption, OtherEnd DEF netVars, dataVars, uiVars
<1>1. ASSUME chan'[e] \in {chan[e], <<>>}
      PROVE  ChanMoves(e)
  BY <1>1 DEF ChanMoves, Holds
<1>2. ASSUME NEW x \in End, NEW m \in {"PairRequest", "PairAccept", "PairReject"},
             chan' = Sent(chan, x, m)
      PROVE  ChanMoves(e)
  <2>1. chan \in [End -> Seq(Message)] /\ m \in Message
    BY DEF TypeOK, Message
  <2> QED
    BY <1>2, <2>1, SentHolds DEF ChanMoves
<1>3. ASSUME NEW x \in End, Register(x)
      PROVE  ChanMoves(e)
  BY <1>1, <1>2, <1>3 DEF Register
<1>4. ASSUME NEW x \in End, NEW m, Takes(x, m), chan' = Rest(x)
      PROVE  ChanMoves(e)
  BY <1>4, RestHolds DEF ChanMoves
<1>5. ASSUME NEW x \in End, \/ OnDataBeforePairing(x) \/ OnPairRequest(x) \/ OnPairAccept(x)
                            \/ OnPairReject(x) \/ OnTextAck(x)
      PROVE  ChanMoves(e)
  BY <1>4, <1>5 DEF OnDataBeforePairing, OnPairRequest, OnPairAccept, OnPairReject, OnTextAck
\* The acknowledgement goes out on the connection the text came in on.
<1>6. ASSUME NEW x \in End, OnText(x)
      PROVE  ChanMoves(e)
  <2>1. thread[x] \in Live /\ Takes(x, "Text")
    BY <1>6 DEF OnText, Takes, Live
  <2>2. chan' = Sent(Rest(x), x, "TextAck") /\ "TextAck" \in Message
    BY <1>6, <2>1 DEF OnText, ConnsOwned, ThreadHasEntry, Message
  <2>3. Rest(x) \in [End -> Seq(Message)] /\ Holds(chan, x, "Text")
    BY <2>1, RestHolds
  <2>4. ASSUME NEW k, Holds(chan', e, k)
        PROVE  Holds(chan, e, k) \/ (k = "TextAck" /\ e = Other(x) /\ CanSend(x))
    BY <2>1, <2>2, <2>3, <2>4, SentHolds, RestHolds
  <2>5. e = Other(x) /\ CanSend(x) => x = Other(e) /\ ~down[e]
    BY DEF CanSend
  <2> QED
    BY <2>3, <2>4, <2>5 DEF ChanMoves
<1>7. ASSUME NEW x \in End, Remove(x)
      PROVE  ChanMoves(e)
  BY <1>1, <1>7 DEF Remove, TypeOK
<1>8. ASSUME NEW n \in Device, Reject(n)
      PROVE  ChanMoves(e)
  <2>1. prompt[n].device \in Device
    BY <1>8 DEF Reject, TypeOK, PairingRequired
  <2> QED
    BY <1>2, <1>8, <2>1, ConnEndType DEF Reject
<1>9. ASSUME NEW n \in Device, AcceptSend(n)
      PROVE  ChanMoves(e)
  BY <1>2, <1>9 DEF AcceptSend, TypeInv, ActorsOK
<1>10. ASSUME NEW n \in Device, SendData(n)
       PROVE  ChanMoves(e)
  <2>1. data[n] \in End /\ chan' = Sent(chan, data[n], "Text") /\ "Text" \in Message
    BY <1>10 DEF SendData, TypeOK, Message
  <2>2. chan \in [End -> Seq(Message)]
    BY DEF TypeOK
  <2> QED
    BY <2>1, <2>2, SentHolds DEF ChanMoves
<1>11. ASSUME NEW n \in Device, Restart(n)
       PROVE  ChanMoves(e)
  BY <1>1, <1>11 DEF Restart
<1>12. ASSUME NEW x \in End,
              \/ \E ok, allow \in BOOLEAN : CheckPeer(x, ok, allow)
              \/ FinalizeCheck(x) \/ FinalizeAdd(x) \/ FinalizeGrant(x) \/ RecvError(x)
       PROVE  ChanMoves(e)
  BY <1>1, <1>12 DEF CheckPeer, FinalizeCheck, FinalizeAdd, FinalizeGrant, RecvError
<1>13. ASSUME NEW m \in Device,
              \/ AnswerTooLate(m) \/ Accept(m) \/ PumpEvent(m) \/ AcceptLocalOk(m) \/ AcceptAdd(m)
              \/ AcceptGrant(m) \/ RevokeDisconnect(m)
       PROVE  ChanMoves(e)
  BY <1>1, <1>13 DEF AnswerTooLate, Accept, PumpEvent, AcceptLocalOk, AcceptAdd, AcceptGrant,
                     RevokeDisconnect
<1>14. ASSUME NEW m \in Device, NEW p \in Device,
              \/ \E s \in Session : Dial(m, p, s)
              \/ Forget(m, p) \/ Block(m, p) \/ Unblock(m, p) \/ Disconnect(m, p)
              \/ PickConn(m, p) \/ ExpirePairing(m, p)
       PROVE  ChanMoves(e)
  BY <1>1, <1>14 DEF Dial, Forget, Block, Revoke, Unblock, Disconnect, PickConn, ExpirePairing
<1>15. CASE (\E s \in Session : Cut(s)) \/ UNCHANGED vars
  BY <1>1, <1>15 DEF Cut, vars
<1> QED
  BY <1>3, <1>5, <1>6, <1>7, <1>8, <1>9, <1>10, <1>11, <1>12, <1>13, <1>14, <1>15
     DEF Next, RunConnection, OnMessage, User, Answer, GuiThread

LEMMA DataStep ==
  ASSUME TypeInv, [Next]_vars, NEW n \in Device
  PROVE  DataMoves(n)
<1> TypeOK
  BY DEF TypeInv
<1> USE DEF netVars, dataVars, uiVars
<1>1. ASSUME data' = data
      PROVE  DataMoves(n)
  BY <1>1 DEF DataMoves
<1>2. ASSUME NEW m \in Device, SendData(m) \/ Restart(m)
      PROVE  DataMoves(n)
  BY <1>2 DEF SendData, Restart, DataMoves, TypeOK
<1>3. ASSUME NEW m \in Device, NEW q \in Device, PickConn(m, q)
      PROVE  DataMoves(n)
  BY <1>3 DEF PickConn, DataMoves, TypeOK
<1>4. ASSUME NEW e \in End, RunConnection(e)
      PROVE  DataMoves(n)
  BY <1>1, <1>4 DEF RunConnection, OnMessage, CheckPeer, Register, OnDataBeforePairing,
       OnPairRequest, OnPairAccept, OnPairReject, OnText, OnTextAck, FinalizeCheck, FinalizeAdd,
       FinalizeGrant, RecvError, Remove
<1>5. ASSUME NEW m \in Device, Answer(m) \/ GuiThread(m)
      PROVE  DataMoves(n)
  BY <1>1, <1>5 DEF Answer, AnswerTooLate, Reject, Accept, GuiThread, PumpEvent, AcceptLocalOk,
       AcceptSend, AcceptAdd, AcceptGrant, RevokeDisconnect
<1>6. ASSUME NEW m \in Device, NEW q \in Device,
             \/ \E s \in Session : Dial(m, q, s)
             \/ Forget(m, q) \/ Block(m, q) \/ Unblock(m, q) \/ Disconnect(m, q) \/ ExpirePairing(m, q)
      PROVE  DataMoves(n)
  BY <1>1, <1>6 DEF Dial, Forget, Block, Revoke, Unblock, Disconnect, ExpirePairing
<1>7. CASE (\E s \in Session : Cut(s)) \/ UNCHANGED vars
  BY <1>1, <1>7 DEF Cut, vars
<1> QED
  BY <1>2, <1>3, <1>4, <1>5, <1>6, <1>7 DEF Next, User

TextInv == ClosedWhenLeaving /\ TextsFromPaired

LEMMA TextInit == Init => TextInv
<1> SUFFICES ASSUME Init PROVE TextInv
  OBVIOUS
<1>1. ClosedWhenLeaving
  BY DEF Init, ClosedWhenLeaving
<1>2. TextsFromPaired
  BY DEF Init, TextsFromPaired, Holds
<1> QED
  BY <1>1, <1>2 DEF TextInv

\* A paired connection stays so until its thread has gone, and by then
\* nothing is left in its socket.
LEMMA PairedStays ==
  ASSUME TypeInv, ConnsOwned, [Next]_vars, NEW e \in End
  PROVE  /\ PairedEnd(e) => PairedEnd(e)' \/ (thread'[e] = "done" /\ chan'[e] = <<>>)
         /\ SenderOK(e) => SenderOK(e)'
<1>1. EndMoves(e) /\ ConnsOwned'
  BY EndStep, OwnedNext
<1>2. PairedEnd(e) => PairedEnd(e)' \/ (thread'[e] = "done" /\ chan'[e] = <<>>)
  <2> SUFFICES ASSUME PairedEnd(e), ~(thread'[e] = "done" /\ chan'[e] = <<>>) PROVE PairedEnd(e)'
    OBVIOUS
  <2>1. thread[e] \in Live /\ Authorised(Node(e), Peer(e))
    BY DEF PairedEnd
  <2>2. thread'[e] \in Live
    BY <1>1, <2>1 DEF EndMoves, ThreadMoves, Live
  <2>3. owner'[e] = owner[e] /\ owner'[Other(e)] = owner[Other(e)]
    BY <1>1, <2>1 DEF EndMoves, Live
  <2> DEFINE n == Node(e)
             q == Peer(e)
  <2>4. n \in Device /\ q \in Device
    BY <2>1, LiveOwned
  <2>5. conns'[n][q] # None
    BY <1>1, <2>2, <2>3 DEF ConnsOwned, ThreadHasEntry, Node, Peer
  <2>6. conns'[n][q].authorised
    <3>1. EntryMoves(n, q)
      BY <2>4, EntryStep
    <3> QED
      BY <2>1, <2>5, <3>1 DEF EntryMoves, EntryChanges, Authorised
  <2> QED
    BY <2>2, <2>3, <2>5, <2>6 DEF PairedEnd, Authorised, Node, Peer
<1>3. thread[e] = "done" => thread'[e] = "done"
  BY <1>1 DEF EndMoves, ThreadMoves
<1> QED
  BY <1>2, <1>3 DEF SenderOK

LEMMA TextNext == TypeInv /\ ConnsOwned /\ TextInv /\ [Next]_vars => TextInv'
<1> SUFFICES ASSUME TypeInv, ConnsOwned, TextInv, [Next]_vars PROVE TextInv'
  OBVIOUS
<1> TypeOK /\ ClosedWhenLeaving /\ TextsFromPaired
  BY DEF TypeInv, TextInv
<1> USE OtherEnd
<1>1. ClosedWhenLeaving'
  <2> SUFFICES ASSUME NEW e \in End, thread'[e] \in {"removing", "done"} PROVE down'[e]
    BY DEF ClosedWhenLeaving
  <2>1. EndMoves(e)
    BY EndStep
  <2> QED
    BY <2>1 DEF EndMoves, ThreadMoves, ClosedWhenLeaving
<1>2. ASSUME NEW n \in Device, data'[n] # None
      PROVE  \E x \in End : data'[n] = x /\ SenderOK(x)'
  <2>1. \E x \in End : data'[n] = x /\ SenderOK(x)
    <3>1. CASE data'[n] = data[n]
      BY <1>2, <3>1 DEF TextsFromPaired, TypeOK
    <3>2. ASSUME NEW q \in Device, Authorised(n, q), data'[n] = conns[n][q].end
          PROVE  data'[n] \in End /\ SenderOK(conns[n][q].end)
      BY <3>2, ConnEndType DEF ConnsOwned, EntryOwned, Authorised, SenderOK, PairedEnd
    <3> QED
      BY <1>2, <3>1, <3>2, DataStep DEF DataMoves
  <2> QED
    BY <2>1, PairedStays
<1>3. ASSUME NEW e \in End, Holds(chan', e, "Text")
      PROVE  SenderOK(Other(e))'
  <2>1. SenderOK(Other(e))
    BY <1>3, ChanStep, ConstantsAssumption DEF ChanMoves, TextsFromPaired
  <2> QED
    BY <2>1, PairedStays
\* The text was sent from this end, which has not closed: it is still paired.
<1>4. ASSUME NEW e \in End, Holds(chan', e, "TextAck")
      PROVE  PairedEnd(e)'
  <2>1. PairedEnd(e)
    <3>1. CASE Holds(chan, e, "TextAck")
      BY <3>1 DEF TextsFromPaired
    <3>2. CASE Holds(chan, Other(e), "Text") /\ ~down[e]
      <4>1. SenderOK(e)
        BY <3>2 DEF TextsFromPaired
      <4> QED
        BY <3>2, <4>1 DEF SenderOK, ClosedWhenLeaving
    <3> QED
      BY <1>4, <3>1, <3>2, ChanStep DEF ChanMoves
  <2>2. chan'[e] # <<>>
    BY <1>4 DEF Holds
  <2> QED
    BY <2>1, <2>2, PairedStays
<1>5. (\A n \in Device : data[n] # None => SenderOK(data[n]))'
  BY <1>2 DEF SenderOK, PairedEnd, Authorised, Node, Peer
<1>6. /\ (\A e \in End : Holds(chan, e, "Text") => SenderOK(Other(e)))'
      /\ (\A e \in End : Holds(chan, e, "TextAck") => PairedEnd(e))'
  BY <1>3, <1>4 DEF Holds
<1> QED
  BY <1>1, <1>5, <1>6 DEF TextInv, TextsFromPaired

\* The acknowledgement of a text never meets the rule that an unpaired peer
\* may send no data: its receiver sent the text on this connection, as paired.
THEOREM AckMeetsPairing == Spec => []AckNotRefused
<1>1. Init => TypeInv /\ ConnsOwned /\ TextInv
  BY TypeInvInit, OwnedInit, TextInit
<1>2. TypeInv /\ ConnsOwned /\ TextInv /\ [Next]_vars => (TypeInv /\ ConnsOwned /\ TextInv)'
  BY TypeInvNext, OwnedNext, TextNext
<1>3. TextInv => AckNotRefused
  BY DEF TextInv, TextsFromPaired, PairedEnd, Holds, AckNotRefused
<1> QED
  BY <1>1, <1>2, <1>3, PTL DEF Spec

-----------------------------------------------------------------------------
(* Which code a pairing rests on *)

\* A new event, and the head taken off the queue.
LEMMA EventQueued ==
  ASSUME TypeOK, NEW m \in Device, NEW ev, ev \in Event, events' = [events EXCEPT ![m] = Append(@, ev)],
         NEW n \in Device, NEW i \in DOMAIN events'[n]
  PROVE  \/ \E j \in DOMAIN events[n] : events'[n][i] = events[n][j]
         \/ n = m /\ events'[n][i] = ev
<1>1. events[n] \in Seq(Event) /\ events'[n] = IF n = m THEN Append(events[n], ev) ELSE events[n]
  BY DEF TypeOK
<1> QED
  BY <1>1

LEMMA EventsStep ==
  ASSUME TypeInv, ConnsOwned, [Next]_vars, NEW n \in Device
  PROVE  EventsMove(n)
<1> TypeOK
  BY DEF TypeInv
<1> USE ConstantsAssumption, OtherEnd DEF netVars, dataVars, uiVars
<1>1. ASSUME events' = events
      PROVE  EventsMove(n)
  BY <1>1 DEF EventsMove
<1>2. ASSUME NEW m \in Device, NEW q \in Device, events' = Finished(m, q)
      PROVE  EventsMove(n)
  <2> DEFINE ev == [kind |-> "PairingFinished", device |-> q]
  <2>1. ev \in Event /\ ev.kind = "PairingFinished" /\ events' = [events EXCEPT ![m] = Append(@, ev)]
    BY <1>2 DEF Finished, Event, PairingFinished
  <2> HIDE DEF ev
  <2> QED
    BY <2>1, EventQueued DEF EventsMove
\* The code is that of a connection with a live thread.
<1>3. ASSUME NEW e \in End, thread'[e] \in Live, owner' = owner, Node(e) \in Device, Peer(e) \in Device,
             events' = Prompted(Node(e), Peer(e), e[1])
      PROVE  EventsMove(n)
  <2> DEFINE ev == [kind |-> "PairingRequired", device |-> Peer(e), session |-> e[1]]
  <2>1. /\ ev \in Event /\ ev.device = Peer(e) /\ ev.session = e[1]
        /\ events' = [events EXCEPT ![Node(e)] = Append(@, ev)]
    BY <1>3 DEF Prompted, Event, PairingRequired, End
  <2> HIDE DEF ev
  <2> QED
    BY <1>3, <2>1, EventQueued DEF EventsMove, Node, Peer
<1>4. ASSUME NEW e \in End, Register(e)
      PROVE  EventsMove(n)
  <2>1. Node(e) \in Device /\ Peer(e) \in Device /\ owner' = owner
    BY <1>4 DEF Register, TypeInv, ActorsOK, Node, Peer
  <2>2. CASE events' = events
    BY <1>1, <2>2
  <2>3. CASE Goto(e, "loop") /\ events' = Prompted(Node(e), Peer(e), e[1])
    BY <1>3, <2>1, <2>3, OneThread DEF Live
  <2> QED
    BY <1>4, <2>2, <2>3 DEF Register
<1>5. ASSUME NEW e \in End, OnPairRequest(e)
      PROVE  EventsMove(n)
  <2>1. Node(e) \in Device /\ Peer(e) \in Device /\ owner' = owner /\ thread[e] \in Live
    BY <1>5 DEF OnPairRequest, Takes, TypeInv, ActorsOK, Node, Peer, Live
  <2>2. CASE events' = events
    BY <1>1, <2>2
  <2>3. CASE thread' = thread /\ events' = Prompted(Node(e), Peer(e), conns[Node(e)][Peer(e)].end[1])
    <3>1. conns[Node(e)][Peer(e)].end = e
      BY <2>1 DEF ConnsOwned, ThreadHasEntry
    <3> QED
      BY <1>3, <2>1, <2>3, <3>1
  <2> QED
    BY <1>5, <2>2, <2>3 DEF OnPairRequest
<1>6. ASSUME NEW e \in End, OnPairReject(e) \/ FinalizeGrant(e)
      PROVE  EventsMove(n)
  <2>1. Node(e) \in Device /\ Peer(e) \in Device
    BY <1>6 DEF OnPairReject, Takes, FinalizeGrant, TypeInv, ActorsOK, Node, Peer
  <2> QED
    BY <1>2, <1>6, <2>1 DEF OnPairReject, FinalizeGrant
<1>7. ASSUME NEW m \in Device, Reject(m) \/ AcceptGrant(m)
      PROVE  EventsMove(n)
  <2>1. CASE Reject(m)
    <3>1. prompt[m].device \in Device /\ events' = Finished(m, prompt[m].device)
      BY <2>1 DEF Reject, TypeOK, PairingRequired
    <3> QED
      BY <1>2, <3>1
  <2>2. CASE AcceptGrant(m)
    <3>1. ui[m].device \in Device /\ events' = Finished(m, ui[m].device)
      BY <2>2 DEF AcceptGrant, TypeInv, ActorsOK
    <3> QED
      BY <1>2, <3>1
  <2> QED
    BY <1>7, <2>1, <2>2
<1>8. ASSUME NEW m \in Device, PumpEvent(m)
      PROVE  EventsMove(n)
  <2>1. /\ events[m] \in Seq(Event) /\ events[m] # <<>>
        /\ events'[n] = IF n = m THEN Tail(events[n]) ELSE events[n]
    BY <1>8 DEF PumpEvent, TypeOK
  <2>2. ASSUME NEW i \in DOMAIN Tail(events[m])
        PROVE  Tail(events[m])[i] = events[m][i + 1] /\ i + 1 \in DOMAIN events[m]
    BY <2>1
  <2> QED
    BY <2>1, <2>2 DEF EventsMove
<1>9. ASSUME NEW m \in Device, Restart(m)
      PROVE  EventsMove(n)
  <2>1. events'[n] = events[n] \/ events'[n] = <<>>
    BY <1>9 DEF Restart, TypeOK
  <2> QED
    BY <2>1 DEF EventsMove
<1>10. ASSUME NEW e \in End,
              \/ \E ok, allow \in BOOLEAN : CheckPeer(e, ok, allow)
              \/ OnDataBeforePairing(e) \/ OnPairAccept(e) \/ OnText(e) \/ OnTextAck(e)
              \/ FinalizeCheck(e) \/ FinalizeAdd(e) \/ RecvError(e) \/ Remove(e)
       PROVE  EventsMove(n)
  BY <1>1, <1>10 DEF CheckPeer, OnDataBeforePairing, OnPairAccept, OnText, OnTextAck,
                     FinalizeCheck, FinalizeAdd, RecvError, Remove
<1>11. ASSUME NEW m \in Device,
              \/ AnswerTooLate(m) \/ Accept(m) \/ AcceptLocalOk(m) \/ AcceptSend(m) \/ AcceptAdd(m)
              \/ RevokeDisconnect(m) \/ SendData(m)
       PROVE  EventsMove(n)
  BY <1>1, <1>11 DEF AnswerTooLate, Accept, AcceptLocalOk, AcceptSend, AcceptAdd, RevokeDisconnect,
                     SendData
<1>12. ASSUME NEW m \in Device, NEW p \in Device,
              \/ \E s \in Session : Dial(m, p, s)
              \/ Forget(m, p) \/ Block(m, p) \/ Unblock(m, p) \/ Disconnect(m, p)
              \/ PickConn(m, p) \/ ExpirePairing(m, p)
       PROVE  EventsMove(n)
  BY <1>1, <1>12 DEF Dial, Forget, Block, Revoke, Unblock, Disconnect, PickConn, ExpirePairing
<1>13. CASE (\E s \in Session : Cut(s)) \/ UNCHANGED vars
  BY <1>1, <1>13 DEF Cut, vars
<1> QED
  BY <1>4, <1>5, <1>6, <1>7, <1>8, <1>9, <1>10, <1>11, <1>12, <1>13
     DEF Next, RunConnection, OnMessage, User, Answer, GuiThread

LEMMA PromptStep ==
  ASSUME TypeInv, [Next]_vars
  PROVE  ApprovalsMove /\ \A n \in Device : PromptMoves(n)
<1> TypeOK
  BY DEF TypeInv
<1> USE DEF netVars, dataVars, uiVars
<1> DEFINE Goal == ApprovalsMove /\ \A n \in Device : PromptMoves(n)
<1>1. ASSUME prompt' = prompt, approvals' = approvals
      PROVE  Goal
  BY <1>1 DEF PromptMoves, ApprovalsMove
<1>2. ASSUME NEW m \in Device, prompt' = [prompt EXCEPT ![m] = None], approvals' = approvals
      PROVE  Goal
  BY <1>2 DEF PromptMoves, ApprovalsMove, TypeOK
<1>3. ASSUME NEW m \in Device, PumpEvent(m)
      PROVE  Goal
  <2>1. events[m] \in Seq(Event) /\ events[m] # <<>> /\ approvals' = approvals
    BY <1>3 DEF PumpEvent, TypeOK
  <2>2. Head(events[m]) = events[m][1] /\ 1 \in DOMAIN events[m]
    BY <2>1
  <2>3. /\ \A n \in Device \ {m} : prompt'[n] = prompt[n]
        /\ \/ Head(events[m]).kind = "PairingRequired" /\ prompt'[m] = Head(events[m])
           \/ prompt'[m] \in {prompt[m], None}
    BY <1>3 DEF PumpEvent, TypeOK
  <2> QED
    BY <2>1, <2>2, <2>3 DEF PromptMoves, ApprovalsMove
<1>4. ASSUME NEW m \in Device, Accept(m)
      PROVE  Goal
  BY <1>4 DEF Accept, PromptMoves, ApprovalsMove
<1>5. ASSUME NEW m \in Device,
             AnswerTooLate(m) \/ Reject(m) \/ AcceptGrant(m) \/ Restart(m)
      PROVE  Goal
  BY <1>2, <1>5 DEF AnswerTooLate, Reject, AcceptGrant, Return, Restart
<1>6. ASSUME NEW m \in Device, AcceptSend(m) \/ AcceptAdd(m)
      PROVE  Goal
  BY <1>1, <1>2, <1>6 DEF AcceptSend, AcceptAdd, Return
<1>7. ASSUME NEW e \in End, RunConnection(e)
      PROVE  Goal
  BY <1>1, <1>7 DEF RunConnection, OnMessage, CheckPeer, Register, OnDataBeforePairing,
       OnPairRequest, OnPairAccept, OnPairReject, OnText, OnTextAck, FinalizeCheck, FinalizeAdd,
       FinalizeGrant, RecvError, Remove
<1>8. ASSUME NEW m \in Device, AcceptLocalOk(m) \/ RevokeDisconnect(m) \/ SendData(m)
      PROVE  Goal
  BY <1>1, <1>8 DEF AcceptLocalOk, RevokeDisconnect, SendData
<1>9. ASSUME NEW m \in Device, NEW q \in Device,
             \/ \E s \in Session : Dial(m, q, s)
             \/ Forget(m, q) \/ Block(m, q) \/ Unblock(m, q) \/ Disconnect(m, q)
             \/ PickConn(m, q) \/ ExpirePairing(m, q)
      PROVE  Goal
  BY <1>1, <1>9 DEF Dial, Forget, Block, Revoke, Unblock, Disconnect, PickConn, ExpirePairing
<1>10. CASE (\E s \in Session : Cut(s)) \/ UNCHANGED vars
  BY <1>1, <1>10 DEF Cut, vars
<1> QED
  BY <1>3, <1>4, <1>5, <1>6, <1>7, <1>8, <1>9, <1>10 DEF Next, User, Answer, GuiThread

CodeInv == ShownFirst /\ ConfirmedFirst

LEMMA CodeInit == Init => CodeInv
<1> SUFFICES ASSUME Init PROVE CodeInv
  OBVIOUS
<1>1. ShownFirst
  <2>1. ASSUME NEW n, NEW q, NEW s \in Session
        PROVE  <<n, q, s>> \notin approvals
    BY ConstantsAssumption DEF Init
  <2>2. /\ \A e \in End : owner[e] = None
        /\ \A m \in Device : events[m] = <<>> /\ prompt[m] = None
    BY DEF Init
  <2> QED
    BY <2>1, <2>2 DEF ShownFirst
<1>2. ConfirmedFirst
  BY DEF Init, ConfirmedFirst, Idle
<1> QED
  BY <1>1, <1>2 DEF CodeInv

LEMMA ShownStays ==
  ASSUME TypeInv, [Next]_vars, NEW n, NEW q, NEW s, Shown(n, q, s)
  PROVE  Shown(n, q, s)'
<1>1. PICK r \in Role : /\ s \in Session /\ Node(<<s, r>>) = n /\ Peer(<<s, r>>) = q
                        /\ thread[<<s, r>>] \in Live \cup {"done"}
  BY DEF Shown
<1> DEFINE e == <<s, r>>
<1>2. e \in End
  BY <1>1 DEF End
<1>3. owner'[e] = n /\ owner'[Other(e)] = q /\ thread'[e] \in Live \cup {"done"}
  BY <1>1, <1>2, EndStep DEF EndMoves, ThreadMoves, Live, Node, Peer
<1> QED
  BY <1>1, <1>3 DEF Shown, Node, Peer

LEMMA ShownNext == TypeInv /\ ConnsOwned /\ ShownFirst /\ [Next]_vars => ShownFirst'
<1> SUFFICES ASSUME TypeInv, ConnsOwned, ShownFirst, [Next]_vars PROVE ShownFirst'
  OBVIOUS
<1>1. ASSUME NEW e \in End, owner'[e] # None
      PROVE  owner'[e] # owner'[Other(e)]
  BY <1>1, EndStep DEF EndMoves, ShownFirst
<1>2. ASSUME NEW n \in Device, NEW i \in DOMAIN events'[n], events'[n][i].kind = "PairingRequired"
      PROVE  \E q, s : q = events'[n][i].device /\ s = events'[n][i].session /\ Shown(n, q, s)'
  <2>1. CASE \E j \in DOMAIN events[n] : events'[n][i] = events[n][j]
    BY <1>2, <2>1, ShownStays DEF ShownFirst
  <2>2. ASSUME NEW e \in End, thread'[e] \in Live, owner[e] = n, owner[Other(e)] = events'[n][i].device,
               owner' = owner, events'[n][i].session = e[1]
        PROVE  \E q, s : q = events'[n][i].device /\ s = events'[n][i].session /\ Shown(n, q, s)'
    <3>1. e[1] \in Session /\ e[2] \in Role /\ e = <<e[1], e[2]>>
      BY DEF End
    <3>2. Shown(n, owner[Other(e)], e[1])'
      BY <2>2, <3>1 DEF Shown, Node, Peer
    <3> QED
      BY <2>2, <3>2
  <2> QED
    BY <1>2, <2>1, <2>2, EventsStep DEF EventsMove
<1>3. ASSUME NEW n \in Device, prompt'[n] # None
      PROVE  \E q, s : q = prompt'[n].device /\ s = prompt'[n].session /\ Shown(n, q, s)'
  BY <1>3, PromptStep, ShownStays DEF PromptMoves, ShownFirst
<1>4. ASSUME NEW n \in Device, NEW q \in Device, NEW s \in Session, <<n, q, s>> \in approvals'
      PROVE  Shown(n, q, s)'
  BY <1>4, PromptStep, ShownStays DEF ApprovalsMove, ShownFirst
<1>5. (\A e \in End : owner[e] # None => owner[e] # owner[Other(e)])'
  BY <1>1
<1>6. (\A n \in Device : \A i \in DOMAIN events[n] :
         events[n][i].kind = "PairingRequired" => Shown(n, events[n][i].device, events[n][i].session))'
  BY <1>2
<1>7. (\A n \in Device : prompt[n] # None => Shown(n, prompt[n].device, prompt[n].session))'
  BY <1>3
<1>8. (\A n, q \in Device : \A s \in Session : <<n, q, s>> \in approvals => Shown(n, q, s))'
  BY <1>4
<1> QED
  BY <1>5, <1>6, <1>7, <1>8 DEF ShownFirst

LEMMA ConfirmedNext == TypeInv /\ ConfirmedFirst /\ [Next]_vars => ConfirmedFirst'
<1> SUFFICES ASSUME TypeInv, ConfirmedFirst, [Next]_vars PROVE ConfirmedFirst'
  OBVIOUS
<1> TypeOK
  BY DEF TypeInv
<1>1. \A n, q : Confirmed(n, q) => Confirmed(n, q)'
  BY PromptStep DEF ApprovalsMove, Confirmed
<1>2. ASSUME NEW n \in Device, NEW q \in Device, conns'[n][q] # None, conns'[n][q].local_ok
      PROVE  Confirmed(n, q)
  BY <1>2, EntryStep DEF EntryMoves, EntryChanges, ConfirmedFirst
<1>3. ASSUME NEW e \in End, thread'[e] \in {"add", "grant"}
      PROVE  /\ Confirmed(Node(e), Peer(e))
             /\ owner'[e] = owner[e] /\ owner'[Other(e)] = owner[Other(e)]
  <2>1. EndMoves(e)
    BY EndStep
  <2>2. thread[e] # "none" /\ owner'[e] = owner[e] /\ owner'[Other(e)] = owner[Other(e)]
    BY <1>3, <2>1 DEF EndMoves, ThreadMoves
  <2>3. Node(e) \in Device /\ Peer(e) \in Device
    BY <2>2 DEF TypeInv, ActorsOK, Node, Peer
  <2>4. thread[e] \in {"add", "grant"} \/ Ready(Node(e), Peer(e))
    BY <1>3, <2>1 DEF EndMoves, ThreadMoves
  <2> QED
    BY <2>2, <2>3, <2>4 DEF ConfirmedFirst, Ready
<1>4. ASSUME NEW n \in Device, ui'[n].pc \in {"local_ok", "send", "add", "grant"}
      PROVE  \E q : q = ui'[n].device /\ Confirmed(n, q)'
  <2>1. CASE /\ prompt[n] # None /\ ui'[n].device = prompt[n].device
             /\ <<n, prompt[n].device, prompt[n].session>> \in approvals'
    <3>1. prompt[n].session \in Session
      BY <2>1 DEF TypeOK, PairingRequired
    <3> QED
      BY <2>1, <3>1 DEF Confirmed
  <2>2. CASE ui'[n].device = ui[n].device /\ ui[n].pc \in {"local_ok", "send", "add", "grant"}
    BY <1>1, <2>2 DEF ConfirmedFirst
  <2> QED
    BY <1>4, <2>1, <2>2, UiStep DEF UiMoves
<1>5. (\A n, q \in Device : conns[n][q] # None /\ conns[n][q].local_ok => Confirmed(n, q))'
  BY <1>1, <1>2
<1>6. (\A e \in End : thread[e] \in {"add", "grant"} => Confirmed(Node(e), Peer(e)))'
  BY <1>1, <1>3 DEF Node, Peer
<1>7. (\A n \in Device : ui[n].pc \in {"local_ok", "send", "add", "grant"} => Confirmed(n, ui[n].device))'
  BY <1>4
<1> QED
  BY <1>5, <1>6, <1>7 DEF ConfirmedFirst

LEMMA CodeStep ==
  ASSUME TypeInv, ConnsOwned, CodeInv, [Next]_vars, NEW n \in Device, NEW q \in Device,
         conns[n][q] # None, ~Authorised(n, q), Authorised(n, q)'
  PROVE  \E s \in Session :
            /\ <<n, q, s>> \in approvals
            /\ \/ s = conns[n][q].end[1]
               \/ \A r \in Role : Node(<<s, r>>) = n => thread[<<s, r>>] = "done"
<1>1. Confirmed(n, q)
  <2>1. conns'[n][q] # None /\ conns'[n][q].authorised /\ ~conns[n][q].authorised
    BY DEF Authorised
  <2> QED
    BY <2>1, EntryStep DEF EntryMoves, EntryChanges, CodeInv, ConfirmedFirst
<1>2. PICK s \in Session : <<n, q, s>> \in approvals /\ Shown(n, q, s)
  BY <1>1 DEF Confirmed, CodeInv, ShownFirst
<1>3. PICK r \in Role : Node(<<s, r>>) = n /\ Peer(<<s, r>>) = q /\ thread[<<s, r>>] \in Live \cup {"done"}
  BY <1>2 DEF Shown
<1> DEFINE e == <<s, r>>
<1>4. e \in End
  BY DEF End
<1>5. CASE thread[e] \in Live
  <2>1. conns[n][q].end = e
    BY <1>3, <1>4, <1>5 DEF ConnsOwned, ThreadHasEntry
  <2> QED
    BY <1>2, <2>1
\* The other end of the session is on another device.
<1>6. CASE thread[e] = "done"
  <2>1. \A x \in Role : x = r \/ <<s, x>> = Other(e)
    BY DEF Role, Other
  <2>2. Node(Other(e)) # n
    BY <1>3, <1>4, ConstantsAssumption DEF CodeInv, ShownFirst, Node
  <2>3. \A x \in Role : Node(<<s, x>>) = n => thread[<<s, x>>] = "done"
    BY <1>6, <2>1, <2>2
  <2> QED
    BY <1>2, <2>3
<1> QED
  BY <1>3, <1>5, <1>6

\* A connection becomes paired only after its user has confirmed, for that
\* device, the code of this very connection or of one that has ended.
THEOREM PairedOnShownCode == Spec => CodeOfThisOrLostSession
<1> DEFINE Inv == TypeInv /\ ConnsOwned /\ CodeInv
           Step == \A n, q \in Device :
                     conns[n][q] # None /\ ~Authorised(n, q) /\ Authorised(n, q)'
                       => \E s \in Session :
                             /\ <<n, q, s>> \in approvals
                             /\ \/ s = conns[n][q].end[1]
                                \/ \A r \in Role : Node(<<s, r>>) = n => thread[<<s, r>>] = "done"
<1>1. Init => Inv
  BY TypeInvInit, OwnedInit, CodeInit
<1>2. Inv /\ [Next]_vars => Inv'
  BY TypeInvNext, OwnedNext, ShownNext, ConfirmedNext DEF CodeInv
<1>3. Inv /\ [Next]_vars => [Step]_vars
  BY CodeStep
<1> QED
  BY <1>1, <1>2, <1>3, PTL DEF Spec, CodeOfThisOrLostSession

=============================================================================
