------------------------ MODULE PairingSafetyProofs ------------------------
(* The safety invariants of Pairing, for every set of devices and sessions. *)
EXTENDS PairingProofs

-----------------------------------------------------------------------------
(* Entries of the connection table and connection threads *)

\* A step that keeps every thread on its side of Live, and every entry with
\* its end, keeps ConnsOwned.
SameEntries(cs) ==
    \A n, q \in Device :
        /\ cs[n][q] = None <=> conns[n][q] = None
        /\ conns[n][q] # None => cs[n][q].end = conns[n][q].end

LEMMA LiveOwned ==
  ASSUME TypeInv, NEW e \in End, thread[e] \in Live
  PROVE  Node(e) \in Device /\ Peer(e) \in Device
BY DEF TypeInv, ActorsOK, Live, Node, Peer

LEMMA SameEntriesOwned ==
  ASSUME TypeInv, ConnsOwned, owner' = owner, SameEntries(conns'),
         \A e \in End : thread'[e] \in Live <=> thread[e] \in Live
  PROVE  ConnsOwned'
<1>1. ASSUME NEW n \in Device, NEW q \in Device
      PROVE  EntryOwned(n, q)'
  <2> SUFFICES ASSUME conns'[n][q] # None PROVE EntryOwned(n, q)'
    BY DEF EntryOwned
  <2>1. conns[n][q] # None /\ conns'[n][q].end = conns[n][q].end
    BY DEF SameEntries
  <2>2. conns[n][q].end \in End
    BY <2>1, ConnEndType DEF TypeInv
  <2> QED
    BY <2>1, <2>2 DEF ConnsOwned, EntryOwned, ThreadHasEntry, Node, Peer
<1>2. ASSUME NEW e \in End
      PROVE  ThreadHasEntry(e)'
  BY LiveOwned DEF SameEntries, ConnsOwned, EntryOwned, ThreadHasEntry, Node, Peer
<1> QED
  BY <1>1, <1>2 DEF ConnsOwned

\* Writing fields of an entry keeps its end.
LEMMA UpdateSame ==
  ASSUME TypeOK, NEW n \in Device, NEW q \in Device
  PROVE  /\ SameEntries(conns)
         /\ SameEntries(Granted(n, q))
         /\ conns[n][q] # None =>
              /\ SameEntries(Stored(n, q, [conns[n][q] EXCEPT !.prompted = TRUE]))
              /\ SameEntries(Stored(n, q, [conns[n][q] EXCEPT !.local_ok = TRUE]))
              /\ SameEntries(Stored(n, q, [conns[n][q] EXCEPT !.remote_ok = TRUE]))
<1>1. ASSUME conns[n][q] # None, NEW c \in Conn, c.end = conns[n][q].end
      PROVE  SameEntries(Stored(n, q, c))
  BY <1>1, ConstantsAssumption DEF TypeOK, Stored, SameEntries
<1>2. conns[n][q] # None => conns[n][q] \in Conn
  BY DEF TypeOK
<1>3. conns[n][q] # None =>
        /\ SameEntries(Stored(n, q, [conns[n][q] EXCEPT !.prompted = TRUE]))
        /\ SameEntries(Stored(n, q, [conns[n][q] EXCEPT !.local_ok = TRUE]))
        /\ SameEntries(Stored(n, q, [conns[n][q] EXCEPT !.remote_ok = TRUE]))
        /\ SameEntries(Stored(n, q, [conns[n][q] EXCEPT !.authorised = TRUE, !.prompted = FALSE]))
  <2>1. ASSUME NEW c \in Conn
        PROVE  /\ [c EXCEPT !.prompted = TRUE].end = c.end
               /\ [c EXCEPT !.local_ok = TRUE].end = c.end
               /\ [c EXCEPT !.remote_ok = TRUE].end = c.end
               /\ [c EXCEPT !.authorised = TRUE, !.prompted = FALSE].end = c.end
    BY DEF Conn
  <2> QED
    BY <1>1, <1>2, <2>1, ConnUpdate
<1>4. SameEntries(conns)
  BY DEF SameEntries
<1> QED
  BY <1>3, <1>4 DEF Granted

\* Dial takes a session nobody has used and leaves every other one alone.
LEMMA DialFresh ==
  ASSUME TypeInv, NEW n \in Device, NEW q \in Device, NEW s \in Session, Dial(n, q, s),
         NEW e \in End
  PROVE  /\ e[1] = s => owner[e] = None /\ owner[Other(e)] = None /\ thread'[e] = "handshake"
         /\ e[1] # s => /\ owner'[e] = owner[e] /\ owner'[Other(e)] = owner[Other(e)]
                        /\ thread'[e] = thread[e]
<1>1. e[1] = s => e \in {<<s, "dialer">>, Other(<<s, "dialer">>)}
  BY DEF End, Role, Other
<1>2. owner[<<s, "dialer">>] = None /\ <<s, "dialer">> \in End
  BY DEF Dial, End, Role
<1>3. e[1] = s => owner[e] = None /\ owner[Other(e)] = None
  BY <1>1, <1>2, OtherEnd DEF TypeInv, ActorsOK
<1>4. Other(e)[1] = e[1] /\ Other(e) \in End
  BY OtherEnd DEF End, Other
<1>5. e[1] # s => owner'[e] = owner[e] /\ owner'[Other(e)] = owner[Other(e)]
  BY <1>4 DEF Dial, TypeInv, TypeOK
<1>6. thread'[e] = IF e[1] = s THEN "handshake" ELSE thread[e]
  BY DEF Dial
<1> QED
  BY <1>3, <1>5, <1>6

LEMMA OwnedInit == Init => ConnsOwned
BY ConstantsAssumption DEF Init, ConnsOwned, EntryOwned, ThreadHasEntry, Live

LEMMA OwnedNext == TypeInv /\ ConnsOwned /\ [Next]_vars => ConnsOwned'
<1> SUFFICES ASSUME TypeInv, ConnsOwned, [Next]_vars PROVE ConnsOwned'
  OBVIOUS
<1> TypeOK
  BY DEF TypeInv
<1> USE ConstantsAssumption, OtherEnd DEF netVars, dataVars, uiVars
<1> DEFINE KeepsThreads == \A x \in End : thread'[x] \in Live <=> thread[x] \in Live
\* A new session was nobody's, so no entry is about it.
<1>1. ASSUME NEW n \in Device, NEW q \in Device, NEW s \in Session, Dial(n, q, s)
      PROVE  ConnsOwned'
  <2>4. conns' = conns
    BY <1>1 DEF Dial
  <2>5. ASSUME NEW m \in Device, NEW p \in Device
        PROVE  EntryOwned(m, p)'
    <3> SUFFICES ASSUME conns'[m][p] # None PROVE EntryOwned(m, p)'
      BY DEF EntryOwned
    <3>1. conns[m][p].end \in End /\ owner[conns[m][p].end] = m
      BY <2>4, ConnEndType DEF ConnsOwned, EntryOwned, Node
    <3> QED
      BY <1>1, <2>4, <3>1, DialFresh DEF ConnsOwned, EntryOwned, Node, Peer
  <2>6. ASSUME NEW e \in End
        PROVE  ThreadHasEntry(e)'
    BY <1>1, <2>4, DialFresh DEF ConnsOwned, ThreadHasEntry, Node, Peer, Live
  <2> QED
    BY <2>5, <2>6 DEF ConnsOwned
<1>2. ASSUME NEW e \in End, NEW ok \in BOOLEAN, NEW allow \in BOOLEAN, CheckPeer(e, ok, allow)
      PROVE  ConnsOwned'
  <2>1. KeepsThreads
    BY <1>2 DEF CheckPeer, Goto, TypeOK, Live
  <2> QED
    BY <1>2, <2>1, SameEntriesOwned, UpdateSame DEF CheckPeer, SameEntries
\* The entry that appears is of the thread that becomes live.
<1>3. ASSUME NEW e \in End, Register(e)
      PROVE  ConnsOwned'
  <2> DEFINE n == Node(e)
             q == Peer(e)
  <2>1. n \in Device /\ q \in Device /\ thread[e] \notin Live
    BY <1>3 DEF Register, TypeInv, ActorsOK, Node, Peer, Live
  <2>2. CASE Admitted(n, q)
    <3>1. /\ conns[n][q] = None /\ owner' = owner
          /\ conns' = Stored(n, q, NewConn(e)) /\ thread' = [thread EXCEPT ![e] = "loop"]
      BY <1>3, <2>2 DEF Register, Goto, Admitted
    <3>2. NewConn(e) \in Conn /\ NewConn(e).end = e
      BY DEF NewConn, Conn, TypeOK
    <3>3. conns'[n][q] = NewConn(e)
      BY <2>1, <3>1 DEF Stored, TypeOK
    <3>4. \A m, p \in Device : <<m, p>> # <<n, q>> => conns'[m][p] = conns[m][p]
      BY <2>1, <3>1 DEF Stored, TypeOK
    <3>5. thread'[e] \in Live /\ \A x \in End : x # e => thread'[x] = thread[x]
      BY <3>1 DEF TypeOK, Live
    <3>6. ASSUME NEW m \in Device, NEW p \in Device
          PROVE  EntryOwned(m, p)'
      <4>1. CASE m = n /\ p = q
        BY <3>1, <3>2, <3>3, <3>5, <4>1 DEF EntryOwned, Node, Peer
      <4>2. CASE <<m, p>> # <<n, q>>
        <5>1. conns[m][p] # None => conns[m][p].end \in End /\ conns[m][p].end # e
          BY <2>1, ConnEndType DEF ConnsOwned, EntryOwned
        <5> QED
          BY <3>1, <3>4, <3>5, <4>2, <5>1 DEF ConnsOwned, EntryOwned, Node, Peer
      <4> QED
        BY <4>1, <4>2
    <3>7. ASSUME NEW x \in End
          PROVE  ThreadHasEntry(x)'
      <4>1. CASE x = e
        BY <3>1, <3>2, <3>3, <4>1 DEF ThreadHasEntry, Node, Peer
      <4>2. CASE x # e /\ thread[x] \in Live
        <5>1. Node(x) \in Device /\ Peer(x) \in Device
          BY <4>2, LiveOwned
        <5>2. <<Node(x), Peer(x)>> # <<n, q>>
          BY <3>1, <4>2 DEF ConnsOwned, ThreadHasEntry
        <5> QED
          BY <3>1, <3>4, <3>5, <4>2, <5>1, <5>2 DEF ConnsOwned, ThreadHasEntry, Node, Peer
      <4> QED
        BY <3>5, <4>1, <4>2 DEF ThreadHasEntry
    <3> QED
      BY <3>6, <3>7 DEF ConnsOwned
  <2>3. CASE ~Admitted(n, q)
    <3>1. conns' = conns /\ owner' = owner /\ thread' = [thread EXCEPT ![e] = "done"]
      BY <1>3, <2>3 DEF Register, Goto
    <3>2. KeepsThreads
      BY <2>1, <3>1 DEF TypeOK, Live
    <3> QED
      BY <3>1, <3>2, SameEntriesOwned DEF SameEntries
  <2> QED
    BY <2>2, <2>3
<1>4. ASSUME NEW e \in End, RecvError(e)
      PROVE  ConnsOwned'
  <2>1. KeepsThreads
    BY <1>4 DEF RecvError, Break, Goto, TypeOK, Live
  <2> QED
    BY <1>4, <2>1, SameEntriesOwned DEF RecvError, SameEntries
\* The entry removed by device is the one of this thread, and of no other.
<1>5. ASSUME NEW e \in End, Remove(e)
      PROVE  ConnsOwned'
  <2> DEFINE n == Node(e)
             q == Peer(e)
  <2>1. thread[e] \in Live /\ n \in Device /\ q \in Device
    BY <1>5, LiveOwned DEF Remove, Live
  <2>2. owner' = owner /\ conns' = Stored(n, q, None) /\ thread' = [thread EXCEPT ![e] = "done"]
    BY <1>5 DEF Remove, Goto
  <2>3. conns'[n][q] = None /\ \A m, p \in Device : <<m, p>> # <<n, q>> => conns'[m][p] = conns[m][p]
    BY <2>1, <2>2 DEF Stored, TypeOK
  <2>4. thread'[e] \notin Live /\ \A x \in End : x # e => thread'[x] = thread[x]
    BY <2>2 DEF TypeOK, Live
  <2>5. ASSUME NEW m \in Device, NEW p \in Device
        PROVE  EntryOwned(m, p)'
    <3>1. CASE m = n /\ p = q
      BY <2>3, <3>1 DEF EntryOwned
    <3>2. CASE <<m, p>> # <<n, q>>
      <4>1. conns[m][p] # None => conns[m][p].end \in End /\ conns[m][p].end # e
        BY <3>2, ConnEndType DEF ConnsOwned, EntryOwned
      <4> QED
        BY <2>2, <2>3, <2>4, <3>2, <4>1 DEF ConnsOwned, EntryOwned, Node, Peer
    <3> QED
      BY <3>1, <3>2
  <2>6. ASSUME NEW x \in End
        PROVE  ThreadHasEntry(x)'
    <3>1. CASE x # e /\ thread[x] \in Live
      <4>1. Node(x) \in Device /\ Peer(x) \in Device
        BY <3>1, LiveOwned
      <4>2. <<Node(x), Peer(x)>> # <<n, q>>
        BY <2>1, <3>1 DEF ConnsOwned, ThreadHasEntry
      <4> QED
        BY <2>2, <2>3, <2>4, <3>1, <4>1, <4>2 DEF ConnsOwned, ThreadHasEntry, Node, Peer
    <3> QED
      BY <2>4, <3>1 DEF ThreadHasEntry
  <2> QED
    BY <2>5, <2>6 DEF ConnsOwned
<1>6. ASSUME NEW e \in End, OnMessage(e)
      PROVE  ConnsOwned'
  <2>1. thread[e] = "loop" /\ Node(e) \in Device /\ Peer(e) \in Device
    BY <1>6 DEF OnMessage, OnDataBeforePairing, OnPairRequest, OnPairAccept, OnPairReject,
                OnText, OnTextAck, Takes, TypeInv, ActorsOK, Node, Peer
  <2>2. \E pc \in Live : thread' = [thread EXCEPT ![e] = pc]
    <3>1. "loop" \in Live /\ "removing" \in Live /\ "finalize" \in Live
      BY DEF Live
    <3>2. thread = [thread EXCEPT ![e] = "loop"]
      BY <2>1 DEF TypeOK
    <3>3. \/ thread' = thread \/ thread' = [thread EXCEPT ![e] = "removing"]
          \/ thread' = [thread EXCEPT ![e] = "finalize"]
      BY <1>6 DEF OnMessage, OnDataBeforePairing, OnPairRequest, OnPairAccept, OnPairReject,
                  OnText, OnTextAck, Break, Goto
    <3> QED
      BY <3>1, <3>2, <3>3
  <2>3. KeepsThreads
    BY <2>1, <2>2 DEF TypeOK, Live
  <2>4. SameEntries(conns')
    <3>1. SameEntries(conns)
      BY <2>1, UpdateSame
    <3>2. CASE OnPairRequest(e)
      <4>1. \/ conns' = conns
            \/ /\ conns[Node(e)][Peer(e)] # None
               /\ conns' = Stored(Node(e), Peer(e), [conns[Node(e)][Peer(e)] EXCEPT !.prompted = TRUE])
        BY <3>2 DEF OnPairRequest
      <4> QED
        BY <2>1, <3>1, <4>1, UpdateSame
    <3>3. CASE OnPairAccept(e)
      <4>1. \/ conns' = conns
            \/ /\ conns[Node(e)][Peer(e)] # None
               /\ conns' = Stored(Node(e), Peer(e), [conns[Node(e)][Peer(e)] EXCEPT !.remote_ok = TRUE])
        BY <3>3 DEF OnPairAccept
      <4> QED
        BY <2>1, <3>1, <4>1, UpdateSame
    <3>4. CASE OnDataBeforePairing(e) \/ OnPairReject(e) \/ OnText(e) \/ OnTextAck(e)
      BY <3>1, <3>4 DEF OnDataBeforePairing, OnPairReject, OnText, OnTextAck
    <3> QED
      BY <1>6, <3>2, <3>3, <3>4 DEF OnMessage
  <2>5. owner' = owner
    BY <1>6 DEF OnMessage, OnDataBeforePairing, OnPairRequest, OnPairAccept, OnPairReject,
                OnText, OnTextAck
  <2> QED
    BY <2>3, <2>4, <2>5, SameEntriesOwned
<1>7. ASSUME NEW e \in End, FinalizeCheck(e) \/ FinalizeAdd(e) \/ FinalizeGrant(e)
      PROVE  ConnsOwned'
  <2>1. thread[e] \in Live /\ owner' = owner
    BY <1>7 DEF FinalizeCheck, FinalizeAdd, FinalizeGrant, Live
  <2>2. Node(e) \in Device /\ Peer(e) \in Device
    BY <2>1, LiveOwned
  <2>3. \E pc \in {"add", "loop", "grant"} : thread' = [thread EXCEPT ![e] = pc]
    BY <1>7 DEF FinalizeCheck, FinalizeAdd, FinalizeGrant, Goto
  <2>4. KeepsThreads
    BY <2>1, <2>3 DEF TypeOK, Live
  <2>5. conns' \in {conns, Granted(Node(e), Peer(e))}
    BY <1>7 DEF FinalizeCheck, FinalizeAdd, FinalizeGrant
  <2>6. SameEntries(conns')
    BY <2>2, <2>5, UpdateSame
  <2> QED
    BY <2>1, <2>4, <2>6, SameEntriesOwned
<1>8. ASSUME NEW n \in Device, AcceptLocalOk(n) \/ AcceptGrant(n)
      PROVE  ConnsOwned'
  <2>1. owner' = owner /\ thread' = thread /\ ui[n].device \in Device
    BY <1>8 DEF AcceptLocalOk, AcceptGrant, TypeInv, ActorsOK
  <2>2. \/ conns' = conns
        \/ conns' = Granted(n, ui[n].device)
        \/ /\ conns[n][ui[n].device] # None
           /\ conns' = Stored(n, ui[n].device, [conns[n][ui[n].device] EXCEPT !.local_ok = TRUE])
    BY <1>8 DEF AcceptLocalOk, AcceptGrant
  <2>3. SameEntries(conns')
    BY <2>1, <2>2, UpdateSame
  <2> QED
    BY <2>1, <2>3, SameEntriesOwned
\* What a crash takes away is exactly the device's own.
<1>9. ASSUME NEW n \in Device, Restart(n)
      PROVE  ConnsOwned'
  <2>1. owner' = owner
    BY <1>9 DEF Restart
  <2>2. \A m \in Device : conns'[m] = IF m = n THEN [q \in Device |-> None] ELSE conns[m]
    BY <1>9 DEF Restart, TypeOK
  <2>3. \A x \in End : /\ owner[x] = n => thread'[x] \in {"none", "done"}
                       /\ owner[x] # n => thread'[x] = thread[x]
    BY <1>9 DEF Restart, TypeOK
  <2>4. ASSUME NEW m \in Device, NEW q \in Device
        PROVE  EntryOwned(m, q)'
    <3>1. conns[m][q] # None => conns[m][q].end \in End
      BY ConnEndType
    <3> QED
      BY <2>1, <2>2, <2>3, <3>1 DEF ConnsOwned, EntryOwned, Node, Peer
  <2>5. ASSUME NEW x \in End
        PROVE  ThreadHasEntry(x)'
    BY <2>1, <2>2, <2>3, LiveOwned DEF ConnsOwned, ThreadHasEntry, Node, Peer, Live
  <2> QED
    BY <2>4, <2>5 DEF ConnsOwned
<1>10. ASSUME owner' = owner, thread' = thread, conns' = conns
       PROVE  ConnsOwned'
  BY <1>10, SameEntriesOwned DEF SameEntries
<1>11. ASSUME NEW n \in Device,
              \/ Answer(n) \/ PumpEvent(n) \/ AcceptSend(n) \/ AcceptAdd(n)
              \/ RevokeDisconnect(n) \/ SendData(n)
       PROVE  ConnsOwned'
  BY <1>10, <1>11 DEF Answer, AnswerTooLate, Reject, Accept, PumpEvent, AcceptSend, AcceptAdd,
                      RevokeDisconnect, SendData
<1>12. ASSUME NEW n \in Device, NEW q \in Device,
              \/ Forget(n, q) \/ Block(n, q) \/ Unblock(n, q) \/ Disconnect(n, q)
              \/ PickConn(n, q) \/ ExpirePairing(n, q)
       PROVE  ConnsOwned'
  BY <1>10, <1>12 DEF Forget, Block, Revoke, Unblock, Disconnect, PickConn, ExpirePairing
<1>13. ASSUME NEW s \in Session, Cut(s)
       PROVE  ConnsOwned'
  BY <1>10, <1>13 DEF Cut
<1>14. CASE UNCHANGED vars
  BY <1>10, <1>14 DEF vars
<1> QED
  BY <1>1, <1>2, <1>3, <1>4, <1>5, <1>6, <1>7, <1>8, <1>9, <1>11, <1>12, <1>13, <1>14
     DEF Next, RunConnection, User, GuiThread

\* The entry a connection thread removes when it ends is its own, never that
\* of the connection that replaced it.
THEOREM ConnsOwnedCorrect == Spec => []ConnsOwned
<1>1. Init => TypeInv /\ ConnsOwned
  BY TypeInvInit, OwnedInit
<1>2. TypeInv /\ ConnsOwned /\ [Next]_vars => (TypeInv /\ ConnsOwned)'
  BY TypeInvNext, OwnedNext
<1> QED
  BY <1>1, <1>2, PTL DEF Spec

-----------------------------------------------------------------------------
(* Both users *)

\* Where a confirmation travels: from a user's answer through local_ok, the
\* PairAccept message and remote_ok to the two places that make a pairing.
Both(n, q) == Approved(n, q) /\ Approved(q, n)

TrustApproved == \A n, q \in Device : trust[n][q] # "unknown" => Both(n, q)

EntryApproved(n, q, c) ==
    c # None =>
        /\ c.local_ok => Approved(n, q)
        /\ c.remote_ok => Approved(q, n)
        /\ c.authorised => Both(n, q)

ConnsApproved == \A n, q \in Device : EntryApproved(n, q, conns[n][q])

SnapApproved == \A e \in End : snap[e] => Both(Node(e), Peer(e))

Carries(ch, e) == \E i \in 1..Len(ch[e]) : ch[e][i] = "PairAccept"

ChanApproved(ch) == \A e \in End : Carries(ch, e) => Approved(Peer(e), Node(e))

ThreadApproved == \A e \in End : thread[e] \in {"add", "grant"} => Both(Node(e), Peer(e))

UiApproved ==
    \A n \in Device :
        /\ ui[n].pc \in {"local_ok", "send"} =>
              /\ Approved(n, ui[n].device)
              /\ Node(ui[n].end) = n /\ Peer(ui[n].end) = ui[n].device
        /\ ui[n].pc \in {"add", "grant"} => Both(n, ui[n].device)

ApprovalInv ==
    /\ TrustApproved /\ ConnsApproved /\ SnapApproved
    /\ ChanApproved(chan) /\ ThreadApproved /\ UiApproved

\* Confirmations are never taken back, so a step that leaves a conjunct's
\* variable alone keeps the conjunct.
LEMMA ApprovalFrame ==
  ASSUME TypeInv, ApprovalInv, owner' = owner, approvals \subseteq approvals'
  PROVE  /\ \A n, q : Approved(n, q) => Approved(n, q)'
         /\ trust' = trust => TrustApproved'
         /\ conns' = conns => ConnsApproved'
         /\ snap' = snap => SnapApproved'
         /\ ChanApproved(chan') => ChanApproved(chan)'
         /\ ChanApproved(chan)
         /\ (\A e \in End : thread'[e] \in {"add", "grant"} => thread[e] = thread'[e])
               => ThreadApproved'
         /\ ui' = ui => UiApproved'
<1>1. \A n, q : Approved(n, q) => Approved(n, q)'
  BY DEF Approved
<1>2. \A n, q : Both(n, q) => Both(n, q)'
  BY <1>1 DEF Both
<1>3. trust' = trust => TrustApproved'
  BY <1>2 DEF ApprovalInv, TrustApproved
<1>4. conns' = conns => ConnsApproved'
  BY <1>1, <1>2 DEF ApprovalInv, ConnsApproved, EntryApproved
<1>5. snap' = snap => SnapApproved'
  BY <1>2 DEF ApprovalInv, SnapApproved, Node, Peer
<1>6. ChanApproved(chan') => ChanApproved(chan)'
  BY <1>1 DEF ChanApproved, Carries, Node, Peer
<1>7. (\A e \in End : thread'[e] \in {"add", "grant"} => thread[e] = thread'[e]) => ThreadApproved'
  BY <1>2 DEF ApprovalInv, ThreadApproved, Node, Peer
<1>8. ui' = ui => UiApproved'
  BY <1>1, <1>2 DEF ApprovalInv, UiApproved, Node, Peer
<1> QED
  BY <1>1, <1>3, <1>4, <1>5, <1>6, <1>7, <1>8 DEF ApprovalInv

\* Sending anything else than PairAccept, or PairAccept after the user's yes.
LEMMA SentApproved ==
  ASSUME NEW ch \in [End -> Seq(Message)], ChanApproved(ch), NEW e \in End, NEW m \in Message,
         m = "PairAccept" => Approved(Node(e), Peer(e))
  PROVE  ChanApproved(Sent(ch, e, m))
<1> SUFFICES ASSUME NEW x \in End, Carries(Sent(ch, e, m), x) PROVE Approved(Peer(x), Node(x))
  BY DEF ChanApproved
<1>1. CASE CanSend(e) /\ x = Other(e)
  <2>1. Sent(ch, e, m)[x] = Append(ch[x], m) /\ ch[x] \in Seq(Message)
    BY <1>1, OtherEnd DEF Sent
  <2>2. Carries(ch, x) \/ m = "PairAccept"
    BY <2>1 DEF Carries
  <2>3. Node(e) = Peer(x) /\ Peer(e) = Node(x)
    BY <1>1, OtherEnd DEF Node, Peer
  <2> QED
    BY <2>2, <2>3 DEF ChanApproved
<1>2. CASE ~(CanSend(e) /\ x = Other(e))
  <2>1. Sent(ch, e, m)[x] = ch[x]
    BY <1>2, OtherEnd DEF Sent
  <2> QED
    BY <2>1 DEF ChanApproved, Carries
<1> QED
  BY <1>1, <1>2

LEMMA RestApproved ==
  ASSUME TypeOK, ChanApproved(chan), NEW e \in End, NEW m, Takes(e, m)
  PROVE  /\ ChanApproved(Rest(e))
         /\ Rest(e) \in [End -> Seq(Message)]
         /\ m = "PairAccept" => Approved(Peer(e), Node(e))
<1>1. chan[e] \in Seq(Message) /\ chan[e] # <<>> /\ Head(chan[e]) = m
  BY DEF TypeOK, Takes
<1>2. \A x \in End : Rest(e)[x] = IF x = e THEN Tail(chan[e]) ELSE chan[x]
  BY DEF Rest, TypeOK
<1>3. Carries(Rest(e), e) => Carries(chan, e)
  <2>1. ASSUME NEW i \in 1..Len(Tail(chan[e])) PROVE Tail(chan[e])[i] = chan[e][i + 1] /\ i + 1 \in 1..Len(chan[e])
    BY <1>1
  <2> QED
    BY <1>2, <2>1 DEF Carries
<1>4. ChanApproved(Rest(e))
  BY <1>2, <1>3 DEF ChanApproved, Carries
<1>5. Rest(e) \in [End -> Seq(Message)]
  BY <1>1 DEF Rest, TypeOK
<1>6. m = "PairAccept" => Carries(chan, e)
  <2>1. chan[e][1] = m /\ 1 \in 1..Len(chan[e])
    BY <1>1
  <2> QED
    BY <2>1 DEF Carries
<1> QED
  BY <1>4, <1>5, <1>6 DEF ChanApproved

LEMMA StoredApproved ==
  ASSUME TypeOK, ConnsApproved, NEW n \in Device, NEW q \in Device, NEW c,
         EntryApproved(n, q, c), approvals' = approvals, conns' = Stored(n, q, c)
  PROVE  ConnsApproved'
BY DEF TypeOK, Stored, ConnsApproved, EntryApproved, Both, Approved

\* An entry changed at some fields, and the last step of a pairing.
LEMMA GrantedApproved ==
  ASSUME TypeOK, ConnsApproved, NEW n \in Device, NEW q \in Device, Both(n, q),
         approvals' = approvals, conns' = Granted(n, q)
  PROVE  ConnsApproved'
<1>1. CASE conns[n][q] = None
  BY <1>1 DEF Granted, ConnsApproved, EntryApproved, Both, Approved
<1>2. CASE conns[n][q] # None
  <2> DEFINE c == [conns[n][q] EXCEPT !.authorised = TRUE, !.prompted = FALSE]
  <2>1. conns[n][q] \in Conn
    BY <1>2 DEF TypeOK
  <2>2. c.local_ok = conns[n][q].local_ok /\ c.remote_ok = conns[n][q].remote_ok
    BY <2>1 DEF Conn
  <2>3. EntryApproved(n, q, c)
    BY <1>2, <2>2 DEF ConnsApproved, EntryApproved
  <2>4. conns' = Stored(n, q, c)
    BY <1>2 DEF Granted
  <2> QED
    BY <2>3, <2>4, StoredApproved
<1> QED
  BY <1>1, <1>2

LEMMA ReadyApproved ==
  ASSUME ConnsApproved, NEW n \in Device, NEW q \in Device, Ready(n, q)
  PROVE  Both(n, q)
BY DEF Ready, ConnsApproved, EntryApproved, Both

LEMMA AddedApproved ==
  ASSUME TypeOK, TrustApproved, NEW n \in Device, NEW q \in Device, Both(n, q),
         approvals' = approvals, trust' \in {trust, Added(n, q)}
  PROVE  TrustApproved'
<1>1. \A m, p \in Device : trust'[m][p] = trust[m][p] \/ (m = n /\ p = q)
  BY DEF Added, TypeOK
<1> QED
  BY <1>1 DEF TrustApproved, Both, Approved

\* The GUI thread of n moves on, or returns.
LEMMA UiUpdated ==
  ASSUME UiApproved, NEW n \in Device, NEW q, ui'[n].device = q,
         owner' = owner, approvals \subseteq approvals',
         \A m \in Device \ {n} : ui'[m] = ui[m],
         \/ ui'[n].pc \notin {"local_ok", "send", "add", "grant"}
         \/ ui'[n].pc \in {"add", "grant"} /\ Both(n, q)
         \/ /\ ui'[n].pc \in {"local_ok", "send"}
            /\ \E s \in Session \cup {None} : <<n, q, s>> \in approvals'
            /\ Node(ui'[n].end) = n /\ Peer(ui'[n].end) = q
  PROVE  UiApproved'
<1>1. ASSUME NEW m \in Device
      PROVE  /\ ui'[m].pc \in {"local_ok", "send"} =>
                   /\ \E s \in Session \cup {None} : <<m, ui'[m].device, s>> \in approvals'
                   /\ owner'[ui'[m].end] = m /\ owner'[Other(ui'[m].end)] = ui'[m].device
             /\ ui'[m].pc \in {"add", "grant"} =>
                   /\ \E s \in Session \cup {None} : <<m, ui'[m].device, s>> \in approvals'
                   /\ \E s \in Session \cup {None} : <<ui'[m].device, m, s>> \in approvals'
  <2>1. CASE m = n
    BY <2>1 DEF Both, Approved, Node, Peer
  <2>2. CASE m # n
    BY <2>2 DEF UiApproved, Both, Approved, Node, Peer
  <2> QED
    BY <2>1, <2>2
<1> QED
  BY <1>1 DEF UiApproved, Both, Approved, Node, Peer

LEMMA UiReturned ==
  ASSUME TypeOK, UiApproved, NEW n \in Device, owner' = owner, approvals' = approvals, Return(n)
  PROVE  UiApproved'
<1>1. ui'[n].pc = "idle" /\ \A m \in Device \ {n} : ui'[m] = ui[m]
  BY DEF Return, Idle, TypeOK
<1> QED
  BY <1>1, UiUpdated

LEMMA ApprovalInit == Init => ApprovalInv
<1> SUFFICES ASSUME Init PROVE ApprovalInv
  OBVIOUS
<1>1. TrustApproved
  <2>1. \A n, q \in Device : <<n, q>> \in PairedBefore => Approved(n, q)
    <3> SUFFICES ASSUME NEW n \in Device, NEW q \in Device, <<n, q>> \in PairedBefore
                 PROVE  <<n, q, None>> \in approvals
      BY DEF Approved
    <3>1. \A p \in PairedBefore : <<p[1], p[2], None>> \in approvals
      BY DEF Init
    <3> QED
      BY <3>1
  <2>2. \A n, q \in Device : <<n, q>> \in PairedBefore => <<q, n>> \in PairedBefore
    BY ConstantsAssumption
  <2> QED
    BY <2>1, <2>2 DEF Init, TrustApproved, Both
<1>2. ConnsApproved /\ SnapApproved /\ ThreadApproved
  BY DEF Init, ConnsApproved, EntryApproved, SnapApproved, ThreadApproved
<1>3. ChanApproved(chan)
  BY DEF Init, ChanApproved, Carries
<1>4. UiApproved
  BY DEF Init, UiApproved, Idle
<1> QED
  BY <1>1, <1>2, <1>3, <1>4 DEF ApprovalInv

LEMMA ApprovalNext == TypeInv /\ ConnsOwned /\ ApprovalInv /\ [Next]_vars => ApprovalInv'
<1> SUFFICES ASSUME TypeInv, ConnsOwned, ApprovalInv, [Next]_vars PROVE ApprovalInv'
  OBVIOUS
<1> TypeOK /\ TrustApproved /\ ConnsApproved /\ ChanApproved(chan) /\ UiApproved
  BY DEF TypeInv, ApprovalInv
<1> USE ConstantsAssumption, OtherEnd DEF netVars, dataVars, uiVars
<1> DEFINE NoNewPairing == \A x \in End : thread'[x] \in {"add", "grant"} => thread[x] = thread'[x]
\* The ends of the new session carry nothing yet: nobody has confirmed "None".
<1>1. ASSUME NEW n \in Device, NEW q \in Device, NEW s \in Session, Dial(n, q, s)
      PROVE  ApprovalInv'
  <2>1. /\ UNCHANGED <<approvals, trust, conns, snap, chan, ui>>
        /\ \A x, y : Approved(x, y)' = Approved(x, y)
        /\ \A x, y : Both(x, y)' = Both(x, y)
    BY <1>1 DEF Dial, Both, Approved
  <2>2. \A x : ~Approved(None, x)
    BY DEF Approved, TypeOK
  <2>3. \A e \in End : Approved(Peer(e), Node(e)) => owner'[e] = owner[e] /\ owner'[Other(e)] = owner[Other(e)]
    BY <1>1, <2>2, DialFresh DEF Node, Peer
  <2>4. TrustApproved' /\ ConnsApproved'
    BY <2>1 DEF ApprovalInv, TrustApproved, ConnsApproved, EntryApproved
  <2>5. SnapApproved'
    BY <2>1, <2>3 DEF ApprovalInv, SnapApproved, Node, Peer, Both
  <2>6. ChanApproved(chan)'
    BY <2>1, <2>3 DEF ChanApproved, Carries, Node, Peer
  <2>7. ThreadApproved'
    BY <1>1, <2>1, DialFresh DEF ApprovalInv, ThreadApproved, Node, Peer
  <2>8. UiApproved'
    <3>1. ASSUME NEW m \in Device, ui[m].pc \in {"local_ok", "send"}
          PROVE  owner'[ui[m].end] = m /\ owner'[Other(ui[m].end)] = ui[m].device
      <4>1. ui[m].end \in End /\ owner[ui[m].end] = m
        BY <3>1 DEF TypeInv, ActorsOK, ApprovalInv, UiApproved, Node
      <4> QED
        BY <1>1, <3>1, <4>1, DialFresh DEF ApprovalInv, UiApproved, Node, Peer
    <3> QED
      BY <2>1, <3>1 DEF ApprovalInv, UiApproved, Node, Peer
  <2> QED
    BY <2>4, <2>5, <2>6, <2>7, <2>8 DEF ApprovalInv
<1>2. ASSUME NEW e \in End, NEW ok \in BOOLEAN, NEW allow \in BOOLEAN, CheckPeer(e, ok, allow)
      PROVE  ApprovalInv'
  <2>1. UNCHANGED <<owner, approvals, trust, conns, chan, ui>>
    BY <1>2 DEF CheckPeer
  <2>2. Node(e) \in Device /\ Peer(e) \in Device
    BY <1>2 DEF CheckPeer, TypeInv, ActorsOK, Node, Peer
  <2>3. NoNewPairing
    BY <1>2 DEF CheckPeer, Goto, TypeOK
  <2>4. snap'[e] => trust[Node(e)][Peer(e)] # "unknown"
    BY <1>2 DEF CheckPeer, TypeOK
  <2>5. \A x \in End : x # e => snap'[x] = snap[x]
    BY <1>2 DEF CheckPeer, TypeOK
  <2>6. SnapApproved'
    BY <2>1, <2>2, <2>4, <2>5 DEF ApprovalInv, SnapApproved, TrustApproved, Node, Peer, Both, Approved
  <2> QED
    BY <2>1, <2>3, <2>6, ApprovalFrame DEF ApprovalInv
<1>3. ASSUME NEW e \in End, Register(e)
      PROVE  ApprovalInv'
  <2>1. UNCHANGED <<owner, approvals, trust, ui>>
    BY <1>3 DEF Register
  <2>2. Node(e) \in Device /\ Peer(e) \in Device
    BY <1>3 DEF Register, TypeInv, ActorsOK, Node, Peer
  <2>3. NoNewPairing
    <3>1. \E pc \in {"loop", "done"} : thread' = [thread EXCEPT ![e] = pc]
      BY <1>3 DEF Register, Goto
    <3> QED
      BY <3>1 DEF TypeOK
  <2>4. SnapApproved'
    <3>1. snap' = [snap EXCEPT ![e] = FALSE]
      BY <1>3 DEF Register
    <3> QED
      BY <2>1, <3>1 DEF ApprovalInv, SnapApproved, Node, Peer, Both, Approved, TypeOK
  <2>5. ConnsApproved'
    <3>1. EntryApproved(Node(e), Peer(e), NewConn(e))
      BY DEF EntryApproved, NewConn, ApprovalInv, SnapApproved
    <3>2. conns' \in {conns, Stored(Node(e), Peer(e), NewConn(e))}
      BY <1>3 DEF Register
    <3> QED
      BY <2>1, <2>2, <3>1, <3>2, StoredApproved, ApprovalFrame
  <2>6. ChanApproved(chan')
    <3>1. chan' \in {chan, Sent(chan, e, "PairRequest")}
      BY <1>3 DEF Register
    <3>2. ChanApproved(Sent(chan, e, "PairRequest"))
      BY SentApproved DEF TypeOK, Message
    <3> QED
      BY <3>1, <3>2
  <2> QED
    BY <2>1, <2>3, <2>4, <2>5, <2>6, ApprovalFrame DEF ApprovalInv
<1>4. ASSUME NEW e \in End, RecvError(e)
      PROVE  ApprovalInv'
  <2>1. NoNewPairing
    BY <1>4 DEF RecvError, Break, Goto, TypeOK
  <2> QED
    BY <1>4, <2>1, ApprovalFrame DEF RecvError, ApprovalInv
<1>5. ASSUME NEW e \in End, Remove(e)
      PROVE  ApprovalInv'
  <2>1. UNCHANGED <<owner, approvals, trust, ui, snap>>
    BY <1>5 DEF Remove
  <2>2. Node(e) \in Device /\ Peer(e) \in Device
    BY <1>5, LiveOwned DEF Remove, Live
  <2>3. NoNewPairing
    BY <1>5 DEF Remove, Goto, TypeOK
  <2>4. ConnsApproved'
    <3>1. EntryApproved(Node(e), Peer(e), None)
      BY DEF EntryApproved
    <3> QED
      BY <1>5, <2>1, <2>2, <3>1, StoredApproved DEF Remove
  <2>5. ChanApproved(chan')
    <3>1. \A x \in End : chan'[x] = IF x = e THEN <<>> ELSE chan[x]
      BY <1>5 DEF Remove, TypeOK
    <3> QED
      BY <3>1 DEF ChanApproved, Carries
  <2> QED
    BY <2>1, <2>3, <2>4, <2>5, ApprovalFrame DEF ApprovalInv
<1>6. ASSUME NEW e \in End, OnMessage(e)
      PROVE  ApprovalInv'
  <2>1. /\ UNCHANGED <<owner, approvals, trust, ui, snap>>
        /\ Node(e) \in Device /\ Peer(e) \in Device
    BY <1>6 DEF OnMessage, OnDataBeforePairing, OnPairRequest, OnPairAccept, OnPairReject,
                OnText, OnTextAck, Takes, TypeInv, ActorsOK, Node, Peer
  <2>2. /\ ChanApproved(Rest(e)) /\ Rest(e) \in [End -> Seq(Message)]
        /\ Takes(e, "PairAccept") => Approved(Peer(e), Node(e))
    <3>1. \E m : Takes(e, m)
      BY <1>6 DEF OnMessage, OnDataBeforePairing, OnPairRequest, OnPairAccept, OnPairReject,
                  OnText, OnTextAck
    <3> QED
      BY <3>1, RestApproved
  <2>3. NoNewPairing
    <3>1. \/ thread' = thread \/ thread' = [thread EXCEPT ![e] = "removing"]
          \/ thread' = [thread EXCEPT ![e] = "finalize"]
      BY <1>6 DEF OnMessage, OnDataBeforePairing, OnPairRequest, OnPairAccept, OnPairReject,
                  OnText, OnTextAck, Break, Goto
    <3> QED
      BY <3>1 DEF TypeOK
  <2> DEFINE n == Node(e)
             q == Peer(e)
  <2>4. conns[n][q] # None =>
           LET c == conns[n][q]
               r == [c EXCEPT !.prompted = TRUE]
               a == [c EXCEPT !.remote_ok = TRUE]
           IN  /\ r.local_ok = c.local_ok /\ r.remote_ok = c.remote_ok /\ r.authorised = c.authorised
               /\ a.local_ok = c.local_ok /\ a.authorised = c.authorised
    BY <2>1 DEF TypeOK, Conn
  <2>5. EntryApproved(n, q, conns[n][q])
    BY <2>1 DEF ConnsApproved
  <2>6. CASE OnPairRequest(e)
    <3>1. \/ conns' = conns
          \/ /\ conns[n][q] # None
             /\ conns' = Stored(n, q, [conns[n][q] EXCEPT !.prompted = TRUE])
      BY <2>6 DEF OnPairRequest
    <3>2. conns[n][q] # None => EntryApproved(n, q, [conns[n][q] EXCEPT !.prompted = TRUE])
      BY <2>4, <2>5 DEF EntryApproved
    <3>3. ConnsApproved'
      BY <2>1, <3>1, <3>2, StoredApproved, ApprovalFrame
    <3>4. chan' = Rest(e)
      BY <2>6 DEF OnPairRequest
    <3> QED
      BY <2>1, <2>2, <2>3, <3>3, <3>4, ApprovalFrame DEF ApprovalInv
  <2>7. CASE OnPairAccept(e)
    <3>1. \/ conns' = conns
          \/ /\ conns[n][q] # None
             /\ conns' = Stored(n, q, [conns[n][q] EXCEPT !.remote_ok = TRUE])
      BY <2>7 DEF OnPairAccept
    <3>2. Approved(q, n)
      BY <2>2, <2>7 DEF OnPairAccept
    <3>3. conns[n][q] # None => EntryApproved(n, q, [conns[n][q] EXCEPT !.remote_ok = TRUE])
      BY <2>4, <2>5, <3>2 DEF EntryApproved
    <3>4. ConnsApproved'
      BY <2>1, <3>1, <3>3, StoredApproved, ApprovalFrame
    <3>5. chan' = Rest(e)
      BY <2>7 DEF OnPairAccept
    <3> QED
      BY <2>1, <2>2, <2>3, <3>4, <3>5, ApprovalFrame DEF ApprovalInv
  <2>8. CASE OnText(e)
    <3>1. conns' = conns /\ chan' = Sent(Rest(e), conns[n][q].end, "TextAck") /\ conns[n][q].end \in End
      BY <2>1, <2>8, ConnEndType DEF OnText, Authorised
    <3>2. ChanApproved(chan')
      BY <2>2, <3>1, SentApproved DEF Message
    <3> QED
      BY <2>1, <2>3, <3>1, <3>2, ApprovalFrame DEF ApprovalInv
  <2>9. CASE OnDataBeforePairing(e) \/ OnPairReject(e) \/ OnTextAck(e)
    <3>1. conns' = conns /\ chan' = Rest(e)
      BY <2>9 DEF OnDataBeforePairing, OnPairReject, OnTextAck
    <3> QED
      BY <2>1, <2>2, <2>3, <3>1, ApprovalFrame DEF ApprovalInv
  <2> QED
    BY <1>6, <2>6, <2>7, <2>8, <2>9 DEF OnMessage
\* Both confirmations are on the entry when the thread goes on to pair.
<1>7. ASSUME NEW e \in End, FinalizeCheck(e)
      PROVE  ApprovalInv'
  <2>1. Node(e) \in Device /\ Peer(e) \in Device
    BY <1>7 DEF FinalizeCheck, TypeInv, ActorsOK, Node, Peer
  <2>2. ThreadApproved'
    <3>1. thread'[e] = "add" => Ready(Node(e), Peer(e))
      BY <1>7 DEF FinalizeCheck, Goto, TypeOK
    <3>2. thread'[e] \in {"add", "loop"} /\ \A x \in End : x # e => thread'[x] = thread[x]
      BY <1>7 DEF FinalizeCheck, Goto, TypeOK
    <3>3. Both(Node(e), Peer(e)) \/ thread'[e] = "loop"
      BY <2>1, <3>1, <3>2, ReadyApproved
    <3> QED
      BY <1>7, <3>2, <3>3 DEF FinalizeCheck, ApprovalInv, ThreadApproved, Both, Approved, Node, Peer
  <2> QED
    BY <1>7, <2>2, ApprovalFrame DEF FinalizeCheck, ApprovalInv
<1>8. ASSUME NEW e \in End, FinalizeAdd(e)
      PROVE  ApprovalInv'
  <2>1. Node(e) \in Device /\ Peer(e) \in Device /\ Both(Node(e), Peer(e))
    BY <1>8 DEF FinalizeAdd, TypeInv, ActorsOK, ApprovalInv, ThreadApproved, Node, Peer
  <2>2. UNCHANGED <<owner, approvals, conns, ui, snap, chan>>
    BY <1>8 DEF FinalizeAdd
  <2>3. TrustApproved'
    <3>1. trust' \in {trust, Added(Node(e), Peer(e))}
      BY <1>8 DEF FinalizeAdd
    <3> QED
      BY <2>1, <2>2, <3>1, AddedApproved
  <2>4. ThreadApproved'
    <3>1. \A x \in End : x # e => thread'[x] = thread[x]
      BY <1>8 DEF FinalizeAdd, Goto, TypeOK
    <3> QED
      BY <2>1, <2>2, <3>1 DEF ApprovalInv, ThreadApproved, Node, Peer, Both, Approved
  <2> QED
    BY <2>2, <2>3, <2>4, ApprovalFrame DEF ApprovalInv
<1>9. ASSUME NEW e \in End, FinalizeGrant(e)
      PROVE  ApprovalInv'
  <2>1. Node(e) \in Device /\ Peer(e) \in Device /\ Both(Node(e), Peer(e))
    BY <1>9 DEF FinalizeGrant, TypeInv, ActorsOK, ApprovalInv, ThreadApproved, Node, Peer
  <2>2. UNCHANGED <<owner, approvals, trust, ui, snap, chan>>
    BY <1>9 DEF FinalizeGrant
  <2>3. ConnsApproved'
    BY <1>9, <2>1, <2>2, GrantedApproved DEF FinalizeGrant
  <2>4. NoNewPairing
    BY <1>9 DEF FinalizeGrant, Goto, TypeOK
  <2> QED
    BY <2>2, <2>3, <2>4, ApprovalFrame DEF ApprovalInv
<1>10. ASSUME NEW n \in Device, PumpEvent(n)
       PROVE  ApprovalInv'
  BY <1>10, ApprovalFrame DEF PumpEvent, ApprovalInv
<1>11. ASSUME NEW n \in Device, Answer(n)
       PROVE  ApprovalInv'
  <2>1. CASE AnswerTooLate(n)
    BY <2>1, ApprovalFrame DEF AnswerTooLate, ApprovalInv
  <2>2. prompt[n] # None => prompt[n].device \in Device /\ prompt[n].session \in Session
    BY DEF TypeOK, PairingRequired
  <2> DEFINE q == prompt[n].device
  <2>3. CASE Reject(n)
    <3>1. conns[n][q].end \in End /\ chan' = Sent(chan, conns[n][q].end, "PairReject")
      BY <2>2, <2>3, ConnEndType DEF Reject
    <3>2. ChanApproved(chan')
      BY <3>1, SentApproved DEF TypeOK, Message
    <3> QED
      BY <2>3, <3>2, ApprovalFrame DEF Reject, ApprovalInv
  <2>4. CASE Accept(n)
    <3>1. /\ q \in Device /\ conns[n][q] # None /\ approvals \subseteq approvals'
          /\ owner' = owner /\ \E s \in Session \cup {None} : <<n, q, s>> \in approvals'
      BY <2>2, <2>4 DEF Accept
    <3>2. Node(conns[n][q].end) = n /\ Peer(conns[n][q].end) = q
      BY <3>1 DEF ConnsOwned, EntryOwned
    <3>3. /\ ui'[n] = [pc |-> "local_ok", device |-> q, end |-> conns[n][q].end]
          /\ \A m \in Device : m # n => ui'[m] = ui[m]
      BY <2>4 DEF Accept, TypeOK
    <3>4. UiApproved'
      BY <3>1, <3>2, <3>3, UiUpdated
    <3> QED
      BY <2>4, <3>1, <3>4, ApprovalFrame DEF Accept, ApprovalInv
  <2> QED
    BY <1>11, <2>1, <2>3, <2>4 DEF Answer
<1>12. ASSUME NEW n \in Device, AcceptLocalOk(n)
       PROVE  ApprovalInv'
  <2> DEFINE q == ui[n].device
             c == conns[n][q]
  <2>1. q \in Device /\ UNCHANGED <<owner, approvals, trust, snap, thread, chan>>
    BY <1>12 DEF AcceptLocalOk, TypeInv, ActorsOK
  <2>2. Approved(n, q) /\ Node(ui[n].end) = n /\ Peer(ui[n].end) = q
    BY <1>12 DEF AcceptLocalOk, ApprovalInv, UiApproved
  <2>3. ConnsApproved'
    <3>1. \/ conns' = conns
          \/ c # None /\ conns' = Stored(n, q, [c EXCEPT !.local_ok = TRUE])
      BY <1>12 DEF AcceptLocalOk
    <3>2. c # None => /\ [c EXCEPT !.local_ok = TRUE].remote_ok = c.remote_ok
                      /\ [c EXCEPT !.local_ok = TRUE].authorised = c.authorised
      BY <2>1 DEF TypeOK, Conn
    <3>3. c # None => EntryApproved(n, q, [c EXCEPT !.local_ok = TRUE])
      BY <2>1, <2>2, <3>2 DEF EntryApproved, ConnsApproved
    <3> QED
      BY <2>1, <3>1, <3>3, StoredApproved, ApprovalFrame
  <2>4. UiApproved'
    <3>1. GuiGoto(n, "send")
      BY <1>12 DEF AcceptLocalOk
    <3>2. /\ ui'[n].pc = "send" /\ ui'[n].device = q /\ ui'[n].end = ui[n].end
          /\ \A m \in Device \ {n} : ui'[m] = ui[m]
      BY <3>1, GuiGotoType DEF UiPC
    <3>3. \E s \in Session \cup {None} : <<n, q, s>> \in approvals'
      BY <2>1, <2>2 DEF Approved
    <3> QED
      BY <2>1, <2>2, <3>2, <3>3, UiUpdated
  <2> QED
    BY <2>1, <2>3, <2>4, ApprovalFrame DEF ApprovalInv
<1>13. ASSUME NEW n \in Device, AcceptSend(n)
       PROVE  ApprovalInv'
  <2>1. ui[n].device \in Device /\ ui[n].end \in End
    BY <1>13 DEF AcceptSend, TypeInv, ActorsOK
  <2>2. UNCHANGED <<owner, approvals, trust, snap, thread, conns>>
    BY <1>13 DEF AcceptSend
  <2>3. Approved(Node(ui[n].end), Peer(ui[n].end))
    BY <1>13 DEF AcceptSend, ApprovalInv, UiApproved
  <2>4. ChanApproved(chan')
    <3>1. chan' = Sent(chan, ui[n].end, "PairAccept")
      BY <1>13 DEF AcceptSend
    <3> QED
      BY <2>1, <2>3, <3>1, SentApproved DEF TypeOK, Message
  <2>5. UiApproved'
    <3>1. CASE Ready(n, ui[n].device)
      <4>1. GuiGoto(n, "add")
        BY <1>13, <3>1 DEF AcceptSend
      <4>2. /\ ui'[n].pc = "add" /\ ui'[n].device = ui[n].device
            /\ \A m \in Device \ {n} : ui'[m] = ui[m]
        BY <4>1, GuiGotoType DEF UiPC
      <4>3. Both(n, ui[n].device)
        BY <2>1, <3>1, ReadyApproved
      <4> QED
        BY <2>2, <4>2, <4>3, UiUpdated
    <3>2. CASE ~Ready(n, ui[n].device)
      BY <1>13, <2>2, <3>2, UiReturned DEF AcceptSend
    <3> QED
      BY <3>1, <3>2
  <2> QED
    BY <2>2, <2>4, <2>5, ApprovalFrame DEF ApprovalInv
<1>14. ASSUME NEW n \in Device, AcceptAdd(n)
       PROVE  ApprovalInv'
  <2>1. ui[n].device \in Device /\ Both(n, ui[n].device)
    BY <1>14 DEF AcceptAdd, TypeInv, ActorsOK, ApprovalInv, UiApproved
  <2>2. UNCHANGED <<owner, approvals, snap, thread, conns, chan>>
    BY <1>14 DEF AcceptAdd
  <2>3. TrustApproved'
    <3>1. trust' \in {trust, Added(n, ui[n].device)}
      BY <1>14 DEF AcceptAdd
    <3> QED
      BY <2>1, <2>2, <3>1, AddedApproved
  <2>4. UiApproved'
    <3>1. CASE TrustFull(n, ui[n].device)
      BY <1>14, <2>2, <3>1, UiReturned DEF AcceptAdd
    <3>2. CASE ~TrustFull(n, ui[n].device)
      <4>1. GuiGoto(n, "grant")
        BY <1>14, <3>2 DEF AcceptAdd
      <4>2. /\ ui'[n].pc = "grant" /\ ui'[n].device = ui[n].device
            /\ \A m \in Device \ {n} : ui'[m] = ui[m]
        BY <4>1, GuiGotoType DEF UiPC
      <4> QED
        BY <2>1, <2>2, <4>2, UiUpdated
    <3> QED
      BY <3>1, <3>2
  <2> QED
    BY <2>2, <2>3, <2>4, ApprovalFrame DEF ApprovalInv
<1>15. ASSUME NEW n \in Device, AcceptGrant(n)
       PROVE  ApprovalInv'
  <2>1. ui[n].device \in Device /\ Both(n, ui[n].device)
    BY <1>15 DEF AcceptGrant, TypeInv, ActorsOK, ApprovalInv, UiApproved
  <2>2. UNCHANGED <<owner, approvals, trust, snap, thread, chan>>
    BY <1>15 DEF AcceptGrant
  <2>3. ConnsApproved'
    BY <1>15, <2>1, <2>2, GrantedApproved DEF AcceptGrant
  <2>4. UiApproved'
    BY <1>15, <2>2, UiReturned DEF AcceptGrant
  <2> QED
    BY <2>2, <2>3, <2>4, ApprovalFrame DEF ApprovalInv
<1>16. ASSUME NEW n \in Device, NEW q \in Device, Forget(n, q) \/ Block(n, q)
       PROVE  ApprovalInv'
  <2>1. PICK entry : Revoke(n, q, entry)
    BY <1>16 DEF Forget, Block
  <2>2. UNCHANGED <<owner, approvals, snap, thread, conns, chan>>
    BY <2>1 DEF Revoke
  <2>3. TrustApproved'
    <3>1. \A m, p \in Device : trust'[m][p] # "unknown" => trust[m][p] # "unknown"
      BY <2>1 DEF Revoke, TypeOK
    <3> QED
      BY <2>2, <3>1 DEF ApprovalInv, TrustApproved, Both, Approved
  <2>4. UiApproved'
    <3>1. ui'[n].pc = "disconnect" /\ \A m \in Device \ {n} : ui'[m] = ui[m]
      BY <2>1 DEF Revoke, TypeOK
    <3> QED
      BY <2>2, <3>1, UiUpdated
  <2> QED
    BY <2>2, <2>3, <2>4, ApprovalFrame DEF ApprovalInv
<1>17. ASSUME NEW n \in Device, RevokeDisconnect(n)
       PROVE  ApprovalInv'
  <2>1. UiApproved'
    <3>1. ui'[n].pc = "idle" /\ \A m \in Device \ {n} : ui'[m] = ui[m]
      BY <1>17 DEF RevokeDisconnect, TypeOK, Idle
    <3>2. owner' = owner /\ approvals' = approvals
      BY <1>17 DEF RevokeDisconnect
    <3> QED
      BY <3>1, <3>2, UiUpdated
  <2> QED
    BY <1>17, <2>1, ApprovalFrame DEF RevokeDisconnect, ApprovalInv
<1>18. ASSUME NEW n \in Device, NEW q \in Device, Unblock(n, q)
       PROVE  ApprovalInv'
  <2>1. TrustApproved'
    <3>1. \A m, p \in Device : trust'[m][p] # "unknown" => trust[m][p] # "unknown"
      BY <1>18 DEF Unblock, TypeOK
    <3> QED
      BY <1>18, <3>1 DEF Unblock, ApprovalInv, TrustApproved, Both, Approved
  <2> QED
    BY <1>18, <2>1, ApprovalFrame DEF Unblock, ApprovalInv
<1>19. ASSUME NEW n \in Device, NEW q \in Device,
              Disconnect(n, q) \/ PickConn(n, q) \/ ExpirePairing(n, q)
       PROVE  ApprovalInv'
  <2>1. UNCHANGED <<owner, approvals, trust, conns, snap, chan, thread, ui>>
    BY <1>19 DEF Disconnect, PickConn, ExpirePairing
  <2> QED
    BY <2>1, ApprovalFrame DEF ApprovalInv
<1>20. ASSUME NEW n \in Device, SendData(n)
       PROVE  ApprovalInv'
  <2>1. chan' = Sent(chan, data[n], "Text") /\ data[n] \in End
    BY <1>20 DEF SendData, TypeOK
  <2>2. ChanApproved(chan')
    BY <2>1, SentApproved DEF TypeOK, Message
  <2> QED
    BY <1>20, <2>2, ApprovalFrame DEF SendData, ApprovalInv
<1>21. ASSUME NEW s \in Session, Cut(s)
       PROVE  ApprovalInv'
  BY <1>21, ApprovalFrame DEF Cut, ApprovalInv
<1>22. ASSUME NEW n \in Device, Restart(n)
       PROVE  ApprovalInv'
  <2>1. UNCHANGED <<owner, snap, trust, approvals>>
    BY <1>22 DEF Restart
  <2>2. NoNewPairing
    BY <1>22 DEF Restart
  <2>3. ChanApproved(chan')
    <3>1. \A x \in End : chan'[x] \in {<<>>, chan[x]}
      BY <1>22 DEF Restart
    <3> QED
      BY <3>1 DEF ChanApproved, Carries
  <2>4. ConnsApproved'
    <3>1. \A m, q \in Device : conns'[m][q] = None \/ conns'[m][q] = conns[m][q]
      BY <1>22 DEF Restart, TypeOK
    <3> QED
      BY <2>1, <3>1 DEF ConnsApproved, EntryApproved, Both, Approved
  <2>5. UiApproved'
    <3>1. ui'[n].pc = "idle" /\ \A m \in Device \ {n} : ui'[m] = ui[m]
      BY <1>22 DEF Restart, TypeOK, Idle
    <3> QED
      BY <2>1, <3>1, UiUpdated
  <2> QED
    BY <2>1, <2>2, <2>3, <2>4, <2>5, ApprovalFrame DEF ApprovalInv
<1>23. CASE UNCHANGED vars
  BY <1>23, ApprovalFrame DEF vars, ApprovalInv
<1> QED
  BY <1>1, <1>2, <1>3, <1>4, <1>5, <1>6, <1>7, <1>8, <1>9, <1>10, <1>11, <1>12, <1>13, <1>14,
     <1>15, <1>16, <1>17, <1>18, <1>19, <1>20, <1>21, <1>22, <1>23
     DEF Next, RunConnection, User, GuiThread

\* Nothing the threads of two devices do, in any order and across lost
\* connections and crashes, pairs two devices without the yes of both users.
THEOREM MutualApprovalCorrect == Spec => []MutualApproval
<1> DEFINE Inv == TypeInv /\ ConnsOwned /\ ApprovalInv
<1>1. Init => Inv
  BY TypeInvInit, OwnedInit, ApprovalInit
<1>2. Inv /\ [Next]_vars => Inv'
  BY TypeInvNext, OwnedNext, ApprovalNext
<1>3. Inv => MutualApproval
  BY DEF ApprovalInv, TrustApproved, ConnsApproved, EntryApproved, MutualApproval, Authorised, Both
<1> QED
  BY <1>1, <1>2, <1>3, PTL DEF Spec

-----------------------------------------------------------------------------
(* The connection limit *)

NoNewEntry == \A n, q \in Device : conns'[n][q] # None => conns[n][q] # None

LEMMA OnlyRegisterAdds ==
  ASSUME TypeInv, [Next]_vars
  PROVE  NoNewEntry \/ \E e \in End : Register(e)
<1> TypeOK
  BY DEF TypeInv
<1> USE DEF netVars, dataVars, uiVars
<1>1. ASSUME NEW n \in Device, NEW q \in Device
      PROVE  /\ conns' = conns => NoNewEntry
             /\ conns' = Granted(n, q) => NoNewEntry
             /\ conns' = Stored(n, q, None) => NoNewEntry
             /\ \A c : conns[n][q] # None /\ conns' = Stored(n, q, c) => NoNewEntry
  <2>1. \A c : conns[n][q] # None /\ conns' = Stored(n, q, c) => NoNewEntry
    BY DEF Stored, NoNewEntry, TypeOK
  <2>2. conns' = Stored(n, q, None) => NoNewEntry
    BY DEF Stored, NoNewEntry, TypeOK
  <2>3. conns' = conns => NoNewEntry
    BY DEF NoNewEntry
  <2> QED
    BY <2>1, <2>2, <2>3 DEF Granted
<1>2. ASSUME NEW e \in End, RunConnection(e), ~Register(e)
      PROVE  NoNewEntry
  <2> DEFINE n == Node(e)
             q == Peer(e)
  <2>1. \/ conns' = conns
        \/ conns' = Granted(n, q) /\ thread[e] = "grant"
        \/ conns' = Stored(n, q, None) /\ thread[e] = "removing"
        \/ /\ thread[e] = "loop" /\ conns[n][q] # None
           /\ \E c : conns' = Stored(n, q, c)
    BY <1>2 DEF RunConnection, CheckPeer, OnMessage, OnDataBeforePairing, OnPairRequest,
                OnPairAccept, OnPairReject, OnText, OnTextAck, Takes, FinalizeCheck, FinalizeAdd,
                FinalizeGrant, RecvError, Remove
  <2>2. thread[e] \in Live => n \in Device /\ q \in Device
    BY LiveOwned
  <2> QED
    BY <1>1, <2>1, <2>2 DEF Live, NoNewEntry
<1>3. ASSUME NEW n \in Device, User(n) \/ GuiThread(n) \/ SendData(n)
      PROVE  NoNewEntry
  <2> DEFINE q == ui[n].device
  <2>1. \/ conns' = conns
        \/ conns' = Granted(n, q) /\ ui[n].pc = "grant"
        \/ /\ ui[n].pc = "local_ok" /\ conns[n][q] # None
           /\ \E c : conns' = Stored(n, q, c)
    BY <1>3 DEF User, Answer, AnswerTooLate, Reject, Accept, Dial, Forget, Block, Revoke, Unblock,
                Disconnect, PickConn, GuiThread, PumpEvent, AcceptLocalOk, AcceptSend, AcceptAdd,
                AcceptGrant, RevokeDisconnect, SendData
  <2>2. ui[n].pc # "idle" => q \in Device
    BY DEF TypeInv, ActorsOK
  <2> QED
    BY <1>1, <2>1, <2>2 DEF NoNewEntry
<1>4. ASSUME NEW n \in Device, Restart(n)
      PROVE  NoNewEntry
  BY <1>4 DEF Restart, NoNewEntry, TypeOK
<1>5. ASSUME \/ \E s \in Session : Cut(s)
             \/ \E n, q \in Device : ExpirePairing(n, q)
             \/ UNCHANGED vars
      PROVE  NoNewEntry
  BY <1>5 DEF Cut, ExpirePairing, vars, NoNewEntry
<1> QED
  BY <1>2, <1>3, <1>4, <1>5 DEF Next

LEMMA LimitNext == TypeInv /\ ConnLimit /\ [Next]_vars => ConnLimit'
<1> SUFFICES ASSUME TypeInv, ConnLimit, [Next]_vars, NEW n \in Device
             PROVE  Cardinality(ConnPeers(n)') <= MAX_CONNECTIONS
  BY DEF ConnLimit
<1> TypeOK
  BY DEF TypeInv
<1>1. /\ IsFiniteSet(ConnPeers(n)) /\ Cardinality(ConnPeers(n)) \in Nat
      /\ MAX_CONNECTIONS \in Nat /\ Cardinality(ConnPeers(n)) <= MAX_CONNECTIONS
  BY ConstantsAssumption, FS_Subset, FS_CardinalityType DEF ConnPeers, ConnLimit
<1>2. CASE ConnPeers(n)' \subseteq ConnPeers(n)
  <2>1. Cardinality(ConnPeers(n)') \in Nat /\ Cardinality(ConnPeers(n)') <= Cardinality(ConnPeers(n))
    BY <1>1, <1>2, FS_Subset, FS_CardinalityType
  <2> QED
    BY <1>1, <2>1
<1>3. ASSUME NEW e \in End, Register(e)
      PROVE  Cardinality(ConnPeers(n)') <= MAX_CONNECTIONS
  <2>1. Node(e) \in Device /\ Peer(e) \in Device
    BY <1>3 DEF Register, TypeInv, ActorsOK, Node, Peer
  <2>2. CASE Admitted(Node(e), Peer(e)) /\ Node(e) = n
    <3>1. conns' = Stored(n, Peer(e), NewConn(e))
      BY <1>3, <2>2 DEF Register
    <3>2. ConnPeers(n)' \subseteq ConnPeers(n) \cup {Peer(e)}
      BY <2>1, <3>1 DEF Stored, ConnPeers, TypeOK
    <3>3. Cardinality(ConnPeers(n)) < MAX_CONNECTIONS
      BY <2>2 DEF Admitted
    <3>4. /\ IsFiniteSet(ConnPeers(n) \cup {Peer(e)})
          /\ Cardinality(ConnPeers(n) \cup {Peer(e)}) \in Nat
          /\ Cardinality(ConnPeers(n) \cup {Peer(e)}) <= Cardinality(ConnPeers(n)) + 1
      <4>1. /\ IsFiniteSet(ConnPeers(n) \cup {Peer(e)})
            /\ \/ Cardinality(ConnPeers(n) \cup {Peer(e)}) = Cardinality(ConnPeers(n))
               \/ Cardinality(ConnPeers(n) \cup {Peer(e)}) = Cardinality(ConnPeers(n)) + 1
        BY <1>1, FS_AddElement
      <4> QED
        BY <1>1, <4>1
    <3>5. Cardinality(ConnPeers(n)') <= Cardinality(ConnPeers(n) \cup {Peer(e)})
          /\ Cardinality(ConnPeers(n)') \in Nat
      BY <3>2, <3>4, FS_Subset, FS_CardinalityType
    <3> QED
      BY <1>1, <3>3, <3>4, <3>5
  <2>3. CASE ~(Admitted(Node(e), Peer(e)) /\ Node(e) = n)
    <3>1. conns'[n] = conns[n]
      <4>1. conns' = conns \/ (conns' = Stored(Node(e), Peer(e), NewConn(e)) /\ Node(e) # n)
        BY <1>3, <2>3 DEF Register
      <4> QED
        BY <2>1, <4>1 DEF Stored, TypeOK
    <3> QED
      BY <1>2, <3>1 DEF ConnPeers
  <2> QED
    BY <2>2, <2>3
<1>4. CASE NoNewEntry
  BY <1>2, <1>4 DEF NoNewEntry, ConnPeers
<1> QED
  BY <1>3, <1>4, OnlyRegisterAdds

\* However many connections are set up at the same time, no device ever has
\* more than MAX_CONNECTIONS of them.
THEOREM ConnLimitCorrect == Spec => []ConnLimit
<1>1. Init => TypeInv /\ ConnLimit
  <2>1. Init => ConnLimit
    <3> SUFFICES ASSUME Init, NEW n \in Device PROVE Cardinality(ConnPeers(n)) <= MAX_CONNECTIONS
      BY DEF ConnLimit
    <3>1. ConnPeers(n) = {}
      BY DEF Init, ConnPeers
    <3> QED
      BY <3>1, FS_EmptySet, ConstantsAssumption
  <2> QED
    BY <2>1, TypeInvInit
<1>2. TypeInv /\ ConnLimit /\ [Next]_vars => (TypeInv /\ ConnLimit)'
  BY TypeInvNext, LimitNext
<1> QED
  BY <1>1, <1>2, PTL DEF Spec
=============================================================================
