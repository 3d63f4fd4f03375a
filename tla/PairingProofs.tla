--------------------------- MODULE PairingProofs ---------------------------
(* Theorems about Pairing, for every set of devices and sessions. *)
EXTENDS Pairing, FiniteSetTheorems, TLAPS

LEMMA OtherEnd == \A e \in End : Other(e) \in End /\ Other(Other(e)) = e /\ Other(e) # e
BY DEF End, Role, Other

-----------------------------------------------------------------------------
(* Type correctness *)

\* Appending a message to a channel keeps the channels typed.
LEMMA SentType ==
  ASSUME NEW ch \in [End -> Seq(Message)], NEW e \in End, NEW m \in Message
  PROVE  Sent(ch, e, m) \in [End -> Seq(Message)]
BY OtherEnd DEF Sent

LEMMA EventType ==
  ASSUME TypeOK, NEW n \in Device, NEW q \in Device
  PROVE  /\ \A s \in Session : Prompted(n, q, s) \in [Device -> Seq(Event)]
         /\ Finished(n, q) \in [Device -> Seq(Event)]
BY DEF TypeOK, Prompted, Finished, Event, PairingRequired, PairingFinished

LEMMA ConnUpdate ==
  ASSUME NEW c \in Conn
  PROVE  /\ [c EXCEPT !.prompted = TRUE] \in Conn
         /\ [c EXCEPT !.local_ok = TRUE] \in Conn
         /\ [c EXCEPT !.remote_ok = TRUE] \in Conn
         /\ [c EXCEPT !.authorised = TRUE, !.prompted = FALSE] \in Conn
BY DEF Conn

LEMMA StoredType ==
  ASSUME TypeOK, NEW n \in Device, NEW q \in Device, NEW c \in Conn \cup {None}
  PROVE  Stored(n, q, c) \in [Device -> [Device -> Conn \cup {None}]]
BY DEF TypeOK, Stored

LEMMA GrantedType ==
  ASSUME TypeOK, NEW n \in Device, NEW q \in Device
  PROVE  Granted(n, q) \in [Device -> [Device -> Conn \cup {None}]]
<1>1. CASE conns[n][q] = None
  BY <1>1 DEF Granted, TypeOK
<1>2. CASE conns[n][q] # None
  <2>1. conns[n][q] \in Conn
    BY <1>2 DEF TypeOK
  <2> QED
    BY <1>2, <2>1, ConnUpdate, StoredType DEF Granted
<1> QED
  BY <1>1, <1>2

LEMMA AddedType ==
  ASSUME TypeOK, NEW n \in Device, NEW q \in Device
  PROVE  Added(n, q) \in [Device -> [Device -> {"unknown", "trusted", "blocked"}]]
BY DEF TypeOK, Added

LEMMA GuiGotoType ==
  ASSUME TypeOK, NEW n \in Device, NEW pc \in UiPC, GuiGoto(n, pc)
  PROVE  /\ ui' \in [Device -> [pc : UiPC, device : Device \cup {None}, end : End \cup {None}]]
         /\ ui'[n].pc = pc /\ ui'[n].device = ui[n].device /\ ui'[n].end = ui[n].end
         /\ \A m \in Device \ {n} : ui'[m] = ui[m]
<1>1. ui[n] \in [pc : UiPC, device : Device \cup {None}, end : End \cup {None}]
  BY DEF TypeOK
<1>2. ui' = [ui EXCEPT ![n] = [ui[n] EXCEPT !.pc = pc]]
  BY DEF GuiGoto, TypeOK
<1> QED
  BY <1>1, <1>2 DEF TypeOK

LEMMA ConnEndType ==
  ASSUME TypeOK, NEW n \in Device, NEW q \in Device, conns[n][q] # None
  PROVE  conns[n][q].end \in End /\ conns[n][q].end[1] \in Session
BY DEF TypeOK, Conn, End, Role

LEMMA SpendType ==
  ASSUME TypeOK, NEW what \in Kind, Spend(what)
  PROVE  used' \in [Kind -> Nat]
<1>1. used \in [Kind -> Nat] /\ used' = [used EXCEPT ![what] = used[what] + 1]
  BY DEF TypeOK, Spend
<1>2. used[what] + 1 \in Nat
  BY <1>1
<1> QED
  BY <1>1, <1>2

\* Who runs what: a thread exists only on a session with two owners, and the
\* GUI thread is at work on a device (and, until it has sent its answer, on
\* an end of a session).
ActorsOK ==
    /\ \A e \in End : thread[e] # "none" => owner[e] \in Device /\ owner[Other(e)] \in Device
    /\ \A e \in End : owner[e] = None <=> owner[Other(e)] = None
    /\ \A n \in Device :
          /\ ui[n].pc # "idle" => ui[n].device \in Device
          /\ ui[n].pc \in {"local_ok", "send"} => ui[n].end \in End

TypeInv == TypeOK /\ ActorsOK

LEMMA TypeInvInit == Init => TypeInv
<1> SUFFICES ASSUME Init PROVE TypeInv
  OBVIOUS
<1> USE ConstantsAssumption
<1>1. TypeOK
  BY DEF Init, TypeOK, ThreadPC, UiPC, Idle
<1>2. ActorsOK
  BY OtherEnd DEF Init, ActorsOK, Idle
<1> QED
  BY <1>1, <1>2 DEF TypeInv

LEMMA TypeInvNext == TypeInv /\ [Next]_vars => TypeInv'
<1> SUFFICES ASSUME TypeInv, [Next]_vars PROVE TypeInv'
  OBVIOUS
<1> USE ConstantsAssumption, OtherEnd DEF TypeInv, netVars, dataVars, uiVars
<1>1. ASSUME NEW n \in Device, NEW q \in Device, NEW s \in Session, Dial(n, q, s)
      PROVE  TypeInv'
  <2>1. TypeOK'
    <3>1. used' \in [Kind -> Nat]
      BY <1>1, SpendType DEF Dial, Kind
    <3> QED
      BY <1>1, <3>1 DEF Dial, TypeOK, ThreadPC
  <2>2. ActorsOK'
    <3>1. \A e \in End : e[1] = s => e \in {<<s, "dialer">>, <<s, "listener">>}
      BY DEF End, Role
    <3>2. \A e \in End : Other(e)[1] = e[1]
      BY DEF End, Other
    <3>3. \A e \in End : e[1] # s => owner'[e] = owner[e] /\ thread'[e] = thread[e]
      BY <1>1 DEF Dial, TypeOK, End
    <3>4. \A e \in End : e[1] = s => owner'[e] \in Device
      BY <1>1, <3>1 DEF Dial, TypeOK, End, Role
    <3> QED
      BY <1>1, <3>2, <3>3, <3>4 DEF Dial, ActorsOK
  <2> QED
    BY <2>1, <2>2
<1>2. ASSUME NEW e \in End, NEW ok \in BOOLEAN, NEW allow \in BOOLEAN, CheckPeer(e, ok, allow)
      PROVE  TypeInv'
  <2>1. TypeOK'
    BY <1>2 DEF CheckPeer, Goto, TypeOK, ThreadPC
  <2>2. ActorsOK'
    BY <1>2 DEF CheckPeer, Goto, TypeOK, ActorsOK
  <2> QED
    BY <2>1, <2>2
<1>3. ASSUME NEW e \in End, Register(e)
      PROVE  TypeInv'
  <2>1. Node(e) \in Device /\ Peer(e) \in Device
    BY <1>3 DEF Register, ActorsOK, Node, Peer
  <2>2. NewConn(e) \in Conn
    BY DEF NewConn, Conn, TypeOK
  <2>3. conns' \in [Device -> [Device -> Conn \cup {None}]]
    <3>1. conns' \in {conns, Stored(Node(e), Peer(e), NewConn(e))}
      BY <1>3 DEF Register
    <3>2. Stored(Node(e), Peer(e), NewConn(e)) \in [Device -> [Device -> Conn \cup {None}]]
      BY <2>1, <2>2, StoredType
    <3> QED
      BY <3>1, <3>2 DEF TypeOK
  <2>4. chan' \in [End -> Seq(Message)]
    <3>1. chan' \in {chan, Sent(chan, e, "PairRequest")}
      BY <1>3 DEF Register
    <3>2. Sent(chan, e, "PairRequest") \in [End -> Seq(Message)]
      BY SentType DEF TypeOK, Message
    <3> QED
      BY <3>1, <3>2 DEF TypeOK
  <2>5. events' \in [Device -> Seq(Event)]
    <3>1. events' \in {events, Prompted(Node(e), Peer(e), e[1])}
      BY <1>3 DEF Register
    <3>2. Prompted(Node(e), Peer(e), e[1]) \in [Device -> Seq(Event)]
      BY <2>1, EventType DEF End
    <3> QED
      BY <3>1, <3>2 DEF TypeOK
  <2>6. TypeOK'
    <3>1. thread' \in [End -> ThreadPC] /\ down' \in [End -> BOOLEAN]
      <4>1. \E pc \in {"loop", "done"} : thread' = [thread EXCEPT ![e] = pc]
        BY <1>3 DEF Register, Goto
      <4>2. down' \in {down, [down EXCEPT ![e] = TRUE]}
        BY <1>3 DEF Register
      <4> QED
        <5>1. thread \in [End -> ThreadPC] /\ down \in [End -> BOOLEAN] /\ {"loop", "done"} \subseteq ThreadPC
          BY DEF TypeOK, ThreadPC, Live
        <5> QED
          BY <4>1, <4>2, <5>1
    <3> QED
      BY <1>3, <2>3, <2>4, <2>5, <3>1 DEF Register, TypeOK
  <2>7. ActorsOK'
    BY <1>3 DEF Register, Goto, TypeOK, ActorsOK
  <2> QED
    BY <2>6, <2>7
<1>4. ASSUME NEW e \in End, RecvError(e)
      PROVE  TypeInv'
  BY <1>4 DEF RecvError, Break, Goto, TypeOK, ActorsOK, ThreadPC, Live
<1>5. ASSUME NEW e \in End, Remove(e)
      PROVE  TypeInv'
  <2>1. Node(e) \in Device /\ Peer(e) \in Device
    BY <1>5 DEF Remove, ActorsOK, Node, Peer
  <2>2. conns' \in [Device -> [Device -> Conn \cup {None}]]
    BY <1>5, <2>1, StoredType DEF Remove, TypeOK
  <2> QED
    <3>1. TypeOK'
      <4>1. thread' \in [End -> ThreadPC] /\ chan' \in [End -> Seq(Message)]
        BY <1>5 DEF Remove, Goto, TypeOK, ThreadPC
      <4> QED
        BY <1>5, <2>2, <4>1 DEF Remove, TypeOK
    <3>2. ActorsOK'
      BY <1>5 DEF Remove, Goto, TypeOK, ActorsOK
    <3> QED
      BY <3>1, <3>2
<1>6. ASSUME NEW e \in End, OnMessage(e)
      PROVE  TypeInv'
  <2>1. /\ Node(e) \in Device /\ Peer(e) \in Device
        /\ thread[e] = "loop"
        /\ Rest(e) \in [End -> Seq(Message)]
    BY <1>6 DEF OnMessage, OnDataBeforePairing, OnPairRequest, OnPairAccept, OnPairReject,
                OnText, OnTextAck, Takes, Rest, ActorsOK, Node, Peer, TypeOK
  <2>2. CASE OnDataBeforePairing(e)
    BY <2>1, <2>2 DEF OnDataBeforePairing, Break, Goto, TypeOK, ActorsOK, ThreadPC, Live
  <2>3. CASE OnPairRequest(e)
    <3>1. CASE conns[Node(e)][Peer(e)] = None
      <4>1. TypeOK'
        BY <2>1, <2>3, <3>1 DEF OnPairRequest, Break, Goto, TypeOK, ThreadPC, Live
      <4>2. ActorsOK'
        BY <2>1, <2>3, <3>1 DEF OnPairRequest, Break, Goto, TypeOK, ActorsOK
      <4> QED
        BY <4>1, <4>2
    <3>2. CASE conns[Node(e)][Peer(e)] # None
      <4>1. conns[Node(e)][Peer(e)] \in Conn
        BY <2>1, <3>2 DEF TypeOK
      <4>2. conns' \in [Device -> [Device -> Conn \cup {None}]]
        <5>1. conns' = Stored(Node(e), Peer(e), [conns[Node(e)][Peer(e)] EXCEPT !.prompted = TRUE])
          BY <2>3, <3>2 DEF OnPairRequest
        <5>2. [conns[Node(e)][Peer(e)] EXCEPT !.prompted = TRUE] \in Conn
          BY <4>1, ConnUpdate
        <5> QED
          BY <2>1, <5>1, <5>2, StoredType
      <4>3. events' \in [Device -> Seq(Event)]
        <5>1. events' \in {events, Prompted(Node(e), Peer(e), conns[Node(e)][Peer(e)].end[1])}
          BY <2>3, <3>2 DEF OnPairRequest
        <5>2. Prompted(Node(e), Peer(e), conns[Node(e)][Peer(e)].end[1]) \in [Device -> Seq(Event)]
          BY <2>1, <3>2, ConnEndType, EventType
        <5> QED
          BY <5>1, <5>2 DEF TypeOK
      <4> QED
        BY <2>1, <2>3, <3>2, <4>2, <4>3 DEF OnPairRequest, TypeOK, ActorsOK
    <3> QED
      BY <3>1, <3>2
  <2>4. CASE OnPairAccept(e)
    <3>1. conns' \in [Device -> [Device -> Conn \cup {None}]]
      <4>1. CASE conns[Node(e)][Peer(e)] = None
        BY <2>4, <4>1 DEF OnPairAccept, TypeOK
      <4>2. CASE conns[Node(e)][Peer(e)] # None
        <5>1. conns[Node(e)][Peer(e)] \in Conn
          BY <2>1, <4>2 DEF TypeOK
        <5> QED
          BY <2>1, <2>4, <4>2, <5>1, ConnUpdate, StoredType DEF OnPairAccept
      <4> QED
        BY <4>1, <4>2
    <3> QED
      BY <2>1, <2>4, <3>1 DEF OnPairAccept, Goto, TypeOK, ActorsOK, ThreadPC, Live
  <2>5. CASE OnPairReject(e)
    BY <2>1, <2>5, EventType
       DEF OnPairReject, Break, Goto, TypeOK, ActorsOK, ThreadPC, Live
  <2>6. CASE OnText(e)
    <3>1. conns[Node(e)][Peer(e)].end \in End
      BY <2>1, <2>6, ConnEndType DEF OnText, Authorised
    <3>2. chan' \in [End -> Seq(Message)]
      BY <2>1, <2>6, <3>1, SentType DEF OnText, Message
    <3> QED
      BY <2>6, <3>2 DEF OnText, TypeOK, ActorsOK
  <2>7. CASE OnTextAck(e)
    BY <2>1, <2>7 DEF OnTextAck, TypeOK, ActorsOK
  <2> QED
    BY <1>6, <2>2, <2>3, <2>4, <2>5, <2>6, <2>7 DEF OnMessage
<1>7. ASSUME NEW e \in End, FinalizeCheck(e)
      PROVE  TypeInv'
  BY <1>7 DEF FinalizeCheck, Goto, TypeOK, ActorsOK, ThreadPC, Live
<1>8. ASSUME NEW e \in End, FinalizeAdd(e)
      PROVE  TypeInv'
  <2>1. Node(e) \in Device /\ Peer(e) \in Device
    BY <1>8 DEF FinalizeAdd, ActorsOK, Node, Peer
  <2>2. TypeOK'
    BY <1>8, <2>1, AddedType DEF FinalizeAdd, Goto, TypeOK, ThreadPC, Live
  <2> QED
    BY <1>8, <2>2 DEF FinalizeAdd, Goto, TypeOK, ActorsOK
<1>9. ASSUME NEW e \in End, FinalizeGrant(e)
      PROVE  TypeInv'
  <2>1. Node(e) \in Device /\ Peer(e) \in Device
    BY <1>9 DEF FinalizeGrant, ActorsOK, Node, Peer
  <2> QED
    BY <1>9, <2>1, GrantedType, EventType
       DEF FinalizeGrant, Goto, TypeOK, ActorsOK, ThreadPC, Live
<1>10. ASSUME NEW n \in Device, PumpEvent(n)
       PROVE  TypeInv'
  <2>1. Head(events[n]) \in Event /\ Tail(events[n]) \in Seq(Event)
    BY <1>10 DEF PumpEvent, TypeOK
  <2>2. Head(events[n]).kind = "PairingRequired" => Head(events[n]) \in PairingRequired
    BY <2>1 DEF Event, PairingRequired, PairingFinished
  <2>3. prompt' \in [Device -> PairingRequired \cup {None}]
    BY <1>10, <2>2 DEF PumpEvent, TypeOK
  <2> QED
    BY <1>10, <2>1, <2>3 DEF PumpEvent, TypeOK, ActorsOK
<1>11. ASSUME NEW n \in Device, Answer(n)
       PROVE  TypeInv'
  <2>1. prompt[n] \in PairingRequired
    BY <1>11 DEF Answer, AnswerTooLate, Reject, Accept, TypeOK
  <2>2. prompt[n].device \in Device /\ prompt[n].session \in Session
    BY <2>1 DEF PairingRequired
  <2>3. CASE AnswerTooLate(n)
    BY <2>3 DEF AnswerTooLate, TypeOK, ActorsOK
  <2>4. CASE Reject(n)
    <3> DEFINE q == prompt[n].device
    <3>1. conns[n][q].end \in End
      BY <2>2, <2>4, ConnEndType DEF Reject
    <3>2. chan' \in [End -> Seq(Message)]
      BY <2>4, <3>1, SentType DEF Reject, TypeOK, Message
    <3>3. events' \in [Device -> Seq(Event)]
      BY <2>2, <2>4, EventType DEF Reject
    <3>4. used' \in [Kind -> Nat]
      BY <2>4, SpendType DEF Reject, Kind
    <3> QED
      BY <2>4, <3>1, <3>2, <3>3, <3>4 DEF Reject, TypeOK, ActorsOK
  <2>5. CASE Accept(n)
    <3> DEFINE q == prompt[n].device
    <3>1. conns[n][q].end \in End
      BY <2>2, <2>5, ConnEndType DEF Accept
    <3>2. used' \in [Kind -> Nat]
      BY <2>5, SpendType DEF Accept, Kind
    <3>3. approvals' \subseteq Device \X Device \X (Session \cup {None})
      BY <2>2, <2>5 DEF Accept, TypeOK
    <3>4. ui' \in [Device -> [pc : UiPC, device : Device \cup {None}, end : End \cup {None}]]
      BY <2>2, <2>5, <3>1 DEF Accept, TypeOK, UiPC
    <3>5. TypeOK'
      BY <2>5, <3>2, <3>3, <3>4 DEF Accept, TypeOK
    <3>6. ActorsOK'
      BY <2>2, <2>5, <3>1 DEF Accept, TypeOK, ActorsOK
    <3> QED
      BY <3>5, <3>6
  <2> QED
    BY <1>11, <2>3, <2>4, <2>5 DEF Answer
<1>12. ASSUME NEW n \in Device, AcceptLocalOk(n)
       PROVE  TypeInv'
  <2>1. ui[n].device \in Device
    BY <1>12 DEF AcceptLocalOk, ActorsOK
  <2>2. conns' \in [Device -> [Device -> Conn \cup {None}]]
    <3>1. CASE conns[n][ui[n].device] = None
      BY <1>12, <3>1 DEF AcceptLocalOk, TypeOK
    <3>2. CASE conns[n][ui[n].device] # None
      <4>1. conns[n][ui[n].device] \in Conn
        BY <2>1, <3>2 DEF TypeOK
      <4> QED
        BY <1>12, <2>1, <3>2, <4>1, ConnUpdate, StoredType DEF AcceptLocalOk
    <3> QED
      BY <3>1, <3>2
  <2>3. GuiGoto(n, "send")
    BY <1>12 DEF AcceptLocalOk
  <2>4. TypeOK'
    BY <1>12, <2>2, <2>3, GuiGotoType DEF AcceptLocalOk, TypeOK, UiPC
  <2>5. ActorsOK'
    BY <1>12, <2>3, GuiGotoType DEF AcceptLocalOk, ActorsOK, UiPC
  <2> QED
    BY <2>4, <2>5
<1>13. ASSUME NEW n \in Device, AcceptSend(n)
       PROVE  TypeInv'
  <2>1. chan' \in [End -> Seq(Message)]
    BY <1>13, SentType DEF AcceptSend, ActorsOK, TypeOK, Message
  <2>2. CASE Return(n)
    BY <1>13, <2>1, <2>2 DEF AcceptSend, Return, Idle, GuiGoto, TypeOK, ActorsOK, UiPC
  <2>3. CASE GuiGoto(n, "add") /\ UNCHANGED prompt
    <3>1. TypeOK'
      BY <1>13, <2>1, <2>3, GuiGotoType DEF AcceptSend, TypeOK, UiPC
    <3>2. ActorsOK'
      BY <1>13, <2>3, GuiGotoType DEF AcceptSend, ActorsOK, UiPC
    <3> QED
      BY <3>1, <3>2
  <2> QED
    BY <1>13, <2>2, <2>3 DEF AcceptSend, Return, GuiGoto
<1>14. ASSUME NEW n \in Device, AcceptAdd(n)
       PROVE  TypeInv'
  <2>1. ui[n].device \in Device
    BY <1>14 DEF AcceptAdd, ActorsOK
  <2>2. trust' \in [Device -> [Device -> {"unknown", "trusted", "blocked"}]]
    <3>1. trust' \in {trust, Added(n, ui[n].device)}
      BY <1>14 DEF AcceptAdd
    <3>2. Added(n, ui[n].device) \in [Device -> [Device -> {"unknown", "trusted", "blocked"}]]
      BY <2>1, AddedType
    <3>3. trust \in [Device -> [Device -> {"unknown", "trusted", "blocked"}]]
      BY DEF TypeOK
    <3> QED
      BY <3>1, <3>2, <3>3
  <2>3. CASE Return(n)
    BY <1>14, <2>2, <2>3 DEF AcceptAdd, Return, Idle, GuiGoto, TypeOK, ActorsOK, UiPC
  <2>4. CASE GuiGoto(n, "grant") /\ UNCHANGED prompt
    <3>1. TypeOK'
      BY <1>14, <2>2, <2>4, GuiGotoType DEF AcceptAdd, TypeOK, UiPC
    <3>2. ActorsOK'
      BY <1>14, <2>4, GuiGotoType DEF AcceptAdd, ActorsOK, UiPC
    <3> QED
      BY <3>1, <3>2
  <2> QED
    BY <1>14, <2>3, <2>4 DEF AcceptAdd, Return, GuiGoto
<1>15. ASSUME NEW n \in Device, AcceptGrant(n)
       PROVE  TypeInv'
  <2>1. ui[n].device \in Device
    BY <1>15 DEF AcceptGrant, ActorsOK
  <2>2. TypeOK'
    BY <1>15, <2>1, GrantedType, EventType DEF AcceptGrant, Return, Idle, TypeOK, UiPC
  <2>3. ActorsOK'
    BY <1>15 DEF AcceptGrant, Return, Idle, TypeOK, ActorsOK
  <2> QED
    BY <2>2, <2>3
<1>16. ASSUME NEW n \in Device, NEW q \in Device, Forget(n, q) \/ Block(n, q)
       PROVE  TypeInv'
  <2>1. PICK entry \in {"unknown", "blocked"} : Revoke(n, q, entry)
    BY <1>16 DEF Forget, Block
  <2>2. used' \in [Kind -> Nat]
    BY <2>1, SpendType DEF Revoke, Kind
  <2>3. TypeOK'
    BY <2>1, <2>2 DEF Revoke, TypeOK, UiPC
  <2>4. ActorsOK'
    BY <2>1 DEF Revoke, TypeOK, ActorsOK
  <2> QED
    BY <2>3, <2>4
<1>17. ASSUME NEW n \in Device, RevokeDisconnect(n)
       PROVE  TypeInv'
  <2>1. ui[n].device \in Device
    BY <1>17 DEF RevokeDisconnect, ActorsOK
  <2>2. down' \in [End -> BOOLEAN]
    BY <1>17, <2>1, ConnEndType DEF RevokeDisconnect, Shutdown, TypeOK
  <2> QED
    BY <1>17, <2>2 DEF RevokeDisconnect, Idle, TypeOK, ActorsOK, UiPC
<1>18. ASSUME NEW n \in Device, NEW q \in Device, Unblock(n, q)
       PROVE  TypeInv'
  <2>1. used' \in [Kind -> Nat]
    BY <1>18, SpendType DEF Unblock, Kind
  <2> QED
    BY <1>18, <2>1 DEF Unblock, TypeOK, ActorsOK
<1>19. ASSUME NEW n \in Device, NEW q \in Device, Disconnect(n, q)
       PROVE  TypeInv'
  <2>1. used' \in [Kind -> Nat]
    BY <1>19, SpendType DEF Disconnect, Kind
  <2>2. down' \in [End -> BOOLEAN]
    BY <1>19, ConnEndType DEF Disconnect, Shutdown, TypeOK
  <2> QED
    BY <1>19, <2>1, <2>2 DEF Disconnect, TypeOK, ActorsOK
<1>20. ASSUME NEW n \in Device, NEW q \in Device, PickConn(n, q)
       PROVE  TypeInv'
  <2>1. used' \in [Kind -> Nat]
    BY <1>20, SpendType DEF PickConn, Kind
  <2>2. conns[n][q].end \in End
    BY <1>20, ConnEndType DEF PickConn, Authorised
  <2> QED
    BY <1>20, <2>1, <2>2 DEF PickConn, TypeOK, ActorsOK
<1>21. ASSUME NEW n \in Device, SendData(n)
       PROVE  TypeInv'
  <2>1. chan' \in [End -> Seq(Message)]
    BY <1>21, SentType DEF SendData, TypeOK, Message
  <2> QED
    BY <1>21, <2>1 DEF SendData, TypeOK, ActorsOK
<1>22. ASSUME NEW n \in Device, NEW q \in Device, ExpirePairing(n, q)
       PROVE  TypeInv'
  <2>1. down' \in [End -> BOOLEAN]
    BY <1>22, ConnEndType DEF ExpirePairing, Shutdown, TypeOK
  <2>2. used' \in [Kind -> Nat]
    BY <1>22, SpendType DEF ExpirePairing, Kind
  <2> QED
    BY <1>22, <2>1, <2>2 DEF ExpirePairing, TypeOK, ActorsOK
<1>23. ASSUME NEW s \in Session, Cut(s)
       PROVE  TypeInv'
  <2>1. used' \in [Kind -> Nat]
    BY <1>23, SpendType DEF Cut, Kind
  <2> QED
    BY <1>23, <2>1 DEF Cut, TypeOK, ActorsOK
<1>24. ASSUME NEW n \in Device, Restart(n)
       PROVE  TypeInv'
  <2>1. used' \in [Kind -> Nat]
    BY <1>24, SpendType DEF Restart, Kind
  <2>2. thread' \in [End -> ThreadPC] /\ down' \in [End -> BOOLEAN] /\ chan' \in [End -> Seq(Message)]
    BY <1>24 DEF Restart, TypeOK, ThreadPC
  <2>3. TypeOK'
    <3>1. conns' \in [Device -> [Device -> Conn \cup {None}]]
      BY <1>24 DEF Restart, TypeOK
    <3>2. ui' \in [Device -> [pc : UiPC, device : Device \cup {None}, end : End \cup {None}]]
      BY <1>24 DEF Restart, Idle, TypeOK, UiPC
    <3>3. events' \in [Device -> Seq(Event)] /\ prompt' \in [Device -> PairingRequired \cup {None}]
      BY <1>24 DEF Restart, TypeOK
    <3>4. data' \in [Device -> End \cup {None}]
      BY <1>24 DEF Restart, TypeOK
    <3> QED
      BY <1>24, <2>1, <2>2, <3>1, <3>2, <3>3, <3>4 DEF Restart, TypeOK
  <2>4. ActorsOK'
    BY <1>24 DEF Restart, Idle, TypeOK, ActorsOK
  <2> QED
    BY <2>3, <2>4
<1>25. CASE UNCHANGED vars
  BY <1>25 DEF vars, TypeOK, ActorsOK
<1> QED
  BY <1>1, <1>2, <1>3, <1>4, <1>5, <1>6, <1>7, <1>8, <1>9, <1>10, <1>11, <1>12, <1>13, <1>14,
     <1>15, <1>16, <1>17, <1>18, <1>19, <1>20, <1>21, <1>22, <1>23, <1>24, <1>25
     DEF Next, RunConnection, User, GuiThread

\* Every variable keeps its type, whatever the devices, sessions and bounds.
THEOREM TypeCorrect == Spec => []TypeOK
<1>1. TypeInv => TypeOK
  BY DEF TypeInv
<1> QED
  BY <1>1, TypeInvInit, TypeInvNext, PTL DEF Spec
=============================================================================
