------------------------ MODULE SecureChannelProofs ------------------------
(* Theorems about SecureChannel, for every set of sending threads, every   *)
(* script of what they send and every size of the socket buffers.          *)
EXTENDS SecureChannel, TLAPS

Frame == [msg : Message, nonce : Nat, whole : BOOLEAN]

Reason == {"no", "decode", "decrypt", "eof", "timeout"}

TypeInv ==
    /\ pc \in [End -> [Thread -> PC]]
    /\ frame \in [End -> [Thread -> Frame \cup {None}]]
    /\ noise \in [End -> Thread \cup {None}] /\ conns \in [End -> Thread \cup {None}]
    /\ wire \in [End -> Seq(Frame)]
    /\ closed \in [End -> BOOLEAN] /\ shut \in [End -> BOOLEAN]
    /\ stream \in [End -> Seq(Message)] /\ handled \in [End -> Seq(Message)]
    /\ ended \in [End -> Reason] /\ lost \in [End -> BOOLEAN]

\* The thread that holds the mutexes of an end is the one that writes there.
LocksOK == \A e \in End, t \in Thread : pc[e][t] = "write" <=> noise[e] = t

Carrying == {"encrypt", "write", "decrypt", "handle"}

FramesOK ==
    \A e \in End, t \in Thread :
        /\ pc[e][t] \in Carrying => frame[e][t] \in Frame
        /\ pc[e][t] \in Sending => frame[e][t].whole

Leaving == {"shutdown", "remove", "gone"}

ReaderOK ==
    \A e \in End : /\ pc[e]["reader"] # "idle"
                   /\ pc[e]["reader"] \notin Leaving => ended[e] = "no"

\* The frame carries the message that its end encrypted with its nonce.
OnStream(f, e) == f.nonce < Len(stream[e]) /\ f.msg = stream[e][f.nonce + 1]

Latest(e, t) ==
    pc[e][t] = "write" =>
        OnStream(frame[e][t], e) /\ Len(stream[e]) = frame[e][t].nonce + 1

ReadFrame(e) == pc[e]["reader"] = "decrypt" => OnStream(frame[e]["reader"], Other(e))

OnWire(e) == \A i \in 1..Len(wire[e]) : OnStream(wire[e][i], Other(e))

Numbered ==
    /\ \A e \in End, t \in Thread : Latest(e, t)
    /\ \A e \in End : ReadFrame(e) /\ OnWire(e)

\* What the connection thread has taken off the wire, and what was put there.
Taken(e) == Len(handled[e]) + IF pc[e]["reader"] = "decrypt" THEN 1 ELSE 0

Put(e) == Taken(e) + Len(wire[e])

\* As long as no write has failed, frames are on their way to an end one behind
\* the other, each whole and each with the number of its place.
InStep(e) ==
    /\ pc[e]["reader"] = "decrypt" =>
          frame[e]["reader"].whole /\ frame[e]["reader"].nonce = Len(handled[e])
    /\ \A i \in 1..Len(wire[e]) : wire[e][i].whole /\ wire[e][i].nonce + 1 = Taken(e) + i
    /\ Len(stream[Other(e)]) = IF noise[Other(e)] = None THEN Put(e) ELSE Put(e) + 1

AllInStep == \A e \in End : ~lost[Other(e)] /\ ended[e] = "no" => InStep(e)

Inv ==
    /\ TypeInv
    /\ LocksOK /\ FramesOK /\ ReaderOK
    /\ Numbered /\ AllInStep
    /\ UnopenedOnlyAfterLostWrite /\ FittingTextDecodes

-----------------------------------------------------------------------------
(* The constants *)

LEMMA OtherEnd ==
    ASSUME NEW e \in End
    PROVE  /\ Other(e) \in End /\ Other(e) # e /\ Other(Other(e)) = e
           /\ \A f \in End : f = e \/ f = Other(e)
           /\ \A f \in End : Other(f) = Other(e) <=> f = e
<1>1. PICK a, b \in End : a # b /\ End = {a, b}
  BY ConstantsAssumption
<1>2. Other(a) = b /\ Other(b) = a
  BY <1>1 DEF Other
<1> QED BY <1>1, <1>2

LEMMA Threads ==
    /\ "reader" \in Thread /\ "closer" \in Thread /\ None \notin Thread
    /\ \A t \in Worker : t \in Thread
BY ConstantsAssumption DEF Thread

LEMMA Sends ==
    ASSUME NEW e \in End, NEW m \in Sent(e)
    PROVE  m \in Message /\ m.typed \in Nat /\ m.kind # "ack"
<1>1. PICK i \in DOMAIN Script[e] : m = [kind |-> Script[e][i].kind, typed |-> Script[e][i].typed, id |-> i]
  BY DEF Sent
<1>2. Script[e][i].kind \in {"text", "chunk"} /\ Script[e][i].typed \in Nat
  BY ConstantsAssumption
<1>3. m \in UNION {Sent(f) : f \in End}
  OBVIOUS
<1> QED BY <1>1, <1>2, <1>3 DEF Message

LEMMA Messages ==
    ASSUME NEW m \in Message
    PROVE  /\ m.typed \in Nat
           /\ m.kind = "text" => Ack(m) \in Message
<1> DEFINE M == UNION {Sent(e) : e \in End}
<1>1. m \in M \/ \E x \in M : m = Ack(x)
  BY DEF Message
<1>2. CASE m \in M
  <2>1. m.typed \in Nat
    BY <1>2, Sends
  <2>2. Ack(m) \in Message
    BY <1>2 DEF Message
  <2> QED BY <2>1, <2>2
<1>3. ASSUME NEW x \in M, m = Ack(x) PROVE m.typed \in Nat /\ m.kind # "text"
  BY <1>3 DEF Ack
<1> QED BY <1>1, <1>2, <1>3

LEMMA TypeInvMeans == TypeInv /\ LocksOK => TypeOK
<1> SUFFICES ASSUME TypeInv, LocksOK PROVE TypeOK
  OBVIOUS
<1>1. ASSUME NEW e \in End, NEW t \in Thread, frame[e][t] # None
      PROVE  frame[e][t].msg \in Message /\ frame[e][t].whole \in BOOLEAN
  <2>1. frame[e][t] \in Frame
    BY <1>1 DEF TypeInv
  <2> QED BY <2>1 DEF Frame
<1>2. ASSUME NEW e \in End, NEW i \in DOMAIN wire[e] PROVE wire[e][i].msg \in Message
  <2>1. wire[e] \in Seq(Frame)
    BY DEF TypeInv
  <2>2. wire[e][i] \in Frame
    BY <2>1
  <2> QED BY <2>2 DEF Frame
<1> QED BY <1>1, <1>2 DEF TypeInv, TypeOK, LocksOK

-----------------------------------------------------------------------------
(* Functions of an end and a thread *)

LEMMA Updated ==
    ASSUME NEW S, NEW g \in [End -> [Thread -> S]], NEW e \in End, NEW t \in Thread, NEW x \in S
    PROVE  /\ [g EXCEPT ![e][t] = x] \in [End -> [Thread -> S]]
           /\ [g EXCEPT ![e][t] = x][e][t] = x
           /\ \A f \in End, u \in Thread : f # e \/ u # t => [g EXCEPT ![e][t] = x][f][u] = g[f][u]
<1> DEFINE row == [g[e] EXCEPT ![t] = x]
<1>1. /\ row \in [Thread -> S] /\ row[t] = x
      /\ \A u \in Thread \ {t} : row[u] = g[e][u]
  OBVIOUS
<1>2. [g EXCEPT ![e][t] = x] = [g EXCEPT ![e] = row]
  OBVIOUS
<1> HIDE DEF row
<1>3. /\ [g EXCEPT ![e] = row] \in [End -> [Thread -> S]]
      /\ [g EXCEPT ![e] = row][e] = row
      /\ \A f \in End \ {e} : [g EXCEPT ![e] = row][f] = g[f]
  BY <1>1
<1> QED BY <1>1, <1>2, <1>3

\* The thread t of the end e goes to x in g, and no other thread moves.
Moves(g, h, e, t, x) ==
    h[e][t] = x /\ \A f \in End, u \in Thread : f # e \/ u # t => h[f][u] = g[f][u]

LEMMA PcMoves ==
    ASSUME TypeInv, NEW e \in End, NEW t \in Thread, NEW to \in PC, pc' = [pc EXCEPT ![e][t] = to]
    PROVE  pc' \in [End -> [Thread -> PC]] /\ Moves(pc, pc', e, t, to)
<1>1. pc \in [End -> [Thread -> PC]]
  BY DEF TypeInv
<1> QED BY <1>1, Updated DEF Moves

LEMMA FrameMoves ==
    ASSUME TypeInv, NEW e \in End, NEW t \in Thread, NEW x \in Frame \cup {None},
           frame' = [frame EXCEPT ![e][t] = x]
    PROVE  frame' \in [End -> [Thread -> Frame \cup {None}]] /\ Moves(frame, frame', e, t, x)
<1>1. frame \in [End -> [Thread -> Frame \cup {None}]]
  BY DEF TypeInv
<1> QED BY <1>1, Updated DEF Moves

-----------------------------------------------------------------------------
(* Steps that neither encrypt nor take a frame off the wire *)

\* Such a step leaves the numbers alone.
LEMMA QuietInv ==
    ASSUME Inv, NEW e \in End, NEW t \in Thread, NEW to \in PC, NEW x \in Frame \cup {None},
           pc[e][t] \notin {"write", "decrypt"}, to \notin {"write", "decrypt"},
           pc' \in [End -> [Thread -> PC]], Moves(pc, pc', e, t, to),
           frame' \in [End -> [Thread -> Frame \cup {None}]], Moves(frame, frame', e, t, x),
           to \in Carrying => x \in Frame,
           to = "encrypt" => x.whole,
           t = "reader" => to # "idle" /\ (to \notin Leaving => pc[e][t] \notin Leaving),
           UNCHANGED <<noise, wire, stream, handled, ended, lost>>,
           conns' \in [End -> Thread \cup {None}],
           closed' \in [End -> BOOLEAN], shut' \in [End -> BOOLEAN]
    PROVE  Inv'
<1>1. /\ pc'[e][t] = to /\ frame'[e][t] = x
      /\ \A f \in End, u \in Thread : f # e \/ u # t => pc'[f][u] = pc[f][u] /\ frame'[f][u] = frame[f][u]
  BY DEF Moves
<1>2. TypeInv'
  BY DEF Inv, TypeInv
<1>3. LocksOK'
  <2> SUFFICES ASSUME NEW f \in End, NEW u \in Thread PROVE pc'[f][u] = "write" <=> noise'[f] = u
    BY DEF LocksOK
  <2>1. pc'[f][u] = "write" <=> pc[f][u] = "write"
    BY <1>1
  <2> QED BY <2>1 DEF Inv, LocksOK
<1>4. FramesOK'
  <2> SUFFICES ASSUME NEW f \in End, NEW u \in Thread
               PROVE  /\ pc'[f][u] \in Carrying => frame'[f][u] \in Frame
                      /\ pc'[f][u] \in Sending => frame'[f][u].whole
    BY DEF FramesOK
  <2>1. CASE f = e /\ u = t
    BY <1>1, <2>1 DEF Sending
  <2>2. CASE f # e \/ u # t
    BY <1>1, <2>2 DEF Inv, FramesOK
  <2> QED BY <2>1, <2>2
<1>5. ReaderOK'
  <2> SUFFICES ASSUME NEW f \in End
               PROVE  /\ pc'[f]["reader"] # "idle"
                      /\ pc'[f]["reader"] \notin Leaving => ended[f] = "no"
    BY DEF ReaderOK
  <2>1. CASE f = e /\ t = "reader"
    BY <1>1, <2>1 DEF Inv, ReaderOK
  <2>2. CASE f # e \/ t # "reader"
    BY <1>1, <2>2, Threads DEF Inv, ReaderOK
  <2> QED BY <2>1, <2>2
<1>6. \A f \in End : /\ pc'[f]["reader"] = "decrypt" <=> pc[f]["reader"] = "decrypt"
                     /\ pc[f]["reader"] = "decrypt" => frame'[f]["reader"] = frame[f]["reader"]
  BY <1>1, Threads
<1>7. Numbered'
  <2>1. ASSUME NEW f \in End, NEW u \in Thread PROVE Latest(f, u)'
    <3>1. pc'[f][u] = "write" => pc[f][u] = "write" /\ frame'[f][u] = frame[f][u]
      BY <1>1
    <3> QED BY <3>1 DEF Inv, Numbered, Latest, OnStream
  <2>2. ASSUME NEW f \in End PROVE ReadFrame(f)' /\ OnWire(f)'
    BY <1>6 DEF Inv, Numbered, ReadFrame, OnWire, OnStream
  <2> QED BY <2>1, <2>2 DEF Numbered
<1>8. AllInStep'
  <2> SUFFICES ASSUME NEW f \in End, InStep(f) PROVE InStep(f)'
    BY DEF Inv, AllInStep
  <2> QED BY <1>6 DEF InStep, Taken, Put
<1>9. UnopenedOnlyAfterLostWrite' /\ FittingTextDecodes'
  BY DEF Inv, UnopenedOnlyAfterLostWrite, FittingTextDecodes
<1> QED BY <1>2, <1>3, <1>4, <1>5, <1>7, <1>8, <1>9 DEF Inv

LEMMA StartInv == ASSUME Inv, NEW e \in End, NEW t \in Worker, Start(e, t) PROVE Inv'
<1>1. t \in Thread
  BY Threads
<1>2. pc[e][t] = "idle" /\ pc' = [pc EXCEPT ![e][t] = "encrypt"]
  BY DEF Start, At
<1>3. PICK m \in Sent(e) : StartSend(e, t, m)
  BY DEF Start
<1> DEFINE x == [msg |-> m, nonce |-> 0, whole |-> TRUE]
<1>4. x \in Frame /\ x.whole
  BY Sends DEF Frame
<1>5. /\ frame' = [frame EXCEPT ![e][t] = x]
      /\ UNCHANGED <<noise, conns, wire, shut, closed, stream, handled, ended, lost>>
  BY <1>3 DEF StartSend, socket, history
<1> HIDE DEF x
<1>6. pc' \in [End -> [Thread -> PC]] /\ Moves(pc, pc', e, t, "encrypt") /\ "encrypt" \in PC
  BY <1>1, <1>2, PcMoves DEF Inv, PC, Sending
<1>7. frame' \in [End -> [Thread -> Frame \cup {None}]] /\ Moves(frame, frame', e, t, x)
  BY <1>1, <1>4, <1>5, FrameMoves DEF Inv
<1>8. t # "reader"
  BY <1>2 DEF Inv, ReaderOK
<1>9. TypeInv
  BY DEF Inv
<1> QED BY <1>1, <1>2, <1>4, <1>5, <1>6, <1>7, <1>8, <1>9, QuietInv DEF TypeInv

LEMMA OnMessageInv == ASSUME Inv, NEW e \in End, OnMessage(e) PROVE Inv'
<1> DEFINE m == frame[e]["reader"].msg
<1>1. pc[e]["reader"] = "handle" /\ "reader" \in Thread
  BY Threads DEF OnMessage
<1>2. TypeInv /\ frame[e]["reader"] \in Frame
  BY <1>1 DEF Inv, FramesOK, Carrying
<1>3. m \in Message
  BY <1>2 DEF Frame
<1>4. ASSUME m.kind = "text", At(e, "reader", "handle", "encrypt"), StartSend(e, "reader", Ack(m))
      PROVE  Inv'
  <2> DEFINE x == [msg |-> Ack(m), nonce |-> 0, whole |-> TRUE]
  <2>1. x \in Frame /\ x.whole
    BY <1>3, <1>4, Messages DEF Frame
  <2>2. /\ frame' = [frame EXCEPT ![e]["reader"] = x] /\ pc' = [pc EXCEPT ![e]["reader"] = "encrypt"]
        /\ UNCHANGED <<noise, conns, wire, shut, closed, stream, handled, ended, lost>>
    BY <1>4 DEF StartSend, At, socket, history
  <2> HIDE DEF x
  <2>3. pc' \in [End -> [Thread -> PC]] /\ Moves(pc, pc', e, "reader", "encrypt") /\ "encrypt" \in PC
    BY <1>1, <1>2, <2>2, PcMoves DEF PC, Sending
  <2>4. frame' \in [End -> [Thread -> Frame \cup {None}]] /\ Moves(frame, frame', e, "reader", x)
    BY <1>1, <1>2, <2>1, <2>2, FrameMoves
  <2> QED BY <1>1, <1>2, <2>1, <2>2, <2>3, <2>4, QuietInv DEF TypeInv, Leaving
<1>5. ASSUME At(e, "reader", "handle", "recv"), frame' = [frame EXCEPT ![e]["reader"] = None],
             UNCHANGED <<noise, conns, socket, closed, stream, handled, history>>
      PROVE  Inv'
  <2>1. /\ pc' = [pc EXCEPT ![e]["reader"] = "recv"]
        /\ UNCHANGED <<noise, conns, wire, shut, closed, stream, handled, ended, lost>>
    BY <1>5 DEF At, socket, history
  <2>2. pc' \in [End -> [Thread -> PC]] /\ Moves(pc, pc', e, "reader", "recv") /\ "recv" \in PC
    BY <1>1, <1>2, <2>1, PcMoves DEF PC, Reading
  <2>3. frame' \in [End -> [Thread -> Frame \cup {None}]] /\ Moves(frame, frame', e, "reader", None)
    BY <1>1, <1>2, <1>5, FrameMoves
  <2>4. "recv" \notin Carrying
    BY DEF Carrying
  <2> QED BY <1>1, <1>2, <2>1, <2>2, <2>3, <2>4, QuietInv DEF TypeInv, Leaving
<1> QED BY <1>4, <1>5 DEF OnMessage

\* Steps of a thread that leave its frame alone.
LEMMA WalksInv ==
    ASSUME Inv, NEW e \in End, NEW t \in Thread, NEW from, NEW to \in PC \ Carrying,
           from \notin {"write", "decrypt"}, At(e, t, from, to),
           t = "reader" => to # "idle" /\ (to \notin Leaving => from \notin Leaving),
           UNCHANGED <<frame, noise, wire, stream, handled, ended, lost>>,
           conns' \in [End -> Thread \cup {None}],
           closed' \in [End -> BOOLEAN], shut' \in [End -> BOOLEAN]
    PROVE  Inv'
<1>1. pc[e][t] = from /\ pc' = [pc EXCEPT ![e][t] = to]
  BY DEF At
<1>2. pc' \in [End -> [Thread -> PC]] /\ Moves(pc, pc', e, t, to)
  BY <1>1, PcMoves DEF Inv
<1>3. frame' \in [End -> [Thread -> Frame \cup {None}]] /\ Moves(frame, frame', e, t, frame[e][t])
  BY DEF Inv, TypeInv, Moves
<1>4. frame[e][t] \in Frame \cup {None}
  BY DEF Inv, TypeInv
<1>5. to \notin {"write", "decrypt", "encrypt"}
  BY DEF Carrying
<1> QED BY <1>1, <1>2, <1>3, <1>4, <1>5, QuietInv

LEMMA ShutdownInv == ASSUME Inv, NEW e \in End, NEW t \in Thread, Shutdown(e, t) PROVE Inv'
<1> DEFINE to == IF t = "reader" THEN "remove" ELSE "idle"
<1>1. /\ At(e, t, "shutdown", to)
      /\ UNCHANGED <<frame, noise, wire, closed, stream, handled, ended, lost>>
  BY DEF Shutdown, history
<1>2. shut' \in [End -> BOOLEAN] /\ conns' \in [End -> Thread \cup {None}] /\ closed' \in [End -> BOOLEAN]
  BY DEF Shutdown, Inv, TypeInv
<1>3. to \in PC \ Carrying /\ (t = "reader" => to # "idle" /\ to \in Leaving)
  BY DEF PC, Carrying, Sending, Reading, Leaving
<1> HIDE DEF to
<1> QED BY <1>1, <1>2, <1>3, WalksInv

LEMMA RemoveInv == ASSUME Inv, NEW e \in End, Remove(e) PROVE Inv'
<1>1. /\ At(e, "reader", "remove", "gone")
      /\ UNCHANGED <<frame, noise, conns, wire, shut, closed, stream, handled, ended, lost>>
  BY DEF Remove, socket, history
<1>2. "gone" \in PC \ Carrying /\ "gone" \in Leaving
  BY DEF PC, Carrying, Leaving
<1>3. conns' \in [End -> Thread \cup {None}] /\ closed' \in [End -> BOOLEAN] /\ shut' \in [End -> BOOLEAN]
  BY <1>1 DEF Inv, TypeInv
<1> QED BY <1>1, <1>2, <1>3, WalksInv, Threads

LEMMA DisconnectInv == ASSUME Inv, NEW e \in End, Disconnect(e) PROVE Inv'
<1>1. /\ At(e, "closer", "idle", "shutdown")
      /\ UNCHANGED <<frame, noise, wire, shut, stream, handled, ended, lost>>
  BY DEF Disconnect, socket, history
<1>2. shut' \in [End -> BOOLEAN] /\ conns' \in [End -> Thread \cup {None}] /\ closed' \in [End -> BOOLEAN]
  BY Threads DEF Disconnect, socket, Inv, TypeInv
<1>3. "shutdown" \in PC \ Carrying /\ "closer" # "reader"
  BY DEF PC, Carrying
<1> QED BY <1>1, <1>2, <1>3, WalksInv, Threads

-----------------------------------------------------------------------------
(* The connection thread gives up *)

LEMMA RecvFailsInv ==
    ASSUME Inv, NEW e \in End, NEW why \in Reason \ {"no"},
           pc[e]["reader"] \in {"recv", "decrypt"}, RecvFails(e, why), UNCHANGED wire,
           why = "decrypt" => lost[Other(e)],
           why = "decode" => \E i \in DOMAIN stream[Other(e)] : stream[Other(e)][i].typed > MAX_TEXT_CHARS
    PROVE  Inv'
<1>1. /\ pc' = [pc EXCEPT ![e]["reader"] = "shutdown"]
      /\ frame' = [frame EXCEPT ![e]["reader"] = None]
      /\ closed' = [closed EXCEPT ![e] = TRUE] /\ ended' = [ended EXCEPT ![e] = why]
      /\ UNCHANGED <<noise, conns, wire, shut, stream, handled, lost>>
  BY DEF RecvFails
<1>2. TypeInv /\ "reader" \in Thread
  BY Threads DEF Inv
<1>3. pc' \in [End -> [Thread -> PC]] /\ Moves(pc, pc', e, "reader", "shutdown")
  BY <1>1, <1>2, PcMoves DEF PC
<1>4. frame' \in [End -> [Thread -> Frame \cup {None}]] /\ Moves(frame, frame', e, "reader", None)
  BY <1>1, <1>2, FrameMoves
<1>5. ended' \in [End -> Reason] /\ ended'[e] = why /\ \A f \in End \ {e} : ended'[f] = ended[f]
  BY <1>1, <1>2 DEF TypeInv
<1>6. pc'[e]["reader"] = "shutdown"
  BY <1>3 DEF Moves
<1>7. \A f \in End, u \in Thread : f # e \/ u # "reader" => pc'[f][u] = pc[f][u] /\ frame'[f][u] = frame[f][u]
  BY <1>3, <1>4 DEF Moves
<1>8. TypeInv'
  BY <1>1, <1>2, <1>3, <1>4, <1>5 DEF TypeInv
<1>9. LocksOK'
  <2> SUFFICES ASSUME NEW f \in End, NEW u \in Thread PROVE pc'[f][u] = "write" <=> noise'[f] = u
    BY DEF LocksOK
  <2>1. pc'[f][u] = "write" <=> pc[f][u] = "write"
    BY <1>6, <1>7
  <2> QED BY <1>1, <2>1 DEF Inv, LocksOK
<1>10. FramesOK'
  <2> SUFFICES ASSUME NEW f \in End, NEW u \in Thread
               PROVE  /\ pc'[f][u] \in Carrying => frame'[f][u] \in Frame
                      /\ pc'[f][u] \in Sending => frame'[f][u].whole
    BY DEF FramesOK
  <2>1. CASE f = e /\ u = "reader"
    BY <1>6, <2>1 DEF Carrying, Sending
  <2>2. CASE f # e \/ u # "reader"
    BY <1>7, <2>2 DEF Inv, FramesOK
  <2> QED BY <2>1, <2>2
<1>11. ReaderOK'
  <2> SUFFICES ASSUME NEW f \in End
               PROVE  /\ pc'[f]["reader"] # "idle"
                      /\ pc'[f]["reader"] \notin Leaving => ended'[f] = "no"
    BY DEF ReaderOK
  <2>1. CASE f = e
    BY <1>6, <2>1 DEF Leaving
  <2>2. CASE f # e
    BY <1>2, <1>5, <1>7, <2>2 DEF Inv, ReaderOK
  <2> QED BY <2>1, <2>2
<1>12. Numbered'
  <2>1. ASSUME NEW f \in End, NEW u \in Thread PROVE Latest(f, u)'
    <3>1. pc'[f][u] = "write" => pc[f][u] = "write" /\ frame'[f][u] = frame[f][u]
      BY <1>6, <1>7
    <3> QED BY <1>1, <3>1 DEF Inv, Numbered, Latest, OnStream
  <2>2. ASSUME NEW f \in End PROVE ReadFrame(f)'
    <3>1. pc'[f]["reader"] = "decrypt" => /\ pc[f]["reader"] = "decrypt"
                                          /\ frame'[f]["reader"] = frame[f]["reader"]
      BY <1>2, <1>6, <1>7
    <3> QED BY <1>1, <3>1 DEF Inv, Numbered, ReadFrame, OnStream
  <2>3. ASSUME NEW f \in End PROVE OnWire(f)'
    BY <1>1 DEF Inv, Numbered, OnWire, OnStream
  <2> QED BY <2>1, <2>2, <2>3 DEF Numbered
<1>13. AllInStep'
  <2> SUFFICES ASSUME NEW f \in End, ~lost'[Other(f)], ended'[f] = "no" PROVE InStep(f)'
    BY DEF AllInStep
  <2>1. f # e
    BY <1>5
  <2>2. InStep(f)
    BY <1>1, <1>5, <2>1 DEF Inv, AllInStep
  <2>3. pc'[f]["reader"] = pc[f]["reader"] /\ frame'[f]["reader"] = frame[f]["reader"]
    BY <1>2, <1>7, <2>1
  <2> QED BY <1>1, <2>2, <2>3 DEF InStep, Taken, Put
<1>14. UnopenedOnlyAfterLostWrite'
  BY <1>1, <1>5 DEF Inv, UnopenedOnlyAfterLostWrite
<1>15. FittingTextDecodes'
  BY <1>1, <1>5 DEF Inv, FittingTextDecodes
<1> QED BY <1>8, <1>9, <1>10, <1>11, <1>12, <1>13, <1>14, <1>15 DEF Inv

LEMMA RecvEndsInv == ASSUME Inv, NEW e \in End, RecvEnds(e) \/ RecvTimeout(e) PROVE Inv'
<1>1. pc[e]["reader"] = "recv" /\ UNCHANGED wire
  BY DEF RecvEnds, RecvTimeout
<1>2. PICK why \in {"eof", "timeout"} : RecvFails(e, why)
  BY DEF RecvEnds, RecvTimeout
<1> QED BY <1>1, <1>2, RecvFailsInv DEF Reason

-----------------------------------------------------------------------------
(* Encrypting and writing *)

LEMMA Appends ==
    ASSUME NEW S, NEW s \in Seq(S), NEW x \in S
    PROVE  /\ Append(s, x) \in Seq(S) /\ Len(s) \in Nat /\ Len(Append(s, x)) = Len(s) + 1
           /\ Append(s, x)[Len(s) + 1] = x
           /\ \A i \in 1..Len(s) : Append(s, x)[i] = s[i]
OBVIOUS

\* OnStream in the next state, of a frame in this one.
OnStreamAfter(f, e) == f.nonce < Len(stream'[e]) /\ f.msg = stream'[e][f.nonce + 1]

\* A message keeps its number.
LEMMA OnStreamGrows ==
    ASSUME NEW f \in Frame, NEW e \in End, NEW m \in Message, TypeInv,
           OnStream(f, e), stream'[e] = Append(stream[e], m)
    PROVE  OnStreamAfter(f, e)
<1>1. stream[e] \in Seq(Message) /\ f.nonce \in Nat
  BY DEF TypeInv, Frame
<1> QED BY <1>1, Appends DEF OnStream, OnStreamAfter

LEMMA EncryptInv == ASSUME Inv, NEW e \in End, NEW t \in Thread, Encrypt(e, t) PROVE Inv'
<1> DEFINE n == Len(stream[e])
           m == frame[e][t].msg
           x == [frame[e][t] EXCEPT !.nonce = n]
<1>1. /\ noise[e] = None /\ pc[e][t] = "encrypt" /\ pc' = [pc EXCEPT ![e][t] = "write"]
      /\ noise' = [noise EXCEPT ![e] = t]
      /\ frame' = [frame EXCEPT ![e][t] = x]
      /\ stream' = [stream EXCEPT ![e] = Append(stream[e], m)]
      /\ UNCHANGED <<conns, wire, shut, closed, handled, ended, lost>>
  BY DEF Encrypt, At, socket, history
<1>2. TypeInv /\ frame[e][t] \in Frame /\ frame[e][t].whole
  BY <1>1 DEF Inv, FramesOK, Carrying, Sending
<1>3. n \in Nat /\ stream[e] \in Seq(Message)
  BY <1>2 DEF TypeInv
<1>4. x \in Frame /\ x.nonce = n /\ x.msg = m /\ x.whole /\ m \in Message
  BY <1>2, <1>3 DEF Frame
<1> HIDE DEF x
<1>5. pc' \in [End -> [Thread -> PC]] /\ Moves(pc, pc', e, t, "write")
  BY <1>1, <1>2, PcMoves DEF PC, Sending
<1>6. frame' \in [End -> [Thread -> Frame \cup {None}]] /\ Moves(frame, frame', e, t, x)
  BY <1>1, <1>2, <1>4, FrameMoves
<1>7. /\ pc'[e][t] = "write" /\ frame'[e][t] = x
      /\ \A f \in End, u \in Thread : f # e \/ u # t => pc'[f][u] = pc[f][u] /\ frame'[f][u] = frame[f][u]
  BY <1>5, <1>6 DEF Moves
<1>8. noise' \in [End -> Thread \cup {None}] /\ noise'[e] = t /\ \A f \in End \ {e} : noise'[f] = noise[f]
  BY <1>1, <1>2 DEF TypeInv
<1> HIDE DEF m
<1> DEFINE new == Append(stream[e], m)
<1>9. new \in Seq(Message) /\ Len(new) = n + 1 /\ new[n + 1] = m
  BY <1>3, <1>4, Appends
<1>10. stream' = [stream EXCEPT ![e] = new]
  BY <1>1
<1> HIDE DEF new
<1>11. /\ stream' \in [End -> Seq(Message)] /\ stream'[e] = new
       /\ \A f \in End \ {e} : stream'[f] = stream[f]
  BY <1>2, <1>9, <1>10 DEF TypeInv
<1>12. ASSUME NEW f \in Frame, NEW g \in End, OnStream(f, g)
       PROVE  OnStreamAfter(f, g)
  <2>1. CASE g = e
    <3>1. stream'[e] = Append(stream[e], m)
      BY <1>11 DEF new
    <3> QED BY <1>2, <1>4, <1>12, <2>1, <3>1, OnStreamGrows
  <2>2. CASE g # e
    BY <1>11, <1>12, <2>2 DEF OnStream, OnStreamAfter
  <2> QED BY <2>1, <2>2
<1>13. TypeInv'
  BY <1>1, <1>2, <1>5, <1>6, <1>8, <1>11 DEF TypeInv
<1>14. \A u \in Thread : pc[e][u] # "write"
  BY <1>1, Threads DEF Inv, LocksOK
<1>15. LocksOK'
  <2> SUFFICES ASSUME NEW f \in End, NEW u \in Thread PROVE pc'[f][u] = "write" <=> noise'[f] = u
    BY DEF LocksOK
  <2>1. CASE f = e
    BY <1>7, <1>8, <1>14, <2>1
  <2>2. CASE f # e
    BY <1>7, <1>8, <2>2 DEF Inv, LocksOK
  <2> QED BY <2>1, <2>2
<1>16. FramesOK'
  <2> SUFFICES ASSUME NEW f \in End, NEW u \in Thread
               PROVE  /\ pc'[f][u] \in Carrying => frame'[f][u] \in Frame
                      /\ pc'[f][u] \in Sending => frame'[f][u].whole
    BY DEF FramesOK
  <2>1. CASE f = e /\ u = t
    BY <1>4, <1>7, <2>1
  <2>2. CASE f # e \/ u # t
    BY <1>7, <2>2 DEF Inv, FramesOK
  <2> QED BY <2>1, <2>2
<1>17. ReaderOK'
  <2> SUFFICES ASSUME NEW f \in End
               PROVE  /\ pc'[f]["reader"] # "idle"
                      /\ pc'[f]["reader"] \notin Leaving => ended'[f] = "no"
    BY DEF ReaderOK
  <2>1. CASE f = e /\ t = "reader"
    BY <1>1, <1>7, <2>1 DEF Inv, ReaderOK, Leaving
  <2>2. CASE f # e \/ t # "reader"
    BY <1>1, <1>7, <2>2, Threads DEF Inv, ReaderOK
  <2> QED BY <2>1, <2>2
<1>18. \A f \in End : /\ pc'[f]["reader"] = "decrypt" <=> pc[f]["reader"] = "decrypt"
                      /\ pc[f]["reader"] = "decrypt" => frame'[f]["reader"] = frame[f]["reader"]
  BY <1>1, <1>7, Threads
<1>19. Numbered'
  <2>1. ASSUME NEW f \in End, NEW u \in Thread PROVE Latest(f, u)'
    <3>1. CASE f = e /\ u = t
      <4>1. OnStreamAfter(x, e) /\ Len(stream'[e]) = x.nonce + 1
        BY <1>3, <1>4, <1>9, <1>11 DEF OnStreamAfter
      <4> QED BY <1>7, <3>1, <4>1 DEF Latest, OnStream, OnStreamAfter
    <3>2. CASE f = e /\ u # t
      BY <1>7, <1>14, <3>2 DEF Latest
    <3>3. CASE f # e
      BY <1>7, <1>11, <3>3 DEF Inv, Numbered, Latest, OnStream
    <3> QED BY <3>1, <3>2, <3>3
  <2>2. ASSUME NEW f \in End PROVE ReadFrame(f)'
    <3> SUFFICES ASSUME pc'[f]["reader"] = "decrypt" PROVE OnStreamAfter(frame'[f]["reader"], Other(f))
      BY DEF ReadFrame, OnStream, OnStreamAfter
    <3>1. /\ frame'[f]["reader"] = frame[f]["reader"] /\ frame[f]["reader"] \in Frame
          /\ OnStream(frame[f]["reader"], Other(f))
      BY <1>18, Threads DEF Inv, FramesOK, Carrying, Numbered, ReadFrame
    <3> QED BY <1>12, <3>1, OtherEnd
  <2>3. ASSUME NEW f \in End PROVE OnWire(f)'
    <3> SUFFICES ASSUME NEW i \in 1..Len(wire[f]) PROVE OnStreamAfter(wire[f][i], Other(f))
      BY <1>1 DEF OnWire, OnStream, OnStreamAfter
    <3>1. wire[f] \in Seq(Frame)
      BY <1>2 DEF TypeInv
    <3>2. wire[f][i] \in Frame /\ OnStream(wire[f][i], Other(f))
      BY <3>1 DEF Inv, Numbered, OnWire
    <3> QED BY <1>1, <1>12, <3>2, OtherEnd
  <2> QED BY <2>1, <2>2, <2>3 DEF Numbered
<1>20. AllInStep'
  <2> SUFFICES ASSUME NEW f \in End, InStep(f) PROVE InStep(f)'
    BY <1>1 DEF Inv, AllInStep
  <2>1. Taken(f)' = Taken(f) /\ Put(f)' = Put(f)
    BY <1>1, <1>18 DEF Taken, Put
  <2>2. Len(stream'[Other(f)]) = IF noise'[Other(f)] = None THEN Put(f) ELSE Put(f) + 1
    <3>1. CASE Other(f) = e
      BY <1>1, <1>8, <1>9, <1>11, <3>1, Threads DEF InStep
    <3>2. CASE Other(f) # e
      BY <1>8, <1>11, <3>2, OtherEnd DEF InStep
    <3> QED BY <3>1, <3>2
  <2> QED BY <1>1, <1>18, <2>1, <2>2 DEF InStep
<1>21. UnopenedOnlyAfterLostWrite'
  BY <1>1 DEF Inv, UnopenedOnlyAfterLostWrite
<1>22. FittingTextDecodes'
  <2> SUFFICES ASSUME NEW f \in End, ended[f] = "decode"
               PROVE  \E i \in DOMAIN stream'[Other(f)] : stream'[Other(f)][i].typed > MAX_TEXT_CHARS
    BY <1>1 DEF FittingTextDecodes
  <2>1. PICK i \in DOMAIN stream[Other(f)] : stream[Other(f)][i].typed > MAX_TEXT_CHARS
    BY DEF Inv, FittingTextDecodes
  <2>2. CASE Other(f) = e
    <3>1. i \in 1..n
      BY <1>3, <2>1, <2>2
    <3>2. i \in DOMAIN new /\ new[i] = stream[e][i]
      BY <1>3, <1>4, <1>9, <3>1, Appends DEF new
    <3> QED BY <1>11, <2>1, <2>2, <3>2
  <2>3. CASE Other(f) # e
    BY <1>11, <2>1, <2>3, OtherEnd
  <2> QED BY <2>2, <2>3
<1> QED BY <1>13, <1>15, <1>16, <1>17, <1>19, <1>20, <1>21, <1>22 DEF Inv

\* What a write leaves in the socket of the other end: nothing, or the frame,
\* whole unless the write failed.
WritesTo(e, g) ==
    \/ UNCHANGED wire /\ lost'[e]
    \/ /\ wire' = [wire EXCEPT ![Other(e)] = Append(wire[Other(e)], g)]
       /\ lost'[e] \/ (g.whole /\ ~lost'[e])

LEMMA ReturnsInv ==
    ASSUME Inv, NEW e \in End, NEW t \in Thread, Returns(e, t), NEW g \in Frame,
           g.msg = frame[e][t].msg, g.nonce = frame[e][t].nonce,
           WritesTo(e, g),
           lost' \in [End -> BOOLEAN], \A f \in End : lost[f] => lost'[f],
           \A f \in End \ {e} : lost'[f] = lost[f]
    PROVE  Inv'
<1> DEFINE to == IF t = "reader" THEN "recv" ELSE "idle"
           o == Other(e)
<1>1. /\ pc[e][t] = "write" /\ pc' = [pc EXCEPT ![e][t] = to]
      /\ frame' = [frame EXCEPT ![e][t] = None]
      /\ noise' = [noise EXCEPT ![e] = None]
      /\ UNCHANGED <<conns, closed, shut, stream, handled, ended>>
  BY DEF Returns, At
<1>2. /\ to \in PC /\ to \notin {"write", "decrypt"} /\ to \notin Carrying /\ to \notin Sending
      /\ t = "reader" => to = "recv"
  BY DEF PC, Reading, Carrying, Sending
<1> HIDE DEF to
<1>3. TypeInv
  BY DEF Inv
<1>4. pc' \in [End -> [Thread -> PC]] /\ Moves(pc, pc', e, t, to)
  BY <1>1, <1>2, <1>3, PcMoves
<1>5. frame' \in [End -> [Thread -> Frame \cup {None}]] /\ Moves(frame, frame', e, t, None)
  BY <1>1, <1>3, FrameMoves
<1>6. /\ pc'[e][t] = to
      /\ \A f \in End, u \in Thread : f # e \/ u # t => pc'[f][u] = pc[f][u] /\ frame'[f][u] = frame[f][u]
  BY <1>4, <1>5 DEF Moves
<1>7. noise' \in [End -> Thread \cup {None}] /\ noise'[e] = None /\ \A f \in End \ {e} : noise'[f] = noise[f]
  BY <1>1, <1>3 DEF TypeInv
<1>8. /\ noise[e] = t /\ noise[e] # None /\ o \in End /\ o # e /\ Other(o) = e
      /\ \A u \in Thread \ {t} : pc[e][u] # "write"
  BY <1>1, Threads, OtherEnd DEF Inv, LocksOK
<1> HIDE DEF o
<1>9. /\ OnStream(g, e) /\ Len(stream[e]) = g.nonce + 1
      /\ g.nonce \in Nat
  BY <1>1 DEF Inv, Numbered, Latest, OnStream, Frame
<1>10. /\ wire[o] \in Seq(Frame) /\ Len(wire[o]) \in Nat
       /\ wire' \in [End -> Seq(Frame)]
       /\ \A f \in End \ {o} : wire'[f] = wire[f]
       /\ \/ wire'[o] = wire[o] /\ lost'[e]
          \/ wire'[o] = Append(wire[o], g) /\ (lost'[e] \/ g.whole)
  <2>1. wire[o] \in Seq(Frame) /\ Len(wire[o]) \in Nat /\ wire \in [End -> Seq(Frame)]
    BY <1>3, <1>8 DEF TypeInv
  <2>2. CASE UNCHANGED wire /\ lost'[e]
    BY <2>1, <2>2
  <2>3. CASE wire' = [wire EXCEPT ![o] = Append(wire[o], g)] /\ (lost'[e] \/ g.whole)
    <3> DEFINE new == Append(wire[o], g)
    <3>1. new \in Seq(Frame) /\ wire' = [wire EXCEPT ![o] = new]
      BY <2>1, <2>3, Appends
    <3> HIDE DEF new
    <3>2. wire' \in [End -> Seq(Frame)] /\ wire'[o] = new /\ \A f \in End \ {o} : wire'[f] = wire[f]
      BY <1>8, <2>1, <3>1
    <3> QED BY <2>1, <2>3, <3>2 DEF new
  <2> QED BY <2>2, <2>3 DEF WritesTo, o
<1>11. TypeInv'
  BY <1>1, <1>3, <1>4, <1>5, <1>7, <1>10 DEF TypeInv
<1>12. LocksOK'
  <2> SUFFICES ASSUME NEW f \in End, NEW u \in Thread PROVE pc'[f][u] = "write" <=> noise'[f] = u
    BY DEF LocksOK
  <2>1. CASE f = e
    BY <1>2, <1>6, <1>7, <1>8, <2>1, Threads
  <2>2. CASE f # e
    BY <1>6, <1>7, <2>2 DEF Inv, LocksOK
  <2> QED BY <2>1, <2>2
<1>13. FramesOK'
  <2> SUFFICES ASSUME NEW f \in End, NEW u \in Thread
               PROVE  /\ pc'[f][u] \in Carrying => frame'[f][u] \in Frame
                      /\ pc'[f][u] \in Sending => frame'[f][u].whole
    BY DEF FramesOK
  <2>1. CASE f = e /\ u = t
    BY <1>2, <1>6, <2>1
  <2>2. CASE f # e \/ u # t
    BY <1>6, <2>2 DEF Inv, FramesOK
  <2> QED BY <2>1, <2>2
<1>14. ReaderOK'
  <2> SUFFICES ASSUME NEW f \in End
               PROVE  /\ pc'[f]["reader"] # "idle"
                      /\ pc'[f]["reader"] \notin Leaving => ended'[f] = "no"
    BY DEF ReaderOK
  <2>1. CASE f = e /\ t = "reader"
    BY <1>1, <1>2, <1>6, <2>1 DEF Inv, ReaderOK, Leaving
  <2>2. CASE f # e \/ t # "reader"
    BY <1>1, <1>6, <2>2, Threads DEF Inv, ReaderOK
  <2> QED BY <2>1, <2>2
<1>15. \A f \in End : /\ pc'[f]["reader"] = "decrypt" <=> pc[f]["reader"] = "decrypt"
                      /\ pc[f]["reader"] = "decrypt" => frame'[f]["reader"] = frame[f]["reader"]
  BY <1>1, <1>2, <1>6, Threads
<1>16. Numbered'
  <2>1. ASSUME NEW f \in End, NEW u \in Thread PROVE Latest(f, u)'
    <3>1. pc'[f][u] = "write" => pc[f][u] = "write" /\ frame'[f][u] = frame[f][u]
      BY <1>2, <1>6
    <3> QED BY <1>1, <3>1 DEF Inv, Numbered, Latest, OnStream
  <2>2. ASSUME NEW f \in End PROVE ReadFrame(f)'
    BY <1>1, <1>15 DEF Inv, Numbered, ReadFrame, OnStream
  <2>3. ASSUME NEW f \in End PROVE OnWire(f)'
    <3>1. CASE wire'[f] = wire[f]
      BY <1>1, <3>1 DEF Inv, Numbered, OnWire, OnStream
    <3>2. CASE f = o /\ wire'[o] = Append(wire[o], g)
      <4> SUFFICES ASSUME NEW i \in 1..Len(wire'[o]) PROVE OnStream(wire'[o][i], e)
        BY <1>1, <1>8, <3>2 DEF OnWire, OnStream
      <4>1. CASE i \in 1..Len(wire[o])
        BY <1>8, <1>10, <3>2, <4>1, Appends DEF Inv, Numbered, OnWire
      <4>2. CASE i = Len(wire[o]) + 1
        BY <1>9, <1>10, <3>2, <4>2, Appends
      <4> QED BY <1>10, <3>2, <4>1, <4>2, Appends
    <3> QED BY <1>10, <3>1, <3>2
  <2> QED BY <2>1, <2>2, <2>3 DEF Numbered
<1>17. AllInStep'
  <2> SUFFICES ASSUME NEW f \in End, ~lost'[Other(f)], ended'[f] = "no" PROVE InStep(f)'
    BY DEF AllInStep
  <2>1. Taken(f)' = Taken(f) /\ Taken(f) \in Nat
    BY <1>1, <1>3, <1>15 DEF Taken, TypeInv
  <2>2. InStep(f)
    BY <1>1, OtherEnd DEF Inv, AllInStep
  <2>3. CASE f = e
    <3>1. Other(f) = o /\ wire'[f] = wire[f] /\ noise'[o] = noise[o]
      BY <1>7, <1>8, <1>10, <2>3 DEF o
    <3> QED BY <1>1, <1>15, <2>1, <2>2, <3>1 DEF InStep, Put
  <2>4. CASE f = o
    <3>1. wire'[o] = Append(wire[o], g) /\ g.whole
      BY <1>8, <1>10, <2>4
    <3>2. Len(stream[e]) = Put(o) + 1
      BY <1>8, <2>2, <2>4 DEF InStep
    <3> DEFINE k == Taken(o)  l == Len(wire[o])
    <3>7. k \in Nat /\ l \in Nat /\ Put(o) = k + l
      BY <1>3, <1>8, <1>10 DEF TypeInv, Taken, Put
    <3> HIDE DEF k, l
    <3>3. g.nonce = k + l
      BY <1>9, <3>2, <3>7
    <3>4. Len(wire'[o]) = Len(wire[o]) + 1
      BY <1>10, <3>1, Appends
    <3>5. ASSUME NEW i \in 1..Len(wire'[o])
          PROVE  wire'[o][i].whole /\ wire'[o][i].nonce + 1 = Taken(o) + i
      <4>1. CASE i \in 1..Len(wire[o])
        BY <1>10, <2>2, <2>4, <3>1, <4>1, Appends DEF InStep
      <4>2. CASE i = l + 1
        <5>1. wire'[o][i] = g
          BY <1>10, <3>1, <4>2, Appends DEF l
        <5> QED BY <3>1, <3>3, <3>7, <4>2, <5>1 DEF k
      <4> QED BY <1>10, <3>4, <4>1, <4>2 DEF l
    <3>6. Len(stream'[e]) = Put(o)' /\ noise'[e] = None
      BY <1>1, <1>7, <1>9, <2>1, <2>4, <3>3, <3>4, <3>7 DEF Put, k, l
    <3> QED BY <1>1, <1>8, <1>15, <2>1, <2>2, <2>4, <3>5, <3>6 DEF InStep
  <2> QED BY <2>3, <2>4, OtherEnd DEF o
<1>18. UnopenedOnlyAfterLostWrite'
  BY <1>1, OtherEnd DEF Inv, UnopenedOnlyAfterLostWrite
<1>19. FittingTextDecodes'
  BY <1>1 DEF Inv, FittingTextDecodes
<1> QED BY <1>11, <1>12, <1>13, <1>14, <1>16, <1>17, <1>18, <1>19 DEF Inv

LEMMA WriteInv ==
    ASSUME Inv, NEW e \in End, NEW t \in Thread, Write(e, t) \/ WriteFails(e, t) PROVE Inv'
<1>1. Returns(e, t) /\ pc[e][t] = "write"
  BY DEF Write, WriteFails, Returns, At
<1>2. TypeInv /\ frame[e][t] \in Frame /\ frame[e][t].whole
  BY <1>1 DEF Inv, FramesOK, Carrying, Sending
<1>3. CASE Write(e, t)
  <2>1. WritesTo(e, frame[e][t]) /\ lost' = lost
    BY <1>2, <1>3 DEF Write, WritesTo
  <2> QED BY <1>1, <1>2, <2>1, ReturnsInv DEF TypeInv
<1>4. CASE WriteFails(e, t)
  <2>1. /\ lost' \in [End -> BOOLEAN] /\ lost'[e]
        /\ \A f \in End \ {e} : lost'[f] = lost[f]
    BY <1>2, <1>4 DEF WriteFails, TypeInv
  <2> DEFINE part == [frame[e][t] EXCEPT !.whole = FALSE]
  <2>2. /\ part \in Frame /\ part.msg = frame[e][t].msg /\ part.nonce = frame[e][t].nonce
    BY <1>2 DEF Frame
  <2>3. WritesTo(e, part)
    BY <1>4, <2>1 DEF WriteFails, WritesTo
  <2> HIDE DEF part
  <2> QED BY <1>1, <2>1, <2>2, <2>3, ReturnsInv
<1> QED BY <1>3, <1>4

-----------------------------------------------------------------------------
(* Reading *)

\* The connection thread moves between reading states with its frame, and the
\* wire and what was handled change for its end alone.
LEMMA ReadsInv ==
    ASSUME Inv, NEW e \in End, NEW to \in {"decrypt", "handle"}, NEW g \in Frame,
           pc[e]["reader"] \in {"recv", "decrypt"},
           pc' = [pc EXCEPT ![e]["reader"] = to],
           frame' \in [End -> [Thread -> Frame \cup {None}]], Moves(frame, frame', e, "reader", g),
           UNCHANGED <<noise, conns, shut, closed, stream, ended, lost>>,
           wire' \in [End -> Seq(Frame)], \A f \in End \ {e} : wire'[f] = wire[f],
           handled' \in [End -> Seq(Message)], \A f \in End \ {e} : handled'[f] = handled[f],
           to = "decrypt" => OnStream(g, Other(e)),
           \A i \in 1..Len(wire'[e]) : OnStream(wire'[e][i], Other(e)),
           ~lost[Other(e)] /\ ended[e] = "no" => InStep(e)'
    PROVE  Inv'
<1>1. TypeInv /\ "reader" \in Thread
  BY Threads DEF Inv
<1>2. to \in PC /\ to \notin Leaving /\ to \notin Sending /\ to \notin {"write", "idle"}
  BY DEF PC, Reading, Sending, Leaving
<1>3. pc' \in [End -> [Thread -> PC]] /\ Moves(pc, pc', e, "reader", to)
  BY <1>1, <1>2, PcMoves
<1>4. /\ pc'[e]["reader"] = to /\ frame'[e]["reader"] = g
      /\ \A f \in End, u \in Thread : f # e \/ u # "reader" =>
            pc'[f][u] = pc[f][u] /\ frame'[f][u] = frame[f][u]
  BY <1>3 DEF Moves
<1>5. TypeInv'
  BY <1>1, <1>3 DEF TypeInv
<1>6. \A f \in End, u \in Thread : pc'[f][u] = "write" <=> pc[f][u] = "write"
  BY <1>2, <1>4
<1>7. LocksOK'
  BY <1>6 DEF Inv, LocksOK
<1>8. FramesOK'
  <2> SUFFICES ASSUME NEW f \in End, NEW u \in Thread
               PROVE  /\ pc'[f][u] \in Carrying => frame'[f][u] \in Frame
                      /\ pc'[f][u] \in Sending => frame'[f][u].whole
    BY DEF FramesOK
  <2>1. CASE f = e /\ u = "reader"
    BY <1>2, <1>4, <2>1
  <2>2. CASE f # e \/ u # "reader"
    BY <1>4, <2>2 DEF Inv, FramesOK
  <2> QED BY <2>1, <2>2
<1>9. ended[e] = "no"
  BY DEF Inv, ReaderOK, Leaving
<1>10. ReaderOK'
  <2> SUFFICES ASSUME NEW f \in End
               PROVE  /\ pc'[f]["reader"] # "idle"
                      /\ pc'[f]["reader"] \notin Leaving => ended[f] = "no"
    BY DEF ReaderOK
  <2>1. CASE f = e
    BY <1>2, <1>4, <1>9, <2>1
  <2>2. CASE f # e
    BY <1>1, <1>4, <2>2 DEF Inv, ReaderOK
  <2> QED BY <2>1, <2>2
<1>11. Numbered'
  <2>1. ASSUME NEW f \in End, NEW u \in Thread PROVE Latest(f, u)'
    <3>1. pc'[f][u] = "write" => pc[f][u] = "write" /\ frame'[f][u] = frame[f][u]
      BY <1>2, <1>4
    <3> QED BY <3>1 DEF Inv, Numbered, Latest, OnStream
  <2>2. ASSUME NEW f \in End PROVE ReadFrame(f)'
    <3>1. CASE f = e
      BY <1>4, <3>1 DEF ReadFrame, OnStream
    <3>2. CASE f # e
      BY <1>1, <1>4, <3>2 DEF Inv, Numbered, ReadFrame, OnStream
    <3> QED BY <3>1, <3>2
  <2>3. ASSUME NEW f \in End PROVE OnWire(f)'
    <3>1. CASE f = e
      BY <3>1 DEF OnWire, OnStream
    <3>2. CASE f # e
      <4>1. OnWire(f) /\ wire'[f] = wire[f]
        BY <3>2 DEF Inv, Numbered
      <4> QED BY <4>1 DEF OnWire, OnStream
    <3> QED BY <3>1, <3>2
  <2> QED BY <2>1, <2>2, <2>3 DEF Numbered
<1>12. AllInStep'
  <2> SUFFICES ASSUME NEW f \in End, ~lost[Other(f)], ended[f] = "no" PROVE InStep(f)'
    BY DEF AllInStep
  <2>1. CASE f = e
    BY <2>1
  <2>2. CASE f # e
    <3>1. InStep(f)
      BY DEF Inv, AllInStep
    <3>2. /\ pc'[f]["reader"] = pc[f]["reader"] /\ frame'[f]["reader"] = frame[f]["reader"]
          /\ wire'[f] = wire[f] /\ handled'[f] = handled[f]
      BY <1>1, <1>4, <2>2
    <3> QED BY <3>1, <3>2 DEF InStep, Taken, Put
  <2> QED BY <2>1, <2>2
<1>13. UnopenedOnlyAfterLostWrite' /\ FittingTextDecodes'
  BY DEF Inv, UnopenedOnlyAfterLostWrite, FittingTextDecodes
<1> QED BY <1>5, <1>7, <1>8, <1>10, <1>11, <1>12, <1>13 DEF Inv

LEMMA Tails ==
    ASSUME NEW S, NEW s \in Seq(S), s # <<>>
    PROVE  /\ Head(s) \in S /\ Head(s) = s[1] /\ Tail(s) \in Seq(S)
           /\ Len(Tail(s)) \in Nat /\ Len(s) = Len(Tail(s)) + 1
           /\ \A i \in 1..Len(Tail(s)) : Tail(s)[i] = s[i + 1]
OBVIOUS

LEMMA ReceiveInv == ASSUME Inv, NEW e \in End, Receive(e) PROVE Inv'
<1> DEFINE w == wire[e]
           g == Head(w)
           rest == Tail(w)
<1>1. /\ w # <<>> /\ pc[e]["reader"] = "recv" /\ pc' = [pc EXCEPT ![e]["reader"] = "decrypt"]
      /\ frame' = [frame EXCEPT ![e]["reader"] = g]
      /\ wire' = [wire EXCEPT ![e] = rest]
      /\ UNCHANGED <<noise, conns, shut, closed, stream, handled, ended, lost>>
  BY DEF Receive, HasFrame, At, history
<1>2. TypeInv /\ w \in Seq(Frame) /\ "reader" \in Thread
  BY Threads DEF Inv, TypeInv
<1>3. /\ g \in Frame /\ g = w[1] /\ rest \in Seq(Frame)
      /\ Len(rest) \in Nat /\ Len(w) = Len(rest) + 1
      /\ \A i \in 1..Len(rest) : rest[i] = w[i + 1]
  BY <1>1, <1>2, Tails
<1>4. \A i \in 1..Len(w) : OnStream(w[i], Other(e))
  BY DEF Inv, Numbered, OnWire
<1> HIDE DEF g, rest
<1>5. frame' \in [End -> [Thread -> Frame \cup {None}]] /\ Moves(frame, frame', e, "reader", g)
  BY <1>1, <1>2, <1>3, FrameMoves
<1>6. wire' \in [End -> Seq(Frame)] /\ wire'[e] = rest /\ \A f \in End \ {e} : wire'[f] = wire[f]
  BY <1>1, <1>2, <1>3 DEF TypeInv
<1>7. OnStream(g, Other(e)) /\ \A i \in 1..Len(rest) : OnStream(rest[i], Other(e))
  <2>1. 1 \in 1..Len(w) /\ \A i \in 1..Len(rest) : i + 1 \in 1..Len(w)
    BY <1>3
  <2> QED BY <1>3, <1>4, <2>1
<1>8. ASSUME ~lost[Other(e)], ended[e] = "no" PROVE InStep(e)'
  <2> DEFINE k == Len(handled[e])
  <2>1. k \in Nat /\ Taken(e) = k
    BY <1>1, <1>2 DEF TypeInv, Taken
  <2>2. InStep(e)
    BY <1>8 DEF Inv, AllInStep
  <2>3. pc'[e]["reader"] = "decrypt" /\ frame'[e]["reader"] = g
    BY <1>1, <1>2, <1>5 DEF Moves, TypeInv
  <2>4. Taken(e)' = k + 1
    BY <1>1, <2>3 DEF Taken
  <2> HIDE DEF k
  <2>5. Put(e)' = Put(e)
    <3>1. Put(e) = k + Len(w)
      BY <2>1 DEF Put
    <3>2. Put(e)' = (k + 1) + Len(rest)
      BY <1>6, <2>4 DEF Put
    <3>3. Len(rest) \in Nat /\ Len(w) = Len(rest) + 1
      BY <1>3
    <3>4. k + Len(w) = (k + 1) + Len(rest)
      BY <2>1, <3>3
    <3> QED BY <3>1, <3>2, <3>4
  <2>6. \A i \in 1..Len(w) : w[i].whole /\ w[i].nonce + 1 = k + i
    BY <2>1, <2>2 DEF InStep
  <2>7. g.nonce \in Nat
    BY <1>3 DEF Frame
  <2>8. g.whole /\ g.nonce = k
    <3>1. 1 \in 1..Len(w)
      BY <1>3
    <3>2. g.whole /\ g.nonce + 1 = k + 1
      BY <1>3, <2>6, <3>1
    <3> QED BY <2>1, <2>7, <3>2
  <2>9. ASSUME NEW i \in 1..Len(rest) PROVE rest[i].whole /\ rest[i].nonce + 1 = (k + 1) + i
    <3>1. i + 1 \in 1..Len(w) /\ rest[i] = w[i + 1]
      BY <1>3
    <3>2. w[i + 1].whole /\ w[i + 1].nonce + 1 = k + (i + 1)
      BY <2>6, <3>1
    <3> QED BY <2>1, <3>1, <3>2
  <2>10. Len(stream'[Other(e)]) = IF noise'[Other(e)] = None THEN Put(e)' ELSE Put(e)' + 1
    BY <1>1, <2>2, <2>5 DEF InStep
  <2>11. k = Len(handled'[e])
    BY <1>1 DEF k
  <2> QED BY <1>6, <2>3, <2>4, <2>8, <2>9, <2>10, <2>11 DEF InStep
<1>9. handled' \in [End -> Seq(Message)] /\ \A f \in End \ {e} : handled'[f] = handled[f]
  BY <1>1, <1>2 DEF TypeInv
<1> QED BY <1>1, <1>3, <1>5, <1>6, <1>7, <1>8, <1>9, ReadsInv

LEMMA Fits ==
    ASSUME NEW m \in Message, ~Decodes(m)
    PROVE  m.typed > MAX_TEXT_CHARS
<1>1. m.typed \in Nat /\ MAX_TEXT_CHARS \in Nat
  BY Messages, ConstantsAssumption
<1> QED BY <1>1 DEF Decodes, Clamped

LEMMA DecryptInv == ASSUME Inv, NEW e \in End, Decrypt(e) PROVE Inv'
<1> DEFINE f == frame[e]["reader"]
           m == f.msg
           h == handled[e]
<1>1. pc[e]["reader"] = "decrypt" /\ UNCHANGED wire /\ "reader" \in Thread
  BY Threads DEF Decrypt
<1>2. /\ TypeInv /\ f \in Frame /\ OnStream(f, Other(e)) /\ ended[e] = "no"
      /\ OnWire(e)
  BY <1>1 DEF Inv, FramesOK, Carrying, Numbered, ReadFrame, ReaderOK, Leaving
<1>3. m \in Message /\ f.nonce \in Nat /\ h \in Seq(Message)
  BY <1>2 DEF Frame, TypeInv
<1>4. ASSUME pc' = [pc EXCEPT ![e]["reader"] = "handle"],
             handled' = [handled EXCEPT ![e] = Append(h, m)],
             UNCHANGED <<frame, noise, conns, shut, closed, stream, history, used>>
      PROVE  Inv'
  <2> DEFINE new == Append(h, m)
  <2>1. /\ UNCHANGED <<noise, conns, shut, closed, stream, ended, lost>> /\ wire' = wire
        /\ frame' = frame
    BY <1>1, <1>4 DEF history
  <2>2. new \in Seq(Message) /\ Len(new) = Len(h) + 1 /\ Len(h) \in Nat
    BY <1>3, Appends
  <2>3. handled' = [handled EXCEPT ![e] = new]
    BY <1>4
  <2> HIDE DEF new
  <2>4. handled' \in [End -> Seq(Message)] /\ handled'[e] = new /\ \A g \in End \ {e} : handled'[g] = handled[g]
    BY <1>2, <2>2, <2>3 DEF TypeInv
  <2>5. frame' \in [End -> [Thread -> Frame \cup {None}]] /\ Moves(frame, frame', e, "reader", f)
    BY <1>2, <2>1 DEF TypeInv, Moves
  <2>6. wire' \in [End -> Seq(Frame)]
    BY <1>2, <2>1 DEF TypeInv
  <2>7. \A i \in 1..Len(wire'[e]) : OnStream(wire'[e][i], Other(e))
    BY <1>2, <2>1 DEF OnWire
  <2>8. ASSUME ~lost[Other(e)] PROVE InStep(e)'
    <3>1. InStep(e)
      BY <1>2, <2>8 DEF Inv, AllInStep
    <3>2. pc'[e]["reader"] = "handle"
      BY <1>1, <1>2, <1>4 DEF TypeInv
    <3>3. Taken(e) = Len(h) + 1 /\ Taken(e)' = Len(new) + 0
      BY <1>1, <2>4, <3>2 DEF Taken
    <3>4. Taken(e)' = Taken(e)
      BY <2>2, <3>3
    <3>5. Put(e)' = Put(e)
      BY <2>1, <3>4 DEF Put
    <3> QED BY <2>1, <3>1, <3>2, <3>4, <3>5 DEF InStep
  <2> QED BY <1>1, <1>2, <1>4, <2>1, <2>4, <2>5, <2>6, <2>7, <2>8, ReadsInv
<1>5. CASE Opens(e, f) /\ ~Decodes(m) /\ RecvFails(e, "decode")
  <2>1. m.typed > MAX_TEXT_CHARS
    BY <1>3, <1>5, Fits
  <2>2. f.nonce + 1 \in DOMAIN stream[Other(e)] /\ stream[Other(e)][f.nonce + 1] = m
    <3>1. stream[Other(e)] \in Seq(Message)
      BY <1>2, OtherEnd DEF TypeInv
    <3> QED BY <1>2, <1>3, <3>1 DEF OnStream
  <2> QED BY <1>1, <1>5, <2>1, <2>2, RecvFailsInv DEF Reason
<1>6. CASE ~Opens(e, f) /\ RecvFails(e, "decrypt")
  <2>1. lost[Other(e)]
    <3> SUFFICES ASSUME ~lost[Other(e)] PROVE FALSE
      OBVIOUS
    <3>1. InStep(e)
      BY <1>2 DEF Inv, AllInStep
    <3> QED BY <1>1, <1>6, <3>1 DEF InStep, Opens
  <2> QED BY <1>1, <1>6, <2>1, RecvFailsInv DEF Reason
<1> QED BY <1>4, <1>5, <1>6 DEF Decrypt

-----------------------------------------------------------------------------
(* The invariant *)

LEMMA InvInit == Init => Inv
<1> SUFFICES ASSUME Init PROVE Inv
  OBVIOUS
<1> DEFINE begin(t) == IF t = "reader" THEN "recv" ELSE "idle"
<1>1. /\ pc = [e \in End |-> [t \in Thread |-> begin(t)]]
      /\ frame = [e \in End |-> [t \in Thread |-> None]]
      /\ noise = [e \in End |-> None] /\ conns = [e \in End |-> None]
      /\ wire = [e \in End |-> <<>>] /\ closed = [e \in End |-> FALSE] /\ shut = [e \in End |-> FALSE]
      /\ stream = [e \in End |-> <<>>] /\ handled = [e \in End |-> <<>>]
      /\ ended = [e \in End |-> "no"] /\ lost = [e \in End |-> FALSE]
  BY DEF Init
<1>2. \A t \in Thread : begin(t) \in {"recv", "idle"}
  OBVIOUS
<1>3. \A e \in End, t \in Thread : pc[e][t] \in {"recv", "idle"}
  BY <1>1, <1>2
<1>4. \A e \in End : pc[e]["reader"] = "recv"
  BY <1>1, Threads
<1>5. TypeInv
  <2>1. pc \in [End -> [Thread -> PC]]
    BY <1>1, <1>2 DEF PC, Reading
  <2>2. /\ frame \in [End -> [Thread -> Frame \cup {None}]]
        /\ noise \in [End -> Thread \cup {None}] /\ conns \in [End -> Thread \cup {None}]
        /\ closed \in [End -> BOOLEAN] /\ shut \in [End -> BOOLEAN] /\ lost \in [End -> BOOLEAN]
        /\ ended \in [End -> Reason]
    BY <1>1 DEF Reason
  <2>3. /\ wire \in [End -> Seq(Frame)]
        /\ stream \in [End -> Seq(Message)] /\ handled \in [End -> Seq(Message)]
    BY <1>1
  <2> QED BY <2>1, <2>2, <2>3 DEF TypeInv
<1>6. LocksOK
  BY <1>1, <1>3, Threads DEF LocksOK
<1>7. FramesOK /\ ReaderOK
  BY <1>1, <1>3, <1>4 DEF FramesOK, ReaderOK, Carrying, Sending
<1>8. Numbered
  <2>1. \A e \in End, t \in Thread : Latest(e, t)
    BY <1>3 DEF Latest
  <2>2. \A e \in End : ReadFrame(e)
    BY <1>4 DEF ReadFrame
  <2>3. ASSUME NEW e \in End PROVE OnWire(e)
    <3>1. Len(wire[e]) = 0
      BY <1>1
    <3> QED BY <3>1 DEF OnWire
  <2> QED BY <2>1, <2>2, <2>3 DEF Numbered
<1>9. AllInStep
  <2> SUFFICES ASSUME NEW e \in End PROVE InStep(e)
    BY DEF AllInStep
  <2>1. Put(e) = 0 /\ Taken(e) = 0 /\ Len(wire[e]) = 0
    BY <1>1, <1>4 DEF Put, Taken
  <2> QED BY <1>1, <1>4, <2>1, OtherEnd DEF InStep
<1>10. UnopenedOnlyAfterLostWrite /\ FittingTextDecodes
  BY <1>1 DEF UnopenedOnlyAfterLostWrite, FittingTextDecodes
<1> QED BY <1>5, <1>6, <1>7, <1>8, <1>9, <1>10 DEF Inv

LEMMA InvNext == Inv /\ [Next]_vars => Inv'
<1> SUFFICES ASSUME Inv, [Next]_vars PROVE Inv'
  OBVIOUS
<1>1. CASE UNCHANGED vars
  <2>1. UNCHANGED <<pc, frame, noise, conns, wire, closed, shut, stream, handled, ended, lost>>
    BY <1>1 DEF vars, socket, history
  <2>2. (\A e \in End : InStep(e)' <=> InStep(e)) /\ (Numbered' <=> Numbered)
    BY <2>1 DEF Numbered, InStep, Put, Taken, Latest, ReadFrame, OnWire, OnStream
  <2>3. AllInStep'
    BY <2>1, <2>2 DEF Inv, AllInStep
  <2> QED BY <2>1, <2>2, <2>3 DEF Inv, TypeInv, LocksOK, FramesOK, ReaderOK, UnopenedOnlyAfterLostWrite,
                              FittingTextDecodes
<1>2. ASSUME NEW e \in End, User(e) \/ RecvTimeout(e) PROVE Inv'
  BY <1>2, DisconnectInv, StartInv, RecvEndsInv DEF User
<1>3. ASSUME NEW e \in End, NEW t \in Thread, Step(e, t) PROVE Inv'
  BY <1>3, EncryptInv, WriteInv, ShutdownInv, ReceiveInv, DecryptInv, OnMessageInv, RecvEndsInv, RemoveInv
     DEF Step, Receiver
<1> QED BY <1>1, <1>2, <1>3 DEF Next

LEMMA Invariant == Spec => []Inv
BY InvInit, InvNext, PTL DEF Spec

-----------------------------------------------------------------------------
(* The theorems *)

\* Types; and whoever writes a frame holds the mutexes of its end
\* (ChannelSender::send in session.rs).
THEOREM TypeCorrect == Spec => []TypeOK
<1>1. Inv => TypeOK
  BY TypeInvMeans DEF Inv
<1> QED BY <1>1, Invariant, PTL

\* The Noise mutex is held from the encryption of a frame until it is written,
\* so frames reach the wire in the order of their nonces, from however many
\* threads: a frame that does not open follows a write that failed.
THEOREM NoncesInStep == Spec => []UnopenedOnlyAfterLostWrite
<1>1. Inv => UnopenedOnlyAfterLostWrite
  BY DEF Inv
<1> QED BY <1>1, Invariant, PTL

\* Message::decode refuses no text that clamp_str did not have to cut.
THEOREM FittingTexts == Spec => []FittingTextDecodes
<1>1. Inv => FittingTextDecodes
  BY DEF Inv
<1> QED BY <1>1, Invariant, PTL

streamStatus == <<stream, handled, readerOver>>

LEMMA RefinesInit == Init => Channel!Init
BY DEF Init, Channel!Init, readerOver

LEMMA StreamStutters ==
    ASSUME UNCHANGED <<stream, handled, ended>> PROVE UNCHANGED streamStatus
BY DEF streamStatus, readerOver

LEMMA FailureGivesUp ==
    ASSUME Inv, NEW e \in End, NEW why \in Reason \ {"no"}, RecvFails(e, why)
    PROVE  Channel!GiveUp(e)
<1>1. ended' = [ended EXCEPT ![e] = why] /\ UNCHANGED <<stream, handled>>
  BY DEF RecvFails
<1>2. ended \in [End -> Reason] /\ why # "no"
  BY DEF Inv, TypeInv
<1>3. readerOver' = [readerOver EXCEPT ![e] = TRUE]
  <2>1. \A f \in End : (ended'[f] # "no") = (IF f = e THEN TRUE ELSE ended[f] # "no")
    BY <1>1, <1>2
  <2> QED BY <2>1 DEF readerOver
<1> QED BY <1>1, <1>3 DEF Channel!GiveUp

LEMMA EncryptionSends ==
    ASSUME Inv, NEW e \in End, NEW t \in Thread, Encrypt(e, t) PROVE Channel!Send(e)
<1>1. /\ pc[e][t] = "encrypt"
      /\ stream' = [stream EXCEPT ![e] = Append(stream[e], frame[e][t].msg)]
      /\ UNCHANGED <<handled, ended>>
  BY DEF Encrypt, At, history
<1>2. frame[e][t] \in Frame
  BY <1>1 DEF Inv, FramesOK, Carrying
<1>3. frame[e][t].msg \in Message
  BY <1>2 DEF Frame
<1>4. readerOver' = readerOver
  BY <1>1 DEF readerOver
<1> QED BY <1>1, <1>3, <1>4 DEF Channel!Send

LEMMA DecryptionHandles ==
    ASSUME Inv, NEW e \in End, Decrypt(e) PROVE Channel!Handle(e) \/ Channel!GiveUp(e)
<1> DEFINE f == frame[e]["reader"]
           h == handled[e]
<1>1. pc[e]["reader"] = "decrypt"
  BY DEF Decrypt
<1>2. /\ f \in Frame /\ OnStream(f, Other(e)) /\ ended[e] = "no"
  BY <1>1, Threads DEF Inv, FramesOK, Carrying, Numbered, ReadFrame, ReaderOK, Leaving
<1>3. ASSUME Opens(e, f), handled' = [handled EXCEPT ![e] = Append(h, f.msg)],
             UNCHANGED <<stream, ended>>
      PROVE  Channel!Handle(e)
  <2>1. f.nonce = Len(h)
    BY <1>3 DEF Opens
  <2>2. Len(h) < Len(stream[Other(e)]) /\ f.msg = stream[Other(e)][Len(h) + 1]
    BY <1>2, <2>1 DEF OnStream
  <2>3. ~readerOver[e] /\ readerOver' = readerOver
    BY <1>2, <1>3 DEF readerOver
  <2> QED BY <1>3, <2>2, <2>3 DEF Channel!Handle
<1>4. CASE \E why \in {"decode", "decrypt"} : RecvFails(e, why)
  BY <1>4, FailureGivesUp DEF Reason
<1> QED BY <1>3, <1>4 DEF Decrypt, history

LEMMA RefinesNext == Inv /\ [Next]_vars => [Channel!Next]_streamStatus
<1> SUFFICES ASSUME Inv, [Next]_vars PROVE Channel!Next \/ UNCHANGED streamStatus
  OBVIOUS
<1> USE DEF history
<1>1. ASSUME NEW e \in End, User(e) PROVE UNCHANGED streamStatus
  BY <1>1, StreamStutters DEF User, Disconnect, Start, StartSend
<1>2. ASSUME NEW e \in End, RecvEnds(e) \/ RecvTimeout(e) PROVE Channel!Next
  <2>1. PICK why \in {"eof", "timeout"} : RecvFails(e, why)
    BY <1>2 DEF RecvEnds, RecvTimeout
  <2> QED BY <2>1, FailureGivesUp DEF Reason, Channel!Next
<1>3. ASSUME NEW e \in End, Receiver(e) PROVE Channel!Next \/ UNCHANGED streamStatus
  <2>1. CASE Receive(e) \/ OnMessage(e) \/ Remove(e)
    BY <2>1, StreamStutters DEF Receive, OnMessage, StartSend, Remove
  <2>2. CASE Decrypt(e)
    BY <2>2, DecryptionHandles DEF Channel!Next
  <2> QED BY <1>2, <1>3, <2>1, <2>2 DEF Receiver
<1>4. ASSUME NEW e \in End, NEW t \in Thread, Step(e, t) PROVE Channel!Next \/ UNCHANGED streamStatus
  <2>1. CASE Encrypt(e, t)
    BY <2>1, EncryptionSends DEF Channel!Next
  <2>2. CASE Write(e, t) \/ WriteFails(e, t) \/ Shutdown(e, t)
    BY <2>2, StreamStutters DEF Write, WriteFails, Returns, Shutdown
  <2> QED BY <1>3, <1>4, <2>1, <2>2 DEF Step
<1>5. CASE UNCHANGED vars
  BY <1>5, StreamStutters DEF vars
<1> QED BY <1>1, <1>2, <1>4, <1>5 DEF Next

\* SecureChannel implements MessageStream: however the threads of the two ends
\* interleave and whatever write or read fails, an end handles the messages the
\* other end encrypted, in their order, each once, with no gap, and none after
\* its recv has failed (ChannelReader::recv in session.rs).
THEOREM StreamInOrder == Spec => ImplementsStream
BY RefinesInit, RefinesNext, Invariant, PTL DEF Spec, ImplementsStream, Channel!Spec, streamStatus
=============================================================================
