------------------------ MODULE FileTransferProofs ------------------------
(***************************************************************************)
(* Theorems about FileTransfer, for every set of files and sessions, every *)
(* size of a file, of a chunk and of the table of incoming transfers.      *)
(***************************************************************************)
EXTENDS FileTransfer, TLAPS

\* The messages that are on the way.
Held == {m \in Message : \E e \in End : \E i \in 1 .. Len(chan[e]) : chan[e][i] = m}

\* An offer is on the way once.
OffersDistinct ==
    \A e, f \in End : \A i \in 1 .. Len(chan[e]), j \in 1 .. Len(chan[f]) :
        /\ chan[e][i].kind = "FileOffer"
        /\ chan[e][i] = chan[f][j]
        => e = f /\ i = j

Task == {"accept", "tellAccept", "refuse", "tellReject", "tellError", "abort", "verify"}

\* Who is at work is at work on a transfer.
ActorsOK == \A a \in Actor : at[a].pc \in Task => at[a].transfer \in Transfer

TypeInv == TypeOK /\ ActorsOK

\* The receiver has not heard of t; it will, if an offer of it is on the way.
Unheard(t) ==
    /\ incoming[t] = None /\ verdict[t] = "none"
    /\ \A a \in Actor : at[a].pc = "verify" => at[a].transfer # t

\* A transfer is offered once, so a verdict on it stays its only one.
OfferedOnce ==
    /\ OffersDistinct
    /\ \A t \in Transfer :
          /\ Msg("FileOffer", t) \in Held => out[t].pc \notin {"idle", "offer"}
          /\ out[t].pc \in {"idle", "offer"} \/ Msg("FileOffer", t) \in Held => Unheard(t)
          /\ incoming[t] # None => verdict[t] = "none"

\* Before the answer nothing has been read of the file, and what is on the way
\* was read from it.
ChunksRead ==
    /\ \A t \in Transfer :
          out[t].pc \in {"idle", "offer", "wait"} => out[t].offset = 0 /\ out[t].intact
    /\ \A m \in Held : m.kind = "FileChunk" =>
          /\ m.length > 0
          /\ m.offset + m.length <= out[m.transfer].offset
          /\ m.intact <=> out[m.transfer].intact

\* What has been written is what was sent, for a transfer that was accepted.
Written ==
    \A t \in Transfer : incoming[t] # None =>
        /\ incoming[t].received <= out[t].offset
        /\ incoming[t].received = 0 => incoming[t].intact
        /\ incoming[t].received > 0 => /\ incoming[t].accepted
                                       /\ incoming[t].intact <=> out[t].intact

\* The thread that verifies has written the last chunk.
Verified ==
    \A e \in End :
        at[e].pc = "verify" /\ incoming[at[e].transfer] # None
            => incoming[at[e].transfer].received > 0

Saved ==
    \A t \in Transfer : verdict[t] = "saved" =>
        out[t].offset > 0 /\ out[t].offset >= Size[t] /\ out[t].intact

Inv ==
    /\ TypeInv
    /\ OfferedOnce /\ ChunksRead /\ Written /\ Verified /\ Saved
    /\ PartFilesTracked

-----------------------------------------------------------------------------
(* Lemmas about ends, actors and messages *)

LEMMA Ends ==
  /\ \A e \in End : /\ e[1] \in Session /\ e[2] \in Side /\ e = <<e[1], e[2]>>
                    /\ Other(e) \in End /\ e \in Actor /\ e # GUI
  /\ \A s \in Session, side \in Side : <<s, side>> \in End /\ <<s, Opposite(side)>> \in End
  /\ GUI \in Actor
BY ConstantsAssumption DEF End, Side, Other, Opposite, Actor, GUI

LEMMA Messages ==
  /\ \A kind \in {"FileOffer", "FileAccept", "FileReject", "FileCancel", "FileError", "FileDone"},
        t \in Transfer : /\ Msg(kind, t) \in Message
                         /\ Msg(kind, t).kind = kind /\ Msg(kind, t).transfer = t
  /\ \A m \in Message : m.transfer \in Transfer
  /\ \A m \in Message : m.kind = "FileChunk" =>
        m.offset \in Nat /\ m.length \in Nat /\ m.intact \in BOOLEAN
  /\ \A m \in Message : m.kind = "FileOffer" => m = Msg("FileOffer", m.transfer)
BY DEF Message, Control, Chunk, Msg

LEMMA HeldAt ==
  ASSUME TypeOK, NEW e \in End, NEW i \in 1 .. Len(chan[e])
  PROVE  chan[e][i] \in Held /\ chan[e][i] \in Message
BY DEF TypeOK, Held

-----------------------------------------------------------------------------
(* Lemmas about the channels: what each way to change them does to the       *)
(* messages that are on the way.                                             *)

LEMMA SameOffer ==
  ASSUME OffersDistinct, NEW e \in End, NEW f \in End,
         NEW i \in 1 .. Len(chan[e]), NEW j \in 1 .. Len(chan[f]),
         chan[e][i].kind = "FileOffer", chan[e][i] = chan[f][j]
  PROVE  e = f /\ i = j
BY DEF OffersDistinct

\* Nothing is sent: of every channel the messages from some point on stay.
LEMMA OnlyRead ==
  ASSUME TypeOK, chan' \in [End -> Seq(Message)],
         \A e \in End : \/ chan'[e] \in {chan[e], <<>>}
                        \/ chan[e] # <<>> /\ chan'[e] = Tail(chan[e])
  PROVE  Held' \subseteq Held /\ (OffersDistinct => OffersDistinct')
<1>1. ASSUME NEW e \in End
      PROVE  \E k \in {0, 1} : \A i \in 1 .. Len(chan'[e]) :
                i + k \in 1 .. Len(chan[e]) /\ chan[e][i + k] = chan'[e][i]
  <2>1. CASE chan'[e] = chan[e]
    BY <2>1 DEF TypeOK
  <2>2. CASE chan'[e] = <<>>
    BY <2>2 DEF TypeOK
  <2>3. CASE chan[e] # <<>> /\ chan'[e] = Tail(chan[e])
    BY <2>3 DEF TypeOK
  <2> QED
    BY <2>1, <2>2, <2>3
<1>2. Held' \subseteq Held
  <2> SUFFICES ASSUME NEW m \in Held' PROVE m \in Held
    OBVIOUS
  <2>1. m \in Message /\ \E e \in End : \E i \in 1 .. Len(chan'[e]) : chan'[e][i] = m
    BY DEF Held
  <2>2. PICK e \in End : \E i \in 1 .. Len(chan'[e]) : chan'[e][i] = m
    BY <2>1
  <2>3. PICK i \in 1 .. Len(chan'[e]) : chan'[e][i] = m
    BY <2>2
  <2>4. PICK k \in {0, 1} : \A n \in 1 .. Len(chan'[e]) :
           n + k \in 1 .. Len(chan[e]) /\ chan[e][n + k] = chan'[e][n]
    BY <1>1
  <2>5. i + k \in 1 .. Len(chan[e]) /\ chan[e][i + k] = m
    BY <2>3, <2>4
  <2> QED
    BY <2>1, <2>5 DEF Held
<1>3. ASSUME OffersDistinct PROVE OffersDistinct'
  <2> SUFFICES ASSUME NEW e \in End, NEW f \in End,
                      NEW i \in 1 .. Len(chan'[e]), NEW j \in 1 .. Len(chan'[f]),
                      chan'[e][i].kind = "FileOffer", chan'[e][i] = chan'[f][j]
               PROVE  e = f /\ i = j
    BY DEF OffersDistinct
  <2>1. PICK k \in {0, 1} : \A n \in 1 .. Len(chan'[e]) :
           n + k \in 1 .. Len(chan[e]) /\ chan[e][n + k] = chan'[e][n]
    BY <1>1
  <2>2. PICK l \in {0, 1} : \A n \in 1 .. Len(chan'[f]) :
           n + l \in 1 .. Len(chan[f]) /\ chan[f][n + l] = chan'[f][n]
    BY <1>1
  <2>3. /\ i + k \in 1 .. Len(chan[e]) /\ chan[e][i + k] = chan'[e][i]
        /\ j + l \in 1 .. Len(chan[f]) /\ chan[f][j + l] = chan'[f][j]
    BY <2>1, <2>2
  <2>4. chan[e][i + k].kind = "FileOffer" /\ chan[e][i + k] = chan[f][j + l]
    BY <2>3
  <2>5. e = f /\ i + k = j + l
    BY <1>3, <2>3, <2>4, SameOffer
  <2>6. /\ i + l \in 1 .. Len(chan[e]) /\ chan[e][i + l] = chan'[e][i]
        /\ chan[e][i + l] = chan[e][i + k]
    BY <2>2, <2>3, <2>5
  <2>7. i + k = i + l
    BY <1>3, <2>3, <2>4, <2>6, SameOffer
  <2> QED
    BY <2>5, <2>7
<1> QED
  BY <1>2, <1>3

\* The first message is read, and if it was an offer, it is on the way no more.
LEMMA Read ==
  ASSUME TypeOK, NEW e \in End, chan[e] # <<>>, chan' = Rest(e)
  PROVE  /\ chan' \in [End -> Seq(Message)]
         /\ Head(chan[e]) \in Held /\ Head(chan[e]) \in Message
         /\ Held' \subseteq Held
         /\ OffersDistinct =>
               /\ OffersDistinct'
               /\ Head(chan[e]).kind = "FileOffer" => Head(chan[e]) \notin Held'
<1>1. chan[e] \in Seq(Message) /\ Len(chan[e]) \in Nat /\ Len(chan[e]) > 0
  BY DEF TypeOK
<1>2. Rest(e) \in [End -> Seq(Message)] /\ Rest(e)[e] = Tail(chan[e])
      /\ \A f \in End : f # e => Rest(e)[f] = chan[f]
  BY <1>1 DEF Rest, TypeOK
<1>3. Head(chan[e]) = chan[e][1] /\ 1 \in 1 .. Len(chan[e])
  BY <1>1
<1>4. Head(chan[e]) \in Held /\ Head(chan[e]) \in Message
  BY <1>3, HeldAt
<1>5. Held' \subseteq Held /\ (OffersDistinct => OffersDistinct')
  <2>1. ASSUME NEW f \in End
        PROVE  \/ chan'[f] \in {chan[f], <<>>}
               \/ chan[f] # <<>> /\ chan'[f] = Tail(chan[f])
    <3>1. CASE f = e
      BY <1>2, <3>1
    <3>2. CASE f # e
      BY <1>2, <3>2
    <3> QED
      BY <3>1, <3>2
  <2> QED
    BY <1>2, <2>1, OnlyRead
<1>6. ASSUME OffersDistinct, Head(chan[e]).kind = "FileOffer", Head(chan[e]) \in Held'
      PROVE  FALSE
  <2>1. PICK f \in End : \E i \in 1 .. Len(chan'[f]) : chan'[f][i] = Head(chan[e])
    BY <1>6 DEF Held
  <2>2. PICK i \in 1 .. Len(chan'[f]) : chan'[f][i] = Head(chan[e])
    BY <2>1
  <2>3. CASE f = e
    <3>1. i + 1 \in 1 .. Len(chan[e]) /\ chan[e][i + 1] = chan[e][1]
      <4>1. chan'[f] = Tail(chan[e]) /\ i \in 1 .. Len(Tail(chan[e]))
        BY <1>2, <2>2, <2>3
      <4>2. i + 1 \in 1 .. Len(chan[e]) /\ Tail(chan[e])[i] = chan[e][i + 1]
        BY <1>1, <4>1
      <4> QED
        BY <1>3, <2>2, <4>1, <4>2
    <3>2. i + 1 = 1
      BY <1>3, <1>6, <3>1, SameOffer
    <3> QED
      BY <3>2
  <2>4. CASE f # e
    <3>1. i \in 1 .. Len(chan[f]) /\ chan[f][i] = chan[e][1]
      BY <1>2, <1>3, <2>2, <2>4
    <3> QED
      BY <1>3, <1>6, <2>4, <3>1 DEF OffersDistinct
  <2> QED
    BY <2>3, <2>4
<1> QED
  BY <1>2, <1>4, <1>5, <1>6

\* A message is sent, and arrives or is lost.
LEMMA Posts ==
  ASSUME TypeOK, NEW side \in Side, NEW m \in Message, chan' = Posted(side, m)
  PROVE  /\ chan' \in [End -> Seq(Message)]
         /\ Held' \subseteq Held \cup {m}
         /\ OffersDistinct /\ (m.kind = "FileOffer" => m \notin Held) => OffersDistinct'
<1>1. CASE Arrives(side)
  <2> DEFINE e == <<conn[side], Opposite(side)>>
  <2>1. e \in End
    BY <1>1, Ends DEF Arrives, TypeOK
  <2>2. chan' = [chan EXCEPT ![e] = Append(chan[e], m)]
    BY <1>1 DEF Posted
  <2> HIDE DEF e
  <2>3. chan' \in [End -> Seq(Message)]
    BY <2>1, <2>2 DEF TypeOK
  <2>4. chan[e] \in Seq(Message) /\ Len(chan[e]) \in Nat
    BY <2>1 DEF TypeOK
  <2>5. \A f \in End : \A i \in 1 .. Len(chan'[f]) :
           \/ i \in 1 .. Len(chan[f]) /\ chan'[f][i] = chan[f][i]
           \/ f = e /\ i = Len(chan[e]) + 1 /\ chan'[f][i] = m
    BY <2>1, <2>2, <2>4 DEF TypeOK
  <2>6. Held' \subseteq Held \cup {m}
    BY <2>5 DEF Held
  <2>7. ASSUME OffersDistinct, m.kind = "FileOffer" => m \notin Held
        PROVE  OffersDistinct'
    <3> SUFFICES ASSUME NEW f \in End, NEW g \in End,
                        NEW i \in 1 .. Len(chan'[f]), NEW j \in 1 .. Len(chan'[g]),
                        chan'[f][i].kind = "FileOffer", chan'[f][i] = chan'[g][j]
                 PROVE  f = g /\ i = j
      BY DEF OffersDistinct
    <3>1. CASE i \in 1 .. Len(chan[f]) /\ chan'[f][i] = chan[f][i]
               /\ j \in 1 .. Len(chan[g]) /\ chan'[g][j] = chan[g][j]
      <4>1. chan[f][i].kind = "FileOffer" /\ chan[f][i] = chan[g][j]
        BY <3>1
      <4> QED
        BY <2>7, <3>1, <4>1, SameOffer
    <3>2. CASE i \in 1 .. Len(chan[f]) /\ chan'[f][i] = chan[f][i] /\ chan'[g][j] = m
      BY <2>7, <3>2, HeldAt
    <3>3. CASE j \in 1 .. Len(chan[g]) /\ chan'[g][j] = chan[g][j] /\ chan'[f][i] = m
      BY <2>7, <3>3, HeldAt
    <3>4. CASE f = e /\ i = Len(chan[e]) + 1 /\ g = e /\ j = Len(chan[e]) + 1
      BY <3>4
    <3> QED
      BY <2>5, <3>1, <3>2, <3>3, <3>4
  <2> QED
    BY <2>3, <2>6, <2>7
<1>2. CASE ~Arrives(side)
  BY <1>2 DEF Posted, TypeOK, Held, OffersDistinct
<1> QED
  BY <1>1, <1>2

\* Nothing is sent or read.
LEMMA SameChannels ==
  ASSUME TypeOK, UNCHANGED chan
  PROVE  /\ chan' \in [End -> Seq(Message)]
         /\ Held' = Held /\ (OffersDistinct => OffersDistinct')
BY DEF TypeOK, Held, OffersDistinct

-----------------------------------------------------------------------------
(* Type correctness *)

LEMMA GotoType ==
  ASSUME TypeInv, NEW a \in Actor, NEW pc, NEW t \in Transfer \cup {None}, Goto(a, pc, t),
         pc \in {"idle", "off", "remove", "failTransfers", "done"} \cup Serving,
         pc \in Task => t \in Transfer
  PROVE  /\ at' \in [Actor -> [pc : {"idle", "off", "remove", "failTransfers", "done"} \cup Serving,
                               transfer : Transfer \cup {None}]]
         /\ ActorsOK'
         /\ at'[a] = [pc |-> pc, transfer |-> t] /\ \A b \in Actor \ {a} : at'[b] = at[b]
<1>1. at' = [at EXCEPT ![a] = [pc |-> pc, transfer |-> t]]
  BY DEF Goto
<1> QED
  BY <1>1 DEF TypeInv, TypeOK, ActorsOK

LEMMA AbortedType ==
  ASSUME TypeOK, NEW S \in SUBSET Transfer, Aborted(S)
  PROVE  /\ DOMAIN incoming' = Transfer
         /\ \A t \in Transfer : incoming'[t] \in Incoming(t) \cup {None}
         /\ part' \subseteq Transfer
         /\ verdict' \in [Transfer -> {"none", "saved", "failed", "lost"}]
BY DEF Aborted, TypeOK

LEMMA SenderAtType ==
  ASSUME TypeOK, NEW t \in Transfer, NEW pc \in {"idle", "offer", "wait", "loop", "send", "ended"},
         SenderAt(t, pc)
  PROVE  /\ out' \in [Transfer -> [pc : {"idle", "offer", "wait", "loop", "send", "ended"},
                                   offset : Nat, length : Nat, intact : BOOLEAN]]
         /\ \A u \in Transfer : /\ out'[u].pc = IF u = t THEN pc ELSE out[u].pc
                                /\ out'[u].offset = out[u].offset
                                /\ out'[u].intact = out[u].intact
<1>1. out[t] \in [pc : {"idle", "offer", "wait", "loop", "send", "ended"},
                  offset : Nat, length : Nat, intact : BOOLEAN]
  BY DEF TypeOK
<1>2. out' = [out EXCEPT ![t] = [out[t] EXCEPT !.pc = pc]]
  BY DEF SenderAt
<1> QED
  BY <1>1, <1>2 DEF TypeOK

\* The steps of the thread that sends a file.
LEMMA SenderType ==
  ASSUME TypeInv, NEW t \in Transfer, StartSend(t) \/ SenderThread(t)
  PROVE  TypeInv'
<1> USE DEF TypeInv, netVars, sendVars, recvVars
<1>1. ASSUME UNCHANGED at PROVE ActorsOK'
  BY <1>1 DEF ActorsOK
<1>2. ASSUME NEW m \in Message, chan' = Posted("sender", m)
      PROVE  chan' \in [End -> Seq(Message)]
  BY <1>2, Posts DEF Side
<1>3. ASSUME NEW told \in {"sent", "failed"}, Ended(t, told)
      PROVE  /\ out' \in [Transfer -> [pc : {"idle", "offer", "wait", "loop", "send", "ended"},
                                       offset : Nat, length : Nat, intact : BOOLEAN]]
             /\ result' \in [Transfer -> {"none", "sent", "failed"}]
  <2>1. SenderAt(t, "ended") /\ result' = [result EXCEPT ![t] = told]
    BY <1>3 DEF Ended
  <2>2. result' \in [Transfer -> {"none", "sent", "failed"}]
    BY <2>1 DEF TypeOK
  <2> QED
    BY <2>1, <2>2, SenderAtType
<1>4. CASE StartSend(t)
  BY <1>1, <1>4, SenderAtType DEF StartSend, TypeOK
<1>5. ASSUME NEW ok \in BOOLEAN, SendOffer(t, ok) PROVE TypeInv'
  <2>1. chan' \in [End -> Seq(Message)]
    BY <1>2, <1>5, Messages DEF SendOffer
  <2> QED
    BY <1>1, <1>3, <1>5, <2>1, SenderAtType DEF SendOffer, TypeOK
<1>6. ASSUME NEW readable \in BOOLEAN, NEW intact \in BOOLEAN, NEW n \in Lengths(t),
             Answered(t, readable, n, intact)
      PROVE  TypeInv'
  <2>1. signals' \in [Transfer -> Seq({"accept", "reject", "cancel"})]
    BY <1>6 DEF Answered, TypeOK
  <2>2. CASE Ended(t, "failed")
    BY <1>1, <1>3, <1>6, <2>1, <2>2 DEF Answered, TypeOK
  <2>3. CASE ~Ended(t, "failed")
    <3>1. out[t] \in [pc : {"idle", "offer", "wait", "loop", "send", "ended"},
                      offset : Nat, length : Nat, intact : BOOLEAN]
      BY DEF TypeOK
    <3>2. n \in Nat
      BY ConstantsAssumption DEF Lengths
    <3>3. out' = [out EXCEPT ![t] = [out[t] EXCEPT !.pc = "loop", !.length = n, !.intact = intact]]
          /\ UNCHANGED result
      BY <1>6, <2>3 DEF Answered
    <3>4. [out[t] EXCEPT !.pc = "loop", !.length = n, !.intact = intact]
             \in [pc : {"idle", "offer", "wait", "loop", "send", "ended"},
                  offset : Nat, length : Nat, intact : BOOLEAN]
      BY <3>1, <3>2
    <3> QED
      BY <1>1, <1>6, <2>1, <3>3, <3>4 DEF Answered, TypeOK
  <2> QED
    BY <2>2, <2>3
<1>7. CASE OfferTimeout(t)
  BY <1>1, <1>3, <1>7 DEF OfferTimeout, TypeOK
<1>8. CASE CheckCancel(t)
  <2>1. signals' \in [Transfer -> Seq({"accept", "reject", "cancel"})]
    <3>1. CASE t \in cancel
      BY <1>8, <3>1 DEF CheckCancel, TypeOK
    <3>2. CASE t \notin cancel
      <4>1. signals' = [signals EXCEPT ![t] = IF signals[t] = <<>> THEN signals[t] ELSE Tail(signals[t])]
        BY <1>8, <3>2 DEF CheckCancel
      <4>2. signals[t] \in Seq({"accept", "reject", "cancel"})
        BY DEF TypeOK
      <4>3. (IF signals[t] = <<>> THEN signals[t] ELSE Tail(signals[t]))
               \in Seq({"accept", "reject", "cancel"})
        BY <4>2
      <4> QED
        BY <4>1, <4>3 DEF TypeOK
    <3> QED
      BY <3>1, <3>2
  <2>2. Ended(t, "failed") \/ (SenderAt(t, "send") /\ UNCHANGED result)
    BY <1>8 DEF CheckCancel
  <2>3. /\ out' \in [Transfer -> [pc : {"idle", "offer", "wait", "loop", "send", "ended"},
                                  offset : Nat, length : Nat, intact : BOOLEAN]]
        /\ result' \in [Transfer -> {"none", "sent", "failed"}]
    BY <1>3, <2>2, SenderAtType DEF TypeOK
  <2>4. UNCHANGED <<netVars, at, cancel, recvVars>>
    BY <1>8 DEF CheckCancel
  <2> QED
    BY <1>1, <2>1, <2>3, <2>4 DEF TypeOK
<1>9. ASSUME NEW ok \in BOOLEAN, SendChunk(t, ok) PROVE TypeInv'
  <2> DEFINE o == out[t]
             n == IF o.length - o.offset < CHUNK_SIZE THEN o.length - o.offset ELSE CHUNK_SIZE
             m == [kind |-> "FileChunk", transfer |-> t, offset |-> o.offset,
                   length |-> n, intact |-> o.intact]
  <2>1. o \in [pc : {"idle", "offer", "wait", "loop", "send", "ended"},
               offset : Nat, length : Nat, intact : BOOLEAN]
    BY DEF TypeOK
  <2>2. n \in Nat
    BY <1>9, <2>1, ConstantsAssumption DEF SendChunk
  <2>3. m \in Message
    BY <2>1, <2>2 DEF Message, Chunk
  <2>4. chan' = Posted("sender", m)
    BY <1>9 DEF SendChunk
  <2>5. chan' \in [End -> Seq(Message)]
    BY <1>2, <2>3, <2>4
  <2>6. CASE ok
    <3>1. out' = [out EXCEPT ![t] = [o EXCEPT !.pc = "loop", !.offset = o.offset + n]]
          /\ UNCHANGED result
      BY <1>9, <2>6 DEF SendChunk
    <3> HIDE DEF o, n
    <3>2. PICK offset \in Nat : offset = o.offset + n
      BY <2>1, <2>2
    <3>3. [o EXCEPT !.pc = "loop", !.offset = offset]
             \in [pc : {"idle", "offer", "wait", "loop", "send", "ended"},
                  offset : Nat, length : Nat, intact : BOOLEAN]
      BY <2>1
    <3> QED
      BY <1>1, <1>9, <2>5, <3>1, <3>2, <3>3 DEF SendChunk, TypeOK
  <2>7. CASE ~ok
    BY <1>1, <1>3, <1>9, <2>5, <2>7 DEF SendChunk, TypeOK
  <2> QED
    BY <2>6, <2>7
<1>10. ASSUME NEW readError \in BOOLEAN, SendError(t, readError) PROVE TypeInv'
  <2>1. chan' \in [End -> Seq(Message)]
    BY <1>2, <1>10, Messages DEF SendError
  <2> QED
    BY <1>1, <1>3, <1>10, <2>1 DEF SendError, TypeOK
<1>11. CASE SendDone(t)
  <2>1. chan' \in [End -> Seq(Message)]
    BY <1>2, <1>11, Messages DEF SendDone
  <2> QED
    BY <1>1, <1>3, <1>11, <2>1 DEF SendDone, TypeOK
<1> QED
  BY <1>4, <1>5, <1>6, <1>7, <1>8, <1>9, <1>10, <1>11 DEF SenderThread

\* Connections, their loss, and the restart of the receiver.
LEMMA NetworkType ==
  ASSUME TypeInv,
         \/ \E s \in Session : Connect(s) \/ Cut(s)
         \/ \E e \in End : RecvError(e) \/ RemoveConn(e) \/ FailTransfers(e)
         \/ Restart
  PROVE  TypeInv'
<1> USE DEF TypeInv, netVars, sendVars, recvVars
<1>1. ASSUME NEW s \in Session, Connect(s) PROVE TypeInv'
  BY <1>1 DEF Connect, TypeOK, ActorsOK, Task, Serving
<1>2. ASSUME NEW s \in Session, Cut(s) PROVE TypeInv'
  BY <1>2 DEF Cut, TypeOK, ActorsOK
<1>3. ASSUME NEW e \in End, RecvError(e) PROVE TypeInv'
  <2>1. Goto(e, "remove", None) /\ down' \in [End -> BOOLEAN]
    BY <1>3 DEF RecvError, Leave, TypeOK
  <2> QED
    BY <1>3, <2>1, Ends, GotoType DEF RecvError, TypeOK, Task
<1>4. ASSUME NEW e \in End, RemoveConn(e) PROVE TypeInv'
  <2>1. chan' \in [End -> Seq(Message)]
    <3>1. chan' = [chan EXCEPT ![e] = <<>>] /\ <<>> \in Seq(Message)
      BY <1>4 DEF RemoveConn
    <3> QED
      BY <3>1 DEF TypeOK
  <2>2. conn' \in [Side -> Session \cup {None}]
    <3>1. conn' = [conn EXCEPT ![e[2]] = None] /\ e[2] \in Side
      BY <1>4, Ends DEF RemoveConn
    <3> QED
      BY <3>1 DEF TypeOK
  <2> QED
    BY <1>4, <2>1, <2>2, Ends, GotoType DEF RemoveConn, TypeOK, Task
<1>5. ASSUME NEW e \in End, FailTransfers(e) PROVE TypeInv'
  <2>1. Goto(e, "done", None)
    BY <1>5 DEF FailTransfers
  <2>2. at' \in [Actor -> [pc : {"idle", "off", "remove", "failTransfers", "done"} \cup Serving,
                           transfer : Transfer \cup {None}]]
        /\ ActorsOK'
    BY <2>1, Ends, GotoType DEF Task
  <2>3. CASE e[2] = "receiver"
    <3>1. Aborted(Receiving) /\ UNCHANGED cancel
      BY <1>5, <2>3 DEF FailTransfers
    <3>2. Receiving \in SUBSET Transfer
      BY DEF Receiving
    <3> QED
      BY <1>5, <2>2, <3>1, <3>2, AbortedType DEF FailTransfers, TypeOK
  <2>4. CASE e[2] # "receiver"
    BY <1>5, <2>2, <2>4 DEF FailTransfers, TypeOK, Outgoing
  <2> QED
    BY <2>3, <2>4
<1>6. CASE Restart
  <2> DEFINE ends == {e \in End : e[2] = "receiver" /\ at[e].pc # "off"}
  <2>1. at' \in [Actor -> [pc : {"idle", "off", "remove", "failTransfers", "done"} \cup Serving,
                           transfer : Transfer \cup {None}]]
        /\ ActorsOK'
    BY <1>6 DEF Restart, TypeOK, ActorsOK, Task
  <2>2. conn' \in [Side -> Session \cup {None}] /\ down' \in [End -> BOOLEAN]
    BY <1>6 DEF Restart, TypeOK
  <2>3. chan' \in [End -> Seq(Message)]
    <3>1. chan' = [e \in End |-> IF e \in ends THEN <<>> ELSE chan[e]] /\ <<>> \in Seq(Message)
      BY <1>6 DEF Restart
    <3> HIDE DEF ends
    <3> QED
      BY <3>1 DEF TypeOK
  <2>4. DOMAIN incoming' = Transfer /\ (\A t \in Transfer : incoming'[t] \in Incoming(t) \cup {None})
        /\ verdict' \in [Transfer -> {"none", "saved", "failed", "lost"}] /\ offers' \in Seq(Transfer)
    BY <1>6 DEF Restart, TypeOK
  <2> QED
    BY <1>6, <2>1, <2>2, <2>3, <2>4 DEF Restart, TypeOK
<1> QED
  BY <1>1, <1>2, <1>3, <1>4, <1>5, <1>6

\* What the connection threads do with a message.
LEMMA OnMessageType ==
  ASSUME TypeInv, NEW e \in End, OnMessage(e)
  PROVE  TypeInv'
<1> USE DEF TypeInv, netVars, sendVars, recvVars
<1> DEFINE m == Head(chan[e])
<1>1. /\ at[e].pc = "loop" /\ chan[e] # <<>> /\ chan' = Rest(e)
      /\ UNCHANGED <<conn, out, cancel, result>>
  BY DEF OnMessage, OnAnswer, OnFileCancel, OnFileDone, OnFileOffer, OnFileChunk, Takes
<1>2. chan' \in [End -> Seq(Message)] /\ m \in Message
  BY <1>1, Read
<1>3. m.transfer \in Transfer
  BY <1>2, Messages
<1>4. UNCHANGED at => ActorsOK'
  BY DEF ActorsOK
<1> HIDE DEF m
<1>5. CASE OnAnswer(e)
  <2>1. Signal(m.kind) \in {"accept", "reject", "cancel"}
    BY DEF Signal
  <2>2. signals' \in [Transfer -> Seq({"accept", "reject", "cancel"})]
    BY <1>3, <1>5, <2>1 DEF OnAnswer, TypeOK, m, Subject
  <2> QED
    BY <1>1, <1>2, <1>4, <1>5, <2>2 DEF OnAnswer, TypeOK
<1>6. CASE OnFileCancel(e)
  <2>1. Aborted({m.transfer}) /\ {m.transfer} \in SUBSET Transfer
    BY <1>3, <1>6 DEF OnFileCancel, Subject, m
  <2> QED
    BY <1>1, <1>2, <1>4, <1>6, <2>1, AbortedType DEF OnFileCancel, TypeOK
<1>7. CASE OnFileDone(e)
  <2>1. Goto(e, "remove", None) /\ down' \in [End -> BOOLEAN]
    BY <1>7 DEF OnFileDone, Leave, TypeOK
  <2> QED
    BY <1>1, <1>2, <1>7, <2>1, Ends, GotoType DEF OnFileDone, TypeOK, Task
<1>8. ASSUME NEW auto \in BOOLEAN, OnFileOffer(e, auto) PROVE TypeInv'
  <2> DEFINE t == m.transfer
             new == [accepted |-> FALSE, received |-> 0, intact |-> TRUE]
  <2>1. new \in Incoming(t)
    BY <1>3, ConstantsAssumption DEF Incoming
  <2>2. incoming' \in {incoming, [incoming EXCEPT ![t] = new]} /\ offers' \in {offers, Append(offers, t)}
        /\ UNCHANGED <<down, signals, part, verdict>>
    BY <1>8 DEF OnFileOffer, Subject, m
  <2>3. Goto(e, "tellReject", t) \/ Goto(e, "accept", t) \/ UNCHANGED at
    BY <1>8 DEF OnFileOffer, Subject, m
  <2> HIDE DEF new, t
  <2>4. at' \in [Actor -> [pc : {"idle", "off", "remove", "failTransfers", "done"} \cup Serving,
                           transfer : Transfer \cup {None}]]
        /\ ActorsOK'
    BY <1>3, <1>4, <2>3, Ends, GotoType DEF TypeOK, Serving, t
  <2>5. DOMAIN incoming' = Transfer /\ \A u \in Transfer : incoming'[u] \in Incoming(u) \cup {None}
    BY <2>1, <2>2 DEF TypeOK
  <2>6. offers' \in Seq(Transfer)
    <3>1. t \in Transfer /\ offers \in Seq(Transfer)
      BY <1>3 DEF TypeOK, t
    <3>2. Append(offers, t) \in Seq(Transfer)
      BY <3>1
    <3> QED
      BY <2>2, <3>1, <3>2
  <2> QED
    BY <1>1, <1>2, <2>2, <2>4, <2>5, <2>6 DEF TypeOK
<1>9. ASSUME NEW written \in BOOLEAN, OnFileChunk(e, written) PROVE TypeInv'
  <2> DEFINE t == m.transfer
             received == incoming[t].received + m.length
             new == [incoming[t] EXCEPT !.received = received,
                        !.intact = incoming[t].intact /\ m.intact /\ m.offset = incoming[t].received]
  <2>1. m.kind = "FileChunk" /\ m.offset \in Nat /\ m.length \in Nat
    BY <1>2, <1>9, Messages DEF OnFileChunk, Takes, m
  <2>2. Goto(e, "tellError", t) \/ Goto(e, "verify", t) \/ UNCHANGED at
    BY <1>9 DEF OnFileChunk, m
  <2>3. at' \in [Actor -> [pc : {"idle", "off", "remove", "failTransfers", "done"} \cup Serving,
                           transfer : Transfer \cup {None}]]
        /\ ActorsOK'
    BY <1>3, <1>4, <2>2, Ends, GotoType DEF TypeOK, Serving
  <2>4. \/ UNCHANGED incoming
        \/ incoming[t] # None /\ Fits(t, m) /\ incoming' = [incoming EXCEPT ![t] = new]
    BY <1>9 DEF OnFileChunk, m
  <2>5. ASSUME incoming[t] # None, Fits(t, m) PROVE new \in Incoming(t)
    <3>1. incoming[t] \in Incoming(t)
      BY <1>3, <2>5 DEF TypeOK
    <3>2. PICK n \in 0 .. Size[t] : n = received
      BY <1>3, <2>1, <2>5, <3>1, ConstantsAssumption DEF Incoming, Fits
    <3>3. PICK b \in BOOLEAN : b = (incoming[t].intact /\ m.intact /\ m.offset = incoming[t].received)
      OBVIOUS
    <3>4. [incoming[t] EXCEPT !.received = n, !.intact = b] \in Incoming(t)
      BY <3>1 DEF Incoming
    <3> QED
      BY <3>2, <3>3, <3>4
  <2>6. UNCHANGED <<down, signals, part, offers, verdict>>
    BY <1>9 DEF OnFileChunk
  <2> HIDE DEF new, t
  <2>7. DOMAIN incoming' = Transfer /\ \A u \in Transfer : incoming'[u] \in Incoming(u) \cup {None}
    BY <1>3, <2>4, <2>5 DEF TypeOK, t
  <2> QED
    BY <1>1, <1>2, <2>3, <2>6, <2>7 DEF TypeOK
<1> QED
  BY <1>5, <1>6, <1>7, <1>8, <1>9 DEF OnMessage

\* Answers, aborts and the end of a transfer on the receiver; what the users do.
LEMMA RespondType ==
  ASSUME TypeInv,
         \/ \E a \in Actor : Respond(a)
         \/ \E e \in End, published \in BOOLEAN : Verify(e, published)
         \/ \E yes \in BOOLEAN : AnswerOffer(yes)
         \/ \E t \in Transfer : CancelSending(t) \/ CancelReceiving(t)
  PROVE  TypeInv'
<1> USE DEF TypeInv, netVars, sendVars, recvVars
<1>1. ASSUME NEW a \in Actor, Home(a)
      PROVE  /\ at' \in [Actor -> [pc : {"idle", "off", "remove", "failTransfers", "done"} \cup Serving,
                                   transfer : Transfer \cup {None}]]
             /\ ActorsOK'
  BY <1>1, GotoType DEF Home, Serving, Task
<1>2. ASSUME NEW a \in Actor, NEW pc \in Task, NEW t \in Transfer, Goto(a, pc, t)
      PROVE  /\ at' \in [Actor -> [pc : {"idle", "off", "remove", "failTransfers", "done"} \cup Serving,
                                   transfer : Transfer \cup {None}]]
             /\ ActorsOK'
  BY <1>2, GotoType DEF Serving, Task
<1>3. ASSUME NEW a \in Actor, at[a].pc \in Task PROVE at[a].transfer \in Transfer
  BY <1>3 DEF ActorsOK
<1>4. ASSUME NEW side \in Side, NEW kind \in {"FileAccept", "FileReject", "FileCancel", "FileError"},
             NEW t \in Transfer, chan' = Posted(side, Msg(kind, t))
      PROVE  chan' \in [End -> Seq(Message)]
  BY <1>4, Posts, Messages
<1>5. ASSUME NEW a \in Actor, NEW created \in BOOLEAN, AcceptOffer(a, created) PROVE TypeInv'
  <2> DEFINE t == at[a].transfer
  <2>1. t \in Transfer
    BY <1>3, <1>5 DEF AcceptOffer, Task
  <2>2. CASE incoming[t] # None /\ created
    <3>1. incoming[t] \in Incoming(t)
      BY <2>1, <2>2 DEF TypeOK
    <3>2. [incoming[t] EXCEPT !.accepted = TRUE] \in Incoming(t)
      BY <3>1 DEF Incoming
    <3>3. incoming' = [incoming EXCEPT ![t] = [incoming[t] EXCEPT !.accepted = TRUE]]
          /\ part' = part \cup {t} /\ Goto(a, "tellAccept", t)
      BY <1>5, <2>2 DEF AcceptOffer
    <3> HIDE DEF t
    <3>4. DOMAIN incoming' = Transfer /\ \A u \in Transfer : incoming'[u] \in Incoming(u) \cup {None}
      BY <2>1, <3>2, <3>3 DEF TypeOK
    <3> QED
      BY <1>2, <1>5, <2>1, <3>3, <3>4 DEF AcceptOffer, TypeOK, Task
  <2>3. CASE ~(incoming[t] # None /\ created)
    <3>1. UNCHANGED <<incoming, part>> /\ Goto(a, "refuse", t)
      BY <1>5, <2>3 DEF AcceptOffer
    <3> HIDE DEF t
    <3> QED
      BY <1>2, <1>5, <2>1, <3>1 DEF AcceptOffer, TypeOK, Task
  <2> QED
    BY <2>2, <2>3
<1>6. ASSUME NEW a \in Actor, Abort(a) PROVE TypeInv'
  <2> DEFINE t == at[a].transfer
  <2>1. t \in Transfer
    BY <1>3, <1>6 DEF Abort, Task
  <2>2. Aborted({t}) /\ (Goto(a, "tellReject", t) \/ Home(a))
    BY <1>6 DEF Abort
  <2> HIDE DEF t
  <2> QED
    BY <1>1, <1>2, <1>6, <2>1, <2>2, AbortedType DEF Abort, TypeOK, Task
<1>7. ASSUME NEW a \in Actor, NEW pc \in Task, NEW kind \in {"FileAccept", "FileReject", "FileError"},
             NEW next \in {"home", "abort"}, Tell(a, pc, kind, next)
      PROVE  TypeInv'
  <2> DEFINE t == at[a].transfer
  <2>1. t \in Transfer
    BY <1>3, <1>7 DEF Tell
  <2>2. chan' = Posted("receiver", Msg(kind, t)) /\ (Home(a) \/ Goto(a, "abort", t))
    BY <1>7 DEF Tell
  <2> HIDE DEF t
  <2>3. chan' \in [End -> Seq(Message)]
    BY <1>4, <2>1, <2>2 DEF Side
  <2> QED
    BY <1>1, <1>2, <1>7, <2>1, <2>2, <2>3 DEF Tell, TypeOK, Task
<1>8. ASSUME NEW a \in Actor, Respond(a) PROVE TypeInv'
  BY <1>5, <1>6, <1>7, <1>8 DEF Respond, Task
<1>9. ASSUME NEW e \in End, NEW published \in BOOLEAN, Verify(e, published) PROVE TypeInv'
  <2> DEFINE t == at[e].transfer
  <2>1. t \in Transfer /\ e \in Actor /\ Home(e)
    BY <1>3, <1>9, Ends DEF Verify, Task
  <2>2. CASE incoming[t] = None
    BY <1>1, <1>9, <2>1, <2>2 DEF Verify, TypeOK
  <2>3. CASE incoming[t] # None
    <3>1. /\ incoming' = [incoming EXCEPT ![t] = None] /\ part' = part \ {t}
          /\ \E v \in {"saved", "failed"} : verdict' = [verdict EXCEPT ![t] = v]
          /\ UNCHANGED chan \/ chan' = Posted("receiver", Msg("FileError", t))
      BY <1>9, <2>3 DEF Verify
    <3> HIDE DEF t
    <3>2. chan' \in [End -> Seq(Message)]
      BY <1>4, <2>1, <3>1 DEF Side, TypeOK
    <3>3. DOMAIN incoming' = Transfer /\ \A u \in Transfer : incoming'[u] \in Incoming(u) \cup {None}
      BY <2>1, <3>1 DEF TypeOK
    <3>4. verdict' \in [Transfer -> {"none", "saved", "failed", "lost"}]
      BY <3>1 DEF TypeOK
    <3> QED
      BY <1>1, <1>9, <2>1, <3>1, <3>2, <3>3, <3>4 DEF Verify, TypeOK
  <2> QED
    BY <2>2, <2>3
<1>10. ASSUME NEW yes \in BOOLEAN, AnswerOffer(yes) PROVE TypeInv'
  <2>1. Head(offers) \in Transfer /\ offers' \in Seq(Transfer)
    BY <1>10 DEF AnswerOffer, TypeOK
  <2>2. \/ UNCHANGED at
        \/ Goto(GUI, "accept", Head(offers)) \/ Goto(GUI, "refuse", Head(offers))
    BY <1>10 DEF AnswerOffer
  <2>3. /\ at' \in [Actor -> [pc : {"idle", "off", "remove", "failTransfers", "done"} \cup Serving,
                              transfer : Transfer \cup {None}]]
        /\ ActorsOK'
    BY <1>2, <2>1, <2>2, Ends DEF Task, TypeOK, ActorsOK
  <2> QED
    BY <1>10, <2>1, <2>3 DEF AnswerOffer, TypeOK
<1>11. ASSUME NEW t \in Transfer, CancelSending(t) PROVE TypeInv'
  <2>1. chan' \in [End -> Seq(Message)]
    BY <1>4, <1>11 DEF CancelSending, Side
  <2> QED
    BY <1>11, <2>1 DEF CancelSending, TypeOK, ActorsOK
<1>12. ASSUME NEW t \in Transfer, CancelReceiving(t) PROVE TypeInv'
  <2>1. chan' \in [End -> Seq(Message)]
    BY <1>4, <1>12 DEF CancelReceiving, Side
  <2>2. Goto(GUI, "abort", t)
    BY <1>12 DEF CancelReceiving
  <2> QED
    BY <1>2, <1>12, <2>1, <2>2, Ends DEF CancelReceiving, TypeOK, Task
<1> QED
  BY <1>8, <1>9, <1>10, <1>11, <1>12

LEMMA TypeInvInit == Init => TypeInv
<1> SUFFICES ASSUME Init PROVE TypeInv
  OBVIOUS
<1>1. TypeOK
  BY DEF Init, TypeOK, Serving
<1>2. ActorsOK
  BY DEF Init, ActorsOK, Task
<1> QED
  BY <1>1, <1>2 DEF TypeInv

LEMMA TypeInvNext == TypeInv /\ [Next]_vars => TypeInv'
<1> SUFFICES ASSUME TypeInv, [Next]_vars PROVE TypeInv'
  OBVIOUS
<1>1. CASE UNCHANGED vars
  BY <1>1 DEF TypeInv, TypeOK, ActorsOK, vars
<1>2. CASE Next
  BY <1>2, SenderType, NetworkType, OnMessageType, RespondType, Ends
     DEF Next, ConnectionThread, User
<1> QED
  BY <1>1, <1>2

-----------------------------------------------------------------------------
(* What most steps have in common, and what of the invariant they keep by it *)

NoOffer ==
    /\ OffersDistinct => OffersDistinct'
    /\ \A t \in Transfer : Msg("FileOffer", t) \in Held' => Msg("FileOffer", t) \in Held

NoChunk == \A m \in Held' : m.kind = "FileChunk" => m \in Held

\* No thread of the sender goes back to before its offer or its answer.
OutForward ==
    \A t \in Transfer :
        /\ out'[t].pc \in {"idle", "offer"} => out[t].pc \in {"idle", "offer"}
        /\ out'[t].pc \in {"idle", "offer", "wait"} => out[t].pc \in {"idle", "offer", "wait"}

OutSame ==
    \A t \in Transfer : out'[t].offset = out[t].offset /\ out'[t].intact = out[t].intact

\* The sender reads on; what the file is, is decided before the first chunk.
OutGrows ==
    \A t \in Transfer : /\ out'[t].offset >= out[t].offset
                        /\ (out'[t].intact <=> out[t].intact) \/ out[t].offset = 0

\* The receiver's transfers only end.
InEnds ==
    \A t \in Transfer :
        /\ incoming'[t] = None \/ (incoming'[t] = incoming[t] /\ verdict'[t] = verdict[t])
        /\ incoming[t] = None => verdict'[t] = verdict[t]

InNotSaved == \A t \in Transfer : verdict'[t] = "saved" => verdict[t] = "saved"

\* A file is given up only with its transfer, or when the process dies.
PartsEnd ==
    /\ part' \subseteq part
    /\ \A t \in part' : incoming[t] # None /\ incoming'[t] = None => verdict'[t] = "lost"

NoVerify == \A a \in Actor : at'[a].pc = "verify" => at'[a] = at[a]

Quiet == UNCHANGED <<incoming, verdict, part>>

LEMMA OfferedOnceKept ==
  ASSUME Inv, NoOffer, OutForward,
         \A t \in Transfer :
            /\ incoming[t] = None => incoming'[t] = None /\ verdict'[t] = verdict[t]
            /\ incoming'[t] # None => verdict'[t] = verdict[t],
         \A a \in Actor : at'[a].pc = "verify" =>
            at'[a] = at[a] \/ incoming[at'[a].transfer] # None
  PROVE  OfferedOnce'
<1>1. OfferedOnce
  BY DEF Inv
<1>2. OffersDistinct'
  BY <1>1 DEF OfferedOnce, NoOffer
<1>3. ASSUME NEW t \in Transfer
      PROVE  /\ Msg("FileOffer", t) \in Held' => out'[t].pc \notin {"idle", "offer"}
             /\ incoming'[t] # None => verdict'[t] = "none"
  BY <1>1 DEF OfferedOnce, NoOffer, OutForward
<1>4. ASSUME NEW t \in Transfer,
             out'[t].pc \in {"idle", "offer"} \/ Msg("FileOffer", t) \in Held'
      PROVE  Unheard(t)'
  <2>1. Unheard(t)
    BY <1>1, <1>4 DEF OfferedOnce, NoOffer, OutForward
  <2> QED
    BY <2>1 DEF Unheard
<1> QED
  BY <1>2, <1>3, <1>4 DEF OfferedOnce

LEMMA ChunksReadKept ==
  ASSUME Inv, NoChunk, OutForward, OutSame
  PROVE  ChunksRead'
<1>1. ChunksRead /\ \A m \in Held : m.transfer \in Transfer
  BY Messages DEF Inv, Held
<1>2. ASSUME NEW t \in Transfer, out'[t].pc \in {"idle", "offer", "wait"}
      PROVE  out'[t].offset = 0 /\ out'[t].intact
  BY <1>1, <1>2 DEF ChunksRead, OutForward, OutSame
<1>3. ASSUME NEW m \in Held', m.kind = "FileChunk"
      PROVE  /\ m.length > 0
             /\ m.offset + m.length <= out'[m.transfer].offset
             /\ m.intact <=> out'[m.transfer].intact
  <2>1. m \in Held /\ m.transfer \in Transfer
    BY <1>1, <1>3 DEF NoChunk
  <2> QED
    BY <1>1, <1>3, <2>1 DEF ChunksRead, OutSame
<1> QED
  BY <1>2, <1>3 DEF ChunksRead

LEMMA WrittenKept ==
  ASSUME Inv, TypeInv', OutGrows,
         \A t \in Transfer : incoming'[t] # None =>
            /\ incoming[t] # None
            /\ incoming'[t].received = incoming[t].received
            /\ incoming'[t].intact = incoming[t].intact
            /\ incoming[t].accepted => incoming'[t].accepted
  PROVE  Written'
<1> SUFFICES ASSUME NEW t \in Transfer, incoming'[t] # None
             PROVE  /\ incoming'[t].received <= out'[t].offset
                    /\ incoming'[t].received = 0 => incoming'[t].intact
                    /\ incoming'[t].received > 0 => /\ incoming'[t].accepted
                                                    /\ incoming'[t].intact <=> out'[t].intact
  BY DEF Written
<1>1. /\ incoming[t].received <= out[t].offset
      /\ incoming[t].received = 0 => incoming[t].intact
      /\ incoming[t].received > 0 => /\ incoming[t].accepted
                                     /\ incoming[t].intact <=> out[t].intact
  BY DEF Inv, Written
<1>2. incoming[t].received \in Nat /\ out[t].offset \in Nat /\ out'[t].offset \in Nat
  BY ConstantsAssumption DEF Inv, TypeInv, TypeOK, Incoming
<1>3. incoming'[t].received <= out'[t].offset
  BY <1>1, <1>2 DEF OutGrows
<1>4. incoming[t].received > 0 => out[t].offset # 0
  BY <1>1, <1>2
<1> QED
  BY <1>1, <1>3, <1>4 DEF OutGrows

LEMMA SavedKept ==
  ASSUME Inv, TypeInv', OutGrows, InNotSaved
  PROVE  Saved'
<1> SUFFICES ASSUME NEW t \in Transfer, verdict'[t] = "saved"
             PROVE  out'[t].offset > 0 /\ out'[t].offset >= Size[t] /\ out'[t].intact
  BY DEF Saved
<1>1. out[t].offset > 0 /\ out[t].offset >= Size[t] /\ out[t].intact
  BY DEF Inv, Saved, InNotSaved
<1>2. out[t].offset \in Nat /\ out'[t].offset \in Nat /\ Size[t] \in Nat
  BY ConstantsAssumption DEF Inv, TypeInv, TypeOK
<1>3. out[t].offset # 0
  BY <1>1, <1>2
<1>4. out'[t].intact
  BY <1>1, <1>3 DEF OutGrows
<1>5. out'[t].offset >= out[t].offset
  BY DEF OutGrows
<1> QED
  BY <1>1, <1>2, <1>4, <1>5

LEMMA VerifiedKept ==
  ASSUME Inv, NoVerify,
         \A t \in Transfer : incoming'[t] # None =>
            incoming[t] # None /\ incoming'[t].received = incoming[t].received
  PROVE  Verified'
<1> SUFFICES ASSUME NEW e \in End, at'[e].pc = "verify", incoming'[at'[e].transfer] # None
             PROVE  incoming'[at'[e].transfer].received > 0
  BY DEF Verified
<1>1. at'[e] = at[e]
  BY Ends DEF NoVerify
<1>2. at[e].transfer \in Transfer
  BY <1>1, Ends DEF Inv, TypeInv, ActorsOK, Task
<1> QED
  BY <1>1, <1>2 DEF Inv, Verified

\* A step that sends no offer and no chunk, and on the receiver at most ends
\* transfers without saving them.
LEMMA Kept ==
  ASSUME Inv, TypeInv', NoOffer, NoChunk, OutForward, OutSame,
         InEnds, InNotSaved, PartsEnd, NoVerify
  PROVE  Inv'
<1>1. OfferedOnce'
  BY OfferedOnceKept DEF InEnds, NoVerify
<1>2. ChunksRead'
  BY ChunksReadKept
<1>3. OutGrows
  BY DEF OutSame, OutGrows, Inv, TypeInv, TypeOK
<1>4. Written' /\ Saved' /\ Verified'
  BY <1>3, WrittenKept, SavedKept, VerifiedKept DEF InEnds
<1>5. PartFilesTracked'
  <2> SUFFICES ASSUME NEW t \in part'
               PROVE  verdict'[t] = "lost" \/ (incoming'[t] # None /\ incoming'[t].accepted)
    BY DEF PartFilesTracked
  <2>1. t \in part /\ t \in Transfer
    BY DEF PartsEnd, Inv, TypeInv, TypeOK
  <2>2. verdict[t] = "lost" \/ (incoming[t] # None /\ incoming[t].accepted)
    BY <2>1 DEF Inv, PartFilesTracked
  <2>3. incoming[t] # None => verdict[t] = "none"
    BY <2>1 DEF Inv, OfferedOnce
  <2> QED
    BY <2>1, <2>2, <2>3 DEF InEnds, PartsEnd
<1> QED
  BY <1>1, <1>2, <1>4, <1>5 DEF Inv

LEMMA QuietMeans ==
  ASSUME Quiet
  PROVE  InEnds /\ InNotSaved /\ PartsEnd
BY DEF Quiet, InEnds, InNotSaved, PartsEnd

\* Transfers that are aborted end, and their files with them.
LEMMA AbortedMeans ==
  ASSUME Inv, NEW S \in SUBSET Transfer, Aborted(S)
  PROVE  InEnds /\ InNotSaved /\ PartsEnd
<1>1. \A t \in Transfer : incoming'[t] = IF t \in S THEN None ELSE incoming[t]
  BY DEF Aborted
<1>2. \A t \in Transfer : verdict'[t] = IF t \in S /\ incoming[t] # None THEN "failed" ELSE verdict[t]
  BY DEF Aborted, Receiving
<1> QED
  <2>1. InEnds /\ InNotSaved
    BY <1>1, <1>2 DEF InEnds, InNotSaved
  <2>2. part \subseteq Transfer /\ part' = part \ S
    BY DEF Aborted, Inv, TypeInv, TypeOK
  <2>3. PartsEnd
    BY <1>1, <2>2 DEF PartsEnd
  <2> QED
    BY <2>1, <2>3

\* Channels a step leaves alone, reads from, clears, or sends something on that is
\* neither an offer nor a chunk.
LEMMA CalmChannels ==
  ASSUME Inv, TypeInv',
         \/ UNCHANGED chan
         \/ \E e \in End : chan[e] # <<>> /\ chan' = Rest(e)
         \/ \E side \in Side, t \in Transfer,
               kind \in {"FileAccept", "FileReject", "FileCancel", "FileError", "FileDone"} :
                  chan' = Posted(side, Msg(kind, t))
         \/ \A e \in End : chan'[e] \in {chan[e], <<>>}
  PROVE  NoOffer /\ NoChunk
<1>1. TypeOK /\ chan' \in [End -> Seq(Message)]
  BY DEF Inv, TypeInv, TypeOK
<1>2. ASSUME Held' \subseteq Held, OffersDistinct => OffersDistinct'
      PROVE  NoOffer /\ NoChunk
  BY <1>2 DEF NoOffer, NoChunk
<1>3. CASE UNCHANGED chan
  BY <1>1, <1>2, <1>3, SameChannels
<1>4. ASSUME NEW e \in End, chan[e] # <<>>, chan' = Rest(e)
      PROVE  NoOffer /\ NoChunk
  BY <1>1, <1>2, <1>4, Read
<1>5. ASSUME NEW side \in Side, NEW t \in Transfer,
             NEW kind \in {"FileAccept", "FileReject", "FileCancel", "FileError", "FileDone"},
             chan' = Posted(side, Msg(kind, t))
      PROVE  NoOffer /\ NoChunk
  <2>1. Msg(kind, t) \in Message /\ Msg(kind, t).kind \notin {"FileOffer", "FileChunk"}
    BY Messages
  <2>2. Held' \subseteq Held \cup {Msg(kind, t)} /\ (OffersDistinct => OffersDistinct')
    BY <1>1, <1>5, <2>1, Posts
  <2> QED
    BY <2>1, <2>2, Messages DEF NoOffer, NoChunk
<1>6. CASE \A e \in End : chan'[e] \in {chan[e], <<>>}
  BY <1>1, <1>2, <1>6, OnlyRead
<1> QED
  BY <1>3, <1>4, <1>5, <1>6

-----------------------------------------------------------------------------
(* The steps *)

LEMMA GotoMeans ==
  ASSUME TypeInv, NEW a \in Actor, NEW pc, NEW t, Goto(a, pc, t), pc # "verify"
  PROVE  NoVerify
BY DEF Goto, NoVerify, TypeInv, TypeOK

LEMMA SenderAtMeans ==
  ASSUME TypeInv, NEW t \in Transfer, NEW pc \in {"idle", "offer", "wait", "loop", "send", "ended"},
         SenderAt(t, pc),
         pc \in {"idle", "offer"} => out[t].pc \in {"idle", "offer"},
         pc \in {"idle", "offer", "wait"} => out[t].pc \in {"idle", "offer", "wait"}
  PROVE  OutForward /\ OutSame
<1>1. \A u \in Transfer : /\ out'[u].pc = IF u = t THEN pc ELSE out[u].pc
                          /\ out'[u].offset = out[u].offset
                          /\ out'[u].intact = out[u].intact
  BY SenderAtType DEF TypeInv
<1> QED
  BY <1>1 DEF OutForward, OutSame

LEMMA SameOut ==
  ASSUME UNCHANGED out
  PROVE  OutForward /\ OutSame
BY DEF OutForward, OutSame

LEMMA SameAt ==
  ASSUME UNCHANGED at
  PROVE  NoVerify
BY DEF NoVerify

LEMMA SendOfferInv ==
  ASSUME Inv, TypeInv', NEW t \in Transfer, NEW ok \in BOOLEAN, SendOffer(t, ok)
  PROVE  Inv'
<1> USE DEF netVars, sendVars, recvVars
<1> DEFINE m == Msg("FileOffer", t)
<1>1. m \in Message /\ m.kind = "FileOffer" /\ chan' = Posted("sender", m)
  BY Messages DEF SendOffer
<1>2. out[t].pc = "offer"
  BY DEF SendOffer
<1>3. m \notin Held /\ Unheard(t)
  BY <1>2 DEF Inv, OfferedOnce
<1>4. Held' \subseteq Held \cup {m} /\ OffersDistinct'
  BY <1>1, <1>3, Posts DEF Inv, TypeInv, OfferedOnce, Side
<1>5. Quiet /\ NoVerify
  BY SameAt DEF SendOffer, Quiet
<1>6. NoChunk
  BY <1>1, <1>4 DEF NoChunk
<1>7. CASE ok
  <2>1. SenderAt(t, "wait")
    BY <1>7 DEF SendOffer
  <2>2. OutForward /\ OutSame
    BY <1>2, <2>1, SenderAtMeans DEF Inv
  <2>3. out'[t].pc = "wait"
    BY <2>1, SenderAtType DEF Inv, TypeInv
  <2>4. OfferedOnce'
    <3>1. ASSUME NEW u \in Transfer, Msg("FileOffer", u) \in Held'
          PROVE  Msg("FileOffer", u) \in Held \/ u = t
      BY <1>4, <3>1, Messages
    <3>2. ASSUME NEW u \in Transfer
          PROVE  /\ Msg("FileOffer", u) \in Held' => out'[u].pc \notin {"idle", "offer"}
                 /\ out'[u].pc \in {"idle", "offer"} \/ Msg("FileOffer", u) \in Held' => Unheard(u)
                 /\ incoming[u] # None => verdict[u] = "none"
      BY <1>3, <2>2, <2>3, <3>1 DEF Inv, OfferedOnce, OutForward
    <3>3. \A u \in Transfer : Unheard(u)' <=> Unheard(u)
      BY DEF SendOffer, Unheard
    <3> QED
      BY <1>4, <1>5, <3>2, <3>3 DEF OfferedOnce, Quiet
  <2>5. ChunksRead'
    BY <1>6, <2>2, ChunksReadKept
  <2>6. OutGrows
    BY <2>2 DEF OutSame, OutGrows, Inv, TypeInv, TypeOK
  <2>7. Written' /\ Saved' /\ Verified'
    BY <1>5, <2>6, QuietMeans, WrittenKept, SavedKept, VerifiedKept DEF Quiet
  <2>8. PartFilesTracked'
    BY <1>5 DEF Quiet, Inv, PartFilesTracked
  <2> QED
    BY <2>4, <2>5, <2>7, <2>8 DEF Inv
<1>8. CASE ~ok
  <2>1. SenderAt(t, "ended") /\ UNCHANGED chan
    BY <1>8 DEF SendOffer, SendResult, Posted, Ended
  <2>2. OutForward /\ OutSame
    BY <2>1, SenderAtMeans DEF Inv
  <2>3. NoOffer /\ NoChunk
    BY <2>1, CalmChannels
  <2> QED
    BY <1>5, <2>2, <2>3, QuietMeans, Kept
<1> QED
  BY <1>7, <1>8

LEMMA AnsweredInv ==
  ASSUME Inv, TypeInv', NEW t \in Transfer, NEW readable \in BOOLEAN, NEW intact \in BOOLEAN,
         NEW n \in Lengths(t), Answered(t, readable, n, intact)
  PROVE  Inv'
<1> USE DEF netVars, sendVars, recvVars
<1>1. Quiet /\ NoVerify /\ UNCHANGED chan
  BY SameAt DEF Answered, Quiet
<1>2. NoOffer /\ NoChunk
  BY <1>1, CalmChannels
<1>3. CASE SenderAt(t, "ended")
  <2>1. OutForward /\ OutSame
    BY <1>3, SenderAtMeans DEF Inv
  <2> QED
    BY <1>1, <1>2, <2>1, QuietMeans, Kept
<1>4. CASE ~SenderAt(t, "ended")
  <2>1. out' = [out EXCEPT ![t] = [out[t] EXCEPT !.pc = "loop", !.length = n, !.intact = intact]]
        /\ out[t].pc = "wait"
    BY <1>4 DEF Answered, Ended
  <2>2. out[t] \in [pc : {"idle", "offer", "wait", "loop", "send", "ended"},
                    offset : Nat, length : Nat, intact : BOOLEAN]
    BY DEF Inv, TypeInv, TypeOK
  <2>3. out'[t].pc = "loop" /\ out'[t].offset = out[t].offset /\ \A u \in Transfer \ {t} : out'[u] = out[u]
    BY <2>1, <2>2 DEF Inv, TypeInv, TypeOK
  <2>4. out[t].offset = 0
    BY <2>1 DEF Inv, ChunksRead
  <2>5. OutForward /\ OutGrows
    <3>1. OutForward
      BY <2>1, <2>3 DEF OutForward
    <3>2. ASSUME NEW u \in Transfer
          PROVE  /\ out'[u].offset >= out[u].offset
                 /\ (out'[u].intact <=> out[u].intact) \/ out[u].offset = 0
      <4>1. out[u].offset \in Nat /\ out'[u].offset = out[u].offset
        BY <2>3 DEF Inv, TypeInv, TypeOK
      <4>2. (out'[u].intact <=> out[u].intact) \/ out[u].offset = 0
        BY <2>3, <2>4
      <4> QED
        BY <4>1, <4>2
    <3> QED
      BY <3>1, <3>2 DEF OutGrows
  <2>6. OfferedOnce'
    BY <1>1, <1>2, <2>5, OfferedOnceKept DEF Quiet, NoVerify
  <2>7. ChunksRead'
    <3>1. ASSUME NEW u \in Transfer, out'[u].pc \in {"idle", "offer", "wait"}
          PROVE  out'[u].offset = 0 /\ out'[u].intact
      <4>1. u # t
        BY <2>3, <3>1
      <4> QED
        BY <2>3, <3>1, <4>1 DEF Inv, ChunksRead
    <3>2. ASSUME NEW m \in Held', m.kind = "FileChunk"
          PROVE  /\ m.length > 0
                 /\ m.offset + m.length <= out'[m.transfer].offset
                 /\ m.intact <=> out'[m.transfer].intact
      <4>1. m \in Held /\ m \in Message
        BY <1>2, <3>2 DEF NoChunk, Held
      <4>2. m.transfer \in Transfer /\ m.offset \in Nat /\ m.length \in Nat
        BY <3>2, <4>1, Messages
      <4>3. m.length > 0 /\ m.offset + m.length <= out[m.transfer].offset
            /\ (m.intact <=> out[m.transfer].intact)
        BY <3>2, <4>1 DEF Inv, ChunksRead
      <4>4. m.transfer # t
        BY <2>4, <4>2, <4>3
      <4> QED
        BY <2>3, <4>2, <4>3, <4>4
    <3> QED
      BY <3>1, <3>2 DEF ChunksRead
  <2>8. Written' /\ Saved' /\ Verified'
    BY <1>1, <2>5, QuietMeans, WrittenKept, SavedKept, VerifiedKept DEF Quiet
  <2>9. PartFilesTracked'
    BY <1>1 DEF Quiet, Inv, PartFilesTracked
  <2> QED
    BY <2>6, <2>7, <2>8, <2>9 DEF Inv
<1> QED
  BY <1>3, <1>4

LEMMA SendChunkInv ==
  ASSUME Inv, TypeInv', NEW t \in Transfer, NEW ok \in BOOLEAN, SendChunk(t, ok)
  PROVE  Inv'
<1> USE DEF netVars, sendVars, recvVars
<1> DEFINE o == out[t]
           n == IF o.length - o.offset < CHUNK_SIZE THEN o.length - o.offset ELSE CHUNK_SIZE
           c == [kind |-> "FileChunk", transfer |-> t, offset |-> o.offset,
                 length |-> n, intact |-> o.intact]
<1>1. o \in [pc : {"idle", "offer", "wait", "loop", "send", "ended"},
             offset : Nat, length : Nat, intact : BOOLEAN] /\ o.pc = "send"
  BY DEF SendChunk, Inv, TypeInv, TypeOK
<1>2. n \in Nat /\ n > 0
  BY <1>1, ConstantsAssumption DEF SendChunk
<1>3. c \in Message /\ c.kind = "FileChunk" /\ chan' = Posted("sender", c)
  BY <1>1, <1>2 DEF Message, Chunk, SendChunk
<1>4. Quiet /\ NoVerify
  BY SameAt DEF SendChunk, Quiet
<1>5. CASE ok
  <2>1. out' = [out EXCEPT ![t] = [o EXCEPT !.pc = "loop", !.offset = o.offset + n]]
    BY <1>5 DEF SendChunk
  <2>2. c.transfer = t /\ c.offset = o.offset /\ c.length = n /\ c.intact = o.intact
    OBVIOUS
  <2> HIDE DEF c, n
  <2>3. Held' \subseteq Held \cup {c} /\ (OffersDistinct => OffersDistinct')
    BY <1>3, Posts DEF Inv, TypeInv, Side
  <2>4. NoOffer
    BY <1>3, <2>3, Messages DEF NoOffer
  <2>5. PICK p \in Nat : p = o.offset + n
    BY <1>1, <1>2
  <2>6. out'[t] = [o EXCEPT !.pc = "loop", !.offset = p] /\ \A u \in Transfer \ {t} : out'[u] = out[u]
    BY <2>1, <2>5 DEF Inv, TypeInv, TypeOK
  <2>7. out'[t].pc = "loop" /\ out'[t].offset = o.offset + n /\ out'[t].intact = o.intact
    BY <1>1, <2>5, <2>6
  <2>8. OutForward
    BY <1>1, <2>6, <2>7 DEF OutForward
  <2>9. OutGrows
    <3>1. ASSUME NEW u \in Transfer
          PROVE  /\ out'[u].offset >= out[u].offset
                 /\ out'[u].intact <=> out[u].intact
      <4>1. CASE u = t
        BY <1>1, <1>2, <2>7, <4>1
      <4>2. CASE u # t
        <5>1. out[u].offset \in Nat /\ out'[u] = out[u]
          BY <2>6, <4>2 DEF Inv, TypeInv, TypeOK
        <5> QED
          BY <5>1
      <4> QED
        BY <4>1, <4>2
    <3> QED
      BY <3>1 DEF OutGrows
  <2>10. OfferedOnce'
    BY <1>4, <2>4, <2>8, OfferedOnceKept DEF Quiet, NoVerify
  <2>11. ChunksRead'
    <3>1. ASSUME NEW u \in Transfer, out'[u].pc \in {"idle", "offer", "wait"}
          PROVE  out'[u].offset = 0 /\ out'[u].intact
      <4>1. u # t
        BY <2>7, <3>1
      <4> QED
        BY <2>6, <3>1, <4>1 DEF Inv, ChunksRead
    <3>2. ASSUME NEW m \in Held', m.kind = "FileChunk"
          PROVE  /\ m.length > 0
                 /\ m.offset + m.length <= out'[m.transfer].offset
                 /\ m.intact <=> out'[m.transfer].intact
      <4>1. CASE m = c
        BY <1>1, <1>2, <2>2, <2>7, <4>1
      <4>2. CASE m # c
        <5>1. m \in Held /\ m \in Message
          BY <2>3, <4>2 DEF Held
        <5>2. m.transfer \in Transfer /\ m.offset \in Nat /\ m.length \in Nat
          BY <3>2, <5>1, Messages
        <5>3. m.length > 0 /\ m.offset + m.length <= out[m.transfer].offset
              /\ (m.intact <=> out[m.transfer].intact)
          BY <3>2, <5>1 DEF Inv, ChunksRead
        <5>4. CASE m.transfer = t
          BY <1>1, <1>2, <2>7, <5>2, <5>3, <5>4
        <5>5. CASE m.transfer # t
          BY <2>6, <5>2, <5>3, <5>5
        <5> QED
          BY <5>4, <5>5
      <4> QED
        BY <4>1, <4>2
    <3> QED
      BY <3>1, <3>2 DEF ChunksRead
  <2>12. Written' /\ Saved' /\ Verified'
    BY <1>4, <2>9, QuietMeans, WrittenKept, SavedKept, VerifiedKept DEF Quiet
  <2>13. PartFilesTracked'
    BY <1>4 DEF Quiet, Inv, PartFilesTracked
  <2> QED
    BY <2>10, <2>11, <2>12, <2>13 DEF Inv
<1>6. CASE ~ok
  <2>1. SenderAt(t, "ended") /\ UNCHANGED chan
    BY <1>6 DEF SendChunk, SendResult, Posted, Ended
  <2>2. OutForward /\ OutSame
    BY <2>1, SenderAtMeans DEF Inv
  <2>3. NoOffer /\ NoChunk
    BY <2>1, CalmChannels
  <2> QED
    BY <1>4, <2>2, <2>3, QuietMeans, Kept
<1> QED
  BY <1>5, <1>6

LEMMA OnFileOfferInv ==
  ASSUME Inv, TypeInv', NEW e \in End, NEW auto \in BOOLEAN, OnFileOffer(e, auto)
  PROVE  Inv'
<1> USE DEF netVars, sendVars, recvVars
<1> DEFINE m == Head(chan[e])
           t == m.transfer
           new == [accepted |-> FALSE, received |-> 0, intact |-> TRUE]
<1>1. chan[e] # <<>> /\ chan' = Rest(e) /\ m.kind = "FileOffer"
  BY DEF OnFileOffer, Takes
<1>2. /\ m \in Held /\ m \in Message /\ Held' \subseteq Held
      /\ OffersDistinct' /\ m \notin Held'
  BY <1>1, Read DEF Inv, TypeInv, OfferedOnce
<1>3. t \in Transfer /\ m = Msg("FileOffer", t)
  BY <1>1, <1>2, Messages
<1>4. NoOffer /\ NoChunk
  BY <1>2 DEF NoOffer, NoChunk
<1>5. OutForward /\ OutSame
  BY SameOut DEF OnFileOffer
<1>6. NoVerify
  <2>1. Goto(e, "tellReject", t) \/ Goto(e, "accept", t) \/ UNCHANGED at
    BY DEF OnFileOffer, Subject
  <2> QED
    BY <2>1, Ends, GotoMeans, SameAt DEF Inv
<1>7. CASE UNCHANGED incoming
  <2>1. Quiet
    BY <1>7 DEF OnFileOffer, Quiet
  <2> QED
    BY <1>4, <1>5, <1>6, <2>1, QuietMeans, Kept
<1>8. CASE incoming' = [incoming EXCEPT ![t] = new]
  <2>1. out[t].pc \notin {"idle", "offer"} /\ Unheard(t) /\ UNCHANGED <<out, part, verdict>>
    BY <1>2, <1>3 DEF Inv, OfferedOnce, OnFileOffer
  <2>2. new.received = 0 /\ new.intact
    OBVIOUS
  <2> HIDE DEF new, t, m
  <2>3. incoming'[t] = new /\ \A u \in Transfer \ {t} : incoming'[u] = incoming[u]
    BY <1>3, <1>8 DEF Inv, TypeInv, TypeOK
  <2>4. OfferedOnce'
    <3>1. ASSUME NEW u \in Transfer
          PROVE  /\ Msg("FileOffer", u) \in Held' => out[u].pc \notin {"idle", "offer"}
                 /\ out[u].pc \in {"idle", "offer"} \/ Msg("FileOffer", u) \in Held' => Unheard(u)'
                 /\ incoming'[u] # None => verdict[u] = "none"
      <4>1. CASE u = t
        BY <1>2, <1>3, <2>1, <4>1 DEF Unheard
      <4>2. CASE u # t
        <5>1. /\ Msg("FileOffer", u) \in Held => out[u].pc \notin {"idle", "offer"}
              /\ out[u].pc \in {"idle", "offer"} \/ Msg("FileOffer", u) \in Held => Unheard(u)
              /\ incoming[u] # None => verdict[u] = "none"
          BY DEF Inv, OfferedOnce
        <5>2. Unheard(u) => Unheard(u)'
          BY <1>6, <2>1, <2>3, <4>2 DEF Unheard, NoVerify
        <5> QED
          BY <1>2, <2>3, <4>2, <5>1, <5>2
      <4> QED
        BY <4>1, <4>2
    <3> QED
      BY <1>2, <2>1, <3>1 DEF OfferedOnce
  <2>5. ChunksRead'
    BY <1>4, <1>5, ChunksReadKept
  <2>6. Written'
    <3> SUFFICES ASSUME NEW u \in Transfer, incoming'[u] # None
                 PROVE  /\ incoming'[u].received <= out[u].offset
                        /\ incoming'[u].received = 0 => incoming'[u].intact
                        /\ incoming'[u].received > 0 => /\ incoming'[u].accepted
                                                        /\ incoming'[u].intact <=> out[u].intact
      BY <2>1 DEF Written
    <3>1. CASE u = t
      <4>1. out[u].offset \in Nat
        BY DEF Inv, TypeInv, TypeOK
      <4> QED
        BY <2>2, <2>3, <3>1, <4>1
    <3>2. CASE u # t
      BY <2>3, <3>2 DEF Inv, Written
    <3> QED
      BY <3>1, <3>2
  <2>7. Verified'
    <3> SUFFICES ASSUME NEW f \in End, at'[f].pc = "verify", incoming'[at'[f].transfer] # None
                 PROVE  incoming'[at'[f].transfer].received > 0
      BY DEF Verified
    <3>1. at'[f] = at[f] /\ at[f].transfer \in Transfer /\ f \in Actor
      BY <1>6, Ends DEF NoVerify, Inv, TypeInv, ActorsOK, Task
    <3>2. at[f].transfer # t
      BY <2>1, <3>1 DEF Unheard
    <3> QED
      BY <2>3, <3>1, <3>2 DEF Inv, Verified
  <2>8. Saved'
    BY <2>1 DEF Inv, Saved
  <2>9. PartFilesTracked'
    <3>1. t \notin part
      BY <2>1 DEF Inv, PartFilesTracked, Unheard
    <3> QED
      BY <2>1, <2>3, <3>1 DEF Inv, PartFilesTracked, TypeInv, TypeOK
  <2> QED
    BY <2>4, <2>5, <2>6, <2>7, <2>8, <2>9 DEF Inv
<1> QED
  BY <1>7, <1>8 DEF OnFileOffer, Subject

LEMMA OnFileChunkInv ==
  ASSUME Inv, TypeInv', NEW e \in End, NEW written \in BOOLEAN, OnFileChunk(e, written)
  PROVE  Inv'
<1> USE DEF netVars, sendVars, recvVars
<1> DEFINE c == Head(chan[e])
           t == c.transfer
           received == incoming[t].received + c.length
           intact == incoming[t].intact /\ c.intact /\ c.offset = incoming[t].received
<1>1. chan[e] # <<>> /\ chan' = Rest(e) /\ c.kind = "FileChunk"
  BY DEF OnFileChunk, Takes
<1>2. c \in Held /\ c \in Message
  BY <1>1, Read DEF Inv, TypeInv
<1>3. t \in Transfer /\ c.offset \in Nat /\ c.length \in Nat /\ c.intact \in BOOLEAN
  BY <1>1, <1>2, Messages
<1>4. NoOffer /\ NoChunk
  BY <1>1, CalmChannels
<1>5. OutForward /\ OutSame /\ UNCHANGED <<out, part, verdict>>
  BY SameOut DEF OnFileChunk
<1>6. CASE incoming[t] = None \/ ~(Fits(t, c) /\ written)
  <2>1. Quiet
    BY <1>6 DEF OnFileChunk, Quiet
  <2>2. UNCHANGED at \/ Goto(e, "tellError", t)
    BY <1>6 DEF OnFileChunk
  <2>3. NoVerify
    BY <2>2, Ends, GotoMeans, SameAt DEF Inv
  <2> QED
    BY <1>4, <1>5, <2>1, <2>3, QuietMeans, Kept
<1>7. CASE incoming[t] # None /\ Fits(t, c) /\ written
  <2>1. /\ incoming' = [incoming EXCEPT ![t] = [incoming[t] EXCEPT !.received = received, !.intact = intact]]
        /\ UNCHANGED at \/ Goto(e, "verify", t)
    BY <1>7 DEF OnFileChunk
  <2>2. incoming[t] \in Incoming(t) /\ incoming[t].accepted /\ c.offset = incoming[t].received
    BY <1>3, <1>7 DEF Inv, TypeInv, TypeOK, Fits
  <2>3. /\ c.length > 0 /\ c.offset + c.length <= out[t].offset
        /\ c.intact <=> out[t].intact
        /\ out[t].offset \in Nat
    BY <1>1, <1>2, <1>3 DEF Inv, ChunksRead, TypeInv, TypeOK
  <2>4. /\ received = c.offset + c.length /\ received \in Nat /\ received > 0
        /\ received <= out[t].offset
    BY <1>3, <2>2, <2>3
  <2>5. intact <=> out[t].intact
    <3>1. CASE incoming[t].received = 0
      BY <1>3, <1>7, <2>2, <2>3, <3>1 DEF Inv, Written
    <3>2. CASE incoming[t].received # 0
      <4>1. incoming[t].received > 0
        BY <2>2, <3>2, ConstantsAssumption, <1>3 DEF Incoming
      <4> QED
        BY <1>3, <1>7, <2>2, <2>3, <4>1 DEF Inv, Written
    <3> QED
      BY <3>1, <3>2
  <2> HIDE DEF received, intact
  <2>6. /\ incoming'[t] = [incoming[t] EXCEPT !.received = received, !.intact = intact]
        /\ \A u \in Transfer \ {t} : incoming'[u] = incoming[u]
    BY <1>3, <2>1 DEF Inv, TypeInv, TypeOK
  <2>7. /\ incoming'[t].received = received /\ incoming'[t].accepted
        /\ incoming'[t].intact = intact
    BY <2>2, <2>6 DEF Incoming
  <2> HIDE DEF t, c
  <2>8. \A a \in Actor : at'[a].pc = "verify" => at'[a] = at[a] \/ at'[a].transfer = t
    <3>1. CASE UNCHANGED at
      BY <3>1
    <3>2. CASE Goto(e, "verify", t)
      BY <3>2, Ends DEF Goto, Inv, TypeInv, TypeOK
    <3> QED
      BY <2>1, <3>1, <3>2
  <2>9. OfferedOnce'
    <3>1. \A u \in Transfer : incoming[u] = None => incoming'[u] = None
      BY <1>7, <2>6
    <3>2. \A a \in Actor : at'[a].pc = "verify" =>
             at'[a] = at[a] \/ incoming[at'[a].transfer] # None
      BY <1>7, <2>8
    <3> QED
      BY <1>4, <1>5, <3>1, <3>2, OfferedOnceKept
  <2>10. ChunksRead'
    BY <1>4, <1>5, ChunksReadKept
  <2>11. Written'
    <3> SUFFICES ASSUME NEW u \in Transfer, incoming'[u] # None
                 PROVE  /\ incoming'[u].received <= out[u].offset
                        /\ incoming'[u].received = 0 => incoming'[u].intact
                        /\ incoming'[u].received > 0 => /\ incoming'[u].accepted
                                                        /\ incoming'[u].intact <=> out[u].intact
      BY <1>5 DEF Written
    <3>1. CASE u = t
      BY <2>4, <2>5, <2>7, <3>1
    <3>2. CASE u # t
      BY <2>6, <3>2 DEF Inv, Written
    <3> QED
      BY <3>1, <3>2
  <2>12. Verified'
    <3> SUFFICES ASSUME NEW f \in End, at'[f].pc = "verify", incoming'[at'[f].transfer] # None
                 PROVE  incoming'[at'[f].transfer].received > 0
      BY DEF Verified
    <3>1. CASE at'[f].transfer = t
      BY <2>4, <2>7, <3>1
    <3>2. CASE at'[f].transfer # t
      <4>1. at'[f] = at[f] /\ at[f].transfer \in Transfer
        BY <2>8, <3>2, Ends DEF Inv, TypeInv, ActorsOK, Task
      <4> QED
        BY <2>6, <3>2, <4>1 DEF Inv, Verified
    <3> QED
      BY <3>1, <3>2
  <2>13. Saved'
    BY <1>5 DEF Inv, Saved
  <2>14. PartFilesTracked'
    <3>1. incoming'[t] # None
      <4>1. incoming'[t] \in Incoming(t)
        <5>1. PICK n \in 0 .. Size[t] : n = received
          BY <1>3, <1>7, <2>2, <2>4, ConstantsAssumption DEF Fits
        <5>2. PICK b \in BOOLEAN : b = intact
          BY DEF intact
        <5>3. [incoming[t] EXCEPT !.received = n, !.intact = b] \in Incoming(t)
          BY <2>2 DEF Incoming
        <5> QED
          BY <2>6, <5>1, <5>2, <5>3
      <4> QED
        BY <1>3, <4>1, NoneAssumption
    <3>2. ASSUME NEW u \in part
          PROVE  verdict[u] = "lost" \/ (incoming'[u] # None /\ incoming'[u].accepted)
      <4>1. CASE u = t
        BY <2>7, <3>1, <4>1
      <4>2. CASE u # t
        BY <2>6, <4>2 DEF Inv, PartFilesTracked, TypeInv, TypeOK
      <4> QED
        BY <4>1, <4>2
    <3> QED
      BY <1>5, <3>2 DEF PartFilesTracked
  <2> QED
    BY <2>9, <2>10, <2>11, <2>12, <2>13, <2>14 DEF Inv
<1> QED
  BY <1>6, <1>7

LEMMA AcceptOfferInv ==
  ASSUME Inv, TypeInv', NEW a \in Actor, NEW created \in BOOLEAN, AcceptOffer(a, created)
  PROVE  Inv'
<1> USE DEF netVars, sendVars, recvVars
<1> DEFINE t == at[a].transfer
<1>1. t \in Transfer /\ UNCHANGED <<chan, out, verdict>>
  BY DEF AcceptOffer, Inv, TypeInv, ActorsOK, Task
<1>2. NoOffer /\ NoChunk /\ OutForward /\ OutSame
  BY <1>1, CalmChannels, SameOut
<1>3. Goto(a, "tellAccept", t) \/ Goto(a, "refuse", t)
  BY DEF AcceptOffer
<1>4. NoVerify
  BY <1>3, GotoMeans DEF Inv
<1>5. CASE incoming[t] # None /\ created
  <2>1. /\ incoming' = [incoming EXCEPT ![t] = [incoming[t] EXCEPT !.accepted = TRUE]]
        /\ part' = part \cup {t}
    BY <1>5 DEF AcceptOffer
  <2>2. incoming[t] \in Incoming(t)
    BY <1>1, <1>5 DEF Inv, TypeInv, TypeOK
  <2> HIDE DEF t
  <2>3. /\ incoming'[t] = [incoming[t] EXCEPT !.accepted = TRUE]
        /\ \A u \in Transfer \ {t} : incoming'[u] = incoming[u]
    BY <1>1, <2>1 DEF Inv, TypeInv, TypeOK
  <2>4. /\ incoming'[t].received = incoming[t].received /\ incoming'[t].intact = incoming[t].intact
        /\ incoming'[t].accepted /\ incoming'[t] \in Incoming(t)
    BY <2>2, <2>3 DEF Incoming
  <2>5. \A u \in Transfer :
           /\ incoming[u] = None => incoming'[u] = None
           /\ incoming'[u] # None =>
                 /\ incoming[u] # None
                 /\ incoming'[u].received = incoming[u].received
                 /\ incoming'[u].intact = incoming[u].intact
                 /\ incoming[u].accepted => incoming'[u].accepted
    BY <1>5, <2>3, <2>4 DEF t
  <2>6. OfferedOnce'
    BY <1>1, <1>2, <1>4, <2>5, OfferedOnceKept DEF NoVerify
  <2>7. OutGrows
    BY <1>2 DEF OutSame, OutGrows, Inv, TypeInv, TypeOK
  <2>8. ChunksRead' /\ Written' /\ Verified'
    BY <1>2, <1>4, <2>5, <2>7, ChunksReadKept, WrittenKept, VerifiedKept
  <2>9. Saved'
    BY <1>1 DEF Inv, Saved
  <2>10. PartFilesTracked'
    <3>1. incoming'[t] # None
      BY <1>1, <2>4, NoneAssumption
    <3>2. ASSUME NEW u \in part \cup {t}
          PROVE  verdict[u] = "lost" \/ (incoming'[u] # None /\ incoming'[u].accepted)
      BY <2>3, <2>4, <3>1 DEF Inv, PartFilesTracked, TypeInv, TypeOK
    <3> QED
      BY <1>1, <2>1, <3>2 DEF PartFilesTracked
  <2> QED
    BY <2>6, <2>8, <2>9, <2>10 DEF Inv
<1>6. CASE ~(incoming[t] # None /\ created)
  <2>1. Quiet
    BY <1>6 DEF AcceptOffer, Quiet
  <2> QED
    BY <1>2, <1>4, <2>1, QuietMeans, Kept
<1> QED
  BY <1>5, <1>6

LEMMA VerifyInv ==
  ASSUME Inv, TypeInv', NEW e \in End, NEW published \in BOOLEAN, Verify(e, published)
  PROVE  Inv'
<1> USE DEF netVars, sendVars, recvVars
<1> DEFINE t == at[e].transfer
<1>1. t \in Transfer /\ at[e].pc = "verify"
  BY Ends DEF Verify, Inv, TypeInv, ActorsOK, Task
<1>2. UNCHANGED chan \/ chan' = Posted("receiver", Msg("FileError", t))
  BY DEF Verify
<1>3. NoOffer /\ NoChunk
  BY <1>1, <1>2, CalmChannels DEF Side
<1>4. OutForward /\ OutSame /\ UNCHANGED out
  BY SameOut DEF Verify
<1>5. NoVerify
  <2>1. Goto(e, "loop", None)
    BY Ends DEF Verify, Home
  <2> QED
    BY <2>1, Ends, GotoMeans DEF Inv
<1>6. CASE incoming[t] = None
  <2>1. Quiet
    BY <1>6 DEF Verify, Quiet
  <2> QED
    BY <1>3, <1>4, <1>5, <2>1, QuietMeans, Kept
<1>7. CASE incoming[t] # None
  <2> DEFINE v == IF published /\ Finishes(t) THEN "saved" ELSE "failed"
  <2>1. /\ incoming' = [incoming EXCEPT ![t] = None] /\ part' = part \ {t}
        /\ verdict' = [verdict EXCEPT ![t] = v]
    BY <1>7 DEF Verify
  <2>2. v = "saved" => out[t].offset > 0 /\ out[t].offset >= Size[t] /\ out[t].intact
    <3> SUFFICES ASSUME Finishes(t)
                 PROVE  out[t].offset > 0 /\ out[t].offset >= Size[t] /\ out[t].intact
      OBVIOUS
    <3>1. incoming[t].received = Size[t] /\ incoming[t].intact
      BY DEF Finishes
    <3>2. incoming[t].received > 0
      BY <1>1, <1>7 DEF Inv, Verified
    <3>3. /\ incoming[t].received <= out[t].offset
          /\ incoming[t].intact <=> out[t].intact
      BY <1>1, <1>7, <3>2 DEF Inv, Written
    <3>4. Size[t] \in Nat /\ out[t].offset \in Nat
      BY <1>1, ConstantsAssumption DEF Inv, TypeInv, TypeOK
    <3> QED
      BY <3>1, <3>2, <3>3, <3>4
  <2> HIDE DEF v, t
  <2>3. /\ incoming'[t] = None /\ verdict'[t] = v
        /\ \A u \in Transfer \ {t} : incoming'[u] = incoming[u] /\ verdict'[u] = verdict[u]
    BY <1>1, <2>1 DEF Inv, TypeInv, TypeOK
  <2>4. OfferedOnce'
    <3>1. \A u \in Transfer :
             /\ incoming[u] = None => incoming'[u] = None /\ verdict'[u] = verdict[u]
             /\ incoming'[u] # None => verdict'[u] = verdict[u]
      BY <1>7, <2>3 DEF t
    <3> QED
      BY <1>3, <1>4, <1>5, <3>1, OfferedOnceKept DEF NoVerify
  <2>5. OutGrows
    BY <1>4 DEF OutSame, OutGrows, Inv, TypeInv, TypeOK
  <2>6. \A u \in Transfer : incoming'[u] # None => incoming'[u] = incoming[u]
    BY <2>3
  <2>7. ChunksRead' /\ Written' /\ Verified'
    BY <1>3, <1>4, <1>5, <2>5, <2>6, ChunksReadKept, WrittenKept, VerifiedKept
  <2>8. Saved'
    BY <1>4, <2>2, <2>3 DEF Inv, Saved
  <2>9. PartFilesTracked'
    BY <2>1, <2>3 DEF Inv, PartFilesTracked, TypeInv, TypeOK
  <2> QED
    BY <2>4, <2>7, <2>8, <2>9 DEF Inv
<1> QED
  BY <1>6, <1>7

\* The steps of the thread that sends a file which send neither an offer nor a chunk.
LEMMA SenderInv ==
  ASSUME Inv, TypeInv', NEW t \in Transfer,
         \/ StartSend(t) \/ OfferTimeout(t) \/ CheckCancel(t) \/ SendDone(t) \/ CancelSending(t)
         \/ \E readError \in BOOLEAN : SendError(t, readError)
  PROVE  Inv'
<1> USE DEF netVars, sendVars, recvVars
<1>1. Quiet /\ UNCHANGED at
  BY DEF StartSend, OfferTimeout, CheckCancel, SendDone, CancelSending, SendError, Quiet
<1>2. NoVerify
  BY <1>1, SameAt
<1>3. \/ UNCHANGED chan
      \/ \E kind \in {"FileCancel", "FileError", "FileDone"} : chan' = Posted("sender", Msg(kind, t))
  BY DEF StartSend, OfferTimeout, CheckCancel, SendDone, CancelSending, SendError
<1>4. NoOffer /\ NoChunk
  BY <1>3, CalmChannels DEF Side
<1>5. \/ UNCHANGED out \/ SenderAt(t, "send") \/ SenderAt(t, "ended")
      \/ SenderAt(t, "offer") /\ out[t].pc = "idle"
  BY DEF StartSend, OfferTimeout, CheckCancel, SendDone, CancelSending, SendError, Ended
<1>6. OutForward /\ OutSame
  BY <1>5, SenderAtMeans, SameOut DEF Inv
<1> QED
  BY <1>1, <1>2, <1>4, <1>6, QuietMeans, Kept

\* The steps of both ends and of the network that change no transfer on the receiver.
LEMMA QuietInv ==
  ASSUME Inv, TypeInv',
         \/ \E s \in Session : Connect(s) \/ Cut(s)
         \/ \E e \in End : RecvError(e) \/ RemoveConn(e) \/ OnAnswer(e) \/ OnFileDone(e)
         \/ \E a \in Actor, pc \in Task, kind \in {"FileAccept", "FileReject", "FileError"},
               next \in {"home", "abort"} : Tell(a, pc, kind, next)
         \/ \E yes \in BOOLEAN : AnswerOffer(yes)
         \/ \E t \in Transfer : CancelReceiving(t)
         \/ UNCHANGED vars
  PROVE  Inv'
<1> USE DEF netVars, sendVars, recvVars
<1>1. ASSUME Quiet, UNCHANGED out, NoOffer, NoChunk, NoVerify PROVE Inv'
  BY <1>1, SameOut, QuietMeans, Kept
<1>2. TypeInv
  BY DEF Inv
<1>3. ASSUME NEW s \in Session, Connect(s) PROVE Inv'
  <2>1. Quiet /\ UNCHANGED <<out, chan>>
    BY <1>3 DEF Connect, Quiet
  <2>2. NoVerify
    BY <1>3 DEF Connect, NoVerify
  <2> QED
    BY <1>1, <2>1, <2>2, CalmChannels
<1>4. ASSUME NEW s \in Session, Cut(s) PROVE Inv'
  BY <1>1, <1>4, SameAt, CalmChannels DEF Cut, Quiet
<1>5. ASSUME NEW e \in End, RecvError(e) PROVE Inv'
  <2>1. Goto(e, "remove", None)
    BY <1>5 DEF RecvError, Leave
  <2> QED
    BY <1>1, <1>2, <1>5, <2>1, Ends, GotoMeans, CalmChannels DEF RecvError, Quiet
<1>6. ASSUME NEW e \in End, RemoveConn(e) PROVE Inv'
  <2>1. Goto(e, "failTransfers", None) /\ Quiet /\ UNCHANGED out
    BY <1>6 DEF RemoveConn, Quiet
  <2>2. \A f \in End : chan'[f] \in {chan[f], <<>>}
    BY <1>2, <1>6 DEF RemoveConn, TypeInv, TypeOK
  <2> QED
    BY <1>1, <1>2, <2>1, <2>2, Ends, GotoMeans, CalmChannels
<1>7. ASSUME NEW e \in End, OnAnswer(e) PROVE Inv'
  <2>1. Quiet /\ UNCHANGED <<out, at>> /\ chan[e] # <<>> /\ chan' = Rest(e)
    BY <1>7 DEF OnAnswer, Takes, Quiet
  <2> QED
    BY <1>1, <2>1, SameAt, CalmChannels
<1>8. ASSUME NEW e \in End, OnFileDone(e) PROVE Inv'
  <2>1. Goto(e, "remove", None) /\ Quiet /\ UNCHANGED out /\ chan[e] # <<>> /\ chan' = Rest(e)
    BY <1>8 DEF OnFileDone, Leave, Takes, Quiet
  <2> QED
    BY <1>1, <1>2, <2>1, Ends, GotoMeans, CalmChannels
<1>9. ASSUME NEW a \in Actor, NEW pc \in Task, NEW kind \in {"FileAccept", "FileReject", "FileError"},
             NEW next \in {"home", "abort"}, Tell(a, pc, kind, next)
      PROVE  Inv'
  <2> DEFINE t == at[a].transfer
  <2>1. t \in Transfer
    BY <1>2, <1>9 DEF Tell, TypeInv, ActorsOK
  <2>2. Quiet /\ UNCHANGED out /\ chan' = Posted("receiver", Msg(kind, t))
    BY <1>9 DEF Tell, Quiet
  <2>3. Goto(a, "idle", None) \/ Goto(a, "loop", None) \/ Goto(a, "abort", t)
    BY <1>9 DEF Tell, Home
  <2> HIDE DEF t
  <2>4. NoOffer /\ NoChunk
    BY <2>1, <2>2, CalmChannels DEF Side
  <2> QED
    BY <1>1, <1>2, <2>2, <2>3, <2>4, GotoMeans
<1>10. ASSUME NEW yes \in BOOLEAN, AnswerOffer(yes) PROVE Inv'
  <2>1. \/ UNCHANGED at
        \/ Goto(GUI, "accept", Head(offers)) \/ Goto(GUI, "refuse", Head(offers))
    BY <1>10 DEF AnswerOffer
  <2> QED
    BY <1>1, <1>2, <1>10, <2>1, Ends, SameAt, GotoMeans, CalmChannels DEF AnswerOffer, Quiet
<1>11. ASSUME NEW t \in Transfer, CancelReceiving(t) PROVE Inv'
  <2>1. Goto(GUI, "abort", t) /\ Quiet /\ UNCHANGED out
        /\ chan' = Posted("receiver", Msg("FileCancel", t))
    BY <1>11 DEF CancelReceiving, Quiet
  <2>2. NoOffer /\ NoChunk
    BY <2>1, CalmChannels DEF Side
  <2> QED
    BY <1>1, <1>2, <2>1, <2>2, Ends, GotoMeans
<1>12. CASE UNCHANGED vars
  BY <1>1, <1>12, SameAt, CalmChannels DEF vars, Quiet
<1> QED
  BY <1>3, <1>4, <1>5, <1>6, <1>7, <1>8, <1>9, <1>10, <1>11, <1>12

\* The steps that end transfers without saving them, whichever thread takes them.
LEMMA EndingInv ==
  ASSUME Inv, TypeInv',
         \/ \E e \in End : OnFileCancel(e) \/ FailTransfers(e)
         \/ \E a \in Actor : Abort(a)
         \/ Restart
  PROVE  Inv'
<1> USE DEF netVars, sendVars, recvVars
<1>1. ASSUME UNCHANGED out, NoOffer, NoChunk, NoVerify, NEW S \in SUBSET Transfer, Aborted(S)
      PROVE  Inv'
  BY <1>1, SameOut, AbortedMeans, Kept
<1>2. TypeInv
  BY DEF Inv
<1>3. ASSUME NEW e \in End, OnFileCancel(e) PROVE Inv'
  <2>1. UNCHANGED <<out, at>> /\ chan[e] # <<>> /\ chan' = Rest(e) /\ Aborted({Subject(e)})
    BY <1>3 DEF OnFileCancel, Takes
  <2>2. {Subject(e)} \in SUBSET Transfer
    BY <1>2, <2>1, Read, Messages DEF Subject, TypeInv
  <2> QED
    BY <1>1, <2>1, <2>2, SameAt, CalmChannels
<1>4. ASSUME NEW e \in End, FailTransfers(e) PROVE Inv'
  <2>1. Goto(e, "done", None) /\ UNCHANGED <<out, chan>>
    BY <1>4 DEF FailTransfers
  <2>2. NoVerify /\ NoOffer /\ NoChunk
    BY <1>2, <2>1, Ends, GotoMeans, CalmChannels
  <2>3. CASE e[2] = "receiver"
    <3>1. Aborted(Receiving) /\ Receiving \in SUBSET Transfer
      BY <1>4, <2>3 DEF FailTransfers, Receiving
    <3> QED
      BY <1>1, <2>1, <2>2, <3>1
  <2>4. CASE e[2] # "receiver"
    <3>1. Quiet
      BY <1>4, <2>4 DEF FailTransfers, Quiet
    <3> QED
      BY <2>1, <2>2, <3>1, SameOut, QuietMeans, Kept
  <2> QED
    BY <2>3, <2>4
<1>5. ASSUME NEW a \in Actor, Abort(a) PROVE Inv'
  <2> DEFINE t == at[a].transfer
  <2>1. t \in Transfer /\ UNCHANGED <<out, chan>> /\ Aborted({t})
    BY <1>2, <1>5 DEF Abort, TypeInv, ActorsOK, Task
  <2>2. Goto(a, "tellReject", t) \/ Goto(a, "idle", None) \/ Goto(a, "loop", None)
    BY <1>5 DEF Abort, Home
  <2> HIDE DEF t
  <2>3. NoVerify /\ NoOffer /\ NoChunk
    BY <1>2, <2>1, <2>2, GotoMeans, CalmChannels
  <2> QED
    BY <1>1, <2>1, <2>3
<1>6. CASE Restart
  <2>1. UNCHANGED <<out, part>> /\ \A f \in End : chan'[f] \in {chan[f], <<>>}
    BY <1>6 DEF Restart
  <2>2. NoOffer /\ NoChunk
    BY <2>1, CalmChannels
  <2>3. NoVerify
    BY <1>6 DEF Restart, NoVerify
  <2>4. \A t \in Transfer : /\ incoming'[t] = None
                            /\ verdict'[t] = IF incoming[t] # None THEN "lost" ELSE verdict[t]
    BY <1>6 DEF Restart, Receiving
  <2>5. InEnds /\ InNotSaved
    BY <2>4 DEF InEnds, InNotSaved
  <2>6. PartsEnd
    BY <1>2, <2>1, <2>4 DEF PartsEnd, TypeInv, TypeOK
  <2> QED
    BY <2>1, <2>2, <2>3, <2>5, <2>6, SameOut, Kept
<1> QED
  BY <1>3, <1>4, <1>5, <1>6

LEMMA InvInit == Init => Inv
<1> SUFFICES ASSUME Init PROVE Inv
  OBVIOUS
<1>1. Held = {}
  BY DEF Init, Held
<1>2. OffersDistinct
  BY DEF Init, OffersDistinct
<1>3. \A t \in Transfer : Unheard(t)
  BY DEF Init, Unheard
<1>4. OfferedOnce
  BY <1>1, <1>2, <1>3 DEF Init, OfferedOnce
<1>5. ChunksRead
  BY <1>1 DEF Init, ChunksRead
<1>6. Written /\ Saved /\ PartFilesTracked
  BY DEF Init, Written, Saved, PartFilesTracked
<1>7. Verified
  BY Ends DEF Init, Verified
<1> QED
  BY <1>4, <1>5, <1>6, <1>7, TypeInvInit DEF Inv

LEMMA InvNext == Inv /\ [Next]_vars => Inv'
<1> SUFFICES ASSUME Inv, [Next]_vars PROVE Inv'
  OBVIOUS
<1>1. TypeInv'
  BY TypeInvNext DEF Inv
<1>2. ASSUME NEW s \in Session, Connect(s) \/ Cut(s) PROVE Inv'
  BY <1>1, <1>2, QuietInv
<1>3. ASSUME NEW t \in Transfer, SenderThread(t) PROVE Inv'
  BY <1>1, <1>3, SendOfferInv, SendChunkInv, AnsweredInv, SenderInv DEF SenderThread
<1>4. ASSUME NEW e \in End, OnMessage(e) PROVE Inv'
  BY <1>1, <1>4, QuietInv, EndingInv, OnFileOfferInv, OnFileChunkInv DEF OnMessage
<1>5. ASSUME NEW a \in Actor, Respond(a) PROVE Inv'
  BY <1>1, <1>5, AcceptOfferInv, EndingInv, QuietInv DEF Respond, Task
<1>6. ASSUME NEW e \in End, ConnectionThread(e) PROVE Inv'
  BY <1>1, <1>4, <1>5, <1>6, Ends, QuietInv, EndingInv, VerifyInv DEF ConnectionThread
<1>7. CASE User
  BY <1>1, <1>7, QuietInv, SenderInv DEF User
<1>8. CASE Restart
  BY <1>1, <1>8, EndingInv
<1>9. CASE UNCHANGED vars
  BY <1>1, <1>9, QuietInv
<1> QED
  BY <1>2, <1>3, <1>5, <1>6, <1>7, <1>8, <1>9, Ends DEF Next

LEMMA Invariant == Spec => []Inv
BY InvInit, InvNext, PTL DEF Spec

-----------------------------------------------------------------------------
(* The theorems *)

\* Everything is of its type; a transfer never takes more than was offered.
THEOREM TypeCorrect == Spec => []TypeOK
<1>1. Inv => TypeOK
  BY DEF Inv, TypeInv
<1> QED
  BY <1>1, Invariant, PTL

\* A running receiver forgets no quarantine file, whichever of its threads ends
\* the transfer first (respond_offer, on_chunk, abort_incoming, fail_transfers_for).
THEOREM NoFileForgotten == Spec => []PartFilesTracked
<1>1. Inv => PartFilesTracked
  BY DEF Inv
<1> QED
  BY <1>1, Invariant, PTL

\* What write_chunk has written is a prefix of what the sender has read, also
\* when chunks were lost with one connection and others sent on the next.
THEOREM PrefixWritten == Spec => []WrittenInOrder
<1>1. Inv => WrittenInOrder
  <2> SUFFICES ASSUME Inv, NEW t \in Receiving
               PROVE  /\ incoming[t].received <= out[t].offset
                      /\ out[t].intact => incoming[t].intact
    BY DEF WrittenInOrder
  <2>1. t \in Transfer /\ incoming[t] # None
    BY DEF Receiving
  <2>2. incoming[t].received \in Nat
    BY <2>1, ConstantsAssumption DEF Inv, TypeInv, TypeOK, Incoming
  <2>3. incoming[t].received = 0 \/ incoming[t].received > 0
    BY <2>2
  <2> QED
    BY <2>1, <2>3 DEF Inv, Written
<1> QED
  BY <1>1, Invariant, PTL

\* Only a whole file, with the data that was hashed for the offer, is published.
THEOREM WholeFileSaved == Spec => []SavedIsWhole
<1>1. Inv => SavedIsWhole
  BY DEF Inv, Saved, SavedIsWhole
<1> QED
  BY <1>1, Invariant, PTL
=============================================================================
