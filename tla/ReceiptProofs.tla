--------------------------- MODULE ReceiptProofs ---------------------------
(***************************************************************************)
(* The receiver of FileTransfer implements Receipt: every step of the      *)
(* detailed specification is a step of the abstract one or leaves the      *)
(* status of every transfer alone.                                         *)
(***************************************************************************)
EXTENDS FileTransferProofs

\* What a user has been told, or how far the transfer has come.
StatusOf(told, entry) ==
    IF told # "none" THEN told
    ELSE IF entry = None THEN "none"
    ELSE IF entry.accepted THEN "accepted" ELSE "offered"

LEMMA Status ==
  /\ receiptStatus = [t \in Transfer |-> StatusOf(verdict[t], incoming[t])]
  /\ receiptStatus' = [t \in Transfer |-> StatusOf(verdict'[t], incoming'[t])]
BY DEF receiptStatus, StatusOf

\* A step that changes no status is a stutter of Receipt, one that changes the
\* status of a single transfer an assignment to it.
LEMMA StatusStep ==
  /\ (\A t \in Transfer : receiptStatus'[t] = receiptStatus[t]) => UNCHANGED receiptStatus
  /\ \A t \in Transfer, s \in {"offered", "accepted", "saved", "failed"} :
        /\ receiptStatus'[t] = s
        /\ \A u \in Transfer \ {t} : receiptStatus'[u] = receiptStatus[u]
        => receiptStatus' = [receiptStatus EXCEPT ![t] = s]
<1>1. /\ receiptStatus = [t \in Transfer |-> receiptStatus[t]]
      /\ receiptStatus' = [t \in Transfer |-> receiptStatus'[t]]
  BY Status
<1> QED
  BY <1>1

LEMMA RefinesInit == Init => Receipts!Init
BY DEF Init, Receipts!Init, receiptStatus

\* Transfers are aborted: those among them that are open fail.
LEMMA AbortedFails ==
  ASSUME Inv, NEW S \in SUBSET Transfer, Aborted(S)
  PROVE  Receipts!Next
<1> DEFINE F == S \cap Receiving
<1>1. \A t \in Transfer : incoming[t] # None => verdict[t] = "none"
  BY DEF Inv, OfferedOnce
<1>2. \A t \in F : t \in Transfer /\ incoming[t] # None
  BY DEF Receiving
<1>3. \A t \in F : receiptStatus[t] \in {"offered", "accepted"}
  BY <1>1, <1>2, Status DEF StatusOf
<1>4. /\ \A t \in F : receiptStatus'[t] = "failed"
      /\ \A t \in Transfer \ F : receiptStatus'[t] = receiptStatus[t]
  <2>1. \A t \in Transfer : verdict'[t] = IF t \in F THEN "failed" ELSE verdict[t]
    BY DEF Aborted
  <2>2. \A t \in Transfer \ F : incoming'[t] = incoming[t]
    BY DEF Aborted, Receiving
  <2> QED
    BY <1>2, <2>1, <2>2, Status DEF StatusOf
<1>5. F \in SUBSET Transfer
  OBVIOUS
<1> HIDE DEF F
<1>6. receiptStatus' = [t \in Transfer |-> IF t \in F THEN "failed" ELSE receiptStatus[t]]
  BY <1>2, <1>4, Status
<1>7. Receipts!Fail(F)
  BY <1>3, <1>6 DEF Receipts!Fail, Receipts!Open
<1> QED
  BY <1>5, <1>7 DEF Receipts!Next

LEMMA RestartLoses ==
  ASSUME Inv, Restart
  PROVE  Receipts!Next
<1>1. \A t \in Transfer :
         /\ incoming'[t] = None
         /\ verdict'[t] = IF incoming[t] # None THEN "lost" ELSE verdict[t]
  BY DEF Restart, Receiving
<1>2. \A t \in Transfer : incoming[t] # None => verdict[t] = "none"
  BY DEF Inv, OfferedOnce
<1>3. \A t \in Transfer : verdict[t] \in {"none", "saved", "failed", "lost"}
  BY DEF Inv, TypeInv, TypeOK
<1>4. ASSUME NEW t \in Transfer
      PROVE  receiptStatus'[t] = IF receiptStatus[t] \in {"offered", "accepted"} THEN "lost"
                                 ELSE receiptStatus[t]
  <2>1. CASE incoming[t] # None
    BY <1>1, <1>2, <2>1, Status DEF StatusOf
  <2>2. CASE incoming[t] = None
    BY <1>1, <1>3, <2>2, Status DEF StatusOf
  <2> QED
    BY <2>1, <2>2
<1>5. receiptStatus' = [t \in Transfer |-> IF receiptStatus[t] \in {"offered", "accepted"} THEN "lost"
                                           ELSE receiptStatus[t]]
  BY <1>4, Status
<1> QED
  BY <1>5 DEF Receipts!Next, Receipts!Lose, Receipts!Open

LEMMA OfferOffers ==
  ASSUME Inv, NEW e \in End, NEW auto \in BOOLEAN, OnFileOffer(e, auto)
  PROVE  Receipts!Next \/ UNCHANGED receiptStatus
<1> DEFINE t == Subject(e)
           new == [accepted |-> FALSE, received |-> 0, intact |-> TRUE]
<1>1. chan[e] # <<>> /\ chan' = Rest(e) /\ Head(chan[e]).kind = "FileOffer" /\ UNCHANGED verdict
  BY DEF OnFileOffer, Takes
<1>2. t \in Transfer /\ Msg("FileOffer", t) \in Held
  <2>1. Head(chan[e]) \in Held /\ Head(chan[e]) \in Message
    BY <1>1, Read DEF Inv, TypeInv
  <2> QED
    BY <1>1, <2>1, Messages DEF Subject
<1>3. verdict[t] = "none" /\ incoming[t] = None
  BY <1>2 DEF Inv, OfferedOnce, Unheard
<1>4. CASE UNCHANGED incoming
  BY <1>1, <1>4, Status
<1>5. CASE incoming' = [incoming EXCEPT ![t] = new]
  <2>1. new \in Incoming(t) /\ new.accepted = FALSE
    BY <1>2, ConstantsAssumption DEF Incoming
  <2>2. new # None
    BY <1>2, <2>1, NoneAssumption
  <2> HIDE DEF new, t
  <2>3. incoming'[t] = new /\ \A u \in Transfer \ {t} : incoming'[u] = incoming[u]
    BY <1>2, <1>5 DEF Inv, TypeInv, TypeOK
  <2>4. receiptStatus[t] = "none" /\ receiptStatus'[t] = "offered"
    BY <1>1, <1>2, <1>3, <2>1, <2>2, <2>3, Status DEF StatusOf
  <2>5. \A u \in Transfer \ {t} : receiptStatus'[u] = receiptStatus[u]
    BY <1>1, <2>3, Status
  <2>6. Receipts!Offer(t)
    BY <1>2, <2>4, <2>5, StatusStep DEF Receipts!Offer
  <2> QED
    BY <1>2, <2>6 DEF Receipts!Next
<1> QED
  BY <1>4, <1>5 DEF OnFileOffer

LEMMA ChunkStutters ==
  ASSUME Inv, NEW e \in End, NEW written \in BOOLEAN, OnFileChunk(e, written)
  PROVE  UNCHANGED receiptStatus
<1> DEFINE c == Head(chan[e])
           t == c.transfer
           n == incoming[t].received + c.length
           b == incoming[t].intact /\ c.intact /\ c.offset = incoming[t].received
<1>1. chan[e] # <<>> /\ chan' = Rest(e) /\ c.kind = "FileChunk" /\ UNCHANGED verdict
  BY DEF OnFileChunk, Takes
<1>2. t \in Transfer /\ c.length \in Nat
  <2>1. c \in Message
    BY <1>1, Read DEF Inv, TypeInv
  <2> QED
    BY <1>1, <2>1, Messages
<1>3. CASE UNCHANGED incoming
  BY <1>1, <1>3, Status
<1>4. CASE /\ incoming[t] # None /\ Fits(t, c)
           /\ incoming' = [incoming EXCEPT ![t] = [incoming[t] EXCEPT !.received = n, !.intact = b]]
  <2>1. incoming[t] \in Incoming(t) /\ incoming[t].accepted
    BY <1>2, <1>4 DEF Inv, TypeInv, TypeOK, Fits
  <2>2. PICK k \in 0 .. Size[t] : k = n
    BY <1>2, <1>4, <2>1, ConstantsAssumption DEF Incoming, Fits
  <2>3. PICK i \in BOOLEAN : i = b
    OBVIOUS
  <2> HIDE DEF n, b, t, c
  <2>4. [incoming[t] EXCEPT !.received = k, !.intact = i] \in Incoming(t)
        /\ [incoming[t] EXCEPT !.received = k, !.intact = i].accepted
    BY <2>1 DEF Incoming
  <2>5. /\ incoming'[t] = [incoming[t] EXCEPT !.received = k, !.intact = i]
        /\ \A u \in Transfer \ {t} : incoming'[u] = incoming[u]
    BY <1>2, <1>4, <2>2, <2>3 DEF Inv, TypeInv, TypeOK
  <2>6. incoming'[t] # None /\ incoming'[t].accepted
    BY <1>2, <2>4, <2>5, NoneAssumption
  <2>7. receiptStatus'[t] = receiptStatus[t]
    BY <1>1, <1>2, <1>4, <2>1, <2>6, Status DEF StatusOf
  <2>8. \A u \in Transfer \ {t} : receiptStatus'[u] = receiptStatus[u]
    BY <1>1, <2>5, Status
  <2> QED
    BY <2>7, <2>8, StatusStep
<1> QED
  BY <1>3, <1>4 DEF OnFileChunk

LEMMA AcceptAccepts ==
  ASSUME Inv, NEW a \in Actor, NEW created \in BOOLEAN, AcceptOffer(a, created)
  PROVE  Receipts!Next \/ UNCHANGED receiptStatus
<1> DEFINE t == at[a].transfer
<1>1. t \in Transfer /\ UNCHANGED verdict
  BY DEF AcceptOffer, Inv, TypeInv, ActorsOK, Task, recvVars, sendVars, netVars
<1>2. CASE UNCHANGED incoming
  BY <1>1, <1>2, Status
<1>3. CASE /\ incoming[t] # None
           /\ incoming' = [incoming EXCEPT ![t] = [incoming[t] EXCEPT !.accepted = TRUE]]
  <2>1. incoming[t] \in Incoming(t) /\ verdict[t] = "none"
    BY <1>1, <1>3 DEF Inv, TypeInv, TypeOK, OfferedOnce
  <2> HIDE DEF t
  <2>2. /\ incoming'[t] = [incoming[t] EXCEPT !.accepted = TRUE]
        /\ \A u \in Transfer \ {t} : incoming'[u] = incoming[u]
    BY <1>1, <1>3 DEF Inv, TypeInv, TypeOK
  <2>3. incoming'[t] \in Incoming(t) /\ incoming'[t].accepted
    BY <2>1, <2>2 DEF Incoming
  <2>4. receiptStatus[t] \in {"offered", "accepted"} /\ receiptStatus'[t] = "accepted"
    <3>1. incoming'[t] # None
      BY <1>1, <2>3, NoneAssumption
    <3> QED
      BY <1>1, <1>3, <2>1, <2>3, <3>1, Status DEF StatusOf
  <2>5. \A u \in Transfer \ {t} : receiptStatus'[u] = receiptStatus[u]
    BY <1>1, <2>2, Status
  <2>6. CASE receiptStatus[t] = "offered"
    <3>1. Receipts!Accept(t)
      BY <1>1, <2>4, <2>5, <2>6, StatusStep DEF Receipts!Accept
    <3> QED
      BY <1>1, <3>1 DEF Receipts!Next
  <2>7. CASE receiptStatus[t] = "accepted"
    BY <2>4, <2>5, <2>7, StatusStep
  <2> QED
    BY <2>4, <2>6, <2>7
<1> QED
  BY <1>2, <1>3 DEF AcceptOffer

LEMMA VerifySavesOrFails ==
  ASSUME Inv, NEW e \in End, NEW published \in BOOLEAN, Verify(e, published)
  PROVE  Receipts!Next \/ UNCHANGED receiptStatus
<1> DEFINE t == at[e].transfer
           v == IF published /\ Finishes(t) THEN "saved" ELSE "failed"
<1>1. t \in Transfer /\ at[e].pc = "verify"
  BY Ends DEF Verify, Inv, TypeInv, ActorsOK, Task
<1>2. CASE incoming[t] = None
  <2>1. UNCHANGED <<incoming, verdict>>
    BY <1>2 DEF Verify
  <2> QED
    BY <2>1, Status
<1>3. CASE incoming[t] # None
  <2>1. incoming' = [incoming EXCEPT ![t] = None] /\ verdict' = [verdict EXCEPT ![t] = v]
        /\ v \in {"saved", "failed"}
    BY <1>3 DEF Verify
  <2>2. incoming[t].accepted /\ verdict[t] = "none"
    BY <1>1, <1>3 DEF Inv, Verified, Written, OfferedOnce
  <2> HIDE DEF t, v
  <2>3. /\ incoming'[t] = None /\ verdict'[t] = v
        /\ \A u \in Transfer \ {t} : incoming'[u] = incoming[u] /\ verdict'[u] = verdict[u]
    BY <1>1, <2>1 DEF Inv, TypeInv, TypeOK
  <2>4. receiptStatus[t] = "accepted" /\ receiptStatus'[t] = v
    BY <1>1, <1>3, <2>1, <2>2, <2>3, Status DEF StatusOf
  <2>5. \A u \in Transfer \ {t} : receiptStatus'[u] = receiptStatus[u]
    BY <2>3, Status
  <2>6. CASE v = "saved"
    <3>1. Receipts!Save(t)
      BY <1>1, <2>4, <2>5, <2>6, StatusStep DEF Receipts!Save
    <3> QED
      BY <1>1, <3>1 DEF Receipts!Next
  <2>7. CASE v = "failed"
    <3>1. receiptStatus' = [u \in Transfer |-> IF u \in {t} THEN "failed" ELSE receiptStatus[u]]
      BY <2>4, <2>5, <2>7, Status
    <3>2. Receipts!Fail({t})
      BY <2>4, <3>1 DEF Receipts!Fail, Receipts!Open
    <3> QED
      BY <1>1, <3>2 DEF Receipts!Next
  <2> QED
    BY <2>1, <2>6, <2>7
<1> QED
  BY <1>2, <1>3

LEMMA RefinesNext == Inv /\ [Next]_vars => [Receipts!Next]_receiptStatus
<1> SUFFICES ASSUME Inv, [Next]_vars PROVE Receipts!Next \/ UNCHANGED receiptStatus
  OBVIOUS
<1> USE DEF netVars, sendVars, recvVars
<1>1. ASSUME UNCHANGED <<incoming, verdict>> PROVE UNCHANGED receiptStatus
  BY <1>1, Status
<1>2. ASSUME NEW s \in Session, Connect(s) \/ Cut(s) PROVE UNCHANGED receiptStatus
  BY <1>1, <1>2 DEF Connect, Cut
<1>3. ASSUME NEW t \in Transfer, SenderThread(t) PROVE UNCHANGED receiptStatus
  BY <1>1, <1>3 DEF SenderThread, SendOffer, SendChunk, Answered, OfferTimeout, CheckCancel,
                    SendDone, SendError
<1>4. ASSUME NEW e \in End, OnMessage(e) PROVE Receipts!Next \/ UNCHANGED receiptStatus
  <2>1. CASE OnAnswer(e) \/ OnFileDone(e)
    BY <1>1, <2>1 DEF OnAnswer, OnFileDone
  <2>2. CASE OnFileCancel(e)
    <3>1. chan[e] # <<>> /\ chan' = Rest(e) /\ Aborted({Subject(e)})
      BY <2>2 DEF OnFileCancel, Takes
    <3>2. {Subject(e)} \in SUBSET Transfer
      BY <3>1, Read, Messages DEF Subject, Inv, TypeInv
    <3> QED
      BY <3>1, <3>2, AbortedFails
  <2> QED
    BY <1>4, <2>1, <2>2, OfferOffers, ChunkStutters DEF OnMessage
<1>5. ASSUME NEW a \in Actor, Respond(a) PROVE Receipts!Next \/ UNCHANGED receiptStatus
  <2>1. CASE Abort(a)
    <3>1. {at[a].transfer} \in SUBSET Transfer /\ Aborted({at[a].transfer})
      BY <2>1 DEF Abort, Inv, TypeInv, ActorsOK, Task
    <3> QED
      BY <3>1, AbortedFails
  <2>2. ASSUME NEW created \in BOOLEAN, AcceptOffer(a, created)
        PROVE  Receipts!Next \/ UNCHANGED receiptStatus
    BY <2>2, AcceptAccepts
  <2> QED
    BY <1>1, <1>5, <2>1, <2>2 DEF Respond, Tell
<1>6. ASSUME NEW e \in End, ConnectionThread(e) PROVE Receipts!Next \/ UNCHANGED receiptStatus
  <2>1. CASE FailTransfers(e)
    <3>1. CASE e[2] = "receiver"
      BY <2>1, <3>1, AbortedFails DEF FailTransfers, Receiving
    <3>2. CASE e[2] # "receiver"
      BY <1>1, <2>1, <3>2 DEF FailTransfers
    <3> QED
      BY <3>1, <3>2
  <2>2. CASE RecvError(e) \/ RemoveConn(e)
    BY <1>1, <2>2 DEF RecvError, RemoveConn
  <2> QED
    BY <1>4, <1>5, <1>6, <2>1, <2>2, Ends, VerifySavesOrFails DEF ConnectionThread
<1>7. CASE User
  BY <1>1, <1>7 DEF User, AnswerOffer, StartSend, CancelSending, CancelReceiving
<1>8. CASE Restart
  BY <1>8, RestartLoses
<1>9. CASE UNCHANGED vars
  BY <1>1, <1>9 DEF vars
<1> QED
  BY <1>2, <1>3, <1>5, <1>6, <1>7, <1>8, <1>9, Ends DEF Next

\* FileTransfer implements Receipt: whatever the two connections, the users and
\* the disk do, a file is saved only after it was offered and accepted, and every
\* transfer gets at most one verdict, by one of the threads that may end it.
THEOREM OneVerdict == Spec => ImplementsReceipt
BY RefinesInit, RefinesNext, Invariant, PTL DEF Spec, ImplementsReceipt, Receipts!Spec
=============================================================================
