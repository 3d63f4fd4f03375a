---------------------------- MODULE FileTransfer ----------------------------
(***************************************************************************)
(* Sending files between two paired desktop engines (engine/mod.rs and     *)
(* engine/transfer.rs), over connections that come and go.                 *)
(*                                                                         *)
(* On the sender every file has a thread of its own (send_file_blocking);  *)
(* on the receiver the connection thread takes offers and chunks while the *)
(* GUI thread answers and cancels.  Both ends have a connection thread,    *)
(* and when a connection is lost each cleans up for itself.  The module    *)
(* models one direction between two devices that stay paired; Pairing has  *)
(* the connections themselves, so here a connection is registered on both  *)
(* sides at once, when neither side has one.                               *)
(*                                                                         *)
(* A file is a number of units of data; `intact' says that the data is the *)
(* data that was hashed for the offer.  Names and progress events carry no *)
(* decision and are left out.  The receiver's process may end at any       *)
(* moment and start again.                                                 *)
(***************************************************************************)
EXTENDS Naturals, Sequences, FiniteSets

CONSTANTS
    Transfer,                \* the files that may be sent, by transfer id
    Size,                    \* transfer -> units of data offered
    Session,                 \* the connections that may be made
    None,
    CHUNK_SIZE,              \* units of data in a chunk
    MAX_INCOMING_TRANSFERS,  \* engine/mod.rs
    MaxFileSize              \* Config::max_file_size, 0 for no limit

Side == {"sender", "receiver"}

End == Session \X Side

Opposite(side) == IF side = "sender" THEN "receiver" ELSE "sender"

Other(e) == <<e[1], Opposite(e[2])>>

\* The receiver's threads: its GUI thread and the connection threads.
GUI == <<None, "receiver">>
Actor == End \cup {GUI}

ASSUME ConstantsAssumption ==
    /\ Size \in [Transfer -> Nat]
    /\ CHUNK_SIZE \in Nat \ {0} /\ MAX_INCOMING_TRANSFERS \in Nat /\ MaxFileSize \in Nat
    /\ None \notin Session

VARIABLES
    conn,       \* side -> the session in its connection table
    at,         \* actor -> what it is doing, for which transfer
    chan,       \* end -> messages sent to it and not yet read
    down,       \* end -> its socket is shut down or dead
    out,        \* transfer -> its thread on the sender (send_file_blocking)
    cancel,     \* transfers whose cancel flag is set on the sender
    signals,    \* transfer -> answers of the receiver its thread has not read
    incoming,   \* transfer -> IncomingTransfer of the receiver
    part,       \* transfers with a quarantine (.part) file on the receiver
    offers,     \* the receiver's file prompts
    result,     \* transfer -> what the sender's user was told
    verdict     \* transfer -> what the receiver's user was told (lost: nothing)

netVars  == <<conn, chan, down>>
sendVars == <<out, cancel, signals, result>>
recvVars == <<incoming, part, offers, verdict>>
vars     == <<conn, at, chan, down, out, cancel, signals, incoming, part, offers,
              result, verdict>>

Control == [kind : {"FileOffer", "FileAccept", "FileReject", "FileCancel", "FileError", "FileDone"},
            transfer : Transfer]
Chunk == [kind : {"FileChunk"}, transfer : Transfer, offset : Nat, length : Nat, intact : BOOLEAN]
Message == Control \cup Chunk

Msg(kind, t) == [kind |-> kind, transfer |-> t]

Incoming(t) == [accepted : BOOLEAN, received : 0..Size[t], intact : BOOLEAN]

ASSUME NoneAssumption == \A t \in Transfer : None \notin Incoming(t)

\* Between conns.insert and conns.remove.
Serving == {"loop", "accept", "tellAccept", "refuse", "tellReject", "tellError", "abort", "verify"}

\* The sender's table `outgoing'.
Outgoing == {t \in Transfer : out[t].pc \notin {"idle", "ended"}}

\* The receiver's table `incoming'.
Receiving == {t \in Transfer : incoming[t] # None}

Init ==
    /\ conn = [side \in Side |-> None]
    /\ at = [a \in Actor |-> [pc |-> IF a = GUI THEN "idle" ELSE "off", transfer |-> None]]
    /\ chan = [e \in End |-> <<>>]
    /\ down = [e \in End |-> FALSE]
    /\ out = [t \in Transfer |-> [pc |-> "idle", offset |-> 0, length |-> 0, intact |-> TRUE]]
    /\ cancel = {}
    /\ signals = [t \in Transfer |-> <<>>]
    /\ incoming = [t \in Transfer |-> None]
    /\ part = {}
    /\ offers = <<>>
    /\ result = [t \in Transfer |-> "none"]
    /\ verdict = [t \in Transfer |-> "none"]

-----------------------------------------------------------------------------
(* Connections *)

Goto(a, pc, t) == at' = [at EXCEPT ![a] = [pc |-> pc, transfer |-> t]]

\* Back to reading messages, or to waiting for the user.
Home(a) == Goto(a, IF a = GUI THEN "idle" ELSE "loop", None)

Connect(s) ==
    /\ \A side \in Side : conn[side] = None /\ at[<<s, side>>].pc = "off"
    /\ conn' = [side \in Side |-> s]
    /\ at' = [a \in Actor |-> IF a \in {s} \X Side THEN [pc |-> "loop", transfer |-> None] ELSE at[a]]
    /\ UNCHANGED <<chan, down, sendVars, recvVars>>

\* What is written on the current connection of a side arrives.
Arrives(side) ==
    conn[side] # None /\ \A end \in {conn[side]} \X Side : ~down[end]

Posted(side, m) ==
    IF Arrives(side) THEN [chan EXCEPT ![<<conn[side], Opposite(side)>>] = Append(@, m)] ELSE chan

\* send_to: no connection or a closed one is an error, a message lost on the
\* way may or may not be one.
SendResult(side, ok) ==
    IF ok THEN conn[side] # None /\ ~down[<<conn[side], side>>] ELSE ~Arrives(side)

\* The read loop ends and the socket is closed.
Leave(e) ==
    /\ Goto(e, "remove", None)
    /\ down' = [down EXCEPT ![e] = TRUE]

RecvError(e) ==
    /\ at[e].pc = "loop"
    /\ down[e] \/ down[Other(e)]
    /\ Leave(e)
    /\ UNCHANGED <<conn, chan, sendVars, recvVars>>

RemoveConn(e) ==
    /\ at[e].pc = "remove"
    /\ conn' = [conn EXCEPT ![e[2]] = None]
    /\ chan' = [chan EXCEPT ![e] = <<>>]
    /\ Goto(e, "failTransfers", None)
    /\ UNCHANGED <<down, sendVars, recvVars>>

\* The network loses the connection.
Cut(s) ==
    /\ \E side \in Side : conn[side] = s
    /\ down' = [e \in End |-> down[e] \/ e[1] = s]
    /\ UNCHANGED <<conn, at, chan, sendVars, recvVars>>

\* The receiver's process ends and starts again (Engine::start): its tables are
\* empty, its users hear nothing, and nobody looks into the quarantine directory.
Restart ==
    LET ends == {e \in End : e[2] = "receiver" /\ at[e].pc # "off"} IN
    /\ Receiving # {} \/ conn["receiver"] # None
    /\ conn' = [conn EXCEPT !["receiver"] = None]
    /\ at' = [a \in Actor |-> IF a \in ends THEN [pc |-> "done", transfer |-> None]
                            ELSE IF a = GUI THEN [pc |-> "idle", transfer |-> None]
                            ELSE at[a]]
    /\ chan' = [e \in End |-> IF e \in ends THEN <<>> ELSE chan[e]]
    /\ down' = [e \in End |-> down[e] \/ e \in ends]
    /\ incoming' = [t \in Transfer |-> None]
    /\ offers' = <<>>
    /\ verdict' = [t \in Transfer |-> IF t \in Receiving THEN "lost" ELSE verdict[t]]
    /\ UNCHANGED <<sendVars, part>>

-----------------------------------------------------------------------------
(* send_file_blocking and what reaches it *)

SenderAt(t, pc) == out' = [out EXCEPT ![t].pc = pc]

\* finish_outgoing
Ended(t, told) ==
    /\ SenderAt(t, "ended")
    /\ result' = [result EXCEPT ![t] = told]

\* The file is hashed and entered into `outgoing'.
StartSend(t) ==
    /\ out[t].pc = "idle"
    /\ SenderAt(t, "offer")
    /\ UNCHANGED <<netVars, at, cancel, signals, result, recvVars>>

SendOffer(t, ok) ==
    /\ out[t].pc = "offer"
    /\ SendResult("sender", ok)
    /\ chan' = Posted("sender", Msg("FileOffer", t))
    /\ IF ok THEN SenderAt(t, "wait") /\ UNCHANGED result ELSE Ended(t, "failed")
    /\ UNCHANGED <<conn, down, at, cancel, signals, recvVars>>

\* The answer: no, or yes and the file is opened.  Input: what the file is by
\* now (unreadable, or its length and whether its data is still the same).
Answered(t, readable, length, intact) ==
    /\ out[t].pc = "wait"
    /\ signals[t] # <<>>
    /\ signals' = [signals EXCEPT ![t] = Tail(@)]
    /\ IF Head(signals[t]) = "accept" /\ readable
       THEN /\ out' = [out EXCEPT ![t].pc = "loop", ![t].length = length, ![t].intact = intact]
            /\ UNCHANGED result
       ELSE Ended(t, "failed")
    /\ UNCHANGED <<netVars, at, cancel, recvVars>>

OfferTimeout_WhenGone(t) ==
    /\ out[t].pc = "wait"
    /\ signals[t] = <<>>
    /\ conn["sender"] = None
    /\ Ended(t, "failed")
    /\ UNCHANGED <<netVars, at, cancel, signals, recvVars>>

\* OFFER_TIMEOUT passes; the receiver is not told.
OfferTimeout(t) ==
    /\ out[t].pc = "wait"
    /\ signals[t] = <<>>
    /\ Ended(t, "failed")
    /\ UNCHANGED <<netVars, at, cancel, signals, recvVars>>

\* The top of the sending loop: the cancel flag, then one signal.
CheckCancel(t) ==
    /\ out[t].pc = "loop"
    /\ IF t \in cancel
       THEN Ended(t, "failed") /\ UNCHANGED signals
       ELSE /\ signals' = [signals EXCEPT ![t] = IF @ = <<>> THEN @ ELSE Tail(@)]
            /\ IF signals[t] # <<>> /\ Head(signals[t]) \in {"reject", "cancel"}
               THEN Ended(t, "failed")
               ELSE SenderAt(t, "send") /\ UNCHANGED result
    /\ UNCHANGED <<netVars, at, cancel, recvVars>>

SendChunk(t, ok) ==
    LET o == out[t]
        n == IF o.length - o.offset < CHUNK_SIZE THEN o.length - o.offset ELSE CHUNK_SIZE
    IN
    /\ o.pc = "send" /\ o.offset < o.length
    /\ SendResult("sender", ok)
    /\ chan' = Posted("sender", [kind |-> "FileChunk", transfer |-> t, offset |-> o.offset,
                                 length |-> n, intact |-> o.intact])
    /\ IF ok THEN /\ out' = [out EXCEPT ![t].pc = "loop", ![t].offset = @ + n]
                  /\ UNCHANGED result
       ELSE Ended(t, "failed")
    /\ UNCHANGED <<conn, down, at, cancel, signals, recvVars>>

\* The file cannot be read on, or has another length than was offered.
SendError(t, readError) ==
    /\ out[t].pc = "send"
    /\ \/ readError
       \/ out[t].offset = out[t].length /\ out[t].offset # Size[t]
    /\ chan' = Posted("sender", Msg("FileError", t))
    /\ Ended(t, "failed")
    /\ UNCHANGED <<conn, down, at, cancel, signals, recvVars>>

SendDone(t) ==
    /\ out[t].pc = "send"
    /\ out[t].offset = out[t].length /\ out[t].offset = Size[t]
    /\ chan' = Posted("sender", Msg("FileDone", t))
    /\ Ended(t, "sent")
    /\ UNCHANGED <<conn, down, at, cancel, signals, recvVars>>

\* cancel_transfer on the sender: its user can reach it once the transfer has
\* shown progress.
CancelSending(t) ==
    /\ t \in Outgoing \ cancel /\ out[t].offset > 0
    /\ cancel' = cancel \cup {t}
    /\ chan' = Posted("sender", Msg("FileCancel", t))
    /\ UNCHANGED <<conn, down, at, out, signals, result, recvVars>>

-----------------------------------------------------------------------------
(* on_message *)

Takes(e, kinds) ==
    /\ at[e].pc = "loop"
    /\ chan[e] # <<>>
    /\ Head(chan[e]).kind \in kinds

Rest(e) == [chan EXCEPT ![e] = Tail(@)]

Subject(e) == Head(chan[e]).transfer

Signal(kind) ==
    CASE kind = "FileAccept" -> "accept"
      [] kind = "FileReject" -> "reject"
      [] OTHER -> "cancel"

\* signal_outgoing, if the transfer is still there.
OnAnswer(e) ==
    LET t == Subject(e) IN
    /\ e[2] = "sender"
    /\ Takes(e, {"FileAccept", "FileReject", "FileCancel", "FileError"})
    /\ chan' = Rest(e)
    /\ signals' = IF t \in Outgoing THEN [signals EXCEPT ![t] = Append(@, Signal(Head(chan[e]).kind))]
                  ELSE signals
    /\ UNCHANGED <<conn, down, at, out, cancel, result, recvVars>>

Aborted_EveryTime(S) ==
    /\ incoming' = [t \in Transfer |-> IF t \in S THEN None ELSE incoming[t]]
    /\ part' = part \ S
    /\ verdict' = [t \in Transfer |-> IF t \in S THEN "failed" ELSE verdict[t]]

\* abort_incoming for each transfer of S that is still there: the thread that
\* takes it out of the table owns it and removes its file.
Aborted(S) ==
    /\ incoming' = [t \in Transfer |-> IF t \in S THEN None ELSE incoming[t]]
    /\ part' = part \ S
    /\ verdict' = [t \in Transfer |-> IF t \in S \cap Receiving THEN "failed" ELSE verdict[t]]

HasRoom(t) == incoming[t] = None /\ Cardinality(Receiving) < MAX_INCOMING_TRANSFERS

\* on_offer.  Input: whether the sender is set to auto-accept.
OnFileOffer(e, auto) ==
    LET t == Subject(e)
        refused == (MaxFileSize > 0 /\ Size[t] > MaxFileSize) \/ ~HasRoom(t)
    IN
    /\ e[2] = "receiver"
    /\ Takes(e, {"FileOffer"})
    /\ chan' = Rest(e)
    /\ IF refused THEN Goto(e, "tellReject", t) /\ UNCHANGED <<incoming, offers>>
       ELSE /\ incoming' = [incoming EXCEPT ![t] = [accepted |-> FALSE, received |-> 0, intact |-> TRUE]]
            /\ IF auto THEN Goto(e, "accept", t) /\ UNCHANGED offers
               ELSE offers' = Append(offers, t) /\ UNCHANGED at
    /\ UNCHANGED <<conn, down, sendVars, part, verdict>>

Fits_AnyOffset(t, c) == incoming[t].accepted /\ incoming[t].received + c.length <= Size[t]

Fits_NoBound(t, c) == incoming[t].accepted /\ c.offset = incoming[t].received

\* The checks of write_chunk.
Fits(t, c) ==
    /\ incoming[t].accepted
    /\ c.offset = incoming[t].received
    /\ incoming[t].received + c.length <= Size[t]

\* on_chunk.  Input: whether the disk takes the data.
OnFileChunk(e, written) ==
    LET c == Head(chan[e])
        t == c.transfer
        received == incoming[t].received + c.length
    IN
    /\ e[2] = "receiver"
    /\ Takes(e, {"FileChunk"})
    /\ chan' = Rest(e)
    /\ \/ /\ incoming[t] = None
          /\ UNCHANGED <<at, incoming>>
       \/ /\ incoming[t] # None
          /\ ~(Fits(t, c) /\ written)
          /\ Goto(e, "tellError", t)
          /\ UNCHANGED incoming
       \/ /\ incoming[t] # None
          /\ Fits(t, c) /\ written
          /\ incoming' = [incoming EXCEPT ![t].received = received,
                             ![t].intact = @ /\ c.intact /\ c.offset = incoming[t].received]
          /\ IF received = Size[t] THEN Goto(e, "verify", t) ELSE UNCHANGED at
    /\ UNCHANGED <<conn, down, sendVars, part, offers, verdict>>

OnFileCancel(e) ==
    /\ e[2] = "receiver"
    /\ Takes(e, {"FileCancel", "FileError"})
    /\ chan' = Rest(e)
    /\ Aborted({Subject(e)})
    /\ UNCHANGED <<conn, down, at, sendVars, offers>>

\* The sender leaves the hash of FILE_DONE empty and Message::decode refuses
\* such a message: recv fails.
OnFileDone(e) ==
    /\ e[2] = "receiver"
    /\ Takes(e, {"FileDone"})
    /\ chan' = Rest(e)
    /\ Leave(e)
    /\ UNCHANGED <<conn, sendVars, recvVars>>

FailTransfers_SenderOnly(e) ==
    /\ at[e].pc = "failTransfers"
    /\ IF e[2] = "receiver"
       THEN UNCHANGED <<incoming, part, verdict, cancel>>
       ELSE cancel' = cancel \cup Outgoing /\ UNCHANGED <<incoming, part, verdict>>
    /\ Goto(e, "done", None)
    /\ UNCHANGED <<netVars, out, signals, result, offers>>

\* fail_transfers_for, after the connection has left the table.
FailTransfers(e) ==
    /\ at[e].pc = "failTransfers"
    /\ IF e[2] = "receiver"
       THEN Aborted(Receiving) /\ UNCHANGED cancel
       ELSE cancel' = cancel \cup Outgoing /\ UNCHANGED <<incoming, part, verdict>>
    /\ Goto(e, "done", None)
    /\ UNCHANGED <<netVars, out, signals, result, offers>>

-----------------------------------------------------------------------------
(* respond_offer, by the GUI thread or (auto-accept) a connection thread, and *)
(* the rest of on_chunk and cancel_transfer                                   *)

\* The user answers the first prompt; the transfer may be gone.
AnswerOffer(yes) ==
    /\ at[GUI].pc = "idle"
    /\ offers # <<>>
    /\ offers' = Tail(offers)
    /\ IF incoming[Head(offers)] = None THEN UNCHANGED at
       ELSE Goto(GUI, IF yes THEN "accept" ELSE "refuse", Head(offers))
    /\ UNCHANGED <<netVars, sendVars, incoming, part, verdict>>

AcceptOffer_NoLookup(a, created) ==
    LET t == at[a].transfer IN
    /\ at[a].pc = "accept"
    /\ part' = IF created THEN part \cup {t} ELSE part
    /\ IF incoming[t] # None /\ created
       THEN incoming' = [incoming EXCEPT ![t].accepted = TRUE] /\ Goto(a, "tellAccept", t)
       ELSE UNCHANGED incoming /\ Goto(a, "refuse", t)
    /\ UNCHANGED <<netVars, sendVars, offers, verdict>>

\* Under the lock of `incoming': look it up once more and open the .part file.
AcceptOffer(a, created) ==
    LET t == at[a].transfer IN
    /\ at[a].pc = "accept"
    /\ IF incoming[t] # None /\ created
       THEN /\ incoming' = [incoming EXCEPT ![t].accepted = TRUE]
            /\ part' = part \cup {t}
            /\ Goto(a, "tellAccept", t)
       ELSE UNCHANGED <<incoming, part>> /\ Goto(a, "refuse", t)
    /\ UNCHANGED <<netVars, sendVars, offers, verdict>>

\* FileAccept, FileReject, or the FileError that goes before an abort.
Tell(a, pc, kind, next) ==
    LET t == at[a].transfer IN
    /\ at[a].pc = pc
    /\ chan' = Posted("receiver", Msg(kind, t))
    /\ IF next = "home" THEN Home(a) ELSE Goto(a, next, t)
    /\ UNCHANGED <<conn, down, sendVars, recvVars>>

Abort(a) ==
    /\ at[a].pc \in {"refuse", "abort"}
    /\ Aborted({at[a].transfer})
    /\ IF at[a].pc = "refuse" THEN Goto(a, "tellReject", at[a].transfer) ELSE Home(a)
    /\ UNCHANGED <<netVars, sendVars, offers>>

Finishes_NoHash(t) == incoming[t].received = Size[t]

\* The checks of finish: the length and the hash of the offer.
Finishes(t) == incoming[t].received = Size[t] /\ incoming[t].intact

\* All data is there: take the transfer out of `incoming' and finish it, if
\* nobody else has.  Input: whether flushing and renaming work.
Verify(e, published) ==
    LET t == at[e].transfer
        saved == published /\ Finishes(t)
    IN
    /\ at[e].pc = "verify"
    /\ Home(e)
    /\ IF incoming[t] = None THEN UNCHANGED <<incoming, part, verdict, chan>>
       ELSE /\ incoming' = [incoming EXCEPT ![t] = None]
            /\ part' = part \ {t}
            /\ verdict' = [verdict EXCEPT ![t] = IF saved THEN "saved" ELSE "failed"]
            /\ chan' = IF saved THEN chan ELSE Posted("receiver", Msg("FileError", t))
    /\ UNCHANGED <<conn, down, sendVars, offers>>

\* cancel_transfer on the receiver, for a transfer shown as running.
CancelReceiving(t) ==
    /\ at[GUI].pc = "idle"
    /\ incoming[t] # None /\ incoming[t].accepted
    /\ chan' = Posted("receiver", Msg("FileCancel", t))
    /\ Goto(GUI, "abort", t)
    /\ UNCHANGED <<conn, down, sendVars, recvVars>>

-----------------------------------------------------------------------------
\* What the file may have become when it is opened: shorter, the same, longer.
Lengths(t) == {n \in 0..Size[t] + 1 : n + 1 >= Size[t]}

\* Steps of the thread that sends t, once it runs.
SenderThread(t) ==
    \/ \E ok \in BOOLEAN : SendOffer(t, ok) \/ SendChunk(t, ok)
    \/ \E readable, intact \in BOOLEAN, n \in Lengths(t) : Answered(t, readable, n, intact)
    \/ OfferTimeout(t) \/ CheckCancel(t) \/ SendDone(t)
    \/ \E readError \in BOOLEAN : SendError(t, readError)

OnMessage(e) ==
    \/ OnAnswer(e) \/ OnFileCancel(e) \/ OnFileDone(e)
    \/ \E auto \in BOOLEAN : OnFileOffer(e, auto)
    \/ \E written \in BOOLEAN : OnFileChunk(e, written)

\* respond_offer and the aborts, on whichever thread runs them.
Respond(a) ==
    \/ \E created \in BOOLEAN : AcceptOffer(a, created)
    \/ Abort(a)
    \/ Tell(a, "tellAccept", "FileAccept", "home")
    \/ Tell(a, "tellReject", "FileReject", "home")
    \/ Tell(a, "tellError", "FileError", "abort")

ConnectionThread(e) ==
    \/ OnMessage(e) \/ Respond(e) \/ RecvError(e) \/ RemoveConn(e) \/ FailTransfers(e)
    \/ \E published \in BOOLEAN : Verify(e, published)

User ==
    \/ \E yes \in BOOLEAN : AnswerOffer(yes)
    \/ \E t \in Transfer : StartSend(t) \/ CancelSending(t) \/ CancelReceiving(t)

Next ==
    \/ \E s \in Session : Connect(s) \/ Cut(s)
    \/ \E t \in Transfer : SenderThread(t)
    \/ \E e \in End : ConnectionThread(e)
    \/ Respond(GUI) \/ User \/ Restart

Spec == Init /\ [][Next]_vars

\* Threads keep running, and waiting for an answer has a timeout; users and the
\* network promise nothing.
Fairness ==
    /\ \A t \in Transfer : WF_vars(SenderThread(t))
    /\ \A e \in End : WF_vars(ConnectionThread(e))
    /\ WF_vars(Respond(GUI))

FairSpec == Spec /\ Fairness

-----------------------------------------------------------------------------
(* Properties *)

\* Types; a transfer never takes more than was offered.
TypeOK ==
    /\ conn \in [Side -> Session \cup {None}]
    /\ at \in [Actor -> [pc : {"idle", "off", "remove", "failTransfers", "done"} \cup Serving,
                         transfer : Transfer \cup {None}]]
    /\ chan \in [End -> Seq(Message)]
    /\ down \in [End -> BOOLEAN]
    /\ out \in [Transfer -> [pc : {"idle", "offer", "wait", "loop", "send", "ended"},
                             offset : Nat, length : Nat, intact : BOOLEAN]]
    /\ cancel \subseteq Transfer
    /\ signals \in [Transfer -> Seq({"accept", "reject", "cancel"})]
    /\ DOMAIN incoming = Transfer /\ \A t \in Transfer : incoming[t] \in Incoming(t) \cup {None}
    /\ part \subseteq Transfer
    /\ offers \in Seq(Transfer)
    /\ result \in [Transfer -> {"none", "sent", "failed"}]
    /\ verdict \in [Transfer -> {"none", "saved", "failed", "lost"}]

\* Nothing touches the disk before the user (or auto-accept) said yes, and no
\* ending of a transfer - refusal, cancel, lost connection, damage, whichever
\* thread gets to it first - leaves its quarantine file behind.  Only the end of
\* the process does, and then for good.
PartFilesTracked ==
    \A t \in part : verdict[t] = "lost" \/ (incoming[t] # None /\ incoming[t].accepted)

\* Chunks lost with one connection and chunks sent on the next never end up in
\* one file: what has been written is a prefix of what is being sent.
WrittenInOrder ==
    \A t \in Receiving :
        /\ incoming[t].received <= out[t].offset
        /\ out[t].intact => incoming[t].intact

\* Only the whole file, with the data that was hashed for the offer, is published.
\* (The sender may be further by then: a file that has grown is read on.)
SavedIsWhole ==
    \A t \in Transfer :
        verdict[t] = "saved" => out[t].offset >= Size[t] /\ out[t].intact

\* The receiver implements Receipt: a file is saved only after it was accepted,
\* and the connection threads and the GUI thread, which may all end a transfer,
\* give exactly one verdict on it.
receiptStatus ==
    [t \in Transfer |->
        IF verdict[t] # "none" THEN verdict[t]
        ELSE IF incoming[t] = None THEN "none"
        ELSE IF incoming[t].accepted THEN "accepted" ELSE "offered"]

Receipts == INSTANCE Receipt WITH status <- receiptStatus
ImplementsReceipt == Receipts!Spec

\* The thread of a file always ends, whatever the receiver, the network and
\* both users do: nothing stays in `outgoing'.
SendingEnds ==
    \A t \in Transfer : out[t].pc \notin {"idle", "ended"} ~> out[t].pc = "ended"

\* A transfer whose connection is gone does not stay in `incoming' (and does
\* not keep its slot and its quarantine file).
LostConnectionClears ==
    \A t \in Transfer :
        incoming[t] # None /\ conn["receiver"] = None ~> incoming[t] = None

-----------------------------------------------------------------------------
(* What the documents and comments say and the code does not do *)

\* FILE_DONE "only cleans up a transfer that never completed": no message of
\* a transfer ends the connection.
DoneKeepsConnection ==
    [][\A e \in End :
         at[e].pc = "loop" /\ at'[e].pc = "remove" => down[e] \/ down[Other(e)]]_vars
=============================================================================
