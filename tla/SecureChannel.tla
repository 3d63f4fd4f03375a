--------------------------- MODULE SecureChannel ---------------------------
(***************************************************************************)
(* The secure channel of net/session.rs between two authorised devices,    *)
(* with the threads that use it (engine/mod.rs): at each end the           *)
(* connection thread, which receives and answers, threads that send, and   *)
(* the GUI thread that disconnects.                                        *)
(*                                                                         *)
(* A send holds the mutexes `noise' (the cipher states of both directions) *)
(* and `writer' (the socket) until its frame is written; recv needs the    *)
(* first, close the second, and disconnect keeps the connection table      *)
(* `conns' locked while it closes.  The socket of a direction holds        *)
(* Capacity frames; a write that finds no room for IO_TIMEOUT fails and    *)
(* leaves the part of the frame that fitted.  The nonce is not sent: a     *)
(* frame opens only with the number the receiver has counted to.           *)
(*                                                                         *)
(* Keys, tags and the byte layout are abstracted: a frame is its message,  *)
(* its nonce, and whether all its bytes were written.                      *)
(***************************************************************************)
EXTENDS Naturals, Sequences

CONSTANTS
    End,             \* the two ends of the connection
    Worker,          \* at each end, the threads that send: GUI, files, housekeeping
    None,
    Capacity,        \* frames the socket buffers of a direction hold
    MAX_TEXT_CHARS,  \* proto.rs
    Script,          \* end -> what its workers send, in the order they start; answers apart
    Closers          \* bound: the ends whose user disconnects, each once

ASSUME ConstantsAssumption ==
    /\ \E e, f \in End : e # f /\ End = {e, f}
    /\ {Capacity, MAX_TEXT_CHARS} \subseteq Nat \ {0}
    /\ Closers \subseteq End
    /\ \A e \in End : \A i \in DOMAIN Script[e] :
          Script[e][i].kind \in {"text", "chunk"} /\ Script[e][i].typed \in Nat
    /\ None \notin Worker \cup {"reader", "closer"}

Other(e) == CHOOSE f \in End : f # e

\* `closer' is the GUI thread in Engine::disconnect.
Thread == Worker \cup {"reader", "closer"}

\* A text (or a ping) is answered, a chunk and an answer are not; `typed' is the
\* length the user typed, `id' tells messages of a kind apart.
Sent(e) == {[kind |-> Script[e][i].kind, typed |-> Script[e][i].typed, id |-> i] :
                i \in DOMAIN Script[e]}
Ack(m)  == [kind |-> "ack", typed |-> 0, id |-> m.id]
Message == LET M == UNION {Sent(e) : e \in End} IN M \cup {Ack(m) : m \in M}

VARIABLES
    pc,       \* end -> thread -> where it is
    frame,    \* end -> thread -> the frame it writes or has read
    noise,    \* end -> the thread that holds the Noise mutex, and `writer' with it
    conns,    \* end -> the thread that holds the connection table over a close
    wire,     \* end -> frames on their way to it
    closed,   \* end -> the flag `closed'
    shut,     \* end -> its socket is shut down
    stream,   \* history: end -> messages it encrypted; their count is its sending nonce
    handled,  \* history: end -> messages it decoded; their count is its receiving nonce
    ended,    \* history: end -> why recv failed
    lost,     \* history: end -> a send of its failed after its nonce was used
    started,  \* end -> messages of its script a worker has taken up
    closes    \* ends whose user has disconnected

used    == <<started, closes>>
socket  == <<wire, shut>>
history == <<ended, lost>>
vars    == <<pc, frame, noise, conns, socket, closed, stream, handled, history, used>>

Sending == {"encrypt", "write"}
Reading == {"recv", "decrypt", "handle"}
PC      == {"idle", "shutdown", "remove", "gone"} \cup Sending \cup Reading

At(e, t, from, to) == pc[e][t] = from /\ pc' = [pc EXCEPT ![e][t] = to]

Free(e) == conns[e] = None

\* conns.get(&device): the entry is there until the connection thread removes it.
Registered(e) == pc[e]["reader"] # "gone"

-----------------------------------------------------------------------------
Init ==
    /\ pc = [e \in End |-> [t \in Thread |-> IF t = "reader" THEN "recv" ELSE "idle"]]
    /\ frame = [e \in End |-> [t \in Thread |-> None]]
    /\ noise = [e \in End |-> None]
    /\ conns = [e \in End |-> None]
    /\ wire = [e \in End |-> <<>>]
    /\ closed = [e \in End |-> FALSE]
    /\ shut = [e \in End |-> FALSE]
    /\ stream = [e \in End |-> <<>>]
    /\ handled = [e \in End |-> <<>>]
    /\ ended = [e \in End |-> "no"]
    /\ lost = [e \in End |-> FALSE]
    /\ started = [e \in End |-> 0] /\ closes = {}

-----------------------------------------------------------------------------
(* ChannelSender::send.                                                    *)

\* send_to and send_raw look the sender up; send returns at once when closed.
StartSend(e, t, m) ==
    /\ Free(e) /\ Registered(e)
    /\ ~closed[e]
    /\ frame' = [frame EXCEPT ![e][t] = [msg |-> m, nonce |-> 0, whole |-> TRUE]]
    /\ UNCHANGED <<noise, conns, socket, closed, stream, handled, history>>

Start(e, t) ==
    /\ At(e, t, "idle", "encrypt")
    /\ \E m \in Sent(e) : m.id = started[e] + 1 /\ StartSend(e, t, m)
    /\ started' = [started EXCEPT ![e] = @ + 1]
    /\ UNCHANGED closes

Encrypt_Unlocked(e, t) ==
    /\ At(e, t, "encrypt", "write")
    /\ frame' = [frame EXCEPT ![e][t].nonce = Len(stream[e])]
    /\ stream' = [stream EXCEPT ![e] = Append(@, frame[e][t].msg)]
    /\ UNCHANGED <<noise, conns, socket, closed, handled, history, used>>

\* noise.lock, write_message, which gives the frame the next nonce, writer.lock.
Encrypt(e, t) ==
    /\ noise[e] = None
    /\ At(e, t, "encrypt", "write")
    /\ noise' = [noise EXCEPT ![e] = t]
    /\ frame' = [frame EXCEPT ![e][t].nonce = Len(stream[e])]
    /\ stream' = [stream EXCEPT ![e] = Append(@, frame[e][t].msg)]
    /\ UNCHANGED <<conns, socket, closed, handled, history, used>>

\* send returns: both guards are dropped.
Returns(e, t) ==
    /\ At(e, t, "write", IF t = "reader" THEN "recv" ELSE "idle")
    /\ frame' = [frame EXCEPT ![e][t] = None]
    /\ noise' = [noise EXCEPT ![e] = None]
    /\ UNCHANGED <<conns, closed, shut, stream, handled, ended, used>>

Full(e) == Len(wire[Other(e)]) >= Capacity

Write(e, t) ==
    /\ Returns(e, t)
    /\ ~shut[e] /\ ~Full(e)
    /\ wire' = [wire EXCEPT ![Other(e)] = Append(@, frame[e][t])]
    /\ UNCHANGED lost

Fails_Untimed(e) == shut[e] \/ shut[Other(e)]

\* The socket is shut down, or there is no room within IO_TIMEOUT.
Fails(e) == shut[e] \/ shut[Other(e)] \/ Full(e)

\* Nothing or a part of the frame was written; the channel is not closed.
WriteFails(e, t) ==
    /\ Returns(e, t)
    /\ Fails(e)
    /\ \/ UNCHANGED wire
       \/ /\ ~shut[e] /\ ~shut[Other(e)]
          /\ wire' = [wire EXCEPT ![Other(e)] =
                          Append(@, [frame[e][t] EXCEPT !.whole = FALSE])]
    /\ lost' = [lost EXCEPT ![e] = TRUE]

-----------------------------------------------------------------------------
(* The connection thread: ChannelReader::recv, on_message, and the end.    *)

\* A part of a frame is completed by the bytes of the frame behind it.
HasFrame(e) == wire[e] # <<>> /\ (Head(wire[e]).whole \/ Len(wire[e]) > 1)

\* read_exact of the length and the ciphertext.
Receive(e) ==
    /\ HasFrame(e)
    /\ At(e, "reader", "recv", "decrypt")
    /\ frame' = [frame EXCEPT ![e]["reader"] = Head(wire[e])]
    /\ wire' = [wire EXCEPT ![e] = Tail(@)]
    /\ UNCHANGED <<noise, conns, shut, closed, stream, handled, history, used>>

Opens_AnyNonce(e, f) == f.whole /\ f.nonce >= Len(handled[e])

Opens(e, f) == f.whole /\ f.nonce = Len(handled[e])

\* clamp_str of send_text: the cut text gets an ellipsis on top.
Clamped(n) == IF n <= MAX_TEXT_CHARS THEN n ELSE MAX_TEXT_CHARS + 1

Decodes_BelowLimit(m) == Clamped(m.typed) < MAX_TEXT_CHARS

\* Message::decode.
Decodes(m) == Clamped(m.typed) <= MAX_TEXT_CHARS

\* The loop ends: sender.close() sets the flag, then waits for the writer.
RecvFails(e, why) ==
    /\ pc' = [pc EXCEPT ![e]["reader"] = "shutdown"]
    /\ frame' = [frame EXCEPT ![e]["reader"] = None]
    /\ closed' = [closed EXCEPT ![e] = TRUE]
    /\ ended' = [ended EXCEPT ![e] = why]
    /\ UNCHANGED <<noise, conns, shut, stream, handled, lost, used>>

\* noise.lock, read_message, unlock, decode.
Decrypt(e) ==
    LET f == frame[e]["reader"] IN
    /\ pc[e]["reader"] = "decrypt"
    /\ noise[e] = None
    /\ UNCHANGED wire
    /\ \/ /\ Opens(e, f) /\ Decodes(f.msg)
          /\ pc' = [pc EXCEPT ![e]["reader"] = "handle"]
          /\ handled' = [handled EXCEPT ![e] = Append(@, f.msg)]
          /\ UNCHANGED <<frame, noise, conns, shut, closed, stream, history, used>>
       \/ Opens(e, f) /\ ~Decodes(f.msg) /\ RecvFails(e, "decode")
       \/ ~Opens(e, f) /\ RecvFails(e, "decrypt")

\* on_message looks at the connection table; a text is answered with TEXT_ACK.
OnMessage(e) ==
    LET m == frame[e]["reader"].msg IN
    /\ pc[e]["reader"] = "handle"
    /\ \/ /\ m.kind = "text"
          /\ At(e, "reader", "handle", "encrypt")
          /\ StartSend(e, "reader", Ack(m))
       \/ /\ m.kind # "text" \/ closed[e]
          /\ Free(e)
          /\ At(e, "reader", "handle", "recv")
          /\ frame' = [frame EXCEPT ![e]["reader"] = None]
          /\ UNCHANGED <<noise, conns, socket, closed, stream, handled, history>>
    /\ UNCHANGED used

EndOfStream_LocalOnly(e) == shut[e]

\* After a shutdown here, what has arrived may still be read or not.
EndOfStream(e) == shut[e] \/ (shut[Other(e)] /\ ~HasFrame(e))

RecvEnds(e) ==
    /\ pc[e]["reader"] = "recv"
    /\ EndOfStream(e)
    /\ RecvFails(e, "eof") /\ UNCHANGED wire

\* The peer sent nothing for IO_TIMEOUT: its keepalives stop only with its writes.
RecvTimeout(e) ==
    /\ pc[e]["reader"] = "recv"
    /\ ~HasFrame(e)
    /\ lost[Other(e)]
    /\ RecvFails(e, "timeout") /\ UNCHANGED wire

\* The rest of ChannelSender::close.
Shutdown(e, t) ==
    /\ noise[e] = None
    /\ At(e, t, "shutdown", IF t = "reader" THEN "remove" ELSE "idle")
    /\ shut' = [shut EXCEPT ![e] = TRUE]
    /\ conns' = [conns EXCEPT ![e] = IF @ = t THEN None ELSE @]
    /\ UNCHANGED <<frame, noise, wire, closed, stream, handled, history, used>>

Remove(e) ==
    /\ Free(e)
    /\ At(e, "reader", "remove", "gone")
    /\ UNCHANGED <<frame, noise, conns, socket, closed, stream, handled, history, used>>

-----------------------------------------------------------------------------
\* Engine::disconnect: close, with the connection table locked.
Disconnect(e) ==
    /\ e \in Closers /\ e \notin closes
    /\ Free(e) /\ Registered(e)
    /\ At(e, "closer", "idle", "shutdown")
    /\ conns' = [conns EXCEPT ![e] = "closer"]
    /\ closed' = [closed EXCEPT ![e] = TRUE]
    /\ closes' = closes \cup {e}
    /\ UNCHANGED <<started, frame, noise, socket, stream, handled, history>>

Receiver(e) ==
    Receive(e) \/ Decrypt(e) \/ OnMessage(e) \/ RecvEnds(e) \/ Remove(e)

Step(e, t) ==
    \/ Encrypt(e, t) \/ Write(e, t) \/ WriteFails(e, t) \/ Shutdown(e, t)
    \/ t = "reader" /\ Receiver(e)

User(e) == Disconnect(e) \/ \E t \in Worker : Start(e, t)

Next ==
    \E e \in End : User(e) \/ RecvTimeout(e) \/ \E t \in Thread : Step(e, t)

Spec == Init /\ [][Next]_vars

\* The scheduler runs every thread; SO_SNDTIMEO ends every write.
Fairness == \A e \in End, t \in Thread : WF_vars(Step(e, t))

FairSpec == Spec /\ Fairness

-----------------------------------------------------------------------------
\* Types; whoever writes a frame holds the mutexes.
TypeOK ==
    /\ pc \in [End -> [Thread -> PC]]
    /\ \A e \in End, t \in Thread :
          frame[e][t] # None => frame[e][t].msg \in Message /\ frame[e][t].whole \in BOOLEAN
    /\ \A lock \in {noise, conns} : lock \in [End -> Thread \cup {None}]
    /\ \A e \in End, t \in Thread : pc[e][t] = "write" => noise[e] = t
    /\ \A e \in End : \A i \in DOMAIN wire[e] : wire[e][i].msg \in Message
    /\ closed \in [End -> BOOLEAN] /\ shut \in [End -> BOOLEAN]

\* The channel is the stream the engine takes it for: the messages an end
\* handles are those the other end encrypted, in their order, with no gap and
\* no repetition, however its threads interleave and whatever write fails.
readerOver == [e \in End |-> ended[e] # "no"]

Channel == INSTANCE MessageStream WITH over <- readerOver
ImplementsStream == Channel!Spec

\* Nonces and bytes stay in step: a frame fails to open only at the end whose
\* peer had a write fail (session.rs: `ciphertexts cannot be reordered relative
\* to nonces').
UnopenedOnlyAfterLostWrite ==
    \A e \in End : ended[e] = "decrypt" => lost[Other(e)]

\* A text that fits the limit never costs the connection; a longer one does,
\* because clamp_str leaves one character too many.
FittingTextDecodes ==
    \A e \in End : ended[e] = "decode" =>
        \E i \in DOMAIN stream[Other(e)] : stream[Other(e)][i].typed > MAX_TEXT_CHARS

\* send always returns, also when the peer has stopped reading.
SendReturns ==
    \A e \in End, t \in Thread : pc[e][t] \in Sending ~> pc[e][t] \notin Sending

\* disconnect gives the connection table back, though it waits for the writer.
TableReleased == \A e \in End : conns[e] # None ~> conns[e] = None

\* An end that closes takes both connection threads with it.
BothEndsLeave ==
    \A e \in End : closed[e] ~> \A f \in End : pc[f]["reader"] = "gone"

\* session.rs: `Lock order is always noise -> writer, so two senders can never
\* deadlock'.  A sender at each end, each in a write only the other end's reader
\* can make room for, which waits for the Noise mutex that sender holds.
Stalled(e) ==
    /\ pc[e]["reader"] = "decrypt"
    /\ noise[e] # None /\ pc[e][noise[e]] = "write" /\ Full(e)

TwoSendersNeverDeadlock == ~\A e \in End : Stalled(e) /\ ~lost[e]
=============================================================================
