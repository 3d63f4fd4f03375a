--------------------------- MODULE MessageStream ---------------------------
(***************************************************************************)
(* What the layers above a secure channel rely on: each end handles the    *)
(* messages the other end encrypted, every one at most once, in their      *)
(* order and without a gap, and nothing once it has given the channel up.  *)
(***************************************************************************)
EXTENDS Naturals, Sequences

CONSTANTS End, Other(_), Message

VARIABLES
    stream,   \* end -> the messages it encrypted
    handled,  \* end -> the messages it took from the other end
    over      \* end -> it reads no more

Init ==
    /\ stream = [e \in End |-> <<>>]
    /\ handled = [e \in End |-> <<>>]
    /\ over = [e \in End |-> FALSE]

Send(e) ==
    /\ \E m \in Message : stream' = [stream EXCEPT ![e] = Append(@, m)]
    /\ UNCHANGED <<handled, over>>

Handle(e) ==
    /\ ~over[e]
    /\ Len(handled[e]) < Len(stream[Other(e)])
    /\ handled' = [handled EXCEPT ![e] = Append(@, stream[Other(e)][Len(@) + 1])]
    /\ UNCHANGED <<stream, over>>

GiveUp(e) ==
    /\ over' = [over EXCEPT ![e] = TRUE]
    /\ UNCHANGED <<stream, handled>>

Next == \E e \in End : Send(e) \/ Handle(e) \/ GiveUp(e)

Spec == Init /\ [][Next]_<<stream, handled, over>>
=============================================================================
