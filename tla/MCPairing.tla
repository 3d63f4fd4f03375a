----------------------------- MODULE MCPairing -----------------------------
(* Instances of Pairing for TLC. *)
EXTENDS Pairing, TLC

Symmetry == Permutations(Device) \cup Permutations(Session)

\* First contact; devices that know each other.
Strangers == {}
Acquainted == {p \in Device \X Device : p[1] # p[2]}

Limit(dial, accept, reject, text, admin, cut, restart, timeout) ==
    [dial |-> dial, accept |-> accept, reject |-> reject, text |-> text,
     admin |-> admin, cut |-> cut, restart |-> restart,
     timeout |-> timeout]

\* Two connections, or one and what may happen to it.
FirstContact ==
    {Limit(2, 2, 0, 0, 0, 0, 0, 1), Limit(2, 1, 1, 0, 0, 0, 0, 0),
     Limit(1, 2, 0, 1, 1, 0, 0, 0), Limit(1, 2, 0, 0, 2, 0, 0, 1),
     Limit(1, 2, 0, 1, 0, 1, 1, 0), Limit(1, 1, 1, 0, 1, 0, 1, 1)}

\* One connection that is answered, and perhaps ended by a request or a timeout
\* (the first timeout of either end ends it).
OneRequest ==
    {Limit(1, 2, 0, 0, 1, 0, 0, 1), Limit(1, 1, 1, 0, 0, 0, 0, 1)}

\* A text and a request between devices that know each other.
TextAndAdmin == {Limit(1, 0, 0, 1, 1, 0, 0, 0)}
=============================================================================
