--------------------------- MODULE MCFileTransfer ---------------------------
(* Instances of FileTransfer for TLC. *)
EXTENDS FileTransfer, TLC

Symmetry == Permutations(Transfer) \cup Permutations(Session)

\* A file of one full and one partial chunk, of one chunk, and an empty one.
TwoChunks == [t \in Transfer |-> 3]
OneChunk  == [t \in Transfer |-> 1]
Empty     == [t \in Transfer |-> 0]
=============================================================================
