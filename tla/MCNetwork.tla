----------------------------- MODULE MCNetwork -----------------------------
(* Instances of Network for TLC. *)
EXTENDS Network, TLC

Symmetry == Permutations(Device) \cup Permutations(Addr) \cup Permutations(Thread)
=============================================================================
