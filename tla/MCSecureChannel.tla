-------------------------- MODULE MCSecureChannel --------------------------
(* Instances of SecureChannel for TLC. *)
EXTENDS SecureChannel, TLC

CONSTANTS a, b

text(n) == [kind |-> "text", typed |-> n]
chunk   == [kind |-> "chunk", typed |-> 0]

\* Texts and chunks in both directions, one text too long; chunks only.
Mixed  == (a :> <<text(1), chunk>>) @@ (b :> <<text(1), text(2)>>)
Files  == [e \in End |-> <<chunk, chunk, chunk>>]
=============================================================================
