------------------------------ MODULE Receipt ------------------------------
(***************************************************************************)
(* What a receiver promises about the files it is offered: a file is saved *)
(* only after it was offered and accepted, and every transfer gets at most *)
(* one verdict, which is final.  The transfers of a receiver that dies are *)
(* lost, all at once and without a verdict.                                *)
(***************************************************************************)
CONSTANT Transfer

VARIABLE status

Status == {"none", "offered", "accepted", "saved", "failed", "lost"}

TypeOK == status \in [Transfer -> Status]

Init == status = [t \in Transfer |-> "none"]

Offer(t) ==
    /\ status[t] = "none"
    /\ status' = [status EXCEPT ![t] = "offered"]

Accept(t) ==
    /\ status[t] = "offered"
    /\ status' = [status EXCEPT ![t] = "accepted"]

Save(t) ==
    /\ status[t] = "accepted"
    /\ status' = [status EXCEPT ![t] = "saved"]

Open(t) == status[t] \in {"offered", "accepted"}

\* Refused, cancelled, damaged, or all the transfers of a lost connection.
Fail(S) ==
    /\ \A t \in S : Open(t)
    /\ status' = [t \in Transfer |-> IF t \in S THEN "failed" ELSE status[t]]

\* The process dies.
Lose ==
    status' = [t \in Transfer |-> IF Open(t) THEN "lost" ELSE status[t]]

Next ==
    \/ Lose
    \/ \E t \in Transfer : Offer(t) \/ Accept(t) \/ Save(t)
    \/ \E S \in SUBSET Transfer : Fail(S)

Spec == Init /\ [][Next]_status
=============================================================================
