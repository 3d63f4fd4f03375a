------------------------------ MODULE Downloads ------------------------------
(***************************************************************************)
(* Publishing received files: IncomingTransfer::finish (engine/transfer.rs)*)
(* and unique_path (util.rs), by connection threads that share one         *)
(* download directory with each other and with every other program.        *)
(*                                                                         *)
(* All transfers here have the same sanitised name; its candidates are     *)
(* `name', `name (1)', ... and, after the last of them, a name with the    *)
(* process id that is not looked up any more.  How the data got into the   *)
(* quarantine file is FileTransfer's subject.                              *)
(***************************************************************************)
EXTENDS Naturals

CONSTANTS
    Transfer,   \* files of one name, received completely
    Thread,     \* the connection threads that finish them
    None,
    Foreign,    \* a file some other program made
    LIMIT       \* util.rs: candidates that are looked up (10 000), at least one

Path == 0..LIMIT

VARIABLES
    dir,    \* path -> the file in the download directory
    part,   \* transfers with a quarantine (.part) file
    at,     \* thread -> where it is in finish, for which transfer and path
    told    \* transfer -> what the user was told

vars == <<dir, part, at, told>>

Idle == [pc |-> "idle", transfer |-> None, path |-> 0]

Init ==
    /\ dir = [p \in Path |-> None]
    /\ part = Transfer
    /\ at = [w \in Thread |-> Idle]
    /\ told = [t \in Transfer |-> "none"]

-----------------------------------------------------------------------------
(* finish *)

Mine(w) == at[w].transfer

Goto(w, pc) == at' = [at EXCEPT ![w].pc = pc]

\* The result is reported.  Input: whether the quarantine file can be removed
\* (nobody looks at the result).
Reports(w, verdict, removed) ==
    /\ told' = [told EXCEPT ![Mine(w)] = verdict]
    /\ part' = IF removed THEN part \ {Mine(w)} ELSE part
    /\ at' = [at EXCEPT ![w] = Idle]

\* on_chunk takes a complete transfer out of `incoming'.
Finish(w, t) ==
    /\ at[w] = Idle
    /\ t \in part /\ told[t] = "none" /\ \A v \in Thread : at[v].transfer # t
    /\ at' = [at EXCEPT ![w] = [pc |-> "check", transfer |-> t, path |-> 0]]
    /\ UNCHANGED <<dir, part, told>>

\* Flush, sync, length, hash, the directory.  Input: whether all of it is good.
Check(w, good, removed) ==
    /\ at[w].pc = "check"
    /\ IF good THEN Goto(w, "look") /\ UNCHANGED <<part, told>>
       ELSE Reports(w, "failed", removed)
    /\ UNCHANGED dir

\* unique_path: one candidate after the other, the last one without looking.
Look(w) ==
    /\ at[w].pc = "look"
    /\ IF at[w].path = LIMIT \/ dir[at[w].path] = None
       THEN Goto(w, "rename")
       ELSE at' = [at EXCEPT ![w].path = @ + 1]
    /\ UNCHANGED <<dir, part, told>>

Written(w, whole) == dir' = [dir EXCEPT ![at[w].path] = [of |-> Mine(w), whole |-> whole]]

\* A rename takes the place of a file that has the name by now; on another
\* volume it fails and the data is copied.
Rename(w, renamed) ==
    /\ at[w].pc = "rename"
    /\ IF renamed THEN Written(w, TRUE) /\ Reports(w, "saved", TRUE)
       ELSE Written(w, FALSE) /\ Goto(w, "copy") /\ UNCHANGED <<part, told>>

\* The copy ends; one that fails leaves what it has written so far.
Copy(w, ok, removed) ==
    /\ at[w].pc = "copy"
    /\ IF ok THEN Written(w, TRUE) /\ Reports(w, "saved", removed)
       ELSE UNCHANGED dir /\ Reports(w, "failed", removed)

-----------------------------------------------------------------------------
(* The world *)

\* Another program makes or removes a file of one of the names.
Make(p) ==
    /\ dir[p] = None
    /\ dir' = [dir EXCEPT ![p] = [of |-> Foreign, whole |-> TRUE]]
    /\ UNCHANGED <<part, at, told>>

Remove(p) ==
    /\ dir[p] # None /\ dir[p].whole
    /\ dir' = [dir EXCEPT ![p] = None]
    /\ UNCHANGED <<part, at, told>>

\* The process ends: quarantine files stay, and so does half a copy.
Stop ==
    /\ \E w \in Thread : at[w] # Idle
    /\ told' = [t \in Transfer |->
                  IF \E w \in Thread : Mine(w) = t THEN "lost" ELSE told[t]]
    /\ at' = [w \in Thread |-> Idle]
    /\ UNCHANGED <<dir, part>>

Next ==
    \/ \E w \in Thread : Look(w)
    \/ \E w \in Thread, t \in Transfer : Finish(w, t)
    \/ \E w \in Thread, yes, removed \in BOOLEAN : Check(w, yes, removed) \/ Copy(w, yes, removed)
    \/ \E w \in Thread, renamed \in BOOLEAN : Rename(w, renamed)
    \/ \E p \in Path : Make(p) \/ Remove(p)
    \/ Stop

Spec == Init /\ [][Next]_vars

-----------------------------------------------------------------------------
(* What the documents, comments and tests say and the code does not do *)

\* "Never overwrites an existing file": a received file that was reported as
\* saved stays as it is until somebody removes it.
NeverOverwrites ==
    [][\A p \in Path :
         dir[p] # None /\ dir[p].of \in Transfer /\ told[dir[p].of] = "saved"
            => dir'[p] \in {dir[p], None}]_vars
=============================================================================
