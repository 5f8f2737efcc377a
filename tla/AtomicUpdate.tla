---------------------------- MODULE AtomicUpdate ----------------------------
(***************************************************************************)
(* What the operation journal promises, without files, staging or crashes: *)
(* the instance holds one value for every artifact; an operation replaces  *)
(* the whole value in one step or not at all; and whenever the file tree   *)
(* may be relied upon it shows exactly that value.                         *)
(*                                                                         *)
(* "view" is the set of file trees a reader may rely on: empty while an    *)
(* operation is under way or waiting for recovery, a singleton otherwise.  *)
(***************************************************************************)
CONSTANTS Keys, File

VARIABLES value, view

vars == <<value, view>>

Init ==
    /\ value \in [Keys -> File]
    /\ view = {value}

\* An operation starts: nobody may rely on the tree until it is settled.
Begin ==
    /\ view' = {}
    /\ UNCHANGED value

\* The operation takes effect, on every artifact at once.
Commit ==
    /\ view = {}
    /\ value' \in [Keys -> File]
    /\ UNCHANGED view

\* The tree is whole again: it shows the value, old or new.
Settle ==
    /\ view = {}
    /\ view' = {value}
    /\ UNCHANGED value

Next == Begin \/ Commit \/ Settle

Spec == Init /\ [][Next]_vars
=============================================================================
