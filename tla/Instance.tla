------------------------------ MODULE Instance -------------------------------
(***************************************************************************)
(* A data root through its life: `server init` on an empty one, `migrate   *)
(* apply` on a schema 3 one, `server run` and client commands on the       *)
(* result, and accidents and `repair apply` on an established one.         *)
(* The processes share the root and its locks (DataDirectory).             *)
(***************************************************************************)
EXTENDS Initialize, Migration, StateRepair

CONSTANT Legacies   \* what the files of a schema 3 root may say

\* One of them stands for a root without such files.
ASSUME LegaciesAssumption ==
    /\ \A l \in Legacies : LegacyTypeOK(l)
    /\ \E l \in Legacies : Probe(l) = "unknown"

vars == <<directory, initialization, migration, repair>>

EmptyRoot == [d \in Directories |-> "absent"]
V3Root    == [d \in Directories |-> "v3"]
V4Root    == [d \in Directories |-> IF d \in EntrySet THEN "v4" ELSE "absent"]

\* The record of a root without schema 3 files, see Schema3.
NoLegacy == CHOOSE l \in Legacies : Probe(l) = "unknown"

Init ==
    /\ DirectoryInit /\ InitializeInit /\ MigrationInit /\ RepairInit
    /\ \/ live = V3Root /\ legacy \in {l \in Legacies : Probe(l) # "unknown"}
       \/ live \in {EmptyRoot, V4Root} /\ legacy = NoLegacy

\* Accidents and repairs are looked at on an instance that is neither being
\* initialized nor migrated, and apart from client work and the server,
\* which a repair does not read; but `server run` may recover its operation.
Established ==
    /\ legacy = NoLegacy /\ live = V4Root
    /\ marker = "none" /\ outcome = "none" /\ verdict = "none"
    /\ server \in {"stopped", "recovered"} /\ ~work.made
Undamaged   == damage = 0 /\ phase = "idle" /\ result = "none"

\* RecoverOperations of `server run` rolls every pending operation back.
RunRecover ==
    /\ ServerRecover /\ RollBack
    /\ UNCHANGED <<initialization, migration>>
    /\ UNCHANGED <<meta, phase, plan, todo, damage, touched, lost, swapped, result>>

RunLoad ==
    /\ ServerLoad(Matching(<<"server-config", "instance">>))
    /\ UNCHANGED <<initialization, migration, repair>>

Next ==
    \/ RunRecover
    \/ Undamaged /\ RunLoad
    \/ Undamaged /\ DirectoryNext /\ UNCHANGED <<initialization, migration, repair>>
    \/ Undamaged /\ InitializeNext /\ UNCHANGED <<migration, repair>>
    \/ Undamaged /\ MigrationNext /\ UNCHANGED <<initialization, repair>>
    \/ Established /\ RepairNext /\ UNCHANGED <<initialization, migration>>

Spec == Init /\ [][Next]_vars

-----------------------------------------------------------------------------
(* Properties                                                              *)

TypeOK == DirectoryTypeOK /\ InitializeTypeOK /\ MigrationTypeOK /\ RepairTypeOK

\* The recovery of an unfinished migration has begun to empty the root.
Emptying == manifest \in Unfinished /\ live["cache"] = "absent"

\* A server loads complete schema 4 instances only, however far a migration
\* or an initialization is, unless a recovery has begun to empty the root; and
\* nothing replaces the directories under a running one (runtime.LoadInstance,
\* the order of installEntries, the runtime lock of migration.Apply).
ServesComplete ==
    [][/\ server = "recovered" /\ server' = "loaded" => Complete \/ Emptying
       /\ server = "running" => live' = live]_vars

\* docs/en/v4/commands.md of migrate apply: it "installs atomically.
\* Interrupted transactions are completed or rolled back deterministically."
\* What an interrupted apply leaves never makes a later one refuse the root,
\* neither for an archive of its own nor in its recovery, and OpenVPN runs on
\* complete instances only (migration.Apply, createSnapshot, restoreSnapshot).
AppliesAtomically ==
    /\ verdict \notin {"snapshot-exists", "recovery-required"}
    /\ server = "running" => Complete
==============================================================================
