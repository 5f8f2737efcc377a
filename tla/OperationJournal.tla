--------------------------- MODULE OperationJournal --------------------------
(***************************************************************************)
(* The durable operation protocol every mutation of an instance follows:   *)
(* SQLite's operations table (store/sqlite/journal.go), the artifact       *)
(* operation directory with its manifest, staged and backup files          *)
(* (artifact/local.go), the mutators that drive both (client, derived,     *)
(* configuration), and RecoverOperations (recovery/operations.go), which   *)
(* reconciles the two after a process died or a step failed.               *)
(*                                                                         *)
(* Every process works under the exclusive lock .ovpn-data.lock, so the    *)
(* model has one program counter, that of the lock's holder; a waiting     *)
(* process has no state of its own, because all of them load what they     *)
(* need after they have the lock.  The kernel drops a dead process's lock. *)
(*                                                                         *)
(* A file is its content (files are compared by SHA-256 digest), Absent    *)
(* when it does not exist.  A step is one durable effect: one rename, one  *)
(* unlink, one manifest rewrite (write to .tmp and rename), one SQLite     *)
(* transaction.  The manifest's entries name distinct keys, so the order   *)
(* in which Install and Rollback walk them is left open.                   *)
(***************************************************************************)
EXTENDS Naturals, FiniteSets

CONSTANTS
    Keys,       \* artifact keys (profiles, CCD files, CRL, server.conf, ...)
    Contents,   \* file contents, one per digest
    Absent,     \* no such file
    None,       \* no operation, no key: what a free lock's holder works on
    Ops,        \* operation UUIDs
    Kinds,      \* the kinds of operation that mutators start
    MaxFaults   \* bound on crashes and failing steps

ASSUME AbsentAssumption == Absent \notin Contents

ASSUME NoneAssumption == None \notin Ops \cup Keys

ASSUME MaxFaultsAssumption == MaxFaults \in Nat

VARIABLES
    live,       \* the instance's file tree
    recorded,   \* the artifacts table: active metadata (digest) per key
    journal,    \* the operations table: state per operation
    manifest,   \* per operation: directory and manifest.json
    listed,     \* per operation: keys of the manifest's entries
    digest,     \* per operation and key: the entry's digest, Absent = delete
    original,   \* per operation and key: OriginalDigest, Absent = !HadOriginal
    installed,  \* per operation: entries with the Installed flag
    staged,     \* per operation and key: <dir>/staged/<key>
    backup,     \* per operation and key: <dir>/backup/<key>
    pc,         \* the lock holder's next step, "idle" = lock free
    role,       \* the lock holder: a mutation or RecoverOperations
    cur,        \* the operation the lock holder works on
    key,        \* the manifest entry it works on
    todo,       \* the entries its loop has not reached
    faults,     \* crashes and failed steps so far
    overlap     \* history: an operation began while another was unresolved

durable == <<live, recorded, journal, manifest, listed, digest, original,
             installed, staged, backup>>
opFiles == <<listed, digest, original, installed, staged, backup>>
holder  == <<pc, role, cur, key, todo>>
history == <<faults, overlap>>
vars    == <<durable, holder, history>>

File == Contents \cup {Absent}

PendingStates  == {"prepared", "files-installed"}
JournalStates  == {"none", "committed", "rolled-back"} \cup PendingStates

\* "no-dir": no operation directory; "no-manifest": the directory exists and
\* manifest.json does not; otherwise the manifest's state.
ManifestStates == {"no-dir", "no-manifest", "prepared", "files-installed",
                   "committed", "rolled-back"}

Roles == {"none", "mutation", "recovery"}

\* The client commands and the derived-artifact refreshes start whatever an
\* earlier operation left; config apply refuses while anything is pending.
ChecksPending(kind) == kind = "config.apply"

Pending(o) == journal[o] \in PendingStates

\* Something of operation o waits for its owner or for recovery.
Unresolved(o) == Pending(o) \/ manifest[o] # "no-dir"

Settled == pc = "idle" /\ \A o \in Ops : ~Unresolved(o)

\* What the variables hold.  Only an operation with a journal row is worked on
\* or has a directory: PrepareOperation comes before BeginOperation, and no row
\* is ever deleted.
TypeOK ==
    /\ live \in [Keys -> File]
    /\ recorded \in [Keys -> File]
    /\ journal \in [Ops -> JournalStates]
    /\ manifest \in [Ops -> ManifestStates]
    /\ listed \in [Ops -> SUBSET Keys]
    /\ digest \in [Ops -> [Keys -> File]]
    /\ original \in [Ops -> [Keys -> File]]
    /\ installed \in [Ops -> SUBSET Keys]
    /\ staged \in [Ops -> [Keys -> File]]
    /\ backup \in [Ops -> [Keys -> File]]
    /\ pc \in {"idle", "begin", "save", "stage", "install", "backup", "place",
               "mark", "advance", "commit", "finish", "cleanup", "unlink",
               "rollback", "restore", "abort", "recover"}
    /\ role \in Roles
    /\ \A o \in Ops : journal[o] = "none" => manifest[o] = "no-dir"
    /\ cur \in IF pc \in {"idle", "recover"} THEN {None} ELSE {o \in Ops : journal[o] # "none"}
    /\ key \in IF pc \in {"backup", "place", "mark", "restore"} THEN Keys ELSE {None}
    /\ todo \subseteq Keys
    /\ faults \in 0..MaxFaults
    /\ overlap \in BOOLEAN

NoFiles == [k \in Keys |-> Absent]

\* An initialised instance: the tree is what the metadata says.
Init ==
    /\ recorded \in [Keys -> File]
    /\ live = recorded
    /\ journal = [o \in Ops |-> "none"]
    /\ manifest = [o \in Ops |-> "no-dir"]
    /\ listed = [o \in Ops |-> {}]
    /\ digest = [o \in Ops |-> NoFiles]
    /\ original = [o \in Ops |-> NoFiles]
    /\ installed = [o \in Ops |-> {}]
    /\ staged = [o \in Ops |-> NoFiles]
    /\ backup = [o \in Ops |-> NoFiles]
    /\ pc = "idle"
    /\ role = "none"
    /\ cur = None
    /\ key = None
    /\ todo = {}
    /\ faults = 0
    /\ overlap = FALSE

-----------------------------------------------------------------------------
\* The mutators

Goto(step) == pc' = step /\ UNCHANGED <<role, cur, key, todo>>

\* Leave the entry or the operation the holder worked on.
NextEntry(step) ==
    /\ pc' = step
    /\ key' = None
    /\ UNCHANGED <<role, cur>>

Release ==
    /\ pc' = "idle"
    /\ role' = "none"
    /\ cur' = None
    /\ key' = None
    /\ todo' = {}

\* The end of one operation: a mutator returns and its lock is released,
\* RecoverOperations goes on with its loop.
EndOperation ==
    IF role = "mutation"
    THEN Release
    ELSE /\ pc' = "recover"
         /\ cur' = None
         /\ key' = None
         /\ todo' = {}
         /\ UNCHANGED role

\* (Variant: the operation begins without its journal row.)
PrepareUnjournaled(kind, o) ==
    /\ pc = "idle"
    /\ journal[o] = "none"
    /\ \E keys \in SUBSET Keys \ {{}} : todo' = keys
    /\ digest' = [digest EXCEPT ![o] = NoFiles]
    /\ pc' = "begin"
    /\ role' = "mutation"
    /\ cur' = o
    /\ UNCHANGED <<live, recorded, journal, manifest, listed, original, installed,
                   staged, backup, key, history>>

\* A mutator takes the lock, plans which artifacts it writes and which it
\* deletes, and PrepareOperation commits the journal row.
Prepare(kind, o) ==
    /\ pc = "idle"
    /\ journal[o] = "none"
    /\ ChecksPending(kind) => \A p \in Ops : ~Unresolved(p)
    /\ journal' = [journal EXCEPT ![o] = "prepared"]
    /\ \E keys \in SUBSET Keys \ {{}} :
          /\ todo' = keys
          /\ \E plan \in [Keys -> File] :
                /\ \A k \in Keys \ keys : plan[k] = Absent
                /\ digest' = [digest EXCEPT ![o] = plan]
    /\ pc' = "begin"
    /\ role' = "mutation"
    /\ cur' = o
    /\ UNCHANGED key
    /\ overlap' = (overlap \/ \E p \in Ops : Unresolved(p))
    /\ UNCHANGED <<live, recorded, manifest, listed, original, installed,
                   staged, backup, faults>>

\* BeginOperation: os.Mkdir of the operation directory ...
MakeDirectory ==
    /\ pc = "begin"
    /\ manifest' = [manifest EXCEPT ![cur] = "no-manifest"]
    /\ Goto("save")
    /\ UNCHANGED <<live, recorded, journal, opFiles, history>>

\* ... and the first saveManifest.
SaveFirstManifest ==
    /\ pc = "save"
    /\ manifest' = [manifest EXCEPT ![cur] = "prepared"]
    /\ Goto("stage")
    /\ UNCHANGED <<live, recorded, journal, opFiles, history>>

\* Stage (a write: file under staged/, then the entry) and Remove (a delete:
\* the entry alone).
Stage(k) ==
    /\ pc = "stage"
    /\ k \in todo
    /\ listed' = [listed EXCEPT ![cur] = @ \cup {k}]
    /\ staged' = [staged EXCEPT ![cur][k] = digest[cur][k]]
    /\ todo' = todo \ {k}
    /\ UNCHANGED <<live, recorded, journal, manifest, digest, original,
                   installed, backup, pc, role, cur, key, history>>

\* Install's preflight over all entries: every staged file must be there with
\* the entry's digest.
VerifyStaged ==
    /\ pc = "stage"
    /\ todo = {}
    /\ \A k \in listed[cur] : staged[cur][k] = digest[cur][k]
    /\ todo' = listed[cur]
    /\ pc' = "install"
    /\ UNCHANGED <<durable, role, cur, key, history>>

\* (Variant: the original's digest is not in the manifest before the rename.)
InspectTargetUnsaved(k) ==
    /\ pc = "install"
    /\ k \in todo
    /\ key' = k
    /\ pc' = IF live[k] = Absent THEN "place" ELSE "backup"
    /\ UNCHANGED <<durable, role, cur, todo, history>>

\* Install, one entry: an existing target's digest goes to the manifest first.
InspectTarget(k) ==
    /\ pc = "install"
    /\ k \in todo
    /\ key' = k
    /\ original' = [original EXCEPT ![cur][k] = live[k]]
    /\ pc' = IF live[k] = Absent THEN "place" ELSE "backup"
    /\ UNCHANGED <<live, recorded, journal, manifest, listed, digest, installed,
                   staged, backup, role, cur, todo, history>>

\* os.Rename(target, backup).  BackupReady, saved next, is never read back.
MoveToBackup ==
    /\ pc = "backup"
    /\ backup' = [backup EXCEPT ![cur][key] = live[key]]
    /\ live' = [live EXCEPT ![key] = Absent]
    /\ Goto("place")
    /\ UNCHANGED <<recorded, journal, manifest, listed, digest, original,
                   installed, staged, history>>

\* os.Rename(staged, target) for a write; a delete has nothing to place.
PlaceStaged ==
    /\ pc = "place"
    /\ IF digest[cur][key] = Absent
       THEN UNCHANGED <<live, staged>>
       ELSE /\ live' = [live EXCEPT ![key] = staged[cur][key]]
            /\ staged' = [staged EXCEPT ![cur][key] = Absent]
    /\ Goto("mark")
    /\ UNCHANGED <<recorded, journal, manifest, listed, digest, original,
                   installed, backup, history>>

\* entry.Installed = true and saveManifest.
MarkInstalled ==
    /\ pc = "mark"
    /\ installed' = [installed EXCEPT ![cur] = @ \cup {key}]
    /\ todo' = todo \ {key}
    /\ NextEntry("install")
    /\ UNCHANGED <<live, recorded, journal, manifest, listed, digest, original,
                   staged, backup, history>>

\* (Variant: the manifest is committed before SQLite is.)
FinishInstallCommitted ==
    /\ pc = "install"
    /\ todo = {}
    /\ manifest' = [manifest EXCEPT ![cur] = "committed"]
    /\ Goto("advance")
    /\ UNCHANGED <<live, recorded, journal, opFiles, history>>

\* The manifest becomes files-installed.
FinishInstall ==
    /\ pc = "install"
    /\ todo = {}
    /\ manifest' = [manifest EXCEPT ![cur] = "files-installed"]
    /\ Goto("advance")
    /\ UNCHANGED <<live, recorded, journal, opFiles, history>>

\* AdvanceOperation(files-installed).
AdvanceInstalled ==
    /\ pc = "advance"
    /\ journal[cur] = "prepared"
    /\ journal' = [journal EXCEPT ![cur] = "files-installed"]
    /\ Goto("commit")
    /\ UNCHANGED <<live, recorded, manifest, opFiles, history>>

\* Commit...Operation: one transaction changes the rows and the journal.
CommitState ==
    /\ pc = "commit"
    /\ journal[cur] = "files-installed"
    /\ recorded' = [k \in Keys |-> IF k \in listed[cur] THEN digest[cur][k]
                                                       ELSE recorded[k]]
    /\ journal' = [journal EXCEPT ![cur] = "committed"]
    /\ Goto("finish")
    /\ UNCHANGED <<live, manifest, opFiles, history>>

\* Operation.Commit: the manifest becomes committed ...
CommitFiles ==
    /\ pc = "finish"
    /\ manifest' = [manifest EXCEPT ![cur] = "committed"]
    /\ Goto("cleanup")
    /\ UNCHANGED <<live, recorded, journal, opFiles, history>>

\* ... and cleanup is os.RemoveAll(dir), which unlinks manifest.json, staged
\* and backup files one by one (in directory order; the manifest is terminal,
\* so only its own unlink tells two states apart) ...
RemoveManifest ==
    /\ pc = "cleanup"
    /\ manifest' = [manifest EXCEPT ![cur] = "no-manifest"]
    /\ Goto("unlink")
    /\ UNCHANGED <<live, recorded, journal, opFiles, history>>

\* ... and the directory last.  After a rollback the caller's next step is the
\* journal: always in a mutator's closure, for pending rows in recovery.
RemoveDirectory ==
    /\ pc = "unlink"
    /\ manifest' = [manifest EXCEPT ![cur] = "no-dir"]
    /\ listed' = [listed EXCEPT ![cur] = {}]
    /\ installed' = [installed EXCEPT ![cur] = {}]
    /\ digest' = [digest EXCEPT ![cur] = NoFiles]
    /\ original' = [original EXCEPT ![cur] = NoFiles]
    /\ staged' = [staged EXCEPT ![cur] = NoFiles]
    /\ backup' = [backup EXCEPT ![cur] = NoFiles]
    /\ IF Pending(cur) THEN Goto("abort") ELSE EndOperation
    /\ UNCHANGED <<live, recorded, journal, history>>

-----------------------------------------------------------------------------
\* Operation.Rollback, called by a mutator's rollback closure and by recovery

\* One entry without a backup: Rollback checks that the target is what the
\* manifest says, and removes what the operation itself placed there.
\* (Variant: only the Installed flag counts, not the missing staged file.)
PlacedByFlagOnly(o, k) ==
    /\ digest[o][k] # Absent
    /\ k \in installed[o]

Placed(o, k) ==
    /\ digest[o][k] # Absent
    /\ k \in installed[o] \/ staged[o][k] = Absent

Identified(o, k) ==
    IF original[o][k] # Absent
    THEN live[k] = original[o][k]
    ELSE Placed(o, k) => live[k] \in {Absent, digest[o][k]}

RollbackUnbacked(k) ==
    /\ pc = "rollback"
    /\ k \in todo
    /\ backup[cur][k] = Absent
    /\ Identified(cur, k)
    /\ live' = [live EXCEPT ![k] =
                  IF original[cur][k] = Absent /\ Placed(cur, k) THEN Absent ELSE @]
    /\ todo' = todo \ {k}
    /\ UNCHANGED <<recorded, journal, manifest, opFiles, pc, role, cur, key,
                   history>>

\* An entry with a backup: the target is removed first ...
RemoveTarget(k) ==
    /\ pc = "rollback"
    /\ k \in todo
    /\ backup[cur][k] # Absent
    /\ live' = [live EXCEPT ![k] = Absent]
    /\ key' = k
    /\ pc' = "restore"
    /\ UNCHANGED <<recorded, journal, manifest, opFiles, role, cur, todo,
                   history>>

\* ... then os.Rename(backup, target).
RestoreBackup ==
    /\ pc = "restore"
    /\ live' = [live EXCEPT ![key] = backup[cur][key]]
    /\ backup' = [backup EXCEPT ![cur][key] = Absent]
    /\ todo' = todo \ {key}
    /\ NextEntry("rollback")
    /\ UNCHANGED <<recorded, journal, manifest, listed, digest, original,
                   installed, staged, history>>

\* The manifest becomes rolled-back; cleanup follows.
FinishRollback ==
    /\ pc = "rollback"
    /\ todo = {}
    /\ manifest' = [manifest EXCEPT ![cur] = "rolled-back"]
    /\ Goto("cleanup")
    /\ UNCHANGED <<live, recorded, journal, opFiles, history>>

\* Rollback refuses a target it cannot identify.  The mutator's closure goes
\* on to the journal all the same; recovery stops with the error.
RollbackRefused(k) ==
    /\ pc = "rollback"
    /\ k \in todo
    /\ backup[cur][k] = Absent
    /\ ~Identified(cur, k)
    /\ IF role = "mutation" THEN Goto("abort") ELSE Release
    /\ UNCHANGED <<durable, history>>

\* AdvanceOperation(rolled-back).
AdvanceRolledBack ==
    /\ pc = "abort"
    /\ Pending(cur)
    /\ journal' = [journal EXCEPT ![cur] = "rolled-back"]
    /\ EndOperation
    /\ UNCHANGED <<live, recorded, manifest, opFiles, history>>

-----------------------------------------------------------------------------
\* RecoverOperations, run by "server run" and "repair apply"

StartRecovery ==
    /\ pc = "idle"
    /\ pc' = "recover"
    /\ role' = "recovery"
    /\ UNCHANGED <<durable, cur, key, todo, history>>

\* operation.Rollback() on an opened operation.
RollBack(o) ==
    /\ cur' = o
    /\ IF manifest[o] = "rolled-back"
       THEN pc' = "cleanup" /\ UNCHANGED todo
       ELSE pc' = "rollback" /\ todo' = listed[o]

\* First loop: every pending journal row is rolled back, files before journal.
\* Rows are ordered by a creation time of one second's precision and then by
\* random UUID, so any pending row may come first.
RecoverPending(o) ==
    /\ pc = "recover"
    /\ Pending(o)
    /\ \/ /\ manifest[o] = "no-dir"
          /\ cur' = o
          /\ pc' = "abort"
          /\ UNCHANGED todo
       \/ /\ manifest[o] \in {"prepared", "files-installed", "rolled-back"}
          /\ RollBack(o)
    /\ UNCHANGED <<durable, role, key, history>>

\* (Variant: only the manifest decides, a commit SQLite has is rolled back.)
RecoverByManifest(o) ==
    /\ pc = "recover"
    /\ \A p \in Ops : ~Pending(p)
    /\ manifest[o] \in {"prepared", "files-installed", "rolled-back"}
    /\ RollBack(o)
    /\ UNCHANGED <<durable, role, key, history>>

\* (Variant: a directory whose journal row is rolled-back is left alone.)
RecoverCommittedOnly(o) ==
    /\ pc = "recover"
    /\ \A p \in Ops : ~Pending(p)
    /\ journal[o] = "committed"
    /\ manifest[o] \in {"files-installed", "committed"}
    /\ cur' = o
    /\ pc' = IF manifest[o] = "committed" THEN "cleanup" ELSE "finish"
    /\ UNCHANGED <<durable, role, key, todo, history>>

\* Second loop: directories whose journal row is final (or missing).
RecoverRemaining(o) ==
    /\ pc = "recover"
    /\ \A p \in Ops : ~Pending(p)
    /\ IF journal[o] = "committed"
       THEN /\ manifest[o] \in {"files-installed", "committed"}
            /\ cur' = o
            /\ pc' = IF manifest[o] = "committed" THEN "cleanup" ELSE "finish"
            /\ UNCHANGED todo
       ELSE /\ manifest[o] \in {"prepared", "files-installed", "rolled-back"}
            /\ RollBack(o)
    /\ UNCHANGED <<durable, role, key, history>>

\* Journal and manifest contradict each other: ErrOperationConflict.
Conflict(o) ==
    \/ journal[o] # "committed" /\ manifest[o] = "committed"
    \/ journal[o] = "committed" /\ manifest[o] \in {"prepared", "rolled-back"}

\* RecoverOperations gives up at a manifest it cannot open or at a conflict.
RecoverRefused(o) ==
    /\ pc = "recover"
    /\ Pending(o) \/ \A p \in Ops : ~Pending(p)
    /\ manifest[o] = "no-manifest" \/ Conflict(o)
    /\ Release
    /\ UNCHANGED <<durable, history>>

RecoverDone ==
    /\ pc = "recover"
    /\ \A o \in Ops : ~Unresolved(o)
    /\ Release
    /\ UNCHANGED <<durable, history>>

-----------------------------------------------------------------------------
\* Faults

Fault == faults < MaxFaults /\ faults' = faults + 1 /\ UNCHANGED overlap

\* BeginOperation fails (the directory is removed again): the mutator still
\* moves the journal to rolled-back.
BeginFails ==
    /\ Fault
    /\ pc \in {"begin", "save"}
    /\ manifest' = [manifest EXCEPT ![cur] = "no-dir"]
    /\ Goto("abort")
    /\ UNCHANGED <<live, recorded, journal, opFiles>>

\* (Variant: the rollback covers the installed entries only.)
StepFailsInstalledOnly ==
    /\ Fault
    /\ pc \in {"stage", "install", "backup", "place", "mark", "advance",
               "commit"}
    /\ NextEntry("rollback")
    /\ todo' = installed[cur]
    /\ UNCHANGED durable

\* Any later step before the SQLite commit fails (I/O error, cancelled
\* context, compare-and-set lost): the mutator's rollback closure runs.
StepFails ==
    /\ Fault
    /\ pc \in {"stage", "install", "backup", "place", "mark", "advance",
               "commit"}
    /\ NextEntry("rollback")
    /\ todo' = listed[cur]
    /\ UNCHANGED durable

\* Rollback or its cleanup fails part-way: the closure still advances the
\* journal.
RollbackFails ==
    /\ Fault
    /\ pc \in {"rollback", "restore", "cleanup", "unlink"}
    /\ role = "mutation"
    /\ journal[cur] # "committed"
    /\ NextEntry("abort")
    /\ todo' = {}
    /\ UNCHANGED durable

\* The process dies, or returns an error with no compensation left to run
\* (Commit after the SQLite commit, the journal update of the rollback
\* closure, any step of RecoverOperations).
Crash ==
    /\ Fault
    /\ pc # "idle"
    /\ Release
    /\ UNCHANGED durable

-----------------------------------------------------------------------------
MutatorStep ==
    \/ MakeDirectory \/ SaveFirstManifest \/ VerifyStaged
    \/ MoveToBackup \/ PlaceStaged \/ MarkInstalled \/ FinishInstall
    \/ AdvanceInstalled \/ CommitState \/ CommitFiles
    \/ RemoveManifest \/ RemoveDirectory
    \/ \E k \in Keys : Stage(k) \/ InspectTarget(k)

RollbackStep ==
    \/ RestoreBackup \/ FinishRollback \/ AdvanceRolledBack
    \/ \E k \in Keys :
          RollbackUnbacked(k) \/ RemoveTarget(k) \/ RollbackRefused(k)

RecoveryStep ==
    \/ RecoverDone
    \/ \E o \in Ops :
          RecoverPending(o) \/ RecoverRemaining(o) \/ RecoverRefused(o)

HolderStep == MutatorStep \/ RollbackStep \/ RecoveryStep

Next ==
    \/ \E kind \in Kinds, o \in Ops : Prepare(kind, o)
    \/ StartRecovery
    \/ HolderStep
    \/ BeginFails \/ StepFails \/ RollbackFails \/ Crash

Spec == Init /\ [][Next]_vars

\* A process that holds the lock keeps running (until a Crash), and recovery
\* runs again: the container restarts the server, which recovers first.
FairSpec == Spec /\ WF_vars(HolderStep) /\ WF_vars(StartRecovery)

-----------------------------------------------------------------------------
\* Properties

\* An operation that has not reached the SQLite commit and whose manifest is
\* still needed to undo it.
Undoable(o) ==
    /\ manifest[o] \in {"prepared", "files-installed"}
    /\ journal[o] # "committed"

Touched(k) == \E o \in Ops : Undoable(o) /\ k \in listed[o]

\* At every moment, crashes included, a file that no undoable operation lists
\* is the one the artifacts table records: Install, Rollback, cleanup and
\* RecoverOperations never leave a committed change undone or an aborted
\* change in place.
CommittedFilesLive ==
    ~overlap => \A k \in Keys : ~Touched(k) => live[k] = recorded[k]

\* Rollback of an undoable operation never meets a file it cannot identify
\* ("original artifact cannot be restored", "new artifact cannot be
\* identified"), and the recorded content of every listed file still exists,
\* as the target or as the backup, wherever the process stopped.
RollbackNeverStuck ==
    ~overlap =>
        \A o \in Ops : Undoable(o) => \A k \in listed[o] :
            /\ backup[o][k] = Absent => Identified(o, k)
            /\ recorded[k] \in {Absent, live[k], backup[o][k]}

\* RecoverOperations never finds SQLite journal and manifest in contradiction
\* (ErrOperationConflict), overlapping operations included.
NoConflict == \A o \in Ops : ~Conflict(o)

\* The file tree changes only under an operation whose manifest lists the key
\* and whose SQLite commit has not happened: recovery of a committed
\* operation, and cleanup, touch no live file.
FilesChangeUnderManifest ==
    [][\A k \in Keys : live'[k] # live[k] =>
          /\ k \in listed[cur]
          /\ Undoable(cur)]_vars

\* What a reader of the tree may rely on.
View == IF Settled /\ ~overlap THEN {live} ELSE {}

Atomic == INSTANCE AtomicUpdate WITH value <- recorded, view <- View

\* The journal protocol implements all-or-nothing updates.
ImplementsAtomicUpdate == Atomic!Spec

\* An operation directory without a manifest: OpenOperation fails on it.
Unreadable == \E o \in Ops : manifest[o] = "no-manifest"

\* Whatever is interrupted is eventually completed or rolled back, unless a
\* directory without a manifest is in the way or operations overlapped.
InterruptedResolves == []<>(Settled \/ Unreadable \/ overlap)

\* docs/en/data-schema-upgrade-policy.md: "an interruption can be completed or
\* rolled back deterministically".
EveryInterruptionResolves == []<>(Settled \/ overlap)

\* The same promise for the file tree: once everything is resolved, files and
\* artifact metadata agree, whichever operations ran.
SettledFilesMatchState == Settled => live = recorded
=============================================================================
