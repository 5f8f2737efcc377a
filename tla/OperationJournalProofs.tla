----------------------- MODULE OperationJournalProofs ------------------------
(***************************************************************************)
(* Proofs about OperationJournal, for any sets of keys, contents and       *)
(* operations, any number of faults, and any kinds of mutation.            *)
(*                                                                         *)
(* JournalInv relates the lock holder's step, the SQLite journal and the   *)
(* manifest; it holds whatever operations overlap.                         *)
(***************************************************************************)
EXTENDS OperationJournal, TLAPS

\* What SQLite's state of an operation says about its directory.
Agree(o) ==
    /\ journal[o] = "none" => manifest[o] = "no-dir"
    /\ journal[o] \in {"prepared", "rolled-back"} => manifest[o] # "committed"
    /\ journal[o] = "files-installed" =>
          manifest[o] \notin {"prepared", "committed"}
    /\ journal[o] = "committed" =>
          manifest[o] \notin {"prepared", "rolled-back"}

\* Where the lock holder is in its operation.
HolderInv ==
    /\ pc = "begin" => journal[cur] = "prepared" /\ manifest[cur] = "no-dir"
    /\ pc = "save" => journal[cur] = "prepared" /\ manifest[cur] = "no-manifest"
    /\ pc \in {"stage", "install", "backup", "place", "mark"} =>
          journal[cur] = "prepared" /\ manifest[cur] = "prepared"
    /\ pc = "advance" =>
          journal[cur] = "prepared" /\ manifest[cur] = "files-installed"
    /\ pc = "commit" =>
          journal[cur] = "files-installed" /\ manifest[cur] = "files-installed"
    /\ pc = "finish" =>
          journal[cur] = "committed" /\ manifest[cur] = "files-installed"
    /\ pc = "cleanup" =>
          \/ journal[cur] = "committed" /\ manifest[cur] = "committed"
          \/ /\ journal[cur] \notin {"none", "committed"}
             /\ manifest[cur] = "rolled-back"
    /\ pc = "unlink" => journal[cur] # "none" /\ manifest[cur] = "no-manifest"
    /\ pc \in {"rollback", "restore"} => journal[cur] # "none" /\ Undoable(cur)
    /\ pc = "abort" => Pending(cur)
    /\ pc = "recover" => role = "recovery"
    /\ pc # "idle" => role # "none"
    /\ role = "mutation" =>
          journal[cur] \in {"prepared", "files-installed", "committed"}
    /\ pc \in {"install", "backup", "place", "mark", "rollback", "restore"} =>
          todo \subseteq listed[cur]
    /\ pc \in {"backup", "place", "mark", "restore"} => key \in todo

JournalInv == HolderInv /\ \A o \in Ops : Agree(o)

-----------------------------------------------------------------------------
\* Type correctness

LEMMA InitTypeOK == Init => TypeOK
<1> SUFFICES ASSUME Init PROVE TypeOK
  OBVIOUS
<1>1. NoFiles \in [Keys -> File]
  BY DEF NoFiles, File
<1>2. /\ live \in [Keys -> File] /\ recorded \in [Keys -> File]
      /\ journal \in [Ops -> JournalStates]
      /\ manifest \in [Ops -> ManifestStates]
  BY DEF Init, JournalStates, ManifestStates
<1>3. /\ listed \in [Ops -> SUBSET Keys] /\ installed \in [Ops -> SUBSET Keys]
  BY DEF Init
<1>4. /\ digest \in [Ops -> [Keys -> File]] /\ original \in [Ops -> [Keys -> File]]
      /\ staged \in [Ops -> [Keys -> File]] /\ backup \in [Ops -> [Keys -> File]]
  <2>1. \A f : f = [o \in Ops |-> NoFiles] => f \in [Ops -> [Keys -> File]]
    BY <1>1
  <2> QED
    BY <2>1 DEF Init
<1>5. /\ pc = "idle" /\ role \in Roles /\ cur = None /\ key = None
      /\ todo \subseteq Keys /\ overlap \in BOOLEAN
  BY DEF Init, Roles
<1>6. faults \in 0..MaxFaults
  BY MaxFaultsAssumption DEF Init
<1>7. \A o \in Ops : manifest[o] = "no-dir"
  BY DEF Init
<1> QED
  BY <1>2, <1>3, <1>4, <1>5, <1>6, <1>7 DEF TypeOK

LEMMA PrepareTypeOK ==
  ASSUME TypeOK, NEW kind \in Kinds, NEW o \in Ops, Prepare(kind, o)
  PROVE  TypeOK'
<1>1. PICK keys \in SUBSET Keys \ {{}} :
        /\ todo' = keys
        /\ \E plan \in [Keys -> File] : digest' = [digest EXCEPT ![o] = plan]
  BY DEF Prepare
<1>2. digest' \in [Ops -> [Keys -> File]] /\ todo' \subseteq Keys
  BY <1>1 DEF TypeOK
<1>3. journal' \in [Ops -> JournalStates]
  BY DEF Prepare, TypeOK, JournalStates, PendingStates
<1>4. overlap' \in BOOLEAN
  BY DEF Prepare
<1> QED
  BY <1>2, <1>3, <1>4 DEF Prepare, TypeOK, Roles

LEMMA MutatorTypeOK == TypeOK /\ MutatorStep => TypeOK'
<1> SUFFICES ASSUME TypeOK, MutatorStep PROVE TypeOK'
  OBVIOUS
<1> USE NoneAssumption DEF TypeOK, JournalStates, PendingStates,
        ManifestStates, Roles, File, opFiles, durable, history, Goto
<1>1. CASE MakeDirectory
  BY <1>1 DEF MakeDirectory
<1>2. CASE SaveFirstManifest
  BY <1>2 DEF SaveFirstManifest
<1>3. CASE VerifyStaged
  BY <1>3 DEF VerifyStaged
<1>4. CASE MoveToBackup
  BY <1>4 DEF MoveToBackup
<1>5. CASE PlaceStaged
  <2>1. cur \in Ops /\ key \in Keys
    BY <1>5 DEF PlaceStaged
  <2>2. live' \in [Keys -> File] /\ staged' \in [Ops -> [Keys -> File]]
    <3>1. CASE digest[cur][key] = Absent
      BY <1>5, <3>1 DEF PlaceStaged
    <3>2. CASE digest[cur][key] # Absent
      <4>1. staged[cur] \in [Keys -> File] /\ staged[cur][key] \in File
        BY <2>1
      <4>2. live' \in [Keys -> File]
        BY <1>5, <3>2, <2>1, <4>1 DEF PlaceStaged
      <4>3. [staged[cur] EXCEPT ![key] = Absent] \in [Keys -> File]
        BY <2>1, <4>1
      <4>4. staged' = [staged EXCEPT ![cur] = [staged[cur] EXCEPT ![key] = Absent]]
        BY <1>5, <3>2, <2>1 DEF PlaceStaged
      <4> QED
        BY <2>1, <4>2, <4>3, <4>4
    <3> QED
      BY <3>1, <3>2
  <2> QED
    BY <1>5, <2>2 DEF PlaceStaged
<1>6. CASE MarkInstalled
  BY <1>6 DEF MarkInstalled, NextEntry
<1>7. CASE FinishInstall
  BY <1>7 DEF FinishInstall
<1>8. CASE AdvanceInstalled
  BY <1>8 DEF AdvanceInstalled
<1>9. CASE CommitState
  BY <1>9 DEF CommitState
<1>10. CASE CommitFiles
  BY <1>10 DEF CommitFiles
<1>11. CASE RemoveManifest
  BY <1>11 DEF RemoveManifest
<1>12. CASE RemoveDirectory
  BY <1>12 DEF RemoveDirectory, NoFiles, EndOperation, Release
<1>13. ASSUME NEW k \in Keys, Stage(k) PROVE TypeOK'
  BY <1>13 DEF Stage
<1>14. ASSUME NEW k \in Keys, InspectTarget(k) PROVE TypeOK'
  BY <1>14 DEF InspectTarget
<1> QED
  BY <1>1, <1>2, <1>3, <1>4, <1>5, <1>6, <1>7, <1>8, <1>9, <1>10, <1>11,
     <1>12, <1>13, <1>14 DEF MutatorStep

LEMMA RollbackTypeOK == TypeOK /\ RollbackStep => TypeOK'
<1> SUFFICES ASSUME TypeOK, RollbackStep PROVE TypeOK'
  OBVIOUS
<1> USE NoneAssumption DEF TypeOK, JournalStates, PendingStates,
        ManifestStates, Roles, File, opFiles, durable, history, Goto,
        EndOperation, Release
<1>1. CASE RestoreBackup
  BY <1>1 DEF RestoreBackup, NextEntry
<1>2. CASE FinishRollback
  BY <1>2 DEF FinishRollback
<1>3. CASE AdvanceRolledBack
  BY <1>3 DEF AdvanceRolledBack
<1>4. ASSUME NEW k \in Keys, RollbackUnbacked(k) PROVE TypeOK'
  BY <1>4 DEF RollbackUnbacked
<1>5. ASSUME NEW k \in Keys, RemoveTarget(k) PROVE TypeOK'
  BY <1>5 DEF RemoveTarget
<1>6. ASSUME NEW k \in Keys, RollbackRefused(k) PROVE TypeOK'
  BY <1>6 DEF RollbackRefused
<1> QED
  BY <1>1, <1>2, <1>3, <1>4, <1>5, <1>6 DEF RollbackStep

LEMMA RecoveryTypeOK == TypeOK /\ (RecoveryStep \/ StartRecovery) => TypeOK'
<1> SUFFICES ASSUME TypeOK, RecoveryStep \/ StartRecovery PROVE TypeOK'
  OBVIOUS
<1> USE NoneAssumption DEF TypeOK, Roles, durable, history, Release
<1>1. CASE StartRecovery
  BY <1>1 DEF StartRecovery
<1>2. CASE RecoverDone
  BY <1>2 DEF RecoverDone
<1>3. ASSUME NEW o \in Ops, RecoverPending(o) PROVE TypeOK'
  BY <1>3 DEF RecoverPending, RollBack, Pending, PendingStates
<1>4. ASSUME NEW o \in Ops, RecoverRemaining(o) PROVE TypeOK'
  BY <1>4 DEF RecoverRemaining, RollBack
<1>5. ASSUME NEW o \in Ops, RecoverRefused(o) PROVE TypeOK'
  BY <1>5 DEF RecoverRefused
<1> QED
  BY <1>1, <1>2, <1>3, <1>4, <1>5 DEF RecoveryStep

FaultStep == BeginFails \/ StepFails \/ RollbackFails \/ Crash

LEMMA FaultTypeOK == TypeOK /\ FaultStep => TypeOK'
<1> SUFFICES ASSUME TypeOK, FaultStep PROVE TypeOK'
  OBVIOUS
<1>1. faults' \in 0..MaxFaults /\ overlap' \in BOOLEAN
  BY MaxFaultsAssumption
  DEF FaultStep, BeginFails, StepFails, RollbackFails, Crash, Fault, TypeOK
<1> USE <1>1, NoneAssumption DEF TypeOK, ManifestStates, Roles, durable,
        opFiles, Goto, NextEntry
<1>2. CASE BeginFails
  BY <1>2 DEF BeginFails
<1>3. CASE StepFails
  BY <1>3 DEF StepFails
<1>4. CASE RollbackFails
  BY <1>4 DEF RollbackFails
<1>5. CASE Crash
  BY <1>5 DEF Crash, Release
<1> QED
  BY <1>2, <1>3, <1>4, <1>5 DEF FaultStep

LEMMA NextTypeOK == TypeOK /\ [Next]_vars => TypeOK'
<1> SUFFICES ASSUME TypeOK, [Next]_vars PROVE TypeOK'
  OBVIOUS
<1>1. CASE UNCHANGED vars
  BY <1>1 DEF TypeOK, vars, durable, holder, history
<1>2. CASE \E kind \in Kinds, o \in Ops : Prepare(kind, o)
  BY <1>2, PrepareTypeOK
<1>3. CASE StartRecovery \/ HolderStep
  BY <1>3, MutatorTypeOK, RollbackTypeOK, RecoveryTypeOK DEF HolderStep
<1>4. CASE BeginFails \/ StepFails \/ RollbackFails \/ Crash
  BY <1>4, FaultTypeOK DEF FaultStep
<1> QED
  BY <1>1, <1>2, <1>3, <1>4 DEF Next

\* In every reachable state the journal, the manifests and the lock holder's
\* position are what their code says they are, and a key or an operation is
\* never used by a step that has none (no step outside Prepare ... cleanup
\* touches cur or key).
THEOREM TypeCorrect == Spec => []TypeOK
<1> QED
  BY InitTypeOK, NextTypeOK, PTL DEF Spec

-----------------------------------------------------------------------------
\* SQLite journal, manifest and lock holder agree

LEMMA InitJournalInv == Init => JournalInv
  BY DEF Init, JournalInv, HolderInv, Agree, Undoable, Pending

LEMMA MutatorJournalInv == TypeOK /\ JournalInv /\ MutatorStep => JournalInv'
<1> SUFFICES ASSUME TypeOK, JournalInv, MutatorStep PROVE JournalInv'
  OBVIOUS
<1> USE NoneAssumption DEF TypeOK, JournalStates, PendingStates, ManifestStates,
        Roles, JournalInv, HolderInv, Agree, Undoable, Pending, opFiles, durable,
        Goto
<1>1. CASE MakeDirectory
  BY <1>1 DEF MakeDirectory
<1>2. CASE SaveFirstManifest
  BY <1>2 DEF SaveFirstManifest
<1>3. CASE VerifyStaged
  BY <1>3 DEF VerifyStaged
<1>4. CASE MoveToBackup
  BY <1>4 DEF MoveToBackup
<1>5. CASE PlaceStaged
  BY <1>5 DEF PlaceStaged
<1>6. CASE MarkInstalled
  BY <1>6 DEF MarkInstalled, NextEntry
<1>7. CASE FinishInstall
  BY <1>7 DEF FinishInstall
<1>8. CASE AdvanceInstalled
  BY <1>8 DEF AdvanceInstalled
<1>9. CASE CommitState
  BY <1>9 DEF CommitState
<1>10. CASE CommitFiles
  BY <1>10 DEF CommitFiles
<1>11. CASE RemoveManifest
  BY <1>11 DEF RemoveManifest
<1>12. CASE RemoveDirectory
  BY <1>12 DEF RemoveDirectory, EndOperation, Release
<1>13. ASSUME NEW k \in Keys, Stage(k) PROVE JournalInv'
  BY <1>13 DEF Stage
<1>14. ASSUME NEW k \in Keys, InspectTarget(k) PROVE JournalInv'
  BY <1>14 DEF InspectTarget
<1> QED
  BY <1>1, <1>2, <1>3, <1>4, <1>5, <1>6, <1>7, <1>8, <1>9, <1>10, <1>11,
     <1>12, <1>13, <1>14 DEF MutatorStep

LEMMA RollbackJournalInv == TypeOK /\ JournalInv /\ RollbackStep => JournalInv'
<1> SUFFICES ASSUME TypeOK, JournalInv, RollbackStep PROVE JournalInv'
  OBVIOUS
<1> USE NoneAssumption DEF TypeOK, JournalStates, PendingStates, ManifestStates,
        Roles, JournalInv, HolderInv, Agree, Undoable, Pending, opFiles, durable,
        Goto
<1>1. CASE RestoreBackup
  BY <1>1 DEF RestoreBackup, NextEntry
<1>2. CASE FinishRollback
  BY <1>2 DEF FinishRollback
<1>3. CASE AdvanceRolledBack
  BY <1>3 DEF AdvanceRolledBack, EndOperation, Release
<1>4. ASSUME NEW k \in Keys, RollbackUnbacked(k) PROVE JournalInv'
  BY <1>4 DEF RollbackUnbacked
<1>5. ASSUME NEW k \in Keys, RemoveTarget(k) PROVE JournalInv'
  BY <1>5 DEF RemoveTarget
<1>6. ASSUME NEW k \in Keys, RollbackRefused(k) PROVE JournalInv'
  BY <1>6 DEF RollbackRefused, Release
<1> QED
  BY <1>1, <1>2, <1>3, <1>4, <1>5, <1>6 DEF RollbackStep

LEMMA RecoveryJournalInv == TypeOK /\ JournalInv /\ (RecoveryStep \/ StartRecovery) => JournalInv'
<1> SUFFICES ASSUME TypeOK, JournalInv, RecoveryStep \/ StartRecovery PROVE JournalInv'
  OBVIOUS
<1> USE NoneAssumption DEF TypeOK, JournalStates, PendingStates, ManifestStates,
        Roles, JournalInv, HolderInv, Agree, Undoable, Pending, opFiles, durable,
        Goto
<1>1. CASE StartRecovery
  BY <1>1 DEF StartRecovery
<1>2. CASE RecoverDone
  BY <1>2 DEF RecoverDone, Release
<1>3. ASSUME NEW o \in Ops, RecoverPending(o) PROVE JournalInv'
  BY <1>3 DEF RecoverPending, RollBack
<1>4. ASSUME NEW o \in Ops, RecoverRemaining(o) PROVE JournalInv'
  BY <1>4 DEF RecoverRemaining, RollBack
<1>5. ASSUME NEW o \in Ops, RecoverRefused(o) PROVE JournalInv'
  BY <1>5 DEF RecoverRefused, Release
<1> QED
  BY <1>1, <1>2, <1>3, <1>4, <1>5 DEF RecoveryStep

LEMMA FaultJournalInv == TypeOK /\ JournalInv /\ FaultStep => JournalInv'
<1> SUFFICES ASSUME TypeOK, JournalInv, FaultStep PROVE JournalInv'
  OBVIOUS
<1> USE NoneAssumption DEF TypeOK, JournalStates, PendingStates, ManifestStates,
        Roles, JournalInv, HolderInv, Agree, Undoable, Pending, opFiles, durable,
        Goto
<1>1. CASE BeginFails
  BY <1>1 DEF BeginFails
<1>2. CASE StepFails
  BY <1>2 DEF StepFails, NextEntry
<1>3. CASE RollbackFails
  BY <1>3 DEF RollbackFails, NextEntry
<1>4. CASE Crash
  BY <1>4 DEF Crash, Release
<1> QED
  BY <1>1, <1>2, <1>3, <1>4 DEF FaultStep

LEMMA PrepareJournalInv ==
  ASSUME TypeOK, JournalInv, NEW kind \in Kinds, NEW o \in Ops, Prepare(kind, o)
  PROVE  JournalInv'
  BY DEF TypeOK, JournalInv, HolderInv, Agree, Undoable, Pending, PendingStates,
         JournalStates, ManifestStates, Prepare

LEMMA NextJournalInv == TypeOK /\ JournalInv /\ [Next]_vars => JournalInv'
<1> SUFFICES ASSUME TypeOK, JournalInv, [Next]_vars PROVE JournalInv'
  OBVIOUS
<1>1. CASE UNCHANGED vars
  BY <1>1 DEF JournalInv, HolderInv, Agree, Undoable, Pending, vars, durable, holder
<1>2. CASE \E kind \in Kinds, o \in Ops : Prepare(kind, o)
  BY <1>2, PrepareJournalInv
<1>3. CASE StartRecovery \/ HolderStep
  BY <1>3, MutatorJournalInv, RollbackJournalInv, RecoveryJournalInv DEF HolderStep
<1>4. CASE BeginFails \/ StepFails \/ RollbackFails \/ Crash
  BY <1>4, FaultJournalInv DEF FaultStep
<1> QED
  BY <1>1, <1>2, <1>3, <1>4 DEF Next

\* Whatever operations overlap and wherever processes die, the SQLite journal
\* and the manifests stay in agreement ...
THEOREM JournalAgrees == Spec => [](TypeOK /\ JournalInv)
<1> QED
  BY InitTypeOK, InitJournalInv, NextTypeOK, NextJournalInv, PTL DEF Spec

\* ... so RecoverOperations never has to refuse an instance with
\* ErrOperationConflict.
THEOREM NoConflictEver == Spec => []NoConflict
<1>1. TypeOK /\ JournalInv => NoConflict
  BY DEF TypeOK, JournalInv, Agree, NoConflict, Conflict, JournalStates,
         PendingStates, ManifestStates
<1> QED
  BY <1>1, JournalAgrees, PTL

-----------------------------------------------------------------------------
(* Files, for any sets of keys, contents and operations: FilesInv, under   *)
(* the assumption that no two operations overlapped, relates the live     *)
(* file, the backup, the staged file and the manifest's evidence of every  *)
(* key to the recorded artifact.                                           *)

\* An operation with no manifest yet, or no longer a directory, has no files.
Empty(o) ==
    /\ listed[o] = {}
    /\ installed[o] = {}
    /\ original[o] = NoFiles
    /\ staged[o] = NoFiles
    /\ backup[o] = NoFiles

\* Everything about a listed key of an undoable operation is enough to put the
\* recorded file back.
Restorable(o, k) ==
    /\ original[o][k] \in {Absent, recorded[k]}
    /\ backup[o][k] # Absent =>
          backup[o][k] = recorded[k] /\ original[o][k] = recorded[k]
    /\ backup[o][k] = Absent =>
          \/ live[k] = recorded[k]
          \/ /\ recorded[k] = Absent
             /\ live[k] = digest[o][k]
             /\ digest[o][k] # Absent
             /\ staged[o][k] = Absent
    /\ (digest[o][k] # Absent /\ staged[o][k] = Absent
          /\ backup[o][k] = Absent /\ original[o][k] = Absent) =>
          recorded[k] = Absent
    /\ (k \in installed[o] /\ digest[o][k] # Absent) => staged[o][k] = Absent

\* A key of the current operation that Install has not reached.
Untouched(k) ==
    /\ live[k] = recorded[k]
    /\ original[cur][k] = Absent
    /\ backup[cur][k] = Absent
    /\ staged[cur][k] = digest[cur][k]
    /\ k \notin installed[cur]

\* The progress of Install and Rollback over the current operation's entries.
ProgressInv ==
    /\ pc = "stage" => \A k \in listed[cur] : Untouched(k)
    /\ pc \in {"install", "backup", "place", "mark"} =>
          \A k \in listed[cur] :
             IF k \in todo THEN k # key => Untouched(k)
                           ELSE live[k] = digest[cur][k]
    /\ pc = "backup" =>
          /\ live[key] = recorded[key]
          /\ live[key] # Absent
          /\ original[cur][key] = live[key]
          /\ backup[cur][key] = Absent
          /\ staged[cur][key] = digest[cur][key]
          /\ key \notin installed[cur]
    /\ pc = "place" =>
          /\ live[key] = Absent
          /\ original[cur][key] = recorded[key]
          /\ backup[cur][key] = recorded[key]
          /\ staged[cur][key] = digest[cur][key]
          /\ key \notin installed[cur]
    /\ pc = "mark" =>
          /\ live[key] = digest[cur][key]
          /\ original[cur][key] = recorded[key]
          /\ backup[cur][key] = recorded[key]
          /\ staged[cur][key] = Absent
    /\ pc \in {"advance", "commit"} =>
          \A k \in listed[cur] : live[k] = digest[cur][k]
    /\ pc \in {"rollback", "restore"} =>
          \A k \in listed[cur] \ todo :
             live[k] = recorded[k] /\ backup[cur][k] = Absent
    /\ pc = "restore" => backup[cur][key] # Absent

\* Operations that do not overlap are resolved one at a time.
OneUnresolved == \A o, p \in Ops : Unresolved(o) /\ Unresolved(p) => o = p

EmptyInv ==
    \A o \in Ops : manifest[o] = "no-dir" \/ (pc = "save" /\ cur = o) => Empty(o)

UnlistedInv ==
    \A o \in Ops : \A k \in Keys \ listed[o] :
        /\ original[o][k] = Absent
        /\ backup[o][k] = Absent
        /\ k \notin installed[o]

RestorableInv == \A o \in Ops : Undoable(o) => \A k \in listed[o] : Restorable(o, k)

LiveInv == \A k \in Keys : ~Touched(k) => live[k] = recorded[k]

FilesInv ==
    /\ OneUnresolved
    /\ EmptyInv
    /\ UnlistedInv
    /\ RestorableInv
    /\ LiveInv
    /\ ProgressInv

IInv == TypeOK /\ JournalInv /\ (~overlap => FilesInv)

-----------------------------------------------------------------------------
LEMMA HolderUnresolved ==
  TypeOK /\ JournalInv /\ pc \notin {"idle", "recover"} => cur \in Ops /\ Unresolved(cur)
  BY DEF TypeOK, JournalInv, HolderInv, Unresolved, Pending, Undoable, PendingStates

LEMMA MutatorFilesInv == TypeOK /\ JournalInv /\ FilesInv /\ MutatorStep => FilesInv'
<1> SUFFICES ASSUME TypeOK, JournalInv, FilesInv, MutatorStep PROVE FilesInv'
  OBVIOUS
<1> USE NoneAssumption, HolderUnresolved DEF TypeOK, FilesInv, PendingStates, 
        JournalInv, HolderInv, Agree, Undoable, Pending, Unresolved, opFiles, durable, Goto
<1>1. CASE MakeDirectory
  <2>1. OneUnresolved'
    BY <1>1 DEF MakeDirectory, OneUnresolved
  <2>2. EmptyInv'
    BY <1>1 DEF MakeDirectory, EmptyInv, Empty
  <2>3. UnlistedInv'
    BY <1>1 DEF MakeDirectory, UnlistedInv, EmptyInv, Empty
  <2>4. RestorableInv'
    BY <1>1 DEF MakeDirectory, RestorableInv, Restorable, OneUnresolved, ProgressInv, Untouched
  <2>5. LiveInv'
    BY <1>1 DEF MakeDirectory, LiveInv, Touched, OneUnresolved, RestorableInv, Restorable, ProgressInv
  <2>6. ProgressInv'
    BY <1>1 DEF MakeDirectory, ProgressInv, Untouched, RestorableInv, Restorable, LiveInv, Touched, OneUnresolved, EmptyInv, Empty
  <2> QED
    BY <2>1, <2>2, <2>3, <2>4, <2>5, <2>6
<1>2. CASE SaveFirstManifest
  <2>1. OneUnresolved'
    BY <1>2 DEF SaveFirstManifest, OneUnresolved
  <2>2. EmptyInv'
    BY <1>2 DEF SaveFirstManifest, EmptyInv, Empty
  <2>3. UnlistedInv'
    BY <1>2 DEF SaveFirstManifest, UnlistedInv, EmptyInv, Empty
  <2>4. RestorableInv'
    BY <1>2 DEF SaveFirstManifest, RestorableInv, EmptyInv, Empty, Restorable, OneUnresolved, ProgressInv, Untouched
  <2>5. LiveInv'
    BY <1>2 DEF SaveFirstManifest, LiveInv, Touched, OneUnresolved, RestorableInv, Restorable, ProgressInv
  <2>6. ProgressInv'
    BY <1>2 DEF SaveFirstManifest, ProgressInv, Untouched, RestorableInv, Restorable, LiveInv, Touched, OneUnresolved, EmptyInv, Empty
  <2> QED
    BY <2>1, <2>2, <2>3, <2>4, <2>5, <2>6
<1>3. CASE VerifyStaged
  <2>1. OneUnresolved'
    BY <1>3 DEF VerifyStaged, OneUnresolved
  <2>2. EmptyInv'
    BY <1>3 DEF VerifyStaged, EmptyInv, Empty
  <2>3. UnlistedInv'
    BY <1>3 DEF VerifyStaged, UnlistedInv, EmptyInv, Empty
  <2>4. RestorableInv'
    BY <1>3 DEF VerifyStaged, RestorableInv, Restorable, OneUnresolved, ProgressInv, Untouched
  <2>5. LiveInv'
    BY <1>3 DEF VerifyStaged, LiveInv, Touched, OneUnresolved, RestorableInv, Restorable, ProgressInv
  <2>6. ProgressInv'
    BY <1>3 DEF VerifyStaged, ProgressInv, Untouched, RestorableInv, Restorable, LiveInv, Touched, OneUnresolved, EmptyInv, Empty
  <2> QED
    BY <2>1, <2>2, <2>3, <2>4, <2>5, <2>6
<1>4. CASE MoveToBackup
  <2>1. OneUnresolved'
    BY <1>4 DEF MoveToBackup, OneUnresolved
  <2>2. EmptyInv'
    BY <1>4 DEF MoveToBackup, EmptyInv, Empty
  <2>3. UnlistedInv'
    BY <1>4 DEF MoveToBackup, UnlistedInv, ProgressInv
  <2>4. RestorableInv'
    BY <1>4 DEF MoveToBackup, RestorableInv, Restorable, OneUnresolved, ProgressInv, Untouched
  <2>5. LiveInv'
    BY <1>4 DEF MoveToBackup, LiveInv, Touched, OneUnresolved, RestorableInv, Restorable, ProgressInv
  <2>6. ProgressInv'
    BY <1>4 DEF MoveToBackup, ProgressInv, Untouched, RestorableInv, Restorable, LiveInv, Touched, OneUnresolved, EmptyInv, Empty
  <2> QED
    BY <2>1, <2>2, <2>3, <2>4, <2>5, <2>6
<1>5. CASE PlaceStaged
  <2>1. OneUnresolved'
    BY <1>5 DEF PlaceStaged, OneUnresolved
  <2>2. EmptyInv'
    BY <1>5 DEF PlaceStaged, EmptyInv, Empty
  <2>3. UnlistedInv'
    BY <1>5 DEF PlaceStaged, UnlistedInv, EmptyInv, Empty
  <2>4. RestorableInv'
    BY <1>5 DEF PlaceStaged, RestorableInv, Restorable, OneUnresolved, ProgressInv, Untouched
  <2>5. LiveInv'
    BY <1>5 DEF PlaceStaged, LiveInv, Touched, OneUnresolved, RestorableInv, Restorable, ProgressInv
  <2>6. ProgressInv'
    BY <1>5 DEF PlaceStaged, ProgressInv, Untouched, RestorableInv, Restorable, LiveInv, Touched, OneUnresolved, EmptyInv, Empty
  <2> QED
    BY <2>1, <2>2, <2>3, <2>4, <2>5, <2>6
<1>6. CASE MarkInstalled
  <2>1. OneUnresolved'
    BY <1>6 DEF MarkInstalled, NextEntry, OneUnresolved
  <2>2. EmptyInv'
    BY <1>6 DEF MarkInstalled, NextEntry, EmptyInv, Empty
  <2>3. UnlistedInv'
    BY <1>6 DEF MarkInstalled, NextEntry, UnlistedInv, ProgressInv
  <2>4. RestorableInv'
    BY <1>6 DEF MarkInstalled, NextEntry, RestorableInv, Restorable, OneUnresolved, ProgressInv, Untouched
  <2>5. LiveInv'
    BY <1>6 DEF MarkInstalled, NextEntry, LiveInv, Touched, OneUnresolved, RestorableInv, Restorable, ProgressInv
  <2>6. ProgressInv'
    BY <1>6 DEF MarkInstalled, NextEntry, ProgressInv, Untouched, RestorableInv, Restorable, LiveInv, Touched, OneUnresolved, EmptyInv, Empty
  <2> QED
    BY <2>1, <2>2, <2>3, <2>4, <2>5, <2>6
<1>7. CASE FinishInstall
  <2>1. OneUnresolved'
    BY <1>7 DEF FinishInstall, OneUnresolved
  <2>2. EmptyInv'
    BY <1>7 DEF FinishInstall, EmptyInv, Empty
  <2>3. UnlistedInv'
    BY <1>7 DEF FinishInstall, UnlistedInv, EmptyInv, Empty
  <2>4. RestorableInv'
    BY <1>7 DEF FinishInstall, RestorableInv, Restorable, OneUnresolved, ProgressInv, Untouched
  <2>5. LiveInv'
    BY <1>7 DEF FinishInstall, LiveInv, Touched, OneUnresolved, RestorableInv, Restorable, ProgressInv
  <2>6. ProgressInv'
    BY <1>7 DEF FinishInstall, ProgressInv, Untouched, RestorableInv, Restorable, LiveInv, Touched, OneUnresolved, EmptyInv, Empty
  <2> QED
    BY <2>1, <2>2, <2>3, <2>4, <2>5, <2>6
<1>8. CASE AdvanceInstalled
  <2>1. OneUnresolved'
    BY <1>8 DEF AdvanceInstalled, OneUnresolved
  <2>2. EmptyInv'
    BY <1>8 DEF AdvanceInstalled, EmptyInv, Empty
  <2>3. UnlistedInv'
    BY <1>8 DEF AdvanceInstalled, UnlistedInv, EmptyInv, Empty
  <2>4. RestorableInv'
    BY <1>8 DEF AdvanceInstalled, RestorableInv, Restorable, OneUnresolved, ProgressInv, Untouched
  <2>5. LiveInv'
    BY <1>8 DEF AdvanceInstalled, LiveInv, Touched, OneUnresolved, RestorableInv, Restorable, ProgressInv
  <2>6. ProgressInv'
    BY <1>8 DEF AdvanceInstalled, ProgressInv, Untouched, RestorableInv, Restorable, LiveInv, Touched, OneUnresolved, EmptyInv, Empty
  <2> QED
    BY <2>1, <2>2, <2>3, <2>4, <2>5, <2>6
<1>9. CASE CommitState
  <2>1. OneUnresolved'
    BY <1>9 DEF CommitState, OneUnresolved
  <2>2. EmptyInv'
    BY <1>9 DEF CommitState, EmptyInv, Empty
  <2>3. UnlistedInv'
    BY <1>9 DEF CommitState, UnlistedInv, EmptyInv, Empty
  <2>4. RestorableInv'
    BY <1>9 DEF CommitState, RestorableInv, Restorable, OneUnresolved, ProgressInv, Untouched
  <2>5. LiveInv'
    BY <1>9 DEF CommitState, LiveInv, Touched, OneUnresolved, RestorableInv, Restorable, ProgressInv
  <2>6. ProgressInv'
    BY <1>9 DEF CommitState, ProgressInv, Untouched, RestorableInv, Restorable, LiveInv, Touched, OneUnresolved, EmptyInv, Empty
  <2> QED
    BY <2>1, <2>2, <2>3, <2>4, <2>5, <2>6
<1>10. CASE CommitFiles
  <2>1. OneUnresolved'
    BY <1>10 DEF CommitFiles, OneUnresolved
  <2>2. EmptyInv'
    BY <1>10 DEF CommitFiles, EmptyInv, Empty
  <2>3. UnlistedInv'
    BY <1>10 DEF CommitFiles, UnlistedInv, EmptyInv, Empty
  <2>4. RestorableInv'
    BY <1>10 DEF CommitFiles, RestorableInv, Restorable, OneUnresolved, ProgressInv, Untouched
  <2>5. LiveInv'
    BY <1>10 DEF CommitFiles, LiveInv, Touched, OneUnresolved, RestorableInv, Restorable, ProgressInv
  <2>6. ProgressInv'
    BY <1>10 DEF CommitFiles, ProgressInv, Untouched, RestorableInv, Restorable, LiveInv, Touched, OneUnresolved, EmptyInv, Empty
  <2> QED
    BY <2>1, <2>2, <2>3, <2>4, <2>5, <2>6
<1>11. CASE RemoveManifest
  <2>1. OneUnresolved'
    BY <1>11 DEF RemoveManifest, OneUnresolved
  <2>2. EmptyInv'
    BY <1>11 DEF RemoveManifest, EmptyInv, Empty
  <2>3. UnlistedInv'
    BY <1>11 DEF RemoveManifest, UnlistedInv, EmptyInv, Empty
  <2>4. RestorableInv'
    BY <1>11 DEF RemoveManifest, RestorableInv, Restorable, OneUnresolved, ProgressInv, Untouched
  <2>5. LiveInv'
    BY <1>11 DEF RemoveManifest, LiveInv, Touched, OneUnresolved, RestorableInv, Restorable, ProgressInv
  <2>6. ProgressInv'
    BY <1>11 DEF RemoveManifest, ProgressInv, Untouched, RestorableInv, Restorable, LiveInv, Touched, OneUnresolved, EmptyInv, Empty
  <2> QED
    BY <2>1, <2>2, <2>3, <2>4, <2>5, <2>6
<1>12. CASE RemoveDirectory
  <2>1. OneUnresolved'
    BY <1>12 DEF RemoveDirectory, EndOperation, Release, NoFiles, OneUnresolved
  <2>2. EmptyInv'
    BY <1>12 DEF RemoveDirectory, EndOperation, Release, NoFiles, EmptyInv, Empty
  <2>3. UnlistedInv'
    BY <1>12 DEF RemoveDirectory, EndOperation, Release, NoFiles, UnlistedInv, EmptyInv, Empty
  <2>4. RestorableInv'
    BY <1>12 DEF RemoveDirectory, EndOperation, Release, NoFiles, RestorableInv, Restorable, OneUnresolved, ProgressInv, Untouched
  <2>5. LiveInv'
    BY <1>12 DEF RemoveDirectory, EndOperation, Release, NoFiles, LiveInv, Touched, OneUnresolved, RestorableInv, Restorable, ProgressInv
  <2>6. ProgressInv'
    BY <1>12 DEF RemoveDirectory, EndOperation, Release, NoFiles, ProgressInv, Untouched, RestorableInv, Restorable, LiveInv, Touched, OneUnresolved, EmptyInv, Empty
  <2> QED
    BY <2>1, <2>2, <2>3, <2>4, <2>5, <2>6
<1>13. ASSUME NEW k \in Keys, Stage(k) PROVE FilesInv'
  <2>a. cur \in Ops /\ cur' = cur /\ pc = "stage" /\ pc' = "stage"
    BY <1>13 DEF Stage
  <2>b. ASSUME NEW j \in listed'[cur] PROVE Untouched(j)'
    <3>1. j \in Keys /\ (j = k \/ j \in listed[cur])
      BY <1>13, <2>a DEF Stage
    <3>2. CASE j \in listed[cur]
      BY <1>13, <2>a, <3>1, <3>2 DEF Stage, ProgressInv, Untouched
    <3>3. CASE j = k /\ k \notin listed[cur]
      <4>1. ~Touched(k)
        BY <2>a, <3>3 DEF Touched, OneUnresolved
      <4>2. live[k] = recorded[k]
        BY <4>1 DEF LiveInv
      <4>3. original[cur][k] = Absent /\ backup[cur][k] = Absent /\ k \notin installed[cur]
        BY <2>a, <3>3 DEF UnlistedInv
      <4> QED
        BY <1>13, <2>a, <3>3, <4>2, <4>3 DEF Stage, Untouched
    <3> QED
      BY <3>1, <3>2, <3>3
  <2>1. OneUnresolved'
    BY <1>13 DEF Stage, OneUnresolved
  <2>2. EmptyInv'
    BY <1>13 DEF Stage, EmptyInv, Empty
  <2>3. UnlistedInv'
    BY <1>13 DEF Stage, UnlistedInv, EmptyInv, Empty
  <2>4. RestorableInv'
    <3> SUFFICES ASSUME NEW o \in Ops, Undoable(o)', NEW j \in listed'[o]
                 PROVE  Restorable(o, j)'
      BY DEF RestorableInv
    <3>1. o = cur
      BY <1>13, <2>a DEF Stage, OneUnresolved
    <3>2. Untouched(j)'
      BY <2>b, <3>1
    <3> QED
      BY <2>a, <3>1, <3>2 DEF Restorable, Untouched
  <2>5. LiveInv'
    BY <1>13 DEF Stage, LiveInv, Touched, OneUnresolved, RestorableInv, Restorable, ProgressInv
  <2>6. ProgressInv'
    <3>1. \A j \in listed'[cur'] : Untouched(j)'
      BY <2>a, <2>b
    <3> QED
      BY <2>a, <3>1 DEF ProgressInv
  <2> QED
    BY <2>1, <2>2, <2>3, <2>4, <2>5, <2>6
<1>14. ASSUME NEW k \in Keys, InspectTarget(k) PROVE FilesInv'
  <2>1. OneUnresolved'
    BY <1>14 DEF InspectTarget, OneUnresolved
  <2>2. EmptyInv'
    BY <1>14 DEF InspectTarget, EmptyInv, Empty
  <2>3. UnlistedInv'
    BY <1>14 DEF InspectTarget, UnlistedInv, ProgressInv
  <2>4. RestorableInv'
    BY <1>14 DEF InspectTarget, RestorableInv, Restorable, OneUnresolved, ProgressInv, Untouched
  <2>5. LiveInv'
    BY <1>14 DEF InspectTarget, LiveInv, Touched, OneUnresolved, RestorableInv, Restorable, ProgressInv
  <2>6. ProgressInv'
    BY <1>14 DEF InspectTarget, ProgressInv, Untouched, RestorableInv, Restorable, LiveInv, Touched, OneUnresolved, EmptyInv, Empty
  <2> QED
    BY <2>1, <2>2, <2>3, <2>4, <2>5, <2>6
<1> QED
  BY <1>1, <1>2, <1>3, <1>4, <1>5, <1>6, <1>7, <1>8, <1>9, <1>10, <1>11,
     <1>12, <1>13, <1>14 DEF MutatorStep

LEMMA RollbackFilesInv == TypeOK /\ JournalInv /\ FilesInv /\ RollbackStep => FilesInv'
<1> SUFFICES ASSUME TypeOK, JournalInv, FilesInv, RollbackStep PROVE FilesInv'
  OBVIOUS
<1> USE NoneAssumption, HolderUnresolved DEF TypeOK, FilesInv, PendingStates, 
        JournalInv, HolderInv, Agree, Undoable, Pending, Unresolved, opFiles, durable, Goto
<1>1. CASE RestoreBackup
  <2>1. OneUnresolved'
    BY <1>1 DEF RestoreBackup, NextEntry, OneUnresolved
  <2>2. EmptyInv'
    BY <1>1 DEF RestoreBackup, NextEntry, EmptyInv, Empty
  <2>3. UnlistedInv'
    BY <1>1 DEF RestoreBackup, NextEntry, UnlistedInv, EmptyInv, Empty
  <2>4. RestorableInv'
    BY <1>1 DEF RestoreBackup, NextEntry, RestorableInv, Restorable, OneUnresolved, ProgressInv, Untouched
  <2>5. LiveInv'
    BY <1>1 DEF RestoreBackup, NextEntry, LiveInv, Touched, OneUnresolved, RestorableInv, Restorable, ProgressInv
  <2>6. ProgressInv'
    BY <1>1 DEF RestoreBackup, NextEntry, ProgressInv, Untouched, RestorableInv, Restorable, LiveInv, Touched, OneUnresolved, EmptyInv, Empty
  <2> QED
    BY <2>1, <2>2, <2>3, <2>4, <2>5, <2>6
<1>2. CASE FinishRollback
  <2>1. OneUnresolved'
    BY <1>2 DEF FinishRollback, OneUnresolved
  <2>2. EmptyInv'
    BY <1>2 DEF FinishRollback, EmptyInv, Empty
  <2>3. UnlistedInv'
    BY <1>2 DEF FinishRollback, UnlistedInv, EmptyInv, Empty
  <2>4. RestorableInv'
    BY <1>2 DEF FinishRollback, RestorableInv, Restorable, OneUnresolved, ProgressInv, Untouched
  <2>5. LiveInv'
    BY <1>2 DEF FinishRollback, LiveInv, Touched, OneUnresolved, RestorableInv, Restorable, ProgressInv
  <2>6. ProgressInv'
    BY <1>2 DEF FinishRollback, ProgressInv, Untouched, RestorableInv, Restorable, LiveInv, Touched, OneUnresolved, EmptyInv, Empty
  <2> QED
    BY <2>1, <2>2, <2>3, <2>4, <2>5, <2>6
<1>3. CASE AdvanceRolledBack
  <2>1. OneUnresolved'
    BY <1>3 DEF AdvanceRolledBack, EndOperation, Release, OneUnresolved
  <2>2. EmptyInv'
    BY <1>3 DEF AdvanceRolledBack, EndOperation, Release, EmptyInv, Empty
  <2>3. UnlistedInv'
    BY <1>3 DEF AdvanceRolledBack, EndOperation, Release, UnlistedInv, EmptyInv, Empty
  <2>4. RestorableInv'
    BY <1>3 DEF AdvanceRolledBack, EndOperation, Release, RestorableInv, Restorable, OneUnresolved, ProgressInv, Untouched
  <2>5. LiveInv'
    BY <1>3 DEF AdvanceRolledBack, EndOperation, Release, LiveInv, Touched, OneUnresolved, RestorableInv, Restorable, ProgressInv
  <2>6. ProgressInv'
    BY <1>3 DEF AdvanceRolledBack, EndOperation, Release, ProgressInv, Untouched, RestorableInv, Restorable, LiveInv, Touched, OneUnresolved, EmptyInv, Empty
  <2> QED
    BY <2>1, <2>2, <2>3, <2>4, <2>5, <2>6
<1>4. ASSUME NEW k \in Keys, RollbackUnbacked(k) PROVE FilesInv'
  <2>1. OneUnresolved'
    BY <1>4 DEF RollbackUnbacked, Identified, Placed, OneUnresolved
  <2>2. EmptyInv'
    BY <1>4 DEF RollbackUnbacked, Identified, Placed, EmptyInv, Empty
  <2>3. UnlistedInv'
    BY <1>4 DEF RollbackUnbacked, Identified, Placed, UnlistedInv, EmptyInv, Empty
  <2>4. RestorableInv'
    BY <1>4 DEF RollbackUnbacked, Identified, Placed, RestorableInv, Restorable, OneUnresolved, ProgressInv, Untouched
  <2>5. LiveInv'
    BY <1>4 DEF RollbackUnbacked, Identified, Placed, LiveInv, Touched, OneUnresolved, RestorableInv, Restorable, ProgressInv
  <2>6. ProgressInv'
    BY <1>4 DEF RollbackUnbacked, Identified, Placed, ProgressInv, Untouched, RestorableInv, Restorable, LiveInv, Touched, OneUnresolved, EmptyInv, Empty
  <2> QED
    BY <2>1, <2>2, <2>3, <2>4, <2>5, <2>6
<1>5. ASSUME NEW k \in Keys, RemoveTarget(k) PROVE FilesInv'
  <2>1. OneUnresolved'
    BY <1>5 DEF RemoveTarget, OneUnresolved
  <2>2. EmptyInv'
    BY <1>5 DEF RemoveTarget, EmptyInv, Empty
  <2>3. UnlistedInv'
    BY <1>5 DEF RemoveTarget, UnlistedInv, EmptyInv, Empty
  <2>4. RestorableInv'
    BY <1>5 DEF RemoveTarget, RestorableInv, Restorable, OneUnresolved, ProgressInv, Untouched
  <2>5. LiveInv'
    BY <1>5 DEF RemoveTarget, LiveInv, Touched, OneUnresolved, RestorableInv, Restorable, ProgressInv
  <2>6. ProgressInv'
    BY <1>5 DEF RemoveTarget, ProgressInv, Untouched, RestorableInv, Restorable, LiveInv, Touched, OneUnresolved, EmptyInv, Empty
  <2> QED
    BY <2>1, <2>2, <2>3, <2>4, <2>5, <2>6
<1>6. ASSUME NEW k \in Keys, RollbackRefused(k) PROVE FilesInv'
  <2>1. OneUnresolved'
    BY <1>6 DEF RollbackRefused, Release, OneUnresolved
  <2>2. EmptyInv'
    BY <1>6 DEF RollbackRefused, Release, EmptyInv, Empty
  <2>3. UnlistedInv'
    BY <1>6 DEF RollbackRefused, Release, UnlistedInv, EmptyInv, Empty
  <2>4. RestorableInv'
    BY <1>6 DEF RollbackRefused, Release, RestorableInv, Restorable, OneUnresolved, ProgressInv, Untouched
  <2>5. LiveInv'
    BY <1>6 DEF RollbackRefused, Release, LiveInv, Touched, OneUnresolved, RestorableInv, Restorable, ProgressInv
  <2>6. ProgressInv'
    BY <1>6 DEF RollbackRefused, Release, ProgressInv, Untouched, RestorableInv, Restorable, LiveInv, Touched, OneUnresolved, EmptyInv, Empty
  <2> QED
    BY <2>1, <2>2, <2>3, <2>4, <2>5, <2>6
<1> QED
  BY <1>1, <1>2, <1>3, <1>4, <1>5, <1>6 DEF RollbackStep

LEMMA RecoveryFilesInv == TypeOK /\ JournalInv /\ FilesInv /\ (RecoveryStep \/ StartRecovery) => FilesInv'
<1> SUFFICES ASSUME TypeOK, JournalInv, FilesInv, RecoveryStep \/ StartRecovery PROVE FilesInv'
  OBVIOUS
<1> USE NoneAssumption, HolderUnresolved DEF TypeOK, FilesInv, PendingStates, 
        JournalInv, HolderInv, Agree, Undoable, Pending, Unresolved, opFiles, durable, Goto
<1>1. CASE StartRecovery
  <2>1. OneUnresolved'
    BY <1>1 DEF StartRecovery, OneUnresolved
  <2>2. EmptyInv'
    BY <1>1 DEF StartRecovery, EmptyInv, Empty
  <2>3. UnlistedInv'
    BY <1>1 DEF StartRecovery, UnlistedInv, EmptyInv, Empty
  <2>4. RestorableInv'
    BY <1>1 DEF StartRecovery, RestorableInv, Restorable, OneUnresolved, ProgressInv, Untouched
  <2>5. LiveInv'
    BY <1>1 DEF StartRecovery, LiveInv, Touched, OneUnresolved, RestorableInv, Restorable, ProgressInv
  <2>6. ProgressInv'
    BY <1>1 DEF StartRecovery, ProgressInv, Untouched, RestorableInv, Restorable, LiveInv, Touched, OneUnresolved, EmptyInv, Empty
  <2> QED
    BY <2>1, <2>2, <2>3, <2>4, <2>5, <2>6
<1>2. CASE RecoverDone
  <2>1. OneUnresolved'
    BY <1>2 DEF RecoverDone, Release, OneUnresolved
  <2>2. EmptyInv'
    BY <1>2 DEF RecoverDone, Release, EmptyInv, Empty
  <2>3. UnlistedInv'
    BY <1>2 DEF RecoverDone, Release, UnlistedInv, EmptyInv, Empty
  <2>4. RestorableInv'
    BY <1>2 DEF RecoverDone, Release, RestorableInv, Restorable, OneUnresolved, ProgressInv, Untouched
  <2>5. LiveInv'
    BY <1>2 DEF RecoverDone, Release, LiveInv, Touched, OneUnresolved, RestorableInv, Restorable, ProgressInv
  <2>6. ProgressInv'
    BY <1>2 DEF RecoverDone, Release, ProgressInv, Untouched, RestorableInv, Restorable, LiveInv, Touched, OneUnresolved, EmptyInv, Empty
  <2> QED
    BY <2>1, <2>2, <2>3, <2>4, <2>5, <2>6
<1>3. ASSUME NEW o \in Ops, RecoverPending(o) PROVE FilesInv'
  <2>1. OneUnresolved'
    BY <1>3 DEF RecoverPending, RollBack, OneUnresolved
  <2>2. EmptyInv'
    BY <1>3 DEF RecoverPending, RollBack, EmptyInv, Empty
  <2>3. UnlistedInv'
    BY <1>3 DEF RecoverPending, RollBack, UnlistedInv, EmptyInv, Empty
  <2>4. RestorableInv'
    BY <1>3 DEF RecoverPending, RollBack, RestorableInv, Restorable, OneUnresolved, ProgressInv, Untouched
  <2>5. LiveInv'
    BY <1>3 DEF RecoverPending, RollBack, LiveInv, Touched, OneUnresolved, RestorableInv, Restorable, ProgressInv
  <2>6. ProgressInv'
    BY <1>3 DEF RecoverPending, RollBack, ProgressInv, Untouched, RestorableInv, Restorable, LiveInv, Touched, OneUnresolved, EmptyInv, Empty
  <2> QED
    BY <2>1, <2>2, <2>3, <2>4, <2>5, <2>6
<1>4. ASSUME NEW o \in Ops, RecoverRemaining(o) PROVE FilesInv'
  <2>1. OneUnresolved'
    BY <1>4 DEF RecoverRemaining, RollBack, OneUnresolved
  <2>2. EmptyInv'
    BY <1>4 DEF RecoverRemaining, RollBack, EmptyInv, Empty
  <2>3. UnlistedInv'
    BY <1>4 DEF RecoverRemaining, RollBack, UnlistedInv, EmptyInv, Empty
  <2>4. RestorableInv'
    BY <1>4 DEF RecoverRemaining, RollBack, RestorableInv, Restorable, OneUnresolved, ProgressInv, Untouched
  <2>5. LiveInv'
    BY <1>4 DEF RecoverRemaining, RollBack, LiveInv, Touched, OneUnresolved, RestorableInv, Restorable, ProgressInv
  <2>6. ProgressInv'
    BY <1>4 DEF RecoverRemaining, RollBack, ProgressInv, Untouched, RestorableInv, Restorable, LiveInv, Touched, OneUnresolved, EmptyInv, Empty
  <2> QED
    BY <2>1, <2>2, <2>3, <2>4, <2>5, <2>6
<1>5. ASSUME NEW o \in Ops, RecoverRefused(o) PROVE FilesInv'
  <2>1. OneUnresolved'
    BY <1>5 DEF RecoverRefused, Release, OneUnresolved
  <2>2. EmptyInv'
    BY <1>5 DEF RecoverRefused, Release, EmptyInv, Empty
  <2>3. UnlistedInv'
    BY <1>5 DEF RecoverRefused, Release, UnlistedInv, EmptyInv, Empty
  <2>4. RestorableInv'
    BY <1>5 DEF RecoverRefused, Release, RestorableInv, Restorable, OneUnresolved, ProgressInv, Untouched
  <2>5. LiveInv'
    BY <1>5 DEF RecoverRefused, Release, LiveInv, Touched, OneUnresolved, RestorableInv, Restorable, ProgressInv
  <2>6. ProgressInv'
    BY <1>5 DEF RecoverRefused, Release, ProgressInv, Untouched, RestorableInv, Restorable, LiveInv, Touched, OneUnresolved, EmptyInv, Empty
  <2> QED
    BY <2>1, <2>2, <2>3, <2>4, <2>5, <2>6
<1> QED
  BY <1>1, <1>2, <1>3, <1>4, <1>5 DEF RecoveryStep

LEMMA FaultFilesInv == TypeOK /\ JournalInv /\ FilesInv /\ FaultStep => FilesInv'
<1> SUFFICES ASSUME TypeOK, JournalInv, FilesInv, FaultStep PROVE FilesInv'
  OBVIOUS
<1> USE NoneAssumption, HolderUnresolved DEF TypeOK, FilesInv, PendingStates, 
        JournalInv, HolderInv, Agree, Undoable, Pending, Unresolved, opFiles, durable, Goto
<1>1. CASE BeginFails
  <2>1. OneUnresolved'
    BY <1>1 DEF BeginFails, OneUnresolved
  <2>2. EmptyInv'
    BY <1>1 DEF BeginFails, EmptyInv, Empty
  <2>3. UnlistedInv'
    BY <1>1 DEF BeginFails, UnlistedInv, EmptyInv, Empty
  <2>4. RestorableInv'
    BY <1>1 DEF BeginFails, RestorableInv, Restorable, OneUnresolved, ProgressInv, Untouched
  <2>5. LiveInv'
    BY <1>1 DEF BeginFails, LiveInv, Touched, OneUnresolved, RestorableInv, Restorable, ProgressInv
  <2>6. ProgressInv'
    BY <1>1 DEF BeginFails, ProgressInv, Untouched, RestorableInv, Restorable, LiveInv, Touched, OneUnresolved, EmptyInv, Empty
  <2> QED
    BY <2>1, <2>2, <2>3, <2>4, <2>5, <2>6
<1>2. CASE StepFails
  <2>1. OneUnresolved'
    BY <1>2 DEF StepFails, NextEntry, OneUnresolved
  <2>2. EmptyInv'
    BY <1>2 DEF StepFails, NextEntry, EmptyInv, Empty
  <2>3. UnlistedInv'
    BY <1>2 DEF StepFails, NextEntry, UnlistedInv, EmptyInv, Empty
  <2>4. RestorableInv'
    BY <1>2 DEF StepFails, NextEntry, RestorableInv, Restorable, OneUnresolved, ProgressInv, Untouched
  <2>5. LiveInv'
    BY <1>2 DEF StepFails, NextEntry, LiveInv, Touched, OneUnresolved, RestorableInv, Restorable, ProgressInv
  <2>6. ProgressInv'
    BY <1>2 DEF StepFails, NextEntry, ProgressInv, Untouched, RestorableInv, Restorable, LiveInv, Touched, OneUnresolved, EmptyInv, Empty
  <2> QED
    BY <2>1, <2>2, <2>3, <2>4, <2>5, <2>6
<1>3. CASE RollbackFails
  <2>1. OneUnresolved'
    BY <1>3 DEF RollbackFails, NextEntry, OneUnresolved
  <2>2. EmptyInv'
    BY <1>3 DEF RollbackFails, NextEntry, EmptyInv, Empty
  <2>3. UnlistedInv'
    BY <1>3 DEF RollbackFails, NextEntry, UnlistedInv, EmptyInv, Empty
  <2>4. RestorableInv'
    BY <1>3 DEF RollbackFails, NextEntry, RestorableInv, Restorable, OneUnresolved, ProgressInv, Untouched
  <2>5. LiveInv'
    BY <1>3 DEF RollbackFails, NextEntry, LiveInv, Touched, OneUnresolved, RestorableInv, Restorable, ProgressInv
  <2>6. ProgressInv'
    BY <1>3 DEF RollbackFails, NextEntry, ProgressInv, Untouched, RestorableInv, Restorable, LiveInv, Touched, OneUnresolved, EmptyInv, Empty
  <2> QED
    BY <2>1, <2>2, <2>3, <2>4, <2>5, <2>6
<1>4. CASE Crash
  <2>1. OneUnresolved'
    BY <1>4 DEF Crash, Release, OneUnresolved
  <2>2. EmptyInv'
    BY <1>4 DEF Crash, Release, EmptyInv, Empty
  <2>3. UnlistedInv'
    BY <1>4 DEF Crash, Release, UnlistedInv, EmptyInv, Empty
  <2>4. RestorableInv'
    BY <1>4 DEF Crash, Release, RestorableInv, Restorable, OneUnresolved, ProgressInv, Untouched
  <2>5. LiveInv'
    BY <1>4 DEF Crash, Release, LiveInv, Touched, OneUnresolved, RestorableInv, Restorable, ProgressInv
  <2>6. ProgressInv'
    BY <1>4 DEF Crash, Release, ProgressInv, Untouched, RestorableInv, Restorable, LiveInv, Touched, OneUnresolved, EmptyInv, Empty
  <2> QED
    BY <2>1, <2>2, <2>3, <2>4, <2>5, <2>6
<1> QED
  BY <1>1, <1>2, <1>3, <1>4 DEF FaultStep

\* Prepare either overlaps an unresolved operation or finds everything settled.
LEMMA PrepareFilesInv ==
  ASSUME TypeOK, JournalInv, ~overlap => FilesInv, ~overlap',
         NEW kind \in Kinds, NEW o \in Ops, Prepare(kind, o)
  PROVE  FilesInv'
<1>1. FilesInv /\ \A p \in Ops : ~Unresolved(p)
  BY DEF Prepare
<1>2. \A p \in Ops : manifest[p] = "no-dir" /\ manifest' = manifest
  BY <1>1 DEF Unresolved, Prepare
<1>3. \A p \in Ops : Empty(p)
  BY <1>1, <1>2 DEF FilesInv, EmptyInv
<1>4. live = recorded
  <2>1. \A k \in Keys : live[k] = recorded[k]
    BY <1>1, <1>2 DEF FilesInv, LiveInv, Touched, Undoable
  <2> QED
    BY <2>1 DEF TypeOK
<1>5. OneUnresolved'
  BY <1>1, <1>2 DEF OneUnresolved, Unresolved, Pending, Prepare, TypeOK
<1>6. EmptyInv' /\ UnlistedInv'
  BY <1>1, <1>3 DEF FilesInv, EmptyInv, UnlistedInv, Empty, Prepare
<1>7. RestorableInv' /\ LiveInv'
  BY <1>2, <1>4 DEF RestorableInv, LiveInv, Undoable, Prepare
<1>8. ProgressInv'
  BY DEF ProgressInv, Prepare
<1> QED
  BY <1>5, <1>6, <1>7, <1>8 DEF FilesInv

LEMMA NextIInv == IInv /\ [Next]_vars => IInv'
<1> SUFFICES ASSUME IInv, [Next]_vars PROVE IInv'
  OBVIOUS
<1>1. TypeOK' /\ JournalInv'
  BY NextTypeOK, NextJournalInv DEF IInv
<1>2. ASSUME ~overlap' PROVE FilesInv'
  <2>1. CASE UNCHANGED vars
    <3>1. FilesInv
      BY <1>2, <2>1 DEF IInv, vars, history
    <3> QED
      BY <2>1, <3>1 DEF FilesInv, OneUnresolved, EmptyInv, UnlistedInv,
         RestorableInv, LiveInv, ProgressInv, Empty, Restorable, Untouched,
         Touched, Undoable, Unresolved, Pending, vars, durable, holder
  <2>2. CASE \E kind \in Kinds, o \in Ops : Prepare(kind, o)
    BY <1>2, <2>2, PrepareFilesInv DEF IInv
  <2>3. CASE StartRecovery \/ HolderStep
    <3>1. overlap' = overlap
      BY <2>3 DEF StartRecovery, HolderStep, MutatorStep, RollbackStep,
         RecoveryStep, history, MakeDirectory, SaveFirstManifest, Stage,
         VerifyStaged, InspectTarget, MoveToBackup, PlaceStaged, MarkInstalled,
         FinishInstall, AdvanceInstalled, CommitState, CommitFiles,
         RemoveManifest, RemoveDirectory, RollbackUnbacked, RemoveTarget,
         RestoreBackup, FinishRollback, RollbackRefused, AdvanceRolledBack,
         RecoverPending, RecoverRemaining, RecoverRefused, RecoverDone
    <3> QED
      BY <1>2, <2>3, <3>1, MutatorFilesInv, RollbackFilesInv, RecoveryFilesInv
      DEF HolderStep, IInv
  <2>4. CASE BeginFails \/ StepFails \/ RollbackFails \/ Crash
    <3>1. overlap' = overlap
      BY <2>4 DEF BeginFails, StepFails, RollbackFails, Crash, Fault
    <3> QED
      BY <1>2, <2>4, <3>1, FaultFilesInv DEF FaultStep, IInv
  <2> QED
    BY <2>1, <2>2, <2>3, <2>4 DEF Next
<1> QED
  BY <1>1, <1>2 DEF IInv

LEMMA InitIInv == Init => IInv
<1> SUFFICES ASSUME Init PROVE IInv
  OBVIOUS
<1>1. TypeOK /\ JournalInv
  BY InitTypeOK, InitJournalInv
<1>2. OneUnresolved /\ EmptyInv /\ RestorableInv /\ LiveInv
  BY DEF Init, OneUnresolved, EmptyInv, RestorableInv, LiveInv, Empty,
         Undoable, Unresolved, Pending, PendingStates
<1>3. UnlistedInv /\ ProgressInv
  BY DEF Init, UnlistedInv, ProgressInv, NoFiles
<1> QED
  BY <1>1, <1>2, <1>3 DEF IInv, FilesInv

\* The inductive invariant holds in every reachable state.
THEOREM Invariance == Spec => []IInv
<1> QED
  BY InitIInv, NextIInv, PTL DEF Spec

-----------------------------------------------------------------------------
\* What follows from it

\* At every moment, crashes included, a file no undoable operation lists is
\* the file the artifacts table records (unless operations overlapped).
THEOREM CommittedFilesAlwaysLive == Spec => []CommittedFilesLive
<1>1. IInv => CommittedFilesLive
  BY DEF IInv, FilesInv, LiveInv, CommittedFilesLive
<1> QED
  BY <1>1, Invariance, PTL

\* Rollback, in the mutator's closure or in RecoverOperations, can always
\* identify and restore every file of an operation that did not commit.
THEOREM RollbackNeverRefuses == Spec => []RollbackNeverStuck
<1>1. ASSUME IInv PROVE RollbackNeverStuck
  <2> SUFFICES ASSUME ~overlap, NEW o \in Ops, Undoable(o), NEW k \in listed[o]
               PROVE  /\ backup[o][k] = Absent => Identified(o, k)
                      /\ recorded[k] \in {Absent, live[k], backup[o][k]}
    BY DEF RollbackNeverStuck
  <2>1. Restorable(o, k)
    BY <1>1 DEF IInv, FilesInv, RestorableInv
  <2> QED
    BY <2>1 DEF Restorable, Identified, Placed
<1> QED
  BY <1>1, Invariance, PTL

\* Only an operation whose manifest lists a key, and which has not committed
\* in SQLite, changes that file: overlapping operations included.
THEOREM FilesChangeOnlyUnderManifest == Spec => FilesChangeUnderManifest
<1> DEFINE Allowed == \A k \in Keys : live'[k] # live[k] =>
                          /\ k \in listed[cur]
                          /\ Undoable(cur)
<1>1. TypeOK /\ JournalInv /\ [Next]_vars => [Allowed]_vars
  <2> SUFFICES ASSUME TypeOK, JournalInv, Next PROVE Allowed
    OBVIOUS
  <2>1. CASE live' = live
    BY <2>1
  <2>2. CASE MoveToBackup \/ PlaceStaged \/ RestoreBackup
    <3>1. live' = [live EXCEPT ![key] = live'[key]] /\ pc \in {"backup", "place", "restore"}
      BY <2>2 DEF MoveToBackup, PlaceStaged, RestoreBackup, TypeOK
    <3> QED
      BY <3>1 DEF TypeOK, JournalInv, HolderInv, Undoable
  <2>3. ASSUME NEW k \in Keys, RollbackUnbacked(k) \/ RemoveTarget(k) PROVE Allowed
    BY <2>3 DEF RollbackUnbacked, RemoveTarget, TypeOK, JournalInv, HolderInv
  <2> QED
    BY <2>1, <2>2, <2>3
    DEF Next, HolderStep, StartRecovery, MutatorStep, RollbackStep,
        RecoveryStep, Prepare, durable, MakeDirectory, SaveFirstManifest, Stage,
        VerifyStaged, InspectTarget, MarkInstalled, FinishInstall,
        AdvanceInstalled, CommitState, CommitFiles, RemoveManifest,
        RemoveDirectory, FinishRollback, RollbackRefused, AdvanceRolledBack,
        RecoverPending, RecoverRemaining, RecoverRefused, RecoverDone,
        BeginFails, StepFails, RollbackFails, Crash
<1> QED
  BY <1>1, JournalAgrees, PTL DEF Spec, FilesChangeUnderManifest

-----------------------------------------------------------------------------
\* The journal protocol implements AtomicUpdate

LEMMA SettledView == IInv /\ View # {} => View = {recorded} /\ pc = "idle"
<1> SUFFICES ASSUME IInv, View # {} PROVE View = {recorded} /\ pc = "idle"
  OBVIOUS
<1>1. Settled /\ ~overlap /\ View = {live}
  BY DEF View
<1>2. \A k \in Keys : live[k] = recorded[k]
  BY <1>1 DEF IInv, FilesInv, LiveInv, Touched, Settled, Undoable, Unresolved
<1> QED
  BY <1>1, <1>2 DEF IInv, TypeOK, Settled

\* Only the SQLite commit changes what is recorded; nothing but starting a
\* process happens while the lock is free.
LEMMA RecordedStep ==
  ASSUME TypeOK, Next
  PROVE  /\ recorded' = recorded \/ (CommitState /\ recorded' \in [Keys -> File])
         /\ pc # "idle" \/ pc' # "idle"
<1>1. ASSUME CommitState PROVE recorded' \in [Keys -> File]
  BY <1>1 DEF CommitState, TypeOK
<1>2. recorded' = recorded \/ CommitState
  BY DEF Next, HolderStep, StartRecovery, MutatorStep, RollbackStep,
         RecoveryStep, Prepare, durable, MakeDirectory, SaveFirstManifest, Stage,
         VerifyStaged, InspectTarget, MoveToBackup, PlaceStaged, MarkInstalled,
         FinishInstall, AdvanceInstalled, CommitFiles, RemoveManifest,
         RemoveDirectory, RollbackUnbacked, RemoveTarget, RestoreBackup,
         FinishRollback, RollbackRefused, AdvanceRolledBack, RecoverPending,
         RecoverRemaining, RecoverRefused, RecoverDone, BeginFails, StepFails,
         RollbackFails, Crash
<1>3. pc # "idle" \/ pc' # "idle"
  BY DEF Next, HolderStep, StartRecovery, MutatorStep, RollbackStep,
         RecoveryStep, Prepare, MakeDirectory, SaveFirstManifest, Stage,
         VerifyStaged, InspectTarget, MoveToBackup, PlaceStaged, MarkInstalled,
         FinishInstall, AdvanceInstalled, CommitState, CommitFiles,
         RemoveManifest, RemoveDirectory, RollbackUnbacked, RemoveTarget,
         RestoreBackup, FinishRollback, RollbackRefused, AdvanceRolledBack,
         RecoverPending, RecoverRemaining, RecoverRefused, RecoverDone,
         BeginFails, StepFails, RollbackFails, Crash
<1> QED
  BY <1>1, <1>2, <1>3

\* Every behaviour of the journal protocol, with its crashes, failed steps and
\* recoveries, is a behaviour of all-or-nothing updates of the artifacts.
THEOREM JournalImplementsAtomicUpdate == Spec => ImplementsAtomicUpdate
<1>1. Init => Atomic!Init
  BY DEF Init, Atomic!Init, View, Settled, Unresolved, Pending, PendingStates
<1>2. IInv /\ IInv' /\ [Next]_vars => [Atomic!Next]_(Atomic!vars)
  <2> SUFFICES ASSUME IInv, IInv', [Next]_vars
               PROVE  Atomic!Next \/ UNCHANGED <<recorded, View>>
    BY DEF Atomic!vars
  <2>1. CASE UNCHANGED vars
    BY <2>1 DEF vars, durable, holder, history, View, Settled, Unresolved, Pending
  <2>2. CASE Next /\ View' = {} /\ recorded' = recorded
    BY <2>2 DEF Atomic!Next, Atomic!Begin
  <2>3. CASE Next /\ View' # {} /\ recorded' = recorded
    <3>1. View' = {recorded} /\ pc' = "idle"
      <4>1. (IInv /\ View # {} => View = {recorded} /\ pc = "idle")'
        BY SettledView, PTL
      <4> QED
        BY <2>3, <4>1
    <3>2. pc # "idle"
      BY <2>3, <3>1, RecordedStep DEF IInv
    <3>3. View = {}
      BY <3>2 DEF View, Settled
    <3> QED
      BY <2>3, <3>1, <3>3 DEF Atomic!Next, Atomic!Settle
  <2>4. CASE Next /\ recorded' # recorded
    <3>1. CommitState /\ recorded' \in [Keys -> File]
      BY <2>4, RecordedStep DEF IInv
    <3>2. View = {} /\ View' = {}
      BY <3>1 DEF CommitState, Goto, View, Settled
    <3> QED
      BY <3>1, <3>2 DEF Atomic!Next, Atomic!Commit
  <2> QED
    BY <2>1, <2>2, <2>3, <2>4
<1> QED
  BY <1>1, <1>2, Invariance, PTL DEF Spec, ImplementsAtomicUpdate, Atomic!Spec
==============================================================================
