---------------------------- MODULE InstanceProofs ---------------------------
(***************************************************************************)
(* The life of a data root, for every number of crashes and accidents,     *)
(* every set of clients and every schema 3 source: what initialization and *)
(* migration leave is always whole or covered by a marker that says how to *)
(* go on, the clients a migration imports are those of the source, a       *)
(* server loads complete instances, unless the recovery of a migration had *)
(* begun to empty the root, and the database vouches for genuine material  *)
(* only.                                                                   *)
(*                                                                         *)
(* Inv has a part for the root, by what the root was at first (RootInv),   *)
(* and a part for the repair (RepairShape, VouchInv).  Each action is      *)
(* shown to keep its part in a lemma of its own.                           *)
(***************************************************************************)
EXTENDS Instance, Schema3Proofs, FiniteSetTheorems

-----------------------------------------------------------------------------
(* The inductive invariant, in parts.                                      *)

Deferred == {"none", "not-empty"}

\* The place of a directory in installEntries; the keys are not in it.
InstallPlace ==
    [cache |-> 1, ccd |-> 2, clients |-> 3, config |-> 4, meta |-> 5, server |-> 6,
     pki |-> 7, secrets |-> 7]

\* The root when k directories have been replaced, and the migrated one.
Halfway(k) == [d \in Directories |-> IF InstallPlace[d] <= k THEN "v4" ELSE "v3"]
Migrated   == Halfway(6)

\* A root that holds schema 3, or did: initialization refuses it and repair
\* is not looked at.
LegacyInv ==
    /\ holder \in {"none", "migrate"}
    /\ marker = "none" /\ ~tmp /\ ~stage /\ staged = {} /\ next = 1
    /\ pc = <<"step", "idle">> /\ journal = "none"
    /\ outcome \in Deferred

\* The place of a directory in backupEntries, and the root when k of them
\* have been restored.
BackupPlace ==
    [cache |-> 1, ccd |-> 2, clients |-> 3, config |-> 4, meta |-> 5, pki |-> 6,
     secrets |-> 7, server |-> 8]
RestoredTo(k) == [d \in Directories |-> IF BackupPlace[d] <= k THEN "v3" ELSE "absent"]

\* Without a marker the root is whole, in schema 3 or 4.  It has an archive
\* and is not migrated only when a run was killed, or on its way.
UnmarkedInv ==
    manifest = "none" =>
        /\ at \in {"idle", "recover", "plan", "snapshot", "archive", "mark"}
        /\ live \in {V3Root, Migrated} /\ build = "none"
        /\ at \in {"snapshot", "archive", "mark"} => live = V3Root /\ SourceReady(legacy)
        /\ at = "archive" => snapshot = NoSnapshot
        /\ at = "mark" => snapshot = V3Root
        /\ snapshot = V3Root /\ live = V3Root =>
             crashes > 0 \/ at = "mark" \/ (recovered /\ at \in {"plan", "snapshot"})

\* Where a recovery may be, under any unfinished marker.
Recovering == {"idle", "recover", "clear", "restore", "forget"}

\* While the marker is unfinished: the root is as far as the run is, or what a
\* killed or refused run left.
UnfinishedInv ==
    manifest \in Unfinished =>
        /\ at = "clear" => \A d \in Directories : BackupPlace[d] <= installed => live[d] = "absent"
        /\ at = "restore" => live = RestoredTo(installed)
        /\ at = "forget" => live = V3Root /\ build = "none"
        /\ manifest = "snapshot-ready" =>
             /\ at \in Recovering \cup {"copy", "stage", "staged"}
             /\ at \in {"copy", "stage", "staged"} => live = V3Root
        /\ manifest = "staged" =>
             /\ at \in Recovering \cup {"install"}
             /\ at = "install" => live = V3Root
        /\ manifest = "installing" =>
             /\ at \in Recovering \cup {"remove", "rename"}
             /\ at = "remove" => installed <= 6 /\ live = Halfway(installed)
             /\ at = "rename" =>
                  /\ installed < 6
                  /\ live = [Halfway(installed) EXCEPT ![Installs[installed + 1]] = "absent"]

CommittedInv ==
    manifest = "committed" =>
        /\ at \in {"idle", "recover", "forget", "clean", "unmark"}
        /\ live = Migrated
        /\ at \in {"forget", "unmark"} => build = "none"

MigratingInv ==
    /\ (holder = "migrate") <=> (at # "idle")
    /\ holder = "migrate" => verdict = "none"
    /\ snapshot \in {NoSnapshot, V3Root}
    /\ snapshot # NoSnapshot => SourceReady(legacy)
    /\ manifest # "none" => snapshot = V3Root
    /\ snapshot = NoSnapshot => live = V3Root
    /\ recovered => snapshot = V3Root
    /\ clients # NoClients => clients = StagedClients(legacy) /\ SourceReady(legacy)
    /\ partial /\ at # "archive" => crashes > 0
    /\ at \notin {"idle", "clear", "restore", "remove", "rename", "clean", "unmark"} => installed = 0
    /\ verdict # "conflict"
    /\ verdict = "source-invalid" => ~SourceReady(legacy)
    /\ verdict = "snapshot-refused" => ~Archivable(legacy)
    /\ verdict = "stage-refused" => ~StageHealthy(legacy)
    /\ verdict = "recovery-required" => legacy.overrun # "none"
    /\ verdict = "snapshot-exists" => crashes > 0 /\ (partial \/ snapshot # NoSnapshot)
    /\ UnmarkedInv /\ UnfinishedInv /\ CommittedInv

\* A root that was empty, or schema 4, at first: nothing is migrated.
CurrentInv ==
    /\ manifest = "none" /\ snapshot = NoSnapshot /\ ~partial /\ build = "none"
    /\ installed = 0 /\ ~recovered /\ clients = NoClients
    /\ at \in {"idle", "recover", "plan"}
    /\ (holder = "migrate") <=> (at # "idle")
    /\ verdict \in {"none", "current", "source-invalid"}

\* The place of a directory in defaultEntries.
EntryPlace == [pki |-> 1, secrets |-> 2, server |-> 3, clients |-> 4, ccd |-> 5, meta |-> 6]

\* The directories are moved in order.
PrefixInv ==
    /\ \A d \in Directories : live[d] = "absent" \/ (d \in EntrySet /\ live[d] = "v4")
    /\ \A d, e \in EntrySet : EntryPlace[d] < EntryPlace[e] /\ live[e] = "v4" => live[d] = "v4"

Installing == {<<"write", "installing">>, <<"rename", "installing">>}
Moved      == \A e \in EntrySet : live[e] = "v4"

\* What each marker says of the root, and where the process may be under it.
NoMarkerInv ==
    marker = "none" =>
        /\ ~stage /\ staged = {}
        /\ live = EmptyRoot => journal = "none"
        /\ live # EmptyRoot => live = V4Root /\ journal \in {"none", "committed"}
        /\ holder = "init" =>
             live = EmptyRoot /\ pc \in {<<"write", "staging">>, <<"rename", "staging">>}

StagingInv ==
    marker = "staging" =>
        /\ live = EmptyRoot
        /\ holder = "init" =>
             pc \in {<<"step", "mkdir">>, <<"step", "build">>,
                     <<"write", "prepared">>, <<"rename", "prepared">>}
        /\ pc \in {<<"write", "prepared">>, <<"rename", "prepared">>} =>
             staged = EntrySet /\ journal = "prepared"
        /\ journal \in {"none", "prepared"}

InstallingInv ==
    /\ marker = "prepared" /\ holder = "init" => pc \in Installing
    /\ marker = "installing" /\ holder = "init" =>
         pc \in {<<"step", "install">>, <<"write", "files-installed">>,
                 <<"rename", "files-installed">>} \cup Installing

FilesInstalledInv ==
    marker = "files-installed" =>
        /\ Moved /\ journal \in {"files-installed", "rolled-back", "committed"}
        /\ holder = "init" => pc \in {<<"step", "commit">>, <<"write", "committed">>,
                                      <<"rename", "committed">>} \cup Installing

FinishingInv ==
    marker = "committed" =>
        /\ Moved /\ journal = "committed"
        /\ holder = "init" => pc \in {<<"step", "clean">>, <<"step", "unmark">>} \cup Installing

MarkerInv == NoMarkerInv /\ StagingInv /\ InstallingInv /\ FilesInstalledInv /\ FinishingInv

\* Once the marker is prepared every directory is in the stage or in the root.
PreparedInv ==
    marker \in Markers \ {"staging"} =>
        /\ \A e \in EntrySet : e \in staged <=> live[e] = "absent"
        /\ journal # "none"
        /\ ~Moved => journal = "prepared"

\* The position of the process.
PositionInv ==
    /\ (holder = "init") <=> (pc # <<"step", "idle">>)
    /\ pc \in {<<"step", "install">>} \cup Installing =>
         \A e \in EntrySet : EntryPlace[e] < next => live[e] = "v4"
    /\ pc \in {<<"write", "files-installed">>, <<"rename", "files-installed">>} =>
         Moved /\ journal \in {"files-installed", "rolled-back", "committed"}
    /\ pc \in {<<"write", "committed">>, <<"rename", "committed">>} => journal = "committed"
    /\ pc = <<"step", "unmark">> => ~stage
    /\ holder = "init" /\ marker \in {"none", "staging"} => next = 1
    /\ tmp => crashes > 0 \/ (holder = "init" /\ pc[1] = "rename")

\* What the last run answered.
OutcomeInv ==
    /\ holder = "init" => outcome = "none"
    /\ outcome = "recovery-needed" => journal = "rolled-back"
    /\ outcome = "not-empty" => (tmp /\ crashes > 0) \/ live # EmptyRoot

InitializingInv ==
    /\ PrefixInv /\ MarkerInv /\ PreparedInv /\ PositionInv /\ OutcomeInv
    /\ server # "stopped" => live["meta"] = "v4"

RootInv ==
    /\ legacy \in Legacies
    /\ server = "running" => holder # "migrate"
    /\ work.promised => work.made /\ live["meta"] = "v4" /\ manifest \in {"none", "committed"}
    /\ live["meta"] = "v4" /\ live["server"] = "v4" => Complete \/ Emptying
    /\ IF legacy = NoLegacy THEN CurrentInv /\ InitializingInv ELSE LegacyInv /\ MigratingInv

-----------------------------------------------------------------------------
(* The repair's part.                                                      *)

\* What the recovery of a file is planned as.
RecoveryOf(f) == [type |-> actionForArtifact(f[1]), owner |-> f[2], kind |-> ""]

\* The files whose content becomes part of a profile.
Ingredients == {<<"tls-crypt", "instance">>} \cup ({"client-cert", "client-key"} \X Owners)

Register == "REGISTER_VERIFIED_ARTIFACT"

ClientActions == {"REFRESH_CLIENT_ARTIFACTS", "RECOVER_CLIENT_IDENTITY"}

\* An action a plan may hold: client actions have a client, and only a file
\* whose row was lost is registered.
ActionOK(a) ==
    /\ a = [type |-> a.type, owner |-> a.owner, kind |-> a.kind]
    /\ a.type \in Automatic
    /\ a.type # Register => a.kind = ""
    /\ a.type \in ClientActions => a.owner \in Owners
    /\ a.type \notin ClientActions \cup {Register} => a.owner = "instance"
    /\ a.type = Register =>
         /\ <<a.kind, a.owner>> \in Recorded \cap lost
         /\ a.kind \notin {"server-config", "profile", "ccd"}

\* The files an action writes.
Targets(a) ==
    CASE a.type = "REBUILD_CRL"              -> {<<"crl", "instance">>}
      [] a.type = "RECOVER_CA_CERT"          -> {<<"ca-cert", "instance">>}
      [] a.type = "RECOVER_CLIENT_IDENTITY"  -> {"client-cert", "client-key"} \X {a.owner}
      [] a.type = "RECOVER_TLS_CRYPT"        -> {<<"tls-crypt", "instance">>}
      [] a.type = "REFRESH_CLIENT_ARTIFACTS" -> {"profile", "ccd"} \X {a.owner}
      [] a.type = "REFRESH_SERVER_ARTIFACTS" -> {<<"server-config", "instance">>}
      [] a.type = Register                   -> {}

\* The files whose digests it records.
Recording(a) ==
    CASE a.type = Register                   -> {<<a.kind, a.owner>>}
      [] a.type = "REFRESH_CLIENT_ARTIFACTS" ->
           Targets(a) \cup {<<"client-cert", a.owner>>, <<"client-key", a.owner>>}
      [] OTHER -> Targets(a)

\* The open operation.
OpInv ==
    op # NoOperation =>
        /\ op = [action |-> op.action, writes |-> op.writes, left |-> op.left,
                 before |-> op.before]
        /\ ActionOK(op.action)
        /\ op.writes \in [Targets(op.action) -> Values]
        /\ op.left \subseteq Targets(op.action)
        /\ op.before \in [Targets(op.action) -> Values]

RepairShape ==
    /\ RepairTypeOK
    /\ meta \in [Recorded -> {NoMetadata} \cup (Values \ {"absent"})]
    /\ \A a \in todo : ActionOK(a)
    /\ OpInv
    /\ (phase = "install") <=> (holder = "repair")
    /\ phase = "install" => op # NoOperation /\ op.action \in todo
    /\ phase \in {"replan", "apply"} => op = NoOperation
    /\ legacy # NoLegacy => RepairInit

\* A file that may not be what the instance wrote.
Doubtful(f) == Sources(f) \cap (lost \cup swapped) # {}

\* What a recorded file will be when the operation commits.
Result(f) == IF f \in Targets(op.action) THEN op.writes[f] ELSE content[f]

\* A file without a row has lost it, or never had one.
RowsInv == \A f \in Recorded : meta[f] = NoMetadata => f \in lost \/ Original(f) = "absent"

\* What a profile is made of is what the database says, or is recovered
\* before it is used.
CoverInv ==
    phase \in {"apply", "install"} =>
        \A f \in Ingredients \ (lost \cup swapped) : content[f] = meta[f] \/ RecoveryOf(f) \in todo

\* What an operation is about to record is genuine.
CommitInv ==
    phase = "install" =>
        /\ \A f \in Targets(op.action) \ op.left : content[f] = op.writes[f]
        /\ \A f \in Recording(op.action) :
             /\ Result(f) = Original(f) \/ Doubtful(f)
             /\ Result(f) = "absent" => Original(f) = "absent"

VouchInv == VouchedGenuine /\ RowsInv /\ CoverInv /\ CommitInv

Inv == TypeOK /\ RootInv /\ RepairShape /\ VouchInv

-----------------------------------------------------------------------------
(* Roots                                                                   *)

\* Types and root invariant.
Base == DirectoryTypeOK /\ InitializeTypeOK /\ MigrationTypeOK /\ RootInv

Initializing == Base /\ legacy = NoLegacy /\ UNCHANGED migration

\* The directories of defaultEntries and their places.
LEMMA EntriesAre ==
    /\ Len(Entries) = 6
    /\ EntrySet = {"pki", "secrets", "server", "clients", "ccd", "meta"}
    /\ \A i \in 1..6 : EntryPlace[Entries[i]] = i
    /\ \A e \in EntrySet : EntryPlace[e] \in 1..6 /\ Entries[EntryPlace[e]] = e
<1>1. Entries[1] = "pki" /\ Entries[2] = "secrets" /\ Entries[3] = "server"
       /\ Entries[4] = "clients" /\ Entries[5] = "ccd" /\ Entries[6] = "meta"
  BY DEF Entries
<1>2. Len(Entries) = 6
  BY DEF Entries
<1>3. EntrySet = {"pki", "secrets", "server", "clients", "ccd", "meta"}
  BY <1>1, <1>2 DEF EntrySet
<1>4. \A i \in 1..6 : i = 1 \/ i = 2 \/ i = 3 \/ i = 4 \/ i = 5 \/ i = 6
  OBVIOUS
<1> QED
  BY <1>1, <1>2, <1>3, <1>4 DEF EntryPlace

\* The marker under which the process is at a step.
MarkerAtStep ==
    [mkdir |-> "staging", build |-> "staging", install |-> "installing",
     commit |-> "files-installed", clean |-> "committed", unmark |-> "committed"]

\* Each step of Initialize runs under one marker, except the repeated
\* writing of the installing one.
LEMMA MarkerOfStep ==
    ASSUME InitializingInv, InitializeTypeOK, holder = "init"
    PROVE  /\ \A s \in DOMAIN MarkerAtStep : pc = <<"step", s>> => marker = MarkerAtStep[s]
           /\ pc \in {<<"write", "staging">>, <<"rename", "staging">>} => marker = "none"
           /\ pc \in {<<"write", "prepared">>, <<"rename", "prepared">>} => marker = "staging"
           /\ pc \in {<<"write", "files-installed">>, <<"rename", "files-installed">>} => marker = "installing"
           /\ pc \in {<<"write", "committed">>, <<"rename", "committed">>} => marker = "files-installed"
           /\ pc \in Installing => marker \in Markers \ {"staging"}
<1>1. marker \in {"none", "staging", "prepared", "installing", "files-installed", "committed"}
  BY DEF InitializeTypeOK, Markers
<1>2. MarkerInv
  BY DEF InitializingInv
<1> QED
  BY <1>1, <1>2 DEF MarkerInv, NoMarkerInv, StagingInv, InstallingInv, FilesInstalledInv,
     FinishingInv, MarkerAtStep, Installing, Markers

\* The stage is made under the staging marker.
LEMMA MakeStageInv ==
    ASSUME Initializing, MakeStage
    PROVE  Base'
<1>0. Base /\ InitializingInv /\ CurrentInv /\ UNCHANGED migration /\ legacy = NoLegacy
  BY DEF Initializing, Base, RootInv
<1>a. PrefixInv /\ MarkerInv /\ PreparedInv /\ PositionInv /\ OutcomeInv
  BY <1>0 DEF InitializingInv
<1> USE DEF At, Go, MakeStage
<1>m. marker = "staging" /\ pc = <<"step", "mkdir">>
  BY <1>0, MarkerOfStep DEF MarkerAtStep, Base
<1>1. DirectoryTypeOK'
  BY <1>0 DEF Base, DirectoryTypeOK, directory, Pending
<1>2. InitializeTypeOK'
  BY <1>0, EntriesAre DEF Base, InitializeTypeOK, Steps, Markers
<1>3. MigrationTypeOK' /\ CurrentInv'
  BY <1>0, <1>a DEF Base, MigrationTypeOK, CurrentInv, PositionInv, migration, directory
<1>4. PrefixInv'
  BY <1>a DEF PrefixInv, directory
<1>5. MarkerInv'
  <2> USE <1>a, <1>m, EntriesAre DEF MarkerInv, PreparedInv, PositionInv, PrefixInv, Moved,
     Installing, EmptyRoot, V4Root, Markers, directory
  <2>0. live \in [Directories -> Contents]
    BY <1>0 DEF Base, DirectoryTypeOK
  <2>1. NoMarkerInv'
    BY <2>0 DEF NoMarkerInv, FinishingInv, StagingInv, Directories
  <2>2. StagingInv'
    BY DEF StagingInv
  <2>3. InstallingInv'
    BY DEF InstallingInv
  <2>4. FilesInstalledInv'
    BY DEF FilesInstalledInv
  <2>5. FinishingInv'
    BY DEF FinishingInv
  <2> QED
    BY <2>1, <2>2, <2>3, <2>4, <2>5
<1>6. PreparedInv'
  BY <1>a, <1>m, EntriesAre DEF MarkerInv, FinishingInv, FilesInstalledInv, PreparedInv,
     Moved, Markers, directory
<1>7. PositionInv'
  BY <1>0, <1>a, <1>m, EntriesAre DEF MarkerInv, PreparedInv, PositionInv, FinishingInv,
     FilesInstalledInv, Moved, Installing, EmptyRoot, Base, DirectoryTypeOK, Pending, Markers,
     directory
<1>8. OutcomeInv'
  BY <1>0, <1>a, <1>m, EntriesAre DEF MarkerInv, FilesInstalledInv, FinishingInv, OutcomeInv,
     Installing, Base, DirectoryTypeOK, Markers, directory
<1>9. NoLegacy' = NoLegacy
  BY DEF NoLegacy
<1> QED
  BY <1>0, <1>1, <1>2, <1>3, <1>4, <1>5, <1>6, <1>7, <1>8, <1>9 DEF Base, RootInv,
     InitializingInv, Complete, Emptying, directory, migration

\* The finished stage holds every directory and a prepared operation.
LEMMA BuildInv ==
    ASSUME Initializing, Build
    PROVE  Base'
<1>0. Base /\ InitializingInv /\ CurrentInv /\ UNCHANGED migration /\ legacy = NoLegacy
  BY DEF Initializing, Base, RootInv
<1>a. PrefixInv /\ MarkerInv /\ PreparedInv /\ PositionInv /\ OutcomeInv
  BY <1>0 DEF InitializingInv
<1> USE DEF At, Go, Build, Write
<1>m. marker = "staging" /\ pc = <<"step", "build">>
  BY <1>0, MarkerOfStep DEF MarkerAtStep, Base
<1>1. DirectoryTypeOK'
  BY <1>0 DEF Base, DirectoryTypeOK, directory, Pending
<1>2. InitializeTypeOK'
  BY <1>0, EntriesAre DEF Base, InitializeTypeOK, Steps, Markers
<1>3. MigrationTypeOK' /\ CurrentInv'
  BY <1>0, <1>a DEF Base, MigrationTypeOK, CurrentInv, PositionInv, migration, directory
<1>4. PrefixInv'
  BY <1>a DEF PrefixInv, directory
<1>5. MarkerInv'
  <2> USE <1>a, <1>m, EntriesAre DEF MarkerInv, PreparedInv, PositionInv, PrefixInv, Moved,
     Installing, EmptyRoot, V4Root, Markers, directory
  <2>0. live \in [Directories -> Contents]
    BY <1>0 DEF Base, DirectoryTypeOK
  <2>1. NoMarkerInv'
    BY <2>0 DEF NoMarkerInv, FinishingInv, StagingInv, Directories
  <2>2. StagingInv'
    BY DEF StagingInv
  <2>3. InstallingInv'
    BY DEF InstallingInv
  <2>4. FilesInstalledInv'
    BY DEF FilesInstalledInv
  <2>5. FinishingInv'
    BY DEF FinishingInv
  <2> QED
    BY <2>1, <2>2, <2>3, <2>4, <2>5
<1>6. PreparedInv'
  BY <1>a, <1>m, EntriesAre DEF MarkerInv, FinishingInv, FilesInstalledInv, PreparedInv,
     Moved, Markers, directory
<1>7. PositionInv'
  BY <1>0, <1>a, <1>m, EntriesAre DEF MarkerInv, PreparedInv, PositionInv, FinishingInv,
     FilesInstalledInv, Moved, Installing, EmptyRoot, Base, DirectoryTypeOK, Pending, Markers,
     directory
<1>8. OutcomeInv'
  BY <1>0, <1>a, <1>m, EntriesAre DEF MarkerInv, FilesInstalledInv, FinishingInv, OutcomeInv,
     Installing, Base, DirectoryTypeOK, Markers, directory
<1>9. NoLegacy' = NoLegacy
  BY DEF NoLegacy
<1> QED
  BY <1>0, <1>1, <1>2, <1>3, <1>4, <1>5, <1>6, <1>7, <1>8, <1>9 DEF Base, RootInv,
     InitializingInv, Complete, Emptying, directory, migration

\* A failed build leaves neither stage nor marker, and the root as empty as
\* it was.
LEMMA BuildFailsInv ==
    ASSUME Initializing, BuildFails
    PROVE  Base'
<1>0. Base /\ InitializingInv /\ CurrentInv /\ UNCHANGED migration /\ legacy = NoLegacy
  BY DEF Initializing, Base, RootInv
<1>a. PrefixInv /\ MarkerInv /\ PreparedInv /\ PositionInv /\ OutcomeInv
  BY <1>0 DEF InitializingInv
<1> USE DEF At, Go, BuildFails, Write, Answer
<1>m. marker = "staging"
  BY <1>0, MarkerOfStep DEF MarkerAtStep, Base
<1>1. DirectoryTypeOK'
  BY <1>0 DEF Base, DirectoryTypeOK, directory, Pending
<1>2. InitializeTypeOK'
  BY <1>0, EntriesAre DEF Base, InitializeTypeOK, Steps, Markers
<1>3. MigrationTypeOK' /\ CurrentInv'
  BY <1>0, <1>a DEF Base, MigrationTypeOK, CurrentInv, PositionInv, migration, directory
<1>4. PrefixInv'
  BY <1>a DEF PrefixInv, directory
<1>5. MarkerInv'
  <2> USE <1>a, <1>m, EntriesAre DEF MarkerInv, PreparedInv, PositionInv, PrefixInv, Moved,
     Installing, EmptyRoot, V4Root, Markers, directory
  <2>0. live \in [Directories -> Contents]
    BY <1>0 DEF Base, DirectoryTypeOK
  <2>1. NoMarkerInv'
    BY <2>0 DEF NoMarkerInv, FinishingInv, StagingInv, Directories
  <2>2. StagingInv'
    BY DEF StagingInv
  <2>3. InstallingInv'
    BY DEF InstallingInv
  <2>4. FilesInstalledInv'
    BY DEF FilesInstalledInv
  <2>5. FinishingInv'
    BY DEF FinishingInv
  <2> QED
    BY <2>1, <2>2, <2>3, <2>4, <2>5
<1>6. PreparedInv'
  BY <1>a, <1>m, EntriesAre DEF MarkerInv, FinishingInv, FilesInstalledInv, PreparedInv,
     Moved, Markers, directory
<1>7. PositionInv'
  BY <1>0, <1>a, <1>m, EntriesAre DEF MarkerInv, PreparedInv, PositionInv, FinishingInv,
     FilesInstalledInv, Moved, Installing, EmptyRoot, Base, DirectoryTypeOK, Pending, Markers,
     directory
<1>8. OutcomeInv'
  BY <1>0, <1>a, <1>m, EntriesAre DEF MarkerInv, FilesInstalledInv, FinishingInv, OutcomeInv,
     Installing, Base, DirectoryTypeOK, Markers, directory
<1>9. NoLegacy' = NoLegacy
  BY DEF NoLegacy
<1> QED
  BY <1>0, <1>1, <1>2, <1>3, <1>4, <1>5, <1>6, <1>7, <1>8, <1>9 DEF Base, RootInv,
     InitializingInv, Complete, Emptying, directory, migration

\* The operation advances only when every directory is in its place.
LEMMA InstallJournalInv ==
    ASSUME Initializing, InstallJournal
    PROVE  Base'
<1>0. Base /\ InitializingInv /\ CurrentInv /\ UNCHANGED migration /\ legacy = NoLegacy
  BY DEF Initializing, Base, RootInv
<1>a. PrefixInv /\ MarkerInv /\ PreparedInv /\ PositionInv /\ OutcomeInv
  BY <1>0 DEF InitializingInv
<1> USE DEF At, Go, InstallJournal, Write
<1>m. marker = "installing" /\ pc = <<"step", "install">>
  BY <1>0, MarkerOfStep DEF MarkerAtStep, Base
<1>b. Moved
  BY <1>0, <1>a, <1>m, EntriesAre DEF PositionInv, Moved
<1>1. DirectoryTypeOK'
  BY <1>0 DEF Base, DirectoryTypeOK, directory, Pending
<1>2. InitializeTypeOK'
  BY <1>0, EntriesAre DEF Base, InitializeTypeOK, Steps, Markers
<1>3. MigrationTypeOK' /\ CurrentInv'
  BY <1>0, <1>a DEF Base, MigrationTypeOK, CurrentInv, PositionInv, migration, directory
<1>4. PrefixInv'
  BY <1>a DEF PrefixInv, directory
<1>5. MarkerInv'
  <2> USE <1>a, <1>m, <1>b, EntriesAre DEF MarkerInv, PreparedInv, PositionInv, PrefixInv,
     Moved, Installing, EmptyRoot, V4Root, Markers, directory
  <2>0. live \in [Directories -> Contents]
    BY <1>0 DEF Base, DirectoryTypeOK
  <2>1. NoMarkerInv'
    BY <2>0 DEF NoMarkerInv, FinishingInv, StagingInv, Directories
  <2>2. StagingInv'
    BY DEF StagingInv
  <2>3. InstallingInv'
    BY DEF InstallingInv
  <2>4. FilesInstalledInv'
    BY DEF FilesInstalledInv
  <2>5. FinishingInv'
    BY DEF FinishingInv
  <2> QED
    BY <2>1, <2>2, <2>3, <2>4, <2>5
<1>6. PreparedInv'
  BY <1>a, <1>m, <1>b, EntriesAre DEF MarkerInv, FinishingInv, FilesInstalledInv,
     PreparedInv, Moved, Markers, directory
<1>7. PositionInv'
  BY <1>0, <1>a, <1>m, <1>b, EntriesAre DEF MarkerInv, PreparedInv, PositionInv,
     FinishingInv, FilesInstalledInv, Moved, Installing, EmptyRoot, Base, DirectoryTypeOK,
     Pending, Markers, directory
<1>8. OutcomeInv'
  BY <1>0, <1>a, <1>m, EntriesAre DEF MarkerInv, FilesInstalledInv, FinishingInv, OutcomeInv,
     Installing, Base, DirectoryTypeOK, Markers, directory
<1>9. NoLegacy' = NoLegacy
  BY DEF NoLegacy
<1> QED
  BY <1>0, <1>1, <1>2, <1>3, <1>4, <1>5, <1>6, <1>7, <1>8, <1>9 DEF Base, RootInv,
     InitializingInv, Complete, Emptying, directory, migration

\* The operation is committed, or was rolled back by `server run` and is
\* given up.
LEMMA InstallCommitInv ==
    ASSUME Initializing, InstallCommit
    PROVE  Base'
<1>0. Base /\ InitializingInv /\ CurrentInv /\ UNCHANGED migration /\ legacy = NoLegacy
  BY DEF Initializing, Base, RootInv
<1>a. PrefixInv /\ MarkerInv /\ PreparedInv /\ PositionInv /\ OutcomeInv
  BY <1>0 DEF InitializingInv
<1> USE DEF At, Go, InstallCommit, Write, Answer
<1>m. marker = "files-installed" /\ pc = <<"step", "commit">>
  BY <1>0, MarkerOfStep DEF MarkerAtStep, Base
<1>1. DirectoryTypeOK'
  BY <1>0 DEF Base, DirectoryTypeOK, directory, Pending
<1>2. InitializeTypeOK'
  BY <1>0, EntriesAre DEF Base, InitializeTypeOK, Steps, Markers
<1>3. MigrationTypeOK' /\ CurrentInv'
  BY <1>0, <1>a DEF Base, MigrationTypeOK, CurrentInv, PositionInv, migration, directory
<1>4. PrefixInv'
  BY <1>a DEF PrefixInv, directory
<1>5. MarkerInv'
  <2> USE <1>a, <1>m, EntriesAre DEF MarkerInv, PreparedInv, PositionInv, PrefixInv, Moved,
     Installing, EmptyRoot, V4Root, Markers, directory
  <2>0. live \in [Directories -> Contents]
    BY <1>0 DEF Base, DirectoryTypeOK
  <2>1. NoMarkerInv'
    BY <2>0 DEF NoMarkerInv, FinishingInv, StagingInv, Directories
  <2>2. StagingInv'
    BY DEF StagingInv
  <2>3. InstallingInv'
    BY DEF InstallingInv
  <2>4. FilesInstalledInv'
    BY DEF FilesInstalledInv
  <2>5. FinishingInv'
    BY DEF FinishingInv
  <2> QED
    BY <2>1, <2>2, <2>3, <2>4, <2>5
<1>6. PreparedInv'
  BY <1>a, <1>m, EntriesAre DEF MarkerInv, FinishingInv, FilesInstalledInv, PreparedInv,
     Moved, Markers, directory
<1>7. PositionInv'
  BY <1>0, <1>a, <1>m, EntriesAre DEF MarkerInv, PreparedInv, PositionInv, FinishingInv,
     FilesInstalledInv, Moved, Installing, EmptyRoot, Base, DirectoryTypeOK, Pending, Markers,
     directory
<1>8. OutcomeInv'
  BY <1>0, <1>a, <1>m, EntriesAre DEF MarkerInv, FilesInstalledInv, FinishingInv, OutcomeInv,
     Installing, Base, DirectoryTypeOK, Markers, directory
<1>9. NoLegacy' = NoLegacy
  BY DEF NoLegacy
<1> QED
  BY <1>0, <1>1, <1>2, <1>3, <1>4, <1>5, <1>6, <1>7, <1>8, <1>9 DEF Base, RootInv,
     InitializingInv, Complete, Emptying, directory, migration

\* The stage goes when the operation is committed.
LEMMA RemoveStageInv ==
    ASSUME Initializing, RemoveStage
    PROVE  Base'
<1>0. Base /\ InitializingInv /\ CurrentInv /\ UNCHANGED migration /\ legacy = NoLegacy
  BY DEF Initializing, Base, RootInv
<1>a. PrefixInv /\ MarkerInv /\ PreparedInv /\ PositionInv /\ OutcomeInv
  BY <1>0 DEF InitializingInv
<1> USE DEF At, Go, RemoveStage
<1>m. marker = "committed" /\ pc = <<"step", "clean">>
  BY <1>0, MarkerOfStep DEF MarkerAtStep, Base
<1>1. DirectoryTypeOK'
  BY <1>0 DEF Base, DirectoryTypeOK, directory, Pending
<1>2. InitializeTypeOK'
  BY <1>0, EntriesAre DEF Base, InitializeTypeOK, Steps, Markers
<1>3. MigrationTypeOK' /\ CurrentInv'
  BY <1>0, <1>a DEF Base, MigrationTypeOK, CurrentInv, PositionInv, migration, directory
<1>4. PrefixInv'
  BY <1>a DEF PrefixInv, directory
<1>5. MarkerInv'
  <2> USE <1>a, <1>m, EntriesAre DEF MarkerInv, PreparedInv, PositionInv, PrefixInv, Moved,
     Installing, EmptyRoot, V4Root, Markers, directory
  <2>0. live \in [Directories -> Contents]
    BY <1>0 DEF Base, DirectoryTypeOK
  <2>1. NoMarkerInv'
    BY <2>0 DEF NoMarkerInv, FinishingInv, StagingInv, Directories
  <2>2. StagingInv'
    BY DEF StagingInv
  <2>3. InstallingInv'
    BY DEF InstallingInv
  <2>4. FilesInstalledInv'
    BY DEF FilesInstalledInv
  <2>5. FinishingInv'
    BY DEF FinishingInv
  <2> QED
    BY <2>1, <2>2, <2>3, <2>4, <2>5
<1>6. PreparedInv'
  BY <1>a, <1>m, EntriesAre DEF MarkerInv, FinishingInv, FilesInstalledInv, PreparedInv,
     Moved, Markers, directory
<1>7. PositionInv'
  BY <1>0, <1>a, <1>m, EntriesAre DEF MarkerInv, PreparedInv, PositionInv, FinishingInv,
     FilesInstalledInv, Moved, Installing, EmptyRoot, Base, DirectoryTypeOK, Pending, Markers,
     directory
<1>8. OutcomeInv'
  BY <1>0, <1>a, <1>m, EntriesAre DEF MarkerInv, FilesInstalledInv, FinishingInv, OutcomeInv,
     Installing, Base, DirectoryTypeOK, Markers, directory
<1>9. NoLegacy' = NoLegacy
  BY DEF NoLegacy
<1> QED
  BY <1>0, <1>1, <1>2, <1>3, <1>4, <1>5, <1>6, <1>7, <1>8, <1>9 DEF Base, RootInv,
     InitializingInv, Complete, Emptying, directory, migration

\* The marker goes last: the root it leaves is complete.
LEMMA RemoveMarkerInv ==
    ASSUME Initializing, RemoveMarker
    PROVE  Base'
<1>0. Base /\ InitializingInv /\ CurrentInv /\ UNCHANGED migration /\ legacy = NoLegacy
  BY DEF Initializing, Base, RootInv
<1>a. PrefixInv /\ MarkerInv /\ PreparedInv /\ PositionInv /\ OutcomeInv
  BY <1>0 DEF InitializingInv
<1> USE DEF At, Go, RemoveMarker, Answer
<1>m. marker = "committed" /\ pc = <<"step", "unmark">>
  BY <1>0, MarkerOfStep DEF MarkerAtStep, Base
<1>b. live = V4Root /\ live # EmptyRoot
  <2>1. Moved /\ live \in [Directories -> Contents]
    BY <1>0, <1>a, <1>m DEF MarkerInv, FinishingInv, Base, DirectoryTypeOK
  <2>2. \A d \in Directories : live[d] = V4Root[d]
    BY <1>a, <2>1 DEF PrefixInv, Moved, V4Root
  <2> QED
    BY <2>1, <2>2, EntriesAre DEF V4Root, EmptyRoot, Directories
<1>c. ~stage /\ staged = {} /\ journal = "committed"
  BY <1>0, <1>a, <1>m DEF MarkerInv, FinishingInv, PreparedInv, PositionInv, Moved, Base,
     InitializeTypeOK, Markers
<1>1. DirectoryTypeOK'
  BY <1>0 DEF Base, DirectoryTypeOK, directory, Pending
<1>2. InitializeTypeOK'
  BY <1>0, EntriesAre DEF Base, InitializeTypeOK, Steps, Markers
<1>3. MigrationTypeOK' /\ CurrentInv'
  BY <1>0, <1>a DEF Base, MigrationTypeOK, CurrentInv, PositionInv, migration, directory
<1>4. PrefixInv'
  BY <1>a DEF PrefixInv, directory
<1>5. MarkerInv'
  <2> USE <1>a, <1>m, <1>b, EntriesAre DEF MarkerInv, PreparedInv, PositionInv, PrefixInv,
     Moved, Installing, EmptyRoot, V4Root, Markers, directory
  <2>0. live \in [Directories -> Contents]
    BY <1>0 DEF Base, DirectoryTypeOK
  <2>1. NoMarkerInv'
    BY <2>0, <1>c DEF NoMarkerInv, FinishingInv, StagingInv, Directories
  <2>2. StagingInv'
    BY DEF StagingInv
  <2>3. InstallingInv'
    BY DEF InstallingInv
  <2>4. FilesInstalledInv'
    BY DEF FilesInstalledInv
  <2>5. FinishingInv'
    BY DEF FinishingInv
  <2> QED
    BY <2>1, <2>2, <2>3, <2>4, <2>5
<1>6. PreparedInv'
  BY <1>a, <1>m, <1>b, EntriesAre DEF MarkerInv, FinishingInv, FilesInstalledInv,
     PreparedInv, Moved, Markers, directory
<1>7. PositionInv'
  BY <1>0, <1>a, <1>m, <1>b, EntriesAre DEF MarkerInv, PreparedInv, PositionInv,
     FinishingInv, FilesInstalledInv, Moved, Installing, EmptyRoot, Base, DirectoryTypeOK,
     Pending, Markers, directory
<1>8. OutcomeInv'
  BY <1>0, <1>a, <1>m, EntriesAre DEF MarkerInv, FilesInstalledInv, FinishingInv, OutcomeInv,
     Installing, Base, DirectoryTypeOK, Markers, directory
<1>9. NoLegacy' = NoLegacy
  BY DEF NoLegacy
<1> QED
  BY <1>0, <1>1, <1>2, <1>3, <1>4, <1>5, <1>6, <1>7, <1>8, <1>9 DEF Base, RootInv,
     InitializingInv, Complete, Emptying, directory, migration

\* A killed run leaves its marker, and what the marker says of the root.
LEMMA KilledInv ==
    ASSUME Initializing, Killed
    PROVE  Base'
<1>0. Base /\ InitializingInv /\ CurrentInv /\ UNCHANGED migration /\ legacy = NoLegacy
  BY DEF Initializing, Base, RootInv
<1>a. PrefixInv /\ MarkerInv /\ PreparedInv /\ PositionInv /\ OutcomeInv
  BY <1>0 DEF InitializingInv
<1> USE DEF Go, Killed
<1>m. holder = "init"
  BY <1>0, MarkerOfStep DEF MarkerAtStep, Base
<1>1. DirectoryTypeOK'
  BY <1>0, CrashesAssumption DEF Base, DirectoryTypeOK, directory, Pending
<1>2. InitializeTypeOK'
  BY <1>0, EntriesAre DEF Base, InitializeTypeOK, Steps, Markers
<1>3. MigrationTypeOK' /\ CurrentInv'
  BY <1>0, <1>a DEF Base, MigrationTypeOK, CurrentInv, PositionInv, migration, directory
<1>4. PrefixInv'
  BY <1>a DEF PrefixInv, directory
<1>5. MarkerInv'
  <2> USE <1>a, <1>m, EntriesAre DEF MarkerInv, PreparedInv, PositionInv, PrefixInv, Moved,
     Installing, EmptyRoot, V4Root, Markers, directory
  <2>0. live \in [Directories -> Contents]
    BY <1>0 DEF Base, DirectoryTypeOK
  <2>1. NoMarkerInv'
    BY <2>0 DEF NoMarkerInv, FinishingInv, StagingInv, Directories
  <2>2. StagingInv'
    BY DEF StagingInv
  <2>3. InstallingInv'
    BY DEF InstallingInv
  <2>4. FilesInstalledInv'
    BY DEF FilesInstalledInv
  <2>5. FinishingInv'
    BY DEF FinishingInv
  <2> QED
    BY <2>1, <2>2, <2>3, <2>4, <2>5
<1>6. PreparedInv'
  BY <1>a, <1>m, EntriesAre DEF MarkerInv, FinishingInv, FilesInstalledInv, PreparedInv,
     Moved, Markers, directory
<1>7. PositionInv'
  BY <1>0, <1>a, <1>m, EntriesAre DEF MarkerInv, PreparedInv, PositionInv, FinishingInv,
     FilesInstalledInv, Moved, Installing, EmptyRoot, Base, DirectoryTypeOK, Pending, Markers,
     directory
<1>8. OutcomeInv'
  BY <1>0, <1>a, <1>m, EntriesAre DEF MarkerInv, FilesInstalledInv, FinishingInv, OutcomeInv,
     Installing, Base, DirectoryTypeOK, Markers, directory
<1>9. NoLegacy' = NoLegacy
  BY DEF NoLegacy
<1> QED
  BY <1>0, <1>1, <1>2, <1>3, <1>4, <1>5, <1>6, <1>7, <1>8, <1>9 DEF Base, RootInv,
     InitializingInv, Complete, Emptying, directory, migration

\* The database is moved last.
LEMMA MetaLast ==
    ASSUME PrefixInv, live["meta"] = "v4"
    PROVE  Moved /\ Complete
<1>1. EntryPlace["meta"] = 6
  BY DEF EntryPlace
<1>2. \A e \in EntrySet : e = "meta" \/ EntryPlace[e] < 6
  BY EntriesAre DEF EntryPlace
<1>3. Moved
  BY <1>1, <1>2, EntriesAre DEF PrefixInv, Moved
<1> QED
  BY <1>3, EntriesAre DEF Moved, Complete, Keys, Rewritten

\* The same of the next state.
LEMMA MetaLastNext ==
    ASSUME PrefixInv', live'["meta"] = "v4"
    PROVE  Moved' /\ Complete'
<1>1. EntryPlace["meta"] = 6
  BY DEF EntryPlace
<1>2. \A e \in EntrySet : e = "meta" \/ EntryPlace[e] < 6
  BY EntriesAre DEF EntryPlace
<1>3. Moved'
  BY <1>1, <1>2, EntriesAre DEF PrefixInv, Moved
<1> QED
  BY <1>3, EntriesAre DEF Moved, Complete, Keys, Rewritten

\* The temporary file of a marker changes nothing the marker says.
LEMMA WriteMarkerInv ==
    ASSUME Initializing, NEW s \in Markers, WriteMarker(s)
    PROVE  Base'
<1>0. Base /\ InitializingInv /\ CurrentInv /\ UNCHANGED migration /\ legacy = NoLegacy
  BY DEF Initializing, Base, RootInv
<1>a. PrefixInv /\ MarkerInv /\ PreparedInv /\ PositionInv /\ OutcomeInv
  BY <1>0 DEF InitializingInv
<1>b. /\ holder = "init" /\ pc = <<"write", s>> /\ tmp' = TRUE /\ pc' = <<"rename", s>>
      /\ UNCHANGED <<live, journal, holder, server, manifest, work, crashes>>
      /\ UNCHANGED <<marker, stage, staged, next, outcome>>
  BY DEF WriteMarker, Write, Rename, directory
<1>1. DirectoryTypeOK' /\ InitializeTypeOK' /\ MigrationTypeOK' /\ CurrentInv' /\ PrefixInv'
  BY <1>0, <1>a, <1>b DEF Base, DirectoryTypeOK, InitializeTypeOK, MigrationTypeOK, CurrentInv,
     PrefixInv, migration
<1>2. MarkerInv'
  BY <1>a, <1>b DEF MarkerInv, NoMarkerInv, StagingInv, InstallingInv, FilesInstalledInv,
     FinishingInv, Installing, Markers, Moved
<1>3. PreparedInv' /\ OutcomeInv'
  BY <1>a, <1>b DEF PreparedInv, OutcomeInv, Moved
<1>4. PositionInv'
  BY <1>a, <1>b DEF PositionInv, Installing, Moved, Markers
<1>5. NoLegacy' = NoLegacy
  BY DEF NoLegacy
<1> QED
  BY <1>0, <1>b, <1>1, <1>2, <1>3, <1>4, <1>5 DEF Base, RootInv, InitializingInv, Complete, Emptying,
     migration

\* A marker is renamed into place only when what it says is true.
LEMMA RenameMarkerInv ==
    ASSUME Initializing, NEW s \in Markers, RenameMarker(s)
    PROVE  Base'
<1>0. Base /\ InitializingInv /\ CurrentInv /\ UNCHANGED migration /\ legacy = NoLegacy
  BY DEF Initializing, Base, RootInv
<1>a. PrefixInv /\ MarkerInv /\ PreparedInv /\ PositionInv /\ OutcomeInv
  BY <1>0 DEF InitializingInv
<1>b. /\ holder = "init" /\ pc = <<"rename", s>> /\ ~tmp' /\ tmp' \in BOOLEAN /\ marker' = s
      /\ pc' = AfterMarker(s)
      /\ UNCHANGED <<live, journal, holder, server, manifest, work, crashes>>
      /\ UNCHANGED <<stage, staged, next, outcome>>
  BY DEF RenameMarker, Rename, directory
<1>c. /\ s = "staging"         => marker = "none"            /\ pc' = <<"step", "mkdir">>
      /\ s = "prepared"        => marker = "staging"         /\ pc' = <<"write", "installing">>
      /\ s = "installing"      => marker \in Markers \ {"staging"} /\ pc' = <<"step", "install">>
      /\ s = "files-installed" => marker = "installing"      /\ pc' = <<"step", "commit">>
      /\ s = "committed"       => marker = "files-installed" /\ pc' = <<"step", "clean">>
  BY <1>0, <1>b, MarkerOfStep DEF AfterMarker, Write, Installing, Base, Markers
<1>d. s \in {"staging", "prepared", "installing", "files-installed", "committed"}
  BY DEF Markers
<1>1. DirectoryTypeOK' /\ MigrationTypeOK' /\ CurrentInv' /\ PrefixInv'
  BY <1>0, <1>a, <1>b DEF Base, DirectoryTypeOK, MigrationTypeOK, CurrentInv, PrefixInv,
     migration
<1>2. InitializeTypeOK'
  BY <1>0, <1>b, <1>c, <1>d DEF Base, InitializeTypeOK, Markers, Steps
<1>3. MarkerInv'
  BY <1>a, <1>b, <1>c, <1>d DEF MarkerInv, NoMarkerInv, StagingInv, InstallingInv,
     FilesInstalledInv, FinishingInv, PositionInv, Installing, Markers, Moved
<1>4. PreparedInv'
  <2>1. CASE s = "staging"
    BY <1>b, <2>1 DEF PreparedInv
  <2>2. CASE s = "prepared"
    BY <1>a, <1>b, <1>c, <2>2, EntriesAre DEF PreparedInv, MarkerInv, StagingInv, EmptyRoot,
       Moved,
       Directories
  <2>3. CASE s \in {"installing", "files-installed", "committed"}
    BY <1>a, <1>b, <1>c, <2>3 DEF PreparedInv, Moved, Markers
  <2> QED
    BY <1>d, <2>1, <2>2, <2>3
<1>5. PositionInv' /\ OutcomeInv'
  <2>1. s = "prepared" => \A e \in EntrySet : EntryPlace[e] < next => live[e] = "v4"
    BY <1>a, <1>b, <1>c, EntriesAre DEF PositionInv
  <2> QED
    BY <1>a, <1>b, <1>c, <1>d, <2>1 DEF PositionInv, OutcomeInv, Installing, Moved
<1>6. NoLegacy' = NoLegacy
  BY DEF NoLegacy
<1> QED
  BY <1>0, <1>b, <1>1, <1>2, <1>3, <1>4, <1>5, <1>6
     DEF Base, RootInv, InitializingInv, Complete, Emptying, migration

\* Directories are moved in order, each out of the stage, and an earlier
\* run's are recognized.
LEMMA InstallEntryInv ==
    ASSUME Initializing, InstallEntry
    PROVE  Base'
<1>0. Base /\ InitializingInv /\ CurrentInv /\ UNCHANGED migration /\ legacy = NoLegacy
  BY DEF Initializing, Base, RootInv
<1>a. PrefixInv /\ MarkerInv /\ PreparedInv /\ PositionInv /\ OutcomeInv
  BY <1>0 DEF InitializingInv
<1> DEFINE e == Entries[next]
<1>b. /\ holder = "init" /\ pc = <<"step", "install">> /\ next \in 1..6
      /\ e \in EntrySet /\ EntryPlace[e] = next
      /\ live \in [Directories -> Contents] /\ e \in Directories
  BY <1>0, EntriesAre DEF InstallEntry, At, Base, InitializeTypeOK, DirectoryTypeOK, EntrySet,
     Directories
<1>c. marker = "installing"
  BY <1>0, <1>b, MarkerOfStep DEF MarkerAtStep, Base
<1> HIDE DEF e
<1>d. e \in staged <=> live[e] = "absent"
  BY <1>a, <1>b, <1>c DEF PreparedInv, Markers
<1>f. /\ live' = IF e \in staged THEN [live EXCEPT ![e] = "v4"] ELSE live
      /\ staged' = staged \ {e} /\ next' = next + 1 /\ pc' = <<"write", "installing">>
      /\ UNCHANGED <<holder, outcome, journal, server, manifest, work, crashes, marker, tmp, stage>>
  <2>1. ~Ambiguous(e)
    BY <1>d DEF Ambiguous
  <2> QED
    BY <2>1 DEF InstallEntry, Write, e
<1>g. live[e] # "absent" => live[e] = "v4"
  BY <1>a, <1>b DEF PrefixInv
<1>h. \A d \in Directories : live'[d] = IF d = e THEN "v4" ELSE live[d]
  BY <1>b, <1>d, <1>f, <1>g
<1>1. DirectoryTypeOK'
  BY <1>0, <1>b, <1>f DEF Base, DirectoryTypeOK, Contents
<1>2. InitializeTypeOK' /\ MigrationTypeOK' /\ CurrentInv'
  BY <1>0, <1>b, <1>f, EntriesAre DEF Base, InitializeTypeOK, MigrationTypeOK, CurrentInv,
     Markers,
     migration
<1>i. EntrySet \subseteq Directories
  BY EntriesAre DEF Directories
<1>j. \A d \in EntrySet : EntryPlace[d] < next => live[d] = "v4"
  BY <1>a, <1>b DEF PositionInv
<1>3. PrefixInv'
  BY <1>a, <1>b, <1>h, <1>i, <1>j, EntriesAre DEF PrefixInv
<1>4. MarkerInv'
  BY <1>c, <1>f DEF MarkerInv, NoMarkerInv, StagingInv, InstallingInv, FilesInstalledInv,
     FinishingInv, Installing
<1>5. PreparedInv'
  <2>1. \A d \in EntrySet : (d \in staged <=> live[d] = "absent")'
    BY <1>a, <1>c, <1>f, <1>h, <1>i DEF PreparedInv, Markers
  <2>2. journal # "none" /\ (~Moved' => journal = "prepared")
    BY <1>a, <1>c, <1>h, <1>i DEF PreparedInv, Moved, Markers
  <2> QED
    BY <2>1, <2>2, <1>f DEF PreparedInv
<1>6. PositionInv' /\ OutcomeInv'
  <2>1. \A d \in EntrySet : EntryPlace[d] < next' => live'[d] = "v4"
    BY <1>b, <1>f, <1>h, <1>i, <1>j, EntriesAre
  <2> QED
    BY <2>1, <1>a, <1>b, <1>c, <1>f DEF PositionInv, OutcomeInv, Installing
<1>7. server # "stopped" => live' = live
  <2>1. server # "stopped" => live["meta"] = "v4"
    BY <1>0 DEF InitializingInv
  <2>2. live["meta"] = "v4" => \A d \in EntrySet : live[d] = "v4"
    BY <1>a, MetaLast DEF Moved
  <2> QED
    BY <2>1, <2>2, <1>b, <1>d, <1>f
<1>8. NoLegacy' = NoLegacy
  BY DEF NoLegacy
<1>9. (live["meta"] = "v4" /\ live["server"] = "v4" => Complete \/ Emptying)'
  BY <1>3, MetaLastNext
<1>10. live["meta"] = "v4" => live'["meta"] = "v4"
  BY <1>h DEF Directories
<1> QED
  BY <1>0, <1>f, <1>1, <1>2, <1>3, <1>4, <1>5, <1>6, <1>8, <1>9, <1>10
     DEF Base, RootInv, InitializingInv, migration

\* A run starts on an empty root, goes on under a marker, or refuses.
LEMMA StartInv ==
    ASSUME Initializing, Start
    PROVE  Base'
<1>0. Base /\ InitializingInv /\ CurrentInv /\ UNCHANGED migration /\ legacy = NoLegacy
  BY DEF Initializing, Base, RootInv
<1>a. PrefixInv /\ MarkerInv /\ PreparedInv /\ PositionInv /\ OutcomeInv
  BY <1>0 DEF InitializingInv
<1>b. /\ holder = "none" /\ next' = 1 /\ at = "idle"
      /\ UNCHANGED <<live, server, manifest, work, crashes, tmp>>
  BY <1>0 DEF Start, CurrentInv
<1>8. NoLegacy' = NoLegacy
  BY DEF NoLegacy
<1>p. PrefixInv'
  BY <1>a, <1>b DEF PrefixInv
<1>1. CASE marker \in {"none", "staging"}
  <2>1. /\ marker' = "none" /\ stage' = FALSE /\ staged' = {}
        /\ journal' = IF marker = "staging" THEN "none" ELSE journal
    BY <1>1 DEF Start
  <2>2. \/ EmptyDirectory /\ holder' = "init" /\ pc' = <<"write", "staging">> /\ outcome' = "none"
        \/ ~EmptyDirectory /\ holder' = "none" /\ pc' = <<"step", "idle">> /\ outcome' = "not-empty"
    BY <1>1 DEF Start, Answer, Go, Write
  <2>3. live \in [Directories -> Contents] /\ (EmptyDirectory => live = EmptyRoot)
    BY <1>0 DEF Base, DirectoryTypeOK, EmptyDirectory, EmptyRoot
  <2>4. DirectoryTypeOK' /\ InitializeTypeOK'
    <3>1. DirectoryTypeOK'
      BY <1>0, <1>b, <2>1, <2>2 DEF Base, DirectoryTypeOK
    <3>2. pc' \in ({"step"} \X Steps) \cup ({"write", "rename"} \X Markers)
      BY <2>2 DEF Steps, Markers
    <3>3. tmp' \in BOOLEAN /\ stage' \in BOOLEAN
      BY <1>0, <1>b, <2>1 DEF Base, InitializeTypeOK
    <3>4. next' \in 1..(Len(Entries) + 1) /\ staged' \subseteq EntrySet /\ marker' \in {"none"} \cup Markers
      BY <1>b, <2>1, EntriesAre
    <3>5. outcome' \in {"none", "done", "failed", "not-empty", "recovery-needed"}
      BY <2>2
    <3> QED
      BY <3>1, <3>2, <3>3, <3>4, <3>5 DEF InitializeTypeOK
  <2>4a. MigrationTypeOK' /\ CurrentInv'
    BY <1>0, <1>b, <2>2 DEF Base, MigrationTypeOK, CurrentInv, migration
  <2>5. MarkerInv' /\ PreparedInv'
    BY <1>1, <1>a, <1>b, <2>1, <2>2, <2>3 DEF MarkerInv, NoMarkerInv, StagingInv, InstallingInv,
       FilesInstalledInv, FinishingInv, PreparedInv, Markers, EmptyRoot
  <2>6. PositionInv'
    BY <1>a, <1>b, <2>1, <2>2 DEF PositionInv, Installing
  <2>7. OutcomeInv'
    <3>1. tmp => crashes > 0
      BY <1>a, <1>b DEF PositionInv
    <3>2. ~EmptyDirectory => tmp \/ live # EmptyRoot
      BY <1>0, <2>3 DEF EmptyDirectory, CurrentInv, EmptyRoot
    <3> QED
      BY <1>b, <2>2, <3>1, <3>2 DEF OutcomeInv, EmptyRoot
  <2> QED
    BY <1>0, <1>b, <1>8, <1>p, <2>2, <2>4, <2>4a, <2>5, <2>6, <2>7
       DEF Base, RootInv, InitializingInv, Complete, Emptying, migration
<1>2. CASE marker \notin {"none", "staging"}
  <2>1. /\ holder' = "init" /\ pc' = <<"write", "installing">> /\ outcome' = "none"
        /\ UNCHANGED <<marker, stage, staged, journal>>
    BY <1>2 DEF Start, Write
  <2>2. DirectoryTypeOK' /\ InitializeTypeOK' /\ MigrationTypeOK' /\ CurrentInv'
    BY <1>0, <1>b, <2>1, EntriesAre DEF Base, DirectoryTypeOK, InitializeTypeOK,
       MigrationTypeOK,
       CurrentInv, Markers, migration
  <2>3. MarkerInv' /\ PreparedInv'
    BY <1>2, <1>a, <1>b, <2>1 DEF MarkerInv, NoMarkerInv, StagingInv, InstallingInv,
       FilesInstalledInv, FinishingInv, PreparedInv, Moved, Installing
  <2>4. PositionInv' /\ OutcomeInv'
    BY <1>a, <1>b, <2>1, EntriesAre DEF PositionInv, OutcomeInv, Installing
  <2> QED
    BY <1>0, <1>b, <1>8, <1>p, <2>1, <2>2, <2>3, <2>4
       DEF Base, RootInv, InitializingInv, Complete, Emptying, migration
<1> QED
  BY <1>1, <1>2

-----------------------------------------------------------------------------
(* Migration                                                               *)

\* The directories of installEntries and their places.
LEMMA InstallsAre ==
    /\ Len(Installs) = 6
    /\ \A i \in 1..6 : Installs[i] \in Directories /\ InstallPlace[Installs[i]] = i
    /\ \A d \in Directories : InstallPlace[d] \in 1..7
    /\ \A d \in Directories : InstallPlace[d] # 7 => Installs[InstallPlace[d]] = d
    /\ Installs[5] = "meta" /\ Installs[6] = "server"
    /\ \A i \in 1..6 : Installs[i] = "meta" <=> i = 5
<1>1. /\ Installs[1] = "cache" /\ Installs[2] = "ccd" /\ Installs[3] = "clients"
      /\ Installs[4] = "config" /\ Installs[5] = "meta" /\ Installs[6] = "server"
  BY DEF Installs
<1>2. Len(Installs) = 6
  BY DEF Installs
<1>3. \A i \in 1..6 : i = 1 \/ i = 2 \/ i = 3 \/ i = 4 \/ i = 5 \/ i = 6
  OBVIOUS
<1>4. \A d \in Directories : d = "pki" \/ d = "secrets" \/ d = "server" \/ d = "clients"
                               \/ d = "ccd" \/ d = "meta" \/ d = "cache" \/ d = "config"
  BY DEF Directories
<1>5. \A i \in 1..6 : Installs[i] \in Directories /\ InstallPlace[Installs[i]] = i
  BY <1>1, <1>3 DEF InstallPlace, Directories
<1>6. \A d \in Directories : /\ InstallPlace[d] \in 1..7
                             /\ InstallPlace[d] # 7 => Installs[InstallPlace[d]] = d
  BY <1>1, <1>4 DEF InstallPlace
<1>7. \A i \in 1..6 : Installs[i] = "meta" <=> i = 5
  BY <1>1, <1>3
<1> QED
  BY <1>1, <1>2, <1>5, <1>6, <1>7

\* The directories of backupEntries and their places: all there are.
LEMMA BackupsAre ==
    /\ Len(Backups) = 8
    /\ \A i \in 1..8 : Backups[i] \in Directories /\ BackupPlace[Backups[i]] = i
    /\ \A d \in Directories : BackupPlace[d] \in 1..8 /\ Backups[BackupPlace[d]] = d
    /\ BackupPlace["cache"] = 1 /\ "cache" \in Directories
    /\ Backups[1] = "cache" /\ Backups[5] = "meta"
    /\ RestoredTo(8) = V3Root
    /\ \A k \in 0..8 : RestoredTo(k) \in [Directories -> Contents]
    /\ \A k \in 0..8 : RestoredTo(k)["meta"] # "v4"
<1>1. /\ Backups[1] = "cache" /\ Backups[2] = "ccd" /\ Backups[3] = "clients"
      /\ Backups[4] = "config" /\ Backups[5] = "meta" /\ Backups[6] = "pki"
      /\ Backups[7] = "secrets" /\ Backups[8] = "server"
  BY DEF Backups
<1>2. Len(Backups) = 8
  BY DEF Backups
<1>3. \A i \in 1..8 : i = 1 \/ i = 2 \/ i = 3 \/ i = 4 \/ i = 5 \/ i = 6 \/ i = 7 \/ i = 8
  OBVIOUS
<1>4. \A d \in Directories : d = "pki" \/ d = "secrets" \/ d = "server" \/ d = "clients"
                               \/ d = "ccd" \/ d = "meta" \/ d = "cache" \/ d = "config"
  BY DEF Directories
<1>5. \A i \in 1..8 : Backups[i] \in Directories /\ BackupPlace[Backups[i]] = i
  BY <1>1, <1>3 DEF BackupPlace, Directories
<1>6. \A d \in Directories : BackupPlace[d] \in 1..8 /\ Backups[BackupPlace[d]] = d
  BY <1>1, <1>4 DEF BackupPlace
<1>7. RestoredTo(8) = V3Root
  BY <1>6 DEF RestoredTo, V3Root
<1>8. \A k \in 0..8 : RestoredTo(k) \in [Directories -> Contents] /\ RestoredTo(k)["meta"] # "v4"
  BY DEF RestoredTo, Contents, Directories
<1> QED
  BY <1>1, <1>2, <1>5, <1>6, <1>7, <1>8 DEF BackupPlace, Directories

\* The roots a migration goes through.
LEMMA RootsAre ==
    /\ NoSnapshot # V3Root
    /\ V3Root \in [Directories -> Contents] /\ V3Root = Halfway(0)
    /\ \A d \in Directories : V3Root[d] = "v3"
    /\ Migrated["meta"] = "v4" /\ Migrated["config"] = "v4" /\ Migrated["server"] = "v4"
    /\ V3Root["meta"] = "v3" /\ V3Root["server"] = "v3"
    /\ \A k \in 0..6 : /\ Halfway(k) \in [Directories -> Contents]
                       /\ Halfway(k)["server"] = "v4" => k = 6
<1>1. NoSnapshot # V3Root
  <2>1. DOMAIN NoSnapshot = {} /\ DOMAIN V3Root = Directories
    BY DEF NoSnapshot, V3Root
  <2> QED
    BY <2>1 DEF Directories
<1>2. V3Root = Halfway(0)
  BY InstallsAre DEF V3Root, Halfway
<1> QED
  BY <1>1, <1>2, InstallsAre DEF V3Root, Halfway, Migrated, Contents, Directories, InstallPlace

\* A migrated root is a complete schema 4 instance.
LEMMA MigratedIsComplete ==
    /\ live = Migrated => Complete
    /\ live' = Migrated => Complete'
<1>1. \A d \in Keys : Migrated[d] # "absent"
  BY DEF Keys, Migrated, Halfway, Directories, InstallPlace
<1>2. \A d \in Rewritten : Migrated[d] = "v4"
  BY DEF Rewritten, Migrated, Halfway, Directories, InstallPlace
<1> QED
  BY <1>1, <1>2 DEF Complete

\* The marker under which the process is at a step.
LEMMA ManifestOf ==
    ASSUME MigratingInv, DirectoryTypeOK
    PROVE  /\ at \in {"plan", "snapshot", "archive", "mark"} => manifest = "none"
           /\ at \in {"copy", "stage", "staged"} => manifest = "snapshot-ready"
           /\ at = "install" => manifest = "staged"
           /\ at \in {"remove", "rename"} => manifest = "installing"
           /\ at \in {"clean", "unmark"} => manifest = "committed"
           /\ at \in {"clear", "restore"} => manifest \in Unfinished
           /\ at = "forget" => manifest # "none"
<1>1. manifest \in {"none", "snapshot-ready", "staged", "installing", "committed"}
  BY DEF DirectoryTypeOK
<1>2. UnmarkedInv /\ UnfinishedInv /\ CommittedInv
  BY DEF MigratingInv
<1> QED
  BY <1>1, <1>2 DEF UnmarkedInv, UnfinishedInv, CommittedInv, Unfinished, Recovering

Migrating == Base /\ legacy # NoLegacy /\ UNCHANGED initialization

\* Apply takes both locks; nothing else changes.
LEMMA MigrateStartInv ==
    ASSUME Migrating, MigrateStart
    PROVE  Base'
<1>0. Base /\ UNCHANGED initialization /\ legacy # NoLegacy
  BY DEF Migrating
<1>a. LegacyInv /\ MigratingInv
  BY <1>0 DEF Base, RootInv
<1>b. recovered' \in BOOLEAN /\ installed' \in 0..Len(Backups)
  <2>1. recovered' = FALSE
    BY DEF MigrateStart
  <2>2. installed' = 0
    BY DEF MigrateStart
  <2>3. recovered' \in BOOLEAN
    BY <2>1
  <2> QED
    BY <2>2, <2>3, InstallsAre
<1> USE DEF MigrateStart, directory
<1>1. DirectoryTypeOK'
  BY <1>0, <1>a, <1>b, RootsAre, InstallsAre DEF Base, DirectoryTypeOK, MigratingInv, Contents
<1>2. MigrationTypeOK'
  BY <1>0, <1>a, <1>b, RootsAre, InstallsAre DEF Base, DirectoryTypeOK, MigrationTypeOK,
     MigratingInv
<1>3. InitializeTypeOK' /\ LegacyInv' /\ NoLegacy' = NoLegacy /\ legacy' = legacy
  BY <1>0, <1>a, <1>b DEF Base, InitializeTypeOK, LegacyInv, NoLegacy, initialization
<1>4. UnmarkedInv'
  BY <1>0, <1>a, <1>b, RootsAre, InstallsAre DEF MigratingInv, UnmarkedInv, UnfinishedInv,
     CommittedInv, Unfinished, Recovering, Base, DirectoryTypeOK, MigrationTypeOK
<1>5. UnfinishedInv'
  BY <1>0, <1>a, <1>b, RootsAre, InstallsAre DEF MigratingInv, UnmarkedInv, UnfinishedInv,
     CommittedInv, Unfinished, Recovering, Base, DirectoryTypeOK, MigrationTypeOK
<1>6. CommittedInv'
  BY <1>0, <1>a, <1>b, RootsAre, InstallsAre DEF MigratingInv, UnmarkedInv, UnfinishedInv,
     CommittedInv, Unfinished, Recovering, Base, DirectoryTypeOK, MigrationTypeOK
<1>7. MigratingInv'
  BY <1>0, <1>a, <1>b, <1>4, <1>5, <1>6, RootsAre, InstallsAre DEF MigratingInv, UnmarkedInv,
     UnfinishedInv, CommittedInv, Unfinished, Recovering, Base, DirectoryTypeOK, MigrationTypeOK
<1>8. (live["meta"] = "v4" /\ live["server"] = "v4" => Complete \/ Emptying)'
  BY <1>0, <1>a, <1>b, RootsAre, InstallsAre, MigratedIsComplete DEF MigratingInv,
     UnmarkedInv, UnfinishedInv, CommittedInv, Unfinished, Recovering, Base, DirectoryTypeOK,
     MigrationTypeOK, RootInv, Directories, Complete, Emptying
<1>9. (work.promised => work.made /\ live["meta"] = "v4" /\ manifest \in {"none", "committed"})'
  BY <1>0, <1>a, <1>b, RootsAre, InstallsAre DEF MigratingInv, UnmarkedInv, UnfinishedInv,
     CommittedInv, Unfinished, Recovering, Base, DirectoryTypeOK, MigrationTypeOK, RootInv
<1> QED
  BY <1>0, <1>a, <1>b, <1>1, <1>2, <1>3, <1>7, <1>8, <1>9 DEF Base, RootInv

\* Only an unfinished transaction is restored, and its archive is there.
LEMMA RecoverInv ==
    ASSUME Migrating, Recover
    PROVE  Base'
<1>0. Base /\ UNCHANGED initialization /\ legacy # NoLegacy
  BY DEF Migrating
<1>a. LegacyInv /\ MigratingInv
  BY <1>0 DEF Base, RootInv
<1>b. manifest \in {"none", "snapshot-ready", "staged", "installing", "committed"}
  BY <1>0 DEF Base, DirectoryTypeOK
<1>c. /\ manifest = "none" => at' = "plan" /\ UNCHANGED <<holder, build, verdict>>
      /\ manifest = "committed" => build' = "none" /\ at' = "forget" /\ UNCHANGED <<holder, verdict>>
      /\ manifest \in Unfinished => at' = "clear" /\ UNCHANGED <<holder, build, verdict>>
  BY <1>a, <1>b, RootsAre DEF Recover, MigratingInv, Unfinished
<1>d. /\ at = "recover" /\ holder = "migrate"
      /\ UNCHANGED <<live, journal, server, manifest, work, crashes, legacy, snapshot, partial>>
      /\ UNCHANGED <<installed, recovered, clients>>
  BY DEF Recover, Doing
<1>e. UNCHANGED <<holder, verdict>> /\ at' \in {"plan", "forget", "clear"} /\ build' \in {build, "none"}
  BY <1>b, <1>c DEF Unfinished
<1>1. DirectoryTypeOK'
  BY <1>0, <1>a, <1>b, <1>c, <1>d, <1>e, RootsAre, InstallsAre, BackupsAre DEF Base,
     DirectoryTypeOK, MigratingInv, Contents
<1>2. MigrationTypeOK'
  BY <1>0, <1>a, <1>b, <1>c, <1>d, <1>e, RootsAre, InstallsAre, BackupsAre DEF Base,
     DirectoryTypeOK, MigrationTypeOK, MigratingInv
<1>3. InitializeTypeOK' /\ LegacyInv' /\ NoLegacy' = NoLegacy /\ legacy' = legacy
  BY <1>0, <1>a, <1>b, <1>c, <1>d, <1>e DEF Base, InitializeTypeOK, LegacyInv, NoLegacy,
     initialization
<1>4. UnmarkedInv'
  BY <1>0, <1>a, <1>b, <1>c, <1>d, <1>e, RootsAre, InstallsAre, BackupsAre DEF MigratingInv,
     UnmarkedInv, UnfinishedInv, CommittedInv, Unfinished, Recovering, Base, DirectoryTypeOK,
     MigrationTypeOK
<1>5. UnfinishedInv'
  BY <1>0, <1>a, <1>b, <1>c, <1>d, <1>e, RootsAre, InstallsAre, BackupsAre DEF MigratingInv,
     UnmarkedInv, UnfinishedInv, CommittedInv, Unfinished, Recovering, Base, DirectoryTypeOK,
     MigrationTypeOK
<1>6. CommittedInv'
  BY <1>0, <1>a, <1>b, <1>c, <1>d, <1>e, RootsAre, InstallsAre, BackupsAre DEF MigratingInv,
     UnmarkedInv, UnfinishedInv, CommittedInv, Unfinished, Recovering, Base, DirectoryTypeOK,
     MigrationTypeOK
<1>7. MigratingInv'
  BY <1>0, <1>a, <1>b, <1>c, <1>d, <1>e, <1>4, <1>5, <1>6, RootsAre, InstallsAre, BackupsAre
     DEF MigratingInv, UnmarkedInv, UnfinishedInv, CommittedInv, Unfinished, Recovering,
     Base, DirectoryTypeOK, MigrationTypeOK
<1>8. (live["meta"] = "v4" /\ live["server"] = "v4" => Complete \/ Emptying)'
  BY <1>0, <1>a, <1>b, <1>c, <1>d, <1>e, RootsAre, InstallsAre, BackupsAre,
     MigratedIsComplete DEF MigratingInv, UnmarkedInv, UnfinishedInv, CommittedInv,
     Unfinished, Recovering, Base, DirectoryTypeOK, MigrationTypeOK, RootInv, Directories,
     Complete, Emptying
<1>9. (work.promised => work.made /\ live["meta"] = "v4" /\ manifest \in {"none", "committed"})'
  BY <1>0, <1>a, <1>b, <1>c, <1>d, <1>e, RootsAre, InstallsAre, BackupsAre DEF MigratingInv,
     UnmarkedInv, UnfinishedInv, CommittedInv, Unfinished, Recovering, Base, DirectoryTypeOK,
     MigrationTypeOK, RootInv
<1> QED
  BY <1>0, <1>a, <1>b, <1>c, <1>d, <1>e, <1>1, <1>2, <1>3, <1>7, <1>8, <1>9 DEF Base, RootInv

\* The next directory of backupEntries is removed; the first is the cache.
LEMMA RemoveEntryInv ==
    ASSUME Migrating, RemoveEntry
    PROVE  Base'
<1>0. Base /\ UNCHANGED initialization /\ legacy # NoLegacy
  BY DEF Migrating
<1>a. LegacyInv /\ MigratingInv
  BY <1>0 DEF Base, RootInv
<1>b. manifest \in Unfinished /\ installed \in 0..7 /\ at = "clear" /\ holder = "migrate"
  BY <1>0, <1>a, BackupsAre, ManifestOf DEF RemoveEntry, Doing, Base, MigrationTypeOK
<1>c. /\ Backups[installed + 1] \in Directories /\ BackupPlace[Backups[installed + 1]] = installed + 1
      /\ live \in [Directories -> Contents] /\ work \in [made : BOOLEAN, promised : BOOLEAN]
  BY <1>0, <1>b, BackupsAre DEF Base, DirectoryTypeOK
<1>d. /\ live' = [live EXCEPT ![Backups[installed + 1]] = "absent"]
      /\ work' = work \/ work' = [work EXCEPT !.made = FALSE]
      /\ clients' \in {clients, NoClients} /\ installed' = installed + 1
      /\ UNCHANGED <<journal, holder, server, manifest, crashes>>
      /\ UNCHANGED <<legacy, snapshot, partial, build, at, recovered, verdict>>
  BY DEF RemoveEntry
<1>e. /\ live' \in [Directories -> Contents] /\ work' \in [made : BOOLEAN, promised : BOOLEAN]
      /\ installed' \in 0..8
  <2>1. live' \in [Directories -> Contents]
    BY <1>c, <1>d DEF Contents
  <2>2. work' \in [made : BOOLEAN, promised : BOOLEAN]
    BY <1>c, <1>d
  <2>3. installed' \in 0..8
    BY <1>b, <1>d
  <2> QED
    BY <2>1, <2>2, <2>3
<1>f. \A d \in Directories : BackupPlace[d] <= installed' => live'[d] = "absent"
  <2>1. \A d \in Directories : BackupPlace[d] = installed + 1 => d = Backups[installed + 1]
    BY <1>b, BackupsAre
  <2>2. \A d \in Directories : BackupPlace[d] <= installed => live[d] = "absent"
    BY <1>a, <1>b DEF MigratingInv, UnfinishedInv
  <2> QED
    BY <1>b, <1>c, <1>d, <2>1, <2>2, BackupsAre
<1>g. live'["cache"] = "absent"
  BY <1>b, <1>d, <1>f, BackupsAre
<1>h. ~work.promised /\ ~work'.promised
  BY <1>0, <1>b, <1>c, <1>d DEF Base, RootInv, Unfinished
<1>1. DirectoryTypeOK'
  BY <1>0, <1>a, <1>b, <1>c, <1>d, <1>e, <1>f, <1>g, <1>h, RootsAre, InstallsAre, BackupsAre
     DEF Base, DirectoryTypeOK, MigratingInv, Contents
<1>2. MigrationTypeOK'
  BY <1>0, <1>a, <1>b, <1>c, <1>d, <1>e, <1>f, <1>g, <1>h, RootsAre, InstallsAre, BackupsAre
     DEF Base, DirectoryTypeOK, MigrationTypeOK, MigratingInv
<1>3. InitializeTypeOK' /\ LegacyInv' /\ NoLegacy' = NoLegacy /\ legacy' = legacy
  BY <1>0, <1>a, <1>b, <1>c, <1>d, <1>e, <1>f, <1>g, <1>h DEF Base, InitializeTypeOK,
     LegacyInv, NoLegacy, initialization
<1>4. UnmarkedInv'
  BY <1>0, <1>a, <1>b, <1>c, <1>d, <1>e, <1>f, <1>g, <1>h, RootsAre, InstallsAre, BackupsAre
     DEF MigratingInv, UnmarkedInv, UnfinishedInv, CommittedInv, Unfinished, Recovering,
     Base, DirectoryTypeOK, MigrationTypeOK
<1>5. UnfinishedInv'
  BY <1>0, <1>a, <1>b, <1>c, <1>d, <1>e, <1>f, <1>g, <1>h, RootsAre, InstallsAre, BackupsAre
     DEF MigratingInv, UnmarkedInv, UnfinishedInv, CommittedInv, Unfinished, Recovering,
     Base, DirectoryTypeOK, MigrationTypeOK
<1>6. CommittedInv'
  BY <1>0, <1>a, <1>b, <1>c, <1>d, <1>e, <1>f, <1>g, <1>h, RootsAre, InstallsAre, BackupsAre
     DEF MigratingInv, UnmarkedInv, UnfinishedInv, CommittedInv, Unfinished, Recovering,
     Base, DirectoryTypeOK, MigrationTypeOK
<1>7. MigratingInv'
  BY <1>0, <1>a, <1>b, <1>c, <1>d, <1>e, <1>f, <1>g, <1>h, <1>4, <1>5, <1>6, RootsAre,
     InstallsAre, BackupsAre DEF MigratingInv, UnmarkedInv, UnfinishedInv, CommittedInv,
     Unfinished, Recovering, Base, DirectoryTypeOK, MigrationTypeOK
<1>8. (live["meta"] = "v4" /\ live["server"] = "v4" => Complete \/ Emptying)'
  BY <1>0, <1>a, <1>b, <1>c, <1>d, <1>e, <1>f, <1>g, <1>h, RootsAre, InstallsAre, BackupsAre,
     MigratedIsComplete DEF MigratingInv, UnmarkedInv, UnfinishedInv, CommittedInv,
     Unfinished, Recovering, Base, DirectoryTypeOK, MigrationTypeOK, RootInv, Directories,
     Complete, Emptying
<1>9. (work.promised => work.made /\ live["meta"] = "v4" /\ manifest \in {"none", "committed"})'
  BY <1>0, <1>a, <1>b, <1>c, <1>d, <1>e, <1>f, <1>g, <1>h, RootsAre, InstallsAre, BackupsAre
     DEF MigratingInv, UnmarkedInv, UnfinishedInv, CommittedInv, Unfinished, Recovering,
     Base, DirectoryTypeOK, MigrationTypeOK, RootInv
<1> QED
  BY <1>0, <1>a, <1>b, <1>c, <1>d, <1>e, <1>f, <1>g, <1>h, <1>1, <1>2, <1>3, <1>7, <1>8, <1>9
     DEF Base, RootInv

\* Every directory of the root is gone when the archive is read.
LEMMA OpenSnapshotInv ==
    ASSUME Migrating, OpenSnapshot
    PROVE  Base'
<1>0. Base /\ UNCHANGED initialization /\ legacy # NoLegacy
  BY DEF Migrating
<1>a. LegacyInv /\ MigratingInv
  BY <1>0 DEF Base, RootInv
<1>b. manifest \in Unfinished /\ installed = 8
  BY <1>0, <1>a, BackupsAre, ManifestOf DEF OpenSnapshot, Doing, Base
<1>c. live = RestoredTo(0)
  <2>1. \A d \in Directories : live[d] = "absent"
    BY <1>a, <1>b, BackupsAre DEF OpenSnapshot, Doing, MigratingInv, UnfinishedInv
  <2>2. live \in [Directories -> Contents]
    BY <1>0 DEF Base, DirectoryTypeOK
  <2> QED
    BY <2>1, <2>2, BackupsAre DEF RestoredTo
<1> USE DEF OpenSnapshot, Doing, directory
<1>1. DirectoryTypeOK'
  BY <1>0, <1>a, <1>b, <1>c, RootsAre, InstallsAre, BackupsAre DEF Base, DirectoryTypeOK,
     MigratingInv, Contents
<1>2. MigrationTypeOK'
  BY <1>0, <1>a, <1>b, <1>c, RootsAre, InstallsAre, BackupsAre DEF Base, DirectoryTypeOK,
     MigrationTypeOK, MigratingInv
<1>3. InitializeTypeOK' /\ LegacyInv' /\ NoLegacy' = NoLegacy /\ legacy' = legacy
  BY <1>0, <1>a, <1>b, <1>c DEF Base, InitializeTypeOK, LegacyInv, NoLegacy, initialization
<1>4. UnmarkedInv'
  BY <1>0, <1>a, <1>b, <1>c, RootsAre, InstallsAre, BackupsAre DEF MigratingInv, UnmarkedInv,
     UnfinishedInv, CommittedInv, Unfinished, Recovering, Base, DirectoryTypeOK,
     MigrationTypeOK
<1>5. UnfinishedInv'
  BY <1>0, <1>a, <1>b, <1>c, RootsAre, InstallsAre, BackupsAre DEF MigratingInv, UnmarkedInv,
     UnfinishedInv, CommittedInv, Unfinished, Recovering, Base, DirectoryTypeOK,
     MigrationTypeOK
<1>6. CommittedInv'
  BY <1>0, <1>a, <1>b, <1>c, RootsAre, InstallsAre, BackupsAre DEF MigratingInv, UnmarkedInv,
     UnfinishedInv, CommittedInv, Unfinished, Recovering, Base, DirectoryTypeOK,
     MigrationTypeOK
<1>7. MigratingInv'
  BY <1>0, <1>a, <1>b, <1>c, <1>4, <1>5, <1>6, RootsAre, InstallsAre, BackupsAre DEF
     MigratingInv, UnmarkedInv, UnfinishedInv, CommittedInv, Unfinished, Recovering, Base,
     DirectoryTypeOK, MigrationTypeOK
<1>8. (live["meta"] = "v4" /\ live["server"] = "v4" => Complete \/ Emptying)'
  BY <1>0, <1>a, <1>b, <1>c, RootsAre, InstallsAre, BackupsAre, MigratedIsComplete DEF
     MigratingInv, UnmarkedInv, UnfinishedInv, CommittedInv, Unfinished, Recovering, Base,
     DirectoryTypeOK, MigrationTypeOK, RootInv, Directories, Complete, Emptying
<1>9. (work.promised => work.made /\ live["meta"] = "v4" /\ manifest \in {"none", "committed"})'
  BY <1>0, <1>a, <1>b, <1>c, RootsAre, InstallsAre, BackupsAre DEF MigratingInv, UnmarkedInv,
     UnfinishedInv, CommittedInv, Unfinished, Recovering, Base, DirectoryTypeOK,
     MigrationTypeOK, RootInv
<1> QED
  BY <1>0, <1>a, <1>b, <1>c, <1>1, <1>2, <1>3, <1>7, <1>8, <1>9 DEF Base, RootInv

\* The archive brings the next directory back, or its total is refused.
LEMMA RestoreEntryInv ==
    ASSUME Migrating, RestoreEntry
    PROVE  Base'
<1>0. Base /\ UNCHANGED initialization /\ legacy # NoLegacy
  BY DEF Migrating
<1>a. LegacyInv /\ MigratingInv
  BY <1>0 DEF Base, RootInv
<1>b. /\ manifest \in Unfinished /\ installed \in 0..7 /\ at = "restore" /\ holder = "migrate"
      /\ snapshot = V3Root /\ live = RestoredTo(installed)
  BY <1>0, <1>a, BackupsAre, ManifestOf DEF RestoreEntry, Doing, Base, MigrationTypeOK,
     MigratingInv, UnfinishedInv, Unfinished
<1>c. Backups[installed + 1] \in Directories /\ BackupPlace[Backups[installed + 1]] = installed + 1
  BY <1>b, BackupsAre
<1>d. [live EXCEPT ![Backups[installed + 1]] = V3Root[Backups[installed + 1]]] = RestoredTo(installed + 1)
  <2>1. \A d \in Directories : BackupPlace[d] = installed + 1 => d = Backups[installed + 1]
    BY <1>b, BackupsAre
  <2>2. V3Root[Backups[installed + 1]] = "v3"
    BY <1>c, RootsAre
  <2> QED
    BY <1>b, <1>c, <2>1, <2>2, BackupsAre DEF RestoredTo
<1>e. /\ UNCHANGED <<journal, server, manifest, work, crashes>>
      /\ UNCHANGED <<legacy, snapshot, partial, build, recovered, clients>>
      /\ \/ /\ legacy.overrun = Backups[installed + 1] /\ UNCHANGED <<live, installed>>
            /\ holder' = "none" /\ at' = "idle" /\ verdict' = "recovery-required"
         \/ /\ live' = RestoredTo(installed + 1) /\ installed' = installed + 1
            /\ UNCHANGED <<holder, at, verdict>>
  BY <1>b, <1>d DEF RestoreEntry, Finish
<1>f. Backups[installed + 1] # "none"
  BY <1>c DEF Directories
<1>g. live' \in [Directories -> Contents] /\ live'["meta"] # "v4" /\ installed' \in 0..8
  BY <1>b, <1>e, BackupsAre
<1>h. ~work.promised
  BY <1>0, <1>b DEF Base, RootInv, Unfinished
<1>1. DirectoryTypeOK'
  BY <1>0, <1>a, <1>b, <1>c, <1>e, <1>f, <1>g, <1>h, RootsAre, InstallsAre, BackupsAre DEF
     Base, DirectoryTypeOK, MigratingInv, Contents
<1>2. MigrationTypeOK'
  BY <1>0, <1>a, <1>b, <1>c, <1>e, <1>f, <1>g, <1>h, RootsAre, InstallsAre, BackupsAre DEF
     Base, DirectoryTypeOK, MigrationTypeOK, MigratingInv
<1>3. InitializeTypeOK' /\ LegacyInv' /\ NoLegacy' = NoLegacy /\ legacy' = legacy
  BY <1>0, <1>a, <1>b, <1>c, <1>e, <1>f, <1>g, <1>h DEF Base, InitializeTypeOK, LegacyInv,
     NoLegacy, initialization
<1>4. UnmarkedInv'
  BY <1>0, <1>a, <1>b, <1>c, <1>e, <1>f, <1>g, <1>h, RootsAre, InstallsAre, BackupsAre DEF
     MigratingInv, UnmarkedInv, UnfinishedInv, CommittedInv, Unfinished, Recovering, Base,
     DirectoryTypeOK, MigrationTypeOK
<1>5. UnfinishedInv'
  BY <1>0, <1>a, <1>b, <1>c, <1>e, <1>f, <1>g, <1>h, RootsAre, InstallsAre, BackupsAre DEF
     MigratingInv, UnmarkedInv, UnfinishedInv, CommittedInv, Unfinished, Recovering, Base,
     DirectoryTypeOK, MigrationTypeOK
<1>6. CommittedInv'
  BY <1>0, <1>a, <1>b, <1>c, <1>e, <1>f, <1>g, <1>h, RootsAre, InstallsAre, BackupsAre DEF
     MigratingInv, UnmarkedInv, UnfinishedInv, CommittedInv, Unfinished, Recovering, Base,
     DirectoryTypeOK, MigrationTypeOK
<1>7. MigratingInv'
  <2>1. verdict' = "recovery-required" => legacy'.overrun # "none"
    BY <1>a, <1>b, <1>e, <1>f DEF MigratingInv
  <2>2. verdict' \in {"none", "recovery-required"}
    BY <1>a, <1>b, <1>e DEF MigratingInv
  <2>3. (holder' = "migrate") <=> (at' # "idle")
    BY <1>b, <1>e
  <2>4. holder' = "migrate" => verdict' = "none"
    BY <1>a, <1>b, <1>e DEF MigratingInv
  <2>5. /\ manifest' # "none" /\ snapshot' = V3Root /\ V3Root # NoSnapshot
        /\ SourceReady(legacy') /\ at' \in {"idle", "restore"}
    BY <1>a, <1>b, <1>e, RootsAre DEF MigratingInv, Unfinished
  <2>6. (clients # NoClients => clients = StagedClients(legacy) /\ SourceReady(legacy))'
    BY <1>a, <1>e DEF MigratingInv
  <2>7. partial' => crashes' > 0
    BY <1>a, <1>b, <1>e DEF MigratingInv
  <2> QED
    BY <1>4, <1>5, <1>6, <2>1, <2>2, <2>3, <2>4, <2>5, <2>6, <2>7 DEF MigratingInv
<1>8. (live["meta"] = "v4" /\ live["server"] = "v4" => Complete \/ Emptying)'
  BY <1>0, <1>a, <1>b, <1>c, <1>e, <1>f, <1>g, <1>h, RootsAre, InstallsAre, BackupsAre,
     MigratedIsComplete DEF MigratingInv, UnmarkedInv, UnfinishedInv, CommittedInv,
     Unfinished, Recovering, Base, DirectoryTypeOK, MigrationTypeOK, RootInv, Directories,
     Complete, Emptying
<1>9. (work.promised => work.made /\ live["meta"] = "v4" /\ manifest \in {"none", "committed"})'
  BY <1>0, <1>a, <1>b, <1>c, <1>e, <1>f, <1>g, <1>h, RootsAre, InstallsAre, BackupsAre DEF
     MigratingInv, UnmarkedInv, UnfinishedInv, CommittedInv, Unfinished, Recovering, Base,
     DirectoryTypeOK, MigrationTypeOK, RootInv
<1> QED
  BY <1>0, <1>a, <1>b, <1>c, <1>e, <1>f, <1>g, <1>h, <1>1, <1>2, <1>3, <1>7, <1>8, <1>9 DEF
     Base, RootInv

\* The archive brings the whole schema 3 root back.
LEMMA RestoredInv ==
    ASSUME Migrating, Restored
    PROVE  Base'
<1>0. Base /\ UNCHANGED initialization /\ legacy # NoLegacy
  BY DEF Migrating
<1>a. LegacyInv /\ MigratingInv
  BY <1>0 DEF Base, RootInv
<1>b. manifest \in Unfinished /\ installed = 8 /\ live = V3Root
  BY <1>0, <1>a, BackupsAre, ManifestOf DEF Restored, Doing, Base, MigratingInv, UnfinishedInv
<1> USE DEF Restored, Doing, directory
<1>1. DirectoryTypeOK'
  BY <1>0, <1>a, <1>b, RootsAre, InstallsAre, BackupsAre DEF Base, DirectoryTypeOK,
     MigratingInv, Contents
<1>2. MigrationTypeOK'
  BY <1>0, <1>a, <1>b, RootsAre, InstallsAre, BackupsAre DEF Base, DirectoryTypeOK,
     MigrationTypeOK, MigratingInv
<1>3. InitializeTypeOK' /\ LegacyInv' /\ NoLegacy' = NoLegacy /\ legacy' = legacy
  BY <1>0, <1>a, <1>b DEF Base, InitializeTypeOK, LegacyInv, NoLegacy, initialization
<1>4. UnmarkedInv'
  BY <1>0, <1>a, <1>b, RootsAre, InstallsAre, BackupsAre DEF MigratingInv, UnmarkedInv,
     UnfinishedInv, CommittedInv, Unfinished, Recovering, Base, DirectoryTypeOK,
     MigrationTypeOK
<1>5. UnfinishedInv'
  BY <1>0, <1>a, <1>b, RootsAre, InstallsAre, BackupsAre DEF MigratingInv, UnmarkedInv,
     UnfinishedInv, CommittedInv, Unfinished, Recovering, Base, DirectoryTypeOK,
     MigrationTypeOK
<1>6. CommittedInv'
  BY <1>0, <1>a, <1>b, RootsAre, InstallsAre, BackupsAre DEF MigratingInv, UnmarkedInv,
     UnfinishedInv, CommittedInv, Unfinished, Recovering, Base, DirectoryTypeOK,
     MigrationTypeOK
<1>7. MigratingInv'
  BY <1>0, <1>a, <1>b, <1>4, <1>5, <1>6, RootsAre, InstallsAre, BackupsAre DEF MigratingInv,
     UnmarkedInv, UnfinishedInv, CommittedInv, Unfinished, Recovering, Base, DirectoryTypeOK,
     MigrationTypeOK
<1>8. (live["meta"] = "v4" /\ live["server"] = "v4" => Complete \/ Emptying)'
  BY <1>0, <1>a, <1>b, RootsAre, InstallsAre, BackupsAre, MigratedIsComplete DEF
     MigratingInv, UnmarkedInv, UnfinishedInv, CommittedInv, Unfinished, Recovering, Base,
     DirectoryTypeOK, MigrationTypeOK, RootInv, Directories, Complete, Emptying
<1>9. (work.promised => work.made /\ live["meta"] = "v4" /\ manifest \in {"none", "committed"})'
  BY <1>0, <1>a, <1>b, RootsAre, InstallsAre, BackupsAre DEF MigratingInv, UnmarkedInv,
     UnfinishedInv, CommittedInv, Unfinished, Recovering, Base, DirectoryTypeOK,
     MigrationTypeOK, RootInv
<1> QED
  BY <1>0, <1>a, <1>b, <1>1, <1>2, <1>3, <1>7, <1>8, <1>9 DEF Base, RootInv

\* The marker goes when the root is whole.
LEMMA ForgetInv ==
    ASSUME Migrating, Forget
    PROVE  Base'
<1>0. Base /\ UNCHANGED initialization /\ legacy # NoLegacy
  BY DEF Migrating
<1>a. LegacyInv /\ MigratingInv
  BY <1>0 DEF Base, RootInv
<1> USE DEF Forget, Doing, directory
<1>1. DirectoryTypeOK'
  BY <1>0, <1>a, RootsAre, InstallsAre DEF Base, DirectoryTypeOK, MigratingInv, Contents
<1>2. MigrationTypeOK'
  BY <1>0, <1>a, RootsAre, InstallsAre DEF Base, DirectoryTypeOK, MigrationTypeOK, MigratingInv
<1>3. InitializeTypeOK' /\ LegacyInv' /\ NoLegacy' = NoLegacy /\ legacy' = legacy
  BY <1>0, <1>a DEF Base, InitializeTypeOK, LegacyInv, NoLegacy, initialization
<1>4. UnmarkedInv'
  BY <1>0, <1>a, RootsAre, InstallsAre DEF MigratingInv, UnmarkedInv, UnfinishedInv,
     CommittedInv, Unfinished, Recovering, Base, DirectoryTypeOK, MigrationTypeOK
<1>5. UnfinishedInv'
  BY <1>0, <1>a, RootsAre, InstallsAre DEF MigratingInv, UnmarkedInv, UnfinishedInv,
     CommittedInv, Unfinished, Recovering, Base, DirectoryTypeOK, MigrationTypeOK
<1>6. CommittedInv'
  BY <1>0, <1>a, RootsAre, InstallsAre DEF MigratingInv, UnmarkedInv, UnfinishedInv,
     CommittedInv, Unfinished, Recovering, Base, DirectoryTypeOK, MigrationTypeOK
<1>7. MigratingInv'
  BY <1>0, <1>a, <1>4, <1>5, <1>6, RootsAre, InstallsAre DEF MigratingInv, UnmarkedInv,
     UnfinishedInv, CommittedInv, Unfinished, Recovering, Base, DirectoryTypeOK, MigrationTypeOK
<1>8. (live["meta"] = "v4" /\ live["server"] = "v4" => Complete \/ Emptying)'
  BY <1>0, <1>a, RootsAre, InstallsAre, MigratedIsComplete DEF MigratingInv, UnmarkedInv,
     UnfinishedInv, CommittedInv, Unfinished, Recovering, Base, DirectoryTypeOK, MigrationTypeOK, RootInv,
     Directories, Complete, Emptying
<1>9. (work.promised => work.made /\ live["meta"] = "v4" /\ manifest \in {"none", "committed"})'
  BY <1>0, <1>a, RootsAre, InstallsAre DEF MigratingInv, UnmarkedInv, UnfinishedInv,
     CommittedInv, Unfinished, Recovering, Base, DirectoryTypeOK, MigrationTypeOK, RootInv
<1> QED
  BY <1>0, <1>a, <1>1, <1>2, <1>3, <1>7, <1>8, <1>9 DEF Base, RootInv

\* Only a schema 3 root that reads is migrated.
LEMMA PlanInv ==
    ASSUME Migrating, Plan
    PROVE  Base'
<1>0. Base /\ UNCHANGED initialization /\ legacy # NoLegacy
  BY DEF Migrating
<1>a. LegacyInv /\ MigratingInv
  BY <1>0 DEF Base, RootInv
<1>b. manifest = "none" /\ live \in {V3Root, Migrated}
  BY <1>0, <1>a DEF Plan, Doing, MigratingInv, UnmarkedInv, UnfinishedInv, CommittedInv,
     Unfinished, Recovering, Base, DirectoryTypeOK
<1>c. /\ PlanStatus \in {"current", "ready", "source-invalid"}
      /\ PlanStatus = "ready" => live = V3Root /\ SourceReady(legacy)
      /\ live = V3Root /\ SourceReady(legacy) => PlanStatus = "ready"
      /\ PlanStatus = "source-invalid" => ~SourceReady(legacy)
  BY <1>b, RootsAre DEF PlanStatus, Directories
<1> USE DEF Plan, Doing, Finish, directory
<1>1. DirectoryTypeOK'
  BY <1>0, <1>a, <1>b, <1>c, RootsAre, InstallsAre DEF Base, DirectoryTypeOK, MigratingInv,
     Contents
<1>2. MigrationTypeOK'
  BY <1>0, <1>a, <1>b, <1>c, RootsAre, InstallsAre DEF Base, DirectoryTypeOK,
     MigrationTypeOK, MigratingInv
<1>3. InitializeTypeOK' /\ LegacyInv' /\ NoLegacy' = NoLegacy /\ legacy' = legacy
  BY <1>0, <1>a, <1>b, <1>c DEF Base, InitializeTypeOK, LegacyInv, NoLegacy, initialization
<1>4. UnmarkedInv'
  BY <1>0, <1>a, <1>b, <1>c, RootsAre, InstallsAre DEF MigratingInv, UnmarkedInv,
     UnfinishedInv, CommittedInv, Unfinished, Recovering, Base, DirectoryTypeOK, MigrationTypeOK
<1>5. UnfinishedInv'
  BY <1>0, <1>a, <1>b, <1>c, RootsAre, InstallsAre DEF MigratingInv, UnmarkedInv,
     UnfinishedInv, CommittedInv, Unfinished, Recovering, Base, DirectoryTypeOK, MigrationTypeOK
<1>6. CommittedInv'
  BY <1>0, <1>a, <1>b, <1>c, RootsAre, InstallsAre DEF MigratingInv, UnmarkedInv,
     UnfinishedInv, CommittedInv, Unfinished, Recovering, Base, DirectoryTypeOK, MigrationTypeOK
<1>7. MigratingInv'
  BY <1>0, <1>a, <1>b, <1>c, <1>4, <1>5, <1>6, RootsAre, InstallsAre DEF MigratingInv,
     UnmarkedInv, UnfinishedInv, CommittedInv, Unfinished, Recovering, Base, DirectoryTypeOK,
     MigrationTypeOK
<1>8. (live["meta"] = "v4" /\ live["server"] = "v4" => Complete \/ Emptying)'
  BY <1>0, <1>a, <1>b, <1>c, RootsAre, InstallsAre, MigratedIsComplete DEF MigratingInv,
     UnmarkedInv, UnfinishedInv, CommittedInv, Unfinished, Recovering, Base, DirectoryTypeOK,
     MigrationTypeOK, RootInv, Directories, Complete, Emptying
<1>9. (work.promised => work.made /\ live["meta"] = "v4" /\ manifest \in {"none", "committed"})'
  BY <1>0, <1>a, <1>b, <1>c, RootsAre, InstallsAre DEF MigratingInv, UnmarkedInv,
     UnfinishedInv, CommittedInv, Unfinished, Recovering, Base, DirectoryTypeOK, MigrationTypeOK, RootInv
<1> QED
  BY <1>0, <1>a, <1>b, <1>c, <1>1, <1>2, <1>3, <1>7, <1>8, <1>9 DEF Base, RootInv

\* An archive is refused only when an interrupted run left one.
LEMMA BeginSnapshotInv ==
    ASSUME Migrating, BeginSnapshot
    PROVE  Base'
<1>0. Base /\ UNCHANGED initialization /\ legacy # NoLegacy
  BY DEF Migrating
<1>a. LegacyInv /\ MigratingInv
  BY <1>0 DEF Base, RootInv
<1> USE DEF BeginSnapshot, Doing, Finish, directory
<1>1. DirectoryTypeOK'
  BY <1>0, <1>a, RootsAre, InstallsAre DEF Base, DirectoryTypeOK, MigratingInv, Contents
<1>2. MigrationTypeOK'
  BY <1>0, <1>a, RootsAre, InstallsAre DEF Base, DirectoryTypeOK, MigrationTypeOK, MigratingInv
<1>3. InitializeTypeOK' /\ LegacyInv' /\ NoLegacy' = NoLegacy /\ legacy' = legacy
  BY <1>0, <1>a DEF Base, InitializeTypeOK, LegacyInv, NoLegacy, initialization
<1>4. UnmarkedInv'
  BY <1>0, <1>a, RootsAre, InstallsAre DEF MigratingInv, UnmarkedInv, UnfinishedInv,
     CommittedInv, Unfinished, Recovering, Base, DirectoryTypeOK, MigrationTypeOK
<1>5. UnfinishedInv'
  BY <1>0, <1>a, RootsAre, InstallsAre DEF MigratingInv, UnmarkedInv, UnfinishedInv,
     CommittedInv, Unfinished, Recovering, Base, DirectoryTypeOK, MigrationTypeOK
<1>6. CommittedInv'
  BY <1>0, <1>a, RootsAre, InstallsAre DEF MigratingInv, UnmarkedInv, UnfinishedInv,
     CommittedInv, Unfinished, Recovering, Base, DirectoryTypeOK, MigrationTypeOK
<1>7. MigratingInv'
  BY <1>0, <1>a, <1>4, <1>5, <1>6, RootsAre, InstallsAre DEF MigratingInv, UnmarkedInv,
     UnfinishedInv, CommittedInv, Unfinished, Recovering, Base, DirectoryTypeOK, MigrationTypeOK
<1>8. (live["meta"] = "v4" /\ live["server"] = "v4" => Complete \/ Emptying)'
  BY <1>0, <1>a, RootsAre, InstallsAre, MigratedIsComplete DEF MigratingInv, UnmarkedInv,
     UnfinishedInv, CommittedInv, Unfinished, Recovering, Base, DirectoryTypeOK, MigrationTypeOK, RootInv,
     Directories, Complete, Emptying
<1>9. (work.promised => work.made /\ live["meta"] = "v4" /\ manifest \in {"none", "committed"})'
  BY <1>0, <1>a, RootsAre, InstallsAre DEF MigratingInv, UnmarkedInv, UnfinishedInv,
     CommittedInv, Unfinished, Recovering, Base, DirectoryTypeOK, MigrationTypeOK, RootInv
<1> QED
  BY <1>0, <1>a, <1>1, <1>2, <1>3, <1>7, <1>8, <1>9 DEF Base, RootInv

\* The archive holds the whole schema 3 root.
LEMMA CreateSnapshotInv ==
    ASSUME Migrating, CreateSnapshot
    PROVE  Base'
<1>0. Base /\ UNCHANGED initialization /\ legacy # NoLegacy
  BY DEF Migrating
<1>a. LegacyInv /\ MigratingInv
  BY <1>0 DEF Base, RootInv
<1>b. /\ at = "archive" /\ holder = "migrate" /\ manifest = "none" /\ live = V3Root
      /\ SourceReady(legacy) /\ snapshot = NoSnapshot
  BY <1>0, <1>a, ManifestOf DEF CreateSnapshot, Doing, MigratingInv, UnmarkedInv, UnfinishedInv,
     CommittedInv, Unfinished, Recovering, Base, DirectoryTypeOK
<1>c. /\ partial' = FALSE
      /\ \/ snapshot' = V3Root /\ at' = "mark" /\ UNCHANGED <<holder, verdict>>
         \/ /\ ~Archivable(legacy) /\ holder' = "none" /\ at' = "idle"
            /\ verdict' = "snapshot-refused" /\ UNCHANGED snapshot
      /\ UNCHANGED <<live, journal, server, manifest, work, crashes>>
      /\ UNCHANGED <<legacy, build, installed, recovered, clients>>
  BY <1>b DEF CreateSnapshot, Finish
<1>1. DirectoryTypeOK'
  BY <1>0, <1>a, <1>b, <1>c, RootsAre, InstallsAre DEF Base, DirectoryTypeOK, MigratingInv, Contents
<1>2. MigrationTypeOK'
  BY <1>0, <1>a, <1>b, <1>c, RootsAre, InstallsAre DEF Base, DirectoryTypeOK, MigrationTypeOK, MigratingInv
<1>3. InitializeTypeOK' /\ LegacyInv' /\ NoLegacy' = NoLegacy /\ legacy' = legacy
  BY <1>0, <1>a, <1>b, <1>c DEF Base, InitializeTypeOK, LegacyInv, NoLegacy, initialization
<1>4. UnmarkedInv'
  BY <1>0, <1>a, <1>b, <1>c, RootsAre, InstallsAre DEF MigratingInv, UnmarkedInv, UnfinishedInv,
     CommittedInv, Unfinished, Recovering, Base, DirectoryTypeOK, MigrationTypeOK
<1>5. UnfinishedInv'
  BY <1>0, <1>a, <1>b, <1>c, RootsAre, InstallsAre DEF MigratingInv, UnmarkedInv, UnfinishedInv,
     CommittedInv, Unfinished, Recovering, Base, DirectoryTypeOK, MigrationTypeOK
<1>6. CommittedInv'
  BY <1>0, <1>a, <1>b, <1>c, RootsAre, InstallsAre DEF MigratingInv, UnmarkedInv, UnfinishedInv,
     CommittedInv, Unfinished, Recovering, Base, DirectoryTypeOK, MigrationTypeOK
<1>7. MigratingInv'
  BY <1>0, <1>a, <1>b, <1>c, <1>4, <1>5, <1>6, RootsAre, InstallsAre DEF MigratingInv, UnmarkedInv,
     UnfinishedInv, CommittedInv, Unfinished, Recovering, Base, DirectoryTypeOK, MigrationTypeOK
<1>8. (live["meta"] = "v4" /\ live["server"] = "v4" => Complete \/ Emptying)'
  BY <1>0, <1>a, <1>b, <1>c, RootsAre, InstallsAre, MigratedIsComplete DEF MigratingInv, UnmarkedInv,
     UnfinishedInv, CommittedInv, Unfinished, Recovering, Base, DirectoryTypeOK, MigrationTypeOK, RootInv,
     Directories, Complete, Emptying
<1>9. (work.promised => work.made /\ live["meta"] = "v4" /\ manifest \in {"none", "committed"})'
  BY <1>0, <1>a, <1>b, <1>c, RootsAre, InstallsAre DEF MigratingInv, UnmarkedInv, UnfinishedInv,
     CommittedInv, Unfinished, Recovering, Base, DirectoryTypeOK, MigrationTypeOK, RootInv
<1> QED
  BY <1>0, <1>a, <1>b, <1>c, <1>1, <1>2, <1>3, <1>7, <1>8, <1>9 DEF Base, RootInv

\* A marker is written only when the archive is there.
LEMMA MarkManifestInv ==
    ASSUME Migrating, MarkManifest
    PROVE  Base'
<1>0. Base /\ UNCHANGED initialization /\ legacy # NoLegacy
  BY DEF Migrating
<1>a. LegacyInv /\ MigratingInv
  BY <1>0 DEF Base, RootInv
<1>b. \/ at = "mark" /\ manifest = "none" /\ manifest' = "snapshot-ready" /\ at' = "copy"
      \/ at = "staged" /\ manifest = "snapshot-ready" /\ manifest' = "staged" /\ at' = "install"
      \/ at = "install" /\ manifest = "staged" /\ manifest' = "installing" /\ at' = "remove"
  BY <1>0, <1>a, ManifestOf DEF MarkManifest, MarkerAt, AfterMark, Base
<1>c. /\ holder = "migrate" /\ UNCHANGED <<live, journal, holder, server, work, crashes>>
      /\ UNCHANGED <<legacy, snapshot, partial, build, installed, recovered, clients, verdict>>
  BY DEF MarkManifest
<1>1. DirectoryTypeOK'
  BY <1>0, <1>a, <1>b, <1>c, RootsAre, InstallsAre DEF Base, DirectoryTypeOK, MigratingInv,
     Contents
<1>2. MigrationTypeOK'
  BY <1>0, <1>a, <1>b, <1>c, RootsAre, InstallsAre DEF Base, DirectoryTypeOK,
     MigrationTypeOK, MigratingInv
<1>3. InitializeTypeOK' /\ LegacyInv' /\ NoLegacy' = NoLegacy /\ legacy' = legacy
  BY <1>0, <1>a, <1>b, <1>c DEF Base, InitializeTypeOK, LegacyInv, NoLegacy, initialization
<1>4. UnmarkedInv'
  BY <1>0, <1>a, <1>b, <1>c, RootsAre, InstallsAre DEF MigratingInv, UnmarkedInv,
     UnfinishedInv, CommittedInv, Unfinished, Recovering, Base, DirectoryTypeOK, MigrationTypeOK
<1>5. UnfinishedInv'
  BY <1>0, <1>a, <1>b, <1>c, RootsAre, InstallsAre DEF MigratingInv, UnmarkedInv,
     UnfinishedInv, CommittedInv, Unfinished, Recovering, Base, DirectoryTypeOK, MigrationTypeOK
<1>6. CommittedInv'
  BY <1>0, <1>a, <1>b, <1>c, RootsAre, InstallsAre DEF MigratingInv, UnmarkedInv,
     UnfinishedInv, CommittedInv, Unfinished, Recovering, Base, DirectoryTypeOK, MigrationTypeOK
<1>7. MigratingInv'
  BY <1>0, <1>a, <1>b, <1>c, <1>4, <1>5, <1>6, RootsAre, InstallsAre DEF MigratingInv,
     UnmarkedInv, UnfinishedInv, CommittedInv, Unfinished, Recovering, Base, DirectoryTypeOK,
     MigrationTypeOK
<1>8. (live["meta"] = "v4" /\ live["server"] = "v4" => Complete \/ Emptying)'
  BY <1>0, <1>a, <1>b, <1>c, RootsAre, InstallsAre, MigratedIsComplete DEF MigratingInv,
     UnmarkedInv, UnfinishedInv, CommittedInv, Unfinished, Recovering, Base, DirectoryTypeOK,
     MigrationTypeOK, RootInv, Directories, Complete, Emptying
<1>9. (work.promised => work.made /\ live["meta"] = "v4" /\ manifest \in {"none", "committed"})'
  BY <1>0, <1>a, <1>b, <1>c, RootsAre, InstallsAre DEF MigratingInv, UnmarkedInv,
     UnfinishedInv, CommittedInv, Unfinished, Recovering, Base, DirectoryTypeOK, MigrationTypeOK, RootInv
<1> QED
  BY <1>0, <1>a, <1>b, <1>c, <1>1, <1>2, <1>3, <1>7, <1>8, <1>9 DEF Base, RootInv

\* Copying the tree leaves the root alone.
LEMMA CopyTreeInv ==
    ASSUME Migrating, CopyTree
    PROVE  Base'
<1>0. Base /\ UNCHANGED initialization /\ legacy # NoLegacy
  BY DEF Migrating
<1>a. LegacyInv /\ MigratingInv
  BY <1>0 DEF Base, RootInv
<1> USE DEF CopyTree, Doing, directory
<1>1. DirectoryTypeOK'
  BY <1>0, <1>a, RootsAre, InstallsAre DEF Base, DirectoryTypeOK, MigratingInv, Contents
<1>2. MigrationTypeOK'
  BY <1>0, <1>a, RootsAre, InstallsAre DEF Base, DirectoryTypeOK, MigrationTypeOK, MigratingInv
<1>3. InitializeTypeOK' /\ LegacyInv' /\ NoLegacy' = NoLegacy /\ legacy' = legacy
  BY <1>0, <1>a DEF Base, InitializeTypeOK, LegacyInv, NoLegacy, initialization
<1>4. UnmarkedInv'
  BY <1>0, <1>a, RootsAre, InstallsAre DEF MigratingInv, UnmarkedInv, UnfinishedInv,
     CommittedInv, Unfinished, Recovering, Base, DirectoryTypeOK, MigrationTypeOK
<1>5. UnfinishedInv'
  BY <1>0, <1>a, RootsAre, InstallsAre DEF MigratingInv, UnmarkedInv, UnfinishedInv,
     CommittedInv, Unfinished, Recovering, Base, DirectoryTypeOK, MigrationTypeOK
<1>6. CommittedInv'
  BY <1>0, <1>a, RootsAre, InstallsAre DEF MigratingInv, UnmarkedInv, UnfinishedInv,
     CommittedInv, Unfinished, Recovering, Base, DirectoryTypeOK, MigrationTypeOK
<1>7. MigratingInv'
  BY <1>0, <1>a, <1>4, <1>5, <1>6, RootsAre, InstallsAre DEF MigratingInv, UnmarkedInv,
     UnfinishedInv, CommittedInv, Unfinished, Recovering, Base, DirectoryTypeOK, MigrationTypeOK
<1>8. (live["meta"] = "v4" /\ live["server"] = "v4" => Complete \/ Emptying)'
  BY <1>0, <1>a, RootsAre, InstallsAre, MigratedIsComplete DEF MigratingInv, UnmarkedInv,
     UnfinishedInv, CommittedInv, Unfinished, Recovering, Base, DirectoryTypeOK, MigrationTypeOK, RootInv,
     Directories, Complete, Emptying
<1>9. (work.promised => work.made /\ live["meta"] = "v4" /\ manifest \in {"none", "committed"})'
  BY <1>0, <1>a, RootsAre, InstallsAre DEF MigratingInv, UnmarkedInv, UnfinishedInv,
     CommittedInv, Unfinished, Recovering, Base, DirectoryTypeOK, MigrationTypeOK, RootInv
<1> QED
  BY <1>0, <1>a, <1>1, <1>2, <1>3, <1>7, <1>8, <1>9 DEF Base, RootInv

\* The database accepts what was read (ReadyIsAccepted); the state scan may
\* refuse it.
LEMMA BuildStageInv ==
    ASSUME Migrating, BuildStage
    PROVE  Base'
<1>0. Base /\ UNCHANGED initialization /\ legacy # NoLegacy
  BY DEF Migrating
<1>a. LegacyInv /\ MigratingInv
  BY <1>0 DEF Base, RootInv
<1>b. SourceReady(legacy) /\ LegacyTypeOK(legacy)
  BY <1>0, <1>a, LegaciesAssumption, RootsAre DEF BuildStage, Doing, MigratingInv,
     UnmarkedInv, Base, RootInv
<1>c. DatabaseAccepts(legacy.network, StagedClients(legacy))
  BY <1>b, ReadyIsAccepted
<1>d. /\ at = "stage" /\ holder = "migrate"
      /\ \/ build' = "built" /\ at' = "staged" /\ UNCHANGED <<holder, verdict>>
         \/ /\ ~StageHealthy(legacy) /\ holder' = "none" /\ at' = "idle"
            /\ verdict' = "stage-refused" /\ UNCHANGED build
      /\ UNCHANGED <<live, journal, server, manifest, work, crashes>>
      /\ UNCHANGED <<legacy, snapshot, partial, installed, recovered, clients>>
  BY <1>c DEF BuildStage, Doing, Finish
<1>1. DirectoryTypeOK'
  BY <1>0, <1>a, <1>b, <1>c, <1>d, RootsAre, InstallsAre DEF Base, DirectoryTypeOK,
     MigratingInv, Contents
<1>2. MigrationTypeOK'
  BY <1>0, <1>a, <1>b, <1>c, <1>d, RootsAre, InstallsAre DEF Base, DirectoryTypeOK,
     MigrationTypeOK, MigratingInv
<1>3. InitializeTypeOK' /\ LegacyInv' /\ NoLegacy' = NoLegacy /\ legacy' = legacy
  BY <1>0, <1>a, <1>b, <1>c, <1>d DEF Base, InitializeTypeOK, LegacyInv, NoLegacy,
     initialization
<1>4. UnmarkedInv'
  BY <1>0, <1>a, <1>b, <1>c, <1>d, RootsAre, InstallsAre DEF MigratingInv, UnmarkedInv,
     UnfinishedInv, CommittedInv, Unfinished, Recovering, Base, DirectoryTypeOK, MigrationTypeOK
<1>5. UnfinishedInv'
  BY <1>0, <1>a, <1>b, <1>c, <1>d, RootsAre, InstallsAre DEF MigratingInv, UnmarkedInv,
     UnfinishedInv, CommittedInv, Unfinished, Recovering, Base, DirectoryTypeOK, MigrationTypeOK
<1>6. CommittedInv'
  BY <1>0, <1>a, <1>b, <1>c, <1>d, RootsAre, InstallsAre DEF MigratingInv, UnmarkedInv,
     UnfinishedInv, CommittedInv, Unfinished, Recovering, Base, DirectoryTypeOK, MigrationTypeOK
<1>7. MigratingInv'
  BY <1>0, <1>a, <1>b, <1>c, <1>d, <1>4, <1>5, <1>6, RootsAre, InstallsAre DEF MigratingInv,
     UnmarkedInv, UnfinishedInv, CommittedInv, Unfinished, Recovering, Base, DirectoryTypeOK,
     MigrationTypeOK
<1>8. (live["meta"] = "v4" /\ live["server"] = "v4" => Complete \/ Emptying)'
  BY <1>0, <1>a, <1>b, <1>c, <1>d, RootsAre, InstallsAre, MigratedIsComplete DEF
     MigratingInv, UnmarkedInv, UnfinishedInv, CommittedInv, Unfinished, Recovering, Base, DirectoryTypeOK,
     MigrationTypeOK, RootInv, Directories, Complete, Emptying
<1>9. (work.promised => work.made /\ live["meta"] = "v4" /\ manifest \in {"none", "committed"})'
  BY <1>0, <1>a, <1>b, <1>c, <1>d, RootsAre, InstallsAre DEF MigratingInv, UnmarkedInv,
     UnfinishedInv, CommittedInv, Unfinished, Recovering, Base, DirectoryTypeOK, MigrationTypeOK, RootInv
<1> QED
  BY <1>0, <1>a, <1>b, <1>c, <1>d, <1>1, <1>2, <1>3, <1>7, <1>8, <1>9 DEF Base, RootInv

\* The next directory of installEntries is removed.
LEMMA RemoveLegacyInv ==
    ASSUME Migrating, RemoveLegacy
    PROVE  Base'
<1>0. Base /\ UNCHANGED initialization /\ legacy # NoLegacy
  BY DEF Migrating
<1>a. LegacyInv /\ MigratingInv
  BY <1>0 DEF Base, RootInv
<1>b. manifest = "installing" /\ live = Halfway(installed) /\ installed \in 0..5
  BY <1>0, <1>a, InstallsAre, ManifestOf DEF RemoveLegacy, Doing, MigratingInv, UnmarkedInv,
     UnfinishedInv, CommittedInv, Unfinished, Recovering, Base, DirectoryTypeOK, MigrationTypeOK
<1>c. Installs[installed + 1] \in Directories /\ live \in [Directories -> Contents]
  BY <1>0, <1>b, InstallsAre DEF Base, DirectoryTypeOK
<1> USE DEF RemoveLegacy, Doing, directory
<1>1. DirectoryTypeOK'
  BY <1>0, <1>a, <1>b, <1>c, RootsAre, InstallsAre DEF Base, DirectoryTypeOK, MigratingInv,
     Contents
<1>2. MigrationTypeOK'
  BY <1>0, <1>a, <1>b, <1>c, RootsAre, InstallsAre DEF Base, DirectoryTypeOK,
     MigrationTypeOK, MigratingInv
<1>3. InitializeTypeOK' /\ LegacyInv' /\ NoLegacy' = NoLegacy /\ legacy' = legacy
  BY <1>0, <1>a, <1>b, <1>c DEF Base, InitializeTypeOK, LegacyInv, NoLegacy, initialization
<1>4. UnmarkedInv'
  BY <1>0, <1>a, <1>b, <1>c, RootsAre, InstallsAre DEF MigratingInv, UnmarkedInv,
     UnfinishedInv, CommittedInv, Unfinished, Recovering, Base, DirectoryTypeOK, MigrationTypeOK
<1>5. UnfinishedInv'
  BY <1>0, <1>a, <1>b, <1>c, RootsAre, InstallsAre DEF MigratingInv, UnmarkedInv,
     UnfinishedInv, CommittedInv, Unfinished, Recovering, Base, DirectoryTypeOK, MigrationTypeOK
<1>6. CommittedInv'
  BY <1>0, <1>a, <1>b, <1>c, RootsAre, InstallsAre DEF MigratingInv, UnmarkedInv,
     UnfinishedInv, CommittedInv, Unfinished, Recovering, Base, DirectoryTypeOK, MigrationTypeOK
<1>7. MigratingInv'
  BY <1>0, <1>a, <1>b, <1>c, <1>4, <1>5, <1>6, RootsAre, InstallsAre DEF MigratingInv,
     UnmarkedInv, UnfinishedInv, CommittedInv, Unfinished, Recovering, Base, DirectoryTypeOK,
     MigrationTypeOK
<1>8. (live["meta"] = "v4" /\ live["server"] = "v4" => Complete \/ Emptying)'
  BY <1>0, <1>a, <1>b, <1>c, RootsAre, InstallsAre, MigratedIsComplete DEF MigratingInv,
     UnmarkedInv, UnfinishedInv, CommittedInv, Unfinished, Recovering, Base, DirectoryTypeOK,
     MigrationTypeOK, RootInv, Directories, Complete, Emptying
<1>9. (work.promised => work.made /\ live["meta"] = "v4" /\ manifest \in {"none", "committed"})'
  BY <1>0, <1>a, <1>b, <1>c, RootsAre, InstallsAre DEF MigratingInv, UnmarkedInv,
     UnfinishedInv, CommittedInv, Unfinished, Recovering, Base, DirectoryTypeOK, MigrationTypeOK, RootInv
<1> QED
  BY <1>0, <1>a, <1>b, <1>c, <1>1, <1>2, <1>3, <1>7, <1>8, <1>9 DEF Base, RootInv

\* The staged directory takes its place, the database with the staged
\* clients.
LEMMA InstallSchema4Inv ==
    ASSUME Migrating, InstallSchema4
    PROVE  Base'
<1>0. Base /\ UNCHANGED initialization /\ legacy # NoLegacy
  BY DEF Migrating
<1>a. LegacyInv /\ MigratingInv
  BY <1>0 DEF Base, RootInv
<1>b. /\ manifest = "installing" /\ installed \in 0..5
      /\ live = [Halfway(installed) EXCEPT ![Installs[installed + 1]] = "absent"]
  BY <1>0, <1>a, InstallsAre, ManifestOf DEF InstallSchema4, Doing, MigratingInv,
     UnmarkedInv, UnfinishedInv, CommittedInv, Unfinished, Recovering, Base, DirectoryTypeOK,
     MigrationTypeOK
<1>c. Installs[installed + 1] \in Directories /\ InstallPlace[Installs[installed + 1]] = installed + 1
  BY <1>b, InstallsAre
<1>d. live' = Halfway(installed + 1)
  <2>1. \A d \in Directories : InstallPlace[d] = installed + 1 => d = Installs[installed + 1]
    BY <1>b, InstallsAre
  <2>2. live' = [live EXCEPT ![Installs[installed + 1]] = "v4"]
    BY DEF InstallSchema4
  <2> QED
    BY <1>b, <1>c, <2>1, <2>2, InstallsAre DEF Halfway
<1> USE DEF InstallSchema4, Doing, directory
<1>1. DirectoryTypeOK'
  BY <1>0, <1>a, <1>b, <1>c, <1>d, RootsAre, InstallsAre DEF Base, DirectoryTypeOK,
     MigratingInv, Contents
<1>2. MigrationTypeOK'
  BY <1>0, <1>a, <1>b, <1>c, <1>d, RootsAre, InstallsAre DEF Base, DirectoryTypeOK,
     MigrationTypeOK, MigratingInv
<1>3. InitializeTypeOK' /\ LegacyInv' /\ NoLegacy' = NoLegacy /\ legacy' = legacy
  BY <1>0, <1>a, <1>b, <1>c, <1>d DEF Base, InitializeTypeOK, LegacyInv, NoLegacy,
     initialization
<1>4. UnmarkedInv'
  BY <1>0, <1>a, <1>b, <1>c, <1>d, RootsAre, InstallsAre DEF MigratingInv, UnmarkedInv,
     UnfinishedInv, CommittedInv, Unfinished, Recovering, Base, DirectoryTypeOK, MigrationTypeOK
<1>5. UnfinishedInv'
  BY <1>0, <1>a, <1>b, <1>c, <1>d, RootsAre, InstallsAre DEF MigratingInv, UnmarkedInv,
     UnfinishedInv, CommittedInv, Unfinished, Recovering, Base, DirectoryTypeOK, MigrationTypeOK
<1>6. CommittedInv'
  BY <1>0, <1>a, <1>b, <1>c, <1>d, RootsAre, InstallsAre DEF MigratingInv, UnmarkedInv,
     UnfinishedInv, CommittedInv, Unfinished, Recovering, Base, DirectoryTypeOK, MigrationTypeOK
<1>7. MigratingInv'
  BY <1>0, <1>a, <1>b, <1>c, <1>d, <1>4, <1>5, <1>6, RootsAre, InstallsAre DEF MigratingInv,
     UnmarkedInv, UnfinishedInv, CommittedInv, Unfinished, Recovering, Base, DirectoryTypeOK,
     MigrationTypeOK
<1>8. (live["meta"] = "v4" /\ live["server"] = "v4" => Complete \/ Emptying)'
  BY <1>0, <1>a, <1>b, <1>c, <1>d, RootsAre, InstallsAre, MigratedIsComplete DEF
     MigratingInv, UnmarkedInv, UnfinishedInv, CommittedInv, Unfinished, Recovering, Base, DirectoryTypeOK,
     MigrationTypeOK, RootInv, Directories, Complete, Emptying
<1>9. (work.promised => work.made /\ live["meta"] = "v4" /\ manifest \in {"none", "committed"})'
  BY <1>0, <1>a, <1>b, <1>c, <1>d, RootsAre, InstallsAre DEF MigratingInv, UnmarkedInv,
     UnfinishedInv, CommittedInv, Unfinished, Recovering, Base, DirectoryTypeOK, MigrationTypeOK, RootInv
<1> QED
  BY <1>0, <1>a, <1>b, <1>c, <1>d, <1>1, <1>2, <1>3, <1>7, <1>8, <1>9 DEF Base, RootInv

\* The transaction is committed when every directory is in its place.
LEMMA CommitManifestInv ==
    ASSUME Migrating, CommitManifest
    PROVE  Base'
<1>0. Base /\ UNCHANGED initialization /\ legacy # NoLegacy
  BY DEF Migrating
<1>a. LegacyInv /\ MigratingInv
  BY <1>0 DEF Base, RootInv
<1>b. manifest = "installing" /\ live = Migrated
  BY <1>0, <1>a, InstallsAre DEF CommitManifest, Doing, MigratingInv, UnmarkedInv,
     UnfinishedInv, CommittedInv, Unfinished, Recovering, Base, DirectoryTypeOK, Migrated
<1> USE DEF CommitManifest, Doing, directory
<1>1. DirectoryTypeOK'
  BY <1>0, <1>a, <1>b, RootsAre, InstallsAre DEF Base, DirectoryTypeOK, MigratingInv, Contents
<1>2. MigrationTypeOK'
  BY <1>0, <1>a, <1>b, RootsAre, InstallsAre DEF Base, DirectoryTypeOK, MigrationTypeOK,
     MigratingInv
<1>3. InitializeTypeOK' /\ LegacyInv' /\ NoLegacy' = NoLegacy /\ legacy' = legacy
  BY <1>0, <1>a, <1>b DEF Base, InitializeTypeOK, LegacyInv, NoLegacy, initialization
<1>4. UnmarkedInv'
  BY <1>0, <1>a, <1>b, RootsAre, InstallsAre DEF MigratingInv, UnmarkedInv, UnfinishedInv,
     CommittedInv, Unfinished, Recovering, Base, DirectoryTypeOK, MigrationTypeOK
<1>5. UnfinishedInv'
  BY <1>0, <1>a, <1>b, RootsAre, InstallsAre DEF MigratingInv, UnmarkedInv, UnfinishedInv,
     CommittedInv, Unfinished, Recovering, Base, DirectoryTypeOK, MigrationTypeOK
<1>6. CommittedInv'
  BY <1>0, <1>a, <1>b, RootsAre, InstallsAre DEF MigratingInv, UnmarkedInv, UnfinishedInv,
     CommittedInv, Unfinished, Recovering, Base, DirectoryTypeOK, MigrationTypeOK
<1>7. MigratingInv'
  BY <1>0, <1>a, <1>b, <1>4, <1>5, <1>6, RootsAre, InstallsAre DEF MigratingInv, UnmarkedInv,
     UnfinishedInv, CommittedInv, Unfinished, Recovering, Base, DirectoryTypeOK, MigrationTypeOK
<1>8. (live["meta"] = "v4" /\ live["server"] = "v4" => Complete \/ Emptying)'
  BY <1>0, <1>a, <1>b, RootsAre, InstallsAre, MigratedIsComplete DEF MigratingInv,
     UnmarkedInv, UnfinishedInv, CommittedInv, Unfinished, Recovering, Base, DirectoryTypeOK,
     MigrationTypeOK, RootInv, Directories, Complete, Emptying
<1>9. (work.promised => work.made /\ live["meta"] = "v4" /\ manifest \in {"none", "committed"})'
  BY <1>0, <1>a, <1>b, RootsAre, InstallsAre DEF MigratingInv, UnmarkedInv, UnfinishedInv,
     CommittedInv, Unfinished, Recovering, Base, DirectoryTypeOK, MigrationTypeOK, RootInv
<1> QED
  BY <1>0, <1>a, <1>b, <1>1, <1>2, <1>3, <1>7, <1>8, <1>9 DEF Base, RootInv

\* The stage goes under the committed marker.
LEMMA CleanStageInv ==
    ASSUME Migrating, CleanStage
    PROVE  Base'
<1>0. Base /\ UNCHANGED initialization /\ legacy # NoLegacy
  BY DEF Migrating
<1>a. LegacyInv /\ MigratingInv
  BY <1>0 DEF Base, RootInv
<1> USE DEF CleanStage, Doing, directory
<1>1. DirectoryTypeOK'
  BY <1>0, <1>a, RootsAre, InstallsAre DEF Base, DirectoryTypeOK, MigratingInv, Contents
<1>2. MigrationTypeOK'
  BY <1>0, <1>a, RootsAre, InstallsAre DEF Base, DirectoryTypeOK, MigrationTypeOK, MigratingInv
<1>3. InitializeTypeOK' /\ LegacyInv' /\ NoLegacy' = NoLegacy /\ legacy' = legacy
  BY <1>0, <1>a DEF Base, InitializeTypeOK, LegacyInv, NoLegacy, initialization
<1>4. UnmarkedInv'
  BY <1>0, <1>a, RootsAre, InstallsAre DEF MigratingInv, UnmarkedInv, UnfinishedInv,
     CommittedInv, Unfinished, Recovering, Base, DirectoryTypeOK, MigrationTypeOK
<1>5. UnfinishedInv'
  BY <1>0, <1>a, RootsAre, InstallsAre DEF MigratingInv, UnmarkedInv, UnfinishedInv,
     CommittedInv, Unfinished, Recovering, Base, DirectoryTypeOK, MigrationTypeOK
<1>6. CommittedInv'
  BY <1>0, <1>a, RootsAre, InstallsAre DEF MigratingInv, UnmarkedInv, UnfinishedInv,
     CommittedInv, Unfinished, Recovering, Base, DirectoryTypeOK, MigrationTypeOK
<1>7. MigratingInv'
  BY <1>0, <1>a, <1>4, <1>5, <1>6, RootsAre, InstallsAre DEF MigratingInv, UnmarkedInv,
     UnfinishedInv, CommittedInv, Unfinished, Recovering, Base, DirectoryTypeOK, MigrationTypeOK
<1>8. (live["meta"] = "v4" /\ live["server"] = "v4" => Complete \/ Emptying)'
  BY <1>0, <1>a, RootsAre, InstallsAre, MigratedIsComplete DEF MigratingInv, UnmarkedInv,
     UnfinishedInv, CommittedInv, Unfinished, Recovering, Base, DirectoryTypeOK, MigrationTypeOK, RootInv,
     Directories, Complete, Emptying
<1>9. (work.promised => work.made /\ live["meta"] = "v4" /\ manifest \in {"none", "committed"})'
  BY <1>0, <1>a, RootsAre, InstallsAre DEF MigratingInv, UnmarkedInv, UnfinishedInv,
     CommittedInv, Unfinished, Recovering, Base, DirectoryTypeOK, MigrationTypeOK, RootInv
<1> QED
  BY <1>0, <1>a, <1>1, <1>2, <1>3, <1>7, <1>8, <1>9 DEF Base, RootInv

\* The marker goes when the root is migrated.
LEMMA CleanManifestInv ==
    ASSUME Migrating, CleanManifest
    PROVE  Base'
<1>0. Base /\ UNCHANGED initialization /\ legacy # NoLegacy
  BY DEF Migrating
<1>a. LegacyInv /\ MigratingInv
  BY <1>0 DEF Base, RootInv
<1> USE DEF CleanManifest, Doing, Finish, directory
<1>1. DirectoryTypeOK'
  BY <1>0, <1>a, RootsAre, InstallsAre DEF Base, DirectoryTypeOK, MigratingInv, Contents
<1>2. MigrationTypeOK'
  BY <1>0, <1>a, RootsAre, InstallsAre DEF Base, DirectoryTypeOK, MigrationTypeOK, MigratingInv
<1>3. InitializeTypeOK' /\ LegacyInv' /\ NoLegacy' = NoLegacy /\ legacy' = legacy
  BY <1>0, <1>a DEF Base, InitializeTypeOK, LegacyInv, NoLegacy, initialization
<1>4. UnmarkedInv'
  BY <1>0, <1>a, RootsAre, InstallsAre DEF MigratingInv, UnmarkedInv, UnfinishedInv,
     CommittedInv, Unfinished, Recovering, Base, DirectoryTypeOK, MigrationTypeOK
<1>5. UnfinishedInv'
  BY <1>0, <1>a, RootsAre, InstallsAre DEF MigratingInv, UnmarkedInv, UnfinishedInv,
     CommittedInv, Unfinished, Recovering, Base, DirectoryTypeOK, MigrationTypeOK
<1>6. CommittedInv'
  BY <1>0, <1>a, RootsAre, InstallsAre DEF MigratingInv, UnmarkedInv, UnfinishedInv,
     CommittedInv, Unfinished, Recovering, Base, DirectoryTypeOK, MigrationTypeOK
<1>7. MigratingInv'
  BY <1>0, <1>a, <1>4, <1>5, <1>6, RootsAre, InstallsAre DEF MigratingInv, UnmarkedInv,
     UnfinishedInv, CommittedInv, Unfinished, Recovering, Base, DirectoryTypeOK, MigrationTypeOK
<1>8. (live["meta"] = "v4" /\ live["server"] = "v4" => Complete \/ Emptying)'
  BY <1>0, <1>a, RootsAre, InstallsAre, MigratedIsComplete DEF MigratingInv, UnmarkedInv,
     UnfinishedInv, CommittedInv, Unfinished, Recovering, Base, DirectoryTypeOK, MigrationTypeOK, RootInv,
     Directories, Complete, Emptying
<1>9. (work.promised => work.made /\ live["meta"] = "v4" /\ manifest \in {"none", "committed"})'
  BY <1>0, <1>a, RootsAre, InstallsAre DEF MigratingInv, UnmarkedInv, UnfinishedInv,
     CommittedInv, Unfinished, Recovering, Base, DirectoryTypeOK, MigrationTypeOK, RootInv
<1> QED
  BY <1>0, <1>a, <1>1, <1>2, <1>3, <1>7, <1>8, <1>9 DEF Base, RootInv

\* An interrupted run leaves its marker, and what the marker says of the
\* root.
LEMMA MigrateInterruptedInv ==
    ASSUME Migrating, MigrateInterrupted
    PROVE  Base'
<1>0. Base /\ UNCHANGED initialization /\ legacy # NoLegacy
  BY DEF Migrating
<1>a. LegacyInv /\ MigratingInv
  BY <1>0 DEF Base, RootInv
<1> USE DEF MigrateInterrupted, directory
<1>1. DirectoryTypeOK'
  BY <1>0, <1>a, CrashesAssumption, RootsAre, InstallsAre DEF Base, DirectoryTypeOK,
     MigratingInv, Contents
<1>2. MigrationTypeOK'
  BY <1>0, <1>a, RootsAre, InstallsAre DEF Base, DirectoryTypeOK, MigrationTypeOK, MigratingInv
<1>3. InitializeTypeOK' /\ LegacyInv' /\ NoLegacy' = NoLegacy /\ legacy' = legacy
  BY <1>0, <1>a DEF Base, InitializeTypeOK, LegacyInv, NoLegacy, initialization
<1>4. UnmarkedInv'
  BY <1>0, <1>a, RootsAre, InstallsAre DEF MigratingInv, UnmarkedInv, UnfinishedInv,
     CommittedInv, Unfinished, Recovering, Base, DirectoryTypeOK, MigrationTypeOK
<1>5. UnfinishedInv'
  BY <1>0, <1>a, RootsAre, InstallsAre DEF MigratingInv, UnmarkedInv, UnfinishedInv,
     CommittedInv, Unfinished, Recovering, Base, DirectoryTypeOK, MigrationTypeOK
<1>6. CommittedInv'
  BY <1>0, <1>a, RootsAre, InstallsAre DEF MigratingInv, UnmarkedInv, UnfinishedInv,
     CommittedInv, Unfinished, Recovering, Base, DirectoryTypeOK, MigrationTypeOK
<1>7. MigratingInv'
  BY <1>0, <1>a, <1>4, <1>5, <1>6, RootsAre, InstallsAre DEF MigratingInv, UnmarkedInv,
     UnfinishedInv, CommittedInv, Unfinished, Recovering, Base, DirectoryTypeOK, MigrationTypeOK
<1>8. (live["meta"] = "v4" /\ live["server"] = "v4" => Complete \/ Emptying)'
  BY <1>0, <1>a, RootsAre, InstallsAre, MigratedIsComplete DEF MigratingInv, UnmarkedInv,
     UnfinishedInv, CommittedInv, Unfinished, Recovering, Base, DirectoryTypeOK, MigrationTypeOK, RootInv,
     Directories, Complete, Emptying
<1>9. (work.promised => work.made /\ live["meta"] = "v4" /\ manifest \in {"none", "committed"})'
  BY <1>0, <1>a, RootsAre, InstallsAre DEF MigratingInv, UnmarkedInv, UnfinishedInv,
     CommittedInv, Unfinished, Recovering, Base, DirectoryTypeOK, MigrationTypeOK, RootInv
<1> QED
  BY <1>0, <1>a, <1>1, <1>2, <1>3, <1>7, <1>8, <1>9 DEF Base, RootInv

-----------------------------------------------------------------------------
(* The other steps on a root                                               *)

\* Initialization refuses the root of a migration.
LEMMA StartLegacyInv ==
    ASSUME Base, legacy # NoLegacy, Start, UNCHANGED migration
    PROVE  Base'
<1>0. LegacyInv /\ MigratingInv
  BY DEF Base, RootInv
<1>1. ~EmptyDirectory
  <2>1. manifest = "none" => live["server"] # "absent"
    BY <1>0, RootsAre DEF MigratingInv, UnmarkedInv
  <2> QED
    BY <2>1 DEF EmptyDirectory, Directories
<1>2. /\ UNCHANGED <<marker, stage, staged, journal, next, pc, tmp, holder>>
      /\ outcome' = "not-empty"
      /\ UNCHANGED <<live, server, manifest, work, crashes>>
  <2>1. stage \in BOOLEAN
    BY DEF Base, InitializeTypeOK
  <2> QED
    BY <1>0, <1>1, <2>1 DEF Start, LegacyInv, Answer, Go
<1>3. MigratingInv'
  BY <1>0, <1>2 DEF MigratingInv, UnmarkedInv, UnfinishedInv, CommittedInv, migration
<1>4. LegacyInv' /\ InitializeTypeOK'
  BY <1>0, <1>2 DEF LegacyInv, Deferred, Base, InitializeTypeOK
<1>5. DirectoryTypeOK' /\ MigrationTypeOK'
  BY <1>2 DEF Base, DirectoryTypeOK, MigrationTypeOK, migration
<1>6. NoLegacy' = NoLegacy
  BY DEF NoLegacy
<1> QED
  BY <1>2, <1>3, <1>4, <1>5, <1>6 DEF Base, RootInv, Complete, Emptying, migration

\* Every step of Initialize, on any root.
LEMMA InitializeStep ==
    ASSUME Base, InitializeNext, UNCHANGED migration
    PROVE  Base'
<1>1. CASE legacy = NoLegacy
  <2>1. Initializing
    BY <1>1 DEF Initializing
  <2> QED
    BY <2>1, StartInv, MakeStageInv, BuildInv, BuildFailsInv, WriteMarkerInv, RenameMarkerInv,
       InstallEntryInv, InstallJournalInv, InstallCommitInv, RemoveStageInv, RemoveMarkerInv,
       KilledInv DEF InitializeNext
<1>2. CASE legacy # NoLegacy
  <2>1. holder # "init"
    BY <1>2 DEF Base, RootInv, LegacyInv
  <2>2. Start
    BY <2>1 DEF InitializeNext, MakeStage, Build, BuildFails, WriteMarker, RenameMarker,
       InstallEntry, InstallJournal, InstallCommit, RemoveStage, RemoveMarker, Killed, At
  <2> QED
    BY <1>2, <2>2, StartLegacyInv
<1> QED
  BY <1>1, <1>2

\* Changes of the lock and the bound on crashes alone.
LEMMA LockInv ==
    ASSUME Base, legacy = NoLegacy,
           UNCHANGED <<live, journal, server, manifest, work, initialization, migration>>,
           holder' = holder \/ {holder, holder'} \subseteq {"none", "repair"},
           crashes' \in 0..MaxCrashes, crashes <= crashes'
    PROVE  Base'
<1>0. InitializingInv /\ CurrentInv
  BY DEF Base, RootInv
<1>1. DirectoryTypeOK' /\ InitializeTypeOK' /\ MigrationTypeOK'
  BY DEF Base, DirectoryTypeOK, InitializeTypeOK, MigrationTypeOK, initialization, migration
<1>2. CurrentInv'
  BY <1>0 DEF CurrentInv, migration
<1>3. PrefixInv' /\ MarkerInv' /\ PreparedInv'
  BY <1>0 DEF InitializingInv, PrefixInv, MarkerInv, NoMarkerInv, StagingInv, InstallingInv,
     FilesInstalledInv, FinishingInv, PreparedInv, Moved, initialization
<1>4. PositionInv' /\ OutcomeInv'
  <2>1. crashes \in Nat
    BY CrashesAssumption DEF Base, DirectoryTypeOK
  <2> QED
    BY <1>0, <2>1, CrashesAssumption DEF InitializingInv, PositionInv, OutcomeInv, Moved,
       initialization
<1>5. NoLegacy' = NoLegacy
  BY DEF NoLegacy
<1> QED
  BY <1>0, <1>1, <1>2, <1>3, <1>4, <1>5 DEF Base, RootInv, InitializingInv, Complete, Emptying, migration

\* A root that is not one of schema 3 is never migrated.
LEMMA MigrateCurrentInv ==
    ASSUME Base, legacy = NoLegacy, MigrationNext, UNCHANGED initialization
    PROVE  Base'
<1>0. InitializingInv /\ CurrentInv
  BY DEF Base, RootInv
<1>1. MigrateStart \/ Recover \/ Plan \/ MigrateInterrupted
  BY <1>0 DEF MigrationNext, CurrentInv, RemoveEntry, OpenSnapshot, RestoreEntry,
     Restored, Forget, BeginSnapshot, CreateSnapshot,
     MarkManifest,
     CopyTree, BuildStage, RemoveLegacy, InstallSchema4, CommitManifest, CleanStage,
        CleanManifest,
     Doing, MarkerAt
<1>a. live["meta"] \in {"absent", "v4"} /\ live["config"] = "absent"
  BY <1>0, EntriesAre DEF InitializingInv, PrefixInv, Directories
<1>b. PlanStatus \in {"current", "source-invalid"}
  BY <1>a DEF PlanStatus
<1>c. MigrateStart => /\ holder = "none" /\ server # "running" /\ holder' = "migrate"
                      /\ at' = "recover" /\ verdict' = "none" /\ crashes' = crashes
                      /\ installed' = installed /\ partial' = partial /\ recovered' = recovered
                      /\ UNCHANGED <<live, journal, server, manifest, work>>
                      /\ UNCHANGED <<legacy, snapshot, build, clients>>
  <2>1. recovered \in BOOLEAN
    BY DEF Base, MigrationTypeOK
  <2> QED
    BY <1>0, <2>1 DEF MigrateStart, CurrentInv
<1>d. Recover => /\ holder = "migrate" /\ holder' = holder /\ at' = "plan" /\ verdict' = verdict
                 /\ crashes' = crashes
                 /\ installed' = installed /\ partial' = partial /\ recovered' = recovered
                 /\ UNCHANGED <<live, journal, server, manifest, work>>
                 /\ UNCHANGED <<legacy, snapshot, build, clients>>
  BY <1>0 DEF Recover, CurrentInv, Doing, Unfinished
<1>e. Plan => /\ holder = "migrate" /\ holder' = "none" /\ at' = "idle"
              /\ verdict' \in {"current", "source-invalid"}
              /\ crashes' = crashes
              /\ installed' = installed /\ partial' = partial /\ recovered' = recovered
              /\ UNCHANGED <<live, journal, server, manifest, work>>
              /\ UNCHANGED <<legacy, snapshot, build, clients>>
  BY <1>b DEF Plan, Finish, Doing
<1>f. MigrateInterrupted => /\ holder = "migrate" /\ holder' = "none" /\ at' = "idle"
                            /\ verdict' = verdict /\ crashes' = crashes + 1
                            /\ crashes' \in 0..MaxCrashes
                            /\ installed' = installed /\ partial' = partial /\ recovered' = recovered
                            /\ UNCHANGED <<live, journal, server, manifest, work>>
                            /\ UNCHANGED <<legacy, snapshot, build, clients>>
  BY <1>0, CrashesAssumption DEF MigrateInterrupted, CurrentInv, Base, DirectoryTypeOK
<1>g. /\ holder \in {"none", "migrate"} /\ holder' \in {"none", "migrate"}
      /\ crashes' \in 0..MaxCrashes /\ crashes <= crashes' /\ crashes \in 0..MaxCrashes
      /\ (holder' = "migrate") <=> (at' # "idle")
      /\ at' \in {"idle", "recover", "plan"}
      /\ verdict' \in {"none", "current", "source-invalid"}
      /\ server = "running" => holder' # "migrate"
      /\ installed' = installed /\ partial' = partial /\ recovered' = recovered
      /\ UNCHANGED <<live, journal, server, manifest, work>>
      /\ UNCHANGED <<legacy, snapshot, build, clients>>
  BY <1>0, <1>1, <1>c, <1>d, <1>e, <1>f, CrashesAssumption DEF Base, DirectoryTypeOK,
     RootInv, CurrentInv
<1> HIDE <1>1
<1>2. DirectoryTypeOK' /\ InitializeTypeOK' /\ MigrationTypeOK'
  BY <1>g DEF Base, DirectoryTypeOK, InitializeTypeOK, MigrationTypeOK, initialization
<1>3. CurrentInv'
  BY <1>0, <1>g DEF CurrentInv
<1>4. PrefixInv' /\ MarkerInv' /\ PreparedInv'
  BY <1>0, <1>g DEF InitializingInv, PrefixInv, MarkerInv, NoMarkerInv, StagingInv,
     InstallingInv,
     FilesInstalledInv, FinishingInv, PreparedInv, Moved, initialization
<1>5. PositionInv' /\ OutcomeInv'
  BY <1>0, <1>g, CrashesAssumption DEF InitializingInv, PositionInv, OutcomeInv, Moved,
     initialization
<1>6. NoLegacy' = NoLegacy
  BY DEF NoLegacy
<1> QED
  BY <1>0, <1>g, <1>2, <1>3, <1>4, <1>5, <1>6 DEF Base, RootInv, InitializingInv, Complete, Emptying

\* Every step of Apply, on any root.
LEMMA MigrationStep ==
    ASSUME Base, MigrationNext, UNCHANGED initialization
    PROVE  Base'
<1>1. CASE legacy = NoLegacy
  BY <1>1, MigrateCurrentInv
<1>2. CASE legacy # NoLegacy
  <2>1. Migrating
    BY <1>2 DEF Migrating
  <2> QED
    BY <2>1, MigrateStartInv, RecoverInv, RemoveEntryInv, OpenSnapshotInv, RestoreEntryInv,
       RestoredInv, ForgetInv, PlanInv, BeginSnapshotInv, CreateSnapshotInv, MarkManifestInv, CopyTreeInv, BuildStageInv, RemoveLegacyInv,
       InstallSchema4Inv, CommitManifestInv, CleanStageInv, CleanManifestInv,
       MigrateInterruptedInv DEF MigrationNext
<1> QED
  BY <1>1, <1>2

\* `server run` and client commands.
LEMMA ServerInv ==
    ASSUME Base, UNCHANGED <<initialization, migration>>,
           \/ ServerRecover
           \/ \E verified \in BOOLEAN : ServerLoad(verified)
           \/ DirectoryNext
    PROVE  Base'
<1>1. /\ UNCHANGED <<live, holder, manifest, crashes>>
      /\ journal' \in {journal, "rolled-back"}
      /\ journal' # journal =>
           holder = "none" /\ live["meta"] = "v4" /\ journal \in Pending
      /\ server' = "running" => holder # "migrate" \/ server' = server
      /\ server' # "stopped" => server # "stopped" \/ live["meta"] = "v4"
      /\ server' \in {"stopped", "recovered", "loaded", "running"}
      /\ \/ work' = work
         \/ /\ work' \in [made : BOOLEAN, promised : BOOLEAN]
            /\ live["meta"] = "v4" /\ work'.made
            /\ work'.promised => work.promised \/ manifest \in {"none", "committed"}
  <2>1. CASE ServerRecover
    BY <2>1 DEF ServerRecover
  <2>2. CASE \E verified \in BOOLEAN : ServerLoad(verified)
    BY <2>2 DEF ServerLoad, InstanceLoads
  <2>3. CASE ServerStart \/ ServerStop
    BY <2>3 DEF ServerStart, ServerStop
  <2>4. CASE ClientWork
    <3>1. work \in [made : BOOLEAN, promised : BOOLEAN] /\ server \in {"stopped", "recovered", "loaded", "running"}
      BY DEF Base, DirectoryTypeOK
    <3> QED
      BY <2>4, <3>1 DEF ClientWork
  <2> QED
    BY <2>1, <2>2, <2>3, <2>4 DEF DirectoryNext
<1> HIDE DEF DirectoryNext
<1>2. DirectoryTypeOK' /\ InitializeTypeOK' /\ MigrationTypeOK'
  BY <1>1 DEF Base, DirectoryTypeOK, InitializeTypeOK, MigrationTypeOK, initialization,
     migration
<1>3. NoLegacy' = NoLegacy
  BY DEF NoLegacy
<1>4. (work.promised => work.made /\ live["meta"] = "v4" /\ manifest \in {"none", "committed"})'
  BY <1>1 DEF Base, RootInv
<1>5. CASE legacy # NoLegacy
  <2>1. journal' = journal
    BY <1>1, <1>5 DEF Base, RootInv, LegacyInv, Pending
  <2>2. LegacyInv' /\ MigratingInv'
    BY <1>1, <1>5, <2>1 DEF Base, RootInv, LegacyInv, MigratingInv, UnmarkedInv, UnfinishedInv,
       CommittedInv, initialization, migration
  <2> QED
    BY <1>1, <1>2, <1>3, <1>4, <1>5, <2>2 DEF Base, RootInv, Complete, Emptying, migration
<1>6. CASE legacy = NoLegacy
  <2>0. InitializingInv /\ CurrentInv
    BY <1>6 DEF Base, RootInv
  <2>1. CurrentInv'
    BY <1>1, <2>0 DEF CurrentInv, migration
  <2>2. journal' # journal => Moved /\ marker \in Markers \ {"staging"} /\ journal # "committed"
          /\ journal' = "rolled-back" /\ holder # "init"
    <3>1. ASSUME journal' # journal PROVE Moved
      BY <1>1, <2>0, <3>1, MetaLast DEF InitializingInv
    <3>2. ASSUME journal' # journal PROVE live # EmptyRoot
      BY <1>1, <3>2 DEF EmptyRoot, Directories
    <3> QED
      BY <1>1, <2>0, <3>1, <3>2 DEF InitializingInv, MarkerInv, NoMarkerInv, StagingInv,
         Pending, Base,
         InitializeTypeOK, Markers
  <2>3. PrefixInv' /\ Moved' = Moved
    BY <1>1, <2>0 DEF InitializingInv, PrefixInv, Moved
  <2>4. MarkerInv'
    BY <1>1, <2>0, <2>2, <2>3 DEF InitializingInv, MarkerInv, NoMarkerInv, StagingInv,
       InstallingInv,
       FilesInstalledInv, FinishingInv, EmptyRoot, V4Root, Markers, initialization
  <2>5. PreparedInv'
    BY <1>1, <2>0, <2>2, <2>3 DEF InitializingInv, PreparedInv, Markers, initialization
  <2>6. PositionInv' /\ OutcomeInv'
    BY <1>1, <2>0, <2>2, <2>3 DEF InitializingInv, PositionInv, OutcomeInv, Installing,
       EmptyRoot, initialization
  <2> QED
    BY <1>1, <1>2, <1>3, <1>4, <1>6, <2>0, <2>1, <2>3, <2>4, <2>5, <2>6
       DEF Base, RootInv, InitializingInv, Complete, Emptying, migration
<1> QED
  BY <1>5, <1>6

\* Repair changes the lock, and crashes.
LEMMA RepairStep ==
    ASSUME Base, Established, RepairNext, UNCHANGED <<initialization, migration>>
    PROVE  Base'
<1>0. crashes \in 0..MaxCrashes /\ MaxCrashes \in Nat
  BY CrashesAssumption DEF Base, DirectoryTypeOK
<1>1. /\ UNCHANGED <<live, journal, server, manifest, work>>
      /\ holder' = holder \/ {holder, holder'} \subseteq {"none", "repair"}
      /\ crashes' \in 0..MaxCrashes /\ crashes <= crashes'
  <2>1. CASE RepairStart \/ RepairRecover \/ RepairReplan \/ RepairInstall \/ RepairDone
    BY <1>0, <2>1 DEF RepairStart, RepairRecover, RepairReplan, RepairInstall, RepairDone,
       directory
  <2>2. CASE RepairBegin
    BY <1>0, <2>2 DEF RepairBegin
  <2>3. CASE RepairCommit \/ RepairFails
    BY <1>0, <2>3 DEF RepairCommit, RepairFails
  <2>4. CASE RepairKilled
    BY <1>0, <2>4 DEF RepairKilled
  <2>5. CASE \E f \in Files : FileDamaged(f)
    BY <1>0, <2>5 DEF FileDamaged, directory
  <2>6. CASE \E f \in Recorded : MetadataLost(f)
    BY <1>0, <2>6 DEF MetadataLost, directory
  <2> QED
    BY <2>1, <2>2, <2>3, <2>4, <2>5, <2>6 DEF RepairNext
<1> QED
  BY <1>1, LockInv DEF Established

-----------------------------------------------------------------------------
(* Repair                                                                  *)

AutomaticTypes == {"REBUILD_CRL", "RECOVER_CA_CERT", "RECOVER_CLIENT_IDENTITY", "RECOVER_TLS_CRYPT",
           "REFRESH_CLIENT_ARTIFACTS", "REFRESH_SERVER_ARTIFACTS", "REGISTER_VERIFIED_ARTIFACT"}

\* The automatic actions and the places of those the proofs compare.
LEMMA AutomaticAre ==
    /\ Automatic = AutomaticTypes
    /\ Rank("RECOVER_CLIENT_IDENTITY") = 3
    /\ Rank("RECOVER_TLS_CRYPT") = 4
    /\ Rank("REFRESH_CLIENT_ARTIFACTS") = 5
<1>1. /\ Order[1] = "REBUILD_CRL" /\ Order[2] = "RECOVER_CA_CERT"
      /\ Order[3] = "RECOVER_CLIENT_IDENTITY" /\ Order[4] = "RECOVER_TLS_CRYPT"
      /\ Order[5] = "REFRESH_CLIENT_ARTIFACTS" /\ Order[6] = "REFRESH_SERVER_ARTIFACTS"
      /\ Order[7] = "REGISTER_VERIFIED_ARTIFACT"
  BY DEF Order
<1>2. DOMAIN Order = 1..7
  BY DEF Order
<1>3. \A i \in 1..7 : i = 1 \/ i = 2 \/ i = 3 \/ i = 4 \/ i = 5 \/ i = 6 \/ i = 7
  OBVIOUS
<1>4. Automatic = AutomaticTypes
  BY <1>1, <1>2, <1>3 DEF Automatic, AutomaticTypes
<1>5. /\ \A i \in 1..7 : Order[i] = "RECOVER_CLIENT_IDENTITY" <=> i = 3
      /\ \A i \in 1..7 : Order[i] = "RECOVER_TLS_CRYPT" <=> i = 4
      /\ \A i \in 1..7 : Order[i] = "REFRESH_CLIENT_ARTIFACTS" <=> i = 5
  BY <1>1, <1>3
<1>6. Rank("RECOVER_CLIENT_IDENTITY") = 3
  BY <1>2, <1>5 DEF Rank
<1>7. Rank("RECOVER_TLS_CRYPT") = 4
  BY <1>2, <1>5 DEF Rank
<1>8. Rank("REFRESH_CLIENT_ARTIFACTS") = 5
  BY <1>2, <1>5 DEF Rank
<1> QED
  BY <1>4, <1>6, <1>7, <1>8

\* The two operators, without their CASE.
LEMMA TargetsAre ==
    ASSUME NEW a
    PROVE  /\ a.type = "REBUILD_CRL" =>
                /\ Targets(a) = {<<"crl", "instance">>}
                /\ Recording(a) = Targets(a)
           /\ a.type = "RECOVER_CA_CERT" =>
                /\ Targets(a) = {<<"ca-cert", "instance">>}
                /\ Recording(a) = Targets(a)
           /\ a.type = "RECOVER_CLIENT_IDENTITY" =>
                /\ Targets(a) = {"client-cert", "client-key"} \X {a.owner}
                /\ Recording(a) = Targets(a)
           /\ a.type = "RECOVER_TLS_CRYPT" =>
                /\ Targets(a) = {<<"tls-crypt", "instance">>}
                /\ Recording(a) = Targets(a)
           /\ a.type = "REFRESH_CLIENT_ARTIFACTS" =>
                /\ Targets(a) = {"profile", "ccd"} \X {a.owner}
                /\ Recording(a) = Targets(a) \cup {<<"client-cert", a.owner>>, <<"client-key", a.owner>>}
           /\ a.type = "REFRESH_SERVER_ARTIFACTS" =>
                /\ Targets(a) = {<<"server-config", "instance">>}
                /\ Recording(a) = Targets(a)
           /\ a.type = "REGISTER_VERIFIED_ARTIFACT" =>
                /\ Targets(a) = {}
                /\ Recording(a) = {<<a.kind, a.owner>>}
<1>1. CASE a.type = "REBUILD_CRL"
  BY <1>1 DEF Targets, Recording, Register
<1>2. CASE a.type = "RECOVER_CA_CERT"
  BY <1>2 DEF Targets, Recording, Register
<1>3. CASE a.type = "RECOVER_CLIENT_IDENTITY"
  BY <1>3 DEF Targets, Recording, Register
<1>4. CASE a.type = "RECOVER_TLS_CRYPT"
  BY <1>4 DEF Targets, Recording, Register
<1>5. CASE a.type = "REFRESH_CLIENT_ARTIFACTS"
  BY <1>5 DEF Targets, Recording, Register
<1>6. CASE a.type = "REFRESH_SERVER_ARTIFACTS"
  BY <1>6 DEF Targets, Recording, Register
<1>7. CASE a.type = "REGISTER_VERIFIED_ARTIFACT"
  BY <1>7 DEF Targets, Recording, Register
<1> QED
  BY <1>1, <1>2, <1>3, <1>4, <1>5, <1>6, <1>7

\* The files with metadata.
LEMMA RecordedAre ==
    /\ \A k \in InstanceKinds : <<k, "instance">> \in Recorded
    /\ \A k \in ClientKinds, c \in Owners : <<k, c>> \in Recorded
    /\ Recorded \subseteq Files
  BY DEF Recorded, Files

\* What an action writes are files of the instance, what it records are
\* files with metadata.
LEMMA TargetsIn ==
    ASSUME NEW a, ActionOK(a)
    PROVE  /\ Targets(a) \subseteq Recorded /\ Recording(a) \subseteq Recorded
           /\ Targets(a) \subseteq Recording(a)
<1>1. a.type \in AutomaticTypes
  BY AutomaticAre DEF ActionOK
<1>2. /\ a.type \in ClientActions => a.owner \in Owners
      /\ a.type = Register => <<a.kind, a.owner>> \in Recorded
  BY DEF ActionOK
<1>3. CASE a.type = "REBUILD_CRL"
  BY <1>2, <1>3, TargetsAre, RecordedAre DEF ClientActions, Register, InstanceKinds, ClientKinds
<1>4. CASE a.type = "RECOVER_CA_CERT"
  BY <1>2, <1>4, TargetsAre, RecordedAre DEF ClientActions, Register, InstanceKinds, ClientKinds
<1>5. CASE a.type = "RECOVER_CLIENT_IDENTITY"
  BY <1>2, <1>5, TargetsAre, RecordedAre DEF ClientActions, Register, InstanceKinds, ClientKinds
<1>6. CASE a.type = "RECOVER_TLS_CRYPT"
  BY <1>2, <1>6, TargetsAre, RecordedAre DEF ClientActions, Register, InstanceKinds, ClientKinds
<1>7. CASE a.type = "REFRESH_CLIENT_ARTIFACTS"
  BY <1>2, <1>7, TargetsAre, RecordedAre DEF ClientActions, Register, InstanceKinds, ClientKinds
<1>8. CASE a.type = "REFRESH_SERVER_ARTIFACTS"
  BY <1>2, <1>8, TargetsAre, RecordedAre DEF ClientActions, Register, InstanceKinds, ClientKinds
<1>9. CASE a.type = "REGISTER_VERIFIED_ARTIFACT"
  BY <1>2, <1>9, TargetsAre, RecordedAre DEF ClientActions, Register, InstanceKinds, ClientKinds
<1> QED
  BY <1>1, <1>3, <1>4, <1>5, <1>6, <1>7, <1>8, <1>9 DEF AutomaticTypes

\* The files of an action do not depend on what they hold.
LEMMA RecordsAre ==
    ASSUME NEW a, ActionOK(a)
    PROVE  DOMAIN Writes(a) = Targets(a) /\ Records(a) = Recording(a)
<1>1. a.type \in AutomaticTypes
  BY AutomaticAre DEF ActionOK
<1>2. DOMAIN Writes(a) = Targets(a)
  BY <1>1 DEF Writes, Targets, AutomaticTypes, Register, Only, RefreshedServer,
     RefreshedClient, Recovered
<1> QED
  BY <1>1, <1>2 DEF Records, Recording, AutomaticTypes, Register, Targets

\* The only ingredients an action writes are those it recovers.
LEMMA WritesIngredients ==
    ASSUME NEW a, ActionOK(a), NEW f \in Ingredients
    PROVE  f \in Targets(a) <=> a = RecoveryOf(f)
<1>1. a.type \in AutomaticTypes /\ "instance" \notin Owners
  BY AutomaticAre, OwnersAssumption DEF ActionOK
<1>2. a = RecoveryOf(f) <=> a.type = RecoveryOf(f).type /\ a.owner = f[2] /\ a.kind = ""
  <2> DEFINE Action(t, o, k) == [type |-> t, owner |-> o, kind |-> k]
  <2>1. a = Action(a.type, a.owner, a.kind)
    BY DEF ActionOK
  <2>2. RecoveryOf(f).owner = f[2] /\ RecoveryOf(f).kind = ""
    BY DEF RecoveryOf
  <2>3. RecoveryOf(f) = Action(RecoveryOf(f).type, f[2], "")
    BY DEF RecoveryOf
  <2> HIDE DEF Action
  <2> QED
    BY <2>1, <2>2, <2>3
<1>3. /\ a.type # Register => a.kind = ""
      /\ a.type = "RECOVER_TLS_CRYPT" => a.owner = "instance"
  BY DEF ActionOK, ClientActions, Register
<1>4. CASE f = <<"tls-crypt", "instance">>
  <2>0. RecoveryOf(f).type = "RECOVER_TLS_CRYPT" /\ f[1] = "tls-crypt" /\ f[2] = "instance"
    BY <1>4 DEF RecoveryOf, actionForArtifact
  <2>1. CASE a.type = "REBUILD_CRL"
    BY <1>2, <1>3, <1>4, <2>0, <2>1, TargetsAre DEF Register
  <2>2. CASE a.type = "RECOVER_CA_CERT"
    BY <1>2, <1>3, <1>4, <2>0, <2>2, TargetsAre DEF Register
  <2>3. CASE a.type = "RECOVER_CLIENT_IDENTITY"
    BY <1>2, <1>3, <1>4, <2>0, <2>3, TargetsAre DEF Register
  <2>4. CASE a.type = "RECOVER_TLS_CRYPT"
    BY <1>2, <1>3, <1>4, <2>0, <2>4, TargetsAre DEF Register
  <2>5. CASE a.type = "REFRESH_CLIENT_ARTIFACTS"
    BY <1>2, <1>3, <1>4, <2>0, <2>5, TargetsAre DEF Register
  <2>6. CASE a.type = "REFRESH_SERVER_ARTIFACTS"
    BY <1>2, <2>0, <2>6, TargetsAre
  <2>7. CASE a.type = "REGISTER_VERIFIED_ARTIFACT"
    BY <1>2, <1>3, <1>4, <2>0, <2>7, TargetsAre DEF Register
  <2> QED
    BY <1>1, <2>1, <2>2, <2>3, <2>4, <2>5, <2>6, <2>7 DEF AutomaticTypes
<1>5. CASE \E c \in Owners : f = <<"client-cert", c>> \/ f = <<"client-key", c>>
  <2>0. /\ RecoveryOf(f).type = "RECOVER_CLIENT_IDENTITY" /\ f[1] \in {"client-cert", "client-key"}
        /\ f[2] \in Owners /\ f = <<f[1], f[2]>>
    BY <1>5 DEF RecoveryOf, actionForArtifact
  <2>1. CASE a.type = "REBUILD_CRL"
    BY <1>2, <2>0, <2>1, TargetsAre
  <2>2. CASE a.type = "RECOVER_CA_CERT"
    BY <1>2, <2>0, <2>2, TargetsAre
  <2>3. CASE a.type = "RECOVER_CLIENT_IDENTITY"
    <3>1. Targets(a) = {"client-cert", "client-key"} \X {a.owner} /\ a.kind = ""
      BY <1>3, <2>3, TargetsAre DEF Register
    <3>2. f \in {"client-cert", "client-key"} \X {a.owner} <=> f[2] = a.owner
      BY <2>0
    <3> QED
      BY <1>2, <2>0, <2>3, <3>1, <3>2
  <2>4. CASE a.type = "RECOVER_TLS_CRYPT"
    BY <1>2, <2>0, <2>4, TargetsAre
  <2>5. CASE a.type = "REFRESH_CLIENT_ARTIFACTS"
    BY <1>2, <2>0, <2>5, TargetsAre
  <2>6. CASE a.type = "REFRESH_SERVER_ARTIFACTS"
    BY <1>2, <2>0, <2>6, TargetsAre
  <2>7. CASE a.type = "REGISTER_VERIFIED_ARTIFACT"
    BY <1>2, <2>0, <2>7, TargetsAre
  <2> QED
    BY <1>1, <2>1, <2>2, <2>3, <2>4, <2>5, <2>6, <2>7 DEF AutomaticTypes
<1> QED
  BY <1>4, <1>5 DEF Ingredients

Damaged == RepairShape /\ VouchInv

\* A registered action was checked: the file is there.
LEMMA VerifiedIsThere ==
    ASSUME NEW a, ActionOK(a), a.type = Register, Accepted(a)
    PROVE  content[<<a.kind, a.owner>>] # "absent"
<1>1. Verified(a.kind, a.owner)
  BY DEF Accepted, Register
<1>2. a.kind \in (InstanceKinds \cup ClientKinds) \ {"server-config", "profile", "ccd"}
  BY DEF ActionOK, Recorded
<1>3. a.kind \in InstanceKinds => a.owner = "instance"
  BY DEF ActionOK, Recorded, InstanceKinds, ClientKinds
<1> QED
  BY <1>1, <1>2, <1>3 DEF Verified, InstanceKinds, ClientKinds, StoredCA, ValidateCA,
     ValidateCAKeyPair, ValidateServer, ValidateCRLForCA, ValidateTLSCryptKey,
        ValidateClient, Of

\* A file that is no profile is its own source.
LEMMA SourcesAre ==
    ASSUME NEW f
    PROVE  f \in Sources(f) /\ (f[1] # "profile" => Sources(f) = {f})
  BY DEF Sources

\* A recovered file is the genuine one, unless its row was lost.
LEMMA RecoversGenuine ==
    ASSUME Damaged, NEW f \in Ingredients, NEW v, v \in {"genuine", "foreign"},
           meta[f] \in {NoMetadata, v}
    PROVE  v = Original(f) \/ Doubtful(f)
<1>1. f \in Recorded /\ f[1] \notin {"profile", "ccd"}
  BY DEF Ingredients, Recorded, InstanceKinds, ClientKinds
<1>2. Original(f) = "genuine"
  BY <1>1 DEF Original
<1>3. meta[f] = NoMetadata => Doubtful(f)
  BY <1>1, <1>2, SourcesAre DEF Damaged, VouchInv, RowsInv, Doubtful
<1>4. meta[f] \in {NoMetadata, "genuine"} \/ Doubtful(f)
  BY <1>1, <1>2 DEF Damaged, VouchInv, VouchedGenuine, Doubtful
<1> QED
  BY <1>2, <1>3, <1>4 DEF NoMetadata

\* What an accepted action installs and records is genuine, unless it goes
\* back to a file whose row was lost or that was replaced during the apply.
LEMMA WritesGenuine ==
    ASSUME Damaged, phase = "apply", NEW a \in First(todo), Accepted(a)
    PROVE  /\ Writes(a) \in [Targets(a) -> Values]
           /\ \A f \in Recording(a) :
                LET v == IF f \in Targets(a) THEN Writes(a)[f] ELSE content[f]
                IN  (v = Original(f) \/ Doubtful(f)) /\ (v = "absent" => Original(f) = "absent")
<1>0. ActionOK(a) /\ a \in todo /\ a.type \in AutomaticTypes
  BY AutomaticAre DEF Damaged, RepairShape, ActionOK, First
<1> DEFINE Value(f) == IF f \in Targets(a) THEN Writes(a)[f] ELSE content[f]
           Good(f)  == /\ Value(f) = Original(f) \/ Doubtful(f)
                       /\ Value(f) = "absent" => Original(f) = "absent"
<1> SUFFICES Writes(a) \in [Targets(a) -> Values] /\ \A f \in Recording(a) : Good(f)
  OBVIOUS
<1>1. ASSUME NEW k \in {"crl", "ca-cert", "server-config"},
             Targets(a) = {<<k, "instance">>}, Recording(a) = Targets(a),
             Writes(a) = [g \in {<<k, "instance">>} |-> "genuine"]
      PROVE  Writes(a) \in [Targets(a) -> Values] /\ \A f \in Recording(a) : Good(f)
  <2>1. Original(<<k, "instance">>) = "genuine"
    BY DEF Original
  <2> QED
    BY <1>1, <2>1 DEF Values, Profiles
<1>6. CASE a.type = "REBUILD_CRL"
  <2>1. Targets(a) = {<<"crl", "instance">>} /\ Recording(a) = Targets(a)
    BY <1>6 DEF Targets, Recording, Register
  <2>2. Writes(a) = [g \in {<<"crl", "instance">>} |-> "genuine"]
    BY <1>6 DEF Writes, Only, RefreshedServer, Recovered
  <2> QED
    BY <1>1, <2>1, <2>2
<1>7. CASE a.type = "RECOVER_CA_CERT"
  <2>1. Targets(a) = {<<"ca-cert", "instance">>} /\ Recording(a) = Targets(a)
    BY <1>7 DEF Targets, Recording, Register
  <2>2. Writes(a) = [g \in {<<"ca-cert", "instance">>} |-> "genuine"]
    BY <1>7 DEF Writes, Only, RefreshedServer, Recovered
  <2> QED
    BY <1>1, <2>1, <2>2
<1>8. CASE a.type = "REFRESH_SERVER_ARTIFACTS"
  <2>1. Targets(a) = {<<"server-config", "instance">>} /\ Recording(a) = Targets(a)
    BY <1>8 DEF Targets, Recording, Register
  <2>2. Writes(a) = [g \in {<<"server-config", "instance">>} |-> "genuine"]
    BY <1>8 DEF Writes, Only, RefreshedServer, Recovered
  <2> QED
    BY <1>1, <2>1, <2>2
<1>2. CASE a.type = "RECOVER_TLS_CRYPT"
  <2> DEFINE t == <<"tls-crypt", "instance">>
             k == CHOOSE x \in TlsEvidence : TRUE
  <2>1. TlsEvidence # {}
    <3>1. Cardinality(TlsEvidence) = 1
      BY <1>2 DEF Accepted, RecoveryReady, Register
    <3> QED
      BY <3>1, FS_EmptySet
  <2>2. k \in TlsEvidence
    BY <2>1
  <2>3. k \in {"genuine", "foreign"} /\ meta[t] \in {NoMetadata, k}
    BY <2>2 DEF TlsEvidence, TlsIn
  <2>4. Targets(a) = {t} /\ Recording(a) = {t} /\ Writes(a) = [g \in {t} |-> k]
    BY <1>2 DEF Targets, Recording, Register, Writes, Only, Recovered
  <2> HIDE DEF k
  <2>5. t \in Ingredients
    BY DEF Ingredients
  <2>6. k = Original(t) \/ Doubtful(t)
    BY <2>3, <2>5, RecoversGenuine
  <2> QED
    BY <2>3, <2>4, <2>6 DEF Values, Profiles
<1>3. CASE a.type = "RECOVER_CLIENT_IDENTITY"
  <2> DEFINE c == a.owner
             v == PairIn(content[<<"profile", c>>])
  <2>1. c \in Owners
    BY <1>0, <1>3 DEF ActionOK, ClientActions
  <2>2. Evidence(c)
    BY <1>3 DEF Accepted, RecoveryReady, Register
  <2>3. /\ v \in {"genuine", "foreign"}
        /\ \A f \in {"client-cert", "client-key"} \X {c} : meta[f] \in {NoMetadata, v}
    BY <2>2 DEF Evidence, PairIn
  <2>4. /\ Targets(a) = {"client-cert", "client-key"} \X {c} /\ Recording(a) = Targets(a)
        /\ Writes(a) = [f \in {"client-cert", "client-key"} \X {c} |-> v]
    BY <1>3 DEF Targets, Recording, Register, Writes, Recovered
  <2>5. \A f \in {"client-cert", "client-key"} \X {c} : f \in Ingredients
    BY <2>1 DEF Ingredients
  <2> HIDE DEF v
  <2>6. \A f \in Targets(a) : v = Original(f) \/ Doubtful(f)
    BY <2>3, <2>4, <2>5, RecoversGenuine
  <2> QED
    BY <2>3, <2>4, <2>6 DEF Values, Profiles
<1>4. CASE a.type = Register
  <2>1. Targets(a) = {} /\ Recording(a) = {<<a.kind, a.owner>>} /\ DOMAIN Writes(a) = {}
    BY <1>0, <1>4, RecordsAre DEF Targets, Recording, Register
  <2>2. Writes(a) = [f \in {} |-> "absent"]
    BY <1>4 DEF Writes, Register
  <2>3. content[<<a.kind, a.owner>>] # "absent"
    BY <1>0, <1>4, VerifiedIsThere
  <2>4. Doubtful(<<a.kind, a.owner>>)
    BY <1>0, <1>4, SourcesAre DEF ActionOK, Doubtful
  <2> QED
    BY <2>1, <2>2, <2>3, <2>4
<1>5. CASE a.type = "REFRESH_CLIENT_ARTIFACTS"
  <2> DEFINE c == a.owner
             cert == <<"client-cert", c>>
             key == <<"client-key", c>>
             tls == <<"tls-crypt", "instance">>
             prof == <<"profile", c>>
             ccd == <<"ccd", c>>
  <2>1. c \in Owners /\ cert \in Ingredients /\ key \in Ingredients /\ tls \in Ingredients
    <3>1. c \in Owners
      BY <1>0, <1>5 DEF ActionOK, ClientActions
    <3> QED
      BY <3>1 DEF Ingredients
  <2>2. ValidateClient(c) /\ ValidateTLSCryptKey
    BY <1>5 DEF Accepted, RefreshClientAccepted
  <2>3. /\ content[cert] = content[key] /\ content[cert] \in {"genuine", "foreign"}
        /\ content[tls] \in {"genuine", "foreign"}
    BY <2>2 DEF ValidateClient, ValidateTLSCryptKey, Of
  <2>4. ASSUME NEW f \in {cert, key, tls} PROVE content[f] = "genuine" \/ f \in lost \cup swapped
    <3>1. f \in Ingredients /\ f \in Recorded /\ Original(f) = "genuine" /\ f[1] # "profile"
      BY <2>1 DEF Ingredients, Recorded, InstanceKinds, ClientKinds, Original
    <3>2. RecoveryOf(f) \notin todo
      <4>1. RecoveryOf(f).type \in {"RECOVER_CLIENT_IDENTITY", "RECOVER_TLS_CRYPT"}
        BY DEF RecoveryOf, actionForArtifact
      <4> QED
        BY <1>5, <4>1, AutomaticAre DEF First
    <3>3. f \notin lost \cup swapped => content[f] = meta[f]
      BY <3>1, <3>2 DEF Damaged, VouchInv, CoverInv
    <3>4. meta[f] \in {NoMetadata, "genuine"} \/ Doubtful(f)
      BY <3>1 DEF Damaged, VouchInv, VouchedGenuine, Doubtful
    <3>5. Doubtful(f) => f \in lost \cup swapped
      BY <3>1, SourcesAre DEF Doubtful
    <3> QED
      BY <2>3, <3>3, <3>4, <3>5 DEF NoMetadata
  <2>5. /\ Targets(a) = {prof, ccd} /\ Recording(a) = {prof, ccd, cert, key}
        /\ Writes(a) = [f \in {prof, ccd} |-> IF f[1] = "profile" THEN Rendered(c) ELSE Original(f)]
    <3>1. {"profile", "ccd"} \X {c} = {prof, ccd}
      OBVIOUS
    <3> QED
      BY <1>5, <3>1 DEF Targets, Recording, Register, Writes, RefreshedClient
  <2>6. Rendered(c) = Profile(content[cert], content[tls])
    BY DEF Rendered, Of
  <2>7. Rendered(c) \in Profiles /\ (Rendered(c) = "genuine" \/ content[cert] # "genuine" \/ content[tls] # "genuine")
    BY <2>3, <2>6 DEF Profile, Profiles
  <2>8. Writes(a)[prof] = Rendered(c) /\ Writes(a)[ccd] = Original(ccd)
    BY <2>5
  <2>9. Original(ccd) \in {"absent", "genuine"} /\ Original(prof) = "genuine"
        /\ Original(cert) = "genuine" /\ Original(key) = "genuine"
    BY DEF Original
  <2>10. Writes(a) \in [Targets(a) -> Values]
    BY <2>5, <2>7, <2>9 DEF Values, Profiles
  <2>11. Doubtful(prof) <=> {prof, cert, key, tls} \cap (lost \cup swapped) # {}
    BY DEF Doubtful, Sources
  <2>12. Good(prof)
    BY <2>4, <2>5, <2>7, <2>8, <2>9, <2>11 DEF Profiles
  <2>13. Good(ccd)
    BY <2>5, <2>8
  <2>14. Good(cert) /\ Good(key)
    <3>1. (Doubtful(cert) <=> cert \in lost \cup swapped) /\ (Doubtful(key) <=> key \in lost \cup swapped)
      BY DEF Doubtful, Sources
    <3>2. cert \notin Targets(a) /\ key \notin Targets(a)
      BY <2>5
    <3>3. content[cert] = "genuine" \/ cert \in lost \cup swapped
      BY <2>4
    <3>4. content[key] = "genuine" \/ key \in lost \cup swapped
      BY <2>4
    <3> QED
      BY <2>3, <2>9, <3>1, <3>2, <3>3, <3>4
  <2> QED
    BY <2>5, <2>10, <2>12, <2>13, <2>14
<1> QED
  BY <1>0, <1>2, <1>3, <1>4, <1>5, <1>6, <1>7, <1>8 DEF AutomaticTypes, Register

-----------------------------------------------------------------------------
(* Plans                                                                   *)

\* An automatic action concerns a client or the instance, and only a file
\* whose row was lost is registered.
Permitted(t, o, k) ==
    /\ t # Register => k = ""
    /\ t \in ClientActions => o \in Owners
    /\ t \in AutomaticTypes \ (ClientActions \cup {Register}) => o = "instance"
    /\ t = Register => <<k, o>> \in Recorded \cap lost /\ k \notin {"server-config", "profile", "ccd"}

IssueOK(i) ==
    i = Issue(i.severity, i.action, i.owner, i.kind) /\ Permitted(i.action, i.owner, i.kind)

\* An issue with a permitted action is one a plan may take up.
LEMMA IssueIsOK ==
    ASSUME NEW s, NEW t, NEW o, NEW k, Permitted(t, o, k)
    PROVE  IssueOK(Issue(s, t, o, k))
  BY DEF IssueOK, Issue

\* The issue of an artifact asks for a permitted action.
LEMMA ArtifactIssueOK ==
    ASSUME NEW k, NEW o,
           \/ k \in InstanceKinds /\ o = "instance"
           \/ k \in ClientKinds /\ o \in Owners
    PROVE  IssueOK(ArtifactIssue(<<k, o>>))
<1> DEFINE t == actionForArtifact(k)
<1>1. k \in ClientKinds => t \in ClientActions
  BY DEF ClientKinds, ClientActions, actionForArtifact
<1>2. k \in InstanceKinds => t \notin ClientActions /\ t # Register
  BY DEF InstanceKinds, ClientActions, actionForArtifact, Register
<1>3. Register \notin ClientActions
  BY DEF Register, ClientActions
<1>4. ArtifactIssue(<<k, o>>) = Issue(severityForArtifact(k), t, o, "")
  BY DEF ArtifactIssue
<1> HIDE DEF t
<1>5. Permitted(t, o, "")
  BY <1>1, <1>2, <1>3 DEF Permitted
<1> QED
  BY <1>4, <1>5, IssueIsOK

\* A file of the keys and certificates without metadata has lost its row.
LEMMA RegisterIssueOK ==
    ASSUME RowsInv, NEW k, NEW o, meta[<<k, o>>] = NoMetadata,
           \/ k \in InstanceKinds \ {"server-config"} /\ o = "instance"
           \/ k \in {"client-cert", "client-key"} /\ o \in Owners
    PROVE  IssueOK(RegisterIssue(<<k, o>>))
<1>1. <<k, o>> \in Recorded /\ k \notin {"server-config", "profile", "ccd"}
  BY RecordedAre DEF InstanceKinds, ClientKinds
<1>2. Original(<<k, o>>) = "genuine"
  BY <1>1 DEF Original
<1>3. <<k, o>> \in lost
  BY <1>1, <1>2 DEF RowsInv
<1>4. RegisterIssue(<<k, o>>) = Issue("repairable", Register, o, k)
  BY DEF RegisterIssue, Register
<1>5. Permitted(Register, o, k)
  BY <1>1, <1>3 DEF Permitted, ClientActions, Register, AutomaticTypes
<1> QED
  BY <1>4, <1>5, IssueIsOK

\* Every issue the scan reports asks for a permitted action.
LEMMA ScanOK ==
    ASSUME RowsInv, NEW i \in Scan
    PROVE  IssueOK(i)
<1> DEFINE Other == {"RECOVER_OPERATION", "EXPORT_CONFIG", "REVIEW_CONFIG_PLAN", "RESTORE_BACKUP",
                     "RESTORE_CA_PRIVATE_KEY", "REISSUE_SERVER"}
<1>1. \A t \in Other \cup (AutomaticTypes \ (ClientActions \cup {Register})) : Permitted(t, "instance", "")
  BY DEF Permitted, AutomaticTypes, ClientActions, Register
<1>2. \A c \in Owners : \A t \in ClientActions \cup {"RESTORE_BACKUP"} : Permitted(t, c, "")
  BY DEF Permitted, AutomaticTypes, ClientActions, Register
<1>3. CASE i \in scanOperations \cup scanConfig
  BY <1>1, <1>3, IssueIsOK DEF scanOperations, scanConfig, Found
<1>4. CASE i \in scanAuthority \cup ServerDrift
  <2>1. \E s : \E t \in Other \cup (AutomaticTypes \ (ClientActions \cup {Register})) : i = Issue(s, t, "instance", "")
    BY <1>4 DEF scanAuthority, ServerDrift, Found, AutomaticTypes, ClientActions, Register
  <2> QED
    BY <1>1, <2>1, IssueIsOK
<1>5. CASE i \in scanArtifactSet
  <2>1. PICK k \in InstanceKinds : i \in ArtifactIssues(<<k, "instance">>)
    BY <1>5 DEF scanArtifactSet
  <2>2. CASE i = ArtifactIssue(<<k, "instance">>)
    BY <2>2, ArtifactIssueOK
  <2>3. CASE /\ i = RegisterIssue(<<k, "instance">>) /\ meta[<<k, "instance">>] = NoMetadata
             /\ k # "server-config"
    BY <2>3, RegisterIssueOK
  <2> QED
    BY <2>1, <2>2, <2>3 DEF ArtifactIssues, Found, Registered
<1>6. CASE \E c \in Owners : i \in scanClient(c)
  <2>1. PICK c \in Owners : i \in scanClient(c)
    BY <1>6
  <2>2. CASE \E s : \E t \in ClientActions \cup {"RESTORE_BACKUP"} : i = Issue(s, t, c, "")
    BY <1>2, <2>2, IssueIsOK
  <2>3. CASE \E k \in ClientKinds : i = ArtifactIssue(<<k, c>>)
    BY <2>3, ArtifactIssueOK
  <2>4. CASE \E k \in {"client-cert", "client-key"} :
               i = RegisterIssue(<<k, c>>) /\ meta[<<k, c>>] = NoMetadata
    BY <2>4, RegisterIssueOK
  <2>5. \/ \E s : \E t \in ClientActions \cup {"RESTORE_BACKUP"} : i = Issue(s, t, c, "")
        \/ \E k \in ClientKinds : i = ArtifactIssue(<<k, c>>)
        \/ \E k \in {"client-cert", "client-key"} :
             i = RegisterIssue(<<k, c>>) /\ meta[<<k, c>>] = NoMetadata
    BY <2>1 DEF scanClient, Found, RefreshIssue, Registered, ClientKinds, ClientActions
  <2> QED
    BY <2>2, <2>3, <2>4, <2>5
<1> QED
  BY <1>3, <1>4, <1>5, <1>6 DEF Scan

\* Every action of a plan is one the apply can carry out.
LEMMA PlannedOK ==
    ASSUME RowsInv, NEW a \in PlannedActions
    PROVE  ActionOK(a)
<1>1. PICK i \in Scan : i.action \in Automatic /\ a = ActionOf(i)
  BY DEF PlannedActions
<1>2. Permitted(i.action, i.owner, i.kind)
  BY ScanOK DEF IssueOK
<1>3. a = [type |-> a.type, owner |-> a.owner, kind |-> a.kind]
      /\ a.type = i.action /\ a.owner = i.owner /\ a.kind = i.kind
  BY <1>1 DEF ActionOf
<1> QED
  BY <1>1, <1>2, <1>3, AutomaticAre DEF ActionOK, Permitted

\* A plan without blockers covers every ingredient that is not what the
\* database says.
LEMMA ReplanCovers ==
    ASSUME RowsInv, Blockers = {}, NEW f \in Ingredients \ lost
    PROVE  content[f] = meta[f] \/ RecoveryOf(f) \in PlannedActions
<1> SUFFICES ASSUME content[f] # meta[f] PROVE RecoveryOf(f) \in PlannedActions
  OBVIOUS
<1>1. PICK k, o : /\ f = <<k, o>>
                  /\ \/ k = "tls-crypt" /\ o = "instance"
                     \/ k \in {"client-cert", "client-key"} /\ o \in Owners
  BY DEF Ingredients
<1>2. f \in Recorded /\ Original(f) = "genuine"
  BY <1>1, RecordedAre DEF InstanceKinds, ClientKinds, Original
<1>3. Registered(f) /\ ~Matching(f)
  BY <1>2 DEF RowsInv, Registered, Matching
<1>4. ArtifactIssue(f) \in Scan
  <2>1. CASE k = "tls-crypt" /\ o = "instance"
    <3>1. ArtifactIssue(f) \in ArtifactIssues(f)
      BY <1>3 DEF ArtifactIssues, Found
    <3>2. ArtifactIssue(f) \in scanArtifactSet
      BY <1>1, <2>1, <3>1 DEF scanArtifactSet, InstanceKinds
    <3> QED
      BY <3>2 DEF Scan
  <2>2. CASE k \in {"client-cert", "client-key"} /\ o \in Owners
    <3>1. ArtifactIssue(f) \in scanClient(o)
      BY <1>1, <1>3, <2>2 DEF scanClient
    <3> QED
      BY <2>2, <3>1 DEF Scan
  <2> QED
    BY <1>1, <2>1, <2>2
<1>5. /\ ArtifactIssue(f).action = actionForArtifact(k)
      /\ ActionOf(ArtifactIssue(f)) = RecoveryOf(f)
      /\ RecoveryOf(f).type = actionForArtifact(k)
  BY <1>1 DEF ArtifactIssue, Issue, ActionOf, RecoveryOf
<1>6. actionForArtifact(k) \in {"RECOVER_TLS_CRYPT", "RECOVER_CLIENT_IDENTITY"}
  BY <1>1 DEF actionForArtifact
<1> QED
  BY <1>4, <1>5, <1>6, AutomaticAre DEF PlannedActions, AutomaticTypes

-----------------------------------------------------------------------------
(* Repair, step by step                                                    *)

\* An action stays permitted when more rows are lost.
LEMMA ActionKept ==
    ASSUME NEW a, ActionOK(a), lost \subseteq lost'
    PROVE  ActionOK(a)'
  BY DEF ActionOK

\* Material stays doubtful.
LEMMA DoubtKept ==
    ASSUME NEW f, Doubtful(f), lost \subseteq lost', swapped \subseteq swapped'
    PROVE  Doubtful(f)'
  BY DEF Doubtful, Sources

\* A rollback leaves proper contents and no operation.
LEMMA RollBackOK ==
    ASSUME RepairShape, RollBack
    PROVE  content' \in [Files -> Values] /\ op' = NoOperation
<1>1. content \in [Files -> Values] /\ op' = NoOperation
  BY DEF RepairShape, RepairTypeOK, RollBack
<1>2. CASE op = NoOperation
  BY <1>1, <1>2 DEF RollBack
<1>3. CASE op # NoOperation
  <2>1. DOMAIN op.before = Targets(op.action) /\ op.before \in [Targets(op.action) -> Values]
    BY <1>3 DEF RepairShape, OpInv
  <2>2. content' = [f \in Files |-> IF f \in DOMAIN op.before THEN op.before[f] ELSE content[f]]
    BY <1>3 DEF RollBack
  <2> QED
    BY <1>1, <2>1, <2>2
<1> QED
  BY <1>2, <1>3

\* A step after which no plan is being applied and no row has changed.
LEMMA Resting ==
    ASSUME Damaged, UNCHANGED <<meta, lost, swapped, plan, damage>>,
           content' \in [Files -> Values], op' \in {op, NoOperation},
           touched' \in BOOLEAN,
           result' \in {"none", "refused", "no-op", "applied", "error", "failed"},
           phase' \in {"idle", "recover", "replan"}, phase' = "replan" => op' = NoOperation,
           todo' \subseteq todo, holder' # "repair",
           legacy' = NoLegacy \/ RepairInit'
    PROVE  Damaged'
<1>1. RepairTypeOK'
  BY DEF Damaged, RepairShape, RepairTypeOK
<1>2. \A a \in todo' : ActionOK(a)'
  BY ActionKept DEF Damaged, RepairShape
<1>3. OpInv'
  <2>1. CASE op' = NoOperation
    BY <2>1 DEF OpInv
  <2>2. CASE op' = op /\ op # NoOperation
    <3>1. ActionOK(op.action)'
      BY <2>2, ActionKept DEF Damaged, RepairShape, OpInv
    <3> QED
      BY <2>2, <3>1 DEF Damaged, RepairShape, OpInv, Targets
  <2> QED
    BY <2>1, <2>2
<1>4. RepairShape'
  BY <1>1, <1>2, <1>3 DEF Damaged, RepairShape
<1>5. VouchInv'
  BY DEF Damaged, VouchInv, VouchedGenuine, RowsInv, CoverInv, CommitInv
<1> QED
  BY <1>4, <1>5 DEF Damaged

\* A step that leaves the repair alone.
LEMMA RepairKept ==
    ASSUME Damaged, UNCHANGED repair, (holder' = "repair") <=> (holder = "repair"), legacy' = legacy
    PROVE  Damaged'
<1>1. RepairTypeOK' /\ OpInv' /\ (RepairInit => RepairInit')
  BY DEF Damaged, RepairShape, repair, RepairTypeOK, OpInv, Targets, ActionOK, RepairInit
<1>2. RepairShape'
  BY <1>1 DEF Damaged, RepairShape, repair, ActionOK
<1>3. VouchInv'
  BY DEF Damaged, VouchInv, VouchedGenuine, RowsInv, CoverInv, CommitInv, repair, Doubtful,
     Result,
     Targets, Recording
<1> QED
  BY <1>2, <1>3 DEF Damaged

Repairing == Damaged /\ Base /\ Established /\ UNCHANGED <<initialization, migration>>

\* The first plan changes nothing but the phase.
LEMMA RepairStartInv ==
    ASSUME Repairing, RepairStart
    PROVE  Damaged'
<1>1. /\ Damaged /\ legacy' = NoLegacy /\ content \in [Files -> Values] /\ touched \in BOOLEAN
      /\ holder # "repair"
  BY DEF Repairing, Established, migration, Damaged, RepairShape, RepairTypeOK, RepairStart
<1>2. /\ UNCHANGED <<directory, content, meta, op, plan, damage, touched, lost, swapped>>
      /\ todo' \subseteq todo /\ phase' \in {"idle", "recover"}
      /\ result' \in {"refused", "no-op", "none"}
  BY DEF RepairStart, End
<1> QED
  BY <1>1, <1>2, Resting DEF directory

\* The recovery rolls the open operation back before the second plan.
LEMMA RepairRecoverInv ==
    ASSUME Repairing, RepairRecover
    PROVE  Damaged'
<1>1. /\ Damaged /\ legacy' = NoLegacy /\ touched \in BOOLEAN
      /\ result \in {"none", "refused", "no-op", "applied", "error", "failed"}
  BY DEF Repairing, Established, migration, Damaged, RepairShape, RepairTypeOK
<1>2. content' \in [Files -> Values] /\ op' = NoOperation
  BY <1>1, RollBackOK DEF Damaged, RepairRecover
<1>3. /\ UNCHANGED <<meta, plan, todo, damage, touched, lost, swapped, result>> /\ phase' = "replan"
      /\ holder' = "none"
  BY DEF RepairRecover, directory
<1> QED
  BY <1>1, <1>2, <1>3, Resting

\* The plan that is applied has permitted actions and covers every
\* ingredient.
LEMMA RepairReplanInv ==
    ASSUME Repairing, RepairReplan
    PROVE  Damaged'
<1>1. /\ Damaged /\ legacy' = NoLegacy /\ content \in [Files -> Values] /\ touched \in BOOLEAN
      /\ holder # "repair" /\ op = NoOperation
      /\ UNCHANGED <<directory, content, meta, op, damage, lost, swapped>>
  BY DEF Repairing, Established, migration, Damaged, RepairShape, RepairTypeOK, RepairReplan
<1>2. CASE Blockers # {}
  <2>1. todo' = {} /\ phase' = "idle" /\ result' = "refused" /\ UNCHANGED <<plan, touched>>
    BY <1>2 DEF RepairReplan, End
  <2> QED
    BY <1>1, <2>1, Resting DEF directory
<1>3. CASE Blockers = {}
  <2>1. /\ plan' = PlannedActions /\ todo' = PlannedActions /\ phase' = "apply"
        /\ touched' = FALSE /\ UNCHANGED result
    BY <1>3 DEF RepairReplan
  <2>2. \A a \in PlannedActions : ActionOK(a)
    BY <1>1, PlannedOK DEF Damaged, VouchInv
  <2>3. {a.type : a \in plan' \cup todo'} \subseteq Automatic
    BY <2>1, <2>2 DEF ActionOK
  <2>4. RepairTypeOK'
    BY <1>1, <2>1, <2>3 DEF Damaged, RepairShape, RepairTypeOK
  <2>5. \A a \in todo' : ActionOK(a)'
    BY <1>1, <2>1, <2>2, ActionKept
  <2>6. RepairShape'
    BY <1>1, <2>1, <2>4, <2>5 DEF Damaged, RepairShape, OpInv, directory
  <2>7. CoverInv'
    <3>1. \A f \in Ingredients \ lost : content[f] = meta[f] \/ RecoveryOf(f) \in PlannedActions
      BY <1>1, <1>3, ReplanCovers DEF Damaged, VouchInv
    <3> QED
      BY <1>1, <2>1, <3>1 DEF CoverInv
  <2>8. VouchedGenuine' /\ RowsInv' /\ CommitInv'
    BY <1>1, <2>1 DEF Damaged, VouchInv, VouchedGenuine, RowsInv, CommitInv
  <2> QED
    BY <2>6, <2>7, <2>8 DEF Damaged, VouchInv
<1> QED
  BY <1>2, <1>3

\* The operation of an accepted action writes and will record genuine
\* material.
LEMMA RepairBeginInv ==
    ASSUME Repairing, RepairBegin
    PROVE  Damaged'
<1>1. /\ Damaged /\ legacy' = NoLegacy /\ content \in [Files -> Values] /\ touched \in BOOLEAN
      /\ op = NoOperation /\ holder = "none" /\ phase = "apply"
      /\ UNCHANGED <<content, meta, plan, damage, touched, lost, swapped>>
  BY DEF Repairing, Established, migration, Damaged, RepairShape, RepairTypeOK, RepairBegin
<1>2. PICK a \in First(todo) :
         IF Accepted(a)
         THEN /\ op' = [action |-> a, writes |-> Writes(a), left |-> DOMAIN Writes(a),
                        before |-> [f \in DOMAIN Writes(a) |-> content[f]]]
              /\ phase' = "install" /\ holder' = "repair"
              /\ UNCHANGED <<todo, result>>
         ELSE End("error") /\ UNCHANGED <<op, holder>>
  BY DEF RepairBegin
<1>3. CASE ~Accepted(a)
  <2>1. todo' = {} /\ phase' = "idle" /\ result' = "error" /\ UNCHANGED <<op, holder>>
    BY <1>2, <1>3 DEF End
  <2> QED
    BY <1>1, <2>1, Resting
<1>4. CASE Accepted(a)
  <2>0. a \in todo /\ ActionOK(a) /\ DOMAIN Writes(a) = Targets(a)
    BY <1>1, RecordsAre DEF First, Damaged, RepairShape
  <2>1. /\ op' = [action |-> a, writes |-> Writes(a), left |-> Targets(a),
                  before |-> [f \in Targets(a) |-> content[f]]]
        /\ phase' = "install" /\ holder' = "repair" /\ UNCHANGED <<todo, result>>
    BY <1>2, <1>4, <2>0
  <2>2. /\ op'.action = a /\ op'.writes = Writes(a) /\ op'.left = Targets(a)
        /\ op'.before = [f \in Targets(a) |-> content[f]]
    BY <2>1
  <2>3. op' # NoOperation
    <3>1. "action" \in DOMAIN op' /\ "action" \notin DOMAIN NoOperation
      BY <2>1 DEF NoOperation
    <3> QED
      BY <3>1
  <2>4. /\ Writes(a) \in [Targets(a) -> Values]
        /\ \A f \in Recording(a) :
             LET v == IF f \in Targets(a) THEN Writes(a)[f] ELSE content[f]
             IN  (v = Original(f) \/ Doubtful(f)) /\ (v = "absent" => Original(f) = "absent")
    BY <1>1, <1>4, WritesGenuine
  <2>5. [f \in Targets(a) |-> content[f]] \in [Targets(a) -> Values]
    BY <1>1, <2>0, TargetsIn, RecordedAre
  <2>6. OpInv'
    <3>1. ActionOK(a)'
      BY <1>1, <2>0, ActionKept
    <3>2. op' = [action |-> op'.action, writes |-> op'.writes, left |-> op'.left, before |-> op'.before]
      BY <2>1, <2>2
    <3> QED
      BY <2>2, <2>4, <2>5, <3>1, <3>2 DEF OpInv, Targets
  <2>7. \A b \in todo' : ActionOK(b)'
    BY <1>1, <2>1, ActionKept DEF Damaged, RepairShape
  <2>8. RepairTypeOK'
    BY <1>1, <2>0, <2>1, <2>2 DEF Damaged, RepairShape, RepairTypeOK
  <2>9. RepairShape'
    BY <1>1, <2>0, <2>1, <2>2, <2>3, <2>6, <2>7, <2>8 DEF Damaged, RepairShape
  <2>10. CommitInv'
    <3>1. \A f \in Targets(op.action)' \ op'.left : FALSE
      BY <2>2 DEF Targets
    <3>2. Recording(op.action)' = Recording(a)
      BY <2>2 DEF Recording, Targets
    <3>3. \A f : Result(f)' = IF f \in Targets(a) THEN Writes(a)[f] ELSE content[f]
      BY <1>1, <2>2 DEF Result, Targets
    <3>4. \A f : (Doubtful(f)' <=> Doubtful(f)) /\ Original(f)' = Original(f)
      BY <1>1 DEF Doubtful, Sources, Original, HasCcd
    <3> QED
      BY <2>4, <3>1, <3>2, <3>3, <3>4 DEF CommitInv
  <2>11. VouchedGenuine' /\ RowsInv' /\ CoverInv'
    BY <1>1, <2>1 DEF Damaged, VouchInv, VouchedGenuine, RowsInv, CoverInv
  <2> QED
    BY <2>9, <2>10, <2>11 DEF Damaged, VouchInv
<1> QED
  BY <1>3, <1>4

\* While an operation is open its action is permitted and on the plan.
LEMMA OpenOperation ==
    ASSUME Damaged, phase = "install"
    PROVE  /\ op # NoOperation /\ op.action \in todo /\ ActionOK(op.action)
           /\ op = [action |-> op.action, writes |-> op.writes, left |-> op.left, before |-> op.before]
           /\ op.writes \in [Targets(op.action) -> Values]
           /\ op.before \in [Targets(op.action) -> Values]
           /\ op.left \subseteq Targets(op.action)
  BY DEF Damaged, RepairShape, OpInv

\* An ingredient is only overwritten by its recovery, which stays on the
\* plan.
LEMMA RepairInstallInv ==
    ASSUME Repairing, RepairInstall
    PROVE  Damaged'
<1>1. /\ Damaged /\ legacy' = NoLegacy /\ content \in [Files -> Values] /\ touched \in BOOLEAN
      /\ holder = "repair" /\ phase = "install"
      /\ UNCHANGED <<holder, meta, phase, plan, todo, damage, touched, lost, swapped, result>>
  BY DEF Repairing, Established, migration, Damaged, RepairShape, RepairTypeOK,
     RepairInstall, directory
<1> DEFINE a == op.action
<1>2. /\ op # NoOperation /\ a \in todo /\ ActionOK(a)
      /\ op = [action |-> a, writes |-> op.writes, left |-> op.left, before |-> op.before]
      /\ op.writes \in [Targets(a) -> Values] /\ op.before \in [Targets(a) -> Values]
      /\ op.left \subseteq Targets(a)
  BY <1>1, OpenOperation
<1>3. PICK f \in op.left : /\ content' = [content EXCEPT ![f] = op.writes[f]]
                           /\ op' = [op EXCEPT !.left = @ \ {f}]
  BY DEF RepairInstall
<1>4. f \in Targets(a) /\ Targets(a) \subseteq Files /\ op.writes[f] \in Values
  BY <1>2, <1>3, TargetsIn, RecordedAre
<1>5. content' \in [Files -> Values]
  BY <1>1, <1>3, <1>4
<1>6. /\ op'.action = a /\ op'.writes = op.writes /\ op'.left = op.left \ {f} /\ op'.before = op.before
      /\ op' = [action |-> op'.action, writes |-> op'.writes, left |-> op'.left, before |-> op'.before]
  BY <1>2, <1>3
<1>7. op' # NoOperation
  <2>1. "action" \in DOMAIN op' /\ "action" \notin DOMAIN NoOperation
    BY <1>6 DEF NoOperation
  <2> QED
    BY <2>1
<1>8. OpInv'
  <2>1. ActionOK(a)'
    BY <1>1, <1>2, <1>6, ActionKept
  <2> QED
    BY <1>2, <1>6, <2>1 DEF OpInv, Targets
<1>9. \A b \in todo' : ActionOK(b)'
  BY <1>1, ActionKept DEF Damaged, RepairShape
<1>10. RepairTypeOK'
  BY <1>1, <1>2, <1>5, <1>6 DEF Damaged, RepairShape, RepairTypeOK
<1>11. RepairShape'
  BY <1>1, <1>2, <1>6, <1>7, <1>8, <1>9, <1>10 DEF Damaged, RepairShape
<1>12. CoverInv'
  <2>1. \A g \in Ingredients : g # f => g \notin Files \/ content'[g] = content[g]
    BY <1>1, <1>3
  <2>2. Ingredients \subseteq Files
    BY RecordedAre DEF Ingredients, InstanceKinds, ClientKinds
  <2>3. f \in Ingredients => a = RecoveryOf(f)
    BY <1>2, <1>4, WritesIngredients
  <2> QED
    BY <1>1, <1>2, <2>1, <2>2, <2>3 DEF Damaged, VouchInv, CoverInv
<1>13. CommitInv'
  <2>1. /\ Targets(op.action)' = Targets(a) /\ Recording(op.action)' = Recording(a)
        /\ Recording(a) \subseteq Files
    BY <1>2, <1>6, TargetsIn, RecordedAre DEF Targets, Recording
  <2>2. \A g \in Recording(a) : Result(g)' = Result(g)
    <3>1. \A g \in Recording(a) \ Targets(a) : content'[g] = content[g]
      BY <1>1, <1>3, <1>4, <2>1
    <3> QED
      BY <1>6, <2>1, <3>1 DEF Result
  <2>3. \A g : (Doubtful(g)' <=> Doubtful(g)) /\ Original(g)' = Original(g)
    BY <1>1 DEF Doubtful, Sources, Original, HasCcd
  <2>4. \A g \in Targets(a) \ op'.left : content'[g] = op'.writes[g]
    BY <1>1, <1>3, <1>4, <1>6 DEF Damaged, VouchInv, CommitInv
  <2> QED
    BY <1>1, <1>6, <2>1, <2>2, <2>3, <2>4 DEF Damaged, VouchInv, CommitInv
<1>14. VouchedGenuine' /\ RowsInv'
  BY <1>1 DEF Damaged, VouchInv, VouchedGenuine, RowsInv
<1> QED
  BY <1>11, <1>12, <1>13, <1>14 DEF Damaged, VouchInv

\* The rows that are recorded are those of the contents the operation
\* promised.
LEMMA RepairCommitInv ==
    ASSUME Repairing, RepairCommit
    PROVE  Damaged'
<1>1. /\ Damaged /\ legacy' = NoLegacy /\ content \in [Files -> Values] /\ touched \in BOOLEAN
      /\ phase = "install" /\ op.left = {}
      /\ UNCHANGED <<content, plan, damage, touched, lost, swapped, result>>
      /\ op' = NoOperation /\ phase' = "apply" /\ holder' = "none"
  BY DEF Repairing, Established, migration, Damaged, RepairShape, RepairTypeOK, RepairCommit
<1> DEFINE a == op.action
<1>2. a \in todo /\ ActionOK(a)
  BY <1>1, OpenOperation
<1>3. Recording(a) \subseteq Recorded /\ Recorded \subseteq Files /\ Targets(a) \subseteq Recording(a)
  BY <1>2, TargetsIn, RecordedAre
<1>4. /\ meta' = [f \in Recorded |-> IF f \in Recording(a) THEN Digest(content[f]) ELSE meta[f]]
      /\ todo' = todo \ {a}
  BY <1>2, RecordsAre DEF RepairCommit
<1>5. \A f \in Recording(a) : /\ content[f] = Original(f) \/ Doubtful(f)
                              /\ content[f] = "absent" => Original(f) = "absent"
                              /\ content[f] \in Values
  BY <1>1, <1>3 DEF Damaged, VouchInv, CommitInv, Result
<1>6. \A v \in Values : /\ Digest(v) \in {NoMetadata} \cup (Values \ {"absent"})
                        /\ v # "absent" => Digest(v) = v
                        /\ Digest(v) = NoMetadata => v = "absent"
                        /\ Digest(v) \in {NoMetadata, v}
  BY DEF Digest, Values, Profiles, NoMetadata
<1>7. /\ meta \in [Recorded -> {NoMetadata} \cup (Values \ {"absent"})]
      /\ meta' \in [Recorded -> {NoMetadata} \cup (Values \ {"absent"})]
  <2>1. meta \in [Recorded -> {NoMetadata} \cup (Values \ {"absent"})]
    BY <1>1 DEF Damaged, RepairShape
  <2> QED
    BY <1>4, <1>5, <1>6, <2>1
<1>8. RepairTypeOK'
  BY <1>1, <1>4, <1>7 DEF Damaged, RepairShape, RepairTypeOK
<1>9. \A b \in todo' : ActionOK(b)'
  BY <1>1, <1>4, ActionKept DEF Damaged, RepairShape
<1>10. RepairShape'
  BY <1>1, <1>7, <1>8, <1>9 DEF RepairShape, OpInv
<1>11. \A g : (Doubtful(g)' <=> Doubtful(g)) /\ Original(g)' = Original(g)
  BY <1>1 DEF Doubtful, Sources, Original, HasCcd
<1>12. VouchedGenuine'
  <2> SUFFICES ASSUME NEW f \in Recorded
               PROVE  meta'[f] \in {NoMetadata, Original(f)} \/ Doubtful(f)
    BY <1>11 DEF VouchedGenuine, Doubtful
  <2>1. CASE f \in Recording(a)
    BY <1>4, <1>5, <1>6, <2>1
  <2>2. CASE f \notin Recording(a)
    BY <1>1, <1>4, <2>2 DEF Damaged, VouchInv, VouchedGenuine, Doubtful
  <2> QED
    BY <2>1, <2>2
<1>13. RowsInv'
  <2> SUFFICES ASSUME NEW f \in Recorded, meta'[f] = NoMetadata
               PROVE  f \in lost \/ Original(f) = "absent"
    BY <1>1, <1>11 DEF RowsInv
  <2>1. CASE f \in Recording(a)
    BY <1>4, <1>5, <1>6, <2>1
  <2>2. CASE f \notin Recording(a)
    BY <1>1, <1>4, <2>2 DEF Damaged, VouchInv, RowsInv
  <2> QED
    BY <2>1, <2>2
<1>14. CoverInv'
  <2> SUFFICES ASSUME NEW f \in Ingredients, f \notin lost \cup swapped
               PROVE  content[f] = meta'[f] \/ RecoveryOf(f) \in todo \ {a}
    BY <1>1, <1>4 DEF CoverInv
  <2>1. f \in Recorded /\ Original(f) = "genuine"
    BY RecordedAre DEF Ingredients, InstanceKinds, ClientKinds, Original
  <2>2. CASE f \in Recording(a)
    BY <1>4, <1>5, <1>6, <2>1, <2>2
  <2>3. CASE f \notin Recording(a)
    <3>1. meta'[f] = meta[f]
      BY <1>4, <2>1, <2>3
    <3>2. a # RecoveryOf(f)
      BY <1>2, <1>3, <2>3, WritesIngredients
    <3> QED
      BY <1>1, <3>1, <3>2 DEF Damaged, VouchInv, CoverInv
  <2> QED
    BY <2>2, <2>3
<1>15. CommitInv'
  BY <1>1 DEF CommitInv
<1> QED
  BY <1>10, <1>12, <1>13, <1>14, <1>15 DEF Damaged, VouchInv

\* An apply that is done leaves the rows alone.
LEMMA RepairDoneInv ==
    ASSUME Repairing, RepairDone
    PROVE  Damaged'
<1>1. /\ Damaged /\ legacy' = NoLegacy /\ content \in [Files -> Values] /\ touched \in BOOLEAN
      /\ holder # "repair"
      /\ UNCHANGED <<holder, content, meta, op, plan, damage, touched, lost, swapped>>
      /\ phase' = "idle" /\ todo' = {} /\ result' = "applied"
  BY DEF Repairing, Established, migration, Damaged, RepairShape, RepairTypeOK, RepairDone,
     End, directory
<1> QED
  BY <1>1, Resting

\* A failed operation is rolled back and records nothing.
LEMMA RepairFailsInv ==
    ASSUME Repairing, RepairFails
    PROVE  Damaged'
<1>1. /\ Damaged /\ legacy' = NoLegacy /\ touched \in BOOLEAN /\ holder' = "none"
      /\ UNCHANGED <<meta, plan, damage, touched, lost, swapped>>
      /\ phase' = "idle" /\ todo' = {} /\ result' = "failed"
  BY DEF Repairing, Established, migration, Damaged, RepairShape, RepairTypeOK, RepairFails, End
<1>2. content' \in [Files -> Values] /\ op' = NoOperation
  BY <1>1, RollBackOK DEF Damaged, RepairFails
<1> QED
  BY <1>1, <1>2, Resting

\* A killed apply records nothing; its operation stays pending.
LEMMA RepairKilledInv ==
    ASSUME Repairing, RepairKilled
    PROVE  Damaged'
<1>1. /\ Damaged /\ legacy' = NoLegacy /\ content \in [Files -> Values] /\ touched \in BOOLEAN
      /\ holder' # "repair"
      /\ UNCHANGED <<content, meta, op, plan, damage, touched, lost, swapped, result>>
      /\ phase' = "idle" /\ todo' = {}
  BY DEF Repairing, Established, migration, Damaged, RepairShape, RepairTypeOK, RepairKilled
<1>2. result \in {"none", "refused", "no-op", "applied", "error", "failed"}
  BY <1>1 DEF Damaged, RepairShape, RepairTypeOK
<1> QED
  BY <1>1, <1>2, Resting

\* A file replaced while a plan is applied is counted as swapped.
LEMMA FileDamagedInv ==
    ASSUME Repairing, NEW f \in Files, FileDamaged(f)
    PROVE  Damaged'
<1>1. /\ Damaged /\ legacy' = NoLegacy /\ content \in [Files -> Values]
      /\ op = NoOperation /\ damage \in 0..MaxDamage /\ damage < MaxDamage /\ damage' = damage + 1
      /\ UNCHANGED <<holder, meta, op, phase, todo, lost, result>>
      /\ swapped' = IF phase = "apply" THEN swapped \cup {f} ELSE swapped
  BY DEF Repairing, Established, migration, Damaged, RepairShape, RepairTypeOK, FileDamaged,
     Accident, directory
<1>2. touched' = TRUE /\ plan' = {}
  BY DEF FileDamaged, Accident
<1>3. PICK v \in Accidents(f) : content' = [content EXCEPT ![f] = v]
  BY DEF FileDamaged
<1>4. v \in Values
  BY <1>3 DEF Accidents, Values, Profiles
<1>5. content' \in [Files -> Values] /\ \A g \in Files : g # f => content'[g] = content[g]
  BY <1>1, <1>3, <1>4
<1>6. phase # "install" /\ lost \subseteq lost' /\ swapped \subseteq swapped' /\ swapped' \subseteq Files
  BY <1>1 DEF Damaged, RepairShape, RepairTypeOK
<1>7. damage' \in 0..MaxDamage
  BY <1>1, OwnersAssumption
<1>8. RepairTypeOK'
  BY <1>1, <1>2, <1>5, <1>6, <1>7 DEF Damaged, RepairShape, RepairTypeOK
<1>9. \A b \in todo' : ActionOK(b)'
  BY <1>1, <1>6, ActionKept DEF Damaged, RepairShape
<1>10. RepairShape'
  BY <1>1, <1>8, <1>9 DEF Damaged, RepairShape, OpInv
<1>11. VouchedGenuine' /\ RowsInv'
  BY <1>1, <1>6 DEF Damaged, VouchInv, VouchedGenuine, RowsInv
<1>12. CoverInv'
  <2>1. Ingredients \subseteq Files
    BY RecordedAre DEF Ingredients, InstanceKinds, ClientKinds
  <2> QED
    BY <1>1, <1>5, <1>6, <2>1 DEF Damaged, VouchInv, CoverInv
<1>13. CommitInv'
  BY <1>1, <1>6 DEF CommitInv
<1> QED
  BY <1>10, <1>11, <1>12, <1>13 DEF Damaged, VouchInv

\* A lost row vouches for nothing.
LEMMA MetadataLostInv ==
    ASSUME Repairing, NEW f \in Recorded, MetadataLost(f)
    PROVE  Damaged'
<1>1. /\ Damaged /\ legacy' = NoLegacy
      /\ op = NoOperation /\ damage \in 0..MaxDamage /\ damage < MaxDamage /\ damage' = damage + 1
      /\ UNCHANGED <<holder, content, op, phase, todo, swapped, result>>
      /\ lost' = lost \cup {f} /\ meta' = [meta EXCEPT ![f] = NoMetadata]
      /\ meta \in [Recorded -> {NoMetadata} \cup (Values \ {"absent"})]
  BY DEF Repairing, Established, migration, Damaged, RepairShape, RepairTypeOK, MetadataLost,
     Accident, directory
<1>2. touched' = TRUE /\ plan' = {}
  BY DEF MetadataLost, Accident
<1>3. /\ meta' \in [Recorded -> {NoMetadata} \cup (Values \ {"absent"})]
      /\ meta'[f] = NoMetadata /\ \A g \in Recorded : g # f => meta'[g] = meta[g]
  BY <1>1
<1>4. phase # "install" /\ lost \subseteq lost' /\ lost' \subseteq Recorded
  BY <1>1 DEF Damaged, RepairShape, RepairTypeOK
<1>5. damage' \in 0..MaxDamage
  BY <1>1, OwnersAssumption
<1>6. RepairTypeOK'
  BY <1>1, <1>2, <1>3, <1>4, <1>5 DEF Damaged, RepairShape, RepairTypeOK
<1>7. \A b \in todo' : ActionOK(b)'
  BY <1>1, <1>4, ActionKept DEF Damaged, RepairShape
<1>8. RepairShape'
  BY <1>1, <1>3, <1>6, <1>7 DEF Damaged, RepairShape, OpInv
<1>9. VouchedGenuine'
  BY <1>1, <1>3 DEF Damaged, VouchInv, VouchedGenuine, NoMetadata
<1>10. RowsInv'
  BY <1>1, <1>3 DEF Damaged, VouchInv, RowsInv
<1>11. CoverInv'
  <2>1. Ingredients \subseteq Recorded
    BY RecordedAre DEF Ingredients, InstanceKinds, ClientKinds
  <2> QED
    BY <1>1, <1>3, <2>1 DEF Damaged, VouchInv, CoverInv
<1>12. CommitInv'
  BY <1>1, <1>4 DEF CommitInv
<1> QED
  BY <1>8, <1>9, <1>10, <1>11, <1>12 DEF Damaged, VouchInv

-----------------------------------------------------------------------------
(* The steps together                                                      *)

\* Every step of a repair.
LEMMA RepairNextInv ==
    ASSUME Repairing, RepairNext
    PROVE  Damaged'
  BY RepairStartInv, RepairRecoverInv, RepairReplanInv, RepairBeginInv, RepairInstallInv,
     RepairCommitInv, RepairDoneInv, RepairFailsInv, RepairKilledInv, FileDamagedInv,
     MetadataLostInv DEF RepairNext

\* `server run` rolls back the operation an interrupted repair left.
LEMMA RunRecoverInv ==
    ASSUME Damaged, Base, RunRecover
    PROVE  Damaged'
<1>1. /\ holder = "none" /\ holder' = holder /\ legacy' = legacy /\ RollBack
      /\ UNCHANGED <<meta, phase, plan, todo, damage, touched, lost, swapped, result>>
  BY DEF RunRecover, ServerRecover, migration
<1>2. CASE op = NoOperation
  BY <1>1, <1>2, RepairKept DEF RollBack, repair
<1>3. CASE op # NoOperation
  <2>1. phase \in {"idle", "recover"}
    BY <1>1, <1>3 DEF Damaged, RepairShape, RepairTypeOK
  <2>2. legacy' = NoLegacy
    BY <1>1, <1>3 DEF Damaged, RepairShape, RepairInit
  <2>3. content' \in [Files -> Values] /\ op' = NoOperation
    BY <1>1, RollBackOK DEF Damaged
  <2>4. touched \in BOOLEAN /\ result \in {"none", "refused", "no-op", "applied", "error", "failed"}
    BY DEF Damaged, RepairShape, RepairTypeOK
  <2> QED
    BY <1>1, <2>1, <2>2, <2>3, <2>4, Resting
<1> QED
  BY <1>2, <1>3

\* The other processes leave the repair alone, and its lock.
LEMMA OthersKeepRepair ==
    ASSUME Base, Damaged, Undamaged, UNCHANGED repair,
           \/ RunLoad
           \/ DirectoryNext /\ UNCHANGED migration
           \/ InitializeNext /\ UNCHANGED migration
           \/ MigrationNext
    PROVE  Damaged'
<1>1. holder # "repair"
  BY DEF Damaged, Undamaged, RepairShape
<1>2. holder' # "repair" /\ legacy' = legacy
  <2>1. CASE RunLoad
    BY <1>1, <2>1 DEF RunLoad, ServerLoad, migration
  <2>2. CASE DirectoryNext /\ UNCHANGED migration
    BY <1>1, <2>2 DEF DirectoryNext, ServerStart, ServerStop, ClientWork, migration
  <2>3. CASE InitializeNext /\ UNCHANGED migration
    <3>1. legacy' = legacy
      BY <2>3 DEF migration
    <3>2. holder' # "repair"
      BY <1>1, <2>3 DEF InitializeNext, Start, MakeStage, Build, BuildFails, WriteMarker,
         RenameMarker,
         InstallEntry, InstallJournal, InstallCommit, RemoveStage, RemoveMarker, Killed,
            Answer, directory
    <3> QED
      BY <3>1, <3>2
  <2>4. CASE MigrationNext
    <3>1. CASE Recover
      <4>1. manifest = "none" \/ manifest = "committed" \/ manifest \in Unfinished
        BY DEF Base, DirectoryTypeOK, Unfinished
      <4> QED
        BY <1>1, <3>1, <4>1 DEF Recover, Finish, Unfinished
    <3>2. CASE MigrateStart \/ Forget \/ Plan \/ BeginSnapshot
      BY <1>1, <3>2 DEF MigrateStart, Forget, Plan, BeginSnapshot, Finish
    <3>6. CASE RemoveEntry \/ OpenSnapshot \/ RestoreEntry \/ Restored
      BY <1>1, <3>6 DEF RemoveEntry, OpenSnapshot, RestoreEntry, Restored, Finish, directory
    <3>3. CASE CreateSnapshot \/ MarkManifest \/ CopyTree \/ BuildStage
      BY <1>1, <3>3 DEF CreateSnapshot, MarkManifest, CopyTree, BuildStage, Finish, directory
    <3>4. CASE RemoveLegacy \/ InstallSchema4 \/ CommitManifest
      BY <1>1, <3>4 DEF RemoveLegacy, InstallSchema4, CommitManifest
    <3>5. CASE CleanStage \/ CleanManifest \/ MigrateInterrupted
      BY <1>1, <3>5 DEF CleanStage, CleanManifest, MigrateInterrupted, Finish, directory
    <3> QED
      BY <2>4, <3>1, <3>2, <3>3, <3>4, <3>5, <3>6 DEF MigrationNext
  <2> QED
    BY <2>1, <2>2, <2>3, <2>4
<1> QED
  BY <1>1, <1>2, RepairKept

\* The invariant is the root's part and the repair's.
LEMMA InvParts == Inv <=> Base /\ Damaged
  BY DEF Inv, Base, Damaged, TypeOK, RepairShape

\* There is a record of a root without schema 3 files.
LEMMA NoLegacyIs == NoLegacy \in Legacies /\ Probe(NoLegacy) = "unknown"
  BY LegaciesAssumption DEF NoLegacy

\* An empty root, a schema 3 one and a schema 4 one are as the invariant
\* says.
LEMMA InitInv == Init => Inv
<1> SUFFICES ASSUME Init PROVE Base /\ Damaged
  BY InvParts
<1>1. DirectoryInit /\ InitializeInit /\ MigrationInit /\ RepairInit
  BY DEF Init
<1>2. live \in {V3Root, EmptyRoot, V4Root} /\ legacy \in Legacies
  BY NoLegacyIs DEF Init
<1>3. live \in [Directories -> Contents]
  BY <1>2 DEF V3Root, EmptyRoot, V4Root, Contents
<1>4. DirectoryTypeOK
  <2>1. work \in [made : BOOLEAN, promised : BOOLEAN] /\ crashes \in 0..MaxCrashes
    BY <1>1, CrashesAssumption DEF DirectoryInit
  <2> QED
    BY <1>1, <1>3, <2>1 DEF DirectoryInit, DirectoryTypeOK
<1>5. InitializeTypeOK
  <2>1. tmp \in BOOLEAN /\ stage \in BOOLEAN
    BY <1>1 DEF InitializeInit
  <2> QED
    BY <1>1, <2>1, EntriesAre DEF InitializeInit, InitializeTypeOK, Steps
<1>6. MigrationTypeOK
  <2>1. partial \in BOOLEAN /\ recovered \in BOOLEAN
    BY <1>1 DEF MigrationInit
  <2> QED
    BY <1>1, <2>1, InstallsAre DEF MigrationInit, MigrationTypeOK
<1>7. RootInv
  <2>1. CASE live = V3Root /\ legacy # NoLegacy
    <3>1. LegacyInv
      BY <1>1 DEF LegacyInv, DirectoryInit, InitializeInit, Deferred
    <3>2. MigratingInv
      BY <1>1, <2>1 DEF MigratingInv, UnmarkedInv, UnfinishedInv, CommittedInv,
         DirectoryInit, MigrationInit,
         Unfinished, V3Root, NoSnapshot, Directories
    <3>3. live["meta"] = "v3"
      BY <2>1 DEF V3Root, Directories
    <3> QED
      BY <1>1, <1>2, <2>1, <3>1, <3>2, <3>3 DEF RootInv, DirectoryInit
  <2>2. CASE live \in {EmptyRoot, V4Root} /\ legacy = NoLegacy
    <3>1. CurrentInv
      BY <1>1 DEF CurrentInv, DirectoryInit, MigrationInit
    <3>2. /\ PrefixInv /\ (live["meta"] = "v4" => Complete)
          /\ live # EmptyRoot => live = V4Root
      <4>1. CASE live = EmptyRoot
        BY <4>1, EntriesAre DEF PrefixInv, EmptyRoot, Directories
      <4>2. CASE live = V4Root
        BY <4>2, EntriesAre DEF PrefixInv, V4Root, Directories, Complete, Keys, Rewritten
      <4> QED
        BY <2>2, <4>1, <4>2
    <3>3. InitializingInv
      BY <1>1, <2>2, <3>2 DEF InitializingInv, MarkerInv, NoMarkerInv, StagingInv,
         InstallingInv,
         FilesInstalledInv, FinishingInv, PreparedInv, PositionInv, OutcomeInv, Installing,
            Markers,
         DirectoryInit, InitializeInit
    <3> QED
      BY <1>1, <1>2, <2>2, <3>1, <3>2, <3>3 DEF RootInv, DirectoryInit
  <2> QED
    BY <2>1, <2>2, NoLegacyIs DEF Init
<1>8. \A f \in Recorded : /\ Original(f) \in {"genuine", "absent"}
                          /\ Digest(Original(f)) \in {NoMetadata, Original(f)}
                          /\ Digest(Original(f)) \in {NoMetadata} \cup (Values \ {"absent"})
                          /\ Digest(Original(f)) = NoMetadata => Original(f) = "absent"
  BY DEF Original, Digest, Values, Profiles, NoMetadata
<1>9. content \in [Files -> Values]
  BY <1>1 DEF RepairInit, Original, Values, Profiles
<1>10. RepairShape
  <2>1. meta \in [Recorded -> {NoMetadata} \cup (Values \ {"absent"})]
    BY <1>1, <1>8 DEF RepairInit
  <2>2. RepairTypeOK
    <3>1. touched \in BOOLEAN
      BY <1>1 DEF RepairInit
    <3>2. damage \in 0..MaxDamage
      BY <1>1, OwnersAssumption DEF RepairInit
    <3> QED
      BY <1>1, <1>9, <2>1, <3>1, <3>2 DEF RepairInit, RepairTypeOK
  <2> QED
    BY <1>1, <2>1, <2>2 DEF RepairInit, RepairShape, OpInv, DirectoryInit
<1>11. VouchInv
  BY <1>1, <1>8 DEF VouchInv, VouchedGenuine, RowsInv, CoverInv, CommitInv, RepairInit
<1> QED
  BY <1>4, <1>5, <1>6, <1>7, <1>10, <1>11 DEF Base, Damaged

\* No step of any process breaks the invariant.
LEMMA NextInv == Inv /\ [Next]_vars => Inv'
<1> SUFFICES ASSUME Base, Damaged, [Next]_vars PROVE Base' /\ Damaged'
  BY DEF Inv, Base, Damaged, TypeOK, RepairShape
<1>1. CASE RunRecover
  <2>1. Damaged'
    BY <1>1, RunRecoverInv
  <2> QED
    BY <1>1, <2>1, ServerInv DEF RunRecover
<1>2. CASE Undamaged /\ RunLoad
  <2>1. Damaged'
    BY <1>2, OthersKeepRepair DEF RunLoad
  <2>2. Matching(<<"server-config", "instance">>) \in BOOLEAN
    BY DEF Matching
  <2>3. \E verified \in BOOLEAN : ServerLoad(verified)
    BY <1>2, <2>2 DEF RunLoad
  <2> QED
    BY <1>2, <2>1, <2>3, ServerInv DEF RunLoad
<1>3. CASE Undamaged /\ DirectoryNext /\ UNCHANGED <<initialization, migration, repair>>
  BY <1>3, OthersKeepRepair, ServerInv
<1>4. CASE Undamaged /\ InitializeNext /\ UNCHANGED <<migration, repair>>
  BY <1>4, OthersKeepRepair, InitializeStep
<1>5. CASE Undamaged /\ MigrationNext /\ UNCHANGED <<initialization, repair>>
  BY <1>5, OthersKeepRepair, MigrationStep
<1>6. CASE Established /\ RepairNext /\ UNCHANGED <<initialization, migration>>
  BY <1>6, RepairNextInv, RepairStep DEF Repairing
<1>7. CASE UNCHANGED vars
  <2>1. Damaged'
    BY <1>7, RepairKept DEF vars, repair, directory, migration
  <2>2. Base'
    BY <1>7 DEF vars, directory, initialization, migration, Base, DirectoryTypeOK,
       InitializeTypeOK,
       MigrationTypeOK, RootInv, LegacyInv, MigratingInv, UnmarkedInv, UnfinishedInv,
          CommittedInv,
       CurrentInv, InitializingInv, PrefixInv, MarkerInv, NoMarkerInv, StagingInv,
          InstallingInv,
       FilesInstalledInv, FinishingInv, PreparedInv, PositionInv, OutcomeInv, Moved, Complete,
       Emptying
  <2> QED
    BY <2>1, <2>2
<1> QED
  BY <1>1, <1>2, <1>3, <1>4, <1>5, <1>6, <1>7 DEF Next

\* The invariant: every root is where its marker, its manifest and its
\* journal say, and every row the database holds is accounted for.
THEOREM Invariance == Spec => []Inv
<1>1. Init => Inv
  BY InitInv
<1>2. Inv /\ [Next]_vars => Inv'
  BY NextInv
<1> QED
  BY <1>1, <1>2, PTL DEF Spec

-----------------------------------------------------------------------------
(* What it shows                                                           *)

\* Every variable of the data root, of initialization, migration and repair
\* keeps its type.
THEOREM TypeCorrect == Spec => []TypeOK
<1>1. Inv => TypeOK
  BY DEF Inv
<1> QED
  BY <1>1, Invariance, PTL

\* What a killed or failed initialization leaves is covered by its marker
\* (initialize.Initialize, its deferred removal, recoverLocked).
THEOREM InitializationWhole == Spec => []InitializedWhole
<1>1. Inv => InitializedWhole
  <2> SUFFICES ASSUME Inv, marker = "none", manifest = "none", holder = "none"
               PROVE  ~stage /\ ((\E e \in EntrySet : live[e] = "v4") =>
                                   Complete /\ journal \in {"none", "committed"})
    BY DEF InitializedWhole
  <2>0. Base
    BY DEF Inv, Base, TypeOK
  <2>1. CASE legacy = NoLegacy
    <3>1. /\ ~stage /\ (live = EmptyRoot => journal = "none")
          /\ live # EmptyRoot => live = V4Root /\ journal \in {"none", "committed"}
      BY <2>0, <2>1 DEF Base, RootInv, InitializingInv, MarkerInv, NoMarkerInv
    <3>2. CASE live = EmptyRoot
      BY <3>1, <3>2, EntriesAre DEF EmptyRoot, Directories
    <3>3. CASE live = V4Root
      BY <3>1, <3>3, EntriesAre DEF V4Root, Directories, Complete, Keys, Rewritten
    <3> QED
      BY <3>1, <3>2, <3>3
  <2>2. CASE legacy # NoLegacy
    <3>1. ~stage /\ journal = "none" /\ live \in {V3Root, Migrated}
      BY <2>0, <2>2 DEF Base, RootInv, LegacyInv, MigratingInv, UnmarkedInv
    <3>2. CASE live = V3Root
      BY <3>1, <3>2, EntriesAre DEF V3Root, Directories
    <3>3. CASE live = Migrated
      BY <3>1, <3>3, MigratedIsComplete
    <3> QED
      BY <3>1, <3>2, <3>3
  <2> QED
    BY <2>1, <2>2
<1> QED
  BY <1>1, Invariance, PTL

\* initialize.Initialize gives up for good on two accidents only.
THEOREM InitializationRefuses == Spec => []RefusalsExplained
<1>1. Inv => RefusalsExplained
  <2> SUFFICES ASSUME Inv PROVE RefusalsExplained
    OBVIOUS
  <2>0. Base
    BY DEF Inv, Base, TypeOK
  <2>1. CASE legacy = NoLegacy
    <3>1. OutcomeInv /\ PrefixInv /\ live \in [Directories -> Contents]
      BY <2>0, <2>1 DEF Base, RootInv, InitializingInv, DirectoryTypeOK
    <3>2. live # EmptyRoot => \E d \in Directories : live[d] # "absent"
      BY <3>1 DEF EmptyRoot
    <3> QED
      BY <3>1, <3>2 DEF OutcomeInv, RefusalsExplained
  <2>2. CASE legacy # NoLegacy
    <3>1. outcome \in Deferred /\ MigratingInv /\ DirectoryTypeOK
      BY <2>0, <2>2 DEF Base, RootInv, LegacyInv
    <3>2. manifest = "none" => \E d \in Directories : live[d] # "absent"
      <4>1. manifest = "none" => live \in {V3Root, Migrated}
        BY <3>1 DEF MigratingInv, UnmarkedInv
      <4>2. V3Root["meta"] # "absent" /\ Migrated["meta"] # "absent" /\ "meta" \in Directories
        BY DEF V3Root, Migrated, Halfway, Directories, InstallPlace
      <4> QED
        BY <4>1, <4>2
    <3> QED
      BY <3>1, <3>2 DEF Deferred, RefusalsExplained
  <2> QED
    BY <2>1, <2>2
<1> QED
  BY <1>1, Invariance, PTL

\* Wherever migration.Apply was interrupted, the marker says how to go on.
THEOREM MigrationWhole == Spec => []MigratedWhole
<1>1. Inv => MigratedWhole
  <2> SUFFICES ASSUME Inv PROVE MigratedWhole
    OBVIOUS
  <2>0. Base
    BY DEF Inv, Base, TypeOK
  <2>1. CASE legacy = NoLegacy
    <3>1. manifest = "none" /\ snapshot = NoSnapshot
      BY <2>0, <2>1 DEF Base, RootInv, CurrentInv
    <3> QED
      BY <3>1 DEF MigratedWhole, Unfinished
  <2>2. CASE legacy # NoLegacy
    <3>1. MigratingInv /\ DirectoryTypeOK
      BY <2>0, <2>2 DEF Base, RootInv
    <3>2. manifest \in Unfinished => snapshot # NoSnapshot /\ Whole(snapshot, "v3")
      <4>1. manifest \in Unfinished => snapshot = V3Root
        BY <3>1 DEF MigratingInv, Unfinished
      <4>2. V3Root # NoSnapshot /\ Whole(V3Root, "v3")
        BY RootsAre DEF Whole, V3Root
      <4> QED
        BY <4>1, <4>2
    <3>3. manifest = "committed" => Complete
      BY <3>1, MigratedIsComplete DEF MigratingInv, CommittedInv
    <3>4. manifest = "none" => live \in {V3Root, Migrated} /\ build = "none"
      BY <3>1 DEF MigratingInv, UnmarkedInv
    <3>5. Whole(V3Root, "v3") /\ Migrated["config"] = "v4"
      BY DEF Whole, V3Root, Migrated, Halfway, Directories, InstallPlace
    <3> QED
      BY <3>2, <3>3, <3>4, <3>5, MigratedIsComplete DEF MigratedWhole
  <2> QED
    BY <2>1, <2>2
<1> QED
  BY <1>1, Invariance, PTL

\* Client commands that run once a migration is committed, or without one,
\* are never undone by recoverInterrupted.
THEOREM WorkKept == Spec => []FinishedWorkKept
<1>1. Inv => FinishedWorkKept
  BY DEF Inv, RootInv, FinishedWorkKept
<1> QED
  BY <1>1, Invariance, PTL

\* A root the reader calls ready is migrated, unless an interrupted run left
\* an archive or the root has one of three faults the reader does not look
\* for: a file createSnapshot refuses, an empty signing database, which the
\* state scan of the stage refuses, or more than restoreSnapshot restores
\* (migration.BuildPlan, ReadSchema3, createSnapshot, buildStage,
\* restoreSnapshot).
THEOREM ReadyRootsMigrate == Spec => []ReadyPlansApply
<1>1. Inv => ReadyPlansApply
  <2>1. CASE legacy = NoLegacy
    <3>1. ~SourceReady(legacy)
      BY <2>1, NoLegacyIs DEF SourceReady
    <3> QED
      BY <2>1, <3>1 DEF Inv, RootInv, CurrentInv, ReadyPlansApply
  <2>2. CASE legacy # NoLegacy
    BY <2>2 DEF Inv, RootInv, MigratingInv, ReadyPlansApply
  <2> QED
    BY <2>1, <2>2
<1> QED
  BY <1>1, Invariance, PTL

\* The migrated clients are those of the schema 3 root, whatever its files
\* say (readAssignments, readLeases, stageClientState).
THEOREM ImportFaithful == Spec => []ImportedFaithfully
<1>1. Inv => ImportedFaithfully
  <2> SUFFICES ASSUME Inv, clients # NoClients PROVE Faithful(legacy, clients)
    BY DEF ImportedFaithfully, Faithful
  <2>1. legacy \in Legacies /\ clients = StagedClients(legacy) /\ SourceReady(legacy)
    BY DEF Inv, RootInv, CurrentInv, MigratingInv
  <2>2. LegacyTypeOK(legacy)
    BY <2>1, LegaciesAssumption
  <2> QED
    BY <2>1, <2>2, StagedIsFaithful
<1> QED
  BY <1>1, Invariance, PTL

\* The database never vouches for foreign material, unless its row was lost
\* or the file replaced while a plan was applied (derived.Service,
\* recovery.collect).
THEOREM RowsGenuine == Spec => []VouchedGenuine
<1>1. Inv => VouchedGenuine
  BY DEF Inv, VouchInv
<1> QED
  BY <1>1, Invariance, PTL

-----------------------------------------------------------------------------
(* The server                                                              *)

\* Once the database is in its place no directory is moved any more.
LEMMA InitializationKeepsLive ==
    ASSUME Base, InitializeNext, server = "running"
    PROVE  live' = live
<1>1. CASE InstallEntry
  <2>1. holder = "init" /\ At("install") /\ next <= Len(Entries)
    BY <1>1 DEF InstallEntry, At
  <2>2. legacy = NoLegacy
    BY <2>1 DEF Base, RootInv, LegacyInv
  <2>3. InitializingInv /\ InitializeTypeOK /\ live["meta"] = "v4"
    BY <2>2 DEF Base, RootInv, InitializingInv
  <2>4. Moved /\ marker = "installing"
    BY <2>1, <2>3, MetaLast, MarkerOfStep DEF InitializingInv, MarkerAtStep, At
  <2>5. \A e \in EntrySet : e \notin staged
    BY <2>3, <2>4 DEF InitializingInv, PreparedInv, Moved, Markers
  <2>6. Entries[next] \in EntrySet
    BY <2>1, <2>3 DEF InitializeTypeOK, EntrySet
  <2> QED
    BY <1>1, <2>5, <2>6 DEF InstallEntry
<1>2. CASE ~InstallEntry
  BY <1>2 DEF InitializeNext, Start, MakeStage, Build, BuildFails, WriteMarker, RenameMarker,
     InstallJournal, InstallCommit, RemoveStage, RemoveMarker, Killed, directory
<1> QED
  BY <1>1, <1>2

\* A migration needs the runtime lock the running server holds.
LEMMA MigrationKeepsLive ==
    ASSUME Base, MigrationNext, server = "running"
    PROVE  live' = live
<1>1. holder # "migrate"
  BY DEF Base, RootInv
<1>2. MigrateStart
  BY <1>1 DEF MigrationNext, Recover, RemoveEntry, OpenSnapshot, RestoreEntry, Restored, Forget, Plan, BeginSnapshot, CreateSnapshot,
     MarkManifest,
     CopyTree, BuildStage, RemoveLegacy, InstallSchema4, CommitManifest, CleanStage,
        CleanManifest,
     MigrateInterrupted, Doing
<1> QED
  BY <1>2 DEF MigrateStart

\* Only `server run` changes the state of the server.
LEMMA OthersKeepServer ==
    /\ InitializeNext => server' = server
    /\ MigrationNext => server' = server
    /\ RepairNext => server' = server /\ live' = live
<1>1. InitializeNext => server' = server
  BY DEF InitializeNext, Start, MakeStage, Build, BuildFails, WriteMarker, RenameMarker,
     InstallEntry, InstallJournal, InstallCommit, RemoveStage, RemoveMarker, Killed, directory
<1>2. MigrationNext => server' = server
  BY DEF MigrationNext, MigrateStart, Recover, RemoveEntry, OpenSnapshot, RestoreEntry, Restored, Forget, Plan, BeginSnapshot,
     CreateSnapshot,
     MarkManifest, CopyTree, BuildStage, RemoveLegacy, InstallSchema4, CommitManifest,
        CleanStage,
     CleanManifest, MigrateInterrupted, directory
<1>3. RepairNext => server' = server /\ live' = live
  BY DEF RepairNext, RepairStart, RepairRecover, RepairReplan, RepairBegin, RepairInstall,
     RepairCommit,
     RepairDone, RepairFails, RepairKilled, FileDamaged, MetadataLost, directory
<1> QED
  BY <1>1, <1>2, <1>3

\* A server loads a complete schema 4 instance, or one that an interrupted
\* recovery had begun to empty; no installation, of `server init` or of a
\* migration, leaves another that loads; and nothing replaces the directories
\* under a running server (runtime.LoadInstance, the order of installEntries
\* and of defaultEntries, restoreSnapshot, the runtime lock of
\* migration.Apply).
THEOREM ServerComplete == Spec => ServesComplete
<1>1. Inv /\ [Next]_vars =>
        [/\ server = "recovered" /\ server' = "loaded" => Complete \/ Emptying
         /\ server = "running" => live' = live]_vars
  <2> SUFFICES ASSUME Inv, Next
               PROVE  /\ server = "recovered" /\ server' = "loaded" => Complete \/ Emptying
                      /\ server = "running" => live' = live
    OBVIOUS
  <2>0. Base
    BY DEF Inv, Base, TypeOK
  <2>1. CASE RunRecover
    BY <2>1 DEF RunRecover, ServerRecover
  <2>2. CASE RunLoad
    BY <2>0, <2>2 DEF RunLoad, ServerLoad, InstanceLoads, Base, RootInv
  <2>3. CASE DirectoryNext
    BY <2>3 DEF DirectoryNext, ServerStart, ServerStop, ClientWork
  <2>4. CASE InitializeNext
    BY <2>0, <2>4, OthersKeepServer, InitializationKeepsLive
  <2>5. CASE MigrationNext
    BY <2>0, <2>5, OthersKeepServer, MigrationKeepsLive
  <2>6. CASE RepairNext
    BY <2>6, OthersKeepServer
  <2> QED
    BY <2>1, <2>2, <2>3, <2>4, <2>5, <2>6 DEF Next
<1> QED
  BY <1>1, Invariance, PTL DEF Spec, ServesComplete
=============================================================================
