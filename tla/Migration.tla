------------------------------ MODULE Migration ------------------------------
(***************************************************************************)
(* `ovpn migrate apply` (migration/apply.go, plan.go, cli/migration.go):   *)
(* the schema 3 root is archived, schema 4 is built in a stage directory,  *)
(* and the live directories are replaced one by one under a transaction    *)
(* marker.  The next apply finishes a committed transaction and restores   *)
(* the archive of any other.                                               *)
(* The marker is replaced atomically and its leftovers are overwritten, so *)
(* its write is one step; its list of installed names is never read back.  *)
(***************************************************************************)
EXTENDS DataDirectory, Schema3

VARIABLES
    legacy,     \* what the schema 3 files of the root say
    snapshot,   \* pre-schema-4.tar.gz: the directories it holds
    partial,    \* the archive's temporary file exists
    build,      \* the stage directory
    at,         \* where the process is
    installed,  \* how many directories it has replaced, removed or restored
    recovered,  \* this run recovered an earlier one
    clients,    \* the clients of a database that was migrated
    verdict     \* what the last run answered

migration == <<legacy, snapshot, partial, build, at, installed, recovered, clients, verdict>>

NoSnapshot == [d \in {} |-> "absent"]
NoClients  == [id \in {} |-> "none"]

\* (Variant: the database and server.conf before the client files.)
InstallsClientsLast == <<"cache", "config", "meta", "server", "ccd", "clients">>

\* installEntries
Installs == <<"cache", "ccd", "clients", "config", "meta", "server">>

\* backupEntries.  (`data`, which is handled like them, is left out: nothing
\* of schema 4 reads it.)
Backups == <<"cache", "ccd", "clients", "config", "meta", "pki", "secrets", "server">>

Unfinished == {"snapshot-ready", "staged", "installing"}
Whole(l, c) == \A d \in Directories : l[d] = c

MigrationTypeOK ==
    /\ snapshot \in {NoSnapshot} \cup [Directories -> Contents]
    /\ partial \in BOOLEAN /\ recovered \in BOOLEAN
    /\ build \in {"none", "partial", "built"}
    /\ at \in {"idle", "recover", "clear", "restore", "forget", "plan", "snapshot", "archive",
               "mark", "copy", "stage", "staged", "install", "remove", "rename",
               "clean", "unmark"}
    /\ installed \in 0..Len(Backups)
    /\ verdict \in {"none", "applied", "current", "source-invalid", "conflict",
                    "snapshot-exists", "snapshot-refused", "stage-refused",
                    "recovery-required"}

MigrationInit ==
    /\ snapshot = NoSnapshot /\ partial = FALSE
    /\ build = "none" /\ at = "idle"
    /\ installed = 0 /\ recovered = FALSE
    /\ clients = NoClients /\ verdict = "none"

Doing(s)  == holder = "migrate" /\ at = s
Finish(v) == holder' = "none" /\ at' = "idle" /\ verdict' = v

\* Apply takes the runtime lock exclusively, then the data lock.  The plan
\* the command line shows before is made again under the locks.
MigrateStart ==
    /\ holder = "none" /\ server # "running"
    /\ holder' = "migrate" /\ at' = "recover"
    /\ recovered' = FALSE /\ installed' = 0 /\ verdict' = "none"
    /\ UNCHANGED <<live, journal, server, manifest, work, crashes>>
    /\ UNCHANGED <<legacy, snapshot, partial, build, clients>>

-----------------------------------------------------------------------------
(* recoverInterrupted                                                      *)

\* (Variant: a committed transaction is restored like the others.)
RecoverRestoring ==
    /\ Doing("recover")
    /\ at' = IF manifest = "none" THEN "plan" ELSE "clear"
    /\ UNCHANGED <<live, journal, holder, server, manifest, work, crashes>>
    /\ UNCHANGED <<legacy, snapshot, partial, build, installed, recovered, clients, verdict>>

\* A committed transaction only loses its stage; any other is restored.
Recover ==
    /\ Doing("recover")
    /\ CASE manifest = "none" -> at' = "plan" /\ UNCHANGED <<holder, build, verdict>>
         [] manifest = "committed" ->
              build' = "none" /\ at' = "forget" /\ UNCHANGED <<holder, verdict>>
         [] manifest \in Unfinished /\ snapshot # NoSnapshot ->
              at' = "clear" /\ UNCHANGED <<holder, build, verdict>>
         [] manifest \in Unfinished /\ snapshot = NoSnapshot ->
              Finish("recovery-required") /\ UNCHANGED build
    /\ UNCHANGED <<live, journal, server, manifest, work, crashes>>
    /\ UNCHANGED <<legacy, snapshot, partial, installed, recovered, clients>>

\* restoreSnapshot first removes every directory of the root, one by one.
\* With the database go the client changes it holds.
RemoveEntry ==
    /\ Doing("clear") /\ installed < Len(Backups)
    /\ LET d == Backups[installed + 1]
       IN  /\ live' = [live EXCEPT ![d] = "absent"]
           /\ work' = IF d = "meta" THEN [work EXCEPT !.made = FALSE] ELSE work
           /\ clients' = IF d = "meta" THEN NoClients ELSE clients
    /\ installed' = installed + 1
    /\ UNCHANGED <<journal, holder, server, manifest, crashes>>
    /\ UNCHANGED <<legacy, snapshot, partial, build, at, recovered, verdict>>

\* Then it reads the archive from its start.
OpenSnapshot ==
    /\ Doing("clear") /\ installed = Len(Backups)
    /\ at' = "restore" /\ installed' = 0
    /\ UNCHANGED <<directory, legacy, snapshot, partial, build, recovered, clients, verdict>>

\* The files of one directory.  Paths, types, modes and sizes are those that
\* createSnapshot let through; but it never looks at their total, which is
\* refused here, with the root emptied.  (A directory some of whose files are
\* missing counts as absent.)
RestoreEntry ==
    /\ Doing("restore") /\ installed < Len(Backups)
    /\ LET d == Backups[installed + 1]
       IN  IF d = legacy.overrun
           THEN Finish("recovery-required") /\ UNCHANGED <<live, installed>>
           ELSE /\ live' = [live EXCEPT ![d] = snapshot[d]]
                /\ installed' = installed + 1
                /\ UNCHANGED <<holder, at, verdict>>
    /\ UNCHANGED <<journal, server, manifest, work, crashes>>
    /\ UNCHANGED <<legacy, snapshot, partial, build, recovered, clients>>

\* The archive is at its end: the stage goes.
Restored ==
    /\ Doing("restore") /\ installed = Len(Backups)
    /\ build' = "none" /\ at' = "forget" /\ installed' = 0
    /\ UNCHANGED <<directory, legacy, snapshot, partial, recovered, clients, verdict>>

\* The marker goes last.
Forget ==
    /\ Doing("forget")
    /\ manifest' = "none" /\ recovered' = TRUE /\ at' = "plan"
    /\ UNCHANGED <<live, journal, holder, server, work, crashes>>
    /\ UNCHANGED <<legacy, snapshot, partial, build, installed, clients, verdict>>

-----------------------------------------------------------------------------
(* BuildPlan, ReadSchema3 and the transaction                              *)

\* BuildPlan: a database is current unless legacy files live beside it;
\* otherwise the schema 3 files must read.
PlanStatus ==
    CASE live["meta"] = "v4" /\ live["config"] # "v3" -> "current"
      [] live["meta"] = "v4" /\ live["config"] = "v3" -> "conflict"
      [] live["meta"] = "v3" /\ SourceReady(legacy)   -> "ready"
      [] OTHER -> "source-invalid"

Plan ==
    /\ Doing("plan")
    /\ IF PlanStatus = "ready"
       THEN at' = "snapshot" /\ UNCHANGED <<holder, verdict>>
       ELSE Finish(PlanStatus)
    /\ UNCHANGED <<live, journal, server, manifest, work, crashes>>
    /\ UNCHANGED <<legacy, snapshot, partial, build, installed, recovered, clients>>

\* A recovered run has its archive; any other must not find one, nor the
\* temporary file of one, which is created exclusively.
BeginSnapshot ==
    /\ Doing("snapshot")
    /\ IF recovered THEN at' = "mark" /\ UNCHANGED <<holder, verdict, partial>>
       ELSE IF snapshot # NoSnapshot \/ partial
            THEN Finish("snapshot-exists") /\ UNCHANGED partial
            ELSE at' = "archive" /\ partial' = TRUE /\ UNCHANGED <<holder, verdict>>
    /\ UNCHANGED <<live, journal, server, manifest, work, crashes>>
    /\ UNCHANGED <<legacy, snapshot, build, installed, recovered, clients>>

\* createSnapshot removes its temporary file when it refuses a file.
CreateSnapshot ==
    /\ Doing("archive")
    /\ partial' = FALSE
    /\ IF Archivable(legacy)
       THEN snapshot' = live /\ at' = "mark" /\ UNCHANGED <<holder, verdict>>
       ELSE Finish("snapshot-refused") /\ UNCHANGED snapshot
    /\ UNCHANGED <<live, journal, server, manifest, work, crashes>>
    /\ UNCHANGED <<legacy, build, installed, recovered, clients>>

\* writeMarker before the commit: the state it writes and what follows.
MarkerAt == [mark |-> "snapshot-ready", staged |-> "staged", install |-> "installing"]
AfterMark == [mark |-> "copy", staged |-> "install", install |-> "remove"]

MarkManifest ==
    /\ holder = "migrate" /\ at \in DOMAIN MarkerAt
    /\ manifest' = MarkerAt[at]
    /\ at' = AfterMark[at]
    /\ UNCHANGED <<live, journal, holder, server, work, crashes>>
    /\ UNCHANGED <<legacy, snapshot, partial, build, installed, recovered, clients, verdict>>

\* copyBusinessTree
CopyTree ==
    /\ Doing("copy")
    /\ build' = "partial" /\ at' = "stage"
    /\ UNCHANGED <<directory, legacy, snapshot, partial, installed, recovered, clients, verdict>>

\* buildStage: profiles, CCDs, the database with every client, which it may
\* refuse, and the state scan of the result, which may refuse too.  A refused
\* stage stays, and with it the marker.
BuildStage ==
    /\ Doing("stage")
    /\ IF DatabaseAccepts(legacy.network, StagedClients(legacy)) /\ StageHealthy(legacy)
       THEN build' = "built" /\ at' = "staged" /\ UNCHANGED <<holder, verdict>>
       ELSE Finish("stage-refused") /\ UNCHANGED build
    /\ UNCHANGED <<live, journal, server, manifest, work, crashes>>
    /\ UNCHANGED <<legacy, snapshot, partial, installed, recovered, clients>>

\* One directory: the live one is removed, the staged one renamed.
RemoveLegacy ==
    /\ Doing("remove") /\ installed < Len(Installs)
    /\ live' = [live EXCEPT ![Installs[installed + 1]] = "absent"]
    /\ at' = "rename"
    /\ UNCHANGED <<journal, holder, server, manifest, work, crashes>>
    /\ UNCHANGED <<legacy, snapshot, partial, build, installed, recovered, clients, verdict>>

InstallSchema4 ==
    /\ Doing("rename")
    /\ live' = [live EXCEPT ![Installs[installed + 1]] = "v4"]
    /\ clients' = IF Installs[installed + 1] = "meta" THEN StagedClients(legacy) ELSE clients
    /\ installed' = installed + 1
    /\ at' = "remove"
    /\ UNCHANGED <<journal, holder, server, manifest, work, crashes>>
    /\ UNCHANGED <<legacy, snapshot, partial, build, recovered, verdict>>

\* (Variant: committed before the last directory.)
CommitManifestEarly ==
    /\ Doing("remove") /\ installed = Len(Installs) - 1
    /\ manifest' = "committed"
    /\ at' = "clean"
    /\ UNCHANGED <<live, journal, holder, server, work, crashes>>
    /\ UNCHANGED <<legacy, snapshot, partial, build, installed, recovered, clients, verdict>>

CommitManifest ==
    /\ Doing("remove") /\ installed = Len(Installs)
    /\ manifest' = "committed"
    /\ at' = "clean"
    /\ UNCHANGED <<live, journal, holder, server, work, crashes>>
    /\ UNCHANGED <<legacy, snapshot, partial, build, installed, recovered, clients, verdict>>

CleanStage ==
    /\ Doing("clean")
    /\ build' = "none" /\ at' = "unmark"
    /\ UNCHANGED <<directory, legacy, snapshot, partial, installed, recovered, clients, verdict>>

CleanManifest ==
    /\ Doing("unmark")
    /\ manifest' = "none"
    /\ Finish("applied")
    /\ UNCHANGED <<live, journal, server, work, crashes>>
    /\ UNCHANGED <<legacy, snapshot, partial, build, installed, recovered, clients>>

\* The process is killed, or a step fails and Apply returns: the root stays
\* as it is, but for createSnapshot, which on an error removes its file.
MigrateInterrupted ==
    /\ holder = "migrate" /\ crashes < MaxCrashes
    /\ crashes' = crashes + 1
    /\ holder' = "none" /\ at' = "idle"
    /\ partial' \in {partial, FALSE} /\ (at # "archive" => partial' = partial)
    /\ UNCHANGED <<live, journal, server, manifest, work>>
    /\ UNCHANGED <<legacy, snapshot, build, installed, recovered, clients, verdict>>

MigrationNext ==
    \/ MigrateStart \/ Recover \/ RemoveEntry \/ OpenSnapshot \/ RestoreEntry \/ Restored
    \/ Forget \/ Plan
    \/ BeginSnapshot \/ CreateSnapshot \/ MarkManifest \/ CopyTree \/ BuildStage
    \/ RemoveLegacy \/ InstallSchema4 \/ CommitManifest \/ CleanStage
    \/ CleanManifest \/ MigrateInterrupted

-----------------------------------------------------------------------------
(* Properties                                                              *)

\* Wherever Apply was interrupted, the marker says how to go on: while it is
\* unfinished the archive holds the whole schema 3 root; without it, or when
\* it is committed, the root is whole, in schema 3 or in schema 4, and only
\* a marker keeps a stage (migration.Apply, recoverInterrupted).
MigratedWhole ==
    /\ manifest \in Unfinished => snapshot # NoSnapshot /\ Whole(snapshot, "v3")
    /\ manifest = "committed" => Complete
    /\ manifest = "none" /\ holder # "migrate" /\ snapshot # NoSnapshot =>
         /\ Whole(live, "v3") \/ (Complete /\ live["config"] = "v4")
         /\ build = "none"

\* Client commands that run once the migration is committed, or without one,
\* are never undone by a recovery (recoverInterrupted, its committed case).
FinishedWorkKept == work.promised => work.made

\* Every refusal has a cause in the schema 3 files, the same after any number
\* of interruptions and restores: the database never refuses what was read,
\* only the state scan of the stage does; a recovery never misses its archive,
\* only its total is refused; and an archive is in the way only when a run was
\* interrupted after it made it and before its marker, or while it made it
\* (migration.BuildPlan, ReadSchema3, buildStage, createSnapshot,
\* restoreSnapshot).
ReadyPlansApply ==
    /\ verdict # "conflict"
    /\ verdict = "source-invalid" => ~SourceReady(legacy)
    /\ verdict = "snapshot-refused" => ~Archivable(legacy)
    /\ verdict = "stage-refused" => ~StageHealthy(legacy)
    /\ verdict = "recovery-required" => legacy.overrun # "none"
    /\ verdict = "snapshot-exists" =>
         crashes > 0 /\ (partial \/ snapshot # NoSnapshot)

\* The migrated clients: everyone who was current still is, under the same
\* status and name; no two of them hold the same address; a static address
\* is kept, and a pool address leased to an active dynamic client is still
\* leased to one of its holders (readAssignments, readLeases,
\* stageClientState).
ImportedFaithfully ==
    clients # NoClients =>
        /\ \A x \in Lines(legacy.ids) :
             clients[x.id].status = x.status /\ clients[x.id].name = x.name
        /\ \A c, d \in DOMAIN clients :
             c # d /\ HeldAddress(clients[c]) # NoAddress
               => HeldAddress(clients[c]) # HeldAddress(clients[d])
        /\ \A x \in Lines(legacy.ips) :
             x.addr # NoAddress => HeldAddress(clients[x.id]) = x.addr
        /\ \A id \in DOMAIN legacy.leases : LeaseValid(legacy, id) =>
             \E c \in DOMAIN clients : clients[c].lease = legacy.leases[id]

==============================================================================
