----------------------------- MODULE Initialize ------------------------------
(***************************************************************************)
(* `ovpn server init` (initialize/service.go): the instance is built in a  *)
(* stage directory, then its directories are moved into the data root one  *)
(* by one under a marker file, and its first journal operation is          *)
(* committed.  A killed run is continued, or thrown away, by the next one. *)
(* A marker write is two steps, the temporary file and its rename, since a *)
(* process killed in between leaves the temporary file.                    *)
(***************************************************************************)
EXTENDS DataDirectory

VARIABLES
    marker,    \* .init-transaction.json
    tmp,       \* .init-transaction.json.tmp exists
    stage,     \* the stage directory exists
    staged,    \* the finished directories in it
    next,      \* index of the entry installPrepared looks at
    pc,        \* where the process is
    outcome    \* what the last run answered

initialization == <<marker, tmp, stage, staged, next, pc, outcome>>

\* defaultEntries: the database is moved last.
Entries == <<"pki", "secrets", "server", "clients", "ccd", "meta">>

EntrySet == {Entries[i] : i \in 1..Len(Entries)}
Markers  == {"staging", "prepared", "installing", "files-installed", "committed"}
Write(s)  == <<"write", s>>
Rename(s) == <<"rename", s>>
Steps    == {"idle", "mkdir", "build", "install", "commit", "clean", "unmark"}

InitializeTypeOK ==
    /\ marker \in {"none"} \cup Markers
    /\ tmp \in BOOLEAN /\ stage \in BOOLEAN
    /\ staged \subseteq EntrySet
    /\ next \in 1..(Len(Entries) + 1)
    /\ pc \in ({"step"} \X Steps) \cup ({"write", "rename"} \X Markers)
    /\ outcome \in {"none", "done", "failed", "not-empty", "recovery-needed"}

InitializeInit ==
    /\ marker = "none" /\ tmp = FALSE /\ stage = FALSE
    /\ staged = {}
    /\ next = 1
    /\ pc = <<"step", "idle">>
    /\ outcome = "none"

At(s) == holder = "init" /\ pc = <<"step", s>>
Go(s) == pc' = <<"step", s>>

\* The run ends and releases the data lock.
Answer(a) == holder' = "none" /\ Go("idle") /\ outcome' = a

\* requireEmptyDataDir: nothing but the lock files; a migration marker lies
\* in the directory "repair".
EmptyDirectory ==
    /\ \A d \in Directories : live[d] = "absent"
    /\ ~tmp /\ manifest = "none"

\* Initialize up to its first marker.  A marker of an earlier run is first
\* recovered: a staging one by removing the stage and the marker, and the
\* initialization starts anew; any other by installPrepared.
Start ==
    /\ holder = "none"
    /\ IF marker \in {"none", "staging"}
       THEN /\ marker' = "none" /\ stage' = FALSE /\ staged' = {}
            /\ journal' = IF marker = "staging" THEN "none" ELSE journal
            /\ IF EmptyDirectory
               THEN holder' = "init" /\ pc' = Write("staging") /\ outcome' = "none"
               ELSE Answer("not-empty")
       ELSE /\ holder' = "init" /\ pc' = Write("installing") /\ outcome' = "none"
            /\ UNCHANGED <<marker, stage, staged, journal>>
    /\ next' = 1
    /\ UNCHANGED <<live, server, manifest, work, crashes, tmp>>

\* writeMarker: an old temporary file is replaced, then renamed.
WriteMarker(s) ==
    /\ holder = "init" /\ pc = Write(s)
    /\ tmp' = TRUE /\ pc' = Rename(s)
    /\ UNCHANGED <<directory, marker, stage, staged, next, outcome>>

AfterMarker(s) ==
    CASE s = "staging"         -> <<"step", "mkdir">>
      [] s = "prepared"        -> Write("installing")
      [] s = "installing"      -> <<"step", "install">>
      [] s = "files-installed" -> <<"step", "commit">>
      [] s = "committed"       -> <<"step", "clean">>

RenameMarker(s) ==
    /\ holder = "init" /\ pc = Rename(s)
    /\ tmp' = FALSE /\ marker' = s
    /\ pc' = AfterMarker(s)
    /\ UNCHANGED <<directory, stage, staged, next, outcome>>

MakeStage ==
    /\ At("mkdir")
    /\ stage' = TRUE
    /\ Go("build")
    /\ UNCHANGED <<directory, marker, tmp, staged, next, outcome>>

\* The PKI, the keys, server.conf, the database with its metadata and the
\* prepared operation; validateInstance; then the prepared marker.
Build ==
    /\ At("build")
    /\ staged' = EntrySet /\ journal' = "prepared"
    /\ pc' = Write("prepared")
    /\ UNCHANGED <<live, holder, server, manifest, work, crashes>>
    /\ UNCHANGED <<marker, tmp, stage, next, outcome>>

\* (Variant: the stage is left behind.)
BuildFailsKeeping ==
    /\ At("mkdir") \/ At("build") \/ (holder = "init" /\ pc = Write("prepared"))
    /\ marker' = "none" /\ journal' = "none"
    /\ Answer("failed")
    /\ UNCHANGED <<live, server, manifest, work, crashes, tmp, stage, staged, next>>

\* An error before the prepared marker is written removes stage and marker.
BuildFails ==
    /\ At("mkdir") \/ At("build") \/ (holder = "init" /\ pc = Write("prepared"))
    /\ stage' = FALSE /\ staged' = {} /\ marker' = "none" /\ journal' = "none"
    /\ Answer("failed")
    /\ UNCHANGED <<live, server, manifest, work, crashes, tmp, next>>

-----------------------------------------------------------------------------
(* installPrepared, of the first run or of a recovery.                     *)

\* (Variant: an entry moved by an earlier run is not recognized.)
AmbiguousMoved(e) == e \notin staged

\* One entry is moved now, or was moved by an earlier run.  Both there, or
\* both missing, needs manual recovery.
Ambiguous(e) == (e \in staged) <=> (live[e] # "absent")

InstallEntry ==
    /\ At("install") /\ next <= Len(Entries)
    /\ LET e == Entries[next]
       IN  IF Ambiguous(e)
           THEN Answer("recovery-needed") /\ UNCHANGED <<live, staged, next>>
           ELSE /\ live' = IF e \in staged THEN [live EXCEPT ![e] = "v4"] ELSE live
                /\ staged' = staged \ {e}
                /\ next' = next + 1
                /\ pc' = Write("installing")
                /\ UNCHANGED <<holder, outcome>>
    /\ UNCHANGED <<journal, server, manifest, work, crashes, marker, tmp, stage>>

\* validateInstance accepts the installed entries; a prepared operation
\* advances.
InstallJournal ==
    /\ At("install") /\ next = Len(Entries) + 1
    /\ journal' = IF journal = "prepared" THEN "files-installed" ELSE journal
    /\ pc' = Write("files-installed")
    /\ UNCHANGED <<live, holder, server, manifest, work, crashes>>
    /\ UNCHANGED <<marker, tmp, stage, staged, next, outcome>>

InstallCommit ==
    /\ At("commit")
    /\ IF journal \in {"files-installed", "committed"}
       THEN /\ journal' = "committed" /\ pc' = Write("committed")
            /\ UNCHANGED <<holder, outcome>>
       ELSE /\ Answer("recovery-needed") /\ UNCHANGED journal
    /\ UNCHANGED <<live, server, manifest, work, crashes>>
    /\ UNCHANGED <<marker, tmp, stage, staged, next>>

RemoveStage ==
    /\ At("clean")
    /\ stage' = FALSE /\ staged' = {}
    /\ Go("unmark")
    /\ UNCHANGED <<directory, marker, tmp, next, outcome>>

RemoveMarker ==
    /\ At("unmark")
    /\ marker' = "none"
    /\ Answer("done")
    /\ UNCHANGED <<live, journal, server, manifest, work, crashes>>
    /\ UNCHANGED <<tmp, stage, staged, next>>

\* The process is killed, or a step after the prepared marker fails and
\* leaves all as it is.  The lock is released.
Killed ==
    /\ holder = "init" /\ crashes < MaxCrashes
    /\ crashes' = crashes + 1
    /\ holder' = "none" /\ Go("idle")
    /\ UNCHANGED <<live, journal, server, manifest, work>>
    /\ UNCHANGED <<marker, tmp, stage, staged, next, outcome>>

InitializeNext ==
    \/ Start \/ MakeStage \/ Build \/ BuildFails
    \/ \E s \in Markers : WriteMarker(s) \/ RenameMarker(s)
    \/ InstallEntry \/ InstallJournal \/ InstallCommit
    \/ RemoveStage \/ RemoveMarker \/ Killed

-----------------------------------------------------------------------------
(* Properties                                                              *)

\* What a killed or failed initialization leaves is covered by its marker: a
\* root without one holds a complete instance whose operation was committed,
\* or nothing of an instance, and in both cases no stage
\* (initialize.Initialize, its deferred removal, recoverLocked).
InitializedWhole ==
    marker = "none" /\ manifest = "none" /\ holder = "none" =>
        /\ ~stage
        /\ (\E e \in EntrySet : live[e] = "v4") =>
             Complete /\ journal \in {"none", "committed"}

\* initialize.Initialize gives up for good on two accidents only: it asks
\* for manual recovery when `server run` rolled its operation back, and it
\* refuses the root of an empty instance when a run was killed while it
\* wrote a marker beside which nothing but the temporary file was left.
RefusalsExplained ==
    /\ outcome = "recovery-needed" => journal = "rolled-back"
    /\ outcome = "not-empty" =>
         \/ tmp /\ crashes > 0
         \/ manifest # "none"
         \/ \E d \in Directories : live[d] # "absent"

==============================================================================
