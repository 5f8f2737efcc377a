---------------------------- MODULE DataDirectory ----------------------------
(***************************************************************************)
(* The data root that initialization, schema migration, `server run` and   *)
(* the client commands share, with its two locks: .ovpn-data.lock, held by *)
(* one process while it changes the root, and .ovpn-runtime.lock, held     *)
(* shared by a running server and exclusively by a migration.              *)
(***************************************************************************)
EXTENDS Naturals, Sequences, FiniteSets

CONSTANT MaxCrashes     \* bound on the processes that are killed

ASSUME CrashesAssumption == MaxCrashes \in Nat

VARIABLES
    live,       \* what each directory of the root holds
    journal,    \* the instance.initialize operation in the database
    holder,     \* the process that holds the data lock
    server,     \* `ovpn server run`
    manifest,   \* state of the migration transaction marker
    work,       \* client changes the database and the PKI hold
    crashes

directory == <<live, journal, holder, server, manifest, work, crashes>>

Directories == {"pki", "secrets", "server", "clients", "ccd", "meta", "cache", "config"}
Contents    == {"absent", "v3", "v4"}
Pending     == {"prepared", "files-installed"}

\* Both schemas use the keys as they are; the rest differs.
Keys      == {"pki", "secrets"}
Rewritten == {"server", "clients", "ccd", "meta"}

\* A schema 4 instance with all of its directories.
Complete ==
    /\ \A d \in Keys : live[d] # "absent"
    /\ \A d \in Rewritten : live[d] = "v4"

DirectoryTypeOK ==
    /\ live \in [Directories -> Contents]
    /\ journal \in {"none", "committed", "rolled-back"} \cup Pending
    /\ holder \in {"none", "init", "migrate", "repair"}
    /\ server \in {"stopped", "recovered", "loaded", "running"}
    /\ manifest \in {"none", "snapshot-ready", "staged", "installing", "committed"}
    /\ work \in [made : BOOLEAN, promised : BOOLEAN]
    /\ crashes \in 0..MaxCrashes

DirectoryInit ==
    /\ journal = "none"
    /\ holder = "none"
    /\ server = "stopped"
    /\ manifest = "none"
    /\ work = [made |-> FALSE, promised |-> FALSE]
    /\ crashes = 0

-----------------------------------------------------------------------------
(***************************************************************************)
(* `ovpn server run`, the container's command on a root that is not empty. *)
(***************************************************************************)
\* RecoverOperations, under the data lock, rolls back what the journal
\* lists; without a database it refuses.
ServerRecover ==
    /\ server = "stopped" /\ holder = "none"
    /\ live["meta"] = "v4"
    /\ journal' = IF journal \in Pending THEN "rolled-back" ELSE journal
    /\ server' = "recovered"
    /\ UNCHANGED <<live, holder, manifest, work, crashes>>

\* LoadInstance, without a lock, accepts when the database is there and
\* records the server.conf that is there.
InstanceLoads == live["meta"] = "v4" /\ live["server"] = "v4"

ServerLoad(verified) ==
    /\ server = "recovered"
    /\ server' = IF InstanceLoads /\ verified THEN "loaded" ELSE "stopped"
    /\ UNCHANGED <<live, journal, holder, manifest, work, crashes>>

\* Supervisor.Run takes the runtime lock only then, or gives up on it.
ServerStart ==
    /\ server = "loaded"
    /\ server' \in {"running", "stopped"}
    /\ server' = "running" => holder # "migrate"
    /\ UNCHANGED <<live, journal, holder, manifest, work, crashes>>

ServerStop ==
    /\ server = "running"
    /\ server' = "stopped"
    /\ UNCHANGED <<live, journal, holder, manifest, work, crashes>>

\* A client command under the data lock.  It is promised to last when no
\* migration is left to be rolled back.
ClientWork ==
    /\ holder = "none" /\ live["meta"] = "v4"
    /\ work' = [made     |-> TRUE,
                promised |-> work.promised \/ manifest \in {"none", "committed"}]
    /\ UNCHANGED <<live, journal, holder, server, manifest, crashes>>

DirectoryNext == ServerStart \/ ServerStop \/ ClientWork
==============================================================================
