------------------------------ MODULE ConfigApi ------------------------------
(***************************************************************************)
(* Configuration over the HTTP API (httpapi/configuration.go and the       *)
(* resources of cmd/ovpn-api): callers GET the desired configuration and   *)
(* the applied revision, PUT another one with If-Match, and POST an apply  *)
(* that names the digest and the revision they saw.  Beside them work      *)
(* administrators who edit config.yaml by hand, and every mutation of      *)
(* Clients, "ovpn config apply" included.                                  *)
(*                                                                         *)
(* A digest identifies a configuration, so it is one here; the revision is *)
(* the number of the enabled network.                                      *)
(***************************************************************************)
EXTENDS Clients

CONSTANTS
    Callers,   \* requests of the API process that may run at once
    MaxEdits   \* bound on edits of config.yaml by hand

ASSUME EditsAssumption == MaxEdits \in Nat

VARIABLES
    desired,   \* the configuration in config.yaml
    req,       \* what each caller holds, and where its request is
    mutex,     \* desiredUpdateMu: the PUT that holds it
    edits      \* edits by hand so far

apiVars == <<desired, req, mutex, edits>>
vars == <<clientVars, apiVars>>

NoRequest == [pc |-> "idle", digest |-> Initial, revision |-> 0, config |-> Initial, seen |-> 0]
Free      == {}

TypeOK ==
    /\ ClientsTypeOK
    /\ desired \in Configs
    /\ req \in [Callers ->
           [pc : {"idle", "ready", "put", "renaming", "checked", "paused", "rechecked",
                  "applying", "applied"},
            digest : Configs, revision : 0..MaxNetworks["api"],
            config : Configs, seen : 0..MaxEdits]]
    /\ mutex \subseteq Callers
    /\ edits \in 0..MaxEdits

\* config.yaml may already differ from what was applied.
Init ==
    /\ ClientsInit
    /\ desired \in IF focus = "api" THEN Configs ELSE {Initial}
    /\ req = [r \in Callers |-> NoRequest]
    /\ mutex = Free
    /\ edits = 0

Moves(r, pc) == req' = [req EXCEPT ![r].pc = pc]
Refuse(r)    == req' = [req EXCEPT ![r] = NoRequest]

\* GET desired and GET applied or plan.
Get(r) ==
    /\ focus = "api" /\ req[r].pc \in {"idle", "applied"}
    /\ req' = [req EXCEPT ![r] = [NoRequest EXCEPT !.pc = "ready", !.digest = desired,
                                                   !.revision = NetId]]
    /\ UNCHANGED <<clientVars, desired, mutex, edits>>

\* A write of config.yaml that is not the API's.
Edit(n) ==
    /\ focus = "api" /\ edits < MaxEdits /\ n # desired
    /\ desired' = n
    /\ edits' = edits + 1
    /\ UNCHANGED <<clientVars, req, mutex>>

-----------------------------------------------------------------------------
(***************************************************************************)
(* PUT desired: UpdateDesiredFile.                                         *)
(***************************************************************************)
\* (Variant: every request has a mutex of its own.)
PutStartUnlocked(r, n) ==
    /\ req[r].pc = "ready" /\ n # req[r].digest
    /\ IF desired = req[r].digest
       THEN req' = [req EXCEPT ![r].pc = "put", ![r].config = n] /\ mutex' = {r}
       ELSE Refuse(r) /\ UNCHANGED mutex
    /\ UNCHANGED <<clientVars, desired, edits>>

\* The first comparison with If-Match; then the new file is written beside
\* the old one.
PutStart(r, n) ==
    /\ req[r].pc = "ready" /\ n # req[r].digest
    /\ mutex = Free
    /\ IF desired = req[r].digest
       THEN req' = [req EXCEPT ![r].pc = "put", ![r].config = n] /\ mutex' = {r}
       ELSE Refuse(r) /\ UNCHANGED mutex
    /\ UNCHANGED <<clientVars, desired, edits>>

\* The second comparison.
PutRecheck(r) ==
    /\ req[r].pc = "put"
    /\ IF desired = req[r].digest
       THEN req' = [req EXCEPT ![r].pc = "renaming", ![r].seen = edits] /\ UNCHANGED mutex
       ELSE Refuse(r) /\ mutex' = Free
    /\ UNCHANGED <<clientVars, desired, edits>>

\* The response carries the digest of what was written.
PutRename(r) ==
    /\ req[r].pc = "renaming"
    /\ desired' = req[r].config
    /\ req' = [req EXCEPT ![r] = [NoRequest EXCEPT !.pc = "ready", !.digest = req[r].config,
                                                   !.revision = req[r].revision]]
    /\ mutex' = Free
    /\ UNCHANGED <<clientVars, edits>>

\* The temporary file cannot be written or renamed, or the directory cannot be
\* synchronised after the rename.
PutFails(r) ==
    /\ req[r].pc \in {"put", "renaming"}
    /\ \/ UNCHANGED desired
       \/ req[r].pc = "renaming" /\ desired' = req[r].config
    /\ Refuse(r)
    /\ mutex' = Free
    /\ UNCHANGED <<clientVars, edits>>

-----------------------------------------------------------------------------
(***************************************************************************)
(* POST apply.                                                             *)
(***************************************************************************)
\* The file is read before the database.  A revision never comes back, so a
\* change of the file between the two reads is as good as one after them.
LoadConfigState(r) == desired = req[r].digest /\ NetId = req[r].revision

\* The first look, the plan and the health preflight, which finds fault with
\* an instance in the middle of a mutation (unless forced).  An apply that is
\* in sync answers with its plan.
ApplyCheck(r) ==
    /\ req[r].pc = "ready"
    /\ \/ LoadConfigState(r) /\ Network # desired /\ Remappable(desired) /\ Moves(r, "checked")
       \/ ~LoadConfigState(r) /\ Refuse(r)
       \/ LoadConfigState(r) /\ (op # NoOp \/ pending # NoOp) /\ Refuse(r)
       \/ LoadConfigState(r) /\ (Network = desired \/ ~Remappable(desired)) /\ Refuse(r)
    /\ UNCHANGED <<clientVars, desired, mutex, edits>>

\* A request has the supervisor paused.
Paused(r) == req[r].pc \in {"paused", "rechecked", "applying"}

\* BeginApply: one session at a time, with "ovpn config apply" too.
ApplyPause(r) ==
    /\ req[r].pc = "checked"
    /\ IF op.kind # "config" /\ \A s \in Callers : ~Paused(s)
       THEN Moves(r, "paused")
       ELSE Refuse(r)
    /\ UNCHANGED <<clientVars, desired, mutex, edits>>

\* (Variant: what the first look saw is taken for granted.)
ApplyRecheckSkipped(r) ==
    /\ req[r].pc = "paused"
    /\ Moves(r, "rechecked")
    /\ UNCHANGED <<clientVars, desired, mutex, edits>>

\* The second look; no lock is held.  Resume follows a refusal.
ApplyRecheck(r) ==
    /\ req[r].pc = "paused"
    /\ IF LoadConfigState(r) THEN Moves(r, "rechecked") ELSE Refuse(r)
    /\ UNCHANGED <<clientVars, desired, mutex, edits>>

\* ApplyPersistent with the configuration of the second look ...
ApplyBegin(r) ==
    /\ req[r].pc = "rechecked"
    /\ ApplyConfiguration(req[r].digest)
    /\ Moves(r, "applying")
    /\ UNCHANGED <<desired, mutex, edits>>

\* ... which gives up on a lock it cannot get, a journal that is not empty, or
\* a plan that is in sync or finds no address for a client.
ApplyRefused(r) ==
    /\ req[r].pc = "rechecked"
    /\ \/ op # NoOp \/ pending # NoOp
       \/ Network = req[r].digest \/ ~Remappable(req[r].digest)
    /\ Refuse(r)
    /\ UNCHANGED <<clientVars, desired, mutex, edits>>

Applying == {r \in Callers : req[r].pc = "applying"}

\* The end of a mutation is the end of the apply that asked for it, which is
\* remembered as applied also when it answers that its cleanup failed.
ApiCommit ==
    /\ Commit \/ CommitUnfinished
    /\ req' = [r \in Callers |-> IF r \in Applying
                                THEN [NoRequest EXCEPT !.pc = "applied",
                                                       !.revision = req[r].revision]
                                ELSE req[r]]
    /\ UNCHANGED <<desired, mutex, edits>>

ApiRollback ==
    /\ Rollback
    /\ req' = [r \in Callers |-> IF r \in Applying THEN NoRequest ELSE req[r]]
    /\ UNCHANGED <<desired, mutex, edits>>

\* An apply crashes with the API process, and so with every request of it.
ApiCrash ==
    /\ Crash \/ CommitUnfinished
    /\ IF Applying = {} THEN UNCHANGED <<req, mutex>>
                        ELSE req' = [r \in Callers |-> NoRequest] /\ mutex' = Free
    /\ UNCHANGED <<desired, edits>>

-----------------------------------------------------------------------------
Request(r) ==
    \/ Get(r)
    \/ \E n \in Configs : PutStart(r, n)
    \/ PutRecheck(r) \/ PutRename(r) \/ PutFails(r)
    \/ ApplyCheck(r) \/ ApplyPause(r) \/ ApplyRecheck(r) \/ ApplyBegin(r) \/ ApplyRefused(r)

Next ==
    \/ ClientsStep /\ UNCHANGED apiVars
    \/ ApiCommit \/ ApiRollback \/ ApiCrash
    \/ \E r \in Callers : Request(r)
    \/ \E n \in Configs : Edit(n)

Spec == Init /\ [][Next]_vars

-----------------------------------------------------------------------------
\* No PUT is lost among API callers: what a PUT replaces is the configuration
\* its If-Match named, unless config.yaml was edited by hand after the second
\* comparison.
PutsReplaceWhatTheySaw ==
    [][\A r \in Callers : (req[r].pc = "renaming" /\ req'[r].pc # "renaming" /\ desired' # desired)
         => desired = req[r].digest \/ edits > req[r].seen]_vars

\* Of two API applies that ask for the same revision at most one commits,
\* however PUTs, edits, mutations, rollbacks and crashes fall between their
\* two looks.
OneApplyPerRevision ==
    \A r, s \in Callers :
        (r # s /\ {req[r].pc, req[s].pc} \subseteq {"applying", "applied"})
            => req[r].revision # req[s].revision
====
