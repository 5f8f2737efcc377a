--------------------------- MODULE ConfigApiProofs ---------------------------
(***************************************************************************)
(* Theorems about Spec of ConfigApi: the clients with everyone who looks   *)
(* on, and the configuration requests of the API.  ClientsProofs has the   *)
(* invariant of the clients and its steps; this module adds the requests.  *)
(***************************************************************************)
EXTENDS ConfigApi, ClientsProofs

-----------------------------------------------------------------------------
(* The inductive invariant of the requests.                                *)

ApiType ==
    /\ desired \in Configs
    /\ req \in [Callers ->
           [pc : {"idle", "ready", "put", "renaming", "checked", "paused", "rechecked",
                  "applying", "applied"},
            digest : Configs, revision : 0..MaxNetworks["api"],
            config : Configs, seen : 0..MaxEdits]]
    /\ mutex \subseteq Callers
    /\ edits \in 0..MaxEdits

\* desiredUpdateMu, and what the second comparison of its holder saw.
PutInv ==
    \A r \in Callers :
        /\ req[r].pc \in {"put", "renaming"} => mutex = {r}
        /\ req[r].pc = "renaming" => /\ req[r].seen <= edits
                                     /\ desired = req[r].digest \/ edits > req[r].seen

\* One request has the supervisor paused; the mutation of one that applies is
\* open, and adds a network.
PausedInv ==
    /\ \A r, s \in Callers : Paused(r) /\ Paused(s) => r = s
    /\ \A r \in Callers : req[r].pc = "applying" => op.kind = "config"

\* The revision a request holds is one of the past once it was applied, and a
\* request behind its second look holds a later one.
RevisionInv ==
    /\ \A r \in Callers : req[r].revision <= NetId
    /\ \A r \in Callers : req[r].pc = "applied" => req[r].revision < NetId
    /\ \A r, s \in Callers : req[r].pc = "applied" =>
          /\ req[s].pc \in {"rechecked", "applying"} => req[r].revision < req[s].revision
          /\ req[s].pc = "applied" /\ r # s => req[r].revision # req[s].revision

ApiInv == ApiType /\ PutInv /\ PausedInv /\ RevisionInv

Inv == ClientsInv /\ ApiInv

-----------------------------------------------------------------------------
(* What the clients' steps do to the network and the open mutation.        *)

LEMMA NetIdFacts ==
    ASSUME ClientsInv
    PROVE  NetId \in Nat /\ NetId <= MaxNetworks[focus] /\ networks \in Seq(Configs)
           /\ focus \in Onlookers
  BY BoundsAssumption DEF ClientsInv, DbInv, DbOK, NetsOK, NetId

LEMMA BeginOpens ==
    ASSUME NEW p, Begin(p)
    PROVE  op = NoOp /\ networks' = networks
  BY DEF Begin, Lock, database

\* No step but the end of a mutation touches the network or an open mutation.
LEMMA StepKeepsOpen ==
    ASSUME ClientsStep
    PROVE  networks' = networks /\ (op = NoOp \/ op' = op)
<1>1. ASSUME Mutation PROVE networks' = networks /\ (op = NoOp \/ op' = op)
  BY <1>1, BeginOpens DEF Mutation, Create, Rename, Revoke, Reissue, DeleteConfirmed, Delete,
     AddressSet, AddressRelease, AddressEdit, ApplyConfiguration, ConfirmDelete, database, journal
<1>2. ASSUME \/ Recover
             \/ \E c \in Ids, g \in 1..MaxIssues : Connect(c, g)
             \/ \E c \in Ids : SessionEnd(c) \/ HookAssignment(c)
             \/ HookLease \/ HookRefused \/ HookAccepts
             \/ \E c \in Ids : Reconcile(c) \/ RuntimeDisconnect(c)
             \/ ReconcilePending
             \/ \E c \in Ids : ExportSelect(c)
             \/ ExportRead
      PROVE  networks' = networks /\ op' = op
  BY <1>2 DEF Recover, Connect, SessionEnd, HookAssignment, HookLease, HookRefused, HookAccepts,
     HookFails, Reconcile, RuntimeDisconnect, Disconnect, ReconcilePending, ExportSelect,
     ExportRead, database, journal
<1> QED
  BY <1>1, <1>2 DEF ClientsStep

\* A commit adds at most one network, and one if it is of a configuration.
LEMMA CommitNetworks ==
    ASSUME ClientsInv, CommitState
    PROVE  /\ NetId' \in Nat /\ NetId <= NetId'
           /\ op.kind = "config" => NetId < NetId'
<1>1. /\ op # NoOp /\ networks' = networks \o op.nets /\ networks \in Seq(Configs)
  BY NetIdFacts DEF CommitState
<1>2. /\ op.kind = "config" => \E n \in Configs : op.nets = <<n>>
      /\ op.kind # "config" => op.nets = << >>
  BY <1>1 DEF ClientsInv, PlanInv
<1>3. CASE op.kind = "config"
  <2>1. PICK n \in Configs : op.nets = <<n>>
    BY <1>2, <1>3
  <2> QED
    BY <1>1, <2>1 DEF NetId
<1>4. CASE op.kind # "config"
  <2>1. networks' = networks
    BY <1>1, <1>2, <1>4, NoNets
  <2> QED
    BY <1>1, <1>4, <2>1 DEF NetId
<1> QED
  BY <1>3, <1>4

-----------------------------------------------------------------------------
(* The invariant of the requests.                                          *)

RequestType ==
    [pc : {"idle", "ready", "put", "renaming", "checked", "paused", "rechecked",
           "applying", "applied"},
     digest : Configs, revision : 0..MaxNetworks["api"], config : Configs, seen : 0..MaxEdits]

LEMMA NoRequestFacts ==
    NoRequest \in RequestType /\ NoRequest.pc = "idle" /\ NoRequest.revision = 0
<1>1. MaxNetworks["api"] \in Nat /\ MaxEdits \in Nat /\ Initial \in Configs
  BY BoundsAssumption, EditsAssumption, ConfigsAssumption DEF Onlookers
<1> QED
  BY <1>1 DEF NoRequest, RequestType

LEMMA ApiInit ==
    ASSUME Init
    PROVE  Inv
<1>1. ClientsInv
  BY InitInv DEF Init
<1>2. /\ req = [r \in Callers |-> NoRequest] /\ mutex = {} /\ edits = 0 /\ desired \in Configs
  BY ConfigsAssumption DEF Init, Free
<1>3. ApiType
  BY <1>2, NoRequestFacts, EditsAssumption DEF ApiType, RequestType
<1>4. \A r \in Callers : req[r].pc = "idle" /\ req[r].revision = 0
  BY <1>2, NoRequestFacts
<1>5. PutInv /\ PausedInv /\ RevisionInv
  BY <1>1, <1>4, NetIdFacts DEF PutInv, PausedInv, Paused, RevisionInv
<1> QED
  BY <1>1, <1>3, <1>5 DEF Inv, ApiInv

\* The clients' own steps.
LEMMA ClientsKeepApi ==
    ASSUME Inv, networks' = networks, op = NoOp \/ op' = op, UNCHANGED apiVars
    PROVE  ApiInv'
<1>1. UNCHANGED <<desired, req, mutex, edits>> /\ NetId' = NetId
  BY DEF apiVars, NetId
<1>2. \A r \in Callers : req[r].pc = "applying" => op # NoOp
  BY DEF Inv, ApiInv, PausedInv, NoOp
<1> QED
  BY <1>1, <1>2 DEF Inv, ApiInv, ApiType, PutInv, PausedInv, Paused, RevisionInv

LEMMA CommitKeepsApi ==
    ASSUME Inv, ApiCommit
    PROVE  ApiInv'
<1> DEFINE new(r) == [NoRequest EXCEPT !.pc = "applied", !.revision = req[r].revision]
<1>1. /\ CommitState /\ UNCHANGED <<desired, mutex, edits>>
      /\ req' = [r \in Callers |-> IF req[r].pc = "applying" THEN new(r) ELSE req[r]]
  BY DEF ApiCommit, Commit, CommitUnfinished, Applying
<1>2. req \in [Callers -> RequestType] /\ NetId \in Nat /\ NetId' \in Nat /\ NetId <= NetId'
      /\ (op.kind = "config" => NetId < NetId')
  BY <1>1, CommitNetworks, NetIdFacts DEF Inv, ApiInv, ApiType, RequestType
<1>3. \A r \in Callers : new(r) \in RequestType /\ new(r).pc = "applied"
                         /\ new(r).revision = req[r].revision
  BY <1>2, NoRequestFacts DEF RequestType
<1> HIDE DEF new
<1>4. \A r \in Callers : /\ req[r].revision \in Nat /\ req'[r].revision = req[r].revision
                         /\ req[r].pc = "applying" => req'[r].pc = "applied"
                         /\ req[r].pc # "applying" => req'[r] = req[r]
  BY <1>1, <1>2, <1>3 DEF RequestType
<1>5. ApiType'
  <2>1. req' \in [Callers -> RequestType]
    BY <1>1, <1>2, <1>3
  <2> QED
    BY <1>1, <2>1 DEF Inv, ApiInv, ApiType, RequestType
<1>6. PutInv'
  BY <1>1, <1>4 DEF Inv, ApiInv, PutInv
<1>7. PausedInv'
  BY <1>4 DEF Inv, ApiInv, PausedInv, Paused
<1>8. RevisionInv'
  <2>1. \A r \in Callers : req'[r].revision <= NetId'
    BY <1>2, <1>4 DEF Inv, ApiInv, RevisionInv
  <2>2. ASSUME NEW r \in Callers, req'[r].pc = "applied" PROVE req'[r].revision < NetId'
    <3>1. CASE req[r].pc = "applying"
      BY <1>2, <1>4, <3>1 DEF Inv, ApiInv, RevisionInv, PausedInv
    <3>2. CASE req[r].pc # "applying"
      BY <1>2, <1>4, <2>2, <3>2 DEF Inv, ApiInv, RevisionInv
    <3> QED
      BY <3>1, <3>2
  <2>3. ASSUME NEW r \in Callers, NEW s \in Callers, req'[r].pc = "applied",
               req'[s].pc \in {"rechecked", "applying"}
        PROVE  req'[r].revision < req'[s].revision
    <3>1. req[s].pc = "rechecked"
      BY <1>4, <2>3
    <3>2. req[r].pc # "applying"
      BY <3>1 DEF Inv, ApiInv, PausedInv, Paused
    <3> QED
      BY <1>4, <2>3, <3>1, <3>2 DEF Inv, ApiInv, RevisionInv
  <2>4. ASSUME NEW r \in Callers, NEW s \in Callers, r # s, req'[r].pc = "applied",
               req'[s].pc = "applied"
        PROVE  req'[r].revision # req'[s].revision
    <3>1. \/ req[r].pc = "applying" /\ req[s].pc = "applied"
          \/ req[r].pc = "applied" /\ req[s].pc = "applying"
          \/ req[r].pc = "applied" /\ req[s].pc = "applied"
          \/ req[r].pc = "applying" /\ req[s].pc = "applying"
      BY <1>4, <2>4
    <3>2. ~(req[r].pc = "applying" /\ req[s].pc = "applying")
      BY <2>4 DEF Inv, ApiInv, PausedInv, Paused
    <3> QED
      BY <1>4, <2>4, <3>1, <3>2 DEF Inv, ApiInv, RevisionInv
  <2> QED
    BY <2>1, <2>2, <2>3, <2>4 DEF RevisionInv
<1> QED
  BY <1>5, <1>6, <1>7, <1>8 DEF ApiInv

\* Requests that end without having applied anything.
Reset(gone) ==
    /\ req' = [r \in Callers |-> IF r \in gone THEN NoRequest ELSE req[r]]
    /\ mutex' = mutex \/ (mutex' = {} /\ \A r \in Callers \ gone :
                                              req[r].pc \notin {"put", "renaming"})
    /\ op' = op \/ \A r \in Callers \ gone : req[r].pc # "applying"
    /\ NetId' \in Nat /\ NetId <= NetId'
    /\ desired' = desired \/ (/\ desired' \in Configs
                              /\ \A r \in Callers \ gone : req[r].pc # "renaming")
    /\ edits' = edits

LEMMA ResetKeepsApi ==
    ASSUME Inv, NEW gone \in SUBSET Callers, Reset(gone)
    PROVE  ApiInv'
<1> USE DEF Reset
<1>1. /\ NetId' \in Nat /\ NetId \in Nat /\ NetId <= NetId'
      /\ req \in [Callers -> RequestType] /\ \A r \in Callers : req[r].revision \in Nat
  BY NetIdFacts DEF Inv, ApiInv, ApiType, RequestType
<1>2. \A r \in Callers : /\ r \in gone => req'[r].pc = "idle" /\ req'[r].revision = 0
                         /\ r \notin gone => req'[r] = req[r]
  BY NoRequestFacts
<1>3. req' \in [Callers -> RequestType]
  BY <1>1, NoRequestFacts
<1>4. ApiType'
  BY <1>3 DEF Inv, ApiInv, ApiType, RequestType
<1>5. PutInv'
  BY <1>2 DEF Inv, ApiInv, PutInv
<1>6. PausedInv'
  BY <1>2 DEF Inv, ApiInv, PausedInv, Paused
<1>7. RevisionInv'
  BY <1>1, <1>2 DEF Inv, ApiInv, RevisionInv
<1> QED
  BY <1>4, <1>5, <1>6, <1>7 DEF ApiInv

LEMMA RefuseKeepsApi ==
    ASSUME Inv, NEW r \in Callers, Refuse(r), UNCHANGED <<clientVars, edits>>,
           mutex' = mutex \/ (mutex' = Free /\ req[r].pc \in {"put", "renaming"}),
           desired' = desired \/ (desired' \in Configs /\ req[r].pc = "renaming")
    PROVE  ApiInv'
<1>1. req \in [Callers -> RequestType]
  BY DEF Inv, ApiInv, ApiType, RequestType
<1>2. req' = [x \in Callers |-> IF x \in {r} THEN NoRequest ELSE req[x]]
  BY <1>1 DEF Refuse
<1>3. op' = op /\ NetId' \in Nat /\ NetId <= NetId'
  BY NetIdFacts DEF Inv, NetId, clientVars, database, journal
<1>4. \A x \in Callers \ {r} : req[r].pc \in {"put", "renaming"}
                                  => req[x].pc \notin {"put", "renaming"}
  BY DEF Inv, ApiInv, PutInv
<1>5. Reset({r})
  BY <1>2, <1>3, <1>4 DEF Reset, Free
<1> QED
  BY <1>5, ResetKeepsApi

LEMMA RollbackKeepsApi ==
    ASSUME Inv, ApiRollback
    PROVE  ApiInv'
<1>1. NetId' \in Nat /\ NetId <= NetId'
  BY NetIdFacts DEF Inv, NetId, ApiRollback, Rollback, database
<1>2. Reset(Applying) /\ Applying \in SUBSET Callers
  BY <1>1 DEF Reset, ApiRollback, Rollback, Applying
<1> QED
  BY <1>2, ResetKeepsApi

LEMMA CrashKeepsApi ==
    ASSUME Inv, ApiCrash
    PROVE  ApiInv'
<1>0. NetId' \in Nat /\ NetId <= NetId'
  <2>1. CASE Crash
    BY <2>1, NetIdFacts DEF Inv, NetId, Crash, database
  <2>2. CASE CommitUnfinished
    BY <2>2, CommitNetworks DEF Inv, CommitUnfinished
  <2> QED
    BY <2>1, <2>2 DEF ApiCrash
<1>1. desired' = desired /\ edits' = edits /\ NetId' \in Nat /\ NetId <= NetId'
  BY <1>0 DEF ApiCrash
<1>2. CASE Applying = {}
  <2>1. mutex' = mutex /\ req' = req /\ \A r \in Callers : req[r].pc # "applying"
    BY <1>2 DEF ApiCrash, Applying
  <2>2. req' = [r \in Callers |-> IF r \in {} THEN NoRequest ELSE req[r]]
    BY <2>1 DEF Inv, ApiInv, ApiType
  <2>3. Reset({})
    BY <1>1, <2>1, <2>2 DEF Reset
  <2> QED
    BY <2>3, ResetKeepsApi
<1>3. CASE Applying # {}
  <2>1. mutex' = {} /\ req' = [r \in Callers |-> IF r \in Callers THEN NoRequest ELSE req[r]]
    BY <1>3 DEF ApiCrash, Free
  <2>2. Reset(Callers)
    BY <1>1, <2>1 DEF Reset
  <2> QED
    BY <2>2, ResetKeepsApi
<1> QED
  BY <1>2, <1>3

\* One request moves on: what it must have seen, and what it may disturb.
Move(r, q) ==
    /\ req' = [req EXCEPT ![r] = q] /\ q \in RequestType
    /\ q.pc # "applied" /\ q.revision <= NetId
    /\ networks' = networks /\ edits' = edits
    /\ \/ mutex' = mutex
       \/ mutex = {} /\ mutex' = {r}
       \/ mutex = {r} /\ mutex' = {}
    /\ q.pc \in {"put", "renaming"} => mutex' = {r}
    /\ desired' = desired \/ (desired' \in Configs /\ req[r].pc = "renaming")
    /\ q.pc = "renaming" => desired' = q.digest /\ q.seen <= edits
    /\ q.pc \in {"rechecked", "applying"} =>
           \A s \in Callers : req[s].pc = "applied" => req[s].revision < q.revision
    /\ q.pc \in {"paused", "rechecked", "applying"} => \A s \in Callers \ {r} : ~Paused(s)
    /\ q.pc = "applying" => op'.kind = "config"
    /\ op' = op \/ \A s \in Callers \ {r} : req[s].pc # "applying"

LEMMA MoveKeepsApi ==
    ASSUME Inv, NEW r \in Callers, NEW q, Move(r, q)
    PROVE  ApiInv'
<1> USE DEF Move
<1>1. /\ NetId' = NetId /\ NetId \in Nat /\ req \in [Callers -> RequestType]
      /\ \A s \in Callers : req[s].revision \in Nat
      /\ mutex' \subseteq Callers
  BY NetIdFacts DEF Inv, ApiInv, ApiType, RequestType, NetId
<1>2. /\ req'[r] = q /\ \A s \in Callers \ {r} : req'[s] = req[s]
      /\ req' \in [Callers -> RequestType]
  BY <1>1
<1>3. ApiType'
  BY <1>1, <1>2 DEF Inv, ApiInv, ApiType, RequestType
<1>4. PutInv'
  BY <1>2 DEF Inv, ApiInv, PutInv
<1>5. PausedInv'
  BY <1>2 DEF Inv, ApiInv, PausedInv, Paused
<1>6. RevisionInv'
  BY <1>1, <1>2 DEF Inv, ApiInv, RevisionInv
<1> QED
  BY <1>3, <1>4, <1>5, <1>6 DEF ApiInv

-----------------------------------------------------------------------------
(* The requests.                                                           *)

\* Everything a request starts from.
LEMMA RequestFacts ==
    ASSUME Inv, NEW r \in Callers
    PROVE  /\ req \in [Callers -> RequestType] /\ req[r] \in RequestType
           /\ req[r].revision \in Nat /\ req[r].revision <= NetId /\ NetId \in Nat
           /\ desired \in Configs /\ edits \in 0..MaxEdits
           /\ req[r].pc \in {"put", "renaming"} => mutex = {r}
           /\ Paused(r) => \A s \in Callers \ {r} : ~Paused(s)
           /\ \A s \in Callers : req[s].pc = "applied" => req[s].revision < NetId
           /\ req[r].pc \in {"rechecked", "applying"} =>
                 \A s \in Callers : req[s].pc = "applied" => req[s].revision < req[r].revision
<1>1. /\ req \in [Callers -> RequestType] /\ desired \in Configs /\ edits \in 0..MaxEdits
  BY DEF Inv, ApiInv, ApiType, RequestType
<1>2. req[r] \in RequestType /\ req[r].revision \in Nat
  BY <1>1 DEF RequestType
<1>3. NetId \in Nat /\ req[r].revision <= NetId
  BY NetIdFacts DEF Inv, ApiInv, RevisionInv
<1>4. /\ req[r].pc \in {"put", "renaming"} => mutex = {r}
      /\ Paused(r) => \A s \in Callers \ {r} : ~Paused(s)
  BY DEF Inv, ApiInv, PutInv, PausedInv
<1>5. /\ \A s \in Callers : req[s].pc = "applied" => req[s].revision < NetId
      /\ req[r].pc \in {"rechecked", "applying"} =>
            \A s \in Callers : req[s].pc = "applied" => req[s].revision < req[r].revision
  BY DEF Inv, ApiInv, RevisionInv
<1> QED
  BY <1>1, <1>2, <1>3, <1>4, <1>5

LEMMA GetKeepsApi ==
    ASSUME Inv, NEW r \in Callers, Get(r)
    PROVE  ApiInv'
<1> DEFINE q == [NoRequest EXCEPT !.pc = "ready", !.digest = desired, !.revision = NetId]
<1>1. /\ req' = [req EXCEPT ![r] = q] /\ UNCHANGED <<desired, mutex, edits>> /\ focus = "api"
      /\ networks' = networks /\ op' = op
  BY DEF Get, clientVars, database, journal
<1>2. NetId \in Nat /\ NetId <= MaxNetworks["api"]
  BY <1>1, NetIdFacts DEF Inv
<1>3. q \in RequestType /\ q.pc = "ready" /\ q.revision = NetId
  <2>1. NetId \in 0..MaxNetworks["api"] /\ desired \in Configs
    BY <1>2, RequestFacts, BoundsAssumption DEF Onlookers
  <2> QED
    BY <2>1, NoRequestFacts DEF RequestType
<1> HIDE DEF q
<1>4. Move(r, q)
  BY <1>1, <1>2, <1>3 DEF Move
<1> QED
  BY <1>4, MoveKeepsApi

LEMMA PutStartKeepsApi ==
    ASSUME Inv, NEW r \in Callers, NEW n \in Configs, PutStart(r, n)
    PROVE  ApiInv'
<1> DEFINE q == [req[r] EXCEPT !.pc = "put", !.config = n]
<1>1. CASE desired # req[r].digest
  BY <1>1, RefuseKeepsApi DEF PutStart
<1>2. CASE desired = req[r].digest
  <2>1. /\ req' = [req EXCEPT ![r].pc = "put", ![r].config = n] /\ mutex = {} /\ mutex' = {r}
        /\ desired' = desired /\ edits' = edits /\ networks' = networks /\ op' = op
    BY <1>2 DEF PutStart, clientVars, database, journal, Free
  <2>2. req' = [req EXCEPT ![r] = q]
    BY <2>1, RequestFacts DEF RequestType
  <2>3. q \in RequestType /\ q.pc = "put" /\ q.revision = req[r].revision
    BY RequestFacts DEF RequestType
  <2> HIDE DEF q
  <2>4. Move(r, q)
    BY <2>1, <2>2, <2>3, RequestFacts DEF Move
  <2> QED
    BY <2>4, MoveKeepsApi
<1> QED
  BY <1>1, <1>2

LEMMA PutRecheckKeepsApi ==
    ASSUME Inv, NEW r \in Callers, PutRecheck(r)
    PROVE  ApiInv'
<1> DEFINE q == [req[r] EXCEPT !.pc = "renaming", !.seen = edits]
<1>1. CASE desired # req[r].digest
  BY <1>1, RefuseKeepsApi DEF PutRecheck
<1>2. CASE desired = req[r].digest
  <2>1. /\ req' = [req EXCEPT ![r].pc = "renaming", ![r].seen = edits] /\ mutex' = mutex
        /\ desired' = desired /\ edits' = edits /\ networks' = networks /\ op' = op
        /\ req[r].pc = "put"
    BY <1>2 DEF PutRecheck, clientVars, database, journal
  <2>2. req' = [req EXCEPT ![r] = q]
    BY <2>1, RequestFacts DEF RequestType
  <2>3. /\ q \in RequestType /\ q.pc = "renaming" /\ q.revision = req[r].revision
        /\ q.digest = req[r].digest /\ q.seen = edits
    BY RequestFacts DEF RequestType
  <2> HIDE DEF q
  <2>4. mutex = {r} /\ req[r].revision <= NetId /\ edits <= edits
    BY <2>1, RequestFacts
  <2>5. Move(r, q)
    BY <1>2, <2>1, <2>2, <2>3, <2>4 DEF Move
  <2> QED
    BY <2>5, MoveKeepsApi
<1> QED
  BY <1>1, <1>2

LEMMA PutRenameKeepsApi ==
    ASSUME Inv, NEW r \in Callers, PutRename(r)
    PROVE  ApiInv'
<1> DEFINE q == [NoRequest EXCEPT !.pc = "ready", !.digest = req[r].config,
                                  !.revision = req[r].revision]
<1>1. /\ req' = [req EXCEPT ![r] = q] /\ mutex' = {} /\ desired' = req[r].config
      /\ edits' = edits /\ networks' = networks /\ op' = op /\ req[r].pc = "renaming"
  BY DEF PutRename, clientVars, database, journal, Free
<1>2. /\ mutex = {r} /\ req[r].revision <= NetId /\ req[r].config \in Configs
      /\ req[r].revision \in 0..MaxNetworks["api"]
  BY <1>1, RequestFacts DEF RequestType
<1>3. q \in RequestType /\ q.pc = "ready" /\ q.revision = req[r].revision
  BY <1>2, NoRequestFacts DEF RequestType
<1> HIDE DEF q
<1>4. Move(r, q)
  BY <1>1, <1>2, <1>3 DEF Move
<1> QED
  BY <1>4, MoveKeepsApi

LEMMA PutFailsKeepsApi ==
    ASSUME Inv, NEW r \in Callers, PutFails(r)
    PROVE  ApiInv'
<1>1. req[r].config \in Configs
  BY RequestFacts DEF RequestType
<1> QED
  BY <1>1, RefuseKeepsApi DEF PutFails

\* A request that only advances its position in the apply.
LEMMA StepKeepsApi ==
    ASSUME Inv, NEW r \in Callers, NEW pc \in {"checked", "paused", "rechecked", "applying"},
           Moves(r, pc), UNCHANGED <<desired, mutex, edits>>, networks' = networks,
           pc \in {"rechecked", "applying"} =>
               \A s \in Callers : req[s].pc = "applied" => req[s].revision < req[r].revision,
           pc # "checked" => \A s \in Callers \ {r} : ~Paused(s),
           pc = "applying" => op'.kind = "config",
           op' = op \/ \A s \in Callers \ {r} : req[s].pc # "applying"
    PROVE  ApiInv'
<1> DEFINE q == [req[r] EXCEPT !.pc = pc]
<1>1. req' = [req EXCEPT ![r] = q]
  BY RequestFacts DEF Moves, RequestType
<1>2. q \in RequestType /\ q.pc = pc /\ q.revision = req[r].revision
  BY RequestFacts DEF RequestType
<1>3. req[r].revision <= NetId
  BY RequestFacts
<1> HIDE DEF q
<1>4. Move(r, q)
  BY <1>1, <1>2, <1>3 DEF Move
<1> QED
  BY <1>4, MoveKeepsApi

LEMMA ApplyCheckKeepsApi ==
    ASSUME Inv, NEW r \in Callers, ApplyCheck(r)
    PROVE  ApiInv'
<1>1. UNCHANGED <<clientVars, desired, mutex, edits>> /\ (Moves(r, "checked") \/ Refuse(r))
      /\ networks' = networks /\ op' = op
  BY DEF ApplyCheck, clientVars, database, journal
<1>2. CASE Moves(r, "checked")
  BY <1>1, <1>2, StepKeepsApi
<1>3. CASE Refuse(r)
  BY <1>1, <1>3, RefuseKeepsApi
<1> QED
  BY <1>1, <1>2, <1>3

LEMMA ApplyPauseKeepsApi ==
    ASSUME Inv, NEW r \in Callers, ApplyPause(r)
    PROVE  ApiInv'
<1>1. /\ UNCHANGED <<clientVars, desired, mutex, edits>> /\ networks' = networks /\ op' = op
      /\ \/ Moves(r, "paused") /\ \A s \in Callers : ~Paused(s)
         \/ Refuse(r)
  BY DEF ApplyPause, clientVars, database, journal
<1>2. CASE Moves(r, "paused") /\ \A s \in Callers : ~Paused(s)
  BY <1>1, <1>2, StepKeepsApi
<1>3. CASE Refuse(r)
  BY <1>1, <1>3, RefuseKeepsApi
<1> QED
  BY <1>1, <1>2, <1>3

\* The second look finds the revision of the request still in use, and with it
\* none that was applied under it.
LEMMA ApplyRecheckKeepsApi ==
    ASSUME Inv, NEW r \in Callers, ApplyRecheck(r)
    PROVE  ApiInv'
<1>1. /\ UNCHANGED <<clientVars, desired, mutex, edits>> /\ networks' = networks /\ op' = op
      /\ req[r].pc = "paused"
      /\ \/ Moves(r, "rechecked") /\ NetId = req[r].revision
         \/ Refuse(r)
  BY DEF ApplyRecheck, LoadConfigState, clientVars, database, journal
<1>2. CASE Moves(r, "rechecked") /\ NetId = req[r].revision
  <2>1. \A s \in Callers \ {r} : ~Paused(s)
    BY <1>1, RequestFacts DEF Paused
  <2>2. \A s \in Callers : req[s].pc = "applied" => req[s].revision < req[r].revision
    BY <1>2, RequestFacts
  <2> QED
    BY <1>1, <1>2, <2>1, <2>2, StepKeepsApi
<1>3. CASE Refuse(r)
  BY <1>1, <1>3, RefuseKeepsApi
<1> QED
  BY <1>1, <1>2, <1>3

LEMMA ApplyBeginKeepsApi ==
    ASSUME Inv, NEW r \in Callers, ApplyBegin(r)
    PROVE  ApiInv'
<1>1. /\ req[r].pc = "rechecked" /\ Moves(r, "applying") /\ UNCHANGED <<desired, mutex, edits>>
      /\ ApplyConfiguration(req[r].digest)
  BY DEF ApplyBegin
<1>2. PICK f \in RemapPlans(req[r].digest) : Begin(PlanConfiguration(req[r].digest, f))
  BY <1>1 DEF ApplyConfiguration
<1>3. networks' = networks /\ op'.kind = "config"
  <2> DEFINE p == PlanConfiguration(req[r].digest, f)
  <2>1. DOMAIN p = PlanFields /\ p.kind = "config"
    BY DEF PlanConfiguration, NoPlan, PlanFields
  <2> HIDE DEF p
  <2>2. Begin(p)
    BY <1>2 DEF p
  <2> QED
    BY <2>1, <2>2, BeginFields DEF Kinds
<1>4. \A s \in Callers \ {r} : ~Paused(s) /\ req[s].pc # "applying"
  BY <1>1, RequestFacts DEF Paused
<1>5. \A s \in Callers : req[s].pc = "applied" => req[s].revision < req[r].revision
  BY <1>1, RequestFacts
<1> QED
  BY <1>1, <1>3, <1>4, <1>5, StepKeepsApi

LEMMA RequestKeeps ==
    ASSUME Inv, NEW r \in Callers, Request(r)
    PROVE  Inv'
<1>1. ApiInv'
  <2>1. ASSUME ApplyRefused(r) PROVE ApiInv'
    BY <2>1, RefuseKeepsApi DEF ApplyRefused
  <2> QED
    BY <2>1, GetKeepsApi, PutStartKeepsApi, PutRecheckKeepsApi, PutRenameKeepsApi,
       PutFailsKeepsApi, ApplyCheckKeepsApi, ApplyPauseKeepsApi, ApplyRecheckKeepsApi,
       ApplyBeginKeepsApi DEF Request
<1>2. ClientsInv'
  <2>1. CASE ApplyBegin(r)
    <3>1. req[r].digest \in Configs
      BY RequestFacts DEF RequestType
    <3> QED
      BY <2>1, <3>1, ApplyInv DEF Inv, ApplyBegin
  <2>2. CASE ~ApplyBegin(r)
    <3>1. UNCHANGED clientVars
      BY <2>2 DEF Request, Get, PutStart, PutRecheck, PutRename, PutFails, ApplyCheck, ApplyPause,
                  ApplyRecheck, ApplyRefused
    <3> QED
      BY <3>1, ClientsStutter DEF Inv
  <2> QED
    BY <2>1, <2>2
<1> QED
  BY <1>1, <1>2 DEF Inv

LEMMA EditKeeps ==
    ASSUME Inv, NEW n \in Configs, Edit(n)
    PROVE  Inv'
<1>1. /\ desired' = n /\ edits < MaxEdits /\ edits' = edits + 1 /\ UNCHANGED <<req, mutex>>
      /\ UNCHANGED clientVars /\ networks' = networks /\ op' = op /\ NetId' = NetId
  BY DEF Edit, clientVars, database, journal, NetId
<1>2. edits \in 0..MaxEdits /\ MaxEdits \in Nat
  BY EditsAssumption DEF Inv, ApiInv, ApiType
<1>3. \A r \in Callers : req[r].seen \in Nat
  BY DEF Inv, ApiInv, ApiType
<1>4. ApiType' /\ PausedInv' /\ RevisionInv'
  BY <1>1, <1>2 DEF Inv, ApiInv, ApiType, PausedInv, Paused, RevisionInv
<1>5. PutInv'
  BY <1>1, <1>2, <1>3 DEF Inv, ApiInv, PutInv
<1> QED
  BY <1>1, <1>4, <1>5, ClientsStutter DEF Inv, ApiInv

\* Inv is inductive.
LEMMA NextInv ==
    ASSUME Inv, [Next]_vars
    PROVE  Inv'
<1>1. ASSUME ClientsStep, UNCHANGED apiVars PROVE Inv'
  BY <1>1, ClientsStepInv, StepKeepsOpen, ClientsKeepApi DEF Inv
<1>2. ASSUME ApiCommit PROVE Inv'
  BY <1>2, CommitInv, CommitKeepsApi DEF Inv, ApiCommit
<1>3. ASSUME ApiRollback PROVE Inv'
  BY <1>3, RollbackInv, RollbackKeepsApi DEF Inv, ApiRollback
<1>4. ASSUME ApiCrash PROVE Inv'
  BY <1>4, CrashInv, CommitInv, CrashKeepsApi DEF Inv, ApiCrash
<1>5. ASSUME UNCHANGED vars PROVE Inv'
  <2>1. UNCHANGED clientVars /\ UNCHANGED apiVars /\ networks' = networks /\ op' = op
    BY <1>5 DEF vars, clientVars, database, journal
  <2> QED
    BY <2>1, ClientsStutter, ClientsKeepApi DEF Inv
<1> QED
  BY <1>1, <1>2, <1>3, <1>4, <1>5, RequestKeeps, EditKeeps DEF Next

-----------------------------------------------------------------------------
(***************************************************************************)
(* The theorems.                                                           *)
(***************************************************************************)
\* The database, what an open mutation's commit would leave, the files before,
\* during and after it, the sessions, the kicks and the API's requests, in
\* every behaviour.
THEOREM Invariance == Spec => []Inv
<1>1. Init => Inv
  BY ApiInit
<1>2. Inv /\ [Next]_vars => Inv'
  BY NextInv
<1> QED
  BY <1>1, <1>2, PTL DEF Spec

\* Every variable has its type.
THEOREM TypeCorrect == Spec => []TypeOK
<1>1. Inv => TypeOK
  BY TypeInvariant DEF Inv, ApiInv, ApiType, TypeOK
<1> QED
  BY <1>1, Invariance, PTL

\* LoadClient accepts every client as SQLite has it, although RecordLease runs
\* without the data lock beside the transactions that move assignments.
THEOREM AlwaysLoadable == Spec => []ClientsLoadable
<1>1. Inv => ClientsLoadable
  BY LoadableInvariant DEF Inv
<1> QED
  BY <1>1, Invariance, PTL

\* No address is held twice, by assignments and leases of any clients.
THEOREM AlwaysDisjoint == Spec => []AddressesDisjoint
<1>1. Inv => AddressesDisjoint
  BY DisjointInvariant DEF Inv
<1> QED
  BY <1>1, Invariance, PTL

\* What was planned under the lock passes the checks of its transaction.
THEOREM AlwaysAccepted == Spec => []PlanIsAccepted
<1>1. Inv => PlanIsAccepted
  BY AcceptedInvariant DEF Inv
<1> QED
  BY <1>1, Invariance, PTL

\* With no mutation open ccd/, clients/ and pki/ say what SQLite says, after any
\* sequence of mutations, rollbacks, crashes, failed cleanups and recoveries, and
\* no more PKI copies are left than crashes and failed cleanups.
THEOREM FilesMatch == Spec => []FilesMatchDatabase
<1>1. Inv => FilesMatchDatabase
  BY FilesInvariant DEF Inv
<1> QED
  BY <1>1, Invariance, PTL

\* No session has a certificate that was revoked when a disconnect of its
\* client succeeded.
THEOREM RevokedOut == Spec => []RevokedStayOut
<1>1. Inv => RevokedStayOut
  BY DEF Inv, ClientsInv, KickInv
<1> QED
  BY <1>1, Invariance, PTL

\* Of the API applies that name the same revision one commits.
THEOREM OneApply == Spec => []OneApplyPerRevision
<1>1. ASSUME Inv PROVE OneApplyPerRevision
  <2> SUFFICES ASSUME NEW r \in Callers, NEW s \in Callers, r # s,
                      req[r].pc \in {"applying", "applied"}, req[s].pc \in {"applying", "applied"}
               PROVE  req[r].revision # req[s].revision
    BY DEF OneApplyPerRevision
  <2>1. req[r].revision \in Nat /\ req[s].revision \in Nat
    BY <1>1, RequestFacts
  <2>2. ~(req[r].pc = "applying" /\ req[s].pc = "applying")
    BY <1>1 DEF Inv, ApiInv, PausedInv, Paused
  <2> QED
    BY <1>1, <2>1, <2>2 DEF Inv, ApiInv, RevisionInv
<1>2. Inv => OneApplyPerRevision
  BY <1>1
<1> QED
  BY <1>2, Invariance, PTL

-----------------------------------------------------------------------------
(* What a step may never do.                                               *)

\* A configuration change keeps the kind and the state of every assignment and
\* every static address that is valid in the new network.
THEOREM RemapPreservesAlways == Spec => RemapPreserves
<1> DEFINE A == networks' # networks =>
                  \A c \in Ids :
                      /\ asg'[c].kind = asg[c].kind
                      /\ asg'[c].status = asg[c].status
                      /\ (asg[c].kind = "static" /\ asg[c].addr \in StaticRange(networks'[Len(networks')]))
                            => asg'[c].addr = asg[c].addr
<1>1. ASSUME Inv, CommitState PROVE A
  <2>1. /\ op # NoOp /\ asg' = AsgAfter /\ networks' = NetsAfter /\ RemapFollows
        /\ networks \in Seq(Configs)
    BY <1>1, NetIdFacts DEF CommitState, AsgAfter, NetsAfter, Inv, ClientsInv, PlanInv
  <2>2. networks' # networks => op.nets # << >>
    BY <2>1, NoNets DEF NetsAfter
  <2> QED
    BY <2>1, <2>2 DEF RemapFollows
<1>2. ASSUME Inv, Next, networks' # networks PROVE CommitState
  <2>1. ASSUME NEW r \in Callers, Request(r) PROVE networks' = networks
    BY <2>1, BeginOpens DEF Request, Get, PutStart, PutRecheck, PutRename, PutFails, ApplyCheck,
       ApplyPause, ApplyRecheck, ApplyRefused, ApplyBegin, ApplyConfiguration, clientVars, database
  <2>2. ASSUME ApiRollback \/ Crash PROVE networks' = networks
    BY <2>2 DEF ApiRollback, Rollback, Crash, database
  <2>3. ASSUME NEW n \in Configs, Edit(n) PROVE networks' = networks
    BY <2>3 DEF Edit, clientVars, database
  <2> QED
    BY <1>2, <2>1, <2>2, <2>3, StepKeepsOpen DEF Next, ApiCommit, ApiCrash, Commit, CommitUnfinished
<1>3. ASSUME Inv, [Next]_vars PROVE [A]_clientVars
  <2>1. CASE UNCHANGED vars
    BY <2>1 DEF vars
  <2>2. CASE Next /\ networks' # networks
    BY <1>1, <1>2, <1>3, <2>2
  <2>3. CASE networks' = networks
    BY <2>3
  <2> QED
    BY <1>3, <2>1, <2>2, <2>3
<1>4. Inv /\ [Next]_vars => [A]_clientVars
  BY <1>3
<1> QED
  BY <1>4, Invariance, PTL DEF Spec, RemapPreserves

\* An export gives no certificate that a committed mutation had revoked when
\* the file was read, with no lock and whatever was committed, rolled back or
\* left by a crash since its selection.
THEOREM ExportsUnrevokedAlways == Spec => ExportsUnrevoked
<1> DEFINE A == exporter.pc = "selected" /\ exporter'.pc = "exported"
                  => <<exporter'.file.id, exporter'.file.gen>> \notin CommittedCrl
<1>1. ASSUME Inv, ExportRead PROVE A
  <2> SUFFICES ASSUME exporter.pc = "selected", exporter'.pc = "exported"
               PROVE  <<exporter'.file.id, exporter'.file.gen>> \notin CommittedCrl
    OBVIOUS
  <2>1. exporter' = [pc |-> "exported", id |-> exporter.id, file |-> ExportedFile]
    BY <1>1 DEF ExportRead
  <2>2. exporter.profile.dir = "active" /\ exporter.profile.name \in Names
    BY <1>1 DEF Inv, ClientsInv, ExportInv
  <2>3. exporter'.file = disk.profile[<<"active", exporter.profile.name>>]
    BY <2>1, <2>2 DEF ExportedFile
  <2>4. ActiveUnrevoked(disk, CommittedCrl)
    BY <1>1, ActiveInvariant DEF Inv
  <2> QED
    BY <2>2, <2>3, <2>4 DEF ActiveUnrevoked
<1>2. ASSUME Next, ~ExportRead, exporter.pc = "selected" PROVE exporter' = exporter
  <2>1. ASSUME Mutation PROVE exporter' = exporter
    BY <2>1 DEF Mutation, Create, Rename, Revoke, Reissue, Delete, AddressSet, AddressRelease,
       AddressEdit, ApplyConfiguration, ConfirmDelete, DeleteConfirmed, onlooker
  <2>2. ASSUME ClientsStep, ~Mutation PROVE exporter' = exporter
    BY <1>2, <2>2 DEF ClientsStep, Recover, Connect, SessionEnd, HookAssignment, HookLease,
       HookRefused, HookAccepts, HookFails, Reconcile, RuntimeDisconnect, Disconnect,
       ReconcilePending, ExportSelect, onlooker
  <2>3. ASSUME ApiCommit \/ ApiRollback \/ ApiCrash PROVE exporter' = exporter
    BY <2>3 DEF ApiCommit, ApiRollback, ApiCrash, Commit, CommitUnfinished, Rollback, Crash, onlooker
  <2>4. ASSUME NEW r \in Callers, Request(r) PROVE exporter' = exporter
    BY <2>4 DEF Request, Get, PutStart, PutRecheck, PutRename, PutFails, ApplyCheck,
       ApplyPause, ApplyRecheck, ApplyRefused, ApplyBegin, ApplyConfiguration, clientVars, onlooker
  <2>5. ASSUME NEW n \in Configs, Edit(n) PROVE exporter' = exporter
    BY <2>5 DEF Edit, clientVars, onlooker
  <2> QED
    BY <1>2, <2>1, <2>2, <2>3, <2>4, <2>5 DEF Next
<1>3. ASSUME Inv, [Next]_vars PROVE [A]_clientVars
  <2>1. CASE UNCHANGED vars
    BY <2>1 DEF vars
  <2>2. CASE Next /\ ExportRead
    BY <1>1, <1>3, <2>2
  <2>3. CASE Next /\ ~ExportRead
    <3>1. ASSUME exporter.pc = "selected", exporter'.pc = "exported" PROVE FALSE
      BY <1>2, <2>3, <3>1
    <3> QED
      BY <3>1
  <2> QED
    BY <1>3, <2>1, <2>2, <2>3
<1>4. Inv /\ [Next]_vars => [A]_clientVars
  BY <1>3
<1> QED
  BY <1>4, Invariance, PTL DEF Spec, ExportsUnrevoked

\* A PUT replaces the configuration its If-Match named, unless config.yaml was
\* edited by hand after UpdateDesiredFile's second comparison.
THEOREM PutsReplace == Spec => PutsReplaceWhatTheySaw
<1>1. ASSUME Inv
      PROVE  \A r \in Callers : (/\ req[r].pc = "renaming" /\ req'[r].pc # "renaming"
                                 /\ desired' # desired)
                                   => desired = req[r].digest \/ edits > req[r].seen
  BY <1>1 DEF Inv, ApiInv, PutInv
<1>2. Inv /\ [Next]_vars =>
        [\A r \in Callers : (req[r].pc = "renaming" /\ req'[r].pc # "renaming" /\ desired' # desired)
           => desired = req[r].digest \/ edits > req[r].seen]_vars
  BY <1>1
<1> QED
  BY <1>2, Invariance, PTL DEF Spec, PutsReplaceWhatTheySaw
==============================================================================
