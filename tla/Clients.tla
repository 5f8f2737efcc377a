------------------------------- MODULE Clients -------------------------------
(***************************************************************************)
(* VPN clients: the lifecycle and address mutations (client/, their        *)
(* transactions in store/sqlite/), a configuration change that remaps      *)
(* addresses (configuration/), and those who look on without the data      *)
(* lock: the OpenVPN hook that records leases (hook/), profile export, the *)
(* CLI that asks before it deletes and disconnects after it commits        *)
(* (cli/client.go), and OpenVPN itself (external).                         *)
(*                                                                         *)
(* A mutation holds the data lock from its first read to its end.  It is   *)
(* two steps here, because others see its files before its transaction:    *)
(* the files are installed, then SQLite commits (OperationJournal has the  *)
(* steps in between).  It may fail and roll back, crash and be rolled back *)
(* by RecoverOperations, or commit and then fail to clean up; the          *)
(* administrator is assumed to let the server recover before the next      *)
(* mutation (journal_overlap shows what happens otherwise).                *)
(***************************************************************************)
EXTENDS Ipam, Sequences, FiniteSets

CONSTANTS
    Ids,         \* client UUIDs, never reused
    Names,       \* client names; numbers, for their order
    Configs,     \* networks the configuration file may ask for
    Initial,     \* the network the instance was initialised with
    Asked,       \* bound: the static addresses an administrator asks for
    MaxIssues,   \* bound on the certificates of one client
    MaxNetworks, \* bound on the networks ever applied, by onlooker
    MaxOps,      \* bound on mutations, by onlooker
    MaxFaults    \* bound on crashes and failed cleanups of mutations

\* A bound on interleaving: besides the mutations a behaviour has either
\* OpenVPN with its hook and the kicks, or an export, or a confirmed delete,
\* or the configuration requests of ConfigApi.
Onlookers == {"openvpn", "export", "delete", "api"}

ASSUME NamesAssumption == Names \subseteq Nat \ {0}

ASSUME ConfigsAssumption ==
    /\ Initial \in Configs
    /\ \A n \in Configs : ValidNetwork(n)

ASSUME BoundsAssumption ==
    /\ MaxIssues \in Nat \ {0} /\ MaxFaults \in Nat
    /\ MaxOps \in [Onlookers -> Nat] /\ MaxNetworks \in [Onlookers -> Nat \ {0}]

VARIABLES
    row,         \* clients: status and current name
    asg,         \* address_assignments: the current one of each client
    lease,       \* client_leases
    networks,    \* networks, the last one is enabled
    meta,        \* artifacts: the active profile and CCD metadata of a client
    disk,        \* ccd/, clients/, pki/: what is installed
    op,          \* the mutation that holds the data lock
    pending,     \* a crashed mutation the journal still lists
    workspaces,  \* .client-work-* directories
    count,       \* mutations begun and faults so far
    session,     \* OpenVPN's session of a client
    hook,        \* the client-connect hook OpenVPN waits for
    exporter,    \* a profile export
    confirmed,   \* the delete an administrator has confirmed, and its effect
    kicks,       \* clients the CLI has yet to disconnect
    kicked,      \* history: a client's certificates revoked when a kick succeeded
    focus        \* bound: the onlooker of this behaviour, see Onlookers

database == <<row, asg, lease, networks, meta>>
journal  == <<op, pending, workspaces, count>>
runtime  == <<session, hook, kicks, kicked>>
onlooker == <<exporter, confirmed, focus>>
clientVars == <<database, disk, journal, runtime, onlooker>>

Current   == {"active", "revoked"}
NoName    == 0
NoAddress == 0
NoAsg     == [kind |-> "none", addr |-> NoAddress, status |-> "released", net |-> 0]
NoLease   == [addr |-> NoAddress, net |-> 0]
NoProfile == [dir |-> "none", name |-> NoName, gen |-> 0]
NoFile    == [id |-> "none", gen |-> 0]
NoOp      == [kind |-> "none"]
NoHook    == [pc |-> "idle"]
NoExport  == [pc |-> "idle"]
NoSession == [state |-> "none", gen |-> 0]

NetId     == Len(networks)
Network   == networks[NetId]
Addresses == UNION {(n.base + 2)..(n.base + n.total - 2) : n \in Configs}

\* f with the values of g where g is defined.
Override(f, g) == [x \in DOMAIN f |-> IF x \in DOMAIN g THEN g[x] ELSE f[x]]
One(c, v) == [x \in {c} |-> v]

Listed == {c \in Ids : row[c].status \in Current}
Active == {c \in Ids : row[c].status = "active"}

\* clients/active or clients/revoked.
Directory(status) == IF status = "revoked" THEN "revoked" ELSE "active"

ClientsTypeOK ==
    /\ row \in [Ids -> [status : {"unused", "active", "revoked", "deleted"},
                        name : Names \cup {NoName}]]
    /\ asg \in [Ids -> [kind : {"none", "dynamic", "static"},
                        addr : Addresses \cup {NoAddress},
                        status : {"active", "retained", "released"},
                        net : 0..MaxNetworks[focus]]]
    /\ lease \in [Ids -> [addr : Addresses \cup {NoAddress}, net : 0..MaxNetworks[focus]]]
    /\ networks \in Seq(Configs) /\ NetId \in 1..MaxNetworks[focus]
    /\ DOMAIN meta = Ids
    /\ DOMAIN disk = {"ccd", "profile", "issued", "crl"}
    /\ disk.issued \in [Ids -> 0..MaxIssues]
    /\ disk.crl \subseteq Ids \X (1..MaxIssues)
    /\ op.kind \in {"none", "create", "rename", "revoke", "reissue", "delete",
                    "set", "edit", "release", "config"}
    /\ session \in [Ids -> [state : {"none", "verified", "up"}, gen : 0..MaxIssues]]
    /\ hook.pc \in {"idle", "assigned", "loaded"}
    /\ exporter.pc \in {"idle", "selected", "exported", "failed"}
    /\ kicks \subseteq Ids
    /\ kicked \in [Ids -> SUBSET (1..MaxIssues)]
    /\ focus \in Onlookers

ClientsInit ==
    /\ row = [c \in Ids |-> [status |-> "unused", name |-> NoName]]
    /\ asg = [c \in Ids |-> NoAsg]
    /\ lease = [c \in Ids |-> NoLease]
    /\ networks = <<Initial>>
    /\ meta = [c \in Ids |-> [profile |-> NoProfile, ccd |-> NoAddress]]
    /\ disk = [ccd     |-> [c \in Ids |-> NoAddress],
               profile |-> [k \in {"active", "revoked"} \X Names |-> NoFile],
               issued  |-> [c \in Ids |-> 0],
               crl     |-> {}]
    /\ op = NoOp /\ pending = NoOp
    /\ workspaces = 0
    /\ count = [ops |-> 0, faults |-> 0]
    /\ session = [c \in Ids |-> NoSession]
    /\ hook = NoHook
    /\ exporter = NoExport
    /\ confirmed = [name |-> NoName, id |-> "none", deleted |-> "none"]
    /\ kicks = {}
    /\ kicked = [c \in Ids |-> {}]
    /\ focus \in Onlookers

-----------------------------------------------------------------------------
(***************************************************************************)
(* Planning under the data lock.                                           *)
(***************************************************************************)
Dynamic   == [mode |-> "dynamic", addr |-> NoAddress]
Automatic == [mode |-> "auto", addr |-> NoAddress]
Keep      == [mode |-> "keep", addr |-> NoAddress]
Explicit(a) == [mode |-> "static", addr |-> a]

\* What --ipv4 may say; an address outside the static region is refused.
Selections == {Dynamic, Automatic} \cup {Explicit(a) : a \in Asked \cap StaticRange(Network)}

Assignment(kind, a) == [kind |-> kind, addr |-> a, status |-> "active", net |-> NetId]

\* (Variant: addresses retained by revoked clients are forgotten.)
StaticOfActive(cs) ==
    {asg[c].addr : c \in {x \in cs : asg[x].kind = "static" /\ x \in Active}}

StaticOf(cs) == {asg[c].addr : c \in {x \in cs : asg[x].kind = "static"}}

\* planCreateAssignment: none when it is refused.
PlanAssignment(used, sel) ==
    CASE sel.mode = "dynamic" ->
            IF DynamicRange(Network) = {} THEN {}
                                          ELSE {Assignment("dynamic", NoAddress)}
      [] sel.mode = "auto" ->
            {Assignment("static", a) : a \in NextStatic(Network, used)}
      [] sel.mode = "static" ->
            {Assignment("static", a) :
                a \in ({sel.addr} \cap StaticRange(Network)) \ used}

\* planReissueAssignment: without --ipv4 the current assignment is kept.
PlanReissueAssignment(c, sel) ==
    IF sel = Keep /\ asg[c] # NoAsg
    THEN {[asg[c] EXCEPT !.status = "active"]}
    ELSE PlanAssignment(StaticOf(Listed \ {c}), IF sel = Keep THEN Automatic ELSE sel)

\* What an address change may give: anything of the network in use.
Assignments == {Assignment("dynamic", NoAddress)}
               \cup {Assignment("static", a) : a \in StaticRange(Network)}

\* applyAddressesLocked: the targets in the order of their names; an address
\* given earlier in the batch is used.  None when one of them is refused.
AddressPlans(targets, sels) ==
    {as \in [targets -> Assignments] :
        \A c \in targets :
            LET earlier == {as[d].addr : d \in {x \in targets : row[x].name < row[c].name}}
            IN  as[c] \in PlanAssignment((StaticOf(Listed \ targets) \cup earlier) \ {NoAddress},
                                        sels[c])}

\* CommitClientAddressOperation inserts by the status of the client.
ForStatus(c, a) ==
    [a EXCEPT !.status = IF row[c].status = "active" THEN "active" ELSE "retained"]

\* verifyCurrentProfile: exactly the recorded file.
CurrentProfile(c) ==
    LET p == meta[c].profile
    IN  /\ p = [dir |-> Directory(row[c].status), name |-> row[c].name, gen |-> p.gen]
        /\ disk.profile[<<p.dir, p.name>>] = [id |-> c, gen |-> p.gen]

\* (Variant: whatever the status of the client.)
CcdOfAny(c, a) == IF row[c].status \in Current THEN a.addr ELSE NoAddress

\* ccd/<id> after an address change of c, and its metadata.
CcdOf(c, a) == IF row[c].status = "active" THEN a.addr ELSE NoAddress

-----------------------------------------------------------------------------
(***************************************************************************)
(* Mutations.  Begin takes the lock, prepares the journal entry, stages    *)
(* and installs the files.  A plan p has the new rows, assignments and     *)
(* metadata of the clients it changes, those whose lease goes, the network *)
(* it adds, the files, and the sessions that have to be disconnected.      *)
(***************************************************************************)
\* They work on a copy of pki/ in .client-work-<operation>; the directory
\* .client-address-<operation> of an address change stays empty.
Cloning == {"create", "revoke", "reissue", "delete"}

\* The data lock is free, and so is the journal.
Lock == op = NoOp /\ pending = NoOp /\ count.ops < MaxOps[focus]

Begin(p) ==
    /\ Lock
    /\ count' = [count EXCEPT !.ops = @ + 1]
    /\ op' = [p EXCEPT !.source = [c \in DOMAIN p.rows |-> row[c]], !.before = disk]
    /\ disk' = p.files
    /\ workspaces' = IF p.kind \in Cloning THEN workspaces + 1 ELSE workspaces
    /\ UNCHANGED <<database, pending>>

NoPlan(kind) ==
    [kind |-> kind, rows |-> << >>, asgs |-> << >>, meta |-> << >>, clear |-> {},
     nets |-> << >>, files |-> disk, kick |-> {}, source |-> << >>, before |-> disk]

PlanCreate(c, n, a) ==
    [NoPlan("create") EXCEPT
        !.rows = One(c, [status |-> "active", name |-> n]),
        !.asgs = One(c, a),
        !.meta = One(c, [profile |-> [dir |-> "active", name |-> n, gen |-> 1],
                         ccd |-> a.addr]),
        !.files = [disk EXCEPT !.ccd[c] = a.addr, !.issued[c] = 1,
                               !.profile[<<"active", n>>] = [id |-> c, gen |-> 1]]]

Create(c, n, sel) ==
    /\ Lock
    /\ row[c].status = "unused"
    /\ \A x \in Listed : row[x].name # n
    /\ \E a \in PlanAssignment(StaticOf(Listed), sel) : Begin(PlanCreate(c, n, a))
    /\ UNCHANGED <<runtime, onlooker>>

PlanRename(c, n) ==
    LET p == meta[c].profile
    IN  [NoPlan("rename") EXCEPT
            !.rows = One(c, [row[c] EXCEPT !.name = n]),
            !.meta = One(c, [meta[c] EXCEPT !.profile.name = n]),
            !.files = [disk EXCEPT
                !.profile[<<p.dir, p.name>>] = NoFile,
                !.profile[<<p.dir, n>>] = [id |-> c, gen |-> disk.issued[c]]]]

\* A rename to the same name returns at once.
Rename(c, n) ==
    /\ Lock
    /\ c \in Listed
    /\ \A x \in Listed : row[x].name # n
    /\ CurrentProfile(c)
    /\ Begin(PlanRename(c, n))
    /\ UNCHANGED <<runtime, onlooker>>

\* (Variant: the profile is copied to clients/revoked, not moved.)
PlanRevokeCopied(c, release) ==
    LET p == meta[c].profile
    IN  [NoPlan("revoke") EXCEPT
            !.rows = One(c, [row[c] EXCEPT !.status = "revoked"]),
            !.asgs = One(c, IF release \/ asg[c] = NoAsg THEN NoAsg
                            ELSE [asg[c] EXCEPT !.status = "retained"]),
            !.meta = One(c, [profile |-> [p EXCEPT !.dir = "revoked"], ccd |-> NoAddress]),
            !.clear = {c},
            !.kick = {c},
            !.files = [disk EXCEPT
                !.crl = @ \cup {<<c, disk.issued[c]>>},
                !.profile[<<"revoked", p.name>>] = disk.profile[<<"active", p.name>>],
                !.ccd[c] = IF meta[c].ccd # NoAddress THEN NoAddress ELSE @]]

PlanRevoke(c, release) ==
    LET p == meta[c].profile
    IN  [NoPlan("revoke") EXCEPT
            !.rows = One(c, [row[c] EXCEPT !.status = "revoked"]),
            !.asgs = One(c, IF release \/ asg[c] = NoAsg THEN NoAsg
                            ELSE [asg[c] EXCEPT !.status = "retained"]),
            !.meta = One(c, [profile |-> [p EXCEPT !.dir = "revoked"], ccd |-> NoAddress]),
            !.clear = {c},
            !.kick = {c},
            !.files = [disk EXCEPT
                !.crl = @ \cup {<<c, disk.issued[c]>>},
                !.profile[<<"active", p.name>>] = NoFile,
                !.profile[<<"revoked", p.name>>] = disk.profile[<<"active", p.name>>],
                !.ccd[c] = IF meta[c].ccd # NoAddress THEN NoAddress ELSE @]]

Revoke(c, release) ==
    /\ Lock
    /\ c \in Active
    /\ CurrentProfile(c)
    /\ Begin(PlanRevoke(c, release))
    /\ UNCHANGED <<runtime, onlooker>>

\* (Variant: what a revoked client had is valid again.)
CrlAfterRestored(c) ==
    IF c \in Active THEN disk.crl \cup {<<c, disk.issued[c]>>}
                    ELSE disk.crl \ {<<c, disk.issued[c]>>}

\* RevokeClient runs for an active client only.
CrlAfter(c) ==
    IF c \in Active THEN disk.crl \cup {<<c, disk.issued[c]>>} ELSE disk.crl

\* The CCD metadata after a reissue: written with the file or deleted with it.
ReissuedCcd(c, a) == a.addr

\* Reissue an active client (whose old certificate is revoked) or a revoked
\* one.
PlanReissue(c, a) ==
    LET g == disk.issued[c] + 1
        n == row[c].name
    IN  [NoPlan("reissue") EXCEPT
            !.rows = One(c, [row[c] EXCEPT !.status = "active"]),
            !.asgs = One(c, a),
            !.meta = One(c, [profile |-> [dir |-> "active", name |-> n, gen |-> g],
                             ccd |-> ReissuedCcd(c, a)]),
            !.clear = {c},
            !.kick = {c},
            !.files = [disk EXCEPT
                !.issued[c] = g,
                !.crl = CrlAfter(c),
                !.profile[<<"revoked", n>>] = IF c \in Active THEN @ ELSE NoFile,
                !.profile[<<"active", n>>] = [id |-> c, gen |-> g],
                !.ccd[c] = IF a.kind = "static" \/ meta[c].ccd # NoAddress THEN a.addr ELSE @]]

Reissue(c, sel) ==
    /\ Lock
    /\ c \in Listed
    /\ disk.issued[c] < MaxIssues
    /\ \E a \in PlanReissueAssignment(c, sel) : Begin(PlanReissue(c, a))
    /\ UNCHANGED <<runtime, onlooker>>

\* The row stays as a tombstone that keeps the name free for others.
PlanDelete(c) ==
    LET p == meta[c].profile
    IN  [NoPlan("delete") EXCEPT
            !.rows = One(c, [row[c] EXCEPT !.status = "deleted"]),
            !.asgs = One(c, NoAsg),
            !.meta = One(c, [profile |-> NoProfile, ccd |-> NoAddress]),
            !.clear = {c},
            !.kick = {c},
            !.files = [disk EXCEPT
                !.crl = CrlAfter(c),
                !.profile[<<p.dir, p.name>>] = NoFile,
                !.ccd[c] = IF meta[c].ccd # NoAddress THEN NoAddress ELSE @]]

\* selectClient by name.
Selected(n) == {c \in Listed : row[c].name = n}

\* "ovpn client delete NAME" selects, shows NAME and id and asks ...
ConfirmDelete(n) ==
    /\ focus = "delete" /\ confirmed.name = NoName
    /\ \E c \in Selected(n) : confirmed' = [name |-> n, id |-> c, deleted |-> "none"]
    /\ UNCHANGED <<database, disk, journal, runtime, exporter, focus>>

\* ... and then deletes whom the same selector selects now.
DeleteConfirmed ==
    /\ Lock
    /\ confirmed.name # NoName /\ confirmed.deleted = "none"
    /\ \E c \in Selected(confirmed.name) :
          Begin(PlanDelete(c)) /\ confirmed' = [confirmed EXCEPT !.deleted = c]
    /\ UNCHANGED <<runtime, exporter, focus>>

\* The API and --yes with an id.
Delete(c) ==
    /\ Lock
    /\ c \in Listed
    /\ Begin(PlanDelete(c))
    /\ UNCHANGED <<runtime, onlooker>>

\* commitAddressChanges: CCD files only for active clients.
PlanAddresses(kind, as) ==
    LET cs == DOMAIN as
    IN  [NoPlan(kind) EXCEPT
            !.rows = [c \in cs |-> row[c]],
            !.asgs = [c \in cs |-> as[c]],
            !.meta = [c \in cs |-> [meta[c] EXCEPT !.ccd = CcdOf(c, as[c])]],
            !.clear = cs,
            !.kick = cs \cap Active,
            !.files = [disk EXCEPT !.ccd =
                [c \in Ids |-> IF c \in cs /\ (CcdOf(c, as[c]) # NoAddress
                                              \/ meta[c].ccd # NoAddress)
                               THEN CcdOf(c, as[c]) ELSE @[c]]]]

AddressSet(c, sel) ==
    /\ Lock
    /\ c \in Listed
    /\ \E as \in AddressPlans({c}, One(c, sel)) :
          Begin(PlanAddresses("set", One(c, ForStatus(c, as[c]))))
    /\ UNCHANGED <<runtime, onlooker>>

AddressRelease(c) ==
    /\ Lock
    /\ row[c].status = "revoked" /\ asg[c] # NoAsg
    /\ Begin(PlanAddresses("release", One(c, NoAsg)))
    /\ UNCHANGED <<runtime, onlooker>>

\* One row for each selected active client, refused as a whole.
AddressEdit(cs, sels) ==
    /\ Lock
    /\ cs # {} /\ cs \subseteq Active
    /\ \E as \in AddressPlans(cs, sels) :
          Begin(PlanAddresses("edit", [c \in cs |-> ForStatus(c, as[c])]))
    /\ UNCHANGED <<runtime, onlooker>>

-----------------------------------------------------------------------------
(***************************************************************************)
(* A configuration with another network or pool (BuildPlan, applyLocked).  *)
(* OpenVPN is stopped; a hook it had started may still be running.         *)
(***************************************************************************)
Assigned(kind) == {c \in Listed : asg[c].kind = kind}

RemapPlans(n) ==
    RemapStatic(n, [c \in Assigned("static") |-> asg[c].addr],
                   [c \in Assigned("static") |-> row[c].name])

\* The assignments in the next network; f has the static addresses.
Remapped(f) ==
    [c \in Assigned("static") \cup Assigned("dynamic") |->
        ForStatus(c, [asg[c] EXCEPT
            !.net = NetId + 1,
            !.addr = IF asg[c].kind = "static" THEN f[c] ELSE NoAddress])]

PlanConfiguration(n, f) ==
    LET as == Remapped(f)
        ccd(c) == IF c \in DOMAIN as THEN CcdOf(c, as[c]) ELSE NoAddress
    IN  [NoPlan("config") EXCEPT
            !.rows = [c \in DOMAIN as |-> row[c]],
            !.asgs = as,
            !.meta = [c \in Listed |-> [meta[c] EXCEPT !.ccd = ccd(c)]],
            !.clear = Ids,
            !.nets = <<n>>,
            !.files = [disk EXCEPT !.ccd = [c \in Ids |-> IF c \in Listed THEN ccd(c)
                                                                         ELSE @[c]]]]

\* remapAddresses finds an address for everyone.
Remappable(n) ==
    /\ Assigned("dynamic") = {} \/ DynamicRange(n) # {}
    /\ RemapPlans(n) # {}

ApplyConfiguration(n) ==
    /\ Lock
    /\ n # Network /\ NetId < MaxNetworks[focus]
    /\ Remappable(n)
    /\ \E f \in RemapPlans(n) : Begin(PlanConfiguration(n, f))
    /\ session' = [c \in Ids |-> NoSession]
    /\ UNCHANGED <<hook, kicks, kicked, onlooker>>

-----------------------------------------------------------------------------
(***************************************************************************)
(* The transaction.  Each one checks that its source is what was planned;  *)
(* the schema's unique indexes and the pool check of insertAssignment      *)
(* guard the rows it would leave.                                          *)
(***************************************************************************)
SameName(c) == row[c].name = op.source[c].name

CreateAccepted  == \A c \in DOMAIN op.rows : row[c].status = "unused"
RenameAccepted  == \A c \in DOMAIN op.rows : SameName(c) /\ c \in Listed
RevokeAccepted  == \A c \in DOMAIN op.rows : SameName(c) /\ c \in Active
ReissueAccepted == \A c \in DOMAIN op.rows :
                       SameName(c) /\ row[c].status = op.source[c].status
DeleteAccepted  == \A c \in DOMAIN op.rows :
                       SameName(c) /\ row[c].status = op.source[c].status

AddressAccepted ==
    /\ op.kind \in {"set", "edit", "release"}
    /\ \A c \in DOMAIN op.rows : SameName(c) /\ row[c].status = op.source[c].status
    /\ op.kind = "release" => \A c \in DOMAIN op.rows : row[c].status = "revoked"

\* validateConfigurationAddresses: exactly the current assignments.
ConfigurationAccepted ==
    /\ DOMAIN op.asgs = {c \in Ids : asg[c] # NoAsg}
    /\ \A c \in DOMAIN op.asgs : SameName(c) /\ row[c].status = op.source[c].status

SourceAccepted ==
    \/ op.kind = "create"  /\ CreateAccepted
    \/ op.kind = "rename"  /\ RenameAccepted
    \/ op.kind = "revoke"  /\ RevokeAccepted
    \/ op.kind = "reissue" /\ ReissueAccepted
    \/ op.kind = "delete"  /\ DeleteAccepted
    \/ AddressAccepted
    \/ op.kind = "config"  /\ ConfigurationAccepted

\* clients_current_name, assignments_current_network_address, the pool check
\* and the owner check of upsertActiveArtifact.
SchemaAccepts(rows, asgs, nets, metas) ==
    /\ \A c, d \in Ids : (c # d /\ rows[c].status \in Current /\ rows[d].status \in Current)
                            => rows[c].name # rows[d].name
    /\ \A c \in Ids : asgs[c].kind = "static" =>
           /\ asgs[c].addr \in StaticRange(nets[asgs[c].net])
           /\ \A d \in Ids \ {c} : <<asgs[d].net, asgs[d].addr>> # <<asgs[c].net, asgs[c].addr>>
    /\ \A c, d \in Ids : (c # d /\ metas[c].profile # NoProfile)
           => <<metas[c].profile.dir, metas[c].profile.name>>
                # <<metas[d].profile.dir, metas[d].profile.name>>

CommitAccepted ==
    /\ SourceAccepted
    /\ SchemaAccepts(Override(row, op.rows), Override(asg, op.asgs),
                     networks \o op.nets, Override(meta, op.meta))

\* The workspace is removed.
Finished == IF op.kind \in Cloning THEN workspaces - 1 ELSE workspaces

\* The leases of changed clients go with it, also one recorded since.
CommitState ==
    /\ op # NoOp /\ CommitAccepted
    /\ row' = Override(row, op.rows)
    /\ asg' = Override(asg, op.asgs)
    /\ lease' = [c \in Ids |-> IF c \in op.clear THEN NoLease ELSE lease[c]]
    /\ networks' = networks \o op.nets
    /\ meta' = Override(meta, op.meta)

\* finishLifecycle to its end: the operation directory and the workspace go,
\* and the CLI disconnects.
Commit ==
    /\ CommitState
    /\ kicks' = IF focus = "openvpn" THEN kicks \cup op.kick ELSE kicks
    /\ op' = NoOp
    /\ workspaces' = Finished
    /\ UNCHANGED <<disk, pending, count, session, hook, kicked, onlooker>>

Fault == count.faults < MaxFaults /\ count' = [count EXCEPT !.faults = @ + 1]

\* After the transaction fileOperation.Commit or the removal of the workspace
\* fails, or the process dies before it: what is committed stays, the
\* operation directory is finished by a later recovery, the workspace stays,
\* and nobody is disconnected.  (A death after the removal is Commit with the
\* kicks left pending.)
CommitUnfinished ==
    /\ CommitState
    /\ Fault
    /\ op' = NoOp
    /\ UNCHANGED <<disk, pending, workspaces, runtime, onlooker>>

\* Any failure before the commit: the workspace is removed, if that does not
\* fail too, and the files are restored.
Rollback ==
    /\ op # NoOp
    /\ disk' = op.before
    /\ op' = NoOp
    /\ \/ workspaces' = Finished /\ UNCHANGED count
       \/ op.kind \in Cloning /\ Fault /\ UNCHANGED workspaces
    /\ UNCHANGED <<database, pending, runtime, onlooker>>

\* The process dies, or the restoring of its files fails.
Crash ==
    /\ op # NoOp
    /\ Fault
    /\ pending' = op
    /\ op' = NoOp
    /\ workspaces' \in {workspaces, Finished}
    /\ UNCHANGED <<database, disk, runtime, onlooker>>

\* RecoverOperations restores the files; it does not know the workspace.
Recover ==
    /\ pending # NoOp
    /\ disk' = pending.before
    /\ pending' = NoOp
    /\ UNCHANGED <<database, op, workspaces, count, runtime, onlooker>>

-----------------------------------------------------------------------------
(***************************************************************************)
(* OpenVPN and its client-connect hook, without the data lock.             *)
(***************************************************************************)
\* External: a handshake with any certificate issued and not in the CRL file.
Connect(c, g) ==
    /\ focus = "openvpn" /\ session[c] = NoSession
    /\ op.kind # "config"
    /\ g <= disk.issued[c] /\ <<c, g>> \notin disk.crl
    /\ session' = [session EXCEPT ![c] = [state |-> "verified", gen |-> g]]
    /\ UNCHANGED <<database, disk, journal, hook, kicks, kicked, onlooker>>

\* External: the session ends; client-disconnect only writes an event.
SessionEnd(c) ==
    /\ session[c].state = "up"
    /\ session' = [session EXCEPT ![c] = NoSession]
    /\ UNCHANGED <<database, disk, journal, hook, kicks, kicked, onlooker>>

\* External: the address OpenVPN gives, from the CCD file or the pool.
Offered(c) == IF disk.ccd[c] # NoAddress THEN {disk.ccd[c]} ELSE DynamicRange(Network)

\* Execute and LoadClient: the client row and its assignment are read ...
HookAssignment(c) ==
    /\ hook = NoHook /\ session[c].state = "verified"
    /\ \E a \in Offered(c) :
          hook' = [pc |-> "assigned", id |-> c, addr |-> a, asg |-> asg[c]]
    /\ UNCHANGED <<database, disk, journal, session, kicks, kicked, onlooker>>

\* validateClientState and the pool checks of LoadClient.
Loadable(a, l) ==
    /\ a.kind = "static" => a.addr \in StaticRange(networks[a.net])
    /\ l # NoLease => /\ a.kind = "dynamic" /\ a.net = l.net
                      /\ l.addr \in DynamicRange(networks[l.net])

\* The script fails and OpenVPN drops the client.
HookFails ==
    /\ hook' = NoHook
    /\ session' = [session EXCEPT ![hook.id] = NoSession]
    /\ UNCHANGED <<database, disk, journal, kicks, kicked, onlooker>>

\* ... then the lease, in a SELECT of its own.
HookLease ==
    /\ hook.pc = "assigned"
    /\ IF Loadable(hook.asg, lease[hook.id])
       THEN /\ hook' = [hook EXCEPT !.pc = "loaded"]
            /\ UNCHANGED <<database, disk, journal, session, kicks, kicked, onlooker>>
       ELSE HookFails

\* (Variant: what LoadClient saw still holds.)
LeaseAcceptedUnseen(c, l) == l.addr \in DynamicRange(networks[l.net])

\* RecordLease: one transaction that looks at the assignment again.
LeaseAccepted(c, l) ==
    /\ asg[c].kind = "dynamic" /\ asg[c].net = l.net
    /\ l.addr \in DynamicRange(networks[l.net])

\* (Variant: another client's stale lease of the address stays.)
RecordLeaseOnly(c, l) == lease' = [lease EXCEPT ![c] = l]

RecordLease(c, l) ==
    lease' = [x \in Ids |-> IF x = c THEN l
                            ELSE IF lease[x] = l THEN NoLease ELSE lease[x]]

HookLeased == [addr |-> hook.addr, net |-> hook.asg.net]

HookRefused ==
    /\ hook.pc = "loaded"
    /\ \/ hook.asg = NoAsg
       \/ hook.asg.kind = "dynamic" /\ ~LeaseAccepted(hook.id, HookLeased)
    /\ HookFails

HookAccepts ==
    /\ hook.pc = "loaded"
    /\ \/ hook.asg.kind = "static" /\ UNCHANGED lease
       \/ /\ hook.asg.kind = "dynamic" /\ LeaseAccepted(hook.id, HookLeased)
          /\ RecordLease(hook.id, HookLeased)
    /\ hook' = NoHook
    /\ session' = [session EXCEPT ![hook.id].state = IF @ = "verified" THEN "up" ELSE @]
    /\ UNCHANGED <<row, asg, networks, meta, disk, journal, kicks, kicked, onlooker>>

-----------------------------------------------------------------------------
(***************************************************************************)
(* The CLI after the commit: Disconnect asks the management broker; when   *)
(* that fails the kick is reported as pending and left to the operator.    *)
(***************************************************************************)
\* The certificates of c revoked by committed mutations (a history).
CommittedCrl == IF op # NoOp THEN op.before.crl
                ELSE IF pending # NoOp THEN pending.before.crl ELSE disk.crl

RevokedOf(c) == {g \in 1..MaxIssues : <<c, g>> \in CommittedCrl}

\* OpenVPN serves its management interface between scripts.
Disconnect(c) ==
    /\ hook = NoHook
    /\ session' = [session EXCEPT ![c] = NoSession]
    /\ kicked' = [kicked EXCEPT ![c] = RevokedOf(c)]
    /\ kicks' = kicks \ {c}
    /\ UNCHANGED <<database, disk, journal, hook, onlooker>>

\* reconcileClientRuntime, reconcileAddressRuntime: after the first failure
\* the rest of a batch is pending without a try.
Reconcile(c)     == c \in kicks /\ Disconnect(c)
ReconcilePending ==
    /\ \E cs \in SUBSET kicks : cs # {} /\ kicks' = kicks \ cs
    /\ UNCHANGED <<database, disk, journal, session, hook, kicked, onlooker>>

\* "ovpn runtime disconnect": by name or id, tombstones too.
RuntimeDisconnect(c) ==
    /\ focus = "openvpn" /\ row[c].status # "unused"
    /\ Disconnect(c)

-----------------------------------------------------------------------------
(***************************************************************************)
(* Export: select an active client and its one active profile, then read   *)
(* the file and compare it with the recorded digest.                       *)
(***************************************************************************)
ExportSelect(c) ==
    /\ focus = "export" /\ exporter.pc # "selected"
    /\ c \in Active /\ meta[c].profile.dir = "active"
    /\ exporter' = [pc |-> "selected", id |-> c, profile |-> meta[c].profile]
    /\ UNCHANGED <<database, disk, journal, runtime, confirmed, focus>>

ExportedFile == disk.profile[<<exporter.profile.dir, exporter.profile.name>>]

ExportMatches == ExportedFile = [id |-> exporter.id, gen |-> exporter.profile.gen]

ExportRead ==
    /\ exporter.pc = "selected"
    /\ exporter' = IF ExportMatches
                   THEN [pc |-> "exported", id |-> exporter.id, file |-> ExportedFile]
                   ELSE [pc |-> "failed"]
    /\ UNCHANGED <<database, disk, journal, runtime, confirmed, focus>>

-----------------------------------------------------------------------------
Mutation ==
    \/ \E c \in Ids, n \in Names, sel \in Selections : Create(c, n, sel)
    \/ \E c \in Ids, n \in Names : Rename(c, n)
    \/ \E c \in Ids, release \in BOOLEAN : Revoke(c, release)
    \/ \E c \in Ids, sel \in Selections \cup {Keep} : Reissue(c, sel)
    \/ \E n \in Names : ConfirmDelete(n)
    \/ DeleteConfirmed
    \/ \E c \in Ids : Delete(c)
    \/ \E c \in Ids, sel \in Selections : AddressSet(c, sel)
    \/ \E c \in Ids : AddressRelease(c)
    \/ \E cs \in SUBSET Active : \E sels \in [cs -> Selections] : AddressEdit(cs, sels)
    \/ \E n \in Configs : ApplyConfiguration(n)

\* All but the end of a mutation, which ConfigApi composes with the request.
ClientsStep ==
    \/ Mutation
    \/ Recover
    \/ \E c \in Ids, g \in 1..MaxIssues : Connect(c, g)
    \/ \E c \in Ids : SessionEnd(c)
    \/ \E c \in Ids : HookAssignment(c)
    \/ HookLease \/ HookRefused \/ HookAccepts
    \/ \E c \in Ids : Reconcile(c)
    \/ ReconcilePending
    \/ \E c \in Ids : RuntimeDisconnect(c)
    \/ \E c \in Ids : ExportSelect(c)
    \/ ExportRead

ClientsNext == ClientsStep \/ Commit \/ CommitUnfinished \/ Rollback \/ Crash

-----------------------------------------------------------------------------
(***************************************************************************)
(* Properties.                                                             *)
(***************************************************************************)
\* LoadClient accepts every client as SQLite has it: one it refuses makes
\* ListClients, and with it every query and mutation, fail.  RecordLease runs
\* without the lock beside every transaction that moves or drops assignments.
ClientsLoadable ==
    \A c \in Ids : Loadable(asg[c], lease[c])

\* No address is held twice: static ones, active or retained, differ from
\* each other and from every lease, and no two clients lease the same one.
HeldBy(c) == {asg[c].addr, lease[c].addr} \ {NoAddress}

AddressesDisjoint ==
    \A c, d \in Ids : c # d => HeldBy(c) \cap HeldBy(d) = {}

\* What was planned under the lock is accepted at commit: no plan runs into a
\* unique index, a pool check or another owner's artifact after its files
\* were installed.
PlanIsAccepted == op # NoOp => CommitAccepted

\* With no mutation open the files say what SQLite says: a CCD file exactly
\* for the active static clients, with their address; one profile per listed
\* client, in the directory of its status, under its name and with its
\* latest certificate; the CRL has every certificate but the current ones of
\* the active clients; and every active metadata row describes the file that
\* is there, else config apply and the state scan refuse the instance.  Each
\* copy of the PKI with its private keys that is left over was left by a crash
\* or a failed cleanup of its own (RecoverOperations does not know the
\* workspace).
FilesMatchDatabase ==
    (op = NoOp /\ pending = NoOp) =>
        /\ \A c \in Ids : disk.ccd[c] = IF c \in Active THEN asg[c].addr ELSE NoAddress
        /\ \A k \in DOMAIN disk.profile :
              LET owners == {c \in Listed : k = <<Directory(row[c].status), row[c].name>>}
              IN  \/ owners = {} /\ disk.profile[k] = NoFile
                  \/ \E c \in owners : disk.profile[k] = [id |-> c, gen |-> disk.issued[c]]
        /\ \A c \in Ids : \A g \in 1..disk.issued[c] :
              <<c, g>> \in disk.crl <=> ~(c \in Active /\ g = disk.issued[c])
        /\ \A c \in Ids :
              /\ meta[c].ccd = disk.ccd[c]
              /\ meta[c].profile # NoProfile =>
                   disk.profile[<<meta[c].profile.dir, meta[c].profile.name>>]
                     = [id |-> c, gen |-> meta[c].profile.gen]
        /\ workspaces <= count.faults

\* Once a disconnect after a revocation, a reissue or a deletion has
\* succeeded, no session with a certificate revoked by then exists, whatever
\* connects, rolls back or crashes later.
RevokedStayOut ==
    \A c \in Ids : session[c] # NoSession => session[c].gen \notin kicked[c]

\* An export never gives a certificate that a committed mutation had revoked
\* when the file was read, although it takes no lock and revocations,
\* reissues, deletes, crashes and recoveries fall between its selection and its
\* read (cli export, artifact reads by digest; finishLifecycle commits only
\* when the profile is out of clients/active).
ExportsUnrevoked ==
    [][exporter.pc = "selected" /\ exporter'.pc = "exported"
         => <<exporter'.file.id, exporter'.file.gen>> \notin CommittedCrl]_clientVars

\* A configuration change takes no client's intent away: everyone keeps the
\* kind of the assignment and its state, and a static address that is valid
\* in the new network stays with its client.
RemapPreserves ==
    [][networks' # networks =>
        \A c \in Ids :
            /\ asg'[c].kind = asg[c].kind
            /\ asg'[c].status = asg[c].status
            /\ (asg[c].kind = "static" /\ asg[c].addr \in StaticRange(networks'[Len(networks')]))
                 => asg'[c].addr = asg[c].addr]_clientVars
====
