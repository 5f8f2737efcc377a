------------------------------- MODULE Schema3 -------------------------------
(***************************************************************************)
(* Reading a schema 3 data root (migration/read.go) and the schema 4 state *)
(* that is staged from it (migration/apply.go), as operators on a record l *)
(* of what the legacy files say:                                           *)
(*   file, project  the schema versions in config/schema-version and       *)
(*                  config/project.env, 0 when missing or unreadable       *)
(*   settings       project.env and instance.json are complete and valid   *)
(*   network        the tunnel network of project.env, see Ipam            *)
(*   ids            lines of client-state.csv: id, name, status            *)
(*   ips            lines of client-ip.csv: id, name, addr                 *)
(*   audit          every line of audit.jsonl is a known event             *)
(*   authority      CA, server, CRL and tls-crypt verify                   *)
(*   index          lines of pki/index.txt: flag, id                       *)
(*   lines          they are well-formed, and a valid one names a UUID     *)
(*   issued, crl    the ids whose certificate and key verify, and revoked  *)
(*   profiles       the valid profiles: dir, name, id                      *)
(*   leases         cache/client-leases: an address per id                 *)
(*   names          it is a safe directory of readable files, each named   *)
(*                  by a UUID                                              *)
(* and of what only the transaction looks at:                              *)
(*   modes          no link, file others may write or file over the limit  *)
(*   signing        pki/index.txt and pki/serial are not empty             *)
(*   overrun        the directory in which the files of the root, taken in *)
(*                  order, pass the 1 GiB of a restore, or "none"          *)
(* Identities and names are numbers, for their order.                      *)
(***************************************************************************)
EXTENDS Ipam, FiniteSets, Sequences

\* The types of what the files say.  A network that was read is a valid one.
LegacyTypeOK(l) ==
    /\ l.file \in Nat /\ l.project \in Nat
    /\ l.settings => ValidNetwork(l.network)
    /\ l.ids \in Seq([id : Nat, name : Nat, status : {"active", "revoked", "deleted"}])
    /\ l.ips \in Seq([id : Nat, name : Nat, addr : Nat])
    /\ DOMAIN l.leases \subseteq Nat /\ l.leases \in [DOMAIN l.leases -> Nat]
    /\ {l.lines, l.names, l.modes, l.signing} \subseteq BOOLEAN

\* An empty third field of client-ip.csv, and lease text that is no address.
NoAddress == 0

Lines(s) == {s[i] : i \in DOMAIN s}

\* probe: the two versions must agree, and only 3 is migrated.
Probe(l) ==
    CASE l.file = 0 /\ l.project = 0 -> "unknown"
      [] l.file = 0 \/ l.project = 0 -> "invalid"
      [] l.file # l.project          -> "conflict"
      [] l.file < 3                  -> "legacy"
      [] l.file = 3                  -> "schema-3"
      [] l.file > 3                  -> "newer"

CurrentIds(l) == {x.id : x \in {y \in Lines(l.ids) : y.status # "deleted"}}
Identity(l, id) == CHOOSE x \in Lines(l.ids) : x.id = id

\* readIdentities: no UUID twice, no name twice among current clients.
IdentitiesValid(l) ==
    \A i, j \in DOMAIN l.ids : i < j =>
        /\ l.ids[i].id # l.ids[j].id
        /\ "deleted" \notin {l.ids[i].status, l.ids[j].status} => l.ids[i].name # l.ids[j].name

\* (Variant: addresses may repeat.)
AddressLineValidAlone(l, i) ==
    LET line == l.ips[i]
    IN  /\ line.id \in CurrentIds(l)
        /\ line.name = Identity(l, line.id).name
        /\ line.addr # NoAddress => line.addr \in StaticRange(l.network)
        /\ \A j \in 1..(i - 1) : l.ips[j].name # line.name

\* One line of client-ip.csv: a current client under its name, once, with a
\* static address nobody has, or with none.
AddressLineValid(l, i) ==
    LET line == l.ips[i]
    IN  /\ line.id \in CurrentIds(l)
        /\ line.name = Identity(l, line.id).name
        /\ line.addr # NoAddress => line.addr \in StaticRange(l.network)
        /\ \A j \in 1..(i - 1) :
               /\ l.ips[j].name # line.name
               /\ line.addr # NoAddress => l.ips[j].addr # line.addr

\* readAssignments: every line is valid, every current client has one.
AssignmentsValid(l) ==
    /\ \A i \in DOMAIN l.ips : AddressLineValid(l, i)
    /\ \A id \in CurrentIds(l) : Identity(l, id).name \in {x.name : x \in Lines(l.ips)}

AddressOf(l, id) == (CHOOSE x \in Lines(l.ips) : x.id = id).addr

\* readPKIIndex: a valid line wins over revoked ones of the same client.
IndexStatus(l, id) ==
    CASE [flag |-> "V", id |-> id] \in Lines(l.index) -> "active"
      [] [flag |-> "V", id |-> id] \notin Lines(l.index)
           /\ [flag |-> "R", id |-> id] \in Lines(l.index) -> "revoked"
      [] OTHER -> "none"

\* verifySecurity for one client, its profile (verifyProfile) included.
ClientVerified(l, x) ==
    IF x.status = "deleted"
    THEN IndexStatus(l, x.id) # "active"
    ELSE /\ IndexStatus(l, x.id) = x.status
         /\ x.id \in l.issued
         /\ (x.id \in l.crl) = (x.status = "revoked")
         /\ [dir |-> x.status, name |-> x.name, id |-> x.id] \in l.profiles

\* verifySecurity, with the lines readPKIIndex refuses.
SecurityVerified(l) ==
    /\ l.authority
    /\ l.lines
    /\ \A x \in Lines(l.ids) : ClientVerified(l, x)
    /\ {x.id : x \in Lines(l.index)} \subseteq {x.id : x \in Lines(l.ids)}

\* readConfig with readInstance, and readAudit.
SettingsValid(l) == l.settings
AuditValid(l)    == l.audit

\* readLeases refuses the directory and its files, never what a lease says.
LeasesReadable(l) == l.names

\* ReadSchema3 returns a source.
SourceReady(l) ==
    /\ Probe(l) = "schema-3"
    /\ SettingsValid(l)
    /\ IdentitiesValid(l)
    /\ AssignmentsValid(l)
    /\ AuditValid(l)
    /\ SecurityVerified(l)
    /\ LeasesReadable(l)

\* A lease worth keeping: a pool address of an active client without a
\* static one.
LeaseValid(l, id) ==
    /\ id \in CurrentIds(l) /\ Identity(l, id).status = "active"
    /\ AddressOf(l, id) = NoAddress
    /\ l.leases[id] \in DynamicRange(l.network)

\* (Variant: a lease is dropped when any other file has its address.)
ImportedLeasesAlone(l) ==
    {id \in DOMAIN l.leases : LeaseValid(l, id) /\
        \A k \in DOMAIN l.leases \ {id} : l.leases[k] # l.leases[id]}

\* readLeases reads the files in the order of their names: of several leases
\* on one address the first valid one is imported.
ImportedLeases(l) ==
    {id \in DOMAIN l.leases : LeaseValid(l, id) /\
        \A k \in DOMAIN l.leases :
            k < id /\ LeaseValid(l, k) => l.leases[k] # l.leases[id]}

\* stageClientState for every identity.
StagedClient(l, x) ==
    IF x.status = "deleted"
    THEN [name |-> x.name, status |-> "deleted", kind |-> "none",
          addr |-> NoAddress, assignment |-> "none", lease |-> NoAddress]
    ELSE [name   |-> x.name,
          status |-> x.status,
          kind   |-> IF AddressOf(l, x.id) = NoAddress THEN "dynamic" ELSE "static",
          addr   |-> AddressOf(l, x.id),
          assignment |-> IF x.status = "revoked" THEN "retained" ELSE "active",
          lease  |-> IF x.id \in ImportedLeases(l) THEN l.leases[x.id] ELSE NoAddress]

StagedClients(l) ==
    [id \in {x.id : x \in Lines(l.ids)} |-> StagedClient(l, Identity(l, id))]

\* CreateClient takes them all: the unique indexes of names, static addresses
\* and leases, and a lease needs a dynamic assignment.
DatabaseAccepts(n, clients) ==
    /\ \A c, d \in DOMAIN clients : c # d =>
         /\ "deleted" \notin {clients[c].status, clients[d].status}
              => clients[c].name # clients[d].name
         /\ clients[c].kind = "static" => clients[c].addr # clients[d].addr
         /\ clients[c].lease # NoAddress => clients[c].lease # clients[d].lease
    /\ \A c \in DOMAIN clients :
         /\ clients[c].kind = "static" => clients[c].addr \in StaticRange(n)
         /\ clients[c].lease # NoAddress =>
              clients[c].kind = "dynamic" /\ clients[c].lease \in DynamicRange(n)

\* The state scan of the stage.  It asks more than the reader: the signing
\* database.  The rest is material the reader verified at the same time, or
\* rendered by buildStage itself.
StageHealthy(l) == l.signing

\* appendTree archives every file of the root.
Archivable(l) == l.modes

\* The address client c holds in the migrated instance.
HeldAddress(x) == IF x.kind = "static" THEN x.addr ELSE x.lease
==============================================================================
