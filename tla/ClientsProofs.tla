---------------------------- MODULE ClientsProofs ----------------------------
(***************************************************************************)
(* The inductive invariant of Clients and the proof that its steps keep    *)
(* it, for any number of clients, names, networks and mutations.           *)
(* ConfigApiProofs adds the API's requests and states the theorems.        *)
(***************************************************************************)
EXTENDS Clients, TLAPS

-----------------------------------------------------------------------------
(* What SQLite may hold, and what the files then are.                      *)

\* The assignment a of a client with this status, in the last of the networks.
AsgOK(a, status, nets) ==
    \/ a = NoAsg
    \/ /\ a \in [kind : {"dynamic", "static"}, addr : Nat, status : {"active", "retained"},
                 net : Nat]
       /\ status \in Current
       /\ a.status = IF status = "active" THEN "active" ELSE "retained"
       /\ a.net = Len(nets)
       /\ a.kind = "static" => a.addr \in StaticRange(nets[Len(nets)])
       /\ a.kind = "dynamic" => a.addr = NoAddress

RowsOK(rows) ==
    /\ rows \in [Ids -> [status : {"unused", "active", "revoked", "deleted"},
                         name : Names \cup {NoName}]]
    /\ \A c \in Ids : rows[c].status \in Current => rows[c].name \in Names
    /\ \A c, d \in Ids : (rows[c].status \in Current /\ rows[d].status \in Current /\ c # d)
                            => rows[c].name # rows[d].name

NetsOK(nets) == nets \in Seq(Configs) /\ Len(nets) \in 1..MaxNetworks[focus]

AsgType == [kind : {"none", "dynamic", "static"}, addr : Nat,
            status : {"active", "retained", "released"}, net : Nat]

AsgsOK(rows, asgs, nets) ==
    /\ asgs \in [Ids -> AsgType]
    /\ \A c \in Ids : AsgOK(asgs[c], rows[c].status, nets)
    /\ \A c, d \in Ids : (asgs[c].kind = "static" /\ asgs[d].kind = "static" /\ c # d)
                            => asgs[c].addr # asgs[d].addr

\* The profile of a listed client is recorded under its directory and name.
MetasOK(rows, metas) ==
    /\ metas \in [Ids -> [profile : [dir : {"none", "active", "revoked"},
                                     name : Names \cup {NoName}, gen : Nat],
                          ccd : Nat]]
    /\ \A c \in Ids :
          IF rows[c].status \in Current
          THEN metas[c].profile = [dir |-> Directory(rows[c].status), name |-> rows[c].name,
                                   gen |-> metas[c].profile.gen]
          ELSE metas[c].profile = NoProfile

DbOK(rows, asgs, metas, nets) ==
    RowsOK(rows) /\ NetsOK(nets) /\ AsgsOK(rows, asgs, nets) /\ MetasOK(rows, metas)

FilesType(files) ==
    /\ DOMAIN files = {"ccd", "profile", "issued", "crl"}
    /\ DOMAIN files.ccd = Ids
    /\ DOMAIN files.profile = {"active", "revoked"} \X Names
    /\ files.issued \in [Ids -> 0..MaxIssues]
    /\ files.crl \subseteq Ids \X (1..MaxIssues)

\* ccd/ has the addresses of the active clients.
CcdOK(files, rows, asgs, metas) ==
    \A c \in Ids : /\ files.ccd[c] = IF rows[c].status = "active" THEN asgs[c].addr
                                     ELSE NoAddress
                   /\ metas[c].ccd = files.ccd[c]

\* clients/ has the profiles of the listed ones and nothing else.
ProfilesOK(files, rows, metas) ==
    /\ \A c \in Ids : rows[c].status \in Current =>
          /\ metas[c].profile.gen = files.issued[c]
          /\ files.profile[<<Directory(rows[c].status), rows[c].name>>]
                = [id |-> c, gen |-> files.issued[c]]
    /\ \A k \in {"active", "revoked"} \X Names :
          \/ files.profile[k] = NoFile
          \/ \E c \in Ids : /\ rows[c].status \in Current
                            /\ k = <<Directory(rows[c].status), rows[c].name>>

\* pki/ revokes all but the latest certificate of an active client.
CrlOK(files, rows) ==
    \A c \in Ids :
        /\ rows[c].status = "unused" => files.issued[c] = 0
        /\ rows[c].status = "active" => files.issued[c] > 0
        /\ \A g \in 1..MaxIssues :
              <<c, g>> \in files.crl <=>
                  /\ g <= files.issued[c]
                  /\ rows[c].status = "active" => g # files.issued[c]

\* No profile in clients/active has a certificate of this CRL.
ActiveUnrevoked(files, crl) ==
    \A n \in Names : LET f == files.profile[<<"active", n>>] IN <<f.id, f.gen>> \notin crl

FilesOK(files, rows, asgs, metas) ==
    /\ FilesType(files)
    /\ CcdOK(files, rows, asgs, metas)
    /\ ProfilesOK(files, rows, metas)
    /\ CrlOK(files, rows)

-----------------------------------------------------------------------------
(* The inductive invariant.                                                *)

\* Leases are of dynamic clients, in the pool, and differ.
LeaseInv ==
    /\ lease \in [Ids -> [addr : Nat, net : Nat]]
    /\ \A c \in Ids : \/ lease[c] = NoLease
                      \/ /\ lease[c] \in [addr : DynamicRange(Network), net : {NetId}]
                         /\ asg[c].kind = "dynamic"
    /\ \A c, d \in Ids : c # d /\ lease[c] # NoLease => lease[c] # lease[d]

DbInv == DbOK(row, asg, meta, networks) /\ LeaseInv

\* What the open mutation's commit would leave.
RowAfter  == Override(row, op.rows)
AsgAfter  == Override(asg, op.asgs)
MetaAfter == Override(meta, op.meta)
NetsAfter == networks \o op.nets

Kinds == {"create", "rename", "revoke", "reissue", "delete", "set", "edit", "release", "config"}

PlanFields == {"kind", "rows", "asgs", "meta", "clear", "nets", "files", "kick", "source",
               "before"}

\* Its lease, remap and source conditions.
LeasesFollow ==
    \A c \in Ids \ op.clear : op.nets = << >> /\ (AsgAfter[c] = asg[c] \/ asg[c] = NoAsg)

RemapFollows ==
    op.nets # << >> =>
        \A c \in Ids :
            /\ AsgAfter[c].kind = asg[c].kind
            /\ AsgAfter[c].status = asg[c].status
            /\ (asg[c].kind = "static" /\ asg[c].addr \in StaticRange(NetsAfter[Len(NetsAfter)]))
                 => AsgAfter[c].addr = asg[c].addr

PlanInv ==
    op # NoOp =>
        /\ DOMAIN op = PlanFields
        /\ op.kind \in Kinds
        /\ op.kind = "config" => \E n \in Configs : op.nets = <<n>>
        /\ op.kind # "config" => op.nets = << >>
        /\ op.kick \subseteq Ids
        /\ SourceAccepted
        /\ DbOK(RowAfter, AsgAfter, MetaAfter, NetsAfter)
        /\ LeasesFollow
        /\ RemapFollows

\* The files before, after and between mutations.
JournalInv ==
    /\ op = NoOp \/ pending = NoOp
    /\ (op = NoOp /\ pending = NoOp) => FilesOK(disk, row, asg, meta)
    /\ op # NoOp =>
          /\ FilesOK(op.before, row, asg, meta)
          /\ FilesOK(disk, RowAfter, AsgAfter, MetaAfter)
          /\ op.before.crl \subseteq disk.crl
    /\ pending # NoOp =>
          /\ FilesOK(pending.before, row, asg, meta)
          /\ FilesType(disk)
          /\ pending.before.crl \subseteq disk.crl
          /\ ActiveUnrevoked(disk, pending.before.crl)

WorkspaceInv ==
    /\ workspaces \in Nat
    /\ count \in [ops : Nat, faults : Nat]
    /\ workspaces <= count.faults + IF op.kind \in Cloning THEN 1 ELSE 0
    /\ op.kind \in Cloning => workspaces > 0

HookInv ==
    \/ hook = NoHook
    \/ hook.pc \in {"assigned", "loaded"} /\ hook.id \in Ids

ExportInv ==
    /\ exporter.pc \in {"idle", "selected", "exported", "failed"}
    /\ exporter.pc = "selected" =>
          exporter.profile.dir = "active" /\ exporter.profile.name \in Names

\* The certificates a successful kick was about stay revoked.
KickInv ==
    /\ session \in [Ids -> [state : {"none", "verified", "up"}, gen : 0..MaxIssues]]
    /\ kicks \subseteq Ids
    /\ kicked \in [Ids -> SUBSET (1..MaxIssues)]
    /\ \A c \in Ids : \A g \in kicked[c] : <<c, g>> \in CommittedCrl
    /\ RevokedStayOut

ClientsInv ==
    /\ DbInv /\ PlanInv /\ JournalInv /\ WorkspaceInv
    /\ HookInv /\ ExportInv /\ KickInv /\ focus \in Onlookers

-----------------------------------------------------------------------------
(* Address ranges and the remap of static addresses.                       *)

LEMMA NetworkNumbers ==
    ASSUME NEW n \in Configs
    PROVE  /\ n.base \in Nat /\ n.total \in Nat /\ n.dyn \in Nat
           /\ n.total >= 4 /\ n.dyn <= n.total - 3
  BY ConfigsAssumption DEF ValidNetwork, ClientCapacity

\* The static region and the dynamic pool share no address, and neither has the
\* network's, the server's or the broadcast address.
LEMMA RangesDisjoint ==
    ASSUME NEW n \in Configs
    PROVE  /\ StaticRange(n) \cap DynamicRange(n) = {}
           /\ StaticRange(n) \subseteq (n.base + 2)..(n.base + n.total - 2)
           /\ DynamicRange(n) \subseteq (n.base + 2)..(n.base + n.total - 2)
  BY NetworkNumbers DEF StaticRange, DynamicRange, ClientFirst, ClientLast, ClientCapacity

LEMMA RangeAddresses ==
    ASSUME NEW n \in Configs, NEW a \in StaticRange(n) \cup DynamicRange(n)
    PROVE  a \in Nat /\ a # NoAddress /\ a \in Addresses
<1>1. a \in (n.base + 2)..(n.base + n.total - 2)
  BY RangesDisjoint
<1>2. a \in Addresses
  BY <1>1 DEF Addresses
<1> QED
  BY <1>1, <1>2, NetworkNumbers DEF NoAddress

LEMMA NextStaticFree ==
    ASSUME NEW n, NEW used, NEW a \in NextStatic(n, used)
    PROVE  a \in StaticRange(n) /\ a \notin used
  BY DEF NextStatic

\* remapAddresses keeps every valid address and gives no address twice.
LEMMA RemapInjective ==
    ASSUME NEW n, NEW old, NEW name, NEW f \in RemapStatic(n, old, name),
           \A c, d \in DOMAIN old : c # d => old[c] # old[d],
           \A c \in DOMAIN old : name[c] \in Nat,
           \A c, d \in DOMAIN old : c # d => name[c] # name[d]
    PROVE  /\ f \in [DOMAIN old -> StaticRange(n)]
           /\ \A c \in DOMAIN old : old[c] \in StaticRange(n) => f[c] = old[c]
           /\ \A c, d \in DOMAIN old : c # d => f[c] # f[d]
<1> DEFINE early == Kept(n, old) \cup Mapped(n, old, name)
           rest  == DOMAIN old \ early
           done(c) == early \cup {d \in rest : name[d] < name[c]}
<1>1. /\ f \in [DOMAIN old -> StaticRange(n)]
      /\ \A c \in Kept(n, old) : f[c] = old[c]
      /\ \A c \in Mapped(n, old, name) : f[c] = MapHostBits(old[c], n)
      /\ \A c \in rest : f[c] \in NextStatic(n, {f[d] : d \in done(c)})
  BY DEF RemapStatic
<1>2. ASSUME NEW c \in rest, NEW d \in done(c) PROVE f[c] # f[d]
  <2> DEFINE used == {f[x] : x \in done(c)}
  <2>1. f[d] \in used
    OBVIOUS
  <2>2. f[c] \in NextStatic(n, used)
    BY <1>1
  <2> HIDE DEF used
  <2> QED
    BY <2>1, <2>2, NextStaticFree
<1>3. \A c, d \in early : c # d => f[c] # f[d]
  <2>1. ASSUME NEW c \in Kept(n, old), NEW d \in Kept(n, old), c # d PROVE f[c] # f[d]
    BY <1>1, <2>1 DEF Kept
  <2>2. ASSUME NEW c \in Kept(n, old), NEW d \in Mapped(n, old, name) PROVE f[c] # f[d]
    BY <1>1, <2>2 DEF Mapped
  <2>3. ASSUME NEW c \in Mapped(n, old, name), NEW d \in Mapped(n, old, name), c # d
        PROVE  f[c] # f[d]
    <3>1. SUFFICES ASSUME MapHostBits(old[c], n) = MapHostBits(old[d], n) PROVE FALSE
      BY <1>1
    <3>2. name[c] <= name[d] /\ name[d] <= name[c] /\ c \in DOMAIN old /\ d \in DOMAIN old
      BY <3>1 DEF Mapped
    <3> QED
      BY <2>3, <3>2
  <2> QED
    BY <2>1, <2>2, <2>3
<1>4. early \subseteq DOMAIN old
  BY DEF Kept, Mapped
<1>5. \A c, d \in DOMAIN old : c # d => f[c] # f[d]
  <2> SUFFICES ASSUME NEW c \in DOMAIN old, NEW d \in DOMAIN old, c # d PROVE f[c] # f[d]
    OBVIOUS
  <2> HIDE DEF early
  <2>1. CASE c \in early /\ d \in early
    BY <1>3, <2>1
  <2>2. CASE c \in rest /\ d \in early
    BY <1>2, <2>2
  <2>3. CASE c \in early /\ d \in rest
    BY <1>2, <2>3
  <2>4. CASE c \in rest /\ d \in rest
    <3>1. name[c] < name[d] \/ name[d] < name[c]
      OBVIOUS
    <3> QED
      BY <1>2, <2>4, <3>1
  <2> QED
    BY <2>1, <2>2, <2>3, <2>4
<1> QED
  BY <1>1, <1>5 DEF Kept

-----------------------------------------------------------------------------
(* The plan of a mutation.                                                 *)

\* What a mutation checked under the lock, and its commit checks again.
SourceOK(p) ==
    /\ p.kind = "create" => \A c \in DOMAIN p.rows : row[c].status = "unused"
    /\ p.kind = "rename" => DOMAIN p.rows \subseteq Listed
    /\ p.kind = "revoke" => DOMAIN p.rows \subseteq Active
    /\ p.kind = "release" => \A c \in DOMAIN p.rows : row[c].status = "revoked"
    /\ p.kind = "config" => /\ DOMAIN p.asgs = {c \in Ids : asg[c] # NoAsg}
                            /\ DOMAIN p.asgs \subseteq DOMAIN p.rows

LeasesOK(p, asgs) ==
    \A c \in Ids \ p.clear : p.nets = << >> /\ (asgs[c] = asg[c] \/ asg[c] = NoAsg)

RemapOK(asgs, nets) ==
    \A c \in Ids :
        /\ asgs[c].kind = asg[c].kind
        /\ asgs[c].status = asg[c].status
        /\ (asg[c].kind = "static" /\ asg[c].addr \in StaticRange(nets[Len(nets)]))
             => asgs[c].addr = asg[c].addr

PlanShape(p) ==
    /\ DOMAIN p = PlanFields
    /\ p.kind \in Kinds
    /\ p.kind = "config" => \E n \in Configs : p.nets = <<n>>
    /\ p.kind # "config" => p.nets = << >>
    /\ p.kick \subseteq Ids

\* A plan leaves a good database and the files that go with it.
PlanOK(p) ==
    LET rows == Override(row, p.rows)
        asgs == Override(asg, p.asgs)
        metas == Override(meta, p.meta)
        nets == networks \o p.nets
    IN  /\ PlanShape(p)
        /\ SourceOK(p)
        /\ DbOK(rows, asgs, metas, nets)
        /\ LeasesOK(p, asgs)
        /\ p.nets # << >> => RemapOK(asgs, nets)
        /\ FilesOK(p.files, rows, asgs, metas)
        /\ disk.crl \subseteq p.files.crl

\* How Begin carries a plan into the journal.
LEMMA BeginFields ==
    ASSUME NEW p, DOMAIN p = PlanFields, Begin(p), p.kind \in Kinds
    PROVE  /\ op = NoOp /\ pending = NoOp /\ op' # NoOp
           /\ DOMAIN op' = PlanFields
           /\ op'.kind = p.kind /\ op'.rows = p.rows /\ op'.asgs = p.asgs
           /\ op'.meta = p.meta /\ op'.clear = p.clear /\ op'.nets = p.nets
           /\ op'.kick = p.kick
           /\ op'.source = [c \in DOMAIN p.rows |-> row[c]] /\ op'.before = disk
           /\ disk' = p.files
           /\ UNCHANGED <<row, asg, lease, networks, meta, pending>>
<1>1. op' = [p EXCEPT !.source = [c \in DOMAIN p.rows |-> row[c]], !.before = disk]
  BY DEF Begin
<1>2. /\ DOMAIN op' = PlanFields
      /\ op'.kind = p.kind /\ op'.rows = p.rows /\ op'.asgs = p.asgs
      /\ op'.meta = p.meta /\ op'.clear = p.clear /\ op'.nets = p.nets
      /\ op'.kick = p.kick
      /\ op'.source = [c \in DOMAIN p.rows |-> row[c]] /\ op'.before = disk
  BY <1>1 DEF PlanFields
<1>3. op' # NoOp
  BY <1>2 DEF NoOp, Kinds
<1> QED
  BY <1>2, <1>3 DEF Begin, Lock, database

LEMMA BeginInv ==
    ASSUME ClientsInv, NEW p, Begin(p), PlanOK(p), UNCHANGED focus
    PROVE  (DbInv /\ PlanInv /\ JournalInv /\ WorkspaceInv)' /\ CommittedCrl' = CommittedCrl
<1>1. DOMAIN p = PlanFields /\ p.kind \in Kinds
  BY DEF PlanOK, PlanShape
<1>2. /\ op = NoOp /\ pending = NoOp /\ op' # NoOp
      /\ DOMAIN op' = PlanFields
      /\ op'.kind = p.kind /\ op'.rows = p.rows /\ op'.asgs = p.asgs
      /\ op'.meta = p.meta /\ op'.clear = p.clear /\ op'.nets = p.nets
      /\ op'.kick = p.kick
      /\ op'.source = [c \in DOMAIN p.rows |-> row[c]] /\ op'.before = disk
      /\ disk' = p.files
      /\ UNCHANGED <<row, asg, lease, networks, meta, pending>>
  BY <1>1, BeginFields
<1>3. DbInv'
  BY <1>2 DEF ClientsInv, DbInv, DbOK, RowsOK, NetsOK, AsgsOK, AsgOK, MetasOK, LeaseInv, NetId, Network
<1>4. SourceAccepted'
  <2>1. \A c \in DOMAIN p.rows : row'[c].name = op'.source[c].name /\ row'[c] = op'.source[c]
    BY <1>2
  <2> QED
    BY <1>2, <2>1 DEF PlanOK, PlanShape, SourceOK, Kinds, SourceAccepted, CreateAccepted,
          RenameAccepted, RevokeAccepted, ReissueAccepted, DeleteAccepted, AddressAccepted,
          ConfigurationAccepted, SameName, Listed, Active
<1>5. RowAfter' = Override(row, p.rows) /\ AsgAfter' = Override(asg, p.asgs)
      /\ MetaAfter' = Override(meta, p.meta) /\ NetsAfter' = networks \o p.nets
  BY <1>2 DEF RowAfter, AsgAfter, MetaAfter, NetsAfter
<1>6. DbOK(RowAfter, AsgAfter, MetaAfter, NetsAfter)'
  BY <1>5 DEF PlanOK, DbOK, RowsOK, NetsOK, AsgsOK, AsgOK, MetasOK
<1>7. LeasesFollow' /\ RemapFollows'
  BY <1>2, <1>5 DEF PlanOK, LeasesOK, RemapOK, LeasesFollow, RemapFollows
<1>8. PlanInv'
  BY <1>2, <1>4, <1>6, <1>7 DEF PlanOK, PlanShape, PlanInv
<1>9. FilesOK(disk, row, asg, meta)
  BY <1>2 DEF ClientsInv, JournalInv
<1>10. FilesOK(op.before, row, asg, meta)' /\ FilesOK(disk, RowAfter, AsgAfter, MetaAfter)'
  BY <1>2, <1>5, <1>9 DEF PlanOK, FilesOK, FilesType, CcdOK, ProfilesOK, CrlOK
<1>11. JournalInv'
  BY <1>2, <1>10 DEF PlanOK, JournalInv
<1>12. WorkspaceInv'
  <2>1. op.kind \notin Cloning
    BY <1>2 DEF NoOp, Cloning
  <2>2. /\ count' = [count EXCEPT !.ops = @ + 1]
        /\ workspaces' = IF p.kind \in Cloning THEN workspaces + 1 ELSE workspaces
    BY DEF Begin
  <2> QED
    BY <1>2, <2>1, <2>2 DEF ClientsInv, WorkspaceInv
<1>13. CommittedCrl' = CommittedCrl
  BY <1>2 DEF CommittedCrl
<1> QED
  BY <1>3, <1>8, <1>11, <1>12, <1>13

-----------------------------------------------------------------------------
(* Each mutation's plan is good.                                           *)

LEMMA OverrideNone ==
    ASSUME NEW S, NEW T, NEW f \in [S -> T]
    PROVE  Override(f, << >>) = f
  BY DEF Override

LEMMA NoNets ==
    ASSUME NEW nets \in Seq(Configs)
    PROVE  nets \o << >> = nets
  OBVIOUS

\* planCreateAssignment gives an unused address of the network in use.
LEMMA PlannedAssignment ==
    ASSUME DbInv, NEW used, NEW sel, NEW a \in PlanAssignment(used, sel),
           sel.mode \in {"dynamic", "auto", "static"}
    PROVE  /\ a \in [kind : {"dynamic", "static"}, addr : Nat, status : {"active"}, net : {NetId}]
           /\ a.kind = "static" => a.addr \in StaticRange(Network) \ used
           /\ a.kind = "dynamic" => a.addr = NoAddress
           /\ AsgOK(a, "active", networks)
<1>0. NetId \in Nat /\ Network \in Configs
  BY DEF DbInv, DbOK, NetsOK, NetId, Network
<1>1. CASE sel.mode = "dynamic"
  BY <1>0, <1>1 DEF PlanAssignment, Assignment, NoAddress, AsgOK, Current, NetId
<1>2. CASE sel.mode = "auto"
  <2>1. PICK b \in NextStatic(Network, used) : a = Assignment("static", b)
    BY <1>2 DEF PlanAssignment
  <2>2. b \in StaticRange(Network) \ used /\ b \in Nat
    BY <1>0, NextStaticFree, RangeAddresses
  <2> QED
    BY <1>0, <2>1, <2>2 DEF Assignment, AsgOK, Current, NetId, Network
<1>3. CASE sel.mode = "static"
  <2>1. PICK b \in ({sel.addr} \cap StaticRange(Network)) \ used : a = Assignment("static", b)
    BY <1>3 DEF PlanAssignment
  <2>2. b \in Nat
    BY <1>0, RangeAddresses
  <2> QED
    BY <1>0, <2>1, <2>2 DEF Assignment, AsgOK, Current, NetId, Network
<1> QED
  BY <1>1, <1>2, <1>3

RowType  == [status : {"unused", "active", "revoked", "deleted"}, name : Names \cup {NoName}]
MetaType == [profile : [dir : {"none", "active", "revoked"}, name : Names \cup {NoName},
                        gen : Nat],
             ccd : Nat]

ProfileOf(r, m) ==
    IF r.status \in Current
    THEN m.profile = [dir |-> Directory(r.status), name |-> r.name, gen |-> m.profile.gen]
    ELSE m.profile = NoProfile

Changed(f, c, v) == [f EXCEPT ![c] = v]

\* A change of one client that respects the names and addresses of the others.
DbChange(c, r, a, m) ==
    /\ r \in RowType /\ m \in MetaType
    /\ r.status \in Current => /\ r.name \in Names
                               /\ \A d \in Listed \ {c} : row[d].name # r.name
    /\ AsgOK(a, r.status, networks)
    /\ a.kind = "static" => \A d \in Ids \ {c} : asg[d].kind = "static" => asg[d].addr # a.addr
    /\ ProfileOf(r, m)

LEMMA OneClientDb ==
    ASSUME DbInv, NEW c \in Ids, NEW r, NEW a, NEW m, DbChange(c, r, a, m)
    PROVE  DbOK(Changed(row, c, r), Changed(asg, c, a), Changed(meta, c, m), networks)
<1> DEFINE rows == [row EXCEPT ![c] = r]
           asgs == [asg EXCEPT ![c] = a]
           metas == [meta EXCEPT ![c] = m]
<1> USE DEF DbChange
<1>0. a \in AsgType
  BY DEF AsgOK, AsgType, NoAsg, NoAddress
<1>1. /\ row \in [Ids -> RowType] /\ asg \in [Ids -> AsgType] /\ meta \in [Ids -> MetaType]
  BY DEF DbInv, DbOK, RowsOK, AsgsOK, MetasOK, RowType, MetaType
<1>2. /\ rows[c] = r /\ asgs[c] = a /\ metas[c] = m
      /\ \A d \in Ids \ {c} : rows[d] = row[d] /\ asgs[d] = asg[d] /\ metas[d] = meta[d]
      /\ rows \in [Ids -> RowType] /\ asgs \in [Ids -> AsgType] /\ metas \in [Ids -> MetaType]
  BY <1>0, <1>1
<1> HIDE DEF rows, asgs, metas
<1>3. RowsOK(rows)
  BY <1>2 DEF DbInv, DbOK, RowsOK, RowType, Listed
<1>4. AsgsOK(rows, asgs, networks)
  BY <1>2 DEF DbInv, DbOK, AsgsOK
<1>5. MetasOK(rows, metas)
  BY <1>2 DEF DbInv, DbOK, MetasOK, MetaType, ProfileOf
<1>6. DbOK(rows, asgs, metas, networks)
  BY <1>3, <1>4, <1>5 DEF DbInv, DbOK
<1> QED
  BY <1>6 DEF rows, asgs, metas, Changed

Keys == {"active", "revoked"} \X Names
KeyOf(r) == <<Directory(r.status), r.name>>

\* Its files: the CCD file, the profile moved or removed, g certificates issued
\* and all of them revoked but the one of an active client.
FilesChange(c, r, a, m, g, files) ==
    /\ DOMAIN files = {"ccd", "profile", "issued", "crl"}
    /\ DOMAIN files.ccd = Ids /\ files.ccd[c] = m.ccd
    /\ m.ccd = IF r.status = "active" THEN a.addr ELSE NoAddress
    /\ files.issued \in [Ids -> 0..MaxIssues] /\ files.issued[c] = g
    /\ \A d \in Ids \ {c} : files.ccd[d] = disk.ccd[d] /\ files.issued[d] = disk.issued[d]
    /\ r.status \in Current => m.profile.gen = g
    /\ DOMAIN files.profile = Keys
    /\ \A k \in Keys : files.profile[k] =
           IF r.status \in Current /\ k = KeyOf(r) THEN [id |-> c, gen |-> g]
           ELSE IF c \in Listed /\ k = KeyOf(row[c]) THEN NoFile
           ELSE disk.profile[k]
    /\ r.status = "unused" => g = 0
    /\ r.status = "active" => g > 0
    /\ files.crl \subseteq Ids \X (1..MaxIssues)
    /\ \A d \in Ids \ {c} : \A h \in 1..MaxIssues :
           <<d, h>> \in files.crl <=> <<d, h>> \in disk.crl
    /\ \A h \in 1..MaxIssues :
           <<c, h>> \in files.crl <=> h <= g /\ (r.status = "active" => h # g)

LEMMA OneClientFiles ==
    ASSUME DbInv, FilesOK(disk, row, asg, meta), NEW c \in Ids, NEW r, NEW a, NEW m, NEW g,
           NEW files, DbChange(c, r, a, m), FilesChange(c, r, a, m, g, files)
    PROVE  FilesOK(files, Changed(row, c, r), Changed(asg, c, a), Changed(meta, c, m))
<1> USE DEF DbChange, FilesChange
<1> DEFINE rows == [row EXCEPT ![c] = r]
           asgs == [asg EXCEPT ![c] = a]
           metas == [meta EXCEPT ![c] = m]
<1>1. /\ row \in [Ids -> RowType] /\ DOMAIN asg = Ids /\ meta \in [Ids -> MetaType]
  BY DEF DbInv, DbOK, RowsOK, AsgsOK, MetasOK, RowType, MetaType
<1>2. /\ rows[c] = r /\ asgs[c] = a /\ metas[c] = m
      /\ \A d \in Ids \ {c} : rows[d] = row[d] /\ asgs[d] = asg[d] /\ metas[d] = meta[d]
  BY <1>1
<1>4. /\ DOMAIN files.ccd = Ids /\ files.issued \in [Ids -> 0..MaxIssues]
      /\ files.issued[c] = g /\ \A d \in Ids \ {c} : files.issued[d] = disk.issued[d]
      /\ files.ccd[c] = IF r.status = "active" THEN a.addr ELSE NoAddress
      /\ \A d \in Ids \ {c} : files.ccd[d] = disk.ccd[d]
  OBVIOUS
<1> HIDE DEF rows, asgs, metas
<1>5. FilesType(files)
  BY <1>4 DEF FilesType, Keys
<1>6. CcdOK(files, rows, asgs, metas)
  BY <1>2, <1>4 DEF FilesOK, CcdOK
<1>7. CrlOK(files, rows)
  BY <1>2, <1>4 DEF FilesOK, CrlOK
<1>8. ProfilesOK(files, rows, metas)
  <2>1. \A d \in Ids \ {c} : row[d].status \in Current =>
           /\ KeyOf(row[d]) \in Keys
           /\ r.status \in Current => KeyOf(row[d]) # KeyOf(r)
           /\ c \in Listed => KeyOf(row[d]) # KeyOf(row[c])
    BY DEF KeyOf, Keys, Directory, Listed, DbInv, DbOK, RowsOK
  <2>2. \A d \in Ids \ {c} : row[d].status \in Current => files.profile[KeyOf(row[d])]
                                                          = disk.profile[KeyOf(row[d])]
    BY <2>1
  <2>3. r.status \in Current => KeyOf(r) \in Keys /\ files.profile[KeyOf(r)] = [id |-> c, gen |-> g]
    <3>1. r.status \in Current => KeyOf(r) \in Keys
      BY DEF KeyOf, Keys, Directory
    <3> QED
      BY <3>1
  <2>4. ASSUME NEW d \in Ids, rows[d].status \in Current
        PROVE  /\ metas[d].profile.gen = files.issued[d]
               /\ files.profile[KeyOf(rows[d])] = [id |-> d, gen |-> files.issued[d]]
    <3>1. CASE d = c
      <4>1. m.profile.gen = g
        BY <1>2, <2>4, <3>1
      <4> QED
        BY <1>2, <1>4, <2>3, <2>4, <3>1, <4>1
    <3>2. CASE d # c
      BY <1>2, <1>4, <2>2, <2>4, <3>2 DEF FilesOK, ProfilesOK, KeyOf
    <3> QED
      BY <3>1, <3>2
  <2>5. ASSUME NEW k \in Keys, files.profile[k] # NoFile
        PROVE  \E d \in Ids : rows[d].status \in Current /\ k = KeyOf(rows[d])
    <3>1. CASE r.status \in Current /\ k = KeyOf(r)
      BY <1>2, <3>1
    <3>2. CASE ~(r.status \in Current /\ k = KeyOf(r))
      <4>1. ~(c \in Listed /\ k = KeyOf(row[c])) /\ disk.profile[k] # NoFile
        BY <2>5, <3>2
      <4>2. PICK d \in Ids : row[d].status \in Current /\ k = KeyOf(row[d])
        BY <4>1 DEF FilesOK, ProfilesOK, Keys, KeyOf
      <4>3. d # c
        BY <4>1, <4>2 DEF Listed
      <4> QED
        BY <1>2, <4>2, <4>3
    <3> QED
      BY <3>1, <3>2
  <2> QED
    BY <2>4, <2>5 DEF ProfilesOK, Keys, KeyOf
<1>9. FilesOK(files, rows, asgs, metas)
  BY <1>5, <1>6, <1>7, <1>8 DEF FilesOK
<1> QED
  BY <1>9 DEF rows, asgs, metas, Changed

\* The plan of such a change.
OneClient(p, c, r, a, m, g) ==
    /\ PlanShape(p) /\ p.kind # "config" /\ SourceOK(p)
    /\ p.rows = One(c, r)
    /\ p.asgs = One(c, a) \/ (p.asgs = << >> /\ a = asg[c])
    /\ p.meta = One(c, m)
    /\ p.clear = {c} \/ a = asg[c] \/ asg[c] = NoAsg
    /\ disk.crl \subseteq p.files.crl
    /\ DbChange(c, r, a, m)
    /\ FilesChange(c, r, a, m, g, p.files)

LEMMA OneClientPlan ==
    ASSUME DbInv, FilesOK(disk, row, asg, meta), NEW c \in Ids, NEW r, NEW a, NEW m, NEW g, NEW p,
           OneClient(p, c, r, a, m, g)
    PROVE  PlanOK(p)
<1> USE DEF OneClient
<1>0. /\ DbOK(Changed(row, c, r), Changed(asg, c, a), Changed(meta, c, m), networks)
      /\ FilesOK(p.files, Changed(row, c, r), Changed(asg, c, a), Changed(meta, c, m))
  BY OneClientDb, OneClientFiles
<1>1. /\ row \in [Ids -> RowType] /\ asg \in [Ids -> AsgType] /\ meta \in [Ids -> MetaType]
      /\ networks \in Seq(Configs)
  BY DEF DbInv, DbOK, RowsOK, AsgsOK, MetasOK, NetsOK, RowType, MetaType
<1>2. p.nets = << >> /\ networks \o p.nets = networks
  BY <1>1, NoNets DEF PlanShape
<1>3. /\ Override(row, p.rows) = Changed(row, c, r)
      /\ Override(meta, p.meta) = Changed(meta, c, m)
  BY <1>1 DEF Override, One, Changed
<1>4. Override(asg, p.asgs) = Changed(asg, c, a)
  <2>1. CASE p.asgs = One(c, a)
    BY <1>1, <2>1 DEF Override, One, Changed
  <2>2. CASE p.asgs = << >> /\ a = asg[c]
    BY <1>1, <2>2, OverrideNone DEF Changed
  <2> QED
    BY <2>1, <2>2
<1>5. LeasesOK(p, Changed(asg, c, a))
  BY <1>1, <1>2 DEF LeasesOK, Changed
<1> QED
  BY <1>0, <1>2, <1>3, <1>4, <1>5 DEF PlanOK


LEMMA CreateOK ==
    ASSUME ClientsInv, op = NoOp, pending = NoOp, NEW c \in Ids, NEW n \in Names,
           row[c].status = "unused", \A x \in Listed : row[x].name # n,
           NEW sel \in Selections, NEW a \in PlanAssignment(StaticOf(Listed), sel)
    PROVE  PlanOK(PlanCreate(c, n, a))
<1> DEFINE p == PlanCreate(c, n, a)
           r == [status |-> "active", name |-> n]
           m == [profile |-> [dir |-> "active", name |-> n, gen |-> 1], ccd |-> a.addr]
<1>0. DbInv /\ FilesOK(disk, row, asg, meta)
  BY DEF ClientsInv, JournalInv
<1>1. /\ DOMAIN p = PlanFields /\ p.kind = "create"
      /\ p.rows = One(c, r) /\ p.asgs = One(c, a) /\ p.meta = One(c, m)
      /\ p.clear = {} /\ p.nets = << >> /\ p.kick = {}
      /\ p.files = [disk EXCEPT !.ccd[c] = a.addr, !.issued[c] = 1,
                      !.profile[<<"active", n>>] = [id |-> c, gen |-> 1]]
  BY DEF PlanCreate, NoPlan, PlanFields
<1>2. /\ AsgOK(a, "active", networks) /\ a.addr \in Nat
      /\ a.kind = "static" => a.addr \notin StaticOf(Listed)
  <2>1. sel.mode \in {"dynamic", "auto", "static"}
    BY DEF Selections, Dynamic, Automatic, Explicit
  <2> QED
    BY <1>0, <2>1, PlannedAssignment
<1>3. a.kind = "static" => \A d \in Ids \ {c} : asg[d].kind = "static" => asg[d].addr # a.addr
  <2>1. \A d \in Ids : asg[d].kind = "static" => d \in Listed
    BY <1>0 DEF DbInv, DbOK, AsgsOK, AsgOK, NoAsg, Listed
  <2>2. \A d \in Listed : asg[d].kind = "static" => asg[d].addr \in StaticOf(Listed)
    BY DEF StaticOf
  <2> QED
    BY <1>2, <2>1, <2>2
<1>4. asg[c] = NoAsg /\ c \notin Listed
  BY <1>0 DEF DbInv, DbOK, AsgsOK, AsgOK, Current, Listed
<1>5. r \in RowType /\ m \in MetaType /\ ProfileOf(r, m)
  BY <1>2 DEF RowType, MetaType, ProfileOf, Current, Directory
<1>6. DbChange(c, r, a, m)
  BY <1>2, <1>3, <1>5 DEF DbChange
<1>7. /\ DOMAIN p.files = {"ccd", "profile", "issued", "crl"}
      /\ DOMAIN p.files.ccd = Ids /\ p.files.ccd[c] = a.addr
      /\ p.files.issued \in [Ids -> 0..MaxIssues] /\ p.files.issued[c] = 1
      /\ \A d \in Ids \ {c} : /\ p.files.ccd[d] = disk.ccd[d]
                               /\ p.files.issued[d] = disk.issued[d]
      /\ p.files.profile = [disk.profile EXCEPT ![<<"active", n>>] = [id |-> c, gen |-> 1]]
      /\ p.files.crl = disk.crl
  BY <1>0, <1>1, BoundsAssumption DEF FilesOK, FilesType
<1>8. /\ r.status = "active" /\ r.name = n /\ KeyOf(r) = <<"active", n>>
      /\ m.ccd = a.addr /\ m.profile.gen = 1
  BY DEF KeyOf, Directory
<1> HIDE DEF p, r, m
<1>9. FilesChange(c, r, a, m, 1, p.files)
  <2>1. DOMAIN disk.profile = Keys /\ disk.crl \subseteq Ids \X (1..MaxIssues)
    BY <1>0 DEF FilesOK, FilesType, Keys
  <2>2. <<"active", n>> \in Keys
    BY DEF Keys
  <2>3. DOMAIN p.files.profile = Keys /\ \A k \in Keys : p.files.profile[k] =
               IF r.status \in Current /\ k = KeyOf(r) THEN [id |-> c, gen |-> 1]
               ELSE IF c \in Listed /\ k = KeyOf(row[c]) THEN NoFile
               ELSE disk.profile[k]
    BY <1>4, <1>7, <1>8, <2>1, <2>2 DEF Current
  <2>4. 1 \in 0..MaxIssues
    BY BoundsAssumption
  <2>5. \A h \in 1..MaxIssues : <<c, h>> \in p.files.crl <=>
                                  h <= 1 /\ (r.status = "active" => h # 1)
    BY <1>0, <1>7, <1>8, BoundsAssumption DEF FilesOK, CrlOK
  <2> QED
    BY <1>7, <1>8, <2>1, <2>3, <2>4, <2>5 DEF FilesChange
<1>10. PlanShape(p) /\ SourceOK(p)
  BY <1>1 DEF PlanShape, Kinds, SourceOK, One
<1>11. OneClient(p, c, r, a, m, 1)
  BY <1>1, <1>4, <1>6, <1>7, <1>9, <1>10 DEF OneClient
<1>12. PlanOK(p)
  BY <1>0, <1>11, OneClientPlan
<1> QED
  BY <1>12 DEF p

\* What the invariant says of a client with no mutation open.
LEMMA ClientFacts ==
    ASSUME ClientsInv, op = NoOp, pending = NoOp, NEW c \in Listed
    PROVE  /\ DbInv /\ FilesOK(disk, row, asg, meta) /\ c \in Ids
           /\ row[c] \in RowType /\ asg[c] \in AsgType /\ meta[c] \in MetaType
           /\ row[c].status \in Current /\ row[c].name \in Names
           /\ \A d \in Listed \ {c} : row[d].name # row[c].name
           /\ AsgOK(asg[c], row[c].status, networks)
           /\ asg[c].kind = "static" =>
                 \A d \in Ids \ {c} : asg[d].kind = "static" => asg[d].addr # asg[c].addr
           /\ meta[c].profile.dir = Directory(row[c].status)
           /\ meta[c].profile.name = row[c].name /\ meta[c].profile.gen = disk.issued[c]
           /\ KeyOf(row[c]) \in Keys
           /\ disk.profile[KeyOf(row[c])] = [id |-> c, gen |-> disk.issued[c]]
           /\ meta[c].ccd = disk.ccd[c]
           /\ disk.ccd[c] = IF row[c].status = "active" THEN asg[c].addr ELSE NoAddress
           /\ disk.issued[c] \in 0..MaxIssues
           /\ row[c].status = "active" => disk.issued[c] > 0
<1>1. DbInv /\ FilesOK(disk, row, asg, meta) /\ c \in Ids /\ row[c].status \in Current
  BY DEF ClientsInv, JournalInv, Listed
<1>2. row[c] \in RowType /\ asg[c] \in AsgType /\ meta[c] \in MetaType
  BY <1>1 DEF DbInv, DbOK, RowsOK, AsgsOK, MetasOK, RowType, MetaType
<1>3. /\ row[c].name \in Names
      /\ \A d \in Listed \ {c} : row[d].name # row[c].name
  BY <1>1 DEF DbInv, DbOK, RowsOK, Listed
<1>4. /\ AsgOK(asg[c], row[c].status, networks)
      /\ asg[c].kind = "static" =>
            \A d \in Ids \ {c} : asg[d].kind = "static" => asg[d].addr # asg[c].addr
  BY <1>1 DEF DbInv, DbOK, AsgsOK
<1>5. /\ meta[c].profile.dir = Directory(row[c].status)
      /\ meta[c].profile.name = row[c].name
  <2>1. meta[c].profile = [dir |-> Directory(row[c].status), name |-> row[c].name,
                           gen |-> meta[c].profile.gen]
    BY <1>1 DEF DbInv, DbOK, MetasOK
  <2> QED
    BY <2>1
<1>6. KeyOf(row[c]) \in Keys
  BY <1>3 DEF KeyOf, Keys, Directory
<1>7. /\ meta[c].profile.gen = disk.issued[c]
      /\ disk.profile[KeyOf(row[c])] = [id |-> c, gen |-> disk.issued[c]]
  BY <1>1 DEF FilesOK, ProfilesOK, KeyOf
<1>8. /\ meta[c].ccd = disk.ccd[c]
      /\ disk.ccd[c] = IF row[c].status = "active" THEN asg[c].addr ELSE NoAddress
  BY <1>1 DEF FilesOK, CcdOK
<1>9. /\ disk.issued[c] \in 0..MaxIssues
      /\ row[c].status = "active" => disk.issued[c] > 0
  BY <1>1 DEF FilesOK, FilesType, CrlOK
<1> QED
  BY <1>1, <1>2, <1>3, <1>4, <1>5, <1>6, <1>7, <1>8, <1>9

LEMMA DiskFacts ==
    ASSUME FilesOK(disk, row, asg, meta)
    PROVE  /\ DOMAIN disk = {"ccd", "profile", "issued", "crl"}
           /\ DOMAIN disk.ccd = Ids /\ disk.issued \in [Ids -> 0..MaxIssues]
           /\ DOMAIN disk.profile = Keys /\ disk.crl \subseteq Ids \X (1..MaxIssues)
  BY DEF FilesOK, FilesType, Keys

LEMMA RenameOK ==
    ASSUME ClientsInv, op = NoOp, pending = NoOp, NEW c \in Listed, NEW n \in Names,
           \A x \in Listed : row[x].name # n
    PROVE  PlanOK(PlanRename(c, n))
<1> DEFINE p == PlanRename(c, n)
           r == [row[c] EXCEPT !.name = n]
           m == [meta[c] EXCEPT !.profile.name = n]
           g == disk.issued[c]
           f == [id |-> c, gen |-> g]
<1>0. DbInv /\ FilesOK(disk, row, asg, meta)
  BY ClientFacts
<1>1. /\ DOMAIN p = PlanFields /\ p.kind = "rename"
      /\ p.rows = One(c, r) /\ p.asgs = << >> /\ p.meta = One(c, m)
      /\ p.clear = {} /\ p.nets = << >> /\ p.kick = {}
      /\ p.files = [disk EXCEPT
             !.profile[<<meta[c].profile.dir, meta[c].profile.name>>] = NoFile,
             !.profile[<<meta[c].profile.dir, n>>] = f]
  BY DEF PlanRename, NoPlan, PlanFields
<1>2. /\ r \in RowType /\ r.status = row[c].status /\ r.name = n
      /\ m \in MetaType /\ m.ccd = meta[c].ccd /\ m.profile.gen = meta[c].profile.gen
      /\ ProfileOf(r, m)
  <2>1. row[c] \in RowType /\ meta[c] \in MetaType
    BY ClientFacts
  <2>2. r \in RowType /\ r.status = row[c].status /\ r.name = n
    BY <2>1 DEF RowType
  <2>3. m \in MetaType /\ m.ccd = meta[c].ccd /\ m.profile = [meta[c].profile EXCEPT !.name = n]
    BY <2>1 DEF MetaType
  <2>4. m.profile = [dir |-> Directory(r.status), name |-> r.name, gen |-> m.profile.gen]
    <3>1. /\ meta[c].profile \in [dir : {"none", "active", "revoked"}, name : Names \cup {NoName},
                                 gen : Nat]
          /\ meta[c].profile.dir = Directory(row[c].status)
      BY <2>1, ClientFacts DEF MetaType
    <3> QED
      BY <2>2, <2>3, <3>1
  <2> QED
    BY <2>1, <2>2, <2>3, <2>4, ClientFacts DEF ProfileOf, MetaType
<1>3. KeyOf(row[c]) = <<meta[c].profile.dir, meta[c].profile.name>>
      /\ KeyOf(r) = <<meta[c].profile.dir, n>> /\ KeyOf(r) \in Keys
  <2>1. meta[c].profile.dir = Directory(row[c].status) /\ meta[c].profile.name = row[c].name
    BY ClientFacts
  <2>2. KeyOf(row[c]) = <<Directory(row[c].status), row[c].name>>
        /\ KeyOf(r) = <<Directory(row[c].status), n>>
    BY <1>2 DEF KeyOf
  <2>3. Directory(row[c].status) \in {"active", "revoked"}
    BY DEF Directory
  <2> QED
    BY <2>1, <2>2, <2>3 DEF Keys
<1>4. /\ DOMAIN p.files = {"ccd", "profile", "issued", "crl"}
      /\ p.files.ccd = disk.ccd /\ p.files.issued = disk.issued /\ p.files.crl = disk.crl
      /\ p.files.profile = [disk.profile EXCEPT ![KeyOf(row[c])] = NoFile, ![KeyOf(r)] = f]
  BY <1>0, <1>1, <1>3, DiskFacts
<1> HIDE DEF p, r, m
<1>6. DbChange(c, r, asg[c], m)
  BY <1>2, ClientFacts DEF DbChange
<1>9. FilesChange(c, r, asg[c], m, g, p.files)
  <2>3. DOMAIN p.files.profile = Keys /\ \A k \in Keys : p.files.profile[k] =
               IF r.status \in Current /\ k = KeyOf(r) THEN [id |-> c, gen |-> g]
               ELSE IF c \in Listed /\ k = KeyOf(row[c]) THEN NoFile
               ELSE disk.profile[k]
    BY <1>0, <1>2, <1>3, <1>4, DiskFacts, ClientFacts
  <2>5. \A h \in 1..MaxIssues : <<c, h>> \in p.files.crl <=>
                                  h <= g /\ (r.status = "active" => h # g)
    BY <1>0, <1>2, <1>4 DEF FilesOK, CrlOK, Listed
  <2> QED
    BY <1>0, <1>2, <1>4, <2>3, <2>5, DiskFacts, ClientFacts DEF FilesChange, Current
<1>10. PlanShape(p) /\ SourceOK(p)
  BY <1>1 DEF PlanShape, Kinds, SourceOK, One
<1>11. OneClient(p, c, r, asg[c], m, g)
  BY <1>1, <1>4, <1>6, <1>9, <1>10 DEF OneClient
<1>12. PlanOK(p)
  BY <1>0, <1>11, OneClientPlan, ClientFacts
<1> QED
  BY <1>12 DEF p

LEMMA RevokeOK ==
    ASSUME ClientsInv, op = NoOp, pending = NoOp, NEW c \in Active, NEW release \in BOOLEAN
    PROVE  PlanOK(PlanRevoke(c, release))
<1> DEFINE p == PlanRevoke(c, release)
           n == meta[c].profile.name
           r == [row[c] EXCEPT !.status = "revoked"]
           a == IF release \/ asg[c] = NoAsg THEN NoAsg ELSE [asg[c] EXCEPT !.status = "retained"]
           m == [profile |-> [meta[c].profile EXCEPT !.dir = "revoked"], ccd |-> NoAddress]
           g == disk.issued[c]
<1>0. c \in Listed /\ DbInv /\ FilesOK(disk, row, asg, meta) /\ row[c].status = "active"
  BY ClientFacts DEF Listed, Active, Current
<1>1. /\ DOMAIN p = PlanFields /\ p.kind = "revoke"
      /\ p.rows = One(c, r) /\ p.asgs = One(c, a) /\ p.meta = One(c, m)
      /\ p.clear = {c} /\ p.nets = << >> /\ p.kick = {c}
      /\ p.files = [disk EXCEPT
                !.crl = @ \cup {<<c, g>>},
                !.profile[<<"active", n>>] = NoFile,
                !.profile[<<"revoked", n>>] = disk.profile[<<"active", n>>],
                !.ccd[c] = IF meta[c].ccd # NoAddress THEN NoAddress ELSE @]
  BY DEF PlanRevoke, NoPlan, PlanFields
<1>2. /\ r \in RowType /\ r.status = "revoked" /\ r.name = row[c].name
      /\ m \in MetaType /\ m.ccd = NoAddress /\ m.profile.gen = g
      /\ ProfileOf(r, m)
  <2>1. row[c] \in RowType /\ meta[c] \in MetaType
    BY <1>0, ClientFacts
  <2>2. r \in RowType /\ r.status = "revoked" /\ r.name = row[c].name
    BY <2>1 DEF RowType
  <2>3. meta[c].profile \in [dir : {"none", "active", "revoked"}, name : Names \cup {NoName},
                             gen : Nat]
    BY <2>1 DEF MetaType
  <2>4. /\ m.profile = [dir |-> "revoked", name |-> row[c].name, gen |-> g]
        /\ m.ccd = NoAddress
    BY <1>0, <2>3, ClientFacts
  <2>5. m \in MetaType
    BY <2>1, <2>3 DEF MetaType, NoAddress
  <2> QED
    BY <2>2, <2>4, <2>5 DEF ProfileOf, Directory, Current
<1>3. /\ AsgOK(a, r.status, networks)
      /\ a.kind = "static" => a.addr = asg[c].addr /\ asg[c].kind = "static"
  <2>1. AsgOK(asg[c], "active", networks)
    BY <1>0, ClientFacts
  <2>2. CASE a = NoAsg
    BY <2>2 DEF AsgOK, NoAsg
  <2>3. CASE a # NoAsg
    <3>1. asg[c] # NoAsg /\ a = [asg[c] EXCEPT !.status = "retained"]
      BY <2>3
    <3> QED
      BY <1>2, <2>1, <3>1 DEF AsgOK, Current
  <2> QED
    BY <2>2, <2>3
<1>4. /\ KeyOf(row[c]) = <<"active", n>> /\ KeyOf(r) = <<"revoked", n>>
      /\ KeyOf(row[c]) \in Keys /\ KeyOf(r) \in Keys
  <2>1. n = row[c].name /\ n \in Names
    BY <1>0, ClientFacts
  <2> QED
    BY <1>0, <1>2, <2>1 DEF KeyOf, Keys, Directory
<1> HIDE DEF r, m, a
<1>5. /\ DOMAIN p.files = {"ccd", "profile", "issued", "crl"}
      /\ DOMAIN p.files.ccd = Ids /\ p.files.ccd[c] = NoAddress
      /\ \A d \in Ids \ {c} : p.files.ccd[d] = disk.ccd[d]
      /\ p.files.issued = disk.issued /\ p.files.crl = disk.crl \cup {<<c, g>>}
      /\ p.files.profile = [disk.profile EXCEPT ![KeyOf(row[c])] = NoFile,
                                                ![KeyOf(r)] = disk.profile[KeyOf(row[c])]]
  <2>1. c \in Ids /\ meta[c].ccd = disk.ccd[c]
    BY <1>0, ClientFacts
  <2> QED
    BY <1>0, <1>1, <1>4, <2>1, DiskFacts
<1> HIDE DEF p
<1>6. DbChange(c, r, a, m)
  <2>1. /\ row[c].name \in Names /\ \A d \in Listed \ {c} : row[d].name # row[c].name
        /\ asg[c].kind = "static" =>
              \A d \in Ids \ {c} : asg[d].kind = "static" => asg[d].addr # asg[c].addr
    BY <1>0, ClientFacts
  <2> QED
    BY <1>2, <1>3, <2>1 DEF DbChange
<1>9. FilesChange(c, r, a, m, g, p.files)
  <2>1. c \in Ids /\ g \in 1..MaxIssues
    <3>1. c \in Ids /\ g \in 0..MaxIssues /\ g > 0
      BY <1>0, ClientFacts
    <3> QED
      BY <3>1
  <2>3. DOMAIN p.files.profile = Keys /\ \A k \in Keys : p.files.profile[k] =
               IF r.status \in Current /\ k = KeyOf(r) THEN [id |-> c, gen |-> g]
               ELSE IF c \in Listed /\ k = KeyOf(row[c]) THEN NoFile
               ELSE disk.profile[k]
    BY <1>0, <1>2, <1>4, <1>5, DiskFacts, ClientFacts DEF Current
  <2>5. \A h \in 1..MaxIssues : <<c, h>> \in p.files.crl <=>
                                  h <= g /\ (r.status = "active" => h # g)
    BY <1>0, <1>2, <1>5, <2>1 DEF FilesOK, CrlOK
  <2> QED
    BY <1>0, <1>2, <1>5, <2>1, <2>3, <2>5, DiskFacts DEF FilesChange
<1>10. PlanShape(p) /\ SourceOK(p)
  BY <1>0, <1>1 DEF PlanShape, Kinds, SourceOK, One, Listed
<1>11. OneClient(p, c, r, a, m, g)
  BY <1>1, <1>5, <1>6, <1>9, <1>10 DEF OneClient
<1>12. PlanOK(p)
  BY <1>0, <1>11, OneClientPlan, ClientFacts
<1> QED
  BY <1>12 DEF p

LEMMA DeleteOK ==
    ASSUME ClientsInv, op = NoOp, pending = NoOp, NEW c \in Listed
    PROVE  PlanOK(PlanDelete(c))
<1> DEFINE p == PlanDelete(c)
           r == [row[c] EXCEPT !.status = "deleted"]
           m == [profile |-> NoProfile, ccd |-> NoAddress]
           g == disk.issued[c]
<1>0. DbInv /\ FilesOK(disk, row, asg, meta) /\ c \in Ids /\ row[c].status \in Current
  BY ClientFacts
<1>1. /\ DOMAIN p = PlanFields /\ p.kind = "delete"
      /\ p.rows = One(c, r) /\ p.asgs = One(c, NoAsg) /\ p.meta = One(c, m)
      /\ p.clear = {c} /\ p.nets = << >> /\ p.kick = {c}
      /\ p.files = [disk EXCEPT
                !.crl = CrlAfter(c),
                !.profile[<<meta[c].profile.dir, meta[c].profile.name>>] = NoFile,
                !.ccd[c] = IF meta[c].ccd # NoAddress THEN NoAddress ELSE @]
  BY DEF PlanDelete, NoPlan, PlanFields
<1>2. /\ r \in RowType /\ r.status = "deleted"
      /\ m \in MetaType /\ m.ccd = NoAddress /\ ProfileOf(r, m)
  <2>1. row[c] \in RowType
    BY ClientFacts
  <2>2. r \in RowType /\ r.status = "deleted"
    BY <2>1 DEF RowType
  <2>3. m.profile = NoProfile /\ m.ccd = NoAddress /\ m \in MetaType
    BY DEF MetaType, NoProfile, NoAddress, NoName
  <2> QED
    BY <2>2, <2>3 DEF ProfileOf, Current
<1>4. KeyOf(row[c]) = <<meta[c].profile.dir, meta[c].profile.name>>
  BY ClientFacts DEF KeyOf
<1>5. /\ DOMAIN p.files = {"ccd", "profile", "issued", "crl"}
      /\ DOMAIN p.files.ccd = Ids /\ p.files.ccd[c] = NoAddress
      /\ \A d \in Ids \ {c} : p.files.ccd[d] = disk.ccd[d]
      /\ p.files.issued = disk.issued /\ p.files.crl = CrlAfter(c)
      /\ p.files.profile = [disk.profile EXCEPT ![KeyOf(row[c])] = NoFile]
  <2>1. c \in Ids /\ meta[c].ccd = disk.ccd[c]
    BY ClientFacts
  <2> QED
    BY <1>0, <1>1, <1>4, <2>1, DiskFacts
<1> HIDE DEF p, r, m
<1>6. DbChange(c, r, NoAsg, m)
  BY <1>2 DEF DbChange, AsgOK, NoAsg, Current
<1>9. FilesChange(c, r, NoAsg, m, g, p.files)
  <2>1. g \in 0..MaxIssues /\ (c \in Active => g \in 1..MaxIssues)
    <3>1. g \in 0..MaxIssues /\ (row[c].status = "active" => g > 0)
      BY ClientFacts
    <3> QED
      BY <3>1 DEF Active
  <2>3. DOMAIN p.files.profile = Keys /\ \A k \in Keys : p.files.profile[k] =
               IF r.status \in Current /\ k = KeyOf(r) THEN [id |-> c, gen |-> g]
               ELSE IF c \in Listed /\ k = KeyOf(row[c]) THEN NoFile
               ELSE disk.profile[k]
    BY <1>0, <1>2, <1>5, DiskFacts DEF Current
  <2>4. p.files.crl = IF row[c].status = "active" THEN disk.crl \cup {<<c, g>>} ELSE disk.crl
    BY <1>0, <1>5 DEF CrlAfter, Active
  <2>5. \A h \in 1..MaxIssues : <<c, h>> \in p.files.crl <=>
                                  h <= g /\ (r.status = "active" => h # g)
    BY <1>0, <1>2, <2>1, <2>4 DEF FilesOK, CrlOK, Active
  <2> QED
    BY <1>0, <1>2, <1>5, <2>1, <2>3, <2>4, <2>5, DiskFacts DEF FilesChange, Current, Active
<1>10. PlanShape(p) /\ SourceOK(p)
  BY <1>0, <1>1 DEF PlanShape, Kinds, SourceOK, One
<1>11. OneClient(p, c, r, NoAsg, m, g)
  BY <1>1, <1>5, <1>6, <1>9, <1>10 DEF OneClient, CrlAfter
<1>12. PlanOK(p)
  BY <1>0, <1>11, OneClientPlan
<1> QED
  BY <1>12 DEF p

\* The static addresses of the others are those of the listed ones.
LEMMA OthersStatic ==
    ASSUME DbInv, NEW cs, NEW d \in Ids \ cs, asg[d].kind = "static"
    PROVE  /\ asg[d].addr \in StaticOf(Listed \ cs)
           /\ asg[d].addr \in StaticRange(Network) /\ asg[d].addr # NoAddress
<1>1. AsgOK(asg[d], row[d].status, networks) /\ Network \in Configs
  BY DEF DbInv, DbOK, AsgsOK, NetsOK, Network, NetId
<1>2. row[d].status \in Current /\ asg[d].addr \in StaticRange(Network)
  BY <1>1 DEF AsgOK, NoAsg, Network, NetId
<1>3. asg[d].addr # NoAddress
  BY <1>1, <1>2, RangeAddresses
<1> QED
  BY <1>2, <1>3 DEF StaticOf, Listed

LEMMA ReissueOK ==
    ASSUME ClientsInv, op = NoOp, pending = NoOp, NEW c \in Listed, disk.issued[c] < MaxIssues,
           NEW sel \in Selections \cup {Keep}, NEW a \in PlanReissueAssignment(c, sel)
    PROVE  PlanOK(PlanReissue(c, a))
<1> DEFINE p == PlanReissue(c, a)
           n == row[c].name
           g == disk.issued[c] + 1
           r == [row[c] EXCEPT !.status = "active"]
           m == [profile |-> [dir |-> "active", name |-> n, gen |-> g], ccd |-> a.addr]
           f == [id |-> c, gen |-> g]
           gone == IF c \in Active THEN disk.profile[<<"revoked", n>>] ELSE NoFile
<1>0. /\ DbInv /\ FilesOK(disk, row, asg, meta) /\ c \in Ids /\ row[c].status \in Current
      /\ n \in Names
  BY ClientFacts
<1>1. /\ DOMAIN p = PlanFields /\ p.kind = "reissue"
      /\ p.rows = One(c, r) /\ p.asgs = One(c, a) /\ p.meta = One(c, m)
      /\ p.clear = {c} /\ p.nets = << >> /\ p.kick = {c}
      /\ p.files = [disk EXCEPT
                !.issued[c] = g,
                !.crl = CrlAfter(c),
                !.profile[<<"revoked", n>>] = IF c \in Active THEN @ ELSE NoFile,
                !.profile[<<"active", n>>] = f,
                !.ccd[c] = IF a.kind = "static" \/ meta[c].ccd # NoAddress THEN a.addr ELSE @]
  BY DEF PlanReissue, ReissuedCcd, NoPlan, PlanFields
<1>2. g \in 1..MaxIssues
  <2>1. disk.issued[c] \in 0..MaxIssues
    BY ClientFacts
  <2> QED
    BY <2>1, BoundsAssumption
<1>3. /\ AsgOK(a, "active", networks)
      /\ a.kind = "static" => \A d \in Ids \ {c} : asg[d].kind = "static" => asg[d].addr # a.addr
  <2>1. CASE sel = Keep /\ asg[c] # NoAsg
    <3>1. a = [asg[c] EXCEPT !.status = "active"]
      BY <2>1 DEF PlanReissueAssignment
    <3>2. /\ AsgOK(asg[c], row[c].status, networks)
          /\ asg[c].kind = "static" =>
                \A d \in Ids \ {c} : asg[d].kind = "static" => asg[d].addr # asg[c].addr
      BY ClientFacts
    <3>3. AsgOK(a, "active", networks) /\ a.kind = asg[c].kind /\ a.addr = asg[c].addr
      BY <2>1, <3>1, <3>2 DEF AsgOK, Current
    <3> QED
      BY <3>2, <3>3
  <2>2. CASE ~(sel = Keep /\ asg[c] # NoAsg)
    <3> DEFINE s == IF sel = Keep THEN Automatic ELSE sel
               used == StaticOf(Listed \ {c})
    <3>1. a \in PlanAssignment(used, s) /\ s.mode \in {"dynamic", "auto", "static"}
      BY <2>2 DEF PlanReissueAssignment, Selections, Dynamic, Automatic, Explicit
    <3>2. \A d \in Ids \ {c} : asg[d].kind = "static" => asg[d].addr \in used
      BY <1>0, OthersStatic
    <3> HIDE DEF s, used
    <3>3. AsgOK(a, "active", networks) /\ (a.kind = "static" => a.addr \notin used)
      BY <1>0, <3>1, PlannedAssignment
    <3> QED
      BY <3>2, <3>3
  <2> QED
    BY <2>1, <2>2
<1>4. /\ a.addr \in Nat /\ (a.kind # "static" => a.addr = NoAddress)
  BY <1>3 DEF AsgOK, NoAsg, NoAddress
<1>5. /\ r \in RowType /\ r.status = "active" /\ r.name = n
      /\ m \in MetaType /\ m.ccd = a.addr /\ m.profile.gen = g
      /\ ProfileOf(r, m)
  <2>1. row[c] \in RowType
    BY ClientFacts
  <2>2. r \in RowType /\ r.status = "active" /\ r.name = n
    BY <2>1 DEF RowType
  <2>3. /\ m.profile = [dir |-> "active", name |-> n, gen |-> g] /\ m.ccd = a.addr
        /\ m \in MetaType
    BY <1>0, <1>2, <1>4 DEF MetaType
  <2> QED
    BY <2>2, <2>3 DEF ProfileOf, Directory, Current
<1>6. /\ KeyOf(r) = <<"active", n>> /\ <<"active", n>> \in Keys /\ <<"revoked", n>> \in Keys
      /\ KeyOf(row[c]) = IF c \in Active THEN <<"active", n>> ELSE <<"revoked", n>>
  BY <1>0, <1>5 DEF KeyOf, Keys, Directory, Active, Current
<1> HIDE DEF r, m
<1>7. /\ DOMAIN p.files = {"ccd", "profile", "issued", "crl"}
      /\ DOMAIN p.files.ccd = Ids /\ p.files.ccd[c] = a.addr
      /\ \A d \in Ids \ {c} : /\ p.files.ccd[d] = disk.ccd[d]
                               /\ p.files.issued[d] = disk.issued[d]
      /\ p.files.issued \in [Ids -> 0..MaxIssues] /\ p.files.issued[c] = g
      /\ p.files.crl = CrlAfter(c)
      /\ p.files.profile = [disk.profile EXCEPT ![<<"revoked", n>>] = gone, ![<<"active", n>>] = f]
  <2>1. meta[c].ccd = disk.ccd[c]
    BY ClientFacts
  <2>2. g \in 0..MaxIssues
    BY <1>2
  <2> HIDE DEF g
  <2> QED
    BY <1>0, <1>1, <1>4, <2>1, <2>2, DiskFacts
<1> HIDE DEF p
<1>8. DbChange(c, r, a, m)
  <2>1. \A d \in Listed \ {c} : row[d].name # n
    BY ClientFacts
  <2> QED
    BY <1>0, <1>3, <1>5, <2>1 DEF DbChange
<1>9. FilesChange(c, r, a, m, g, p.files)
  <2>3. DOMAIN p.files.profile = Keys /\ \A k \in Keys : p.files.profile[k] =
               IF r.status \in Current /\ k = KeyOf(r) THEN [id |-> c, gen |-> g]
               ELSE IF c \in Listed /\ k = KeyOf(row[c]) THEN NoFile
               ELSE disk.profile[k]
    BY <1>0, <1>5, <1>6, <1>7, DiskFacts DEF Current
  <2>4. /\ p.files.crl = IF row[c].status = "active" THEN disk.crl \cup {<<c, g - 1>>}
                         ELSE disk.crl
        /\ row[c].status = "active" => g - 1 \in 1..MaxIssues
    <3>1. disk.issued[c] \in 0..MaxIssues /\ (row[c].status = "active" => disk.issued[c] > 0)
      BY ClientFacts
    <3>2. g - 1 = disk.issued[c]
      BY <3>1
    <3>3. row[c].status = "active" => disk.issued[c] \in 1..MaxIssues
      BY <3>1
    <3> QED
      BY <1>0, <1>7, <3>2, <3>3 DEF CrlAfter, Active
  <2>5. \A h \in 1..MaxIssues : <<c, h>> \in p.files.crl <=>
                                  h <= g /\ (r.status = "active" => h # g)
    <3>1. \A h \in 1..MaxIssues : <<c, h>> \in disk.crl <=>
              h <= disk.issued[c] /\ (row[c].status = "active" => h # disk.issued[c])
      BY <1>0 DEF FilesOK, CrlOK
    <3>2. disk.issued[c] \in Nat
      <4>1. disk.issued[c] \in 0..MaxIssues
        BY ClientFacts
      <4> QED
        BY <4>1
    <3> QED
      BY <1>5, <2>4, <3>1, <3>2
  <2> QED
    BY <1>0, <1>2, <1>5, <1>7, <2>3, <2>4, <2>5, DiskFacts DEF FilesChange
<1>10. PlanShape(p) /\ SourceOK(p)
  BY <1>0, <1>1 DEF PlanShape, Kinds, SourceOK, One
<1>11. OneClient(p, c, r, a, m, g)
  BY <1>1, <1>7, <1>8, <1>9, <1>10 DEF OneClient, CrlAfter
<1>12. PlanOK(p)
  BY <1>0, <1>11, OneClientPlan
<1> QED
  BY <1>12 DEF p

\* A change of assignments, CCD files and their metadata only.
AddressChange(p, asgs, metas) ==
    LET nets == networks \o p.nets
    IN  /\ PlanShape(p) /\ SourceOK(p)
        /\ Override(row, p.rows) = row /\ Override(asg, p.asgs) = asgs
        /\ Override(meta, p.meta) = metas
        /\ NetsOK(nets) /\ AsgsOK(row, asgs, nets)
        /\ metas \in [Ids -> MetaType]
        /\ LeasesOK(p, asgs) /\ (p.nets # << >> => RemapOK(asgs, nets))
        /\ DOMAIN p.files = {"ccd", "profile", "issued", "crl"}
        /\ DOMAIN p.files.ccd = Ids
        /\ \A c \in Ids :
              /\ metas[c].profile = meta[c].profile
              /\ metas[c].ccd = p.files.ccd[c]
              /\ p.files.ccd[c] = IF row[c].status = "active" THEN asgs[c].addr ELSE NoAddress
        /\ p.files.profile = disk.profile /\ p.files.issued = disk.issued
        /\ p.files.crl = disk.crl

LEMMA AddressChangePlan ==
    ASSUME DbInv, FilesOK(disk, row, asg, meta), NEW p, NEW asgs, NEW metas,
           AddressChange(p, asgs, metas)
    PROVE  PlanOK(p)
<1> DEFINE nets == networks \o p.nets
<1>1. /\ PlanShape(p) /\ SourceOK(p)
      /\ Override(row, p.rows) = row /\ Override(asg, p.asgs) = asgs
      /\ Override(meta, p.meta) = metas
      /\ LeasesOK(p, asgs) /\ (p.nets # << >> => RemapOK(asgs, nets))
      /\ disk.crl \subseteq p.files.crl
  BY DEF AddressChange
<1>2. DbOK(row, asgs, metas, nets)
  <2>1. RowsOK(row) /\ NetsOK(nets) /\ AsgsOK(row, asgs, nets)
    BY DEF AddressChange, DbInv, DbOK
  <2>2. MetasOK(row, metas)
    <3>1. /\ metas \in [Ids -> MetaType]
          /\ \A c \in Ids : metas[c].profile = meta[c].profile
      BY DEF AddressChange
    <3> QED
      BY <3>1 DEF DbInv, DbOK, MetasOK, MetaType
  <2> QED
    BY <2>1, <2>2 DEF DbOK
<1>3. FilesOK(p.files, row, asgs, metas)
  <2>1. /\ DOMAIN p.files = {"ccd", "profile", "issued", "crl"} /\ DOMAIN p.files.ccd = Ids
        /\ p.files.profile = disk.profile /\ p.files.issued = disk.issued
        /\ p.files.crl = disk.crl
        /\ \A c \in Ids : metas[c].profile = meta[c].profile
    BY DEF AddressChange
  <2>2. FilesType(p.files) /\ CrlOK(p.files, row)
    BY <2>1 DEF FilesOK, FilesType, CrlOK
  <2>3. CcdOK(p.files, row, asgs, metas)
    BY DEF AddressChange, CcdOK
  <2>4. ProfilesOK(p.files, row, metas)
    BY <2>1 DEF FilesOK, ProfilesOK
  <2> QED
    BY <2>2, <2>3, <2>4 DEF FilesOK
<1> QED
  BY <1>1, <1>2, <1>3 DEF PlanOK

\* Assignments for some of the listed clients that respect the others.
GoodAddresses(cs, as) ==
    /\ cs \subseteq Listed /\ as \in [cs -> AsgType]
    /\ \A c \in cs : AsgOK(as[c], row[c].status, networks)
    /\ \A c, d \in cs : (c # d /\ as[c].kind = "static" /\ as[d].kind = "static")
                            => as[c].addr # as[d].addr
    /\ \A c \in cs : \A d \in Ids \ cs : (as[c].kind = "static" /\ asg[d].kind = "static")
                                            => as[c].addr # asg[d].addr

LEMMA AddressesOK ==
    ASSUME ClientsInv, op = NoOp, pending = NoOp, NEW cs, NEW as, GoodAddresses(cs, as),
           NEW kind \in {"set", "edit", "release"},
           kind = "release" => \A c \in cs : row[c].status = "revoked"
    PROVE  PlanOK(PlanAddresses(kind, as))
<1> DEFINE p == PlanAddresses(kind, as)
           asgs == Override(asg, as)
           ms == [c \in cs |-> [meta[c] EXCEPT !.ccd = CcdOf(c, as[c])]]
           metas == Override(meta, ms)
           ccd == [c \in Ids |-> IF c \in cs /\ (CcdOf(c, as[c]) # NoAddress
                                                 \/ meta[c].ccd # NoAddress)
                                 THEN CcdOf(c, as[c]) ELSE disk.ccd[c]]
<1>0. DbInv /\ FilesOK(disk, row, asg, meta) /\ cs \subseteq Ids /\ DOMAIN as = cs
  BY DEF ClientsInv, JournalInv, GoodAddresses, Listed
<1>1. /\ row \in [Ids -> RowType] /\ asg \in [Ids -> AsgType] /\ meta \in [Ids -> MetaType]
      /\ networks \in Seq(Configs)
  BY <1>0 DEF DbInv, DbOK, RowsOK, AsgsOK, MetasOK, NetsOK, RowType, MetaType
<1>2. [c \in cs |-> as[c]] = as
  BY DEF GoodAddresses
<1>3. /\ DOMAIN p = PlanFields /\ p.kind = kind
      /\ p.rows = [c \in cs |-> row[c]] /\ p.asgs = as /\ p.meta = ms
      /\ p.clear = cs /\ p.nets = << >> /\ p.kick = cs \cap Active
      /\ p.files = [disk EXCEPT !.ccd = ccd]
  BY <1>0, <1>2 DEF PlanAddresses, NoPlan, PlanFields
<1>4. /\ DOMAIN p.files = {"ccd", "profile", "issued", "crl"} /\ p.files.ccd = ccd
      /\ p.files.profile = disk.profile /\ p.files.issued = disk.issued
      /\ p.files.crl = disk.crl
  BY <1>0, <1>3, DiskFacts
<1>5. networks \o p.nets = networks
  BY <1>1, <1>3, NoNets
<1>6. Override(row, p.rows) = row
  BY <1>1, <1>3 DEF Override
<1>7. /\ DOMAIN asgs = Ids /\ \A c \in Ids : asgs[c] = IF c \in cs THEN as[c] ELSE asg[c]
      /\ \A c \in Ids : asgs[c] \in AsgType
  BY <1>0, <1>1 DEF Override, GoodAddresses
<1>7a. asgs \in [Ids -> AsgType]
  BY <1>1, <1>7 DEF Override
<1>8. AsgsOK(row, asgs, networks)
  <2>1. \A c \in Ids : AsgOK(asgs[c], row[c].status, networks)
    BY <1>0, <1>7 DEF DbInv, DbOK, AsgsOK, GoodAddresses
  <2>2. ASSUME NEW c \in Ids, NEW d \in Ids, c # d,
               asgs[c].kind = "static", asgs[d].kind = "static"
        PROVE  asgs[c].addr # asgs[d].addr
    <3> HIDE DEF asgs
    <3>1. CASE c \in cs /\ d \in cs
      BY <1>7, <2>2, <3>1 DEF GoodAddresses
    <3>2. CASE c \in cs /\ d \notin cs
      BY <1>7, <2>2, <3>2 DEF GoodAddresses
    <3>3. CASE c \notin cs /\ d \in cs
      BY <1>7, <2>2, <3>3 DEF GoodAddresses
    <3>4. CASE c \notin cs /\ d \notin cs
      BY <1>0, <1>7, <2>2, <3>4 DEF DbInv, DbOK, AsgsOK
    <3> QED
      BY <3>1, <3>2, <3>3, <3>4
  <2> QED
    BY <1>7a, <2>1, <2>2 DEF AsgsOK
<1>9. /\ metas \in [Ids -> MetaType]
      /\ \A c \in Ids : metas[c].profile = meta[c].profile
      /\ \A c \in Ids : metas[c].ccd = IF c \in cs THEN CcdOf(c, as[c]) ELSE meta[c].ccd
  <2>1. \A c \in cs : CcdOf(c, as[c]) \in Nat
    BY DEF CcdOf, GoodAddresses, AsgType, NoAddress
  <2>2. \A c \in cs : /\ ms[c] \in MetaType /\ ms[c].profile = meta[c].profile
                      /\ ms[c].ccd = CcdOf(c, as[c])
    BY <1>0, <1>1, <2>1 DEF MetaType
  <2>3. DOMAIN ms = cs
    OBVIOUS
  <2> HIDE DEF ms
  <2> QED
    BY <1>1, <2>2, <2>3 DEF Override
<1>10. ASSUME NEW c \in Ids
       PROVE  /\ metas[c].ccd = ccd[c]
              /\ ccd[c] = IF row[c].status = "active" THEN asgs[c].addr ELSE NoAddress
  <2>1. /\ meta[c].ccd = disk.ccd[c]
        /\ disk.ccd[c] = IF row[c].status = "active" THEN asg[c].addr ELSE NoAddress
    BY <1>0 DEF FilesOK, CcdOK
  <2> QED
    BY <1>7, <1>9, <2>1 DEF CcdOf
<1>11. SourceOK(p) /\ PlanShape(p)
  BY <1>0, <1>3 DEF SourceOK, PlanShape, Kinds
<1> HIDE DEF p, asgs, metas, ccd
<1>12. LeasesOK(p, asgs)
  BY <1>3, <1>7 DEF LeasesOK
<1>13. NetsOK(networks)
  BY <1>0 DEF DbInv, DbOK
<1>14. DOMAIN ccd = Ids
  BY DEF ccd
<1>15. AddressChange(p, asgs, metas)
  BY <1>3, <1>4, <1>5, <1>6, <1>8, <1>9, <1>10, <1>11, <1>12, <1>13, <1>14
     DEF AddressChange, asgs, metas
<1>16. PlanOK(p)
  BY <1>0, <1>15, AddressChangePlan
<1> QED
  BY <1>16 DEF p

\* ForStatus changes the state of an assignment only.
LEMMA ForStatusOK ==
    ASSUME NEW c \in Listed, NEW a, NEW s, NEW nets, AsgOK(a, s, nets), a # NoAsg
    PROVE  /\ AsgOK(ForStatus(c, a), row[c].status, nets)
           /\ ForStatus(c, a).kind = a.kind /\ ForStatus(c, a).addr = a.addr
           /\ ForStatus(c, a) \in AsgType
  BY DEF AsgOK, ForStatus, Listed, AsgType

\* applyAddressesLocked gives no address twice and none another client holds.
LEMMA PlannedAddresses ==
    ASSUME DbInv, NEW cs \in SUBSET Listed, NEW sels \in [cs -> Selections],
           NEW as \in AddressPlans(cs, sels)
    PROVE  GoodAddresses(cs, [c \in cs |-> ForStatus(c, as[c])])
<1> DEFINE earlier(c) == {as[d].addr : d \in {x \in cs : row[x].name < row[c].name}}
           used(c) == (StaticOf(Listed \ cs) \cup earlier(c)) \ {NoAddress}
           bs == [c \in cs |-> ForStatus(c, as[c])]
<1>1. \A c \in cs : as[c] \in PlanAssignment(used(c), sels[c])
  BY DEF AddressPlans
<1>2. \A c \in cs : sels[c].mode \in {"dynamic", "auto", "static"}
  BY DEF Selections, Dynamic, Automatic, Explicit
<1>3. ASSUME NEW c \in cs
      PROVE  /\ AsgOK(as[c], "active", networks) /\ as[c] # NoAsg
             /\ as[c].kind = "static" => as[c].addr \in StaticRange(Network) \ used(c)
  <2> DEFINE u == used(c)
             sel == sels[c]
             a == as[c]
  <2>1. a \in PlanAssignment(u, sel) /\ sel.mode \in {"dynamic", "auto", "static"}
    BY <1>1, <1>2
  <2> HIDE DEF used, u, sel, a
  <2>2. /\ AsgOK(a, "active", networks)
        /\ a.kind \in {"dynamic", "static"}
        /\ a.kind = "static" => a.addr \in StaticRange(Network) \ u
    BY <2>1, PlannedAssignment
  <2>3. a # NoAsg
    BY <2>2 DEF NoAsg
  <2> QED
    BY <2>2, <2>3 DEF u, a
<1>4. ASSUME NEW c \in cs
      PROVE  /\ bs[c] \in AsgType /\ AsgOK(bs[c], row[c].status, networks)
             /\ bs[c].kind = as[c].kind /\ bs[c].addr = as[c].addr
  BY <1>3, ForStatusOK
<1>5. ASSUME NEW c \in cs, NEW d \in cs, as[c].kind = "static", as[d].kind = "static",
             row[d].name < row[c].name
      PROVE  as[c].addr # as[d].addr
  <2>1. Network \in Configs
    BY DEF DbInv, DbOK, NetsOK, Network, NetId
  <2>2. as[d].addr # NoAddress
    BY <1>3, <1>5, <2>1, RangeAddresses
  <2>3. as[d].addr \in earlier(c)
    BY <1>5
  <2> HIDE DEF earlier
  <2> QED
    BY <1>3, <1>5, <2>2, <2>3
<1>6. ASSUME NEW c \in cs, NEW d \in cs, c # d, as[c].kind = "static", as[d].kind = "static"
      PROVE  as[c].addr # as[d].addr
  <2>1. row[c].name \in Nat /\ row[d].name \in Nat /\ row[c].name # row[d].name
    BY <1>6, NamesAssumption DEF DbInv, DbOK, RowsOK, Listed
  <2>2. row[c].name < row[d].name \/ row[d].name < row[c].name
    BY <2>1
  <2> QED
    BY <1>5, <1>6, <2>2
<1>7. ASSUME NEW c \in cs, NEW d \in Ids \ cs, as[c].kind = "static", asg[d].kind = "static"
      PROVE  as[c].addr # asg[d].addr
  <2>1. asg[d].addr \in StaticOf(Listed \ cs) /\ asg[d].addr # NoAddress
    BY <1>7, OthersStatic
  <2> HIDE DEF earlier
  <2> QED
    BY <1>3, <1>7, <2>1
<1>8. bs \in [cs -> AsgType]
  BY <1>4
<1> HIDE DEF bs
<1>9. GoodAddresses(cs, bs)
  <2>1. \A c, d \in cs : (c # d /\ bs[c].kind = "static" /\ bs[d].kind = "static")
                             => bs[c].addr # bs[d].addr
    BY <1>4, <1>6
  <2>2. \A c \in cs : \A d \in Ids \ cs : (bs[c].kind = "static" /\ asg[d].kind = "static")
                                             => bs[c].addr # asg[d].addr
    BY <1>4, <1>7
  <2>3. \A c \in cs : AsgOK(bs[c], row[c].status, networks)
    BY <1>4
  <2> QED
    BY <1>8, <2>1, <2>2, <2>3 DEF GoodAddresses
<1> QED
  BY <1>9 DEF bs

LEMMA AddressSetOK ==
    ASSUME ClientsInv, op = NoOp, pending = NoOp, NEW c \in Listed, NEW sel \in Selections,
           NEW as \in AddressPlans({c}, One(c, sel))
    PROVE  PlanOK(PlanAddresses("set", One(c, ForStatus(c, as[c]))))
<1>1. DbInv /\ {c} \in SUBSET Listed /\ One(c, sel) \in [{c} -> Selections]
  BY DEF ClientsInv, One
<1>2. GoodAddresses({c}, [x \in {c} |-> ForStatus(x, as[x])])
  BY <1>1, PlannedAddresses
<1>3. [x \in {c} |-> ForStatus(x, as[x])] = One(c, ForStatus(c, as[c]))
  BY DEF One
<1> QED
  BY <1>2, <1>3, AddressesOK

LEMMA AddressEditOK ==
    ASSUME ClientsInv, op = NoOp, pending = NoOp, NEW cs \in SUBSET Active,
           NEW sels \in [cs -> Selections], NEW as \in AddressPlans(cs, sels)
    PROVE  PlanOK(PlanAddresses("edit", [c \in cs |-> ForStatus(c, as[c])]))
<1>1. DbInv /\ cs \in SUBSET Listed
  BY DEF ClientsInv, Active, Listed, Current
<1>2. GoodAddresses(cs, [c \in cs |-> ForStatus(c, as[c])])
  BY <1>1, PlannedAddresses
<1> QED
  BY <1>2, AddressesOK

LEMMA AddressReleaseOK ==
    ASSUME ClientsInv, op = NoOp, pending = NoOp, NEW c \in Ids, row[c].status = "revoked"
    PROVE  PlanOK(PlanAddresses("release", One(c, NoAsg)))
<1>1. {c} \subseteq Listed /\ One(c, NoAsg) \in [{c} -> AsgType] /\ One(c, NoAsg)[c] = NoAsg
  BY DEF Listed, Current, One, AsgType, NoAsg, NoAddress
<1>2. GoodAddresses({c}, One(c, NoAsg))
  BY <1>1 DEF GoodAddresses, AsgOK, NoAsg
<1> QED
  BY <1>2, AddressesOK

\* The remapped assignments are good in the network the plan adds.
LEMMA RemappedGood ==
    ASSUME DbInv, NEW n \in Configs, NEW f \in RemapPlans(n), NEW nets,
           Len(nets) = NetId + 1, nets[Len(nets)] = n
    PROVE  /\ DOMAIN Remapped(f) = {c \in Ids : asg[c] # NoAsg}
           /\ DOMAIN Remapped(f) \subseteq Listed
           /\ AsgsOK(row, Override(asg, Remapped(f)), nets)
           /\ RemapOK(Override(asg, Remapped(f)), nets)
<1> DEFINE st == Assigned("static")
           old == [c \in st |-> asg[c].addr]
           name == [c \in st |-> row[c].name]
           as == Remapped(f)
           asgs == Override(asg, as)
<1>1. /\ \A c \in Ids : AsgOK(asg[c], row[c].status, networks)
      /\ asg \in [Ids -> AsgType] /\ NetId \in Nat
  BY DEF DbInv, DbOK, AsgsOK, NetsOK, NetId
<1>2. st \subseteq Listed /\ \A c \in st : asg[c].kind = "static"
  BY DEF Assigned
<1>3. /\ f \in [st -> StaticRange(n)]
      /\ \A c \in st : asg[c].addr \in StaticRange(n) => f[c] = asg[c].addr
      /\ \A c, d \in st : c # d => f[c] # f[d]
  <2>1. f \in RemapStatic(n, old, name)
    BY DEF RemapPlans
  <2>2. \A c, d \in st : c # d => old[c] # old[d] /\ name[c] # name[d]
    BY <1>2 DEF DbInv, DbOK, AsgsOK, RowsOK, Listed
  <2>3. \A c \in st : name[c] \in Nat
    BY <1>2, NamesAssumption DEF DbInv, DbOK, RowsOK, Listed
  <2>4. DOMAIN old = st /\ \A c \in st : old[c] = asg[c].addr
    OBVIOUS
  <2> HIDE DEF old, name, st
  <2>5. /\ f \in [DOMAIN old -> StaticRange(n)]
        /\ \A c \in DOMAIN old : old[c] \in StaticRange(n) => f[c] = old[c]
        /\ \A c, d \in DOMAIN old : c # d => f[c] # f[d]
    BY <2>1, <2>2, <2>3, <2>4, RemapInjective
  <2> QED
    BY <2>4, <2>5
<1>4. \A c \in Ids : asg[c] # NoAsg <=> c \in st \cup Assigned("dynamic")
  BY <1>1 DEF Assigned, AsgOK, NoAsg, Listed
<1>5. DOMAIN as = st \cup Assigned("dynamic")
  BY DEF Remapped
<1>6. DOMAIN as = {c \in Ids : asg[c] # NoAsg} /\ DOMAIN as \subseteq Listed
  BY <1>4, <1>5 DEF Assigned, Listed
<1>7. ASSUME NEW c \in DOMAIN as
      PROVE  /\ as[c].kind = asg[c].kind /\ as[c].status = asg[c].status
             /\ as[c].addr = IF asg[c].kind = "static" THEN f[c] ELSE NoAddress
             /\ AsgOK(as[c], row[c].status, nets) /\ as[c] \in AsgType
  <2> DEFINE b == [asg[c] EXCEPT !.net = NetId + 1,
                                 !.addr = IF asg[c].kind = "static" THEN f[c] ELSE NoAddress]
  <2>1. c \in Ids /\ c \in Listed /\ asg[c] # NoAsg /\ AsgOK(asg[c], row[c].status, networks)
    BY <1>1, <1>6 DEF Listed
  <2>2. asg[c].kind = "static" => c \in st
    BY <2>1 DEF Assigned
  <2>3. asg[c].kind = "static" => f[c] \in StaticRange(n) /\ f[c] \in Nat
    BY <1>3, <2>2, RangeAddresses
  <2>4. /\ b.kind = asg[c].kind /\ b.status = asg[c].status
        /\ b.addr = IF asg[c].kind = "static" THEN f[c] ELSE NoAddress
        /\ b.net = NetId + 1
        /\ b \in [kind : {"dynamic", "static"}, addr : Nat, status : {"active", "retained"},
                  net : Nat]
    <3> DEFINE x == IF asg[c].kind = "static" THEN f[c] ELSE NoAddress
    <3>1. x \in Nat /\ NetId + 1 \in Nat
      BY <1>1, <2>3 DEF NoAddress
    <3>2. asg[c] \in [kind : {"dynamic", "static"}, addr : Nat, status : {"active", "retained"},
                      net : Nat]
      BY <2>1 DEF AsgOK
    <3> HIDE DEF x
    <3>3. b = [asg[c] EXCEPT !.net = NetId + 1, !.addr = x]
      BY DEF x
    <3>4. /\ b.kind = asg[c].kind /\ b.status = asg[c].status /\ b.addr = x /\ b.net = NetId + 1
          /\ b \in [kind : {"dynamic", "static"}, addr : Nat, status : {"active", "retained"},
                    net : Nat]
      BY <3>1, <3>2, <3>3
    <3> QED
      BY <3>4 DEF x
  <2>5. as[c] = ForStatus(c, b)
    BY <1>5 DEF Remapped
  <2> HIDE DEF b
  <2>6. AsgOK(b, row[c].status, nets) /\ b # NoAsg
    BY <1>1, <2>1, <2>3, <2>4 DEF AsgOK, NoAsg
  <2>7. /\ AsgOK(as[c], row[c].status, nets) /\ as[c].kind = b.kind /\ as[c].addr = b.addr
        /\ as[c] \in AsgType
    BY <2>1, <2>5, <2>6, ForStatusOK
  <2>8. as[c].status = asg[c].status
    <3>1. as[c].status = IF row[c].status = "active" THEN "active" ELSE "retained"
      BY <2>4, <2>5 DEF ForStatus
    <3>2. asg[c].status = IF row[c].status = "active" THEN "active" ELSE "retained"
      BY <2>1 DEF AsgOK
    <3> QED
      BY <3>1, <3>2
  <2> QED
    BY <2>4, <2>7, <2>8
<1> HIDE DEF as
<1>8. /\ DOMAIN asgs = Ids
      /\ \A c \in Ids : asgs[c] = IF c \in DOMAIN as THEN as[c] ELSE NoAsg
      /\ \A c \in Ids \ DOMAIN as : asg[c] = NoAsg
  BY <1>1, <1>6 DEF Override
<1>9. asgs \in [Ids -> AsgType]
  <2>1. \A c \in Ids : asgs[c] \in AsgType
    <3> HIDE DEF asgs
    <3>1. NoAsg \in AsgType
      BY DEF AsgType, NoAsg, NoAddress
    <3> QED
      BY <1>7, <1>8, <3>1
  <2> QED
    BY <1>1, <2>1 DEF Override
<1> HIDE DEF asgs
<1>10. \A c \in Ids : AsgOK(asgs[c], row[c].status, nets)
  BY <1>7, <1>8 DEF AsgOK
<1>11. ASSUME NEW c \in Ids, asgs[c].kind = "static"
       PROVE  c \in st /\ asgs[c].addr = f[c]
  <2>1. c \in DOMAIN as
    <3>1. NoAsg.kind # "static"
      BY DEF NoAsg
    <3> QED
      BY <1>8, <1>11, <3>1
  <2>2. asg[c].kind = "static" /\ asgs[c].addr = f[c] /\ c \in Listed
    BY <1>6, <1>7, <1>8, <1>11, <2>1
  <2> QED
    BY <2>2 DEF Assigned
<1>12. AsgsOK(row, asgs, nets)
  BY <1>3, <1>9, <1>10, <1>11 DEF AsgsOK
<1>13. RemapOK(asgs, nets)
  <2> SUFFICES ASSUME NEW c \in Ids
               PROVE  /\ asgs[c].kind = asg[c].kind /\ asgs[c].status = asg[c].status
                      /\ (asg[c].kind = "static" /\ asg[c].addr \in StaticRange(n))
                            => asgs[c].addr = asg[c].addr
    BY DEF RemapOK
  <2>1. CASE c \in DOMAIN as
    <3>1. asg[c].kind = "static" => c \in st
      BY <1>6, <2>1 DEF Assigned
    <3> QED
      BY <1>3, <1>7, <1>8, <2>1, <3>1
  <2>2. CASE c \notin DOMAIN as
    BY <1>8, <2>2
  <2> QED
    BY <2>1, <2>2
<1> QED
  BY <1>6, <1>12, <1>13 DEF as, asgs

LEMMA ConfigurationOK ==
    ASSUME ClientsInv, op = NoOp, pending = NoOp, NEW n \in Configs, NetId < MaxNetworks[focus],
           NEW f \in RemapPlans(n)
    PROVE  PlanOK(PlanConfiguration(n, f))
<1> DEFINE p == PlanConfiguration(n, f)
           as == Remapped(f)
           asgs == Override(asg, as)
           nets == networks \o <<n>>
           new(c) == IF c \in DOMAIN as THEN CcdOf(c, as[c]) ELSE NoAddress
           ms == [c \in Listed |-> [meta[c] EXCEPT !.ccd = new(c)]]
           metas == Override(meta, ms)
           ccd == [c \in Ids |-> IF c \in Listed THEN new(c) ELSE disk.ccd[c]]
<1>0. DbInv /\ FilesOK(disk, row, asg, meta) /\ focus \in Onlookers
  BY DEF ClientsInv, JournalInv
<1>1. /\ row \in [Ids -> RowType] /\ asg \in [Ids -> AsgType] /\ meta \in [Ids -> MetaType]
      /\ networks \in Seq(Configs) /\ NetId \in 1..MaxNetworks[focus]
      /\ MaxNetworks[focus] \in Nat
  BY <1>0, BoundsAssumption
     DEF DbInv, DbOK, RowsOK, AsgsOK, MetasOK, NetsOK, RowType, MetaType, NetId
<1>2. nets \in Seq(Configs) /\ Len(nets) = NetId + 1 /\ nets[Len(nets)] = n
  BY <1>1 DEF NetId
<1>3. NetsOK(nets)
  BY <1>1, <1>2 DEF NetsOK
<1>4. /\ DOMAIN as = {c \in Ids : asg[c] # NoAsg} /\ DOMAIN as \subseteq Listed
      /\ AsgsOK(row, asgs, nets) /\ RemapOK(asgs, nets)
  <2> HIDE DEF nets
  <2> QED
    BY <1>0, <1>2, RemappedGood
<1>5. /\ DOMAIN p = PlanFields /\ p.kind = "config"
      /\ p.rows = [c \in DOMAIN as |-> row[c]] /\ p.asgs = as /\ p.meta = ms
      /\ p.clear = Ids /\ p.nets = <<n>> /\ p.kick = {}
      /\ p.files = [disk EXCEPT !.ccd = ccd]
  BY DEF PlanConfiguration, NoPlan, PlanFields
<1>6. /\ DOMAIN p.files = {"ccd", "profile", "issued", "crl"} /\ p.files.ccd = ccd
      /\ p.files.profile = disk.profile /\ p.files.issued = disk.issued
      /\ p.files.crl = disk.crl
  BY <1>0, <1>5, DiskFacts
<1> HIDE DEF as
<1>7. Override(row, p.rows) = row
  <2>1. p.rows = [c \in DOMAIN as |-> row[c]]
    BY <1>5
  <2> QED
    BY <1>1, <2>1 DEF Override
<1>8. \A c \in Ids : asgs[c] \in AsgType /\ asgs[c] = IF c \in DOMAIN as THEN as[c] ELSE asg[c]
  <2>1. asgs \in [Ids -> AsgType]
    BY <1>4 DEF AsgsOK
  <2> QED
    BY <1>1, <2>1 DEF Override
<1>9. ASSUME NEW c \in Ids
      PROVE  new(c) = IF row[c].status = "active" THEN asgs[c].addr ELSE NoAddress
  <2>1. c \notin DOMAIN as => asgs[c] = NoAsg
    BY <1>4, <1>8
  <2>2. NoAsg.addr = NoAddress
    BY DEF NoAsg
  <2>3. new(c) = IF c \in DOMAIN as /\ row[c].status = "active" THEN as[c].addr ELSE NoAddress
    BY DEF CcdOf
  <2> HIDE DEF asgs, new
  <2> QED
    BY <1>8, <2>1, <2>2, <2>3
<1> HIDE DEF asgs, new
<1>10. \A c \in Ids : new(c) \in Nat
  <2>1. \A c \in Ids : asgs[c].addr \in Nat
    BY <1>8 DEF AsgType
  <2> QED
    BY <1>9, <2>1 DEF NoAddress
<1>11. /\ metas \in [Ids -> MetaType]
       /\ \A c \in Ids : metas[c].profile = meta[c].profile
       /\ \A c \in Ids : metas[c].ccd = IF c \in Listed THEN new(c) ELSE meta[c].ccd
  <2>1. \A c \in Listed : /\ ms[c] \in MetaType /\ ms[c].profile = meta[c].profile
                          /\ ms[c].ccd = new(c)
    BY <1>1, <1>10 DEF MetaType, Listed
  <2>2. DOMAIN ms = Listed
    OBVIOUS
  <2> HIDE DEF ms
  <2> QED
    BY <1>1, <2>1, <2>2 DEF Override, Listed
<1>12. ASSUME NEW c \in Ids
       PROVE  /\ metas[c].ccd = ccd[c]
              /\ ccd[c] = IF row[c].status = "active" THEN asgs[c].addr ELSE NoAddress
  <2>1. /\ meta[c].ccd = disk.ccd[c]
        /\ disk.ccd[c] = IF row[c].status = "active" THEN asg[c].addr ELSE NoAddress
    BY <1>0 DEF FilesOK, CcdOK
  <2>2. c \notin Listed => row[c].status # "active"
    BY DEF Listed, Current
  <2> QED
    BY <1>9, <1>11, <2>1, <2>2
<1>13. DOMAIN ccd = Ids
  OBVIOUS
<1>14. SourceOK(p) /\ PlanShape(p)
  <2>1. DOMAIN p.rows = DOMAIN as
    BY <1>5
  <2> QED
    BY <1>4, <1>5, <2>1 DEF SourceOK, PlanShape, Kinds
<1> HIDE DEF p, metas, ccd, nets
<1>15. LeasesOK(p, asgs)
  BY <1>5 DEF LeasesOK
<1>16. AddressChange(p, asgs, metas)
  BY <1>3, <1>4, <1>5, <1>6, <1>7, <1>11, <1>12, <1>13, <1>14, <1>15
     DEF AddressChange, asgs, metas, nets
<1>17. PlanOK(p)
  BY <1>0, <1>16, AddressChangePlan
<1> QED
  BY <1>17 DEF p

-----------------------------------------------------------------------------
(* Every step keeps the invariant.                                         *)

LEMMA InitInv ==
    ASSUME ClientsInit
    PROVE  ClientsInv
<1> USE DEF ClientsInit
<1>0. /\ NoOp.kind = "none" /\ NoAsg.kind = "none" /\ NoAsg \in AsgType
      /\ NoAsg.addr = NoAddress /\ NoAddress \in Nat
  BY DEF NoOp, NoAsg, AsgType, NoAddress
<1>1. RowsOK(row) /\ \A c \in Ids : row[c].status = "unused"
  BY DEF RowsOK, Current
<1>2. NetsOK(networks)
  BY ConfigsAssumption, BoundsAssumption DEF NetsOK
<1>3. AsgsOK(row, asg, networks)
  BY <1>0 DEF AsgsOK, AsgOK
<1>4. MetasOK(row, meta) /\ \A c \in Ids : meta[c].ccd = NoAddress
  BY <1>0, <1>1 DEF MetasOK, NoProfile, NoName, Current
<1>5. DbInv
  BY <1>1, <1>2, <1>3, <1>4 DEF DbInv, DbOK, LeaseInv, NoLease, NoAddress
<1>6. FilesOK(disk, row, asg, meta)
  <2>1. /\ DOMAIN disk = {"ccd", "profile", "issued", "crl"}
        /\ DOMAIN disk.ccd = Ids /\ \A c \in Ids : disk.ccd[c] = NoAddress
        /\ DOMAIN disk.profile = {"active", "revoked"} \X Names
        /\ \A k \in {"active", "revoked"} \X Names : disk.profile[k] = NoFile
        /\ disk.issued \in [Ids -> 0..MaxIssues] /\ \A c \in Ids : disk.issued[c] = 0
        /\ disk.crl = {}
    BY BoundsAssumption
  <2> QED
    BY <1>1, <1>4, <2>1 DEF FilesOK, FilesType, CcdOK, ProfilesOK, CrlOK, Current
<1>7. PlanInv /\ JournalInv
  BY <1>6 DEF PlanInv, JournalInv
<1>8. WorkspaceInv
  BY <1>0 DEF WorkspaceInv, Cloning
<1>9. HookInv /\ ExportInv
  BY DEF HookInv, ExportInv, NoExport
<1>10. KickInv
  BY BoundsAssumption DEF KickInv, NoSession, RevokedStayOut
<1> QED
  BY <1>5, <1>7, <1>8, <1>9, <1>10 DEF ClientsInv

\* Mutations and their ends leave the hook, the export and the kicks alone.
LEMMA RuntimeFrame ==
    ASSUME ClientsInv, UNCHANGED <<session, hook, kicks, kicked, exporter, focus>>,
           CommittedCrl \subseteq CommittedCrl'
    PROVE  (HookInv /\ ExportInv /\ KickInv)' /\ focus' \in Onlookers
<1>1. HookInv' /\ focus' \in Onlookers
  BY DEF ClientsInv, HookInv, NoHook
<1>2. ExportInv'
  BY DEF ClientsInv, ExportInv
<1>3. KickInv'
  <2>1. KickInv /\ UNCHANGED <<session, kicks, kicked>>
    BY DEF ClientsInv
  <2>2. \A c \in Ids : \A g \in kicked'[c] : <<c, g>> \in CommittedCrl'
    BY <2>1 DEF KickInv
  <2>3. RevokedStayOut'
    BY <2>1 DEF KickInv, RevokedStayOut
  <2> HIDE DEF RevokedStayOut, CommittedCrl
  <2> QED
    BY <2>1, <2>2, <2>3 DEF KickInv
<1> QED
  BY <1>1, <1>2, <1>3

\* The hook writes nothing but a lease.
LEMMA LeaseFrame ==
    ASSUME ClientsInv, UNCHANGED <<row, asg, networks, meta, disk, journal, focus>>
    PROVE  /\ DbOK(row, asg, meta, networks)' /\ PlanInv' /\ JournalInv' /\ WorkspaceInv'
           /\ CommittedCrl' = CommittedCrl
<1>1. UNCHANGED <<row, asg, networks, meta, disk, op, pending, workspaces, count, focus>>
  BY DEF journal
<1>2. DbOK(row, asg, meta, networks)'
  BY <1>1 DEF ClientsInv, DbInv, DbOK, RowsOK, NetsOK, AsgsOK, AsgOK, MetasOK
<1>3. PlanInv'
  <2>1. /\ RowAfter' = RowAfter /\ AsgAfter' = AsgAfter /\ MetaAfter' = MetaAfter
        /\ NetsAfter' = NetsAfter
    BY <1>1 DEF RowAfter, AsgAfter, MetaAfter, NetsAfter
  <2>2. DbOK(RowAfter, AsgAfter, MetaAfter, NetsAfter)
            => DbOK(RowAfter, AsgAfter, MetaAfter, NetsAfter)'
    BY <1>1, <2>1 DEF DbOK, RowsOK, NetsOK, AsgsOK, AsgOK, MetasOK
  <2>3. SourceAccepted => SourceAccepted'
    BY <1>1 DEF SourceAccepted, CreateAccepted, RenameAccepted, RevokeAccepted, ReissueAccepted,
                DeleteAccepted, AddressAccepted, ConfigurationAccepted, SameName, Listed, Active
  <2>4. (LeasesFollow => LeasesFollow') /\ (RemapFollows => RemapFollows')
    BY <1>1, <2>1 DEF LeasesFollow, RemapFollows
  <2> QED
    BY <1>1, <2>2, <2>3, <2>4 DEF ClientsInv, PlanInv
<1>4. JournalInv'
  <2>1. ActiveUnrevoked(disk, pending.before.crl) => ActiveUnrevoked(disk, pending.before.crl)'
    BY <1>1 DEF ActiveUnrevoked
  <2> QED
    BY <1>1, <2>1 DEF ClientsInv, JournalInv, FilesOK, FilesType, CcdOK, ProfilesOK, CrlOK,
                      RowAfter, AsgAfter, MetaAfter
<1>5. WorkspaceInv'
  BY <1>1 DEF ClientsInv, WorkspaceInv
<1>6. CommittedCrl' = CommittedCrl
  BY <1>1 DEF CommittedCrl
<1> QED
  BY <1>2, <1>3, <1>4, <1>5, <1>6

\* OpenVPN, the export and the CLI leave the database and the journal alone.
LEMMA JournalFrame ==
    ASSUME ClientsInv, UNCHANGED <<database, disk, journal, focus>>
    PROVE  (DbInv /\ PlanInv /\ JournalInv /\ WorkspaceInv)' /\ CommittedCrl' = CommittedCrl
<1>1. UNCHANGED <<row, asg, networks, meta, disk, journal, focus>> /\ lease' = lease
  BY DEF database
<1>2. LeaseInv'
  BY <1>1 DEF ClientsInv, DbInv, LeaseInv, NetId, Network
<1> QED
  BY <1>1, <1>2, LeaseFrame DEF DbInv

LEMMA BeginKeeps ==
    ASSUME ClientsInv, NEW p, Begin(p), PlanOK(p),
           UNCHANGED <<session, hook, kicks, kicked, exporter, focus>>
    PROVE  ClientsInv'
<1>1. (DbInv /\ PlanInv /\ JournalInv /\ WorkspaceInv)' /\ CommittedCrl' = CommittedCrl
  BY BeginInv
<1>2. (HookInv /\ ExportInv /\ KickInv)' /\ focus' \in Onlookers
  BY <1>1, RuntimeFrame
<1> QED
  BY <1>1, <1>2 DEF ClientsInv

LEMMA ConfirmDeleteInv ==
    ASSUME ClientsInv, NEW n \in Names, ConfirmDelete(n)
    PROVE  ClientsInv'
<1>1. UNCHANGED <<database, disk, journal, focus>>
      /\ UNCHANGED <<session, hook, kicks, kicked, exporter, focus>>
  BY DEF ConfirmDelete, runtime
<1>2. (DbInv /\ PlanInv /\ JournalInv /\ WorkspaceInv)' /\ CommittedCrl' = CommittedCrl
  BY <1>1, JournalFrame
<1>3. (HookInv /\ ExportInv /\ KickInv)' /\ focus' \in Onlookers
  BY <1>1, <1>2, RuntimeFrame
<1> QED
  BY <1>2, <1>3 DEF ClientsInv

\* OpenVPN is stopped for a configuration change: no session is left.
LEMMA ApplyInv ==
    ASSUME ClientsInv, NEW n \in Configs, ApplyConfiguration(n)
    PROVE  ClientsInv'
<1>1. op = NoOp /\ pending = NoOp /\ NetId < MaxNetworks[focus]
  BY DEF ApplyConfiguration, Lock
<1>2. PICK f \in RemapPlans(n) : Begin(PlanConfiguration(n, f))
  BY DEF ApplyConfiguration
<1>3. PlanOK(PlanConfiguration(n, f))
  BY <1>1, ConfigurationOK
<1>4. UNCHANGED <<hook, kicks, kicked, exporter, focus>> /\ session' = [c \in Ids |-> NoSession]
  BY DEF ApplyConfiguration, onlooker
<1>5. (DbInv /\ PlanInv /\ JournalInv /\ WorkspaceInv)' /\ CommittedCrl' = CommittedCrl
  BY <1>2, <1>3, <1>4, BeginInv
<1>6. HookInv' /\ ExportInv' /\ focus' \in Onlookers
  BY <1>4 DEF ClientsInv, HookInv, NoHook, ExportInv
<1>7. KickInv'
  <2>1. /\ session' \in [Ids -> [state : {"none", "verified", "up"}, gen : 0..MaxIssues]]
        /\ \A c \in Ids : session'[c] = NoSession
    BY <1>4, BoundsAssumption DEF NoSession
  <2>2. /\ kicks' \subseteq Ids /\ kicked' \in [Ids -> SUBSET (1..MaxIssues)]
        /\ \A c \in Ids : \A g \in kicked'[c] : <<c, g>> \in CommittedCrl'
    BY <1>4, <1>5 DEF ClientsInv, KickInv
  <2> HIDE DEF CommittedCrl
  <2> QED
    BY <2>1, <2>2 DEF KickInv, RevokedStayOut
<1> QED
  BY <1>5, <1>6, <1>7 DEF ClientsInv

LEMMA MutationInv ==
    ASSUME ClientsInv, Mutation
    PROVE  ClientsInv'
<1> DEFINE Quiet == UNCHANGED <<session, hook, kicks, kicked, exporter, focus>>
<1>1. ASSUME NEW c \in Ids, NEW n \in Names, NEW sel \in Selections, Create(c, n, sel)
      PROVE  ClientsInv'
  <2>1. PICK a \in PlanAssignment(StaticOf(Listed), sel) : Begin(PlanCreate(c, n, a))
    BY <1>1 DEF Create
  <2>2. PlanOK(PlanCreate(c, n, a))
    BY <1>1, <2>1, CreateOK DEF Create, Begin, Lock
  <2>3. Quiet
    BY <1>1 DEF Create, runtime, onlooker
  <2> QED
    BY <2>1, <2>2, <2>3, BeginKeeps
<1>2. ASSUME NEW c \in Ids, NEW n \in Names, Rename(c, n)
      PROVE  ClientsInv'
  <2>1. c \in Listed /\ (\A x \in Listed : row[x].name # n) /\ Begin(PlanRename(c, n))
    BY <1>2 DEF Rename
  <2>2. PlanOK(PlanRename(c, n))
    BY <2>1, RenameOK DEF Begin, Lock
  <2>3. Quiet
    BY <1>2 DEF Rename, runtime, onlooker
  <2> QED
    BY <2>1, <2>2, <2>3, BeginKeeps
<1>3. ASSUME NEW c \in Ids, NEW release \in BOOLEAN, Revoke(c, release)
      PROVE  ClientsInv'
  <2>1. c \in Active /\ Begin(PlanRevoke(c, release))
    BY <1>3 DEF Revoke
  <2>2. PlanOK(PlanRevoke(c, release))
    BY <2>1, RevokeOK DEF Begin, Lock
  <2>3. Quiet
    BY <1>3 DEF Revoke, runtime, onlooker
  <2> QED
    BY <2>1, <2>2, <2>3, BeginKeeps
<1>4. ASSUME NEW c \in Ids, NEW sel \in Selections \cup {Keep}, Reissue(c, sel)
      PROVE  ClientsInv'
  <2>1. c \in Listed /\ disk.issued[c] < MaxIssues
    BY <1>4 DEF Reissue
  <2>2. PICK a \in PlanReissueAssignment(c, sel) : Begin(PlanReissue(c, a))
    BY <1>4 DEF Reissue
  <2>3. PlanOK(PlanReissue(c, a))
    BY <2>1, <2>2, ReissueOK DEF Begin, Lock
  <2>4. Quiet
    BY <1>4 DEF Reissue, runtime, onlooker
  <2> QED
    BY <2>2, <2>3, <2>4, BeginKeeps
<1>5. ASSUME DeleteConfirmed PROVE ClientsInv'
  <2>1. PICK c \in Selected(confirmed.name) : Begin(PlanDelete(c))
    BY <1>5 DEF DeleteConfirmed
  <2>2. PlanOK(PlanDelete(c))
    BY <2>1, DeleteOK DEF Begin, Lock, Selected
  <2>3. Quiet
    BY <1>5 DEF DeleteConfirmed, runtime
  <2> QED
    BY <2>1, <2>2, <2>3, BeginKeeps
<1>6. ASSUME NEW c \in Ids, Delete(c) PROVE ClientsInv'
  <2>1. c \in Listed /\ Begin(PlanDelete(c))
    BY <1>6 DEF Delete
  <2>2. PlanOK(PlanDelete(c))
    BY <2>1, DeleteOK DEF Begin, Lock
  <2>3. Quiet
    BY <1>6 DEF Delete, runtime, onlooker
  <2> QED
    BY <2>1, <2>2, <2>3, BeginKeeps
<1>7. ASSUME NEW c \in Ids, NEW sel \in Selections, AddressSet(c, sel)
      PROVE  ClientsInv'
  <2>1. c \in Listed /\ op = NoOp /\ pending = NoOp
    BY <1>7 DEF AddressSet, Lock
  <2>2. PICK as \in AddressPlans({c}, One(c, sel)) :
            Begin(PlanAddresses("set", One(c, ForStatus(c, as[c]))))
    BY <1>7 DEF AddressSet
  <2>3. PlanOK(PlanAddresses("set", One(c, ForStatus(c, as[c]))))
    BY <2>1, AddressSetOK
  <2>4. Quiet
    BY <1>7 DEF AddressSet, runtime, onlooker
  <2> QED
    BY <2>2, <2>3, <2>4, BeginKeeps
<1>8. ASSUME NEW c \in Ids, AddressRelease(c) PROVE ClientsInv'
  <2>1. row[c].status = "revoked" /\ Begin(PlanAddresses("release", One(c, NoAsg)))
    BY <1>8 DEF AddressRelease
  <2>2. PlanOK(PlanAddresses("release", One(c, NoAsg)))
    BY <2>1, AddressReleaseOK DEF Begin, Lock
  <2>3. Quiet
    BY <1>8 DEF AddressRelease, runtime, onlooker
  <2> QED
    BY <2>1, <2>2, <2>3, BeginKeeps
<1>9. ASSUME NEW cs \in SUBSET Active, NEW sels \in [cs -> Selections], AddressEdit(cs, sels)
      PROVE  ClientsInv'
  <2>1. op = NoOp /\ pending = NoOp
    BY <1>9 DEF AddressEdit, Lock
  <2>2. PICK as \in AddressPlans(cs, sels) :
            Begin(PlanAddresses("edit", [c \in cs |-> ForStatus(c, as[c])]))
    BY <1>9 DEF AddressEdit
  <2>3. PlanOK(PlanAddresses("edit", [c \in cs |-> ForStatus(c, as[c])]))
    BY <2>1, AddressEditOK
  <2>4. Quiet
    BY <1>9 DEF AddressEdit, runtime, onlooker
  <2> QED
    BY <2>2, <2>3, <2>4, BeginKeeps
<1> HIDE DEF Quiet
<1> QED
  BY <1>1, <1>2, <1>3, <1>4, <1>5, <1>6, <1>7, <1>8, <1>9, ConfirmDeleteInv, ApplyInv DEF Mutation

\* What the directories of clients/active hold is not revoked.
LEMMA FilesUnrevoked ==
    ASSUME NEW files, NEW rows, NEW asgs, NEW metas, RowsOK(rows),
           FilesOK(files, rows, asgs, metas)
    PROVE  ActiveUnrevoked(files, files.crl)
<1> SUFFICES ASSUME NEW n \in Names
             PROVE  <<files.profile[<<"active", n>>].id, files.profile[<<"active", n>>].gen>>
                       \notin files.crl
  BY DEF ActiveUnrevoked
<1>1. files.issued \in [Ids -> 0..MaxIssues] /\ files.crl \subseteq Ids \X (1..MaxIssues)
  BY DEF FilesOK, FilesType
<1>2. CASE files.profile[<<"active", n>>] = NoFile
  BY <1>1, <1>2, BoundsAssumption DEF NoFile
<1>3. CASE files.profile[<<"active", n>>] # NoFile
  <2>1. <<"active", n>> \in {"active", "revoked"} \X Names
    OBVIOUS
  <2>2. PICK c \in Ids : /\ rows[c].status \in Current
                         /\ <<"active", n>> = <<Directory(rows[c].status), rows[c].name>>
    BY <1>3, <2>1 DEF FilesOK, ProfilesOK
  <2>3. rows[c].status = "active"
    BY <2>2 DEF Directory, Current
  <2>4. files.profile[<<"active", n>>] = [id |-> c, gen |-> files.issued[c]]
    BY <2>2 DEF FilesOK, ProfilesOK
  <2>5. files.issued[c] \in 1..MaxIssues
    BY <1>1, <2>3, BoundsAssumption DEF FilesOK, CrlOK
  <2>6. <<c, files.issued[c]>> \notin files.crl
    BY <2>3, <2>5 DEF FilesOK, CrlOK
  <2> QED
    BY <2>4, <2>6
<1> QED
  BY <1>2, <1>3

\* The end of a mutation.  Its commit leaves the database its plan promised,
\* for which the files are already installed, also when its cleanup fails.
LEMMA CommitInv ==
    ASSUME ClientsInv, Commit \/ CommitUnfinished
    PROVE  ClientsInv'
<1>1. /\ op # NoOp /\ op' = NoOp /\ UNCHANGED <<disk, pending, focus>>
      /\ row' = RowAfter /\ asg' = AsgAfter /\ meta' = MetaAfter /\ networks' = NetsAfter
      /\ lease' = [c \in Ids |-> IF c \in op.clear THEN NoLease ELSE lease[c]]
      /\ UNCHANGED <<session, hook, kicked, exporter>>
      /\ kicks' \subseteq kicks \cup op.kick
  BY DEF Commit, CommitUnfinished, CommitState, onlooker, runtime, RowAfter, AsgAfter, MetaAfter,
         NetsAfter
<1>0. \/ workspaces' = Finished /\ count' = count
      \/ /\ workspaces' \in {workspaces, Finished}
         /\ count' = [count EXCEPT !.faults = @ + 1]
  BY DEF Commit, CommitUnfinished, Fault
<1>2. /\ DbOK(RowAfter, AsgAfter, MetaAfter, NetsAfter) /\ LeasesFollow /\ op.kick \subseteq Ids
      /\ pending = NoOp /\ FilesOK(disk, RowAfter, AsgAfter, MetaAfter)
      /\ op.before.crl \subseteq disk.crl
  BY <1>1 DEF ClientsInv, PlanInv, JournalInv
<1>3. DbOK(row, asg, meta, networks)'
  BY <1>1, <1>2 DEF DbOK, RowsOK, NetsOK, AsgsOK, AsgOK, MetasOK
<1>4. LeaseInv'
  <2>1. LeaseInv /\ \A c \in Ids : asg[c] = NoAsg => lease[c] = NoLease
    BY DEF ClientsInv, DbInv, LeaseInv, NoAsg
  <2>2. networks \in Seq(Configs)
    BY DEF ClientsInv, DbInv, DbOK, NetsOK
  <2>3. op.nets = << >> => NetId' = NetId /\ Network' = Network
    BY <1>1, <2>2, NoNets DEF NetsAfter, NetId, Network
  <2>4. ASSUME NEW c \in Ids, lease'[c] # NoLease
        PROVE  /\ lease'[c] = lease[c] /\ op.nets = << >> /\ asg'[c] = asg[c]
    BY <1>1, <1>2, <2>1, <2>4 DEF LeasesFollow
  <2>5. lease' \in [Ids -> [addr : Nat, net : Nat]]
    BY <1>1, <2>1 DEF LeaseInv, NoLease, NoAddress
  <2>6. \A c \in Ids : \/ lease'[c] = NoLease
                       \/ /\ lease'[c] \in [addr : DynamicRange(Network'), net : {NetId'}]
                          /\ asg'[c].kind = "dynamic"
    BY <2>1, <2>3, <2>4 DEF LeaseInv
  <2>7. \A c, d \in Ids : c # d /\ lease'[c] # NoLease => lease'[c] # lease'[d]
    BY <2>1, <2>4 DEF LeaseInv
  <2> HIDE DEF NetId, Network
  <2> QED
    BY <2>5, <2>6, <2>7 DEF LeaseInv
<1>5. PlanInv'
  BY <1>1 DEF PlanInv
<1>6. JournalInv'
  <2>1. FilesOK(disk, row, asg, meta)'
    BY <1>1, <1>2 DEF FilesOK, FilesType, CcdOK, ProfilesOK, CrlOK
  <2> QED
    BY <1>1, <1>2, <2>1 DEF JournalInv
<1>7. WorkspaceInv'
  BY <1>0, <1>1 DEF ClientsInv, WorkspaceInv, Finished, NoOp, Cloning
<1>8. CommittedCrl \subseteq CommittedCrl'
  BY <1>1, <1>2 DEF CommittedCrl
<1>9. HookInv' /\ ExportInv' /\ focus' \in Onlookers
  BY <1>1 DEF ClientsInv, HookInv, NoHook, ExportInv
<1>10. KickInv'
  BY <1>1, <1>2, <1>8 DEF ClientsInv, KickInv, RevokedStayOut
<1> QED
  BY <1>3, <1>4, <1>5, <1>6, <1>7, <1>9, <1>10 DEF ClientsInv, DbInv

\* A rollback restores the files of the database that was not changed.
LEMMA RollbackInv ==
    ASSUME ClientsInv, Rollback
    PROVE  ClientsInv'
<1>1. /\ op # NoOp /\ op' = NoOp /\ disk' = op.before
      /\ UNCHANGED <<row, asg, lease, networks, meta, pending, focus>>
      /\ UNCHANGED <<session, hook, kicks, kicked, exporter, focus>>
  BY DEF Rollback, database, runtime, onlooker
<1>0. \/ workspaces' = Finished /\ count' = count
      \/ workspaces' = workspaces /\ count' = [count EXCEPT !.faults = @ + 1]
  BY DEF Rollback, Fault
<1>2. pending = NoOp /\ FilesOK(op.before, row, asg, meta)
  BY <1>1 DEF ClientsInv, JournalInv
<1>3. DbInv'
  BY <1>1 DEF ClientsInv, DbInv, DbOK, RowsOK, NetsOK, AsgsOK, AsgOK, MetasOK, LeaseInv, NetId,
              Network
<1>4. PlanInv'
  BY <1>1 DEF PlanInv
<1>5. JournalInv'
  <2>1. FilesOK(disk, row, asg, meta)'
    BY <1>1, <1>2 DEF FilesOK, FilesType, CcdOK, ProfilesOK, CrlOK
  <2> QED
    BY <1>1, <1>2, <2>1 DEF JournalInv
<1>6. WorkspaceInv'
  BY <1>0, <1>1 DEF ClientsInv, WorkspaceInv, Finished, NoOp, Cloning
<1>7. CommittedCrl \subseteq CommittedCrl'
  BY <1>1, <1>2 DEF CommittedCrl
<1>8. (HookInv /\ ExportInv /\ KickInv)' /\ focus' \in Onlookers
  BY <1>1, <1>7, RuntimeFrame
<1> QED
  BY <1>3, <1>4, <1>5, <1>6, <1>8 DEF ClientsInv

\* A crash leaves the installed files to the journal.
LEMMA CrashInv ==
    ASSUME ClientsInv, Crash
    PROVE  ClientsInv'
<1>1. /\ op # NoOp /\ op' = NoOp /\ pending' = op
      /\ count' = [count EXCEPT !.faults = @ + 1] /\ workspaces' \in {workspaces, Finished}
      /\ UNCHANGED <<row, asg, lease, networks, meta, disk, focus>>
      /\ UNCHANGED <<session, hook, kicks, kicked, exporter, focus>>
  BY DEF Crash, Fault, database, runtime, onlooker
<1>2. /\ pending = NoOp /\ FilesOK(op.before, row, asg, meta) /\ FilesType(disk)
      /\ op.before.crl \subseteq disk.crl
  BY <1>1 DEF ClientsInv, JournalInv, FilesOK
<1>3. DbInv'
  BY <1>1 DEF ClientsInv, DbInv, DbOK, RowsOK, NetsOK, AsgsOK, AsgOK, MetasOK, LeaseInv, NetId,
              Network
<1>4. PlanInv'
  BY <1>1 DEF PlanInv
<1>5. JournalInv'
  <2>1. FilesOK(pending.before, row, asg, meta)' /\ FilesType(disk)'
    BY <1>1, <1>2 DEF FilesOK, FilesType, CcdOK, ProfilesOK, CrlOK
  <2>2. ActiveUnrevoked(disk, disk.crl)
    BY <1>1, FilesUnrevoked DEF ClientsInv, PlanInv, JournalInv, DbOK
  <2>3. ActiveUnrevoked(disk, pending.before.crl)'
    BY <1>1, <1>2, <2>2 DEF ActiveUnrevoked
  <2> QED
    BY <1>1, <1>2, <2>1, <2>3 DEF JournalInv
<1>6. WorkspaceInv'
  BY <1>1 DEF ClientsInv, WorkspaceInv, Finished, NoOp, Cloning
<1>7. CommittedCrl \subseteq CommittedCrl'
  BY <1>1, <1>2 DEF CommittedCrl
<1>8. (HookInv /\ ExportInv /\ KickInv)' /\ focus' \in Onlookers
  BY <1>1, <1>7, RuntimeFrame
<1> QED
  BY <1>3, <1>4, <1>5, <1>6, <1>8 DEF ClientsInv

LEMMA RecoverInv ==
    ASSUME ClientsInv, Recover
    PROVE  ClientsInv'
<1>1. /\ pending # NoOp /\ pending' = NoOp /\ disk' = pending.before
      /\ UNCHANGED <<row, asg, lease, networks, meta, op, workspaces, count, focus>>
      /\ UNCHANGED <<session, hook, kicks, kicked, exporter, focus>>
  BY DEF Recover, database, runtime, onlooker
<1>2. op = NoOp /\ FilesOK(pending.before, row, asg, meta)
  BY <1>1 DEF ClientsInv, JournalInv
<1>3. DbInv'
  BY <1>1 DEF ClientsInv, DbInv, DbOK, RowsOK, NetsOK, AsgsOK, AsgOK, MetasOK, LeaseInv, NetId,
              Network
<1>4. PlanInv'
  BY <1>1, <1>2 DEF PlanInv
<1>5. JournalInv'
  <2>1. FilesOK(disk, row, asg, meta)'
    BY <1>1, <1>2 DEF FilesOK, FilesType, CcdOK, ProfilesOK, CrlOK
  <2> QED
    BY <1>1, <1>2, <2>1 DEF JournalInv
<1>6. WorkspaceInv'
  BY <1>1 DEF ClientsInv, WorkspaceInv
<1>7. CommittedCrl \subseteq CommittedCrl'
  BY <1>1, <1>2 DEF CommittedCrl
<1>8. (HookInv /\ ExportInv /\ KickInv)' /\ focus' \in Onlookers
  BY <1>1, <1>7, RuntimeFrame
<1> QED
  BY <1>3, <1>4, <1>5, <1>6, <1>8 DEF ClientsInv

\* A certificate revoked by a committed mutation is in the CRL OpenVPN reads.
LEMMA CommittedInstalled ==
    ASSUME ClientsInv
    PROVE  CommittedCrl \subseteq disk.crl
  BY DEF ClientsInv, JournalInv, CommittedCrl

\* A handshake, the end of a session and the hook's refusals.
LEMMA SessionInv ==
    ASSUME ClientsInv, UNCHANGED <<database, disk, journal, kicks, kicked, onlooker>>,
           HookInv',
           session' \in [Ids -> [state : {"none", "verified", "up"}, gen : 0..MaxIssues]],
           \A c \in Ids : \/ session'[c] = NoSession
                          \/ session[c] # NoSession /\ session'[c].gen = session[c].gen
                          \/ <<c, session'[c].gen>> \notin disk.crl
    PROVE  ClientsInv'
<1>1. UNCHANGED <<database, disk, journal, focus>> /\ UNCHANGED <<kicks, kicked, exporter, focus>>
  BY DEF onlooker
<1>2. (DbInv /\ PlanInv /\ JournalInv /\ WorkspaceInv)' /\ CommittedCrl' = CommittedCrl
  BY <1>1, JournalFrame
<1>3. ExportInv' /\ focus' \in Onlookers
  BY <1>1 DEF ClientsInv, ExportInv
<1>4. KickInv'
  <2>1. /\ kicks \subseteq Ids /\ kicked \in [Ids -> SUBSET (1..MaxIssues)]
        /\ \A c \in Ids : \A g \in kicked[c] : <<c, g>> \in CommittedCrl
        /\ \A c \in Ids : session[c] # NoSession => session[c].gen \notin kicked[c]
    BY DEF ClientsInv, KickInv, RevokedStayOut
  <2>2. \A c \in Ids : session'[c] # NoSession => session'[c].gen \notin kicked[c]
    BY <2>1, CommittedInstalled
  <2> QED
    BY <1>1, <1>2, <2>1, <2>2 DEF KickInv, RevokedStayOut
<1> QED
  BY <1>2, <1>3, <1>4 DEF ClientsInv

SessionType == [state : {"none", "verified", "up"}, gen : 0..MaxIssues]

LEMMA SessionFacts ==
    ASSUME ClientsInv
    PROVE  /\ session \in [Ids -> SessionType] /\ NoSession \in SessionType
           /\ hook # NoHook => hook.id \in Ids
  BY BoundsAssumption DEF ClientsInv, KickInv, HookInv, SessionType, NoSession

LEMMA ConnectInv ==
    ASSUME ClientsInv, NEW c \in Ids, NEW g \in 1..MaxIssues, Connect(c, g)
    PROVE  ClientsInv'
<1> DEFINE s == [state |-> "verified", gen |-> g]
<1>1. /\ session' = [session EXCEPT ![c] = s]
      /\ UNCHANGED <<database, disk, journal, kicks, kicked, onlooker>> /\ hook' = hook
      /\ <<c, g>> \notin disk.crl
  BY DEF Connect
<1>2. s \in SessionType /\ s.gen = g
  BY BoundsAssumption DEF SessionType
<1> HIDE DEF s
<1>3. /\ session' \in [Ids -> SessionType]
      /\ \A d \in Ids : \/ session'[d] = NoSession
                        \/ session[d] # NoSession /\ session'[d].gen = session[d].gen
                        \/ <<d, session'[d].gen>> \notin disk.crl
  BY <1>1, <1>2, SessionFacts
<1>4. HookInv'
  BY <1>1 DEF ClientsInv, HookInv, NoHook
<1> QED
  BY <1>1, <1>3, <1>4, SessionInv DEF SessionType

\* A session that ends.
LEMMA DroppedInv ==
    ASSUME ClientsInv, NEW c \in Ids, session' = [session EXCEPT ![c] = NoSession], HookInv',
           UNCHANGED <<database, disk, journal, kicks, kicked, onlooker>>
    PROVE  ClientsInv'
<1>1. /\ session' \in [Ids -> SessionType]
      /\ \A d \in Ids : \/ session'[d] = NoSession
                        \/ session[d] # NoSession /\ session'[d].gen = session[d].gen
                        \/ <<d, session'[d].gen>> \notin disk.crl
  BY SessionFacts
<1> QED
  BY <1>1, SessionInv DEF SessionType

LEMMA SessionEndInv ==
    ASSUME ClientsInv, NEW c \in Ids, SessionEnd(c)
    PROVE  ClientsInv'
<1>1. HookInv'
  BY DEF ClientsInv, SessionEnd, HookInv, NoHook
<1> QED
  BY <1>1, DroppedInv DEF SessionEnd

LEMMA HookFailsInv ==
    ASSUME ClientsInv, hook # NoHook, HookFails
    PROVE  ClientsInv'
<1>1. HookInv' /\ hook.id \in Ids
  BY SessionFacts DEF HookFails, HookInv
<1> QED
  BY <1>1, DroppedInv DEF HookFails

LEMMA HookReadInv ==
    ASSUME ClientsInv, HookInv', UNCHANGED <<database, disk, journal, session, kicks, kicked, onlooker>>
    PROVE  ClientsInv'
<1>1. session' = session /\ session \in [Ids -> SessionType]
  BY SessionFacts
<1>2. /\ session' \in [Ids -> SessionType]
      /\ \A d \in Ids : \/ session'[d] = NoSession
                        \/ session[d] # NoSession /\ session'[d].gen = session[d].gen
                        \/ <<d, session'[d].gen>> \notin disk.crl
  BY <1>1
<1> QED
  BY <1>2, SessionInv DEF SessionType

LEMMA HookStepsInv ==
    ASSUME ClientsInv, (\E c \in Ids : HookAssignment(c)) \/ HookLease \/ HookRefused
    PROVE  ClientsInv'
<1>1. ASSUME NEW c \in Ids, HookAssignment(c) PROVE ClientsInv'
  <2>1. HookInv'
    <3>1. PICK a \in Offered(c) : hook' = [pc |-> "assigned", id |-> c, addr |-> a, asg |-> asg[c]]
      BY <1>1 DEF HookAssignment
    <3> QED
      BY <3>1 DEF HookInv
  <2> QED
    BY <1>1, <2>1, HookReadInv DEF HookAssignment
<1>2. ASSUME HookLease PROVE ClientsInv'
  <2>1. hook.pc = "assigned" /\ hook # NoHook
    BY <1>2 DEF HookLease, NoHook
  <2>2. CASE Loadable(hook.asg, lease[hook.id])
    <3>1. hook' = [hook EXCEPT !.pc = "loaded"]
          /\ UNCHANGED <<database, disk, journal, session, kicks, kicked, onlooker>>
      BY <1>2, <2>2 DEF HookLease
    <3>2. HookInv'
      <4>1. hook.id \in Ids /\ hook'.id = hook.id
        BY <2>1, <3>1, SessionFacts
      <4>2. hook'.pc = "loaded" \/ hook' = hook
        BY <3>1
      <4> QED
        BY <2>1, <4>1, <4>2 DEF HookInv
    <3> QED
      BY <3>1, <3>2, HookReadInv
  <2>3. CASE ~Loadable(hook.asg, lease[hook.id])
    <3>1. HookFails
      BY <1>2, <2>3 DEF HookLease
    <3> QED
      BY <2>1, <3>1, HookFailsInv
  <2> QED
    BY <2>2, <2>3
<1>3. ASSUME HookRefused PROVE ClientsInv'
  <2>1. hook # NoHook /\ HookFails
    BY <1>3 DEF HookRefused, NoHook
  <2> QED
    BY <2>1, HookFailsInv
<1> QED
  BY <1>1, <1>2, <1>3

\* RecordLease looks at the assignment again, so the lease it records is of the
\* network in use, and it takes the address from whoever had leased it.
LEMMA HookAcceptsInv ==
    ASSUME ClientsInv, HookAccepts
    PROVE  ClientsInv'
<1> DEFINE c == hook.id
           l == HookLeased
<1>1. /\ hook # NoHook /\ hook' = NoHook
      /\ UNCHANGED <<row, asg, networks, meta, disk, journal, kicks, kicked, exporter, focus>>
      /\ session' = [session EXCEPT ![c].state = IF @ = "verified" THEN "up" ELSE @]
      /\ lease' = lease \/ (LeaseAccepted(c, l) /\ RecordLease(c, l))
  BY DEF HookAccepts, onlooker, NoHook
<1>2. c \in Ids
  BY <1>1, SessionFacts
<1>3. /\ DbOK(row, asg, meta, networks)' /\ PlanInv' /\ JournalInv' /\ WorkspaceInv'
      /\ CommittedCrl' = CommittedCrl
  BY <1>1, LeaseFrame
<1>4. LeaseInv'
  <2>1. LeaseInv /\ NetId' = NetId /\ Network' = Network /\ Network \in Configs
    BY <1>1 DEF ClientsInv, DbInv, DbOK, NetsOK, NetId, Network
  <2>2. CASE lease' = lease
    BY <1>1, <2>1, <2>2 DEF LeaseInv
  <2>3. CASE LeaseAccepted(c, l) /\ RecordLease(c, l)
    <3>1. /\ asg[c].kind = "dynamic" /\ asg[c].net = NetId
      <4>1. AsgOK(asg[c], row[c].status, networks)
        BY <1>2 DEF ClientsInv, DbInv, DbOK, AsgsOK
      <4> QED
        BY <2>3, <4>1 DEF LeaseAccepted, AsgOK, NoAsg, NetId
    <3>2. l \in [addr : DynamicRange(Network), net : {NetId}]
      <4>1. l.net = NetId /\ l.addr \in DynamicRange(networks[l.net])
        BY <2>3, <3>1 DEF LeaseAccepted
      <4> QED
        BY <4>1 DEF HookLeased, Network
    <3>3. l # NoLease
      BY <2>1, <3>2, RangeAddresses DEF NoLease
    <3>4. lease' = [x \in Ids |-> IF x = c THEN l ELSE IF lease[x] = l THEN NoLease ELSE lease[x]]
      BY <2>3 DEF RecordLease
    <3> HIDE DEF l
    <3>5. ASSUME NEW x \in Ids
          PROVE  \/ lease'[x] = NoLease
                 \/ /\ lease'[x] \in [addr : DynamicRange(Network), net : {NetId}]
                    /\ asg[x].kind = "dynamic"
      BY <2>1, <3>1, <3>2, <3>4 DEF LeaseInv
    <3>6. \A x, y \in Ids : x # y /\ lease'[x] # NoLease => lease'[x] # lease'[y]
      BY <2>1, <3>3, <3>4 DEF LeaseInv
    <3>7. lease' \in [Ids -> [addr : Nat, net : Nat]]
      <4>1. l.addr \in Nat /\ NetId \in Nat
        BY <2>1, <3>2, RangeAddresses DEF ClientsInv, DbInv, DbOK, NetsOK, NetId
      <4>2. l \in [addr : Nat, net : Nat] /\ NoLease \in [addr : Nat, net : Nat]
        BY <3>2, <4>1 DEF NoLease, NoAddress
      <4> QED
        BY <2>1, <3>4, <4>2 DEF LeaseInv
    <3> HIDE DEF NetId, Network
    <3> QED
      BY <1>1, <2>1, <3>5, <3>6, <3>7 DEF LeaseInv
  <2> QED
    BY <1>1, <2>2, <2>3
<1>5. HookInv' /\ ExportInv' /\ focus' \in Onlookers
  BY <1>1 DEF ClientsInv, HookInv, ExportInv
<1>6. KickInv'
  <2>1. /\ kicks \subseteq Ids /\ kicked \in [Ids -> SUBSET (1..MaxIssues)]
        /\ \A d \in Ids : \A g \in kicked[d] : <<d, g>> \in CommittedCrl
        /\ \A d \in Ids : session[d] # NoSession => session[d].gen \notin kicked[d]
    BY DEF ClientsInv, KickInv, RevokedStayOut
  <2>2. session' \in [Ids -> SessionType]
    BY <1>1, <1>2, SessionFacts DEF SessionType
  <2>3. ASSUME NEW d \in Ids, session'[d] # NoSession PROVE session'[d].gen \notin kicked[d]
    <3>1. session[d] \in SessionType /\ session'[d].gen = session[d].gen
      BY <1>1, <1>2, SessionFacts DEF SessionType
    <3>2. session[d] # NoSession
      BY <1>1, <1>2, <2>3, SessionFacts DEF SessionType, NoSession
    <3> QED
      BY <2>1, <3>1, <3>2
  <2> QED
    BY <1>1, <1>3, <2>1, <2>2, <2>3 DEF KickInv, RevokedStayOut, SessionType
<1> QED
  BY <1>3, <1>4, <1>5, <1>6 DEF ClientsInv, DbInv

\* A disconnect that succeeds ends the session and remembers what was revoked.
LEMMA DisconnectInv ==
    ASSUME ClientsInv, NEW c \in Ids, Disconnect(c)
    PROVE  ClientsInv'
<1>1. /\ UNCHANGED <<database, disk, journal, focus>> /\ UNCHANGED <<hook, exporter, focus>>
      /\ session' = [session EXCEPT ![c] = NoSession]
      /\ kicked' = [kicked EXCEPT ![c] = RevokedOf(c)]
      /\ kicks' = kicks \ {c}
  BY DEF Disconnect, onlooker
<1>2. (DbInv /\ PlanInv /\ JournalInv /\ WorkspaceInv)' /\ CommittedCrl' = CommittedCrl
  BY <1>1, JournalFrame
<1>3. HookInv' /\ ExportInv' /\ focus' \in Onlookers
  BY <1>1 DEF ClientsInv, HookInv, NoHook, ExportInv
<1>4. KickInv'
  <2>1. /\ kicks \subseteq Ids /\ kicked \in [Ids -> SUBSET (1..MaxIssues)]
        /\ \A d \in Ids : \A g \in kicked[d] : <<d, g>> \in CommittedCrl
        /\ \A d \in Ids : session[d] # NoSession => session[d].gen \notin kicked[d]
    BY DEF ClientsInv, KickInv, RevokedStayOut
  <2>2. RevokedOf(c) \subseteq 1..MaxIssues /\ \A g \in RevokedOf(c) : <<c, g>> \in CommittedCrl
    BY DEF RevokedOf
  <2>3. session' \in [Ids -> SessionType]
    BY <1>1, SessionFacts
  <2>4. kicked' \in [Ids -> SUBSET (1..MaxIssues)]
    BY <1>1, <2>1, <2>2
  <2>5. \A d \in Ids : \A g \in kicked'[d] : <<d, g>> \in CommittedCrl'
    BY <1>1, <1>2, <2>1, <2>2
  <2>6. \A d \in Ids : session'[d] # NoSession => session'[d].gen \notin kicked'[d]
    BY <1>1, <2>1, SessionFacts
  <2> QED
    BY <1>1, <2>1, <2>3, <2>4, <2>5, <2>6 DEF KickInv, RevokedStayOut, SessionType
<1> QED
  BY <1>2, <1>3, <1>4 DEF ClientsInv

LEMMA OnlookersInv ==
    ASSUME ClientsInv,
           ReconcilePending \/ (\E c \in Ids : ExportSelect(c)) \/ ExportRead
    PROVE  ClientsInv'
<1>1. /\ UNCHANGED <<database, disk, journal, focus>> /\ UNCHANGED <<session, hook, kicked, focus>>
      /\ kicks' \subseteq kicks
  BY DEF ReconcilePending, ExportSelect, ExportRead, runtime, onlooker
<1>2. (DbInv /\ PlanInv /\ JournalInv /\ WorkspaceInv)' /\ CommittedCrl' = CommittedCrl
  BY <1>1, JournalFrame
<1>3. HookInv' /\ focus' \in Onlookers
  BY <1>1 DEF ClientsInv, HookInv, NoHook
<1>4. KickInv'
  BY <1>1, <1>2 DEF ClientsInv, KickInv, RevokedStayOut
<1>5. ExportInv'
  <2>1. CASE ReconcilePending
    BY <2>1 DEF ClientsInv, ReconcilePending, onlooker, ExportInv
  <2>2. CASE \E c \in Ids : ExportSelect(c)
    <3>1. PICK c \in Active : /\ exporter' = [pc |-> "selected", id |-> c,
                                              profile |-> meta[c].profile]
                              /\ meta[c].profile.dir = "active"
      BY <2>2 DEF ExportSelect
    <3>2. meta[c].profile.name \in Names
      <4>1. c \in Ids /\ row[c].status = "active" /\ "active" \in Current
        BY DEF Active, Current
      <4>2. meta[c].profile = [dir |-> Directory(row[c].status), name |-> row[c].name,
                               gen |-> meta[c].profile.gen]
        BY <4>1 DEF ClientsInv, DbInv, DbOK, MetasOK
      <4>3. meta[c].profile.name = row[c].name
        BY <4>2
      <4> QED
        BY <4>1, <4>3 DEF ClientsInv, DbInv, DbOK, RowsOK
    <3> QED
      BY <3>1, <3>2 DEF ExportInv
  <2>3. CASE ExportRead
    BY <2>3 DEF ExportRead, ExportInv
  <2> QED
    BY <2>1, <2>2, <2>3
<1> QED
  BY <1>2, <1>3, <1>4, <1>5 DEF ClientsInv

LEMMA ClientsStepInv ==
    ASSUME ClientsInv, ClientsStep
    PROVE  ClientsInv'
<1>1. ASSUME NEW c \in Ids, Reconcile(c) \/ RuntimeDisconnect(c) PROVE ClientsInv'
  BY <1>1, DisconnectInv DEF Reconcile, RuntimeDisconnect
<1> QED
  BY <1>1, MutationInv, RecoverInv, ConnectInv, SessionEndInv, HookStepsInv, HookAcceptsInv,
     OnlookersInv DEF ClientsStep

LEMMA ClientsStutter ==
    ASSUME ClientsInv, UNCHANGED clientVars
    PROVE  ClientsInv'
<1>1. /\ UNCHANGED <<database, disk, journal, focus>>
      /\ UNCHANGED <<session, hook, kicks, kicked, exporter, focus>>
  BY DEF clientVars, runtime, onlooker
<1>2. (DbInv /\ PlanInv /\ JournalInv /\ WorkspaceInv)' /\ CommittedCrl' = CommittedCrl
  BY <1>1, JournalFrame
<1> QED
  BY <1>1, <1>2, RuntimeFrame DEF ClientsInv

-----------------------------------------------------------------------------
(* What the invariant implies.                                             *)

LEMMA NetworkInUse ==
    ASSUME DbInv
    PROVE  Network \in Configs /\ NetId \in Nat /\ NetId = Len(networks)
           /\ networks[NetId] = Network
  BY DEF DbInv, DbOK, NetsOK, Network, NetId

\* An address of an assignment is a static one, in the region of the network.
LEMMA AssignedAddress ==
    ASSUME DbInv, NEW c \in Ids, asg[c].addr # NoAddress
    PROVE  asg[c].kind = "static" /\ asg[c].addr \in StaticRange(Network)
  BY DEF DbInv, DbOK, AsgsOK, AsgOK, NoAsg, Network, NetId

LEMMA LeasedAddress ==
    ASSUME DbInv, NEW c \in Ids, lease[c].addr # NoAddress
    PROVE  lease[c] \in [addr : DynamicRange(Network), net : {NetId}] /\ lease[c] # NoLease
  BY DEF DbInv, LeaseInv, NoLease

LEMMA TypeInvariant ==
    ASSUME ClientsInv
    PROVE  ClientsTypeOK
<1>0. DbInv /\ focus \in Onlookers
  BY DEF ClientsInv
<1>1. /\ row \in [Ids -> RowType] /\ asg \in [Ids -> AsgType] /\ DOMAIN meta = Ids
      /\ networks \in Seq(Configs) /\ NetId \in 1..MaxNetworks[focus]
      /\ MaxNetworks[focus] \in Nat
  BY <1>0, BoundsAssumption
     DEF DbInv, DbOK, RowsOK, AsgsOK, MetasOK, NetsOK, RowType, MetaType, NetId
<1>2. asg \in [Ids -> [kind : {"none", "dynamic", "static"}, addr : Addresses \cup {NoAddress},
                       status : {"active", "retained", "released"}, net : 0..MaxNetworks[focus]]]
  <2>1. ASSUME NEW c \in Ids
        PROVE  asg[c].addr \in Addresses \cup {NoAddress} /\ asg[c].net \in 0..MaxNetworks[focus]
    <3>1. asg[c].addr \in Addresses \cup {NoAddress}
      BY <1>0, AssignedAddress, NetworkInUse, RangeAddresses
    <3>2. asg[c].net = 0 \/ asg[c].net = NetId
      BY <1>0 DEF DbInv, DbOK, AsgsOK, AsgOK, NoAsg, NetId
    <3> QED
      BY <1>1, <3>1, <3>2
  <2> QED
    BY <1>1, <2>1 DEF AsgType
<1>3. lease \in [Ids -> [addr : Addresses \cup {NoAddress}, net : 0..MaxNetworks[focus]]]
  <2>1. ASSUME NEW c \in Ids
        PROVE  lease[c] \in [addr : Addresses \cup {NoAddress}, net : 0..MaxNetworks[focus]]
    <3>1. CASE lease[c] = NoLease
      BY <1>1, <3>1 DEF NoLease
    <3>2. CASE lease[c] \in [addr : DynamicRange(Network), net : {NetId}]
      <4>1. lease[c].addr \in Addresses
        BY <1>0, <3>2, NetworkInUse, RangeAddresses
      <4> QED
        BY <1>1, <3>2, <4>1
    <3> QED
      BY <1>0, <3>1, <3>2 DEF DbInv, LeaseInv
  <2> QED
    BY <1>0, <2>1 DEF DbInv, LeaseInv
<1>4. /\ DOMAIN disk = {"ccd", "profile", "issued", "crl"}
      /\ disk.issued \in [Ids -> 0..MaxIssues] /\ disk.crl \subseteq Ids \X (1..MaxIssues)
  BY DEF ClientsInv, JournalInv, FilesOK, FilesType
<1>5. op.kind \in {"none", "create", "rename", "revoke", "reissue", "delete",
                   "set", "edit", "release", "config"}
  BY DEF ClientsInv, PlanInv, Kinds, NoOp
<1>6. hook.pc \in {"idle", "assigned", "loaded"}
  BY DEF ClientsInv, HookInv, NoHook
<1>7. /\ exporter.pc \in {"idle", "selected", "exported", "failed"} /\ kicks \subseteq Ids
      /\ session \in [Ids -> [state : {"none", "verified", "up"}, gen : 0..MaxIssues]]
      /\ kicked \in [Ids -> SUBSET (1..MaxIssues)]
  BY DEF ClientsInv, ExportInv, KickInv
<1> QED
  BY <1>0, <1>1, <1>2, <1>3, <1>4, <1>5, <1>6, <1>7 DEF ClientsTypeOK, RowType

LEMMA LoadableInvariant ==
    ASSUME ClientsInv
    PROVE  ClientsLoadable
<1>0. DbInv
  BY DEF ClientsInv
<1> SUFFICES ASSUME NEW c \in Ids PROVE Loadable(asg[c], lease[c])
  BY DEF ClientsLoadable
<1>1. /\ asg[c].kind # "none" => asg[c].net = NetId
      /\ asg[c].kind = "static" => asg[c].addr \in StaticRange(Network)
  BY <1>0 DEF DbInv, DbOK, AsgsOK, AsgOK, NoAsg, NetId, Network
<1>2. lease[c] = NoLease \/ (/\ lease[c] \in [addr : DynamicRange(Network), net : {NetId}]
                             /\ asg[c].kind = "dynamic")
  BY <1>0 DEF DbInv, LeaseInv
<1> QED
  BY <1>1, <1>2 DEF Loadable, Network

LEMMA DisjointInvariant ==
    ASSUME ClientsInv
    PROVE  AddressesDisjoint
<1>0. DbInv /\ Network \in Configs
  BY NetworkInUse DEF ClientsInv
<1> SUFFICES ASSUME NEW c \in Ids, NEW d \in Ids, c # d,
                    NEW x, x \in HeldBy(c), x \in HeldBy(d)
             PROVE  FALSE
  BY DEF AddressesDisjoint
<1>1. /\ x # NoAddress /\ (x = asg[c].addr \/ x = lease[c].addr)
      /\ (x = asg[d].addr \/ x = lease[d].addr)
  BY DEF HeldBy
<1>2. CASE x = asg[c].addr /\ x = asg[d].addr
  BY <1>0, <1>1, <1>2, AssignedAddress DEF DbInv, DbOK, AsgsOK
<1>3. CASE x = asg[c].addr /\ x = lease[d].addr
  BY <1>0, <1>1, <1>3, AssignedAddress, LeasedAddress, RangesDisjoint
<1>4. CASE x = lease[c].addr /\ x = asg[d].addr
  BY <1>0, <1>1, <1>4, AssignedAddress, LeasedAddress, RangesDisjoint
<1>5. CASE x = lease[c].addr /\ x = lease[d].addr
  <2>1. lease[c] = lease[d] /\ lease[c] # NoLease
    <3>1. /\ lease[c] \in [addr : DynamicRange(Network), net : {NetId}] /\ lease[c] # NoLease
          /\ lease[d] \in [addr : DynamicRange(Network), net : {NetId}]
      BY <1>0, <1>1, <1>5, LeasedAddress
    <3>2. /\ lease[c] = [addr |-> lease[c].addr, net |-> NetId]
          /\ lease[d] = [addr |-> lease[d].addr, net |-> NetId]
      BY <3>1
    <3> QED
      BY <1>5, <3>1, <3>2
  <2> QED
    BY <1>0, <2>1 DEF DbInv, LeaseInv
<1> QED
  BY <1>1, <1>2, <1>3, <1>4, <1>5

\* A good database passes the checks of the schema.
LEMMA GoodAccepted ==
    ASSUME NEW rows, NEW asgs, NEW metas, NEW nets, DbOK(rows, asgs, metas, nets)
    PROVE  SchemaAccepts(rows, asgs, nets, metas)
<1>1. RowsOK(rows) /\ AsgsOK(rows, asgs, nets) /\ MetasOK(rows, metas)
      /\ nets[Len(nets)] \in Configs
  BY DEF DbOK, NetsOK
<1>2. \A c \in Ids : /\ asgs[c].kind = "static" => /\ asgs[c].net = Len(nets)
                                                  /\ asgs[c].addr \in StaticRange(nets[Len(nets)])
                     /\ asgs[c].kind # "static" => asgs[c].addr = NoAddress
  BY <1>1 DEF AsgsOK, AsgOK, NoAsg
<1>3. ASSUME NEW c \in Ids, asgs[c].kind = "static", NEW d \in Ids \ {c}
      PROVE  asgs[d].addr # asgs[c].addr
  <2>1. asgs[c].addr # NoAddress
    BY <1>1, <1>2, <1>3, RangeAddresses
  <2> QED
    BY <1>1, <1>2, <1>3, <2>1 DEF AsgsOK
<1>4. ASSUME NEW c \in Ids, NEW d \in Ids, c # d, metas[c].profile # NoProfile
      PROVE  metas[c].profile.name # metas[d].profile.name
  <2>1. \A x \in Ids : /\ rows[x].status \in Current => metas[x].profile.name = rows[x].name
                       /\ rows[x].status \notin Current => metas[x].profile = NoProfile
    <3> SUFFICES ASSUME NEW x \in Ids
                 PROVE  /\ rows[x].status \in Current => metas[x].profile.name = rows[x].name
                        /\ rows[x].status \notin Current => metas[x].profile = NoProfile
      OBVIOUS
    <3>1. rows[x].status \in Current =>
             metas[x].profile = [dir |-> Directory(rows[x].status), name |-> rows[x].name,
                                 gen |-> metas[x].profile.gen]
      BY <1>1 DEF MetasOK
    <3>2. rows[x].status \in Current => metas[x].profile.name = rows[x].name
      BY <3>1
    <3> QED
      BY <1>1, <3>2 DEF MetasOK
  <2>2. NoProfile.name = NoName /\ NoName \notin Names
    BY NamesAssumption DEF NoProfile, NoName
  <2> QED
    BY <1>1, <1>4, <2>1, <2>2 DEF RowsOK
<1> QED
  BY <1>1, <1>2, <1>3, <1>4 DEF SchemaAccepts, RowsOK

LEMMA AcceptedInvariant ==
    ASSUME ClientsInv
    PROVE  PlanIsAccepted
<1> SUFFICES ASSUME op # NoOp PROVE CommitAccepted
  BY DEF PlanIsAccepted
<1>1. SourceAccepted /\ DbOK(RowAfter, AsgAfter, MetaAfter, NetsAfter)
  BY DEF ClientsInv, PlanInv
<1>2. SchemaAccepts(RowAfter, AsgAfter, NetsAfter, MetaAfter)
  BY <1>1, GoodAccepted
<1> QED
  BY <1>1, <1>2 DEF CommitAccepted, RowAfter, AsgAfter, MetaAfter, NetsAfter

\* What a lock-free reader finds in clients/active was not revoked by a
\* committed mutation, also before a crashed one is recovered.
LEMMA ActiveInvariant ==
    ASSUME ClientsInv
    PROVE  ActiveUnrevoked(disk, CommittedCrl)
<1>1. CASE op = NoOp /\ pending = NoOp
  BY <1>1, FilesUnrevoked DEF ClientsInv, DbInv, DbOK, JournalInv, CommittedCrl
<1>2. CASE op # NoOp
  <2>1. ActiveUnrevoked(disk, disk.crl)
    BY <1>2, FilesUnrevoked DEF ClientsInv, PlanInv, JournalInv, DbOK
  <2> QED
    BY <2>1, CommittedInstalled DEF ActiveUnrevoked
<1>3. CASE op = NoOp /\ pending # NoOp
  BY <1>3 DEF ClientsInv, JournalInv, CommittedCrl
<1> QED
  BY <1>1, <1>2, <1>3

LEMMA FilesInvariant ==
    ASSUME ClientsInv
    PROVE  FilesMatchDatabase
<1> SUFFICES ASSUME op = NoOp, pending = NoOp PROVE FilesMatchDatabase
  BY DEF FilesMatchDatabase
<1>1. DbInv /\ FilesOK(disk, row, asg, meta)
  BY DEF ClientsInv, JournalInv
<1>2. \A c \in Ids : /\ disk.ccd[c] = IF c \in Active THEN asg[c].addr ELSE NoAddress
                     /\ meta[c].ccd = disk.ccd[c]
  BY <1>1 DEF FilesOK, CcdOK, Active
<1>3. ASSUME NEW k \in DOMAIN disk.profile
      PROVE  LET owners == {c \in Listed : k = <<Directory(row[c].status), row[c].name>>}
             IN  \/ owners = {} /\ disk.profile[k] = NoFile
                 \/ \E c \in owners : disk.profile[k] = [id |-> c, gen |-> disk.issued[c]]
  <2> DEFINE owners == {c \in Listed : k = <<Directory(row[c].status), row[c].name>>}
  <2>1. k \in {"active", "revoked"} \X Names
    BY <1>1 DEF FilesOK, FilesType
  <2>2. CASE owners = {}
    <3>1. disk.profile[k] = NoFile
      BY <1>1, <2>1, <2>2 DEF FilesOK, ProfilesOK, Listed
    <3> QED
      BY <2>2, <3>1
  <2>3. CASE owners # {}
    <3>1. PICK c \in owners : TRUE
      BY <2>3
    <3>2. disk.profile[k] = [id |-> c, gen |-> disk.issued[c]]
      BY <1>1, <3>1 DEF FilesOK, ProfilesOK, Listed
    <3> QED
      BY <3>1, <3>2
  <2> QED
    BY <2>2, <2>3
<1>4. \A c \in Ids : \A g \in 1..disk.issued[c] :
          <<c, g>> \in disk.crl <=> ~(c \in Active /\ g = disk.issued[c])
  <2> SUFFICES ASSUME NEW c \in Ids, NEW g \in 1..disk.issued[c]
               PROVE  <<c, g>> \in disk.crl <=> ~(c \in Active /\ g = disk.issued[c])
    OBVIOUS
  <2>1. disk.issued[c] \in 0..MaxIssues
    BY <1>1, DiskFacts
  <2>2. g \in 1..MaxIssues /\ g <= disk.issued[c]
    BY <2>1, BoundsAssumption
  <2> QED
    BY <1>1, <2>2 DEF FilesOK, CrlOK, Active
<1>5. ASSUME NEW c \in Ids, meta[c].profile # NoProfile
      PROVE  disk.profile[<<meta[c].profile.dir, meta[c].profile.name>>]
                = [id |-> c, gen |-> meta[c].profile.gen]
  <2>1. c \in Listed
    BY <1>1, <1>5 DEF DbInv, DbOK, MetasOK, Listed
  <2> QED
    BY <2>1, ClientFacts DEF KeyOf
<1>6. workspaces <= count.faults
  <2>1. op.kind \notin Cloning
    BY DEF NoOp, Cloning
  <2> QED
    BY <2>1 DEF ClientsInv, WorkspaceInv
<1> QED
  BY <1>2, <1>3, <1>4, <1>5, <1>6 DEF FilesMatchDatabase
==============================================================================
