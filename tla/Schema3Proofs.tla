---------------------------- MODULE Schema3Proofs ----------------------------
(***************************************************************************)
(* What ReadSchema3 accepts, the schema 4 database accepts, and the import *)
(* loses nothing: for any number of clients, addresses and leases.         *)
(***************************************************************************)
EXTENDS Schema3, WellFoundedInduction, TLAPS

\* The static region and the pool of a valid network do not meet, and no
\* address of either is taken for a missing one (ipam.NewIPv4Layout).
LEMMA Regions ==
    ASSUME NEW n, ValidNetwork(n)
    PROVE  /\ StaticRange(n) \cap DynamicRange(n) = {}
           /\ NoAddress \notin StaticRange(n) /\ NoAddress \notin DynamicRange(n)
  BY SMT DEF ValidNetwork, StaticRange, DynamicRange, ClientFirst, ClientLast, ClientCapacity,
             NoAddress

\* A UUID names one line of client-state.csv (readIdentities).
LEMMA IdentityUnique ==
    ASSUME NEW l, LegacyTypeOK(l), IdentitiesValid(l), NEW x \in Lines(l.ids)
    PROVE  Identity(l, x.id) = x
<1>0. DOMAIN l.ids = 1..Len(l.ids) /\ Len(l.ids) \in Nat
  BY DEF LegacyTypeOK
<1>a. \A i, j \in DOMAIN l.ids : i < j => l.ids[i].id # l.ids[j].id
  BY DEF IdentitiesValid
<1>1. \A y \in Lines(l.ids) : y.id = x.id => y = x
  BY <1>0, <1>a DEF Lines
<1>2. Identity(l, x.id) \in Lines(l.ids) /\ Identity(l, x.id).id = x.id
  BY DEF Identity
<1> QED
  BY <1>1, <1>2

\* Current clients have different names (readIdentities).
LEMMA NamesUnique ==
    ASSUME NEW l, LegacyTypeOK(l), IdentitiesValid(l),
           NEW x \in Lines(l.ids), NEW y \in Lines(l.ids),
           x.id # y.id, x.status # "deleted", y.status # "deleted"
    PROVE  x.name # y.name
<1>1. DOMAIN l.ids = 1..Len(l.ids) /\ Len(l.ids) \in Nat
  BY DEF LegacyTypeOK
<1>2. \A i, j \in DOMAIN l.ids :
        i < j /\ l.ids[i].status # "deleted" /\ l.ids[j].status # "deleted"
          => l.ids[i].name # l.ids[j].name
  BY DEF IdentitiesValid
<1>3. PICK i \in DOMAIN l.ids : x = l.ids[i]
  BY DEF Lines
<1>4. PICK j \in DOMAIN l.ids : y = l.ids[j]
  BY DEF Lines
<1>5. i < j \/ j < i
  BY <1>1, <1>3, <1>4
<1> QED
  BY <1>2, <1>3, <1>4, <1>5

\* A line of client-ip.csv is the one of its client, and belongs to a current
\* one under its name (readAssignments).
LEMMA AddressUnique ==
    ASSUME NEW l, LegacyTypeOK(l), AssignmentsValid(l), NEW x \in Lines(l.ips)
    PROVE  /\ x.id \in CurrentIds(l) /\ x.name = Identity(l, x.id).name
           /\ x.addr # NoAddress => x.addr \in StaticRange(l.network)
           /\ AddressOf(l, x.id) = x.addr
           /\ \A y \in Lines(l.ips) :
                y.id # x.id /\ x.addr # NoAddress => y.addr # x.addr
<1>0. DOMAIN l.ips = 1..Len(l.ips) /\ Len(l.ips) \in Nat
  BY DEF LegacyTypeOK
<1>1. \A i \in DOMAIN l.ips :
        /\ l.ips[i].id \in CurrentIds(l) /\ l.ips[i].name = Identity(l, l.ips[i].id).name
        /\ l.ips[i].addr # NoAddress => l.ips[i].addr \in StaticRange(l.network)
  BY DEF AssignmentsValid, AddressLineValid
<1>2. \A i \in DOMAIN l.ips : \A j \in 1..(i - 1) :
        /\ l.ips[j].name # l.ips[i].name
        /\ l.ips[i].addr # NoAddress => l.ips[j].addr # l.ips[i].addr
  BY DEF AssignmentsValid, AddressLineValid
<1>3. \A i, j \in DOMAIN l.ips : l.ips[i].id = l.ips[j].id => i = j
  BY <1>0, <1>1, <1>2
<1>4. \A y \in Lines(l.ips) : y.id = x.id => y = x
  BY <1>3 DEF Lines
<1>5. AddressOf(l, x.id) = x.addr
  <2> DEFINE y == CHOOSE z \in Lines(l.ips) : z.id = x.id
  <2>1. y \in Lines(l.ips) /\ y.id = x.id
    OBVIOUS
  <2> QED
    BY <2>1, <1>4 DEF AddressOf
<1>6. \A i, j \in DOMAIN l.ips :
        i # j /\ l.ips[i].addr # NoAddress => l.ips[j].addr # l.ips[i].addr
  BY <1>0, <1>2
<1>7. \A y \in Lines(l.ips) : y.id # x.id /\ x.addr # NoAddress => y.addr # x.addr
  BY <1>6 DEF Lines
<1> QED
  BY <1>1, <1>5, <1>7 DEF Lines

\* Every current client has a line (readAssignments).
LEMMA AddressKnown ==
    ASSUME NEW l, LegacyTypeOK(l), IdentitiesValid(l), AssignmentsValid(l),
           NEW id \in CurrentIds(l)
    PROVE  \E x \in Lines(l.ips) : x.id = id /\ AddressOf(l, id) = x.addr
<1>1. PICK x \in Lines(l.ips) : x.name = Identity(l, id).name
  BY DEF AssignmentsValid
<1>2. x.id \in CurrentIds(l) /\ x.name = Identity(l, x.id).name
  BY <1>1, AddressUnique
<1>3. PICK v \in Lines(l.ids) : v.id = id /\ v.status # "deleted"
  BY DEF CurrentIds
<1>4. PICK w \in Lines(l.ids) : w.id = x.id /\ w.status # "deleted"
  BY <1>2 DEF CurrentIds
<1>5. Identity(l, id) = v /\ Identity(l, x.id) = w
  BY <1>3, <1>4, IdentityUnique
<1>6. x.id = id
  BY <1>1, <1>2, <1>3, <1>4, <1>5, NamesUnique
<1> QED
  BY <1>1, <1>6, AddressUnique

\* Two current clients have different static addresses.
LEMMA AddressesDiffer ==
    ASSUME NEW l, LegacyTypeOK(l), IdentitiesValid(l), AssignmentsValid(l),
           NEW c \in CurrentIds(l), AddressOf(l, c) # NoAddress
    PROVE  /\ AddressOf(l, c) \in StaticRange(l.network)
           /\ \A d \in CurrentIds(l) : c # d => AddressOf(l, d) # AddressOf(l, c)
  BY AddressKnown, AddressUnique

\* What is staged for a client.
LEMMA StagedIs ==
    ASSUME NEW l, LegacyTypeOK(l), SourceReady(l), NEW x \in Lines(l.ids)
    PROVE  /\ x.id \in DOMAIN StagedClients(l)
           /\ StagedClients(l)[x.id] = StagedClient(l, x)
           /\ x.status # "deleted" => x.id \in CurrentIds(l)
  BY IdentityUnique DEF StagedClients, SourceReady, CurrentIds

\* An imported lease is one of the pool, of an active client without a static
\* address, and of nobody else (readLeases).
LEMMA LeasesDiffer ==
    ASSUME NEW l, LegacyTypeOK(l), NEW c \in ImportedLeases(l)
    PROVE  /\ c \in CurrentIds(l) /\ AddressOf(l, c) = NoAddress
           /\ Identity(l, c).status = "active"
           /\ l.leases[c] \in DynamicRange(l.network)
           /\ \A d \in ImportedLeases(l) : c # d => l.leases[d] # l.leases[c]
<1>1. DOMAIN l.leases \subseteq Nat
  BY DEF LegacyTypeOK
<1>2. \A d \in ImportedLeases(l) :
        /\ d \in DOMAIN l.leases /\ LeaseValid(l, d)
        /\ \A k \in DOMAIN l.leases : k < d /\ LeaseValid(l, k) => l.leases[k] # l.leases[d]
  BY DEF ImportedLeases
<1>3. \A d \in ImportedLeases(l) : c # d => l.leases[d] # l.leases[c]
  BY <1>1, <1>2
<1> QED
  BY <1>2, <1>3 DEF LeaseValid

\* Of the leases on an address the first one is imported (readLeases).
LEMMA LeaseKept ==
    ASSUME NEW l, LegacyTypeOK(l), NEW id \in DOMAIN l.leases, LeaseValid(l, id)
    PROVE  \E c \in ImportedLeases(l) : l.leases[c] = l.leases[id]
<1> DEFINE T == {k \in DOMAIN l.leases : LeaseValid(l, k) /\ l.leases[k] = l.leases[id]}
           R == OpToRel(<, Nat)
<1>1. T \subseteq Nat /\ T # {}
  BY DEF LegacyTypeOK
<1>2. \E x \in T : \A y \in T : ~ (<<y, x>> \in R)
  <2> HIDE DEF T
  <2> QED
    BY <1>1, NatLessThanWellFounded, WFMin
<1>3. PICK x \in T : \A y \in T : ~ (<<y, x>> \in R)
  BY <1>2
<1>4. \A y \in T : ~(y < x)
  BY <1>1, <1>3 DEF OpToRel
<1> QED
  BY <1>4 DEF ImportedLeases

\* Whatever ReadSchema3 calls ready, the database of the stage takes: names,
\* static addresses and leases meet its unique indexes and its checks
\* (buildStage, CreateClient).
LEMMA ReadyIsAccepted ==
    ASSUME NEW l, LegacyTypeOK(l), SourceReady(l)
    PROVE  DatabaseAccepts(l.network, StagedClients(l))
<1> DEFINE C == StagedClients(l)
<1>0. ValidNetwork(l.network) /\ IdentitiesValid(l) /\ AssignmentsValid(l)
  BY DEF SourceReady, SettingsValid, LegacyTypeOK
<1>1. \A c \in DOMAIN C : \E x \in Lines(l.ids) : x.id = c
  BY DEF StagedClients
<1>2. ASSUME NEW c \in DOMAIN C, NEW d \in DOMAIN C, c # d
      PROVE  /\ "deleted" \notin {C[c].status, C[d].status} => C[c].name # C[d].name
             /\ C[c].kind = "static" => C[c].addr # C[d].addr
             /\ C[c].lease # NoAddress => C[c].lease # C[d].lease
  <2>1. PICK x \in Lines(l.ids) : x.id = c
    BY <1>1
  <2>2. PICK y \in Lines(l.ids) : y.id = d
    BY <1>1
  <2>3. C[c] = StagedClient(l, x) /\ C[d] = StagedClient(l, y)
    BY <2>1, <2>2, StagedIs
  <2>3a. /\ x.status # "deleted" => c \in CurrentIds(l)
         /\ y.status # "deleted" => d \in CurrentIds(l)
    BY <2>1, <2>2, StagedIs
  <2> HIDE DEF C
  <2>4. "deleted" \notin {C[c].status, C[d].status} => C[c].name # C[d].name
    BY <1>0, <1>2, <2>1, <2>2, <2>3, NamesUnique DEF StagedClient
  <2>5. C[c].kind = "static" => C[c].addr # C[d].addr
    BY <1>0, <1>2, <2>1, <2>2, <2>3, <2>3a, AddressesDiffer DEF StagedClient
  <2>6. C[c].lease # NoAddress => C[c].lease # C[d].lease
    BY <1>2, <2>1, <2>2, <2>3, LeasesDiffer DEF StagedClient
  <2> QED
    BY <2>4, <2>5, <2>6
<1>3. ASSUME NEW c \in DOMAIN C
      PROVE  /\ C[c].kind = "static" => C[c].addr \in StaticRange(l.network)
             /\ C[c].lease # NoAddress =>
                  C[c].kind = "dynamic" /\ C[c].lease \in DynamicRange(l.network)
  <2>1. PICK x \in Lines(l.ids) : x.id = c
    BY <1>1
  <2>2. C[c] = StagedClient(l, x) /\ (x.status # "deleted" => c \in CurrentIds(l))
    BY <2>1, StagedIs
  <2> HIDE DEF C
  <2>3. C[c].kind = "static" => C[c].addr \in StaticRange(l.network)
    BY <1>0, <2>1, <2>2, AddressesDiffer DEF StagedClient
  <2>4. C[c].lease # NoAddress =>
           C[c].kind = "dynamic" /\ C[c].lease \in DynamicRange(l.network)
    BY <2>1, <2>2, LeasesDiffer DEF StagedClient
  <2> QED
    BY <2>3, <2>4
<1> QED
  BY <1>2, <1>3 DEF DatabaseAccepts

\* The imported clients of a schema 3 root (see Migration.ImportedFaithfully).
Faithful(l, clients) ==
    /\ \A x \in Lines(l.ids) : clients[x.id].status = x.status /\ clients[x.id].name = x.name
    /\ \A c, d \in DOMAIN clients :
         c # d /\ HeldAddress(clients[c]) # NoAddress
           => HeldAddress(clients[c]) # HeldAddress(clients[d])
    /\ \A x \in Lines(l.ips) : x.addr # NoAddress => HeldAddress(clients[x.id]) = x.addr
    /\ \A id \in DOMAIN l.leases : LeaseValid(l, id) =>
         \E c \in DOMAIN clients : clients[c].lease = l.leases[id]

\* What is staged of a ready root is faithful to it: clients keep name and
\* status, nobody's address is another's, static addresses stay and a valid
\* lease stays with one of its holders (stageClientState).
LEMMA StagedIsFaithful ==
    ASSUME NEW l, LegacyTypeOK(l), SourceReady(l)
    PROVE  Faithful(l, StagedClients(l))
<1> DEFINE C == StagedClients(l)
<1>0. ValidNetwork(l.network) /\ IdentitiesValid(l) /\ AssignmentsValid(l)
  BY DEF SourceReady, SettingsValid, LegacyTypeOK
<1>1. \A x \in Lines(l.ids) : C[x.id].status = x.status /\ C[x.id].name = x.name
  <2> TAKE x \in Lines(l.ids)
  <2>1. C[x.id] = StagedClient(l, x)
    BY StagedIs
  <2> HIDE DEF C
  <2> QED
    BY <2>1 DEF StagedClient
<1>2. DatabaseAccepts(l.network, C)
  BY ReadyIsAccepted
<1>3. ASSUME NEW c \in DOMAIN C, NEW d \in DOMAIN C, c # d, HeldAddress(C[c]) # NoAddress
      PROVE  HeldAddress(C[c]) # HeldAddress(C[d])
  <2> HIDE DEF C
  <2>1. CASE C[c].kind = "static" /\ C[d].kind = "static"
    BY <1>2, <1>3, <2>1 DEF DatabaseAccepts, HeldAddress
  <2>2. CASE C[c].kind # "static" /\ C[d].kind # "static"
    BY <1>2, <1>3, <2>2 DEF DatabaseAccepts, HeldAddress
  <2>3. CASE (C[c].kind = "static") # (C[d].kind = "static")
    BY <1>0, <1>2, <1>3, <2>3, Regions DEF DatabaseAccepts, HeldAddress
  <2> QED
    BY <2>1, <2>2, <2>3
<1>4. ASSUME NEW x \in Lines(l.ips), x.addr # NoAddress
      PROVE  HeldAddress(C[x.id]) = x.addr
  <2>1. x.id \in CurrentIds(l) /\ AddressOf(l, x.id) = x.addr
    BY <1>0, AddressUnique
  <2>2. PICK y \in Lines(l.ids) : y.id = x.id /\ y.status # "deleted"
    BY <2>1 DEF CurrentIds
  <2>3. C[x.id] = StagedClient(l, y)
    BY <2>2, StagedIs
  <2> HIDE DEF C
  <2> QED
    BY <1>4, <2>1, <2>2, <2>3 DEF StagedClient, HeldAddress
<1>5. ASSUME NEW id \in DOMAIN l.leases, LeaseValid(l, id)
      PROVE  \E c \in DOMAIN C : C[c].lease = l.leases[id]
  <2>1. PICK c \in ImportedLeases(l) : l.leases[c] = l.leases[id]
    BY <1>5, LeaseKept
  <2>2. c \in CurrentIds(l)
    BY LeasesDiffer
  <2>3. PICK y \in Lines(l.ids) : y.id = c /\ y.status # "deleted"
    BY <2>2 DEF CurrentIds
  <2>4. c \in DOMAIN C /\ C[c] = StagedClient(l, y)
    BY <2>3, StagedIs
  <2> HIDE DEF C
  <2> QED
    BY <2>1, <2>3, <2>4 DEF StagedClient
<1> QED
  BY <1>1, <1>3, <1>4, <1>5 DEF Faithful
=============================================================================
