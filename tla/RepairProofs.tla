----------------------------- MODULE RepairProofs ----------------------------
(***************************************************************************)
(* What a repair promises, for every number of accidents and every set of  *)
(* clients: an apply that ends leaves nothing to do but what the scan      *)
(* could not see, it stops only at a damaged CA certificate, and one that  *)
(* is interrupted can be taken up again.                                   *)
(*                                                                         *)
(* ApplyInv follows a plan through its actions: every deviation the scan   *)
(* reported is gone or its action is still to come, and the evidence of a  *)
(* recovery that is still to come is untouched.  It stands on Inv of       *)
(* InstanceProofs.                                                         *)
(***************************************************************************)
EXTENDS InstanceProofs

-----------------------------------------------------------------------------
(* The inductive invariant, in parts.                                      *)

\* The actions that recover, rebuild or refresh, and those that register.
Act(t, o)       == [type |-> t, owner |-> o, kind |-> ""]
Registration(f) == [type |-> Register, owner |-> f[2], kind |-> f[1]]

RebuildCRL    == Act("REBUILD_CRL", "instance")
RecoverCA     == Act("RECOVER_CA_CERT", "instance")
RecoverId(c)  == Act("RECOVER_CLIENT_IDENTITY", c)
RecoverTls    == Act("RECOVER_TLS_CRYPT", "instance")
RefreshCl(c)  == Act("REFRESH_CLIENT_ARTIFACTS", c)
RefreshServer == Act("REFRESH_SERVER_ARTIFACTS", "instance")

Pair == {"client-cert", "client-key"}

\* A plan is being applied and no accident has come since it was made.
Applying == phase \in {"apply", "install"} /\ ~touched

\* What is registered was verified: no row says that a file of the authority
\* is another one, or that a CRL is invalid.
DigestInv ==
    /\ \A k \in {"ca-cert", "ca-key", "server-cert", "server-key"} :
         meta[<<k, "instance">>] \in {NoMetadata, "genuine"}
    /\ meta[<<"crl", "instance">>] \in {NoMetadata, "genuine", "foreign"}

\* An open operation writes what its action would write now, and its action
\* would still be accepted: it reads no file that it writes.
OpenInv ==
    phase = "install" =>
        op.action \in First(todo) /\ Accepted(op.action) /\ op.writes = Writes(op.action)

\* Rows that do not match or are missing have their action still to come.
RowsCovered ==
    /\ todo \subseteq plan
    /\ \A f \in Recorded : Registered(f) => Matching(f) \/ RecoveryOf(f) \in todo
    /\ \A f \in Recorded :
         \/ Registered(f) \/ f[1] = "ccd"
         \/ RecoveryOf(f) \in todo \/ Registration(f) \in todo
         \/ f[1] \in Pair /\ RefreshCl(f[2]) \in todo

\* Files that do not verify have their action still to come.
FilesCovered ==
    /\ StoredCA \/ (~ValidateCA /\ RecoverCA \in todo)
    /\ RecoverCA \in plan \/ RebuildCRL \in todo \/ ValidateCRLForCA
    /\ ValidateTLSCryptKey \/ RecoverTls \in todo
    /\ Of("server-config") = "genuine" \/ RefreshServer \in todo
    /\ \A c \in Owners : ValidateClient(c) \/ RecoverId(c) \in todo
    /\ \A c \in Owners : content[<<"ccd", c>>] = Original(<<"ccd", c>>) \/ RefreshCl(c) \in todo

\* What is neither repaired nor, under a valid CA certificate, damaged.
AuthorityInv ==
    /\ \A k \in {"signing", "ca-key", "server-cert", "server-key"} : Of(k) # "absent"
    /\ RecoverCA \in plan \/ (ValidateCAKeyPair /\ ValidateServer)
    /\ RecoverCA \in plan => \A c \in Owners : RecoverId(c) \in plan
    /\ RecoverCA \in plan /\ RebuildCRL \in todo => RecoverCA \in todo /\ Of("ca-cert") # "genuine"

\* The evidence of the recoveries to come.
EvidenceInv ==
    /\ RecoverCA \in todo => CaEvidence
    /\ RecoverTls \in todo => Cardinality(TlsEvidence) = 1
    /\ \A c \in Owners : RecoverId(c) \in todo => Evidence(c)

\* What the plan looked at and does not touch stays as it was found.
ClientsSeen ==
    \A c \in Owners :
        /\ \/ RefreshCl(c) \in todo \/ RecoverTls \in plan \/ RecoverId(c) \in plan
           \/ content[<<"profile", c>>] = Rendered(c)
        /\ RecoverId(c) \in plan \/ RebuildCRL \in plan \/ ValidateRevocationStatus(c)
        /\ ValidateClient(c) /\ Registered(<<"client-cert", c>>) =>
             Matching(<<"client-cert", c>>) \/ RecoverCA \in plan
        /\ ValidateClient(c) /\ RebuildCRL \in todo /\ Of("crl") = "foreign" =>
             c \notin Revoked \/ RecoverCA \in plan

Covered  == RowsCovered /\ FilesCovered /\ AuthorityInv /\ EvidenceInv /\ ClientsSeen
ApplyInv == Applying => Covered

\* What an apply that was killed leaves behind, until it is rolled back.
LeftInv ==
    ~touched /\ op # NoOperation /\ phase \in {"idle", "recover"} =>
        \A i \in Blockers : \/ i.action = "RECOVER_OPERATION"
                            \/ AuthorityUncovered(i) \/ RevocationUncovered(i) \/ PairUncovered(i)

\* An apply that ended has no operation open.
EndedInv == result = "applied" => phase = "idle" /\ op = NoOperation

ProgressInv == DigestInv /\ OpenInv /\ ApplyInv /\ LeftInv /\ EndedInv /\ RepairConverges

-----------------------------------------------------------------------------
(* Actions and their order                                                 *)

\* The places of the action types in the order of a plan.
LEMMA RanksAre ==
    /\ Rank("REBUILD_CRL") = 1 /\ Rank("RECOVER_CA_CERT") = 2
    /\ Rank("RECOVER_CLIENT_IDENTITY") = 3 /\ Rank("RECOVER_TLS_CRYPT") = 4
    /\ Rank("REFRESH_CLIENT_ARTIFACTS") = 5 /\ Rank("REFRESH_SERVER_ARTIFACTS") = 6
    /\ Rank("REGISTER_VERIFIED_ARTIFACT") = 7
<1>1. /\ Order[1] = "REBUILD_CRL" /\ Order[2] = "RECOVER_CA_CERT"
      /\ Order[3] = "RECOVER_CLIENT_IDENTITY" /\ Order[4] = "RECOVER_TLS_CRYPT"
      /\ Order[5] = "REFRESH_CLIENT_ARTIFACTS" /\ Order[6] = "REFRESH_SERVER_ARTIFACTS"
      /\ Order[7] = "REGISTER_VERIFIED_ARTIFACT"
  BY DEF Order
<1>2. DOMAIN Order = 1..7
  BY DEF Order
<1>3. \A i \in 1..7 : i = 1 \/ i = 2 \/ i = 3 \/ i = 4 \/ i = 5 \/ i = 6 \/ i = 7
  OBVIOUS
<1>4. \A i, j \in 1..7 : Order[i] = Order[j] => i = j
  BY <1>1, <1>3
<1>5. ASSUME NEW i \in 1..7 PROVE Rank(Order[i]) = i
  BY <1>2, <1>4 DEF Rank
<1>6. /\ Rank(Order[1]) = 1 /\ Rank(Order[2]) = 2 /\ Rank(Order[3]) = 3 /\ Rank(Order[4]) = 4
      /\ Rank(Order[5]) = 5 /\ Rank(Order[6]) = 6 /\ Rank(Order[7]) = 7
  BY <1>5
<1> QED
  BY <1>1, <1>6

\* The fields of an action.
LEMMA ActsAre ==
    /\ RebuildCRL.type = "REBUILD_CRL" /\ RecoverCA.type = "RECOVER_CA_CERT"
    /\ RecoverTls.type = "RECOVER_TLS_CRYPT" /\ RefreshServer.type = "REFRESH_SERVER_ARTIFACTS"
    /\ \A c : RecoverId(c).type = "RECOVER_CLIENT_IDENTITY" /\ RecoverId(c).owner = c
    /\ \A c : RefreshCl(c).type = "REFRESH_CLIENT_ARTIFACTS" /\ RefreshCl(c).owner = c
    /\ \A f : /\ Registration(f).type = Register
              /\ Registration(f).kind = f[1] /\ Registration(f).owner = f[2]
  BY DEF RebuildCRL, RecoverCA, RecoverTls, RefreshServer, RecoverId, RefreshCl, Act, Registration

\* A permitted action is one of these.
LEMMA ActionIs ==
    ASSUME NEW a, ActionOK(a)
    PROVE  /\ a.type \in AutomaticTypes
           /\ a.type = "REBUILD_CRL" => a = RebuildCRL
           /\ a.type = "RECOVER_CA_CERT" => a = RecoverCA
           /\ a.type = "RECOVER_CLIENT_IDENTITY" => a.owner \in Owners /\ a = RecoverId(a.owner)
           /\ a.type = "RECOVER_TLS_CRYPT" => a = RecoverTls
           /\ a.type = "REFRESH_CLIENT_ARTIFACTS" => a.owner \in Owners /\ a = RefreshCl(a.owner)
           /\ a.type = "REFRESH_SERVER_ARTIFACTS" => a = RefreshServer
           /\ a.type = "REGISTER_VERIFIED_ARTIFACT" =>
                /\ a = Registration(<<a.kind, a.owner>>) /\ <<a.kind, a.owner>> \in Recorded \cap lost
                /\ a.kind \notin {"server-config", "profile", "ccd"}
<1>1. a.type \in AutomaticTypes
  BY AutomaticAre DEF ActionOK
<1>2. a = [type |-> a.type, owner |-> a.owner, kind |-> a.kind]
  BY DEF ActionOK
<1>3. /\ a.type # Register => a.kind = ""
      /\ a.type \in ClientActions => a.owner \in Owners
      /\ a.type \notin ClientActions \cup {Register} => a.owner = "instance"
      /\ a.type = Register => /\ <<a.kind, a.owner>> \in Recorded \cap lost
                              /\ a.kind \notin {"server-config", "profile", "ccd"}
  BY DEF ActionOK
<1>4. a.type # Register => a = Act(a.type, a.owner)
  BY <1>2, <1>3 DEF Act
<1>5. a.type = Register => a = Registration(<<a.kind, a.owner>>)
  BY <1>2 DEF Registration
<1> QED
  BY <1>1, <1>3, <1>4, <1>5 DEF Register, ClientActions, RebuildCRL, RecoverCA, RecoverTls,
     RefreshServer, RecoverId, RefreshCl

\* A file with metadata is one of the instance or of a client.
LEMMA FileIs ==
    ASSUME NEW f \in Recorded
    PROVE  /\ f = <<f[1], f[2]>>
           /\ \/ f[1] \in InstanceKinds /\ f[2] = "instance"
              \/ f[1] \in ClientKinds /\ f[2] \in Owners
  BY DEF Recorded

\* The action that brings a file back.
LEMMA RecoveriesAre ==
    /\ RecoveryOf(<<"crl", "instance">>) = RebuildCRL
    /\ RecoveryOf(<<"ca-cert", "instance">>) = RecoverCA
    /\ RecoveryOf(<<"tls-crypt", "instance">>) = RecoverTls
    /\ RecoveryOf(<<"server-config", "instance">>) = RefreshServer
    /\ \A k \in {"ca-key", "server-cert", "server-key"} :
         RecoveryOf(<<k, "instance">>).type \notin AutomaticTypes
    /\ \A k \in Pair, c \in Owners : RecoveryOf(<<k, c>>) = RecoverId(c)
    /\ \A k \in {"profile", "ccd"}, c \in Owners : RecoveryOf(<<k, c>>) = RefreshCl(c)
<1>1. ASSUME NEW k, NEW o PROVE RecoveryOf(<<k, o>>) = Act(actionForArtifact(k), o)
  BY DEF RecoveryOf, Act
<1>2. /\ actionForArtifact("crl") = "REBUILD_CRL" /\ actionForArtifact("ca-cert") = "RECOVER_CA_CERT"
      /\ actionForArtifact("tls-crypt") = "RECOVER_TLS_CRYPT"
      /\ actionForArtifact("server-config") = "REFRESH_SERVER_ARTIFACTS"
      /\ \A k \in Pair : actionForArtifact(k) = "RECOVER_CLIENT_IDENTITY"
      /\ \A k \in {"profile", "ccd"} : actionForArtifact(k) = "REFRESH_CLIENT_ARTIFACTS"
  BY DEF actionForArtifact, Pair
<1>3. \A k \in {"ca-key", "server-cert", "server-key"} : actionForArtifact(k) \notin AutomaticTypes
  BY DEF actionForArtifact, AutomaticTypes
<1>4. \A k \in {"ca-key", "server-cert", "server-key"} :
         RecoveryOf(<<k, "instance">>).type \notin AutomaticTypes
  <2>1. \A t, o : Act(t, o).type = t
    BY DEF Act
  <2> QED
    BY <1>1, <1>3, <2>1
<1> QED
  BY <1>1, <1>2, <1>4 DEF RebuildCRL, RecoverCA, RecoverTls, RefreshServer, RecoverId, RefreshCl

\* An action writes the files it brings back, and records those, the file it
\* registers and, with a client's artifacts, the client's pair.
LEMMA WritesWhat ==
    ASSUME NEW a, ActionOK(a), NEW f \in Recorded
    PROVE  /\ f \in Targets(a) <=> a = RecoveryOf(f)
           /\ f \in Recording(a) <=> \/ a = RecoveryOf(f) \/ a = Registration(f)
                                     \/ f[1] \in Pair /\ a = RefreshCl(f[2])
<1>1. "instance" \notin Owners
  BY OwnersAssumption
<1>2. a.type \in AutomaticTypes
  BY ActionIs
<1>3. f = <<f[1], f[2]>>
  BY FileIs
<1>4. \A k, o : RecoveryOf(<<k, o>>).owner = o
  BY DEF RecoveryOf
<1>5. CASE f[2] = "instance" /\ f[1] \in InstanceKinds
  <2>0. PICK k \in InstanceKinds : f = <<k, "instance">> /\ f[1] = k
    BY <1>3, <1>5
  <2>1. k \notin Pair /\ f[2] \notin Owners
    BY <1>1, <1>5, <2>0 DEF InstanceKinds, Pair
  <2> DEFINE r == RecoveryOf(f)
  <2>2. /\ r = RebuildCRL <=> k = "crl"
        /\ r = RecoverCA <=> k = "ca-cert"
        /\ r = RecoverTls <=> k = "tls-crypt"
        /\ r = RefreshServer <=> k = "server-config"
        /\ r.type \notin ClientActions \cup {Register}
    <3>1. CASE k = "crl"
      BY <2>0, <3>1, RecoveriesAre, ActsAre DEF ClientActions, Register
    <3>2. CASE k = "ca-cert"
      BY <2>0, <3>2, RecoveriesAre, ActsAre DEF ClientActions, Register
    <3>3. CASE k = "tls-crypt"
      BY <2>0, <3>3, RecoveriesAre, ActsAre DEF ClientActions, Register
    <3>4. CASE k = "server-config"
      BY <2>0, <3>4, RecoveriesAre, ActsAre DEF ClientActions, Register
    <3>5. CASE k \in {"ca-key", "server-cert", "server-key"}
      <4>1. r.type \notin AutomaticTypes
        BY <2>0, <3>5, RecoveriesAre
      <4> QED
        BY <3>5, <4>1, ActsAre DEF ClientActions, Register, AutomaticTypes
    <3> QED
      BY <3>1, <3>2, <3>3, <3>4, <3>5 DEF InstanceKinds
  <2>3. \A l : f \in {<<l, "instance">>} <=> k = l
    BY <2>0
  <2>4. ~(f[1] \in Pair /\ a = RefreshCl(f[2]))
    BY <2>0, <2>1
  <2>5. a.type # "REGISTER_VERIFIED_ARTIFACT" => a # Registration(f) /\ (f \in Recording(a) <=> f \in Targets(a))
    <3>1. \A c \in Owners : f \notin {<<"client-cert", c>>, <<"client-key", c>>}
      BY <1>1, <2>0
    <3>2. a.type = "REFRESH_CLIENT_ARTIFACTS" => a.owner \in Owners
      BY ActionIs
    <3> QED
      BY <1>2, <3>1, <3>2, TargetsAre, ActsAre DEF Register, AutomaticTypes
  <2> HIDE DEF r
  <2>6. CASE a.type = "REBUILD_CRL"
    <3>1. a = RebuildCRL /\ Targets(a) = {<<"crl", "instance">>}
      BY <2>6, ActionIs, TargetsAre
    <3> QED
      BY <2>2, <2>3, <2>4, <2>5, <2>6, <3>1 DEF r
  <2>7. CASE a.type = "RECOVER_CA_CERT"
    <3>1. a = RecoverCA /\ Targets(a) = {<<"ca-cert", "instance">>}
      BY <2>7, ActionIs, TargetsAre
    <3> QED
      BY <2>2, <2>3, <2>4, <2>5, <2>7, <3>1 DEF r
  <2>8. CASE a.type = "RECOVER_TLS_CRYPT"
    <3>1. a = RecoverTls /\ Targets(a) = {<<"tls-crypt", "instance">>}
      BY <2>8, ActionIs, TargetsAre
    <3> QED
      BY <2>2, <2>3, <2>4, <2>5, <2>8, <3>1 DEF r
  <2>9. CASE a.type = "REFRESH_SERVER_ARTIFACTS"
    <3>1. a = RefreshServer /\ Targets(a) = {<<"server-config", "instance">>}
      BY <2>9, ActionIs, TargetsAre
    <3> QED
      BY <2>2, <2>3, <2>4, <2>5, <2>9, <3>1 DEF r
  <2>10. CASE a.type \in ClientActions
    <3>1. \E ks : Targets(a) = ks \X {a.owner}
      BY <2>10, TargetsAre DEF ClientActions
    <3>2. f \notin Targets(a)
      BY <1>1, <2>0, <2>10, <3>1 DEF ActionOK
    <3> QED
      BY <2>2, <2>4, <2>5, <2>10, <3>2 DEF r, ClientActions
  <2>11. CASE a.type = "REGISTER_VERIFIED_ARTIFACT"
    <3>1. a = Registration(f) <=> f = <<a.kind, a.owner>>
      BY <1>3, <2>11, ActionIs, ActsAre
    <3>2. Targets(a) = {} /\ Recording(a) = {<<a.kind, a.owner>>}
      BY <2>11, TargetsAre
    <3> QED
      BY <2>2, <2>4, <2>11, <3>1, <3>2 DEF r, Register
  <2> QED
    BY <1>2, <2>6, <2>7, <2>8, <2>9, <2>10, <2>11 DEF AutomaticTypes, ClientActions
<1>6. CASE f[2] \in Owners /\ f[1] \in ClientKinds
  <2>1. /\ f[1] \in Pair \/ f[1] \in {"profile", "ccd"}
        /\ f[1] \in Pair => RecoveryOf(f) = RecoverId(f[2])
        /\ f[1] \in {"profile", "ccd"} => RecoveryOf(f) = RefreshCl(f[2])
        /\ f[1] \in Pair => f[1] \notin {"profile", "ccd"}
        /\ f[2] # "instance"
    BY <1>1, <1>3, <1>6, RecoveriesAre DEF ClientKinds, Pair
  <2>2. /\ \A c : f \in {"client-cert", "client-key"} \X {c} <=> f[1] \in Pair /\ f[2] = c
        /\ \A c : f \in {"profile", "ccd"} \X {c} <=> f[1] \in {"profile", "ccd"} /\ f[2] = c
        /\ \A c : f \in {<<"client-cert", c>>, <<"client-key", c>>} <=> f[1] \in Pair /\ f[2] = c
        /\ \A k : f # <<k, "instance">>
    BY <1>3, <2>1 DEF Pair
  <2>3. CASE a.type = "REBUILD_CRL"
    BY <2>1, <2>2, <2>3, ActionIs, ActsAre, TargetsAre DEF Register
  <2>4. CASE a.type = "RECOVER_CA_CERT"
    BY <2>1, <2>2, <2>4, ActionIs, ActsAre, TargetsAre DEF Register
  <2>5. CASE a.type = "RECOVER_CLIENT_IDENTITY"
    <3>0. a = RecoverId(a.owner) /\ Recording(a) = Targets(a)
      BY <2>5, ActionIs, TargetsAre
    <3>1. f \in Targets(a) <=> f[1] \in Pair /\ f[2] = a.owner
      BY <2>2, <2>5, TargetsAre
    <3> QED
      BY <2>1, <2>5, <3>0, <3>1, ActsAre DEF Register
  <2>6. CASE a.type = "RECOVER_TLS_CRYPT"
    BY <2>1, <2>2, <2>6, ActionIs, ActsAre, TargetsAre DEF Register
  <2>7. CASE a.type = "REFRESH_CLIENT_ARTIFACTS"
    <3>0. /\ a = RefreshCl(a.owner)
          /\ Recording(a) = Targets(a) \cup {<<"client-cert", a.owner>>, <<"client-key", a.owner>>}
      BY <2>7, ActionIs, TargetsAre
    <3>1. f \in Targets(a) <=> f[1] \in {"profile", "ccd"} /\ f[2] = a.owner
      BY <2>2, <2>7, TargetsAre
    <3> QED
      <4>1. f \in Recording(a) <=> f \in Targets(a) \/ (f[1] \in Pair /\ f[2] = a.owner)
        BY <2>2, <3>0
      <4>2. \A c : a = RefreshCl(c) <=> c = a.owner
        BY <3>0, ActsAre
      <4>3. a # Registration(f) /\ \A c : a # RecoverId(c)
        BY <2>7, ActsAre DEF Register
      <4>4. a = RecoveryOf(f) <=> f[1] \in {"profile", "ccd"} /\ f[2] = a.owner
        BY <2>1, <4>2, <4>3
      <4> QED
        BY <3>1, <4>1, <4>2, <4>3, <4>4
  <2>8. CASE a.type = "REFRESH_SERVER_ARTIFACTS"
    BY <2>1, <2>2, <2>8, ActionIs, ActsAre, TargetsAre DEF Register
  <2>9. CASE a.type = "REGISTER_VERIFIED_ARTIFACT"
    <3>1. a = Registration(f) <=> f = <<a.kind, a.owner>>
      BY <1>3, <2>9, ActionIs, ActsAre
    <3>2. Targets(a) = {} /\ Recording(a) = {<<a.kind, a.owner>>}
      BY <2>9, TargetsAre
    <3> QED
      BY <2>1, <2>9, <3>1, <3>2, ActsAre DEF Register
  <2> QED
    BY <1>2, <2>3, <2>4, <2>5, <2>6, <2>7, <2>8, <2>9 DEF AutomaticTypes
<1> QED
  BY <1>5, <1>6, FileIs

\* What an accepted action writes.
LEMMA WritesAre ==
    ASSUME NEW a, ActionOK(a), Accepted(a)
    PROVE  /\ a = RebuildCRL => Writes(a)[<<"crl", "instance">>] = "genuine"
           /\ a = RecoverCA => Writes(a)[<<"ca-cert", "instance">>] = "genuine"
           /\ a = RecoverTls => Writes(a)[<<"tls-crypt", "instance">>] \in {"genuine", "foreign"}
           /\ a = RefreshServer => Writes(a)[<<"server-config", "instance">>] = "genuine"
           /\ \A c \in Owners : a = RecoverId(c) =>
                \A k \in Pair : Writes(a)[<<k, c>>] = PairIn(content[<<"profile", c>>])
           /\ \A c \in Owners : a = RefreshCl(c) =>
                /\ Writes(a)[<<"profile", c>>] = Rendered(c)
                /\ Writes(a)[<<"ccd", c>>] = Original(<<"ccd", c>>)
<1>1. ASSUME a = RebuildCRL PROVE Writes(a)[<<"crl", "instance">>] = "genuine"
  BY <1>1, ActsAre DEF Writes, Only
<1>2. ASSUME a = RecoverCA PROVE Writes(a)[<<"ca-cert", "instance">>] = "genuine"
  BY <1>2, ActsAre DEF Writes, Only, Recovered
<1>3. ASSUME a = RecoverTls PROVE Writes(a)[<<"tls-crypt", "instance">>] \in {"genuine", "foreign"}
  <2>1. Cardinality(TlsEvidence) = 1
    BY <1>3, ActsAre DEF Accepted, RecoveryReady
  <2>2. TlsEvidence # {}
    BY <2>1, FS_EmptySet
  <2>3. TlsEvidence \subseteq {"genuine", "foreign"}
    BY DEF TlsEvidence, TlsIn
  <2> DEFINE k == CHOOSE k \in TlsEvidence : TRUE
  <2>4. k \in TlsEvidence
    BY <2>2
  <2>5. Writes(a) = Only(<<"tls-crypt", "instance">>, k)
    BY <1>3, ActsAre DEF Writes, Recovered
  <2> HIDE DEF k
  <2> QED
    BY <2>3, <2>4, <2>5 DEF Only
<1>4. ASSUME a = RefreshServer PROVE Writes(a)[<<"server-config", "instance">>] = "genuine"
  BY <1>4, ActsAre DEF Writes, Only, RefreshedServer
<1>5. ASSUME NEW c \in Owners, a = RecoverId(c), NEW k \in Pair
      PROVE  Writes(a)[<<k, c>>] = PairIn(content[<<"profile", c>>])
  <2>1. Writes(a) = [f \in {"client-cert", "client-key"} \X {c} |-> PairIn(content[<<"profile", c>>])]
    BY <1>5, ActsAre DEF Writes, Recovered
  <2> QED
    BY <2>1 DEF Pair
<1>6. ASSUME NEW c \in Owners, a = RefreshCl(c)
      PROVE  /\ Writes(a)[<<"profile", c>>] = Rendered(c)
             /\ Writes(a)[<<"ccd", c>>] = Original(<<"ccd", c>>)
  <2>1. Writes(a) = [f \in {"profile", "ccd"} \X {c} |-> IF f[1] = "profile" THEN Rendered(c) ELSE Original(f)]
    BY <1>6, ActsAre DEF Writes, RefreshedClient
  <2> QED
    BY <2>1
<1> QED
  BY <1>1, <1>2, <1>3, <1>4, <1>5, <1>6
-----------------------------------------------------------------------------
(* What a step of an operation changes                                     *)

\* Installing a file changes only a file that the action brings back.
LEMMA InstallStep ==
    ASSUME Damaged, OpenInv, RepairInstall
    PROVE  /\ phase = "install" /\ ActionOK(op.action) /\ op.action \in todo
           /\ op.action \in First(todo) /\ Accepted(op.action)
           /\ op'.action = op.action /\ op'.writes = op.writes
           /\ UNCHANGED <<meta, phase, plan, todo, touched, lost, swapped, result>>
           /\ op' # NoOperation
           /\ \A f \in Files :
                \/ content'[f] = content[f]
                \/ /\ f \in Recorded /\ op.action = RecoveryOf(f)
                   /\ content'[f] = Writes(op.action)[f]
<1>1. /\ phase = "install" /\ op # NoOperation /\ op.action \in todo
      /\ content \in [Files -> Values]
      /\ UNCHANGED <<meta, phase, plan, todo, touched, lost, swapped, result>>
  BY DEF RepairInstall, Damaged, RepairShape, RepairTypeOK
<1>2. /\ ActionOK(op.action) /\ op.left \subseteq Targets(op.action)
      /\ op = [action |-> op.action, writes |-> op.writes, left |-> op.left, before |-> op.before]
  BY <1>1 DEF Damaged, RepairShape, OpInv
<1>3. op.action \in First(todo) /\ Accepted(op.action) /\ op.writes = Writes(op.action)
  BY <1>1 DEF OpenInv
<1>4. PICK g \in op.left : /\ content' = [content EXCEPT ![g] = op.writes[g]]
                           /\ op' = [op EXCEPT !.left = @ \ {g}]
  BY DEF RepairInstall
<1>5. op' = [action |-> op.action, writes |-> op.writes, left |-> op.left \ {g}, before |-> op.before]
  BY <1>2, <1>4
<1>6. op'.action = op.action /\ op'.writes = op.writes
  BY <1>5
<1>7. op' # NoOperation
  <2>1. "action" \in DOMAIN op' /\ "action" \notin DOMAIN NoOperation
    BY <1>5 DEF NoOperation
  <2> QED
    BY <2>1
<1>8. g \in Recorded /\ op.action = RecoveryOf(g)
  BY <1>2, <1>4, TargetsIn, WritesWhat
<1> QED
  BY <1>1, <1>2, <1>3, <1>4, <1>6, <1>7, <1>8

\* The changes, file by file.
LEMMA InstallChanges ==
    ASSUME Damaged, OpenInv, RepairInstall
    PROVE  /\ \A k \in {"signing", "yaml", "ca-key", "server-cert", "server-key"} : Of(k)' = Of(k)
           /\ Of("crl")' = Of("crl") \/ (op.action = RebuildCRL /\ Of("crl")' = "genuine")
           /\ Of("ca-cert")' = Of("ca-cert") \/ (op.action = RecoverCA /\ Of("ca-cert")' = "genuine")
           /\ \/ Of("tls-crypt")' = Of("tls-crypt")
              \/ op.action = RecoverTls /\ Of("tls-crypt")' \in {"genuine", "foreign"}
           /\ \/ Of("server-config")' = Of("server-config")
              \/ op.action = RefreshServer /\ Of("server-config")' = "genuine"
           /\ \A c \in Owners, k \in Pair :
                \/ content'[<<k, c>>] = content[<<k, c>>]
                \/ op.action = RecoverId(c) /\ content'[<<k, c>>] = PairIn(content[<<"profile", c>>])
           /\ \A c \in Owners :
                /\ \/ content'[<<"profile", c>>] = content[<<"profile", c>>]
                   \/ op.action = RefreshCl(c) /\ content'[<<"profile", c>>] = Rendered(c)
                /\ \/ content'[<<"ccd", c>>] = content[<<"ccd", c>>]
                   \/ op.action = RefreshCl(c) /\ content'[<<"ccd", c>>] = Original(<<"ccd", c>>)
<1> DEFINE a == op.action
<1>1. /\ ActionOK(a) /\ Accepted(a)
      /\ \A f \in Files : \/ content'[f] = content[f]
                          \/ a = RecoveryOf(f) /\ f \in Recorded /\ content'[f] = Writes(a)[f]
  BY InstallStep
<1>2. a.type \in AutomaticTypes
  BY <1>1, ActionIs
<1> HIDE DEF a
<1>3. /\ \A k \in InstanceKinds \cup {"signing", "yaml"} : <<k, "instance">> \in Files
      /\ \A k \in ClientKinds, c \in Owners : <<k, c>> \in Files
      /\ <<"signing", "instance">> \notin Recorded /\ <<"yaml", "instance">> \notin Recorded
  BY RecordedAre, OwnersAssumption DEF Files, Unregistered, Recorded, InstanceKinds, ClientKinds
<1>4. \A k \in {"signing", "yaml", "ca-key", "server-cert", "server-key"} : Of(k)' = Of(k)
  <2>1. \A k \in {"ca-key", "server-cert", "server-key"} : a # RecoveryOf(<<k, "instance">>)
    BY <1>2, RecoveriesAre
  <2> QED
    BY <1>1, <1>3, <2>1 DEF Of, InstanceKinds
<1>5. Of("crl")' = Of("crl") \/ (a = RebuildCRL /\ Of("crl")' = "genuine")
  BY <1>1, <1>3, RecoveriesAre, WritesAre DEF Of, InstanceKinds
<1>6. Of("ca-cert")' = Of("ca-cert") \/ (a = RecoverCA /\ Of("ca-cert")' = "genuine")
  BY <1>1, <1>3, RecoveriesAre, WritesAre DEF Of, InstanceKinds
<1>7. \/ Of("tls-crypt")' = Of("tls-crypt")
      \/ a = RecoverTls /\ Of("tls-crypt")' \in {"genuine", "foreign"}
  BY <1>1, <1>3, RecoveriesAre, WritesAre DEF Of, InstanceKinds
<1>8. \/ Of("server-config")' = Of("server-config")
      \/ a = RefreshServer /\ Of("server-config")' = "genuine"
  BY <1>1, <1>3, RecoveriesAre, WritesAre DEF Of, InstanceKinds
<1>9. ASSUME NEW c \in Owners, NEW k \in Pair
      PROVE  \/ content'[<<k, c>>] = content[<<k, c>>]
             \/ a = RecoverId(c) /\ content'[<<k, c>>] = PairIn(content[<<"profile", c>>])
  <2>1. <<k, c>> \in Files /\ RecoveryOf(<<k, c>>) = RecoverId(c)
    BY <1>3, RecoveriesAre DEF Pair, ClientKinds
  <2>2. a = RecoverId(c) => Writes(a)[<<k, c>>] = PairIn(content[<<"profile", c>>])
    BY <1>1, WritesAre
  <2> QED
    BY <1>1, <2>1, <2>2
<1>10. ASSUME NEW c \in Owners
       PROVE  /\ \/ content'[<<"profile", c>>] = content[<<"profile", c>>]
                 \/ a = RefreshCl(c) /\ content'[<<"profile", c>>] = Rendered(c)
              /\ \/ content'[<<"ccd", c>>] = content[<<"ccd", c>>]
                 \/ a = RefreshCl(c) /\ content'[<<"ccd", c>>] = Original(<<"ccd", c>>)
  <2>1. /\ <<"profile", c>> \in Files /\ RecoveryOf(<<"profile", c>>) = RefreshCl(c)
        /\ <<"ccd", c>> \in Files /\ RecoveryOf(<<"ccd", c>>) = RefreshCl(c)
    BY <1>3, RecoveriesAre DEF ClientKinds
  <2>2. a = RefreshCl(c) => /\ Writes(a)[<<"profile", c>>] = Rendered(c)
                            /\ Writes(a)[<<"ccd", c>>] = Original(<<"ccd", c>>)
    BY <1>1, WritesAre
  <2> QED
    BY <1>1, <2>1, <2>2
<1> QED
  BY <1>4, <1>5, <1>6, <1>7, <1>8, <1>9, <1>10 DEF a

\* When an action is accepted.
LEMMA AcceptedIs ==
    ASSUME NEW a
    PROVE  /\ a.type = "REBUILD_CRL" => (Accepted(a) <=> RefreshCRLAccepted)
           /\ a.type = "RECOVER_CA_CERT" => (Accepted(a) <=> CaEvidence)
           /\ a.type = "RECOVER_CLIENT_IDENTITY" => (Accepted(a) <=> Evidence(a.owner))
           /\ a.type = "RECOVER_TLS_CRYPT" => (Accepted(a) <=> Cardinality(TlsEvidence) = 1)
           /\ a.type = "REFRESH_CLIENT_ARTIFACTS" => (Accepted(a) <=> RefreshClientAccepted(a.owner))
           /\ a.type = "REFRESH_SERVER_ARTIFACTS" => Accepted(a)
           /\ a.type = "REGISTER_VERIFIED_ARTIFACT" => (Accepted(a) <=> Verified(a.kind, a.owner))
  BY DEF Accepted, RecoveryReady

\* Evidence is the recorded profile and the rows of the pair.
LEMMA EvidenceKept ==
    ASSUME NEW c, content'[<<"profile", c>>] = content[<<"profile", c>>],
           meta'[<<"profile", c>>] = meta[<<"profile", c>>],
           \A k \in Pair : meta'[<<k, c>>] = meta[<<k, c>>]
    PROVE  Evidence(c)' <=> Evidence(c)
  BY DEF Evidence, Matching, Pair

\* The evidence for the keys of the instance is that of the clients.
LEMMA KeysKept ==
    ASSUME \A c \in Owners : /\ content'[<<"profile", c>>] = content[<<"profile", c>>]
                             /\ Evidence(c)' <=> Evidence(c)
    PROVE  /\ meta'[<<"tls-crypt", "instance">>] = meta[<<"tls-crypt", "instance">>] =>
                TlsEvidence' = TlsEvidence
           /\ meta'[<<"ca-cert", "instance">>] = meta[<<"ca-cert", "instance">>] =>
                (CaEvidence' <=> CaEvidence)
<1>1. {d \in Owners : Evidence(d)}' = {d \in Owners : Evidence(d)}
  OBVIOUS
<1>2. {TlsIn(content[<<"profile", c>>]) : c \in {d \in Owners : Evidence(d)}}'
        = {TlsIn(content[<<"profile", c>>]) : c \in {d \in Owners : Evidence(d)}}
  BY <1>1 DEF TlsIn
<1> QED
  BY <1>2 DEF TlsEvidence, CaEvidence

\* An action stays acceptable, and writes the same, while its own files are
\* installed: it does not read them.
LEMMA OpenInstall ==
    ASSUME Damaged, OpenInv, RepairInstall
    PROVE  OpenInv'
<1>0. PICK a : a = op.action
  OBVIOUS
<1>1. /\ phase = "install" /\ ActionOK(a) /\ a \in First(todo) /\ Accepted(a)
      /\ op'.action = a /\ op'.writes = Writes(a)
      /\ UNCHANGED <<meta, todo>>
  BY <1>0, InstallStep DEF OpenInv
<1>2. a \in First(todo)'
  BY <1>1 DEF First
<1>3. a.type \in AutomaticTypes
  BY <1>1, ActionIs
<1> DEFINE Stays(k) == Of(k)' = Of(k)
<1>4. /\ Stays("ca-key") /\ Stays("server-cert") /\ Stays("server-key")
      /\ a # RebuildCRL => Stays("crl")
      /\ a # RecoverCA => Stays("ca-cert")
      /\ a # RecoverTls => Stays("tls-crypt")
      /\ \A c \in Owners : a # RecoverId(c) =>
           /\ content'[<<"client-cert", c>>] = content[<<"client-cert", c>>]
           /\ content'[<<"client-key", c>>] = content[<<"client-key", c>>]
      /\ \A c \in Owners : a # RefreshCl(c) => content'[<<"profile", c>>] = content[<<"profile", c>>]
  BY <1>0, InstallChanges DEF Pair
<1>5. (\A c \in Owners : a # RefreshCl(c)) =>
         /\ \A c \in Owners : Evidence(c)' <=> Evidence(c)
         /\ TlsEvidence' = TlsEvidence /\ (CaEvidence' <=> CaEvidence)
  BY <1>1, <1>4, EvidenceKept, KeysKept
<1>6. CASE a.type = "REBUILD_CRL"
  <2>1. Accepted(a)'
    BY <1>1, <1>4, <1>6, AcceptedIs, ActsAre DEF RefreshCRLAccepted, StoredCA, ValidateCA, ValidateCAKeyPair,
       Accepted
  <2>2. Writes(a)' = Writes(a)
    BY <1>6 DEF Writes, Only
  <2> QED
    BY <1>1, <1>2, <2>1, <2>2 DEF OpenInv
<1>7. CASE a.type = "RECOVER_CA_CERT"
  <2>1. Accepted(a)'
    BY <1>1, <1>5, <1>7, ActsAre DEF Accepted, RecoveryReady
  <2>2. Writes(a)' = Writes(a)
    BY <1>7 DEF Writes, Recovered, Only
  <2> QED
    BY <1>1, <1>2, <2>1, <2>2 DEF OpenInv
<1>8. CASE a.type = "RECOVER_CLIENT_IDENTITY"
  <2>0. a.owner \in Owners /\ a = RecoverId(a.owner)
    BY <1>1, <1>8, ActionIs
  <2>1. Accepted(a)'
    BY <1>1, <1>5, <1>8, <2>0, ActsAre DEF Accepted, RecoveryReady
  <2>2. Writes(a)' = Writes(a)
    BY <1>4, <1>8, <2>0, ActsAre DEF Writes, Recovered, PairIn
  <2> QED
    BY <1>1, <1>2, <2>1, <2>2 DEF OpenInv
<1>9. CASE a.type = "RECOVER_TLS_CRYPT"
  <2>0. \A c \in Owners : a # RefreshCl(c)
    BY <1>9, ActsAre
  <2>1. Accepted(a)'
    BY <1>1, <1>5, <1>9, <2>0 DEF Accepted, RecoveryReady
  <2>2. Writes(a)' = Writes(a)
    BY <1>5, <1>9, <2>0 DEF Writes, Recovered, Only
  <2> QED
    BY <1>1, <1>2, <2>1, <2>2 DEF OpenInv
<1>10. CASE a.type = "REFRESH_CLIENT_ARTIFACTS"
  <2>0. a.owner \in Owners
    BY <1>1, <1>10, ActionIs
  <2>1. /\ Stays("ca-cert") /\ Stays("tls-crypt")
        /\ content'[<<"client-cert", a.owner>>] = content[<<"client-cert", a.owner>>]
        /\ content'[<<"client-key", a.owner>>] = content[<<"client-key", a.owner>>]
    BY <1>4, <1>10, <2>0, ActsAre
  <2>2. Accepted(a)'
    BY <1>1, <1>10, <2>1 DEF Accepted, RefreshClientAccepted, StoredCA, ValidateCA, ValidateClient,
       ValidateTLSCryptKey
  <2>3. Rendered(a.owner)' = Rendered(a.owner)
    BY <2>1 DEF Rendered, Profile
  <2>4. Writes(a)' = Writes(a)
    BY <1>10, <2>3 DEF Writes, RefreshedClient, Original, HasCcd
  <2> QED
    BY <1>1, <1>2, <2>2, <2>4 DEF OpenInv
<1>11. CASE a.type = "REFRESH_SERVER_ARTIFACTS"
  <2>1. Accepted(a)' /\ Writes(a)' = Writes(a)
    BY <1>11 DEF Accepted, Writes, RefreshedServer, Only
  <2> QED
    BY <1>1, <1>2, <2>1 DEF OpenInv
<1>12. CASE a.type = "REGISTER_VERIFIED_ARTIFACT"
  <2>0. /\ \A k \in {"ca-cert", "ca-key", "server-cert", "server-key", "crl", "tls-crypt"} : Stays(k)
        /\ \A c \in Owners : /\ content'[<<"client-cert", c>>] = content[<<"client-cert", c>>]
                             /\ content'[<<"client-key", c>>] = content[<<"client-key", c>>]
    BY <1>4, <1>12, ActsAre
  <2>1. /\ StoredCA' <=> StoredCA
        /\ ValidateCAKeyPair' <=> ValidateCAKeyPair
        /\ ValidateServer' <=> ValidateServer
        /\ ValidateCRLForCA' <=> ValidateCRLForCA
        /\ ValidateTLSCryptKey' <=> ValidateTLSCryptKey
        /\ \A c \in Owners : ValidateClient(c)' <=> ValidateClient(c)
    BY <2>0 DEF StoredCA, ValidateCA, ValidateCAKeyPair, ValidateServer, ValidateCRLForCA,
       ValidateTLSCryptKey, ValidateClient
  <2>2. /\ a.kind \in (InstanceKinds \cup ClientKinds) \ {"server-config", "profile", "ccd"}
        /\ a.kind \in ClientKinds => a.owner \in Owners
    BY <1>1, <1>12, ActionIs DEF Recorded, InstanceKinds, ClientKinds
  <2>3. Verified(a.kind, a.owner)' <=> Verified(a.kind, a.owner)
    BY <2>1, <2>2 DEF Verified, InstanceKinds, ClientKinds
  <2>4. Accepted(a)'
    BY <1>1, <1>12, <2>3 DEF Accepted
  <2>5. Writes(a)' = Writes(a)
    BY <1>12 DEF Writes
  <2> QED
    BY <1>1, <1>2, <2>4, <2>5 DEF OpenInv
<1> QED
  BY <1>3, <1>6, <1>7, <1>8, <1>9, <1>10, <1>11, <1>12 DEF AutomaticTypes

\* What is left of a plan when an action is the first.
LEMMA FirstIs ==
    ASSUME \A b \in todo : ActionOK(b), NEW a \in First(todo)
    PROVE  /\ a \in todo /\ ActionOK(a) /\ a.type \in AutomaticTypes
           /\ RebuildCRL \in todo => a.type = "REBUILD_CRL"
           /\ RecoverCA \in todo => a.type \in {"REBUILD_CRL", "RECOVER_CA_CERT"}
           /\ \A c \in Owners : RecoverId(c) \in todo =>
                a.type \in {"REBUILD_CRL", "RECOVER_CA_CERT", "RECOVER_CLIENT_IDENTITY"}
           /\ RecoverTls \in todo =>
                a.type \in {"REBUILD_CRL", "RECOVER_CA_CERT", "RECOVER_CLIENT_IDENTITY",
                            "RECOVER_TLS_CRYPT"}
           /\ \A c \in Owners : RefreshCl(c) \in todo =>
                a.type \notin {"REFRESH_SERVER_ARTIFACTS", "REGISTER_VERIFIED_ARTIFACT"}
           /\ RefreshServer \in todo => a.type # "REGISTER_VERIFIED_ARTIFACT"
<1>1. a \in todo /\ ActionOK(a) /\ a.type \in AutomaticTypes
  BY ActionIs DEF First
<1>2. \A b \in todo : Rank(a.type) <= Rank(b.type)
  BY DEF First
<1>3. RebuildCRL \in todo => Rank(a.type) <= 1
  BY <1>2, RanksAre, ActsAre
<1>4. RecoverCA \in todo => Rank(a.type) <= 2
  BY <1>2, RanksAre, ActsAre
<1>5. \A c \in Owners : RecoverId(c) \in todo => Rank(a.type) <= 3
  BY <1>2, RanksAre, ActsAre
<1>6. RecoverTls \in todo => Rank(a.type) <= 4
  BY <1>2, RanksAre, ActsAre
<1>7. \A c \in Owners : RefreshCl(c) \in todo => Rank(a.type) <= 5
  BY <1>2, RanksAre, ActsAre
<1>8. RefreshServer \in todo => Rank(a.type) <= 6
  BY <1>2, RanksAre, ActsAre
<1>9. /\ Rank(a.type) <= 1 => a.type = "REBUILD_CRL"
      /\ Rank(a.type) <= 2 => a.type \in {"REBUILD_CRL", "RECOVER_CA_CERT"}
      /\ Rank(a.type) <= 3 => a.type \in {"REBUILD_CRL", "RECOVER_CA_CERT", "RECOVER_CLIENT_IDENTITY"}
      /\ Rank(a.type) <= 4 => a.type \in {"REBUILD_CRL", "RECOVER_CA_CERT", "RECOVER_CLIENT_IDENTITY",
                                          "RECOVER_TLS_CRYPT"}
      /\ Rank(a.type) <= 5 => a.type \notin {"REFRESH_SERVER_ARTIFACTS", "REGISTER_VERIFIED_ARTIFACT"}
      /\ Rank(a.type) <= 6 => a.type # "REGISTER_VERIFIED_ARTIFACT"
  BY <1>1, RanksAre DEF AutomaticTypes
<1> QED
  BY <1>1, <1>3, <1>4, <1>5, <1>6, <1>7, <1>8, <1>9

\* Installing a file leaves a plan covered and its evidence in place.
LEMMA ApplyInstall ==
    ASSUME Damaged, OpenInv, ApplyInv, RepairInstall
    PROVE  ApplyInv'
<1> SUFFICES ASSUME Applying'
             PROVE  Covered'
  BY DEF ApplyInv
<1>0. PICK a : a = op.action
  OBVIOUS
<1>1. /\ phase = "install" /\ ActionOK(a) /\ a \in todo /\ a \in First(todo) /\ Accepted(a)
      /\ UNCHANGED <<meta, phase, plan, todo, touched, lost, swapped>>
      /\ \A f \in Files : content'[f] = content[f] \/ (f \in Recorded /\ a = RecoveryOf(f))
  BY <1>0, InstallStep
<1>2. RowsCovered /\ FilesCovered /\ AuthorityInv /\ EvidenceInv /\ ClientsSeen
  BY <1>1 DEF ApplyInv, Applying, Covered
<1>3. a \in plan /\ todo \subseteq plan
  BY <1>1, <1>2 DEF RowsCovered
<1>4. \A k \in {"signing", "yaml", "ca-key", "server-cert", "server-key"} : Of(k)' = Of(k)
  BY InstallChanges
<1>5. Of("crl")' = Of("crl") \/ (a = RebuildCRL /\ Of("crl")' = "genuine")
  BY <1>0, InstallChanges
<1>6. Of("ca-cert")' = Of("ca-cert") \/ (a = RecoverCA /\ Of("ca-cert")' = "genuine")
  BY <1>0, InstallChanges
<1>7. \/ Of("tls-crypt")' = Of("tls-crypt")
      \/ a = RecoverTls /\ Of("tls-crypt")' \in {"genuine", "foreign"}
  BY <1>0, InstallChanges
<1>8. \/ Of("server-config")' = Of("server-config")
      \/ a = RefreshServer /\ Of("server-config")' = "genuine"
  BY <1>0, InstallChanges
<1>9. \A c \in Owners, k \in Pair :
        \/ content'[<<k, c>>] = content[<<k, c>>]
        \/ a = RecoverId(c) /\ content'[<<k, c>>] = PairIn(content[<<"profile", c>>])
  BY <1>0, InstallChanges
<1>10. \A c \in Owners :
         /\ content'[<<"profile", c>>] = content[<<"profile", c>>] \/ a = RefreshCl(c)
         /\ content'[<<"ccd", c>>] \in {content[<<"ccd", c>>], Original(<<"ccd", c>>)}
  BY <1>0, InstallChanges
<1>11. "client-cert" \in Pair /\ "client-key" \in Pair
  BY DEF Pair
<1>12. RowsCovered'
  <2>1. \A f \in Recorded : Registered(f)' <=> Registered(f)
    BY <1>1 DEF Registered
  <2>2. \A f \in Recorded : Matching(f)' \/ ~Matching(f) \/ RecoveryOf(f) \in todo
    BY <1>1, RecordedAre DEF Matching
  <2>3. \A f : RecoveryOf(f)' = RecoveryOf(f) /\ Registration(f)' = Registration(f)
    BY DEF RecoveryOf, Registration
  <2> QED
    BY <1>1, <1>2, <2>1, <2>2, <2>3 DEF RowsCovered
<1>13. FilesCovered'
  <2>1. (StoredCA \/ (~ValidateCA /\ RecoverCA \in todo))'
    BY <1>1, <1>2, <1>6 DEF FilesCovered, StoredCA, ValidateCA
  <2>2. (RecoverCA \in plan \/ RebuildCRL \in todo \/ ValidateCRLForCA)'
    BY <1>1, <1>2, <1>5, <1>6 DEF FilesCovered, ValidateCRLForCA
  <2>3. (ValidateTLSCryptKey \/ RecoverTls \in todo)'
    BY <1>1, <1>2, <1>7 DEF FilesCovered, ValidateTLSCryptKey
  <2>4. (Of("server-config") = "genuine" \/ RefreshServer \in todo)'
    BY <1>1, <1>2, <1>8 DEF FilesCovered
  <2>5. ASSUME NEW c \in Owners PROVE (ValidateClient(c) \/ RecoverId(c) \in todo)'
    <3>1. CASE a = RecoverId(c)
      BY <1>1, <3>1
    <3>2. CASE a # RecoverId(c)
      BY <1>1, <1>2, <1>6, <1>9, <1>11, <3>2 DEF FilesCovered, ValidateClient
    <3> QED
      BY <3>1, <3>2
  <2>6. ASSUME NEW c \in Owners
        PROVE  (content[<<"ccd", c>>] = Original(<<"ccd", c>>) \/ RefreshCl(c) \in todo)'
    <3>1. Original(<<"ccd", c>>)' = Original(<<"ccd", c>>)
      BY DEF Original, HasCcd
    <3> QED
      BY <1>1, <1>2, <1>10, <3>1 DEF FilesCovered
  <2> QED
    BY <2>1, <2>2, <2>3, <2>4, <2>5, <2>6 DEF FilesCovered
<1>14. AuthorityInv'
  <2>1. (RecoverCA \in plan \/ (ValidateCAKeyPair /\ ValidateServer))'
    BY <1>1, <1>2, <1>3, <1>4, <1>6 DEF AuthorityInv, ValidateCAKeyPair, ValidateServer, ValidateCA
  <2>2. (RecoverCA \in plan /\ RebuildCRL \in todo => RecoverCA \in todo /\ Of("ca-cert") # "genuine")'
    <3>1. RebuildCRL \in todo => a # RecoverCA
      BY <1>1, FirstIs, ActsAre DEF Damaged, RepairShape
    <3> QED
      BY <1>1, <1>2, <1>6, <3>1 DEF AuthorityInv
  <2> QED
    BY <1>1, <1>2, <1>4, <2>1, <2>2 DEF AuthorityInv
<1>15. EvidenceInv'
  <2>1. CASE \E c \in Owners : a = RefreshCl(c)
    <3>1. a.type = "REFRESH_CLIENT_ARTIFACTS"
      BY <2>1, ActsAre
    <3>2. RecoverCA \notin todo /\ RecoverTls \notin todo /\ \A c \in Owners : RecoverId(c) \notin todo
      BY <1>1, <3>1, FirstIs DEF Damaged, RepairShape
    <3> QED
      BY <1>1, <3>2 DEF EvidenceInv
  <2>2. CASE \A c \in Owners : a # RefreshCl(c)
    <3>1. \A c \in Owners : /\ content'[<<"profile", c>>] = content[<<"profile", c>>]
                            /\ Evidence(c)' <=> Evidence(c)
      BY <1>1, <1>10, <2>2, EvidenceKept
    <3>2. TlsEvidence' = TlsEvidence /\ (CaEvidence' <=> CaEvidence)
      BY <1>1, <3>1, KeysKept
    <3> QED
      BY <1>1, <1>2, <3>1, <3>2 DEF EvidenceInv
  <2> QED
    BY <2>1, <2>2
<1>16. ClientsSeen'
  <2> SUFFICES ASSUME NEW c \in Owners
               PROVE  (/\ \/ RefreshCl(c) \in todo \/ RecoverTls \in plan \/ RecoverId(c) \in plan
                          \/ content[<<"profile", c>>] = Rendered(c)
                       /\ RecoverId(c) \in plan \/ RebuildCRL \in plan \/ ValidateRevocationStatus(c)
                       /\ ValidateClient(c) /\ Registered(<<"client-cert", c>>) =>
                            Matching(<<"client-cert", c>>) \/ RecoverCA \in plan
                       /\ ValidateClient(c) /\ RebuildCRL \in todo /\ Of("crl") = "foreign" =>
                            c \notin Revoked \/ RecoverCA \in plan)'
    BY DEF ClientsSeen
  <2>1. (\/ RefreshCl(c) \in todo \/ RecoverTls \in plan \/ RecoverId(c) \in plan
         \/ content[<<"profile", c>>] = Rendered(c))'
    <3> SUFFICES ASSUME RefreshCl(c) \notin todo, RecoverTls \notin plan, RecoverId(c) \notin plan
                 PROVE  content'[<<"profile", c>>] = Rendered(c)'
      BY <1>1
    <3>1. Rendered(c)' = Rendered(c)
      BY <1>3, <1>7, <1>9, <1>11 DEF Rendered, Profile
    <3> QED
      BY <1>1, <1>2, <1>10, <3>1 DEF ClientsSeen
  <2>2. (RecoverId(c) \in plan \/ RebuildCRL \in plan \/ ValidateRevocationStatus(c))'
    BY <1>1, <1>2, <1>3, <1>5, <1>9, <1>11 DEF ClientsSeen, ValidateRevocationStatus
  <2>3. (ValidateClient(c) /\ Registered(<<"client-cert", c>>) =>
           Matching(<<"client-cert", c>>) \/ RecoverCA \in plan)'
    <3> SUFFICES ASSUME ValidateClient(c)', Registered(<<"client-cert", c>>), RecoverCA \notin plan
                 PROVE  Matching(<<"client-cert", c>>)'
      BY <1>1 DEF Registered
    <3>1. Of("ca-cert")' = Of("ca-cert")
      BY <1>3, <1>6
    <3>2. ValidateClient(c) => Matching(<<"client-cert", c>>)
      BY <1>2 DEF ClientsSeen
    <3>3. CASE a # RecoverId(c)
      BY <1>1, <1>9, <1>11, <3>1, <3>2, <3>3 DEF ValidateClient, Matching
    <3>4. CASE a = RecoverId(c)
      <4>1. Evidence(c)
        BY <1>1, <3>4, AcceptedIs, ActsAre
      <4>2. meta[<<"client-cert", c>>] = PairIn(content[<<"profile", c>>])
        BY <4>1 DEF Evidence, Registered
      <4> QED
        BY <1>1, <1>9, <1>11, <3>1, <3>2, <4>2 DEF ValidateClient, Matching
    <3> QED
      BY <3>3, <3>4
  <2>4. (ValidateClient(c) /\ RebuildCRL \in todo /\ Of("crl") = "foreign" =>
           c \notin Revoked \/ RecoverCA \in plan)'
    <3> SUFFICES ASSUME ValidateClient(c)', RebuildCRL \in todo, Of("crl")' = "foreign"
                 PROVE  c \notin Revoked \/ RecoverCA \in plan
      BY <1>1
    <3>1. a.type = "REBUILD_CRL"
      BY <1>1, FirstIs DEF Damaged, RepairShape
    <3>2. a # RecoverCA /\ a # RecoverId(c)
      BY <3>1, ActsAre
    <3> QED
      BY <1>2, <1>5, <1>6, <1>9, <1>11, <3>2 DEF ClientsSeen, ValidateClient
  <2> QED
    BY <2>1, <2>2, <2>3, <2>4
<1> QED
  BY <1>12, <1>13, <1>14, <1>15, <1>16 DEF Covered

\* A commit records the files of the action as they are installed.
LEMMA CommitStep ==
    ASSUME Damaged, OpenInv, RepairCommit, NEW a, a = op.action
    PROVE  /\ phase = "install" /\ ActionOK(a) /\ a \in First(todo) /\ Accepted(a)
           /\ todo' = todo \ {a} /\ op' = NoOperation /\ phase' = "apply"
           /\ UNCHANGED <<content, plan, touched, lost, swapped, result>>
           /\ \A f \in Recorded :
                meta'[f] = IF f \in Recording(a) THEN Digest(content[f]) ELSE meta[f]
           /\ \A f \in Recording(a) : content[f] = "absent" => f[1] = "ccd"
           /\ \A f \in Targets(a) : content[f] = Writes(a)[f]
<1>1. /\ phase = "install" /\ op.left = {} /\ todo' = todo \ {a} /\ op' = NoOperation /\ phase' = "apply"
      /\ UNCHANGED <<content, plan, touched, lost, swapped, result>>
      /\ meta' = [f \in Recorded |-> IF f \in Records(a) THEN Digest(content[f]) ELSE meta[f]]
  BY DEF RepairCommit
<1>2. ActionOK(a)
  BY <1>1, OpenOperation
<1>3. a \in First(todo) /\ Accepted(a) /\ op.writes = Writes(a)
  BY <1>1 DEF OpenInv
<1>4. Records(a) = Recording(a) /\ Targets(a) \subseteq Recording(a)
  BY <1>2, RecordsAre, TargetsIn
<1>5. /\ \A f \in Targets(a) : content[f] = Writes(a)[f]
      /\ \A f \in Recording(a) : content[f] = "absent" => Original(f) = "absent"
  BY <1>1, <1>3, <1>4 DEF Damaged, VouchInv, CommitInv, Result
<1>6. \A f : Original(f) = "absent" => f[1] = "ccd"
  BY DEF Original
<1> QED
  BY <1>1, <1>2, <1>3, <1>4, <1>5, <1>6

\* What is installed when it is recorded.
LEMMA Installed ==
    ASSUME Damaged, OpenInv, RepairCommit, NEW a, a = op.action
    PROVE  /\ a = RebuildCRL => Of("crl") = "genuine"
           /\ a = RecoverCA => Of("ca-cert") = "genuine"
           /\ a = RecoverTls => Of("tls-crypt") \in {"genuine", "foreign"}
           /\ a = RefreshServer => Of("server-config") = "genuine"
           /\ \A c \in Owners : a = RecoverId(c) =>
                \A k \in Pair : content[<<k, c>>] = PairIn(content[<<"profile", c>>])
           /\ \A c \in Owners : a = RefreshCl(c) =>
                /\ content[<<"profile", c>>] = Rendered(c)
                /\ content[<<"ccd", c>>] = Original(<<"ccd", c>>)
<1>1. ActionOK(a) /\ Accepted(a) /\ \A f \in Targets(a) : content[f] = Writes(a)[f]
  BY CommitStep
<1>2. \A f \in Recorded : a = RecoveryOf(f) => content[f] = Writes(a)[f]
  BY <1>1, WritesWhat
<1>3. /\ \A k \in InstanceKinds : <<k, "instance">> \in Recorded
      /\ \A k \in ClientKinds, c \in Owners : <<k, c>> \in Recorded
  BY RecordedAre
<1>4. a = RebuildCRL => Of("crl") = "genuine"
  BY <1>1, <1>2, <1>3, RecoveriesAre, WritesAre DEF Of, InstanceKinds
<1>5. a = RecoverCA => Of("ca-cert") = "genuine"
  BY <1>1, <1>2, <1>3, RecoveriesAre, WritesAre DEF Of, InstanceKinds
<1>6. a = RecoverTls => Of("tls-crypt") \in {"genuine", "foreign"}
  BY <1>1, <1>2, <1>3, RecoveriesAre, WritesAre DEF Of, InstanceKinds
<1>7. a = RefreshServer => Of("server-config") = "genuine"
  BY <1>1, <1>2, <1>3, RecoveriesAre, WritesAre DEF Of, InstanceKinds
<1>8. ASSUME NEW c \in Owners, a = RecoverId(c), NEW k \in Pair
      PROVE  content[<<k, c>>] = PairIn(content[<<"profile", c>>])
  <2>1. <<k, c>> \in Recorded /\ RecoveryOf(<<k, c>>) = RecoverId(c)
    BY <1>3, RecoveriesAre DEF Pair, ClientKinds
  <2>2. Writes(a)[<<k, c>>] = PairIn(content[<<"profile", c>>])
    BY <1>1, <1>8, WritesAre
  <2> QED
    BY <1>2, <1>8, <2>1, <2>2
<1>9. ASSUME NEW c \in Owners, a = RefreshCl(c)
      PROVE  /\ content[<<"profile", c>>] = Rendered(c)
             /\ content[<<"ccd", c>>] = Original(<<"ccd", c>>)
  <2>1. /\ <<"profile", c>> \in Recorded /\ RecoveryOf(<<"profile", c>>) = RefreshCl(c)
        /\ <<"ccd", c>> \in Recorded /\ RecoveryOf(<<"ccd", c>>) = RefreshCl(c)
    BY <1>3, RecoveriesAre DEF ClientKinds
  <2>2. Writes(a)[<<"profile", c>>] = Rendered(c) /\ Writes(a)[<<"ccd", c>>] = Original(<<"ccd", c>>)
    BY <1>1, <1>9, WritesAre
  <2> QED
    BY <1>2, <1>9, <2>1, <2>2
<1> QED
  BY <1>4, <1>5, <1>6, <1>7, <1>8, <1>9

\* The rows that a commit changes.
LEMMA RowsChanged ==
    ASSUME Damaged, OpenInv, RepairCommit, NEW a, a = op.action
    PROVE  /\ \A k \in InstanceKinds :
                \/ meta'[<<k, "instance">>] = meta[<<k, "instance">>]
                \/ /\ meta'[<<k, "instance">>] = Of(k)
                   /\ a = RecoveryOf(<<k, "instance">>) \/ a = Registration(<<k, "instance">>)
           /\ \A c \in Owners :
                \/ meta'[<<"profile", c>>] = meta[<<"profile", c>>]
                \/ a = RefreshCl(c)
           /\ \A k \in Pair, c \in Owners :
                \/ meta'[<<k, c>>] = meta[<<k, c>>]
                \/ /\ meta'[<<k, c>>] = content[<<k, c>>]
                   /\ a \in {RecoverId(c), Registration(<<k, c>>), RefreshCl(c)}
<1>1. /\ ActionOK(a)
      /\ \A f \in Recorded : meta'[f] = IF f \in Recording(a) THEN Digest(content[f]) ELSE meta[f]
      /\ \A f \in Recording(a) : content[f] = "absent" => f[1] = "ccd"
  BY CommitStep
<1>2. /\ \A k \in InstanceKinds : <<k, "instance">> \in Recorded
      /\ \A k \in ClientKinds, c \in Owners : <<k, c>> \in Recorded
  BY RecordedAre
<1>3. \A f \in Recorded : f[1] # "ccd" =>
         \/ meta'[f] = meta[f]
         \/ f \in Recording(a) /\ meta'[f] = content[f]
  BY <1>1 DEF Digest
<1>4. ASSUME NEW k \in InstanceKinds
      PROVE  \/ meta'[<<k, "instance">>] = meta[<<k, "instance">>]
             \/ /\ meta'[<<k, "instance">>] = Of(k)
                /\ a = RecoveryOf(<<k, "instance">>) \/ a = Registration(<<k, "instance">>)
  <2>1. <<k, "instance">> \in Recorded /\ k # "ccd" /\ k \notin Pair
    BY <1>2 DEF InstanceKinds, Pair
  <2>2. <<k, "instance">> \in Recording(a) =>
          a = RecoveryOf(<<k, "instance">>) \/ a = Registration(<<k, "instance">>)
    BY <1>1, <2>1, WritesWhat
  <2> QED
    BY <1>3, <2>1, <2>2 DEF Of
<1>5. ASSUME NEW c \in Owners
      PROVE  meta'[<<"profile", c>>] = meta[<<"profile", c>>] \/ a = RefreshCl(c)
  <2>1. <<"profile", c>> \in Recorded /\ RecoveryOf(<<"profile", c>>) = RefreshCl(c)
    BY <1>2, RecoveriesAre DEF ClientKinds
  <2>2. a # Registration(<<"profile", c>>)
    BY <1>1, ActionIs, ActsAre DEF Register
  <2>3. <<"profile", c>> \in Recording(a) => a = RefreshCl(c)
    BY <1>1, <2>1, <2>2, WritesWhat
  <2> QED
    BY <1>3, <2>1, <2>3
<1>6. ASSUME NEW k \in Pair, NEW c \in Owners
      PROVE  \/ meta'[<<k, c>>] = meta[<<k, c>>]
             \/ /\ meta'[<<k, c>>] = content[<<k, c>>]
                /\ a \in {RecoverId(c), Registration(<<k, c>>), RefreshCl(c)}
  <2>1. <<k, c>> \in Recorded /\ RecoveryOf(<<k, c>>) = RecoverId(c) /\ k # "ccd"
    BY <1>2, RecoveriesAre DEF ClientKinds, Pair
  <2>2. <<k, c>> \in Recording(a) => a \in {RecoverId(c), Registration(<<k, c>>), RefreshCl(c)}
    BY <1>1, <2>1, WritesWhat
  <2> QED
    BY <1>3, <2>1, <2>2
<1> QED
  BY <1>4, <1>5, <1>6

\* A registration records what it has verified.
LEMMA DigestCommit ==
    ASSUME Damaged, OpenInv, DigestInv, RepairCommit
    PROVE  DigestInv'
<1>0. PICK a : a = op.action
  OBVIOUS
<1>1. ActionOK(a) /\ Accepted(a) /\ a.type \in AutomaticTypes
  BY <1>0, CommitStep, ActionIs
<1>2. \A k \in InstanceKinds :
        \/ meta'[<<k, "instance">>] = meta[<<k, "instance">>]
        \/ /\ meta'[<<k, "instance">>] = Of(k)
           /\ a = RecoveryOf(<<k, "instance">>) \/ a = Registration(<<k, "instance">>)
  BY <1>0, RowsChanged
<1>3. \A k : a = Registration(<<k, "instance">>) => Verified(k, "instance")
  BY <1>1, AcceptedIs, ActsAre DEF Register
<1>4. /\ Verified("ca-cert", "instance") => Of("ca-cert") = "genuine"
      /\ Verified("ca-key", "instance") => Of("ca-key") = "genuine"
      /\ Verified("server-cert", "instance") => Of("server-cert") = "genuine"
      /\ Verified("server-key", "instance") => Of("server-key") = "genuine"
      /\ Verified("crl", "instance") => Of("crl") \in {"genuine", "foreign"}
  BY DEF Verified, StoredCA, ValidateCAKeyPair, ValidateServer, ValidateCRLForCA
<1>5. /\ a = RecoveryOf(<<"ca-cert", "instance">>) => Of("ca-cert") = "genuine"
      /\ a = RecoveryOf(<<"crl", "instance">>) => Of("crl") = "genuine"
      /\ \A k \in {"ca-key", "server-cert", "server-key"} : a # RecoveryOf(<<k, "instance">>)
  BY <1>0, <1>1, Installed, RecoveriesAre
<1>6. /\ meta'[<<"ca-cert", "instance">>] \in {NoMetadata, "genuine"}
      /\ meta'[<<"ca-key", "instance">>] \in {NoMetadata, "genuine"}
      /\ meta'[<<"server-cert", "instance">>] \in {NoMetadata, "genuine"}
      /\ meta'[<<"server-key", "instance">>] \in {NoMetadata, "genuine"}
      /\ meta'[<<"crl", "instance">>] \in {NoMetadata, "genuine", "foreign"}
  BY <1>2, <1>3, <1>4, <1>5 DEF DigestInv, InstanceKinds
<1> QED
  BY <1>6 DEF DigestInv

\* A commit takes its action off the plan and leaves what the action stood
\* for done.
LEMMA ApplyCommit ==
    ASSUME Damaged, OpenInv, ApplyInv, RepairCommit
    PROVE  ApplyInv'
<1> SUFFICES ASSUME Applying'
             PROVE  Covered'
  BY DEF ApplyInv
<1>0. PICK a : a = op.action
  OBVIOUS
<1>1. /\ phase = "install" /\ ActionOK(a) /\ a \in First(todo) /\ Accepted(a)
      /\ todo' = todo \ {a}
      /\ UNCHANGED <<content, plan, touched, lost, swapped>>
      /\ \A f \in Recorded : meta'[f] = IF f \in Recording(a) THEN Digest(content[f]) ELSE meta[f]
      /\ \A f \in Recording(a) : content[f] = "absent" => f[1] = "ccd"
  BY <1>0, CommitStep
<1>2. RowsCovered /\ FilesCovered /\ AuthorityInv /\ EvidenceInv /\ ClientsSeen
  BY <1>1 DEF ApplyInv, Applying, Covered
<1>3. \A b \in todo : ActionOK(b)
  BY DEF Damaged, RepairShape
<1>4. \A k : Of(k)' = Of(k)
  BY <1>1 DEF Of
<1>5. /\ StoredCA' <=> StoredCA
      /\ ValidateCA' <=> ValidateCA
      /\ ValidateCAKeyPair' <=> ValidateCAKeyPair
      /\ ValidateServer' <=> ValidateServer
      /\ ValidateCRLForCA' <=> ValidateCRLForCA
      /\ ValidateTLSCryptKey' <=> ValidateTLSCryptKey
      /\ \A c \in Owners : /\ ValidateClient(c)' <=> ValidateClient(c)
                           /\ ValidateRevocationStatus(c)' <=> ValidateRevocationStatus(c)
                           /\ Rendered(c)' = Rendered(c)
  BY <1>1, <1>4 DEF StoredCA, ValidateCA, ValidateCAKeyPair, ValidateServer, ValidateCRLForCA,
     ValidateTLSCryptKey, ValidateClient, ValidateRevocationStatus, Rendered, Profile
<1>6. RebuildCRL \notin todo'
  <2>1. RebuildCRL \in todo => a = RebuildCRL
    BY <1>1, <1>3, FirstIs, ActionIs
  <2> QED
    BY <1>1, <2>1
<1>7. RowsCovered'
  <2>1. todo' \subseteq plan'
    BY <1>1, <1>2 DEF RowsCovered
  <2>2. \A f : RecoveryOf(f)' = RecoveryOf(f) /\ Registration(f)' = Registration(f)
    BY DEF RecoveryOf, Registration
  <2>3. ASSUME NEW f \in Recorded
        PROVE  /\ Registered(f)' => Matching(f)' \/ RecoveryOf(f) \in todo'
               /\ \/ Registered(f)' \/ f[1] = "ccd"
                  \/ RecoveryOf(f) \in todo' \/ Registration(f) \in todo'
                  \/ f[1] \in Pair /\ RefreshCl(f[2]) \in todo'
    <3>1. CASE f \in Recording(a)
      <4>1. content[f] \in Values
        BY RecordedAre DEF Damaged, RepairShape, RepairTypeOK
      <4>2. content[f] = "absent" \/ (Registered(f)' /\ Matching(f)')
        BY <1>1, <3>1, <4>1 DEF Digest, Registered, Matching, NoMetadata, Values, Profiles
      <4>3. content[f] = "absent" => ~Registered(f)'
        BY <1>1, <3>1 DEF Digest, Registered
      <4> QED
        BY <1>1, <3>1, <4>2, <4>3
    <3>2. CASE f \notin Recording(a)
      <4>1. a # RecoveryOf(f) /\ a # Registration(f) /\ ~(f[1] \in Pair /\ a = RefreshCl(f[2]))
        BY <1>1, <3>2, WritesWhat
      <4>2. (Registered(f)' <=> Registered(f)) /\ (Matching(f)' <=> Matching(f))
        BY <1>1, <3>2 DEF Registered, Matching
      <4> QED
        BY <1>1, <1>2, <4>1, <4>2 DEF RowsCovered
    <3> QED
      BY <3>1, <3>2
  <2> QED
    BY <2>1, <2>2, <2>3 DEF RowsCovered
<1>8. FilesCovered'
  <2>1. (StoredCA \/ (~ValidateCA /\ RecoverCA \in todo))'
    <3>1. a = RecoverCA => StoredCA
      BY <1>0, Installed DEF StoredCA, ValidateCA
    <3> QED
      BY <1>1, <1>2, <1>5, <3>1 DEF FilesCovered
  <2>2. (RecoverCA \in plan \/ RebuildCRL \in todo \/ ValidateCRLForCA)'
    <3>1. a = RebuildCRL => ValidateCRLForCA
      <4>1. a = RebuildCRL => StoredCA /\ Of("crl") = "genuine"
        BY <1>0, <1>1, Installed, AcceptedIs, ActsAre DEF RefreshCRLAccepted
      <4> QED
        BY <4>1 DEF StoredCA, ValidateCRLForCA
    <3> QED
      BY <1>1, <1>2, <1>5, <3>1 DEF FilesCovered
  <2>3. (ValidateTLSCryptKey \/ RecoverTls \in todo)'
    <3>1. a = RecoverTls => ValidateTLSCryptKey
      BY <1>0, Installed DEF ValidateTLSCryptKey
    <3> QED
      BY <1>1, <1>2, <1>5, <3>1 DEF FilesCovered
  <2>4. (Of("server-config") = "genuine" \/ RefreshServer \in todo)'
    <3>1. a = RefreshServer => Of("server-config") = "genuine"
      BY <1>0, Installed
    <3> QED
      BY <1>1, <1>2, <1>4, <3>1 DEF FilesCovered
  <2>5. ASSUME NEW c \in Owners PROVE (ValidateClient(c) \/ RecoverId(c) \in todo)'
    <3>1. ASSUME a = RecoverId(c) PROVE ValidateClient(c)
      <4>1. a.type = "RECOVER_CLIENT_IDENTITY"
        BY <3>1, ActsAre
      <4>2. RecoverCA \notin todo
        BY <1>1, <1>3, <4>1, FirstIs
      <4>3. Of("ca-cert") = "genuine"
        BY <1>2, <4>2 DEF FilesCovered, StoredCA
      <4>4. \A k \in Pair : content[<<k, c>>] = PairIn(content[<<"profile", c>>])
        BY <1>0, <3>1, Installed
      <4>5. PairIn(content[<<"profile", c>>]) \in {"genuine", "foreign"}
        BY DEF PairIn
      <4> QED
        BY <4>3, <4>4, <4>5 DEF Pair, ValidateClient
    <3> QED
      BY <1>1, <1>2, <1>5, <3>1 DEF FilesCovered
  <2>6. ASSUME NEW c \in Owners
        PROVE  (content[<<"ccd", c>>] = Original(<<"ccd", c>>) \/ RefreshCl(c) \in todo)'
    <3>1. Original(<<"ccd", c>>)' = Original(<<"ccd", c>>)
      BY DEF Original, HasCcd
    <3>2. a = RefreshCl(c) => content[<<"ccd", c>>] = Original(<<"ccd", c>>)
      BY <1>0, Installed
    <3> QED
      BY <1>1, <1>2, <3>1, <3>2 DEF FilesCovered
  <2> QED
    BY <2>1, <2>2, <2>3, <2>4, <2>5, <2>6 DEF FilesCovered
<1>9. AuthorityInv'
  BY <1>1, <1>2, <1>4, <1>5, <1>6 DEF AuthorityInv
<1>10. EvidenceInv'
  <2> DEFINE Early == {"REBUILD_CRL", "RECOVER_CA_CERT", "RECOVER_CLIENT_IDENTITY"}
  <2>1. ASSUME a.type \in Early, NEW c \in Owners PROVE Evidence(c)' <=> Evidence(c)
    <3>1. meta'[<<"profile", c>>] = meta[<<"profile", c>>]
      BY <1>0, <2>1, RowsChanged, ActsAre
    <3>2. CASE a # RecoverId(c)
      <4>1. \A k \in Pair : a # Registration(<<k, c>>) /\ a # RefreshCl(c)
        BY <2>1, ActsAre DEF Register
      <4>2. \A k \in Pair : meta'[<<k, c>>] = meta[<<k, c>>]
        BY <1>0, <3>2, <4>1, RowsChanged
      <4> QED
        BY <1>1, <3>1, <4>2, EvidenceKept
    <3>3. CASE a = RecoverId(c)
      <4>1. Evidence(c)
        BY <1>1, <3>3, AcceptedIs, ActsAre
      <4>2. \A k \in Pair : content[<<k, c>>] = PairIn(content[<<"profile", c>>])
        BY <1>0, <3>3, Installed
      <4>3. \A k \in Pair : meta'[<<k, c>>] \in {meta[<<k, c>>], PairIn(content[<<"profile", c>>])}
        BY <1>0, <4>2, RowsChanged
      <4>4. Evidence(c)'
        BY <1>1, <3>1, <4>1, <4>3 DEF Evidence, Matching, Pair, PairIn
      <4> QED
        BY <4>1, <4>4
    <3> QED
      BY <3>2, <3>3
  <2>2. a.type \in Early =>
          /\ meta'[<<"tls-crypt", "instance">>] = meta[<<"tls-crypt", "instance">>] =>
                TlsEvidence' = TlsEvidence
          /\ meta'[<<"ca-cert", "instance">>] = meta[<<"ca-cert", "instance">>] =>
                (CaEvidence' <=> CaEvidence)
    BY <1>1, <2>1, KeysKept
  <2>3. (RecoverCA \in todo => CaEvidence)'
    <3> SUFFICES ASSUME RecoverCA \in todo, a # RecoverCA PROVE CaEvidence'
      BY <1>1
    <3>1. a.type = "REBUILD_CRL"
      BY <1>1, <1>3, FirstIs, ActionIs
    <3>2. a # RecoveryOf(<<"ca-cert", "instance">>) /\ a # Registration(<<"ca-cert", "instance">>)
      BY <3>1, RecoveriesAre, ActsAre DEF Register
    <3>3. meta'[<<"ca-cert", "instance">>] = meta[<<"ca-cert", "instance">>]
      BY <1>0, <3>2, RowsChanged DEF InstanceKinds
    <3> QED
      BY <1>2, <2>2, <3>1, <3>3 DEF EvidenceInv
  <2>4. (RecoverTls \in todo => Cardinality(TlsEvidence) = 1)'
    <3> SUFFICES ASSUME RecoverTls \in todo, a # RecoverTls PROVE Cardinality(TlsEvidence)' = 1
      BY <1>1
    <3>1. a.type \in Early
      BY <1>1, <1>3, FirstIs, ActionIs
    <3>2. a # RecoveryOf(<<"tls-crypt", "instance">>) /\ a # Registration(<<"tls-crypt", "instance">>)
      BY <3>1, RecoveriesAre, ActsAre DEF Register
    <3>3. meta'[<<"tls-crypt", "instance">>] = meta[<<"tls-crypt", "instance">>]
      BY <1>0, <3>2, RowsChanged DEF InstanceKinds
    <3>4. TlsEvidence' = TlsEvidence
      BY <2>2, <3>1, <3>3
    <3> QED
      BY <1>2, <3>4 DEF EvidenceInv
  <2>5. ASSUME NEW c \in Owners PROVE (RecoverId(c) \in todo => Evidence(c))'
    <3> SUFFICES ASSUME RecoverId(c) \in todo PROVE Evidence(c)'
      BY <1>1
    <3>1. a.type \in Early
      BY <1>1, <1>3, FirstIs
    <3> QED
      BY <1>2, <2>1, <3>1 DEF EvidenceInv
  <2> QED
    BY <2>3, <2>4, <2>5 DEF EvidenceInv
<1>11. ClientsSeen'
  <2> SUFFICES ASSUME NEW c \in Owners
               PROVE  (/\ \/ RefreshCl(c) \in todo \/ RecoverTls \in plan \/ RecoverId(c) \in plan
                          \/ content[<<"profile", c>>] = Rendered(c)
                       /\ RecoverId(c) \in plan \/ RebuildCRL \in plan \/ ValidateRevocationStatus(c)
                       /\ ValidateClient(c) /\ Registered(<<"client-cert", c>>) =>
                            Matching(<<"client-cert", c>>) \/ RecoverCA \in plan
                       /\ ValidateClient(c) /\ RebuildCRL \in todo /\ Of("crl") = "foreign" =>
                            c \notin Revoked \/ RecoverCA \in plan)'
    BY DEF ClientsSeen
  <2>1. (\/ RefreshCl(c) \in todo \/ RecoverTls \in plan \/ RecoverId(c) \in plan
         \/ content[<<"profile", c>>] = Rendered(c))'
    <3>1. a = RefreshCl(c) => content[<<"profile", c>>] = Rendered(c)
      BY <1>0, Installed
    <3> QED
      BY <1>1, <1>2, <1>5, <3>1 DEF ClientsSeen
  <2>2. (RecoverId(c) \in plan \/ RebuildCRL \in plan \/ ValidateRevocationStatus(c))'
    BY <1>1, <1>2, <1>5 DEF ClientsSeen
  <2>3. (ValidateClient(c) /\ Registered(<<"client-cert", c>>) =>
           Matching(<<"client-cert", c>>) \/ RecoverCA \in plan)'
    <3>1. meta'[<<"client-cert", c>>] \in {meta[<<"client-cert", c>>], content[<<"client-cert", c>>]}
      BY <1>0, RowsChanged DEF Pair
    <3> QED
      BY <1>1, <1>2, <1>5, <3>1 DEF ClientsSeen, Registered, Matching
  <2>4. (ValidateClient(c) /\ RebuildCRL \in todo /\ Of("crl") = "foreign" =>
           c \notin Revoked \/ RecoverCA \in plan)'
    BY <1>6
  <2> QED
    BY <2>1, <2>2, <2>3, <2>4
<1> QED
  BY <1>7, <1>8, <1>9, <1>10, <1>11 DEF Covered

-----------------------------------------------------------------------------
(* The plan that is applied                                                *)

Recoveries == {"RECOVER_CA_CERT", "RECOVER_TLS_CRYPT", "RECOVER_CLIENT_IDENTITY"}

\* Without blockers, what the scan reports has an action that is planned.
LEMMA NothingBlocks ==
    ASSUME Blockers = {}, NEW i \in Scan
    PROVE  \/ i.severity = "repairable"
           \/ i.severity = "recoverable" /\ RecoveryReady(i.action, i.owner)
  BY DEF Blockers

\* An issue of the scan is then of one of the two severities a plan handles.
LEMMA IssueBlocks ==
    ASSUME Blockers = {}, NEW s, NEW t, NEW o, NEW k, Issue(s, t, o, k) \in Scan
    PROVE  s \in {"repairable", "recoverable"}
<1>1. Issue(s, t, o, k).severity = s
  BY DEF Issue
<1> QED
  BY <1>1, NothingBlocks

\* An issue with an automatic action, other than a registration, brings that
\* action into the plan.
LEMMA IssuePlanned ==
    ASSUME Blockers = {}, NEW s, NEW t \in AutomaticTypes \ {Register}, NEW o,
           Issue(s, t, o, "") \in Scan
    PROVE  Act(t, o) \in PlannedActions
<1>1. /\ Issue(s, t, o, "").action = t
      /\ ActionOf(Issue(s, t, o, "")) = Act(t, o) /\ Act(t, o).type = t
  BY DEF Issue, ActionOf, Act
<1> QED
  BY <1>1, AutomaticAre DEF PlannedActions, Register

\* A registration that is dropped is the work of another action.
LEMMA RegistrationPlanned ==
    ASSUME RowsInv, Blockers = {}, NEW f, RegisterIssue(f) \in Scan
    PROVE  \/ Registration(f) \in PlannedActions
           \/ /\ f[1] \in ClientKinds
              /\ RefreshCl(f[2]) \in PlannedActions \/ RecoverId(f[2]) \in PlannedActions
<1>1. /\ RegisterIssue(f).action = Register
      /\ ActionOf(RegisterIssue(f)) = Registration(f)
      /\ Registration(f).type = Register /\ Registration(f).kind = f[1] /\ Registration(f).owner = f[2]
  BY DEF RegisterIssue, Issue, ActionOf, Registration, Register
<1> DEFINE all == {ActionOf(i) : i \in {j \in Scan \ Blockers : j.action \in Automatic}}
           Converging == {"REFRESH_CLIENT_ARTIFACTS", "RECOVER_CLIENT_IDENTITY"}
           owners == {a.owner : a \in {b \in all : b.type \in Converging}}
<1>2. PlannedActions = {a \in all : ~(/\ a.type = "REGISTER_VERIFIED_ARTIFACT"
                                      /\ a.kind \in ClientKinds /\ a.owner \in owners)}
  BY DEF PlannedActions
<1>3. Registration(f) \in all
  BY <1>1, AutomaticAre DEF AutomaticTypes, Register
<1>4. ASSUME f[1] \in ClientKinds, f[2] \in owners
      PROVE  RefreshCl(f[2]) \in PlannedActions \/ RecoverId(f[2]) \in PlannedActions
  <2>1. PICK i \in Scan : /\ i.action \in Converging
                          /\ ActionOf(i) \in all /\ ActionOf(i).owner = f[2]
    <3>1. PICK b \in all : b.type \in Converging /\ b.owner = f[2]
      BY <1>4
    <3>2. PICK i \in Scan : b = ActionOf(i)
      OBVIOUS
    <3> QED
      BY <3>1, <3>2 DEF ActionOf
  <2>2. i.kind = ""
    BY <2>1, ScanOK DEF IssueOK, Permitted, Register
  <2>3. ActionOf(i) = Act(i.action, f[2]) /\ ActionOf(i).type = i.action
    BY <2>1, <2>2 DEF ActionOf, Act
  <2>4. ActionOf(i) \in PlannedActions
    BY <1>2, <2>1, <2>3
  <2> QED
    BY <2>1, <2>3, <2>4 DEF RefreshCl, RecoverId
<1> HIDE DEF all, owners
<1> QED
  BY <1>1, <1>2, <1>3, <1>4 DEF Register

\* A file that is reported is brought back, or the plan is blocked.
LEMMA ArtifactPlanned ==
    ASSUME Blockers = {}, NEW f \in Recorded, ArtifactIssue(f) \in Scan
    PROVE  /\ RecoveryOf(f) \in PlannedActions
           /\ f[1] \notin {"ca-key", "server-cert", "server-key"}
<1>1. ArtifactIssue(f) = Issue(severityForArtifact(f[1]), actionForArtifact(f[1]), f[2], "")
  BY DEF ArtifactIssue
<1>2. severityForArtifact(f[1]) \in {"repairable", "recoverable"}
  BY <1>1, IssueBlocks
<1>3. f[1] \notin {"ca-key", "server-cert", "server-key"}
  BY <1>2 DEF severityForArtifact
<1>4. actionForArtifact(f[1]) \in AutomaticTypes \ {Register}
  BY <1>3 DEF actionForArtifact, AutomaticTypes, Register
<1>5. RecoveryOf(f) = Act(actionForArtifact(f[1]), f[2])
  BY DEF RecoveryOf, Act
<1> QED
  BY <1>1, <1>3, <1>4, <1>5, IssuePlanned

\* A recovery is asked for by recoverable issues only.
LEMMA RecoverySeverity ==
    ASSUME NEW i \in Scan, i.action \in Recoveries
    PROVE  i.severity = "recoverable"
<1> DEFINE Good(j) == j.action \in Recoveries => j.severity = "recoverable"
<1>1. ASSUME NEW s, NEW t, NEW o, NEW k, t \in Recoveries => s = "recoverable"
      PROVE  Good(Issue(s, t, o, k))
  BY <1>1 DEF Issue
<1> SUFFICES Good(i)
  OBVIOUS
<1> HIDE DEF Good
<1>2. ASSUME NEW f PROVE Good(ArtifactIssue(f)) /\ Good(RegisterIssue(f))
  <2>1. actionForArtifact(f[1]) \in Recoveries => severityForArtifact(f[1]) = "recoverable"
    BY DEF actionForArtifact, severityForArtifact, Recoveries
  <2>2. "REGISTER_VERIFIED_ARTIFACT" \notin Recoveries
    BY DEF Recoveries
  <2> QED
    BY <1>1, <2>1, <2>2 DEF ArtifactIssue, RegisterIssue
<1>3. \A t \in {"RECOVER_OPERATION", "EXPORT_CONFIG", "REVIEW_CONFIG_PLAN", "RESTORE_BACKUP",
                "RESTORE_CA_PRIVATE_KEY", "REISSUE_SERVER", "REBUILD_CRL",
                "REFRESH_SERVER_ARTIFACTS", "REFRESH_CLIENT_ARTIFACTS"} : t \notin Recoveries
  BY DEF Recoveries
<1>4. CASE i \in scanOperations \cup scanConfig \cup ServerDrift
  BY <1>1, <1>3, <1>4 DEF scanOperations, scanConfig, ServerDrift, Found
<1>5. CASE i \in scanAuthority
  BY <1>1, <1>3, <1>5 DEF scanAuthority, Found
<1>6. CASE i \in scanArtifactSet
  <2>1. \E f : i = ArtifactIssue(f) \/ i = RegisterIssue(f)
    BY <1>6 DEF scanArtifactSet, ArtifactIssues, Found
  <2> QED
    BY <1>2, <2>1
<1>7. CASE \E c \in Owners : i \in scanClient(c)
  <2>1. \/ \E f : i = ArtifactIssue(f) \/ i = RegisterIssue(f)
        \/ \E c : \/ i = Issue("recoverable", "RECOVER_CLIENT_IDENTITY", c, "")
                  \/ i = Issue("critical", "RESTORE_BACKUP", c, "")
                  \/ i = Issue("repairable", "REFRESH_CLIENT_ARTIFACTS", c, "")
    BY <1>7 DEF scanClient, Found, RefreshIssue
  <2> QED
    BY <1>1, <1>2, <1>3, <2>1
<1> QED
  BY <1>4, <1>5, <1>6, <1>7 DEF Scan

\* A recovery that is planned has its evidence.
LEMMA RecoveryPlanned ==
    ASSUME Blockers = {}, NEW t \in Recoveries, NEW o, Act(t, o) \in PlannedActions
    PROVE  RecoveryReady(t, o)
<1>1. PICK i \in Scan : Act(t, o) = ActionOf(i)
  BY DEF PlannedActions
<1>2. i.action = t /\ i.owner = o
  BY <1>1 DEF Act, ActionOf
<1> QED
  BY <1>2, RecoverySeverity, NothingBlocks

\* What the scan reports, check by check.
LEMMA ScanReports ==
    /\ ~ValidateCA => Issue("recoverable", "RECOVER_CA_CERT", "instance", "") \in Scan
    /\ ValidateCA /\ ~StoredCA => Issue("critical", "RESTORE_BACKUP", "instance", "") \in Scan
    /\ Of("ca-key") = "absent" => Issue("fatal", "RESTORE_CA_PRIVATE_KEY", "instance", "") \in Scan
    /\ Of("ca-key") # "absent" /\ StoredCA /\ ~ValidateCAKeyPair =>
         Issue("critical", "RESTORE_BACKUP", "instance", "") \in Scan
    /\ StoredCA /\ ~ValidateServer => Issue("reissuable", "REISSUE_SERVER", "instance", "") \in Scan
    /\ StoredCA /\ ~ValidateCRLForCA => Issue("repairable", "REBUILD_CRL", "instance", "") \in Scan
    /\ ~ValidateTLSCryptKey => Issue("recoverable", "RECOVER_TLS_CRYPT", "instance", "") \in Scan
    /\ Of("signing") = "absent" => Issue("critical", "RESTORE_BACKUP", "instance", "") \in Scan
    /\ Of("server-config") # "genuine" =>
         Issue("repairable", "REFRESH_SERVER_ARTIFACTS", "instance", "") \in Scan
<1>1. scanAuthority \subseteq Scan /\ ServerDrift \subseteq Scan
  BY DEF Scan
<1> QED
  BY <1>1 DEF scanAuthority, ServerDrift, Found

\* The scan reports every registered file that is not the recorded one, and
\* every required file without a row.
LEMMA ScanReportsFiles ==
    ASSUME NEW f \in Recorded
    PROVE  /\ Registered(f) /\ ~Matching(f) => ArtifactIssue(f) \in Scan
           /\ ~Registered(f) /\ f[2] = "instance" =>
                /\ ~Readable(f) => ArtifactIssue(f) \in Scan
                /\ ArtifactIssue(f) \in Scan \/ RegisterIssue(f) \in Scan
           /\ ~Registered(f) /\ f[1] \in Pair /\ f[2] \in Owners =>
                ArtifactIssue(f) \in Scan \/ RegisterIssue(f) \in Scan
           /\ ~Registered(f) /\ f[1] = "profile" /\ f[2] \in Owners => ArtifactIssue(f) \in Scan
<1>1. "instance" \notin Owners
  BY OwnersAssumption
<1>2. CASE f[1] \in InstanceKinds /\ f[2] = "instance"
  <2>1. ArtifactIssues(f) \subseteq Scan
    <3>1. PICK k \in InstanceKinds : f = <<k, "instance">>
      BY <1>2, FileIs
    <3>2. ArtifactIssues(f) \subseteq scanArtifactSet
      BY <3>1 DEF scanArtifactSet
    <3> QED
      BY <3>2 DEF Scan
  <2>2. f[1] \notin Pair /\ f[1] # "profile"
    BY <1>2 DEF InstanceKinds, Pair
  <2> QED
    BY <1>1, <1>2, <2>1, <2>2 DEF ArtifactIssues, Found
<1>3. CASE f[1] \in ClientKinds /\ f[2] \in Owners
  <2>1. PICK k \in ClientKinds, c \in Owners : f = <<k, c>> /\ f[1] = k /\ f[2] = c
    BY <1>3, FileIs
  <2>2. scanClient(c) \subseteq Scan
    BY DEF Scan
  <2>3. Registered(f) /\ ~Matching(f) => ArtifactIssue(f) \in scanClient(c)
    BY <2>1 DEF scanClient, ClientKinds
  <2>4. ~Registered(f) /\ k \in Pair =>
           ArtifactIssue(f) \in scanClient(c) \/ RegisterIssue(f) \in scanClient(c)
    BY <2>1 DEF scanClient, Pair
  <2>5. ~Registered(f) /\ k = "profile" => ArtifactIssue(f) \in scanClient(c)
    BY <2>1 DEF scanClient, Found
  <2> QED
    BY <1>1, <2>1, <2>2, <2>3, <2>4, <2>5
<1> QED
  BY <1>2, <1>3, FileIs

\* It reports an invalid pair, a pair the CRL or the row contradicts, and a
\* profile or CCD that is not the rendered one.
LEMMA ScanReportsClients ==
    ASSUME NEW c \in Owners
    PROVE  /\ ~ValidateClient(c) => Issue("recoverable", "RECOVER_CLIENT_IDENTITY", c, "") \in Scan
           /\ ValidateClient(c) /\ ValidateCRLForCA /\ ~ValidateRevocationStatus(c) =>
                Issue("critical", "RESTORE_BACKUP", c, "") \in Scan
           /\ ValidateClient(c) /\ Registered(<<"client-cert", c>>) /\ ~Matching(<<"client-cert", c>>) =>
                Issue("critical", "RESTORE_BACKUP", c, "") \in Scan
           /\ /\ ValidateClient(c) /\ Readable(<<"tls-crypt", "instance">>)
              /\ content[<<"profile", c>>] # Rendered(c)
              => Issue("repairable", "REFRESH_CLIENT_ARTIFACTS", c, "") \in Scan
           /\ content[<<"ccd", c>>] # Original(<<"ccd", c>>) =>
                Issue("repairable", "REFRESH_CLIENT_ARTIFACTS", c, "") \in Scan
<1>1. scanClient(c) \subseteq Scan
  BY DEF Scan
<1> QED
  BY <1>1 DEF scanClient, Found, RefreshIssue

\* Only a CA certificate that is not the genuine one is recovered.
LEMMA RecoverCAPlanned ==
    ASSUME DigestInv, RecoverCA \in PlannedActions
    PROVE  Of("ca-cert") # "genuine"
<1> SUFFICES ASSUME Of("ca-cert") = "genuine", NEW i \in Scan, i.action = "RECOVER_CA_CERT"
             PROVE  FALSE
  <2>1. PICK i \in Scan : RecoverCA = ActionOf(i)
    BY DEF PlannedActions
  <2>2. i.action = "RECOVER_CA_CERT"
    BY <2>1, ActsAre DEF ActionOf
  <2> QED
    BY <2>2
<1>1. ASSUME NEW s, NEW t, NEW o, NEW k, i = Issue(s, t, o, k) PROVE t = "RECOVER_CA_CERT"
  BY <1>1 DEF Issue
<1>2. ValidateCA
  BY DEF ValidateCA
<1>3. ASSUME NEW f PROVE i # RegisterIssue(f) /\ (i = ArtifactIssue(f) => f[1] = "ca-cert")
  BY <1>1 DEF RegisterIssue, ArtifactIssue, actionForArtifact
<1>4. CASE i \in scanOperations \cup scanConfig \cup ServerDrift
  BY <1>1, <1>4 DEF scanOperations, scanConfig, ServerDrift, Found
<1>5. CASE i \in scanAuthority
  BY <1>1, <1>2, <1>5 DEF scanAuthority, Found
<1>6. CASE i \in scanArtifactSet
  <2>1. PICK k \in InstanceKinds : i \in ArtifactIssues(<<k, "instance">>)
    BY <1>6 DEF scanArtifactSet
  <2>2. i = ArtifactIssue(<<k, "instance">>)
    BY <1>3, <2>1 DEF ArtifactIssues, Found
  <2>3. k = "ca-cert"
    BY <1>3, <2>2
  <2>4. meta[<<"ca-cert", "instance">>] \in {NoMetadata, "genuine"}
    BY DEF DigestInv
  <2>5. /\ Readable(<<k, "instance">>)
        /\ Registered(<<k, "instance">>) => Matching(<<k, "instance">>)
    BY <2>3, <2>4 DEF Readable, Registered, Matching, Of
  <2>6. i = RegisterIssue(<<k, "instance">>)
    BY <2>1, <2>3, <2>5 DEF ArtifactIssues, Found
  <2> QED
    BY <1>3, <2>6
<1>7. CASE \E c \in Owners : i \in scanClient(c)
  <2>1. \/ \E f : i = RegisterIssue(f)
        \/ \E k \in ClientKinds, c \in Owners : i = ArtifactIssue(<<k, c>>)
        \/ \E c : \/ i = Issue("recoverable", "RECOVER_CLIENT_IDENTITY", c, "")
                  \/ i = Issue("critical", "RESTORE_BACKUP", c, "")
                  \/ i = Issue("repairable", "REFRESH_CLIENT_ARTIFACTS", c, "")
    BY <1>7 DEF scanClient, Found, RefreshIssue, ClientKinds
  <2>2. ASSUME NEW k \in ClientKinds, NEW c PROVE i # ArtifactIssue(<<k, c>>)
    <3>1. <<k, c>>[1] # "ca-cert"
      BY DEF ClientKinds
    <3> QED
      BY <1>3, <3>1
  <2> QED
    BY <1>1, <1>3, <2>1, <2>2
<1> QED
  BY <1>4, <1>5, <1>6, <1>7 DEF Scan

\* A plan that nothing blocks covers every deviation that is there, and its
\* recoveries have their evidence.
LEMMA ApplyReplan ==
    ASSUME Damaged, DigestInv, RepairReplan
    PROVE  ApplyInv'
<1> SUFFICES ASSUME Applying'
             PROVE  Covered'
  BY DEF ApplyInv
<1>1. /\ Blockers = {} /\ UNCHANGED <<content, meta>>
  BY DEF RepairReplan, End, Applying
<1>2. PICK P : P = PlannedActions
  OBVIOUS
<1>3. plan' = P /\ todo' = P
  BY <1>1, <1>2 DEF RepairReplan
<1>4. RowsInv
  BY DEF Damaged, VouchInv
<1>5. \A k : Of(k)' = Of(k)
  BY <1>1 DEF Of
<1>6. /\ StoredCA' <=> StoredCA
      /\ ValidateCA' <=> ValidateCA
      /\ ValidateCAKeyPair' <=> ValidateCAKeyPair
      /\ ValidateServer' <=> ValidateServer
      /\ ValidateCRLForCA' <=> ValidateCRLForCA
      /\ ValidateTLSCryptKey' <=> ValidateTLSCryptKey
  BY <1>5 DEF StoredCA, ValidateCA, ValidateCAKeyPair, ValidateServer, ValidateCRLForCA,
     ValidateTLSCryptKey
<1>7. \A c \in Owners : /\ ValidateClient(c)' <=> ValidateClient(c)
                        /\ ValidateRevocationStatus(c)' <=> ValidateRevocationStatus(c)
                        /\ Rendered(c)' = Rendered(c)
                        /\ Original(<<"ccd", c>>)' = Original(<<"ccd", c>>)
                        /\ Evidence(c)' <=> Evidence(c)
  BY <1>1, <1>5 DEF ValidateClient, ValidateRevocationStatus, Rendered, Profile, Original, HasCcd,
     Evidence, Matching, PairIn
<1>8. ASSUME NEW s \in {"fatal", "critical", "reissuable"}, NEW t, NEW o, Issue(s, t, o, "") \in Scan
      PROVE  FALSE
  BY <1>1, <1>8, IssueBlocks
<1>9. ASSUME NEW s, NEW t \in AutomaticTypes \ {Register}, NEW o, Issue(s, t, o, "") \in Scan
      PROVE  Act(t, o) \in P
  BY <1>1, <1>2, <1>9, IssuePlanned
<1>10. {"REBUILD_CRL", "RECOVER_CA_CERT", "RECOVER_CLIENT_IDENTITY", "RECOVER_TLS_CRYPT",
        "REFRESH_CLIENT_ARTIFACTS", "REFRESH_SERVER_ARTIFACTS"} \subseteq AutomaticTypes \ {Register}
  BY DEF AutomaticTypes, Register
<1>11. StoredCA \/ (~ValidateCA /\ RecoverCA \in P)
  <2>1. ~ValidateCA => RecoverCA \in P
    BY <1>9, <1>10, ScanReports DEF RecoverCA
  <2>2. ~(ValidateCA /\ ~StoredCA)
    BY <1>8, ScanReports
  <2> QED
    BY <2>1, <2>2
<1>12. RecoverCA \in P \/ RebuildCRL \in P \/ ValidateCRLForCA
  BY <1>9, <1>10, <1>11, ScanReports DEF RebuildCRL
<1>13. \A c \in Owners : ValidateClient(c) \/ RecoverId(c) \in P
  BY <1>9, <1>10, ScanReportsClients DEF RecoverId
<1>14. ValidateTLSCryptKey \/ RecoverTls \in P
  BY <1>9, <1>10, ScanReports DEF RecoverTls
<1>15. FilesCovered'
  <2>1. Of("server-config") = "genuine" \/ RefreshServer \in P
    BY <1>9, <1>10, ScanReports DEF RefreshServer
  <2>2. \A c \in Owners : content[<<"ccd", c>>] = Original(<<"ccd", c>>) \/ RefreshCl(c) \in P
    BY <1>9, <1>10, ScanReportsClients DEF RefreshCl
  <2> QED
    BY <1>1, <1>3, <1>5, <1>6, <1>7, <1>11, <1>12, <1>13, <1>14, <2>1, <2>2 DEF FilesCovered
<1>16. ASSUME NEW f \in Recorded, ArtifactIssue(f) \in Scan
       PROVE  RecoveryOf(f) \in P /\ f[1] \notin {"ca-key", "server-cert", "server-key"}
  BY <1>1, <1>2, <1>16, ArtifactPlanned
<1>17. RowsCovered'
  <2>1. \A f : RecoveryOf(f)' = RecoveryOf(f) /\ Registration(f)' = Registration(f)
    BY DEF RecoveryOf, Registration
  <2>2. \A f \in Recorded : (Registered(f)' <=> Registered(f)) /\ (Matching(f)' <=> Matching(f))
    BY <1>1 DEF Registered, Matching
  <2>3. \A f \in Recorded : Registered(f) => Matching(f) \/ RecoveryOf(f) \in P
    BY <1>16, ScanReportsFiles
  <2>4. ASSUME NEW f \in Recorded, ~Registered(f), f[1] # "ccd"
        PROVE  \/ RecoveryOf(f) \in P \/ Registration(f) \in P
               \/ f[1] \in Pair /\ RefreshCl(f[2]) \in P
    <3>1. CASE ArtifactIssue(f) \in Scan
      BY <1>16, <3>1
    <3>2. CASE RegisterIssue(f) \in Scan /\ ArtifactIssue(f) \notin Scan
      <4>1. \/ Registration(f) \in P
            \/ f[1] \in ClientKinds /\ (RefreshCl(f[2]) \in P \/ RecoverId(f[2]) \in P)
        BY <1>1, <1>2, <1>4, <3>2, RegistrationPlanned
      <4>2. f[1] \in ClientKinds => f[1] \in Pair /\ f[2] \in Owners
        BY <2>4, <3>2, FileIs, ScanReportsFiles DEF ClientKinds, InstanceKinds, Pair
      <4>3. f[1] \in Pair /\ f[2] \in Owners => RecoveryOf(f) = RecoverId(f[2])
        BY FileIs, RecoveriesAre
      <4> QED
        BY <4>1, <4>2, <4>3
    <3> QED
      BY <2>4, <3>1, <3>2, FileIs, ScanReportsFiles DEF ClientKinds, Pair
  <2> QED
    BY <1>3, <2>1, <2>2, <2>3, <2>4 DEF RowsCovered
<1>18. ASSUME RecoverCA \in P, NEW c \in Owners PROVE RecoverId(c) \in P
  BY <1>2, <1>13, <1>18, RecoverCAPlanned DEF ValidateClient
<1>19. AuthorityInv'
  <2>1. Of("signing") # "absent" /\ Of("ca-key") # "absent"
    BY <1>8, ScanReports
  <2>2. ASSUME NEW k \in {"server-cert", "server-key"} PROVE Of(k) # "absent"
    <3>1. PICK f \in Recorded : f = <<k, "instance">> /\ f[1] = k /\ f[2] = "instance"
      BY RecordedAre DEF InstanceKinds
    <3>2. ArtifactIssue(f) \notin Scan
      BY <1>16, <3>1
    <3>3. (Registered(f) => Matching(f)) /\ (~Registered(f) => Readable(f))
      BY <3>1, <3>2, ScanReportsFiles
    <3>4. Registered(f) => meta[f] # "absent"
      BY DEF Damaged, RepairShape, RepairTypeOK, Registered
    <3> QED
      BY <3>1, <3>3, <3>4 DEF Matching, Readable, Of
  <2>3. RecoverCA \in P \/ (ValidateCAKeyPair /\ ValidateServer)
    BY <1>8, <1>11, <2>1, ScanReports
  <2>4. RecoverCA \in P => Of("ca-cert") # "genuine"
    BY <1>2, RecoverCAPlanned
  <2> QED
    BY <1>3, <1>5, <1>6, <1>18, <2>1, <2>2, <2>3, <2>4 DEF AuthorityInv
<1>20. EvidenceInv'
  <2>1. \A c \in Owners : content'[<<"profile", c>>] = content[<<"profile", c>>]
    BY <1>1
  <2>2. TlsEvidence' = TlsEvidence /\ (CaEvidence' <=> CaEvidence)
    BY <1>1, <1>7, <2>1, KeysKept
  <2>3. \A t \in Recoveries : \A o : Act(t, o) \in P => RecoveryReady(t, o)
    BY <1>1, <1>2, RecoveryPlanned
  <2>4. RecoverCA \in P => CaEvidence
    BY <2>3 DEF RecoverCA, Recoveries, RecoveryReady
  <2>5. RecoverTls \in P => Cardinality(TlsEvidence) = 1
    BY <2>3 DEF RecoverTls, Recoveries, RecoveryReady
  <2>6. \A c \in Owners : RecoverId(c) \in P => Evidence(c)
    BY <2>3 DEF RecoverId, Recoveries, RecoveryReady
  <2> QED
    BY <1>3, <1>7, <2>2, <2>4, <2>5, <2>6 DEF EvidenceInv
<1>21. ClientsSeen'
  <2>1. ASSUME NEW c \in Owners
        PROVE  /\ \/ RefreshCl(c) \in P \/ RecoverTls \in P \/ RecoverId(c) \in P
                  \/ content[<<"profile", c>>] = Rendered(c)
               /\ RecoverId(c) \in P \/ RebuildCRL \in P \/ ValidateRevocationStatus(c)
               /\ ValidateClient(c) /\ Registered(<<"client-cert", c>>) => Matching(<<"client-cert", c>>)
               /\ ValidateClient(c) /\ Of("crl") = "foreign" => c \notin Revoked
    <3>1. ~(ValidateClient(c) /\ ValidateCRLForCA /\ ~ValidateRevocationStatus(c))
      BY <1>8, ScanReportsClients
    <3>2. ValidateClient(c) /\ Registered(<<"client-cert", c>>) => Matching(<<"client-cert", c>>)
      BY <1>8, ScanReportsClients
    <3>3. ValidateTLSCryptKey => Readable(<<"tls-crypt", "instance">>)
      BY DEF ValidateTLSCryptKey, Readable, Of
    <3>4. \/ RefreshCl(c) \in P \/ RecoverTls \in P \/ RecoverId(c) \in P
          \/ content[<<"profile", c>>] = Rendered(c)
      BY <1>9, <1>10, <1>13, <1>14, <3>3, ScanReportsClients DEF RefreshCl
    <3>5. RecoverId(c) \in P \/ RebuildCRL \in P \/ ValidateRevocationStatus(c)
      BY <1>12, <1>13, <1>18, <3>1
    <3>6. ValidateClient(c) /\ Of("crl") = "foreign" => c \notin Revoked
      BY <3>1 DEF ValidateClient, ValidateCRLForCA, ValidateRevocationStatus
    <3> QED
      BY <3>2, <3>4, <3>5, <3>6
  <2>2. \A c \in Owners :
          /\ Registered(<<"client-cert", c>>)' <=> Registered(<<"client-cert", c>>)
          /\ Matching(<<"client-cert", c>>)' <=> Matching(<<"client-cert", c>>)
    BY <1>1 DEF Registered, Matching
  <2> QED
    BY <1>1, <1>3, <1>5, <1>7, <2>1, <2>2 DEF ClientsSeen
<1> QED
  BY <1>15, <1>17, <1>19, <1>20, <1>21 DEF Covered

\* An action that is accepted opens its operation; the rest stays.
LEMMA OpenBegin ==
    ASSUME Damaged, ApplyInv, RepairBegin
    PROVE  OpenInv' /\ ApplyInv'
<1>1. /\ phase = "apply" /\ UNCHANGED <<content, meta, plan, touched, lost, swapped>>
  BY DEF RepairBegin
<1>2. PICK a \in First(todo) :
         IF Accepted(a)
         THEN /\ op' = [action |-> a, writes |-> Writes(a), left |-> DOMAIN Writes(a),
                        before |-> [f \in DOMAIN Writes(a) |-> content[f]]]
              /\ phase' = "install" /\ UNCHANGED todo
         ELSE phase' = "idle"
  BY DEF RepairBegin, End
<1>3. CASE ~Accepted(a)
  BY <1>2, <1>3 DEF OpenInv, ApplyInv, Applying
<1>4. CASE Accepted(a)
  <2>1. op'.action = a /\ op'.writes = Writes(a) /\ phase' = "install" /\ todo' = todo
    BY <1>2, <1>4
  <2>2. Writes(a)' = Writes(a) /\ (Accepted(a)' <=> Accepted(a))
    BY <1>1 DEF Writes, Only, RefreshedServer, RefreshedClient, Recovered, Rendered, Profile, Original,
       HasCcd, TlsEvidence, Evidence, Matching, PairIn, TlsIn, Of, Accepted, RecoveryReady, CaEvidence,
       RefreshCRLAccepted, RefreshClientAccepted, Verified, StoredCA, ValidateCA, ValidateCAKeyPair,
       ValidateServer, ValidateCRLForCA, ValidateTLSCryptKey, ValidateClient
  <2>3. OpenInv'
    BY <1>4, <2>1, <2>2 DEF OpenInv, First
  <2>4. Covered => Covered'
    BY <1>1, <2>1 DEF Covered, RowsCovered, FilesCovered, AuthorityInv, EvidenceInv, ClientsSeen, Registered,
       Matching, Of, StoredCA, ValidateCA, ValidateCAKeyPair, ValidateServer, ValidateCRLForCA,
       ValidateTLSCryptKey, ValidateClient, ValidateRevocationStatus, Rendered, Profile, Original, HasCcd,
       CaEvidence, TlsEvidence, Evidence, PairIn, TlsIn, RecoveryOf, Registration
  <2> QED
    BY <1>1, <2>1, <2>3, <2>4 DEF ApplyInv, Applying
<1> QED
  BY <1>3, <1>4

-----------------------------------------------------------------------------
(* What the invariant says of a scan                                       *)

\* What may block while a plan is applied.
Blocking(i) ==
    \/ i.action = "RECOVER_OPERATION" /\ op # NoOperation
    \/ /\ i.owner = "instance" /\ i.action = "RESTORE_BACKUP"
       /\ StoredCA /\ ~ValidateCAKeyPair
    \/ /\ i.owner = "instance" /\ i.action = "REISSUE_SERVER"
       /\ StoredCA /\ ~ValidateServer
    \/ /\ i.owner \in Owners /\ i.action = "RESTORE_BACKUP"
       /\ ValidateClient(i.owner) /\ ValidateCRLForCA /\ ~ValidateRevocationStatus(i.owner)
    \/ /\ i.owner \in Owners /\ i.action = "RESTORE_BACKUP" /\ ValidateClient(i.owner)
       /\ Registered(<<"client-cert", i.owner>>) /\ ~Matching(<<"client-cert", i.owner>>)

\* The files of the authority without an automatic action match their rows.
LEMMA NotAutomatic ==
    ASSUME Damaged, RowsCovered, NEW k \in {"ca-key", "server-cert", "server-key"},
           Registered(<<k, "instance">>)
    PROVE  Matching(<<k, "instance">>)
<1>1. <<k, "instance">> \in Recorded
  BY RecordedAre DEF InstanceKinds
<1>2. \A b \in todo : b.type \in AutomaticTypes
  BY ActionIs DEF Damaged, RepairShape
<1>3. RecoveryOf(<<k, "instance">>) \notin todo
  BY <1>2, RecoveriesAre
<1> QED
  BY <1>1, <1>3 DEF RowsCovered

\* While a plan is applied every issue has its action, or is one of those
\* that may block.
LEMMA BlockersAre ==
    ASSUME Damaged, Covered, NEW i \in Blockers
    PROVE  Blocking(i)
<1> DEFINE Harmless(j) == \/ j.severity = "repairable"
                          \/ j.severity = "recoverable" /\ RecoveryReady(j.action, j.owner)
           Good(j) == Harmless(j) \/ Blocking(j)
<1>1. ~Harmless(i) /\ i \in Scan
  BY DEF Blockers
<1>2. ASSUME NEW s, NEW t, NEW o, NEW k,
             s = "repairable" \/ (s = "recoverable" /\ RecoveryReady(t, o))
      PROVE  Good(Issue(s, t, o, k))
  BY <1>2 DEF Issue
<1>3. ASSUME NEW s, NEW c \in Owners, ValidateClient(c),
             \/ ValidateCRLForCA /\ ~ValidateRevocationStatus(c)
             \/ Registered(<<"client-cert", c>>) /\ ~Matching(<<"client-cert", c>>)
      PROVE  Good(Issue(s, "RESTORE_BACKUP", c, ""))
  BY <1>3 DEF Issue, Blocking
<1>4. /\ op # NoOperation => Good(Issue("critical", "RECOVER_OPERATION", "instance", ""))
      /\ StoredCA /\ ~ValidateCAKeyPair => Good(Issue("critical", "RESTORE_BACKUP", "instance", ""))
      /\ StoredCA /\ ~ValidateServer => Good(Issue("reissuable", "REISSUE_SERVER", "instance", ""))
  BY DEF Issue, Blocking
<1> SUFFICES Good(i)
  BY <1>1
<1> HIDE DEF Good
<1>5. /\ RecoverCA \in todo => RecoveryReady("RECOVER_CA_CERT", "instance")
      /\ RecoverTls \in todo => RecoveryReady("RECOVER_TLS_CRYPT", "instance")
      /\ \A c \in Owners : RecoverId(c) \in todo => RecoveryReady("RECOVER_CLIENT_IDENTITY", c)
  BY DEF Covered, EvidenceInv, RecoveryReady
<1>6. /\ ~ValidateCA => RecoveryReady("RECOVER_CA_CERT", "instance")
      /\ ~ValidateTLSCryptKey => RecoveryReady("RECOVER_TLS_CRYPT", "instance")
      /\ \A c \in Owners : ~ValidateClient(c) => RecoveryReady("RECOVER_CLIENT_IDENTITY", c)
      /\ ~(ValidateCA /\ ~StoredCA)
  BY <1>5 DEF Covered, FilesCovered, StoredCA
<1>7. ASSUME NEW f \in Recorded PROVE Good(RegisterIssue(f))
  BY <1>2 DEF RegisterIssue
<1>8. ASSUME NEW k, NEW o, k \in {"crl", "server-config", "profile", "ccd"}
      PROVE  Good(ArtifactIssue(<<k, o>>))
  BY <1>2, <1>8 DEF ArtifactIssue, severityForArtifact
<1>9. ASSUME NEW k \in Pair, NEW c \in Owners, RecoveryReady("RECOVER_CLIENT_IDENTITY", c)
      PROVE  Good(ArtifactIssue(<<k, c>>))
  BY <1>2, <1>9 DEF ArtifactIssue, severityForArtifact, actionForArtifact, Pair
<1>10. RecoveryReady("RECOVER_CA_CERT", "instance") => Good(ArtifactIssue(<<"ca-cert", "instance">>))
  BY <1>2 DEF ArtifactIssue, severityForArtifact, actionForArtifact
<1>11. RecoveryReady("RECOVER_TLS_CRYPT", "instance") => Good(ArtifactIssue(<<"tls-crypt", "instance">>))
  BY <1>2 DEF ArtifactIssue, severityForArtifact, actionForArtifact
<1>12. CASE i \in scanOperations \cup scanConfig \cup ServerDrift
  BY <1>2, <1>4, <1>12 DEF scanOperations, scanConfig, ServerDrift, Found
<1>13. CASE i \in scanAuthority
  <2>1. Of("ca-key") # "absent" /\ Of("signing") # "absent"
    BY DEF Covered, AuthorityInv
  <2> QED
    BY <1>2, <1>4, <1>6, <1>13, <2>1 DEF scanAuthority, Found
<1>14. CASE i \in scanArtifactSet
  <2>1. PICK k \in InstanceKinds : i \in ArtifactIssues(<<k, "instance">>)
    BY <1>14 DEF scanArtifactSet
  <2>2. PICK f \in Recorded : f = <<k, "instance">>
    BY RecordedAre
  <2>3. \/ i = RegisterIssue(f)
        \/ i = ArtifactIssue(f) /\ Registered(f) /\ ~Matching(f)
        \/ i = ArtifactIssue(f) /\ ~Readable(f)
        \/ i = ArtifactIssue(f) /\ k = "server-config"
    BY <2>1, <2>2 DEF ArtifactIssues, Found
  <2>4. ASSUME k \in {"ca-key", "server-cert", "server-key"} PROVE i = RegisterIssue(f)
    <3>1. Readable(f)
      BY <2>2, <2>4 DEF Covered, AuthorityInv, Readable, Of
    <3>2. Registered(f) => Matching(f)
      BY <2>2, <2>4, NotAutomatic DEF Covered
    <3> QED
      BY <2>3, <2>4, <3>1, <3>2
  <2>5. CASE k = "ca-cert"
    <3>1. ~Readable(f) => RecoveryReady("RECOVER_CA_CERT", "instance")
      BY <1>6, <2>2, <2>5 DEF Readable, ValidateCA, Of
    <3>2. Registered(f) /\ ~Matching(f) => RecoveryReady("RECOVER_CA_CERT", "instance")
      BY <1>5, <2>2, <2>5, RecoveriesAre DEF Covered, RowsCovered
    <3> QED
      BY <1>7, <1>10, <2>2, <2>3, <2>5, <3>1, <3>2
  <2>6. CASE k = "tls-crypt"
    <3>1. ~Readable(f) => RecoveryReady("RECOVER_TLS_CRYPT", "instance")
      BY <1>6, <2>2, <2>6 DEF Readable, ValidateTLSCryptKey, Of
    <3>2. Registered(f) /\ ~Matching(f) => RecoveryReady("RECOVER_TLS_CRYPT", "instance")
      BY <1>5, <2>2, <2>6, RecoveriesAre DEF Covered, RowsCovered
    <3> QED
      BY <1>7, <1>11, <2>2, <2>3, <2>6, <3>1, <3>2
  <2>7. CASE k \in {"crl", "server-config"}
    BY <1>7, <1>8, <2>2, <2>3, <2>7
  <2> QED
    BY <1>7, <2>4, <2>5, <2>6, <2>7 DEF InstanceKinds
<1>15. CASE \E c \in Owners : i \in scanClient(c)
  <2>1. PICK c \in Owners : i \in scanClient(c)
    BY <1>15
  <2>2. \A k \in Pair : /\ <<k, c>> \in Recorded
                        /\ Registered(<<k, c>>) /\ ~Matching(<<k, c>>) => RecoverId(c) \in todo
    BY RecordedAre, RecoveriesAre DEF ClientKinds, Pair, Covered, RowsCovered
  <2>3. \A k \in Pair :
          Registered(<<k, c>>) /\ ~Matching(<<k, c>>) => Good(ArtifactIssue(<<k, c>>))
    BY <1>5, <1>9, <2>2
  <2>4. \A k \in Pair : ~ValidateClient(c) => Good(ArtifactIssue(<<k, c>>))
    BY <1>6, <1>9
  <2>5. \A k \in Pair : Good(RegisterIssue(<<k, c>>))
    BY <1>7, <2>2
  <2>6. Good(Issue("repairable", "REFRESH_CLIENT_ARTIFACTS", c, ""))
    BY <1>2
  <2>7. ~ValidateClient(c) => Good(Issue("recoverable", "RECOVER_CLIENT_IDENTITY", c, ""))
    BY <1>2, <1>6
  <2>8. Good(ArtifactIssue(<<"profile", c>>)) /\ Good(ArtifactIssue(<<"ccd", c>>))
    BY <1>8
  <2>9. \/ i = Issue("recoverable", "RECOVER_CLIENT_IDENTITY", c, "") /\ ~ValidateClient(c)
        \/ /\ i = Issue("critical", "RESTORE_BACKUP", c, "")
           /\ ValidateClient(c) /\ ValidateCRLForCA /\ ~ValidateRevocationStatus(c)
        \/ \E k \in Pair :
             \/ i = ArtifactIssue(<<k, c>>) /\ Registered(<<k, c>>) /\ ~Matching(<<k, c>>)
             \/ i = ArtifactIssue(<<k, c>>) /\ ~ValidateClient(c)
             \/ i = RegisterIssue(<<k, c>>)
        \/ i = ArtifactIssue(<<"profile", c>>) \/ i = ArtifactIssue(<<"ccd", c>>)
        \/ /\ i = Issue("critical", "RESTORE_BACKUP", c, "") /\ ValidateClient(c)
           /\ Registered(<<"client-cert", c>>) /\ ~Matching(<<"client-cert", c>>)
        \/ i = Issue("repairable", "REFRESH_CLIENT_ARTIFACTS", c, "")
    BY <2>1 DEF scanClient, Found, RefreshIssue, Pair
  <2> QED
    BY <1>3, <2>3, <2>4, <2>5, <2>6, <2>7, <2>8, <2>9
<1> QED
  BY <1>1, <1>12, <1>13, <1>14, <1>15 DEF Scan

\* A file other than a profile whose row says that it is not what the
\* instance wrote, or that has no row, is doubtful.
LEMMA RowIs ==
    ASSUME Damaged, NEW f \in Recorded, f[1] \notin {"profile", "ccd"}
    PROVE  /\ ~Registered(f) => f \in lost
           /\ Registered(f) => meta[f] = "genuine" \/ f \in lost \cup swapped
<1>1. Original(f) = "genuine"
  BY DEF Original
<1>2. Sources(f) = {f}
  BY SourcesAre
<1> QED
  BY <1>1, <1>2 DEF Damaged, VouchInv, RowsInv, VouchedGenuine, Registered

\* A client's certificate or a CRL that does not go with the revocations.
LEMMA WrongRevocation ==
    ASSUME NEW c \in Owners, ValidateClient(c), ValidateCRLForCA, ~ValidateRevocationStatus(c)
    PROVE  \/ content[<<"client-cert", c>>] = "foreign"
           \/ Of("crl") = "foreign" /\ c \in Revoked
  BY DEF ValidateClient, ValidateCRLForCA, ValidateRevocationStatus

\* Whatever is applied, what blocks was hidden from the plan.
LEMMA ResumableApplying ==
    ASSUME Damaged, DigestInv, Covered, NEW i \in Blockers
    PROVE  \/ i.action = "RECOVER_OPERATION"
           \/ AuthorityUncovered(i) \/ RevocationUncovered(i) \/ PairUncovered(i)
<1>1. Blocking(i)
  BY BlockersAre
<1>2. /\ Plans("RECOVER_CA_CERT", "instance") <=> RecoverCA \in plan
      /\ Plans("REBUILD_CRL", "instance") <=> RebuildCRL \in plan
      /\ \A c : Plans("RECOVER_CLIENT_IDENTITY", c) <=> RecoverId(c) \in plan
  BY DEF Plans, RecoverCA, RebuildCRL, RecoverId, Act
<1>3. /\ \A k \in InstanceKinds : <<k, "instance">> \in Recorded
      /\ \A c \in Owners : <<"client-cert", c>> \in Recorded
  BY RecordedAre DEF ClientKinds
<1>4. ASSUME NEW k \in {"ca-key", "server-cert", "server-key"}, Of(k) # "genuine"
      PROVE  <<k, "instance">> \in lost
  <2>1. <<k, "instance">> \in Recorded /\ <<k, "instance">>[1] \notin {"profile", "ccd"}
    BY <1>3 DEF InstanceKinds
  <2>2. Registered(<<k, "instance">>) => FALSE
    BY <1>4, NotAutomatic DEF Covered, DigestInv, Matching, Of, Registered
  <2> QED
    BY <2>1, <2>2, RowIs
<1>5. ASSUME i.owner = "instance", i.action \in {"RESTORE_BACKUP", "REISSUE_SERVER"}, StoredCA,
             ~ValidateCAKeyPair \/ ~ValidateServer
      PROVE  AuthorityUncovered(i)
  <2>1. RecoverCA \in plan
    BY <1>5 DEF Covered, AuthorityInv
  <2>2. \E k \in {"ca-key", "server-cert", "server-key"} : Of(k) # "genuine"
    BY <1>5 DEF StoredCA, ValidateCAKeyPair, ValidateServer
  <2>3. ({"ca-key", "server-cert", "server-key"} \X {"instance"}) \cap lost # {}
    BY <1>4, <2>2
  <2> QED
    BY <1>2, <1>5, <2>1, <2>3 DEF AuthorityUncovered
<1>6. ASSUME NEW c \in Owners, c = i.owner, i.action = "RESTORE_BACKUP", ValidateClient(c),
             Registered(<<"client-cert", c>>), ~Matching(<<"client-cert", c>>)
      PROVE  PairUncovered(i)
  <2>1. RecoverCA \in plan
    BY <1>6 DEF Covered, ClientsSeen
  <2>2. RecoverId(c) \in plan
    BY <2>1 DEF Covered, AuthorityInv
  <2> QED
    BY <1>2, <1>6, <2>1, <2>2 DEF PairUncovered
<1>7. ASSUME NEW c \in Owners, c = i.owner, i.action = "RESTORE_BACKUP", ValidateClient(c),
             ValidateCRLForCA, ~ValidateRevocationStatus(c)
      PROVE  RevocationUncovered(i) \/ PairUncovered(i)
  <2>1. RecoverId(c) \in plan \/ RebuildCRL \in plan
    BY <1>7 DEF Covered, ClientsSeen
  <2>2. <<"client-cert", c>>[1] \notin {"profile", "ccd"} /\ <<"crl", "instance">>[1] \notin {"profile", "ccd"}
    OBVIOUS
  <2>3. CASE <<"client-cert", c>> \in lost \cup swapped \/ <<"crl", "instance">> \in lost \cup swapped
    BY <1>2, <1>7, <2>1, <2>3 DEF RevocationUncovered, Doubted
  <2>4. CASE /\ <<"client-cert", c>> \notin lost \cup swapped
             /\ content[<<"client-cert", c>>] = "foreign"
    <3>1. meta[<<"client-cert", c>>] = "genuine" /\ Registered(<<"client-cert", c>>)
      BY <1>3, <2>2, <2>4, RowIs
    <3> QED
      BY <1>6, <1>7, <2>4, <3>1 DEF Matching
  <2>5. CASE <<"crl", "instance">> \notin lost \cup swapped /\ Of("crl") = "foreign" /\ c \in Revoked
    <3>1. meta[<<"crl", "instance">>] = "genuine" /\ Registered(<<"crl", "instance">>)
      BY <1>3, <2>2, <2>5, RowIs DEF InstanceKinds
    <3>2. RebuildCRL \in todo
      BY <1>3, <2>5, <3>1, RecoveriesAre DEF Covered, RowsCovered, Matching, Of, InstanceKinds
    <3>3. RecoverCA \in plan
      BY <1>7, <2>5, <3>2 DEF Covered, ClientsSeen
    <3> QED
      BY <1>7, <3>2, <3>3 DEF Covered, AuthorityInv, ValidateClient
  <2> QED
    BY <1>7, <2>3, <2>4, <2>5, WrongRevocation
<1> QED
  BY <1>1, <1>5, <1>6, <1>7 DEF Blocking

\* An action that is next has what it needs.
LEMMA ErrorsApplying ==
    ASSUME Damaged, Covered, NEW a \in First(todo)
    PROVE  \/ Accepted(a)
           \/ a.type = "REBUILD_CRL" /\ "RECOVER_CA_CERT" \in {b.type : b \in todo}
           \/ /\ a.type = "REGISTER_VERIFIED_ARTIFACT" /\ <<a.kind, a.owner>> \in lost
              /\ a.kind \in {"ca-key", "server-cert", "server-key", "crl"}
              /\ Plans("RECOVER_CA_CERT", "instance")
<1>1. \A b \in todo : ActionOK(b)
  BY DEF Damaged, RepairShape
<1>2. a \in todo /\ ActionOK(a) /\ a.type \in AutomaticTypes
  BY <1>1, FirstIs
<1>3. RecoverCA \in todo => "RECOVER_CA_CERT" \in {b.type : b \in todo}
  BY ActsAre
<1>4. CASE a.type = "REBUILD_CRL"
  <2>1. a = RebuildCRL
    BY <1>2, <1>4, ActionIs
  <2>2. (StoredCA /\ ValidateCAKeyPair) \/ RecoverCA \in todo
    BY <1>2, <2>1 DEF Covered, FilesCovered, AuthorityInv
  <2> QED
    BY <1>3, <1>4, <2>2, AcceptedIs DEF RefreshCRLAccepted
<1>5. CASE a.type = "RECOVER_CA_CERT"
  BY <1>2, <1>5, ActionIs, AcceptedIs DEF Covered, EvidenceInv
<1>6. CASE a.type = "RECOVER_CLIENT_IDENTITY"
  BY <1>2, <1>6, ActionIs, AcceptedIs DEF Covered, EvidenceInv
<1>7. CASE a.type = "RECOVER_TLS_CRYPT"
  BY <1>2, <1>7, ActionIs, AcceptedIs DEF Covered, EvidenceInv
<1>8. ASSUME a.type \in {"REFRESH_CLIENT_ARTIFACTS", "REGISTER_VERIFIED_ARTIFACT"}
      PROVE  /\ StoredCA /\ ValidateTLSCryptKey /\ \A c \in Owners : ValidateClient(c)
             /\ RecoverCA \in plan \/ (ValidateCAKeyPair /\ ValidateServer /\ ValidateCRLForCA)
  <2>1. /\ RecoverCA \notin todo /\ RecoverTls \notin todo /\ RebuildCRL \notin todo
        /\ \A c \in Owners : RecoverId(c) \notin todo
    BY <1>1, <1>8, FirstIs
  <2> QED
    BY <2>1 DEF Covered, FilesCovered, AuthorityInv
<1>9. CASE a.type = "REFRESH_CLIENT_ARTIFACTS"
  <2>1. a.owner \in Owners
    BY <1>2, <1>9, ActionIs
  <2> QED
    BY <1>8, <1>9, <2>1, AcceptedIs DEF RefreshClientAccepted
<1>10. CASE a.type = "REFRESH_SERVER_ARTIFACTS"
  BY <1>10, AcceptedIs
<1>11. CASE a.type = "REGISTER_VERIFIED_ARTIFACT"
  <2>1. /\ <<a.kind, a.owner>> \in Recorded \cap lost
        /\ a.kind \notin {"server-config", "profile", "ccd"}
    BY <1>2, <1>11, ActionIs
  <2>2. /\ a.kind \in (InstanceKinds \cup ClientKinds) \ {"server-config", "profile", "ccd"}
        /\ a.kind \in ClientKinds => a.owner \in Owners
    BY <2>1 DEF Recorded, InstanceKinds, ClientKinds
  <2>3. Plans("RECOVER_CA_CERT", "instance") <=> RecoverCA \in plan
    BY DEF Plans, RecoverCA, Act
  <2>4. \/ Verified(a.kind, a.owner)
        \/ a.kind \in {"ca-key", "server-cert", "server-key", "crl"} /\ RecoverCA \in plan
    BY <1>8, <1>11, <2>2 DEF Verified, InstanceKinds, ClientKinds
  <2> QED
    BY <1>11, <2>1, <2>3, <2>4, AcceptedIs
<1> QED
  BY <1>2, <1>4, <1>5, <1>6, <1>7, <1>9, <1>10, <1>11 DEF AutomaticTypes

\* When no action is left, every file verifies and matches its row.
LEMMA DoneMatches ==
    ASSUME Damaged, DigestInv, Covered, todo = {}
    PROVE  /\ \A f \in Recorded : /\ f[1] # "ccd" => Registered(f)
                                  /\ Registered(f) => Matching(f)
           /\ StoredCA /\ ValidateCAKeyPair /\ ValidateServer /\ ValidateCRLForCA
           /\ ValidateTLSCryptKey /\ Of("server-config") = "genuine"
           /\ \A c \in Owners : ValidateClient(c) /\ content[<<"ccd", c>>] = Original(<<"ccd", c>>)
<1>1. \A f \in Recorded : /\ f[1] # "ccd" => Registered(f)
                          /\ Registered(f) => Matching(f)
  BY DEF Covered, RowsCovered
<1>2. /\ StoredCA /\ ValidateTLSCryptKey /\ Of("server-config") = "genuine"
      /\ \A c \in Owners : ValidateClient(c) /\ content[<<"ccd", c>>] = Original(<<"ccd", c>>)
  BY DEF Covered, FilesCovered
<1>3. ASSUME NEW k \in InstanceKinds PROVE meta[<<k, "instance">>] # NoMetadata /\ Of(k) = meta[<<k, "instance">>]
  <2>1. <<k, "instance">> \in Recorded /\ <<k, "instance">>[1] # "ccd"
    BY RecordedAre DEF InstanceKinds
  <2> QED
    BY <1>1, <2>1 DEF Registered, Matching, Of
<1>4. /\ Of("ca-cert") = "genuine" /\ Of("ca-key") = "genuine"
      /\ Of("server-cert") = "genuine" /\ Of("server-key") = "genuine"
      /\ Of("crl") \in {"genuine", "foreign"}
  BY <1>3 DEF DigestInv, InstanceKinds
<1>5. ValidateCAKeyPair /\ ValidateServer /\ ValidateCRLForCA
  BY <1>4 DEF ValidateCAKeyPair, ValidateCA, ValidateServer, ValidateCRLForCA
<1> QED
  BY <1>1, <1>2, <1>5

\* What is left to plan then is a profile that is not what would be rendered.
LEMMA DoneScan ==
    ASSUME Damaged, DigestInv, Covered, todo = {}, op = NoOperation,
           NEW i \in Scan, i.action \in AutomaticTypes
    PROVE  \E c \in Owners : /\ i = Issue("repairable", "REFRESH_CLIENT_ARTIFACTS", c, "")
                             /\ content[<<"profile", c>>] # Rendered(c)
<1>1. ASSUME NEW s, NEW t, NEW o, NEW k, i = Issue(s, t, o, k) PROVE t \in AutomaticTypes
  BY <1>1 DEF Issue
<1>2. /\ \A f \in Recorded : (f[1] # "ccd" => Registered(f)) /\ (Registered(f) => Matching(f))
      /\ StoredCA /\ ValidateCAKeyPair /\ ValidateServer /\ ValidateCRLForCA
      /\ ValidateTLSCryptKey /\ Of("server-config") = "genuine"
      /\ \A c \in Owners : ValidateClient(c) /\ content[<<"ccd", c>>] = Original(<<"ccd", c>>)
  BY DoneMatches
<1>3. \A t \in {"EXPORT_CONFIG", "REVIEW_CONFIG_PLAN", "RESTORE_BACKUP", "RESTORE_CA_PRIVATE_KEY"} :
         t \notin AutomaticTypes
  BY DEF AutomaticTypes
<1>4. i \notin scanOperations \cup scanConfig \cup ServerDrift
  BY <1>1, <1>2, <1>3 DEF scanOperations, scanConfig, ServerDrift, Found
<1>5. i \notin scanAuthority
  <2>1. ValidateCA
    BY <1>2 DEF StoredCA
  <2> QED
    BY <1>1, <1>2, <1>3, <2>1 DEF scanAuthority, Found
<1>6. i \notin scanArtifactSet
  <2>1. ASSUME NEW k \in InstanceKinds PROVE ArtifactIssues(<<k, "instance">>) = {}
    <3>1. <<k, "instance">> \in Recorded /\ <<k, "instance">>[1] # "ccd"
      BY RecordedAre DEF InstanceKinds
    <3> QED
      BY <1>2, <3>1 DEF ArtifactIssues, Found
  <2> QED
    BY <2>1 DEF scanArtifactSet
<1>7. PICK c \in Owners : i \in scanClient(c)
  BY <1>4, <1>5, <1>6 DEF Scan
<1>8. \A k \in ClientKinds : /\ k # "ccd" => Registered(<<k, c>>)
                             /\ Registered(<<k, c>>) => Matching(<<k, c>>)
  BY <1>2, RecordedAre
<1>9. i # Issue("critical", "RESTORE_BACKUP", c, "")
  BY <1>1, <1>3
<1>10. i \in Found(content[<<"profile", c>>] # Rendered(c), RefreshIssue(c))
  BY <1>2, <1>7, <1>8, <1>9 DEF scanClient, Found, ClientKinds
<1> QED
  BY <1>10 DEF Found, RefreshIssue

\* An apply that ends leaves what the scan could not see.
LEMMA ConvergesDone ==
    ASSUME Damaged, DigestInv, Covered, todo = {}, op = NoOperation
    PROVE  /\ \A i \in Blockers : RevocationUncovered(i)
           /\ \A a \in PlannedActions :
                /\ a.type = "REFRESH_CLIENT_ARTIFACTS"
                /\ Doubted(Sources(<<"profile", a.owner>>))
                /\ Plans("RECOVER_TLS_CRYPT", "instance") \/ Plans("RECOVER_CLIENT_IDENTITY", a.owner)
<1>1. /\ \A f \in Recorded : (f[1] # "ccd" => Registered(f)) /\ (Registered(f) => Matching(f))
      /\ StoredCA /\ ValidateCAKeyPair /\ ValidateServer
  BY DoneMatches
<1>2. \A k \in ClientKinds \ {"ccd"}, c \in Owners : Registered(<<k, c>>) /\ Matching(<<k, c>>)
  BY <1>1, RecordedAre
<1>3. \A k \in InstanceKinds : Registered(<<k, "instance">>) /\ Matching(<<k, "instance">>)
  <2>1. \A k \in InstanceKinds : <<k, "instance">> \in Recorded /\ k # "ccd"
    BY RecordedAre DEF InstanceKinds
  <2> QED
    BY <1>1, <2>1
<1>4. ASSUME NEW c \in Owners, <<"client-cert", c>> \notin lost \cup swapped
      PROVE  content[<<"client-cert", c>>] = "genuine"
  <2>1. <<"client-cert", c>> \in Recorded /\ <<"client-cert", c>>[1] \notin {"profile", "ccd"}
    BY RecordedAre DEF ClientKinds
  <2>2. meta[<<"client-cert", c>>] = "genuine"
    BY <1>2, <1>4, <2>1, RowIs DEF ClientKinds
  <2> QED
    BY <1>2, <2>2 DEF Matching, ClientKinds
<1>5. ASSUME NEW k \in {"crl", "tls-crypt"}, <<k, "instance">> \notin lost \cup swapped
      PROVE  Of(k) = "genuine"
  <2>1. <<k, "instance">> \in Recorded /\ <<k, "instance">>[1] \notin {"profile", "ccd"}
    BY RecordedAre DEF InstanceKinds
  <2>2. meta[<<k, "instance">>] = "genuine"
    BY <1>3, <1>5, <2>1, RowIs DEF InstanceKinds
  <2> QED
    BY <1>3, <2>2 DEF Matching, Of, InstanceKinds
<1>6. /\ Plans("REBUILD_CRL", "instance") <=> RebuildCRL \in plan
      /\ Plans("RECOVER_TLS_CRYPT", "instance") <=> RecoverTls \in plan
      /\ \A c : Plans("RECOVER_CLIENT_IDENTITY", c) <=> RecoverId(c) \in plan
  BY DEF Plans, RecoverTls, RebuildCRL, RecoverId, Act
<1>7. ASSUME NEW i \in Blockers PROVE RevocationUncovered(i)
  <2>1. Blocking(i)
    BY BlockersAre
  <2>2. /\ i.owner \in Owners /\ i.action = "RESTORE_BACKUP"
        /\ ValidateClient(i.owner) /\ ValidateCRLForCA /\ ~ValidateRevocationStatus(i.owner)
    BY <1>1, <1>2, <2>1 DEF Blocking, ClientKinds
  <2>3. RecoverId(i.owner) \in plan \/ RebuildCRL \in plan
    BY <2>2 DEF Covered, ClientsSeen
  <2>4. \/ content[<<"client-cert", i.owner>>] = "foreign"
        \/ Of("crl") = "foreign"
    BY <2>2, WrongRevocation
  <2>5. <<"client-cert", i.owner>> \in lost \cup swapped \/ <<"crl", "instance">> \in lost \cup swapped
    BY <1>4, <1>5, <2>2, <2>4
  <2> QED
    BY <1>6, <2>2, <2>3, <2>5 DEF RevocationUncovered, Doubted
<1>8. ASSUME NEW a \in PlannedActions
      PROVE  /\ a.type = "REFRESH_CLIENT_ARTIFACTS"
             /\ Doubted(Sources(<<"profile", a.owner>>))
             /\ Plans("RECOVER_TLS_CRYPT", "instance") \/ Plans("RECOVER_CLIENT_IDENTITY", a.owner)
  <2>1. PICK i \in Scan : i.action \in Automatic /\ a = ActionOf(i)
    BY DEF PlannedActions
  <2>2. PICK c \in Owners : /\ i = Issue("repairable", "REFRESH_CLIENT_ARTIFACTS", c, "")
                            /\ content[<<"profile", c>>] # Rendered(c)
    BY <2>1, AutomaticAre, DoneScan
  <2>3. a.type = "REFRESH_CLIENT_ARTIFACTS" /\ a.owner = c
    BY <2>1, <2>2 DEF Issue, ActionOf
  <2>4. RecoverTls \in plan \/ RecoverId(c) \in plan
    BY <2>2 DEF Covered, ClientsSeen
  <2>5. Doubted(Sources(<<"profile", c>>))
    <3> DEFINE prof == <<"profile", c>>
               tls  == <<"tls-crypt", "instance">>
               cert == <<"client-cert", c>>
    <3> SUFFICES ASSUME Sources(prof) \cap (lost \cup swapped) = {} PROVE FALSE
      BY DEF Doubted
    <3>1. tls \notin lost \cup swapped /\ cert \notin lost \cup swapped
      BY DEF Sources
    <3>2. Rendered(c) = "genuine"
      BY <1>4, <1>5, <3>1 DEF Rendered, Profile
    <3>3. prof \in Recorded /\ Original(prof) = "genuine"
      BY RecordedAre DEF ClientKinds, Original
    <3>4. meta[prof] \in {NoMetadata, "genuine"}
      BY <3>3 DEF Damaged, VouchInv, VouchedGenuine
    <3>5. content[prof] = "genuine"
      BY <1>2, <3>4 DEF Registered, Matching, ClientKinds
    <3> QED
      BY <2>2, <3>2, <3>5
  <2> QED
    BY <1>6, <2>3, <2>4, <2>5
<1> QED
  BY <1>7, <1>8

-----------------------------------------------------------------------------
(* Steps that change no file and no row                                    *)

\* The scan and the plan are made of the files, the rows and the journal.
LEMMA ScanKept ==
    ASSUME UNCHANGED <<content, meta, op>>
    PROVE  Blockers' = Blockers /\ PlannedActions' = PlannedActions
<1>1. \A k : Of(k)' = Of(k)
  BY DEF Of
<1>2. scanConfig' = scanConfig /\ ServerDrift' = ServerDrift /\ scanOperations' = scanOperations
  BY <1>1 DEF scanConfig, ServerDrift, scanOperations
<1>3. scanAuthority' = scanAuthority
  BY <1>1 DEF scanAuthority, ValidateCA, StoredCA, ValidateCAKeyPair, ValidateServer, ValidateCRLForCA,
     ValidateTLSCryptKey
<1>4. \A f : ArtifactIssues(f)' = ArtifactIssues(f)
  BY DEF ArtifactIssues, Registered, Matching, Readable
<1>5. scanArtifactSet' = scanArtifactSet
  BY <1>4 DEF scanArtifactSet
<1>6. ASSUME NEW c PROVE scanClient(c)' = scanClient(c)
  <2>1. \A f : /\ Registered(f)' <=> Registered(f)
               /\ Matching(f)' <=> Matching(f)
               /\ Readable(f)' <=> Readable(f)
    BY DEF Registered, Matching, Readable
  <2>2. /\ ValidateClient(c)' <=> ValidateClient(c)
        /\ ValidateCRLForCA' <=> ValidateCRLForCA
        /\ ValidateRevocationStatus(c)' <=> ValidateRevocationStatus(c)
        /\ Rendered(c)' = Rendered(c)
    BY <1>1 DEF ValidateClient, ValidateCRLForCA, ValidateRevocationStatus, Rendered, Profile
  <2> DEFINE cert == <<"client-cert", c>>
             pair == {cert, <<"client-key", c>>}
             wrong == {g \in pair \cup {<<"profile", c>>, <<"ccd", c>>} : Registered(g) /\ ~Matching(g)}
             missing == {g \in pair : ~Registered(g)}
  <2>3. wrong' = wrong /\ missing' = missing
    BY <2>1
  <2>4. {ArtifactIssue(f) : f \in wrong}' = {ArtifactIssue(f) : f \in wrong}
    BY <2>3 DEF ArtifactIssue
  <2>5. {IF ValidateClient(c) THEN RegisterIssue(f) ELSE ArtifactIssue(f) : f \in missing}'
          = {IF ValidateClient(c) THEN RegisterIssue(f) ELSE ArtifactIssue(f) : f \in missing}
    BY <2>2, <2>3 DEF ArtifactIssue, RegisterIssue
  <2> DEFINE parts ==
               Found(~ValidateClient(c), Issue("recoverable", "RECOVER_CLIENT_IDENTITY", c, ""))
                 \cup Found(ValidateClient(c) /\ ValidateCRLForCA /\ ~ValidateRevocationStatus(c),
                            Issue("critical", "RESTORE_BACKUP", c, ""))
                 \cup {ArtifactIssue(f) : f \in wrong}
                 \cup {IF ValidateClient(c) THEN RegisterIssue(f) ELSE ArtifactIssue(f) : f \in missing}
                 \cup Found(~Registered(<<"profile", c>>), ArtifactIssue(<<"profile", c>>))
                 \cup Found(ValidateClient(c) /\ Registered(cert) /\ ~Matching(cert),
                            Issue("critical", "RESTORE_BACKUP", c, ""))
                 \cup Found(ValidateClient(c) /\ Readable(<<"tls-crypt", "instance">>)
                              /\ content[<<"profile", c>>] # Rendered(c), RefreshIssue(c))
                 \cup Found(content[<<"ccd", c>>] # Original(<<"ccd", c>>), RefreshIssue(c))
  <2>6. scanClient(c) = parts /\ scanClient(c)' = parts'
    BY DEF scanClient
  <2>7. parts' = parts
    <3> HIDE DEF wrong, missing
    <3> QED
      BY <2>1, <2>2, <2>4, <2>5
  <2> HIDE DEF parts
  <2> QED
    BY <2>6, <2>7
<1>7. Scan' = Scan
  BY <1>2, <1>3, <1>5, <1>6 DEF Scan
<1>8. \A t, o : RecoveryReady(t, o)' <=> RecoveryReady(t, o)
  BY DEF RecoveryReady, CaEvidence, TlsEvidence, Evidence, Matching, PairIn, TlsIn
<1>9. Blockers' = Blockers
  BY <1>7, <1>8 DEF Blockers
<1> QED
  BY <1>7, <1>9 DEF PlannedActions, ActionOf

\* So do the reasons for what blocks.
LEMMA ReasonsKept ==
    ASSUME UNCHANGED <<content, meta, plan, lost, swapped>>, NEW i
    PROVE  /\ AuthorityUncovered(i)' <=> AuthorityUncovered(i)
           /\ RevocationUncovered(i)' <=> RevocationUncovered(i)
           /\ PairUncovered(i)' <=> PairUncovered(i)
  BY DEF AuthorityUncovered, RevocationUncovered, PairUncovered, Plans, Doubted, Matching

\* What was left is still explained when none of that changes.
LEMMA LeftKept ==
    ASSUME UNCHANGED <<content, meta, op, plan, lost, swapped>>,
           \A i \in Blockers : \/ i.action = "RECOVER_OPERATION"
                               \/ AuthorityUncovered(i) \/ RevocationUncovered(i) \/ PairUncovered(i)
    PROVE  LeftInv'
  BY ScanKept, ReasonsKept DEF LeftInv

\* So is what a finished apply has left.
LEMMA ConvergesKept ==
    ASSUME UNCHANGED <<content, meta, op, plan, lost, swapped>>,
           \A i \in Blockers : RevocationUncovered(i),
           \A a \in PlannedActions :
             /\ a.type = "REFRESH_CLIENT_ARTIFACTS"
             /\ Doubted(Sources(<<"profile", a.owner>>))
             /\ Plans("RECOVER_TLS_CRYPT", "instance") \/ Plans("RECOVER_CLIENT_IDENTITY", a.owner)
    PROVE  RepairConverges'
<1>1. \A f : Doubted(Sources(f))' <=> Doubted(Sources(f))
  BY DEF Doubted, Sources
<1>2. \A t, o : Plans(t, o)' <=> Plans(t, o)
  BY DEF Plans
<1> QED
  BY <1>1, <1>2, ScanKept, ReasonsKept DEF RepairConverges

\* A plan stays covered when nothing of the repair changes.
LEMMA CoveredKept ==
    ASSUME UNCHANGED <<content, meta, plan, todo>>
    PROVE  Covered => Covered'
  BY DEF Covered, RowsCovered, FilesCovered, AuthorityInv, EvidenceInv, ClientsSeen, Registered,
     Matching, Of, StoredCA, ValidateCA, ValidateCAKeyPair, ValidateServer, ValidateCRLForCA,
     ValidateTLSCryptKey, ValidateClient, ValidateRevocationStatus, Rendered, Profile, Original, HasCcd,
     CaEvidence, TlsEvidence, Evidence, PairIn, TlsIn, RecoveryOf, Registration

\* A step that leaves the repair alone.
LEMMA ProgressKept ==
    ASSUME ProgressInv, UNCHANGED repair
    PROVE  ProgressInv'
<1>1. UNCHANGED <<content, meta, op, phase, plan, todo, touched, lost, swapped, result>>
  BY DEF repair
<1>2. DigestInv'
  BY <1>1 DEF ProgressInv, DigestInv
<1>3. OpenInv'
  <2>1. ASSUME NEW a PROVE Writes(a)' = Writes(a) /\ (Accepted(a)' <=> Accepted(a))
    BY <1>1 DEF Writes, Only, RefreshedServer, RefreshedClient, Recovered, Rendered, Profile, Original,
       HasCcd, TlsEvidence, Evidence, Matching, PairIn, TlsIn, Of, Accepted, RecoveryReady, CaEvidence,
       RefreshCRLAccepted, RefreshClientAccepted, Verified, StoredCA, ValidateCA, ValidateCAKeyPair,
       ValidateServer, ValidateCRLForCA, ValidateTLSCryptKey, ValidateClient
  <2>2. PICK a : a = op.action
    OBVIOUS
  <2>3. phase = "install" => a \in First(todo) /\ Accepted(a) /\ op.writes = Writes(a)
    BY <2>2 DEF ProgressInv, OpenInv
  <2>4. op'.action = a /\ op'.writes = op.writes /\ phase' = phase /\ First(todo)' = First(todo)
    BY <1>1, <2>2 DEF First
  <2> QED
    BY <2>1, <2>3, <2>4 DEF OpenInv
<1>4. ApplyInv'
  BY <1>1, CoveredKept DEF ProgressInv, ApplyInv, Applying
<1>5. LeftInv'
  <2>1. CASE ~touched /\ op # NoOperation /\ phase \in {"idle", "recover"}
    BY <1>1, <2>1, LeftKept DEF ProgressInv, LeftInv
  <2>2. CASE ~(~touched /\ op # NoOperation /\ phase \in {"idle", "recover"})
    BY <1>1, <2>2 DEF LeftInv
  <2> QED
    BY <2>1, <2>2
<1>6. EndedInv'
  BY <1>1 DEF ProgressInv, EndedInv
<1>7. RepairConverges'
  <2>1. CASE result = "applied" /\ ~touched
    BY <1>1, <2>1, ConvergesKept DEF ProgressInv, RepairConverges
  <2>2. CASE ~(result = "applied" /\ ~touched)
    BY <1>1, <2>2 DEF RepairConverges
  <2> QED
    BY <2>1, <2>2
<1> QED
  BY <1>2, <1>3, <1>4, <1>5, <1>6, <1>7 DEF ProgressInv

\* A step after which no plan is applied and no operation is open.
LEMMA ProgressRests ==
    ASSUME ProgressInv, UNCHANGED meta, phase' \in {"idle", "recover", "replan"},
           op' = NoOperation, result' # "applied"
    PROVE  ProgressInv'
  BY DEF ProgressInv, DigestInv, OpenInv, ApplyInv, Applying, LeftInv, EndedInv, RepairConverges

-----------------------------------------------------------------------------
(* Repair, step by step                                                    *)

\* The first plan changes nothing but the phase.
LEMMA StartProgress ==
    ASSUME ProgressInv, RepairStart
    PROVE  ProgressInv'
<1>1. /\ phase = "idle" /\ phase' \in {"idle", "recover"} /\ result' # "applied"
      /\ UNCHANGED <<content, meta, op, plan, touched, lost, swapped>>
  BY DEF RepairStart, End
<1>2. LeftInv'
  <2>1. CASE ~touched /\ op # NoOperation
    BY <1>1, <2>1, LeftKept DEF ProgressInv, LeftInv
  <2>2. CASE ~(~touched /\ op # NoOperation)
    BY <1>1, <2>2 DEF LeftInv
  <2> QED
    BY <2>1, <2>2
<1> QED
  BY <1>1, <1>2 DEF ProgressInv, DigestInv, OpenInv, ApplyInv, Applying, EndedInv, RepairConverges

\* The open operation is rolled back.
LEMMA RecoverProgress ==
    ASSUME ProgressInv, RepairRecover
    PROVE  ProgressInv'
  BY ProgressRests DEF ProgressInv, EndedInv, RepairRecover, RollBack

\* A failed action is rolled back.
LEMMA FailsProgress ==
    ASSUME ProgressInv, RepairFails
    PROVE  ProgressInv'
  BY ProgressRests DEF RepairFails, RollBack, End

\* The plan that is applied covers what the scan reports.
LEMMA ReplanProgress ==
    ASSUME Damaged, ProgressInv, RepairReplan
    PROVE  ProgressInv'
<1>1. /\ phase = "replan" /\ op = NoOperation /\ op' = NoOperation /\ UNCHANGED meta
      /\ result # "applied" /\ result' \in {result, "refused"} /\ phase' \in {"idle", "apply"}
  BY DEF RepairReplan, End, Damaged, RepairShape, ProgressInv, EndedInv
<1>2. ApplyInv'
  BY ApplyReplan DEF ProgressInv
<1> QED
  BY <1>1, <1>2 DEF ProgressInv, DigestInv, OpenInv, LeftInv, EndedInv, RepairConverges

\* The next action is opened, or refuses.
LEMMA BeginProgress ==
    ASSUME Damaged, ProgressInv, RepairBegin
    PROVE  ProgressInv'
<1>1. /\ phase = "apply" /\ op = NoOperation /\ UNCHANGED meta
      /\ result # "applied" /\ result' \in {result, "error"}
      /\ phase' = "install" \/ (phase' = "idle" /\ op' = NoOperation)
  BY DEF RepairBegin, End, Damaged, RepairShape, ProgressInv, EndedInv
<1>2. OpenInv' /\ ApplyInv'
  BY OpenBegin DEF ProgressInv
<1> QED
  BY <1>1, <1>2 DEF ProgressInv, DigestInv, LeftInv, EndedInv, RepairConverges

\* A file of the open operation is installed.
LEMMA InstallProgress ==
    ASSUME Damaged, ProgressInv, RepairInstall
    PROVE  ProgressInv'
<1>1. phase = "install" /\ UNCHANGED <<meta, phase, result>> /\ result # "applied"
  BY DEF RepairInstall, ProgressInv, EndedInv
<1>2. OpenInv' /\ ApplyInv'
  BY OpenInstall, ApplyInstall DEF ProgressInv
<1> QED
  BY <1>1, <1>2 DEF ProgressInv, DigestInv, LeftInv, EndedInv, RepairConverges

\* The operation commits.
LEMMA CommitProgress ==
    ASSUME Damaged, ProgressInv, RepairCommit
    PROVE  ProgressInv'
<1>1. phase = "install" /\ phase' = "apply" /\ result' = result /\ result # "applied"
  BY DEF RepairCommit, ProgressInv, EndedInv
<1>2. DigestInv' /\ ApplyInv'
  BY DigestCommit, ApplyCommit DEF ProgressInv
<1> QED
  BY <1>1, <1>2 DEF ProgressInv, OpenInv, LeftInv, EndedInv, RepairConverges

\* No action is left.
LEMMA DoneProgress ==
    ASSUME Damaged, ProgressInv, RepairDone
    PROVE  ProgressInv'
<1>1. /\ phase = "apply" /\ todo = {} /\ op = NoOperation /\ phase' = "idle" /\ op' = NoOperation
      /\ UNCHANGED <<content, meta, op, plan, touched, lost, swapped>>
  BY DEF RepairDone, End, Damaged, RepairShape
<1>2. RepairConverges'
  <2>1. CASE touched
    BY <1>1, <2>1 DEF RepairConverges
  <2>2. CASE ~touched
    <3>1. Covered /\ DigestInv
      BY <1>1, <2>2 DEF ProgressInv, ApplyInv, Applying
    <3> QED
      BY <1>1, <3>1, ConvergesDone, ConvergesKept
  <2> QED
    BY <2>1, <2>2
<1> QED
  BY <1>1, <1>2 DEF ProgressInv, DigestInv, OpenInv, ApplyInv, Applying, LeftInv, EndedInv

\* The apply is killed; what it leaves blocks only as while it was applied.
LEMMA KilledProgress ==
    ASSUME Damaged, ProgressInv, RepairKilled
    PROVE  ProgressInv'
<1>1. /\ phase # "idle" /\ phase' = "idle" /\ result' = result /\ result # "applied"
      /\ UNCHANGED <<content, meta, op, plan, touched, lost, swapped>>
  BY DEF RepairKilled, ProgressInv, EndedInv
<1>2. LeftInv'
  <2>1. CASE touched \/ op = NoOperation
    BY <1>1, <2>1 DEF LeftInv
  <2>2. CASE ~touched /\ op # NoOperation
    <3>1. phase \in {"recover", "install"}
      BY <1>1, <2>2 DEF Damaged, RepairShape, RepairTypeOK
    <3>2. CASE phase = "recover"
      BY <1>1, <2>2, <3>2, LeftKept DEF ProgressInv, LeftInv
    <3>3. CASE phase = "install"
      <4>1. Covered /\ DigestInv
        BY <2>2, <3>3 DEF ProgressInv, ApplyInv, Applying
      <4> QED
        BY <1>1, <4>1, ResumableApplying, LeftKept
    <3> QED
      BY <3>1, <3>2, <3>3
  <2> QED
    BY <2>1, <2>2
<1> QED
  BY <1>1, <1>2 DEF ProgressInv, DigestInv, OpenInv, ApplyInv, Applying, EndedInv, RepairConverges

\* After an accident nothing is promised of the plan.
LEMMA DamagedProgress ==
    ASSUME Damaged, ProgressInv, \/ \E f \in Files : FileDamaged(f)
                                 \/ \E f \in Recorded : MetadataLost(f)
    PROVE  ProgressInv'
<1>1. /\ op = NoOperation /\ touched' = TRUE /\ UNCHANGED <<op, phase, result>>
      /\ phase # "install"
  BY DEF FileDamaged, MetadataLost, Accident, Damaged, RepairShape
<1>2. \A f \in Recorded : meta'[f] \in {meta[f], NoMetadata}
  BY DEF FileDamaged, MetadataLost, Damaged, RepairShape
<1>3. DigestInv'
  <2>1. \A k \in InstanceKinds : meta'[<<k, "instance">>] \in {meta[<<k, "instance">>], NoMetadata}
    BY <1>2, RecordedAre
  <2> QED
    BY <2>1 DEF ProgressInv, DigestInv, InstanceKinds
<1> QED
  BY <1>1, <1>3 DEF ProgressInv, OpenInv, ApplyInv, Applying, LeftInv, EndedInv, RepairConverges

\* `server run` rolls back what an interrupted repair left.
LEMMA RunRecoverProgress ==
    ASSUME Damaged, ProgressInv, RunRecover
    PROVE  ProgressInv'
<1>1. /\ holder = "none" /\ RollBack
      /\ UNCHANGED <<meta, phase, plan, todo, damage, touched, lost, swapped, result>>
  BY DEF RunRecover, ServerRecover
<1>2. CASE op = NoOperation
  BY <1>1, <1>2, ProgressKept DEF RollBack, repair
<1>3. CASE op # NoOperation
  <2>1. phase \in {"idle", "recover"} /\ result # "applied"
    BY <1>1, <1>3 DEF Damaged, RepairShape, RepairTypeOK, ProgressInv, EndedInv
  <2> QED
    BY <1>1, <2>1, ProgressRests DEF RollBack
<1> QED
  BY <1>2, <1>3

\* No step of any process breaks the invariant.
LEMMA NextProgress == Inv /\ ProgressInv /\ [Next]_vars => ProgressInv'
<1> SUFFICES ASSUME Damaged, ProgressInv, [Next]_vars PROVE ProgressInv'
  BY InvParts
<1>1. CASE RunRecover
  BY <1>1, RunRecoverProgress
<1>2. CASE RepairNext
  BY <1>2, StartProgress, RecoverProgress, ReplanProgress, BeginProgress, InstallProgress,
     CommitProgress, DoneProgress, FailsProgress, KilledProgress, DamagedProgress DEF RepairNext
<1>3. CASE UNCHANGED repair
  BY <1>3, ProgressKept
<1> QED
  BY <1>1, <1>2, <1>3 DEF Next, RunLoad, vars

\* A root on which no repair was run satisfies all of it.
LEMMA InitProgress == Init => ProgressInv
<1> SUFFICES ASSUME RepairInit PROVE ProgressInv
  BY DEF Init
<1>1. DigestInv
  <2>1. \A k \in InstanceKinds : meta[<<k, "instance">>] = "genuine"
    <3>1. \A k \in InstanceKinds : <<k, "instance">> \in Recorded /\ Original(<<k, "instance">>) = "genuine"
      BY RecordedAre DEF Original, InstanceKinds
    <3> QED
      BY <3>1 DEF RepairInit, Digest
  <2> QED
    BY <2>1 DEF DigestInv, InstanceKinds
<1> QED
  BY <1>1 DEF RepairInit, ProgressInv, OpenInv, ApplyInv, Applying, LeftInv, EndedInv, RepairConverges

-----------------------------------------------------------------------------
(* What it shows                                                           *)

\* A plan that is applied covers every deviation, to its last action, however
\* often it is interrupted and whatever accidents came before it.
THEOREM Progress == Spec => [](Inv /\ ProgressInv)
<1>1. Init => Inv /\ ProgressInv
  BY InitInv, InitProgress
<1>2. Inv /\ ProgressInv /\ [Next]_vars => (Inv /\ ProgressInv)'
  BY NextInv, NextProgress
<1> QED
  BY <1>1, <1>2, PTL DEF Spec

\* An apply that ends leaves nothing to repair and nothing that blocks, but
\* for what the scan could not see (repair.BuildPlan, Service.Apply).
THEOREM RepairEnds == Spec => []RepairConverges
<1>1. ProgressInv => RepairConverges
  BY DEF ProgressInv
<1> QED
  BY <1>1, Progress, PTL

\* An applicable plan stops at an action that refuses only when it recovers
\* the CA certificate (Service.Apply, the order of BuildPlan).
THEOREM RepairStops == Spec => []RepairErrorsExplained
<1>1. Inv /\ ProgressInv => RepairErrorsExplained
  <2> SUFFICES ASSUME Inv, ProgressInv, phase = "apply", ~touched, NEW a \in First(todo)
               PROVE  \/ Accepted(a)
                      \/ a.type = "REBUILD_CRL" /\ "RECOVER_CA_CERT" \in {b.type : b \in todo}
                      \/ /\ a.type = "REGISTER_VERIFIED_ARTIFACT" /\ <<a.kind, a.owner>> \in lost
                         /\ a.kind \in {"ca-key", "server-cert", "server-key", "crl"}
                         /\ Plans("RECOVER_CA_CERT", "instance")
    BY DEF RepairErrorsExplained
  <2>1. Damaged /\ Covered
    BY InvParts DEF ProgressInv, ApplyInv, Applying
  <2> QED
    BY <2>1, ErrorsApplying
<1> QED
  BY <1>1, Progress, PTL

\* Whatever an interrupted apply left, the next one is not refused but for
\* what a recovery has uncovered (runRepairApply, repairPreflight).
THEOREM RepairResumes == Spec => []RepairResumable
<1>1. Inv /\ ProgressInv => RepairResumable
  <2> SUFFICES ASSUME Inv, ProgressInv, ~touched, phase = "apply" \/ op # NoOperation,
                      NEW i \in Blockers
               PROVE  \/ i.action = "RECOVER_OPERATION"
                      \/ AuthorityUncovered(i) \/ RevocationUncovered(i) \/ PairUncovered(i)
    BY DEF RepairResumable
  <2>1. Damaged
    BY InvParts
  <2>2. CASE phase \in {"apply", "install"}
    <3>1. Covered /\ DigestInv
      BY <2>2 DEF ProgressInv, ApplyInv, Applying
    <3> QED
      BY <2>1, <3>1, ResumableApplying
  <2>3. CASE phase \notin {"apply", "install"}
    <3>1. phase \in {"idle", "recover"} /\ op # NoOperation
      BY <2>1, <2>3 DEF Damaged, RepairShape, RepairTypeOK
    <3> QED
      BY <3>1 DEF ProgressInv, LeftInv
  <2> QED
    BY <2>2, <2>3
<1> QED
  BY <1>1, Progress, PTL
==============================================================================
