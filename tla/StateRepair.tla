----------------------------- MODULE StateRepair -----------------------------
(***************************************************************************)
(* The state scan (state/state.go), the repair plan and its application    *)
(* (repair/repair.go, cli/repair.go) with the services it calls            *)
(* (derived/service.go, recovery/recovery.go), on an instance whose files  *)
(* and metadata rows get damaged.                                          *)
(*                                                                         *)
(* A file is <<kind, owner>>.  Its content is absent, bad (it does not     *)
(* parse or verify), genuine (what the instance wrote) or foreign: valid,  *)
(* but another CA, key or tls-crypt key, an earlier certificate of the     *)
(* client or an earlier CRL.  A profile embeds a client's certificate pair *)
(* and the tls-crypt key: it is foreign with an earlier pair, rekeyed with *)
(* another tls-crypt key.  Metadata holds the digest of a content.         *)
(***************************************************************************)
EXTENDS DataDirectory

CONSTANTS
    Owners,     \* the clients that are not deleted
    Revoked,    \* those with status revoked
    Static,     \* those with a static assignment
    MaxDamage   \* bound on the accidents that befall files and metadata

ASSUME OwnersAssumption ==
    /\ Revoked \subseteq Owners /\ Static \subseteq Owners
    /\ "instance" \notin Owners
    /\ MaxDamage \in Nat

VARIABLES
    content,   \* what each file holds
    meta,      \* the digest of each active metadata row
    op,        \* the repair's open journal operation
    phase,     \* where `ovpn repair apply` is
    plan,      \* the actions of the last plan that was applied, until an accident
    todo,      \* the actions it has left
    damage,    \* accidents so far
    touched,   \* an accident happened since the plan that is applied
    lost,      \* files whose metadata row was lost
    swapped,   \* files an accident hit while a plan was applied
    result     \* what the last apply answered

repair == <<content, meta, op, phase, plan, todo, damage, touched, lost, swapped, result>>

InstanceKinds == {"ca-cert", "ca-key", "server-cert", "server-key", "crl", "tls-crypt",
                  "server-config"}
ClientKinds   == {"client-cert", "client-key", "profile", "ccd"}
Unregistered  == {<<"signing", "instance">>, <<"yaml", "instance">>}
Recorded      == (InstanceKinds \X {"instance"}) \cup (ClientKinds \X Owners)
Files         == Recorded \cup Unregistered

Of(k)       == content[<<k, "instance">>]
Profiles    == {"genuine", "foreign", "rekeyed", "foreign-rekeyed"}
Values      == {"absent", "bad"} \cup Profiles
NoMetadata  == "none"
NoOperation == [writes |-> <<>>, left |-> {}]

\* A CCD belongs to an active client with a static assignment.
HasCcd(c) == c \notin Revoked /\ c \in Static

\* The content the instance gave a file.
Original(f) == IF f[1] = "ccd" /\ ~HasCcd(f[2]) THEN "absent" ELSE "genuine"

\* The profile with a certificate pair and a tls-crypt key, and its parts.
Profile(pair, tls) ==
    CASE tls = "genuine"                       -> pair
      [] tls = "foreign" /\ pair = "genuine"   -> "rekeyed"
      [] tls = "foreign" /\ pair = "foreign"   -> "foreign-rekeyed"
      [] OTHER                                 -> "unusable"

PairIn(profile) == IF profile \in {"genuine", "rekeyed"} THEN "genuine" ELSE "foreign"
TlsIn(profile)  == IF profile \in {"genuine", "foreign"} THEN "genuine" ELSE "foreign"

Readable(f)   == content[f] # "absent"
Matching(f)   == content[f] = meta[f]
Registered(f) == meta[f] # NoMetadata

-----------------------------------------------------------------------------
(* The validators of pki/crypto.go                                         *)

ValidateCA           == Of("ca-cert") \in {"genuine", "foreign"}
ValidateCAKeyPair    == ValidateCA /\ Of("ca-key") = Of("ca-cert")
ValidateServer       == Of("ca-cert") = "genuine"
                          /\ Of("server-cert") = "genuine" /\ Of("server-key") = "genuine"
ValidateCRLForCA     == Of("ca-cert") = "genuine" /\ Of("crl") \in {"genuine", "foreign"}
ValidateTLSCryptKey  == Of("tls-crypt") \in {"genuine", "foreign"}

\* Certificate and key of one issue, under the CA.
ValidateClient(c) ==
    /\ Of("ca-cert") = "genuine"
    /\ content[<<"client-cert", c>>] = content[<<"client-key", c>>]
    /\ content[<<"client-cert", c>>] \in {"genuine", "foreign"}

\* An earlier CRL lacks the last revocations; an earlier certificate is on
\* the genuine one.
ValidateRevocationStatus(c) ==
    LET listed == Of("crl") = "genuine"
                    /\ (c \in Revoked \/ content[<<"client-cert", c>>] = "foreign")
    IN  listed = (c \in Revoked)

\* ca.Fingerprint is compared with the one of the instance row.
StoredCA == ValidateCA /\ Of("ca-cert") = "genuine"

-----------------------------------------------------------------------------
(* The state scan                                                          *)

Issue(severity, action, owner, kind) ==
    [severity |-> severity, action |-> action, owner |-> owner, kind |-> kind]
Found(condition, issue) == IF condition THEN {issue} ELSE {}

severityForArtifact(kind) ==
    CASE kind = "ca-key"                         -> "fatal"
      [] kind \in {"server-cert", "server-key"}  -> "reissuable"
      [] kind \in {"ca-cert", "tls-crypt", "client-cert", "client-key"} -> "recoverable"
      [] OTHER                                   -> "repairable"

actionForArtifact(kind) ==
    CASE kind = "ca-key"                         -> "RESTORE_CA_PRIVATE_KEY"
      [] kind \in {"server-cert", "server-key"}  -> "REISSUE_SERVER"
      [] kind = "ca-cert"                        -> "RECOVER_CA_CERT"
      [] kind = "tls-crypt"                      -> "RECOVER_TLS_CRYPT"
      [] kind \in {"client-cert", "client-key"}  -> "RECOVER_CLIENT_IDENTITY"
      [] kind = "crl"                            -> "REBUILD_CRL"
      [] kind = "server-config"                  -> "REFRESH_SERVER_ARTIFACTS"
      [] OTHER                                   -> "REFRESH_CLIENT_ARTIFACTS"

ArtifactIssue(f) == Issue(severityForArtifact(f[1]), actionForArtifact(f[1]), f[2], "")
RegisterIssue(f) == Issue("repairable", "REGISTER_VERIFIED_ARTIFACT", f[2], f[1])
RefreshIssue(c)  == Issue("repairable", "REFRESH_CLIENT_ARTIFACTS", c, "")

scanConfig ==
    Found(Of("yaml") \in {"absent", "bad"}, Issue("repairable", "EXPORT_CONFIG", "instance", ""))
      \cup Found(Of("yaml") = "foreign", Issue("repairable", "REVIEW_CONFIG_PLAN", "instance", ""))

scanAuthority ==
    Found(~ValidateCA, Issue("recoverable", "RECOVER_CA_CERT", "instance", ""))
      \cup Found(ValidateCA /\ ~StoredCA, Issue("critical", "RESTORE_BACKUP", "instance", ""))
      \cup Found(Of("ca-key") = "absent",
                 Issue("fatal", "RESTORE_CA_PRIVATE_KEY", "instance", ""))
      \cup Found(Of("ca-key") # "absent" /\ StoredCA /\ ~ValidateCAKeyPair,
                 Issue("critical", "RESTORE_BACKUP", "instance", ""))
      \cup Found(StoredCA /\ ~ValidateServer,
                 Issue("reissuable", "REISSUE_SERVER", "instance", ""))
      \cup Found(StoredCA /\ ~ValidateCRLForCA,
                 Issue("repairable", "REBUILD_CRL", "instance", ""))
      \cup Found(~ValidateTLSCryptKey, Issue("recoverable", "RECOVER_TLS_CRYPT", "instance", ""))
      \cup Found(Of("signing") = "absent", Issue("critical", "RESTORE_BACKUP", "instance", ""))

\* What verifiableArtifact and scanArtifactSet make of one file.
ArtifactIssues(f) ==
    IF Registered(f)
    THEN Found(~Matching(f), ArtifactIssue(f))
    ELSE {IF Readable(f) /\ f[1] # "server-config" THEN RegisterIssue(f) ELSE ArtifactIssue(f)}

scanArtifactSet == UNION {ArtifactIssues(<<k, "instance">>) : k \in InstanceKinds}

\* compareDerived on server.conf.
ServerDrift ==
    Found(Of("server-config") # "genuine",
          Issue("repairable", "REFRESH_SERVER_ARTIFACTS", "instance", ""))

\* The profile the renderer makes of the files.
Rendered(c) == Profile(content[<<"client-cert", c>>], Of("tls-crypt"))

scanClient(c) ==
    LET cert == <<"client-cert", c>>
        pair == {cert, <<"client-key", c>>}
        prof == <<"profile", c>>
        ccd  == <<"ccd", c>>
        valid == ValidateClient(c)
    IN  Found(~valid, Issue("recoverable", "RECOVER_CLIENT_IDENTITY", c, ""))
          \cup Found(valid /\ ValidateCRLForCA /\ ~ValidateRevocationStatus(c),
                     Issue("critical", "RESTORE_BACKUP", c, ""))
          \cup {ArtifactIssue(f) : f \in {g \in pair \cup {prof, ccd} :
                                            Registered(g) /\ ~Matching(g)}}
          \cup {IF valid THEN RegisterIssue(f) ELSE ArtifactIssue(f) :
                  f \in {g \in pair : ~Registered(g)}}
          \cup Found(~Registered(prof), ArtifactIssue(prof))
          \cup Found(valid /\ Registered(cert) /\ ~Matching(cert),
                     Issue("critical", "RESTORE_BACKUP", c, ""))
          \cup Found(valid /\ Readable(<<"tls-crypt", "instance">>)
                       /\ content[prof] # Rendered(c), RefreshIssue(c))
          \cup Found(content[ccd] # Original(ccd), RefreshIssue(c))

\* A pending operation of the journal.
scanOperations ==
    Found(op # NoOperation, Issue("critical", "RECOVER_OPERATION", "instance", ""))

Scan == scanOperations \cup scanConfig \cup scanAuthority \cup scanArtifactSet
          \cup ServerDrift \cup UNION {scanClient(c) : c \in Owners}

-----------------------------------------------------------------------------
(* Recovery evidence and the plan                                          *)

\* (Variant: a profile is believed although its metadata is not its own.)
EvidenceUnchecked(c) ==
    content[<<"profile", c>>] \in Profiles /\ Registered(<<"profile", c>>)

\* collect: a profile whose digest is recorded, and whose certificate and
\* key match their metadata where they have any.  A profile's CA is genuine.
Evidence(c) ==
    LET p == <<"profile", c>>
    IN  /\ content[p] \in Profiles /\ Matching(p)
        /\ \A k \in {"client-cert", "client-key"} : meta[<<k, c>>] \in {NoMetadata, PairIn(content[p])}

\* consensus: the tls-crypt keys of the evidence that match the metadata;
\* two different ones are no consensus.
TlsEvidence ==
    LET keys == {TlsIn(content[<<"profile", c>>]) : c \in {d \in Owners : Evidence(d)}}
        m    == meta[<<"tls-crypt", "instance">>]
    IN  {k \in keys : m \in {NoMetadata, k}}

CaEvidence ==
    (\E c \in Owners : Evidence(c)) /\ meta[<<"ca-cert", "instance">>] \in {NoMetadata, "genuine"}

\* Assess
RecoveryReady(action, owner) ==
    CASE action = "RECOVER_CA_CERT"         -> CaEvidence
      [] action = "RECOVER_TLS_CRYPT"       -> Cardinality(TlsEvidence) = 1
      [] action = "RECOVER_CLIENT_IDENTITY" -> Evidence(owner)
      [] OTHER -> FALSE

\* (Variant: refreshing comes first.)
OrderRefreshFirst ==
    <<"REFRESH_CLIENT_ARTIFACTS", "REFRESH_SERVER_ARTIFACTS", "REBUILD_CRL", "RECOVER_CA_CERT",
      "RECOVER_CLIENT_IDENTITY", "RECOVER_TLS_CRYPT", "REGISTER_VERIFIED_ARTIFACT">>

\* automatic, in the order in which a plan is sorted.
Order == <<"REBUILD_CRL", "RECOVER_CA_CERT", "RECOVER_CLIENT_IDENTITY", "RECOVER_TLS_CRYPT",
           "REFRESH_CLIENT_ARTIFACTS", "REFRESH_SERVER_ARTIFACTS", "REGISTER_VERIFIED_ARTIFACT">>
Automatic == {Order[i] : i \in DOMAIN Order}

Blockers ==
    {i \in Scan : /\ i.severity # "repairable"
                  /\ ~(i.severity = "recoverable" /\ RecoveryReady(i.action, i.owner))}

\* Actions are told apart by type, canonical owner and kind.
ActionOf(i) == [type |-> i.action, owner |-> i.owner, kind |-> i.kind]

\* (Variant: deferred issues are planned too.)
PlannedActionsAll == {ActionOf(i) : i \in Scan \ Blockers}

\* BuildPlan drops the registration of client files that a refresh or a
\* recovery of the client records anyway.
PlannedActions ==
    LET all == {ActionOf(i) : i \in {j \in Scan \ Blockers : j.action \in Automatic}}
        converging == {a.owner : a \in {b \in all : b.type \in {"REFRESH_CLIENT_ARTIFACTS",
                                                                "RECOVER_CLIENT_IDENTITY"}}}
    IN  {a \in all : ~(/\ a.type = "REGISTER_VERIFIED_ARTIFACT"
                       /\ a.kind \in ClientKinds /\ a.owner \in converging)}

\* The first action of a plan; owners are random UUIDs.
Rank(type) == CHOOSE i \in DOMAIN Order : Order[i] = type
First(actions) == {a \in actions : \A b \in actions : Rank(a.type) <= Rank(b.type)}

-----------------------------------------------------------------------------
(* One action: what it checks, writes and records                          *)

\* RegisterVerifiedArtifact's checks of a file without metadata.
Verified(kind, owner) ==
    CASE kind = "ca-cert"                        -> StoredCA
      [] kind = "ca-key"                         -> StoredCA /\ ValidateCAKeyPair
      [] kind \in {"server-cert", "server-key"}  -> StoredCA /\ ValidateServer
      [] kind = "crl"                            -> StoredCA /\ ValidateCRLForCA
      [] kind = "tls-crypt"                      -> ValidateTLSCryptKey
      [] kind \in {"client-cert", "client-key"}  -> StoredCA /\ ValidateClient(owner)

\* The checks RefreshCRL and RefreshClient make under the data lock.
RefreshCRLAccepted == StoredCA /\ ValidateCAKeyPair

RefreshClientAccepted(c) == StoredCA /\ ValidateClient(c) /\ ValidateTLSCryptKey

\* Every service checks again what it needs.
Accepted(a) ==
    CASE a.type = "REBUILD_CRL"                -> RefreshCRLAccepted
      [] a.type = "REFRESH_SERVER_ARTIFACTS"   -> TRUE
      [] a.type = "REFRESH_CLIENT_ARTIFACTS"   -> RefreshClientAccepted(a.owner)
      [] a.type = "REGISTER_VERIFIED_ARTIFACT" -> Verified(a.kind, a.owner)
      [] OTHER                                 -> RecoveryReady(a.type, a.owner)

\* The files RefreshServer and RefreshClient render.
Only(f, v)         == [g \in {f} |-> v]
RefreshedServer    == Only(<<"server-config", "instance">>, "genuine")
RefreshedClient(c) ==
    [f \in {"profile", "ccd"} \X {c} |-> IF f[1] = "profile" THEN Rendered(c) ELSE Original(f)]

\* The files Recover takes from the evidence.
Recovered(type, c) ==
    CASE type = "RECOVER_CA_CERT"         -> Only(<<"ca-cert", "instance">>, "genuine")
      [] type = "RECOVER_TLS_CRYPT"       ->
           Only(<<"tls-crypt", "instance">>, CHOOSE k \in TlsEvidence : TRUE)
      [] type = "RECOVER_CLIENT_IDENTITY" ->
           [f \in {"client-cert", "client-key"} \X {c} |-> PairIn(content[<<"profile", c>>])]

\* The contents the operation of an action installs.
Writes(a) ==
    CASE a.type = "REBUILD_CRL"                -> Only(<<"crl", "instance">>, "genuine")
      [] a.type = "REFRESH_SERVER_ARTIFACTS"   -> RefreshedServer
      [] a.type = "REFRESH_CLIENT_ARTIFACTS"   -> RefreshedClient(a.owner)
      [] a.type = "REGISTER_VERIFIED_ARTIFACT" -> [f \in {} |-> "absent"]
      [] OTHER                                 -> Recovered(a.type, a.owner)

\* (Variant: a refresh records only what it writes.)
RecordsWritten(a) == DOMAIN Writes(a)

\* The files whose digests are recorded: those written, those registered
\* and, in RefreshClient, the certificate and key it has validated.
Records(a) ==
    CASE a.type = "REGISTER_VERIFIED_ARTIFACT" -> {<<a.kind, a.owner>>}
      [] a.type = "REFRESH_CLIENT_ARTIFACTS"   ->
           DOMAIN Writes(a) \cup {<<"client-cert", a.owner>>, <<"client-key", a.owner>>}
      [] OTHER -> DOMAIN Writes(a)

Digest(v) == IF v = "absent" THEN NoMetadata ELSE v

-----------------------------------------------------------------------------
(* `ovpn repair apply`                                                     *)

RepairTypeOK ==
    /\ content \in [Files -> Values]
    /\ \A f \in Recorded : meta[f] \in {NoMetadata} \cup (Values \ {"absent"})
    /\ phase \in {"idle", "recover", "replan", "apply", "install"}
    /\ {a.type : a \in plan \cup todo} \subseteq Automatic
    /\ op # NoOperation => op.left \subseteq DOMAIN op.writes
    /\ damage \in 0..MaxDamage
    /\ touched \in BOOLEAN /\ lost \subseteq Recorded /\ swapped \subseteq Files
    /\ result \in {"none", "refused", "no-op", "applied", "error", "failed"}

RepairInit ==
    /\ content = [f \in Files |-> Original(f)]
    /\ meta = [f \in Recorded |-> Digest(Original(f))]
    /\ op = NoOperation /\ phase = "idle" /\ plan = {} /\ todo = {}
    /\ damage = 0 /\ touched = FALSE /\ lost = {} /\ swapped = {}
    /\ result = "none"

End(r) == phase' = "idle" /\ todo' = {} /\ result' = r

\* The plan that is shown; repairPreflight lets only interrupted operations
\* block it.
RepairStart ==
    /\ phase = "idle" /\ live["meta"] = "v4"
    /\ IF \E i \in Blockers : i.action # "RECOVER_OPERATION"
       THEN End("refused")
       ELSE IF PlannedActions = {} /\ Blockers = {}
            THEN End("no-op")
            ELSE phase' = "recover" /\ result' = "none" /\ UNCHANGED todo
    /\ UNCHANGED <<directory, content, meta, op, plan, damage, touched, lost, swapped>>

\* What RecoverOperations does with the open operation: the old contents
\* come back.
RollBack ==
    /\ content' = IF op = NoOperation THEN content
                  ELSE [f \in Files |-> IF f \in DOMAIN op.before THEN op.before[f] ELSE content[f]]
    /\ op' = NoOperation

RepairRecover ==
    /\ phase = "recover" /\ holder = "none"
    /\ RollBack
    /\ phase' = "replan"
    /\ UNCHANGED <<directory, meta, plan, todo, damage, touched, lost, swapped, result>>

\* The plan that is applied, made after the recovery.
RepairReplan ==
    /\ phase = "replan"
    /\ IF Blockers # {} THEN End("refused") /\ UNCHANGED <<plan, touched>>
       ELSE /\ plan' = PlannedActions /\ todo' = plan' /\ phase' = "apply"
            /\ touched' = FALSE /\ UNCHANGED result
    /\ UNCHANGED <<directory, content, meta, op, damage, lost, swapped>>

\* The next action takes the data lock, checks again, and prepares its
\* operation; an error ends the apply.
RepairBegin ==
    /\ phase = "apply" /\ holder = "none"
    /\ \E a \in First(todo) :
         IF Accepted(a)
         THEN /\ op' = [action |-> a, writes |-> Writes(a), left |-> DOMAIN Writes(a),
                        before |-> [f \in DOMAIN Writes(a) |-> content[f]]]
              /\ phase' = "install" /\ holder' = "repair"
              /\ UNCHANGED <<todo, result>>
         ELSE End("error") /\ UNCHANGED <<op, holder>>
    /\ UNCHANGED <<live, journal, server, manifest, work, crashes>>
    /\ UNCHANGED <<content, meta, plan, damage, touched, lost, swapped>>

RepairInstall ==
    /\ phase = "install" /\ holder = "repair"
    /\ \E f \in op.left :
         /\ content' = [content EXCEPT ![f] = op.writes[f]]
         /\ op' = [op EXCEPT !.left = @ \ {f}]
    /\ UNCHANGED <<directory, meta, phase, plan, todo, damage, touched, lost, swapped, result>>

\* CommitArtifactOperation records the digests, or deletes the row of a
\* file that is gone.
RepairCommit ==
    /\ phase = "install" /\ holder = "repair" /\ op.left = {}
    /\ meta' = [f \in Recorded |->
                  IF f \in Records(op.action) THEN Digest(content[f]) ELSE meta[f]]
    /\ todo' = todo \ {op.action}
    /\ op' = NoOperation /\ phase' = "apply" /\ holder' = "none"
    /\ UNCHANGED <<live, journal, server, manifest, work, crashes>>
    /\ UNCHANGED <<content, plan, damage, touched, lost, swapped, result>>

RepairDone ==
    /\ phase = "apply" /\ todo = {}
    /\ End("applied")
    /\ UNCHANGED <<directory, content, meta, op, plan, damage, touched, lost, swapped>>

\* A step of the operation fails and is rolled back at once.
RepairFails ==
    /\ phase = "install" /\ holder = "repair"
    /\ RollBack
    /\ End("failed") /\ holder' = "none"
    /\ UNCHANGED <<live, journal, server, manifest, work, crashes>>
    /\ UNCHANGED <<meta, plan, damage, touched, lost, swapped>>

\* The process is killed; an operation it had prepared stays pending.
RepairKilled ==
    /\ phase # "idle" /\ crashes < MaxCrashes
    /\ crashes' = crashes + 1
    /\ phase' = "idle" /\ todo' = {}
    /\ holder' = IF holder = "repair" THEN "none" ELSE holder
    /\ UNCHANGED <<live, journal, server, manifest, work>>
    /\ UNCHANGED <<content, meta, op, plan, damage, touched, lost, swapped, result>>

\* An accident: a file is lost, corrupted or replaced, or a metadata row is
\* lost.  Accidents to files of an open operation are OperationJournal's.
Accidents(f) ==
    CASE f[1] = "signing" -> {"absent"}
      [] f[1] \in {"server-config", "ccd", "server-cert", "server-key"} -> {"absent", "bad"}
      [] OTHER -> {"absent", "bad", "foreign"}

Accident ==
    /\ damage < MaxDamage /\ op = NoOperation /\ live["meta"] = "v4"
    /\ damage' = damage + 1
    /\ touched' = TRUE /\ plan' = {}

FileDamaged(f) ==
    /\ Accident
    /\ \E v \in Accidents(f) \ {content[f]} : content' = [content EXCEPT ![f] = v]
    /\ swapped' = IF phase = "apply" THEN swapped \cup {f} ELSE swapped
    /\ UNCHANGED <<directory, meta, op, phase, todo, lost, result>>

MetadataLost(f) ==
    /\ Accident
    /\ Registered(f)
    /\ meta' = [meta EXCEPT ![f] = NoMetadata]
    /\ lost' = lost \cup {f}
    /\ UNCHANGED <<directory, content, op, phase, todo, swapped, result>>

RepairNext ==
    \/ RepairStart \/ RepairRecover \/ RepairReplan \/ RepairBegin \/ RepairInstall
    \/ RepairCommit \/ RepairDone \/ RepairFails \/ RepairKilled
    \/ \E f \in Files : FileDamaged(f)
    \/ \E f \in Recorded : MetadataLost(f)

-----------------------------------------------------------------------------
(* Properties                                                              *)

\* The files a row depends on: a profile is made of others.
Sources(f) ==
    IF f[1] = "profile"
    THEN {f, <<"tls-crypt", "instance">>, <<"client-cert", f[2]>>, <<"client-key", f[2]>>}
    ELSE {f}

\* A row or a file that an accident has made the repair depend on: lost, or
\* replaced while a plan was applied.
Doubted(files) == files \cap (lost \cup swapped) # {}

\* The last plan recovers or rebuilds something.
Plans(type, owner) == [type |-> type, owner |-> owner, kind |-> ""] \in plan

\* What an invalid CA certificate keeps from the scan: whether the CA key and
\* the server's pair verify.  A bad one with its row would block by its digest.
AuthorityUncovered(i) ==
    /\ i.owner = "instance" /\ i.action \in {"RESTORE_BACKUP", "REISSUE_SERVER"}
    /\ Plans("RECOVER_CA_CERT", "instance")
    /\ ({"ca-key", "server-cert", "server-key"} \X {"instance"}) \cap lost # {}

\* What an invalid identity or CRL keeps from the scan: whether the CRL lists
\* the client's certificate as it should.
RevocationUncovered(i) ==
    /\ i.owner \in Owners /\ i.action = "RESTORE_BACKUP"
    /\ Plans("RECOVER_CLIENT_IDENTITY", i.owner) \/ Plans("REBUILD_CRL", "instance")
    /\ Doubted({<<"crl", "instance">>, <<"client-cert", i.owner>>})

\* A pair that verifies but is not the recorded one is reported only under a
\* valid CA certificate; its recovery is planned as well.
PairUncovered(i) ==
    /\ i.owner \in Owners /\ i.action = "RESTORE_BACKUP"
    /\ Plans("RECOVER_CA_CERT", "instance") /\ Plans("RECOVER_CLIENT_IDENTITY", i.owner)
    /\ ~Matching(<<"client-cert", i.owner>>)

\* An apply that finishes leaves nothing to repair and nothing that blocks,
\* when no accident came in between: no action undoes another's work or
\* uncovers an issue nobody planned for (repair.BuildPlan, Service.Apply),
\* but for two things the scan could not see.  The CRL beside a client that
\* was recovered, when one of them is not what the instance wrote; and a
\* profile that was not made of the recovered pair and tls-crypt key, which
\* the next apply refreshes.
RepairConverges ==
    result = "applied" /\ ~touched =>
        /\ \A i \in Blockers : RevocationUncovered(i)
        /\ \A a \in PlannedActions :
             /\ a.type = "REFRESH_CLIENT_ARTIFACTS"
             /\ Doubted(Sources(<<"profile", a.owner>>))
             /\ Plans("RECOVER_TLS_CRYPT", "instance") \/ Plans("RECOVER_CLIENT_IDENTITY", a.owner)

\* An applicable plan stops at an action that refuses only when it recovers
\* the CA certificate: before that, at the CRL, whose rebuilding needs the
\* certificate and comes first in this and every later plan; after that, at
\* the registration of a file that has lost its row and, as only now shows,
\* does not verify (Service.Apply, the order of BuildPlan).
RepairErrorsExplained ==
    phase = "apply" /\ ~touched =>
        \A a \in First(todo) :
            \/ Accepted(a)
            \/ a.type = "REBUILD_CRL" /\ "RECOVER_CA_CERT" \in {b.type : b \in todo}
            \/ /\ a.type = "REGISTER_VERIFIED_ARTIFACT" /\ <<a.kind, a.owner>> \in lost
               /\ a.kind \in {"ca-key", "server-cert", "server-key", "crl"}
               /\ Plans("RECOVER_CA_CERT", "instance")

\* Whatever an interrupted apply left, the next one is not refused: between
\* two files or two actions, or after the rollback, the only blocker is the
\* open operation, or one that a recovery has uncovered (runRepairApply,
\* repairPreflight, collect).
RepairResumable ==
    ~touched /\ (phase = "apply" \/ op # NoOperation) =>
        \A i \in Blockers : \/ i.action = "RECOVER_OPERATION"
                            \/ AuthorityUncovered(i) \/ RevocationUncovered(i) \/ PairUncovered(i)

\* The database never vouches for foreign material, unless its row was lost
\* or the file replaced while a plan was applied: RefreshClient records
\* whatever valid pair it finds, RegisterVerifiedArtifact whatever valid
\* tls-crypt key (derived.Service, recovery.collect).
VouchedGenuine ==
    \A f \in Recorded :
        meta[f] \in {NoMetadata, Original(f)} \/ Sources(f) \cap (lost \cup swapped) # {}

==============================================================================
