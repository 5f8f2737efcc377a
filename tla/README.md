# TLA+ models of openvpn-docker

Specifications of the parts of openvpn-docker whose correctness depends on
crashes, locks and interleavings: the durable operation journal, the hand-over of
a running OpenVPN to a configuration change, the management broker, the client
mutations beside those who act without the data lock (OpenVPN's hook, exports,
confirmations, the HTTP API), and the life of a data root from initialization or
schema migration to its repair. TLC checks small instances of each; TLAPS proves
every safety property for every instance.
`PROJECT.json` maps every definition to its source lines.

## The system

`ovpn` is one Go binary. Inside a container (or under systemd) `ovpn server run`
supervises OpenVPN; other invocations (`client ...`, `config apply`, `repair`, `migration`) are separate processes on the same data directory, and
`ovpn-api` is a long-running HTTP server that calls the same services. They share
a file tree, one SQLite database, two `flock` locks and two Unix sockets.

| component | state | operations | talks to | what is hard |
|---|---|---|---|---|
| operation journal, artifact operations (`artifact/local.go`, `store/sqlite/journal.go`, `artifact_operation.go`) | file tree, `operations` and `artifacts` tables, one directory per operation with manifest, staged and backup files | begin, stage, remove, install, commit, rollback, cleanup | every mutating service | a crash or error between any two durable steps |
| operation recovery (`recovery/operations.go`) | none of its own | `RecoverOperations` at every server start and in `repair` | journal | it can be interrupted itself; it must agree with two records of the same operation |
| locks (`artifact/lock.go`) | `.ovpn-data.lock`, `.ovpn-runtime.lock` | acquire with deadline, release, loss on death | all processes | waiting with deadlines, shared against exclusive |
| supervisor (`runtime/supervisor.go`, `state.go`, `cli/run.go`) | instance in memory, children, firewall rules, shared runtime lock | start, stop, pause, resume, forward SIGHUP, exit | control socket, locks, database | state loaded before the lock; a pause in the middle of anything |
| control socket (`runtime/control.go`) | one busy slot, a connection and goroutine per command | APPLY/READY/RESUME/OK | supervisor, config apply | deadlines on one side only, lost connections |
| configuration apply (`configuration/apply.go`, `plan.go`, `cli/config.go`) | applied snapshot, server.conf, CCDs, profiles | plan, apply, offline or with a running server | journal, control socket, both locks | several commands at once |
| management broker (`broker/broker.go`) | one connection, one pending response, reload gate, generation | `Request`, `EnsureConnected`, `read`, `Close` | OpenVPN, CLI, hooks | time-outs against late answers, readers that outlive a connection |
| client lifecycle (`client/*.go`, `store/sqlite/*client*`) | clients, certificates, addresses | create, revoke, reissue, rename, delete, address changes | journal, PKI, broker | a lease recorded by a hook in the middle |
| derived artifacts, profile recovery (`derived/service.go`, `recovery/recovery.go`) | profiles, CCDs, CRL, metadata | refresh, register, recover from profiles | journal, repair | what is on disk becomes what is recorded |
| initialization (`initialize/service.go`) | `.init-transaction.json`, staged instance | initialize, recover | journal recovery | a crash between two renames |
| migration (`migration/*.go`) | snapshot, marker, staged entries | plan, apply, recover | locks, artifact snapshot | a crash between snapshot, marker and installation |
| hook and leases (`hook/hook.go`) | leases | connect, disconnect | database without the data lock | runs against every mutation |
| addresses, plan (`ipam`, `config`, `configuration/plan.go`) | pure | allocate, validate, remap | client, config apply | boundaries of a pool |
| state scan, repair (`state`, `repair`) | read, then journal | scan, plan, apply | derived artifacts, profile recovery, journal | several operations in the order of their names, interrupted anywhere |
| HTTP API, configuration (`httpapi/configuration.go`, `config/desired.go`, `cmd/ovpn-api`) | `config.yaml`, `desiredUpdateMu` | GET, PUT with If-Match, POST apply | control socket, configuration apply | digest and revision compared before the locks are taken |
| API keys, HTTP routing (`apikey`, `httpapi`) | keys, last use | create, revoke, authenticate; all mutations | all services | one row, one statement |
| network rules (`network`) | firewall and routes | reconcile, clean up | supervisor | partly applied rules |
| PKI, rendering, CLI output | files | issue, render, print | | sequential, I/O and text |

## Modules

| module | models | composes with |
|---|---|---|
| `AtomicUpdate` | the abstract promise: a value changes in one step, a reader sees a settled tree only with the current value | refined by `OperationJournal` |
| `OperationJournal` | journal, manifest, file steps, mutators, rollback, recovery | `INSTANCE AtomicUpdate` |
| `OperationJournalProofs` | types, agreement of journal and manifest, the file protocol, the refinement | extends `OperationJournal` |
| `RuntimeControl` | supervisor, handlers, apply commands, both locks | uses the journal's promise: install, then commit or restore |
| `RuntimeControlProofs` | types, locks, reload | extends `RuntimeControl` |
| `Broker` | requests, maintenance, readers, OpenVPN as environment | |
| `BrokerProofs` | types, serialization, answers, reload | extends `Broker` |
| `Ipam` | address layout, allocation, the remap of a configuration plan (operators only) | extended by `Clients` and `Schema3` |
| `Clients` | client mutations, configuration change, hook, sessions, kicks, export, confirmed delete | uses the journal's promise: install, then commit or restore |
| `ClientsProofs` | the invariant of database, files, leases and sessions | extends `Clients` |
| `ConfigApi` | the HTTP API's configuration requests | extends `Clients`, with every mutation as concurrent environment |
| `ConfigApiProofs` | the invariant of the requests; the theorems about clients and requests | extends `ConfigApi`, `ClientsProofs` |
| `DataDirectory` | directories of a data root, its two locks, `server run`, client work | shared by the next four |
| `Initialize` | `ovpn server init` | extends `DataDirectory` |
| `Schema3` | what a schema 3 root may say and what its reader accepts (operators only) | used by `Migration` |
| `Schema3Proofs` | what the reader accepts the database accepts, and it is faithful | extends `Schema3` |
| `Migration` | `ovpn migrate apply` | extends `DataDirectory`, `Schema3` |
| `StateRepair` | scan, plan, apply, derived artifacts, profile recovery | extends `DataDirectory` |
| `Instance` | one data root with all of them | composes `Initialize`, `Migration`, `StateRepair` |
| `InstanceProofs` | the invariant of the root and of what its rows vouch for, and the theorems | extends `Instance`, `Schema3Proofs` |
| `RepairProofs` | the invariant of a plan that is applied, and what a repair promises | extends `InstanceProofs` |
| `MC_*` | the constants of the TLC runs | |

A component module also has, before some of its actions, a faulty variant of the
action (`PlacedByFlagOnly`, `TakeRequestUnstopped`, `TimeoutKeeps`, ...). No behaviour
uses these; put in the action's place, each makes one property fail, which confirms
that the property notices that programming error. `PROJECT.json` lists them.

### OperationJournal

One step is one durable effect: a rename, an unlink, a rewrite of the manifest
(written to `.tmp` and renamed), or a SQLite transaction. All mutators and recovery
hold `.ovpn-data.lock`, so a single program counter `pc` (with `role`, `cur`, `key`,
`todo`) stands for the process that holds it; `"idle"` is the free lock. `live` is
the file tree, `recorded` the artifacts table, `journal` the operations table;
`manifest`, `listed`, `digest`, `original`, `installed`, `staged`, `backup` are one
operation directory each.

A mutation runs `Prepare`, `MakeDirectory`, `SaveFirstManifest`, `Stage`*,
`VerifyStaged`, then for each entry `InspectTarget`, `MoveToBackup`, `PlaceStaged`,
`MarkInstalled`; `FinishInstall`, `AdvanceInstalled`, `CommitState`, `CommitFiles`,
`RemoveManifest`, `RemoveDirectory`, `EndOperation`. `StepFails` enters the rollback
closure, `RollbackFails` leaves it part-way and goes on to the journal as the code
does, `Crash` releases the lock anywhere. `StartRecovery` walks the pending rows
first (`RecoverPending`) and then the remaining directories (`RecoverRemaining`).

Abstractions:

* A file is its digest. PKI files that have no artifact row are covered by reading
  `recorded` as "content of the last committed operation" for them.
* `Stage` joins the rename of a staged file and the save of its manifest entry: a
  staged file without an entry is only ever removed with its directory.
* The order in which `Install` and `Rollback` walk the entries is left open.
* `config.apply` refuses to start over an interrupted operation and client and
  derived operations do not (`ChecksPending`). `overlap` is a history variable that
  says such a start happened; the properties that need its absence say so.

### RuntimeControl

Actors: the supervisor (`sup`), one apply command per member of `Appliers` (`cli`),
and the goroutine that serves its connection (`handler`). `wire` is the answer the
command has not read, `resume` the RESUME line and then the resume channel, `open`
the command's end of the connection. `runtimeLock` is `"shared"` for the supervisor
or the apply command that has it exclusively.

`Recover`, `LoadState`, `LoadMetadata`, `VerifyConfig`, `Listen`, `AcquireShared`,
`Reconcile`, `StartProcesses` are a server's start in the order of the code, the
first four without a lock. `TakeRequest`, `Yield`, `Resumed` or `Abandoned`, and
`AcquireShared` again (which reloads the instance) are a pause. A command runs
`BeginApply` or `BeginOffline`, `ReadAnswer` or `PauseTimeout`, `AcquireRuntime`,
`AcquireData`, `WriteFiles`, `CommitConfig`, `FinishApply`, `ReadOutcome` or
`ResumeTimeout`. `SupervisorEnds`, `CleanupFails`, `ApplyFails`, `CommandDies` are
the faults, `MaxFaults` of them.

Abstractions: a configuration is a value; children die with the supervisor
(container PID 1, systemd control group); the journal is two effects, server.conf
and the commit; `Recover` is one step, because OperationJournal has its inside; the OK answer
is delivered together with `StartProcesses`.

### Broker

`commandMu` is a variable, `Backend.mu` is the grain of the steps. `pc` is the
position of each `Request` and of the maintaining goroutine; `link`, `reader`,
`inbox`, `outbox` describe each connection ever made. `Exchange` registers the
pending response and writes the command, `Collect` and `Timeout` are the two cases
of its select, `Read` gives one line to the pending response, `ReadEnd` and
`FailWaiter` are the two halves of `disconnect` in a reader. `bufio` keeps lines a
reader has not looked at, so `CloseLink` keeps a prefix of them and a reader may go
on reading after its connection was closed.

OpenVPN is external: it answers each command once (`VpnAnswer`), takes a SIGHUP and
restarts, reports initialization on a connection that asked for events
(`VpnInitialize`), and may hang up. `crossed` is a history variable: a reader gave
a line of its connection to a command on another one.

### Clients and Ipam

`row`, `asg`, `lease`, `networks`, `meta` are the tables `clients`,
`address_assignments`, `client_leases`, `networks` and `artifacts`; `disk` is what is
installed in `ccd/`, `clients/` and `pki/`. A mutation plans under the data lock and
its `Begin` installs the files (`op` remembers the plan and the tree before it);
`Commit` is the SQLite transaction with its own checks (`SourceAccepted`,
`SchemaAccepts`) and the clean-up after it, `CommitUnfinished` a transaction whose
clean-up fails (`fileOperation.Commit` or `os.RemoveAll` of the workspace) or is cut
off, `Rollback` any failure before it, `Crash` and `Recover` an interruption. Files are visible before the commit, which is what the others can
meet: `Connect` and the hook (`HookAssignment`, `HookLease`, `HookAccepts`,
`HookRefused`: the two SELECTs of `LoadClient`, then the transaction of
`RecordLease`), `ExportSelect` and `ExportRead`, `ConfirmDelete` and
`DeleteConfirmed`, and the CLI's `Reconcile` after the commit.

`Ipam` has addresses as numbers and a network as base, size and pool size;
`NextStatic` and the three passes of `remapAddresses` are operators that say what each
pass leaves (`Kept`, `Mapped`, then the lowest unused address for the rest in the order
of names) rather than loop over the clients; where the code reports exhaustion or a
conflict the set of results is empty.

Abstractions: a certificate is the client and its number; a profile is whose it is
and with which certificate; names are numbers for their order. Recovery is assumed to
precede the next mutation; what happens otherwise is the run `journal_overlap`. The
steps inside `Begin` are those of `OperationJournal`. Bulk rename and reissue repeat
the single operation.

### ConfigApi

A caller's request (`req`) moves through the points at which others may act: GET;
PUT as `PutStart` (mutex, first comparison), `PutRecheck`, `PutRename`; apply as
`ApplyCheck`, `ApplyPause` (the supervisor's one session), `ApplyRecheck`,
`ApplyBegin` (locks, plan, files), then the end of the mutation. `Edit` is a write of
`config.yaml` that is not the API's. An apply's mutation is
`Clients!ApplyConfiguration`, so its commit, rollback and crash are the same actions.

### DataDirectory, Initialize, Migration, Schema3, StateRepair, Instance

`live` says for each directory of the root whether it is absent or of schema 3 or 4;
`holder` is the data lock; `server` the stages of `server run`, which reads without a
lock; `manifest` and `marker` the two transaction markers; `work` whether a client
command has changed the root and whether the change is due to last.

`Initialize` has one step per durable effect of `Initialize`, `recoverLocked` and
`installPrepared`; a marker write is two, because the temporary file it leaves makes
the root "not empty". `Migration` has the snapshot, its temporary file, each marker,
each directory's removal and rename, the cleaning and `recoverInterrupted`, whose restore
removes the directories one by one (`RemoveEntry`) before it unpacks them one by one
(`RestoreEntry`). Three refusals come late, from facts of the root that the reader does not
look at: `Archivable` (links, modes, file sizes; before the marker), `StageHealthy` (the
state scan of the stage wants a signing database; after it) and `overrun` (the total
of a restore; with the root already emptied). `Schema3` holds the reader: which combinations of identities, addresses, audit, certificate
index, CRL, profiles and leases `ReadSchema3` accepts, which clients `buildStage`
makes of them and whether the database accepts these. Of several clients with a lease
on one address `ImportedLeases` keeps the one the reader meets first.

`StateRepair` has a file as `<<kind, owner>>` with a content (absent, bad, genuine,
foreign, and for profiles combinations with another tls-crypt key) and a metadata
digest. `Scan`, `PlannedActions` and `Blockers` are the code's scan and plan; an apply
runs the actions in the order of their names, each with what it checks (`Accepted`),
writes and records, one file a step, and is interrupted by failures, kills and
accidents (`FileDamaged`, `MetadataLost`). `touched`, `lost`, `swapped` and `plan` are
history variables: what accidents did, and what the last plan set out to do.

`Instance` composes them on one root: an empty one, a schema 3 one with any member of
`Legacies`, or an established schema 4 one. Accidents and repairs are confined to
established roots (`Established`) and initialization, migration and client work to
undamaged ones: the code shares only the journal, the lock and the server between the
two, and these are the actions `RunRecover` and `RunLoad`.

## Runs

| run | what it shows |
|---|---|
| `journal` | With client and config operations, two keys, two operations and two faults anywhere: a file no undoable operation lists is the recorded one; rollback always identifies its files; journal and manifest never contradict each other; only a listed key of an uncommitted operation changes; the whole is an atomic update. |
| `journal_liveness` | Every interrupted operation with a readable manifest is resolved by repeated recovery. |
| `journal_unreadable` (violation) | Without that exception it is not: after a crash between `os.Mkdir` and the first manifest, or inside `os.RemoveAll`, `OpenOperation` fails at every later start. |
| `journal_overlap` (violation) | A client mutation over an interrupted operation commits, and recovery restores the first operation's backup over its file. |
| `runtime` | Two apply commands, one supervisor, one fault: OpenVPN never runs while an apply has the runtime lock; an OK means OpenVPN and rules of the applied configuration; a pause ends; a command ends. |
| `runtime_startup` (violation) | An apply that commits between the unlocked load and the shared lock leaves the new server.conf running with the rules of the old configuration. |
| `broker` | A reload, a command, the maintaining goroutine, two connections: one command at a time, no late answer to another client, no command inside a reload, every request ends. |
| `broker_serialized` (violation) | A reader that outlives its connection completes the next connection's `log on all`, and a second command is written while the first is unanswered. |
| `broker_reload` (violation) | A reload succeeds on the initialization event of OpenVPN's previous start. |
| `clients` | Two clients, two names, three networks, one crash or failed clean-up: every client stays loadable beside leases recorded without the lock; no address is held twice; no plan made under the lock is refused at commit; files, CRL, CCDs and metadata say what SQLite says; a kicked certificate never comes back; no export hands out a revoked certificate; a remap takes nobody's address away; no PUT of the API is lost; one apply per revision. |
| `instance` | Kills anywhere in initialization and migration, accidents and interruptions anywhere in a repair: a root without a marker is whole; a marker's archive is complete; promised client work survives; every refusal of a migration has its cause in the schema 3 files, and addresses and leases are kept; `server run` loads complete instances, unless a recovery has begun to empty the root; a finished repair leaves nothing to repair that its scan could have seen, an interrupted one can go on, and the database does not come to vouch for foreign files. |
| `instance_interrupted` (violation) | A migration killed between the rename of its archive and its first marker makes every later one answer that the snapshot exists. The property is the whole promise of `migrate apply`, so it also excludes the two cases listed below (a restore that is refused, a server on a half-removed root). |

The passing runs have 6,447,306 (`journal`), 513,498 (`runtime`), 1,049,782 (`clients`)
and 854,738 (`instance`) distinct states.

Bounds. Two keys (one in the runs about recovery) let one entry be installed while the other is not; two operations
let one meet the other's remains; two contents distinguish old from new; two faults
allow a crash in an operation and another in its recovery. Two apply commands
compete for the locks and the busy slot, with a supervisor crash, failure or signal
between. Two connections are what is needed for a reader to outlive one into the
other; `hup` and `cmd` are one reload and one ordinary command. Keys and
contents are symmetric in the run `journal`; the runs with liveness properties use
no symmetry. `MaxFaults` and `MaxConns` bound otherwise unbounded histories.
Deadlock is checked except in the broker's runs, where the service may be shut down
and the connections bounded by `MaxConns` may be used up, and in the runs `clients`
and `instance`, where commands stop when their bounds are used up.

In `clients` the mutations of a behaviour are interleaved with one kind of onlooker
(`focus`), since the onlookers do not read each other's state; `MaxOps` and
`MaxNetworks` are given for each. Three mutations let a client be created, changed and
changed back while a hook, session or export is under way; a confirmed delete needs
four, for the name to go to another client; two API callers need two applies and three
networks. `Wide`, `Narrow` and `Tiny` make an address stay, be mapped by its host bits,
collide, be allocated anew and find no place. `Asked` has one address inside and one
outside of the narrow region. Client ids and API callers are symmetric. One fault
(`MaxFaults`), a crash or a failed clean-up, is enough for a mutation to be left behind; one edit by hand for a PUT to be overtaken.

In `instance` two kills allow one in a run and one in the run that recovers it. The
schema 3 roots are all combinations of three addresses, two states and three lease
files, single faults of every file the reader checks, and roots that the snapshot, the scan
of the stage or a restore refuses, the last two also together. The established root has an
active client with a static address and a revoked one, and two accidents: one may make a
file invalid while the other hides or fakes what its recovery depends on. More are left
to the theorems, which hold for any number.

Fairness. In the journal the holder of the data lock keeps running until it
crashes, and recovery runs again, because the container restarts the server and
`server run` recovers first. In RuntimeControl supervisor, handlers and commands
keep running; nobody is obliged to start a server or a command. In Broker every
goroutine keeps running and each of its waits has a deadline (dial, response,
initialization), which are the time-out actions; `commandMu` is strongly fair for a
waiting request, which is the starvation mode of `sync.Mutex`. OpenVPN and the
readers are under no fairness: `RequestsEnd` does not rely on an answer.

## Proofs

Assumptions: the named `ASSUME`s of the modules. They say that markers such as `None`
are not among the values they are told from, that bounds are natural numbers, that
networks are valid (`ConfigsAssumption`) and that the schema 3 sources have their type,
one of them standing for "no such files" (`LegaciesAssumption`). Nothing is assumed
about the number of keys, operations, commands, clients, connections, networks,
crashes, faults or accidents.

*Journal and manifest* (`OperationJournalProofs`). `JournalInv` ties the lock
holder's position to both records (`HolderInv`) and says, per operation, which
combinations of journal state and manifest state exist when nobody works on it
(`Agree`). It needs no absence of overlap, and gives `NoConflictEver`.

*Files* (also there). `FilesInv` says for every entry of an undoable
operation where the recorded content is: still the target, or in the backup, with
the staged file present exactly until it was placed, so that the test of
`Rollback` (Installed flag, or no staged file) decides rightly between "mine" and
"the original". It is stated for the absence of overlap and distinguishes the entry
the holder works on from the others. From it follow `CommittedFilesAlwaysLive`,
`RollbackNeverRefuses` and `FilesChangeOnlyUnderManifest`, and that every step maps
to a step of `AtomicUpdate` or to a stutter (`JournalImplementsAtomicUpdate`).

*Runtime* (`RuntimeControlProofs`). `LockInv` says who may be where while a lock has
its owner: a supervisor that runs OpenVPN has the shared lock, a writing command has
both. `ReloadInv` says that from the reload under the shared lock to the answer,
memory, server.conf and database agree, which holds because only the lock's owner
writes. They give `WritesNeverOverlapOpenVPN` and `RestartAlwaysRunsApplied`.

*Broker* (`BrokerProofs`). `MutexInv` says who is between `Lock` and `Unlock` of
`commandMu` and on which connection; `PendingInv` that the pending response is of the
holder's command on the connection in use; `LinkInv` that a connection is given up
before it is closed and a waiter fails after that; `WireInv` that, until a reader has
answered across connections, the connection in use carries the pending command or its
answer and otherwise only events. `SerializedUnlessCrossed`, `LiveAnswersMatch` and
`ReloadExcludesCommands` follow.

*Clients and requests* (`ClientsProofs`, `ConfigApiProofs`). A mutation is two steps,
files first and database later, and everyone else may act in between, so the invariant
speaks of two databases: `DbOK` holds for the tables, and, while a mutation is open, for
the tables its commit would leave (`RowAfter`, `AsgAfter`, `MetaAfter`, `NetsAfter`);
`FilesOK` relates the files that were there before to the first and the installed ones to
the second, so that either end of the mutation leaves agreement. `LeasesFollow` is why a
lease the hook records meanwhile cannot spoil the commit: it clears the lease of every
client whose assignment it changes. The installed CRL holds the committed one, so a
certificate that was refused once stays refused. A profile in `clients/active` carries a
certificate the committed CRL does not hold, in the files before a mutation as in the
installed ones, which gives `ExportsUnrevoked` for a reader without a lock. A workspace is
counted until its mutation ends, so without a fault none stays. The regions of a network are disjoint and
`NextStatic` and `RemapStatic` return unused addresses of the static one; this is proved
from their declarative form. `ApiInv` adds the mutex of PUT, the one paused request, and
that an applied request's revision lies before that of every request which has looked
again, which gives `OneApplyPerRevision`.

*Data root* (`InstanceProofs`, `Schema3Proofs`). `RootInv` splits on what the root was at
first. For one that initialization may fill: the directories in the root are a prefix of
`defaultEntries`, each is in the stage or in the root once the marker is prepared
(`PreparedInv`), each marker limits the root, the journal and the position of the process
(`MarkerInv`, `PositionInv`); as the database comes last, `meta` in place means complete.
For a schema 3 root: the root is the one with the first `installed` directories of
`installEntries` replaced, between a removal and a rename with one missing; an unfinished
marker has the whole schema 3 root in its archive; a recovery has removed the first
`installed` entries of `backupEntries`, or restored them (`RestoredTo`); without a marker,
or under a committed one, the root is whole. `server` comes after `meta` in the
installation, so a root with both is complete or being emptied, which is `ServesComplete`;
what the exception lets through is below. `StagedIsFaithful` and `ReadyIsAccepted` are about any source:
the reader's checks imply the uniqueness rules of the database.

The repair's part says where genuineness comes from. Every ingredient of a profile (a
client's pair, the tls-crypt key) is what its row says or has its recovery still on the plan
(`CoverInv`); recoveries precede refreshes in the order of the plan, so a refresh works on
recorded material; a recovery takes from a recorded profile what agrees with the rows that
exist; a row is missing only when it was lost (`RowsInv`), and an open operation will record
genuine contents (`CommitInv`). That a plan covers the ingredients (`ReplanCovers`) and has
only actions with a proper owner and kind (`PlannedOK`) is proved from the scan.

*Repair* (`RepairProofs`). `ProgressInv` follows a plan from its scan to its last action.
Its core is `Covered`, which holds while a plan is applied and no accident has come since:
every row that is missing or does not match, and every file that does not verify, has its
action still in `todo` (`RowsCovered`, `FilesCovered`); the evidence of the recoveries in
`todo` is untouched (`EvidenceInv`); and what the plan has no action for is as the scan found
it, unless the plan has a recovery that may change the verdict (`AuthorityInv`,
`ClientsSeen`). The scan without blockers establishes `Covered`, and each action keeps it:
an action writes only the files whose recovery it is and records those, the file it
registers or the pair it rendered from; and by the order of a plan recoveries read the
profiles before refreshes rewrite them, refreshes read material that is recovered, and
registrations verify last. The one exception, `REBUILD_CRL` before the `RECOVER_CA_CERT` it
needs, is kept by `AuthorityInv` and named in `RepairErrorsExplained`.
`OpenInv` says that an open operation writes what its action would write now, so a rollback
or a commit meets the files of the plan; `DigestInv` that no row of the authority was ever
written for a file that does not verify; `LeftInv` and `EndedInv` carry the conclusion
past the end of the process. With `todo` empty, `Covered` gives `RepairConverges`; with an action
first in `todo`, it gives the action's checks (`RepairErrorsExplained`); with a scan, it
leaves only blockers that a recovery has uncovered (`RepairResumable`).

Only model-checked: the liveness properties (`InterruptedResolves`, `PauseEnds`,
`CommandEnds`, `RequestsEnd`), which depend on fairness and `ENABLED`.

## What the models say about the code

Six runs pass and six show a disagreement between the code and what the
repository says of it; `PROJECT.json` quotes both sides. Besides, the models have
behaviours that a maintainer should know of; all but the delete below are
exceptions named in a property, so that the property holds for the rest:

* A client mutation that crashed, or whose clean-up failed after the commit, leaves
  `.client-work-*`, a copy of the PKI with its private keys, in the data directory;
  `RecoverOperations` does not know it (`FilesMatchDatabase` allows one for each such fault).
* An initialization killed while it writes its first marker leaves only
  `.init-transaction.json.tmp`, and every later one says the directory is not empty.
  `server run` on a half-initialized root rolls the prepared operation back, and
  initialization then answers at every start that its operation is rolled back
  (`RefusalsExplained`).
* A migration killed before its committed marker, and killed again while its recovery removes
  the directories, leaves database and `server.conf` of schema 4 without client files;
  `LoadInstance` asks for no more, and `server run` starts OpenVPN on it (`ServesComplete`:
  `Emptying`). The archive is whole, and the next `migrate apply` restores it.
* A root of more than 1 GiB is archived, but not restored: the refusal comes when the live
  directories are gone, and again at every later apply (`ReadyPlansApply`: `overrun`).
* A schema 3 root without `pki/serial` is planned as ready; the apply is refused by the scan
  of its stage and leaves its marker, and every later one restores the root and is refused
  again (`ReadyPlansApply`).
* A delete resolves its name again after the confirmation and removes whoever has the name
  then, which need not be the client that was shown (`ConfirmDelete`, `DeleteConfirmed`).
* With the CA certificate and the CRL both damaged a repair plan is applicable, but
  starts with `REBUILD_CRL`, which needs the certificate; every later plan does too
  (`RepairErrorsExplained`).
* An invalid CA certificate keeps the scan from verifying the CA key, the server's pair and
  the clients' pairs; an invalid identity or CRL keeps it from comparing the two. What is wrong
  there shows after the recovery: an interrupted apply is then refused
  (`RepairResumable`: `AuthorityUncovered`, `RevocationUncovered`, `PairUncovered`), the
  registration of a file that does not verify stops it (`RepairErrorsExplained`), or a
  finished one is followed by a blocker, an old CRL beside a recovered client
  (`RepairConverges`). Except for the pairs, all of it takes a lost row or a file replaced
  while a plan was applied.
* A profile made of a foreign tls-crypt key or pair (after a lost row, or a file replaced while
  a plan was applied) that is recovered later is refreshed by the next apply only
  (`RepairConverges`).
* A metadata row that was lost is written again from whatever valid material is found
  (`VouchedGenuine`), although the comment of `RegisterVerifiedArtifact` speaks of "an
  unchanged authority file".
* A write of `config.yaml` by hand between the second comparison of a PUT and its
  rename is lost (`PutsReplaceWhatTheySaw`).
* An API apply compares digest and revision without a lock. A maintenance container
  that applies another configuration between `loadConfigState` and the locks is
  overwritten, although `docs/en/v4/rest-api.md` says that "applied revision changes"
  return `409`. API applies exclude each other through the supervisor's session
  (`OneApplyPerRevision`).

## Not modelled

* PKI and rendering: sequential calls of easy-rsa and openssl, templates. What the
  validators tell apart is in `StateRepair`.
* Network rules: commands to `ip` and `iptables`, whose effect depends on kernel tables
  outside of the repository. `RuntimeControl` has the rules as one value.
* API keys and HTTP routing: authentication and decoding in front of services that are
  modelled; a key is one row that one statement creates or revokes.
* Parsing of YAML, environment, schema 3 text files and arguments; output; the broker's
  log files; event records of the hook: no other operation reads them, or only what
  they mean is modelled.
