---------------------------- MODULE RuntimeControl ---------------------------
(***************************************************************************)
(* How a configuration change reaches a running OpenVPN: "server run" and  *)
(* its Supervisor (runtime/supervisor.go), the control socket and its      *)
(* handler goroutines (runtime/control.go), the "config apply" commands    *)
(* (cli/config.go, configuration/apply.go) and the two file locks they     *)
(* share: .ovpn-runtime.lock, shared by a supervisor and exclusive for an  *)
(* apply, and .ovpn-data.lock, exclusive.                                  *)
(*                                                                         *)
(* The actors are one supervisor process, any number of apply commands     *)
(* (two at a time compete in the model) and one handler goroutine per      *)
(* connection; every step of an actor interleaves with those of the        *)
(* others.  A configuration is a value; the journal protocol under the     *)
(* apply is OperationJournal's and is kept to its two durable effects, the *)
(* installed server.conf and the SQLite commit.  Children die with the     *)
(* supervisor (container PID 1, systemd control group).                    *)
(***************************************************************************)
EXTENDS Naturals

CONSTANTS
    Appliers,   \* config apply commands, each run once
    Configs,    \* configurations
    NoConfig,   \* nothing runs, no rules
    None,       \* nobody
    MaxFaults   \* bound on crashes, failing steps and stop signals

ASSUME NoConfigAssumption == NoConfig \notin Configs

ASSUME NoneAssumption == None \notin Appliers \cup {"shared"}

ASSUME SharedAssumption == "shared" \notin Appliers

ASSUME MaxFaultsAssumption == MaxFaults \in Nat

VARIABLES
    applied,    \* SQLite: the applied configuration snapshot
    confFile,   \* server/server.conf: the configuration it was rendered from
    pending,    \* an apply operation is prepared in the journal
    runtimeLock,\* None, "shared" (the supervisor) or the applier holding it
    dataLock,   \* None or the applier holding it
    sup,        \* the supervisor's next step, "off" when no server runs
    instance,   \* the configuration the supervisor has in memory
    verified,   \* the metadata digest LoadInstance read matches this
    listening,  \* the control socket exists
    request,    \* the applier whose request the supervisor handles
    openvpn,    \* the configuration of the running OpenVPN
    network,    \* the configuration the firewall rules were made for
    cli,        \* per applier: its next step or its outcome
    desired,    \* per applier: the configuration it was given
    saved,      \* per applier: ApplyPersistent succeeded
    open,       \* per applier: its end of the control connection is open
    handler,    \* per applier: the goroutine serving its connection
    wire,       \* per applier: the answer it has not read yet
    resume,     \* per applier: RESUME on the wire, then the resume channel
    faults      \* crashes, failures and stop signals so far

data    == <<applied, confFile, pending>>
locks   == <<runtimeLock, dataLock>>
memory  == <<instance, verified>>
runtime == <<openvpn, network>>
session == <<open, handler, wire, resume>>
command == <<cli, desired, saved>>
vars    == <<data, locks, sup, memory, listening, request, runtime, command,
             session, faults>>

SupSteps == {"off", "load", "metadata", "verify", "listen", "lock", "network",
             "start", "serve", "stop", "paused"}

\* Outcomes: "applied" (saved, restart still required), "activated" (saved and
\* the runtime restarted), "inactive" (saved, restart failed), "failed".
Outcomes == {"applied", "activated", "inactive", "failed", "crashed"}

CliSteps == {"idle", "pause", "runtime", "data", "write", "commit", "unlock",
             "activate"} \cup Outcomes

HandlerSteps == {"none", "read", "send", "await", "armed", "finish"}

Answers == {"none", "READY", "ERROR", "OK", "EOF"}

\* A command between AcquireRuntime and the release of its locks.
Locking(c) == cli[c] \in {"data", "write", "commit", "unlock"}

\* What the variables hold.  A lock is held by the supervisor or by a command
\* that has not released it yet.
TypeOK ==
    /\ applied \in Configs
    /\ confFile \in Configs
    /\ pending \in BOOLEAN
    /\ runtimeLock \in {c \in Appliers : Locking(c)} \cup {None, "shared"}
    /\ dataLock \in {c \in Appliers : Locking(c)} \cup {None}
    /\ sup \in SupSteps
    /\ instance \in Configs \cup {NoConfig}
    /\ verified \in Configs \cup {NoConfig}
    /\ listening \in BOOLEAN
    /\ request \in Appliers \cup {None}
    /\ openvpn \in Configs \cup {NoConfig}
    /\ network \in Configs \cup {NoConfig}
    /\ cli \in [Appliers -> CliSteps]
    /\ desired \in [Appliers -> Configs]
    /\ saved \in [Appliers -> BOOLEAN]
    /\ open \in [Appliers -> BOOLEAN]
    /\ handler \in [Appliers -> HandlerSteps]
    /\ wire \in [Appliers -> Answers]
    /\ resume \in [Appliers -> {"none", "sent", "true", "false"}]
    /\ faults \in 0..MaxFaults

\* An initialised instance, not running.
Init ==
    /\ applied \in Configs
    /\ confFile = applied
    /\ pending = FALSE
    /\ runtimeLock = None
    /\ dataLock = None
    /\ sup = "off"
    /\ instance = NoConfig
    /\ verified = NoConfig
    /\ listening = FALSE
    /\ request = None
    /\ openvpn = NoConfig
    /\ network = NoConfig
    /\ cli = [c \in Appliers |-> "idle"]
    /\ desired \in [Appliers -> Configs]
    /\ saved = [c \in Appliers |-> FALSE]
    /\ open = [c \in Appliers |-> FALSE]
    /\ handler = [c \in Appliers |-> "none"]
    /\ wire = [c \in Appliers |-> "none"]
    /\ resume = [c \in Appliers |-> "none"]
    /\ faults = 0

-----------------------------------------------------------------------------
\* The supervisor

SupGoto(step) == sup' = step

\* RecoverOperations, under the data lock: an interrupted apply is rolled back.
Recover ==
    /\ sup = "off"
    /\ dataLock = None
    /\ confFile' = IF pending THEN applied ELSE confFile
    /\ pending' = FALSE
    /\ SupGoto("load")
    /\ UNCHANGED <<applied, locks, memory, listening, request, runtime, command,
                   session, faults>>

\* LoadInstance takes no lock: LoadOnlyInstance, LoadInstanceArtifacts and the
\* read of server.conf are three reads ...
LoadState ==
    /\ sup = "load"
    /\ instance' = applied
    /\ SupGoto("metadata")
    /\ UNCHANGED <<data, locks, verified, listening, request, runtime, command,
                   session, faults>>

LoadMetadata ==
    /\ sup = "metadata"
    /\ verified' = applied
    /\ SupGoto("verify")
    /\ UNCHANGED <<data, locks, instance, listening, request, runtime, command,
                   session, faults>>

\* ... and the file must have the recorded digest.  At startup the control
\* socket and the lock are next; after an apply the supervisor has both.
VerifyConfig ==
    /\ sup = "verify"
    /\ confFile = verified
    /\ SupGoto(IF request = None THEN "listen" ELSE "network")
    /\ UNCHANGED <<data, locks, memory, listening, request, runtime, command,
                   session, faults>>

\* .server.lock and startControlServer.
Listen ==
    /\ sup = "listen"
    /\ listening' = TRUE
    /\ SupGoto("lock")
    /\ UNCHANGED <<data, locks, memory, request, runtime, command, session, faults>>

\* (Variant: after an apply the supervisor goes on with what it has in memory.)
AcquireSharedNoReload ==
    /\ sup = "lock"
    /\ runtimeLock = None
    /\ runtimeLock' = "shared"
    /\ SupGoto("network")
    /\ UNCHANGED <<data, dataLock, memory, listening, request, runtime, command,
                   session, faults>>

AcquireShared ==
    /\ sup = "lock"
    /\ runtimeLock = None
    /\ runtimeLock' = "shared"
    /\ SupGoto(IF request = None THEN "network" ELSE "load")
    /\ UNCHANGED <<data, dataLock, memory, listening, request, runtime, command,
                   session, faults>>

\* startRuntime: the rules are made for the configuration in memory ...
Reconcile ==
    /\ sup = "network"
    /\ network' = instance
    /\ SupGoto("start")
    /\ UNCHANGED <<data, locks, memory, listening, request, openvpn, command,
                   session, faults>>

\* The handler of the request being served is told the outcome.
Answer(c, answer) ==
    /\ handler' = [handler EXCEPT ![c] = "none"]
    /\ wire' = [wire EXCEPT ![c] = answer]

\* ... and OpenVPN reads server.conf.  After an apply, request.done gets nil.
StartProcesses ==
    /\ sup = "start"
    /\ openvpn' = confFile
    /\ SupGoto("serve")
    /\ request' = None
    /\ IF request = None THEN UNCHANGED <<handler, wire>> ELSE Answer(request, "OK")
    /\ UNCHANGED <<data, locks, memory, listening, network, command, open, resume,
                   faults>>

\* SIGHUP is forwarded, and OpenVPN reads server.conf again.
ForwardHup ==
    /\ sup = "serve"
    /\ openvpn' = confFile
    /\ UNCHANGED <<data, locks, sup, memory, listening, request, network, command,
                   session, faults>>

\* (Variant: the lock is released before the processes are stopped.)
TakeRequestUnstopped(c) ==
    /\ sup = "serve"
    /\ handler[c] = "send"
    /\ handler' = [handler EXCEPT ![c] = "await"]
    /\ request' = c
    /\ runtimeLock' = None
    /\ SupGoto("stop")
    /\ UNCHANGED <<data, dataLock, memory, listening, runtime, command, open,
                   wire, resume, faults>>

\* The request arrives on the unbuffered channel: stopRuntime.
TakeRequest(c) ==
    /\ sup = "serve"
    /\ handler[c] = "send"
    /\ handler' = [handler EXCEPT ![c] = "await"]
    /\ request' = c
    /\ openvpn' = NoConfig
    /\ SupGoto("stop")
    /\ UNCHANGED <<data, locks, memory, listening, network, command, open, wire,
                   resume, faults>>

\* cleanupNetwork, release of the shared lock, request.ready <- nil; the
\* handler writes READY.  A command that has gone is noticed only here: the
\* write or the read after it fails, and resume gets false.
Yield ==
    /\ sup = "stop"
    /\ network' = NoConfig
    /\ runtimeLock' = None
    /\ SupGoto("paused")
    /\ IF open[request]
       THEN /\ handler' = [handler EXCEPT ![request] = "armed"]
            /\ wire' = [wire EXCEPT ![request] = "READY"]
            /\ UNCHANGED resume
       ELSE /\ handler' = [handler EXCEPT ![request] = "none"]
            /\ resume' = [resume EXCEPT ![request] = "false"]
            /\ UNCHANGED wire
    /\ UNCHANGED <<data, dataLock, memory, listening, request, openvpn, command,
                   open, faults>>

\* RESUME was read.
Resumed ==
    /\ sup = "paused"
    /\ resume[request] = "true"
    /\ SupGoto("lock")
    /\ UNCHANGED <<data, locks, memory, listening, request, runtime, command,
                   session, faults>>

\* Run returns: the deferred calls stop the children, clean the network up (a
\* failing cleanup only warns), release the lock and close the control server,
\* whose handlers return.  A READY not read yet is still read before the end of
\* the connection; a handler waiting for request.done may answer ERROR first.
Exit ==
    /\ SupGoto("off")
    /\ openvpn' = NoConfig
    /\ network' \in {network, NoConfig}
    /\ runtimeLock' = IF runtimeLock = "shared" THEN None ELSE runtimeLock
    /\ instance' = NoConfig
    /\ verified' = NoConfig
    /\ listening' = FALSE
    /\ request' = None
    /\ handler' = [c \in Appliers |-> "none"]
    /\ \E answer \in {"ERROR", "EOF"} :
          wire' = [c \in Appliers |->
                     IF handler[c] = "none" \/ wire[c] = "READY" THEN wire[c]
                     ELSE IF handler[c] = "finish" THEN answer ELSE "EOF"]
    /\ UNCHANGED <<data, dataLock, command, open, resume>>

\* The command went away while the runtime was stopped.
Abandoned ==
    /\ sup = "paused"
    /\ resume[request] = "false"
    /\ Exit
    /\ UNCHANGED faults

\* server.conf is not the recorded one.
VerifyRefused ==
    /\ sup = "verify"
    /\ confFile # verified
    /\ Exit
    /\ UNCHANGED faults

\* The shared lock is not free within LockTimeout.
SharedTimeout ==
    /\ sup = "lock"
    /\ runtimeLock # None
    /\ Exit
    /\ UNCHANGED faults

-----------------------------------------------------------------------------
\* The handler goroutines

Busy == \E c \in Appliers : handler[c] \in {"send", "await", "armed", "finish"}

\* The handler reads APPLY and takes the busy slot, or answers ERROR.
HandleApply(c) ==
    /\ handler[c] = "read"
    /\ IF Busy
       THEN Answer(c, "ERROR")
       ELSE handler' = [handler EXCEPT ![c] = "send"] /\ UNCHANGED wire
    /\ UNCHANGED <<data, locks, sup, memory, listening, request, runtime, command,
                   open, resume, faults>>

\* (Variant: the end of the connection is not told to the supervisor.)
HandleResumeOnly(c) ==
    /\ handler[c] = "armed"
    /\ resume[c] = "sent"
    /\ resume' = [resume EXCEPT ![c] = "true"]
    /\ handler' = [handler EXCEPT ![c] = "finish"]
    /\ UNCHANGED <<data, locks, sup, memory, listening, request, runtime, command,
                   open, wire, faults>>

\* It reads RESUME, or the end of the connection.  There is no read deadline.
HandleResume(c) ==
    /\ handler[c] = "armed"
    /\ \/ /\ resume[c] = "sent"
          /\ resume' = [resume EXCEPT ![c] = "true"]
          /\ handler' = [handler EXCEPT ![c] = "finish"]
       \/ /\ resume[c] # "sent"
          /\ ~open[c]
          /\ resume' = [resume EXCEPT ![c] = "false"]
          /\ handler' = [handler EXCEPT ![c] = "none"]
    /\ UNCHANGED <<data, locks, sup, memory, listening, request, runtime, command,
                   open, wire, faults>>

-----------------------------------------------------------------------------
\* The apply command

CliGoto(c, step) == cli' = [cli EXCEPT ![c] = step]

Hangup(c) == open' = [open EXCEPT ![c] = FALSE]

\* BeginApply connects and writes APPLY; without a supervisor
\* (ErrControlUnavailable) or in maintenance mode the command goes on alone.
BeginApply(c) ==
    /\ cli[c] = "idle"
    /\ listening
    /\ CliGoto(c, "pause")
    /\ open' = [open EXCEPT ![c] = TRUE]
    /\ handler' = [handler EXCEPT ![c] = "read"]
    /\ UNCHANGED <<data, locks, sup, memory, listening, request, runtime, desired,
                   saved, wire, resume, faults>>

BeginOffline(c) ==
    /\ cli[c] = "idle"
    /\ CliGoto(c, "runtime")
    /\ UNCHANGED <<data, locks, sup, memory, listening, request, runtime, desired,
                   saved, session, faults>>

\* READY opens the session (whose other end may be closed by now); ERROR
\* (ErrControlRejected) ends the command; a closed connection
\* (ErrControlUnavailable) makes it go on alone.
ReadAnswer(c) ==
    /\ cli[c] = "pause"
    /\ \/ wire[c] = "READY" /\ CliGoto(c, "runtime") /\ UNCHANGED open
       \/ wire[c] = "ERROR" /\ CliGoto(c, "failed") /\ Hangup(c)
       \/ wire[c] = "EOF" /\ CliGoto(c, "runtime") /\ Hangup(c)
    /\ wire' = [wire EXCEPT ![c] =
                  IF @ = "READY" /\ handler[c] = "none" THEN "EOF" ELSE "none"]
    /\ UNCHANGED <<data, locks, sup, memory, listening, request, runtime, desired,
                   saved, handler, resume, faults>>

\* The 15 s deadline: ErrControlUnavailable too, so the command goes on alone
\* while its request is still with the handler.
PauseTimeout(c) ==
    /\ cli[c] = "pause"
    /\ wire[c] = "none"
    /\ CliGoto(c, "runtime")
    /\ Hangup(c)
    /\ UNCHANGED <<data, locks, sup, memory, listening, request, runtime, desired,
                   saved, handler, wire, resume, faults>>

\* ApplyPersistent: the runtime lock, then the data lock.
AcquireRuntime(c) ==
    /\ cli[c] = "runtime"
    /\ runtimeLock = None
    /\ runtimeLock' = c
    /\ CliGoto(c, "data")
    /\ UNCHANGED <<data, dataLock, sup, memory, listening, request, runtime,
                   desired, saved, session, faults>>

AcquireData(c) ==
    /\ cli[c] = "data"
    /\ dataLock = None
    /\ dataLock' = c
    /\ CliGoto(c, "write")
    /\ UNCHANGED <<data, runtimeLock, sup, memory, listening, request, runtime,
                   desired, saved, session, faults>>

\* applyLocked: refuse while an operation is pending, return when in sync,
\* else prepare the operation and install the files.
WriteFiles(c) ==
    /\ cli[c] = "write"
    /\ \/ /\ pending
          /\ CliGoto(c, "unlock")
          /\ UNCHANGED <<pending, confFile, saved>>
       \/ /\ ~pending
          /\ desired[c] = applied
          /\ CliGoto(c, "unlock")
          /\ saved' = [saved EXCEPT ![c] = TRUE]
          /\ UNCHANGED <<pending, confFile>>
       \/ /\ ~pending
          /\ desired[c] # applied
          /\ pending' = TRUE
          /\ confFile' = desired[c]
          /\ CliGoto(c, "commit")
          /\ UNCHANGED saved
    /\ UNCHANGED <<applied, locks, sup, memory, listening, request, runtime,
                   desired, session, faults>>

\* CommitConfigurationOperation.
CommitConfig(c) ==
    /\ cli[c] = "commit"
    /\ applied' = desired[c]
    /\ pending' = FALSE
    /\ saved' = [saved EXCEPT ![c] = TRUE]
    /\ CliGoto(c, "unlock")
    /\ UNCHANGED <<confFile, locks, sup, memory, listening, request, runtime,
                   desired, session, faults>>

\* What the command reports when there is no session to resume.
Offline(c) == IF saved[c] THEN "applied" ELSE "failed"

\* (Variant: the data lock's release is missing.)
ReleaseRuntimeLock(c) ==
    /\ runtimeLock' = IF runtimeLock = c THEN None ELSE runtimeLock
    /\ UNCHANGED dataLock

ReleaseLocks(c) ==
    /\ runtimeLock' = IF runtimeLock = c THEN None ELSE runtimeLock
    /\ dataLock' = IF dataLock = c THEN None ELSE dataLock

\* ApplyPersistent returns, its deferred releases run, and a session writes
\* RESUME, whether or not the apply succeeded.
FinishApply(c) ==
    /\ cli[c] = "unlock"
    /\ ReleaseLocks(c)
    /\ IF open[c]
       THEN resume' = [resume EXCEPT ![c] = "sent"] /\ CliGoto(c, "activate")
       ELSE CliGoto(c, Offline(c)) /\ UNCHANGED resume
    /\ UNCHANGED <<data, sup, memory, listening, request, runtime, desired, saved,
                   open, handler, wire, faults>>

\* Resume reads the answer.
ReadOutcome(c) ==
    /\ cli[c] = "activate"
    /\ wire[c] # "none"
    /\ CliGoto(c, CASE saved[c] /\ wire[c] = "OK" -> "activated"
                    [] saved[c] /\ wire[c] # "OK" -> "inactive"
                    [] OTHER -> "failed")
    /\ Hangup(c)
    /\ wire' = [wire EXCEPT ![c] = "none"]
    /\ UNCHANGED <<data, locks, sup, memory, listening, request, runtime, desired,
                   saved, handler, resume, faults>>

\* The 30 s deadline.
ResumeTimeout(c) ==
    /\ cli[c] = "activate"
    /\ wire[c] = "none"
    /\ CliGoto(c, IF saved[c] THEN "inactive" ELSE "failed")
    /\ Hangup(c)
    /\ UNCHANGED <<data, locks, sup, memory, listening, request, runtime, desired,
                   saved, handler, wire, resume, faults>>

\* (Variant: the runtime lock is waited for without a deadline.)
LockTimeoutDataOnly(c) ==
    /\ cli[c] = "data" /\ dataLock # None
    /\ CliGoto(c, "unlock")
    /\ UNCHANGED <<data, locks, sup, memory, listening, request, runtime, desired,
                   saved, session, faults>>

\* A lock is not free within applyLockTimeout.
LockTimeout(c) ==
    /\ \/ cli[c] = "runtime" /\ runtimeLock # None
       \/ cli[c] = "data" /\ dataLock # None
    /\ CliGoto(c, "unlock")
    /\ UNCHANGED <<data, locks, sup, memory, listening, request, runtime, desired,
                   saved, session, faults>>

-----------------------------------------------------------------------------
\* Faults

Fault == faults < MaxFaults /\ faults' = faults + 1

\* Stop signal, child exit, failing reconcile or start, or death of the
\* supervisor: in every case Run returns or the process ends.
SupervisorEnds ==
    /\ Fault
    /\ sup # "off"
    /\ Exit

\* cleanupNetwork(strict) fails: request.ready gets the error and Run returns.
\* The handler answers ERROR unless the closing server is faster, and the
\* rules may still be there.
CleanupFails ==
    /\ Fault
    /\ sup = "stop"
    /\ SupGoto("off")
    /\ network' \in {network, NoConfig}
    /\ \E answer \in {"ERROR", "EOF"} :
          wire' = [c \in Appliers |-> IF handler[c] = "none" THEN wire[c]
                                      ELSE IF c = request THEN answer ELSE "EOF"]
    /\ handler' = [c \in Appliers |-> "none"]
    /\ runtimeLock' = None
    /\ instance' = NoConfig
    /\ verified' = NoConfig
    /\ listening' = FALSE
    /\ request' = None
    /\ UNCHANGED <<data, dataLock, openvpn, command, open, resume>>

\* The apply fails and its rollback closure runs.
ApplyFails(c) ==
    /\ Fault
    /\ cli[c] \in {"write", "commit"}
    /\ confFile' = IF cli[c] = "commit" THEN applied ELSE confFile
    /\ pending' = IF cli[c] = "commit" THEN FALSE ELSE pending
    /\ CliGoto(c, "unlock")
    /\ UNCHANGED <<applied, locks, sup, memory, listening, request, runtime,
                   desired, saved, session>>

\* The command dies: the kernel closes its connection and drops its locks.
CommandDies(c) ==
    /\ Fault
    /\ cli[c] \notin Outcomes \cup {"idle"}
    /\ CliGoto(c, "crashed")
    /\ Hangup(c)
    /\ ReleaseLocks(c)
    /\ UNCHANGED <<data, sup, memory, listening, request, runtime, desired, saved,
                   handler, wire, resume>>

-----------------------------------------------------------------------------
SupervisorStep ==
    \/ LoadState \/ LoadMetadata \/ VerifyConfig \/ VerifyRefused \/ Listen
    \/ AcquireShared \/ SharedTimeout \/ Reconcile \/ StartProcesses
    \/ \E c \in Appliers : TakeRequest(c)
    \/ Yield \/ Resumed \/ Abandoned

HandlerStep(c) == HandleApply(c) \/ HandleResume(c)

CommandStep(c) ==
    \/ ReadAnswer(c) \/ PauseTimeout(c)
    \/ AcquireRuntime(c) \/ AcquireData(c) \/ LockTimeout(c)
    \/ WriteFiles(c) \/ CommitConfig(c) \/ FinishApply(c)
    \/ ReadOutcome(c) \/ ResumeTimeout(c)

Next ==
    \/ Recover \/ ForwardHup \/ SupervisorStep
    \/ SupervisorEnds \/ CleanupFails
    \/ \E c \in Appliers :
          \/ BeginApply(c) \/ BeginOffline(c)
          \/ HandlerStep(c) \/ CommandStep(c)
          \/ ApplyFails(c) \/ CommandDies(c)

Spec == Init /\ [][Next]_vars

\* Running processes and goroutines keep running; nobody has to start one.
FairSpec ==
    /\ Spec
    /\ WF_vars(SupervisorStep)
    /\ \A c \in Appliers : WF_vars(HandlerStep(c)) /\ WF_vars(CommandStep(c))

-----------------------------------------------------------------------------
\* Properties

\* configuration/apply.go: "configuration writes cannot overlap OpenVPN
\* execution": no OpenVPN runs while an apply holds the runtime lock, whoever
\* timed out, died or resumed.
NoWriteWhileRunning == runtimeLock \in Appliers => openvpn = NoConfig

\* A supervisor that answers OK to an apply command runs OpenVPN and firewall
\* rules of the configuration SQLite has at that moment.
RestartRunsApplied ==
    [][\A c \in Appliers : wire'[c] = "OK" /\ wire[c] # "OK" =>
          openvpn' = applied' /\ network' = applied']_vars

\* A stopped runtime is brought back, or the supervisor exits and leaves the
\* restart to the container: it never waits for ever.
PauseEnds == sup = "paused" ~> sup \in {"serve", "off"}

\* Every apply command ends: no wait between command, handler, supervisor and
\* the two locks is a deadlock.
CommandEnds == \A c \in Appliers : cli[c] # "idle" ~> cli[c] \in Outcomes

\* runtime/state.go: LoadInstance "verifies the server configuration artifact
\* before any runtime process is started": what runs is the applied
\* configuration.
RuntimeRunsApplied ==
    openvpn # NoConfig => openvpn = applied /\ network = applied
=============================================================================
