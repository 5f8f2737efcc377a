------------------------- MODULE RuntimeControlProofs -------------------------
(***************************************************************************)
(* Proofs about RuntimeControl, for any number of apply commands, any      *)
(* configurations and any number of faults.                                *)
(***************************************************************************)
EXTENDS RuntimeControl, TLAPS

\* The supervisor's steps that it takes with the shared runtime lock.
SupHolds ==
    \/ sup \in {"network", "start", "serve", "stop"}
    \/ request # None /\ sup \in {"load", "metadata", "verify"}

\* Who holds the runtime lock, and that OpenVPN runs only under it.
LockInv ==
    /\ SupHolds <=> runtimeLock = "shared"
    /\ openvpn # NoConfig => sup = "serve"
    /\ \A c \in Appliers :
          cli[c] \in {"data", "write", "commit"} => runtimeLock = c
    /\ sup \in {"stop", "paused"} => request # None
    /\ sup \in {"off", "listen", "serve"} => request = None

\* A supervisor that restarts the runtime has read the applied configuration,
\* and server.conf is that configuration's.
ReloadInv ==
    request # None =>
        /\ sup \in {"metadata", "verify", "network", "start"} => instance = applied
        /\ sup \in {"verify", "network", "start"} => verified = applied
        /\ sup \in {"network", "start"} => confFile = applied
        /\ sup = "start" => network = instance

RInv == LockInv /\ ReloadInv

SupervisorOther == Recover \/ ForwardHup \/ SupervisorEnds \/ CleanupFails

CommandOrHandler ==
    \E c \in Appliers :
        \/ BeginApply(c) \/ BeginOffline(c)
        \/ HandlerStep(c) \/ CommandStep(c)
        \/ ApplyFails(c) \/ CommandDies(c)

-----------------------------------------------------------------------------
\* Type correctness

LEMMA InitTypeOK == Init => TypeOK
<1> SUFFICES ASSUME Init PROVE TypeOK
  OBVIOUS
<1>1. /\ cli \in [Appliers -> CliSteps]
      /\ handler \in [Appliers -> HandlerSteps]
      /\ wire \in [Appliers -> Answers]
      /\ resume \in [Appliers -> {"none", "sent", "true", "false"}]
  BY DEF Init, CliSteps, HandlerSteps, Answers
<1>2. saved \in [Appliers -> BOOLEAN] /\ open \in [Appliers -> BOOLEAN]
  BY DEF Init
<1>3. pending \in BOOLEAN /\ listening \in BOOLEAN
  BY DEF Init
<1>4. faults \in 0..MaxFaults
  BY MaxFaultsAssumption DEF Init
<1> QED
  BY <1>1, <1>2, <1>3, <1>4 DEF Init, TypeOK, SupSteps

\* However Run returns, the handlers and the answers stay what they may be.
LEMMA ExitTypeOK == TypeOK /\ Exit /\ faults' \in 0..MaxFaults => TypeOK'
<1> SUFFICES ASSUME TypeOK, Exit, faults' \in 0..MaxFaults PROVE TypeOK'
  OBVIOUS
<1>1. handler' \in [Appliers -> HandlerSteps]
  BY DEF Exit, HandlerSteps
<1>2. wire' \in [Appliers -> Answers]
  BY DEF Exit, TypeOK, Answers
<1> QED
  BY <1>1, <1>2, SharedAssumption
  DEF Exit, TypeOK, Locking, SupSteps, SupGoto, data, command

LEMMA SupervisorTypeOK == TypeOK /\ SupervisorStep => TypeOK'
<1> SUFFICES ASSUME TypeOK, SupervisorStep PROVE TypeOK'
  OBVIOUS
<1> USE MaxFaultsAssumption, NoneAssumption, SharedAssumption
    DEF TypeOK, Locking, SupSteps, CliSteps, HandlerSteps, Answers, Outcomes,
        SupGoto, CliGoto, data, locks, memory, runtime, session, command
<1>1. CASE LoadState
  BY <1>1 DEF LoadState
<1>2. CASE LoadMetadata
  BY <1>2 DEF LoadMetadata
<1>3. CASE VerifyConfig
  BY <1>3 DEF VerifyConfig
<1>4. CASE VerifyRefused
  BY <1>4, ExitTypeOK DEF VerifyRefused
<1>5. CASE Listen
  BY <1>5 DEF Listen
<1>6. CASE AcquireShared
  BY <1>6 DEF AcquireShared
<1>7. CASE SharedTimeout
  BY <1>7, ExitTypeOK DEF SharedTimeout
<1>8. CASE Reconcile
  BY <1>8 DEF Reconcile
<1>9. CASE StartProcesses
  BY <1>9 DEF StartProcesses, Answer
<1>10. ASSUME NEW c \in Appliers, TakeRequest(c) PROVE TypeOK'
  BY <1>10 DEF TakeRequest
<1>11. CASE Yield
  BY <1>11 DEF Yield
<1>12. CASE Resumed
  BY <1>12 DEF Resumed
<1>13. CASE Abandoned
  BY <1>13, ExitTypeOK DEF Abandoned
<1> QED
  BY <1>1, <1>2, <1>3, <1>4, <1>5, <1>6, <1>7, <1>8, <1>9, <1>10, <1>11,
     <1>12, <1>13 DEF SupervisorStep

LEMMA OtherTypeOK == TypeOK /\ SupervisorOther => TypeOK'
<1> SUFFICES ASSUME TypeOK, SupervisorOther PROVE TypeOK'
  OBVIOUS
<1> USE MaxFaultsAssumption, NoneAssumption, SharedAssumption
    DEF TypeOK, Locking, SupSteps, CliSteps, HandlerSteps, Answers, Outcomes,
        SupGoto, CliGoto, data, locks, memory, runtime, session, command
<1>1. CASE Recover
  BY <1>1 DEF Recover
<1>2. CASE ForwardHup
  BY <1>2 DEF ForwardHup
<1>3. CASE SupervisorEnds
  <2>1. faults' \in 0..MaxFaults
    BY <1>3 DEF SupervisorEnds, Fault
  <2> QED
    BY <1>3, <2>1, ExitTypeOK DEF SupervisorEnds
<1>4. CASE CleanupFails
  <2>1. faults' \in 0..MaxFaults
    BY <1>4 DEF CleanupFails, Fault
  <2>2. wire' \in [Appliers -> Answers] /\ handler' \in [Appliers -> HandlerSteps]
    BY <1>4 DEF CleanupFails
  <2> QED
    BY <1>4, <2>1, <2>2 DEF CleanupFails
<1> QED
  BY <1>1, <1>2, <1>3, <1>4 DEF SupervisorOther

LEMMA CommandTypeOK == TypeOK /\ CommandOrHandler => TypeOK'
<1> SUFFICES ASSUME TypeOK, CommandOrHandler PROVE TypeOK'
  OBVIOUS
<1> USE MaxFaultsAssumption, NoneAssumption, SharedAssumption
    DEF TypeOK, Locking, SupSteps, CliSteps, HandlerSteps, Answers, Outcomes,
        SupGoto, CliGoto, data, locks, memory, runtime, session, command
<1>1. ASSUME NEW c \in Appliers, BeginApply(c) PROVE TypeOK'
  BY <1>1 DEF BeginApply
<1>2. ASSUME NEW c \in Appliers, BeginOffline(c) PROVE TypeOK'
  BY <1>2 DEF BeginOffline
<1>3. ASSUME NEW c \in Appliers, HandleApply(c) PROVE TypeOK'
  BY <1>3 DEF HandleApply, Answer
<1>4. ASSUME NEW c \in Appliers, HandleResume(c) PROVE TypeOK'
  BY <1>4 DEF HandleResume
<1>5. ASSUME NEW c \in Appliers, ReadAnswer(c) PROVE TypeOK'
  <2>1. open' \in [Appliers -> BOOLEAN]
    BY <1>5 DEF ReadAnswer, Hangup
  <2>2. cli' \in [Appliers -> CliSteps] /\ wire' \in [Appliers -> Answers]
    BY <1>5 DEF ReadAnswer
  <2> QED
    BY <1>5, <2>1, <2>2 DEF ReadAnswer
<1>6. ASSUME NEW c \in Appliers, PauseTimeout(c) PROVE TypeOK'
  BY <1>6 DEF PauseTimeout, Hangup
<1>7. ASSUME NEW c \in Appliers, AcquireRuntime(c) PROVE TypeOK'
  BY <1>7 DEF AcquireRuntime
<1>8. ASSUME NEW c \in Appliers, AcquireData(c) PROVE TypeOK'
  BY <1>8 DEF AcquireData
<1>9. ASSUME NEW c \in Appliers, LockTimeout(c) PROVE TypeOK'
  BY <1>9 DEF LockTimeout
<1>10. ASSUME NEW c \in Appliers, WriteFiles(c) PROVE TypeOK'
  <2>1. saved' \in [Appliers -> BOOLEAN] /\ pending' \in BOOLEAN
    BY <1>10 DEF WriteFiles
  <2>2. cli' \in [Appliers -> CliSteps] /\ confFile' \in Configs /\ applied' \in Configs
    BY <1>10 DEF WriteFiles
  <2> QED
    BY <1>10, <2>1, <2>2 DEF WriteFiles
<1>11. ASSUME NEW c \in Appliers, CommitConfig(c) PROVE TypeOK'
  <2>1. saved' \in [Appliers -> BOOLEAN] /\ pending' \in BOOLEAN
    BY <1>11 DEF CommitConfig
  <2>2. cli' \in [Appliers -> CliSteps] /\ confFile' \in Configs /\ applied' \in Configs
    BY <1>11 DEF CommitConfig
  <2> QED
    BY <1>11, <2>1, <2>2 DEF CommitConfig
<1>12. ASSUME NEW c \in Appliers, FinishApply(c) PROVE TypeOK'
  BY <1>12 DEF FinishApply, ReleaseLocks, Offline
<1>13. ASSUME NEW c \in Appliers, ReadOutcome(c) PROVE TypeOK'
  BY <1>13 DEF ReadOutcome, Hangup
<1>14. ASSUME NEW c \in Appliers, ResumeTimeout(c) PROVE TypeOK'
  BY <1>14 DEF ResumeTimeout, Hangup
<1>15. ASSUME NEW c \in Appliers, ApplyFails(c) PROVE TypeOK'
  <2>1. pending' \in BOOLEAN
    BY <1>15 DEF ApplyFails
  <2>2. faults' \in 0..MaxFaults
    BY <1>15 DEF ApplyFails, Fault
  <2>3. confFile' \in Configs /\ cli' \in [Appliers -> CliSteps]
    BY <1>15 DEF ApplyFails
  <2>4. UNCHANGED <<applied, locks, sup, memory, listening, request, runtime,
                    desired, saved, session>>
    BY <1>15 DEF ApplyFails
  <2>5. \A d \in Appliers : Locking(d) => Locking(d)'
    BY <1>15 DEF ApplyFails
  <2> QED
    BY <2>1, <2>2, <2>3, <2>4, <2>5
<1>16. ASSUME NEW c \in Appliers, CommandDies(c) PROVE TypeOK'
  BY <1>16 DEF CommandDies, Fault, ReleaseLocks, Hangup
<1> QED
  BY <1>1, <1>2, <1>3, <1>4, <1>5, <1>6, <1>7, <1>8, <1>9, <1>10, <1>11,
     <1>12, <1>13, <1>14, <1>15, <1>16 DEF CommandOrHandler, HandlerStep,
     CommandStep

LEMMA NextTypeOK == TypeOK /\ [Next]_vars => TypeOK'
<1>1. TypeOK /\ UNCHANGED vars => TypeOK'
  BY DEF TypeOK, Locking, vars, data, locks, memory, runtime, session, command
<1> QED
  BY <1>1, SupervisorTypeOK, OtherTypeOK, CommandTypeOK
  DEF Next, SupervisorOther, CommandOrHandler

-----------------------------------------------------------------------------
\* Locks and reload

LEMMA InitRInv == Init => RInv
  BY NoneAssumption DEF Init, RInv, LockInv, ReloadInv, SupHolds

LEMMA SupervisorRInv == TypeOK /\ RInv /\ SupervisorStep => RInv'
<1> SUFFICES ASSUME TypeOK, RInv, SupervisorStep PROVE RInv'
  OBVIOUS
<1> USE NoneAssumption, SharedAssumption DEF TypeOK, RInv, LockInv, ReloadInv,
        SupHolds, SupGoto, CliGoto, data, locks, memory, runtime, session, command
<1>1. CASE LoadState
  BY <1>1 DEF LoadState
<1>2. CASE LoadMetadata
  BY <1>2 DEF LoadMetadata
<1>3. CASE VerifyConfig
  BY <1>3 DEF VerifyConfig
<1>4. CASE VerifyRefused
  BY <1>4 DEF VerifyRefused, Exit
<1>5. CASE Listen
  BY <1>5 DEF Listen
<1>6. CASE AcquireShared
  BY <1>6 DEF AcquireShared
<1>7. CASE SharedTimeout
  BY <1>7 DEF SharedTimeout, Exit
<1>8. CASE Reconcile
  BY <1>8 DEF Reconcile
<1>9. CASE StartProcesses
  BY <1>9 DEF StartProcesses, Answer
<1>10. ASSUME NEW c \in Appliers, TakeRequest(c) PROVE RInv'
  BY <1>10 DEF TakeRequest
<1>11. CASE Yield
  BY <1>11 DEF Yield
<1>12. CASE Resumed
  BY <1>12 DEF Resumed
<1>13. CASE Abandoned
  BY <1>13 DEF Abandoned, Exit
<1> QED
  BY <1>1, <1>2, <1>3, <1>4, <1>5, <1>6, <1>7, <1>8, <1>9, <1>10, <1>11,
     <1>12, <1>13 DEF SupervisorStep

LEMMA OtherRInv == TypeOK /\ RInv /\ SupervisorOther => RInv'
<1> SUFFICES ASSUME TypeOK, RInv, SupervisorOther PROVE RInv'
  OBVIOUS
<1> USE NoneAssumption, SharedAssumption DEF TypeOK, RInv, LockInv, ReloadInv,
        SupHolds, SupGoto, CliGoto, data, locks, memory, runtime, session, command
<1>1. CASE Recover
  BY <1>1 DEF Recover
<1>2. CASE ForwardHup
  BY <1>2 DEF ForwardHup
<1>3. CASE SupervisorEnds
  BY <1>3 DEF SupervisorEnds, Exit, Fault
<1>4. CASE CleanupFails
  BY <1>4 DEF CleanupFails, Fault
<1> QED
  BY <1>1, <1>2, <1>3, <1>4 DEF SupervisorOther

LEMMA CommandRInv == TypeOK /\ RInv /\ CommandOrHandler => RInv'
<1> SUFFICES ASSUME TypeOK, RInv, CommandOrHandler PROVE RInv'
  OBVIOUS
<1> USE NoneAssumption, SharedAssumption DEF TypeOK, RInv, LockInv, ReloadInv,
        SupHolds, SupGoto, CliGoto, data, locks, memory, runtime, session, command
<1>1. ASSUME NEW c \in Appliers, BeginApply(c) PROVE RInv'
  BY <1>1 DEF BeginApply
<1>2. ASSUME NEW c \in Appliers, BeginOffline(c) PROVE RInv'
  BY <1>2 DEF BeginOffline
<1>3. ASSUME NEW c \in Appliers, HandleApply(c) PROVE RInv'
  BY <1>3 DEF HandleApply, Answer
<1>4. ASSUME NEW c \in Appliers, HandleResume(c) PROVE RInv'
  BY <1>4 DEF HandleResume
<1>5. ASSUME NEW c \in Appliers, ReadAnswer(c) PROVE RInv'
  BY <1>5 DEF ReadAnswer, Hangup
<1>6. ASSUME NEW c \in Appliers, PauseTimeout(c) PROVE RInv'
  BY <1>6 DEF PauseTimeout, Hangup
<1>7. ASSUME NEW c \in Appliers, AcquireRuntime(c) PROVE RInv'
  BY <1>7 DEF AcquireRuntime
<1>8. ASSUME NEW c \in Appliers, AcquireData(c) PROVE RInv'
  BY <1>8 DEF AcquireData
<1>9. ASSUME NEW c \in Appliers, LockTimeout(c) PROVE RInv'
  BY <1>9 DEF LockTimeout
<1>10. ASSUME NEW c \in Appliers, WriteFiles(c) PROVE RInv'
  BY <1>10 DEF WriteFiles
<1>11. ASSUME NEW c \in Appliers, CommitConfig(c) PROVE RInv'
  BY <1>11 DEF CommitConfig
<1>12. ASSUME NEW c \in Appliers, FinishApply(c) PROVE RInv'
  BY <1>12 DEF FinishApply, ReleaseLocks, Offline
<1>13. ASSUME NEW c \in Appliers, ReadOutcome(c) PROVE RInv'
  BY <1>13 DEF ReadOutcome, Hangup
<1>14. ASSUME NEW c \in Appliers, ResumeTimeout(c) PROVE RInv'
  BY <1>14 DEF ResumeTimeout, Hangup
<1>15. ASSUME NEW c \in Appliers, ApplyFails(c) PROVE RInv'
  BY <1>15 DEF ApplyFails, Fault
<1>16. ASSUME NEW c \in Appliers, CommandDies(c) PROVE RInv'
  BY <1>16 DEF CommandDies, Fault, ReleaseLocks, Hangup
<1> QED
  BY <1>1, <1>2, <1>3, <1>4, <1>5, <1>6, <1>7, <1>8, <1>9, <1>10, <1>11,
     <1>12, <1>13, <1>14, <1>15, <1>16 DEF CommandOrHandler, HandlerStep,
     CommandStep

LEMMA NextRInv == TypeOK /\ RInv /\ [Next]_vars => RInv'
<1>1. TypeOK /\ RInv /\ UNCHANGED vars => RInv'
  BY DEF RInv, LockInv, ReloadInv, SupHolds, vars, data, locks, memory, runtime, session, command
<1> QED
  BY <1>1, SupervisorRInv, OtherRInv, CommandRInv
  DEF Next, SupervisorOther, CommandOrHandler

\* In every reachable state, every actor and every channel is in one of the
\* states its code has.
THEOREM TypeCorrect == Spec => []TypeOK
<1> QED
  BY InitTypeOK, NextTypeOK, PTL DEF Spec

\* The lock and reload invariants hold in every reachable state: whoever holds
\* the runtime lock is the one whose step needs it, and what the supervisor
\* reloaded under the lock is what SQLite has.
THEOREM Invariance == Spec => [](TypeOK /\ RInv)
<1> QED
  BY InitTypeOK, InitRInv, NextTypeOK, NextRInv, PTL DEF Spec

\* No OpenVPN process runs while an apply command holds the runtime lock,
\* however many commands there are and whoever timed out or died.
THEOREM WritesNeverOverlapOpenVPN == Spec => []NoWriteWhileRunning
<1>1. RInv => NoWriteWhileRunning
  BY SharedAssumption DEF RInv, LockInv, SupHolds, NoWriteWhileRunning
<1> QED
  BY <1>1, Invariance, PTL

\* When the supervisor answers OK, OpenVPN and the firewall rules are those of
\* the configuration SQLite holds.
THEOREM RestartAlwaysRunsApplied == Spec => RestartRunsApplied
<1> DEFINE Restarted == \A c \in Appliers : wire'[c] = "OK" /\ wire[c] # "OK" =>
                            openvpn' = applied' /\ network' = applied'
<1>1. TypeOK /\ RInv /\ [Next]_vars => [Restarted]_vars
  <2> SUFFICES ASSUME TypeOK, RInv, Next PROVE Restarted
    OBVIOUS
  <2>1. CASE StartProcesses
    BY <2>1 DEF StartProcesses, Answer, RInv, ReloadInv, TypeOK, data
  <2>2. CASE wire' = wire
    BY <2>2
  <2>3. CASE \A c \in Appliers : wire'[c] \in {wire[c], "none", "READY", "ERROR", "EOF"}
    BY <2>3
  <2>4. ASSUME NEW c \in Appliers, HandleApply(c) \/ ReadAnswer(c) \/ ReadOutcome(c)
        PROVE  Restarted
    BY <2>4, <2>3 DEF HandleApply, ReadAnswer, ReadOutcome, Answer, TypeOK
  <2>5. CASE Exit \/ CleanupFails \/ Yield
    BY <2>5, <2>3 DEF Exit, CleanupFails, Yield, TypeOK
  <2> QED
    BY <2>1, <2>2, <2>4, <2>5
    DEF Next, SupervisorStep, HandlerStep, CommandStep, session, LoadState,
        LoadMetadata, VerifyConfig, VerifyRefused, Listen, AcquireShared,
        SharedTimeout, Reconcile, TakeRequest, Resumed, Abandoned, Recover,
        ForwardHup, SupervisorEnds, BeginApply, BeginOffline, HandleResume,
        PauseTimeout, AcquireRuntime, AcquireData, LockTimeout, WriteFiles,
        CommitConfig, FinishApply, ResumeTimeout, ApplyFails, CommandDies
<1> QED
  BY <1>1, Invariance, PTL DEF Spec, RestartRunsApplied
=============================================================================
