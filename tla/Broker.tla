-------------------------------- MODULE Broker -------------------------------
(***************************************************************************)
(* The management broker (broker/broker.go): one Backend that owns the     *)
(* single OpenVPN management connection and answers the commands of many   *)
(* clients over it.  The actors are the goroutines of Request (one per     *)
(* client command), Maintain (which reconnects), one read goroutine per    *)
(* connection ever made, and OpenVPN (external: it answers every command   *)
(* with one terminated response and reports a completed initialization).   *)
(*                                                                         *)
(* Backend.mu protects single assignments and is the grain of the steps;   *)
(* commandMu is a variable.  A command is identified by who sent it, why   *)
(* ("log on all" of connect, or the client's own command) and the          *)
(* connection it was written to; a response line by the command it         *)
(* answers.  bufio keeps lines a reader has not looked at yet, also after  *)
(* the connection was closed, so a reader may outlive its connection.      *)
(***************************************************************************)
EXTENDS Naturals, Sequences

CONSTANTS
    Requesters, \* client commands, each one Request
    Reloaders,  \* those that are "signal SIGHUP"
    Maintain,   \* the goroutine that keeps the connection up
    None,       \* nobody, nil
    MaxConns    \* bound on the connections ever made

ASSUME ReloadersAssumption == Reloaders \subseteq Requesters

ASSUME MaintainAssumption == Maintain \notin Requesters

ASSUME NoneAssumption == None \notin Requesters \cup {Maintain}

ASSUME MaxConnsAssumption == MaxConns \in Nat

VARIABLES
    commandMu,  \* the holder of commandMu
    conn,       \* backend.conn, 0 = nil
    pending,    \* backend.pending: the command it waits for, None = nil
    reloadDone, \* backend.reloadDone: the reload in progress, None = nil
    generation, \* backend.generation
    closed,     \* backend.closed; the service's context is cancelled too
    pc,         \* per goroutine: its next step or its outcome
    target,     \* per goroutine: the connection it uses
    seen,       \* per goroutine: the generation captured by Request
    err,        \* per goroutine: its pendingResponse failed
    lines,      \* per goroutine: the lines of its pendingResponse
    link,       \* per connection: "unused", "open", "logging" (subscribed),
                \* "lost" (closed by OpenVPN) or "closed" (by the broker)
    reader,     \* per connection: its read goroutine
    failing,    \* per connection: the waiter its reader's disconnect must fail
    inbox,      \* per connection: commands OpenVPN has not answered
    outbox,     \* per connection: lines the reader has not looked at
    vpn,        \* OpenVPN: "starting" or "ready"
    thrown,     \* OpenVPN: reloads whose SIGHUP it took, not initialised since
    fresh,      \* history: reloads after whose SIGHUP it initialised
    crossed     \* history: a reader gave a line to another connection's command

backend == <<commandMu, conn, pending, reloadDone, generation, closed>>
waiter  == <<err, lines>>
wires   == <<link, reader, failing, inbox, outbox>>
openvpn == <<vpn, thrown, fresh>>
vars    == <<backend, pc, target, seen, waiter, wires, openvpn, crossed>>

Procs == Requesters \cup {Maintain}
Conns == 1..MaxConns

\* "reloaded": a reload returned nil after waitInitialization.
Outcomes == {"ok", "reloaded", "error"}

Steps == {"idle", "gate", "mutex", "check", "dial", "subscribe", "subscribing",
          "subscribed", "exchange", "awaiting", "answered", "initwait"}
         \cup Outcomes

\* A command on a connection: the subscription or the client's own.
Commands == [by : Procs, why : {"subscribe", "request"}, on : Conns]

ASSUME NoCommandAssumption == None \notin Commands

\* What a reader gets: an event, or the terminal line of a response.
Event  == [event : {"initialized"}]
Answer == [to : Commands, success : BOOLEAN]

TypeOK ==
    /\ commandMu \in Procs \cup {None}
    /\ conn \in 0..MaxConns
    /\ pending \in Commands \cup {None}
    /\ reloadDone \in Reloaders \cup {None}
    /\ generation \in Nat
    /\ closed \in BOOLEAN
    /\ pc \in [Procs -> Steps]
    /\ target \in [Procs -> 0..MaxConns]
    /\ seen \in [Procs -> Nat]
    /\ err \in [Procs -> BOOLEAN]
    /\ lines \in [Procs -> Seq(Answer)]
    /\ link \in [Conns -> {"unused", "open", "logging", "lost", "closed"}]
    /\ reader \in [Conns -> {"none", "running", "ended"}]
    /\ failing \in [Conns -> Procs \cup {None}]
    /\ inbox \in [Conns -> Seq(Commands)]
    /\ outbox \in [Conns -> Seq(Event \cup Answer)]
    /\ vpn \in {"starting", "ready"}
    /\ thrown \subseteq Reloaders
    /\ fresh \subseteq Reloaders
    /\ crossed \in BOOLEAN

\* broker and OpenVPN have just been started.
Init ==
    /\ commandMu = None
    /\ conn = 0
    /\ pending = None
    /\ reloadDone = None
    /\ generation = 0
    /\ closed = FALSE
    /\ pc = [p \in Procs |-> "idle"]
    /\ target = [p \in Procs |-> 0]
    /\ seen = [p \in Procs |-> 0]
    /\ err = [p \in Procs |-> FALSE]
    /\ lines = [p \in Procs |-> <<>>]
    /\ link = [c \in Conns |-> "unused"]
    /\ reader = [c \in Conns |-> "none"]
    /\ failing = [c \in Conns |-> None]
    /\ inbox = [c \in Conns |-> <<>>]
    /\ outbox = [c \in Conns |-> <<>>]
    /\ vpn = "starting"
    /\ thrown = {}
    /\ fresh = {}
    /\ crossed = FALSE

Goto(p, step) == pc' = [pc EXCEPT ![p] = step]

-----------------------------------------------------------------------------
\* disconnect

\* connection.Close: what the reader's buffer does not hold yet is lost, and so
\* is a command OpenVPN has not looked at.
CloseLink(c) ==
    /\ link' = [link EXCEPT ![c] = "closed"]
    /\ inbox' = [inbox EXCEPT ![c] = <<>>]
    /\ \E n \in 0..Len(outbox[c]) :
          outbox' = [outbox EXCEPT ![c] = SubSeq(@, 1, n)]
    /\ UNCHANGED <<reader, failing>>

\* disconnect, called by the goroutine p that exchanges on its target.
Disconnect(p) ==
    IF conn = target[p]
    THEN /\ conn' = 0
         /\ pending' = None
         /\ err' = [err EXCEPT ![p] = TRUE]
         /\ CloseLink(target[p])
    ELSE UNCHANGED <<conn, pending, err, wires>>

-----------------------------------------------------------------------------
\* Request and EnsureConnected

\* A client sends a command.
Begin(p) ==
    /\ p \in Requesters
    /\ pc[p] = "idle"
    /\ Goto(p, "gate")
    /\ UNCHANGED <<backend, target, seen, waiter, wires, openvpn, crossed>>

\* Wait until no reload is in progress.
Gate(p) ==
    /\ pc[p] = "gate"
    /\ \/ reloadDone = None /\ Goto(p, "mutex")
       \/ reloadDone # None /\ closed /\ Goto(p, "error")
    /\ UNCHANGED <<backend, target, seen, waiter, wires, openvpn, crossed>>

\* commandMu.Lock; for Maintain, a tick of EnsureConnected.
LockCommand(p) ==
    /\ pc[p] = IF p = Maintain THEN "idle" ELSE "mutex"
    /\ commandMu = None
    /\ commandMu' = p
    /\ Goto(p, "check")
    /\ UNCHANGED <<conn, pending, reloadDone, generation, closed, target, seen,
                   waiter, wires, openvpn, crossed>>

\* (Variant: no second look at reloadDone under commandMu.)
CheckOnce(p) ==
    /\ p \in Requesters
    /\ pc[p] = "check"
    /\ ~closed
    /\ target' = [target EXCEPT ![p] = conn]
    /\ seen' = [seen EXCEPT ![p] = generation]
    /\ reloadDone' = IF p \in Reloaders THEN p ELSE reloadDone
    /\ Goto(p, IF conn = 0 THEN "dial" ELSE "exchange")
    /\ UNCHANGED <<commandMu, conn, pending, generation, closed, waiter, wires,
                   openvpn, crossed>>

\* (Variant: every request, not only a reload, shuts the gate.)
CheckAllReload(p) ==
    /\ p \in Requesters
    /\ pc[p] = "check"
    /\ reloadDone = None
    /\ ~closed
    /\ target' = [target EXCEPT ![p] = conn]
    /\ seen' = [seen EXCEPT ![p] = generation]
    /\ reloadDone' = p
    /\ Goto(p, IF conn = 0 THEN "dial" ELSE "exchange")
    /\ UNCHANGED <<commandMu, conn, pending, generation, closed, waiter, wires,
                   openvpn, crossed>>

\* Under both mutexes: back to the gate if a reload came first, else capture
\* connection and generation and, for a reload, shut the gate.
Check(p) ==
    /\ p \in Requesters
    /\ pc[p] = "check"
    /\ \/ /\ reloadDone # None \/ closed
          /\ commandMu' = None
          /\ Goto(p, IF reloadDone # None THEN "gate" ELSE "error")
          /\ UNCHANGED <<reloadDone, target, seen>>
       \/ /\ reloadDone = None
          /\ ~closed
          /\ target' = [target EXCEPT ![p] = conn]
          /\ seen' = [seen EXCEPT ![p] = generation]
          /\ reloadDone' = IF p \in Reloaders THEN p ELSE None
          /\ Goto(p, IF conn = 0 THEN "dial" ELSE "exchange")
          /\ UNCHANGED commandMu
    /\ UNCHANGED <<conn, pending, generation, closed, waiter, wires, openvpn, crossed>>

\* EnsureConnected.
CheckConnected ==
    /\ pc[Maintain] = "check"
    /\ IF closed \/ conn # 0
       THEN commandMu' = None /\ Goto(Maintain, IF closed THEN "ok" ELSE "idle")
       ELSE UNCHANGED commandMu /\ Goto(Maintain, "dial")
    /\ UNCHANGED <<conn, pending, reloadDone, generation, closed, target, seen,
                   waiter, wires, openvpn, crossed>>

\* connect: dial, read the greeting, publish the connection, start its reader.
Connect(p, c) ==
    /\ pc[p] = "dial"
    /\ ~closed
    /\ link[c] = "unused"
    /\ \A d \in Conns : d < c => link[d] # "unused"
    /\ conn' = c
    /\ link' = [link EXCEPT ![c] = "open"]
    /\ reader' = [reader EXCEPT ![c] = "running"]
    /\ target' = [target EXCEPT ![p] = c]
    /\ Goto(p, "subscribe")
    /\ UNCHANGED <<commandMu, pending, reloadDone, generation, closed, seen,
                   waiter, failing, inbox, outbox, openvpn, crossed>>

\* The goroutine returns: commandMu and its reload, if any, are released.
FinishReload(p) == reloadDone' = IF reloadDone = p THEN None ELSE reloadDone

Leave(p, outcome) ==
    /\ commandMu' = IF commandMu = p THEN None ELSE commandMu
    /\ FinishReload(p)
    /\ target' = [target EXCEPT ![p] = 0]
    /\ seen' = [seen EXCEPT ![p] = 0]
    /\ lines' = [lines EXCEPT ![p] = <<>>]
    /\ Goto(p, IF p = Maintain THEN "idle" ELSE outcome)

\* Nobody listens, no greeting in time, or the broker was closed meanwhile.
ConnectFails(p) ==
    /\ pc[p] = "dial"
    /\ Leave(p, "error")
    /\ UNCHANGED <<conn, pending, generation, closed, err, wires, openvpn, crossed>>

\* exchange: register the pendingResponse and write the command, unless the
\* connection is gone.
Exchange(p) ==
    /\ pc[p] \in {"subscribe", "exchange"}
    /\ LET subscribe == pc[p] = "subscribe"
           command == [by |-> p, on |-> target[p],
                       why |-> IF subscribe THEN "subscribe" ELSE "request"]
       IN IF conn # target[p] \/ pending # None
          THEN /\ Goto(p, IF subscribe THEN "subscribed" ELSE "answered")
               /\ err' = [err EXCEPT ![p] = TRUE]
               /\ lines' = [lines EXCEPT ![p] = <<>>]
               /\ UNCHANGED <<pending, inbox>>
          ELSE /\ pending' = command
               /\ inbox' = [inbox EXCEPT ![target[p]] = Append(@, command)]
               /\ err' = [err EXCEPT ![p] = FALSE]
               /\ lines' = [lines EXCEPT ![p] = <<>>]
               /\ Goto(p, IF subscribe THEN "subscribing" ELSE "awaiting")
    /\ UNCHANGED <<commandMu, conn, reloadDone, generation, closed, target, seen,
                   link, reader, failing, outbox, openvpn, crossed>>

Waiting(p) == pc[p] \in {"subscribing", "awaiting"}

\* The exchange is over: what it returns is decided next.
Returned(p) == IF pc[p] = "subscribing" THEN "subscribed" ELSE "answered"

\* pending.done is closed.
Collect(p) ==
    /\ Waiting(p)
    /\ err[p] \/ lines[p] # <<>>
    /\ pending' = IF pending # None /\ pending.by = p THEN None ELSE pending
    /\ Goto(p, Returned(p))
    /\ UNCHANGED <<commandMu, conn, reloadDone, generation, closed, target, seen,
                   waiter, wires, openvpn, crossed>>

\* (Variant: the connection is kept.)
TimeoutKeeps(p) ==
    /\ Waiting(p)
    /\ pending' = None
    /\ err' = [err EXCEPT ![p] = TRUE]
    /\ Goto(p, Returned(p))
    /\ UNCHANGED <<commandMu, conn, reloadDone, generation, closed, target, seen,
                   lines, wires, openvpn, crossed>>

\* The timer, or the cancelled context.
Timeout(p) ==
    /\ Waiting(p)
    /\ Disconnect(p)
    /\ Goto(p, Returned(p))
    /\ UNCHANGED <<commandMu, reloadDone, generation, closed, target, seen, lines,
                   openvpn, crossed>>

Succeeded(p) == ~err[p] /\ lines[p] # <<>> /\ lines[p][1].success

\* connect ends: without a SUCCESS the connection is dropped again.
Subscribed(p) ==
    /\ pc[p] = "subscribed"
    /\ IF Succeeded(p)
       THEN /\ IF p = Maintain
               THEN Leave(p, "ok")
               ELSE /\ Goto(p, "exchange")
                    /\ UNCHANGED <<commandMu, reloadDone, target, seen, lines>>
            /\ UNCHANGED <<conn, pending, err, wires>>
       ELSE /\ Disconnect(p)
            /\ Leave(p, "error")
    /\ UNCHANGED <<generation, closed, openvpn, crossed>>

\* (Variant: a reload keeps the waiting clients out after an error.)
AnsweredNoFinish(p) ==
    /\ pc[p] = "answered"
    /\ commandMu' = IF commandMu = p THEN None ELSE commandMu
    /\ Goto(p, IF p \in Reloaders /\ Succeeded(p) THEN "initwait"
               ELSE IF err[p] THEN "error" ELSE "ok")
    /\ UNCHANGED <<reloadDone, conn, pending, generation, closed, target, seen,
                   waiter, wires, openvpn, crossed>>

\* Request after its exchange: commandMu is released, and an accepted reload
\* waits for OpenVPN's initialization.
Answered(p) ==
    /\ pc[p] = "answered"
    /\ IF p \in Reloaders /\ Succeeded(p)
       THEN /\ commandMu' = None
            /\ Goto(p, "initwait")
            /\ UNCHANGED <<reloadDone, target, seen, lines>>
       ELSE Leave(p, IF err[p] THEN "error" ELSE "ok")
    /\ UNCHANGED <<conn, pending, generation, closed, err, wires, openvpn, crossed>>

\* waitInitialization: a newer generation, or the deadline.
Initialized(p) ==
    /\ pc[p] = "initwait"
    /\ generation > seen[p]
    /\ Leave(p, "reloaded")
    /\ UNCHANGED <<conn, pending, generation, closed, err, wires, openvpn, crossed>>

InitTimeout(p) ==
    /\ pc[p] = "initwait"
    /\ generation <= seen[p]
    /\ Leave(p, "error")
    /\ UNCHANGED <<conn, pending, generation, closed, err, wires, openvpn, crossed>>

-----------------------------------------------------------------------------
\* The read goroutines

\* The next line: an event raises the generation; anything else goes to
\* whatever is pending now, or to the log as an orphan.
Read(c) ==
    /\ reader[c] = "running"
    /\ outbox[c] # <<>>
    /\ outbox' = [outbox EXCEPT ![c] = Tail(@)]
    /\ IF Head(outbox[c]) \in Event
       THEN generation' = generation + 1 /\ UNCHANGED lines
       ELSE /\ UNCHANGED generation
            /\ lines' = IF pending = None THEN lines
                        ELSE [lines EXCEPT ![pending.by] = Append(@, Head(outbox[c]))]
    /\ crossed' = (crossed \/ (Head(outbox[c]) \notin Event /\ pending # None
                               /\ pending.on # c))
    /\ UNCHANGED <<commandMu, conn, pending, reloadDone, closed, pc, target, seen,
                   err, link, reader, failing, inbox, openvpn>>

\* The end of the connection: disconnect if it is still the current one.  The
\* waiter is taken under mu and failed after it.
ReadEnd(c) ==
    /\ reader[c] = "running"
    /\ outbox[c] = <<>>
    /\ link[c] \in {"lost", "closed"}
    /\ reader' = [reader EXCEPT ![c] = "ended"]
    /\ IF conn = c
       THEN /\ conn' = 0
            /\ pending' = None
            /\ link' = [link EXCEPT ![c] = "closed"]
            /\ failing' = [failing EXCEPT ![c] = IF pending = None THEN None
                                                 ELSE pending.by]
       ELSE UNCHANGED <<conn, pending, link, failing>>
    /\ UNCHANGED <<commandMu, reloadDone, generation, closed, pc, target, seen,
                   waiter, inbox, outbox, openvpn, crossed>>

\* pending.fail(cause).  It is lost on a goroutine that has gone on.
FailWaiter(c) ==
    /\ failing[c] # None
    /\ failing' = [failing EXCEPT ![c] = None]
    /\ err' = [err EXCEPT ![failing[c]] = @ \/ target[failing[c]] = c]
    /\ UNCHANGED <<backend, pc, target, seen, lines, link, reader, inbox, outbox,
                   openvpn, crossed>>

-----------------------------------------------------------------------------
\* OpenVPN, and the end of the service

Up(c) == link[c] \in {"open", "logging"}

\* It answers a command; "log on all" subscribes, a SIGHUP restarts it.
VpnAnswer(c) ==
    /\ Up(c)
    /\ inbox[c] # <<>>
    /\ inbox' = [inbox EXCEPT ![c] = Tail(@)]
    /\ \E success \in BOOLEAN :
          LET command == Head(inbox[c])
              restarts == success /\ command.why = "request" /\ command.by \in Reloaders
          IN /\ outbox' = [outbox EXCEPT ![c] =
                             Append(@, [to |-> command, success |-> success])]
             /\ link' = IF success /\ command.why = "subscribe"
                        THEN [link EXCEPT ![c] = "logging"] ELSE link
             /\ vpn' = IF restarts THEN "starting" ELSE vpn
             /\ thrown' = IF restarts THEN thrown \cup {command.by} ELSE thrown
    /\ UNCHANGED <<backend, pc, target, seen, waiter, reader, failing, fresh, crossed>>

\* Initialization Sequence Completed, reported where it was asked for.
VpnInitialize ==
    /\ vpn = "starting"
    /\ vpn' = "ready"
    /\ fresh' = fresh \cup thrown
    /\ thrown' = {}
    /\ outbox' = [c \in Conns |-> IF link[c] = "logging"
                                  THEN Append(outbox[c], [event |-> "initialized"])
                                  ELSE outbox[c]]
    /\ UNCHANGED <<backend, pc, target, seen, waiter, link, reader, failing, inbox, crossed>>

\* It closes the management connection.
VpnHangup(c) ==
    /\ Up(c)
    /\ link' = [link EXCEPT ![c] = "lost"]
    /\ inbox' = [inbox EXCEPT ![c] = <<>>]
    /\ UNCHANGED <<backend, pc, target, seen, waiter, reader, failing, outbox,
                   openvpn, crossed>>

\* Service.Close.
Close ==
    /\ ~closed
    /\ closed' = TRUE
    /\ conn' = 0
    /\ pending' = None
    /\ err' = [p \in Procs |-> err[p] \/ (pending # None /\ pending.by = p)]
    /\ IF conn = 0 THEN UNCHANGED wires ELSE CloseLink(conn)
    /\ UNCHANGED <<commandMu, reloadDone, generation, pc, target, seen, lines,
                   openvpn, crossed>>

-----------------------------------------------------------------------------
Step(p) ==
    \/ Gate(p) \/ Check(p) \/ ConnectFails(p) \/ Exchange(p)
    \/ Collect(p) \/ Timeout(p) \/ Subscribed(p) \/ Answered(p)
    \/ Initialized(p) \/ InitTimeout(p)
    \/ \E c \in Conns : Connect(p, c)

Next ==
    \/ \E p \in Procs : Begin(p) \/ LockCommand(p) \/ Step(p)
    \/ CheckConnected
    \/ \E c \in Conns : Read(c) \/ ReadEnd(c) \/ FailWaiter(c)
                        \/ VpnAnswer(c) \/ VpnHangup(c)
    \/ VpnInitialize
    \/ Close

Spec == Init /\ [][Next]_vars

\* Goroutines run, every wait of theirs has a deadline, and Go's mutex does
\* not let a goroutine that waits for it starve.
FairSpec ==
    /\ Spec
    /\ WF_vars(CheckConnected)
    /\ \A p \in Procs : WF_vars(Step(p))
    /\ \A p \in Requesters : SF_vars(LockCommand(p))

-----------------------------------------------------------------------------
\* Properties

\* The proxy is serialized: OpenVPN never has two commands of the broker to
\* answer on the connection in use, and the command somebody waits for belongs
\* to the holder of commandMu and to that connection.  broker_test.go asserts
\* it: "backend observed %d active commands" for anything but one.
Serialized ==
    /\ conn # 0 => Len(inbox[conn]) <= 1
    /\ pending # None => /\ commandMu = pending.by
                         /\ conn = pending.on

\* It is, whatever timed out, was lost or was closed, as long as no reader hands
\* a line of its closed connection to a command on the next one.
SerializedUnlessCrossed == ~crossed => Serialized

\* A line read from the connection in use answers the command that gets it: a
\* response that comes after its timeout never reaches the next client.
LiveAnswersMatch ==
    [][\A p \in Procs : lines'[p] # lines[p] /\ lines'[p] # <<>> /\ ~crossed' =>
          lines'[p][Len(lines'[p])].to = pending]_vars

\* From the moment a reload passes the gate until it is finished no other
\* client's command reaches OpenVPN.
ReloadExcludesCommands ==
    [][\A c \in Conns : Len(inbox'[c]) > Len(inbox[c]) =>
          LET command == inbox'[c][Len(inbox'[c])] IN
          command.why = "request" => reloadDone \in {None, command.by}]_vars

\* Every command is answered, with a response or an error: no wait for
\* commandMu, a reload, OpenVPN or a reader is for ever.
RequestsEnd == \A p \in Requesters : pc[p] = "gate" ~> pc[p] \in Outcomes

\* broker_test.go: "reload returned before initialization event" must not
\* happen: a reload that reports success has seen OpenVPN initialise after it
\* took the SIGHUP.
ReloadAwaitsInitialization ==
    \A p \in Reloaders : pc[p] = "reloaded" => p \in fresh
=============================================================================
