---------------------------- MODULE BrokerProofs -----------------------------
(***************************************************************************)
(* Proofs about Broker: its types, the serialization of commands, the      *)
(* match of answers and commands, and the exclusion of commands by a       *)
(* reload, for any number of clients and connections.                      *)
(***************************************************************************)
EXTENDS Broker, TLAPS

-----------------------------------------------------------------------------
(* The inductive invariant.                                                *)

\* Between commandMu.Lock and Unlock.
Past == {"dial", "subscribe", "subscribing", "subscribed", "exchange", "awaiting",
         "answered"}
Critical == Past \cup {"check"}

\* Between connect, or the capture of the connection, and the end of Request.
OnTarget == {"subscribe", "subscribing", "subscribed", "exchange", "awaiting", "answered"}

\* commandMu excludes; its holder uses the connection in use or a lost one;
\* EnsureConnected never sends a client's command; and who passed the check
\* has seen no reload of another client.
MutexInv ==
    /\ \A p \in Procs : pc[p] \in Critical => commandMu = p
    /\ \A p \in Procs : pc[p] \in OnTarget => target[p] \in Conns /\ conn \in {0, target[p]}
    /\ pc[Maintain] \notin {"exchange", "awaiting", "answered", "initwait"}
    /\ \A p \in Requesters : pc[p] \in Past => reloadDone \in {None, p}

\* backend.pending is the command of the holder, on the connection in use.
PendingInv ==
    pending # None =>
        /\ Waiting(pending.by)
        /\ commandMu = pending.by
        /\ conn = pending.on
        /\ target[pending.by] = pending.on

\* A connection is empty before it is made, and is given up before it is
\* closed; a failure meant for a waiter comes after that.
LinkInv ==
    /\ \A c \in Conns : link[c] = "unused" => inbox[c] = <<>> /\ outbox[c] = <<>>
    /\ conn # 0 => link[conn] \notin {"unused", "closed"}
    /\ \A c \in Conns : failing[c] # None => link[c] = "closed"
    /\ \A p \in Procs : Waiting(p) /\ err[p] => conn # target[p]

\* What is on its way on connection c: no response at all, or nothing but the
\* response to one command.
NoAnswer(s) == \A i \in 1..Len(s) : s[i] \in Event
OneTo(s, command) ==
    /\ \A i, j \in 1..Len(s) : s[i] \notin Event /\ s[j] \notin Event => i = j
    /\ \A i \in 1..Len(s) : s[i] \notin Event => s[i].to = command

Quiet(c) == inbox[c] = <<>> /\ NoAnswer(outbox[c])

\* The pending command is unanswered, or its answer is on its way or read.
OneAnswer(c) ==
    \/ inbox[c] = <<pending>> /\ NoAnswer(outbox[c])
    \/ inbox[c] = <<>> /\ OneTo(outbox[c], pending)

\* The connection in use carries the pending command or its response and
\* nothing else that is not an event.
WireInv ==
    ~crossed /\ conn # 0 =>
        /\ pending = None => Quiet(conn)
        /\ pending # None => OneAnswer(conn)
        /\ pending # None /\ lines[pending.by] # <<>> => Quiet(conn)

Inv == TypeOK /\ MutexInv /\ PendingInv /\ LinkInv /\ WireInv

-----------------------------------------------------------------------------
(* Type correctness.                                                       *)

LEMMA InitTypeOK == Init => TypeOK
<1> SUFFICES ASSUME Init PROVE TypeOK
  OBVIOUS
<1>1. err \in [Procs -> BOOLEAN] /\ closed \in BOOLEAN /\ crossed \in BOOLEAN
  BY DEF Init
<1>2. /\ lines \in [Procs -> Seq(Answer)]
      /\ inbox \in [Conns -> Seq(Commands)]
      /\ outbox \in [Conns -> Seq(Event \cup Answer)]
  BY DEF Init
<1> QED
  BY <1>1, <1>2, MaxConnsAssumption DEF Init, TypeOK, Steps, Procs

\* What connection.Close leaves of a connection.
LEMMA CloseLinkTypeOK ==
    ASSUME TypeOK, NEW c, CloseLink(c)
    PROVE  /\ link' \in [Conns -> {"unused", "open", "logging", "lost", "closed"}]
           /\ reader' = reader /\ failing' = failing
           /\ inbox' \in [Conns -> Seq(Commands)]
           /\ outbox' \in [Conns -> Seq(Event \cup Answer)]
<1>1. PICK n \in 0..Len(outbox[c]) : outbox' = [outbox EXCEPT ![c] = SubSeq(@, 1, n)]
  BY DEF CloseLink
<1>2. outbox' \in [Conns -> Seq(Event \cup Answer)]
  <2>1. CASE c \in Conns
    <3>1. outbox[c] \in Seq(Event \cup Answer)
      BY <2>1 DEF TypeOK
    <3>2. SubSeq(outbox[c], 1, n) \in Seq(Event \cup Answer)
      BY <3>1
    <3> QED
      BY <1>1, <3>2 DEF TypeOK
  <2>2. CASE c \notin Conns
    BY <1>1, <2>2 DEF TypeOK
  <2> QED
    BY <2>1, <2>2
<1> QED
  BY <1>2 DEF CloseLink, TypeOK

LEMMA DisconnectTypeOK ==
    ASSUME TypeOK, NEW p \in Procs, Disconnect(p)
    PROVE  /\ conn' \in 0..MaxConns
           /\ pending' \in Commands \cup {None}
           /\ err' \in [Procs -> BOOLEAN]
           /\ link' \in [Conns -> {"unused", "open", "logging", "lost", "closed"}]
           /\ reader' = reader /\ failing' = failing
           /\ inbox' \in [Conns -> Seq(Commands)]
           /\ outbox' \in [Conns -> Seq(Event \cup Answer)]
<1>1. CASE conn = target[p]
  <2>1. CloseLink(target[p]) /\ conn' = 0 /\ pending' = None
        /\ err' = [err EXCEPT ![p] = TRUE]
    BY <1>1 DEF Disconnect
  <2>2. err' \in [Procs -> BOOLEAN]
    BY <2>1 DEF TypeOK
  <2>3. conn' \in 0..MaxConns /\ pending' \in Commands \cup {None}
    BY <2>1, MaxConnsAssumption
  <2> QED
    BY <2>1, <2>2, <2>3, CloseLinkTypeOK
<1>2. CASE conn # target[p]
  BY <1>2 DEF Disconnect, TypeOK, wires
<1> QED
  BY <1>1, <1>2

LEMMA LeaveTypeOK ==
    ASSUME TypeOK, NEW p \in Procs, NEW outcome \in Outcomes, Leave(p, outcome)
    PROVE  /\ commandMu' \in Procs \cup {None}
           /\ reloadDone' \in Reloaders \cup {None}
           /\ target' \in [Procs -> 0..MaxConns]
           /\ seen' \in [Procs -> Nat]
           /\ lines' \in [Procs -> Seq(Answer)]
           /\ pc' \in [Procs -> Steps]
<1>1. <<>> \in Seq(Answer) /\ 0 \in 0..MaxConns
  BY MaxConnsAssumption
<1> QED
  BY <1>1 DEF Leave, FinishReload, TypeOK, Goto, Steps

\* The steps of a goroutine of Request or Maintain.
LEMMA ProcTypeOK ==
    ASSUME TypeOK, MutexInv, NEW p \in Procs, Begin(p) \/ LockCommand(p) \/ Step(p)
    PROVE  TypeOK'
<1> USE MaxConnsAssumption DEF TypeOK, Steps, Outcomes, Goto, backend, waiter, wires, openvpn
<1>1. CASE Begin(p)
  BY <1>1 DEF Begin
<1>2. CASE LockCommand(p)
  BY <1>2 DEF LockCommand
<1>3. CASE Gate(p)
  BY <1>3 DEF Gate
<1>4. CASE Check(p)
  <2>1. CASE reloadDone # None \/ closed
    <3>1. commandMu' = None /\ UNCHANGED <<reloadDone, target, seen>>
      BY <1>4, <2>1 DEF Check
    <3>2. pc' \in [Procs -> Steps]
      BY <1>4 DEF Check
    <3> QED
      BY <1>4, <3>1, <3>2 DEF Check
  <2>2. CASE ~(reloadDone # None \/ closed)
    <3>1. /\ target' = [target EXCEPT ![p] = conn]
          /\ seen' = [seen EXCEPT ![p] = generation]
          /\ reloadDone' \in Reloaders \cup {None}
          /\ commandMu' = commandMu
          /\ pc' \in [Procs -> Steps]
      BY <1>4, <2>2 DEF Check
    <3> QED
      BY <1>4, <3>1 DEF Check
  <2> QED
    BY <2>1, <2>2
<1>5. CASE ConnectFails(p)
  BY <1>5, LeaveTypeOK DEF ConnectFails
<1>6. CASE Exchange(p)
  <2> DEFINE command == [by |-> p, on |-> target[p],
                         why |-> IF pc[p] = "subscribe" THEN "subscribe" ELSE "request"]
  <2>1. target[p] \in Conns /\ command \in Commands
    BY <1>6 DEF Exchange, MutexInv, OnTarget, Commands
  <2>2. inbox[target[p]] \in Seq(Commands)
    BY <2>1
  <2>3. Append(inbox[target[p]], command) \in Seq(Commands)
    BY <2>1, <2>2
  <2>4. /\ pending' \in {pending, command}
        /\ inbox' \in {inbox, [inbox EXCEPT ![target[p]] = Append(inbox[target[p]], command)]}
        /\ lines' = [lines EXCEPT ![p] = <<>>]
        /\ err' \in {[err EXCEPT ![p] = TRUE], [err EXCEPT ![p] = FALSE]}
        /\ pc' \in [Procs -> Steps]
    <3>1. CASE conn # target[p] \/ pending # None
      BY <1>6, <3>1 DEF Exchange
    <3>2. CASE ~(conn # target[p] \/ pending # None)
      <4> HIDE DEF TypeOK
      <4>1. /\ pending' = command
            /\ inbox' = [inbox EXCEPT ![target[p]] = Append(inbox[target[p]], command)]
            /\ lines' = [lines EXCEPT ![p] = <<>>]
            /\ err' = [err EXCEPT ![p] = FALSE]
        BY <1>6, <3>2 DEF Exchange
      <4>2. pc' \in [Procs -> Steps]
        BY <1>6, <3>2 DEF Exchange, TypeOK
      <4> QED
        BY <4>1, <4>2
    <3> QED
      BY <3>1, <3>2
  <2>5. inbox' \in [Conns -> Seq(Commands)]
    BY <2>1, <2>3, <2>4
  <2>6. err' \in [Procs -> BOOLEAN] /\ lines' \in [Procs -> Seq(Answer)]
    <3>1. err \in [Procs -> BOOLEAN] /\ lines \in [Procs -> Seq(Answer)]
          /\ <<>> \in Seq(Answer)
      OBVIOUS
    <3> HIDE DEF TypeOK
    <3> QED
      BY <2>4, <3>1
  <2>7. pending' \in Commands \cup {None}
    BY <2>1, <2>4
  <2> QED
    BY <1>6, <2>4, <2>5, <2>6, <2>7 DEF Exchange
<1>7. CASE Collect(p)
  BY <1>7 DEF Collect, Waiting, Returned
<1>8. CASE Timeout(p)
  BY <1>8, DisconnectTypeOK DEF Timeout, Returned
<1>9. CASE Subscribed(p)
  <2>1. CASE Succeeded(p) /\ p = Maintain
    BY <1>9, <2>1, LeaveTypeOK DEF Subscribed
  <2>2. CASE Succeeded(p) /\ p # Maintain
    BY <1>9, <2>2 DEF Subscribed
  <2>3. CASE ~Succeeded(p)
    BY <1>9, <2>3, LeaveTypeOK, DisconnectTypeOK DEF Subscribed
  <2> QED
    BY <2>1, <2>2, <2>3
<1>10. CASE Answered(p)
  <2>1. CASE p \in Reloaders /\ Succeeded(p)
    BY <1>10, <2>1 DEF Answered
  <2>2. CASE ~(p \in Reloaders /\ Succeeded(p))
    <3>1. Leave(p, IF err[p] THEN "error" ELSE "ok")
      BY <1>10, <2>2 DEF Answered
    <3>2. (IF err[p] THEN "error" ELSE "ok") \in Outcomes
      OBVIOUS
    <3> QED
      BY <1>10, <3>1, <3>2, LeaveTypeOK DEF Answered
  <2> QED
    BY <2>1, <2>2
<1>11. CASE Initialized(p)
  BY <1>11, LeaveTypeOK DEF Initialized
<1>12. CASE InitTimeout(p)
  BY <1>12, LeaveTypeOK DEF InitTimeout
<1>13. ASSUME NEW c \in Conns, Connect(p, c) PROVE TypeOK'
  BY <1>13 DEF Connect, Conns
<1> QED
  BY <1>1, <1>2, <1>3, <1>4, <1>5, <1>6, <1>7, <1>8, <1>9, <1>10, <1>11, <1>12,
     <1>13 DEF Step

LEMMA OtherTypeOK ==
    ASSUME TypeOK,
           \/ CheckConnected \/ VpnInitialize \/ Close
           \/ \E c \in Conns : Read(c) \/ ReadEnd(c) \/ FailWaiter(c)
                               \/ VpnAnswer(c) \/ VpnHangup(c)
    PROVE  TypeOK'
<1> USE MaxConnsAssumption DEF TypeOK, Steps, Outcomes, Goto, backend, waiter, wires, openvpn
<1>1. CASE CheckConnected
  BY <1>1 DEF CheckConnected, Procs
<1>2. CASE VpnInitialize
  BY <1>2 DEF VpnInitialize, Event
<1>3. CASE Close
  <2>1. err' \in [Procs -> BOOLEAN]
    BY <1>3 DEF Close
  <2>2. CASE conn = 0
    BY <1>3, <2>1, <2>2 DEF Close
  <2>3. CASE conn # 0
    <3>1. CloseLink(conn)
      BY <1>3, <2>3 DEF Close
    <3>2. closed' = TRUE /\ conn' = 0 /\ pending' = None
      BY <1>3 DEF Close
    <3> HIDE DEF TypeOK
    <3>3. /\ link' \in [Conns -> {"unused", "open", "logging", "lost", "closed"}]
          /\ reader' = reader /\ failing' = failing
          /\ inbox' \in [Conns -> Seq(Commands)]
          /\ outbox' \in [Conns -> Seq(Event \cup Answer)]
      BY <3>1, CloseLinkTypeOK
    <3> QED
      BY <1>3, <2>1, <3>2, <3>3 DEF Close, TypeOK
  <2> QED
    BY <2>2, <2>3
<1>4. ASSUME NEW c \in Conns, Read(c) PROVE TypeOK'
  <2>1. outbox[c] \in Seq(Event \cup Answer) /\ outbox[c] # <<>>
    BY <1>4 DEF Read
  <2>2. Head(outbox[c]) \in Event \cup Answer /\ Tail(outbox[c]) \in Seq(Event \cup Answer)
    BY <2>1
  <2>3. lines' \in [Procs -> Seq(Answer)] /\ generation' \in Nat
    <3>1. CASE Head(outbox[c]) \in Event \/ pending = None
      BY <1>4, <3>1 DEF Read
    <3>2. CASE Head(outbox[c]) \notin Event /\ pending # None
      <4>1. pending.by \in Procs /\ Head(outbox[c]) \in Answer
        BY <2>2, <3>2 DEF Commands
      <4>2. Append(lines[pending.by], Head(outbox[c])) \in Seq(Answer)
        BY <4>1
      <4> QED
        BY <1>4, <3>2, <4>1, <4>2 DEF Read
    <3> QED
      BY <3>1, <3>2
  <2>4. crossed' \in BOOLEAN
    BY <1>4 DEF Read
  <2>5. outbox' \in [Conns -> Seq(Event \cup Answer)]
    BY <1>4, <2>2 DEF Read
  <2> QED
    BY <1>4, <2>3, <2>4, <2>5 DEF Read
<1>5. ASSUME NEW c \in Conns, ReadEnd(c) PROVE TypeOK'
  <2>1. CASE conn = c
    <3>1. (IF pending = None THEN None ELSE pending.by) \in Procs \cup {None}
      BY DEF Commands
    <3>2. failing' \in [Conns -> Procs \cup {None}]
      BY <1>5, <2>1, <3>1 DEF ReadEnd
    <3> QED
      BY <1>5, <2>1, <3>2 DEF ReadEnd
  <2>2. CASE conn # c
    BY <1>5, <2>2 DEF ReadEnd
  <2> QED
    BY <2>1, <2>2
<1>6. ASSUME NEW c \in Conns, FailWaiter(c) PROVE TypeOK'
  BY <1>6 DEF FailWaiter
<1>7. ASSUME NEW c \in Conns, VpnAnswer(c) PROVE TypeOK'
  <2>1. inbox[c] \in Seq(Commands) /\ inbox[c] # <<>>
    BY <1>7 DEF VpnAnswer
  <2>2. Head(inbox[c]) \in Commands /\ Tail(inbox[c]) \in Seq(Commands)
    BY <2>1
  <2>3. PICK success \in BOOLEAN :
          /\ outbox' = [outbox EXCEPT ![c] =
                          Append(@, [to |-> Head(inbox[c]), success |-> success])]
          /\ link' \in {link, [link EXCEPT ![c] = "logging"]}
          /\ vpn' \in {vpn, "starting"}
          /\ \/ thrown' = thrown
             \/ Head(inbox[c]).by \in Reloaders /\ thrown' = thrown \cup {Head(inbox[c]).by}
    BY <1>7 DEF VpnAnswer
  <2>4. [to |-> Head(inbox[c]), success |-> success] \in Answer
    BY <2>2 DEF Answer
  <2>5. outbox[c] \in Seq(Event \cup Answer)
    OBVIOUS
  <2>6. outbox' \in [Conns -> Seq(Event \cup Answer)]
    BY <2>3, <2>4, <2>5
  <2>7. inbox' \in [Conns -> Seq(Commands)]
    BY <1>7, <2>2 DEF VpnAnswer
  <2> QED
    BY <1>7, <2>3, <2>6, <2>7 DEF VpnAnswer
<1>8. ASSUME NEW c \in Conns, VpnHangup(c) PROVE TypeOK'
  BY <1>8 DEF VpnHangup
<1> QED
  BY <1>1, <1>2, <1>3, <1>4, <1>5, <1>6, <1>7, <1>8

-----------------------------------------------------------------------------
(* commandMu, the connections in use and the reload gate.                  *)

LEMMA InitMutexInv == Init => MutexInv
  BY DEF Init, MutexInv, Critical, Past, OnTarget, Procs

\* What Leave does to the goroutine that calls it and to the others.
LEMMA LeaveMutexInv ==
    ASSUME TypeOK, MutexInv, NEW p \in Procs, NEW outcome \in Outcomes, Leave(p, outcome),
           conn' \in {0, conn}
    PROVE  MutexInv'
<1> USE DEF TypeOK, Critical, Past, OnTarget, Outcomes
<1>1. pc'[p] \notin Critical \cup {"initwait"} /\ \A q \in Procs \ {p} : pc'[q] = pc[q]
  BY DEF Leave, Goto
<1>2. \A q \in Procs : pc'[q] \in Critical => commandMu' = q
  BY <1>1 DEF Leave, MutexInv
<1>3. \A q \in Procs : pc'[q] \in OnTarget => target'[q] \in Conns /\ conn' \in {0, target'[q]}
  BY <1>1 DEF Leave, MutexInv
<1>4. pc'[Maintain] \notin {"exchange", "awaiting", "answered", "initwait"}
  BY <1>1 DEF MutexInv, Procs
<1>5. \A q \in Requesters : pc'[q] \in Past => reloadDone' \in {None, q}
  BY <1>1 DEF Leave, FinishReload, MutexInv, Procs
<1> QED
  BY <1>2, <1>3, <1>4, <1>5 DEF MutexInv

\* The steps of a goroutine of Request or Maintain.
LEMMA ProcMutexInv ==
    ASSUME TypeOK, MutexInv, NEW p \in Procs, Begin(p) \/ LockCommand(p) \/ Step(p)
    PROVE  MutexInv'
<1> USE NoneAssumption, MaintainAssumption DEF TypeOK, Critical, Past, OnTarget, Procs, Goto, backend
<1>1. CASE Begin(p)
  BY <1>1 DEF Begin, MutexInv
<1>2. CASE LockCommand(p)
  BY <1>2 DEF LockCommand, MutexInv
<1>3. CASE Gate(p)
  BY <1>3 DEF Gate, MutexInv
<1>4. CASE Check(p)
  <2>1. CASE reloadDone # None \/ closed
    <3>1. /\ commandMu = p /\ commandMu' = None
          /\ UNCHANGED <<reloadDone, target, seen, conn>>
          /\ pc'[p] \in {"gate", "error"}
          /\ \A q \in Procs \ {p} : pc'[q] = pc[q]
      BY <1>4, <2>1 DEF Check, MutexInv
    <3> QED
      BY <3>1 DEF MutexInv
  <2>2. CASE ~(reloadDone # None \/ closed)
    <3>1. /\ commandMu = p /\ commandMu' = p /\ p # Maintain
          /\ reloadDone' \in {None, p}
          /\ target'[p] = conn /\ conn' = conn
          /\ pc'[p] = IF conn = 0 THEN "dial" ELSE "exchange"
          /\ \A q \in Procs \ {p} : pc'[q] = pc[q] /\ target'[q] = target[q]
      BY <1>4, <2>2 DEF Check, MutexInv
    <3>2. pc'[p] \in OnTarget => target'[p] \in Conns /\ conn' = target'[p]
      BY <3>1 DEF Conns
    <3>3. \A q \in Procs \ {p} : pc'[q] \notin Critical
      BY <3>1 DEF MutexInv
    <3> QED
      BY <3>1, <3>2, <3>3 DEF MutexInv
  <2> QED
    BY <2>1, <2>2
<1>5. CASE ConnectFails(p)
  BY <1>5, LeaveMutexInv DEF ConnectFails, Outcomes
<1>6. CASE Exchange(p)
  BY <1>6 DEF Exchange, MutexInv
<1>7. CASE Collect(p)
  BY <1>7 DEF Collect, Waiting, Returned, MutexInv
<1>8. CASE Timeout(p)
  BY <1>8 DEF Timeout, Disconnect, Waiting, Returned, MutexInv
<1>9. CASE Subscribed(p)
  BY <1>9, LeaveMutexInv DEF Subscribed, Disconnect, Outcomes, MutexInv
<1>10. CASE Answered(p)
  BY <1>10, LeaveMutexInv DEF Answered, Outcomes, MutexInv
<1>11. CASE Initialized(p)
  BY <1>11, LeaveMutexInv DEF Initialized, Outcomes
<1>12. CASE InitTimeout(p)
  BY <1>12, LeaveMutexInv DEF InitTimeout, Outcomes
<1>13. ASSUME NEW c \in Conns, Connect(p, c) PROVE MutexInv'
  BY <1>13 DEF Connect, MutexInv
<1> QED
  BY <1>1, <1>2, <1>3, <1>4, <1>5, <1>6, <1>7, <1>8, <1>9, <1>10, <1>11, <1>12,
     <1>13 DEF Step

LEMMA OtherMutexInv ==
    ASSUME TypeOK, MutexInv,
           \/ CheckConnected \/ VpnInitialize \/ Close
           \/ \E c \in Conns : Read(c) \/ ReadEnd(c) \/ FailWaiter(c)
                               \/ VpnAnswer(c) \/ VpnHangup(c)
    PROVE  MutexInv'
<1> USE DEF MutexInv, backend
<1>1. CASE CheckConnected
  BY <1>1, NoneAssumption, MaintainAssumption
     DEF CheckConnected, TypeOK, Goto, Procs, Critical, Past, OnTarget
<1>2. CASE VpnInitialize
  BY <1>2 DEF VpnInitialize
<1>3. CASE Close
  BY <1>3 DEF Close
<1>4. ASSUME NEW c \in Conns, Read(c) PROVE MutexInv'
  BY <1>4 DEF Read
<1>5. ASSUME NEW c \in Conns, ReadEnd(c) PROVE MutexInv'
  BY <1>5 DEF ReadEnd
<1>6. ASSUME NEW c \in Conns, FailWaiter(c) PROVE MutexInv'
  BY <1>6 DEF FailWaiter
<1>7. ASSUME NEW c \in Conns, VpnAnswer(c) PROVE MutexInv'
  BY <1>7 DEF VpnAnswer
<1>8. ASSUME NEW c \in Conns, VpnHangup(c) PROVE MutexInv'
  BY <1>8 DEF VpnHangup
<1> QED
  BY <1>1, <1>2, <1>3, <1>4, <1>5, <1>6, <1>7, <1>8

-----------------------------------------------------------------------------
(* backend.pending and the connections.                                    *)

\* A goroutine that does not wait for a response leaves no pending command.
LEMMA NothingPending ==
    ASSUME TypeOK, MutexInv, PendingInv, NEW p \in Procs, pc[p] \in Critical, ~Waiting(p)
    PROVE  pending = None
  BY DEF TypeOK, MutexInv, PendingInv, Commands

LEMMA InitPendingInv == Init => PendingInv /\ LinkInv
  BY MaxConnsAssumption
     DEF Init, PendingInv, LinkInv, Waiting

LEMMA DisconnectPendingInv ==
    ASSUME TypeOK, MutexInv, PendingInv, NEW p \in Procs, Disconnect(p), pc[p] \in OnTarget
    PROVE  pending' = None
  BY NoneAssumption DEF TypeOK, MutexInv, PendingInv, Disconnect, Commands, Critical, Past, OnTarget

\* The steps of a goroutine of Request or Maintain.
LEMMA ProcPendingInv ==
    ASSUME TypeOK, MutexInv, PendingInv, NEW p \in Procs,
           Begin(p) \/ LockCommand(p) \/ Step(p)
    PROVE  PendingInv'
<1> USE DEF Waiting, Goto, backend
<1>0. pending # None => pending.by \in Procs
  BY DEF TypeOK, Commands
<1>1. CASE Begin(p)
  BY <1>0, <1>1 DEF Begin, PendingInv, TypeOK
<1>2. CASE LockCommand(p)
  BY <1>0, <1>2, NoneAssumption DEF LockCommand, PendingInv, TypeOK, Procs
<1>3. CASE Gate(p)
  BY <1>0, <1>3 DEF Gate, PendingInv, TypeOK
<1>4. CASE Check(p)
  BY <1>4, NothingPending DEF Check, PendingInv, Critical
<1>5. CASE ConnectFails(p)
  BY <1>5, NothingPending DEF ConnectFails, PendingInv, Critical, Past
<1>6. CASE Exchange(p)
  <2>1. pending = None
    BY <1>6, NothingPending DEF Exchange, Critical, Past
  <2>2. CASE conn # target[p]
    BY <1>6, <2>1, <2>2 DEF Exchange, PendingInv
  <2>3. CASE conn = target[p]
    <3>1. /\ pending'.by = p /\ pending'.on = target[p] /\ conn' = conn /\ target' = target
          /\ pc'[p] \in {"subscribing", "awaiting"} /\ commandMu' = commandMu
      BY <1>6, <2>1, <2>3 DEF Exchange, TypeOK
    <3>2. commandMu = p
      BY <1>6 DEF Exchange, MutexInv, Critical, Past
    <3> QED
      BY <2>3, <3>1, <3>2 DEF PendingInv
  <2> QED
    BY <2>2, <2>3
<1>7. CASE Collect(p)
  <2>1. commandMu = p
    BY <1>7 DEF Collect, MutexInv, Critical, Past
  <2> QED
    BY <1>7, <2>1 DEF Collect, PendingInv
<1>8. CASE Timeout(p)
  BY <1>8, DisconnectPendingInv DEF Timeout, PendingInv, OnTarget
<1>9. CASE Subscribed(p)
  BY <1>9, NothingPending, DisconnectPendingInv DEF Subscribed, PendingInv, Critical, Past, OnTarget
<1>10. CASE Answered(p)
  BY <1>10, NothingPending DEF Answered, PendingInv, Critical, Past
<1>11. CASE Initialized(p) \/ InitTimeout(p)
  <2>1. pc[p] = "initwait" /\ \A o \in Outcomes : Leave(p, o) => (commandMu # p => commandMu' = commandMu)
    BY <1>11 DEF Initialized, InitTimeout, Leave
  <2>2. pending # None => pending.by # p /\ commandMu # p
    BY <1>0, <2>1 DEF PendingInv
  <2> QED
    BY <1>0, <1>11, <2>1, <2>2 DEF Initialized, InitTimeout, Leave, PendingInv, TypeOK
<1>12. ASSUME NEW c \in Conns, Connect(p, c) PROVE PendingInv'
  BY <1>12, NothingPending DEF Connect, PendingInv, Critical, Past
<1> QED
  BY <1>1, <1>2, <1>3, <1>4, <1>5, <1>6, <1>7, <1>8, <1>9, <1>10, <1>11, <1>12 DEF Step

LEMMA OtherPendingInv ==
    ASSUME TypeOK, MutexInv, PendingInv,
           \/ CheckConnected \/ VpnInitialize \/ Close
           \/ \E c \in Conns : Read(c) \/ ReadEnd(c) \/ FailWaiter(c)
                               \/ VpnAnswer(c) \/ VpnHangup(c)
    PROVE  PendingInv'
<1> USE DEF PendingInv, Waiting, backend
<1>1. CASE CheckConnected
  BY <1>1, NothingPending DEF CheckConnected, Critical, Procs
<1>2. CASE VpnInitialize
  BY <1>2 DEF VpnInitialize
<1>3. CASE Close
  BY <1>3 DEF Close
<1>4. ASSUME NEW c \in Conns, Read(c) PROVE PendingInv'
  BY <1>4 DEF Read
<1>5. ASSUME NEW c \in Conns, ReadEnd(c) PROVE PendingInv'
  BY <1>5 DEF ReadEnd
<1>6. ASSUME NEW c \in Conns, FailWaiter(c) PROVE PendingInv'
  BY <1>6 DEF FailWaiter
<1>7. ASSUME NEW c \in Conns, VpnAnswer(c) PROVE PendingInv'
  BY <1>7 DEF VpnAnswer
<1>8. ASSUME NEW c \in Conns, VpnHangup(c) PROVE PendingInv'
  BY <1>8 DEF VpnHangup
<1> QED
  BY <1>1, <1>2, <1>3, <1>4, <1>5, <1>6, <1>7, <1>8

\* What connection.Close does to the connections.
LEMMA CloseLinkInv ==
    ASSUME TypeOK, LinkInv, CloseLink(conn), conn # 0
    PROVE  /\ \A c \in Conns : link'[c] = "unused" => inbox'[c] = <<>> /\ outbox'[c] = <<>>
           /\ \A c \in Conns : failing'[c] # None => link'[c] = "closed"
<1>1. /\ link' = [link EXCEPT ![conn] = "closed"]
      /\ inbox' = [inbox EXCEPT ![conn] = <<>>]
      /\ \A c \in Conns \ {conn} : outbox'[c] = outbox[c]
      /\ failing' = failing
  BY DEF CloseLink, TypeOK
<1> QED
  BY <1>1 DEF TypeOK, LinkInv

\* Who waits has a connection, and is alone.
LEMMA WaitingAlone ==
    ASSUME TypeOK, MutexInv, NEW p \in Procs, pc[p] \in Critical, NEW q \in Procs, q # p
    PROVE  ~Waiting(q)
  BY DEF MutexInv, Waiting, Critical, Past

LEMMA WaitingTarget ==
    ASSUME TypeOK, MutexInv, NEW q \in Procs, Waiting(q)
    PROVE  target[q] # 0
  BY DEF MutexInv, Waiting, OnTarget, Conns

\* The steps of a goroutine of Request or Maintain.
LEMMA ProcLinkInv ==
    ASSUME TypeOK, MutexInv, PendingInv, LinkInv, NEW p \in Procs,
           Begin(p) \/ LockCommand(p) \/ Step(p)
    PROVE  LinkInv'
<1> USE DEF Goto, backend, waiter, wires
<1>1. CASE Begin(p)
  BY <1>1 DEF Begin, LinkInv, TypeOK, Waiting
<1>2. CASE LockCommand(p)
  BY <1>2 DEF LockCommand, LinkInv, TypeOK, Waiting
<1>3. CASE Gate(p)
  BY <1>3 DEF Gate, LinkInv, TypeOK, Waiting
<1>4. CASE Check(p)
  <2>1. ~Waiting(p)' /\ \A q \in Procs \ {p} : ~Waiting(q)'
    <3>1. \A q \in Procs \ {p} : ~Waiting(q) /\ pc'[q] = pc[q]
      BY <1>4, WaitingAlone DEF Check, Critical, TypeOK
    <3>2. pc'[p] \in {"gate", "error", "dial", "exchange"}
      BY <1>4 DEF Check, TypeOK
    <3> QED
      BY <3>1, <3>2 DEF Waiting
  <2> QED
    BY <1>4, <2>1 DEF Check, LinkInv
<1>5. CASE ConnectFails(p)
  BY <1>5 DEF ConnectFails, Leave, LinkInv, TypeOK, Waiting
<1>6. CASE Exchange(p)
  <2>1. pending = None /\ target[p] \in Conns
    BY <1>6, NothingPending DEF Exchange, Critical, Past, OnTarget, MutexInv, Waiting
  <2>2. \A q \in Procs \ {p} : ~Waiting(q)'
    <3>1. \A q \in Procs \ {p} : ~Waiting(q) /\ pc'[q] = pc[q]
      BY <1>6, WaitingAlone DEF Exchange, Critical, Past, TypeOK
    <3> QED
      BY <3>1 DEF Waiting
  <2>3. CASE conn # target[p]
    <3>1. pc'[p] \in {"subscribed", "answered"} /\ UNCHANGED <<conn, wires>>
      BY <1>6, <2>3 DEF Exchange, TypeOK
    <3> QED
      BY <2>2, <3>1 DEF LinkInv, Waiting
  <2>4. CASE conn = target[p]
    <3>1. /\ err'[p] = FALSE
          /\ \A c \in Conns \ {conn} : inbox'[c] = inbox[c]
          /\ UNCHANGED <<conn, target, link, failing, outbox>>
      BY <1>6, <2>1, <2>4 DEF Exchange, TypeOK
    <3>2. link[conn] # "unused"
      BY <2>1, <2>4 DEF LinkInv, Conns
    <3> QED
      BY <2>2, <3>1, <3>2 DEF LinkInv
  <2> QED
    BY <2>3, <2>4
<1>7. CASE Collect(p)
  BY <1>7 DEF Collect, Returned, LinkInv, TypeOK, Waiting
<1>8. CASE Timeout(p)
  <2>1. \A q \in Procs : ~Waiting(q)'
    <3>1. \A q \in Procs \ {p} : ~Waiting(q) /\ pc'[q] = pc[q]
      BY <1>8, WaitingAlone DEF Timeout, Waiting, Critical, Past, TypeOK
    <3>2. pc'[p] \in {"subscribed", "answered"}
      BY <1>8 DEF Timeout, Returned, TypeOK
    <3> QED
      BY <3>1, <3>2 DEF Waiting
  <2>2. CASE conn = target[p]
    <3>1. conn # 0 /\ CloseLink(conn) /\ conn' = 0
      BY <1>8, <2>2, WaitingTarget DEF Timeout, Disconnect
    <3> QED
      BY <2>1, <3>1, CloseLinkInv DEF LinkInv
  <2>3. CASE conn # target[p]
    BY <1>8, <2>1, <2>3 DEF Timeout, Disconnect, LinkInv
  <2> QED
    BY <2>2, <2>3
<1>9. CASE Subscribed(p)
  <2>1. \A q \in Procs : ~Waiting(q)'
    <3>1. \A q \in Procs \ {p} : ~Waiting(q) /\ pc'[q] = pc[q]
      BY <1>9, WaitingAlone DEF Subscribed, Leave, Critical, Past, TypeOK
    <3>2. pc'[p] \in {"idle", "exchange", "error"}
      BY <1>9 DEF Subscribed, Leave, TypeOK
    <3> QED
      BY <3>1, <3>2 DEF Waiting
  <2>2. target[p] # 0
    BY <1>9 DEF Subscribed, MutexInv, OnTarget, Conns
  <2>3. CASE ~Succeeded(p) /\ conn = target[p]
    <3>1. conn # 0 /\ CloseLink(conn) /\ conn' = 0
      BY <1>9, <2>2, <2>3 DEF Subscribed, Disconnect
    <3> QED
      BY <2>1, <3>1, CloseLinkInv DEF LinkInv
  <2>4. CASE Succeeded(p) \/ conn # target[p]
    BY <1>9, <2>1, <2>4 DEF Subscribed, Disconnect, LinkInv
  <2> QED
    BY <2>3, <2>4
<1>10. CASE Answered(p)
  BY <1>10 DEF Answered, Leave, LinkInv, TypeOK, Waiting
<1>11. CASE Initialized(p)
  BY <1>11 DEF Initialized, Leave, LinkInv, TypeOK, Waiting
<1>12. CASE InitTimeout(p)
  BY <1>12 DEF InitTimeout, Leave, LinkInv, TypeOK, Waiting
<1>13. ASSUME NEW c \in Conns, Connect(p, c) PROVE LinkInv'
  <2>1. \A q \in Procs : ~Waiting(q)'
    <3>1. \A q \in Procs \ {p} : ~Waiting(q) /\ pc'[q] = pc[q]
      BY <1>13, WaitingAlone DEF Connect, Critical, Past, TypeOK
    <3>2. pc'[p] = "subscribe"
      BY <1>13 DEF Connect, TypeOK
    <3> QED
      BY <3>1, <3>2 DEF Waiting
  <2> QED
    BY <1>13, <2>1 DEF Connect, LinkInv, TypeOK
<1> QED
  BY <1>1, <1>2, <1>3, <1>4, <1>5, <1>6, <1>7, <1>8, <1>9, <1>10, <1>11, <1>12,
     <1>13 DEF Step

LEMMA OtherLinkInv ==
    ASSUME TypeOK, MutexInv, PendingInv, LinkInv,
           \/ CheckConnected \/ VpnInitialize \/ Close
           \/ \E c \in Conns : Read(c) \/ ReadEnd(c) \/ FailWaiter(c)
                               \/ VpnAnswer(c) \/ VpnHangup(c)
    PROVE  LinkInv'
<1> USE DEF TypeOK, backend, waiter, wires
<1>1. CASE CheckConnected
  BY <1>1 DEF CheckConnected, LinkInv, Waiting, Goto, Procs
<1>2. CASE VpnInitialize
  BY <1>2 DEF VpnInitialize, LinkInv, Waiting
<1>3. CASE Close
  <2>1. \A q \in Procs : Waiting(q)' => conn' # target'[q]
    BY <1>3, WaitingTarget DEF Close, Waiting
  <2>2. CASE conn = 0
    BY <1>3, <2>1, <2>2 DEF Close, LinkInv
  <2>3. CASE conn # 0
    <3>1. conn # 0 /\ CloseLink(conn) /\ conn' = 0
      BY <1>3, <2>3 DEF Close
    <3> QED
      BY <2>1, <3>1, CloseLinkInv DEF LinkInv
  <2> QED
    BY <2>2, <2>3
<1>4. ASSUME NEW c \in Conns, Read(c) PROVE LinkInv'
  BY <1>4 DEF Read, LinkInv, Waiting
<1>5. ASSUME NEW c \in Conns, ReadEnd(c) PROVE LinkInv'
  <2>1. CASE conn = c
    <3>1. \A q \in Procs : Waiting(q)' => conn' # target'[q]
      BY <1>5, <2>1, WaitingTarget DEF ReadEnd, Waiting
    <3> QED
      BY <1>5, <2>1, <3>1 DEF ReadEnd, LinkInv
  <2>2. CASE conn # c
    BY <1>5, <2>2 DEF ReadEnd, LinkInv, Waiting
  <2> QED
    BY <2>1, <2>2
<1>6. ASSUME NEW c \in Conns, FailWaiter(c) PROVE LinkInv'
  <2>1. c # conn
    BY <1>6 DEF FailWaiter, LinkInv, Conns
  <2>2. \A q \in Procs : err'[q] => err[q] \/ target[q] = c
    BY <1>6 DEF FailWaiter
  <2> QED
    BY <1>6, <2>1, <2>2 DEF FailWaiter, LinkInv, Waiting
<1>7. ASSUME NEW c \in Conns, VpnAnswer(c) PROVE LinkInv'
  <2>1. /\ link[c] \in {"open", "logging"} /\ link'[c] \in {"open", "logging"}
        /\ \A d \in Conns \ {c} : /\ link'[d] = link[d] /\ inbox'[d] = inbox[d]
                                   /\ outbox'[d] = outbox[d]
        /\ UNCHANGED <<conn, target, pc, err, failing>>
    BY <1>7 DEF VpnAnswer, Up
  <2>2. conn # 0 => link'[conn'] \notin {"unused", "closed"}
    BY <2>1 DEF LinkInv, Conns
  <2>3. \A d \in Conns : failing'[d] # None => link'[d] = "closed"
    BY <2>1 DEF LinkInv
  <2>4. \A d \in Conns : link'[d] = "unused" => inbox'[d] = <<>> /\ outbox'[d] = <<>>
    BY <2>1 DEF LinkInv
  <2>5. \A p \in Procs : (Waiting(p) /\ err[p] => conn # target[p])'
    BY <2>1 DEF LinkInv, Waiting
  <2> HIDE DEF TypeOK
  <2> QED
    BY <2>1, <2>2, <2>3, <2>4, <2>5 DEF LinkInv
<1>8. ASSUME NEW c \in Conns, VpnHangup(c) PROVE LinkInv'
  BY <1>8 DEF VpnHangup, Up, LinkInv, Waiting
<1> QED
  BY <1>1, <1>2, <1>3, <1>4, <1>5, <1>6, <1>7, <1>8

-----------------------------------------------------------------------------
(* What is on the wire.                                                    *)

LEMMA InitWireInv == Init => WireInv
  BY DEF Init, WireInv

\* Nothing of the connection in use and its command changes.
LEMMA WireFrame ==
    ASSUME WireInv, UNCHANGED <<conn, pending>>, crossed => crossed',
           conn # 0 /\ ~crossed' => inbox'[conn] = inbox[conn] /\ outbox'[conn] = outbox[conn],
           pending # None /\ ~crossed' => lines'[pending.by] = lines[pending.by]
    PROVE  WireInv'
  BY DEF WireInv, Quiet, OneAnswer

\* Nobody waits, and the connection in use is left alone or given up.
LEMMA WireIdle ==
    ASSUME WireInv, pending = None, pending' = None, crossed' = crossed, conn' \in {0, conn},
           conn' # 0 => inbox'[conn] = inbox[conn] /\ outbox'[conn] = outbox[conn]
    PROVE  WireInv'
  BY DEF WireInv, Quiet

\* The steps of a goroutine of Request or Maintain.
LEMMA ProcWireInv ==
    ASSUME TypeOK, MutexInv, PendingInv, LinkInv, WireInv, NEW p \in Procs,
           Begin(p) \/ LockCommand(p) \/ Step(p)
    PROVE  WireInv'
<1> USE DEF backend, waiter, wires
<1>1. CASE Begin(p)
  BY <1>1, WireFrame DEF Begin, TypeOK
<1>2. CASE LockCommand(p)
  BY <1>2, WireFrame DEF LockCommand, TypeOK
<1>3. CASE Gate(p)
  BY <1>3, WireFrame DEF Gate, TypeOK
<1>4. CASE Check(p)
  BY <1>4, WireFrame DEF Check, TypeOK
<1>5. CASE ConnectFails(p)
  <2>1. pending = None
    BY <1>5, NothingPending DEF ConnectFails, Critical, Past, Waiting
  <2> QED
    BY <1>5, <2>1, WireIdle DEF ConnectFails
<1>6. CASE Exchange(p)
  <2>1. pending = None /\ target[p] \in Conns
    BY <1>6, NothingPending DEF Exchange, Critical, Past, OnTarget, MutexInv, Waiting
  <2>2. CASE conn # target[p]
    BY <1>6, <2>1, <2>2, WireIdle DEF Exchange
  <2>3. CASE conn = target[p]
    <3>1. /\ inbox'[conn] = Append(inbox[conn], pending')
          /\ pending'.by = p /\ pending' \in Commands
          /\ lines'[p] = <<>>
          /\ UNCHANGED <<conn, outbox, crossed>>
      BY <1>6, <2>1, <2>3 DEF Exchange, TypeOK, Commands
    <3>2. ~crossed => inbox'[conn] = <<pending'>> /\ NoAnswer(outbox[conn])
      <4>1. ~crossed => Quiet(conn)
        BY <2>1, <2>3 DEF WireInv, Conns
      <4>2. Append(<<>>, pending') = <<pending'>>
        BY <3>1
      <4> QED
        BY <3>1, <4>1, <4>2 DEF Quiet
    <3> QED
      BY <3>1, <3>2, NoCommandAssumption DEF WireInv, OneAnswer
  <2> QED
    BY <2>2, <2>3
<1>7. CASE Collect(p)
  <2>1. commandMu = p
    BY <1>7 DEF Collect, Waiting, MutexInv, Critical, Past
  <2>2. pending' = None /\ UNCHANGED <<conn, inbox, outbox, crossed>>
    BY <1>7, <2>1 DEF Collect, PendingInv
  <2>3. CASE pending = None
    BY <2>2, <2>3, WireIdle
  <2>4. CASE pending # None
    <3>1. pending.by = p /\ lines[p] # <<>>
      BY <1>7, <2>1, <2>4 DEF Collect, PendingInv, LinkInv
    <3> QED
      BY <2>2, <2>4, <3>1 DEF WireInv, Quiet
  <2> QED
    BY <2>3, <2>4
<1>8. CASE Timeout(p)
  <2>1. CASE conn = target[p]
    BY <1>8, <2>1 DEF Timeout, Disconnect, WireInv
  <2>2. CASE conn # target[p]
    <3>1. commandMu = p
      BY <1>8 DEF Timeout, Waiting, MutexInv, Critical, Past
    <3>2. pending = None
      BY <2>2, <3>1 DEF PendingInv
    <3> QED
      BY <1>8, <2>2, <3>2, WireIdle DEF Timeout, Disconnect
  <2> QED
    BY <2>1, <2>2
<1>9. CASE Subscribed(p)
  <2>1. pending = None
    BY <1>9, NothingPending DEF Subscribed, Critical, Past, Waiting
  <2>2. CASE ~Succeeded(p) /\ conn = target[p]
    BY <1>9, <2>2 DEF Subscribed, Disconnect, WireInv
  <2>3. CASE ~(~Succeeded(p) /\ conn = target[p])
    BY <1>9, <2>1, <2>3, WireIdle DEF Subscribed, Disconnect
  <2> QED
    BY <2>2, <2>3
<1>10. CASE Answered(p)
  <2>1. pending = None
    BY <1>10, NothingPending DEF Answered, Critical, Past, Waiting
  <2> QED
    BY <1>10, <2>1, WireIdle DEF Answered
<1>11. CASE Initialized(p) \/ InitTimeout(p)
  <2>1. pc[p] = "initwait" /\ lines' = [lines EXCEPT ![p] = <<>>]
        /\ UNCHANGED <<conn, pending, crossed, inbox, outbox>>
    BY <1>11 DEF Initialized, InitTimeout, Leave
  <2>2. pending # None => pending.by \in Procs /\ pending.by # p
    BY <2>1 DEF PendingInv, Waiting, TypeOK, Commands
  <2>3. pending # None => lines'[pending.by] = lines[pending.by]
    BY <2>1, <2>2 DEF TypeOK
  <2> QED
    BY <2>1, <2>3, WireFrame DEF TypeOK
<1>12. ASSUME NEW c \in Conns, Connect(p, c) PROVE WireInv'
  <2>1. pending = None /\ inbox[c] = <<>> /\ outbox[c] = <<>>
    BY <1>12, NothingPending DEF Connect, Critical, Past, Waiting, LinkInv
  <2>2. conn' = c /\ pending' = None /\ inbox' = inbox /\ outbox' = outbox
    BY <1>12, <2>1 DEF Connect
  <2> QED
    BY <2>1, <2>2 DEF WireInv, Quiet, NoAnswer
<1> QED
  BY <1>1, <1>2, <1>3, <1>4, <1>5, <1>6, <1>7, <1>8, <1>9, <1>10, <1>11, <1>12 DEF Step

\* Lines that are read or written one at a time.
LEMMA TailAnswers ==
    ASSUME NEW S, NEW s \in Seq(S), s # <<>>, NEW command
    PROVE  /\ NoAnswer(s) => Head(s) \in Event /\ NoAnswer(Tail(s))
           /\ OneTo(s, command) /\ Head(s) \in Event => OneTo(Tail(s), command)
           /\ OneTo(s, command) /\ Head(s) \notin Event =>
                  Head(s).to = command /\ NoAnswer(Tail(s))
<1>1. /\ Len(s) \in Nat /\ Len(s) > 0 /\ Len(Tail(s)) = Len(s) - 1 /\ Head(s) = s[1]
      /\ \A i \in 1..Len(Tail(s)) : Tail(s)[i] = s[i + 1] /\ i + 1 \in 1..Len(s)
  OBVIOUS
<1>2. NoAnswer(s) => Head(s) \in Event /\ NoAnswer(Tail(s))
  BY <1>1 DEF NoAnswer
<1>3. ASSUME OneTo(s, command), Head(s) \in Event PROVE OneTo(Tail(s), command)
  <2>1. \A i, j \in 1..Len(Tail(s)) :
           Tail(s)[i] \notin Event /\ Tail(s)[j] \notin Event => i + 1 = j + 1
    BY <1>1, <1>3 DEF OneTo
  <2>2. \A i, j \in 1..Len(Tail(s)) : i + 1 = j + 1 => i = j
    BY <1>1
  <2> QED
    BY <1>1, <1>3, <2>1, <2>2 DEF OneTo
<1>4. ASSUME OneTo(s, command), Head(s) \notin Event
      PROVE  Head(s).to = command /\ NoAnswer(Tail(s))
  <2>1. \A i \in 1..Len(s) : s[i] \notin Event => i = 1
    BY <1>1, <1>4 DEF OneTo
  <2>2. \A i \in 1..Len(Tail(s)) : i + 1 # 1
    BY <1>1
  <2>3. NoAnswer(Tail(s))
    BY <1>1, <2>1, <2>2 DEF NoAnswer
  <2> QED
    BY <1>1, <1>4, <2>3 DEF OneTo
<1> QED
  BY <1>2, <1>3, <1>4

LEMMA AppendAnswers ==
    ASSUME NEW S, NEW s \in Seq(S), NEW line \in S, NEW command
    PROVE  /\ NoAnswer(s) /\ line \in Event => NoAnswer(Append(s, line))
           /\ OneTo(s, command) /\ line \in Event => OneTo(Append(s, line), command)
           /\ NoAnswer(s) /\ line.to = command => OneTo(Append(s, line), command)
<1>1. /\ Len(s) \in Nat /\ Len(Append(s, line)) = Len(s) + 1
      /\ Append(s, line)[Len(s) + 1] = line
      /\ \A i \in 1..Len(s) : Append(s, line)[i] = s[i]
      /\ \A i \in 1..Len(s) + 1 : i \in 1..Len(s) \/ i = Len(s) + 1
  OBVIOUS
<1> QED
  BY <1>1 DEF NoAnswer, OneTo

LEMMA OtherWireInv ==
    ASSUME TypeOK, MutexInv, PendingInv, LinkInv, WireInv,
           \/ CheckConnected \/ VpnInitialize \/ Close
           \/ \E c \in Conns : Read(c) \/ ReadEnd(c) \/ FailWaiter(c)
                               \/ VpnAnswer(c) \/ VpnHangup(c)
    PROVE  WireInv'
<1> USE DEF backend, waiter, wires
<1>0. /\ conn # 0 => conn \in Conns
      /\ \A c \in Conns : /\ outbox[c] \in Seq(Event \cup Answer)
                           /\ inbox[c] \in Seq(Commands)
  BY DEF TypeOK, Conns
<1>1. CASE CheckConnected
  BY <1>1, WireFrame DEF CheckConnected
<1>2. CASE VpnInitialize
  <2> DEFINE line == [event |-> "initialized"]
  <2>1. line \in Event
    BY DEF Event
  <2>2. ASSUME conn # 0, NEW command
        PROVE  /\ NoAnswer(outbox[conn]) => NoAnswer(outbox'[conn])
               /\ OneTo(outbox[conn], command) => OneTo(outbox'[conn], command)
    <3>1. outbox'[conn] \in {outbox[conn], Append(outbox[conn], line)}
      BY <1>0, <1>2, <2>2 DEF VpnInitialize
    <3> HIDE DEF line
    <3>2. outbox[conn] \in Seq(Event \cup Answer) /\ line \in Event \cup Answer
      BY <1>0, <2>1, <2>2
    <3>3. /\ NoAnswer(outbox[conn]) => NoAnswer(Append(outbox[conn], line))
          /\ OneTo(outbox[conn], command) => OneTo(Append(outbox[conn], line), command)
      BY <2>1, <3>2, AppendAnswers
    <3> QED
      BY <3>1, <3>3
  <2>3. UNCHANGED <<conn, pending, crossed, inbox, lines>>
    BY <1>2 DEF VpnInitialize
  <2> QED
    BY <2>2, <2>3 DEF WireInv, Quiet, OneAnswer
<1>3. CASE Close
  BY <1>3 DEF Close, WireInv
<1>4. ASSUME NEW c \in Conns, Read(c) PROVE WireInv'
  <2> SUFFICES ASSUME ~crossed', conn' # 0
               PROVE  /\ pending' = None => Quiet(conn)'
                      /\ pending' # None => OneAnswer(conn)'
                      /\ pending' # None /\ lines'[pending'.by] # <<>> => Quiet(conn)'
    BY DEF WireInv
  <2>1. /\ UNCHANGED <<conn, pending, inbox>> /\ ~crossed /\ conn # 0
        /\ outbox[c] # <<>>
        /\ outbox' = [outbox EXCEPT ![c] = Tail(outbox[c])]
        /\ Head(outbox[c]) \in Event \/ pending = None => lines' = lines
        /\ Head(outbox[c]) \notin Event /\ pending # None => conn = c
    BY <1>4 DEF Read, PendingInv
  <2>2. CASE c # conn
    <3>1. outbox'[conn] = outbox[conn] /\ lines' = lines
      BY <1>0, <2>1, <2>2 DEF TypeOK
    <3> QED
      BY <2>1, <3>1 DEF WireInv, Quiet, OneAnswer
  <2>3. CASE c = conn
    <3>1. outbox'[conn] = Tail(outbox[conn]) /\ outbox[conn] # <<>>
          /\ outbox[conn] \in Seq(Event \cup Answer)
      BY <1>0, <2>1, <2>3 DEF TypeOK
    <3>2. CASE Head(outbox[conn]) \in Event
      <4>1. /\ NoAnswer(outbox[conn]) => NoAnswer(outbox'[conn])
            /\ OneTo(outbox[conn], pending) => OneTo(outbox'[conn], pending)
        BY <3>1, <3>2, TailAnswers
      <4> QED
        BY <2>1, <2>3, <3>2, <4>1 DEF WireInv, Quiet, OneAnswer
    <3>3. CASE Head(outbox[conn]) \notin Event
      <4>1. ~NoAnswer(outbox[conn])
        BY <3>1, <3>3, TailAnswers
      <4>2. pending # None /\ inbox[conn] = <<>> /\ OneTo(outbox[conn], pending)
        BY <2>1, <4>1 DEF WireInv, Quiet, OneAnswer
      <4>3. NoAnswer(outbox'[conn])
        BY <3>1, <3>3, <4>2, TailAnswers
      <4>4. OneTo(outbox'[conn], pending)
        BY <4>3 DEF NoAnswer, OneTo
      <4> QED
        BY <2>1, <4>2, <4>3, <4>4 DEF Quiet, OneAnswer
    <3> QED
      BY <3>2, <3>3
  <2> QED
    BY <2>2, <2>3
<1>5. ASSUME NEW c \in Conns, ReadEnd(c) PROVE WireInv'
  <2>1. CASE conn = c
    BY <1>5, <2>1 DEF ReadEnd, WireInv
  <2>2. CASE conn # c
    BY <1>5, <2>2, WireFrame DEF ReadEnd
  <2> QED
    BY <2>1, <2>2
<1>6. ASSUME NEW c \in Conns, FailWaiter(c) PROVE WireInv'
  BY <1>6, WireFrame DEF FailWaiter
<1>7. ASSUME NEW c \in Conns, VpnAnswer(c) PROVE WireInv'
  <2> SUFFICES ASSUME ~crossed', conn' # 0
               PROVE  /\ pending' = None => Quiet(conn)'
                      /\ pending' # None => OneAnswer(conn)'
                      /\ pending' # None /\ lines'[pending'.by] # <<>> => Quiet(conn)'
    BY DEF WireInv
  <2>1. UNCHANGED <<conn, pending, crossed, lines>> /\ ~crossed /\ conn # 0
    BY <1>7 DEF VpnAnswer
  <2>2. PICK success \in BOOLEAN :
          /\ outbox' = [outbox EXCEPT ![c] =
                          Append(outbox[c], [to |-> Head(inbox[c]), success |-> success])]
          /\ inbox' = [inbox EXCEPT ![c] = Tail(inbox[c])]
          /\ inbox[c] # <<>>
    BY <1>7 DEF VpnAnswer
  <2>3. CASE c # conn
    <3>1. outbox'[conn] = outbox[conn] /\ inbox'[conn] = inbox[conn]
      BY <1>0, <2>1, <2>2, <2>3 DEF TypeOK
    <3> QED
      BY <2>1, <3>1 DEF WireInv, Quiet, OneAnswer
  <2>4. CASE c = conn
    <3>1. /\ pending # None /\ inbox[conn] = <<pending>> /\ NoAnswer(outbox[conn])
          /\ lines[pending.by] = <<>>
      BY <2>1, <2>2, <2>4 DEF WireInv, Quiet, OneAnswer
    <3>2. pending \in Commands /\ Head(<<pending>>) = pending /\ Tail(<<pending>>) = <<>>
      BY <3>1 DEF TypeOK
    <3> DEFINE line == [to |-> pending, success |-> success]
    <3>3. line \in Event \cup Answer /\ line.to = pending
      BY <3>2 DEF Answer
    <3>4. inbox'[conn] = <<>> /\ outbox'[conn] = Append(outbox[conn], line)
      BY <1>0, <2>2, <2>4, <3>1, <3>2 DEF TypeOK
    <3> HIDE DEF line
    <3>5. OneTo(Append(outbox[conn], line), pending)
      BY <1>0, <2>4, <3>1, <3>3, AppendAnswers
    <3> QED
      BY <2>1, <3>1, <3>4, <3>5 DEF OneAnswer
  <2> QED
    BY <2>3, <2>4
<1>8. ASSUME NEW c \in Conns, VpnHangup(c) PROVE WireInv'
  <2>1. /\ UNCHANGED <<conn, pending, crossed, lines, outbox>>
        /\ inbox' = [inbox EXCEPT ![c] = <<>>]
    BY <1>8 DEF VpnHangup
  <2>2. CASE c # conn
    BY <1>0, <2>1, <2>2, WireFrame DEF TypeOK
  <2>3. CASE c = conn
    <3>1. inbox'[conn] = <<>>
      BY <2>1, <2>3 DEF TypeOK
    <3>2. NoAnswer(outbox[conn]) => OneTo(outbox[conn], pending)
      BY DEF NoAnswer, OneTo
    <3> QED
      BY <2>1, <3>1, <3>2 DEF WireInv, Quiet, OneAnswer
  <2> QED
    BY <2>2, <2>3
<1> QED
  BY <1>1, <1>2, <1>3, <1>4, <1>5, <1>6, <1>7, <1>8

-----------------------------------------------------------------------------
(* The theorems.                                                           *)

LEMMA InitInv == Init => Inv
  BY InitTypeOK, InitMutexInv, InitPendingInv, InitWireInv DEF Inv

\* Every step of the broker or of OpenVPN keeps the invariant.
LEMMA NextInv == Inv /\ [Next]_vars => Inv'
<1> SUFFICES ASSUME Inv, [Next]_vars PROVE Inv'
  OBVIOUS
<1>1. ASSUME NEW p \in Procs, Begin(p) \/ LockCommand(p) \/ Step(p) PROVE Inv'
  BY <1>1, ProcTypeOK, ProcMutexInv, ProcPendingInv, ProcLinkInv, ProcWireInv DEF Inv
<1>2. CASE \/ CheckConnected \/ VpnInitialize \/ Close
           \/ \E c \in Conns : Read(c) \/ ReadEnd(c) \/ FailWaiter(c)
                               \/ VpnAnswer(c) \/ VpnHangup(c)
  BY <1>2, OtherTypeOK, OtherMutexInv, OtherPendingInv, OtherLinkInv, OtherWireInv DEF Inv
<1>3. CASE UNCHANGED vars
  BY <1>3 DEF vars, backend, waiter, wires, openvpn, Inv, TypeOK, MutexInv, PendingInv,
              LinkInv, WireInv, Quiet, OneAnswer, Waiting
<1> QED
  BY <1>1, <1>2, <1>3 DEF Next

\* The invariant behind the broker's guarantees: commandMu excludes, the
\* pending command is its holder's and on the connection in use, and that
\* connection carries at most the command or its response (broker.go, Request,
\* exchange, disconnect and read).
THEOREM Invariance == Spec => []Inv
  BY InitInv, NextInv, PTL DEF Spec

\* Every variable of the broker stays in its type, whatever clients, OpenVPN
\* and time-outs do.
THEOREM TypeCorrect == Spec => []TypeOK
<1>1. Inv => TypeOK
  BY DEF Inv
<1> QED
  BY <1>1, Invariance, PTL

\* broker_test.go's "active commands": OpenVPN never has two commands of the
\* broker to answer on the connection in use, and the pending one is the
\* commandMu holder's, as long as no old reader crossed connections.
THEOREM SerializedUnlessCrossedAlways == Spec => []SerializedUnlessCrossed
<1>1. Inv => SerializedUnlessCrossed
  <2> SUFFICES ASSUME Inv, ~crossed PROVE Serialized
    BY DEF SerializedUnlessCrossed
  <2>1. ASSUME conn # 0 PROVE Len(inbox[conn]) <= 1
    <3>1. inbox[conn] \in {<<>>, <<pending>>}
      BY <2>1 DEF Inv, WireInv, Quiet, OneAnswer
    <3>2. Len(<<>>) <= 1 /\ Len(<<pending>>) <= 1
      OBVIOUS
    <3> QED
      BY <3>1, <3>2
  <2> QED
    BY <2>1 DEF Inv, PendingInv, Serialized
<1> QED
  BY <1>1, Invariance, PTL

\* A response read from the connection in use is delivered to the command it
\* answers: exchange's time-out drops the connection, so a late response finds
\* no later command there.
THEOREM AnswersMatch == Spec => LiveAnswersMatch
<1>1. ASSUME Inv, Next, NEW p \in Procs,
             lines'[p] # lines[p], lines'[p] # <<>>, ~crossed'
      PROVE  lines'[p][Len(lines'[p])].to = pending
  <2>1. ASSUME NEW q \in Procs, Begin(q) \/ LockCommand(q) \/ Step(q) PROVE FALSE
    <3>1. lines' = lines \/ lines' = [lines EXCEPT ![q] = <<>>]
      BY <2>1 DEF Begin, LockCommand, Step, Gate, Check, ConnectFails, Exchange, Collect,
                  Timeout, Subscribed, Answered, Initialized, InitTimeout, Connect, Leave,
                  waiter
    <3> QED
      BY <1>1, <3>1 DEF Inv, TypeOK
  <2>2. CASE CheckConnected \/ VpnInitialize \/ Close
    BY <1>1, <2>2 DEF CheckConnected, VpnInitialize, Close, waiter
  <2>3. ASSUME NEW c \in Conns, ReadEnd(c) \/ FailWaiter(c) \/ VpnAnswer(c) \/ VpnHangup(c)
        PROVE  FALSE
    BY <1>1, <2>3 DEF ReadEnd, FailWaiter, VpnAnswer, VpnHangup, waiter
  <2>4. ASSUME NEW c \in Conns, Read(c) PROVE lines'[p][Len(lines'[p])].to = pending
    <3>1. /\ Head(outbox[c]) \notin Event /\ pending # None /\ pending.on = c /\ ~crossed
          /\ lines' = [lines EXCEPT ![pending.by] = Append(lines[pending.by], Head(outbox[c]))]
          /\ outbox[c] # <<>>
      BY <1>1, <2>4 DEF Read
    <3>2. pending.by = p /\ conn = c /\ c # 0 /\ outbox[c] \in Seq(Event \cup Answer)
          /\ lines[p] \in Seq(Answer)
      BY <1>1, <3>1 DEF Inv, PendingInv, TypeOK, Conns
    <3>3. Head(outbox[c]).to = pending
      <4>1. ~NoAnswer(outbox[c])
        BY <3>1, <3>2, TailAnswers
      <4>2. OneTo(outbox[c], pending)
        BY <1>1, <3>1, <3>2, <4>1 DEF Inv, WireInv, OneAnswer
      <4> QED
        BY <3>1, <3>2, <4>2, TailAnswers
    <3>4. lines'[p] = Append(lines[p], Head(outbox[c]))
      BY <1>1, <3>1, <3>2 DEF Inv, TypeOK
    <3>5. lines'[p][Len(lines'[p])] = Head(outbox[c])
      BY <3>2, <3>4
    <3> QED
      BY <3>3, <3>5
  <2> QED
    BY <1>1, <2>1, <2>2, <2>3, <2>4 DEF Next
<1>2. Inv /\ [Next]_vars => [\A p \in Procs :
          lines'[p] # lines[p] /\ lines'[p] # <<>> /\ ~crossed' =>
             lines'[p][Len(lines'[p])].to = pending]_vars
  BY <1>1
<1> QED
  BY <1>2, Invariance, PTL DEF Spec, LiveAnswersMatch

\* From the moment Request sets reloadDone until finishReload no other
\* client's command is written to OpenVPN.
THEOREM ReloadExcludes == Spec => ReloadExcludesCommands
<1>1. ASSUME Inv, Next, NEW c \in Conns, Len(inbox'[c]) > Len(inbox[c]),
             inbox'[c][Len(inbox'[c])].why = "request"
      PROVE  reloadDone \in {None, inbox'[c][Len(inbox'[c])].by}
  <2>0. /\ inbox \in [Conns -> Seq(Commands)]
        /\ \A d \in Conns : Len(inbox[d]) \in Nat
    BY <1>1 DEF Inv, TypeOK
  <2>1. ASSUME NEW p \in Procs, Exchange(p)
        PROVE  reloadDone \in {None, inbox'[c][Len(inbox'[c])].by}
    <3> DEFINE command == [by |-> p, on |-> target[p],
                           why |-> IF pc[p] = "subscribe" THEN "subscribe" ELSE "request"]
    <3>1. inbox' = [inbox EXCEPT ![target[p]] = Append(inbox[target[p]], command)]
      BY <1>1, <2>0, <2>1 DEF Exchange
    <3>2. c = target[p]
      BY <1>1, <2>0, <3>1
    <3>3. target[p] \in Conns /\ pc[p] \in {"subscribe", "exchange"}
      BY <1>1, <2>1, <3>2 DEF Exchange
    <3>4. command \in Commands
      BY <3>3 DEF Commands
    <3>5. inbox'[c][Len(inbox'[c])] = command
      <4> HIDE DEF command
      <4>1. inbox'[c] = Append(inbox[c], command)
        BY <2>0, <3>1, <3>2
      <4> QED
        BY <2>0, <3>4, <4>1
    <3>6. pc[p] = "exchange"
      BY <1>1, <3>3, <3>5
    <3>7. p \in Requesters
      BY <1>1, <3>6 DEF Inv, MutexInv, Procs
    <3> QED
      BY <1>1, <3>5, <3>6, <3>7 DEF Inv, MutexInv, Past
  <2>2. ASSUME NEW p \in Procs, Begin(p) \/ LockCommand(p) \/ Step(p), ~Exchange(p) PROVE FALSE
    <3>1. inbox' = inbox \/ (\E d : inbox' = [inbox EXCEPT ![d] = <<>>])
      BY <2>2 DEF Begin, LockCommand, Step, Gate, Check, ConnectFails, Collect, Timeout,
                  Subscribed, Answered, Initialized, InitTimeout, Connect, Disconnect,
                  CloseLink, wires
    <3> QED
      BY <1>1, <2>0, <3>1
  <2>3. CASE CheckConnected \/ VpnInitialize \/ Close
    <3>1. inbox' = inbox \/ (\E d : inbox' = [inbox EXCEPT ![d] = <<>>])
      BY <2>3 DEF CheckConnected, VpnInitialize, Close, CloseLink, wires
    <3> QED
      BY <1>1, <2>0, <3>1
  <2>4. ASSUME NEW d \in Conns, Read(d) \/ ReadEnd(d) \/ FailWaiter(d) \/ VpnHangup(d)
        PROVE  FALSE
    <3>1. inbox' = inbox \/ inbox' = [inbox EXCEPT ![d] = <<>>]
      BY <2>4 DEF Read, ReadEnd, FailWaiter, VpnHangup
    <3> QED
      BY <1>1, <2>0, <3>1
  <2>5. ASSUME NEW d \in Conns, VpnAnswer(d) PROVE FALSE
    <3>1. inbox' = [inbox EXCEPT ![d] = Tail(inbox[d])] /\ inbox[d] # <<>>
      BY <2>5 DEF VpnAnswer
    <3>2. Len(Tail(inbox[d])) = Len(inbox[d]) - 1
      BY <2>0, <3>1
    <3> QED
      BY <1>1, <2>0, <3>1, <3>2
  <2> QED
    BY <1>1, <2>1, <2>2, <2>3, <2>4, <2>5 DEF Next
<1>2. Inv /\ [Next]_vars => [\A c \in Conns : Len(inbox'[c]) > Len(inbox[c]) =>
          LET command == inbox'[c][Len(inbox'[c])] IN
          command.why = "request" => reloadDone \in {None, command.by}]_vars
  BY <1>1
<1> QED
  BY <1>2, Invariance, PTL DEF Spec, ReloadExcludesCommands
=============================================================================
