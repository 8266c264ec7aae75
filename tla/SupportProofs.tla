---------------------------- MODULE SupportProofs ----------------------------
(***************************************************************************)
(* Proofs about the parts around the sessions, for any size of them.       *)
(* TaskQueue: no wake-up is lost, and the queue implements TaskService.    *)
(* Process: one server serves at a time, the pid file names it, its memory *)
(* outlives only a crash, who copies a whole table and its totals add up.  *)
(* AsyncCRC: the checksum covers every block once and in order, no block   *)
(* is overwritten before it is summed, no thread waits for one that waits  *)
(* for it, and the asserts on the member pending hold.  DataConnection: a  *)
(* transfer opens the connection that was prepared, with TLS where it is   *)
(* enforced, and a passive command listens where the client can reach it.  *)
(* Config: complete configurations are published and followed.             *)
(* Statistics: the sections add up to the files that stand in them.        *)
(***************************************************************************)
EXTENDS TaskQueue, Integers, FiniteSetsExt, FiniteSums

CONSTANTS Pids, Sessions, Readers, Speeds, Capacity, MaxStarts, MaxCrashes,
          QueueSize, MaxBlocks,
          Clients, Family, PortConfigs, AddrConfigs, FxpDown, FxpUp, TLSListing, TLSFxp, TLSData,
          Plans,
          ACLKeywords, Loads, TextDirs, FirstLoad, MaxVersion,
          Rankeds, StatSections, RankGroups, Stores, Deletes, MaxFiles, MaxMoves, MaxDay, Sundays

VARIABLES stage, named, pidfile, listening, segments, table, mutex, reader, starts, crashes,
          full, data, queued, finished, readIt, writeIt, writer, worker, sent, crc, result,
          protection, pasvType, epsvMode, sscnMode, restartOffset, listener, sock, pending, step,
          ports, portIt, nextPort, addrs, addrIt, plan, numCommands, reloads, disturbed, applied,
          gaveUp, wild, asserted, failed,
          latestVersion, shared, local, reload, slots, templates, command, answer, behind, overlapped,
          early,
          transfers, onDisk, moves, today, nukeLog, job, uploaded, uploadedOn,
          numMoves, unclean, split

Pro == INSTANCE Process
Crc == INSTANCE AsyncCRC
Dat == INSTANCE DataConnection
Con == INSTANCE Config
Sta == INSTANCE Statistics

-----------------------------------------------------------------------------
(* TaskQueue *)

\* The server thread's next task is the lowest one of its producer.
LEMMA HeadIsLowest ==
  ASSUME TypeOK, QueueInOrder, queue # <<>>
  PROVE  /\ queue[1] \in Tasks /\ 1 \in DOMAIN queue
         /\ queue[1][2] = Lowest(queue[1][1])
PROOF
  <1>1. queue[1] \in Tasks /\ 1 \in DOMAIN queue
    BY DEF TypeOK
  <1> DEFINE p == queue[1][1]
  <1>2. p \in Producers /\ queue[1][2] \in Nat
    BY <1>1 DEF Tasks
  <1>3. Lowest(p) \in Nat /\ pushed[p] \in Nat
    BY <1>2 DEF Lowest, TypeOK
  <1>4. queue[1][2] \in Lowest(p) .. pushed[p]
    BY <1>1 DEF QueueInOrder
  <1>5. Lowest(p) \in Lowest(p) .. pushed[p]
    BY <1>3, <1>4
  <1>6. PICK i \in DOMAIN queue : queue[i] = <<p, Lowest(p)>>
    BY <1>2, <1>5 DEF QueueInOrder
  <1>7. i \in Nat /\ i >= 1
    BY DEF TypeOK
  <1>8. CASE i = 1
    BY <1>1, <1>6, <1>8
  <1>9. CASE i > 1
    <2>1. queue[1][2] < queue[i][2]
      BY <1>1, <1>6, <1>9 DEF QueueInOrder
    <2> QED BY <2>1, <1>2, <1>3, <1>4, <1>6
  <1> QED BY <1>7, <1>8, <1>9

\* The inductive invariant holds initially.
LEMMA InitQueueInv == Init => QueueInv
PROOF
  <1> SUFFICES ASSUME Init PROVE QueueInv
    OBVIOUS
  <1> USE SizeAssumption DEF Init
  <1>1. TypeOK
    <2>1. ppc \in [Producers -> {"idle", "write"}]
      OBVIOUS
    <2>2. pushed \in [Producers -> Nat] /\ executed \in [Producers -> Nat]
      OBVIOUS
    <2>3. queue \in Seq(Tasks) /\ cur \in Seq(Tasks) /\ Len(cur) <= 1
      OBVIOUS
    <2>4. pipe \in 0 .. PipeSize
      OBVIOUS
    <2> QED BY <2>1, <2>2, <2>3, <2>4 DEF TypeOK
  <1>2. NoLostWakeup
    BY DEF NoLostWakeup
  <1>3. QueueInOrder
    BY DEF QueueInOrder, Lowest
  <1>4. TakenInOrder
    BY DEF TakenInOrder
  <1> QED BY <1>1, <1>2, <1>3, <1>4 DEF QueueInv

\* A push adds its producer's next task at the end.
LEMMA PushKeepsInv ==
  ASSUME QueueInv, NEW p \in Producers, PushTask(p)
  PROVE  QueueInv'
PROOF
  <1> USE SizeAssumption DEF QueueInv, TypeOK
  <1> DEFINE t == <<p, pushed[p] + 1>>
  <1>1. t \in Tasks /\ queue' = Append(queue, t)
    BY DEF PushTask, Tasks
  <1>2. /\ \A i \in DOMAIN queue : i \in DOMAIN queue' /\ queue'[i] = queue[i]
        /\ \A i \in DOMAIN queue' : i \notin DOMAIN queue =>
             queue'[i] = t /\ \A j \in DOMAIN queue' : j <= i
        /\ \E i \in DOMAIN queue' : queue'[i] = t
        /\ DOMAIN queue \in SUBSET Nat /\ DOMAIN queue' \in SUBSET Nat
    <2>1. DOMAIN queue = 1 .. Len(queue) /\ Len(queue) \in Nat
      OBVIOUS
    <2>2. DOMAIN queue' = 1 .. Len(queue) + 1
      BY <1>1
    <2>3. \A i \in DOMAIN queue : queue'[i] = queue[i]
      BY <1>1
    <2>4. queue'[Len(queue) + 1] = t
      BY <1>1
    <2>5. \A i \in DOMAIN queue' : i \notin DOMAIN queue => i = Len(queue) + 1
      BY <2>1, <2>2
    <2>6. /\ \A j \in DOMAIN queue' : j <= Len(queue) + 1
          /\ \A j \in DOMAIN queue : j \in DOMAIN queue'
      BY <2>1, <2>2
    <2>7. Len(queue) + 1 \in DOMAIN queue'
      BY <2>1, <2>2
    <2>8. DOMAIN queue \in SUBSET Nat /\ DOMAIN queue' \in SUBSET Nat
      BY <2>1, <2>2
    <2> HIDE DEF t, QueueInv, TypeOK
    <2> QED BY <2>3, <2>4, <2>5, <2>6, <2>7, <2>8
  <1>3. TypeOK'
    BY <1>1 DEF PushTask
  <1>4. NoLostWakeup'
    BY DEF PushTask, NoLostWakeup
  <1>5. \A q \in Producers :
          /\ Lowest(q)' = Lowest(q) /\ Lowest(q) \in Nat /\ pushed[q] \in Nat
          /\ pushed'[q] = IF q = p THEN pushed[q] + 1 ELSE pushed[q]
    BY DEF PushTask, Lowest
  <1>6. Lowest(p) <= pushed[p] + 1
    BY DEF QueueInOrder
  <1>7. QueueInOrder'
    <2> HIDE DEF t
    <2>0. \A i \in DOMAIN queue : queue[i] \in Tasks
      OBVIOUS
    <2>a. QueueInOrder
      OBVIOUS
    <2>t. t[1] = p /\ t[2] = pushed[p] + 1
      BY DEF t
    <2> HIDE DEF QueueInv, TypeOK
    <2>1. ASSUME NEW i \in DOMAIN queue'
          PROVE  (queue[i][2] \in Lowest(queue[i][1]) .. pushed[queue[i][1]])'
      <3>1. CASE i \in DOMAIN queue
        <4>1. queue[i] \in Tasks /\ queue'[i] = queue[i]
          BY <1>2, <2>0, <3>1
        <4>2. queue[i][1] \in Producers /\ queue[i][2] \in Nat
          BY <4>1 DEF Tasks
        <4>3. queue[i][2] \in Lowest(queue[i][1]) .. pushed[queue[i][1]]
          BY <2>a, <3>1 DEF QueueInOrder
        <4>4. /\ Lowest(queue[i][1]) \in Nat /\ pushed[queue[i][1]] \in Nat
              /\ Lowest(queue[i][1])' = Lowest(queue[i][1])
              /\ pushed'[queue[i][1]] >= pushed[queue[i][1]]
              /\ pushed'[queue[i][1]] \in Nat
          BY <4>1, <4>2, <1>5
        <4> QED BY <4>1, <4>2, <4>3, <4>4
      <3>2. CASE i \notin DOMAIN queue
        <4>1. queue'[i] = t
          BY <1>2, <3>2
        <4>2. Lowest(p) \in Nat /\ pushed[p] \in Nat /\ pushed'[p] = pushed[p] + 1
          BY <1>5
        <4>3. Lowest(queue[i][1])' = Lowest(p)
          BY <4>1, <1>5, <2>t
        <4> QED BY <4>1, <4>2, <4>3, <1>6, <2>t
      <3> QED BY <3>1, <3>2
    <2>2. ASSUME NEW i \in DOMAIN queue', NEW j \in DOMAIN queue', i < j,
                 queue'[i][1] = queue'[j][1]
          PROVE  queue'[i][2] < queue'[j][2]
      <3>1. i \in DOMAIN queue
        BY <1>2, <2>2
      <3>2. CASE j \in DOMAIN queue
        BY <1>2, <2>a, <2>2, <3>1, <3>2 DEF QueueInOrder
      <3>3. CASE j \notin DOMAIN queue
        <4>1. queue'[j] = t /\ queue'[i] = queue[i] /\ queue[i] \in Tasks
          BY <1>2, <2>0, <3>1, <3>3
        <4>2. queue[i][2] \in Lowest(p) .. pushed[p] /\ queue[i][2] \in Nat
          BY <4>1, <3>1, <2>a, <2>t, <2>2 DEF QueueInOrder, Tasks
        <4>3. Lowest(p) \in Nat /\ pushed[p] \in Nat
          BY <1>5
        <4> QED BY <4>1, <4>2, <4>3, <2>t
      <3> QED BY <3>2, <3>3
    <2>3. ASSUME NEW q \in Producers, NEW k \in Lowest(q)' .. pushed'[q]
          PROVE  \E i \in DOMAIN queue' : queue'[i] = <<q, k>>
      <3>1. CASE k <= pushed[q]
        <4>1. PICK i \in DOMAIN queue : queue[i] = <<q, k>>
          BY <1>5, <2>a, <3>1 DEF QueueInOrder
        <4> QED BY <4>1, <1>2
      <3>2. CASE ~(k <= pushed[q])
        <4>1. q = p /\ k = pushed[p] + 1
          <5>1. /\ Lowest(q)' \in Nat /\ pushed[q] \in Nat
                /\ pushed'[q] = IF q = p THEN pushed[q] + 1 ELSE pushed[q]
            BY <1>5
          <5> QED BY <5>1, <3>2
        <4> QED BY <4>1, <1>2 DEF t
      <3> QED BY <3>1, <3>2
    <2>4. \A q \in Producers : (Lowest(q) <= pushed[q] + 1)'
      <3>1. ASSUME NEW q \in Producers PROVE Lowest(q)' <= pushed'[q] + 1
        <4>1. /\ Lowest(q)' = Lowest(q) /\ Lowest(q) \in Nat /\ pushed[q] \in Nat
              /\ pushed'[q] = IF q = p THEN pushed[q] + 1 ELSE pushed[q]
          BY <1>5
        <4>2. Lowest(q) <= pushed[q] + 1
          BY <2>a DEF QueueInOrder
        <4> QED BY <4>1, <4>2
      <3> QED BY <3>1
    <2> QED BY <2>1, <2>2, <2>3, <2>4 DEF QueueInOrder
  <1>8. TakenInOrder'
    BY DEF PushTask, TakenInOrder, Tasks
  <1> QED BY <1>3, <1>4, <1>7, <1>8

\* Taking the first task leaves the others in order.
LEMMA TakeKeepsInv ==
  ASSUME QueueInv, HandleTasks, queue # <<>>
  PROVE  QueueInv'
PROOF
  <1> USE SizeAssumption DEF QueueInv, TypeOK
  <1> DEFINE p == queue[1][1]
  <1>1. /\ queue[1] \in Tasks /\ queue[1][2] = Lowest(p)
        /\ p \in Producers /\ queue[1][2] \in Nat
    BY HeadIsLowest DEF Tasks
  <1>2. /\ cur = <<>> /\ cur' = <<queue[1]>> /\ queue' = Tail(queue) /\ spc' = "exec"
        /\ UNCHANGED <<ppc, pushed, pipe, executed, shutdown>>
    BY DEF HandleTasks, TakenInOrder
  <1>3. /\ Len(queue) \in Nat \ {0} /\ DOMAIN queue = 1 .. Len(queue)
        /\ DOMAIN queue' = 1 .. Len(queue) - 1
        /\ \A i \in DOMAIN queue' : i + 1 \in DOMAIN queue /\ queue'[i] = queue[i + 1]
    BY <1>2
  <1>4. TypeOK'
    <2>1. cur' \in Seq(Tasks) /\ Len(cur') <= 1
      BY <1>1, <1>2
    <2> QED BY <1>2, <2>1
  <1>5. NoLostWakeup'
    BY <1>2 DEF NoLostWakeup
  <1>6. /\ Lowest(p) = executed[p] + 1
        /\ \A q \in Producers :
             /\ Lowest(q) \in Nat
             /\ Lowest(q)' = IF q = p THEN Lowest(q) + 1 ELSE Lowest(q)
    <2>1. cur'[1] = queue[1] /\ cur' # <<>>
      BY <1>2
    <2> QED BY <1>1, <1>2, <2>1 DEF Lowest
  <1>7. Lowest(p) <= pushed[p] /\ \A q \in Producers : pushed[q] \in Nat
    <2>1. queue[1][2] \in Lowest(p) .. pushed[p]
      BY <1>3 DEF QueueInOrder
    <2>2. \A q \in Producers : pushed[q] \in Nat
      OBVIOUS
    <2>3. Lowest(p) \in Nat /\ pushed[p] \in Nat
      BY <1>1, <1>6, <2>2
    <2> HIDE DEF QueueInv, TypeOK
    <2> QED BY <1>1, <2>1, <2>2, <2>3
  <1>8. QueueInOrder'
    <2>1. ASSUME NEW i \in DOMAIN queue'
          PROVE  (queue[i][2] \in Lowest(queue[i][1]) .. pushed[queue[i][1]])'
      <3>1. queue'[i] = queue[i + 1] /\ i + 1 \in DOMAIN queue /\ 1 < i + 1
        BY <1>3
      <3>2. queue[i + 1] \in Tasks
        BY <3>1
      <3>3. queue[i + 1][1] \in Producers /\ queue[i + 1][2] \in Nat
        BY <3>2 DEF Tasks
      <3>4. queue[i + 1][2] \in Lowest(queue[i + 1][1]) .. pushed[queue[i + 1][1]]
        BY <3>1 DEF QueueInOrder
      <3>5. queue[i + 1][1] = p => Lowest(p) < queue[i + 1][2]
        <4>1. QueueInOrder /\ 1 \in DOMAIN queue
          BY <1>3
        <4> HIDE DEF QueueInv, TypeOK
        <4> QED BY <1>1, <3>1, <4>1, SMTT(30) DEF QueueInOrder
      <3> QED BY <1>2, <1>6, <3>1, <3>3, <3>4, <3>5
    <2>2. ASSUME NEW i \in DOMAIN queue', NEW j \in DOMAIN queue', i < j,
                 queue'[i][1] = queue'[j][1]
          PROVE  queue'[i][2] < queue'[j][2]
      <3>1. i + 1 < j + 1 /\ i + 1 \in DOMAIN queue /\ j + 1 \in DOMAIN queue
        BY <1>3, <2>2
      <3> QED BY <1>3, <2>2, <3>1 DEF QueueInOrder
    <2>3. ASSUME NEW q \in Producers, NEW k \in Lowest(q)' .. pushed'[q]
          PROVE  \E i \in DOMAIN queue' : queue'[i] = <<q, k>>
      <3>1. k \in Lowest(q) .. pushed[q] /\ (q = p => k # Lowest(p))
        BY <1>2, <1>6
      <3>2. PICK i \in DOMAIN queue : queue[i] = <<q, k>>
        BY <3>1 DEF QueueInOrder
      <3>3. i # 1
        BY <1>1, <3>1, <3>2
      <3>4. i - 1 \in DOMAIN queue' /\ queue'[i - 1] = queue[i]
        BY <1>3, <3>3
      <3> QED BY <3>2, <3>4
    <2>4. \A q \in Producers : (Lowest(q) <= pushed[q] + 1)'
      <3>1. ASSUME NEW q \in Producers PROVE Lowest(q)' <= pushed'[q] + 1
        <4>1. /\ Lowest(q)' = IF q = p THEN Lowest(q) + 1 ELSE Lowest(q)
              /\ Lowest(q) \in Nat /\ pushed[q] \in Nat /\ pushed'[q] = pushed[q]
          BY <1>2, <1>6, <1>7
        <4>2. Lowest(q) <= pushed[q] + 1
          BY DEF QueueInOrder
        <4> HIDE DEF QueueInv, TypeOK, p
        <4> QED BY <4>1, <4>2, <1>7
      <3> QED BY <3>1
    <2> HIDE DEF QueueInv, TypeOK
    <2> QED BY <2>1, <2>2, <2>3, <2>4 DEF QueueInOrder
  <1>9. TakenInOrder'
    <2>1. cur'[1] = queue[1] /\ cur' # <<>>
      BY <1>2
    <2> QED BY <1>1, <1>2, <1>6, <1>7, <2>1 DEF TakenInOrder
  <1> QED BY <1>4, <1>5, <1>8, <1>9

\* Executing the task taken: the lowest number stays, because the task is
\* counted as executed when it stops being counted as taken.
LEMMA ExecuteKeepsInv ==
  ASSUME QueueInv, Execute
  PROVE  QueueInv'
PROOF
  <1> USE SizeAssumption DEF QueueInv, TypeOK
  <1> DEFINE p == cur[1][1]
  <1>1. cur # <<>> /\ cur[1] \in Tasks /\ p \in Producers
    BY DEF Execute, TakenInOrder, Tasks
  <1>2. /\ executed' = [executed EXCEPT ![p] = executed[p] + 1] /\ cur' = <<>>
        /\ spc' \in {"self", "drain"} /\ shutdown' \in BOOLEAN
        /\ UNCHANGED <<ppc, pushed, queue, pipe>>
    BY <1>1 DEF Execute, TakenInOrder
  <1>3. TypeOK'
    BY <1>1, <1>2
  <1>4. NoLostWakeup'
    BY <1>2 DEF NoLostWakeup
  <1>5. \A q \in Producers : Lowest(q)' = Lowest(q)
    BY <1>1, <1>2 DEF Lowest
  <1>6. QueueInOrder'
    <2>1. \A i \in DOMAIN queue : queue[i][1] \in Producers
      BY DEF Tasks
    <2> QED BY <1>2, <1>5, <2>1 DEF QueueInOrder
  <1>7. TakenInOrder'
    BY <1>2 DEF TakenInOrder
  <1> QED BY <1>3, <1>4, <1>6, <1>7

\* The steps that leave the queue, the counters and the taken task alone.
LEMMA OrderUnchanged ==
  ASSUME QueueInOrder, UNCHANGED <<queue, pushed, cur, executed>>
  PROVE  QueueInOrder'
PROOF BY DEF QueueInOrder, Lowest

\* Every step preserves the inductive invariant.
LEMMA StepQueueInv == QueueInv /\ [Next]_vars => QueueInv'
PROOF
  <1> SUFFICES ASSUME QueueInv, [Next]_vars PROVE QueueInv'
    OBVIOUS
  <1> USE SizeAssumption
  <1>1. ASSUME NEW p \in Producers, PushTask(p) PROVE QueueInv'
    BY <1>1, PushKeepsInv
  <1>2. ASSUME NEW p \in Producers, Interrupt(p) PROVE QueueInv'
    <2>1. TypeOK' /\ NoLostWakeup' /\ TakenInOrder'
      BY <1>2 DEF Interrupt, QueueInv, TypeOK, NoLostWakeup, TakenInOrder
    <2> QED BY <1>2, <2>1, OrderUnchanged DEF Interrupt, QueueInv
  <1>3. ASSUME Acknowledge PROVE QueueInv'
    <2>1. TypeOK' /\ NoLostWakeup' /\ TakenInOrder'
      BY <1>3 DEF Acknowledge, QueueInv, TypeOK, NoLostWakeup, TakenInOrder
    <2> QED BY <1>3, <2>1, OrderUnchanged DEF Acknowledge, QueueInv
  <1>4. ASSUME HandleTasks PROVE QueueInv'
    <2>1. CASE queue = <<>>
      <3>1. TypeOK' /\ NoLostWakeup' /\ TakenInOrder'
        BY <1>4, <2>1 DEF HandleTasks, QueueInv, TypeOK, NoLostWakeup, TakenInOrder
      <3> QED BY <1>4, <2>1, <3>1, OrderUnchanged DEF HandleTasks, QueueInv
    <2>2. CASE queue # <<>>
      BY <1>4, <2>2, TakeKeepsInv
    <2> QED BY <2>1, <2>2
  <1>5. ASSUME Execute PROVE QueueInv'
    BY <1>5, ExecuteKeepsInv
  <1>6. ASSUME Shutdown PROVE QueueInv'
    <2>1. TypeOK' /\ NoLostWakeup' /\ TakenInOrder'
      BY <1>6 DEF Shutdown, QueueInv, TypeOK, NoLostWakeup, TakenInOrder
    <2> QED BY <1>6, <2>1, OrderUnchanged DEF Shutdown, QueueInv
  <1>7. ASSUME StopLoop PROVE QueueInv'
    <2>1. TypeOK' /\ NoLostWakeup' /\ TakenInOrder'
      BY <1>7 DEF StopLoop, QueueInv, TypeOK, NoLostWakeup, TakenInOrder
    <2> QED BY <1>7, <2>1, OrderUnchanged DEF StopLoop, QueueInv
  <1>8. CASE UNCHANGED vars
    <2>1. TypeOK' /\ NoLostWakeup' /\ TakenInOrder'
      BY <1>8 DEF vars, QueueInv, TypeOK, NoLostWakeup, TakenInOrder
    <2> QED BY <1>8, <2>1, OrderUnchanged DEF vars, QueueInv
  <1> QED BY <1>1, <1>2, <1>3, <1>4, <1>5, <1>6, <1>7, <1>8 DEF Next, Server

\* The inductive invariant of the queue holds in every state.
THEOREM QueueInvariance == Spec => []QueueInv
PROOF BY InitQueueInv, StepQueueInv, PTL DEF Spec

\* No wake-up is lost, for any number of producers and any size of the pipe.
THEOREM WakeupKept == Spec => []NoLostWakeup
PROOF BY QueueInvariance, PTL DEF QueueInv

\* The queue and its pipe implement TaskService: every task is executed at
\* most once, after it was pushed and in its producer's order.
THEOREM QueueImplements == Spec => ImplementsService
PROOF
  <1>1. Init => Service!Init
    BY DEF Init, Service!Init
  <1>2. QueueInv /\ [Next]_vars => [Service!Next]_<<pushed, executed>>
    <2> SUFFICES ASSUME QueueInv, [Next]_vars
                 PROVE  Service!Next \/ UNCHANGED <<pushed, executed>>
      OBVIOUS
    <2>1. ASSUME NEW p \in Producers, PushTask(p) PROVE Service!Next
      BY <2>1 DEF PushTask, Service!Next, Service!Push
    <2>2. ASSUME Execute PROVE Service!Next
      <3> DEFINE p == cur[1][1]
      <3>1. /\ cur[1] \in Tasks /\ p \in Producers
            /\ cur[1][2] = executed[p] + 1 /\ cur[1][2] <= pushed[p]
        BY <2>2 DEF Execute, QueueInv, TypeOK, TakenInOrder, Tasks
      <3>2. executed[p] < pushed[p]
        BY <3>1 DEF QueueInv, TypeOK
      <3>3. Service!Execute(p)
        BY <2>2, <3>1, <3>2 DEF Execute, Service!Execute
      <3> QED BY <3>1, <3>3 DEF Service!Next
    <2>3. ASSUME NEW p \in Producers, Interrupt(p) PROVE UNCHANGED <<pushed, executed>>
      BY <2>3 DEF Interrupt
    <2>4. CASE Acknowledge \/ HandleTasks \/ Shutdown \/ StopLoop \/ UNCHANGED vars
      BY <2>4 DEF Acknowledge, HandleTasks, Shutdown, StopLoop, vars
    <2> QED BY <2>1, <2>2, <2>3, <2>4 DEF Next, Server
  <1> QED BY <1>1, <1>2, QueueInvariance, PTL DEF Spec, ImplementsService, Service!Spec

-----------------------------------------------------------------------------
(* Process: the inductive invariant *)

\* The operators of the library are the same in the instance.
LEMMA SameCount ==
  \A S : Pro!Cardinality(S) = Cardinality(S) /\ Pro!Max(S) = Max(S) /\ Pro!Min(S) = Min(S)
PROOF
  <1>1. \A S : Pro!Cardinality(S) = Cardinality(S)
    BY DEF Pro!Cardinality, Cardinality, Pro!IsFiniteSet, IsFiniteSet
  <1>2. \A S : Pro!Max(S) = Max(S)
    BY DEF Pro!Max, Max
  <1>3. \A S : Pro!Min(S) = Min(S)
    BY DEF Pro!Min, Min
  <1> QED BY <1>1, <1>2, <1>3

Stages == {Pro!None, "prepare", "pid check", "listen", "fork", "pid file", "segment",
           "serve", "alien"}
Entries == [session : Sessions, action : Pro!Actions, speed : Speeds \cup {0}]
ReaderStates == [phase : {"out", "lock", "copy", "close"}, id : Pids \cup {Pro!None},
                 left : SUBSET Entries, seen : SUBSET Entries]

\* The variables stay in their types.
ProcessTypes ==
  /\ stage \in [Pids -> Stages] /\ named \in [Pids -> BOOLEAN]
  /\ pidfile \in Pids \cup {Pro!None} /\ listening \in Pids \cup {Pro!None}
  /\ segments \subseteq Pids /\ IsFiniteSet(segments)
  /\ table \in [Pids -> SUBSET Entries] /\ \A p \in Pids : IsFiniteSet(table[p])
  /\ mutex \in [Pids -> Readers \cup {Pro!None}]
  /\ reader \in [Readers -> ReaderStates] /\ \A r \in Readers : IsFiniteSet(reader[r].seen)
  /\ crashes \in Nat

\* The port belongs to the process that has passed Server::Initialise: it is
\* what keeps a second server from serving, the pid file alone would not.
PortInv ==
  \A p \in Pids : listening = p <=> stage[p] \in {"fork", "pid file", "segment", "serve"}

\* The pid file was written by the process on the way to serve, or by none.
NamedInv ==
  \A p \in Pids : named[p] =>
    /\ stage[p] \in {Pro!None, "alien", "segment", "serve"}
    /\ stage[p] \in {"segment", "serve"} => pidfile = p

\* A reader that has the memory mapped holds on to its pid; while it copies it
\* has the mutex, and what it has copied and has left is the table.
ReaderInv ==
  \A r \in Readers :
    LET id == reader[r].id IN
    /\ reader[r].phase # "out" => id \in Pids
    /\ reader[r].phase \in {"lock", "copy"} => id \in segments \/ stage[id] = Pro!None
    /\ reader[r].phase = "lock" => reader[r].seen = {}
    /\ reader[r].phase = "copy" => mutex[id] = r
    /\ reader[r].phase = "copy" /\ stage[id] = "serve" =>
         reader[r].seen \cup reader[r].left = table[id]

ProcessInv == ProcessTypes /\ PortInv /\ NamedInv /\ Pro!SegmentLives /\ ReaderInv

-----------------------------------------------------------------------------
(* The operations of OnlineWriter and the copies of a reader *)

\* One of the operations writes a table of entries.
Writes(p) == \E entries \in SUBSET Entries : IsFiniteSet(entries) /\ Pro!Write(p, entries)

\* LoggedIn, LoggedOut, and the operations in between do.
LEMMA OperationsWrite ==
  ASSUME Pro!ProcessAssumption, ProcessTypes, NEW p \in Pids, NEW s \in Sessions,
         Pro!LoggedIn(p, s) \/ Pro!LoggedOut(p, s) \/ Pro!Operate(p, s)
  PROVE  Writes(p)
PROOF
  <1>0. table[p] \in SUBSET Entries /\ IsFiniteSet(table[p])
    BY DEF ProcessTypes
  <1>1. \A e : IsFiniteSet({e})
    BY FS_Singleton
  <1>2. ASSUME Pro!LoggedIn(p, s) PROVE Writes(p)
    <2>1. Pro!Entry(s, "idle", 0) \in Entries
      BY DEF Pro!Entry, Entries, Pro!Actions
    <2>2. IsFiniteSet(table[p] \cup {Pro!Entry(s, "idle", 0)})
      BY <1>0, <1>1, FS_Union
    <2> QED BY <1>0, <1>2, <2>1, <2>2 DEF Pro!LoggedIn, Writes
  <1>3. ASSUME Pro!LoggedOut(p, s) PROVE Writes(p)
    <2>1. IsFiniteSet(table[p] \ Pro!EntryOf(p, s))
      BY <1>0, FS_Subset
    <2> QED BY <1>0, <1>3, <2>1 DEF Pro!LoggedOut, Writes
  <1>4. ASSUME Pro!Operate(p, s) PROVE Writes(p)
    <2>1. PICK e \in Pro!EntryOf(p, s), a \in Pro!Actions, v \in Speeds \cup {0} :
            Pro!Write(p, (table[p] \ {e}) \cup {Pro!Entry(s, a, v)})
      BY <1>4 DEF Pro!Operate
    <2>2. Pro!Entry(s, a, v) \in Entries
      BY DEF Pro!Entry, Entries
    <2>3. IsFiniteSet((table[p] \ {e}) \cup {Pro!Entry(s, a, v)})
      BY <1>0, <1>1, FS_Subset, FS_Union
    <2> QED BY <1>0, <2>1, <2>2, <2>3 DEF Writes
  <1> QED BY <1>2, <1>3, <1>4

\* Every step is a step of the start-up, a write or a step of a reader.
LEMMA StepCases ==
  ASSUME Pro!ProcessAssumption, ProcessTypes, [Pro!Next]_(Pro!processVars)
  PROVE  \/ \E p \in Pids : \/ Pro!Start(p) \/ Pro!Alien(p) \/ Pro!Prepare(p) \/ Pro!AlreadyRunning(p)
                            \/ Pro!Listen(p) \/ Pro!Fork(p) \/ Pro!CreatePIDFile(p)
                            \/ Pro!OpenSharedMemory(p) \/ Pro!Stop(p) \/ Pro!Crash(p) \/ Writes(p)
         \/ \E r \in Readers : Pro!Open(r) \/ Pro!Lock(r) \/ Pro!Copy(r) \/ Pro!Unlock(r) \/ Pro!Close(r)
         \/ UNCHANGED Pro!processVars
PROOF BY OperationsWrite DEF Pro!Next

\* What a step of a reader makes of its record.
LEMMA ReaderRecord ==
  ASSUME Pro!ProcessAssumption, ProcessTypes, ReaderInv, NEW r \in Readers,
         Pro!Open(r) \/ Pro!Lock(r) \/ Pro!Copy(r) \/ Pro!Unlock(r) \/ Pro!Close(r)
  PROVE  \E v \in ReaderStates : IsFiniteSet(v.seen) /\ Pro!Put(r, v)
PROOF
  <1> DEFINE v == reader[r]
  <1>0. /\ v \in ReaderStates /\ IsFiniteSet(v.seen) /\ table \in [Pids -> SUBSET Entries]
        /\ \A p \in Pids : IsFiniteSet(table[p])
    BY DEF ProcessTypes
  <1>n. Pro!NoReader \in ReaderStates /\ IsFiniteSet(Pro!NoReader.seen)
    BY FS_EmptySet DEF Pro!NoReader, ReaderStates
  <1>1. ASSUME Pro!Open(r) PROVE \E w \in ReaderStates : IsFiniteSet(w.seen) /\ Pro!Put(r, w)
    <2>1. PICK p \in Pids : Pro!Put(r, [Pro!NoReader EXCEPT !.id = p,
                                      !.phase = IF p \in segments THEN "lock" ELSE "close"])
      BY <1>1 DEF Pro!Open
    <2> DEFINE w == [Pro!NoReader EXCEPT !.id = p,
                                     !.phase = IF p \in segments THEN "lock" ELSE "close"]
    <2>2. w \in ReaderStates /\ w.seen = {}
      BY DEF Pro!NoReader, ReaderStates
    <2> QED BY <2>1, <2>2, FS_EmptySet
  <1>2. ASSUME Pro!Lock(r) PROVE \E w \in ReaderStates : IsFiniteSet(w.seen) /\ Pro!Put(r, w)
    <2> DEFINE w == [v EXCEPT !.phase = "copy", !.left = table[v.id]]
    <2>1. v.id \in Pids
      BY <1>2 DEF Pro!Lock, ReaderInv
    <2>2. table[v.id] \in SUBSET Entries
      BY <1>0, <2>1
    <2>3. w \in ReaderStates /\ w.seen = v.seen
      BY <1>0, <2>2 DEF ReaderStates
    <2> QED BY <1>0, <1>2, <2>3 DEF Pro!Lock
  <1>3. ASSUME Pro!Copy(r) PROVE \E w \in ReaderStates : IsFiniteSet(w.seen) /\ Pro!Put(r, w)
    <2>1. PICK e \in v.left :
            Pro!Put(r, [v EXCEPT !.left = @ \ {e}, !.seen = @ \cup Pro!EntryOf(v.id, e.session)])
      BY <1>3 DEF Pro!Copy
    <2> DEFINE E == Pro!EntryOf(v.id, e.session)
               w == [v EXCEPT !.left = @ \ {e}, !.seen = @ \cup E]
    <2>2. v.id \in Pids
      BY <1>3 DEF Pro!Copy, ReaderInv
    <2>3. E \subseteq table[v.id]
      BY DEF Pro!EntryOf
    <2>4. E \in SUBSET Entries
      BY <1>0, <2>2, <2>3
    <2>5. IsFiniteSet(E)
      BY <1>0, <2>2, <2>3, FS_Subset
    <2>6. IsFiniteSet(v.seen \cup E)
      BY <1>0, <2>5, FS_Union
    <2> HIDE DEF E
    <2>7. w \in ReaderStates /\ w.seen = v.seen \cup E
      BY <1>0, <2>4 DEF ReaderStates
    <2> QED BY <2>1, <2>6, <2>7 DEF E
  <1>4. ASSUME Pro!Unlock(r) PROVE \E w \in ReaderStates : IsFiniteSet(w.seen) /\ Pro!Put(r, w)
    <2> DEFINE w == [v EXCEPT !.phase = "close"]
    <2>1. w \in ReaderStates /\ w.seen = v.seen
      BY <1>0 DEF ReaderStates
    <2> QED BY <1>0, <1>4, <2>1 DEF Pro!Unlock
  <1>5. ASSUME Pro!Close(r) PROVE \E w \in ReaderStates : IsFiniteSet(w.seen) /\ Pro!Put(r, w)
    BY <1>n, <1>5 DEF Pro!Close
  <1> QED BY <1>1, <1>2, <1>3, <1>4, <1>5

-----------------------------------------------------------------------------
(* Every step keeps the invariant *)

\* The types.
LEMMA ProcessTypesStep ==
  ASSUME Pro!ProcessAssumption, ProcessTypes, ReaderInv, [Pro!Next]_(Pro!processVars)
  PROVE  ProcessTypes'
PROOF
  <1>n. \A n \in Nat : n + 1 \in Nat
    OBVIOUS
  <1> USE DEF ProcessTypes
  <1>0. Pro!None \notin Pids /\ Pro!None \notin Readers
    BY DEF Pro!ProcessAssumption
  <1>r. ASSUME NEW r \in Readers, Pro!Open(r) \/ Pro!Lock(r) \/ Pro!Copy(r) \/ Pro!Unlock(r) \/ Pro!Close(r)
        PROVE  /\ reader' \in [Readers -> ReaderStates]
               /\ \A q \in Readers : IsFiniteSet(reader'[q].seen)
    <2>1. PICK v \in ReaderStates : IsFiniteSet(v.seen) /\ Pro!Put(r, v)
      BY <1>r, ReaderRecord
    <2>2. reader' = [reader EXCEPT ![r] = v]
      BY <2>1 DEF Pro!Put
    <2> QED BY <2>1, <2>2
  <1>t. /\ Pro!None \in Stages /\ {"prepare", "pid check", "listen", "fork"} \subseteq Stages
        /\ {"pid file", "segment", "serve", "alien"} \subseteq Stages
    BY DEF Stages
  <1> USE <1>t
  <1>1. ASSUME NEW p \in Pids, Pro!Start(p) PROVE ProcessTypes'
    BY <1>1 DEF Pro!Start
  <1>2. ASSUME NEW p \in Pids, Pro!Alien(p) PROVE ProcessTypes'
    BY <1>2 DEF Pro!Alien
  <1>3. ASSUME NEW p \in Pids, Pro!Prepare(p) PROVE ProcessTypes'
    BY <1>3, ZenonT(30) DEF Pro!Prepare
  <1>4. ASSUME NEW p \in Pids, Pro!AlreadyRunning(p) PROVE ProcessTypes'
    BY <1>4 DEF Pro!AlreadyRunning
  <1>5. ASSUME NEW p \in Pids, Pro!Listen(p) PROVE ProcessTypes'
    BY <1>5 DEF Pro!Listen
  <1>6. ASSUME NEW p \in Pids, Pro!Fork(p) PROVE ProcessTypes'
    <2>1. /\ stage' \in [Pids -> Stages] /\ listening' \in Pids \cup {Pro!None}
          /\ named' \in [Pids -> BOOLEAN]
      BY <1>6 DEF Pro!Fork
    <2> QED BY <1>6, <2>1 DEF Pro!Fork
  <1>7. ASSUME NEW p \in Pids, Pro!CreatePIDFile(p) PROVE ProcessTypes'
    BY <1>7 DEF Pro!CreatePIDFile
  <1>8. ASSUME NEW p \in Pids, Pro!OpenSharedMemory(p) PROVE ProcessTypes'
    <2>1. segments' \subseteq Pids /\ IsFiniteSet(segments')
      <3>1. IsFiniteSet(segments \cup {p})
        BY FS_AddElement
      <3>2. segments' \in {segments, segments \cup {p}}
        BY <1>8 DEF Pro!OpenSharedMemory
      <3> QED BY <3>1, <3>2
    <2>2. table' \in [Pids -> SUBSET Entries] /\ \A q \in Pids : IsFiniteSet(table'[q])
      BY <1>8, FS_EmptySet DEF Pro!OpenSharedMemory
    <2>3. /\ stage' \in [Pids -> Stages] /\ listening' \in Pids \cup {Pro!None}
          /\ mutex' \in [Pids -> Readers \cup {Pro!None}]
      BY <1>8 DEF Pro!OpenSharedMemory
    <2> QED BY <1>8, <2>1, <2>2, <2>3 DEF Pro!OpenSharedMemory
  <1>9. ASSUME NEW p \in Pids, Pro!Stop(p) PROVE ProcessTypes'
    <2>1. segments' \subseteq Pids /\ IsFiniteSet(segments')
      BY <1>9, FS_Subset DEF Pro!Stop
    <2> QED BY <1>9, <2>1 DEF Pro!Stop
  <1>10. ASSUME NEW p \in Pids, Pro!Crash(p) PROVE ProcessTypes'
    <2>1. table' \in [Pids -> SUBSET Entries] /\ \A q \in Pids : IsFiniteSet(table'[q])
      BY <1>10, FS_EmptySet DEF Pro!Crash
    <2>2. stage' \in [Pids -> Stages]
      BY <1>10 DEF Pro!Crash
    <2>3. named' \in [Pids -> BOOLEAN]
      BY <1>10 DEF Pro!Crash
    <2>4. crashes' \in Nat
      <3>1. crashes' = crashes + 1
        BY <1>10, Zenon DEF Pro!Crash
      <3>2. crashes \in Nat
        OBVIOUS
      <3> QED BY <1>n, <3>1, <3>2, Zenon
    <2>6. listening' \in Pids \cup {Pro!None}
      <3>1. listening' = IF listening = p THEN Pro!None ELSE listening
        BY <1>10 DEF Pro!Crash
      <3>2. listening \in Pids \cup {Pro!None}
        OBVIOUS
      <3> HIDE DEF ProcessTypes
      <3> QED BY <3>1, <3>2
    <2>5. UNCHANGED <<pidfile, segments, mutex, reader>>
      BY <1>10 DEF Pro!Crash
    <2> QED BY <2>1, <2>2, <2>3, <2>4, <2>5, <2>6
  <1>11. ASSUME NEW p \in Pids, Writes(p) PROVE ProcessTypes'
    <2>1. PICK entries \in SUBSET Entries : IsFiniteSet(entries) /\ Pro!Write(p, entries)
      BY <1>11 DEF Writes
    <2>2. table' \in [Pids -> SUBSET Entries] /\ \A q \in Pids : IsFiniteSet(table'[q])
      BY <2>1 DEF Pro!Write
    <2> QED BY <2>1, <2>2 DEF Pro!Write
  <1>12. ASSUME NEW r \in Readers, Pro!Open(r) PROVE ProcessTypes'
    BY <1>12, <1>r DEF Pro!Open
  <1>13. ASSUME NEW r \in Readers, Pro!Lock(r) PROVE ProcessTypes'
    <2>1. reader[r].id \in Pids
      BY <1>13 DEF Pro!Lock, ReaderInv
    <2>2. mutex' \in [Pids -> Readers \cup {Pro!None}]
      BY <1>13, <2>1 DEF Pro!Lock
    <2> QED BY <1>13, <1>r, <2>2 DEF Pro!Lock
  <1>14. ASSUME NEW r \in Readers, Pro!Copy(r) PROVE ProcessTypes'
    BY <1>14, <1>r DEF Pro!Copy
  <1>15. ASSUME NEW r \in Readers, Pro!Unlock(r) PROVE ProcessTypes'
    <2>1. mutex' \in [Pids -> Readers \cup {Pro!None}]
      BY <1>15 DEF Pro!Unlock
    <2> QED BY <1>15, <1>r, <2>1 DEF Pro!Unlock
  <1>16. ASSUME NEW r \in Readers, Pro!Close(r) PROVE ProcessTypes'
    <2>1. table' \in [Pids -> SUBSET Entries] /\ \A q \in Pids : IsFiniteSet(table'[q])
      BY <1>16, FS_EmptySet DEF Pro!Close
    <2> QED BY <1>16, <1>r, <2>1 DEF Pro!Close
  <1>17. CASE UNCHANGED Pro!processVars
    BY <1>17 DEF Pro!processVars
  <1> QED BY <1>1, <1>2, <1>3, <1>4, <1>5, <1>6, <1>7, <1>8, <1>9, <1>10, <1>11,
             <1>12, <1>13, <1>14, <1>15, <1>16, <1>17, StepCases

\* The port has one owner, the process between listen and the end of Main.
LEMMA PortStep ==
  ASSUME Pro!ProcessAssumption, ProcessTypes, PortInv, [Pro!Next]_(Pro!processVars)
  PROVE  PortInv'
PROOF
  <1>0. /\ stage \in [Pids -> Stages] /\ Pro!None \notin Pids
        /\ listening \in Pids \cup {Pro!None}
    BY DEF ProcessTypes, Pro!ProcessAssumption
  <1>1s. UNCHANGED <<stage, listening>> => PortInv'
    BY DEF PortInv
  <1>1. ASSUME NEW p \in Pids, Pro!Start(p) PROVE PortInv'
    BY <1>0, <1>1 DEF Pro!Start, PortInv, Pro!Free, Pro!Running, Pro!None
  <1>2. ASSUME NEW p \in Pids, Pro!Alien(p) PROVE PortInv'
    BY <1>0, <1>2 DEF Pro!Alien, PortInv, Pro!Free, Pro!Running, Pro!None
  <1>3. ASSUME NEW p \in Pids, Pro!Prepare(p) PROVE PortInv'
    BY <1>0, <1>3 DEF Pro!Prepare, PortInv, Pro!Free, Pro!Running, Pro!None
  <1>4. ASSUME NEW p \in Pids, Pro!AlreadyRunning(p) PROVE PortInv'
    BY <1>0, <1>4 DEF Pro!AlreadyRunning, PortInv, Pro!Free, Pro!Running, Pro!None
  <1>5. ASSUME NEW p \in Pids, Pro!Listen(p) PROVE PortInv'
    BY <1>0, <1>5 DEF Pro!Listen, PortInv, Pro!Free, Pro!Running, Pro!None
  <1>6. ASSUME NEW p \in Pids, Pro!Fork(p) PROVE PortInv'
    <2>1. listening = p /\ \A q \in Pids \ {p} : stage[q] \notin
            {"fork", "pid file", "segment", "serve"}
      BY <1>6 DEF Pro!Fork, PortInv
    <2>2. CASE stage' = [stage EXCEPT ![p] = "pid file"] /\ UNCHANGED listening
      BY <1>0, <1>6, <2>1, <2>2 DEF PortInv
    <2>3. ASSUME NEW q \in Pids, Pro!Free(q), listening' = q,
                 stage' = [stage EXCEPT ![p] = Pro!None, ![q] = "pid file"]
          PROVE  PortInv'
      <3>1. p # q
        BY <1>6, <2>3 DEF Pro!Fork, Pro!Free, Pro!Running, Pro!None
      <3>2. /\ stage'[p] = Pro!None /\ stage'[q] = "pid file"
            /\ \A o \in Pids \ {p, q} : stage'[o] = stage[o]
        BY <1>0, <2>3, <3>1
      <3> QED BY <2>1, <2>3, <3>1, <3>2 DEF PortInv, Pro!None
    <2> QED BY <1>6, <2>2, <2>3 DEF Pro!Fork
  <1>7. ASSUME NEW p \in Pids, Pro!CreatePIDFile(p) PROVE PortInv'
    BY <1>0, <1>7 DEF Pro!CreatePIDFile, PortInv, Pro!Free, Pro!Running, Pro!None
  <1>8. ASSUME NEW p \in Pids, Pro!OpenSharedMemory(p) PROVE PortInv'
    <2>1. listening = p /\ \A q \in Pids \ {p} : stage[q] \notin
            {"fork", "pid file", "segment", "serve"}
      BY <1>8 DEF Pro!OpenSharedMemory, PortInv
    <2>2. /\ \A q \in Pids \ {p} : stage'[q] = stage[q]
          /\ \/ stage'[p] = Pro!None /\ listening' = Pro!None
             \/ stage'[p] = "serve" /\ listening' = listening
      BY <1>0, <1>8 DEF Pro!OpenSharedMemory
    <2> QED BY <1>0, <2>1, <2>2 DEF PortInv, Pro!None
  <1>9. ASSUME NEW p \in Pids, Pro!Stop(p) PROVE PortInv'
    BY <1>0, <1>9 DEF Pro!Stop, PortInv, Pro!Free, Pro!Running, Pro!None
  <1>10. ASSUME NEW p \in Pids, Pro!Crash(p) PROVE PortInv'
    BY <1>0, <1>10 DEF Pro!Crash, PortInv, Pro!Free, Pro!Running, Pro!None
  <1>11. ASSUME NEW p \in Pids, Writes(p) PROVE PortInv'
    BY <1>11, <1>1s DEF Writes, Pro!Write
  <1>12. ASSUME NEW r \in Readers, Pro!Open(r) PROVE PortInv'
    BY <1>12, <1>1s DEF Pro!Open
  <1>13. ASSUME NEW r \in Readers, Pro!Lock(r) PROVE PortInv'
    BY <1>13, <1>1s DEF Pro!Lock
  <1>14. ASSUME NEW r \in Readers, Pro!Copy(r) PROVE PortInv'
    BY <1>14, <1>1s DEF Pro!Copy
  <1>15. ASSUME NEW r \in Readers, Pro!Unlock(r) PROVE PortInv'
    BY <1>15, <1>1s DEF Pro!Unlock
  <1>16. ASSUME NEW r \in Readers, Pro!Close(r) PROVE PortInv'
    BY <1>16, <1>1s DEF Pro!Close
  <1>17. CASE UNCHANGED Pro!processVars
    BY <1>17, <1>1s DEF Pro!processVars
  <1> QED BY <1>1, <1>2, <1>3, <1>4, <1>5, <1>6, <1>7, <1>8, <1>9, <1>10, <1>11,
             <1>12, <1>13, <1>14, <1>15, <1>16, <1>17, StepCases

\* Nobody else writes the pid file of a process on its way to serve: the writer
\* has the port.
LEMMA NamedStep ==
  ASSUME Pro!ProcessAssumption, ProcessTypes, PortInv, NamedInv, [Pro!Next]_(Pro!processVars)
  PROVE  NamedInv'
PROOF
  <1>0. /\ stage \in [Pids -> Stages] /\ Pro!None \notin Pids
        /\ pidfile \in Pids \cup {Pro!None}
    BY DEF ProcessTypes, Pro!ProcessAssumption
  <1>b. named \in [Pids -> BOOLEAN]
    BY DEF ProcessTypes
  <1>1s. UNCHANGED <<stage, named, pidfile>> => NamedInv'
    BY DEF NamedInv
  <1>1. ASSUME NEW p \in Pids, Pro!Start(p) PROVE NamedInv'
    BY <1>0, <1>b, <1>1 DEF Pro!Start, NamedInv, Pro!Free, Pro!Running, Pro!None
  <1>2. ASSUME NEW p \in Pids, Pro!Alien(p) PROVE NamedInv'
    BY <1>0, <1>b, <1>2 DEF Pro!Alien, NamedInv, Pro!Free, Pro!Running, Pro!None
  <1>3. ASSUME NEW p \in Pids, Pro!Prepare(p) PROVE NamedInv'
    BY <1>0, <1>b, <1>3 DEF Pro!Prepare, NamedInv, Pro!Free, Pro!Running, Pro!None
  <1>4. ASSUME NEW p \in Pids, Pro!AlreadyRunning(p) PROVE NamedInv'
    BY <1>0, <1>b, <1>4 DEF Pro!AlreadyRunning, NamedInv, Pro!Free, Pro!Running, Pro!None
  <1>5. ASSUME NEW p \in Pids, Pro!Listen(p) PROVE NamedInv'
    BY <1>0, <1>b, <1>5 DEF Pro!Listen, NamedInv, Pro!Free, Pro!Running, Pro!None
  <1>6. ASSUME NEW p \in Pids, Pro!Fork(p) PROVE NamedInv'
    BY <1>0, <1>b, <1>6 DEF Pro!Fork, NamedInv, Pro!Free, Pro!Running, Pro!None
  <1>7. ASSUME NEW p \in Pids, Pro!CreatePIDFile(p) PROVE NamedInv'
    <2>1. \A q \in Pids \ {p} : stage[q] \notin {"segment", "serve"}
      BY <1>7 DEF Pro!CreatePIDFile, PortInv
    <2> QED BY <1>0, <1>b, <1>7, <2>1 DEF Pro!CreatePIDFile, NamedInv, Pro!None
  <1>8. ASSUME NEW p \in Pids, Pro!OpenSharedMemory(p) PROVE NamedInv'
    BY <1>0, <1>b, <1>8 DEF Pro!OpenSharedMemory, NamedInv, Pro!Free, Pro!Running, Pro!None
  <1>9. ASSUME NEW p \in Pids, Pro!Stop(p) PROVE NamedInv'
    BY <1>0, <1>b, <1>9 DEF Pro!Stop, NamedInv, Pro!Free, Pro!Running, Pro!None
  <1>10. ASSUME NEW p \in Pids, Pro!Crash(p) PROVE NamedInv'
    BY <1>0, <1>b, <1>10 DEF Pro!Crash, NamedInv, Pro!Free, Pro!Running, Pro!None
  <1>11. ASSUME NEW p \in Pids, Writes(p) PROVE NamedInv'
    BY <1>11, <1>1s DEF Writes, Pro!Write
  <1>12. ASSUME NEW r \in Readers, Pro!Open(r) PROVE NamedInv'
    BY <1>12, <1>1s DEF Pro!Open
  <1>13. ASSUME NEW r \in Readers, Pro!Lock(r) PROVE NamedInv'
    BY <1>13, <1>1s DEF Pro!Lock
  <1>14. ASSUME NEW r \in Readers, Pro!Copy(r) PROVE NamedInv'
    BY <1>14, <1>1s DEF Pro!Copy
  <1>15. ASSUME NEW r \in Readers, Pro!Unlock(r) PROVE NamedInv'
    BY <1>15, <1>1s DEF Pro!Unlock
  <1>16. ASSUME NEW r \in Readers, Pro!Close(r) PROVE NamedInv'
    BY <1>16, <1>1s DEF Pro!Close
  <1>17. CASE UNCHANGED Pro!processVars
    BY <1>17, <1>1s DEF Pro!processVars
  <1> QED BY <1>1, <1>2, <1>3, <1>4, <1>5, <1>6, <1>7, <1>8, <1>9, <1>10, <1>11,
             <1>12, <1>13, <1>14, <1>15, <1>16, <1>17, StepCases

\* Only a crash leaves a segment behind.
LEMMA SegmentStep ==
  ASSUME Pro!ProcessAssumption, ProcessTypes, Pro!SegmentLives, [Pro!Next]_(Pro!processVars)
  PROVE  Pro!SegmentLives'
PROOF
  <1> DEFINE Left == {p \in segments : stage[p] # "serve"}
  <1>0. /\ stage \in [Pids -> Stages] /\ segments \subseteq Pids
        /\ crashes \in Nat /\ IsFiniteSet(segments)
    BY DEF ProcessTypes
  <1>f. IsFiniteSet(Left) /\ Cardinality(Left) \in Nat /\ Cardinality(Left) <= crashes
    BY <1>0, SameCount, FS_Subset, FS_CardinalityType DEF Pro!SegmentLives
  <1>s. ASSUME Left' = Left, crashes' = crashes,
               \A p \in Pids : stage'[p] = "serve" => p \in segments'
        PROVE  Pro!SegmentLives'
    BY <1>f, <1>s DEF Pro!SegmentLives
  <1> HIDE DEF Left
  <1>1. ASSUME NEW p \in Pids, Pro!Start(p) PROVE Pro!SegmentLives'
    <2>1. Left' = Left
      BY <1>0, <1>1 DEF Pro!Start, Left, Pro!SegmentLives, Pro!Free, Pro!Running, Pro!None
    <2> QED BY <1>0, <1>s, <1>1, <2>1 DEF Pro!Start, Pro!SegmentLives, Pro!Free, Pro!Running, Pro!None
  <1>2. ASSUME NEW p \in Pids, Pro!Alien(p) PROVE Pro!SegmentLives'
    <2>1. Left' = Left
      BY <1>0, <1>2 DEF Pro!Alien, Left, Pro!SegmentLives, Pro!Free, Pro!Running, Pro!None
    <2> QED BY <1>0, <1>s, <1>2, <2>1 DEF Pro!Alien, Pro!SegmentLives, Pro!Free, Pro!Running, Pro!None
  <1>3. ASSUME NEW p \in Pids, Pro!Prepare(p) PROVE Pro!SegmentLives'
    <2>1. Left' = Left
      BY <1>0, <1>3 DEF Pro!Prepare, Left, Pro!SegmentLives, Pro!Free, Pro!Running, Pro!None
    <2> QED BY <1>0, <1>s, <1>3, <2>1 DEF Pro!Prepare, Pro!SegmentLives, Pro!Free, Pro!Running, Pro!None
  <1>4. ASSUME NEW p \in Pids, Pro!AlreadyRunning(p) PROVE Pro!SegmentLives'
    <2>1. Left' = Left
      BY <1>0, <1>4 DEF Pro!AlreadyRunning, Left, Pro!SegmentLives, Pro!Free, Pro!Running, Pro!None
    <2> QED BY <1>0, <1>s, <1>4, <2>1 DEF Pro!AlreadyRunning, Pro!SegmentLives, Pro!Free, Pro!Running, Pro!None
  <1>5. ASSUME NEW p \in Pids, Pro!Listen(p) PROVE Pro!SegmentLives'
    <2>1. Left' = Left
      BY <1>0, <1>5 DEF Pro!Listen, Left, Pro!SegmentLives, Pro!Free, Pro!Running, Pro!None
    <2> QED BY <1>0, <1>s, <1>5, <2>1 DEF Pro!Listen, Pro!SegmentLives, Pro!Free, Pro!Running, Pro!None
  <1>6. ASSUME NEW p \in Pids, Pro!Fork(p) PROVE Pro!SegmentLives'
    <2>1. Left' = Left
      BY <1>0, <1>6 DEF Pro!Fork, Left, Pro!SegmentLives, Pro!Free, Pro!Running, Pro!None
    <2> QED BY <1>0, <1>s, <1>6, <2>1 DEF Pro!Fork, Pro!SegmentLives, Pro!Free, Pro!Running, Pro!None
  <1>7. ASSUME NEW p \in Pids, Pro!CreatePIDFile(p) PROVE Pro!SegmentLives'
    <2>1. Left' = Left
      BY <1>0, <1>7 DEF Pro!CreatePIDFile, Left, Pro!SegmentLives, Pro!Free, Pro!Running, Pro!None
    <2> QED BY <1>0, <1>s, <1>7, <2>1 DEF Pro!CreatePIDFile, Pro!SegmentLives, Pro!Free, Pro!Running, Pro!None
  <1>8. ASSUME NEW p \in Pids, Pro!OpenSharedMemory(p) PROVE Pro!SegmentLives'
    <2>1. Left' = Left
      BY <1>0, <1>8 DEF Pro!OpenSharedMemory, Left, Pro!SegmentLives, Pro!Free, Pro!Running, Pro!None
    <2> QED BY <1>0, <1>s, <1>8, <2>1 DEF Pro!OpenSharedMemory, Pro!SegmentLives, Pro!Free, Pro!Running, Pro!None
  <1>9. ASSUME NEW p \in Pids, Pro!Stop(p) PROVE Pro!SegmentLives'
    <2>1. Left' = Left
      BY <1>0, <1>9 DEF Pro!Stop, Left, Pro!SegmentLives, Pro!Free, Pro!Running, Pro!None
    <2> QED BY <1>0, <1>s, <1>9, <2>1 DEF Pro!Stop, Pro!SegmentLives, Pro!Free, Pro!Running, Pro!None
  <1>10. ASSUME NEW p \in Pids, Pro!Crash(p) PROVE Pro!SegmentLives'
    <2>1. Left' \in {Left, Left \cup {p}}
      BY <1>0, <1>10 DEF Pro!Crash, Left, Pro!None
    <2>2. /\ Cardinality(Left \cup {p}) \in {Cardinality(Left), Cardinality(Left) + 1}
      BY <1>f, FS_AddElement
    <2>3. Cardinality(Left') \in {Cardinality(Left), Cardinality(Left) + 1}
      BY <2>1, <2>2
    <2>4. Cardinality(Left') <= crashes'
      BY <1>0, <1>f, <1>10, <2>2, <2>3 DEF Pro!Crash
    <2>5. \A q \in Pids : stage'[q] = "serve" => q \in segments'
      BY <1>0, <1>10 DEF Pro!Crash, Pro!SegmentLives, Pro!None
    <2> QED BY <2>4, <2>5, SameCount DEF Pro!SegmentLives, Left
  <1>11. ASSUME NEW p \in Pids, Writes(p) PROVE Pro!SegmentLives'
    BY <1>11, <1>s DEF Writes, Pro!Write, Left, Pro!SegmentLives
  <1>12. ASSUME NEW r \in Readers, Pro!Open(r) PROVE Pro!SegmentLives'
    BY <1>12, <1>s DEF Pro!Open, Left, Pro!SegmentLives
  <1>13. ASSUME NEW r \in Readers, Pro!Lock(r) PROVE Pro!SegmentLives'
    BY <1>13, <1>s DEF Pro!Lock, Left, Pro!SegmentLives
  <1>14. ASSUME NEW r \in Readers, Pro!Copy(r) PROVE Pro!SegmentLives'
    BY <1>14, <1>s DEF Pro!Copy, Left, Pro!SegmentLives
  <1>15. ASSUME NEW r \in Readers, Pro!Unlock(r) PROVE Pro!SegmentLives'
    BY <1>15, <1>s DEF Pro!Unlock, Left, Pro!SegmentLives
  <1>16. ASSUME NEW r \in Readers, Pro!Close(r) PROVE Pro!SegmentLives'
    BY <1>16, <1>s DEF Pro!Close, Left, Pro!SegmentLives
  <1>17. CASE UNCHANGED Pro!processVars
    BY <1>17, <1>s DEF Pro!processVars, Left, Pro!SegmentLives
  <1> QED BY <1>1, <1>2, <1>3, <1>4, <1>5, <1>6, <1>7, <1>8, <1>9, <1>10, <1>11,
             <1>12, <1>13, <1>14, <1>15, <1>16, <1>17, StepCases

\* A reader that copies keeps the others out, and its pid in use.
LEMMA ReaderStep ==
  ASSUME Pro!ProcessAssumption, ProcessTypes, ReaderInv, [Pro!Next]_(Pro!processVars)
  PROVE  ReaderInv'
PROOF
  <1>0. /\ stage \in [Pids -> Stages] /\ Pro!None \notin Pids /\ Pro!None \notin Readers
        /\ segments \subseteq Pids /\ mutex \in [Pids -> Readers \cup {Pro!None}]
        /\ table \in [Pids -> SUBSET Entries] /\ reader \in [Readers -> ReaderStates]
    BY DEF ProcessTypes, Pro!ProcessAssumption
  <1>a. ASSUME reader' = reader,
               \A r \in Readers : reader[r].phase \in {"lock", "copy"} =>
                 LET id == reader[r].id IN
                 /\ id \in segments' \/ stage'[id] = Pro!None
                 /\ mutex'[id] = mutex[id]
                 /\ stage'[id] = "serve" => stage[id] = "serve" /\ table'[id] = table[id]
        PROVE  ReaderInv'
    BY <1>a DEF ReaderInv
  <1>b. \A r \in Readers : reader[r].phase \in {"lock", "copy"} =>
          /\ reader[r].id \in Pids
          /\ reader[r].id \in segments \/ stage[reader[r].id] = Pro!None
    BY DEF ReaderInv
  <1>c. ASSUME NEW r \in Readers, NEW v, Pro!Put(r, v),
               \A q \in Readers \ {r} : reader[q].phase = "copy" =>
                 LET id == reader[q].id IN
                 /\ mutex'[id] = mutex[id]
                 /\ stage'[id] = "serve" => table'[id] = table[id],
               UNCHANGED <<segments, stage>>,
               /\ v.phase # "out" => v.id \in Pids
               /\ v.phase \in {"lock", "copy"} => v.id \in segments \/ stage[v.id] = Pro!None
               /\ v.phase = "lock" => v.seen = {}
               /\ v.phase = "copy" => mutex'[v.id] = r
               /\ v.phase = "copy" /\ stage[v.id] = "serve" =>
                    v.seen \cup v.left = table'[v.id]
        PROVE  ReaderInv'
    <2>1. reader'[r] = v /\ \A q \in Readers \ {r} : reader'[q] = reader[q]
      BY <1>0, <1>c DEF Pro!Put
    <2> QED BY <1>c, <2>1 DEF ReaderInv
  <1>1. ASSUME NEW p \in Pids, Pro!Start(p) PROVE ReaderInv'
    BY <1>0, <1>a, <1>b, <1>1 DEF Pro!Start, Pro!Free, Pro!Running, Pro!None
  <1>2. ASSUME NEW p \in Pids, Pro!Alien(p) PROVE ReaderInv'
    BY <1>0, <1>a, <1>b, <1>2 DEF Pro!Alien, Pro!Free, Pro!Running, Pro!None
  <1>3. ASSUME NEW p \in Pids, Pro!Prepare(p) PROVE ReaderInv'
    BY <1>0, <1>a, <1>b, <1>3 DEF Pro!Prepare, Pro!Free, Pro!Running, Pro!None
  <1>4. ASSUME NEW p \in Pids, Pro!AlreadyRunning(p) PROVE ReaderInv'
    BY <1>0, <1>a, <1>b, <1>4 DEF Pro!AlreadyRunning, Pro!Free, Pro!Running, Pro!None
  <1>5. ASSUME NEW p \in Pids, Pro!Listen(p) PROVE ReaderInv'
    BY <1>0, <1>a, <1>b, <1>5 DEF Pro!Listen, Pro!Free, Pro!Running, Pro!None
  <1>6. ASSUME NEW p \in Pids, Pro!Fork(p) PROVE ReaderInv'
    <2>1. CASE stage' = [stage EXCEPT ![p] = "pid file"]
      BY <1>0, <1>a, <1>b, <1>6, <2>1 DEF Pro!Fork, Pro!None
    <2>2. ASSUME NEW q \in Pids, Pro!Free(q),
                 stage' = [stage EXCEPT ![p] = Pro!None, ![q] = "pid file"]
          PROVE  ReaderInv'
      <3>1. \A r \in Readers : reader[r].id # q
        BY <2>2 DEF Pro!Free
      <3>2. \A o \in Pids \ {q} : stage'[o] = stage[o] \/ stage'[o] = Pro!None
        BY <1>0, <2>2
      <3> QED BY <1>a, <1>b, <1>6, <3>1, <3>2 DEF Pro!Fork, Pro!None
    <2> QED BY <1>6, <2>1, <2>2 DEF Pro!Fork
  <1>7. ASSUME NEW p \in Pids, Pro!CreatePIDFile(p) PROVE ReaderInv'
    BY <1>0, <1>a, <1>b, <1>7 DEF Pro!CreatePIDFile, Pro!Free, Pro!Running, Pro!None
  <1>8. ASSUME NEW p \in Pids, Pro!OpenSharedMemory(p) PROVE ReaderInv'
    <2>1. CASE p \in segments
      BY <1>0, <1>a, <1>b, <1>8, <2>1 DEF Pro!OpenSharedMemory, Pro!None
    <2>2. CASE p \notin segments
      <3>1. \A r \in Readers : reader[r].phase \in {"lock", "copy"} => reader[r].id # p
        BY <1>b, <1>8, <2>2 DEF Pro!OpenSharedMemory, Pro!None
      <3>2. /\ reader' = reader /\ segments \subseteq segments'
            /\ \A q \in Pids \ {p} :
                 stage'[q] = stage[q] /\ table'[q] = table[q] /\ mutex'[q] = mutex[q]
        BY <1>0, <1>8, <2>2 DEF Pro!OpenSharedMemory
      <3> QED BY <1>a, <1>b, <3>1, <3>2
    <2> QED BY <2>1, <2>2
  <1>9. ASSUME NEW p \in Pids, Pro!Stop(p) PROVE ReaderInv'
    BY <1>0, <1>a, <1>b, <1>9 DEF Pro!Stop, Pro!Free, Pro!Running, Pro!None
  <1>10. ASSUME NEW p \in Pids, Pro!Crash(p) PROVE ReaderInv'
    BY <1>0, <1>a, <1>b, <1>10 DEF Pro!Crash, Pro!Free, Pro!Running, Pro!None
  <1>11. ASSUME NEW p \in Pids, Writes(p) PROVE ReaderInv'
    <2>1. PICK entries : Pro!Write(p, entries)
      BY <1>11 DEF Writes
    <2>2. \A r \in Readers : reader[r].phase = "copy" => reader[r].id # p
      BY <1>0, <2>1 DEF Pro!Write, ReaderInv
    <2>3. /\ UNCHANGED <<stage, segments, mutex, reader>>
          /\ \A q \in Pids \ {p} : table'[q] = table[q]
      BY <1>0, <2>1 DEF Pro!Write
    <2> QED BY <2>2, <2>3 DEF ReaderInv
  <1>12. ASSUME NEW r \in Readers, Pro!Open(r) PROVE ReaderInv'
    <2>1. PICK p \in Pids : Pro!Put(r, [Pro!NoReader EXCEPT !.id = p,
                                      !.phase = IF p \in segments THEN "lock" ELSE "close"])
      BY <1>12 DEF Pro!Open
    <2> DEFINE v == [Pro!NoReader EXCEPT !.id = p,
                                     !.phase = IF p \in segments THEN "lock" ELSE "close"]
    <2>2. /\ v.id = p /\ v.seen = {} /\ v.phase \in {"lock", "close"}
          /\ v.phase = "lock" => p \in segments
      BY DEF Pro!NoReader
    <2> HIDE DEF v
    <2>3. Pro!Put(r, v)
      BY <2>1 DEF v
    <2> QED BY <1>c, <1>12, <2>2, <2>3 DEF Pro!Open
  <1>13. ASSUME NEW r \in Readers, Pro!Lock(r) PROVE ReaderInv'
    <2> DEFINE p == reader[r].id
               v == [reader[r] EXCEPT !.phase = "copy", !.left = table[p]]
    <2>1. /\ v.id = p /\ v.seen = {} /\ v.phase = "copy" /\ v.left = table[p]
          /\ p \in Pids /\ (p \in segments \/ stage[p] = Pro!None)
      BY <1>0, <1>13 DEF Pro!Lock, ReaderInv, ReaderStates
    <2>2. \A q \in Readers : reader[q].phase = "copy" => reader[q].id # p
      BY <1>0, <1>13 DEF Pro!Lock, ReaderInv
    <2>3. mutex'[p] = r /\ \A o \in Pids \ {p} : mutex'[o] = mutex[o]
      BY <1>0, <1>13, <2>1 DEF Pro!Lock
    <2>4. Pro!Put(r, v) /\ UNCHANGED <<segments, stage, table>>
      BY <1>13 DEF Pro!Lock
    <2>5. \A q \in Readers : reader[q].phase = "copy" => reader[q].id \in Pids
      BY DEF ReaderInv
    <2> HIDE DEF p, v
    <2> QED BY <1>c, <2>1, <2>2, <2>3, <2>4, <2>5
  <1>14. ASSUME NEW r \in Readers, Pro!Copy(r) PROVE ReaderInv'
    <2> DEFINE p == reader[r].id
    <2>1. PICK e \in reader[r].left :
            Pro!Put(r, [reader[r] EXCEPT !.left = @ \ {e}, !.seen = @ \cup Pro!EntryOf(p, e.session)])
      BY <1>14 DEF Pro!Copy
    <2> DEFINE E == Pro!EntryOf(p, e.session)
               v == [reader[r] EXCEPT !.left = @ \ {e}, !.seen = @ \cup E]
    <2>2. stage[p] = "serve" =>
            e \in E /\ E \subseteq table[p] /\ reader[r].seen \cup reader[r].left = table[p]
      BY <1>14 DEF Pro!Copy, ReaderInv, Pro!EntryOf
    <2>3. /\ p \in Pids /\ (p \in segments \/ stage[p] = Pro!None) /\ mutex[p] = r
          /\ reader[r].phase = "copy"
      BY <1>14 DEF Pro!Copy, ReaderInv
    <2>4. Pro!Put(r, v) /\ UNCHANGED <<segments, stage, table, mutex>>
      BY <1>14, <2>1 DEF Pro!Copy
    <2> HIDE DEF E
    <2>5. /\ v.id = p /\ v.phase = "copy" /\ v.left = reader[r].left \ {e}
          /\ v.seen = reader[r].seen \cup E
      BY <1>0, <2>3 DEF ReaderStates
    <2>6. stage[p] = "serve" => v.seen \cup v.left = table[p]
      BY <2>2, <2>5
    <2> HIDE DEF p, v
    <2> QED BY <1>c, <2>3, <2>4, <2>5, <2>6
  <1>15. ASSUME NEW r \in Readers, Pro!Unlock(r) PROVE ReaderInv'
    <2> DEFINE p == reader[r].id
               v == [reader[r] EXCEPT !.phase = "close"]
    <2>1. v.id = p /\ v.phase = "close" /\ p \in Pids
      BY <1>0, <1>15 DEF Pro!Unlock, ReaderInv, ReaderStates
    <2>2. \A q \in Readers \ {r} : reader[q].phase = "copy" =>
            reader[q].id \in Pids /\ reader[q].id # p
      BY <1>15 DEF Pro!Unlock, ReaderInv
    <2>3. \A o \in Pids \ {p} : mutex'[o] = mutex[o]
      BY <1>0, <1>15 DEF Pro!Unlock
    <2>4. Pro!Put(r, v) /\ UNCHANGED <<segments, stage, table>>
      BY <1>15 DEF Pro!Unlock
    <2> HIDE DEF p, v
    <2> QED BY <1>c, <2>1, <2>2, <2>3, <2>4
  <1>16. ASSUME NEW r \in Readers, Pro!Close(r) PROVE ReaderInv'
    <2>1. Pro!NoReader.phase = "out"
      BY DEF Pro!NoReader
    <2>2. \A o \in Pids : stage[o] = "serve" => table'[o] = table[o]
      BY <1>0, <1>16 DEF Pro!Close
    <2>3. \A q \in Readers : reader[q].phase = "copy" => reader[q].id \in Pids
      BY DEF ReaderInv
    <2> QED BY <1>c, <1>16, <2>1, <2>2, <2>3 DEF Pro!Close
  <1>17. CASE UNCHANGED Pro!processVars
    BY <1>17 DEF Pro!processVars, ReaderInv
  <1> QED BY <1>1, <1>2, <1>3, <1>4, <1>5, <1>6, <1>7, <1>8, <1>9, <1>10, <1>11,
             <1>12, <1>13, <1>14, <1>15, <1>16, <1>17, StepCases

\* All parts together.
LEMMA ProcessStep ==
  ASSUME Pro!ProcessAssumption, ProcessInv, [Pro!Next]_(Pro!processVars)
  PROVE  ProcessInv'
PROOF BY ProcessTypesStep, PortStep, NamedStep, SegmentStep, ReaderStep DEF ProcessInv

\* No process runs at first.
LEMMA ProcessInit ==
  ASSUME Pro!ProcessAssumption, Pro!Init
  PROVE  ProcessInv
PROOF
  <1>0. Pro!None \notin Pids
    BY DEF Pro!ProcessAssumption
  <1>1. ProcessTypes
    <2>1. Pro!NoReader \in ReaderStates /\ Pro!NoReader.seen = {}
      BY DEF Pro!NoReader, ReaderStates
    <2>2. named \in [Pids -> BOOLEAN]
      BY DEF Pro!Init
    <2> QED BY <2>1, <2>2, FS_EmptySet DEF Pro!Init, ProcessTypes, Stages
  <1>2. PortInv
    BY <1>0 DEF Pro!Init, PortInv, Pro!None
  <1>3. NamedInv
    BY DEF Pro!Init, NamedInv
  <1>4. Pro!SegmentLives
    <2>1. {p \in segments : stage[p] # "serve"} = {}
      BY DEF Pro!Init
    <2>2. \A p \in Pids : stage[p] # "serve"
      BY DEF Pro!Init, Pro!None
    <2> QED BY <2>1, <2>2, FS_EmptySet, SameCount DEF Pro!Init, Pro!SegmentLives
  <1>5. ReaderInv
    BY DEF Pro!Init, ReaderInv, Pro!NoReader
  <1> QED BY <1>1, <1>2, <1>3, <1>4, <1>5 DEF ProcessInv

\* The inductive invariant holds throughout.
LEMMA ProcessInvariance == Pro!ProcessAssumption => (Pro!Spec => []ProcessInv)
PROOF
  <1> SUFFICES ASSUME Pro!ProcessAssumption PROVE Pro!Spec => []ProcessInv
    OBVIOUS
  <1>1. Pro!Init => ProcessInv
    BY ProcessInit
  <1>2. ProcessInv /\ [Pro!Next]_(Pro!processVars) => ProcessInv'
    BY ProcessStep
  <1> QED BY <1>1, <1>2, PTL DEF Pro!Spec

-----------------------------------------------------------------------------
(* The extremes of a finite set of speeds *)

\* Min is that element.
LEMMA LeastSpeed ==
  ASSUME NEW S \in SUBSET Nat, S # {}
  PROVE  Min(S) \in S /\ \A y \in S : Min(S) <= y
PROOF
  <1>1. \E x \in S : \A y \in S : x <= y
    BY LeastNumber
  <1> DEFINE m == CHOOSE z \in S : \A y \in S : z =< y
  <1>2. m \in S /\ \A y \in S : m <= y
    BY <1>1
  <1>3. m = Min(S)
    BY DEF Min
  <1> HIDE DEF m
  <1> QED BY <1>2, <1>3

\* A finite one has a greatest: a smallest subset without one would lose an
\* element and have one.
LEMMA GreatestSpeed ==
  ASSUME NEW S \in SUBSET Nat, S # {}, IsFiniteSet(S)
  PROVE  Max(S) \in S /\ \A y \in S : y <= Max(S)
PROOF
  <1> DEFINE HasMax(T) == \E x \in T : \A y \in T : y <= x
             Without == {T \in SUBSET S : T # {} /\ ~HasMax(T)}
             Sizes == {n \in Nat : \E T \in Without : Cardinality(T) = n}
  <1>1. HasMax(S)
    <2>1. SUFFICES ASSUME ~HasMax(S) PROVE FALSE
      OBVIOUS
    <2>2. Cardinality(S) \in Sizes
      BY <2>1, FS_CardinalityType
    <2>4. PICK n \in Sizes : \A m \in Sizes : n <= m
      <3>1. Sizes \in SUBSET Nat /\ Sizes # {}
        BY <2>2
      <3> HIDE DEF Sizes
      <3> QED BY <3>1, LeastNumber
    <2>5. PICK T \in Without : Cardinality(T) = n
      OBVIOUS
    <2>6. IsFiniteSet(T) /\ T \subseteq Nat
      BY FS_Subset
    <2>7. PICK x \in T : TRUE
      OBVIOUS
    <2> DEFINE U == T \ {x}
    <2>8. IsFiniteSet(U) /\ Cardinality(U) = n - 1 /\ n \in Nat /\ Cardinality(U) \in Nat
      BY <2>5, <2>6, FS_RemoveElement, FS_CardinalityType
    <2>9. Cardinality(U) \notin Sizes
      <3> HIDE DEF Sizes, U
      <3> QED BY <2>4, <2>8
    <2>10. U = {} \/ HasMax(U)
      BY <2>8, <2>9
    <2>11. CASE U = {}
      <3>1. \A y \in T : y <= x
        BY <2>6, <2>7, <2>11
      <3> QED BY <2>7, <3>1
    <2>12. CASE HasMax(U)
      <3>1. PICK m \in U : \A y \in U : y <= m
        BY <2>12
      <3>2. CASE x <= m
        <4>1. \A y \in T : y <= m
          BY <3>1, <3>2
        <4> QED BY <3>1, <4>1
      <3>3. CASE m <= x
        <4>1. \A y \in T : y <= x
          BY <2>6, <2>7, <3>1, <3>3
        <4> QED BY <2>7, <4>1
      <3> QED BY <2>6, <2>7, <3>1, <3>2, <3>3
    <2> QED BY <2>10, <2>11, <2>12
  <1>2. PICK x \in S : \A y \in S : x >= y
    BY <1>1
  <1> DEFINE m == CHOOSE z \in S : \A y \in S : z >= y
  <1>3. m \in S /\ \A y \in S : m >= y
    BY <1>2
  <1>4. m = Max(S)
    BY DEF Max
  <1> HIDE DEF m
  <1> QED BY <1>3, <1>4

-----------------------------------------------------------------------------
(* What who adds up *)

\* Sets without a common element.
LEMMA DisjointSum ==
  ASSUME NEW S, IsFiniteSet(S), NEW T, IsFiniteSet(T), S \cap T = {}
  PROVE  IsFiniteSet(S \cup T) /\ Cardinality(S \cup T) = Cardinality(S) + Cardinality(T)
PROOF
  <1>1. Cardinality(S \cap T) = 0
    BY FS_EmptySet
  <1>2. Cardinality(S) \in Nat /\ Cardinality(T) \in Nat
    BY FS_CardinalityType
  <1>3. /\ IsFiniteSet(S \cup T)
        /\ Cardinality(S \cup T) = Cardinality(S) + Cardinality(T) - Cardinality(S \cap T)
    BY FS_Union
  <1> QED BY <1>1, <1>2, <1>3

\* The lines of who fall into the four groups, and the slowest transfer is not
\* faster than the fastest.
LEMMA TotalsOf ==
  ASSUME Pro!ProcessAssumption, NEW entries \in SUBSET Entries, IsFiniteSet(entries)
  PROVE  LET t == Pro!Totals(entries) IN
           /\ t.count = t.idlers + t.active + t.uploaders + t.downloaders
           /\ t.upSlowest <= t.upFastest /\ t.downSlowest <= t.downFastest
PROOF
  <1> DEFINE W(a) == Pro!With(entries, a)
             I == W("idle")  C == W("command")  U == W("up")  D == W("down")
             t == Pro!Totals(entries)
             ups == Pro!SpeedsOf(entries, "up")  downs == Pro!SpeedsOf(entries, "down")
  <1>1. /\ IsFiniteSet(I) /\ IsFiniteSet(C) /\ IsFiniteSet(U) /\ IsFiniteSet(D)
        /\ Cardinality(I) \in Nat /\ Cardinality(C) \in Nat
        /\ Cardinality(U) \in Nat /\ Cardinality(D) \in Nat
    BY FS_Subset, FS_CardinalityType DEF Pro!With
  <1>2. entries = ((I \cup C) \cup U) \cup D
    BY DEF Pro!With, Entries, Pro!Actions
  <1>3. I \cap C = {} /\ (I \cup C) \cap U = {} /\ ((I \cup C) \cup U) \cap D = {}
    BY DEF Pro!With
  <1>4. Cardinality(entries) =
          Cardinality(I) + Cardinality(C) + Cardinality(U) + Cardinality(D)
    <2> HIDE DEF I, C, U, D
    <2>1. IsFiniteSet(I \cup C) /\ Cardinality(I \cup C) = Cardinality(I) + Cardinality(C)
      BY <1>1, <1>3, DisjointSum
    <2>2. /\ IsFiniteSet((I \cup C) \cup U)
          /\ Cardinality((I \cup C) \cup U) = Cardinality(I \cup C) + Cardinality(U)
      BY <1>1, <1>3, <2>1, DisjointSum
    <2>3. Cardinality(((I \cup C) \cup U) \cup D) =
            Cardinality((I \cup C) \cup U) + Cardinality(D)
      BY <1>1, <1>3, <2>2, DisjointSum
    <2> QED BY <1>1, <1>2, <2>1, <2>2, <2>3
  <1>5. ASSUME NEW a
        PROVE  Pro!SpeedsOf(entries, a) \subseteq Nat /\ IsFiniteSet(Pro!SpeedsOf(entries, a))
    <2>1. Pro!SpeedsOf(entries, a) \subseteq Nat
      <3>1. \A e \in Pro!With(entries, a) : e.speed \in Speeds \cup {0}
        BY DEF Pro!With, Entries
      <3>2. Speeds \cup {0} \subseteq Nat
        BY DEF Pro!ProcessAssumption
      <3> QED BY <3>1, <3>2, Zenon DEF Pro!SpeedsOf
    <2>2. IsFiniteSet(Pro!With(entries, a))
      BY FS_Subset DEF Pro!With
    <2> DEFINE f == [e \in Pro!With(entries, a) |-> e.speed]
    <2>3. f \in Surjection(Pro!With(entries, a), Pro!SpeedsOf(entries, a))
      BY DEF Surjection, Pro!SpeedsOf
    <2> QED BY <2>1, <2>2, <2>3, FS_Surjection
  <1>6. ASSUME NEW S \in SUBSET Nat, IsFiniteSet(S)
        PROVE  /\ Max(S \cup {0}) \in Nat /\ \A y \in S : y <= Max(S \cup {0})
               /\ S # {} => Min(S) \in S /\ Max(S) \in S
    <2>1. IsFiniteSet(S \cup {0}) /\ S \cup {0} # {} /\ S \cup {0} \in SUBSET Nat
      BY <1>6, FS_AddElement
    <2>2. Max(S \cup {0}) \in S \cup {0} /\ \A y \in S \cup {0} : y <= Max(S \cup {0})
      BY <2>1, GreatestSpeed
    <2>3. S # {} => Min(S) \in S /\ Max(S) \in S
      BY <1>6, GreatestSpeed, LeastSpeed
    <2>4. Max(S \cup {0}) \in Nat
      BY <2>1, <2>2
    <2>5. \A y \in S : y <= Max(S \cup {0})
      BY <2>2
    <2> QED BY <2>3, <2>4, <2>5
  <1>7. /\ t.count = Cardinality(entries) /\ t.idlers = Cardinality(I)
        /\ t.active = Cardinality(C) /\ t.uploaders = Cardinality(U)
        /\ t.downloaders = Cardinality(D)
    BY SameCount DEF Pro!Totals
  <1>8. /\ t.upFastest = Max(ups \cup {0}) /\ t.downFastest = Max(downs \cup {0})
        /\ t.upSlowest = IF ups = {} THEN 0 ELSE Min(ups)
        /\ t.downSlowest = IF downs = {} THEN 0 ELSE Max(downs)
    BY SameCount DEF Pro!Totals
  <1>9. /\ ups \in SUBSET Nat /\ IsFiniteSet(ups)
        /\ downs \in SUBSET Nat /\ IsFiniteSet(downs)
    BY <1>5
  <1> HIDE DEF t, I, C, U, D, ups, downs
  <1>10. t.upSlowest <= t.upFastest
    <2>1. CASE ups = {}
      BY <1>6, <1>8, <1>9, <2>1
    <2>2. CASE ups # {}
      <3>1. Min(ups) \in ups /\ t.upSlowest = Min(ups)
        BY <1>6, <1>8, <1>9, <2>2
      <3>2. \A y \in ups : y <= t.upFastest
        BY <1>6, <1>8, <1>9
      <3> QED BY <3>1, <3>2
    <2> QED BY <2>1, <2>2
  <1>11. t.downSlowest <= t.downFastest
    <2>1. CASE downs = {}
      BY <1>6, <1>8, <1>9, <2>1
    <2>2. CASE downs # {}
      <3>1. Max(downs) \in downs /\ t.downSlowest = Max(downs)
        BY <1>6, <1>8, <1>9, <2>2
      <3>2. \A y \in downs : y <= t.downFastest
        BY <1>6, <1>8, <1>9
      <3> QED BY <3>1, <3>2
    <2> QED BY <2>1, <2>2
  <1>12. t.count = t.idlers + t.active + t.uploaders + t.downloaders
    BY <1>4, <1>7
  <1> QED BY <1>10, <1>11, <1>12 DEF t

-----------------------------------------------------------------------------
(* The theorems *)

\* For any number of processes, readers, starts and crashes: two servers never
\* serve at once, however start-ups and pid files interleave.  The pid file does
\* not ensure it (AlreadyRunning reads it long before CreatePIDFile writes it);
\* the port of Server::Initialise does.
THEOREM OneServerServes == Pro!ProcessAssumption => (Pro!Spec => []Pro!OneServer)
PROOF
  <1> SUFFICES ASSUME Pro!ProcessAssumption PROVE Pro!Spec => []Pro!OneServer
    OBVIOUS
  <1>1. ProcessInv => Pro!OneServer
    BY DEF ProcessInv, PortInv, Pro!OneServer
  <1> QED BY <1>1, ProcessInvariance, PTL

\* Everything MCSupport asks of the process, for every instance: one server, the
\* pid file names it once written, its memory (ftp/online.cpp) lives as long as it
\* and only a crash leaves one behind, a reader copies the table of one moment and
\* the totals of CompileWhosOnline add up.
THEOREM ServerIsSound == Pro!ProcessAssumption => (Pro!Spec => []Pro!ServerSound)
PROOF
  <1> SUFFICES ASSUME Pro!ProcessAssumption PROVE Pro!Spec => []Pro!ServerSound
    OBVIOUS
  <1>1. ProcessInv => Pro!ServerSound
    <2> SUFFICES ASSUME ProcessInv PROVE Pro!ServerSound
      OBVIOUS
    <2>1. Pro!OneServer
      BY DEF ProcessInv, PortInv, Pro!OneServer
    <2>2. Pro!PidfileNamesServer
      BY DEF ProcessInv, NamedInv, Pro!PidfileNamesServer
    <2>3. Pro!SnapshotWhole
      BY DEF ProcessInv, ReaderInv, Pro!SnapshotWhole
    <2>4. Pro!TotalsAddUp
      <3>1. \A r \in Readers : reader[r].seen \in SUBSET Entries /\ IsFiniteSet(reader[r].seen)
        BY DEF ProcessInv, ProcessTypes, ReaderStates
      <3> QED BY <3>1, TotalsOf DEF Pro!TotalsAddUp
    <2> QED BY <2>1, <2>2, <2>3, <2>4 DEF ProcessInv, Pro!ServerSound
  <1> QED BY <1>1, ProcessInvariance, PTL

-----------------------------------------------------------------------------
(* AsyncCRC: arithmetic of the ring *)

\* Multiples of the size of the ring.
LEMMA Multiples ==
  ASSUME NEW q \in Nat \ {0}, NEW a \in Int, NEW b \in Int
  PROVE  /\ q * (b - a) = q * b - q * a /\ q * a \in Int /\ q * b \in Int
         /\ a < b => q <= q * (b - a)
PROOF
  <1>1. q * (b - a) = q * b - q * a /\ q * a \in Int /\ q * b \in Int
    OBVIOUS
  <1>2. a < b => q <= q * (b - a)
    <2> SUFFICES ASSUME a < b PROVE q <= q * (b - a)
      OBVIOUS
    <2>1. b - a - 1 \in Nat
      OBVIOUS
    <2>2. q * (b - a - 1) \in Nat
      BY <2>1
    <2>3. q * (b - a - 1) = q * (b - a) - q
      OBVIOUS
    <2> QED BY <2>2, <2>3
  <1> QED BY <1>1, <1>2

\* A position is a number of turns and a buffer.
LEMMA Position ==
  ASSUME NEW q \in Nat \ {0}, NEW n \in Nat
  PROVE  n \div q \in Nat /\ n % q \in 0..(q - 1) /\ n = q * (n \div q) + (n % q)
PROOF OBVIOUS

\* Only one buffer and one number of turns make a position.
LEMMA PositionUnique ==
  ASSUME NEW q \in Nat \ {0}, NEW n \in Nat, NEW a \in Int, NEW r \in 0..(q - 1),
         n = q * a + r
  PROVE  n % q = r
PROOF
  <1>1. n \div q \in Nat /\ n % q \in 0..(q - 1) /\ n = q * (n \div q) + (n % q)
    BY Position
  <1>2. CASE a < n \div q
    BY <1>1, <1>2, Multiples
  <1>3. CASE n \div q < a
    BY <1>1, <1>3, Multiples
  <1>4. CASE a = n \div q
    BY <1>1, <1>4
  <1> QED BY <1>1, <1>2, <1>3, <1>4

\* The iterators: the next position is the next buffer, wrapped at the end.
LEMMA NextBuffer ==
  ASSUME NEW q \in Nat \ {0}, NEW n \in Nat
  PROVE  (n + 1) % q = ((n % q) + 1) % q
PROOF
  <1> DEFINE r == n % q
             a == n \div q
  <1>1. a \in Nat /\ r \in 0..(q - 1) /\ n = q * a + r
    BY Position
  <1> HIDE DEF r, a
  <1>2. CASE r + 1 < q
    <2>1. (r + 1) % q = r + 1
      BY <1>1, <1>2
    <2>2. (n + 1) % q = r + 1
      BY <1>1, <1>2, PositionUnique
    <2> QED BY <2>1, <2>2 DEF r
  <1>3. CASE r + 1 = q
    <2>1. (r + 1) % q = 0
      BY <1>3
    <2>2. n + 1 = q * (a + 1) + 0
      BY <1>1, <1>3
    <2>3. (n + 1) % q = 0
      BY <1>1, <2>2, PositionUnique
    <2> QED BY <2>1, <2>3 DEF r
  <1> QED BY <1>1, <1>2, <1>3

\* Positions less than a turn apart are different buffers.
LEMMA DifferentBuffers ==
  ASSUME NEW q \in Nat \ {0}, NEW i \in Nat, NEW j \in Nat, i < j, j < i + q
  PROVE  i % q # j % q
PROOF
  <1> SUFFICES ASSUME i % q = j % q PROVE FALSE
    OBVIOUS
  <1>1. i \div q \in Nat /\ i % q \in 0..(q - 1) /\ i = q * (i \div q) + (i % q)
    BY Position
  <1>2. j \div q \in Nat /\ j = q * (j \div q) + (j % q)
    BY Position
  <1>3. CASE i \div q < j \div q
    BY <1>1, <1>2, <1>3, Multiples
  <1>4. CASE j \div q < i \div q
    BY <1>1, <1>2, <1>4, Multiples
  <1> QED BY <1>1, <1>2, <1>3, <1>4

\* A whole turn ends at the same buffer.
LEMMA WholeTurn ==
  ASSUME NEW q \in Nat \ {0}, NEW n \in Nat
  PROVE  (n + q) % q = n % q
PROOF
  <1> DEFINE r == n % q
             a == n \div q
  <1>1. a \in Nat /\ r \in 0..(q - 1) /\ n = q * a + r
    BY Position
  <1> HIDE DEF r, a
  <1>2. n + q = q * (a + 1) + r
    BY <1>1
  <1>3. (n + q) % q = r
    BY <1>1, <1>2, PositionUnique
  <1> QED BY <1>3 DEF r

-----------------------------------------------------------------------------
(* The inductive invariant *)

\* Blocks that Update has published, and blocks whose buffer Main has released.
Published == IF writer = "publish" THEN sent - 1 ELSE sent
Released == IF worker = "release" THEN Len(crc) - 1 ELSE Len(crc)

\* How often each iterator has moved on.
WritePos == IF writer \in {"publish", "notify"} THEN sent - 1 ELSE sent
ReadPos == IF worker \in {"release", "notify"} THEN Len(crc) - 1 ELSE Len(crc)

\* The counters are in order: Main is never ahead of Update, and Update never
\* more than one turn ahead of Main.
CountersInv ==
  /\ sent \in Nat /\ crc \in Seq(Int)
  /\ Published \in Nat /\ Released \in Nat /\ WritePos \in Nat /\ ReadPos \in Nat
  /\ Released <= Published /\ Published <= Released + QueueSize
  /\ queued = Published - Released
  /\ worker \in {"update", "release"} => Released < Published
  /\ writer \in {"fill", "sleepFill"} => sent < MaxBlocks

\* The full buffers are those between the two iterators, and hold the blocks
\* that are published and not released, in order.
RingInv ==
  /\ readIt = ReadPos % QueueSize /\ writeIt = WritePos % QueueSize
  /\ \A p \in Released..(Published - 1) :
       full[p % QueueSize] /\ data[p % QueueSize] = p + 1
  /\ \A b \in Crc!Buffers : full[b] => \E p \in Released..(Published - 1) : b = p % QueueSize
  /\ writer = "publish" => ~full[writeIt] /\ data[writeIt] = sent
  /\ \A k \in DOMAIN crc : crc[k] = k

\* Who sleeps has somebody awake to wake it, and the result was taken when all
\* that was sent had been summed.
ThreadInv ==
  /\ finished <=> writer \in {"join", "done"}
  /\ worker = "sleep" => ~finished /\ (Released = Published \/ writer = "notify")
  /\ writer \in {"sleepFill", "sleepSum"} => Released < Published \/ worker = "notify"
  /\ worker = "exit" => finished /\ Released = Published
  /\ writer = "done" => worker = "exit"
  /\ result # Crc!NoResult =>
       /\ writer \in {"idle", "finish", "join", "done"}
       /\ result = [k \in 1..sent |-> k]

CrcInv == Crc!TypeOK /\ CountersInv /\ RingInv /\ ThreadInv

-----------------------------------------------------------------------------
(* What the state of the ring says *)

\* The buffer that Main looks at is full exactly when a block waits.
LEMMA ReaderSees ==
  ASSUME Crc!RingAssumption, CrcInv, ReadPos = Released
  PROVE  full[readIt] <=> Released < Published
PROOF
  <1>1. Released \in Nat /\ Published \in Nat /\ QueueSize \in Nat \ {0}
    BY DEF Crc!RingAssumption, CrcInv, CountersInv
  <1>2. readIt = Released % QueueSize /\ readIt \in Crc!Buffers
    BY DEF CrcInv, RingInv, Crc!TypeOK
  <1>3. ASSUME full[readIt] PROVE Released < Published
    <2>1. PICK p \in Released..(Published - 1) : readIt = p % QueueSize
      BY <1>2, <1>3 DEF CrcInv, RingInv
    <2> QED BY <1>1, <2>1
  <1>4. ASSUME Released < Published PROVE full[readIt]
    <2>1. Released \in Released..(Published - 1)
      BY <1>1, <1>4
    <2> QED BY <1>2, <2>1 DEF CrcInv, RingInv
  <1> QED BY <1>3, <1>4

\* The buffer that Update is about to fill is empty only if the ring has room.
LEMMA WriterHasRoom ==
  ASSUME Crc!RingAssumption, CrcInv, WritePos = Published, ~full[writeIt]
  PROVE  Published < Released + QueueSize
PROOF
  <1>1. /\ Released \in Nat /\ Published \in Nat /\ QueueSize \in Nat \ {0}
        /\ Published <= Released + QueueSize
    BY DEF Crc!RingAssumption, CrcInv, CountersInv
  <1> SUFFICES ASSUME Published = Released + QueueSize PROVE FALSE
    BY <1>1
  <1>2. Released \in Released..(Published - 1)
    BY <1>1
  <1>3. full[Released % QueueSize]
    BY <1>2 DEF CrcInv, RingInv
  <1>4. Published % QueueSize = Released % QueueSize
    BY <1>1, WholeTurn
  <1> QED BY <1>3, <1>4 DEF CrcInv, RingInv

\* The invariant of the counters and of the ring, of a step that only moves a
\* thread.
LEMMA RingKept ==
  ASSUME Crc!RingAssumption, CrcInv,
         UNCHANGED <<full, data, queued, readIt, writeIt, sent, crc>>,
         UNCHANGED <<Published, Released, WritePos, ReadPos>>,
         worker' \in {"update", "release"} => Released < Published,
         writer' \in {"fill", "sleepFill"} => sent < MaxBlocks,
         writer' = "publish" => writer = "publish"
  PROVE  CountersInv' /\ RingInv'
PROOF
  <1>1. CountersInv'
    BY DEF CrcInv, CountersInv
  <1>2. RingInv'
    BY DEF CrcInv, RingInv, Crc!Buffers
  <1> QED BY <1>1, <1>2

-----------------------------------------------------------------------------
(* Every step keeps the invariant *)

\* The types.
LEMMA CrcTypeStep ==
  ASSUME Crc!RingAssumption, CrcInv, [Crc!Next]_(Crc!crcVars)
  PROVE  Crc!TypeOK'
PROOF
  <1>0. /\ QueueSize \in Nat \ {0} /\ MaxBlocks \in Nat
        /\ \A i \in Crc!Buffers : Crc!After(i) \in Crc!Buffers
    BY DEF Crc!RingAssumption, Crc!After, Crc!Buffers
  <1>1. Crc!TypeOK /\ (writer \in {"fill", "sleepFill"} => sent < MaxBlocks)
    BY DEF CrcInv, CountersInv
  <1> USE <1>0, <1>1 DEF Crc!TypeOK
  <1>2. ASSUME Crc!Call PROVE Crc!TypeOK'
    BY <1>2 DEF Crc!Call
  <1>3. ASSUME Crc!Fill PROVE Crc!TypeOK'
    BY <1>3 DEF Crc!Fill
  <1>4. ASSUME Crc!Publish PROVE Crc!TypeOK'
    BY <1>4 DEF Crc!Publish
  <1>5. ASSUME Crc!NotifyReader PROVE Crc!TypeOK'
    BY <1>5 DEF Crc!NotifyReader
  <1>6. ASSUME Crc!Sum PROVE Crc!TypeOK'
    BY <1>6 DEF Crc!Sum
  <1>7. ASSUME Crc!Finish PROVE Crc!TypeOK'
    BY <1>7 DEF Crc!Finish
  <1>8. ASSUME Crc!Join PROVE Crc!TypeOK'
    BY <1>8 DEF Crc!Join
  <1>9. ASSUME Crc!Look PROVE Crc!TypeOK'
    BY <1>9 DEF Crc!Look
  <1>10. ASSUME Crc!UpdateSum PROVE Crc!TypeOK'
    BY <1>10 DEF Crc!UpdateSum
  <1>11. ASSUME Crc!Release PROVE Crc!TypeOK'
    BY <1>11 DEF Crc!Release
  <1>12. ASSUME Crc!NotifyWriter PROVE Crc!TypeOK'
    BY <1>12 DEF Crc!NotifyWriter
  <1>13. ASSUME Crc!Spurious PROVE Crc!TypeOK'
    BY <1>13 DEF Crc!Spurious
  <1>14. CASE UNCHANGED Crc!crcVars
    BY <1>14 DEF Crc!crcVars
  <1> QED BY <1>2, <1>3, <1>4, <1>5, <1>6, <1>7, <1>8, <1>9, <1>10, <1>11, <1>12,
             <1>13, <1>14 DEF Crc!Next

\* The counters and the ring.
LEMMA CrcRingStep ==
  ASSUME Crc!RingAssumption, CrcInv, [Crc!Next]_(Crc!crcVars)
  PROVE  CountersInv' /\ RingInv'
PROOF
  <1>0. /\ QueueSize \in Nat \ {0} /\ MaxBlocks \in Nat
        /\ full \in [Crc!Buffers -> BOOLEAN] /\ data \in [Crc!Buffers -> 0..MaxBlocks]
        /\ readIt \in Crc!Buffers /\ writeIt \in Crc!Buffers /\ queued \in Int
    BY DEF Crc!RingAssumption, CrcInv, Crc!TypeOK
  <1>1. /\ sent \in Nat /\ crc \in Seq(Int)
        /\ Published \in Nat /\ Released \in Nat /\ WritePos \in Nat /\ ReadPos \in Nat
        /\ Released <= Published /\ Published <= Released + QueueSize
        /\ queued = Published - Released
        /\ worker \in {"update", "release"} => Released < Published
        /\ writer \in {"fill", "sleepFill"} => sent < MaxBlocks
    BY DEF CrcInv, CountersInv
  <1>2. /\ readIt = ReadPos % QueueSize /\ writeIt = WritePos % QueueSize
        /\ \A p \in Released..(Published - 1) :
             full[p % QueueSize] /\ data[p % QueueSize] = p + 1
        /\ \A b \in Crc!Buffers : full[b] => \E p \in Released..(Published - 1) : b = p % QueueSize
        /\ writer = "publish" => ~full[writeIt] /\ data[writeIt] = sent
        /\ \A k \in DOMAIN crc : crc[k] = k
    BY DEF CrcInv, RingInv
  <1>p. \A p \in Nat : p % QueueSize \in Crc!Buffers
    BY <1>0, Position DEF Crc!Buffers
  <1>3. ASSUME Crc!Call PROVE CountersInv' /\ RingInv'
    BY <1>3, RingKept DEF Crc!Call, Published, Released, WritePos, ReadPos, CrcInv, CountersInv
  <1>4. ASSUME Crc!Fill PROVE CountersInv' /\ RingInv'
    <2>1. CASE full[writeIt]
      BY <1>4, <2>1, RingKept DEF Crc!Fill, Published, Released, WritePos, ReadPos, CrcInv,
         CountersInv
    <2>2. CASE ~full[writeIt]
      <3>1. /\ data' = [data EXCEPT ![writeIt] = sent + 1] /\ sent' = sent + 1
            /\ writer' = "publish" /\ writer = "fill"
            /\ UNCHANGED <<full, queued, readIt, writeIt, worker, crc>>
        BY <1>4, <2>2 DEF Crc!Fill
      <3>2. UNCHANGED <<Published, Released, WritePos, ReadPos>>
        BY <1>1, <3>1 DEF Published, Released, WritePos, ReadPos
      <3>3. CountersInv'
        BY <1>1, <3>1, <3>2 DEF CountersInv
      <3>4. \A p \in Released..(Published - 1) : p % QueueSize # writeIt
        BY <1>2, <2>2
      <3>5. \A p \in Released..(Published - 1) : data'[p % QueueSize] = data[p % QueueSize]
        <4>1. \A b \in Crc!Buffers \ {writeIt} : data'[b] = data[b]
          BY <1>0, <3>1
        <4>2. \A p \in Released..(Published - 1) : p % QueueSize \in Crc!Buffers
          BY <1>1, <1>p
        <4> QED BY <3>4, <4>1, <4>2
      <3>6. data'[writeIt] = sent'
        BY <1>0, <3>1
      <3>7. RingInv'
        BY <1>2, <2>2, <3>1, <3>2, <3>5, <3>6 DEF RingInv, Crc!Buffers
      <3> QED BY <3>3, <3>7
    <2> QED BY <2>1, <2>2
  <1>5. ASSUME Crc!Publish PROVE CountersInv' /\ RingInv'
    <2>1. /\ full' = [full EXCEPT ![writeIt] = TRUE] /\ queued' = queued + 1
          /\ writer = "publish" /\ writer' = "notify"
          /\ UNCHANGED <<data, readIt, writeIt, worker, sent, crc>>
      BY <1>5 DEF Crc!Publish
    <2>2. /\ Published = sent - 1 /\ Published' = Published + 1
          /\ WritePos = Published /\ UNCHANGED <<Released, WritePos, ReadPos>>
      BY <1>1, <2>1 DEF Published, Released, WritePos, ReadPos
    <2>3. Published < Released + QueueSize
      BY <1>2, <2>1, <2>2, WriterHasRoom
    <2>4. CountersInv'
      BY <1>0, <1>1, <2>1, <2>2, <2>3 DEF CountersInv
    <2>5. /\ full'[writeIt] /\ \A b \in Crc!Buffers \ {writeIt} : full'[b] = full[b]
      BY <1>0, <2>1
    <2>6. \A p \in Released'..(Published' - 1) :
            full'[p % QueueSize] /\ data'[p % QueueSize] = p + 1
      <3> SUFFICES ASSUME NEW p \in Released..Published
                   PROVE  full'[p % QueueSize] /\ data[p % QueueSize] = p + 1
        BY <1>1, <2>1, <2>2
      <3>1. CASE p = Published
        BY <1>0, <1>1, <1>2, <2>1, <2>2, <2>5, <3>1
      <3>2. CASE p # Published
        <4>1. p \in Released..(Published - 1) /\ p % QueueSize \in Crc!Buffers
          BY <1>1, <1>p, <3>2
        <4> QED BY <1>2, <2>5, <4>1
      <3> QED BY <3>1, <3>2
    <2>7. ASSUME NEW b \in Crc!Buffers, full'[b]
          PROVE  \E p \in Released'..(Published' - 1) : b = p % QueueSize
      <3>1. CASE b = writeIt
        <4>1. Published \in Released'..(Published' - 1)
          BY <1>1, <2>2
        <4> QED BY <1>2, <2>2, <3>1, <4>1
      <3>2. CASE b # writeIt
        <4>1. PICK p \in Released..(Published - 1) : b = p % QueueSize
          BY <1>2, <2>5, <2>7, <3>2
        <4>2. p \in Released'..(Published' - 1)
          BY <1>1, <2>2, <4>1
        <4> QED BY <4>1, <4>2
      <3> QED BY <3>1, <3>2
    <2>8. RingInv'
      BY <1>2, <2>1, <2>2, <2>6, <2>7 DEF RingInv, Crc!Buffers
    <2> QED BY <2>4, <2>8
  <1>6. ASSUME Crc!NotifyReader PROVE CountersInv' /\ RingInv'
    <2>1. /\ writer = "notify" /\ writer' = "idle" /\ writeIt' = Crc!After(writeIt)
          /\ worker' \in {worker, "look"} /\ (worker # "sleep" => worker' = worker)
          /\ UNCHANGED <<full, data, queued, readIt, sent, crc>>
      BY <1>6 DEF Crc!NotifyReader
    <2>2. /\ WritePos' = WritePos + 1 /\ UNCHANGED <<Published, Released, ReadPos>>
      BY <1>1, <2>1 DEF Published, Released, WritePos, ReadPos
    <2>3. writeIt' = WritePos' % QueueSize
      BY <1>0, <1>1, <1>2, <2>1, <2>2, NextBuffer DEF Crc!After
    <2>4. CountersInv'
      BY <1>1, <2>1, <2>2 DEF CountersInv
    <2>5. RingInv'
      BY <1>2, <2>1, <2>2, <2>3 DEF RingInv, Crc!Buffers
    <2> QED BY <2>4, <2>5
  <1>7. ASSUME Crc!Sum PROVE CountersInv' /\ RingInv'
    BY <1>7, RingKept DEF Crc!Sum, Published, Released, WritePos, ReadPos, CrcInv, CountersInv
  <1>8. ASSUME Crc!Finish PROVE CountersInv' /\ RingInv'
    BY <1>8, RingKept DEF Crc!Finish, Published, Released, WritePos, ReadPos, CrcInv, CountersInv
  <1>9. ASSUME Crc!Join PROVE CountersInv' /\ RingInv'
    BY <1>9, RingKept DEF Crc!Join, Published, Released, WritePos, ReadPos, CrcInv, CountersInv
  <1>10. ASSUME Crc!Look PROVE CountersInv' /\ RingInv'
    <2>1. ReadPos = Released
      BY <1>10 DEF Crc!Look, ReadPos, Released
    <2>2. worker' = "update" => Released < Published
      BY <1>10, <2>1, ReaderSees DEF Crc!Look
    <2>3. UNCHANGED <<Published, Released, WritePos, ReadPos>>
      BY <1>10 DEF Crc!Look, Published, Released, WritePos, ReadPos
    <2> QED BY <1>1, <1>10, <2>2, <2>3, RingKept DEF Crc!Look
  <1>11. ASSUME Crc!UpdateSum PROVE CountersInv' /\ RingInv'
    <2>1. /\ worker = "update" /\ worker' = "release" /\ crc' = Append(crc, data[readIt])
          /\ UNCHANGED <<full, data, queued, readIt, writeIt, writer, sent>>
      BY <1>11 DEF Crc!UpdateSum
    <2>2. data[readIt] \in Int /\ Len(crc) \in Nat
      BY <1>0, <1>1
    <2>3. /\ crc' \in Seq(Int) /\ Len(crc') = Len(crc) + 1
          /\ crc'[Len(crc) + 1] = data[readIt]
          /\ \A k \in 1..Len(crc) : crc'[k] = crc[k]
      BY <1>1, <2>1, <2>2
    <2>4. /\ UNCHANGED <<Published, Released, WritePos, ReadPos>>
          /\ Released = Len(crc) /\ ReadPos = Released
      BY <1>1, <2>1, <2>2, <2>3 DEF Published, Released, WritePos, ReadPos
    <2>5. CountersInv'
      BY <1>1, <2>1, <2>3, <2>4 DEF CountersInv
    <2>6. data[readIt] = Len(crc) + 1
      <3>1. Released \in Released..(Published - 1)
        BY <1>1, <2>1
      <3> QED BY <1>2, <2>4, <3>1
    <2>7. \A k \in DOMAIN crc' : crc'[k] = k
      <3>1. DOMAIN crc' = 1..(Len(crc) + 1) /\ DOMAIN crc = 1..Len(crc)
        BY <1>1, <2>3
      <3>2. \A k \in DOMAIN crc' : k \in 1..Len(crc) \/ k = Len(crc) + 1
        BY <2>2, <3>1
      <3> QED BY <1>2, <2>3, <2>6, <3>1, <3>2
    <2>8. RingInv'
      BY <1>2, <2>1, <2>4, <2>7 DEF RingInv, Crc!Buffers
    <2> QED BY <2>5, <2>8
  <1>12. ASSUME Crc!Release PROVE CountersInv' /\ RingInv'
    <2>1. /\ worker = "release" /\ worker' = "notify" /\ queued' = queued - 1
          /\ full' = [full EXCEPT ![readIt] = FALSE]
          /\ UNCHANGED <<data, readIt, writeIt, writer, sent, crc>>
      BY <1>12 DEF Crc!Release
    <2>2. /\ Released' = Released + 1 /\ ReadPos = Released
          /\ UNCHANGED <<Published, WritePos, ReadPos>>
      BY <1>1, <2>1 DEF Published, Released, WritePos, ReadPos
    <2>3. CountersInv'
      BY <1>0, <1>1, <2>1, <2>2 DEF CountersInv
    <2>4. /\ ~full'[readIt] /\ \A b \in Crc!Buffers \ {readIt} : full'[b] = full[b]
      BY <1>0, <2>1
    <2>5. \A p \in Released'..(Published' - 1) :
            full'[p % QueueSize] /\ data'[p % QueueSize] = p + 1
      <3> SUFFICES ASSUME NEW p \in (Released + 1)..(Published - 1)
                   PROVE  full'[p % QueueSize] /\ data[p % QueueSize] = p + 1
        BY <2>1, <2>2
      <3>1. p \in Released..(Published - 1) /\ p \in Nat /\ Released < p /\ p < Released + QueueSize
        BY <1>0, <1>1
      <3>2. p % QueueSize # readIt /\ p % QueueSize \in Crc!Buffers
        BY <1>0, <1>1, <1>2, <1>p, <2>2, <3>1, DifferentBuffers
      <3> QED BY <1>2, <2>4, <3>1, <3>2
    <2>6. ASSUME NEW b \in Crc!Buffers, full'[b]
          PROVE  \E p \in Released'..(Published' - 1) : b = p % QueueSize
      <3>1. b # readIt /\ full[b]
        BY <2>4, <2>6
      <3>2. PICK p \in Released..(Published - 1) : b = p % QueueSize
        BY <1>2, <3>1
      <3>3. p # Released
        BY <1>2, <2>2, <3>1, <3>2
      <3>4. p \in Released'..(Published' - 1)
        BY <1>1, <2>2, <3>2, <3>3
      <3> QED BY <3>2, <3>4
    <2>7. writer = "publish" => ~full'[writeIt]
      BY <1>0, <1>2, <2>4
    <2>8. RingInv'
      BY <1>2, <2>1, <2>2, <2>5, <2>6, <2>7 DEF RingInv, Crc!Buffers
    <2> QED BY <2>3, <2>8
  <1>13. ASSUME Crc!NotifyWriter PROVE CountersInv' /\ RingInv'
    <2>1. /\ worker = "notify" /\ worker' = "look" /\ readIt' = Crc!After(readIt)
          /\ \/ writer' = writer
             \/ writer = "sleepFill" /\ writer' = "fill"
             \/ writer = "sleepSum" /\ writer' = "sum"
          /\ UNCHANGED <<full, data, queued, writeIt, sent, crc>>
      BY <1>13 DEF Crc!NotifyWriter
    <2>2. /\ ReadPos' = ReadPos + 1 /\ UNCHANGED <<Published, Released, WritePos>>
      BY <1>1, <2>1 DEF Published, Released, WritePos, ReadPos
    <2>3. readIt' = ReadPos' % QueueSize
      BY <1>0, <1>1, <1>2, <2>1, <2>2, NextBuffer DEF Crc!After
    <2>4. CountersInv'
      BY <1>1, <2>1, <2>2 DEF CountersInv
    <2>5. RingInv'
      BY <1>2, <2>1, <2>2, <2>3 DEF RingInv, Crc!Buffers
    <2> QED BY <2>4, <2>5
  <1>14. ASSUME Crc!Spurious PROVE CountersInv' /\ RingInv'
    BY <1>14, RingKept DEF Crc!Spurious, Published, Released, WritePos, ReadPos, CrcInv,
       CountersInv
  <1>15. CASE UNCHANGED Crc!crcVars
    BY <1>15, RingKept DEF Crc!crcVars, Published, Released, WritePos, ReadPos, CrcInv,
       CountersInv
  <1> QED BY <1>3, <1>4, <1>5, <1>6, <1>7, <1>8, <1>9, <1>10, <1>11, <1>12, <1>13,
             <1>14, <1>15 DEF Crc!Next

\* The threads and the result.
LEMMA CrcThreadStep ==
  ASSUME Crc!RingAssumption, CrcInv, [Crc!Next]_(Crc!crcVars)
  PROVE  ThreadInv'
PROOF
  <1>0. /\ finished \in BOOLEAN
        /\ writer \in {"idle", "fill", "publish", "notify", "sum", "sleepFill", "sleepSum",
                       "finish", "join", "done"}
        /\ worker \in {"look", "sleep", "update", "release", "notify", "exit"}
    BY DEF CrcInv, Crc!TypeOK
  <1>1. /\ Published \in Nat /\ Released \in Nat /\ Released <= Published
        /\ queued = Published - Released /\ sent \in Nat /\ crc \in Seq(Int)
        /\ worker \in {"update", "release"} => Released < Published
    BY DEF CrcInv, CountersInv
  <1>2. ThreadInv
    BY DEF CrcInv
  <1>3. ASSUME Crc!Call PROVE ThreadInv'
    <2>1. UNCHANGED <<Published, Released>>
      BY <1>3 DEF Crc!Call, Published, Released
    <2> QED BY <1>0, <1>2, <1>3, <2>1 DEF Crc!Call, ThreadInv
  <1>4. ASSUME Crc!Fill PROVE ThreadInv'
    <2>1. UNCHANGED <<Published, Released>>
      BY <1>1, <1>4 DEF Crc!Fill, Published, Released
    <2>2. full[writeIt] => Released < Published
      <3>1. ASSUME full[writeIt] PROVE Released < Published
        <4>1. PICK p \in Released..(Published - 1) : writeIt = p % QueueSize
          BY <3>1 DEF CrcInv, Crc!TypeOK, RingInv
        <4> QED BY <1>1, <4>1
      <3> QED BY <3>1
    <2> QED BY <1>0, <1>1, <1>2, <1>4, <2>1, <2>2 DEF Crc!Fill, ThreadInv
  <1>5. ASSUME Crc!Publish PROVE ThreadInv'
    <2>1. Published' = Published + 1 /\ Released' = Released
      BY <1>1, <1>5 DEF Crc!Publish, Published, Released
    <2> QED BY <1>0, <1>1, <1>2, <1>5, <2>1 DEF Crc!Publish, ThreadInv
  <1>6. ASSUME Crc!NotifyReader PROVE ThreadInv'
    <2>1. UNCHANGED <<Published, Released>>
      BY <1>6 DEF Crc!NotifyReader, Published, Released
    <2> QED BY <1>0, <1>2, <1>6, <2>1 DEF Crc!NotifyReader, ThreadInv
  <1>7. ASSUME Crc!Sum PROVE ThreadInv'
    <2>1. UNCHANGED <<Published, Released>>
      BY <1>7 DEF Crc!Sum, Published, Released
    <2>2. CASE queued > 0
      BY <1>0, <1>1, <1>2, <1>7, <2>1, <2>2 DEF Crc!Sum, ThreadInv
    <2>3. CASE ~(queued > 0)
      <3>1. Released = Published
        BY <1>1, <2>3
      <3>2. Len(crc) = sent
        BY <1>1, <1>7, <3>1 DEF Crc!Sum, Published, Released
      <3>3. crc = [k \in 1..sent |-> k]
        BY <1>1, <3>2 DEF CrcInv, RingInv
      <3> QED BY <1>0, <1>2, <1>7, <2>1, <2>3, <3>3 DEF Crc!Sum, ThreadInv
    <2> QED BY <2>2, <2>3
  <1>8. ASSUME Crc!Finish PROVE ThreadInv'
    <2>1. UNCHANGED <<Published, Released>>
      BY <1>8 DEF Crc!Finish, Published, Released
    <2> QED BY <1>0, <1>2, <1>8, <2>1 DEF Crc!Finish, ThreadInv
  <1>9. ASSUME Crc!Join PROVE ThreadInv'
    <2>1. UNCHANGED <<Published, Released>>
      BY <1>9 DEF Crc!Join, Published, Released
    <2> QED BY <1>0, <1>2, <1>9, <2>1 DEF Crc!Join, ThreadInv
  <1>10. ASSUME Crc!Look PROVE ThreadInv'
    <2>1. UNCHANGED <<Published, Released>> /\ ReadPos = Released
      BY <1>10 DEF Crc!Look, Published, Released, ReadPos
    <2>2. full[readIt] <=> Released < Published
      BY <2>1, ReaderSees
    <2> QED BY <1>0, <1>1, <1>2, <1>10, <2>1, <2>2 DEF Crc!Look, ThreadInv
  <1>11. ASSUME Crc!UpdateSum PROVE ThreadInv'
    <2>1. UNCHANGED <<Published, Released>>
      BY <1>1, <1>11 DEF Crc!UpdateSum, Published, Released
    <2> QED BY <1>0, <1>2, <1>11, <2>1 DEF Crc!UpdateSum, ThreadInv
  <1>12. ASSUME Crc!Release PROVE ThreadInv'
    <2>1. UNCHANGED Published
      BY <1>12 DEF Crc!Release, Published
    <2> QED BY <1>0, <1>2, <1>12, <2>1 DEF Crc!Release, ThreadInv
  <1>13. ASSUME Crc!NotifyWriter PROVE ThreadInv'
    <2>1. UNCHANGED <<Published, Released>>
      BY <1>13 DEF Crc!NotifyWriter, Published, Released
    <2> QED BY <1>0, <1>2, <1>13, <2>1 DEF Crc!NotifyWriter, ThreadInv
  <1>14. ASSUME Crc!Spurious PROVE ThreadInv'
    <2>1. UNCHANGED <<Published, Released>>
      BY <1>14 DEF Crc!Spurious, Published, Released
    <2> QED BY <1>0, <1>2, <1>14, <2>1 DEF Crc!Spurious, ThreadInv
  <1>15. CASE UNCHANGED Crc!crcVars
    <2>1. UNCHANGED <<Published, Released>>
      BY <1>15 DEF Crc!crcVars, Published, Released
    <2> QED BY <1>2, <1>15, <2>1 DEF Crc!crcVars, ThreadInv
  <1> QED BY <1>3, <1>4, <1>5, <1>6, <1>7, <1>8, <1>9, <1>10, <1>11, <1>12, <1>13,
             <1>14, <1>15 DEF Crc!Next

-----------------------------------------------------------------------------
(* The theorems *)

\* The invariant holds at the start.
LEMMA CrcInit == Crc!RingAssumption /\ Crc!Init => CrcInv
PROOF
  <1> SUFFICES ASSUME Crc!RingAssumption, Crc!Init PROVE CrcInv
    OBVIOUS
  <1>0. QueueSize \in Nat \ {0} /\ MaxBlocks \in Nat
    BY DEF Crc!RingAssumption
  <1>1. Published = 0 /\ Released = 0 /\ WritePos = 0 /\ ReadPos = 0
    BY DEF Crc!Init, Published, Released, WritePos, ReadPos
  <1>2. 0 % QueueSize = 0
    BY <1>0, PositionUnique
  <1>3. Crc!TypeOK
    <2>1. 0 \in Crc!Buffers /\ 0 \in 0..MaxBlocks
      BY <1>0 DEF Crc!Buffers
    <2>2. full \in [Crc!Buffers -> BOOLEAN] /\ data \in [Crc!Buffers -> 0..MaxBlocks]
      BY <2>1 DEF Crc!Init
    <2> QED BY <2>1, <2>2 DEF Crc!Init, Crc!TypeOK
  <1>4. CountersInv
    BY <1>0, <1>1 DEF Crc!Init, CountersInv
  <1>5. RingInv
    BY <1>0, <1>1, <1>2 DEF Crc!Init, RingInv
  <1>6. ThreadInv
    BY DEF Crc!Init, ThreadInv
  <1> QED BY <1>3, <1>4, <1>5, <1>6 DEF CrcInv

\* The invariant holds throughout, for a ring of any size.
THEOREM CrcInvariance == Crc!RingAssumption => (Crc!Spec => []CrcInv)
PROOF
  <1> SUFFICES ASSUME Crc!RingAssumption PROVE Crc!Spec => []CrcInv
    OBVIOUS
  <1>1. Crc!Init => CrcInv
    BY CrcInit
  <1>2. CrcInv /\ [Crc!Next]_(Crc!crcVars) => CrcInv'
    BY CrcTypeStep, CrcRingStep, CrcThreadStep DEF CrcInv
  <1> QED BY <1>1, <1>2, PTL DEF Crc!Spec

\* The checksum covers all blocks of the upload, each once and in order; no
\* block is overwritten before it is summed and no buffer is filled while it is
\* read; and neither thread sleeps while the other waits for it.
THEOREM ChecksumCorrect == Crc!RingAssumption => (Crc!Spec => []Crc!ChecksumSound)
PROOF
  <1> SUFFICES ASSUME Crc!RingAssumption PROVE Crc!Spec => []Crc!ChecksumSound
    OBVIOUS
  <1>1. CrcInv => Crc!ChecksumSound
    <2> SUFFICES ASSUME CrcInv PROVE Crc!ChecksumSound
      OBVIOUS
    <2>1. Crc!ChecksumComplete
      BY DEF CrcInv, ThreadInv, Crc!ChecksumComplete
    <2>2. writer = "publish" /\ worker \in {"update", "release"} => readIt # writeIt
      <3> SUFFICES ASSUME writer = "publish", worker \in {"update", "release"}
                   PROVE  full[readIt] /\ ~full[writeIt]
        OBVIOUS
      <3>1. ReadPos = Released
        BY DEF ReadPos, Released
      <3>2. Released < Published
        BY DEF CrcInv, CountersInv
      <3> QED BY <3>1, <3>2, ReaderSees DEF CrcInv, RingInv
    <2>3. Crc!NoOverwrite
      BY <2>2 DEF Crc!NoOverwrite, CrcInv, RingInv
    <2>4. Crc!NoSleepTogether
      <3>1. Released \in Nat /\ Published \in Nat
        BY DEF CrcInv, CountersInv
      <3>2. writer \in {"sleepFill", "sleepSum", "join"} => worker # "sleep"
        BY <3>1 DEF CrcInv, ThreadInv
      <3>3. worker = "exit" => writer \in {"join", "done"}
        BY DEF CrcInv, ThreadInv
      <3>4. writer = "done" => \A b \in Crc!Buffers : ~full[b]
        <4>1. writer = "done" => Released..(Published - 1) = {}
          BY <3>1 DEF CrcInv, ThreadInv
        <4> QED BY <4>1 DEF CrcInv, RingInv
      <3> QED BY <3>2, <3>3, <3>4 DEF Crc!NoSleepTogether
    <2> QED BY <2>1, <2>3, <2>4 DEF Crc!ChecksumSound, CrcInv
  <1> QED BY <1>1, CrcInvariance, PTL

\* The asserts of Main and Update on the unsigned member pending: it never
\* exceeds the size of the ring and is never decremented below zero.
PendingFits == queued \in 0..QueueSize

\* They never fail.
THEOREM PendingBounded == Crc!RingAssumption => (Crc!Spec => []PendingFits)
PROOF
  <1> SUFFICES ASSUME Crc!RingAssumption PROVE Crc!Spec => []PendingFits
    OBVIOUS
  <1>1. CrcInv => PendingFits
    BY DEF Crc!RingAssumption, CrcInv, CountersInv, PendingFits
  <1> QED BY <1>1, CrcInvariance, PTL

-----------------------------------------------------------------------------
(* DataConnection: the inductive invariants *)

PassiveTypes == {"PASV", "EPSV", "LPSV", "CPSV"}
Sockets == [peer : {"own", "other"}, tls : BOOLEAN]

\* What a client holds in each step.
StepShape(s) ==
  \/ s = Dat!Idle
  \/ /\ s.at \in {"addr", "take", "port"} /\ s.type \in PassiveTypes
     /\ s = [at |-> s.at, type |-> s.type, first |-> s.first, ip |-> s.ip, port |-> s.port,
             tried |-> s.tried]
  \/ s.at \in {"accept", "open"} /\ s = [at |-> s.at, type |-> s.type]
  \/ s.at = "run" /\ s = [at |-> s.at, type |-> s.type, role |-> s.role, offset |-> s.offset]

DataTypes ==
  /\ protection \in [Clients -> BOOLEAN] /\ pasvType \in [Clients -> PassiveTypes \cup {"None"}]
  /\ restartOffset \in [Clients -> {0, 1}] /\ applied \in [Clients -> Nat]
  /\ sock \in [Clients -> Sockets \cup {Dat!Closed}]
  /\ listener = [c \in Clients |-> listener[c]]
  /\ pending \in [Clients -> SUBSET {"own", "other"}]
  /\ step = [c \in Clients |-> step[c]] /\ \A c \in Clients : StepShape(step[c])
  /\ reloads \in Nat /\ ports \in PortConfigs /\ addrs \in AddrConfigs
  /\ asserted \subseteq Clients /\ failed \subseteq Clients /\ disturbed \subseteq Clients

\* Who the settings oblige to use TLS for what runs.
Obliged(c) ==
  IF step[c].type = "List" THEN TLSListing ELSE IF sock[c].peer = "other" THEN TLSFxp ELSE TLSData

\* A transfer has a socket, with TLS where that is enforced; an offset that was
\* applied is gone with the transfer; a client without a listener whose type says
\* passive is looking for one or has failed to find one.
OpenInv(c) ==
  /\ step[c].at \in {"open", "run"} => sock[c] \in Sockets
  /\ step[c].at = "run" /\ ~sock[c].tls => c \notin Obliged(c)
  /\ applied[c] <= 1 /\ (applied[c] # 0 /\ step[c].at # "run" => restartOffset[c] = 0)
  /\ c \in asserted => c \in failed /\ step[c] = Dat!Idle
  /\ pasvType[c] # "None" /\ listener[c] = Dat!Closed => c \in failed \/ Dat!Allocating(c)

\* The iterators of the allocators; only the first range can have a next port that
\* lies before it, left over from before a reload.
CursorInv ==
  /\ addrIt \in Nat \ {0} /\ nextPort \in Nat
  /\ ports # <<>> =>
       /\ portIt \in DOMAIN ports
       /\ nextPort = 0 \/ ports[portIt].from < nextPort \/ (portIt = 1 /\ reloads # 0)

\* Of configured ports, none below the lowest, those that a loop has tried since its
\* first: those from the first to the last, or those around them.
ArcOf(C, low, first, last, tried) ==
  /\ first \in C \/ first < low
  /\ first <= last => \A p \in C : first <= p /\ p <= last => p \in tried
  /\ first > last => /\ low <= last
                    /\ \A p \in C : first <= p \/ p <= last => p \in tried

\* The last port that NextPort returned lies in the range at hand, or before the first.
LastPort == nextPort - 1
Fresh ==
  /\ nextPort # 0 /\ LastPort <= ports[portIt].to
  /\ ports[portIt].from <= LastPort \/ portIt = 1
Arc(c) == ArcOf(Dat!ConfiguredPorts, ports[1].from, step[c].port, LastPort, step[c].tried)

\* A client alone in its loop: an address of its family or none yet, an iterator in
\* its list, and every port since the first one tried.
LoopInv(c) ==
  c \notin disturbed =>
    /\ step[c].at = "port" /\ step[c].type # "PASV" =>
         step[c].ip = Dat!Default \/ step[c].ip.fam = Family[c]
    /\ step[c].at \in {"addr", "take"} => step[c].port = -1
    /\ step[c].at \in {"addr", "take"} /\ addrs = <<>> => step[c].ip = Dat!Default
    /\ step[c].at = "take" => addrIt \in 1 .. Len(addrs)
    /\ step[c].at = "port" /\ step[c].port # -1 =>
         ports # <<>> /\ step[c].port \in Nat /\ Fresh /\ Arc(c)

\* What a listener has from its loop.
ListenInv(c) ==
  listener[c] # Dat!Closed =>
    /\ c \notin disturbed /\ listener[c].type # "PASV" => listener[c].ip.fam = Family[c]
    /\ reloads = 0 /\ ports # <<>> => listener[c].port \in Dat!ConfiguredPorts

TransferInv == DataTypes /\ \A c \in Clients : OpenInv(c)
AllocInv == CursorInv /\ ~wild /\ ~gaveUp /\ \A c \in Clients : LoopInv(c) /\ ListenInv(c)

-----------------------------------------------------------------------------
(* PortAllocatorImpl *)

\* The ranges that are configured.
LEMMA Ranges ==
  ASSUME Dat!DataAssumption, ports \in PortConfigs
  PROVE  /\ Len(ports) \in Nat /\ DOMAIN ports = 1 .. Len(ports)
         /\ ports # <<>> => 1 \in DOMAIN ports
         /\ \A i \in DOMAIN ports :
              /\ ports[i].from \in Nat \ {0} /\ ports[i].to \in Nat
              /\ ports[i].from <= ports[i].to
PROOF
  <1>1. /\ ports \in Seq([from : Nat \ {0}, to : Nat])
        /\ \A i \in DOMAIN ports : ports[i].from <= ports[i].to
    BY DEF Dat!DataAssumption
  <1>2. Len(ports) \in Nat /\ DOMAIN ports = 1 .. Len(ports)
    BY <1>1
  <1>3. ports # <<>> => Len(ports) # 0
    BY <1>1
  <1>4. ASSUME NEW i \in DOMAIN ports PROVE ports[i] \in [from : Nat \ {0}, to : Nat]
    <2> DEFINE R == [from : Nat \ {0}, to : Nat]
    <2>1. ports \in Seq(R)
      BY <1>1
    <2> HIDE DEF R
    <2>2. ports[i] \in R
      BY <1>2, <1>4, <2>1
    <2> QED BY <2>2 DEF R
  <1> QED BY <1>1, <1>2, <1>3, <1>4

\* The three ways of NextPort: the beginning of the range at hand, the next port of
\* it, or the beginning of the range that follows.
LEMMA NextPortWays ==
  ASSUME Dat!DataAssumption, ports \in PortConfigs, CursorInv, ports # <<>>
  PROVE  LET n == Dat!NextPort
             following == IF portIt = Len(ports) THEN 1 ELSE portIt + 1 IN
         /\ n.next = n.port + 1 /\ following \in DOMAIN ports
         /\ \/ nextPort = 0 /\ n.it = portIt /\ n.port = ports[portIt].from
            \/ /\ nextPort # 0 /\ nextPort <= ports[portIt].to
               /\ n.it = portIt /\ n.port = nextPort
            \/ /\ nextPort # 0 /\ nextPort > ports[portIt].to
               /\ n.it = following /\ n.port = ports[following].from
PROOF
  <1> DEFINE following == IF portIt = Len(ports) THEN 1 ELSE portIt + 1
             n == Dat!NextPort
  <1>0. /\ Len(ports) \in Nat /\ DOMAIN ports = 1 .. Len(ports) /\ 1 \in DOMAIN ports
        /\ portIt \in DOMAIN ports /\ nextPort \in Nat
        /\ \A i \in DOMAIN ports : ports[i].from \in Nat \ {0} /\ ports[i].to \in Nat
    BY Ranges DEF CursorInv
  <1>1. following \in DOMAIN ports
    BY <1>0
  <1>2. CASE nextPort = 0
    <2>1. n = [port |-> ports[portIt].from, it |-> portIt, next |-> ports[portIt].from + 1]
      BY <1>0, <1>2 DEF Dat!NextPort
    <2> QED BY <1>1, <1>2, <2>1
  <1>3. CASE nextPort # 0 /\ nextPort <= ports[portIt].to
    <2>1. n = [port |-> nextPort, it |-> portIt, next |-> nextPort + 1]
      BY <1>0, <1>3 DEF Dat!NextPort
    <2> QED BY <1>1, <1>3, <2>1
  <1>4. CASE nextPort # 0 /\ nextPort > ports[portIt].to
    <2>1. n = [port |-> ports[following].from, it |-> following, next |-> ports[following].from + 1]
      BY <1>0, <1>4 DEF Dat!NextPort
    <2> QED BY <1>1, <1>4, <2>1
  <1> QED BY <1>0, <1>2, <1>3, <1>4

\* Where NextPort leaves the iterators.
LEMMA NextPortPlace ==
  ASSUME Dat!DataAssumption, ports \in PortConfigs, CursorInv, ports # <<>>
  PROVE  LET n == Dat!NextPort IN
         /\ n.it \in DOMAIN ports /\ n.port \in Nat \ {0} /\ n.next = n.port + 1
         /\ n.port <= ports[n.it].to
         /\ ports[n.it].from <= n.port \/ (n.it = 1 /\ reloads # 0 /\ n.port < ports[1].from)
PROOF
  <1> DEFINE n == Dat!NextPort
  <1>0. /\ \A i \in DOMAIN ports :
             /\ ports[i].from \in Nat \ {0} /\ ports[i].to \in Nat
             /\ ports[i].from <= ports[i].to
        /\ portIt \in DOMAIN ports /\ nextPort \in Nat
        /\ nextPort = 0 \/ ports[portIt].from < nextPort \/ (portIt = 1 /\ reloads # 0)
    BY Ranges DEF CursorInv
  <1>1. n.next = n.port + 1
    BY NextPortWays
  <1> HIDE DEF n
  <1>2. \/ n.it \in DOMAIN ports /\ n.port = ports[n.it].from
        \/ nextPort # 0 /\ nextPort <= ports[portIt].to /\ n.it = portIt /\ n.port = nextPort
    BY <1>0, NextPortWays DEF n
  <1>3. CASE n.it \in DOMAIN ports /\ n.port = ports[n.it].from
    BY <1>0, <1>1, <1>3 DEF n
  <1>4. CASE nextPort # 0 /\ nextPort <= ports[portIt].to /\ n.it = portIt /\ n.port = nextPort
    BY <1>0, <1>1, <1>4 DEF n
  <1> QED BY <1>2, <1>3, <1>4

\* In ascending ranges the port after the last one is the next that is configured, or
\* the first of all when no higher one is.
LEMMA NextPortOrder ==
  ASSUME Dat!DataAssumption, Dat!AscendingRanges, ports \in PortConfigs, CursorInv,
         ports # <<>>, Fresh
  PROVE  LET n == Dat!NextPort IN
         /\ \A p \in Dat!ConfiguredPorts : p \in Nat /\ ports[1].from <= p
         /\ \/ n.port > LastPort /\ \A p \in Dat!ConfiguredPorts : ~(LastPort < p /\ p < n.port)
            \/ n.port = ports[1].from /\ \A p \in Dat!ConfiguredPorts : p <= LastPort
PROOF
  <1> DEFINE n == Dat!NextPort
             following == IF portIt = Len(ports) THEN 1 ELSE portIt + 1
  <1>0. /\ Len(ports) \in Nat /\ DOMAIN ports = 1 .. Len(ports) /\ 1 \in DOMAIN ports
        /\ \A i \in DOMAIN ports :
             /\ ports[i].from \in Nat \ {0} /\ ports[i].to \in Nat
             /\ ports[i].from <= ports[i].to
        /\ portIt \in DOMAIN ports /\ nextPort \in Nat \ {0}
        /\ LastPort = nextPort - 1 /\ LastPort <= ports[portIt].to
        /\ ports[portIt].from <= LastPort \/ portIt = 1
    BY Ranges DEF CursorInv, Fresh, LastPort
  <1>1. \A i, j \in DOMAIN ports : i < j => ports[i].to < ports[j].from
    BY DEF Dat!AscendingRanges
  <1>2. \A p \in Dat!ConfiguredPorts : \E i \in DOMAIN ports : p \in ports[i].from .. ports[i].to
    BY DEF Dat!ConfiguredPorts, Dat!PortRange
  <1>3. ASSUME NEW p \in Dat!ConfiguredPorts PROVE p \in Nat /\ ports[1].from <= p
    <2>1. PICK i \in DOMAIN ports : p \in ports[i].from .. ports[i].to
      BY <1>2
    <2>2. i = 1 \/ ports[1].to < ports[i].from
      <3>1. i \in 1 .. Len(ports) /\ Len(ports) \in Nat /\ 1 \in DOMAIN ports
        BY <1>0
      <3>2. i = 1 \/ 1 < i
        BY <3>1
      <3> QED BY <1>1, <3>1, <3>2
    <2> QED BY <1>0, <2>1, <2>2
  <1>4. CASE nextPort <= ports[portIt].to
    <2>1. n.port = nextPort
      BY <1>0, <1>4, NextPortWays
    <2> QED BY <1>0, <1>3, <2>1
  <1>5. CASE nextPort > ports[portIt].to /\ portIt = Len(ports)
    <2>1. n.port = ports[1].from
      BY <1>0, <1>5, NextPortWays
    <2>2. ASSUME NEW p \in Dat!ConfiguredPorts PROVE p <= LastPort
      <3>1. PICK i \in DOMAIN ports : p \in ports[i].from .. ports[i].to
        BY <1>2
      <3>2. i = portIt \/ ports[i].to < ports[portIt].from
        BY <1>0, <1>1, <1>5
      <3> QED BY <1>0, <1>5, <3>1, <3>2
    <2> QED BY <1>3, <2>1, <2>2
  <1>6. CASE nextPort > ports[portIt].to /\ portIt # Len(ports)
    <2>1. portIt + 1 \in DOMAIN ports /\ n.port = ports[portIt + 1].from
      BY <1>0, <1>6, NextPortWays
    <2>2. n.port > LastPort
      BY <1>0, <1>1, <2>1
    <2>3. ASSUME NEW p \in Dat!ConfiguredPorts, LastPort < p, p < n.port PROVE FALSE
      <3>1. PICK i \in DOMAIN ports : p \in ports[i].from .. ports[i].to
        BY <1>2
      <3>2. i <= portIt \/ i = portIt + 1 \/ portIt + 1 < i
        BY <1>0
      <3>3. i <= portIt => ports[i].to <= ports[portIt].to
        BY <1>0, <1>1
      <3>4. portIt + 1 < i => ports[portIt + 1].from <= ports[i].from
        BY <1>0, <1>1, <2>1
      <3> QED BY <1>0, <1>6, <2>1, <2>3, <3>1, <3>2, <3>3, <3>4
    <2> QED BY <1>3, <2>2, <2>3
  <1> QED BY <1>0, <1>4, <1>5, <1>6

-----------------------------------------------------------------------------
(* A step of one client *)

\* The loop of InitPassive, the other commands that prepare a connection, and the
\* steps of a transfer.
LoopStep(c) == Dat!NextAddr(c) \/ Dat!TakeAddr(c) \/ Dat!Listen(c)
CommandStep(c) ==
  \/ \E t \in PassiveTypes : Dat!InitPassive(c, t)
  \/ Dat!InitActive(c) \/ Dat!Settings(c) \/ Dat!REST(c)
  \/ \E t \in {"List", "Upload", "Download"} : Dat!Open(c, t)
TransferStep(c) == Dat!PeerConnects(c) \/ Dat!Accept(c) \/ Dat!Opened(c) \/ Dat!Finish(c)
ReloadStep == Dat!SetPorts \/ Dat!SetAddrs

\* These are all steps.
LEMMA DataSteps ==
  ASSUME [Dat!Next]_(Dat!dataVars)
  PROVE  \/ \E c \in Clients : LoopStep(c) \/ CommandStep(c) \/ TransferStep(c)
         \/ ReloadStep \/ UNCHANGED Dat!dataVars
PROOF BY DEF Dat!Next, LoopStep, CommandStep, TransferStep, ReloadStep, PassiveTypes

\* What belongs to one client stays as it is.
Same(c) ==
  /\ step'[c] = step[c] /\ sock'[c] = sock[c] /\ listener'[c] = listener[c]
  /\ pasvType'[c] = pasvType[c] /\ restartOffset'[c] = restartOffset[c]
  /\ applied'[c] = applied[c]
  /\ (c \in asserted' <=> c \in asserted) /\ (c \in failed' <=> c \in failed)

\* A step of one client leaves the others what belongs to them.
LEMMA OthersSame ==
  ASSUME DataTypes, NEW d \in Clients, LoopStep(d) \/ CommandStep(d) \/ TransferStep(d),
         NEW c \in Clients, c # d
  PROVE  Same(c)
PROOF
  <1>0. /\ DOMAIN sock = Clients /\ DOMAIN pasvType = Clients /\ DOMAIN restartOffset = Clients
        /\ DOMAIN applied = Clients /\ DOMAIN listener = Clients /\ DOMAIN step = Clients
    BY DEF DataTypes
  <1>1. CASE LoopStep(d)
    BY <1>0, <1>1 DEF LoopStep, Dat!NextAddr, Dat!TakeAddr, Dat!Listen, Dat!Go, Dat!GiveUp, Same,
       Dat!connVars
  <1>2. CASE CommandStep(d)
    <2>1. CASE \E t \in PassiveTypes : Dat!InitPassive(d, t)
      BY <1>0, <2>1 DEF Dat!InitPassive, Dat!Go, Same
    <2>2. CASE Dat!InitActive(d) \/ Dat!Settings(d) \/ Dat!REST(d)
      BY <1>0, <2>2 DEF Dat!InitActive, Dat!Settings, Dat!REST, Same, Dat!historyVars
    <2>3. CASE \E t \in {"List", "Upload", "Download"} : Dat!Open(d, t)
      BY <1>0, <2>3 DEF Dat!Open, Dat!Go, Same, Dat!connVars
    <2> QED BY <1>2, <2>1, <2>2, <2>3 DEF CommandStep
  <1>3. CASE TransferStep(d)
    BY <1>0, <1>3 DEF TransferStep, Dat!PeerConnects, Dat!Accept, Dat!Opened, Dat!Finish,
       Dat!Close, Dat!Go, Same, Dat!historyVars
  <1> QED BY <1>1, <1>2, <1>3

\* What belongs to a client and is kept keeps its invariant.
LEMMA SameOpen ==
  ASSUME NEW c \in Clients, OpenInv(c), Same(c)
  PROVE  OpenInv(c)'
PROOF BY DEF OpenInv, Same, Obliged, Dat!Allocating

\* What TakeAddr and Listen change of the record of their loop.
Taken(s, a, i, f) == [s EXCEPT !.at = a, !.ip = i, !.first = f]
Listened(s, p, i, d) == [s EXCEPT !.port = p, !.ip = i, !.tried = d]

\* TakeAddr keeps the other fields.
LEMMA TakeRecord ==
  ASSUME NEW s, s = [at |-> s.at, type |-> s.type, first |-> s.first, ip |-> s.ip, port |-> s.port,
                     tried |-> s.tried],
         NEW a, NEW i, NEW f
  PROVE  Taken(s, a, i, f)
           = [at |-> a, type |-> s.type, first |-> f, ip |-> i, port |-> s.port, tried |-> s.tried]
PROOF
  <1> DEFINE a0 == s.at  t0 == s.type  f0 == s.first  i0 == s.ip  p0 == s.port  d0 == s.tried
  <1>0. s = [at |-> a0, type |-> t0, first |-> f0, ip |-> i0, port |-> p0, tried |-> d0]
    OBVIOUS
  <1> HIDE DEF a0, t0, f0, i0, p0, d0
  <1>1. [s EXCEPT !.at = a, !.ip = i, !.first = f]
          = [[[s EXCEPT !.at = a] EXCEPT !.ip = i] EXCEPT !.first = f]
    BY <1>0
  <1>2. [s EXCEPT !.at = a]
          = [at |-> a, type |-> t0, first |-> f0, ip |-> i0, port |-> p0, tried |-> d0]
    BY <1>0
  <1>3. [[at |-> a, type |-> t0, first |-> f0, ip |-> i0, port |-> p0, tried |-> d0] EXCEPT !.ip = i]
          = [at |-> a, type |-> t0, first |-> f0, ip |-> i, port |-> p0, tried |-> d0]
    OBVIOUS
  <1>4. [[at |-> a, type |-> t0, first |-> f0, ip |-> i, port |-> p0, tried |-> d0] EXCEPT !.first = f]
          = [at |-> a, type |-> t0, first |-> f, ip |-> i, port |-> p0, tried |-> d0]
    OBVIOUS
  <1> QED BY <1>1, <1>2, <1>3, <1>4, Zenon DEF Taken, a0, t0, f0, i0, p0, d0

\* Listen keeps the other fields.
LEMMA ListenRecord ==
  ASSUME NEW s, s = [at |-> s.at, type |-> s.type, first |-> s.first, ip |-> s.ip, port |-> s.port,
                     tried |-> s.tried],
         NEW p, NEW i, NEW d
  PROVE  Listened(s, p, i, d)
           = [at |-> s.at, type |-> s.type, first |-> s.first, ip |-> i, port |-> p, tried |-> d]
PROOF
  <1> DEFINE a0 == s.at  t0 == s.type  f0 == s.first  i0 == s.ip  p0 == s.port  d0 == s.tried
  <1>0. s = [at |-> a0, type |-> t0, first |-> f0, ip |-> i0, port |-> p0, tried |-> d0]
    OBVIOUS
  <1> HIDE DEF a0, t0, f0, i0, p0, d0
  <1>1. [s EXCEPT !.port = p, !.ip = i, !.tried = d]
          = [[[s EXCEPT !.port = p] EXCEPT !.ip = i] EXCEPT !.tried = d]
    BY <1>0
  <1>2. [s EXCEPT !.port = p]
          = [at |-> a0, type |-> t0, first |-> f0, ip |-> i0, port |-> p, tried |-> d0]
    BY <1>0
  <1>3. [[at |-> a0, type |-> t0, first |-> f0, ip |-> i0, port |-> p, tried |-> d0] EXCEPT !.ip = i]
          = [at |-> a0, type |-> t0, first |-> f0, ip |-> i, port |-> p, tried |-> d0]
    OBVIOUS
  <1>4. [[at |-> a0, type |-> t0, first |-> f0, ip |-> i, port |-> p, tried |-> d0] EXCEPT !.tried = d]
          = [at |-> a0, type |-> t0, first |-> f0, ip |-> i, port |-> p, tried |-> d]
    OBVIOUS
  <1> QED BY <1>1, <1>2, <1>3, <1>4, Zenon DEF Listened, a0, t0, f0, i0, p0, d0

\* What a client in its loop holds.
LEMMA LoopShape ==
  ASSUME DataTypes, NEW d \in Clients, LoopStep(d)
  PROVE  LET s == step[d] IN
         /\ s.at \in {"addr", "take", "port"} /\ s.type \in PassiveTypes
         /\ s = [at |-> s.at, type |-> s.type, first |-> s.first, ip |-> s.ip, port |-> s.port,
                 tried |-> s.tried]
PROOF
  <1> DEFINE s == step[d]
  <1>1. s.at \in {"addr", "take", "port"}
    BY DEF LoopStep, Dat!NextAddr, Dat!TakeAddr, Dat!Listen
  <1>2. StepShape(s)
    BY DEF DataTypes
  <1>3. s # Dat!Idle
    BY <1>1 DEF Dat!Idle
  <1> HIDE DEF s
  <1>4. /\ s.type \in PassiveTypes
        /\ s = [at |-> s.at, type |-> s.type, first |-> s.first, ip |-> s.ip, port |-> s.port,
                tried |-> s.tried]
    BY <1>1, <1>2, <1>3 DEF StepShape
  <1> QED BY <1>1, <1>4 DEF s

\* A client is in one of its steps after each of them.
LEMMA ShapeKept ==
  ASSUME DataTypes, NEW d \in Clients, LoopStep(d) \/ CommandStep(d) \/ TransferStep(d)
  PROVE  StepShape(step'[d]) /\ step' = [c \in Clients |-> step'[c]]
PROOF
  <1>0. step = [c \in Clients |-> step[c]] /\ StepShape(step[d])
    BY DEF DataTypes
  <1>1. ASSUME NEW s, Dat!Go(d, s), StepShape(s)
        PROVE  StepShape(step'[d]) /\ step' = [c \in Clients |-> step'[c]]
    <2>1. step' = [step EXCEPT ![d] = s]
      BY <1>1 DEF Dat!Go
    <2>2. step'[d] = s /\ step' = [c \in Clients |-> step'[c]]
      BY <1>0, <2>1
    <2> QED BY <1>1, <2>2
  <1>2. StepShape(Dat!Idle)
    BY DEF StepShape
  <1>3. CASE LoopStep(d)
    <2> DEFINE s == step[d]
    <2>1. /\ s.at \in {"addr", "take", "port"} /\ s.type \in PassiveTypes
          /\ s = [at |-> s.at, type |-> s.type, first |-> s.first, ip |-> s.ip, port |-> s.port,
                  tried |-> s.tried]
      BY <1>3, LoopShape
    <2>2. ASSUME NEW a \in {"addr", "take", "port"}, NEW first, NEW ip, NEW port, NEW tried
          PROVE  StepShape([at |-> a, type |-> s.type, first |-> first, ip |-> ip, port |-> port,
                            tried |-> tried])
      BY <2>1 DEF StepShape
    <2>3. CASE Dat!NextAddr(d)
      <3>1. \E a \in {"take", "port"} : Dat!Go(d, [s EXCEPT !.at = a])
        BY <2>3 DEF Dat!NextAddr
      <3>2. PICK a \in {"take", "port"} : Dat!Go(d, [s EXCEPT !.at = a])
        BY <3>1
      <3>3. [s EXCEPT !.at = a] = [at |-> a, type |-> s.type, first |-> s.first, ip |-> s.ip,
                                   port |-> s.port, tried |-> s.tried]
        BY <2>1
      <3>4. StepShape([s EXCEPT !.at = a])
        BY <2>2, <3>3
      <3> QED BY <1>1, <3>2, <3>4
    <2>4. CASE Dat!TakeAddr(d)
      <3>1. \/ Dat!Go(d, Dat!Idle)
            \/ \E a \in {"addr", "port"} : \E ip, f : Dat!Go(d, Taken(s, a, ip, f))
        BY <2>4 DEF Dat!TakeAddr, Dat!GiveUp, Taken
      <3>2. ASSUME NEW a \in {"addr", "port"}, NEW ip, NEW f PROVE StepShape(Taken(s, a, ip, f))
        <4>0. s = [at |-> s.at, type |-> s.type, first |-> s.first, ip |-> s.ip, port |-> s.port,
                   tried |-> s.tried]
          BY <2>1
        <4> HIDE DEF s
        <4>1. Taken(s, a, ip, f) = [at |-> a, type |-> s.type, first |-> f, ip |-> ip,
                                port |-> s.port, tried |-> s.tried]
          BY <4>0, TakeRecord
        <4> QED BY <2>2, <4>1
      <3> QED BY <1>1, <1>2, <3>1, <3>2
    <2>5. CASE Dat!Listen(d)
      <3>1. \/ Dat!Go(d, Dat!Idle)
            \/ \E p, ip, t : Dat!Go(d, Listened(s, p, ip, t))
        BY <2>5 DEF Dat!Listen, Dat!GiveUp, Listened
      <3>2. ASSUME NEW p, NEW ip, NEW t PROVE StepShape(Listened(s, p, ip, t))
        <4>0. s = [at |-> s.at, type |-> s.type, first |-> s.first, ip |-> s.ip, port |-> s.port,
                   tried |-> s.tried]
          BY <2>1
        <4> HIDE DEF s
        <4>1. Listened(s, p, ip, t) = [at |-> s.at, type |-> s.type, first |-> s.first, ip |-> ip,
                                port |-> p, tried |-> t]
          BY <4>0, ListenRecord, ZenonT(30)
        <4> QED BY <2>1, <2>2, <4>1
      <3> QED BY <1>1, <1>2, <3>1, <3>2
    <2> QED BY <1>3, <2>3, <2>4, <2>5 DEF LoopStep
  <1>4. CASE CommandStep(d)
    <2>1. ASSUME NEW t \in PassiveTypes, Dat!InitPassive(d, t)
          PROVE  StepShape(step'[d]) /\ step' = [c \in Clients |-> step'[c]]
      <3>1. PICK a \in {"addr", "port"} :
              Dat!Go(d, [at |-> a, type |-> t, first |-> Dat!Default, ip |-> Dat!Default,
                         port |-> -1, tried |-> {}])
        BY <2>1 DEF Dat!InitPassive
      <3>2. StepShape([at |-> a, type |-> t, first |-> Dat!Default, ip |-> Dat!Default,
                       port |-> -1, tried |-> {}])
        BY DEF StepShape
      <3> QED BY <1>1, <3>1, <3>2
    <2>2. CASE Dat!InitActive(d) \/ Dat!Settings(d) \/ Dat!REST(d)
      <3>1. step' = step
        BY <2>2 DEF Dat!InitActive, Dat!Settings, Dat!REST
      <3> QED BY <1>0, <3>1
    <2>3. ASSUME NEW t \in {"List", "Upload", "Download"}, Dat!Open(d, t)
          PROVE  StepShape(step'[d]) /\ step' = [c \in Clients |-> step'[c]]
      <3>1. \/ step' = step
            \/ \E a \in {"accept", "open"} : Dat!Go(d, [at |-> a, type |-> t])
        BY <2>3 DEF Dat!Open
      <3>2. \A a \in {"accept", "open"} : StepShape([at |-> a, type |-> t])
        BY DEF StepShape
      <3> QED BY <1>0, <1>1, <3>1, <3>2
    <2> QED BY <1>4, <2>1, <2>2, <2>3 DEF CommandStep
  <1>5. CASE TransferStep(d)
    <2>1. CASE Dat!PeerConnects(d)
      <3>1. step' = step
        BY <2>1 DEF Dat!PeerConnects
      <3> QED BY <1>0, <3>1
    <2>2. CASE Dat!Accept(d)
      <3>1. Dat!Go(d, Dat!Idle) \/ Dat!Go(d, [step[d] EXCEPT !.at = "open"])
        BY <2>2 DEF Dat!Accept
      <3>2. step[d] = [at |-> step[d].at, type |-> step[d].type]
        BY <1>0, <2>2 DEF Dat!Accept, StepShape, Dat!Idle
      <3>3. [step[d] EXCEPT !.at = "open"] = [at |-> "open", type |-> step[d].type]
        BY <3>2
      <3>4. StepShape([at |-> "open", type |-> step[d].type])
        BY DEF StepShape
      <3> QED BY <1>1, <1>2, <3>1, <3>3, <3>4
    <2>3. CASE Dat!Opened(d) \/ Dat!Finish(d)
      <3>1. \/ Dat!Go(d, Dat!Idle)
            \/ \E t, r, o : Dat!Go(d, [at |-> "run", type |-> t, role |-> r, offset |-> o])
        BY <2>3 DEF Dat!Opened, Dat!Finish
      <3>2. ASSUME NEW t, NEW r, NEW o
            PROVE  StepShape([at |-> "run", type |-> t, role |-> r, offset |-> o])
        BY DEF StepShape
      <3> QED BY <1>1, <1>2, <3>1, <3>2
    <2> QED BY <1>5, <2>1, <2>2, <2>3 DEF TransferStep
  <1> QED BY <1>3, <1>4, <1>5

\* The types are kept.
LEMMA TypesKept ==
  ASSUME DataTypes, NEW d \in Clients, OpenInv(d), LoopStep(d) \/ CommandStep(d) \/ TransferStep(d)
  PROVE  DataTypes'
PROOF
  <1>0. /\ protection \in [Clients -> BOOLEAN] /\ pasvType \in [Clients -> PassiveTypes \cup {"None"}]
        /\ restartOffset \in [Clients -> {0, 1}] /\ applied \in [Clients -> Nat]
        /\ sock \in [Clients -> Sockets \cup {Dat!Closed}]
        /\ listener = [c \in Clients |-> listener[c]]
        /\ pending \in [Clients -> SUBSET {"own", "other"}]
        /\ \A c \in Clients : StepShape(step[c])
        /\ reloads \in Nat /\ ports \in PortConfigs /\ addrs \in AddrConfigs
        /\ asserted \subseteq Clients /\ failed \subseteq Clients /\ disturbed \subseteq Clients
    BY DEF DataTypes
  <1>1. step' = [c \in Clients |-> step'[c]] /\ \A c \in Clients : StepShape(step'[c])
    <2>1. step' = [c \in Clients |-> step'[c]] /\ StepShape(step'[d])
      BY ShapeKept
    <2>2. ASSUME NEW c \in Clients, c # d PROVE StepShape(step'[c])
      BY <1>0, <2>2, OthersSame DEF Same
    <2> QED BY <2>1, <2>2
  <1>2. CASE LoopStep(d)
    <2>1. /\ disturbed' = disturbed \cup {e \in Clients \ {d} : Dat!Allocating(e)}
          /\ protection' = protection /\ restartOffset' = restartOffset /\ applied' = applied
          /\ sock' = sock /\ pending' = pending /\ reloads' = reloads /\ ports' = ports
          /\ addrs' = addrs /\ asserted' = asserted
          /\ failed' \subseteq failed \cup {d}
      BY <1>2 DEF LoopStep, Dat!NextAddr, Dat!TakeAddr, Dat!Listen, Dat!GiveUp, Dat!connVars,
         Dat!boundVars, Dat!Disturb
    <2>2. \/ listener' = listener /\ pasvType' = pasvType
          \/ \E l : listener' = [listener EXCEPT ![d] = l] /\ pasvType' = [pasvType EXCEPT ![d] = step[d].type]
      BY <1>2 DEF LoopStep, Dat!NextAddr, Dat!TakeAddr, Dat!Listen, Dat!connVars
    <2>3. step[d].type \in PassiveTypes
      BY <1>2, LoopShape
    <2>4. listener' = [c \in Clients |-> listener'[c]]
      BY <1>0, <2>2
    <2>5. pasvType' \in [Clients -> PassiveTypes \cup {"None"}]
      BY <1>0, <2>2, <2>3
    <2> QED BY <1>0, <1>1, <2>1, <2>4, <2>5 DEF DataTypes
  <1>3. ASSUME NEW t \in PassiveTypes, Dat!InitPassive(d, t) PROVE DataTypes'
    <2>1. /\ protection' = protection /\ restartOffset' = restartOffset /\ applied' = applied
          /\ pasvType' = pasvType /\ reloads' = reloads /\ ports' = ports /\ addrs' = addrs
          /\ asserted' = asserted /\ failed' = failed /\ disturbed' \subseteq disturbed
          /\ sock' = [sock EXCEPT ![d] = Dat!Closed] /\ pending' = [pending EXCEPT ![d] = {}]
          /\ listener' = [listener EXCEPT ![d] = Dat!Closed]
      BY <1>3 DEF Dat!InitPassive, Dat!Count, Dat!allocVars
    <2>2. listener' = [c \in Clients |-> listener'[c]]
      BY <1>0, <2>1
    <2>3. sock' \in [Clients -> Sockets \cup {Dat!Closed}] /\ pending' \in [Clients -> SUBSET {"own", "other"}]
      BY <1>0, <2>1
    <2> QED BY <1>0, <1>1, <2>1, <2>2, <2>3 DEF DataTypes
  <1>4. CASE Dat!InitActive(d)
    <2>1. /\ protection' = protection /\ restartOffset' = restartOffset /\ applied' = applied
          /\ reloads' = reloads /\ ports' = ports /\ addrs' = addrs
          /\ asserted' = asserted /\ failed' = failed /\ disturbed' = disturbed
          /\ pasvType' = [pasvType EXCEPT ![d] = "None"]
          /\ listener' = [listener EXCEPT ![d] = Dat!Closed] /\ pending' = [pending EXCEPT ![d] = {}]
      BY <1>4 DEF Dat!InitActive, Dat!Count, Dat!allocVars, Dat!historyVars
    <2>2. listener' = [c \in Clients |-> listener'[c]]
      BY <1>0, <2>1
    <2>3. PICK s \in {Dat!Closed} \cup [peer : {"own", "other"}, tls : {FALSE}] :
            sock' = [sock EXCEPT ![d] = s]
      BY <1>4 DEF Dat!InitActive
    <2>4. s \in Sockets \cup {Dat!Closed}
      BY DEF Sockets
    <2>5. sock' \in [Clients -> Sockets \cup {Dat!Closed}]
      BY <1>0, <2>3, <2>4
    <2>6. pending' \in [Clients -> SUBSET {"own", "other"}]
      BY <1>0, <2>1
    <2>7. pasvType' \in [Clients -> PassiveTypes \cup {"None"}]
      BY <1>0, <2>1
    <2> QED BY <1>0, <1>1, <2>1, <2>2, <2>5, <2>6, <2>7 DEF DataTypes
  <1>5. CASE Dat!Settings(d) \/ Dat!REST(d)
    <2>1. /\ pasvType' = pasvType /\ sock' = sock /\ listener' = listener /\ pending' = pending
          /\ reloads' = reloads /\ ports' = ports /\ addrs' = addrs
          /\ asserted' = asserted /\ failed' = failed /\ disturbed' = disturbed
      BY <1>5 DEF Dat!Settings, Dat!REST, Dat!Count, Dat!allocVars, Dat!historyVars
    <2>2. protection' \in [Clients -> BOOLEAN]
      BY <1>0, <1>5 DEF Dat!Settings, Dat!REST
    <2>3. restartOffset' \in [Clients -> {0, 1}] /\ applied' \in [Clients -> Nat]
      BY <1>0, <1>5 DEF Dat!Settings, Dat!REST, Dat!historyVars
    <2> QED BY <1>0, <1>1, <2>1, <2>2, <2>3 DEF DataTypes
  <1>6. ASSUME NEW t \in {"List", "Upload", "Download"}, Dat!Open(d, t) PROVE DataTypes'
    <2>1. /\ protection' = protection /\ restartOffset' = restartOffset /\ applied' = applied
          /\ pasvType' = pasvType /\ sock' = sock /\ listener' = listener /\ pending' = pending
          /\ reloads' = reloads /\ ports' = ports /\ addrs' = addrs
          /\ asserted' \subseteq asserted \cup {d} /\ failed' = failed /\ disturbed' = disturbed
      BY <1>6 DEF Dat!Open, Dat!Count, Dat!allocVars, Dat!connVars
    <2> QED BY <1>0, <1>1, <2>1 DEF DataTypes
  <1>7. CASE TransferStep(d)
    <2>1. /\ protection' = protection /\ pasvType' = pasvType /\ listener' = listener
          /\ reloads' = reloads /\ ports' = ports /\ addrs' = addrs
          /\ asserted' = asserted /\ failed' = failed /\ disturbed' = disturbed
      BY <1>7 DEF TransferStep, Dat!PeerConnects, Dat!Accept, Dat!Opened, Dat!Finish, Dat!allocVars,
         Dat!boundVars, Dat!historyVars
    <2>2. pending' \in [Clients -> SUBSET {"own", "other"}]
      <3>1. CASE Dat!PeerConnects(d)
        BY <1>0, <3>1 DEF Dat!PeerConnects
      <3>2. CASE Dat!Accept(d)
        BY <1>0, <3>2 DEF Dat!Accept
      <3>3. CASE Dat!Opened(d) \/ Dat!Finish(d)
        BY <1>0, <3>3 DEF Dat!Opened, Dat!Finish
      <3> QED BY <1>7, <3>1, <3>2, <3>3 DEF TransferStep
    <2>3. restartOffset' \in [Clients -> {0, 1}]
      BY <1>0, <1>7 DEF TransferStep, Dat!PeerConnects, Dat!Accept, Dat!Opened, Dat!Finish, Dat!Close
    <2>4. applied' \in [Clients -> Nat]
      <3>1. \/ applied' = applied
            \/ \E n \in {0, 1} : applied' = [applied EXCEPT ![d] = @ + n]
        BY <1>7 DEF TransferStep, Dat!PeerConnects, Dat!Accept, Dat!Opened, Dat!Finish, Dat!historyVars
      <3> QED BY <1>0, <3>1
    <2>5. sock' \in [Clients -> Sockets \cup {Dat!Closed}]
      <3>1. CASE Dat!PeerConnects(d)
        BY <1>0, <3>1 DEF Dat!PeerConnects
      <3>2. CASE Dat!Accept(d)
        <4>1. \/ sock' = sock
              \/ \E p \in pending[d] : sock' = [sock EXCEPT ![d] = [peer |-> p, tls |-> FALSE]]
          BY <3>2 DEF Dat!Accept
        <4>2. \A p \in pending[d] : [peer |-> p, tls |-> FALSE] \in Sockets
          BY <1>0 DEF Sockets
        <4> QED BY <1>0, <4>1, <4>2
      <3>3. CASE Dat!Opened(d) \/ Dat!Finish(d)
        <4>1. \/ sock' = sock \/ sock' = [sock EXCEPT ![d] = Dat!Closed]
              \/ step[d].at = "open" /\ sock' = [sock EXCEPT ![d].tls = protection[d]]
          BY <3>3 DEF Dat!Opened, Dat!Finish, Dat!Close
        <4>2. CASE step[d].at = "open" /\ sock' = [sock EXCEPT ![d].tls = protection[d]]
          <5>1. sock[d] \in Sockets /\ protection[d] \in BOOLEAN
            BY <1>0, <4>2 DEF OpenInv
          <5>2. [sock[d] EXCEPT !.tls = protection[d]] \in Sockets
            BY <5>1 DEF Sockets
          <5>3. sock' = [sock EXCEPT ![d] = [sock[d] EXCEPT !.tls = protection[d]]]
            BY <4>2
          <5> QED BY <1>0, <5>2, <5>3
        <4> QED BY <1>0, <4>1, <4>2
      <3> QED BY <1>7, <3>1, <3>2, <3>3 DEF TransferStep
    <2> QED BY <1>0, <1>1, <2>1, <2>2, <2>3, <2>4, <2>5 DEF DataTypes
  <1> QED BY <1>2, <1>3, <1>4, <1>5, <1>6, <1>7 DEF CommandStep

\* The step of a client keeps what its transfers need.
LEMMA OwnOpen ==
  ASSUME DataTypes, NEW d \in Clients, OpenInv(d), LoopStep(d) \/ CommandStep(d) \/ TransferStep(d)
  PROVE  OpenInv(d)'
PROOF
  <1> DEFINE s == step[d]
  <1>0. /\ DOMAIN protection = Clients /\ DOMAIN pasvType = Clients /\ DOMAIN restartOffset = Clients
        /\ DOMAIN sock = Clients /\ DOMAIN listener = Clients /\ DOMAIN step = Clients
        /\ DOMAIN applied = Clients
        /\ restartOffset[d] \in {0, 1} /\ applied[d] \in Nat /\ protection[d] \in BOOLEAN
        /\ pending[d] \subseteq {"own", "other"}
    BY DEF DataTypes
  <1>1. /\ s.at \in {"open", "run"} => sock[d] \in Sockets
        /\ s.at = "run" /\ ~sock[d].tls => d \notin Obliged(d)
        /\ applied[d] <= 1 /\ (applied[d] # 0 /\ s.at # "run" => restartOffset[d] = 0)
        /\ d \in asserted => d \in failed /\ s = Dat!Idle
        /\ pasvType[d] # "None" /\ listener[d] = Dat!Closed => d \in failed \/ Dat!Allocating(d)
    BY DEF OpenInv
  <1>2. Dat!Idle.at = "idle"
    BY DEF Dat!Idle
  <1>3. CASE LoopStep(d)
    <2>1. /\ s.at \in {"addr", "take", "port"}
          /\ s = [at |-> s.at, type |-> s.type, first |-> s.first, ip |-> s.ip, port |-> s.port,
                  tried |-> s.tried]
      BY <1>3, LoopShape
    <2>2. d \notin asserted
      BY <1>1, <1>2, <2>1
    <2>3. /\ sock' = sock /\ restartOffset' = restartOffset /\ applied' = applied
          /\ asserted' = asserted
      BY <1>3 DEF LoopStep, Dat!NextAddr, Dat!TakeAddr, Dat!Listen, Dat!connVars
    <2>4. /\ step'[d].at \in {"idle", "addr", "take", "port"}
          /\ listener'[d] = Dat!Closed /\ pasvType'[d] # "None" =>
               d \in failed' \/ step'[d].at \in {"addr", "take", "port"}
      <3>1. CASE Dat!NextAddr(d)
        <4>1. \E a \in {"take", "port"} : step' = [step EXCEPT ![d] = [s EXCEPT !.at = a]]
          BY <3>1 DEF Dat!NextAddr, Dat!Go
        <4>2. \A a \in {"take", "port"} : [s EXCEPT !.at = a].at = a
          BY <2>1
        <4> QED BY <1>0, <4>1, <4>2
      <3>2. CASE Dat!TakeAddr(d)
        <4>1. \/ Dat!GiveUp(d)
              \/ \E a \in {"addr", "port"} : \E ip, f :
                   step' = [step EXCEPT ![d] = Taken(s, a, ip, f)]
          BY <3>2 DEF Dat!TakeAddr, Dat!Go, Taken
        <4>2. ASSUME NEW a \in {"addr", "port"}, NEW ip, NEW f PROVE Taken(s, a, ip, f).at = a
          <5> HIDE DEF s
          <5> QED BY <2>1, TakeRecord
        <4> HIDE DEF s
        <4> QED BY <1>0, <1>2, <4>1, <4>2 DEF Dat!GiveUp, Dat!Go
      <3>3. CASE Dat!Listen(d)
        <4>1. \/ Dat!GiveUp(d)
              \/ \E p, ip, t : Dat!Go(d, Listened(s, p, ip, t))
              \/ /\ Dat!Go(d, Dat!Idle)
                 /\ \E i, p, t : listener' = [listener EXCEPT ![d] = [ip |-> i, port |-> p, type |-> t]]
          BY <3>3 DEF Dat!Listen, Listened
        <4>2. ASSUME NEW p, NEW ip, NEW t PROVE Listened(s, p, ip, t).at = s.at
          <5> HIDE DEF s
          <5> QED BY <2>1, ListenRecord
        <4>3. \A i, p, t : [ip |-> i, port |-> p, type |-> t] # Dat!Closed
          BY DEF Dat!Closed
        <4>4. CASE Dat!GiveUp(d)
          BY <1>0, <1>2, <4>4 DEF Dat!GiveUp, Dat!Go
        <4> HIDE DEF s
        <4>5. CASE \E p, ip, t : Dat!Go(d, Listened(s, p, ip, t))
          BY <1>0, <2>1, <4>2, <4>5 DEF Dat!Go
        <4>6. CASE /\ Dat!Go(d, Dat!Idle)
                   /\ \E i, p, t : listener' = [listener EXCEPT ![d] = [ip |-> i, port |-> p, type |-> t]]
          BY <1>0, <1>2, <4>3, <4>6 DEF Dat!Go
        <4> QED BY <4>1, <4>4, <4>5, <4>6
      <3> QED BY <1>3, <3>1, <3>2, <3>3 DEF LoopStep
    <2>5. applied'[d] <= 1 /\ (applied'[d] # 0 => restartOffset'[d] = 0)
      BY <1>1, <2>1, <2>3
    <2> QED BY <2>2, <2>3, <2>4, <2>5 DEF OpenInv, Dat!Allocating
  <1>4. CASE CommandStep(d)
    <2>1. s = Dat!Idle /\ d \notin asserted
      BY <1>4 DEF CommandStep, Dat!InitPassive, Dat!InitActive, Dat!Settings, Dat!REST, Dat!Open,
         Dat!Ready
    <2>2. ASSUME NEW t \in PassiveTypes, Dat!InitPassive(d, t) PROVE OpenInv(d)'
      <3>1. /\ restartOffset' = restartOffset /\ applied' = applied /\ asserted' = asserted
            /\ step'[d].at \in {"addr", "port"}
        BY <1>0, <2>2 DEF Dat!InitPassive, Dat!Go
      <3> QED BY <1>1, <1>2, <2>1, <3>1 DEF OpenInv, Dat!Allocating
    <2>3. CASE Dat!InitActive(d)
      <3>1. /\ restartOffset' = restartOffset /\ applied' = applied /\ asserted' = asserted
            /\ step' = step /\ pasvType'[d] = "None"
        BY <1>0, <2>3 DEF Dat!InitActive, Dat!historyVars
      <3> QED BY <1>1, <1>2, <2>1, <3>1 DEF OpenInv, Dat!Allocating
    <2>4. CASE Dat!Settings(d)
      <3>1. Same(d)
        BY <2>4 DEF Dat!Settings, Same, Dat!historyVars
      <3> QED BY <3>1, SameOpen
    <2>5. CASE Dat!REST(d)
      <3>1. /\ step' = step /\ pasvType' = pasvType /\ listener' = listener /\ failed' = failed
            /\ asserted' = asserted /\ applied'[d] = 0
        BY <1>0, <2>5 DEF Dat!REST
      <3> QED BY <1>1, <1>2, <2>1, <3>1 DEF OpenInv, Dat!Allocating
    <2>6. ASSUME NEW t \in {"List", "Upload", "Download"}, Dat!Open(d, t) PROVE OpenInv(d)'
      <3>1. /\ restartOffset' = restartOffset /\ applied' = applied /\ failed' = failed
            /\ pasvType' = pasvType /\ sock' = sock /\ listener' = listener
        BY <2>6 DEF Dat!Open, Dat!connVars
      <3>2. \/ /\ pasvType[d] # "None" /\ listener[d] # Dat!Closed /\ asserted' = asserted
               /\ step'[d] = [at |-> "accept", type |-> t]
            \/ /\ pasvType[d] # "None" /\ listener[d] = Dat!Closed /\ asserted' = asserted \cup {d}
               /\ step' = step
            \/ /\ pasvType[d] = "None" /\ sock[d] # Dat!Closed /\ asserted' = asserted
               /\ step'[d] = [at |-> "open", type |-> t]
        BY <1>0, <2>6 DEF Dat!Open, Dat!Go
      <3>3. ~Dat!Allocating(d)
        BY <1>2, <2>1 DEF Dat!Allocating
      <3>4. sock[d] # Dat!Closed => sock[d] \in Sockets
        BY DEF DataTypes
      <3>5. CASE /\ pasvType[d] # "None" /\ listener[d] # Dat!Closed /\ asserted' = asserted
                 /\ step'[d] = [at |-> "accept", type |-> t]
        BY <1>1, <1>2, <2>1, <3>1, <3>5 DEF OpenInv
      <3>6. CASE /\ pasvType[d] # "None" /\ listener[d] = Dat!Closed /\ asserted' = asserted \cup {d}
                 /\ step' = step
        BY <1>1, <1>2, <2>1, <3>1, <3>3, <3>6 DEF OpenInv
      <3>7. CASE /\ pasvType[d] = "None" /\ sock[d] # Dat!Closed /\ asserted' = asserted
                 /\ step'[d] = [at |-> "open", type |-> t]
        BY <1>1, <1>2, <2>1, <3>1, <3>4, <3>7 DEF OpenInv
      <3> QED BY <3>2, <3>5, <3>6, <3>7
    <2> QED BY <1>4, <2>2, <2>3, <2>4, <2>5, <2>6 DEF CommandStep
  <1>5. CASE TransferStep(d)
    <2>1. pasvType' = pasvType /\ listener' = listener /\ failed' = failed /\ asserted' = asserted
      BY <1>5 DEF TransferStep, Dat!PeerConnects, Dat!Accept, Dat!Opened, Dat!Finish, Dat!historyVars
    <2>2. s.at \in {"accept", "open", "run"}
      BY <1>5 DEF TransferStep, Dat!PeerConnects, Dat!Accept, Dat!Opened, Dat!Finish
    <2>3. /\ d \notin asserted /\ ~Dat!Allocating(d)
          /\ (pasvType[d] # "None" /\ listener[d] = Dat!Closed => d \in failed)
      BY <1>1, <1>2, <2>2 DEF Dat!Allocating
    <2>4. CASE Dat!PeerConnects(d)
      <3>1. Same(d)
        BY <2>4 DEF Dat!PeerConnects, Same, Dat!historyVars
      <3> QED BY <3>1, SameOpen
    <2>5. CASE Dat!Accept(d)
      <3>1. restartOffset' = restartOffset /\ applied' = applied /\ s.at = "accept"
        BY <2>5 DEF Dat!Accept, Dat!historyVars
      <3>2. s = [at |-> "accept", type |-> s.type]
        <4>1. StepShape(s)
          BY DEF DataTypes
        <4> HIDE DEF s
        <4> QED BY <1>2, <3>1, <4>1 DEF StepShape
      <3>3. \/ step'[d] = Dat!Idle
            \/ \E p \in pending[d] :
                 /\ step'[d] = [s EXCEPT !.at = "open"]
                 /\ sock'[d] = [peer |-> p, tls |-> FALSE]
        BY <1>0, <2>5 DEF Dat!Accept, Dat!Go
      <3>4. [s EXCEPT !.at = "open"].at = "open"
        BY <3>2
      <3>5. \A p \in pending[d] : [peer |-> p, tls |-> FALSE] \in Sockets
        BY <1>0 DEF Sockets
      <3> HIDE DEF s
      <3>6. step'[d].at \in {"idle", "open"} /\ (step'[d].at = "open" => sock'[d] \in Sockets)
        BY <1>2, <3>3, <3>4, <3>5
      <3>7. applied[d] # 0 => restartOffset[d] = 0
        BY <1>1, <3>1
      <3> QED BY <1>1, <2>1, <2>3, <3>1, <3>6, <3>7 DEF OpenInv
    <2>6. CASE Dat!Opened(d)
      <3>1. s.at = "open" /\ sock[d] \in Sockets /\ (applied[d] # 0 => restartOffset[d] = 0)
        BY <1>1, <2>6 DEF Dat!Opened
      <3> DEFINE more == IF s.type # "List" /\ restartOffset[d] # 0 THEN 1 ELSE 0
      <3>5. \/ Dat!Go(d, Dat!Idle) /\ applied' = applied /\ restartOffset' = restartOffset
            \/ /\ Dat!Go(d, Dat!Idle) /\ applied' = applied
               /\ restartOffset' = [restartOffset EXCEPT ![d] = 0]
            \/ /\ Dat!ProtectionOkay(d, s.type) /\ restartOffset' = restartOffset
               /\ sock' = [sock EXCEPT ![d].tls = protection[d]]
               /\ \E r, o : Dat!Go(d, [at |-> "run", type |-> s.type, role |-> r, offset |-> o])
               /\ applied' = [applied EXCEPT ![d] = @ + more]
        BY <2>6 DEF Dat!Opened, Dat!Close
      <3>3. ASSUME Dat!Go(d, Dat!Idle), applied' = applied,
                   restartOffset' = restartOffset \/ restartOffset' = [restartOffset EXCEPT ![d] = 0]
            PROVE  OpenInv(d)'
        <4>1. step'[d] = Dat!Idle /\ restartOffset'[d] \in {0, restartOffset[d]}
          BY <1>0, <3>3 DEF Dat!Go
        <4> QED BY <1>1, <1>2, <2>1, <2>3, <3>1, <3>3, <4>1 DEF OpenInv
      <3>4. ASSUME Dat!ProtectionOkay(d, s.type), restartOffset' = restartOffset,
                   sock' = [sock EXCEPT ![d].tls = protection[d]],
                   NEW r, NEW o, Dat!Go(d, [at |-> "run", type |-> s.type, role |-> r, offset |-> o]),
                   applied' = [applied EXCEPT ![d] = @ + more]
            PROVE  OpenInv(d)'
        <4>0. /\ step'[d] = [at |-> "run", type |-> s.type, role |-> r, offset |-> o]
              /\ sock'[d] = [sock[d] EXCEPT !.tls = protection[d]]
              /\ applied'[d] = applied[d] + more
          BY <1>0, <3>4 DEF Dat!Go
        <4>1. sock'[d] \in Sockets /\ sock'[d].tls = protection[d] /\ sock'[d].peer = sock[d].peer
          BY <1>0, <3>1, <4>0 DEF Sockets
        <4>2. step'[d].at = "run" /\ step'[d].type = s.type
          BY <4>0
        <4>3. ~protection[d] => d \notin Obliged(d)
          BY <3>4 DEF Dat!ProtectionOkay, Dat!IsFXP, Obliged
        <4>4. ~protection[d] => d \notin Obliged(d)'
          BY <4>1, <4>2, <4>3 DEF Obliged
        <4>5. applied'[d] <= 1
          BY <1>0, <1>1, <3>1, <4>0
        <4> HIDE DEF s
        <4> QED BY <2>1, <2>3, <4>1, <4>2, <4>4, <4>5 DEF OpenInv
      <3> QED BY <3>3, <3>4, <3>5
    <2>7. CASE Dat!Finish(d)
      <3>1. step'[d] = Dat!Idle /\ restartOffset'[d] = 0 /\ applied' = applied
        BY <1>0, <2>7 DEF Dat!Finish, Dat!Go, Dat!Close, Dat!historyVars
      <3> QED BY <1>1, <1>2, <2>1, <2>3, <3>1 DEF OpenInv
    <2> QED BY <1>5, <2>4, <2>5, <2>6, <2>7 DEF TransferStep
  <1> QED BY <1>3, <1>4, <1>5

\* A reload changes the allocators and what it disturbs; a stuttering step nothing.
LEMMA ReloadKeeps ==
  ASSUME DataTypes, ReloadStep \/ UNCHANGED Dat!dataVars
  PROVE  DataTypes' /\ \A c \in Clients : Same(c)
PROOF
  <1>1. CASE ReloadStep
    <2>1. /\ protection' = protection /\ pasvType' = pasvType /\ restartOffset' = restartOffset
          /\ listener' = listener /\ sock' = sock /\ pending' = pending /\ step' = step
          /\ applied' = applied /\ asserted' = asserted /\ failed' = failed
      BY <1>1 DEF ReloadStep, Dat!SetPorts, Dat!SetAddrs, Dat!connVars
    <2>2. /\ reloads' = reloads + 1
          /\ disturbed' = disturbed \cup {e \in Clients \ {} : Dat!Allocating(e)}
          /\ ports' \in PortConfigs \cup {ports} /\ addrs' \in AddrConfigs \cup {addrs}
      BY <1>1 DEF ReloadStep, Dat!SetPorts, Dat!SetAddrs, Dat!Disturb
    <2>3. reloads' \in Nat /\ disturbed' \subseteq Clients
      BY <2>2 DEF DataTypes
    <2> QED BY <2>1, <2>2, <2>3 DEF DataTypes, Same
  <1>2. CASE UNCHANGED Dat!dataVars
    BY <1>2 DEF DataTypes, Same, Dat!dataVars, Dat!connVars, Dat!allocVars, Dat!boundVars,
       Dat!historyVars
  <1> QED BY <1>1, <1>2

\* The types and what the transfers need hold in every state.
LEMMA TransferInvHolds == Dat!Spec => []TransferInv
PROOF
  <1>1. Dat!Init => TransferInv
    <2> SUFFICES ASSUME Dat!Init PROVE TransferInv
      OBVIOUS
    <2>1. /\ protection = [c \in Clients |-> FALSE] /\ pasvType = [c \in Clients |-> "None"]
          /\ restartOffset = [c \in Clients |-> 0] /\ applied = [c \in Clients |-> 0]
          /\ listener = [c \in Clients |-> Dat!Closed] /\ sock = [c \in Clients |-> Dat!Closed]
          /\ pending = [c \in Clients |-> {}] /\ step = [c \in Clients |-> Dat!Idle]
          /\ ports \in PortConfigs /\ addrs \in AddrConfigs /\ reloads = 0
          /\ asserted = {} /\ failed = {} /\ disturbed = {}
      BY DEF Dat!Init
    <2>2. DataTypes
      BY <2>1 DEF DataTypes, StepShape
    <2>3. ASSUME NEW c \in Clients PROVE OpenInv(c)
      BY <2>1 DEF OpenInv, Dat!Idle
    <2> QED BY <2>2, <2>3 DEF TransferInv
  <1>2. TransferInv /\ [Dat!Next]_(Dat!dataVars) => TransferInv'
    <2> SUFFICES ASSUME TransferInv, [Dat!Next]_(Dat!dataVars) PROVE TransferInv'
      OBVIOUS
    <2>1. DataTypes /\ \A c \in Clients : OpenInv(c)
      BY DEF TransferInv
    <2>2. ASSUME NEW d \in Clients, LoopStep(d) \/ CommandStep(d) \/ TransferStep(d)
          PROVE  TransferInv'
      <3>1. DataTypes'
        BY <2>1, <2>2, TypesKept
      <3>2. ASSUME NEW c \in Clients PROVE OpenInv(c)'
        <4>1. CASE c = d
          BY <2>1, <2>2, <4>1, OwnOpen
        <4>2. CASE c # d
          BY <2>1, <2>2, <4>2, OthersSame, SameOpen
        <4> QED BY <4>1, <4>2
      <3> QED BY <3>1, <3>2 DEF TransferInv
    <2>3. CASE ReloadStep \/ UNCHANGED Dat!dataVars
      <3>1. DataTypes' /\ \A c \in Clients : Same(c)
        BY <2>1, <2>3, ReloadKeeps
      <3>2. ASSUME NEW c \in Clients PROVE OpenInv(c)'
        BY <2>1, <3>1, SameOpen
      <3> QED BY <3>1, <3>2 DEF TransferInv
    <2> QED BY <2>2, <2>3, DataSteps
  <1> QED BY <1>1, <1>2, PTL DEF Dat!Spec

\* Whatever order PROT, PASV, PORT, REST and the transfers of any number of clients
\* come in, no transfer runs in the clear that a TLS setting forbids, an offset applies
\* to one transfer, and the assertion of Open fails only after a passive command that
\* failed (ftp/data.cpp).
THEOREM TransfersOpenRight == Dat!Spec => []Dat!OpenRight
PROOF
  <1>1. TransferInv => Dat!OpenRight
    <2> SUFFICES ASSUME TransferInv PROVE Dat!OpenRight
      OBVIOUS
    <2>1. \A c \in Clients : OpenInv(c)
      BY DEF TransferInv
    <2>2. Dat!EnforcedTLS
      BY <2>1 DEF Dat!EnforcedTLS, OpenInv, Obliged, Dat!IsFXP
    <2>3. Dat!OffsetUsedOnce
      BY <2>1 DEF Dat!OffsetUsedOnce, OpenInv
    <2>4. Dat!AssertIfFailed
      BY <2>1 DEF Dat!AssertIfFailed, OpenInv, TransferInv, DataTypes
    <2> QED BY <2>2, <2>3, <2>4 DEF Dat!OpenRight
  <1> QED BY <1>1, TransferInvHolds, PTL

-----------------------------------------------------------------------------
(* The ports that a loop has tried *)

\* The next port extends what has been tried.
LEMMA ArcGrows ==
  ASSUME NEW C, NEW low \in Nat, NEW first \in Nat, NEW last \in Int, NEW n \in Nat, NEW tried,
         \A p \in C : p \in Nat /\ low <= p,
         ArcOf(C, low, first, last, tried), n # first,
         \/ n > last /\ \A p \in C : ~(last < p /\ p < n)
         \/ n = low /\ \A p \in C : p <= last
  PROVE  ArcOf(C, low, first, n, tried \cup {n})
PROOF
  <1>1. /\ first \in C \/ first < low
        /\ first <= last => \A p \in C : first <= p /\ p <= last => p \in tried
        /\ first > last => low <= last /\ \A p \in C : first <= p \/ p <= last => p \in tried
    BY DEF ArcOf
  <1>2. CASE n > last /\ \A p \in C : ~(last < p /\ p < n)
    <2>1. CASE first <= last
      BY <1>1, <1>2, <2>1 DEF ArcOf
    <2>2. CASE first > last
      <3>1. n < first
        BY <1>1, <1>2, <2>2
      <3> QED BY <1>1, <1>2, <2>2, <3>1 DEF ArcOf
    <2> QED BY <2>1, <2>2
  <1>3. CASE n = low /\ \A p \in C : p <= last
    <2>1. first <= last
      BY <1>1, <1>3
    <2>2. \A p \in C : first <= p => p \in tried
      BY <1>1, <1>3, <2>1
    <2>3. \A p \in C : p <= n => p = n
      BY <1>3
    <2> QED BY <1>1, <1>3, <2>2, <2>3 DEF ArcOf
  <1> QED BY <1>2, <1>3

\* When the next port is the first again, all have been tried.
LEMMA ArcCloses ==
  ASSUME NEW C, NEW low \in Nat, NEW first \in Nat, NEW last \in Int, NEW tried,
         \A p \in C : p \in Nat /\ low <= p,
         ArcOf(C, low, first, last, tried),
         \/ first > last /\ \A p \in C : ~(last < p /\ p < first)
         \/ first = low /\ \A p \in C : p <= last
  PROVE  C \subseteq tried
PROOF
  <1> SUFFICES ASSUME NEW p \in C PROVE p \in tried
    OBVIOUS
  <1>1. /\ first <= last => (first <= p /\ p <= last => p \in tried)
        /\ first > last => (first <= p \/ p <= last => p \in tried)
    BY DEF ArcOf
  <1> QED BY <1>1

-----------------------------------------------------------------------------
(* The allocators *)

\* Commands other than the loop, and transfers, use no allocator.
LEMMA QuietSteps ==
  ASSUME NEW d \in Clients, CommandStep(d) \/ TransferStep(d)
  PROVE  /\ UNCHANGED <<ports, portIt, nextPort, addrs, addrIt, reloads>>
         /\ gaveUp' = gaveUp /\ wild' = wild
         /\ disturbed' \in {disturbed, disturbed \ {d}}
PROOF
  <1>1. CASE CommandStep(d)
    BY <1>1 DEF CommandStep, Dat!InitPassive, Dat!InitActive, Dat!Settings, Dat!REST, Dat!Open,
       Dat!Count, Dat!allocVars, Dat!historyVars
  <1>2. CASE TransferStep(d)
    BY <1>2 DEF TransferStep, Dat!PeerConnects, Dat!Accept, Dat!Opened, Dat!Finish,
       Dat!allocVars, Dat!boundVars, Dat!historyVars
  <1> QED BY <1>1, <1>2

\* The iterators stay in their lists.
LEMMA CursorKept ==
  ASSUME Dat!DataAssumption, DataTypes, CursorInv, [Dat!Next]_(Dat!dataVars)
  PROVE  CursorInv'
PROOF
  <1>0. ports \in PortConfigs /\ reloads \in Nat
    BY DEF DataTypes
  <1>1. ASSUME NEW d \in Clients, LoopStep(d) PROVE CursorInv'
    <2>1. CASE Dat!NextAddr(d) \/ Dat!TakeAddr(d)
      <3>1. /\ ports' = ports /\ portIt' = portIt /\ nextPort' = nextPort /\ reloads' = reloads
            /\ addrIt' \in {1, addrIt, addrIt + 1}
        BY <2>1 DEF Dat!NextAddr, Dat!TakeAddr, Dat!boundVars
      <3> QED BY <3>1 DEF CursorInv
    <2>2. CASE Dat!Listen(d)
      <3> DEFINE n == Dat!NextPort
      <3>1. /\ ports' = ports /\ portIt' = n.it /\ nextPort' = n.next /\ reloads' = reloads
            /\ addrIt' = addrIt
        BY <2>2 DEF Dat!Listen, Dat!boundVars
      <3>2. CASE ports = <<>>
        <4>1. n = [port |-> 0, it |-> portIt, next |-> nextPort]
          BY <3>2 DEF Dat!NextPort
        <4> QED BY <3>1, <3>2, <4>1 DEF CursorInv
      <3>3. CASE ports # <<>>
        <4>1. /\ n.it \in DOMAIN ports /\ n.port \in Nat \ {0} /\ n.next = n.port + 1
              /\ n.port <= ports[n.it].to
              /\ ports[n.it].from <= n.port \/ (n.it = 1 /\ reloads # 0)
          BY <1>0, <3>3, NextPortPlace
        <4>2. ports[n.it].from \in Nat
          BY <1>0, <4>1, Ranges
        <4> HIDE DEF n
        <4> QED BY <3>1, <4>1, <4>2 DEF CursorInv
      <3> QED BY <3>2, <3>3
    <2> QED BY <1>1, <2>1, <2>2 DEF LoopStep
  <1>2. ASSUME NEW d \in Clients, CommandStep(d) \/ TransferStep(d) PROVE CursorInv'
    <2>1. UNCHANGED <<ports, portIt, nextPort, addrs, addrIt, reloads>>
      BY <1>2, QuietSteps
    <2> QED BY <2>1 DEF CursorInv
  <1>3. CASE Dat!SetPorts
    <2>1. portIt' = 1 /\ nextPort' = nextPort /\ addrIt' = addrIt /\ reloads' = reloads + 1
      BY <1>3 DEF Dat!SetPorts
    <2>2. ports' \in PortConfigs
      BY <1>3 DEF Dat!SetPorts
    <2>3. ports' # <<>> => 1 \in DOMAIN ports'
      BY <2>2 DEF Dat!DataAssumption
    <2> QED BY <1>0, <2>1, <2>3 DEF CursorInv
  <1>4. CASE Dat!SetAddrs
    <2>1. /\ portIt' = portIt /\ nextPort' = nextPort /\ ports' = ports /\ addrIt' = 1
          /\ reloads' = reloads + 1
      BY <1>4 DEF Dat!SetAddrs
    <2> QED BY <1>0, <2>1 DEF CursorInv
  <1>5. CASE UNCHANGED Dat!dataVars
    BY <1>5 DEF CursorInv, Dat!dataVars, Dat!allocVars, Dat!boundVars
  <1> QED BY <1>1, <1>2, <1>3, <1>4, <1>5, DataSteps DEF ReloadStep

\* A loop and a listener that nothing touches.
LEMMA QuietLoop ==
  ASSUME NEW c \in Clients, LoopInv(c), ListenInv(c), Same(c), ports' = ports, portIt' = portIt,
         nextPort' = nextPort, addrs' = addrs, addrIt' = addrIt, reloads' = reloads,
         c \in disturbed' <=> c \in disturbed
  PROVE  LoopInv(c)' /\ ListenInv(c)'
PROOF
  <1>1. Fresh' = Fresh /\ Dat!ConfiguredPorts' = Dat!ConfiguredPorts /\ LastPort' = LastPort
    BY DEF Fresh, LastPort, Dat!ConfiguredPorts, Dat!PortRange
  <1>2. Arc(c)' = Arc(c)
    BY <1>1 DEF Arc, ArcOf, Same
  <1>3. LoopInv(c)'
    BY <1>1, <1>2 DEF LoopInv, Same
  <1>4. ListenInv(c)'
    BY <1>1 DEF ListenInv, Same
  <1> QED BY <1>3, <1>4

\* A step of another client, a reload and a stuttering step keep the loop of a client
\* undisturbed or say that they disturb it.
LEMMA OthersLoop ==
  ASSUME DataTypes, NEW c \in Clients, LoopInv(c), ListenInv(c),
         \/ \E d \in Clients \ {c} : LoopStep(d) \/ CommandStep(d) \/ TransferStep(d)
         \/ ReloadStep \/ UNCHANGED Dat!dataVars
  PROVE  LoopInv(c)' /\ ListenInv(c)'
PROOF
  <1>1. ASSUME NEW d \in Clients, d # c, LoopStep(d) PROVE LoopInv(c)' /\ ListenInv(c)'
    <2>1. Same(c)
      BY <1>1, OthersSame
    <2>2. /\ disturbed' = disturbed \cup {e \in Clients \ {d} : Dat!Allocating(e)}
          /\ reloads' = reloads /\ ports' = ports
      BY <1>1 DEF LoopStep, Dat!NextAddr, Dat!TakeAddr, Dat!Listen, Dat!boundVars, Dat!Disturb
    <2>3. ~Dat!Allocating(c)' \/ c \in disturbed'
      BY <1>1, <2>1, <2>2 DEF Same, Dat!Allocating
    <2>4. LoopInv(c)'
      BY <2>3 DEF LoopInv, Dat!Allocating
    <2>5. ListenInv(c)'
      BY <2>1, <2>2 DEF ListenInv, Same, Dat!ConfiguredPorts, Dat!PortRange
    <2> QED BY <2>4, <2>5
  <1>2. ASSUME NEW d \in Clients, d # c, CommandStep(d) \/ TransferStep(d)
        PROVE  LoopInv(c)' /\ ListenInv(c)'
    <2>1. Same(c)
      BY <1>2, OthersSame
    <2>2. /\ ports' = ports /\ portIt' = portIt /\ nextPort' = nextPort /\ addrs' = addrs
          /\ addrIt' = addrIt /\ reloads' = reloads /\ (c \in disturbed' <=> c \in disturbed)
      BY <1>2, QuietSteps
    <2> QED BY <2>1, <2>2, QuietLoop
  <1>3. CASE ReloadStep
    <2>1. \A e \in Clients : Same(e)
      BY <1>3, ReloadKeeps
    <2>2. /\ disturbed' = disturbed \cup {e \in Clients \ {} : Dat!Allocating(e)}
          /\ reloads' = reloads + 1
      BY <1>3 DEF ReloadStep, Dat!SetPorts, Dat!SetAddrs, Dat!Disturb
    <2>3. reloads' # 0
      BY <2>2 DEF DataTypes
    <2>4. ~Dat!Allocating(c)' \/ c \in disturbed'
      BY <2>1, <2>2 DEF Same, Dat!Allocating
    <2>5. LoopInv(c)'
      BY <2>4 DEF LoopInv, Dat!Allocating
    <2>6. ListenInv(c)'
      BY <2>1, <2>2, <2>3 DEF ListenInv, Same
    <2> QED BY <2>5, <2>6
  <1>4. CASE UNCHANGED Dat!dataVars
    <2>1. Same(c)
      BY <1>4, ReloadKeeps
    <2>2. /\ ports' = ports /\ portIt' = portIt /\ nextPort' = nextPort /\ addrs' = addrs
          /\ addrIt' = addrIt /\ reloads' = reloads /\ (c \in disturbed' <=> c \in disturbed)
      BY <1>4 DEF Dat!dataVars, Dat!allocVars, Dat!boundVars, Dat!historyVars
    <2> QED BY <2>1, <2>2, QuietLoop
  <1> QED BY <1>1, <1>2, <1>3, <1>4

\* A command of a client that is in no loop, and the steps of its transfers.
LEMMA OwnQuiet ==
  ASSUME DataTypes, NEW d \in Clients, LoopInv(d), ListenInv(d), CommandStep(d) \/ TransferStep(d)
  PROVE  LoopInv(d)' /\ ListenInv(d)'
PROOF
  <1>0. DOMAIN step = Clients /\ DOMAIN listener = Clients /\ Dat!Idle.at = "idle"
    BY DEF DataTypes, Dat!Idle
  <1>1. /\ ports' = ports /\ portIt' = portIt /\ nextPort' = nextPort /\ addrs' = addrs
        /\ addrIt' = addrIt /\ reloads' = reloads
    BY QuietSteps
  <1>2. ASSUME NEW t \in PassiveTypes, Dat!InitPassive(d, t) PROVE LoopInv(d)' /\ ListenInv(d)'
    <2>1. \E a \in {"addr", "port"} :
            step'[d] = [at |-> a, type |-> t, first |-> Dat!Default, ip |-> Dat!Default,
                        port |-> -1, tried |-> {}]
      BY <1>0, <1>2 DEF Dat!InitPassive, Dat!Go
    <2>2. step'[d].at \in {"addr", "port"} /\ step'[d].ip = Dat!Default /\ step'[d].port = -1
      BY <2>1
    <2>3. listener'[d] = Dat!Closed
      BY <1>0, <1>2 DEF Dat!InitPassive
    <2> QED BY <2>2, <2>3 DEF LoopInv, ListenInv
  <1>3. ASSUME ~(\E t \in PassiveTypes : Dat!InitPassive(d, t))
        PROVE  LoopInv(d)' /\ ListenInv(d)'
    <2>1. disturbed' = disturbed /\ (listener' = listener \/ listener'[d] = Dat!Closed)
      BY <1>0, <1>3 DEF CommandStep, TransferStep, Dat!InitActive, Dat!Settings, Dat!REST,
         Dat!Open, Dat!PeerConnects, Dat!Accept, Dat!Opened, Dat!Finish, Dat!connVars, Dat!historyVars
    <2>2. step'[d].at \notin {"addr", "take", "port"}
      <3>1. CASE CommandStep(d)
        <4>1. step[d] = Dat!Idle
          BY <3>1 DEF CommandStep, Dat!InitPassive, Dat!InitActive, Dat!Settings, Dat!REST,
             Dat!Open, Dat!Ready
        <4>2. step' = step \/ \E a \in {"accept", "open"}, t \in {"List", "Upload", "Download"} :
                step'[d] = [at |-> a, type |-> t]
          BY <1>0, <1>3, <3>1 DEF CommandStep, Dat!InitActive, Dat!Settings, Dat!REST, Dat!Open, Dat!Go
        <4> QED BY <1>0, <4>1, <4>2
      <3>2. CASE Dat!PeerConnects(d)
        BY <3>2 DEF Dat!PeerConnects
      <3>3. CASE Dat!Accept(d)
        <4>1. Dat!Go(d, Dat!Idle) \/ Dat!Go(d, [step[d] EXCEPT !.at = "open"])
          BY <3>3 DEF Dat!Accept
        <4>2. step[d] = [at |-> step[d].at, type |-> step[d].type]
          <5>1. StepShape(step[d]) /\ step[d].at = "accept"
            BY <3>3 DEF DataTypes, Dat!Accept
          <5> QED BY <1>0, <5>1 DEF StepShape
        <4>3. [step[d] EXCEPT !.at = "open"].at = "open"
          BY <4>2
        <4> QED BY <1>0, <4>1, <4>3 DEF Dat!Go
      <3>4. CASE Dat!Opened(d) \/ Dat!Finish(d)
        <4>1. \/ Dat!Go(d, Dat!Idle)
              \/ \E t, r, o : Dat!Go(d, [at |-> "run", type |-> t, role |-> r, offset |-> o])
          BY <3>4 DEF Dat!Opened, Dat!Finish
        <4>2. ASSUME NEW t, NEW r, NEW o,
                     Dat!Go(d, [at |-> "run", type |-> t, role |-> r, offset |-> o])
              PROVE  step'[d].at = "run"
          BY <1>0, <4>2 DEF Dat!Go
        <4>3. Dat!Go(d, Dat!Idle) => step'[d].at = "idle"
          BY <1>0 DEF Dat!Go
        <4>4. step'[d].at \in {"idle", "run"}
          BY <4>1, <4>2, <4>3
        <4> QED BY <4>4
      <3> QED BY <3>1, <3>2, <3>3, <3>4 DEF TransferStep
    <2>3. LoopInv(d)'
      BY <2>2 DEF LoopInv
    <2>4. ListenInv(d)'
      BY <1>1, <2>1 DEF ListenInv, Dat!ConfiguredPorts, Dat!PortRange
    <2> QED BY <2>3, <2>4
  <1> QED BY <1>2, <1>3

\* A loop that takes its next step alone: it reads no address past the end of the list,
\* and gives up only when it has tried every configured port.
LEMMA OwnLoop ==
  ASSUME Dat!DataAssumption, Dat!AscendingRanges, DataTypes, CursorInv,
         NEW d \in Clients, LoopInv(d), ListenInv(d), LoopStep(d), ~wild, ~gaveUp
  PROVE  LoopInv(d)' /\ ListenInv(d)' /\ ~wild' /\ ~gaveUp'
PROOF
  <1> DEFINE s == step[d]
             alone == d \notin disturbed
  <1>0. /\ DOMAIN step = Clients /\ DOMAIN listener = Clients /\ Dat!Idle.at = "idle"
        /\ ports \in PortConfigs /\ reloads \in Nat /\ Family[d] \in {4, 6}
        /\ addrIt \in Nat \ {0} /\ nextPort \in Nat
        /\ Len(addrs) \in Nat /\ (addrs = <<>> <=> Len(addrs) = 0)
    BY DEF DataTypes, CursorInv, Dat!Idle, Dat!DataAssumption
  <1>1. /\ s.at \in {"addr", "take", "port"} /\ s.type \in PassiveTypes
        /\ s = [at |-> s.at, type |-> s.type, first |-> s.first, ip |-> s.ip, port |-> s.port,
                tried |-> s.tried]
    BY LoopShape
  <1>2. (d \in disturbed' <=> d \in disturbed) /\ reloads' = reloads /\ ports' = ports /\ addrs' = addrs
    BY DEF LoopStep, Dat!NextAddr, Dat!TakeAddr, Dat!Listen, Dat!boundVars, Dat!Disturb
  <1>3. alone =>
          /\ s.at = "port" /\ s.type # "PASV" => s.ip = Dat!Default \/ s.ip.fam = Family[d]
          /\ s.at \in {"addr", "take"} => s.port = -1
          /\ s.at \in {"addr", "take"} /\ addrs = <<>> => s.ip = Dat!Default
          /\ s.at = "take" => addrIt \in 1 .. Len(addrs)
          /\ s.at = "port" /\ s.port # -1 => ports # <<>> /\ s.port \in Nat /\ Fresh /\ Arc(d)
    BY DEF LoopInv
  <1>4. listener' = listener => ListenInv(d)'
    BY <1>2 DEF ListenInv, Dat!ConfiguredPorts, Dat!PortRange
  <1>5. step'[d] = Dat!Idle => LoopInv(d)'
    BY <1>0 DEF LoopInv
  <1> HIDE DEF s
  <1>6. CASE Dat!NextAddr(d)
    <2>1. s.at = "addr" /\ listener' = listener /\ wild' = wild /\ gaveUp' = gaveUp
      BY <1>6 DEF Dat!NextAddr, Dat!connVars, s
    <2>2. \/ addrs = <<>> /\ Dat!Go(d, [s EXCEPT !.at = "port"])
          \/ addrs # <<>> /\ addrIt' \in 1 .. Len(addrs) /\ Dat!Go(d, [s EXCEPT !.at = "take"])
      BY <1>0, <1>6 DEF Dat!NextAddr, s
    <2>3. ASSUME NEW a, Dat!Go(d, [s EXCEPT !.at = a])
          PROVE  /\ step'[d].at = a /\ step'[d].port = s.port /\ step'[d].ip = s.ip
      <3>1. step'[d] = [s EXCEPT !.at = a]
        BY <1>0, <2>3 DEF Dat!Go
      <3> QED BY <1>1, <3>1
    <2>4. CASE addrs = <<>> /\ Dat!Go(d, [s EXCEPT !.at = "port"])
      <3>1. step'[d].at = "port" /\ step'[d].port = s.port /\ step'[d].ip = s.ip
        BY <2>3, <2>4
      <3>2. LoopInv(d)'
        BY <1>2, <1>3, <2>1, <2>4, <3>1 DEF LoopInv
      <3> QED BY <1>4, <2>1, <3>2
    <2>5. CASE addrs # <<>> /\ addrIt' \in 1 .. Len(addrs) /\ Dat!Go(d, [s EXCEPT !.at = "take"])
      <3>1. step'[d].at = "take" /\ step'[d].port = s.port /\ step'[d].ip = s.ip
        BY <2>3, <2>5
      <3>2. LoopInv(d)'
        BY <1>2, <1>3, <2>1, <2>5, <3>1 DEF LoopInv
      <3> QED BY <1>4, <2>1, <3>2
    <2> QED BY <2>2, <2>4, <2>5
  <1>7. CASE Dat!TakeAddr(d)
    <2> DEFINE a == addrs[addrIt]
    <2>1. s.at = "take" /\ listener' = listener /\ gaveUp' = gaveUp
      BY <1>7 DEF Dat!TakeAddr, Dat!connVars, s
    <2>2. \/ addrIt > Len(addrs) /\ wild' = (wild \/ d \notin disturbed) /\ Dat!GiveUp(d)
          \/ ~(addrIt > Len(addrs)) /\ wild' = wild /\ Dat!GiveUp(d)
          \/ /\ ~(addrIt > Len(addrs)) /\ wild' = wild
             /\ \E f : Dat!Go(d, Taken(s, IF Dat!Usable(d, a) THEN "port" ELSE "addr", a, f))
      BY <1>7, Zenon DEF Dat!TakeAddr, Taken, s
    <2>3. Dat!GiveUp(d) => step'[d] = Dat!Idle
      BY <1>0 DEF Dat!GiveUp, Dat!Go
    <2>4. CASE addrIt > Len(addrs) /\ wild' = (wild \/ d \notin disturbed) /\ Dat!GiveUp(d)
      <3>1. d \in disturbed
        BY <1>0, <1>3, <2>1, <2>4
      <3> QED BY <1>4, <1>5, <2>1, <2>3, <2>4, <3>1
    <2>5. CASE ~(addrIt > Len(addrs)) /\ wild' = wild /\ Dat!GiveUp(d)
      BY <1>4, <1>5, <2>1, <2>3, <2>5
    <2>6. ASSUME ~(addrIt > Len(addrs)), wild' = wild, NEW f,
                 Dat!Go(d, Taken(s, IF Dat!Usable(d, a) THEN "port" ELSE "addr", a, f))
          PROVE  LoopInv(d)' /\ ListenInv(d)' /\ ~wild' /\ ~gaveUp'
      <3> DEFINE where == IF Dat!Usable(d, a) THEN "port" ELSE "addr"
      <3>1. step'[d] = Taken(s, where, a, f)
        BY <1>0, <2>6 DEF Dat!Go
      <3>2. /\ where \in {"port", "addr"}
            /\ where = "port" /\ s.type # "PASV" => a.fam = Family[d]
        BY DEF Dat!Usable, s
      <3> HIDE DEF where, a
      <3>3. Taken(s, where, a, f)
              = [at |-> where, type |-> s.type, first |-> f, ip |-> a, port |-> s.port,
                 tried |-> s.tried]
        BY <1>1, TakeRecord
      <3>4. /\ step'[d].at = where /\ step'[d].type = s.type /\ step'[d].ip = a
            /\ step'[d].port = s.port
        BY <3>1, <3>3
      <3>5. addrs # <<>>
        BY <1>0, <2>6
      <3>6. LoopInv(d)'
        BY <1>2, <1>3, <2>1, <3>2, <3>4, <3>5 DEF LoopInv
      <3> QED BY <1>4, <2>1, <2>6, <3>6
    <2> QED BY <2>2, <2>4, <2>5, <2>6
  <1>8. CASE Dat!Listen(d)
    <2> DEFINE n == Dat!NextPort
               C == Dat!ConfiguredPorts
    <2>1. s.at = "port" /\ portIt' = n.it /\ nextPort' = n.next /\ wild' = wild
      BY <1>8 DEF Dat!Listen, s
    <2>2. PICK ip \in Dat!PartnerIP(d, IF s.ip = Dat!Default THEN Dat!Local(d) ELSE s.ip) :
            \/ /\ n.port = s.port /\ Dat!Go(d, Dat!Idle) /\ listener' = listener
               /\ gaveUp' = (gaveUp \/ (d \notin disturbed /\ ~(C \subseteq s.tried)))
            \/ /\ n.port # s.port /\ n.port # 0 /\ listener' = listener /\ gaveUp' = gaveUp
               /\ Dat!Go(d, Listened(s, IF s.port = -1 THEN n.port ELSE s.port, ip, s.tried \cup {n.port}))
            \/ /\ listener' = [listener EXCEPT ![d] = [ip |-> ip, port |-> n.port, type |-> s.type]]
               /\ Dat!Go(d, Dat!Idle) /\ gaveUp' = gaveUp
      BY <1>8 DEF Dat!Listen, Dat!GiveUp, Listened, s
    <2>3. alone /\ s.type # "PASV" => ip.fam = Family[d]
      <3>1. Dat!Local(d).fam = Family[d]
        BY DEF Dat!Local, Dat!Default
      <3>2. s.type # "PASV" => ip = IF s.ip = Dat!Default THEN Dat!Local(d) ELSE s.ip
        BY DEF Dat!PartnerIP, s
      <3> QED BY <1>3, <2>1, <3>1, <3>2
    <2>4. ports = <<>> => n.port = 0
      <3> SUFFICES ASSUME ports = <<>> PROVE n.port = 0
        OBVIOUS
      <3>1. n = [port |-> 0, it |-> portIt, next |-> nextPort]
        BY DEF Dat!NextPort
      <3> QED BY <3>1
    <2>5. ports # <<>> =>
            /\ n.it \in DOMAIN ports /\ n.port \in Nat \ {0} /\ n.next = n.port + 1
            /\ n.port <= ports[n.it].to
            /\ ports[n.it].from <= n.port \/ (n.it = 1 /\ reloads # 0 /\ n.port < ports[1].from)
      BY <1>0, NextPortPlace
    <2>6. ports # <<>> /\ ports[n.it].from <= n.port => n.port \in C
      <3> SUFFICES ASSUME ports # <<>>, ports[n.it].from <= n.port PROVE n.port \in C
        OBVIOUS
      <3> HIDE DEF n
      <3>1. n.port \in ports[n.it].from .. ports[n.it].to
        BY <1>0, <2>5, Ranges
      <3> QED BY <2>5, <3>1 DEF Dat!ConfiguredPorts, Dat!PortRange
    <2>7. ports # <<>> /\ Fresh =>
            /\ \A p \in C : p \in Nat /\ ports[1].from <= p
            /\ \/ n.port > LastPort /\ \A p \in C : ~(LastPort < p /\ p < n.port)
               \/ n.port = ports[1].from /\ \A p \in C : p <= LastPort
      BY <1>0, NextPortOrder
    <2>8. /\ LastPort \in Int /\ (ports # <<>> => ports[1].from \in Nat)
          /\ C' = C /\ (alone' <=> alone)
      BY <1>0, <1>2, Ranges DEF LastPort, Dat!ConfiguredPorts, Dat!PortRange
    <2> HIDE DEF n, C
    <2>9. CASE /\ n.port = s.port /\ Dat!Go(d, Dat!Idle) /\ listener' = listener
               /\ gaveUp' = (gaveUp \/ (d \notin disturbed /\ ~(C \subseteq s.tried)))
      <3>1. step'[d] = Dat!Idle
        BY <1>0, <2>9 DEF Dat!Go
      <3>2. ASSUME alone PROVE C \subseteq s.tried
        <4>1. ports # <<>> /\ s.port \in Nat /\ Fresh /\ Arc(d)
          <5>1. n.port \in Nat
            BY <2>4, <2>5
          <5>2. s.port # -1
            BY <2>9, <5>1
          <5> QED BY <1>3, <2>1, <3>2, <5>2
        <4>2. ArcOf(C, ports[1].from, s.port, LastPort, s.tried)
          BY <4>1 DEF Arc, C, s
        <4> QED BY <2>7, <2>8, <2>9, <4>1, <4>2, ArcCloses
      <3> QED BY <1>4, <1>5, <2>1, <2>9, <3>1, <3>2
    <2>10. CASE /\ n.port # s.port /\ n.port # 0 /\ listener' = listener /\ gaveUp' = gaveUp
                /\ Dat!Go(d, Listened(s, IF s.port = -1 THEN n.port ELSE s.port, ip, s.tried \cup {n.port}))
      <3> DEFINE first == IF s.port = -1 THEN n.port ELSE s.port
                 tried == s.tried \cup {n.port}
      <3>1. step'[d] = Listened(s, first, ip, tried)
        BY <1>0, <2>10 DEF Dat!Go
      <3>2. first = (IF s.port = -1 THEN n.port ELSE s.port) /\ tried = s.tried \cup {n.port}
        OBVIOUS
      <3> HIDE DEF first, tried
      <3>3. Listened(s, first, ip, tried)
              = [at |-> s.at, type |-> s.type, first |-> s.first, ip |-> ip, port |-> first,
                 tried |-> tried]
        BY <1>1, ListenRecord
      <3>4. /\ step'[d].at = "port" /\ step'[d].type = s.type /\ step'[d].ip = ip
            /\ step'[d].port = first /\ step'[d].tried = tried
        BY <2>1, <3>1, <3>3
      <3>5. ports # <<>>
        BY <2>4, <2>10
      <3>6. Fresh' /\ LastPort' = n.port
        BY <1>2, <2>1, <2>5, <3>5 DEF Fresh, LastPort
      <3>7. ASSUME alone PROVE first \in Nat /\ ArcOf(C, ports[1].from, first, n.port, tried)
        <4>1. CASE s.port = -1
          <5>1. first = n.port
            BY <3>2, <4>1
          <5>2. first \in C \/ first < ports[1].from
            BY <2>5, <2>6, <3>5, <5>1
          <5>3. \A p \in C : p \in Nat
            BY <1>0, Ranges DEF C, Dat!ConfiguredPorts, Dat!PortRange
          <5>4. \A p \in C : first <= p /\ p <= n.port => p \in tried
            BY <2>5, <3>2, <3>5, <5>1, <5>3
          <5> QED BY <2>5, <3>5, <5>1, <5>2, <5>4 DEF ArcOf
        <4>2. CASE s.port # -1
          <5>1. s.port \in Nat /\ Fresh /\ Arc(d)
            BY <1>3, <2>1, <3>7, <4>2
          <5>2. ArcOf(C, ports[1].from, s.port, LastPort, s.tried)
            BY <5>1 DEF Arc, C, s
          <5>3. n.port \in Nat /\ ports[1].from \in Nat /\ LastPort \in Int
            BY <2>5, <2>8, <3>5
          <5>4. /\ \A p \in C : p \in Nat /\ ports[1].from <= p
                /\ \/ n.port > LastPort /\ \A p \in C : ~(LastPort < p /\ p < n.port)
                   \/ n.port = ports[1].from /\ \A p \in C : p <= LastPort
            BY <2>7, <3>5, <5>1
          <5>5. ArcOf(C, ports[1].from, s.port, n.port, s.tried \cup {n.port})
            BY <2>10, <5>1, <5>2, <5>3, <5>4, ArcGrows
          <5> QED BY <3>2, <4>2, <5>1, <5>5
        <4> QED BY <4>1, <4>2
      <3>8. alone => first \in Nat /\ Arc(d)'
        BY <1>2, <2>8, <3>4, <3>6, <3>7 DEF Arc, C
      <3>9. LoopInv(d)'
        BY <1>2, <2>3, <3>4, <3>5, <3>6, <3>8 DEF LoopInv
      <3> QED BY <1>4, <2>1, <2>10, <3>9
    <2>11. CASE /\ listener' = [listener EXCEPT ![d] = [ip |-> ip, port |-> n.port, type |-> s.type]]
                /\ Dat!Go(d, Dat!Idle) /\ gaveUp' = gaveUp
      <3>1. step'[d] = Dat!Idle /\ listener'[d] = [ip |-> ip, port |-> n.port, type |-> s.type]
        BY <1>0, <2>11 DEF Dat!Go
      <3>2. listener'[d].ip = ip /\ listener'[d].port = n.port /\ listener'[d].type = s.type
        BY <3>1
      <3>3. reloads = 0 /\ ports # <<>> => n.port \in C
        BY <2>5, <2>6
      <3>4. ListenInv(d)'
        BY <1>2, <2>3, <2>8, <3>2, <3>3 DEF ListenInv, C
      <3> QED BY <1>5, <2>1, <2>11, <3>1, <3>4
    <2> QED BY <2>2, <2>9, <2>10, <2>11
  <1> QED BY <1>6, <1>7, <1>8 DEF LoopStep

\* Where the ranges ascend, whatever other clients and reloads do in between: a passive
\* listener can be reached and has a configured port, a client alone in its loop gives up
\* only when it has tried every configured port, and reads no address past the end of the
\* list (InitPassive, PortAllocatorImpl, AddrAllocatorImpl).
THEOREM ListenersRight ==
  Dat!DataAssumption /\ Dat!AscendingRanges => (Dat!Spec => []Dat!ListenerRight)
PROOF
  <1> SUFFICES ASSUME Dat!DataAssumption, Dat!AscendingRanges PROVE Dat!Spec => []Dat!ListenerRight
    OBVIOUS
  <1>1. Dat!Init => AllocInv
    <2> SUFFICES ASSUME Dat!Init PROVE AllocInv
      OBVIOUS
    <2>1. /\ ports \in PortConfigs /\ portIt = 1 /\ nextPort = 0 /\ addrIt = 1
          /\ ~wild /\ ~gaveUp
      BY DEF Dat!Init
    <2>2. CursorInv
      BY <2>1, Ranges DEF CursorInv
    <2>3. ASSUME NEW c \in Clients PROVE LoopInv(c) /\ ListenInv(c)
      <3>1. step[c].at = "idle" /\ listener[c] = Dat!Closed
        BY DEF Dat!Init, Dat!Idle
      <3> QED BY <3>1 DEF LoopInv, ListenInv
    <2> QED BY <2>1, <2>2, <2>3 DEF AllocInv
  <1>2. TransferInv /\ AllocInv /\ [Dat!Next]_(Dat!dataVars) => AllocInv'
    <2> SUFFICES ASSUME TransferInv, AllocInv, [Dat!Next]_(Dat!dataVars) PROVE AllocInv'
      OBVIOUS
    <2>1. DataTypes /\ CursorInv /\ ~wild /\ ~gaveUp /\ \A c \in Clients : LoopInv(c) /\ ListenInv(c)
      BY DEF TransferInv, AllocInv
    <2>2. CursorInv'
      BY <2>1, CursorKept
    <2>3. ASSUME NEW d \in Clients, LoopStep(d) PROVE AllocInv'
      <3>1. LoopInv(d)' /\ ListenInv(d)' /\ ~wild' /\ ~gaveUp'
        BY <2>1, <2>3, OwnLoop
      <3>2. ASSUME NEW c \in Clients, c # d PROVE LoopInv(c)' /\ ListenInv(c)'
        BY <2>1, <2>3, <3>2, OthersLoop
      <3> QED BY <2>2, <3>1, <3>2 DEF AllocInv
    <2>4. ASSUME NEW d \in Clients, CommandStep(d) \/ TransferStep(d) PROVE AllocInv'
      <3>1. LoopInv(d)' /\ ListenInv(d)'
        BY <2>1, <2>4, OwnQuiet
      <3>2. ASSUME NEW c \in Clients, c # d PROVE LoopInv(c)' /\ ListenInv(c)'
        BY <2>1, <2>4, <3>2, OthersLoop
      <3>3. ~wild' /\ ~gaveUp'
        BY <2>1, <2>4, QuietSteps
      <3> QED BY <2>2, <3>1, <3>2, <3>3 DEF AllocInv
    <2>5. CASE ReloadStep \/ UNCHANGED Dat!dataVars
      <3>1. ASSUME NEW c \in Clients PROVE LoopInv(c)' /\ ListenInv(c)'
        BY <2>1, <2>5, OthersLoop
      <3>2. ~wild' /\ ~gaveUp'
        BY <2>1, <2>5 DEF ReloadStep, Dat!SetPorts, Dat!SetAddrs, Dat!dataVars, Dat!historyVars
      <3> QED BY <2>2, <3>1, <3>2 DEF AllocInv
    <2> QED BY <2>3, <2>4, <2>5, DataSteps
  <1>3. AllocInv => Dat!ListenerRight
    <2> SUFFICES ASSUME AllocInv PROVE Dat!ListenerRight
      OBVIOUS
    <2>1. Dat!Reachable /\ Dat!PortsConfigured
      BY DEF Dat!Reachable, Dat!PortsConfigured, ListenInv, AllocInv
    <2> QED BY <2>1 DEF Dat!ListenerRight, Dat!NoEarlyExhaustion, Dat!NoWildRead, AllocInv
  <1> QED BY <1>1, <1>2, <1>3, TransferInvHolds, PTL DEF Dat!Spec

-----------------------------------------------------------------------------
(* Config *)


Phases == {"idle", "load", "store", "slots", "templates", "check", "checkbad"}
Reload(ph, c, i, f, res) == [phase |-> ph, conf |-> c, slot |-> i, for |-> f, result |-> res]
ReloadShape(r) ==
  /\ r.phase \in Phases /\ r = Reload(r.phase, r.conf, r.slot, r.for, r.result)
  /\ r.conf.version \in 0..latestVersion /\ (r.phase \in {"load", "store"} => r.conf.version # 0)
  /\ r.phase = "store" => Con!Complete(r.conf)
  /\ r.phase = "slots" => r.slot \in 1..5

\* Every number a copy of a configuration bears has been given; what is published or about
\* to be is complete.
ConfigTypes ==
  /\ latestVersion \in Nat /\ shared.version \in 1..latestVersion /\ Con!Complete(shared)
  /\ local = [t \in Con!Threads |-> local[t]]
  /\ \A t \in Con!Threads : /\ local[t].version \in Nat
                            /\ local[t].version # 0 => Con!Complete(local[t])
  /\ reload = [t \in Con!Reloaders |-> reload[t]] /\ \A t \in Con!Reloaders : ReloadShape(reload[t])
  /\ slots = [i \in 1..5 |-> slots[i]]
  /\ command = [c \in Clients |-> command[c]] /\ answer = [c \in Clients |-> answer[c]]
  /\ behind \in [Clients -> BOOLEAN] /\ overlapped \in BOOLEAN /\ early \in BOOLEAN

\* As long as reloads do not overlap: the one that is under way brings a later number than
\* any copy has, so that no copy can pass for newer than the shared one; the slots that it
\* has called agree with what its thread sees.
VersionInv ==
  ~overlapped =>
    /\ \A t \in Con!Threads : local[t].version < shared.version \/ local[t] = shared
    /\ \A t \in Con!Reloaders :
         /\ reload[t].phase \in {"load", "store"} => reload[t].conf.version > shared.version
         /\ reload[t].phase # "idle" => reload[Con!Other(t)].phase = "idle"
         /\ reload[t].phase = "slots" =>
              \A j \in 1..5 : j < reload[t].slot => slots[j] = Con!Get(t).version

\* If the server thread had its copy before the first reload, that copy is the first one.
FirstInv ==
  ~early => IF local["server"].version = 0
            THEN shared = Con!First /\ \A t \in Con!Reloaders : reload[t].phase = "idle"
            ELSE local["server"] = Con!First

ConfigInv == ConfigTypes /\ VersionInv /\ FirstInv /\ Con!ConfigFollowed

\* A thread that reloads has got to phase ph, with configuration c and slot i.
Moved(t, ph, c, i) ==
  \E f, res : reload' = [reload EXCEPT ![t] = Reload(ph, c, i, f, res)]

\* Reload is a record: its fields are what was put in.
LEMMA ReloadFields ==
  ASSUME NEW ph, NEW c, NEW i, NEW f, NEW res
  PROVE  LET r == Reload(ph, c, i, f, res) IN
         /\ r.phase = ph /\ r.conf = c /\ r.slot = i /\ r.for = f /\ r.result = res
         /\ r = Reload(r.phase, r.conf, r.slot, r.for, r.result)
PROOF BY DEF Reload

\* A reloader that moved has the phase, configuration and slot that it moved to.
LEMMA MovedFields ==
  ASSUME ConfigTypes, NEW t \in Con!Reloaders, NEW ph, NEW c, NEW i, Moved(t, ph, c, i)
  PROVE  LET r == reload'[t] IN
         /\ r.phase = ph /\ r.conf = c /\ r.slot = i
         /\ r = Reload(r.phase, r.conf, r.slot, r.for, r.result)
         /\ \A u \in Con!Reloaders \ {t} : reload'[u] = reload[u]
         /\ reload' = [u \in Con!Reloaders |-> reload'[u]]
PROOF
  <1>1. PICK f, res : reload' = [reload EXCEPT ![t] = Reload(ph, c, i, f, res)]
    BY DEF Moved
  <1>2. reload = [u \in Con!Reloaders |-> reload[u]]
    BY DEF ConfigTypes
  <1>3. /\ reload'[t] = Reload(ph, c, i, f, res) /\ \A u \in Con!Reloaders \ {t} : reload'[u] = reload[u]
        /\ reload' = [u \in Con!Reloaders |-> reload'[u]]
    BY <1>1, <1>2
  <1> QED BY <1>3, ReloadFields

\* A configuration keeps everything but its number.
LEMMA Renumbered ==
  ASSUME NEW c, Con!IsConfig(c), NEW v, NEW d, d = [c EXCEPT !.version = v]
  PROVE  /\ d.version = v /\ d.state = c.state /\ (Con!Complete(c) => Con!Complete(d))
         /\ \A o : Con!Values(d, o) = Con!Values(c, o)
PROOF
  <1> DEFINE a == c.values  b == c.acls  e == c.section  f == c.sections  g == c.custom  h == c.state
  <1>1. c = [version |-> c.version, values |-> a, acls |-> b, section |-> e, sections |-> f,
             custom |-> g, state |-> h]
    BY DEF Con!IsConfig
  <1> HIDE DEF a, b, e, f, g, h
  <1>2. d = [version |-> v, values |-> a, acls |-> b, section |-> e, sections |-> f,
             custom |-> g, state |-> h]
    BY <1>1
  <1>3. /\ d.version = v /\ d.values = a /\ d.acls = b /\ d.section = e /\ d.sections = f
        /\ d.custom = g /\ d.state = h
    BY <1>2
  <1>4. Con!IsConfig(d)
    BY <1>2, <1>3 DEF Con!IsConfig
  <1>5. d.values = c.values /\ d.acls = c.acls /\ d.custom = c.custom /\ d.state = c.state
    BY <1>3 DEF a, b, g, h
  <1>6. \A o : Con!Values(d, o) = Con!Values(c, o)
    BY <1>5 DEF Con!Values
  <1>7. Con!Complete(c) => Con!Complete(d)
    BY <1>4, <1>5, <1>6, Zenon DEF Con!Complete
  <1> QED BY <1>3, <1>5, <1>6, <1>7

\* The blank configuration has no version and takes any.
LEMMA BlankNumbered ==
  Con!Blank.version = 0 /\ \A v : [Con!Blank EXCEPT !.version = v].version = v
PROOF BY DEF Con!Blank

\* What the steps of a reload do to it.
LEMMA StartMoves ==
  ASSUME NEW t \in Con!Reloaders, Con!StartLoad(t)
  PROVE  /\ reload[t].phase = "idle"
         /\ Moved(t, "load", [Con!Blank EXCEPT !.version = latestVersion'], 0)
         /\ \/ latestVersion' = latestVersion + 1
            \/ latestVersion' = latestVersion /\ reload[Con!Other(t)].phase = "load"
PROOF
  <1> DEFINE who == IF t = "server"
                    THEN CHOOSE d \in {f \in Clients : command[f] = "reloading" /\ answer[f] = Con!NoAnswer} : TRUE
                    ELSE Con!None
  <1>0. PICK v \in {latestVersion + 1} \cup
              {w \in {latestVersion} : /\ reload[Con!Other(t)].phase = "load"
                                      /\ reload[Con!Other(t)].conf.version = w} :
          /\ latestVersion' = v
          /\ reload' = [reload EXCEPT ![t] =
               [Con!Idle EXCEPT !.phase = "load", !.conf = [Con!Blank EXCEPT !.version = v], !.for = who]]
    BY Zenon DEF Con!StartLoad
  <1> HIDE DEF who
  <1>1. /\ latestVersion' = v
        /\ v = latestVersion + 1 \/ (v = latestVersion /\ reload[Con!Other(t)].phase = "load")
        /\ reload' = [reload EXCEPT ![t] =
             [Con!Idle EXCEPT !.phase = "load", !.conf = [Con!Blank EXCEPT !.version = v], !.for = who]]
    BY <1>0
  <1> DEFINE c == [Con!Blank EXCEPT !.version = v]
             b == Con!Blank
             n == Con!None
  <1>2. Con!Idle = [phase |-> "idle", conf |-> b, slot |-> 0, for |-> n, result |-> "okay"]
    BY DEF Con!Idle
  <1> HIDE DEF c, b, n
  <1>3. [Con!Idle EXCEPT !.phase = "load", !.conf = c, !.for = who] = Reload("load", c, 0, who, "okay")
    <2>1. [Con!Idle EXCEPT !.phase = "load"]
            = [phase |-> "load", conf |-> b, slot |-> 0, for |-> n, result |-> "okay"]
      BY <1>2
    <2>2. [[phase |-> "load", conf |-> b, slot |-> 0, for |-> n, result |-> "okay"] EXCEPT !.conf = c]
            = [phase |-> "load", conf |-> c, slot |-> 0, for |-> n, result |-> "okay"]
      OBVIOUS
    <2>3. [[phase |-> "load", conf |-> c, slot |-> 0, for |-> n, result |-> "okay"] EXCEPT !.for = who]
            = [phase |-> "load", conf |-> c, slot |-> 0, for |-> who, result |-> "okay"]
      OBVIOUS
    <2>4. [Con!Idle EXCEPT !.phase = "load", !.conf = c, !.for = who]
            = [[[Con!Idle EXCEPT !.phase = "load"] EXCEPT !.conf = c] EXCEPT !.for = who]
      BY Zenon
    <2> QED BY <2>1, <2>2, <2>3, <2>4 DEF Reload
  <1>4. Moved(t, "load", c, 0)
    BY <1>1, <1>3 DEF Moved, c
  <1>5. c = [Con!Blank EXCEPT !.version = latestVersion']
    BY <1>1 DEF c
  <1> QED BY <1>1, <1>4, <1>5 DEF Con!StartLoad

\* A load ends with a complete configuration of its number, or with an error and none.
LEMMA LoadMoves ==
  ASSUME Con!ConfigAssumption, ConfigTypes, NEW t \in Con!Reloaders, NEW k \in DOMAIN Loads,
         Con!LoadFile(t, k)
  PROVE  /\ reload[t].phase = "load"
         /\ \/ \E c : Con!Complete(c) /\ c.version = reload[t].conf.version
                      /\ Moved(t, "store", c, reload[t].slot)
            \/ Moved(t, "templates", Con!Blank, reload[t].slot)
PROOF
  <1> DEFINE c == [Loads[k] EXCEPT !.version = reload[t].conf.version]
             p == reload[t].phase  d == reload[t].conf  i == reload[t].slot
             f == reload[t].for  res == reload[t].result
             b == Con!Blank
  <1>1. Con!IsConfig(Loads[k]) /\ (Loads[k].state = "good" => Con!Complete(Loads[k]))
    BY DEF Con!ConfigAssumption
  <1>2. c.version = d.version /\ c.state = Loads[k].state /\ (Con!Complete(Loads[k]) => Con!Complete(c))
    BY <1>1, Renumbered
  <1>3. /\ reload[t].phase = "load"
        /\ reload' = [reload EXCEPT ![t] =
             IF c.state = "good" THEN [reload[t] EXCEPT !.phase = "store", !.conf = c]
             ELSE [reload[t] EXCEPT !.phase = "templates", !.result = "fail", !.conf = b]]
    BY DEF Con!LoadFile, ConfigTypes
  <1>4. reload[t] = [phase |-> p, conf |-> d, slot |-> i, for |-> f, result |-> res]
    BY DEF ConfigTypes, ReloadShape, Reload
  <1> HIDE DEF c, p, d, i, f, res, b
  <1>5. [reload[t] EXCEPT !.phase = "store", !.conf = c] = Reload("store", c, i, f, res)
    <2>1. [reload[t] EXCEPT !.phase = "store"]
            = [phase |-> "store", conf |-> d, slot |-> i, for |-> f, result |-> res]
      BY <1>4
    <2>2. [[phase |-> "store", conf |-> d, slot |-> i, for |-> f, result |-> res] EXCEPT !.conf = c]
            = [phase |-> "store", conf |-> c, slot |-> i, for |-> f, result |-> res]
      OBVIOUS
    <2>3. [reload[t] EXCEPT !.phase = "store", !.conf = c]
            = [[reload[t] EXCEPT !.phase = "store"] EXCEPT !.conf = c]
      BY Zenon
    <2> QED BY <2>1, <2>2, <2>3 DEF Reload
  <1>6. [reload[t] EXCEPT !.phase = "templates", !.result = "fail", !.conf = b]
          = Reload("templates", b, i, f, "fail")
    <2>1. [reload[t] EXCEPT !.phase = "templates"]
            = [phase |-> "templates", conf |-> d, slot |-> i, for |-> f, result |-> res]
      BY <1>4
    <2>2. [[phase |-> "templates", conf |-> d, slot |-> i, for |-> f, result |-> res] EXCEPT !.result = "fail"]
            = [phase |-> "templates", conf |-> d, slot |-> i, for |-> f, result |-> "fail"]
      OBVIOUS
    <2>3. [[phase |-> "templates", conf |-> d, slot |-> i, for |-> f, result |-> "fail"] EXCEPT !.conf = b]
            = [phase |-> "templates", conf |-> b, slot |-> i, for |-> f, result |-> "fail"]
      OBVIOUS
    <2>4. [reload[t] EXCEPT !.phase = "templates", !.result = "fail", !.conf = b]
            = [[[reload[t] EXCEPT !.phase = "templates"] EXCEPT !.result = "fail"] EXCEPT !.conf = b]
      BY Zenon
    <2> QED BY <2>1, <2>2, <2>3, <2>4 DEF Reload
  <1>7. CASE c.state = "good"
    <2>1. Moved(t, "store", c, i) /\ Con!Complete(c)
      BY <1>1, <1>2, <1>3, <1>5, <1>7 DEF Moved
    <2> QED BY <1>2, <1>3, <2>1 DEF d, i
  <1>8. CASE c.state # "good"
    <2>1. Moved(t, "templates", b, i)
      BY <1>3, <1>6, <1>8 DEF Moved
    <2> QED BY <1>3, <2>1 DEF b, i
  <1> QED BY <1>7, <1>8

\* The store publishes the configuration that was loaded.
LEMMA StoreMoves ==
  ASSUME ConfigTypes, NEW t \in Con!Reloaders, Con!UpdateShared(t)
  PROVE  reload[t].phase = "store" /\ shared' = reload[t].conf /\ Moved(t, "slots", Con!Blank, 1)
PROOF
  <1> DEFINE p == reload[t].phase  d == reload[t].conf  i == reload[t].slot
             f == reload[t].for  res == reload[t].result  b == Con!Blank
  <1>1. /\ reload[t].phase = "store" /\ shared' = reload[t].conf
        /\ reload' = [reload EXCEPT ![t].phase = "slots", ![t].slot = 1, ![t].conf = b]
    BY DEF Con!UpdateShared
  <1>2. reload[t] = [phase |-> p, conf |-> d, slot |-> i, for |-> f, result |-> res]
    BY DEF ConfigTypes, ReloadShape, Reload
  <1>3. reload = [u \in Con!Reloaders |-> reload[u]]
    BY DEF ConfigTypes
  <1> HIDE DEF p, d, i, f, res, b
  <1>4. reload' = [reload EXCEPT ![t] = [[[reload[t] EXCEPT !.phase = "slots"] EXCEPT !.slot = 1] EXCEPT !.conf = b]]
    BY <1>1, <1>3
  <1>5. [reload[t] EXCEPT !.phase = "slots"]
          = [phase |-> "slots", conf |-> d, slot |-> i, for |-> f, result |-> res]
    BY <1>2
  <1>6. [[phase |-> "slots", conf |-> d, slot |-> i, for |-> f, result |-> res] EXCEPT !.slot = 1]
          = [phase |-> "slots", conf |-> d, slot |-> 1, for |-> f, result |-> res]
    OBVIOUS
  <1>7. [[phase |-> "slots", conf |-> d, slot |-> 1, for |-> f, result |-> res] EXCEPT !.conf = b]
          = [phase |-> "slots", conf |-> b, slot |-> 1, for |-> f, result |-> res]
    OBVIOUS
  <1>8. reload' = [reload EXCEPT ![t] = Reload("slots", b, 1, f, res)]
    BY <1>4, <1>5, <1>6, <1>7 DEF Reload
  <1> QED BY <1>1, <1>8 DEF Moved, b

\* Each slot is told the version that its reloader reads.
LEMMA SlotMoves ==
  ASSUME ConfigTypes, NEW t \in Con!Reloaders, Con!Slot(t)
  PROVE  LET r == reload[t] IN
         /\ r.phase = "slots" /\ slots' = [slots EXCEPT ![r.slot] = Con!Get(t).version]
         /\ IF r.slot = 5 THEN Moved(t, "templates", r.conf, 0) ELSE Moved(t, "slots", r.conf, r.slot + 1)
PROOF
  <1> DEFINE p == reload[t].phase  d == reload[t].conf  i == reload[t].slot
             f == reload[t].for  res == reload[t].result
  <1>1. /\ reload[t].phase = "slots" /\ slots' = [slots EXCEPT ![i] = Con!Get(t).version]
        /\ reload' = [reload EXCEPT ![t] =
             IF i = Len(Con!Slots) THEN [reload[t] EXCEPT !.phase = "templates", !.slot = 0]
             ELSE [reload[t] EXCEPT !.slot = i + 1]]
    BY DEF Con!Slot
  <1>2. reload[t] = [phase |-> p, conf |-> d, slot |-> i, for |-> f, result |-> res]
    BY DEF ConfigTypes, ReloadShape, Reload
  <1>3. Len(Con!Slots) = 5
    BY DEF Con!Slots
  <1> HIDE DEF p, d, i, f, res
  <1>4. [reload[t] EXCEPT !.phase = "templates", !.slot = 0] = Reload("templates", d, 0, f, res)
    <2>1. [reload[t] EXCEPT !.phase = "templates"]
            = [phase |-> "templates", conf |-> d, slot |-> i, for |-> f, result |-> res]
      BY <1>2
    <2>2. [[phase |-> "templates", conf |-> d, slot |-> i, for |-> f, result |-> res] EXCEPT !.slot = 0]
            = [phase |-> "templates", conf |-> d, slot |-> 0, for |-> f, result |-> res]
      OBVIOUS
    <2>3. [reload[t] EXCEPT !.phase = "templates", !.slot = 0]
            = [[reload[t] EXCEPT !.phase = "templates"] EXCEPT !.slot = 0]
      BY Zenon
    <2> QED BY <2>1, <2>2, <2>3 DEF Reload
  <1>5. [reload[t] EXCEPT !.slot = i + 1] = Reload("slots", d, i + 1, f, res)
    <2>1. p = "slots"
      BY <1>1 DEF p
    <2> QED BY <1>2, <2>1 DEF Reload
  <1>6. IF i = 5 THEN Moved(t, "templates", d, 0) ELSE Moved(t, "slots", d, i + 1)
    BY <1>1, <1>3, <1>4, <1>5 DEF Moved
  <1> QED BY <1>1, <1>6 DEF d, i

\* The templates end the reload or leave the server to reply.
LEMMA TemplateMoves ==
  ASSUME ConfigTypes, NEW t \in Con!Reloaders, NEW dir, Con!InitTemplates(t, dir)
  PROVE  /\ reload[t].phase = "templates"
         /\ \/ Moved(t, "idle", Con!Blank, 0)
            \/ Moved(t, "check", reload[t].conf, reload[t].slot)
            \/ Moved(t, "checkbad", reload[t].conf, reload[t].slot)
PROOF
  <1> DEFINE p == reload[t].phase  d == reload[t].conf  i == reload[t].slot
             f == reload[t].for  res == reload[t].result
             next == IF dir = "bad" THEN "checkbad" ELSE "check"
  <1>1. /\ reload[t].phase = "templates"
        /\ reload' = [reload EXCEPT ![t] = IF t = "signals" THEN Con!Idle ELSE [reload[t] EXCEPT !.phase = next]]
    BY DEF Con!InitTemplates, ConfigTypes
  <1>2. reload[t] = [phase |-> p, conf |-> d, slot |-> i, for |-> f, result |-> res]
    BY DEF ConfigTypes, ReloadShape, Reload
  <1>3. next \in {"check", "checkbad"}
    OBVIOUS
  <1> HIDE DEF p, d, i, f, res, next
  <1>4. [reload[t] EXCEPT !.phase = next] = Reload(next, d, i, f, res)
    BY <1>2 DEF Reload
  <1>5. Con!Idle = Reload("idle", Con!Blank, 0, Con!None, "okay")
    BY DEF Con!Idle, Reload
  <1>6. Moved(t, "idle", Con!Blank, 0) \/ Moved(t, next, d, i)
    BY <1>1, <1>4, <1>5 DEF Moved
  <1> QED BY <1>1, <1>3, <1>6 DEF d, i

\* The reply ends a reload of the server.
LEMMA ReplyMoves ==
  ASSUME Con!Reply
  PROVE  reload["server"].phase \in {"check", "checkbad"} /\ Moved("server", "idle", Con!Blank, 0)
PROOF
  <1>1. Con!Idle = Reload("idle", Con!Blank, 0, Con!None, "okay")
    BY DEF Con!Idle, Reload
  <1> QED BY <1>1 DEF Con!Reply, Moved

\* A thread sees a complete configuration, and the same one until it brings itself up to date.
LEMMA GetRight ==
  ASSUME ConfigTypes, NEW t \in Con!Threads
  PROVE  /\ Con!Get(t).version \in Nat \ {0} /\ Con!Complete(Con!Get(t))
         /\ Con!Get(t) = IF local[t].version = 0 THEN shared ELSE local[t]
PROOF
  <1>1. /\ latestVersion \in Nat /\ shared.version \in 1..latestVersion /\ Con!Complete(shared)
        /\ local[t].version \in Nat /\ (local[t].version # 0 => Con!Complete(local[t]))
    BY DEF ConfigTypes
  <1> QED BY <1>1 DEF Con!Get

\* The threads' own part of ConfigTypes, for a step that gives thread t the copy x.
LocalTypes ==
  /\ local = [t \in Con!Threads |-> local[t]]
  /\ \A t \in Con!Threads : /\ local[t].version \in Nat
                            /\ local[t].version # 0 => Con!Complete(local[t])

\* A thread that takes a copy leaves those of the others alone.
LEMMA CopyTaken ==
  ASSUME LocalTypes, NEW t \in Con!Threads, NEW x, x.version \in Nat, x.version # 0 => Con!Complete(x),
         local' = [local EXCEPT ![t] = x]
  PROVE  LocalTypes' /\ local'[t] = x /\ \A u \in Con!Threads \ {t} : local'[u] = local[u]
PROOF
  <1>1. local = [u \in Con!Threads |-> local[u]]
    BY DEF LocalTypes
  <1>2. /\ local'[t] = x /\ \A u \in Con!Threads \ {t} : local'[u] = local[u]
        /\ local' = [u \in Con!Threads |-> local'[u]]
    BY <1>1
  <1>3. ASSUME NEW u \in Con!Threads
        PROVE  local'[u].version \in Nat /\ (local'[u].version # 0 => Con!Complete(local'[u]))
    BY <1>2 DEF LocalTypes
  <1>4. \A u \in Con!Threads : /\ local'[u].version \in Nat
                               /\ local'[u].version # 0 => Con!Complete(local'[u])
    BY <1>3
  <1> QED BY <1>2, <1>4 DEF LocalTypes, Con!Complete, Con!IsConfig, Con!Values

\* A reload that moves keeps its record in shape.
LEMMA ShapesKept ==
  ASSUME ConfigTypes, NEW t \in Con!Reloaders, NEW ph \in Phases, NEW c, NEW i, Moved(t, ph, c, i),
         latestVersion' \in Nat, latestVersion' >= latestVersion, c.version \in 0..latestVersion',
         ph \in {"load", "store"} => c.version # 0, ph = "store" => Con!Complete(c),
         ph = "slots" => i \in 1..5
  PROVE  /\ reload' = [u \in Con!Reloaders |-> reload'[u]]
         /\ \A u \in Con!Reloaders : ReloadShape(reload[u])'
PROOF
  <1>1. /\ reload'[t].phase = ph /\ reload'[t].conf = c /\ reload'[t].slot = i
        /\ reload'[t] = Reload(reload'[t].phase, reload'[t].conf, reload'[t].slot, reload'[t].for,
                               reload'[t].result)
        /\ \A u \in Con!Reloaders \ {t} : reload'[u] = reload[u]
        /\ reload' = [u \in Con!Reloaders |-> reload'[u]]
    BY MovedFields
  <1>2. ReloadShape(reload[t])'
    BY <1>1, Zenon DEF ReloadShape
  <1>3. ASSUME NEW u \in Con!Reloaders, u # t PROVE ReloadShape(reload[u])'
    <2>1. ReloadShape(reload[u]) /\ reload'[u] = reload[u] /\ latestVersion \in Nat
      BY <1>1, <1>3 DEF ConfigTypes
    <2>2. reload[u].conf.version \in 0..latestVersion'
      BY <2>1 DEF ReloadShape
    <2> QED BY <2>1, <2>2 DEF ReloadShape
  <1> QED BY <1>1, <1>2, <1>3

\* Every step keeps the types of the configuration.
LEMMA ConfigTypesKept ==
  ASSUME Con!ConfigAssumption, ConfigTypes, Con!Next
  PROVE  ConfigTypes'
PROOF
  <1> DEFINE Rest == /\ latestVersion \in Nat /\ shared.version \in 1..latestVersion /\ Con!Complete(shared)
                     /\ reload = [t \in Con!Reloaders |-> reload[t]]
                     /\ \A t \in Con!Reloaders : ReloadShape(reload[t])
             Others == /\ slots = [i \in 1..5 |-> slots[i]]
                       /\ command = [c \in Clients |-> command[c]] /\ answer = [c \in Clients |-> answer[c]]
                       /\ behind \in [Clients -> BOOLEAN] /\ overlapped \in BOOLEAN /\ early \in BOOLEAN
  <1>0. LocalTypes /\ Rest /\ Others
    BY DEF ConfigTypes, LocalTypes
  <1>q. LocalTypes' /\ Rest' /\ Others' => ConfigTypes'
    BY DEF ConfigTypes, LocalTypes
  <1>s. UNCHANGED <<latestVersion, shared, reload>> => Rest'
    BY <1>0 DEF ReloadShape, Con!Complete, Con!IsConfig, Con!Values
  <1>l. UNCHANGED local => LocalTypes'
    BY <1>0 DEF LocalTypes, Con!Complete, Con!IsConfig, Con!Values
  <1>t. Con!Reloaders \subseteq Con!Threads /\ Clients \subseteq Con!Threads /\ "server" \in Con!Reloaders
    BY DEF Con!Threads, Con!Reloaders
  <1>g. \A t \in Con!Threads : Con!Get(t).version \in Nat /\ Con!Complete(Con!Get(t))
    BY GetRight
  <1>b. Con!Blank.version = 0
    BY BlankNumbered
  <1>1. CASE Con!Reply
    <2>1. Moved("server", "idle", Con!Blank, 0) /\ UNCHANGED <<latestVersion, shared, local>>
      BY <1>1, ReplyMoves DEF Con!Reply
    <2>2. reload' = [u \in Con!Reloaders |-> reload'[u]] /\ \A u \in Con!Reloaders : ReloadShape(reload[u])'
      BY <1>0, <1>b, <1>t, <2>1, ShapesKept DEF Phases
    <2>3. Rest'
      BY <1>0, <2>1, <2>2 DEF Con!Complete, Con!IsConfig, Con!Values
    <2>4. Others'
      BY <1>0, <1>1 DEF Con!Reply
    <2> QED BY <1>l, <1>q, <2>1, <2>3, <2>4
  <1>2. ASSUME NEW c \in Clients, Con!Accept(c) PROVE ConfigTypes'
    <2> DEFINE mid == [local EXCEPT !["server"] = Con!Get("server")]
    <2>1. local' = [mid EXCEPT ![c] = Con!Blank] /\ UNCHANGED <<latestVersion, shared, reload>>
      BY <1>2 DEF Con!Accept
    <2>2. Others'
      BY <1>0, <1>2 DEF Con!Accept
    <2>3. local = [t \in Con!Threads |-> local[t]]
      BY <1>0 DEF LocalTypes
    <2>4. mid = [t \in Con!Threads |-> IF t = "server" THEN Con!Get("server") ELSE local[t]]
      BY <2>3
    <2> HIDE DEF mid
    <2>5. local' = [t \in Con!Threads |-> IF t = c THEN Con!Blank ELSE mid[t]]
      BY <2>1, <2>4
    <2>6. ASSUME NEW t \in Con!Threads
          PROVE  local'[t].version \in Nat /\ (local'[t].version # 0 => Con!Complete(local'[t]))
      <3>1. local'[t] \in {Con!Blank, Con!Get("server"), local[t]}
        BY <2>4, <2>5
      <3> QED BY <1>0, <1>b, <1>g, <1>t, <3>1 DEF LocalTypes
    <2>7. \A t \in Con!Threads : /\ local'[t].version \in Nat
                                 /\ local'[t].version # 0 => Con!Complete(local'[t])
      BY <2>6
    <2>8. LocalTypes'
      BY <2>5, <2>7 DEF LocalTypes, Con!Complete, Con!IsConfig, Con!Values
    <2> QED BY <1>q, <1>s, <2>1, <2>2, <2>8
  <1>3. ASSUME NEW c \in Clients, Con!Command(c) PROVE ConfigTypes'
    <2>1. local' = [local EXCEPT ![c] = Con!UpdateLocal(c)] /\ UNCHANGED <<latestVersion, shared, reload>>
      BY <1>3 DEF Con!Command
    <2>2. Con!UpdateLocal(c).version \in Nat
          /\ (Con!UpdateLocal(c).version # 0 => Con!Complete(Con!UpdateLocal(c)))
      BY <1>0, <1>t DEF Con!UpdateLocal, LocalTypes
    <2>3. LocalTypes'
      BY <1>0, <1>t, <2>1, <2>2, CopyTaken
    <2>4. Others'
      BY <1>0, <1>3 DEF Con!Command
    <2> QED BY <1>q, <1>s, <2>1, <2>3, <2>4
  <1>4. ASSUME NEW c \in Clients, Con!RELOADCommand(c) PROVE ConfigTypes'
    <2>1. local' = [local EXCEPT ![c] = Con!Get(c)] /\ UNCHANGED <<latestVersion, shared, reload>>
      BY <1>4 DEF Con!RELOADCommand
    <2>2. LocalTypes'
      BY <1>0, <1>t, <1>g, <2>1, CopyTaken
    <2>3. Others'
      BY <1>0, <1>4 DEF Con!RELOADCommand
    <2> QED BY <1>q, <1>s, <2>1, <2>2, <2>3
  <1>5. ASSUME NEW t \in Con!Reloaders, Con!StartLoad(t) PROVE ConfigTypes'
    <2> DEFINE c == [Con!Blank EXCEPT !.version = latestVersion']
    <2>1. /\ Moved(t, "load", c, 0) /\ UNCHANGED <<shared, local>>
          /\ latestVersion' = latestVersion + 1 \/ latestVersion' = latestVersion
      BY <1>5, StartMoves DEF Con!StartLoad
    <2>2. c.version = latestVersion'
      BY BlankNumbered
    <2> HIDE DEF c
    <2>3. /\ latestVersion' \in Nat /\ latestVersion' >= latestVersion
          /\ c.version \in 0..latestVersion' /\ c.version # 0
      BY <1>0, <2>1, <2>2
    <2>4. reload' = [u \in Con!Reloaders |-> reload'[u]] /\ \A u \in Con!Reloaders : ReloadShape(reload[u])'
      BY <2>1, <2>3, ShapesKept DEF Phases
    <2>5. shared'.version \in 1..latestVersion' /\ Con!Complete(shared)'
      BY <1>0, <2>1, <2>3 DEF Con!Complete, Con!IsConfig, Con!Values
    <2>6. Others'
      BY <1>0, <1>5 DEF Con!StartLoad
    <2> QED BY <1>l, <1>q, <2>1, <2>3, <2>4, <2>5, <2>6
  <1>6. ASSUME NEW t \in Con!Reloaders, Con!UpdateShared(t) PROVE ConfigTypes'
    <2>1. /\ reload[t].phase = "store" /\ shared' = reload[t].conf /\ Moved(t, "slots", Con!Blank, 1)
          /\ UNCHANGED <<latestVersion, local>>
      BY <1>6, StoreMoves DEF Con!UpdateShared
    <2>2. reload' = [u \in Con!Reloaders |-> reload'[u]] /\ \A u \in Con!Reloaders : ReloadShape(reload[u])'
      BY <1>0, <1>b, <2>1, ShapesKept DEF Phases
    <2>3. Con!Complete(reload[t].conf) /\ reload[t].conf.version \in 1..latestVersion
      BY <1>0, <2>1 DEF ReloadShape
    <2>4. shared'.version \in 1..latestVersion' /\ Con!Complete(shared)'
      BY <2>1, <2>3 DEF Con!Complete, Con!IsConfig, Con!Values
    <2>5. Others'
      BY <1>0, <1>6 DEF Con!UpdateShared
    <2> QED BY <1>0, <1>l, <1>q, <2>1, <2>2, <2>4, <2>5
  <1>7. ASSUME NEW t \in Con!Reloaders, Con!Slot(t) PROVE ConfigTypes'
    <2> DEFINE r == reload[t]
    <2>1. /\ slots' = [slots EXCEPT ![r.slot] = Con!Get(t).version]
          /\ r.phase = "slots" /\ local' = [local EXCEPT ![t] = Con!Get(t)]
          /\ UNCHANGED <<latestVersion, shared>>
      BY <1>7, SlotMoves DEF Con!Slot
    <2>2. IF r.slot = 5 THEN Moved(t, "templates", r.conf, 0) ELSE Moved(t, "slots", r.conf, r.slot + 1)
      BY <1>7, SlotMoves
    <2>3. r.conf.version \in 0..latestVersion /\ r.slot \in 1..5
      BY <1>0, <2>1 DEF ReloadShape
    <2>4. reload' = [u \in Con!Reloaders |-> reload'[u]] /\ \A u \in Con!Reloaders : ReloadShape(reload[u])'
      <3>1. CASE r.slot = 5
        BY <1>0, <2>1, <2>2, <2>3, <3>1, ShapesKept DEF Phases
      <3>2. CASE r.slot # 5
        <4>1. r.slot + 1 \in 1..5
          BY <2>3, <3>2
        <4> QED BY <1>0, <2>1, <2>2, <2>3, <3>2, <4>1, ShapesKept DEF Phases
      <3> QED BY <3>1, <3>2
    <2>5. LocalTypes'
      BY <1>0, <1>g, <1>t, <2>1, CopyTaken
    <2>6. Others'
      BY <1>0, <1>7, <2>1 DEF Con!Slot
    <2>7. Rest'
      BY <1>0, <2>1, <2>4 DEF Con!Complete, Con!IsConfig, Con!Values
    <2> QED BY <1>q, <2>5, <2>6, <2>7
  <1>8. ASSUME NEW t \in Con!Reloaders, NEW k \in DOMAIN Loads, Con!LoadFile(t, k) PROVE ConfigTypes'
    <2> DEFINE r == reload[t]
    <2>1. r.phase = "load" /\ UNCHANGED <<latestVersion, shared, local>>
      BY <1>8 DEF Con!LoadFile
    <2>2. r.conf.version \in 1..latestVersion
      BY <1>0, <2>1 DEF ReloadShape
    <2>3. reload' = [u \in Con!Reloaders |-> reload'[u]] /\ \A u \in Con!Reloaders : ReloadShape(reload[u])'
      <3>1. ASSUME NEW c, Con!Complete(c), c.version = r.conf.version, Moved(t, "store", c, r.slot)
            PROVE  reload' = [u \in Con!Reloaders |-> reload'[u]]
                   /\ \A u \in Con!Reloaders : ReloadShape(reload[u])'
        <4>1. c.version \in 0..latestVersion' /\ c.version # 0 /\ latestVersion' >= latestVersion
          BY <1>0, <2>1, <2>2, <3>1
        <4> QED BY <1>0, <2>1, <3>1, <4>1, ShapesKept DEF Phases
      <3>2. ASSUME Moved(t, "templates", Con!Blank, r.slot)
            PROVE  reload' = [u \in Con!Reloaders |-> reload'[u]]
                   /\ \A u \in Con!Reloaders : ReloadShape(reload[u])'
        BY <1>0, <1>b, <2>1, <3>2, ShapesKept DEF Phases
      <3> QED BY <1>8, <3>1, <3>2, LoadMoves
    <2>4. Others'
      BY <1>0, <1>8 DEF Con!LoadFile
    <2>5. Rest'
      BY <1>0, <2>1, <2>3 DEF Con!Complete, Con!IsConfig, Con!Values
    <2> QED BY <1>l, <1>q, <2>1, <2>4, <2>5
  <1>9. ASSUME NEW t \in Con!Reloaders, NEW dir, Con!InitTemplates(t, dir) PROVE ConfigTypes'
    <2> DEFINE r == reload[t]
    <2>1. local' = [local EXCEPT ![t] = Con!Get(t)] /\ UNCHANGED <<latestVersion, shared>>
      BY <1>9 DEF Con!InitTemplates
    <2>2. r.conf.version \in 0..latestVersion
      BY <1>0 DEF ReloadShape
    <2>a. PICK ph \in {"idle", "check", "checkbad"}, c \in {Con!Blank, r.conf} : \E i : Moved(t, ph, c, i)
      BY <1>9, TemplateMoves
    <2>3. PICK i : Moved(t, ph, c, i)
      BY <2>a
    <2>4. c.version \in 0..latestVersion
      BY <1>0, <1>b, <2>2
    <2>5. reload' = [u \in Con!Reloaders |-> reload'[u]] /\ \A u \in Con!Reloaders : ReloadShape(reload[u])'
      <3>1. ph \in Phases /\ ph \notin {"load", "store", "slots"}
        BY DEF Phases
      <3>2. latestVersion' \in Nat /\ latestVersion' >= latestVersion /\ c.version \in 0..latestVersion'
        BY <1>0, <2>1, <2>4
      <3> QED BY <2>3, <3>1, <3>2, ShapesKept
    <2>6. LocalTypes'
      BY <1>0, <1>g, <1>t, <2>1, CopyTaken
    <2>7. Others'
      BY <1>0, <1>9 DEF Con!InitTemplates
    <2>8. Rest'
      BY <1>0, <2>1, <2>5 DEF Con!Complete, Con!IsConfig, Con!Values
    <2> QED BY <1>q, <2>6, <2>7, <2>8
  <1> QED BY <1>1, <1>2, <1>3, <1>4, <1>5, <1>6, <1>7, <1>8, <1>9 DEF Con!Next

\* No copy passes for newer than the shared one.
CopiesOlder == \A t \in Con!Threads : local[t].version < shared.version \/ local[t] = shared
ReloadsApart(t) ==
  /\ reload[t].phase \in {"load", "store"} => reload[t].conf.version > shared.version
  /\ reload[t].phase # "idle" => reload[Con!Other(t)].phase = "idle"
  /\ reload[t].phase = "slots" => \A j \in 1..5 : j < reload[t].slot => slots[j] = Con!Get(t).version

\* The server and the signal are the reloaders, and each is a thread.
LEMMA TwoReloaders ==
  /\ Con!Reloaders \subseteq Con!Threads /\ "server" \in Con!Reloaders
  /\ Clients \subseteq Con!Threads
  /\ \A t \in Con!Reloaders : Con!Other(t) \in Con!Reloaders \ {t} /\ Con!Other(Con!Other(t)) = t
  /\ \A t, u \in Con!Reloaders : u = t \/ u = Con!Other(t)
PROOF BY DEF Con!Threads, Con!Reloaders, Con!Other

\* The versions in two parts: those of the copies, and those of the reloads.
LEMMA VersionParts ==
  VersionInv <=> (~overlapped => CopiesOlder /\ \A t \in Con!Reloaders : ReloadsApart(t))
PROOF BY DEF VersionInv, CopiesOlder, ReloadsApart

\* A reload that moves alone keeps its number ahead of the copies and its slots in step.
LEMMA MoveKeeps ==
  ASSUME ConfigTypes, NEW t \in Con!Reloaders, NEW ph, NEW c, NEW i, Moved(t, ph, c, i),
         reload[Con!Other(t)].phase = "idle", CopiesOlder',
         ph \in {"load", "store"} => c.version > shared'.version,
         ph = "slots" => \A j \in 1..5 : j < i => slots'[j] = Con!Get(t)'.version
  PROVE  VersionInv'
PROOF
  <1>1. /\ reload'[t].phase = ph /\ reload'[t].conf = c /\ reload'[t].slot = i
        /\ \A u \in Con!Reloaders \ {t} : reload'[u] = reload[u]
    BY MovedFields
  <1>2. reload'[Con!Other(t)].phase = "idle"
    BY <1>1, TwoReloaders
  <1>3. ReloadsApart(t)'
    BY <1>1, <1>2 DEF ReloadsApart
  <1>4. ReloadsApart(Con!Other(t))'
    BY <1>2 DEF ReloadsApart
  <1>5. \A u \in Con!Reloaders : ReloadsApart(u)'
    BY <1>3, <1>4, TwoReloaders
  <1>6. VersionInv' <=> (~overlapped' => CopiesOlder' /\ \A u \in Con!Reloaders : ReloadsApart(u)')
    BY DEF VersionInv, CopiesOlder, ReloadsApart
  <1> QED BY <1>5, <1>6

\* Every step keeps the versions in order.
LEMMA VersionKept ==
  ASSUME Con!ConfigAssumption, ConfigTypes, VersionInv, Con!Next
  PROVE  VersionInv'
PROOF
  <1>p. VersionInv' <=> (~overlapped' => CopiesOlder' /\ \A t \in Con!Reloaders : ReloadsApart(t)')
    BY DEF VersionInv, CopiesOlder, ReloadsApart
  <1>o. ~overlapped' => ~overlapped
    BY DEF Con!Next, Con!Reply, Con!Accept, Con!Command, Con!RELOADCommand, Con!StartLoad, Con!UpdateShared,
       Con!Slot, Con!LoadFile, Con!InitTemplates
  <1> SUFFICES ASSUME ~overlapped', ~overlapped PROVE VersionInv'
    BY <1>o, <1>p
  <1>0. CopiesOlder /\ \A t \in Con!Reloaders : ReloadsApart(t)
    BY VersionParts
  <1>t. /\ latestVersion \in Nat /\ shared.version \in 1..latestVersion
        /\ local = [t \in Con!Threads |-> local[t]] /\ \A t \in Con!Threads : local[t].version \in Nat
        /\ \A t \in Con!Reloaders : ReloadShape(reload[t])
    BY DEF ConfigTypes
  <1>g. \A t \in Con!Threads : Con!Get(t).version < shared.version \/ Con!Get(t) = shared
    BY <1>0 DEF CopiesOlder, Con!Get
  <1>b. Con!Blank.version = 0
    BY BlankNumbered
  <1>i. ASSUME NEW t \in Con!Reloaders, reload[t].phase # "idle" PROVE reload[Con!Other(t)].phase = "idle"
    BY <1>0, <1>i DEF ReloadsApart
  <1>k. ASSUME NEW t \in Con!Threads, NEW x, local' = [local EXCEPT ![t] = x], shared' = shared,
               x.version < shared.version \/ x = shared
        PROVE  CopiesOlder'
    BY <1>0, <1>t, <1>k DEF CopiesOlder
  <1>u. UNCHANGED <<local, shared>> => CopiesOlder'
    BY <1>0 DEF CopiesOlder
  <1>1. CASE Con!Reply
    <2>1. /\ Moved("server", "idle", Con!Blank, 0) /\ UNCHANGED <<shared, local>>
          /\ reload["server"].phase # "idle"
      BY <1>1, ReplyMoves DEF Con!Reply
    <2> QED BY <1>i, <1>u, <2>1, TwoReloaders, MoveKeeps
  <1>2. ASSUME NEW c \in Clients, Con!Accept(c) PROVE VersionInv'
    <2> DEFINE mid == [local EXCEPT !["server"] = Con!Get("server")]
    <2>1. /\ local' = [mid EXCEPT ![c] = Con!Blank] /\ UNCHANGED <<shared, reload, slots>>
          /\ reload["server"].phase = "idle"
      BY <1>2 DEF Con!Accept
    <2>2. mid = [t \in Con!Threads |-> IF t = "server" THEN Con!Get("server") ELSE local[t]]
      BY <1>t
    <2> HIDE DEF mid
    <2>3. local' = [t \in Con!Threads |-> IF t = c THEN Con!Blank ELSE mid[t]]
      BY <2>1, <2>2
    <2>4. CopiesOlder'
      BY <1>0, <1>b, <1>g, <1>t, <2>1, <2>2, <2>3, TwoReloaders DEF CopiesOlder
    <2>5. ASSUME NEW t \in Con!Reloaders PROVE ReloadsApart(t)'
      <3>1. CASE t = "server"
        BY <2>1, <3>1 DEF ReloadsApart
      <3>2. CASE t # "server"
        <4>1. t # c
          BY DEF Con!ConfigAssumption
        <4>2. local'[t] = local[t]
          BY <2>2, <2>3, <3>2, <4>1, TwoReloaders
        <4>3. Con!Get(t)' = Con!Get(t)
          BY <2>1, <4>2 DEF Con!Get
        <4> QED BY <1>0, <2>1, <4>3 DEF ReloadsApart
      <3> QED BY <3>1, <3>2
    <2> QED BY <1>p, <2>4, <2>5
  <1>c. ASSUME NEW c \in Clients, NEW x, local' = [local EXCEPT ![c] = x], UNCHANGED <<shared, reload, slots>>,
               x.version < shared.version \/ x = shared
        PROVE  VersionInv'
    <2>1. CopiesOlder'
      BY <1>c, <1>k, TwoReloaders
    <2>2. ASSUME NEW t \in Con!Reloaders PROVE ReloadsApart(t)'
      <3>1. t # c
        BY DEF Con!ConfigAssumption
      <3>2. local'[t] = local[t]
        BY <1>c, <1>t, <3>1, TwoReloaders
      <3>3. Con!Get(t)' = Con!Get(t)
        BY <1>c, <3>2 DEF Con!Get
      <3> QED BY <1>0, <1>c, <3>3 DEF ReloadsApart
    <2> QED BY <1>p, <2>1, <2>2
  <1>3. ASSUME NEW c \in Clients, Con!Command(c) PROVE VersionInv'
    <2>1. Con!UpdateLocal(c).version < shared.version \/ Con!UpdateLocal(c) = shared
      BY <1>0, TwoReloaders DEF CopiesOlder, Con!UpdateLocal
    <2> QED BY <1>3, <1>c, <2>1 DEF Con!Command
  <1>4. ASSUME NEW c \in Clients, Con!RELOADCommand(c) PROVE VersionInv'
    BY <1>4, <1>c, <1>g, TwoReloaders DEF Con!RELOADCommand
  <1>5. ASSUME NEW t \in Con!Reloaders, Con!StartLoad(t) PROVE VersionInv'
    <2> DEFINE c == [Con!Blank EXCEPT !.version = latestVersion']
    <2>1. Moved(t, "load", c, 0) /\ UNCHANGED <<shared, local>>
      BY <1>5, StartMoves DEF Con!StartLoad
    <2>2. reload[Con!Other(t)].phase = "idle"
      BY <1>5 DEF Con!StartLoad
    <2>3. latestVersion' = latestVersion + 1
      BY <1>5, <2>2, StartMoves
    <2>4. c.version = latestVersion'
      BY BlankNumbered
    <2> HIDE DEF c
    <2>5. c.version > shared'.version
      BY <1>t, <2>1, <2>3, <2>4
    <2> QED BY <1>u, <2>1, <2>2, <2>5, MoveKeeps
  <1>6. ASSUME NEW t \in Con!Reloaders, Con!UpdateShared(t) PROVE VersionInv'
    <2>1. /\ reload[t].phase = "store" /\ shared' = reload[t].conf /\ Moved(t, "slots", Con!Blank, 1)
          /\ UNCHANGED local
      BY <1>6, StoreMoves DEF Con!UpdateShared
    <2>2. shared'.version > shared.version /\ shared'.version \in Nat
      BY <1>0, <1>t, <2>1 DEF ReloadsApart, ReloadShape
    <2>3. CopiesOlder'
      BY <1>0, <1>t, <2>1, <2>2 DEF CopiesOlder
    <2>4. \A j \in 1..5 : ~(j < 1)
      OBVIOUS
    <2> QED BY <1>i, <2>1, <2>3, <2>4, MoveKeeps
  <1>7. ASSUME NEW t \in Con!Reloaders, Con!Slot(t) PROVE VersionInv'
    <2> DEFINE r == reload[t]  now == Con!Get(t)
    <2>1. /\ slots' = [slots EXCEPT ![r.slot] = now.version]
          /\ r.phase = "slots" /\ local' = [local EXCEPT ![t] = now]
          /\ UNCHANGED shared
      BY <1>7, SlotMoves DEF Con!Slot
    <2>2. IF r.slot = 5 THEN Moved(t, "templates", r.conf, 0) ELSE Moved(t, "slots", r.conf, r.slot + 1)
      BY <1>7, SlotMoves
    <2>3. r.slot \in 1..5
      BY <1>t, <2>1 DEF ReloadShape
    <2>4. now.version # 0
      BY GetRight, TwoReloaders
    <2>5. CopiesOlder'
      BY <1>g, <1>k, <2>1, TwoReloaders
    <2>6. Con!Get(t)' = now
      <3> HIDE DEF now
      <3>1. local'[t] = now
        BY <1>t, <2>1, TwoReloaders
      <3> QED BY <2>4, <3>1 DEF Con!Get
    <2>7. \A j \in 1..5 : j < r.slot => slots[j] = now.version
      BY <1>0, <2>1 DEF ReloadsApart
    <2> HIDE DEF r, now
    <2>8. \A j \in 1..5 : j < r.slot + 1 => slots'[j] = now.version
      <3>1. slots = [j \in 1..5 |-> slots[j]]
        BY DEF ConfigTypes
      <3> QED BY <2>1, <2>3, <2>7, <3>1
    <2>9. CASE r.slot = 5
      BY <1>i, <2>1, <2>2, <2>5, <2>9, MoveKeeps DEF r
    <2>10. CASE r.slot # 5
      <3>1. reload[Con!Other(t)].phase = "idle"
        BY <1>i, <2>1 DEF r
      <3>2. \A j \in 1..5 : j < r.slot + 1 => slots'[j] = Con!Get(t)'.version
        BY <2>6, <2>8
      <3>3. Moved(t, "slots", r.conf, r.slot + 1)
        BY <2>2, <2>10
      <3> QED BY <2>5, <3>1, <3>2, <3>3, MoveKeeps
    <2> QED BY <2>9, <2>10
  <1>8. ASSUME NEW t \in Con!Reloaders, NEW k \in DOMAIN Loads, Con!LoadFile(t, k) PROVE VersionInv'
    <2>1. reload[t].phase = "load" /\ UNCHANGED <<shared, local>>
      BY <1>8 DEF Con!LoadFile
    <2>2. reload[t].conf.version > shared'.version /\ reload[Con!Other(t)].phase = "idle"
      BY <1>0, <1>i, <2>1 DEF ReloadsApart
    <2>3. ASSUME NEW c, c.version = reload[t].conf.version, Moved(t, "store", c, reload[t].slot)
          PROVE  VersionInv'
      <3>1. c.version > shared'.version
        BY <2>2, <2>3
      <3> QED BY <1>u, <2>1, <2>2, <2>3, <3>1, MoveKeeps
    <2>4. ASSUME Moved(t, "templates", Con!Blank, reload[t].slot) PROVE VersionInv'
      BY <1>u, <2>1, <2>2, <2>4, MoveKeeps
    <2> QED BY <1>8, <2>3, <2>4, LoadMoves
  <1>9. ASSUME NEW t \in Con!Reloaders, NEW dir, Con!InitTemplates(t, dir) PROVE VersionInv'
    <2>1. local' = [local EXCEPT ![t] = Con!Get(t)] /\ UNCHANGED shared /\ reload[t].phase = "templates"
      BY <1>9 DEF Con!InitTemplates
    <2>2. CopiesOlder'
      BY <1>g, <1>k, <2>1, TwoReloaders
    <2>3. reload[Con!Other(t)].phase = "idle"
      BY <1>i, <2>1
    <2>4. ASSUME NEW ph \in {"idle", "check", "checkbad"}, NEW c, NEW i, Moved(t, ph, c, i) PROVE VersionInv'
      BY <2>2, <2>3, <2>4, MoveKeeps
    <2> QED BY <1>9, <2>4, TemplateMoves
  <1> QED BY <1>1, <1>2, <1>3, <1>4, <1>5, <1>6, <1>7, <1>8, <1>9 DEF Con!Next

\* The configuration of the start is complete and the first.
LEMMA FirstNumbered ==
  ASSUME Con!ConfigAssumption
  PROVE  Con!First.version = 1 /\ Con!Complete(Con!First)
PROOF
  <1>1. Con!Complete(FirstLoad) /\ Con!IsConfig(FirstLoad)
    BY DEF Con!ConfigAssumption, Con!Complete
  <1> QED BY <1>1, Renumbered DEF Con!First

\* The server thread keeps the first copy it took, whatever is loaded later.
LEMMA FirstKept ==
  ASSUME Con!ConfigAssumption, ConfigTypes, FirstInv, Con!Next
  PROVE  FirstInv'
PROOF
  <1> SUFFICES ASSUME ~early'
               PROVE  IF local'["server"].version = 0
                      THEN shared' = Con!First /\ \A t \in Con!Reloaders : reload'[t].phase = "idle"
                      ELSE local'["server"] = Con!First
    BY DEF FirstInv, Con!First
  <1>e. ~early
    BY DEF Con!Next, Con!Reply, Con!Accept, Con!Command, Con!RELOADCommand, Con!StartLoad, Con!UpdateShared,
       Con!Slot, Con!LoadFile, Con!InitTemplates
  <1>s. "server" \in Con!Threads /\ "server" \in Con!Reloaders /\ "server" \notin Clients
        /\ Con!Reloaders \subseteq Con!Threads /\ Clients \subseteq Con!Threads
    BY TwoReloaders DEF Con!ConfigAssumption
  <1>l. local = [t \in Con!Threads |-> local[t]]
    BY DEF ConfigTypes
  <1>1. CASE local["server"].version = 0
    <2>1. shared = Con!First /\ \A t \in Con!Reloaders : reload[t].phase = "idle"
      BY <1>1, <1>e DEF FirstInv
    <2>2. ASSUME NEW c \in Clients, Con!Accept(c) PROVE local'["server"] = Con!First
      <3> DEFINE mid == [local EXCEPT !["server"] = Con!Get("server")]
      <3>1. local' = [mid EXCEPT ![c] = Con!Blank]
        BY <2>2 DEF Con!Accept
      <3>2. mid = [t \in Con!Threads |-> IF t = "server" THEN Con!Get("server") ELSE local[t]]
        BY <1>l
      <3> HIDE DEF mid
      <3>3. local'["server"] = Con!Get("server")
        BY <1>s, <3>1, <3>2
      <3> QED BY <1>1, <2>1, <3>3 DEF Con!Get
    <2>3. ASSUME NEW c \in Clients, Con!Command(c) \/ Con!RELOADCommand(c)
          PROVE  local'["server"] = local["server"] /\ UNCHANGED <<shared, reload>>
      BY <1>l, <1>s, <2>3 DEF Con!Command, Con!RELOADCommand
    <2>4. ~Con!Reply
      BY <1>s, <2>1 DEF Con!Reply
    <2>5. ASSUME NEW t \in Con!Reloaders
          PROVE  /\ ~Con!StartLoad(t) /\ ~Con!UpdateShared(t) /\ ~Con!Slot(t)
                 /\ \A i \in DOMAIN Loads : ~Con!LoadFile(t, i)
                 /\ \A d \in TextDirs : ~Con!InitTemplates(t, d)
      BY <1>1, <2>1 DEF Con!StartLoad, Con!UpdateShared, Con!Slot, Con!LoadFile, Con!InitTemplates
    <2>6. PICK c \in Clients : Con!Accept(c) \/ Con!Command(c) \/ Con!RELOADCommand(c)
      BY <2>4, <2>5 DEF Con!Next
    <2> QED BY <1>1, <2>1, <2>2, <2>3, <2>6, FirstNumbered
  <1>2. CASE local["server"].version # 0
    <2>1. local["server"] = Con!First /\ Con!Get("server") = local["server"]
      BY <1>2, <1>e DEF FirstInv, Con!Get
    <2>2. ASSUME NEW c \in Clients, Con!Accept(c) PROVE local'["server"] = Con!First
      <3> DEFINE mid == [local EXCEPT !["server"] = Con!Get("server")]
      <3>1. local' = [mid EXCEPT ![c] = Con!Blank]
        BY <2>2 DEF Con!Accept
      <3>2. mid = [t \in Con!Threads |-> IF t = "server" THEN Con!Get("server") ELSE local[t]]
        BY <1>l
      <3> HIDE DEF mid
      <3> QED BY <1>s, <2>1, <3>1, <3>2
    <2>3. ASSUME NEW c \in Clients, Con!Command(c) \/ Con!RELOADCommand(c)
          PROVE  local'["server"] = local["server"]
      BY <1>l, <1>s, <2>3 DEF Con!Command, Con!RELOADCommand
    <2>4. ASSUME NEW t \in Con!Reloaders, local' = [local EXCEPT ![t] = Con!Get(t)]
          PROVE  local'["server"] = Con!First
      BY <1>l, <1>s, <2>1, <2>4
    <2>5. ASSUME NEW t \in Con!Reloaders, Con!Slot(t) \/ \E d \in TextDirs : Con!InitTemplates(t, d)
          PROVE  local'["server"] = Con!First
      BY <2>4, <2>5 DEF Con!Slot, Con!InitTemplates
    <2>6. ASSUME NEW t \in Con!Reloaders,
                 Con!StartLoad(t) \/ Con!UpdateShared(t) \/ \E i \in DOMAIN Loads : Con!LoadFile(t, i)
          PROVE  local'["server"] = Con!First
      BY <2>1, <2>6 DEF Con!StartLoad, Con!UpdateShared, Con!LoadFile
    <2>7. CASE Con!Reply
      BY <2>1, <2>7, FirstNumbered DEF Con!Reply
    <2>8. local'["server"] = Con!First
      BY <2>1, <2>2, <2>3, <2>5, <2>6, <2>7 DEF Con!Next, Con!Reply
    <2> QED BY <2>8, FirstNumbered
  <1> QED BY <1>1, <1>2

\* Every step keeps the clients with the configurations published.
LEMMA FollowKept ==
  ASSUME Con!ConfigAssumption, ConfigTypes, VersionInv, Con!ClientsFollow, Con!Next
  PROVE  Con!ClientsFollow'
PROOF
  <1> SUFFICES ASSUME ~overlapped', NEW d \in Clients, command'[d] # "none", ~behind'[d],
                      local'[d].version # 0
               PROVE  local'[d] = shared'
    BY DEF Con!ClientsFollow
  <1>o. ~overlapped
    BY DEF Con!Next, Con!Reply, Con!Accept, Con!Command, Con!RELOADCommand, Con!StartLoad, Con!UpdateShared,
       Con!Slot, Con!LoadFile, Con!InitTemplates
  <1>s. d \in Con!Threads /\ d \notin Con!Reloaders /\ d # "server" /\ Con!Reloaders \subseteq Con!Threads
        /\ Clients \subseteq Con!Threads
    BY TwoReloaders DEF Con!ConfigAssumption
  <1>l. /\ local = [t \in Con!Threads |-> local[t]] /\ \A t \in Con!Threads : local[t].version \in Nat
        /\ shared.version \in Nat /\ behind \in [Clients -> BOOLEAN]
        /\ command = [c \in Clients |-> command[c]]
    BY DEF ConfigTypes
  <1>0. command[d] # "none" /\ ~behind[d] /\ local[d].version # 0 => local[d] = shared
    BY <1>o DEF Con!ClientsFollow
  <1>v. local[d].version < shared.version \/ local[d] = shared
    BY <1>o, <1>s DEF VersionInv
  <1>k. ASSUME local'[d] = local[d], UNCHANGED <<shared, command, behind>> PROVE local'[d] = shared'
    BY <1>0, <1>k
  <1>1. CASE Con!Reply
    BY <1>1, <1>k DEF Con!Reply
  <1>2. ASSUME NEW c \in Clients, Con!Accept(c) PROVE local'[d] = shared'
    <2> DEFINE mid == [local EXCEPT !["server"] = Con!Get("server")]
    <2>1. /\ local' = [mid EXCEPT ![c] = Con!Blank] /\ shared' = shared
          /\ command' = [command EXCEPT ![c] = "idle"] /\ behind' = [behind EXCEPT ![c] = TRUE]
      BY <1>2 DEF Con!Accept
    <2>2. mid = [t \in Con!Threads |-> IF t = "server" THEN Con!Get("server") ELSE local[t]]
      BY <1>l
    <2> HIDE DEF mid
    <2>3. d # c
      BY <1>l, <2>1
    <2>4. local'[d] = local[d] /\ command'[d] = command[d] /\ behind'[d] = behind[d]
      BY <1>l, <1>s, <2>1, <2>2, <2>3
    <2> QED BY <1>0, <2>1, <2>4
  <1>3. ASSUME NEW c \in Clients, Con!Command(c) PROVE local'[d] = shared'
    <2>1. /\ local' = [local EXCEPT ![c] = Con!UpdateLocal(c)] /\ shared' = shared
          /\ command' = [command EXCEPT ![c] = "idle"] /\ behind' = [behind EXCEPT ![c] = FALSE]
      BY <1>3 DEF Con!Command
    <2>2. CASE d = c
      <3>1. local'[d] = Con!UpdateLocal(d)
        BY <1>l, <1>s, <2>1, <2>2
      <3> QED BY <1>l, <1>s, <1>v, <2>1, <3>1 DEF Con!UpdateLocal
    <2>3. CASE d # c
      <3>1. local'[d] = local[d] /\ command'[d] = command[d] /\ behind'[d] = behind[d]
        BY <1>l, <1>s, <2>1, <2>3
      <3> QED BY <1>0, <2>1, <3>1
    <2> QED BY <2>2, <2>3
  <1>4. ASSUME NEW c \in Clients, Con!RELOADCommand(c) PROVE local'[d] = shared'
    <2>1. /\ local' = [local EXCEPT ![c] = Con!Get(c)] /\ shared' = shared /\ behind' = behind
          /\ command[c] = "idle" /\ command' = [command EXCEPT ![c] = "reloading"]
      BY <1>4 DEF Con!RELOADCommand
    <2>2. command[d] # "none"
      BY <1>l, <2>1
    <2>3. local'[d] = IF d = c THEN Con!Get(d) ELSE local[d]
      BY <1>l, <1>s, <2>1
    <2> QED BY <1>0, <2>1, <2>2, <2>3 DEF Con!Get
  <1>5. ASSUME NEW t \in Con!Reloaders, Con!StartLoad(t) PROVE local'[d] = shared'
    BY <1>5, <1>k DEF Con!StartLoad
  <1>6. ASSUME NEW t \in Con!Reloaders, Con!UpdateShared(t) PROVE local'[d] = shared'
    BY <1>6 DEF Con!UpdateShared
  <1>7. ASSUME NEW t \in Con!Reloaders, local' = [local EXCEPT ![t] = Con!Get(t)],
               UNCHANGED <<shared, command, behind>>
        PROVE  local'[d] = shared'
    <2>1. local'[d] = local[d]
      BY <1>7, <1>l, <1>s
    <2> QED BY <1>7, <1>k, <2>1
  <1>8. ASSUME NEW t \in Con!Reloaders, Con!Slot(t) \/ \E x \in TextDirs : Con!InitTemplates(t, x)
        PROVE  local'[d] = shared'
    BY <1>7, <1>8 DEF Con!Slot, Con!InitTemplates
  <1>9. ASSUME NEW t \in Con!Reloaders, NEW i \in DOMAIN Loads, Con!LoadFile(t, i) PROVE local'[d] = shared'
    BY <1>9, <1>k DEF Con!LoadFile
  <1> QED BY <1>1, <1>2, <1>3, <1>4, <1>5, <1>6, <1>8, <1>9 DEF Con!Next

\* Every step keeps the slots in agreement.
LEMMA SlotsKept ==
  ASSUME Con!ConfigAssumption, ConfigTypes, VersionInv, Con!SlotsAgree, Con!Next
  PROVE  Con!SlotsAgree'
PROOF
  <1> SUFFICES ASSUME ~overlapped', \A t \in Con!Reloaders : reload'[t].phase # "slots"
               PROVE  \A i, j \in DOMAIN Con!Slots : slots'[i] = slots'[j]
    BY DEF Con!SlotsAgree
  <1>o. ~overlapped
    BY DEF Con!Next, Con!Reply, Con!Accept, Con!Command, Con!RELOADCommand, Con!StartLoad, Con!UpdateShared,
       Con!Slot, Con!LoadFile, Con!InitTemplates
  <1>d. DOMAIN Con!Slots = 1..5
    BY DEF Con!Slots
  <1>u. ASSUME slots' = slots, \A t \in Con!Reloaders : reload[t].phase # "slots"
        PROVE  \A i, j \in DOMAIN Con!Slots : slots'[i] = slots'[j]
    BY <1>o, <1>u DEF Con!SlotsAgree
  <1>m. ASSUME NEW t \in Con!Reloaders, NEW ph, NEW c, NEW i, Moved(t, ph, c, i), reload[t].phase # "slots",
               slots' = slots
        PROVE  \A k, j \in DOMAIN Con!Slots : slots'[k] = slots'[j]
    <2>1. \A u \in Con!Reloaders \ {t} : reload'[u] = reload[u]
      BY <1>m, MovedFields
    <2> QED BY <1>m, <1>u, <2>1
  <1>1. CASE Con!Reply
    <2>1. Moved("server", "idle", Con!Blank, 0) /\ reload["server"].phase # "slots" /\ slots' = slots
      BY <1>1, ReplyMoves DEF Con!Reply
    <2> QED BY <1>m, <2>1, TwoReloaders
  <1>2. ASSUME NEW c \in Clients, Con!Accept(c) \/ Con!Command(c) \/ Con!RELOADCommand(c)
        PROVE  \A i, j \in DOMAIN Con!Slots : slots'[i] = slots'[j]
    BY <1>2, <1>u DEF Con!Accept, Con!Command, Con!RELOADCommand
  <1>3. ASSUME NEW t \in Con!Reloaders, Con!StartLoad(t)
        PROVE  \A i, j \in DOMAIN Con!Slots : slots'[i] = slots'[j]
    <2>1. Moved(t, "load", [Con!Blank EXCEPT !.version = latestVersion'], 0) /\ reload[t].phase # "slots"
      BY <1>3, StartMoves
    <2> QED BY <1>3, <1>m, <2>1 DEF Con!StartLoad
  <1>4. ASSUME NEW t \in Con!Reloaders, Con!UpdateShared(t)
        PROVE  \A i, j \in DOMAIN Con!Slots : slots'[i] = slots'[j]
    BY <1>4, StoreMoves, MovedFields
  <1>5. ASSUME NEW t \in Con!Reloaders, Con!Slot(t)
        PROVE  \A i, j \in DOMAIN Con!Slots : slots'[i] = slots'[j]
    <2> DEFINE r == reload[t]  v == Con!Get(t).version
    <2>1. r.phase = "slots" /\ slots' = [slots EXCEPT ![r.slot] = v]
      BY <1>5, SlotMoves
    <2>2. IF r.slot = 5 THEN Moved(t, "templates", r.conf, 0) ELSE Moved(t, "slots", r.conf, r.slot + 1)
      BY <1>5, SlotMoves
    <2>3. r.slot = 5
      <3>1. r.slot # 5 => Moved(t, "slots", r.conf, r.slot + 1)
        BY <2>2
      <3>2. r.slot # 5 => reload'[t].phase = "slots"
        BY <3>1, MovedFields
      <3> QED BY <3>2
    <2>4. \A j \in 1..5 : j < 5 => slots[j] = v
      BY <1>o, <2>1, <2>3 DEF VersionInv
    <2>5. slots = [j \in 1..5 |-> slots[j]]
      BY DEF ConfigTypes
    <2> HIDE DEF v, r
    <2>6. \A j \in 1..5 : slots'[j] = v
      BY <2>1, <2>3, <2>4, <2>5
    <2> QED BY <1>d, <2>6
  <1>6. ASSUME NEW t \in Con!Reloaders, NEW k \in DOMAIN Loads, Con!LoadFile(t, k)
        PROVE  \A i, j \in DOMAIN Con!Slots : slots'[i] = slots'[j]
    <2>1. reload[t].phase # "slots" /\ slots' = slots
      BY <1>6 DEF Con!LoadFile
    <2>2. \E ph, c, i : Moved(t, ph, c, i)
      BY <1>6, LoadMoves
    <2> QED BY <1>m, <2>1, <2>2
  <1>7. ASSUME NEW t \in Con!Reloaders, NEW dir, Con!InitTemplates(t, dir)
        PROVE  \A i, j \in DOMAIN Con!Slots : slots'[i] = slots'[j]
    <2>1. reload[t].phase # "slots" /\ slots' = slots
      BY <1>7 DEF Con!InitTemplates
    <2>2. \E ph, c, i : Moved(t, ph, c, i)
      BY <1>7, TemplateMoves
    <2> QED BY <1>m, <2>1, <2>2
  <1> QED BY <1>1, <1>2, <1>3, <1>4, <1>5, <1>6, <1>7 DEF Con!Next

\* Every step keeps what was told about a restart.
LEMMA ToldKept ==
  ASSUME Con!ConfigAssumption, ConfigTypes, FirstInv, Con!RestartTold, Con!Next
  PROVE  Con!RestartTold'
PROOF
  <1> SUFFICES ASSUME ~early', NEW d \in Clients, answer'[d].current PROVE answer'[d].config = "stopstart"
    BY DEF Con!RestartTold
  <1>e. ~early
    BY DEF Con!Next, Con!Reply, Con!Accept, Con!Command, Con!RELOADCommand, Con!StartLoad, Con!UpdateShared,
       Con!Slot, Con!LoadFile, Con!InitTemplates
  <1>a. answer = [c \in Clients |-> answer[c]]
    BY DEF ConfigTypes
  <1>n. Con!NoAnswer.current = FALSE
    BY DEF Con!NoAnswer
  <1>u. ASSUME answer'[d] = answer[d] PROVE answer'[d].config = "stopstart"
    <2>1. answer[d] # Con!NoAnswer
      BY <1>n, <1>u
    <2> QED BY <1>e, <1>u, <2>1 DEF Con!RestartTold
  <1>1. CASE Con!Reply
    <2> DEFINE r == reload["server"]
               stop == Con!StopStart(shared, Con!Get("server"))
               config == IF stop THEN "stopstart" ELSE r.result
               texts == IF r.phase = "checkbad" THEN "fail" ELSE "okay"
               current == Con!StopStart(shared, Con!First)
    <2>1. /\ r.phase # "idle"
          /\ answer' = [answer EXCEPT ![r.for] = [config |-> config, templates |-> texts, current |-> current]]
      BY <1>1 DEF Con!Reply
    <2>2. local["server"].version # 0 /\ local["server"] = Con!First
      BY <1>e, <2>1, TwoReloaders DEF FirstInv
    <2>3. Con!Get("server") = Con!First
      BY <2>2 DEF Con!Get
    <2>4. current => config = "stopstart"
      BY <2>3
    <2> HIDE DEF config, texts, current
    <2>5. CASE d = r.for
      <3>1. answer'[d] = [config |-> config, templates |-> texts, current |-> current]
        BY <1>a, <2>1, <2>5
      <3>2. answer'[d].config = config /\ answer'[d].current = current
        BY <3>1
      <3> QED BY <2>4, <3>2
    <2>6. CASE d # r.for
      BY <1>a, <1>u, <2>1, <2>6
    <2> QED BY <2>5, <2>6
  <1>2. ASSUME NEW c \in Clients, Con!Command(c) PROVE answer'[d].config = "stopstart"
    <2>1. answer' = [answer EXCEPT ![c] = Con!NoAnswer]
      BY <1>2 DEF Con!Command
    <2>2. answer'[d] = IF d = c THEN Con!NoAnswer ELSE answer[d]
      BY <1>a, <2>1
    <2> QED BY <1>n, <1>u, <2>2
  <1>3. ASSUME NEW c \in Clients, Con!Accept(c) \/ Con!RELOADCommand(c) PROVE answer'[d].config = "stopstart"
    BY <1>3, <1>u DEF Con!Accept, Con!RELOADCommand
  <1>4. ASSUME NEW t \in Con!Reloaders,
               \/ Con!StartLoad(t) \/ Con!UpdateShared(t) \/ Con!Slot(t)
               \/ \E i \in DOMAIN Loads : Con!LoadFile(t, i)
               \/ \E x \in TextDirs : Con!InitTemplates(t, x)
        PROVE  answer'[d].config = "stopstart"
    BY <1>4, <1>u DEF Con!StartLoad, Con!UpdateShared, Con!Slot, Con!LoadFile, Con!InitTemplates
  <1> QED BY <1>1, <1>2, <1>3, <1>4 DEF Con!Next

\* However SITE RELOAD, SIGHUP, connections and commands of any number of clients
\* interleave: what is published is complete, clients and slots follow it unless two
\* threads reloaded at once, and a setting that only a restart applies is reported if the
\* server thread had its copy before the first reload (cfg/get.cpp, main.cpp).
THEOREM ConfigurationsFollowed == Con!ConfigAssumption => (Con!Spec => []Con!ConfigFollowed)
PROOF
  <1> SUFFICES ASSUME Con!ConfigAssumption PROVE Con!Spec => []Con!ConfigFollowed
    OBVIOUS
  <1>1. Con!Init => ConfigInv
    <2> SUFFICES ASSUME Con!Init PROVE ConfigInv
      OBVIOUS
    <2>1. /\ latestVersion = 1 /\ shared = Con!First
          /\ local = [t \in Con!Threads |-> Con!Blank] /\ reload = [t \in Con!Reloaders |-> Con!Idle]
          /\ slots = [i \in DOMAIN Con!Slots |-> 1]
          /\ command = [c \in Clients |-> "none"] /\ answer = [c \in Clients |-> Con!NoAnswer]
          /\ behind = [c \in Clients |-> FALSE] /\ overlapped = FALSE /\ early = FALSE
      BY DEF Con!Init
    <2>2. Con!First.version = 1 /\ Con!Complete(Con!First) /\ Con!Blank.version = 0
      BY FirstNumbered, BlankNumbered
    <2>3. /\ Con!Idle.phase = "idle" /\ Con!Idle.conf.version = 0
          /\ Con!Idle = Reload(Con!Idle.phase, Con!Idle.conf, Con!Idle.slot, Con!Idle.for, Con!Idle.result)
      BY <2>2 DEF Con!Idle, Reload
    <2>4. DOMAIN Con!Slots = 1..5
      BY DEF Con!Slots
    <2>5. ReloadShape(Con!Idle)
      BY <2>1, <2>3 DEF ReloadShape, Phases
    <2>6. ConfigTypes
      <3>1. latestVersion \in Nat /\ shared.version \in 1..latestVersion /\ Con!Complete(shared)
        BY <2>1, <2>2
      <3>2. local = [t \in Con!Threads |-> local[t]]
        BY <2>1
      <3>3. ASSUME NEW t \in Con!Threads PROVE local[t].version = 0
        BY <2>1, <2>2
      <3>4. reload = [t \in Con!Reloaders |-> reload[t]]
        BY <2>1
      <3>5. ASSUME NEW t \in Con!Reloaders PROVE ReloadShape(reload[t])
        <4>1. reload[t] = Con!Idle
          BY <2>1
        <4> QED BY <4>1, <2>5
      <3>6. slots = [i \in 1..5 |-> slots[i]]
        BY <2>1, <2>4
      <3>7. command = [c \in Clients |-> command[c]] /\ answer = [c \in Clients |-> answer[c]]
        BY <2>1
      <3>8. behind \in [Clients -> BOOLEAN] /\ overlapped \in BOOLEAN /\ early \in BOOLEAN
        BY <2>1
      <3> QED BY <3>1, <3>2, <3>3, <3>4, <3>5, <3>6, <3>7, <3>8 DEF ConfigTypes
    <2>7. VersionInv
      BY <2>1, <2>2, <2>3, TwoReloaders DEF VersionInv
    <2>8. FirstInv
      BY <2>1, <2>2, <2>3, TwoReloaders DEF FirstInv
    <2>9. Con!ConfigFollowed
      BY <2>1, <2>2 DEF Con!ConfigFollowed, Con!PublishedIsComplete, Con!ClientsFollow, Con!SlotsAgree,
         Con!RestartTold
    <2> QED BY <2>6, <2>7, <2>8, <2>9 DEF ConfigInv
  <1>2. ConfigInv /\ [Con!Next]_(Con!configVars) => ConfigInv'
    <2> SUFFICES ASSUME ConfigInv, [Con!Next]_(Con!configVars) PROVE ConfigInv'
      OBVIOUS
    <2>1. /\ ConfigTypes /\ VersionInv /\ FirstInv /\ Con!ClientsFollow /\ Con!SlotsAgree
          /\ Con!RestartTold /\ Con!PublishedIsComplete
      BY DEF ConfigInv, Con!ConfigFollowed
    <2>2. CASE Con!Next
      <3>1. ConfigTypes' /\ VersionInv' /\ FirstInv'
        BY <2>1, <2>2, ConfigTypesKept, VersionKept, FirstKept
      <3>2. Con!ClientsFollow' /\ Con!SlotsAgree' /\ Con!RestartTold'
        BY <2>1, <2>2, FollowKept, SlotsKept, ToldKept
      <3>3. Con!PublishedIsComplete'
        BY <3>1 DEF ConfigTypes, Con!PublishedIsComplete
      <3> QED BY <3>1, <3>2, <3>3 DEF ConfigInv, Con!ConfigFollowed
    <2>3. CASE UNCHANGED Con!configVars
      <3> USE <2>3 DEF Con!configVars
      <3>1. ConfigTypes'
        BY <2>1 DEF ConfigTypes, ReloadShape
      <3>2. VersionInv' /\ FirstInv'
        BY <2>1 DEF VersionInv, FirstInv, Con!Get
      <3>3. Con!ClientsFollow' /\ Con!SlotsAgree' /\ Con!RestartTold'
        BY <2>1 DEF Con!ClientsFollow, Con!SlotsAgree, Con!RestartTold
      <3>4. Con!PublishedIsComplete'
        BY <3>1 DEF ConfigTypes, Con!PublishedIsComplete
      <3> QED BY <3>1, <3>2, <3>3, <3>4 DEF ConfigInv, Con!ConfigFollowed
    <2> QED BY <2>2, <2>3
  <1>3. ConfigInv => Con!ConfigFollowed
    BY DEF ConfigInv
  <1> QED BY <1>1, <1>2, <1>3, PTL DEF Con!Spec

-----------------------------------------------------------------------------
(* ConfigFile: what Construct accepts is complete *)

\* A line as the parser has split it; the parameters of idle_timeout are numbers, of
\* which lexical_cast sees to it.
ConfigLine(l) ==
  /\ \E S : l.args \in Seq(S)
  /\ l.opt = "idle_timeout" => l.args \in Seq(Int)

\* The configuration under construction after some lines.
IdleOrder(t) == t # <<>> => 0 < t[2] /\ t[2] <= t[3] /\ t[3] <= t[1]
ParseInv(c) ==
  /\ Con!IsConfig(c)
  /\ c.state = "good" =>
       /\ IdleOrder(Con!Values(c, "idle_timeout"))
       /\ "db_replicaset" \in DOMAIN c.values => c.values["db_replicaset"] # <<>>
       /\ \A kv \in DOMAIN c.acls : kv[2] \in IF kv[1] = "-" THEN ACLKeywords ELSE c.custom

\* The entries of a table that has been given one.
LEMMA TableWith ==
  ASSUME NEW f, NEW k, NEW v
  PROVE  /\ DOMAIN Con!With(f, k, v) = DOMAIN f \cup {k}
         /\ Con!With(f, k, v)[k] = v
         /\ \A x \in DOMAIN f \ {k} : Con!With(f, k, v)[x] = f[x]
  BY DEF Con!With

\* The rows of the options whose parameters Complete speaks of.
LEMMA ChosenRow ==
  ASSUME NEW o, NEW r \in Con!OptionRows, o \in r.names,
         \A s \in Con!OptionRows : o \in s.names => s = r
  PROVE  Con!Options[o] = r
  BY DEF Con!Options

\* The row of idle_timeout in the table of options.
LEMMA IdleRow ==
  Con!Options["idle_timeout"] = Con!Row({"idle_timeout"}, 3, 3, "set")
PROOF
  <1> DEFINE r == Con!Row({"idle_timeout"}, 3, 3, "set")
  <1>1. r \in Con!OptionRows /\ "idle_timeout" \in r.names
    BY DEF Con!OptionRows, Con!LimitOptions, Con!Row
  <1>2. ASSUME NEW s \in Con!BasicOptions PROVE "idle_timeout" \notin s.names
    BY <1>2 DEF Con!BasicOptions, Con!Row
  <1>3. ASSUME NEW s \in Con!LogAndNetOptions PROVE "idle_timeout" \notin s.names
    BY <1>3 DEF Con!LogAndNetOptions, Con!Row
  <1>4. ASSUME NEW s \in Con!RightOptions PROVE "idle_timeout" \notin s.names
    BY <1>4 DEF Con!RightOptions, Con!Row
  <1>5. ASSUME NEW s \in Con!LimitOptions, "idle_timeout" \in s.names PROVE s = r
    BY <1>5 DEF Con!LimitOptions, Con!Row
  <1>6. ASSUME NEW s \in Con!ModeOptions PROVE "idle_timeout" \notin s.names
    BY <1>6 DEF Con!ModeOptions, Con!Row
  <1> QED BY <1>1, <1>2, <1>3, <1>4, <1>5, <1>6, ChosenRow DEF Con!OptionRows

\* The row of db_replicaset in it.
LEMMA ReplicaRow ==
  Con!Options["db_replicaset"].min = 1 /\ Con!Options["db_replicaset"].put = "set"
PROOF
  <1> DEFINE o == "db_replicaset"
  <1>1. PICK r \in Con!BasicOptions : o \in r.names /\ r.min = 1 /\ r.put = "set"
    BY DEF Con!BasicOptions, Con!Row
  <1>2. ASSUME NEW s \in Con!BasicOptions, o \in s.names PROVE s.min = 1 /\ s.put = "set"
    BY <1>2 DEF Con!BasicOptions, Con!Row
  <1>3. ASSUME NEW s \in Con!LogAndNetOptions PROVE o \notin s.names
    BY <1>3 DEF Con!LogAndNetOptions, Con!Row
  <1>4. ASSUME NEW s \in Con!RightOptions PROVE o \notin s.names
    BY <1>4 DEF Con!RightOptions, Con!Row
  <1>5. ASSUME NEW s \in Con!LimitOptions PROVE o \notin s.names
    BY <1>5 DEF Con!LimitOptions, Con!Row
  <1>6. ASSUME NEW s \in Con!ModeOptions PROVE o \notin s.names
    BY <1>6 DEF Con!ModeOptions, Con!Row
  <1>7. \A s \in Con!OptionRows : o \in s.names => s.min = 1 /\ s.put = "set"
    BY <1>2, <1>3, <1>4, <1>5, <1>6 DEF Con!OptionRows
  <1>8. r \in Con!OptionRows
    BY <1>1 DEF Con!OptionRows
  <1>9. Con!Options[o] \in Con!OptionRows /\ o \in Con!Options[o].names
    BY <1>1, <1>8 DEF Con!Options
  <1> QED BY <1>7, <1>9

\* Put changes one setting and nothing else.
LEMMA PutEntry ==
  ASSUME NEW c, NEW o, NEW v, Con!IsConfig(c)
  PROVE  LET d == Con!Put(c, o, v) IN
         /\ Con!IsConfig(d) /\ d.acls = c.acls /\ d.custom = c.custom /\ d.state = c.state
         /\ DOMAIN d.values = DOMAIN c.values \cup {o} /\ d.values[o] = v
         /\ \A p \in DOMAIN c.values \ {o} : d.values[p] = c.values[p]
PROOF
  <1> DEFINE w == Con!With(c.values, o, v)
  <1> HIDE DEF w
  <1>1. Con!Put(c, o, v) = [version |-> c.version, values |-> w, acls |-> c.acls, section |-> c.section,
                            sections |-> c.sections, custom |-> c.custom, state |-> c.state]
    BY DEF Con!Put, Con!IsConfig, w
  <1>2. /\ DOMAIN w = DOMAIN c.values \cup {o} /\ w[o] = v
        /\ \A p \in DOMAIN c.values \ {o} : w[p] = c.values[p]
    BY DEF w, Con!With
  <1>3. Con!IsConfig(Con!Put(c, o, v))
    BY <1>1 DEF Con!IsConfig
  <1>4. /\ Con!Put(c, o, v).acls = c.acls /\ Con!Put(c, o, v).custom = c.custom
        /\ Con!Put(c, o, v).state = c.state /\ Con!Put(c, o, v).values = w
    BY <1>1
  <1> QED BY <1>2, <1>3, <1>4

\* SanityCheck adds what is missing, or throws.
LEMMA SanityCompletes ==
  ASSUME NEW c, ParseInv(c)
  PROVE  /\ Con!IsConfig(Con!SanityCheck(c))
         /\ Con!SanityCheck(c).state = "good" => Con!Complete(Con!SanityCheck(c))
PROOF
  <1> DEFINE host == IF Con!Values(c, "db_host") = <<>>
                     THEN Con!Put(c, "db_host", <<<<"localhost", 27017>>>>) ELSE c
             name == IF Con!Values(host, "db_name") = <<>>
                     THEN Con!Put(host, "db_name", <<"ebftpd">>) ELSE host
  <1>i. Con!IsConfig(c)
    BY DEF ParseInv
  <1>h. /\ Con!IsConfig(host) /\ host.acls = c.acls /\ host.custom = c.custom /\ host.state = c.state
        /\ DOMAIN host.values = DOMAIN c.values \cup {"db_host"} /\ host.values["db_host"] # <<>>
        /\ \A p \in DOMAIN c.values \ {"db_host"} : host.values[p] = c.values[p]
    <2>1. CASE Con!Values(c, "db_host") = <<>>
      <3>1. host = Con!Put(c, "db_host", <<<<"localhost", 27017>>>>)
        BY <2>1
      <3> HIDE DEF host
      <3>2. <<<<"localhost", 27017>>>> # <<>>
        OBVIOUS
      <3> QED BY <1>i, <3>1, <3>2, PutEntry
    <2>2. CASE Con!Values(c, "db_host") # <<>>
      <3>1. host = c
        BY <2>2
      <3>2. "db_host" \in DOMAIN c.values /\ c.values["db_host"] # <<>>
        BY <2>2 DEF Con!Values
      <3> HIDE DEF host
      <3> QED BY <1>i, <3>1, <3>2
    <2> QED BY <2>1, <2>2
  <1>n. /\ Con!IsConfig(name) /\ name.acls = c.acls /\ name.custom = c.custom /\ name.state = c.state
        /\ DOMAIN c.values \cup {"db_host"} \subseteq DOMAIN name.values
        /\ DOMAIN name.values \subseteq DOMAIN c.values \cup {"db_host", "db_name"}
        /\ name.values["db_host"] # <<>>
        /\ \A p \in DOMAIN c.values \ {"db_host", "db_name"} : name.values[p] = c.values[p]
    <2> HIDE DEF host
    <2>1. CASE Con!Values(host, "db_name") = <<>>
      <3>1. name = Con!Put(host, "db_name", <<"ebftpd">>)
        BY <2>1
      <3> HIDE DEF name
      <3> QED BY <1>h, <3>1, PutEntry
    <2>2. CASE Con!Values(host, "db_name") # <<>>
      <3>1. name = host
        BY <2>2
      <3> HIDE DEF name
      <3> QED BY <1>h, <3>1
    <2> QED BY <2>1, <2>2
  <1> HIDE DEF name, host
  <1>1. CASE c.state # "good"
    <2>1. Con!SanityCheck(c) = c
      BY <1>1 DEF Con!SanityCheck
    <2> QED BY <2>1, <1>1 DEF ParseInv
  <1>2. CASE c.state = "good" /\ \/ \E o \in Con!Required : o \notin DOMAIN c.values
                                 \/ /\ Len(Con!Values(name, "db_host")) > 1
                                    /\ "db_replicaset" \notin DOMAIN c.values
    <2>1. Con!SanityCheck(c) = Con!Throw(c)
      BY <1>2 DEF Con!SanityCheck, name, host
    <2>2. Con!Throw(c).state = "error" /\ Con!IsConfig(Con!Throw(c))
      BY <1>i DEF Con!Throw, Con!IsConfig
    <2> QED BY <2>1, <2>2
  <1>3. CASE /\ c.state = "good" /\ Con!Required \subseteq DOMAIN c.values
             /\ Len(Con!Values(name, "db_host")) > 1 => "db_replicaset" \in DOMAIN c.values
    <2>1. Con!SanityCheck(c) = name
      BY <1>3 DEF Con!SanityCheck, name, host
    <2>2. Con!IsConfig(name) /\ name.state = "good" /\ name.acls = c.acls /\ name.custom = c.custom
      BY <1>n, <1>3
    <2>3. Con!Required \subseteq DOMAIN name.values /\ Con!Values(name, "db_host") # <<>>
      BY <1>n, <1>3 DEF Con!Values
    <2>4. Len(Con!Values(name, "db_host")) > 1 => Con!Values(name, "db_replicaset") # <<>>
      BY <1>n, <1>3 DEF ParseInv, Con!Values
    <2>5. Con!Values(name, "idle_timeout") = Con!Values(c, "idle_timeout")
      BY <1>n DEF Con!Values
    <2>6. IdleOrder(Con!Values(name, "idle_timeout"))
      BY <1>3, <2>5 DEF ParseInv
    <2>7. \A kv \in DOMAIN name.acls : kv[2] \in IF kv[1] = "-" THEN ACLKeywords ELSE name.custom
      BY <1>3, <2>2 DEF ParseInv
    <2>8. Con!Complete(name)
      BY <2>2, <2>3, <2>4, <2>6, <2>7 DEF Con!Complete, IdleOrder
    <2> QED BY <2>1, <2>2, <2>8
  <1> QED BY <1>1, <1>2, <1>3

\* What has thrown is not used.
LEMMA ThrownParse ==
  ASSUME NEW c, Con!IsConfig(c)
  PROVE  ParseInv(Con!Throw(c))
PROOF
  <1>1. Con!IsConfig(Con!Throw(c)) /\ Con!Throw(c).state = "error"
    BY DEF Con!IsConfig, Con!Throw
  <1> QED BY <1>1 DEF ParseInv

\* Sections are no part of the invariant.
LEMMA SameParse ==
  ASSUME NEW c, NEW d, ParseInv(c), Con!IsConfig(d), d.state = c.state,
         d.values = c.values, d.acls = c.acls, d.custom = c.custom
  PROVE  ParseInv(d)
  BY DEF ParseInv, Con!Values

\* A section changes neither the settings nor the acls.
LEMMA SectionParse ==
  ASSUME NEW c, NEW l, ParseInv(c)
  PROVE  ParseInv(Con!ParseSection(c, l))
PROOF
  <1> DEFINE Other(d) == /\ Con!IsConfig(d) /\ d.state = c.state
                         /\ d.values = c.values /\ d.acls = c.acls /\ d.custom = c.custom
  <1>c. Con!IsConfig(c)
    BY DEF ParseInv
  <1>1. ASSUME NEW s PROVE Other([c EXCEPT !.sections = s]) /\ Other([c EXCEPT !.section = s])
    BY <1>c DEF Con!IsConfig
  <1>2. ASSUME NEW v PROVE /\ Other([c EXCEPT !.sections[c.section].path = v])
                           /\ Other([c EXCEPT !.sections[c.section].separate_credits = v])
                           /\ Other([c EXCEPT !.sections[c.section].ratio = v])
    BY <1>c DEF Con!IsConfig
  <1>3. ASSUME NEW d, Other(d) PROVE ParseInv(d)
    BY <1>3, SameParse
  <1> HIDE DEF Other
  <1>4. ParseInv(Con!Throw(c))
    BY <1>c, ThrownParse
  <1>5. CASE l.opt = "endsection"
    BY <1>1, <1>3, <1>5 DEF Con!ParseSection
  <1>6. CASE l.opt = "path" /\ l.args # <<>>
    BY <1>2, <1>3, <1>6 DEF Con!ParseSection
  <1>7. CASE l.opt = "separate_credits" /\ Len(l.args) = 1 /\ Con!YesNo(l.args[1])
    BY <1>2, <1>3, <1>7 DEF Con!ParseSection
  <1>8. CASE l.opt = "ratio" /\ Len(l.args) = 1 /\ l.args[1] >= 0
    BY <1>2, <1>3, <1>8 DEF Con!ParseSection
  <1>9. CASE /\ l.opt # "endsection" /\ ~(l.opt = "path" /\ l.args # <<>>)
             /\ ~(l.opt = "separate_credits" /\ Len(l.args) = 1 /\ Con!YesNo(l.args[1]))
             /\ ~(l.opt = "ratio" /\ Len(l.args) = 1 /\ l.args[1] >= 0)
    BY <1>4, <1>9 DEF Con!ParseSection
  <1> QED BY <1>5, <1>6, <1>7, <1>8, <1>9

\* An acl is one of a command that exists; the first one of a command stays.
LEMMA AclParse ==
  ASSUME NEW c, NEW l, ParseInv(c), c.state = "good"
  PROVE  ParseInv(Con!ParseACL(c, l))
PROOF
  <1> DEFINE known == IF l.opt = "-" THEN ACLKeywords ELSE c.custom
             key == <<l.opt, l.word>>
             d == [c EXCEPT !.acls = Con!With(c.acls, key, l.args)]
  <1>c. Con!IsConfig(c)
    BY DEF ParseInv
  <1>1. CASE l.args = <<>> \/ l.word \notin known
    BY <1>1, <1>c, ThrownParse DEF Con!ParseACL
  <1>2. CASE l.args # <<>> /\ l.word \in known /\ key \in DOMAIN c.acls
    BY <1>2 DEF Con!ParseACL
  <1>3. CASE l.args # <<>> /\ l.word \in known /\ key \notin DOMAIN c.acls
    <2>1. Con!ParseACL(c, l) = d
      BY <1>3 DEF Con!ParseACL
    <2>2. /\ Con!IsConfig(d) /\ d.state = c.state /\ d.values = c.values /\ d.custom = c.custom
          /\ d.acls = Con!With(c.acls, key, l.args)
      BY <1>c DEF Con!IsConfig
    <2>3. DOMAIN d.acls = DOMAIN c.acls \cup {key}
      BY <2>2 DEF Con!With
    <2>4. key[1] = l.opt /\ key[2] = l.word
      OBVIOUS
    <2> HIDE DEF d, key
    <2>5. \A kv \in DOMAIN d.acls : kv[2] \in IF kv[1] = "-" THEN ACLKeywords ELSE d.custom
      BY <2>2, <2>3, <2>4, <1>3 DEF ParseInv
    <2>6. /\ IdleOrder(Con!Values(d, "idle_timeout"))
          /\ "db_replicaset" \in DOMAIN d.values => d.values["db_replicaset"] # <<>>
      BY <2>2 DEF ParseInv, Con!Values
    <2> QED BY <2>1, <2>2, <2>5, <2>6 DEF ParseInv
  <1> QED BY <1>1, <1>2, <1>3

\* A setting is put in place only with parameters its constructor accepts.
LEMMA SettingParse ==
  ASSUME NEW c, NEW l, ParseInv(c), c.state = "good", ConfigLine(l),
         l.opt \notin {"-", "custom-", "section"}
  PROVE  ParseInv(Con!ParseGlobal(c, l))
PROOF
  <1> DEFINE row == Con!Options[l.opt]
             okay == /\ Con!ParameterCheck(row, Len(l.args))
                     /\ Con!NumberOkay(l.opt, l.args) /\ Con!TransferOkay(l.opt, l.args)
                     /\ Con!LimitOkay(l.opt, l.args) /\ Con!TimeOkay(l.opt, l.args)
             e == [c EXCEPT !.custom = IF l.opt = "site_cmd" THEN @ \cup {l.args[1]} ELSE @]
             v == IF row.put = "add" THEN Con!Values(c, l.opt) \o l.args ELSE l.args
             d == Con!Put(e, l.opt, v)
  <1>c. Con!IsConfig(c)
    BY DEF ParseInv
  <1>1. CASE l.opt \notin DOMAIN Con!Options
    <2>1. Con!ParseGlobal(c, l) = Con!Throw(c)
      BY <1>1 DEF Con!ParseGlobal
    <2> QED BY <2>1, <1>c, ThrownParse
  <1>2. CASE l.opt \in DOMAIN Con!Options /\ ~okay
    <2>1. Con!ParseGlobal(c, l) = Con!Throw(c)
      BY <1>2 DEF Con!ParseGlobal
    <2> QED BY <2>1, <1>c, ThrownParse
  <1>3. CASE l.opt \in DOMAIN Con!Options /\ okay
    <2>1. Con!ParseGlobal(c, l) = d
      BY <1>3 DEF Con!ParseGlobal
    <2>2. /\ Con!IsConfig(e) /\ e.state = c.state /\ e.values = c.values /\ e.acls = c.acls
          /\ c.custom \subseteq e.custom
      BY <1>c DEF Con!IsConfig
    <2> HIDE DEF e, v
    <2>3. /\ Con!IsConfig(d) /\ d.acls = e.acls /\ d.custom = e.custom /\ d.state = e.state
          /\ DOMAIN d.values = DOMAIN c.values \cup {l.opt} /\ d.values[l.opt] = v
          /\ \A p \in DOMAIN c.values \ {l.opt} : d.values[p] = c.values[p]
      BY <2>2, PutEntry
    <2> HIDE DEF d
    <2>4. IdleOrder(Con!Values(d, "idle_timeout"))
      <3>1. CASE l.opt = "idle_timeout"
        <4>1. row.min = 3 /\ row.put = "set"
          BY <3>1, IdleRow DEF Con!Row
        <4>2. v = l.args /\ l.args \in Seq(Int)
          BY <3>1, <4>1 DEF v, ConfigLine
        <4>3. Len(l.args) >= 3
          BY <1>3, <4>1 DEF Con!ParameterCheck
        <4>4. l.args[1] \in Int /\ l.args[2] \in Int /\ l.args[3] \in Int
          BY <4>2, <4>3
        <4>5. l.args[2] >= 1 /\ l.args[2] < l.args[1] /\ l.args[3] \in l.args[2]..l.args[1]
          BY <1>3, <3>1 DEF Con!TimeOkay
        <4>6. Con!Values(d, "idle_timeout") = l.args
          BY <2>3, <3>1, <4>2 DEF Con!Values
        <4> QED BY <4>4, <4>5, <4>6 DEF IdleOrder
      <3>2. CASE l.opt # "idle_timeout"
        <4>1. Con!Values(d, "idle_timeout") = Con!Values(c, "idle_timeout")
          BY <2>3, <3>2 DEF Con!Values
        <4> QED BY <4>1 DEF ParseInv
      <3> QED BY <3>1, <3>2
    <2>5. "db_replicaset" \in DOMAIN d.values => d.values["db_replicaset"] # <<>>
      <3>1. CASE l.opt = "db_replicaset"
        <4>1. row.min = 1 /\ row.put = "set"
          BY <3>1, ReplicaRow
        <4>2. v = l.args
          BY <4>1 DEF v
        <4>3. Len(l.args) >= 1
          BY <1>3, <4>1 DEF Con!ParameterCheck
        <4>4. l.args # <<>>
          BY <4>3
        <4> QED BY <2>3, <3>1, <4>2, <4>4
      <3>2. CASE l.opt # "db_replicaset"
        BY <2>3, <3>2 DEF ParseInv
      <3> QED BY <3>1, <3>2
    <2>6. \A kv \in DOMAIN d.acls : kv[2] \in IF kv[1] = "-" THEN ACLKeywords ELSE d.custom
      BY <2>2, <2>3 DEF ParseInv
    <2> QED BY <2>1, <2>3, <2>4, <2>5, <2>6 DEF ParseInv
  <1> QED BY <1>1, <1>2, <1>3

\* One line of the file.
LEMMA ParseKept ==
  ASSUME NEW c, NEW l, ParseInv(c), ConfigLine(l)
  PROVE  ParseInv(Con!Parse(c, l))
PROOF
  <1>c. Con!IsConfig(c)
    BY DEF ParseInv
  <1>1. CASE c.state # "good"
    BY <1>1 DEF Con!Parse
  <1>2. CASE c.state = "good" /\ c.section # Con!None
    BY <1>2, SectionParse DEF Con!Parse
  <1>3. CASE c.state = "good" /\ c.section = Con!None
    <2>0. Con!Parse(c, l) = Con!ParseGlobal(c, l)
      BY <1>3 DEF Con!Parse
    <2>1. CASE l.opt \in {"-", "custom-"}
      BY <1>3, <2>0, <2>1, AclParse DEF Con!ParseGlobal
    <2>2. CASE l.opt = "section"
      <3>1. Con!Parse(c, l) = Con!ParseSectionStart(c, l)
        BY <2>0, <2>2 DEF Con!ParseGlobal
      <3> DEFINE t == Con!With(c.sections, l.args[1], [path |-> {}, separate_credits |-> "no", ratio |-> -1])
                 d == [version |-> c.version, values |-> c.values, acls |-> c.acls,
                       section |-> l.args[1], sections |-> t, custom |-> c.custom, state |-> c.state]
      <3> HIDE DEF t
      <3>2. Con!IsConfig(d)
        BY DEF Con!IsConfig
      <3>3. ParseInv(d)
        BY <3>2, SameParse
      <3>4. [c EXCEPT !.section = l.args[1], !.sections = t] = d
        <4>1. [c EXCEPT !.section = l.args[1], !.sections = t]
                = [[c EXCEPT !.section = l.args[1]] EXCEPT !.sections = t]
          OBVIOUS
        <4> DEFINE e == [version |-> c.version, values |-> c.values, acls |-> c.acls,
                         section |-> l.args[1], sections |-> c.sections, custom |-> c.custom,
                         state |-> c.state]
        <4>2. [c EXCEPT !.section = l.args[1]] = e
          BY <1>c DEF Con!IsConfig
        <4>3. [e EXCEPT !.sections = t] = d
          OBVIOUS
        <4> QED BY <4>1, <4>2, <4>3
      <3>5. Con!Parse(c, l) = Con!Throw(c) \/ Con!Parse(c, l) = [c EXCEPT !.section = l.args[1], !.sections = t]
        BY <3>1 DEF Con!ParseSectionStart, t
      <3> QED BY <1>c, <3>3, <3>4, <3>5, ThrownParse
    <2>3. CASE l.opt \notin {"-", "custom-", "section"}
      BY <1>3, <2>0, <2>3, SettingParse
    <2> QED BY <2>1, <2>2, <2>3
  <1> QED BY <1>1, <1>2, <1>3

\* The configurations after 0, 1, ... lines exist: from those after m lines come those
\* after m + 1.
LEMMA ParsedExists ==
  ASSUME NEW lines, NEW n \in Nat
  PROVE  \E f : f = [i \in 0..n |-> IF i = 0 THEN Con!Blank ELSE Con!Parse(f[i - 1], lines[i])]
PROOF
  <1> DEFINE G(f, m) == [i \in 0..m |-> IF i = 0 THEN Con!Blank ELSE Con!Parse(f[i - 1], lines[i])]
             S == {m \in Nat : ~\E f : f = G(f, m)}
  <1>1. S = {}
    <2> SUFFICES ASSUME S # {} PROVE FALSE
      OBVIOUS
    <2>1. PICK m \in S : \A k \in S : m <= k
      <3>1. S \in SUBSET Nat
        OBVIOUS
      <3> HIDE DEF S
      <3> QED BY <3>1, LeastNumber
    <2>2. CASE m = 0
      <3> DEFINE g == [i \in 0..0 |-> Con!Blank]
      <3>1. g = G(g, 0)
        OBVIOUS
      <3> QED BY <2>1, <2>2, <3>1
    <2>3. CASE m # 0
      <3>1. m - 1 \in Nat /\ m - 1 \notin S
        BY <2>1, <2>3
      <3>2. PICK f : f = G(f, m - 1)
        BY <3>1
      <3> DEFINE g == [i \in 0..m |-> IF i = m THEN Con!Parse(f[m - 1], lines[m]) ELSE f[i]]
      <3>3. \A i \in 0..(m - 1) : f[i] = IF i = 0 THEN Con!Blank ELSE Con!Parse(f[i - 1], lines[i])
        BY <3>2, Zenon
      <3>4. m \in Nat
        BY <2>1
      <3>5. ASSUME NEW i \in 0..m
            PROVE  g[i] = IF i = 0 THEN Con!Blank ELSE Con!Parse(g[i - 1], lines[i])
        <4>1. CASE i = m
          <5>1. g[i - 1] = f[m - 1] /\ g[i] = Con!Parse(f[m - 1], lines[m])
            BY <2>3, <3>4, <4>1
          <5> QED BY <2>3, <4>1, <5>1
        <4>2. CASE i # m /\ i # 0
          <5>1. i \in 0..(m - 1) /\ i - 1 \in 0..m /\ i - 1 # m
            BY <3>4, <4>2
          <5>2. g[i] = f[i] /\ g[i - 1] = f[i - 1]
            BY <4>2, <5>1
          <5> QED BY <3>3, <4>2, <5>1, <5>2
        <4>3. CASE i # m /\ i = 0
          <5>1. i \in 0..(m - 1)
            BY <3>4, <4>3
          <5>2. g[i] = f[i]
            BY <4>3
          <5> QED BY <3>3, <4>3, <5>1, <5>2
        <4> QED BY <4>1, <4>2, <4>3
      <3>6. g = G(g, m)
        BY <3>5, Zenon
      <3> QED BY <2>1, <3>6
    <2> QED BY <2>2, <2>3
  <1> QED BY <1>1

\* For a file of any length: what the constructor of Config accepts is complete
\* (cfg/config.cpp), so that ConfigAssumption asks nothing of the files.
THEOREM ConstructCompletes ==
  ASSUME NEW lines, Len(lines) \in Nat, \A i \in 1..Len(lines) : ConfigLine(lines[i])
  PROVE  /\ Con!IsConfig(Con!Construct(lines))
         /\ Con!Construct(lines).state = "good" => Con!Complete(Con!Construct(lines))
PROOF
  <1> DEFINE n == Len(lines)
             G(f) == [i \in 0..n |-> IF i = 0 THEN Con!Blank ELSE Con!Parse(f[i - 1], lines[i])]
             parsed == CHOOSE f : f = G(f)
  <1>1. Con!Construct(lines) = Con!SanityCheck(parsed[n])
    BY DEF Con!Construct
  <1>n. n \in Nat
    OBVIOUS
  <1>l. \A i \in 1..n : ConfigLine(lines[i])
    OBVIOUS
  <1> HIDE DEF n
  <1>2. \E f : f = G(f)
    BY <1>n, ParsedExists
  <1>3. parsed = G(parsed)
    <2> HIDE DEF G
    <2> QED BY <1>2
  <1> HIDE DEF parsed
  <1>4. \A i \in 0..n : parsed[i] = IF i = 0 THEN Con!Blank ELSE Con!Parse(parsed[i - 1], lines[i])
    BY <1>3, Zenon
  <1> DEFINE S == {i \in 0..n : ~ParseInv(parsed[i])}
  <1>5. S = {}
    <2> SUFFICES ASSUME S # {} PROVE FALSE
      OBVIOUS
    <2>1. PICK i \in S : \A k \in S : i <= k
      <3>1. S \in SUBSET Nat
        BY <1>n
      <3> HIDE DEF S
      <3> QED BY <3>1, LeastNumber
    <2>2. CASE i = 0
      <3>1. ParseInv(Con!Blank)
        BY DEF ParseInv, Con!Blank, Con!IsConfig, Con!Values, IdleOrder
      <3> QED BY <1>4, <1>n, <2>1, <2>2, <3>1
    <2>3. CASE i # 0
      <3>1. i \in 1..n /\ i - 1 \in 0..n /\ ~(i <= i - 1)
        BY <1>n, <2>1, <2>3
      <3>2. ParseInv(parsed[i - 1])
        BY <2>1, <3>1
      <3>3. parsed[i] = Con!Parse(parsed[i - 1], lines[i])
        BY <1>4, <2>1, <2>3
      <3> QED BY <1>l, <2>1, <3>1, <3>2, <3>3, ParseKept
    <2> QED BY <2>2, <2>3
  <1>6. ParseInv(parsed[n])
    BY <1>5, <1>n
  <1> QED BY <1>1, <1>6, SanityCompletes

\* The configurations that are loaded come from files, and the one the server was
\* started with was accepted.
FromFile(c) ==
  \E lines : /\ Len(lines) \in Nat /\ \A i \in 1..Len(lines) : ConfigLine(lines[i])
             /\ c = Con!Construct(lines)
ConfigFiles ==
  /\ Clients \cap Con!Reloaders = {}
  /\ FromFile(FirstLoad) /\ FirstLoad.state = "good"
  /\ \A i \in DOMAIN Loads : FromFile(Loads[i])

\* Whatever files the administrator leaves in place of ebftpd.conf, in whatever order and
\* whoever loads them: what is published is complete and followed (cfg/config.cpp,
\* cfg/get.cpp).
THEOREM AnyFilesFollowed == ConfigFiles => (Con!Spec => []Con!ConfigFollowed)
PROOF
  <1> SUFFICES ASSUME ConfigFiles PROVE Con!Spec => []Con!ConfigFollowed
    OBVIOUS
  <1>1. ASSUME NEW c, FromFile(c) PROVE Con!IsConfig(c) /\ (c.state = "good" => Con!Complete(c))
    <2>1. PICK lines : /\ Len(lines) \in Nat /\ \A i \in 1..Len(lines) : ConfigLine(lines[i])
                       /\ c = Con!Construct(lines)
      BY <1>1 DEF FromFile
    <2> QED BY <2>1, ConstructCompletes
  <1>2. Con!ConfigAssumption
    BY <1>1 DEF ConfigFiles, Con!ConfigAssumption
  <1> QED BY <1>2, ConfigurationsFollowed

-----------------------------------------------------------------------------
(* Statistics: sums and documents *)

\* The sums and sizes of Statistics are those of FiniteSums and FiniteSets.
LEMMA StatisticsSets ==
  /\ \A f, S : Sta!SumFunctionOnSet(f, S) = SumFunctionOnSet(f, S)
  /\ \A S : Sta!Cardinality(S) = Cardinality(S)
PROOF
  <1>1. ASSUME NEW f, NEW S PROVE Sta!SumFunctionOnSet(f, S) = SumFunctionOnSet(f, S)
    <2>1. Sta!SumFunctionOnSet(f, S) = (CHOOSE h : Sums(h, f, S))[S]
      BY DEF Sta!SumFunctionOnSet, Sta!FoldFunctionOnSet, Sta!MapThenFoldSet, Sums, Pick
    <2> QED BY <2>1, SumUnfolded
  <1>2. \A S : Sta!Cardinality(S) = Cardinality(S)
    BY DEF Sta!Cardinality, Cardinality
  <1> QED BY <1>1, <1>2

StatFields == {"files", "kBytes", "xfertime"}
Stats == [StatFields -> Int]

\* The three sums of a document.
LEMMA StatShape ==
  /\ DOMAIN Sta!Zero = StatFields /\ Sta!Zero \in Stats /\ \A f \in StatFields : Sta!Zero[f] = 0
  /\ \A a, b, c \in Int :
       LET r == [files |-> a, kBytes |-> b, xfertime |-> c] IN
       /\ r \in Stats /\ r["files"] = a /\ r["kBytes"] = b /\ r["xfertime"] = c
  /\ \A r \in Stats : r.files = r["files"] /\ r.kBytes = r["kBytes"] /\ r.xfertime = r["xfertime"]
PROOF
  <1>1. DOMAIN Sta!Zero = StatFields
    BY DEF Sta!Zero, StatFields
  <1>2. ASSUME NEW a \in Int, NEW b \in Int, NEW c \in Int, NEW r, r = [files |-> a, kBytes |-> b, xfertime |-> c]
        PROVE  r \in Stats /\ r["files"] = a /\ r["kBytes"] = b /\ r["xfertime"] = c
    <2>1. r["files"] = a /\ r["kBytes"] = b /\ r["xfertime"] = c
      BY <1>2
    <2>2. DOMAIN r = StatFields
      BY <1>2 DEF StatFields
    <2>3. r = [f \in StatFields |-> r[f]]
      BY <1>2, <2>2
    <2> QED BY <2>1, <2>3 DEF Stats, StatFields
  <1>3. Sta!Zero \in Stats /\ \A f \in StatFields : Sta!Zero[f] = 0
    BY <1>2 DEF Sta!Zero, StatFields
  <1>4. \A r \in Stats : r.files = r["files"] /\ r.kBytes = r["kBytes"] /\ r.xfertime = r["xfertime"]
    OBVIOUS
  <1> QED BY <1>1, <1>2, <1>3, <1>4

Keys == Rankeds \X Sta!Days \X Sta!AllSections

\* The documents of the transfers collection, and their sums over a set K of keys, over a
\* set S of sections and on the day d.
DocTypes ==
  /\ transfers = [k \in DOMAIN transfers |-> transfers[k]]
  /\ IsFiniteSet(DOMAIN transfers) /\ DOMAIN transfers \subseteq Keys
  /\ \A k \in DOMAIN transfers : transfers[k] \in Stats
Column(docs, f) == [k \in DOMAIN docs |-> docs[k][f]]
KeysIn(docs, K) == {k \in DOMAIN docs : k \in K}
SumOn(docs, f, K) == SumFunctionOnSet(Column(docs, f), KeysIn(docs, K))
SumIn(docs, f, S) == SumOn(docs, f, Rankeds \X Sta!Days \X S)
DaySum(docs, f, d) == SumOn(docs, f, Rankeds \X {d} \X Sta!AllSections)

\* Adding two of them.
LEMMA PlusStats ==
  ASSUME NEW a \in Stats, NEW b \in Stats
  PROVE  Sta!Plus(a, b) \in Stats /\ \A f \in StatFields : Sta!Plus(a, b)[f] = a[f] + b[f]
PROOF
  BY StatShape DEF Sta!Plus, Stats

\* The share that is taken.
LEMMA MinusStats ==
  ASSUME NEW a \in Stats
  PROVE  Sta!Minus(a) \in Stats /\ \A f \in StatFields : Sta!Minus(a)[f] = 0 - a[f]
PROOF
  BY StatShape DEF Sta!Minus, Stats

\* Documents have finitely many keys and sums that are numbers.
LEMMA SumOnNumber ==
  ASSUME DocTypes, NEW f \in StatFields, NEW K
  PROVE  /\ IsFiniteSet(KeysIn(transfers, K)) /\ SumOn(transfers, f, K) \in Int
         /\ \A k \in DOMAIN transfers : Column(transfers, f)[k] \in Int
PROOF
  <1>1. IsFiniteSet(KeysIn(transfers, K))
    <2>1. KeysIn(transfers, K) \subseteq DOMAIN transfers
      BY DEF KeysIn
    <2> QED BY <2>1, FS_Subset DEF DocTypes
  <1>2. \A k \in DOMAIN transfers : Column(transfers, f)[k] \in Int
    BY DEF DocTypes, Column, Stats
  <1>3. \A k \in KeysIn(transfers, K) : Column(transfers, f)[k] \in Int
    BY <1>2 DEF KeysIn
  <1>4. SumOn(transfers, f, K) \in Int
    BY <1>1, <1>3, SumInteger DEF SumOn
  <1> QED BY <1>1, <1>2, <1>4

\* What TotalOf adds up.
LEMMA TotalIs ==
  ASSUME DocTypes, NEW K
  PROVE  /\ Sta!TotalOf(K) \in Stats
         /\ \A f \in StatFields : Sta!TotalOf(K)[f] = SumOn(transfers, f, K)
PROOF
  <1>1. K \cap DOMAIN transfers = KeysIn(transfers, K)
    BY DEF KeysIn
  <1>2. Sta!TotalOf(K) = [f \in StatFields |-> SumOn(transfers, f, K)]
    BY <1>1, StatShape, StatisticsSets DEF Sta!TotalOf, SumOn, Column
  <1>3. \A f \in StatFields : SumOn(transfers, f, K) \in Int
    BY SumOnNumber
  <1> QED BY <1>2, <1>3 DEF Stats

\* The correction of a time is a number, also after a division.
LEMMA CorrectionNumber ==
  ASSUME DocTypes, NEW u, NEW kb \in Int, NEW d
  PROVE  Sta!XfertimeCorrection(u, kb, d) \in Int
PROOF
  <1>1. PICK t : t = Sta!TotalOf(Rankeds \X {d} \X Sta!AllSections)
    OBVIOUS
  <1>2. t \in Stats
    BY <1>1, TotalIs
  <1>3. t.xfertime \in Int /\ t.kBytes \in Int
    BY <1>2, StatShape DEF Stats, StatFields
  <1>4. t.kBytes > 0 => (t.xfertime * kb + t.kBytes - 1) \div t.kBytes \in Int
    <2> SUFFICES ASSUME t.kBytes > 0 PROVE (t.xfertime * kb + t.kBytes - 1) \div t.kBytes \in Int
      OBVIOUS
    <2>1. PICK x : x = t.xfertime * kb + t.kBytes - 1
      OBVIOUS
    <2>2. x \in Int
      BY <1>3, <2>1
    <2>3. PICK y : y = t.kBytes
      OBVIOUS
    <2>4. x \div y \in Int
      BY <1>3, <2>2, <2>3
    <2> QED BY <2>1, <2>3, <2>4
  <1>5. Sta!XfertimeCorrection(u, kb, d) =
          IF d \notin Sundays /\ t.xfertime > 0 /\ t.kBytes > 0
          THEN (t.xfertime * kb + t.kBytes - 1) \div t.kBytes ELSE 0
    BY <1>1 DEF Sta!XfertimeCorrection
  <1> QED BY <1>4, <1>5

\* An upsert adds to the sums over the keys that hold its own.
LEMMA UpdateSums ==
  ASSUME DocTypes, NEW u \in Rankeds, today \in Sta!Days, NEW s \in Sta!AllSections, NEW stat \in Stats,
         Sta!Update(u, s, stat)
  PROVE  /\ DocTypes'
         /\ \A f \in StatFields : \A K :
              SumOn(transfers', f, K) = SumOn(transfers, f, K) + IF <<u, today, s>> \in K THEN stat[f] ELSE 0
PROOF
  <1>1. PICK key : key = <<u, today, s>>
    OBVIOUS
  <1>2. PICK D : D = DOMAIN transfers
    OBVIOUS
  <1>3. key \in Keys
    BY <1>1 DEF Keys
  <1>4. transfers' = [k \in D \cup {key} |-> IF k # key THEN transfers[k]
                        ELSE IF k \in D THEN Sta!Plus(transfers[k], stat) ELSE stat]
    BY <1>1, <1>2 DEF Sta!Update
  <1>5. DOMAIN transfers' = D \cup {key} /\ IsFiniteSet(D) /\ IsFiniteSet(D \cup {key})
    BY <1>2, <1>4, FS_AddElement DEF DocTypes
  <1>6. /\ \A k \in D : k # key => transfers'[k] = transfers[k]
        /\ key \in D => transfers'[key] = Sta!Plus(transfers[key], stat)
        /\ key \notin D => transfers'[key] = stat
    BY <1>4
  <1>7. \A k \in D : transfers[k] \in Stats
    BY <1>2 DEF DocTypes
  <1>8. \A k \in D \cup {key} : transfers'[k] \in Stats
    BY <1>6, <1>7, PlusStats
  <1>9. transfers' = [k \in DOMAIN transfers' |-> transfers'[k]]
    BY <1>4, <1>5
  <1>10. DocTypes'
    BY <1>2, <1>3, <1>5, <1>8, <1>9 DEF DocTypes, Keys
  <1>11. ASSUME NEW f \in StatFields, NEW K
         PROVE  SumOn(transfers', f, K) = SumOn(transfers, f, K) + IF <<u, today, s>> \in K THEN stat[f] ELSE 0
    <2>1. PICK a : a = Column(transfers, f)
      OBVIOUS
    <2>2. PICK b : b = Column(transfers', f)
      OBVIOUS
    <2>3. PICK A : A = KeysIn(transfers, K)
      OBVIOUS
    <2>4. PICK B : B = KeysIn(transfers', K)
      OBVIOUS
    <2>5. IsFiniteSet(A) /\ SumFunctionOnSet(a, A) \in Int /\ \A k \in A : a[k] \in Int
      BY <2>1, <2>3, SumOnNumber DEF KeysIn, SumOn
    <2>6. /\ \A k \in D : a[k] = transfers[k][f]
          /\ \A k \in D \cup {key} : b[k] = transfers'[k][f] /\ b[k] \in Int
      BY <1>2, <1>5, <1>8, <2>1, <2>2 DEF Column, Stats
    <2>7. /\ A = {k \in D : k \in K} /\ B = {k \in D \cup {key} : k \in K}
      BY <1>2, <1>5, <2>3, <2>4 DEF KeysIn
    <2>8. SumOn(transfers, f, K) = SumFunctionOnSet(a, A) /\ SumOn(transfers', f, K) = SumFunctionOnSet(b, B)
      BY <2>1, <2>2, <2>3, <2>4 DEF SumOn
    <2>9. stat[f] \in Int
      BY DEF Stats
    <2>10. \A k \in A : k # key => a[k] = b[k]
      BY <1>6, <2>6, <2>7
    <2>11. \A k \in A : b[k] \in Int
      BY <2>6, <2>7
    <2>12. CASE <<u, today, s>> \notin K
      <3>1. A = B /\ key \notin A
        BY <1>1, <2>7, <2>12
      <3>2. SumFunctionOnSet(a, A) = SumFunctionOnSet(b, A)
        BY <2>5, <2>10, <3>1, SumSame
      <3> QED BY <2>5, <2>8, <1>1, <2>12, <3>1, <3>2
    <2>13. CASE <<u, today, s>> \in K /\ key \in D
      <3>1. A = B /\ key \in A
        BY <1>1, <2>7, <2>13
      <3>2. SumFunctionOnSet(b, A) = SumFunctionOnSet(a, A) - a[key] + b[key]
        BY <2>5, <2>10, <2>11, <3>1, SumReplace
      <3>3. b[key] = a[key] + stat[f]
        BY <1>6, <1>7, <2>6, <2>13, PlusStats
      <3> QED BY <2>5, <2>8, <2>9, <1>1, <2>13, <3>1, <3>2, <3>3
    <2>14. CASE <<u, today, s>> \in K /\ key \notin D
      <3>1. B = A \cup {key} /\ key \notin A
        BY <1>1, <2>7, <2>14
      <3>2. b[key] = stat[f]
        BY <1>6, <2>6, <2>14
      <3>3. SumFunctionOnSet(b, A \cup {key}) = b[key] + SumFunctionOnSet(b, A)
        BY <2>5, <2>9, <2>11, <3>1, <3>2, SumAdd
      <3>4. SumFunctionOnSet(a, A) = SumFunctionOnSet(b, A)
        BY <2>5, <2>10, <3>1, SumSame
      <3> QED BY <2>5, <2>8, <2>9, <1>1, <2>14, <3>1, <3>2, <3>3, <3>4
    <2> QED BY <2>12, <2>13, <2>14
  <1> QED BY <1>10, <1>11

\* So it does for the sections and for the days.
LEMMA UpdateSections ==
  ASSUME DocTypes, NEW u \in Rankeds, today \in Sta!Days, NEW s \in Sta!AllSections, NEW stat \in Stats,
         Sta!Update(u, s, stat)
  PROVE  /\ DocTypes'
         /\ \A f \in StatFields : \A S :
              SumIn(transfers', f, S) = SumIn(transfers, f, S) + IF s \in S THEN stat[f] ELSE 0
         /\ \A f \in StatFields : \A d \in Sta!Days :
              DaySum(transfers', f, d) = DaySum(transfers, f, d) + IF d = today THEN stat[f] ELSE 0
PROOF
  <1>1. /\ DocTypes'
        /\ \A f \in StatFields : \A K :
             SumOn(transfers', f, K) = SumOn(transfers, f, K) + IF <<u, today, s>> \in K THEN stat[f] ELSE 0
    BY UpdateSums
  <1>2. \A S : <<u, today, s>> \in Rankeds \X Sta!Days \X S <=> s \in S
    OBVIOUS
  <1>3. \A d \in Sta!Days : <<u, today, s>> \in Rankeds \X {d} \X Sta!AllSections <=> d = today
    OBVIOUS
  <1> QED BY <1>1, <1>2, <1>3 DEF SumIn, DaySum

-----------------------------------------------------------------------------
(* Statistics: the moves under way *)

Updates == [uid : Rankeds, section : Sta!AllSections, stat : Stats]
MoveShape(m) ==
  /\ m = [id |-> m.id, left |-> m.left, began |-> m.began] /\ m.id \in Nat
  /\ m.left \in Seq(Updates) /\ Len(m.left) \in {1, 2}
  /\ Len(m.left) = 2 => \A f \in StatFields : m.left[1].stat[f] + m.left[2].stat[f] = 0
MoveTypes ==
  /\ IsFiniteSet(moves) /\ numMoves \in Nat
  /\ \A m \in moves : MoveShape(m) /\ m.id < numMoves
  /\ \A m, n \in moves : m.id = n.id => m = n

\* What the updates that are left of a move will add to the sections S, and what all will.
Entry(e, f, S) == IF e.section \in S THEN e.stat[f] ELSE 0
LeftOf(m, f, S) == Entry(m.left[1], f, S) + IF Len(m.left) = 2 THEN Entry(m.left[2], f, S) ELSE 0
Pending(ms, f, S) == SumFunctionOnSet([m \in ms |-> LeftOf(m, f, S)], ms)

\* What the second updates of the moves that began on the day d will add, if they come that day.
Half(m, f, d) == IF Len(m.left) = 1 /\ m.began = d THEN m.left[1].stat[f] ELSE 0
OnDay(ms, f, d) == SumFunctionOnSet([m \in ms |-> Half(m, f, d)], ms)

\* They are numbers.
LEMMA EntryNumber ==
  ASSUME NEW e \in Updates, NEW f \in StatFields, NEW S
  PROVE  Entry(e, f, S) \in Int
PROOF
  BY DEF Entry, Updates, Stats

LEMMA LeftNumber ==
  ASSUME NEW m, MoveShape(m), NEW f \in StatFields, NEW S
  PROVE  LeftOf(m, f, S) \in Int
PROOF
  <1>1. m.left[1] \in Updates /\ (Len(m.left) = 2 => m.left[2] \in Updates)
    BY DEF MoveShape
  <1> QED BY <1>1, EntryNumber DEF LeftOf

\* A sum over moves gains and loses what is left of each of them.
LEMMA PendingChanges ==
  ASSUME NEW ms, IsFiniteSet(ms), \A m \in ms : MoveShape(m), NEW f \in StatFields, NEW S
  PROVE  /\ Pending(ms, f, S) \in Int
         /\ \A m \in ms : /\ IsFiniteSet(ms \ {m})
                          /\ Pending(ms, f, S) = LeftOf(m, f, S) + Pending(ms \ {m}, f, S)
         /\ \A m : m \notin ms /\ MoveShape(m) =>
              IsFiniteSet(ms \cup {m}) /\ Pending(ms \cup {m}, f, S) = LeftOf(m, f, S) + Pending(ms, f, S)
PROOF
  <1>1. PICK a : a = [m \in ms |-> LeftOf(m, f, S)]
    OBVIOUS
  <1>2. \A m \in ms : a[m] = LeftOf(m, f, S) /\ a[m] \in Int
    BY <1>1, LeftNumber
  <1>3. Pending(ms, f, S) = SumFunctionOnSet(a, ms)
    BY <1>1 DEF Pending
  <1>4. Pending(ms, f, S) \in Int
    BY <1>2, <1>3, SumInteger
  <1>5. ASSUME NEW m \in ms
        PROVE  IsFiniteSet(ms \ {m}) /\ Pending(ms, f, S) = LeftOf(m, f, S) + Pending(ms \ {m}, f, S)
    <2>1. PICK b : b = [x \in ms \ {m} |-> LeftOf(x, f, S)]
      OBVIOUS
    <2>2. IsFiniteSet(ms \ {m})
      BY FS_RemoveElement
    <2>3. \A x \in ms \ {m} : a[x] = b[x]
      BY <1>2, <2>1
    <2>4. SumFunctionOnSet(a, ms \ {m}) = SumFunctionOnSet(b, ms \ {m})
      BY <2>2, <2>3, SumSame
    <2>5. Pending(ms \ {m}, f, S) = SumFunctionOnSet(b, ms \ {m})
      BY <2>1 DEF Pending
    <2>6. SumFunctionOnSet(a, ms) = a[m] + SumFunctionOnSet(a, ms \ {m})
      BY <1>2, SumRemove
    <2> QED BY <1>2, <1>3, <2>2, <2>4, <2>5, <2>6
  <1>6. ASSUME NEW m, m \notin ms, MoveShape(m)
        PROVE  IsFiniteSet(ms \cup {m}) /\ Pending(ms \cup {m}, f, S) = LeftOf(m, f, S) + Pending(ms, f, S)
    <2>1. PICK b : b = [x \in ms \cup {m} |-> LeftOf(x, f, S)]
      OBVIOUS
    <2>2. IsFiniteSet(ms \cup {m})
      BY FS_AddElement
    <2>3. /\ \A x \in ms : a[x] = b[x] /\ b[x] \in Int
          /\ b[m] = LeftOf(m, f, S) /\ b[m] \in Int
      BY <1>2, <1>6, <2>1, LeftNumber
    <2>4. SumFunctionOnSet(b, ms \cup {m}) = b[m] + SumFunctionOnSet(b, ms)
      BY <1>6, <2>3, SumAdd
    <2>5. SumFunctionOnSet(a, ms) = SumFunctionOnSet(b, ms)
      BY <2>3, SumSame
    <2>6. Pending(ms \cup {m}, f, S) = SumFunctionOnSet(b, ms \cup {m})
      BY <2>1 DEF Pending
    <2> QED BY <1>3, <2>2, <2>3, <2>4, <2>5, <2>6
  <1> QED BY <1>4, <1>5, <1>6

LEMMA HalfNumber ==
  ASSUME NEW m, MoveShape(m), NEW f \in StatFields, NEW d
  PROVE  Half(m, f, d) \in Int
PROOF
  <1>1. m.left[1] \in Updates
    BY DEF MoveShape
  <1> QED BY <1>1 DEF Half, Updates, Stats

\* So does the sum over the moves of a day.
LEMMA OnDayChanges ==
  ASSUME NEW ms, IsFiniteSet(ms), \A m \in ms : MoveShape(m), NEW f \in StatFields, NEW d
  PROVE  /\ OnDay(ms, f, d) \in Int
         /\ \A m \in ms : /\ IsFiniteSet(ms \ {m})
                          /\ OnDay(ms, f, d) = Half(m, f, d) + OnDay(ms \ {m}, f, d)
         /\ \A m : m \notin ms /\ MoveShape(m) =>
              IsFiniteSet(ms \cup {m}) /\ OnDay(ms \cup {m}, f, d) = Half(m, f, d) + OnDay(ms, f, d)
PROOF
  <1>1. PICK a : a = [m \in ms |-> Half(m, f, d)]
    OBVIOUS
  <1>2. \A m \in ms : a[m] = Half(m, f, d) /\ a[m] \in Int
    BY <1>1, HalfNumber
  <1>3. OnDay(ms, f, d) = SumFunctionOnSet(a, ms)
    BY <1>1 DEF OnDay
  <1>4. OnDay(ms, f, d) \in Int
    BY <1>2, <1>3, SumInteger
  <1>5. ASSUME NEW m \in ms
        PROVE  IsFiniteSet(ms \ {m}) /\ OnDay(ms, f, d) = Half(m, f, d) + OnDay(ms \ {m}, f, d)
    <2>1. PICK b : b = [x \in ms \ {m} |-> Half(x, f, d)]
      OBVIOUS
    <2>2. IsFiniteSet(ms \ {m})
      BY FS_RemoveElement
    <2>3. \A x \in ms \ {m} : a[x] = b[x]
      BY <1>2, <2>1
    <2>4. SumFunctionOnSet(a, ms \ {m}) = SumFunctionOnSet(b, ms \ {m})
      BY <2>2, <2>3, SumSame
    <2>5. OnDay(ms \ {m}, f, d) = SumFunctionOnSet(b, ms \ {m})
      BY <2>1 DEF OnDay
    <2>6. SumFunctionOnSet(a, ms) = a[m] + SumFunctionOnSet(a, ms \ {m})
      BY <1>2, SumRemove
    <2> QED BY <1>2, <1>3, <2>2, <2>4, <2>5, <2>6
  <1>6. ASSUME NEW m, m \notin ms, MoveShape(m)
        PROVE  IsFiniteSet(ms \cup {m}) /\ OnDay(ms \cup {m}, f, d) = Half(m, f, d) + OnDay(ms, f, d)
    <2>1. PICK b : b = [x \in ms \cup {m} |-> Half(x, f, d)]
      OBVIOUS
    <2>2. IsFiniteSet(ms \cup {m})
      BY FS_AddElement
    <2>3. /\ \A x \in ms : a[x] = b[x] /\ b[x] \in Int
          /\ b[m] = Half(m, f, d) /\ b[m] \in Int
      BY <1>2, <1>6, <2>1, HalfNumber
    <2>4. SumFunctionOnSet(b, ms \cup {m}) = b[m] + SumFunctionOnSet(b, ms)
      BY <1>6, <2>3, SumAdd
    <2>5. SumFunctionOnSet(a, ms) = SumFunctionOnSet(b, ms)
      BY <2>3, SumSame
    <2>6. OnDay(ms \cup {m}, f, d) = SumFunctionOnSet(b, ms \cup {m})
      BY <2>1 DEF OnDay
    <2> QED BY <1>3, <2>2, <2>3, <2>4, <2>5, <2>6
  <1> QED BY <1>4, <1>5, <1>6

\* A move that begins owes both of its updates.
LEMMA NewMoveSums ==
  ASSUME MoveTypes, NEW e \in Updates, NEW g \in Updates, Sta!NewMove(<<e, g>>),
         \A f \in StatFields : e.stat[f] + g.stat[f] = 0
  PROVE  /\ MoveTypes'
         /\ \A f \in StatFields : \A d : OnDay(moves', f, d) = OnDay(moves, f, d)
         /\ \A f \in StatFields : \A S :
              Pending(moves', f, S) = Pending(moves, f, S) + Entry(e, f, S) + Entry(g, f, S)
PROOF
  <1>1. PICK m : m = [id |-> numMoves, left |-> <<e, g>>, began |-> 0]
    OBVIOUS
  <1>2. m.id = numMoves /\ m.left = <<e, g>> /\ m = [id |-> m.id, left |-> m.left, began |-> m.began]
    BY <1>1
  <1>3. MoveShape(m) /\ m.id = numMoves /\ m.left[1] = e /\ m.left[2] = g /\ Len(m.left) = 2
    BY <1>2 DEF MoveShape, MoveTypes
  <1>4. moves' = moves \cup {m} /\ numMoves' = numMoves + 1
    BY <1>1 DEF Sta!NewMove
  <1>5. m \notin moves
    BY <1>3 DEF MoveTypes
  <1>6. MoveTypes'
    <2>1. IsFiniteSet(moves \cup {m})
      BY FS_AddElement DEF MoveTypes
    <2>2. \A x \in moves \cup {m} : MoveShape(x) /\ x.id < numMoves + 1 /\ (x # m => x.id < numMoves)
      BY <1>3 DEF MoveTypes, MoveShape
    <2>3. \A x, y \in moves \cup {m} : x.id = y.id => x = y
      BY <1>3, <2>2 DEF MoveTypes, MoveShape
    <2> QED BY <1>4, <2>1, <2>2, <2>3 DEF MoveTypes, MoveShape
  <1>7. ASSUME NEW f \in StatFields, NEW S
        PROVE  Pending(moves', f, S) = Pending(moves, f, S) + Entry(e, f, S) + Entry(g, f, S)
    <2>1. Pending(moves, f, S) \in Int /\ Pending(moves \cup {m}, f, S) = LeftOf(m, f, S) + Pending(moves, f, S)
      BY <1>3, <1>5, PendingChanges DEF MoveTypes
    <2>2. LeftOf(m, f, S) = Entry(e, f, S) + Entry(g, f, S)
      BY <1>3 DEF LeftOf
    <2>3. Entry(e, f, S) \in Int /\ Entry(g, f, S) \in Int
      BY EntryNumber
    <2> QED BY <1>4, <2>1, <2>2, <2>3
  <1>8. ASSUME NEW f \in StatFields, NEW d PROVE OnDay(moves', f, d) = OnDay(moves, f, d)
    <2>1. OnDay(moves, f, d) \in Int /\ OnDay(moves \cup {m}, f, d) = Half(m, f, d) + OnDay(moves, f, d)
      BY <1>3, <1>5, OnDayChanges DEF MoveTypes
    <2>2. Half(m, f, d) = 0
      BY <1>3 DEF Half
    <2> QED BY <1>4, <2>1, <2>2
  <1> QED BY <1>6, <1>7, <1>8

\* A move that goes on owes its first update no more.
LEMMA MoveOnSums ==
  ASSUME MoveTypes, UNCHANGED numMoves, NEW m \in moves,
         moves' = (moves \ {m}) \cup
           IF Len(m.left) > 1 THEN {[m EXCEPT !.left = Tail(@), !.began = today]} ELSE {}
  PROVE  /\ MoveTypes'
         /\ Head(m.left) \in Updates
         /\ \A f \in StatFields : \A S :
              Pending(moves', f, S) = Pending(moves, f, S) - Entry(Head(m.left), f, S)
         /\ \A f \in StatFields : \A d :
              \/ Len(m.left) = 1 /\ m.began # today /\ d \in {m.began, today}
              \/ OnDay(moves', f, d) = OnDay(moves, f, d) - IF d = today THEN Head(m.left).stat[f] ELSE 0
PROOF
  <1>1. MoveShape(m) /\ m.id < numMoves /\ IsFiniteSet(moves \ {m})
    BY FS_RemoveElement DEF MoveTypes
  <1>2. m.left \in Seq(Updates) /\ Len(m.left) \in {1, 2} /\ m.left # <<>>
    <2>1. m.left \in Seq(Updates) /\ Len(m.left) \in {1, 2}
      BY <1>1 DEF MoveShape
    <2>2. m.left \in Seq(Updates) => (Len(m.left) \in {1, 2} => m.left # <<>>)
      <3>1. PICK l : l = m.left
        OBVIOUS
      <3>2. l \in Seq(Updates) => (Len(l) \in {1, 2} => l # <<>>)
        BY SMTT(30)
      <3> QED BY <3>1, <3>2
    <2> QED BY <2>1, <2>2, Zenon
  <1>3. Head(m.left) \in Updates /\ Head(m.left) = m.left[1]
    BY <1>2
  <1>4. \A x \in moves \ {m} : MoveShape(x) /\ x.id < numMoves /\ x.id # m.id
    BY DEF MoveTypes
  <1>5. CASE Len(m.left) = 1
    <2>1. moves' = moves \ {m}
      BY <1>5
    <2>2. MoveTypes'
      BY <1>1, <1>4, <2>1 DEF MoveTypes, MoveShape
    <2>3. ASSUME NEW f \in StatFields, NEW S
          PROVE  Pending(moves', f, S) = Pending(moves, f, S) - Entry(Head(m.left), f, S)
      <3>1. LeftOf(m, f, S) = Entry(Head(m.left), f, S) + 0
        BY <1>3, <1>5 DEF LeftOf
      <3>2. /\ Pending(moves, f, S) = LeftOf(m, f, S) + Pending(moves \ {m}, f, S)
            /\ Pending(moves \ {m}, f, S) \in Int /\ Entry(Head(m.left), f, S) \in Int
        BY <1>1, <1>3, <1>4, PendingChanges, EntryNumber DEF MoveTypes
      <3>3. Pending(moves', f, S) = Pending(moves \ {m}, f, S)
        BY <2>1
      <3> QED BY <3>1, <3>2, <3>3
    <2>4. ASSUME NEW f \in StatFields, NEW d, m.began = today \/ d \notin {m.began, today}
          PROVE  OnDay(moves', f, d) = OnDay(moves, f, d) - IF d = today THEN Head(m.left).stat[f] ELSE 0
      <3>1. Half(m, f, d) = IF d = today THEN Head(m.left).stat[f] ELSE 0
        BY <1>3, <1>5, <2>4 DEF Half
      <3>2. /\ OnDay(moves, f, d) = Half(m, f, d) + OnDay(moves \ {m}, f, d)
            /\ OnDay(moves \ {m}, f, d) \in Int /\ Half(m, f, d) \in Int
        BY <1>1, <1>4, OnDayChanges, HalfNumber DEF MoveTypes
      <3>3. OnDay(moves', f, d) = OnDay(moves \ {m}, f, d)
        BY <2>1
      <3> QED BY <3>1, <3>2, <3>3
    <2> QED BY <1>3, <1>5, <2>2, <2>3, <2>4
  <1>6. CASE Len(m.left) = 2
    <2>1. PICK n : n = [m EXCEPT !.left = Tail(@), !.began = today]
      OBVIOUS
    <2>2. n = [id |-> m.id, left |-> Tail(m.left), began |-> today]
      BY <1>1, <2>1 DEF MoveShape
    <2>3. /\ n.id = m.id /\ n.left = Tail(m.left) /\ n.began = today
          /\ n = [id |-> n.id, left |-> n.left, began |-> n.began]
      BY <2>2
    <2>4. Tail(m.left) \in Seq(Updates) /\ Len(Tail(m.left)) = 1 /\ Tail(m.left)[1] = m.left[2]
      BY <1>2, <1>6
    <2>5. MoveShape(n)
      BY <1>1, <2>3, <2>4 DEF MoveShape
    <2>6. moves' = (moves \ {m}) \cup {n}
      BY <1>6, <2>1
    <2>7. n \notin moves \ {m}
      BY <1>4, <2>3
    <2>8. MoveTypes'
      <3>1. IsFiniteSet((moves \ {m}) \cup {n})
        BY <1>1, FS_AddElement
      <3>2. \A x \in (moves \ {m}) \cup {n} : MoveShape(x) /\ x.id < numMoves
        BY <1>1, <1>4, <2>3, <2>5
      <3>3. \A x, y \in (moves \ {m}) \cup {n} : x.id = y.id => x = y
        BY <1>4, <2>3 DEF MoveTypes
      <3> QED BY <2>6, <3>1, <3>2, <3>3 DEF MoveTypes, MoveShape
    <2>9. ASSUME NEW f \in StatFields, NEW S
          PROVE  Pending(moves', f, S) = Pending(moves, f, S) - Entry(Head(m.left), f, S)
      <3>1. LeftOf(m, f, S) = Entry(Head(m.left), f, S) + Entry(m.left[2], f, S)
        BY <1>3, <1>6 DEF LeftOf
      <3>2. LeftOf(n, f, S) = Entry(m.left[2], f, S) + 0
        <4>1. Len(n.left) = 1 /\ n.left[1] = m.left[2]
          BY <2>3, <2>4
        <4>2. Len(n.left) # 2
          BY <4>1
        <4> QED BY <4>1, <4>2 DEF LeftOf
      <3>3. m.left[2] \in Updates
        BY <1>2, <1>6
      <3>4. /\ Pending(moves, f, S) = LeftOf(m, f, S) + Pending(moves \ {m}, f, S)
            /\ Pending(moves \ {m}, f, S) \in Int
            /\ Pending((moves \ {m}) \cup {n}, f, S) = LeftOf(n, f, S) + Pending(moves \ {m}, f, S)
        <4>1. Pending(moves, f, S) = LeftOf(m, f, S) + Pending(moves \ {m}, f, S)
          BY PendingChanges DEF MoveTypes
        <4>2. PICK ms : ms = moves \ {m}
          OBVIOUS
        <4>3. IsFiniteSet(ms) /\ (\A x \in ms : MoveShape(x)) /\ n \notin ms
          BY <1>1, <1>4, <2>7, <4>2
        <4>4. Pending(ms, f, S) \in Int /\ Pending(ms \cup {n}, f, S) = LeftOf(n, f, S) + Pending(ms, f, S)
          BY <2>5, <4>3, PendingChanges
        <4> QED BY <4>1, <4>2, <4>4
      <3>5. Entry(Head(m.left), f, S) \in Int /\ Entry(m.left[2], f, S) \in Int
        BY <1>3, <3>3, EntryNumber
      <3>6. Pending(moves', f, S) = Pending((moves \ {m}) \cup {n}, f, S)
        BY <2>6
      <3> QED BY <3>1, <3>2, <3>4, <3>5, <3>6
    <2>10. ASSUME NEW f \in StatFields, NEW d
           PROVE  OnDay(moves', f, d) = OnDay(moves, f, d) - IF d = today THEN Head(m.left).stat[f] ELSE 0
      <3>1. Half(m, f, d) = 0
        BY <1>6 DEF Half
      <3>2. Half(n, f, d) = IF d = today THEN m.left[2].stat[f] ELSE 0
        <4>1. Len(n.left) = 1 /\ n.left[1] = m.left[2]
          BY <2>3, <2>4
        <4> QED BY <2>3, <4>1 DEF Half
      <3>3. m.left[2].stat[f] = 0 - Head(m.left).stat[f] /\ Head(m.left).stat[f] \in Int
        <4>1. Head(m.left).stat[f] \in Int /\ m.left[2].stat[f] \in Int
          <5>1. m.left[2] \in Updates
            BY <1>2, <1>6
          <5> QED BY <1>3, <5>1 DEF Updates, Stats
        <4>2. Head(m.left).stat[f] + m.left[2].stat[f] = 0
          BY <1>1, <1>3, <1>6 DEF MoveShape
        <4> QED BY <4>1, <4>2
      <3>4. /\ OnDay(moves, f, d) = Half(m, f, d) + OnDay(moves \ {m}, f, d)
            /\ OnDay(moves \ {m}, f, d) \in Int
            /\ OnDay((moves \ {m}) \cup {n}, f, d) = Half(n, f, d) + OnDay(moves \ {m}, f, d)
        <4>1. OnDay(moves, f, d) = Half(m, f, d) + OnDay(moves \ {m}, f, d)
          BY OnDayChanges DEF MoveTypes
        <4>2. PICK ms : ms = moves \ {m}
          OBVIOUS
        <4>3. IsFiniteSet(ms) /\ (\A x \in ms : MoveShape(x)) /\ n \notin ms
          BY <1>1, <1>4, <2>7, <4>2
        <4>4. OnDay(ms, f, d) \in Int /\ OnDay(ms \cup {n}, f, d) = Half(n, f, d) + OnDay(ms, f, d)
          BY <2>5, <4>3, OnDayChanges
        <4> QED BY <4>1, <4>2, <4>4
      <3>5. OnDay(moves', f, d) = OnDay((moves \ {m}) \cup {n}, f, d)
        BY <2>6
      <3> QED BY <3>1, <3>2, <3>3, <3>4, <3>5
    <2> QED BY <1>3, <2>8, <2>9, <2>10
  <1> QED BY <1>2, <1>5, <1>6

-----------------------------------------------------------------------------
(* Statistics: the files *)

Files == [id : Nat, owner : Rankeds, section : Sta!AllSections, counted : BOOLEAN, kBytes : Nat, day : Sta!Days,
          nuked : BOOLEAN]
OneId(F) == \A f, g \in F : f.id = g.id => f = g
FileTypes ==
  /\ uploaded \in Stats /\ uploaded["files"] \in Nat /\ uploadedOn \in [Sta!Days -> Stats]
  /\ IsFiniteSet(onDisk) /\ onDisk \subseteq Files /\ OneId(onDisk)
  /\ \A f \in onDisk : f.id < uploaded["files"]

Standing(s) == {f \in onDisk : f.section = s /\ f.counted /\ ~f.nuked}
Of(n) == {f \in onDisk : f.id \in n.ids}

\* The kBytes of a set of files change with each of them.
LEMMA KBytesChange ==
  ASSUME NEW F, IsFiniteSet(F), \A f \in F : f.kBytes \in Nat
  PROVE  /\ Sta!KBytesOf(F) \in Nat /\ Cardinality(F) \in Nat
         /\ \A f \in F : /\ IsFiniteSet(F \ {f}) /\ Sta!KBytesOf(F) = f.kBytes + Sta!KBytesOf(F \ {f})
                         /\ Cardinality(F \ {f}) = Cardinality(F) - 1
         /\ \A f : f \notin F /\ f.kBytes \in Nat =>
              /\ IsFiniteSet(F \cup {f}) /\ Sta!KBytesOf(F \cup {f}) = f.kBytes + Sta!KBytesOf(F)
              /\ Cardinality(F \cup {f}) = Cardinality(F) + 1
PROOF
  <1>1. PICK a : a = [f \in F |-> f.kBytes]
    OBVIOUS
  <1>2. \A f \in F : a[f] = f.kBytes /\ a[f] \in Nat /\ a[f] \in Int
    BY <1>1
  <1>3. Sta!KBytesOf(F) = SumFunctionOnSet(a, F)
    BY <1>1, StatisticsSets DEF Sta!KBytesOf
  <1>4. Sta!KBytesOf(F) \in Nat /\ Cardinality(F) \in Nat
    BY <1>2, <1>3, SumNatural, FS_CardinalityType
  <1>5. ASSUME NEW f \in F
        PROVE  /\ IsFiniteSet(F \ {f}) /\ Sta!KBytesOf(F) = f.kBytes + Sta!KBytesOf(F \ {f})
               /\ Cardinality(F \ {f}) = Cardinality(F) - 1
    <2>1. PICK b : b = [x \in F \ {f} |-> x.kBytes]
      OBVIOUS
    <2>2. IsFiniteSet(F \ {f}) /\ Cardinality(F \ {f}) = Cardinality(F) - 1
      BY FS_RemoveElement
    <2>3. \A x \in F \ {f} : a[x] = b[x]
      BY <1>2, <2>1
    <2>4. SumFunctionOnSet(a, F \ {f}) = SumFunctionOnSet(b, F \ {f})
      BY <2>2, <2>3, SumSame
    <2>5. Sta!KBytesOf(F \ {f}) = SumFunctionOnSet(b, F \ {f})
      BY <2>1, StatisticsSets DEF Sta!KBytesOf
    <2>6. SumFunctionOnSet(a, F) = a[f] + SumFunctionOnSet(a, F \ {f})
      BY <1>2, SumRemove
    <2> QED BY <1>2, <1>3, <2>2, <2>4, <2>5, <2>6
  <1>6. ASSUME NEW f, f \notin F, f.kBytes \in Nat
        PROVE  /\ IsFiniteSet(F \cup {f}) /\ Sta!KBytesOf(F \cup {f}) = f.kBytes + Sta!KBytesOf(F)
               /\ Cardinality(F \cup {f}) = Cardinality(F) + 1
    <2>1. PICK b : b = [x \in F \cup {f} |-> x.kBytes]
      OBVIOUS
    <2>2. IsFiniteSet(F \cup {f}) /\ Cardinality(F \cup {f}) = Cardinality(F) + 1
      BY <1>6, FS_AddElement
    <2>3. /\ \A x \in F : a[x] = b[x] /\ b[x] \in Int
          /\ b[f] = f.kBytes /\ b[f] \in Int
      BY <1>2, <1>6, <2>1
    <2>4. SumFunctionOnSet(b, F \cup {f}) = b[f] + SumFunctionOnSet(b, F)
      BY <1>6, <2>3, SumAdd
    <2>5. SumFunctionOnSet(a, F) = SumFunctionOnSet(b, F)
      BY <2>3, SumSame
    <2>6. Sta!KBytesOf(F \cup {f}) = SumFunctionOnSet(b, F \cup {f})
      BY <2>1, StatisticsSets DEF Sta!KBytesOf
    <2> QED BY <1>3, <2>2, <2>3, <2>4, <2>5, <2>6
  <1> QED BY <1>4, <1>5, <1>6

\* No files have no kBytes.
LEMMA NoKBytes == Sta!KBytesOf({}) = 0
PROOF
  <1>1. PICK z : z = [f \in {} |-> f.kBytes]
    OBVIOUS
  <1>2. SumFunctionOnSet(z, {}) = 0
    BY FS_EmptySet, SumFirst
  <1> QED BY <1>1, <1>2, StatisticsSets DEF Sta!KBytesOf

\* Those of two sets without a file in common add up.
LEMMA KBytesJoined ==
  ASSUME NEW F, IsFiniteSet(F), \A f \in F : f.kBytes \in Nat,
         NEW G, IsFiniteSet(G), \A f \in G : f.kBytes \in Nat, F \cap G = {}
  PROVE  /\ IsFiniteSet(F \cup G) /\ Sta!KBytesOf(F \cup G) = Sta!KBytesOf(F) + Sta!KBytesOf(G)
         /\ Cardinality(F \cup G) = Cardinality(F) + Cardinality(G)
PROOF
  <1> DEFINE Q == {T \in SUBSET G : Sta!KBytesOf(F \cup T) = Sta!KBytesOf(F) + Sta!KBytesOf(T)}
  <1>1. ASSUME NEW T \in SUBSET G, \A U \in SUBSET T : U # T => U \in Q
        PROVE  T \in Q
    <2>1. IsFiniteSet(T) /\ \A f \in T : f.kBytes \in Nat
      BY FS_Subset
    <2>2. CASE T = {}
      <3>1. F \cup {} = F
        OBVIOUS
      <3>2. Sta!KBytesOf({}) = 0
        BY NoKBytes
      <3>3. Sta!KBytesOf(F) \in Nat
        BY KBytesChange
      <3> QED BY <2>2, <3>1, <3>2, <3>3
    <2>3. CASE T # {}
      <3>1. PICK f \in T : TRUE
        BY <2>3
      <3>2. PICK U : U = T \ {f}
        OBVIOUS
      <3>3. U \in Q /\ U \in SUBSET G /\ IsFiniteSet(U) /\ \A x \in U : x.kBytes \in Nat
        BY <1>1, <2>1, <3>1, <3>2, FS_RemoveElement
      <3>4. Sta!KBytesOf(T) = f.kBytes + Sta!KBytesOf(U) /\ f.kBytes \in Nat
        BY <2>1, <3>1, <3>2, KBytesChange
      <3>5. Sta!KBytesOf(F \cup U) = Sta!KBytesOf(F) + Sta!KBytesOf(U)
        BY <3>3
      <3>6. PICK V : V = F \cup U
        OBVIOUS
      <3>7. IsFiniteSet(V) /\ (\A x \in V : x.kBytes \in Nat) /\ f \notin V /\ V \cup {f} = F \cup T
        BY <3>1, <3>2, <3>3, <3>6, FS_Union
      <3>8. Sta!KBytesOf(F \cup T) = f.kBytes + Sta!KBytesOf(V)
        BY <3>4, <3>7, KBytesChange
      <3>9. Sta!KBytesOf(F) \in Nat /\ Sta!KBytesOf(U) \in Nat
        BY <3>3, KBytesChange
      <3> QED BY <3>4, <3>5, <3>6, <3>8, <3>9
    <2> QED BY <2>2, <2>3
  <1> HIDE DEF Q
  <1>2. G \in Q
    BY <1>1, SubsetInduction
  <1>3. IsFiniteSet(F \cup G) /\ Cardinality(F \cup G) = Cardinality(F) + Cardinality(G) - Cardinality(F \cap G)
    BY FS_Union
  <1>4. Cardinality(F \cap G) = 0
    BY FS_EmptySet
  <1>5. Cardinality(F) \in Nat /\ Cardinality(G) \in Nat
    BY FS_CardinalityType
  <1> QED BY <1>2, <1>3, <1>4, <1>5 DEF Q

-----------------------------------------------------------------------------
(* Statistics: the inductive invariant *)

\* The nukees of nukes: of nuked files of their section, no file in two of them; the numbers
\* are those of the files while no share of the section went wrong.
NukeTypes ==
  /\ \A n \in nukeLog : /\ n.uid \in Rankeds /\ n.section \in StatSections /\ n.kBytes \in Nat /\ n.files \in Nat
                        /\ IsFiniteSet(n.nuke) /\ \A i \in n.ids : i \in Nat /\ i < uploaded["files"]
  /\ \A n \in nukeLog, f \in onDisk : f.id \in n.ids => f.nuked /\ f.section = n.section
  /\ \A m, n \in nukeLog : \A i \in m.ids : i \in n.ids => m = n
NukeExact ==
  \A n \in nukeLog : n.section \notin unclean =>
    Cardinality(Of(n)) = n.files /\ Sta!KBytesOf(Of(n)) = n.kBytes /\ \A f \in Of(n) : f.counted

\* The nuke under way: the files it has still to take were on disk, and if they are they are
\* as they were.
JobTypes ==
  /\ job = [do |-> job.do, section |-> job.section, day |-> job.day, todo |-> job.todo, nuke |-> job.nuke]
  /\ IsFiniteSet(job.todo) /\ job.todo \subseteq Files /\ OneId(job.todo) /\ IsFiniteSet(job.nuke)
  /\ \A f \in job.todo, g \in onDisk : f.id = g.id => f = g
  /\ \A f \in job.todo : /\ f.section = job.section /\ job.section \in StatSections /\ ~f.nuked
                         /\ f.id < uploaded["files"]
  /\ \A f \in job.todo, n \in nukeLog : f.id \notin n.ids

\* What the sections S will hold once every move has ended, and the day d if they end that day.
Ledger(f, S) == SumIn(transfers, f, S) + Pending(moves, f, S)
SectionInv ==
  \A s \in StatSections \ unclean : /\ Ledger("files", {s}) = Cardinality(Standing(s))
                                    /\ Ledger("kBytes", {s}) = Sta!KBytesOf(Standing(s))
AverageInv == \A f \in StatFields : Ledger(f, Sta!AllSections) = uploaded[f]
DayLedger(f, d) == DaySum(transfers, f, d) + OnDay(moves, f, d)
DayInv == \A d \in Sta!Days \ split : \A f \in StatFields : DayLedger(f, d) = uploadedOn[d][f]
StatInv ==
  /\ today \in Sta!Days /\ DocTypes /\ MoveTypes /\ FileTypes /\ NukeTypes /\ NukeExact /\ JobTypes
  /\ SectionInv /\ AverageInv /\ DayInv

\* The two updates of a move to the nameless section and back.
LEMMA DecrSums ==
  ASSUME Sta!StatAssumption, MoveTypes, NEW u \in Rankeds, NEW s \in StatSections, NEW stat \in Stats,
         Sta!NewMove(Sta!UploadDecr(u, s, stat))
  PROVE  /\ MoveTypes'
         /\ \A f \in StatFields : \A d : OnDay(moves', f, d) = OnDay(moves, f, d)
         /\ \A f \in StatFields :
              /\ Pending(moves', f, Sta!AllSections) = Pending(moves, f, Sta!AllSections)
              /\ \A r \in StatSections :
                   Pending(moves', f, {r}) = Pending(moves, f, {r}) - IF r = s THEN stat[f] ELSE 0
PROOF
  <1>1. PICK e : e = [uid |-> u, section |-> s, stat |-> Sta!Minus(stat)]
    OBVIOUS
  <1>2. PICK g : g = [uid |-> u, section |-> Sta!NoSection, stat |-> stat]
    OBVIOUS
  <1>3. s \in Sta!AllSections /\ Sta!NoSection \in Sta!AllSections /\ Sta!Minus(stat) \in Stats
    BY MinusStats DEF Sta!AllSections
  <1>4. e \in Updates /\ g \in Updates
    BY <1>1, <1>2, <1>3 DEF Updates
  <1>5. Sta!NewMove(<<e, g>>)
    BY <1>1, <1>2 DEF Sta!UploadDecr
  <1>6. /\ MoveTypes'
        /\ \A f \in StatFields : \A d : OnDay(moves', f, d) = OnDay(moves, f, d)
        /\ \A f \in StatFields : \A S :
             Pending(moves', f, S) = Pending(moves, f, S) + Entry(e, f, S) + Entry(g, f, S)
    <2>1. \A f \in StatFields : e.stat[f] + g.stat[f] = 0
      BY <1>1, <1>2, MinusStats DEF Stats
    <2> QED BY <1>4, <1>5, <2>1, NewMoveSums
  <1>7. ASSUME NEW f \in StatFields
        PROVE  /\ Pending(moves', f, Sta!AllSections) = Pending(moves, f, Sta!AllSections)
               /\ \A r \in StatSections :
                    Pending(moves', f, {r}) = Pending(moves, f, {r}) - IF r = s THEN stat[f] ELSE 0
    <2>1. /\ e.section = s /\ g.section = Sta!NoSection /\ e.stat[f] = 0 - stat[f] /\ g.stat[f] = stat[f]
          /\ stat[f] \in Int
      BY <1>1, <1>2, MinusStats DEF Stats
    <2>2. \A S : Pending(moves, f, S) \in Int
      BY PendingChanges DEF MoveTypes
    <2>3. Entry(e, f, Sta!AllSections) = 0 - stat[f] /\ Entry(g, f, Sta!AllSections) = stat[f]
      BY <1>3, <2>1 DEF Entry
    <2>4. Pending(moves', f, Sta!AllSections) = Pending(moves, f, Sta!AllSections)
      BY <1>6, <2>1, <2>2, <2>3
    <2>5. ASSUME NEW r \in StatSections
          PROVE  Pending(moves', f, {r}) = Pending(moves, f, {r}) - IF r = s THEN stat[f] ELSE 0
      <3>1. Entry(e, f, {r}) = (IF r = s THEN 0 - stat[f] ELSE 0) /\ Entry(g, f, {r}) = 0
        BY <2>1 DEF Entry, Sta!StatAssumption
      <3> QED BY <1>6, <2>1, <2>2, <3>1
    <2> QED BY <2>4, <2>5
  <1> QED BY <1>6, <1>7

LEMMA IncrSums ==
  ASSUME Sta!StatAssumption, MoveTypes, NEW u \in Rankeds, NEW s \in StatSections, NEW stat \in Stats,
         Sta!NewMove(Sta!UploadIncr(u, s, stat))
  PROVE  /\ MoveTypes'
         /\ \A f \in StatFields : \A d : OnDay(moves', f, d) = OnDay(moves, f, d)
         /\ \A f \in StatFields :
              /\ Pending(moves', f, Sta!AllSections) = Pending(moves, f, Sta!AllSections)
              /\ \A r \in StatSections :
                   Pending(moves', f, {r}) = Pending(moves, f, {r}) + IF r = s THEN stat[f] ELSE 0
PROOF
  <1>1. PICK e : e = [uid |-> u, section |-> Sta!NoSection, stat |-> Sta!Minus(stat)]
    OBVIOUS
  <1>2. PICK g : g = [uid |-> u, section |-> s, stat |-> stat]
    OBVIOUS
  <1>3. s \in Sta!AllSections /\ Sta!NoSection \in Sta!AllSections /\ Sta!Minus(stat) \in Stats
    BY MinusStats DEF Sta!AllSections
  <1>4. e \in Updates /\ g \in Updates
    BY <1>1, <1>2, <1>3 DEF Updates
  <1>5. Sta!NewMove(<<e, g>>)
    BY <1>1, <1>2 DEF Sta!UploadIncr
  <1>6. /\ MoveTypes'
        /\ \A f \in StatFields : \A d : OnDay(moves', f, d) = OnDay(moves, f, d)
        /\ \A f \in StatFields : \A S :
             Pending(moves', f, S) = Pending(moves, f, S) + Entry(e, f, S) + Entry(g, f, S)
    <2>1. \A f \in StatFields : e.stat[f] + g.stat[f] = 0
      BY <1>1, <1>2, MinusStats DEF Stats
    <2> QED BY <1>4, <1>5, <2>1, NewMoveSums
  <1>7. ASSUME NEW f \in StatFields
        PROVE  /\ Pending(moves', f, Sta!AllSections) = Pending(moves, f, Sta!AllSections)
               /\ \A r \in StatSections :
                    Pending(moves', f, {r}) = Pending(moves, f, {r}) + IF r = s THEN stat[f] ELSE 0
    <2>1. /\ e.section = Sta!NoSection /\ g.section = s /\ e.stat[f] = 0 - stat[f] /\ g.stat[f] = stat[f]
          /\ stat[f] \in Int
      BY <1>1, <1>2, MinusStats DEF Stats
    <2>2. \A S : Pending(moves, f, S) \in Int
      BY PendingChanges DEF MoveTypes
    <2>3. Entry(e, f, Sta!AllSections) = 0 - stat[f] /\ Entry(g, f, Sta!AllSections) = stat[f]
      BY <1>3, <2>1 DEF Entry
    <2>4. Pending(moves', f, Sta!AllSections) = Pending(moves, f, Sta!AllSections)
      BY <1>6, <2>1, <2>2, <2>3
    <2>5. ASSUME NEW r \in StatSections
          PROVE  Pending(moves', f, {r}) = Pending(moves, f, {r}) + IF r = s THEN stat[f] ELSE 0
      <3>1. Entry(g, f, {r}) = (IF r = s THEN stat[f] ELSE 0) /\ Entry(e, f, {r}) = 0
        BY <2>1 DEF Entry, Sta!StatAssumption
      <3> QED BY <1>6, <2>1, <2>2, <3>1
    <2> QED BY <2>4, <2>5
  <1> QED BY <1>6, <1>7

\* The share of a set of files.
LEMMA ShareOfFiles ==
  ASSUME DocTypes, NEW u, NEW F, IsFiniteSet(F), F \subseteq Files, NEW d
  PROVE  /\ Sta!StatOf(u, F, d) \in Stats
         /\ Sta!StatOf(u, F, d)["files"] = Cardinality(F) /\ Sta!StatOf(u, F, d)["kBytes"] = Sta!KBytesOf(F)
         /\ Sta!StatOf(u, F, d).files = Cardinality(F) /\ Sta!StatOf(u, F, d).kBytes = Sta!KBytesOf(F)
         /\ Cardinality(F) \in Nat /\ Sta!KBytesOf(F) \in Nat
         /\ \A f \in F : f.kBytes \in Nat
PROOF
  <1>1. IsFiniteSet(F) /\ \A f \in F : f.kBytes \in Nat
    BY DEF Files
  <1>2. Cardinality(F) \in Nat /\ Sta!KBytesOf(F) \in Nat
    BY <1>1, KBytesChange
  <1>3. PICK x : x = Sta!XfertimeCorrection(u, Sta!KBytesOf(F), d)
    OBVIOUS
  <1>4. x \in Int
    BY <1>2, <1>3, CorrectionNumber
  <1>5. PICK k : k = Sta!KBytesOf(F)
    OBVIOUS
  <1>6. PICK c : c = Cardinality(F)
    OBVIOUS
  <1>7. Sta!StatOf(u, F, d) = [files |-> c, kBytes |-> k, xfertime |-> x]
    BY <1>3, <1>5, <1>6, StatisticsSets DEF Sta!StatOf
  <1>8. Sta!StatOf(u, F, d) \in Stats /\ Sta!StatOf(u, F, d)["files"] = c /\ Sta!StatOf(u, F, d)["kBytes"] = k
    BY <1>2, <1>4, <1>5, <1>6, <1>7, StatShape
  <1> QED BY <1>1, <1>2, <1>5, <1>6, <1>8, StatShape

\* Sets of files with the same ids and kBytes, as before and after a mark.
Twins(F, G) == \A f \in F : \E g \in G : g.id = f.id /\ g.kBytes = f.kBytes

\* They have the same size and the same kBytes.
LEMMA SameFiles ==
  ASSUME NEW F, IsFiniteSet(F), F \subseteq Files, OneId(F), NEW G, G \subseteq Files, OneId(G),
         Twins(F, G), Twins(G, F)
  PROVE  IsFiniteSet(G) /\ Cardinality(G) = Cardinality(F) /\ Sta!KBytesOf(G) = Sta!KBytesOf(F)
PROOF
  <1> DEFINE H(T) == {g \in G : \E f \in T : f.id = g.id}
             Q == {T \in SUBSET F : /\ IsFiniteSet(H(T)) /\ Cardinality(H(T)) = Cardinality(T)
                                    /\ Sta!KBytesOf(H(T)) = Sta!KBytesOf(T)}
  <1>1. ASSUME NEW T \in SUBSET F, \A U \in SUBSET T : U # T => U \in Q
        PROVE  T \in Q
    <2>1. CASE T = {}
      <3>1. H(T) = {}
        BY <2>1
      <3>2. IsFiniteSet({})
        BY FS_EmptySet
      <3> QED BY <2>1, <3>1, <3>2
    <2>2. CASE T # {}
      <3>1. PICK f \in T : TRUE
        BY <2>2
      <3>2. PICK U : U = T \ {f}
        OBVIOUS
      <3>3. U \in Q /\ IsFiniteSet(T) /\ \A x \in T : x.kBytes \in Nat
        BY <1>1, <3>1, <3>2, FS_Subset DEF Files
      <3>4. PICK g \in G : g.id = f.id /\ g.kBytes = f.kBytes
        BY <3>1 DEF Twins
      <3>5. PICK V : V = H(U)
        OBVIOUS
      <3>6. H(T) = V \cup {g}
        BY <3>1, <3>2, <3>4, <3>5 DEF OneId
      <3>7. g \notin V
        BY <3>1, <3>2, <3>4, <3>5 DEF OneId
      <3>8. /\ IsFiniteSet(V) /\ Cardinality(V) = Cardinality(U) /\ Sta!KBytesOf(V) = Sta!KBytesOf(U)
            /\ \A x \in V : x.kBytes \in Nat
        BY <3>3, <3>5 DEF Files
      <3>9. g.kBytes \in Nat
        BY <3>4 DEF Files
      <3>10. /\ IsFiniteSet(V \cup {g}) /\ Sta!KBytesOf(V \cup {g}) = g.kBytes + Sta!KBytesOf(V)
             /\ Cardinality(V \cup {g}) = Cardinality(V) + 1
        BY <3>7, <3>8, <3>9, KBytesChange
      <3>11. /\ Sta!KBytesOf(T) = f.kBytes + Sta!KBytesOf(U) /\ Cardinality(U) = Cardinality(T) - 1
             /\ Cardinality(T) \in Nat
        BY <3>1, <3>2, <3>3, KBytesChange
      <3>12. Cardinality(V \cup {g}) = Cardinality(T) /\ Sta!KBytesOf(V \cup {g}) = Sta!KBytesOf(T)
        BY <3>4, <3>8, <3>10, <3>11
      <3> QED BY <3>6, <3>10, <3>12
    <2> QED BY <2>1, <2>2
  <1>2. H(F) = G
    BY DEF Twins
  <1> HIDE DEF Q
  <1>3. F \in Q
    BY <1>1, SubsetInduction
  <1> QED BY <1>2, <1>3 DEF Q

-----------------------------------------------------------------------------
(* Statistics: the steps *)

\* The sums of an inductive state are numbers.
LEMMA LedgerNumber ==
  ASSUME DocTypes, MoveTypes, NEW f \in StatFields, NEW S
  PROVE  /\ SumIn(transfers, f, S) \in Int /\ Pending(moves, f, S) \in Int /\ Ledger(f, S) \in Int
PROOF
  <1>1. SumIn(transfers, f, S) \in Int
    BY SumOnNumber DEF SumIn
  <1>2. Pending(moves, f, S) \in Int
    BY PendingChanges DEF MoveTypes
  <1> QED BY <1>1, <1>2 DEF Ledger

LEMMA DayNumber ==
  ASSUME DocTypes, MoveTypes, NEW f \in StatFields, NEW d
  PROVE  DaySum(transfers, f, d) \in Int /\ OnDay(moves, f, d) \in Int
PROOF
  <1>1. DaySum(transfers, f, d) \in Int
    BY SumOnNumber DEF DaySum
  <1>2. OnDay(moves, f, d) \in Int
    BY OnDayChanges DEF MoveTypes
  <1> QED BY <1>1, <1>2

\* Where the documents and the moves together owe the same, the sums are kept.
LEMMA LedgerKept ==
  ASSUME SectionInv, AverageInv, UNCHANGED <<onDisk, uploaded, unclean>>,
         \A f \in StatFields : \A S : Ledger(f, S)' = Ledger(f, S)
  PROVE  SectionInv' /\ AverageInv'
PROOF
  <1>1. \A s : Standing(s)' = Standing(s)
    BY DEF Standing
  <1>2. \A s : Sta!KBytesOf(Standing(s))' = Sta!KBytesOf(Standing(s)) /\ Cardinality(Standing(s))' = Cardinality(Standing(s))
    BY <1>1
  <1>3. SectionInv'
    BY <1>2 DEF SectionInv, StatFields
  <1>4. AverageInv'
    BY DEF AverageInv
  <1> QED BY <1>3, <1>4

\* A step that leaves the documents and the second updates of the moves leaves the days.
LEMMA DaysKept ==
  ASSUME DayInv, UNCHANGED <<transfers, uploadedOn, split>>,
         \A f \in StatFields : \A d : OnDay(moves', f, d) = OnDay(moves, f, d)
  PROVE  DayInv'
PROOF
  <1>1. \A f \in StatFields : \A d : DayLedger(f, d)' = DayLedger(f, d)
    BY DEF DayLedger, DaySum, Sta!AllSections
  <1> QED BY <1>1 DEF DayInv, Sta!Days

\* One of the updates of a move.
LEMMA MoveStepKept ==
  ASSUME Sta!StatAssumption, StatInv, Sta!MoveStep
  PROVE  StatInv'
PROOF
  <1>0. /\ today \in Sta!Days /\ DocTypes /\ MoveTypes /\ FileTypes /\ NukeTypes /\ NukeExact /\ JobTypes
        /\ SectionInv /\ AverageInv /\ DayInv
    BY DEF StatInv
  <1>1. PICK m \in moves :
          /\ Sta!Update(Head(m.left).uid, Head(m.left).section, Head(m.left).stat)
          /\ moves' = (moves \ {m}) \cup
               IF Len(m.left) > 1 THEN {[m EXCEPT !.left = Tail(@), !.began = today]} ELSE {}
          /\ split' = IF Len(m.left) = 1 /\ m.began # today THEN split \cup {m.began, today} ELSE split
    BY DEF Sta!MoveStep
  <1>2. UNCHANGED <<onDisk, today, nukeLog, job, uploaded, uploadedOn, numMoves, unclean>>
    BY DEF Sta!MoveStep
  <1>3. /\ MoveTypes' /\ Head(m.left) \in Updates
        /\ \A f \in StatFields : \A S :
             Pending(moves', f, S) = Pending(moves, f, S) - Entry(Head(m.left), f, S)
        /\ \A f \in StatFields : \A d :
             \/ Len(m.left) = 1 /\ m.began # today /\ d \in {m.began, today}
             \/ OnDay(moves', f, d) = OnDay(moves, f, d) - IF d = today THEN Head(m.left).stat[f] ELSE 0
    BY <1>0, <1>1, <1>2, MoveOnSums
  <1>4. PICK e \in Updates : e = Head(m.left)
    BY <1>3
  <1>5. e.uid \in Rankeds /\ e.section \in Sta!AllSections /\ e.stat \in Stats
    BY DEF Updates
  <1>6. Sta!Update(e.uid, e.section, e.stat)
    BY <1>1, <1>4
  <1>7. /\ DocTypes'
        /\ \A f \in StatFields : \A S :
             SumIn(transfers', f, S) = SumIn(transfers, f, S) + IF e.section \in S THEN e.stat[f] ELSE 0
        /\ \A f \in StatFields : \A d \in Sta!Days :
             DaySum(transfers', f, d) = DaySum(transfers, f, d) + IF d = today THEN e.stat[f] ELSE 0
    BY <1>0, <1>5, <1>6, UpdateSections
  <1>8. ASSUME NEW f \in StatFields, NEW S PROVE Ledger(f, S)' = Ledger(f, S)
    <2>1. Entry(e, f, S) \in Int /\ SumIn(transfers, f, S) \in Int /\ Pending(moves, f, S) \in Int
      BY <1>0, EntryNumber, LedgerNumber
    <2>2. SumIn(transfers', f, S) = SumIn(transfers, f, S) + Entry(e, f, S)
      BY <1>7 DEF Entry
    <2>3. Pending(moves', f, S) = Pending(moves, f, S) - Entry(e, f, S)
      BY <1>3, <1>4
    <2> QED BY <2>1, <2>2, <2>3 DEF Ledger
  <1>9. SectionInv' /\ AverageInv'
    BY <1>0, <1>2, <1>8, LedgerKept
  <1>10. today' \in Sta!Days /\ FileTypes'
    BY <1>0, <1>2 DEF Sta!Days, FileTypes, OneId
  <1>11. NukeTypes' /\ NukeExact' /\ JobTypes'
    BY <1>0, <1>2 DEF NukeTypes, NukeExact, Of, JobTypes, OneId
  <1>12. DayInv'
    <2> SUFFICES ASSUME NEW d \in Sta!Days, d \notin split', NEW f \in StatFields
                 PROVE  DayLedger(f, d)' = uploadedOn[d][f]
      BY <1>2, Zenon DEF DayInv, Sta!Days
    <2>1. d \notin split /\ ~(Len(m.left) = 1 /\ m.began # today /\ d \in {m.began, today})
      BY <1>1
    <2>2. OnDay(moves', f, d) = OnDay(moves, f, d) - IF d = today THEN e.stat[f] ELSE 0
      BY <1>3, <1>4, <2>1
    <2>3. DaySum(transfers', f, d) = DaySum(transfers, f, d) + IF d = today THEN e.stat[f] ELSE 0
      BY <1>7
    <2>4. DaySum(transfers, f, d) \in Int /\ OnDay(moves, f, d) \in Int /\ e.stat[f] \in Int
      BY <1>0, <1>5, DayNumber DEF Stats
    <2>5. DayLedger(f, d)' = DaySum(transfers', f, d) + OnDay(moves', f, d)
      BY DEF DayLedger, DaySum, Sta!AllSections
    <2>6. DaySum(transfers, f, d) + OnDay(moves, f, d) = uploadedOn[d][f]
      BY <1>0, <2>1 DEF DayInv, DayLedger
    <2> QED BY <2>2, <2>3, <2>4, <2>5, <2>6
  <1> QED BY <1>3, <1>7, <1>9, <1>10, <1>11, <1>12 DEF StatInv

\* Midnight, and a step that changes nothing.
LEMMA MidnightKept ==
  ASSUME Sta!StatAssumption, StatInv, Sta!Midnight \/ UNCHANGED Sta!statVars
  PROVE  StatInv'
PROOF
  <1>0. /\ today \in Sta!Days /\ DocTypes /\ MoveTypes /\ FileTypes /\ NukeTypes /\ NukeExact /\ JobTypes
        /\ SectionInv /\ AverageInv /\ DayInv
    BY DEF StatInv
  <1>1. UNCHANGED <<transfers, onDisk, moves, nukeLog, job, uploaded, uploadedOn, numMoves, unclean, split>>
    BY DEF Sta!Midnight, Sta!statVars
  <1>2. today' \in Sta!Days
    BY <1>0 DEF Sta!Midnight, Sta!statVars, Sta!Days, Sta!StatAssumption
  <1>3. DocTypes' /\ MoveTypes'
    BY <1>0, <1>1 DEF DocTypes, MoveTypes, MoveShape
  <1>4. FileTypes' /\ NukeTypes' /\ NukeExact' /\ JobTypes'
    BY <1>0, <1>1 DEF FileTypes, OneId, NukeTypes, NukeExact, Of, JobTypes
  <1>5. \A f \in StatFields : \A S : Ledger(f, S)' = Ledger(f, S)
    BY <1>1 DEF Ledger
  <1>6. SectionInv' /\ AverageInv'
    BY <1>0, <1>1, <1>5, LedgerKept
  <1>7. DayInv'
    BY <1>0, <1>1, DaysKept
  <1> QED BY <1>2, <1>3, <1>4, <1>6, <1>7 DEF StatInv

\* NUKE looks at a directory, UNNUKE finds a record: only the job changes.
LEMMA JobKept ==
  ASSUME Sta!StatAssumption, StatInv, Sta!CalculateNukees \/ Sta!LookupNuke
  PROVE  StatInv'
PROOF
  <1>0. /\ today \in Sta!Days /\ DocTypes /\ MoveTypes /\ FileTypes /\ NukeTypes /\ NukeExact /\ JobTypes
        /\ SectionInv /\ AverageInv /\ DayInv
    BY DEF StatInv
  <1>1. UNCHANGED <<transfers, onDisk, moves, today, nukeLog, uploaded, uploadedOn, numMoves, unclean, split>>
    BY DEF Sta!CalculateNukees, Sta!LookupNuke
  <1>2. today' \in Sta!Days
    BY <1>0, <1>1 DEF Sta!Days
  <1>3. DocTypes' /\ MoveTypes'
    BY <1>0, <1>1 DEF DocTypes, MoveTypes, MoveShape
  <1>4. FileTypes' /\ NukeTypes' /\ NukeExact'
    BY <1>0, <1>1 DEF FileTypes, OneId, NukeTypes, NukeExact, Of
  <1>5. \A f \in StatFields : \A S : Ledger(f, S)' = Ledger(f, S)
    BY <1>1 DEF Ledger
  <1>6. SectionInv' /\ AverageInv'
    BY <1>0, <1>1, <1>5, LedgerKept
  <1>7. DayInv'
    BY <1>0, <1>1, DaysKept
  <1>8. JobTypes'
    <2>1. CASE Sta!CalculateNukees
      <3>1. PICK s \in StatSections, day \in 1 .. today :
              \E dir \in SUBSET {f \in onDisk : f.section = s /\ ~f.nuked} :
                job' = [do |-> "nuke", section |-> s, day |-> day, todo |-> dir, nuke |-> {f.id : f \in dir}]
        BY <2>1 DEF Sta!CalculateNukees
      <3>9. PICK dir \in SUBSET {f \in onDisk : f.section = s /\ ~f.nuked} :
              job' = [do |-> "nuke", section |-> s, day |-> day, todo |-> dir, nuke |-> {f.id : f \in dir}]
        BY <3>1
      <3>2. job'.todo = dir /\ job'.section = s /\ job'.nuke = {f.id : f \in dir}
        BY <3>9
      <3>8. job' = [do |-> job'.do, section |-> job'.section, day |-> job'.day, todo |-> job'.todo,
                    nuke |-> job'.nuke]
        BY <3>9
      <3>3. dir \subseteq onDisk /\ IsFiniteSet(dir)
        BY <1>0, FS_Subset DEF FileTypes
      <3>4. IsFiniteSet({f.id : f \in dir})
        <4>1. PICK k \in Nat : k = uploaded["files"]
          BY <1>0 DEF FileTypes
        <4>2. IsFiniteSet(0 .. k)
          BY FS_Interval
        <4>3. {f.id : f \in dir} \subseteq 0 .. k
          BY <1>0, <3>3, <4>1 DEF FileTypes, Files
        <4> QED BY <4>2, <4>3, FS_Subset
      <3>5. dir \subseteq Files /\ OneId(dir) /\ \A f \in dir, g \in onDisk : f.id = g.id => f = g
        BY <1>0, <3>3 DEF FileTypes, OneId
      <3>6. \A f \in dir : f.section = s /\ ~f.nuked /\ f.id < uploaded["files"]
        BY <1>0, <3>3 DEF FileTypes
      <3>7. \A f \in dir, n \in nukeLog : f.id \notin n.ids
        BY <1>0, <3>3, <3>6 DEF NukeTypes
      <3> QED BY <1>1, <3>2, <3>3, <3>4, <3>5, <3>6, <3>7, <3>8 DEF JobTypes, OneId
    <2>2. CASE Sta!LookupNuke
      <3>1. PICK n \in nukeLog : job' = [Sta!NoJob EXCEPT !.do = "unnuke", !.nuke = n.nuke]
        BY <2>2 DEF Sta!LookupNuke
      <3>2. job' = [do |-> "unnuke", section |-> Sta!NoSection, day |-> 0, todo |-> {}, nuke |-> n.nuke]
        BY <3>1 DEF Sta!NoJob
      <3>4. /\ job' = [do |-> job'.do, section |-> job'.section, day |-> job'.day, todo |-> job'.todo,
                       nuke |-> job'.nuke]
            /\ job'.todo = {} /\ job'.nuke = n.nuke
        BY <3>2
      <3>3. IsFiniteSet({}) /\ IsFiniteSet(n.nuke)
        BY <1>0, FS_EmptySet DEF NukeTypes
      <3> QED BY <3>3, <3>4 DEF JobTypes, OneId
    <2> QED BY <2>1, <2>2
  <1> QED BY <1>2, <1>3, <1>4, <1>6, <1>7, <1>8 DEF StatInv

\* An upload: a new file, counted in its section or not.
LEMMA UploadKept ==
  ASSUME Sta!StatAssumption, StatInv, Sta!Upload
  PROVE  StatInv'
PROOF
  <1>0. /\ today \in Sta!Days /\ DocTypes /\ MoveTypes /\ FileTypes /\ NukeTypes /\ NukeExact /\ JobTypes
        /\ SectionInv /\ AverageInv /\ DayInv
    BY DEF StatInv
  <1>21. PICK x \in Stores :
           LET counted == Sta!Counts(x.section, x.nostats)
               stat == Sta!UploadStat(x.owner, x.kBytes)
           IN /\ uploaded' = Sta!Plus(uploaded, stat)
              /\ uploadedOn' = [uploadedOn EXCEPT ![today] = Sta!Plus(@, stat)]
              /\ onDisk' = onDisk \cup
                   {[id |-> uploaded.files, owner |-> x.owner, section |-> x.section,
                     counted |-> counted, kBytes |-> x.kBytes, day |-> today, nuked |-> FALSE]}
              /\ Sta!Update(x.owner, IF counted THEN x.section ELSE Sta!NoSection, stat)
    BY DEF Sta!Upload
  <1>22. PICK u : u = x.owner
    OBVIOUS
  <1>23. PICK s : s = x.section
    OBVIOUS
  <1>24. PICK kb : kb = x.kBytes
    OBVIOUS
  <1>25. PICK c : c = Sta!Counts(x.section, x.nostats)
    OBVIOUS
  <1>26. PICK t : t = IF c THEN s ELSE Sta!NoSection
    OBVIOUS
  <1>27. u \in Rankeds /\ s \in Sta!AllSections /\ kb \in Nat /\ x.nostats \in BOOLEAN
    BY <1>22, <1>23, <1>24 DEF Sta!StatAssumption
  <1>28. c \in BOOLEAN /\ t \in Sta!AllSections /\ (c => s # Sta!NoSection)
    BY <1>23, <1>25, <1>26, <1>27 DEF Sta!Counts, Sta!AllSections
  <1>1. /\ uploaded' = Sta!Plus(uploaded, Sta!UploadStat(u, kb))
        /\ uploadedOn' = [uploadedOn EXCEPT ![today] = Sta!Plus(@, Sta!UploadStat(u, kb))]
        /\ onDisk' = onDisk \cup
             {[id |-> uploaded.files, owner |-> u, section |-> s, counted |-> c, kBytes |-> kb,
               day |-> today, nuked |-> FALSE]}
        /\ Sta!Update(u, t, Sta!UploadStat(u, kb))
    BY <1>21, <1>22, <1>23, <1>24, <1>25, <1>26
  <1>2. UNCHANGED <<moves, today, nukeLog, job, numMoves, unclean, split>>
    BY DEF Sta!Upload
  <1>3. PICK stat : stat = Sta!UploadStat(u, kb)
    OBVIOUS
  <1>4. u \in Int /\ kb \in Int /\ kb \in Nat
    BY <1>27 DEF Sta!StatAssumption
  <1>5. stat \in Stats /\ stat["files"] = 1 /\ stat["kBytes"] = kb
    BY <1>3, <1>4, StatShape DEF Sta!UploadStat
  <1>6. /\ DocTypes'
        /\ \A f \in StatFields : \A S :
             SumIn(transfers', f, S) = SumIn(transfers, f, S) + IF t \in S THEN stat[f] ELSE 0
        /\ \A f \in StatFields : \A d \in Sta!Days :
             DaySum(transfers', f, d) = DaySum(transfers, f, d) + IF d = today THEN stat[f] ELSE 0
    BY <1>0, <1>1, <1>3, <1>5, <1>27, <1>28, UpdateSections
  <1>7. MoveTypes' /\ today' \in Sta!Days
    BY <1>0, <1>2 DEF MoveTypes, MoveShape, Sta!Days
  <1>8. ASSUME NEW f \in StatFields, NEW S
        PROVE  /\ Ledger(f, S)' = Ledger(f, S) + IF t \in S THEN stat[f] ELSE 0
               /\ stat[f] \in Int /\ Ledger(f, S) \in Int
    <2>1. SumIn(transfers, f, S) \in Int /\ Pending(moves, f, S) \in Int /\ stat[f] \in Int
      BY <1>0, <1>5, LedgerNumber DEF Stats
    <2>2. Pending(moves', f, S) = Pending(moves, f, S)
      BY <1>2
    <2> QED BY <1>6, <2>1, <2>2 DEF Ledger
  <1>9. uploaded' \in Stats /\ \A f \in StatFields : uploaded'[f] = uploaded[f] + stat[f]
    BY <1>0, <1>1, <1>3, <1>5, PlusStats DEF FileTypes
  <1>10. AverageInv'
    <2>1. \A f \in StatFields : Ledger(f, Sta!AllSections)' = uploaded'[f]
      BY <1>0, <1>8, <1>9, <1>28 DEF AverageInv
    <2> QED BY <2>1 DEF AverageInv, Sta!AllSections
  <1>11. "files" \in StatFields /\ uploaded.files = uploaded["files"] /\ uploaded["files"] \in Nat
    BY <1>0, StatShape DEF StatFields, FileTypes
  <1>12. uploaded'["files"] = uploaded["files"] + 1
    BY <1>5, <1>9, <1>11
  <1>13. PICK new : new = [id |-> uploaded["files"], owner |-> u, section |-> s, counted |-> c,
                           kBytes |-> kb, day |-> today, nuked |-> FALSE]
    OBVIOUS
  <1>14. /\ new \in Files /\ new.id = uploaded["files"] /\ new.section = s /\ new.kBytes = kb
         /\ new.nuked = FALSE /\ new.counted = c
    BY <1>0, <1>4, <1>11, <1>13, <1>27, <1>28 DEF Files
  <1>15. onDisk' = onDisk \cup {new} /\ new \notin onDisk
    BY <1>0, <1>1, <1>11, <1>13, <1>14 DEF FileTypes
  <1>16. FileTypes'
    <2>1. IsFiniteSet(onDisk \cup {new})
      BY <1>0, FS_AddElement DEF FileTypes
    <2>2. \A f \in onDisk \cup {new} : f.id < uploaded["files"] + 1 /\ (f # new => f.id < uploaded["files"])
      BY <1>0, <1>11, <1>14 DEF FileTypes, Files
    <2>3. OneId(onDisk \cup {new})
      BY <1>0, <1>11, <1>14, <2>2 DEF OneId, FileTypes
    <2>4. onDisk \cup {new} \subseteq Files
      BY <1>0, <1>14 DEF FileTypes
    <2>5. OneId(onDisk') /\ onDisk' \subseteq Files'
      BY <1>15, <2>3, <2>4 DEF Files, Sta!AllSections, Sta!Days
    <2>6. uploaded' \in Stats' /\ uploaded'["files"] \in Nat
      BY <1>9, <1>11, <1>12 DEF Stats, StatFields
    <2>7. uploadedOn' \in [Sta!Days -> Stats]'
      BY <1>0, <1>1, <1>3, <1>5, PlusStats DEF FileTypes, Sta!Days, Stats, StatFields
    <2> QED BY <1>12, <1>15, <2>1, <2>2, <2>5, <2>6, <2>7 DEF FileTypes, OneId
  <1>17. \A n \in nukeLog : Of(n)' = Of(n)
    BY <1>0, <1>11, <1>14, <1>15 DEF Of, NukeTypes
  <1>18. NukeTypes'
    <2>1. \A n \in nukeLog : \A i \in n.ids : i \in Nat /\ i < uploaded["files"] + 1
      BY <1>0, <1>11 DEF NukeTypes
    <2>2. \A n \in nukeLog : new.id \notin n.ids
      BY <1>0, <1>11, <1>14 DEF NukeTypes
    <2> QED BY <1>0, <1>2, <1>12, <1>15, <2>1, <2>2 DEF NukeTypes
  <1>19. NukeExact'
    <2>1. \A n \in nukeLog : Cardinality(Of(n))' = Cardinality(Of(n)) /\ Sta!KBytesOf(Of(n))' = Sta!KBytesOf(Of(n))
      BY <1>17
    <2> QED BY <1>0, <1>2, <1>17, <2>1 DEF NukeExact
  <1>29. JobTypes'
    <2>1. \A f \in job.todo : f.id # new.id /\ f.id < uploaded["files"] + 1
      BY <1>0, <1>11, <1>14 DEF JobTypes, Files
    <2>2. \A f \in job.todo, g \in onDisk' : f.id = g.id => f = g
      BY <1>0, <1>15, <2>1 DEF JobTypes
    <2> QED BY <1>0, <1>2, <1>12, <2>1, <2>2 DEF JobTypes, OneId, Files, Sta!AllSections, Sta!Days
  <1>30. DayInv'
    <2> SUFFICES ASSUME NEW d \in Sta!Days, d \notin split, NEW f \in StatFields
                 PROVE  DayLedger(f, d)' = uploadedOn'[d][f]
      BY <1>2, Zenon DEF DayInv, Sta!Days
    <2>1. DaySum(transfers', f, d) = DaySum(transfers, f, d) + IF d = today THEN stat[f] ELSE 0
      BY <1>6
    <2>2. DaySum(transfers, f, d) \in Int /\ OnDay(moves, f, d) \in Int /\ stat[f] \in Int
      BY <1>0, <1>5, DayNumber DEF Stats
    <2>3. DayLedger(f, d)' = DaySum(transfers', f, d) + OnDay(moves, f, d)
      BY <1>2 DEF DayLedger, DaySum, Sta!AllSections
    <2>4. DaySum(transfers, f, d) + OnDay(moves, f, d) = uploadedOn[d][f]
      BY <1>0 DEF DayInv, DayLedger
    <2>5. uploadedOn'[d][f] = uploadedOn[d][f] + IF d = today THEN stat[f] ELSE 0
      <3>1. uploadedOn \in [Sta!Days -> Stats] /\ uploadedOn[d] \in Stats /\ uploadedOn[d][f] \in Int
        BY <1>0 DEF FileTypes, Stats
      <3>2. uploadedOn'[d] = IF d = today THEN Sta!Plus(uploadedOn[d], stat) ELSE uploadedOn[d]
        BY <1>0, <1>1, <1>3, <3>1
      <3>3. Sta!Plus(uploadedOn[d], stat)[f] = uploadedOn[d][f] + stat[f]
        BY <1>5, <3>1, PlusStats
      <3> QED BY <3>1, <3>2, <3>3
    <2> QED BY <2>1, <2>2, <2>3, <2>4, <2>5
  <1>20. SectionInv'
    <2> SUFFICES ASSUME NEW r \in StatSections, r \notin unclean
                 PROVE  /\ Ledger("files", {r})' = Cardinality(Standing(r))'
                        /\ Ledger("kBytes", {r})' = Sta!KBytesOf(Standing(r))'
      BY <1>2, Zenon DEF SectionInv
    <2>1. Ledger("files", {r}) = Cardinality(Standing(r)) /\ Ledger("kBytes", {r}) = Sta!KBytesOf(Standing(r))
      BY <1>0 DEF SectionInv
    <2>2. IsFiniteSet(Standing(r)) /\ \A f \in Standing(r) : f.kBytes \in Nat
      BY <1>0, FS_Subset DEF Standing, FileTypes, Files
    <2>3. "kBytes" \in StatFields
      BY DEF StatFields
    <2>4. CASE r = s /\ c
      <3>1. Standing(r)' = Standing(r) \cup {new} /\ new \notin Standing(r)
        BY <1>14, <1>15, <2>4 DEF Standing
      <3>2. /\ Sta!KBytesOf(Standing(r) \cup {new}) = new.kBytes + Sta!KBytesOf(Standing(r))
            /\ Cardinality(Standing(r) \cup {new}) = Cardinality(Standing(r)) + 1
            /\ Sta!KBytesOf(Standing(r)) \in Nat
        BY <1>4, <1>14, <2>2, <3>1, KBytesChange
      <3>3. /\ Sta!KBytesOf(Standing(r))' = Sta!KBytesOf(Standing(r) \cup {new})
            /\ Cardinality(Standing(r))' = Cardinality(Standing(r) \cup {new})
        BY <3>1
      <3>4. Ledger("files", {r})' = Ledger("files", {r}) + 1
        BY <1>5, <1>8, <1>11, <1>26, <2>4
      <3>5. Ledger("kBytes", {r})' = Ledger("kBytes", {r}) + kb
        BY <1>5, <1>8, <1>26, <2>3, <2>4
      <3> QED BY <1>4, <1>14, <2>1, <3>2, <3>3, <3>4, <3>5
    <2>5. CASE ~(r = s /\ c)
      <3>1. Standing(r)' = Standing(r)
        BY <1>14, <1>15, <2>5 DEF Standing
      <3>4. t \notin {r}
        BY <1>26, <2>5 DEF Sta!StatAssumption
      <3>2. Sta!KBytesOf(Standing(r))' = Sta!KBytesOf(Standing(r)) /\ Cardinality(Standing(r))' = Cardinality(Standing(r))
        BY <3>1
      <3>3. Ledger("files", {r})' = Ledger("files", {r}) /\ Ledger("kBytes", {r})' = Ledger("kBytes", {r})
        BY <1>8, <1>11, <2>3, <3>4
      <3> QED BY <2>1, <3>2, <3>3
    <2> QED BY <2>4, <2>5
  <1> QED BY <1>6, <1>7, <1>10, <1>16, <1>18, <1>19, <1>20, <1>29, <1>30 DEF StatInv

\* The sums of a section and of all, when a share is taken to the nameless section.
LEMMA DecrLedger ==
  ASSUME Sta!StatAssumption, DocTypes, MoveTypes, NEW u \in Rankeds, NEW s \in StatSections,
         NEW stat \in Stats, Sta!NewMove(Sta!UploadDecr(u, s, stat)), UNCHANGED transfers
  PROVE  \A f \in StatFields :
           /\ Ledger(f, Sta!AllSections)' = Ledger(f, Sta!AllSections)
           /\ \A r \in StatSections :
                /\ Ledger(f, {r})' = Ledger(f, {r}) - IF r = s THEN stat[f] ELSE 0
                /\ Ledger(f, {r}) \in Int
PROOF
  <1>1. \A f \in StatFields :
          /\ Pending(moves', f, Sta!AllSections) = Pending(moves, f, Sta!AllSections)
          /\ \A r \in StatSections :
               Pending(moves', f, {r}) = Pending(moves, f, {r}) - IF r = s THEN stat[f] ELSE 0
    BY DecrSums
  <1>2. ASSUME NEW f \in StatFields
        PROVE  /\ Ledger(f, Sta!AllSections)' = Ledger(f, Sta!AllSections)
               /\ \A r \in StatSections :
                    /\ Ledger(f, {r})' = Ledger(f, {r}) - IF r = s THEN stat[f] ELSE 0
                    /\ Ledger(f, {r}) \in Int
    <2>1. \A S : SumIn(transfers, f, S) \in Int /\ Pending(moves, f, S) \in Int
      BY LedgerNumber
    <2>2. \A S : SumIn(transfers', f, S) = SumIn(transfers, f, S)
      OBVIOUS
    <2>3. stat[f] \in Int
      BY DEF Stats
    <2>4. Ledger(f, Sta!AllSections)' = Ledger(f, Sta!AllSections)
      <3>1. Ledger(f, Sta!AllSections)' = SumIn(transfers', f, Sta!AllSections) + Pending(moves', f, Sta!AllSections)
        BY DEF Ledger, Sta!AllSections
      <3> QED BY <1>1, <2>1, <2>2, <3>1 DEF Ledger
    <2>5. ASSUME NEW r \in StatSections
          PROVE  /\ Ledger(f, {r})' = Ledger(f, {r}) - IF r = s THEN stat[f] ELSE 0
                 /\ Ledger(f, {r}) \in Int
      BY <1>1, <2>1, <2>2, <2>3 DEF Ledger
    <2> QED BY <2>4, <2>5
  <1> QED BY <1>2

\* The sums of a section and of all, when a share comes back from the nameless section.
LEMMA IncrLedger ==
  ASSUME Sta!StatAssumption, DocTypes, MoveTypes, NEW u \in Rankeds, NEW s \in StatSections,
         NEW stat \in Stats, Sta!NewMove(Sta!UploadIncr(u, s, stat)), UNCHANGED transfers
  PROVE  \A f \in StatFields :
           /\ Ledger(f, Sta!AllSections)' = Ledger(f, Sta!AllSections)
           /\ \A r \in StatSections :
                /\ Ledger(f, {r})' = Ledger(f, {r}) + IF r = s THEN stat[f] ELSE 0
                /\ Ledger(f, {r}) \in Int
PROOF
  <1>1. \A f \in StatFields :
          /\ Pending(moves', f, Sta!AllSections) = Pending(moves, f, Sta!AllSections)
          /\ \A r \in StatSections :
               Pending(moves', f, {r}) = Pending(moves, f, {r}) + IF r = s THEN stat[f] ELSE 0
    BY IncrSums
  <1>2. ASSUME NEW f \in StatFields
        PROVE  /\ Ledger(f, Sta!AllSections)' = Ledger(f, Sta!AllSections)
               /\ \A r \in StatSections :
                    /\ Ledger(f, {r})' = Ledger(f, {r}) + IF r = s THEN stat[f] ELSE 0
                    /\ Ledger(f, {r}) \in Int
    <2>1. \A S : SumIn(transfers, f, S) \in Int /\ Pending(moves, f, S) \in Int
      BY LedgerNumber
    <2>2. \A S : SumIn(transfers', f, S) = SumIn(transfers, f, S)
      OBVIOUS
    <2>3. stat[f] \in Int
      BY DEF Stats
    <2>4. Ledger(f, Sta!AllSections)' = Ledger(f, Sta!AllSections)
      <3>1. Ledger(f, Sta!AllSections)' = SumIn(transfers', f, Sta!AllSections) + Pending(moves', f, Sta!AllSections)
        BY DEF Ledger, Sta!AllSections
      <3> QED BY <1>1, <2>1, <2>2, <3>1 DEF Ledger
    <2>5. ASSUME NEW r \in StatSections
          PROVE  /\ Ledger(f, {r})' = Ledger(f, {r}) + IF r = s THEN stat[f] ELSE 0
                 /\ Ledger(f, {r}) \in Int
      BY <1>1, <2>1, <2>2, <2>3 DEF Ledger
    <2> QED BY <2>4, <2>5
  <1> QED BY <1>2

\* A file that is gone: the files, the nukees and the job.
LEMMA FileGone ==
  ASSUME FileTypes, NukeTypes, NukeExact, JobTypes, NEW f \in onDisk, onDisk' = onDisk \ {f},
         UNCHANGED <<nukeLog, job, uploaded, uploadedOn>>, unclean \subseteq unclean',
         f.nuked => f.section \in unclean'
  PROVE  FileTypes' /\ NukeTypes' /\ NukeExact' /\ JobTypes'
PROOF
  <1>1. FileTypes'
    <2>1. IsFiniteSet(onDisk \ {f})
      BY FS_RemoveElement DEF FileTypes
    <2>2. onDisk' \subseteq Files' /\ OneId(onDisk')
      BY DEF FileTypes, Files, Sta!AllSections, Sta!Days, OneId
    <2>3. uploaded' \in Stats' /\ uploaded'["files"] \in Nat /\ uploadedOn' \in [Sta!Days -> Stats]'
      BY DEF FileTypes, Stats, StatFields, Sta!Days
    <2> QED BY <2>1, <2>2, <2>3 DEF FileTypes, OneId
  <1>2. NukeTypes'
    BY DEF NukeTypes
  <1>3. NukeExact'
    <2> SUFFICES ASSUME NEW n \in nukeLog, n.section \notin unclean'
                 PROVE  /\ Cardinality(Of(n))' = n.files /\ Sta!KBytesOf(Of(n))' = n.kBytes
                        /\ \A g \in Of(n)' : g.counted
      BY Zenon DEF NukeExact
    <2>1. f.id \notin n.ids
      BY DEF NukeTypes
    <2>2. Of(n)' = Of(n)
      BY <2>1 DEF Of
    <2>3. /\ Cardinality(Of(n)) = n.files /\ Sta!KBytesOf(Of(n)) = n.kBytes
          /\ \A g \in Of(n) : g.counted
      BY DEF NukeExact
    <2> QED BY <2>2, <2>3
  <1>4. JobTypes'
    BY DEF JobTypes, OneId, Files, Sta!AllSections, Sta!Days
  <1> QED BY <1>1, <1>2, <1>3, <1>4

\* A section whose standing files stay and whose sums stay.
LEMMA SectionStays ==
  ASSUME SectionInv, unclean \subseteq unclean', NEW r \in StatSections, r \notin unclean',
         Standing(r)' = Standing(r), \A g \in StatFields : Ledger(g, {r})' = Ledger(g, {r})
  PROVE  /\ Ledger("files", {r})' = Cardinality(Standing(r))'
         /\ Ledger("kBytes", {r})' = Sta!KBytesOf(Standing(r))'
PROOF
  <1>1. Ledger("files", {r}) = Cardinality(Standing(r)) /\ Ledger("kBytes", {r}) = Sta!KBytesOf(Standing(r))
    BY DEF SectionInv
  <1>2. Cardinality(Standing(r))' = Cardinality(Standing(r)) /\ Sta!KBytesOf(Standing(r))' = Sta!KBytesOf(Standing(r))
    OBVIOUS
  <1>3. "files" \in StatFields /\ "kBytes" \in StatFields
    BY DEF StatFields
  <1> QED BY <1>1, <1>2, <1>3

\* DELE and WIPE: a file leaves its section, with its share or without.
LEMMA DeleteKept ==
  ASSUME Sta!StatAssumption, StatInv, Sta!DeleteFile \/ Sta!WipeFile
  PROVE  StatInv'
PROOF
  <1>0. /\ today \in Sta!Days /\ DocTypes /\ MoveTypes /\ FileTypes /\ NukeTypes /\ NukeExact /\ JobTypes
        /\ SectionInv /\ AverageInv /\ DayInv
    BY DEF StatInv
  <1>1. PICK f \in onDisk : \E u \in Rankeds, c \in BOOLEAN :
          /\ onDisk' = onDisk \ {f} /\ (c => f.section # Sta!NoSection)
          /\ IF c THEN Sta!NewMove(Sta!UploadDecr(u, f.section, Sta!StatOf(u, {f}, f.day)))
             ELSE UNCHANGED <<moves, numMoves>>
          /\ unclean' = IF f.nuked \/ f.counted # c THEN unclean \cup {f.section} ELSE unclean
    <2>1. CASE Sta!DeleteFile
      <3>1. PICK f \in onDisk, d \in Deletes :
              /\ onDisk' = onDisk \ {f}
              /\ IF Sta!Counts(f.section, d[2])
                 THEN Sta!NewMove(Sta!UploadDecr(d[1], f.section, Sta!StatOf(d[1], {f}, f.day)))
                 ELSE UNCHANGED <<moves, numMoves>>
              /\ unclean' = IF f.nuked \/ f.counted # Sta!Counts(f.section, d[2])
                            THEN unclean \cup {f.section} ELSE unclean
        BY <2>1 DEF Sta!DeleteFile
      <3>2. d[1] \in Rankeds /\ d[2] \in BOOLEAN
        BY DEF Sta!StatAssumption
      <3>3. PICK c : c = Sta!Counts(f.section, d[2])
        OBVIOUS
      <3>4. c \in BOOLEAN /\ (c => f.section # Sta!NoSection)
        BY <3>2, <3>3 DEF Sta!Counts
      <3> QED BY <3>1, <3>2, <3>3, <3>4
    <2>2. CASE Sta!WipeFile
      <3>1. PICK f \in onDisk :
              /\ onDisk' = onDisk \ {f}
              /\ unclean' = IF f.nuked \/ f.counted THEN unclean \cup {f.section} ELSE unclean
        BY <2>2 DEF Sta!WipeFile
      <3>2. f.owner \in Rankeds /\ f.counted \in BOOLEAN
        BY <1>0 DEF FileTypes, Files
      <3>3. UNCHANGED <<moves, numMoves>>
        BY <2>2 DEF Sta!WipeFile
      <3>4. unclean' = IF f.nuked \/ f.counted # FALSE THEN unclean \cup {f.section} ELSE unclean
        BY <3>1, <3>2
      <3>5. PICK c \in BOOLEAN : c = FALSE
        OBVIOUS
      <3> QED BY <3>1, <3>2, <3>3, <3>4, <3>5
    <2> QED BY <2>1, <2>2
  <1>2. PICK u \in Rankeds, c \in BOOLEAN :
          /\ onDisk' = onDisk \ {f} /\ (c => f.section # Sta!NoSection)
          /\ IF c THEN Sta!NewMove(Sta!UploadDecr(u, f.section, Sta!StatOf(u, {f}, f.day)))
             ELSE UNCHANGED <<moves, numMoves>>
          /\ unclean' = IF f.nuked \/ f.counted # c THEN unclean \cup {f.section} ELSE unclean
    BY <1>1
  <1>3. UNCHANGED <<transfers, today, nukeLog, job, uploaded, uploadedOn, split>>
    BY DEF Sta!DeleteFile, Sta!WipeFile
  <1>4. f \in Files /\ f.section \in Sta!AllSections /\ f.kBytes \in Nat /\ f.counted \in BOOLEAN
    BY <1>0 DEF FileTypes, Files
  <1>5. DocTypes' /\ today' \in Sta!Days
    BY <1>0, <1>3 DEF DocTypes, Sta!Days, Keys, Sta!AllSections, Stats, StatFields
  <1>6. /\ unclean \subseteq unclean' /\ (f.nuked => f.section \in unclean')
        /\ (f.counted # c => f.section \in unclean')
    BY <1>2
  <1>7. FileTypes' /\ NukeTypes' /\ NukeExact' /\ JobTypes'
    BY <1>0, <1>2, <1>3, <1>6, FileGone
  <1>8. \A r \in StatSections : (r # f.section \/ f.nuked \/ ~f.counted) => Standing(r)' = Standing(r)
    BY <1>2 DEF Standing
  <1>9. CASE ~c
    <2>1. UNCHANGED <<moves, numMoves>>
      BY <1>2, <1>9
    <2>2. MoveTypes'
      BY <1>0, <2>1 DEF MoveTypes, MoveShape, Updates, Sta!AllSections, Stats, StatFields
    <2>3. \A g \in StatFields : \A S : Ledger(g, S)' = Ledger(g, S)
      BY <1>3, <2>1 DEF Ledger
    <2>4. AverageInv'
      BY <1>0, <1>3, <2>3 DEF AverageInv, Sta!AllSections
    <2>5. SectionInv'
      <3> SUFFICES ASSUME NEW r \in StatSections, r \notin unclean'
                   PROVE  /\ Ledger("files", {r})' = Cardinality(Standing(r))'
                          /\ Ledger("kBytes", {r})' = Sta!KBytesOf(Standing(r))'
        BY Zenon DEF SectionInv
      <3>1. r = f.section => ~f.counted
        BY <1>4, <1>6, <1>9
      <3>2. Standing(r)' = Standing(r)
        BY <1>8, <3>1
      <3> QED BY <1>0, <1>6, <2>3, <3>2, SectionStays
    <2>6. DayInv'
      BY <1>0, <1>3, <2>1, DaysKept
    <2> QED BY <1>5, <1>7, <2>2, <2>4, <2>5, <2>6 DEF StatInv
  <1>10. CASE c
    <2>1. PICK stat : stat = Sta!StatOf(u, {f}, f.day)
      OBVIOUS
    <2>9. IsFiniteSet({f}) /\ Cardinality({f}) = 1 /\ {f} \subseteq Files
      BY <1>4, FS_Singleton
    <2>2. /\ stat \in Stats /\ stat["files"] = Cardinality({f}) /\ stat["kBytes"] = Sta!KBytesOf({f})
      BY <1>0, <2>1, <2>9, ShareOfFiles
    <2>3. f.section \in StatSections
      BY <1>2, <1>4, <1>10 DEF Sta!AllSections
    <2>4. Sta!NewMove(Sta!UploadDecr(u, f.section, stat))
      BY <1>2, <1>10, <2>1
    <2>5. MoveTypes' /\ \A g \in StatFields : \A d : OnDay(moves', g, d) = OnDay(moves, g, d)
      BY <1>0, <2>2, <2>3, <2>4, DecrSums
    <2>6. \A g \in StatFields :
            /\ Ledger(g, Sta!AllSections)' = Ledger(g, Sta!AllSections)
            /\ \A r \in StatSections :
                 /\ Ledger(g, {r})' = Ledger(g, {r}) - IF r = f.section THEN stat[g] ELSE 0
                 /\ Ledger(g, {r}) \in Int
      BY <1>0, <1>3, <2>2, <2>3, <2>4, DecrLedger
    <2>7. AverageInv'
      BY <1>0, <1>3, <2>6 DEF AverageInv, Sta!AllSections
    <2>10. DayInv'
      BY <1>0, <1>3, <2>5, DaysKept
    <2>8. SectionInv'
      <3> SUFFICES ASSUME NEW r \in StatSections, r \notin unclean'
                   PROVE  /\ Ledger("files", {r})' = Cardinality(Standing(r))'
                          /\ Ledger("kBytes", {r})' = Sta!KBytesOf(Standing(r))'
        BY Zenon DEF SectionInv
      <3>1. CASE r # f.section
        <4>1. Standing(r)' = Standing(r)
          BY <1>8, <3>1
        <4>2. \A g \in StatFields : Ledger(g, {r})' = Ledger(g, {r})
          BY <2>6, <3>1
        <4> QED BY <1>0, <1>6, <4>1, <4>2, SectionStays
      <3>2. CASE r = f.section
        <4>1. ~f.nuked /\ f.counted /\ r \notin unclean
          BY <1>4, <1>6, <1>10, <3>2
        <4>2. /\ Ledger("files", {r}) = Cardinality(Standing(r))
              /\ Ledger("kBytes", {r}) = Sta!KBytesOf(Standing(r))
          BY <1>0, <4>1 DEF SectionInv
        <4>3. f \in Standing(r) /\ Standing(r)' = Standing(r) \ {f}
          BY <1>2, <3>2, <4>1 DEF Standing
        <4>4. IsFiniteSet(Standing(r)) /\ \A g \in Standing(r) : g.kBytes \in Nat
          BY <1>0, FS_Subset DEF Standing, FileTypes, Files
        <4>5. /\ Sta!KBytesOf(Standing(r)) = f.kBytes + Sta!KBytesOf(Standing(r) \ {f})
              /\ Cardinality(Standing(r) \ {f}) = Cardinality(Standing(r)) - 1
              /\ IsFiniteSet(Standing(r) \ {f})
          BY <4>3, <4>4, KBytesChange
        <4>6. Sta!KBytesOf(Standing(r) \ {f}) \in Nat /\ Sta!KBytesOf({f}) = f.kBytes
          <5>1. Sta!KBytesOf(Standing(r) \ {f}) \in Nat
            BY <4>4, <4>5, KBytesChange
          <5>2. \A g \in {f} : g.kBytes \in Nat
            BY <1>4
          <5>3. Sta!KBytesOf({f}) = f.kBytes + Sta!KBytesOf({f} \ {f})
            BY <2>9, <5>2, KBytesChange
          <5>4. Sta!KBytesOf({}) = 0
            BY NoKBytes
          <5>5. {f} \ {f} = {}
            OBVIOUS
          <5>6. Sta!KBytesOf({f} \ {f}) = 0
            BY <5>4, <5>5, Zenon
          <5>7. Sta!KBytesOf({f}) = f.kBytes
            BY <1>4, <5>3, <5>6
          <5> QED BY <5>1, <5>7
        <4>7. /\ Cardinality(Standing(r))' = Cardinality(Standing(r) \ {f})
              /\ Sta!KBytesOf(Standing(r))' = Sta!KBytesOf(Standing(r) \ {f})
          BY <4>3
        <4>8. /\ Ledger("files", {r})' = Ledger("files", {r}) - 1
              /\ Ledger("kBytes", {r})' = Ledger("kBytes", {r}) - f.kBytes
          BY <2>2, <2>6, <2>9, <3>2, <4>6 DEF StatFields
        <4> QED BY <1>4, <4>2, <4>5, <4>6, <4>7, <4>8
      <3> QED BY <3>1, <3>2
    <2> QED BY <1>5, <1>7, <2>5, <2>7, <2>8, <2>10 DEF StatInv
  <1> QED BY <1>9, <1>10

\* A file whose mark is set or taken away is otherwise the same file.
Mark(f, b) == [f EXCEPT !.nuked = b]

LEMMA MarkRecord ==
  ASSUME NEW f \in Files, NEW b \in BOOLEAN
  PROVE  /\ Mark(f, b) \in Files /\ Mark(f, b).id = f.id /\ Mark(f, b).section = f.section
         /\ Mark(f, b).kBytes = f.kBytes /\ Mark(f, b).nuked = b /\ Mark(f, b).counted = f.counted
         /\ (f.nuked = b => Mark(f, b) = f)
PROOF
  <1>1. /\ f = [id |-> f.id, owner |-> f.owner, section |-> f.section, counted |-> f.counted,
                kBytes |-> f.kBytes, day |-> f.day, nuked |-> f.nuked]
        /\ f.id \in Nat /\ f.owner \in Rankeds /\ f.section \in Sta!AllSections /\ f.kBytes \in Nat
        /\ f.day \in Sta!Days /\ f.counted \in BOOLEAN
    BY DEF Files
  <1>2. Mark(f, b) = [id |-> f.id, owner |-> f.owner, section |-> f.section, counted |-> f.counted,
                      kBytes |-> f.kBytes, day |-> f.day, nuked |-> b]
    BY <1>1 DEF Mark
  <1>3. Mark(f, b) \in Files
    BY <1>1, <1>2 DEF Files
  <1>4. /\ Mark(f, b).id = f.id /\ Mark(f, b).section = f.section
        /\ Mark(f, b).kBytes = f.kBytes /\ Mark(f, b).nuked = b /\ Mark(f, b).counted = f.counted
    BY <1>2
  <1>5. f.nuked = b => Mark(f, b) = f
    BY <1>1, <1>2, Zenon
  <1> QED BY <1>3, <1>4, <1>5

\* Marks change neither how many files there are nor their ids.
LEMMA MarkedFiles ==
  ASSUME FileTypes, UNCHANGED <<uploaded, uploadedOn>>, onDisk' \subseteq Files, OneId(onDisk'),
         Twins(onDisk, onDisk'), Twins(onDisk', onDisk)
  PROVE  FileTypes'
PROOF
  <1>1. IsFiniteSet(onDisk')
    BY SameFiles DEF FileTypes
  <1>2. \A f \in onDisk' : f.id < uploaded["files"]
    BY DEF Twins, FileTypes
  <1>3. onDisk' \subseteq Files'
    BY DEF Files, Sta!AllSections, Sta!Days
  <1>4. uploaded' \in Stats' /\ uploaded'["files"] \in Nat /\ uploadedOn' \in [Sta!Days -> Stats]'
    BY DEF FileTypes, Stats, StatFields, Sta!Days
  <1> QED BY <1>1, <1>2, <1>3, <1>4 DEF FileTypes, OneId

\* TakeStats: the files of one nukee are marked and their share leaves the section.
LEMMA TakeKept ==
  ASSUME Sta!StatAssumption, StatInv, Sta!TakeStats
  PROVE  StatInv'
PROOF
  <1>0. /\ today \in Sta!Days /\ DocTypes /\ MoveTypes /\ FileTypes /\ NukeTypes /\ NukeExact /\ JobTypes
        /\ SectionInv /\ AverageInv /\ DayInv
    BY DEF StatInv
  <1>1. PICK u \in {f.owner : f \in job.todo} :
          LET fs == {f \in job.todo : f.owner = u}
              stat == Sta!StatOf(u, fs, job.day)
          IN /\ job' = IF fs = job.todo THEN Sta!NoJob ELSE [job EXCEPT !.todo = @ \ fs]
             /\ onDisk' = (onDisk \ fs) \cup {[f EXCEPT !.nuked = TRUE] : f \in fs \cap onDisk}
             /\ nukeLog' = nukeLog \cup
                  {[uid |-> u, section |-> job.section, day |-> job.day, kBytes |-> stat.kBytes,
                    files |-> stat.files, ids |-> {f.id : f \in fs}, nuke |-> job.nuke]}
             /\ IF stat.kBytes > 0 THEN Sta!NewMove(Sta!UploadDecr(u, job.section, stat))
                ELSE UNCHANGED <<moves, numMoves>>
             /\ unclean' = IF stat.kBytes > 0 /\ \A f \in fs : f \in onDisk /\ f.counted
                           THEN unclean ELSE unclean \cup {job.section}
    BY DEF Sta!TakeStats
  <1>2. UNCHANGED <<transfers, today, uploaded, uploadedOn, split>>
    BY DEF Sta!TakeStats
  <1>3. PICK fs : fs = {f \in job.todo : f.owner = u}
    OBVIOUS
  <1>4. PICK stat : stat = Sta!StatOf(u, fs, job.day)
    OBVIOUS
  <1>5. PICK ids : ids = {f.id : f \in fs}
    OBVIOUS
  <1>6. PICK s : s = job.section
    OBVIOUS
  <1>7. PICK rec : rec = [uid |-> u, section |-> s, day |-> job.day, kBytes |-> stat.kBytes,
                          files |-> stat.files, ids |-> ids, nuke |-> job.nuke]
    OBVIOUS
  <1>8. PICK here : here = fs \cap onDisk
    OBVIOUS
  <1>9. PICK marked : marked = {Mark(f, TRUE) : f \in here}
    OBVIOUS
  <1>10. /\ onDisk' = (onDisk \ fs) \cup {Mark(f, TRUE) : f \in fs \cap onDisk}
         /\ nukeLog' = nukeLog \cup {rec}
         /\ IF stat.kBytes > 0 THEN Sta!NewMove(Sta!UploadDecr(u, s, stat)) ELSE UNCHANGED <<moves, numMoves>>
         /\ unclean' = IF stat.kBytes > 0 /\ \A f \in fs : f \in onDisk /\ f.counted
                       THEN unclean ELSE unclean \cup {s}
         /\ job' = IF fs = job.todo THEN Sta!NoJob ELSE [job EXCEPT !.todo = @ \ fs]
    BY <1>1, <1>3, <1>4, <1>5, <1>6, <1>7, Zenon DEF Mark
  <1>11. /\ fs \subseteq job.todo /\ fs \subseteq Files /\ IsFiniteSet(fs) /\ OneId(fs)
         /\ \A f \in fs : f.section = s /\ ~f.nuked /\ f.id < uploaded["files"] /\ f.id \in Nat
    <2>1. fs \subseteq job.todo
      BY <1>3
    <2>2. IsFiniteSet(fs)
      BY <1>0, <2>1, FS_Subset DEF JobTypes
    <2> QED BY <1>0, <1>6, <2>1, <2>2 DEF JobTypes, Files, OneId
  <1>12. u \in Rankeds /\ s \in StatSections
    BY <1>0, <1>6 DEF JobTypes, Files
  <1>13. /\ stat \in Stats /\ stat["files"] = Cardinality(fs) /\ stat["kBytes"] = Sta!KBytesOf(fs)
         /\ stat.files = Cardinality(fs) /\ stat.kBytes = Sta!KBytesOf(fs)
         /\ Cardinality(fs) \in Nat /\ Sta!KBytesOf(fs) \in Nat /\ \A f \in fs : f.kBytes \in Nat
    BY <1>0, <1>4, <1>11, ShareOfFiles
  <1>14. /\ rec.uid = u /\ rec.section = s /\ rec.kBytes = Sta!KBytesOf(fs) /\ rec.files = Cardinality(fs)
         /\ rec.ids = ids /\ rec.nuke = job.nuke
    BY <1>7, <1>13
  <1>15. \A f \in here : /\ Mark(f, TRUE) \in Files /\ Mark(f, TRUE).id = f.id /\ Mark(f, TRUE).section = s
                         /\ Mark(f, TRUE).kBytes = f.kBytes /\ Mark(f, TRUE).nuked
                         /\ Mark(f, TRUE).counted = f.counted
    <2> SUFFICES ASSUME NEW f \in here
                 PROVE  /\ Mark(f, TRUE) \in Files /\ Mark(f, TRUE).id = f.id /\ Mark(f, TRUE).section = s
                        /\ Mark(f, TRUE).kBytes = f.kBytes /\ Mark(f, TRUE).nuked
                        /\ Mark(f, TRUE).counted = f.counted
      OBVIOUS
    <2>1. f \in Files /\ f.section = s /\ TRUE \in BOOLEAN
      BY <1>8, <1>11
    <2>2. /\ Mark(f, TRUE) \in Files /\ Mark(f, TRUE).id = f.id /\ Mark(f, TRUE).section = f.section
          /\ Mark(f, TRUE).kBytes = f.kBytes /\ Mark(f, TRUE).nuked = TRUE
          /\ Mark(f, TRUE).counted = f.counted
      BY <2>1, MarkRecord, Zenon
    <2> QED BY <2>1, <2>2, Zenon
  <1>30. here \subseteq fs /\ here \subseteq onDisk /\ \A f \in fs : f.id \in ids
    BY <1>5, <1>8
  <1>31. \A g \in marked : \E f \in here : g = Mark(f, TRUE)
    BY <1>9
  <1>32. \A f \in here : Mark(f, TRUE) \in marked
    BY <1>9
  <1>33. \A g \in marked : \E f \in here : g.id = f.id /\ g.kBytes = f.kBytes /\ g = Mark(f, TRUE)
                                           /\ g.counted = f.counted
    BY <1>15, <1>31, Zenon
  <1>34. \A f \in here : \E g \in marked : g.id = f.id /\ g.kBytes = f.kBytes
    BY <1>15, <1>32, Zenon
  <1>35. \A g \in marked : g \in Files /\ g.section = s /\ g.nuked
    BY <1>15, <1>31, Zenon
  <1>36. \A g \in marked : g.id \in ids
    BY <1>30, <1>33
  <1>16. /\ here \subseteq fs /\ here \subseteq onDisk
         /\ \A g \in marked : \E f \in here : g.id = f.id /\ g.kBytes = f.kBytes /\ g = Mark(f, TRUE)
                                              /\ g.counted = f.counted
         /\ \A f \in here : \E g \in marked : g.id = f.id /\ g.kBytes = f.kBytes
         /\ \A g \in marked : g \in Files /\ g.section = s /\ g.nuked /\ g.id \in ids
         /\ \A f \in fs : f.id \in ids
    BY <1>30, <1>33, <1>34, <1>35, <1>36, Zenon
  <1>17. onDisk' = (onDisk \ here) \cup marked
    BY <1>8, <1>9, <1>10
  <1>18. \A f \in onDisk : (f.id \in ids <=> f \in here)
    BY <1>0, <1>5, <1>8, <1>11 DEF JobTypes
  <1>19. OneId(onDisk) /\ OneId(marked) /\ OneId(onDisk')
    <2>1. OneId(onDisk)
      BY <1>0 DEF FileTypes
    <2>2. OneId(marked)
      <3> SUFFICES ASSUME NEW g \in marked, NEW h \in marked, g.id = h.id PROVE g = h
        BY DEF OneId
      <3>1. PICK a \in here : g.id = a.id /\ g = Mark(a, TRUE)
        BY <1>16
      <3>2. PICK b \in here : h.id = b.id /\ h = Mark(b, TRUE)
        BY <1>16
      <3>4. a \in onDisk /\ b \in onDisk /\ a.id = b.id
        BY <1>30, <3>1, <3>2
      <3>3. a = b
        BY <2>1, <3>4 DEF OneId
      <3> QED BY <3>1, <3>2, <3>3
    <2>3. \A g \in marked : \A f \in onDisk \ here : g.id # f.id
      BY <1>16, <1>18
    <2> QED BY <1>17, <2>1, <2>2, <2>3 DEF OneId
  <1>20. FileTypes'
    <2>1. Twins(onDisk, onDisk')
      BY <1>16, <1>17 DEF Twins
    <2>2. Twins(onDisk', onDisk)
      BY <1>16, <1>17 DEF Twins
    <2>3. onDisk' \subseteq Files
      BY <1>0, <1>16, <1>17 DEF FileTypes
    <2> QED BY <1>0, <1>2, <1>19, <2>1, <2>2, <2>3, MarkedFiles
  <1>21. DocTypes' /\ today' \in Sta!Days
    BY <1>0, <1>2 DEF DocTypes, Sta!Days, Keys, Sta!AllSections, Stats, StatFields
  <1>22. \A n \in nukeLog : \A i \in n.ids : i \notin ids
    BY <1>0, <1>5, <1>11 DEF JobTypes
  <1>23. NukeTypes'
    <2>1. /\ rec.uid \in Rankeds /\ rec.section \in StatSections /\ rec.kBytes \in Nat /\ rec.files \in Nat
          /\ IsFiniteSet(rec.nuke) /\ \A i \in rec.ids : i \in Nat /\ i < uploaded["files"]
      BY <1>0, <1>5, <1>11, <1>12, <1>13, <1>14 DEF JobTypes
    <2>2. \A n \in nukeLog : /\ n.uid \in Rankeds /\ n.section \in StatSections /\ n.kBytes \in Nat
                             /\ n.files \in Nat /\ IsFiniteSet(n.nuke)
                             /\ \A i \in n.ids : i \in Nat /\ i < uploaded["files"]
      BY <1>0 DEF NukeTypes
    <2>3. ASSUME NEW n \in nukeLog', NEW f \in onDisk', f.id \in n.ids PROVE f.nuked /\ f.section = n.section
      <3>1. CASE n \in nukeLog
        <4>1. f \in onDisk
          BY <1>16, <1>17, <1>22, <2>3, <3>1
        <4> QED BY <1>0, <2>3, <3>1, <4>1 DEF NukeTypes
      <3>2. CASE n = rec
        <4>1. f \in marked
          BY <1>14, <1>17, <1>18, <2>3, <3>2
        <4> QED BY <1>14, <1>16, <3>2, <4>1
      <3> QED BY <1>10, <3>1, <3>2
    <2>4. ASSUME NEW m \in nukeLog', NEW n \in nukeLog', NEW i \in m.ids, i \in n.ids PROVE m = n
      <3>1. \A x, y \in nukeLog : \A k \in x.ids : k \in y.ids => x = y
        BY <1>0 DEF NukeTypes
      <3> QED BY <1>10, <1>14, <1>22, <2>4, <3>1
    <2>5. \A n \in nukeLog' : /\ n.uid \in Rankeds /\ n.section \in StatSections /\ n.kBytes \in Nat
                              /\ n.files \in Nat /\ IsFiniteSet(n.nuke)
                              /\ \A i \in n.ids : i \in Nat /\ i < uploaded'["files"]
      BY <1>2, <1>10, <2>1, <2>2
    <2> QED BY <2>3, <2>4, <2>5 DEF NukeTypes
  <1>24. /\ unclean \subseteq unclean'
         /\ s \notin unclean' => stat.kBytes > 0 /\ here = fs /\ \A f \in fs : f.counted
    BY <1>8, <1>10
  <1>25. NukeExact'
    <2> SUFFICES ASSUME NEW n \in nukeLog', n.section \notin unclean'
                 PROVE  /\ Cardinality(Of(n))' = n.files /\ Sta!KBytesOf(Of(n))' = n.kBytes
                        /\ \A g \in Of(n)' : g.counted
      BY Zenon DEF NukeExact
    <2>1. CASE n \in nukeLog
      <3>1. Of(n)' = Of(n)
        BY <1>16, <1>17, <1>18, <1>22, <2>1 DEF Of
      <3>2. /\ Cardinality(Of(n)) = n.files /\ Sta!KBytesOf(Of(n)) = n.kBytes /\ \A g \in Of(n) : g.counted
        BY <1>0, <1>24, <2>1 DEF NukeExact
      <3> QED BY <3>1, <3>2
    <2>2. CASE n = rec
      <3>1. Of(n)' = marked
        BY <1>14, <1>16, <1>17, <1>18, <2>2 DEF Of
      <3>2. here = fs /\ \A f \in fs : f.counted
        BY <1>14, <1>24, <2>2
      <3>3. Twins(fs, marked) /\ Twins(marked, fs) /\ marked \subseteq Files
        BY <1>16, <3>2 DEF Twins
      <3>4. Cardinality(marked) = Cardinality(fs) /\ Sta!KBytesOf(marked) = Sta!KBytesOf(fs)
        BY <1>11, <1>19, <3>3, SameFiles
      <3>5. \A g \in marked : g.counted
        BY <1>16, <3>2
      <3> QED BY <1>14, <2>2, <3>1, <3>4, <3>5
    <2> QED BY <1>10, <2>1, <2>2
  <1>26. JobTypes'
    <2>1. CASE fs = job.todo
      <3>1. job' = [do |-> "none", section |-> Sta!NoSection, day |-> 0, todo |-> {}, nuke |-> {}]
        BY <1>10, <2>1 DEF Sta!NoJob
      <3>3. /\ job' = [do |-> job'.do, section |-> job'.section, day |-> job'.day, todo |-> job'.todo,
                       nuke |-> job'.nuke]
            /\ job'.todo = {} /\ job'.nuke = {}
        BY <3>1
      <3>2. IsFiniteSet({})
        BY FS_EmptySet
      <3> QED BY <3>2, <3>3 DEF JobTypes, OneId
    <2>2. CASE fs # job.todo
      <3>1. job' = [do |-> job.do, section |-> job.section, day |-> job.day, todo |-> job.todo \ fs,
                    nuke |-> job.nuke]
        BY <1>0, <1>10, <2>2 DEF JobTypes
      <3>2. /\ job' = [do |-> job'.do, section |-> job'.section, day |-> job'.day, todo |-> job'.todo,
                       nuke |-> job'.nuke]
            /\ job'.todo = job.todo \ fs /\ job'.nuke = job.nuke /\ job'.section = job.section
        BY <3>1
      <3>3. PICK rest : rest = job.todo \ fs
        OBVIOUS
      <3>4. /\ IsFiniteSet(rest) /\ rest \subseteq Files /\ OneId(rest) /\ IsFiniteSet(job.nuke)
            /\ \A f \in rest : /\ f.section = job.section /\ job.section \in StatSections /\ ~f.nuked
                               /\ f.id < uploaded["files"]
        <4>1. rest \subseteq job.todo
          BY <3>3
        <4>2. IsFiniteSet(rest)
          BY <1>0, <4>1, FS_Subset DEF JobTypes
        <4> QED BY <1>0, <4>1, <4>2 DEF JobTypes, OneId
      <3>5. \A f \in rest : f.id \notin ids
        BY <1>0, <1>5, <1>11, <3>3 DEF JobTypes, OneId
      <3>6. \A f \in rest, g \in onDisk' : f.id = g.id => f = g
        BY <1>0, <1>16, <1>17, <3>3, <3>5 DEF JobTypes
      <3>7. \A f \in rest, n \in nukeLog' : f.id \notin n.ids
        BY <1>0, <1>10, <1>14, <3>3, <3>5 DEF JobTypes
      <3>8. rest \subseteq Files'
        BY <3>4 DEF Files, Sta!AllSections, Sta!Days
      <3> QED BY <1>2, <3>2, <3>3, <3>4, <3>6, <3>7, <3>8 DEF JobTypes, OneId
    <2> QED BY <2>1, <2>2
  <1>27. \A r \in StatSections : Standing(r)' = IF r = s THEN Standing(r) \ here ELSE Standing(r)
    BY <1>11, <1>16, <1>17 DEF Standing
  <1>28. "files" \in StatFields /\ "kBytes" \in StatFields
    BY DEF StatFields
  <1>29. CASE stat.kBytes > 0
    <2>1. Sta!NewMove(Sta!UploadDecr(u, s, stat))
      BY <1>10, <1>29
    <2>2. MoveTypes' /\ \A g \in StatFields : \A d : OnDay(moves', g, d) = OnDay(moves, g, d)
      BY <1>0, <1>12, <1>13, <2>1, DecrSums
    <2>3. \A g \in StatFields :
            /\ Ledger(g, Sta!AllSections)' = Ledger(g, Sta!AllSections)
            /\ \A r \in StatSections :
                 /\ Ledger(g, {r})' = Ledger(g, {r}) - IF r = s THEN stat[g] ELSE 0
                 /\ Ledger(g, {r}) \in Int
      BY <1>0, <1>2, <1>12, <1>13, <2>1, DecrLedger
    <2>4. AverageInv'
      BY <1>0, <1>2, <2>3 DEF AverageInv, Sta!AllSections
    <2>6. DayInv'
      BY <1>0, <1>2, <2>2, DaysKept
    <2>5. SectionInv'
      <3> SUFFICES ASSUME NEW r \in StatSections, r \notin unclean'
                   PROVE  /\ Ledger("files", {r})' = Cardinality(Standing(r))'
                          /\ Ledger("kBytes", {r})' = Sta!KBytesOf(Standing(r))'
        BY Zenon DEF SectionInv
      <3>1. CASE r # s
        <4>1. Standing(r)' = Standing(r) /\ \A g \in StatFields : Ledger(g, {r})' = Ledger(g, {r})
          BY <1>27, <2>3, <3>1
        <4> QED BY <1>0, <1>24, <4>1, SectionStays
      <3>2. CASE r = s
        <4>1. /\ Ledger("files", {r}) = Cardinality(Standing(r))
              /\ Ledger("kBytes", {r}) = Sta!KBytesOf(Standing(r))
              /\ here = fs /\ \A f \in fs : f.counted
          BY <1>0, <1>24, <3>2 DEF SectionInv
        <4>2. PICK rest : rest = Standing(r) \ fs
          OBVIOUS
        <4>10. fs \subseteq Standing(r)
          BY <1>11, <1>16, <3>2, <4>1 DEF Standing
        <4>3. Standing(r)' = rest /\ rest \cup fs = Standing(r) /\ rest \cap fs = {}
          BY <1>27, <3>2, <4>1, <4>2, <4>10
        <4>4. IsFiniteSet(rest) /\ \A g \in rest : g.kBytes \in Nat
          BY <1>0, <4>2, FS_Subset DEF Standing, FileTypes, Files
        <4>5. /\ Sta!KBytesOf(rest \cup fs) = Sta!KBytesOf(rest) + Sta!KBytesOf(fs)
              /\ Cardinality(rest \cup fs) = Cardinality(rest) + Cardinality(fs)
          BY <1>11, <1>13, <4>3, <4>4, KBytesJoined
        <4>6. Sta!KBytesOf(rest) \in Nat /\ Cardinality(rest) \in Nat
          BY <4>4, KBytesChange
        <4>7. Cardinality(Standing(r))' = Cardinality(rest) /\ Sta!KBytesOf(Standing(r))' = Sta!KBytesOf(rest)
          BY <4>3
        <4>8. /\ Ledger("files", {r})' = Ledger("files", {r}) - Cardinality(fs)
              /\ Ledger("kBytes", {r})' = Ledger("kBytes", {r}) - Sta!KBytesOf(fs)
          BY <1>13, <1>28, <2>3, <3>2
        <4>9. /\ Ledger("files", {r}) = Cardinality(rest) + Cardinality(fs)
              /\ Ledger("kBytes", {r}) = Sta!KBytesOf(rest) + Sta!KBytesOf(fs)
          BY <4>1, <4>3, <4>5
        <4> QED BY <1>13, <4>6, <4>7, <4>8, <4>9
      <3> QED BY <3>1, <3>2
    <2> QED BY <1>20, <1>21, <1>23, <1>25, <1>26, <2>2, <2>4, <2>5, <2>6 DEF StatInv
  <1>37. CASE ~(stat.kBytes > 0)
    <2>1. s \in unclean' /\ UNCHANGED <<moves, numMoves>>
      BY <1>10, <1>37
    <2>2. MoveTypes'
      BY <1>0, <2>1 DEF MoveTypes, MoveShape, Updates, Sta!AllSections, Stats, StatFields
    <2>3. \A g \in StatFields : \A S : Ledger(g, S)' = Ledger(g, S)
      BY <1>2, <2>1 DEF Ledger
    <2>4. AverageInv'
      BY <1>0, <1>2, <2>3 DEF AverageInv, Sta!AllSections
    <2>5. SectionInv'
      <3> SUFFICES ASSUME NEW r \in StatSections, r \notin unclean'
                   PROVE  /\ Ledger("files", {r})' = Cardinality(Standing(r))'
                          /\ Ledger("kBytes", {r})' = Sta!KBytesOf(Standing(r))'
        BY Zenon DEF SectionInv
      <3>1. Standing(r)' = Standing(r)
        BY <1>27, <2>1
      <3> QED BY <1>0, <1>24, <2>3, <3>1, SectionStays
    <2>6. DayInv'
      BY <1>0, <1>2, <2>1, DaysKept
    <2> QED BY <1>20, <1>21, <1>23, <1>25, <1>26, <2>2, <2>4, <2>5, <2>6 DEF StatInv
  <1> QED BY <1>29, <1>37

\* RestoreStats: the files of a nukee stand again and the share comes back.
LEMMA RestoreKept ==
  ASSUME Sta!StatAssumption, StatInv, Sta!RestoreStats
  PROVE  StatInv'
PROOF
  <1>0. /\ today \in Sta!Days /\ DocTypes /\ MoveTypes /\ FileTypes /\ NukeTypes /\ NukeExact /\ JobTypes
        /\ SectionInv /\ AverageInv /\ DayInv
    BY DEF StatInv
  <1>1. PICK n \in nukeLog :
          /\ onDisk' = {[f EXCEPT !.nuked = @ /\ f.id \notin n.ids] : f \in onDisk}
          /\ nukeLog' = nukeLog \ {n}
          /\ Sta!NewMove(Sta!UploadIncr(n.uid, n.section,
                       [files |-> Cardinality(n.nuke), kBytes |-> n.kBytes,
                        xfertime |-> Sta!XfertimeCorrection(n.uid, n.kBytes, n.day)]))
          /\ unclean' = IF Cardinality(n.nuke) = n.files THEN unclean ELSE unclean \cup {n.section}
          /\ job' = Sta!NoJob \/ job' = job
    BY StatisticsSets DEF Sta!RestoreStats
  <1>2. UNCHANGED <<transfers, today, uploaded, uploadedOn, split>>
    BY StatisticsSets DEF Sta!RestoreStats
  <1>3. PICK s : s = n.section
    OBVIOUS
  <1>4. n.uid \in Rankeds /\ s \in StatSections /\ n.kBytes \in Nat /\ n.files \in Nat
    BY <1>0, <1>3 DEF NukeTypes
  <1>30. PICK many : many = Cardinality(n.nuke)
    OBVIOUS
  <1>31. many \in Nat
    BY <1>0, <1>30, FS_CardinalityType DEF NukeTypes
  <1>32. unclean \subseteq unclean' /\ (s \notin unclean' => many = n.files)
    BY <1>1, <1>3, <1>30
  <1>33. PICK x : x = Sta!XfertimeCorrection(n.uid, n.kBytes, n.day)
    OBVIOUS
  <1>5. PICK stat : stat = [files |-> many, kBytes |-> n.kBytes, xfertime |-> x]
    OBVIOUS
  <1>6. stat \in Stats /\ stat["files"] = many /\ stat["kBytes"] = n.kBytes
    <2>1. x \in Int /\ many \in Int /\ n.kBytes \in Int
      BY <1>0, <1>4, <1>31, <1>33, CorrectionNumber
    <2> QED BY <1>5, <2>1, StatShape
  <1>7. Sta!NewMove(Sta!UploadIncr(n.uid, s, stat))
    BY <1>1, <1>3, <1>5, <1>30, <1>33
  <1>8. PICK back : back = {Mark(f, FALSE) : f \in Of(n)}
    OBVIOUS
  <1>9. \A f \in Of(n) : f \in onDisk /\ f \in Files /\ f.id \in n.ids /\ f.section = s /\ f.nuked
    BY <1>0, <1>3 DEF Of, FileTypes, NukeTypes
  <1>10. ASSUME NEW f \in Of(n)
         PROVE  /\ Mark(f, FALSE) \in Files /\ Mark(f, FALSE).id = f.id /\ Mark(f, FALSE).section = s
                /\ Mark(f, FALSE).kBytes = f.kBytes /\ ~Mark(f, FALSE).nuked
                /\ Mark(f, FALSE).counted = f.counted
    <2>1. f \in Files /\ f.section = s /\ FALSE \in BOOLEAN
      BY <1>9
    <2>2. /\ Mark(f, FALSE) \in Files /\ Mark(f, FALSE).id = f.id /\ Mark(f, FALSE).section = f.section
          /\ Mark(f, FALSE).kBytes = f.kBytes /\ Mark(f, FALSE).nuked = FALSE
          /\ Mark(f, FALSE).counted = f.counted
      BY <2>1, MarkRecord, Zenon
    <2> QED BY <2>1, <2>2, Zenon
  <1>11. ASSUME NEW f \in onDisk
         PROVE  [f EXCEPT !.nuked = @ /\ f.id \notin n.ids] = IF f \in Of(n) THEN Mark(f, FALSE) ELSE f
    <2>1. f \in Files /\ f.nuked \in BOOLEAN
      BY <1>0 DEF FileTypes, Files
    <2>2. CASE f \in Of(n)
      <3>1. f.id \in n.ids
        BY <1>9, <2>2
      <3>2. (f.nuked /\ f.id \notin n.ids) = FALSE
        BY <3>1
      <3> QED BY <2>2, <3>2, Zenon DEF Mark
    <2>3. CASE f \notin Of(n)
      <3>1. f.id \notin n.ids
        BY <2>3 DEF Of
      <3>2. (f.nuked /\ f.id \notin n.ids) = f.nuked
        BY <2>1, <3>1
      <3>3. Mark(f, f.nuked) = f
        <4>1. PICK b \in BOOLEAN : b = f.nuked
          BY <2>1
        <4>2. Mark(f, b) = f
          BY <2>1, <4>1, MarkRecord
        <4> QED BY <4>1, <4>2
      <3> QED BY <2>3, <3>2, <3>3, Zenon DEF Mark
    <2> QED BY <2>2, <2>3
  <1>12. onDisk' = {IF f \in Of(n) THEN Mark(f, FALSE) ELSE f : f \in onDisk}
    <2> DEFINE After(f) == [f EXCEPT !.nuked = @ /\ f.id \notin n.ids]
               Image(f) == IF f \in Of(n) THEN Mark(f, FALSE) ELSE f
    <2>1. onDisk' = {After(f) : f \in onDisk}
      BY <1>1, Zenon
    <2>2. \A f \in onDisk : After(f) = Image(f)
      BY <1>11, Zenon
    <2> HIDE DEF After, Image
    <2>3. onDisk' = {Image(f) : f \in onDisk}
      BY <2>1, <2>2
    <2> QED BY <2>3, Zenon DEF Image
  <1>13. Of(n) \subseteq onDisk
    BY <1>9
  <1>14. onDisk' = (onDisk \ Of(n)) \cup back
    BY <1>8, <1>12, <1>13
  <1>34. \A g \in back : \E f \in Of(n) : g = Mark(f, FALSE)
    BY <1>8
  <1>35. \A f \in Of(n) : Mark(f, FALSE) \in back
    BY <1>8
  <1>36. \A g \in back : \E f \in Of(n) : g.id = f.id /\ g.kBytes = f.kBytes /\ g = Mark(f, FALSE)
                                         /\ g.counted = f.counted
    BY <1>10, <1>34, Zenon
  <1>37. \A f \in Of(n) : \E g \in back : g.id = f.id /\ g.kBytes = f.kBytes
    BY <1>10, <1>35, Zenon
  <1>38. \A g \in back : g \in Files /\ g.section = s /\ ~g.nuked
    BY <1>10, <1>34, Zenon
  <1>39. \A g \in back : g.id \in n.ids
    BY <1>9, <1>36
  <1>15. /\ \A g \in back : \E f \in Of(n) : g.id = f.id /\ g.kBytes = f.kBytes /\ g = Mark(f, FALSE)
                                             /\ g.counted = f.counted
         /\ \A f \in Of(n) : \E g \in back : g.id = f.id /\ g.kBytes = f.kBytes
         /\ \A g \in back : g \in Files /\ g.section = s /\ ~g.nuked /\ g.id \in n.ids
    BY <1>36, <1>37, <1>38, <1>39, Zenon
  <1>16. \A f \in onDisk : (f.id \in n.ids <=> f \in Of(n))
    BY DEF Of
  <1>17. OneId(onDisk) /\ OneId(back) /\ OneId(onDisk')
    <2>1. OneId(onDisk)
      BY <1>0 DEF FileTypes
    <2>2. OneId(back)
      <3> SUFFICES ASSUME NEW g \in back, NEW h \in back, g.id = h.id PROVE g = h
        BY DEF OneId
      <3>1. PICK a \in Of(n) : g.id = a.id /\ g = Mark(a, FALSE)
        BY <1>15
      <3>2. PICK b \in Of(n) : h.id = b.id /\ h = Mark(b, FALSE)
        BY <1>15
      <3>4. a \in onDisk /\ b \in onDisk /\ a.id = b.id
        BY <1>13, <3>1, <3>2
      <3>3. a = b
        BY <2>1, <3>4 DEF OneId
      <3> QED BY <3>1, <3>2, <3>3
    <2>3. \A g \in back : \A f \in onDisk \ Of(n) : g.id # f.id
      BY <1>15, <1>16
    <2> QED BY <1>14, <2>1, <2>2, <2>3 DEF OneId
  <1>18. FileTypes'
    <2>1. Twins(onDisk, onDisk')
      BY <1>14, <1>15 DEF Twins
    <2>2. Twins(onDisk', onDisk)
      BY <1>13, <1>14, <1>15 DEF Twins
    <2>3. onDisk' \subseteq Files
      BY <1>0, <1>14, <1>15 DEF FileTypes
    <2> QED BY <1>0, <1>2, <1>17, <2>1, <2>2, <2>3, MarkedFiles
  <1>19. DocTypes' /\ today' \in Sta!Days
    BY <1>0, <1>2 DEF DocTypes, Sta!Days, Keys, Sta!AllSections, Stats, StatFields
  <1>20. \A m \in nukeLog' : m \in nukeLog /\ m # n /\ \A i \in m.ids : i \notin n.ids
    BY <1>0, <1>1 DEF NukeTypes
  <1>21. \A m \in nukeLog' : \A f \in onDisk' : f.id \in m.ids => f \in onDisk \ Of(n)
    BY <1>14, <1>15, <1>20
  <1>22. NukeTypes'
    <2>1. \A m \in nukeLog' : /\ m.uid \in Rankeds /\ m.section \in StatSections /\ m.kBytes \in Nat
                              /\ m.files \in Nat /\ IsFiniteSet(m.nuke) /\ \A i \in m.ids : i \in Nat /\ i < uploaded'["files"]
      BY <1>0, <1>2, <1>20 DEF NukeTypes
    <2>2. \A m \in nukeLog', f \in onDisk' : f.id \in m.ids => f.nuked /\ f.section = m.section
      BY <1>0, <1>20, <1>21 DEF NukeTypes
    <2>3. \A l, m \in nukeLog' : \A i \in l.ids : i \in m.ids => l = m
      BY <1>0, <1>20 DEF NukeTypes
    <2> QED BY <2>1, <2>2, <2>3 DEF NukeTypes
  <1>23. NukeExact'
    <2> SUFFICES ASSUME NEW m \in nukeLog', m.section \notin unclean'
                 PROVE  /\ Cardinality(Of(m))' = m.files /\ Sta!KBytesOf(Of(m))' = m.kBytes
                        /\ \A g \in Of(m)' : g.counted
      BY Zenon DEF NukeExact
    <2>1. Of(m)' = Of(m)
      <3>1. \A f \in Of(m) : f \in onDisk \ Of(n)
        BY <1>16, <1>20 DEF Of
      <3> QED BY <1>14, <1>21, <3>1 DEF Of
    <2>2. Cardinality(Of(m)) = m.files /\ Sta!KBytesOf(Of(m)) = m.kBytes /\ \A g \in Of(m) : g.counted
      BY <1>0, <1>20, <1>32 DEF NukeExact
    <2> QED BY <2>1, <2>2
  <1>24. "files" \in StatFields /\ "kBytes" \in StatFields
    BY DEF StatFields
  <1>25. MoveTypes' /\ \A g \in StatFields : \A d : OnDay(moves', g, d) = OnDay(moves, g, d)
    BY <1>0, <1>4, <1>6, <1>7, IncrSums
  <1>40. DayInv'
    BY <1>0, <1>2, <1>25, DaysKept
  <1>41. JobTypes'
    <2>1. CASE job' = Sta!NoJob
      <3>1. job' = [do |-> "none", section |-> Sta!NoSection, day |-> 0, todo |-> {}, nuke |-> {}]
        BY <2>1 DEF Sta!NoJob
      <3>2. /\ job' = [do |-> job'.do, section |-> job'.section, day |-> job'.day, todo |-> job'.todo,
                       nuke |-> job'.nuke]
            /\ job'.todo = {} /\ job'.nuke = {}
        BY <3>1
      <3>3. IsFiniteSet({})
        BY FS_EmptySet
      <3> QED BY <3>2, <3>3 DEF JobTypes, OneId
    <2>2. CASE job' = job
      <3>1. \A f \in job.todo, g \in onDisk' : f.id = g.id => f = g
        <4>1. \A f \in job.todo : f.id \notin n.ids
          BY <1>0 DEF JobTypes
        <4> QED BY <1>0, <1>14, <1>15, <4>1 DEF JobTypes
      <3>2. \A f \in job.todo, m \in nukeLog' : f.id \notin m.ids
        BY <1>0, <1>20 DEF JobTypes
      <3>3. job.todo \subseteq Files'
        BY <1>0 DEF JobTypes, Files, Sta!AllSections, Sta!Days
      <3>4. OneId(job.todo) /\ IsFiniteSet(job.todo) /\ IsFiniteSet(job.nuke)
        BY <1>0 DEF JobTypes
      <3>5. \A f \in job.todo : /\ f.section = job.section /\ job.section \in StatSections /\ ~f.nuked
                                /\ f.id < uploaded'["files"]
        BY <1>0, <1>2 DEF JobTypes
      <3>6. job = [do |-> job.do, section |-> job.section, day |-> job.day, todo |-> job.todo, nuke |-> job.nuke]
        BY <1>0 DEF JobTypes
      <3>7. job'.todo = job.todo /\ job'.nuke = job.nuke /\ job'.section = job.section
        BY <2>2
      <3>8. job' = [do |-> job'.do, section |-> job'.section, day |-> job'.day, todo |-> job'.todo,
                    nuke |-> job'.nuke]
        BY <2>2, <3>6
      <3> QED BY <3>1, <3>2, <3>3, <3>4, <3>5, <3>7, <3>8 DEF JobTypes, OneId
    <2> QED BY <1>1, <2>1, <2>2
  <1>26. \A g \in StatFields :
           /\ Ledger(g, Sta!AllSections)' = Ledger(g, Sta!AllSections)
           /\ \A r \in StatSections :
                /\ Ledger(g, {r})' = Ledger(g, {r}) + IF r = s THEN stat[g] ELSE 0
                /\ Ledger(g, {r}) \in Int
    BY <1>0, <1>2, <1>4, <1>6, <1>7, IncrLedger
  <1>27. AverageInv'
    BY <1>0, <1>2, <1>26 DEF AverageInv, Sta!AllSections
  <1>28. \A r \in StatSections : r # s => Standing(r)' = Standing(r)
    <2>1. \A r : \A f \in Standing(r) : f \in onDisk \ Of(n)
      BY <1>9 DEF Standing
    <2> QED BY <1>14, <1>15, <2>1 DEF Standing
  <1>29. SectionInv'
    <2> SUFFICES ASSUME NEW r \in StatSections, r \notin unclean'
                 PROVE  /\ Ledger("files", {r})' = Cardinality(Standing(r))'
                        /\ Ledger("kBytes", {r})' = Sta!KBytesOf(Standing(r))'
      BY Zenon DEF SectionInv
    <2>1. Ledger("files", {r}) = Cardinality(Standing(r)) /\ Ledger("kBytes", {r}) = Sta!KBytesOf(Standing(r))
      BY <1>0, <1>32 DEF SectionInv
    <2>2. CASE r # s
      <3>1. Standing(r)' = Standing(r)
        BY <1>28, <2>2
      <3>2. Cardinality(Standing(r))' = Cardinality(Standing(r)) /\ Sta!KBytesOf(Standing(r))' = Sta!KBytesOf(Standing(r))
        BY <3>1
      <3>3. Ledger("files", {r})' = Ledger("files", {r}) /\ Ledger("kBytes", {r})' = Ledger("kBytes", {r})
        BY <1>24, <1>26, <2>2
      <3> QED BY <2>1, <3>2, <3>3
    <2>3. CASE r = s
      <3>1. PICK old : old = Standing(r)
        OBVIOUS
      <3>2. Standing(r)' = old \cup back /\ old \cap back = {}
        <4>1. \A f \in old : f \in onDisk /\ f \notin Of(n)
          BY <1>9, <3>1 DEF Standing
        <4>2. r \notin unclean
          BY <1>32
        <4>3. \A f \in Of(n) : f.counted
          BY <1>0, <1>3, <2>3, <4>2 DEF NukeExact
        <4>4. \A g \in back : g.counted
          BY <1>15, <4>3
        <4>5. Standing(r)' = old \cup back
          BY <1>14, <1>15, <2>3, <3>1, <4>1, <4>4 DEF Standing
        <4> QED BY <1>15, <1>16, <4>1, <4>5
      <3>3. IsFiniteSet(old) /\ \A g \in old : g.kBytes \in Nat
        BY <1>0, <3>1, FS_Subset DEF Standing, FileTypes, Files
      <3>4. Cardinality(Of(n)) = n.files /\ Sta!KBytesOf(Of(n)) = n.kBytes /\ many = n.files
        BY <1>0, <1>3, <1>32, <2>3 DEF NukeExact
      <3>5. IsFiniteSet(back) /\ Cardinality(back) = n.files /\ Sta!KBytesOf(back) = n.kBytes
        <4>1. IsFiniteSet(Of(n)) /\ Of(n) \subseteq Files /\ OneId(Of(n))
          BY <1>0, <1>9, <1>13, <1>17, FS_Subset DEF FileTypes, OneId
        <4>2. Twins(Of(n), back) /\ Twins(back, Of(n)) /\ back \subseteq Files
          BY <1>15 DEF Twins
        <4>3. IsFiniteSet(back) /\ Cardinality(back) = Cardinality(Of(n)) /\ Sta!KBytesOf(back) = Sta!KBytesOf(Of(n))
          BY <1>17, <4>1, <4>2, SameFiles
        <4> QED BY <3>4, <4>3
      <3>6. \A g \in back : g.kBytes \in Nat
        BY <1>15 DEF Files
      <3>7. /\ Sta!KBytesOf(old \cup back) = Sta!KBytesOf(old) + Sta!KBytesOf(back)
            /\ Cardinality(old \cup back) = Cardinality(old) + Cardinality(back)
        BY <3>2, <3>3, <3>5, <3>6, KBytesJoined
      <3>8. /\ Cardinality(Standing(r))' = Cardinality(old \cup back)
            /\ Sta!KBytesOf(Standing(r))' = Sta!KBytesOf(old \cup back)
        BY <3>2
      <3>9. /\ Ledger("files", {r})' = Ledger("files", {r}) + n.files
            /\ Ledger("kBytes", {r})' = Ledger("kBytes", {r}) + n.kBytes
        BY <1>6, <1>24, <1>26, <2>3, <3>4
      <3> QED BY <2>1, <3>1, <3>5, <3>7, <3>8, <3>9
    <2> QED BY <2>2, <2>3
  <1> QED BY <1>18, <1>19, <1>22, <1>23, <1>25, <1>27, <1>29, <1>40, <1>41 DEF StatInv

\* The collection is empty at first.
LEMMA StatInitial ==
  ASSUME Sta!StatAssumption, Sta!Init
  PROVE  StatInv
PROOF
  <1>0. /\ transfers = <<>> /\ onDisk = {} /\ moves = {} /\ today = 1 /\ nukeLog = {}
        /\ uploaded = Sta!Zero /\ numMoves = 0 /\ unclean = {} /\ job = Sta!NoJob
        /\ uploadedOn = [d \in Sta!Days |-> Sta!Zero] /\ split = {}
    BY DEF Sta!Init
  <1>1. IsFiniteSet({}) /\ Cardinality({}) = 0
    BY FS_EmptySet
  <1>2. today \in Sta!Days
    BY <1>0 DEF Sta!Days, Sta!StatAssumption
  <1>3. DOMAIN transfers = {} /\ transfers = [k \in DOMAIN transfers |-> transfers[k]]
    BY <1>0
  <1>4. DocTypes
    BY <1>1, <1>3 DEF DocTypes
  <1>5. MoveTypes
    BY <1>0, <1>1 DEF MoveTypes
  <1>6. FileTypes
    <2>1. Sta!Zero \in Stats /\ Sta!Zero["files"] = 0
      BY StatShape DEF StatFields
    <2>2. uploadedOn \in [Sta!Days -> Stats]
      BY <1>0, <2>1
    <2> QED BY <1>0, <1>1, <2>1, <2>2 DEF FileTypes, OneId
  <1>7. NukeTypes /\ NukeExact
    BY <1>0 DEF NukeTypes, NukeExact
  <1>8. ASSUME NEW f \in StatFields, NEW S PROVE Ledger(f, S) = 0
    <2>1. KeysIn(transfers, Rankeds \X Sta!Days \X S) = {}
      BY <1>3 DEF KeysIn
    <2>2. PICK c : c = Column(transfers, f)
      OBVIOUS
    <2>3. SumFunctionOnSet(c, {}) = 0
      BY <1>1, SumFirst
    <2>4. SumIn(transfers, f, S) = 0
      BY <2>1, <2>2, <2>3 DEF SumIn, SumOn
    <2>5. PICK d : d = [m \in moves |-> LeftOf(m, f, S)]
      OBVIOUS
    <2>6. SumFunctionOnSet(d, {}) = 0
      BY <1>1, SumFirst
    <2>7. Pending(moves, f, S) = 0
      BY <1>0, <2>5, <2>6 DEF Pending
    <2> QED BY <2>4, <2>7 DEF Ledger
  <1>9. AverageInv
    BY <1>0, <1>8, StatShape DEF AverageInv
  <1>10. SectionInv
    <2>1. \A s : Standing(s) = {}
      BY <1>0 DEF Standing
    <2>2. \A s : Sta!KBytesOf(Standing(s)) = 0 /\ Cardinality(Standing(s)) = 0
      BY <1>1, <2>1, NoKBytes
    <2>3. "files" \in StatFields /\ "kBytes" \in StatFields
      BY DEF StatFields
    <2> QED BY <1>8, <2>2, <2>3 DEF SectionInv
  <1>11. JobTypes
    <2>1. job = [do |-> "none", section |-> Sta!NoSection, day |-> 0, todo |-> {}, nuke |-> {}]
      BY <1>0 DEF Sta!NoJob
    <2>2. /\ job = [do |-> job.do, section |-> job.section, day |-> job.day, todo |-> job.todo, nuke |-> job.nuke]
          /\ job.todo = {} /\ job.nuke = {}
      BY <2>1
    <2> QED BY <1>1, <2>2 DEF JobTypes, OneId
  <1>12. DayInv
    <2> SUFFICES ASSUME NEW d \in Sta!Days, NEW f \in StatFields PROVE DayLedger(f, d) = uploadedOn[d][f]
      BY DEF DayInv
    <2>1. PICK c : c = Column(transfers, f)
      OBVIOUS
    <2>2. SumFunctionOnSet(c, {}) = 0
      BY <1>1, SumFirst
    <2>8. KeysIn(transfers, Rankeds \X {d} \X Sta!AllSections) = {}
      BY <1>3 DEF KeysIn
    <2>3. DaySum(transfers, f, d) = 0
      BY <2>1, <2>2, <2>8 DEF DaySum, SumOn
    <2>4. PICK e : e = [m \in moves |-> Half(m, f, d)]
      OBVIOUS
    <2>5. SumFunctionOnSet(e, {}) = 0
      BY <1>1, SumFirst
    <2>6. OnDay(moves, f, d) = 0
      BY <1>0, <2>4, <2>5 DEF OnDay
    <2>7. uploadedOn[d][f] = 0
      BY <1>0, StatShape
    <2> QED BY <2>3, <2>6, <2>7 DEF DayLedger
  <1> QED BY <1>2, <1>4, <1>5, <1>6, <1>7, <1>9, <1>10, <1>11, <1>12 DEF StatInv

\* With no move under way the documents alone owe it all.
LEMMA StatConsequence ==
  ASSUME Sta!StatAssumption, StatInv
  PROVE  Sta!SectionExact /\ Sta!AverageKept
PROOF
  <1> SUFFICES ASSUME moves = {}
               PROVE  /\ \A s \in StatSections \ unclean :
                           LET standing == {f \in onDisk : f.section = s /\ f.counted /\ ~f.nuked}
                               total == Sta!TotalOf(Rankeds \X Sta!Days \X {s})
                           IN /\ total.files = Cardinality(standing)
                              /\ total.kBytes = Sta!KBytesOf(standing)
                      /\ Sta!TotalOf(Rankeds \X Sta!Days \X Sta!AllSections) = uploaded
                      /\ \A d \in Sta!Days \ split : Sta!TotalOf(Rankeds \X {d} \X Sta!AllSections) = uploadedOn[d]
    BY StatisticsSets DEF Sta!SectionExact, Sta!AverageKept
  <1>0. DocTypes /\ MoveTypes /\ FileTypes /\ SectionInv /\ AverageInv /\ DayInv
    BY DEF StatInv
  <1>1. ASSUME NEW f \in StatFields, NEW S PROVE Ledger(f, S) = SumIn(transfers, f, S)
    <2>1. PICK d : d = [m \in moves |-> LeftOf(m, f, S)]
      OBVIOUS
    <2>2. SumFunctionOnSet(d, {}) = 0
      BY FS_EmptySet, SumFirst
    <2>3. Pending(moves, f, S) = 0
      BY <2>1, <2>2 DEF Pending
    <2>4. SumIn(transfers, f, S) \in Int
      BY <1>0, LedgerNumber
    <2> QED BY <2>3, <2>4 DEF Ledger
  <1>2. ASSUME NEW s \in StatSections \ unclean
        PROVE  /\ Sta!TotalOf(Rankeds \X Sta!Days \X {s}).files = Cardinality(Standing(s))
               /\ Sta!TotalOf(Rankeds \X Sta!Days \X {s}).kBytes = Sta!KBytesOf(Standing(s))
    <2>1. PICK t : t = Sta!TotalOf(Rankeds \X Sta!Days \X {s})
      OBVIOUS
    <2>2. "files" \in StatFields /\ "kBytes" \in StatFields
      BY DEF StatFields
    <2>3. t \in Stats /\ \A f \in StatFields : t[f] = SumIn(transfers, f, {s})
      BY <1>0, <2>1, TotalIs DEF SumIn
    <2>4. t.files = t["files"] /\ t.kBytes = t["kBytes"]
      BY <2>3, StatShape
    <2>5. Ledger("files", {s}) = Cardinality(Standing(s)) /\ Ledger("kBytes", {s}) = Sta!KBytesOf(Standing(s))
      BY <1>0 DEF SectionInv
    <2> QED BY <1>1, <2>1, <2>2, <2>3, <2>4, <2>5
  <1>3. Sta!TotalOf(Rankeds \X Sta!Days \X Sta!AllSections) = uploaded
    <2>1. PICK t : t = Sta!TotalOf(Rankeds \X Sta!Days \X Sta!AllSections)
      OBVIOUS
    <2>2. t \in Stats /\ \A f \in StatFields : t[f] = SumIn(transfers, f, Sta!AllSections)
      BY <1>0, <2>1, TotalIs DEF SumIn
    <2>3. \A f \in StatFields : t[f] = uploaded[f]
      BY <1>0, <1>1, <2>2 DEF AverageInv
    <2>4. uploaded \in Stats
      BY <1>0 DEF FileTypes
    <2>5. t = [f \in StatFields |-> t[f]] /\ uploaded = [f \in StatFields |-> uploaded[f]]
      BY <2>2, <2>4 DEF Stats
    <2> QED BY <2>1, <2>3, <2>5
  <1>4. ASSUME NEW d \in Sta!Days \ split PROVE Sta!TotalOf(Rankeds \X {d} \X Sta!AllSections) = uploadedOn[d]
    <2>1. PICK t : t = Sta!TotalOf(Rankeds \X {d} \X Sta!AllSections)
      OBVIOUS
    <2>2. t \in Stats /\ \A f \in StatFields : t[f] = DaySum(transfers, f, d)
      BY <1>0, <2>1, TotalIs DEF DaySum
    <2>3. ASSUME NEW f \in StatFields PROVE DaySum(transfers, f, d) = uploadedOn[d][f]
      <3>1. PICK e : e = [m \in moves |-> Half(m, f, d)]
        OBVIOUS
      <3>2. SumFunctionOnSet(e, {}) = 0
        BY FS_EmptySet, SumFirst
      <3>3. OnDay(moves, f, d) = 0
        BY <3>1, <3>2 DEF OnDay
      <3>4. DaySum(transfers, f, d) \in Int
        BY <1>0, DayNumber
      <3>5. DaySum(transfers, f, d) + OnDay(moves, f, d) = uploadedOn[d][f]
        BY <1>0 DEF DayInv, DayLedger
      <3> QED BY <3>3, <3>4, <3>5
    <2>4. PICK sum : sum = uploadedOn[d]
      OBVIOUS
    <2>5. sum \in Stats
      BY <1>0, <2>4 DEF FileTypes
    <2>6. \A f \in StatFields : t[f] = sum[f]
      BY <2>2, <2>3, <2>4
    <2>7. t = [f \in StatFields |-> t[f]] /\ sum = [f \in StatFields |-> sum[f]]
      BY <2>2, <2>5 DEF Stats
    <2> QED BY <2>1, <2>4, <2>6, <2>7
  <1> QED BY <1>2, <1>3, <1>4 DEF Standing

\* SECTIONS AND AVERAGES FOLLOW THE FILES, for any users, sections, uploads and days: when no
\* move is under way, the files and kBytes counted for a section over all users and days are
\* those of the files counted there whose share no nuke holds, except where unclean says that a
\* share was taken that was not there (nostats, WIPE, an undone nuke of several nukees), and the
\* sums over all sections are those of the uploads, over all days and on each day on which no
\* midnight parted a move: UploadDecr and UploadIncr move shares and lose none, while a nuke is
\* half done and when one user deletes another's file (stats.cpp:114-154).
THEOREM SectionsFollowFiles ==
  Sta!StatAssumption => (Sta!Spec => [](Sta!SectionExact /\ Sta!AverageKept))
PROOF
  <1> SUFFICES ASSUME Sta!StatAssumption PROVE Sta!Spec => [](Sta!SectionExact /\ Sta!AverageKept)
    OBVIOUS
  <1>1. Sta!Init => StatInv
    BY StatInitial
  <1>2. StatInv /\ [Sta!Next]_(Sta!statVars) => StatInv'
    BY UploadKept, DeleteKept, JobKept, TakeKept, RestoreKept, MoveStepKept, MidnightKept, Zenon DEF Sta!Next
  <1>3. StatInv => Sta!SectionExact /\ Sta!AverageKept
    BY StatConsequence
  <1> QED BY <1>1, <1>2, <1>3, PTL DEF Sta!Spec
=============================================================================
