----------------------------- MODULE TaskQueue -----------------------------
(***************************************************************************)
(* The task queue of the server thread and the pipe that wakes it          *)
(* (Server::PushTask, AcceptClients, HandleTasks and Shutdown in           *)
(* ftp/server.cpp, util::InterruptPipe).  A producer appends its task      *)
(* under queueMutex and then, outside the mutex, writes a byte to the      *)
(* pipe; the server thread polls the pipe, reads ONE byte and drains the   *)
(* whole queue.  Bytes and tasks therefore do not stay paired, the pipe    *)
(* is finite, and a write to a full one blocks.                            *)
(***************************************************************************)
EXTENDS Naturals, Sequences

CONSTANTS
  Producers,    \* client threads, the replicator, the signal handler
  Exiters,      \* the producers whose tasks are task::Exit
  PipeSize,     \* capacity of the pipe in bytes
  MaxPush       \* bound: tasks pushed by one producer

ASSUME ExitersAssumption == Exiters \subseteq Producers
ASSUME SizeAssumption == PipeSize \in Nat \ {0} /\ MaxPush \in Nat

VARIABLES
  ppc,          \* a producer is between its push and its write, or not
  pushed,       \* tasks pushed so far by each producer
  queue,        \* Server::queue: the k-th task of producer p is <<p, k>>
  pipe,         \* bytes in the interrupt pipe
  spc,          \* where the server thread is
  cur,          \* the task it executes, a sequence of at most one
  executed,     \* the number of each producer's task executed last
  shutdown      \* Server::shutdown

vars == <<ppc, pushed, queue, pipe, spc, cur, executed, shutdown>>

Tasks == Producers \X (Nat \ {0})

Init ==
  /\ ppc = [p \in Producers |-> "idle"]
  /\ pushed = [p \in Producers |-> 0]
  /\ queue = <<>>
  /\ pipe = 0
  /\ spc = "poll"
  /\ cur = <<>>
  /\ executed = [p \in Producers |-> 0]
  /\ shutdown = FALSE

\* A faulty PushTask: the server is not woken.
PushTaskNoWake(p) ==
  /\ ppc[p] = "idle" /\ pushed[p] < MaxPush
  /\ pushed' = [pushed EXCEPT ![p] = @ + 1]
  /\ queue' = Append(queue, <<p, pushed[p] + 1>>)
  /\ UNCHANGED <<ppc, pipe, spc, cur, executed, shutdown>>

\* PushTask: the section under queueMutex ...
PushTask(p) ==
  /\ ppc[p] = "idle" /\ pushed[p] < MaxPush
  /\ pushed' = [pushed EXCEPT ![p] = @ + 1]
  /\ queue' = Append(queue, <<p, pushed[p] + 1>>)
  /\ ppc' = [ppc EXCEPT ![p] = "write"]
  /\ UNCHANGED <<pipe, spc, cur, executed, shutdown>>

\* ... and the write, which blocks while the pipe is full.
Interrupt(p) ==
  /\ ppc[p] = "write" /\ pipe < PipeSize
  /\ pipe' = pipe + 1
  /\ ppc' = [ppc EXCEPT ![p] = "idle"]
  /\ UNCHANGED <<pushed, queue, spc, cur, executed, shutdown>>

\* AcceptClients: poll reports the pipe readable; one byte is read.
Acknowledge ==
  /\ spc = "poll" /\ ~shutdown /\ pipe > 0
  /\ pipe' = pipe - 1
  /\ spc' = "drain"
  /\ UNCHANGED <<ppc, pushed, queue, cur, executed, shutdown>>

\* A faulty HandleTasks: it swaps the queue away and keeps its first task.
HandleTasksSwap ==
  /\ spc = "drain"
  /\ IF queue = <<>>
     THEN spc' = "poll" /\ UNCHANGED <<queue, cur>>
     ELSE /\ cur' = <<Head(queue)>>
          /\ queue' = <<>>
          /\ spc' = "exec"
  /\ UNCHANGED <<ppc, pushed, pipe, executed, shutdown>>

\* HandleTasks: the section under queueMutex takes the first task or ends.
HandleTasks ==
  /\ spc = "drain"
  /\ IF queue = <<>>
     THEN spc' = "poll" /\ UNCHANGED <<queue, cur>>
     ELSE /\ cur' = <<Head(queue)>>
          /\ queue' = Tail(queue)
          /\ spc' = "exec"
  /\ UNCHANGED <<ppc, pushed, pipe, executed, shutdown>>

\* task->Execute(*this); Exit sets shutdown ...
Execute ==
  /\ spc = "exec"
  /\ LET p == cur[1][1] IN
     /\ executed' = [executed EXCEPT ![p] = cur[1][2]]
     /\ shutdown' = (shutdown \/ p \in Exiters)
     /\ spc' = IF p \in Exiters THEN "self" ELSE "drain"
  /\ cur' = <<>>
  /\ UNCHANGED <<ppc, pushed, queue, pipe>>

\* ... and writes a byte to the pipe it reads itself.
Shutdown ==
  /\ spc = "self" /\ pipe < PipeSize
  /\ pipe' = pipe + 1
  /\ spc' = "drain"
  /\ UNCHANGED <<ppc, pushed, queue, cur, executed, shutdown>>

\* A faulty StopLoop: the loop waits for an empty queue.
StopLoopEmpty ==
  /\ spc = "poll" /\ shutdown /\ queue = <<>>
  /\ spc' = "stopped"
  /\ UNCHANGED <<ppc, pushed, queue, pipe, cur, executed, shutdown>>

\* Run leaves its loop; tasks pushed from now on are never executed.
StopLoop ==
  /\ spc = "poll" /\ shutdown
  /\ spc' = "stopped"
  /\ UNCHANGED <<ppc, pushed, queue, pipe, cur, executed, shutdown>>

Server == Acknowledge \/ HandleTasks \/ Execute \/ Shutdown \/ StopLoop

Next ==
  \/ \E p \in Producers : PushTask(p) \/ Interrupt(p)
  \/ Server

\* Every thread is scheduled; nobody has to push.
Fairness ==
  /\ \A p \in Producers : WF_vars(Interrupt(p))
  /\ WF_vars(Server)

Spec == Init /\ [][Next]_vars
FairSpec == Spec /\ Fairness

-----------------------------------------------------------------------------
(* Properties *)

\* The pipe holds at most its capacity and the queue holds tasks.
TypeOK ==
  /\ ppc \in [Producers -> {"idle", "write"}]
  /\ pushed \in [Producers -> Nat]
  /\ queue \in Seq(Tasks)
  /\ pipe \in 0 .. PipeSize
  /\ spc \in {"poll", "drain", "exec", "self", "stopped"}
  /\ cur \in Seq(Tasks) /\ Len(cur) <= 1
  /\ executed \in [Producers -> Nat]
  /\ shutdown \in BOOLEAN

\* No wake-up is lost: while the server thread is in poll, a task in the
\* queue has a byte in the pipe or its producer is about to write one, however
\* many tasks the last drain took for one byte.
NoLostWakeup ==
  spc = "poll" /\ queue # <<>> =>
    pipe > 0 \/ \E p \in Producers : ppc[p] = "write"

\* The queue and its pipe implement the promise of PushTask: each task is
\* executed once, in its producer's order.
Service == INSTANCE TaskService WITH
  Producers <- Producers, pushed <- pushed, executed <- executed
ImplementsService == Service!Spec

\* A task that was pushed is executed, unless the server shuts down.
TaskExecuted ==
  \A p \in Producers : \A k \in 1 .. MaxPush :
    pushed[p] >= k ~> executed[p] >= k \/ shutdown

\* After a shutdown the server thread leaves its loop, however many tasks are
\* pushed meanwhile, or it is stuck in the write of a byte to its own full pipe.
ShutdownStops == shutdown ~> (spc = "stopped" \/ (spc = "self" /\ pipe = PipeSize))

-----------------------------------------------------------------------------
(* The inductive invariant behind NoLostWakeup and ImplementsService *)

\* The lowest number of a task of p that is not taken from the queue yet.
Lowest(p) == executed[p] + 1 + (IF cur # <<>> /\ cur[1][1] = p THEN 1 ELSE 0)

\* The queue holds exactly the tasks not taken yet, in order.
QueueInOrder ==
  /\ \A i \in DOMAIN queue : queue[i][2] \in Lowest(queue[i][1]) .. pushed[queue[i][1]]
  /\ \A i, j \in DOMAIN queue :
       i < j /\ queue[i][1] = queue[j][1] => queue[i][2] < queue[j][2]
  /\ \A p \in Producers : Lowest(p) <= pushed[p] + 1
  /\ \A p \in Producers : \A k \in Lowest(p) .. pushed[p] :
       \E i \in DOMAIN queue : queue[i] = <<p, k>>

\* The task taken is the next one of its producer.
TakenInOrder ==
  /\ spc = "exec" <=> cur # <<>>
  /\ cur # <<>> => /\ cur[1][2] = executed[cur[1][1]] + 1
                   /\ cur[1][2] <= pushed[cur[1][1]]

QueueInv == TypeOK /\ NoLostWakeup /\ QueueInOrder /\ TakenInOrder
=============================================================================
