---------------------------- MODULE TaskService ----------------------------
(***************************************************************************)
(* What Server::PushTask promises its callers: the tasks a thread pushes   *)
(* are executed one at a time, in the order in which it pushed them, each  *)
(* once and none before it was pushed.                                     *)
(***************************************************************************)
EXTENDS Naturals

CONSTANT Producers    \* the threads that push tasks

VARIABLES
  pushed,             \* how many tasks each thread has pushed
  executed            \* the last of them that was executed

Init ==
  /\ pushed = [p \in Producers |-> 0]
  /\ executed = [p \in Producers |-> 0]

Push(p) ==
  /\ pushed' = [pushed EXCEPT ![p] = @ + 1]
  /\ UNCHANGED executed

Execute(p) ==
  /\ executed[p] < pushed[p]
  /\ executed' = [executed EXCEPT ![p] = @ + 1]
  /\ UNCHANGED pushed

Next == \E p \in Producers : Push(p) \/ Execute(p)

Spec == Init /\ [][Next]_<<pushed, executed>>
=============================================================================
