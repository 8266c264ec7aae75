--------------------------- MODULE SessionProofs ---------------------------
(***************************************************************************)
(* Proofs about Session: the login counter is exact, no login is given     *)
(* back twice, a logged in client is online and a task never refers to a   *)
(* destroyed client, for any number of clients and users, any login limits *)
(* and any bounds.                                                         *)
(***************************************************************************)
EXTENDS Session, FiniteSetTheorems, TLAPS

-----------------------------------------------------------------------------
(* What the helpers of the actions do *)

\* A jump or a reply leaves a thread at a label of the program.
LEMMA GotoType ==
  ASSUME NEW c \in Clients, NEW l \in ClientPcs, pc \in [Clients -> ClientPcs],
         Goto(c, l) \/ Reply(c, l)
  PROVE  pc' \in [Clients -> ClientPcs]
PROOF BY DEF Goto, Reply, ClientPcs

\* Task builds a task.
LEMMA TaskType ==
  ASSUME NEW t \in TaskTypes, NEW u \in Users \cup {None}, NEW c \in Clients \cup {None}
  PROVE  Task(t, u, c) \in Tasks
PROOF BY DEF Task, Tasks

\* PushTask keeps the queue a queue of tasks ...
LEMMA PushType ==
  ASSUME NEW t \in Tasks, queue \in Seq(Tasks), Push(t)
  PROVE  queue' \in Seq(Tasks)
PROOF BY DEF Push

\* ... whose entries are the old ones and, last, the new one.
LEMMA PushCases ==
  ASSUME NEW t \in Tasks, queue \in Seq(Tasks), Push(t)
  PROVE  \A i \in DOMAIN queue' :
           \/ i \in DOMAIN queue /\ queue'[i] = queue[i]
           \/ i = Len(queue) + 1 /\ i \notin DOMAIN queue /\ queue'[i] = t
PROOF BY DEF Push

\* HandleTasks takes the first entry; the others move up.
LEMMA PopCases ==
  ASSUME queue \in Seq(Tasks), queue # <<>>, queue' = Tail(queue)
  PROVE  /\ 1 \in DOMAIN queue /\ Head(queue) = queue[1]
         /\ \A i \in DOMAIN queue' :
              i \in Nat \ {0} /\ i + 1 \in DOMAIN queue /\ queue'[i] = queue[i + 1]
PROOF OBVIOUS

\* An update of a function to BOOLEAN with a Boolean.
LEMMA BooleanUpdate ==
  ASSUME NEW f \in [Clients -> BOOLEAN], NEW c, NEW b \in BOOLEAN
  PROVE  [f EXCEPT ![c] = b] \in [Clients -> BOOLEAN]
PROOF OBVIOUS

\* Destroying clients that hold no login leaves the counters and the online
\* table alone: ~LoginGuard has nothing to do.
LEMMA DestroyIdle ==
  ASSUME TypeOK, NEW S \in SUBSET Clients, \A c \in S : ~guard[c], Destroy(S)
  PROVE  count' = count /\ global' = global /\ online' = online /\ guard' = guard
PROOF
  <1>1. \A u \in Users : {c \in S : guard[c] /\ user[c] = u} = {}
    OBVIOUS
  <1>2. {c \in S : guard[c]} = {}
    OBVIOUS
  <1>3. Cardinality({}) = 0
    BY FS_EmptySet
  <1>4. count' = [u \in Users |-> count[u] - 0]
    BY <1>1, <1>3 DEF Destroy
  <1>5. count' = count
    BY <1>4 DEF TypeOK
  <1>6. global' = global - 0
    BY <1>2, <1>3 DEF Destroy
  <1>7. global' = global
    BY <1>6 DEF TypeOK
  <1>8. online' = online
    BY <1>2 DEF Destroy
  <1>9. guard' = guard
    BY DEF Destroy, TypeOK
  <1> QED BY <1>5, <1>7, <1>8, <1>9

\* Destroy resets every field of the destroyed clients to a value of its type.
LEMMA DestroyType ==
  ASSUME TypeOK, NEW S \in SUBSET Clients, Destroy(S)
  PROVE  /\ pc' \in [Clients -> ClientPcs] /\ state' \in [Clients -> States]
         /\ user' \in [Clients -> Users \cup {None}]
         /\ del' \in [Clients -> BOOLEAN] /\ kickLogin' \in [Clients -> BOOLEAN]
         /\ kicked' \in [Clients -> BOOLEAN] /\ updated' \in [Clients -> BOOLEAN]
         /\ intr' \in [Clients -> BOOLEAN] /\ missed' \in [Clients -> BOOLEAN]
         /\ attempts' \in [Clients -> Nat]
PROOF
  <1> USE DEF TypeOK
  <1>1. pc' \in [Clients -> ClientPcs]
    BY DEF Destroy, ClientPcs
  <1>2. state' \in [Clients -> States]
    BY DEF Destroy, States
  <1>3. user' \in [Clients -> Users \cup {None}]
    BY DEF Destroy
  <1>4. del' \in [Clients -> BOOLEAN] /\ kickLogin' \in [Clients -> BOOLEAN]
    BY DEF Destroy
  <1>5. kicked' \in [Clients -> BOOLEAN] /\ updated' \in [Clients -> BOOLEAN]
    BY DEF Destroy
  <1>6. intr' \in [Clients -> BOOLEAN] /\ missed' \in [Clients -> BOOLEAN]
    BY DEF Destroy
  <1>7. attempts' \in [Clients -> Nat]
    BY DEF Destroy
  <1> QED BY <1>1, <1>2, <1>3, <1>4, <1>5, <1>6, <1>7

\* The clients CleanupClient and StopClients destroy hold no login: their
\* threads have ended and nobody is logging them out.
LEMMA DoneIsIdle ==
  ASSUME LoginOwner, TaskInv, spc \in {"join", "stop"},
         NEW c \in Clients, pc[c] = "done"
  PROVE  ~guard[c]
PROOF BY DEF LoginOwner, ServerLogsOut

\* Type correctness is preserved by every step.
LEMMA TypeStep ==
  ASSUME TypeOK, LoginOwner, UserKnown, TaskInv, [Next]_vars
  PROVE  TypeOK'
PROOF
  <1> USE NoneAssumption, BoundAssumption
      DEF TypeOK, sessVars, loginVars, cmdVars, acctVars, dbVars, srvVars
  <1>1. ASSUME NEW c \in Clients, InnerRun(c) PROVE TypeOK'
    BY <1>1 DEF InnerRun, ClientPcs, ServerPcs, States, Faults, AllCommands, Goto, Reply
  <1>2. ASSUME NEW c \in Clients, HandleLoop(c) PROVE TypeOK'
    BY <1>2 DEF HandleLoop, ClientPcs, ServerPcs, States, Faults, AllCommands, Goto, Reply
  <1>3. ASSUME NEW c \in Clients, NextCommand(c) PROVE TypeOK'
    BY <1>3 DEF NextCommand, ClientPcs, ServerPcs, States, Faults, AllCommands, Goto, Reply
  <1>4. ASSUME NEW c \in Clients, ReadFails(c) PROVE TypeOK'
    BY <1>4 DEF ReadFails, ClientPcs, ServerPcs, States, Faults, AllCommands, Goto, Reply
  <1>5. ASSUME NEW c \in Clients, ReloadUser(c) PROVE TypeOK'
    BY <1>5 DEF ReloadUser, ClientPcs, ServerPcs, States, Faults, AllCommands, Goto, Reply
  <1>6. ASSUME NEW c \in Clients, ReloadLoad(c) PROVE TypeOK'
    <2>1. pc' \in [Clients -> ClientPcs]
      BY <1>6, GotoType DEF ReloadLoad, ClientPcs
    <2> QED BY <1>6, <2>1 DEF ReloadLoad
  <1>7. ASSUME NEW c \in Clients, BeginCommand(c) PROVE TypeOK'
    BY <1>7 DEF BeginCommand, ClientPcs, ServerPcs, States, Faults, AllCommands, Goto, Reply
  <1>8. ASSUME NEW c \in Clients, OnlineCommand(c) PROVE TypeOK'
    BY <1>8 DEF OnlineCommand, Check, ClientPcs, ServerPcs, States, Faults, AllCommands,
       Goto, Reply
  <1>9. ASSUME NEW c \in Clients, CheckState(c) PROVE TypeOK'
    <2>1. pc' \in [Clients -> ClientPcs]
      BY <1>9, GotoType DEF CheckState, ClientPcs
    <2> QED BY <1>9, <2>1 DEF CheckState, Check, Faults
  <1>10. ASSUME NEW c \in Clients, UserLoad(c) PROVE TypeOK'
    <2>1. pc' \in [Clients -> ClientPcs]
      BY <1>10, GotoType DEF UserLoad, ClientPcs
    <2>2. kickLogin' \in [Clients -> BOOLEAN]
      <3>1. CASE UNCHANGED kickLogin
        BY <3>1
      <3>2. CASE \E k \in KickLogins : kickLogin' = [kickLogin EXCEPT ![c] = k]
        BY <3>2, BooleanUpdate
      <3> QED BY <1>10, <3>1, <3>2 DEF UserLoad
    <2>3. del' \in [Clients -> BOOLEAN]
      <3>1. (arg[c] \in dbDel) \in BOOLEAN
        OBVIOUS
      <3> QED BY <1>10, <3>1, BooleanUpdate DEF UserLoad
    <2>4. missed' \in [Clients -> BOOLEAN]
      BY <1>10 DEF UserLoad
    <2> QED BY <1>10, <2>1, <2>2, <2>3, <2>4 DEF UserLoad
  <1>11. ASSUME NEW c \in Clients, SetWaitingPassword(c) PROVE TypeOK'
    BY <1>11 DEF SetWaitingPassword, ClientPcs, ServerPcs, States, Faults, AllCommands,
       Goto, Reply
  <1>12. ASSUME NEW c \in Clients, PassCheck(c) PROVE TypeOK'
    <2>1. pc' \in [Clients -> ClientPcs]
      BY <1>12, GotoType DEF PassCheck, ClientPcs
    <2>2. attempts' \in [Clients -> Nat]
      BY <1>12 DEF PassCheck, VerifyPassword
    <2> QED BY <1>12, <2>1, <2>2 DEF PassCheck
  <1>13. ASSUME NEW c \in Clients, SetLoggedOut(c) PROVE TypeOK'
    BY <1>13 DEF SetLoggedOut, ClientPcs, ServerPcs, States, Faults, AllCommands, Goto,
       Reply
  <1>14. ASSUME NEW c \in Clients, PassKick(c) PROVE TypeOK'
    <2>1. pc' \in [Clients -> ClientPcs]
      BY <1>14, GotoType DEF PassKick, ClientPcs
    <2>2. queue' \in Seq(Tasks)
      BY <1>14, PushType, TaskType DEF PassKick, TaskTypes
    <2> QED BY <1>14, <2>1, <2>2 DEF PassKick
  <1>15. ASSUME NEW c \in Clients, LoginStart(c) PROVE TypeOK'
    <2>1. pc' \in [Clients -> ClientPcs]
      BY <1>15, GotoType DEF LoginStart, ClientPcs
    <2>2. count' \in [Users -> Int] /\ global' \in Int
      BY <1>15 DEF LoginStart, UserKnown
    <2> QED BY <1>15, <2>1, <2>2 DEF LoginStart
  <1>16. ASSUME NEW c \in Clients, LoginOnline(c) PROVE TypeOK'
    BY <1>16 DEF LoginOnline, ClientPcs, ServerPcs, States, Faults, AllCommands, Goto, Reply
  <1>17. ASSUME NEW c \in Clients, LoginState(c) PROVE TypeOK'
    BY <1>17 DEF LoginState, ClientPcs, ServerPcs, States, Faults, AllCommands, Goto, Reply
  <1>18. ASSUME NEW c \in Clients, PlainCommand(c) PROVE TypeOK'
    BY <1>18 DEF PlainCommand, ClientPcs, ServerPcs, States, Faults, AllCommands, Goto,
       Reply
  <1>19. ASSUME NEW c \in Clients, QuitCommand(c) PROVE TypeOK'
    BY <1>19 DEF QuitCommand, ClientPcs, ServerPcs, States, Faults, AllCommands, Goto, Reply
  <1>20. ASSUME NEW c \in Clients, StartTransfer(c) PROVE TypeOK'
    <2>1. pc' \in [Clients -> ClientPcs]
      BY <1>20, GotoType DEF StartTransfer, ClientPcs
    <2> QED BY <1>20, <2>1 DEF StartTransfer, Check, Faults
  <1>21. ASSUME NEW c \in Clients, StopTransfer(c) PROVE TypeOK'
    BY <1>21 DEF StopTransfer, Check, ClientPcs, ServerPcs, States, Faults, AllCommands,
       Goto, Reply
  <1>22. ASSUME NEW c \in Clients, KickCommand(c) PROVE TypeOK'
    <2>1. pc' \in [Clients -> ClientPcs]
      BY <1>22, GotoType DEF KickCommand, ClientPcs
    <2>2. queue' \in Seq(Tasks)
      BY <1>22, PushType, TaskType DEF KickCommand, TaskTypes
    <2>3. dbDel' \subseteq Users /\ pend' \subseteq Users
      BY <1>22 DEF KickCommand, UserKnown
    <2> QED BY <1>22, <2>1, <2>2, <2>3 DEF KickCommand
  <1>23a. ASSUME NEW c \in Clients, DeluserCommand(c) PROVE TypeOK'
    <2>1. pc' \in [Clients -> ClientPcs]
      BY <1>23a, GotoType DEF DeluserCommand, ClientPcs
    <2>2. dbDel' \subseteq Users /\ pend' \subseteq Users
      BY <1>23a DEF DeluserCommand, UserKnown
    <2> QED BY <1>23a, <2>1, <2>2 DEF DeluserCommand
  <1>23. ASSUME NEW c \in Clients, ReaddCommand(c) PROVE TypeOK'
    <2>1. pc' \in [Clients -> ClientPcs]
      BY <1>23, GotoType DEF ReaddCommand, ClientPcs
    <2>2. dbDel' \subseteq Users /\ pend' \subseteq Users
      BY <1>23 DEF ReaddCommand, UserKnown
    <2> QED BY <1>23, <2>1, <2>2 DEF ReaddCommand
  <1>24. ASSUME NEW c \in Clients, ShutdownCommand(c) PROVE TypeOK'
    <2>1. pc' \in [Clients -> ClientPcs]
      BY <1>24, GotoType DEF ShutdownCommand, ClientPcs
    <2>2. queue' \in Seq(Tasks)
      BY <1>24, PushType, TaskType DEF ShutdownCommand, TaskTypes
    <2> QED BY <1>24, <2>1, <2>2 DEF ShutdownCommand
  <1>25. ASSUME NEW c \in Clients, Answered(c) PROVE TypeOK'
    <2>1. pc' \in [Clients -> ClientPcs]
      BY <1>25, GotoType DEF Answered, ClientPcs
    <2> QED BY <1>25, <2>1 DEF Answered
  <1>26. ASSUME NEW c \in Clients, EndCommand(c) PROVE TypeOK'
    BY <1>26 DEF EndCommand, ClientPcs, ServerPcs, States, Faults, AllCommands, Goto, Reply
  <1>27. ASSUME NEW c \in Clients, OnlineIdle(c) PROVE TypeOK'
    BY <1>27 DEF OnlineIdle, Check, ClientPcs, ServerPcs, States, Faults, AllCommands,
       Goto, Reply
  <1>27a. ASSUME NEW c \in Clients, Refused(c) PROVE TypeOK'
    BY <1>27a DEF Refused, Check, ClientPcs, ServerPcs, States, Faults, AllCommands,
       Goto, Reply
  <1>28. ASSUME NEW c \in Clients, Finish(c) PROVE TypeOK'
    BY <1>28 DEF Finish, ClientPcs, ServerPcs, States, Faults, AllCommands, Goto, Reply
  <1>29. ASSUME NEW c \in Clients, ClientLogout1(c) PROVE TypeOK'
    <2>1. pc' \in [Clients -> ClientPcs]
      BY <1>29, GotoType DEF ClientLogout1, ClientPcs
    <2>2. user[c] \in Users
      BY <1>29 DEF ClientLogout1, LoginOwner, UserKnown
    <2>3. count' \in [Users -> Int] /\ global' \in Int
      BY <1>29, <2>2 DEF ClientLogout1, LogoutCount
    <2>4. fault' \in Faults
      BY <1>29 DEF ClientLogout1, LogoutCount, Faults
    <2> QED BY <1>29, <2>1, <2>3, <2>4 DEF ClientLogout1, LogoutCount
  <1>30. ASSUME NEW c \in Clients, ClientLogout2(c) PROVE TypeOK'
    BY <1>30 DEF ClientLogout2, LogoutOnline, ClientPcs, ServerPcs, States, Faults,
       AllCommands, Goto, Reply
  <1>31. ASSUME NEW c \in Clients, PushFinished(c) PROVE TypeOK'
    <2>1. pc' \in [Clients -> ClientPcs]
      BY <1>31, GotoType DEF PushFinished, ClientPcs
    <2>2. queue' \in Seq(Tasks)
      BY <1>31, PushType, TaskType DEF PushFinished, TaskTypes
    <2> QED BY <1>31, <2>1, <2>2 DEF PushFinished
  <1>32. ASSUME NEW c \in Clients, VisitKick(c) PROVE TypeOK'
    BY <1>32 DEF VisitKick, Check, ClientPcs, ServerPcs, States, Faults, AllCommands,
       Goto, Reply
  <1>33. ASSUME NEW c \in Clients, VisitLoginKick(c) PROVE TypeOK'
    BY <1>33 DEF VisitLoginKick, ClientPcs, ServerPcs, States, Faults, AllCommands,
       Goto, Reply
  <1>34. ASSUME NEW c \in Clients, VisitUpdate(c) PROVE TypeOK'
    BY <1>34 DEF VisitUpdate, ClientPcs, ServerPcs, States, Faults, AllCommands, Goto, Reply
  <1>35. ASSUME NEW c \in Clients, StopVisit(c) PROVE TypeOK'
    BY <1>35 DEF StopVisit, ClientPcs, ServerPcs, States, Faults, AllCommands, Goto, Reply
  <1>36. ASSUME NEW u \in Users, Replicate(u) PROVE TypeOK'
    <2>1. queue' \in Seq(Tasks)
      BY <1>36, PushType, TaskType DEF Replicate, TaskTypes
    <2> QED BY <1>36, <2>1 DEF Replicate
  <1>37. ASSUME AcceptClient PROVE TypeOK'
    <2>1. pc' \in [Clients -> ClientPcs]
      BY <1>37, GotoType DEF AcceptClient, ClientPcs
    <2> QED BY <1>37, <2>1 DEF AcceptClient, ServerPcs
  <1>38. ASSUME HandleTasks PROVE TypeOK'
    <2>1. queue # <<>> => Head(queue) \in Tasks /\ Tail(queue) \in Seq(Tasks)
      OBVIOUS
    <2>2. queue' \in Seq(Tasks) /\ task' \in Tasks
      BY <1>38, <2>1 DEF HandleTasks
    <2>3. spc' \in ServerPcs
      BY <1>38 DEF HandleTasks, ServerPcs
    <2>4. todo' \subseteq Clients
      BY <1>38 DEF HandleTasks, Connected
    <2>5. shutdown' \in BOOLEAN
      BY <1>38 DEF HandleTasks
    <2> QED BY <1>38, <2>2, <2>3, <2>4, <2>5 DEF HandleTasks
  <1>39. ASSUME PollNoTasks PROVE TypeOK'
    BY <1>39 DEF PollNoTasks, ClientPcs, ServerPcs, States, Faults, AllCommands, Goto, Reply
  <1>40. ASSUME PollTasks PROVE TypeOK'
    BY <1>40 DEF PollTasks, ClientPcs, ServerPcs, States, Faults, AllCommands, Goto, Reply
  <1>41. ASSUME VisitEnd PROVE TypeOK'
    <2>0. task.type # "UserUpdate" => task.client \in Clients
      BY <1>41 DEF VisitEnd, TaskInv, TaskFits
    <2>1. pc' \in [Clients -> ClientPcs]
      BY <1>41, <2>0, GotoType DEF VisitEnd, ClientPcs
    <2>2. kicked' \in [Clients -> BOOLEAN]
      <3>1. (hit /\ task.type = "LoginKick") \in BOOLEAN
        OBVIOUS
      <3>2. [kicked EXCEPT ![task.client] = hit /\ task.type = "LoginKick"]
              \in [Clients -> BOOLEAN]
        BY <3>1, BooleanUpdate
      <3>3. \/ kicked' = kicked
            \/ kicked' = [kicked EXCEPT ![task.client] = hit /\ task.type = "LoginKick"]
        BY <1>41 DEF VisitEnd
      <3> QED BY <3>2, <3>3
    <2>3. spc' \in ServerPcs
      BY <1>41 DEF VisitEnd, ServerPcs
    <2>4. task' \in Tasks
      BY <1>41, TaskType DEF VisitEnd, NoTask, TaskTypes
    <2>5. todo' \subseteq Clients
      BY <1>41 DEF VisitEnd, Connected
    <2>6. cand' \in Clients \cup {None} /\ hit' \in BOOLEAN
      BY <1>41 DEF VisitEnd
    <2> QED BY <1>41, <2>1, <2>2, <2>3, <2>4, <2>5, <2>6 DEF VisitEnd
  <1>42. ASSUME InterruptState PROVE TypeOK'
    BY <1>42 DEF InterruptState, States, ServerPcs
  <1>43. ASSUME ServerLogout1 PROVE TypeOK'
    <2>1. cand \in Clients /\ user[cand] \in Users
      BY <1>43 DEF ServerLogout1, TaskInv, LoginOwner, ServerLogsOut, UserKnown
    <2>2. count' \in [Users -> Int] /\ global' \in Int
      BY <1>43, <2>1 DEF ServerLogout1, LogoutCount
    <2>3. fault' \in Faults
      BY <1>43 DEF ServerLogout1, LogoutCount, Faults
    <2> QED BY <1>43, <2>2, <2>3 DEF ServerLogout1, LogoutCount, ServerPcs
  <1>44. ASSUME ServerLogout2 PROVE TypeOK'
    BY <1>44 DEF ServerLogout2, LogoutOnline, ServerPcs
  <1>45. ASSUME InterruptShut PROVE TypeOK'
    BY <1>45 DEF InterruptShut, NoTask, Task, ClientPcs, ServerPcs, States, Faults,
       AllCommands, Goto, Reply
  <1>46. ASSUME CleanupClient PROVE TypeOK'
    <2>0. task.client \in Clients /\ ~guard[task.client]
      BY <1>46, DoneIsIdle DEF CleanupClient, TaskInv, TaskFits
    <2>1. {task.client} \in SUBSET Clients /\ \A c \in {task.client} : ~guard[c]
      BY <2>0
    <2>2. count' = count /\ global' = global /\ online' = online /\ guard' = guard
      BY <1>46, <2>1, DestroyIdle DEF CleanupClient
    <2>3. task' \in Tasks /\ spc' \in ServerPcs /\ fault' \in Faults
      BY <1>46, TaskType DEF CleanupClient, Check, Faults, NoTask, TaskTypes, ServerPcs
    <2> QED BY <1>46, <2>1, <2>2, <2>3, DestroyType DEF CleanupClient, Destroy
  <1>47. ASSUME StopClients PROVE TypeOK'
    BY <1>47 DEF StopClients, Connected, ClientPcs, ServerPcs, States, Faults,
       AllCommands, Goto, Reply
  <1>48. ASSUME JoinClients PROVE TypeOK'
    <2>1. Connected \in SUBSET Clients /\ \A c \in Connected : ~guard[c]
      BY <1>48, DoneIsIdle DEF JoinClients, Connected
    <2>2. count' = count /\ global' = global /\ online' = online /\ guard' = guard
      BY <1>48, <2>1, DestroyIdle DEF JoinClients
    <2> QED BY <1>48, <2>1, <2>2, DestroyType DEF JoinClients, Destroy, ServerPcs
  <1>49. ASSUME ExitSignal PROVE TypeOK'
    <2>1. queue' \in Seq(Tasks)
      BY <1>49, PushType, TaskType DEF ExitSignal, TaskTypes
    <2> QED BY <1>49, <2>1 DEF ExitSignal
  <1>50. CASE UNCHANGED vars
    BY <1>50 DEF vars
  <1> QED BY <1>1, <1>2, <1>3, <1>4, <1>5, <1>6, <1>7, <1>8, <1>9, <1>10, <1>11, <1>12,
             <1>13, <1>14, <1>15, <1>16, <1>17, <1>18, <1>19, <1>20, <1>21, <1>22,
             <1>23a, <1>23, <1>24, <1>25, <1>26, <1>27, <1>27a, <1>28, <1>29, <1>30, <1>31,
             <1>32, <1>33, <1>34, <1>35, <1>36, <1>37, <1>38, <1>39, <1>40, <1>41,
             <1>42, <1>43, <1>44, <1>45, <1>46, <1>47, <1>48, <1>49, <1>50 DEF Next,
             ClientRun, ClientRead, ServerRun

\* Who holds a login stays settled by every step.
LEMMA OwnerStep ==
  ASSUME TypeOK, LoginOwner, UserKnown, TaskInv, [Next]_vars
  PROVE  LoginOwner'
PROOF
  <1> USE NoneAssumption
      DEF Goto, Reply, sessVars, loginVars, cmdVars, acctVars, dbVars, srvVars
  <1>1. ASSUME NEW c \in Clients, InnerRun(c) PROVE LoginOwner'
    BY <1>1 DEF InnerRun, TypeOK, LoginOwner, InLogin, ServerLogsOut
  <1>2. ASSUME NEW c \in Clients, HandleLoop(c) PROVE LoginOwner'
    BY <1>2 DEF HandleLoop, TypeOK, LoginOwner, InLogin, ServerLogsOut
  <1>3. ASSUME NEW c \in Clients, NextCommand(c) PROVE LoginOwner'
    BY <1>3 DEF NextCommand, TypeOK, LoginOwner, InLogin, ServerLogsOut
  <1>4. ASSUME NEW c \in Clients, ReadFails(c) PROVE LoginOwner'
    BY <1>4 DEF ReadFails, TypeOK, LoginOwner, InLogin, ServerLogsOut
  <1>5. ASSUME NEW c \in Clients, ReloadUser(c) PROVE LoginOwner'
    BY <1>5 DEF ReloadUser, TypeOK, LoginOwner, InLogin, ServerLogsOut
  <1>6. ASSUME NEW c \in Clients, ReloadLoad(c) PROVE LoginOwner'
    BY <1>6 DEF ReloadLoad, TypeOK, LoginOwner, InLogin, ServerLogsOut
  <1>7. ASSUME NEW c \in Clients, BeginCommand(c) PROVE LoginOwner'
    BY <1>7 DEF BeginCommand, TypeOK, LoginOwner, InLogin, ServerLogsOut
  <1>8. ASSUME NEW c \in Clients, OnlineCommand(c) PROVE LoginOwner'
    BY <1>8 DEF OnlineCommand, Check, TypeOK, LoginOwner, InLogin, ServerLogsOut
  <1>9. ASSUME NEW c \in Clients, CheckState(c) PROVE LoginOwner'
    BY <1>9 DEF CheckState, RequiredState, Check, TypeOK, LoginOwner, InLogin, ServerLogsOut
  <1>10. ASSUME NEW c \in Clients, UserLoad(c) PROVE LoginOwner'
    BY <1>10 DEF UserLoad, TypeOK, LoginOwner, InLogin, ServerLogsOut
  <1>11. ASSUME NEW c \in Clients, SetWaitingPassword(c) PROVE LoginOwner'
    BY <1>11 DEF SetWaitingPassword, TypeOK, LoginOwner, InLogin, ServerLogsOut
  <1>12. ASSUME NEW c \in Clients, PassCheck(c) PROVE LoginOwner'
    BY <1>12 DEF PassCheck, VerifyPassword, TypeOK, LoginOwner, InLogin, ServerLogsOut
  <1>13. ASSUME NEW c \in Clients, SetLoggedOut(c) PROVE LoginOwner'
    BY <1>13 DEF SetLoggedOut, TypeOK, LoginOwner, InLogin, ServerLogsOut
  <1>14. ASSUME NEW c \in Clients, PassKick(c) PROVE LoginOwner'
    BY <1>14 DEF PassKick, Push, LoginsUsed, Task, TypeOK, LoginOwner, InLogin,
       ServerLogsOut
  <1>15. ASSUME NEW c \in Clients, LoginStart(c) PROVE LoginOwner'
    BY <1>15 DEF LoginStart, StartFails, TypeOK, LoginOwner, InLogin, ServerLogsOut
  <1>16. ASSUME NEW c \in Clients, LoginOnline(c) PROVE LoginOwner'
    BY <1>16 DEF LoginOnline, TypeOK, LoginOwner, InLogin, ServerLogsOut
  <1>17. ASSUME NEW c \in Clients, LoginState(c) PROVE LoginOwner'
    BY <1>17 DEF LoginState, TypeOK, LoginOwner, InLogin, ServerLogsOut
  <1>18. ASSUME NEW c \in Clients, PlainCommand(c) PROVE LoginOwner'
    BY <1>18 DEF PlainCommand, TypeOK, LoginOwner, InLogin, ServerLogsOut
  <1>19. ASSUME NEW c \in Clients, QuitCommand(c) PROVE LoginOwner'
    BY <1>19 DEF QuitCommand, TypeOK, LoginOwner, InLogin, ServerLogsOut
  <1>20. ASSUME NEW c \in Clients, StartTransfer(c) PROVE LoginOwner'
    BY <1>20 DEF StartTransfer, Check, TypeOK, LoginOwner, InLogin, ServerLogsOut
  <1>21. ASSUME NEW c \in Clients, StopTransfer(c) PROVE LoginOwner'
    BY <1>21 DEF StopTransfer, Check, TypeOK, LoginOwner, InLogin, ServerLogsOut
  <1>22. ASSUME NEW c \in Clients, KickCommand(c) PROVE LoginOwner'
    BY <1>22 DEF KickCommand, Push, Task, TypeOK, LoginOwner, InLogin, ServerLogsOut
  <1>23a. ASSUME NEW c \in Clients, DeluserCommand(c) PROVE LoginOwner'
    BY <1>23a DEF DeluserCommand, TypeOK, LoginOwner, InLogin, ServerLogsOut
  <1>23. ASSUME NEW c \in Clients, ReaddCommand(c) PROVE LoginOwner'
    BY <1>23 DEF ReaddCommand, TypeOK, LoginOwner, InLogin, ServerLogsOut
  <1>24. ASSUME NEW c \in Clients, ShutdownCommand(c) PROVE LoginOwner'
    BY <1>24 DEF ShutdownCommand, Push, Task, TypeOK, LoginOwner, InLogin, ServerLogsOut
  <1>25. ASSUME NEW c \in Clients, Answered(c) PROVE LoginOwner'
    BY <1>25 DEF Answered, TypeOK, LoginOwner, InLogin, ServerLogsOut
  <1>26. ASSUME NEW c \in Clients, EndCommand(c) PROVE LoginOwner'
    BY <1>26 DEF EndCommand, TypeOK, LoginOwner, InLogin, ServerLogsOut
  <1>27. ASSUME NEW c \in Clients, OnlineIdle(c) PROVE LoginOwner'
    BY <1>27 DEF OnlineIdle, Check, TypeOK, LoginOwner, InLogin, ServerLogsOut
  <1>27a. ASSUME NEW c \in Clients, Refused(c) PROVE LoginOwner'
    BY <1>27a DEF Refused, Check, TypeOK, LoginOwner, InLogin, ServerLogsOut
  <1>28. ASSUME NEW c \in Clients, Finish(c) PROVE LoginOwner'
    BY <1>28 DEF Finish, TypeOK, LoginOwner, InLogin, ServerLogsOut
  <1>29. ASSUME NEW c \in Clients, ClientLogout1(c) PROVE LoginOwner'
    BY <1>29 DEF ClientLogout1, LogoutCount, TypeOK, LoginOwner, InLogin, ServerLogsOut
  <1>30. ASSUME NEW c \in Clients, ClientLogout2(c) PROVE LoginOwner'
    BY <1>30 DEF ClientLogout2, LogoutOnline, TypeOK, LoginOwner, InLogin, ServerLogsOut
  <1>31. ASSUME NEW c \in Clients, PushFinished(c) PROVE LoginOwner'
    BY <1>31 DEF PushFinished, Push, Task, TypeOK, LoginOwner, InLogin, ServerLogsOut
  <1>32. ASSUME NEW c \in Clients, VisitKick(c) PROVE LoginOwner'
    BY <1>32 DEF VisitKick, Check, TypeOK, LoginOwner, InLogin, ServerLogsOut, TaskInv
  <1>33. ASSUME NEW c \in Clients, VisitLoginKick(c) PROVE LoginOwner'
    BY <1>33 DEF VisitLoginKick, TypeOK, LoginOwner, InLogin, ServerLogsOut
  <1>34. ASSUME NEW c \in Clients, VisitUpdate(c) PROVE LoginOwner'
    BY <1>34 DEF VisitUpdate, TypeOK, LoginOwner, InLogin, ServerLogsOut
  <1>35. ASSUME NEW c \in Clients, StopVisit(c) PROVE LoginOwner'
    BY <1>35 DEF StopVisit, TypeOK, LoginOwner, InLogin, ServerLogsOut, TaskInv
  <1>36. ASSUME NEW u \in Users, Replicate(u) PROVE LoginOwner'
    BY <1>36 DEF Replicate, Push, Task, TypeOK, LoginOwner, InLogin, ServerLogsOut
  <1>37. ASSUME AcceptClient PROVE LoginOwner'
    BY <1>37 DEF AcceptClient, TypeOK, LoginOwner, InLogin, ServerLogsOut, TaskInv
  <1>38. ASSUME HandleTasks PROVE LoginOwner'
    BY <1>38 DEF HandleTasks, Connected, TypeOK, LoginOwner, InLogin, ServerLogsOut
  <1>39. ASSUME PollNoTasks PROVE LoginOwner'
    BY <1>39 DEF PollNoTasks, TypeOK, LoginOwner, InLogin, ServerLogsOut
  <1>40. ASSUME PollTasks PROVE LoginOwner'
    BY <1>40 DEF PollTasks, TypeOK, LoginOwner, InLogin, ServerLogsOut
  <1>41. ASSUME VisitEnd PROVE LoginOwner'
    BY <1>41 DEF VisitEnd, Connected, NoTask, Task, TypeOK, LoginOwner, InLogin,
       ServerLogsOut, TaskInv, TaskFits
  <1>42. ASSUME InterruptState PROVE LoginOwner'
    BY <1>42 DEF InterruptState, TypeOK, LoginOwner, InLogin, ServerLogsOut, TaskInv
  <1>43. ASSUME ServerLogout1 PROVE LoginOwner'
    BY <1>43 DEF ServerLogout1, LogoutCount, TypeOK, LoginOwner, InLogin, ServerLogsOut,
       TaskInv
  <1>44. ASSUME ServerLogout2 PROVE LoginOwner'
    BY <1>44 DEF ServerLogout2, LogoutOnline, TypeOK, LoginOwner, InLogin,
       ServerLogsOut, TaskInv
  <1>45. ASSUME InterruptShut PROVE LoginOwner'
    BY <1>45 DEF InterruptShut, NoTask, Task, TypeOK, LoginOwner, InLogin,
       ServerLogsOut, TaskInv
  <1>46. ASSUME CleanupClient PROVE LoginOwner'
    BY <1>46 DEF CleanupClient, Destroy, NoTask, Task, Check, TypeOK, LoginOwner,
       InLogin, ServerLogsOut, TaskInv, TaskFits
  <1>47. ASSUME StopClients PROVE LoginOwner'
    BY <1>47 DEF StopClients, Connected, TypeOK, LoginOwner, InLogin, ServerLogsOut
  <1>48. ASSUME JoinClients PROVE LoginOwner'
    BY <1>48 DEF JoinClients, Destroy, Connected, NoTask, Task, TypeOK, LoginOwner,
       InLogin, ServerLogsOut
  <1>49. ASSUME ExitSignal PROVE LoginOwner'
    BY <1>49 DEF ExitSignal, Push, Task, TypeOK, LoginOwner, InLogin, ServerLogsOut
  <1>50. CASE UNCHANGED vars
    BY <1>50 DEF vars, TypeOK, LoginOwner, InLogin, ServerLogsOut
  <1> QED BY <1>1, <1>2, <1>3, <1>4, <1>5, <1>6, <1>7, <1>8, <1>9, <1>10, <1>11, <1>12,
             <1>13, <1>14, <1>15, <1>16, <1>17, <1>18, <1>19, <1>20, <1>21, <1>22,
             <1>23a, <1>23, <1>24, <1>25, <1>26, <1>27, <1>27a, <1>28, <1>29, <1>30, <1>31,
             <1>32, <1>33, <1>34, <1>35, <1>36, <1>37, <1>38, <1>39, <1>40, <1>41,
             <1>42, <1>43, <1>44, <1>45, <1>46, <1>47, <1>48, <1>49, <1>50 DEF Next,
             ClientRun, ClientRead, ServerRun

\* A client that waits for its password or logs in keeps having a user.
LEMMA UserStep ==
  ASSUME TypeOK, LoginOwner, UserKnown, TaskInv, [Next]_vars
  PROVE  UserKnown'
PROOF
  <1> USE NoneAssumption, BoundAssumption
      DEF Goto, Reply, sessVars, loginVars, cmdVars, acctVars, dbVars, srvVars
  <1>1. ASSUME NEW c \in Clients, InnerRun(c) PROVE UserKnown'
    BY <1>1 DEF InnerRun, TypeOK, LoginOwner, UserKnown, InLogin
  <1>2. ASSUME NEW c \in Clients, HandleLoop(c) PROVE UserKnown'
    BY <1>2 DEF HandleLoop, TypeOK, LoginOwner, UserKnown, InLogin
  <1>3. ASSUME NEW c \in Clients, NextCommand(c) PROVE UserKnown'
    BY <1>3 DEF NextCommand, TypeOK, LoginOwner, UserKnown, InLogin
  <1>4. ASSUME NEW c \in Clients, ReadFails(c) PROVE UserKnown'
    BY <1>4 DEF ReadFails, TypeOK, LoginOwner, UserKnown, InLogin
  <1>5. ASSUME NEW c \in Clients, ReloadUser(c) PROVE UserKnown'
    BY <1>5 DEF ReloadUser, TypeOK, LoginOwner, UserKnown, InLogin
  <1>6. ASSUME NEW c \in Clients, ReloadLoad(c) PROVE UserKnown'
    BY <1>6 DEF ReloadLoad, TypeOK, LoginOwner, UserKnown, InLogin
  <1>7. ASSUME NEW c \in Clients, BeginCommand(c) PROVE UserKnown'
    BY <1>7 DEF BeginCommand, TypeOK, LoginOwner, UserKnown, InLogin
  <1>8. ASSUME NEW c \in Clients, OnlineCommand(c) PROVE UserKnown'
    BY <1>8 DEF OnlineCommand, Check, TypeOK, LoginOwner, UserKnown, InLogin
  <1>9. ASSUME NEW c \in Clients, CheckState(c) PROVE UserKnown'
    BY <1>9 DEF CheckState, RequiredState, Check, TypeOK, LoginOwner, UserKnown, InLogin
  <1>10. ASSUME NEW c \in Clients, UserLoad(c) PROVE UserKnown'
    BY <1>10 DEF UserLoad, TypeOK, LoginOwner, UserKnown, InLogin
  <1>11. ASSUME NEW c \in Clients, SetWaitingPassword(c) PROVE UserKnown'
    BY <1>11 DEF SetWaitingPassword, TypeOK, LoginOwner, UserKnown, InLogin
  <1>12. ASSUME NEW c \in Clients, PassCheck(c) PROVE UserKnown'
    BY <1>12 DEF PassCheck, VerifyPassword, TypeOK, LoginOwner, UserKnown, InLogin
  <1>13. ASSUME NEW c \in Clients, SetLoggedOut(c) PROVE UserKnown'
    BY <1>13 DEF SetLoggedOut, TypeOK, LoginOwner, UserKnown, InLogin
  <1>14. ASSUME NEW c \in Clients, PassKick(c) PROVE UserKnown'
    BY <1>14 DEF PassKick, Push, LoginsUsed, Task, TypeOK, LoginOwner, UserKnown, InLogin
  <1>15. ASSUME NEW c \in Clients, LoginStart(c) PROVE UserKnown'
    BY <1>15 DEF LoginStart, StartFails, TypeOK, LoginOwner, UserKnown, InLogin
  <1>16. ASSUME NEW c \in Clients, LoginOnline(c) PROVE UserKnown'
    BY <1>16 DEF LoginOnline, TypeOK, LoginOwner, UserKnown, InLogin
  <1>17. ASSUME NEW c \in Clients, LoginState(c) PROVE UserKnown'
    BY <1>17 DEF LoginState, TypeOK, LoginOwner, UserKnown, InLogin
  <1>18. ASSUME NEW c \in Clients, PlainCommand(c) PROVE UserKnown'
    BY <1>18 DEF PlainCommand, TypeOK, LoginOwner, UserKnown, InLogin
  <1>19. ASSUME NEW c \in Clients, QuitCommand(c) PROVE UserKnown'
    BY <1>19 DEF QuitCommand, TypeOK, LoginOwner, UserKnown, InLogin
  <1>20. ASSUME NEW c \in Clients, StartTransfer(c) PROVE UserKnown'
    BY <1>20 DEF StartTransfer, Check, TypeOK, LoginOwner, UserKnown, InLogin
  <1>21. ASSUME NEW c \in Clients, StopTransfer(c) PROVE UserKnown'
    BY <1>21 DEF StopTransfer, Check, TypeOK, LoginOwner, UserKnown, InLogin
  <1>22. ASSUME NEW c \in Clients, KickCommand(c) PROVE UserKnown'
    BY <1>22 DEF KickCommand, Push, Task, TypeOK, LoginOwner, UserKnown, InLogin
  <1>23a. ASSUME NEW c \in Clients, DeluserCommand(c) PROVE UserKnown'
    BY <1>23a DEF DeluserCommand, TypeOK, LoginOwner, UserKnown, InLogin
  <1>23. ASSUME NEW c \in Clients, ReaddCommand(c) PROVE UserKnown'
    BY <1>23 DEF ReaddCommand, TypeOK, LoginOwner, UserKnown, InLogin
  <1>24. ASSUME NEW c \in Clients, ShutdownCommand(c) PROVE UserKnown'
    BY <1>24 DEF ShutdownCommand, Push, Task, TypeOK, LoginOwner, UserKnown, InLogin
  <1>25. ASSUME NEW c \in Clients, Answered(c) PROVE UserKnown'
    BY <1>25 DEF Answered, TypeOK, LoginOwner, UserKnown, InLogin
  <1>26. ASSUME NEW c \in Clients, EndCommand(c) PROVE UserKnown'
    BY <1>26 DEF EndCommand, TypeOK, LoginOwner, UserKnown, InLogin
  <1>27. ASSUME NEW c \in Clients, OnlineIdle(c) PROVE UserKnown'
    BY <1>27 DEF OnlineIdle, Check, TypeOK, LoginOwner, UserKnown, InLogin
  <1>27a. ASSUME NEW c \in Clients, Refused(c) PROVE UserKnown'
    BY <1>27a DEF Refused, Check, TypeOK, LoginOwner, UserKnown, InLogin
  <1>28. ASSUME NEW c \in Clients, Finish(c) PROVE UserKnown'
    BY <1>28 DEF Finish, TypeOK, LoginOwner, UserKnown, InLogin
  <1>29. ASSUME NEW c \in Clients, ClientLogout1(c) PROVE UserKnown'
    BY <1>29 DEF ClientLogout1, LogoutCount, TypeOK, LoginOwner, UserKnown, InLogin
  <1>30. ASSUME NEW c \in Clients, ClientLogout2(c) PROVE UserKnown'
    BY <1>30 DEF ClientLogout2, LogoutOnline, TypeOK, LoginOwner, UserKnown, InLogin
  <1>31. ASSUME NEW c \in Clients, PushFinished(c) PROVE UserKnown'
    BY <1>31 DEF PushFinished, Push, Task, TypeOK, LoginOwner, UserKnown, InLogin
  <1>32. ASSUME NEW c \in Clients, VisitKick(c) PROVE UserKnown'
    BY <1>32 DEF VisitKick, Check, TypeOK, LoginOwner, UserKnown, InLogin
  <1>33. ASSUME NEW c \in Clients, VisitLoginKick(c) PROVE UserKnown'
    BY <1>33 DEF VisitLoginKick, TypeOK, LoginOwner, UserKnown, InLogin
  <1>34. ASSUME NEW c \in Clients, VisitUpdate(c) PROVE UserKnown'
    BY <1>34 DEF VisitUpdate, TypeOK, LoginOwner, UserKnown, InLogin
  <1>35. ASSUME NEW c \in Clients, StopVisit(c) PROVE UserKnown'
    BY <1>35 DEF StopVisit, TypeOK, LoginOwner, UserKnown, InLogin
  <1>36. ASSUME NEW u \in Users, Replicate(u) PROVE UserKnown'
    BY <1>36 DEF Replicate, Push, Task, TypeOK, LoginOwner, UserKnown, InLogin
  <1>37. ASSUME AcceptClient PROVE UserKnown'
    BY <1>37 DEF AcceptClient, TypeOK, LoginOwner, UserKnown, InLogin
  <1>38. ASSUME HandleTasks PROVE UserKnown'
    BY <1>38 DEF HandleTasks, Connected, TypeOK, LoginOwner, UserKnown, InLogin
  <1>39. ASSUME PollNoTasks PROVE UserKnown'
    BY <1>39 DEF PollNoTasks, TypeOK, LoginOwner, UserKnown, InLogin
  <1>40. ASSUME PollTasks PROVE UserKnown'
    BY <1>40 DEF PollTasks, TypeOK, LoginOwner, UserKnown, InLogin
  <1>41. ASSUME VisitEnd PROVE UserKnown'
    BY <1>41 DEF VisitEnd, Connected, NoTask, Task, TypeOK, LoginOwner, UserKnown,
       InLogin, TaskInv, TaskFits
  <1>42. ASSUME InterruptState PROVE UserKnown'
    BY <1>42 DEF InterruptState, TypeOK, LoginOwner, UserKnown, InLogin
  <1>43. ASSUME ServerLogout1 PROVE UserKnown'
    BY <1>43 DEF ServerLogout1, LogoutCount, TypeOK, LoginOwner, UserKnown, InLogin
  <1>44. ASSUME ServerLogout2 PROVE UserKnown'
    BY <1>44 DEF ServerLogout2, LogoutOnline, TypeOK, LoginOwner, UserKnown, InLogin
  <1>45. ASSUME InterruptShut PROVE UserKnown'
    BY <1>45 DEF InterruptShut, NoTask, Task, TypeOK, LoginOwner, UserKnown, InLogin
  <1>46. ASSUME CleanupClient PROVE UserKnown'
    BY <1>46 DEF CleanupClient, Destroy, NoTask, Task, Check, TypeOK, LoginOwner,
       UserKnown, InLogin, TaskInv, TaskFits
  <1>47. ASSUME StopClients PROVE UserKnown'
    BY <1>47 DEF StopClients, Connected, TypeOK, LoginOwner, UserKnown, InLogin
  <1>48. ASSUME JoinClients PROVE UserKnown'
    BY <1>48 DEF JoinClients, Destroy, Connected, NoTask, Task, TypeOK, LoginOwner,
       UserKnown, InLogin
  <1>49. ASSUME ExitSignal PROVE UserKnown'
    BY <1>49 DEF ExitSignal, Push, Task, TypeOK, LoginOwner, UserKnown, InLogin
  <1>50. CASE UNCHANGED vars
    BY <1>50 DEF vars, TypeOK, LoginOwner, UserKnown, InLogin
  <1> QED BY <1>1, <1>2, <1>3, <1>4, <1>5, <1>6, <1>7, <1>8, <1>9, <1>10, <1>11, <1>12,
             <1>13, <1>14, <1>15, <1>16, <1>17, <1>18, <1>19, <1>20, <1>21, <1>22,
             <1>23a, <1>23, <1>24, <1>25, <1>26, <1>27, <1>27a, <1>28, <1>29, <1>30, <1>31,
             <1>32, <1>33, <1>34, <1>35, <1>36, <1>37, <1>38, <1>39, <1>40, <1>41,
             <1>42, <1>43, <1>44, <1>45, <1>46, <1>47, <1>48, <1>49, <1>50 DEF Next,
             ClientRun, ClientRead, ServerRun

\* The push of a task for the client whose thread pushes it, or for none,
\* keeps the tasks apart: no earlier task can be for that client, as its
\* thread neither waited nor had ended.
LEMMA PushKeepsTasks ==
  ASSUME TypeOK, TaskInv, NEW c \in Clients, NEW l \in ClientPcs \ {"none"},
         NEW t \in Tasks, pc[c] \notin {"none", "wait", "done"},
         Goto(c, l), Push(t), UNCHANGED srvVars,
         TaskFits(t)', t.client \in {c, None}
  PROVE  TaskInv'
PROOF
  <1> USE NoneAssumption DEF srvVars, TypeOK
  <1> DEFINE New == Len(queue) + 1
  <1>1. \A i \in DOMAIN queue' :
          \/ i \in DOMAIN queue /\ queue'[i] = queue[i]
          \/ i = New /\ i \notin DOMAIN queue /\ queue'[i] = t
    BY PushCases
  <1>0. New \notin DOMAIN queue
    OBVIOUS
  <1> DEFINE Fits(s) ==
        /\ s.type \in {"Kick", "LoginKick"} => s.client \in Clients /\ pc'[s.client] = "wait"
        /\ s.type = "ClientFinished" => s.client \in Clients /\ pc'[s.client] = "done"
        /\ s.type = "UserUpdate" => s.client = None
        /\ s.type = "Exit" => s = NoTask
  <1>2. \A s \in Tasks : TaskFits(s) => s.client # c /\ Fits(s)
    BY DEF TaskFits, Tasks, TaskTypes, NoTask, Task, Goto
  <1>3. Fits(t)
    BY DEF TaskFits
  <1> HIDE DEF New, Fits
  <1>4. ASSUME spc # "exited"
        PROVE  /\ Fits(task)
               /\ \A i \in DOMAIN queue' :
                    /\ Fits(queue'[i])
                    /\ queue'[i].client # None => queue'[i].client # task.client
               /\ \A i, j \in DOMAIN queue' :
                    queue'[i].client = queue'[j].client /\ i # j => queue'[i].client = None
    <2>1. Fits(task) /\ task.client # c
      BY <1>2, <1>4 DEF TaskInv
    <2>2. \A k \in DOMAIN queue : Fits(queue[k]) /\ queue[k].client # c
      <3> TAKE k \in DOMAIN queue
      <3>1. queue[k] \in Tasks
        OBVIOUS
      <3> QED BY <1>2, <1>4, <3>1 DEF TaskInv
    <2>3. ASSUME NEW i \in DOMAIN queue'
          PROVE  Fits(queue'[i]) /\ (queue'[i].client # None => queue'[i].client # task.client)
      BY <1>1, <1>3, <1>4, <2>1, <2>2 DEF TaskInv
    <2>4. ASSUME NEW i \in DOMAIN queue', NEW j \in DOMAIN queue',
                 queue'[i].client = queue'[j].client, i # j
          PROVE  queue'[i].client = None
      <3>1. CASE i = New \/ j = New
        BY <1>0, <1>1, <2>2, <2>4, <3>1
      <3>2. CASE i \in DOMAIN queue /\ j \in DOMAIN queue
        BY <1>1, <1>4, <2>4, <3>2 DEF TaskInv, New
      <3> QED BY <1>1, <3>1, <3>2
    <2> QED BY <2>1, <2>3, <2>4
  <1>5. TaskInv!2' /\ TaskInv!3' /\ TaskInv!4' /\ TaskInv!5'
        /\ TaskInv!6' /\ TaskInv!7' /\ TaskInv!8' /\ TaskInv!9'
    BY DEF TaskInv, Goto
  <1> QED BY <1>4, <1>5 DEF TaskInv, TaskFits, Fits

\* Every step keeps the tasks fitting their clients, and apart.
LEMMA TaskStep ==
  ASSUME TypeOK, LoginOwner, UserKnown, TaskInv, [Next]_vars
  PROVE  TaskInv'
PROOF
  <1> USE NoneAssumption
      DEF Goto, Reply, sessVars, loginVars, cmdVars, acctVars, dbVars, srvVars
  <1>1. ASSUME NEW c \in Clients, InnerRun(c) PROVE TaskInv'
    BY <1>1 DEF InnerRun, TypeOK, TaskInv, TaskFits
  <1>2. ASSUME NEW c \in Clients, HandleLoop(c) PROVE TaskInv'
    BY <1>2 DEF HandleLoop, TypeOK, TaskInv, TaskFits
  <1>3. ASSUME NEW c \in Clients, NextCommand(c) PROVE TaskInv'
    BY <1>3 DEF NextCommand, TypeOK, TaskInv, TaskFits
  <1>4. ASSUME NEW c \in Clients, ReadFails(c) PROVE TaskInv'
    BY <1>4 DEF ReadFails, TypeOK, TaskInv, TaskFits
  <1>5. ASSUME NEW c \in Clients, ReloadUser(c) PROVE TaskInv'
    BY <1>5 DEF ReloadUser, TypeOK, TaskInv, TaskFits
  <1>6. ASSUME NEW c \in Clients, ReloadLoad(c) PROVE TaskInv'
    BY <1>6 DEF ReloadLoad, TypeOK, TaskInv, TaskFits
  <1>7. ASSUME NEW c \in Clients, BeginCommand(c) PROVE TaskInv'
    BY <1>7 DEF BeginCommand, TypeOK, TaskInv, TaskFits
  <1>8. ASSUME NEW c \in Clients, OnlineCommand(c) PROVE TaskInv'
    BY <1>8 DEF OnlineCommand, Check, TypeOK, TaskInv, TaskFits
  <1>9. ASSUME NEW c \in Clients, CheckState(c) PROVE TaskInv'
    BY <1>9 DEF CheckState, RequiredState, Check, TypeOK, TaskInv, TaskFits
  <1>10. ASSUME NEW c \in Clients, UserLoad(c) PROVE TaskInv'
    BY <1>10 DEF UserLoad, TypeOK, TaskInv, TaskFits
  <1>11. ASSUME NEW c \in Clients, SetWaitingPassword(c) PROVE TaskInv'
    BY <1>11 DEF SetWaitingPassword, TypeOK, TaskInv, TaskFits
  <1>12. ASSUME NEW c \in Clients, PassCheck(c) PROVE TaskInv'
    BY <1>12 DEF PassCheck, VerifyPassword, TypeOK, TaskInv, TaskFits
  <1>13. ASSUME NEW c \in Clients, SetLoggedOut(c) PROVE TaskInv'
    BY <1>13 DEF SetLoggedOut, TypeOK, TaskInv, TaskFits
  <1>14. ASSUME NEW c \in Clients, PassKick(c) PROVE TaskInv'
    <2>1. CASE UNCHANGED queue /\ Goto(c, "login1")
      BY <1>14, <2>1 DEF PassKick, TypeOK, TaskInv, TaskFits
    <2>2. CASE Push(Task("LoginKick", user[c], c)) /\ Goto(c, "wait")
      <3>1. Task("LoginKick", user[c], c) \in Tasks
        BY <1>14, TaskType DEF TaskTypes, PassKick, UserKnown
      <3>2. TaskFits(Task("LoginKick", user[c], c))'
        BY <2>2 DEF Task, TaskFits, TypeOK
      <3> QED BY <1>14, <2>2, <3>1, <3>2, PushKeepsTasks DEF PassKick, Task, ClientPcs
    <2> QED BY <1>14, <2>1, <2>2 DEF PassKick
  <1>15. ASSUME NEW c \in Clients, LoginStart(c) PROVE TaskInv'
    BY <1>15 DEF LoginStart, StartFails, TypeOK, TaskInv, TaskFits
  <1>16. ASSUME NEW c \in Clients, LoginOnline(c) PROVE TaskInv'
    BY <1>16 DEF LoginOnline, TypeOK, TaskInv, TaskFits
  <1>17. ASSUME NEW c \in Clients, LoginState(c) PROVE TaskInv'
    BY <1>17 DEF LoginState, TypeOK, TaskInv, TaskFits
  <1>18. ASSUME NEW c \in Clients, PlainCommand(c) PROVE TaskInv'
    BY <1>18 DEF PlainCommand, TypeOK, TaskInv, TaskFits
  <1>19. ASSUME NEW c \in Clients, QuitCommand(c) PROVE TaskInv'
    BY <1>19 DEF QuitCommand, TypeOK, TaskInv, TaskFits
  <1>20. ASSUME NEW c \in Clients, StartTransfer(c) PROVE TaskInv'
    BY <1>20 DEF StartTransfer, Check, TypeOK, TaskInv, TaskFits
  <1>21. ASSUME NEW c \in Clients, StopTransfer(c) PROVE TaskInv'
    BY <1>21 DEF StopTransfer, Check, TypeOK, TaskInv, TaskFits
  <1>22. ASSUME NEW c \in Clients, KickCommand(c) PROVE TaskInv'
    <2>1. CASE UNCHANGED queue
      BY <1>22, <2>1 DEF KickCommand, TypeOK, TaskInv, TaskFits
    <2>2. CASE Push(Task("Kick", arg[c], c)) /\ Goto(c, "wait")
      <3>1. Task("Kick", arg[c], c) \in Tasks
        BY <1>22, TaskType DEF TaskTypes, KickCommand, UserKnown
      <3>2. TaskFits(Task("Kick", arg[c], c))'
        BY <2>2 DEF Task, TaskFits, TypeOK
      <3> QED BY <1>22, <2>2, <3>1, <3>2, PushKeepsTasks DEF KickCommand, Task, ClientPcs
    <2> QED BY <1>22, <2>1, <2>2 DEF KickCommand
  <1>23a. ASSUME NEW c \in Clients, DeluserCommand(c) PROVE TaskInv'
    BY <1>23a DEF DeluserCommand, TypeOK, TaskInv, TaskFits
  <1>23. ASSUME NEW c \in Clients, ReaddCommand(c) PROVE TaskInv'
    BY <1>23 DEF ReaddCommand, TypeOK, TaskInv, TaskFits
  <1>24. ASSUME NEW c \in Clients, ShutdownCommand(c) PROVE TaskInv'
    <2>1. CASE UNCHANGED queue
      BY <1>24, <2>1 DEF ShutdownCommand, TypeOK, TaskInv, TaskFits
    <2>2. CASE Push(Task("Exit", None, None)) /\ Goto(c, "post")
      <3>1. Task("Exit", None, None) \in Tasks
        BY TaskType DEF TaskTypes
      <3> QED BY <1>24, <2>2, <3>1, PushKeepsTasks DEF ShutdownCommand, Task, NoTask,
                 TaskFits, ClientPcs
    <2> QED BY <1>24, <2>1, <2>2 DEF ShutdownCommand
  <1>25. ASSUME NEW c \in Clients, Answered(c) PROVE TaskInv'
    BY <1>25 DEF Answered, TypeOK, TaskInv, TaskFits
  <1>26. ASSUME NEW c \in Clients, EndCommand(c) PROVE TaskInv'
    BY <1>26 DEF EndCommand, TypeOK, TaskInv, TaskFits
  <1>27. ASSUME NEW c \in Clients, OnlineIdle(c) PROVE TaskInv'
    BY <1>27 DEF OnlineIdle, Check, TypeOK, TaskInv, TaskFits
  <1>27a. ASSUME NEW c \in Clients, Refused(c) PROVE TaskInv'
    BY <1>27a DEF Refused, Check, TypeOK, TaskInv, TaskFits
  <1>28. ASSUME NEW c \in Clients, Finish(c) PROVE TaskInv'
    BY <1>28 DEF Finish, TypeOK, TaskInv, TaskFits
  <1>29. ASSUME NEW c \in Clients, ClientLogout1(c) PROVE TaskInv'
    BY <1>29 DEF ClientLogout1, LogoutCount, TypeOK, TaskInv, TaskFits
  <1>30. ASSUME NEW c \in Clients, ClientLogout2(c) PROVE TaskInv'
    BY <1>30 DEF ClientLogout2, LogoutOnline, TypeOK, TaskInv, TaskFits
  <1>31. ASSUME NEW c \in Clients, PushFinished(c) PROVE TaskInv'
    <2>1. Task("ClientFinished", None, c) \in Tasks
      BY TaskType DEF TaskTypes
    <2> QED BY <1>31, <2>1, PushKeepsTasks DEF PushFinished, Task, TaskFits, ClientPcs,
               TypeOK
  <1>32. ASSUME NEW c \in Clients, VisitKick(c) PROVE TaskInv'
    BY <1>32 DEF VisitKick, Check, TypeOK, TaskInv, TaskFits
  <1>33. ASSUME NEW c \in Clients, VisitLoginKick(c) PROVE TaskInv'
    BY <1>33 DEF VisitLoginKick, TypeOK, TaskInv, TaskFits
  <1>34. ASSUME NEW c \in Clients, VisitUpdate(c) PROVE TaskInv'
    BY <1>34 DEF VisitUpdate, TypeOK, TaskInv, TaskFits
  <1>35. ASSUME NEW c \in Clients, StopVisit(c) PROVE TaskInv'
    BY <1>35 DEF StopVisit, TypeOK, TaskInv, TaskFits
  <1>36. ASSUME NEW u \in Users, Replicate(u) PROVE TaskInv'
    BY <1>36 DEF Replicate, Push, Task, TypeOK, TaskInv, TaskFits
  <1>37. ASSUME AcceptClient PROVE TaskInv'
    BY <1>37 DEF AcceptClient, TypeOK, TaskInv, TaskFits
  <1>38. ASSUME HandleTasks PROVE TaskInv'
    <2>1. CASE queue = <<>>
      BY <1>38, <2>1 DEF HandleTasks, TypeOK, TaskInv, TaskFits
    <2>2. CASE queue # <<>>
      <3> DEFINE t == Head(queue)
      <3>1. /\ 1 \in DOMAIN queue /\ t = queue[1] /\ t \in Tasks
            /\ \A i \in DOMAIN queue' :
                 i \in Nat \ {0} /\ i + 1 \in DOMAIN queue /\ queue'[i] = queue[i + 1]
        BY <1>38, <2>2, PopCases DEF HandleTasks, TypeOK
      <3>2. task' = t /\ pc' = pc /\ cand' = cand /\ spc' # "exited" /\ spc = "drain"
        BY <1>38, <2>2 DEF HandleTasks
      <3>3. TaskFits(task)'
        BY <3>1, <3>2 DEF TaskInv, TaskFits
      <3>4. ASSUME NEW i \in DOMAIN queue'
            PROVE  TaskFits(queue[i])' /\ (queue'[i].client # None => queue'[i].client # t.client)
        <4>1. i + 1 \in DOMAIN queue /\ queue'[i] = queue[i + 1] /\ i + 1 # 1
          BY <3>1
        <4> QED BY <3>1, <3>2, <4>1 DEF TaskInv, TaskFits
      <3>5. ASSUME NEW i \in DOMAIN queue', NEW j \in DOMAIN queue',
                   queue'[i].client = queue'[j].client, i # j
            PROVE  queue'[i].client = None
        <4>1. /\ i + 1 \in DOMAIN queue /\ queue'[i] = queue[i + 1]
              /\ j + 1 \in DOMAIN queue /\ queue'[j] = queue[j + 1]
              /\ i + 1 # j + 1
          BY <3>1, <3>5
        <4> QED BY <3>2, <3>5, <4>1 DEF TaskInv
      <3>6. t.type \in TaskTypes
        BY <3>1 DEF Tasks
      <3>7. /\ spc' = "visit" => t.type \in {"Kick", "LoginKick", "UserUpdate"}
            /\ spc' = "join" => t.type = "ClientFinished" /\ todo' = {}
            /\ spc' = "drain" => t.type = "Exit" /\ todo' = {}
            /\ spc' \in {"visit", "join", "drain"}
        BY <1>38, <2>2, <3>6 DEF HandleTasks, TaskTypes
      <3>8. spc' = "drain" => task' = NoTask
        BY <3>1, <3>2, <3>7 DEF TaskInv, TaskFits
      <3>9. \A c \in todo' : pc[c] # "none"
        BY <1>38, <2>2 DEF HandleTasks, Connected
      <3> QED BY <3>2, <3>3, <3>4, <3>5, <3>7, <3>8, <3>9 DEF TaskInv
    <2> QED BY <2>1, <2>2
  <1>39. ASSUME PollNoTasks PROVE TaskInv'
    BY <1>39 DEF PollNoTasks, TypeOK, TaskInv, TaskFits
  <1>40. ASSUME PollTasks PROVE TaskInv'
    BY <1>40 DEF PollTasks, TypeOK, TaskInv, TaskFits
  <1>41. ASSUME VisitEnd PROVE TaskInv'
    BY <1>41 DEF VisitEnd, Connected, NoTask, Task, TypeOK, TaskInv, TaskFits
  <1>42. ASSUME InterruptState PROVE TaskInv'
    BY <1>42 DEF InterruptState, TypeOK, TaskInv, TaskFits
  <1>43. ASSUME ServerLogout1 PROVE TaskInv'
    BY <1>43 DEF ServerLogout1, LogoutCount, TypeOK, TaskInv, TaskFits
  <1>44. ASSUME ServerLogout2 PROVE TaskInv'
    BY <1>44 DEF ServerLogout2, LogoutOnline, TypeOK, TaskInv, TaskFits
  <1>45. ASSUME InterruptShut PROVE TaskInv'
    BY <1>45 DEF InterruptShut, NoTask, Task, TypeOK, TaskInv, TaskFits
  <1>46. ASSUME CleanupClient PROVE TaskInv'
    BY <1>46 DEF CleanupClient, Destroy, NoTask, Task, Check, TypeOK, TaskInv, TaskFits
  <1>47. ASSUME StopClients PROVE TaskInv'
    BY <1>47 DEF StopClients, Connected, TypeOK, TaskInv, TaskFits
  <1>48. ASSUME JoinClients PROVE TaskInv'
    BY <1>48 DEF JoinClients, Destroy, Connected, NoTask, Task, TypeOK, TaskInv, TaskFits
  <1>49. ASSUME ExitSignal PROVE TaskInv'
    BY <1>49 DEF ExitSignal, Push, Task, NoTask, TypeOK, TaskInv, TaskFits
  <1>50. CASE UNCHANGED vars
    BY <1>50 DEF vars, TypeOK, TaskInv, TaskFits
  <1> QED BY <1>1, <1>2, <1>3, <1>4, <1>5, <1>6, <1>7, <1>8, <1>9, <1>10, <1>11, <1>12,
             <1>13, <1>14, <1>15, <1>16, <1>17, <1>18, <1>19, <1>20, <1>21, <1>22,
             <1>23a, <1>23, <1>24, <1>25, <1>26, <1>27, <1>27a, <1>28, <1>29, <1>30, <1>31,
             <1>32, <1>33, <1>34, <1>35, <1>36, <1>37, <1>38, <1>39, <1>40, <1>41,
             <1>42, <1>43, <1>44, <1>45, <1>46, <1>47, <1>48, <1>49, <1>50 DEF Next,
             ClientRun, ClientRead, ServerRun

-----------------------------------------------------------------------------
(* The counters *)

\* The clients counted for a user, and all counted clients.
Holders(u) == {c \in Clients : Counted(c) /\ user[c] = u}
AllHolders == {c \in Clients : Counted(c)}

\* Cardinality of the clients counted is a natural number, 0 for none only.
LEMMA HoldersFinite ==
  ASSUME NEW u \in Users
  PROVE  /\ IsFiniteSet(Holders(u)) /\ IsFiniteSet(AllHolders)
         /\ Cardinality(Holders(u)) \in Nat /\ Cardinality(AllHolders) \in Nat
         /\ Holders(u) # {} => Cardinality(Holders(u)) > 0
         /\ AllHolders # {} => Cardinality(AllHolders) > 0
PROOF
  <1>1. IsFiniteSet(Holders(u)) /\ IsFiniteSet(AllHolders)
    BY FiniteAssumption, FS_Subset DEF Holders, AllHolders
  <1>2. Cardinality(Holders(u)) \in Nat /\ Cardinality(AllHolders) \in Nat
    BY <1>1, FS_CardinalityType
  <1>3. Cardinality(Holders(u)) = 0 <=> Holders(u) = {}
    BY <1>1, FS_EmptySet
  <1>4. Cardinality(AllHolders) = 0 <=> AllHolders = {}
    BY <1>1, FS_EmptySet
  <1> QED BY <1>1, <1>2, <1>3, <1>4

\* A step that changes neither the counters nor who is counted.
LEMMA CountSame ==
  ASSUME LoginCountExact, UNCHANGED <<count, global>>,
         \A c \in Clients : Counted(c)' <=> Counted(c),
         \A c \in Clients : Counted(c) => user'[c] = user[c]
  PROVE  LoginCountExact'
PROOF
  <1>1. \A u \in Users : Holders(u)' = Holders(u)
    BY DEF Holders
  <1>2. AllHolders' = AllHolders
    BY DEF AllHolders
  <1> QED BY <1>1, <1>2 DEF LoginCountExact, Holders, AllHolders

\* LoginCounter::Start for a client that was not counted.
LEMMA CountUp ==
  ASSUME TypeOK, LoginCountExact, NEW c \in Clients, user[c] \in Users,
         user' = user, ~Counted(c), Counted(c)',
         \A d \in Clients \ {c} : Counted(d)' <=> Counted(d),
         count' = [count EXCEPT ![user[c]] = @ + 1], global' = global + 1
  PROVE  LoginCountExact'
PROOF
  <1>1. Holders(user[c])' = Holders(user[c]) \cup {c} /\ c \notin Holders(user[c])
    BY DEF Holders
  <1>2. \A u \in Users \ {user[c]} : Holders(u)' = Holders(u)
    BY DEF Holders
  <1>3. AllHolders' = AllHolders \cup {c} /\ c \notin AllHolders
    BY DEF AllHolders
  <1>4. Cardinality(Holders(user[c])') = Cardinality(Holders(user[c])) + 1
    BY <1>1, HoldersFinite, FS_AddElement
  <1>5. Cardinality(AllHolders') = Cardinality(AllHolders) + 1
    BY <1>3, HoldersFinite, FS_AddElement
  <1>6. \A u \in Users : count'[u] = Cardinality(Holders(u)')
    BY <1>2, <1>4 DEF LoginCountExact, Holders, TypeOK
  <1>7. global' = Cardinality(AllHolders')
    BY <1>5 DEF LoginCountExact, AllHolders
  <1> QED BY <1>6, <1>7 DEF LoginCountExact, Holders, AllHolders

\* LoginCounter::Stop for a client that was counted; its asserts hold.
LEMMA CountDown ==
  ASSUME TypeOK, LoginCountExact, NEW c \in Clients, user[c] \in Users,
         user' = user, Counted(c), ~Counted(c)',
         \A d \in Clients \ {c} : Counted(d)' <=> Counted(d),
         count' = [count EXCEPT ![user[c]] = @ - 1], global' = global - 1
  PROVE  LoginCountExact'
PROOF
  <1>1. Holders(user[c])' = Holders(user[c]) \ {c} /\ c \in Holders(user[c])
    BY DEF Holders
  <1>2. \A u \in Users \ {user[c]} : Holders(u)' = Holders(u)
    BY DEF Holders
  <1>3. AllHolders' = AllHolders \ {c} /\ c \in AllHolders
    BY DEF AllHolders
  <1>4. Cardinality(Holders(user[c])') = Cardinality(Holders(user[c])) - 1
    BY <1>1, HoldersFinite, FS_RemoveElement
  <1>5. Cardinality(AllHolders') = Cardinality(AllHolders) - 1
    BY <1>3, HoldersFinite, FS_RemoveElement
  <1>6. \A u \in Users : count'[u] = Cardinality(Holders(u)')
    BY <1>2, <1>4 DEF LoginCountExact, Holders, TypeOK
  <1>7. global' = Cardinality(AllHolders')
    BY <1>5 DEF LoginCountExact, AllHolders
  <1> QED BY <1>6, <1>7 DEF LoginCountExact, Holders, AllHolders

\* A counted client makes the counters positive.
LEMMA CountPositive ==
  ASSUME LoginCountExact, NEW c \in Clients, user[c] \in Users, Counted(c)
  PROVE  count[user[c]] > 0 /\ global > 0
PROOF
  <1>1. c \in Holders(user[c]) /\ c \in AllHolders
    BY DEF Holders, AllHolders
  <1> QED BY <1>1, HoldersFinite DEF LoginCountExact, Holders, AllHolders

\* The counters stay exact.
LEMMA CountStep ==
  ASSUME TypeOK, LoginOwner, UserKnown, TaskInv, LoginCountExact, [Next]_vars
  PROVE  LoginCountExact'
PROOF
  <1> USE NoneAssumption
      DEF Goto, Reply, sessVars, loginVars, cmdVars, acctVars, dbVars, srvVars
  <1>1. ASSUME NEW c \in Clients, InnerRun(c) PROVE LoginCountExact'
    BY <1>1, CountSame DEF InnerRun, Counted, TypeOK, LoginOwner, InLogin, ServerLogsOut
  <1>2. ASSUME NEW c \in Clients, HandleLoop(c) PROVE LoginCountExact'
    BY <1>2, CountSame DEF HandleLoop, Counted, TypeOK, LoginOwner, InLogin, ServerLogsOut
  <1>3. ASSUME NEW c \in Clients, NextCommand(c) PROVE LoginCountExact'
    BY <1>3, CountSame DEF NextCommand, Counted, TypeOK, LoginOwner, InLogin, ServerLogsOut
  <1>4. ASSUME NEW c \in Clients, ReadFails(c) PROVE LoginCountExact'
    BY <1>4, CountSame DEF ReadFails, Counted, TypeOK, LoginOwner, InLogin, ServerLogsOut
  <1>5. ASSUME NEW c \in Clients, ReloadUser(c) PROVE LoginCountExact'
    BY <1>5, CountSame DEF ReloadUser, Counted, TypeOK, LoginOwner, InLogin, ServerLogsOut
  <1>6. ASSUME NEW c \in Clients, ReloadLoad(c) PROVE LoginCountExact'
    BY <1>6, CountSame DEF ReloadLoad, Counted, TypeOK, LoginOwner, InLogin, ServerLogsOut
  <1>7. ASSUME NEW c \in Clients, BeginCommand(c) PROVE LoginCountExact'
    BY <1>7, CountSame DEF BeginCommand, Counted, TypeOK, LoginOwner, InLogin, ServerLogsOut
  <1>8. ASSUME NEW c \in Clients, OnlineCommand(c) PROVE LoginCountExact'
    BY <1>8, CountSame DEF OnlineCommand, Counted, TypeOK, LoginOwner, InLogin,
       ServerLogsOut
  <1>9. ASSUME NEW c \in Clients, CheckState(c) PROVE LoginCountExact'
    BY <1>9, CountSame DEF CheckState, Check, Counted, TypeOK, LoginOwner, InLogin,
       ServerLogsOut
  <1>10. ASSUME NEW c \in Clients, UserLoad(c) PROVE LoginCountExact'
    BY <1>10, CountSame DEF UserLoad, Counted, TypeOK, LoginOwner, InLogin, ServerLogsOut
  <1>11. ASSUME NEW c \in Clients, SetWaitingPassword(c) PROVE LoginCountExact'
    BY <1>11, CountSame DEF SetWaitingPassword, Counted, TypeOK, LoginOwner, InLogin,
       ServerLogsOut
  <1>12. ASSUME NEW c \in Clients, PassCheck(c) PROVE LoginCountExact'
    BY <1>12, CountSame DEF PassCheck, Counted, TypeOK, LoginOwner, InLogin, ServerLogsOut
  <1>13. ASSUME NEW c \in Clients, SetLoggedOut(c) PROVE LoginCountExact'
    BY <1>13, CountSame DEF SetLoggedOut, Counted, TypeOK, LoginOwner, InLogin,
       ServerLogsOut
  <1>14. ASSUME NEW c \in Clients, PassKick(c) PROVE LoginCountExact'
    BY <1>14, CountSame DEF PassKick, Counted, TypeOK, LoginOwner, InLogin, ServerLogsOut
  <1>15. ASSUME NEW c \in Clients, LoginStart(c) PROVE LoginCountExact'
    <2>1. CASE StartFails(user[c], kicked[c])
      <3>1. UNCHANGED <<count, global>>
        BY <1>15, <2>1 DEF LoginStart
      <3>2. \A d \in Clients : (Counted(d)' <=> Counted(d)) /\ (Counted(d) => user'[d] = user[d])
        BY <1>15, <2>1 DEF LoginStart, Counted, TypeOK
      <3> QED BY <3>1, <3>2, CountSame
    <2>2. CASE ~StartFails(user[c], kicked[c])
      <3>1. user[c] \in Users /\ user' = user
        BY <1>15 DEF LoginStart, UserKnown
      <3>2. ~Counted(c) /\ Counted(c)'
        BY <1>15, <2>2 DEF LoginStart, Counted, TypeOK, LoginOwner, InLogin
      <3>3. \A d \in Clients \ {c} : Counted(d)' <=> Counted(d)
        BY <1>15, <2>2 DEF LoginStart, Counted, TypeOK
      <3>4. count' = [count EXCEPT ![user[c]] = @ + 1] /\ global' = global + 1
        BY <1>15, <2>2 DEF LoginStart
      <3> QED BY <3>1, <3>2, <3>3, <3>4, CountUp
    <2> QED BY <2>1, <2>2
  <1>16. ASSUME NEW c \in Clients, LoginOnline(c) PROVE LoginCountExact'
    BY <1>16, CountSame DEF LoginOnline, Counted, TypeOK, LoginOwner, InLogin, ServerLogsOut
  <1>17. ASSUME NEW c \in Clients, LoginState(c) PROVE LoginCountExact'
    BY <1>17, CountSame DEF LoginState, Counted, TypeOK, LoginOwner, InLogin, ServerLogsOut
  <1>18. ASSUME NEW c \in Clients, PlainCommand(c) PROVE LoginCountExact'
    BY <1>18, CountSame DEF PlainCommand, Counted, TypeOK, LoginOwner, InLogin,
       ServerLogsOut
  <1>19. ASSUME NEW c \in Clients, QuitCommand(c) PROVE LoginCountExact'
    BY <1>19, CountSame DEF QuitCommand, Counted, TypeOK, LoginOwner, InLogin, ServerLogsOut
  <1>20. ASSUME NEW c \in Clients, StartTransfer(c) PROVE LoginCountExact'
    BY <1>20, CountSame DEF StartTransfer, Counted, TypeOK, LoginOwner, InLogin,
       ServerLogsOut
  <1>21. ASSUME NEW c \in Clients, StopTransfer(c) PROVE LoginCountExact'
    BY <1>21, CountSame DEF StopTransfer, Counted, TypeOK, LoginOwner, InLogin,
       ServerLogsOut
  <1>22. ASSUME NEW c \in Clients, KickCommand(c) PROVE LoginCountExact'
    BY <1>22, CountSame DEF KickCommand, Counted, TypeOK, LoginOwner, InLogin, ServerLogsOut
  <1>23a. ASSUME NEW c \in Clients, DeluserCommand(c) PROVE LoginCountExact'
    BY <1>23a, CountSame DEF DeluserCommand, Counted, TypeOK, LoginOwner, InLogin,
       ServerLogsOut
  <1>23. ASSUME NEW c \in Clients, ReaddCommand(c) PROVE LoginCountExact'
    BY <1>23, CountSame DEF ReaddCommand, Counted, TypeOK, LoginOwner, InLogin,
       ServerLogsOut
  <1>24. ASSUME NEW c \in Clients, ShutdownCommand(c) PROVE LoginCountExact'
    BY <1>24, CountSame DEF ShutdownCommand, Counted, TypeOK, LoginOwner, InLogin,
       ServerLogsOut
  <1>25. ASSUME NEW c \in Clients, Answered(c) PROVE LoginCountExact'
    BY <1>25, CountSame DEF Answered, Counted, TypeOK, LoginOwner, InLogin, ServerLogsOut
  <1>26. ASSUME NEW c \in Clients, EndCommand(c) PROVE LoginCountExact'
    BY <1>26, CountSame DEF EndCommand, Counted, TypeOK, LoginOwner, InLogin, ServerLogsOut
  <1>27. ASSUME NEW c \in Clients, OnlineIdle(c) PROVE LoginCountExact'
    BY <1>27, CountSame DEF OnlineIdle, Counted, TypeOK, LoginOwner, InLogin, ServerLogsOut
  <1>27a. ASSUME NEW c \in Clients, Refused(c) PROVE LoginCountExact'
    BY <1>27a, CountSame DEF Refused, Counted, TypeOK, LoginOwner, InLogin, ServerLogsOut
  <1>28. ASSUME NEW c \in Clients, Finish(c) PROVE LoginCountExact'
    BY <1>28, CountSame DEF Finish, Counted, TypeOK, LoginOwner, InLogin, ServerLogsOut
  <1>29. ASSUME NEW c \in Clients, ClientLogout1(c) PROVE LoginCountExact'
    <2>1. user[c] \in Users /\ user' = user /\ guard[c]
      BY <1>29 DEF ClientLogout1, LoginOwner, UserKnown
    <2>2. Counted(c) /\ ~Counted(c)'
      BY <1>29, <2>1 DEF ClientLogout1, LogoutCount, Counted, TypeOK, LoginOwner,
         ServerLogsOut
    <2>3. \A d \in Clients \ {c} : Counted(d)' <=> Counted(d)
      BY <1>29 DEF ClientLogout1, LogoutCount, Counted, TypeOK
    <2>4. count' = [count EXCEPT ![user[c]] = @ - 1] /\ global' = global - 1
      BY <1>29 DEF ClientLogout1, LogoutCount
    <2> QED BY <2>1, <2>2, <2>3, <2>4, CountDown
  <1>30. ASSUME NEW c \in Clients, ClientLogout2(c) PROVE LoginCountExact'
    BY <1>30, CountSame DEF ClientLogout2, LogoutOnline, Counted, TypeOK, LoginOwner,
       InLogin, ServerLogsOut
  <1>31. ASSUME NEW c \in Clients, PushFinished(c) PROVE LoginCountExact'
    BY <1>31, CountSame DEF PushFinished, Counted, TypeOK, LoginOwner, InLogin,
       ServerLogsOut
  <1>32. ASSUME NEW c \in Clients, VisitKick(c) PROVE LoginCountExact'
    BY <1>32, CountSame DEF VisitKick, TaskInv, Counted, TypeOK, LoginOwner, InLogin,
       ServerLogsOut
  <1>33. ASSUME NEW c \in Clients, VisitLoginKick(c) PROVE LoginCountExact'
    BY <1>33, CountSame DEF VisitLoginKick, Counted, TypeOK, LoginOwner, InLogin,
       ServerLogsOut
  <1>34. ASSUME NEW c \in Clients, VisitUpdate(c) PROVE LoginCountExact'
    BY <1>34, CountSame DEF VisitUpdate, Counted, TypeOK, LoginOwner, InLogin, ServerLogsOut
  <1>35. ASSUME NEW c \in Clients, StopVisit(c) PROVE LoginCountExact'
    BY <1>35, CountSame DEF StopVisit, TaskInv, Counted, TypeOK, LoginOwner, InLogin,
       ServerLogsOut
  <1>36. ASSUME NEW u \in Users, Replicate(u) PROVE LoginCountExact'
    BY <1>36, CountSame DEF Replicate, Counted, TypeOK, LoginOwner, InLogin, ServerLogsOut
  <1>37. ASSUME AcceptClient PROVE LoginCountExact'
    BY <1>37, CountSame DEF AcceptClient, Counted, TypeOK, LoginOwner, InLogin,
       ServerLogsOut
  <1>38. ASSUME HandleTasks PROVE LoginCountExact'
    BY <1>38, CountSame DEF HandleTasks, Counted, TypeOK, LoginOwner, InLogin, ServerLogsOut
  <1>39. ASSUME PollNoTasks PROVE LoginCountExact'
    BY <1>39, CountSame DEF PollNoTasks, Counted, TypeOK, LoginOwner, InLogin, ServerLogsOut
  <1>40. ASSUME PollTasks PROVE LoginCountExact'
    BY <1>40, CountSame DEF PollTasks, Counted, TypeOK, LoginOwner, InLogin, ServerLogsOut
  <1>41. ASSUME VisitEnd PROVE LoginCountExact'
    BY <1>41, CountSame DEF VisitEnd, TaskInv, TaskFits, Counted, TypeOK, LoginOwner,
       InLogin, ServerLogsOut
  <1>42. ASSUME InterruptState PROVE LoginCountExact'
    BY <1>42, CountSame DEF InterruptState, TaskInv, Counted, TypeOK, LoginOwner,
       InLogin, ServerLogsOut
  <1>43. ASSUME ServerLogout1 PROVE LoginCountExact'
    <2>1. cand \in Clients /\ user[cand] \in Users /\ user' = user
      BY <1>43 DEF ServerLogout1, TaskInv, LoginOwner, ServerLogsOut, UserKnown
    <2>2. Counted(cand) /\ cand' = cand
      BY <1>43, <2>1 DEF ServerLogout1, Counted, TypeOK, LoginOwner, ServerLogsOut
    <2>3. ~Counted(cand)'
      BY <1>43, <2>1, <2>2 DEF ServerLogout1, LogoutCount, Counted, TypeOK, LoginOwner,
         ServerLogsOut, InLogin
    <2>4. \A d \in Clients \ {cand} : Counted(d)' <=> Counted(d)
      BY <1>43 DEF ServerLogout1, LogoutCount, Counted, TypeOK
    <2>5. count' = [count EXCEPT ![user[cand]] = @ - 1] /\ global' = global - 1
      BY <1>43 DEF ServerLogout1, LogoutCount
    <2> QED BY <2>1, <2>2, <2>3, <2>4, <2>5, CountDown
  <1>44. ASSUME ServerLogout2 PROVE LoginCountExact'
    BY <1>44, CountSame DEF ServerLogout2, LogoutOnline, TaskInv, Counted, TypeOK,
       LoginOwner, InLogin, ServerLogsOut
  <1>45. ASSUME InterruptShut PROVE LoginCountExact'
    BY <1>45, CountSame DEF InterruptShut, TaskInv, Counted, TypeOK, LoginOwner,
       InLogin, ServerLogsOut
  <1>46. ASSUME CleanupClient PROVE LoginCountExact'
    <2>. task.client \in Clients /\ ~guard[task.client]
      BY <1>46, DoneIsIdle DEF CleanupClient, TaskInv, TaskFits
    <2>0. {task.client} \in SUBSET Clients /\ \A c \in {task.client} : ~guard[c]
      OBVIOUS
    <2>1. count' = count /\ global' = global /\ guard' = guard
      BY <1>46, <2>0, DestroyIdle DEF CleanupClient
    <2>2. \A d \in Clients : (Counted(d)' <=> Counted(d)) /\ (Counted(d) => user'[d] = user[d])
      BY <1>46, <2>0, <2>1 DEF CleanupClient, Destroy, Counted, TypeOK, Connected
    <2> QED BY <2>1, <2>2, CountSame
  <1>47. ASSUME StopClients PROVE LoginCountExact'
    BY <1>47, CountSame DEF StopClients, Counted, TypeOK, LoginOwner, InLogin, ServerLogsOut
  <1>48. ASSUME JoinClients PROVE LoginCountExact'
    <2>0. Connected \in SUBSET Clients /\ \A c \in Connected : ~guard[c]
      BY <1>48, DoneIsIdle DEF JoinClients, Connected
    <2>1. count' = count /\ global' = global /\ guard' = guard
      BY <1>48, <2>0, DestroyIdle DEF JoinClients
    <2>2. \A d \in Clients : (Counted(d)' <=> Counted(d)) /\ (Counted(d) => user'[d] = user[d])
      BY <1>48, <2>0, <2>1 DEF JoinClients, Destroy, Counted, TypeOK, Connected
    <2> QED BY <2>1, <2>2, CountSame
  <1>49. ASSUME ExitSignal PROVE LoginCountExact'
    BY <1>49, CountSame DEF ExitSignal, Counted, TypeOK, LoginOwner, InLogin, ServerLogsOut
  <1>50. CASE UNCHANGED vars
    BY <1>50 DEF vars, LoginCountExact, Counted
  <1> QED BY <1>1, <1>2, <1>3, <1>4, <1>5, <1>6, <1>7, <1>8, <1>9, <1>10, <1>11, <1>12,
             <1>13, <1>14, <1>15, <1>16, <1>17, <1>18, <1>19, <1>20, <1>21, <1>22,
             <1>23a, <1>23, <1>24, <1>25, <1>26, <1>27, <1>27a, <1>28, <1>29, <1>30, <1>31,
             <1>32, <1>33, <1>34, <1>35, <1>36, <1>37, <1>38, <1>39, <1>40, <1>41,
             <1>42, <1>43, <1>44, <1>45, <1>46, <1>47, <1>48, <1>49, <1>50 DEF Next,
             ClientRun, ClientRead, ServerRun

\* The asserts of the logout and of the cleanup keep holding.
LEMMA LogoutStep ==
  ASSUME TypeOK, LoginOwner, UserKnown, TaskInv, LoginCountExact, LogoutOnce, [Next]_vars
  PROVE  LogoutOnce'
PROOF
  <1> USE NoneAssumption DEF Check, sessVars, loginVars, cmdVars, acctVars, dbVars, srvVars
  <1>1. ASSUME NEW c \in Clients, InnerRun(c) PROVE LogoutOnce'
    BY <1>1 DEF InnerRun, LogoutOnce
  <1>2. ASSUME NEW c \in Clients, HandleLoop(c) PROVE LogoutOnce'
    BY <1>2 DEF HandleLoop, LogoutOnce
  <1>3. ASSUME NEW c \in Clients, NextCommand(c) PROVE LogoutOnce'
    BY <1>3 DEF NextCommand, LogoutOnce
  <1>4. ASSUME NEW c \in Clients, ReadFails(c) PROVE LogoutOnce'
    BY <1>4 DEF ReadFails, LogoutOnce
  <1>5. ASSUME NEW c \in Clients, ReloadUser(c) PROVE LogoutOnce'
    BY <1>5 DEF ReloadUser, LogoutOnce
  <1>6. ASSUME NEW c \in Clients, ReloadLoad(c) PROVE LogoutOnce'
    BY <1>6 DEF ReloadLoad, LogoutOnce
  <1>7. ASSUME NEW c \in Clients, BeginCommand(c) PROVE LogoutOnce'
    BY <1>7 DEF BeginCommand, LogoutOnce
  <1>8. ASSUME NEW c \in Clients, OnlineCommand(c) PROVE LogoutOnce'
    BY <1>8 DEF OnlineCommand, Check, LogoutOnce
  <1>9. ASSUME NEW c \in Clients, CheckState(c) PROVE LogoutOnce'
    BY <1>9 DEF CheckState, RequiredState, Check, LogoutOnce
  <1>10. ASSUME NEW c \in Clients, UserLoad(c) PROVE LogoutOnce'
    BY <1>10 DEF UserLoad, LogoutOnce
  <1>11. ASSUME NEW c \in Clients, SetWaitingPassword(c) PROVE LogoutOnce'
    BY <1>11 DEF SetWaitingPassword, LogoutOnce
  <1>12. ASSUME NEW c \in Clients, PassCheck(c) PROVE LogoutOnce'
    BY <1>12 DEF PassCheck, VerifyPassword, LogoutOnce
  <1>13. ASSUME NEW c \in Clients, SetLoggedOut(c) PROVE LogoutOnce'
    BY <1>13 DEF SetLoggedOut, LogoutOnce
  <1>14. ASSUME NEW c \in Clients, PassKick(c) PROVE LogoutOnce'
    BY <1>14 DEF PassKick, Push, LoginsUsed, Task, LogoutOnce
  <1>15. ASSUME NEW c \in Clients, LoginStart(c) PROVE LogoutOnce'
    BY <1>15 DEF LoginStart, StartFails, LogoutOnce
  <1>16. ASSUME NEW c \in Clients, LoginOnline(c) PROVE LogoutOnce'
    BY <1>16 DEF LoginOnline, LogoutOnce
  <1>17. ASSUME NEW c \in Clients, LoginState(c) PROVE LogoutOnce'
    BY <1>17 DEF LoginState, LogoutOnce
  <1>18. ASSUME NEW c \in Clients, PlainCommand(c) PROVE LogoutOnce'
    BY <1>18 DEF PlainCommand, LogoutOnce
  <1>19. ASSUME NEW c \in Clients, QuitCommand(c) PROVE LogoutOnce'
    BY <1>19 DEF QuitCommand, LogoutOnce
  <1>20. ASSUME NEW c \in Clients, StartTransfer(c) PROVE LogoutOnce'
    BY <1>20 DEF StartTransfer, Check, LogoutOnce
  <1>21. ASSUME NEW c \in Clients, StopTransfer(c) PROVE LogoutOnce'
    BY <1>21 DEF StopTransfer, Check, LogoutOnce
  <1>22. ASSUME NEW c \in Clients, KickCommand(c) PROVE LogoutOnce'
    BY <1>22 DEF KickCommand, Push, Task, LogoutOnce
  <1>23a. ASSUME NEW c \in Clients, DeluserCommand(c) PROVE LogoutOnce'
    BY <1>23a DEF DeluserCommand, LogoutOnce
  <1>23. ASSUME NEW c \in Clients, ReaddCommand(c) PROVE LogoutOnce'
    BY <1>23 DEF ReaddCommand, LogoutOnce
  <1>24. ASSUME NEW c \in Clients, ShutdownCommand(c) PROVE LogoutOnce'
    BY <1>24 DEF ShutdownCommand, Push, Task, LogoutOnce
  <1>25. ASSUME NEW c \in Clients, Answered(c) PROVE LogoutOnce'
    BY <1>25 DEF Answered, LogoutOnce
  <1>26. ASSUME NEW c \in Clients, EndCommand(c) PROVE LogoutOnce'
    BY <1>26 DEF EndCommand, LogoutOnce
  <1>27. ASSUME NEW c \in Clients, OnlineIdle(c) PROVE LogoutOnce'
    BY <1>27 DEF OnlineIdle, Check, LogoutOnce
  <1>27a. ASSUME NEW c \in Clients, Refused(c) PROVE LogoutOnce'
    BY <1>27a DEF Refused, Check, LogoutOnce
  <1>28. ASSUME NEW c \in Clients, Finish(c) PROVE LogoutOnce'
    BY <1>28 DEF Finish, LogoutOnce
  <1>29. ASSUME NEW c \in Clients, ClientLogout1(c) PROVE LogoutOnce'
    <2>1. user[c] \in Users /\ guard[c]
      BY <1>29 DEF ClientLogout1, LoginOwner, UserKnown
    <2>2. Counted(c)
      BY <1>29, <2>1 DEF ClientLogout1, Counted, LoginOwner, ServerLogsOut
    <2>3. count[user[c]] > 0 /\ global > 0
      BY <2>1, <2>2, CountPositive
    <2> QED BY <1>29, <2>1, <2>3 DEF ClientLogout1, LogoutCount, LogoutOnce
  <1>30. ASSUME NEW c \in Clients, ClientLogout2(c) PROVE LogoutOnce'
    BY <1>30 DEF ClientLogout2, LogoutOnline, LogoutOnce
  <1>31. ASSUME NEW c \in Clients, PushFinished(c) PROVE LogoutOnce'
    BY <1>31 DEF PushFinished, Push, Task, LogoutOnce
  <1>32. ASSUME NEW c \in Clients, VisitKick(c) PROVE LogoutOnce'
    BY <1>32 DEF VisitKick, Check, LogoutOnce
  <1>33. ASSUME NEW c \in Clients, VisitLoginKick(c) PROVE LogoutOnce'
    BY <1>33 DEF VisitLoginKick, LogoutOnce
  <1>34. ASSUME NEW c \in Clients, VisitUpdate(c) PROVE LogoutOnce'
    BY <1>34 DEF VisitUpdate, LogoutOnce
  <1>35. ASSUME NEW c \in Clients, StopVisit(c) PROVE LogoutOnce'
    BY <1>35 DEF StopVisit, LogoutOnce
  <1>36. ASSUME NEW u \in Users, Replicate(u) PROVE LogoutOnce'
    BY <1>36 DEF Replicate, Push, Task, LogoutOnce
  <1>37. ASSUME AcceptClient PROVE LogoutOnce'
    BY <1>37 DEF AcceptClient, LogoutOnce
  <1>38. ASSUME HandleTasks PROVE LogoutOnce'
    BY <1>38 DEF HandleTasks, Connected, LogoutOnce
  <1>39. ASSUME PollNoTasks PROVE LogoutOnce'
    BY <1>39 DEF PollNoTasks, LogoutOnce
  <1>40. ASSUME PollTasks PROVE LogoutOnce'
    BY <1>40 DEF PollTasks, LogoutOnce
  <1>41. ASSUME VisitEnd PROVE LogoutOnce'
    BY <1>41 DEF VisitEnd, Connected, NoTask, Task, LogoutOnce
  <1>42. ASSUME InterruptState PROVE LogoutOnce'
    BY <1>42 DEF InterruptState, LogoutOnce
  <1>43. ASSUME ServerLogout1 PROVE LogoutOnce'
    <2>1. cand \in Clients /\ user[cand] \in Users /\ guard[cand]
      BY <1>43 DEF ServerLogout1, TaskInv, LoginOwner, ServerLogsOut, UserKnown
    <2>2. Counted(cand)
      BY <1>43, <2>1 DEF ServerLogout1, Counted, LoginOwner, ServerLogsOut
    <2>3. count[user[cand]] > 0 /\ global > 0
      BY <2>1, <2>2, CountPositive
    <2> QED BY <1>43, <2>1, <2>3 DEF ServerLogout1, LogoutCount, LogoutOnce
  <1>44. ASSUME ServerLogout2 PROVE LogoutOnce'
    BY <1>44 DEF ServerLogout2, LogoutOnline, LogoutOnce
  <1>45. ASSUME InterruptShut PROVE LogoutOnce'
    BY <1>45 DEF InterruptShut, NoTask, Task, LogoutOnce
  <1>46. ASSUME CleanupClient PROVE LogoutOnce'
    BY <1>46 DEF CleanupClient, TaskInv, TaskFits, LoginOwner, Check, LogoutOnce
  <1>47. ASSUME StopClients PROVE LogoutOnce'
    BY <1>47 DEF StopClients, Connected, LogoutOnce
  <1>48. ASSUME JoinClients PROVE LogoutOnce'
    BY <1>48 DEF JoinClients, Destroy, Connected, NoTask, Task, LogoutOnce
  <1>49. ASSUME ExitSignal PROVE LogoutOnce'
    BY <1>49 DEF ExitSignal, Push, Task, LogoutOnce
  <1>50. CASE UNCHANGED vars
    BY <1>50 DEF vars, LogoutOnce
  <1> QED BY <1>1, <1>2, <1>3, <1>4, <1>5, <1>6, <1>7, <1>8, <1>9, <1>10, <1>11, <1>12,
             <1>13, <1>14, <1>15, <1>16, <1>17, <1>18, <1>19, <1>20, <1>21, <1>22,
             <1>23a, <1>23, <1>24, <1>25, <1>26, <1>27, <1>27a, <1>28, <1>29, <1>30, <1>31,
             <1>32, <1>33, <1>34, <1>35, <1>36, <1>37, <1>38, <1>39, <1>40, <1>41,
             <1>42, <1>43, <1>44, <1>45, <1>46, <1>47, <1>48, <1>49, <1>50 DEF Next,
             ClientRun, ClientRead, ServerRun

-----------------------------------------------------------------------------
(* The theorems *)

\* The invariant holds initially.
LEMMA InitInv == Init => IInv
PROOF
  <1> SUFFICES ASSUME Init PROVE IInv
    OBVIOUS
  <1> USE NoneAssumption DEF Init
  <1>1. TypeOK
    <2>1. task \in Tasks
      BY TaskType DEF NoTask, TaskTypes
    <2>2. queue \in Seq(Tasks)
      OBVIOUS
    <2>3. /\ pc \in [Clients -> ClientPcs]
          /\ state \in [Clients -> States]
          /\ spc \in ServerPcs
          /\ fault \in Faults
      BY DEF ClientPcs, States, ServerPcs, Faults
    <2>4. /\ user \in [Clients -> Users \cup {None}]
          /\ cmd \in [Clients -> AllCommands \cup {None}]
          /\ arg \in [Clients -> Users \cup {None}]
      OBVIOUS
    <2>5. /\ del \in [Clients -> BOOLEAN]
          /\ kickLogin \in [Clients -> BOOLEAN]
          /\ kicked \in [Clients -> BOOLEAN]
          /\ updated \in [Clients -> BOOLEAN]
          /\ intr \in [Clients -> BOOLEAN]
          /\ guard \in [Clients -> BOOLEAN]
          /\ missed \in [Clients -> BOOLEAN]
          /\ hit \in BOOLEAN /\ shutdown \in BOOLEAN
      OBVIOUS
    <2>6. /\ attempts \in [Clients -> Nat]
          /\ count \in [Users -> Int]
          /\ global \in Int
      OBVIOUS
    <2>7. /\ online \subseteq Clients /\ dbDel \subseteq Users
          /\ pend \subseteq Users /\ todo \subseteq Clients
          /\ cand \in Clients \cup {None}
      OBVIOUS
    <2> HIDE DEF Init
    <2> QED BY <2>1, <2>2, <2>3, <2>4, <2>5, <2>6, <2>7 DEF TypeOK
  <1>2. LoginOwner
    BY DEF LoginOwner, InLogin, ServerLogsOut
  <1>3. UserKnown
    BY DEF UserKnown
  <1>4. TaskInv
    BY DEF TaskInv, TaskFits, NoTask, Task
  <1>5. LoginCountExact
    <2>1. \A u \in Users : {c \in Clients : Counted(c) /\ user[c] = u} = {}
      BY DEF Counted
    <2>2. {c \in Clients : Counted(c)} = {}
      BY DEF Counted
    <2> QED BY <2>1, <2>2, FS_EmptySet DEF LoginCountExact
  <1>6. LogoutOnce
    BY DEF LogoutOnce
  <1> QED BY <1>1, <1>2, <1>3, <1>4, <1>5, <1>6 DEF IInv

\* Every step preserves it.
LEMMA StepInv == IInv /\ [Next]_vars => IInv'
PROOF
  BY TypeStep, OwnerStep, UserStep, TaskStep, CountStep, LogoutStep DEF IInv

\* The inductive invariant holds in every reachable state.
THEOREM Invariance == Spec => []IInv
PROOF BY InitInv, StepInv, PTL DEF Spec

\* Type correctness of the client and server threads' state.
THEOREM TypeCorrect == Spec => []TypeOK
PROOF BY Invariance, PTL DEF IInv

\* The login counter is exact for any number of clients and users: personal
\* and global count the clients between LoginCounter::Start and Stop.
THEOREM CounterExact == Spec => []LoginCountExact
PROOF BY Invariance, PTL DEF IInv

\* The asserts of LoginGuard::Logout, LoginCounter::Stop and
\* Server::CleanupClient never fail.
THEOREM NoDoubleLogout == Spec => []LogoutOnce
PROOF BY Invariance, PTL DEF IInv

\* A client in state LoggedIn is counted and in the online table.
THEOREM LoggedInCounted == Spec => []LoggedInIsOnline
PROOF
  <1>1. IInv => LoggedInIsOnline
    BY DEF IInv, LoginOwner, LoggedInIsOnline, Counted, ServerLogsOut
  <1> QED BY <1>1, Invariance, PTL

\* No task refers to a destroyed client and no client is cleaned up twice.
THEOREM LiveReferences == Spec => []TasksReferToLiveClients
PROOF
  <1>1. IInv => TasksReferToLiveClients
    <2> SUFFICES ASSUME IInv, spc # "exited"
                 PROVE  TasksReferToLiveClients!2
      BY DEF TasksReferToLiveClients
    <2> USE NoneAssumption DEF IInv, TypeOK
    <2>1. \A i \in DOMAIN queue : queue[i] \in Tasks /\ TaskFits(queue[i])
      BY DEF TaskInv
    <2>2. ASSUME NEW i \in DOMAIN queue, queue[i].client # None
          PROVE  pc[queue[i].client] # "none"
      <3>1. queue[i].type \in TaskTypes
        BY <2>1 DEF Tasks
      <3>2. queue[i].type # "Exit"
        BY <2>1, <2>2 DEF TaskFits, NoTask, Task
      <3> QED BY <2>1, <2>2, <3>1, <3>2 DEF TaskFits, TaskTypes
    <2>3. \A i, j \in DOMAIN queue :
            /\ queue[i].type = "ClientFinished" /\ queue[j].type = "ClientFinished"
            /\ queue[i].client = queue[j].client
            => i = j
      BY <2>1 DEF TaskInv, TaskFits
    <2>4. spc = "join" => \A i \in DOMAIN queue :
                            queue[i] # Task("ClientFinished", None, task.client)
      <3>1. spc = "join" => task.client # None
        BY DEF TaskInv, TaskFits
      <3>2. Task("ClientFinished", None, task.client).client = task.client
        BY DEF Task
      <3> QED BY <3>1, <3>2 DEF TaskInv
    <2> QED BY <2>2, <2>3, <2>4
  <1> QED BY <1>1, Invariance, PTL

-----------------------------------------------------------------------------
(* A handler that waits for a future has the one task that sets it *)

\* The task t sets the future that the handler of client c waits for.
AnswersTo(t, c) == t.type \in {"Kick", "LoginKick"} /\ t.client = c

\* The inductive invariant of WaiterHasTask.  That there is no second task is
\* in TaskInv already.  No client is left once the server thread has ended.
WaitInv ==
  /\ spc = "exited" => \A c \in Clients : pc[c] = "none"
  /\ \A c \in Clients : pc[c] = "wait" =>
       AnswersTo(task, c) \/ \E i \in DOMAIN queue : AnswersTo(queue[i], c)

\* A step of a client that touches neither the tasks nor the server thread,
\* and does not begin to wait.
LEMMA WaitKept ==
  ASSUME WaitInv, UNCHANGED <<queue, task, spc>>,
         NEW c \in Clients, pc[c] # "none",
         \A d \in Clients : pc'[d] = "wait" => pc[d] = "wait"
  PROVE  WaitInv'
PROOF BY DEF WaitInv, AnswersTo

\* A step of the server thread that keeps the clients and the tasks.
LEMMA WaitServed ==
  ASSUME WaitInv, UNCHANGED <<queue, task, pc>>, spc' # "exited"
  PROVE  WaitInv'
PROOF BY DEF WaitInv, AnswersTo

\* A push keeps every task that was in the queue and adds its own.
LEMMA PushKept ==
  ASSUME NEW t, queue \in Seq(Tasks), Push(t)
  PROVE  /\ \A i \in DOMAIN queue : i \in DOMAIN queue' /\ queue'[i] = queue[i]
         /\ \E i \in DOMAIN queue' : queue'[i] = t
PROOF
  <1>1. DOMAIN queue = 1..Len(queue) /\ Len(queue) \in Nat
    OBVIOUS
  <1>2. DOMAIN queue' = 1..(Len(queue) + 1) /\ queue'[Len(queue) + 1] = t
    BY DEF Push
  <1>3. \A i \in DOMAIN queue : i \in DOMAIN queue' /\ queue'[i] = queue[i]
    BY DEF Push
  <1> QED BY <1>1, <1>2, <1>3

\* Taking the first task keeps every other one in the queue.
LEMMA PopKept ==
  ASSUME queue \in Seq(Tasks), queue # <<>>, queue' = Tail(queue)
  PROVE  \A i \in DOMAIN queue : \/ queue[i] = Head(queue)
                                 \/ \E j \in DOMAIN queue' : queue'[j] = queue[i]
PROOF
  <1> SUFFICES ASSUME NEW i \in DOMAIN queue, i # 1
               PROVE  \E j \in DOMAIN queue' : queue'[j] = queue[i]
    OBVIOUS
  <1>1. i \in 2..Len(queue) /\ Len(queue) \in Nat
    OBVIOUS
  <1>2. DOMAIN queue' = 1..(Len(queue) - 1) /\ queue'[i - 1] = queue[i]
    BY <1>1
  <1> QED BY <1>1, <1>2

\* A push by a thread that does not wait for it, or by one that does.
LEMMA WaitPushed ==
  ASSUME WaitInv, NEW t, queue \in Seq(Tasks), Push(t), UNCHANGED <<task, spc>>,
         spc = "exited" => pc' = pc,
         \A c \in Clients : pc'[c] = "wait" => pc[c] = "wait" \/ AnswersTo(t, c)
  PROVE  WaitInv'
PROOF BY PushKept DEF WaitInv, AnswersTo

\* A waiting handler keeps its task until the server thread answers it.
LEMMA WaitStep ==
  ASSUME IInv, WaitInv, [Next]_vars
  PROVE  WaitInv'
PROOF
  <1>0. /\ pc \in [Clients -> ClientPcs] /\ queue \in Seq(Tasks) /\ spc \in ServerPcs
        /\ task \in Tasks
    BY DEF IInv, TypeOK
  <1> USE DEF srvVars
  <1>1. ASSUME NEW c \in Clients, InnerRun(c) PROVE WaitInv'
    BY <1>0, <1>1, WaitKept DEF InnerRun, Goto, Reply
  <1>2. ASSUME NEW c \in Clients, HandleLoop(c) PROVE WaitInv'
    BY <1>0, <1>2, WaitKept DEF HandleLoop, Goto, Reply
  <1>3. ASSUME NEW c \in Clients, NextCommand(c) PROVE WaitInv'
    BY <1>0, <1>3, WaitKept DEF NextCommand, Goto, Reply
  <1>4. ASSUME NEW c \in Clients, ReadFails(c) PROVE WaitInv'
    BY <1>0, <1>4, WaitKept DEF ReadFails, Goto, Reply
  <1>5. ASSUME NEW c \in Clients, ReloadUser(c) PROVE WaitInv'
    BY <1>0, <1>5, WaitKept DEF ReloadUser, Goto, Reply
  <1>6. ASSUME NEW c \in Clients, ReloadLoad(c) PROVE WaitInv'
    BY <1>0, <1>6, WaitKept DEF ReloadLoad, Goto, Reply
  <1>7. ASSUME NEW c \in Clients, BeginCommand(c) PROVE WaitInv'
    BY <1>0, <1>7, WaitKept DEF BeginCommand, Goto, Reply
  <1>8. ASSUME NEW c \in Clients, OnlineCommand(c) PROVE WaitInv'
    BY <1>0, <1>8, WaitKept DEF OnlineCommand, Goto, Reply
  <1>9. ASSUME NEW c \in Clients, CheckState(c) PROVE WaitInv'
    BY <1>0, <1>9, WaitKept DEF CheckState, Goto, Reply
  <1>10. ASSUME NEW c \in Clients, Refused(c) PROVE WaitInv'
    BY <1>0, <1>10, WaitKept DEF Refused, Goto, Reply
  <1>11. ASSUME NEW c \in Clients, UserLoad(c) PROVE WaitInv'
    BY <1>0, <1>11, WaitKept DEF UserLoad, Goto, Reply
  <1>12. ASSUME NEW c \in Clients, SetWaitingPassword(c) PROVE WaitInv'
    BY <1>0, <1>12, WaitKept DEF SetWaitingPassword, Goto, Reply
  <1>13. ASSUME NEW c \in Clients, PassCheck(c) PROVE WaitInv'
    BY <1>0, <1>13, WaitKept DEF PassCheck, Goto, Reply
  <1>14. ASSUME NEW c \in Clients, SetLoggedOut(c) PROVE WaitInv'
    BY <1>0, <1>14, WaitKept DEF SetLoggedOut, Goto, Reply
  <1>15. ASSUME NEW c \in Clients, LoginStart(c) PROVE WaitInv'
    BY <1>0, <1>15, WaitKept DEF LoginStart, Goto, Reply
  <1>16. ASSUME NEW c \in Clients, LoginOnline(c) PROVE WaitInv'
    BY <1>0, <1>16, WaitKept DEF LoginOnline, Goto, Reply
  <1>17. ASSUME NEW c \in Clients, LoginState(c) PROVE WaitInv'
    BY <1>0, <1>17, WaitKept DEF LoginState, Goto, Reply
  <1>18. ASSUME NEW c \in Clients, PlainCommand(c) PROVE WaitInv'
    BY <1>0, <1>18, WaitKept DEF PlainCommand, Goto, Reply
  <1>19. ASSUME NEW c \in Clients, QuitCommand(c) PROVE WaitInv'
    BY <1>0, <1>19, WaitKept DEF QuitCommand, Goto, Reply
  <1>20. ASSUME NEW c \in Clients, StartTransfer(c) PROVE WaitInv'
    BY <1>0, <1>20, WaitKept DEF StartTransfer, Goto, Reply
  <1>21. ASSUME NEW c \in Clients, StopTransfer(c) PROVE WaitInv'
    BY <1>0, <1>21, WaitKept DEF StopTransfer, Goto, Reply
  <1>22. ASSUME NEW c \in Clients, DeluserCommand(c) PROVE WaitInv'
    BY <1>0, <1>22, WaitKept DEF DeluserCommand, Goto, Reply
  <1>23. ASSUME NEW c \in Clients, ReaddCommand(c) PROVE WaitInv'
    BY <1>0, <1>23, WaitKept DEF ReaddCommand, Goto, Reply
  <1>24. ASSUME NEW c \in Clients, Answered(c) PROVE WaitInv'
    BY <1>0, <1>24, WaitKept DEF Answered, Goto, Reply
  <1>25. ASSUME NEW c \in Clients, EndCommand(c) PROVE WaitInv'
    BY <1>0, <1>25, WaitKept DEF EndCommand, Goto, Reply
  <1>26. ASSUME NEW c \in Clients, OnlineIdle(c) PROVE WaitInv'
    BY <1>0, <1>26, WaitKept DEF OnlineIdle, Goto, Reply
  <1>27. ASSUME NEW c \in Clients, Finish(c) PROVE WaitInv'
    BY <1>0, <1>27, WaitKept DEF Finish, Goto, Reply
  <1>28. ASSUME NEW c \in Clients, ClientLogout1(c) PROVE WaitInv'
    BY <1>0, <1>28, WaitKept DEF ClientLogout1, Goto, Reply
  <1>29. ASSUME NEW c \in Clients, ClientLogout2(c) PROVE WaitInv'
    BY <1>0, <1>29, WaitKept DEF ClientLogout2, Goto, Reply
  <1>30. ASSUME NEW c \in Clients, PassKick(c) PROVE WaitInv'
    <2>1. CASE LoginsUsed(user[c])
      <3> DEFINE t == Task("LoginKick", user[c], c)
      <3>1. Push(t) /\ Goto(c, "wait") /\ UNCHANGED <<task, spc>> /\ pc[c] = "kick"
        BY <1>30, <2>1 DEF PassKick
      <3>2. AnswersTo(t, c)
        BY DEF AnswersTo, Task
      <3>3. \A d \in Clients : pc'[d] = "wait" => pc[d] = "wait" \/ AnswersTo(t, d)
        BY <1>0, <3>1, <3>2 DEF Goto
      <3> QED BY <1>0, <3>1, <3>3, WaitPushed DEF WaitInv
    <2>2. CASE ~LoginsUsed(user[c])
      BY <1>0, <1>30, <2>2, WaitKept DEF PassKick, Goto
    <2> QED BY <2>1, <2>2
  <1>31. ASSUME NEW c \in Clients, KickCommand(c) PROVE WaitInv'
    <2>1. CASE UNCHANGED queue /\ Reply(c, "post")
      BY <1>0, <1>31, <2>1, WaitKept DEF KickCommand, Reply, Goto
    <2>2. CASE Push(Task("Kick", arg[c], c)) /\ Goto(c, "wait")
      <3> DEFINE t == Task("Kick", arg[c], c)
      <3>1. UNCHANGED <<task, spc>> /\ pc[c] # "none"
        BY <1>31 DEF KickCommand
      <3>2. AnswersTo(t, c)
        BY DEF AnswersTo, Task
      <3>3. \A d \in Clients : pc'[d] = "wait" => pc[d] = "wait" \/ AnswersTo(t, d)
        BY <1>0, <2>2, <3>2 DEF Goto
      <3> QED BY <1>0, <2>2, <3>1, <3>3, WaitPushed DEF WaitInv
    <2> QED BY <1>31, <2>1, <2>2 DEF KickCommand
  <1>32. ASSUME NEW c \in Clients, ShutdownCommand(c) PROVE WaitInv'
    <2>1. CASE UNCHANGED queue
      BY <1>0, <1>32, <2>1, WaitKept DEF ShutdownCommand, Goto
    <2>2. CASE Push(Task("Exit", None, None))
      <3>1. /\ UNCHANGED <<task, spc>> /\ pc[c] # "none"
            /\ \A d \in Clients : pc'[d] = "wait" => pc[d] = "wait"
        BY <1>0, <1>32 DEF ShutdownCommand, Goto
      <3> QED BY <1>0, <2>2, <3>1, WaitPushed DEF WaitInv
    <2> QED BY <1>32, <2>1, <2>2 DEF ShutdownCommand
  <1>33. ASSUME NEW c \in Clients, PushFinished(c) PROVE WaitInv'
    <2>1. /\ Push(Task("ClientFinished", None, c)) /\ UNCHANGED <<task, spc>>
          /\ pc[c] # "none" /\ \A d \in Clients : pc'[d] = "wait" => pc[d] = "wait"
      BY <1>0, <1>33 DEF PushFinished, Goto
    <2> QED BY <1>0, <2>1, WaitPushed DEF WaitInv
  <1>34. ASSUME NEW u \in Users, Replicate(u) PROVE WaitInv'
    BY <1>0, <1>34, WaitPushed DEF Replicate
  <1>35. ASSUME ExitSignal PROVE WaitInv'
    BY <1>0, <1>35, WaitPushed DEF ExitSignal
  <1>36. ASSUME NEW c \in Clients, VisitKick(c) PROVE WaitInv'
    BY <1>36, WaitServed DEF VisitKick
  <1>37. ASSUME NEW c \in Clients, VisitLoginKick(c) PROVE WaitInv'
    BY <1>37, WaitServed DEF VisitLoginKick
  <1>38. ASSUME NEW c \in Clients, VisitUpdate(c) PROVE WaitInv'
    BY <1>38, WaitServed DEF VisitUpdate
  <1>39. ASSUME NEW c \in Clients, StopVisit(c) PROVE WaitInv'
    BY <1>39, WaitServed DEF StopVisit
  <1>40. ASSUME PollTasks PROVE WaitInv'
    BY <1>40, WaitServed DEF PollTasks
  <1>41. ASSUME PollNoTasks PROVE WaitInv'
    BY <1>41, WaitServed DEF PollNoTasks
  <1>42. ASSUME InterruptState PROVE WaitInv'
    BY <1>42, WaitServed DEF InterruptState
  <1>43. ASSUME ServerLogout1 PROVE WaitInv'
    BY <1>43, WaitServed DEF ServerLogout1
  <1>44. ASSUME ServerLogout2 PROVE WaitInv'
    BY <1>44, WaitServed DEF ServerLogout2
  <1>45. ASSUME InterruptShut PROVE WaitInv'
    BY <1>45, WaitServed DEF InterruptShut
  <1>46. ASSUME StopClients PROVE WaitInv'
    BY <1>46, WaitServed DEF StopClients
  <1>47. ASSUME AcceptClient PROVE WaitInv'
    BY <1>0, <1>47 DEF AcceptClient, Goto, WaitInv, AnswersTo
  <1>48. ASSUME HandleTasks PROVE WaitInv'
    <2>1. CASE queue = <<>>
      BY <1>48, <2>1, WaitServed DEF HandleTasks
    <2>2. CASE queue # <<>>
      <3>1. /\ queue' = Tail(queue) /\ task' = Head(queue) /\ pc' = pc
            /\ spc = "drain" /\ spc' # "exited"
        BY <1>48, <2>2 DEF HandleTasks
      <3>2. task = NoTask
        BY <3>1 DEF IInv, TaskInv
      <3>3. \A c \in Clients : ~AnswersTo(task, c)
        BY <3>2 DEF AnswersTo, NoTask, Task
      <3>4. \A i \in DOMAIN queue : \/ queue[i] = task'
                                    \/ \E j \in DOMAIN queue' : queue'[j] = queue[i]
        BY <1>0, <2>2, <3>1, PopKept
      <3> QED BY <3>1, <3>3, <3>4 DEF WaitInv, AnswersTo
    <2> QED BY <2>1, <2>2
  <1>49. ASSUME VisitEnd PROVE WaitInv'
    <2>1. CASE task' = task
      BY <1>49, <2>1, WaitServed, <1>0 DEF VisitEnd, IInv, TaskInv, NoTask, Task
    <2>2. CASE task' # task
      <3>1. /\ queue' = queue /\ spc' = "drain" /\ spc = "visit"
            /\ IF task.type = "UserUpdate" THEN pc' = pc ELSE Goto(task.client, "answered")
        BY <1>49, <2>2 DEF VisitEnd
      <3>2. \A c \in Clients : pc'[c] = "wait" => pc[c] = "wait" /\ ~AnswersTo(task, c)
        BY <1>0, <3>1 DEF Goto, AnswersTo
      <3> QED BY <3>1, <3>2 DEF WaitInv, AnswersTo
    <2> QED BY <2>1, <2>2
  <1>50. ASSUME CleanupClient PROVE WaitInv'
    <2>1. /\ queue' = queue /\ spc' # "exited" /\ spc = "join"
          /\ \A c \in Clients : pc'[c] = "wait" => pc[c] = "wait"
      BY <1>0, <1>50 DEF CleanupClient, Destroy
    <2>2. \A c \in Clients : ~AnswersTo(task, c)
      BY <2>1 DEF IInv, TaskInv, AnswersTo
    <2> QED BY <2>1, <2>2 DEF WaitInv, AnswersTo
  <1>51. ASSUME JoinClients PROVE WaitInv'
    <2>1. \A c \in Clients : pc'[c] = "none"
      BY <1>0, <1>51 DEF JoinClients, Destroy, Connected
    <2> QED BY <2>1 DEF WaitInv
  <1>52. CASE UNCHANGED vars
    BY <1>52 DEF vars, WaitInv, AnswersTo
  <1> QED BY <1>1, <1>2, <1>3, <1>4, <1>5, <1>6, <1>7, <1>8, <1>9, <1>10, <1>11,
             <1>12, <1>13, <1>14, <1>15, <1>16, <1>17, <1>18, <1>19, <1>20, <1>21,
             <1>22, <1>23, <1>24, <1>25, <1>26, <1>27, <1>28, <1>29, <1>30, <1>31,
             <1>32, <1>33, <1>34, <1>35, <1>36, <1>37, <1>38, <1>39, <1>40, <1>41,
             <1>42, <1>43, <1>44, <1>45, <1>46, <1>47, <1>48, <1>49, <1>50, <1>51,
             <1>52
          DEF Next, ClientRun, ClientRead, ServerRun

\* A handler that waits for a future has exactly one task that will set it, so
\* that no promise is lost and none is set twice, whatever is pushed meanwhile
\* and however many clients kick each other.
THEOREM WaiterAnswered == Spec => []WaiterHasTask
PROOF
  <1>1. Init => WaitInv
    BY DEF Init, WaitInv
  <1>2. IInv /\ WaitInv /\ [Next]_vars => WaitInv'
    BY WaitStep
  <1>3. IInv /\ WaitInv => WaiterHasTask
    <2> SUFFICES ASSUME IInv, WaitInv, NEW c \in Clients, pc[c] = "wait"
                 PROVE  Cardinality({i \in DOMAIN queue : AnswersTo(queue[i], c)})
                          + (IF AnswersTo(task, c) THEN 1 ELSE 0) = 1
      BY DEF WaiterHasTask, AnswersTo
    <2> DEFINE Mine == {i \in DOMAIN queue : AnswersTo(queue[i], c)}
    <2>1. spc # "exited" /\ c # None
      BY NoneAssumption DEF WaitInv
    <2>2. CASE AnswersTo(task, c)
      <3>1. Mine = {}
        BY <2>1, <2>2 DEF IInv, TaskInv, AnswersTo
      <3> QED BY <2>2, <3>1, FS_EmptySet
    <2>3. CASE ~AnswersTo(task, c)
      <3>1. PICK i \in DOMAIN queue : AnswersTo(queue[i], c)
        BY <2>3 DEF WaitInv
      <3>2. Mine = {i}
        BY <2>1, <3>1 DEF IInv, TaskInv, AnswersTo
      <3>3. Cardinality({i}) = 1
        BY FS_Singleton
      <3> QED BY <2>3, <3>2, <3>3
    <2> QED BY <2>2, <2>3
  <1> QED BY <1>1, <1>2, <1>3, Invariance, PTL DEF Spec

-----------------------------------------------------------------------------
(* The asserts of a command fail only of a client that is interrupted *)

\* ClientImpl::Interrupt has begun to finish the client, or has finished it.
Interrupted(c) == intr[c] \/ (spc \in {"logout1", "logout2", "shut"} /\ cand = c)

\* Until then the client's own thread decides its state: Finished means that
\* only the end of the session is left, and between the check of the state and
\* the asserts that rely on it the client stays LoggedIn.
OwnState(c) ==
  /\ state[c] = "Finished" =>
       pc[c] \in {"post", "loop", "finish", "logout1", "logout2", "push", "done"}
  /\ pc[c] \in {"online", "xfer", "idle"} => state[c] = "LoggedIn"
  /\ pc[c] = "exec" /\ cmd[c] = "XFER" => state[c] = "LoggedIn"

\* The inductive invariant of FaultNeedsInterrupt.
FaultInv ==
  /\ FaultNeedsInterrupt
  /\ \A c \in Clients : Interrupted(c) \/ OwnState(c)

\* The asserts this is about.
CommandFaults == {"CheckState", "OnlineCommand", "OnlineIdle", "StartTransfer",
                  "StopTransfer"}

\* A step of client c alone: it owes its own state, and an assert that fails
\* shows that it is interrupted.
LEMMA FaultClient ==
  ASSUME FaultInv, NEW c \in Clients, UNCHANGED <<intr, spc, cand>>,
         \A d \in Clients \ {c} :
           pc'[d] = pc[d] /\ state'[d] = state[d] /\ cmd'[d] = cmd[d],
         Interrupted(c) \/ OwnState(c)',
         fault' \in CommandFaults => fault' = fault \/ Interrupted(c)
  PROVE  FaultInv'
PROOF
  <1>1. \A d \in Clients : Interrupted(d)' <=> Interrupted(d)
    BY DEF Interrupted
  <1>2. \A d \in Clients \ {c} : OwnState(d)' <=> OwnState(d)
    BY DEF OwnState
  <1>3. FaultNeedsInterrupt'
    BY <1>1 DEF FaultInv, FaultNeedsInterrupt, Interrupted, CommandFaults
  <1> QED BY <1>1, <1>2, <1>3 DEF FaultInv

\* A step of the server thread or of another thread: clients stay interrupted
\* or their own, and none of these asserts is the server's.
LEMMA FaultServer ==
  ASSUME FaultInv, fault = "none", fault' \notin CommandFaults,
         \A c \in Clients : Interrupted(c) \/ OwnState(c) => Interrupted(c)' \/ OwnState(c)'
  PROVE  FaultInv'
PROOF BY DEF FaultInv, FaultNeedsInterrupt, CommandFaults

\* The server thread's step leaves the clients' own state alone.
LEMMA FaultQuiet ==
  ASSUME FaultInv, fault = "none", fault' \notin CommandFaults,
         UNCHANGED <<pc, state, cmd, intr>>,
         spc \notin {"logout1", "logout2", "shut"} \/ UNCHANGED <<spc, cand>>
  PROVE  FaultInv'
PROOF
  <1>1. \A c \in Clients : Interrupted(c) \/ OwnState(c) => Interrupted(c)' \/ OwnState(c)'
    BY DEF Interrupted, OwnState
  <1> QED BY <1>1, FaultServer

\* Every step keeps it.
LEMMA FaultStep ==
  ASSUME IInv, FaultInv, [Next]_vars
  PROVE  FaultInv'
PROOF
  <1>0. /\ pc \in [Clients -> ClientPcs] /\ state \in [Clients -> States]
        /\ cmd \in [Clients -> AllCommands \cup {None}] /\ spc \in ServerPcs
        /\ intr \in [Clients -> BOOLEAN]
    BY DEF IInv, TypeOK
  <1>o. \A c \in Clients : /\ state[c] = "LoggedIn" => c \in online
                           /\ InLogin(c) => state[c] # "LoggedIn"
                           /\ Interrupted(c) \/ OwnState(c)
    BY DEF IInv, LoginOwner, FaultInv
  <1> USE DEF sessVars, loginVars, cmdVars, acctVars, dbVars, srvVars
  <1>1. ASSUME fault = "none", NEW c \in Clients, InnerRun(c) PROVE FaultInv'
    BY <1>0, <1>o, <1>1, FaultClient
       DEF InnerRun, Goto, Reply, OwnState, CommandFaults
  <1>2. ASSUME fault = "none", NEW c \in Clients, HandleLoop(c) PROVE FaultInv'
    BY <1>0, <1>o, <1>2, FaultClient
       DEF HandleLoop, Goto, Reply, OwnState, CommandFaults
  <1>3. ASSUME fault = "none", NEW c \in Clients, NextCommand(c) PROVE FaultInv'
    BY <1>0, <1>o, <1>3, FaultClient
       DEF NextCommand, Goto, Reply, OwnState, CommandFaults
  <1>4. ASSUME fault = "none", NEW c \in Clients, ReadFails(c) PROVE FaultInv'
    BY <1>0, <1>o, <1>4, FaultClient
       DEF ReadFails, Goto, Reply, OwnState, CommandFaults
  <1>5. ASSUME fault = "none", NEW c \in Clients, ReloadUser(c) PROVE FaultInv'
    BY <1>0, <1>o, <1>5, FaultClient
       DEF ReloadUser, Goto, Reply, OwnState, CommandFaults
  <1>6. ASSUME fault = "none", NEW c \in Clients, ReloadLoad(c) PROVE FaultInv'
    BY <1>0, <1>o, <1>6, FaultClient
       DEF ReloadLoad, Goto, Reply, OwnState, CommandFaults
  <1>7. ASSUME fault = "none", NEW c \in Clients, BeginCommand(c) PROVE FaultInv'
    BY <1>0, <1>o, <1>7, FaultClient
       DEF BeginCommand, Goto, Reply, OwnState, CommandFaults
  <1>8. ASSUME fault = "none", NEW c \in Clients, OnlineCommand(c) PROVE FaultInv'
    BY <1>0, <1>o, <1>8, FaultClient
       DEF OnlineCommand, Goto, Reply, OwnState, CommandFaults, Check
  <1>9. ASSUME fault = "none", NEW c \in Clients, CheckState(c) PROVE FaultInv'
    BY <1>0, <1>o, <1>9, FaultClient
       DEF CheckState, Goto, Reply, OwnState, CommandFaults, RequiredState
  <1>10. ASSUME fault = "none", NEW c \in Clients, Refused(c) PROVE FaultInv'
    BY <1>0, <1>o, <1>10, FaultClient
       DEF Refused, Goto, Reply, OwnState, CommandFaults, Check
  <1>11. ASSUME fault = "none", NEW c \in Clients, UserLoad(c) PROVE FaultInv'
    BY <1>0, <1>o, <1>11, FaultClient
       DEF UserLoad, Goto, Reply, OwnState, CommandFaults
  <1>12. ASSUME fault = "none", NEW c \in Clients, SetWaitingPassword(c) PROVE FaultInv'
    BY <1>0, <1>o, <1>12, FaultClient
       DEF SetWaitingPassword, Goto, Reply, OwnState, CommandFaults
  <1>13. ASSUME fault = "none", NEW c \in Clients, PassCheck(c) PROVE FaultInv'
    BY <1>0, <1>o, <1>13, FaultClient
       DEF PassCheck, Goto, Reply, OwnState, CommandFaults
  <1>14. ASSUME fault = "none", NEW c \in Clients, SetLoggedOut(c) PROVE FaultInv'
    BY <1>0, <1>o, <1>14, FaultClient
       DEF SetLoggedOut, Goto, Reply, OwnState, CommandFaults
  <1>15. ASSUME fault = "none", NEW c \in Clients, PassKick(c) PROVE FaultInv'
    BY <1>0, <1>o, <1>15, FaultClient
       DEF PassKick, Goto, Reply, OwnState, CommandFaults
  <1>16. ASSUME fault = "none", NEW c \in Clients, LoginStart(c) PROVE FaultInv'
    BY <1>0, <1>o, <1>16, FaultClient
       DEF LoginStart, Goto, Reply, OwnState, CommandFaults
  <1>17. ASSUME fault = "none", NEW c \in Clients, LoginOnline(c) PROVE FaultInv'
    BY <1>0, <1>o, <1>17, FaultClient
       DEF LoginOnline, Goto, Reply, OwnState, CommandFaults
  <1>18. ASSUME fault = "none", NEW c \in Clients, LoginState(c) PROVE FaultInv'
    BY <1>0, <1>o, <1>18, FaultClient
       DEF LoginState, Goto, Reply, OwnState, CommandFaults
  <1>19. ASSUME fault = "none", NEW c \in Clients, PlainCommand(c) PROVE FaultInv'
    BY <1>0, <1>o, <1>19, FaultClient
       DEF PlainCommand, Goto, Reply, OwnState, CommandFaults
  <1>20. ASSUME fault = "none", NEW c \in Clients, QuitCommand(c) PROVE FaultInv'
    BY <1>0, <1>o, <1>20, FaultClient
       DEF QuitCommand, Goto, Reply, OwnState, CommandFaults
  <1>21. ASSUME fault = "none", NEW c \in Clients, StartTransfer(c) PROVE FaultInv'
    BY <1>0, <1>o, <1>21, FaultClient
       DEF StartTransfer, Goto, Reply, OwnState, CommandFaults, Check
  <1>22. ASSUME fault = "none", NEW c \in Clients, StopTransfer(c) PROVE FaultInv'
    BY <1>0, <1>o, <1>22, FaultClient
       DEF StopTransfer, Goto, Reply, OwnState, CommandFaults, Check
  <1>23. ASSUME fault = "none", NEW c \in Clients, DeluserCommand(c) PROVE FaultInv'
    BY <1>0, <1>o, <1>23, FaultClient
       DEF DeluserCommand, Goto, Reply, OwnState, CommandFaults
  <1>24. ASSUME fault = "none", NEW c \in Clients, KickCommand(c) PROVE FaultInv'
    BY <1>0, <1>o, <1>24, FaultClient
       DEF KickCommand, Goto, Reply, OwnState, CommandFaults
  <1>25. ASSUME fault = "none", NEW c \in Clients, ReaddCommand(c) PROVE FaultInv'
    BY <1>0, <1>o, <1>25, FaultClient
       DEF ReaddCommand, Goto, Reply, OwnState, CommandFaults
  <1>26. ASSUME fault = "none", NEW c \in Clients, ShutdownCommand(c) PROVE FaultInv'
    BY <1>0, <1>o, <1>26, FaultClient
       DEF ShutdownCommand, Goto, Reply, OwnState, CommandFaults
  <1>27. ASSUME fault = "none", NEW c \in Clients, Answered(c) PROVE FaultInv'
    BY <1>0, <1>o, <1>27, FaultClient
       DEF Answered, Goto, Reply, OwnState, CommandFaults
  <1>28. ASSUME fault = "none", NEW c \in Clients, EndCommand(c) PROVE FaultInv'
    BY <1>0, <1>o, <1>28, FaultClient
       DEF EndCommand, Goto, Reply, OwnState, CommandFaults
  <1>29. ASSUME fault = "none", NEW c \in Clients, OnlineIdle(c) PROVE FaultInv'
    BY <1>0, <1>o, <1>29, FaultClient
       DEF OnlineIdle, Goto, Reply, OwnState, CommandFaults, Check
  <1>30. ASSUME fault = "none", NEW c \in Clients, Finish(c) PROVE FaultInv'
    BY <1>0, <1>o, <1>30, FaultClient
       DEF Finish, Goto, Reply, OwnState, CommandFaults
  <1>31. ASSUME fault = "none", NEW c \in Clients, ClientLogout1(c) PROVE FaultInv'
    BY <1>0, <1>o, <1>31, FaultClient
       DEF ClientLogout1, Goto, Reply, OwnState, CommandFaults, LogoutCount
  <1>32. ASSUME fault = "none", NEW c \in Clients, ClientLogout2(c) PROVE FaultInv'
    BY <1>0, <1>o, <1>32, FaultClient
       DEF ClientLogout2, Goto, Reply, OwnState, CommandFaults, LogoutOnline
  <1>33. ASSUME fault = "none", NEW c \in Clients, PushFinished(c) PROVE FaultInv'
    BY <1>0, <1>o, <1>33, FaultClient
       DEF PushFinished, Goto, Reply, OwnState, CommandFaults
  <1>34. ASSUME fault = "none", NEW c \in Clients, VisitKick(c) PROVE FaultInv'
    BY <1>34, FaultQuiet DEF VisitKick, CommandFaults, Check
  <1>35. ASSUME fault = "none", NEW c \in Clients, VisitLoginKick(c) PROVE FaultInv'
    BY <1>35, FaultQuiet DEF VisitLoginKick, CommandFaults
  <1>36. ASSUME fault = "none", NEW c \in Clients, VisitUpdate(c) PROVE FaultInv'
    BY <1>36, FaultQuiet DEF VisitUpdate, CommandFaults
  <1>37. ASSUME fault = "none", NEW c \in Clients, StopVisit(c) PROVE FaultInv'
    BY <1>37, FaultQuiet DEF StopVisit, CommandFaults
  <1>38. ASSUME fault = "none", NEW u \in Users, Replicate(u) PROVE FaultInv'
    BY <1>38, FaultQuiet DEF Replicate, CommandFaults
  <1>39. ASSUME fault = "none", PollTasks PROVE FaultInv'
    BY <1>39, FaultQuiet DEF PollTasks, CommandFaults
  <1>40. ASSUME fault = "none", PollNoTasks PROVE FaultInv'
    BY <1>40, FaultQuiet DEF PollNoTasks, CommandFaults
  <1>41. ASSUME fault = "none", AcceptClient PROVE FaultInv'
    BY <1>0, <1>41, FaultServer DEF AcceptClient, Goto, OwnState, Interrupted, CommandFaults
  <1>42. ASSUME fault = "none", HandleTasks PROVE FaultInv'
    BY <1>42, FaultQuiet DEF HandleTasks, CommandFaults
  <1>43. ASSUME fault = "none", VisitEnd PROVE FaultInv'
    <2>1. task.type # "UserUpdate" => pc[task.client] = "wait"
      BY <1>43 DEF VisitEnd, IInv, TaskInv, TaskFits
    <2> QED BY <1>0, <1>43, <2>1, FaultServer
            DEF VisitEnd, Goto, OwnState, Interrupted, CommandFaults
  <1>44. ASSUME fault = "none", InterruptState PROVE FaultInv'
    BY <1>0, <1>44, FaultServer DEF InterruptState, OwnState, Interrupted, CommandFaults
  <1>45. ASSUME fault = "none", ServerLogout1 PROVE FaultInv'
    BY <1>0, <1>45, FaultServer DEF ServerLogout1, LogoutCount, OwnState, Interrupted,
       CommandFaults
  <1>46. ASSUME fault = "none", ServerLogout2 PROVE FaultInv'
    BY <1>0, <1>46, FaultServer DEF ServerLogout2, LogoutOnline, OwnState, Interrupted,
       CommandFaults
  <1>47. ASSUME fault = "none", InterruptShut PROVE FaultInv'
    BY <1>0, <1>47, FaultServer DEF InterruptShut, OwnState, Interrupted, CommandFaults
  <1>48. ASSUME fault = "none", CleanupClient PROVE FaultInv'
    BY <1>0, <1>48, FaultServer DEF CleanupClient, Check, Destroy, OwnState, Interrupted,
       CommandFaults
  <1>49. ASSUME fault = "none", StopClients PROVE FaultInv'
    BY <1>49, FaultQuiet DEF StopClients, CommandFaults
  <1>50. ASSUME fault = "none", JoinClients PROVE FaultInv'
    BY <1>0, <1>50, FaultServer DEF JoinClients, Destroy, OwnState, Interrupted,
       CommandFaults
  <1>51. ASSUME fault = "none", ExitSignal PROVE FaultInv'
    BY <1>51, FaultQuiet DEF ExitSignal, CommandFaults
  <1>52. CASE UNCHANGED vars
    BY <1>52 DEF vars, FaultInv, FaultNeedsInterrupt, OwnState, Interrupted
  <1> QED BY <1>1, <1>2, <1>3, <1>4, <1>5, <1>6, <1>7, <1>8, <1>9, <1>10, <1>11,
             <1>12, <1>13, <1>14, <1>15, <1>16, <1>17, <1>18, <1>19, <1>20, <1>21,
             <1>22, <1>23, <1>24, <1>25, <1>26, <1>27, <1>28, <1>29, <1>30, <1>31,
             <1>32, <1>33, <1>34, <1>35, <1>36, <1>37, <1>38, <1>39, <1>40, <1>41,
             <1>42, <1>43, <1>44, <1>45, <1>46, <1>47, <1>48, <1>49, <1>50, <1>51,
             <1>52
          DEF Next, ClientRun, ClientRead, ServerRun

\* The assertion that closes CheckState and the verify calls of OnlineWriter
\* fail only of a client that the server thread interrupts: a client's own
\* commands, logins and errors never reach one, however many clients there are.
THEOREM AssertsNeedInterrupt == Spec => []FaultNeedsInterrupt
PROOF
  <1>1. Init => FaultInv
    BY DEF Init, FaultInv, FaultNeedsInterrupt, OwnState
  <1>2. IInv /\ FaultInv /\ [Next]_vars => FaultInv'
    BY FaultStep
  <1>3. FaultInv => FaultNeedsInterrupt
    BY DEF FaultInv
  <1> QED BY <1>1, <1>2, <1>3, Invariance, PTL DEF Spec

-----------------------------------------------------------------------------
(* A change of a user record reaches the sessions of the user *)

\* The Deleted flag of the client's copy differs from that of u's record.
Stale(c, u) == ~(del[c] <=> u \in dbDel)

\* A UserUpdate task for u is queued.
Queued(u) == \E i \in DOMAIN queue : queue[i].type = "UserUpdate" /\ queue[i].uid = u

\* A change of u's record is on its way to the client, or passed it too early.
OnWay(c, u) ==
  \/ missed[c] \/ u \in pend \/ Queued(u)
  \/ spc = "visit" /\ task.type = "UserUpdate" /\ task.uid = u /\ c \in todo

\* The client has no user yet, is about to reload it, or is ending.
NoCopyInUse == {"none", "setwait", "load", "finish", "logout1", "logout2", "push", "done"}

\* The inductive invariant of UpdateNotLost: it holds of the copy that USER has
\* loaded and not yet made the client's, and of the client's user from then on,
\* logged in or not.
CopyCurrent(c) ==
  /\ pc[c] = "setwait" /\ Stale(c, arg[c]) => OnWay(c, arg[c])
  /\ pc[c] \notin NoCopyInUse /\ Stale(c, user[c]) => updated[c] \/ OnWay(c, user[c])
  /\ pc[c] = "none" => user[c] = None /\ ~del[c]

UpdateInv == \A c \in Clients : CopyCurrent(c)

\* Pushing a task loses no queued update.
LEMMA QueuedPush ==
  ASSUME queue \in Seq(Tasks), NEW t, Push(t), NEW u, Queued(u)
  PROVE  Queued(u)'
PROOF BY PushKept DEF Queued

\* A step of client c alone that keeps the queued updates: the others see no
\* difference, c owes its own copy.
LEMMA UpdateClient ==
  ASSUME UpdateInv, NEW c \in Clients, UNCHANGED <<dbDel, pend, spc, task, todo>>,
         \A u : Queued(u) => Queued(u)',
         \A d \in Clients \ {c} :
           /\ pc'[d] = pc[d] /\ user'[d] = user[d] /\ del'[d] = del[d]
           /\ arg'[d] = arg[d] /\ updated'[d] = updated[d] /\ missed'[d] = missed[d],
         CopyCurrent(c)'
  PROVE  UpdateInv'
PROOF
  <1>1. ASSUME NEW d \in Clients \ {c} PROVE CopyCurrent(d)'
    <2>1. \A u : OnWay(d, u) => OnWay(d, u)'
      BY DEF OnWay
    <2>2. \A u : Stale(d, u)' <=> Stale(d, u)
      BY DEF Stale
    <2> QED BY <2>1, <2>2 DEF UpdateInv, CopyCurrent
  <1> QED BY <1>1 DEF UpdateInv

\* Between two labels where the copy is in use, nothing changes for a client
\* whose record, copy and flags stay.
LEMMA CopyKept ==
  ASSUME NEW c \in Clients, CopyCurrent(c), pc[c] \notin NoCopyInUse,
         UNCHANGED <<dbDel, pend, spc, task, todo>>,
         user'[c] = user[c], del'[c] = del[c],
         updated'[c] = updated[c], missed'[c] = missed[c],
         \A u : Queued(u) => Queued(u)',
         pc'[c] \notin {"none", "setwait"}
  PROVE  CopyCurrent(c)'
PROOF
  <1>1. \A u : OnWay(c, u) => OnWay(c, u)'
    BY DEF OnWay
  <1>2. \A u : Stale(c, u)' <=> Stale(c, u)
    BY DEF Stale
  <1> QED BY <1>1, <1>2 DEF CopyCurrent, NoCopyInUse

\* A client whose thread is ending needs no copy.
LEMMA CopyUnused ==
  ASSUME NEW c \in Clients, pc'[c] \in NoCopyInUse \ {"none", "setwait"}
  PROVE  CopyCurrent(c)'
PROOF BY DEF CopyCurrent, NoCopyInUse

\* A step that changes no client: no update may be lost on its way.
LEMMA UpdateServer ==
  ASSUME UpdateInv, UNCHANGED <<dbDel, user, del, arg, updated>>,
         \A c \in Clients : pc'[c] = pc[c] \/ (pc[c] = "wait" /\ pc'[c] = "answered"),
         \A u : \A c \in Clients : pc[c] # "none" /\ OnWay(c, u) => OnWay(c, u)'
  PROVE  UpdateInv'
PROOF
  <1>1. \A u : \A c \in Clients : Stale(c, u)' <=> Stale(c, u)
    BY DEF Stale
  <1> QED BY <1>1 DEF UpdateInv, CopyCurrent, NoCopyInUse

\* Every step keeps it.
LEMMA UpdateStep ==
  ASSUME IInv, UpdateInv, [Next]_vars
  PROVE  UpdateInv'
PROOF
  <1>0. /\ pc \in [Clients -> ClientPcs] /\ arg \in [Clients -> Users \cup {None}]
        /\ user \in [Clients -> Users \cup {None}]
        /\ cmd \in [Clients -> AllCommands \cup {None}]
        /\ queue \in Seq(Tasks)
    BY DEF IInv, TypeOK
  <1>b. /\ del \in [Clients -> BOOLEAN] /\ updated \in [Clients -> BOOLEAN]
        /\ missed \in [Clients -> BOOLEAN]
    BY DEF IInv, TypeOK
  <1>d. None \notin dbDel /\ dbDel \subseteq Users
    BY NoneAssumption DEF IInv, TypeOK
  <1>c. \A c \in Clients : CopyCurrent(c)
    BY DEF UpdateInv
  <1>q. queue' = queue => \A u : Queued(u) => Queued(u)'
    BY DEF Queued
  <1> USE DEF sessVars, loginVars, cmdVars, acctVars, dbVars, srvVars
  <1>1. ASSUME NEW c \in Clients, InnerRun(c) PROVE UpdateInv'
    BY <1>0, <1>c, <1>q, <1>1, UpdateClient, CopyKept
       DEF InnerRun, Goto, Reply, NoCopyInUse
  <1>2. ASSUME NEW c \in Clients, HandleLoop(c) PROVE UpdateInv'
    BY <1>0, <1>c, <1>q, <1>2, UpdateClient, CopyKept
       DEF HandleLoop, Goto, Reply, NoCopyInUse
  <1>3. ASSUME NEW c \in Clients, NextCommand(c) PROVE UpdateInv'
    BY <1>0, <1>c, <1>q, <1>3, UpdateClient, CopyKept
       DEF NextCommand, Goto, Reply, NoCopyInUse
  <1>4. ASSUME NEW c \in Clients, ReadFails(c) PROVE UpdateInv'
    BY <1>0, <1>c, <1>q, <1>4, UpdateClient, CopyKept
       DEF ReadFails, Goto, Reply, NoCopyInUse
  <1>5. ASSUME NEW c \in Clients, ReloadUser(c) PROVE UpdateInv'
    <2>1. CASE updated[c]
      BY <1>0, <1>b, <1>q, <1>5, <2>1, UpdateClient, CopyUnused
         DEF ReloadUser, Goto, NoCopyInUse
    <2>2. CASE ~updated[c]
      <3>1. updated'[c] = updated[c] /\ \A d \in Clients \ {c} : updated'[d] = updated[d]
        BY <1>b, <1>5, <2>2 DEF ReloadUser
      <3> QED BY <1>0, <1>c, <1>q, <1>5, <2>2, <3>1, UpdateClient, CopyKept
              DEF ReloadUser, Goto, NoCopyInUse
    <2> QED BY <2>1, <2>2
  <1>6. ASSUME NEW c \in Clients, ReloadLoad(c) PROVE UpdateInv'
    <2>1. CASE user[c] \in dbDel
      BY <1>0, <1>q, <1>6, <2>1, UpdateClient, CopyUnused DEF ReloadLoad, Goto, NoCopyInUse
    <2>2. CASE user[c] \notin dbDel
      <3>1. ~del'[c] /\ \A d \in Clients \ {c} : del'[d] = del[d]
        BY <1>b, <1>6, <2>2 DEF ReloadLoad
      <3>2. pc'[c] = "begin" /\ user' = user /\ dbDel' = dbDel
        BY <1>0, <1>6, <2>2 DEF ReloadLoad, Goto
      <3>3. CopyCurrent(c)'
        BY <2>2, <3>1, <3>2 DEF CopyCurrent, Stale
      <3> QED BY <1>0, <1>q, <1>6, <2>2, <3>1, <3>3, UpdateClient DEF ReloadLoad, Goto
    <2> QED BY <2>1, <2>2
  <1>7. ASSUME NEW c \in Clients, BeginCommand(c) PROVE UpdateInv'
    BY <1>0, <1>c, <1>q, <1>7, UpdateClient, CopyKept
       DEF BeginCommand, Goto, Reply, NoCopyInUse
  <1>8. ASSUME NEW c \in Clients, OnlineCommand(c) PROVE UpdateInv'
    BY <1>0, <1>c, <1>q, <1>8, UpdateClient, CopyKept
       DEF OnlineCommand, Goto, Reply, NoCopyInUse
  <1>9. ASSUME NEW c \in Clients, CheckState(c) PROVE UpdateInv'
    BY <1>0, <1>c, <1>q, <1>9, UpdateClient, CopyKept
       DEF CheckState, Goto, Reply, NoCopyInUse
  <1>10. ASSUME NEW c \in Clients, Refused(c) PROVE UpdateInv'
    BY <1>0, <1>c, <1>q, <1>10, UpdateClient, CopyKept
       DEF Refused, Goto, Reply, NoCopyInUse
  <1>11. ASSUME NEW c \in Clients, UserLoad(c) PROVE UpdateInv'
    <2>1. CASE Reply(c, "post") /\ UNCHANGED <<kickLogin, del, missed>>
      BY <1>0, <1>c, <1>q, <1>11, <2>1, UpdateClient, CopyKept
         DEF UserLoad, Goto, Reply, NoCopyInUse
    <2>2. CASE /\ del' = [del EXCEPT ![c] = arg[c] \in dbDel]
               /\ missed' = [missed EXCEPT ![c] = FALSE]
               /\ Goto(c, "setwait")
      <3>1. /\ del'[c] = (arg[c] \in dbDel)
            /\ \A d \in Clients \ {c} : del'[d] = del[d] /\ missed'[d] = missed[d]
        BY <1>b, <2>2
      <3>2. /\ pc'[c] = "setwait" /\ arg' = arg /\ dbDel' = dbDel
            /\ \A d \in Clients \ {c} : pc'[d] = pc[d]
        BY <1>0, <1>11, <2>2 DEF UserLoad, Goto
      <3>3. CopyCurrent(c)'
        BY <3>1, <3>2 DEF CopyCurrent, Stale, NoCopyInUse
      <3> QED BY <1>q, <1>11, <3>1, <3>2, <3>3, UpdateClient DEF UserLoad
    <2> QED BY <1>11, <2>1, <2>2 DEF UserLoad
  <1>12. ASSUME NEW c \in Clients, SetWaitingPassword(c) PROVE UpdateInv'
    <2>1. /\ user'[c] = arg[c] /\ \A d \in Clients \ {c} : user'[d] = user[d]
          /\ pc[c] = "setwait" /\ pc'[c] \in {"post", "finish"}
          /\ \A d \in Clients \ {c} : pc'[d] = pc[d]
      BY <1>0, <1>12 DEF SetWaitingPassword, Goto, Reply
    <2>2. /\ OnWay(c, arg[c]) => OnWay(c, arg[c])'
          /\ Stale(c, arg[c])' <=> Stale(c, arg[c])
      BY <1>q, <1>12 DEF SetWaitingPassword, OnWay, Stale
    <2>3. CopyCurrent(c)'
      BY <1>c, <2>1, <2>2, <1>12 DEF CopyCurrent, OnWay, Stale, SetWaitingPassword
    <2> QED BY <1>q, <1>12, <2>1, <2>3, UpdateClient DEF SetWaitingPassword
  <1>13. ASSUME NEW c \in Clients, PassCheck(c) PROVE UpdateInv'
    BY <1>0, <1>c, <1>q, <1>13, UpdateClient, CopyKept
       DEF PassCheck, Goto, Reply, NoCopyInUse
  <1>14. ASSUME NEW c \in Clients, SetLoggedOut(c) PROVE UpdateInv'
    BY <1>0, <1>c, <1>q, <1>14, UpdateClient, CopyKept
       DEF SetLoggedOut, Goto, Reply, NoCopyInUse
  <1>15. ASSUME NEW c \in Clients, PassKick(c) PROVE UpdateInv'
    <2>1. \A u : Queued(u) => Queued(u)'
      BY <1>0, <1>q, <1>15, QueuedPush DEF PassKick
    <2> QED BY <1>0, <1>c, <2>1, <1>15, UpdateClient, CopyKept
            DEF PassKick, Goto, Reply, NoCopyInUse
  <1>16. ASSUME NEW c \in Clients, LoginStart(c) PROVE UpdateInv'
    BY <1>0, <1>c, <1>q, <1>16, UpdateClient, CopyKept
       DEF LoginStart, Goto, Reply, NoCopyInUse
  <1>17. ASSUME NEW c \in Clients, LoginOnline(c) PROVE UpdateInv'
    BY <1>0, <1>c, <1>q, <1>17, UpdateClient, CopyKept
       DEF LoginOnline, Goto, Reply, NoCopyInUse
  <1>18. ASSUME NEW c \in Clients, LoginState(c) PROVE UpdateInv'
    BY <1>0, <1>c, <1>q, <1>18, UpdateClient, CopyKept
       DEF LoginState, Goto, Reply, NoCopyInUse
  <1>19. ASSUME NEW c \in Clients, PlainCommand(c) PROVE UpdateInv'
    BY <1>0, <1>c, <1>q, <1>19, UpdateClient, CopyKept
       DEF PlainCommand, Goto, Reply, NoCopyInUse
  <1>20. ASSUME NEW c \in Clients, QuitCommand(c) PROVE UpdateInv'
    BY <1>0, <1>c, <1>q, <1>20, UpdateClient, CopyKept
       DEF QuitCommand, Goto, Reply, NoCopyInUse
  <1>21. ASSUME NEW c \in Clients, StartTransfer(c) PROVE UpdateInv'
    BY <1>0, <1>c, <1>q, <1>21, UpdateClient, CopyKept
       DEF StartTransfer, Goto, Reply, NoCopyInUse
  <1>22. ASSUME NEW c \in Clients, StopTransfer(c) PROVE UpdateInv'
    BY <1>0, <1>c, <1>q, <1>22, UpdateClient, CopyKept
       DEF StopTransfer, Goto, Reply, NoCopyInUse
  <1>23. ASSUME NEW c \in Clients, DeluserCommand(c) PROVE UpdateInv'
    <2>1. CASE UNCHANGED dbVars
      BY <1>0, <1>c, <1>q, <1>23, <2>1, UpdateClient, CopyKept
         DEF DeluserCommand, Goto, Reply, NoCopyInUse
    <2>2. CASE /\ dbDel' = dbDel \cup {arg[c]} /\ pend' = pend \cup {arg[c]}
               /\ UNCHANGED <<user, del, arg, updated, missed, spc, task, todo, queue>>
      <3>1. \A u : \A d \in Clients : OnWay(d, u) \/ u = arg[c] => OnWay(d, u)'
        BY <1>q, <2>2 DEF OnWay
      <3>2. \A u : \A d \in Clients : u # arg[c] => (Stale(d, u)' <=> Stale(d, u))
        BY <2>2 DEF Stale
      <3>3. \A d \in Clients : pc'[d] = pc[d] \/ (d = c /\ pc[c] = "exec"
                                /\ pc'[c] \in {"delkick", "post", "finish"})
        BY <1>0, <1>23 DEF DeluserCommand, Goto, Reply
      <3> QED BY <1>c, <2>2, <3>1, <3>2, <3>3 DEF UpdateInv, CopyCurrent, NoCopyInUse
    <2> QED BY <1>23, <2>1, <2>2 DEF DeluserCommand
  <1>24. ASSUME NEW c \in Clients, KickCommand(c) PROVE UpdateInv'
    <2>1. \A u : Queued(u) => Queued(u)'
      BY <1>0, <1>q, <1>24, QueuedPush DEF KickCommand
    <2> QED BY <1>0, <1>c, <2>1, <1>24, UpdateClient, CopyKept
            DEF KickCommand, Goto, Reply, NoCopyInUse
  <1>25. ASSUME NEW c \in Clients, ReaddCommand(c) PROVE UpdateInv'
    <2>1. CASE UNCHANGED dbVars
      BY <1>0, <1>c, <1>q, <1>25, <2>1, UpdateClient, CopyKept
         DEF ReaddCommand, Goto, Reply, NoCopyInUse
    <2>2. CASE /\ dbDel' = dbDel \ {arg[c]} /\ pend' = pend \cup {arg[c]}
               /\ UNCHANGED <<user, del, arg, updated, missed, spc, task, todo, queue>>
      <3>1. \A u : \A d \in Clients : OnWay(d, u) \/ u = arg[c] => OnWay(d, u)'
        BY <1>q, <2>2 DEF OnWay
      <3>2. \A u : \A d \in Clients : u # arg[c] => (Stale(d, u)' <=> Stale(d, u))
        BY <2>2 DEF Stale
      <3>3. \A d \in Clients : pc'[d] = pc[d] \/ (d = c /\ pc[c] = "exec"
                                /\ pc'[c] \in {"delkick", "post", "finish"})
        BY <1>0, <1>25 DEF ReaddCommand, Goto, Reply
      <3> QED BY <1>c, <2>2, <3>1, <3>2, <3>3 DEF UpdateInv, CopyCurrent, NoCopyInUse
    <2> QED BY <1>25, <2>1, <2>2 DEF ReaddCommand
  <1>26. ASSUME NEW c \in Clients, ShutdownCommand(c) PROVE UpdateInv'
    <2>1. \A u : Queued(u) => Queued(u)'
      BY <1>0, <1>q, <1>26, QueuedPush DEF ShutdownCommand
    <2> QED BY <1>0, <1>c, <2>1, <1>26, UpdateClient, CopyKept
            DEF ShutdownCommand, Goto, Reply, NoCopyInUse
  <1>27. ASSUME NEW c \in Clients, Answered(c) PROVE UpdateInv'
    BY <1>0, <1>c, <1>q, <1>27, UpdateClient, CopyKept
       DEF Answered, Goto, Reply, NoCopyInUse
  <1>28. ASSUME NEW c \in Clients, EndCommand(c) PROVE UpdateInv'
    BY <1>0, <1>c, <1>q, <1>28, UpdateClient, CopyKept
       DEF EndCommand, Goto, Reply, NoCopyInUse
  <1>29. ASSUME NEW c \in Clients, OnlineIdle(c) PROVE UpdateInv'
    BY <1>0, <1>c, <1>q, <1>29, UpdateClient, CopyKept
       DEF OnlineIdle, Goto, Reply, NoCopyInUse
  <1>30. ASSUME NEW c \in Clients, Finish(c) PROVE UpdateInv'
    <2>1. CASE pc[c] = "toFin"
      BY <1>0, <1>c, <1>q, <1>30, <2>1, UpdateClient, CopyKept DEF Finish, Goto, NoCopyInUse
    <2>2. CASE pc[c] = "finish"
      BY <1>0, <1>c, <1>q, <1>30, <2>2, UpdateClient, CopyUnused DEF Finish, Goto, NoCopyInUse
    <2> QED BY <1>30, <2>1, <2>2 DEF Finish
  <1>31. ASSUME NEW c \in Clients, ClientLogout1(c) PROVE UpdateInv'
    BY <1>0, <1>c, <1>q, <1>31, UpdateClient, CopyUnused
       DEF ClientLogout1, Goto, NoCopyInUse, LogoutCount
  <1>32. ASSUME NEW c \in Clients, ClientLogout2(c) PROVE UpdateInv'
    BY <1>0, <1>c, <1>q, <1>32, UpdateClient, CopyUnused
       DEF ClientLogout2, Goto, NoCopyInUse, LogoutOnline
  <1>33. ASSUME NEW c \in Clients, PushFinished(c) PROVE UpdateInv'
    <2>1. \A u : Queued(u) => Queued(u)'
      BY <1>0, <1>33, QueuedPush DEF PushFinished
    <2> QED BY <1>0, <2>1, <1>33, UpdateClient, CopyUnused DEF PushFinished, Goto, NoCopyInUse
  <1>34. ASSUME NEW c \in Clients, VisitKick(c) PROVE UpdateInv'
    <2>1. \A u : \A d \in Clients : pc[d] # "none" /\ OnWay(d, u) => OnWay(d, u)'
      BY <1>q, <1>34 DEF VisitKick, OnWay
    <2> QED BY <1>34, <2>1, UpdateServer DEF VisitKick
  <1>35. ASSUME NEW c \in Clients, VisitLoginKick(c) PROVE UpdateInv'
    <2>1. \A u : \A d \in Clients : pc[d] # "none" /\ OnWay(d, u) => OnWay(d, u)'
      BY <1>q, <1>35 DEF VisitLoginKick, OnWay
    <2> QED BY <1>35, <2>1, UpdateServer DEF VisitLoginKick
  <1>36. ASSUME NEW c \in Clients, VisitUpdate(c) PROVE UpdateInv'
    <2> DEFINE told == state[c] = "LoggedIn" /\ user[c] = task.uid
    <2>1. /\ \A d \in Clients \ {c} : updated'[d] = updated[d] /\ missed'[d] = missed[d]
          /\ updated[c] \/ told => updated'[c]
          /\ missed[c] \/ (~told /\ task.uid \in {user[c], arg[c]}) => missed'[c]
      BY <1>b, <1>36, Zenon DEF VisitUpdate
    <2>2. /\ UNCHANGED <<pc, user, del, arg, dbDel, pend, queue, spc, task>>
          /\ todo' = todo \ {c}
      BY <1>36 DEF VisitUpdate
    <2>3. pc[c] = "setwait" => ~told
      BY DEF IInv, LoginOwner, InLogin
    <2>4. \A u : \A d \in Clients : Stale(d, u)' <=> Stale(d, u)
      BY <2>2 DEF Stale
    <2>5. \A u : \A d \in Clients \ {c} : OnWay(d, u) => OnWay(d, u)'
      BY <1>q, <2>1, <2>2 DEF OnWay
    <2>6. \A u : OnWay(c, u) => OnWay(c, u)' \/ task.uid = u
      BY <1>q, <2>1, <2>2 DEF OnWay
    <2>7. CopyCurrent(c)'
      <3>1. missed'[c] => \A u : OnWay(c, u)'
        BY DEF OnWay
      <3> QED BY <1>c, <2>1, <2>2, <2>3, <2>4, <2>6, <3>1 DEF CopyCurrent, NoCopyInUse
    <2>8. \A d \in Clients \ {c} : CopyCurrent(d)'
      BY <1>c, <2>1, <2>2, <2>4, <2>5 DEF CopyCurrent
    <2> QED BY <2>7, <2>8 DEF UpdateInv
  <1>37. ASSUME NEW c \in Clients, StopVisit(c) PROVE UpdateInv'
    <2>1. \A u : \A d \in Clients : pc[d] # "none" /\ OnWay(d, u) => OnWay(d, u)'
      BY <1>q, <1>37 DEF StopVisit, OnWay, IInv, TaskInv
    <2> QED BY <1>37, <2>1, UpdateServer DEF StopVisit
  <1>38. ASSUME NEW u \in Users, Replicate(u) PROVE UpdateInv'
    <2>1. Queued(u)'
      <3>1. PICK i \in DOMAIN queue' : queue'[i] = Task("UserUpdate", u, None)
        BY <1>0, <1>38, PushKept DEF Replicate
      <3> QED BY <3>1 DEF Queued, Task
    <2>2. \A v : Queued(v) => Queued(v)'
      BY <1>0, <1>38, QueuedPush DEF Replicate
    <2>3. \A v : \A d \in Clients : OnWay(d, v) => OnWay(d, v)'
      BY <2>1, <2>2, <1>38 DEF Replicate, OnWay
    <2> QED BY <1>38, <2>3, UpdateServer DEF Replicate
  <1>39. ASSUME PollTasks PROVE UpdateInv'
    <2>1. \A u : \A d \in Clients : OnWay(d, u) => OnWay(d, u)'
      BY <1>q, <1>39 DEF PollTasks, OnWay
    <2> QED BY <1>39, <2>1, UpdateServer DEF PollTasks
  <1>40. ASSUME PollNoTasks PROVE UpdateInv'
    <2>1. \A u : \A d \in Clients : OnWay(d, u) => OnWay(d, u)'
      BY <1>q, <1>40 DEF PollNoTasks, OnWay
    <2> QED BY <1>40, <2>1, UpdateServer DEF PollNoTasks
  <1>41. ASSUME AcceptClient PROVE UpdateInv'
    <2>1. CASE UNCHANGED pc
      <3>1. \A u : \A d \in Clients : OnWay(d, u) => OnWay(d, u)'
        BY <1>q, <1>41 DEF AcceptClient, OnWay
      <3> QED BY <1>41, <2>1, <3>1, UpdateServer DEF AcceptClient
    <2>2. ASSUME NEW c \in Clients, pc[c] = "none", Goto(c, "inner") PROVE UpdateInv'
      <3>1. \A u : \A d \in Clients : (OnWay(d, u) => OnWay(d, u)') /\ (Stale(d, u)' <=> Stale(d, u))
        BY <1>q, <1>41 DEF AcceptClient, OnWay, Stale
      <3>2. ~Stale(c, user[c])
        BY <1>c, <1>d, <2>2 DEF CopyCurrent, Stale
      <3>3. pc'[c] = "inner" /\ \A d \in Clients \ {c} : pc'[d] = pc[d]
        BY <1>0, <2>2 DEF Goto
      <3>4. UNCHANGED <<user, del, arg, updated>>
        BY <1>41 DEF AcceptClient
      <3> QED BY <1>c, <3>1, <3>2, <3>3, <3>4 DEF UpdateInv, CopyCurrent
    <2> QED BY <1>41, <2>1, <2>2 DEF AcceptClient
  <1>42. ASSUME HandleTasks PROVE UpdateInv'
    <2>1. CASE queue = <<>>
      <3>1. \A u : \A d \in Clients : OnWay(d, u) => OnWay(d, u)'
        BY <1>q, <1>42, <2>1 DEF HandleTasks, OnWay
      <3> QED BY <1>42, <2>1, <3>1, UpdateServer DEF HandleTasks
    <2>2. CASE queue # <<>>
      <3>1. /\ queue' = Tail(queue) /\ task' = Head(queue)
            /\ UNCHANGED <<pc, missed, pend, dbDel, user, del, arg, updated>>
            /\ spc = "drain"
            /\ task'.type = "UserUpdate" => todo' = Connected /\ spc' = "visit"
        BY <1>42, <2>2 DEF HandleTasks
      <3>2. \A i \in DOMAIN queue : \/ queue[i] = task'
                                    \/ \E j \in DOMAIN queue' : queue'[j] = queue[i]
        BY <1>0, <2>2, <3>1, PopKept
      <3>3. \A u : Queued(u) => Queued(u)' \/ (task'.type = "UserUpdate" /\ task'.uid = u)
        BY <3>2 DEF Queued
      <3>4. \A u : \A d \in Clients : pc[d] # "none" /\ OnWay(d, u) => OnWay(d, u)'
        BY <3>1, <3>3 DEF OnWay, Connected
      <3> QED BY <3>1, <3>4, UpdateServer
    <2> QED BY <2>1, <2>2
  <1>43. ASSUME VisitEnd PROVE UpdateInv'
    <2>1. \A d \in Clients : pc'[d] = pc[d] \/ (pc[d] = "wait" /\ pc'[d] = "answered")
      BY <1>0, <1>43 DEF VisitEnd, Goto, IInv, TaskInv, TaskFits
    <2>2. \A u : \A d \in Clients : OnWay(d, u) => OnWay(d, u)'
      BY <1>q, <1>43 DEF VisitEnd, OnWay
    <2> QED BY <1>43, <2>1, <2>2, UpdateServer DEF VisitEnd
  <1>44. ASSUME InterruptState PROVE UpdateInv'
    <2>1. \A u : \A d \in Clients : OnWay(d, u) => OnWay(d, u)'
      BY <1>q, <1>44 DEF InterruptState, OnWay
    <2> QED BY <1>44, <2>1, UpdateServer DEF InterruptState
  <1>45. ASSUME ServerLogout1 PROVE UpdateInv'
    <2>1. \A u : \A d \in Clients : OnWay(d, u) => OnWay(d, u)'
      BY <1>q, <1>45 DEF ServerLogout1, OnWay, LogoutCount
    <2> QED BY <1>45, <2>1, UpdateServer DEF ServerLogout1
  <1>46. ASSUME ServerLogout2 PROVE UpdateInv'
    <2>1. \A u : \A d \in Clients : OnWay(d, u) => OnWay(d, u)'
      BY <1>q, <1>46 DEF ServerLogout2, OnWay, LogoutOnline
    <2> QED BY <1>46, <2>1, UpdateServer DEF ServerLogout2
  <1>47. ASSUME InterruptShut PROVE UpdateInv'
    <2>1. \A u : \A d \in Clients : OnWay(d, u) => OnWay(d, u)'
      BY <1>q, <1>47 DEF InterruptShut, OnWay
    <2> QED BY <1>47, <2>1, UpdateServer DEF InterruptShut
  <1>48. ASSUME CleanupClient PROVE UpdateInv'
    <2>1. \A d \in Clients :
            \/ /\ pc'[d] = pc[d] /\ user'[d] = user[d] /\ del'[d] = del[d]
               /\ updated'[d] = updated[d] /\ missed'[d] = missed[d]
            \/ pc'[d] = "none" /\ user'[d] = None /\ del'[d] = FALSE
      BY <1>0, <1>b, <1>48 DEF CleanupClient, Destroy
    <2>2. UNCHANGED <<arg, dbDel, pend, queue>> /\ spc # "visit"
      BY <1>48 DEF CleanupClient, Destroy
    <2>3. ASSUME NEW d \in Clients PROVE CopyCurrent(d)'
      <3>1. CASE pc'[d] = "none" /\ user'[d] = None /\ del'[d] = FALSE
        BY <3>1 DEF CopyCurrent, NoCopyInUse
      <3>2. CASE /\ pc'[d] = pc[d] /\ user'[d] = user[d] /\ del'[d] = del[d]
                 /\ updated'[d] = updated[d] /\ missed'[d] = missed[d]
        <4>1. \A u : (OnWay(d, u) => OnWay(d, u)') /\ (Stale(d, u)' <=> Stale(d, u))
          BY <1>q, <2>2, <3>2 DEF OnWay, Stale
        <4> QED BY <1>c, <2>2, <3>2, <4>1 DEF CopyCurrent
      <3> QED BY <2>1, <3>1, <3>2
    <2> QED BY <2>3 DEF UpdateInv
  <1>49. ASSUME StopClients PROVE UpdateInv'
    <2>1. \A u : \A d \in Clients : OnWay(d, u) => OnWay(d, u)'
      BY <1>q, <1>49 DEF StopClients, OnWay
    <2> QED BY <1>49, <2>1, UpdateServer DEF StopClients
  <1>50. ASSUME JoinClients PROVE UpdateInv'
    <2>1. \A d \in Clients :
            \/ /\ pc'[d] = pc[d] /\ user'[d] = user[d] /\ del'[d] = del[d]
               /\ updated'[d] = updated[d] /\ missed'[d] = missed[d]
            \/ pc'[d] = "none" /\ user'[d] = None /\ del'[d] = FALSE
      BY <1>0, <1>b, <1>50 DEF JoinClients, Destroy
    <2>2. UNCHANGED <<arg, dbDel, pend, queue>> /\ spc # "visit"
      BY <1>50 DEF JoinClients, Destroy
    <2>3. ASSUME NEW d \in Clients PROVE CopyCurrent(d)'
      <3>1. CASE pc'[d] = "none" /\ user'[d] = None /\ del'[d] = FALSE
        BY <3>1 DEF CopyCurrent, NoCopyInUse
      <3>2. CASE /\ pc'[d] = pc[d] /\ user'[d] = user[d] /\ del'[d] = del[d]
                 /\ updated'[d] = updated[d] /\ missed'[d] = missed[d]
        <4>1. \A u : (OnWay(d, u) => OnWay(d, u)') /\ (Stale(d, u)' <=> Stale(d, u))
          BY <1>q, <2>2, <3>2 DEF OnWay, Stale
        <4> QED BY <1>c, <2>2, <3>2, <4>1 DEF CopyCurrent
      <3> QED BY <2>1, <3>1, <3>2
    <2> QED BY <2>3 DEF UpdateInv
  <1>51. ASSUME ExitSignal PROVE UpdateInv'
    <2>1. \A u : Queued(u) => Queued(u)'
      BY <1>0, <1>51, QueuedPush DEF ExitSignal
    <2>2. \A u : \A d \in Clients : OnWay(d, u) => OnWay(d, u)'
      BY <2>1, <1>51 DEF ExitSignal, OnWay
    <2> QED BY <1>51, <2>2, UpdateServer DEF ExitSignal
  <1>52. CASE UNCHANGED vars
    <2>1. \A u : \A d \in Clients : (OnWay(d, u) => OnWay(d, u)') /\ (Stale(d, u)' <=> Stale(d, u))
      BY <1>q, <1>52 DEF vars, OnWay, Stale
    <2> QED BY <1>c, <1>52, <2>1 DEF vars, UpdateInv, CopyCurrent
  <1> QED BY <1>1, <1>2, <1>3, <1>4, <1>5, <1>6, <1>7, <1>8, <1>9, <1>10, <1>11,
             <1>12, <1>13, <1>14, <1>15, <1>16, <1>17, <1>18, <1>19, <1>20, <1>21,
             <1>22, <1>23, <1>24, <1>25, <1>26, <1>27, <1>28, <1>29, <1>30, <1>31,
             <1>32, <1>33, <1>34, <1>35, <1>36, <1>37, <1>38, <1>39, <1>40, <1>41,
             <1>42, <1>43, <1>44, <1>45, <1>46, <1>47, <1>48, <1>49, <1>50, <1>51,
             <1>52
          DEF Next, ClientRun, ClientRead, ServerRun

\* A change of the user's record reaches every session of the user that is
\* logged in: its copy is current, or the change is in the update log, in the
\* queue, being handed out, or flagged for the next command; the one change that
\* is lost was handed out between USER and the end of PASS.
THEOREM UpdateReaches == Spec => []UpdateNotLost
PROOF
  <1>1. Init => UpdateInv
    BY NoneAssumption DEF Init, UpdateInv, CopyCurrent, NoCopyInUse, Stale
  <1>2. IInv /\ UpdateInv /\ [Next]_vars => UpdateInv'
    BY UpdateStep
  <1>3. IInv /\ UpdateInv => UpdateNotLost
    <2> SUFFICES ASSUME IInv, UpdateInv, NEW c \in Clients, state[c] = "LoggedIn",
                        pc[c] \notin {"load", "finish"}, (user[c] \in dbDel) # del[c]
                 PROVE  updated[c] \/ OnWay(c, user[c])
      BY DEF UpdateNotLost, OnWay, Queued
    <2>1. Stale(c, user[c])
      BY DEF Stale, IInv, TypeOK
    <2>2. pc[c] \notin NoCopyInUse
      BY DEF NoCopyInUse, IInv, LoginOwner, InLogin
    <2> QED BY <2>1, <2>2 DEF UpdateInv, CopyCurrent
  <1> QED BY <1>1, <1>2, <1>3, Invariance, PTL DEF Spec

-----------------------------------------------------------------------------
(* The limit of a user's logins *)

\* The user's login count stays within its limit and an excess of k.
Within(u, k) == NumLogins[u] # -1 => count[u] <= NumLogins[u] + k

\* LoginCounter::Start is the only step that raises a count.  It allows one
\* login too many when a login kick has made room for it: k is 1 then.
LEMMA WithinStep ==
  ASSUME IInv, NEW k \in {0, 1}, k = 0 => \A c \in Clients : ~kicked[c],
         \A u \in Users : Within(u, k), [Next]_vars
  PROVE  \A u \in Users : Within(u, k)'
PROOF
  <1>0. count \in [Users -> Int] /\ user \in [Clients -> Users \cup {None}]
    BY DEF IInv, TypeOK
  <1>n. NumLogins \in [Users -> Int]
    BY LimitAssumption
  <1>s. count' = count => \A u \in Users : Within(u, k)'
    BY DEF Within
  <1>l. ASSUME NEW c \in Clients, user[c] \in Users, LogoutCount(c)
        PROVE  \A u \in Users : Within(u, k)'
    BY <1>0, <1>n, <1>l DEF LogoutCount, Within
  <1>d. ASSUME NEW S \in SUBSET Clients, Destroy(S), spc \in {"join", "stop"},
               \A c \in S : pc[c] = "done"
        PROVE  count' = count
    <2>1. \A c \in S : ~guard[c]
      BY <1>d, DoneIsIdle DEF IInv
    <2> QED BY <1>d, <2>1, DestroyIdle DEF IInv
  <1> DEFINE Kept == \A u \in Users : Within(u, k)'
  <1> USE DEF acctVars
  <1>1. ASSUME NEW c \in Clients, InnerRun(c) PROVE Kept
    BY <1>s, <1>1 DEF InnerRun
  <1>2. ASSUME NEW c \in Clients, HandleLoop(c) PROVE Kept
    BY <1>s, <1>2 DEF HandleLoop
  <1>3. ASSUME NEW c \in Clients, NextCommand(c) PROVE Kept
    BY <1>s, <1>3 DEF NextCommand
  <1>4. ASSUME NEW c \in Clients, ReadFails(c) PROVE Kept
    BY <1>s, <1>4 DEF ReadFails
  <1>5. ASSUME NEW c \in Clients, ReloadUser(c) PROVE Kept
    BY <1>s, <1>5 DEF ReloadUser
  <1>6. ASSUME NEW c \in Clients, ReloadLoad(c) PROVE Kept
    BY <1>s, <1>6 DEF ReloadLoad
  <1>7. ASSUME NEW c \in Clients, BeginCommand(c) PROVE Kept
    BY <1>s, <1>7 DEF BeginCommand
  <1>8. ASSUME NEW c \in Clients, OnlineCommand(c) PROVE Kept
    BY <1>s, <1>8 DEF OnlineCommand
  <1>9. ASSUME NEW c \in Clients, CheckState(c) PROVE Kept
    BY <1>s, <1>9 DEF CheckState
  <1>10. ASSUME NEW c \in Clients, Refused(c) PROVE Kept
    BY <1>s, <1>10 DEF Refused
  <1>11. ASSUME NEW c \in Clients, UserLoad(c) PROVE Kept
    BY <1>s, <1>11 DEF UserLoad
  <1>12. ASSUME NEW c \in Clients, SetWaitingPassword(c) PROVE Kept
    BY <1>s, <1>12 DEF SetWaitingPassword
  <1>13. ASSUME NEW c \in Clients, PassCheck(c) PROVE Kept
    BY <1>s, <1>13 DEF PassCheck
  <1>14. ASSUME NEW c \in Clients, SetLoggedOut(c) PROVE Kept
    BY <1>s, <1>14 DEF SetLoggedOut
  <1>15. ASSUME NEW c \in Clients, PassKick(c) PROVE Kept
    BY <1>s, <1>15 DEF PassKick
  <1>16. ASSUME NEW c \in Clients, LoginStart(c) PROVE Kept
    <2>1. user[c] \in Users
      BY <1>16 DEF LoginStart, IInv, UserKnown
    <2>2. CASE count' = count
      BY <1>s, <2>2
    <2>3. CASE ~StartFails(user[c], kicked[c]) /\ count' = [count EXCEPT ![user[c]] = @ + 1]
      <3>1. NumLogins[user[c]] # -1 => count[user[c]] < NumLogins[user[c]] + k
        BY <1>0, <1>n, <2>1, <2>3 DEF StartFails
      <3> QED BY <1>0, <1>n, <2>1, <2>3, <3>1 DEF Within
    <2> QED BY <1>16, <2>2, <2>3 DEF LoginStart
  <1>17. ASSUME NEW c \in Clients, LoginOnline(c) PROVE Kept
    BY <1>s, <1>17 DEF LoginOnline
  <1>18. ASSUME NEW c \in Clients, LoginState(c) PROVE Kept
    BY <1>s, <1>18 DEF LoginState
  <1>19. ASSUME NEW c \in Clients, PlainCommand(c) PROVE Kept
    BY <1>s, <1>19 DEF PlainCommand
  <1>20. ASSUME NEW c \in Clients, QuitCommand(c) PROVE Kept
    BY <1>s, <1>20 DEF QuitCommand
  <1>21. ASSUME NEW c \in Clients, StartTransfer(c) PROVE Kept
    BY <1>s, <1>21 DEF StartTransfer
  <1>22. ASSUME NEW c \in Clients, StopTransfer(c) PROVE Kept
    BY <1>s, <1>22 DEF StopTransfer
  <1>23. ASSUME NEW c \in Clients, DeluserCommand(c) PROVE Kept
    BY <1>s, <1>23 DEF DeluserCommand
  <1>24. ASSUME NEW c \in Clients, KickCommand(c) PROVE Kept
    BY <1>s, <1>24 DEF KickCommand
  <1>25. ASSUME NEW c \in Clients, ReaddCommand(c) PROVE Kept
    BY <1>s, <1>25 DEF ReaddCommand
  <1>26. ASSUME NEW c \in Clients, ShutdownCommand(c) PROVE Kept
    BY <1>s, <1>26 DEF ShutdownCommand
  <1>27. ASSUME NEW c \in Clients, Answered(c) PROVE Kept
    BY <1>s, <1>27 DEF Answered
  <1>28. ASSUME NEW c \in Clients, EndCommand(c) PROVE Kept
    BY <1>s, <1>28 DEF EndCommand
  <1>29. ASSUME NEW c \in Clients, OnlineIdle(c) PROVE Kept
    BY <1>s, <1>29 DEF OnlineIdle
  <1>30. ASSUME NEW c \in Clients, Finish(c) PROVE Kept
    BY <1>s, <1>30 DEF Finish
  <1>31. ASSUME NEW c \in Clients, ClientLogout1(c) PROVE Kept
    BY <1>31, <1>l DEF ClientLogout1, IInv, LoginOwner, UserKnown
  <1>32. ASSUME NEW c \in Clients, ClientLogout2(c) PROVE Kept
    BY <1>s, <1>32 DEF ClientLogout2, LogoutOnline
  <1>33. ASSUME NEW c \in Clients, PushFinished(c) PROVE Kept
    BY <1>s, <1>33 DEF PushFinished
  <1>34. ASSUME NEW c \in Clients, VisitKick(c) PROVE Kept
    BY <1>s, <1>34 DEF VisitKick
  <1>35. ASSUME NEW c \in Clients, VisitLoginKick(c) PROVE Kept
    BY <1>s, <1>35 DEF VisitLoginKick
  <1>36. ASSUME NEW c \in Clients, VisitUpdate(c) PROVE Kept
    BY <1>s, <1>36 DEF VisitUpdate
  <1>37. ASSUME NEW c \in Clients, StopVisit(c) PROVE Kept
    BY <1>s, <1>37 DEF StopVisit
  <1>38. ASSUME NEW u \in Users, Replicate(u) PROVE Kept
    BY <1>s, <1>38 DEF Replicate
  <1>39. ASSUME PollTasks PROVE Kept
    BY <1>s, <1>39 DEF PollTasks
  <1>40. ASSUME PollNoTasks PROVE Kept
    BY <1>s, <1>40 DEF PollNoTasks
  <1>41. ASSUME AcceptClient PROVE Kept
    BY <1>s, <1>41 DEF AcceptClient
  <1>42. ASSUME HandleTasks PROVE Kept
    BY <1>s, <1>42 DEF HandleTasks
  <1>43. ASSUME VisitEnd PROVE Kept
    BY <1>s, <1>43 DEF VisitEnd
  <1>44. ASSUME InterruptState PROVE Kept
    BY <1>s, <1>44 DEF InterruptState
  <1>45. ASSUME ServerLogout1 PROVE Kept
    <2>1. cand \in Clients /\ user[cand] \in Users
      BY <1>45 DEF ServerLogout1, IInv, TaskInv, LoginOwner, ServerLogsOut, UserKnown
    <2> QED BY <1>45, <1>l, <2>1 DEF ServerLogout1
  <1>46. ASSUME ServerLogout2 PROVE Kept
    BY <1>s, <1>46 DEF ServerLogout2, LogoutOnline
  <1>47. ASSUME InterruptShut PROVE Kept
    BY <1>s, <1>47 DEF InterruptShut
  <1>48. ASSUME CleanupClient PROVE Kept
    <2>1. task.client \in Clients /\ spc = "join"
      BY <1>48 DEF CleanupClient, IInv, TaskInv, TaskFits
    <2> QED BY <1>48, <1>d, <1>s, <2>1 DEF CleanupClient
  <1>49. ASSUME StopClients PROVE Kept
    BY <1>s, <1>49 DEF StopClients
  <1>50. ASSUME JoinClients PROVE Kept
    BY <1>50, <1>d, <1>s DEF JoinClients, Connected
  <1>51. ASSUME ExitSignal PROVE Kept
    BY <1>s, <1>51 DEF ExitSignal
  <1>52. CASE UNCHANGED vars
    BY <1>s, <1>52 DEF vars
  <1> QED BY <1>1, <1>2, <1>3, <1>4, <1>5, <1>6, <1>7, <1>8, <1>9, <1>10, <1>11,
             <1>12, <1>13, <1>14, <1>15, <1>16, <1>17, <1>18, <1>19, <1>20, <1>21,
             <1>22, <1>23, <1>24, <1>25, <1>26, <1>27, <1>28, <1>29, <1>30, <1>31,
             <1>32, <1>33, <1>34, <1>35, <1>36, <1>37, <1>38, <1>39, <1>40, <1>41,
             <1>42, <1>43, <1>44, <1>45, <1>46, <1>47, <1>48, <1>49, <1>50, <1>51,
             <1>52
          DEF Next, ClientRun, ClientRead, ServerRun

\* Nobody asks for a login kick (USER !name).
NoLoginKicks == KickLogins \subseteq {FALSE}

\* Then no login kick is on its way or has been made.
KickFree ==
  /\ \A c \in Clients : ~kickLogin[c] /\ ~kicked[c] /\ pc[c] # "kick"
  /\ \A i \in DOMAIN queue : queue[i].type # "LoginKick"
  /\ task.type # "LoginKick"

\* A client's step that pushes nothing and keeps the kick flags.
LEMMA KickFreeClient ==
  ASSUME KickFree, pc \in [Clients -> ClientPcs], NEW c \in Clients,
         UNCHANGED <<kickLogin, kicked, queue, task>>,
         \A d \in Clients : pc'[d] = "kick" => pc[d] = "kick"
  PROVE  KickFree'
PROOF BY DEF KickFree

\* A push of another task.
LEMMA KickFreePush ==
  ASSUME KickFree, queue \in Seq(Tasks), NEW t \in Tasks, Push(t), t.type # "LoginKick",
         UNCHANGED <<kickLogin, kicked, task>>,
         \A d \in Clients : pc'[d] = "kick" => pc[d] = "kick"
  PROVE  KickFree'
PROOF BY PushCases DEF KickFree

\* A step that touches no kick.
LEMMA KickFreeStep ==
  ASSUME NoLoginKicks, IInv, KickFree, [Next]_vars
  PROVE  KickFree'
PROOF
  <1>0. /\ pc \in [Clients -> ClientPcs] /\ queue \in Seq(Tasks)
        /\ arg \in [Clients -> Users \cup {None}]
    BY DEF IInv, TypeOK
  <1>b. kickLogin \in [Clients -> BOOLEAN] /\ kicked \in [Clients -> BOOLEAN]
    BY DEF IInv, TypeOK
  <1> USE DEF loginVars, srvVars
  <1>1. ASSUME NEW c \in Clients, InnerRun(c) PROVE KickFree'
    BY <1>0, <1>1, KickFreeClient DEF InnerRun, Goto, Reply
  <1>2. ASSUME NEW c \in Clients, HandleLoop(c) PROVE KickFree'
    BY <1>0, <1>2, KickFreeClient DEF HandleLoop, Goto, Reply
  <1>3. ASSUME NEW c \in Clients, NextCommand(c) PROVE KickFree'
    BY <1>0, <1>3, KickFreeClient DEF NextCommand, Goto, Reply
  <1>4. ASSUME NEW c \in Clients, ReadFails(c) PROVE KickFree'
    BY <1>0, <1>4, KickFreeClient DEF ReadFails, Goto, Reply
  <1>5. ASSUME NEW c \in Clients, ReloadUser(c) PROVE KickFree'
    BY <1>0, <1>5, KickFreeClient DEF ReloadUser, Goto, Reply
  <1>6. ASSUME NEW c \in Clients, ReloadLoad(c) PROVE KickFree'
    BY <1>0, <1>6, KickFreeClient DEF ReloadLoad, Goto, Reply
  <1>7. ASSUME NEW c \in Clients, BeginCommand(c) PROVE KickFree'
    BY <1>0, <1>7, KickFreeClient DEF BeginCommand, Goto, Reply
  <1>8. ASSUME NEW c \in Clients, OnlineCommand(c) PROVE KickFree'
    BY <1>0, <1>8, KickFreeClient DEF OnlineCommand, Goto, Reply
  <1>9. ASSUME NEW c \in Clients, CheckState(c) PROVE KickFree'
    BY <1>0, <1>9, KickFreeClient DEF CheckState, Goto, Reply
  <1>10. ASSUME NEW c \in Clients, Refused(c) PROVE KickFree'
    BY <1>0, <1>10, KickFreeClient DEF Refused, Goto, Reply
  <1>11. ASSUME NEW c \in Clients, UserLoad(c) PROVE KickFree'
    <2>1. \A d \in Clients : ~kickLogin'[d]
      <3>1. CASE UNCHANGED kickLogin
        BY <3>1 DEF KickFree
      <3>2. CASE \E k \in KickLogins : kickLogin' = [kickLogin EXCEPT ![c] = k]
        BY <1>b, <3>2 DEF KickFree, NoLoginKicks
      <3> QED BY <1>11, <3>1, <3>2 DEF UserLoad
    <2>2. \A d \in Clients : pc'[d] = "kick" => pc[d] = "kick"
      BY <1>0, <1>11 DEF UserLoad, Goto, Reply
    <2> QED BY <1>11, <2>1, <2>2 DEF UserLoad, KickFree
  <1>12. ASSUME NEW c \in Clients, SetWaitingPassword(c) PROVE KickFree'
    BY <1>0, <1>12, KickFreeClient DEF SetWaitingPassword, Goto, Reply
  <1>13. ASSUME NEW c \in Clients, PassCheck(c) PROVE KickFree'
    <2>1. \A d \in Clients : pc'[d] = "kick" => pc[d] = "kick"
      BY <1>0, <1>13 DEF PassCheck, Goto, Reply, KickFree
    <2> QED BY <1>0, <1>13, <2>1, KickFreeClient DEF PassCheck
  <1>14. ASSUME NEW c \in Clients, SetLoggedOut(c) PROVE KickFree'
    BY <1>0, <1>14, KickFreeClient DEF SetLoggedOut, Goto, Reply
  <1>15. ASSUME NEW c \in Clients, PassKick(c) PROVE KickFree'
    BY <1>15 DEF PassKick, KickFree
  <1>16. ASSUME NEW c \in Clients, LoginStart(c) PROVE KickFree'
    <2>1. \A d \in Clients : ~kicked'[d]
      BY <1>b, <1>16 DEF LoginStart, KickFree
    <2>2. \A d \in Clients : pc'[d] = "kick" => pc[d] = "kick"
      BY <1>0, <1>16 DEF LoginStart, Goto, Reply
    <2> QED BY <1>16, <2>1, <2>2 DEF LoginStart, KickFree
  <1>17. ASSUME NEW c \in Clients, LoginOnline(c) PROVE KickFree'
    BY <1>0, <1>17, KickFreeClient DEF LoginOnline, Goto, Reply
  <1>18. ASSUME NEW c \in Clients, LoginState(c) PROVE KickFree'
    BY <1>0, <1>18, KickFreeClient DEF LoginState, Goto, Reply
  <1>19. ASSUME NEW c \in Clients, PlainCommand(c) PROVE KickFree'
    BY <1>0, <1>19, KickFreeClient DEF PlainCommand, Goto, Reply
  <1>20. ASSUME NEW c \in Clients, QuitCommand(c) PROVE KickFree'
    BY <1>0, <1>20, KickFreeClient DEF QuitCommand, Goto, Reply
  <1>21. ASSUME NEW c \in Clients, StartTransfer(c) PROVE KickFree'
    BY <1>0, <1>21, KickFreeClient DEF StartTransfer, Goto, Reply
  <1>22. ASSUME NEW c \in Clients, StopTransfer(c) PROVE KickFree'
    BY <1>0, <1>22, KickFreeClient DEF StopTransfer, Goto, Reply
  <1>23. ASSUME NEW c \in Clients, DeluserCommand(c) PROVE KickFree'
    BY <1>0, <1>23, KickFreeClient DEF DeluserCommand, Goto, Reply
  <1>24. ASSUME NEW c \in Clients, KickCommand(c) PROVE KickFree'
    <2>1. Task("Kick", arg[c], c) \in Tasks /\ Task("Kick", arg[c], c).type # "LoginKick"
      BY <1>0, TaskType DEF Task, TaskTypes
    <2>2. \A d \in Clients : pc'[d] = "kick" => pc[d] = "kick"
      BY <1>0, <1>24 DEF KickCommand, Goto, Reply
    <2> QED BY <1>0, <1>24, <2>1, <2>2, KickFreePush, KickFreeClient DEF KickCommand
  <1>25. ASSUME NEW c \in Clients, ReaddCommand(c) PROVE KickFree'
    BY <1>0, <1>25, KickFreeClient DEF ReaddCommand, Goto, Reply
  <1>26. ASSUME NEW c \in Clients, ShutdownCommand(c) PROVE KickFree'
    <2>1. Task("Exit", None, None) \in Tasks /\ Task("Exit", None, None).type # "LoginKick"
      BY <1>0, TaskType DEF Task, TaskTypes
    <2>2. \A d \in Clients : pc'[d] = "kick" => pc[d] = "kick"
      BY <1>0, <1>26 DEF ShutdownCommand, Goto, Reply
    <2> QED BY <1>0, <1>26, <2>1, <2>2, KickFreePush, KickFreeClient DEF ShutdownCommand
  <1>27. ASSUME NEW c \in Clients, Answered(c) PROVE KickFree'
    BY <1>0, <1>27, KickFreeClient DEF Answered, Goto, Reply
  <1>28. ASSUME NEW c \in Clients, EndCommand(c) PROVE KickFree'
    BY <1>0, <1>28, KickFreeClient DEF EndCommand, Goto, Reply
  <1>29. ASSUME NEW c \in Clients, OnlineIdle(c) PROVE KickFree'
    BY <1>0, <1>29, KickFreeClient DEF OnlineIdle, Goto, Reply
  <1>30. ASSUME NEW c \in Clients, Finish(c) PROVE KickFree'
    BY <1>0, <1>30, KickFreeClient DEF Finish, Goto, Reply
  <1>31. ASSUME NEW c \in Clients, ClientLogout1(c) PROVE KickFree'
    BY <1>0, <1>31, KickFreeClient DEF ClientLogout1, Goto, Reply
  <1>32. ASSUME NEW c \in Clients, ClientLogout2(c) PROVE KickFree'
    BY <1>0, <1>32, KickFreeClient DEF ClientLogout2, Goto, Reply
  <1>33. ASSUME NEW c \in Clients, PushFinished(c) PROVE KickFree'
    <2>1. Task("ClientFinished", None, c) \in Tasks /\ Task("ClientFinished", None, c).type # "LoginKick"
      BY <1>0, TaskType DEF Task, TaskTypes
    <2>2. \A d \in Clients : pc'[d] = "kick" => pc[d] = "kick"
      BY <1>0, <1>33 DEF PushFinished, Goto, Reply
    <2> QED BY <1>0, <1>33, <2>1, <2>2, KickFreePush, KickFreeClient DEF PushFinished
  <1>34. ASSUME NEW c \in Clients, VisitKick(c) PROVE KickFree'
    BY <1>34 DEF VisitKick, KickFree
  <1>35. ASSUME NEW c \in Clients, VisitLoginKick(c) PROVE KickFree'
    BY <1>35 DEF VisitLoginKick, KickFree
  <1>36. ASSUME NEW c \in Clients, VisitUpdate(c) PROVE KickFree'
    BY <1>36 DEF VisitUpdate, KickFree
  <1>37. ASSUME NEW c \in Clients, StopVisit(c) PROVE KickFree'
    BY <1>37 DEF StopVisit, KickFree
  <1>38. ASSUME NEW u \in Users, Replicate(u) PROVE KickFree'
    <2>1. Task("UserUpdate", u, None) \in Tasks /\ Task("UserUpdate", u, None).type # "LoginKick"
      BY TaskType DEF Task, TaskTypes
    <2> QED BY <1>0, <1>38, <2>1, KickFreePush DEF Replicate
  <1>39. ASSUME PollTasks PROVE KickFree'
    BY <1>39 DEF PollTasks, KickFree
  <1>40. ASSUME PollNoTasks PROVE KickFree'
    BY <1>40 DEF PollNoTasks, KickFree
  <1>41. ASSUME AcceptClient PROVE KickFree'
    BY <1>0, <1>41 DEF AcceptClient, Goto, KickFree
  <1>42. ASSUME HandleTasks PROVE KickFree'
    <2>1. CASE queue = <<>>
      BY <1>42, <2>1 DEF HandleTasks, KickFree
    <2>2. CASE queue # <<>>
      BY <1>0, <1>42, <2>2, PopCases DEF HandleTasks, KickFree
    <2> QED BY <2>1, <2>2
  <1>43. ASSUME VisitEnd PROVE KickFree'
    <2>1. \A d \in Clients : ~kicked'[d]
      <3>1. \/ kicked' = kicked
            \/ kicked' = [kicked EXCEPT ![task.client] = hit /\ task.type = "LoginKick"]
        BY <1>43 DEF VisitEnd
      <3>2. ~(hit /\ task.type = "LoginKick")
        BY DEF KickFree
      <3> QED BY <1>b, <3>1, <3>2, Zenon DEF KickFree
    <2>2. \A d \in Clients : pc'[d] = "kick" => pc[d] = "kick"
      BY <1>0, <1>43 DEF VisitEnd, Goto
    <2>3. UNCHANGED <<kickLogin, queue>> /\ (task' = task \/ task' = NoTask)
      BY <1>43 DEF VisitEnd
    <2> QED BY <2>1, <2>2, <2>3 DEF KickFree, NoTask, Task
  <1>44. ASSUME InterruptState PROVE KickFree'
    BY <1>44 DEF InterruptState, KickFree
  <1>45. ASSUME ServerLogout1 PROVE KickFree'
    BY <1>45 DEF ServerLogout1, KickFree
  <1>46. ASSUME ServerLogout2 PROVE KickFree'
    BY <1>46 DEF ServerLogout2, KickFree
  <1>47. ASSUME InterruptShut PROVE KickFree'
    BY <1>47 DEF InterruptShut, KickFree
  <1>48. ASSUME CleanupClient PROVE KickFree'
    <2>1. \A d \in Clients : ~kickLogin'[d] /\ ~kicked'[d] /\ pc'[d] # "kick"
      BY <1>0, <1>b, <1>48 DEF CleanupClient, Destroy, KickFree
    <2>2. queue' = queue /\ (task' = task \/ task' = NoTask)
      BY <1>48 DEF CleanupClient, Destroy
    <2> QED BY <2>1, <2>2 DEF KickFree, NoTask, Task
  <1>49. ASSUME StopClients PROVE KickFree'
    BY <1>49 DEF StopClients, KickFree
  <1>50. ASSUME JoinClients PROVE KickFree'
    <2>1. \A d \in Clients : ~kickLogin'[d] /\ ~kicked'[d] /\ pc'[d] # "kick"
      BY <1>0, <1>b, <1>50 DEF JoinClients, Destroy, KickFree
    <2>2. queue' = queue /\ (task' = task \/ task' = NoTask)
      BY <1>50 DEF JoinClients, Destroy
    <2> QED BY <2>1, <2>2 DEF KickFree, NoTask, Task
  <1>51. ASSUME ExitSignal PROVE KickFree'
    <2>1. Task("Exit", None, None) \in Tasks /\ Task("Exit", None, None).type # "LoginKick"
      BY TaskType DEF Task, TaskTypes
    <2> QED BY <1>0, <1>51, <2>1, KickFreePush DEF ExitSignal
  <1>52. CASE UNCHANGED vars
    BY <1>52 DEF vars, KickFree
  <1> QED BY <1>1, <1>2, <1>3, <1>4, <1>5, <1>6, <1>7, <1>8, <1>9, <1>10, <1>11,
             <1>12, <1>13, <1>14, <1>15, <1>16, <1>17, <1>18, <1>19, <1>20, <1>21,
             <1>22, <1>23, <1>24, <1>25, <1>26, <1>27, <1>28, <1>29, <1>30, <1>31,
             <1>32, <1>33, <1>34, <1>35, <1>36, <1>37, <1>38, <1>39, <1>40, <1>41,
             <1>42, <1>43, <1>44, <1>45, <1>46, <1>47, <1>48, <1>49, <1>50, <1>51,
             <1>52
          DEF Next, ClientRun, ClientRead, ServerRun

\* The sessions of u that are logged in.
SessionsOf(u) == {c \in Clients : state[c] = "LoggedIn" /\ user[c] = u}

\* They are all counted.
LEMMA SessionsCounted ==
  ASSUME IInv, NEW u \in Users
  PROVE  Cardinality(SessionsOf(u)) \in Int /\ Cardinality(SessionsOf(u)) <= count[u]
PROOF
  <1>1. SessionsOf(u) \subseteq Holders(u)
    BY DEF SessionsOf, Holders, IInv, LoginOwner, Counted, ServerLogsOut
  <1>2. /\ Cardinality(SessionsOf(u)) <= Cardinality(Holders(u))
        /\ Cardinality(SessionsOf(u)) \in Int
    BY <1>1, HoldersFinite, FS_Subset, FS_CardinalityType
  <1>3. count[u] = Cardinality(Holders(u))
    BY DEF IInv, LoginCountExact, Holders
  <1> QED BY <1>2, <1>3

\* Without login kicks a user is never logged in more often than num_logins
\* allows, whatever sessions end, are kicked or fail meanwhile.
THEOREM LimitHolds == NoLoginKicks => (Spec => []LoginLimit)
PROOF
  <1> SUFFICES ASSUME NoLoginKicks PROVE Spec => []LoginLimit
    OBVIOUS
  <1> DEFINE Inv == KickFree /\ \A u \in Users : Within(u, 0)
  <1>1. Init => Inv
    BY LimitAssumption DEF Init, KickFree, Within, NoTask, Task
  <1>2. IInv /\ Inv /\ [Next]_vars => Inv'
    BY KickFreeStep, WithinStep DEF KickFree
  <1>3. IInv /\ Inv => LoginLimit
    <2> SUFFICES ASSUME IInv, Inv, NEW u \in Users, NumLogins[u] # -1
                 PROVE  Cardinality(SessionsOf(u)) <= NumLogins[u]
      BY DEF LoginLimit, SessionsOf
    <2>1. count[u] \in Int /\ NumLogins[u] \in Int
      BY LimitAssumption DEF IInv, TypeOK
    <2>2. count[u] <= NumLogins[u] + 0
      BY DEF Within
    <2> HIDE DEF Inv
    <2> QED BY <2>1, <2>2, SessionsCounted
  <1> QED BY <1>1, <1>2, <1>3, Invariance, PTL DEF Spec

\* A user is logged in at most once more often than num_logins allows.
OneOverLimit ==
  \A u \in Users : NumLogins[u] # -1 =>
    Cardinality(SessionsOf(u)) <= NumLogins[u] + 1

\* With login kicks the excess never grows beyond one, however many clients of
\* the user ask for a kick at the same time.
THEOREM KicksExceedByOne == Spec => []OneOverLimit
PROOF
  <1> DEFINE Inv == \A u \in Users : Within(u, 1)
  <1>1. Init => Inv
    BY LimitAssumption DEF Init, Within
  <1>2. IInv /\ Inv /\ [Next]_vars => Inv'
    BY WithinStep
  <1>3. IInv /\ Inv => OneOverLimit
    <2> SUFFICES ASSUME IInv, Inv, NEW u \in Users, NumLogins[u] # -1
                 PROVE  Cardinality(SessionsOf(u)) <= NumLogins[u] + 1
      BY DEF OneOverLimit
    <2>1. count[u] \in Int /\ NumLogins[u] \in Int
      BY LimitAssumption DEF IInv, TypeOK
    <2>2. count[u] <= NumLogins[u] + 1
      BY DEF Within
    <2> HIDE DEF Inv
    <2> QED BY <2>1, <2>2, SessionsCounted
  <1> QED BY <1>1, <1>2, <1>3, Invariance, PTL DEF Spec

=============================================================================
