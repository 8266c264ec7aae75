------------------------------ MODULE Session ------------------------------
(***************************************************************************)
(* The life of a control connection in ebftpd: the thread of each client   *)
(* (ftp/clientimpl.cpp and the USER, PASS, QUIT and SITE handlers it runs) *)
(* interleaved with the server thread that accepts clients, drains the     *)
(* task queue and interrupts and joins clients (ftp/server.cpp,            *)
(* ftp/task/task.cpp), over the state they share: the login counter, the   *)
(* table of online clients and the user records of the database.          *)
(*                                                                         *)
(* One action is one step between two points where another thread can be   *)
(* observed: a mutex section, a reply on the control socket, the push of a *)
(* task, a wait.  The asserts of the code stop the process: they set       *)
(* fault, and no thread moves after that.                                  *)
(***************************************************************************)
EXTENDS Integers, Sequences, FiniteSets

CONSTANTS
  Clients,              \* client objects, one thread each
  Users,                \* user ids
  None,                 \* no user, no client, no command
  NumLogins,            \* acl::User::NumLogins, -1 for unlimited
  MaxPasswordAttempts,  \* ClientImpl::maxPasswordAttemps
  Commands,             \* the commands the clients of a run send
  KickLogins,           \* whether USER asks for a login kick, !name: subset of BOOLEAN
  Sigterm,              \* whether the process may be sent a SIGTERM
  MaxQueue              \* bound: no new outside task beyond this length

\* NOOP stands for every command answered in any state without touching the
\* state below (unknown commands and syntax errors too), PWD for the same when
\* logged in, XFER for RETR and STOR.
AllCommands == {"USER", "PASS", "QUIT", "NOOP", "PWD", "XFER", "KICK",
                "DELUSER", "READD", "SHUTDOWN"}

ASSUME NoneAssumption == None \notin Clients \cup Users \cup AllCommands
ASSUME FiniteAssumption == IsFiniteSet(Clients)
\* CHANGECommand::CheckNumLogins refuses a limit below -1.
ASSUME LimitAssumption == NumLogins \in [Users -> Nat \cup {-1}]
ASSUME BoundAssumption ==
  /\ MaxPasswordAttempts \in Nat \ {0}
  /\ MaxQueue \in Nat
  /\ Commands \subseteq AllCommands
  /\ KickLogins \subseteq BOOLEAN
  /\ Sigterm \in BOOLEAN

VARIABLES
  pc,         \* where each client's thread is; "none": no such client
  state,      \* ClientImpl::state
  user,       \* ClientImpl::user, the id of the loaded copy
  del,        \* the Deleted flag of that copy
  kickLogin,  \* ClientImpl::kickLogin, USER !name
  kicked,     \* LoginKickUser::Result::kicked as PASS received it
  attempts,   \* ClientImpl::passwordAttemps
  updated,    \* ClientImpl::userUpdated
  intr,       \* the thread was interrupted and its sockets shut down
  cmd, arg,   \* the command read and the user it names
  guard,      \* LoginGuard::loggedIn
  count,      \* LoginCounter::personal
  global,     \* LoginCounter::global
  online,     \* the entries of OnlineWriter
  dbDel,      \* users whose database record has the Deleted flag
  pend,       \* users with an update log entry not replicated yet
  queue,      \* Server::queue
  spc,        \* where the server thread is
  task,       \* the task it executes
  todo,       \* clients still to visit in its loop over Server::clients
  cand,       \* the client it chose or interrupts
  hit,        \* whether the task has interrupted a client
  shutdown,   \* Server::shutdown
  fault,      \* the assertion that stopped the process
  missed      \* history: an update passed this client before it logged in

sessVars  == <<state, user, del>>
loginVars == <<kickLogin, kicked, attempts>>
cmdVars   == <<cmd, arg>>
acctVars  == <<guard, count, global, online>>
dbVars    == <<dbDel, pend>>
srvVars   == <<spc, task, todo, cand, hit, shutdown>>
vars == <<pc, sessVars, loginVars, updated, intr, cmdVars, acctVars, dbVars,
          queue, srvVars, fault, missed>>

States == {"LoggedOut", "WaitingPassword", "LoggedIn", "Finished"}

ClientPcs == {"none", "inner", "loop", "read", "reload", "load", "begin", "online",
              "check", "refused", "exec", "setwait", "kick", "wait", "answered",
              "login1", "login2", "login3", "delkick", "toOut", "toFin", "xfer", "post",
              "idle", "logout1", "logout2", "finish", "push", "done"}

ServerPcs == {"loop", "drain", "visit", "setstate", "logout1", "logout2",
              "shut", "join", "accept", "stop", "exited"}

Faults == {"none", "CheckState", "OnlineCommand", "OnlineIdle", "StartTransfer",
           "StopTransfer", "EmptyUser", "Logout", "LoginCount", "Cleanup"}

TaskTypes == {"Kick", "LoginKick", "UserUpdate", "ClientFinished", "Exit"}
Task(type, uid, client) == [type |-> type, uid |-> uid, client |-> client]
Tasks == [type : TaskTypes, uid : Users \cup {None}, client : Clients \cup {None}]
NoTask == Task("Exit", None, None)

\* Server::clients
Connected == {c \in Clients : pc[c] # "none"}

Init ==
  /\ pc = [c \in Clients |-> "none"]
  /\ state = [c \in Clients |-> "LoggedOut"]
  /\ user = [c \in Clients |-> None]
  /\ del = [c \in Clients |-> FALSE]
  /\ kickLogin = [c \in Clients |-> FALSE]
  /\ kicked = [c \in Clients |-> FALSE]
  /\ attempts = [c \in Clients |-> 0]
  /\ updated = [c \in Clients |-> FALSE]
  /\ intr = [c \in Clients |-> FALSE]
  /\ cmd = [c \in Clients |-> None]
  /\ arg = [c \in Clients |-> None]
  /\ guard = [c \in Clients |-> FALSE]
  /\ count = [u \in Users |-> 0]
  /\ global = 0
  /\ online = {}
  /\ dbDel = {}
  /\ pend = {}
  /\ queue = <<>>
  /\ spc = "loop"
  /\ task = NoTask
  /\ todo = {}
  /\ cand = None
  /\ hit = FALSE
  /\ shutdown = FALSE
  /\ fault = "none"
  /\ missed = [c \in Clients |-> FALSE]

-----------------------------------------------------------------------------
(* Helpers *)

Goto(c, l) == pc' = [pc EXCEPT ![c] = l]

\* A reply on the control socket, then label l.  The write throws when the
\* peer is gone, and always once the server has interrupted the thread: the
\* exception unwinds to the scope guard of Run.
Reply(c, l) == \E p \in {"finish"} \cup IF intr[c] THEN {} ELSE {l} : Goto(c, p)

Push(t) == queue' = Append(queue, t)

\* An assertion that fails stops the process.
Check(ok, site) == fault' = IF ok THEN fault ELSE site

-----------------------------------------------------------------------------
(* The client thread: connection, command loop and end *)

\* InnerRun up to the banner: bouncer check, IDNT, address check and ident
\* lookup either refuse the connection or reach Handle.
InnerRun(c) ==
  /\ pc[c] = "inner"
  /\ Reply(c, "loop")
  /\ UNCHANGED <<sessVars, loginVars, updated, intr, cmdVars, acctVars, dbVars,
                 queue, srvVars, fault, missed>>

\* while (State() != ClientState::Finished)
HandleLoop(c) ==
  /\ pc[c] = "loop"
  /\ Goto(c, IF state[c] = "Finished" THEN "finish" ELSE "read")
  /\ cmd' = [cmd EXCEPT ![c] = None]
  /\ arg' = [arg EXCEPT ![c] = None]
  /\ UNCHANGED <<sessVars, loginVars, updated, intr, acctVars, dbVars, queue,
                 srvVars, fault, missed>>

\* Bound: one shutdown at a time is asked for.
ExitRequested ==
  \/ shutdown \/ \E c \in Clients : cmd[c] = "SHUTDOWN"
  \/ \E i \in DOMAIN queue : queue[i].type = "Exit"

\* NextCommand returns a line.  A line that was pipelined is still in the
\* socket's buffer when the server has shut the socket down.
NextCommand(c) ==
  /\ pc[c] = "read"
  /\ \E k \in Commands, u \in Users :
       /\ k \in {"SHUTDOWN", "DELUSER", "READD"} => Len(queue) < MaxQueue
       /\ k = "SHUTDOWN" => ~ExitRequested
       /\ cmd' = [cmd EXCEPT ![c] = k]
       /\ arg' = [arg EXCEPT ![c] = u]
  /\ Goto(c, "reload")
  /\ UNCHANGED <<sessVars, loginVars, updated, intr, acctVars, dbVars, queue,
                 srvVars, fault, missed>>

\* NextCommand throws: end of stream, idle timeout, interruption.
ReadFails(c) ==
  /\ pc[c] = "read"
  /\ Goto(c, "finish")
  /\ UNCHANGED <<sessVars, loginVars, updated, intr, cmdVars, acctVars, dbVars,
                 queue, srvVars, fault, missed>>

\* if (userUpdated && !ReloadUser()) break: the flag is cleared first ...
ReloadUser(c) ==
  /\ pc[c] = "reload"
  /\ updated' = [updated EXCEPT ![c] = FALSE]
  /\ Goto(c, IF updated[c] THEN "load" ELSE "begin")
  /\ UNCHANGED <<sessVars, loginVars, intr, cmdVars, acctVars, dbVars, queue,
                 srvVars, fault, missed>>

\* ... then the record is read; a deleted user's session ends at once.
ReloadLoad(c) ==
  /\ pc[c] = "load"
  /\ IF user[c] \in dbDel
     THEN Goto(c, "finish") /\ UNCHANGED del
     ELSE Goto(c, "begin") /\ del' = [del EXCEPT ![c] = FALSE]
  /\ UNCHANGED <<state, user, loginVars, updated, intr, cmdVars, acctVars, dbVars,
                 queue, srvVars, fault, missed>>

\* ExecuteCommand: if (State() == LoggedIn) OnlineWriter.Command(...)
BeginCommand(c) ==
  /\ pc[c] = "begin"
  /\ Goto(c, IF state[c] = "LoggedIn" THEN "online" ELSE "check")
  /\ UNCHANGED <<sessVars, loginVars, updated, intr, cmdVars, acctVars, dbVars,
                 queue, srvVars, fault, missed>>

OnlineCommand(c) ==
  /\ pc[c] = "online"
  /\ Check(c \in online, "OnlineCommand")
  /\ Goto(c, "check")
  /\ UNCHANGED <<sessVars, loginVars, updated, intr, cmdVars, acctVars, dbVars,
                 queue, srvVars, missed>>

\* The state the command table asks for.
RequiredState(k) ==
  CASE k = "USER" -> "LoggedOut"
    [] k = "PASS" -> "WaitingPassword"
    [] k \in {"QUIT", "NOOP"} -> "AnyState"
    [] OTHER -> "LoggedIn"

CheckState(c) ==
  /\ pc[c] = "check"
  /\ LET req == RequiredState(cmd[c]) IN
     IF req \in {state[c], "AnyState"} THEN Goto(c, "exec")
     ELSE IF state[c] = "Finished" THEN Goto(c, "refused")
     ELSE Reply(c, "refused")
  /\ UNCHANGED <<sessVars, loginVars, updated, intr, cmdVars, acctVars, dbVars,
                 queue, srvVars, fault, missed>>

\* The assertion at the end of CheckState reads the state once more.
Refused(c) ==
  /\ pc[c] = "refused"
  /\ Check(state[c] # "Finished", "CheckState")
  /\ Goto(c, "post")
  /\ UNCHANGED <<sessVars, loginVars, updated, intr, cmdVars, acctVars, dbVars,
                 queue, srvVars, missed>>

\* After the command: if (State() == LoggedIn) OnlineWriter.Idle(...)
EndCommand(c) ==
  /\ pc[c] = "post"
  /\ Goto(c, IF state[c] = "LoggedIn" THEN "idle" ELSE "loop")
  /\ UNCHANGED <<sessVars, loginVars, updated, intr, cmdVars, acctVars, dbVars,
                 queue, srvVars, fault, missed>>

OnlineIdle(c) ==
  /\ pc[c] = "idle"
  /\ Check(c \in online, "OnlineIdle")
  /\ Goto(c, "loop")
  /\ UNCHANGED <<sessVars, loginVars, updated, intr, cmdVars, acctVars, dbVars,
                 queue, srvVars, missed>>

\* A faulty Finish: whether to log out is read from the login guard, not from
\* the state that the mutex section replaced.
FinishByGuard(c) ==
  /\ pc[c] \in {"toFin", "finish"}
  /\ state' = [state EXCEPT ![c] = "Finished"]
  /\ Goto(c, IF guard[c] THEN "logout1"
             ELSE IF pc[c] = "toFin" THEN "post" ELSE "push")
  /\ UNCHANGED <<user, del, loginVars, updated, intr, cmdVars, acctVars, dbVars,
                 queue, srvVars, fault, missed>>

\* SetState(Finished) by the client's own thread, from a handler or from the
\* scope guard of Run.  The logout follows when the mutex section found the
\* client logged in.
Finish(c) ==
  /\ pc[c] \in {"toFin", "finish"}
  /\ state' = [state EXCEPT ![c] = "Finished"]
  /\ Goto(c, IF state[c] = "LoggedIn" THEN "logout1"
             ELSE IF pc[c] = "toFin" THEN "post" ELSE "push")
  /\ UNCHANGED <<user, del, loginVars, updated, intr, cmdVars, acctVars, dbVars,
                 queue, srvVars, fault, missed>>

\* A faulty LogoutCount: only the personal count is given back.
LogoutCountPersonal(c) ==
  /\ fault' = IF guard[c] THEN fault ELSE "Logout"
  /\ count' = [count EXCEPT ![user[c]] = @ - 1]
  /\ UNCHANGED <<guard, global, online>>

\* The first half of LoginGuard::Logout: its assert and LoginCounter::Stop.
LogoutCount(c) ==
  LET u == user[c] IN
  /\ fault' = IF ~guard[c] THEN "Logout"
              ELSE IF count[u] > 0 /\ global > 0 THEN fault ELSE "LoginCount"
  /\ count' = [count EXCEPT ![u] = @ - 1]
  /\ global' = global - 1
  /\ UNCHANGED <<guard, online>>

\* The second half: OnlineWriter::LoggedOut, loggedIn = false.
LogoutOnline(c) ==
  /\ online' = online \ {c}
  /\ guard' = [guard EXCEPT ![c] = FALSE]
  /\ UNCHANGED <<count, global>>

ClientLogout1(c) ==
  /\ pc[c] = "logout1"
  /\ LogoutCount(c)
  /\ Goto(c, "logout2")
  /\ UNCHANGED <<sessVars, loginVars, updated, intr, cmdVars, dbVars, queue,
                 srvVars, missed>>

\* A handler that finished the client only has no-ops left (post, loop).
ClientLogout2(c) ==
  /\ pc[c] = "logout2"
  /\ LogoutOnline(c)
  /\ Goto(c, "finish")
  /\ UNCHANGED <<sessVars, loginVars, updated, intr, cmdVars, dbVars, queue,
                 srvVars, fault, missed>>

\* A faulty PushFinished: nobody is told of a client that was interrupted.
PushFinishedUnlessKicked(c) ==
  /\ pc[c] = "push"
  /\ IF intr[c] THEN UNCHANGED queue ELSE Push(Task("ClientFinished", None, c))
  /\ Goto(c, "done")
  /\ cmd' = [cmd EXCEPT ![c] = None]
  /\ arg' = [arg EXCEPT ![c] = None]
  /\ UNCHANGED <<sessVars, loginVars, updated, intr, acctVars, dbVars, srvVars,
                 fault, missed>>

\* The rest of the scope guard: ClientFinished is pushed, then the thread
\* purges the user's trash, logs its traffic and ends.
PushFinished(c) ==
  /\ pc[c] = "push"
  /\ Push(Task("ClientFinished", None, c))
  /\ Goto(c, "done")
  /\ cmd' = [cmd EXCEPT ![c] = None]
  /\ arg' = [arg EXCEPT ![c] = None]
  /\ UNCHANGED <<sessVars, loginVars, updated, intr, acctVars, dbVars, srvVars,
                 fault, missed>>

-----------------------------------------------------------------------------
(* The client thread: the handlers *)

\* USERCommand: an unknown user or one that must use TLS is refused; else the
\* record is loaded ...
UserLoad(c) ==
  /\ pc[c] = "exec" /\ cmd[c] = "USER"
  /\ \/ Reply(c, "post") /\ UNCHANGED <<kickLogin, del, missed>>
     \/ /\ \E k \in KickLogins : kickLogin' = [kickLogin EXCEPT ![c] = k]
        /\ del' = [del EXCEPT ![c] = arg[c] \in dbDel]
        /\ missed' = [missed EXCEPT ![c] = FALSE]
        /\ Goto(c, "setwait")
  /\ UNCHANGED <<state, user, kicked, attempts, updated, intr, cmdVars, acctVars,
                 dbVars, queue, srvVars, fault>>

\* ... and SetWaitingPassword makes it the client's user.
SetWaitingPassword(c) ==
  /\ pc[c] = "setwait"
  /\ state' = [state EXCEPT ![c] = "WaitingPassword"]
  /\ user' = [user EXCEPT ![c] = arg[c]]
  /\ Reply(c, "post")
  /\ UNCHANGED <<del, loginVars, updated, intr, cmdVars, acctVars, dbVars, queue,
                 srvVars, fault, missed>>

\* ++passwordAttemps, on a good password too.  Only the comparison with the
\* maximum is ever made, so the count stops there.
VerifyPassword(n) == IF n < MaxPasswordAttempts THEN n + 1 ELSE n

\* PASSCommand up to the login kick.  The reply to a refusal comes before the
\* SetState it is followed by; siteop only mode refuses without a SetState.
PassCheck(c) ==
  /\ pc[c] = "exec" /\ cmd[c] = "PASS"
  /\ attempts' = [attempts EXCEPT ![c] = VerifyPassword(@)]
  /\ \/ Reply(c, IF attempts'[c] >= MaxPasswordAttempts THEN "toFin" ELSE "toOut")
     \/ Reply(c, "toFin")         \* address, directory or expiry
     \/ ~del[c] /\ Reply(c, "post")        \* siteop only
     \/ ~del[c] /\ Goto(c, IF kickLogin[c] THEN "kick" ELSE "login1")
  /\ UNCHANGED <<sessVars, kickLogin, kicked, updated, intr, cmdVars, acctVars,
                 dbVars, queue, srvVars, fault, missed>>

\* SetState(LoggedOut) after a bad password.
SetLoggedOut(c) ==
  /\ pc[c] = "toOut"
  /\ state' = [state EXCEPT ![c] = "LoggedOut"]
  /\ Goto(c, "post")
  /\ UNCHANGED <<user, del, loginVars, updated, intr, cmdVars, acctVars, dbVars,
                 queue, srvVars, fault, missed>>

\* LoginCounter::LoginsUsed
LoginsUsed(u) == NumLogins[u] # -1 /\ count[u] >= NumLogins[u]

\* if (LoginsUsed(...)) push LoginKickUser and wait for its future
PassKick(c) ==
  /\ pc[c] = "kick"
  /\ IF LoginsUsed(user[c])
     THEN Push(Task("LoginKick", user[c], c)) /\ Goto(c, "wait")
     ELSE Goto(c, "login1") /\ UNCHANGED queue
  /\ UNCHANGED <<sessVars, loginVars, updated, intr, cmdVars, acctVars, dbVars,
                 srvVars, fault, missed>>

\* A faulty StartFails: off by one.
StartFailsLate(u, kick) ==
  NumLogins[u] # -1 /\ count[u] - (IF kick THEN 1 ELSE 0) > NumLogins[u]

\* LoginCounter::Start fails for the personal limit only: the statement that
\* enforces the global one is commented out.
StartFails(u, kick) ==
  NumLogins[u] # -1 /\ count[u] - (IF kick THEN 1 ELSE 0) >= NumLogins[u]

\* SetLoggedIn in three steps: LoginCounter::Start ...
LoginStart(c) ==
  /\ pc[c] = "login1"
  /\ LET u == user[c] IN
     IF StartFails(u, kicked[c])
     THEN Reply(c, "toFin") /\ UNCHANGED <<count, global>>
     ELSE /\ count' = [count EXCEPT ![u] = @ + 1]
          /\ global' = global + 1
          /\ Goto(c, "login2")
  /\ kicked' = [kicked EXCEPT ![c] = FALSE]
  /\ UNCHANGED <<sessVars, kickLogin, attempts, updated, intr, cmdVars, guard,
                 online, dbVars, queue, srvVars, fault, missed>>

\* A faulty LoginOnline: loggedIn is not set.
LoginOnlineNoFlag(c) ==
  /\ pc[c] = "login2"
  /\ online' = online \cup {c}
  /\ Goto(c, "login3")
  /\ UNCHANGED <<sessVars, loginVars, updated, intr, cmdVars, guard, count, global,
                 dbVars, queue, srvVars, fault, missed>>

\* A faulty LoginOnline: the client is not entered in the online table.
LoginOnlineNoEntry(c) ==
  /\ pc[c] = "login2"
  /\ guard' = [guard EXCEPT ![c] = TRUE]
  /\ Goto(c, "login3")
  /\ UNCHANGED <<sessVars, loginVars, updated, intr, cmdVars, count, global, online,
                 dbVars, queue, srvVars, fault, missed>>

\* ... OnlineWriter::LoggedIn and loggedIn = true ...
LoginOnline(c) ==
  /\ pc[c] = "login2"
  /\ online' = online \cup {c}
  /\ guard' = [guard EXCEPT ![c] = TRUE]
  /\ Goto(c, "login3")
  /\ UNCHANGED <<sessVars, loginVars, updated, intr, cmdVars, count, global,
                 dbVars, queue, srvVars, fault, missed>>

\* ... and the state, whatever it is by now.
LoginState(c) ==
  /\ pc[c] = "login3"
  /\ state' = [state EXCEPT ![c] = "LoggedIn"]
  /\ Reply(c, "post")
  /\ UNCHANGED <<user, del, loginVars, updated, intr, cmdVars, acctVars, dbVars,
                 queue, srvVars, fault, missed>>

\* Commands with no effect on the state modelled here.
PlainCommand(c) ==
  /\ pc[c] = "exec" /\ cmd[c] \in {"NOOP", "PWD"}
  /\ Reply(c, "post")
  /\ UNCHANGED <<sessVars, loginVars, updated, intr, cmdVars, acctVars, dbVars,
                 queue, srvVars, fault, missed>>

QuitCommand(c) ==
  /\ pc[c] = "exec" /\ cmd[c] = "QUIT"
  /\ Reply(c, "toFin")
  /\ UNCHANGED <<sessVars, loginVars, updated, intr, cmdVars, acctVars, dbVars,
                 queue, srvVars, fault, missed>>

\* RETR and STOR: OnlineTransferUpdater's constructor and destructor bracket
\* the transfer.
StartTransfer(c) ==
  /\ pc[c] = "exec" /\ cmd[c] = "XFER"
  /\ \/ Check(c \in online, "StartTransfer") /\ Goto(c, "xfer")
     \/ UNCHANGED fault /\ Reply(c, "post")
  /\ UNCHANGED <<sessVars, loginVars, updated, intr, cmdVars, acctVars, dbVars,
                 queue, srvVars, missed>>

StopTransfer(c) ==
  /\ pc[c] = "xfer"
  /\ Check(c \in online, "StopTransfer")
  /\ Reply(c, "post")
  /\ UNCHANGED <<sessVars, loginVars, updated, intr, cmdVars, acctVars, dbVars,
                 queue, srvVars, missed>>

\* A faulty DeluserCommand: no update log entry is written.
DeluserCommandNoLog(c) ==
  /\ pc[c] = "exec" /\ cmd[c] = "DELUSER"
  /\ \/ Reply(c, "post") /\ UNCHANGED dbVars
     \/ /\ arg[c] \notin dbDel
        /\ dbDel' = dbDel \cup {arg[c]}
        /\ Goto(c, "delkick")
        /\ UNCHANGED pend
  /\ UNCHANGED <<sessVars, loginVars, updated, intr, cmdVars, acctVars, queue,
                 srvVars, fault, missed>>

\* SITE DELUSER refuses, or sets the flag in the record and then kicks.
DeluserCommand(c) ==
  /\ pc[c] = "exec" /\ cmd[c] = "DELUSER"
  /\ \/ Reply(c, "post") /\ UNCHANGED dbVars
     \/ /\ arg[c] \notin dbDel
        /\ dbDel' = dbDel \cup {arg[c]}
        /\ pend' = pend \cup {arg[c]}
        /\ Goto(c, "delkick")
  /\ UNCHANGED <<sessVars, loginVars, updated, intr, cmdVars, acctVars, queue,
                 srvVars, fault, missed>>

\* SITE KICK, and the end of SITE DELUSER: the kick is pushed and the handler
\* waits for its future.
KickCommand(c) ==
  /\ \/ pc[c] = "exec" /\ cmd[c] = "KICK"
     \/ pc[c] = "delkick" /\ cmd[c] = "DELUSER"
  /\ \/ pc[c] = "exec" /\ Reply(c, "post") /\ UNCHANGED queue   \* refused
     \/ Push(Task("Kick", arg[c], c)) /\ Goto(c, "wait")
  /\ UNCHANGED <<sessVars, loginVars, updated, intr, cmdVars, acctVars, dbVars,
                 srvVars, fault, missed>>

ReaddCommand(c) ==
  /\ pc[c] = "exec" /\ cmd[c] = "READD"
  /\ \/ UNCHANGED dbVars                                  \* refused
     \/ /\ arg[c] \in dbDel
        /\ dbDel' = dbDel \ {arg[c]}
        /\ pend' = pend \cup {arg[c]}
  /\ Reply(c, "post")
  /\ UNCHANGED <<sessVars, loginVars, updated, intr, cmdVars, acctVars, queue,
                 srvVars, fault, missed>>

\* SITE SHUTDOWN FULL: the reply, then the push.
ShutdownCommand(c) ==
  /\ pc[c] = "exec" /\ cmd[c] = "SHUTDOWN"
  /\ \/ Goto(c, "finish") /\ UNCHANGED queue
     \/ ~intr[c] /\ Push(Task("Exit", None, None)) /\ Goto(c, "post")
  /\ UNCHANGED <<sessVars, loginVars, updated, intr, cmdVars, acctVars, dbVars,
                 srvVars, fault, missed>>

\* The future is ready: PASS goes on to SetLoggedIn, SITE replies.
Answered(c) ==
  /\ pc[c] = "answered"
  /\ IF cmd[c] = "PASS" THEN Goto(c, "login1") ELSE Reply(c, "post")
  /\ UNCHANGED <<sessVars, loginVars, updated, intr, cmdVars, acctVars, dbVars,
                 queue, srvVars, fault, missed>>

-----------------------------------------------------------------------------
(* The server thread *)

\* while (!shutdown) AcceptClients(): the interrupt pipe is readable ...
PollTasks ==
  /\ spc = "loop" /\ ~shutdown /\ queue # <<>>
  /\ spc' = "drain"
  /\ UNCHANGED <<pc, sessVars, loginVars, updated, intr, cmdVars, acctVars,
                 dbVars, queue, task, todo, cand, hit, shutdown, fault, missed>>

\* ... or not yet (the byte is written after the push) ...
PollNoTasks ==
  /\ spc = "loop" /\ ~shutdown
  /\ spc' = "accept"
  /\ UNCHANGED <<pc, sessVars, loginVars, updated, intr, cmdVars, acctVars,
                 dbVars, queue, task, todo, cand, hit, shutdown, fault, missed>>

\* ... and then a listening socket may be: AcceptClient.
AcceptClient ==
  /\ spc = "accept"
  /\ spc' = "loop"
  /\ \/ UNCHANGED pc
     \/ \E c \in Clients : pc[c] = "none" /\ Goto(c, "inner")
  /\ UNCHANGED <<sessVars, loginVars, updated, intr, cmdVars, acctVars, dbVars,
                 queue, task, todo, cand, hit, shutdown, fault, missed>>

\* HandleTasks: the next task, until the queue is empty.
HandleTasks ==
  /\ spc = "drain"
  /\ IF queue = <<>>
     THEN spc' = "accept" /\ UNCHANGED <<queue, task, todo, shutdown>>
     ELSE LET t == Head(queue) IN
          /\ queue' = Tail(queue)
          /\ task' = t
          /\ todo' = IF t.type \in {"Kick", "LoginKick", "UserUpdate"}
                     THEN Connected ELSE {}
          /\ shutdown' = (shutdown \/ t.type = "Exit")
          /\ spc' = CASE t.type = "Exit" -> "drain"
                      [] t.type = "ClientFinished" -> "join"
                      [] OTHER -> "visit"
  /\ UNCHANGED <<pc, sessVars, loginVars, updated, intr, cmdVars, acctVars,
                 dbVars, cand, hit, fault, missed>>

\* One iteration of KickUser::Execute's loop over the clients.
VisitKick(c) ==
  /\ spc = "visit" /\ task.type = "Kick" /\ c \in todo
  /\ Check(user[c] # None, "EmptyUser")
  /\ todo' = todo \ {c}
  /\ IF user[c] = task.uid
     THEN spc' = "setstate" /\ cand' = c
     ELSE UNCHANGED <<spc, cand>>
  /\ UNCHANGED <<pc, sessVars, loginVars, updated, intr, cmdVars, acctVars,
                 dbVars, queue, task, hit, shutdown, missed>>

\* One iteration of LoginKickUser::Execute's loop: any logged in client of the
\* user may turn out to be the one idle for longest.
VisitLoginKick(c) ==
  /\ spc = "visit" /\ task.type = "LoginKick" /\ c \in todo
  /\ todo' = todo \ {c}
  /\ cand' \in IF state[c] = "LoggedIn" /\ user[c] = task.uid
               THEN {c} \cup ({cand} \ {None}) ELSE {cand}
  /\ UNCHANGED <<pc, sessVars, loginVars, updated, intr, cmdVars, acctVars,
                 dbVars, queue, spc, task, hit, shutdown, fault, missed>>

\* One iteration of UserUpdate::Execute's loop.
VisitUpdate(c) ==
  /\ spc = "visit" /\ task.type = "UserUpdate" /\ c \in todo
  /\ todo' = todo \ {c}
  /\ LET told == state[c] = "LoggedIn" /\ user[c] = task.uid IN
     /\ updated' = [updated EXCEPT ![c] = @ \/ told]
     /\ missed' = [missed EXCEPT ![c] =
                     @ \/ (~told /\ task.uid \in {user[c], arg[c]})]
  /\ UNCHANGED <<pc, sessVars, loginVars, intr, cmdVars, acctVars, dbVars,
                 queue, spc, task, cand, hit, shutdown, fault>>

\* A faulty VisitEnd: a kick that finds no client never sets its promise.
VisitEndNoPromise ==
  /\ spc = "visit" /\ todo = {}
  /\ IF task.type = "LoginKick" /\ cand # None /\ ~hit
     THEN spc' = "setstate" /\ UNCHANGED <<pc, kicked, cand, hit, task>>
     ELSE /\ spc' = "drain" /\ cand' = None /\ hit' = FALSE /\ task' = NoTask
          /\ IF hit THEN /\ Goto(task.client, "answered")
                         /\ kicked' = [kicked EXCEPT ![task.client] = task.type = "LoginKick"]
                    ELSE UNCHANGED <<pc, kicked>>
  /\ UNCHANGED <<sessVars, kickLogin, attempts, updated, intr, cmdVars, acctVars,
                 dbVars, queue, todo, shutdown, fault, missed>>

\* The loop is over: LoginKickUser scans again if its choice logged out
\* meanwhile and interrupts it otherwise; a kick keeps its promise.
VisitEnd ==
  /\ spc = "visit" /\ todo = {}
  /\ LET pick == task.type = "LoginKick" /\ cand # None /\ ~hit IN
     \/ /\ pick /\ state[cand] # "LoggedIn"
        /\ todo' = Connected /\ cand' = None
        /\ UNCHANGED <<pc, kicked, spc, hit, task>>
     \/ /\ pick /\ state[cand] = "LoggedIn"
        /\ spc' = "setstate"
        /\ UNCHANGED <<pc, kicked, todo, cand, hit, task>>
     \/ /\ ~pick
        /\ spc' = "drain" /\ cand' = None /\ hit' = FALSE /\ task' = NoTask
        /\ IF task.type = "UserUpdate" THEN UNCHANGED <<pc, kicked>>
           ELSE /\ Goto(task.client, "answered")
                /\ kicked' = [kicked EXCEPT ![task.client] =
                                hit /\ task.type = "LoginKick"]
        /\ UNCHANGED todo
  /\ UNCHANGED <<sessVars, kickLogin, attempts, updated, intr, cmdVars, acctVars,
                 dbVars, queue, shutdown, fault, missed>>

\* ClientImpl::Interrupt: SetState(Finished), with the logout on this thread
\* when the client was logged in ...
InterruptState ==
  /\ spc = "setstate"
  /\ state' = [state EXCEPT ![cand] = "Finished"]
  /\ spc' = IF state[cand] = "LoggedIn" THEN "logout1" ELSE "shut"
  /\ UNCHANGED <<pc, user, del, loginVars, updated, intr, cmdVars, acctVars,
                 dbVars, queue, task, todo, cand, hit, shutdown, fault, missed>>

ServerLogout1 ==
  /\ spc = "logout1"
  /\ LogoutCount(cand)
  /\ spc' = "logout2"
  /\ UNCHANGED <<pc, sessVars, loginVars, updated, intr, cmdVars, dbVars, queue,
                 task, todo, cand, hit, shutdown, missed>>

ServerLogout2 ==
  /\ spc = "logout2"
  /\ LogoutOnline(cand)
  /\ spc' = "shut"
  /\ UNCHANGED <<pc, sessVars, loginVars, updated, intr, cmdVars, dbVars, queue,
                 task, todo, cand, hit, shutdown, fault, missed>>

\* ... then the thread is interrupted and the sockets are shut down.
InterruptShut ==
  /\ spc = "shut"
  /\ intr' = [intr EXCEPT ![cand] = TRUE]
  /\ hit' = (task # NoTask)
  /\ cand' = IF task.type = "LoginKick" THEN cand ELSE None
  /\ spc' = IF task = NoTask THEN "stop" ELSE "visit"
  /\ UNCHANGED <<pc, sessVars, loginVars, updated, cmdVars, acctVars, dbVars,
                 queue, task, todo, shutdown, fault, missed>>

-----------------------------------------------------------------------------
(* The end of a client and of the server *)

\* The Client objects of S are destroyed: ~LoginGuard logs out if it has to,
\* and a later connection starts from a new object.
Destroy(S) ==
  LET Reset(f, v) == [c \in Clients |-> IF c \in S THEN v ELSE f[c]] IN
  /\ pc' = Reset(pc, "none")
  /\ state' = Reset(state, "LoggedOut")
  /\ user' = Reset(user, None)
  /\ del' = Reset(del, FALSE)
  /\ kickLogin' = Reset(kickLogin, FALSE)
  /\ kicked' = Reset(kicked, FALSE)
  /\ attempts' = Reset(attempts, 0)
  /\ updated' = Reset(updated, FALSE)
  /\ intr' = Reset(intr, FALSE)
  /\ missed' = Reset(missed, FALSE)
  /\ guard' = Reset(guard, FALSE)
  /\ online' = online \ {c \in S : guard[c]}
  /\ count' = [u \in Users |->
                 count[u] - Cardinality({c \in S : guard[c] /\ user[c] = u})]
  /\ global' = global - Cardinality({c \in S : guard[c]})
  /\ UNCHANGED <<cmdVars, dbVars, queue, shutdown, cand, hit>>

\* Server::CleanupClient, after the thread has ended.
CleanupClient ==
  /\ spc = "join"
  /\ pc[task.client] = "done"
  /\ Check(state[task.client] = "Finished", "Cleanup")
  /\ Destroy({task.client})
  /\ spc' = "drain" /\ task' = NoTask
  /\ UNCHANGED todo

\* Server::Run after its loop: StopClients interrupts every client ...
StopClients ==
  /\ spc = "loop" /\ shutdown
  /\ spc' = "stop"
  /\ todo' = Connected
  /\ UNCHANGED <<pc, sessVars, loginVars, updated, intr, cmdVars, acctVars,
                 dbVars, queue, task, cand, hit, shutdown, fault, missed>>

StopVisit(c) ==
  /\ spc = "stop" /\ c \in todo
  /\ todo' = todo \ {c}
  /\ cand' = c
  /\ spc' = "setstate"
  /\ UNCHANGED <<pc, sessVars, loginVars, updated, intr, cmdVars, acctVars,
                 dbVars, queue, task, hit, shutdown, fault, missed>>

\* ... joins every client and destroys them.
JoinClients ==
  /\ spc = "stop" /\ todo = {}
  /\ \A c \in Connected : pc[c] = "done"
  /\ Destroy(Connected)
  /\ spc' = "exited"
  /\ UNCHANGED <<task, todo, fault>>

-----------------------------------------------------------------------------
(* The other threads *)

\* The replicator reads the update log and calls back: UserUpdate.
Replicate(u) ==
  /\ u \in pend /\ Len(queue) < MaxQueue
  /\ pend' = pend \ {u}
  /\ Push(Task("UserUpdate", u, None))
  /\ UNCHANGED <<pc, sessVars, loginVars, updated, intr, cmdVars, acctVars,
                 dbDel, srvVars, fault, missed>>

\* signals::Handler pushes Exit on SIGTERM, SIGQUIT and SIGINT.
ExitSignal ==
  /\ Sigterm /\ ~ExitRequested /\ Len(queue) < MaxQueue
  /\ Push(Task("Exit", None, None))
  /\ UNCHANGED <<pc, sessVars, loginVars, updated, intr, cmdVars, acctVars,
                 dbVars, srvVars, fault, missed>>

-----------------------------------------------------------------------------

\* What a client's thread does by itself, without new input from its peer.
ClientRun(c) ==
  \/ InnerRun(c) \/ HandleLoop(c) \/ ReloadUser(c) \/ ReloadLoad(c)
  \/ BeginCommand(c) \/ OnlineCommand(c) \/ CheckState(c) \/ Refused(c)
  \/ UserLoad(c) \/ SetWaitingPassword(c)
  \/ PassCheck(c) \/ SetLoggedOut(c) \/ PassKick(c)
  \/ LoginStart(c) \/ LoginOnline(c) \/ LoginState(c)
  \/ PlainCommand(c) \/ QuitCommand(c) \/ StartTransfer(c) \/ StopTransfer(c)
  \/ DeluserCommand(c) \/ KickCommand(c) \/ ReaddCommand(c) \/ ShutdownCommand(c)
  \/ Answered(c)
  \/ EndCommand(c) \/ OnlineIdle(c)
  \/ Finish(c) \/ ClientLogout1(c) \/ ClientLogout2(c) \/ PushFinished(c)

ClientRead(c) == NextCommand(c) \/ ReadFails(c)

ServerRun ==
  \/ AcceptClient \/ HandleTasks \/ PollNoTasks
  \/ \E c \in Clients : VisitKick(c) \/ VisitLoginKick(c) \/ VisitUpdate(c)
  \/ VisitEnd
  \/ InterruptState \/ ServerLogout1 \/ ServerLogout2 \/ InterruptShut
  \/ CleanupClient
  \/ StopClients \/ (\E c \in Clients : StopVisit(c)) \/ JoinClients

Next ==
  /\ fault = "none"
  /\ \/ \E c \in Clients : ClientRun(c) \/ ClientRead(c)
     \/ ServerRun
     \/ PollTasks
     \/ \E u \in Users : Replicate(u)
     \/ ExitSignal

\* Threads are scheduled.  A read ends when the socket is shut down; a byte in
\* the pipe for a queued task is seen by some later poll, which no infinite
\* series of polls can miss (strong fairness).
Fairness ==
  /\ \A c \in Clients : WF_vars(fault = "none" /\ ClientRun(c))
  /\ \A c \in Clients : WF_vars(fault = "none" /\ intr[c] /\ ClientRead(c))
  /\ WF_vars(fault = "none" /\ ServerRun)
  /\ SF_vars(fault = "none" /\ PollTasks)

Spec == Init /\ [][Next]_vars
FairSpec == Spec /\ Fairness

-----------------------------------------------------------------------------
(* Properties *)

\* Every variable stays in its type: the states, program counters, tasks and
\* counters are those the code can hold.
TypeOK ==
  /\ pc \in [Clients -> ClientPcs]
  /\ state \in [Clients -> States]
  /\ user \in [Clients -> Users \cup {None}]
  /\ del \in [Clients -> BOOLEAN]
  /\ kickLogin \in [Clients -> BOOLEAN]
  /\ kicked \in [Clients -> BOOLEAN]
  /\ attempts \in [Clients -> Nat]
  /\ updated \in [Clients -> BOOLEAN]
  /\ intr \in [Clients -> BOOLEAN]
  /\ cmd \in [Clients -> AllCommands \cup {None}]
  /\ arg \in [Clients -> Users \cup {None}]
  /\ guard \in [Clients -> BOOLEAN]
  /\ count \in [Users -> Int]
  /\ global \in Int
  /\ online \subseteq Clients
  /\ dbDel \subseteq Users
  /\ pend \subseteq Users
  /\ queue \in Seq(Tasks)
  /\ spc \in ServerPcs
  /\ task \in Tasks
  /\ todo \subseteq Clients
  /\ cand \in Clients \cup {None}
  /\ hit \in BOOLEAN
  /\ shutdown \in BOOLEAN
  /\ fault \in Faults
  /\ missed \in [Clients -> BOOLEAN]

\* Between LoginCounter::Start and LoginCounter::Stop for this client.
Counted(c) ==
  \/ pc[c] = "login2"
  \/ guard[c] /\ pc[c] # "logout2" /\ ~(spc = "logout2" /\ cand = c)

\* The login counter is exact: whatever threads log a client in and out, and
\* however they interleave, personal[uid] and global are the numbers of
\* clients that started a login and have not stopped it.
LoginCountExact ==
  /\ \A u \in Users : count[u] = Cardinality({c \in Clients : Counted(c) /\ user[c] = u})
  /\ global = Cardinality({c \in Clients : Counted(c)})

\* The asserts of LoginGuard::Logout, LoginCounter::Stop and CleanupClient
\* never fail: no client is logged out twice, by two threads or by one, and
\* none is cleaned up before it is Finished.
LogoutOnce == fault \notin {"Logout", "LoginCount", "Cleanup"}

\* A client in state LoggedIn holds its login: it is counted and it is in the
\* online table that SITE WHO and the verify calls of OnlineWriter read.
LoggedInIsOnline ==
  \A c \in Clients : state[c] = "LoggedIn" => Counted(c) /\ c \in online

\* A task in the queue refers to a client that still exists, and a client is
\* handed to CleanupClient once: a second ClientFinished would join and erase
\* a destroyed object.
TasksReferToLiveClients ==
  spc # "exited" =>
    /\ \A i \in DOMAIN queue : queue[i].client # None => pc[queue[i].client] # "none"
    /\ \A i, j \in DOMAIN queue :
         /\ queue[i].type = "ClientFinished" /\ queue[j].type = "ClientFinished"
         /\ queue[i].client = queue[j].client
         => i = j
    /\ spc = "join" => \A i \in DOMAIN queue :
                         queue[i] # Task("ClientFinished", None, task.client)

\* A handler that waits for a future has exactly one task that will set it,
\* in the queue or being executed.
WaiterHasTask ==
  \A c \in Clients : pc[c] = "wait" =>
    LET Mine(t) == t.type \in {"Kick", "LoginKick"} /\ t.client = c IN
    Cardinality({i \in DOMAIN queue : Mine(queue[i])}) + (IF Mine(task) THEN 1 ELSE 0) = 1

\* The copy of the user record a logged in session uses is current, or the
\* change is on its way: in the update log, in the queue, being handed out,
\* or flagged for the next command.  The only change that gets lost is one
\* handed out while the client was between USER and the end of PASS.
UpdateNotLost ==
  \A c \in Clients :
    state[c] = "LoggedIn" /\ pc[c] \notin {"load", "finish"}
      /\ (user[c] \in dbDel) # del[c] =>
      \/ updated[c] \/ missed[c] \/ user[c] \in pend
      \/ \E i \in DOMAIN queue : queue[i].type = "UserUpdate" /\ queue[i].uid = user[c]
      \/ spc = "visit" /\ task.type = "UserUpdate" /\ task.uid = user[c] /\ c \in todo

\* A user never holds more logins than num_logins allows, what SITE CHANGE's
\* help calls the maximum number of simultaneous logins.
LoginLimit ==
  \A u \in Users : NumLogins[u] # -1 =>
    Cardinality({c \in Clients : state[c] = "LoggedIn" /\ user[c] = u}) <= NumLogins[u]

\* The assertion that closes CheckState and the verify calls of OnlineWriter,
\* for the start and the end of a command and of a transfer, fail only of a
\* client that the server thread interrupts: no sequence of a client's own
\* commands, logins and errors reaches one of them.
FaultNeedsInterrupt ==
  fault \in {"CheckState", "OnlineCommand", "OnlineIdle", "StartTransfer", "StopTransfer"} =>
    \E c \in Clients : intr[c] \/ (spc \in {"logout1", "logout2", "shut"} /\ cand = c)

\* A client that was interrupted is cleaned up, unless the process stops or
\* shuts down.
InterruptedEnds ==
  \A c \in Clients : intr[c] ~> (pc[c] = "none" \/ shutdown \/ fault # "none")

\* A handler waiting for a future goes on, unless the process stops or shuts
\* down: no kick waits for a client that waits for it.
WaiterGoesOn ==
  \A c \in Clients : pc[c] = "wait" ~> (pc[c] # "wait" \/ shutdown \/ fault # "none")

\* SITE SHUTDOWN FULL is a full shutdown and exit.
ShutdownExits == shutdown ~> (spc = "exited" \/ fault # "none")

-----------------------------------------------------------------------------
(* The inductive invariant behind LoginCountExact, LogoutOnce,             *)
(* LoggedInIsOnline and TasksReferToLiveClients                            *)

\* The thread is in USER or PASS, so the client is not logged in yet.
InLogin(c) ==
  \/ pc[c] \in {"setwait", "toOut", "kick", "login1", "login2", "login3"}
  \/ pc[c] \in {"exec", "wait", "answered"} /\ cmd[c] \in {"USER", "PASS"}

\* The server thread is inside LoginGuard::Logout for this client.
ServerLogsOut(c) == spc \in {"logout1", "logout2"} /\ cand = c

\* Who holds the login: a LoggedIn client, the last step of SetLoggedIn, or
\* the one thread that logs the client out.
LoginOwner ==
  \A c \in Clients :
    /\ state[c] = "LoggedIn" => guard[c] /\ ~InLogin(c) /\ ~ServerLogsOut(c)
    /\ guard[c] => \/ state[c] = "LoggedIn" \/ pc[c] \in {"login3", "logout1", "logout2"}
                   \/ ServerLogsOut(c)
    /\ pc[c] \in {"logout1", "logout2"} =>
         guard[c] /\ state[c] = "Finished" /\ ~ServerLogsOut(c)
    /\ ServerLogsOut(c) => guard[c] /\ state[c] = "Finished" /\ ~InLogin(c)
    /\ InLogin(c) => (guard[c] <=> pc[c] = "login3")
    /\ pc[c] \in {"push", "done"} => state[c] = "Finished"
    /\ pc[c] = "none" => state[c] = "LoggedOut" /\ ~guard[c]
    /\ c \in online <=> guard[c]

\* A client that waits for a password or is about to log in has a user, and a
\* command that runs has its argument.
UserKnown ==
  \A c \in Clients :
    /\ \/ state[c] = "WaitingPassword" \/ guard[c]
       \/ pc[c] \in {"kick", "login1", "login2", "login3"}
       \/ pc[c] \in {"exec", "wait", "answered"} /\ cmd[c] = "PASS"
       => user[c] \in Users
    /\ pc[c] \in {"reload", "load", "begin", "online", "check", "exec", "setwait",
                  "delkick"}
       => arg[c] \in Users /\ cmd[c] \in AllCommands

\* What a task asks of its client: a kick's client waits for the future, a
\* finished client's thread has ended.
TaskFits(t) ==
  /\ t.type \in {"Kick", "LoginKick"} => t.client \in Clients /\ pc[t.client] = "wait"
  /\ t.type = "ClientFinished" => t.client \in Clients /\ pc[t.client] = "done"
  /\ t.type = "UserUpdate" => t.client = None
  /\ t.type = "Exit" => t = NoTask

\* Every task fits its client and no two tasks share one.
TaskInv ==
  /\ spc # "exited" =>
       /\ TaskFits(task)
       /\ \A i \in DOMAIN queue :
            /\ TaskFits(queue[i])
            /\ queue[i].client # None => queue[i].client # task.client
       /\ \A i, j \in DOMAIN queue :
            queue[i].client = queue[j].client /\ i # j => queue[i].client = None
  /\ spc = "visit" => task.type \in {"Kick", "LoginKick", "UserUpdate"}
  /\ spc = "join" => task.type = "ClientFinished"
  /\ spc \in {"loop", "drain", "accept", "stop", "exited"} => task = NoTask
  /\ spc \in {"setstate", "logout1", "logout2", "shut"} =>
       /\ cand \in Clients /\ pc[cand] # "none"
       /\ task.type \in {"Kick", "LoginKick"} \/ task = NoTask
  /\ cand # None => pc[cand] # "none"
  /\ \A c \in todo : pc[c] # "none"
  /\ spc \in {"loop", "drain", "accept", "join", "stop", "exited"} => cand = None
  /\ spc \in {"loop", "drain", "accept", "join", "exited"} => todo = {}

IInv == TypeOK /\ LoginOwner /\ UserKnown /\ TaskInv /\ LoginCountExact /\ LogoutOnce
=============================================================================
