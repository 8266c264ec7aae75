------------------------------- MODULE Scripts -------------------------------
(***************************************************************************)
(* The scripts a command runs (exec/*.cpp, util/processreader.cpp,           *)
(* CustomEXECCommand) and what their result means for the command.  Several  *)
(* sessions fork concurrently: a child inherits every pipe that is open for  *)
(* writing in the server at that moment.                                    *)
(***************************************************************************)
EXTENDS Integers, Sequences, FiniteSets

CONSTANTS ScriptSessions,
          KindsOf,        \* per session, the commands its client sends: subset of DOMAIN Slots
          Behaviours,     \* per session, what its scripts may do: a subset of Behaviour
          MaxLines,       \* bound: lines a script writes
          MaxCommands     \* bound: commands of a session

VARIABLES commandOf,   \* the command a session executes: its kind and the slot it is at
          child,       \* the process pid names: state, behaviour, lines written, its death
          stage,       \* of the reader: closed, piped, reading, close, term, kill
          got,         \* lines read of it
          holders,     \* children of other sessions that hold the write end of the pipe
          serverHolds, \* the server still holds the write end itself
          exitStatus,  \* what waitpid reported last: "zero", "one", "signal"
          performed,   \* history: the body of the command has run
          results,     \* history: a script before the body refused; the post check could not be run
          replies,     \* history: final replies to this command
          numCommands

scriptVars == <<commandOf, child, stage, got, holders, serverHolds, exitStatus, performed, results,
                replies, numCommands>>

\* How a script behaves: the code it exits with, or a signal it dies of, whether SIGTERM ends it, whether even
\* SIGKILL does not within the second the server waits, whether execve fails.
Behaviour == [code : {"zero", "one", "signal"}, ignoresTerm : BOOLEAN, stuck : BOOLEAN, noexec : BOOLEAN]

\* The scripts around each kind of command, in their order.
Slots == [stor |-> <<"pre", "precheck", "postcheck", "post">>,
          mkd  |-> <<"pre", "predircheck", "post">>,
          exec |-> <<"pre", "exec", "post">>]

ScriptAssumption ==
  /\ KindsOf \in [ScriptSessions -> SUBSET DOMAIN Slots]
  /\ Behaviours \in [ScriptSessions -> SUBSET Behaviour]

BeforeBody == {"pre", "precheck", "predircheck"}
NoResults == [refused |-> FALSE, postFailed |-> FALSE]

Idle == [kind |-> "idle", slot |-> 0]
Ended == [kind |-> "ended", slot |-> 0]
NoChild == [state |-> "none", how |-> CHOOSE b \in Behaviour : TRUE, open |-> FALSE, written |-> 0, died |-> "no"]
Slot(s) == Slots[commandOf[s].kind][commandOf[s].slot]
Busy(s) == commandOf[s] \notin {Idle, Ended}
AtSlot(s) == Busy(s) /\ stage[s] = "closed"

Init ==
  /\ commandOf = [s \in ScriptSessions |-> Idle]
  /\ child = [s \in ScriptSessions |-> NoChild]
  /\ stage = [s \in ScriptSessions |-> "closed"]
  /\ got = [s \in ScriptSessions |-> 0]
  /\ holders = [s \in ScriptSessions |-> {}]
  /\ serverHolds = [s \in ScriptSessions |-> FALSE]
  /\ exitStatus = [s \in ScriptSessions |-> "unset"]
  /\ performed = [s \in ScriptSessions |-> FALSE]
  /\ results = [s \in ScriptSessions |-> NoResults]
  /\ replies = [s \in ScriptSessions |-> 0]
  /\ numCommands = [s \in ScriptSessions |-> 0]

readerVars == <<child, stage, got, holders, serverHolds, exitStatus>>

-----------------------------------------------------------------------------
(* What the end of a script means.  An outcome is the exit status, or        *)
(* "failed" when the script could not be run.                               *)

Last(s) == commandOf[s].slot = Len(Slots[commandOf[s].kind])
Advance(s) == IF Last(s) THEN Idle ELSE [commandOf[s] EXCEPT !.slot = @ + 1]

\* Cscript: a pre script that does not exit with 0, or cannot be run, ends the command with
\* a reply; the result of a post script is only logged.
PreCscript(s, outcome) ==
  IF outcome = "zero" THEN [next |-> Advance(s), replies |-> 0, does |-> FALSE]
  ELSE [next |-> Idle, replies |-> 1, does |-> FALSE]

\* PreCheck and PreDirCheck: a refusal replies and skips the post script too; otherwise the
\* upload is received, or the directory made and replied to.
PreCheck(s, outcome) ==
  IF outcome = "zero"
  THEN [next |-> Advance(s), replies |-> IF Slot(s) = "predircheck" THEN 1 ELSE 0, does |-> TRUE]
  ELSE [next |-> Idle, replies |-> 1, does |-> FALSE]

\* PostCheck: a refusal is part of the reply of STOR, which follows in any case; a script
\* that cannot be run has a final reply of its own.
PostCheck(s, outcome) ==
  [next |-> Advance(s), replies |-> IF outcome = "failed" THEN 2 ELSE 1, does |-> FALSE]

\* CustomEXECCommand: the exit status is not looked at.
CustomExec(s, outcome) == [next |-> Advance(s), replies |-> 1, does |-> outcome # "failed"]

Consequence(s, outcome) ==
  CASE Slot(s) = "pre" -> PreCscript(s, outcome)
    [] Slot(s) \in {"precheck", "predircheck"} -> PreCheck(s, outcome)
    [] Slot(s) = "postcheck" -> PostCheck(s, outcome)
    [] Slot(s) = "exec" -> CustomExec(s, outcome)
    [] Slot(s) = "post" -> [next |-> Advance(s), replies |-> 0, does |-> FALSE]

Conclude(s, outcome, what) ==
  LET c == Consequence(s, outcome) IN
  /\ commandOf' = [commandOf EXCEPT ![s] = c.next]
  /\ replies' = [replies EXCEPT ![s] = @ + c.replies]
  /\ performed' = [performed EXCEPT ![s] = @ \/ c.does]
  /\ results' = [results EXCEPT
       ![s].refused = @ \/ (Slot(s) \in BeforeBody /\ what \notin {"zero", "skipped", "survived"}),
       ![s].postFailed = @ \/ (Slot(s) = "postcheck" /\ what = "failed")]
  /\ UNCHANGED numCommands

\* ExecuteCommand.
Command(s, kind) ==
  /\ commandOf[s] = Idle /\ numCommands[s] < MaxCommands
  /\ numCommands' = [numCommands EXCEPT ![s] = @ + 1]
  /\ commandOf' = [commandOf EXCEPT ![s] = [kind |-> kind, slot |-> 1]]
  /\ performed' = [performed EXCEPT ![s] = FALSE] /\ results' = [results EXCEPT ![s] = NoResults]
  /\ replies' = [replies EXCEPT ![s] = 0]
  /\ UNCHANGED readerVars

\* LookupCheck: no rule for the path or the command, or one that disables the check.
NoScript(s) ==
  /\ AtSlot(s) /\ Slot(s) # "exec" /\ Conclude(s, "zero", "skipped") /\ UNCHANGED readerVars

-----------------------------------------------------------------------------
(* ProcessReader.                                                           *)

Alive(s) == child[s].state = "running"

\* Open, up to fork: a child that would not die is still there, which is a logic_error
\* nobody catches; otherwise the pipes are made.
MakePipe(s) ==
  /\ AtSlot(s)
  /\ IF child[s].state # "none"
     THEN commandOf' = [commandOf EXCEPT ![s] = Ended] /\ UNCHANGED <<stage, serverHolds>>
     ELSE /\ stage' = [stage EXCEPT ![s] = "piped"] /\ serverHolds' = [serverHolds EXCEPT ![s] = TRUE]
          /\ UNCHANGED commandOf
  /\ UNCHANGED <<child, got, holders, exitStatus, performed, results, replies, numCommands>>

\* fork and execve: the child takes a copy of every write end the server holds.
Inherit(s) == [t \in ScriptSessions |-> IF t # s /\ serverHolds[t] THEN holders[t] \cup {s} ELSE holders[t]]

Fork(s, how) ==
  /\ stage[s] = "piped" /\ ~how.noexec
  /\ child' = [child EXCEPT ![s] = [state |-> "running", how |-> how, open |-> TRUE, written |-> 0, died |-> "no"]]
  /\ holders' = Inherit(s)
  /\ serverHolds' = [serverHolds EXCEPT ![s] = FALSE]
  /\ stage' = [stage EXCEPT ![s] = "reading"]
  /\ UNCHANGED <<got, commandOf, exitStatus, performed, results, replies, numCommands>>

\* execve fails: the error comes through the error pipe, the child is waited for.
ExecFails(s) ==
  /\ stage[s] = "piped" /\ \E how \in Behaviours[s] : how.noexec
  /\ serverHolds' = [serverHolds EXCEPT ![s] = FALSE] /\ stage' = [stage EXCEPT ![s] = "closed"]
  /\ holders' = [holders EXCEPT ![s] = {}] /\ exitStatus' = [exitStatus EXCEPT ![s] = "one"]
  /\ Conclude(s, "failed", "failed") /\ UNCHANGED <<child, got>>

\* The script; a write to a pipe whose reader has closed it ends it with SIGPIPE.
Dies(s, how) ==
  /\ child' = [child EXCEPT ![s].state = "dead", ![s].open = FALSE, ![s].died = how]
  /\ holders' = [t \in ScriptSessions |-> holders[t] \ {s}]
\* It may also close its output and go on.
ChildCloses(s) ==
  /\ Alive(s) /\ child[s].open /\ child' = [child EXCEPT ![s].open = FALSE]
  /\ UNCHANGED <<commandOf, stage, got, holders, serverHolds, exitStatus, performed, results, replies, numCommands>>
ChildWrites(s) ==
  /\ Alive(s) /\ child[s].open /\ child[s].written < MaxLines
  /\ IF stage[s] = "reading" THEN child' = [child EXCEPT ![s].written = @ + 1] /\ UNCHANGED holders
     ELSE ~child[s].how.stuck /\ Dies(s, "signal")
  /\ UNCHANGED <<commandOf, stage, got, serverHolds, exitStatus, performed, results, replies, numCommands>>
ChildExits(s) ==
  /\ Alive(s) /\ ~child[s].how.stuck /\ Dies(s, child[s].how.code)
  /\ UNCHANGED <<commandOf, stage, got, serverHolds, exitStatus, performed, results, replies, numCommands>>

\* Getline: a line, or the end once every write end is closed.
GetlineMore(s) ==
  /\ stage[s] = "reading" /\ got[s] < child[s].written
  /\ got' = [got EXCEPT ![s] = @ + 1]
  /\ UNCHANGED <<commandOf, child, stage, holders, serverHolds, exitStatus, performed, results, replies, numCommands>>
GetlineEnd(s) ==
  /\ stage[s] = "reading" /\ got[s] = child[s].written
  /\ ~child[s].open /\ holders[s] = {} /\ ~serverHolds[s]
  /\ stage' = [stage EXCEPT ![s] = "close"] /\ got' = [got EXCEPT ![s] = 0]
  /\ UNCHANGED <<commandOf, child, holders, serverHolds, exitStatus, performed, results, replies, numCommands>>
\* The reader stops before the end: CustomEXECCommand at max_sitecmd_lines.
StopReading(s) ==
  /\ stage[s] = "reading" /\ Slot(s) = "exec" /\ got[s] > 0
  /\ stage' = [stage EXCEPT ![s] = "close"] /\ got' = [got EXCEPT ![s] = 0]
  /\ UNCHANGED <<commandOf, child, holders, serverHolds, exitStatus, performed, results, replies, numCommands>>

\* Kick or shutdown: Interrupt wakes the poll, interruption_point throws, ~Reader closes.
Interrupt(s) ==
  /\ stage[s] = "reading" /\ commandOf' = [commandOf EXCEPT ![s] = Ended]
  /\ stage' = [stage EXCEPT ![s] = "close"] /\ got' = [got EXCEPT ![s] = 0]
  /\ UNCHANGED <<child, holders, serverHolds, exitStatus, performed, results, replies, numCommands>>

\* Mutant: only the low byte of an exit is kept, as WEXITSTATUS would.
ReapedExitCode(s) == IF child[s].died = "signal" THEN "zero" ELSE child[s].died
\* Close(nohang): waitpid, the status as it is.
Reaped(s) == child[s].died

\* Reader::Close and ~ProcessReader: wait a second, SIGTERM and wait, SIGKILL and wait.
Reap(s) ==
  /\ stage[s] \in {"close", "term", "kill"} /\ child[s].state = "dead"
  /\ exitStatus' = [exitStatus EXCEPT ![s] = Reaped(s)]
  /\ child' = [child EXCEPT ![s] = NoChild] /\ stage' = [stage EXCEPT ![s] = "closed"]
  /\ IF Busy(s) THEN Conclude(s, Reaped(s), child[s].died)
     ELSE UNCHANGED <<commandOf, performed, results, replies, numCommands>>
  /\ UNCHANGED <<got, holders, serverHolds>>
Terminate(s) ==
  /\ stage[s] = "close" /\ Alive(s) /\ stage' = [stage EXCEPT ![s] = "term"]
  /\ IF child[s].how.ignoresTerm \/ child[s].how.stuck THEN UNCHANGED <<child, holders>> ELSE Dies(s, "signal")
  /\ UNCHANGED <<commandOf, got, serverHolds, exitStatus, performed, results, replies, numCommands>>
Kill(s) ==
  /\ stage[s] = "term" /\ Alive(s) /\ stage' = [stage EXCEPT ![s] = "kill"]
  /\ IF child[s].how.stuck THEN UNCHANGED <<child, holders>> ELSE Dies(s, "signal")
  /\ UNCHANGED <<commandOf, got, serverHolds, exitStatus, performed, results, replies, numCommands>>
\* Even SIGKILL did not end it in time: ExitStatus is the one of an earlier script.
GiveUp(s) ==
  /\ stage[s] = "kill" /\ Alive(s) /\ stage' = [stage EXCEPT ![s] = "closed"]
  /\ IF Busy(s) THEN Conclude(s, exitStatus[s], "survived")
     ELSE UNCHANGED <<commandOf, performed, results, replies, numCommands>>
  /\ UNCHANGED <<child, got, holders, serverHolds, exitStatus>>

Next == \E s \in ScriptSessions :
  \/ \E kind \in KindsOf[s] : Command(s, kind)
  \/ NoScript(s) \/ MakePipe(s) \/ ExecFails(s) \/ \E how \in Behaviours[s] : Fork(s, how)
  \/ ChildWrites(s) \/ ChildCloses(s) \/ ChildExits(s)
  \/ GetlineMore(s) \/ GetlineEnd(s) \/ StopReading(s) \/ Interrupt(s)
  \/ Reap(s) \/ Terminate(s) \/ Kill(s) \/ GiveUp(s)

Spec == Init /\ [][Next]_scriptVars

-----------------------------------------------------------------------------
\* An upload or a directory is made only if every script before it exited with 0: one that
\* was killed, that could not be run or that exited with another code has refused it.  The
\* exception is a script that outlived SIGKILL, for which the status of an earlier one counts.
RefusedNotDone == \A s \in ScriptSessions : performed[s] => ~results[s].refused

\* A command that has been executed has one final reply, whatever its scripts did, unless
\* the post check script could not be run: then there are two.
OneReply ==
  \A s \in ScriptSessions : commandOf[s] = Idle /\ numCommands[s] > 0 =>
    replies[s] = IF results[s].postFailed THEN 2 ELSE 1

\* No script outlives its command: when no script is read, the child has been waited for,
\* unless it outlived SIGKILL.
NoOrphan ==
  \A s \in ScriptSessions : stage[s] = "closed" /\ child[s].state # "none" => child[s].how.stuck

\* What keeps a session reading is a script that has its output open, its own or one of another session
\* that took a copy of the pipe, never the server itself.
ReadingEnds ==
  \A s \in ScriptSessions : stage[s] = "reading" /\ ~child[s].open =>
    ~serverHolds[s] /\ \A t \in holders[s] : Alive(t)

\* A command obeys its scripts: a refusal is final, the client gets one answer,
\* and neither a script nor the reading of it goes on for ever.
ScriptsObeyed == RefusedNotDone /\ OneReply /\ NoOrphan /\ ReadingEnds
=============================================================================
