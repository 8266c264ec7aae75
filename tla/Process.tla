------------------------------- MODULE Process -------------------------------
(***************************************************************************)
(* The server as a process: start-up in the order of Main (main.cpp), the   *)
(* pid file (util/daemonise.cpp), the shared memory of the clients online   *)
(* (ftp/online.cpp), the readers of it - SITE WHO and the tool who - and    *)
(* the end, orderly or by a crash (signals/signal.cpp).                     *)
(***************************************************************************)
EXTENDS Integers, FiniteSets, FiniteSetsExt

CONSTANTS Pids,       \* process ids, used again once their process is gone
          Sessions,   \* client threads of a server
          Readers,    \* runs of who
          Speeds,     \* transfer speeds, for the totals of who
          Capacity,   \* clients the segment has room for
          MaxStarts, MaxCrashes   \* bounds: servers started, crashes and kills

VARIABLES stage,      \* per pid: where Main is; "none": no such process
          named,      \* the pid has written the pid file
          pidfile, listening, segments,
          table,      \* per pid: the entries of its segment
          mutex,      \* per pid: who holds the segment's mutex
          reader,     \* per reader: its phase, the segment and what it copied
          starts, crashes

processVars == <<stage, named, pidfile, listening, segments, table, mutex, reader,
                 starts, crashes>>

None == "none"
\* The names of processes and readers, and the speeds a transfer can have.
ProcessAssumption == None \notin Pids /\ None \notin Readers /\ Speeds \subseteq Nat

NoReader == [phase |-> "out", id |-> None, left |-> {}, seen |-> {}]

Init ==
  /\ stage = [p \in Pids |-> None]
  /\ named = [p \in Pids |-> FALSE]
  /\ pidfile = None /\ listening = None /\ segments = {}
  /\ table = [p \in Pids |-> {}] /\ mutex = [p \in Pids |-> None]
  /\ reader = [r \in Readers |-> NoReader]
  /\ starts = 0 /\ crashes = 0

Running(p) == stage[p] # None
\* A pid is used again once its process, and the readers that have its memory mapped, are gone.
Free(p) == ~Running(p) /\ \A r \in Readers : reader[r].id # p

-----------------------------------------------------------------------------
(* Start-up.                                                                *)

Start(p) ==
  /\ Free(p) /\ starts < MaxStarts
  /\ stage' = [stage EXCEPT ![p] = "prepare"] /\ starts' = starts + 1
  /\ named' = [named EXCEPT ![p] = FALSE]
  /\ UNCHANGED <<pidfile, listening, segments, table, mutex, reader, crashes>>

\* A process that is no server takes a free pid, or leaves.
Alien(p) ==
  /\ \/ Free(p) /\ p = pidfile /\ stage' = [stage EXCEPT ![p] = "alien"]
     \/ stage[p] = "alien" /\ stage' = [stage EXCEPT ![p] = None]
  /\ UNCHANGED <<named, pidfile, listening, segments, table, mutex, reader, starts,
                 crashes>>

\* Main up to CreateDefaults - the configuration, the signals, the logs, TLS, the
\* templates, the database and the default accounts - touches nothing another process
\* sees here; each part may fail, and Main returns 1.
Prepare(p) ==
  /\ stage[p] = "prepare"
  /\ \E next \in {None, "pid check"} : stage' = [stage EXCEPT ![p] = next]
  /\ UNCHANGED <<named, pidfile, listening, segments, table, mutex, reader, starts, crashes>>

\* AlreadyRunning: NotRunning asks with kill(pid, 0) whether the pid of the file lives.
AlreadyRunning(p) ==
  /\ stage[p] = "pid check"
  /\ IF pidfile = None \/ ~Running(pidfile)
     THEN stage' = [stage EXCEPT ![p] = "listen"]
     ELSE stage' = [stage EXCEPT ![p] = None]
  /\ UNCHANGED <<named, pidfile, listening, segments, table, mutex, reader, starts, crashes>>

\* Server::Initialise: one process at a time can listen on the port.
Listen(p) ==
  /\ stage[p] = "listen"
  /\ IF listening = None
     THEN stage' = [stage EXCEPT ![p] = "fork"] /\ listening' = p
     ELSE stage' = [stage EXCEPT ![p] = None] /\ UNCHANGED listening
  /\ UNCHANGED <<named, pidfile, segments, table, mutex, reader, starts, crashes>>

\* Mutant: the pid file is written before the fork.
ForkAfterFile(p) ==
  /\ stage[p] = "fork"
  /\ \E q \in Pids : /\ Free(q)
                     /\ stage' = [stage EXCEPT ![p] = None, ![q] = "segment"]
                     /\ listening' = q
                     /\ named' = [named EXCEPT ![q] = TRUE]
  /\ pidfile' = p
  /\ UNCHANGED <<segments, table, mutex, reader, starts, crashes>>

\* Daemonise: the child goes on with the descriptors, the parent exits; with -f there is
\* no fork.
Fork(p) ==
  /\ stage[p] = "fork"
  /\ \/ stage' = [stage EXCEPT ![p] = "pid file"] /\ UNCHANGED <<listening, named>>
     \/ \E q \in Pids :
          /\ Free(q)
          /\ stage' = [stage EXCEPT ![p] = None, ![q] = "pid file"]
          /\ listening' = q
          /\ named' = [named EXCEPT ![q] = FALSE]
  /\ UNCHANGED <<pidfile, segments, table, mutex, reader, starts, crashes>>

\* CreatePIDFile: a failure is logged and nothing else.
CreatePIDFile(p) ==
  /\ stage[p] = "pid file"
  /\ stage' = [stage EXCEPT ![p] = "segment"]
  /\ \/ pidfile' = p /\ named' = [named EXCEPT ![p] = TRUE]
     \/ UNCHANGED <<pidfile, named>>
  /\ UNCHANGED <<listening, segments, table, mutex, reader, starts, crashes>>

\* OpenSharedMemory: a segment a crashed process with the same pid has left behind is
\* opened, the second construct of its data throws and Main returns 1.
OpenSharedMemory(p) ==
  /\ stage[p] = "segment"
  /\ IF p \in segments
     THEN /\ stage' = [stage EXCEPT ![p] = None]
          /\ listening' = None /\ UNCHANGED <<segments, table, mutex>>
     ELSE /\ stage' = [stage EXCEPT ![p] = "serve"]
          /\ segments' = segments \cup {p}
          /\ table' = [table EXCEPT ![p] = {}] /\ mutex' = [mutex EXCEPT ![p] = None]
          /\ UNCHANGED listening
  /\ UNCHANGED <<named, pidfile, reader, starts, crashes>>

\* The end of Main: the sessions are gone, the listening is closed and the segment
\* removed; the pid file stays.
Stop(p) ==
  /\ stage[p] = "serve" /\ table[p] = {}
  /\ stage' = [stage EXCEPT ![p] = None] /\ listening' = None
  /\ segments' = segments \ {p} /\ named' = [named EXCEPT ![p] = FALSE]
  /\ UNCHANGED <<pidfile, table, mutex, reader, starts, crashes>>

\* CrashHandler and TerminateHandler write the backtrace and kill the process: nothing
\* is cleaned up but what the system closes.  The segment stays; what it holds is kept
\* here only for a reader that has opened it.
Crash(p) ==
  /\ Running(p) /\ stage[p] # "alien" /\ crashes < MaxCrashes
  /\ stage' = [stage EXCEPT ![p] = None] /\ crashes' = crashes + 1
  /\ listening' = IF listening = p THEN None ELSE listening
  /\ table' = [table EXCEPT ![p] = IF \E r \in Readers : reader[r].id = p THEN @ ELSE {}]
  /\ named' = [named EXCEPT ![p] = FALSE]
  /\ UNCHANGED <<pidfile, segments, mutex, reader, starts>>

-----------------------------------------------------------------------------
(* The table.  Every operation of OnlineWriter takes the segment's mutex.   *)

Entry(s, action, speed) == [session |-> s, action |-> action, speed |-> speed]
EntryOf(p, s) == {e \in table[p] : e.session = s}
Actions == {"idle", "command", "up", "down"}

Write(p, entries) ==
  /\ stage[p] = "serve" /\ p \in segments /\ mutex[p] = None
  /\ table' = [table EXCEPT ![p] = entries]
  /\ UNCHANGED <<stage, named, pidfile, listening, segments, mutex, reader, starts,
                 crashes>>

\* LoggedIn: a new entry, while the segment has room.
LoggedIn(p, s) ==
  /\ EntryOf(p, s) = {} /\ Cardinality(table[p]) < Capacity
  /\ Write(p, table[p] \cup {Entry(s, "idle", 0)})

LoggedOut(p, s) ==
  /\ \E e \in EntryOf(p, s) : e.action = "idle"
  /\ Write(p, table[p] \ EntryOf(p, s))

\* Command, then StartTransfer, TransferUpdate and StopTransfer, and Idle.
Operate(p, s) ==
  \E e \in EntryOf(p, s), a \in Actions, v \in Speeds \cup {0} :
    /\ <<e.action, a>> \in {<<"idle", "command">>, <<"command", "idle">>, <<"command", "up">>,
                            <<"command", "down">>, <<"up", "up">>, <<"down", "down">>,
                            <<"up", "command">>, <<"down", "command">>}
    /\ v # 0 => a \in {"up", "down"} /\ e.action = a
    /\ v = 0 /\ a \in {"up", "down"} => e.action = "command"
    /\ Write(p, (table[p] \ {e}) \cup {Entry(s, a, v)})

-----------------------------------------------------------------------------
(* The readers.                                                             *)

Put(r, value) == reader' = [reader EXCEPT ![r] = value]

\* SharedMemoryID: the tool takes the pid from the file, SITE WHO its own; a segment that
\* does not exist gives an empty answer.
Open(r) ==
  /\ reader[r].phase = "out"
  /\ \E p \in Pids :
       /\ p = pidfile \/ stage[p] = "serve"
       /\ Put(r, [NoReader EXCEPT !.id = p, !.phase = IF p \in segments THEN "lock" ELSE "close"])
  /\ UNCHANGED <<stage, named, pidfile, listening, segments, table, mutex, starts, crashes>>

\* OnlineReaderLock.
Lock(r) ==
  LET p == reader[r].id IN
  /\ reader[r].phase = "lock" /\ mutex[p] = None
  /\ mutex' = [mutex EXCEPT ![p] = r]
  /\ Put(r, [reader[r] EXCEPT !.phase = "copy", !.left = table[p]])
  /\ UNCHANGED <<stage, named, pidfile, listening, segments, table, starts, crashes>>

\* One entry is copied; the entries change only under the mutex.
Copy(r) ==
  /\ reader[r].phase = "copy" /\ reader[r].left # {}
  /\ \E e \in reader[r].left :
       Put(r, [reader[r] EXCEPT !.left = @ \ {e},
                                !.seen = @ \cup EntryOf(reader[r].id, e.session)])
  /\ UNCHANGED <<stage, named, pidfile, listening, segments, table, mutex, starts, crashes>>

Unlock(r) ==
  /\ reader[r].phase = "copy" /\ reader[r].left = {}
  /\ mutex' = [mutex EXCEPT ![reader[r].id] = None]
  /\ Put(r, [reader[r] EXCEPT !.phase = "close"])
  /\ UNCHANGED <<stage, named, pidfile, listening, segments, table, starts, crashes>>

\* The destructor of OnlineReader removes the shared memory named by its member id, which
\* no constructor sets: the name is empty and nothing is removed.
Close(r) ==
  LET p == reader[r].id IN
  /\ reader[r].phase = "close"
  /\ Put(r, NoReader)
  /\ table' = [table EXCEPT ![p] = IF stage[p] = "serve" THEN @ ELSE {}]
  /\ UNCHANGED <<stage, named, pidfile, listening, segments, mutex, starts, crashes>>

Next ==
  \/ \E p \in Pids : \/ Start(p) \/ Alien(p) \/ Prepare(p) \/ AlreadyRunning(p) \/ Listen(p)
                     \/ Fork(p) \/ CreatePIDFile(p) \/ OpenSharedMemory(p) \/ Stop(p) \/ Crash(p)
                     \/ \E s \in Sessions : LoggedIn(p, s) \/ LoggedOut(p, s) \/ Operate(p, s)
  \/ \E r \in Readers : Open(r) \/ Lock(r) \/ Copy(r) \/ Unlock(r) \/ Close(r)

Spec == Init /\ [][Next]_processVars

-----------------------------------------------------------------------------
(* CompileWhosOnline: the totals below the lines of who.                    *)

With(entries, a) == {e \in entries : e.action = a}
SpeedsOf(entries, a) == {e.speed : e \in With(entries, a)}

\* The four groups, and for transfers the extreme speeds; 0 when there is none.  The
\* slowest download is folded with std::max, as the code has it.
Totals(entries) ==
  LET ups == SpeedsOf(entries, "up") downs == SpeedsOf(entries, "down") IN
  [count |-> Cardinality(entries), idlers |-> Cardinality(With(entries, "idle")),
   active |-> Cardinality(With(entries, "command")),
   uploaders |-> Cardinality(With(entries, "up")), downloaders |-> Cardinality(With(entries, "down")),
   upFastest |-> Max(ups \cup {0}), upSlowest |-> IF ups = {} THEN 0 ELSE Min(ups),
   downFastest |-> Max(downs \cup {0}), downSlowest |-> IF downs = {} THEN 0 ELSE Max(downs)]

-----------------------------------------------------------------------------
\* Two servers never serve at once, however their start-ups, crashes and pid files
\* interleave.
OneServer == \A p, q \in Pids : stage[p] = "serve" /\ stage[q] = "serve" => p = q

\* A server that could write the pid file is the one the file names as long as it serves,
\* so that kill and who reach it.
PidfileNamesServer ==
  \A p \in Pids : stage[p] = "serve" /\ named[p] => pidfile = p

\* The memory of the clients online exists while its server serves, whatever reads it, and
\* an orderly end leaves none: what remains was left by a crash.
SegmentLives ==
  /\ \A p \in Pids : stage[p] = "serve" => p \in segments
  /\ Cardinality({p \in segments : stage[p] # "serve"}) <= crashes

\* who shows the table as it was at one moment: the copy a reader has finished is the
\* table, until it gives the mutex back.
SnapshotWhole ==
  \A r \in Readers : reader[r].phase = "copy" /\ stage[reader[r].id] = "serve" =>
    reader[r].seen \cup reader[r].left = table[reader[r].id]

\* Every line of who is in one of the four totals and the speeds are ordered.
TotalsAddUp ==
  \A r \in Readers : LET t == Totals(reader[r].seen) IN
    /\ t.count = t.idlers + t.active + t.uploaders + t.downloaders
    /\ t.upSlowest <= t.upFastest /\ t.downSlowest <= t.downFastest

\* There is one server, its pid file and its memory are its own, and who shows
\* that memory as it was.
ServerSound == OneServer /\ PidfileNamesServer /\ SegmentLives /\ SnapshotWhole /\ TotalsAddUp
=============================================================================
