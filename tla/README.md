# ebftpd in TLA+

TLA+ modules of the FTP server ebftpd: client sessions and the server thread,
the queue between them, transfers with their slots and credits, data
connections, accounts with their replicated cache, the file system and its
rights, nukes, mail, statistics, scripts, templates, the configuration and its
reload, and the server as a process. TLC checks them on small instances; TLAPS
proves for every instance the safety properties of sessions, the task queue,
transfers and their credits, accounts and groups, replication, the file system,
access lists, nukes, mail, scripts, data connections, the configuration, the
process and the checksum. Paths below are
those of this repository without `src/src/`: `ftp/...` is `src/src/ftp/...` in
`PROJECT.json`; `util/...` is `src/util/util/...` and `tools/...` is `src/tools/...`.

## The system

One process. The **server thread** accepts connections and executes tasks; each
control connection has a **client thread**; the **replicator** thread tails the
database's update log; a **signal thread** turns SIGTERM into a task; credit
increments run in short-lived **asynchronous** threads. They share the task
queue, the login and transfer counters, the online table in shared memory, the
user and group caches, and the database.

| part | state | operations | talks to |
|---|---|---|---|
| client session (`ftp/clientimpl.cpp`, `cmd/rfc/pass.cpp`) | state (LoggedOut, WaitingPassword, LoggedIn, Finished), user record, login guard, password attempts, "user updated" flag | accept, read and check a command, USER, PASS, QUIT, reload of the user, logout, interruption | login counter, online table, server (tasks), database |
| server thread (`ftp/server.cpp`) | client set, task queue, shutdown flag | poll, accept, drain, clean-up, stop and join | clients (interrupt, join), pipe |
| tasks (`ftp/task/task.cpp`) | per task: target, promise | KickUser, LoginKickUser, UserUpdate, ClientFinished, Exit | clients, waiting handlers (futures) |
| task queue and interrupt pipe (`ftp/server.cpp`, `util/interruptpipe.hpp`) | queue under a mutex, bytes in a pipe | push, wake, acknowledge, drain | client, signal and replicator threads |
| login counter (`ftp/logincounter.cpp`) | logins per user and in all | Start, Stop, LoginsUsed | sessions |
| online table (`ftp/online.cpp`) | entry per session | login, command, idle, transfer, logout | sessions, the who tool |
| transfers (`cmd/rfc/retr.cpp`, `cmd/rfc/stor.cpp`) | handler locals, scope guards, transfer state, restart offset | REST, RETR, STOR, APPE, control commands during a transfer | counters, file system, data connection, credits, statistics |
| transfer counters (`ftp/transfercounter.cpp`) | transfers per user and in all | Start, Stop | transfers |
| credits (`db/user/user.cpp`) | kilobytes per user and section | asynchronous increment, conditional and forced decrement | transfers |
| accounts (`cmd/site/*.cpp`, `acl/user.cpp`, `db/user/user.cpp`) | users collection, update log | ADDUSER, RENUSER, ADDIP, DELIP, DELUSER, READD, PURGE | replicator, sessions |
| replicator and caches (`db/replicator.cpp`, `db/user/usercache.cpp`, `db/group/groupcache.cpp`) | tail position; name, uid and mask tables | populate, tail, replicate | update log, UserUpdate tasks |
| data connection (`ftp/data.cpp`, allocators) | protection, passive type, listener, socket, restart offset; ranges and iterators shared by all clients | PASV, EPSV, LPSV, CPSV, PORT, EPRT, LPRT, PROT, SSCN, REST, Open, Close, reload of the ranges | transfers, configuration |
| account administration (`cmd/site/*.cpp`, `acl/user.cpp`, `acl/group.cpp`) | users, groups, credits, group cache | CHANGE, CHGRP, SETPGRP, CHGADMIN, GRP*, GIVE, TAKE, ... | credits, caches |
| virtual file system (`fs/`, `acl/path.cpp`, `db/index`) | tree with owners, working directories, the index of directories, umask | CWD, MKD, RMD, DELE, RNFR, RNTO, MFMT, listings, WIPE, CHOWN, CHMOD, UPDATE, NEW | rights, transfers |
| access lists (`acl/acl.cpp`, `acl/misc.cpp`) | rules, the result each ACL has kept | evaluation | configuration, every command |
| nuking (`cmd/site/nuking.cpp`, `db/nuking`) | nukes, unnukes, the directory and its mark | NUKE, UNNUKE, the nuke tool | credits, statistics, file system |
| mail (`cmd/site/msg.cpp`, `db/mail`) | messages with a status | SEND, READ, SAVE, PURGE, log-off | sessions |
| statistics (`db/stats`, `stats/`) | kilobytes and files per user, day and section | count, move, rank | transfers, nuking |
| scripts (`exec/`, `util/processreader.cpp`) | child process, pipe, exit status | open, read, close, terminate | RFC and SITE commands |
| templates (`text/`) | parser state, sections, tags | parse, compile | replies |
| configuration (`cfg/`) | latest version, shared configuration, a copy per thread, slots | load, check, publish, SITE RELOAD, SIGHUP | everything |
| process (`main.cpp`, `util/daemonise.cpp`, `ftp/online.cpp`, `tools/who`) | pid file, listening socket, shared memory | start, stop, crash, who | sessions |
| asynchronous checksum (`util/asynccrc32.hpp`) | ring of buffers | Update, HexString, worker | uploads |
| logs, sockets, TLS, reports | - | system calls, formatting | everything |

What is hard here: a client's state is written by its own thread and by the
server thread; handlers wait, without timeout, for futures that only the server
thread completes while the server thread joins client threads; a login may be
kicked in favour of another while both log in and out; scope guards must undo a
transfer from a dozen exits; credits are charged before, and corrected after, a
transfer, by statements that race with those of other sessions; account changes
reach the sessions and the caches in several unsynchronised steps. The handlers
behind SITE commands load a document, check the copy and write back single
fields; nukes and moves are several statements with no transaction around them;
a configuration is published to threads that keep their own copies; scripts
inherit each other's pipes.
`PROJECT.json` lists the most important of these hazards at their lines, with the
properties that watch them; the exceptions under *Runs* name further ones.

What makes the parts correct:

* sessions: a login is counted and given back once, whoever ends it; a logged-in
  session is counted and online; interrupted sessions end; a changed account
  reaches its sessions; limits hold;
* tasks: executed once, in their producer's order, never forgotten in poll;
  nobody waits for a task that is not coming; a shutdown ends;
* transfers: slots are exact and limited, each transfer is recorded once,
  downloads are paid by the kilobyte and never overdraw, no increment is lost,
  failed uploads vanish and finished ones stay;
* accounts: the caches follow the database, limits hold, confirmed changes stay,
  groups and gadmin rights stay consistent, credits are neither made nor lost;
* data connections: a listener the client can reach, on a configured port; no
  transfer in the clear where TLS is enforced;
* files: the tree stays a tree, nobody leaves the home directory or removes what
  they may not, the index names what exists;
* nukes: what was taken is on record and comes back; nothing is lost on disk;
* mail, statistics, scripts, templates: nothing unread is lost; sections add up;
  a refused command is not done and is answered once; a file shows what was written;
* configuration: only complete configurations are published and everybody
  follows; process: one server, whose pid file and memory are its own.

## Modules

| module | models |
|---|---|
| `Session` | client threads, server thread, tasks, login counter, online table |
| `SessionProofs` | theorems about `Session` |
| `TaskService` | abstract: tasks are executed once, in the order of each producer |
| `TaskQueue` | queue, interrupt pipe, server loop; implements `TaskService` (`INSTANCE ... WITH`) |
| `Transfer` | RETR and STOR, counters, credits, the file |
| `Replication` | account commands by name and mask, update log, replicator, user cache |
| `Accounts` | groups, rights, limits and credits as SITE commands change them; group cache |
| `FileSystem` | the tree, its rights, the commands on it, the index |
| `Acl` | access lists and the results they keep |
| `Nuking` | NUKE and UNNUKE, their records, credits and renames |
| `Mail` | SITE MSG and the mail collection |
| `Scripts` | the child processes of commands |
| `Templates` | the template parser and the compilation of sections |
| `Statistics` | the transfers collection and its rankings |
| `DataConnection` | preparation and life of data connections, allocators |
| `ConfigFile` | options, their checks, construction of a Config |
| `Config` | publication and reload; extends `ConfigFile` |
| `Process` | start-up, pid file, shared memory, crashes, who |
| `AsyncCRC` | the ring of buffers of the checksum |
| `Conversions` | endpoints, paths, chmod modes |
| `FiniteSums` | theorems about sums over finite sets, which the proofs about credits, statistics and files use |
| `TransferProofs`, `ReplicationProofs`, `AccountsProofs`, `NukingProofs` | theorems about the module of that name |
| `SiteProofs` | theorems about `FileSystem`, `Scripts`, `Acl` and `Mail` |
| `SupportProofs` | theorems about `TaskQueue`, `Process`, `AsyncCRC`, `DataConnection`, `ConfigFile`, `Config` and `Statistics` |
| `MCSession`, `MCTransfer`, `MCReplication` | constants and symmetry for TLC |
| `MCTransferPair`, `MCReplicationPair` | two instances of one module in a run |
| `MCSite`, `MCSupport` | one instance each of the modules below `Replication` in this table |

Definitions under a comment *Mutant* or *A faulty ...* are altered forms of the
definition that follows; they show that a property notices such a bug.

### Session

`pc[c]` is where client thread `c` is between two steps that other threads can
see; `spc` is the same for the server thread; `state`, `user`, `guard`
(`LoginGuard::loggedIn`), `updated`, `kicked`, `attempts` are members of
`ClientImpl`; `count` and `global` are the login counter; `online` the online
table's keys; `queue`, `task`, `todo` the queue, the task in execution and the
clients it has still to visit; `fault` names an assertion of the code that
failed, after which nothing happens. SetState and the logout are separate steps,
because the logout follows the unlock (`clientimpl.cpp:79-87`); so are the
counter, the online entry and the state of a login (`clientimpl.cpp:97-133`).
`dbDel` is the Deleted flag of each account and `pend` the changes that the
replicator has still to report. The set of clients is finite and a client that
is cleaned up may connect again. `MaxQueue` bounds the pushes of administration
commands; the password attempts are those of the code.

### TaskService and TaskQueue

`TaskService` has two actions: a producer pushes its next task; one pushed and
not yet executed, the lowest of its producer, is executed. `TaskQueue` splits a
push into the insert under the mutex and the byte written after it
(`server.cpp:203-211`), and the server into poll and acknowledge (which reads
one byte), the drain and the execution. The pipe has `PipeSize` bytes; a write
to a full pipe blocks. Exit makes the server thread itself write a byte
(`server.cpp:196-201`).

### Transfer

A handler runs from the slot check to its last scope guard; `pc` names the next
step, `out` what follows. The guards run in the reverse order of their
declaration: data guard, file guard, count guard. Files are inodes with a
length, a name that points to one of them, and a mark for finished and credited
uploads, so that "deletes by path" and "writes by descriptor" differ. `credits`
is the database's value; `jobs` the increments whose threads are between their
three statements. A kilobyte has `KB` bytes, so that division loses bytes
on small files.

### Replication

Commands are: load, statement, update-log entry; ADDUSER is: limit check, next
uid, insert, duplicate check. The replicator populates, starts its tail at the
end of the log, and for each entry queries and changes each table under its
lock. Any statement may fail, `MaxFailures` times in all, with the effect its
connection mode gives it. `missed` and `intact` are history: which uids had a
change that no query has followed. `granted` is the history of confirmed masks.

### Accounts

`users`, `groups` and `credits` are the collections; `job[o]` is the command of
operator `o` with the copy it loaded; `incr` the asynchronous increments of
GIVE; `gids` and `names` the group cache and `primary` the primary groups in the
user cache. Load and checks are one step and each write another, because each is
a statement of its own. `raced`, `misnamed`, `confirmed`, `minted` and `purged`
are history: which commands overlapped, which names the cache resolved to another
group, what CHANGE confirmed, what credits were created, which users are gone. Settings of CHANGE that
hold a number behave alike and are three of them; strings (tagline, home
directory) are left out.

### FileSystem and Acl

`tree` maps each existing path to a node; `work`, `from` and `confirm` are
members of `ClientImpl`; `act[c]` is a command between two of its system calls.
Rights are the ordered lists of `acl/path.cpp`: the first rule whose path
matches decides. WIPE and the listings walk the tree as the code does; the
listing is compared with a definition by depth. `mask` says whether the umask of
the process is the configured one.

In `Acl` a decision is taken by the loop of the code over rules whose ACLs keep
their first result; `asked` remembers what each result was computed from.

### Nuking

A nuke runs through: checks, size by owner, credits and statistics of each
nukee, record, rename or deletion; an unnuke through: record, credits,
statistics, record, rename. `purse` and `upload` are the credits and statistics;
`before` is what they were and what was added since. `tangled` and `stuck`
mark releases whose commands overlapped, that were nuked twice or whose rename
failed: the code has no way back from those, and the properties about the
records exclude them.

### Mail, Scripts, Templates, Statistics

`Mail`: a mailbox is a set of messages that are numbered as they were inserted, which
is the order the queries return; `reading[s]` is what READ fetched and has still to
show, `target[s]` the message an index stood for when it was looked up. `Scripts`: `stage` of the
reader against `state` of the child, with the copies of the pipe that other
children hold. `Templates`: one character a step, the parser's `state` and the
tag under construction as in the code; a file is written from an outline, which
says what should come out. `Statistics`: documents by user, day and section;
a move is two updates, each with the date of its moment.

### DataConnection

Each call of an allocator is a step; `disturbed` marks a client whose loop was
interleaved with another's or a reload; `tried` in a client's step is history:
the ports its loop has tried. `plan` says which kinds of commands a behaviour
uses.

### ConfigFile and Config

`Construct` folds the lines of a file over a configuration as the code does and
ends with SanityCheck; `Complete` says what a configuration must be to be used. `Config` has a thread-local copy per thread, replaced at
the points where the code asks for it, the reloads of the server and the signal
thread, and the five slots connected to `updated`.

### Process, AsyncCRC, Conversions

`Process` has one `stage` per pid from the locks of Main to the end; a crash
may come anywhere and leaves memory, mutex and pid file as they are.
`AsyncCRC` has the two threads with every wait, notification and spurious
wake-up; data is numbered blocks. `Conversions` has no steps: an input is chosen
and the operators are compared with reference definitions.

## Runs

Passing runs:

| run | instance | shows |
|---|---|---|
| session_safe | 2 clients, 1 user with 1 login, login kicks, SITE KICK and SHUTDOWN, SIGTERM | counter exact; one logout, whichever thread does it; every waiting handler has its task; the inductive invariant of the proofs, from which follow types, logged in => counted and online, and tasks that refer to live clients |
| session_update | 2 clients, DELUSER and READD during sessions, no login kicks | a change is lost only by a session between USER and the end of PASS; num_logins holds |
| session_live | 2 clients, login kicks, transfers, QUIT, fair threads | interrupted clients end, waiting handlers go on; an assertion, those of the online table included, fails only for an interrupted client |
| queue | 2 client threads and the signal thread, a pipe of 2 bytes, fair threads | no lost wake-up; refinement of `TaskService`; every task executed; a shutdown stops the loop, unless the server thread blocks writing to its own full pipe |
| transfers | downloads: 2 clients of a user exempt from the global limit, 1 of another, credits for less than two files, REST; uploads: 2 clients, one name, no overwriting | paid by the kilobyte, no overdraft; credited uploads stay, partial files vanish |
| transfer_mixed | 2 clients of one user without a credits entry, one slot; uploads, resumes and downloads, every failure | slots exact and limited, recorded once, no partial file, first credits entry not lost |
| replication | 2 operators, a log that keeps 1 entry, one failing statement, fair threads; 1 operator, 3 names, total_users 2 | stale only if missed; the replicator catches up; names found, confirmed masks stay, total_users kept |
| site | the components behind commands (below) | what each promises |
| support | the components below commands (below) | what each promises |

The components of `site` and of `support` share no state, so one run explores
them side by side: the variable `focus`, chosen at the start, says which one a
behaviour is of, and the variables of the others keep one value. A property
begins with the focus it is about and is a conjunction of named parts of the
component's module; what a step may never do is `StepsKeep`, over four of them. `transfers` and `replication` do the same
with two instances of one module (`plan`).

| focus (run site) | instance | shows |
|---|---|---|
| accounts | 2 operators, one a gadmin; seven sets of commands, 2 or 3 of them a behaviour | types; groups and gadmin rights consistent; GRPDEL leaves nobody behind; confirmed numbers kept; credits conserved; deleted stays deleted; gadmins within their limits |
| nuking | 2 nukers, a release of 0 or 1 file of each of 2 owners, 3 commands, 1 upload, purge or removal between | credits and statistics come back; records match the disk; nothing lost |
| files | 2 clients, 3 names, depth 2, ten sets of commands, 3 of them a behaviour | a tree; home and private directories; index; rights; listings; WIPE |
| acl | 1 session, 2 users, 4 lists, 1 change of an account | the first decision is right; what is kept was computed |
| mail | a sender, a reader with 2 sessions, 2 messages, 1 database error | unread, saved and shown messages |
| scripts | an upload or a new directory whose scripts misbehave, next to another session's | refused is not done; one reply; no orphan; reading ends |
| templates | 554 files of up to two pieces or two blocks | shown as written; refused exactly when foreign |

| focus (run support) | instance | shows |
|---|---|---|
| data | 2 clients of different families with 4 port and 2 address configurations and 1 reload; each alone with 4 commands of all kinds or 3 passive ones | reachable listeners, configured ports, no early exhaustion, TLS enforced, REST used once |
| config | 11 files, 2 reloading threads, 1 client, 3 versions | complete, followed, agreed, restarts told |
| process | 2 servers, 2 sessions, 1 reader, 1 crash | one server, pid file, memory, snapshot, totals |
| crc32 | 2 buffers, 6 blocks | complete, not overwritten, never asleep together |
| conversions | bytes and numbers around the limits of their types, paths of 5 parts, modes of 2 clauses | round trips, exact arguments, resolution, chmod |
| statistics | 2 users, 2 files, 2 moves over a midnight that begins a week | sections exact, averages kept, rankings add up |

Two clients, operators or nukers suffice for the races between two handlers.
Transfers of up to three bytes with kilobytes of two give zero, partial and
several kilobytes; `MaxTransfers` and `MaxTotal` allow a client a second
transfer, so that what the first one leaves behind (restart offset, statistics,
running increments) meets the next. `MaxQueue` = 1 still lets kicks, logouts and
one administrator's task queue together. `LogMax` = 1 makes the capped log lose
entries. `ExitRequested` allows one shutdown at a time. Six blocks go three
times round a ring of two. Deadlock is not checked, because every behaviour may
end: the commands of a run are bounded and a shut-down server stays stopped.

Runs that show the code disagreeing with what the repository says of it (each
has an entry under `findings`):

* session_shutdown: a handler that pushes a login kick after the server's last
  drain waits for ever, and the server thread joins it;
* transfer_open_fails: a download whose data connection cannot be opened keeps
  the credits charged for the whole file;
* replication_name: the log entry of a purge that follows that of a new account
  of the same name removes the new account's name from the cache.

Some properties hold only on the instance of their run, by the same reading of
the code. `LoginLimit` needs runs without login kicks: a kick is subtracted
from the count although the kicked login may already have been given back.
`PaidForBytes` needs a file that does not grow during its download, since the
correction for growth charges bytes where kilobytes are due (`cmd/rfc/retr.cpp:190`).
`UploadKept` needs `OpenFails` false and no resume: a failed Open deletes the
path twice (`cmd/rfc/stor.cpp:226`), and a failed resume deletes the file it resumed.
`OneOperatorExact` (names found, confirmed masks, total_users) needs a single
operator.

The properties of `site` and `support` name their exceptions in their comments.
An exception is a state the model reaches and the code leaves as it is:

* accounts: overlapping commands may undo each other's list of groups; CHANGE of
  the flags as a whole drops the flags `deleted` and `gadmin`, although
  `cmd/site/change.cpp:303` refuses to change flag 6; the slot checks of a gadmin
  refuse the value for "unlimited"; the first allotment may exceed its maximum by
  one, because a sum over no entries is -1; a renamed group keeps its old name in
  the cache; TAKE from a user without credits does nothing; an increment that is
  under way for an account that is purged is lost with it; a gadmin's new account
  occupies a slot of its template's group until its own is written;
* nukes: a second nuke, overlapping commands or a failed rename lose records;
  deleting a record by path deletes all of that path; RestoreStats gives every
  nukee the files of the whole nuke; the nuke tool overwrites its percent flag
  (`tools/nuke/nuke.cpp:158`);
* files: SITE CHMOD sets the umask of the process to 0 and never back
  (`fs/chmod.cpp:54`); reading the umask changes it for a moment (`fs/mode.cpp:154`);
  RNTO over a file needs only the right to upload; a renamed directory leaves
  the entries of its subdirectories in the index; WIPE recurses without `-r`;
* access lists: an ACL keeps its first result, whoever asks later (`acl/acl.cpp:30`);
* mail: with two sessions of a user, reading in one trashes what the other saved;
  a failed insert counts as sent; an update never reaches more than one message
  (`db/connection.cpp:117`);
* scripts: a byte 0xFF of output ends the reading (`util/processreader.cpp:149`);
  pipes are inherited; a script that outlives SIGKILL leaves the status of an
  earlier one; a post check that cannot run gives two final replies;
* templates: a backslash before a brace outside text opens a tag
  (`text/parser.cpp:118`); a value that looks like a tag is substituted again;
* statistics: a nuked file that is deleted is moved twice; the ranking stops at
  the first entry without files and is empty after a division by zero;
* data connections: a passive command that fails leaves the type of the last one,
  so that Open fails its assertion; the addresses are read without a lock; two
  loops together can report exhausted ports that are not, and so can one alone when
  ranges overlap or do not ascend, which `cfg/setting.cpp` does not ask for; a
  reload keeps the next port of the old ranges;
* configuration: two reloads at once may publish the older version last, and one
  that comes before the server thread's first copy is not seen by its slots; the
  answer to SITE RELOAD is that of the restart check even if the load failed
  (`ftp/task/task.cpp:114`); the slots see the configuration before the reload;
* process: a crash leaves memory, the mutex in it and the pid file; a pid used
  again meets the memory of its predecessor; slowest and fastest download of who
  are both maxima (`cmd/online.cpp:107`);
* conversions: `=r` without a class keeps the bits chmod would clear; the family
  of EPRT is not compared with the address, and LPRT looks at one character of its own.

## Fairness

Weak fairness of each thread: operating-system threads are scheduled. A client
that blocks in a read is fair only once it is interrupted (its socket is shut
down, `clientimpl.cpp:343-350`); no client has to send anything and no operator
has to give a command. Strong fairness of `PollTasks` in `Session`: poll is
called again and again with a byte in the pipe; that a byte is there whenever a
task is queued is `NoLostWakeup`, proved for `TaskQueue`. Database failures are
never fair and end with their budget.

## Proofs

`SessionProofs` proves `Spec => []IInv` for any finite set of clients, any users
and limits (assumptions: the named ASSUMEs of `Session`), from which follow
`TypeCorrect`, `CounterExact`, `NoDoubleLogout`, `LoggedInCounted` and
`LiveReferences`. `LoginCountExact` alone is not inductive: that a logout
decrements a count that includes this client needs to know who owns the login.
`IInv` adds

* `LoginOwner`: a login guard is set exactly while some thread is obliged to log
  the client out: state LoggedIn, or one of the two threads is in the logout,
  never both;
* `UserKnown`: whoever holds a login, or is about to, has a user;
* `TaskInv`: what the queue and the server's current task refer to exists, and
  ClientFinished of a client is queued once, only after it is Finished.

The step proof has one case per action; counting steps use lemmas on the
cardinality of a set that gains or loses one client.

`SupportProofs` proves of the queue the invariant `QueueInv` (`QueueInvariance`), its part
`NoLostWakeup` (`WakeupKept`), and `QueueImplements`: the initial states and
each step of `TaskQueue` map to an initial state, a step or a stutter of
`TaskService`. The refinement needs `QueueInOrder` (the queue holds exactly the
tasks pushed and not taken, each producer's in order) and `TakenInOrder`.

`SessionProofs` adds to `IInv`, for the same constants:

* `WaitInv` for `WaiterAnswered`: there is no client left once the server thread
  has ended, so a handler that waits has its task in the queue or in execution;
* `FaultInv` for `AssertsNeedInterrupt`: at each label of a client thread that is
  not interrupted, the state its handler relies on;
* `UpdateInv` for `UpdateReaches`: where the copy of an account is stale, which of
  log, queue, task and flag still carries the change;
* `Within` for `LimitHolds` and `KicksExceedByOne`: LoginCounter::Start alone raises
  a count, by one, and for one kick too many at most. The limit itself needs `NoLoginKicks` (nobody
  logs in with `!name`), the bound of one above it does not: a kick is subtracted
  from the count whether or not the kicked login is still counted
  (`ftp/logincounter.cpp`).

`TransferProofs` proves `SlotsSound` (`SlotsCorrect`), inductive as it stands
because it is stated per label; `RecordedOnce` with `RecordInv` (the handler closes
a transfer before it records it, the data guard records open ones only) and
`NoPartialFile` with `PartialInv` (a file that is neither old nor credited has an
upload whose guard deletes it). Three theorems have a hypothesis, the one their run
instantiates, for the reasons given under *Runs*: `CreditedUploadStays` needs
`PlainUploads` (no resume, no overwriting, no failing Open), `DownloadsNotOverdrawn`
needs `Downloads` (a site where everybody downloads and nobody starts in debt;
nukes and other forced decrements may overdraw by design), `DownloadsPaid` needs
`Kinds = {"RETR"}` and `~OpenFails`. Their invariants are `UploadInv`, `DownloadInv`
and `PriceInv`: what has been paid at each label.

`CreditsBalance` (`LedgerBalanced`) is about sums: what a user has is what the
ledger says less the increments whose threads have not reached the database.
`LedgerInv` says that an increment is counted while it waits and until the
statement that applies it, at most one of the three that its thread tries; that
the third finds the entry if the second did not, because nothing removes one.

`FiniteSums` holds what these proofs need of `SumFunctionOnSet`: the sum changes by
one element's part when a set gains or loses it, or when the function changes there.
The library defines the sum by a recursion over subsets that picks an element; the
induction is over the subsets of a set as a first-order statement, by the least
cardinality of a counterexample.

`SupportProofs` proves `ChecksumSound` and the assertions on `pending` for a ring
of any size (`RingAssumption`: at least one buffer; without one the iterators have nothing to
point to, and the only caller passes a constant).
`CrcInv` says which blocks lie between the two iterators modulo the size of the
ring, and who is awake to wake a sleeper.

It proves `ServerSound` for any number of processes, readers, starts
and crashes. `PortInv` is why two servers never serve: the port, not the pid file.
`ProcessAssumption` keeps pids and readers apart from the value for nobody.

`ReplicationProofs` proves `StaleOnlyIfMissed` for any operators, log size and
failing statements: by `CacheInv` each uid is followed, due (its change is between
the statement and the replicator's last table) or missed. With `SingleOperator` it
proves that names are found (`FoundInv`: an account that had the name is refreshed
before the one that has it), masks stay (`MaskInv`) and total_users holds
(`TotalInv`; `TotalUsers # 0`, since the model starts with one account).

`AccountsProofs` proves the four properties that the run `site` checks of accounts,
for any number of uids, gids and operators, any values and lists of group names
(`AccountAssumption`: the parsers deliver known settings and integers; a gadmin is
an operator; the ids of the defaults are those of `db/initialise`):

* `GroupsAreSound` (types, a primary group as long as there is any, gadmin rights for
  own groups, nobody in a group that is gone). A copy that a handler holds between
  load and write is what matters: `JobsOK` says of each command's copy that it is an
  account and which fields it may write, `RightsInv` and `DangleInv` that, while no
  commands overlapped, it fits the document it will be written to. What AddGIDs,
  DelGIDs, SetGIDs and ToggleGIDs of `acl/user.cpp` return for lists of any length
  is proved first (`Regrouped`).
* `ChangesAreKept`: the numbers last confirmed are those in the document, because a
  save writes its own fields only (`NumbersNotLost` is inductive with `JobsOK`, also
  while commands overlap); and credits are conserved. `Balanced` is the sum of what
  accounts hold and what increments owe; `IncrInv` says why the third statement of an
  increment finds an entry unless the account was purged.
* `DeletedStay` (`StayDeleted`), from `DeletedInv`: while no commands overlapped, a
  copy that will be written with its flags lacks `deleted` only if the document does.
* `LimitsAreKept` (`WithinLimits`), from `LimitInv`: what a gadmin's command found at
  its load still holds when it writes (`AllowedInv`), and no allotment or maximum is
  negative (`AllotInv`).

The proof found two things that no run had shown. Credits under way for an account
that is purged are lost: the property now says so, and the run has the commands that
lead there. And a gadmin's ADDUSER is a moment in the default account's group, which
is why the limit on slots is stated for the group that the command is about.

`NukingProofs` proves the whole of what `site` checks of nukes, for any nukers,
releases, owners, ratios and multipliers (`NukeAssumption`):

* `RecordsAgree`, for every nuke_style: `Phase` says what the collections and the disk
  hold of a release at each step of a command, and `IdOf` why a record found by the
  attribute of a directory is of that directory's release: an id is never used for two.
* `NukesUndone` (`NukesReturn`): credits and statistics return. `Books` is the balance
  behind it: what an owner has, what the records say was taken (`OnRecord`) and what
  threads have taken or returned and not yet recorded (`Underway`, the sum of what
  each is `Owed`) are what it would have without nukes.
* `NothingLost` (`LoseNothing`): with nuke_style keep, no step loses a file.

`SiteProofs` proves the three properties of `FileSystem`, for any clients, names,
depth, rules and limit of the recursion. `FileAssumption` asks that home directories
be neither private nor hidden to their owner: PASS refuses a login whose home it
cannot enter (`cmd/rfc/pass.cpp:85-96`).

* `IndexIsExact` (`IndexSound`): the tree stays a tree (`FileInv`, with what a rename
  does to the paths below it), and `IndexInv` says what a command still owes the index
  at each of its steps (`IndexState`), if no commands overlapped (`SoloInv`).
* `ClientWithinRights` (`WithinRights`): wherever CWD searches, a client ends where it
  may be (`Sound`), it removes only what it may; and the listings, which walk level
  by level with the limit of the recursion, show what is visible to it: the levels
  (`Level`) are what any walk visits (`WalkIsLevels`), by a least counterexample.
* `WipeIsWhole` (`LeaveNothing`): everything below the directory that is left is
  covered by what WIPE has still to visit (`WipeInv`).

`SiteProofs` and `SupportProofs` instantiate the following components under the names
`MCSite` and `MCSupport` use, and prove the whole property that those runs check of
them (of `Statistics`: two of its four parts):

* `TransfersOpenRight` without assumptions (`TransferInv`) and `ListenersRight` for
  ranges and addresses as the settings parser delivers them (`DataAssumption`) that
  ascend (`AscendingRanges`, see the exceptions under *Runs*). `AllocInv` says that
  the ports a loop has tried are an arc of the configured ones from its first port to
  the iterator, whatever the others do; a loop that comes round has tried all.
* `ScriptsAreObeyed`, from `CommandInv` (what has been answered and done at each
  slot), `ReaderInv` (reader against child) and `HolderInv` (who holds a copy of a
  pipe runs). `ScriptAssumption` names the kinds and behaviours of scripts.
* `DecisionsAreRight`: the loop of `ACL::Evaluate` computes, for a list of any
  length, that the first matching entry decides (`LoopMeansFirst`), and what an ACL
  keeps was computed from what it was first asked (`AclInv`).
* `ConstructCompletes`: after every line of a file of any length the configuration
  keeps `ParseInv`, and `SanityCheck` turns that into `Complete`. With it
  `AnyFilesFollowed` needs no assumption on the files but their syntax
  (`ConfigLine`). `ConfigInv` has `VersionInv` (while reloads do not overlap, the one
  under way has a later number than any copy) and `FirstInv` (the server thread's
  copy, if it was taken before the first reload, is the first one).

* `MailIsKept` and `UnreadMailStays`, for any accounts and sessions
  (`MailAssumption`: every session has an account). `TrashWasShown` is inductive;
  `SavedStays` needs `OwnInv` (what a session reads or has looked up is its own
  user's) and `AloneInv`: a user with one session at a time cannot save a message
  while that session still has it to show as unread.
* `SectionsFollowFiles` (`SectionExact` and `AverageKept` of `Statistics`), for any
  users, sections, sizes and days (`StatAssumption`). `Ledger` is what a section will
  hold once every move has ended: the documents and what the moves under way have
  still to add. `SectionInv` equates it with the files that stand there, `AverageInv`
  with the uploads; `NukeExact` says that a record of a nuke has the numbers of its
  files, so that UNNUKE returns what NUKE took.

The library's induction theorems take an operator as a parameter, which the
provers at hand cannot instantiate. `LoopMeansFirst`, `ConstructCompletes`,
`WalkIsLevels` and the lemmas about lists of groups argue by a least counterexample
instead (from the well-foundedness of `<`), and show first that the recursive
function exists.

The assumptions are operators of the component's module and are evaluated by TLC on
every run of `MCSite` and `MCSupport`. Each inductive invariant was an invariant of a
TLC run before it was proved.

Only model-checked: liveness (fairness and ENABLED are beyond the prover), and what
`site` and `support` check of `Templates`, `Conversions` and the rankings of
`Statistics` (`GroupsAddUp`, `RanksComplete`): parsers, formats and folds, each
compared with a reference on every input of its run. They are recursive functions of
their input, so that a proof is an induction over data for each of them.

## Not modelled

* Logs: nothing reads them.
* Sockets, TLS, DNS and ident: system calls and OpenSSL; their failures are
  inputs of the handlers. Speed limits are sleeps.
* Serialisation of database documents and the modes of connections, except for
  which errors a caller sees.
* Reports (USER, USERS, GINFO, SEARCH, STATS, TRAFFIC and others), the dupe
  collection (one insert, one query) and the tools other than nuke and who: they
  read and print. The weekly allotment is paid by a tool outside the server.
* The LRU cache of owner files: it holds what can be read again.
* The buffering of pipelined commands in the control connection: poll looks at
  the socket and not at lines already read (`ftp/controlimpl.cpp:129`).
* max_users: `ftp/logincounter.cpp:34` compares it and its return is commented
  out; the shared memory is sized for it (`ftp/online.cpp:81`), and `Process`
  stops at that capacity.

## Plan

1. Done: the modules above, and the proofs under *Proofs*.
2. Left: the rankings of `Statistics`; the parser of `Templates` against its outline.
