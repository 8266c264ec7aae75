---------------------------- MODULE Replication ----------------------------
(***************************************************************************)
(* The accounts and their caches: SITE ADDUSER, RENUSER, ADDIP, DELIP,     *)
(* DELUSER and PURGE write the users collection and then an entry of the   *)
(* update log (db/user/user.cpp); the replicator thread (db/replicator.cpp) *)
(* tails that log and refreshes UserCache (db/user/usercache.cpp), which   *)
(* every lookup of a name, a uid or an IP mask reads.                      *)
(*                                                                         *)
(* One action is one statement on the database or one locked section of    *)
(* the cache. A failing statement takes from a budget of MaxFailures.      *)
(* primaryGids is keyed and written like names and is left out; GroupCache *)
(* has the steps of UserCache without the masks.                           *)
(***************************************************************************)
EXTENDS Integers, Sequences, FiniteSets, FiniteSetsExt

CONSTANTS
  Threads,      \* client threads that administer accounts
  Names,        \* user names
  Addrs,        \* IP masks, none of which matches another
  None,         \* no account, no entry: "unknown" and -1 in the lookups
  Commands,     \* the commands of a run: subset of AllCommands
  TotalUsers,   \* cfg total_users, -1 for unlimited
  LogMax,       \* entries the capped updatelog keeps: 100 in the code
  MaxUid,       \* bound: the highest uid
  MaxWrites,    \* bound: commands started
  MaxFailures   \* bound: database statements that fail

AllCommands == {"ADDUSER", "RENUSER", "ADDIP", "DELIP", "DELUSER", "PURGE"}
Uids == 0 .. MaxUid
Accounts == [name : Names, masks : SUBSET Addrs, deleted : BOOLEAN]

ASSUME ReplicationBounds ==
  /\ Commands \subseteq AllCommands /\ TotalUsers \in Nat \cup {-1} \* config.cpp refuses less
  /\ LogMax \in Nat \ {0} /\ MaxUid \in Nat /\ MaxWrites \in Nat /\ MaxFailures \in Nat
  /\ None \notin Names \cup Uids \cup Accounts

VARIABLES
  users,     \* the users collection, by uid
  log,       \* every entry ever inserted in updatelog; the collection keeps LogMax
  tpc, job,  \* where each thread's command is, and what it holds
  rpc,       \* where the replicator is
  last,      \* Tail::lastOID, an index of log
  entry,     \* the uid Replicate works on
  rows,      \* what its queries, or GetUsers of Populate, returned, by uid
  mark,      \* length of the log at that GetUsers
  uids, names, ipMasks, \* the tables of UserCache
  missed,    \* uids of changes that no query of the replicator has followed
  intact,    \* nothing was missed since the last GetUsers
  granted,   \* masks that ADDIP confirmed and no command has taken back
  writes, fails \* bounds

dbVars == <<users, log, granted>>
threadVars == <<tpc, job, writes>>
cacheVars == <<uids, names, ipMasks>>
tailVars == <<rpc, last, entry, rows, mark>>
missVars == <<missed, intact>>
vars == <<dbVars, threadVars, cacheVars, tailVars, missVars, fails>>

Live == {u \in Uids : users[u] # None}
NameTaken(n) == \E u \in Live : users[u].name = n
NoRows == [u \in Uids |-> None]
NoJob == [op |-> None, uid |-> None, name |-> None, masks |-> {}, addr |-> None]

\* The server starts with one account; the cache is filled by the replicator.
Init ==
  /\ \E a \in {b \in Accounts : b.masks = {}} :
       users = [u \in Uids |-> IF u = 0 THEN a ELSE None]
  /\ log = <<>> /\ granted = {} /\ missed = {} /\ intact = TRUE
  /\ tpc = [t \in Threads |-> "idle"] /\ job = [t \in Threads |-> NoJob]
  /\ rpc = "start" /\ last = 0 /\ entry = None /\ rows = NoRows /\ mark = 0
  /\ uids = [n \in Names |-> None] /\ names = [u \in Uids |-> None]
  /\ ipMasks = [u \in Uids |-> {}]
  /\ writes = 0 /\ fails = 0

Fails == fails < MaxFailures /\ fails' = fails + 1
Miss(S) == missed' = missed \cup S /\ intact' = (intact /\ S = {})
To(t, l) == tpc' = [tpc EXCEPT ![t] = l]

-----------------------------------------------------------------------------
(* Commands of the client threads *)

Begin(t, l, j) ==
  /\ tpc[t] = "idle" /\ j.op \in Commands /\ writes < MaxWrites
  /\ writes' = writes + 1 /\ job' = [job EXCEPT ![t] = j] /\ To(t, l)
  /\ UNCHANGED <<dbVars, cacheVars, tailVars, missVars, fails>>

\* ADDUSER compares the number of accounts with total_users, then creates.
BelowTotal == TotalUsers = -1 \/ Cardinality(Live) < TotalUsers

\* A primary group only adds a write of a field that is left out; the masks of
\* its arguments are an ADDIP that the same thread runs next.
AddUser(t, n) ==
  BelowTotal /\ Begin(t, "nextid", [NoJob EXCEPT !.op = "ADDUSER", !.name = n])

\* The highest uid plus one: the uid of a purged account can be given again.
NextAutoIncrement(t) ==
  LET next == IF Live = {} THEN 0 ELSE Max(Live) + 1 IN
  /\ tpc[t] = "nextid" /\ next <= MaxUid
  /\ job' = [job EXCEPT ![t].uid = next] /\ To(t, "insert")
  /\ UNCHANGED <<dbVars, cacheVars, tailVars, missVars, writes, fails>>

\* The unique indexes on uid and name let the insert through or refuse it.
Insert(t) ==
  LET u == job[t].uid  n == job[t].name IN
  /\ tpc[t] = "insert"
  /\ \/ /\ users[u] = None /\ ~NameTaken(n)
        /\ users' = [users EXCEPT ![u] = [name |-> n, masks |-> {}, deleted |-> FALSE]]
        /\ To(t, "log")
     \/ /\ users[u] # None \/ NameTaken(n)
        /\ To(t, "dup") /\ UNCHANGED users
  /\ UNCHANGED <<log, granted, cacheVars, tailVars, missVars, job, writes, fails>>

\* After a duplicate key: an account with this uid means another uid is due,
\* none means that the name was taken, and Create fails.
Duplicate(t) ==
  /\ tpc[t] = "dup"
  /\ To(t, IF users[job[t].uid] # None THEN "nextid" ELSE "idle")
  /\ UNCHANGED <<dbVars, cacheVars, tailVars, missVars, job, writes, fails>>

\* The evaluation fails, or the database refuses the insert: Create returns false.
CreateFails(t) ==
  /\ tpc[t] \in {"nextid", "insert"} /\ Fails /\ To(t, "idle")
  /\ UNCHANGED <<dbVars, cacheVars, tailVars, missVars, job, writes>>

\* An exception of the insert is logged and the loop of InsertAutoIncrement goes
\* round, whether or not the database has the account.  If it has, the next insert
\* finds the name taken and Create fails; the account is there and in no log entry.
InsertThrows(t) ==
  LET u == job[t].uid  n == job[t].name IN
  /\ tpc[t] = "insert" /\ Fails /\ To(t, "nextid")
  /\ \/ UNCHANGED <<users, missVars>>
     \/ /\ users[u] = None /\ ~NameTaken(n)
        /\ users' = [users EXCEPT ![u] = [name |-> n, masks |-> {}, deleted |-> FALSE]]
        /\ Miss({u})
  /\ UNCHANGED <<log, granted, cacheVars, tailVars, job, writes>>

\* The other commands load the account by name, check what they loaded and
\* prepare the new value of its field.
Load(t, u, j) == Begin(t, "save", [j EXCEPT !.uid = u])

RenUser(t, u, n) == Load(t, u, [NoJob EXCEPT !.op = "RENUSER", !.name = n])

AddIP(t, u, a) ==
  /\ a \notin users[u].masks
  /\ Load(t, u, [NoJob EXCEPT !.op = "ADDIP", !.addr = a, !.masks = users[u].masks \cup {a}])

DelIP(t, u, a) ==
  /\ a \in users[u].masks
  /\ Load(t, u, [NoJob EXCEPT !.op = "DELIP", !.addr = a, !.masks = users[u].masks \ {a}])

DelUser(t, u) ==
  ~users[u].deleted /\ Load(t, u, [NoJob EXCEPT !.op = "DELUSER"])

Purge(t, u) ==
  users[u].deleted /\ Load(t, u, [NoJob EXCEPT !.op = "PURGE", !.name = users[u].name])

\* The account after the statement of a command, which finds it by uid and
\* writes one field.
Written(j) ==
  CASE j.op = "RENUSER" -> [users[j.uid] EXCEPT !.name = j.name]
    [] j.op \in {"ADDIP", "DELIP"} -> [users[j.uid] EXCEPT !.masks = j.masks]
    [] j.op = "DELUSER" -> [users[j.uid] EXCEPT !.deleted = TRUE]
    [] j.op = "PURGE" -> None

\* The masks confirmed to an operator and not taken back, after a command.
Confirmed(j) ==
  CASE j.op = "ADDIP" -> granted \cup {<<j.uid, j.addr>>}
    [] j.op = "DELIP" -> granted \ {<<j.uid, j.addr>>}
    [] j.op = "PURGE" -> {g \in granted : g[1] # j.uid}
    [] OTHER -> granted

\* The unique index refuses a name that another account has.
Refused(j) == j.op = "RENUSER" /\ \E u \in Live \ {j.uid} : users[u].name = j.name

\* Mutant: DELIP saves its field without an entry of the update log.
SaveSilent(t) ==
  LET j == job[t] IN
  /\ tpc[t] = "save"
  /\ \/ /\ users[j.uid] # None /\ ~Refused(j)
        /\ users' = [users EXCEPT ![j.uid] = Written(j)]
        /\ granted' = Confirmed(j) /\ To(t, IF j.op = "DELIP" THEN "idle" ELSE "log")
     \/ users[j.uid] = None /\ To(t, "log") /\ UNCHANGED <<users, granted>>
     \/ users[j.uid] # None /\ Refused(j) /\ To(t, "idle") /\ UNCHANGED <<users, granted>>
  /\ UNCHANGED <<log, cacheVars, tailVars, missVars, job, writes, fails>>

\* An account that is gone is no error: the statement changes nothing.
Save(t) ==
  LET j == job[t] IN
  /\ tpc[t] = "save"
  /\ \/ /\ users[j.uid] # None /\ ~Refused(j)
        /\ users' = [users EXCEPT ![j.uid] = Written(j)]
        /\ granted' = Confirmed(j) /\ To(t, "log")
     \/ users[j.uid] = None /\ To(t, "log") /\ UNCHANGED <<users, granted>>
     \/ users[j.uid] # None /\ Refused(j) /\ To(t, "idle") /\ UNCHANGED <<users, granted>>
  /\ UNCHANGED <<log, cacheVars, tailVars, missVars, job, writes, fails>>

\* A failed statement ends RENUSER; the others ignore it and go on.
SaveFails(t) ==
  /\ tpc[t] = "save" /\ Fails
  /\ To(t, IF job[t].op = "RENUSER" THEN "idle" ELSE "log")
  /\ UNCHANGED <<dbVars, cacheVars, tailVars, missVars, job, writes>>

UpdateLog(t) ==
  /\ tpc[t] = "log"
  /\ log' = Append(log, job[t].uid) /\ To(t, "idle")
  /\ UNCHANGED <<users, granted, cacheVars, tailVars, missVars, job, writes, fails>>

\* The insert goes through a FastConnection, which does not ask for errors.
UpdateLogFails(t) ==
  /\ tpc[t] = "log" /\ Fails
  /\ Miss({job[t].uid}) /\ To(t, "idle")
  /\ UNCHANGED <<dbVars, cacheVars, tailVars, job, writes>>

-----------------------------------------------------------------------------
(* The replicator thread *)

\* Populate: GetUsers, then the tables are replaced under all their locks.
Populate ==
  /\ rpc = "start" /\ rpc' = "install"
  /\ rows' = users /\ mark' = Len(log) /\ missed' = {} /\ intact' = TRUE
  /\ UNCHANGED <<dbVars, threadVars, cacheVars, last, entry, fails>>

\* GetUsers reads through a NoErrorConnection: a failure is an empty list.
PopulateFails ==
  /\ rpc = "start" /\ rpc' = "install" /\ Fails
  /\ rows' = NoRows /\ mark' = Len(log) /\ missed' = Uids /\ intact' = FALSE
  /\ UNCHANGED <<dbVars, threadVars, cacheVars, last, entry>>

Install ==
  LET found == {u \in Uids : rows[u] # None} IN
  /\ rpc = "install" /\ rpc' = "init"
  /\ names' = [u \in Uids |-> IF u \in found THEN rows[u].name ELSE None]
  /\ ipMasks' = [u \in Uids |-> IF u \in found THEN rows[u].masks ELSE {}]
  /\ uids' = [n \in Names |->
               IF \E u \in found : rows[u].name = n
               THEN CHOOSE u \in found : rows[u].name = n ELSE None]
  /\ rows' = NoRows
  /\ UNCHANGED <<dbVars, threadVars, missVars, last, entry, mark, fails>>

\* The tail starts at the entry that is the last one now: those inserted since
\* GetUsers are never read.
InitialiseLastOID ==
  /\ rpc = "init" /\ rpc' = "tail" /\ last' = Len(log)
  /\ Miss({log[i] : i \in mark + 1 .. Len(log)})
  /\ UNCHANGED <<dbVars, threadVars, cacheVars, entry, rows, mark, fails>>

\* Tail::Next: a cursor that lost its place in the capped collection is dead,
\* and the next one starts at the oldest entry left whose ObjectID is greater than
\* the last one's; the database gives ids in the order of the log.
Next1 == LET oldest == Len(log) - LogMax + 1 IN
  IF last + 1 < oldest THEN oldest ELSE last + 1

\* Mutant: a new cursor starts at the newest entry.
TailNextNewest ==
  /\ rpc = "tail" /\ rpc' = "query" /\ last < Len(log)
  /\ entry' = log[Len(log)] /\ last' = Len(log)
  /\ UNCHANGED <<dbVars, threadVars, cacheVars, missVars, rows, mark, fails>>

TailNext ==
  /\ rpc = "tail" /\ rpc' = "query" /\ Next1 <= Len(log)
  /\ entry' = log[Next1] /\ last' = Next1
  /\ Miss({log[i] : i \in last + 1 .. Next1 - 1})
  /\ UNCHANGED <<dbVars, threadVars, cacheVars, rows, mark, fails>>

\* An exception of the tail: Run sleeps and starts again with Populate.
TailFails ==
  /\ rpc \in {"init", "tail"} /\ rpc' = "start" /\ Fails
  /\ UNCHANGED <<dbVars, threadVars, cacheVars, missVars, last, entry, rows, mark>>

\* Replicate of one uid: the account is read, then each table is changed under
\* its own lock.
ReplicateQuery ==
  /\ rpc = "query" /\ rpc' = IF users[entry] # None THEN "uids" ELSE "erase"
  /\ rows' = [NoRows EXCEPT ![entry] = users[entry]]
  /\ missed' = missed \ {entry} /\ UNCHANGED intact
  /\ UNCHANGED <<dbVars, threadVars, cacheVars, last, entry, mark, fails>>

\* Mutant: insert, which keeps the entry a name has, for assignment.
CacheUidInsert ==
  /\ rpc = "uids" /\ rpc' = "names"
  /\ uids' = [uids EXCEPT ![rows[entry].name] = IF @ = None THEN entry ELSE @]
  /\ UNCHANGED <<dbVars, threadVars, names, ipMasks, missVars, last, entry, rows, mark, fails>>

CacheUid ==
  /\ rpc = "uids" /\ rpc' = "names"
  /\ uids' = [uids EXCEPT ![rows[entry].name] = entry]
  /\ UNCHANGED <<dbVars, threadVars, names, ipMasks, missVars, last, entry, rows, mark, fails>>

CacheName ==
  /\ rpc = "names" /\ rpc' = "lookup"
  /\ names' = [names EXCEPT ![entry] = rows[entry].name]
  /\ UNCHANGED <<dbVars, threadVars, uids, ipMasks, missVars, last, entry, rows, mark, fails>>

\* The masks come from a second query.
LookupIPMasks ==
  /\ rpc = "lookup" /\ rpc' = "masks"
  /\ rows' = [rows EXCEPT ![entry].masks = IF users[entry] # None THEN users[entry].masks ELSE {}]
  /\ UNCHANGED <<dbVars, threadVars, cacheVars, missVars, last, entry, mark, fails>>

CacheIPMasks ==
  /\ rpc = "masks" /\ rpc' = "tail"
  /\ ipMasks' = [ipMasks EXCEPT ![entry] = rows[entry].masks] /\ rows' = NoRows /\ entry' = None
  /\ UNCHANGED <<dbVars, threadVars, uids, names, missVars, last, mark, fails>>

CacheErase ==
  /\ rpc = "erase" /\ rpc' = "unmask"
  /\ uids' = IF names[entry] = None THEN uids ELSE [uids EXCEPT ![names[entry]] = None]
  /\ names' = [names EXCEPT ![entry] = None]
  /\ UNCHANGED <<dbVars, threadVars, ipMasks, missVars, last, entry, rows, mark, fails>>

EraseIPMasks ==
  /\ rpc = "unmask" /\ rpc' = "tail"
  /\ ipMasks' = [ipMasks EXCEPT ![entry] = {}] /\ rows' = NoRows /\ entry' = None
  /\ UNCHANGED <<dbVars, threadVars, uids, names, missVars, last, mark, fails>>

\* A query fails: Replicate returns false, which the replicator ignores.
ReplicateFails ==
  /\ rpc \in {"query", "lookup"} /\ rpc' = "tail" /\ Fails
  /\ Miss({entry}) /\ rows' = NoRows /\ entry' = None
  /\ UNCHANGED <<dbVars, threadVars, cacheVars, last, mark>>

-----------------------------------------------------------------------------
\* The statements of a command that has begun, whether they succeed or fail.
CommandStep(t) ==
  \/ NextAutoIncrement(t) \/ Insert(t) \/ Duplicate(t) \/ CreateFails(t) \/ InsertThrows(t)
  \/ Save(t) \/ SaveFails(t) \/ UpdateLog(t) \/ UpdateLogFails(t)

Command(t) ==
  \/ \E n \in Names : AddUser(t, n)
  \/ \E u \in Live :
       \/ \E n \in Names : RenUser(t, u, n)
       \/ \E a \in Addrs : AddIP(t, u, a) \/ DelIP(t, u, a)
       \/ DelUser(t, u) \/ Purge(t, u)

Run ==
  \/ Populate \/ PopulateFails \/ Install \/ InitialiseLastOID
  \/ TailNext \/ TailFails
  \/ ReplicateQuery \/ CacheUid \/ CacheName \/ LookupIPMasks \/ CacheIPMasks
  \/ CacheErase \/ EraseIPMasks \/ ReplicateFails

Next == Run \/ \E t \in Threads : Command(t) \/ CommandStep(t)

Spec == Init /\ [][Next]_vars

-----------------------------------------------------------------------------
\* The collection, the update log, the jobs of the threads and the tables of
\* the cache hold what their types allow; the tail never passes the log's end.
TypeOK ==
  /\ users \in [Uids -> Accounts \cup {None}] /\ log \in Seq(Uids)
  /\ tpc \in [Threads -> {"idle", "nextid", "insert", "dup", "save", "log"}]
  /\ job \in [Threads -> [op : Commands \cup {None}, uid : Uids \cup {None},
                          name : Names \cup {None}, masks : SUBSET Addrs,
                          addr : Addrs \cup {None}]]
  /\ rpc \in {"start", "install", "init", "tail", "query", "uids", "names", "lookup",
              "masks", "erase", "unmask"}
  /\ rows \in [Uids -> Accounts \cup {None}]
  /\ last \in 0 .. Len(log) /\ mark \in 0 .. Len(log) /\ entry \in Uids \cup {None}
  /\ uids \in [Names -> Uids \cup {None}] /\ names \in [Uids -> Names \cup {None}]
  /\ ipMasks \in [Uids -> SUBSET Addrs]
  /\ missed \subseteq Uids /\ intact \in BOOLEAN /\ granted \subseteq Uids \X Addrs

\* The lookups of UserCache.
UIDToName(u) == names[u]
NameToUID(n) == uids[n]
IdentIPAllowed(a, u) == a \in ipMasks[u]

\* The lookups answer for a uid what the database holds.
Current(u) ==
  /\ UIDToName(u) = IF users[u] = None THEN None ELSE users[u].name
  /\ \A a \in Addrs : IdentIPAllowed(a, u) <=> users[u] # None /\ a \in users[u].masks

\* No change of the uid is on its way: no thread is between its statement and
\* the update log, and the tail is past every entry and not at work on one.
Settled(u) ==
  /\ \A t \in Threads : ~(tpc[t] = "log" /\ job[t].uid = u)
  /\ \A i \in last + 1 .. Len(log) : log[i] # u
  /\ rpc \notin {"start", "install", "init"} /\ entry # u

\* Only a missed change leaves the cache stale: whatever the order of writes,
\* log entries and queries, and whichever statements fail, names and ipMasks
\* of a settled uid are current, unless an entry of it was lost, overwritten
\* in the capped log, inserted between GetUsers and the start of the tail, or
\* its Replicate failed, and nothing has refreshed the uid since.
StaleOnlyIfMissed == \A u \in Uids : Settled(u) /\ u \notin missed => Current(u)

\* Every account is found by its name once all changes are replicated
\* (NameToUID of SITE STATS and SITE CHOWN).
NameFound ==
  intact /\ (\A u \in Uids : Settled(u)) =>
    \A u \in Live : NameToUID(users[u].name) = u

\* A mask that SITE ADDIP confirmed stays until a command removes it.
ConfirmedMaskStays ==
  \A g \in granted : users[g[1]] # None /\ g[2] \in users[g[1]].masks

\* total_users bounds the accounts.
TotalUsersKept == TotalUsers # -1 => Cardinality(Live) <= TotalUsers
=============================================================================
