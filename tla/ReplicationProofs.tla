-------------------------- MODULE ReplicationProofs --------------------------
(***************************************************************************)
(* Proofs about Replication: for any number of operators, names, masks,    *)
(* log entries and failing statements the caches are stale only where a    *)
(* change was missed; with one operator every name is found, confirmed     *)
(* masks stay and total_users is kept.                                     *)
(***************************************************************************)
EXTENDS Replication, FiniteSetTheorems, NaturalsInduction, TLAPS

-----------------------------------------------------------------------------
(* The inductive invariants *)

Loading == {"start", "install", "init"}
FieldCommands == AllCommands \ {"ADDUSER"}

\* What a command has in hand at each of its statements.
JobInv ==
  \A t \in Threads :
    /\ tpc[t] \in {"insert", "dup", "save", "log"} => job[t].uid \in Uids
    /\ tpc[t] \in {"nextid", "insert", "dup"} => job[t].name \in Names
    /\ tpc[t] = "save" =>
         /\ job[t].op \in FieldCommands
         /\ job[t].op = "RENUSER" => job[t].name \in Names
         /\ job[t].op \in {"ADDIP", "DELIP"} => job[t].addr \in Addrs

\* The replicator works on a uid from Tail::Next to the last table it changes.
EntryInv ==
  /\ rpc \in Loading \cup {"tail"} <=> entry = None
  /\ rpc \in {"uids", "names", "lookup", "masks"} => rows[entry] # None

ReplicationTypes == TypeOK /\ JobInv /\ EntryInv

\* A change of the uid is on its way to the replicator: a thread has yet to log
\* it, or the tail has yet to reach its entry.
Unread == IF rpc \in {"install", "init"} THEN mark ELSE last
Unlogged(u) == \E t \in Threads : tpc[t] = "log" /\ job[t].uid = u
Queued(u) == \E i \in Unread + 1 .. Len(log) : log[i] = u
Due(u) == Unlogged(u) \/ Queued(u)

NameCurrent(u) == names[u] = IF users[u] = None THEN None ELSE users[u].name
MasksCurrent(u) == ipMasks[u] = IF users[u] = None THEN {} ELSE users[u].masks

\* What GetUsers returned, what Replicate holds of the uid it works on and what
\* the tables have of the others is what the database has.
Followed(u) ==
  /\ rpc = "install" => rows[u] = users[u]
  /\ rpc \notin {"start", "install"} /\ entry # u => NameCurrent(u) /\ MasksCurrent(u)
  /\ entry = u /\ rpc \in {"uids", "names"} => users[u] # None /\ rows[u].name = users[u].name
  /\ entry = u /\ rpc \in {"lookup", "masks"} => users[u] # None /\ NameCurrent(u)
  /\ entry = u /\ rpc = "masks" => rows[u].masks = users[u].masks
  /\ entry = u /\ rpc \in {"erase", "unmask"} => users[u] = None
  /\ entry = u /\ rpc = "unmask" => names[u] = None

\* The caches follow the database, but for changes on their way and missed ones.
CacheInv == \A u \in Uids : Followed(u) \/ Due(u) \/ u \in missed

\* The unique index on the name; nothing missed means nothing missed.
UniqueNames == \A u, v \in Live : users[u].name = users[v].name => u = v
IntactInv == intact => missed = {}

\* One operator at a time.
SingleOperator == \A t1, t2 \in Threads : t1 = t2

\* The table of uids has the account under its name, or will get it.
Found(u) ==
  \/ Due(u)
  \/ rpc = "install" /\ rows[u] # None /\ rows[u].name = users[u].name
  \/ rpc # "install" /\ uids[users[u].name] = u
  \/ entry = u /\ rpc = "query"
  \/ entry = u /\ rpc = "uids" /\ rows[u].name = users[u].name

\* The replicator has the name n for the uid v in its tables or in its hands.
Carries(v, n) ==
  \/ rpc = "install" /\ rows[v] # None /\ rows[v].name = n
  \/ rpc # "install" /\ names[v] = n
  \/ entry = v /\ rpc \in {"uids", "names"} /\ rows[v].name = n

\* A uid that carries the name another account has by now is refreshed before
\* that account is: the order of the log is the order of the changes.
RefreshedFirst(v, u) ==
  \/ \E i \in Unread + 1 .. Len(log) :
       log[i] = v /\ (Unlogged(u) \/ \E j \in i + 1 .. Len(log) : log[j] = u)
  \/ /\ entry = v /\ Due(u)
     /\ rpc \in {"query", "erase"} \/ (rpc \in {"uids", "names"} /\ rows[v].name # users[u].name)

FoundInv ==
  intact /\ rpc # "start" =>
    \A u \in Live :
      /\ Found(u)
      /\ \A v \in Uids \ {u} : Carries(v, users[u].name) => RefreshedFirst(v, u)

\* A command that saves masks has those of the database with its change.
MaskInv ==
  /\ \A g \in granted : users[g[1]] # None /\ g[2] \in users[g[1]].masks
  /\ \A t \in Threads : tpc[t] = "save" =>
       /\ users[job[t].uid] # None
       /\ job[t].op = "ADDIP" => job[t].masks = users[job[t].uid].masks \cup {job[t].addr}
       /\ job[t].op = "DELIP" => job[t].masks = users[job[t].uid].masks \ {job[t].addr}

\* Below total_users while an account is being created, unless an insert that threw
\* has made it already.
TotalInv ==
  TotalUsers # -1 =>
    /\ Cardinality(Live) <= TotalUsers
    /\ \A t \in Threads : tpc[t] \in {"nextid", "insert", "dup"} =>
         Cardinality(Live) < TotalUsers \/ NameTaken(job[t].name)

-----------------------------------------------------------------------------
(* The operators of the model *)

Jobs == [op : Commands \cup {None}, uid : Uids \cup {None}, name : Names \cup {None},
         masks : SUBSET Addrs, addr : Addrs \cup {None}]

\* What a command has checked and loaded when it begins.
Begins(t) ==
  \E l \in {"nextid", "save"}, j \in Jobs :
    /\ Begin(t, l, j)
    /\ l = "nextid" => j.name \in Names /\ BelowTotal
    /\ l = "save" =>
         /\ j.uid \in Live /\ j.op \in FieldCommands
         /\ j.op = "RENUSER" => j.name \in Names
         /\ j.op \in {"ADDIP", "DELIP"} => j.addr \in Addrs
         /\ j.op = "ADDIP" => j.masks = users[j.uid].masks \cup {j.addr}
         /\ j.op = "DELIP" => j.masks = users[j.uid].masks \ {j.addr}

\* Every account has a name and masks.
LEMMA AccountFields ==
  ASSUME TypeOK, NEW u \in Uids, users[u] # None
  PROVE  /\ users[u] \in Accounts /\ users[u].name \in Names
         /\ users[u].masks \in SUBSET Addrs
PROOF BY DEF TypeOK, Accounts

\* Every command begins in one of these ways.
LEMMA CommandBegins ==
  ASSUME TypeOK, NEW t \in Threads, Command(t)
  PROVE  Begins(t)
PROOF
  <1> DEFINE Goal(l, j) ==
               /\ l = "nextid" => j.name \in Names /\ BelowTotal
               /\ l = "save" =>
                    /\ j.uid \in Live /\ j.op \in FieldCommands
                    /\ j.op = "RENUSER" => j.name \in Names
                    /\ j.op \in {"ADDIP", "DELIP"} => j.addr \in Addrs
                    /\ j.op = "ADDIP" => j.masks = users[j.uid].masks \cup {j.addr}
                    /\ j.op = "DELIP" => j.masks = users[j.uid].masks \ {j.addr}
  <1>0. ASSUME NEW l \in {"nextid", "save"}, NEW j \in Jobs, Begin(t, l, j), Goal(l, j)
        PROVE  Begins(t)
    BY <1>0 DEF Begins
  <1>1. ASSUME NEW n \in Names, AddUser(t, n) PROVE Begins(t)
    <2> DEFINE j == [NoJob EXCEPT !.op = "ADDUSER", !.name = n]
    <2>1. Begin(t, "nextid", j) /\ BelowTotal
      BY <1>1 DEF AddUser
    <2>2. j.op = "ADDUSER" /\ j.name = n
      BY DEF NoJob
    <2>3. j \in Jobs
      BY <2>1, <2>2 DEF NoJob, Jobs, Begin
    <2>4. Goal("nextid", j)
      BY <2>1, <2>2
    <2> QED BY <1>0, <2>1, <2>3, <2>4
  <1>2. ASSUME NEW u \in Live, NEW n \in Names, RenUser(t, u, n) PROVE Begins(t)
    <2> DEFINE j == [NoJob EXCEPT !.op = "RENUSER", !.name = n, !.uid = u]
    <2>1. Begin(t, "save", j)
      BY <1>2 DEF RenUser, Load, NoJob
    <2>2. j.op = "RENUSER" /\ j.name = n /\ j.uid = u
      BY DEF NoJob
    <2>3. j \in Jobs
      BY <2>1, <2>2 DEF NoJob, Jobs, Begin, Live
    <2>4. Goal("save", j)
      BY <2>2 DEF FieldCommands, AllCommands
    <2> QED BY <1>0, <2>1, <2>3, <2>4
  <1>3. ASSUME NEW u \in Live, NEW a \in Addrs, AddIP(t, u, a) PROVE Begins(t)
    <2> DEFINE j == [NoJob EXCEPT !.op = "ADDIP", !.addr = a, !.uid = u,
                                  !.masks = users[u].masks \cup {a}]
    <2>1. Begin(t, "save", j)
      BY <1>3 DEF AddIP, Load, NoJob
    <2>2. /\ j.op = "ADDIP" /\ j.addr = a /\ j.uid = u
          /\ j.masks = users[u].masks \cup {a}
      BY DEF NoJob
    <2>3. users[u].masks \cup {a} \in SUBSET Addrs
      BY AccountFields DEF Live
    <2>4. j \in Jobs
      BY <2>1, <2>2, <2>3 DEF NoJob, Jobs, Begin, Live
    <2>5. Goal("save", j)
      BY <2>2 DEF FieldCommands, AllCommands
    <2> QED BY <1>0, <2>1, <2>4, <2>5
  <1>4. ASSUME NEW u \in Live, NEW a \in Addrs, DelIP(t, u, a) PROVE Begins(t)
    <2> DEFINE j == [NoJob EXCEPT !.op = "DELIP", !.addr = a, !.uid = u,
                                  !.masks = users[u].masks \ {a}]
    <2>1. Begin(t, "save", j)
      BY <1>4 DEF DelIP, Load, NoJob
    <2>2. /\ j.op = "DELIP" /\ j.addr = a /\ j.uid = u
          /\ j.masks = users[u].masks \ {a}
      BY DEF NoJob
    <2>3. users[u].masks \ {a} \in SUBSET Addrs
      BY AccountFields DEF Live
    <2>4. j \in Jobs
      BY <2>1, <2>2, <2>3 DEF NoJob, Jobs, Begin, Live
    <2>5. Goal("save", j)
      BY <2>2 DEF FieldCommands, AllCommands
    <2> QED BY <1>0, <2>1, <2>4, <2>5
  <1>5. ASSUME NEW u \in Live, DelUser(t, u) PROVE Begins(t)
    <2> DEFINE j == [NoJob EXCEPT !.op = "DELUSER", !.uid = u]
    <2>1. Begin(t, "save", j)
      BY <1>5 DEF DelUser, Load, NoJob
    <2>2. j.op = "DELUSER" /\ j.uid = u
      BY DEF NoJob
    <2>3. j \in Jobs
      BY <2>1, <2>2 DEF NoJob, Jobs, Begin, Live
    <2>4. Goal("save", j)
      BY <2>2 DEF FieldCommands, AllCommands
    <2> QED BY <1>0, <2>1, <2>3, <2>4
  <1>6. ASSUME NEW u \in Live, Purge(t, u) PROVE Begins(t)
    <2> DEFINE j == [NoJob EXCEPT !.op = "PURGE", !.name = users[u].name, !.uid = u]
    <2>1. Begin(t, "save", j)
      BY <1>6 DEF Purge, Load, NoJob
    <2>2. j.op = "PURGE" /\ j.uid = u
      BY DEF NoJob
    <2>3. users[u].name \in Names
      BY AccountFields DEF Live
    <2>4. j \in Jobs
      BY <2>1, <2>2, <2>3 DEF NoJob, Jobs, Begin, Live
    <2>5. Goal("save", j)
      BY <2>2 DEF FieldCommands, AllCommands
    <2> QED BY <1>0, <2>1, <2>4, <2>5
  <1> QED BY <1>1, <1>2, <1>3, <1>4, <1>5, <1>6 DEF Command

\* The steps there are.
LEMMA StepCases ==
  ASSUME TypeOK, [Next]_vars
  PROVE  \/ Run \/ UNCHANGED vars
         \/ \E t \in Threads : Begins(t) \/ CommandStep(t)
PROOF BY CommandBegins DEF Next

\* A field command leaves an account, unless it purges it, and keeps its name,
\* unless it renames it.
LEMMA WrittenFields ==
  ASSUME TypeOK, JobInv, NEW t \in Threads, tpc[t] = "save", users[job[t].uid] # None
  PROVE  LET j == job[t]  a == Written(j)  b == users[j.uid] IN
         /\ j.uid \in Uids
         /\ j.op = "PURGE" => a = None
         /\ j.op # "PURGE" => a \in Accounts
         /\ j.op \notin {"PURGE", "RENUSER"} => a.name = b.name
         /\ j.op = "RENUSER" => a.name = j.name
         /\ j.op \in {"ADDIP", "DELIP"} => a.masks = j.masks
         /\ j.op \in {"RENUSER", "DELUSER"} => a.masks = b.masks
PROOF
  <1> DEFINE j == job[t]
             a == Written(j)
             b == users[j.uid]
  <1>0. j.uid \in Uids /\ j.op \in FieldCommands /\ (j.op = "RENUSER" => j.name \in Names)
    BY DEF JobInv
  <1>1. b \in Accounts
    BY <1>0, AccountFields
  <1>2. j.masks \in SUBSET Addrs
    BY DEF TypeOK
  <1>3. CASE j.op = "RENUSER"
    <2>1. a = [b EXCEPT !.name = j.name]
      BY <1>3 DEF Written
    <2> HIDE DEF a, b, j
    <2> QED BY <1>0, <1>1, <1>3, <2>1 DEF Accounts, a, b, j
  <1>4. CASE j.op \in {"ADDIP", "DELIP"}
    <2>1. a = [b EXCEPT !.masks = j.masks]
      BY <1>4 DEF Written
    <2> HIDE DEF a, b, j
    <2> QED BY <1>0, <1>1, <1>2, <1>4, <2>1 DEF Accounts, a, b, j
  <1>5. CASE j.op = "DELUSER"
    <2>1. a = [b EXCEPT !.deleted = TRUE]
      BY <1>5 DEF Written
    <2> HIDE DEF a, b, j
    <2> QED BY <1>0, <1>1, <1>5, <2>1 DEF Accounts, a, b, j
  <1>6. CASE j.op = "PURGE"
    BY <1>0, <1>6 DEF Written
  <1> QED BY <1>0, <1>3, <1>4, <1>5, <1>6 DEF FieldCommands, AllCommands

\* The highest uid is one of the uids.
LEMMA HighestUid ==
  ASSUME Live # {}
  PROVE  Max(Live) \in Live
PROOF
  <1> DEFINE Down == {n \in Nat : \E u \in Live : n = MaxUid - u}
  <1>0. MaxUid \in Nat /\ Live \subseteq 0 .. MaxUid
    BY ReplicationBounds DEF Live, Uids
  <1> HIDE DEF Live
  <1>1. Down \subseteq Nat /\ Down # {}
    <2>1. PICK u \in Live : TRUE
      OBVIOUS
    <2>2. MaxUid - u \in Down
      BY <1>0, <2>1
    <2> QED BY <2>2
  <1>2. PICK d \in Down : \A e \in Down : ~(<<e, d>> \in OpToRel(<, Nat))
    BY <1>1, NatLessThanWellFounded, WFMin
  <1>3. \A y, z \in Nat : y < z => <<y, z>> \in OpToRel(<, Nat)
    BY DEF OpToRel
  <1>4. PICK u \in Live : d = MaxUid - u
    OBVIOUS
  <1>5. ASSUME NEW v \in Live PROVE u >= v
    <2>1. MaxUid - v \in Down
      BY <1>0
    <2>2. ~(MaxUid - v < d)
      BY <1>1, <1>2, <1>3, <2>1
    <2> QED BY <1>0, <1>4, <2>2
  <1> DEFINE m == CHOOSE x \in Live : \A y \in Live : x >= y
  <1>6. m \in Live
    BY <1>5
  <1>7. m = Max(Live)
    BY DEF Max
  <1> QED BY <1>6, <1>7

-----------------------------------------------------------------------------
(* Types *)

\* The states a thread can be in.
Where == {"idle", "nextid", "insert", "dup", "save", "log"}

\* The types, variable by variable.
LEMMA TypeParts ==
  TypeOK <=>
    /\ users \in [Uids -> Accounts \cup {None}] /\ log \in Seq(Uids)
    /\ tpc \in [Threads -> Where] /\ job \in [Threads -> Jobs]
    /\ rpc \in {"start", "install", "init", "tail", "query", "uids", "names", "lookup",
                "masks", "erase", "unmask"}
    /\ rows \in [Uids -> Accounts \cup {None}]
    /\ last \in 0 .. Len(log) /\ mark \in 0 .. Len(log) /\ entry \in Uids \cup {None}
    /\ uids \in [Names -> Uids \cup {None}] /\ names \in [Uids -> Names \cup {None}]
    /\ ipMasks \in [Uids -> SUBSET Addrs]
    /\ missed \subseteq Uids /\ intact \in BOOLEAN /\ granted \subseteq Uids \X Addrs
PROOF BY DEF TypeOK, Where, Jobs

\* The entries of a part of the log are uids.
LEMMA LogPart ==
  ASSUME TypeOK, NEW i \in Nat, NEW k \in Int, k <= Len(log)
  PROVE  {log[n] : n \in i + 1 .. k} \subseteq Uids
PROOF
  <1>1. log \in Seq(Uids)
    BY DEF TypeOK
  <1>2. \A n \in i + 1 .. k : n \in 1 .. Len(log)
    BY <1>1
  <1>3. \A n \in 1 .. Len(log) : log[n] \in Uids
    BY <1>1
  <1> QED BY <1>2, <1>3

\* The commands touch neither the replicator nor the tables of the cache.
LEMMA ThreadFrame ==
  ASSUME NEW t \in Threads, Begins(t) \/ CommandStep(t)
  PROVE  UNCHANGED <<cacheVars, tailVars>>
PROOF
  <1>1. Begins(t) => UNCHANGED <<cacheVars, tailVars>>
    BY DEF Begins, Begin
  <1>2. NextAutoIncrement(t) \/ Insert(t) \/ Duplicate(t) \/ CreateFails(t) \/ InsertThrows(t) =>
          UNCHANGED <<cacheVars, tailVars>>
    BY DEF NextAutoIncrement, Insert, Duplicate, CreateFails, InsertThrows
  <1>3. Save(t) \/ SaveFails(t) \/ UpdateLog(t) \/ UpdateLogFails(t) =>
          UNCHANGED <<cacheVars, tailVars>>
    BY DEF Save, SaveFails, UpdateLog, UpdateLogFails
  <1> QED BY <1>1, <1>2, <1>3 DEF CommandStep

\* The threads keep the types.
LEMMA ThreadTypes ==
  ASSUME ReplicationTypes, NEW t \in Threads, Begins(t) \/ CommandStep(t)
  PROVE  ReplicationTypes'
PROOF
  <1>0. /\ users \in [Uids -> Accounts \cup {None}] /\ log \in Seq(Uids)
        /\ tpc \in [Threads -> Where] /\ job \in [Threads -> Jobs]
        /\ last \in 0 .. Len(log) /\ mark \in 0 .. Len(log)
        /\ missed \subseteq Uids /\ granted \subseteq Uids \X Addrs
    BY TypeParts DEF ReplicationTypes
  <1>b. intact \in BOOLEAN
    BY TypeParts DEF ReplicationTypes
  <1>u. UNCHANGED <<cacheVars, tailVars>>
    BY ThreadFrame
  <1>e. EntryInv'
    BY <1>u DEF ReplicationTypes, EntryInv, tailVars
  <1>t. ASSUME users' \in [Uids -> Accounts \cup {None}], log' \in Seq(Uids),
               Len(log) <= Len(log'), tpc' \in [Threads -> Where], job' \in [Threads -> Jobs],
               missed' \subseteq Uids, intact' \in BOOLEAN, granted' \subseteq Uids \X Addrs
        PROVE  TypeOK'
    <2>1. last' \in 0 .. Len(log') /\ mark' \in 0 .. Len(log')
      BY <1>0, <1>u, <1>t DEF tailVars
    <2> QED BY <1>t, <1>u, <2>1, TypeParts DEF ReplicationTypes, tailVars, cacheVars, TypeOK,
                                           Where, Jobs
  <1> DEFINE Fits(d) ==
               /\ tpc'[d] \in {"insert", "dup", "save", "log"} => job'[d].uid \in Uids
               /\ tpc'[d] \in {"nextid", "insert", "dup"} => job'[d].name \in Names
               /\ tpc'[d] = "save" =>
                    /\ job'[d].op \in FieldCommands
                    /\ job'[d].op = "RENUSER" => job'[d].name \in Names
                    /\ job'[d].op \in {"ADDIP", "DELIP"} => job'[d].addr \in Addrs
  <1>j. ASSUME \A d \in Threads \ {t} : tpc'[d] = tpc[d] /\ job'[d] = job[d], Fits(t)
        PROVE  JobInv'
    BY <1>j DEF ReplicationTypes, JobInv
  <1>f. /\ tpc[t] \in {"insert", "dup", "save", "log"} => job[t].uid \in Uids
        /\ tpc[t] \in {"nextid", "insert", "dup"} => job[t].name \in Names
        /\ tpc[t] = "save" => job[t].op \in FieldCommands
    BY DEF ReplicationTypes, JobInv
  <1>w. {"idle", "nextid", "insert", "dup", "save", "log"} \subseteq Where
    BY DEF Where
  <1>1. ASSUME Begins(t) PROVE ReplicationTypes'
    <2>1. PICK l \in {"nextid", "save"}, j \in Jobs :
            /\ Begin(t, l, j) /\ (l = "nextid" => j.name \in Names)
            /\ l = "save" =>
                 /\ j.uid \in Uids /\ j.op \in FieldCommands
                 /\ j.op = "RENUSER" => j.name \in Names
                 /\ j.op \in {"ADDIP", "DELIP"} => j.addr \in Addrs
      BY <1>1 DEF Begins, Live
    <2>2. /\ tpc' = [tpc EXCEPT ![t] = l] /\ job' = [job EXCEPT ![t] = j]
          /\ UNCHANGED <<users, log, granted, missed, intact>>
      BY <2>1 DEF Begin, To, dbVars, missVars
    <2>3. TypeOK'
      BY <1>0, <1>b, <1>t, <1>w, <2>1, <2>2
    <2>4. JobInv'
      BY <1>0, <1>j, <2>1, <2>2
    <2> QED BY <1>e, <2>3, <2>4 DEF ReplicationTypes
  <1>2. ASSUME NextAutoIncrement(t) PROVE ReplicationTypes'
    <2> DEFINE next == IF Live = {} THEN 0 ELSE Max(Live) + 1
    <2>1. next \in Uids
      <3>1. MaxUid \in Nat /\ Live \subseteq Uids
        BY ReplicationBounds DEF Live
      <3>2. next <= MaxUid
        BY <1>2 DEF NextAutoIncrement
      <3>3. Live # {} => Max(Live) \in Uids
        BY <3>1, HighestUid
      <3> HIDE DEF Live
      <3> QED BY <3>1, <3>2, <3>3 DEF Uids
    <2>2. /\ tpc' = [tpc EXCEPT ![t] = "insert"] /\ tpc[t] = "nextid"
          /\ job' = [job EXCEPT ![t].uid = next]
          /\ UNCHANGED <<users, log, granted, missed, intact>>
      BY <1>2 DEF NextAutoIncrement, To, dbVars, missVars
    <2> HIDE DEF next
    <2>3. job' \in [Threads -> Jobs] /\ job'[t].uid = next /\ job'[t].name = job[t].name
      BY <1>0, <2>1, <2>2 DEF Jobs
    <2>4. TypeOK'
      BY <1>0, <1>b, <1>t, <1>w, <2>2, <2>3
    <2>5. JobInv'
      BY <1>0, <1>f, <1>j, <2>1, <2>2, <2>3
    <2> QED BY <1>e, <2>4, <2>5 DEF ReplicationTypes
  <1>3. ASSUME Insert(t) PROVE ReplicationTypes'
    <2>1. /\ tpc[t] = "insert" /\ UNCHANGED <<job, log, granted, missed, intact>>
          /\ \E l \in {"log", "dup"} : tpc' = [tpc EXCEPT ![t] = l]
      BY <1>3 DEF Insert, To, missVars
    <2>2. users' \in [Uids -> Accounts \cup {None}]
      <3> DEFINE a == [name |-> job[t].name, masks |-> {}, deleted |-> FALSE]
      <3>1. a \in Accounts
        BY <1>f, <2>1 DEF Accounts
      <3>2. users' = users \/ users' = [users EXCEPT ![job[t].uid] = a]
        BY <1>3 DEF Insert
      <3> HIDE DEF a
      <3> QED BY <1>0, <3>1, <3>2
    <2>3. TypeOK'
      BY <1>0, <1>b, <1>t, <1>w, <2>1, <2>2
    <2>4. JobInv'
      BY <1>0, <1>f, <1>j, <2>1
    <2> QED BY <1>e, <2>3, <2>4 DEF ReplicationTypes
  <1>4. ASSUME Duplicate(t) PROVE ReplicationTypes'
    <2>1. /\ tpc[t] = "dup" /\ UNCHANGED <<job, users, log, granted, missed, intact>>
          /\ \E l \in {"nextid", "idle"} : tpc' = [tpc EXCEPT ![t] = l]
      BY <1>4 DEF Duplicate, To, missVars, dbVars
    <2>2. TypeOK'
      BY <1>0, <1>b, <1>t, <1>w, <2>1
    <2>3. JobInv'
      BY <1>0, <1>f, <1>j, <2>1
    <2> QED BY <1>e, <2>2, <2>3 DEF ReplicationTypes
  <1>5. ASSUME CreateFails(t) PROVE ReplicationTypes'
    <2>1. /\ UNCHANGED <<job, users, log, granted, missed, intact>>
          /\ tpc' = [tpc EXCEPT ![t] = "idle"]
      BY <1>5 DEF CreateFails, To, missVars, dbVars
    <2>2. TypeOK'
      BY <1>0, <1>b, <1>t, <1>w, <2>1
    <2>3. JobInv'
      BY <1>0, <1>j, <2>1
    <2> QED BY <1>e, <2>2, <2>3 DEF ReplicationTypes
  <1>6. ASSUME Save(t) PROVE ReplicationTypes'
    <2>1. /\ tpc[t] = "save" /\ UNCHANGED <<job, log, missed, intact>>
          /\ \E l \in {"log", "idle"} : tpc' = [tpc EXCEPT ![t] = l]
      BY <1>6 DEF Save, To, missVars
    <2>2. \/ UNCHANGED <<users, granted>>
          \/ /\ users[job[t].uid] # None /\ granted' = Confirmed(job[t])
             /\ users' = [users EXCEPT ![job[t].uid] = Written(job[t])]
      BY <1>6 DEF Save
    <2>3. users' \in [Uids -> Accounts \cup {None}]
      <3>1. users[job[t].uid] # None => Written(job[t]) \in Accounts \cup {None}
        BY <2>1, WrittenFields DEF ReplicationTypes
      <3> QED BY <1>0, <2>2, <3>1
    <2>4. granted' \subseteq Uids \X Addrs
      <3>1. CASE job[t].op = "ADDIP"
        <4>1. job[t].uid \in Uids /\ job[t].addr \in Addrs
          BY <2>1, <3>1 DEF ReplicationTypes, JobInv
        <4> QED BY <1>0, <2>2, <3>1, <4>1 DEF Confirmed
      <3>2. CASE job[t].op # "ADDIP"
        BY <1>0, <2>2, <3>2 DEF Confirmed
      <3> QED BY <3>1, <3>2
    <2>5. TypeOK'
      BY <1>0, <1>b, <1>t, <1>w, <2>1, <2>3, <2>4
    <2>6. JobInv'
      BY <1>0, <1>f, <1>j, <2>1
    <2> QED BY <1>e, <2>5, <2>6 DEF ReplicationTypes
  <1>7. ASSUME SaveFails(t) PROVE ReplicationTypes'
    <2>1. /\ tpc[t] = "save" /\ UNCHANGED <<job, users, log, granted, missed, intact>>
          /\ \E l \in {"log", "idle"} : tpc' = [tpc EXCEPT ![t] = l]
      BY <1>7 DEF SaveFails, To, missVars, dbVars
    <2>2. TypeOK'
      BY <1>0, <1>b, <1>t, <1>w, <2>1
    <2>3. JobInv'
      BY <1>0, <1>f, <1>j, <2>1
    <2> QED BY <1>e, <2>2, <2>3 DEF ReplicationTypes
  <1>8. ASSUME UpdateLog(t) PROVE ReplicationTypes'
    <2>1. /\ tpc[t] = "log" /\ UNCHANGED <<job, users, granted, missed, intact>>
          /\ log' = Append(log, job[t].uid) /\ tpc' = [tpc EXCEPT ![t] = "idle"]
      BY <1>8 DEF UpdateLog, To, missVars
    <2>2. log' \in Seq(Uids) /\ Len(log) <= Len(log')
      BY <1>0, <1>f, <2>1
    <2>3. TypeOK'
      BY <1>0, <1>b, <1>t, <1>w, <2>1, <2>2
    <2>4. JobInv'
      BY <1>0, <1>j, <2>1
    <2> QED BY <1>e, <2>3, <2>4 DEF ReplicationTypes
  <1>9. ASSUME UpdateLogFails(t) PROVE ReplicationTypes'
    <2>1. /\ tpc[t] = "log" /\ UNCHANGED <<job, users, log, granted>>
          /\ tpc' = [tpc EXCEPT ![t] = "idle"]
      BY <1>9 DEF UpdateLogFails, To, dbVars
    <2>2. missed' \subseteq Uids
      BY <1>0, <1>f, <1>9, <2>1 DEF UpdateLogFails, Miss
    <2>3. intact' \in BOOLEAN
      BY <1>9 DEF UpdateLogFails, Miss
    <2>4. TypeOK'
      BY <1>0, <1>t, <1>w, <2>1, <2>2, <2>3
    <2>5. JobInv'
      BY <1>0, <1>j, <2>1
    <2> QED BY <1>e, <2>4, <2>5 DEF ReplicationTypes
  <1>10. ASSUME InsertThrows(t) PROVE ReplicationTypes'
    <2>1. /\ tpc[t] = "insert" /\ UNCHANGED <<job, log, granted>>
          /\ tpc' = [tpc EXCEPT ![t] = "nextid"]
      BY <1>10 DEF InsertThrows, To
    <2>2. users' \in [Uids -> Accounts \cup {None}]
      <3> DEFINE a == [name |-> job[t].name, masks |-> {}, deleted |-> FALSE]
      <3>1. a \in Accounts
        BY <1>f, <2>1 DEF Accounts
      <3>2. users' = users \/ users' = [users EXCEPT ![job[t].uid] = a]
        BY <1>10 DEF InsertThrows
      <3> HIDE DEF a
      <3> QED BY <1>0, <3>1, <3>2
    <2>3. missed' \subseteq Uids
      BY <1>0, <1>f, <1>10, <2>1 DEF InsertThrows, Miss, missVars
    <2>4. intact' \in BOOLEAN
      <3>1. intact' = intact \/ \E S : intact' = (intact /\ S = {})
        BY <1>10 DEF InsertThrows, Miss, missVars
      <3>2. intact \in BOOLEAN
        BY <1>b
      <3> QED BY <3>1, <3>2, Zenon
    <2>5. TypeOK'
      BY <1>0, <1>t, <1>w, <2>1, <2>2, <2>3, <2>4
    <2>6. JobInv'
      BY <1>0, <1>f, <1>j, <2>1
    <2> QED BY <1>e, <2>5, <2>6 DEF ReplicationTypes
  <1> QED BY <1>1, <1>2, <1>3, <1>4, <1>5, <1>6, <1>7, <1>8, <1>9, <1>10 DEF CommandStep

\* The replicator keeps the types.
LEMMA RunTypes ==
  ASSUME ReplicationTypes, Run
  PROVE  ReplicationTypes'
PROOF
  <1>0. /\ users \in [Uids -> Accounts \cup {None}] /\ log \in Seq(Uids) /\ Len(log) \in Nat
        /\ rows \in [Uids -> Accounts \cup {None}]
        /\ last \in 0 .. Len(log) /\ mark \in 0 .. Len(log) /\ entry \in Uids \cup {None}
        /\ uids \in [Names -> Uids \cup {None}] /\ names \in [Uids -> Names \cup {None}]
        /\ ipMasks \in [Uids -> SUBSET Addrs] /\ missed \subseteq Uids
    BY TypeParts DEF ReplicationTypes
  <1>b. intact \in BOOLEAN
    BY TypeParts DEF ReplicationTypes
  <1>e. /\ rpc \in Loading \cup {"tail"} <=> entry = None
        /\ rpc \in {"uids", "names", "lookup", "masks"} => rows[entry] # None
    BY DEF ReplicationTypes, EntryInv
  <1>n. /\ None \notin Uids /\ None \notin Accounts /\ NoRows \in [Uids -> Accounts \cup {None}]
        /\ LogMax \in Nat \ {0}
    BY ReplicationBounds DEF NoRows
  <1>a. \A b \in Accounts : b.name \in Names /\ b.masks \in SUBSET Addrs
    BY DEF Accounts
  <1> DEFINE Labels == {"start", "install", "init", "tail", "query", "uids", "names", "lookup",
                        "masks", "erase", "unmask"}
             Same == UNCHANGED <<users, log, tpc, job, granted>>
             Tables == /\ uids' \in [Names -> Uids \cup {None}]
                       /\ names' \in [Uids -> Names \cup {None}]
                       /\ ipMasks' \in [Uids -> SUBSET Addrs]
             Misses == missed' \subseteq Uids /\ intact' \in BOOLEAN
  <1>s. Same
    <2>1. Populate \/ PopulateFails \/ Install \/ InitialiseLastOID \/ TailNext \/ TailFails => Same
      BY DEF Populate, PopulateFails, Install, InitialiseLastOID, TailNext, TailFails,
             dbVars, threadVars
    <2>2. ReplicateQuery \/ CacheUid \/ CacheName \/ LookupIPMasks \/ CacheIPMasks => Same
      BY DEF ReplicateQuery, CacheUid, CacheName, LookupIPMasks, CacheIPMasks,
             dbVars, threadVars
    <2>3. CacheErase \/ EraseIPMasks \/ ReplicateFails => Same
      BY DEF CacheErase, EraseIPMasks, ReplicateFails, dbVars, threadVars
    <2> QED BY <2>1, <2>2, <2>3 DEF Run
  <1>t. ASSUME rpc' \in Labels, rows' \in [Uids -> Accounts \cup {None}],
               last' \in 0 .. Len(log), mark' \in 0 .. Len(log), entry' \in Uids \cup {None},
               Tables, Misses,
               rpc' \in Loading \cup {"tail"} <=> entry' = None,
               rpc' \in {"uids", "names", "lookup", "masks"} => rows'[entry'] # None
        PROVE  ReplicationTypes'
    <2>1. TypeOK'
      BY <1>s, <1>t DEF ReplicationTypes, TypeOK
    <2>2. JobInv'
      BY <1>s DEF ReplicationTypes, JobInv
    <2> QED BY <1>t, <2>1, <2>2 DEF ReplicationTypes, EntryInv
  <1>c. UNCHANGED cacheVars => Tables
    BY <1>0 DEF cacheVars
  <1>m. UNCHANGED missVars => Misses
    BY <1>0, <1>b DEF missVars
  <1>M. ASSUME NEW S, S \subseteq Uids, Miss(S) PROVE Misses
    <2>1. missed' \subseteq Uids
      BY <1>0, <1>M DEF Miss
    <2>2. intact' \in BOOLEAN
      BY <1>M DEF Miss
    <2> QED BY <2>1, <2>2
  <1> HIDE DEF Tables, Misses, Same
  <1>1. ASSUME Populate PROVE ReplicationTypes'
    <2>1. Misses
      BY <1>1 DEF Populate, Misses
    <2> QED BY <1>0, <1>c, <1>e, <1>t, <1>1, <2>1 DEF Populate, Loading
  <1>2. ASSUME PopulateFails PROVE ReplicationTypes'
    <2>1. Misses
      BY <1>2 DEF PopulateFails, Misses
    <2> QED BY <1>0, <1>c, <1>e, <1>n, <1>t, <1>2, <2>1 DEF PopulateFails, Loading
  <1>3. ASSUME Install PROVE ReplicationTypes'
    <2> DEFINE found == {u \in Uids : rows[u] # None}
    <2>1. \A u \in found : rows[u].name \in Names /\ rows[u].masks \in SUBSET Addrs
      BY <1>0, <1>a
    <2>2. names' \in [Uids -> Names \cup {None}] /\ ipMasks' \in [Uids -> SUBSET Addrs]
      <3>1. /\ names' = [u \in Uids |-> IF u \in found THEN rows[u].name ELSE None]
            /\ ipMasks' = [u \in Uids |-> IF u \in found THEN rows[u].masks ELSE {}]
        BY <1>3 DEF Install
      <3> HIDE DEF found
      <3> QED BY <2>1, <3>1
    <2>3. uids' \in [Names -> Uids \cup {None}]
      <3>1. uids' = [n \in Names |-> IF \E u \in found : rows[u].name = n
                                     THEN CHOOSE u \in found : rows[u].name = n ELSE None]
        BY <1>3 DEF Install
      <3>2. found \subseteq Uids
        OBVIOUS
      <3> HIDE DEF found
      <3>3. ASSUME NEW n \in Names, \E u \in found : rows[u].name = n
            PROVE  (CHOOSE u \in found : rows[u].name = n) \in Uids
        BY <3>2, <3>3
      <3> QED BY <3>1, <3>3
    <2>4. Tables
      BY <2>2, <2>3 DEF Tables
    <2> QED BY <1>0, <1>e, <1>m, <1>n, <1>t, <1>3, <2>4 DEF Install, Loading
  <1>4. ASSUME InitialiseLastOID PROVE ReplicationTypes'
    <2>1. {log[i] : i \in mark + 1 .. Len(log)} \subseteq Uids
      BY <1>0, LogPart DEF ReplicationTypes
    <2>2. Misses
      BY <1>4, <1>M, <2>1 DEF InitialiseLastOID
    <2> QED BY <1>0, <1>c, <1>e, <1>t, <1>4, <2>2 DEF InitialiseLastOID, Loading
  <1>5. ASSUME TailNext PROVE ReplicationTypes'
    <2>1. Next1 \in 1 .. Len(log) /\ Next1 \in Int
      <3>1. Next1 \in Int /\ Next1 >= last + 1
        BY <1>0, <1>n DEF Next1
      <3> QED BY <1>0, <1>5, <3>1 DEF TailNext
    <2>2. {log[i] : i \in last + 1 .. Next1 - 1} \subseteq Uids
      BY <1>0, <2>1, LogPart DEF ReplicationTypes
    <2>3. Misses
      BY <1>5, <1>M, <2>2 DEF TailNext
    <2>4. log[Next1] \in Uids
      BY <1>0, <2>1
    <2> QED BY <1>0, <1>c, <1>e, <1>n, <1>t, <1>5, <2>1, <2>3, <2>4 DEF TailNext, Loading
  <1>6. ASSUME TailFails PROVE ReplicationTypes'
    BY <1>0, <1>c, <1>e, <1>m, <1>t, <1>6 DEF TailFails, Loading
  <1>7. ASSUME ReplicateQuery PROVE ReplicationTypes'
    <2>1. entry \in Uids
      BY <1>0, <1>e, <1>7 DEF ReplicateQuery, Loading
    <2>2. Misses
      BY <1>0, <1>b, <1>7 DEF ReplicateQuery, Misses
    <2>3. rows' \in [Uids -> Accounts \cup {None}] /\ rows'[entry] = users[entry]
      BY <1>0, <1>n, <1>7, <2>1 DEF ReplicateQuery
    <2>4. /\ rpc' \in {"uids", "erase"} /\ (rpc' = "uids" => users[entry] # None)
          /\ UNCHANGED <<cacheVars, last, mark, entry>>
      BY <1>7 DEF ReplicateQuery
    <2> QED BY <1>0, <1>c, <1>n, <1>t, <2>1, <2>2, <2>3, <2>4 DEF Loading
  <1>8. ASSUME CacheUid PROVE ReplicationTypes'
    <2>1. entry \in Uids /\ rows[entry] # None
      BY <1>0, <1>e, <1>8 DEF CacheUid, Loading
    <2>2. rows[entry].name \in Names
      BY <1>0, <1>a, <2>1
    <2>3. Tables
      BY <1>0, <1>8, <2>1, <2>2 DEF CacheUid, Tables
    <2> QED BY <1>0, <1>e, <1>m, <1>n, <1>t, <1>8, <2>1, <2>3 DEF CacheUid, Loading
  <1>9. ASSUME CacheName PROVE ReplicationTypes'
    <2>1. entry \in Uids /\ rows[entry] # None
      BY <1>0, <1>e, <1>9 DEF CacheName, Loading
    <2>2. rows[entry].name \in Names
      BY <1>0, <1>a, <2>1
    <2>3. Tables
      BY <1>0, <1>9, <2>1, <2>2 DEF CacheName, Tables
    <2> QED BY <1>0, <1>e, <1>m, <1>n, <1>t, <1>9, <2>1, <2>3 DEF CacheName, Loading
  <1>10. ASSUME LookupIPMasks PROVE ReplicationTypes'
    <2> DEFINE m == IF users[entry] # None THEN users[entry].masks ELSE {}
    <2>1. entry \in Uids /\ rows[entry] # None
      BY <1>0, <1>e, <1>10 DEF LookupIPMasks, Loading
    <2>2. m \in SUBSET Addrs
      BY <1>0, <1>a, <2>1
    <2>3. rows' = [rows EXCEPT ![entry].masks = m]
      BY <1>10 DEF LookupIPMasks
    <2> HIDE DEF m
    <2>4. [rows[entry] EXCEPT !.masks = m] \in Accounts
      BY <1>0, <2>1, <2>2 DEF Accounts
    <2>5. rows' \in [Uids -> Accounts \cup {None}] /\ rows'[entry] \in Accounts
      BY <1>0, <2>1, <2>3, <2>4
    <2> QED BY <1>0, <1>c, <1>e, <1>m, <1>n, <1>t, <1>10, <2>1, <2>5 DEF LookupIPMasks, Loading
  <1>11. ASSUME CacheIPMasks PROVE ReplicationTypes'
    <2>1. entry \in Uids /\ rows[entry] # None
      BY <1>0, <1>e, <1>11 DEF CacheIPMasks, Loading
    <2>2. rows[entry].masks \in SUBSET Addrs
      BY <1>0, <1>a, <2>1
    <2>3. Tables
      BY <1>0, <1>11, <2>1, <2>2 DEF CacheIPMasks, Tables
    <2> QED BY <1>0, <1>e, <1>m, <1>n, <1>t, <1>11, <2>1, <2>3 DEF CacheIPMasks, Loading
  <1>12. ASSUME CacheErase PROVE ReplicationTypes'
    <2>1. entry \in Uids
      BY <1>0, <1>e, <1>12 DEF CacheErase, Loading
    <2>2. names[entry] # None => names[entry] \in Names
      BY <1>0, <2>1
    <2>3. uids' \in [Names -> Uids \cup {None}]
      BY <1>0, <1>12, <2>1, <2>2 DEF CacheErase
    <2>4. Tables
      BY <1>0, <1>12, <2>1, <2>3 DEF CacheErase, Tables
    <2> QED BY <1>0, <1>e, <1>m, <1>n, <1>t, <1>12, <2>1, <2>4 DEF CacheErase, Loading
  <1>13. ASSUME EraseIPMasks PROVE ReplicationTypes'
    <2>1. entry \in Uids
      BY <1>0, <1>e, <1>13 DEF EraseIPMasks, Loading
    <2>2. Tables
      BY <1>0, <1>13, <2>1 DEF EraseIPMasks, Tables
    <2> QED BY <1>0, <1>e, <1>m, <1>n, <1>t, <1>13, <2>1, <2>2 DEF EraseIPMasks, Loading
  <1>14. ASSUME ReplicateFails PROVE ReplicationTypes'
    <2>1. entry \in Uids
      BY <1>0, <1>e, <1>14 DEF ReplicateFails, Loading
    <2>2. Misses
      BY <1>14, <1>M, <2>1 DEF ReplicateFails
    <2> QED BY <1>0, <1>c, <1>e, <1>n, <1>t, <1>14, <2>1, <2>2 DEF ReplicateFails, Loading
  <1> QED BY <1>1, <1>2, <1>3, <1>4, <1>5, <1>6, <1>7, <1>8, <1>9, <1>10, <1>11,
             <1>12, <1>13, <1>14 DEF Run

\* Types and what the threads and the replicator have in hand.
LEMMA TypesInvariance == Spec => []ReplicationTypes
PROOF
  <1>1. Init => ReplicationTypes
    <2> SUFFICES ASSUME Init PROVE ReplicationTypes
      OBVIOUS
    <2>0. 0 \in Uids /\ None \notin Uids
      BY ReplicationBounds DEF Uids
    <2>1. users \in [Uids -> Accounts \cup {None}]
      BY DEF Init
    <2>2. job \in [Threads -> Jobs] /\ tpc \in [Threads -> Where]
      BY DEF Init, NoJob, Jobs, Where
    <2>3. log \in Seq(Uids) /\ last \in 0 .. Len(log) /\ mark \in 0 .. Len(log)
      BY DEF Init
    <2>4. intact \in BOOLEAN
      BY DEF Init
    <2>5. TypeOK
      BY <2>1, <2>2, <2>3, <2>4, TypeParts DEF Init, NoRows
    <2>6. JobInv /\ EntryInv
      BY DEF Init, JobInv, EntryInv, Loading
    <2> QED BY <2>5, <2>6 DEF ReplicationTypes
  <1>2. ReplicationTypes /\ UNCHANGED vars => ReplicationTypes'
    BY DEF ReplicationTypes, TypeOK, JobInv, EntryInv, vars, dbVars, threadVars, cacheVars,
           tailVars, missVars
  <1>3. ReplicationTypes /\ [Next]_vars => ReplicationTypes'
    BY <1>2, StepCases, ThreadTypes, RunTypes DEF ReplicationTypes
  <1> QED BY <1>1, <1>3, PTL DEF Spec

-----------------------------------------------------------------------------
(* What a step of a thread is for the replicator *)

\* The other threads stay where they are.
Alone(t) == \A d \in Threads \ {t} : tpc'[d] = tpc[d] /\ job'[d] = job[d]

\* Nothing the replicator sees.
Quiet(t) == tpc[t] # "log" /\ UNCHANGED <<users, log, missed, intact>>

\* A statement on an account, whose name is its own.
Writes(t) ==
  LET w == job[t].uid IN
  /\ tpc[t] # "log" /\ tpc'[t] = "log" /\ job' = job /\ w \in Uids
  /\ \E a \in Accounts \cup {None} :
       /\ users' = [users EXCEPT ![w] = a]
       /\ \/ a = None
          \/ users[w] # None /\ a.name = users[w].name
          \/ \A v \in Live \ {w} : users[v].name # a.name
  /\ UNCHANGED <<log, missed, intact>>

\* An entry of the update log, or none though it was due.
Logs(t) ==
  /\ tpc[t] = "log" /\ tpc'[t] = "idle" /\ job' = job /\ job[t].uid \in Uids
  /\ log' = Append(log, job[t].uid) /\ UNCHANGED <<users, missed, intact>>
Loses(t) ==
  /\ tpc[t] = "log" /\ job[t].uid \in Uids /\ missed' = missed \cup {job[t].uid} /\ ~intact'
  /\ UNCHANGED <<users, log>>

\* An account that is made and that no entry will follow.
Slips(t) ==
  LET w == job[t].uid IN
  /\ tpc[t] # "log" /\ w \in Uids /\ missed' = missed \cup {w} /\ ~intact' /\ UNCHANGED log
  /\ \E a \in Accounts : users' = [users EXCEPT ![w] = a] /\ \A v \in Live : users[v].name # a.name

\* A step of a thread is quiet, writes a document, logs a write or loses one.
LEMMA ThreadEffect ==
  ASSUME ReplicationTypes, NEW t \in Threads, Begins(t) \/ CommandStep(t)
  PROVE  Alone(t) /\ (Quiet(t) \/ Writes(t) \/ Logs(t) \/ Loses(t) \/ Slips(t))
PROOF
  <1>0. /\ tpc \in [Threads -> Where] /\ job \in [Threads -> Jobs]
        /\ users \in [Uids -> Accounts \cup {None}]
    BY TypeParts DEF ReplicationTypes
  <1>f. /\ tpc[t] \in {"insert", "dup", "save", "log"} => job[t].uid \in Uids
        /\ tpc[t] \in {"nextid", "insert", "dup"} => job[t].name \in Names
    BY DEF ReplicationTypes, JobInv
  <1>1. CASE Begins(t)
    BY <1>0, <1>1 DEF Begins, Begin, To, Alone, Quiet, dbVars, missVars
  <1>2. CASE NextAutoIncrement(t)
    BY <1>0, <1>2 DEF NextAutoIncrement, To, Alone, Quiet, dbVars, missVars
  <1>3. CASE Insert(t)
    <2> DEFINE a == [name |-> job[t].name, masks |-> {}, deleted |-> FALSE]
    <2>1. /\ tpc[t] = "insert" /\ job' = job /\ UNCHANGED <<log, missed, intact>>
          /\ \E l : tpc' = [tpc EXCEPT ![t] = l]
      BY <1>3 DEF Insert, To, missVars
    <2>2. Alone(t)
      BY <1>0, <2>1 DEF Alone
    <2>3. CASE ~NameTaken(job[t].name) /\ users' = [users EXCEPT ![job[t].uid] = a] /\ To(t, "log")
      <3>1. a \in Accounts /\ a.name = job[t].name
        BY <1>f, <2>1 DEF Accounts
      <3>2. \A v \in Live : users[v].name # a.name
        BY <2>3, <3>1 DEF NameTaken
      <3>3. tpc'[t] = "log"
        BY <1>0, <2>3 DEF To
      <3> HIDE DEF a
      <3>4. Writes(t)
        BY <1>f, <2>1, <2>3, <3>1, <3>2, <3>3 DEF Writes
      <3> QED BY <2>2, <3>4
    <2>4. CASE UNCHANGED users
      BY <2>1, <2>2, <2>4 DEF Quiet
    <2> QED BY <1>3, <2>3, <2>4 DEF Insert
  <1>4. CASE Duplicate(t)
    BY <1>0, <1>4 DEF Duplicate, To, Alone, Quiet, dbVars, missVars
  <1>5. CASE CreateFails(t)
    BY <1>0, <1>5 DEF CreateFails, To, Alone, Quiet, dbVars, missVars
  <1>6. CASE Save(t)
    <2> DEFINE j == job[t]
               a == Written(j)
    <2>1. /\ tpc[t] = "save" /\ job' = job /\ UNCHANGED <<log, missed, intact>>
          /\ \E l : tpc' = [tpc EXCEPT ![t] = l]
      BY <1>6 DEF Save, To, missVars
    <2>2. Alone(t)
      BY <1>0, <2>1 DEF Alone
    <2>3. CASE users[j.uid] # None /\ ~Refused(j) /\ users' = [users EXCEPT ![j.uid] = a]
               /\ To(t, "log")
      <3>1. /\ j.uid \in Uids /\ (j.op = "PURGE" => a = None) /\ (j.op # "PURGE" => a \in Accounts)
            /\ j.op \notin {"PURGE", "RENUSER"} => a.name = users[j.uid].name
            /\ j.op = "RENUSER" => a.name = j.name
        BY <2>1, <2>3, WrittenFields DEF ReplicationTypes
      <3>2. j.op = "RENUSER" => \A v \in Live \ {j.uid} : users[v].name # j.name
        BY <2>3 DEF Refused
      <3>3. tpc'[t] = "log"
        BY <1>0, <2>3 DEF To
      <3> HIDE DEF a
      <3>5. /\ a \in Accounts \cup {None}
            /\ \/ a = None
               \/ users[j.uid] # None /\ a.name = users[j.uid].name
               \/ \A v \in Live \ {j.uid} : users[v].name # a.name
        <4> HIDE DEF j
        <4> QED BY <2>3, <3>1, <3>2
      <3>6. users' = [users EXCEPT ![j.uid] = a] /\ tpc[t] # "log" /\ j.uid \in Uids
        BY <2>1, <2>3, <3>1
      <3>4. Writes(t)
        BY <2>1, <3>3, <3>5, <3>6, Zenon DEF Writes
      <3> QED BY <2>2, <3>4
    <2>4. CASE UNCHANGED users
      BY <2>1, <2>2, <2>4 DEF Quiet
    <2> QED BY <1>6, <2>3, <2>4 DEF Save
  <1>7. CASE SaveFails(t)
    BY <1>0, <1>7 DEF SaveFails, To, Alone, Quiet, dbVars, missVars
  <1>8. CASE UpdateLog(t)
    BY <1>0, <1>f, <1>8 DEF UpdateLog, To, Alone, Logs, missVars
  <1>9. CASE UpdateLogFails(t)
    <2>1. ~intact' /\ missed' = missed \cup {job[t].uid}
      BY <1>9 DEF UpdateLogFails, Miss
    <2> QED BY <1>0, <1>f, <1>9, <2>1 DEF UpdateLogFails, To, Alone, Loses, dbVars
  <1>10. CASE InsertThrows(t)
    <2> DEFINE a == [name |-> job[t].name, masks |-> {}, deleted |-> FALSE]
    <2>1. /\ tpc[t] = "insert" /\ job' = job /\ log' = log
          /\ tpc' = [tpc EXCEPT ![t] = "nextid"]
      BY <1>10 DEF InsertThrows, To
    <2>2. Alone(t)
      BY <1>0, <2>1 DEF Alone
    <2>3. CASE UNCHANGED <<users, missVars>>
      BY <2>1, <2>2, <2>3 DEF Quiet, missVars
    <2>4. CASE ~NameTaken(job[t].name) /\ users' = [users EXCEPT ![job[t].uid] = a] /\ Miss({job[t].uid})
      <3>1. a \in Accounts /\ a.name = job[t].name
        BY <1>f, <2>1 DEF Accounts
      <3>2. \A v \in Live : users[v].name # a.name
        BY <2>4, <3>1 DEF NameTaken
      <3>3. ~intact' /\ missed' = missed \cup {job[t].uid}
        BY <2>4 DEF Miss
      <3> HIDE DEF a
      <3>4. Slips(t)
        BY <1>f, <2>1, <2>4, <3>1, <3>2, <3>3 DEF Slips
      <3> QED BY <2>2, <3>4
    <2> QED BY <1>10, <2>3, <2>4 DEF InsertThrows
  <1> QED BY <1>1, <1>2, <1>3, <1>4, <1>5, <1>6, <1>7, <1>8, <1>9, <1>10 DEF CommandStep

-----------------------------------------------------------------------------
(* The caches follow the database *)

\* A change on its way stays on its way while the thread that logs it is not
\* the one that moves.
LEMMA DueKept ==
  ASSUME ReplicationTypes, NEW t \in Threads, Alone(t), Quiet(t) \/ Writes(t) \/ Logs(t),
         UNCHANGED tailVars, NEW u \in Uids, Due(u)
  PROVE  Due(u)'
PROOF
  <1>0. log \in Seq(Uids) /\ Len(log) \in Nat /\ Unread \in Nat /\ Unread <= Len(log)
    BY DEF ReplicationTypes, TypeOK, Unread
  <1>1. Unread' = Unread
    BY DEF tailVars, Unread
  <1>2. CASE Logs(t)
    <2>1. /\ log' = Append(log, job[t].uid) /\ Len(log') = Len(log) + 1
          /\ log'[Len(log) + 1] = job[t].uid /\ \A i \in 1 .. Len(log) : log'[i] = log[i]
          /\ job' = job
      BY <1>0, <1>2 DEF Logs
    <2>2. Queued(u) => Queued(u)'
      BY <1>0, <1>1, <2>1 DEF Queued
    <2>3. ASSUME NEW d \in Threads, tpc[d] = "log", job[d].uid = u PROVE Due(u)'
      <3>1. CASE d = t
        <4>1. Len(log) + 1 \in Unread' + 1 .. Len(log') /\ log'[Len(log) + 1] = u
          BY <1>0, <1>1, <2>1, <2>3, <3>1
        <4> QED BY <4>1 DEF Due, Queued
      <3>2. CASE d # t
        BY <2>3, <3>2 DEF Alone, Due, Unlogged
      <3> QED BY <3>1, <3>2
    <2> QED BY <2>2, <2>3 DEF Due, Unlogged
  <1>3. CASE Quiet(t) \/ Writes(t)
    <2>1. log' = log /\ tpc[t] # "log"
      BY <1>3 DEF Quiet, Writes
    <2>2. Queued(u) => Queued(u)'
      BY <1>1, <2>1 DEF Queued
    <2>3. Unlogged(u) => Unlogged(u)'
      BY <2>1 DEF Unlogged, Alone
    <2> QED BY <2>2, <2>3 DEF Due
  <1> QED BY <1>2, <1>3

\* The threads keep the invariant: a statement makes its uid due.
LEMMA ThreadCache ==
  ASSUME ReplicationTypes, CacheInv, NEW t \in Threads, Begins(t) \/ CommandStep(t)
  PROVE  CacheInv'
PROOF
  <1>1. Alone(t) /\ (Quiet(t) \/ Writes(t) \/ Logs(t) \/ Loses(t) \/ Slips(t))
    BY ThreadEffect
  <1>2. UNCHANGED <<uids, names, ipMasks, rpc, last, entry, rows, mark>>
    BY ThreadFrame DEF cacheVars, tailVars
  <1>3. ASSUME NEW u \in Uids, users'[u] = users[u], Followed(u) PROVE Followed(u)'
    BY <1>2, <1>3 DEF Followed, NameCurrent, MasksCurrent
  <1> SUFFICES ASSUME NEW u \in Uids PROVE Followed(u)' \/ Due(u)' \/ u \in missed'
    BY DEF CacheInv
  <1>4. Followed(u) \/ Due(u) \/ u \in missed
    BY DEF CacheInv
  <1>5. CASE Loses(t)
    <2>1. CASE u = job[t].uid
      BY <1>5, <2>1 DEF Loses
    <2>2. CASE u # job[t].uid
      <3>1. Queued(u) => Queued(u)'
        BY <1>2, <1>5 DEF Loses, Queued, Unread
      <3>2. Unlogged(u) => Unlogged(u)'
        BY <1>1, <2>2 DEF Unlogged, Alone
      <3>3. users' = users /\ missed \subseteq missed'
        BY <1>5 DEF Loses
      <3> QED BY <1>3, <1>4, <3>1, <3>2, <3>3 DEF Due
    <2> QED BY <2>1, <2>2
  <1>6. CASE Quiet(t) \/ Writes(t) \/ Logs(t)
    <2>1. Due(u) => Due(u)'
      BY <1>1, <1>2, <1>6, DueKept DEF tailVars
    <2>2. missed' = missed
      BY <1>6 DEF Quiet, Writes, Logs
    <2>3. CASE users'[u] = users[u]
      BY <1>3, <1>4, <2>1, <2>2, <2>3
    <2>4. CASE users'[u] # users[u]
      <3>1. Writes(t)
        BY <1>6, <2>4 DEF Quiet, Logs
      <3>2. u = job[t].uid /\ tpc'[t] = "log" /\ job' = job
        BY <2>4, <3>1 DEF Writes, ReplicationTypes, TypeOK
      <3> QED BY <3>2 DEF Due, Unlogged
    <2> QED BY <2>3, <2>4
  <1>7. CASE Slips(t)
    <2>1. CASE u = job[t].uid
      BY <1>7, <2>1 DEF Slips
    <2>2. CASE u # job[t].uid
      <3>1. log' = log /\ tpc[t] # "log" /\ missed \subseteq missed'
        BY <1>7 DEF Slips
      <3>2. Queued(u) => Queued(u)'
        BY <1>2, <3>1 DEF Queued, Unread
      <3>3. Unlogged(u) => Unlogged(u)'
        BY <1>1, <3>1 DEF Unlogged, Alone
      <3>4. users'[u] = users[u]
        BY <1>7, <2>2 DEF Slips, ReplicationTypes, TypeOK
      <3> QED BY <1>3, <1>4, <3>1, <3>2, <3>3, <3>4 DEF Due
    <2> QED BY <2>1, <2>2
  <1> QED BY <1>1, <1>5, <1>6, <1>7

\* The replicator keeps it: what it leaves behind is due, missed or current.
LEMMA RunCache ==
  ASSUME ReplicationTypes, CacheInv, Run
  PROVE  CacheInv'
PROOF
  <1>0. /\ users \in [Uids -> Accounts \cup {None}] /\ log \in Seq(Uids) /\ Len(log) \in Nat
        /\ rows \in [Uids -> Accounts \cup {None}]
        /\ last \in 0 .. Len(log) /\ mark \in 0 .. Len(log) /\ entry \in Uids \cup {None}
        /\ names \in [Uids -> Names \cup {None}] /\ ipMasks \in [Uids -> SUBSET Addrs]
    BY TypeParts DEF ReplicationTypes
  <1>e. /\ rpc \in Loading \cup {"tail"} <=> entry = None
        /\ rpc \in {"uids", "names", "lookup", "masks"} => rows[entry] # None
    BY DEF ReplicationTypes, EntryInv
  <1>n. None \notin Uids /\ LogMax \in Nat \ {0}
    BY ReplicationBounds
  <1> SUFFICES ASSUME NEW u \in Uids PROVE Followed(u)' \/ Due(u)' \/ u \in missed'
    BY DEF CacheInv
  <1>i. Followed(u) \/ Due(u) \/ u \in missed
    BY DEF CacheInv
  <1>d. ASSUME UNCHANGED <<log, tpc, job>>, Unread' = Unread PROVE Due(u)' <=> Due(u)
    BY <1>d DEF Due, Unlogged, Queued
  <1>r. ASSUME rpc \notin {"install", "init"}, rpc' \notin {"install", "init"}, last' = last
        PROVE  Unread' = Unread
    BY <1>r DEF Unread
  <1>1. CASE Populate
    BY <1>e, <1>n, <1>1 DEF Populate, Followed, Loading, dbVars
  <1>2. CASE PopulateFails
    BY <1>2 DEF PopulateFails
  <1>3. CASE Install
    <2>1. /\ UNCHANGED <<users, log, tpc, job, mark, entry, missed>> /\ rpc = "install"
          /\ rpc' = "init" /\ entry = None
      BY <1>e, <1>3 DEF Install, Loading, dbVars, threadVars, missVars
    <2>2. Due(u)' <=> Due(u)
      BY <1>d, <2>1 DEF Unread
    <2>3. rows[u] = users[u] => NameCurrent(u)' /\ MasksCurrent(u)'
      BY <1>3, <2>1 DEF Install, NameCurrent, MasksCurrent
    <2> QED BY <1>i, <1>n, <2>1, <2>2, <2>3 DEF Followed
  <1>4. CASE InitialiseLastOID
    <2>1. /\ UNCHANGED <<users, log, tpc, job, entry, names, ipMasks>> /\ rpc = "init"
          /\ rpc' = "tail" /\ entry = None
          /\ missed' = missed \cup {log[i] : i \in mark + 1 .. Len(log)}
      BY <1>e, <1>4 DEF InitialiseLastOID, Loading, Miss, dbVars, threadVars, cacheVars
    <2>2. Followed(u) => Followed(u)'
      BY <1>n, <2>1 DEF Followed, NameCurrent, MasksCurrent
    <2>3. Queued(u) => u \in missed'
      BY <2>1 DEF Queued, Unread
    <2>4. Unlogged(u) => Unlogged(u)'
      BY <2>1 DEF Unlogged
    <2> QED BY <1>i, <2>1, <2>2, <2>3, <2>4 DEF Due
  <1>5. CASE TailNext
    <2>1. /\ UNCHANGED <<users, log, tpc, job, names, ipMasks>> /\ rpc = "tail"
          /\ rpc' = "query" /\ entry = None /\ entry' = log[Next1] /\ last' = Next1
          /\ missed' = missed \cup {log[i] : i \in last + 1 .. Next1 - 1}
      BY <1>e, <1>5 DEF TailNext, Loading, Miss, dbVars, threadVars, cacheVars
    <2>2. Followed(u) => Followed(u)'
      BY <1>n, <2>1 DEF Followed, NameCurrent, MasksCurrent
    <2>3. Next1 \in Int
      BY <1>0, <1>n DEF Next1
    <2>4. ASSUME NEW i \in last + 1 .. Len(log), log[i] = u
          PROVE  Followed(u)' \/ Due(u)' \/ u \in missed'
      <3>1. CASE i < Next1
        BY <1>0, <2>1, <2>3, <2>4, <3>1
      <3>2. CASE i = Next1
        BY <2>1, <2>4, <3>2 DEF Followed
      <3>3. CASE i > Next1
        <4>1. i \in Unread' + 1 .. Len(log') /\ log'[i] = u
          BY <1>0, <2>1, <2>3, <2>4, <3>3 DEF Unread
        <4> QED BY <4>1 DEF Due, Queued
      <3> QED BY <1>0, <2>3, <3>1, <3>2, <3>3
    <2>5. Unlogged(u) => Unlogged(u)'
      BY <2>1 DEF Unlogged
    <2> QED BY <1>i, <2>1, <2>2, <2>4, <2>5 DEF Due, Queued, Unread
  <1>6. CASE TailFails
    BY <1>e, <1>n, <1>6 DEF TailFails, Followed, Loading
  <1>7. CASE ReplicateQuery
    <2>1. /\ UNCHANGED <<users, log, tpc, job, names, ipMasks, last, entry>> /\ rpc = "query"
          /\ rpc' = (IF users[entry] # None THEN "uids" ELSE "erase")
          /\ rows' = [NoRows EXCEPT ![entry] = users[entry]] /\ missed' = missed \ {entry}
      BY <1>7 DEF ReplicateQuery, dbVars, threadVars, cacheVars
    <2>2. Due(u)' <=> Due(u)
      BY <1>d, <1>r, <2>1
    <2>3. CASE u = entry
      <3>1. rows'[u] = users'[u]
        BY <2>1, <2>3 DEF NoRows
      <3> QED BY <2>1, <2>3, <3>1 DEF Followed
    <2>4. CASE u # entry
      BY <1>i, <2>1, <2>2, <2>4 DEF Followed, NameCurrent, MasksCurrent
    <2> QED BY <2>3, <2>4
  <1>8. CASE CacheUid
    <2>1. /\ UNCHANGED <<users, log, tpc, job, names, ipMasks, last, entry, rows, missed>>
          /\ rpc = "uids" /\ rpc' = "names"
      BY <1>8 DEF CacheUid, dbVars, threadVars, missVars
    <2>2. Due(u)' <=> Due(u)
      BY <1>d, <1>r, <2>1
    <2> QED BY <1>i, <2>1, <2>2 DEF Followed, NameCurrent, MasksCurrent
  <1>9. CASE CacheName
    <2>1. /\ UNCHANGED <<users, log, tpc, job, ipMasks, last, entry, rows, missed>>
          /\ rpc = "names" /\ rpc' = "lookup"
          /\ names' = [names EXCEPT ![entry] = rows[entry].name]
      BY <1>9 DEF CacheName, dbVars, threadVars, missVars
    <2>2. Due(u)' <=> Due(u)
      BY <1>d, <1>r, <2>1
    <2>3. names'[u] = IF u = entry THEN rows[u].name ELSE names[u]
      BY <1>0, <2>1
    <2> QED BY <1>i, <2>1, <2>2, <2>3 DEF Followed, NameCurrent, MasksCurrent
  <1>10. CASE LookupIPMasks
    <2> DEFINE m == IF users[entry] # None THEN users[entry].masks ELSE {}
    <2>1. /\ UNCHANGED <<users, log, tpc, job, names, ipMasks, last, entry, missed>>
          /\ rpc = "lookup" /\ rpc' = "masks" /\ rows' = [rows EXCEPT ![entry].masks = m]
      BY <1>10 DEF LookupIPMasks, dbVars, threadVars, missVars, cacheVars
    <2>2. Due(u)' <=> Due(u)
      BY <1>d, <1>r, <2>1
    <2>3. CASE u = entry
      <3>1. rows[u] \in Accounts
        BY <1>0, <1>e, <2>1, <2>3
      <3> HIDE DEF m
      <3>2. rows'[u].masks = m
        BY <1>0, <2>1, <2>3, <3>1 DEF Accounts
      <3> QED BY <1>i, <2>1, <2>2, <2>3, <3>2 DEF Followed, NameCurrent, MasksCurrent, m
    <2>4. CASE u # entry
      BY <1>i, <2>1, <2>2, <2>4 DEF Followed, NameCurrent, MasksCurrent
    <2> QED BY <2>3, <2>4
  <1>11. CASE CacheIPMasks
    <2>1. /\ UNCHANGED <<users, log, tpc, job, names, last, missed>>
          /\ rpc = "masks" /\ rpc' = "tail" /\ entry' = None
          /\ ipMasks' = [ipMasks EXCEPT ![entry] = rows[entry].masks]
      BY <1>11 DEF CacheIPMasks, dbVars, threadVars, missVars
    <2>2. Due(u)' <=> Due(u)
      BY <1>d, <1>r, <2>1
    <2>3. ipMasks'[u] = IF u = entry THEN rows[u].masks ELSE ipMasks[u]
      BY <1>0, <2>1
    <2> QED BY <1>i, <1>n, <2>1, <2>2, <2>3 DEF Followed, NameCurrent, MasksCurrent
  <1>12. CASE CacheErase
    <2>1. /\ UNCHANGED <<users, log, tpc, job, ipMasks, last, entry, rows, missed>>
          /\ rpc = "erase" /\ rpc' = "unmask" /\ names' = [names EXCEPT ![entry] = None]
      BY <1>12 DEF CacheErase, dbVars, threadVars, missVars
    <2>2. Due(u)' <=> Due(u)
      BY <1>d, <1>r, <2>1
    <2>3. names'[u] = IF u = entry THEN None ELSE names[u]
      BY <1>0, <2>1
    <2> QED BY <1>i, <2>1, <2>2, <2>3 DEF Followed, NameCurrent, MasksCurrent
  <1>13. CASE EraseIPMasks
    <2>1. /\ UNCHANGED <<users, log, tpc, job, names, last, missed>>
          /\ rpc = "unmask" /\ rpc' = "tail" /\ entry' = None
          /\ ipMasks' = [ipMasks EXCEPT ![entry] = {}]
      BY <1>13 DEF EraseIPMasks, dbVars, threadVars, missVars
    <2>2. Due(u)' <=> Due(u)
      BY <1>d, <1>r, <2>1
    <2>3. ipMasks'[u] = IF u = entry THEN {} ELSE ipMasks[u]
      BY <1>0, <2>1
    <2> QED BY <1>i, <1>n, <2>1, <2>2, <2>3 DEF Followed, NameCurrent, MasksCurrent
  <1>14. CASE ReplicateFails
    <2>1. /\ UNCHANGED <<users, log, tpc, job, names, ipMasks, last>>
          /\ rpc \in {"query", "lookup"} /\ rpc' = "tail" /\ entry' = None
          /\ missed' = missed \cup {entry}
      BY <1>14 DEF ReplicateFails, Miss, dbVars, threadVars, cacheVars
    <2>2. Due(u)' <=> Due(u)
      BY <1>d, <1>r, <2>1
    <2> QED BY <1>i, <1>n, <2>1, <2>2 DEF Followed, NameCurrent, MasksCurrent
  <1> QED BY <1>1, <1>2, <1>3, <1>4, <1>5, <1>6, <1>7, <1>8, <1>9, <1>10, <1>11,
             <1>12, <1>13, <1>14 DEF Run

\* Names are unique, and intact says that nothing was missed.
LEMMA UniqueStep ==
  ASSUME ReplicationTypes, UniqueNames, [Next]_vars
  PROVE  UniqueNames'
PROOF
  <1>1. UNCHANGED users => UniqueNames'
    BY DEF UniqueNames, Live
  <1>2. Run \/ UNCHANGED vars => UNCHANGED users
    BY DEF Run, Populate, PopulateFails, Install, InitialiseLastOID, TailNext, TailFails,
           ReplicateQuery, CacheUid, CacheName, LookupIPMasks, CacheIPMasks, CacheErase,
           EraseIPMasks, ReplicateFails, dbVars, vars
  <1>3. ASSUME NEW t \in Threads, Begins(t) \/ CommandStep(t) PROVE UniqueNames'
    <2>1. UNCHANGED users \/ Writes(t) \/ Slips(t)
      BY <1>3, ThreadEffect DEF Quiet, Logs, Loses
    <2>2. ASSUME Writes(t) \/ Slips(t) PROVE UniqueNames'
      <3> DEFINE w == job[t].uid
      <3>1. PICK a \in Accounts \cup {None} :
              /\ users' = [users EXCEPT ![w] = a]
              /\ \/ a = None
                 \/ users[w] # None /\ a.name = users[w].name
                 \/ \A v \in Live \ {w} : users[v].name # a.name
        BY <2>2 DEF Writes, Slips
      <3>2. w \in Uids /\ users \in [Uids -> Accounts \cup {None}]
        BY <2>2 DEF Writes, Slips, ReplicationTypes, TypeOK
      <3> HIDE DEF w
      <3>3. users'[w] = a /\ \A v \in Uids \ {w} : users'[v] = users[v]
        BY <3>1, <3>2
      <3>4. a # None => \A v \in Live \ {w} : users[v].name # a.name
        BY <3>1, <3>2 DEF UniqueNames, Live
      <3> QED BY <3>2, <3>3, <3>4 DEF UniqueNames, Live
    <2> QED BY <1>1, <2>1, <2>2
  <1> QED BY <1>1, <1>2, <1>3, StepCases DEF ReplicationTypes

\* The invariant of the caches holds in every reachable state.
LEMMA CacheInvariance == Spec => [](CacheInv /\ UniqueNames)
PROOF
  <1>1. Init => CacheInv /\ UniqueNames
    <2> SUFFICES ASSUME Init PROVE CacheInv /\ UniqueNames
      OBVIOUS
    <2>0. None \notin Uids
      BY ReplicationBounds
    <2>1. CacheInv
      BY <2>0 DEF Init, CacheInv, Followed
    <2>2. UniqueNames
      BY DEF Init, UniqueNames, Live
    <2> QED BY <2>1, <2>2
  <1>2. ReplicationTypes /\ CacheInv /\ UNCHANGED vars => CacheInv'
    BY DEF CacheInv, Followed, NameCurrent, MasksCurrent, Due, Unlogged, Queued, Unread, vars,
           dbVars, threadVars, cacheVars, tailVars, missVars
  <1>3. ReplicationTypes /\ CacheInv /\ UniqueNames /\ [Next]_vars => (CacheInv /\ UniqueNames)'
    BY <1>2, StepCases, ThreadCache, RunCache, UniqueStep DEF ReplicationTypes
  <1> QED BY <1>1, <1>3, TypesInvariance, PTL DEF Spec

\* For any number of operators, any size of the capped log and any statements that
\* fail: names and ipMasks of UserCache are current for every uid none of whose
\* changes was missed or is still on its way.
THEOREM StaleOnlyIfChangeMissed == Spec => []StaleOnlyIfMissed
PROOF
  <1>1. ReplicationTypes /\ CacheInv => StaleOnlyIfMissed
    <2> SUFFICES ASSUME ReplicationTypes, CacheInv, NEW u \in Uids, Settled(u), u \notin missed
                 PROVE  Current(u)
      BY DEF StaleOnlyIfMissed
    <2>1. ~Due(u) /\ rpc \notin Loading /\ entry # u
      BY DEF Settled, Due, Unlogged, Queued, Unread, Loading
    <2>2. NameCurrent(u) /\ MasksCurrent(u)
      BY <2>1 DEF CacheInv, Followed, Loading
    <2> QED BY <2>2 DEF NameCurrent, MasksCurrent, Current, UIDToName, IdentIPAllowed
  <1> QED BY <1>1, TypesInvariance, CacheInvariance, PTL

-----------------------------------------------------------------------------
(* One operator: every account is found by its name *)

\* While nothing was missed, missed is empty.
LEMMA IntactStep ==
  ASSUME IntactInv, [Next]_vars
  PROVE  IntactInv'
PROOF
  <1>1. ASSUME NEW S, Miss(S) PROVE IntactInv'
    <2>1. ASSUME intact' PROVE intact /\ S = {}
      BY <1>1, <2>1 DEF Miss
    <2>2. missed' = missed \cup S
      BY <1>1 DEF Miss
    <2> QED BY <2>1, <2>2 DEF IntactInv
  <1>2. UNCHANGED missVars => IntactInv'
    BY DEF missVars, IntactInv
  <1>3. ASSUME NEW t \in Threads, Command(t) \/ CommandStep(t) PROVE IntactInv'
    <2>1. CASE Command(t)
      BY <1>2, <2>1 DEF Command, AddUser, RenUser, AddIP, DelIP, DelUser, Purge, Load, Begin
    <2>2. CASE UpdateLogFails(t)
      BY <1>1, <2>2 DEF UpdateLogFails
    <2>3. CASE NextAutoIncrement(t) \/ Insert(t) \/ Duplicate(t) \/ CreateFails(t)
      BY <1>2, <2>3 DEF NextAutoIncrement, Insert, Duplicate, CreateFails
    <2>4. CASE Save(t) \/ SaveFails(t) \/ UpdateLog(t)
      BY <1>2, <2>4 DEF Save, SaveFails, UpdateLog
    <2>5. CASE InsertThrows(t)
      BY <1>1, <1>2, <2>5 DEF InsertThrows
    <2> QED BY <1>3, <2>1, <2>2, <2>3, <2>4, <2>5 DEF CommandStep
  <1>4. ASSUME Run PROVE IntactInv'
    <2>1. CASE Populate \/ PopulateFails
      BY <2>1 DEF Populate, PopulateFails, IntactInv
    <2>2. CASE InitialiseLastOID \/ TailNext \/ ReplicateFails
      BY <1>1, <2>2 DEF InitialiseLastOID, TailNext, ReplicateFails
    <2>3. CASE ReplicateQuery
      <3>1. missed' = missed \ {entry} /\ intact' = intact
        BY <2>3 DEF ReplicateQuery
      <3> QED BY <3>1 DEF IntactInv
    <2>4. CASE Install \/ TailFails \/ CacheUid \/ CacheName \/ LookupIPMasks
      BY <1>2, <2>4 DEF Install, TailFails, CacheUid, CacheName, LookupIPMasks
    <2>5. CASE CacheIPMasks \/ CacheErase \/ EraseIPMasks
      BY <1>2, <2>5 DEF CacheIPMasks, CacheErase, EraseIPMasks
    <2> QED BY <1>4, <2>1, <2>2, <2>3, <2>4, <2>5 DEF Run
  <1> QED BY <1>2, <1>3, <1>4 DEF Next, vars

\* Who is refreshed after another is due.
LEMMA FirstThenDue ==
  ASSUME ReplicationTypes, NEW u \in Uids, NEW v \in Uids, RefreshedFirst(v, u)
  PROVE  Due(u)
PROOF
  <1>0. Unread \in Nat /\ Len(log) \in Nat
    BY DEF ReplicationTypes, TypeOK, Unread
  <1>1. ASSUME NEW i \in Unread + 1 .. Len(log), NEW j \in i + 1 .. Len(log), log[j] = u
        PROVE  Queued(u)
    <2>1. j \in Unread + 1 .. Len(log)
      BY <1>0, <1>1
    <2> QED BY <1>1, <2>1 DEF Queued
  <1> QED BY <1>1 DEF RefreshedFirst, Due

\* The steps of the operator.
LEMMA ThreadFound ==
  ASSUME SingleOperator, ReplicationTypes, CacheInv, IntactInv, FoundInv,
         NEW t \in Threads, Begins(t) \/ CommandStep(t)
  PROVE  FoundInv'
PROOF
  <1>1. Alone(t) /\ (Quiet(t) \/ Writes(t) \/ Logs(t) \/ Loses(t) \/ Slips(t))
    BY ThreadEffect
  <1>2. UNCHANGED <<uids, names, rpc, last, entry, rows, mark>>
    BY ThreadFrame DEF cacheVars, tailVars
  <1>0. /\ log \in Seq(Uids) /\ Len(log) \in Nat /\ Unread \in Nat /\ Unread <= Len(log)
        /\ users \in [Uids -> Accounts \cup {None}]
    BY DEF ReplicationTypes, TypeOK, Unread
  <1>n. /\ None \notin Uids /\ None \notin Names
        /\ \A a \in Accounts : a.name \in Names
    BY ReplicationBounds DEF Accounts
  <1>e. /\ rpc \in Loading \cup {"tail"} <=> entry = None
        /\ rpc \in {"start", "install", "init", "tail", "query", "uids", "names", "lookup",
                    "masks", "erase", "unmask"}
    BY DEF ReplicationTypes, EntryInv, TypeOK
  <1>3. CASE Loses(t) \/ Slips(t)
    <2>1. ~intact'
      BY <1>3 DEF Loses, Slips
    <2> QED BY <2>1, Zenon DEF FoundInv
  <1>4. CASE Quiet(t) \/ Writes(t) \/ Logs(t)
    <2>1. UNCHANGED <<missed, intact>>
      BY <1>4 DEF Quiet, Writes, Logs
    <2> SUFFICES ASSUME intact, rpc # "start" PROVE
                   \A u \in Live' :
                     /\ Found(u)'
                     /\ \A v \in Uids \ {u} : Carries(v, users[u].name)' => RefreshedFirst(v, u)'
      BY <1>2, <2>1 DEF FoundInv
    <2>d. \A u \in Uids : Due(u) => Due(u)'
      BY <1>1, <1>2, <1>4, DueKept DEF tailVars
    <2>r. Unread' = Unread
      BY <1>2 DEF Unread
    <2>c. ASSUME NEW u \in Uids, NEW v \in Uids, NEW n, users'[u].name = n,
                 Carries(v, users[u].name)'
          PROVE  Carries(v, n)
      BY <1>2, <2>c DEF Carries
    \* What is refreshed first stays so.
    <2>f. ASSUME NEW u \in Uids, NEW v \in Uids, users'[u].name = users[u].name,
                 RefreshedFirst(v, u)
          PROVE  RefreshedFirst(v, u)'
      <3>1. CASE Quiet(t) \/ Writes(t)
        <4>1. log' = log /\ tpc[t] # "log"
          BY <3>1 DEF Quiet, Writes
        <4>2. Unlogged(u) => Unlogged(u)'
          BY <1>1, <4>1 DEF Unlogged, Alone
        <4> QED BY <1>2, <2>d, <2>f, <2>r, <4>1, <4>2 DEF RefreshedFirst
      <3>2. CASE Logs(t)
        <4>1. /\ log' = Append(log, job[t].uid) /\ Len(log') = Len(log) + 1
              /\ log'[Len(log) + 1] = job[t].uid /\ \A i \in 1 .. Len(log) : log'[i] = log[i]
              /\ job' = job
          BY <1>0, <3>2 DEF Logs
        <4>2. ASSUME NEW i \in Unread + 1 .. Len(log), log[i] = v,
                     Unlogged(u) \/ \E j \in i + 1 .. Len(log) : log[j] = u
              PROVE  RefreshedFirst(v, u)'
          <5>1. i \in Unread' + 1 .. Len(log') /\ log'[i] = v
            BY <1>0, <2>r, <4>1, <4>2
          <5>2. Unlogged(u)' \/ \E j \in i + 1 .. Len(log') : log'[j] = u
            <6>1. ASSUME NEW j \in i + 1 .. Len(log), log[j] = u
                  PROVE  \E k \in i + 1 .. Len(log') : log'[k] = u
              <7>1. j \in i + 1 .. Len(log') /\ log'[j] = u
                BY <1>0, <4>1, <6>1
              <7> QED BY <7>1
            <6>2. ASSUME NEW d \in Threads, tpc[d] = "log", job[d].uid = u
                  PROVE  Unlogged(u)' \/ \E k \in i + 1 .. Len(log') : log'[k] = u
              <7>1. CASE d = t
                <8>1. Len(log) + 1 \in i + 1 .. Len(log') /\ log'[Len(log) + 1] = u
                  BY <1>0, <4>1, <6>2, <7>1
                <8> QED BY <8>1
              <7>2. CASE d # t
                BY <1>1, <6>2, <7>2 DEF Alone, Unlogged
              <7> QED BY <7>1, <7>2
            <6> QED BY <4>2, <6>1, <6>2 DEF Unlogged
          <5> QED BY <5>1, <5>2 DEF RefreshedFirst
        <4>3. CASE /\ entry = v /\ Due(u)
                   /\ \/ rpc \in {"query", "erase"}
                      \/ rpc \in {"uids", "names"} /\ rows[v].name # users[u].name
          BY <1>2, <2>d, <2>f, <4>3 DEF RefreshedFirst
        <4> QED BY <2>f, <4>2, <4>3 DEF RefreshedFirst
      <3> QED BY <1>4, <3>1, <3>2
    \* An account that is not written.
    <2>k. ASSUME NEW u \in Live, users'[u] = users[u]
          PROVE  /\ Found(u)'
                 /\ \A v \in Uids \ {u} : Carries(v, users[u].name)' => RefreshedFirst(v, u)'
      <3>0. u \in Uids
        BY DEF Live
      <3>1. Found(u) /\ \A v \in Uids \ {u} : Carries(v, users[u].name) => RefreshedFirst(v, u)
        BY DEF FoundInv
      <3>2. Found(u)'
        BY <1>2, <2>d, <2>k, <3>0, <3>1 DEF Found
      <3> QED BY <2>c, <2>f, <2>k, <3>0, <3>1, <3>2
    <2>2. CASE UNCHANGED users
      BY <2>k, <2>2 DEF Live
    <2>3. CASE Writes(t)
      <3>0. PICK w \in Uids : w = job[t].uid
        BY <2>3 DEF Writes
      <3>1. PICK a \in Accounts \cup {None} :
              /\ users' = [users EXCEPT ![w] = a]
              /\ \/ a = None
                 \/ users[w] # None /\ a.name = users[w].name
                 \/ \A v \in Live \ {w} : users[v].name # a.name
        BY <2>3, <3>0 DEF Writes
      <3>2. w \in Uids /\ log' = log /\ tpc[t] # "log"
        BY <2>3 DEF Writes
      <3>w. Unlogged(w)'
        BY <2>3, <3>0 DEF Writes, Unlogged
      <3>3. users'[w] = a /\ \A v \in Uids \ {w} : users'[v] = users[v]
        BY <1>0, <3>1, <3>2
      <3>4. \A u \in Live' \ {w} : u \in Live /\ users'[u] = users[u]
        BY <3>3 DEF Live
      <3>5. ASSUME w \in Live', NEW v \in Uids \ {w}, Carries(v, a.name)
            PROVE  RefreshedFirst(v, w)'
        <4>0. a \in Accounts /\ a.name \in Names /\ a.name # None
          BY <1>n, <3>3, <3>5 DEF Live
        <4>1. CASE users[w] # None /\ a.name = users[w].name
          <5>1. w \in Live /\ users'[w].name = users[w].name
            BY <3>2, <3>3, <4>1 DEF Live
          <5>2. RefreshedFirst(v, w)
            BY <3>5, <4>1, <5>1 DEF FoundInv
          <5> QED BY <2>f, <3>2, <5>1, <5>2
        <4>2. CASE \A x \in Live \ {w} : users[x].name # a.name
          <5>1. ~Unlogged(v) /\ v \notin missed
            BY <3>2 DEF SingleOperator, Unlogged, IntactInv
          <5>2. Due(w)'
            BY <3>w DEF Due
          <5>3. CASE Queued(v)
            <6>1. PICK i \in Unread + 1 .. Len(log) : log[i] = v
              BY <5>3 DEF Queued
            <6> QED BY <2>r, <3>2, <3>w, <6>1 DEF RefreshedFirst
          <5>4. CASE Followed(v)
            <6>1. users[v] = None \/ users[v].name # a.name
              BY <3>5, <4>2 DEF Live
            <6>2. entry = v /\ rpc \in {"query", "erase"} => RefreshedFirst(v, w)'
              BY <1>2, <5>2 DEF RefreshedFirst
            <6>3. entry = v /\ rpc \in {"uids", "names"} => RefreshedFirst(v, w)'
              BY <1>2, <3>3, <5>2, <5>4, <6>1 DEF RefreshedFirst, Followed
            <6>4. entry = v => rpc \in {"query", "uids", "names", "lookup", "masks", "erase",
                                        "unmask"}
              BY <1>e, <1>n DEF Loading
            <6>5. entry = v => rpc \notin {"lookup", "masks", "unmask"}
              BY <3>5, <4>0, <5>4, <6>1 DEF Followed, NameCurrent, Carries
            <6>6. entry = v
              BY <1>e, <1>n, <3>5, <4>0, <5>4, <6>1 DEF Followed, NameCurrent, Carries, Loading
            <6> QED BY <6>2, <6>3, <6>4, <6>5, <6>6
          <5> QED BY <5>1, <5>3, <5>4 DEF CacheInv, Due
        <4> QED BY <3>1, <4>0, <4>1, <4>2, <1>n, <3>3, <3>5 DEF Live
      <3>6. Found(w)'
        BY <3>w DEF Found, Due
      <3>7. ASSUME NEW u \in Live'
            PROVE  /\ Found(u)'
                   /\ \A v \in Uids \ {u} :
                        Carries(v, users[u].name)' => RefreshedFirst(v, u)'
        <4>1. CASE u = w
          BY <2>c, <3>3, <3>5, <3>6, <4>1
        <4>2. CASE u # w
          BY <2>k, <3>4, <4>2
        <4> QED BY <4>1, <4>2
      <3> QED BY <3>7
    <2> QED BY <1>4, <2>2, <2>3 DEF Quiet, Logs
  <1> QED BY <1>1, <1>3, <1>4

\* The steps of the replicator.
LEMMA RunFound ==
  ASSUME ReplicationTypes, CacheInv, UniqueNames, IntactInv, FoundInv, Run
  PROVE  FoundInv'
PROOF
  <1>0. /\ users \in [Uids -> Accounts \cup {None}] /\ log \in Seq(Uids) /\ Len(log) \in Nat
        /\ rows \in [Uids -> Accounts \cup {None}]
        /\ last \in 0 .. Len(log) /\ mark \in 0 .. Len(log) /\ entry \in Uids \cup {None}
        /\ names \in [Uids -> Names \cup {None}] /\ uids \in [Names -> Uids \cup {None}]
    BY TypeParts DEF ReplicationTypes
  <1>e. /\ rpc \in Loading \cup {"tail"} <=> entry = None
        /\ rpc \in {"uids", "names", "lookup", "masks"} => rows[entry] # None
    BY DEF ReplicationTypes, EntryInv
  <1>n. /\ None \notin Uids /\ None \notin Names /\ LogMax \in Nat \ {0}
        /\ \A a \in Accounts : a.name \in Names
    BY ReplicationBounds DEF Accounts
  <1>s. UNCHANGED <<users, log, tpc, job>>
    BY DEF Run, Populate, PopulateFails, Install, InitialiseLastOID, TailNext, TailFails,
           ReplicateQuery, CacheUid, CacheName, LookupIPMasks, CacheIPMasks, CacheErase,
           EraseIPMasks, ReplicateFails, dbVars, threadVars
  <1>l. Live' = Live
    BY <1>s DEF Live
  <1> DEFINE Good(u) ==
               Found(u) /\ \A v \in Uids \ {u} : Carries(v, users[u].name) => RefreshedFirst(v, u)
  <1>g. ASSUME intact' => intact, rpc # "start",
               ASSUME intact, intact', NEW u \in Uids, u \in Live, Good(u) PROVE Good(u)'
        PROVE  FoundInv'
    <2> SUFFICES ASSUME intact', NEW u \in Live' PROVE Good(u)'
      BY DEF FoundInv
    <2>1. u \in Live /\ u \in Uids
      BY <1>l DEF Live
    <2> QED BY <1>g, <2>1 DEF FoundInv
  <1>x. ~intact' \/ rpc' = "start" => FoundInv'
    BY Zenon DEF FoundInv
  <1>f. \A u, v \in Uids : RefreshedFirst(v, u) => Due(u)
    BY FirstThenDue
  <1>a. \A u \in Live : users[u] \in Accounts /\ users[u].name \in Names
    BY <1>0, <1>n DEF Live
  <1>d. ASSUME Unread' = Unread, NEW u \in Uids PROVE Due(u)' <=> Due(u)
    BY <1>d, <1>s DEF Due, Unlogged, Queued
  \* Entries of the log that order two uids do so until the tail moves.
  <1> DEFINE Ordered(v, u) ==
               \E i \in Unread + 1 .. Len(log) :
                 log[i] = v /\ (Unlogged(u) \/ \E j \in i + 1 .. Len(log) : log[j] = u)
  <1>o. ASSUME Unread' = Unread, NEW u \in Uids, NEW v \in Uids, Ordered(v, u)
        PROVE  Ordered(v, u)' /\ RefreshedFirst(v, u)'
    <2>1. Unlogged(u)' <=> Unlogged(u)
      BY <1>s DEF Unlogged
    <2> QED BY <1>o, <1>s, <2>1 DEF RefreshedFirst
  <1>r. ASSUME rpc \notin {"install", "init"}, rpc' \notin {"install", "init"}, last' = last
        PROVE  Unread' = Unread
    BY <1>r DEF Unread
  <1>1. CASE Populate
    <2>1. /\ rpc' = "install" /\ rows' = users
      BY <1>1 DEF Populate
    <2> SUFFICES ASSUME NEW u \in Live PROVE Good(u)'
      BY <1>l DEF FoundInv
    <2>2. Found(u)'
      BY <1>s, <2>1 DEF Found, Live
    <2>3. ASSUME NEW v \in Uids \ {u} PROVE ~(Carries(v, users[u].name)')
      BY <1>s, <2>1 DEF Carries, UniqueNames, Live
    <2> QED BY <2>2, <2>3
  <1>2. CASE PopulateFails
    <2>1. ~intact'
      BY <1>2 DEF PopulateFails
    <2> QED BY <1>x, <2>1
  <1>3. CASE Install
    <2> DEFINE found == {u \in Uids : rows[u] # None}
    <2>1. /\ intact' = intact /\ rpc = "install" /\ rpc' = "init" /\ mark' = mark
          /\ entry = None /\ entry' = None
          /\ names' = [u \in Uids |-> IF u \in found THEN rows[u].name ELSE None]
          /\ uids' = [n \in Names |-> IF \E u \in found : rows[u].name = n
                                      THEN CHOOSE u \in found : rows[u].name = n ELSE None]
      BY <1>e, <1>3 DEF Install, missVars, Loading
    <2>2. Unread' = Unread
      BY <2>1 DEF Unread
    <2>3. ASSUME NEW u \in Uids, u \in Live, Good(u) PROVE Good(u)'
      <3> DEFINE n == users[u].name
      <3>1. n \in Names /\ n # None /\ users' = users
        BY <1>a, <1>n, <1>s, <2>3
      <3>2. ASSUME NEW v \in Uids \ {u}, Carries(v, users[u].name)'
            PROVE  RefreshedFirst(v, u)'
        <4>1. names'[v] = n
          BY <2>1, <3>1, <3>2 DEF Carries
        <4>2. rows[v] # None /\ rows[v].name = n
          BY <1>n, <2>1, <3>1, <4>1
        <4>3. RefreshedFirst(v, u)
          BY <2>1, <2>3, <4>2 DEF Carries
        <4>4. Ordered(v, u)
          BY <1>n, <2>1, <4>3 DEF RefreshedFirst
        <4> QED BY <1>o, <2>2, <4>4
      <3>3. Due(u) => Due(u)'
        BY <1>d, <2>2
      <3>4. ASSUME rows[u] # None, rows[u].name = n PROVE Found(u)'
        <4> DEFINE c == CHOOSE x \in found : rows[x].name = n
        <4>1. u \in found
          BY <3>4
        <4>2. uids'[n] = c
          <5> HIDE DEF found
          <5> QED BY <2>1, <3>1, <3>4, <4>1
        <4>3. c \in found /\ rows[c].name = n
          <5> HIDE DEF found
          <5> QED BY <3>4, <4>1
        <4>4. CASE c = u
          BY <2>1, <3>1, <4>2, <4>4 DEF Found
        <4>5. CASE c # u
          <5>1. c \in Uids /\ rows[c] # None
            BY <4>3
          <5> HIDE DEF c, found
          <5>2. Carries(c, n)
            BY <2>1, <4>3, <5>1 DEF Carries
          <5>3. Due(u)
            BY <1>f, <2>3, <4>5, <5>1, <5>2
          <5> QED BY <3>3, <5>3 DEF Found
        <4> QED BY <4>4, <4>5
      <3>5. Found(u)'
        BY <1>n, <2>1, <2>3, <3>3, <3>4 DEF Found
      <3> QED BY <3>2, <3>5
    <2> QED BY <1>g, <2>1, <2>3
  <1>4. CASE InitialiseLastOID
    <2> DEFINE S == {log[i] : i \in mark + 1 .. Len(log)}
    <2>1. /\ rpc = "init" /\ rpc' = "tail" /\ UNCHANGED <<uids, names>>
          /\ entry = None /\ entry' = None /\ Miss(S)
      BY <1>e, <1>4 DEF InitialiseLastOID, Loading, cacheVars
    <2>2. ASSUME intact' PROVE intact /\ S = {}
      BY <2>1, <2>2 DEF Miss
    <2>3. ASSUME intact', NEW u \in Uids, u \in Live, Good(u) PROVE Good(u)'
      <3>1. \A i \in Unread + 1 .. Len(log) : FALSE
        BY <2>1, <2>2, <2>3 DEF Unread
      <3>2. Due(u) => Due(u)'
        BY <1>s, <3>1 DEF Due, Queued, Unlogged
      <3>3. Found(u)'
        BY <1>n, <1>s, <2>1, <2>3, <3>2 DEF Found
      <3>4. ASSUME NEW v \in Uids \ {u} PROVE ~(Carries(v, users[u].name)')
        <4>1. ~RefreshedFirst(v, u)
          BY <1>n, <2>1, <3>1 DEF RefreshedFirst
        <4> QED BY <1>s, <2>1, <2>3, <4>1 DEF Carries
      <3> QED BY <3>3, <3>4
    <2> QED BY <1>g, <2>1, <2>2, <2>3
  <1>5. CASE TailNext
    <2> DEFINE S == {log[i] : i \in last + 1 .. Next1 - 1}
    <2>1. /\ rpc = "tail" /\ rpc' = "query" /\ UNCHANGED <<uids, names>>
          /\ entry = None /\ entry' = log[Next1] /\ last' = Next1 /\ Miss(S)
      BY <1>e, <1>5 DEF TailNext, Loading, cacheVars
    <2>2. ASSUME intact' PROVE intact /\ S = {}
      BY <2>1, <2>2 DEF Miss
    <2>3. ASSUME intact', NEW u \in Uids, u \in Live, Good(u) PROVE Good(u)'
      <3>1. Next1 = last + 1
        <4>1. Next1 \in Int /\ Next1 >= last + 1
          BY <1>0, <1>n DEF Next1
        <4>2. ~(last + 1 <= Next1 - 1)
          <5>1. \A i \in last + 1 .. Next1 - 1 : FALSE
            BY <2>2, <2>3
          <5> QED BY <1>0, <4>1, <5>1
        <4> QED BY <1>0, <4>1, <4>2
      <3>2. Unread = last /\ Unread' = last + 1 /\ users' = users
        BY <1>s, <2>1, <3>1 DEF Unread
      <3>3. Unlogged(u)' <=> Unlogged(u)
        BY <1>s DEF Unlogged
      <3>4. ASSUME NEW i \in last + 2 .. Len(log) PROVE i \in Unread' + 1 .. Len(log')
        BY <1>0, <1>s, <3>2
      <3>5. Queued(u) => Queued(u)' \/ entry' = u
        <4> SUFFICES ASSUME NEW i \in last + 1 .. Len(log), log[i] = u
                     PROVE  Queued(u)' \/ entry' = u
          BY <3>2 DEF Queued
        <4>1. CASE i = last + 1
          BY <2>1, <3>1, <4>1
        <4>2. CASE i # last + 1
          <5>1. i \in last + 2 .. Len(log)
            BY <1>0, <4>2
          <5> QED BY <1>s, <3>4, <5>1 DEF Queued
        <4> QED BY <4>1, <4>2
      <3>6. Found(u)'
        BY <1>n, <1>s, <2>1, <2>3, <3>3, <3>5 DEF Found, Due
      <3>7. ASSUME NEW v \in Uids \ {u}, Carries(v, users[u].name)'
            PROVE  RefreshedFirst(v, u)'
        <4>1. RefreshedFirst(v, u)
          BY <1>n, <2>1, <2>3, <3>2, <3>7 DEF Carries
        <4>2. PICK i \in last + 1 .. Len(log) :
                log[i] = v /\ (Unlogged(u) \/ \E j \in i + 1 .. Len(log) : log[j] = u)
          BY <1>n, <2>1, <3>2, <4>1 DEF RefreshedFirst
        <4>3. CASE i = last + 1
          <5>1. ASSUME NEW j \in i + 1 .. Len(log), log[j] = u PROVE Queued(u)'
            <6>1. j \in last + 2 .. Len(log)
              BY <1>0, <4>3
            <6> QED BY <1>s, <3>4, <5>1, <6>1 DEF Queued
          <5>2. Due(u)'
            BY <3>3, <4>2, <5>1 DEF Due
          <5>3. entry' = v
            BY <2>1, <3>1, <4>2, <4>3
          <5> QED BY <2>1, <5>2, <5>3 DEF RefreshedFirst
        <4>4. CASE i # last + 1
          <5>1. i \in last + 2 .. Len(log)
            BY <1>0, <4>4
          <5> QED BY <1>s, <3>3, <3>4, <4>2, <5>1 DEF RefreshedFirst
        <4> QED BY <4>3, <4>4
      <3> QED BY <3>6, <3>7
    <2> QED BY <1>g, <2>1, <2>2, <2>3
  <1>6. CASE TailFails
    BY <1>x, <1>6 DEF TailFails
  <1>7. CASE ReplicateQuery
    <2>1. /\ rpc = "query" /\ rpc' = (IF users[entry] # None THEN "uids" ELSE "erase")
          /\ rows' = [NoRows EXCEPT ![entry] = users[entry]] /\ intact' = intact
          /\ UNCHANGED <<uids, names, entry, last>>
      BY <1>7 DEF ReplicateQuery, cacheVars
    <2>2. Unread' = Unread
      BY <1>r, <2>1
    <2>3. entry \in Uids /\ rows'[entry] = users[entry]
      BY <1>0, <1>e, <2>1 DEF Loading, NoRows
    <2>4. ASSUME NEW u \in Uids, u \in Live, Good(u) PROVE Good(u)'
      <3>1. Due(u) => Due(u)'
        BY <1>d, <2>2
      <3>2. Found(u)'
        BY <1>s, <2>1, <2>3, <2>4, <3>1 DEF Found, Live
      <3>3. ASSUME NEW v \in Uids \ {u}, Carries(v, users[u].name)'
            PROVE  RefreshedFirst(v, u)'
        <4>1. v = entry /\ rpc' = "uids" => rows'[v].name # users[u].name
          BY <2>1, <2>3, <2>4, <3>3 DEF UniqueNames, Live
        <4>2. Carries(v, users[u].name)
          BY <1>s, <2>1, <3>3, <4>1 DEF Carries
        <4>3. RefreshedFirst(v, u)
          BY <2>4, <4>2
        <4>4. CASE Ordered(v, u)
          BY <1>o, <2>2, <4>4
        <4>5. CASE entry = v /\ Due(u)
          BY <1>s, <2>1, <3>1, <4>1, <4>5 DEF RefreshedFirst
        <4> QED BY <4>3, <4>4, <4>5 DEF RefreshedFirst
      <3> QED BY <3>2, <3>3
    <2> QED BY <1>g, <2>1, <2>4
  <1>8. CASE CacheUid
    <2>1. /\ rpc = "uids" /\ rpc' = "names" /\ uids' = [uids EXCEPT ![rows[entry].name] = entry]
          /\ intact' = intact /\ UNCHANGED <<names, rows, entry, last>>
      BY <1>8 DEF CacheUid, missVars
    <2>2. Unread' = Unread
      BY <1>r, <2>1
    <2>3. entry \in Uids /\ rows[entry].name \in Names
      BY <1>0, <1>e, <1>n, <2>1 DEF Loading
    <2>4. ASSUME NEW u \in Uids, u \in Live, Good(u) PROVE Good(u)'
      <3>1. Due(u) => Due(u)'
        BY <1>d, <2>2
      <3>2. users[u].name \in Names /\ users' = users
        BY <1>a, <1>s, <2>4
      <3>3. ASSUME rows[entry].name = users[u].name PROVE Found(u)'
        <4>1. CASE entry = u
          BY <1>0, <2>1, <2>3, <3>2, <3>3, <4>1 DEF Found
        <4>2. CASE entry # u
          <5>1. Carries(entry, users[u].name)
            BY <2>1, <3>3 DEF Carries
          <5>2. Due(u)
            BY <1>f, <2>3, <2>4, <4>2, <5>1
          <5> QED BY <3>1, <5>2 DEF Found
        <4> QED BY <4>1, <4>2
      <3>4. ASSUME rows[entry].name # users[u].name PROVE Found(u)'
        <4>1. uids'[users[u].name] = uids[users[u].name]
          BY <1>0, <2>1, <2>3, <3>2, <3>4
        <4> QED BY <2>1, <2>4, <3>1, <3>2, <3>4, <4>1 DEF Found
      <3>5. ASSUME NEW v \in Uids \ {u}, Carries(v, users[u].name)'
            PROVE  RefreshedFirst(v, u)'
        <4>1. RefreshedFirst(v, u)
          BY <2>1, <2>4, <3>2, <3>5 DEF Carries
        <4>2. CASE Ordered(v, u)
          BY <1>o, <2>2, <4>2
        <4>3. CASE entry = v /\ Due(u) /\ rows[v].name # users[u].name
          BY <2>1, <3>1, <3>2, <4>3 DEF RefreshedFirst
        <4> QED BY <2>1, <4>1, <4>2, <4>3 DEF RefreshedFirst
      <3> QED BY <3>3, <3>4, <3>5
    <2> QED BY <1>g, <2>1, <2>4
  <1>9. CASE CacheName
    <2>1. /\ rpc = "names" /\ rpc' = "lookup" /\ names' = [names EXCEPT ![entry] = rows[entry].name]
          /\ intact' = intact /\ UNCHANGED <<uids, rows, entry, last>>
      BY <1>9 DEF CacheName, missVars
    <2>2. Unread' = Unread
      BY <1>r, <2>1
    <2>4. ASSUME NEW u \in Uids, u \in Live, Good(u) PROVE Good(u)'
      <3>1. Due(u) => Due(u)'
        BY <1>d, <2>2
      <3>2. Found(u)'
        BY <1>s, <2>1, <2>4, <3>1 DEF Found
      <3>3. ASSUME NEW v \in Uids \ {u}, Carries(v, users[u].name)'
            PROVE  RefreshedFirst(v, u)'
        <4>0. names'[v] = users[u].name
          BY <1>s, <2>1, <3>3 DEF Carries
        <4>1. names'[v] = IF v = entry THEN rows[v].name ELSE names[v]
          BY <1>0, <2>1
        <4>2. RefreshedFirst(v, u) /\ (v = entry => rows[v].name = users[u].name)
          BY <2>1, <2>4, <4>0, <4>1 DEF Carries
        <4>3. Ordered(v, u)
          BY <2>1, <4>2 DEF RefreshedFirst
        <4> QED BY <1>o, <2>2, <4>3
      <3> QED BY <3>2, <3>3
    <2> QED BY <1>g, <2>1, <2>4
  <1>10. CASE LookupIPMasks \/ CacheIPMasks \/ EraseIPMasks
    <2>1. /\ rpc \in {"lookup", "masks", "unmask"} /\ rpc' \in {"masks", "tail"}
          /\ intact' = intact /\ UNCHANGED <<uids, names, last>>
      BY <1>10 DEF LookupIPMasks, CacheIPMasks, EraseIPMasks, missVars, cacheVars
    <2>2. Unread' = Unread
      BY <1>r, <2>1
    <2>4. ASSUME NEW u \in Uids, u \in Live, Good(u) PROVE Good(u)'
      <3>1. Due(u) => Due(u)'
        BY <1>d, <2>2
      <3>2. Found(u)'
        BY <1>s, <2>1, <2>4, <3>1 DEF Found
      <3>3. ASSUME NEW v \in Uids \ {u}, Carries(v, users[u].name)'
            PROVE  RefreshedFirst(v, u)'
        <4>1. RefreshedFirst(v, u)
          BY <1>s, <2>1, <2>4, <3>3 DEF Carries
        <4>2. Ordered(v, u)
          BY <2>1, <4>1 DEF RefreshedFirst
        <4> QED BY <1>o, <2>2, <4>2
      <3> QED BY <3>2, <3>3
    <2> QED BY <1>g, <2>1, <2>4
  <1>11. CASE CacheErase
    <2>1. /\ rpc = "erase" /\ rpc' = "unmask" /\ names' = [names EXCEPT ![entry] = None]
          /\ uids' = (IF names[entry] = None THEN uids ELSE [uids EXCEPT ![names[entry]] = None])
          /\ intact' = intact /\ UNCHANGED <<rows, entry, last>>
      BY <1>11 DEF CacheErase, missVars
    <2>2. Unread' = Unread
      BY <1>r, <2>1
    <2>3. entry \in Uids
      BY <1>0, <1>e, <2>1 DEF Loading
    <2>4. ASSUME intact, NEW u \in Uids, u \in Live, Good(u) PROVE Good(u)'
      <3>1. Due(u) => Due(u)'
        BY <1>d, <2>2
      <3>2. users[u].name \in Names /\ users' = users
        BY <1>a, <1>s, <2>4
      <3>3. names[entry] = users[u].name => Due(u)
        <4>1. CASE entry = u
          <5>1. Followed(u) \/ Due(u)
            BY <2>4 DEF CacheInv, IntactInv
          <5> QED BY <2>1, <2>4, <4>1, <5>1 DEF Followed, Live
        <4>2. CASE entry # u
          BY <1>f, <2>1, <2>3, <2>4, <4>2 DEF Carries
        <4> QED BY <4>1, <4>2
      <3>4. names[entry] # users[u].name => uids'[users[u].name] = uids[users[u].name]
        BY <1>0, <2>1, <2>3, <3>2
      <3>5. Found(u)'
        BY <2>1, <2>4, <3>1, <3>2, <3>3, <3>4 DEF Found
      <3>6. ASSUME NEW v \in Uids \ {u}, Carries(v, users[u].name)'
            PROVE  RefreshedFirst(v, u)'
        <4>1. names'[v] = users[u].name
          BY <2>1, <3>2, <3>6 DEF Carries
        <4>2. v # entry /\ names[v] = users[u].name
          BY <1>0, <1>n, <2>1, <3>2, <4>1
        <4>3. RefreshedFirst(v, u)
          BY <2>1, <2>4, <4>2 DEF Carries
        <4>4. Ordered(v, u)
          BY <4>2, <4>3 DEF RefreshedFirst
        <4> QED BY <1>o, <2>2, <4>4
      <3> QED BY <3>5, <3>6
    <2> QED BY <1>g, <2>1, <2>4
  <1>12. CASE ReplicateFails
    <2>1. ~intact'
      BY <1>12 DEF ReplicateFails, Miss
    <2> QED BY <1>x, <2>1
  <1> QED BY <1>1, <1>2, <1>3, <1>4, <1>5, <1>6, <1>7, <1>8, <1>9, <1>10, <1>11, <1>12 DEF Run

\* With one operator, FoundInv holds in every state.
LEMMA FoundInvariance == SingleOperator => (Spec => [](IntactInv /\ FoundInv))
PROOF
  <1> SUFFICES ASSUME SingleOperator PROVE Spec => [](IntactInv /\ FoundInv)
    OBVIOUS
  <1>1. Init => IntactInv /\ FoundInv
    BY DEF Init, IntactInv, FoundInv
  <1>2. FoundInv /\ UNCHANGED vars => FoundInv'
    <2> SUFFICES ASSUME FoundInv, UNCHANGED vars PROVE FoundInv'
      OBVIOUS
    <2>1. UNCHANGED <<users, log, tpc, job, uids, names, rpc, last, entry, rows, mark, intact>>
      BY DEF vars, dbVars, threadVars, cacheVars, tailVars, missVars
    <2> QED BY <2>1 DEF FoundInv, Live, Found, Carries, RefreshedFirst, Due, Unlogged, Queued, Unread
  <1>3. ReplicationTypes /\ CacheInv /\ UniqueNames /\ IntactInv /\ FoundInv /\ [Next]_vars
        => (IntactInv /\ FoundInv)'
    BY <1>2, StepCases, ThreadFound, RunFound, IntactStep DEF ReplicationTypes
  <1> QED BY <1>1, <1>3, TypesInvariance, CacheInvariance, PTL DEF Spec

\* With one operator at a time, and no change missed since the last GetUsers, every
\* account is found by its name once its changes are replicated, whatever it was
\* renamed to and whoever had the name before: the log has the changes in the order
\* they were made, so the former holder of a name is refreshed before the account
\* that has it now.
THEOREM OneOperatorFinds == SingleOperator => (Spec => []NameFound)
PROOF
  <1> SUFFICES ASSUME SingleOperator PROVE Spec => []NameFound
    OBVIOUS
  <1>1. FoundInv => NameFound
    <2> SUFFICES ASSUME FoundInv, intact, \A v \in Uids : Settled(v), NEW u \in Live
                 PROVE  NameToUID(users[u].name) = u
      BY DEF NameFound
    <2>1. u \in Uids
      BY DEF Live
    <2>2. ~Due(u) /\ rpc \notin Loading /\ entry # u
      BY <2>1 DEF Settled, Due, Unlogged, Queued, Unread, Loading
    <2>3. Found(u)
      BY <2>2 DEF FoundInv, Loading
    <2> QED BY <2>2, <2>3 DEF Found, NameToUID, Loading
  <1> QED BY <1>1, FoundInvariance, PTL

-----------------------------------------------------------------------------
(* One operator: confirmed masks and total_users *)

\* The replicator writes nothing of the database or of the commands.
LEMMA RunFrame ==
  ASSUME Run \/ UNCHANGED vars
  PROVE  UNCHANGED <<users, log, granted, tpc, job>>
PROOF BY DEF Run, Populate, PopulateFails, Install, InitialiseLastOID, TailNext, TailFails,
           ReplicateQuery, CacheUid, CacheName, LookupIPMasks, CacheIPMasks, CacheErase,
           EraseIPMasks, ReplicateFails, dbVars, threadVars, vars

\* What the statements of the only operator do to accounts and confirmed masks.
LEMMA OperatorStep ==
  ASSUME SingleOperator, ReplicationTypes, NEW t \in Threads, CommandStep(t)
  PROVE  /\ \A d \in Threads : tpc'[d] # "save"
         /\ \/ UNCHANGED <<users, granted>>
            \/ /\ tpc[t] = "insert" /\ users[job[t].uid] = None /\ ~NameTaken(job[t].name)
               /\ \E a \in Accounts : a.name = job[t].name /\ users' = [users EXCEPT ![job[t].uid] = a]
               /\ granted' = granted
            \/ /\ tpc[t] = "save" /\ tpc'[t] = "log" /\ users[job[t].uid] # None
               /\ users' = [users EXCEPT ![job[t].uid] = Written(job[t])]
               /\ granted' = Confirmed(job[t])
         /\ tpc'[t] \in {"nextid", "insert", "dup"} =>
              tpc[t] \in {"nextid", "insert", "dup"} /\ job'[t].name = job[t].name
PROOF
  <1>0. tpc \in [Threads -> Where] /\ job \in [Threads -> Jobs] /\ \A d \in Threads : d = t
    BY TypeParts DEF ReplicationTypes, SingleOperator
  <1>j. JobInv
    BY DEF ReplicationTypes
  <1>1. CASE NextAutoIncrement(t) \/ Duplicate(t) \/ CreateFails(t)
    <2>1. job'[t].name = job[t].name
      BY <1>0, <1>1 DEF NextAutoIncrement, Duplicate, CreateFails, Jobs
    <2> QED BY <1>0, <1>1, <2>1 DEF NextAutoIncrement, Duplicate, CreateFails, To, dbVars
  <1>2. CASE Insert(t) \/ InsertThrows(t)
    <2> DEFINE a == [name |-> job[t].name, masks |-> {}, deleted |-> FALSE]
    <2>1. job[t].name \in Names
      BY <1>2, <1>j DEF Insert, InsertThrows, JobInv
    <2>2. a \in Accounts /\ a.name = job[t].name
      BY <2>1 DEF Accounts
    <2>3. /\ tpc[t] = "insert" /\ job' = job /\ granted' = granted
          /\ \E l \in {"log", "dup", "nextid"} : tpc' = [tpc EXCEPT ![t] = l]
          /\ \/ users' = users
             \/ users[job[t].uid] = None /\ ~NameTaken(job[t].name) /\ users' = [users EXCEPT ![job[t].uid] = a]
      BY <1>2 DEF Insert, InsertThrows, To
    <2> HIDE DEF a
    <2> QED BY <1>0, <2>2, <2>3
  <1>3. CASE Save(t)
    BY <1>0, <1>3 DEF Save, To
  <1>4. CASE SaveFails(t) \/ UpdateLog(t) \/ UpdateLogFails(t)
    BY <1>0, <1>4 DEF SaveFails, UpdateLog, UpdateLogFails, To, dbVars
  <1> QED BY <1>1, <1>2, <1>3, <1>4 DEF CommandStep

\* MaskInv is kept.
LEMMA MaskStep ==
  ASSUME SingleOperator, ReplicationTypes, MaskInv, [Next]_vars
  PROVE  MaskInv'
PROOF
  <1>0. /\ users \in [Uids -> Accounts \cup {None}] /\ granted \subseteq Uids \X Addrs
        /\ tpc \in [Threads -> Where] /\ job \in [Threads -> Jobs]
    BY TypeParts DEF ReplicationTypes
  <1>1. CASE Run \/ UNCHANGED vars
    <2>1. UNCHANGED <<users, granted, tpc, job>>
      BY <1>1, RunFrame
    <2> QED BY <2>1 DEF MaskInv
  <1>2. ASSUME NEW t \in Threads, Begins(t) PROVE MaskInv'
    <2>1. PICK l \in {"nextid", "save"}, j \in Jobs :
            /\ Begin(t, l, j)
            /\ l = "save" =>
                 /\ j.uid \in Live
                 /\ j.op = "ADDIP" => j.masks = users[j.uid].masks \cup {j.addr}
                 /\ j.op = "DELIP" => j.masks = users[j.uid].masks \ {j.addr}
      BY <1>2 DEF Begins
    <2>2. /\ UNCHANGED <<users, granted>> /\ tpc'[t] = l /\ job'[t] = j
          /\ \A d \in Threads : d = t
      BY <1>0, <2>1 DEF Begin, To, dbVars, SingleOperator
    <2> QED BY <2>1, <2>2 DEF MaskInv, Live
  <1>3. ASSUME NEW t \in Threads, CommandStep(t) PROVE MaskInv'
    <2> DEFINE w == job[t].uid
    <2>1. \A d \in Threads : tpc'[d] # "save"
      BY <1>3, OperatorStep
    <2> SUFFICES ASSUME NEW g \in granted' PROVE users'[g[1]] # None /\ g[2] \in users'[g[1]].masks
      BY <2>1 DEF MaskInv
    <2>2. CASE UNCHANGED <<users, granted>>
      BY <2>2 DEF MaskInv
    <2>3. CASE users[w] = None /\ granted' = granted
               /\ \E a \in Accounts : users' = [users EXCEPT ![w] = a]
      <3>1. g[1] \in Uids /\ users[g[1]] # None /\ g[2] \in users[g[1]].masks
        BY <1>0, <2>3 DEF MaskInv
      <3> QED BY <1>0, <2>3, <3>1
    <2>4. CASE /\ tpc[t] = "save" /\ users[w] # None
               /\ users' = [users EXCEPT ![w] = Written(job[t])] /\ granted' = Confirmed(job[t])
      <3> DEFINE a == Written(job[t])
      <3>1. /\ w \in Uids /\ job[t].op \in FieldCommands
            /\ job[t].op \in {"ADDIP", "DELIP"} => job[t].addr \in Addrs
        BY <2>4 DEF ReplicationTypes, JobInv
      <3>2. /\ job[t].op = "PURGE" => a = None
            /\ job[t].op # "PURGE" => a \in Accounts
            /\ job[t].op \in {"ADDIP", "DELIP"} => a.masks = job[t].masks
            /\ job[t].op \in {"RENUSER", "DELUSER"} => a.masks = users[w].masks
        BY <2>4, WrittenFields DEF ReplicationTypes
      <3> HIDE DEF a
      <3>3. a # None \/ job[t].op = "PURGE"
        BY <3>2, ReplicationBounds
      <3>4. /\ job[t].op = "ADDIP" => a.masks = users[w].masks \cup {job[t].addr}
            /\ job[t].op = "DELIP" => a.masks = users[w].masks \ {job[t].addr}
        BY <2>4, <3>2 DEF MaskInv
      <3>5. users' = [users EXCEPT ![w] = a]
        BY <2>4 DEF a
      <3>6. ASSUME g \in granted
            PROVE  g[1] \in Uids /\ users[g[1]] # None /\ g[2] \in users[g[1]].masks
                   /\ g = <<g[1], g[2]>>
        BY <1>0, <3>6 DEF MaskInv
      <3>7. CASE job[t].op = "ADDIP"
        <4>1. g \in granted \/ g = <<w, job[t].addr>>
          BY <2>4, <3>7 DEF Confirmed
        <4>2. a # None
          BY <3>3, <3>7
        <4>3. CASE g = <<w, job[t].addr>>
          BY <1>0, <3>1, <3>4, <3>5, <3>7, <4>2, <4>3
        <4>4. CASE g \in granted
          BY <1>0, <3>1, <3>4, <3>5, <3>6, <3>7, <4>2, <4>4
        <4> QED BY <4>1, <4>3, <4>4
      <3>8. CASE job[t].op = "DELIP"
        <4>1. g \in granted /\ g # <<w, job[t].addr>>
          BY <2>4, <3>8 DEF Confirmed
        <4>2. a # None
          BY <3>3, <3>8
        <4>3. g[1] = w => g[2] # job[t].addr
          BY <3>6, <4>1
        <4> QED BY <1>0, <3>1, <3>4, <3>5, <3>6, <3>8, <4>1, <4>2, <4>3
      <3>9. CASE job[t].op = "PURGE"
        <4>1. g \in granted /\ g[1] # w
          BY <2>4, <3>9 DEF Confirmed
        <4> QED BY <1>0, <3>1, <3>5, <3>6, <4>1
      <3>10. CASE job[t].op \in {"RENUSER", "DELUSER"}
        <4>1. g \in granted
          BY <2>4, <3>10 DEF Confirmed
        <4>2. a # None
          BY <3>3, <3>10
        <4> QED BY <1>0, <3>1, <3>2, <3>5, <3>6, <3>10, <4>1, <4>2
      <3> QED BY <3>1, <3>7, <3>8, <3>9, <3>10 DEF FieldCommands, AllCommands
    <2> QED BY <1>3, <2>2, <2>3, <2>4, OperatorStep
  <1> QED BY <1>1, <1>2, <1>3, StepCases DEF ReplicationTypes

\* With one operator at a time a mask that SITE ADDIP confirmed stays in the account
\* until DELIP or PURGE takes it back, whichever statements fail: Save writes the
\* masks the command loaded with its own change, and nobody changed them since.
THEOREM OneOperatorKeepsMasks == SingleOperator => (Spec => []ConfirmedMaskStays)
PROOF
  <1> SUFFICES ASSUME SingleOperator PROVE Spec => []ConfirmedMaskStays
    OBVIOUS
  <1>1. Init => MaskInv
    BY DEF Init, MaskInv
  <1>2. ReplicationTypes /\ MaskInv /\ [Next]_vars => MaskInv'
    BY MaskStep
  <1>3. MaskInv => ConfirmedMaskStays
    BY DEF MaskInv, ConfirmedMaskStays
  <1> QED BY <1>1, <1>2, <1>3, TypesInvariance, PTL DEF Spec

\* The accounts are finitely many.
LEMMA LiveFinite == IsFiniteSet(Live) /\ Cardinality(Live) \in Nat
PROOF
  <1>1. IsFiniteSet(0 .. MaxUid)
    BY ReplicationBounds, FS_Interval
  <1>2. Live \subseteq 0 .. MaxUid
    BY DEF Live, Uids
  <1>3. IsFiniteSet(Live)
    BY <1>1, <1>2, FS_Subset
  <1> QED BY <1>3, FS_CardinalityType

\* TotalInv is kept.
LEMMA TotalStep ==
  ASSUME SingleOperator, ReplicationTypes, TotalInv, [Next]_vars
  PROVE  TotalInv'
PROOF
  <1>0. /\ users \in [Uids -> Accounts \cup {None}]
        /\ tpc \in [Threads -> Where] /\ job \in [Threads -> Jobs]
    BY TypeParts DEF ReplicationTypes
  <1> SUFFICES ASSUME TotalUsers # -1 PROVE TotalInv'
    BY DEF TotalInv
  <1>n. TotalUsers \in Nat /\ Cardinality(Live) \in Nat /\ IsFiniteSet(Live)
    BY ReplicationBounds, LiveFinite
  <1>1. CASE Run \/ UNCHANGED vars
    <2>1. UNCHANGED <<users, tpc, job>> /\ Live' = Live
      BY <1>1, RunFrame DEF Live
    <2> QED BY <2>1 DEF TotalInv, NameTaken
  <1>2. ASSUME NEW t \in Threads, Begins(t) PROVE TotalInv'
    <2>1. PICK l \in {"nextid", "save"}, j \in Jobs :
            Begin(t, l, j) /\ (l = "nextid" => BelowTotal)
      BY <1>2 DEF Begins
    <2>2. /\ Live' = Live /\ tpc'[t] = l /\ \A d \in Threads : d = t
      BY <1>0, <2>1 DEF Begin, To, dbVars, SingleOperator, Live
    <2>3. l = "nextid" => Cardinality(Live) < TotalUsers
      BY <2>1 DEF BelowTotal
    <2> QED BY <2>2, <2>3 DEF TotalInv
  <1>3. ASSUME NEW t \in Threads, CommandStep(t) PROVE TotalInv'
    <2> DEFINE w == job[t].uid
    <2>1. \A d \in Threads : d = t
      BY DEF SingleOperator
    <2>2. tpc'[t] \in {"nextid", "insert", "dup"} =>
            tpc[t] \in {"nextid", "insert", "dup"} /\ job'[t].name = job[t].name
      BY <1>3, OperatorStep
    <2>3. CASE users' = users
      <3>1. Live' = Live
        BY <2>3 DEF Live
      <3> QED BY <2>1, <2>2, <2>3, <3>1 DEF TotalInv, NameTaken
    <2>4. CASE /\ tpc[t] = "insert" /\ users[w] = None /\ ~NameTaken(job[t].name)
               /\ \E a \in Accounts : a.name = job[t].name /\ users' = [users EXCEPT ![w] = a]
      <3>1. w \in Uids
        BY <2>4 DEF ReplicationTypes, JobInv
      <3>2. w \notin Live /\ Live' = Live \cup {w}
        BY <1>0, <2>4, <3>1, ReplicationBounds DEF Live
      <3>3. Cardinality(Live') = Cardinality(Live) + 1
        BY <1>n, <3>2, FS_AddElement
      <3>4. Cardinality(Live) < TotalUsers
        BY <2>4 DEF TotalInv
      <3>5. Cardinality(Live') <= TotalUsers
        BY <1>n, <3>3, <3>4
      <3>6. w \in Live' /\ users'[w].name = job[t].name
        BY <1>0, <2>4, <3>1, <3>2
      <3>7. tpc'[t] \in {"nextid", "insert", "dup"} => NameTaken(job[t].name)'
        BY <2>2, <3>6 DEF NameTaken
      <3> QED BY <2>1, <3>5, <3>7 DEF TotalInv
    <2>5. CASE /\ tpc[t] = "save" /\ tpc'[t] = "log" /\ users[w] # None
               /\ users' = [users EXCEPT ![w] = Written(job[t])]
      <3>1. w \in Uids
        BY <2>5 DEF ReplicationTypes, JobInv
      <3>2. Live' \subseteq Live
        BY <1>0, <2>5, <3>1 DEF Live
      <3>3. Cardinality(Live') <= Cardinality(Live) /\ Cardinality(Live') \in Nat
        BY <1>n, <3>2, FS_Subset, FS_CardinalityType
      <3>4. Cardinality(Live) <= TotalUsers
        BY DEF TotalInv
      <3>5. Cardinality(Live') <= TotalUsers
        BY <1>n, <3>3, <3>4
      <3> QED BY <2>1, <2>5, <3>5 DEF TotalInv
    <2> QED BY <1>3, <2>3, <2>4, <2>5, OperatorStep
  <1> QED BY <1>1, <1>2, <1>3, StepCases DEF ReplicationTypes

\* With one operator at a time the number of accounts stays within total_users, in
\* a server whose limit admits the account it starts with: ADDUSER compares before
\* it creates, and no other command can create in between.
THEOREM OneOperatorKeepsTotal ==
  SingleOperator /\ TotalUsers # 0 => (Spec => []TotalUsersKept)
PROOF
  <1> SUFFICES ASSUME SingleOperator, TotalUsers # 0 PROVE Spec => []TotalUsersKept
    OBVIOUS
  <1>1. Init => TotalInv
    <2> SUFFICES ASSUME Init, TotalUsers # -1 PROVE TotalInv
      BY DEF TotalInv
    <2>1. PICK a \in Accounts : users = [u \in Uids |-> IF u = 0 THEN a ELSE None]
      BY DEF Init
    <2>2. a # None /\ 0 \in Uids
      BY ReplicationBounds DEF Uids
    <2>3. Live = {0}
      BY <2>1, <2>2 DEF Live
    <2>4. Cardinality(Live) = 1
      BY <2>3, FS_Singleton
    <2>5. Cardinality(Live) <= TotalUsers
      BY <2>4, ReplicationBounds
    <2>6. \A t \in Threads : tpc[t] = "idle"
      BY DEF Init
    <2> QED BY <2>5, <2>6 DEF TotalInv
  <1>2. ReplicationTypes /\ TotalInv /\ [Next]_vars => TotalInv'
    BY TotalStep
  <1>3. TotalInv => TotalUsersKept
    BY DEF TotalInv, TotalUsersKept
  <1> QED BY <1>1, <1>2, <1>3, TypesInvariance, PTL DEF Spec
=============================================================================
