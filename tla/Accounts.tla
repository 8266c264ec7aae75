------------------------------ MODULE Accounts ------------------------------
(***************************************************************************)
(* Users, groups and credits as the SITE commands change them: ADDUSER and *)
(* its variants, CHANGE, CHGRP, SETPGRP, CHGADMIN, DELUSER, READD, PURGE,  *)
(* GRPADD, GRPDEL, GRPREN, GRPCHANGE, GIVE and TAKE (cmd/site), over       *)
(* acl::User and acl::Group and the collections behind them (db/user,      *)
(* db/group).                                                              *)
(*                                                                         *)
(* A handler works on the copy that Load returned and writes back single   *)
(* fields of it: Load with the checks on it is one step, every write is    *)
(* another, so that the commands of two operators overlap. Names of users  *)
(* and IP masks are in Replication; names of groups are here, with the     *)
(* cache (db/group/groupcache.cpp) that resolves them.                     *)
(***************************************************************************)
EXTENDS Integers, Sequences, SequencesExt, FiniteSets, FiniteSetsExt, Functions

CONSTANTS
  Operators,    \* client threads that administer accounts
  Gadmins,      \* those of them with the rights of a gadmin of OwnGroup only
  Masters,      \* those of them that cfg names as masters
  Scripts,      \* commands that a behaviour can use, and bound on how many
  GNames,       \* group names, "default" among them
  Settings,     \* settings of CHANGE that are a field with one number
  Values,       \* numbers given to CHANGE, GRPCHANGE, GIVE and TAKE
  Lists,        \* lists of groups given to CHGRP
  Targets,      \* sets of users given to CHANGE
  None,         \* no document, no entry
  MaxUid, MaxGid \* bounds: ids

Uids == 0 .. MaxUid
Gids == 0 .. MaxGid
DefaultUser == 1
DefaultGroup == 1
OwnGroup == 2    \* the group the gadmins administer and are in
MaximumRatio == 3 \* cfg maximum_ratio

FlagSettings == {"flags+", "flags-", "flags="}
Flags == {"siteop", "gadmin", "template", "exempt", "deleted"}
RatioMap == {"ratio", "sratio"} \* one field: the default entry and that of a section
Limits == {"slots", "leech_slots", "allot_slots", "max_allot_size", "max_logins"}
User == [flags : SUBSET Flags, pgid : Gids \cup {-1}, sgids : Seq(Gids), gadmin : SUBSET Gids,
         ratio : Int, sratio : Int, allot : Int \cup {None}, num : [Settings -> Int]]
Group == [name : GNames, limit : [Limits -> Int]]

VARIABLES
  users,       \* the users collection, by uid
  groups,      \* the groups collection, by gid
  credits,     \* the credits element of section "" of each user, None without one
  incr,        \* the asynchronous increments that are under way
  gids, names, \* the tables of GroupCache
  primary,     \* UserCache::primaryGids
  dirty,       \* <<collection, id>> of the update log that the replicator has not read
  job,         \* the handler of each operator
  script,      \* the commands of this behaviour
  started,     \* bound
  raced,       \* two commands were under way at once
  misnamed,    \* a name was resolved to a group that does not bear it
  confirmed,   \* the last number CHANGE wrote, by uid and setting
  ratios,      \* the last ratios CHANGE wrote, by uid
  torn,        \* uids whose ratios two operators changed at once
  minted,      \* credits that the site gave, less those it took
  purged       \* accounts that PURGE removed

dataVars == <<users, groups, credits, incr>>
cacheVars == <<gids, names, primary>>
histVars == <<confirmed, ratios, torn, minted, purged>>
vars == <<dataVars, cacheVars, dirty, job, script, started, raced, misnamed, histVars>>

NoJob == [op |-> "idle", at |-> "", uid |-> None, gid |-> None, acc |-> None, todo |-> <<>>, set |-> None, val |-> 0,
          flags |-> {}]
Users == {u \in Uids : users[u] # None}
Groups == {g \in Gids : groups[g] # None}
Member(a) == Range(a.sgids) \cup ({a.pgid} \ {-1})
Siteop(t) == t \notin Gadmins
Amount(c) == IF c = None THEN 0 ELSE c

NewUser == [flags |-> {}, pgid |-> -1, sgids |-> <<>>, gadmin |-> {}, ratio |-> 3, sratio |-> -1, allot |-> None,
            num |-> [s \in Settings |-> IF s \in {"max_up_speed", "max_down_speed"} THEN 0
                                        ELSE IF s = "num_logins" THEN 1 ELSE -1]]
RatiosOf(a) == [r \in RatioMap |-> a[r]]
NewGroup(n) == [name |-> n, limit |-> [l \in Limits |-> IF l \in {"slots", "max_allot_size"} THEN 0
                                        ELSE IF l = "max_logins" THEN -1 ELSE -2]]

\* CreateDefaults made the master and the template user and both groups; a
\* siteop has since added a group with one slot of each kind and its first user.
Init ==
  /\ script \in Scripts
  /\ users = [u \in Uids |-> CASE u = 0 -> [NewUser EXCEPT !.flags = {"siteop"}, !.pgid = 0]
                               [] u = DefaultUser -> [NewUser EXCEPT !.flags = {"template"}]
                               [] u = 2 -> [NewUser EXCEPT !.pgid = OwnGroup, !.gadmin = {OwnGroup}, !.flags = {"gadmin"}]
                               [] OTHER -> None]
  /\ groups = [g \in Gids |-> CASE g = 0 -> NewGroup("ebftpd") [] g = DefaultGroup -> NewGroup("default")
                                [] g = OwnGroup -> [NewGroup("own") EXCEPT !.limit =
                                     [l \in Limits |-> IF l = "slots" THEN 2 ELSE 1]]
                                [] OTHER -> None]
  /\ credits = [u \in Uids |-> IF u = 2 THEN 1 ELSE None] /\ incr = {}
  /\ names = [g \in Gids |-> IF groups[g] = None THEN None ELSE groups[g].name]
  /\ gids = [n \in GNames |-> IF \E g \in Groups : groups[g].name = n
                              THEN CHOOSE g \in Groups : groups[g].name = n ELSE -1]
  /\ primary = [u \in Uids |-> IF users[u] = None THEN -1 ELSE users[u].pgid]
  /\ dirty = {} /\ job = [t \in Operators |-> NoJob] /\ started = 0
  /\ raced = FALSE /\ misnamed = FALSE /\ minted = 0 /\ purged = {}
  /\ confirmed = [u \in Uids |-> NewUser.num]
  /\ ratios = [u \in Uids |-> RatiosOf(NewUser)] /\ torn = {}

\* What the parsers of the commands deliver: known settings, group names and
\* integers. The defaults have the names and ids that CreateDefaults gave them.
AccountAssumption ==
  /\ MaxUid \in Nat /\ MaxGid \in Nat /\ 2 \in Uids /\ 2 \in Gids
  /\ {"ebftpd", "default", "own"} \subseteq GNames /\ Lists \subseteq Seq(GNames)
  /\ Values \subseteq Int /\ Gadmins \subseteq Operators
  /\ (Settings \cup {None}) \cap ({"wkly_allotment"} \cup RatioMap \cup FlagSettings) = {}
  /\ None \notin User \cup Group \cup GNames \cup Settings \cup Int

-----------------------------------------------------------------------------
(* acl::User: changes of the copy *)

CleanGadminGIDs(a) == [a EXCEPT !.gadmin = @ \cap Member(a)]

WithGIDs(a, s) == [a EXCEPT !.pgid = IF s = <<>> THEN -1 ELSE Head(s),
                            !.sgids = IF s = <<>> THEN <<>> ELSE Tail(s)]
Without(s, S) ==
  LET kept[n \in 0 .. Len(s)] ==
        IF n = 0 THEN <<>> ELSE IF s[n] \in S THEN kept[n - 1] ELSE Append(kept[n - 1], s[n])
  IN kept[Len(s)]
AllGIDs(a) == (IF a.pgid = -1 THEN <<>> ELSE <<a.pgid>>) \o a.sgids

SetPrimaryGID(a, g) ==
  IF a.pgid = g THEN a ELSE [a EXCEPT !.pgid = g, !.sgids = RemoveFirst(AllGIDs(a), g)]

AddGID(a, g) ==
  IF a.pgid = -1 THEN [a EXCEPT !.pgid = g]
  ELSE IF g \in Member(a) THEN a ELSE [a EXCEPT !.sgids = Append(@, g)]

AddGIDs(a, s) ==
  LET added[n \in 0 .. Len(s)] == IF n = 0 THEN a ELSE AddGID(added[n - 1], s[n]) IN added[Len(s)]

\* Mutant: the first secondary group is not promoted.
DelGIDsKeepSecondary(a, s) ==
  CleanGadminGIDs([a EXCEPT !.pgid = IF @ \in Range(s) THEN -1 ELSE @, !.sgids = Without(@, Range(s))])

DelGIDs(a, s) ==
  LET kept == Without(a.sgids, Range(s)) IN
  CleanGadminGIDs(IF a.pgid \in Range(s) THEN WithGIDs(a, kept) ELSE [a EXCEPT !.sgids = kept])

SetGIDs(a, s) == CleanGadminGIDs(WithGIDs(a, s))

ToggleGIDs(a, s) ==
  CleanGadminGIDs(WithGIDs(a, Without(AllGIDs(a), Range(s)) \o Without(s, Range(AllGIDs(a)))))

DelFlags(a, F) == [a EXCEPT !.flags = @ \ F]
AddFlags(a, F) == [a EXCEPT !.flags = @ \cup F]

-----------------------------------------------------------------------------
(* acl::Group: what its queries count *)

NumSlotsUsed(g) ==
  Cardinality({u \in Users : users[u].pgid = g /\ "deleted" \notin users[u].flags})

NumMembers(g) == Cardinality({u \in Users : g \in Member(users[u])})

NumLeeches(g) == Cardinality({u \in Users : users[u].pgid = g /\ users[u].ratio = 0})

Allotted(g) == {u \in Users : users[u].pgid = g /\ users[u].allot # None}
NumAllotments(g) == Cardinality({u \in Allotted(g) : users[u].allot > 0})

\* The aggregation has no row, and the function returns -1, without an entry.
TotalAllotmentSize(g) ==
  IF Allotted(g) = {} THEN -1 ELSE SumFunctionOnSet([u \in Uids |-> users[u].allot], Allotted(g))

-----------------------------------------------------------------------------
(* Handlers: the load and its checks *)

Can(t, op) == op \in script.ops /\ job[t].op = "idle" /\ started < script.max

Start(t, j) ==
  /\ started' = started + 1 /\ job' = [job EXCEPT ![t] = j]
  /\ raced' = (raced \/ \E o \in Operators \ {t} : job[o].op # "idle")
  /\ UNCHANGED <<dataVars, cacheVars, dirty, script, histVars>>

\* NameToGID answers from the cache; -1 is not a group.
Resolves(n) == misnamed' = (misnamed \/ gids[n] \notin Groups \/ groups[gids[n]].name # n)

\* A gadmin needs a slot; -1 slots are never more than those in use.
SlotFree(g) == NumSlotsUsed(g) < groups[g].limit["slots"]

\* FromTemplate drops the template flag of the copy before it is inserted.
NewFrom(t, g, tu) ==
  Start(t, [NoJob EXCEPT !.op = "ADDUSER", !.at = "insert", !.gid = g, !.val = credits[tu],
                         !.acc = DelFlags(users[tu], {"template"})])

\* A gadmin adds to the group that has the cached name of its own.
AddUser(t, g) ==
  /\ Can(t, "ADDUSER") /\ DefaultUser \in Users
  /\ IF Siteop(t) THEN g = -1 ELSE g \in Groups /\ names[OwnGroup] = groups[g].name /\ SlotFree(g)
  /\ NewFrom(t, g, DefaultUser) /\ UNCHANGED misnamed

GAddUser(t, g) ==
  /\ Can(t, "ADDUSER") /\ DefaultUser \in Users /\ g \in Groups
  /\ ~Siteop(t) => gids[groups[g].name] = OwnGroup /\ SlotFree(g)
  /\ NewFrom(t, g, DefaultUser) /\ UNCHANGED misnamed

TAddUser(t, tu) ==
  /\ Can(t, "ADDUSER") /\ Siteop(t) /\ tu \in Users /\ "template" \in users[tu].flags
  /\ NewFrom(t, -1, tu) /\ UNCHANGED misnamed

\* The name of a user finds its document; a gadmin's rights are looked up in the cache.
\* The handler knows which gadmin rights it added.
Loaded(t, u, op, a) ==
  /\ u \in Users
  /\ Start(t, [NoJob EXCEPT !.op = op, !.at = "save", !.uid = u, !.acc = a, !.flags = a.gadmin \ users[u].gadmin])

DelUser(t, u) ==
  /\ Can(t, "DELUSER")
  /\ Siteop(t) \/ primary[u] = OwnGroup
  /\ u \in Users /\ u \notin {0, DefaultUser} /\ "deleted" \notin users[u].flags
  /\ Loaded(t, u, "DELUSER", AddFlags(users[u], {"deleted"})) /\ UNCHANGED misnamed

Readd(t, u) ==
  /\ Can(t, "READD")
  /\ u \in Users /\ "deleted" \in users[u].flags
  /\ ~Siteop(t) => primary[u] = OwnGroup /\ users[u].pgid \in Groups /\ SlotFree(users[u].pgid)
  /\ Loaded(t, u, "READD", DelFlags(users[u], {"deleted"})) /\ UNCHANGED misnamed

Purge(t, u) ==
  /\ Can(t, "PURGE")
  /\ Siteop(t) /\ u \in Users /\ "deleted" \in users[u].flags
  /\ Start(t, [NoJob EXCEPT !.op = "PURGE", !.at = "remove", !.uid = u]) /\ UNCHANGED misnamed

\* SITE CHGRP: every name is resolved before the copy changes.
ChGrp(t, u, how, ns) ==
  LET s == [i \in DOMAIN ns |-> gids[ns[i]]]  a == users[u] IN
  /\ Can(t, "CHGRP")
  /\ Siteop(t) /\ u \in Users /\ "default" \notin Range(ns) /\ -1 \notin Range(s)
  /\ Loaded(t, u, "CHGRP", CASE how = "-" -> DelGIDs(a, s) [] how = "=" -> SetGIDs(a, s)
                             [] how = "+" -> AddGIDs(a, s) [] OTHER -> ToggleGIDs(a, s))
  /\ misnamed' = (misnamed \/ \E n \in Range(ns) : gids[n] \notin Groups \/ groups[gids[n]].name # n)

SetPGrp(t, u, n) ==
  /\ Can(t, "SETPGRP")
  /\ Siteop(t) /\ u \in Users /\ n # "default" /\ gids[n] # -1 /\ users[u].pgid # gids[n]
  /\ Loaded(t, u, "SETPGRP", SetPrimaryGID(users[u], gids[n])) /\ Resolves(n)

\* AddGadminGID and DelGadminGID write the groups, then the flag.
ChGadmin(t, u, n) ==
  LET a == users[u]  g == gids[n] IN
  /\ Can(t, "CHGADMIN")
  /\ Siteop(t) /\ u \in Users /\ g # -1 /\ g \in Member(a)
  /\ Loaded(t, u, "CHGADMIN", IF g \in a.gadmin THEN [a EXCEPT !.gadmin = @ \ {g}]
                              ELSE [a EXCEPT !.gadmin = @ \cup {g}])
  /\ Resolves(n)

-----------------------------------------------------------------------------
(* SITE CHANGE *)

CheckIdleTime(v) == v >= -1
CheckNumLogins(v) == v >= -1
CheckMaxUpSpeed(v) == v >= 0    \* ParseSize takes no negative number
CheckMaxDownSpeed(v) == v >= 0
CheckMaxSimUp(v) == v >= -1
CheckMaxSimDown(v) == v >= -1
CheckSectionRatio(v) == v >= 0 /\ v <= MaximumRatio
CheckRatio(t, v) == v >= -1 /\ v <= MaximumRatio /\ (Siteop(t) \/ v <= 0)
CheckWeeklyAllotment(v) == v >= 0

CheckFlags(F) == F # {} /\ F \cap {"deleted", "gadmin"} = {}

CheckNumber(s, v) ==
  CASE s = "idle_time" -> CheckIdleTime(v) [] s = "num_logins" -> CheckNumLogins(v)
    [] s = "max_up_speed" -> CheckMaxUpSpeed(v) [] s = "max_down_speed" -> CheckMaxDownSpeed(v)
    [] s = "max_sim_up" -> CheckMaxSimUp(v) [] OTHER -> CheckMaxSimDown(v)

\* The setting is checked once; a ratio of -1 is that of the default user now.
Check(t, s, v, F) ==
  \/ /\ s = "ratio" /\ CheckRatio(t, v) /\ DefaultUser \in Users
  \/ s = "wkly_allotment" /\ CheckWeeklyAllotment(v)
  \/ Siteop(t) /\ s \in FlagSettings /\ CheckFlags(F)
  \/ Siteop(t) /\ s = "sratio" /\ CheckSectionRatio(v)
  \/ Siteop(t) /\ s \in Settings /\ CheckNumber(s, v)

Change(t, s, v, F, us) ==
  /\ Can(t, "CHANGE")
  /\ us # {} /\ us \subseteq Users /\ Check(t, s, v, F)
  /\ ~Siteop(t) => \A u \in us : primary[u] = OwnGroup
  /\ Start(t, [NoJob EXCEPT !.op = "CHANGE", !.at = "load", !.todo = SetToSortSeq(us, <), !.set = s, !.flags = F,
                            !.val = IF s = "ratio" /\ v = -1 THEN users[DefaultUser].ratio ELSE v])
  /\ UNCHANGED misnamed

\* What the function that Check returned finds wrong with a user.
Refuses(t, j, u) ==
  LET a == users[u]  g == a.pgid IN
  \/ j.set \in FlagSettings /\ "siteop" \in a.flags /\ t \notin Masters
  \/ ~Siteop(t) /\ j.set = "ratio" /\ j.val = 0
       /\ (g \notin Groups \/ NumLeeches(g) >= groups[g].limit["leech_slots"])
  \/ ~Siteop(t) /\ j.set = "wkly_allotment" /\ j.val > 0
       /\ LET own == Amount(a.allot) IN
          \/ g \notin Groups
          \/ own = 0 /\ NumAllotments(g) >= groups[g].limit["allot_slots"]
          \/ TotalAllotmentSize(g) - own + j.val > groups[g].limit["max_allot_size"]

Changed(j, a) ==
  CASE j.set = "ratio" -> [a EXCEPT !.ratio = j.val]
    [] j.set = "sratio" -> [a EXCEPT !.sratio = j.val]
    [] j.set = "wkly_allotment" -> [a EXCEPT !.allot = j.val]
    [] j.set = "flags+" -> AddFlags(a, j.flags)
    [] j.set = "flags-" -> DelFlags(a, j.flags)
    [] j.set = "flags=" -> [a EXCEPT !.flags = j.flags]
    [] OTHER -> [a EXCEPT !.num[j.set] = j.val]

\* Another operator has a copy of the user's ratios that it is about to write.
RatiosHeld(t, u) ==
  \E o \in Operators \ {t} : job[o].at = "save" /\ job[o].uid = u /\ job[o].set \in RatioMap

\* One round of the loop: a user that is gone is passed over, a refusal ends it.
ChangeLoad(t) ==
  LET j == job[t]  u == Head(j.todo) IN
  /\ j.at = "load"
  /\ job' = [job EXCEPT ![t] =
       IF j.todo = <<>> THEN NoJob
       ELSE IF u \notin Users THEN [j EXCEPT !.todo = Tail(@)]
       ELSE IF Refuses(t, j, u) THEN NoJob
       ELSE [j EXCEPT !.at = "save", !.uid = u, !.acc = Changed(j, users[u]), !.todo = Tail(@)]]
  /\ torn' = IF j.todo # <<>> /\ j.set \in RatioMap /\ RatiosHeld(t, u) THEN torn \cup {u} ELSE torn
  /\ UNCHANGED <<dataVars, cacheVars, dirty, script, started, raced, misnamed, confirmed, ratios,
                 minted, purged>>

-----------------------------------------------------------------------------
(* Handlers: the writes *)

\* The fields of a document that the handler's write sets.
Fields(j) ==
  CASE j.op \in {"CHGRP", "SETPGRP", "ADDUSER"} -> {"pgid", "sgids", "gadmin"}
    [] j.op = "CHGADMIN" -> IF j.at = "save" THEN {"gadmin"} ELSE {"flags"}
    [] j.op \in {"DELUSER", "READD"} \/ j.set \in FlagSettings -> {"flags"}
    [] j.set \in RatioMap -> RatioMap
    [] j.set = "wkly_allotment" -> {"allot"}
    [] OTHER -> {"num"}

\* Mutant: the whole copy is written back.
SetFieldsWhole(old, j) == j.acc

\* db::User::SaveField: fields of the copy replace those of the document.
SetFields(old, j) ==
  [f \in DOMAIN old |->
     IF f \notin Fields(j) THEN old[f]
     ELSE IF f = "num" THEN [old.num EXCEPT ![j.set] = j.acc.num[j.set]] ELSE j.acc[f]]

\* What the handler does after a write: the flag of a gadmin that got its first
\* right or lost its last, the template flag that the default user keeps, the next
\* user, nothing.
AfterSave(j) ==
  LET added == j.flags # {}
      due == IF added THEN "gadmin" \notin j.acc.flags ELSE j.acc.gadmin = {} IN
  IF j.op = "CHGADMIN" /\ j.at = "save" /\ due
  THEN [j EXCEPT !.at = "flag", !.acc.flags = IF added THEN @ \cup {"gadmin"} ELSE @ \ {"gadmin"}]
  ELSE IF j.set \in FlagSettings \ {"flags+"} /\ j.at = "save" /\ j.uid = DefaultUser
  THEN [j EXCEPT !.at = "flag", !.acc.flags = @ \cup {"template"}]
  ELSE IF j.op = "CHANGE" THEN [j EXCEPT !.at = "load", !.uid = None, !.acc = None]
  ELSE NoJob

\* A write to a document that is gone changes nothing; the log entry is made.
Save(t) ==
  LET j == job[t]  u == j.uid IN
  /\ j.at \in {"save", "flag"}
  /\ users' = [users EXCEPT ![u] = IF @ = None THEN None ELSE SetFields(@, j)]
  /\ confirmed' = IF j.set \in Settings /\ u \in Users THEN [confirmed EXCEPT ![u][j.set] = j.val] ELSE confirmed
  /\ ratios' = IF j.set \in RatioMap /\ u \in Users THEN [ratios EXCEPT ![u][j.set] = j.val] ELSE ratios
  /\ dirty' = dirty \cup {<<"users", u>>}
  /\ job' = [job EXCEPT ![t] = AfterSave(j)]
  /\ UNCHANGED <<groups, credits, incr, cacheVars, script, started, raced, misnamed, torn, minted, purged>>

\* FromTemplate and Create: the copy of the template becomes a new document;
\* SetPrimaryGID then writes the group of the command.
Insert(t) ==
  LET j == job[t]  u == Max(Users) + 1 IN
  /\ j.at = "insert" /\ u \in Uids
  /\ users' = [users EXCEPT ![u] = j.acc] /\ credits' = [credits EXCEPT ![u] = j.val]
  /\ confirmed' = [confirmed EXCEPT ![u] = j.acc.num]
  /\ ratios' = [ratios EXCEPT ![u] = RatiosOf(j.acc)]
  /\ dirty' = dirty \cup {<<"users", u>>}
  /\ job' = [job EXCEPT ![t] = IF j.gid = -1 \/ j.acc.pgid = j.gid THEN NoJob
                               ELSE [j EXCEPT !.at = "save", !.uid = u, !.acc = SetPrimaryGID(j.acc, j.gid)]]
  /\ minted' = minted + Amount(j.val)
  /\ UNCHANGED <<groups, incr, cacheVars, script, started, raced, misnamed, torn, purged>>

Erase(t) ==
  LET j == job[t] IN
  /\ j.at = "remove"
  /\ IF j.op = "PURGE"
     THEN /\ users' = [users EXCEPT ![j.uid] = None] /\ credits' = [credits EXCEPT ![j.uid] = None]
          /\ minted' = minted - Amount(credits[j.uid]) /\ purged' = purged \cup {j.uid}
          /\ dirty' = dirty \cup {<<"users", j.uid>>} /\ UNCHANGED groups
     ELSE /\ groups' = [groups EXCEPT ![j.gid] = None]
          /\ dirty' = dirty \cup {<<"groups", j.gid>>} /\ UNCHANGED <<users, credits, minted, purged>>
  /\ job' = [job EXCEPT ![t] = NoJob]
  /\ UNCHANGED <<incr, cacheVars, script, started, raced, misnamed, confirmed, ratios, torn>>

-----------------------------------------------------------------------------
(* Groups *)

NameTaken(n) == \E g \in Groups : groups[g].name = n

\* The default group is the template; the unique index refuses a name in use.
GrpAdd(t, n) ==
  /\ Can(t, "GRPADD")
  /\ Siteop(t) /\ DefaultGroup \in Groups
  /\ Start(t, [NoJob EXCEPT !.op = "GRPADD", !.at = "create", !.set = n, !.acc = groups[DefaultGroup]])
  /\ UNCHANGED misnamed

Create(t) ==
  LET j == job[t]  g == Max(Groups) + 1 IN
  /\ j.at = "create" /\ (NameTaken(j.set) \/ g \in Gids)
  /\ IF NameTaken(j.set) THEN UNCHANGED <<groups, dirty>>
     ELSE /\ groups' = [groups EXCEPT ![g] = [j.acc EXCEPT !.name = j.set]]
          /\ dirty' = dirty \cup {<<"groups", g>>}
  /\ job' = [job EXCEPT ![t] = NoJob]
  /\ UNCHANGED <<users, credits, incr, cacheVars, script, started, raced, misnamed, histVars>>

GrpDel(t, g) ==
  /\ Can(t, "GRPDEL")
  /\ Siteop(t) /\ g \in Groups /\ g \notin {0, DefaultGroup} /\ groups[g].name # "default"
  /\ NumMembers(g) = 0
  /\ Start(t, [NoJob EXCEPT !.op = "GRPDEL", !.at = "remove", !.gid = g]) /\ UNCHANGED misnamed

GrpRen(t, g, n) ==
  /\ Can(t, "GRPREN")
  /\ Siteop(t) /\ g \in Groups /\ groups[g].name # "default"
  /\ Start(t, [NoJob EXCEPT !.op = "GRPREN", !.at = "group", !.gid = g, !.set = n]) /\ UNCHANGED misnamed

CheckLimit(l, v) == v >= (CASE l = "max_allot_size" -> 0 [] l \in {"leech_slots", "allot_slots"} -> -2 [] OTHER -> -1)

GrpChange(t, g, l, v) ==
  /\ Can(t, "GRPCHANGE")
  /\ Siteop(t) /\ g \in Groups /\ CheckLimit(l, v)
  /\ Start(t, [NoJob EXCEPT !.op = "GRPCHANGE", !.at = "group", !.gid = g, !.set = l, !.val = v])
  /\ UNCHANGED misnamed

\* db::Group::SaveField and SaveName.
SaveGroup(t) ==
  LET j == job[t]  g == j.gid IN
  /\ j.at = "group"
  /\ groups' = IF g \notin Groups \/ (j.op = "GRPREN" /\ NameTaken(j.set)) THEN groups
               ELSE IF j.op = "GRPREN" THEN [groups EXCEPT ![g].name = j.set]
               ELSE [groups EXCEPT ![g].limit[j.set] = j.val]
  /\ dirty' = IF j.op = "GRPREN" /\ g \in Groups /\ NameTaken(j.set) THEN dirty ELSE dirty \cup {<<"groups", g>>}
  /\ job' = [job EXCEPT ![t] = NoJob]
  /\ UNCHANGED <<users, credits, incr, cacheVars, script, started, raced, misnamed, histVars>>

\* GroupCache::Replicate and the primary groups of UserCache: the name that a
\* renamed group had keeps its entry, also when the group is purged.
ReplicateGroup(g) ==
  /\ <<"groups", g>> \in dirty /\ dirty' = dirty \ {<<"groups", g>>}
  /\ gids' = IF g \in Groups THEN [gids EXCEPT ![groups[g].name] = g]
             ELSE IF names[g] = None THEN gids ELSE [gids EXCEPT ![names[g]] = -1]
  /\ names' = [names EXCEPT ![g] = IF g \in Groups THEN groups[g].name ELSE None]
  /\ UNCHANGED <<dataVars, primary, job, script, started, raced, misnamed, histVars>>

ReplicateUser(u) ==
  /\ <<"users", u>> \in dirty /\ dirty' = dirty \ {<<"users", u>>}
  /\ primary' = [primary EXCEPT ![u] = IF u \in Users THEN users[u].pgid ELSE -1]
  /\ UNCHANGED <<dataVars, gids, names, job, script, started, raced, misnamed, histVars>>

-----------------------------------------------------------------------------
(* Credits *)

\* The statement that $inc changes the element, guarded unless it is forced.
HasElement(u) == u \in Users /\ credits[u] # None

\* DecrCredits, then IncrCredits in a thread of its own.
Give(t, u, k) ==
  /\ Can(t, "GIVE")
  /\ u \in Users /\ k >= 0
  /\ IF Siteop(t) THEN minted' = minted + k /\ UNCHANGED credits
     ELSE /\ users[2] # None /\ users[2].ratio # 0
          /\ k = 0 \/ (HasElement(2) /\ credits[2] >= k)
          /\ credits' = IF k = 0 THEN credits ELSE [credits EXCEPT ![2] = @ - k]
          /\ UNCHANGED minted
  /\ incr' = incr \cup {[id |-> started, uid |-> u, k |-> k, at |-> "update"]}
  /\ started' = started + 1
  /\ UNCHANGED <<users, groups, cacheVars, dirty, job, script, raced, misnamed, confirmed,
                 ratios, torn, purged>>

\* Forced: it may go below zero, and does nothing without an element.
Take(t, u, k) ==
  /\ Can(t, "TAKE")
  /\ Siteop(t) /\ u \in Users /\ k >= 0
  /\ IF k # 0 /\ HasElement(u) THEN credits' = [credits EXCEPT ![u] = @ - k] /\ minted' = minted - k
     ELSE UNCHANGED <<credits, minted>>
  /\ started' = started + 1
  /\ UNCHANGED <<users, groups, incr, cacheVars, dirty, job, script, raced, misnamed, confirmed,
                 ratios, torn, purged>>

NextAttempt(at) == CASE at = "update" -> "insert" [] at = "insert" -> "again" [] OTHER -> "lost"

\* doIncrement: update the element, else insert it, else update it after all.
IncrCredits(i) ==
  LET hit == i.uid \in Users /\ ((i.at = "insert") = (credits[i.uid] = None)) IN
  /\ i \in incr /\ i.at # "lost"
  /\ credits' = IF ~hit THEN credits
                ELSE [credits EXCEPT ![i.uid] = IF @ = None THEN i.k ELSE @ + i.k]
  /\ incr' = (incr \ {i}) \cup IF hit THEN {} ELSE {[i EXCEPT !.at = NextAttempt(@)]}
  /\ UNCHANGED <<users, groups, cacheVars, dirty, job, script, started, raced, misnamed, histVars>>

-----------------------------------------------------------------------------
Next ==
  \/ \E t \in Operators :
       \/ \E g \in Gids \cup {-1} : AddUser(t, g)
       \/ \E g \in Gids : GAddUser(t, g)
       \/ \E u \in Uids :
            \/ TAddUser(t, u) \/ DelUser(t, u) \/ Readd(t, u) \/ Purge(t, u)
            \/ \E how \in {"-", "=", "+", "toggle"}, ns \in Lists : ChGrp(t, u, how, ns)
            \/ \E n \in GNames : SetPGrp(t, u, n) \/ ChGadmin(t, u, n)
            \/ \E k \in Values : Give(t, u, k) \/ Take(t, u, k)
       \/ \E us \in Targets :
            \/ \E s \in {"wkly_allotment"} \cup RatioMap \cup Settings, v \in Values : Change(t, s, v, {}, us)
            \/ \E s \in FlagSettings, F \in SUBSET {"template", "exempt", "deleted"} : Change(t, s, 0, F, us)
       \/ \E g \in Gids : GrpDel(t, g)
            \/ (\E n \in GNames : GrpRen(t, g, n)) \/ (\E l \in Limits, v \in Values : GrpChange(t, g, l, v))
       \/ \E n \in GNames : GrpAdd(t, n)
       \/ ChangeLoad(t) \/ Save(t) \/ Insert(t) \/ Erase(t) \/ Create(t) \/ SaveGroup(t)
  \/ \E g \in Gids : ReplicateGroup(g)
  \/ \E u \in Uids : ReplicateUser(u)
  \/ \E i \in incr : IncrCredits(i)

Spec == Init /\ [][Next]_vars

-----------------------------------------------------------------------------
(* Properties *)

\* Every account, group and purse keeps its type: no command writes a gid, a flag or a
\* limit that the others could not read.
TypeOK ==
  /\ users \in [Uids -> User \cup {None}] /\ groups \in [Gids -> Group \cup {None}]
  /\ credits \in [Uids -> Int \cup {None}] /\ raced \in BOOLEAN /\ misnamed \in BOOLEAN

\* acl::User keeps a primary group as long as there is any group, and gadmin
\* rights only for groups the user is in, whatever sequence of CHGRP, SETPGRP,
\* CHGADMIN and ADDUSER; a stale copy can bring back rights only if two
\* commands overlapped.
GroupsConsistent ==
  \A u \in Users : /\ users[u].pgid = -1 => users[u].sgids = <<>>
                   /\ raced \/ users[u].gadmin \subseteq Member(users[u])

\* GRPDEL leaves no user in a group that is gone, unless commands overlapped
\* or the cache resolved a name to a group that no longer bore it.
NoGroupDangles ==
  raced \/ misnamed \/ \A u \in Users : Member(users[u]) \subseteq Groups

\* Commands that overlap may undo each other's change of a list, never a
\* number that CHANGE confirmed: each write sets only its own fields. The
\* ratios are one field, though, the map that SetSectionRatio saves whole
\* (acl/user.cpp:621-626): a CHANGE of the ratio or of a section's ratio undoes
\* one that another operator confirmed since it loaded the user, or what an
\* account has that took the uid of a purged one since; nothing else does.
NumbersNotLost ==
  /\ \A u \in Users : users[u].num = confirmed[u]
  /\ \A u \in Users \ (torn \cup purged) : RatiosOf(users[u]) = ratios[u]

\* A deleted user comes back by READD, or by a CHANGE that sets the flags
\* as a whole, or by a write of stale flags; by nothing else.
StayDeleted ==
  \A u \in Users :
    (users'[u] # None /\ "deleted" \in users[u].flags /\ "deleted" \notin users'[u].flags)
      => raced \/ \E t \in Operators : job[t].op = "READD" \/ job[t].set = "flags="

\* A gadmin's ADDUSER, READD and CHANGE leave its group within its slots,
\* leech slots and allotments, as long as no command overlaps; the first
\* allotment of a group may exceed the maximum by one, because the sum over
\* no entries is -1, and a new account takes a slot of its template's group
\* until its own is written.
WithinLimits ==
  (\A t \in Gadmins, g \in Groups :
       (job[t].op # "idle" /\ job'[t] # job[t] /\ ~raced' /\ groups'[g] = groups[g]) =>
         LET lim == groups[g].limit IN
         /\ NumSlotsUsed(g)' > NumSlotsUsed(g) /\ (job[t].at = "insert" => job[t].gid = g) =>
              NumSlotsUsed(g)' <= lim["slots"]
         /\ NumLeeches(g)' > NumLeeches(g) /\ job[t].op = "CHANGE" => NumLeeches(g)' <= lim["leech_slots"]
         /\ TotalAllotmentSize(g)' > TotalAllotmentSize(g) /\ job[t].set = "wkly_allotment" =>
              TotalAllotmentSize(g)' <= lim["max_allot_size"] + IF Allotted(g) = {} THEN 1 ELSE 0)

\* No credit is made or lost by GIVE and TAKE, however the asynchronous
\* increments of a user without credits interleave; an increment misses its
\* account for good only if the account was purged.
CreditsConserved ==
  /\ SumFunctionOnSet([u \in Uids |-> Amount(credits[u])], Uids)
       + SumFunctionOnSet([i \in incr |-> i.k], incr) = 1 + minted
  /\ \A i \in incr : i.at = "lost" => i.uid \in purged

\* Membership is sound: types, primary groups and gadmin rights fit the groups a
\* user is in, and nobody is in a group that is gone.
GroupsSound == TypeOK /\ GroupsConsistent /\ NoGroupDangles

\* What a command confirmed is not lost to one that overlaps: the numbers of
\* CHANGE and the credits of GIVE and TAKE.
ChangesKept == NumbersNotLost /\ CreditsConserved
=============================================================================
