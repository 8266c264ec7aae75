------------------------------- MODULE Nuking -------------------------------
(***************************************************************************)
(* SITE NUKE and SITE UNNUKE (cmd/site/nuking.cpp), the collections nukes  *)
(* and unnukes (db/nuking) and the nuke tool (tools/nuke), which runs the  *)
(* same functions in a process of its own.                                 *)
(*                                                                         *)
(* A nuke takes credits and statistics from the owners of the files, adds  *)
(* a record and deletes or renames the directory; an unnuke looks up the   *)
(* record and undoes it. Every call of the database or of the file system  *)
(* that another thread can see is a step. A directory is flat: files of    *)
(* FileKBytes each, counted by owner; it is found under its name or under  *)
(* the name that nuke_style gives it.                                      *)
(***************************************************************************)
EXTENDS Integers, FiniteSets, FiniteSetsExt, Functions

CONSTANTS
  Nukers,        \* threads (and nuke tools) that nuke and unnuke
  Releases,      \* virtual paths of directories
  Owners,        \* uids of uploaders
  Ratio,         \* stats::UploadRatio of each, 0 is leech
  Multis,        \* arguments of NUKE: records [value, percent]
  MaxMulti,      \* nuke_max
  Style,         \* nuke_style: "Keep", "KeepDir" or "DeleteAll"
  EmptyKBytes, EmptyPenalty, FileKBytes, \* nuke_style, size of a file
  Nil,           \* no directory, no attribute, no element
  Uploads,       \* what a release can hold at the start
  MaxNukes, MaxOthers \* bounds: commands of the nukers, other commands

Sides == {"plain", "nuked"}

VARIABLES
  dir,        \* directory of each release under either name, with its nuke id attribute
  nukes, unnukes, \* the collections
  oid,        \* last object id that was generated
  purse,      \* credits element of each uploader, Nil without one
  upload,     \* statistics of each uploader: kbytes and files
  known,      \* uploaders whose account still exists
  nuker,      \* the command of each thread
  down,       \* the process aborted
  count, others, \* bounds
  tangled,    \* history: releases with overlapping commands or a second nuke
  stuck,      \* history: releases whose rename failed
  before      \* history: purse and statistics at the start and uploads since

vars == <<dir, nukes, unnukes, oid, purse, upload, known, nuker, down, count, others, tangled, stuck, before>>

\* A release has a path, a uid and a size are natural numbers, credits are numbers.
NukeAssumption ==
  /\ Nil \notin Releases /\ Nil \notin Int
  /\ Nil \notin [files : [Owners -> Nat], owner : Owners, id : Nat \cup {Nil}]
  /\ IsFiniteSet(Nukers) /\ IsFiniteSet(Releases)
  /\ IsFiniteSet(Owners) /\ Owners \in SUBSET Nat /\ Owners # {}
  /\ Ratio \in [Owners -> Int] /\ EmptyPenalty \in Int /\ FileKBytes \in Nat
  /\ Uploads \in SUBSET [Owners -> Nat] /\ Multis \in SUBSET [value : Int, percent : BOOLEAN]

Resting == [op |-> "idle", at |-> "", path |-> Nil, multi |-> Nil, nukees |-> <<>>, todo |-> {}, rec |-> Nil]
NoFiles == [u \in Owners |-> 0]
NewDir(f) == [files |-> f, owner |-> Min(Owners), id |-> Nil]

Init ==
  /\ \E f \in [Releases -> Uploads] :
       dir = [p \in Releases |-> [s \in Sides |-> IF s = "plain" THEN NewDir(f[p]) ELSE Nil]]
  /\ nukes = {} /\ unnukes = {} /\ oid = 0
  /\ purse \in {[u \in Owners |-> 3], [u \in Owners |-> IF u = Min(Owners) THEN 3 ELSE Nil]}
  /\ upload = [u \in Owners |-> [kb |-> 10, files |-> 10]]
  /\ known = Owners /\ nuker = [t \in Nukers |-> Resting] /\ down = FALSE /\ count = 0 /\ others = 0
  /\ tangled = {} /\ stuck = {} /\ before = [purse |-> purse, upload |-> upload]

Exists(p, s) == dir[p][s] # Nil
Empty(p, s) == SumFunction(dir[p][s].files) = 0
\* The directories after a change of one of them.
Changed(p, s, d) == [dir EXCEPT ![p] = [dir[p] EXCEPT ![s] = d]]
Put(t, v) == nuker' = [nuker EXCEPT ![t] = v]
Keep(t, at, rec) == Put(t, [[nuker[t] EXCEPT !.at = at] EXCEPT !.rec = rec])
Go(t, at) == Put(t, [nuker[t] EXCEPT !.at = at])
At(t, op, at) == ~down /\ nuker[t].op = op /\ nuker[t].at = at

\* Starts a command on p: it tangles with another that is under way there, and
\* a nuke tangles with the record of an earlier one.
Begin(t, p, op) ==
  /\ ~down /\ nuker[t].op = "idle" /\ count < MaxNukes /\ count' = count + 1
  /\ tangled' = IF \/ \E r \in Nukers : nuker[r].path = p
                   \/ op = "NUKE" /\ \E n \in nukes : n.path = p
                THEN tangled \cup {p} ELSE tangled

-----------------------------------------------------------------------------
(* NUKE *)

IsOkay(m) == m.value >= 0 /\ m.value <= IF m.percent THEN MaxMulti.percent ELSE MaxMulti.multiplier

CalculateNukees(p) ==
  LET f == dir[p]["plain"].files IN
  [u \in {o \in Owners : f[o] > 0} |-> [kb |-> f[u] * FileKBytes, files |-> f[u], credits |-> 0]]

TotalKBytes(ns) == SumFunction([u \in DOMAIN ns |-> ns[u].kb])

\* Whom TakeCredits visits: nobody for a multiplier of 0, the owner of an empty
\* directory, otherwise the owners of files.
Penalised(p, m, ns) ==
  IF m.value = 0 THEN {}
  ELSE IF DOMAIN ns = {} /\ 0 < EmptyKBytes THEN {dir[p]["plain"].owner} ELSE DOMAIN ns

Nuke(t, p, m) ==
  /\ Begin(t, p, "NUKE") /\ Exists(p, "plain")
  /\ LET ns == CalculateNukees(p)
         pen == Penalised(p, m, ns)
         all == [u \in DOMAIN ns \cup pen |-> IF u \in DOMAIN ns THEN ns[u] ELSE [kb |-> 0, files |-> 0, credits |-> 0]]
     IN  Put(t, [op |-> "NUKE", at |-> "credits", path |-> p, multi |-> m, nukees |-> all, todo |-> pen, rec |-> Nil])
  /\ UNCHANGED <<dir, nukes, unnukes, oid, purse, upload, known, down, others, stuck, before>>

\* NUKECommand::Execute checks the multiplier before the work.
NUKECommand(t) == \E p \in Releases, m \in Multis : IsOkay(m) /\ Nuke(t, p, m)

\* ParseOptions refuses a negative multiplier and sets isPercent from an option
\* that it never declares: the percent sign of the argument is lost.
ParseOptions(m) == [m EXCEPT !.percent = FALSE]
ToolNuke(t) == \E p \in Releases, m \in Multis : m.value >= 0 /\ Nuke(t, p, ParseOptions(m))

TakeCreditsEmpty(u, n) == EmptyPenalty

TakeCreditsNotEmpty(u, n, m) ==
  IF m.percent THEN Max({0, ((IF purse[u] = Nil THEN 0 ELSE purse[u]) * m.value) \div 100})
  ELSE IF Ratio[u] = 0 THEN 0 ELSE n.kb * Ratio[u] + n.kb * (m.value - 1)

\* The forced decrement does nothing to an account without the element.
DecrSectionCreditsForce(u, n) == IF purse[u] = Nil THEN purse ELSE [purse EXCEPT ![u] = @ - n]

\* One turn of the loop. Without an account the penalty is recorded and not
\* taken; TakeCreditsNotEmpty then reads through an empty optional and aborts.
TakeCredits(t) ==
  LET j == nuker[t]
      u == Min(j.todo)
      empty == TotalKBytes(j.nukees) < EmptyKBytes
      c == IF empty THEN TakeCreditsEmpty(u, j.nukees[u]) ELSE TakeCreditsNotEmpty(u, j.nukees[u], j.multi)
  IN
  /\ At(t, "NUKE", "credits") /\ j.todo # {}
  /\ IF u \notin known /\ ~empty
     THEN down' = TRUE /\ UNCHANGED <<purse, nuker>>
     ELSE /\ purse' = IF u \in known THEN DecrSectionCreditsForce(u, c) ELSE purse
          /\ Put(t, [[j EXCEPT !.todo = j.todo \ {u}]
                      EXCEPT !.nukees = [j.nukees EXCEPT ![u] = [j.nukees[u] EXCEPT !.credits = c]]])
          /\ UNCHANGED down
  /\ UNCHANGED <<dir, nukes, unnukes, oid, upload, known, count, others, tangled, stuck, before>>

TakeStats(t) ==
  /\ At(t, "NUKE", "credits") /\ nuker[t].todo = {} /\ Go(t, "forget")
  /\ upload' = [u \in Owners |->
       IF u \in DOMAIN nuker[t].nukees /\ nuker[t].nukees[u].kb > 0
       THEN [kb |-> upload[u].kb - nuker[t].nukees[u].kb, files |-> upload[u].files - nuker[t].nukees[u].files]
       ELSE upload[u]]
  /\ UNCHANGED <<dir, nukes, unnukes, oid, purse, known, down, count, others, tangled, stuck, before>>

ByID(coll, id) == {n \in coll : n.id = id /\ id # Nil}
ByPath(coll, p) == {n \in coll : n.path = p}
GetNukeID(p, s) == IF Exists(p, s) THEN dir[p][s].id ELSE Nil
\* By the attribute, else by the path.
Lookup(coll, id, p) == IF ByID(coll, id) # {} THEN ByID(coll, id) ELSE ByPath(coll, p)
DelPath(coll, p) == {n \in coll : n.path # p}

\* Mutant: the record of the unnuke is left.
ForgetNothing(coll, id, p) == coll

ForgetUnnuke(coll, id, p) ==
  LET found == Lookup(coll, id, p) IN
  IF found = {} THEN coll ELSE DelPath(coll, (CHOOSE n \in found : TRUE).path)

NukeForget(t) ==
  /\ At(t, "NUKE", "forget") /\ Go(t, "add")
  /\ unnukes' = ForgetUnnuke(unnukes, GetNukeID(nuker[t].path, "plain"), nuker[t].path)
  /\ UNCHANGED <<dir, nukes, oid, purse, upload, known, down, count, others, tangled, stuck, before>>

AddNuke(t) ==
  /\ At(t, "NUKE", "add") /\ oid' = oid + 1
  /\ LET rec == [id |-> oid + 1, path |-> nuker[t].path, nukees |-> nuker[t].nukees] IN
     /\ nukes' = nukes \cup {rec}
     /\ Keep(t, "contents", rec)
  /\ UNCHANGED <<dir, unnukes, purse, upload, known, down, count, others, tangled, stuck, before>>

DeleteContents(t) ==
  /\ At(t, "NUKE", "contents") /\ Go(t, "dir")
  /\ dir' = IF Style = "Keep" \/ ~Exists(nuker[t].path, "plain") THEN dir
            ELSE Changed(nuker[t].path, "plain", [dir[nuker[t].path]["plain"] EXCEPT !.files = NoFiles])
  /\ UNCHANGED <<nukes, unnukes, oid, purse, upload, known, down, count, others, tangled, stuck, before>>

\* rename(2) of directories: the target may be missing or empty.
CanRename(p, from, to) == Exists(p, from) /\ (Exists(p, to) => Empty(p, to))

\* Mutant: the target is overwritten.
RenameOver(p, from, to) ==
  IF Exists(p, from) THEN [dir EXCEPT ![p] = [s \in Sides |-> IF s = to THEN dir[p][from] ELSE Nil]] ELSE dir
RenameDirectory(p, from, to) ==
  IF CanRename(p, from, to)
  THEN [dir EXCEPT ![p] = [s \in Sides |-> IF s = to THEN dir[p][from] ELSE Nil]] ELSE dir

SetNukeID(p, s, id) == IF Exists(p, s) THEN Changed(p, s, [dir[p][s] EXCEPT !.id = id]) ELSE dir

\* Delete or Rename: the attribute is then written to the name the directory has.
ActionTheDirectory(t) ==
  LET p == nuker[t].path
      fails == ~CanRename(p, "plain", "nuked")
  IN
  /\ At(t, "NUKE", "dir")
  /\ IF Style = "DeleteAll"
     THEN /\ dir' = IF Exists(p, "plain") /\ Empty(p, "plain") THEN Changed(p, "plain", Nil) ELSE dir
          /\ Put(t, Resting) /\ UNCHANGED stuck
     ELSE /\ dir' = RenameDirectory(p, "plain", "nuked")
          /\ Go(t, IF fails THEN "idPlain" ELSE "idNuked")
          /\ stuck' = IF fails THEN stuck \cup {p} ELSE stuck
  /\ UNCHANGED <<nukes, unnukes, oid, purse, upload, known, down, count, others, tangled, before>>

NukeID(t) ==
  /\ ~down /\ nuker[t].op = "NUKE" /\ nuker[t].at \in {"idPlain", "idNuked"}
  /\ dir' = SetNukeID(nuker[t].path, IF nuker[t].at = "idPlain" THEN "plain" ELSE "nuked", nuker[t].rec.id)
  /\ Put(t, Resting)
  /\ UNCHANGED <<nukes, unnukes, oid, purse, upload, known, down, count, others, tangled, stuck, before>>

-----------------------------------------------------------------------------
(* UNNUKE *)

\* LookupNuke throws when there is no record: the command then does nothing.
Unnuke(t, p) ==
  /\ Begin(t, p, "UNNUKE")
  /\ \E n \in Lookup(nukes, GetNukeID(p, "nuked"), p) :
       Put(t, [op |-> "UNNUKE", at |-> "credits", path |-> p, multi |-> Nil, nukees |-> <<>>,
               todo |-> DOMAIN n.nukees, rec |-> n])
  /\ UNCHANGED <<dir, nukes, unnukes, oid, purse, upload, known, down, others, stuck, before>>

\* The increment creates a missing element.
IncrSectionCredits(u, n) == [purse EXCEPT ![u] = IF @ = Nil THEN n ELSE @ + n]

RestoreCredits(t) ==
  LET u == Min(nuker[t].todo) IN
  /\ At(t, "UNNUKE", "credits") /\ nuker[t].todo # {}
  /\ purse' = IF u \in known THEN IncrSectionCredits(u, nuker[t].rec.nukees[u].credits) ELSE purse
  /\ Put(t, [nuker[t] EXCEPT !.todo = nuker[t].todo \ {u}])
  /\ UNCHANGED <<dir, nukes, unnukes, oid, upload, known, down, count, others, tangled, stuck, before>>

Files(rec) == SumFunction([u \in DOMAIN rec.nukees |-> rec.nukees[u].files])

\* Every nukee is given the number of files of the whole nuke.
Restored(rec, u) ==
  IF u \in DOMAIN rec.nukees /\ (rec.nukees[u].kb > 0 \/ rec.nukees[u].files > 0)
  THEN [kb |-> rec.nukees[u].kb, files |-> Files(rec)] ELSE [kb |-> 0, files |-> 0]

RestoreStats(t) ==
  /\ At(t, "UNNUKE", "credits") /\ nuker[t].todo = {} /\ Go(t, "rename")
  /\ upload' = [u \in Owners |-> [kb |-> upload[u].kb + Restored(nuker[t].rec, u).kb,
                                  files |-> upload[u].files + Restored(nuker[t].rec, u).files]]
  /\ UNCHANGED <<dir, nukes, unnukes, oid, purse, known, down, count, others, tangled, stuck, before>>

UnnukeRename(t) ==
  LET p == nuker[t].path
      bare == [dir[p]["nuked"] EXCEPT !.id = Nil]
  IN
  /\ At(t, "UNNUKE", "rename") /\ Go(t, "del")
  /\ dir' = IF CanRename(p, "nuked", "plain")
            THEN [dir EXCEPT ![p] = [s \in Sides |-> IF s = "plain" THEN bare ELSE Nil]]
            ELSE SetNukeID(p, "nuked", Nil)
  /\ stuck' = IF Exists(p, "nuked") /\ ~CanRename(p, "nuked", "plain") THEN stuck \cup {p} ELSE stuck
  /\ UNCHANGED <<nukes, unnukes, oid, purse, upload, known, down, count, others, tangled, before>>

DelNuke(coll, rec) == DelPath(coll, rec.path)

UnnukeDel(t) ==
  /\ At(t, "UNNUKE", "del") /\ Go(t, "add") /\ nukes' = DelNuke(nukes, nuker[t].rec)
  /\ UNCHANGED <<dir, unnukes, oid, purse, upload, known, down, count, others, tangled, stuck, before>>

AddUnnuke(t) ==
  /\ At(t, "UNNUKE", "add") /\ oid' = oid + 1
  /\ LET rec == [nuker[t].rec EXCEPT !.id = oid + 1] IN
     unnukes' = unnukes \cup {rec} /\ Keep(t, "id", rec)
  /\ UNCHANGED <<dir, nukes, purse, upload, known, down, count, others, tangled, stuck, before>>

UnnukeID(t) ==
  /\ At(t, "UNNUKE", "id") /\ Put(t, Resting)
  /\ dir' = SetNukeID(nuker[t].path, "plain", nuker[t].rec.id)
  /\ UNCHANGED <<nukes, unnukes, oid, purse, upload, known, down, count, others, tangled, stuck, before>>

-----------------------------------------------------------------------------
(* What other commands do meanwhile *)

Other == ~down /\ others < MaxOthers /\ others' = others + 1

\* MKD of the release under its plain name.
Mkd(p) ==
  /\ Other /\ ~Exists(p, "plain")
  /\ dir' = Changed(p, "plain", NewDir(NoFiles))
  /\ UNCHANGED <<nukes, unnukes, oid, purse, upload, known, nuker, down, count, tangled, stuck, before>>

\* An upload by u ends: the file is there and counted.
Counted(up, u) == [up EXCEPT ![u] = [kb |-> up[u].kb + FileKBytes, files |-> up[u].files + 1]]
Stored(p, u) ==
  /\ Other /\ Exists(p, "plain") /\ u \in known
  /\ dir' = Changed(p, "plain",
       [dir[p]["plain"] EXCEPT !.files = [dir[p]["plain"].files EXCEPT ![u] = @ + 1]])
  /\ upload' = Counted(upload, u)
  /\ before' = [before EXCEPT !.upload = Counted(before.upload, u)]
  /\ UNCHANGED <<nukes, unnukes, oid, purse, known, nuker, down, count, tangled, stuck>>

\* SITE PURGE removes the account with its credits.
PurgeOwner(u) ==
  /\ Other /\ known = Owners /\ u # Min(Owners) /\ known' = known \ {u}
  /\ UNCHANGED <<dir, nukes, unnukes, oid, purse, upload, nuker, down, count, tangled, stuck, before>>

Next ==
  \/ \E t \in Nukers :
       \/ NUKECommand(t) \/ ToolNuke(t) \/ TakeCredits(t) \/ TakeStats(t) \/ NukeForget(t) \/ AddNuke(t)
       \/ DeleteContents(t) \/ ActionTheDirectory(t) \/ NukeID(t)
       \/ \E p \in Releases : Unnuke(t, p)
       \/ RestoreCredits(t) \/ RestoreStats(t) \/ UnnukeRename(t) \/ UnnukeDel(t) \/ AddUnnuke(t) \/ UnnukeID(t)
  \/ \E p \in Releases : Mkd(p) \/ \E u \in Owners : Stored(p, u)
  \/ \E u \in Owners : PurgeOwner(u)

Spec == Init /\ [][Next]_vars

-----------------------------------------------------------------------------
Rests(p) == \A t \in Nukers : nuker[t].path # p
Calm == tangled = {} /\ \A t \in Nukers : nuker[t] = Resting
\* What the nukes have on record as taken from u: k is "credits", "kb" or "files".
Part(ns, u, k) == IF u \in DOMAIN ns THEN ns[u][k] ELSE 0
Recorded(u, k) == SumFunction([n \in nukes |-> Part(n.nukees, u, k)])

AllFiles ==
  SumFunction([ps \in Releases \X Sides |-> IF Exists(ps[1], ps[2]) THEN SumFunction(dir[ps[1]][ps[2]].files) ELSE 0])

\* Between commands, what an uploader has and what the records of the nukes
\* say was taken add up to what the uploader had: no nuke is charged without
\* a record, no unnuke returns more or less than its nuke took. An account that
\* was purged, or had no credits element when the nuke came, is not covered.
CreditsReturn ==
  Calm => \A u \in known : before.purse[u] # Nil => purse[u] + Recorded(u, "credits") = before.purse[u]

\* The same for the kbytes of the statistics. The number of files is never
\* less than that (RestoreStats gives every nukee the files of all of them).
StatsReturn ==
  Calm => \A u \in Owners : /\ upload[u].kb + Recorded(u, "kb") = before.upload[u].kb
                            /\ upload[u].files + Recorded(u, "files") >= before.upload[u].files

\* The record that an unnuke needs is there: a directory that still has the
\* name of a nuke has a record, unless an unnuke could not rename it.
NukedIsOnRecord ==
  \A p \in Releases : Rests(p) /\ Exists(p, "nuked") /\ p \notin tangled \cup stuck => ByPath(nukes, p) # {}

\* A release is nuked or unnuked, never both, once the commands on it ended.
NukedOrUnnuked ==
  \A p \in Releases : Rests(p) /\ p \notin tangled => ByPath(nukes, p) = {} \/ ByPath(unnukes, p) = {}

\* With nuke_style keep, no step of a nuke or unnuke loses a file, whatever
\* overlaps and whichever rename fails.
LoseNothing == Style = "Keep" => AllFiles' >= AllFiles

\* An unnuke can undo every nuke: credits and statistics return, and the
\* records agree with the directories.
NukesReturn == CreditsReturn /\ StatsReturn /\ NukedIsOnRecord /\ NukedOrUnnuked
=============================================================================
