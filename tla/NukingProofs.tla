---------------------------- MODULE NukingProofs ----------------------------
(***************************************************************************)
(* Proofs about Nuking, for any number of nukers, releases and uploaders   *)
(* and every nuke_style.                                                   *)
(***************************************************************************)
EXTENDS Nuking, FiniteSums

-----------------------------------------------------------------------------
(* Records and directories *)

DirShape(d) == d = [files |-> d.files, owner |-> d.owner, id |-> d.id]
RecordShape(n) == n = [id |-> n.id, path |-> n.path, nukees |-> n.nukees]

\* An id that a directory or a command has is that of no other release's record, now or
\* later.
IdOf(id, p) == id \in Nat /\ id <= oid /\ \A n \in nukes \cup unnukes : n.id = id => n.path = p

\* A command of a thread; from the insertion or lookup on it has a record of its release.
HasRecord(j) == j.op = "UNNUKE" \/ j.at \in {"contents", "dir", "idPlain", "idNuked"}
JobShape(j) ==
  /\ j = [op |-> j.op, at |-> j.at, path |-> j.path, multi |-> j.multi, nukees |-> j.nukees,
          todo |-> j.todo, rec |-> j.rec]
  /\ \/ j.op = "idle" /\ j.path = Nil
     \/ /\ j.op = "NUKE" /\ j.path \in Releases
        /\ j.at \in {"credits", "forget", "add", "contents", "dir", "idPlain", "idNuked"}
     \/ /\ j.op = "UNNUKE" /\ j.path \in Releases
        /\ j.at \in {"credits", "rename", "del", "add", "id"}
  /\ HasRecord(j) /\ j.op # "idle" => RecordShape(j.rec) /\ j.rec.path = j.path /\ IdOf(j.rec.id, j.path)

RecordTypes ==
  /\ oid \in Nat /\ \A n \in nukes \cup unnukes : RecordShape(n) /\ n.id \in Nat /\ n.id <= oid
  /\ \A m, n \in nukes \cup unnukes : m.id = n.id => m.path = n.path
JobTypes == nuker = [t \in Nukers |-> nuker[t]] /\ \A t \in Nukers : JobShape(nuker[t])
SideShape(d, p) == d # Nil => DirShape(d) /\ (d.id = Nil \/ IdOf(d.id, p))
DirTypes ==
  /\ dir = [p \in Releases |-> dir[p]]
  /\ \A p \in Releases : /\ dir[p] = [s \in Sides |-> dir[p][s]]
                         /\ \A s \in Sides : SideShape(dir[p][s], p)
NukeTypes == RecordTypes /\ JobTypes /\ DirTypes

\* What the collections and the disk hold of a release while a command is at work on it.
Phase(j) ==
  LET p == j.path IN
  /\ j.op = "NUKE" =>
       /\ j.at \in {"credits", "forget", "add"} =>
            ByPath(nukes, p) = {} /\ (p \notin stuck => dir[p]["nuked"] = Nil)
       /\ j.at = "add" => ByPath(unnukes, p) = {}
       /\ j.at \in {"contents", "dir", "idPlain", "idNuked"} =>
            ByPath(nukes, p) # {} /\ ByPath(unnukes, p) = {}
  /\ j.op = "UNNUKE" =>
       /\ j.at \in {"credits", "rename", "del"} =>
            ByPath(nukes, p) # {} /\ ByPath(unnukes, p) = {}
       /\ j.at \in {"del", "add", "id"} => (p \notin stuck => dir[p]["nuked"] = Nil)
       /\ j.at \in {"add", "id"} => ByPath(nukes, p) = {}

\* One command at a time on a release whose commands never overlapped, and what it left.
ReleaseInv(p) ==
  p \notin tangled =>
    /\ \A t, r \in Nukers : nuker[t].path = p /\ nuker[r].path = p => t = r
    /\ \A t \in Nukers : nuker[t].path = p => Phase(nuker[t])
    /\ Rests(p) =>
         /\ p \notin stuck /\ dir[p]["nuked"] # Nil => ByPath(nukes, p) # {}
         /\ ByPath(nukes, p) = {} \/ ByPath(unnukes, p) = {}

NukeInv == NukeTypes /\ \A p \in Releases : ReleaseInv(p)

\* A step of any thread deletes records and adds at most one, with a new id.
NewIds ==
  /\ oid' \in Nat /\ oid' >= oid
  /\ \A n \in nukes' \cup unnukes' :
       n \in nukes \cup unnukes \/ (RecordShape(n) /\ n.id = oid + 1 /\ n.id <= oid')
  /\ \A m, n \in nukes' \cup unnukes' : m.id = oid + 1 /\ n.id = oid + 1 => m = n

\* Records keep their shape while only new ones are added.
LEMMA RecordTypesKept ==
  ASSUME RecordTypes, NewIds
  PROVE  RecordTypes'
  BY DEF RecordTypes, NewIds, RecordShape

\* The id of a release stays one while only new records are added.
LEMMA IdKept ==
  ASSUME RecordTypes, NewIds, NEW id, NEW p, IdOf(id, p)
  PROVE  IdOf(id, p)'
  BY DEF RecordTypes, NewIds, IdOf

\* What a thread knows keeps its shape.
LEMMA JobKept ==
  ASSUME RecordTypes, NewIds, NEW j, JobShape(j)
  PROVE  (JobShape(j))'
PROOF
  <1>1. IdOf(j.rec.id, j.path) => IdOf(j.rec.id, j.path)'
    BY IdKept
  <1> QED BY <1>1 DEF JobShape, HasRecord, RecordShape

\* A thread that moves on touches no other thread's job.
LEMMA JobTypesKept ==
  ASSUME RecordTypes, NewIds, JobTypes, NEW t \in Nukers, NEW v, (JobShape(v))', Put(t, v)
  PROVE  JobTypes' /\ nuker'[t] = v /\ \A r \in Nukers \ {t} : nuker'[r] = nuker[r]
PROOF
  <1>1. nuker' = [r \in Nukers |-> IF r = t THEN v ELSE nuker[r]]
    BY DEF Put, JobTypes
  <1>2. \A r \in Nukers : (JobShape(nuker[r]))' \/ r = t
    <2> SUFFICES ASSUME NEW r \in Nukers, r # t PROVE (JobShape(nuker[r]))'
      OBVIOUS
    <2>1. JobShape(nuker[r])
      BY DEF JobTypes
    <2> DEFINE j == nuker[r]
    <2>2. nuker'[r] = j
      BY <1>1
    <2> HIDE DEF j
    <2> QED BY <2>1, <2>2, JobKept DEF j
  <1>3. nuker' = [r \in Nukers |-> nuker'[r]] /\ nuker'[t] = v
    BY <1>1
  <1>4. \A r \in Nukers : JobShape(nuker[r])'
    BY <1>2, <1>3
  <1>5. \A r \in Nukers \ {t} : nuker'[r] = nuker[r]
    BY <1>1
  <1> QED BY <1>3, <1>4, <1>5 DEF JobTypes

\* A directory on disk keeps its shape.
LEMMA SideKept ==
  ASSUME RecordTypes, NewIds, NEW d, NEW p, SideShape(d, p)
  PROVE  (SideShape(d, p))'
PROOF
  <1>1. IdOf(d.id, p) => IdOf(d.id, p)'
    BY IdKept
  <1> QED BY <1>1 DEF SideShape, DirShape

\* The directory of one release changes.
LEMMA DirTypesKept ==
  ASSUME RecordTypes, NewIds, DirTypes, NEW p \in Releases, NEW f, dir' = [dir EXCEPT ![p] = f],
         f = [s \in Sides |-> f[s]], \A s \in Sides : (SideShape(f[s], p))'
  PROVE  DirTypes' /\ dir'[p] = f /\ \A q \in Releases \ {p} : dir'[q] = dir[q]
PROOF
  <1>1. dir' = [q \in Releases |-> IF q = p THEN f ELSE dir[q]]
    BY DEF DirTypes
  <1>2. \A q \in Releases : dir'[q] = IF q = p THEN f ELSE dir[q]
    BY <1>1
  <1>3. \A q \in Releases : dir'[q] = [s \in Sides |-> dir'[q][s]]
    BY <1>2 DEF DirTypes
  <1>4. ASSUME NEW q \in Releases, NEW s \in Sides PROVE SideShape(dir[q][s], q)'
    <2>1. CASE q = p
      BY <1>2, <2>1
    <2>2. CASE q # p
      <3>1. SideShape(dir[q][s], q)
        BY DEF DirTypes
      <3>2. PICK d : d = dir[q][s]
        OBVIOUS
      <3>3. (SideShape(d, q))'
        BY <3>1, <3>2, SideKept
      <3>4. dir'[q][s] = d
        BY <1>2, <2>2, <3>2
      <3> QED BY <3>3, <3>4
    <2> QED BY <2>1, <2>2
  <1>5. dir' = [q \in Releases |-> dir'[q]]
    BY <1>1
  <1> QED BY <1>2, <1>3, <1>4, <1>5 DEF DirTypes

\* So do all of them when none changes.
LEMMA DirTypesSame ==
  ASSUME RecordTypes, NewIds, DirTypes, dir' = dir
  PROVE  DirTypes'
PROOF
  <1>1. ASSUME NEW q \in Releases, NEW s \in Sides PROVE SideShape(dir[q][s], q)'
    <2>1. SideShape(dir[q][s], q)
      BY DEF DirTypes
    <2>2. PICK d : d = dir[q][s]
      OBVIOUS
    <2>3. (SideShape(d, q))'
      BY <2>1, <2>2, SideKept
    <2> QED BY <2>2, <2>3
  <1> QED BY <1>1 DEF DirTypes

\* What another release's command does not touch.
Untouched(q) ==
  /\ ByPath(nukes', q) = ByPath(nukes, q) /\ ByPath(unnukes', q) = ByPath(unnukes, q)
  /\ dir'[q]["nuked"] = dir[q]["nuked"]

\* A release that nobody touched keeps its invariant.
LEMMA ReleaseKept ==
  ASSUME NEW q \in Releases, ReleaseInv(q), Untouched(q), tangled \subseteq tangled', stuck \subseteq stuck',
         \A t \in Nukers : nuker[t].path = q \/ nuker'[t].path = q => nuker'[t] = nuker[t]
  PROVE  ReleaseInv(q)'
PROOF
  <1> SUFFICES ASSUME q \notin tangled' PROVE ReleaseInv(q)'
    BY DEF ReleaseInv
  <1>1. q \notin tangled
    OBVIOUS
  <1>2. \A t, r \in Nukers : nuker'[t].path = q /\ nuker'[r].path = q => t = r
    BY <1>1 DEF ReleaseInv
  <1>3. ASSUME NEW t \in Nukers, nuker'[t].path = q PROVE Phase(nuker[t])'
    <2>1. nuker'[t] = nuker[t] /\ Phase(nuker[t]) /\ nuker[t].path = q
      BY <1>1, <1>3 DEF ReleaseInv
    <2> QED BY <1>3, <2>1 DEF Phase, Untouched
  <1>4. ASSUME Rests(q)' PROVE Rests(q)
    BY <1>4 DEF Rests
  <1>5. ASSUME Rests(q)'
        PROVE  /\ q \notin stuck' /\ dir'[q]["nuked"] # Nil => ByPath(nukes', q) # {}
               /\ ByPath(nukes', q) = {} \/ ByPath(unnukes', q) = {}
    BY <1>1, <1>4, <1>5 DEF ReleaseInv, Untouched
  <1> QED BY <1>2, <1>3, <1>5 DEF ReleaseInv

\* The release on which the thread is at work.
Rested(p) ==
  /\ p \notin stuck /\ dir[p]["nuked"] # Nil => ByPath(nukes, p) # {}
  /\ ByPath(nukes, p) = {} \/ ByPath(unnukes, p) = {}

\* A thread at work on a release passes from one phase of its records to the next.
LEMMA ReleaseStep ==
  ASSUME NEW t \in Nukers, NEW p \in Releases, ReleaseInv(p), nuker[t].path = p, tangled' = tangled,
         \A r \in Nukers \ {t} : nuker'[r] = nuker[r],
         \/ nuker'[t].path = p /\ (p \notin tangled => Phase(nuker[t])')
         \/ nuker'[t].path # p /\ (p \notin tangled => Rested(p)')
  PROVE  ReleaseInv(p)'
PROOF
  <1> SUFFICES ASSUME p \notin tangled' PROVE ReleaseInv(p)'
    BY DEF ReleaseInv
  <1>1. \A r \in Nukers : nuker[r].path = p => r = t
    BY DEF ReleaseInv
  <1>2. \A r \in Nukers : nuker'[r].path = p => r = t
    BY <1>1
  <1>3. \A r \in Nukers : nuker'[r].path = p => Phase(nuker[r])'
    BY <1>2
  <1>4. Rests(p)' => nuker'[t].path # p
    BY DEF Rests
  <1>5. Rests(p)' => Rested(p)'
    BY <1>4
  <1> QED BY <1>2, <1>3, <1>5 DEF ReleaseInv, Rested

\* A step of a command: its release keeps the invariant and the others are not touched.
LEMMA CommandStep ==
  ASSUME NukeInv, Nil \notin Releases, NEW t \in Nukers, NEW p \in Releases, nuker[t].path = p,
         NukeTypes', tangled' = tangled, stuck \subseteq stuck',
         \A r \in Nukers \ {t} : nuker'[r] = nuker[r], nuker'[t].path \in {p, Nil},
         \A q \in Releases \ {p} : Untouched(q),
         \/ nuker'[t].path = p /\ (p \notin tangled => Phase(nuker[t])')
         \/ nuker'[t].path # p /\ (p \notin tangled => Rested(p)')
  PROVE  NukeInv'
PROOF
  <1>1. ReleaseInv(p)'
    BY ReleaseStep DEF NukeInv
  <1>2. ASSUME NEW q \in Releases, q # p PROVE ReleaseInv(q)'
    <2>1. \A r \in Nukers : nuker[r].path = q \/ nuker'[r].path = q => nuker'[r] = nuker[r]
      BY <1>2
    <2> QED BY <1>2, <2>1, ReleaseKept DEF NukeInv
  <1> QED BY <1>1, <1>2 DEF NukeInv

\* Removing records adds none.
LEMMA FewerRecords ==
  ASSUME RecordTypes, nukes' \subseteq nukes, unnukes' \subseteq unnukes, oid' = oid
  PROVE  NewIds
  BY DEF RecordTypes, NewIds

\* A thread that is at work on a release, and the rest of what it knows.
LEMMA AtWork ==
  ASSUME NukeInv, NEW t \in Nukers, nuker[t].op # "idle"
  PROVE  /\ nuker[t].path \in Releases /\ JobShape(nuker[t])
         /\ nuker[t].path \notin tangled => Phase(nuker[t])
         /\ RecordTypes /\ JobTypes /\ DirTypes
  BY DEF NukeInv, NukeTypes, JobTypes, JobShape, ReleaseInv

\* The next step of a command; only AddNuke and the lookup give it a record.
LEMMA MovedOn ==
  ASSUME NukeInv, NewIds, NEW t \in Nukers, nuker[t].op # "idle", NEW at, Go(t, at),
         \/ /\ nuker[t].op = "NUKE" /\ at \in {"credits", "forget", "add"}
            /\ nuker[t].at \in {"credits", "forget", "add"}
         \/ /\ nuker[t].op = "NUKE" /\ at \in {"contents", "dir", "idPlain", "idNuked"}
            /\ nuker[t].at \in {"contents", "dir", "idPlain", "idNuked"}
         \/ nuker[t].op = "UNNUKE" /\ at \in {"credits", "rename", "del", "add", "id"}
  PROVE  /\ JobTypes' /\ \A r \in Nukers \ {t} : nuker'[r] = nuker[r]
         /\ nuker'[t].op = nuker[t].op /\ nuker'[t].at = at /\ nuker'[t].path = nuker[t].path
         /\ nuker'[t].rec = nuker[t].rec
PROOF
  <1>1. PICK j : j = nuker[t]
    OBVIOUS
  <1>2. PICK v : v = [j EXCEPT !.at = at]
    OBVIOUS
  <1>3. Put(t, v)
    BY <1>1, <1>2 DEF Go
  <1>4. JobShape(j) /\ RecordTypes /\ JobTypes
    BY <1>1, AtWork
  <1>5. (JobShape(j))'
    BY <1>4, JobKept
  <1>6. j = [op |-> j.op, at |-> j.at, path |-> j.path, multi |-> j.multi, nukees |-> j.nukees,
             todo |-> j.todo, rec |-> j.rec]
    BY <1>4 DEF JobShape
  <1>7. v = [op |-> j.op, at |-> at, path |-> j.path, multi |-> j.multi, nukees |-> j.nukees,
             todo |-> j.todo, rec |-> j.rec]
    BY <1>2, <1>6
  <1>8. (JobShape(v))'
    BY <1>1, <1>5, <1>7 DEF JobShape, HasRecord, RecordShape
  <1> QED BY <1>1, <1>3, <1>4, <1>7, <1>8, JobTypesKept

\* A thread that is done rests and no other has moved.
LEMMA Retired ==
  ASSUME NukeInv, NewIds, NEW t \in Nukers, Put(t, Resting)
  PROVE  /\ JobTypes' /\ \A r \in Nukers \ {t} : nuker'[r] = nuker[r]
         /\ nuker'[t].path = Nil
PROOF
  <1>1. (JobShape(Resting))' /\ Resting.path = Nil
    BY DEF JobShape, HasRecord, Resting
  <1>2. RecordTypes /\ JobTypes
    BY DEF NukeInv, NukeTypes
  <1>3. PICK v : v = Resting
    OBVIOUS
  <1>4. (JobShape(v))' /\ Put(t, v) /\ v.path = Nil
    BY <1>1, <1>3
  <1> QED BY <1>2, <1>4, JobTypesKept

\* The steps for credits and statistics: nothing of the records or the disk changes.
LEMMA QuietStep ==
  ASSUME NukeInv, Nil \notin Releases, NEW t \in Nukers, nuker[t].op # "idle",
         UNCHANGED <<dir, nukes, unnukes, oid, tangled, stuck>>, JobTypes',
         \A r \in Nukers \ {t} : nuker'[r] = nuker[r],
         nuker'[t].op = nuker[t].op, nuker'[t].path = nuker[t].path,
         \/ nuker'[t].at = nuker[t].at
         \/ nuker[t].at = "credits" /\ nuker'[t].at = IF nuker[t].op = "NUKE" THEN "forget" ELSE "rename"
  PROVE  NukeInv'
PROOF
  <1>1. PICK p \in Releases : p = nuker[t].path
    BY AtWork
  <1>2. RecordTypes /\ NewIds /\ DirTypes
    BY AtWork, FewerRecords
  <1>3. NukeTypes'
    BY <1>2, RecordTypesKept, DirTypesSame DEF NukeTypes
  <1>4. \A q \in Releases : Untouched(q)
    BY DEF Untouched
  <1>5. p \notin tangled => Phase(nuker[t])'
    <2> SUFFICES ASSUME p \notin tangled PROVE Phase(nuker[t])'
      OBVIOUS
    <2>1. Phase(nuker[t])
      BY <1>1, AtWork
    <2> QED BY <1>1, <2>1 DEF Phase, ByPath
  <1> QED BY <1>1, <1>3, <1>4, <1>5, CommandStep

\* Taking the credits of a nukee keeps the invariant.
LEMMA TakeCreditsKeeps ==
  ASSUME NukeInv, Nil \notin Releases, NEW t \in Nukers, TakeCredits(t)
  PROVE  NukeInv'
PROOF
  <1>0. UNCHANGED <<dir, nukes, unnukes, oid, tangled, stuck>> /\ nuker[t].op = "NUKE"
    BY DEF TakeCredits, At
  <1>1. CASE UNCHANGED nuker
    <2>1. RecordTypes /\ NewIds /\ DirTypes /\ JobTypes
      BY <1>0, AtWork, FewerRecords
    <2>2. JobTypes'
      BY <1>0, <1>1, <2>1 DEF JobTypes, JobShape, HasRecord, IdOf, RecordShape
    <2> QED BY <1>0, <1>1, <2>2, QuietStep
  <1>2. CASE ~(UNCHANGED nuker)
    <2>1. PICK u, n : Put(t, [[nuker[t] EXCEPT !.todo = nuker[t].todo \ {u}] EXCEPT !.nukees = n])
      BY <1>2 DEF TakeCredits
    <2>2. PICK j : j = nuker[t]
      OBVIOUS
    <2>3. PICK v : v = [[j EXCEPT !.todo = j.todo \ {u}] EXCEPT !.nukees = n]
      OBVIOUS
    <2>4. RecordTypes /\ NewIds /\ JobTypes /\ JobShape(j)
      BY <1>0, <2>2, AtWork, FewerRecords
    <2>5. j = [op |-> j.op, at |-> j.at, path |-> j.path, multi |-> j.multi, nukees |-> j.nukees,
               todo |-> j.todo, rec |-> j.rec]
      BY <2>4 DEF JobShape
    <2>6. v = [op |-> j.op, at |-> j.at, path |-> j.path, multi |-> j.multi, nukees |-> n,
               todo |-> j.todo \ {u}, rec |-> j.rec]
      <3>1. [j EXCEPT !.todo = j.todo \ {u}] =
              [op |-> j.op, at |-> j.at, path |-> j.path, multi |-> j.multi, nukees |-> j.nukees,
               todo |-> j.todo \ {u}, rec |-> j.rec]
        BY <2>5
      <3>2. PICK w : w = [j EXCEPT !.todo = j.todo \ {u}]
        OBVIOUS
      <3>3. v = [w EXCEPT !.nukees = n]
        BY <2>3, <3>2
      <3> QED BY <3>1, <3>2, <3>3
    <2>7. (JobShape(j))'
      BY <2>4, JobKept
    <2>8. (JobShape(v))'
      BY <2>6, <2>7 DEF JobShape, HasRecord
    <2>9. Put(t, v)
      BY <2>1, <2>2, <2>3
    <2>10. JobTypes' /\ nuker'[t] = v /\ \A r \in Nukers \ {t} : nuker'[r] = nuker[r]
      BY <2>4, <2>8, <2>9, JobTypesKept
    <2> QED BY <1>0, <2>2, <2>6, <2>10, QuietStep
  <1> QED BY <1>1, <1>2

\* So does giving them back.
LEMMA RestoreCreditsKeeps ==
  ASSUME NukeInv, Nil \notin Releases, NEW t \in Nukers, RestoreCredits(t)
  PROVE  NukeInv'
PROOF
  <1>0. UNCHANGED <<dir, nukes, unnukes, oid, tangled, stuck>> /\ nuker[t].op = "UNNUKE"
    BY DEF RestoreCredits, At
  <1>1. PICK u : Put(t, [nuker[t] EXCEPT !.todo = nuker[t].todo \ {u}])
    BY DEF RestoreCredits
  <1>2. PICK j : j = nuker[t]
    OBVIOUS
  <1>3. PICK v : v = [j EXCEPT !.todo = j.todo \ {u}]
    OBVIOUS
  <1>4. RecordTypes /\ NewIds /\ JobTypes /\ JobShape(j)
    BY <1>0, <1>2, AtWork, FewerRecords
  <1>5. j = [op |-> j.op, at |-> j.at, path |-> j.path, multi |-> j.multi, nukees |-> j.nukees,
             todo |-> j.todo, rec |-> j.rec]
    BY <1>4 DEF JobShape
  <1>6. v = [op |-> j.op, at |-> j.at, path |-> j.path, multi |-> j.multi, nukees |-> j.nukees,
             todo |-> j.todo \ {u}, rec |-> j.rec]
    BY <1>3, <1>5
  <1>7. (JobShape(j))'
    BY <1>4, JobKept
  <1>8. (JobShape(v))'
    BY <1>6, <1>7 DEF JobShape, HasRecord
  <1>9. Put(t, v)
    BY <1>1, <1>2, <1>3
  <1>10. JobTypes' /\ nuker'[t] = v /\ \A r \in Nukers \ {t} : nuker'[r] = nuker[r]
    BY <1>4, <1>8, <1>9, JobTypesKept
  <1> QED BY <1>0, <1>2, <1>6, <1>10, QuietStep

\* So do the steps on the statistics.
LEMMA StatsKeep ==
  ASSUME NukeInv, Nil \notin Releases, NEW t \in Nukers, TakeStats(t) \/ RestoreStats(t)
  PROVE  NukeInv'
PROOF
  <1>0. /\ UNCHANGED <<dir, nukes, unnukes, oid, tangled, stuck>> /\ nuker[t].at = "credits"
        /\ \/ nuker[t].op = "NUKE" /\ Go(t, "forget")
           \/ nuker[t].op = "UNNUKE" /\ Go(t, "rename")
    BY DEF TakeStats, RestoreStats, At
  <1>1. NewIds
    BY <1>0, AtWork, FewerRecords
  <1> QED BY <1>0, <1>1, MovedOn, QuietStep

\* A record found by the attribute of a directory, or else by its path, is of that release.
LEMMA FoundRecord ==
  ASSUME NukeInv, NEW p \in Releases, NEW s \in Sides, NEW coll \in SUBSET (nukes \cup unnukes),
         NEW n \in Lookup(coll, GetNukeID(p, s), p)
  PROVE  n \in coll /\ n.path = p
PROOF
  <1>1. GetNukeID(p, s) = Nil \/ IdOf(GetNukeID(p, s), p)
    BY DEF GetNukeID, Exists, NukeInv, NukeTypes, DirTypes, SideShape
  <1>2. PICK id : id = GetNukeID(p, s)
    OBVIOUS
  <1>3. n \in ByID(coll, id) \/ n \in ByPath(coll, p)
    BY <1>2 DEF Lookup
  <1>4. CASE n \in ByID(coll, id)
    BY <1>1, <1>2, <1>4 DEF ByID, IdOf
  <1>5. CASE n \in ByPath(coll, p)
    BY <1>5 DEF ByPath
  <1> QED BY <1>3, <1>4, <1>5

\* So does NUKE's removal of an old unnuke.
LEMMA NukeForgetKeeps ==
  ASSUME NukeInv, Nil \notin Releases, NEW t \in Nukers, NukeForget(t)
  PROVE  NukeInv'
PROOF
  <1>0. /\ UNCHANGED <<dir, nukes, oid, tangled, stuck>> /\ nuker[t].op = "NUKE" /\ nuker[t].at = "forget"
        /\ Go(t, "add")
    BY DEF NukeForget, At
  <1>1. PICK p \in Releases : p = nuker[t].path
    BY <1>0, AtWork
  <1>2. PICK id : id = GetNukeID(p, "plain")
    OBVIOUS
  <1>3. unnukes' = ForgetUnnuke(unnukes, id, p)
    BY <1>1, <1>2 DEF NukeForget
  <1> DEFINE found == Lookup(unnukes, id, p)
  <1>4. \A n \in found : n.path = p
    BY <1>2, FoundRecord DEF Sides
  <1>7. unnukes' \subseteq unnukes /\ ByPath(unnukes', p) = {}
        /\ \A q \in Releases \ {p} : ByPath(unnukes', q) = ByPath(unnukes, q)
    <2>1. CASE unnukes' = unnukes /\ ByPath(unnukes, p) = {}
      BY <2>1
    <2>2. CASE unnukes' = DelPath(unnukes, p)
      BY <2>2 DEF DelPath, ByPath
    <2>3. found = {} => unnukes' = unnukes /\ ByPath(unnukes, p) = {}
      BY <1>3 DEF ForgetUnnuke, Lookup
    <2>4. found # {} => unnukes' = DelPath(unnukes, p)
      <3> SUFFICES ASSUME found # {} PROVE unnukes' = DelPath(unnukes, p)
        OBVIOUS
      <3>1. (CHOOSE n \in found : TRUE) \in found
        OBVIOUS
      <3>2. unnukes' = DelPath(unnukes, (CHOOSE n \in found : TRUE).path)
        BY <1>3 DEF ForgetUnnuke
      <3> QED BY <1>4, <3>1, <3>2
    <2> QED BY <2>1, <2>2, <2>3, <2>4
  <1>8. RecordTypes /\ NewIds /\ DirTypes
    BY <1>0, <1>7, AtWork, FewerRecords
  <1>9. /\ JobTypes' /\ \A r \in Nukers \ {t} : nuker'[r] = nuker[r]
        /\ nuker'[t].op = "NUKE" /\ nuker'[t].at = "add" /\ nuker'[t].path = p
    BY <1>0, <1>1, <1>8, MovedOn
  <1>10. NukeTypes'
    BY <1>0, <1>8, <1>9, RecordTypesKept, DirTypesSame DEF NukeTypes
  <1>11. \A q \in Releases \ {p} : Untouched(q)
    BY <1>0, <1>7 DEF Untouched
  <1>12. p \notin tangled => Phase(nuker[t])'
    <2> SUFFICES ASSUME p \notin tangled PROVE Phase(nuker[t])'
      OBVIOUS
    <2>1. Phase(nuker[t])
      BY <1>0, <1>1, AtWork
    <2> QED BY <1>0, <1>1, <1>7, <1>9, <2>1 DEF Phase
  <1> QED BY <1>0, <1>1, <1>9, <1>10, <1>11, <1>12, CommandStep

\* A thread that wrote a record goes on with it.
LEMMA KeptRecord ==
  ASSUME NukeInv, NewIds, NEW t \in Nukers, nuker[t].op # "idle", NEW at, NEW rec, Keep(t, at, rec),
         RecordShape(rec), rec.path = nuker[t].path, IdOf(rec.id, rec.path)',
         (nuker[t].op = "NUKE" /\ at = "contents") \/ (nuker[t].op = "UNNUKE" /\ at = "id")
  PROVE  /\ JobTypes' /\ \A r \in Nukers \ {t} : nuker'[r] = nuker[r]
         /\ nuker'[t].op = nuker[t].op /\ nuker'[t].at = at /\ nuker'[t].path = nuker[t].path
PROOF
  <1>1. PICK j : j = nuker[t]
    OBVIOUS
  <1>2. PICK w : w = [j EXCEPT !.at = at]
    OBVIOUS
  <1>3. PICK v : v = [w EXCEPT !.rec = rec]
    OBVIOUS
  <1>4. Put(t, v)
    BY <1>1, <1>2, <1>3 DEF Keep
  <1>5. JobShape(j) /\ RecordTypes /\ JobTypes
    BY <1>1, AtWork
  <1>6. j = [op |-> j.op, at |-> j.at, path |-> j.path, multi |-> j.multi, nukees |-> j.nukees,
             todo |-> j.todo, rec |-> j.rec]
    BY <1>5 DEF JobShape
  <1>7. w = [op |-> j.op, at |-> at, path |-> j.path, multi |-> j.multi, nukees |-> j.nukees,
             todo |-> j.todo, rec |-> j.rec]
    BY <1>2, <1>6
  <1>8. v = [op |-> j.op, at |-> at, path |-> j.path, multi |-> j.multi, nukees |-> j.nukees,
             todo |-> j.todo, rec |-> rec]
    BY <1>3, <1>7
  <1>9. (JobShape(v))'
    <2>1. v.rec = rec /\ v.path = j.path /\ v.op = j.op /\ v.at = at
      BY <1>8
    <2>2. j.path \in Releases
      BY <1>1, AtWork
    <2> QED BY <1>1, <1>8, <2>1, <2>2 DEF JobShape, HasRecord, RecordShape
  <1> QED BY <1>1, <1>4, <1>5, <1>8, <1>9, JobTypesKept

\* Adding the record of a nuke keeps the invariant.
LEMMA AddNukeKeeps ==
  ASSUME NukeInv, Nil \notin Releases, NEW t \in Nukers, AddNuke(t)
  PROVE  NukeInv'
PROOF
  <1>0. /\ UNCHANGED <<dir, unnukes, tangled, stuck>> /\ nuker[t].op = "NUKE" /\ nuker[t].at = "add"
        /\ oid' = oid + 1
    BY DEF AddNuke, At
  <1>1. PICK p \in Releases : p = nuker[t].path
    BY <1>0, AtWork
  <1>2. PICK rec : rec = [id |-> oid + 1, path |-> nuker[t].path, nukees |-> nuker[t].nukees]
    OBVIOUS
  <1>3. nukes' = nukes \cup {rec} /\ Keep(t, "contents", rec)
    BY <1>2 DEF AddNuke
  <1>4. RecordShape(rec) /\ rec.id = oid + 1 /\ rec.path = p
    BY <1>1, <1>2 DEF RecordShape
  <1>5. RecordTypes /\ DirTypes
    BY <1>0, AtWork
  <1>6. NewIds
    BY <1>0, <1>3, <1>4, <1>5 DEF NewIds, RecordTypes
  <1>7. IdOf(rec.id, rec.path)'
    BY <1>0, <1>3, <1>4, <1>5 DEF IdOf, RecordTypes
  <1>8. /\ JobTypes' /\ \A r \in Nukers \ {t} : nuker'[r] = nuker[r]
        /\ nuker'[t].op = "NUKE" /\ nuker'[t].at = "contents" /\ nuker'[t].path = p
    BY <1>0, <1>1, <1>3, <1>4, <1>6, <1>7, KeptRecord
  <1>9. NukeTypes'
    BY <1>0, <1>5, <1>6, <1>8, RecordTypesKept, DirTypesSame DEF NukeTypes
  <1>10. \A q \in Releases \ {p} : Untouched(q)
    BY <1>0, <1>3, <1>4 DEF Untouched, ByPath
  <1>11. p \notin tangled => Phase(nuker[t])'
    <2> SUFFICES ASSUME p \notin tangled PROVE Phase(nuker[t])'
      OBVIOUS
    <2>1. Phase(nuker[t])
      BY <1>0, <1>1, AtWork
    <2>2. ByPath(nukes', p) # {}
      BY <1>3, <1>4 DEF ByPath
    <2> QED BY <1>0, <1>1, <1>8, <2>1, <2>2 DEF Phase
  <1> QED BY <1>0, <1>1, <1>8, <1>9, <1>10, <1>11, CommandStep

\* One directory of a release changes.
LEMMA SideChanged ==
  ASSUME RecordTypes, NewIds, DirTypes, NEW p \in Releases, NEW s \in Sides, NEW d,
         dir' = Changed(p, s, d), (SideShape(d, p))'
  PROVE  /\ DirTypes' /\ \A q \in Releases \ {p} : dir'[q] = dir[q]
         /\ dir'[p][s] = d /\ \A o \in Sides \ {s} : dir'[p][o] = dir[p][o]
PROOF
  <1>1. dir[p] = [o \in Sides |-> dir[p][o]]
    BY DEF DirTypes
  <1>2. PICK g : g = dir[p]
    OBVIOUS
  <1>3. PICK f : f = [o \in Sides |-> IF o = s THEN d ELSE g[o]]
    OBVIOUS
  <1>4. dir' = [dir EXCEPT ![p] = f]
    BY <1>1, <1>2, <1>3 DEF Changed
  <1>5. f = [o \in Sides |-> f[o]]
    BY <1>3
  <1>6. ASSUME NEW o \in Sides PROVE (SideShape(f[o], p))'
    <2>1. CASE o = s
      BY <1>3, <2>1
    <2>2. CASE o # s
      <3>1. SideShape(g[o], p)
        BY <1>2 DEF DirTypes
      <3>2. PICK x : x = g[o]
        OBVIOUS
      <3>3. (SideShape(x, p))'
        BY <3>1, <3>2, SideKept
      <3>4. f[o] = x
        BY <1>3, <2>2, <3>2
      <3> QED BY <3>3, <3>4
    <2> QED BY <2>1, <2>2
  <1>7. DirTypes' /\ dir'[p] = f /\ \A q \in Releases \ {p} : dir'[q] = dir[q]
    BY <1>4, <1>5, <1>6, DirTypesKept
  <1> QED BY <1>2, <1>3, <1>7

\* Writing the id of a record changes one directory.
LEMMA IdWritten ==
  ASSUME RecordTypes, NewIds, DirTypes, NEW p \in Releases, NEW s \in Sides, NEW id,
         dir' = SetNukeID(p, s, id), id = Nil \/ IdOf(id, p)
  PROVE  /\ DirTypes' /\ \A q \in Releases \ {p} : dir'[q] = dir[q]
         /\ dir[p]["nuked"] = Nil => dir'[p]["nuked"] = Nil
PROOF
  <1>1. CASE dir[p][s] = Nil
    BY <1>1, DirTypesSame DEF SetNukeID, Exists
  <1>2. CASE dir[p][s] # Nil
    <2>1. PICK old : old = dir[p][s]
      OBVIOUS
    <2>2. PICK d : d = [old EXCEPT !.id = id]
      OBVIOUS
    <2>3. dir' = Changed(p, s, d)
      BY <1>2, <2>1, <2>2 DEF SetNukeID, Exists
    <2>4. DirShape(old)
      BY <1>2, <2>1 DEF DirTypes, SideShape
    <2>5. d = [files |-> old.files, owner |-> old.owner, id |-> id]
      BY <2>2, <2>4 DEF DirShape
    <2>6. SideShape(d, p)
      BY <2>5 DEF SideShape, DirShape
    <2>7. (SideShape(d, p))'
      BY <2>6, SideKept
    <2>8. /\ DirTypes' /\ \A q \in Releases \ {p} : dir'[q] = dir[q]
          /\ \A o \in Sides \ {s} : dir'[p][o] = dir[p][o]
      BY <2>3, <2>7, SideChanged
    <2> QED BY <1>2, <2>8 DEF Sides
  <1> QED BY <1>1, <1>2

\* A directory is moved to the other name of its release.
LEMMA Moved ==
  ASSUME RecordTypes, NewIds, DirTypes, NEW p \in Releases, NEW to \in Sides, NEW d, SideShape(d, p),
         dir' = [dir EXCEPT ![p] = [s \in Sides |-> IF s = to THEN d ELSE Nil]]
  PROVE  /\ DirTypes' /\ \A q \in Releases \ {p} : dir'[q] = dir[q]
         /\ \A s \in Sides \ {to} : dir'[p][s] = Nil
PROOF
  <1>1. PICK f : f = [s \in Sides |-> IF s = to THEN d ELSE Nil]
    OBVIOUS
  <1>2. (SideShape(d, p))'
    BY SideKept
  <1>3. \A s \in Sides : f[s] = IF s = to THEN d ELSE Nil
    BY <1>1
  <1>4. \A s \in Sides : (SideShape(f[s], p))'
    <2> SUFFICES ASSUME NEW s \in Sides PROVE (SideShape(f[s], p))'
      OBVIOUS
    <2>1. CASE s = to
      BY <1>2, <1>3, <2>1
    <2>2. CASE s # to
      BY <1>3, <2>2 DEF SideShape
    <2> QED BY <2>1, <2>2
  <1>5. f = [s \in Sides |-> f[s]]
    BY <1>1
  <1>6. DirTypes' /\ dir'[p] = f /\ \A q \in Releases \ {p} : dir'[q] = dir[q]
    BY <1>1, <1>4, <1>5, DirTypesKept
  <1> QED BY <1>3, <1>6

\* Steps that change the directories of the release and no record.
LEMMA DiskStep ==
  ASSUME NukeInv, Nil \notin Releases, NEW t \in Nukers, NEW p \in Releases, p = nuker[t].path,
         UNCHANGED <<nukes, unnukes, oid, tangled>>, stuck \subseteq stuck',
         DirTypes', \A q \in Releases \ {p} : dir'[q] = dir[q],
         JobTypes', \A r \in Nukers \ {t} : nuker'[r] = nuker[r], nuker'[t].path \in {p, Nil},
         \/ nuker'[t].path = p /\ (p \notin tangled => Phase(nuker[t])')
         \/ nuker'[t].path # p /\ (p \notin tangled => Rested(p)')
  PROVE  NukeInv'
PROOF
  <1>1. RecordTypes
    BY DEF NukeInv, NukeTypes
  <1>2. NukeTypes'
    BY <1>1, FewerRecords, RecordTypesKept DEF NukeTypes
  <1>3. \A q \in Releases \ {p} : Untouched(q)
    BY DEF Untouched
  <1> QED BY <1>2, <1>3, CommandStep

\* Deleting the contents of a nuked release keeps the invariant.
LEMMA DeleteContentsKeeps ==
  ASSUME NukeInv, Nil \notin Releases, NEW t \in Nukers, DeleteContents(t)
  PROVE  NukeInv'
PROOF
  <1>0. /\ UNCHANGED <<nukes, unnukes, oid, tangled, stuck>> /\ nuker[t].op = "NUKE"
        /\ nuker[t].at = "contents" /\ Go(t, "dir")
    BY DEF DeleteContents, At
  <1>1. PICK p \in Releases : p = nuker[t].path
    BY <1>0, AtWork
  <1>2. RecordTypes /\ DirTypes /\ NewIds
    BY <1>0, AtWork, FewerRecords
  <1>3. DirTypes' /\ \A q \in Releases \ {p} : dir'[q] = dir[q]
    <2>1. CASE dir' = dir
      BY <1>2, <2>1, DirTypesSame
    <2>2. CASE dir[p]["plain"] # Nil /\ dir' = Changed(p, "plain", [dir[p]["plain"] EXCEPT !.files = NoFiles])
      <3>1. PICK old : old = dir[p]["plain"]
        OBVIOUS
      <3>2. PICK d : d = [old EXCEPT !.files = NoFiles]
        OBVIOUS
      <3>3. SideShape(old, p) /\ old # Nil
        BY <1>2, <2>2, <3>1 DEF DirTypes, Sides
      <3>4. d = [files |-> NoFiles, owner |-> old.owner, id |-> old.id]
        BY <3>2, <3>3 DEF SideShape, DirShape
      <3>5. SideShape(d, p)
        BY <3>3, <3>4 DEF SideShape, DirShape
      <3>6. (SideShape(d, p))' /\ dir' = Changed(p, "plain", d)
        BY <1>2, <2>2, <3>1, <3>2, <3>5, SideKept
      <3> QED BY <1>2, <3>6, SideChanged DEF Sides
    <2> QED BY <1>1, <2>1, <2>2 DEF DeleteContents, Exists
  <1>4. /\ JobTypes' /\ \A r \in Nukers \ {t} : nuker'[r] = nuker[r]
        /\ nuker'[t].op = "NUKE" /\ nuker'[t].at = "dir" /\ nuker'[t].path = p
    BY <1>0, <1>1, <1>2, MovedOn
  <1>5. p \notin tangled => Phase(nuker[t])'
    <2> SUFFICES ASSUME p \notin tangled PROVE Phase(nuker[t])'
      OBVIOUS
    <2>1. Phase(nuker[t])
      BY <1>0, <1>1, AtWork
    <2> QED BY <1>0, <1>1, <1>4, <2>1 DEF Phase
  <1> QED BY <1>0, <1>1, <1>3, <1>4, <1>5, DiskStep

\* So does renaming it or moving it away.
LEMMA ActionTheDirectoryKeeps ==
  ASSUME NukeInv, Nil \notin Releases, NEW t \in Nukers, ActionTheDirectory(t)
  PROVE  NukeInv'
PROOF
  <1>0. /\ UNCHANGED <<nukes, unnukes, oid, tangled>> /\ nuker[t].op = "NUKE" /\ nuker[t].at = "dir"
        /\ stuck \subseteq stuck'
    BY DEF ActionTheDirectory, At
  <1>1. PICK p \in Releases : p = nuker[t].path
    BY <1>0, AtWork
  <1>2. RecordTypes /\ DirTypes /\ NewIds
    BY <1>0, AtWork, FewerRecords
  <1>3. p \notin tangled => ByPath(nukes', p) # {} /\ ByPath(unnukes', p) = {}
    BY <1>0, <1>1, AtWork DEF Phase
  <1>4. CASE Style = "DeleteAll"
    <2>1. DirTypes' /\ \A q \in Releases \ {p} : dir'[q] = dir[q]
      <3>1. CASE dir' = dir
        BY <1>2, <3>1, DirTypesSame
      <3>2. CASE dir' = Changed(p, "plain", Nil)
        <4>1. (SideShape(Nil, p))'
          BY DEF SideShape
        <4> QED BY <1>2, <3>2, <4>1, SideChanged DEF Sides
      <3> QED BY <1>1, <1>4, <3>1, <3>2 DEF ActionTheDirectory
    <2>2. /\ JobTypes' /\ \A r \in Nukers \ {t} : nuker'[r] = nuker[r]
          /\ nuker'[t].path = Nil
      BY <1>2, <1>4, Retired DEF ActionTheDirectory
    <2>3. p \notin tangled => Rested(p)'
      BY <1>3 DEF Rested
    <2> QED BY <1>0, <1>1, <2>1, <2>2, <2>3, DiskStep
  <1>5. CASE Style # "DeleteAll"
    <2>1. DirTypes' /\ \A q \in Releases \ {p} : dir'[q] = dir[q]
      <3>1. CASE dir' = dir
        BY <1>2, <3>1, DirTypesSame
      <3>2. CASE dir' = [dir EXCEPT ![p] = [s \in Sides |-> IF s = "nuked" THEN dir[p]["plain"] ELSE Nil]]
        <4>1. PICK d : d = dir[p]["plain"]
          OBVIOUS
        <4>2. SideShape(d, p)
          BY <1>2, <4>1 DEF DirTypes, Sides
        <4>3. dir' = [dir EXCEPT ![p] = [s \in Sides |-> IF s = "nuked" THEN d ELSE Nil]]
          BY <3>2, <4>1
        <4> QED BY <1>2, <4>2, <4>3, Moved DEF Sides
      <3> QED BY <1>1, <1>5, <3>1, <3>2 DEF ActionTheDirectory, RenameDirectory
    <2>2. PICK at \in {"idPlain", "idNuked"} : Go(t, at)
      BY <1>5 DEF ActionTheDirectory
    <2>3. /\ JobTypes' /\ \A r \in Nukers \ {t} : nuker'[r] = nuker[r]
          /\ nuker'[t].op = "NUKE" /\ nuker'[t].at = at /\ nuker'[t].path = p
      BY <1>0, <1>1, <1>2, <2>2, MovedOn
    <2>4. p \notin tangled => Phase(nuker[t])'
      BY <1>3, <2>3 DEF Phase
    <2> QED BY <1>0, <1>1, <2>1, <2>3, <2>4, DiskStep
  <1> QED BY <1>4, <1>5

\* So does writing the id of the nuke into it.
LEMMA NukeIDKeeps ==
  ASSUME NukeInv, Nil \notin Releases, NEW t \in Nukers, NukeID(t)
  PROVE  NukeInv'
PROOF
  <1>0. /\ UNCHANGED <<nukes, unnukes, oid, tangled, stuck>> /\ nuker[t].op = "NUKE"
        /\ nuker[t].at \in {"idPlain", "idNuked"} /\ Put(t, Resting)
    BY DEF NukeID
  <1>1. PICK p \in Releases : p = nuker[t].path
    BY <1>0, AtWork
  <1>2. RecordTypes /\ DirTypes /\ NewIds
    BY <1>0, AtWork, FewerRecords
  <1>3. PICK s \in Sides : dir' = SetNukeID(p, s, nuker[t].rec.id)
    BY <1>0, <1>1 DEF NukeID, Sides
  <1>4. PICK id : id = nuker[t].rec.id
    OBVIOUS
  <1>5. IdOf(id, p) /\ dir' = SetNukeID(p, s, id)
    BY <1>0, <1>1, <1>3, <1>4, AtWork DEF JobShape, HasRecord
  <1>6. DirTypes' /\ \A q \in Releases \ {p} : dir'[q] = dir[q]
    BY <1>2, <1>5, IdWritten
  <1>7. JobTypes' /\ \A r \in Nukers \ {t} : nuker'[r] = nuker[r]
    BY <1>0, <1>2, Retired
  <1>8. p \notin tangled => Rested(p)'
    BY <1>0, <1>1, AtWork DEF Phase, Rested
  <1>9. nuker'[t].path = Nil
    BY <1>0, <1>2, Retired
  <1> QED BY <1>0, <1>1, <1>6, <1>7, <1>8, <1>9, DiskStep

\* So does renaming it back.
LEMMA UnnukeRenameKeeps ==
  ASSUME NukeInv, Nil \notin Releases, NEW t \in Nukers, UnnukeRename(t)
  PROVE  NukeInv'
PROOF
  <1>0. /\ UNCHANGED <<nukes, unnukes, oid, tangled>> /\ nuker[t].op = "UNNUKE" /\ nuker[t].at = "rename"
        /\ stuck \subseteq stuck' /\ Go(t, "del")
    BY DEF UnnukeRename, At
  <1>1. PICK p \in Releases : p = nuker[t].path
    BY <1>0, AtWork
  <1>2. RecordTypes /\ DirTypes /\ NewIds
    BY <1>0, AtWork, FewerRecords
  <1>3. /\ DirTypes' /\ \A q \in Releases \ {p} : dir'[q] = dir[q]
        /\ p \notin stuck' => dir'[p]["nuked"] = Nil
    <2>1. CASE CanRename(p, "nuked", "plain")
      <3>1. PICK old : old = dir[p]["nuked"]
        OBVIOUS
      <3>2. PICK d : d = [old EXCEPT !.id = Nil]
        OBVIOUS
      <3>3. DirShape(old)
        BY <1>2, <2>1, <3>1 DEF DirTypes, SideShape, Sides, CanRename, Exists
      <3>4. d = [files |-> old.files, owner |-> old.owner, id |-> Nil]
        BY <3>2, <3>3 DEF DirShape
      <3>5. SideShape(d, p)
        BY <3>4 DEF SideShape, DirShape
      <3>6. dir' = [dir EXCEPT ![p] = [s \in Sides |-> IF s = "plain" THEN d ELSE Nil]]
        BY <1>1, <2>1, <3>1, <3>2 DEF UnnukeRename
      <3> QED BY <1>2, <3>5, <3>6, Moved DEF Sides
    <2>2. CASE ~CanRename(p, "nuked", "plain")
      <3>1. dir' = SetNukeID(p, "nuked", Nil)
        BY <1>1, <2>2 DEF UnnukeRename
      <3>2. p \notin stuck' => dir[p]["nuked"] = Nil
        BY <1>1, <2>2 DEF UnnukeRename, Exists
      <3> QED BY <1>2, <3>1, <3>2, IdWritten DEF Sides
    <2> QED BY <2>1, <2>2
  <1>4. /\ JobTypes' /\ \A r \in Nukers \ {t} : nuker'[r] = nuker[r]
        /\ nuker'[t].op = "UNNUKE" /\ nuker'[t].at = "del" /\ nuker'[t].path = p
    BY <1>0, <1>1, <1>2, MovedOn
  <1>5. p \notin tangled => Phase(nuker[t])'
    <2> SUFFICES ASSUME p \notin tangled PROVE Phase(nuker[t])'
      OBVIOUS
    <2>1. Phase(nuker[t])
      BY <1>0, <1>1, AtWork
    <2> QED BY <1>0, <1>1, <1>3, <1>4, <2>1 DEF Phase
  <1> QED BY <1>0, <1>1, <1>3, <1>4, <1>5, DiskStep

\* So does removing the record of the nuke.
LEMMA UnnukeDelKeeps ==
  ASSUME NukeInv, Nil \notin Releases, NEW t \in Nukers, UnnukeDel(t)
  PROVE  NukeInv'
PROOF
  <1>0. /\ UNCHANGED <<dir, unnukes, oid, tangled, stuck>> /\ nuker[t].op = "UNNUKE" /\ nuker[t].at = "del"
        /\ Go(t, "add")
    BY DEF UnnukeDel, At
  <1>1. PICK p \in Releases : p = nuker[t].path
    BY <1>0, AtWork
  <1>2. nuker[t].rec.path = p
    BY <1>0, <1>1, AtWork DEF JobShape, HasRecord
  <1>3. nukes' = {n \in nukes : n.path # p}
    BY <1>2 DEF UnnukeDel, DelNuke, DelPath
  <1>4. RecordTypes /\ NewIds /\ DirTypes
    BY <1>0, <1>3, AtWork, FewerRecords
  <1>5. /\ JobTypes' /\ \A r \in Nukers \ {t} : nuker'[r] = nuker[r]
        /\ nuker'[t].op = "UNNUKE" /\ nuker'[t].at = "add" /\ nuker'[t].path = p
    BY <1>0, <1>1, <1>4, MovedOn
  <1>6. NukeTypes'
    BY <1>0, <1>4, <1>5, RecordTypesKept, DirTypesSame DEF NukeTypes
  <1>7. \A q \in Releases \ {p} : Untouched(q)
    BY <1>0, <1>3 DEF Untouched, ByPath
  <1>8. p \notin tangled => Phase(nuker[t])'
    <2> SUFFICES ASSUME p \notin tangled PROVE Phase(nuker[t])'
      OBVIOUS
    <2>1. Phase(nuker[t])
      BY <1>0, <1>1, AtWork
    <2>2. ByPath(nukes', p) = {}
      BY <1>3 DEF ByPath
    <2> QED BY <1>0, <1>1, <1>5, <2>1, <2>2 DEF Phase
  <1> QED BY <1>0, <1>1, <1>5, <1>6, <1>7, <1>8, CommandStep

\* So does adding the record of the unnuke.
LEMMA AddUnnukeKeeps ==
  ASSUME NukeInv, Nil \notin Releases, NEW t \in Nukers, AddUnnuke(t)
  PROVE  NukeInv'
PROOF
  <1>0. /\ UNCHANGED <<dir, nukes, tangled, stuck>> /\ nuker[t].op = "UNNUKE" /\ nuker[t].at = "add"
        /\ oid' = oid + 1
    BY DEF AddUnnuke, At
  <1>1. PICK p \in Releases : p = nuker[t].path
    BY <1>0, AtWork
  <1>2. PICK old : old = nuker[t].rec
    OBVIOUS
  <1>3. PICK rec : rec = [old EXCEPT !.id = oid + 1]
    OBVIOUS
  <1>4. unnukes' = unnukes \cup {rec} /\ Keep(t, "id", rec)
    BY <1>2, <1>3 DEF AddUnnuke
  <1>5. RecordShape(old) /\ old.path = p
    BY <1>0, <1>1, <1>2, AtWork DEF JobShape, HasRecord
  <1>6. rec = [id |-> oid + 1, path |-> p, nukees |-> old.nukees]
    BY <1>3, <1>5 DEF RecordShape
  <1>7. RecordShape(rec) /\ rec.id = oid + 1 /\ rec.path = p
    BY <1>6 DEF RecordShape
  <1>8. RecordTypes /\ DirTypes
    BY <1>0, AtWork
  <1>9. NewIds
    BY <1>0, <1>4, <1>7, <1>8 DEF NewIds, RecordTypes
  <1>10. IdOf(rec.id, rec.path)'
    BY <1>0, <1>4, <1>7, <1>8 DEF IdOf, RecordTypes
  <1>11. /\ JobTypes' /\ \A r \in Nukers \ {t} : nuker'[r] = nuker[r]
         /\ nuker'[t].op = "UNNUKE" /\ nuker'[t].at = "id" /\ nuker'[t].path = p
    BY <1>0, <1>1, <1>4, <1>7, <1>9, <1>10, KeptRecord
  <1>12. NukeTypes'
    BY <1>0, <1>8, <1>9, <1>11, RecordTypesKept, DirTypesSame DEF NukeTypes
  <1>13. \A q \in Releases \ {p} : Untouched(q)
    BY <1>0, <1>4, <1>7 DEF Untouched, ByPath
  <1>14. p \notin tangled => Phase(nuker[t])'
    <2> SUFFICES ASSUME p \notin tangled PROVE Phase(nuker[t])'
      OBVIOUS
    <2>1. Phase(nuker[t])
      BY <1>0, <1>1, AtWork
    <2> QED BY <1>0, <1>1, <1>11, <2>1 DEF Phase
  <1> QED BY <1>0, <1>1, <1>11, <1>12, <1>13, <1>14, CommandStep

\* So does writing the id of the unnuke.
LEMMA UnnukeIDKeeps ==
  ASSUME NukeInv, Nil \notin Releases, NEW t \in Nukers, UnnukeID(t)
  PROVE  NukeInv'
PROOF
  <1>0. /\ UNCHANGED <<nukes, unnukes, oid, tangled, stuck>> /\ nuker[t].op = "UNNUKE"
        /\ nuker[t].at = "id" /\ Put(t, Resting)
    BY DEF UnnukeID, At
  <1>1. PICK p \in Releases : p = nuker[t].path
    BY <1>0, AtWork
  <1>2. RecordTypes /\ DirTypes /\ NewIds
    BY <1>0, AtWork, FewerRecords
  <1>3. PICK id : id = nuker[t].rec.id
    OBVIOUS
  <1>4. IdOf(id, p) /\ dir' = SetNukeID(p, "plain", id)
    BY <1>0, <1>1, <1>3, AtWork DEF JobShape, HasRecord, UnnukeID
  <1>5. /\ DirTypes' /\ \A q \in Releases \ {p} : dir'[q] = dir[q]
        /\ dir[p]["nuked"] = Nil => dir'[p]["nuked"] = Nil
    BY <1>2, <1>4, IdWritten DEF Sides
  <1>6. JobTypes' /\ \A r \in Nukers \ {t} : nuker'[r] = nuker[r]
    BY <1>0, <1>2, Retired
  <1>7. nuker'[t].path = Nil
    BY <1>0, <1>2, Retired
  <1>8. p \notin tangled => Rested(p)'
    BY <1>0, <1>1, <1>5, AtWork DEF Phase, Rested
  <1> QED BY <1>0, <1>1, <1>5, <1>6, <1>7, <1>8, DiskStep

\* The start of a command: where it does not tangle, it finds the release as the last
\* one left it.
LEMMA BeginKeeps ==
  ASSUME NukeInv, Nil \notin Releases, NEW t \in Nukers, NEW p \in Releases, NEW op, Begin(t, p, op),
         UNCHANGED <<dir, nukes, unnukes, oid, stuck>>, NEW v, Put(t, v), JobShape(v), v.path = p,
         Rested(p) /\ (op = "NUKE" => ByPath(nukes, p) = {}) => Phase(v)
  PROVE  NukeInv'
PROOF
  <1>1. RecordTypes /\ NewIds /\ JobTypes /\ DirTypes
    BY FewerRecords DEF NukeInv, NukeTypes
  <1>2. (JobShape(v))'
    BY <1>1, JobKept
  <1>3. JobTypes' /\ nuker'[t] = v /\ \A r \in Nukers \ {t} : nuker'[r] = nuker[r]
    BY <1>1, <1>2, JobTypesKept
  <1>4. NukeTypes'
    BY <1>1, <1>3, RecordTypesKept, DirTypesSame DEF NukeTypes
  <1>5. nuker[t].path = Nil /\ tangled \subseteq tangled'
    BY <1>1 DEF Begin, JobTypes, JobShape
  <1>6. ASSUME NEW q \in Releases, q # p PROVE ReleaseInv(q)'
    <2>1. Untouched(q)
      BY DEF Untouched
    <2>2. \A r \in Nukers : nuker[r].path = q \/ nuker'[r].path = q => nuker'[r] = nuker[r]
      BY <1>3, <1>5, <1>6
    <2> QED BY <1>5, <2>1, <2>2, ReleaseKept DEF NukeInv
  <1>7. ReleaseInv(p)'
    <2> SUFFICES ASSUME p \notin tangled' PROVE ReleaseInv(p)'
      BY DEF ReleaseInv
    <2>1. /\ p \notin tangled /\ \A r \in Nukers : nuker[r].path # p
          /\ op = "NUKE" => \A n \in nukes : n.path # p
      BY DEF Begin
    <2>2. Rested(p)
      BY <2>1 DEF NukeInv, ReleaseInv, Rests, Rested
    <2>3. op = "NUKE" => ByPath(nukes, p) = {}
      BY <2>1 DEF ByPath
    <2>4. Phase(v)
      BY <2>2, <2>3
    <2>5. (Phase(v))'
      BY <2>4 DEF Phase
    <2>6. \A r \in Nukers : nuker'[r].path = p => r = t
      BY <1>3, <2>1
    <2>7. \A r \in Nukers : nuker'[r].path = p => Phase(nuker[r])'
      BY <1>3, <2>5, <2>6
    <2>8. ~Rests(p)'
      BY <1>3 DEF Rests
    <2> QED BY <2>6, <2>7, <2>8 DEF ReleaseInv
  <1> QED BY <1>4, <1>6, <1>7 DEF NukeInv

\* NUKE begins on a release that it examined.
LEMMA NukeKeeps ==
  ASSUME NukeInv, Nil \notin Releases, NEW t \in Nukers, NEW p \in Releases, NEW m, Nuke(t, p, m)
  PROVE  NukeInv'
PROOF
  <1>1. UNCHANGED <<dir, nukes, unnukes, oid, stuck>> /\ Begin(t, p, "NUKE")
    BY DEF Nuke
  <1>2. PICK all, pen : Put(t, [op |-> "NUKE", at |-> "credits", path |-> p, multi |-> m, nukees |-> all,
                                    todo |-> pen, rec |-> Nil])
    BY DEF Nuke
  <1>3. PICK v : v = [op |-> "NUKE", at |-> "credits", path |-> p, multi |-> m, nukees |-> all,
                      todo |-> pen, rec |-> Nil]
    OBVIOUS
  <1>4. Put(t, v) /\ v.path = p /\ JobShape(v)
    BY <1>2, <1>3 DEF JobShape, HasRecord
  <1>5. Rested(p) /\ ByPath(nukes, p) = {} => Phase(v)
    BY <1>3 DEF Rested, Phase
  <1> QED BY <1>1, <1>4, <1>5, BeginKeeps

\* UNNUKE begins on a release whose record it found.
LEMMA UnnukeKeeps ==
  ASSUME NukeInv, Nil \notin Releases, NEW t \in Nukers, NEW p \in Releases, Unnuke(t, p)
  PROVE  NukeInv'
PROOF
  <1>1. UNCHANGED <<dir, nukes, unnukes, oid, stuck>> /\ Begin(t, p, "UNNUKE")
    BY DEF Unnuke
  <1>2. PICK n \in Lookup(nukes, GetNukeID(p, "nuked"), p) :
          Put(t, [op |-> "UNNUKE", at |-> "credits", path |-> p, multi |-> Nil, nukees |-> <<>>,
                      todo |-> DOMAIN n.nukees, rec |-> n])
    BY DEF Unnuke
  <1>3. n \in nukes /\ n.path = p
    BY <1>2, FoundRecord DEF Sides
  <1>4. PICK v : v = [op |-> "UNNUKE", at |-> "credits", path |-> p, multi |-> Nil, nukees |-> <<>>,
                      todo |-> DOMAIN n.nukees, rec |-> n]
    OBVIOUS
  <1>5. RecordShape(n) /\ IdOf(n.id, p)
    <2>1. RecordShape(n) /\ n.id \in Nat /\ n.id <= oid
      BY <1>3 DEF NukeInv, NukeTypes, RecordTypes
    <2>2. \A m \in nukes \cup unnukes : m.id = n.id => m.path = p
      BY <1>3 DEF NukeInv, NukeTypes, RecordTypes
    <2> QED BY <2>1, <2>2 DEF IdOf
  <1>6. Put(t, v) /\ v.path = p /\ JobShape(v)
    BY <1>2, <1>3, <1>4, <1>5 DEF JobShape, HasRecord
  <1>7. ByPath(nukes, p) # {}
    BY <1>3 DEF ByPath
  <1>8. Rested(p) => Phase(v)
    BY <1>4, <1>7 DEF Rested, Phase
  <1> QED BY <1>1, <1>6, <1>8, BeginKeeps

\* What other commands do to the plain directory of a release.
LEMMA OthersKeep ==
  ASSUME NukeInv, NEW p \in Releases, NEW d, dir' = Changed(p, "plain", d), SideShape(d, p),
         UNCHANGED <<nukes, unnukes, oid, nuker, tangled, stuck>>
  PROVE  NukeInv'
PROOF
  <1>1. RecordTypes /\ NewIds /\ JobTypes /\ DirTypes
    BY FewerRecords DEF NukeInv, NukeTypes
  <1>2. JobTypes'
    BY <1>1 DEF JobTypes, JobShape, HasRecord, IdOf, RecordShape
  <1>3. (SideShape(d, p))'
    BY <1>1, SideKept
  <1>4. /\ DirTypes' /\ \A q \in Releases \ {p} : dir'[q] = dir[q]
        /\ \A o \in Sides \ {"plain"} : dir'[p][o] = dir[p][o]
    BY <1>1, <1>3, SideChanged DEF Sides
  <1>5. \A q \in Releases : dir'[q]["nuked"] = dir[q]["nuked"]
    BY <1>4 DEF Sides
  <1>6. \A q \in Releases : Untouched(q)
    BY <1>5 DEF Untouched
  <1>7. \A q \in Releases : ReleaseInv(q)'
    BY <1>6, ReleaseKept DEF NukeInv
  <1> QED BY <1>1, <1>2, <1>4, <1>7, RecordTypesKept DEF NukeInv, NukeTypes

\* An upload into a release leaves the records alone.
LEMMA StoredKeeps ==
  ASSUME NukeInv, NEW p \in Releases, NEW u, Stored(p, u)
  PROVE  NukeInv'
PROOF
  <1>1. PICK old : old = dir[p]["plain"]
    OBVIOUS
  <1>2. PICK f : dir' = Changed(p, "plain", [old EXCEPT !.files = f])
    BY <1>1 DEF Stored
  <1>3. PICK d : d = [old EXCEPT !.files = f]
    OBVIOUS
  <1>4. SideShape(old, p) /\ old # Nil
    BY <1>1 DEF NukeInv, NukeTypes, DirTypes, Stored, Exists, Sides
  <1>5. d = [files |-> f, owner |-> old.owner, id |-> old.id]
    BY <1>3, <1>4 DEF SideShape, DirShape
  <1>6. SideShape(d, p)
    BY <1>4, <1>5 DEF SideShape, DirShape
  <1>7. UNCHANGED <<nukes, unnukes, oid, nuker, tangled, stuck>>
    BY DEF Stored
  <1> QED BY <1>2, <1>3, <1>6, <1>7, OthersKeep

\* So does a new directory of the same name.
LEMMA MkdKeeps ==
  ASSUME NukeInv, NEW p \in Releases, Mkd(p)
  PROVE  NukeInv'
PROOF
  <1>1. PICK d : d = NewDir(NoFiles)
    OBVIOUS
  <1>2. SideShape(d, p)
    BY <1>1 DEF SideShape, DirShape, NewDir
  <1>3. dir' = Changed(p, "plain", d) /\ UNCHANGED <<nukes, unnukes, oid, nuker, tangled, stuck>>
    BY <1>1 DEF Mkd
  <1> QED BY <1>2, <1>3, OthersKeep

\* The invariant of the records holds initially.
LEMMA NukeInvInit == ASSUME Init, Nil \notin Releases PROVE NukeInv
PROOF
  <1>1. PICK f : dir = [p \in Releases |-> [s \in Sides |-> IF s = "plain" THEN NewDir(f[p]) ELSE Nil]]
    BY DEF Init
  <1>2. /\ nukes = {} /\ unnukes = {} /\ oid = 0 /\ nuker = [t \in Nukers |-> Resting]
    BY DEF Init
  <1>3. RecordTypes
    BY <1>2 DEF RecordTypes
  <1>4. JobTypes
    BY <1>2 DEF JobTypes, JobShape, HasRecord, Resting
  <1>5. \A p \in Releases : /\ dir[p] = [s \in Sides |-> IF s = "plain" THEN NewDir(f[p]) ELSE Nil]
                            /\ dir[p]["nuked"] = Nil
    BY <1>1 DEF Sides
  <1>6. DirTypes
    BY <1>1, <1>5 DEF DirTypes, SideShape, DirShape, NewDir
  <1>7. \A t \in Nukers : nuker[t].path = Nil
    BY <1>2 DEF Resting
  <1>8. \A p \in Releases : ReleaseInv(p)
    BY <1>2, <1>5, <1>7 DEF ReleaseInv, ByPath
  <1> QED BY <1>3, <1>4, <1>6, <1>8 DEF NukeInv, NukeTypes

\* Every step keeps it.
LEMMA NukeInvNext ==
  ASSUME NukeInv, Nil \notin Releases, [Next]_vars
  PROVE  NukeInv'
PROOF
  <1>1. ASSUME UNCHANGED <<dir, nukes, unnukes, oid, nuker, tangled, stuck>> PROVE NukeInv'
    <2>1. RecordTypes' /\ JobTypes' /\ DirTypes'
      BY <1>1 DEF NukeInv, NukeTypes, RecordTypes, JobTypes, DirTypes, JobShape, SideShape, HasRecord, IdOf,
                  RecordShape, DirShape
    <2>2. \A q \in Releases : Untouched(q)
      BY <1>1 DEF Untouched
    <2>3. \A q \in Releases : ReleaseInv(q)'
      BY <1>1, <2>2, ReleaseKept DEF NukeInv
    <2> QED BY <2>1, <2>3 DEF NukeInv, NukeTypes
  <1>2. CASE UNCHANGED vars
    BY <1>1, <1>2 DEF vars
  <1>3. CASE \E t \in Nukers : NUKECommand(t) \/ ToolNuke(t)
    BY <1>3, NukeKeeps DEF NUKECommand, ToolNuke
  <1>4. CASE \E t \in Nukers : \/ TakeCredits(t) \/ TakeStats(t) \/ NukeForget(t)
                               \/ AddNuke(t) \/ DeleteContents(t) \/ ActionTheDirectory(t)
                               \/ NukeID(t)
    BY <1>4, TakeCreditsKeeps, StatsKeep, NukeForgetKeeps, AddNukeKeeps, DeleteContentsKeeps,
       ActionTheDirectoryKeeps, NukeIDKeeps
  <1>5. CASE \E t \in Nukers, p \in Releases : Unnuke(t, p)
    BY <1>5, UnnukeKeeps
  <1>6. CASE \E t \in Nukers : \/ RestoreCredits(t) \/ RestoreStats(t) \/ UnnukeRename(t)
                               \/ UnnukeDel(t) \/ AddUnnuke(t) \/ UnnukeID(t)
    BY <1>6, RestoreCreditsKeeps, StatsKeep, UnnukeRenameKeeps, UnnukeDelKeeps, AddUnnukeKeeps, UnnukeIDKeeps
  <1>7. CASE \E p \in Releases : Mkd(p) \/ \E u \in Owners : Stored(p, u)
    BY <1>7, MkdKeeps, StoredKeeps
  <1>8. CASE \E u \in Owners : PurgeOwner(u)
    BY <1>1, <1>8 DEF PurgeOwner
  <1> QED BY <1>2, <1>3, <1>4, <1>5, <1>6, <1>7, <1>8 DEF Next

\* For any number of nukers and releases, every nuke_style, and whatever is uploaded,
\* created or purged meanwhile: a release whose commands did not overlap is on record
\* while it has its nuked name (unless a rename failed), and is never on record as nuked
\* and as unnuked.
THEOREM RecordsAgree == NukeAssumption => (Spec => [](NukedIsOnRecord /\ NukedOrUnnuked))
PROOF
  <1> SUFFICES ASSUME NukeAssumption PROVE Spec => [](NukedIsOnRecord /\ NukedOrUnnuked)
    OBVIOUS
  <1>0. Nil \notin Releases
    BY DEF NukeAssumption
  <1>1. Init => NukeInv
    BY <1>0, NukeInvInit
  <1>2. NukeInv /\ [Next]_vars => NukeInv'
    BY <1>0, NukeInvNext
  <1>3. NukeInv => NukedIsOnRecord /\ NukedOrUnnuked
    BY DEF NukeInv, ReleaseInv, NukedIsOnRecord, NukedOrUnnuked, Exists
  <1> QED BY <1>1, <1>2, <1>3, PTL DEF Spec

-----------------------------------------------------------------------------
(* What was taken returns *)

Kinds == {"credits", "kb", "files"}

NukeesType(ns) ==
  /\ ns = [u \in DOMAIN ns |-> ns[u]] /\ DOMAIN ns \in SUBSET Owners
  /\ \A u \in DOMAIN ns :
       /\ ns[u] = [kb |-> ns[u].kb, files |-> ns[u].files, credits |-> ns[u].credits]
       /\ ns[u].kb \in Nat /\ ns[u].files \in Nat /\ ns[u].credits \in Int

\* The nukees of a command, from its start to the insertion or deletion of the record.
JobNukees(j) ==
  /\ j.op = "NUKE" /\ j.at \in {"credits", "forget", "add"} =>
       /\ NukeesType(j.nukees) /\ j.todo \in SUBSET DOMAIN j.nukees /\ j.multi.value \in Int
       /\ \A u \in j.todo : j.nukees[u].credits = 0
       /\ j.at # "credits" => j.todo = {}
  /\ j.op = "UNNUKE" /\ j.at \in {"credits", "rename", "del"} =>
       /\ NukeesType(j.rec.nukees) /\ j.todo \in SUBSET DOMAIN j.rec.nukees
       /\ j.at # "credits" => j.todo = {}

Tally(up) ==
  /\ up = [u \in Owners |-> [kb |-> up[u].kb, files |-> up[u].files]]
  /\ \A u \in Owners : up[u].kb \in Int /\ up[u].files \in Int
PurseTypes ==
  /\ purse \in [Owners -> Int \cup {Nil}] /\ known \in SUBSET Owners
  /\ \A u \in Owners : before.purse[u] # Nil => purse[u] \in Int /\ before.purse[u] \in Int
TallyTypes ==
  /\ Tally(upload) /\ before = [purse |-> before.purse, upload |-> before.upload]
  /\ Tally(before.upload)
NukeeTypes ==
  /\ IsFiniteSet(nukes) /\ \A n \in nukes : NukeesType(n.nukees)
  /\ \A t \in Nukers : JobNukees(nuker[t])
SideFiles(d) == d # Nil => d.files \in [Owners -> Nat] /\ d.owner \in Owners
DirFiles == \A p \in Releases, s \in Sides : SideFiles(dir[p][s])
BookTypes == PurseTypes /\ TallyTypes /\ NukeeTypes /\ DirFiles

\* What a command has taken and not yet recorded; negative for what an unnuke has
\* returned of a record that is still there.
Owed(j, u, k) ==
  IF j.op = "NUKE" /\ (j.at \in {"forget", "add"} \/ (j.at = "credits" /\ k = "credits"))
  THEN Part(j.nukees, u, k)
  ELSE IF /\ j.op = "UNNUKE"
          /\ j.at \in {"rename", "del"} \/ (j.at = "credits" /\ k = "credits" /\ u \notin j.todo)
  THEN 0 - Part(j.rec.nukees, u, k)
  ELSE 0
OnRecord(ns, u, k) == SumFunctionOnSet([n \in ns |-> Part(n.nukees, u, k)], ns)
Underway(js, u, k) == SumFunctionOnSet([t \in Nukers |-> Owed(js[t], u, k)], Nukers)

\* A release has one record, an unnuke works on one that is there, and at every moment
\* of every command credits and statistics add up.
OneRecord ==
  /\ \A m, n \in nukes : m.path = n.path => m = n
  /\ \A t \in Nukers : nuker[t].op = "UNNUKE" /\ nuker[t].at \in {"credits", "rename", "del"} =>
                         nuker[t].rec \in nukes
Books ==
  /\ \A u \in known : before.purse[u] # Nil =>
       purse[u] + OnRecord(nukes, u, "credits") + Underway(nuker, u, "credits") = before.purse[u]
  /\ \A u \in Owners :
       /\ upload[u].kb + OnRecord(nukes, u, "kb") + Underway(nuker, u, "kb") = before.upload[u].kb
       /\ upload[u].files + OnRecord(nukes, u, "files") + Underway(nuker, u, "files")
            >= before.upload[u].files
BookInv == BookTypes /\ (tangled = {} => OneRecord /\ Books)

\* What one nukee lost is a number, and only credits may be negative.
LEMMA PartNumber ==
  ASSUME NEW ns, NukeesType(ns), NEW u, NEW k \in Kinds
  PROVE  Part(ns, u, k) \in Int /\ (k # "credits" => Part(ns, u, k) \in Nat)
  BY DEF NukeesType, Part, Kinds

\* What a thread has taken and not yet recorded is a number.
LEMMA OwedNumber ==
  ASSUME NEW j, JobNukees(j), NEW u, NEW k \in Kinds
  PROVE  Owed(j, u, k) \in Int
  BY PartNumber DEF JobNukees, Owed

JobsNukees(js) == \A r \in Nukers : JobNukees(js[r])
OthersSame(js, ks, t) == \A r \in Nukers \ {t} : ks[r] = js[r]

\* What is under way changes by what one thread takes or records.
LEMMA UnderwayMoves ==
  ASSUME IsFiniteSet(Nukers), NEW js, NEW ks, NEW t \in Nukers, JobsNukees(js), JobsNukees(ks),
         OthersSame(js, ks, t), NEW u, NEW k \in Kinds
  PROVE  /\ Underway(js, u, k) \in Int /\ Underway(ks, u, k) \in Int
         /\ Underway(ks, u, k) = Underway(js, u, k) - Owed(js[t], u, k) + Owed(ks[t], u, k)
PROOF
  <1> DEFINE f == [r \in Nukers |-> Owed(js[r], u, k)]
             g == [r \in Nukers |-> Owed(ks[r], u, k)]
  <1>1. \A r \in Nukers : f[r] \in Int /\ g[r] \in Int
    BY OwedNumber DEF JobsNukees
  <1>2. \A r \in Nukers \ {t} : f[r] = g[r]
    BY DEF OthersSame
  <1>3. f[t] = Owed(js[t], u, k) /\ g[t] = Owed(ks[t], u, k)
    OBVIOUS
  <1>4. Underway(js, u, k) = SumFunctionOnSet(f, Nukers) /\ Underway(ks, u, k) = SumFunctionOnSet(g, Nukers)
    BY DEF Underway
  <1> HIDE DEF f, g
  <1>5. SumFunctionOnSet(g, Nukers) = SumFunctionOnSet(f, Nukers) - f[t] + g[t]
    BY <1>1, <1>2, SumReplace
  <1>6. SumFunctionOnSet(f, Nukers) \in Int /\ SumFunctionOnSet(g, Nukers) \in Int
    BY <1>1, SumInteger
  <1> QED BY <1>3, <1>4, <1>5, <1>6

\* What the records say of a nukee adds up to a number.
LEMMA RecordsNumber ==
  ASSUME NEW ns, IsFiniteSet(ns), \A n \in ns : NukeesType(n.nukees), NEW u, NEW k \in Kinds
  PROVE  OnRecord(ns, u, k) \in Int
PROOF
  <1> DEFINE f == [n \in ns |-> Part(n.nukees, u, k)]
  <1>1. \A n \in ns : f[n] \in Int
    BY PartNumber
  <1> HIDE DEF f
  <1>2. SumFunctionOnSet(f, ns) \in Int
    BY <1>1, SumInteger
  <1> QED BY <1>2 DEF OnRecord, f

\* A record that is removed takes its part along.
LEMMA RecordRemoved ==
  ASSUME NEW ns, IsFiniteSet(ns), \A n \in ns : NukeesType(n.nukees), NEW rec \in ns, NEW u, NEW k \in Kinds
  PROVE  OnRecord(ns, u, k) = Part(rec.nukees, u, k) + OnRecord(ns \ {rec}, u, k)
PROOF
  <1> DEFINE f == [n \in ns |-> Part(n.nukees, u, k)]
             g == [n \in ns \ {rec} |-> Part(n.nukees, u, k)]
  <1>1. \A n \in ns : f[n] \in Int
    BY PartNumber
  <1>2. (\A n \in ns \ {rec} : f[n] = g[n]) /\ f[rec] = Part(rec.nukees, u, k)
    OBVIOUS
  <1>3. OnRecord(ns, u, k) = SumFunctionOnSet(f, ns)
        /\ OnRecord(ns \ {rec}, u, k) = SumFunctionOnSet(g, ns \ {rec})
    BY DEF OnRecord
  <1> HIDE DEF f, g
  <1>4. SumFunctionOnSet(f, ns) = f[rec] + SumFunctionOnSet(f, ns \ {rec})
    BY <1>1, SumRemove
  <1>5. SumFunctionOnSet(f, ns \ {rec}) = SumFunctionOnSet(g, ns \ {rec})
    BY <1>2, FS_Subset, SumSame
  <1> QED BY <1>2, <1>3, <1>4, <1>5

\* A record that is added brings its part.
LEMMA RecordAdded ==
  ASSUME NEW ns, IsFiniteSet(ns), \A n \in ns : NukeesType(n.nukees), NEW rec, rec \notin ns,
         NukeesType(rec.nukees), NEW u, NEW k \in Kinds
  PROVE  OnRecord(ns \cup {rec}, u, k) = Part(rec.nukees, u, k) + OnRecord(ns, u, k)
PROOF
  <1>1. IsFiniteSet(ns \cup {rec}) /\ (ns \cup {rec}) \ {rec} = ns
    BY FS_AddElement
  <1>2. \A n \in ns \cup {rec} : NukeesType(n.nukees)
    OBVIOUS
  <1>3. PICK all : all = ns \cup {rec}
    OBVIOUS
  <1>4. OnRecord(all, u, k) = Part(rec.nukees, u, k) + OnRecord(all \ {rec}, u, k)
    BY <1>1, <1>2, <1>3, RecordRemoved
  <1> QED BY <1>1, <1>3, <1>4

\* A thread's step: what it takes or returns, what it records and what it owes balance.
Alone(t) == \A r \in Nukers \ {t} : nuker'[r] = nuker[r]
CreditsSquare(t) ==
  \A u \in known : before.purse[u] # Nil =>
    purse'[u] + OnRecord(nukes', u, "credits") + Owed(nuker'[t], u, "credits")
      = purse[u] + OnRecord(nukes, u, "credits") + Owed(nuker[t], u, "credits")
StatsSquare(t) ==
  \A u \in Owners :
    /\ upload'[u].kb + OnRecord(nukes', u, "kb") + Owed(nuker'[t], u, "kb")
         = upload[u].kb + OnRecord(nukes, u, "kb") + Owed(nuker[t], u, "kb")
    /\ upload'[u].files + OnRecord(nukes', u, "files") + Owed(nuker'[t], u, "files")
         >= upload[u].files + OnRecord(nukes, u, "files") + Owed(nuker[t], u, "files")

\* The numbers that the books add up.
LEMMA BookNumbers ==
  ASSUME IsFiniteSet(Nukers), BookTypes, BookTypes', NEW t \in Nukers, Alone(t), NEW u, NEW k \in Kinds
  PROVE  /\ OnRecord(nukes, u, k) \in Int /\ OnRecord(nukes', u, k) \in Int
         /\ Underway(nuker, u, k) \in Int /\ Underway(nuker', u, k) \in Int
         /\ Owed(nuker[t], u, k) \in Int /\ Owed(nuker'[t], u, k) \in Int
         /\ Underway(nuker', u, k) = Underway(nuker, u, k) - Owed(nuker[t], u, k) + Owed(nuker'[t], u, k)
PROOF
  <1>1. PICK js : js = nuker
    OBVIOUS
  <1>2. PICK ks : ks = nuker'
    OBVIOUS
  <1>3. JobsNukees(js) /\ JobsNukees(ks)
    BY <1>1, <1>2 DEF BookTypes, NukeeTypes, JobNukees, JobsNukees
  <1>4. OthersSame(js, ks, t)
    BY <1>1, <1>2 DEF Alone, OthersSame
  <1>5. Owed(js[t], u, k) \in Int /\ Owed(ks[t], u, k) \in Int
    BY <1>3, OwedNumber DEF JobsNukees
  <1>6. /\ Underway(js, u, k) \in Int /\ Underway(ks, u, k) \in Int
        /\ Underway(ks, u, k) = Underway(js, u, k) - Owed(js[t], u, k) + Owed(ks[t], u, k)
    BY <1>3, <1>4, UnderwayMoves
  <1>7. PICK ns : ns = nukes
    OBVIOUS
  <1>8. PICK ms : ms = nukes'
    OBVIOUS
  <1>9. /\ IsFiniteSet(ns) /\ \A n \in ns : NukeesType(n.nukees)
        /\ IsFiniteSet(ms) /\ \A n \in ms : NukeesType(n.nukees)
    BY <1>7, <1>8 DEF BookTypes, NukeeTypes
  <1>10. OnRecord(ns, u, k) \in Int /\ OnRecord(ms, u, k) \in Int
    BY <1>9, RecordsNumber
  <1> QED BY <1>1, <1>2, <1>5, <1>6, <1>7, <1>8, <1>10

\* A step whose credits and statistics are square keeps the books.
LEMMA BooksStep ==
  ASSUME IsFiniteSet(Nukers), BookTypes, BookTypes', Books, NEW t \in Nukers, Alone(t),
         UNCHANGED <<known, before>>, CreditsSquare(t), StatsSquare(t)
  PROVE  Books'
PROOF
  <1>1. ASSUME NEW u \in known', before'.purse[u] # Nil
        PROVE  purse'[u] + OnRecord(nukes', u, "credits") + Underway(nuker', u, "credits") = before'.purse[u]
    <2>1. u \in Owners /\ purse[u] \in Int /\ purse'[u] \in Int /\ before.purse[u] \in Int
      BY <1>1 DEF BookTypes, PurseTypes
    <2>2. purse[u] + OnRecord(nukes, u, "credits") + Underway(nuker, u, "credits") = before.purse[u]
      BY <1>1 DEF Books
    <2>3. purse'[u] + OnRecord(nukes', u, "credits") + Owed(nuker'[t], u, "credits")
            = purse[u] + OnRecord(nukes, u, "credits") + Owed(nuker[t], u, "credits")
      BY <1>1 DEF CreditsSquare
    <2>4. "credits" \in Kinds
      BY DEF Kinds
    <2> QED BY <2>1, <2>2, <2>3, <2>4, BookNumbers
  <1>2. ASSUME NEW u \in Owners
        PROVE  /\ upload'[u].kb + OnRecord(nukes', u, "kb") + Underway(nuker', u, "kb") = before'.upload[u].kb
               /\ upload'[u].files + OnRecord(nukes', u, "files") + Underway(nuker', u, "files")
                    >= before'.upload[u].files
    <2>1. /\ upload[u].kb \in Int /\ upload'[u].kb \in Int /\ before.upload[u].kb \in Int
          /\ upload[u].files \in Int /\ upload'[u].files \in Int /\ before.upload[u].files \in Int
      BY DEF BookTypes, TallyTypes, Tally
    <2>2. upload[u].kb + OnRecord(nukes, u, "kb") + Underway(nuker, u, "kb") = before.upload[u].kb
      BY DEF Books
    <2>3. upload[u].files + OnRecord(nukes, u, "files") + Underway(nuker, u, "files") >= before.upload[u].files
      BY DEF Books
    <2>4. upload'[u].kb + OnRecord(nukes', u, "kb") + Owed(nuker'[t], u, "kb")
            = upload[u].kb + OnRecord(nukes, u, "kb") + Owed(nuker[t], u, "kb")
      BY DEF StatsSquare
    <2>5. upload'[u].files + OnRecord(nukes', u, "files") + Owed(nuker'[t], u, "files")
            >= upload[u].files + OnRecord(nukes, u, "files") + Owed(nuker[t], u, "files")
      BY DEF StatsSquare
    <2>6. "kb" \in Kinds /\ "files" \in Kinds
      BY DEF Kinds
    <2>7. upload'[u].kb + OnRecord(nukes', u, "kb") + Underway(nuker', u, "kb") = before.upload[u].kb
      <3>1. PICK x \in Int : x = upload[u].kb
        BY <2>1
      <3>2. PICK y \in Int : y = upload'[u].kb
        BY <2>1
      <3>3. PICK b \in Int : b = before.upload[u].kb
        BY <2>1
      <3>4. x + OnRecord(nukes, u, "kb") + Underway(nuker, u, "kb") = b
        BY <2>2, <3>1, <3>3
      <3>5. y + OnRecord(nukes', u, "kb") + Owed(nuker'[t], u, "kb")
              = x + OnRecord(nukes, u, "kb") + Owed(nuker[t], u, "kb")
        BY <2>4, <3>1, <3>2
      <3>6. y + OnRecord(nukes', u, "kb") + Underway(nuker', u, "kb") = b
        BY <2>6, <3>4, <3>5, BookNumbers
      <3> QED BY <3>2, <3>3, <3>6
    <2>8. upload'[u].files + OnRecord(nukes', u, "files") + Underway(nuker', u, "files") >= before.upload[u].files
      BY <2>1, <2>3, <2>5, <2>6, BookNumbers
    <2> QED BY <2>7, <2>8
  <1> QED BY <1>1, <1>2 DEF Books

\* What the files of a directory count stays a number of every owner.
LEMMA DirFilesAt ==
  ASSUME DirTypes, DirFiles, NEW p \in Releases, NEW f, dir' = [dir EXCEPT ![p] = f],
         \A s \in Sides : SideFiles(f[s])
  PROVE  DirFiles'
PROOF
  <1>1. \A q \in Releases : dir'[q] = IF q = p THEN f ELSE dir[q]
    BY DEF DirTypes
  <1> QED BY <1>1 DEF DirFiles, SideFiles

\* The files of a directory are numbers after a change of one side.
LEMMA DirFilesChanged ==
  ASSUME DirTypes, DirFiles, NEW p \in Releases, NEW s \in Sides, NEW d, dir' = Changed(p, s, d), SideFiles(d)
  PROVE  DirFiles'
PROOF
  <1>1. PICK f : f = [dir[p] EXCEPT ![s] = d]
    OBVIOUS
  <1>2. \A o \in Sides : f[o] = IF o = s THEN d ELSE dir[p][o]
    BY <1>1 DEF DirTypes
  <1>3. \A o \in Sides : SideFiles(f[o])
    BY <1>2 DEF DirFiles
  <1>4. dir' = [dir EXCEPT ![p] = f]
    BY <1>1 DEF Changed
  <1> QED BY <1>3, <1>4, DirFilesAt

\* They are after a move from one side to the other.
LEMMA DirFilesMoved ==
  ASSUME DirTypes, DirFiles, NEW p \in Releases, NEW to \in Sides, NEW d, SideFiles(d),
         dir' = [dir EXCEPT ![p] = [s \in Sides |-> IF s = to THEN d ELSE Nil]]
  PROVE  DirFiles'
PROOF
  <1>1. PICK f : f = [s \in Sides |-> IF s = to THEN d ELSE Nil]
    OBVIOUS
  <1>2. \A s \in Sides : SideFiles(f[s])
    BY <1>1 DEF SideFiles
  <1>3. dir' = [dir EXCEPT ![p] = f]
    BY <1>1
  <1> QED BY <1>2, <1>3, DirFilesAt

\* They are after an id was written.
LEMMA DirFilesId ==
  ASSUME DirTypes, DirFiles, NEW p \in Releases, NEW s \in Sides, NEW id, dir' = SetNukeID(p, s, id)
  PROVE  DirFiles'
PROOF
  <1>1. CASE dir[p][s] = Nil
    BY <1>1 DEF SetNukeID, Exists, DirFiles, SideFiles
  <1>2. CASE dir[p][s] # Nil
    <2>1. PICK old : old = dir[p][s]
      OBVIOUS
    <2>2. PICK d : d = [old EXCEPT !.id = id]
      OBVIOUS
    <2>3. old = [files |-> old.files, owner |-> old.owner, id |-> old.id] /\ SideFiles(old)
      BY <1>2, <2>1 DEF DirTypes, SideShape, DirShape, DirFiles
    <2>4. d = [files |-> old.files, owner |-> old.owner, id |-> id]
      BY <2>2, <2>3
    <2>5. SideFiles(d)
      BY <1>2, <2>1, <2>3, <2>4 DEF SideFiles
    <2>6. dir' = Changed(p, s, d)
      BY <1>2, <2>1, <2>2 DEF SetNukeID, Exists
    <2> QED BY <2>5, <2>6, DirFilesChanged
  <1> QED BY <1>1, <1>2

\* The least number of a set is one of it.
LEMMA LeastOwner ==
  ASSUME NEW S \in SUBSET Nat, S # {}
  PROVE  Min(S) \in S
  BY LeastNumber DEF Min

\* The greater of zero and a number is a number.
LEMMA GreaterNumber ==
  ASSUME NEW x \in Int
  PROVE  Max({0, x}) \in Int
PROOF
  <1>1. \E y \in {0, x} : \A z \in {0, x} : y >= z
    OBVIOUS
  <1>2. Max({0, x}) \in {0, x}
    BY <1>1 DEF Max
  <1> QED BY <1>2

\* A new directory holds numbers of files.
LEMMA NewDirFiles ==
  ASSUME NukeAssumption, NEW f \in [Owners -> Nat]
  PROVE  SideFiles(NewDir(f))
PROOF
  <1>1. Min(Owners) \in Owners
    BY LeastOwner DEF NukeAssumption
  <1> QED BY <1>1 DEF SideFiles, NewDir

\* Every step leaves numbers of files.
LEMMA DirFilesNext ==
  ASSUME NukeAssumption, NukeInv, DirFiles, [Next]_vars
  PROVE  DirFiles'
PROOF
  <1>0. DirTypes /\ "plain" \in Sides /\ "nuked" \in Sides
    BY DEF NukeInv, NukeTypes, Sides
  <1>1. ASSUME UNCHANGED dir PROVE DirFiles'
    BY <1>1 DEF DirFiles, SideFiles
  <1>2. ASSUME NEW t \in Nukers, DeleteContents(t) PROVE DirFiles'
    <2>1. PICK p \in Releases : p = nuker[t].path
      BY <1>2, AtWork DEF DeleteContents, At
    <2>2. CASE dir[p]["plain"] # Nil /\ dir' = Changed(p, "plain", [dir[p]["plain"] EXCEPT !.files = NoFiles])
      <3>1. PICK old : old = dir[p]["plain"]
        OBVIOUS
      <3>2. PICK d : d = [old EXCEPT !.files = NoFiles]
        OBVIOUS
      <3>3. old = [files |-> old.files, owner |-> old.owner, id |-> old.id] /\ SideFiles(old)
        BY <1>0, <2>2, <3>1 DEF DirTypes, SideShape, DirShape, DirFiles
      <3>4. d = [files |-> NoFiles, owner |-> old.owner, id |-> old.id]
        BY <3>2, <3>3
      <3>5. SideFiles(d)
        BY <2>2, <3>1, <3>3, <3>4 DEF SideFiles, NoFiles
      <3>6. dir' = Changed(p, "plain", d)
        BY <2>2, <3>1, <3>2
      <3> QED BY <1>0, <3>5, <3>6, DirFilesChanged
    <2> QED BY <1>1, <1>2, <2>1, <2>2 DEF DeleteContents, Exists
  <1>3. ASSUME NEW t \in Nukers, ActionTheDirectory(t) PROVE DirFiles'
    <2>1. PICK p \in Releases : p = nuker[t].path
      BY <1>3, AtWork DEF ActionTheDirectory, At
    <2>2. CASE dir' = Changed(p, "plain", Nil)
      BY <1>0, <2>2, DirFilesChanged DEF SideFiles
    <2>3. CASE dir' = [dir EXCEPT ![p] = [s \in Sides |-> IF s = "nuked" THEN dir[p]["plain"] ELSE Nil]]
      <3>1. PICK d : d = dir[p]["plain"]
        OBVIOUS
      <3>2. SideFiles(d)
        BY <1>0, <3>1 DEF DirFiles
      <3>3. dir' = [dir EXCEPT ![p] = [s \in Sides |-> IF s = "nuked" THEN d ELSE Nil]]
        BY <2>3, <3>1
      <3> QED BY <1>0, <3>2, <3>3, DirFilesMoved
    <2>4. dir' \in {dir, Changed(p, "plain", Nil), RenameDirectory(p, "plain", "nuked")}
      BY <1>3, <2>1 DEF ActionTheDirectory
    <2> QED BY <1>1, <2>2, <2>3, <2>4 DEF RenameDirectory
  <1>4. ASSUME NEW t \in Nukers, NukeID(t) PROVE DirFiles'
    <2>1. PICK p \in Releases : p = nuker[t].path
      BY <1>4, AtWork DEF NukeID
    <2>2. PICK s \in Sides : dir' = SetNukeID(p, s, nuker[t].rec.id)
      BY <1>0, <1>4, <2>1 DEF NukeID
    <2>3. PICK id : dir' = SetNukeID(p, s, id)
      BY <2>2
    <2> QED BY <1>0, <2>3, DirFilesId
  <1>5. ASSUME NEW t \in Nukers, UnnukeRename(t) PROVE DirFiles'
    <2>1. PICK p \in Releases : p = nuker[t].path
      BY <1>5, AtWork DEF UnnukeRename, At
    <2>2. CASE CanRename(p, "nuked", "plain")
      <3>1. PICK old : old = dir[p]["nuked"]
        OBVIOUS
      <3>2. PICK d : d = [old EXCEPT !.id = Nil]
        OBVIOUS
      <3>3. old # Nil /\ old = [files |-> old.files, owner |-> old.owner, id |-> old.id] /\ SideFiles(old)
        BY <1>0, <2>2, <3>1 DEF DirTypes, SideShape, DirShape, DirFiles, CanRename, Exists
      <3>4. d = [files |-> old.files, owner |-> old.owner, id |-> Nil]
        BY <3>2, <3>3
      <3>5. SideFiles(d)
        BY <3>3, <3>4 DEF SideFiles
      <3>6. dir' = [dir EXCEPT ![p] = [s \in Sides |-> IF s = "plain" THEN d ELSE Nil]]
        BY <1>5, <2>1, <2>2, <3>1, <3>2 DEF UnnukeRename
      <3> QED BY <1>0, <3>5, <3>6, DirFilesMoved
    <2>3. CASE ~CanRename(p, "nuked", "plain")
      <3>1. dir' = SetNukeID(p, "nuked", Nil)
        BY <1>5, <2>1, <2>3 DEF UnnukeRename
      <3> QED BY <1>0, <3>1, DirFilesId
    <2> QED BY <2>2, <2>3
  <1>6. ASSUME NEW t \in Nukers, UnnukeID(t) PROVE DirFiles'
    <2>1. PICK p \in Releases : p = nuker[t].path
      BY <1>6, AtWork DEF UnnukeID, At
    <2>2. PICK id : dir' = SetNukeID(p, "plain", id)
      BY <1>6, <2>1 DEF UnnukeID
    <2> QED BY <1>0, <2>2, DirFilesId
  <1>7. ASSUME NEW p \in Releases, Mkd(p) PROVE DirFiles'
    <2>1. PICK d : d = NewDir(NoFiles)
      OBVIOUS
    <2>2. SideFiles(d)
      BY <2>1, NewDirFiles DEF NoFiles
    <2>3. dir' = Changed(p, "plain", d)
      BY <1>7, <2>1 DEF Mkd
    <2> QED BY <1>0, <2>2, <2>3, DirFilesChanged
  <1>8. ASSUME NEW p \in Releases, NEW u \in Owners, Stored(p, u) PROVE DirFiles'
    <2>1. PICK old : old = dir[p]["plain"]
      OBVIOUS
    <2>2. PICK f : f = [old.files EXCEPT ![u] = @ + 1]
      OBVIOUS
    <2>3. PICK d : d = [old EXCEPT !.files = f]
      OBVIOUS
    <2>4. old # Nil /\ old = [files |-> old.files, owner |-> old.owner, id |-> old.id] /\ SideFiles(old)
      BY <1>0, <1>8, <2>1 DEF DirTypes, SideShape, DirShape, DirFiles, Stored, Exists
    <2>5. d = [files |-> f, owner |-> old.owner, id |-> old.id]
      BY <2>3, <2>4
    <2>6. f \in [Owners -> Nat]
      BY <2>2, <2>4 DEF SideFiles
    <2>7. SideFiles(d)
      BY <2>4, <2>5, <2>6 DEF SideFiles
    <2>8. dir' = Changed(p, "plain", d)
      BY <1>8, <2>1, <2>2, <2>3 DEF Stored
    <2> QED BY <1>0, <2>7, <2>8, DirFilesChanged
  <1>9. CASE UNCHANGED vars
    BY <1>1, <1>9 DEF vars
  <1>10. CASE \E t \in Nukers : NUKECommand(t) \/ ToolNuke(t)
    BY <1>1, <1>10 DEF NUKECommand, ToolNuke, Nuke
  <1>11. CASE \E t \in Nukers : TakeCredits(t) \/ TakeStats(t) \/ NukeForget(t) \/ AddNuke(t)
    BY <1>1, <1>11 DEF TakeCredits, TakeStats, NukeForget, AddNuke
  <1>12. CASE \E t \in Nukers, p \in Releases : Unnuke(t, p)
    BY <1>1, <1>12 DEF Unnuke
  <1>13. CASE \E t \in Nukers : RestoreCredits(t) \/ RestoreStats(t) \/ UnnukeDel(t) \/ AddUnnuke(t)
    BY <1>1, <1>13 DEF RestoreCredits, RestoreStats, UnnukeDel, AddUnnuke
  <1>14. CASE \E u \in Owners : PurgeOwner(u)
    BY <1>1, <1>14 DEF PurgeOwner
  <1> QED BY <1>2, <1>3, <1>4, <1>5, <1>6, <1>7, <1>8, <1>9, <1>10, <1>11, <1>12, <1>13, <1>14 DEF Next

\* A thread that is given a job has it, and no other has moved.
LEMMA Placed ==
  ASSUME JobTypes, NEW t \in Nukers, NEW v, Put(t, v)
  PROVE  nuker'[t] = v /\ Alone(t)
  BY DEF JobTypes, Put, Alone

\* A thread that rests is idle.
LEMMA Freed ==
  ASSUME JobTypes, NEW t \in Nukers, Put(t, Resting)
  PROVE  nuker'[t].op = "idle" /\ Alone(t)
PROOF
  <1>1. PICK v : v = Resting
    OBVIOUS
  <1>2. nuker'[t] = v /\ Alone(t)
    BY <1>1, Placed
  <1>3. Resting.op = "idle"
    BY DEF Resting
  <1> QED BY <1>1, <1>2, <1>3

\* The fields of a command after a move to the next step.
LEMMA Went ==
  ASSUME JobTypes, NEW t \in Nukers, NEW at, Go(t, at)
  PROVE  /\ nuker'[t].op = nuker[t].op /\ nuker'[t].at = at /\ nuker'[t].multi = nuker[t].multi
         /\ nuker'[t].nukees = nuker[t].nukees /\ nuker'[t].todo = nuker[t].todo
         /\ nuker'[t].rec = nuker[t].rec /\ Alone(t)
PROOF
  <1>1. PICK j : j = nuker[t]
    OBVIOUS
  <1>2. PICK v : v = [j EXCEPT !.at = at]
    OBVIOUS
  <1>3. j = [op |-> j.op, at |-> j.at, path |-> j.path, multi |-> j.multi, nukees |-> j.nukees,
             todo |-> j.todo, rec |-> j.rec]
    BY <1>1 DEF JobTypes, JobShape
  <1>4. v = [op |-> j.op, at |-> at, path |-> j.path, multi |-> j.multi, nukees |-> j.nukees,
             todo |-> j.todo, rec |-> j.rec]
    BY <1>2, <1>3
  <1>5. nuker'[t] = v /\ Alone(t)
    BY <1>1, <1>2, Placed DEF Go
  <1> QED BY <1>1, <1>4, <1>5

\* A thread that keeps a record goes to its next step with it.
LEMMA WentWith ==
  ASSUME JobTypes, NEW t \in Nukers, NEW at, NEW rec, Keep(t, at, rec)
  PROVE  /\ nuker'[t].op = nuker[t].op /\ nuker'[t].at = at /\ nuker'[t].rec = rec /\ Alone(t)
PROOF
  <1>1. PICK j : j = nuker[t]
    OBVIOUS
  <1>2. PICK w : w = [j EXCEPT !.at = at]
    OBVIOUS
  <1>3. PICK v : v = [w EXCEPT !.rec = rec]
    OBVIOUS
  <1>4. j = [op |-> j.op, at |-> j.at, path |-> j.path, multi |-> j.multi, nukees |-> j.nukees,
             todo |-> j.todo, rec |-> j.rec]
    BY <1>1 DEF JobTypes, JobShape
  <1>5. w = [op |-> j.op, at |-> at, path |-> j.path, multi |-> j.multi, nukees |-> j.nukees,
             todo |-> j.todo, rec |-> j.rec]
    BY <1>2, <1>4
  <1>6. v = [op |-> j.op, at |-> at, path |-> j.path, multi |-> j.multi, nukees |-> j.nukees,
             todo |-> j.todo, rec |-> rec]
    BY <1>3, <1>5
  <1>7. nuker'[t] = v /\ Alone(t)
    BY <1>1, <1>2, <1>3, Placed DEF Keep
  <1> QED BY <1>1, <1>6, <1>7

\* The nukees of all threads keep their types when one moves.
LEMMA JobsKept ==
  ASSUME NukeeTypes, NEW t \in Nukers, Alone(t), JobNukees(nuker'[t]), UNCHANGED nukes
  PROVE  NukeeTypes'
PROOF
  <1>1. \A r \in Nukers : JobNukees(nuker'[r])
    BY DEF NukeeTypes, Alone
  <1> QED BY <1>1 DEF NukeeTypes, JobNukees

\* Credits and statistics that do not change keep their types.
LEMMA SameMoney ==
  ASSUME PurseTypes, TallyTypes, UNCHANGED <<purse, upload, known, before>>
  PROVE  PurseTypes' /\ TallyTypes'
  BY DEF PurseTypes, TallyTypes, Tally

\* A step that takes, returns and records nothing.
LEMMA QuietBooks ==
  ASSUME NukeAssumption, BookTypes, DirFiles', NEW t \in Nukers, Alone(t), JobNukees(nuker'[t]),
         UNCHANGED <<nukes, purse, upload, known, before>>, tangled' = {} => tangled = {},
         \A u, k : Owed(nuker'[t], u, k) = Owed(nuker[t], u, k),
         nuker'[t].op = "UNNUKE" /\ nuker'[t].at \in {"credits", "rename", "del"} =>
           nuker'[t].rec \in nukes \/ (nuker'[t].rec = nuker[t].rec /\ nuker[t].op = "UNNUKE"
                                       /\ nuker[t].at \in {"credits", "rename", "del"}),
         tangled = {} => OneRecord /\ Books
  PROVE  BookInv'
PROOF
  <1>1. BookTypes'
    BY SameMoney, JobsKept DEF BookTypes
  <1>2. ASSUME tangled' = {} PROVE OneRecord' /\ Books'
    <2>1. OneRecord /\ Books
      BY <1>2
    <2>2. OneRecord'
      BY <2>1 DEF OneRecord, Alone
    <2>3. CreditsSquare(t)
      BY DEF CreditsSquare
    <2>4. ASSUME NEW u \in Owners
          PROVE upload'[u].files + OnRecord(nukes', u, "files") + Owed(nuker'[t], u, "files")
                  >= upload[u].files + OnRecord(nukes, u, "files") + Owed(nuker[t], u, "files")
      <3>1. upload[u].files \in Int
        BY DEF BookTypes, TallyTypes, Tally
      <3>2. "files" \in Kinds
        BY DEF Kinds
      <3>3. OnRecord(nukes, u, "files") \in Int /\ Owed(nuker[t], u, "files") \in Int
        BY <1>1, <3>2, BookNumbers DEF NukeAssumption
      <3> QED BY <3>1, <3>3
    <2>5. StatsSquare(t)
      BY <2>4 DEF StatsSquare
    <2> QED BY <1>1, <2>1, <2>2, <2>3, <2>5, BooksStep DEF NukeAssumption
  <1> QED BY <1>1, <1>2 DEF BookInv

\* The steps on directories and unnuke records keep the books.
LEMMA QuietKeep ==
  ASSUME NukeAssumption, NukeInv, BookInv, DirFiles', NEW t \in Nukers,
         \/ NukeForget(t) \/ DeleteContents(t) \/ ActionTheDirectory(t) \/ NukeID(t)
         \/ UnnukeRename(t) \/ AddUnnuke(t) \/ UnnukeID(t)
  PROVE  BookInv'
PROOF
  <1>0. JobTypes /\ BookTypes /\ (tangled = {} => OneRecord /\ Books) /\ JobNukees(nuker[t])
    BY DEF NukeInv, NukeTypes, BookInv, BookTypes, NukeeTypes
  <1>1. CASE NukeForget(t)
    <2>1. /\ UNCHANGED <<nukes, purse, upload, known, before, tangled>> /\ Go(t, "add")
          /\ nuker[t].op = "NUKE" /\ nuker[t].at = "forget"
      BY <1>1 DEF NukeForget, At
    <2>2. /\ nuker'[t].op = "NUKE" /\ nuker'[t].at = "add" /\ nuker'[t].multi = nuker[t].multi
          /\ nuker'[t].nukees = nuker[t].nukees /\ nuker'[t].todo = nuker[t].todo /\ Alone(t)
      BY <1>0, <2>1, Went
    <2>3. JobNukees(nuker'[t])
      BY <1>0, <2>1, <2>2 DEF JobNukees
    <2>4. \A u, k : Owed(nuker'[t], u, k) = Owed(nuker[t], u, k)
      BY <2>1, <2>2 DEF Owed
    <2> QED BY <1>0, <2>1, <2>2, <2>3, <2>4, QuietBooks
  <1>2. CASE DeleteContents(t)
    <2>1. /\ UNCHANGED <<nukes, purse, upload, known, before, tangled>> /\ Go(t, "dir")
          /\ nuker[t].op = "NUKE" /\ nuker[t].at = "contents"
      BY <1>2 DEF DeleteContents, At
    <2>2. nuker'[t].op = "NUKE" /\ nuker'[t].at = "dir" /\ Alone(t)
      BY <1>0, <2>1, Went
    <2>3. JobNukees(nuker'[t]) /\ \A u, k : Owed(nuker'[t], u, k) = Owed(nuker[t], u, k)
      BY <2>1, <2>2 DEF Owed, JobNukees
    <2> QED BY <1>0, <2>1, <2>2, <2>3, QuietBooks
  <1>3. CASE ActionTheDirectory(t)
    <2>1. /\ UNCHANGED <<nukes, purse, upload, known, before, tangled>>
          /\ nuker[t].op = "NUKE" /\ nuker[t].at = "dir"
          /\ Put(t, Resting) \/ Go(t, "idPlain") \/ Go(t, "idNuked")
      BY <1>3 DEF ActionTheDirectory, At
    <2>2. /\ Alone(t) /\ nuker'[t].op # "UNNUKE"
          /\ nuker'[t].op = "idle" \/ nuker'[t].at \in {"idPlain", "idNuked"}
      <3>1. CASE Put(t, Resting)
        BY <1>0, <3>1, Freed
      <3>2. CASE Go(t, "idPlain") \/ Go(t, "idNuked")
        BY <1>0, <2>1, <3>2, Went
      <3> QED BY <2>1, <3>1, <3>2
    <2>3. JobNukees(nuker'[t]) /\ \A u, k : Owed(nuker'[t], u, k) = Owed(nuker[t], u, k)
      BY <2>1, <2>2 DEF Owed, JobNukees
    <2> QED BY <1>0, <2>1, <2>2, <2>3, QuietBooks
  <1>4. CASE NukeID(t)
    <2>1. /\ UNCHANGED <<nukes, purse, upload, known, before, tangled>> /\ Put(t, Resting)
          /\ nuker[t].op = "NUKE" /\ nuker[t].at \in {"idPlain", "idNuked"}
      BY <1>4 DEF NukeID
    <2>2. nuker'[t].op = "idle" /\ Alone(t)
      BY <1>0, <2>1, Freed
    <2>3. JobNukees(nuker'[t]) /\ \A u, k : Owed(nuker'[t], u, k) = Owed(nuker[t], u, k)
      BY <2>1, <2>2 DEF Owed, JobNukees
    <2> QED BY <1>0, <2>1, <2>2, <2>3, QuietBooks
  <1>5. CASE UnnukeRename(t)
    <2>1. /\ UNCHANGED <<nukes, purse, upload, known, before, tangled>> /\ Go(t, "del")
          /\ nuker[t].op = "UNNUKE" /\ nuker[t].at = "rename"
      BY <1>5 DEF UnnukeRename, At
    <2>2. /\ nuker'[t].op = "UNNUKE" /\ nuker'[t].at = "del" /\ nuker'[t].rec = nuker[t].rec
          /\ nuker'[t].todo = nuker[t].todo /\ Alone(t)
      BY <1>0, <2>1, Went
    <2>3. JobNukees(nuker'[t])
      BY <1>0, <2>1, <2>2 DEF JobNukees
    <2>4. \A u, k : Owed(nuker'[t], u, k) = Owed(nuker[t], u, k)
      BY <2>1, <2>2 DEF Owed
    <2> QED BY <1>0, <2>1, <2>2, <2>3, <2>4, QuietBooks
  <1>6. CASE AddUnnuke(t)
    <2>1. /\ UNCHANGED <<nukes, purse, upload, known, before, tangled>>
          /\ nuker[t].op = "UNNUKE" /\ nuker[t].at = "add"
      BY <1>6 DEF AddUnnuke, At
    <2>2. PICK rec : Keep(t, "id", rec)
      BY <1>6 DEF AddUnnuke
    <2>3. nuker'[t].op = "UNNUKE" /\ nuker'[t].at = "id" /\ Alone(t)
      BY <1>0, <2>1, <2>2, WentWith
    <2>4. JobNukees(nuker'[t]) /\ \A u, k : Owed(nuker'[t], u, k) = Owed(nuker[t], u, k)
      BY <2>1, <2>3 DEF Owed, JobNukees
    <2> QED BY <1>0, <2>1, <2>3, <2>4, QuietBooks
  <1>7. CASE UnnukeID(t)
    <2>1. /\ UNCHANGED <<nukes, purse, upload, known, before, tangled>> /\ Put(t, Resting)
          /\ nuker[t].op = "UNNUKE" /\ nuker[t].at = "id"
      BY <1>7 DEF UnnukeID, At
    <2>2. nuker'[t].op = "idle" /\ Alone(t)
      BY <1>0, <2>1, Freed
    <2>3. JobNukees(nuker'[t]) /\ \A u, k : Owed(nuker'[t], u, k) = Owed(nuker[t], u, k)
      BY <2>1, <2>2 DEF Owed, JobNukees
    <2> QED BY <1>0, <2>1, <2>2, <2>3, QuietBooks
  <1> QED BY <1>1, <1>2, <1>3, <1>4, <1>5, <1>6, <1>7

\* The start of a command. CalculateNukees and TakeCredits begin with credits of 0.
LEMMA NukeBooks ==
  ASSUME NukeAssumption, NukeInv, BookInv, DirFiles', NEW t \in Nukers, NEW p \in Releases, NEW m,
         m.value \in Int, Nuke(t, p, m)
  PROVE  BookInv'
PROOF
  <1>0. JobTypes /\ BookTypes /\ (tangled = {} => OneRecord /\ Books)
    BY DEF NukeInv, NukeTypes, BookInv
  <1>1. /\ UNCHANGED <<nukes, purse, upload, known, before>> /\ (tangled' = {} => tangled = {})
        /\ nuker[t].op = "idle"
    BY DEF Nuke, Begin
  <1>2. PICK f : f = dir[p]["plain"].files
    OBVIOUS
  <1>3. f \in [Owners -> Nat] /\ dir[p]["plain"].owner \in Owners
    BY <1>2 DEF Nuke, Exists, BookInv, BookTypes, DirFiles, SideFiles, Sides
  <1> DEFINE D == {o \in Owners : f[o] > 0}
  <1>4. PICK ns : ns = [u \in D |-> [kb |-> f[u] * FileKBytes, files |-> f[u], credits |-> 0]]
    OBVIOUS
  <1>5. CalculateNukees(p) = ns /\ DOMAIN ns = D
    BY <1>2, <1>4 DEF CalculateNukees
  <1>6. PICK pen : pen = Penalised(p, m, ns)
    OBVIOUS
  <1>7. pen \in SUBSET Owners
    BY <1>3, <1>5, <1>6 DEF Penalised
  <1>8. PICK all : all = [u \in DOMAIN ns \cup pen |-> IF u \in DOMAIN ns THEN ns[u]
                                                      ELSE [kb |-> 0, files |-> 0, credits |-> 0]]
    OBVIOUS
  <1>9. PICK v : v = [op |-> "NUKE", at |-> "credits", path |-> p, multi |-> m, nukees |-> all,
                      todo |-> pen, rec |-> Nil]
    OBVIOUS
  <1>10. Put(t, v)
    BY <1>5, <1>6, <1>8, <1>9 DEF Nuke
  <1>11. nuker'[t] = v /\ Alone(t)
    BY <1>0, <1>10, Placed
  <1>12. \A u \in D : f[u] * FileKBytes \in Nat
    <2>1. \A a, b \in Nat : a * b \in Nat
      OBVIOUS
    <2> QED BY <1>3, <2>1 DEF NukeAssumption
  <1>13. DOMAIN all = D \cup pen /\ all = [u \in DOMAIN all |-> all[u]]
    BY <1>5, <1>8
  <1>14. ASSUME NEW u \in DOMAIN all
         PROVE  /\ all[u] = [kb |-> all[u].kb, files |-> all[u].files, credits |-> all[u].credits]
                /\ all[u].kb \in Nat /\ all[u].files \in Nat /\ all[u].credits = 0
    <2>1. CASE u \in D
      <3>1. all[u] = [kb |-> f[u] * FileKBytes, files |-> f[u], credits |-> 0]
        BY <1>4, <1>5, <1>8, <2>1
      <3>2. f[u] \in Nat /\ f[u] * FileKBytes \in Nat
        BY <1>3, <1>12, <2>1
      <3> QED BY <3>1, <3>2
    <2>2. CASE u \notin D
      <3>1. all[u] = [kb |-> 0, files |-> 0, credits |-> 0]
        BY <1>5, <1>8, <1>13, <2>2
      <3> QED BY <3>1
    <2> QED BY <2>1, <2>2
  <1>15. NukeesType(all) /\ pen \in SUBSET DOMAIN all
    BY <1>7, <1>13, <1>14 DEF NukeesType
  <1>16. JobNukees(nuker'[t])
    BY <1>9, <1>11, <1>14, <1>15 DEF JobNukees
  <1>17. \A u : Part(all, u, "credits") = 0
    BY <1>14 DEF Part
  <1>18. \A u, k : Owed(nuker'[t], u, k) = 0 /\ Owed(nuker[t], u, k) = 0
    BY <1>1, <1>9, <1>11, <1>17 DEF Owed
  <1>19. nuker'[t].op = "NUKE"
    BY <1>9, <1>11
  <1> QED BY <1>0, <1>1, <1>11, <1>16, <1>18, <1>19, QuietBooks

\* UNNUKE begins with the nukees of the record that it will undo.
LEMMA UnnukeBooks ==
  ASSUME NukeAssumption, NukeInv, BookInv, DirFiles', NEW t \in Nukers, NEW p \in Releases, Unnuke(t, p)
  PROVE  BookInv'
PROOF
  <1>0. JobTypes /\ BookTypes /\ (tangled = {} => OneRecord /\ Books)
    BY DEF NukeInv, NukeTypes, BookInv
  <1>1. /\ UNCHANGED <<nukes, purse, upload, known, before>> /\ (tangled' = {} => tangled = {})
        /\ nuker[t].op = "idle"
    BY DEF Unnuke, Begin
  <1>2. PICK n \in Lookup(nukes, GetNukeID(p, "nuked"), p) :
          Put(t, [op |-> "UNNUKE", at |-> "credits", path |-> p, multi |-> Nil, nukees |-> <<>>,
                      todo |-> DOMAIN n.nukees, rec |-> n])
    BY DEF Unnuke
  <1>3. n \in nukes
    BY <1>2, FoundRecord DEF Sides
  <1>4. PICK v : v = [op |-> "UNNUKE", at |-> "credits", path |-> p, multi |-> Nil, nukees |-> <<>>,
                      todo |-> DOMAIN n.nukees, rec |-> n]
    OBVIOUS
  <1>5. nuker'[t] = v /\ Alone(t)
    BY <1>0, <1>2, <1>4, Placed
  <1>6. v.op = "UNNUKE" /\ v.at = "credits" /\ v.todo = DOMAIN n.nukees /\ v.rec = n
    BY <1>4
  <1>7. NukeesType(n.nukees)
    BY <1>0, <1>3 DEF BookTypes, NukeeTypes
  <1>8. JobNukees(nuker'[t])
    BY <1>5, <1>6, <1>7 DEF JobNukees
  <1>9. \A u, k : Owed(nuker'[t], u, k) = 0 /\ Owed(nuker[t], u, k) = 0
    BY <1>1, <1>5, <1>6 DEF Owed, Part
  <1> QED BY <1>0, <1>1, <1>3, <1>5, <1>6, <1>8, <1>9, QuietBooks

\* What a step has to show that takes or returns: nothing of the records changes.
LEMMA MoneyBooks ==
  ASSUME NukeAssumption, BookInv, DirFiles', PurseTypes', TallyTypes', NEW t \in Nukers, Alone(t),
         JobNukees(nuker'[t]), UNCHANGED <<nukes, known, before, tangled>>,
         nuker'[t].op = nuker[t].op, nuker'[t].rec = nuker[t].rec, nuker[t].at = "credits",
         \A u \in known : before.purse[u] # Nil =>
           purse'[u] + Owed(nuker'[t], u, "credits") = purse[u] + Owed(nuker[t], u, "credits"),
         \A u \in Owners : /\ upload'[u].kb + Owed(nuker'[t], u, "kb") = upload[u].kb + Owed(nuker[t], u, "kb")
                           /\ upload'[u].files + Owed(nuker'[t], u, "files")
                                >= upload[u].files + Owed(nuker[t], u, "files")
  PROVE  BookInv'
PROOF
  <1>1. BookTypes /\ (tangled = {} => OneRecord /\ Books)
    BY DEF BookInv
  <1>2. BookTypes'
    BY <1>1, JobsKept DEF BookTypes
  <1>3. \A u, k : k \in Kinds => /\ OnRecord(nukes, u, k) \in Int /\ Owed(nuker[t], u, k) \in Int
                                 /\ Owed(nuker'[t], u, k) \in Int
    BY <1>1, <1>2, BookNumbers DEF NukeAssumption
  <1>4. "credits" \in Kinds /\ "kb" \in Kinds /\ "files" \in Kinds
    BY DEF Kinds
  <1>5. ASSUME NEW u \in known, before.purse[u] # Nil
        PROVE  purse'[u] + OnRecord(nukes', u, "credits") + Owed(nuker'[t], u, "credits")
                 = purse[u] + OnRecord(nukes, u, "credits") + Owed(nuker[t], u, "credits")
    <2>1. purse[u] \in Int /\ purse'[u] \in Int
      BY <1>1, <1>2, <1>5 DEF BookTypes, PurseTypes
    <2> QED BY <1>3, <1>4, <1>5, <2>1
  <1>6. ASSUME NEW u \in Owners
        PROVE  /\ upload'[u].kb + OnRecord(nukes', u, "kb") + Owed(nuker'[t], u, "kb")
                    = upload[u].kb + OnRecord(nukes, u, "kb") + Owed(nuker[t], u, "kb")
               /\ upload'[u].files + OnRecord(nukes', u, "files") + Owed(nuker'[t], u, "files")
                    >= upload[u].files + OnRecord(nukes, u, "files") + Owed(nuker[t], u, "files")
    <2>1. PICK a \in Int, b \in Int, c \in Int, d \in Int :
            a = upload[u].kb /\ b = upload'[u].kb /\ c = upload[u].files /\ d = upload'[u].files
      BY <1>1, <1>2 DEF BookTypes, TallyTypes, Tally
    <2>2. b + Owed(nuker'[t], u, "kb") = a + Owed(nuker[t], u, "kb")
      BY <2>1
    <2>3. d + Owed(nuker'[t], u, "files") >= c + Owed(nuker[t], u, "files")
      BY <2>1
    <2>4. b + OnRecord(nukes', u, "kb") + Owed(nuker'[t], u, "kb")
            = a + OnRecord(nukes, u, "kb") + Owed(nuker[t], u, "kb")
      BY <1>3, <1>4, <2>2
    <2>5. d + OnRecord(nukes', u, "files") + Owed(nuker'[t], u, "files")
            >= c + OnRecord(nukes, u, "files") + Owed(nuker[t], u, "files")
      BY <1>3, <1>4, <2>3
    <2> QED BY <2>1, <2>4, <2>5
  <1>7. CreditsSquare(t) /\ StatsSquare(t)
    BY <1>5, <1>6 DEF CreditsSquare, StatsSquare
  <1>8. ASSUME tangled' = {} PROVE OneRecord' /\ Books'
    <2>1. OneRecord /\ Books
      BY <1>1, <1>8
    <2>2. OneRecord'
      BY <2>1 DEF OneRecord, Alone
    <2> QED BY <1>1, <1>2, <1>7, <2>1, <2>2, BooksStep DEF NukeAssumption
  <1> QED BY <1>2, <1>8 DEF BookInv

\* TakeCredits decrements by what it notes down for the record.
LEMMA TakeCreditsBooks ==
  ASSUME NukeAssumption, NukeInv, BookInv, DirFiles', NEW t \in Nukers, TakeCredits(t)
  PROVE  BookInv'
PROOF
  <1>0. JobTypes /\ BookTypes /\ (tangled = {} => OneRecord /\ Books) /\ JobNukees(nuker[t])
    BY DEF NukeInv, NukeTypes, BookInv, BookTypes, NukeeTypes
  <1>1. /\ UNCHANGED <<nukes, upload, known, before, tangled>>
        /\ nuker[t].op = "NUKE" /\ nuker[t].at = "credits" /\ nuker[t].todo # {}
    BY DEF TakeCredits, At
  <1>2. PICK j : j = nuker[t]
    OBVIOUS
  <1>3. /\ NukeesType(j.nukees) /\ j.todo \in SUBSET DOMAIN j.nukees /\ j.multi.value \in Int
        /\ \A u \in j.todo : j.nukees[u].credits = 0
    BY <1>0, <1>1, <1>2 DEF JobNukees
  <1>4. PICK u : u = Min(j.todo)
    OBVIOUS
  <1>5. u \in j.todo /\ u \in DOMAIN j.nukees /\ u \in Owners
    <2>1. j.todo \in SUBSET Owners
      BY <1>3 DEF NukeesType
    <2>2. j.todo \in SUBSET Nat /\ j.todo # {}
      BY <1>1, <1>2, <2>1 DEF NukeAssumption
    <2>3. u \in j.todo
      BY <1>4, <2>2, LeastOwner
    <2> QED BY <1>3, <2>1, <2>3
  <1>10. PICK old : old = j.nukees[u]
    OBVIOUS
  <1>11. old = [kb |-> old.kb, files |-> old.files, credits |-> old.credits] /\ old.kb \in Nat /\ old.files \in Nat
    BY <1>3, <1>5, <1>10 DEF NukeesType
  <1>6. PICK c : c = IF TotalKBytes(j.nukees) < EmptyKBytes THEN TakeCreditsEmpty(u, j.nukees[u])
                     ELSE TakeCreditsNotEmpty(u, j.nukees[u], j.multi)
    OBVIOUS
  <1>7. c \in Int
    <2>1. TakeCreditsEmpty(u, j.nukees[u]) \in Int
      BY DEF TakeCreditsEmpty, NukeAssumption
    <2>2. TakeCreditsNotEmpty(u, j.nukees[u], j.multi) \in Int
      <3>1. PICK m \in Int : m = j.multi.value
        BY <1>3
      <3>2. PICK kb \in Int : kb = j.nukees[u].kb
        BY <1>10, <1>11
      <3>3. PICK r \in Int : r = Ratio[u]
        BY <1>5 DEF NukeAssumption
      <3>4. PICK have \in Int : have = IF purse[u] = Nil THEN 0 ELSE purse[u]
        BY <1>0, <1>5 DEF BookTypes, PurseTypes
      <3>5. \A a, b \in Int : a * b \in Int /\ a \div 100 \in Int
        OBVIOUS
      <3>6. (have * m) \div 100 \in Int /\ kb * r + kb * (m - 1) \in Int
        BY <3>5
      <3>7. Max({0, (have * m) \div 100}) \in Int
        BY <3>6, GreaterNumber
      <3> QED BY <3>1, <3>2, <3>3, <3>4, <3>6, <3>7 DEF TakeCreditsNotEmpty
    <2> QED BY <1>6, <2>1, <2>2
  <1>8. CASE UNCHANGED <<purse, nuker>>
    <2>1. Alone(t) /\ JobNukees(nuker'[t]) /\ \A x, k : Owed(nuker'[t], x, k) = Owed(nuker[t], x, k)
      BY <1>0, <1>8 DEF Alone
    <2>2. nuker'[t].op = "NUKE"
      BY <1>1, <1>8
    <2> QED BY <1>0, <1>1, <1>8, <2>1, <2>2, QuietBooks
  <1>9. CASE ~(UNCHANGED <<purse, nuker>>)
    <2>1. PICK one : one = [j.nukees[u] EXCEPT !.credits = c]
      OBVIOUS
    <2>2. PICK ns : ns = [j.nukees EXCEPT ![u] = one]
      OBVIOUS
    <2>3. PICK w : w = [j EXCEPT !.todo = j.todo \ {u}]
      OBVIOUS
    <2>4. PICK v : v = [w EXCEPT !.nukees = ns]
      OBVIOUS
    <2>5. /\ Put(t, v)
          /\ purse' = IF u \in known THEN DecrSectionCreditsForce(u, c) ELSE purse
      BY <1>2, <1>4, <1>6, <1>9, <2>1, <2>2, <2>3, <2>4 DEF TakeCredits
    <2>6. j = [op |-> j.op, at |-> j.at, path |-> j.path, multi |-> j.multi, nukees |-> j.nukees,
               todo |-> j.todo, rec |-> j.rec]
      BY <1>0, <1>2 DEF JobTypes, JobShape
    <2>7. w = [op |-> j.op, at |-> j.at, path |-> j.path, multi |-> j.multi, nukees |-> j.nukees,
               todo |-> j.todo \ {u}, rec |-> j.rec]
      BY <2>3, <2>6
    <2>8. v = [op |-> j.op, at |-> j.at, path |-> j.path, multi |-> j.multi, nukees |-> ns,
               todo |-> j.todo \ {u}, rec |-> j.rec]
      BY <2>4, <2>7
    <2>9. nuker'[t] = v /\ Alone(t)
      BY <1>0, <2>5, Placed
    <2>10. one = [kb |-> old.kb, files |-> old.files, credits |-> c]
      BY <1>10, <1>11, <2>1
    <2>11. /\ DOMAIN ns = DOMAIN j.nukees /\ ns = [x \in DOMAIN ns |-> ns[x]]
           /\ ns[u] = one /\ \A x \in DOMAIN ns \ {u} : ns[x] = j.nukees[x]
      BY <1>3, <1>5, <2>2 DEF NukeesType
    <2>12. NukeesType(ns)
      <3>1. one.kb \in Nat /\ one.files \in Nat /\ one.credits \in Int
            /\ one = [kb |-> one.kb, files |-> one.files, credits |-> one.credits]
        BY <1>7, <1>11, <2>10
      <3> QED BY <1>3, <2>11, <3>1 DEF NukeesType
    <2>13. /\ nuker'[t].op = "NUKE" /\ nuker'[t].at = "credits" /\ nuker'[t].rec = nuker[t].rec
           /\ nuker'[t].nukees = ns /\ nuker'[t].todo = j.todo \ {u} /\ nuker'[t].multi = j.multi
      BY <1>1, <1>2, <2>8, <2>9
    <2>14. JobNukees(nuker'[t])
      <3>1. \A x \in j.todo \ {u} : ns[x].credits = 0
        BY <1>3, <2>11
      <3>2. j.todo \ {u} \in SUBSET DOMAIN ns
        BY <1>3, <2>11
      <3> QED BY <1>3, <2>12, <2>13, <3>1, <3>2 DEF JobNukees
    <2>15. purse \in [Owners -> Int \cup {Nil}] /\ Nil \notin Int
      BY <1>0 DEF BookTypes, PurseTypes, NukeAssumption
    <2>16. \A x \in Owners : purse'[x] = IF x = u /\ u \in known /\ purse[u] # Nil THEN purse[u] - c ELSE purse[x]
      BY <1>5, <2>5, <2>15 DEF DecrSectionCreditsForce
    <2>17. purse' \in [Owners -> Int \cup {Nil}]
      <3>1. CASE purse' = purse
        BY <2>15, <3>1
      <3>2. CASE purse' = [purse EXCEPT ![u] = purse[u] - c] /\ purse[u] # Nil
        <4>1. purse[u] - c \in Int
          BY <1>5, <1>7, <2>15, <3>2
        <4> QED BY <2>15, <3>2, <4>1
      <3> QED BY <2>5, <3>1, <3>2 DEF DecrSectionCreditsForce
    <2>18. PurseTypes'
      <3>1. ASSUME NEW x \in Owners, before'.purse[x] # Nil PROVE purse'[x] \in Int /\ before'.purse[x] \in Int
        <4>1. purse[x] \in Int /\ before.purse[x] \in Int
          BY <1>0, <1>1, <3>1 DEF BookTypes, PurseTypes
        <4> QED BY <1>1, <1>7, <2>16, <4>1
      <3> QED BY <1>0, <1>1, <2>17, <3>1 DEF BookTypes, PurseTypes
    <2>19. TallyTypes'
      BY <1>0, <1>1 DEF BookTypes, TallyTypes, Tally
    <2>20. ASSUME NEW x \in known, before.purse[x] # Nil
           PROVE  purse'[x] + Owed(nuker'[t], x, "credits") = purse[x] + Owed(nuker[t], x, "credits")
      <3>1. x \in Owners /\ purse[x] \in Int
        BY <1>0, <2>20 DEF BookTypes, PurseTypes
      <3>2. Owed(nuker'[t], x, "credits") = Part(ns, x, "credits")
            /\ Owed(nuker[t], x, "credits") = Part(j.nukees, x, "credits")
        BY <1>1, <1>2, <2>13 DEF Owed
      <3>3. CASE x = u
        <4>1. Part(ns, x, "credits") = c /\ Part(j.nukees, x, "credits") = 0
          BY <1>3, <1>5, <2>10, <2>11, <3>3 DEF Part
        <4>2. purse'[x] = purse[x] - c
          BY <2>15, <2>16, <2>20, <3>1, <3>3
        <4> QED BY <1>7, <3>1, <3>2, <4>1, <4>2
      <3>4. CASE x # u
        <4>1. Part(ns, x, "credits") = Part(j.nukees, x, "credits")
          BY <2>11, <3>4 DEF Part
        <4> QED BY <2>16, <3>1, <3>2, <3>4, <4>1
      <3> QED BY <3>3, <3>4
    <2>21. ASSUME NEW x \in Owners
           PROVE  /\ upload'[x].kb + Owed(nuker'[t], x, "kb") = upload[x].kb + Owed(nuker[t], x, "kb")
                  /\ upload'[x].files + Owed(nuker'[t], x, "files") >= upload[x].files + Owed(nuker[t], x, "files")
      <3>1. \A k \in {"kb", "files"} : Owed(nuker'[t], x, k) = 0 /\ Owed(nuker[t], x, k) = 0
        BY <1>1, <2>13 DEF Owed
      <3>2. upload[x].files \in Int
        BY <1>0 DEF BookTypes, TallyTypes, Tally
      <3> QED BY <1>1, <3>1, <3>2
    <2>22. nuker'[t].op = nuker[t].op
      BY <1>1, <2>13
    <2> QED BY <1>1, <2>9, <2>13, <2>14, <2>18, <2>19, <2>20, <2>21, <2>22, MoneyBooks
  <1> QED BY <1>8, <1>9

\* RestoreCredits increments by what the record says.
LEMMA RestoreCreditsBooks ==
  ASSUME NukeAssumption, NukeInv, BookInv, DirFiles', NEW t \in Nukers, RestoreCredits(t)
  PROVE  BookInv'
PROOF
  <1>0. JobTypes /\ BookTypes /\ JobNukees(nuker[t])
    BY DEF NukeInv, NukeTypes, BookInv, BookTypes, NukeeTypes
  <1>1. /\ UNCHANGED <<nukes, upload, known, before, tangled>>
        /\ nuker[t].op = "UNNUKE" /\ nuker[t].at = "credits" /\ nuker[t].todo # {}
    BY DEF RestoreCredits, At
  <1>2. PICK j : j = nuker[t]
    OBVIOUS
  <1>3. NukeesType(j.rec.nukees) /\ j.todo \in SUBSET DOMAIN j.rec.nukees
    BY <1>0, <1>1, <1>2 DEF JobNukees
  <1>4. PICK u : u = Min(j.todo)
    OBVIOUS
  <1>5. u \in j.todo /\ u \in DOMAIN j.rec.nukees /\ u \in Owners
    <2>1. j.todo \in SUBSET Owners
      BY <1>3 DEF NukeesType
    <2>2. j.todo \in SUBSET Nat /\ j.todo # {}
      BY <1>1, <1>2, <2>1 DEF NukeAssumption
    <2>3. u \in j.todo
      BY <1>4, <2>2, LeastOwner
    <2> QED BY <1>3, <2>1, <2>3
  <1>6. PICK c \in Int : c = j.rec.nukees[u].credits
    BY <1>3, <1>5 DEF NukeesType
  <1>7. PICK v : v = [j EXCEPT !.todo = j.todo \ {u}]
    OBVIOUS
  <1>8. Put(t, v) /\ purse' = IF u \in known THEN IncrSectionCredits(u, c) ELSE purse
    BY <1>2, <1>4, <1>6, <1>7 DEF RestoreCredits
  <1>9. j = [op |-> j.op, at |-> j.at, path |-> j.path, multi |-> j.multi, nukees |-> j.nukees,
             todo |-> j.todo, rec |-> j.rec]
    BY <1>0, <1>2 DEF JobTypes, JobShape
  <1>10. v = [op |-> j.op, at |-> j.at, path |-> j.path, multi |-> j.multi, nukees |-> j.nukees,
              todo |-> j.todo \ {u}, rec |-> j.rec]
    BY <1>7, <1>9
  <1>11. nuker'[t] = v /\ Alone(t)
    BY <1>0, <1>8, Placed
  <1>12. /\ nuker'[t].op = "UNNUKE" /\ nuker'[t].at = "credits" /\ nuker'[t].rec = j.rec
         /\ nuker'[t].todo = j.todo \ {u}
    BY <1>1, <1>2, <1>10, <1>11
  <1>13. JobNukees(nuker'[t])
    BY <1>3, <1>12 DEF JobNukees
  <1>14. purse \in [Owners -> Int \cup {Nil}] /\ Nil \notin Int
    BY <1>0 DEF BookTypes, PurseTypes, NukeAssumption
  <1>15. \A x \in Owners : purse'[x] = IF x = u /\ u \in known
                                       THEN IF purse[u] = Nil THEN c ELSE purse[u] + c ELSE purse[x]
    BY <1>5, <1>8, <1>14 DEF IncrSectionCredits
  <1>16. purse' \in [Owners -> Int \cup {Nil}]
    <2>1. (IF purse[u] = Nil THEN c ELSE purse[u] + c) \in Int
      BY <1>5, <1>14
    <2> QED BY <1>8, <1>14, <2>1 DEF IncrSectionCredits
  <1>17. PurseTypes'
    <2>1. ASSUME NEW x \in Owners, before'.purse[x] # Nil PROVE purse'[x] \in Int /\ before'.purse[x] \in Int
      <3>1. purse[x] \in Int /\ before.purse[x] \in Int
        BY <1>0, <1>1, <2>1 DEF BookTypes, PurseTypes
      <3> QED BY <1>1, <1>6, <1>15, <3>1
    <2> QED BY <1>0, <1>1, <1>16, <2>1 DEF BookTypes, PurseTypes
  <1>18. TallyTypes'
    BY <1>0, <1>1 DEF BookTypes, TallyTypes, Tally
  <1>19. ASSUME NEW x \in known, before.purse[x] # Nil
         PROVE  purse'[x] + Owed(nuker'[t], x, "credits") = purse[x] + Owed(nuker[t], x, "credits")
    <2>1. x \in Owners /\ purse[x] \in Int
      BY <1>0, <1>19 DEF BookTypes, PurseTypes
    <2>2. CASE x = u
      <3>1. Owed(nuker[t], x, "credits") = 0
        BY <1>1, <1>2, <1>5, <2>2 DEF Owed
      <3>2. Part(j.rec.nukees, x, "credits") = c
        BY <1>5, <1>6, <2>2 DEF Part
      <3>3. Owed(nuker'[t], x, "credits") = 0 - c
        BY <1>12, <2>2, <3>2 DEF Owed
      <3>4. purse'[x] = purse[x] + c
        BY <1>14, <1>15, <1>19, <2>1, <2>2
      <3> QED BY <2>1, <3>1, <3>3, <3>4
    <2>3. CASE x # u
      <3>1. Owed(nuker'[t], x, "credits") = Owed(nuker[t], x, "credits")
        BY <1>1, <1>2, <1>12, <2>3 DEF Owed
      <3> QED BY <1>15, <2>1, <2>3, <3>1
    <2> QED BY <2>2, <2>3
  <1>20. ASSUME NEW x \in Owners
         PROVE  /\ upload'[x].kb + Owed(nuker'[t], x, "kb") = upload[x].kb + Owed(nuker[t], x, "kb")
                /\ upload'[x].files + Owed(nuker'[t], x, "files") >= upload[x].files + Owed(nuker[t], x, "files")
    <2>1. \A k \in {"kb", "files"} : Owed(nuker'[t], x, k) = 0 /\ Owed(nuker[t], x, k) = 0
      BY <1>1, <1>12 DEF Owed
    <2>2. upload[x].files \in Int
      BY <1>0 DEF BookTypes, TallyTypes, Tally
    <2> QED BY <1>1, <2>1, <2>2
  <1>21. nuker'[t].op = nuker[t].op /\ nuker'[t].rec = nuker[t].rec
    BY <1>1, <1>2, <1>12
  <1> QED BY <1>1, <1>11, <1>13, <1>17, <1>18, <1>19, <1>20, <1>21, MoneyBooks

\* NUKE takes from the statistics what it will record.
LEMMA TakeStatsBooks ==
  ASSUME NukeAssumption, NukeInv, BookInv, DirFiles', NEW t \in Nukers, TakeStats(t)
  PROVE  BookInv'
PROOF
  <1>0. JobTypes /\ BookTypes /\ JobNukees(nuker[t])
    BY DEF NukeInv, NukeTypes, BookInv, BookTypes, NukeeTypes
  <1>1. /\ UNCHANGED <<nukes, purse, known, before, tangled>> /\ Go(t, "forget")
        /\ nuker[t].op = "NUKE" /\ nuker[t].at = "credits" /\ nuker[t].todo = {}
    BY DEF TakeStats, At
  <1>2. PICK ns : ns = nuker[t].nukees
    OBVIOUS
  <1>3. NukeesType(ns)
    BY <1>0, <1>1, <1>2 DEF JobNukees
  <1>4. /\ nuker'[t].op = "NUKE" /\ nuker'[t].at = "forget" /\ nuker'[t].multi = nuker[t].multi
        /\ nuker'[t].nukees = ns /\ nuker'[t].todo = {} /\ nuker'[t].rec = nuker[t].rec /\ Alone(t)
    BY <1>0, <1>1, <1>2, Went
  <1>5. JobNukees(nuker'[t])
    BY <1>0, <1>1, <1>2, <1>4 DEF JobNukees
  <1> DEFINE Taken(u) == u \in DOMAIN ns /\ ns[u].kb > 0
  <1>6. upload' = [u \in Owners |->
          IF Taken(u) THEN [kb |-> upload[u].kb - ns[u].kb, files |-> upload[u].files - ns[u].files]
          ELSE upload[u]]
    BY <1>2 DEF TakeStats
  <1>7. \A u \in Owners : /\ upload[u] = [kb |-> upload[u].kb, files |-> upload[u].files]
                          /\ upload[u].kb \in Int /\ upload[u].files \in Int
    BY <1>0 DEF BookTypes, TallyTypes, Tally
  <1>8. \A u \in DOMAIN ns : ns[u].kb \in Nat /\ ns[u].files \in Nat
    BY <1>3 DEF NukeesType
  <1>9. ASSUME NEW u \in Owners
        PROVE  /\ upload'[u] = [kb |-> upload'[u].kb, files |-> upload'[u].files]
               /\ upload'[u].kb \in Int /\ upload'[u].files \in Int
               /\ upload'[u].kb + Part(ns, u, "kb") = upload[u].kb
               /\ upload'[u].files + Part(ns, u, "files") >= upload[u].files
    <2>1. CASE Taken(u)
      <3>1. upload'[u] = [kb |-> upload[u].kb - ns[u].kb, files |-> upload[u].files - ns[u].files]
        BY <1>6, <2>1
      <3>2. Part(ns, u, "kb") = ns[u].kb /\ Part(ns, u, "files") = ns[u].files
        BY <2>1 DEF Part
      <3>3. PICK a \in Int, b \in Int : a = upload[u].kb /\ b = upload[u].files
        BY <1>7
      <3>4. PICK x \in Nat, y \in Nat : x = ns[u].kb /\ y = ns[u].files
        BY <1>8, <2>1
      <3>5. upload'[u] = [kb |-> a - x, files |-> b - y]
        BY <3>1, <3>3, <3>4
      <3>6. a - x \in Int /\ b - y \in Int /\ a - x + x = a /\ b - y + y >= b
        OBVIOUS
      <3> QED BY <3>2, <3>3, <3>4, <3>5, <3>6
    <2>2. CASE ~Taken(u)
      <3>1. upload'[u] = upload[u]
        BY <1>6, <2>2
      <3>2. Part(ns, u, "kb") = 0 /\ Part(ns, u, "files") \in Nat
        BY <1>8, <2>2 DEF Part
      <3> QED BY <1>7, <3>1, <3>2
    <2> QED BY <2>1, <2>2
  <1>10. TallyTypes'
    <2>1. upload' = [u \in Owners |-> upload'[u]]
      BY <1>6
    <2>2. Tally(upload')
      BY <1>9, <2>1 DEF Tally
    <2> QED BY <1>0, <1>1, <2>2 DEF BookTypes, TallyTypes, Tally
  <1>11. PurseTypes'
    BY <1>0, <1>1 DEF BookTypes, PurseTypes
  <1>12. \A u : Owed(nuker'[t], u, "credits") = Owed(nuker[t], u, "credits")
    BY <1>1, <1>2, <1>4 DEF Owed
  <1>13. \A u : \A k \in {"kb", "files"} : Owed(nuker'[t], u, k) = Part(ns, u, k) /\ Owed(nuker[t], u, k) = 0
    BY <1>1, <1>2, <1>4 DEF Owed
  <1>14. \A u \in Owners :
           /\ upload'[u].kb + Owed(nuker'[t], u, "kb") = upload[u].kb + Owed(nuker[t], u, "kb")
           /\ upload'[u].files + Owed(nuker'[t], u, "files") >= upload[u].files + Owed(nuker[t], u, "files")
    <2> SUFFICES ASSUME NEW u \in Owners
                 PROVE  /\ upload'[u].kb + Owed(nuker'[t], u, "kb") = upload[u].kb + Owed(nuker[t], u, "kb")
                        /\ upload'[u].files + Owed(nuker'[t], u, "files")
                             >= upload[u].files + Owed(nuker[t], u, "files")
      OBVIOUS
    <2>1. /\ Owed(nuker'[t], u, "kb") = Part(ns, u, "kb") /\ Owed(nuker[t], u, "kb") = 0
          /\ Owed(nuker'[t], u, "files") = Part(ns, u, "files") /\ Owed(nuker[t], u, "files") = 0
      BY <1>13
    <2>2. PICK a \in Int, b \in Int : a = upload[u].kb /\ b = upload[u].files
      BY <1>7
    <2>3. upload'[u].kb + Part(ns, u, "kb") = a
      BY <1>9, <2>2
    <2>4. upload'[u].files + Part(ns, u, "files") >= b
      BY <1>9, <2>2
    <2>5. a + 0 = a /\ b + 0 = b
      OBVIOUS
    <2> QED BY <2>1, <2>2, <2>3, <2>4, <2>5
  <1>15. \A u \in known : before.purse[u] # Nil =>
           purse'[u] + Owed(nuker'[t], u, "credits") = purse[u] + Owed(nuker[t], u, "credits")
    BY <1>1, <1>12
  <1>16. nuker'[t].op = nuker[t].op
    BY <1>1, <1>4
  <1> QED BY <1>1, <1>4, <1>5, <1>10, <1>11, <1>14, <1>15, <1>16, MoneyBooks

\* The kbytes of a nukee return exactly, and at least as many files as were taken.
LEMMA RestoredEnough ==
  ASSUME NukeAssumption, NEW rec, NukeesType(rec.nukees), NEW u
  PROVE  /\ Restored(rec, u).kb = Part(rec.nukees, u, "kb") /\ Restored(rec, u).kb \in Nat
         /\ Restored(rec, u).files \in Nat /\ Restored(rec, u).files >= Part(rec.nukees, u, "files")
PROOF
  <1>1. PICK ns : ns = rec.nukees
    OBVIOUS
  <1>2. DOMAIN ns \in SUBSET Owners /\ \A x \in DOMAIN ns : ns[x].kb \in Nat /\ ns[x].files \in Nat
    BY <1>1 DEF NukeesType
  <1>3. IsFiniteSet(DOMAIN ns)
    BY <1>2, FS_Subset DEF NukeAssumption
  <1>4. PICK f : f = [x \in DOMAIN ns |-> ns[x].files]
    OBVIOUS
  <1>5. DOMAIN f = DOMAIN ns /\ \A x \in DOMAIN ns : f[x] \in Nat /\ f[x] = ns[x].files
    BY <1>2, <1>4
  <1>6. Files(rec) = SumFunctionOnSet(f, DOMAIN ns)
    <2>1. Files(rec) = SumFunction(f)
      BY <1>1, <1>4 DEF Files
    <2>2. SumFunction(f) = SumFunctionOnSet(f, DOMAIN f)
      BY DEF SumFunction, SumFunctionOnSet, FoldFunction
    <2> QED BY <1>5, <2>1, <2>2
  <1>7. Files(rec) \in Nat /\ \A x \in DOMAIN ns : ns[x].files <= Files(rec)
    <2>1. SumFunctionOnSet(f, DOMAIN ns) \in Nat /\ \A x \in DOMAIN ns : f[x] <= SumFunctionOnSet(f, DOMAIN ns)
      BY <1>3, <1>5, SumNatural
    <2> QED BY <1>5, <1>6, <2>1
  <1>8. CASE u \in DOMAIN ns /\ (ns[u].kb > 0 \/ ns[u].files > 0)
    <2>1. Restored(rec, u) = [kb |-> ns[u].kb, files |-> Files(rec)]
      BY <1>1, <1>8 DEF Restored
    <2>2. Part(rec.nukees, u, "kb") = ns[u].kb /\ Part(rec.nukees, u, "files") = ns[u].files
      BY <1>1, <1>8 DEF Part
    <2> QED BY <1>2, <1>7, <1>8, <2>1, <2>2
  <1>9. CASE ~(u \in DOMAIN ns /\ (ns[u].kb > 0 \/ ns[u].files > 0))
    <2>1. Restored(rec, u) = [kb |-> 0, files |-> 0]
      BY <1>1, <1>9 DEF Restored
    <2>2. Part(rec.nukees, u, "kb") = 0 /\ Part(rec.nukees, u, "files") = 0
      BY <1>1, <1>2, <1>9 DEF Part
    <2> QED BY <2>1, <2>2
  <1> QED BY <1>8, <1>9

\* UNNUKE returns to the statistics what was recorded.
LEMMA RestoreStatsBooks ==
  ASSUME NukeAssumption, NukeInv, BookInv, DirFiles', NEW t \in Nukers, RestoreStats(t)
  PROVE  BookInv'
PROOF
  <1>0. JobTypes /\ BookTypes /\ JobNukees(nuker[t])
    BY DEF NukeInv, NukeTypes, BookInv, BookTypes, NukeeTypes
  <1>1. /\ UNCHANGED <<nukes, purse, known, before, tangled>> /\ Go(t, "rename")
        /\ nuker[t].op = "UNNUKE" /\ nuker[t].at = "credits" /\ nuker[t].todo = {}
    BY DEF RestoreStats, At
  <1>2. PICK rec : rec = nuker[t].rec
    OBVIOUS
  <1>3. NukeesType(rec.nukees)
    BY <1>0, <1>1, <1>2 DEF JobNukees
  <1>4. /\ nuker'[t].op = "UNNUKE" /\ nuker'[t].at = "rename" /\ nuker'[t].todo = {}
        /\ nuker'[t].rec = rec /\ Alone(t)
    BY <1>0, <1>1, <1>2, Went
  <1>5. JobNukees(nuker'[t])
    BY <1>0, <1>1, <1>2, <1>4 DEF JobNukees
  <1>6. upload' = [u \in Owners |-> [kb |-> upload[u].kb + Restored(rec, u).kb,
                                     files |-> upload[u].files + Restored(rec, u).files]]
    BY <1>2 DEF RestoreStats
  <1>7. \A u \in Owners : upload[u].kb \in Int /\ upload[u].files \in Int
    BY <1>0 DEF BookTypes, TallyTypes, Tally
  <1>8. ASSUME NEW u \in Owners
        PROVE  /\ upload'[u] = [kb |-> upload'[u].kb, files |-> upload'[u].files]
               /\ upload'[u].kb \in Int /\ upload'[u].files \in Int
               /\ upload'[u].kb + (0 - Part(rec.nukees, u, "kb")) = upload[u].kb
               /\ upload'[u].files + (0 - Part(rec.nukees, u, "files")) >= upload[u].files
    <2>1. upload'[u] = [kb |-> upload[u].kb + Restored(rec, u).kb,
                        files |-> upload[u].files + Restored(rec, u).files]
      BY <1>6
    <2>2. /\ Restored(rec, u).kb = Part(rec.nukees, u, "kb") /\ Restored(rec, u).kb \in Nat
          /\ Restored(rec, u).files \in Nat /\ Restored(rec, u).files >= Part(rec.nukees, u, "files")
      BY <1>3, RestoredEnough
    <2>3. Part(rec.nukees, u, "files") \in Nat
      BY <1>3, PartNumber DEF Kinds
    <2> QED BY <1>7, <2>1, <2>2, <2>3
  <1>9. TallyTypes'
    <2>1. upload' = [u \in Owners |-> upload'[u]]
      BY <1>6
    <2>2. Tally(upload')
      BY <1>8, <2>1 DEF Tally
    <2> QED BY <1>0, <1>1, <2>2 DEF BookTypes, TallyTypes, Tally
  <1>10. PurseTypes'
    BY <1>0, <1>1 DEF BookTypes, PurseTypes
  <1>11. \A u : Owed(nuker'[t], u, "credits") = Owed(nuker[t], u, "credits")
    BY <1>1, <1>2, <1>4 DEF Owed
  <1>12. \A u : \A k \in {"kb", "files"} : /\ Owed(nuker'[t], u, k) = 0 - Part(rec.nukees, u, k)
                                           /\ Owed(nuker[t], u, k) = 0
    BY <1>1, <1>2, <1>4 DEF Owed
  <1>13. \A u \in Owners :
           /\ upload'[u].kb + Owed(nuker'[t], u, "kb") = upload[u].kb + Owed(nuker[t], u, "kb")
           /\ upload'[u].files + Owed(nuker'[t], u, "files") >= upload[u].files + Owed(nuker[t], u, "files")
    <2> SUFFICES ASSUME NEW u \in Owners
                 PROVE  /\ upload'[u].kb + Owed(nuker'[t], u, "kb") = upload[u].kb + Owed(nuker[t], u, "kb")
                        /\ upload'[u].files + Owed(nuker'[t], u, "files")
                             >= upload[u].files + Owed(nuker[t], u, "files")
      OBVIOUS
    <2>1. /\ Owed(nuker'[t], u, "kb") = 0 - Part(rec.nukees, u, "kb") /\ Owed(nuker[t], u, "kb") = 0
          /\ Owed(nuker'[t], u, "files") = 0 - Part(rec.nukees, u, "files") /\ Owed(nuker[t], u, "files") = 0
      BY <1>12
    <2>2. PICK a \in Int, b \in Int : a = upload[u].kb /\ b = upload[u].files
      BY <1>7
    <2>3. upload'[u].kb + (0 - Part(rec.nukees, u, "kb")) = a
      BY <1>8, <2>2
    <2>4. upload'[u].files + (0 - Part(rec.nukees, u, "files")) >= b
      BY <1>8, <2>2
    <2>5. a + 0 = a /\ b + 0 = b
      OBVIOUS
    <2> QED BY <2>1, <2>2, <2>3, <2>4, <2>5
  <1>14. \A u \in known : before.purse[u] # Nil =>
           purse'[u] + Owed(nuker'[t], u, "credits") = purse[u] + Owed(nuker[t], u, "credits")
    BY <1>1, <1>11
  <1>15. nuker'[t].op = nuker[t].op /\ nuker'[t].rec = nuker[t].rec
    BY <1>1, <1>2, <1>4
  <1> QED BY <1>1, <1>4, <1>5, <1>9, <1>10, <1>13, <1>14, <1>15, MoneyBooks

\* A step that only writes or deletes the record of what the command took or returned.
LEMMA RecordBooks ==
  ASSUME NukeAssumption, BookInv, DirFiles', NukeeTypes', NEW t \in Nukers, Alone(t),
         UNCHANGED <<purse, upload, known, before, tangled>>,
         tangled = {} /\ OneRecord => OneRecord',
         tangled = {} /\ OneRecord => \A u : \A k \in Kinds :
           OnRecord(nukes', u, k) + Owed(nuker'[t], u, k) = OnRecord(nukes, u, k) + Owed(nuker[t], u, k)
  PROVE  BookInv'
PROOF
  <1>1. BookTypes /\ (tangled = {} => OneRecord /\ Books)
    BY DEF BookInv
  <1>2. BookTypes'
    BY <1>1, SameMoney DEF BookTypes
  <1>3. ASSUME tangled' = {} PROVE OneRecord' /\ Books'
    <2>1. OneRecord /\ Books /\ OneRecord'
      BY <1>1, <1>3
    <2>2. ASSUME NEW u, NEW k \in Kinds, NEW x \in Int
          PROVE  /\ x + OnRecord(nukes', u, k) + Owed(nuker'[t], u, k)
                      = x + OnRecord(nukes, u, k) + Owed(nuker[t], u, k)
                 /\ x + OnRecord(nukes', u, k) + Owed(nuker'[t], u, k)
                      >= x + OnRecord(nukes, u, k) + Owed(nuker[t], u, k)
      <3>1. /\ OnRecord(nukes, u, k) \in Int /\ OnRecord(nukes', u, k) \in Int
            /\ Owed(nuker[t], u, k) \in Int /\ Owed(nuker'[t], u, k) \in Int
        BY <1>1, <1>2, BookNumbers DEF NukeAssumption
      <3>2. OnRecord(nukes', u, k) + Owed(nuker'[t], u, k) = OnRecord(nukes, u, k) + Owed(nuker[t], u, k)
        BY <1>3, <2>1
      <3> QED BY <3>1, <3>2
    <2>3. "credits" \in Kinds /\ "kb" \in Kinds /\ "files" \in Kinds
      BY DEF Kinds
    <2>4. \A u \in known : before.purse[u] # Nil => purse[u] \in Int
      BY <1>1 DEF BookTypes, PurseTypes
    <2>5. CreditsSquare(t)
      BY <2>2, <2>3, <2>4 DEF CreditsSquare
    <2>6. \A u \in Owners : upload[u].kb \in Int /\ upload[u].files \in Int
      BY <1>1 DEF BookTypes, TallyTypes, Tally
    <2>7. StatsSquare(t)
      BY <2>2, <2>3, <2>6 DEF StatsSquare
    <2> QED BY <1>1, <1>2, <2>1, <2>5, <2>7, BooksStep DEF NukeAssumption
  <1> QED BY <1>2, <1>3 DEF BookInv

\* The record of a nuke takes over what its thread had taken.
LEMMA AddNukeBooks ==
  ASSUME NukeAssumption, NukeInv, BookInv, DirFiles', NEW t \in Nukers, AddNuke(t)
  PROVE  BookInv'
PROOF
  <1>0. JobTypes /\ RecordTypes /\ NukeeTypes /\ JobNukees(nuker[t])
    BY DEF NukeInv, NukeTypes, BookInv, BookTypes, NukeeTypes
  <1>1. /\ UNCHANGED <<purse, upload, known, before, tangled>>
        /\ nuker[t].op = "NUKE" /\ nuker[t].at = "add"
    BY DEF AddNuke, At
  <1>2. PICK rec : rec = [id |-> oid + 1, path |-> nuker[t].path, nukees |-> nuker[t].nukees]
    OBVIOUS
  <1>3. nukes' = nukes \cup {rec} /\ Keep(t, "contents", rec)
    BY <1>2 DEF AddNuke
  <1>4. /\ rec.id = oid + 1 /\ rec.path = nuker[t].path /\ rec.nukees = nuker[t].nukees
    BY <1>2
  <1>5. rec \notin nukes
    BY <1>0, <1>4 DEF RecordTypes
  <1>6. NukeesType(rec.nukees)
    BY <1>0, <1>1, <1>4 DEF JobNukees
  <1>7. nuker'[t].op = "NUKE" /\ nuker'[t].at = "contents" /\ Alone(t)
    BY <1>0, <1>1, <1>3, WentWith
  <1>8. NukeeTypes'
    <2>1. IsFiniteSet(nukes')
      BY <1>0, <1>3, FS_AddElement DEF NukeeTypes
    <2>2. \A n \in nukes' : NukeesType(n.nukees)
      BY <1>0, <1>3, <1>6 DEF NukeeTypes
    <2>3. \A r \in Nukers : JobNukees(nuker'[r])
      BY <1>0, <1>7, ZenonT(30) DEF NukeeTypes, Alone, JobNukees
    <2> QED BY <2>1, <2>2, <2>3 DEF NukeeTypes, NukeesType, JobNukees
  <1>9. ASSUME tangled = {}, OneRecord PROVE OneRecord'
    <2>1. ByPath(nukes, nuker[t].path) = {}
      BY <1>1, <1>9, AtWork DEF Phase
    <2>2. \A m, n \in nukes' : m.path = n.path => m = n
      BY <1>3, <1>4, <1>9, <2>1 DEF OneRecord, ByPath
    <2> QED BY <1>3, <1>7, <1>9, <2>2 DEF OneRecord, Alone
  <1>10. ASSUME NEW u, NEW k \in Kinds
         PROVE  OnRecord(nukes', u, k) + Owed(nuker'[t], u, k) = OnRecord(nukes, u, k) + Owed(nuker[t], u, k)
    <2>1. PICK ns : ns = nukes
      OBVIOUS
    <2>2. IsFiniteSet(ns) /\ \A n \in ns : NukeesType(n.nukees)
      BY <1>0, <2>1 DEF NukeeTypes
    <2>3. OnRecord(ns \cup {rec}, u, k) = Part(rec.nukees, u, k) + OnRecord(ns, u, k)
      BY <1>5, <1>6, <2>1, <2>2, RecordAdded
    <2>4. OnRecord(ns, u, k) \in Int /\ Part(rec.nukees, u, k) \in Int
      BY <1>6, <2>2, RecordsNumber, PartNumber
    <2>5. Owed(nuker'[t], u, k) = 0 /\ Owed(nuker[t], u, k) = Part(rec.nukees, u, k)
      BY <1>1, <1>4, <1>7 DEF Owed
    <2> QED BY <1>3, <2>1, <2>3, <2>4, <2>5
  <1> QED BY <1>1, <1>7, <1>8, <1>9, <1>10, RecordBooks

\* DelPath deletes by the path: where no two commands overlap, that is the one record.
LEMMA UnnukeDelBooks ==
  ASSUME NukeAssumption, NukeInv, BookInv, DirFiles', NEW t \in Nukers, UnnukeDel(t)
  PROVE  BookInv'
PROOF
  <1>0. JobTypes /\ RecordTypes /\ NukeeTypes /\ JobNukees(nuker[t])
    BY DEF NukeInv, NukeTypes, BookInv, BookTypes, NukeeTypes
  <1>1. /\ UNCHANGED <<purse, upload, known, before, tangled>> /\ Go(t, "add")
        /\ nuker[t].op = "UNNUKE" /\ nuker[t].at = "del"
    BY DEF UnnukeDel, At
  <1>2. PICK rec : rec = nuker[t].rec
    OBVIOUS
  <1>3. rec.path = nuker[t].path /\ nuker[t].path \in Releases
    BY <1>1, <1>2, AtWork DEF JobShape, HasRecord
  <1>4. nukes' = {n \in nukes : n.path # rec.path}
    BY <1>2 DEF UnnukeDel, DelNuke, DelPath
  <1>5. nuker'[t].op = "UNNUKE" /\ nuker'[t].at = "add" /\ Alone(t)
    BY <1>0, <1>1, Went
  <1>6. NukeeTypes'
    <2>1. IsFiniteSet(nukes')
      BY <1>0, <1>4, FS_Subset DEF NukeeTypes
    <2>2. \A n \in nukes' : NukeesType(n.nukees)
      BY <1>0, <1>4 DEF NukeeTypes
    <2>3. \A r \in Nukers : JobNukees(nuker'[r])
      BY <1>0, <1>5, ZenonT(30) DEF NukeeTypes, Alone, JobNukees
    <2> QED BY <2>1, <2>2, <2>3 DEF NukeeTypes, NukeesType, JobNukees
  <1>7. ASSUME tangled = {}, OneRecord PROVE OneRecord'
    <2>1. ASSUME NEW r \in Nukers, nuker'[r].op = "UNNUKE", nuker'[r].at \in {"credits", "rename", "del"}
          PROVE  nuker'[r].rec \in nukes'
      <3>1. r # t /\ nuker'[r] = nuker[r]
        BY <1>5, <2>1 DEF Alone
      <3>2. nuker[r].rec \in nukes
        BY <1>7, <2>1, <3>1 DEF OneRecord
      <3>3. nuker[r].rec.path = nuker[r].path
        BY <2>1, <3>1, AtWork DEF JobShape, HasRecord
      <3>4. nuker[r].path # nuker[t].path
        BY <1>3, <1>7, <3>1 DEF NukeInv, ReleaseInv
      <3> QED BY <1>3, <1>4, <3>1, <3>2, <3>3, <3>4
    <2>2. \A m, n \in nukes' : m.path = n.path => m = n
      BY <1>4, <1>7 DEF OneRecord
    <2> QED BY <2>1, <2>2 DEF OneRecord
  <1>8. ASSUME OneRecord, NEW u, NEW k \in Kinds
        PROVE  OnRecord(nukes', u, k) + Owed(nuker'[t], u, k) = OnRecord(nukes, u, k) + Owed(nuker[t], u, k)
    <2>1. PICK ns : ns = nukes
      OBVIOUS
    <2>2. IsFiniteSet(ns) /\ \A n \in ns : NukeesType(n.nukees)
      BY <1>0, <2>1 DEF NukeeTypes
    <2>3. rec \in ns /\ NukeesType(rec.nukees)
      BY <1>1, <1>2, <1>8, <2>1, <2>2 DEF OneRecord
    <2>4. nukes' = ns \ {rec}
      BY <1>4, <1>8, <2>1, <2>3 DEF OneRecord
    <2>5. OnRecord(ns, u, k) = Part(rec.nukees, u, k) + OnRecord(ns \ {rec}, u, k)
      BY <2>2, <2>3, RecordRemoved
    <2>6. IsFiniteSet(ns \ {rec}) /\ \A n \in ns \ {rec} : NukeesType(n.nukees)
      BY <2>2, FS_Subset
    <2>7. PICK ms : ms = ns \ {rec}
      OBVIOUS
    <2>8. OnRecord(ms, u, k) \in Int /\ Part(rec.nukees, u, k) \in Int
      BY <2>3, <2>6, <2>7, RecordsNumber, PartNumber
    <2>9. Owed(nuker'[t], u, k) = 0 /\ Owed(nuker[t], u, k) = 0 - Part(rec.nukees, u, k)
      BY <1>1, <1>2, <1>5 DEF Owed
    <2> QED BY <2>1, <2>4, <2>5, <2>7, <2>8, <2>9
  <1> QED BY <1>1, <1>5, <1>6, <1>7, <1>8, RecordBooks

\* Other commands: an upload is counted on both sides of the books.
LEMMA CountedTally ==
  ASSUME NukeAssumption, NEW up, Tally(up), NEW u \in Owners
  PROVE  /\ Tally(Counted(up, u))
         /\ \A x \in Owners : /\ Counted(up, u)[x].kb = up[x].kb + (IF x = u THEN FileKBytes ELSE 0)
                              /\ Counted(up, u)[x].files = up[x].files + (IF x = u THEN 1 ELSE 0)
PROOF
  <1>1. PICK new : new = Counted(up, u)
    OBVIOUS
  <1>2. new = [x \in Owners |-> IF x = u THEN [kb |-> up[u].kb + FileKBytes, files |-> up[u].files + 1]
                               ELSE up[x]]
    BY <1>1 DEF Counted, Tally
  <1>3. ASSUME NEW x \in Owners
        PROVE  /\ new[x] = [kb |-> new[x].kb, files |-> new[x].files]
               /\ new[x].kb = up[x].kb + (IF x = u THEN FileKBytes ELSE 0)
               /\ new[x].files = up[x].files + (IF x = u THEN 1 ELSE 0)
               /\ new[x].kb \in Int /\ new[x].files \in Int
    <2>1. /\ up[x] = [kb |-> up[x].kb, files |-> up[x].files]
          /\ up[x].kb \in Int /\ up[x].files \in Int /\ FileKBytes \in Int
      BY DEF Tally, NukeAssumption
    <2>2. CASE x = u
      BY <1>2, <2>1, <2>2
    <2>3. CASE x # u
      BY <1>2, <2>1, <2>3
    <2> QED BY <2>2, <2>3
  <1>4. new = [x \in Owners |-> new[x]]
    BY <1>2
  <1>5. Tally(new)
    BY <1>3, <1>4 DEF Tally
  <1> QED BY <1>1, <1>3, <1>5

\* Nukees keep their types when neither records nor threads change.
LEMMA SameNukees ==
  ASSUME NukeeTypes, UNCHANGED <<nukes, nuker>>
  PROVE  NukeeTypes'
  BY DEF NukeeTypes, JobNukees

\* An upload counts in the statistics, also in those that there would be without nukes.
LEMMA StoredBooks ==
  ASSUME NukeAssumption, BookInv, DirFiles', NEW p \in Releases, NEW u \in Owners, Stored(p, u)
  PROVE  BookInv'
PROOF
  <1>0. BookTypes /\ (tangled = {} => OneRecord /\ Books)
    BY DEF BookInv
  <1>1. /\ UNCHANGED <<nukes, purse, known, nuker, tangled>> /\ upload' = Counted(upload, u)
        /\ before' = [before EXCEPT !.upload = Counted(before.upload, u)]
    BY DEF Stored
  <1>2. before = [purse |-> before.purse, upload |-> before.upload] /\ Tally(before.upload) /\ Tally(upload)
    BY <1>0 DEF BookTypes, TallyTypes
  <1>3. before' = [purse |-> before.purse, upload |-> Counted(before.upload, u)]
    BY <1>1, <1>2
  <1>4. before'.purse = before.purse /\ before'.upload = Counted(before.upload, u)
        /\ before' = [purse |-> before'.purse, upload |-> before'.upload]
    BY <1>3
  <1>5. PICK up, old : up = upload /\ old = before.upload
    OBVIOUS
  <1>6. /\ Tally(Counted(up, u)) /\ Tally(Counted(old, u))
        /\ \A x \in Owners : /\ Counted(up, u)[x].kb = up[x].kb + (IF x = u THEN FileKBytes ELSE 0)
                             /\ Counted(up, u)[x].files = up[x].files + (IF x = u THEN 1 ELSE 0)
                             /\ Counted(old, u)[x].kb = old[x].kb + (IF x = u THEN FileKBytes ELSE 0)
                             /\ Counted(old, u)[x].files = old[x].files + (IF x = u THEN 1 ELSE 0)
    BY <1>2, <1>5, CountedTally
  <1>7. BookTypes'
    <2>1. TallyTypes'
      BY <1>1, <1>4, <1>5, <1>6 DEF TallyTypes, Tally
    <2>2. PurseTypes'
      BY <1>0, <1>1, <1>4 DEF BookTypes, PurseTypes
    <2> QED BY <1>0, <1>1, <2>1, <2>2, SameNukees DEF BookTypes
  <1>8. ASSUME tangled' = {} PROVE OneRecord' /\ Books'
    <2>1. OneRecord /\ Books
      BY <1>0, <1>1, <1>8
    <2>2. OneRecord'
      BY <1>1, <2>1 DEF OneRecord
    <2>3. \A x \in known' : before'.purse[x] # Nil =>
            purse'[x] + OnRecord(nukes', x, "credits") + Underway(nuker', x, "credits") = before'.purse[x]
      BY <1>1, <1>4, <2>1 DEF Books
    <2>4. ASSUME NEW x \in Owners
          PROVE  /\ upload'[x].kb + OnRecord(nukes', x, "kb") + Underway(nuker', x, "kb") = before'.upload[x].kb
                 /\ upload'[x].files + OnRecord(nukes', x, "files") + Underway(nuker', x, "files")
                      >= before'.upload[x].files
      <3>1. /\ upload'[x].kb = up[x].kb + (IF x = u THEN FileKBytes ELSE 0)
            /\ upload'[x].files = up[x].files + (IF x = u THEN 1 ELSE 0)
            /\ before'.upload[x].kb = old[x].kb + (IF x = u THEN FileKBytes ELSE 0)
            /\ before'.upload[x].files = old[x].files + (IF x = u THEN 1 ELSE 0)
        BY <1>1, <1>4, <1>5, <1>6
      <3>2. PICK a \in Int, b \in Int, c \in Int, d \in Int :
              a = up[x].kb /\ b = up[x].files /\ c = old[x].kb /\ d = old[x].files
        BY <1>2, <1>5 DEF Tally
      <3>3. /\ a + OnRecord(nukes, x, "kb") + Underway(nuker, x, "kb") = c
            /\ b + OnRecord(nukes, x, "files") + Underway(nuker, x, "files") >= d
        BY <1>5, <2>1, <3>2 DEF Books
      <3>4. \A k \in {"kb", "files"} : OnRecord(nukes, x, k) \in Int /\ Underway(nuker, x, k) \in Int
        <4>1. CASE Nukers = {}
          <5>1. \A k : Underway(nuker, x, k) = 0
            <6>1. \A f : SumFunctionOnSet(f, {}) = 0
              BY SumFirst, FS_EmptySet
            <6> QED BY <4>1, <6>1 DEF Underway
          <5>2. PICK ns : ns = nukes
            OBVIOUS
          <5>3. IsFiniteSet(ns) /\ \A n \in ns : NukeesType(n.nukees)
            BY <1>0, <5>2 DEF BookTypes, NukeeTypes
          <5>4. \A k \in Kinds : OnRecord(ns, x, k) \in Int
            BY <5>3, RecordsNumber
          <5> QED BY <5>1, <5>2, <5>4 DEF Kinds
        <4>2. CASE Nukers # {}
          <5>1. PICK t \in Nukers : TRUE
            BY <4>2
          <5>2. Alone(t)
            BY <1>1 DEF Alone
          <5>3. \A k \in Kinds : OnRecord(nukes, x, k) \in Int /\ Underway(nuker, x, k) \in Int
            BY <1>0, <1>7, <5>2, BookNumbers DEF NukeAssumption
          <5> QED BY <5>3 DEF Kinds
        <4> QED BY <4>1, <4>2
      <3>5. FileKBytes \in Int
        BY DEF NukeAssumption
      <3>6. PICK e \in Int, g \in Int : e = (IF x = u THEN FileKBytes ELSE 0) /\ g = (IF x = u THEN 1 ELSE 0)
        BY <3>5
      <3>7. /\ a + e + OnRecord(nukes, x, "kb") + Underway(nuker, x, "kb") = c + e
            /\ b + g + OnRecord(nukes, x, "files") + Underway(nuker, x, "files") >= d + g
        <4>1. PICK i \in Int, j \in Int : i = OnRecord(nukes, x, "kb") /\ j = Underway(nuker, x, "kb")
          BY <3>4
        <4>2. PICK m \in Int, n \in Int : m = OnRecord(nukes, x, "files") /\ n = Underway(nuker, x, "files")
          BY <3>4
        <4>3. a + i + j = c /\ b + m + n >= d
          BY <3>3, <4>1, <4>2
        <4>4. a + e + i + j = c + e /\ b + g + m + n >= d + g
          BY <4>3
        <4> QED BY <4>1, <4>2, <4>4
      <3> QED BY <1>1, <3>1, <3>2, <3>6, <3>7
    <2> QED BY <2>2, <2>3, <2>4 DEF Books
  <1> QED BY <1>7, <1>8 DEF BookInv

\* A step that moves no money keeps the books.
LEMMA SameBooks ==
  ASSUME BookInv, DirFiles', UNCHANGED <<nukes, purse, upload, nuker, tangled, before>>, known' \subseteq known
  PROVE  BookInv'
PROOF
  <1>1. BookTypes'
    <2>1. PurseTypes'
      BY DEF BookInv, BookTypes, PurseTypes
    <2>2. TallyTypes'
      BY DEF BookInv, BookTypes, TallyTypes, Tally
    <2> QED BY <2>1, <2>2, SameNukees DEF BookInv, BookTypes
  <1>2. tangled' = {} => OneRecord' /\ Books'
    BY DEF BookInv, OneRecord, Books
  <1> QED BY <1>1, <1>2 DEF BookInv

\* When all threads rest nothing is under way.
LEMMA IdleOwesNothing ==
  ASSUME IsFiniteSet(Nukers), \A t \in Nukers : nuker[t].op = "idle", NEW u, NEW k
  PROVE  Underway(nuker, u, k) = 0
PROOF
  <1> DEFINE f == [t \in Nukers |-> Owed(nuker[t], u, k)]
  <1>1. \A t \in Nukers : f[t] = 0
    BY DEF Owed
  <1> HIDE DEF f
  <1>2. SumFunctionOnSet(f, Nukers) = 0
    BY <1>1, SumZero
  <1> QED BY <1>2 DEF Underway, f

\* The books are square initially.
LEMMA BookInvInit == ASSUME NukeAssumption, Init PROVE BookInv
PROOF
  <1>1. PICK f \in [Releases -> Uploads] :
          dir = [p \in Releases |-> [s \in Sides |-> IF s = "plain" THEN NewDir(f[p]) ELSE Nil]]
    BY DEF Init
  <1>2. DirFiles
    <2>1. \A p \in Releases : f[p] \in [Owners -> Nat]
      BY <1>1 DEF NukeAssumption
    <2>2. \A p \in Releases : SideFiles(NewDir(f[p]))
      BY <2>1, NewDirFiles
    <2> QED BY <1>1, <2>2 DEF DirFiles, SideFiles
  <1>3. /\ nukes = {} /\ nuker = [t \in Nukers |-> Resting] /\ known = Owners
        /\ before = [purse |-> purse, upload |-> upload]
        /\ upload = [u \in Owners |-> [kb |-> 10, files |-> 10]]
    BY DEF Init
  <1>4. purse \in [Owners -> Int \cup {Nil}]
    BY DEF Init
  <1>5. before.purse = purse /\ before.upload = upload
        /\ before = [purse |-> before.purse, upload |-> before.upload]
    BY <1>3
  <1>6. PurseTypes
    BY <1>3, <1>4, <1>5 DEF PurseTypes
  <1>7. Tally(upload)
    BY <1>3 DEF Tally
  <1>8. TallyTypes
    BY <1>5, <1>7 DEF TallyTypes
  <1>9. \A t \in Nukers : nuker[t].op = "idle"
    BY <1>3 DEF Resting
  <1>10. NukeeTypes
    BY <1>3, <1>9, FS_EmptySet DEF NukeeTypes, JobNukees
  <1>11. OneRecord
    BY <1>3, <1>9 DEF OneRecord
  <1>12. ASSUME NEW u, NEW k PROVE OnRecord(nukes, u, k) = 0 /\ Underway(nuker, u, k) = 0
    <2>1. \A g : SumFunctionOnSet(g, {}) = 0
      BY SumFirst, FS_EmptySet
    <2>2. OnRecord(nukes, u, k) = 0
      BY <1>3, <2>1 DEF OnRecord
    <2>3. Underway(nuker, u, k) = 0
      BY <1>9, IdleOwesNothing DEF NukeAssumption
    <2> QED BY <2>2, <2>3
  <1>13. \A u \in known : before.purse[u] # Nil =>
           purse[u] + OnRecord(nukes, u, "credits") + Underway(nuker, u, "credits") = before.purse[u]
    BY <1>5, <1>6, <1>12 DEF PurseTypes
  <1>14. ASSUME NEW u \in Owners
         PROVE  /\ upload[u].kb + OnRecord(nukes, u, "kb") + Underway(nuker, u, "kb") = before.upload[u].kb
                /\ upload[u].files + OnRecord(nukes, u, "files") + Underway(nuker, u, "files")
                     >= before.upload[u].files
    <2>1. upload[u].kb = 10 /\ upload[u].files = 10 /\ before.upload[u].kb = 10 /\ before.upload[u].files = 10
      BY <1>3, <1>5
    <2> QED BY <1>12, <2>1
  <1>15. Books
    BY <1>13, <1>14 DEF Books
  <1> QED BY <1>2, <1>6, <1>8, <1>10, <1>11, <1>15 DEF BookInv, BookTypes

\* Every step keeps them square.
LEMMA BookInvNext ==
  ASSUME NukeAssumption, NukeInv, BookInv, [Next]_vars
  PROVE  BookInv'
PROOF
  <1>0. DirFiles'
    BY DirFilesNext DEF BookInv, BookTypes
  <1>1. CASE UNCHANGED vars
    BY <1>0, <1>1, SameBooks DEF vars
  <1>2. CASE \E t \in Nukers : NUKECommand(t) \/ ToolNuke(t)
    <2>1. PICK t \in Nukers : NUKECommand(t) \/ ToolNuke(t)
      BY <1>2
    <2>2. \A m \in Multis : m.value \in Int /\ ParseOptions(m).value \in Int
      <3>1. ASSUME NEW m \in Multis PROVE m.value \in Int /\ ParseOptions(m).value \in Int
        <4>1. m \in [value : Int, percent : BOOLEAN]
          BY DEF NukeAssumption
        <4> QED BY <4>1 DEF ParseOptions
      <3> QED BY <3>1
    <2>3. PICK p \in Releases : \E m : m.value \in Int /\ Nuke(t, p, m)
      BY <2>1, <2>2 DEF NUKECommand, ToolNuke
    <2>4. PICK m : m.value \in Int /\ Nuke(t, p, m)
      BY <2>3
    <2> QED BY <1>0, <2>4, NukeBooks
  <1>3. CASE \E t \in Nukers : \/ TakeCredits(t) \/ TakeStats(t) \/ NukeForget(t) \/ AddNuke(t)
                               \/ DeleteContents(t) \/ ActionTheDirectory(t) \/ NukeID(t)
    BY <1>0, <1>3, TakeCreditsBooks, TakeStatsBooks, AddNukeBooks, QuietKeep
  <1>4. CASE \E t \in Nukers, p \in Releases : Unnuke(t, p)
    BY <1>0, <1>4, UnnukeBooks
  <1>5. CASE \E t \in Nukers : \/ RestoreCredits(t) \/ RestoreStats(t) \/ UnnukeRename(t)
                               \/ UnnukeDel(t) \/ AddUnnuke(t) \/ UnnukeID(t)
    BY <1>0, <1>5, RestoreCreditsBooks, RestoreStatsBooks, UnnukeDelBooks, QuietKeep
  <1>6. CASE \E p \in Releases : Mkd(p)
    <2>1. UNCHANGED <<nukes, purse, upload, nuker, tangled, before, known>>
      BY <1>6 DEF Mkd
    <2> QED BY <1>0, <2>1, SameBooks
  <1>7. CASE \E p \in Releases, u \in Owners : Stored(p, u)
    BY <1>0, <1>7, StoredBooks
  <1>8. CASE \E u \in Owners : PurgeOwner(u)
    <2>1. UNCHANGED <<nukes, purse, upload, nuker, tangled, before>> /\ known' \subseteq known
      BY <1>8 DEF PurgeOwner
    <2> QED BY <1>0, <2>1, SameBooks
  <1> QED BY <1>1, <1>2, <1>3, <1>4, <1>5, <1>6, <1>7, <1>8 DEF Next

\* Between commands nothing is under way, and the books are what the records say.
LEMMA BooksReturn ==
  ASSUME NukeAssumption, BookInv
  PROVE  CreditsReturn /\ StatsReturn
PROOF
  <1> SUFFICES ASSUME Calm
               PROVE  /\ \A u \in known : before.purse[u] # Nil => purse[u] + Recorded(u, "credits") = before.purse[u]
                      /\ \A u \in Owners : /\ upload[u].kb + Recorded(u, "kb") = before.upload[u].kb
                                           /\ upload[u].files + Recorded(u, "files") >= before.upload[u].files
    BY DEF CreditsReturn, StatsReturn
  <1>1. BookTypes /\ Books
    BY DEF Calm, BookInv
  <1>0. Resting.op = "idle"
    BY DEF Resting
  <1>2. \A t \in Nukers : nuker[t].op = "idle"
    BY <1>0 DEF Calm
  <1>3. \A u, k : Underway(nuker, u, k) = 0
    BY <1>2, IdleOwesNothing DEF NukeAssumption
  <1>4. PICK ns : ns = nukes
    OBVIOUS
  <1>5. IsFiniteSet(ns) /\ \A n \in ns : NukeesType(n.nukees)
    BY <1>1, <1>4 DEF BookTypes, NukeeTypes
  <1>6. ASSUME NEW u, NEW k \in Kinds PROVE Recorded(u, k) = OnRecord(nukes, u, k) /\ OnRecord(nukes, u, k) \in Int
    <2>1. PICK f : f = [n \in nukes |-> Part(n.nukees, u, k)]
      OBVIOUS
    <2>2. SumFunction(f) = SumFunctionOnSet(f, DOMAIN f)
      BY DEF SumFunction, SumFunctionOnSet, FoldFunction
    <2>3. DOMAIN f = nukes
      BY <2>1
    <2>4. Recorded(u, k) = OnRecord(nukes, u, k)
      BY <2>1, <2>2, <2>3 DEF Recorded, OnRecord
    <2>5. OnRecord(ns, u, k) \in Int
      BY <1>5, RecordsNumber
    <2> QED BY <1>4, <2>4, <2>5
  <1>7. "credits" \in Kinds /\ "kb" \in Kinds /\ "files" \in Kinds
    BY DEF Kinds
  <1>8. ASSUME NEW u \in known, before.purse[u] # Nil
        PROVE  purse[u] + Recorded(u, "credits") = before.purse[u]
    <2>1. purse[u] \in Int
      BY <1>1, <1>8 DEF BookTypes, PurseTypes
    <2>2. purse[u] + OnRecord(nukes, u, "credits") + Underway(nuker, u, "credits") = before.purse[u]
      BY <1>1, <1>8 DEF Books
    <2> QED BY <1>3, <1>6, <1>7, <2>1, <2>2
  <1>9. ASSUME NEW u \in Owners
        PROVE  /\ upload[u].kb + Recorded(u, "kb") = before.upload[u].kb
               /\ upload[u].files + Recorded(u, "files") >= before.upload[u].files
    <2>1. PICK a \in Int, b \in Int : a = upload[u].kb /\ b = upload[u].files
      BY <1>1 DEF BookTypes, TallyTypes, Tally
    <2>2. /\ a + OnRecord(nukes, u, "kb") + Underway(nuker, u, "kb") = before.upload[u].kb
          /\ b + OnRecord(nukes, u, "files") + Underway(nuker, u, "files") >= before.upload[u].files
      BY <1>1, <2>1 DEF Books
    <2>3. PICK i \in Int, j \in Int : i = OnRecord(nukes, u, "kb") /\ j = OnRecord(nukes, u, "files")
      BY <1>6, <1>7
    <2>4. a + i + 0 = a + i /\ b + j + 0 = b + j
      OBVIOUS
    <2>5. Recorded(u, "kb") = i /\ Recorded(u, "files") = j
      BY <1>6, <1>7, <2>3
    <2> QED BY <1>3, <2>1, <2>2, <2>3, <2>4, <2>5
  <1> QED BY <1>8, <1>9

\* For any number of nukers, releases and uploaders, any ratios, multipliers, penalties and
\* sizes: an unnuke undoes its nuke. As long as no two commands overlapped on a release,
\* credits and kbytes of the statistics return exactly, at least as many files as were
\* taken return, and the records agree with the directories.
THEOREM NukesUndone == NukeAssumption => (Spec => []NukesReturn)
PROOF
  <1> SUFFICES ASSUME NukeAssumption PROVE Spec => []NukesReturn
    OBVIOUS
  <1>0. Nil \notin Releases
    BY DEF NukeAssumption
  <1>1. Init => NukeInv /\ BookInv
    BY <1>0, NukeInvInit, BookInvInit
  <1>2. NukeInv /\ BookInv /\ [Next]_vars => NukeInv' /\ BookInv'
    BY <1>0, NukeInvNext, BookInvNext
  <1>3. NukeInv => NukedIsOnRecord /\ NukedOrUnnuked
    BY DEF NukeInv, ReleaseInv, NukedIsOnRecord, NukedOrUnnuked, Exists
  <1>4. NukeInv /\ BookInv => NukesReturn
    BY <1>3, BooksReturn DEF NukesReturn
  <1> QED BY <1>1, <1>2, <1>4, PTL DEF Spec

-----------------------------------------------------------------------------
(* No file is lost *)

\* What the directories hold, by release and name.
Held(d) == [ps \in Releases \X Sides |->
              IF d[ps[1]][ps[2]] # Nil THEN SumFunction(d[ps[1]][ps[2]].files) ELSE 0]
HeldAt(d, p, s) == IF d[p][s] # Nil THEN SumFunction(d[p][s].files) ELSE 0

\* The files of a directory add up to a number.
LEMMA FilesNumber ==
  ASSUME NukeAssumption, NEW f \in [Owners -> Nat]
  PROVE  SumFunction(f) \in Nat
PROOF
  <1>1. SumFunction(f) = SumFunctionOnSet(f, Owners)
    <2>1. SumFunction(f) = SumFunctionOnSet(f, DOMAIN f)
      BY DEF SumFunction, SumFunctionOnSet, FoldFunction
    <2> QED BY <2>1
  <1>2. SumFunctionOnSet(f, Owners) \in Nat
    BY SumNatural DEF NukeAssumption
  <1> QED BY <1>1, <1>2

\* What is on one side of a release is a number.
LEMMA HeldNumber ==
  ASSUME NukeAssumption, DirFiles, NEW p \in Releases, NEW s \in Sides
  PROVE  HeldAt(dir, p, s) \in Nat
PROOF
  <1>1. CASE dir[p][s] = Nil
    BY <1>1 DEF HeldAt
  <1>2. CASE dir[p][s] # Nil
    <2>1. dir[p][s].files \in [Owners -> Nat]
      BY <1>2 DEF DirFiles, SideFiles
    <2>2. SumFunction(dir[p][s].files) \in Nat
      BY <2>1, FilesNumber
    <2> QED BY <1>2, <2>2 DEF HeldAt
  <1> QED BY <1>1, <1>2

\* A release has finitely many sides.
LEMMA FiniteSides == IsFiniteSet(Sides)
PROOF
  <1>1. PICK S : S = {"plain"}
    OBVIOUS
  <1>2. IsFiniteSet(S)
    BY <1>1, FS_Singleton
  <1>3. IsFiniteSet(S \cup {"nuked"})
    BY <1>2, FS_AddElement
  <1>4. Sides = S \cup {"nuked"}
    BY <1>1 DEF Sides
  <1> QED BY <1>3, <1>4

\* A change of one release that does not lower what its two names hold together.
LEMMA MoreHeld ==
  ASSUME NukeAssumption, NEW g, NEW h, NEW p \in Releases,
         \A q \in Releases, s \in Sides : HeldAt(g, q, s) \in Nat /\ HeldAt(h, q, s) \in Nat,
         \A q \in Releases \ {p}, s \in Sides : HeldAt(h, q, s) = HeldAt(g, q, s),
         HeldAt(h, p, "plain") + HeldAt(h, p, "nuked") >= HeldAt(g, p, "plain") + HeldAt(g, p, "nuked")
  PROVE  SumFunction(Held(h)) >= SumFunction(Held(g))
PROOF
  <1> DEFINE All == Releases \X Sides
             a == <<p, "plain">>
             b == <<p, "nuked">>
  <1>1. a \in All /\ b \in All /\ a # b
    BY DEF Sides
  <1>2. IsFiniteSet(All)
    BY FiniteSides, FS_Product DEF NukeAssumption
  <1>3. PICK f : f = Held(g)
    OBVIOUS
  <1>4. PICK e : e = Held(h)
    OBVIOUS
  <1>5. /\ DOMAIN f = All /\ DOMAIN e = All
        /\ \A q \in Releases, s \in Sides : f[<<q, s>>] = HeldAt(g, q, s) /\ e[<<q, s>>] = HeldAt(h, q, s)
    BY <1>3, <1>4 DEF Held, HeldAt
  <1>6. \A x \in All : x \in {a, b} \/ f[x] = e[x]
    <2> SUFFICES ASSUME NEW q \in Releases, NEW s \in Sides, <<q, s>> \notin {a, b}
                 PROVE  f[<<q, s>>] = e[<<q, s>>]
      OBVIOUS
    <2>1. q # p
      BY DEF Sides
    <2> QED BY <1>5, <2>1
  <1>7. \A x \in All : f[x] \in Int /\ e[x] \in Int
    <2> SUFFICES ASSUME NEW q \in Releases, NEW s \in Sides
                 PROVE  f[<<q, s>>] \in Int /\ e[<<q, s>>] \in Int
      OBVIOUS
    <2> QED BY <1>5
  <1>8. f[a] + f[b] <= e[a] + e[b]
    BY <1>5 DEF Sides
  <1>9. SumFunction(f) = SumFunctionOnSet(f, All) /\ SumFunction(e) = SumFunctionOnSet(e, All)
    <2>1. \A x : SumFunction(x) = SumFunctionOnSet(x, DOMAIN x)
      BY DEF SumFunction, SumFunctionOnSet, FoldFunction
    <2> QED BY <1>5, <2>1
  <1> HIDE DEF All, a, b
  <1> DEFINE T == All \ {a}
             R == T \ {b}
  <1>10. IsFiniteSet(T) /\ IsFiniteSet(R) /\ b \in T /\ T \subseteq All /\ R \subseteq All
    BY <1>1, <1>2, FS_Subset
  <1>11. SumFunctionOnSet(f, All) = f[a] + SumFunctionOnSet(f, T)
         /\ SumFunctionOnSet(e, All) = e[a] + SumFunctionOnSet(e, T)
    BY <1>1, <1>2, <1>7, SumRemove
  <1>12. SumFunctionOnSet(f, T) = f[b] + SumFunctionOnSet(f, R)
         /\ SumFunctionOnSet(e, T) = e[b] + SumFunctionOnSet(e, R)
    BY <1>7, <1>10, SumRemove
  <1>13. SumFunctionOnSet(f, R) = SumFunctionOnSet(e, R)
    <2>1. \A x \in R : f[x] = e[x]
      BY <1>6, <1>10
    <2> QED BY <1>10, <2>1, SumSame
  <1>14. SumFunctionOnSet(f, R) \in Int
    BY <1>7, <1>10, SumInteger
  <1> HIDE DEF T, R
  <1>15. f[a] \in Int /\ f[b] \in Int /\ e[a] \in Int /\ e[b] \in Int
    BY <1>1, <1>7
  <1>16. PICK w \in Int : w = SumFunctionOnSet(f, R)
    BY <1>14
  <1>17. SumFunctionOnSet(f, All) = f[a] + (f[b] + w) /\ SumFunctionOnSet(e, All) = e[a] + (e[b] + w)
    BY <1>11, <1>12, <1>13, <1>16
  <1>18. e[a] + (e[b] + w) >= f[a] + (f[b] + w)
    BY <1>8, <1>15
  <1>19. SumFunctionOnSet(e, All) >= SumFunctionOnSet(f, All)
    BY <1>17, <1>18
  <1> QED BY <1>3, <1>4, <1>9, <1>19

\* All files are those that are on some side of some release.
LEMMA AllFilesHeld == AllFiles = SumFunction(Held(dir)) /\ AllFiles' = SumFunction(Held(dir'))
  BY DEF AllFiles, Held, Exists

\* A step that loses no file of one release loses none of all.
LEMMA KeepsFiles ==
  ASSUME NukeAssumption, DirFiles, DirFiles', NEW p \in Releases,
         \A q \in Releases \ {p} : dir'[q] = dir[q],
         HeldAt(dir', p, "plain") + HeldAt(dir', p, "nuked") >= HeldAt(dir, p, "plain") + HeldAt(dir, p, "nuked")
  PROVE  AllFiles' >= AllFiles
PROOF
  <1>1. PICK g : g = dir
    OBVIOUS
  <1>2. PICK h : h = dir'
    OBVIOUS
  <1>3. \A q \in Releases, s \in Sides : HeldAt(dir, q, s) \in Nat
    BY HeldNumber
  <1>4. \A q \in Releases, s \in Sides : HeldAt(dir', q, s) \in Nat
    <2> SUFFICES ASSUME NEW q \in Releases, NEW s \in Sides PROVE HeldAt(dir', q, s) \in Nat
      OBVIOUS
    <2>1. CASE dir'[q][s] = Nil
      BY <2>1 DEF HeldAt
    <2>2. CASE dir'[q][s] # Nil
      <3>1. PICK f : f = dir'[q][s].files
        OBVIOUS
      <3>2. f \in [Owners -> Nat]
        BY <2>2, <3>1 DEF DirFiles, SideFiles
      <3>3. SumFunction(f) \in Nat
        BY <3>2, FilesNumber
      <3> QED BY <2>2, <3>1, <3>3 DEF HeldAt
    <2> QED BY <2>1, <2>2
  <1>5. \A q \in Releases \ {p}, s \in Sides : HeldAt(h, q, s) = HeldAt(g, q, s)
    BY <1>1, <1>2 DEF HeldAt
  <1>6. \A q \in Releases, s \in Sides : HeldAt(g, q, s) \in Nat /\ HeldAt(h, q, s) \in Nat
    BY <1>1, <1>2, <1>3, <1>4
  <1>7. HeldAt(h, p, "plain") + HeldAt(h, p, "nuked") >= HeldAt(g, p, "plain") + HeldAt(g, p, "nuked")
    BY <1>1, <1>2
  <1>8. SumFunction(Held(h)) >= SumFunction(Held(g))
    BY <1>5, <1>6, <1>7, MoreHeld
  <1> QED BY <1>1, <1>2, <1>8, AllFilesHeld

\* All files add up to a number.
LEMMA AllFilesNumber ==
  ASSUME NukeAssumption, DirFiles
  PROVE  AllFiles \in Int
PROOF
  <1> DEFINE All == Releases \X Sides
  <1>1. PICK f : f = Held(dir)
    OBVIOUS
  <1>2. DOMAIN f = All /\ \A q \in Releases, s \in Sides : f[<<q, s>>] = HeldAt(dir, q, s)
    BY <1>1 DEF Held, HeldAt
  <1>3. \A x \in All : f[x] \in Int
    <2> SUFFICES ASSUME NEW q \in Releases, NEW s \in Sides PROVE f[<<q, s>>] \in Int
      OBVIOUS
    <2> QED BY <1>2, HeldNumber
  <1>4. IsFiniteSet(All)
    BY FiniteSides, FS_Product DEF NukeAssumption
  <1>5. SumFunction(f) = SumFunctionOnSet(f, DOMAIN f)
    BY DEF SumFunction, SumFunctionOnSet, FoldFunction
  <1>6. SumFunctionOnSet(f, All) \in Int
    <2> HIDE DEF All
    <2> QED BY <1>3, <1>4, SumInteger
  <1> QED BY <1>1, <1>2, <1>5, <1>6, AllFilesHeld

\* One directory of a release changes and holds no less than before.
LEMMA KeepsSide ==
  ASSUME NukeAssumption, DirTypes, DirFiles, DirFiles', NEW p \in Releases, NEW s \in Sides, NEW d,
         dir' = Changed(p, s, d), d # Nil,
         dir[p][s] # Nil => SumFunction(d.files) >= SumFunction(dir[p][s].files)
  PROVE  AllFiles' >= AllFiles
PROOF
  <1>1. PICK f : f = [dir[p] EXCEPT ![s] = d]
    OBVIOUS
  <1>2. \A o \in Sides : f[o] = IF o = s THEN d ELSE dir[p][o]
    BY <1>1 DEF DirTypes
  <1>3. \A q \in Releases : dir'[q] = IF q = p THEN f ELSE dir[q]
    BY <1>1 DEF Changed, DirTypes
  <1>4. HeldAt(dir', p, s) = SumFunction(d.files) /\ \A o \in Sides \ {s} : HeldAt(dir', p, o) = HeldAt(dir, p, o)
    BY <1>2, <1>3 DEF HeldAt
  <1>5. SumFunction(d.files) \in Nat
    <2>1. dir'[p][s] = d
      BY <1>2, <1>3
    <2>2. d.files \in [Owners -> Nat]
      BY <2>1 DEF DirFiles, SideFiles
    <2> QED BY <2>2, FilesNumber
  <1>6. \A o \in Sides : HeldAt(dir, p, o) \in Nat
    BY HeldNumber
  <1>7. HeldAt(dir', p, s) >= HeldAt(dir, p, s)
    <2>1. CASE dir[p][s] = Nil
      BY <1>4, <1>5, <2>1 DEF HeldAt
    <2>2. CASE dir[p][s] # Nil
      BY <1>4, <2>2 DEF HeldAt
    <2> QED BY <2>1, <2>2
  <1>8. HeldAt(dir', p, "plain") + HeldAt(dir', p, "nuked") >= HeldAt(dir, p, "plain") + HeldAt(dir, p, "nuked")
    <2>1. HeldAt(dir', p, s) \in Nat
      BY <1>4, <1>5
    <2>2. CASE s = "plain"
      BY <1>4, <1>6, <1>7, <2>1, <2>2 DEF Sides
    <2>3. CASE s = "nuked"
      BY <1>4, <1>6, <1>7, <2>1, <2>3 DEF Sides
    <2> QED BY <2>2, <2>3 DEF Sides
  <1> QED BY <1>3, <1>8, KeepsFiles

\* Writing an id loses no file.
LEMMA KeepsId ==
  ASSUME NukeAssumption, DirTypes, DirFiles, DirFiles', NEW p \in Releases, NEW s \in Sides,
         NEW id \in Nat \cup {Nil}, dir' = SetNukeID(p, s, id)
  PROVE  AllFiles' >= AllFiles
PROOF
  <1>1. CASE dir[p][s] = Nil
    <2>1. dir' = dir
      BY <1>1 DEF SetNukeID, Exists
    <2>2. AllFiles' = AllFiles /\ AllFiles \in Int
      BY <2>1, AllFilesHeld, AllFilesNumber
    <2> QED BY <2>2
  <1>2. CASE dir[p][s] # Nil
    <2>1. PICK old : old = dir[p][s]
      OBVIOUS
    <2>2. PICK d : d = [old EXCEPT !.id = id]
      OBVIOUS
    <2>3. old = [files |-> old.files, owner |-> old.owner, id |-> old.id] /\ old.files \in [Owners -> Nat]
      BY <1>2, <2>1 DEF DirTypes, SideShape, DirShape, DirFiles, SideFiles
    <2>4. d = [files |-> old.files, owner |-> old.owner, id |-> id]
      BY <2>2, <2>3
    <2>5. dir' = Changed(p, s, d)
      BY <1>2, <2>1, <2>2 DEF SetNukeID, Exists
    <2>6. SumFunction(d.files) >= SumFunction(dir[p][s].files)
      <3>1. SumFunction(old.files) \in Nat /\ d.files = old.files
        BY <2>3, <2>4, FilesNumber
      <3> QED BY <2>1, <3>1
    <2>7. d # Nil
      <3>1. old.owner \in Owners
        BY <1>2, <2>1 DEF DirFiles, SideFiles
      <3>2. d \in [files : [Owners -> Nat], owner : Owners, id : Nat \cup {Nil}]
        BY <2>3, <2>4, <3>1
      <3> QED BY <3>2 DEF NukeAssumption
    <2> QED BY <2>5, <2>6, <2>7, KeepsSide
  <1> QED BY <1>1, <1>2

\* A rename: what the target held was nothing.
LEMMA KeepsMoved ==
  ASSUME NukeAssumption, DirTypes, DirFiles, DirFiles', NEW p \in Releases, NEW from \in Sides, NEW to \in Sides,
         from # to, CanRename(p, from, to), NEW d, d # Nil, d.files = dir[p][from].files,
         dir' = [dir EXCEPT ![p] = [s \in Sides |-> IF s = to THEN d ELSE Nil]]
  PROVE  AllFiles' >= AllFiles
PROOF
  <1>1. PICK f : f = [s \in Sides |-> IF s = to THEN d ELSE Nil]
    OBVIOUS
  <1>2. \A q \in Releases : dir'[q] = IF q = p THEN f ELSE dir[q]
    BY <1>1 DEF DirTypes
  <1>3. f[to] = d /\ f[from] = Nil
    BY <1>1
  <1>4. HeldAt(dir', p, to) = HeldAt(dir, p, from) /\ HeldAt(dir', p, from) = 0
    <2>1. dir'[p][to] = d /\ dir'[p][from] = Nil
      BY <1>2, <1>3
    <2>2. dir[p][from] # Nil
      BY DEF CanRename, Exists
    <2>3. HeldAt(dir', p, to) = SumFunction(d.files)
      BY <2>1 DEF HeldAt
    <2>4. HeldAt(dir, p, from) = SumFunction(dir[p][from].files)
      BY <2>2 DEF HeldAt
    <2>5. HeldAt(dir', p, from) = 0
      BY <2>1 DEF HeldAt
    <2> QED BY <2>3, <2>4, <2>5
  <1>5. HeldAt(dir, p, to) = 0
    BY DEF HeldAt, CanRename, Exists, Empty
  <1>6. HeldAt(dir, p, from) \in Nat
    BY HeldNumber
  <1>7. HeldAt(dir', p, "plain") + HeldAt(dir', p, "nuked") >= HeldAt(dir, p, "plain") + HeldAt(dir, p, "nuked")
    <2>1. CASE to = "plain" /\ from = "nuked"
      BY <1>4, <1>5, <1>6, <2>1
    <2>2. CASE to = "nuked" /\ from = "plain"
      BY <1>4, <1>5, <1>6, <2>2
    <2> QED BY <2>1, <2>2 DEF Sides
  <1> QED BY <1>2, <1>7, KeepsFiles

\* One owner's count changes: the sum over the owners changes by as much.
LEMMA OneMore ==
  ASSUME NEW S, IsFiniteSet(S), NEW f, NEW g, NEW u \in S,
         \A x \in S : g[x] \in Int /\ f[x] \in Int, \A x \in S \ {u} : g[x] = f[x]
  PROVE  SumFunctionOnSet(f, S) = SumFunctionOnSet(g, S) - g[u] + f[u]
PROOF
  BY SumReplace

\* With nuke_style keep, no step loses a file.
LEMMA LoseNothingStep ==
  ASSUME NukeAssumption, NukeInv, DirFiles, DirFiles', Next
  PROVE  LoseNothing
PROOF
  <1> SUFFICES ASSUME Style = "Keep" PROVE AllFiles' >= AllFiles
    BY DEF LoseNothing
  <1>0. DirTypes /\ "plain" \in Sides /\ "nuked" \in Sides
    BY DEF NukeInv, NukeTypes, Sides
  <1>1. ASSUME UNCHANGED dir PROVE AllFiles' >= AllFiles
    <2>1. AllFiles' = AllFiles /\ AllFiles \in Int
      BY <1>1, AllFilesHeld, AllFilesNumber
    <2> QED BY <2>1
  <1>2. ASSUME NEW t \in Nukers, ActionTheDirectory(t) PROVE AllFiles' >= AllFiles
    <2>1. PICK p \in Releases : p = nuker[t].path
      BY <1>2, AtWork DEF ActionTheDirectory, At
    <2>2. dir' = RenameDirectory(p, "plain", "nuked")
      BY <1>2, <2>1 DEF ActionTheDirectory
    <2>3. CASE CanRename(p, "plain", "nuked")
      <3>1. PICK d : d = dir[p]["plain"]
        OBVIOUS
      <3>2. d # Nil /\ d.files = dir[p]["plain"].files
        BY <2>3, <3>1 DEF CanRename, Exists
      <3>3. dir' = [dir EXCEPT ![p] = [s \in Sides |-> IF s = "nuked" THEN d ELSE Nil]]
        BY <2>2, <2>3, <3>1 DEF RenameDirectory
      <3> QED BY <1>0, <2>3, <3>2, <3>3, KeepsMoved
    <2>4. CASE ~CanRename(p, "plain", "nuked")
      BY <1>1, <2>2, <2>4 DEF RenameDirectory
    <2> QED BY <2>3, <2>4
  <1>3. ASSUME NEW t \in Nukers, NukeID(t) PROVE AllFiles' >= AllFiles
    <2>1. PICK p \in Releases : p = nuker[t].path
      BY <1>3, AtWork DEF NukeID
    <2>2. PICK s \in Sides : dir' = SetNukeID(p, s, nuker[t].rec.id)
      BY <1>0, <1>3, <2>1 DEF NukeID
    <2>3. PICK id \in Nat : id = nuker[t].rec.id
      BY <1>3, AtWork DEF NukeID, JobShape, HasRecord, IdOf
    <2> QED BY <1>0, <2>2, <2>3, KeepsId
  <1>4. ASSUME NEW t \in Nukers, UnnukeRename(t) PROVE AllFiles' >= AllFiles
    <2>1. PICK p \in Releases : p = nuker[t].path
      BY <1>4, AtWork DEF UnnukeRename, At
    <2>2. CASE CanRename(p, "nuked", "plain")
      <3>1. PICK old : old = dir[p]["nuked"]
        OBVIOUS
      <3>2. PICK d : d = [old EXCEPT !.id = Nil]
        OBVIOUS
      <3>3. old # Nil /\ old = [files |-> old.files, owner |-> old.owner, id |-> old.id]
            /\ old.files \in [Owners -> Nat] /\ old.owner \in Owners
        BY <1>0, <2>2, <3>1 DEF DirTypes, SideShape, DirShape, DirFiles, SideFiles, CanRename, Exists
      <3>4. d = [files |-> old.files, owner |-> old.owner, id |-> Nil]
        BY <3>2, <3>3
      <3>5. d # Nil
        <4>1. d \in [files : [Owners -> Nat], owner : Owners, id : Nat \cup {Nil}]
          BY <3>3, <3>4
        <4> QED BY <4>1 DEF NukeAssumption
      <3>6. dir' = [dir EXCEPT ![p] = [s \in Sides |-> IF s = "plain" THEN d ELSE Nil]]
        BY <1>4, <2>1, <2>2, <3>1, <3>2 DEF UnnukeRename
      <3>7. d.files = dir[p]["nuked"].files
        BY <3>1, <3>4
      <3> QED BY <1>0, <2>2, <3>5, <3>6, <3>7, KeepsMoved
    <2>3. CASE ~CanRename(p, "nuked", "plain")
      <3>1. dir' = SetNukeID(p, "nuked", Nil)
        BY <1>4, <2>1, <2>3 DEF UnnukeRename
      <3> QED BY <1>0, <3>1, KeepsId
    <2> QED BY <2>2, <2>3
  <1>5. ASSUME NEW t \in Nukers, UnnukeID(t) PROVE AllFiles' >= AllFiles
    <2>1. PICK p \in Releases : p = nuker[t].path
      BY <1>5, AtWork DEF UnnukeID, At
    <2>2. PICK id \in Nat : id = nuker[t].rec.id
      BY <1>5, AtWork DEF UnnukeID, At, JobShape, HasRecord, IdOf
    <2>3. dir' = SetNukeID(p, "plain", id)
      BY <1>5, <2>1, <2>2 DEF UnnukeID
    <2> QED BY <1>0, <2>3, KeepsId
  <1>6. ASSUME NEW p \in Releases, Mkd(p) PROVE AllFiles' >= AllFiles
    <2>1. PICK d : d = NewDir(NoFiles)
      OBVIOUS
    <2>2. d # Nil
      <3>1. Min(Owners) \in Owners
        BY LeastOwner DEF NukeAssumption
      <3>2. d \in [files : [Owners -> Nat], owner : Owners, id : Nat \cup {Nil}]
        BY <2>1, <3>1 DEF NewDir, NoFiles
      <3> QED BY <3>2 DEF NukeAssumption
    <2>3. dir' = Changed(p, "plain", d) /\ dir[p]["plain"] = Nil
      BY <1>6, <2>1 DEF Mkd, Exists
    <2> QED BY <1>0, <2>2, <2>3, KeepsSide
  <1>7. ASSUME NEW p \in Releases, NEW u \in Owners, Stored(p, u) PROVE AllFiles' >= AllFiles
    <2>1. PICK old : old = dir[p]["plain"]
      OBVIOUS
    <2>2. PICK f : f = [old.files EXCEPT ![u] = @ + 1]
      OBVIOUS
    <2>3. PICK d : d = [old EXCEPT !.files = f]
      OBVIOUS
    <2>4. /\ old # Nil /\ old = [files |-> old.files, owner |-> old.owner, id |-> old.id]
          /\ old.files \in [Owners -> Nat] /\ old.owner \in Owners /\ old.id \in Nat \cup {Nil}
      BY <1>0, <1>7, <2>1 DEF DirTypes, SideShape, DirShape, IdOf, DirFiles, SideFiles, Stored, Exists
    <2>5. d = [files |-> f, owner |-> old.owner, id |-> old.id]
      BY <2>3, <2>4
    <2>6. f \in [Owners -> Nat] /\ f[u] = old.files[u] + 1 /\ \A x \in Owners \ {u} : f[x] = old.files[x]
      BY <2>2, <2>4
    <2>7. d # Nil
      <3>1. d \in [files : [Owners -> Nat], owner : Owners, id : Nat \cup {Nil}]
        BY <2>4, <2>5, <2>6
      <3> QED BY <3>1 DEF NukeAssumption
    <2>8. dir' = Changed(p, "plain", d)
      BY <1>7, <2>1, <2>2, <2>3 DEF Stored
    <2>9. SumFunction(d.files) >= SumFunction(dir[p]["plain"].files)
      <3>1. PICK g : g = old.files
        OBVIOUS
      <3>2. \A h \in [Owners -> Nat] : SumFunction(h) = SumFunctionOnSet(h, Owners)
        <4>1. \A h : SumFunction(h) = SumFunctionOnSet(h, DOMAIN h)
          BY DEF SumFunction, SumFunctionOnSet, FoldFunction
        <4> QED BY <4>1
      <3>3. \A x \in Owners : g[x] \in Int /\ f[x] \in Int
        BY <2>4, <2>6, <3>1
      <3>4. \A x \in Owners \ {u} : g[x] = f[x]
        BY <2>6, <3>1
      <3>10. IsFiniteSet(Owners)
        BY DEF NukeAssumption
      <3>5. SumFunctionOnSet(f, Owners) = SumFunctionOnSet(g, Owners) - g[u] + f[u]
        BY <3>3, <3>4, <3>10, OneMore
      <3>6. SumFunctionOnSet(g, Owners) \in Int
        BY <3>3, SumInteger DEF NukeAssumption
      <3>7. SumFunctionOnSet(f, Owners) >= SumFunctionOnSet(g, Owners)
        BY <2>6, <3>1, <3>3, <3>5, <3>6
      <3>8. SumFunction(f) >= SumFunction(g)
        BY <2>4, <2>6, <3>1, <3>2, <3>7
      <3>9. d.files = f
        BY <2>5
      <3> QED BY <2>1, <3>1, <3>8, <3>9
    <2> QED BY <1>0, <2>7, <2>8, <2>9, KeepsSide
  <1>8. CASE \E t \in Nukers : NUKECommand(t) \/ ToolNuke(t)
    BY <1>1, <1>8 DEF NUKECommand, ToolNuke, Nuke
  <1>9. CASE \E t \in Nukers : TakeCredits(t) \/ TakeStats(t) \/ NukeForget(t) \/ AddNuke(t) \/ DeleteContents(t)
    BY <1>1, <1>9 DEF TakeCredits, TakeStats, NukeForget, AddNuke, DeleteContents
  <1>10. CASE \E t \in Nukers, p \in Releases : Unnuke(t, p)
    BY <1>1, <1>10 DEF Unnuke
  <1>11. CASE \E t \in Nukers : RestoreCredits(t) \/ RestoreStats(t) \/ UnnukeDel(t) \/ AddUnnuke(t)
    BY <1>1, <1>11 DEF RestoreCredits, RestoreStats, UnnukeDel, AddUnnuke
  <1>12. CASE \E u \in Owners : PurgeOwner(u)
    BY <1>1, <1>12 DEF PurgeOwner
  <1> QED BY <1>2, <1>3, <1>4, <1>5, <1>6, <1>7, <1>8, <1>9, <1>10, <1>11, <1>12 DEF Next

\* With nuke_style keep no step of any command, however commands overlap and whichever
\* rename fails, leaves fewer files on disk.
THEOREM NothingLost == NukeAssumption => (Spec => [][LoseNothing]_vars)
PROOF
  <1> SUFFICES ASSUME NukeAssumption PROVE Spec => [][LoseNothing]_vars
    OBVIOUS
  <1>0. Nil \notin Releases
    BY DEF NukeAssumption
  <1> DEFINE I == NukeInv /\ DirFiles
  <1>1. Init => I
    BY <1>0, NukeInvInit, BookInvInit DEF BookInv, BookTypes
  <1>2. I /\ [Next]_vars => I'
    BY <1>0, NukeInvNext, DirFilesNext
  <1>3. I /\ I' /\ Next => LoseNothing
    BY LoseNothingStep
  <1>4. I /\ I' /\ [Next]_vars => [LoseNothing]_vars
    BY <1>3
  <1> QED BY <1>1, <1>2, <1>4, PTL DEF Spec
=============================================================================
