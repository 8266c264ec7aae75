----------------------------- MODULE Statistics -----------------------------
(***************************************************************************)
(* The transfers collection: one document per user, day and section, moved *)
(* by atomic $inc updates, and the rankings computed from it               *)
(* (src/db/stats/stats.cpp, src/stats/compile.cpp).                        *)
(*                                                                         *)
(* Uploads add to the section of the file, or to the nameless section when *)
(* the nostats ACL allows the uploader.  Deleting a file moves its share   *)
(* from the section to the nameless one, in two updates that each ask for  *)
(* the date, unless the ACL allows the deleter; nuking moves the shares of *)
(* a directory whatever the ACL says, and undoing a nuke moves them back.  *)
(* Weeks, months and years are sets of days; only the day and all time are *)
(* told apart here.  Downloads are the same update of other documents.     *)
(***************************************************************************)
EXTENDS Integers, Sequences, FiniteSets, FiniteSetsExt, Functions, SequencesExt

CONSTANTS
  Rankeds,       \* the users: 1..n, the uid
  StatSections,  \* the names of the configured sections
  RankGroups,    \* the groups
  Stores,        \* the uploads: who, where, how many kBytes (bytes / 1024, so 0
                 \* is possible) and whether the nostats ACL allows the user there
  Deletes,       \* who deletes, and whether the ACL allows that user there
  MaxFiles,      \* how many uploads are made
  MaxMoves,      \* how many times a share is moved between sections
  MaxDay,        \* how many days there are
  Sundays        \* days whose week number stats::Date and util::Time disagree on

VARIABLES
  transfers,   \* the documents: [user, day, section] to their three sums
  onDisk,      \* the files: owner, section of the directory, whether counted
               \* there, kBytes, day of upload, whether a nuke took the share
  moves,       \* the UploadDecr and UploadIncr under way
  today,
  nukeLog,     \* the nukees of the nukes: whose share of which files
  job,         \* the NUKE or UNNUKE under way
  uploaded,    \* history: the sum of the uploads
  uploadedOn,  \* history: the sum of the uploads of each day
  numMoves,
  unclean,     \* history: sections of which a share was taken that was not
               \* counted, or not taken, or taken twice, or not given back
  split        \* history: the days on which one update of a move fell without the other

statVars == <<transfers, onDisk, moves, today, nukeLog, job, uploaded, uploadedOn,
              numMoves, unclean, split>>

NoSection == "none"   \* the empty section name
AllSections == StatSections \cup {NoSection}
Days == 1 .. MaxDay
Zero == [files |-> 0, kBytes |-> 0, xfertime |-> 0]
Plus(a, b) == [f \in DOMAIN Zero |-> a[f] + b[f]]
Minus(a) == [f \in DOMAIN Zero |-> 0 - a[f]]
TotalOf(keys) ==
  [f \in DOMAIN Zero |->
     SumFunctionOnSet([k \in DOMAIN transfers |-> transfers[k][f]], keys \cap DOMAIN transfers)]
KBytesOf(fs) == SumFunctionOnSet([f \in fs |-> f.kBytes], fs)
NoJob == [do |-> "none", section |-> NoSection, day |-> 0, todo |-> {}, nuke |-> {}]

\* Uids and sizes are numbers; the empty name is not that of a configured section.
StatAssumption ==
  /\ IsFiniteSet(Rankeds) /\ Rankeds \subseteq Nat /\ IsFiniteSet(StatSections)
  /\ NoSection \notin StatSections /\ MaxDay \in Nat \ {0}
  /\ Stores \subseteq [owner : Rankeds, section : AllSections, kBytes : Nat, nostats : BOOLEAN]
  /\ Deletes \subseteq Rankeds \X BOOLEAN

Init ==
  /\ transfers = <<>>   \* no documents
  /\ onDisk = {}
  /\ moves = {}
  /\ today = 1
  /\ nukeLog = {}
  /\ job = NoJob
  /\ uploaded = Zero
  /\ uploadedOn = [d \in Days |-> Zero]
  /\ numMoves = 0
  /\ unclean = {}
  /\ split = {}

\* An upsert of the document of today.
Update(uid, section, stat) ==
  LET key == <<uid, today, section>>
  IN transfers' = [k \in DOMAIN transfers \cup {key} |->
                     IF k # key THEN transfers[k]
                     ELSE IF k \in DOMAIN transfers THEN Plus(transfers[k], stat)
                     ELSE stat]

\* The time a transfer of kBytes took on the average of everybody's uploads of
\* that day: the pipeline groups by a constant and matches no uid.  A day with
\* time but without kBytes divides by zero: the conversion of the infinity or
\* NaN gives the smallest integer of x86, which the caller takes for a failure.
\* Documents carry the week of the following day and the query has the week of
\* the day itself, so on a Sunday none is found; a failure counts as no time.
XfertimeCorrection(uid, kBytes, day) ==
  LET total == TotalOf(Rankeds \X {day} \X AllSections)
  IN IF day \notin Sundays /\ total.xfertime > 0 /\ total.kBytes > 0
     THEN (total.xfertime * kBytes + total.kBytes - 1) \div total.kBytes
     ELSE 0

\* What Upload adds for one file; the users differ in speed.
UploadStat(u, kb) == [files |-> 1, kBytes |-> kb, xfertime |-> u]

\* Whether STOR and DELE count a file in its section: there is one, and the
\* nostats ACL does not allow the user who stores or deletes.
Counts(section, nostats) == section # NoSection /\ ~nostats

\* STOR: the file is on disk and its upload is recorded.  (A transfer that
\* fails is recorded without a section and leaves no file: an upload under
\* nostats and its wiping.)
Upload ==
  \E x \in Stores :
    LET counted == Counts(x.section, x.nostats)
        stat == UploadStat(x.owner, x.kBytes)
    IN /\ uploaded.files < MaxFiles
       /\ uploaded' = Plus(uploaded, stat)
       /\ uploadedOn' = [uploadedOn EXCEPT ![today] = Plus(@, stat)]
       /\ onDisk' = onDisk \cup
            {[id |-> uploaded.files, owner |-> x.owner, section |-> x.section,
              counted |-> counted, kBytes |-> x.kBytes, day |-> today, nuked |-> FALSE]}
       /\ Update(x.owner, IF counted THEN x.section ELSE NoSection, stat)
       /\ UNCHANGED <<moves, today, nukeLog, job, numMoves, unclean, split>>

\* Mutant: UploadIncr forgets the nameless section.
UploadIncrOnly(uid, section, stat) ==
  << [uid |-> uid, section |-> section, stat |-> stat] >>

\* What UploadDecr and UploadIncr do after the correction: two updates.
UploadDecr(uid, section, stat) ==
  << [uid |-> uid, section |-> section, stat |-> Minus(stat)],
     [uid |-> uid, section |-> NoSection, stat |-> stat] >>

UploadIncr(uid, section, stat) ==
  << [uid |-> uid, section |-> NoSection, stat |-> Minus(stat)],
     [uid |-> uid, section |-> section, stat |-> stat] >>

StatOf(uid, fs, day) ==
  [files |-> Cardinality(fs), kBytes |-> KBytesOf(fs),
   xfertime |-> XfertimeCorrection(uid, KBytesOf(fs), day)]

NewMove(updates) ==
  /\ numMoves < MaxMoves
  /\ numMoves' = numMoves + 1
  /\ moves' = moves \cup {[id |-> numMoves, left |-> updates, began |-> 0]}

\* DELE: the stats of the user who deletes are moved, whoever uploaded, and
\* nostats is asked of the user who deletes.
DeleteFile ==
  \E f \in onDisk, d \in Deletes :
    /\ onDisk' = onDisk \ {f}
    /\ IF Counts(f.section, d[2])
       THEN NewMove(UploadDecr(d[1], f.section, StatOf(d[1], {f}, f.day)))
       ELSE UNCHANGED <<moves, numMoves>>
    /\ unclean' = IF f.nuked \/ f.counted # Counts(f.section, d[2])
                  THEN unclean \cup {f.section} ELSE unclean
    /\ UNCHANGED <<transfers, today, nukeLog, job, uploaded, uploadedOn, split>>

\* WIPE, and a nuke_style that deletes: the file goes without its share.
WipeFile ==
  \E f \in onDisk :
    /\ onDisk' = onDisk \ {f}
    /\ unclean' = IF f.nuked \/ f.counted THEN unclean \cup {f.section} ELSE unclean
    /\ UNCHANGED <<transfers, moves, today, nukeLog, job, uploaded, uploadedOn, numMoves, split>>

\* NUKE looks at the files of a directory, with the day the directory was
\* changed; one nuke or unnuke at a time.  Outside the sections UploadDecr and
\* UploadIncr return at once.
CalculateNukees ==
  \E s \in StatSections, day \in 1 .. today :
    \E dir \in SUBSET {f \in onDisk : f.section = s /\ ~f.nuked} :
      /\ job.do = "none" /\ dir # {} /\ numMoves < MaxMoves
      /\ job' = [do |-> "nuke", section |-> s, day |-> day, todo |-> dir,
                 nuke |-> {f.id : f \in dir}]
      /\ UNCHANGED <<transfers, onDisk, moves, today, nukeLog, uploaded, uploadedOn,
                     numMoves, unclean, split>>

\* One nukee of TakeStats, in the order of the uids, with the files seen
\* before; a nukee without kBytes is left out.  The record of the nuke is
\* complete after the last.  What another session deleted meanwhile is taken
\* again, and a file stored under nostats is taken like any other.
TakeStats ==
  \E u \in {f.owner : f \in job.todo} :
    LET fs == {f \in job.todo : f.owner = u}
        stat == StatOf(u, fs, job.day)
    IN /\ job.do = "nuke" /\ \A f \in job.todo : u <= f.owner
       /\ job' = IF fs = job.todo THEN NoJob ELSE [job EXCEPT !.todo = @ \ fs]
       /\ onDisk' = (onDisk \ fs) \cup {[f EXCEPT !.nuked = TRUE] : f \in fs \cap onDisk}
       /\ nukeLog' = nukeLog \cup
            {[uid |-> u, section |-> job.section, day |-> job.day, kBytes |-> stat.kBytes,
              files |-> stat.files, ids |-> {f.id : f \in fs}, nuke |-> job.nuke]}
       /\ IF stat.kBytes > 0 THEN NewMove(UploadDecr(u, job.section, stat))
          ELSE UNCHANGED <<moves, numMoves>>
       /\ unclean' = IF stat.kBytes > 0 /\ \A f \in fs : f \in onDisk /\ f.counted
                     THEN unclean ELSE unclean \cup {job.section}
       /\ UNCHANGED <<transfers, today, uploaded, uploadedOn, split>>

\* UNNUKE finds the record.
LookupNuke ==
  \E n \in nukeLog :
    /\ job.do = "none" /\ numMoves < MaxMoves
    /\ job' = [NoJob EXCEPT !.do = "unnuke", !.nuke = n.nuke]
    /\ UNCHANGED <<transfers, onDisk, moves, today, nukeLog, uploaded, uploadedOn,
                   numMoves, unclean, split>>

\* One nukee of RestoreStats: the kBytes are the nukee's, the files those of
\* the whole nuke.
RestoreStats ==
  \E n \in nukeLog :
    LET rest == {m \in nukeLog \ {n} : m.nuke = job.nuke}
    IN /\ job.do = "unnuke" /\ n.nuke = job.nuke /\ \A m \in rest : n.uid <= m.uid
       /\ job' = IF rest = {} THEN NoJob ELSE job
       /\ onDisk' = {[f EXCEPT !.nuked = @ /\ f.id \notin n.ids] : f \in onDisk}
       /\ nukeLog' = nukeLog \ {n}
       /\ NewMove(UploadIncr(n.uid, n.section,
                    [files |-> Cardinality(n.nuke), kBytes |-> n.kBytes,
                     xfertime |-> XfertimeCorrection(n.uid, n.kBytes, n.day)]))
       /\ unclean' = IF Cardinality(n.nuke) = n.files THEN unclean
                     ELSE unclean \cup {n.section}
       /\ UNCHANGED <<transfers, today, uploaded, uploadedOn, split>>

\* One of the two updates of a move reaches the database, under today's date.
MoveStep ==
  \E m \in moves :
    /\ Update(Head(m.left).uid, Head(m.left).section, Head(m.left).stat)
    /\ moves' = (moves \ {m}) \cup
         IF Len(m.left) > 1 THEN {[m EXCEPT !.left = Tail(@), !.began = today]} ELSE {}
    /\ split' = IF Len(m.left) = 1 /\ m.began # today THEN split \cup {m.began, today}
                ELSE split
    /\ UNCHANGED <<onDisk, today, nukeLog, job, uploaded, uploadedOn, numMoves, unclean>>

\* Midnight, also between the two updates of a move.
Midnight ==
  /\ today < MaxDay
  /\ today' = today + 1
  /\ UNCHANGED <<transfers, onDisk, moves, nukeLog, job, uploaded, uploadedOn, numMoves,
                 unclean, split>>

Next ==
  \/ Upload
  \/ DeleteFile
  \/ WipeFile
  \/ CalculateNukees
  \/ TakeStats
  \/ LookupNuke
  \/ RestoreStats
  \/ MoveStep
  \/ Midnight

Spec == Init /\ [][Next]_statVars

-----------------------------------------------------------------------------
(* The rankings. *)

\* RetrieveUsers: the users that have a document in the timeframe.  The average
\* speed divides by the time: one user whose time sums to zero makes the whole
\* aggregate fail, and the ranking is empty.
RetrieveUsers(section, days) ==
  LET secs == IF section = NoSection THEN StatSections ELSE {section}
      totals == [u \in Rankeds |-> TotalOf({u} \X days \X secs)]
      found == {u \in Rankeds : DOMAIN transfers \cap ({u} \X days \X secs) # {}}
  IN IF \E u \in found : totals[u].xfertime = 0 THEN {}
     ELSE {[id |-> u, stat |-> totals[u]] : u \in found}

\* RetrieveGroups: the users' sums added up by their primary groups at the time
\* of the request, groupOf, and put in order by lower_bound with "greater".
AddToGroup(groupOf, groups, u) ==
  LET g == groupOf[u.id]
  IN IF g \in DOMAIN groups THEN [groups EXCEPT ![g] = Plus(@, u.stat)]
     ELSE [h \in DOMAIN groups \cup {g} |->
             IF h \in DOMAIN groups THEN groups[h] ELSE u.stat]

InsertSorted(ranked, entry, field) ==
  LET pos == Cardinality({i \in DOMAIN ranked :
                            ranked[i].stat[field] > entry.stat[field]}) + 1
  IN InsertAt(ranked, pos, entry)

RetrieveGroups(groupOf, section, days, field) ==
  LET sums == FoldSet(LAMBDA u, acc : AddToGroup(groupOf, acc, u), <<>>,
                      RetrieveUsers(section, days))
  IN FoldSet(LAMBDA g, acc : InsertSorted(acc, [id |-> g, stat |-> sums[g]], field),
             <<>>, DOMAIN sums)

\* CompileGroupRanks: the loop ends at the first entry without files.
CompileGroupRanks(groupOf, section, days, field) ==
  LET ranked == RetrieveGroups(groupOf, section, days, field)
      cut == {i \in DOMAIN ranked : ranked[i].stat.files <= 0}
  IN SubSeq(ranked, 1, IF cut = {} THEN Len(ranked) ELSE Min(cut) - 1)

-----------------------------------------------------------------------------
(* When no move is under way, the uploads counted for a section, over all  *)
(* users and days, are the counted files of that section whose share no    *)
(* nuke holds: deleting, nuking and undoing a nuke (stats.cpp:114-154)     *)
(* move shares and lose none, across midnight, while a nuke is half done   *)
(* and when one user deletes another's file.  It goes wrong, and is        *)
(* excused (unclean), where: DELE and STOR disagree about nostats, which   *)
(* one asks of the uploader and the other of the deleter; a nuked          *)
(* directory holds a file stored under nostats, only files below one kByte *)
(* of a nukee (taken by kBytes, restored by files), or one deleted since   *)
(* NUKE looked; a nuke of several nukees is undone, which restores all its *)
(* files to each (nuking.cpp:573); a nuked file is deleted; WIPE.          *)
SectionExact ==
  moves = {} =>
    \A s \in StatSections \ unclean :
      LET standing == {f \in onDisk : f.section = s /\ f.counted /\ ~f.nuked}
          total == TotalOf(Rankeds \X Days \X {s})
      IN /\ total.files = Cardinality(standing)
         /\ total.kBytes = KBytesOf(standing)

(* What was transferred, over the sections and the nameless one, is never  *)
(* changed by a finished move, over all days, and on each day unless       *)
(* midnight fell between the two updates of a move (stats.cpp:131-132,     *)
(* 152-153): XfertimeCorrection divides by the sums of a day, so deleting  *)
(* and nuking leave the average speed alone.                               *)
AverageKept ==
  moves = {} =>
    /\ TotalOf(Rankeds \X Days \X AllSections) = uploaded
    /\ \A d \in Days \ split : TotalOf(Rankeds \X {d} \X AllSections) = uploadedOn[d]

(* The ranking of the groups adds up: every group of a user with transfers *)
(* is in it once, with the sum of its members (stats.cpp:245-308).         *)
GroupsAddUp ==
  \A groupOf \in [Rankeds -> RankGroups] :
    LET users == RetrieveUsers(NoSection, Days)
        ranked == RetrieveGroups(groupOf, NoSection, Days, "files")
    IN /\ {ranked[i].id : i \in DOMAIN ranked} = {groupOf[u.id] : u \in users}
       /\ \A i \in DOMAIN ranked :
            ranked[i].stat.files =
              MapThenSumSet(LAMBDA u : u.stat.files,
                            {u \in users : groupOf[u.id] = ranked[i].id})

(* A group that is shown stands above every group with less, and by files  *)
(* no group with files is cut off by the loop of CompileGroupRanks that    *)
(* ends at the first group without (compile.cpp:98-100).                   *)
RanksComplete ==
  \A groupOf \in [Rankeds -> RankGroups] :
    LET shown == CompileGroupRanks(groupOf, NoSection, Days, "files")
        all == RetrieveGroups(groupOf, NoSection, Days, "files")
    IN /\ ToSet(shown) = {g \in ToSet(all) : g.stat.files > 0}
       /\ \A i, j \in DOMAIN shown :
            i < j => shown[i].stat.files >= shown[j].stat.files

\* Sections and averages follow the files, and the rankings follow the sections.
StatisticsSound == SectionExact /\ AverageKept /\ GroupsAddUp /\ RanksComplete
=============================================================================
