----------------------------- MODULE FileSystem -----------------------------
(***************************************************************************)
(* The virtual file system (fs/), the rights on paths (acl/path.cpp) and   *)
(* the commands that change or show it: CWD, CDUP, MKD, RMD, DELE, RNFR,   *)
(* RNTO, MFMT and the listings (cmd/rfc), SITE WIPE, CHOWN, CHMOD, UPDATE and NEW     *)
(* (cmd/site), with the index of directories (db/index).                   *)
(*                                                                         *)
(* Paths are virtual and sequences of names; symbolic links are left out.  *)
(* A system call or a query is a step of its own wherever a command makes  *)
(* several, so that the commands of two clients overlap.                   *)
(***************************************************************************)
EXTENDS Integers, Sequences, SequencesExt, FiniteSets, FiniteSetsExt, Functions

CONSTANTS
  Clients,      \* uids of the clients; 0 is the owner of what has none
  Names,        \* file names, those that begin with a dot in Dotted
  Dotted,
  Starts,       \* <<m, n>> when m is a prefix of n, without regard to case
  Home,         \* home directory of each client
  Private,      \* privpath: sequence of [path, users]
  Hidden,       \* paths that hidden_files masks match
  Rights,       \* upload, makedir, delete, ...: for each a sequence of [paths, users]
  Aliases,      \* alias: name -> path
  Cdpath,       \* sequence of directories
  Indexed,      \* paths that indexed matches
  Unsearchable, \* paths whose mode does not let the server enter them
  Stored,       \* files that are there at first: path -> owner
  MaxRecursion, \* lslong, 0 without limit
  Acts,         \* sets of commands that a behaviour can use
  Absent,       \* no path, no number
  MaxActs, MaxDepth \* bounds: commands, depth of a path

Paths == UNION {[1 .. n -> Names] : n \in 0 .. MaxDepth}
Root == <<>>
Dirname(p) == IF p = Root THEN Root ELSE Front(p)
Basename(p) == Last(p)
Below(p, q) == IsPrefix(p, q) /\ p # q

VARIABLES
  tree,     \* node of each path that exists: [dir, own, tag]
  index,    \* the index collection
  work,     \* working directory of each client
  from,     \* ClientImpl::renameFrom
  confirm,  \* ClientImpl::confirmCommand
  act,      \* the command of each client
  mask,     \* umask of the process: is it the configured one
  acts, numActs, \* commands of this behaviour, bound
  mixed,    \* history: two commands overlapped
  moved,    \* history: a directory that holds others was renamed
  trespass  \* history: a command removed what it was not entitled to, or charged another's file

vars == <<tree, index, work, from, confirm, act, mask, acts, numActs, mixed, moved, trespass>>
sessionVars == <<work, from, confirm>>
histVars == <<mixed, moved, trespass>>

\* own: loseCredits of DELE; may: history, what the command is entitled to remove.
Job(op, at, p, q, todo) ==
  [op |-> op, at |-> at, p |-> p, q |-> q, todo |-> todo, failed |-> 0, own |-> FALSE, may |-> {}]
Free == Job("", "", Root, Root, <<>>)
Dir(o) == [dir |-> TRUE, own |-> o, tag |-> 0]
File(o) == [dir |-> FALSE, own |-> o, tag |-> 0]
Exists(p) == p \in DOMAIN tree
IsDir(p) == Exists(p) /\ tree[p].dir
IsFile(p) == Exists(p) /\ ~tree[p].dir
Children(p) == {q \in DOMAIN tree : q # Root /\ Dirname(q) = p}
Owner(p) == IF Exists(p) THEN tree[p].own ELSE 0
Unlinked(P) == [q \in DOMAIN tree \ P |-> tree[q]]
Make(p, n) == [q \in DOMAIN tree \cup {p} |-> IF q = p THEN n ELSE tree[q]]

-----------------------------------------------------------------------------
(* acl/path.cpp *)

\* The first right whose mask matches decides.
Evaluate(list, c, p) ==
  LET m == {i \in DOMAIN Rights[list] : p \in Rights[list][i].paths} IN
  m # {} /\ c \in Rights[list][Min(m)].users

InsideHomeDir(c, p, dir) == IsPrefix(Home[c], p) /\ (dir \/ p # Home[c] \/ p = Root)

\* A string prefix: the last name of a privpath may be the start of a name.
PrivatePath(c, p) ==
  LET m == {i \in DOMAIN Private : LET r == Private[i].path IN
              /\ Len(r) <= Len(p) /\ Front(r) = SubSeq(p, 1, Len(r) - 1)
              /\ <<Last(r), p[Len(r)]>> \in Starts} IN
  m # {} /\ c \notin Private[Min(m)].users

HiddenFile(p) == p \in Hidden

OwnOrOther(type, c, p) ==
  \/ Owner(p) = c /\ Evaluate(type \o "own", c, p)
  \/ Evaluate(type, c, p)

Traits(type, c, p) ==
  CASE type = "view" -> IF HiddenFile(p) THEN "ENOENT" ELSE "ok"
    [] type \in {"delete", "rename", "move", "modify", "overwrite"} -> IF OwnOrOther(type, c, p) THEN "ok" ELSE "EACCES"
    [] OTHER -> IF Evaluate(type, c, p) THEN "ok" ELSE "EACCES"

InnerAllowed(type, c, p, dir) ==
  IF ~InsideHomeDir(c, p, dir) THEN "EACCES"
  ELSE IF PrivatePath(c, p) THEN "ENOENT"
  ELSE Traits(type, c, p)

FileAllowed(type, c, p) == InnerAllowed(type, c, p, FALSE)
DirAllowed(type, c, p) == InnerAllowed(type, c, p, TRUE)
Allowed(type, c, p) == InnerAllowed(type, c, p, IsDir(p))

\* The directories of a new site.
FirstDirs == {Root} \cup {<<n>> : n \in Names \ Dotted}

\* A client begins in a directory it may enter (cmd/rfc/pass.cpp:85-96).
FileAssumption ==
  /\ IsFiniteSet(Names) /\ 0 \notin Clients /\ MaxDepth \in Nat \ {0} /\ MaxRecursion \in Nat
  /\ Absent \notin Paths /\ Indexed \subseteq Paths
  /\ IsFiniteSet(DOMAIN Stored) /\ Stored \in [DOMAIN Stored -> Clients]
  /\ \A p \in DOMAIN Stored : p \in Paths \ FirstDirs /\ Dirname(p) \in FirstDirs
  /\ Home \in [Clients -> Paths] /\ \A c \in Clients : ~PrivatePath(c, Home[c]) /\ ~HiddenFile(Home[c])

-----------------------------------------------------------------------------
Commands(c, op) == op \in acts /\ act[c] = Free /\ numActs < MaxActs
\* A command begins; steps follow, or not.
Start(c, op) ==
  /\ Commands(c, op) /\ numActs' = numActs + 1
  /\ mixed' = (mixed \/ \E d \in Clients : act[d] # Free)
Put(c, j) == act' = [act EXCEPT ![c] = j]
Done(c) == Put(c, Free)
Keep == UNCHANGED <<acts, moved, trespass>>
Quiet == UNCHANGED <<acts, numActs, mixed, moved>>

\* What a command that begins now, with the path p, is entitled to remove of what
\* is at p or below: all it has the delete right to, where the client may go. RMD
\* and WIPE ask for no right to the dotted files of a directory they may delete
\* (fs/directory.cpp:174-179), RNTO for none to what it replaces but the one to
\* upload, or to make a directory, there (cmd/rfc/commands.cpp:712-742).
Deletable(c, x) == IsPrefix(Home[c], x) /\ ~PrivatePath(c, x) /\ OwnOrOther("delete", c, x)
Replaceable(c, x, right) == IsPrefix(Home[c], x) /\ ~PrivatePath(c, x) /\ Evaluate(right, c, x)
Entitled(c, op, p) ==
  {x \in DOMAIN tree : IsPrefix(p, x) /\
     CASE op = "RNTO" -> Replaceable(c, x, "upload")
       [] op = "RNTOdir" -> Replaceable(c, x, "makedir")
       [] op = "DELE" -> Deletable(c, x)
       [] OTHER -> Deletable(c, x) \/ (IsFile(x) /\ Basename(x) \in Dotted /\ Deletable(c, Dirname(x)))}
\* A command that removes: the owner is read first, by DELE.
Removal(c, op, at, p, q, todo) ==
  [op |-> op, at |-> at, p |-> p, q |-> q, todo |-> todo, failed |-> 0,
   own |-> (Owner(p) = c), may |-> Entitled(c, op, IF at = "rename" THEN q ELSE p)]
\* What the code removes is judged by what held when the command began.
Judge(c, P) ==
  trespass' = (trespass \/ ~(P \subseteq act[c].may) \/ (act[c].op = "DELE" /\ act[c].own # (Owner(act[c].p) = c)))
Unlink(c, P) == tree' = Unlinked(P) /\ Judge(c, P)

-----------------------------------------------------------------------------
(* Working directory *)

ChangeDirectory(c, p) ==
  IF DirAllowed("view", c, p) # "ok" THEN DirAllowed("view", c, p)
  ELSE IF ~Exists(p) THEN "ENOENT" ELSE IF ~IsDir(p) THEN "ENOTDIR"
  ELSE IF p \in Unsearchable THEN "EACCES" ELSE "ok"

\* Results are <<error, directory>>; several where the order of a directory
\* decides.
ChangeAlias(c, n) ==
  IF n \in DOMAIN Aliases THEN {<<ChangeDirectory(c, Aliases[n]), Aliases[n]>>} ELSE {<<"ENOENT", Root>>}

ChangeMatch(c, p) ==
  LET found == {q \in Children(Dirname(p)) : <<Basename(p), Basename(q)>> \in Starts /\ Allowed("view", c, q) = "ok"}
      final == {q \in found : ChangeDirectory(c, q) \notin {"ENOENT", "ENOTDIR"}}
  IN  IF DirAllowed("view", c, p) # "ok" THEN {<<DirAllowed("view", c, p), Root>>}
      ELSE IF final = {} THEN {<<"ENOENT", Root>>} ELSE {<<ChangeDirectory(c, q), q>> : q \in final}

ChangeCdpath(c, n) ==
  LET out(i) == ChangeMatch(c, Append(Cdpath[i], n))
      hits == {i \in DOMAIN Cdpath : \E r \in out(i) : r[1] # "ENOENT"}
  IN  IF hits = {} THEN {<<"ENOENT", Root>>} ELSE out(Min(hits))

\* CWDCommand::Execute for a bare name n relative to the working directory, or
\* for the path p when n is Absent: every way is tried while the error is ENOENT.
CWD(c, n, p) ==
  LET first == {<<ChangeDirectory(c, p), p>>}
      then(R, S) == UNION {IF r[1] = "ENOENT" THEN S ELSE {r} : r \in R}
      none == {<<"ENOENT", Root>>}
      match == IF p = Root THEN none ELSE ChangeMatch(c, p)
  IN  then(then(then(first, IF n = Absent THEN none ELSE ChangeAlias(c, n)), match),
           IF n = Absent THEN none ELSE ChangeCdpath(c, n))

Chdir(c) ==
  /\ Start(c, "CWD")
  /\ \/ \E n \in Names \cup DOMAIN Aliases :
          \E s \in CWD(c, n, Append(work[c], n)) : s[1] = "ok" /\ work' = [work EXCEPT ![c] = s[2]]
     \/ \E p \in Paths : \E s \in CWD(c, Absent, p) : s[1] = "ok" /\ work' = [work EXCEPT ![c] = s[2]]
     \/ /\ ChangeDirectory(c, Dirname(work[c])) = "ok" \* CDUP
        /\ work' = [work EXCEPT ![c] = Dirname(work[c])]
  /\ Keep /\ UNCHANGED <<tree, index, from, confirm, act, mask>>

-----------------------------------------------------------------------------
(* MKD, RMD, DELE, RNFR, RNTO *)

\* mkdir(2); the owner and the index follow.
MKD(c) ==
  /\ Start(c, "MKD")
  /\ \E p \in Paths \ {Root} :
       /\ DirAllowed("makedir", c, p) = "ok" /\ IsDir(Dirname(p)) /\ ~Exists(p)
       /\ tree' = Make(p, Dir(0)) /\ Put(c, Job("MKD", "own", p, Root, <<>>))
  /\ Keep /\ UNCHANGED <<index, sessionVars, mask>>

SetOwner(c) ==
  LET p == act[c].p IN
  /\ act[c].at = "own"
  /\ tree' = IF Exists(p) THEN Make(p, [tree[p] EXCEPT !.own = c]) ELSE tree
  /\ IF p \in Indexed THEN Put(c, Job("MKD", "add", p, p, <<>>)) ELSE Done(c)
  /\ Quiet /\ UNCHANGED <<index, sessionVars, mask, trespass>>

\* Ends MKD and RNTO.
IndexAdd(c) ==
  /\ act[c].at = "add" /\ index' = index \cup {act[c].q} /\ Done(c)
  /\ Quiet /\ UNCHANGED <<tree, sessionVars, mask, trespass>>

\* Mutant: any file may be left.
MayRemoveDirectoryFull(c, p) == IsDir(p) /\ DirAllowed("delete", c, p) = "ok" /\ \A q \in Children(p) : ~IsDir(q)

\* fs::RemoveDirectory: its right, and its first loop over the directory: only
\* files that begin with a dot may be left.
MayRemoveDirectory(c, p) ==
  /\ IsDir(p) /\ DirAllowed("delete", c, p) = "ok"
  /\ \A q \in Children(p) : Basename(q) \in Dotted /\ ~IsDir(q)

\* Its second loop reads the directory again and unlinks every entry, until one
\* is a directory; then rmdir.
Unlinks(p) ==
  IF ~IsDir(p) THEN {{}}
  ELSE IF \A q \in Children(p) : IsFile(q) THEN {Children(p) \cup {p}}
  ELSE SUBSET {q \in Children(p) : IsFile(q)}

RMD(c) ==
  /\ Start(c, "RMD")
  /\ \E p \in DOMAIN tree \ {Root} :
       MayRemoveDirectory(c, p) /\ Put(c, Removal(c, "RMD", "rmdir", p, Root, <<>>))
  /\ Keep /\ UNCHANGED <<tree, index, sessionVars, mask>>

RemoveDirectory(c) ==
  LET p == act[c].p IN
  /\ act[c].at = "rmdir"
  /\ \E P \in Unlinks(p) :
       /\ Unlink(c, P)
       /\ IF p \in P \cap Indexed THEN Put(c, [act[c] EXCEPT !.at = "del"]) ELSE Done(c)
  /\ Quiet /\ UNCHANGED <<index, sessionVars, mask>>

\* Mutant: the entry is not removed.
IndexDeleteNone(c) ==
  /\ act[c].at = "del" /\ Done(c) /\ Quiet /\ UNCHANGED <<tree, index, sessionVars, mask, trespass>>

IndexDelete(c) ==
  /\ act[c].at = "del" /\ index' = index \ {act[c].p} /\ Done(c)
  /\ Quiet /\ UNCHANGED <<tree, sessionVars, mask, trespass>>

\* The owner, who loses credits, is read first.
DELE(c) ==
  /\ Start(c, "DELE")
  /\ \E p \in DOMAIN tree \ {Root} : Put(c, Removal(c, "DELE", "unlink", p, Root, <<>>))
  /\ Keep /\ UNCHANGED <<tree, index, sessionVars, mask>>

MayDelete(c, p) == IsFile(p) /\ FileAllowed("delete", c, p) = "ok"

DeleteFile(c) ==
  /\ act[c].at = "unlink" /\ Done(c)
  /\ IF MayDelete(c, act[c].p) THEN Unlink(c, {act[c].p}) ELSE UNCHANGED <<tree, trespass>>
  /\ Quiet /\ UNCHANGED <<index, sessionVars, mask>>

\* The right to rename, else the right to move.
RNFR(c) ==
  /\ Start(c, "RNFR")
  /\ \E p \in Paths \ {Root} :
       LET e == Allowed("rename", c, p) IN
       /\ e = "ok" \/ (e = "EACCES" /\ Allowed("move", c, p) = "ok")
       /\ from' = [from EXCEPT ![c] = p]
  /\ Keep /\ UNCHANGED <<tree, index, work, confirm, act, mask>>

\* RNTO checks the rights again, on both names.
RNTO(c) ==
  /\ Start(c, "RNTO") /\ from[c] # Absent /\ from' = [from EXCEPT ![c] = Absent]
  /\ \E q \in Paths \ {Root} :
       LET p == from[c]
           okay == /\ Dirname(p) # Dirname(q) => Allowed("move", c, p) = "ok"
                   /\ Basename(p) # Basename(q) => Allowed("rename", c, p) = "ok"
                   /\ Exists(p)
                   /\ IF IsDir(p) THEN DirAllowed("makedir", c, q) = "ok" ELSE FileAllowed("upload", c, q) = "ok"
       IN  IF okay THEN Put(c, Removal(c, IF IsDir(p) THEN "RNTOdir" ELSE "RNTO", "rename", p, q, <<>>))
           ELSE UNCHANGED act
  /\ Keep /\ UNCHANGED <<tree, index, work, confirm, mask>>

\* rename(2)
RenameWorks(p, q) ==
  /\ Exists(p) /\ IsDir(Dirname(q)) /\ ~Below(p, q)
  /\ (Exists(q) /\ p # q) => tree[p].dir = tree[q].dir /\ Children(q) = {}

Subtree(p) == {r \in DOMAIN tree : IsPrefix(p, r)}
\* The path of r once p is called q.
Rebase(p, q, r) == q \o SubSeq(r, Len(p) + 1, Len(r))
CanRename(p, q) == RenameWorks(p, q) /\ \A r \in Subtree(p) : Rebase(p, q, r) \in Paths
Renamed(p, q) ==
  LET kept == DOMAIN tree \ (Subtree(p) \cup Subtree(q)) IN
  [r \in kept \cup {Rebase(p, q, s) : s \in Subtree(p)} |-> IF r \in kept THEN tree[r] ELSE tree[Rebase(q, p, r)]]

Rename(c) ==
  LET p == act[c].p
      q == act[c].q
      works == CanRename(p, q)
  IN
  /\ act[c].at = "rename"
  /\ tree' = IF works THEN Renamed(p, q) ELSE tree
  /\ IF works /\ act[c].op = "RNTOdir" THEN Put(c, [act[c] EXCEPT !.at = "swap"]) ELSE Done(c)
  /\ IF works THEN Judge(c, Subtree(q) \ Subtree(p)) ELSE UNCHANGED trespass
  /\ moved' = (moved \/ (works /\ \E r \in Subtree(p) : r # p /\ tree[r].dir))
  /\ UNCHANGED <<acts, numActs, mixed, index, sessionVars, mask>>

\* RNTO of a directory: the old entry goes, the new one is added by IndexAdd.
\* Entries of directories below it are left as they are.
IndexSwap(c) ==
  /\ act[c].at = "swap" /\ index' = index \ (Indexed \cap {act[c].p})
  /\ IF act[c].q \in Indexed THEN Put(c, [act[c] EXCEPT !.at = "add"]) ELSE Done(c)
  /\ Quiet /\ UNCHANGED <<tree, sessionVars, mask, trespass>>

\* STOR of a name: CreateFile.
CreateFile(c) ==
  /\ Start(c, "STOR")
  /\ \E p \in Paths \ {Root} :
       /\ FileAllowed("upload", c, p) = "ok" /\ IsDir(Dirname(p)) /\ ~IsDir(p)
       /\ Exists(p) => FileAllowed("overwrite", c, p) = "ok"
       /\ tree' = Make(p, File(c))
  /\ Keep /\ UNCHANGED <<index, sessionVars, act, mask>>

\* MFMT and SITE UTIME of a file.
Utimes(c) ==
  /\ Start(c, "MFMT")
  /\ \E p \in DOMAIN tree : IsFile(p) /\ FileAllowed("modify", c, p) = "ok" /\ tree' = Make(p, [tree[p] EXCEPT !.tag = 1 - tree[p].tag])
  /\ Keep /\ UNCHANGED <<index, sessionVars, act, mask>>

-----------------------------------------------------------------------------
(* SITE WIPE, CHOWN, CHMOD, UPDATE: over what a mask matches, in any order *)

\* The matches of a mask: a path or all names in a directory.
Glob(p, star) == IF star THEN Children(p) ELSE IF Exists(p) THEN {p} ELSE {}
Visits(P) == [i \in 1 .. Cardinality(P) |-> [do |-> "visit", p |-> SetToSeq(P)[i]]]
\* PreFilter asks for the mask itself, and nothing for its matches.
MayGlob(c, p, star) == Allowed("view", c, IF star THEN Append(p, "*") ELSE p) = "ok"

\* The second time the same command is given it is done.
ConfirmCommand(c, cmd) ==
  IF confirm[c] = cmd THEN <<TRUE, [confirm EXCEPT ![c] = Absent]>> ELSE <<FALSE, [confirm EXCEPT ![c] = cmd]>>

WIPE(c) ==
  \E p \in Paths \ {Root}, star \in BOOLEAN, r \in BOOLEAN :
    /\ Start(c, "WIPE")
    /\ LET asked == ConfirmCommand(c, <<"WIPE", p, star>>) IN
       IF r /\ ~asked[1] THEN confirm' = asked[2] /\ UNCHANGED act
       ELSE /\ confirm' = IF r THEN asked[2] ELSE confirm
            /\ IF MayGlob(c, p, star) THEN Put(c, Removal(c, "WIPE", "loop", p, Root, Visits(Glob(p, star)))) ELSE UNCHANGED act
    /\ Keep /\ UNCHANGED <<tree, index, work, from, mask>>

\* A directory is emptied by the same rule, with or without -r, then removed.
WipeRmdir(p) == <<[do |-> "rmdir", p |-> p]>>
WipeOrder(p) == Visits(Glob(p, TRUE)) \o WipeRmdir(p)

\* One entry of the loop of Process.
WipeStep(c) ==
  LET j == act[c]
      e == Head(j.todo)
      rest == [j EXCEPT !.todo = Tail(j.todo)]
      wipe(todo) == [j EXCEPT !.todo = todo \o Tail(j.todo)]
      bad(k) == [k EXCEPT !.failed = 1]
  IN
  /\ j.op = "WIPE" /\ j.todo # <<>>
  /\ \/ /\ e.do = "visit" /\ IsDir(e.p) /\ UNCHANGED <<tree, index, trespass>>
        /\ Put(c, IF MayGlob(c, e.p, TRUE) THEN wipe(WipeOrder(e.p)) ELSE bad(wipe(WipeRmdir(e.p))))
     \/ e.do = "visit" /\ MayDelete(c, e.p) /\ Unlink(c, {e.p}) /\ Put(c, rest) /\ UNCHANGED index
     \/ /\ e.do = "rmdir" /\ MayRemoveDirectory(c, e.p) /\ Unlink(c, Children(e.p) \cup {e.p}) /\ Put(c, rest)
        /\ index' = index \ (Indexed \cap {e.p})
     \/ /\ IF e.do = "visit" THEN ~IsDir(e.p) /\ ~MayDelete(c, e.p) ELSE ~MayRemoveDirectory(c, e.p)
        /\ Put(c, bad(rest)) /\ UNCHANGED <<tree, index, trespass>>
  /\ Quiet /\ UNCHANGED <<sessionVars, mask>>

WipeEnd(c) ==
  /\ act[c].op = "WIPE" /\ act[c].todo = <<>> /\ Done(c)
  /\ Quiet /\ UNCHANGED <<tree, index, sessionVars, mask, trespass>>

\* CHOWN of one match (with -r, once confirmed, of all below it) to client o.
CHOWN(c) ==
  \E p \in DOMAIN tree, o \in Clients, r \in BOOLEAN :
    /\ Start(c, "CHOWN") /\ Allowed("view", c, p) = "ok"
    /\ LET asked == ConfirmCommand(c, <<"CHOWN", p, o>>) IN
       IF r /\ ~asked[1] THEN confirm' = asked[2] /\ UNCHANGED tree
       ELSE /\ confirm' = IF r THEN asked[2] ELSE confirm
            /\ tree' = [q \in DOMAIN tree |-> IF q = p \/ (r /\ Below(p, q)) THEN [tree[q] EXCEPT !.own = o] ELSE tree[q]]
    /\ Keep /\ UNCHANGED <<index, work, from, act, mask>>

\* CHMOD of one match reads the umask by setting it to 0 and leaves it so.
CHMOD(c) ==
  /\ Start(c, "CHMOD")
  /\ \E p \in DOMAIN tree : Allowed("view", c, p) = "ok" /\ mask' = FALSE
  /\ Keep /\ UNCHANGED <<tree, index, sessionVars, act>>

\* A reload of the configuration sets the umask again.
SetUmask == /\ "CHMOD" \in acts /\ ~mask /\ mask' = TRUE
            /\ Keep /\ UNCHANGED <<tree, index, sessionVars, act, numActs, mixed>>

UPDATE(c) ==
  /\ Start(c, "UPDATE")
  /\ \E p \in DOMAIN tree, star \in BOOLEAN :
       /\ MayGlob(c, p, star) /\ index' = index \cup {q \in Glob(p, star) : q \in Indexed /\ IsDir(q)}
  /\ Keep /\ UNCHANGED <<tree, sessionVars, act, mask>>

\* NEW and SEARCH: the results are read, then looked at one by one; an entry
\* whose directory is missing is deleted from the index.
NewBegin(c) ==
  /\ Start(c, "NEW") /\ Put(c, Job("NEW", "loop", Root, Root, Visits(index)))
  /\ Keep /\ UNCHANGED <<tree, index, sessionVars, mask>>

NewStep(c) ==
  LET e == Head(act[c].todo)
      next(t) == Put(c, [act[c] EXCEPT !.todo = t])
  IN
  /\ act[c].op = "NEW"
  /\ \/ act[c].todo = <<>> /\ Done(c) /\ UNCHANGED index
     \/ /\ act[c].todo # <<>> /\ e.do = "visit" /\ UNCHANGED index
        /\ next(IF Exists(e.p) THEN Tail(act[c].todo) ELSE <<[do |-> "prune", p |-> e.p]>> \o Tail(act[c].todo))
     \/ act[c].todo # <<>> /\ e.do = "prune" /\ index' = index \ {e.p} /\ next(Tail(act[c].todo))
  /\ Quiet /\ UNCHANGED <<tree, sessionVars, mask, trespass>>

-----------------------------------------------------------------------------
(* LIST, NLST, STAT: they show the tree and change nothing *)

\* DirEnumerator::Readdir: what the client may see of a directory.
Readdir(c, p) == IF DirAllowed("view", c, p) # "ok" THEN {} ELSE {q \in Children(p) : Allowed("view", c, q) = "ok"}

\* ListPath level by level: at[d] are the directories it opens at depth d.
ListPath(c, p, all, r) ==
  LET at[d \in 1 .. MaxDepth + 1] ==
        IF MaxRecursion # 0 /\ d > MaxRecursion THEN {}
        ELSE IF d = 1 THEN {p}
        ELSE {q \in UNION {Readdir(c, s) : s \in at[d - 1]} : IsDir(q) /\ (all \/ Basename(q) \notin Dotted)}
  IN  {q \in UNION {Readdir(c, s) : s \in UNION {at[d] : d \in 1 .. IF r THEN MaxDepth + 1 ELSE 1}} : all \/ Basename(q) \notin Dotted}

-----------------------------------------------------------------------------
Init ==
  /\ acts \in Acts
  /\ tree = [p \in FirstDirs \cup DOMAIN Stored |-> IF p \in FirstDirs THEN Dir(0) ELSE File(Stored[p])]
  /\ index = Indexed \cap FirstDirs
  /\ work = Home /\ from = [c \in Clients |-> Absent] /\ confirm = [c \in Clients |-> Absent]
  /\ act = [c \in Clients |-> Free]
  /\ mask = TRUE /\ numActs = 0 /\ mixed = FALSE /\ moved = FALSE /\ trespass = FALSE

Next ==
  \/ \E c \in Clients :
       \/ Chdir(c) \/ MKD(c) \/ SetOwner(c) \/ IndexAdd(c) \/ RMD(c) \/ RemoveDirectory(c) \/ IndexDelete(c)
       \/ DELE(c) \/ DeleteFile(c) \/ RNFR(c) \/ RNTO(c) \/ Rename(c) \/ IndexSwap(c) \/ CreateFile(c) \/ Utimes(c)
       \/ WIPE(c) \/ WipeStep(c) \/ WipeEnd(c) \/ CHOWN(c) \/ CHMOD(c) \/ UPDATE(c) \/ NewBegin(c) \/ NewStep(c)
  \/ SetUmask

Spec == Init /\ [][Next]_vars

-----------------------------------------------------------------------------
\* The tree stays a tree whatever commands overlap: what exists has a
\* directory above it, and nothing is below a file (rename(2), rmdir(2) and the
\* order of WIPE).
TypeOK ==
  /\ IsDir(Root) /\ \A p \in DOMAIN tree : p \in Paths /\ IsDir(Dirname(p)) /\ tree[p].own \in Clients \cup {0}
  /\ index \subseteq Indexed /\ \A c \in Clients : work[c] \in Paths

\* However a client changed directory (CWD, an alias, a match, cdpath, CDUP),
\* it is inside its home directory and in no private directory of others.
StaysHome == \A c \in Clients : IsPrefix(Home[c], work[c]) /\ ~PrivatePath(c, work[c]) /\ ~HiddenFile(work[c])

\* Between commands that did not overlap, the index names exactly the indexed
\* directories, through MKD, RMD, RNTO, WIPE, UPDATE and NEW, unless a directory
\* that holds others was renamed.
IndexFollows ==
  (~mixed /\ ~moved /\ \A c \in Clients : act[c] = Free) => index = {p \in Indexed : IsDir(p)}

\* A command that no other overlaps removes nothing, in however many steps, but
\* what it was entitled to remove when it was given: at or below the path that it
\* named, and with the rights that Entitled lists; and DELE takes the credits for
\* the client's own file and no other.
NoTrespass == ~mixed => ~trespass

\* A wipe that reports no failure left nothing of what it was given.
LeaveNothing ==
  (\A c \in Clients : ~mixed /\ act[c].op = "WIPE" /\ act[c].todo = <<>> /\ act[c].failed = 0 /\ act'[c] = Free
       => Children(act[c].p) = {} \/ IsFile(act[c].p))

\* A listing shows what the client may see, down to the limit of the recursion:
\* the recursive walk agrees with the definition by depth.
ListingExact ==
  "LIST" \in acts => \A c \in Clients, p \in Paths, all \in BOOLEAN, r \in BOOLEAN :
    LET max == IF ~r THEN 1 ELSE IF MaxRecursion = 0 THEN MaxDepth ELSE MaxRecursion
        opened(q) == \A n \in Len(p) + 1 .. Len(q) : all \/ q[n] \notin Dotted
    IN  ListPath(c, p, all, r) = {q \in DOMAIN tree :
          /\ Below(p, q) /\ Len(q) - Len(p) <= max /\ opened(q)
          /\ \A n \in Len(p) .. Len(q) - 1 : DirAllowed("view", c, SubSeq(q, 1, n)) = "ok"
          /\ Allowed("view", c, q) = "ok"}

\* The tree stays a tree and the index names its directories.
IndexSound == TypeOK /\ IndexFollows

\* A client is, removes and sees only where, what and how far it may.
WithinRights == StaysHome /\ NoTrespass /\ ListingExact
=============================================================================
