------------------------------ MODULE SiteProofs ------------------------------
(***************************************************************************)
(* Proofs about the components behind the commands, for any number of      *)
(* sessions and any settings.  FileSystem: the tree stays a tree, the      *)
(* index follows it, a client is, removes and sees only where, what and    *)
(* how far it may, and WIPE leaves nothing.  Scripts: what a script        *)
(* refuses is not done.  Acl: lists of any length decide as their rules    *)
(* say.  Mail: nothing unread goes with the trash, and what was saved      *)
(* stays.                                                                  *)
(***************************************************************************)
EXTENDS FileSystem, FiniteSums, SequenceTheorems

CONSTANTS ScriptSessions, KindsOf, Behaviours, MaxLines, MaxCommands,
          Sessions, Users, Groups, FlagSets, Rules, AclPaths, FirstInfo, MaxChanges,
          MailUsers, MailSessions, UserOf, Deleted, MaxMessages, MaxDbErrors

VARIABLES commandOf, child, stage, got, holders, serverHolds, exitStatus, performed, results, replies,
          numCommands,
          info, user, finalResult, asked, decision, changes,
          box, online, reading, target, shown, savedOnce, shared, numSent, dbErrors

Scr == INSTANCE Scripts
Acl == INSTANCE Acl WITH Paths <- AclPaths
Mai == INSTANCE Mail

-----------------------------------------------------------------------------
(* FileSystem: paths *)

\* A path is a sequence of names of bounded length.
LEMMA PathIsSeq ==
  ASSUME FileAssumption, NEW p \in Paths
  PROVE  p \in Seq(Names) /\ Len(p) \in Nat /\ Len(p) <= MaxDepth
PROOF
  <1>1. PICK n \in 0 .. MaxDepth : p \in [1 .. n -> Names]
    BY DEF Paths
  <1>2. n \in Nat /\ n <= MaxDepth
    BY DEF FileAssumption
  <1>3. p \in Seq(Names) /\ Len(p) = n
    BY <1>1, <1>2
  <1> QED BY <1>2, <1>3

\* Every such sequence is a path.
LEMMA SeqIsPath ==
  ASSUME FileAssumption, NEW p \in Seq(Names), Len(p) <= MaxDepth
  PROVE  p \in Paths
PROOF
  <1>1. Len(p) \in 0 .. MaxDepth /\ p \in [1 .. Len(p) -> Names]
    BY DEF FileAssumption
  <1> QED BY <1>1 DEF Paths

\* The root is the only path of length zero.
LEMMA RootIsPath ==
  ASSUME FileAssumption
  PROVE  Root \in Paths /\ Root \in Seq(Names) /\ Len(Root) = 0 /\ \A p \in Seq(Names) : Len(p) = 0 => p = Root
PROOF
  <1>1. Root \in Seq(Names) /\ Len(Root) = 0 /\ \A p \in Seq(Names) : Len(p) = 0 => p = Root
    BY DEF Root
  <1>2. Len(Root) <= MaxDepth
    BY <1>1 DEF FileAssumption
  <1> QED BY <1>1, <1>2, SeqIsPath

\* A prefix, name by name.
LEMMA PrefixAt ==
  ASSUME NEW p \in Seq(Names), NEW r \in Seq(Names)
  PROVE  IsPrefix(p, r) <=> Len(p) <= Len(r) /\ \A i \in 1 .. Len(p) : p[i] = r[i]
PROOF
  <1>1. SubSeq(p, 1, Len(p)) = p
    BY SubSeqFull
  <1>2. ASSUME Len(p) <= Len(r)
        PROVE  /\ SubSeq(r, 1, Len(p)) \in Seq(Names) /\ Len(SubSeq(r, 1, Len(p))) = Len(p)
               /\ \A i \in 1 .. Len(p) : SubSeq(r, 1, Len(p))[i] = r[i]
    BY <1>2
  <1>3. CASE ~(Len(p) <= Len(r))
    BY <1>3 DEF IsPrefix
  <1>4. CASE Len(p) <= Len(r)
    <2>1. SubSeq(r, 1, Len(p)) = p <=> \A i \in 1 .. Len(p) : p[i] = SubSeq(r, 1, Len(p))[i]
      BY <1>2, <1>4, SeqEqual
    <2> QED BY <1>1, <1>2, <1>4, <2>1 DEF IsPrefix
  <1> QED BY <1>3, <1>4

\* No other path is a prefix of the root.
LEMMA NothingAboveRoot ==
  ASSUME NEW p \in Seq(Names), p # Root
  PROVE  ~IsPrefix(p, Root)
PROOF
  <1>1. Len(p) > 0 /\ Len(Root) = 0
    BY DEF Root
  <1> QED BY <1>1 DEF IsPrefix

\* The directory above a path.
LEMMA ParentFacts ==
  ASSUME NEW p \in Seq(Names)
  PROVE  /\ Dirname(p) \in Seq(Names)
         /\ p # Root => /\ Len(Dirname(p)) = Len(p) - 1 /\ Len(p) >= 1
                        /\ \A i \in 1 .. Len(p) - 1 : Dirname(p)[i] = p[i]
PROOF
  <1>1. CASE p = Root
    BY <1>1 DEF Dirname
  <1>2. CASE p # Root
    <2>1. Len(p) \in Nat /\ Len(p) >= 1
      BY <1>2 DEF Root
    <2>2. Dirname(p) = SubSeq(p, 1, Len(p) - 1)
      BY <1>2 DEF Dirname, Front
    <2>3. PICK n \in Nat : n = Len(p) - 1
      BY <2>1
    <2>4. \A i \in 1 .. n : i \in 1 .. Len(p)
      BY <2>1, <2>3
    <2>5. SubSeq(p, 1, n) \in Seq(Names) /\ Len(SubSeq(p, 1, n)) = n /\ \A i \in 1 .. n : SubSeq(p, 1, n)[i] = p[i]
      <3>1. PICK s : s = SubSeq(p, 1, n)
        OBVIOUS
      <3>2. s = [i \in 1 .. n |-> p[i]]
        BY <2>1, <2>3, <3>1
      <3>3. \A i \in 1 .. n : p[i] \in Names
        BY <2>4
      <3>4. s \in [1 .. n -> Names] /\ \A i \in 1 .. n : s[i] = p[i]
        BY <3>2, <3>3
      <3>5. s \in Seq(Names) /\ Len(s) = n
        BY <2>3, <3>4
      <3> QED BY <3>1, <3>4, <3>5
    <2> QED BY <2>1, <2>2, <2>3, <2>5
  <1> QED BY <1>1, <1>2

\* What lies above an entry lies above or at its directory.
LEMMA PrefixOfParent ==
  ASSUME NEW p \in Seq(Names), NEW r \in Seq(Names), r # Root
  PROVE  /\ IsPrefix(p, Dirname(r)) => IsPrefix(p, r) /\ p # r
         /\ IsPrefix(p, r) /\ p # r => IsPrefix(p, Dirname(r))
PROOF
  <1>1. PICK d \in Seq(Names) : d = Dirname(r)
    BY ParentFacts
  <1>2. Len(d) = Len(r) - 1 /\ Len(r) >= 1 /\ \A i \in 1 .. Len(r) - 1 : d[i] = r[i]
    BY <1>1, ParentFacts
  <1>3. Len(p) \in Nat /\ Len(r) \in Nat
    OBVIOUS
  <1>4. ASSUME IsPrefix(p, d) PROVE IsPrefix(p, r) /\ p # r
    <2>1. Len(p) <= Len(d) /\ \A i \in 1 .. Len(p) : p[i] = d[i]
      BY <1>4, PrefixAt
    <2>2. Len(p) < Len(r) /\ \A i \in 1 .. Len(p) : p[i] = r[i]
      BY <1>2, <1>3, <2>1
    <2> QED BY <1>3, <2>2, PrefixAt
  <1>5. ASSUME IsPrefix(p, r), p # r PROVE IsPrefix(p, d)
    <2>1. Len(p) <= Len(r) /\ \A i \in 1 .. Len(p) : p[i] = r[i]
      BY <1>5, PrefixAt
    <2>2. Len(p) # Len(r)
      BY <1>5, <2>1, SeqEqual
    <2>3. Len(p) <= Len(d) /\ \A i \in 1 .. Len(p) : p[i] = d[i]
      BY <1>2, <1>3, <2>1, <2>2
    <2> QED BY <2>3, PrefixAt
  <1> QED BY <1>1, <1>4, <1>5

\* A path r below p, moved with p to q, name by name.
MovedPath(p, q, r, s) ==
  /\ s \in Seq(Names) /\ Len(s) = Len(q) + Len(r) - Len(p) /\ IsPrefix(q, s)
  /\ \A i \in 1 .. Len(q) : s[i] = q[i]
  /\ \A i \in Len(q) + 1 .. Len(q) + Len(r) - Len(p) : s[i] = r[i + Len(p) - Len(q)]

\* Rebasing a path below one entry onto another gives a path below the other.
LEMMA RebaseFacts ==
  ASSUME NEW p \in Seq(Names), NEW q \in Seq(Names), NEW r \in Seq(Names), IsPrefix(p, r)
  PROVE  MovedPath(p, q, r, Rebase(p, q, r))
PROOF
  <1>1. Len(p) <= Len(r) /\ Len(p) \in Nat /\ Len(r) \in Nat /\ Len(q) \in Nat
    BY PrefixAt
  <1>2. PICK t : t = SubSeq(r, Len(p) + 1, Len(r))
    OBVIOUS
  <1>3. /\ t \in Seq(Names) /\ Len(t) = Len(r) - Len(p)
        /\ \A i \in 1 .. Len(r) - Len(p) : t[i] = r[Len(p) + i]
    BY <1>1, <1>2
  <1>4. PICK s : s = q \o t
    OBVIOUS
  <1>5. s \in Seq(Names) /\ Len(s) = Len(q) + Len(t)
    BY <1>3, <1>4, ConcatProperties
  <1>6. \A i \in 1 .. Len(q) : s[i] = q[i]
    BY <1>3, <1>4
  <1>7. ASSUME NEW i \in Len(q) + 1 .. Len(q) + Len(r) - Len(p)
        PROVE  s[i] = r[i + Len(p) - Len(q)]
    <2>1. i \in Int /\ i - Len(q) \in 1 .. Len(t) /\ i > Len(q) /\ i <= Len(q) + Len(t)
      BY <1>1, <1>3
    <2>2. s[i] = t[i - Len(q)]
      BY <1>1, <1>3, <1>4, <2>1
    <2>3. t[i - Len(q)] = r[Len(p) + (i - Len(q))]
      BY <1>3, <2>1
    <2>4. Len(p) + (i - Len(q)) = i + Len(p) - Len(q)
      BY <1>1, <2>1
    <2> QED BY <2>2, <2>3, <2>4
  <1>8. s = Rebase(p, q, r)
    BY <1>2, <1>4 DEF Rebase
  <1>9. Len(q) <= Len(s)
    BY <1>1, <1>3, <1>5
  <1>10. IsPrefix(q, s)
    BY <1>5, <1>6, <1>9, PrefixAt
  <1>11. Len(s) = Len(q) + Len(r) - Len(p)
    BY <1>1, <1>3, <1>5
  <1>12. MovedPath(p, q, r, s)
    BY <1>5, <1>6, <1>7, <1>10, <1>11 DEF MovedPath
  <1> QED BY <1>8, <1>12

\* Moving back undoes the move; the directory above moves along.
LEMMA RebaseBack ==
  ASSUME NEW p \in Seq(Names), NEW q \in Seq(Names), NEW r \in Seq(Names), IsPrefix(p, r)
  PROVE  Rebase(q, p, Rebase(p, q, r)) = r
PROOF
  <1>1. Len(p) <= Len(r) /\ Len(p) \in Nat /\ Len(r) \in Nat /\ Len(q) \in Nat /\ \A i \in 1 .. Len(p) : p[i] = r[i]
    BY PrefixAt
  <1>2. PICK s : s = Rebase(p, q, r)
    OBVIOUS
  <1>3. /\ s \in Seq(Names) /\ Len(s) = Len(q) + Len(r) - Len(p) /\ IsPrefix(q, s)
        /\ \A i \in Len(q) + 1 .. Len(q) + Len(r) - Len(p) : s[i] = r[i + Len(p) - Len(q)]
    <2>1. MovedPath(p, q, r, s)
      BY <1>2, RebaseFacts
    <2> QED BY <2>1 DEF MovedPath
  <1>4. PICK t : t = Rebase(q, p, s)
    OBVIOUS
  <1>5. /\ t \in Seq(Names) /\ Len(t) = Len(p) + Len(s) - Len(q)
        /\ \A i \in 1 .. Len(p) : t[i] = p[i]
        /\ \A i \in Len(p) + 1 .. Len(p) + Len(s) - Len(q) : t[i] = s[i + Len(q) - Len(p)]
    <2>1. MovedPath(q, p, s, t)
      BY <1>3, <1>4, RebaseFacts
    <2> QED BY <2>1 DEF MovedPath
  <1>6. Len(t) = Len(r)
    BY <1>1, <1>3, <1>5
  <1>7. ASSUME NEW i \in 1 .. Len(r) PROVE t[i] = r[i]
    <2>1. CASE i <= Len(p)
      BY <1>1, <1>5, <2>1
    <2>2. CASE i > Len(p)
      <3>1. i \in Len(p) + 1 .. Len(p) + Len(s) - Len(q)
        BY <1>1, <1>3, <2>2
      <3>2. PICK k \in Int : k = i + Len(q) - Len(p)
        BY <1>1, SMTT(30)
      <3>3. k \in Len(q) + 1 .. Len(q) + Len(r) - Len(p) /\ k + Len(p) - Len(q) = i
        BY <1>1, <2>2, <3>2
      <3> QED BY <1>3, <1>5, <3>1, <3>2, <3>3
    <2> QED BY <1>1, <2>1, <2>2
  <1>8. t = r
    BY <1>5, <1>6, <1>7, SeqEqual
  <1> QED BY <1>2, <1>4, <1>8

\* The entry itself becomes the other.
LEMMA RebaseSelf ==
  ASSUME NEW p \in Seq(Names), NEW q \in Seq(Names)
  PROVE  Rebase(p, q, p) = q /\ IsPrefix(p, p)
PROOF
  <1>1. IsPrefix(p, p) /\ Len(p) \in Nat /\ Len(q) \in Nat
    BY PrefixAt
  <1>2. PICK s : s = Rebase(p, q, p)
    OBVIOUS
  <1>3. s \in Seq(Names) /\ Len(s) = Len(q) + Len(p) - Len(p) /\ \A i \in 1 .. Len(q) : s[i] = q[i]
    <2>1. MovedPath(p, q, p, s)
      BY <1>1, <1>2, RebaseFacts
    <2> QED BY <2>1 DEF MovedPath
  <1>4. Len(s) = Len(q)
    BY <1>1, <1>3
  <1>5. s = q
    BY <1>3, <1>4, SeqEqual
  <1> QED BY <1>1, <1>2, <1>5

\* The directory of what is rebased is what its directory becomes.
LEMMA RebaseParent ==
  ASSUME NEW p \in Seq(Names), NEW q \in Seq(Names), NEW r \in Seq(Names), IsPrefix(p, r), p # r, r # Root
  PROVE  /\ Rebase(p, q, r) # Root /\ Rebase(p, q, r) # q
         /\ Dirname(Rebase(p, q, r)) = Rebase(p, q, Dirname(r)) /\ IsPrefix(p, Dirname(r))
PROOF
  <1>1. Len(p) <= Len(r) /\ Len(p) \in Nat /\ Len(r) \in Nat /\ Len(q) \in Nat /\ \A i \in 1 .. Len(p) : p[i] = r[i]
    BY PrefixAt
  <1>2. Len(p) < Len(r)
    BY <1>1, SeqEqual
  <1>3. PICK d \in Seq(Names) : d = Dirname(r)
    BY ParentFacts
  <1>4. Len(d) = Len(r) - 1 /\ IsPrefix(p, d) /\ \A i \in 1 .. Len(r) - 1 : d[i] = r[i]
    BY <1>3, ParentFacts, PrefixOfParent
  <1>5. PICK s : s = Rebase(p, q, r)
    OBVIOUS
  <1>6. /\ s \in Seq(Names) /\ Len(s) = Len(q) + Len(r) - Len(p)
        /\ \A i \in 1 .. Len(q) : s[i] = q[i]
        /\ \A i \in Len(q) + 1 .. Len(q) + Len(r) - Len(p) : s[i] = r[i + Len(p) - Len(q)]
    <2>1. MovedPath(p, q, r, s)
      BY <1>5, RebaseFacts
    <2> QED BY <2>1 DEF MovedPath
  <1>7. Len(s) > Len(q) /\ Len(s) >= 1
    BY <1>1, <1>2, <1>6
  <1>8. s # q /\ s # Root
    BY <1>1, <1>7 DEF Root
  <1>9. PICK t : t = Rebase(p, q, d)
    OBVIOUS
  <1>10. /\ t \in Seq(Names) /\ Len(t) = Len(q) + Len(d) - Len(p)
         /\ \A i \in 1 .. Len(q) : t[i] = q[i]
         /\ \A i \in Len(q) + 1 .. Len(q) + Len(d) - Len(p) : t[i] = d[i + Len(p) - Len(q)]
    <2>1. MovedPath(p, q, d, t)
      BY <1>4, <1>9, RebaseFacts
    <2> QED BY <2>1 DEF MovedPath
  <1>11. PICK e \in Seq(Names) : e = Dirname(s)
    BY <1>6, ParentFacts
  <1>12. Len(e) = Len(s) - 1 /\ \A i \in 1 .. Len(s) - 1 : e[i] = s[i]
    BY <1>6, <1>8, <1>11, ParentFacts
  <1>13. Len(e) = Len(t)
    BY <1>1, <1>4, <1>6, <1>10, <1>12
  <1>14. ASSUME NEW i \in 1 .. Len(e) PROVE e[i] = t[i]
    <2>0. e[i] = s[i]
      BY <1>12
    <2>1. CASE i <= Len(q)
      BY <1>1, <1>6, <1>10, <2>0, <2>1
    <2>2. CASE i > Len(q)
      <3>1. i \in Len(q) + 1 .. Len(q) + Len(r) - Len(p) /\ i \in Len(q) + 1 .. Len(q) + Len(d) - Len(p)
        BY <1>1, <1>4, <1>6, <1>12, <2>2
      <3>2. i + Len(p) - Len(q) \in 1 .. Len(r) - 1
        BY <1>1, <1>4, <3>1
      <3> QED BY <1>4, <1>6, <1>10, <2>0, <3>1, <3>2
    <2> QED BY <1>1, <2>1, <2>2
  <1>15. e = t
    BY <1>10, <1>11, <1>13, <1>14, SeqEqual
  <1> QED BY <1>3, <1>4, <1>5, <1>8, <1>9, <1>11, <1>15

-----------------------------------------------------------------------------
(* FileSystem: the tree: what exists has a directory above it, through every change *)

Nodes == [dir : BOOLEAN, own : Clients \cup {0}, tag : {0, 1}]
TreeTyped(t) ==
  t \in [DOMAIN t -> Nodes] /\ DOMAIN t \subseteq Paths /\ Root \in DOMAIN t /\ IsFiniteSet(DOMAIN t)
TreeClosed(t) == \A p \in DOMAIN t : Dirname(p) \in DOMAIN t /\ t[Dirname(p)].dir
TreeOK(t) == TreeTyped(t) /\ TreeClosed(t)

\* An entry of the tree lies in a directory of the tree.
LEMMA InTree ==
  ASSUME FileAssumption, NEW t, TreeOK(t), NEW p \in DOMAIN t
  PROVE  p \in Paths /\ p \in Seq(Names) /\ t[p] \in Nodes /\ Dirname(p) \in DOMAIN t /\ t[Dirname(p)].dir
PROOF
  <1>1. p \in Paths /\ t[p] \in Nodes
    BY DEF TreeOK, TreeTyped
  <1> QED BY <1>1, PathIsSeq DEF TreeOK, TreeClosed

\* A node is made, or made anew with the children it may have.
LEMMA MadeTree ==
  ASSUME FileAssumption, NEW t, TreeOK(t), NEW p \in Paths, Dirname(p) \in DOMAIN t, t[Dirname(p)].dir,
         NEW n \in Nodes, p \in DOMAIN t /\ t[p].dir => n.dir,
         NEW u, u = [q \in DOMAIN t \cup {p} |-> IF q = p THEN n ELSE t[q]]
  PROVE  TreeOK(u)
PROOF
  <1>1. DOMAIN u = DOMAIN t \cup {p} /\ u \in [DOMAIN u -> Nodes]
    BY DEF TreeOK, TreeTyped
  <1>2. DOMAIN u \subseteq Paths /\ Root \in DOMAIN u
    BY <1>1 DEF TreeOK, TreeTyped
  <1>3. IsFiniteSet(DOMAIN u)
    BY <1>1, FS_AddElement DEF TreeOK, TreeTyped
  <1>4. ASSUME NEW q \in DOMAIN u PROVE Dirname(q) \in DOMAIN u /\ u[Dirname(q)].dir
    <2>1. Dirname(q) \in DOMAIN t /\ t[Dirname(q)].dir
      BY <1>1, <1>4 DEF TreeOK, TreeClosed
    <2>2. CASE Dirname(q) = p
      BY <1>1, <2>1, <2>2
    <2>3. CASE Dirname(q) # p
      BY <1>1, <2>1, <2>3
    <2> QED BY <2>2, <2>3
  <1> QED BY <1>1, <1>2, <1>3, <1>4 DEF TreeOK, TreeTyped, TreeClosed

\* Nodes go whose children are none, or go as well.
LEMMA UnlinkedTree ==
  ASSUME FileAssumption, NEW t, TreeOK(t), NEW P, Root \notin P,
         \A q \in DOMAIN t \ P : q # Root => Dirname(q) \notin P,
         NEW u, u = [q \in DOMAIN t \ P |-> t[q]]
  PROVE  TreeOK(u)
PROOF
  <1>1. DOMAIN u = DOMAIN t \ P /\ u \in [DOMAIN u -> Nodes]
    BY DEF TreeOK, TreeTyped
  <1>2. DOMAIN u \subseteq Paths /\ Root \in DOMAIN u
    BY <1>1 DEF TreeOK, TreeTyped
  <1>3. IsFiniteSet(DOMAIN u)
    BY <1>1, FS_Subset DEF TreeOK, TreeTyped
  <1>4. ASSUME NEW q \in DOMAIN u PROVE Dirname(q) \in DOMAIN u /\ u[Dirname(q)].dir
    <2>1. Dirname(q) \in DOMAIN t /\ t[Dirname(q)].dir
      BY <1>1, <1>4 DEF TreeOK, TreeClosed
    <2>2. Dirname(q) \notin P
      <3>1. CASE q = Root
        BY <3>1 DEF Dirname
      <3>2. CASE q # Root
        BY <1>1, <1>4, <3>2
      <3> QED BY <3>1, <3>2
    <2> QED BY <1>1, <2>1, <2>2
  <1> QED BY <1>1, <1>2, <1>3, <1>4 DEF TreeOK, TreeTyped, TreeClosed

\* The same nodes of the same kinds.
LEMMA OwnedTree ==
  ASSUME FileAssumption, NEW t, TreeOK(t), NEW u, u \in [DOMAIN t -> Nodes], \A q \in DOMAIN t : u[q].dir = t[q].dir
  PROVE  TreeOK(u)
PROOF
  <1>1. DOMAIN u = DOMAIN t
    OBVIOUS
  <1>2. TreeTyped(u)
    BY <1>1 DEF TreeOK, TreeTyped
  <1>3. TreeClosed(u)
    BY <1>1 DEF TreeOK, TreeClosed
  <1> QED BY <1>2, <1>3 DEF TreeOK

\* rename(2) of p to q: the nodes below p move with it, what was at q goes.
Stay(t, p, q) == {r \in DOMAIN t : ~IsPrefix(p, r) /\ ~IsPrefix(q, r)}
Go(t, p) == {r \in DOMAIN t : IsPrefix(p, r)}
Arrive(t, p, q) == {Rebase(p, q, s) : s \in Go(t, p)}
MovedTree(t, p, q, u) ==
  u = [r \in Stay(t, p, q) \cup Arrive(t, p, q) |->
         IF r \in Stay(t, p, q) THEN t[r] ELSE t[Rebase(q, p, r)]]

\* What is where after a rename.
WhereMoved(t, p, q, u) ==
  /\ DOMAIN u = Stay(t, p, q) \cup Arrive(t, p, q)
  /\ \A r \in Stay(t, p, q) : u[r] = t[r]
  /\ \A s \in Go(t, p) : u[Rebase(p, q, s)] = t[s] /\ Rebase(p, q, s) \notin Stay(t, p, q)

\* Where each entry of the renamed tree was before.
LEMMA MovedAt ==
  ASSUME FileAssumption, NEW t, TreeOK(t), NEW p \in Paths, NEW q \in Paths, NEW u, MovedTree(t, p, q, u)
  PROVE  WhereMoved(t, p, q, u)
PROOF
  <1>1. DOMAIN u = Stay(t, p, q) \cup Arrive(t, p, q)
    BY DEF MovedTree
  <1>2. \A r \in DOMAIN u : u[r] = IF r \in Stay(t, p, q) THEN t[r] ELSE t[Rebase(q, p, r)]
    BY DEF MovedTree
  <1>3. p \in Seq(Names) /\ q \in Seq(Names)
    BY PathIsSeq
  <1>4. ASSUME NEW s \in Go(t, p)
        PROVE  u[Rebase(p, q, s)] = t[s] /\ Rebase(p, q, s) \notin Stay(t, p, q)
    <2>1. s \in Seq(Names) /\ IsPrefix(p, s)
      BY InTree DEF Go
    <2>2. PICK r : r = Rebase(p, q, s)
      OBVIOUS
    <2>3. IsPrefix(q, r) /\ Rebase(q, p, r) = s
      <3>1. MovedPath(p, q, s, r)
        BY <1>3, <2>1, <2>2, RebaseFacts
      <3>2. IsPrefix(q, r)
        BY <3>1 DEF MovedPath
      <3> QED BY <1>3, <2>1, <2>2, <3>2, RebaseBack
    <2>4. r \notin Stay(t, p, q)
      BY <2>3 DEF Stay
    <2>5. r \in DOMAIN u
      BY <1>1, <2>2 DEF Arrive
    <2> QED BY <1>2, <2>2, <2>3, <2>4, <2>5
  <1>5. ASSUME NEW r \in Stay(t, p, q) PROVE u[r] = t[r]
    BY <1>1, <1>2, <1>5
  <1> QED BY <1>1, <1>4, <1>5 DEF WhereMoved

\* A rename leaves a tree, whose entries lie in directories.
LEMMA RenamedTree ==
  ASSUME FileAssumption, NEW t, TreeOK(t), NEW p \in Paths, NEW q \in Paths, p # Root, q # Root,
         p \in DOMAIN t, Dirname(q) \in DOMAIN t, t[Dirname(q)].dir, ~(IsPrefix(p, q) /\ p # q),
         \A s \in Go(t, p) : Rebase(p, q, s) \in Paths,
         NEW u, MovedTree(t, p, q, u)
  PROVE  TreeOK(u)
PROOF
  <1>0. WhereMoved(t, p, q, u)
    BY MovedAt
  <1>1. DOMAIN u = Stay(t, p, q) \cup Arrive(t, p, q)
    BY <1>0 DEF WhereMoved
  <1>2. \A r \in Stay(t, p, q) : u[r] = t[r]
    BY <1>0 DEF WhereMoved
  <1>3. \A s \in Go(t, p) : u[Rebase(p, q, s)] = t[s]
    BY <1>0 DEF WhereMoved
  <1>4. p \in Seq(Names) /\ q \in Seq(Names) /\ Root \in Seq(Names)
    BY PathIsSeq, RootIsPath
  <1>5. Stay(t, p, q) \subseteq DOMAIN t /\ Go(t, p) \subseteq DOMAIN t
    BY DEF Stay, Go
  <1>6. \A r \in DOMAIN u : u[r] \in Nodes
    BY <1>1, <1>2, <1>3, <1>5 DEF TreeOK, TreeTyped, Arrive
  <1>7. u \in [DOMAIN u -> Nodes]
    BY <1>6 DEF MovedTree
  <1>8. DOMAIN u \subseteq Paths
    BY <1>1, <1>5 DEF TreeOK, TreeTyped, Arrive
  <1>9. Root \in DOMAIN u
    <2>1. ~IsPrefix(p, Root) /\ ~IsPrefix(q, Root)
      BY <1>4, NothingAboveRoot
    <2> QED BY <1>1, <2>1 DEF TreeOK, TreeTyped, Stay
  <1>10. IsFiniteSet(DOMAIN u)
    <2>1. IsFiniteSet(DOMAIN t)
      BY DEF TreeOK, TreeTyped
    <2>2. IsFiniteSet(Stay(t, p, q)) /\ IsFiniteSet(Go(t, p))
      BY <1>5, <2>1, FS_Subset
    <2>3. IsFiniteSet(Arrive(t, p, q))
      <3>1. PICK f : f = [s \in Go(t, p) |-> Rebase(p, q, s)]
        OBVIOUS
      <3>2. f \in Surjection(Go(t, p), Arrive(t, p, q))
        BY <3>1 DEF Surjection, Arrive
      <3> QED BY <2>2, <3>2, FS_Surjection
    <2> QED BY <1>1, <2>2, <2>3, FS_Union
  <1>11. ASSUME NEW r \in Stay(t, p, q) PROVE Dirname(r) \in DOMAIN u /\ u[Dirname(r)].dir
    <2>1. r \in DOMAIN t /\ r \in Seq(Names) /\ Dirname(r) \in DOMAIN t /\ t[Dirname(r)].dir
      BY <1>5, InTree
    <2>2. ~IsPrefix(p, r) /\ ~IsPrefix(q, r)
      BY DEF Stay
    <2>3. Dirname(r) \in Stay(t, p, q)
      <3>1. CASE r = Root
        BY <3>1 DEF Dirname
      <3>2. CASE r # Root
        BY <1>4, <2>1, <2>2, <3>2, PrefixOfParent DEF Stay
      <3> QED BY <3>1, <3>2
    <2> QED BY <1>1, <1>2, <2>1, <2>3
  <1>12. ASSUME NEW s \in Go(t, p)
         PROVE  Dirname(Rebase(p, q, s)) \in DOMAIN u /\ u[Dirname(Rebase(p, q, s))].dir
    <2>1. s \in DOMAIN t /\ s \in Seq(Names) /\ IsPrefix(p, s) /\ Dirname(s) \in DOMAIN t /\ t[Dirname(s)].dir
      BY InTree DEF Go
    <2>2. CASE s = p
      <3>1. Rebase(p, q, s) = q
        BY <1>4, <2>2, RebaseSelf
      <3>2. ~IsPrefix(p, Dirname(q)) /\ ~IsPrefix(q, Dirname(q))
        <4>1. IsPrefix(p, Dirname(q)) => IsPrefix(p, q) /\ p # q
          BY <1>4, PrefixOfParent
        <4>2. IsPrefix(q, Dirname(q)) => q # q
          BY <1>4, PrefixOfParent
        <4> QED BY <4>1, <4>2
      <3>3. Dirname(q) \in Stay(t, p, q)
        BY <3>2 DEF Stay
      <3> QED BY <1>1, <1>2, <3>1, <3>3
    <2>3. CASE s # p
      <3>1. s # Root
        BY <1>4, <2>1, NothingAboveRoot
      <3>2. Dirname(Rebase(p, q, s)) = Rebase(p, q, Dirname(s)) /\ IsPrefix(p, Dirname(s))
        BY <1>4, <2>1, <2>3, <3>1, RebaseParent
      <3>3. Dirname(s) \in Go(t, p)
        BY <2>1, <3>2 DEF Go
      <3> QED BY <1>1, <1>3, <2>1, <3>2, <3>3 DEF Arrive
    <2> QED BY <2>2, <2>3
  <1>13. TreeClosed(u)
    BY <1>1, <1>11, <1>12 DEF TreeClosed, Arrive
  <1> QED BY <1>7, <1>8, <1>9, <1>10, <1>13 DEF TreeOK, TreeTyped

-----------------------------------------------------------------------------
(* FileSystem: changing directory *)

\* A directory that the client may be in.
MayBeIn(c, p) == IsPrefix(Home[c], p) /\ ~PrivatePath(c, p) /\ ~HiddenFile(p)
Sound(c, R) == \A r \in R : r[1] = "ok" => ChangeDirectory(c, r[2]) = "ok"

\* A directory that ChangeDirectory accepts is one the client may be in.
LEMMA MayEnter ==
  ASSUME NEW c \in Clients, NEW p, ChangeDirectory(c, p) = "ok"
  PROVE  MayBeIn(c, p) /\ p \in DOMAIN tree /\ tree[p].dir
PROOF
  <1>1. DirAllowed("view", c, p) = "ok" /\ Exists(p) /\ IsDir(p)
    BY DEF ChangeDirectory
  <1>2. InsideHomeDir(c, p, TRUE) /\ ~PrivatePath(c, p) /\ Traits("view", c, p) = "ok"
    BY <1>1 DEF DirAllowed, InnerAllowed
  <1>3. ~HiddenFile(p)
    BY <1>2 DEF Traits
  <1>4. IsPrefix(Home[c], p)
    BY <1>2 DEF InsideHomeDir
  <1> QED BY <1>1, <1>2, <1>3, <1>4 DEF MayBeIn, IsDir, Exists

\* One way after the other, while the error is ENOENT.
LEMMA SoundThen ==
  ASSUME NEW c \in Clients, NEW R, NEW S, Sound(c, R), Sound(c, S)
  PROVE  Sound(c, UNION {IF r[1] = "ENOENT" THEN S ELSE {r} : r \in R})
PROOF
  <1>1. ASSUME NEW s \in UNION {IF r[1] = "ENOENT" THEN S ELSE {r} : r \in R} PROVE s \in R \/ s \in S
    BY <1>1
  <1> QED BY <1>1 DEF Sound

\* One attempt is sound if it succeeds only where ChangeDirectory does.
LEMMA SoundOne ==
  ASSUME NEW c \in Clients, NEW e, NEW p, e = "ok" => ChangeDirectory(c, p) = "ok"
  PROVE  Sound(c, {<<e, p>>})
PROOF
  BY DEF Sound

\* So is none.
LEMMA SoundNone ==
  ASSUME NEW c \in Clients
  PROVE  Sound(c, {<<"ENOENT", Root>>})
PROOF
  BY DEF Sound

\* So is the attempt by alias.
LEMMA SoundAlias ==
  ASSUME NEW c \in Clients, NEW n
  PROVE  Sound(c, ChangeAlias(c, n))
PROOF
  BY DEF Sound, ChangeAlias

\* So is that by the closest match.
LEMMA SoundMatch ==
  ASSUME NEW c \in Clients, NEW p
  PROVE  Sound(c, ChangeMatch(c, p))
PROOF
  <1>1. CASE DirAllowed("view", c, p) # "ok"
    <2>1. ChangeMatch(c, p) = {<<DirAllowed("view", c, p), Root>>}
      BY <1>1 DEF ChangeMatch
    <2> QED BY <1>1, <2>1, SoundOne
  <1>2. CASE DirAllowed("view", c, p) = "ok"
    <2>1. ChangeMatch(c, p) = {<<"ENOENT", Root>>} \/ \E F : ChangeMatch(c, p) = {<<ChangeDirectory(c, q), q>> : q \in F}
      BY <1>2 DEF ChangeMatch
    <2>2. CASE ChangeMatch(c, p) = {<<"ENOENT", Root>>}
      BY <2>2, SoundNone
    <2>3. ASSUME NEW F, ChangeMatch(c, p) = {<<ChangeDirectory(c, q), q>> : q \in F} PROVE Sound(c, ChangeMatch(c, p))
      BY <2>3 DEF Sound
    <2> QED BY <2>1, <2>2, <2>3
  <1> QED BY <1>1, <1>2

\* So is that by the cdpath.
LEMMA SoundCdpath ==
  ASSUME NEW c \in Clients, NEW n
  PROVE  Sound(c, ChangeCdpath(c, n))
PROOF
  <1>1. ChangeCdpath(c, n) = {<<"ENOENT", Root>>} \/ \E i : ChangeCdpath(c, n) = ChangeMatch(c, Append(Cdpath[i], n))
    BY DEF ChangeCdpath
  <1> QED BY <1>1, SoundNone, SoundMatch

\* CWD ends, whatever it tried, in a directory that the client may be in.
LEMMA SoundCWD ==
  ASSUME NEW c \in Clients, NEW n, NEW p
  PROVE  Sound(c, CWD(c, n, p))
PROOF
  <1>1. PICK one : one = {<<ChangeDirectory(c, p), p>>}
    OBVIOUS
  <1>2. PICK alias : alias = IF n = Absent THEN {<<"ENOENT", Root>>} ELSE ChangeAlias(c, n)
    OBVIOUS
  <1>3. PICK match : match = IF p = Root THEN {<<"ENOENT", Root>>} ELSE ChangeMatch(c, p)
    OBVIOUS
  <1>4. PICK cdpath : cdpath = IF n = Absent THEN {<<"ENOENT", Root>>} ELSE ChangeCdpath(c, n)
    OBVIOUS
  <1>5. Sound(c, one) /\ Sound(c, alias) /\ Sound(c, match) /\ Sound(c, cdpath)
    BY <1>1, <1>2, <1>3, <1>4, SoundOne, SoundNone, SoundAlias, SoundMatch, SoundCdpath
  <1>6. PICK a : a = UNION {IF r[1] = "ENOENT" THEN alias ELSE {r} : r \in one}
    OBVIOUS
  <1>7. Sound(c, a)
    BY <1>5, <1>6, SoundThen
  <1>8. PICK b : b = UNION {IF r[1] = "ENOENT" THEN match ELSE {r} : r \in a}
    OBVIOUS
  <1>9. Sound(c, b)
    BY <1>5, <1>7, <1>8, SoundThen
  <1>10. PICK d : d = UNION {IF r[1] = "ENOENT" THEN cdpath ELSE {r} : r \in b}
    OBVIOUS
  <1>11. Sound(c, d)
    BY <1>5, <1>9, <1>10, SoundThen
  <1>12. CWD(c, n, p) = d
    BY <1>1, <1>2, <1>3, <1>4, <1>6, <1>8, <1>10 DEF CWD
  <1> QED BY <1>11, <1>12

\* Wherever a client goes, it may be there and it is a directory.
LEMMA ChdirEnters ==
  ASSUME NEW c \in Clients, Chdir(c)
  PROVE  \E p : ChangeDirectory(c, p) = "ok" /\ work' = [work EXCEPT ![c] = p]
PROOF
  <1>1. CASE \E n \in Names \cup DOMAIN Aliases :
               \E s \in CWD(c, n, Append(work[c], n)) : s[1] = "ok" /\ work' = [work EXCEPT ![c] = s[2]]
    <2>1. PICK n \in Names \cup DOMAIN Aliases :
                 \E s \in CWD(c, n, Append(work[c], n)) : s[1] = "ok" /\ work' = [work EXCEPT ![c] = s[2]]
      BY <1>1
    <2>2. PICK s \in CWD(c, n, Append(work[c], n)) : s[1] = "ok" /\ work' = [work EXCEPT ![c] = s[2]]
      BY <2>1
    <2>3. Sound(c, CWD(c, n, Append(work[c], n)))
      BY SoundCWD
    <2> QED BY <2>2, <2>3 DEF Sound
  <1>2. CASE \E p \in Paths : \E s \in CWD(c, Absent, p) : s[1] = "ok" /\ work' = [work EXCEPT ![c] = s[2]]
    <2>1. PICK p \in Paths : \E s \in CWD(c, Absent, p) : s[1] = "ok" /\ work' = [work EXCEPT ![c] = s[2]]
      BY <1>2
    <2>2. PICK s \in CWD(c, Absent, p) : s[1] = "ok" /\ work' = [work EXCEPT ![c] = s[2]]
      BY <2>1
    <2>3. Sound(c, CWD(c, Absent, p))
      BY SoundCWD
    <2> QED BY <2>2, <2>3 DEF Sound
  <1>3. CASE ChangeDirectory(c, Dirname(work[c])) = "ok" /\ work' = [work EXCEPT ![c] = Dirname(work[c])]
    BY <1>3
  <1> QED BY <1>1, <1>2, <1>3 DEF Chdir

-----------------------------------------------------------------------------
(* FileSystem: the invariant of the tree and of the commands under way *)

Entries == [do : {"visit", "rmdir", "prune"}, p : Paths]
JobShape(j) ==
  /\ j = [op |-> j.op, at |-> j.at, p |-> j.p, q |-> j.q, todo |-> j.todo, failed |-> j.failed,
          own |-> j.own, may |-> j.may]
  /\ j.p \in Paths /\ j.q \in Paths /\ j.todo \in Seq(Entries)
NoRoot(todo) == \A i \in DOMAIN todo : todo[i].p # Root
JobStage(j) ==
  \/ j.op = "" /\ j.at = ""
  \/ j.op = "MKD" /\ j.at \in {"own", "add"} /\ j.p # Root
  \/ j.op = "RMD" /\ j.at \in {"rmdir", "del"} /\ j.p # Root
  \/ j.op = "DELE" /\ j.at = "unlink" /\ j.p # Root
  \/ j.op \in {"RNTO", "RNTOdir"} /\ j.at \in {"rename", "swap", "add"} /\ j.p # Root /\ j.q # Root
  \/ j.op = "WIPE" /\ j.at = "loop" /\ NoRoot(j.todo)
  \/ j.op = "NEW" /\ j.at = "loop"
JobInv(j) == JobShape(j) /\ JobStage(j) /\ (j.at = "add" => j.q \in Indexed)
JobTypes == act = [c \in Clients |-> act[c]] /\ \A c \in Clients : JobInv(act[c])
SessionTypes ==
  /\ work \in [Clients -> Paths] /\ from \in [Clients -> (Paths \ {Root}) \cup {Absent}]
  /\ \A c \in Clients : MayBeIn(c, work[c])
IndexTypes == index \subseteq Indexed /\ IsFiniteSet(index)
FileInv == TreeOK(tree) /\ JobTypes /\ SessionTypes /\ IndexTypes

\* No command is a job with its types.
LEMMA FreeJob ==
  ASSUME FileAssumption
  PROVE  JobInv(Free)
PROOF
  BY RootIsPath DEF JobInv, JobShape, JobStage, Free, Job

\* The jobs that commands begin with.
LEMMA NewJob ==
  ASSUME FileAssumption, NEW op, NEW at, NEW p \in Paths, NEW q \in Paths, NEW todo \in Seq(Entries),
         JobStage(Job(op, at, p, q, todo)), at = "add" => q \in Indexed
  PROVE  JobInv(Job(op, at, p, q, todo))
PROOF
  BY DEF JobInv, JobShape, Job

\* The fields of a command that removes.
LEMMA RemovalFields ==
  ASSUME NEW c, NEW op, NEW at, NEW p, NEW q, NEW todo
  PROVE  Removal(c, op, at, p, q, todo) =
           [op |-> op, at |-> at, p |-> p, q |-> q, todo |-> todo, failed |-> 0,
            own |-> (Owner(p) = c), may |-> Entitled(c, op, IF at = "rename" THEN q ELSE p)]
PROOF
  BY Zenon DEF Removal

\* It has its types.
LEMMA NewRemoval ==
  ASSUME FileAssumption, NEW c, NEW op, NEW at, NEW p \in Paths, NEW q \in Paths, NEW todo \in Seq(Entries),
         JobStage(Job(op, at, p, q, todo)), at # "add"
  PROVE  JobInv(Removal(c, op, at, p, q, todo))
PROOF
  <1>1. PICK own, may : Removal(c, op, at, p, q, todo) =
           [op |-> op, at |-> at, p |-> p, q |-> q, todo |-> todo, failed |-> 0, own |-> own, may |-> may]
    BY RemovalFields
  <1>2. JobStage(Removal(c, op, at, p, q, todo))
    <2> DEFINE r == Removal(c, op, at, p, q, todo)
               k == Job(op, at, p, q, todo)
    <2>1. r.op = op /\ r.at = at /\ r.p = p /\ r.q = q /\ r.todo = todo
      BY <1>1
    <2>2. k.op = op /\ k.at = at /\ k.p = p /\ k.q = q /\ k.todo = todo
      BY DEF Job
    <2>3. JobStage(k)
      OBVIOUS
    <2> HIDE DEF r, k
    <2>4. JobStage(r)
      BY <2>1, <2>2, <2>3 DEF JobStage
    <2> QED BY <2>4 DEF r
  <1> QED BY <1>1, <1>2 DEF JobInv, JobShape

\* A client that is given a job leaves the types of all.
LEMMA PutJob ==
  ASSUME JobTypes, NEW c \in Clients, NEW j, JobInv(j), Put(c, j)
  PROVE  JobTypes'
PROOF
  <1>1. act' = [act EXCEPT ![c] = j]
    BY DEF Put
  <1>2. \A d \in Clients : act'[d] = IF d = c THEN j ELSE act[d]
    BY <1>1 DEF JobTypes
  <1> QED BY <1>1, <1>2 DEF JobTypes

\* The loop over a set of paths visits only paths of the set.
LEMMA VisitsTyped ==
  ASSUME NEW P, P \subseteq Paths, IsFiniteSet(P)
  PROVE  /\ Visits(P) \in Seq(Entries)
         /\ \A i \in DOMAIN Visits(P) : Visits(P)[i].do = "visit" /\ Visits(P)[i].p \in P
PROOF
  <1>1. PICK n \in Nat : n = Cardinality(P)
    BY FS_CardinalityType
  <1>2. ExistsBijection(1 .. n, P)
    BY <1>1, FS_CardinalityType
  <1>3. PICK f \in Bijection(1 .. n, P) : TRUE
    BY <1>2 DEF ExistsBijection
  <1>4. f \in [1 .. n -> P] /\ IsInjective(f)
    BY <1>3 DEF Bijection, Injection, IsInjective
  <1>5. SetToSeq(P) \in [1 .. n -> P]
    BY <1>1, <1>3, <1>4 DEF SetToSeq
  <1>6. PICK v : v = Visits(P)
    OBVIOUS
  <1>7. v = [i \in 1 .. n |-> [do |-> "visit", p |-> SetToSeq(P)[i]]]
    BY <1>1, <1>6 DEF Visits
  <1>8. \A i \in 1 .. n : v[i].do = "visit" /\ v[i].p \in P /\ v[i] \in Entries
    BY <1>5, <1>7 DEF Entries
  <1>9. v \in Seq(Entries) /\ DOMAIN v = 1 .. n
    BY <1>7, <1>8
  <1> QED BY <1>6, <1>8, <1>9

\* A pattern matches paths below its directory and never the root.
LEMMA GlobInTree ==
  ASSUME FileAssumption, TreeOK(tree), NEW p, NEW star \in BOOLEAN
  PROVE  Glob(p, star) \subseteq Paths /\ IsFiniteSet(Glob(p, star)) /\ (p # Root => Root \notin Glob(p, star))
PROOF
  <1>1. Glob(p, star) \subseteq DOMAIN tree /\ (p # Root => Root \notin Glob(p, star))
    BY DEF Glob, Children, Exists
  <1>2. DOMAIN tree \subseteq Paths /\ IsFiniteSet(DOMAIN tree)
    BY DEF TreeOK, TreeTyped
  <1> QED BY <1>1, <1>2, FS_Subset

\* The types of the file system hold initially.
LEMMA FileInvInit ==
  ASSUME FileAssumption, Init
  PROVE  FileInv
PROOF
  <1>1. PICK D : D = FirstDirs
    OBVIOUS
  <1>2. PICK F : F = DOMAIN Stored
    OBVIOUS
  <1>3. /\ tree = [p \in D \cup F |-> IF p \in D THEN Dir(0) ELSE File(Stored[p])]
        /\ DOMAIN tree = D \cup F
    BY <1>1, <1>2 DEF Init
  <1>4. /\ IsFiniteSet(F) /\ F \subseteq Paths /\ \A p \in F : p \notin D /\ Dirname(p) \in D
        /\ \A p \in F : Stored[p] \in Clients
    BY <1>1, <1>2 DEF FileAssumption
  <1>5. D \subseteq Paths
    <2>1. ASSUME NEW n \in Names PROVE <<n>> \in Paths
      <3>1. <<n>> \in Seq(Names) /\ Len(<<n>>) = 1
        OBVIOUS
      <3>2. 1 <= MaxDepth
        BY DEF FileAssumption
      <3> QED BY <3>1, <3>2, SeqIsPath
    <2> QED BY <1>1, <2>1, RootIsPath DEF FirstDirs
  <1>6. IsFiniteSet(D \cup F)
    <2>1. PICK N : N = Names \ Dotted
      OBVIOUS
    <2>2. PICK T : T = {<<n>> : n \in N}
      OBVIOUS
    <2>3. IsFiniteSet(N)
      BY <2>1, FS_Subset DEF FileAssumption
    <2>4. PICK f : f = [n \in N |-> <<n>>]
      OBVIOUS
    <2>5. f \in Surjection(N, T)
      BY <2>2, <2>4 DEF Surjection
    <2>6. IsFiniteSet(T)
      BY <2>3, <2>5, FS_Surjection
    <2>7. IsFiniteSet(T \cup {Root}) /\ D = T \cup {Root}
      BY <1>1, <2>1, <2>2, <2>6, FS_AddElement DEF FirstDirs
    <2> QED BY <1>4, <2>7, FS_Union
  <1>7. ASSUME NEW p \in D PROVE Dirname(p) = Root
    <2>1. CASE p = Root
      BY <2>1 DEF Dirname
    <2>2. CASE p # Root
      <3>0. PICK n \in Names : p = <<n>>
        BY <1>1, <2>2 DEF FirstDirs
      <3>1. p \in Seq(Names) /\ Len(p) = 1
        BY <3>0
      <3>2. Dirname(p) \in Seq(Names) /\ Len(Dirname(p)) = 0
        BY <2>2, <3>1, ParentFacts
      <3> QED BY <3>2, RootIsPath
    <2> QED BY <2>1, <2>2
  <1>8. TreeOK(tree)
    <2>1. Root \in D
      BY <1>1 DEF FirstDirs
    <2>2. Dir(0) \in Nodes /\ Dir(0).dir /\ \A p \in F : File(Stored[p]) \in Nodes
      BY <1>4 DEF Dir, File, Nodes
    <2>3. \A p \in D : tree[p] = Dir(0)
      BY <1>3
    <2>4. \A p \in F : tree[p] = File(Stored[p])
      BY <1>3, <1>4
    <2>5. TreeTyped(tree)
      BY <1>3, <1>4, <1>5, <1>6, <2>1, <2>2, <2>3, <2>4 DEF TreeTyped
    <2>6. TreeClosed(tree)
      BY <1>3, <1>4, <1>7, <2>1, <2>2, <2>3 DEF TreeClosed
    <2> QED BY <2>5, <2>6 DEF TreeOK
  <1>9. JobTypes
    BY FreeJob DEF Init, JobTypes
  <1>10. SessionTypes
    <2>1. work = Home /\ from = [c \in Clients |-> Absent]
      BY DEF Init
    <2>2. ASSUME NEW c \in Clients PROVE IsPrefix(Home[c], Home[c])
      <3>1. Home[c] \in Seq(Names)
        BY PathIsSeq DEF FileAssumption
      <3> QED BY <3>1, RebaseSelf
    <2> QED BY <2>1, <2>2 DEF FileAssumption, SessionTypes, MayBeIn
  <1>11. IndexTypes
    <2>1. index \subseteq Indexed /\ index \subseteq D \cup F
      BY <1>3 DEF Init
    <2> QED BY <1>6, <2>1, FS_Subset DEF IndexTypes
  <1> QED BY <1>8, <1>9, <1>10, <1>11 DEF FileInv

\* A new entry in a directory leaves a tree.
LEMMA MakeKeeps ==
  ASSUME FileAssumption, TreeOK(tree), NEW p \in Paths, IsDir(Dirname(p)), NEW n \in Nodes, IsDir(p) => n.dir,
         tree' = Make(p, n)
  PROVE  TreeOK(tree')
PROOF
  <1>1. PICK t : t = tree
    OBVIOUS
  <1>2. PICK u : u = tree'
    OBVIOUS
  <1>3. TreeOK(t) /\ Dirname(p) \in DOMAIN t /\ t[Dirname(p)].dir /\ (p \in DOMAIN t /\ t[p].dir => n.dir)
    BY <1>1 DEF IsDir, Exists
  <1>4. u = [q \in DOMAIN t \cup {p} |-> IF q = p THEN n ELSE t[q]]
    BY <1>1, <1>2 DEF Make
  <1>5. TreeOK(u)
    BY <1>3, <1>4, MadeTree
  <1> QED BY <1>2, <1>5

\* So does the removal of entries with all that is below them.
LEMMA UnlinkKeeps ==
  ASSUME FileAssumption, TreeOK(tree), NEW P, Root \notin P, tree' = Unlinked(P),
         \A q \in DOMAIN tree \ P : q # Root => Dirname(q) \notin P
  PROVE  TreeOK(tree')
PROOF
  <1>1. PICK t : t = tree
    OBVIOUS
  <1>2. PICK u : u = tree'
    OBVIOUS
  <1>3. TreeOK(t) /\ \A q \in DOMAIN t \ P : q # Root => Dirname(q) \notin P
    BY <1>1
  <1>4. u = [q \in DOMAIN t \ P |-> t[q]]
    BY <1>1, <1>2 DEF Unlinked
  <1>5. TreeOK(u)
    BY <1>3, <1>4, UnlinkedTree
  <1> QED BY <1>2, <1>5

\* A file, and an empty directory.
LEMMA UnlinkOne ==
  ASSUME FileAssumption, TreeOK(tree), NEW p, p # Root, IsFile(p) \/ Children(p) = {}, tree' = Unlinked({p})
  PROVE  TreeOK(tree')
PROOF
  <1>1. ASSUME NEW q \in DOMAIN tree, q # Root PROVE Dirname(q) # p
    <2>1. Dirname(q) \in DOMAIN tree /\ tree[Dirname(q)].dir
      BY <1>1 DEF TreeOK, TreeClosed
    <2>2. CASE IsFile(p)
      BY <2>1, <2>2 DEF IsFile
    <2>3. CASE Children(p) = {}
      BY <1>1, <2>3 DEF Children
    <2> QED BY <2>2, <2>3
  <1> QED BY <1>1, UnlinkKeeps

\* A directory that holds only files, with them.
LEMMA UnlinkDir ==
  ASSUME FileAssumption, TreeOK(tree), NEW p, p # Root, \A q \in Children(p) : ~IsDir(q), tree' = Unlinked(Children(p) \cup {p})
  PROVE  TreeOK(tree')
PROOF
  <1>1. PICK P : P = Children(p) \cup {p}
    OBVIOUS
  <1>2. Root \notin P
    BY <1>1 DEF Children
  <1>3. ASSUME NEW q \in DOMAIN tree \ P, q # Root PROVE Dirname(q) \notin P
    <2>1. Dirname(q) \in DOMAIN tree /\ tree[Dirname(q)].dir
      BY <1>3 DEF TreeOK, TreeClosed
    <2>2. Dirname(q) \notin Children(p)
      BY <2>1 DEF IsDir, Exists
    <2>3. Dirname(q) # p
      BY <1>1, <1>3 DEF Children
    <2> QED BY <1>1, <2>2, <2>3
  <1> QED BY <1>1, <1>2, <1>3, UnlinkKeeps

\* Files of a directory.
LEMMA UnlinkFiles ==
  ASSUME FileAssumption, TreeOK(tree), NEW P, \A q \in P : IsFile(q), tree' = Unlinked(P)
  PROVE  TreeOK(tree')
PROOF
  <1>1. Root \in DOMAIN tree /\ Dirname(Root) = Root
    BY DEF TreeOK, TreeTyped, Dirname
  <1>2. \A q \in DOMAIN tree : Dirname(q) \in DOMAIN tree /\ tree[Dirname(q)].dir
    BY DEF TreeOK, TreeClosed
  <1>3. Root \notin P /\ \A q \in DOMAIN tree : Dirname(q) \notin P
    BY <1>1, <1>2 DEF IsFile
  <1> QED BY <1>3, UnlinkKeeps

\* unlink(2) and rmdir(2) of RMD.
LEMMA RemoveKeeps ==
  ASSUME FileAssumption, FileInv, NEW c \in Clients, RemoveDirectory(c)
  PROVE  TreeOK(tree')
PROOF
  <1>1. PICK p : p = act[c].p
    OBVIOUS
  <1>2. PICK P \in Unlinks(p) : tree' = Unlinked(P)
    BY <1>1 DEF RemoveDirectory, Unlink
  <1>3. p # Root
    BY <1>1 DEF RemoveDirectory, FileInv, JobTypes, JobInv, JobStage
  <1>4. CASE IsDir(p) /\ \A q \in Children(p) : IsFile(q)
    <2>1. P = Children(p) \cup {p}
      BY <1>2, <1>4 DEF Unlinks
    <2>2. \A q \in Children(p) : ~IsDir(q)
      BY <1>4 DEF IsFile, IsDir
    <2> QED BY <1>2, <1>3, <2>1, <2>2, UnlinkDir DEF FileInv
  <1>5. CASE ~(IsDir(p) /\ \A q \in Children(p) : IsFile(q))
    <2>1. \A q \in P : IsFile(q)
      BY <1>2, <1>5 DEF Unlinks
    <2> QED BY <1>2, <2>1, UnlinkFiles DEF FileInv
  <1> QED BY <1>4, <1>5

\* So does a rename.
LEMMA RenameKeeps ==
  ASSUME FileAssumption, FileInv, NEW c \in Clients, Rename(c)
  PROVE  TreeOK(tree')
PROOF
  <1>1. PICK t : t = tree
    OBVIOUS
  <1>2. PICK u : u = tree'
    OBVIOUS
  <1>3. PICK p \in Paths : p = act[c].p
    BY DEF FileInv, JobTypes, JobInv, JobShape
  <1>4. PICK q \in Paths : q = act[c].q
    BY DEF FileInv, JobTypes, JobInv, JobShape
  <1>5. p # Root /\ q # Root
    BY <1>3, <1>4 DEF Rename, FileInv, JobTypes, JobInv, JobStage
  <1>6. TreeOK(t)
    BY <1>1 DEF FileInv
  <1>7. CASE ~CanRename(p, q)
    BY <1>3, <1>4, <1>7 DEF Rename, FileInv
  <1>8. CASE CanRename(p, q)
    <2>1. /\ p \in DOMAIN t /\ Dirname(q) \in DOMAIN t /\ t[Dirname(q)].dir /\ ~(IsPrefix(p, q) /\ p # q)
          /\ \A s \in Go(t, p) : Rebase(p, q, s) \in Paths
      BY <1>1, <1>8 DEF CanRename, RenameWorks, Exists, IsDir, Below, Subtree, Go
    <2>2. tree' = Renamed(p, q)
      BY <1>3, <1>4, <1>8 DEF Rename
    <2>3. DOMAIN tree \ (Subtree(p) \cup Subtree(q)) = Stay(t, p, q)
      BY <1>1 DEF Subtree, Stay
    <2>4. {Rebase(p, q, s) : s \in Subtree(p)} = Arrive(t, p, q)
      BY <1>1 DEF Subtree, Arrive, Go
    <2>5. MovedTree(t, p, q, u)
      BY <1>1, <1>2, <2>2, <2>3, <2>4 DEF Renamed, MovedTree
    <2>6. TreeOK(u)
      BY <1>5, <1>6, <2>1, <2>5, RenamedTree
    <2> QED BY <1>2, <2>6
  <1> QED BY <1>7, <1>8

\* Jobs that do not change keep their types.
LEMMA KeepJobs ==
  ASSUME JobTypes, UNCHANGED act
  PROVE  JobTypes'
PROOF
  BY DEF JobTypes

\* So do the working directories and the names to rename.
LEMMA KeepSession ==
  ASSUME SessionTypes, UNCHANGED <<work, from>>
  PROVE  SessionTypes'
PROOF
  BY DEF SessionTypes, MayBeIn

\* So does a client whose command is done.
LEMMA DoneJob ==
  ASSUME FileAssumption, JobTypes, NEW c \in Clients, Done(c)
  PROVE  JobTypes'
PROOF
  BY FreeJob, PutJob DEF Done

\* The job of every client has its types.
LEMMA AtJob ==
  ASSUME FileInv, NEW c \in Clients
  PROVE  JobInv(act[c])
PROOF
  BY DEF FileInv, JobTypes

\* The next stage of a command.
LEMMA NextStage ==
  ASSUME NEW j, JobInv(j), NEW at, NEW k, k = [j EXCEPT !.at = at], JobStage(k), at = "add" => j.q \in Indexed
  PROVE  JobInv(k)
PROOF
  BY DEF JobInv, JobShape

\* What is left of a loop.
LEMMA NextEntries ==
  ASSUME NEW j, JobInv(j), NEW todo \in Seq(Entries), NEW k, k = [j EXCEPT !.todo = todo],
         j.op = "WIPE" => NoRoot(todo)
  PROVE  JobInv(k) /\ k.op = j.op /\ k.todo = todo
PROOF
  <1>1. /\ k = [op |-> j.op, at |-> j.at, p |-> j.p, q |-> j.q, todo |-> todo, failed |-> j.failed,
                own |-> j.own, may |-> j.may]
        /\ j.p \in Paths /\ j.q \in Paths
    BY DEF JobInv, JobShape
  <1>2. JobShape(k)
    BY <1>1 DEF JobShape
  <1>3. JobStage(k)
    BY <1>1 DEF JobInv, JobStage
  <1> QED BY <1>1, <1>2, <1>3 DEF JobInv

\* So has a job that counts a failure.
LEMMA Failed ==
  ASSUME NEW j, JobInv(j), NEW k, k = [j EXCEPT !.failed = 1]
  PROVE  JobInv(k)
PROOF
  <1>1. /\ k = [op |-> j.op, at |-> j.at, p |-> j.p, q |-> j.q, todo |-> j.todo, failed |-> 1,
                own |-> j.own, may |-> j.may]
        /\ j.p \in Paths /\ j.q \in Paths /\ j.todo \in Seq(Entries)
    BY DEF JobInv, JobShape
  <1>2. JobShape(k)
    BY <1>1 DEF JobShape
  <1>3. JobStage(k)
    BY <1>1 DEF JobInv, JobStage
  <1> QED BY <1>1, <1>2, <1>3 DEF JobInv

\* CWD and CDUP keep the types of the file system.
LEMMA ChdirKeeps ==
  ASSUME FileAssumption, FileInv, NEW c \in Clients, Chdir(c)
  PROVE  FileInv'
PROOF
  <1>1. UNCHANGED <<tree, index, from, confirm, act, mask>>
    BY DEF Chdir
  <1>2. PICK p : ChangeDirectory(c, p) = "ok" /\ work' = [work EXCEPT ![c] = p]
    BY ChdirEnters
  <1>3. MayBeIn(c, p) /\ p \in DOMAIN tree
    BY <1>2, MayEnter
  <1>4. p \in Paths
    BY <1>3 DEF FileInv, TreeOK, TreeTyped
  <1>5. work' \in [Clients -> Paths] /\ \A d \in Clients : work'[d] = IF d = c THEN p ELSE work[d]
    BY <1>2, <1>4 DEF FileInv, SessionTypes
  <1>6. \A d \in Clients : MayBeIn(d, work'[d])
    BY <1>3, <1>5 DEF FileInv, SessionTypes
  <1>7. SessionTypes'
    <2>1. \A d \in Clients : MayBeIn(d, work[d])'
      BY <1>6 DEF MayBeIn
    <2> QED BY <1>1, <1>5, <2>1 DEF FileInv, SessionTypes
  <1>8. TreeOK(tree') /\ IndexTypes' /\ JobTypes'
    BY <1>1, KeepJobs DEF FileInv, IndexTypes
  <1> QED BY <1>7, <1>8 DEF FileInv

\* So does MKD.
LEMMA MKDKeeps ==
  ASSUME FileAssumption, FileInv, NEW c \in Clients, MKD(c)
  PROVE  FileInv'
PROOF
  <1>1. PICK p \in Paths \ {Root} : /\ IsDir(Dirname(p)) /\ ~Exists(p) /\ tree' = Make(p, Dir(0))
                                   /\ Put(c, Job("MKD", "own", p, Root, <<>>))
    BY DEF MKD
  <1>2. UNCHANGED <<index, work, from>>
    BY DEF MKD, sessionVars
  <1>3. Dir(0) \in Nodes /\ Dir(0).dir
    BY DEF Dir, Nodes
  <1>4. TreeOK(tree')
    BY <1>1, <1>3, MakeKeeps DEF FileInv
  <1>5. JobInv(Job("MKD", "own", p, Root, <<>>))
    <2>1. <<>> \in Seq(Entries) /\ Root \in Paths
      BY RootIsPath
    <2>2. JobStage(Job("MKD", "own", p, Root, <<>>))
      BY <1>1 DEF JobStage, Job
    <2> QED BY <2>1, <2>2, NewJob
  <1>6. JobTypes' /\ SessionTypes' /\ IndexTypes'
    BY <1>1, <1>2, <1>5, PutJob, KeepSession DEF FileInv, IndexTypes
  <1> QED BY <1>4, <1>6 DEF FileInv

\* So does the owner that is written to a new directory.
LEMMA SetOwnerKeeps ==
  ASSUME FileAssumption, FileInv, NEW c \in Clients, SetOwner(c)
  PROVE  FileInv'
PROOF
  <1>1. PICK p \in Paths : p = act[c].p
    BY AtJob DEF JobInv, JobShape
  <1>2. UNCHANGED <<index, work, from>>
    BY DEF SetOwner, sessionVars
  <1>3. p # Root
    BY <1>1, AtJob DEF SetOwner, JobInv, JobStage
  <1>4. TreeOK(tree')
    <2>1. CASE ~Exists(p)
      BY <1>1, <2>1 DEF SetOwner, FileInv
    <2>2. CASE Exists(p)
      <3>1. PICK n : n = [tree[p] EXCEPT !.own = c]
        OBVIOUS
      <3>2. tree' = Make(p, n)
        BY <1>1, <2>2, <3>1 DEF SetOwner
      <3>3. tree[p] \in Nodes
        BY <2>2 DEF FileInv, TreeOK, TreeTyped, Exists
      <3>4. n \in Nodes /\ n.dir = tree[p].dir
        BY <3>1, <3>3 DEF Nodes
      <3>5. IsDir(Dirname(p))
        BY <2>2 DEF FileInv, TreeOK, TreeClosed, IsDir, Exists
      <3>6. IsDir(p) => n.dir
        BY <3>4 DEF IsDir
      <3> QED BY <3>2, <3>4, <3>5, <3>6, MakeKeeps DEF FileInv
    <2> QED BY <2>1, <2>2
  <1>5. JobTypes'
    <2>1. CASE p \in Indexed
      <3>1. Put(c, Job("MKD", "add", p, p, <<>>))
        BY <1>1, <2>1 DEF SetOwner
      <3>2. <<>> \in Seq(Entries)
        OBVIOUS
      <3>3. JobStage(Job("MKD", "add", p, p, <<>>))
        BY <1>3 DEF JobStage, Job
      <3>4. JobInv(Job("MKD", "add", p, p, <<>>))
        BY <2>1, <3>2, <3>3, NewJob
      <3> QED BY <3>1, <3>4, PutJob DEF FileInv
    <2>2. CASE p \notin Indexed
      BY <1>1, <2>2, DoneJob DEF SetOwner, FileInv
    <2> QED BY <2>1, <2>2
  <1>6. SessionTypes' /\ IndexTypes'
    BY <1>2, KeepSession DEF FileInv, IndexTypes
  <1> QED BY <1>4, <1>5, <1>6 DEF FileInv

\* So does the index entry of a new directory.
LEMMA IndexAddKeeps ==
  ASSUME FileAssumption, FileInv, NEW c \in Clients, IndexAdd(c)
  PROVE  FileInv'
PROOF
  <1>1. act[c].q \in Indexed
    BY AtJob DEF IndexAdd, JobInv
  <1>2. IndexTypes'
    BY <1>1, FS_AddElement DEF IndexAdd, FileInv, IndexTypes
  <1>3. TreeOK(tree') /\ JobTypes' /\ SessionTypes'
    BY DoneJob, KeepSession DEF IndexAdd, sessionVars, FileInv
  <1> QED BY <1>2, <1>3 DEF FileInv

\* So does the removal of a directory.
LEMMA RemoveAll ==
  ASSUME FileAssumption, FileInv, NEW c \in Clients, RemoveDirectory(c)
  PROVE  FileInv'
PROOF
  <1>1. UNCHANGED <<index, work, from>>
    BY DEF RemoveDirectory, sessionVars
  <1>2. PICK j : j = act[c]
    OBVIOUS
  <1>3. PICK k : k = [j EXCEPT !.at = "del"]
    OBVIOUS
  <1>4. JobInv(j) /\ j.op = "RMD" /\ j.p # Root
    BY <1>2, AtJob DEF RemoveDirectory, JobInv, JobStage
  <1>5. JobStage(k)
    BY <1>3, <1>4 DEF JobStage, JobInv, JobShape
  <1>6. JobInv(k)
    BY <1>3, <1>4, <1>5, NextStage
  <1>7. Put(c, k) \/ Done(c)
    BY <1>2, <1>3 DEF RemoveDirectory
  <1>8. JobTypes'
    BY <1>6, <1>7, PutJob, DoneJob DEF FileInv
  <1>9. SessionTypes' /\ IndexTypes'
    BY <1>1, KeepSession DEF FileInv, IndexTypes
  <1> QED BY <1>8, <1>9, RemoveKeeps DEF FileInv

\* So does the removal of its index entry.
LEMMA IndexDeleteKeeps ==
  ASSUME FileAssumption, FileInv, NEW c \in Clients, IndexDelete(c)
  PROVE  FileInv'
PROOF
  <1>1. IndexTypes'
    BY FS_RemoveElement DEF IndexDelete, FileInv, IndexTypes
  <1>2. TreeOK(tree') /\ JobTypes' /\ SessionTypes'
    BY DoneJob, KeepSession DEF IndexDelete, sessionVars, FileInv
  <1> QED BY <1>1, <1>2 DEF FileInv

\* RMD and DELE begin.
LEMMA BeginKeeps ==
  ASSUME FileAssumption, FileInv, NEW c \in Clients, RMD(c) \/ DELE(c)
  PROVE  FileInv'
PROOF
  <1>1. UNCHANGED <<tree, index, work, from>>
    BY DEF RMD, DELE, sessionVars
  <1>2. PICK p \in DOMAIN tree \ {Root} :
          Put(c, Removal(c, "RMD", "rmdir", p, Root, <<>>)) \/ Put(c, Removal(c, "DELE", "unlink", p, Root, <<>>))
    BY DEF RMD, DELE
  <1>3. p \in Paths /\ Root \in Paths /\ <<>> \in Seq(Entries)
    BY <1>2, RootIsPath DEF FileInv, TreeOK, TreeTyped
  <1>4. JobStage(Job("RMD", "rmdir", p, Root, <<>>)) /\ JobStage(Job("DELE", "unlink", p, Root, <<>>))
    BY <1>2 DEF JobStage, Job
  <1>5. JobInv(Removal(c, "RMD", "rmdir", p, Root, <<>>)) /\ JobInv(Removal(c, "DELE", "unlink", p, Root, <<>>))
    BY <1>3, <1>4, NewRemoval
  <1>6. JobTypes'
    BY <1>2, <1>5, PutJob DEF FileInv
  <1>7. TreeOK(tree') /\ SessionTypes' /\ IndexTypes'
    BY <1>1, KeepSession DEF FileInv, IndexTypes
  <1> QED BY <1>6, <1>7 DEF FileInv

\* So does DELE.
LEMMA DeleteKeeps ==
  ASSUME FileAssumption, FileInv, NEW c \in Clients, DeleteFile(c)
  PROVE  FileInv'
PROOF
  <1>1. act[c].p # Root
    BY AtJob DEF DeleteFile, JobInv, JobStage
  <1>2. TreeOK(tree')
    <2>1. CASE MayDelete(c, act[c].p)
      <3>1. IsFile(act[c].p) /\ tree' = Unlinked({act[c].p})
        BY <2>1 DEF DeleteFile, MayDelete, Unlink
      <3> QED BY <1>1, <3>1, UnlinkOne DEF FileInv
    <2>2. CASE ~MayDelete(c, act[c].p)
      BY <2>2 DEF DeleteFile, FileInv
    <2> QED BY <2>1, <2>2
  <1>3. JobTypes' /\ SessionTypes' /\ IndexTypes'
    BY DoneJob, KeepSession DEF DeleteFile, sessionVars, FileInv, IndexTypes
  <1> QED BY <1>2, <1>3 DEF FileInv

\* So does RNFR.
LEMMA RNFRKeeps ==
  ASSUME FileAssumption, FileInv, NEW c \in Clients, RNFR(c)
  PROVE  FileInv'
PROOF
  <1>1. PICK p \in Paths \ {Root} : from' = [from EXCEPT ![c] = p]
    BY DEF RNFR
  <1>2. UNCHANGED <<tree, index, work, act>>
    BY DEF RNFR
  <1>3. SessionTypes'
    BY <1>1, <1>2 DEF FileInv, SessionTypes, MayBeIn
  <1>4. TreeOK(tree') /\ JobTypes' /\ IndexTypes'
    BY <1>2, KeepJobs DEF FileInv, IndexTypes
  <1> QED BY <1>3, <1>4 DEF FileInv

\* So does RNTO.
LEMMA RNTOKeeps ==
  ASSUME FileAssumption, FileInv, NEW c \in Clients, RNTO(c)
  PROVE  FileInv'
PROOF
  <1>1. from[c] # Absent /\ from' = [from EXCEPT ![c] = Absent] /\ UNCHANGED <<tree, index, work>>
    BY DEF RNTO
  <1>2. PICK p \in Paths \ {Root} : p = from[c]
    BY <1>1 DEF FileInv, SessionTypes
  <1>3. PICK q \in Paths \ {Root} :
          Put(c, Removal(c, IF IsDir(p) THEN "RNTOdir" ELSE "RNTO", "rename", p, q, <<>>)) \/ UNCHANGED act
    BY <1>2 DEF RNTO
  <1>4. PICK op \in {"RNTO", "RNTOdir"} : op = IF IsDir(p) THEN "RNTOdir" ELSE "RNTO"
    OBVIOUS
  <1>5. JobInv(Removal(c, op, "rename", p, q, <<>>))
    <2>1. <<>> \in Seq(Entries)
      OBVIOUS
    <2>2. JobStage(Job(op, "rename", p, q, <<>>))
      BY <1>2, <1>3 DEF JobStage, Job
    <2> QED BY <2>1, <2>2, NewRemoval
  <1>6. JobTypes'
    BY <1>3, <1>4, <1>5, PutJob, KeepJobs DEF FileInv
  <1>7. SessionTypes'
    BY <1>1 DEF FileInv, SessionTypes, MayBeIn
  <1>8. TreeOK(tree') /\ IndexTypes'
    BY <1>1 DEF FileInv, IndexTypes
  <1> QED BY <1>6, <1>7, <1>8 DEF FileInv

\* So does the rename.
LEMMA RenameAll ==
  ASSUME FileAssumption, FileInv, NEW c \in Clients, Rename(c)
  PROVE  FileInv'
PROOF
  <1>1. UNCHANGED <<index, work, from>>
    BY DEF Rename, sessionVars
  <1>2. PICK j : j = act[c]
    OBVIOUS
  <1>3. PICK k : k = [j EXCEPT !.at = "swap"]
    OBVIOUS
  <1>4. JobInv(j) /\ j.op \in {"RNTO", "RNTOdir"} /\ j.p # Root /\ j.q # Root
    BY <1>2, AtJob DEF Rename, JobInv, JobStage
  <1>5. JobStage(k)
    BY <1>3, <1>4 DEF JobStage, JobInv, JobShape
  <1>6. JobInv(k)
    BY <1>3, <1>4, <1>5, NextStage
  <1>7. Put(c, k) \/ Done(c)
    BY <1>2, <1>3 DEF Rename
  <1>8. JobTypes'
    BY <1>6, <1>7, PutJob, DoneJob DEF FileInv
  <1>9. SessionTypes' /\ IndexTypes'
    BY <1>1, KeepSession DEF FileInv, IndexTypes
  <1> QED BY <1>8, <1>9, RenameKeeps DEF FileInv

\* So does the exchange of its index entries.
LEMMA SwapKeeps ==
  ASSUME FileAssumption, FileInv, NEW c \in Clients, IndexSwap(c)
  PROVE  FileInv'
PROOF
  <1>1. UNCHANGED <<tree, work, from>>
    BY DEF IndexSwap, sessionVars
  <1>2. PICK j : j = act[c]
    OBVIOUS
  <1>3. PICK k : k = [j EXCEPT !.at = "add"]
    OBVIOUS
  <1>4. JobInv(j) /\ j.op \in {"RNTO", "RNTOdir"} /\ j.p # Root /\ j.q # Root
    BY <1>2, AtJob DEF IndexSwap, JobInv, JobStage
  <1>5. JobStage(k)
    BY <1>3, <1>4 DEF JobStage, JobInv, JobShape
  <1>6. j.q \in Indexed => JobInv(k)
    BY <1>3, <1>4, <1>5, NextStage
  <1>7. (Put(c, k) /\ j.q \in Indexed) \/ Done(c)
    BY <1>2, <1>3 DEF IndexSwap
  <1>8. JobTypes'
    BY <1>6, <1>7, PutJob, DoneJob DEF FileInv
  <1>9. IndexTypes'
    <2>1. index' \subseteq index
      BY DEF IndexSwap
    <2> QED BY <2>1, FS_Subset DEF FileInv, IndexTypes
  <1>10. TreeOK(tree') /\ SessionTypes'
    BY <1>1, KeepSession DEF FileInv
  <1> QED BY <1>8, <1>9, <1>10 DEF FileInv

\* So does a new file.
LEMMA CreateKeeps ==
  ASSUME FileAssumption, FileInv, NEW c \in Clients, CreateFile(c)
  PROVE  FileInv'
PROOF
  <1>1. PICK p \in Paths \ {Root} : IsDir(Dirname(p)) /\ ~IsDir(p) /\ tree' = Make(p, File(c))
    BY DEF CreateFile
  <1>2. File(c) \in Nodes
    BY DEF File, Nodes
  <1>3. TreeOK(tree')
    BY <1>1, <1>2, MakeKeeps DEF FileInv
  <1>4. JobTypes' /\ SessionTypes' /\ IndexTypes'
    BY KeepJobs, KeepSession DEF CreateFile, sessionVars, FileInv, IndexTypes
  <1> QED BY <1>3, <1>4 DEF FileInv

\* So does a new time of a file.
LEMMA UtimesKeeps ==
  ASSUME FileAssumption, FileInv, NEW c \in Clients, Utimes(c)
  PROVE  FileInv'
PROOF
  <1>1. PICK p \in DOMAIN tree : IsFile(p) /\ tree' = Make(p, [tree[p] EXCEPT !.tag = 1 - tree[p].tag])
    BY DEF Utimes
  <1>2. p \in Paths /\ tree[p] \in Nodes /\ IsDir(Dirname(p))
    BY <1>1 DEF FileInv, TreeOK, TreeTyped, TreeClosed, IsDir, Exists
  <1>3. PICK n : n = [tree[p] EXCEPT !.tag = 1 - tree[p].tag]
    OBVIOUS
  <1>4. n \in Nodes
    BY <1>2, <1>3 DEF Nodes
  <1>5. ~IsDir(p)
    BY <1>1 DEF IsFile, IsDir
  <1>6. TreeOK(tree')
    BY <1>1, <1>2, <1>3, <1>4, <1>5, MakeKeeps DEF FileInv
  <1>7. JobTypes' /\ SessionTypes' /\ IndexTypes'
    BY KeepJobs, KeepSession DEF Utimes, sessionVars, FileInv, IndexTypes
  <1> QED BY <1>6, <1>7 DEF FileInv

\* So does WIPE.
LEMMA WIPEKeeps ==
  ASSUME FileAssumption, FileInv, NEW c \in Clients, WIPE(c)
  PROVE  FileInv'
PROOF
  <1>1. UNCHANGED <<tree, index, work, from>>
    BY DEF WIPE
  <1>2. PICK p \in Paths \ {Root}, star \in BOOLEAN :
          UNCHANGED act \/ Put(c, Removal(c, "WIPE", "loop", p, Root, Visits(Glob(p, star))))
    BY DEF WIPE
  <1>3. PICK v : v = Visits(Glob(p, star))
    OBVIOUS
  <1>4. PICK P : P = Glob(p, star)
    OBVIOUS
  <1>5. P \subseteq Paths /\ IsFiniteSet(P) /\ Root \notin P
    BY <1>2, <1>4, GlobInTree DEF FileInv
  <1>6. v \in Seq(Entries) /\ NoRoot(v)
    BY <1>3, <1>4, <1>5, VisitsTyped DEF NoRoot
  <1>7. JobStage(Job("WIPE", "loop", p, Root, v))
    BY <1>6 DEF JobStage, Job
  <1>8. JobInv(Removal(c, "WIPE", "loop", p, Root, v))
    BY <1>6, <1>7, NewRemoval, RootIsPath
  <1>9. JobTypes'
    BY <1>2, <1>3, <1>8, PutJob, KeepJobs DEF FileInv
  <1>10. TreeOK(tree') /\ SessionTypes' /\ IndexTypes'
    BY <1>1, KeepSession DEF FileInv, IndexTypes
  <1> QED BY <1>9, <1>10 DEF FileInv

\* The loop of WIPE over one entry more.
LEMMA RestOfLoop ==
  ASSUME NEW todo \in Seq(Entries), todo # <<>>
  PROVE  /\ Head(todo) \in Entries /\ Tail(todo) \in Seq(Entries)
         /\ NoRoot(todo) => Head(todo).p # Root /\ NoRoot(Tail(todo))
PROOF
  <1>1. Len(todo) \in Nat \ {0} /\ DOMAIN todo = 1 .. Len(todo)
    OBVIOUS
  <1>2. Head(todo) = todo[1] /\ 1 \in DOMAIN todo
    BY <1>1
  <1>3. Tail(todo) \in Seq(Entries) /\ \A i \in DOMAIN Tail(todo) : Tail(todo)[i] = todo[i + 1] /\ i + 1 \in DOMAIN todo
    BY <1>1
  <1> QED BY <1>1, <1>2, <1>3 DEF NoRoot

\* Two loops in sequence visit the paths of both and still not the root.
LEMMA LoopsJoined ==
  ASSUME NEW v \in Seq(Entries), NEW w \in Seq(Entries), NoRoot(v), NoRoot(w)
  PROVE  v \o w \in Seq(Entries) /\ NoRoot(v \o w)
PROOF
  <1>1. PICK z : z = v \o w
    OBVIOUS
  <1>2. z \in Seq(Entries) /\ Len(z) = Len(v) + Len(w) /\ Len(v) \in Nat /\ Len(w) \in Nat
    BY <1>1, ConcatProperties
  <1>3. ASSUME NEW i \in DOMAIN z PROVE z[i].p # Root
    <2>1. i \in 1 .. Len(v) + Len(w)
      BY <1>2
    <2>2. CASE i <= Len(v)
      <3>1. i \in DOMAIN v /\ z[i] = v[i]
        BY <1>1, <1>2, <2>1, <2>2, ConcatProperties
      <3> QED BY <3>1 DEF NoRoot
    <2>3. CASE i > Len(v)
      <3>1. i - Len(v) \in DOMAIN w /\ z[i] = w[i - Len(v)]
        BY <1>1, <1>2, <2>1, <2>3, ConcatProperties
      <3> QED BY <3>1 DEF NoRoot
    <2> QED BY <1>2, <2>1, <2>2, <2>3
  <1> QED BY <1>1, <1>2, <1>3 DEF NoRoot

\* So does the removal of a directory.
LEMMA WipeRmdirTyped ==
  ASSUME NEW p \in Paths, p # Root
  PROVE  WipeRmdir(p) \in Seq(Entries) /\ NoRoot(WipeRmdir(p))
PROOF
  BY DEF WipeRmdir, NoRoot, Entries

\* WIPE's loops visit paths below its directory and not the root.
LEMMA WipeOrderTyped ==
  ASSUME FileAssumption, TreeOK(tree), NEW p \in Paths, p # Root
  PROVE  WipeOrder(p) \in Seq(Entries) /\ NoRoot(WipeOrder(p))
PROOF
  <1>1. PICK v : v = Visits(Glob(p, TRUE))
    OBVIOUS
  <1>2. PICK P : P = Glob(p, TRUE)
    OBVIOUS
  <1>3. P \subseteq Paths /\ IsFiniteSet(P) /\ Root \notin P
    BY <1>2, GlobInTree
  <1>4. v \in Seq(Entries) /\ NoRoot(v)
    BY <1>1, <1>2, <1>3, VisitsTyped DEF NoRoot
  <1>5. PICK w : w = WipeRmdir(p)
    OBVIOUS
  <1>6. w \in Seq(Entries) /\ NoRoot(w)
    BY <1>5, WipeRmdirTyped
  <1>7. v \o w \in Seq(Entries) /\ NoRoot(v \o w)
    BY <1>4, <1>6, LoopsJoined
  <1> QED BY <1>1, <1>5, <1>7 DEF WipeOrder

\* One step of WIPE keeps the types of the file system.
LEMMA WipeStepKeeps ==
  ASSUME FileAssumption, FileInv, NEW c \in Clients, WipeStep(c)
  PROVE  FileInv'
PROOF
  <1>1. PICK j : j = act[c]
    OBVIOUS
  <1>2. JobInv(j) /\ j.op = "WIPE" /\ j.todo # <<>> /\ j.todo \in Seq(Entries) /\ NoRoot(j.todo)
    BY <1>1, AtJob DEF WipeStep, JobInv, JobShape, JobStage
  <1>3. PICK e : e = Head(j.todo)
    OBVIOUS
  <1>4. PICK tail : tail = Tail(j.todo)
    OBVIOUS
  <1>5. e \in Entries /\ tail \in Seq(Entries) /\ e.p # Root /\ NoRoot(tail)
    BY <1>2, <1>3, <1>4, RestOfLoop
  <1>6. e.p \in Paths
    BY <1>5 DEF Entries
  <1>7. PICK rest : rest = [j EXCEPT !.todo = tail]
    OBVIOUS
  <1>8. JobInv(rest)
    BY <1>2, <1>5, <1>7, NextEntries
  <1>9. PICK more : more = [j EXCEPT !.todo = WipeOrder(e.p) \o tail]
    OBVIOUS
  <1>10. JobInv(more)
    <2>1. PICK w : w = WipeOrder(e.p)
      OBVIOUS
    <2>2. w \in Seq(Entries) /\ NoRoot(w)
      BY <1>5, <1>6, <2>1, WipeOrderTyped DEF FileInv
    <2>3. PICK z : z = w \o tail
      OBVIOUS
    <2>4. z \in Seq(Entries) /\ NoRoot(z)
      BY <1>5, <2>2, <2>3, LoopsJoined
    <2> QED BY <1>2, <1>9, <2>1, <2>3, <2>4, NextEntries
  <1>11. PICK less : less = [j EXCEPT !.todo = WipeRmdir(e.p) \o tail]
    OBVIOUS
  <1>12. JobInv([rest EXCEPT !.failed = 1]) /\ JobInv([less EXCEPT !.failed = 1])
    <2>1. PICK w : w = WipeRmdir(e.p)
      OBVIOUS
    <2>2. w \in Seq(Entries) /\ NoRoot(w)
      BY <1>5, <1>6, <2>1, WipeRmdirTyped
    <2>3. PICK z : z = w \o tail
      OBVIOUS
    <2>4. z \in Seq(Entries) /\ NoRoot(z)
      BY <1>5, <2>2, <2>3, LoopsJoined
    <2>5. JobInv(less)
      BY <1>2, <1>11, <2>1, <2>3, <2>4, NextEntries
    <2> QED BY <1>8, <2>5, Failed
  <1>13. Put(c, more) \/ Put(c, rest) \/ Put(c, [rest EXCEPT !.failed = 1]) \/ Put(c, [less EXCEPT !.failed = 1])
    BY <1>1, <1>3, <1>4, <1>7, <1>9, <1>11 DEF WipeStep
  <1>14. JobTypes'
    BY <1>8, <1>10, <1>12, <1>13, PutJob DEF FileInv
  <1>15. TreeOK(tree')
    <2>1. \/ UNCHANGED tree
          \/ MayDelete(c, e.p) /\ tree' = Unlinked({e.p})
          \/ MayRemoveDirectory(c, e.p) /\ tree' = Unlinked(Children(e.p) \cup {e.p})
      BY <1>1, <1>3 DEF WipeStep, Unlink
    <2>2. CASE UNCHANGED tree
      BY <2>2 DEF FileInv
    <2>3. CASE MayDelete(c, e.p) /\ tree' = Unlinked({e.p})
      BY <1>5, <2>3, UnlinkOne DEF FileInv, MayDelete
    <2>4. CASE MayRemoveDirectory(c, e.p) /\ tree' = Unlinked(Children(e.p) \cup {e.p})
      BY <1>5, <2>4, UnlinkDir DEF FileInv, MayRemoveDirectory
    <2> QED BY <2>1, <2>2, <2>3, <2>4
  <1>16. IndexTypes'
    <2>1. index' \subseteq index
      BY DEF WipeStep
    <2> QED BY <2>1, FS_Subset DEF FileInv, IndexTypes
  <1>17. SessionTypes'
    BY KeepSession DEF WipeStep, sessionVars, FileInv
  <1> QED BY <1>14, <1>15, <1>16, <1>17 DEF FileInv

\* So does its end.
LEMMA WipeEndKeeps ==
  ASSUME FileAssumption, FileInv, NEW c \in Clients, WipeEnd(c)
  PROVE  FileInv'
PROOF
  BY DoneJob, KeepSession DEF WipeEnd, sessionVars, FileInv, IndexTypes

\* So does CHOWN.
LEMMA CHOWNKeeps ==
  ASSUME FileAssumption, FileInv, NEW c \in Clients, CHOWN(c)
  PROVE  FileInv'
PROOF
  <1>1. UNCHANGED <<index, work, from, act>>
    BY DEF CHOWN
  <1>2. PICK p \in DOMAIN tree, o \in Clients, r \in BOOLEAN :
          \/ UNCHANGED tree
          \/ tree' = [q \in DOMAIN tree |-> IF q = p \/ (r /\ Below(p, q)) THEN [tree[q] EXCEPT !.own = o] ELSE tree[q]]
    BY DEF CHOWN
  <1>3. TreeOK(tree')
    <2>1. CASE UNCHANGED tree
      BY <2>1 DEF FileInv
    <2>2. CASE tree' = [q \in DOMAIN tree |-> IF q = p \/ (r /\ Below(p, q)) THEN [tree[q] EXCEPT !.own = o] ELSE tree[q]]
      <3>1. \A q \in DOMAIN tree : tree[q] \in Nodes
        BY DEF FileInv, TreeOK, TreeTyped
      <3>2. ASSUME NEW q \in DOMAIN tree PROVE tree'[q] \in Nodes /\ tree'[q].dir = tree[q].dir
        <4>1. PICK n \in Nodes : n = tree[q]
          BY <3>1
        <4>2. [n EXCEPT !.own = o] \in Nodes /\ [n EXCEPT !.own = o].dir = n.dir
          BY DEF Nodes
        <4> QED BY <2>2, <4>1, <4>2
      <3>3. tree' \in [DOMAIN tree -> Nodes]
        BY <2>2, <3>2
      <3>4. PICK t : t = tree
        OBVIOUS
      <3>5. PICK u : u = tree'
        OBVIOUS
      <3>6. TreeOK(t) /\ u \in [DOMAIN t -> Nodes] /\ \A q \in DOMAIN t : u[q].dir = t[q].dir
        BY <3>2, <3>3, <3>4, <3>5 DEF FileInv
      <3>7. TreeOK(u)
        BY <3>6, OwnedTree
      <3> QED BY <3>5, <3>7
    <2> QED BY <1>2, <2>1, <2>2
  <1>4. JobTypes' /\ SessionTypes' /\ IndexTypes'
    BY <1>1, KeepJobs, KeepSession DEF FileInv, IndexTypes
  <1> QED BY <1>3, <1>4 DEF FileInv

\* So does UPDATE.
LEMMA UPDATEKeeps ==
  ASSUME FileAssumption, FileInv, NEW c \in Clients, UPDATE(c)
  PROVE  FileInv'
PROOF
  <1>1. PICK p \in DOMAIN tree, star \in BOOLEAN : index' = index \cup {q \in Glob(p, star) : q \in Indexed /\ IsDir(q)}
    BY DEF UPDATE
  <1>2. PICK P : P = {q \in Glob(p, star) : q \in Indexed /\ IsDir(q)}
    OBVIOUS
  <1>3. IsFiniteSet(P) /\ P \subseteq Indexed
    BY <1>2, GlobInTree, FS_Subset DEF FileInv
  <1>4. IndexTypes'
    BY <1>1, <1>2, <1>3, FS_Union DEF FileInv, IndexTypes
  <1>5. TreeOK(tree') /\ JobTypes' /\ SessionTypes'
    BY KeepJobs, KeepSession DEF UPDATE, sessionVars, FileInv
  <1> QED BY <1>4, <1>5 DEF FileInv

\* So does the start of the listing of new directories.
LEMMA NewBeginKeeps ==
  ASSUME FileAssumption, FileInv, NEW c \in Clients, NewBegin(c)
  PROVE  FileInv'
PROOF
  <1>1. PICK I : I = index
    OBVIOUS
  <1>2. I \subseteq Paths /\ IsFiniteSet(I)
    BY <1>1 DEF FileInv, IndexTypes, FileAssumption
  <1>3. PICK v : v = Visits(I)
    OBVIOUS
  <1>4. v \in Seq(Entries)
    BY <1>2, <1>3, VisitsTyped
  <1>5. JobStage(Job("NEW", "loop", Root, Root, v))
    BY DEF JobStage, Job
  <1>6. JobInv(Job("NEW", "loop", Root, Root, v))
    BY <1>4, <1>5, NewJob, RootIsPath
  <1>7. Put(c, Job("NEW", "loop", Root, Root, v))
    BY <1>1, <1>3 DEF NewBegin
  <1>8. JobTypes'
    BY <1>6, <1>7, PutJob DEF FileInv
  <1>9. TreeOK(tree') /\ SessionTypes' /\ IndexTypes'
    BY KeepSession DEF NewBegin, sessionVars, FileInv, IndexTypes
  <1> QED BY <1>8, <1>9 DEF FileInv

\* So does one step of it.
LEMMA NewStepKeeps ==
  ASSUME FileAssumption, FileInv, NEW c \in Clients, NewStep(c)
  PROVE  FileInv'
PROOF
  <1>1. PICK j : j = act[c]
    OBVIOUS
  <1>2. JobInv(j) /\ j.op = "NEW" /\ j.todo \in Seq(Entries)
    BY <1>1, AtJob DEF NewStep, JobInv, JobShape
  <1>3. JobTypes'
    <2>1. CASE j.todo = <<>>
      BY <1>1, <2>1, DoneJob DEF NewStep, FileInv
    <2>2. CASE j.todo # <<>>
      <3>1. PICK e : e = Head(j.todo)
        OBVIOUS
      <3>2. PICK tail : tail = Tail(j.todo)
        OBVIOUS
      <3>3. e \in Entries /\ tail \in Seq(Entries)
        BY <1>2, <2>2, <3>1, <3>2, RestOfLoop
      <3>4. PICK again : again = <<[do |-> "prune", p |-> e.p]>> \o tail
        OBVIOUS
      <3>5. again \in Seq(Entries)
        <4>1. <<[do |-> "prune", p |-> e.p]>> \in Seq(Entries)
          BY <3>3 DEF Entries
        <4> QED BY <3>3, <3>4, <4>1, ConcatProperties
      <3>6. Put(c, [j EXCEPT !.todo = tail]) \/ Put(c, [j EXCEPT !.todo = again])
        BY <1>1, <2>2, <3>1, <3>2, <3>4 DEF NewStep
      <3>7. JobInv([j EXCEPT !.todo = tail]) /\ JobInv([j EXCEPT !.todo = again])
        BY <1>2, <3>3, <3>5, NextEntries
      <3> QED BY <3>6, <3>7, PutJob DEF FileInv
    <2> QED BY <2>1, <2>2
  <1>4. IndexTypes'
    <2>1. index' \subseteq index
      BY DEF NewStep
    <2> QED BY <2>1, FS_Subset DEF FileInv, IndexTypes
  <1>5. TreeOK(tree') /\ SessionTypes'
    BY KeepSession DEF NewStep, sessionVars, FileInv
  <1> QED BY <1>3, <1>4, <1>5 DEF FileInv

\* Every step keeps them.
LEMMA FileInvNext ==
  ASSUME FileAssumption, FileInv, [Next]_vars
  PROVE  FileInv'
PROOF
  <1>1. CASE UNCHANGED vars
    BY <1>1, KeepJobs, KeepSession DEF vars, FileInv, IndexTypes
  <1>2. CASE SetUmask
    BY <1>2, KeepJobs, KeepSession DEF SetUmask, sessionVars, FileInv, IndexTypes
  <1>3. ASSUME NEW c \in Clients, CHMOD(c) PROVE FileInv'
    BY <1>3, KeepJobs, KeepSession DEF CHMOD, sessionVars, FileInv, IndexTypes
  <1>4. CASE \E c \in Clients : Chdir(c) \/ MKD(c) \/ SetOwner(c) \/ IndexAdd(c) \/ RMD(c) \/ RemoveDirectory(c) \/ IndexDelete(c)
    BY <1>4, ChdirKeeps, MKDKeeps, SetOwnerKeeps, IndexAddKeeps, BeginKeeps, RemoveAll, IndexDeleteKeeps
  <1>5. CASE \E c \in Clients : DELE(c) \/ DeleteFile(c) \/ RNFR(c) \/ RNTO(c) \/ Rename(c) \/ IndexSwap(c) \/ CreateFile(c) \/ Utimes(c)
    BY <1>5, BeginKeeps, DeleteKeeps, RNFRKeeps, RNTOKeeps, RenameAll, SwapKeeps, CreateKeeps, UtimesKeeps
  <1>6. CASE \E c \in Clients : WIPE(c) \/ WipeStep(c) \/ WipeEnd(c) \/ CHOWN(c) \/ UPDATE(c) \/ NewBegin(c) \/ NewStep(c)
    BY <1>6, WIPEKeeps, WipeStepKeeps, WipeEndKeeps, CHOWNKeeps, UPDATEKeeps, NewBeginKeeps, NewStepKeeps
  <1> QED BY <1>1, <1>2, <1>3, <1>4, <1>5, <1>6 DEF Next

\* They include the types that the run checks.
LEMMA FileInvTypes ==
  ASSUME FileAssumption, FileInv
  PROVE  TypeOK
PROOF
  <1>1. IsDir(Root)
    <2>1. Root \in DOMAIN tree /\ Dirname(Root) = Root
      BY DEF FileInv, TreeOK, TreeTyped, Dirname
    <2> QED BY <2>1 DEF FileInv, TreeOK, TreeClosed, IsDir, Exists
  <1>2. \A p \in DOMAIN tree : p \in Paths /\ tree[p].own \in Clients \cup {0}
    BY DEF FileInv, TreeOK, TreeTyped, Nodes
  <1>3. \A p \in DOMAIN tree : IsDir(Dirname(p))
    BY DEF FileInv, TreeOK, TreeClosed, IsDir, Exists
  <1> QED BY <1>1, <1>2, <1>3 DEF TypeOK, FileInv, IndexTypes, SessionTypes

-----------------------------------------------------------------------------
(* FileSystem: commands that do not overlap *)

\* A command of c begins, or goes on.
OthersKeep(c) == act' = [d \in Clients |-> act'[d]] /\ \A d \in Clients \ {c} : act'[d] = act[d]
Begins(c) ==
  /\ act[c] = Free /\ mixed' = (mixed \/ \E d \in Clients : act[d] # Free)
  /\ OthersKeep(c) /\ trespass' = trespass /\ moved' = moved
GoesOn(c) == act[c] # Free /\ mixed' = mixed /\ OthersKeep(c)

Solo == \A c, d \in Clients : act[c] # Free /\ act[d] # Free => c = d

\* The rights of the model, in a tree t.
OwnerIn(t, x) == IF x \in DOMAIN t THEN t[x].own ELSE 0
ChildrenIn(t, p) == {q \in DOMAIN t : q # Root /\ Dirname(q) = p}
DeletableIn(t, c, x) ==
  /\ IsPrefix(Home[c], x) /\ ~PrivatePath(c, x)
  /\ (OwnerIn(t, x) = c /\ Evaluate("delete" \o "own", c, x)) \/ Evaluate("delete", c, x)
EntitledIn(t, c, op, p) ==
  {x \in DOMAIN t : IsPrefix(p, x) /\
     CASE op = "RNTO" -> Replaceable(c, x, "upload")
       [] op = "RNTOdir" -> Replaceable(c, x, "makedir")
       [] op = "DELE" -> DeletableIn(t, c, x)
       [] OTHER -> DeletableIn(t, c, x) \/ (~t[x].dir /\ Basename(x) \in Dotted /\ DeletableIn(t, c, Dirname(x)))}
RemovableIn(t, c, p) ==
  /\ p \in DOMAIN t /\ t[p].dir /\ DeletableIn(t, c, p)
  /\ \A q \in ChildrenIn(t, p) : Basename(q) \in Dotted /\ ~t[q].dir

\* A command j that is still to remove something: all that it would be entitled to by now it
\* was entitled to when it began, and what the checks of its first step found still holds.
Rightful(c, j, t) ==
  /\ j.at \in {"rmdir", "unlink", "rename"} \/ j.op = "WIPE" =>
       EntitledIn(t, c, j.op, IF j.at = "rename" THEN j.q ELSE j.p) \subseteq j.may
  /\ j.at = "unlink" => j.own = (OwnerIn(t, j.p) = c)
  /\ j.at = "rmdir" => RemovableIn(t, c, j.p)
  /\ j.at = "rename" => /\ j.op = "RNTO" => Replaceable(c, j.q, "upload")
                        /\ j.op = "RNTOdir" => Replaceable(c, j.q, "makedir")
  /\ j.op = "WIPE" => \A i \in DOMAIN j.todo : IsPrefix(j.p, j.todo[i].p)
SoloInv == ~mixed => Solo /\ ~trespass /\ \A c \in Clients : Rightful(c, act[c], tree)

\* Who has no command has nothing to remove.
LEMMA FreeIsRightful ==
  ASSUME NEW c \in Clients, NEW t
  PROVE  Rightful(c, Free, t)
PROOF
  <1>1. Free.at = "" /\ Free.op = ""
    BY DEF Free, Job
  <1> QED BY <1>1 DEF Rightful

\* Nor has a command that does not remove, or has removed.
LEMMA NothingToRemove ==
  ASSUME NEW c \in Clients, NEW t, NEW j, j.at \notin {"rmdir", "unlink", "rename"}, j.op # "WIPE"
  PROVE  Rightful(c, j, t)
PROOF
  BY DEF Rightful

\* Paths below one in two loops are so in both together.
LEMMA PrefixesJoined ==
  ASSUME NEW p, NEW v \in Seq(Entries), NEW w \in Seq(Entries),
         \A i \in DOMAIN v : IsPrefix(p, v[i].p), \A i \in DOMAIN w : IsPrefix(p, w[i].p)
  PROVE  v \o w \in Seq(Entries) /\ \A i \in DOMAIN (v \o w) : IsPrefix(p, (v \o w)[i].p)
PROOF
  <1>1. PICK z : z = v \o w
    OBVIOUS
  <1>2. z \in Seq(Entries) /\ Len(z) = Len(v) + Len(w) /\ Len(v) \in Nat /\ Len(w) \in Nat
    BY <1>1, ConcatProperties
  <1>3. ASSUME NEW i \in DOMAIN z PROVE IsPrefix(p, z[i].p)
    <2>1. i \in 1 .. Len(v) + Len(w)
      BY <1>2
    <2>2. CASE i <= Len(v)
      <3>1. i \in DOMAIN v /\ z[i] = v[i]
        BY <1>1, <1>2, <2>1, <2>2, ConcatProperties
      <3> QED BY <3>1
    <2>3. CASE i > Len(v)
      <3>1. i - Len(v) \in DOMAIN w /\ z[i] = w[i - Len(v)]
        BY <1>1, <1>2, <2>1, <2>3, ConcatProperties
      <3> QED BY <3>1
    <2> QED BY <1>2, <2>1, <2>2, <2>3
  <1> QED BY <1>1, <1>2, <1>3

\* Nothing is below a path that has no children.
LEMMA NoneBelow ==
  ASSUME FileAssumption, NEW t, TreeOK(t), NEW q \in Paths,
         \A r \in DOMAIN t : ~(q \in DOMAIN t /\ r # Root /\ Dirname(r) = q),
         NEW x \in DOMAIN t, IsPrefix(q, x), x # q
  PROVE  FALSE
PROOF
  <1> DEFINE B == {r \in DOMAIN t : IsPrefix(q, r) /\ r # q}
  <1> DEFINE L == {n \in Nat : \E r \in B : Len(r) = n}
  <1>1. q \in Seq(Names)
    BY PathIsSeq
  <1>2. \A r \in B : r \in Seq(Names) /\ Len(r) \in Nat
    BY InTree
  <1>3. L \subseteq Nat /\ L # {}
    BY <1>2
  <1>4. PICK n \in L : \A m \in L : n <= m
    BY <1>3, LeastNumber
  <1>5. PICK r \in B : Len(r) = n
    BY <1>4
  <1>6. r \in Seq(Names) /\ r \in DOMAIN t /\ Dirname(r) \in DOMAIN t
    BY <1>5, InTree
  <1>7. r # Root
    <2>1. CASE q = Root
      BY <1>5, <2>1
    <2>2. CASE q # Root
      BY <1>1, <1>5, <2>2, NothingAboveRoot
    <2> QED BY <2>1, <2>2
  <1>8. IsPrefix(q, Dirname(r))
    BY <1>1, <1>5, <1>6, <1>7, PrefixOfParent
  <1>9. Dirname(r) # q
    BY <1>6, <1>7
  <1>10. Dirname(r) \in B
    BY <1>6, <1>8, <1>9
  <1>11. Len(Dirname(r)) = n - 1 /\ n - 1 \in Nat
    BY <1>5, <1>6, <1>7, ParentFacts
  <1>12. n - 1 \in L
    BY <1>10, <1>11
  <1> QED BY <1>4, <1>12

\* A client that is given a job leaves all others alone.
LEMMA PutOthers ==
  ASSUME JobTypes, NEW c \in Clients, NEW j, Put(c, j)
  PROVE  OthersKeep(c) /\ act'[c] = j
PROOF
  BY DEF JobTypes, Put, OthersKeep

\* So does one that keeps its job.
LEMMA SameOthers ==
  ASSUME JobTypes, NEW c \in Clients, UNCHANGED act
  PROVE  OthersKeep(c) /\ act'[c] = act[c]
PROOF
  BY DEF JobTypes, OthersKeep

\* Who is at a step of a command is not free.
LEMMA NotFree ==
  ASSUME NEW j, j.at # "" \/ j.op # ""
  PROVE  j # Free
PROOF
  <1>1. Free.at = "" /\ Free.op = ""
    BY DEF Free, Job
  <1> QED BY <1>1

\* The commands that begin, and with what.
LEMMA Beginning ==
  ASSUME FileInv, NEW c \in Clients,
         \/ Chdir(c) \/ MKD(c) \/ RMD(c) \/ DELE(c) \/ RNFR(c) \/ RNTO(c) \/ CreateFile(c) \/ Utimes(c)
         \/ WIPE(c) \/ CHOWN(c) \/ CHMOD(c) \/ UPDATE(c) \/ NewBegin(c)
  PROVE  Begins(c)
PROOF
  <1>1. act[c] = Free /\ mixed' = (mixed \/ \E d \in Clients : act[d] # Free) /\ trespass' = trespass /\ moved' = moved
    BY DEF Start, Commands, Keep, Chdir, MKD, RMD, DELE, RNFR, RNTO, CreateFile, Utimes, WIPE, CHOWN, CHMOD, UPDATE, NewBegin
  <1>2. UNCHANGED act \/ \E j : Put(c, j)
    <2>1. CASE Chdir(c) \/ RNFR(c) \/ CreateFile(c) \/ Utimes(c) \/ CHOWN(c) \/ CHMOD(c) \/ UPDATE(c)
      BY <2>1 DEF Chdir, RNFR, CreateFile, Utimes, CHOWN, CHMOD, UPDATE
    <2>2. CASE MKD(c) \/ RMD(c) \/ DELE(c) \/ NewBegin(c)
      BY <2>2 DEF MKD, RMD, DELE, NewBegin
    <2>3. CASE RNTO(c)
      BY <2>3 DEF RNTO
    <2>4. CASE WIPE(c)
      BY <2>4 DEF WIPE
    <2> QED BY <2>1, <2>2, <2>3, <2>4
  <1>3. OthersKeep(c)
    BY <1>2, PutOthers, SameOthers DEF FileInv
  <1> QED BY <1>1, <1>3 DEF Begins

\* The later steps of a command are those of a client that goes on.
LEMMA Going ==
  ASSUME FileInv, NEW c \in Clients,
         \/ SetOwner(c) \/ IndexAdd(c) \/ RemoveDirectory(c) \/ IndexDelete(c) \/ DeleteFile(c) \/ Rename(c)
         \/ IndexSwap(c) \/ WipeStep(c) \/ WipeEnd(c) \/ NewStep(c)
  PROVE  GoesOn(c)
PROOF
  <1>1. mixed' = mixed
    BY DEF Quiet, SetOwner, IndexAdd, RemoveDirectory, IndexDelete, DeleteFile, Rename, IndexSwap, WipeStep, WipeEnd, NewStep
  <1>2. act[c].at # "" \/ act[c].op # ""
    BY DEF SetOwner, IndexAdd, RemoveDirectory, IndexDelete, DeleteFile, Rename, IndexSwap, WipeStep, WipeEnd, NewStep
  <1>3. \E j : Put(c, j)
    <2>1. CASE SetOwner(c) \/ IndexAdd(c) \/ RemoveDirectory(c) \/ IndexDelete(c) \/ DeleteFile(c)
      BY <2>1 DEF SetOwner, IndexAdd, RemoveDirectory, IndexDelete, DeleteFile, Done
    <2>2. CASE Rename(c) \/ IndexSwap(c) \/ WipeEnd(c)
      BY <2>2 DEF Rename, IndexSwap, WipeEnd, Done
    <2>3. CASE WipeStep(c)
      BY <2>3 DEF WipeStep
    <2>4. CASE NewStep(c)
      BY <2>4 DEF NewStep, Done
    <2> QED BY <2>1, <2>2, <2>3, <2>4
  <1> QED BY <1>1, <1>2, <1>3, NotFree, PutOthers DEF GoesOn, FileInv

\* Without an overlap c acts alone: the others are free before and after.
LEMMA ActsAlone ==
  ASSUME FileInv, SoloInv, NEW c \in Clients, Begins(c) \/ GoesOn(c), ~mixed'
  PROVE  ~mixed /\ \A d \in Clients \ {c} : act[d] = Free /\ act'[d] = Free
PROOF
  <1>1. CASE Begins(c)
    BY <1>1 DEF Begins, OthersKeep
  <1>2. CASE GoesOn(c)
    BY <1>2 DEF GoesOn, OthersKeep, SoloInv, Solo
  <1> QED BY <1>1, <1>2

\* The rights as the model states them.
LEMMA EntitledNow ==
  ASSUME NEW c \in Clients, NEW op, NEW p
  PROVE  Entitled(c, op, p) = EntitledIn(tree, c, op, p) /\ (Owner(p) = c <=> OwnerIn(tree, p) = c)
PROOF
  <1>1. \A x : Owner(x) = OwnerIn(tree, x)
    BY DEF Owner, OwnerIn, Exists
  <1>2. \A x : Deletable(c, x) <=> DeletableIn(tree, c, x)
    BY <1>1 DEF Deletable, DeletableIn, OwnOrOther
  <1>3. \A x \in DOMAIN tree : IsFile(x) <=> ~tree[x].dir
    BY DEF IsFile, Exists
  <1> QED BY <1>1, <1>2, <1>3 DEF Entitled, EntitledIn

\* What the checks of DELE and WIPE let through is a right to delete.
LEMMA FileRight ==
  ASSUME NEW c \in Clients, NEW p, MayDelete(c, p)
  PROVE  p \in DOMAIN tree /\ DeletableIn(tree, c, p)
PROOF
  <1>1. p \in DOMAIN tree /\ InnerAllowed("delete", c, p, FALSE) = "ok"
    BY DEF MayDelete, IsFile, Exists, FileAllowed
  <1>2. InsideHomeDir(c, p, FALSE) /\ ~PrivatePath(c, p) /\ Traits("delete", c, p) = "ok"
    BY <1>1 DEF InnerAllowed
  <1>3. OwnOrOther("delete", c, p)
    BY <1>2 DEF Traits
  <1> QED BY <1>1, <1>2, <1>3 DEF DeletableIn, OwnOrOther, Owner, OwnerIn, Exists, InsideHomeDir

\* So is what the checks of fs::RemoveDirectory let through, for the directory.
LEMMA DirRight ==
  ASSUME NEW c \in Clients, NEW p, MayRemoveDirectory(c, p)
  PROVE  RemovableIn(tree, c, p)
PROOF
  <1>1. p \in DOMAIN tree /\ tree[p].dir /\ InnerAllowed("delete", c, p, TRUE) = "ok"
    BY DEF MayRemoveDirectory, IsDir, Exists, DirAllowed
  <1>2. InsideHomeDir(c, p, TRUE) /\ ~PrivatePath(c, p) /\ Traits("delete", c, p) = "ok"
    BY <1>1 DEF InnerAllowed
  <1>3. OwnOrOther("delete", c, p)
    BY <1>2 DEF Traits
  <1>4. DeletableIn(tree, c, p)
    BY <1>2, <1>3 DEF DeletableIn, OwnOrOther, Owner, OwnerIn, Exists, InsideHomeDir
  <1>5. \A q \in ChildrenIn(tree, p) : Basename(q) \in Dotted /\ ~tree[q].dir
    BY DEF MayRemoveDirectory, Children, ChildrenIn, IsDir, Exists
  <1> QED BY <1>1, <1>4, <1>5 DEF RemovableIn

\* And what RNTO asks for the new name is a right to replace what is there.
LEMMA TargetRight ==
  ASSUME NEW c \in Clients, NEW q, NEW right \in {"upload", "makedir"}, NEW dir \in BOOLEAN, InnerAllowed(right, c, q, dir) = "ok"
  PROVE  Replaceable(c, q, right)
PROOF
  <1>1. InsideHomeDir(c, q, dir) /\ ~PrivatePath(c, q) /\ Traits(right, c, q) = "ok"
    BY DEF InnerAllowed
  <1>2. Evaluate(right, c, q)
    BY <1>1 DEF Traits
  <1> QED BY <1>1, <1>2 DEF Replaceable, InsideHomeDir

\* What lies below a path lies below those above it.
LEMMA PrefixOfPrefix ==
  ASSUME NEW p \in Seq(Names), NEW q \in Seq(Names), NEW r \in Seq(Names), IsPrefix(p, q), IsPrefix(q, r)
  PROVE  IsPrefix(p, r)
PROOF
  <1>1. Len(p) <= Len(q) /\ Len(q) <= Len(r) /\ Len(p) \in Nat /\ Len(q) \in Nat /\ Len(r) \in Nat
    BY PrefixAt
  <1>2. \A i \in 1 .. Len(p) : p[i] = q[i]
    BY PrefixAt
  <1>3. \A i \in 1 .. Len(q) : q[i] = r[i]
    BY PrefixAt
  <1>4. \A i \in 1 .. Len(p) : p[i] = r[i]
    BY <1>1, <1>2, <1>3
  <1>5. Len(p) <= Len(r)
    BY <1>1
  <1> QED BY <1>4, <1>5, PrefixAt

\* A child lies below its directory.
LEMMA ChildBelow ==
  ASSUME FileAssumption, NEW t, TreeOK(t), NEW p \in Paths, NEW q \in ChildrenIn(t, p)
  PROVE  q \in Seq(Names) /\ p \in Seq(Names) /\ IsPrefix(p, q) /\ q # p /\ q \in DOMAIN t /\ Dirname(q) = p
PROOF
  <1>1. q \in DOMAIN t /\ q # Root /\ Dirname(q) = p /\ q \in Seq(Names) /\ p \in Seq(Names)
    BY InTree, PathIsSeq DEF ChildrenIn
  <1>2. IsPrefix(p, p)
    BY <1>1, RebaseSelf
  <1> QED BY <1>1, <1>2, PrefixOfParent

\* A command may remove a directory with the dotted files in it by the right to the directory.
LEMMA DirEntitled ==
  ASSUME FileAssumption, NEW t, TreeOK(t), NEW c \in Clients, NEW op \in {"RMD", "WIPE"}, NEW p \in Paths, NEW x \in Paths,
         IsPrefix(p, x), RemovableIn(t, c, x)
  PROVE  ChildrenIn(t, x) \cup {x} \subseteq EntitledIn(t, c, op, p)
PROOF
  <1>1. x \in EntitledIn(t, c, op, p)
    BY DEF RemovableIn, EntitledIn
  <1>2. ASSUME NEW q \in ChildrenIn(t, x) PROVE q \in EntitledIn(t, c, op, p)
    <2>1. q \in DOMAIN t /\ Dirname(q) = x /\ IsPrefix(x, q) /\ q \in Seq(Names) /\ x \in Seq(Names)
      BY <1>2, ChildBelow
    <2>2. IsPrefix(p, q)
      BY <2>1, PathIsSeq, PrefixOfPrefix
    <2>3. Basename(q) \in Dotted /\ ~t[q].dir /\ DeletableIn(t, c, x)
      BY <1>2 DEF RemovableIn
    <2> QED BY <2>1, <2>2, <2>3 DEF EntitledIn
  <1> QED BY <1>1, <1>2

\* Removing entries adds no right.
LEMMA EntitledShrinks ==
  ASSUME NEW t, NEW P, NEW u, u = [q \in DOMAIN t \ P |-> t[q]], TreeOK(u), NEW c \in Clients, NEW op, NEW p
  PROVE  EntitledIn(u, c, op, p) \subseteq EntitledIn(t, c, op, p)
PROOF
  <1>1. \A x \in DOMAIN u : x \in DOMAIN t /\ u[x] = t[x] /\ Dirname(x) \in DOMAIN u
    BY DEF TreeOK, TreeClosed
  <1>2. \A x \in DOMAIN u : OwnerIn(u, x) = OwnerIn(t, x)
    BY <1>1 DEF OwnerIn
  <1>3. \A x \in DOMAIN u : DeletableIn(u, c, x) <=> DeletableIn(t, c, x)
    BY <1>2 DEF DeletableIn
  <1>4. ASSUME NEW x \in EntitledIn(u, c, op, p) PROVE x \in EntitledIn(t, c, op, p)
    <2>1. x \in DOMAIN u
      BY <1>4 DEF EntitledIn
    <2>2. x \in DOMAIN t /\ u[x].dir = t[x].dir /\ (DeletableIn(u, c, x) <=> DeletableIn(t, c, x))
          /\ (DeletableIn(u, c, Dirname(x)) <=> DeletableIn(t, c, Dirname(x)))
      BY <1>1, <1>3, <2>1
    <2> QED BY <1>4, <2>2 DEF EntitledIn
  <1> QED BY <1>4

\* A step of a client whose commands do not mix keeps its rights.
LEMMA SoloStep ==
  ASSUME FileInv, SoloInv, NEW c \in Clients, Begins(c) \/ GoesOn(c), ~mixed' => ~trespass',
         ~mixed' => Rightful(c, act'[c], tree')
  PROVE  SoloInv'
PROOF
  <1> SUFFICES ASSUME ~mixed' PROVE Solo' /\ ~trespass' /\ \A d \in Clients : Rightful(d, act'[d], tree')
    BY DEF SoloInv, Solo
  <1>1. \A d \in Clients \ {c} : act'[d] = Free
    BY ActsAlone
  <1>2. Solo'
    BY <1>1 DEF Solo
  <1>3. ASSUME NEW d \in Clients PROVE Rightful(d, act'[d], tree')
    BY <1>1, FreeIsRightful
  <1> QED BY <1>2, <1>3

\* Who removes no more than it is entitled to does not trespass.
LEMMA JudgedRight ==
  ASSUME NEW c \in Clients, NEW P, P \subseteq act[c].may, Judge(c, P), ~trespass,
         act[c].op = "DELE" => act[c].own = (Owner(act[c].p) = c)
  PROVE  ~trespass'
PROOF
  BY DEF Judge

\* A command that begins to remove knows what it is entitled to.
LEMMA RemovalIsRightful ==
  ASSUME NEW c \in Clients, NEW op, NEW at, NEW p, NEW q, NEW todo,
         at = "rmdir" => RemovableIn(tree, c, p),
         at = "rename" => (op = "RNTO" => Replaceable(c, q, "upload")) /\ (op = "RNTOdir" => Replaceable(c, q, "makedir")),
         op = "WIPE" => \A i \in DOMAIN todo : IsPrefix(p, todo[i].p)
  PROVE  Rightful(c, Removal(c, op, at, p, q, todo), tree)
PROOF
  <1>1. PICK r : r = IF at = "rename" THEN q ELSE p
    OBVIOUS
  <1>2. PICK own, may : own = (OwnerIn(tree, p) = c) /\ may = EntitledIn(tree, c, op, r)
    OBVIOUS
  <1>3. Removal(c, op, at, p, q, todo) =
           [op |-> op, at |-> at, p |-> p, q |-> q, todo |-> todo, failed |-> 0, own |-> own, may |-> may]
    <2>1. Entitled(c, op, r) = may
      BY <1>2, EntitledNow
    <2>2. (Owner(p) = c) = own
      BY <1>2, EntitledNow
    <2> QED BY <1>1, <2>1, <2>2, RemovalFields
  <1>4. PICK j : j = Removal(c, op, at, p, q, todo)
    OBVIOUS
  <1>5. j.op = op /\ j.at = at /\ j.p = p /\ j.q = q /\ j.todo = todo /\ j.own = own /\ j.may = may
    BY <1>3, <1>4
  <1>6. Rightful(c, j, tree)
    BY <1>1, <1>2, <1>5 DEF Rightful
  <1> QED BY <1>4, <1>6

\* WIPE visits what is at or below the path it was given.
LEMMA VisitsBelow ==
  ASSUME FileAssumption, FileInv, NEW p \in Paths, NEW star \in BOOLEAN
  PROVE  \A i \in DOMAIN Visits(Glob(p, star)) : IsPrefix(p, Visits(Glob(p, star))[i].p)
PROOF
  <1>1. PICK P : P = Glob(p, star)
    OBVIOUS
  <1>2. P \subseteq Paths /\ IsFiniteSet(P)
    BY <1>1, GlobInTree DEF FileInv
  <1>3. \A i \in DOMAIN Visits(P) : Visits(P)[i].p \in P
    BY <1>2, VisitsTyped
  <1>4. ASSUME NEW q \in P PROVE IsPrefix(p, q)
    <2>1. CASE star
      <3>1. q \in ChildrenIn(tree, p)
        BY <1>1, <1>4, <2>1 DEF Glob, Children, ChildrenIn
      <3> QED BY <3>1, ChildBelow DEF FileInv
    <2>2. CASE ~star
      <3>1. q = p
        BY <1>1, <1>4, <2>2 DEF Glob
      <3> QED BY <3>1, PathIsSeq, RebaseSelf
    <2> QED BY <2>1, <2>2
  <1> QED BY <1>1, <1>3, <1>4

\* A command that begins is entitled to what it will remove.
LEMMA SoloBegins ==
  ASSUME FileAssumption, FileInv, SoloInv, NEW c \in Clients,
         \/ Chdir(c) \/ MKD(c) \/ RMD(c) \/ DELE(c) \/ RNFR(c) \/ RNTO(c) \/ CreateFile(c) \/ Utimes(c)
         \/ WIPE(c) \/ CHOWN(c) \/ CHMOD(c) \/ UPDATE(c) \/ NewBegin(c)
  PROVE  SoloInv'
PROOF
  <1>1. Begins(c)
    BY Beginning
  <1>2. ~mixed' => ~trespass'
    BY <1>1, ActsAlone DEF Begins, SoloInv
  <1>3. act[c] = Free
    BY <1>1 DEF Begins
  <1>4. Rightful(c, act'[c], tree')
    <2>0. ASSUME NEW j, Put(c, j) PROVE act'[c] = j
      BY <2>0, PutOthers DEF FileInv
    <2>1. CASE UNCHANGED act
      BY <1>3, <2>1, FreeIsRightful
    <2>2. ASSUME NEW op, NEW at, NEW p, NEW q, NEW todo, Put(c, Job(op, at, p, q, todo)),
                 at \in {"own", "loop"}, op \in {"MKD", "NEW"}
          PROVE  Rightful(c, act'[c], tree')
      <3>1. PICK j : j = Job(op, at, p, q, todo)
        OBVIOUS
      <3>2. j.at = at /\ j.op = op /\ act'[c] = j
        BY <2>0, <2>2, <3>1 DEF Job
      <3> QED BY <2>2, <3>2, NothingToRemove
    <2>3. ASSUME NEW j, Put(c, j), Rightful(c, j, tree), tree' = tree PROVE Rightful(c, act'[c], tree')
      BY <2>0, <2>3
    <2>4. CASE Chdir(c) \/ RNFR(c) \/ CreateFile(c) \/ Utimes(c) \/ CHOWN(c) \/ CHMOD(c) \/ UPDATE(c)
      BY <2>1, <2>4 DEF Chdir, RNFR, CreateFile, Utimes, CHOWN, CHMOD, UPDATE
    <2>5. CASE MKD(c) \/ NewBegin(c)
      BY <2>2, <2>5 DEF MKD, NewBegin
    <2>6. CASE RMD(c)
      <3>1. PICK p : MayRemoveDirectory(c, p) /\ Put(c, Removal(c, "RMD", "rmdir", p, Root, <<>>)) /\ tree' = tree
        BY <2>6 DEF RMD
      <3>2. RemovableIn(tree, c, p)
        BY <3>1, DirRight
      <3>3. Rightful(c, Removal(c, "RMD", "rmdir", p, Root, <<>>), tree)
        BY <3>2, RemovalIsRightful
      <3> QED BY <2>3, <3>1, <3>3
    <2>7. CASE DELE(c)
      <3>1. PICK p : Put(c, Removal(c, "DELE", "unlink", p, Root, <<>>)) /\ tree' = tree
        BY <2>7 DEF DELE
      <3>2. Rightful(c, Removal(c, "DELE", "unlink", p, Root, <<>>), tree)
        BY RemovalIsRightful
      <3> QED BY <2>3, <3>1, <3>2
    <2>8. CASE RNTO(c)
      <3>1. PICK p : p = from[c]
        OBVIOUS
      <3>2. PICK op : op = IF IsDir(p) THEN "RNTOdir" ELSE "RNTO"
        OBVIOUS
      <3>3. PICK q : \/ UNCHANGED act
                     \/ /\ IF IsDir(p) THEN DirAllowed("makedir", c, q) = "ok" ELSE FileAllowed("upload", c, q) = "ok"
                        /\ Put(c, Removal(c, op, "rename", p, q, <<>>)) /\ tree' = tree
        BY <2>8, <3>1, <3>2 DEF RNTO
      <3>4. CASE UNCHANGED act
        BY <2>1, <3>4
      <3>5. CASE /\ IF IsDir(p) THEN DirAllowed("makedir", c, q) = "ok" ELSE FileAllowed("upload", c, q) = "ok"
                 /\ Put(c, Removal(c, op, "rename", p, q, <<>>)) /\ tree' = tree
        <4>1. (op = "RNTO" => Replaceable(c, q, "upload")) /\ (op = "RNTOdir" => Replaceable(c, q, "makedir"))
          BY <3>2, <3>5, TargetRight DEF FileAllowed, DirAllowed
        <4>2. op # "WIPE"
          BY <3>2
        <4>3. Rightful(c, Removal(c, op, "rename", p, q, <<>>), tree)
          BY <4>1, <4>2, RemovalIsRightful
        <4> QED BY <2>3, <3>5, <4>3
      <3> QED BY <3>3, <3>4, <3>5
    <2>9. CASE WIPE(c)
      <3>1. PICK p \in Paths \ {Root}, star \in BOOLEAN :
              UNCHANGED act \/ (Put(c, Removal(c, "WIPE", "loop", p, Root, Visits(Glob(p, star)))) /\ tree' = tree)
        BY <2>9 DEF WIPE
      <3>2. PICK v : v = Visits(Glob(p, star))
        OBVIOUS
      <3>3. \A i \in DOMAIN v : IsPrefix(p, v[i].p)
        BY <3>2, VisitsBelow
      <3>4. Rightful(c, Removal(c, "WIPE", "loop", p, Root, v), tree)
        BY <3>3, RemovalIsRightful
      <3> QED BY <2>1, <2>3, <3>1, <3>2, <3>4
    <2> QED BY <2>4, <2>5, <2>6, <2>7, <2>8, <2>9
  <1> QED BY <1>1, <1>2, <1>4, SoloStep

\* What rename(2) replaces is nothing, or the new name alone.
LEMMA Replaced ==
  ASSUME FileAssumption, FileInv, NEW p \in Paths, NEW q \in Paths, CanRename(p, q), NEW x \in Subtree(q) \ Subtree(p)
  PROVE  x = q /\ x \in DOMAIN tree
PROOF
  <1>1. x \in DOMAIN tree /\ IsPrefix(q, x) /\ p # q
    BY DEF Subtree
  <1>2. PICK t : t = tree
    OBVIOUS
  <1>3. \A r \in DOMAIN t : ~(q \in DOMAIN t /\ r # Root /\ Dirname(r) = q)
    BY <1>1, <1>2 DEF CanRename, RenameWorks, Exists, Children
  <1>4. TreeOK(t) /\ x \in DOMAIN t
    BY <1>1, <1>2 DEF FileInv
  <1>5. x = q
    <2> SUFFICES ASSUME x # q PROVE FALSE
      OBVIOUS
    <2> QED BY <1>1, <1>3, <1>4, NoneBelow
  <1> QED BY <1>1, <1>5

\* A command that removes does not trespass.
LEMMA NoStepTrespasses ==
  ASSUME FileAssumption, FileInv, NEW c \in Clients, Rightful(c, act[c], tree), ~trespass,
         RemoveDirectory(c) \/ DeleteFile(c) \/ Rename(c) \/ WipeStep(c)
  PROVE  ~trespass'
PROOF
  <1>0. PICK j : j = act[c]
    OBVIOUS
  <1>1. JobInv(j) /\ Rightful(c, j, tree)
    BY <1>0, AtJob
  <1>2. PICK p \in Paths : p = j.p
    BY <1>1 DEF JobInv, JobShape
  <1>3. TreeOK(tree) /\ p \in Seq(Names) /\ IsPrefix(p, p)
    BY PathIsSeq, RebaseSelf DEF FileInv
  <1>4. CASE RemoveDirectory(c)
    <2>1. j.at = "rmdir" /\ j.op = "RMD"
      BY <1>0, <1>1, <1>4 DEF RemoveDirectory, JobInv, JobStage
    <2>2. RemovableIn(tree, c, p) /\ EntitledIn(tree, c, "RMD", p) \subseteq j.may
      BY <1>1, <1>2, <2>1 DEF Rightful
    <2>3. PICK P \in Unlinks(p) : Judge(c, P)
      BY <1>0, <1>2, <1>4 DEF RemoveDirectory, Unlink
    <2>4. ChildrenIn(tree, p) = Children(p)
      BY DEF Children, ChildrenIn
    <2>5. P = ChildrenIn(tree, p) \cup {p}
      <3>1. IsDir(p) /\ \A q \in Children(p) : IsFile(q)
        BY <2>2, <2>4 DEF RemovableIn, IsDir, IsFile, Exists, Children
      <3> QED BY <2>3, <2>4, <3>1 DEF Unlinks
    <2>6. P \subseteq j.may
      BY <1>3, <2>2, <2>5, DirEntitled
    <2> QED BY <1>0, <2>1, <2>3, <2>6, JudgedRight
  <1>5. CASE DeleteFile(c)
    <2>1. j.at = "unlink" /\ j.op = "DELE"
      BY <1>0, <1>1, <1>5 DEF DeleteFile, JobInv, JobStage
    <2>2. EntitledIn(tree, c, "DELE", p) \subseteq j.may /\ j.own = (OwnerIn(tree, p) = c)
      BY <1>1, <1>2, <2>1 DEF Rightful
    <2>3. UNCHANGED trespass \/ (MayDelete(c, p) /\ Judge(c, {p}))
      BY <1>0, <1>2, <1>5 DEF DeleteFile, Unlink
    <2>4. CASE MayDelete(c, p) /\ Judge(c, {p})
      <3>1. p \in EntitledIn(tree, c, "DELE", p)
        BY <1>3, <2>4, FileRight DEF EntitledIn
      <3>2. j.own = (Owner(p) = c)
        BY <2>2, EntitledNow
      <3> QED BY <1>0, <1>2, <2>2, <2>4, <3>1, <3>2, JudgedRight
    <2> QED BY <2>3, <2>4
  <1>6. CASE Rename(c)
    <2>1. j.at = "rename" /\ j.op \in {"RNTO", "RNTOdir"}
      BY <1>0, <1>1, <1>6 DEF Rename, JobInv, JobStage
    <2>2. PICK q \in Paths : q = j.q
      BY <1>1 DEF JobInv, JobShape
    <2>3. /\ EntitledIn(tree, c, j.op, q) \subseteq j.may
          /\ j.op = "RNTO" => Replaceable(c, q, "upload")
          /\ j.op = "RNTOdir" => Replaceable(c, q, "makedir")
      BY <1>1, <2>1, <2>2 DEF Rightful
    <2>4. PICK P : P = Subtree(q) \ Subtree(p)
      OBVIOUS
    <2>5. UNCHANGED trespass \/ (CanRename(p, q) /\ Judge(c, P))
      BY <1>0, <1>2, <1>6, <2>2, <2>4 DEF Rename
    <2>6. CASE CanRename(p, q) /\ Judge(c, P)
      <3>1. q \in Seq(Names) /\ IsPrefix(q, q)
        BY PathIsSeq, RebaseSelf
      <3>2. ASSUME NEW x \in P PROVE x \in EntitledIn(tree, c, j.op, q)
        <4>1. x = q /\ x \in DOMAIN tree
          BY <2>4, <2>6, Replaced
        <4> QED BY <2>1, <2>3, <3>1, <4>1 DEF EntitledIn
      <3>3. P \subseteq j.may
        BY <2>3, <3>2
      <3>4. j.op # "DELE"
        BY <2>1
      <3> QED BY <1>0, <2>6, <3>3, <3>4, JudgedRight
    <2> QED BY <2>5, <2>6
  <1>7. CASE WipeStep(c)
    <2>1. j.op = "WIPE" /\ j.at = "loop" /\ j.todo \in Seq(Entries) /\ j.todo # <<>>
      BY <1>0, <1>1, <1>7 DEF WipeStep, JobInv, JobShape, JobStage
    <2>2. EntitledIn(tree, c, "WIPE", p) \subseteq j.may /\ \A i \in DOMAIN j.todo : IsPrefix(p, j.todo[i].p)
      BY <1>1, <1>2, <2>1 DEF Rightful
    <2>3. PICK x : x = Head(j.todo).p
      OBVIOUS
    <2>4. x \in Paths /\ IsPrefix(p, x)
      <3>1. Head(j.todo) = j.todo[1] /\ 1 \in DOMAIN j.todo /\ Head(j.todo) \in Entries
        BY <2>1
      <3> QED BY <2>2, <2>3, <3>1 DEF Entries
    <2>5. \/ UNCHANGED trespass \/ (MayDelete(c, x) /\ Judge(c, {x}))
          \/ (MayRemoveDirectory(c, x) /\ Judge(c, Children(x) \cup {x}))
      BY <1>0, <1>7, <2>3 DEF WipeStep, Unlink
    <2>6. CASE MayDelete(c, x) /\ Judge(c, {x})
      <3>1. x \in EntitledIn(tree, c, "WIPE", p)
        BY <2>4, <2>6, FileRight DEF EntitledIn
      <3> QED BY <1>0, <2>1, <2>2, <2>6, <3>1, JudgedRight
    <2>7. CASE MayRemoveDirectory(c, x) /\ Judge(c, Children(x) \cup {x})
      <3>1. ChildrenIn(tree, x) = Children(x)
        BY DEF Children, ChildrenIn
      <3>2. RemovableIn(tree, c, x)
        BY <2>7, DirRight
      <3>3. Children(x) \cup {x} \subseteq EntitledIn(tree, c, "WIPE", p)
        BY <1>3, <2>4, <3>1, <3>2, DirEntitled
      <3> QED BY <1>0, <2>1, <2>2, <2>7, <3>3, JudgedRight
    <2> QED BY <2>5, <2>6, <2>7
  <1> QED BY <1>4, <1>5, <1>6, <1>7

\* WIPE keeps to the path it was given, and to the rights it began with.
LEMMA WipeStaysRightful ==
  ASSUME FileAssumption, FileInv, FileInv', NEW c \in Clients, Rightful(c, act[c], tree), WipeStep(c)
  PROVE  Rightful(c, act'[c], tree')
PROOF
  <1>1. PICK j : j = act[c]
    OBVIOUS
  <1>2. JobShape(j) /\ j.op = "WIPE" /\ j.at = "loop" /\ j.todo \in Seq(Entries) /\ j.todo # <<>> /\ NoRoot(j.todo)
    BY <1>1, AtJob DEF WipeStep, JobInv, JobShape, JobStage
  <1>3. PICK p \in Paths : p = j.p
    BY <1>2 DEF JobShape
  <1>4. EntitledIn(tree, c, "WIPE", p) \subseteq j.may /\ \A i \in DOMAIN j.todo : IsPrefix(p, j.todo[i].p)
    BY <1>1, <1>2, <1>3 DEF Rightful
  <1>5. PICK x : x = Head(j.todo).p
    OBVIOUS
  <1>6. PICK tail : tail = Tail(j.todo)
    OBVIOUS
  <1>7. x \in Paths /\ x # Root /\ IsPrefix(p, x) /\ tail \in Seq(Entries) /\ \A i \in DOMAIN tail : IsPrefix(p, tail[i].p)
    <2>1. Head(j.todo) = j.todo[1] /\ 1 \in DOMAIN j.todo /\ Head(j.todo) \in Entries /\ x # Root
      BY <1>2, <1>5, RestOfLoop
    <2>2. tail \in Seq(Entries) /\ \A i \in DOMAIN tail : tail[i] = j.todo[i + 1] /\ i + 1 \in DOMAIN j.todo
      BY <1>2, <1>6
    <2> QED BY <1>4, <1>5, <2>1, <2>2 DEF Entries
  <1>8. PICK w : w = WipeOrder(x)
    OBVIOUS
  <1>9. PICK m : m = WipeRmdir(x)
    OBVIOUS
  <1>10. PICK todo \in {tail, w \o tail, m \o tail} :
           Put(c, [j EXCEPT !.todo = todo]) \/ Put(c, [[j EXCEPT !.todo = todo] EXCEPT !.failed = 1])
    BY <1>1, <1>5, <1>6, <1>7, <1>8, <1>9 DEF WipeStep
  <1>11. PICK k : k = [j EXCEPT !.todo = todo]
    OBVIOUS
  <1>12. k = [op |-> j.op, at |-> j.at, p |-> j.p, q |-> j.q, todo |-> todo, failed |-> j.failed,
              own |-> j.own, may |-> j.may]
    BY <1>2, <1>11 DEF JobShape
  <1>13. act'[c] = k \/ act'[c] = [k EXCEPT !.failed = 1]
    BY <1>10, <1>11, PutOthers DEF FileInv
  <1>14. act'[c].op = "WIPE" /\ act'[c].at = "loop" /\ act'[c].p = p /\ act'[c].todo = todo /\ act'[c].may = j.may
    BY <1>2, <1>3, <1>12, <1>13
  <1>15. \A i \in DOMAIN todo : IsPrefix(p, todo[i].p)
    <2>1. ASSUME NEW y \in Paths, IsPrefix(x, y) PROVE IsPrefix(p, y)
      BY <1>7, <2>1, PathIsSeq, PrefixOfPrefix
    <2>2. m \in Seq(Entries) /\ \A i \in DOMAIN m : IsPrefix(p, m[i].p)
      <3>1. m \in Seq(Entries)
        BY <1>7, <1>9, WipeRmdirTyped
      <3>2. \A i \in DOMAIN m : m[i].p = x
        BY <1>9 DEF WipeRmdir
      <3> QED BY <1>7, <3>1, <3>2
    <2>3. w \in Seq(Entries) /\ \A i \in DOMAIN w : IsPrefix(p, w[i].p)
      <3>1. PICK v : v = Visits(Glob(x, TRUE))
        OBVIOUS
      <3>2. Glob(x, TRUE) \subseteq Paths /\ IsFiniteSet(Glob(x, TRUE))
        BY GlobInTree DEF FileInv
      <3>3. v \in Seq(Entries) /\ \A i \in DOMAIN v : v[i].p \in Paths
        BY <3>1, <3>2, VisitsTyped
      <3>4. \A i \in DOMAIN v : IsPrefix(p, v[i].p)
        BY <1>7, <2>1, <3>1, <3>3, VisitsBelow
      <3>5. w = v \o m
        BY <1>8, <1>9, <3>1 DEF WipeOrder
      <3> QED BY <2>2, <3>3, <3>4, <3>5, PrefixesJoined
    <2>4. \A i \in DOMAIN (w \o tail) : IsPrefix(p, (w \o tail)[i].p)
      BY <1>7, <2>3, PrefixesJoined
    <2>5. \A i \in DOMAIN (m \o tail) : IsPrefix(p, (m \o tail)[i].p)
      BY <1>7, <2>2, PrefixesJoined
    <2> QED BY <1>7, <1>10, <2>4, <2>5
  <1>16. EntitledIn(tree', c, "WIPE", p) \subseteq j.may
    <2>1. UNCHANGED tree \/ \E P : tree' = [q \in DOMAIN tree \ P |-> tree[q]]
      BY DEF WipeStep, Unlink, Unlinked
    <2>2. TreeOK(tree')
      BY DEF FileInv
    <2>3. EntitledIn(tree', c, "WIPE", p) \subseteq EntitledIn(tree, c, "WIPE", p)
      BY <2>1, <2>2, EntitledShrinks
    <2> QED BY <1>4, <2>3
  <1> QED BY <1>14, <1>15, <1>16 DEF Rightful

\* The later steps of a command keep the rights.
LEMMA SoloGoes ==
  ASSUME FileAssumption, FileInv, FileInv', SoloInv, NEW c \in Clients,
         \/ SetOwner(c) \/ IndexAdd(c) \/ RemoveDirectory(c) \/ IndexDelete(c) \/ DeleteFile(c) \/ Rename(c)
         \/ IndexSwap(c) \/ WipeStep(c) \/ WipeEnd(c) \/ NewStep(c)
  PROVE  SoloInv'
PROOF
  <1>1. GoesOn(c)
    BY Going
  <1>2. ASSUME ~mixed' PROVE ~trespass /\ Rightful(c, act[c], tree)
    BY <1>1, <1>2 DEF GoesOn, SoloInv
  <1>3. ASSUME ~mixed' PROVE ~trespass'
    <2>1. CASE SetOwner(c) \/ IndexAdd(c) \/ IndexDelete(c) \/ IndexSwap(c) \/ WipeEnd(c) \/ NewStep(c)
      BY <1>2, <1>3, <2>1 DEF SetOwner, IndexAdd, IndexDelete, IndexSwap, WipeEnd, NewStep
    <2> QED BY <1>2, <1>3, <2>1, NoStepTrespasses
  <1>4. ASSUME ~mixed' PROVE Rightful(c, act'[c], tree')
    <2>0. JobShape(act[c]) /\ JobStage(act[c])
      BY AtJob DEF JobInv
    <2>1. ASSUME NEW j, Put(c, j), j.at \notin {"rmdir", "unlink", "rename"}, j.op # "WIPE" PROVE Rightful(c, act'[c], tree')
      BY <2>1, PutOthers, NothingToRemove DEF FileInv
    <2>2. CASE Done(c)
      <3>1. Free.at = "" /\ Free.op = ""
        BY DEF Free, Job
      <3> QED BY <2>1, <2>2, <3>1 DEF Done
    <2>3. CASE SetOwner(c)
      BY <2>1, <2>2, <2>3 DEF SetOwner, Job
    <2>4. CASE IndexAdd(c) \/ IndexDelete(c) \/ DeleteFile(c) \/ WipeEnd(c)
      BY <2>2, <2>4 DEF IndexAdd, IndexDelete, DeleteFile, WipeEnd
    <2>5. CASE RemoveDirectory(c) \/ Rename(c) \/ IndexSwap(c)
      <3>1. PICK at \in {"del", "swap", "add"} : Put(c, [act[c] EXCEPT !.at = at]) \/ Done(c)
        BY <2>5 DEF RemoveDirectory, Rename, IndexSwap
      <3>2. act[c].op # "WIPE"
        BY <2>0, <2>5 DEF RemoveDirectory, Rename, IndexSwap, JobStage
      <3>3. PICK j : j = [act[c] EXCEPT !.at = at]
        OBVIOUS
      <3>4. j.at = at /\ j.op # "WIPE"
        BY <2>0, <3>2, <3>3 DEF JobShape
      <3> QED BY <2>1, <2>2, <3>1, <3>3, <3>4
    <2>6. CASE NewStep(c)
      <3>1. PICK todo : Put(c, [act[c] EXCEPT !.todo = todo]) \/ Done(c)
        BY <2>6 DEF NewStep
      <3>2. act[c].op = "NEW" /\ act[c].at = "loop"
        BY <2>0, <2>6 DEF NewStep, JobStage
      <3>3. PICK j : j = [act[c] EXCEPT !.todo = todo]
        OBVIOUS
      <3>4. j.at = "loop" /\ j.op = "NEW"
        BY <2>0, <3>2, <3>3 DEF JobShape
      <3> QED BY <2>1, <2>2, <3>1, <3>3, <3>4
    <2>7. CASE WipeStep(c)
      BY <1>2, <1>4, <2>7, WipeStaysRightful
    <2> QED BY <2>3, <2>4, <2>5, <2>6, <2>7
  <1> QED BY <1>1, <1>3, <1>4, SoloStep

\* Every step keeps the rights of commands that do not mix.
LEMMA SoloInvNext ==
  ASSUME FileAssumption, FileInv, SoloInv, [Next]_vars
  PROVE  SoloInv'
PROOF
  <1>1. CASE UNCHANGED vars \/ SetUmask
    <2>1. UNCHANGED <<tree, act, mixed, trespass>>
      BY <1>1 DEF vars, SetUmask, Keep
    <2> QED BY <2>1 DEF SoloInv, Solo
  <1>2. CASE \E c \in Clients :
         \/ Chdir(c) \/ MKD(c) \/ RMD(c) \/ DELE(c) \/ RNFR(c) \/ RNTO(c) \/ CreateFile(c) \/ Utimes(c)
         \/ WIPE(c) \/ CHOWN(c) \/ CHMOD(c) \/ UPDATE(c) \/ NewBegin(c)
    BY <1>2, SoloBegins
  <1>3. CASE \E c \in Clients :
         \/ SetOwner(c) \/ IndexAdd(c) \/ RemoveDirectory(c) \/ IndexDelete(c) \/ DeleteFile(c) \/ Rename(c)
         \/ IndexSwap(c) \/ WipeStep(c) \/ WipeEnd(c) \/ NewStep(c)
    BY <1>3, SoloGoes, FileInvNext
  <1> QED BY <1>1, <1>2, <1>3 DEF Next

\* They hold initially.
LEMMA SoloInvInit ==
  ASSUME Init
  PROVE  SoloInv
PROOF
  <1>1. ~mixed /\ ~trespass /\ \A c \in Clients : act[c] = Free
    BY DEF Init
  <1>2. \A c \in Clients : Rightful(c, Free, tree)
    BY FreeIsRightful
  <1> QED BY <1>1, <1>2 DEF SoloInv, Solo

-----------------------------------------------------------------------------
(* FileSystem: the index *)

DirsOf(t) == {p \in Indexed : p \in DOMAIN t /\ t[p].dir}
Pruned(todo, t) == \A i \in DOMAIN todo : todo[i].do = "prune" => todo[i].p \notin DOMAIN t

\* What is yet to be done to the index I, at each stage of a command, for it to name the
\* directories of the tree t.
IndexState(j, I, t) ==
  /\ j.at \in {"", "rmdir", "unlink", "rename", "loop"} => I = DirsOf(t)
  /\ j.at = "own" => j.p \in DOMAIN t /\ t[j.p].dir /\ I \cup (Indexed \cap {j.p}) = DirsOf(t)
  /\ j.at = "add" => I \cup {j.q} = DirsOf(t)
  /\ j.at = "del" => I \ {j.p} = DirsOf(t)
  /\ j.at = "swap" => (I \ {j.p}) \cup (Indexed \cap {j.q}) = DirsOf(t)
  /\ j.at = "rename" => /\ j.op = "RNTOdir" => j.p \in DOMAIN t /\ t[j.p].dir
                        /\ j.op # "RNTOdir" => j.p \in DOMAIN t /\ ~t[j.p].dir
  /\ j.op = "NEW" => Pruned(j.todo, t)

IndexInv ==
  /\ ~mixed /\ ~moved =>
       \A c \in Clients : (\A d \in Clients \ {c} : act[d] = Free) => IndexState(act[c], index, tree)
  /\ Clients = {} => index = DirsOf(tree)

\* Removing entries removes the indexed ones among them.
LEMMA UnlinkedDirs ==
  ASSUME NEW t, NEW P, NEW u, u = [q \in DOMAIN t \ P |-> t[q]]
  PROVE  DirsOf(u) = DirsOf(t) \ P
PROOF
  BY DEF DirsOf

\* A new entry adds itself if it is an indexed directory.
LEMMA MadeDirs ==
  ASSUME NEW t, NEW p, NEW n, NEW u, u = [q \in DOMAIN t \cup {p} |-> IF q = p THEN n ELSE t[q]]
  PROVE  /\ n.dir => DirsOf(u) = DirsOf(t) \cup (Indexed \cap {p})
         /\ ~n.dir /\ ~(p \in DOMAIN t /\ t[p].dir) => DirsOf(u) = DirsOf(t)
PROOF
  <1>1. DOMAIN u = DOMAIN t \cup {p} /\ u[p] = n /\ \A q \in DOMAIN t \ {p} : u[q] = t[q]
    OBVIOUS
  <1>2. ASSUME n.dir PROVE DirsOf(u) = DirsOf(t) \cup (Indexed \cap {p})
    BY <1>1, <1>2 DEF DirsOf
  <1>3. ASSUME ~n.dir, ~(p \in DOMAIN t /\ t[p].dir) PROVE DirsOf(u) = DirsOf(t)
    BY <1>1, <1>3 DEF DirsOf
  <1> QED BY <1>2, <1>3

\* A rename moves the indexed directories along.
LEMMA MovedDirs ==
  ASSUME FileAssumption, NEW t, TreeOK(t), NEW p \in Paths, NEW q \in Paths, p \in DOMAIN t,
         q \in DOMAIN t /\ p # q => t[p].dir = t[q].dir,
         p # q => \A r \in DOMAIN t : ~(q \in DOMAIN t /\ r # Root /\ Dirname(r) = q),
         \A r \in Go(t, p) : r # p => ~t[r].dir,
         NEW u, MovedTree(t, p, q, u)
  PROVE  /\ t[p].dir => DirsOf(u) = (DirsOf(t) \ {p}) \cup (Indexed \cap {q})
         /\ ~t[p].dir => DirsOf(u) = DirsOf(t)
PROOF
  <1>0. WhereMoved(t, p, q, u)
    BY MovedAt
  <1>1. p \in Seq(Names) /\ q \in Seq(Names)
    BY PathIsSeq
  <1>2. Rebase(p, q, p) = q /\ IsPrefix(p, p) /\ p \in Go(t, p)
    BY <1>1, RebaseSelf DEF Go
  <1>3. q \in DOMAIN u /\ u[q] = t[p] /\ q \notin Stay(t, p, q)
    BY <1>0, <1>2 DEF WhereMoved, Arrive
  <1>4. ASSUME NEW x \in DOMAIN u, u[x].dir PROVE (x \in DOMAIN t /\ t[x].dir /\ x # p) \/ (x = q /\ t[p].dir)
    <2>1. CASE x \in Stay(t, p, q)
      BY <1>0, <1>2, <1>4, <2>1 DEF WhereMoved, Stay
    <2>2. CASE x \in Arrive(t, p, q)
      <3>1. PICK s \in Go(t, p) : x = Rebase(p, q, s)
        BY <2>2 DEF Arrive
      <3>2. u[x] = t[s]
        BY <1>0, <3>1 DEF WhereMoved
      <3>3. s = p
        BY <1>4, <3>2
      <3> QED BY <1>2, <1>4, <3>1, <3>2, <3>3
    <2> QED BY <1>0, <2>1, <2>2 DEF WhereMoved
  <1>5. ASSUME NEW x \in DOMAIN t, t[x].dir, x # p PROVE x = q \/ (x \in DOMAIN u /\ u[x].dir)
    <2>1. ~IsPrefix(p, x)
      BY <1>5 DEF Go
    <2>2. CASE IsPrefix(q, x) /\ x # q
      <3>1. p # q
        BY <2>1, <2>2
      <3>2. \A r \in DOMAIN t : ~(q \in DOMAIN t /\ r # Root /\ Dirname(r) = q)
        BY <3>1
      <3> QED BY <2>2, <3>2, NoneBelow
    <2>3. CASE ~IsPrefix(q, x)
      <3>1. x \in Stay(t, p, q)
        BY <2>1, <2>3 DEF Stay
      <3> QED BY <1>0, <1>5, <3>1 DEF WhereMoved
    <2> QED BY <2>2, <2>3
  <1>6. ASSUME t[p].dir PROVE DirsOf(u) = (DirsOf(t) \ {p}) \cup (Indexed \cap {q})
    BY <1>3, <1>4, <1>5, <1>6 DEF DirsOf
  <1>7. ASSUME ~t[p].dir PROVE DirsOf(u) = DirsOf(t)
    <2>1. ~(q \in DOMAIN t /\ t[q].dir)
      BY <1>7
    <2> QED BY <1>4, <1>5, <1>7, <2>1 DEF DirsOf
  <1> QED BY <1>6, <1>7

\* Between commands an index that is the directories' is as it should be.
LEMMA FreeState ==
  ASSUME NEW I, NEW t, I = DirsOf(t)
  PROVE  IndexState(Free, I, t)
PROOF
  <1>1. Free.at = "" /\ Free.op = ""
    BY DEF Free, Job
  <1> QED BY <1>1 DEF IndexState

\* And only that one is.
LEMMA IdleState ==
  ASSUME NEW I, NEW t, IndexState(Free, I, t)
  PROVE  I = DirsOf(t)
PROOF
  <1>1. Free.at = "" /\ Free.op = ""
    BY DEF Free, Job
  <1> QED BY <1>1 DEF IndexState

\* At stages where the index is the tree's.
LEMMA PlainState ==
  ASSUME NEW j, NEW I, NEW t, j.at \in {"rmdir", "unlink", "loop"}, I = DirsOf(t), j.op = "NEW" => Pruned(j.todo, t)
  PROVE  IndexState(j, I, t)
PROOF
  BY DEF IndexState

\* Commands that change neither a directory nor the index.
LEMMA SameDirs ==
  ASSUME FileAssumption, FileInv, NEW c \in Clients, CreateFile(c) \/ Utimes(c) \/ CHOWN(c)
  PROVE  DirsOf(tree') = DirsOf(tree) /\ index' = index /\ UNCHANGED act
PROOF
  <1>1. index' = index /\ UNCHANGED act
    BY DEF CreateFile, Utimes, CHOWN
  <1>2. PICK t : t = tree
    OBVIOUS
  <1>3. PICK u : u = tree'
    OBVIOUS
  <1>4. ASSUME NEW p, NEW n, ~IsDir(p), ~n.dir, tree' = Make(p, n) PROVE DirsOf(u) = DirsOf(t)
    <2>1. u = [q \in DOMAIN t \cup {p} |-> IF q = p THEN n ELSE t[q]] /\ ~(p \in DOMAIN t /\ t[p].dir)
      BY <1>2, <1>3, <1>4 DEF Make, IsDir, Exists
    <2> QED BY <1>4, <2>1, MadeDirs
  <1>5. CASE CreateFile(c)
    <2>1. PICK p : ~IsDir(p) /\ tree' = Make(p, File(c))
      BY <1>5 DEF CreateFile
    <2>2. ~File(c).dir
      BY DEF File
    <2> QED BY <1>1, <1>2, <1>3, <1>4, <2>1, <2>2
  <1>6. CASE Utimes(c)
    <2>1. PICK p \in DOMAIN tree : IsFile(p) /\ tree' = Make(p, [tree[p] EXCEPT !.tag = 1 - tree[p].tag])
      BY <1>6 DEF Utimes
    <2>2. ~IsDir(p) /\ tree[p] \in Nodes /\ ~tree[p].dir
      BY <2>1 DEF IsFile, IsDir, FileInv, TreeOK, TreeTyped
    <2>3. PICK n : n = [tree[p] EXCEPT !.tag = 1 - tree[p].tag]
      OBVIOUS
    <2>4. ~n.dir
      BY <2>2, <2>3 DEF Nodes
    <2> QED BY <1>1, <1>2, <1>3, <1>4, <2>1, <2>2, <2>3, <2>4
  <1>7. CASE CHOWN(c)
    <2>1. PICK p \in DOMAIN tree, o \in Clients, r \in BOOLEAN :
            \/ UNCHANGED tree
            \/ tree' = [q \in DOMAIN tree |-> IF q = p \/ (r /\ Below(p, q)) THEN [tree[q] EXCEPT !.own = o] ELSE tree[q]]
      BY <1>7 DEF CHOWN
    <2>2. CASE UNCHANGED tree
      BY <1>1, <2>2
    <2>3. CASE tree' = [q \in DOMAIN tree |-> IF q = p \/ (r /\ Below(p, q)) THEN [tree[q] EXCEPT !.own = o] ELSE tree[q]]
      <3>1. ASSUME NEW q \in DOMAIN tree PROVE tree'[q].dir = tree[q].dir
        <4>1. PICK n \in Nodes : n = tree[q]
          BY DEF FileInv, TreeOK, TreeTyped
        <4>2. [n EXCEPT !.own = o].dir = n.dir
          BY DEF Nodes
        <4> QED BY <2>3, <4>1, <4>2
      <3>2. DOMAIN tree' = DOMAIN tree
        BY <2>3
      <3> QED BY <1>1, <3>1, <3>2 DEF DirsOf
    <2> QED BY <2>1, <2>2, <2>3
  <1> QED BY <1>5, <1>6, <1>7

\* A command that begins leaves the index with the tree, or knows what it owes.
LEMMA BeginsFollow ==
  ASSUME FileAssumption, FileInv, NEW c \in Clients, act[c] = Free, index = DirsOf(tree),
         \/ Chdir(c) \/ MKD(c) \/ RMD(c) \/ DELE(c) \/ RNFR(c) \/ RNTO(c) \/ CreateFile(c) \/ Utimes(c)
         \/ WIPE(c) \/ CHOWN(c) \/ CHMOD(c) \/ UPDATE(c) \/ NewBegin(c)
  PROVE  IndexState(act'[c], index', tree')
PROOF
  <1>0. ASSUME NEW j, Put(c, j) PROVE act'[c] = j
    BY <1>0, PutOthers DEF FileInv
  <1>1. CASE UNCHANGED act /\ index' = DirsOf(tree')
    BY <1>1, FreeState
  <1>2. CASE Chdir(c) \/ RNFR(c) \/ CHMOD(c)
    BY <1>1, <1>2 DEF Chdir, RNFR, CHMOD
  <1>3. CASE CreateFile(c) \/ Utimes(c) \/ CHOWN(c)
    BY <1>1, <1>3, SameDirs
  <1>4. CASE MKD(c)
    <2>1. PICK p \in Paths \ {Root} : ~Exists(p) /\ tree' = Make(p, Dir(0)) /\ Put(c, Job("MKD", "own", p, Root, <<>>))
      BY <1>4 DEF MKD
    <2>2. index' = index
      BY <1>4 DEF MKD
    <2>3. PICK t : t = tree
      OBVIOUS
    <2>4. PICK u : u = tree'
      OBVIOUS
    <2>5. PICK n : n = Dir(0)
      OBVIOUS
    <2>6. u = [q \in DOMAIN t \cup {p} |-> IF q = p THEN n ELSE t[q]] /\ n.dir
      BY <2>1, <2>3, <2>4, <2>5 DEF Make, Dir
    <2>7. DirsOf(u) = DirsOf(t) \cup (Indexed \cap {p}) /\ p \in DOMAIN u /\ u[p].dir
      BY <2>6, MadeDirs
    <2>8. PICK j : j = Job("MKD", "own", p, Root, <<>>)
      OBVIOUS
    <2>9. j.at = "own" /\ j.p = p /\ j.op = "MKD" /\ act'[c] = j
      BY <1>0, <2>1, <2>8 DEF Job
    <2> QED BY <2>2, <2>3, <2>4, <2>7, <2>9 DEF IndexState
  <1>5. CASE RMD(c) \/ DELE(c)
    <2>1. PICK p : Put(c, Removal(c, "RMD", "rmdir", p, Root, <<>>)) \/ Put(c, Removal(c, "DELE", "unlink", p, Root, <<>>))
      BY <1>5 DEF RMD, DELE
    <2>2. UNCHANGED <<tree, index>>
      BY <1>5 DEF RMD, DELE
    <2>3. act'[c].at \in {"rmdir", "unlink"} /\ act'[c].op # "NEW"
      BY <1>0, <2>1, RemovalFields
    <2> QED BY <2>2, <2>3, PlainState
  <1>6. CASE RNTO(c)
    <2>1. UNCHANGED <<tree, index>>
      BY <1>6 DEF RNTO
    <2>2. PICK p : p = from[c]
      OBVIOUS
    <2>3. PICK q \in Paths :
            \/ Exists(p) /\ Put(c, Removal(c, IF IsDir(p) THEN "RNTOdir" ELSE "RNTO", "rename", p, q, <<>>))
            \/ UNCHANGED act
      BY <1>6, <2>2 DEF RNTO
    <2>4. CASE UNCHANGED act
      BY <1>1, <2>1, <2>4
    <2>5. CASE Exists(p) /\ Put(c, Removal(c, IF IsDir(p) THEN "RNTOdir" ELSE "RNTO", "rename", p, q, <<>>))
      <3>1. act'[c].at = "rename" /\ act'[c].p = p /\ act'[c].op = IF IsDir(p) THEN "RNTOdir" ELSE "RNTO"
        BY <1>0, <2>5, RemovalFields
      <3>2. p \in DOMAIN tree /\ (IsDir(p) => tree[p].dir) /\ (~IsDir(p) => ~tree[p].dir)
        BY <2>5 DEF IsDir, Exists
      <3> QED BY <2>1, <3>1, <3>2 DEF IndexState
    <2> QED BY <2>3, <2>4, <2>5
  <1>7. CASE WIPE(c)
    <2>1. PICK p, todo : UNCHANGED act \/ Put(c, Removal(c, "WIPE", "loop", p, Root, todo))
      BY <1>7 DEF WIPE
    <2>2. UNCHANGED <<tree, index>>
      BY <1>7 DEF WIPE
    <2>3. CASE UNCHANGED act
      BY <1>1, <2>2, <2>3
    <2>4. CASE Put(c, Removal(c, "WIPE", "loop", p, Root, todo))
      <3>1. act'[c].at = "loop" /\ act'[c].op # "NEW"
        BY <1>0, <2>4, RemovalFields
      <3> QED BY <2>2, <3>1, PlainState
    <2> QED BY <2>1, <2>3, <2>4
  <1>8. CASE UPDATE(c)
    <2>1. PICK p \in DOMAIN tree, star \in BOOLEAN : index' = index \cup {q \in Glob(p, star) : q \in Indexed /\ IsDir(q)}
      BY <1>8 DEF UPDATE
    <2>2. {q \in Glob(p, star) : q \in Indexed /\ IsDir(q)} \subseteq DirsOf(tree)
      BY DEF DirsOf, IsDir, Exists
    <2>3. UNCHANGED <<tree, act>>
      BY <1>8 DEF UPDATE
    <2>4. index' = DirsOf(tree)
      BY <2>1, <2>2
    <2> QED BY <1>1, <2>3, <2>4
  <1>9. CASE NewBegin(c)
    <2>1. PICK I : I = index
      OBVIOUS
    <2>2. PICK v : v = Visits(I)
      OBVIOUS
    <2>3. I \subseteq Paths /\ IsFiniteSet(I)
      BY <2>1 DEF FileInv, IndexTypes, FileAssumption
    <2>4. \A i \in DOMAIN v : v[i].do = "visit"
      BY <2>2, <2>3, VisitsTyped
    <2>5. Put(c, Job("NEW", "loop", Root, Root, v)) /\ UNCHANGED <<tree, index>>
      BY <1>9, <2>1, <2>2 DEF NewBegin
    <2>6. act'[c].at = "loop" /\ act'[c].todo = v
      BY <1>0, <2>5 DEF Job
    <2>7. Pruned(v, tree')
      BY <2>4 DEF Pruned
    <2> QED BY <2>5, <2>6, <2>7, PlainState
  <1> QED BY <1>2, <1>3, <1>4, <1>5, <1>6, <1>7, <1>8, <1>9

\* So does the owner that is written.
LEMMA OwnerFollows ==
  ASSUME FileAssumption, FileInv, NEW c \in Clients, IndexState(act[c], index, tree), SetOwner(c)
  PROVE  IndexState(act'[c], index', tree')
PROOF
  <1>1. PICK p : p = act[c].p
    OBVIOUS
  <1>2. p \in DOMAIN tree /\ tree[p].dir /\ index \cup (Indexed \cap {p}) = DirsOf(tree) /\ index' = index
    BY <1>1 DEF SetOwner, IndexState
  <1>3. PICK t : t = tree
    OBVIOUS
  <1>4. PICK u : u = tree'
    OBVIOUS
  <1>5. PICK n : n = [t[p] EXCEPT !.own = c]
    OBVIOUS
  <1>6. t[p] \in Nodes /\ t[p].dir
    BY <1>2, <1>3 DEF FileInv, TreeOK, TreeTyped
  <1>7. n.dir
    BY <1>5, <1>6 DEF Nodes
  <1>8. u = [q \in DOMAIN t \cup {p} |-> IF q = p THEN n ELSE t[q]]
    BY <1>1, <1>2, <1>3, <1>4, <1>5 DEF SetOwner, Make, Exists
  <1>9. DirsOf(u) = DirsOf(t) \cup (Indexed \cap {p})
    BY <1>7, <1>8, MadeDirs
  <1>10. DirsOf(u) = DirsOf(t)
    BY <1>2, <1>3, <1>9
  <1>11. CASE p \in Indexed
    <2>1. Put(c, Job("MKD", "add", p, p, <<>>))
      BY <1>1, <1>11 DEF SetOwner
    <2>2. act'[c] = Job("MKD", "add", p, p, <<>>)
      BY <2>1, PutOthers DEF FileInv
    <2>3. act'[c].at = "add" /\ act'[c].q = p /\ act'[c].op = "MKD"
      BY <2>2 DEF Job
    <2>4. index' \cup {p} = DirsOf(tree')
      BY <1>2, <1>3, <1>4, <1>10, <1>11
    <2> QED BY <2>3, <2>4 DEF IndexState
  <1>12. CASE p \notin Indexed
    <2>1. Put(c, Free)
      BY <1>1, <1>12 DEF SetOwner, Done
    <2>2. act'[c] = Free
      BY <2>1, PutOthers DEF FileInv
    <2>3. index' = DirsOf(tree')
      BY <1>2, <1>3, <1>4, <1>10, <1>12
    <2> QED BY <2>2, <2>3, FreeState
  <1> QED BY <1>11, <1>12

\* A command that is done owes the index nothing.
LEMMA DoneFollows ==
  ASSUME FileInv, NEW c \in Clients, Done(c), index' = DirsOf(tree')
  PROVE  IndexState(act'[c], index', tree')
PROOF
  <1>1. act'[c] = Free
    BY PutOthers DEF Done, FileInv
  <1> QED BY <1>1, FreeState

\* The directories that are left after a removal.
LEMMA UnlinkedNow ==
  ASSUME NEW P, tree' = Unlinked(P)
  PROVE  DirsOf(tree') = DirsOf(tree) \ P
PROOF
  BY DEF Unlinked, DirsOf

\* A removed directory owes the index its removal.
LEMMA RemoveFollows ==
  ASSUME FileAssumption, FileInv, NEW c \in Clients, IndexState(act[c], index, tree), RemoveDirectory(c)
  PROVE  IndexState(act'[c], index', tree')
PROOF
  <1>1. PICK j : j = act[c]
    OBVIOUS
  <1>2. PICK p : p = j.p
    OBVIOUS
  <1>3. PICK P \in Unlinks(p) : /\ tree' = Unlinked(P)
                               /\ IF p \in P \cap Indexed THEN Put(c, [j EXCEPT !.at = "del"]) ELSE Done(c)
    BY <1>1, <1>2 DEF RemoveDirectory, Unlink
  <1>4. index = DirsOf(tree) /\ index' = index
    BY DEF RemoveDirectory, IndexState
  <1>5. \A q \in P : q = p \/ IsFile(q)
    BY <1>3 DEF Unlinks
  <1>6. DirsOf(tree') = DirsOf(tree) \ P
    BY <1>3, UnlinkedNow
  <1>7. \A q \in DirsOf(tree) : ~IsFile(q)
    BY DEF DirsOf, IsFile
  <1>8. CASE p \in P \cap Indexed
    <2>1. act'[c] = [j EXCEPT !.at = "del"]
      BY <1>3, <1>8, PutOthers DEF FileInv
    <2>2. JobShape(j) /\ JobStage(j) /\ j.at = "rmdir"
      BY <1>1, AtJob DEF JobInv, RemoveDirectory
    <2>3. j.op = "RMD"
      BY <2>2 DEF JobStage
    <2>4. act'[c].at = "del" /\ act'[c].p = p /\ act'[c].op = "RMD"
      BY <1>2, <2>1, <2>2, <2>3 DEF JobShape
    <2>5. DirsOf(tree') = index' \ {p}
      BY <1>4, <1>5, <1>6, <1>7, <1>8
    <2> QED BY <2>4, <2>5 DEF IndexState
  <1>9. CASE p \notin P \cap Indexed
    <2>1. DirsOf(tree') = index'
      <3>1. CASE p \in P
        <4>1. p \notin DirsOf(tree)
          BY <1>9, <3>1 DEF DirsOf
        <4> QED BY <1>4, <1>5, <1>6, <1>7, <4>1
      <3>2. CASE p \notin P
        BY <1>4, <1>5, <1>6, <1>7, <3>2
      <3> QED BY <3>1, <3>2
    <2> QED BY <1>3, <1>9, <2>1, DoneFollows
  <1> QED BY <1>8, <1>9

\* A renamed one owes the exchange, unless directories moved below it.
LEMMA RenameFollows ==
  ASSUME FileAssumption, FileInv, NEW c \in Clients, IndexState(act[c], index, tree), Rename(c), ~moved'
  PROVE  IndexState(act'[c], index', tree')
PROOF
  <1>1. PICK t : t = tree
    OBVIOUS
  <1>2. PICK u : u = tree'
    OBVIOUS
  <1>3. PICK j : j = act[c]
    OBVIOUS
  <1>4. JobShape(j) /\ j.at = "rename"
    BY <1>3, AtJob DEF Rename, JobInv
  <1>5. PICK p \in Paths : p = j.p
    BY <1>4 DEF JobShape
  <1>6. PICK q \in Paths : q = j.q
    BY <1>4 DEF JobShape
  <1>7. index = DirsOf(t) /\ index' = index
    BY <1>1, <1>3, <1>4 DEF Rename, IndexState
  <1>8. (j.op = "RNTOdir" => p \in DOMAIN t /\ t[p].dir) /\ (j.op # "RNTOdir" => p \in DOMAIN t /\ ~t[p].dir)
    BY <1>1, <1>3, <1>4, <1>5 DEF IndexState
  <1>9. CASE ~CanRename(p, q)
    <2>1. Done(c) /\ tree' = tree
      BY <1>3, <1>5, <1>6, <1>9 DEF Rename
    <2> QED BY <1>1, <1>7, <2>1, DoneFollows
  <1>10. CASE CanRename(p, q)
    <2>1. p \in DOMAIN t /\ (q \in DOMAIN t /\ p # q => t[p].dir = t[q].dir)
      BY <1>1, <1>10 DEF CanRename, RenameWorks, Exists
    <2>2. p # q => \A r \in DOMAIN t : ~(q \in DOMAIN t /\ r # Root /\ Dirname(r) = q)
      BY <1>1, <1>10 DEF CanRename, RenameWorks, Exists, Children
    <2>3. \A r \in Go(t, p) : r # p => ~t[r].dir
      BY <1>1, <1>3, <1>5, <1>6, <1>10 DEF Rename, Subtree, Go
    <2>4. tree' = Renamed(p, q)
      BY <1>3, <1>5, <1>6, <1>10 DEF Rename
    <2>5. DOMAIN tree \ (Subtree(p) \cup Subtree(q)) = Stay(t, p, q)
      BY <1>1 DEF Subtree, Stay
    <2>6. {Rebase(p, q, s) : s \in Subtree(p)} = Arrive(t, p, q)
      BY <1>1 DEF Subtree, Arrive, Go
    <2>7. MovedTree(t, p, q, u)
      BY <1>1, <1>2, <2>4, <2>5, <2>6 DEF Renamed, MovedTree
    <2>8. TreeOK(t)
      BY <1>1 DEF FileInv
    <2>9. /\ t[p].dir => DirsOf(u) = (DirsOf(t) \ {p}) \cup (Indexed \cap {q})
          /\ ~t[p].dir => DirsOf(u) = DirsOf(t)
      BY <2>1, <2>2, <2>3, <2>7, <2>8, MovedDirs
    <2>10. CASE j.op = "RNTOdir"
      <3>1. Put(c, [j EXCEPT !.at = "swap"])
        BY <1>3, <1>5, <1>6, <1>10, <2>10 DEF Rename
      <3>2. act'[c] = [j EXCEPT !.at = "swap"]
        BY <3>1, PutOthers DEF FileInv
      <3>3. act'[c].at = "swap" /\ act'[c].p = p /\ act'[c].q = q /\ act'[c].op = "RNTOdir"
        BY <1>4, <1>5, <1>6, <2>10, <3>2 DEF JobShape
      <3>4. (index' \ {p}) \cup (Indexed \cap {q}) = DirsOf(tree')
        BY <1>2, <1>7, <1>8, <2>9, <2>10
      <3> QED BY <3>3, <3>4 DEF IndexState
    <2>11. CASE j.op # "RNTOdir"
      <3>1. Done(c)
        BY <1>3, <2>11 DEF Rename
      <3> QED BY <1>2, <1>7, <1>8, <2>9, <2>11, <3>1, DoneFollows
    <2> QED BY <2>10, <2>11
  <1> QED BY <1>9, <1>10

\* The exchange pays it.
LEMMA SwapFollows ==
  ASSUME FileAssumption, FileInv, NEW c \in Clients, IndexState(act[c], index, tree), IndexSwap(c)
  PROVE  IndexState(act'[c], index', tree')
PROOF
  <1>1. PICK j : j = act[c]
    OBVIOUS
  <1>2. JobInv(j) /\ j.op \in {"RNTO", "RNTOdir"} /\ j.at = "swap"
    BY <1>1, AtJob DEF IndexSwap, JobInv, JobStage
  <1>3. (index \ {j.p}) \cup (Indexed \cap {j.q}) = DirsOf(tree) /\ tree' = tree
    BY <1>1, <1>2 DEF IndexSwap, IndexState
  <1>4. index' = index \ {j.p}
    BY <1>1 DEF IndexSwap, FileInv, IndexTypes
  <1>5. CASE j.q \in Indexed
    <2>1. Put(c, [j EXCEPT !.at = "add"])
      BY <1>1, <1>5 DEF IndexSwap
    <2>2. act'[c] = [j EXCEPT !.at = "add"]
      BY <2>1, PutOthers DEF FileInv
    <2>3. act'[c].at = "add" /\ act'[c].q = j.q /\ act'[c].op # "NEW"
      BY <1>2, <2>2 DEF JobInv, JobShape
    <2>4. index' \cup {j.q} = DirsOf(tree')
      BY <1>3, <1>4, <1>5
    <2> QED BY <2>3, <2>4 DEF IndexState
  <1>6. CASE j.q \notin Indexed
    <2>1. Done(c)
      BY <1>1, <1>6 DEF IndexSwap
    <2>2. index' = DirsOf(tree')
      BY <1>3, <1>4, <1>6
    <2> QED BY <2>1, <2>2, DoneFollows
  <1> QED BY <1>5, <1>6

\* WIPE owes the index at most the directory that it has just removed.
LEMMA WipeFollows ==
  ASSUME FileAssumption, FileInv, NEW c \in Clients, IndexState(act[c], index, tree), WipeStep(c)
  PROVE  IndexState(act'[c], index', tree')
PROOF
  <1>1. PICK j : j = act[c]
    OBVIOUS
  <1>2. JobShape(j) /\ j.op = "WIPE" /\ j.at = "loop"
    BY <1>1, AtJob DEF WipeStep, JobInv, JobStage
  <1>3. index = DirsOf(tree)
    BY <1>1, <1>2 DEF IndexState
  <1>4. PICK todo : Put(c, [j EXCEPT !.todo = todo]) \/ Put(c, [[j EXCEPT !.todo = todo] EXCEPT !.failed = 1])
    BY <1>1 DEF WipeStep
  <1>5. PICK k : k = [j EXCEPT !.todo = todo]
    OBVIOUS
  <1>6. k = [op |-> j.op, at |-> j.at, p |-> j.p, q |-> j.q, todo |-> todo, failed |-> j.failed,
             own |-> j.own, may |-> j.may]
    BY <1>2, <1>5 DEF JobShape
  <1>7. act'[c] = k \/ act'[c] = [k EXCEPT !.failed = 1]
    BY <1>4, <1>5, PutOthers DEF FileInv
  <1>8. act'[c].at = "loop" /\ act'[c].op # "NEW"
    BY <1>2, <1>6, <1>7
  <1>9. PICK p : p = Head(j.todo).p
    OBVIOUS
  <1>10. \/ UNCHANGED <<tree, index>>
         \/ IsFile(p) /\ tree' = Unlinked({p}) /\ index' = index
         \/ MayRemoveDirectory(c, p) /\ tree' = Unlinked(Children(p) \cup {p}) /\ index' = index \ (Indexed \cap {p})
    BY <1>1, <1>9 DEF WipeStep, MayDelete, Unlink
  <1>11. index' = DirsOf(tree')
    <2>1. CASE UNCHANGED <<tree, index>>
      BY <1>3, <2>1
    <2>2. CASE IsFile(p) /\ tree' = Unlinked({p}) /\ index' = index
      <3>1. DirsOf(tree') = DirsOf(tree) \ {p} /\ p \notin DirsOf(tree)
        BY <2>2, UnlinkedNow DEF IsFile, DirsOf
      <3> QED BY <1>3, <2>2, <3>1
    <2>3. CASE MayRemoveDirectory(c, p) /\ tree' = Unlinked(Children(p) \cup {p}) /\ index' = index \ (Indexed \cap {p})
      <3>1. DirsOf(tree') = DirsOf(tree) \ (Children(p) \cup {p})
        BY <2>3, UnlinkedNow
      <3>2. \A q \in Children(p) : q \notin DirsOf(tree)
        BY <2>3 DEF MayRemoveDirectory, DirsOf, IsDir, Exists
      <3>3. DirsOf(tree) \subseteq Indexed
        BY DEF DirsOf
      <3> QED BY <1>3, <2>3, <3>1, <3>2, <3>3
    <2> QED BY <1>10, <2>1, <2>2, <2>3
  <1> QED BY <1>8, <1>11, PlainState

\* The listing of new directories removes from the index only what is gone.
LEMMA NewFollows ==
  ASSUME FileAssumption, FileInv, NEW c \in Clients, IndexState(act[c], index, tree), NewStep(c)
  PROVE  IndexState(act'[c], index', tree')
PROOF
  <1>1. PICK j : j = act[c]
    OBVIOUS
  <1>2. JobShape(j) /\ j.op = "NEW" /\ j.at = "loop" /\ j.todo \in Seq(Entries)
    BY <1>1, AtJob DEF NewStep, JobInv, JobShape, JobStage
  <1>3. index = DirsOf(tree) /\ Pruned(j.todo, tree) /\ tree' = tree
    BY <1>1, <1>2 DEF IndexState, NewStep
  <1>4. CASE j.todo = <<>>
    <2>1. Done(c) /\ index' = index
      BY <1>1, <1>4 DEF NewStep
    <2> QED BY <1>3, <2>1, DoneFollows
  <1>5. CASE j.todo # <<>>
    <2>1. PICK e : e = Head(j.todo)
      OBVIOUS
    <2>2. PICK tail : tail = Tail(j.todo)
      OBVIOUS
    <2>3. tail \in Seq(Entries) /\ Pruned(tail, tree) /\ (e.do = "prune" => e.p \notin DOMAIN tree)
      <3>1. Len(j.todo) \in Nat \ {0} /\ DOMAIN j.todo = 1 .. Len(j.todo)
        BY <1>2, <1>5
      <3>2. e = j.todo[1] /\ 1 \in DOMAIN j.todo
        BY <1>2, <1>5, <2>1, <3>1
      <3>3. tail \in Seq(Entries) /\ \A i \in DOMAIN tail : tail[i] = j.todo[i + 1] /\ i + 1 \in DOMAIN j.todo
        BY <1>2, <1>5, <2>2, <3>1
      <3> QED BY <1>3, <3>2, <3>3 DEF Pruned
    <2>4. PICK again : again = <<[do |-> "prune", p |-> e.p]>> \o tail
      OBVIOUS
    <2>5. e.p \notin DOMAIN tree => Pruned(again, tree)
      <3>1. PICK w : w = <<[do |-> "prune", p |-> e.p]>>
        OBVIOUS
      <3>2. e \in Entries
        BY <1>2, <1>5, <2>1, RestOfLoop
      <3>3. w \in Seq(Entries) /\ Len(w) = 1 /\ w[1].p = e.p
        BY <3>1, <3>2 DEF Entries
      <3>4. again \in Seq(Entries) /\ Len(again) = 1 + Len(tail) /\ Len(tail) \in Nat
        BY <2>3, <2>4, <3>1, <3>3, ConcatProperties
      <3>5. ASSUME NEW i \in DOMAIN again PROVE again[i].p = e.p \/ (i - 1 \in DOMAIN tail /\ again[i] = tail[i - 1])
        <4>1. i \in 1 .. 1 + Len(tail)
          BY <3>4
        <4>2. CASE i = 1
          BY <2>3, <2>4, <3>1, <3>3, <4>2, ConcatProperties
        <4>3. CASE i > 1
          BY <2>3, <2>4, <3>1, <3>3, <3>4, <4>1, <4>3, ConcatProperties
        <4> QED BY <3>4, <4>1, <4>2, <4>3
      <3> QED BY <2>3, <3>5 DEF Pruned
    <2>6. \/ Put(c, [j EXCEPT !.todo = tail]) /\ index' = index
          \/ Put(c, [j EXCEPT !.todo = again]) /\ index' = index /\ e.p \notin DOMAIN tree
          \/ Put(c, [j EXCEPT !.todo = tail]) /\ index' = index \ {e.p} /\ e.do = "prune"
      BY <1>1, <1>5, <2>1, <2>2, <2>4 DEF NewStep, Exists
    <2>7. index' = DirsOf(tree')
      BY <1>3, <2>3, <2>6 DEF DirsOf
    <2>8. ASSUME NEW todo, Put(c, [j EXCEPT !.todo = todo]), Pruned(todo, tree) PROVE IndexState(act'[c], index', tree')
      <3>1. act'[c] = [j EXCEPT !.todo = todo]
        BY <2>8, PutOthers DEF FileInv
      <3>2. act'[c].at = "loop" /\ act'[c].todo = todo
        BY <1>2, <3>1 DEF JobShape
      <3> QED BY <1>3, <2>7, <2>8, <3>2, PlainState
    <2> QED BY <2>3, <2>5, <2>6, <2>8
  <1> QED BY <1>4, <1>5

\* The steps that end a command.
LEMMA EndsFollow ==
  ASSUME FileAssumption, FileInv, NEW c \in Clients, IndexState(act[c], index, tree),
         IndexAdd(c) \/ IndexDelete(c) \/ DeleteFile(c) \/ WipeEnd(c)
  PROVE  IndexState(act'[c], index', tree')
PROOF
  <1>1. Done(c)
    BY DEF IndexAdd, IndexDelete, DeleteFile, WipeEnd
  <1>2. CASE IndexAdd(c)
    <2>1. index' = DirsOf(tree')
      BY <1>2 DEF IndexAdd, IndexState
    <2> QED BY <1>1, <2>1, DoneFollows
  <1>3. CASE IndexDelete(c)
    <2>1. index' = DirsOf(tree')
      BY <1>3 DEF IndexDelete, IndexState
    <2> QED BY <1>1, <2>1, DoneFollows
  <1>4. CASE DeleteFile(c)
    <2>1. index = DirsOf(tree) /\ index' = index
      BY <1>4 DEF DeleteFile, IndexState
    <2>2. PICK p : p = act[c].p
      OBVIOUS
    <2>3. (IsFile(p) /\ tree' = Unlinked({p})) \/ tree' = tree
      BY <1>4, <2>2 DEF DeleteFile, MayDelete, Unlink
    <2>4. DirsOf(tree') = DirsOf(tree)
      <3>1. CASE IsFile(p) /\ tree' = Unlinked({p})
        <4>1. DirsOf(tree') = DirsOf(tree) \ {p} /\ p \notin DirsOf(tree)
          BY <3>1, UnlinkedNow DEF IsFile, DirsOf
        <4> QED BY <4>1
      <3>2. CASE tree' = tree
        BY <3>2
      <3> QED BY <2>3, <3>1, <3>2
    <2> QED BY <1>1, <2>1, <2>4, DoneFollows
  <1>5. CASE WipeEnd(c)
    <2>1. act[c].at = "loop"
      BY <1>5, AtJob DEF WipeEnd, JobInv, JobStage
    <2>2. index' = DirsOf(tree')
      BY <1>5, <2>1 DEF WipeEnd, IndexState
    <2> QED BY <1>1, <2>2, DoneFollows
  <1> QED BY <1>2, <1>3, <1>4, <1>5

\* A directory that holds others is never forgotten to have been renamed.
LEMMA MovedStays ==
  ASSUME NEW c \in Clients, ~moved',
         \/ SetOwner(c) \/ IndexAdd(c) \/ RemoveDirectory(c) \/ IndexDelete(c) \/ DeleteFile(c) \/ Rename(c)
         \/ IndexSwap(c) \/ WipeStep(c) \/ WipeEnd(c) \/ NewStep(c)
  PROVE  ~moved
PROOF
  BY DEF Quiet, SetOwner, IndexAdd, RemoveDirectory, IndexDelete, DeleteFile, Rename, IndexSwap, WipeStep, WipeEnd, NewStep

\* The client that acts alone: what holds of its command holds of the index.
LEMMA AloneFollows ==
  ASSUME FileInv, SoloInv, NEW c \in Clients, Begins(c) \/ GoesOn(c), ~mixed', IndexState(act'[c], index', tree')
  PROVE  IndexInv'
PROOF
  <1>1. \A d \in Clients \ {c} : act'[d] = Free
    BY ActsAlone
  <1>2. ASSUME NEW d \in Clients, \A e \in Clients \ {d} : act'[e] = Free PROVE IndexState(act'[d], index', tree')
    <2>1. CASE d = c
      BY <2>1
    <2>2. CASE d # c
      <3>1. act'[d] = act'[c]
        BY <1>1, <1>2, <2>2
      <3> QED BY <3>1
    <2> QED BY <2>1, <2>2
  <1>3. Clients # {}
    OBVIOUS
  <1>4. \A d \in Clients : (\A e \in Clients \ {d} : act'[e] = Free) => IndexState(act'[d], index', tree')
    BY <1>2
  <1>5. (~mixed /\ ~moved => \A d \in Clients : (\A e \in Clients \ {d} : act[e] = Free) => IndexState(act[d], index, tree))'
    BY <1>4 DEF IndexState, DirsOf, Pruned
  <1> QED BY <1>3, <1>5 DEF IndexInv

\* Every step keeps the index with the tree but for what is owed.
LEMMA IndexInvNext ==
  ASSUME FileAssumption, FileInv, SoloInv, IndexInv, [Next]_vars
  PROVE  IndexInv'
PROOF
  <1>1. CASE UNCHANGED vars \/ SetUmask
    <2>1. UNCHANGED <<tree, index, act, mixed, moved>>
      BY <1>1 DEF vars, SetUmask, Keep
    <2>2. (\A c \in Clients : (\A d \in Clients \ {c} : act[d] = Free) => IndexState(act[c], index, tree))
          => (\A c \in Clients : (\A d \in Clients \ {c} : act[d] = Free) => IndexState(act[c], index, tree))'
      <3> SUFFICES ASSUME NEW c \in Clients, IndexState(act[c], index, tree) PROVE IndexState(act[c], index, tree)'
        BY <2>1 DEF Free, Job
      <3> QED BY <2>1 DEF IndexState, DirsOf, Pruned
    <2>3. DirsOf(tree)' = DirsOf(tree)
      BY <2>1 DEF DirsOf
    <2> QED BY <2>1, <2>2, <2>3 DEF IndexInv
  <1>2. ASSUME NEW c \in Clients, mixed' \/ moved' PROVE IndexInv'
    <2>1. Clients # {}
      BY <1>2
    <2>2. (~mixed /\ ~moved => \A d \in Clients : (\A e \in Clients \ {d} : act[e] = Free) => IndexState(act[d], index, tree))'
      BY <1>2
    <2> QED BY <2>1, <2>2 DEF IndexInv
  <1>3. ASSUME NEW c \in Clients,
         \/ Chdir(c) \/ MKD(c) \/ RMD(c) \/ DELE(c) \/ RNFR(c) \/ RNTO(c) \/ CreateFile(c) \/ Utimes(c)
         \/ WIPE(c) \/ CHOWN(c) \/ CHMOD(c) \/ UPDATE(c) \/ NewBegin(c)
        PROVE IndexInv'
    <2> SUFFICES ASSUME ~mixed', ~moved' PROVE IndexInv'
      BY <1>2
    <2>1. Begins(c)
      BY <1>3, Beginning
    <2>2. ~mixed /\ \A d \in Clients \ {c} : act[d] = Free
      BY <2>1, ActsAlone
    <2>3. ~moved /\ act[c] = Free
      BY <2>1 DEF Begins
    <2>4. IndexState(act[c], index, tree)
      BY <2>2, <2>3 DEF IndexInv
    <2>5. index = DirsOf(tree)
      BY <2>3, <2>4, IdleState
    <2>6. IndexState(act'[c], index', tree')
      BY <1>3, <2>3, <2>5, BeginsFollow
    <2> QED BY <2>1, <2>6, AloneFollows
  <1>4. ASSUME NEW c \in Clients,
         \/ SetOwner(c) \/ IndexAdd(c) \/ RemoveDirectory(c) \/ IndexDelete(c) \/ DeleteFile(c) \/ Rename(c)
         \/ IndexSwap(c) \/ WipeStep(c) \/ WipeEnd(c) \/ NewStep(c)
        PROVE IndexInv'
    <2> SUFFICES ASSUME ~mixed', ~moved' PROVE IndexInv'
      BY <1>2
    <2>1. GoesOn(c)
      BY <1>4, Going
    <2>2. ~mixed /\ \A d \in Clients \ {c} : act[d] = Free
      BY <2>1, ActsAlone
    <2>3. ~moved
      BY <1>4, MovedStays
    <2>4. IndexState(act[c], index, tree)
      BY <2>2, <2>3 DEF IndexInv
    <2>5. IndexState(act'[c], index', tree')
      BY <1>4, <2>4, OwnerFollows, RemoveFollows, RenameFollows, SwapFollows, WipeFollows, NewFollows, EndsFollow
    <2> QED BY <2>1, <2>5, AloneFollows
  <1> QED BY <1>1, <1>3, <1>4 DEF Next

\* It is initially.
LEMMA IndexInvInit ==
  ASSUME Init
  PROVE  IndexInv
PROOF
  <1>1. \A p \in DOMAIN tree : tree[p] = IF p \in FirstDirs THEN Dir(0) ELSE File(Stored[p])
    BY DEF Init
  <1>2. Dir(0).dir /\ \A c : ~File(c).dir
    BY DEF Dir, File
  <1>3. index = DirsOf(tree)
    BY <1>1, <1>2 DEF Init, DirsOf
  <1>4. \A c \in Clients : act[c] = Free
    BY DEF Init
  <1> QED BY <1>3, <1>4, FreeState DEF IndexInv

\* For any number of clients and any settings: the tree stays a tree, and between commands
\* that did not overlap the index names exactly the indexed directories, unless a directory
\* that holds others was renamed.
THEOREM IndexIsExact == FileAssumption => (Spec => []IndexSound)
PROOF
  <1> SUFFICES ASSUME FileAssumption PROVE Spec => []IndexSound
    OBVIOUS
  <1> DEFINE I == FileInv /\ SoloInv /\ IndexInv
  <1>1. Init => I
    BY FileInvInit, SoloInvInit, IndexInvInit
  <1>2. I /\ [Next]_vars => I'
    BY FileInvNext, SoloInvNext, IndexInvNext
  <1>3. I => IndexSound
    <2> SUFFICES ASSUME I PROVE IndexSound
      OBVIOUS
    <2>1. TypeOK
      BY FileInvTypes
    <2>2. ASSUME ~mixed, ~moved, \A c \in Clients : act[c] = Free PROVE index = DirsOf(tree)
      <3>1. CASE Clients = {}
        BY <3>1 DEF IndexInv
      <3>2. CASE Clients # {}
        <4>1. PICK c \in Clients : TRUE
          BY <3>2
        <4>2. IndexState(Free, index, tree)
          BY <2>2, <4>1 DEF IndexInv
        <4> QED BY <4>2, IdleState
      <3> QED BY <3>1, <3>2
    <2>3. DirsOf(tree) = {p \in Indexed : IsDir(p)}
      BY DEF DirsOf, IsDir, Exists
    <2> QED BY <2>1, <2>2, <2>3 DEF IndexSound, IndexFollows
  <1> QED BY <1>1, <1>2, <1>3, PTL DEF Spec

-----------------------------------------------------------------------------
(* FileSystem: the listings *)

\* The names of q below the depth n may be shown.
NamesShown(q, n, all) == \A i \in n + 1 .. Len(q) : all \/ q[i] \notin Dotted
\* The client may look into every directory from the depth n down to q.
MayLook(c, q, n) == \A i \in n .. Len(q) - 1 : DirAllowed("view", c, SubSeq(q, 1, i)) = "ok"
\* What a listing of p may show at any depth, and the directories it opens for it.
ShownBelow(c, p, all, q) ==
  /\ q \in DOMAIN tree /\ Below(p, q) /\ NamesShown(q, Len(p), all)
  /\ MayLook(c, q, Len(p)) /\ Allowed("view", c, q) = "ok"
OpenedBelow(c, p, all, s) == s = p \/ (ShownBelow(c, p, all, s) /\ IsDir(s))

\* A path and the directory above it.
LEMMA AbovePath ==
  ASSUME NEW q \in Seq(Names), q # Root, NEW s, s = Dirname(q)
  PROVE  /\ s \in Seq(Names) /\ Len(s) \in Nat /\ Len(q) = Len(s) + 1 /\ SubSeq(q, 1, Len(s)) = s
         /\ \A i \in 1 .. Len(s) : q[i] = s[i]
         /\ \A i \in 0 .. Len(s) : SubSeq(q, 1, i) = SubSeq(s, 1, i)
         /\ Basename(q) = q[Len(q)]
PROOF
  <1>0. /\ s \in Seq(Names) /\ Len(s) = Len(q) - 1 /\ Len(q) >= 1
        /\ \A i \in 1 .. Len(q) - 1 : s[i] = q[i]
    BY ParentFacts
  <1>1. s \in Seq(Names) /\ Len(s) \in Nat /\ Len(q) = Len(s) + 1 /\ \A i \in 1 .. Len(s) : q[i] = s[i]
    <2>1. Len(s) \in Nat /\ Len(q) \in Nat
      BY <1>0
    <2> QED BY <1>0, <2>1
  <1>2. ASSUME NEW i \in 0 .. Len(s) PROVE SubSeq(q, 1, i) = SubSeq(s, 1, i)
    <2>1. i \in Nat /\ i <= Len(s) /\ i <= Len(q)
      BY <1>1
    <2>2. SubSeq(q, 1, i) \in Seq(Names) /\ Len(SubSeq(q, 1, i)) = i /\ \A k \in 1 .. i : SubSeq(q, 1, i)[k] = q[k]
      BY <1>1, <2>1
    <2>3. SubSeq(s, 1, i) \in Seq(Names) /\ Len(SubSeq(s, 1, i)) = i /\ \A k \in 1 .. i : SubSeq(s, 1, i)[k] = s[k]
      BY <1>1, <2>1
    <2>4. \A k \in 1 .. i : SubSeq(q, 1, i)[k] = SubSeq(s, 1, i)[k]
      BY <1>1, <2>1, <2>2, <2>3
    <2> QED BY <2>2, <2>3, <2>4, SeqEqual
  <1>3. SubSeq(s, 1, Len(s)) = s
    BY <1>1, SubSeqFull
  <1>4. SubSeq(q, 1, Len(s)) = s
    BY <1>1, <1>2, <1>3
  <1>5. Basename(q) = q[Len(q)]
    BY DEF Basename, Last
  <1> QED BY <1>1, <1>2, <1>4, <1>5

\* A file or directory is shown exactly when the directory above it is opened, the client
\* may look into that one, and the name and the rights on it allow it.
LEMMA ShownFromAbove ==
  ASSUME FileAssumption, FileInv, NEW c, NEW p \in Paths, NEW all \in BOOLEAN, NEW q \in DOMAIN tree
  PROVE  ShownBelow(c, p, all, q) <=>
           /\ q # Root /\ OpenedBelow(c, p, all, Dirname(q))
           /\ DirAllowed("view", c, Dirname(q)) = "ok" /\ Allowed("view", c, q) = "ok"
           /\ all \/ Basename(q) \notin Dotted
PROOF
  <1>1. p \in Seq(Names) /\ q \in Seq(Names)
    BY PathIsSeq, InTree DEF FileInv
  <1>2. CASE q = Root
    <2>1. ~Below(p, q)
      <3>1. CASE p = Root
        BY <1>2, <3>1 DEF Below
      <3>2. CASE p # Root
        BY <1>1, <1>2, <3>2, NothingAboveRoot DEF Below
      <3> QED BY <3>1, <3>2
    <2> QED BY <1>2, <2>1 DEF ShownBelow
  <1>3. CASE q # Root
    <2>1. PICK s : s = Dirname(q)
      OBVIOUS
    <2>2. /\ s \in Seq(Names) /\ Len(s) \in Nat /\ Len(q) = Len(s) + 1 /\ SubSeq(q, 1, Len(s)) = s
          /\ \A i \in 1 .. Len(s) : q[i] = s[i]
          /\ \A i \in 0 .. Len(s) : SubSeq(q, 1, i) = SubSeq(s, 1, i)
          /\ Basename(q) = q[Len(q)]
      BY <1>1, <1>3, <2>1, AbovePath
    <2>3. Below(p, q) <=> IsPrefix(p, s)
      BY <1>1, <1>3, <2>1, PrefixOfParent DEF Below
    <2>4. s \in DOMAIN tree /\ IsDir(s)
      BY <2>1 DEF FileInv, TreeOK, TreeClosed, IsDir, Exists
    <2>5. Allowed("view", c, s) = DirAllowed("view", c, s)
      <3>1. tree[s] \in Nodes
        BY <2>4 DEF FileInv, TreeOK, TreeTyped
      <3>2. IsDir(s) = TRUE
        BY <2>4, <3>1 DEF IsDir, Exists, Nodes
      <3> QED BY <3>2 DEF Allowed, DirAllowed
    <2>6. ASSUME NEW n \in Nat, n <= Len(s)
          PROVE  /\ NamesShown(q, n, all) <=> NamesShown(s, n, all) /\ (all \/ Basename(q) \notin Dotted)
                 /\ MayLook(c, q, n) <=> MayLook(c, s, n) /\ DirAllowed("view", c, s) = "ok"
      <3>1. n + 1 .. Len(q) = (n + 1 .. Len(s)) \cup {Len(q)} /\ \A i \in n + 1 .. Len(s) : i \in 1 .. Len(s)
        BY <2>2, <2>6
      <3>2. n .. Len(q) - 1 = (n .. Len(s) - 1) \cup {Len(s)} /\ \A i \in n .. Len(s) - 1 : i \in 0 .. Len(s)
        BY <2>2, <2>6
      <3>3. NamesShown(q, n, all) <=> NamesShown(s, n, all) /\ (all \/ Basename(q) \notin Dotted)
        BY <2>2, <3>1 DEF NamesShown
      <3>4. \A i \in n .. Len(s) - 1 : SubSeq(q, 1, i) = SubSeq(s, 1, i)
        BY <2>2, <3>2
      <3>5. MayLook(c, q, n) <=> MayLook(c, s, n) /\ DirAllowed("view", c, s) = "ok"
        BY <2>2, <3>2, <3>4 DEF MayLook
      <3> QED BY <3>3, <3>5
    <2>7. CASE s = p
      <3>1. Below(p, q) /\ OpenedBelow(c, p, all, s) /\ Len(p) \in Nat /\ Len(p) <= Len(s)
        <4>1. IsPrefix(p, p)
          BY <1>1, PrefixAt
        <4> QED BY <2>2, <2>3, <2>7, <4>1 DEF OpenedBelow
      <3>2. NamesShown(s, Len(p), all) /\ MayLook(c, s, Len(p))
        BY <2>2, <2>7 DEF NamesShown, MayLook
      <3> QED BY <1>3, <2>1, <2>6, <3>1, <3>2 DEF ShownBelow
    <2>8. CASE s # p /\ IsPrefix(p, s)
      <3>1. Below(p, q) /\ Below(p, s) /\ Len(p) \in Nat /\ Len(p) <= Len(s)
        BY <1>1, <2>2, <2>3, <2>8, PrefixAt DEF Below
      <3>2. OpenedBelow(c, p, all, s) <=> NamesShown(s, Len(p), all) /\ MayLook(c, s, Len(p)) /\ DirAllowed("view", c, s) = "ok"
        BY <2>4, <2>5, <2>8, <3>1 DEF OpenedBelow, ShownBelow
      <3> QED BY <1>3, <2>1, <2>6, <3>1, <3>2 DEF ShownBelow
    <2>9. CASE s # p /\ ~IsPrefix(p, s)
      <3>1. ~Below(p, q) /\ ~OpenedBelow(c, p, all, s)
        BY <2>3, <2>9 DEF OpenedBelow, ShownBelow, Below
      <3> QED BY <2>1, <3>1 DEF ShownBelow
    <2> QED BY <2>7, <2>8, <2>9
  <1> QED BY <1>2, <1>3

\* The directories that are read in the directories S.
Deeper(c, all, S) == {q \in UNION {Readdir(c, s) : s \in S} : IsDir(q) /\ (all \/ Basename(q) \notin Dotted)}
\* The directories that a walk from p opens at the depth d, by recursion and in one piece.
Walk(at, c, p, all) ==
  at = [d \in 1 .. MaxDepth + 1 |->
          IF MaxRecursion # 0 /\ d > MaxRecursion THEN {}
          ELSE IF d = 1 THEN {p}
          ELSE Deeper(c, all, at[d - 1])]
Level(c, p, all, d) ==
  IF MaxRecursion # 0 /\ d > MaxRecursion THEN {}
  ELSE {s \in DOMAIN tree \cup {p} : OpenedBelow(c, p, all, s) /\ Len(s) = Len(p) + d - 1}

\* The listing is the union of the levels that the walk visits.
LEMMA ListPathUnfolded ==
  ASSUME NEW c, NEW p, NEW all, NEW r
  PROVE  ListPath(c, p, all, r) =
           {q \in UNION {Readdir(c, s) : s \in UNION {(CHOOSE at : Walk(at, c, p, all))[d] : d \in 1 .. IF r THEN MaxDepth + 1 ELSE 1}} :
              all \/ Basename(q) \notin Dotted}
PROOF
  BY Zenon DEF ListPath, Walk, Deeper

\* What lies below a path is longer.
LEMMA BelowLonger ==
  ASSUME NEW p \in Seq(Names), NEW q \in Seq(Names), Below(p, q)
  PROVE  Len(p) < Len(q)
PROOF
  <1>1. Len(p) <= Len(q) /\ \A i \in 1 .. Len(p) : p[i] = q[i]
    BY PrefixAt DEF Below
  <1>2. Len(p) # Len(q)
    BY <1>1, SeqEqual DEF Below
  <1> QED BY <1>1, <1>2

\* The first level is the directory itself.
LEMMA FirstLevel ==
  ASSUME FileAssumption, FileInv, NEW c, NEW p \in Paths, NEW all \in BOOLEAN, ~(MaxRecursion # 0 /\ 1 > MaxRecursion)
  PROVE  Level(c, p, all, 1) = {p}
PROOF
  <1>1. p \in Seq(Names) /\ Len(p) \in Nat
    BY PathIsSeq
  <1>2. ASSUME NEW s \in DOMAIN tree, OpenedBelow(c, p, all, s), Len(s) = Len(p) PROVE s = p
    <2>1. s \in Seq(Names)
      BY InTree DEF FileInv
    <2> QED BY <1>1, <1>2, <2>1, BelowLonger DEF OpenedBelow, ShownBelow
  <1>3. OpenedBelow(c, p, all, p) /\ Len(p) = Len(p) + 1 - 1
    BY <1>1 DEF OpenedBelow
  <1>4. ASSUME NEW s \in Level(c, p, all, 1) PROVE s = p
    <2>1. s \in DOMAIN tree \cup {p} /\ OpenedBelow(c, p, all, s) /\ Len(s) = Len(p) + 1 - 1
      BY <1>4 DEF Level
    <2>2. Len(s) = Len(p)
      BY <1>1, <2>1
    <2> QED BY <1>2, <2>1, <2>2
  <1>5. p \in Level(c, p, all, 1)
    BY <1>3 DEF Level
  <1> QED BY <1>4, <1>5

\* What is read in the directories of a level and kept: what is shown one deeper.
LEMMA ReadFromLevel ==
  ASSUME FileAssumption, FileInv, NEW c, NEW p \in Paths, NEW all \in BOOLEAN, NEW d \in Nat \ {0},
         ~(MaxRecursion # 0 /\ d > MaxRecursion), NEW q
  PROVE  (\E s \in Level(c, p, all, d) : q \in Readdir(c, s)) /\ (all \/ Basename(q) \notin Dotted)
         <=> ShownBelow(c, p, all, q) /\ Len(q) = Len(p) + d
PROOF
  <1>1. p \in Seq(Names) /\ Len(p) \in Nat
    BY PathIsSeq
  <1>2. ASSUME NEW s \in Level(c, p, all, d), q \in Readdir(c, s), all \/ Basename(q) \notin Dotted
        PROVE  ShownBelow(c, p, all, q) /\ Len(q) = Len(p) + d
    <2>1. q \in Children(s) /\ DirAllowed("view", c, s) = "ok" /\ Allowed("view", c, q) = "ok"
      BY <1>2 DEF Readdir
    <2>2. q \in DOMAIN tree /\ q # Root /\ Dirname(q) = s
      BY <2>1 DEF Children
    <2>3. OpenedBelow(c, p, all, s) /\ Len(s) = Len(p) + d - 1
      BY DEF Level
    <2>4. q \in Seq(Names)
      BY <2>2, InTree DEF FileInv
    <2>5. Len(q) = Len(s) + 1
      BY <2>2, <2>4, AbovePath
    <2>6. ShownBelow(c, p, all, q)
      BY <1>2, <2>1, <2>2, <2>3, ShownFromAbove
    <2> QED BY <1>1, <2>3, <2>5, <2>6
  <1>3. ASSUME ShownBelow(c, p, all, q), Len(q) = Len(p) + d
        PROVE  Dirname(q) \in Level(c, p, all, d) /\ q \in Readdir(c, Dirname(q)) /\ (all \/ Basename(q) \notin Dotted)
    <2>1. q \in DOMAIN tree
      BY <1>3 DEF ShownBelow
    <2>2. PICK s : s = Dirname(q)
      OBVIOUS
    <2>3. /\ q # Root /\ OpenedBelow(c, p, all, s)
          /\ DirAllowed("view", c, s) = "ok" /\ Allowed("view", c, q) = "ok"
          /\ all \/ Basename(q) \notin Dotted
      BY <1>3, <2>1, <2>2, ShownFromAbove
    <2>4. q \in Seq(Names) /\ s \in DOMAIN tree
      BY <2>1, <2>2, InTree DEF FileInv, TreeOK, TreeClosed
    <2>5. Len(q) = Len(s) + 1 /\ Len(s) \in Nat
      BY <2>2, <2>3, <2>4, AbovePath
    <2>6. Len(s) = Len(p) + d - 1
      BY <1>1, <1>3, <2>5
    <2>7. s \in Level(c, p, all, d)
      BY <2>3, <2>4, <2>6 DEF Level
    <2>8. q \in Readdir(c, s)
      BY <2>1, <2>2, <2>3 DEF Readdir, Children
    <2> QED BY <2>2, <2>3, <2>7, <2>8
  <1> QED BY <1>2, <1>3

\* The levels are what the recursion computes.
LEMMA LevelStep ==
  ASSUME FileAssumption, FileInv, NEW c, NEW p \in Paths, NEW all \in BOOLEAN, NEW d \in Nat, d > 1,
         ~(MaxRecursion # 0 /\ d > MaxRecursion)
  PROVE  Level(c, p, all, d) = Deeper(c, all, Level(c, p, all, d - 1))
PROOF
  <1>1. p \in Seq(Names) /\ Len(p) \in Nat
    BY PathIsSeq
  <1>2. PICK e \in Nat \ {0} : e = d - 1
    OBVIOUS
  <1>3. ~(MaxRecursion # 0 /\ e > MaxRecursion)
    BY <1>2 DEF FileAssumption
  <1>4. PICK U : U = UNION {Readdir(c, s) : s \in Level(c, p, all, e)}
    OBVIOUS
  <1>5. ASSUME NEW q PROVE q \in U /\ (all \/ Basename(q) \notin Dotted) <=> ShownBelow(c, p, all, q) /\ Len(q) = Len(p) + e
    <2>1. (\E s \in Level(c, p, all, e) : q \in Readdir(c, s)) /\ (all \/ Basename(q) \notin Dotted)
          <=> ShownBelow(c, p, all, q) /\ Len(q) = Len(p) + e
      BY <1>3, ReadFromLevel, SMTT(30)
    <2> QED BY <1>4, <2>1
  <1>6. ASSUME NEW q \in Level(c, p, all, d) PROVE q \in U /\ IsDir(q) /\ (all \/ Basename(q) \notin Dotted)
    <2>1. OpenedBelow(c, p, all, q) /\ Len(q) = Len(p) + d - 1
      BY <1>6 DEF Level
    <2>2. q # p /\ Len(q) = Len(p) + e
      BY <1>1, <1>2, <2>1
    <2>3. ShownBelow(c, p, all, q) /\ IsDir(q)
      BY <2>1, <2>2 DEF OpenedBelow
    <2> QED BY <1>5, <2>2, <2>3
  <1>7. ASSUME NEW q \in U, IsDir(q), all \/ Basename(q) \notin Dotted PROVE q \in Level(c, p, all, d)
    <2>1. ShownBelow(c, p, all, q) /\ Len(q) = Len(p) + e
      BY <1>5, <1>7
    <2>2. Len(q) = Len(p) + d - 1
      BY <1>1, <1>2, <2>1
    <2>3. OpenedBelow(c, p, all, q) /\ q \in DOMAIN tree
      BY <1>7, <2>1 DEF OpenedBelow, ShownBelow
    <2> QED BY <2>2, <2>3 DEF Level
  <1>8. Level(c, p, all, d) = {q \in U : IsDir(q) /\ (all \/ Basename(q) \notin Dotted)}
    BY <1>6, <1>7
  <1> QED BY <1>2, <1>4, <1>8 DEF Deeper

\* Each level is the directories that the one above it leads to.
LEMMA LevelAt ==
  ASSUME FileAssumption, FileInv, NEW c, NEW p \in Paths, NEW all \in BOOLEAN, NEW d \in 1 .. MaxDepth + 1
  PROVE  Level(c, p, all, d) =
           IF MaxRecursion # 0 /\ d > MaxRecursion THEN {}
           ELSE IF d = 1 THEN {p}
           ELSE Deeper(c, all, Level(c, p, all, d - 1))
PROOF
  <1>1. CASE MaxRecursion # 0 /\ d > MaxRecursion
    BY <1>1 DEF Level
  <1>2. CASE ~(MaxRecursion # 0 /\ d > MaxRecursion) /\ d = 1
    BY <1>2, FirstLevel
  <1>3. CASE ~(MaxRecursion # 0 /\ d > MaxRecursion) /\ d # 1
    <2>1. d \in Nat /\ d > 1
      BY <1>3
    <2>2. Level(c, p, all, d) = Deeper(c, all, Level(c, p, all, d - 1))
      BY <1>3, <2>1, LevelStep
    <2> QED BY <1>3, <2>2, Zenon
  <1> QED BY <1>1, <1>2, <1>3

\* The levels satisfy the recursion, and nothing else does.
LEMMA WalkExists ==
  ASSUME FileAssumption, FileInv, NEW c, NEW p \in Paths, NEW all \in BOOLEAN
  PROVE  \E at : Walk(at, c, p, all)
PROOF
  <1> DEFINE F(d) == Level(c, p, all, d)
             g == [d \in 1 .. MaxDepth + 1 |-> F(d)]
             E(h, d) == IF MaxRecursion # 0 /\ d > MaxRecursion THEN {}
                        ELSE IF d = 1 THEN {p}
                        ELSE Deeper(c, all, h[d - 1])
  <1>1. ASSUME NEW d \in 1 .. MaxDepth + 1 PROVE F(d) = E(g, d)
    <2>1. CASE d = 1
      <3>1. F(d) = IF MaxRecursion # 0 /\ d > MaxRecursion THEN {} ELSE {p}
        BY <2>1, LevelAt
      <3> QED BY <2>1, <3>1, Zenon
    <2>2. CASE d # 1
      <3>1. d - 1 \in 1 .. MaxDepth + 1
        BY <2>2 DEF FileAssumption
      <3>2. g[d - 1] = F(d - 1)
        BY <3>1
      <3>3. F(d) = IF MaxRecursion # 0 /\ d > MaxRecursion THEN {}
                   ELSE IF d = 1 THEN {p}
                   ELSE Deeper(c, all, F(d - 1))
        BY LevelAt
      <3> HIDE DEF F, g
      <3> QED BY <3>2, <3>3
    <2> QED BY <2>1, <2>2
  <1>2. g = [d \in 1 .. MaxDepth + 1 |-> E(g, d)]
    <2> HIDE DEF F, E
    <2> QED BY <1>1
  <1>3. Walk(g, c, p, all)
    <2> HIDE DEF g
    <2> QED BY <1>2, Zenon DEF Walk
  <1> QED BY <1>3

\* The walk visits level by level: the least level at which it would not is none.
LEMMA WalkIsLevels ==
  ASSUME FileAssumption, FileInv, NEW c, NEW p \in Paths, NEW all \in BOOLEAN, NEW at, Walk(at, c, p, all)
  PROVE  \A d \in 1 .. MaxDepth + 1 : at[d] = Level(c, p, all, d)
PROOF
  <1>0. ASSUME NEW d \in 1 .. MaxDepth + 1
        PROVE  at[d] = IF MaxRecursion # 0 /\ d > MaxRecursion THEN {}
                       ELSE IF d = 1 THEN {p} ELSE Deeper(c, all, at[d - 1])
    BY Zenon DEF Walk
  <1> DEFINE F(d) == Level(c, p, all, d)
             Wrong == {d \in Nat : d \in 1 .. MaxDepth + 1 /\ at[d] # F(d)}
  <1>1. CASE Wrong = {}
    <2>1. \A d \in 1 .. MaxDepth + 1 : d \in Nat
      BY DEF FileAssumption
    <2> HIDE DEF F
    <2>2. \A d \in 1 .. MaxDepth + 1 : at[d] = F(d)
      BY <1>1, <2>1
    <2> QED BY <2>2 DEF F
  <1>2. CASE Wrong # {}
    <2> HIDE DEF F
    <2>1. PICK d \in Wrong : \A e \in Wrong : d <= e
      BY <1>2, LeastNumber
    <2>2. d \in Nat /\ d \in 1 .. MaxDepth + 1 /\ at[d] # F(d)
      BY <2>1
    <2>3. F(d) = IF MaxRecursion # 0 /\ d > MaxRecursion THEN {}
                 ELSE IF d = 1 THEN {p}
                 ELSE Deeper(c, all, F(d - 1))
      BY <2>2, LevelAt DEF F
    <2>4. at[d] = IF MaxRecursion # 0 /\ d > MaxRecursion THEN {}
                  ELSE IF d = 1 THEN {p}
                  ELSE Deeper(c, all, at[d - 1])
      BY <1>0, <2>2
    <2>5. CASE d = 1
      BY <2>2, <2>3, <2>4, <2>5
    <2>6. CASE d # 1
      <3>1. d - 1 \in Nat /\ d - 1 \in 1 .. MaxDepth + 1 /\ ~(d <= d - 1)
        BY <2>2, <2>6 DEF FileAssumption
      <3>2. d - 1 \notin Wrong
        BY <2>1, <3>1
      <3>3. at[d - 1] = F(d - 1)
        BY <3>1, <3>2
      <3> QED BY <2>2, <2>3, <2>4, <3>3
    <2> QED BY <2>5, <2>6
  <1> QED BY <1>1, <1>2

\* What a listing shows, for any tree: what may be shown, down to its limit.
LEMMA ListPathExact ==
  ASSUME FileAssumption, FileInv, NEW c, NEW p \in Paths, NEW all \in BOOLEAN, NEW r \in BOOLEAN, NEW q
  PROVE  q \in ListPath(c, p, all, r) <=>
           /\ ShownBelow(c, p, all, q)
           /\ Len(q) - Len(p) <= IF ~r THEN 1 ELSE IF MaxRecursion = 0 THEN MaxDepth ELSE MaxRecursion
PROOF
  <1>1. PICK at : at = CHOOSE h : Walk(h, c, p, all)
    OBVIOUS
  <1>2. Walk(at, c, p, all)
    BY <1>1, WalkExists, Zenon
  <1>3. \A d \in 1 .. MaxDepth + 1 : at[d] = Level(c, p, all, d)
    BY <1>2, WalkIsLevels
  <1>4. PICK last \in Nat : last = IF r THEN MaxDepth + 1 ELSE 1
    BY DEF FileAssumption
  <1>5. ListPath(c, p, all, r) = {x \in UNION {Readdir(c, s) : s \in UNION {at[d] : d \in 1 .. last}} : all \/ Basename(x) \notin Dotted}
    BY <1>1, <1>4, ListPathUnfolded
  <1>6. last <= MaxDepth + 1 /\ last >= 1
    BY <1>4 DEF FileAssumption
  <1>7. q \in ListPath(c, p, all, r) <=>
          \E d \in 1 .. last : q \in UNION {Readdir(c, s) : s \in at[d]} /\ (all \/ Basename(q) \notin Dotted)
    BY <1>5
  <1>8. \A d \in 1 .. last : d \in Nat \ {0} /\ d \in 1 .. MaxDepth + 1
    BY <1>4, <1>6 DEF FileAssumption
  <1>9. ASSUME NEW d \in 1 .. last
        PROVE  q \in UNION {Readdir(c, s) : s \in at[d]} /\ (all \/ Basename(q) \notin Dotted) <=>
                 ~(MaxRecursion # 0 /\ d > MaxRecursion) /\ ShownBelow(c, p, all, q) /\ Len(q) = Len(p) + d
    <2>1. at[d] = Level(c, p, all, d) /\ d \in Nat \ {0}
      BY <1>3, <1>8
    <2>2. CASE MaxRecursion # 0 /\ d > MaxRecursion
      <3>1. at[d] = {}
        BY <2>1, <2>2 DEF Level
      <3> QED BY <2>2, <3>1
    <2>3. CASE ~(MaxRecursion # 0 /\ d > MaxRecursion)
      <3>1. (\E s \in Level(c, p, all, d) : q \in Readdir(c, s)) /\ (all \/ Basename(q) \notin Dotted)
            <=> ShownBelow(c, p, all, q) /\ Len(q) = Len(p) + d
        BY <2>1, <2>3, ReadFromLevel, SMTT(30)
      <3> QED BY <2>1, <2>3, <3>1
    <2> QED BY <2>2, <2>3
  <1>10. q \in ListPath(c, p, all, r) <=>
           ShownBelow(c, p, all, q) /\ \E d \in 1 .. last : ~(MaxRecursion # 0 /\ d > MaxRecursion) /\ Len(q) = Len(p) + d
    BY <1>7, <1>9
  <1>11. ASSUME ShownBelow(c, p, all, q)
         PROVE  (\E d \in 1 .. last : ~(MaxRecursion # 0 /\ d > MaxRecursion) /\ Len(q) = Len(p) + d) <=>
                  Len(q) - Len(p) <= IF ~r THEN 1 ELSE IF MaxRecursion = 0 THEN MaxDepth ELSE MaxRecursion
    <2>1. q \in DOMAIN tree /\ Below(p, q)
      BY <1>11 DEF ShownBelow
    <2>2. q \in Paths
      BY <2>1 DEF FileInv, TreeOK, TreeTyped
    <2>3. p \in Seq(Names) /\ q \in Seq(Names) /\ Len(p) \in Nat /\ Len(q) \in Nat /\ Len(q) <= MaxDepth
      BY <2>2, PathIsSeq
    <2>4. Len(p) < Len(q)
      BY <2>1, <2>3, BelowLonger
    <2>5. PICK d \in Nat : d = Len(q) - Len(p)
      BY <2>3, <2>4
    <2>6. d >= 1 /\ d <= MaxDepth /\ \A e \in 1 .. last : Len(q) = Len(p) + e <=> e = d
      BY <1>4, <2>3, <2>4, <2>5 DEF FileAssumption
    <2>7. (\E e \in 1 .. last : ~(MaxRecursion # 0 /\ e > MaxRecursion) /\ Len(q) = Len(p) + e) <=>
            d <= last /\ ~(MaxRecursion # 0 /\ d > MaxRecursion)
      <3>1. d \in 1 .. last <=> d <= last
        BY <1>4, <2>5, <2>6
      <3> QED BY <2>6, <3>1
    <2>8. d <= last /\ ~(MaxRecursion # 0 /\ d > MaxRecursion) <=>
            d <= IF ~r THEN 1 ELSE IF MaxRecursion = 0 THEN MaxDepth ELSE MaxRecursion
      BY <1>4, <2>5, <2>6 DEF FileAssumption
    <2> QED BY <2>5, <2>7, <2>8
  <1> QED BY <1>10, <1>11

\* What is listed is what is visible at those levels.
LEMMA ListingIsExact ==
  ASSUME FileAssumption, FileInv
  PROVE  ListingExact
PROOF
  <1> SUFFICES ASSUME NEW c \in Clients, NEW p \in Paths, NEW all \in BOOLEAN, NEW r \in BOOLEAN
               PROVE  ListPath(c, p, all, r) = {q \in DOMAIN tree :
                        /\ Below(p, q)
                        /\ Len(q) - Len(p) <= IF ~r THEN 1 ELSE IF MaxRecursion = 0 THEN MaxDepth ELSE MaxRecursion
                        /\ \A n \in Len(p) + 1 .. Len(q) : all \/ q[n] \notin Dotted
                        /\ \A n \in Len(p) .. Len(q) - 1 : DirAllowed("view", c, SubSeq(q, 1, n)) = "ok"
                        /\ Allowed("view", c, q) = "ok"}
    BY DEF ListingExact
  <1>1. PICK max : max = IF ~r THEN 1 ELSE IF MaxRecursion = 0 THEN MaxDepth ELSE MaxRecursion
    OBVIOUS
  <1>2. \A q : q \in ListPath(c, p, all, r) <=> ShownBelow(c, p, all, q) /\ Len(q) - Len(p) <= max
    BY <1>1, ListPathExact
  <1>3. \A q : ShownBelow(c, p, all, q) <=>
           /\ q \in DOMAIN tree /\ Below(p, q) /\ \A n \in Len(p) + 1 .. Len(q) : all \/ q[n] \notin Dotted
           /\ \A n \in Len(p) .. Len(q) - 1 : DirAllowed("view", c, SubSeq(q, 1, n)) = "ok"
           /\ Allowed("view", c, q) = "ok"
    BY Zenon DEF ShownBelow, NamesShown, MayLook
  <1> QED BY <1>1, <1>2, <1>3

\* For any tree that commands can leave, any settings and any limit of the recursion: a
\* client is where it may be; a command that no other overlaps removes, in all its steps
\* together, only what lies at or below the path it was given and what the rights of that
\* moment entitled it to (the dotted files that RMD and WIPE take along and the file that
\* RNTO replaces included, each by the right the code does ask for), and DELE charges for
\* the client's own file; a listing shows exactly what the client may see, down to the limit.
THEOREM ClientWithinRights == FileAssumption => (Spec => []WithinRights)
PROOF
  <1> SUFFICES ASSUME FileAssumption PROVE Spec => []WithinRights
    OBVIOUS
  <1> DEFINE I == FileInv /\ SoloInv
  <1>1. Init => I
    BY FileInvInit, SoloInvInit
  <1>2. I /\ [Next]_vars => I'
    BY FileInvNext, SoloInvNext
  <1>3. I => WithinRights
    <2> SUFFICES ASSUME I PROVE WithinRights
      OBVIOUS
    <2>1. StaysHome
      BY DEF FileInv, SessionTypes, StaysHome, MayBeIn
    <2>2. NoTrespass
      BY DEF SoloInv, NoTrespass
    <2>3. ListingExact
      BY ListingIsExact
    <2> QED BY <2>1, <2>2, <2>3 DEF WithinRights
  <1> QED BY <1>1, <1>2, <1>3, PTL DEF Spec

-----------------------------------------------------------------------------
(* FileSystem: WIPE *)

\* What is left below the directory that is wiped is still to be visited, or a directory
\* that is to be removed once what is in it is gone.
Covered(todo, x) ==
  \E i \in DOMAIN todo : \/ todo[i].do = "visit" /\ IsPrefix(todo[i].p, x)
                         \/ todo[i].do = "rmdir" /\ todo[i].p = x
LeftCovered(j, t) == j.op = "WIPE" /\ j.failed = 0 => \A x \in DOMAIN t : Below(j.p, x) => Covered(j.todo, x)
WipeInv == ~mixed => \A c \in Clients : LeftCovered(act[c], tree)

\* What lies below a path lies in or is one of its children.
LEMMA ChildAbove ==
  ASSUME FileAssumption, TreeOK(tree), NEW p \in Paths, NEW x \in DOMAIN tree, Below(p, x)
  PROVE  \E q \in Children(p) : IsPrefix(q, x)
PROOF
  <1> DEFINE B == {r \in DOMAIN tree : IsPrefix(p, r) /\ r # p /\ IsPrefix(r, x)}
  <1> DEFINE L == {n \in Nat : \E r \in B : Len(r) = n}
  <1>1. p \in Seq(Names) /\ x \in Seq(Names)
    BY PathIsSeq, InTree
  <1>2. \A r \in B : r \in Seq(Names) /\ Len(r) \in Nat
    BY InTree
  <1>3. x \in B
    BY <1>1, PrefixAt DEF Below
  <1>4. L \subseteq Nat /\ L # {}
    BY <1>2, <1>3
  <1>5. PICK n \in L : \A m \in L : n <= m
    BY <1>4, LeastNumber
  <1>6. PICK r \in B : Len(r) = n
    BY <1>5
  <1>7. r \in Seq(Names) /\ r \in DOMAIN tree /\ Dirname(r) \in DOMAIN tree /\ IsPrefix(p, r) /\ r # p /\ IsPrefix(r, x)
    BY <1>6, InTree
  <1>8. r # Root
    <2>1. CASE p = Root
      BY <1>7, <2>1
    <2>2. CASE p # Root
      BY <1>1, <1>7, <2>2, NothingAboveRoot
    <2> QED BY <2>1, <2>2
  <1>9. PICK s \in Seq(Names) : s = Dirname(r)
    BY <1>7, ParentFacts
  <1>10. IsPrefix(p, s) /\ Len(s) = n - 1 /\ n - 1 \in Nat
    BY <1>1, <1>6, <1>7, <1>8, <1>9, PrefixOfParent, ParentFacts
  <1>11. IsPrefix(s, x)
    <2>1. Len(r) <= Len(x) /\ \A i \in 1 .. Len(r) : r[i] = x[i]
      BY <1>1, <1>7, PrefixAt
    <2>2. \A i \in 1 .. Len(r) - 1 : s[i] = r[i]
      BY <1>7, <1>8, <1>9, ParentFacts
    <2>3. Len(s) <= Len(x) /\ \A i \in 1 .. Len(s) : s[i] = x[i]
      BY <1>1, <1>6, <1>10, <2>1, <2>2
    <2> QED BY <1>1, <1>9, <2>3, PrefixAt
  <1>12. s = p
    <2> SUFFICES ASSUME s # p PROVE FALSE
      OBVIOUS
    <2>1. s \in B
      BY <1>7, <1>9, <1>10, <1>11
    <2>2. n - 1 \in L
      BY <1>10, <2>1
    <2> QED BY <1>5, <1>10, <2>2
  <1> QED BY <1>7, <1>8, <1>9, <1>12 DEF Children

\* Every match is visited.
LEMMA VisitsAll ==
  ASSUME NEW P, IsFiniteSet(P), NEW q \in P
  PROVE  \E i \in DOMAIN Visits(P) : Visits(P)[i].do = "visit" /\ Visits(P)[i].p = q
PROOF
  <1>1. PICK n \in Nat : n = Cardinality(P)
    BY FS_CardinalityType
  <1>2. ExistsBijection(1 .. n, P)
    BY <1>1, FS_CardinalityType
  <1>3. PICK f \in Bijection(1 .. n, P) : TRUE
    BY <1>2 DEF ExistsBijection
  <1>4. f \in [1 .. n -> P] /\ IsInjective(f)
    BY <1>3 DEF Bijection, Injection, IsInjective
  <1>5. PICK s : s = SetToSeq(P)
    OBVIOUS
  <1>6. s \in [1 .. n -> P] /\ IsInjective(s)
    BY <1>1, <1>3, <1>4, <1>5 DEF SetToSeq
  <1>7. s \in Injection(1 .. n, P)
    BY <1>6 DEF Injection, IsInjective
  <1>8. IsFiniteSet(1 .. n) /\ Cardinality(1 .. n) = n
    BY <1>1, FS_Interval
  <1>9. s \in Surjection(1 .. n, P)
    BY <1>1, <1>7, <1>8, FS_Injection
  <1>10. PICK i \in 1 .. n : s[i] = q
    BY <1>9 DEF Surjection
  <1>11. PICK v : v = Visits(P)
    OBVIOUS
  <1>12. v = [k \in 1 .. n |-> [do |-> "visit", p |-> s[k]]]
    BY <1>1, <1>5, <1>11 DEF Visits
  <1>13. i \in DOMAIN v /\ v[i].do = "visit" /\ v[i].p = q
    BY <1>10, <1>12
  <1> QED BY <1>11, <1>13

\* WIPE's pattern covers everything below its directory.
LEMMA GlobCovers ==
  ASSUME FileAssumption, FileInv, NEW p \in Paths, NEW star \in BOOLEAN, NEW x \in DOMAIN tree, Below(p, x)
  PROVE  Covered(Visits(Glob(p, star)), x)
PROOF
  <1>1. PICK P : P = Glob(p, star)
    OBVIOUS
  <1>2. IsFiniteSet(P)
    BY <1>1, GlobInTree DEF FileInv
  <1>3. \E q \in P : IsPrefix(q, x)
    <2>1. PICK q \in Children(p) : IsPrefix(q, x)
      BY ChildAbove DEF FileInv
    <2>2. CASE star
      BY <1>1, <2>1, <2>2 DEF Glob
    <2>3. CASE ~star
      <3>1. q \in DOMAIN tree /\ Dirname(q) = p
        BY <2>1 DEF Children
      <3>2. p \in DOMAIN tree
        BY <3>1 DEF FileInv, TreeOK, TreeClosed
      <3>3. p \in P
        BY <1>1, <2>3, <3>2 DEF Glob, Exists
      <3> QED BY <3>3 DEF Below
    <2> QED BY <2>2, <2>3
  <1>4. PICK q \in P : IsPrefix(q, x)
    BY <1>3
  <1>5. PICK v : v = Visits(P)
    OBVIOUS
  <1>6. PICK i \in DOMAIN v : v[i].do = "visit" /\ v[i].p = q
    BY <1>2, <1>5, VisitsAll
  <1> QED BY <1>1, <1>4, <1>5, <1>6 DEF Covered

\* What is covered stays so when entries are put before or after.
LEMMA CoveredJoined ==
  ASSUME NEW v \in Seq(Entries), NEW w \in Seq(Entries), NEW x, Covered(v, x) \/ Covered(w, x)
  PROVE  Covered(v \o w, x)
PROOF
  <1>1. PICK z : z = v \o w
    OBVIOUS
  <1>2. /\ Len(v) \in Nat /\ Len(w) \in Nat /\ DOMAIN v = 1 .. Len(v) /\ DOMAIN w = 1 .. Len(w)
        /\ z \in Seq(Entries) /\ Len(z) = Len(v) + Len(w)
    BY <1>1, ConcatProperties
  <1>3. DOMAIN z = 1 .. Len(v) + Len(w)
    BY <1>2
  <1>4. ASSUME NEW i \in DOMAIN v PROVE i \in DOMAIN z /\ z[i] = v[i]
    BY <1>1, <1>2, <1>3, ConcatProperties
  <1>5. ASSUME NEW i \in DOMAIN w PROVE Len(v) + i \in DOMAIN z /\ z[Len(v) + i] = w[i]
    <2>1. i \in 1 .. Len(w) /\ Len(v) + i \in 1 .. Len(v) + Len(w) /\ Len(v) + i > Len(v) /\ Len(v) + i - Len(v) = i
      BY <1>2
    <2> QED BY <1>1, <1>2, <1>3, <2>1, ConcatProperties
  <1>6. Covered(z, x)
    BY <1>4, <1>5 DEF Covered
  <1> QED BY <1>1, <1>6

\* Of the first entry or of those after it.
LEMMA CoveredFirst ==
  ASSUME NEW todo \in Seq(Entries), todo # <<>>, NEW x, Covered(todo, x)
  PROVE  \/ Head(todo).do = "visit" /\ IsPrefix(Head(todo).p, x)
         \/ Head(todo).do = "rmdir" /\ Head(todo).p = x
         \/ Covered(Tail(todo), x)
PROOF
  <1>1. Len(todo) \in Nat \ {0} /\ DOMAIN todo = 1 .. Len(todo)
    OBVIOUS
  <1>2. PICK i \in DOMAIN todo : \/ todo[i].do = "visit" /\ IsPrefix(todo[i].p, x)
                                 \/ todo[i].do = "rmdir" /\ todo[i].p = x
    BY DEF Covered
  <1>3. CASE i = 1
    <2>1. Head(todo) = todo[1]
      BY <1>1
    <2> QED BY <1>2, <1>3, <2>1
  <1>4. CASE i # 1
    <2>1. PICK tail : tail = Tail(todo)
      OBVIOUS
    <2>2. i - 1 \in DOMAIN tail /\ tail[i - 1] = todo[i]
      BY <1>1, <1>4, <2>1
    <2>3. Covered(tail, x)
      BY <1>2, <2>2 DEF Covered
    <2> QED BY <2>1, <2>3
  <1> QED BY <1>3, <1>4

\* WIPE's order covers the directory and everything below it.
LEMMA OrderCovers ==
  ASSUME FileAssumption, FileInv, NEW p \in Paths, p # Root, NEW x \in DOMAIN tree, IsPrefix(p, x)
  PROVE  Covered(WipeOrder(p), x)
PROOF
  <1>1. PICK v : v = Visits(Glob(p, TRUE))
    OBVIOUS
  <1>2. PICK w : w = WipeRmdir(p)
    OBVIOUS
  <1>3. Glob(p, TRUE) \subseteq Paths /\ IsFiniteSet(Glob(p, TRUE))
    BY GlobInTree DEF FileInv
  <1>4. v \in Seq(Entries)
    BY <1>1, <1>3, VisitsTyped
  <1>5. w \in Seq(Entries)
    BY <1>2, WipeRmdirTyped
  <1>6. CASE x = p
    <2>1. 1 \in DOMAIN w /\ w[1].do = "rmdir" /\ w[1].p = x
      BY <1>2, <1>6 DEF WipeRmdir
    <2>2. Covered(w, x)
      BY <2>1 DEF Covered
    <2> QED BY <1>1, <1>2, <1>4, <1>5, <2>2, CoveredJoined DEF WipeOrder
  <1>7. CASE x # p
    <2>1. Covered(v, x)
      BY <1>1, <1>7, GlobCovers DEF Below
    <2> QED BY <1>1, <1>2, <1>4, <1>5, <2>1, CoveredJoined DEF WipeOrder
  <1> QED BY <1>6, <1>7

\* Nothing is below what is not a directory or has no children.
LEMMA AloneBelow ==
  ASSUME FileAssumption, FileInv, NEW p \in Paths, IsFile(p) \/ Children(p) = {}, NEW x \in DOMAIN tree, IsPrefix(p, x)
  PROVE  x = p
PROOF
  <1> SUFFICES ASSUME x # p PROVE FALSE
    OBVIOUS
  <1>1. PICK q \in Children(p) : TRUE
    BY ChildAbove DEF Below, FileInv
  <1>2. q \in DOMAIN tree /\ Dirname(q) = p
    BY <1>1 DEF Children
  <1>3. tree[p].dir
    BY <1>2 DEF FileInv, TreeOK, TreeClosed
  <1> QED BY <1>1, <1>3 DEF IsFile

\* WIPE begins with everything covered.
LEMMA WipeBegins ==
  ASSUME FileAssumption, FileInv, NEW c \in Clients, act[c] = Free, WIPE(c)
  PROVE  LeftCovered(act'[c], tree')
PROOF
  <1>1. tree' = tree
    BY DEF WIPE
  <1>2. PICK p \in Paths \ {Root}, star \in BOOLEAN :
          UNCHANGED act \/ Put(c, Removal(c, "WIPE", "loop", p, Root, Visits(Glob(p, star))))
    BY DEF WIPE
  <1>3. CASE UNCHANGED act
    <2>1. Free.op # "WIPE"
      BY DEF Free, Job
    <2> QED BY <1>3, <2>1 DEF LeftCovered
  <1>4. CASE Put(c, Removal(c, "WIPE", "loop", p, Root, Visits(Glob(p, star))))
    <2>1. PICK v : v = Visits(Glob(p, star))
      OBVIOUS
    <2>2. act'[c] = Removal(c, "WIPE", "loop", p, Root, v)
      BY <1>4, <2>1, PutOthers DEF FileInv
    <2>3. act'[c].p = p /\ act'[c].todo = v
      BY <2>2, RemovalFields
    <2>4. \A x \in DOMAIN tree : Below(p, x) => Covered(v, x)
      BY <2>1, GlobCovers
    <2> QED BY <1>1, <2>3, <2>4 DEF LeftCovered
  <1> QED BY <1>2, <1>3, <1>4

\* Each of its steps covers all that is left.
LEMMA WipeGoes ==
  ASSUME FileAssumption, FileInv, NEW c \in Clients, LeftCovered(act[c], tree), WipeStep(c)
  PROVE  LeftCovered(act'[c], tree')
PROOF
  <1>1. PICK j : j = act[c]
    OBVIOUS
  <1>2. JobShape(j) /\ j.op = "WIPE" /\ j.todo # <<>> /\ j.todo \in Seq(Entries) /\ NoRoot(j.todo)
    BY <1>1, AtJob DEF WipeStep, JobInv, JobShape, JobStage
  <1>3. PICK e : e = Head(j.todo)
    OBVIOUS
  <1>4. PICK tail : tail = Tail(j.todo)
    OBVIOUS
  <1>5. e \in Entries /\ tail \in Seq(Entries) /\ e.p # Root
    BY <1>2, <1>3, <1>4, RestOfLoop
  <1>6. e.p \in Paths
    BY <1>5 DEF Entries
  <1>7. PICK w : w = WipeOrder(e.p)
    OBVIOUS
  <1>8. w \in Seq(Entries)
    BY <1>5, <1>6, <1>7, WipeOrderTyped DEF FileInv
  <1>9. PICK rest : rest = [j EXCEPT !.todo = tail]
    OBVIOUS
  <1>10. rest = [op |-> j.op, at |-> j.at, p |-> j.p, q |-> j.q, todo |-> tail, failed |-> j.failed,
                 own |-> j.own, may |-> j.may]
    BY <1>2, <1>9 DEF JobShape
  <1>11. \/ e.do = "visit" /\ IsDir(e.p) /\ Put(c, [j EXCEPT !.todo = w \o tail]) /\ tree' = tree
         \/ e.do = "visit" /\ IsFile(e.p) /\ Put(c, rest) /\ tree' = Unlinked({e.p})
         \/ e.do = "rmdir" /\ Put(c, rest) /\ tree' = Unlinked(Children(e.p) \cup {e.p})
         \/ \E k : Put(c, [[j EXCEPT !.todo = k] EXCEPT !.failed = 1])
    BY <1>1, <1>3, <1>4, <1>7, <1>9 DEF WipeStep, MayDelete, Unlink
  <1>12. ASSUME j.failed = 0, NEW x \in DOMAIN tree, Below(j.p, x)
         PROVE  \/ e.do = "visit" /\ IsPrefix(e.p, x)
                \/ e.do = "rmdir" /\ e.p = x
                \/ Covered(tail, x)
    <2>1. Covered(j.todo, x)
      BY <1>1, <1>2, <1>12 DEF LeftCovered
    <2> QED BY <1>2, <1>3, <1>4, <2>1, CoveredFirst
  <1>13. CASE e.do = "visit" /\ IsDir(e.p) /\ Put(c, [j EXCEPT !.todo = w \o tail]) /\ tree' = tree
    <2>1. PICK z : z = w \o tail
      OBVIOUS
    <2>2. act'[c] = [j EXCEPT !.todo = z]
      BY <1>13, <2>1, PutOthers DEF FileInv
    <2>3. act'[c].p = j.p /\ act'[c].todo = z /\ act'[c].failed = j.failed
      BY <1>2, <2>2 DEF JobShape
    <2>4. ASSUME j.failed = 0, NEW x \in DOMAIN tree, Below(j.p, x) PROVE Covered(z, x)
      <3>1. CASE IsPrefix(e.p, x)
        <4>1. Covered(w, x)
          BY <1>5, <1>6, <1>7, <3>1, OrderCovers
        <4> QED BY <1>5, <1>8, <2>1, <4>1, CoveredJoined
      <3>2. CASE Covered(tail, x)
        BY <1>5, <1>8, <2>1, <3>2, CoveredJoined
      <3> QED BY <1>12, <1>13, <2>4, <3>1, <3>2
    <2> QED BY <1>13, <2>3, <2>4 DEF LeftCovered
  <1>14. CASE \/ e.do = "visit" /\ IsFile(e.p) /\ Put(c, rest) /\ tree' = Unlinked({e.p})
              \/ e.do = "rmdir" /\ Put(c, rest) /\ tree' = Unlinked(Children(e.p) \cup {e.p})
    <2>1. act'[c] = rest
      BY <1>14, PutOthers DEF FileInv
    <2>2. act'[c].p = j.p /\ act'[c].todo = tail /\ act'[c].failed = j.failed
      BY <1>10, <2>1
    <2>3. DOMAIN tree' \subseteq DOMAIN tree \ {e.p}
      BY <1>14 DEF Unlinked
    <2>4. ASSUME j.failed = 0, NEW x \in DOMAIN tree', Below(j.p, x) PROVE Covered(tail, x)
      <3>1. x \in DOMAIN tree /\ x # e.p
        BY <2>3
      <3>2. e.do = "visit" => ~IsPrefix(e.p, x)
        BY <1>6, <1>14, <3>1, AloneBelow
      <3> QED BY <1>12, <2>4, <3>1, <3>2
    <2> QED BY <2>2, <2>4 DEF LeftCovered
  <1>15. ASSUME NEW k, Put(c, [[j EXCEPT !.todo = k] EXCEPT !.failed = 1]) PROVE LeftCovered(act'[c], tree')
    <2>1. PICK i : i = [j EXCEPT !.todo = k]
      OBVIOUS
    <2>2. i = [op |-> j.op, at |-> j.at, p |-> j.p, q |-> j.q, todo |-> k, failed |-> j.failed,
               own |-> j.own, may |-> j.may]
      BY <1>2, <2>1 DEF JobShape
    <2>3. act'[c] = [i EXCEPT !.failed = 1]
      BY <1>15, <2>1, PutOthers DEF FileInv
    <2>4. act'[c].failed = 1
      BY <2>2, <2>3
    <2> QED BY <2>4 DEF LeftCovered
  <1> QED BY <1>11, <1>13, <1>14, <1>15

\* Only WIPE begins and goes on with a command WIPE.
LEMMA NoWipeBegins ==
  ASSUME FileInv, NEW c \in Clients, act[c] = Free,
         \/ Chdir(c) \/ MKD(c) \/ RMD(c) \/ DELE(c) \/ RNFR(c) \/ RNTO(c) \/ CreateFile(c) \/ Utimes(c)
         \/ CHOWN(c) \/ CHMOD(c) \/ UPDATE(c) \/ NewBegin(c)
  PROVE  act'[c].op # "WIPE"
PROOF
  <1>0. ASSUME NEW j, Put(c, j) PROVE act'[c] = j
    BY <1>0, PutOthers DEF FileInv
  <1>8. Free.op # "WIPE"
    BY DEF Free, Job
  <1>1. CASE UNCHANGED act
    BY <1>1, <1>8
  <1>2. ASSUME NEW op, op # "WIPE", NEW at, NEW p, NEW q, NEW todo,
               Put(c, Job(op, at, p, q, todo)) \/ Put(c, Removal(c, op, at, p, q, todo))
        PROVE  act'[c].op # "WIPE"
    BY <1>0, <1>2, RemovalFields DEF Job
  <1>3. CASE Chdir(c) \/ RNFR(c) \/ CreateFile(c) \/ Utimes(c) \/ CHOWN(c) \/ CHMOD(c) \/ UPDATE(c)
    BY <1>1, <1>3 DEF Chdir, RNFR, CreateFile, Utimes, CHOWN, CHMOD, UPDATE
  <1>4. CASE MKD(c)
    BY <1>2, <1>4 DEF MKD
  <1>5. CASE RMD(c) \/ DELE(c)
    BY <1>2, <1>5 DEF RMD, DELE
  <1>6. CASE RNTO(c)
    <2>1. PICK op \in {"RNTO", "RNTOdir"} : UNCHANGED act \/ \E p, q : Put(c, Removal(c, op, "rename", p, q, <<>>))
      BY <1>6 DEF RNTO
    <2> QED BY <1>1, <1>2, <2>1
  <1>7. CASE NewBegin(c)
    <2>1. PICK v : v = Visits(index)
      OBVIOUS
    <2>2. Put(c, Job("NEW", "loop", Root, Root, v))
      BY <1>7, <2>1 DEF NewBegin
    <2> QED BY <1>2, <2>2
  <1> QED BY <1>3, <1>4, <1>5, <1>6, <1>7

\* The later steps of other commands are no wipe's.
LEMMA NoWipeGoes ==
  ASSUME FileInv, NEW c \in Clients,
         \/ SetOwner(c) \/ IndexAdd(c) \/ RemoveDirectory(c) \/ IndexDelete(c) \/ DeleteFile(c) \/ Rename(c)
         \/ IndexSwap(c) \/ WipeEnd(c) \/ NewStep(c)
  PROVE  act'[c].op # "WIPE"
PROOF
  <1>1. PICK j : j = act[c]
    OBVIOUS
  <1>2. JobShape(j) /\ JobStage(j)
    BY <1>1, AtJob DEF JobInv
  <1>3. CASE Done(c)
    <2>1. act'[c] = Free
      BY <1>3, PutOthers DEF Done, FileInv
    <2>2. Free.op # "WIPE"
      BY DEF Free, Job
    <2> QED BY <2>1, <2>2
  <1>4. ASSUME j.op # "WIPE", NEW at, Put(c, [j EXCEPT !.at = at]) PROVE act'[c].op # "WIPE"
    <2>1. act'[c] = [j EXCEPT !.at = at]
      BY <1>4, PutOthers DEF FileInv
    <2> QED BY <1>2, <1>4, <2>1 DEF JobShape
  <1>5. CASE SetOwner(c)
    <2>1. PICK p : Done(c) \/ Put(c, Job("MKD", "add", p, p, <<>>))
      BY <1>5 DEF SetOwner
    <2>2. CASE Put(c, Job("MKD", "add", p, p, <<>>))
      <3>1. act'[c] = Job("MKD", "add", p, p, <<>>)
        BY <2>2, PutOthers DEF FileInv
      <3> QED BY <3>1 DEF Job
    <2> QED BY <1>3, <2>1, <2>2
  <1>6. CASE IndexAdd(c) \/ IndexDelete(c) \/ DeleteFile(c) \/ WipeEnd(c)
    BY <1>3, <1>6 DEF IndexAdd, IndexDelete, DeleteFile, WipeEnd
  <1>7. CASE RemoveDirectory(c)
    <2>1. j.op # "WIPE"
      BY <1>1, <1>2, <1>7 DEF RemoveDirectory, JobStage
    <2>2. Done(c) \/ Put(c, [j EXCEPT !.at = "del"])
      BY <1>1, <1>7 DEF RemoveDirectory
    <2> QED BY <1>3, <1>4, <2>1, <2>2
  <1>8. CASE Rename(c) \/ IndexSwap(c)
    <2>1. j.op # "WIPE"
      BY <1>1, <1>2, <1>8 DEF Rename, IndexSwap, JobStage
    <2>2. Done(c) \/ Put(c, [j EXCEPT !.at = "swap"]) \/ Put(c, [j EXCEPT !.at = "add"])
      BY <1>1, <1>8 DEF Rename, IndexSwap
    <2> QED BY <1>3, <1>4, <2>1, <2>2
  <1>9. CASE NewStep(c)
    <2>1. j.op # "WIPE" /\ (Done(c) \/ \E todo : Put(c, [j EXCEPT !.todo = todo]))
      BY <1>1, <1>9 DEF NewStep
    <2>2. ASSUME NEW todo, Put(c, [j EXCEPT !.todo = todo]) PROVE act'[c].op # "WIPE"
      <3>1. act'[c] = [j EXCEPT !.todo = todo]
        BY <2>2, PutOthers DEF FileInv
      <3> QED BY <1>2, <2>1, <3>1 DEF JobShape
    <2> QED BY <1>3, <2>1, <2>2
  <1> QED BY <1>5, <1>6, <1>7, <1>8, <1>9

\* A wipe that nobody mixes with keeps all that is left covered.
LEMMA AloneWipes ==
  ASSUME FileInv, SoloInv, NEW c \in Clients, Begins(c) \/ GoesOn(c), ~mixed' => LeftCovered(act'[c], tree')
  PROVE  WipeInv'
PROOF
  <1> SUFFICES ASSUME ~mixed' PROVE \A d \in Clients : LeftCovered(act[d], tree)'
    BY DEF WipeInv
  <1>1. Free.op # "WIPE"
    BY DEF Free, Job
  <1>2. ASSUME NEW d \in Clients, d # c PROVE LeftCovered(act[d], tree)'
    BY <1>1, <1>2, ActsAlone DEF LeftCovered
  <1>3. LeftCovered(act[c], tree)'
    BY DEF LeftCovered, Covered
  <1> QED BY <1>2, <1>3

\* Every step keeps it so.
LEMMA WipeInvNext ==
  ASSUME FileAssumption, FileInv, SoloInv, WipeInv, [Next]_vars
  PROVE  WipeInv'
PROOF
  <1>1. CASE UNCHANGED vars \/ SetUmask
    <2>1. UNCHANGED <<tree, act, mixed>>
      BY <1>1 DEF vars, SetUmask, Keep
    <2>2. ASSUME NEW c \in Clients, LeftCovered(act[c], tree) PROVE LeftCovered(act[c], tree)'
      BY <2>1, <2>2 DEF LeftCovered, Covered
    <2> QED BY <2>1, <2>2 DEF WipeInv
  <1>2. ASSUME NEW c \in Clients, act'[c].op # "WIPE" PROVE LeftCovered(act'[c], tree')
    BY <1>2 DEF LeftCovered
  <1>3. ASSUME NEW c \in Clients,
         \/ Chdir(c) \/ MKD(c) \/ RMD(c) \/ DELE(c) \/ RNFR(c) \/ RNTO(c) \/ CreateFile(c) \/ Utimes(c)
         \/ WIPE(c) \/ CHOWN(c) \/ CHMOD(c) \/ UPDATE(c) \/ NewBegin(c)
        PROVE WipeInv'
    <2>1. Begins(c) /\ act[c] = Free
      BY <1>3, Beginning DEF Begins
    <2>2. LeftCovered(act'[c], tree')
      BY <1>2, <1>3, <2>1, NoWipeBegins, WipeBegins
    <2> QED BY <2>1, <2>2, AloneWipes
  <1>4. ASSUME NEW c \in Clients,
         \/ SetOwner(c) \/ IndexAdd(c) \/ RemoveDirectory(c) \/ IndexDelete(c) \/ DeleteFile(c) \/ Rename(c)
         \/ IndexSwap(c) \/ WipeStep(c) \/ WipeEnd(c) \/ NewStep(c)
        PROVE WipeInv'
    <2>1. GoesOn(c)
      BY <1>4, Going
    <2>2. ~mixed' => LeftCovered(act'[c], tree')
      <3>1. CASE WipeStep(c)
        <4>1. ~mixed' => LeftCovered(act[c], tree)
          BY <2>1 DEF GoesOn, WipeInv
        <4> QED BY <3>1, <4>1, WipeGoes
      <3>2. CASE ~WipeStep(c)
        BY <1>2, <1>4, <3>2, NoWipeGoes
      <3> QED BY <3>1, <3>2
    <2> QED BY <2>1, <2>2, AloneWipes
  <1> QED BY <1>1, <1>3, <1>4 DEF Next

\* It is so initially.
LEMMA WipeInvInit ==
  ASSUME Init
  PROVE  WipeInv
PROOF
  <1>1. \A c \in Clients : act[c] = Free
    BY DEF Init
  <1>2. Free.op # "WIPE"
    BY DEF Free, Job
  <1> QED BY <1>1, <1>2 DEF WipeInv, LeftCovered

\* However deep the directories and in whatever order they are read: a WIPE that no other
\* command overlapped and that ends without an error has left nothing in what it was given.
THEOREM WipeIsWhole == FileAssumption => (Spec => [][LeaveNothing]_vars)
PROOF
  <1> SUFFICES ASSUME FileAssumption PROVE Spec => [][LeaveNothing]_vars
    OBVIOUS
  <1> DEFINE I == FileInv /\ SoloInv /\ WipeInv
  <1>1. Init => I
    BY FileInvInit, SoloInvInit, WipeInvInit
  <1>2. I /\ [Next]_vars => I'
    BY FileInvNext, SoloInvNext, WipeInvNext
  <1>3. I => LeaveNothing
    <2> SUFFICES ASSUME I, NEW c \in Clients, ~mixed, act[c].op = "WIPE", act[c].todo = <<>>, act[c].failed = 0
                 PROVE  Children(act[c].p) = {}
      BY DEF LeaveNothing
    <2>1. PICK p \in Paths : p = act[c].p
      BY AtJob DEF JobInv, JobShape
    <2>2. \A x : ~Covered(<<>>, x)
      BY DEF Covered
    <2>3. \A x \in DOMAIN tree : ~Below(p, x)
      BY <2>1, <2>2 DEF WipeInv, LeftCovered
    <2>4. ASSUME NEW q \in Children(p) PROVE FALSE
      <3>1. q \in DOMAIN tree /\ q # Root /\ Dirname(q) = p
        BY DEF Children
      <3>2. p \in Seq(Names) /\ q \in Seq(Names)
        BY <3>1, PathIsSeq, InTree DEF FileInv
      <3>3. IsPrefix(p, p)
        BY <3>2, PrefixAt
      <3>4. Below(p, q)
        BY <3>1, <3>2, <3>3, PrefixOfParent DEF Below
      <3> QED BY <2>3, <3>1, <3>4
    <2> QED BY <2>1, <2>4
  <1>4. I /\ [Next]_vars => [LeaveNothing]_vars
    BY <1>3
  <1> QED BY <1>1, <1>2, <1>4, PTL DEF Spec

-----------------------------------------------------------------------------
(* Scripts: the inductive invariant *)

Stages == {"closed", "piped", "reading", "close", "term", "kill"}
Deaths == {"zero", "one", "signal"}
ChildStates ==
  [state : {"none", "running", "dead"}, how : Scr!Behaviour, open : BOOLEAN, written : Nat,
   died : Deaths \cup {"no"}]
Verdicts == [refused : BOOLEAN, postFailed : BOOLEAN]

ScriptTypes ==
  /\ commandOf = [s \in ScriptSessions |-> commandOf[s]]
  /\ replies \in [ScriptSessions -> Nat] /\ numCommands \in [ScriptSessions -> Nat]
  /\ performed \in [ScriptSessions -> BOOLEAN] /\ results \in [ScriptSessions -> Verdicts]
  /\ child \in [ScriptSessions -> ChildStates] /\ stage \in [ScriptSessions -> Stages]
  /\ serverHolds \in [ScriptSessions -> BOOLEAN]
  /\ exitStatus \in [ScriptSessions -> Deaths \cup {"unset"}]
  /\ holders \in [ScriptSessions -> SUBSET ScriptSessions]

\* The scripts of a command, and the one that answers it.
NumSlots(kind) == IF kind = "stor" THEN 4 ELSE 3
Answer(kind) == IF kind = "stor" THEN 3 ELSE 2

\* While a command runs no script has refused it, it has been answered by those slots
\* that answer, and its body has run by the third slot at the earliest.
CommandInv(s) ==
  LET c == commandOf[s]  extra == IF results[s].postFailed THEN 1 ELSE 0 IN
  /\ performed[s] => ~results[s].refused
  /\ c = Scr!Idle /\ numCommands[s] > 0 => replies[s] = 1 + extra
  /\ c \notin {Scr!Idle, Scr!Ended} =>
       /\ c.kind \in {"stor", "mkd", "exec"} /\ c.slot \in 1 .. NumSlots(c.kind)
       /\ c = [kind |-> c.kind, slot |-> c.slot]
       /\ ~results[s].refused /\ (performed[s] => c.slot >= 3)
       /\ results[s].postFailed => c.kind = "stor" /\ c.slot = 4
       /\ replies[s] = extra + IF c.slot > Answer(c.kind) THEN 1 ELSE 0

\* A script is read only for a command; the server holds a write end until the fork; a
\* child that is left can only be one that SIGKILL did not end.
ReaderInv(s) ==
  LET c == child[s] IN
  /\ commandOf[s] = Scr!Idle => stage[s] = "closed"
  /\ stage[s] \in {"piped", "reading"} => Scr!Busy(s)
  /\ serverHolds[s] => stage[s] = "piped"
  /\ stage[s] = "piped" => c.state = "none"
  /\ stage[s] \notin {"closed", "piped"} => c.state # "none"
  /\ stage[s] = "kill" /\ c.state = "running" => c.how.stuck
  /\ stage[s] = "closed" /\ c.state # "none" => c.state = "running" /\ c.how.stuck
  /\ c.state = "dead" => c.died \in Deaths

\* Who holds a copy of a pipe runs.
HolderInv == \A s \in ScriptSessions : \A t \in holders[s] : child[t].state = "running"

ScriptInv ==
  /\ ScriptTypes /\ HolderInv
  /\ \A s \in ScriptSessions : CommandInv(s) /\ ReaderInv(s)

-----------------------------------------------------------------------------
(* Scripts: what the end of a script means *)

\* The script at each place of a command, and whether it is the last.
LEMMA Places ==
  ASSUME NEW s \in ScriptSessions, NEW kind \in {"stor", "mkd", "exec"},
         NEW slot \in 1 .. NumSlots(kind), commandOf[s] = [kind |-> kind, slot |-> slot]
  PROVE  /\ Scr!Last(s) <=> slot = NumSlots(kind)
         /\ Scr!Slot(s) =
              CASE slot = 1 -> "pre"
                [] slot = 2 -> (IF kind = "stor" THEN "precheck"
                                ELSE IF kind = "mkd" THEN "predircheck" ELSE "exec")
                [] slot = 3 -> (IF kind = "stor" THEN "postcheck" ELSE "post")
                [] slot = 4 -> "post"
PROOF
  <1>1. commandOf[s].kind = kind /\ commandOf[s].slot = slot
    OBVIOUS
  <1>5. Scr!Slot(s) = Scr!Slots[kind][slot] /\ (Scr!Last(s) <=> slot = Len(Scr!Slots[kind]))
    BY <1>1 DEF Scr!Slot, Scr!Last
  <1>2. CASE kind = "stor"
    <2>1. Scr!Slots[kind] = <<"pre", "precheck", "postcheck", "post">>
      BY <1>2 DEF Scr!Slots
    <2>2. slot \in {1, 2, 3, 4} /\ NumSlots(kind) = 4
      BY <1>2 DEF NumSlots
    <2>3. /\ Len(<<"pre", "precheck", "postcheck", "post">>) = 4
          /\ <<"pre", "precheck", "postcheck", "post">>[1] = "pre"
          /\ <<"pre", "precheck", "postcheck", "post">>[2] = "precheck"
          /\ <<"pre", "precheck", "postcheck", "post">>[3] = "postcheck"
          /\ <<"pre", "precheck", "postcheck", "post">>[4] = "post"
      OBVIOUS
    <2>4. /\ Len(Scr!Slots[kind]) = 4
          /\ Scr!Slots[kind][1] = "pre" /\ Scr!Slots[kind][2] = "precheck" /\ Scr!Slots[kind][3] = "postcheck" /\ Scr!Slots[kind][4] = "post"
      BY <2>1, <2>3
    <2> QED BY <1>2, <1>5, <2>2, <2>4
  <1>3. CASE kind = "mkd"
    <2>1. Scr!Slots[kind] = <<"pre", "predircheck", "post">>
      BY <1>3 DEF Scr!Slots
    <2>2. slot \in {1, 2, 3} /\ NumSlots(kind) = 3
      BY <1>3 DEF NumSlots
    <2>3. /\ Len(<<"pre", "predircheck", "post">>) = 3
          /\ <<"pre", "predircheck", "post">>[1] = "pre"
          /\ <<"pre", "predircheck", "post">>[2] = "predircheck"
          /\ <<"pre", "predircheck", "post">>[3] = "post"
      OBVIOUS
    <2>4. /\ Len(Scr!Slots[kind]) = 3
          /\ Scr!Slots[kind][1] = "pre" /\ Scr!Slots[kind][2] = "predircheck" /\ Scr!Slots[kind][3] = "post"
      BY <2>1, <2>3
    <2> QED BY <1>3, <1>5, <2>2, <2>4
  <1>4. CASE kind = "exec"
    <2>1. Scr!Slots[kind] = <<"pre", "exec", "post">>
      BY <1>4 DEF Scr!Slots
    <2>2. slot \in {1, 2, 3} /\ NumSlots(kind) = 3
      BY <1>4 DEF NumSlots
    <2>3. /\ Len(<<"pre", "exec", "post">>) = 3
          /\ <<"pre", "exec", "post">>[1] = "pre"
          /\ <<"pre", "exec", "post">>[2] = "exec"
          /\ <<"pre", "exec", "post">>[3] = "post"
      OBVIOUS
    <2>4. /\ Len(Scr!Slots[kind]) = 3
          /\ Scr!Slots[kind][1] = "pre" /\ Scr!Slots[kind][2] = "exec" /\ Scr!Slots[kind][3] = "post"
      BY <2>1, <2>3
    <2> QED BY <1>4, <1>5, <2>2, <2>4
  <1> QED BY <1>2, <1>3, <1>4

\* What follows the end of a script: the command ends with a reply, which a script that
\* refuses before the body brings about, or goes on to the next place.
LEMMA Consequences ==
  ASSUME NEW s \in ScriptSessions, NEW kind \in {"stor", "mkd", "exec"},
         NEW slot \in 1 .. NumSlots(kind), commandOf[s] = [kind |-> kind, slot |-> slot],
         NEW outcome
  PROVE  LET c == Scr!Consequence(s, outcome)
             next == IF slot = NumSlots(kind) THEN Scr!Idle ELSE [kind |-> kind, slot |-> slot + 1]
             refuses == Scr!Slot(s) \in Scr!BeforeBody /\ outcome # "zero" IN
         /\ refuses => c.next = Scr!Idle /\ c.replies = 1 /\ ~c.does
         /\ ~refuses =>
              /\ c.next = next /\ (c.does => slot = 2) /\ c.does \in BOOLEAN
              /\ c.replies = IF slot # Answer(kind) THEN 0
                             ELSE IF kind = "stor" /\ outcome = "failed" THEN 2 ELSE 1
PROOF
  <1> DEFINE c == Scr!Consequence(s, outcome)
             next == IF slot = NumSlots(kind) THEN Scr!Idle ELSE [kind |-> kind, slot |-> slot + 1]
  <1>1. Scr!Advance(s) = next
    <2>1. [commandOf[s] EXCEPT !.slot = @ + 1] = [kind |-> kind, slot |-> slot + 1]
      OBVIOUS
    <2> QED BY <2>1, Places DEF Scr!Advance
  <1>2. slot \in {1, 2, 3, 4} /\ (slot = 4 => kind = "stor")
    BY DEF NumSlots
  <1> HIDE DEF next
  <1>3. CASE slot = 1
    <2>1. Scr!Slot(s) = "pre"
      BY <1>3, Places
    <2>2. c = Scr!PreCscript(s, outcome)
      BY <2>1 DEF Scr!Consequence
    <2>3. Answer(kind) # 1
      BY DEF Answer
    <2> QED BY <1>1, <1>3, <2>1, <2>2, <2>3 DEF Scr!PreCscript, Scr!BeforeBody, next
  <1>4. CASE slot = 2 /\ kind # "exec"
    <2>1. Scr!Slot(s) = IF kind = "stor" THEN "precheck" ELSE "predircheck"
      BY <1>4, Places
    <2>2. c = Scr!PreCheck(s, outcome)
      BY <2>1 DEF Scr!Consequence
    <2>3. Answer(kind) = IF kind = "stor" THEN 3 ELSE 2
      BY DEF Answer
    <2> QED BY <1>1, <1>4, <2>1, <2>2, <2>3 DEF Scr!PreCheck, Scr!BeforeBody, next
  <1>5. CASE slot = 2 /\ kind = "exec"
    <2>1. Scr!Slot(s) = "exec"
      BY <1>5, Places
    <2>2. c = Scr!CustomExec(s, outcome)
      BY <2>1 DEF Scr!Consequence
    <2>3. Answer(kind) = 2
      BY <1>5 DEF Answer
    <2> QED BY <1>1, <1>5, <2>1, <2>2, <2>3 DEF Scr!CustomExec, Scr!BeforeBody, next
  <1>6. CASE slot = 3 /\ kind = "stor"
    <2>1. Scr!Slot(s) = "postcheck"
      BY <1>6, Places
    <2>2. c = Scr!PostCheck(s, outcome)
      BY <2>1 DEF Scr!Consequence
    <2>3. Answer(kind) = 3
      BY <1>6 DEF Answer
    <2> QED BY <1>1, <1>6, <2>1, <2>2, <2>3 DEF Scr!PostCheck, Scr!BeforeBody, next
  <1>7. CASE slot = 4 \/ (slot = 3 /\ kind # "stor")
    <2>1. Scr!Slot(s) = "post"
      BY <1>2, <1>7, Places
    <2>2. c = [next |-> Scr!Advance(s), replies |-> 0, does |-> FALSE]
      BY <2>1 DEF Scr!Consequence
    <2>3. Answer(kind) # slot
      BY <1>2, <1>7 DEF Answer
    <2> QED BY <1>1, <1>7, <2>1, <2>2, <2>3 DEF Scr!BeforeBody, next
  <1> QED BY <1>2, <1>3, <1>4, <1>5, <1>6, <1>7

\* What the end of a script records.
LEMMA Recorded ==
  ASSUME ScriptTypes, NEW s \in ScriptSessions, NEW outcome, NEW what, Scr!Conclude(s, outcome, what)
  PROVE  LET c == Scr!Consequence(s, outcome) IN
         /\ commandOf' = [commandOf EXCEPT ![s] = c.next] /\ commandOf'[s] = c.next
         /\ replies'[s] = replies[s] + c.replies
         /\ performed'[s] <=> performed[s] \/ c.does
         /\ results'[s].refused <=>
              results[s].refused
                \/ (Scr!Slot(s) \in Scr!BeforeBody /\ what \notin {"zero", "skipped", "survived"})
         /\ results'[s].postFailed <=>
              results[s].postFailed \/ (Scr!Slot(s) = "postcheck" /\ what = "failed")
         /\ results' \in [ScriptSessions -> Verdicts] /\ numCommands' = numCommands
         /\ \A t \in ScriptSessions \ {s} :
              /\ commandOf'[t] = commandOf[t] /\ replies'[t] = replies[t]
              /\ performed'[t] = performed[t] /\ results'[t] = results[t]
PROOF
  <1> DEFINE c == Scr!Consequence(s, outcome)
             r == results[s].refused
               \/ (Scr!Slot(s) \in Scr!BeforeBody /\ what \notin {"zero", "skipped", "survived"})
             p == results[s].postFailed \/ (Scr!Slot(s) = "postcheck" /\ what = "failed")
  <1>0. /\ DOMAIN commandOf = ScriptSessions /\ DOMAIN replies = ScriptSessions
        /\ DOMAIN performed = ScriptSessions /\ DOMAIN results = ScriptSessions
        /\ results \in [ScriptSessions -> Verdicts] /\ results[s] \in Verdicts
    BY DEF ScriptTypes
  <1>1. /\ commandOf' = [commandOf EXCEPT ![s] = c.next]
        /\ replies' = [replies EXCEPT ![s] = replies[s] + c.replies]
        /\ performed' = [performed EXCEPT ![s] = performed[s] \/ c.does]
        /\ results' = [results EXCEPT ![s].refused = r, ![s].postFailed = p]
        /\ numCommands' = numCommands
    BY DEF Scr!Conclude
  <1>2. r \in BOOLEAN /\ p \in BOOLEAN
    OBVIOUS
  <1> HIDE DEF c, r, p
  <1>3. results' = [results EXCEPT ![s] = [refused |-> r, postFailed |-> p]]
    <2>1. [results[s] EXCEPT !.refused = r] = [refused |-> r, postFailed |-> results[s].postFailed]
      BY <1>0 DEF Verdicts
    <2>2. [[refused |-> r, postFailed |-> results[s].postFailed] EXCEPT !.postFailed = p]
            = [refused |-> r, postFailed |-> p]
      OBVIOUS
    <2>3. [results EXCEPT ![s].refused = r, ![s].postFailed = p]
            = [results EXCEPT ![s] = [[results[s] EXCEPT !.refused = r] EXCEPT !.postFailed = p]]
      BY <1>0
    <2> QED BY <1>1, <2>1, <2>2, <2>3
  <1>4. results'[s] = [refused |-> r, postFailed |-> p] /\ results' \in [ScriptSessions -> Verdicts]
    BY <1>0, <1>2, <1>3 DEF Verdicts
  <1>5. results'[s].refused = r /\ results'[s].postFailed = p
    BY <1>4
  <1>6. /\ commandOf'[s] = c.next /\ replies'[s] = replies[s] + c.replies
        /\ performed'[s] = (performed[s] \/ c.does)
        /\ \A t \in ScriptSessions \ {s} :
              /\ commandOf'[t] = commandOf[t] /\ replies'[t] = replies[t]
              /\ performed'[t] = performed[t] /\ results'[t] = results[t]
    BY <1>0, <1>1, <1>3
  <1> QED BY <1>1, <1>4, <1>5, <1>6 DEF c, r, p

\* The end of a script leaves a command in order: if a script refused it, it is over and
\* its body has not run; when it is over it has its reply.
LEMMA ConcludeKeeps ==
  ASSUME ScriptTypes, NEW s \in ScriptSessions, CommandInv(s), Scr!Busy(s), NEW outcome, NEW what,
         Scr!Conclude(s, outcome, what),
         what \notin {"zero", "skipped", "survived"} => outcome # "zero",
         what = "failed" <=> outcome = "failed"
  PROVE  CommandInv(s)'
PROOF
  <1> DEFINE c == Scr!Consequence(s, outcome)
             prior == Scr!Slot(s) \in Scr!BeforeBody
  <1>0. PICK kind \in {"stor", "mkd", "exec"} :
          \E i \in 1 .. NumSlots(kind) : commandOf[s] = [kind |-> kind, slot |-> i]
    BY DEF CommandInv, Scr!Busy
  <1>1. PICK slot \in 1 .. NumSlots(kind) : commandOf[s] = [kind |-> kind, slot |-> slot]
    BY <1>0
  <1>2. /\ commandOf[s].kind = kind /\ commandOf[s].slot = slot /\ slot \in Nat
        /\ slot \in {1, 2, 3, 4} /\ (slot = 4 => kind = "stor")
        /\ replies[s] \in Nat
    BY <1>1 DEF NumSlots, ScriptTypes
  <1>3. /\ ~results[s].refused /\ (performed[s] => slot >= 3)
        /\ results[s].postFailed => kind = "stor" /\ slot = 4
        /\ replies[s] = (IF results[s].postFailed THEN 1 ELSE 0) + IF slot > Answer(kind) THEN 1 ELSE 0
    BY <1>1, <1>2 DEF CommandInv, Scr!Busy
  <1>4. /\ commandOf'[s] = c.next /\ replies'[s] = replies[s] + c.replies
        /\ performed'[s] <=> performed[s] \/ c.does
        /\ results'[s].refused <=> prior /\ what \notin {"zero", "skipped", "survived"}
        /\ results'[s].postFailed <=>
             results[s].postFailed \/ (Scr!Slot(s) = "postcheck" /\ what = "failed")
        /\ numCommands' = numCommands
    BY <1>3, Recorded
  <1>5. /\ prior <=> slot = 1 \/ (slot = 2 /\ kind # "exec")
        /\ Scr!Slot(s) = "postcheck" <=> slot = 3 /\ kind = "stor"
    BY <1>1, <1>2, Places DEF Scr!BeforeBody
  <1>6. Answer(kind) = IF kind = "stor" THEN 3 ELSE 2
    BY DEF Answer
  <1>7. Scr!Idle # Scr!Ended /\ Scr!Idle.slot = 0
    BY DEF Scr!Idle, Scr!Ended
  <1>8. CASE prior /\ outcome # "zero"
    <2>1. c.next = Scr!Idle /\ c.replies = 1 /\ ~c.does
      BY <1>1, <1>8, Consequences
    <2>2. replies[s] = 0 /\ ~performed[s] /\ ~results[s].postFailed
      BY <1>2, <1>3, <1>5, <1>6, <1>8
    <2>3. ~results'[s].postFailed /\ ~performed'[s] /\ replies'[s] = 1
      BY <1>4, <1>5, <1>8, <2>1, <2>2
    <2> QED BY <1>4, <1>7, <2>1, <2>3 DEF CommandInv
  <1>9. CASE ~(prior /\ outcome # "zero")
    <2> DEFINE next == IF slot = NumSlots(kind) THEN Scr!Idle ELSE [kind |-> kind, slot |-> slot + 1]
    <2>1. /\ c.next = next /\ (c.does => slot = 2)
          /\ c.replies = IF slot # Answer(kind) THEN 0
                         ELSE IF kind = "stor" /\ outcome = "failed" THEN 2 ELSE 1
      BY <1>1, <1>9, Consequences
    <2>2. ~results'[s].refused
      BY <1>4, <1>9
    <2>3. /\ performed'[s] => slot >= 2
          /\ results'[s].postFailed => kind = "stor" /\ slot >= 3
          /\ results'[s].postFailed <=>
               results[s].postFailed \/ (slot = Answer(kind) /\ kind = "stor" /\ outcome = "failed")
      BY <1>2, <1>3, <1>4, <1>5, <1>6, <2>1
    <2>4. replies'[s] = (IF results'[s].postFailed THEN 1 ELSE 0) + IF slot >= Answer(kind) THEN 1 ELSE 0
      <3>1. CASE slot = Answer(kind)
        BY <1>2, <1>3, <1>4, <1>6, <2>1, <2>3, <3>1
      <3>2. CASE slot # Answer(kind)
        BY <1>2, <1>3, <1>4, <1>6, <2>1, <2>3, <3>2
      <3> QED BY <3>1, <3>2
    <2>5. NumSlots(kind) = (IF kind = "stor" THEN 4 ELSE 3) /\ slot <= NumSlots(kind)
      BY <1>2 DEF NumSlots
    <2>6. CASE slot = NumSlots(kind)
      <3>1. commandOf'[s] = Scr!Idle /\ slot >= Answer(kind)
        BY <1>4, <1>6, <2>1, <2>5, <2>6
      <3>2. replies'[s] = 1 + (IF results'[s].postFailed THEN 1 ELSE 0)
        BY <2>4, <3>1
      <3> QED BY <1>7, <2>2, <3>1, <3>2 DEF CommandInv
    <2>7. CASE slot # NumSlots(kind)
      <3>1. commandOf'[s] = [kind |-> kind, slot |-> slot + 1]
        BY <1>4, <2>1, <2>7
      <3>2. commandOf'[s].kind = kind /\ commandOf'[s].slot = slot + 1
        BY <3>1
      <3>3. slot + 1 \in 1 .. NumSlots(kind)
        BY <1>2, <2>5, <2>7
      <3>4. commandOf'[s] # Scr!Idle
        BY <1>2, <1>7, <3>2
      <3>5. /\ performed'[s] => slot + 1 >= 3
            /\ results'[s].postFailed => kind = "stor" /\ slot + 1 = 4
        BY <1>2, <2>3, <2>5, <2>7
      <3>6. slot >= Answer(kind) <=> slot + 1 > Answer(kind)
        BY <1>2, <1>6
      <3> HIDE DEF c, prior
      <3> QED BY <2>2, <2>4, <3>1, <3>2, <3>3, <3>4, <3>5, <3>6 DEF CommandInv
    <2> QED BY <2>6, <2>7
  <1> QED BY <1>8, <1>9

-----------------------------------------------------------------------------
(* Scripts: the steps of a session *)

\* A command and its checks; the pipe and the fork; the script; the reader.
CheckStep(s) ==
  (\E kind \in KindsOf[s] : Scr!Command(s, kind)) \/ Scr!NoScript(s) \/ Scr!ExecFails(s)
PipeStep(s) == Scr!MakePipe(s) \/ \E how \in Behaviours[s] : Scr!Fork(s, how)
ChildStep(s) == Scr!ChildWrites(s) \/ Scr!ChildCloses(s) \/ Scr!ChildExits(s)
ReadStep(s) == Scr!GetlineMore(s) \/ Scr!GetlineEnd(s) \/ Scr!StopReading(s) \/ Scr!Interrupt(s)
CloseStep(s) == Scr!Reap(s) \/ Scr!Terminate(s) \/ Scr!Kill(s) \/ Scr!GiveUp(s)
SessionStep(s) == CheckStep(s) \/ PipeStep(s) \/ ChildStep(s) \/ ReadStep(s) \/ CloseStep(s)

\* These are all steps.
LEMMA ScriptSteps ==
  ASSUME [Scr!Next]_(Scr!scriptVars)
  PROVE  (\E s \in ScriptSessions : SessionStep(s)) \/ UNCHANGED Scr!scriptVars
PROOF BY DEF Scr!Next, SessionStep, CheckStep, PipeStep, ChildStep, ReadStep, CloseStep

\* What belongs to a session stays as it is.
SameScript(s) ==
  /\ commandOf'[s] = commandOf[s] /\ performed'[s] = performed[s] /\ results'[s] = results[s]
  /\ replies'[s] = replies[s] /\ numCommands'[s] = numCommands[s]
  /\ child'[s] = child[s] /\ stage'[s] = stage[s] /\ serverHolds'[s] = serverHolds[s]

\* It keeps its invariants.
LEMMA SameScriptKeeps ==
  ASSUME NEW s \in ScriptSessions, CommandInv(s), ReaderInv(s), SameScript(s)
  PROVE  CommandInv(s)' /\ ReaderInv(s)'
PROOF BY DEF CommandInv, ReaderInv, SameScript, Scr!Busy

\* What a script that ends leaves of its record.
LEMMA Died ==
  ASSUME ScriptTypes, NEW s \in ScriptSessions, NEW how \in Deaths, Scr!Dies(s, how)
  PROVE  /\ child' \in [ScriptSessions -> ChildStates]
         /\ child'[s].state = "dead" /\ child'[s].how = child[s].how /\ child'[s].died = how
         /\ \A t \in ScriptSessions \ {s} : child'[t] = child[t]
         /\ holders' = [t \in ScriptSessions |-> holders[t] \ {s}]
PROOF
  <1> DEFINE c == child[s]
             h == c.how  o == c.open  w == c.written  d == c.died  shut == FALSE
             dead == [state |-> "dead", how |-> h, open |-> shut, written |-> w, died |-> how]
  <1>0. child \in [ScriptSessions -> ChildStates] /\ c \in ChildStates
    BY DEF ScriptTypes
  <1>1. c = [state |-> c.state, how |-> h, open |-> o, written |-> w, died |-> d]
    BY <1>0 DEF ChildStates
  <1>2. /\ child' = [child EXCEPT ![s].state = "dead", ![s].open = shut, ![s].died = how]
        /\ holders' = [t \in ScriptSessions |-> holders[t] \ {s}]
    BY DEF Scr!Dies
  <1>3. dead \in ChildStates /\ dead.state = "dead" /\ dead.how = h /\ dead.died = how
    BY <1>0 DEF ChildStates
  <1> HIDE DEF h, o, w, d, shut
  <1>4. child' = [child EXCEPT ![s] = [[[c EXCEPT !.state = "dead"] EXCEPT !.open = shut] EXCEPT !.died = how]]
    BY <1>0, <1>2
  <1>5. [c EXCEPT !.state = "dead"]
          = [state |-> "dead", how |-> h, open |-> o, written |-> w, died |-> d]
    BY <1>1
  <1>6. [[state |-> "dead", how |-> h, open |-> o, written |-> w, died |-> d] EXCEPT !.open = shut]
          = [state |-> "dead", how |-> h, open |-> shut, written |-> w, died |-> d]
    OBVIOUS
  <1>7. [[state |-> "dead", how |-> h, open |-> shut, written |-> w, died |-> d] EXCEPT !.died = how] = dead
    OBVIOUS
  <1> HIDE DEF dead
  <1>8. child' = [child EXCEPT ![s] = dead]
    BY <1>4, <1>5, <1>6, <1>7
  <1> HIDE DEF c
  <1>9. child' \in [ScriptSessions -> ChildStates] /\ child'[s] = dead
        /\ \A t \in ScriptSessions \ {s} : child'[t] = child[t]
    BY <1>0, <1>3, <1>8
  <1> QED BY <1>2, <1>3, <1>9 DEF c, h

\* A step of one session leaves the others what belongs to them.
LEMMA OtherScripts ==
  ASSUME ScriptTypes, NEW s \in ScriptSessions, SessionStep(s), NEW t \in ScriptSessions, t # s
  PROVE  SameScript(t)
PROOF
  <1>0. /\ DOMAIN commandOf = ScriptSessions /\ DOMAIN replies = ScriptSessions
        /\ DOMAIN performed = ScriptSessions /\ DOMAIN results = ScriptSessions
        /\ DOMAIN child = ScriptSessions /\ DOMAIN stage = ScriptSessions
        /\ DOMAIN serverHolds = ScriptSessions /\ DOMAIN numCommands = ScriptSessions
    BY DEF ScriptTypes
  <1>1. ASSUME NEW outcome, NEW what, Scr!Conclude(s, outcome, what)
        PROVE  /\ commandOf'[t] = commandOf[t] /\ replies'[t] = replies[t]
               /\ performed'[t] = performed[t] /\ results'[t] = results[t]
               /\ numCommands' = numCommands
    BY <1>1, Recorded
  <1>2. CASE CheckStep(s)
    <2>1. CASE \E kind \in KindsOf[s] : Scr!Command(s, kind)
      BY <1>0, <2>1 DEF Scr!Command, Scr!readerVars, SameScript
    <2>2. CASE Scr!NoScript(s)
      BY <1>1, <2>2 DEF Scr!NoScript, Scr!readerVars, SameScript
    <2>3. CASE Scr!ExecFails(s)
      BY <1>0, <1>1, <2>3 DEF Scr!ExecFails, SameScript
    <2> QED BY <1>2, <2>1, <2>2, <2>3 DEF CheckStep
  <1>3. CASE PipeStep(s)
    BY <1>0, <1>3 DEF PipeStep, Scr!MakePipe, Scr!Fork, SameScript
  <1>4. CASE ChildStep(s)
    BY <1>0, <1>4 DEF ChildStep, Scr!ChildWrites, Scr!ChildCloses, Scr!ChildExits, Scr!Dies, SameScript
  <1>5. CASE ReadStep(s)
    BY <1>0, <1>5 DEF ReadStep, Scr!GetlineMore, Scr!GetlineEnd, Scr!StopReading, Scr!Interrupt, SameScript
  <1>6. CASE CloseStep(s)
    <2>1. CASE Scr!Reap(s)
      <3>1. /\ commandOf'[t] = commandOf[t] /\ replies'[t] = replies[t]
            /\ performed'[t] = performed[t] /\ results'[t] = results[t] /\ numCommands' = numCommands
        BY <1>1, <2>1 DEF Scr!Reap
      <3> QED BY <1>0, <2>1, <3>1 DEF Scr!Reap, SameScript
    <2>2. CASE Scr!GiveUp(s)
      <3>1. /\ commandOf'[t] = commandOf[t] /\ replies'[t] = replies[t]
            /\ performed'[t] = performed[t] /\ results'[t] = results[t] /\ numCommands' = numCommands
        BY <1>1, <2>2 DEF Scr!GiveUp
      <3> QED BY <1>0, <2>2, <3>1 DEF Scr!GiveUp, SameScript
    <2>3. CASE Scr!Terminate(s) \/ Scr!Kill(s)
      BY <1>0, <2>3 DEF Scr!Terminate, Scr!Kill, Scr!Dies, SameScript
    <2> QED BY <1>6, <2>1, <2>2, <2>3 DEF CloseStep
  <1> QED BY <1>2, <1>3, <1>4, <1>5, <1>6 DEF SessionStep

\* No script has a record too.
LEMMA NoChildTyped == Scr!NoChild \in ChildStates /\ Scr!NoChild.state = "none"
PROOF
  <1>1. [code |-> "zero", ignoresTerm |-> FALSE, stuck |-> FALSE, noexec |-> FALSE] \in Scr!Behaviour
    BY DEF Scr!Behaviour
  <1>2. (CHOOSE b \in Scr!Behaviour : TRUE) \in Scr!Behaviour
    BY <1>1
  <1> QED BY <1>2 DEF Scr!NoChild, ChildStates

\* The reader and its script after each step of their session.
LEMMA ReaderMoves ==
  ASSUME Scr!ScriptAssumption, ScriptTypes, NEW s \in ScriptSessions, ReaderInv(s), SessionStep(s)
  PROVE  /\ child' \in [ScriptSessions -> ChildStates] /\ stage' \in [ScriptSessions -> Stages]
         /\ serverHolds' \in [ScriptSessions -> BOOLEAN]
         /\ exitStatus' \in [ScriptSessions -> Deaths \cup {"unset"}]
         /\ serverHolds'[s] => stage'[s] = "piped"
         /\ stage'[s] = "piped" => child'[s].state = "none"
         /\ stage'[s] \notin {"closed", "piped"} => child'[s].state # "none"
         /\ stage'[s] = "kill" /\ child'[s].state = "running" => child'[s].how.stuck
         /\ stage'[s] = "closed" /\ child'[s].state # "none" =>
              child'[s].state = "running" /\ child'[s].how.stuck
         /\ child'[s].state = "dead" => child'[s].died \in Deaths
PROOF
  <1> DEFINE c == child[s]
             Goal == /\ child' \in [ScriptSessions -> ChildStates] /\ stage' \in [ScriptSessions -> Stages]
                     /\ serverHolds' \in [ScriptSessions -> BOOLEAN]
                     /\ exitStatus' \in [ScriptSessions -> Deaths \cup {"unset"}]
                     /\ serverHolds'[s] => stage'[s] = "piped"
                     /\ stage'[s] = "piped" => child'[s].state = "none"
                     /\ stage'[s] \notin {"closed", "piped"} => child'[s].state # "none"
                     /\ stage'[s] = "kill" /\ child'[s].state = "running" => child'[s].how.stuck
                     /\ stage'[s] = "closed" /\ child'[s].state # "none" =>
                          child'[s].state = "running" /\ child'[s].how.stuck
                     /\ child'[s].state = "dead" => child'[s].died \in Deaths
  <1>0. /\ child \in [ScriptSessions -> ChildStates] /\ stage \in [ScriptSessions -> Stages]
        /\ serverHolds \in [ScriptSessions -> BOOLEAN]
        /\ exitStatus \in [ScriptSessions -> Deaths \cup {"unset"}]
        /\ c \in ChildStates
    BY DEF ScriptTypes
  <1>1. /\ serverHolds[s] => stage[s] = "piped"
        /\ stage[s] = "piped" => c.state = "none"
        /\ stage[s] \notin {"closed", "piped"} => c.state # "none"
        /\ stage[s] = "kill" /\ c.state = "running" => c.how.stuck
        /\ stage[s] = "closed" /\ c.state # "none" => c.state = "running" /\ c.how.stuck
        /\ c.state = "dead" => c.died \in Deaths
    BY DEF ReaderInv
  <1>2. c.state \in {"none", "running", "dead"} /\ c.how \in Scr!Behaviour
    BY <1>0 DEF ChildStates
  <1>3. ASSUME UNCHANGED <<child, stage, serverHolds>>,
               exitStatus' \in [ScriptSessions -> Deaths \cup {"unset"}]
        PROVE  Goal
    BY <1>0, <1>1, <1>3
  <1>4. CASE CheckStep(s)
    <2>1. CASE (\E kind \in KindsOf[s] : Scr!Command(s, kind)) \/ Scr!NoScript(s)
      BY <1>0, <1>3, <2>1 DEF Scr!Command, Scr!NoScript, Scr!readerVars
    <2>2. CASE Scr!ExecFails(s)
      <3>1. /\ stage[s] = "piped" /\ child' = child
            /\ serverHolds' = [serverHolds EXCEPT ![s] = FALSE] /\ stage' = [stage EXCEPT ![s] = "closed"]
            /\ exitStatus' = [exitStatus EXCEPT ![s] = "one"]
        BY <2>2 DEF Scr!ExecFails
      <3>2. /\ serverHolds' \in [ScriptSessions -> BOOLEAN] /\ stage' \in [ScriptSessions -> Stages]
            /\ exitStatus' \in [ScriptSessions -> Deaths \cup {"unset"}]
            /\ serverHolds'[s] = FALSE /\ stage'[s] = "closed"
        BY <1>0, <3>1 DEF Stages, Deaths
      <3> QED BY <1>0, <1>1, <3>1, <3>2
    <2> QED BY <1>4, <2>1, <2>2 DEF CheckStep
  <1>5. CASE Scr!MakePipe(s)
    <2>1. /\ child' = child /\ exitStatus' = exitStatus
          /\ \/ stage' = stage /\ serverHolds' = serverHolds
             \/ /\ c.state = "none" /\ stage' = [stage EXCEPT ![s] = "piped"]
                /\ serverHolds' = [serverHolds EXCEPT ![s] = TRUE]
      BY <1>5 DEF Scr!MakePipe
    <2>2. CASE stage' = stage /\ serverHolds' = serverHolds
      BY <1>0, <1>3, <2>1, <2>2
    <2>3. CASE /\ c.state = "none" /\ stage' = [stage EXCEPT ![s] = "piped"]
               /\ serverHolds' = [serverHolds EXCEPT ![s] = TRUE]
      <3>1. /\ serverHolds' \in [ScriptSessions -> BOOLEAN] /\ stage' \in [ScriptSessions -> Stages]
            /\ stage'[s] = "piped"
        BY <1>0, <2>3 DEF Stages
      <3> QED BY <1>0, <1>1, <2>1, <2>3, <3>1
    <2> QED BY <2>1, <2>2, <2>3
  <1>6. ASSUME NEW how \in Behaviours[s], Scr!Fork(s, how) PROVE Goal
    <2> DEFINE born == [state |-> "running", how |-> how, open |-> TRUE, written |-> 0, died |-> "no"]
    <2>1. /\ stage[s] = "piped" /\ child' = [child EXCEPT ![s] = born] /\ exitStatus' = exitStatus
          /\ serverHolds' = [serverHolds EXCEPT ![s] = FALSE] /\ stage' = [stage EXCEPT ![s] = "reading"]
      BY <1>6 DEF Scr!Fork
    <2>2. born \in ChildStates /\ born.state = "running"
      BY DEF ChildStates, Scr!ScriptAssumption
    <2> HIDE DEF born
    <2>3. /\ serverHolds' \in [ScriptSessions -> BOOLEAN] /\ stage' \in [ScriptSessions -> Stages]
          /\ child' \in [ScriptSessions -> ChildStates]
          /\ serverHolds'[s] = FALSE /\ stage'[s] = "reading" /\ child'[s] = born
      BY <1>0, <2>1, <2>2 DEF Stages
    <2> QED BY <1>0, <2>1, <2>2, <2>3
  <1>7. ASSUME NEW how \in Deaths, Scr!Dies(s, how), exitStatus' = exitStatus, serverHolds' = serverHolds,
               c.state = "running", ~c.how.stuck, stage' \in [ScriptSessions -> Stages],
               stage'[s] \notin {"closed", "piped"} \/ stage' = stage
        PROVE  Goal
    <2>1. /\ child' \in [ScriptSessions -> ChildStates]
          /\ child'[s].state = "dead" /\ child'[s].how = c.how /\ child'[s].died = how
      BY <1>7, Died
    <2>2. stage[s] \notin {"closed", "piped"}
      BY <1>1, <1>7
    <2>3. ~serverHolds[s] /\ stage'[s] \notin {"closed", "piped"}
      BY <1>1, <1>7, <2>2
    <2> QED BY <1>0, <1>7, <2>1, <2>3
  <1>8. CASE ChildStep(s)
    <2>1. /\ stage' = stage /\ serverHolds' = serverHolds /\ exitStatus' = exitStatus
          /\ c.state = "running"
      BY <1>8 DEF ChildStep, Scr!ChildWrites, Scr!ChildCloses, Scr!ChildExits, Scr!Alive
    <2>2. ASSUME NEW d \in ChildStates, child' = [child EXCEPT ![s] = d], d.state = c.state,
                 d.how = c.how, d.died = c.died
          PROVE  Goal
      <3>1. child' \in [ScriptSessions -> ChildStates] /\ child'[s] = d
        BY <1>0, <2>2
      <3> QED BY <1>0, <1>1, <2>1, <2>2, <3>1
    <2>3. CASE child' = [child EXCEPT ![s].open = FALSE]
      <3>1. /\ [c EXCEPT !.open = FALSE] \in ChildStates
            /\ [c EXCEPT !.open = FALSE].state = c.state /\ [c EXCEPT !.open = FALSE].how = c.how
            /\ [c EXCEPT !.open = FALSE].died = c.died
        BY <1>0 DEF ChildStates
      <3>2. child' = [child EXCEPT ![s] = [c EXCEPT !.open = FALSE]]
        BY <1>0, <2>3
      <3> QED BY <2>2, <3>1, <3>2
    <2>4. CASE child' = [child EXCEPT ![s].written = @ + 1]
      <3> DEFINE w == c.written + 1
      <3>1. w \in Nat
        BY <1>0 DEF ChildStates
      <3>2. child' = [child EXCEPT ![s] = [c EXCEPT !.written = w]]
        BY <1>0, <2>4
      <3> HIDE DEF w
      <3>3. /\ [c EXCEPT !.written = w] \in ChildStates
            /\ [c EXCEPT !.written = w].state = c.state /\ [c EXCEPT !.written = w].how = c.how
            /\ [c EXCEPT !.written = w].died = c.died
        BY <1>0, <3>1 DEF ChildStates
      <3> QED BY <2>2, <3>2, <3>3
    <2>5. CASE ~c.how.stuck /\ (Scr!Dies(s, "signal") \/ Scr!Dies(s, c.how.code))
      <3>1. "signal" \in Deaths /\ c.how.code \in Deaths
        BY <1>2 DEF Deaths, Scr!Behaviour
      <3> QED BY <1>0, <1>7, <2>1, <2>5, <3>1
    <2> QED BY <1>8, <2>3, <2>4, <2>5 DEF ChildStep, Scr!ChildWrites, Scr!ChildCloses, Scr!ChildExits
  <1>9. CASE ReadStep(s)
    <2>1. /\ stage[s] = "reading" /\ child' = child /\ serverHolds' = serverHolds
          /\ exitStatus' = exitStatus
          /\ stage' = stage \/ stage' = [stage EXCEPT ![s] = "close"]
      BY <1>9 DEF ReadStep, Scr!GetlineMore, Scr!GetlineEnd, Scr!StopReading, Scr!Interrupt
    <2>2. stage' \in [ScriptSessions -> Stages] /\ stage'[s] \in {"reading", "close"}
      BY <1>0, <2>1 DEF Stages
    <2> QED BY <1>0, <1>1, <2>1, <2>2
  <1>10. CASE Scr!Reap(s)
    <2>1. /\ child' = [child EXCEPT ![s] = Scr!NoChild] /\ stage' = [stage EXCEPT ![s] = "closed"]
          /\ serverHolds' = serverHolds /\ exitStatus' = [exitStatus EXCEPT ![s] = c.died]
          /\ c.state = "dead" /\ stage[s] # "piped"
      BY <1>10 DEF Scr!Reap, Scr!Reaped
    <2>2. Scr!NoChild \in ChildStates /\ Scr!NoChild.state = "none"
      BY NoChildTyped
    <2>3. c.died \in Deaths /\ ~serverHolds[s]
      BY <1>1, <2>1
    <2>4. /\ child' \in [ScriptSessions -> ChildStates] /\ stage' \in [ScriptSessions -> Stages]
          /\ exitStatus' \in [ScriptSessions -> Deaths \cup {"unset"}]
          /\ child'[s] = Scr!NoChild /\ stage'[s] = "closed"
      BY <1>0, <2>1, <2>2, <2>3 DEF Stages
    <2> QED BY <1>0, <2>1, <2>2, <2>3, <2>4
  <1>11. CASE Scr!Terminate(s)
    <2>1. /\ stage[s] = "close" /\ c.state = "running" /\ stage' = [stage EXCEPT ![s] = "term"]
          /\ serverHolds' = serverHolds /\ exitStatus' = exitStatus
          /\ child' = child \/ (~c.how.stuck /\ Scr!Dies(s, "signal"))
      BY <1>11 DEF Scr!Terminate, Scr!Alive
    <2>2. stage' \in [ScriptSessions -> Stages] /\ stage'[s] = "term" /\ "signal" \in Deaths
      BY <1>0, <2>1 DEF Stages, Deaths
    <2>3. CASE child' = child
      BY <1>0, <1>1, <2>1, <2>2, <2>3
    <2>4. CASE ~c.how.stuck /\ Scr!Dies(s, "signal")
      BY <1>7, <2>1, <2>2, <2>4
    <2> QED BY <2>1, <2>3, <2>4
  <1>12. CASE Scr!Kill(s)
    <2>1. /\ stage[s] = "term" /\ c.state = "running" /\ stage' = [stage EXCEPT ![s] = "kill"]
          /\ serverHolds' = serverHolds /\ exitStatus' = exitStatus
          /\ (c.how.stuck /\ child' = child) \/ (~c.how.stuck /\ Scr!Dies(s, "signal"))
      BY <1>12 DEF Scr!Kill, Scr!Alive
    <2>2. stage' \in [ScriptSessions -> Stages] /\ stage'[s] = "kill" /\ "signal" \in Deaths
      BY <1>0, <2>1 DEF Stages, Deaths
    <2>3. CASE c.how.stuck /\ child' = child
      BY <1>0, <1>1, <2>1, <2>2, <2>3
    <2>4. CASE ~c.how.stuck /\ Scr!Dies(s, "signal")
      BY <1>7, <2>1, <2>2, <2>4
    <2> QED BY <2>1, <2>3, <2>4
  <1>13. CASE Scr!GiveUp(s)
    <2>1. /\ stage[s] = "kill" /\ c.state = "running" /\ stage' = [stage EXCEPT ![s] = "closed"]
          /\ serverHolds' = serverHolds /\ exitStatus' = exitStatus /\ child' = child
      BY <1>13 DEF Scr!GiveUp, Scr!Alive
    <2>2. stage' \in [ScriptSessions -> Stages] /\ stage'[s] = "closed"
      BY <1>0, <2>1 DEF Stages
    <2> QED BY <1>0, <1>1, <2>1, <2>2
  <1> QED BY <1>4, <1>5, <1>6, <1>8, <1>9, <1>10, <1>11, <1>12, <1>13
          DEF SessionStep, PipeStep, CloseStep

\* The command of a session after each of its steps.
LEMMA OwnCommand ==
  ASSUME Scr!ScriptAssumption, ScriptTypes, NEW s \in ScriptSessions, CommandInv(s), ReaderInv(s),
         SessionStep(s)
  PROVE  CommandInv(s)' /\ (commandOf'[s] = Scr!Idle => stage'[s] = "closed")
         /\ (stage'[s] \in {"piped", "reading"} => Scr!Busy(s)')
PROOF
  <1> DEFINE Reads == /\ commandOf'[s] = Scr!Idle => stage'[s] = "closed"
                      /\ stage'[s] \in {"piped", "reading"} => Scr!Busy(s)'
  <1>0. /\ DOMAIN commandOf = ScriptSessions /\ DOMAIN replies = ScriptSessions
        /\ DOMAIN performed = ScriptSessions /\ DOMAIN results = ScriptSessions
        /\ DOMAIN numCommands = ScriptSessions /\ DOMAIN stage = ScriptSessions
        /\ numCommands[s] \in Nat /\ stage[s] \in Stages
        /\ exitStatus[s] \in {"zero", "one", "signal", "unset"}
    BY DEF ScriptTypes, Deaths
  <1>1. /\ commandOf[s] = Scr!Idle => stage[s] = "closed"
        /\ stage[s] \in {"piped", "reading"} => Scr!Busy(s)
        /\ child[s].state = "dead" => child[s].died \in {"zero", "one", "signal"}
    BY DEF ReaderInv, Deaths
  <1>2. Scr!Idle # Scr!Ended
    BY DEF Scr!Idle, Scr!Ended
  <1>3. ASSUME UNCHANGED <<commandOf, performed, results, replies, numCommands>> PROVE CommandInv(s)'
    BY <1>3 DEF CommandInv
  <1>4. ASSUME commandOf' = [commandOf EXCEPT ![s] = Scr!Ended],
               UNCHANGED <<performed, results, replies, numCommands>>
        PROVE  CommandInv(s)' /\ commandOf'[s] = Scr!Ended
    BY <1>0, <1>2, <1>4 DEF CommandInv
  <1>5. ASSUME NEW kind \in KindsOf[s], Scr!Command(s, kind) PROVE CommandInv(s)' /\ Reads
    <2>1. kind \in {"stor", "mkd", "exec"}
      <3>1. KindsOf[s] \subseteq DOMAIN Scr!Slots
        BY DEF Scr!ScriptAssumption
      <3> QED BY <1>5, <3>1 DEF Scr!Slots
    <2>2. /\ commandOf'[s] = [kind |-> kind, slot |-> 1] /\ performed'[s] = FALSE
          /\ results'[s] = Scr!NoResults /\ replies'[s] = 0 /\ stage' = stage
          /\ commandOf[s] = Scr!Idle
      BY <1>0, <1>5 DEF Scr!Command, Scr!readerVars
    <2>3. /\ commandOf'[s].kind = kind /\ commandOf'[s].slot = 1
          /\ commandOf'[s] \notin {Scr!Idle, Scr!Ended}
      BY <2>2 DEF Scr!Idle, Scr!Ended
    <2>4. ~results'[s].refused /\ ~results'[s].postFailed
      BY <2>2 DEF Scr!NoResults
    <2>5. 1 \in 1 .. NumSlots(kind) /\ ~(1 > Answer(kind))
      BY DEF NumSlots, Answer
    <2>6. CommandInv(s)'
      BY <2>1, <2>2, <2>3, <2>4, <2>5 DEF CommandInv
    <2> QED BY <1>1, <2>2, <2>3, <2>6 DEF Scr!Busy
  <1>6. ASSUME Scr!Busy(s), NEW outcome, NEW what, Scr!Conclude(s, outcome, what),
               what \notin {"zero", "skipped", "survived"} => outcome # "zero",
               what = "failed" <=> outcome = "failed", stage'[s] = "closed"
        PROVE  CommandInv(s)' /\ Reads
    BY <1>6, ConcludeKeeps
  <1>7. CASE Scr!NoScript(s)
    <2>1. Scr!Busy(s) /\ stage' = stage /\ stage[s] = "closed" /\ Scr!Conclude(s, "zero", "skipped")
      BY <1>7 DEF Scr!NoScript, Scr!AtSlot, Scr!readerVars
    <2> QED BY <1>6, <2>1
  <1>8. CASE Scr!ExecFails(s)
    <2>1. stage[s] = "piped" /\ stage'[s] = "closed" /\ Scr!Conclude(s, "failed", "failed")
      BY <1>0, <1>8 DEF Scr!ExecFails
    <2> QED BY <1>1, <1>6, <2>1
  <1>9. CASE Scr!MakePipe(s)
    <2>1. Scr!Busy(s) /\ stage[s] = "closed" /\ UNCHANGED <<performed, results, replies, numCommands>>
      BY <1>9 DEF Scr!MakePipe, Scr!AtSlot
    <2>2. \/ commandOf' = [commandOf EXCEPT ![s] = Scr!Ended] /\ stage' = stage
          \/ commandOf' = commandOf
      BY <1>9 DEF Scr!MakePipe
    <2>3. CASE commandOf' = [commandOf EXCEPT ![s] = Scr!Ended] /\ stage' = stage
      BY <1>2, <1>4, <2>1, <2>3
    <2>4. CASE commandOf' = commandOf
      BY <1>3, <2>1, <2>4 DEF Scr!Busy
    <2> QED BY <2>2, <2>3, <2>4
  <1>10. CASE Scr!Interrupt(s)
    <2>1. /\ commandOf' = [commandOf EXCEPT ![s] = Scr!Ended] /\ stage'[s] = "close"
          /\ UNCHANGED <<performed, results, replies, numCommands>>
      BY <1>0, <1>10 DEF Scr!Interrupt
    <2> QED BY <1>2, <1>4, <2>1
  <1>11. ASSUME UNCHANGED <<commandOf, performed, results, replies, numCommands>>,
                \/ stage'[s] = stage[s] \/ (stage[s] # "closed" /\ stage'[s] \notin {"piped", "reading"})
                \/ (stage[s] = "piped" /\ stage'[s] = "reading")
         PROVE  CommandInv(s)' /\ Reads
    BY <1>1, <1>3, <1>11 DEF Scr!Busy
  <1>12. CASE \/ \E how \in Behaviours[s] : Scr!Fork(s, how)
              \/ ChildStep(s) \/ Scr!GetlineMore(s) \/ Scr!GetlineEnd(s) \/ Scr!StopReading(s)
              \/ Scr!Terminate(s) \/ Scr!Kill(s)
    <2>1. UNCHANGED <<commandOf, performed, results, replies, numCommands>>
      BY <1>12 DEF Scr!Fork, ChildStep, Scr!ChildWrites, Scr!ChildCloses, Scr!ChildExits,
         Scr!GetlineMore, Scr!GetlineEnd, Scr!StopReading, Scr!Terminate, Scr!Kill
    <2>2. \/ stage'[s] = stage[s] \/ (stage[s] # "closed" /\ stage'[s] \notin {"piped", "reading"})
          \/ (stage[s] = "piped" /\ stage'[s] = "reading")
      BY <1>0, <1>12 DEF Scr!Fork, ChildStep, Scr!ChildWrites, Scr!ChildCloses, Scr!ChildExits,
         Scr!GetlineMore, Scr!GetlineEnd, Scr!StopReading, Scr!Terminate, Scr!Kill
    <2> QED BY <1>11, <2>1, <2>2
  <1>13. CASE Scr!Reap(s) \/ Scr!GiveUp(s)
    <2>1. stage'[s] = "closed" /\ stage[s] # "closed"
      BY <1>0, <1>13 DEF Scr!Reap, Scr!GiveUp
    <2>2. CASE ~Scr!Busy(s)
      <3>1. UNCHANGED <<commandOf, performed, results, replies, numCommands>>
        BY <1>13, <2>2 DEF Scr!Reap, Scr!GiveUp
      <3> QED BY <1>11, <2>1, <3>1
    <2>3. CASE Scr!Busy(s) /\ Scr!Reap(s)
      <3>1. Scr!Conclude(s, child[s].died, child[s].died) /\ child[s].state = "dead"
        BY <2>3 DEF Scr!Reap, Scr!Reaped
      <3>2. child[s].died \in {"zero", "one", "signal"}
        BY <1>1, <3>1
      <3> QED BY <1>6, <2>1, <2>3, <3>1, <3>2
    <2>4. CASE Scr!Busy(s) /\ Scr!GiveUp(s)
      <3>1. Scr!Conclude(s, exitStatus[s], "survived")
        BY <2>4 DEF Scr!GiveUp
      <3> QED BY <1>0, <1>6, <2>1, <2>4, <3>1
    <2> QED BY <1>13, <2>2, <2>3, <2>4
  <1> QED BY <1>5, <1>7, <1>8, <1>9, <1>10, <1>12, <1>13
          DEF SessionStep, CheckStep, PipeStep, ReadStep, CloseStep

\* Who holds a copy of a pipe runs: a child takes it at the fork and gives it back when
\* it ends, before it is waited for.
LEMMA HoldersKept ==
  ASSUME Scr!ScriptAssumption, ScriptTypes, HolderInv, NEW s \in ScriptSessions, ReaderInv(s),
         SessionStep(s)
  PROVE  HolderInv' /\ holders' \in [ScriptSessions -> SUBSET ScriptSessions]
PROOF
  <1>0. /\ holders \in [ScriptSessions -> SUBSET ScriptSessions]
        /\ \A t \in ScriptSessions : holders[t] \subseteq ScriptSessions
        /\ DOMAIN child = ScriptSessions /\ DOMAIN holders = ScriptSessions
        /\ child \in [ScriptSessions -> ChildStates] /\ child[s] \in ChildStates
    BY DEF ScriptTypes
  <1>1. \A t \in ScriptSessions \ {s} : child'[t] = child[t]
    BY OtherScripts DEF SameScript
  <1>2. \A t \in ScriptSessions : \A u \in holders[t] : child[u].state = "running"
    BY DEF HolderInv
  <1>3. ASSUME child'[s].state = child[s].state,
               \A t \in ScriptSessions : holders'[t] \subseteq holders[t]
        PROVE  HolderInv'
    <2> SUFFICES ASSUME NEW t \in ScriptSessions, NEW u \in holders'[t] PROVE child'[u].state = "running"
      BY DEF HolderInv
    <2>1. u \in holders[t] /\ u \in ScriptSessions /\ child[u].state = "running"
      BY <1>0, <1>2, <1>3
    <2> QED BY <1>1, <1>3, <2>1
  <1>4. ASSUME NEW how \in Deaths, Scr!Dies(s, how)
        PROVE  HolderInv' /\ holders' \in [ScriptSessions -> SUBSET ScriptSessions]
    <2>1. holders' = [t \in ScriptSessions |-> holders[t] \ {s}]
      BY <1>4, Died
    <2>2. holders' \in [ScriptSessions -> SUBSET ScriptSessions]
      BY <1>0, <2>1
    <2>3. ASSUME NEW t \in ScriptSessions, NEW u \in holders'[t] PROVE child'[u].state = "running"
      <3>1. u \in holders[t] /\ u # s /\ u \in ScriptSessions
        BY <1>0, <2>1, <2>3
      <3> QED BY <1>1, <1>2, <3>1
    <2> QED BY <2>2, <2>3 DEF HolderInv
  <1>5. CASE \/ CheckStep(s) \/ Scr!MakePipe(s) \/ ReadStep(s) \/ Scr!GiveUp(s)
    <2>1. /\ child' = child
          /\ holders' = holders \/ holders' = [holders EXCEPT ![s] = {}]
      BY <1>5 DEF CheckStep, Scr!Command, Scr!NoScript, Scr!ExecFails, Scr!MakePipe, ReadStep,
         Scr!GetlineMore, Scr!GetlineEnd, Scr!StopReading, Scr!Interrupt, Scr!GiveUp, Scr!readerVars
    <2>2. /\ \A t \in ScriptSessions : holders'[t] \subseteq holders[t]
          /\ holders' \in [ScriptSessions -> SUBSET ScriptSessions]
      BY <1>0, <2>1
    <2> QED BY <1>3, <2>1, <2>2
  <1>6. ASSUME NEW how \in Behaviours[s], Scr!Fork(s, how)
        PROVE  HolderInv' /\ holders' \in [ScriptSessions -> SUBSET ScriptSessions]
    <2>1. /\ child'[s].state = "running"
          /\ holders' = [t \in ScriptSessions |->
               IF t # s /\ serverHolds[t] THEN holders[t] \cup {s} ELSE holders[t]]
      BY <1>0, <1>6 DEF Scr!Fork, Scr!Inherit
    <2>2. \A t \in ScriptSessions : holders'[t] \subseteq holders[t] \cup {s}
      BY <2>1
    <2>3. holders' \in [ScriptSessions -> SUBSET ScriptSessions]
      BY <1>0, <2>1
    <2>4. ASSUME NEW t \in ScriptSessions, NEW u \in holders'[t] PROVE child'[u].state = "running"
      <3>1. u = s \/ (u \in holders[t] /\ u # s /\ u \in ScriptSessions)
        BY <1>0, <2>2, <2>4
      <3> QED BY <1>1, <1>2, <2>1, <3>1
    <2> QED BY <2>3, <2>4 DEF HolderInv
  <1>7. CASE ChildStep(s)
    <2>1. CASE holders' = holders /\ \E x : child' = [child EXCEPT ![s].written = x]
      BY <1>0, <1>3, <2>1 DEF ChildStates
    <2>2. CASE holders' = holders /\ child' = [child EXCEPT ![s].open = FALSE]
      BY <1>0, <1>3, <2>2 DEF ChildStates
    <2>3. CASE Scr!Dies(s, "signal") \/ Scr!Dies(s, child[s].how.code)
      <3>1. "signal" \in Deaths /\ child[s].how.code \in Deaths
        BY <1>0 DEF Deaths, Scr!Behaviour, ChildStates
      <3> QED BY <1>4, <2>3, <3>1
    <2> QED BY <1>7, <2>1, <2>2, <2>3 DEF ChildStep, Scr!ChildWrites, Scr!ChildCloses, Scr!ChildExits
  <1>8. CASE Scr!Reap(s)
    <2>1. child[s].state = "dead" /\ holders' = holders
      BY <1>8 DEF Scr!Reap
    <2>2. ASSUME NEW t \in ScriptSessions, NEW u \in holders'[t] PROVE child'[u].state = "running"
      <3>1. u \in holders[t] /\ u \in ScriptSessions
        BY <1>0, <2>1, <2>2
      <3>2. u # s
        BY <1>2, <2>1, <3>1
      <3> QED BY <1>1, <1>2, <3>1, <3>2
    <2> QED BY <1>0, <2>1, <2>2 DEF HolderInv
  <1>9. CASE Scr!Terminate(s) \/ Scr!Kill(s)
    <2>1. (child' = child /\ holders' = holders) \/ Scr!Dies(s, "signal")
      BY <1>9 DEF Scr!Terminate, Scr!Kill
    <2>2. "signal" \in Deaths
      BY DEF Deaths
    <2> QED BY <1>0, <1>3, <1>4, <2>1, <2>2
  <1> QED BY <1>5, <1>6, <1>7, <1>8, <1>9 DEF SessionStep, PipeStep, CloseStep

\* The types are kept.
LEMMA ScriptTypesKept ==
  ASSUME Scr!ScriptAssumption, ScriptTypes, HolderInv, NEW s \in ScriptSessions, CommandInv(s),
         ReaderInv(s), SessionStep(s)
  PROVE  ScriptTypes'
PROOF
  <1>0. /\ commandOf = [t \in ScriptSessions |-> commandOf[t]]
        /\ replies \in [ScriptSessions -> Nat] /\ numCommands \in [ScriptSessions -> Nat]
        /\ performed \in [ScriptSessions -> BOOLEAN] /\ results \in [ScriptSessions -> Verdicts]
    BY DEF ScriptTypes
  <1>1. /\ child' \in [ScriptSessions -> ChildStates] /\ stage' \in [ScriptSessions -> Stages]
        /\ serverHolds' \in [ScriptSessions -> BOOLEAN]
        /\ exitStatus' \in [ScriptSessions -> Deaths \cup {"unset"}]
    BY ReaderMoves
  <1>2. holders' \in [ScriptSessions -> SUBSET ScriptSessions]
    BY HoldersKept
  <1> DEFINE Typed == /\ commandOf' = [t \in ScriptSessions |-> commandOf'[t]]
                      /\ replies' \in [ScriptSessions -> Nat]
                      /\ numCommands' \in [ScriptSessions -> Nat]
                      /\ performed' \in [ScriptSessions -> BOOLEAN]
                      /\ results' \in [ScriptSessions -> Verdicts]
  <1>3. ASSUME UNCHANGED <<performed, results, replies, numCommands>>,
               commandOf' = commandOf \/ commandOf' = [commandOf EXCEPT ![s] = Scr!Ended]
        PROVE  Typed
    BY <1>0, <1>3
  <1>4. ASSUME NEW kind, Scr!Command(s, kind) PROVE Typed
    <2>1. Scr!NoResults \in Verdicts
      BY DEF Scr!NoResults, Verdicts
    <2> QED BY <1>0, <1>4, <2>1 DEF Scr!Command
  <1>5. ASSUME Scr!Busy(s), NEW outcome, NEW what, Scr!Conclude(s, outcome, what) PROVE Typed
    <2> DEFINE c == Scr!Consequence(s, outcome)
    <2>1. /\ commandOf' = [commandOf EXCEPT ![s] = c.next] /\ results' \in [ScriptSessions -> Verdicts]
          /\ numCommands' = numCommands
      BY <1>5, Recorded
    <2>2. /\ replies' = [replies EXCEPT ![s] = replies[s] + c.replies]
          /\ performed' = [performed EXCEPT ![s] = performed[s] \/ c.does]
      BY <1>5 DEF Scr!Conclude
    <2>3. PICK kind \in {"stor", "mkd", "exec"} :
            \E i \in 1 .. NumSlots(kind) : commandOf[s] = [kind |-> kind, slot |-> i]
      BY <1>5 DEF CommandInv, Scr!Busy
    <2>4. PICK slot \in 1 .. NumSlots(kind) : commandOf[s] = [kind |-> kind, slot |-> slot]
      BY <2>3
    <2>5. c.replies \in Nat
      <3> DEFINE prior == Scr!Slot(s) \in Scr!BeforeBody
      <3>1. CASE prior /\ outcome # "zero"
        <4>1. c.replies = 1
          BY <2>4, <3>1, Consequences, ZenonT(30)
        <4> QED BY <4>1
      <3>2. CASE ~(prior /\ outcome # "zero")
        <4> DEFINE next == IF slot = NumSlots(kind) THEN Scr!Idle ELSE [kind |-> kind, slot |-> slot + 1]
        <4>1. /\ c.next = next /\ (c.does => slot = 2)
              /\ c.replies = IF slot # Answer(kind) THEN 0
                             ELSE IF kind = "stor" /\ outcome = "failed" THEN 2 ELSE 1
          BY <2>4, <3>2, Consequences
        <4> HIDE DEF c
        <4> QED BY <4>1
      <3> QED BY <3>1, <3>2
    <2> HIDE DEF c
    <2>6. replies' \in [ScriptSessions -> Nat]
      BY <1>0, <2>2, <2>5
    <2>7. performed' \in [ScriptSessions -> BOOLEAN]
      BY <1>0, <2>2
    <2>8. commandOf' = [t \in ScriptSessions |-> commandOf'[t]]
      BY <1>0, <2>1
    <2> QED BY <1>0, <2>1, <2>6, <2>7, <2>8
  <1>6. Typed
    <2>1. CASE CheckStep(s)
      <3>1. Scr!ExecFails(s) => Scr!Busy(s)
        BY DEF ReaderInv, Scr!ExecFails
      <3> QED BY <1>4, <1>5, <2>1, <3>1 DEF CheckStep, Scr!NoScript, Scr!ExecFails, Scr!AtSlot
    <2>2. CASE Scr!Reap(s) \/ Scr!GiveUp(s)
      BY <1>3, <1>5, <2>2 DEF Scr!Reap, Scr!GiveUp
    <2>3. CASE PipeStep(s) \/ ChildStep(s) \/ ReadStep(s) \/ Scr!Terminate(s) \/ Scr!Kill(s)
      BY <1>3, <2>3 DEF PipeStep, Scr!MakePipe, Scr!Fork, ChildStep, Scr!ChildWrites, Scr!ChildCloses,
         Scr!ChildExits, ReadStep, Scr!GetlineMore, Scr!GetlineEnd, Scr!StopReading, Scr!Interrupt,
         Scr!Terminate, Scr!Kill
    <2> QED BY <2>1, <2>2, <2>3 DEF SessionStep, CloseStep
  <1> QED BY <1>1, <1>2, <1>6 DEF ScriptTypes

\* However the scripts of any number of sessions behave and their forks interleave: what
\* a script refused is not done, a command has its reply, no child is left behind except
\* one that SIGKILL did not end, and only a script that runs keeps a session reading
\* (exec/*.cpp, util/processreader.cpp).
THEOREM ScriptsAreObeyed == Scr!ScriptAssumption => (Scr!Spec => []Scr!ScriptsObeyed)
PROOF
  <1> SUFFICES ASSUME Scr!ScriptAssumption PROVE Scr!Spec => []Scr!ScriptsObeyed
    OBVIOUS
  <1>1. Scr!Init => ScriptInv
    <2> SUFFICES ASSUME Scr!Init PROVE ScriptInv
      OBVIOUS
    <2>1. /\ commandOf = [s \in ScriptSessions |-> Scr!Idle] /\ child = [s \in ScriptSessions |-> Scr!NoChild]
          /\ stage = [s \in ScriptSessions |-> "closed"] /\ holders = [s \in ScriptSessions |-> {}]
          /\ serverHolds = [s \in ScriptSessions |-> FALSE]
          /\ exitStatus = [s \in ScriptSessions |-> "unset"]
          /\ performed = [s \in ScriptSessions |-> FALSE]
          /\ results = [s \in ScriptSessions |-> Scr!NoResults]
          /\ replies = [s \in ScriptSessions |-> 0] /\ numCommands = [s \in ScriptSessions |-> 0]
      BY DEF Scr!Init
    <2>2. Scr!NoChild \in ChildStates /\ Scr!NoChild.state = "none"
      BY NoChildTyped
    <2>3. Scr!NoResults \in Verdicts
      BY DEF Scr!NoResults, Verdicts
    <2>4. ScriptTypes
      BY <2>1, <2>2, <2>3 DEF ScriptTypes, Stages
    <2>5. HolderInv
      BY <2>1 DEF HolderInv
    <2>6. ASSUME NEW s \in ScriptSessions PROVE CommandInv(s) /\ ReaderInv(s)
      BY <2>1, <2>2 DEF CommandInv, ReaderInv
    <2> QED BY <2>4, <2>5, <2>6 DEF ScriptInv
  <1>2. ScriptInv /\ [Scr!Next]_(Scr!scriptVars) => ScriptInv'
    <2> SUFFICES ASSUME ScriptInv, [Scr!Next]_(Scr!scriptVars) PROVE ScriptInv'
      OBVIOUS
    <2>1. ScriptTypes /\ HolderInv /\ \A s \in ScriptSessions : CommandInv(s) /\ ReaderInv(s)
      BY DEF ScriptInv
    <2>2. ASSUME NEW s \in ScriptSessions, SessionStep(s) PROVE ScriptInv'
      <3>1. ScriptTypes' /\ HolderInv'
        BY <2>1, <2>2, ScriptTypesKept, HoldersKept
      <3>2. CommandInv(s)' /\ ReaderInv(s)'
        <4>1. /\ CommandInv(s)' /\ (commandOf'[s] = Scr!Idle => stage'[s] = "closed")
              /\ (stage'[s] \in {"piped", "reading"} => Scr!Busy(s)')
          BY <2>1, <2>2, OwnCommand
        <4>2. /\ serverHolds'[s] => stage'[s] = "piped"
              /\ stage'[s] = "piped" => child'[s].state = "none"
              /\ stage'[s] \notin {"closed", "piped"} => child'[s].state # "none"
              /\ stage'[s] = "kill" /\ child'[s].state = "running" => child'[s].how.stuck
              /\ stage'[s] = "closed" /\ child'[s].state # "none" =>
                   child'[s].state = "running" /\ child'[s].how.stuck
              /\ child'[s].state = "dead" => child'[s].died \in Deaths
          BY <2>1, <2>2, ReaderMoves
        <4> QED BY <4>1, <4>2 DEF ReaderInv
      <3>3. ASSUME NEW t \in ScriptSessions, t # s PROVE CommandInv(t)' /\ ReaderInv(t)'
        BY <2>1, <2>2, <3>3, OtherScripts, SameScriptKeeps
      <3> QED BY <3>1, <3>2, <3>3 DEF ScriptInv
    <2>3. CASE UNCHANGED Scr!scriptVars
      <3>1. ScriptTypes' /\ HolderInv'
        BY <2>1, <2>3 DEF ScriptTypes, HolderInv, Scr!scriptVars
      <3>2. ASSUME NEW s \in ScriptSessions PROVE CommandInv(s)' /\ ReaderInv(s)'
        <4>1. SameScript(s)
          BY <2>3 DEF SameScript, Scr!scriptVars
        <4> QED BY <2>1, <4>1, SameScriptKeeps
      <3> QED BY <3>1, <3>2 DEF ScriptInv
    <2> QED BY <2>2, <2>3, ScriptSteps
  <1>3. ScriptInv => Scr!ScriptsObeyed
    <2> SUFFICES ASSUME ScriptInv PROVE Scr!ScriptsObeyed
      OBVIOUS
    <2>1. HolderInv /\ \A s \in ScriptSessions : CommandInv(s) /\ ReaderInv(s)
      BY DEF ScriptInv
    <2>2. Scr!RefusedNotDone
      BY <2>1 DEF Scr!RefusedNotDone, CommandInv
    <2>3. Scr!OneReply
      <3> SUFFICES ASSUME NEW s \in ScriptSessions, commandOf[s] = Scr!Idle, numCommands[s] > 0
                   PROVE  replies[s] = IF results[s].postFailed THEN 2 ELSE 1
        BY DEF Scr!OneReply
      <3>1. replies[s] = 1 + IF results[s].postFailed THEN 1 ELSE 0
        BY <2>1 DEF CommandInv
      <3>2. CASE results[s].postFailed
        BY <3>1, <3>2
      <3>3. CASE ~results[s].postFailed
        BY <3>1, <3>3
      <3> QED BY <3>2, <3>3
    <2>4. Scr!NoOrphan
      BY <2>1 DEF Scr!NoOrphan, ReaderInv
    <2>5. Scr!ReadingEnds
      BY <2>1 DEF Scr!ReadingEnds, ReaderInv, HolderInv, Scr!Alive
    <2> QED BY <2>2, <2>3, <2>4, <2>5 DEF Scr!ScriptsObeyed
  <1> QED BY <1>1, <1>2, <1>3, PTL DEF Scr!Spec

-----------------------------------------------------------------------------
(* Acl *)

\* A set of naturals that is not empty has a least element.
LEMMA LeastNatural ==
  ASSUME NEW S \in SUBSET Nat, S # {}
  PROVE  \E x \in S : \A y \in S : x <= y
PROOF
  <1>1. PICK x \in S : \A y \in S : ~(<<y, x>> \in OpToRel(<, Nat))
    BY NatLessThanWellFounded, WFMin
  <1>2. \A y, z \in Nat : y < z => <<y, z>> \in OpToRel(<, Nat)
    BY DEF OpToRel
  <1>3. ASSUME NEW y \in S PROVE x <= y
    <2>1. ~(y < x)
      BY <1>1, <1>2
    <2> QED BY <2>1
  <1> QED BY <1>3

\* What the loop of ACL::Evaluate computes for a list of any length is what the
\* documentation says an acl means: the first entry that matches the user decides
\* (acl/acl.cpp).  The induction runs from the end of the list.
LEMMA LoopMeansFirst ==
  ASSUME NEW perms, Len(perms) \in Nat, DOMAIN perms = 1..Len(perms), NEW i
  PROVE  Acl!Compute(perms, i) = Acl!Meaning(perms, i)
PROOF
  <1> DEFINE n == Len(perms)
             A(k) == Acl!Applies(perms[k], i)
             B(k) == ~perms[k].negate
             F(k) == \E m \in k..n : A(m) /\ B(m) /\ \A j \in k..(m - 1) : ~A(j)
             G(g) == [k \in 1..(n + 1) |-> IF k > n THEN FALSE ELSE IF A(k) THEN B(k) ELSE g[k + 1]]
             loop == CHOOSE g : g = G(g)
             f == [k \in 1..(n + 1) |-> F(k)]
  <1>1. Acl!Compute(perms, i) = loop[1]
    BY DEF Acl!Compute
  <1>2. Acl!Meaning(perms, i) = F(1)
    BY DEF Acl!Meaning
  <1>b. \A k : B(k) \in BOOLEAN /\ F(k) \in BOOLEAN
    OBVIOUS
  <1>3. n \in Nat
    OBVIOUS
  <1> HIDE DEF A, B, n
  <1>4. \A k \in 1..n : F(k) <=> IF A(k) THEN B(k) ELSE F(k + 1)
    <2> SUFFICES ASSUME NEW k \in 1..n PROVE F(k) <=> IF A(k) THEN B(k) ELSE F(k + 1)
      OBVIOUS
    <2>1. CASE A(k)
      BY <1>3, <2>1
    <2>2. CASE ~A(k)
      <3>1. ASSUME F(k) PROVE F(k + 1)
        BY <1>3, <2>2, <3>1
      <3>2. ASSUME F(k + 1) PROVE F(k)
        <4>1. PICK m \in (k + 1)..n : A(m) /\ B(m) /\ \A j \in (k + 1)..(m - 1) : ~A(j)
          BY <3>2
        <4>2. m \in k..n /\ \A j \in k..(m - 1) : ~A(j)
          BY <1>3, <2>2, <4>1
        <4> QED BY <4>1, <4>2
      <3> QED BY <2>2, <3>1, <3>2
    <2> QED BY <2>1, <2>2
  <1>5. ~F(n + 1)
    BY <1>3
  <1> HIDE DEF F
  <1>a. \A k \in 1..n : F(k) = IF A(k) THEN B(k) ELSE F(k + 1)
    <2> SUFFICES ASSUME NEW k \in 1..n PROVE F(k) = IF A(k) THEN B(k) ELSE F(k + 1)
      OBVIOUS
    <2>1. CASE A(k)
      <3>1. F(k) <=> B(k)
        BY <1>4, <2>1
      <3> QED BY <1>b, <2>1, <3>1, Zenon
    <2>2. CASE ~A(k)
      <3>1. F(k) <=> F(k + 1)
        BY <1>4, <2>2
      <3> QED BY <1>b, <2>2, <3>1, Zenon
    <2> QED BY <2>1, <2>2
  <1>c. F(n + 1) = FALSE
    BY <1>b, <1>5, Zenon
  <1>d. \A k \in 1..(n + 1) : k > n <=> k = n + 1
    BY <1>3
  <1>e. \A k \in 1..n : k \in 1..(n + 1) /\ k + 1 \in 1..(n + 1) /\ ~(k > n)
    BY <1>3
  <1>6. f = G(f)
    <2>1. ASSUME NEW k \in 1..(n + 1)
          PROVE  F(k) = IF k > n THEN FALSE ELSE IF A(k) THEN B(k) ELSE f[k + 1]
      <3>1. CASE k = n + 1
        <4>1. F(k) = FALSE
          BY <1>c, <3>1, Zenon
        <4>2. k > n
          BY <1>d, <3>1, Zenon
        <4> DEFINE other == IF A(k) THEN B(k) ELSE f[k + 1]
        <4>3. F(k) = IF k > n THEN FALSE ELSE other
          <5> HIDE DEF other, f
          <5> QED BY <4>1, <4>2, Zenon
        <4> QED BY <4>3
      <3>2. CASE k \in 1..n
        <4>1. f[k + 1] = F(k + 1)
          BY <1>e, <3>2, Zenon
        <4> QED BY <1>a, <1>e, <3>2, <4>1, Zenon
      <3>3. k = n + 1 \/ k \in 1..n
        BY <1>3
      <3> QED BY <3>1, <3>2, <3>3, Zenon
    <2> QED BY <2>1, Zenon
  <1>7. loop = G(loop)
    <2> HIDE DEF G, f
    <2> QED BY <1>6
  <1> HIDE DEF loop
  <1>8. \A k \in 1..(n + 1) : loop[k] = IF k > n THEN FALSE ELSE IF A(k) THEN B(k) ELSE loop[k + 1]
    BY <1>7, Zenon
  <1> DEFINE D == {d \in 0..n : loop[n + 1 - d] # F(n + 1 - d)}
  <1>9. D = {}
    <2> SUFFICES ASSUME D # {} PROVE FALSE
      OBVIOUS
    <2>0. D \in SUBSET Nat
      BY <1>3
    <2> HIDE DEF D
    <2>1. PICK d \in D : \A e \in D : d <= e
      BY <2>0, LeastNatural
    <2>2. d \in 0..n /\ loop[n + 1 - d] # F(n + 1 - d)
      BY <2>1, Zenon DEF D
    <2>3. CASE d = 0
      <3>1. n + 1 - d = n + 1 /\ n + 1 \in 1..(n + 1)
        BY <1>3, <2>3
      <3>2. loop[n + 1] = FALSE
        BY <1>8, <1>d, <3>1, Zenon
      <3> QED BY <1>c, <2>2, <3>1, <3>2, Zenon
    <2>4. CASE d # 0
      <3> DEFINE k == n + 1 - d
      <3>1. k \in 1..n /\ k + 1 = n + 1 - (d - 1) /\ d - 1 \in 0..n /\ ~(d <= d - 1)
        BY <1>3, <2>2, <2>4
      <3> HIDE DEF k
      <3>2. loop[k + 1] = F(k + 1)
        BY <2>1, <3>1, Zenon DEF D
      <3>3. loop[k] = IF A(k) THEN B(k) ELSE loop[k + 1]
        BY <1>8, <1>e, <3>1, Zenon
      <3>4. F(k) = IF A(k) THEN B(k) ELSE F(k + 1)
        BY <1>a, <3>1, Zenon
      <3>5. loop[k] = F(k)
        <4>1. CASE A(k)
          <5>1. loop[k] = B(k) /\ F(k) = B(k)
            BY <3>3, <3>4, <4>1, Zenon
          <5> QED BY <5>1, Zenon
        <4>2. CASE ~A(k)
          <5>1. loop[k] = loop[k + 1] /\ F(k) = F(k + 1)
            BY <3>3, <3>4, <4>2, Zenon
          <5> QED BY <3>2, <5>1, Zenon
        <4> QED BY <4>1, <4>2
      <3> QED BY <2>2, <3>5, Zenon DEF k
    <2> QED BY <2>3, <2>4
  <1>10. loop[1] = F(1)
    BY <1>3, <1>9
  <1> QED BY <1>1, <1>2, <1>10

\* A table has an entry per session and list.
Table(f) == f = [s \in Sessions |-> [l \in DOMAIN Rules |-> f[s][l]]]
WithList(f, s, l, g) == [f EXCEPT ![s][l] = g]
Renewed(f, s, v) == [f EXCEPT ![s] = Acl!AllOf(v)]

\* The accounts have names; what an ACL keeps is what its rule says of the account it was
\* first asked about; the last decision was right.
NamedInfo(i) == i = [name |-> i.name, group |-> i.group, flags |-> i.flags] /\ i.name # "none"
AclTypes ==
  /\ info = [u \in Users |-> info[u]] /\ \A u \in Users : NamedInfo(info[u])
  /\ user \in [Sessions -> Users \cup {Acl!None}]
  /\ Table(finalResult) /\ Table(asked)
AclInv == AclTypes /\ Acl!DecisionRight

\* A write to one list of one session changes that list alone.
LEMMA TableUpdate ==
  ASSUME NEW f, Table(f), NEW s \in Sessions, NEW l \in DOMAIN Rules, NEW g,
         NEW h, h = WithList(f, s, l, g)
  PROVE  /\ Table(h) /\ h[s][l] = g
         /\ \A t \in Sessions, m \in DOMAIN Rules : <<t, m>> # <<s, l>> => h[t][m] = f[t][m]
PROOF
  <1> DEFINE row == [f[s] EXCEPT ![l] = g]
  <1>1. f = [t \in Sessions |-> f[t]] /\ \A t \in Sessions : f[t] = [m \in DOMAIN Rules |-> f[t][m]]
    BY DEF Table
  <1>2. row = [m \in DOMAIN Rules |-> IF m = l THEN g ELSE f[s][m]]
    BY <1>1
  <1> HIDE DEF row
  <1>3. h = [t \in Sessions |-> IF t = s THEN row ELSE f[t]]
    <2>1. h = [f EXCEPT ![s] = row]
      BY <1>1 DEF row, WithList
    <2> QED BY <1>1, <2>1
  <1>5. \A t \in Sessions : h[t] = [m \in DOMAIN Rules |-> h[t][m]]
    BY <1>1, <1>2, <1>3
  <1>6. h[s][l] = g /\ \A t \in Sessions, m \in DOMAIN Rules : <<t, m>> # <<s, l>> => h[t][m] = f[t][m]
    BY <1>2, <1>3
  <1>7. h = [t \in Sessions |-> h[t]]
    BY <1>3
  <1>8. Table(h)
    <2>1. [t \in Sessions |-> h[t]] = [t \in Sessions |-> [m \in DOMAIN Rules |-> h[t][m]]]
      BY <1>5
    <2> QED BY <1>7, <2>1 DEF Table
  <1> QED BY <1>6, <1>8

\* Every decision keeps the invariant, and is the one the rules give the account if no ACL
\* of its list was asked before about another one: then what the loop reuses, and what it
\* computes, is what the rules mean.
LEMMA DecisionKeeps ==
  ASSUME Acl!AclAssumption, AclInv, NEW s \in Sessions, NEW l \in DOMAIN Rules, NEW q, NEW i,
         NamedInfo(i), Acl!Decide(s, l, q, i)
  PROVE  /\ Table(finalResult)' /\ Table(asked)' /\ info' = info
         /\ Acl!DecisionRight'
PROOF
  <1> DEFINE says == [k \in DOMAIN Rules[l] |-> Acl!Evaluate(s, l, k, i)]
             due == [k \in DOMAIN Rules[l] |-> Acl!Meaning(Rules[l][k].acl, i)]
             now == IF Acl!Skipped(l, i) THEN {}
                    ELSE {k \in Acl!Reached(l, q, says) : Acl!Before(l, Rules[l][k], q)}
             new == {k \in now : finalResult[s][l][k] = "unset"}
             kept == [k \in DOMAIN Rules[l] |->
                        IF k \in new THEN (IF says[k] THEN "yes" ELSE "no") ELSE finalResult[s][l][k]]
             about == [k \in DOMAIN Rules[l] |-> IF k \in new THEN i ELSE asked[s][l][k]]
             second == \E k \in DOMAIN Rules[l] : asked[s][l][k] \notin {Acl!NoInfo, i}
  <1>1. AclTypes /\ Acl!KeptIsComputed
    BY DEF AclInv, Acl!DecisionRight
  <1>2. /\ finalResult' = [finalResult EXCEPT ![s][l] = kept]
        /\ asked' = [asked EXCEPT ![s][l] = about]
        /\ decision' = [returned |-> Acl!Chosen(l, q, i, says), due |-> Acl!Chosen(l, q, i, due),
                        second |-> second]
        /\ info' = info
    BY <1>1 DEF Acl!Decide, AclTypes, Table
  <1>3. i # Acl!NoInfo
    BY DEF NamedInfo, Acl!NoInfo, Acl!None
  <1>4. ASSUME NEW k \in DOMAIN Rules[l], finalResult[s][l][k] = "unset"
        PROVE  says[k] = due[k]
    <2>1. Acl!Evaluate(s, l, k, i) = Acl!Compute(Rules[l][k].acl, i)
      BY <1>4 DEF Acl!Evaluate
    <2>2. Acl!Compute(Rules[l][k].acl, i) = Acl!Meaning(Rules[l][k].acl, i)
      BY LoopMeansFirst DEF Acl!AclAssumption
    <2> QED BY <2>1, <2>2, Zenon
  <1>5. ASSUME NEW k \in DOMAIN Rules[l], finalResult[s][l][k] # "unset", asked[s][l][k] \in {Acl!NoInfo, i}
        PROVE  says[k] = due[k]
    <2>1. Acl!Evaluate(s, l, k, i) = (finalResult[s][l][k] = "yes")
      BY <1>5, Zenon DEF Acl!Evaluate
    <2>2. asked[s][l][k] # Acl!NoInfo /\
          (finalResult[s][l][k] = "yes") = Acl!Meaning(Rules[l][k].acl, asked[s][l][k])
      BY <1>1, <1>5, Zenon DEF Acl!KeptIsComputed
    <2> QED BY <1>5, <2>1, <2>2, Zenon
  <1>6. ~second => says = due
    <2> SUFFICES ASSUME ~second PROVE \A k \in DOMAIN Rules[l] : says[k] = due[k]
      BY Zenon
    <2> QED BY <1>4, <1>5, Zenon
  <1>7. new \subseteq DOMAIN Rules[l]
    BY DEF Acl!Reached
  <1>8. \A k \in new : finalResult[s][l][k] = "unset"
    OBVIOUS
  <1> HIDE DEF says, due, now, new, second
  <1>9. Acl!FirstDecisionRight'
    <2>1. decision'.returned = Acl!Chosen(l, q, i, says) /\ decision'.due = Acl!Chosen(l, q, i, due)
          /\ decision'.second = second
      BY <1>2
    <2> QED BY <1>6, <2>1, Zenon DEF Acl!FirstDecisionRight
  <1>10. ASSUME NEW k \in DOMAIN Rules[l], kept[k] # "unset"
         PROVE  /\ about[k] # Acl!NoInfo
                /\ (kept[k] = "yes") = Acl!Meaning(Rules[l][k].acl, about[k])
    <2>1. CASE k \in new
      <3>1. says[k] = due[k] /\ due[k] = Acl!Meaning(Rules[l][k].acl, i)
        BY <1>4, <1>8, <2>1, Zenon DEF due
      <3>2. kept[k] = (IF says[k] THEN "yes" ELSE "no") /\ about[k] = i
        BY <2>1
      <3>3. Acl!Meaning(Rules[l][k].acl, i) \in BOOLEAN
        BY Zenon DEF Acl!Meaning
      <3>4. (kept[k] = "yes") <=> says[k]
        BY <3>2
      <3> QED BY <1>3, <3>1, <3>2, <3>3, <3>4, Zenon
    <2>2. CASE k \notin new
      <3>1. kept[k] = finalResult[s][l][k] /\ about[k] = asked[s][l][k]
        BY <2>2
      <3> QED BY <1>1, <1>10, <3>1, Zenon DEF Acl!KeptIsComputed
    <2> QED BY <2>1, <2>2, Zenon
  <1> HIDE DEF kept, about
  <1>11. Table(finalResult) /\ Table(asked)
    BY <1>1 DEF AclTypes
  <1>w. finalResult' = WithList(finalResult, s, l, kept) /\ asked' = WithList(asked, s, l, about)
    BY <1>2, Zenon DEF WithList
  <1>12. /\ Table(finalResult') /\ finalResult'[s][l] = kept
         /\ \A t \in Sessions, m \in DOMAIN Rules :
              <<t, m>> # <<s, l>> => finalResult'[t][m] = finalResult[t][m]
    BY <1>w, <1>11, TableUpdate
  <1>13. /\ Table(asked') /\ asked'[s][l] = about
         /\ \A t \in Sessions, m \in DOMAIN Rules : <<t, m>> # <<s, l>> => asked'[t][m] = asked[t][m]
    BY <1>w, <1>11, TableUpdate
  <1>14. Acl!KeptIsComputed'
    <2> SUFFICES ASSUME NEW t \in Sessions, NEW m \in DOMAIN Rules, NEW k \in DOMAIN Rules[m],
                        finalResult'[t][m][k] # "unset"
                 PROVE  /\ asked'[t][m][k] # Acl!NoInfo
                        /\ (finalResult'[t][m][k] = "yes") = Acl!Meaning(Rules[m][k].acl, asked'[t][m][k])
      BY Zenon DEF Acl!KeptIsComputed
    <2>1. CASE t = s /\ m = l
      BY <1>10, <1>12, <1>13, <2>1, Zenon
    <2>2. CASE ~(t = s /\ m = l)
      <3>1. finalResult'[t][m] = finalResult[t][m] /\ asked'[t][m] = asked[t][m]
        BY <1>12, <1>13, <2>2
      <3> QED BY <1>1, <3>1, ZenonT(30) DEF Acl!KeptIsComputed
    <2> QED BY <2>1, <2>2, Zenon
  <1> QED BY <1>2, <1>9, <1>12, <1>13, <1>14 DEF Table, Acl!DecisionRight

\* Whatever any number of sessions ask, in whatever order, and however accounts change
\* meanwhile: an ACL that was not asked about another account decides as the rules say,
\* for lists of any length, and what it keeps is what its rule said when it was first
\* asked (acl/acl.cpp, acl/misc.cpp).
THEOREM DecisionsAreRight == Acl!AclAssumption => (Acl!Spec => []Acl!DecisionRight)
PROOF
  <1> SUFFICES ASSUME Acl!AclAssumption PROVE Acl!Spec => []Acl!DecisionRight
    OBVIOUS
  <1> DEFINE Unasked(f, v) == \A l \in DOMAIN Rules : \A k \in DOMAIN Rules[l] : f[l][k] = v
  <1>u. \A v : Unasked(Acl!AllOf(v), v) /\ Acl!AllOf(v) = [l \in DOMAIN Rules |-> Acl!AllOf(v)[l]]
    BY DEF Acl!AllOf
  <1>n. Acl!NoDecision.returned = Acl!NoDecision.due
    BY DEF Acl!NoDecision
  <1>1. Acl!Init => AclInv
    <2> SUFFICES ASSUME Acl!Init PROVE AclInv
      OBVIOUS
    <2>1. /\ info = FirstInfo /\ user = [s \in Sessions |-> Acl!None]
          /\ finalResult = [s \in Sessions |-> Acl!AllOf("unset")]
          /\ asked = [s \in Sessions |-> Acl!AllOf(Acl!NoInfo)] /\ decision = Acl!NoDecision
      BY DEF Acl!Init
    <2>2. Table(finalResult) /\ Table(asked)
      BY <1>u, <2>1 DEF Table
    <2>3. info = [u \in Users |-> info[u]] /\ \A u \in Users : NamedInfo(info[u])
      BY <2>1 DEF Acl!AclAssumption, NamedInfo
    <2>4. Acl!KeptIsComputed
      BY <1>u, <2>1 DEF Acl!KeptIsComputed
    <2> QED BY <1>n, <2>1, <2>2, <2>3, <2>4
            DEF AclInv, AclTypes, Acl!DecisionRight, Acl!FirstDecisionRight
  <1>2. AclInv /\ [Acl!Next]_(Acl!aclVars) => AclInv'
    <2> SUFFICES ASSUME AclInv, [Acl!Next]_(Acl!aclVars) PROVE AclInv'
      OBVIOUS
    <2>1. AclTypes /\ Acl!KeptIsComputed /\ Acl!FirstDecisionRight
      BY DEF AclInv, Acl!DecisionRight
    <2>2. \A u \in Users : NamedInfo(info[u])
      BY <2>1 DEF AclTypes
    <2>3. ASSUME NEW s \in Sessions, NEW l \in DOMAIN Rules, NEW q, NEW i, NamedInfo(i),
                 Acl!Decide(s, l, q, i), user' \in [Sessions -> Users \cup {Acl!None}]
          PROVE  AclInv'
      <3>1. Table(finalResult)' /\ Table(asked)' /\ info' = info /\ Acl!DecisionRight'
        BY <2>3, DecisionKeeps
      <3> QED BY <2>1, <2>3, <3>1 DEF AclInv, AclTypes, NamedInfo
    <2>4. ASSUME NEW s \in Sessions, NEW u \in Users, Acl!USERCommand(s, u) PROVE AclInv'
      <3>1. user' \in [Sessions -> Users \cup {Acl!None}]
        BY <2>1, <2>4 DEF Acl!USERCommand, AclTypes
      <3>2. "tls_control" \in DOMAIN Rules
        BY DEF Acl!AclAssumption
      <3> QED BY <2>2, <2>3, <2>4, <3>1, <3>2 DEF Acl!USERCommand
    <2>5. ASSUME NEW s \in Sessions, NEW l \in DOMAIN Rules, NEW q, Acl!Ask(s, l, q) PROVE AclInv'
      <3>1. user' \in [Sessions -> Users \cup {Acl!None}] /\ NamedInfo(info[user[s]])
        BY <2>1, <2>5 DEF Acl!Ask, AclTypes
      <3> QED BY <2>3, <2>5, <3>1 DEF Acl!Ask
    <2>6. ASSUME NEW s \in Sessions, NEW l \in DOMAIN Rules, NEW u \in Users, Acl!SecureIP(s, l, u)
          PROVE  AclInv'
      <3>1. user' \in [Sessions -> Users \cup {Acl!None}]
        BY <2>1, <2>6 DEF Acl!SecureIP, AclTypes
      <3> QED BY <2>2, <2>3, <2>6, <3>1 DEF Acl!SecureIP
    <2>7. ASSUME NEW s \in Sessions, NEW l \in DOMAIN Rules, NEW u \in Users, Acl!RANKSCommand(s, l, u)
          PROVE  AclInv'
      <3> DEFINE acl == Rules[l][1].acl
                 all == IF Acl!Compute(acl, info[u]) THEN Users ELSE {}
                 those == {v \in Users : Acl!Meaning(acl, info[v])}
                 differ == \E v \in Users : info[v] # info[u]
      <3>1. /\ decision' = [returned |-> all, due |-> those, second |-> differ]
            /\ UNCHANGED <<info, user, finalResult, asked>> /\ 1 \in DOMAIN Rules[l]
        BY <2>7 DEF Acl!RANKSCommand
      <3>2. Acl!Compute(acl, info[u]) = Acl!Meaning(acl, info[u])
        BY <3>1, LoopMeansFirst DEF Acl!AclAssumption
      <3>3. ~differ => all = those
        BY <3>2
      <3> HIDE DEF all, those, differ
      <3>4. decision'.returned = all /\ decision'.due = those /\ decision'.second = differ
        BY <3>1
      <3>5. Acl!FirstDecisionRight'
        BY <3>3, <3>4, Zenon DEF Acl!FirstDecisionRight
      <3>6. AclTypes' /\ Acl!KeptIsComputed'
        BY <2>1, <3>1 DEF AclTypes, Table, NamedInfo, Acl!KeptIsComputed
      <3> QED BY <3>5, <3>6 DEF AclInv, Acl!DecisionRight
    <2>8. ASSUME NEW u \in Users, Acl!Change(u) PROVE AclInv'
      <3>1. PICK f \in FlagSets, g \in Groups : info' = [info EXCEPT ![u].flags = f, ![u].group = g]
        BY <2>8 DEF Acl!Change
      <3>2. decision' = Acl!NoDecision /\ UNCHANGED <<user, finalResult, asked>>
        BY <2>8 DEF Acl!Change
      <3>3. info' = [v \in Users |-> info'[v]] /\ \A v \in Users : NamedInfo(info'[v])
        <4> DEFINE n == info[u].name  o == info[u].group  e == info[u].flags
        <4>1. info[u] = [name |-> n, group |-> o, flags |-> e] /\ n # "none"
          BY <2>2 DEF NamedInfo
        <4> HIDE DEF n, o, e
        <4>2. [info[u] EXCEPT !.flags = f] = [name |-> n, group |-> o, flags |-> f]
          BY <4>1
        <4>3. [[name |-> n, group |-> o, flags |-> f] EXCEPT !.group = g]
                = [name |-> n, group |-> g, flags |-> f]
          OBVIOUS
        <4>4. info' = [info EXCEPT ![u] = [[info[u] EXCEPT !.flags = f] EXCEPT !.group = g]]
          BY <2>1, <3>1 DEF AclTypes
        <4>5. info' = [info EXCEPT ![u] = [name |-> n, group |-> g, flags |-> f]]
          BY <4>2, <4>3, <4>4
        <4>6. NamedInfo([name |-> n, group |-> g, flags |-> f])
          BY <4>1 DEF NamedInfo
        <4>7. info = [v \in Users |-> info[v]]
          BY <2>1 DEF AclTypes
        <4> QED BY <2>2, <4>5, <4>6, <4>7
      <3>4. AclTypes'
        BY <2>1, <3>2, <3>3 DEF AclTypes, Table, NamedInfo
      <3>5. Acl!KeptIsComputed'
        BY <2>1, <3>2 DEF Acl!KeptIsComputed
      <3> QED BY <1>n, <3>2, <3>4, <3>5 DEF AclInv, Acl!DecisionRight, Acl!FirstDecisionRight
    <2>9. ASSUME NEW s \in Sessions, Acl!Renew(s) PROVE AclInv'
      <3>1. /\ asked' = Renewed(asked, s, Acl!NoInfo) /\ finalResult' = Renewed(finalResult, s, "unset")
            /\ decision' = Acl!NoDecision /\ UNCHANGED <<info, user>>
        BY <2>9 DEF Acl!Renew, Renewed
      <3>2. ASSUME NEW f, Table(f), NEW v, NEW h, h = Renewed(f, s, v)
            PROVE  /\ Table(h) /\ h[s] = Acl!AllOf(v) /\ \A t \in Sessions \ {s} : h[t] = f[t]
        <4> DEFINE a == Acl!AllOf(v)
        <4>1. a = [l \in DOMAIN Rules |-> a[l]]
          BY <1>u
        <4> HIDE DEF a
        <4>2. h = [t \in Sessions |-> IF t = s THEN a ELSE f[t]]
          BY <3>2 DEF Table, Renewed, a
        <4>3. \A t \in Sessions : h[t] = [l \in DOMAIN Rules |-> h[t][l]]
          BY <3>2, <4>1, <4>2 DEF Table
        <4>4. h = [t \in Sessions |-> h[t]]
          BY <4>2
        <4>5. [t \in Sessions |-> h[t]] = [t \in Sessions |-> [l \in DOMAIN Rules |-> h[t][l]]]
          BY <4>3
        <4> QED BY <4>2, <4>4, <4>5 DEF Table, a
      <3>3. Table(finalResult) /\ Table(asked)
        BY <2>1 DEF AclTypes
      <3>4. /\ Table(finalResult') /\ finalResult'[s] = Acl!AllOf("unset")
            /\ \A t \in Sessions \ {s} : finalResult'[t] = finalResult[t]
        BY <3>1, <3>2, <3>3
      <3>5. Table(asked') /\ \A t \in Sessions \ {s} : asked'[t] = asked[t]
        BY <3>1, <3>2, <3>3
      <3>6. Acl!KeptIsComputed'
        <4> SUFFICES ASSUME NEW t \in Sessions, NEW l \in DOMAIN Rules, NEW k \in DOMAIN Rules[l],
                            finalResult'[t][l][k] # "unset"
                     PROVE  /\ asked'[t][l][k] # Acl!NoInfo
                            /\ (finalResult'[t][l][k] = "yes") = Acl!Meaning(Rules[l][k].acl, asked'[t][l][k])
          BY Zenon DEF Acl!KeptIsComputed
        <4>1. t # s
          BY <1>u, <3>4
        <4>2. finalResult'[t] = finalResult[t] /\ asked'[t] = asked[t]
          BY <3>4, <3>5, <4>1
        <4> QED BY <2>1, <4>2, Zenon DEF Acl!KeptIsComputed
      <3>7. AclTypes'
        BY <2>1, <3>1, <3>4, <3>5 DEF AclTypes, Table, NamedInfo
      <3> QED BY <1>n, <3>1, <3>6, <3>7 DEF AclInv, Acl!DecisionRight, Acl!FirstDecisionRight
    <2>10. CASE UNCHANGED Acl!aclVars
      BY <2>1, <2>10 DEF AclInv, AclTypes, Table, NamedInfo, Acl!aclVars, Acl!DecisionRight,
         Acl!KeptIsComputed, Acl!FirstDecisionRight
    <2> QED BY <2>4, <2>5, <2>6, <2>7, <2>8, <2>9, <2>10 DEF Acl!Next
  <1>3. AclInv => Acl!DecisionRight
    BY DEF AclInv
  <1> QED BY <1>1, <1>2, <1>3, PTL DEF Acl!Spec

-----------------------------------------------------------------------------
(* Mail *)

Messages == [id : Nat, recipient : MailUsers, status : {"unread", "trash", "saved"}]

\* A message has a number of its own; a session that is not logged in does nothing, and
\* one that has looked up a message is not reading.
BoxTypes ==
  /\ numSent \in Nat /\ online \subseteq MailSessions
  /\ box \subseteq Messages /\ \A m \in box : m.id <= numSent
  /\ savedOnce \subseteq [id : Nat, of : MailUsers]
  /\ \A m, n \in box : m.id = n.id => m = n
  /\ reading \in [MailSessions -> SUBSET Messages]
  /\ target \in [MailSessions -> [op : {"none", "save", "purge"}, id : Nat]]
  /\ \A s \in MailSessions :
       /\ target[s] # Mai!NoTarget => reading[s] = {}
       /\ s \notin online => reading[s] = {} /\ target[s] = Mai!NoTarget

\* What a session reads or has looked up is its own user's mail.
OwnMail(s, id) == id <= numSent /\ \A n \in box : n.id = id => n.recipient = UserOf[s]
OwnInv ==
  \A s \in MailSessions :
    /\ \A m \in reading[s] : OwnMail(s, m.id)
    /\ target[s] # Mai!NoTarget => OwnMail(s, target[s].id)

\* A user with one session at a time cannot save what that session is reading as unread.
AloneInv ==
  /\ \A s, t \in online : UserOf[s] = UserOf[t] /\ UserOf[s] \notin shared => s = t
  /\ \A s \in MailSessions : UserOf[s] \notin shared =>
       \A m \in reading[s] : m.status = "unread" => \A n \in box : n.id = m.id => n.status # "saved"
  /\ \A e \in savedOnce : e.of \notin shared =>
       \E m \in box : m.id = e.id /\ m.status = "saved" /\ m.recipient = e.of

MailInv == BoxTypes /\ OwnInv /\ AloneInv /\ Mai!TrashWasShown

\* The first message of a box that is not empty is one of it.
LEMMA FirstMessage ==
  ASSUME NEW mail \in SUBSET Messages, mail # {}
  PROVE  Mai!First(mail) \in mail
PROOF
  <1> DEFINE S == {m.id : m \in mail}
  <1>1. S \in SUBSET Nat /\ S # {}
    BY DEF Messages
  <1>2. PICK x \in S : \A y \in S : x <= y
    <2> HIDE DEF S
    <2> QED BY <1>1, LeastNatural
  <1>3. \E m \in mail : \A n \in mail : m.id <= n.id
    BY <1>2
  <1> QED BY <1>3 DEF Mai!First

\* An update changes the status of one message at most, of those it asks for.
LEMMA UpdatedBox ==
  ASSUME NEW ids, NEW st \in {"trash", "saved"}, Mai!Update(ids, st), BoxTypes
  PROVE  \/ box' = box /\ \A m \in box : m.id \notin ids
         \/ \E m \in box : m.id \in ids /\ box' = (box \ {m}) \cup {[id |-> m.id, recipient |-> m.recipient, status |-> st]}
PROOF
  <1> DEFINE at == {m \in box : m.id \in ids}
             f == Mai!First(at)
  <1>1. CASE at = {}
    BY <1>1 DEF Mai!Update
  <1>2. CASE at # {}
    <2>1. f \in at
      BY <1>2, FirstMessage DEF BoxTypes
    <2>2. box' = (box \ {f}) \cup {[f EXCEPT !.status = st]}
      BY <1>2 DEF Mai!Update
    <2>3. f \in Messages
      BY <2>1 DEF BoxTypes
    <2>4. [f EXCEPT !.status = st] = [id |-> f.id, recipient |-> f.recipient, status |-> st]
      <3> HIDE DEF f
      <3> QED BY <2>3 DEF Messages
    <2> QED BY <2>1, <2>2, <2>4
  <1> QED BY <1>1, <1>2

\* The mailbox after a step that inserts nothing: no message has another number or
\* recipient than it had.
NoNewMail == \A m \in box' : \E n \in box : m.id = n.id /\ m.recipient = n.recipient

\* An update of the status of messages adds none.
LEMMA UpdateKeepsTypes ==
  ASSUME NEW ids, NEW st \in {"trash", "saved"}, Mai!Update(ids, st), BoxTypes, UNCHANGED numSent
  PROVE  /\ NoNewMail /\ box' \subseteq Messages /\ \A m \in box' : m.id <= numSent'
         /\ \A m, n \in box' : m.id = n.id => m = n
         /\ \A m \in box' : m \in box \/ (m.status = st /\ m.id \in ids)
         /\ \A m \in box : \E n \in box' : n.id = m.id /\ n.recipient = m.recipient
                                           /\ (m.id \notin ids => n = m)
PROOF
  <1>1. CASE box' = box
    BY <1>1 DEF BoxTypes, NoNewMail
  <1>2. CASE \E m \in box : m.id \in ids /\ box' = (box \ {m}) \cup
                               {[id |-> m.id, recipient |-> m.recipient, status |-> st]}
    <2>1. PICK m \in box : m.id \in ids /\ box' = (box \ {m}) \cup
                               {[id |-> m.id, recipient |-> m.recipient, status |-> st]}
      BY <1>2
    <2> DEFINE u == [id |-> m.id, recipient |-> m.recipient, status |-> st]
    <2>2. u \in Messages /\ u.id = m.id /\ u.recipient = m.recipient /\ u.status = st
      BY DEF BoxTypes, Messages
    <2>3. box' = (box \ {m}) \cup {u}
      BY <2>1
    <2> HIDE DEF u
    <2>4. NoNewMail /\ box' \subseteq Messages /\ \A n \in box' : n.id <= numSent'
      BY <2>2, <2>3 DEF BoxTypes, NoNewMail
    <2>5. \A n, o \in box' : n.id = o.id => n = o
      BY <2>2, <2>3 DEF BoxTypes
    <2>6. \A n \in box' : n \in box \/ (n.status = st /\ n.id \in ids)
      BY <2>1, <2>2, <2>3
    <2>7. ASSUME NEW n \in box
          PROVE  \E o \in box' : o.id = n.id /\ o.recipient = n.recipient /\ (n.id \notin ids => o = n)
      <3>1. CASE n = m
        BY <2>1, <2>2, <2>3, <3>1
      <3>2. CASE n # m
        BY <2>3, <3>2
      <3> QED BY <3>1, <3>2
    <2> QED BY <2>4, <2>5, <2>6, <2>7
  <1> QED BY <1>1, <1>2, UpdatedBox

\* A step that inserts nothing keeps what is known of the mail others are reading.
LEMMA OwnKept ==
  ASSUME NoNewMail, NEW s, NEW id, OwnMail(s, id), UNCHANGED numSent
  PROVE  OwnMail(s, id)'
  BY DEF NoNewMail, OwnMail

\* What reading shows is in the session's own mailbox, and what a session has in hand.
LEMMA SessionMail ==
  ASSUME BoxTypes, NEW s \in MailSessions, UserOf \in [MailSessions -> MailUsers],
         NEW m \in Mai!Of(UserOf[s])
  PROVE  m \in box /\ m \in Messages /\ OwnMail(s, m.id)
  BY DEF BoxTypes, OwnMail, Mai!Of

\* A login keeps the invariant of the mail.
LEMMA LoginMail ==
  ASSUME MailInv, Mai!MailAssumption, NEW s \in MailSessions, Mai!Login(s)
  PROVE  MailInv'
PROOF
  <1> USE DEF Mai!Login
  <1>1. BoxTypes'
    BY DEF MailInv, BoxTypes
  <1>2. OwnInv'
    BY DEF MailInv, OwnInv, OwnMail
  <1>3. shared \subseteq shared' /\ online' = online \cup {s} /\ s \notin online
    OBVIOUS
  <1>4. \A t \in online : UserOf[t] = UserOf[s] => UserOf[s] \in shared'
    OBVIOUS
  <1>5. AloneInv'
    <2>1. \A t, r \in online' : UserOf[t] = UserOf[r] /\ UserOf[t] \notin shared' => t = r
      BY <1>3, <1>4 DEF MailInv, AloneInv
    <2>2. UNCHANGED <<box, reading, savedOnce>>
      OBVIOUS
    <2>3. \A t \in MailSessions : UserOf[t] \notin shared' =>
            \A m \in reading'[t] : m.status = "unread" => \A n \in box' : n.id = m.id => n.status # "saved"
      BY <1>3, <2>2 DEF MailInv, AloneInv
    <2>4. \A e \in savedOnce' : e.of \notin shared' =>
            \E m \in box' : m.id = e.id /\ m.status = "saved" /\ m.recipient = e.of
      BY <1>3, <2>2 DEF MailInv, AloneInv
    <2> QED BY <2>1, <2>3, <2>4 DEF AloneInv
  <1>6. Mai!TrashWasShown'
    BY DEF MailInv, Mai!TrashWasShown
  <1> QED BY <1>1, <1>2, <1>5, <1>6 DEF MailInv

\* The trash goes, of all messages.
LEMMA PurgedBox ==
  ASSUME BoxTypes, NEW u, Mai!PurgeTrash(u)
  PROVE  box' \subseteq box /\ \A m \in box : m.status # "trash" => m \in box'
PROOF
  <1>1. CASE Mai!DbFails
    BY <1>1 DEF Mai!DbFails
  <1>2. CASE Mai!Delete(Mai!TrashOf(u))
    <2>1. box' = {m \in box : m.id \notin Mai!TrashOf(u)}
      BY <1>2 DEF Mai!Delete
    <2>2. \A m \in box : m.id \in Mai!TrashOf(u) => m.status = "trash"
      BY DEF BoxTypes, Mai!TrashOf, Mai!Ids, Mai!Of
    <2> QED BY <2>1, <2>2
  <1> QED BY <1>1, <1>2 DEF Mai!PurgeTrash

\* Messages go, no saved one among them, other than those whose entry goes too.
LEMMA ShrunkBox ==
  ASSUME MailInv, box' \subseteq box, savedOnce' \subseteq savedOnce,
         \A e \in savedOnce' : \A m \in box :
            m.id = e.id /\ m.status = "saved" /\ m.recipient = e.of => m \in box',
         UNCHANGED <<numSent, shared, shown, online, reading>>,
         target' \in [MailSessions -> [op : {"none", "save", "purge"}, id : Nat]],
         \A s \in MailSessions : target'[s] = target[s] \/ target'[s] = Mai!NoTarget
  PROVE  MailInv'
PROOF
  <1>1. BoxTypes'
    <2>1. \A t \in MailSessions : /\ target'[t] # Mai!NoTarget => reading'[t] = {}
                                  /\ t \notin online' => reading'[t] = {} /\ target'[t] = Mai!NoTarget
      BY DEF MailInv, BoxTypes
    <2> QED BY <2>1 DEF MailInv, BoxTypes, Mai!NoTarget
  <1>2. NoNewMail
    BY DEF NoNewMail
  <1>3. OwnInv'
    BY <1>2, OwnKept DEF MailInv, OwnInv, Mai!NoTarget
  <1>4. AloneInv'
    <2>1. \A t, r \in online' : UserOf[t] = UserOf[r] /\ UserOf[t] \notin shared' => t = r
      BY DEF MailInv, AloneInv
    <2>2. \A t \in MailSessions : UserOf[t] \notin shared' =>
            \A m \in reading'[t] : m.status = "unread" => \A n \in box' : n.id = m.id => n.status # "saved"
      BY DEF MailInv, AloneInv
    <2>3. \A e \in savedOnce' : e.of \notin shared' =>
            \E m \in box' : m.id = e.id /\ m.status = "saved" /\ m.recipient = e.of
      BY DEF MailInv, AloneInv
    <2> QED BY <2>1, <2>2, <2>3 DEF AloneInv
  <1>5. Mai!TrashWasShown'
    BY DEF MailInv, Mai!TrashWasShown
  <1> QED BY <1>1, <1>3, <1>4, <1>5 DEF MailInv

\* So does a logout.
LEMMA LogoutMail ==
  ASSUME MailInv, Mai!MailAssumption, NEW s \in MailSessions, Mai!Logout(s)
  PROVE  MailInv'
PROOF
  <1>0. /\ UNCHANGED <<numSent, shared, savedOnce, shown>> /\ online' = online \ {s}
        /\ reading' = [reading EXCEPT ![s] = {}] /\ target' = [target EXCEPT ![s] = Mai!NoTarget]
        /\ box' \subseteq box /\ \A m \in box : m.status # "trash" => m \in box'
    BY PurgedBox DEF Mai!Logout, MailInv
  <1>t. reading \in [MailSessions -> SUBSET Messages] /\ BoxTypes
    BY DEF MailInv, BoxTypes
  <1>r. \A t \in MailSessions : reading'[t] = IF t = s THEN {} ELSE reading[t]
    BY <1>0, <1>t
  <1>x. target \in [MailSessions -> [op : {"none", "save", "purge"}, id : Nat]]
    BY <1>t DEF BoxTypes
  <1>g. \A t \in MailSessions : target'[t] = IF t = s THEN Mai!NoTarget ELSE target[t]
    BY <1>0, <1>x
  <1>1. BoxTypes'
    <2>1. reading' \in [MailSessions -> SUBSET Messages]
      BY <1>0, <1>t
    <2>2. target' \in [MailSessions -> [op : {"none", "save", "purge"}, id : Nat]]
      BY <1>0, <1>x DEF Mai!NoTarget
    <2>3. \A t \in MailSessions : /\ target'[t] # Mai!NoTarget => reading'[t] = {}
                                  /\ t \notin online' => reading'[t] = {} /\ target'[t] = Mai!NoTarget
      BY <1>0, <1>t, <1>r, <1>g DEF BoxTypes
    <2>4. numSent' \in Nat /\ online' \subseteq MailSessions /\ box' \subseteq Messages
      BY <1>0, <1>t DEF BoxTypes
    <2>5. (\A m \in box' : m.id <= numSent') /\ \A m, n \in box' : m.id = n.id => m = n
      BY <1>0, <1>t DEF BoxTypes
    <2>6. savedOnce' \subseteq [id : Nat, of : MailUsers]
      BY <1>0, <1>t DEF BoxTypes
    <2> QED BY <2>1, <2>2, <2>3, <2>4, <2>5, <2>6 DEF BoxTypes, Mai!NoTarget
  <1>2. NoNewMail
    BY <1>0 DEF NoNewMail
  <1>3. OwnInv'
    BY <1>0, <1>2, <1>r, <1>g, OwnKept DEF MailInv, OwnInv, Mai!NoTarget
  <1>4. AloneInv'
    <2>1. \A t, r \in online' : UserOf[t] = UserOf[r] /\ UserOf[t] \notin shared' => t = r
      BY <1>0 DEF MailInv, AloneInv
    <2>2. \A t \in MailSessions : UserOf[t] \notin shared' =>
            \A m \in reading'[t] : m.status = "unread" => \A n \in box' : n.id = m.id => n.status # "saved"
      BY <1>0, <1>r DEF MailInv, AloneInv
    <2>3. \A e \in savedOnce' : e.of \notin shared' =>
            \E m \in box' : m.id = e.id /\ m.status = "saved" /\ m.recipient = e.of
      BY <1>0 DEF MailInv, AloneInv
    <2> QED BY <2>1, <2>2, <2>3 DEF AloneInv
  <1>5. Mai!TrashWasShown'
    BY <1>0 DEF MailInv, Mai!TrashWasShown
  <1> QED BY <1>1, <1>3, <1>4, <1>5 DEF MailInv

\* So does a new message to any set of users.
LEMMA SendMail ==
  ASSUME MailInv, Mai!MailAssumption, NEW s \in MailSessions, NEW to \in SUBSET MailUsers, Mai!Send(s, to)
  PROVE  MailInv'
PROOF
  <1>0. UNCHANGED <<shared, savedOnce, shown, online, reading, target>> /\ numSent' = numSent + 1
    BY DEF Mai!Send
  <1>t. BoxTypes
    BY DEF MailInv
  <1>1. PICK u \in MailUsers : \/ Mai!Insert([id |-> numSent', recipient |-> u, status |-> "unread"])
                                \/ Mai!DbFails
    BY DEF Mai!Send, Mai!Recipients
  <1> DEFINE m == [id |-> numSent', recipient |-> u, status |-> "unread"]
  <1>m. m \in Messages /\ m.id = numSent + 1 /\ m.status = "unread"
    BY <1>0, <1>t DEF Messages, BoxTypes
  <1>b. box' = box \/ box' = box \cup {m}
    BY <1>1 DEF Mai!Insert, Mai!DbFails
  <1> HIDE DEF m
  <1>i. \A n \in box : n.id \in Nat /\ n.id <= numSent /\ n.id # numSent + 1
    BY <1>t DEF BoxTypes, Messages
  <1>2. BoxTypes'
    <2>1. box' \subseteq Messages /\ \A n \in box' : n.id <= numSent'
      BY <1>0, <1>t, <1>m, <1>b, <1>i DEF BoxTypes
    <2>2. \A n, o \in box' : n.id = o.id => n = o
      BY <1>t, <1>m, <1>b, <1>i DEF BoxTypes
    <2> QED BY <1>0, <1>t, <2>1, <2>2 DEF BoxTypes, Mai!NoTarget
  <1>3. ASSUME NEW t \in MailSessions, NEW id \in Nat, OwnMail(t, id) PROVE OwnMail(t, id)'
    <2>1. id <= numSent /\ id # numSent + 1 /\ id <= numSent'
      BY <1>0, <1>3, <1>t DEF OwnMail, BoxTypes
    <2> QED BY <1>b, <1>m, <1>3, <2>1 DEF OwnMail
  <1>4. OwnInv'
    BY <1>0, <1>t, <1>3 DEF MailInv, OwnInv, BoxTypes, Messages, Mai!NoTarget
  <1>5. AloneInv'
    <2>1. \A t, r \in online' : UserOf[t] = UserOf[r] /\ UserOf[t] \notin shared' => t = r
      BY <1>0 DEF MailInv, AloneInv
    <2>2. \A t \in MailSessions : UserOf[t] \notin shared' =>
            \A n \in reading'[t] : n.status = "unread" => \A o \in box' : o.id = n.id => o.status # "saved"
      BY <1>0, <1>b, <1>m DEF MailInv, AloneInv
    <2>3. \A e \in savedOnce' : e.of \notin shared' =>
            \E n \in box' : n.id = e.id /\ n.status = "saved" /\ n.recipient = e.of
      BY <1>0, <1>b DEF MailInv, AloneInv
    <2> QED BY <2>1, <2>2, <2>3 DEF AloneInv
  <1>6. Mai!TrashWasShown'
    BY <1>0, <1>b, <1>m DEF MailInv, Mai!TrashWasShown
  <1> QED BY <1>2, <1>4, <1>5, <1>6 DEF MailInv

\* So does reading.
LEMMA ReadMail ==
  ASSUME MailInv, Mai!MailAssumption, NEW s \in MailSessions, NEW number, Mai!Read(s, number)
  PROVE  MailInv'
PROOF
  <1>0. UNCHANGED <<box, online, target, shown, savedOnce, shared, numSent>> /\ Mai!Idle(s)
    BY DEF Mai!Read
  <1>t. BoxTypes /\ reading \in [MailSessions -> SUBSET Messages]
    BY DEF MailInv, BoxTypes
  <1>1. PICK r \in SUBSET Mai!Of(UserOf[s]) : reading' = [reading EXCEPT ![s] = r]
    BY DEF Mai!Read
  <1>2. \A m \in r : m \in box /\ m \in Messages /\ OwnMail(s, m.id)
    BY <1>t, SessionMail DEF Mai!MailAssumption
  <1>r. \A t \in MailSessions : reading'[t] = IF t = s THEN r ELSE reading[t]
    BY <1>1, <1>t
  <1>3. BoxTypes'
    <2>1. reading' \in [MailSessions -> SUBSET Messages]
      BY <1>1, <1>2, <1>t
    <2>2. \A t \in MailSessions : /\ target'[t] # Mai!NoTarget => reading'[t] = {}
                                  /\ t \notin online' => reading'[t] = {} /\ target'[t] = Mai!NoTarget
      BY <1>0, <1>t, <1>r DEF BoxTypes, Mai!Idle
    <2> QED BY <1>0, <1>t, <2>1, <2>2 DEF BoxTypes, Mai!NoTarget
  <1>4. OwnInv'
    BY <1>0, <1>2, <1>r DEF MailInv, OwnInv, OwnMail, Mai!NoTarget
  <1>5. AloneInv'
    <2>1. \A t \in MailSessions : UserOf[t] \notin shared' =>
            \A m \in reading'[t] : m.status = "unread" => \A n \in box' : n.id = m.id => n.status # "saved"
      BY <1>0, <1>t, <1>2, <1>r DEF MailInv, AloneInv, BoxTypes
    <2> QED BY <1>0, <2>1 DEF MailInv, AloneInv
  <1>6. Mai!TrashWasShown'
    BY <1>0 DEF MailInv, Mai!TrashWasShown
  <1> QED BY <1>3, <1>4, <1>5, <1>6 DEF MailInv

\* Showing a message that was unread when it was fetched: who is alone in the mailbox has
\* not saved it meanwhile.
LEMMA ReadNextMail ==
  ASSUME MailInv, Mai!MailAssumption, NEW s \in MailSessions, Mai!ReadNext(s)
  PROVE  MailInv'
PROOF
  <1> DEFINE f == Mai!First(reading[s])
  <1>t. BoxTypes /\ reading \in [MailSessions -> SUBSET Messages]
    BY DEF MailInv, BoxTypes
  <1>0. /\ UNCHANGED <<online, target, savedOnce, shared, numSent>> /\ reading[s] # {}
        /\ reading' = [reading EXCEPT ![s] = reading[s] \ {f}] /\ shown' = shown \cup {f.id}
        /\ box' = box \/ (f.status = "unread" /\ Mai!Update({f.id}, "trash"))
    BY DEF Mai!ReadNext, Mai!DbFails
  <1>f. f \in reading[s]
    BY <1>t, <1>0, FirstMessage
  <1> HIDE DEF f
  <1>r. \A t \in MailSessions : reading'[t] \subseteq reading[t]
    BY <1>0, <1>t
  <1>y. reading' \in [MailSessions -> SUBSET Messages]
    BY <1>0, <1>t
  <1>b. /\ NoNewMail /\ box' \subseteq Messages /\ \A m \in box' : m.id <= numSent'
        /\ \A m, n \in box' : m.id = n.id => m = n
        /\ \A m \in box' : m \in box \/ (m.status = "trash" /\ m.id = f.id)
        /\ \A m \in box : m \in box' \/ (f.status = "unread" /\ m.id = f.id)
    <2>1. CASE box' = box
      BY <2>1, <1>0, <1>t DEF BoxTypes, NoNewMail
    <2>2. CASE f.status = "unread" /\ Mai!Update({f.id}, "trash")
      BY <2>2, <1>0, <1>t, UpdateKeepsTypes
    <2> QED BY <1>0, <2>1, <2>2
  <1>1. BoxTypes'
    <2>1. \A t \in MailSessions : /\ target'[t] # Mai!NoTarget => reading'[t] = {}
                                  /\ t \notin online' => reading'[t] = {} /\ target'[t] = Mai!NoTarget
      BY <1>0, <1>t, <1>r DEF BoxTypes
    <2> QED BY <1>0, <1>t, <1>b, <1>y, <2>1 DEF BoxTypes, Mai!NoTarget
  <1>2. OwnInv'
    BY <1>0, <1>b, <1>r, OwnKept DEF MailInv, OwnInv, Mai!NoTarget
  <1>3. AloneInv'
    <2>1. \A t, r \in online' : UserOf[t] = UserOf[r] /\ UserOf[t] \notin shared' => t = r
      BY <1>0 DEF MailInv, AloneInv
    <2>2. \A t \in MailSessions : UserOf[t] \notin shared' =>
            \A m \in reading'[t] : m.status = "unread" => \A n \in box' : n.id = m.id => n.status # "saved"
      BY <1>0, <1>r, <1>b DEF MailInv, AloneInv
    <2>3. ASSUME NEW e \in savedOnce, e.of \notin shared
          PROVE  \E m \in box' : m.id = e.id /\ m.status = "saved" /\ m.recipient = e.of
      <3>1. PICK m \in box : m.id = e.id /\ m.status = "saved" /\ m.recipient = e.of
        BY <2>3 DEF MailInv, AloneInv
      <3>2. CASE m \in box'
        BY <3>1, <3>2
      <3>3. CASE f.status = "unread" /\ m.id = f.id
        <4>1. UserOf[s] = e.of
          BY <1>f, <3>1, <3>3 DEF MailInv, OwnInv, OwnMail
        <4> QED BY <1>f, <2>3, <3>1, <3>3, <4>1 DEF MailInv, AloneInv
      <3> QED BY <1>b, <3>2, <3>3
    <2> QED BY <1>0, <2>1, <2>2, <2>3 DEF AloneInv
  <1>4. Mai!TrashWasShown'
    BY <1>0, <1>b DEF MailInv, Mai!TrashWasShown
  <1> QED BY <1>1, <1>2, <1>3, <1>4 DEF MailInv

\* A message is marked as saved by an idle session, which reads nothing: what other
\* sessions of its user read does not matter, the mailbox is shared then.
LEMMA MarkedSaved ==
  ASSUME MailInv, Mai!MailAssumption, NEW s \in online, reading[s] = {}, NEW ids, Mai!Update(ids, "saved"),
         \A m \in box : m.id \in ids => m.recipient = UserOf[s],
         UNCHANGED <<online, reading, shared, numSent, shown>>,
         target' \in [MailSessions -> [op : {"none", "save", "purge"}, id : Nat]],
         \A t \in MailSessions : target'[t] = target[t] \/ target'[t] = Mai!NoTarget,
         savedOnce' \subseteq [id : Nat, of : MailUsers],
         \A e \in savedOnce' : e \in savedOnce \/
            (e.of = UserOf[s] /\ \E m \in box' : m.id = e.id /\ m.status = "saved" /\ m.id \in ids)
  PROVE  MailInv'
PROOF
  <1>t. BoxTypes /\ s \in MailSessions
    BY DEF MailInv, BoxTypes
  <1>b. /\ NoNewMail /\ box' \subseteq Messages /\ \A m \in box' : m.id <= numSent'
        /\ \A m, n \in box' : m.id = n.id => m = n
        /\ \A m \in box' : m \in box \/ (m.status = "saved" /\ m.id \in ids)
        /\ \A m \in box : \E n \in box' : n.id = m.id /\ n.recipient = m.recipient
                                          /\ (m.id \notin ids => n = m)
    BY <1>t, UpdateKeepsTypes
  <1>1. BoxTypes'
    <2>1. \A t \in MailSessions : /\ target'[t] # Mai!NoTarget => reading'[t] = {}
                                  /\ t \notin online' => reading'[t] = {} /\ target'[t] = Mai!NoTarget
      BY <1>t DEF BoxTypes
    <2> QED BY <1>t, <1>b, <2>1 DEF BoxTypes, Mai!NoTarget
  <1>2. OwnInv'
    BY <1>b, OwnKept DEF MailInv, OwnInv, Mai!NoTarget
  <1>3. AloneInv'
    <2>1. \A t, r \in online' : UserOf[t] = UserOf[r] /\ UserOf[t] \notin shared' => t = r
      BY DEF MailInv, AloneInv
    <2>2. ASSUME NEW t \in MailSessions, UserOf[t] \notin shared, NEW m \in reading[t],
                 m.status = "unread", NEW n \in box', n.id = m.id
          PROVE  n.status # "saved"
      <3>1. CASE n \in box
        BY <2>2, <3>1 DEF MailInv, AloneInv
      <3>2. CASE n.id \in ids
        <4>1. PICK o \in box : o.id = n.id /\ o.recipient = n.recipient
          BY <1>b DEF NoNewMail
        <4>2. o.recipient = UserOf[s] /\ o.recipient = UserOf[t]
          BY <2>2, <3>2, <4>1 DEF MailInv, OwnInv, OwnMail
        <4>3. t \in online
          BY <1>t, <2>2 DEF BoxTypes
        <4>4. t = s
          BY <2>2, <4>2, <4>3, ZenonT(30) DEF MailInv, AloneInv
        <4> QED BY <2>2, <4>4
      <3> QED BY <1>b, <3>1, <3>2
    <2>3. ASSUME NEW e \in savedOnce', e.of \notin shared
          PROVE  \E m \in box' : m.id = e.id /\ m.status = "saved" /\ m.recipient = e.of
      <3>1. CASE e \in savedOnce
        <4>1. PICK m \in box : m.id = e.id /\ m.status = "saved" /\ m.recipient = e.of
          BY <2>3, <3>1 DEF MailInv, AloneInv
        <4>2. PICK n \in box' : n.id = m.id /\ n.recipient = m.recipient /\ (m.id \notin ids => n = m)
          BY <1>b
        <4>3. n.status = "saved"
          BY <1>b, <1>t, <4>1, <4>2 DEF BoxTypes
        <4> QED BY <4>1, <4>2, <4>3
      <3>2. CASE e.of = UserOf[s] /\ \E m \in box' : m.id = e.id /\ m.status = "saved" /\ m.id \in ids
        <4>1. PICK m \in box' : m.id = e.id /\ m.status = "saved" /\ m.id \in ids
          BY <3>2
        <4>2. PICK o \in box : o.id = m.id /\ o.recipient = m.recipient
          BY <1>b DEF NoNewMail
        <4> QED BY <3>2, <4>1, <4>2
      <3> QED BY <3>1, <3>2
    <2> QED BY <2>1, <2>2, <2>3 DEF AloneInv
  <1>4. Mai!TrashWasShown'
    BY <1>b DEF MailInv, Mai!TrashWasShown
  <1> QED BY <1>1, <1>2, <1>3, <1>4 DEF MailInv

\* An operation of the database that fails changes no more than what is still to do.
LEMMA FailedMail ==
  ASSUME MailInv, Mai!DbFails, UNCHANGED <<numSent, shared, savedOnce, shown, online, reading>>,
         target' \in [MailSessions -> [op : {"none", "save", "purge"}, id : Nat]],
         \A s \in MailSessions : target'[s] = target[s] \/ target'[s] = Mai!NoTarget
  PROVE  MailInv'
PROOF
  <1>1. box' = box
    BY DEF Mai!DbFails
  <1> QED BY <1>1, ShrunkBox

\* The first message of the trash is marked; a failed update marks none, and the trash
\* holds nothing that is marked already.
LEMMA SaveTrashMail ==
  ASSUME MailInv, Mai!MailAssumption, NEW s \in MailSessions, Mai!SaveTrash(s)
  PROVE  MailInv'
PROOF
  <1> DEFINE u == UserOf[s]
             ids == Mai!TrashOf(u)
             new == {i \in ids : \E m \in box' : m.id = i /\ m.status = "saved"}
  <1>0. /\ UNCHANGED <<online, reading, target, shown, shared, numSent>> /\ Mai!Idle(s)
        /\ Mai!DbFails \/ Mai!Update(ids, "saved")
        /\ savedOnce' = savedOnce \cup {[id |-> i, of |-> u] : i \in new}
    BY DEF Mai!SaveTrash
  <1>t. BoxTypes /\ target' \in [MailSessions -> [op : {"none", "save", "purge"}, id : Nat]]
    BY <1>0 DEF MailInv, BoxTypes
  <1>u. u \in MailUsers
    BY DEF Mai!MailAssumption
  <1>i. /\ ids \subseteq Nat
        /\ \A m \in box : m.id \in ids => m.recipient = u /\ m.status = "trash"
    BY <1>t DEF BoxTypes, Messages, Mai!TrashOf, Mai!Ids, Mai!Of
  <1> HIDE DEF u, ids
  <1>1. CASE Mai!DbFails
    <2>1. box' = box
      BY <1>1 DEF Mai!DbFails
    <2>2. new = {}
      BY <1>i, <2>1
    <2>3. savedOnce' = savedOnce
      BY <1>0, <2>2
    <2> QED BY <1>0, <1>1, <1>t, <2>3, FailedMail
  <1>2. CASE Mai!Update(ids, "saved")
    <2>1. savedOnce' \subseteq [id : Nat, of : MailUsers]
      BY <1>0, <1>t, <1>u, <1>i DEF BoxTypes
    <2>2. \A e \in savedOnce' : e \in savedOnce \/
            (e.of = u /\ \E m \in box' : m.id = e.id /\ m.status = "saved" /\ m.id \in ids)
      BY <1>0
    <2>3. s \in online /\ reading[s] = {}
      BY <1>0 DEF Mai!Idle
    <2> QED BY <1>0, <1>2, <1>t, <1>i, <2>1, <2>2, <2>3, MarkedSaved DEF u
  <1> QED BY <1>0, <1>1, <1>2

\* So does emptying one's trash.
LEMMA PurgeOwnMail ==
  ASSUME MailInv, Mai!MailAssumption, NEW s \in MailSessions, Mai!PurgeOwnTrash(s)
  PROVE  MailInv'
PROOF
  <1>1. UNCHANGED <<online, reading, target, shown, savedOnce, shared, numSent>>
    BY DEF Mai!PurgeOwnTrash
  <1>2. BoxTypes /\ target' \in [MailSessions -> [op : {"none", "save", "purge"}, id : Nat]]
    BY <1>1 DEF MailInv, BoxTypes
  <1>3. box' \subseteq box /\ \A m \in box : m.status # "trash" => m \in box'
    BY <1>2, PurgedBox DEF Mai!PurgeOwnTrash
  <1> QED BY <1>1, <1>2, <1>3, ShrunkBox

\* So does looking up the message to save or to purge.
LEMMA LookedUpMail ==
  ASSUME MailInv, Mai!MailAssumption, NEW s \in MailSessions, NEW op \in {"save", "purge"}, NEW number,
         Mai!IndexToOID(s, op, number)
  PROVE  MailInv'
PROOF
  <1>0. /\ UNCHANGED <<box, online, reading, shown, savedOnce, shared, numSent>>
        /\ s \in online /\ reading[s] = {}
    BY DEF Mai!IndexToOID, Mai!Idle
  <1>1. PICK m \in Mai!Of(UserOf[s]) : target' = [target EXCEPT ![s] = [op |-> op, id |-> m.id]]
    BY DEF Mai!IndexToOID
  <1>t. BoxTypes /\ target \in [MailSessions -> [op : {"none", "save", "purge"}, id : Nat]]
    BY DEF MailInv, BoxTypes
  <1>2. m \in Messages /\ OwnMail(s, m.id)
    BY <1>t, SessionMail DEF Mai!MailAssumption
  <1>3. \A r \in MailSessions : target'[r] = IF r = s THEN [op |-> op, id |-> m.id] ELSE target[r]
    BY <1>1, <1>t
  <1>4. BoxTypes'
    <2>1. target' \in [MailSessions -> [op : {"none", "save", "purge"}, id : Nat]]
      BY <1>1, <1>2, <1>t DEF Messages
    <2>2. \A t \in MailSessions : /\ target'[t] # Mai!NoTarget => reading'[t] = {}
                                  /\ t \notin online' => reading'[t] = {} /\ target'[t] = Mai!NoTarget
      BY <1>0, <1>3, <1>t DEF BoxTypes
    <2> QED BY <1>0, <1>t, <2>1, <2>2 DEF BoxTypes, Mai!NoTarget
  <1>5. OwnInv'
    <2>1. ASSUME NEW r \in MailSessions, target'[r] # Mai!NoTarget PROVE OwnMail(r, target'[r].id)
      BY <1>2, <1>3, <2>1 DEF MailInv, OwnInv
    <2> QED BY <1>0, <2>1 DEF MailInv, OwnInv, OwnMail, Mai!NoTarget
  <1>6. AloneInv' /\ Mai!TrashWasShown'
    BY <1>0 DEF MailInv, AloneInv, Mai!TrashWasShown
  <1> QED BY <1>4, <1>5, <1>6 DEF MailInv

\* What the session looked up is its user's, whatever has happened to it since: it is
\* marked, or it goes together with its entry.
LEMMA FinishMail ==
  ASSUME MailInv, Mai!MailAssumption, NEW s \in MailSessions, Mai!Finish(s)
  PROVE  MailInv'
PROOF
  <1> DEFINE t == target[s]
             entry == [id |-> t.id, of |-> UserOf[s]]
  <1>0. /\ UNCHANGED <<online, reading, shown, shared, numSent>> /\ t # Mai!NoTarget
        /\ target' = [target EXCEPT ![s] = Mai!NoTarget]
    BY DEF Mai!Finish
  <1>t. BoxTypes /\ target \in [MailSessions -> [op : {"none", "save", "purge"}, id : Nat]]
    BY DEF MailInv, BoxTypes
  <1>1. /\ target' \in [MailSessions -> [op : {"none", "save", "purge"}, id : Nat]]
        /\ \A r \in MailSessions : target'[r] = target[r] \/ target'[r] = Mai!NoTarget
    BY <1>0, <1>t DEF Mai!NoTarget
  <1>2. s \in online /\ reading[s] = {} /\ t.id \in Nat /\ UserOf[s] \in MailUsers
    BY <1>0, <1>t DEF BoxTypes, Mai!MailAssumption
  <1>3. \A m \in box : m.id = t.id => m.recipient = UserOf[s]
    BY <1>0 DEF MailInv, OwnInv, OwnMail
  <1>4. CASE Mai!DbFails /\ UNCHANGED savedOnce
    BY <1>0, <1>1, <1>4, FailedMail
  <1>5. CASE /\ Mai!Update({t.id}, "saved")
             /\ savedOnce' = IF t.id \in Mai!Ids(box) THEN savedOnce \cup {entry} ELSE savedOnce
    <2>1. savedOnce' \subseteq [id : Nat, of : MailUsers]
      BY <1>2, <1>5, <1>t DEF BoxTypes
    <2>2. ASSUME NEW e \in savedOnce', e \notin savedOnce
          PROVE  e.of = UserOf[s] /\ \E m \in box' : m.id = e.id /\ m.status = "saved" /\ m.id \in {t.id}
      <3>1. e.id = t.id /\ e.of = UserOf[s] /\ t.id \in Mai!Ids(box)
        BY <1>5, <2>2
      <3>2. PICK m \in box : m.id = t.id
        BY <3>1 DEF Mai!Ids
      <3>3. PICK n \in box : n.id \in {t.id} /\ box' = (box \ {n}) \cup
                               {[id |-> n.id, recipient |-> n.recipient, status |-> "saved"]}
        BY <1>5, <1>t, <3>2, UpdatedBox
      <3>4. [id |-> n.id, recipient |-> n.recipient, status |-> "saved"] \in box'
        BY <3>3
      <3>5. \E o \in box' : o.id = n.id /\ o.status = "saved"
        BY <3>4
      <3> QED BY <3>1, <3>3, <3>5
    <2> HIDE DEF t, entry
    <2> QED BY <1>0, <1>1, <1>2, <1>3, <1>5, <2>1, <2>2, MarkedSaved
  <1>6. CASE Mai!Delete({t.id}) /\ savedOnce' = savedOnce \ {entry}
    <2>1. box' = {m \in box : m.id # t.id}
      BY <1>6 DEF Mai!Delete
    <2>2. ASSUME NEW e \in savedOnce', NEW m \in box, m.id = e.id, m.recipient = e.of
          PROVE  m \in box'
      <3>1. e \in [id : Nat, of : MailUsers] /\ e # entry
        BY <1>6, <1>t, <2>2 DEF BoxTypes
      <3>2. m.id # t.id
        BY <1>3, <2>2, <3>1
      <3> QED BY <2>1, <3>2
    <2> QED BY <1>0, <1>1, <1>6, <2>1, <2>2, ShrunkBox
  <1> QED BY <1>0, <1>4, <1>5, <1>6 DEF Mai!Finish

\* The invariant of the mail holds initially.
LEMMA MailInit == ASSUME Mai!Init PROVE MailInv
  BY DEF Mai!Init, MailInv, BoxTypes, OwnInv, AloneInv, Mai!TrashWasShown, Mai!NoTarget

\* Every step keeps it.
LEMMA MailNext ==
  ASSUME MailInv, Mai!MailAssumption, [Mai!Next]_Mai!mailVars
  PROVE  MailInv'
PROOF
  <1>1. CASE UNCHANGED Mai!mailVars
    BY <1>1 DEF Mai!mailVars, MailInv, BoxTypes, OwnInv, OwnMail, AloneInv, Mai!TrashWasShown
  <1>2. CASE Mai!Next
    <2>1. PICK s \in MailSessions :
            \/ Mai!Login(s) \/ Mai!Logout(s) \/ Mai!ReadNext(s) \/ Mai!Finish(s)
            \/ Mai!SaveTrash(s) \/ Mai!PurgeOwnTrash(s)
            \/ \E to \in SUBSET MailUsers : Mai!Send(s, to)
            \/ \E number \in 0..MaxMessages : Mai!Read(s, number)
            \/ \E number \in 1..MaxMessages, op \in {"save", "purge"} : Mai!IndexToOID(s, op, number)
      BY <1>2 DEF Mai!Next
    <2> QED BY <2>1, LoginMail, LogoutMail, ReadNextMail, FinishMail, SaveTrashMail, PurgeOwnMail,
               SendMail, ReadMail, LookedUpMail
  <1> QED BY <1>1, <1>2

\* It holds in every reachable state.
LEMMA MailInvHolds == Mai!MailAssumption => (Mai!Spec => []MailInv)
PROOF
  <1> SUFFICES ASSUME Mai!MailAssumption PROVE Mai!Spec => []MailInv
    OBVIOUS
  <1>1. Mai!Init => MailInv
    BY MailInit
  <1>2. MailInv /\ [Mai!Next]_Mai!mailVars => MailInv'
    BY MailNext
  <1> QED BY <1>1, <1>2, PTL DEF Mai!Spec

\* For every set of accounts and sessions, and however many operations the database
\* refuses: what LogOffPurgeTrash (cmd/site/msg.cpp) deletes has been shown, and a message
\* that was saved stays saved until it is purged by its number, if its recipient never had
\* two sessions at a time.
THEOREM MailIsKept == Mai!MailAssumption => (Mai!Spec => []Mai!MailKept)
PROOF
  <1> SUFFICES ASSUME Mai!MailAssumption PROVE Mai!Spec => []Mai!MailKept
    OBVIOUS
  <1>1. MailInv => Mai!MailKept
    BY DEF MailInv, AloneInv, Mai!MailKept, Mai!SavedStays
  <1> QED BY <1>1, MailInvHolds, PTL

\* An update changes no number, and leaves the others as they are.
LEMMA UpdateLosesNone ==
  ASSUME BoxTypes, NEW ids, NEW st \in {"trash", "saved"}, Mai!Update(ids, st), UNCHANGED numSent
  PROVE  \A m \in box : m.id \in Mai!Ids(box')
PROOF
  <1>1. \A m \in box : \E n \in box' : n.id = m.id
    BY UpdateKeepsTypes
  <1> QED BY <1>1 DEF Mai!Ids

\* No step loses a message that was not read.
LEMMA NextLosesNoUnread ==
  ASSUME MailInv, Mai!MailAssumption, [Mai!Next]_Mai!mailVars
  PROVE  [Mai!LoseNoUnread]_Mai!mailVars
PROOF
  <1>t. BoxTypes
    BY DEF MailInv
  <1>a. (\A m \in box : m.id \in Mai!Ids(box')) => Mai!LoseNoUnread
    BY DEF Mai!LoseNoUnread
  <1>b. box \subseteq box' => Mai!LoseNoUnread
    BY <1>a DEF Mai!Ids
  <1>c. (\A m \in box : m.status # "trash" => m \in box') => Mai!LoseNoUnread
    BY DEF MailInv, Mai!TrashWasShown, Mai!LoseNoUnread, Mai!Ids
  <1>1. CASE UNCHANGED Mai!mailVars
    BY <1>1
  <1>2. CASE Mai!Next
    <2>1. PICK s \in MailSessions :
            \/ Mai!Login(s) \/ Mai!Logout(s) \/ Mai!ReadNext(s) \/ Mai!Finish(s)
            \/ Mai!SaveTrash(s) \/ Mai!PurgeOwnTrash(s)
            \/ \E to \in SUBSET MailUsers : Mai!Send(s, to)
            \/ \E number \in 0..MaxMessages : Mai!Read(s, number)
            \/ \E number \in 1..MaxMessages, op \in {"save", "purge"} : Mai!IndexToOID(s, op, number)
      BY <1>2 DEF Mai!Next
    <2>2. CASE \/ Mai!Login(s) \/ \E number \in 0..MaxMessages : Mai!Read(s, number)
               \/ \E number \in 1..MaxMessages, op \in {"save", "purge"} : Mai!IndexToOID(s, op, number)
      BY <1>b, <2>2 DEF Mai!Login, Mai!Read, Mai!IndexToOID
    <2>3. CASE \E to \in SUBSET MailUsers : Mai!Send(s, to)
      <3>1. box \subseteq box'
        BY <2>3 DEF Mai!Send, Mai!Insert, Mai!DbFails
      <3> QED BY <1>b, <3>1
    <2>4. CASE Mai!Logout(s) \/ Mai!PurgeOwnTrash(s)
      <3>1. Mai!PurgeTrash(UserOf[s])
        BY <2>4 DEF Mai!Logout, Mai!PurgeOwnTrash
      <3> QED BY <1>c, <1>t, <3>1, PurgedBox
    <2>5. CASE Mai!ReadNext(s)
      <3>1. UNCHANGED numSent /\ (box' = box \/ \E ids : Mai!Update(ids, "trash"))
        BY <2>5 DEF Mai!ReadNext, Mai!DbFails
      <3> QED BY <1>a, <1>b, <1>t, <3>1, UpdateLosesNone
    <2>6. CASE Mai!SaveTrash(s)
      <3>1. UNCHANGED numSent /\ (box' = box \/ \E ids : Mai!Update(ids, "saved"))
        BY <2>6 DEF Mai!SaveTrash, Mai!DbFails
      <3> QED BY <1>a, <1>b, <1>t, <3>1, UpdateLosesNone
    <2>7. CASE Mai!Finish(s)
      <3> DEFINE t == target[s]
      <3>0. UNCHANGED numSent /\ target' = [target EXCEPT ![s] = Mai!NoTarget]
        BY <2>7 DEF Mai!Finish
      <3>1. CASE box' = box \/ Mai!Update({t.id}, "saved")
        BY <1>a, <1>b, <1>t, <3>0, <3>1, UpdateLosesNone
      <3>2. CASE t.op = "purge" /\ Mai!Delete({t.id})
        <4>1. \A m \in box : m.id # t.id => m.id \in Mai!Ids(box')
          BY <3>2 DEF Mai!Delete, Mai!Ids
        <4>2. target \in [MailSessions -> [op : {"none", "save", "purge"}, id : Nat]]
          BY <1>t DEF BoxTypes
        <4>3. t = [op |-> "purge", id |-> t.id] /\ target'[s] = Mai!NoTarget
          BY <3>0, <3>2, <4>2
        <4> QED BY <4>1, <4>3 DEF Mai!LoseNoUnread
      <3> QED BY <2>7, <3>1, <3>2 DEF Mai!Finish, Mai!DbFails
    <2> QED BY <2>1, <2>2, <2>3, <2>4, <2>5, <2>6, <2>7
  <1> QED BY <1>1, <1>2

\* A message its recipient has not been shown leaves the mailbox only because the
\* recipient purged it by its number: never with the trash, whatever other sessions of the
\* same account do meanwhile.
THEOREM UnreadMailStays == Mai!MailAssumption => (Mai!Spec => Mai!UnreadNotLost)
PROOF
  <1> SUFFICES ASSUME Mai!MailAssumption PROVE Mai!Spec => Mai!UnreadNotLost
    OBVIOUS
  <1>1. MailInv /\ [Mai!Next]_Mai!mailVars => [Mai!LoseNoUnread]_Mai!mailVars
    BY NextLosesNoUnread
  <1> QED BY <1>1, MailInvHolds, PTL DEF Mai!Spec, Mai!UnreadNotLost
=============================================================================
