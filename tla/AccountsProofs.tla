--------------------------- MODULE AccountsProofs ---------------------------
(***************************************************************************)
(* Proofs about the users and the groups of the site, for any number of    *)
(* accounts, groups and operators: however commands overlap, memberships   *)
(* stay sound, no confirmed change and no credits are lost, a deleted      *)
(* account stays deleted, and a gadmin's group keeps its limits.           *)
(***************************************************************************)
EXTENDS Accounts, FiniteSums

-----------------------------------------------------------------------------
(* Sequences of groups *)

\* The last of a set of numbers that has a bound.
LEMMA LastNumber ==
  ASSUME NEW n \in Nat, NEW S \in SUBSET (0..n), S # {}
  PROVE  Max(S) \in S /\ \A x \in S : x <= Max(S)
PROOF
  <1> DEFINE T == {n - x : x \in S}
  <1>1. T \in SUBSET Nat /\ T # {}
    <2>1. ASSUME NEW y \in T PROVE y \in Nat
      <3>1. PICK x \in S : y = n - x
        OBVIOUS
      <3>2. x \in 0..n
        OBVIOUS
      <3> QED BY <3>1, <3>2
    <2> QED BY <2>1
  <1>2. PICK y \in T : \A z \in T : y <= z
    <2> HIDE DEF T
    <2> QED BY <1>1, LeastNumber
  <1>3. PICK x \in S : y = n - x
    BY <1>2
  <1>4. ASSUME NEW z \in S PROVE x >= z
    <2>1. n - z \in T
      OBVIOUS
    <2>2. n - x <= n - z /\ x \in 0..n /\ z \in 0..n
      BY <1>2, <1>3, <2>1
    <2> QED BY <2>2
  <1>5. \E m \in S : \A z \in S : m >= z
    BY <1>4
  <1>6. Max(S) \in S /\ \A z \in S : Max(S) >= z
    BY <1>5 DEF Max
  <1>7. \A z \in S : z \in Int
    OBVIOUS
  <1> QED BY <1>6, <1>7

\* Appending an element adds it to those of the sequence.
LEMMA RangeAppended ==
  ASSUME NEW G, NEW q \in Seq(G), NEW e \in G
  PROVE  Append(q, e) \in Seq(G) /\ Range(Append(q, e)) = Range(q) \cup {e}
PROOF
  <1> DEFINE r == Append(q, e)
  <1>1. /\ r \in Seq(G) /\ Len(r) = Len(q) + 1 /\ Len(q) \in Nat /\ r[Len(q) + 1] = e
        /\ \A i \in 1..Len(q) : r[i] = q[i]
    OBVIOUS
  <1>2. DOMAIN r = 1..(Len(q) + 1) /\ DOMAIN q = 1..Len(q)
    BY <1>1
  <1> HIDE DEF r
  <1>3. ASSUME NEW x PROVE x \in Range(r) <=> x \in Range(q) \cup {e}
    <2>1. x \in Range(r) <=> \E i \in 1..(Len(q) + 1) : r[i] = x
      BY <1>2 DEF Range
    <2>2. x \in Range(q) <=> \E i \in 1..Len(q) : q[i] = x
      BY <1>2 DEF Range
    <2> QED BY <1>1, <2>1, <2>2
  <1>4. Range(r) = Range(q) \cup {e}
    BY <1>3
  <1> QED BY <1>1, <1>4 DEF r

\* What Without keeps of a sequence: std::remove_if and std::copy_if of acl/user.cpp.
LEMMA WithoutKeeps ==
  ASSUME NEW G, NEW s \in Seq(G), NEW S
  PROVE  Without(s, S) \in Seq(G) /\ Range(Without(s, S)) = Range(s) \ S
PROOF
  <1> DEFINE L == Len(s)
             Step(k, n) == IF s[n] \in S THEN k ELSE Append(k, s[n])
             Loop(k, m) == [n \in 0 .. m |-> IF n = 0 THEN <<>> ELSE Step(k[n - 1], n)]
             P(n) == {x \in G : \E i \in 1..n : s[i] = x}
  <1>1. L \in Nat /\ \A n \in 1..L : s[n] \in G
    OBVIOUS
  <1>2. Without(s, S) = (CHOOSE k : k = Loop(k, L))[L]
    BY Zenon DEF Without
  <1> HIDE DEF Step, L
  <1> DEFINE Bad == {m \in 0..L : ~\E k : k = Loop(k, m)}
  <1>3. Bad = {}
    <2> SUFFICES ASSUME Bad # {} PROVE FALSE
      OBVIOUS
    <2>1. PICK m \in Bad : \A z \in Bad : m <= z
      <3>1. Bad \in SUBSET Nat
        BY <1>1
      <3> HIDE DEF Bad
      <3> QED BY <3>1, LeastNumber
    <2>2. m \in 0..L /\ ~\E k : k = Loop(k, m)
      BY <2>1
    <2>3. CASE m = 0
      <3> DEFINE k == [n \in 0..m |-> <<>>]
      <3>1. k = Loop(k, m)
        BY <2>3
      <3> QED BY <2>2, <3>1
    <2>4. CASE m # 0
      <3>1. m - 1 \in 0..L /\ m - 1 \notin Bad
        <4> HIDE DEF Bad, Loop
        <4> QED BY <1>1, <2>1, <2>2, <2>4
      <3>2. PICK k : k = Loop(k, m - 1)
        BY <3>1
      <3>3. \A n \in 0..(m - 1) : k[n] = IF n = 0 THEN <<>> ELSE Step(k[n - 1], n)
        BY <3>2, Zenon
      <3> DEFINE j == [n \in 0..m |-> IF n = m THEN Step(k[m - 1], m) ELSE k[n]]
      <3>4. ASSUME NEW n \in 0..m PROVE j[n] = IF n = 0 THEN <<>> ELSE Step(j[n - 1], n)
        <4>1. CASE n = m
          <5>1. m - 1 \in 0..m /\ m - 1 # m /\ m # 0
            BY <1>1, <2>2, <2>4
          <5>2. j[m - 1] = k[m - 1]
            BY <5>1
          <5> QED BY <4>1, <5>1, <5>2
        <4>2. CASE n # m
          <5>1. n \in 0..(m - 1) /\ (n # 0 => n - 1 \in 0..m /\ n - 1 # m)
            BY <1>1, <2>2, <4>2
          <5>2. n # 0 => j[n - 1] = k[n - 1]
            BY <5>1
          <5> QED BY <3>3, <4>2, <5>1, <5>2
        <4> QED BY <4>1, <4>2
      <3>5. j = Loop(j, m)
        <4>1. j = [n \in 0..m |-> j[n]]
          OBVIOUS
        <4> HIDE DEF j
        <4>2. [n \in 0..m |-> j[n]] = Loop(j, m)
          BY <3>4, Zenon
        <4> QED BY <4>1, <4>2
      <3> HIDE DEF j
      <3> QED BY <2>2, <3>5
    <2> QED BY <2>3, <2>4
  <1>4. PICK k : k = (CHOOSE i : i = Loop(i, L))
    OBVIOUS
  <1>5. k = Loop(k, L)
    <2>1. L \in 0..L
      BY <1>1
    <2>2. \E i : i = Loop(i, L)
      BY <1>3, <2>1
    <2> HIDE DEF Loop
    <2> QED BY <1>4, <2>2
  <1>6. \A n \in 0..L : k[n] = IF n = 0 THEN <<>> ELSE Step(k[n - 1], n)
    BY <1>5, Zenon
  <1> DEFINE Wrong == {n \in 0..L : ~(k[n] \in Seq(G) /\ Range(k[n]) = P(n) \ S)}
  <1>7. Wrong = {}
    <2> SUFFICES ASSUME Wrong # {} PROVE FALSE
      OBVIOUS
    <2>1. PICK m \in Wrong : \A z \in Wrong : m <= z
      <3>1. Wrong \in SUBSET Nat
        BY <1>1
      <3> HIDE DEF Wrong
      <3> QED BY <3>1, LeastNumber
    <2>2. m \in 0..L /\ ~(k[m] \in Seq(G) /\ Range(k[m]) = P(m) \ S)
      BY <2>1
    <2>3. CASE m = 0
      <3>1. k[m] = <<>>
        BY <1>6, <2>2, <2>3
      <3>2. P(0) = {}
        OBVIOUS
      <3>3. Range(<<>>) = {}
        BY DEF Range
      <3>4. <<>> \in Seq(G)
        OBVIOUS
      <3> HIDE DEF P
      <3> QED BY <2>2, <2>3, <3>1, <3>2, <3>3, <3>4
    <2>4. CASE m # 0
      <3>1. m - 1 \in 0..L /\ m - 1 \notin Wrong /\ m \in 1..L /\ s[m] \in G
        <4> HIDE DEF Wrong, P
        <4> QED BY <1>1, <2>1, <2>2, <2>4
      <3>2. k[m - 1] \in Seq(G) /\ Range(k[m - 1]) = P(m - 1) \ S
        BY <3>1
      <3>3. k[m] = Step(k[m - 1], m)
        BY <1>6, <2>2, <2>4
      <3>4. P(m) = P(m - 1) \cup {s[m]}
        BY <1>1, <3>1
      <3>5. CASE s[m] \in S
        <4>1. k[m] = k[m - 1]
          BY <3>3, <3>5 DEF Step
        <4> HIDE DEF P
        <4> QED BY <2>2, <3>2, <3>4, <3>5, <4>1
      <3>6. CASE s[m] \notin S
        <4>1. k[m] = Append(k[m - 1], s[m])
          BY <3>3, <3>6 DEF Step
        <4>2. k[m] \in Seq(G) /\ Range(k[m]) = Range(k[m - 1]) \cup {s[m]}
          <5> HIDE DEF P
          <5>1. PICK q \in Seq(G) : q = k[m - 1]
            BY <3>2
          <5>2. PICK e \in G : e = s[m]
            BY <3>1
          <5>3. Append(q, e) \in Seq(G) /\ Range(Append(q, e)) = Range(q) \cup {e}
            BY RangeAppended
          <5> QED BY <4>1, <5>1, <5>2, <5>3
        <4> HIDE DEF P
        <4> QED BY <2>2, <3>2, <3>4, <3>6, <4>2
      <3> QED BY <3>5, <3>6
    <2> QED BY <2>3, <2>4
  <1>8. L \in 0..L /\ L \notin Wrong
    <2> HIDE DEF Wrong
    <2> QED BY <1>1, <1>7
  <1>9. k[L] \in Seq(G) /\ Range(k[L]) = P(L) \ S
    BY <1>8
  <1>10. P(L) = Range(s)
    BY <1>1 DEF Range, L
  <1>11. Without(s, S) = k[L]
    BY <1>2, <1>4
  <1> HIDE DEF P
  <1> QED BY <1>9, <1>10, <1>11

-----------------------------------------------------------------------------
(* What the commands make of an account *)

\* An account with any group has a primary one.
Account == {a \in User : a.pgid = -1 => a.sgids = <<>>}

\* b is a with other groups, all of them of S: an account as well, whose gadmin
\* rights are for groups it is in if those of a were.
Regrouped(a, b, S) ==
  /\ b \in Account /\ Member(b) \subseteq S
  /\ b.flags = a.flags /\ b.ratio = a.ratio /\ b.allot = a.allot /\ b.num = a.num
  /\ a.gadmin \subseteq Member(a) => b.gadmin \subseteq Member(b)

\* The fields of an account have their types, and only one with a primary group has others.
LEMMA AccountFields ==
  ASSUME NEW a \in Account
  PROVE  /\ a \in User /\ a.flags \in SUBSET Flags /\ a.pgid \in Gids \cup {-1}
         /\ a.sgids \in Seq(Gids) /\ a.gadmin \in SUBSET Gids /\ a.ratio \in Int /\ a.sratio \in Int
         /\ a.allot \in Int \cup {None} /\ a.num \in [Settings -> Int]
         /\ a.pgid = -1 => a.sgids = <<>>
PROOF
  BY DEF Account, User

\* The -1 that stands for no group is none.
LEMMA GidsNotMinus == ASSUME MaxGid \in Nat PROVE -1 \notin Gids
PROOF
  BY DEF Gids

\* The elements of a sequence over a set are in the set.
LEMMA RangeWithin ==
  ASSUME NEW G, NEW s \in Seq(G)
  PROVE  Range(s) \subseteq G
PROOF
  <1>1. \A i \in DOMAIN s : s[i] \in G
    OBVIOUS
  <1> QED BY <1>1 DEF Range

\* The empty sequence has no elements.
LEMMA RangeNone == Range(<<>>) = {}
PROOF
  BY DEF Range

\* Two sequences that are joined have the elements of both.
LEMMA RangeJoined ==
  ASSUME NEW G, NEW s \in Seq(G), NEW r \in Seq(G)
  PROVE  s \o r \in Seq(G) /\ Range(s \o r) = Range(s) \cup Range(r)
PROOF
  <1> DEFINE j == s \o r
  <1>1. /\ j \in Seq(G) /\ Len(s) \in Nat /\ Len(r) \in Nat /\ Len(j) = Len(s) + Len(r)
        /\ \A i \in 1..(Len(s) + Len(r)) : j[i] = IF i <= Len(s) THEN s[i] ELSE r[i - Len(s)]
    OBVIOUS
  <1>2. /\ DOMAIN j = 1..(Len(s) + Len(r)) /\ DOMAIN s = 1..Len(s) /\ DOMAIN r = 1..Len(r)
    BY <1>1
  <1> HIDE DEF j
  <1>3. ASSUME NEW x PROVE x \in Range(j) <=> x \in Range(s) \cup Range(r)
    <2>1. x \in Range(j) <=> \E i \in 1..(Len(s) + Len(r)) : j[i] = x
      BY <1>2 DEF Range
    <2>2. x \in Range(s) <=> \E i \in 1..Len(s) : s[i] = x
      BY <1>2 DEF Range
    <2>3. x \in Range(r) <=> \E i \in 1..Len(r) : r[i] = x
      BY <1>2 DEF Range
    <2>4. ASSUME x \in Range(j) PROVE x \in Range(s) \cup Range(r)
      <3>1. PICK i \in 1..(Len(s) + Len(r)) : j[i] = x
        BY <2>1, <2>4
      <3>2. CASE i <= Len(s)
        BY <1>1, <2>2, <3>1, <3>2
      <3>3. CASE i > Len(s)
        <4>1. i - Len(s) \in 1..Len(r) /\ r[i - Len(s)] = x
          BY <1>1, <3>1, <3>3
        <4> QED BY <2>3, <4>1
      <3> QED BY <1>1, <3>2, <3>3
    <2>5. ASSUME x \in Range(s) PROVE x \in Range(j)
      <3>1. PICK i \in 1..Len(s) : s[i] = x
        BY <2>2, <2>5
      <3>2. i \in 1..(Len(s) + Len(r)) /\ j[i] = x
        BY <1>1, <3>1
      <3> QED BY <2>1, <3>2
    <2>6. ASSUME x \in Range(r) PROVE x \in Range(j)
      <3>1. PICK i \in 1..Len(r) : r[i] = x
        BY <2>3, <2>6
      <3>2. i + Len(s) \in 1..(Len(s) + Len(r)) /\ ~(i + Len(s) <= Len(s)) /\ (i + Len(s)) - Len(s) = i
        BY <1>1, <3>1
      <3>3. j[i + Len(s)] = x
        BY <1>1, <3>1, <3>2
      <3> QED BY <2>1, <3>2, <3>3
    <2> QED BY <2>4, <2>5, <2>6
  <1>4. Range(j) = Range(s) \cup Range(r)
    BY <1>3
  <1> QED BY <1>1, <1>4 DEF j

\* A sequence has its head and the elements of its tail.
LEMMA RangeSplit ==
  ASSUME NEW G, NEW s \in Seq(G), s # <<>>
  PROVE  Head(s) \in G /\ Tail(s) \in Seq(G) /\ Range(s) = {Head(s)} \cup Range(Tail(s))
PROOF
  <1> DEFINE t == Tail(s)
  <1>1. /\ Head(s) = s[1] /\ Len(s) \in Nat /\ Len(s) >= 1 /\ Head(s) \in G /\ t \in Seq(G)
        /\ Len(t) = Len(s) - 1 /\ \A i \in 1..(Len(s) - 1) : t[i] = s[i + 1]
    OBVIOUS
  <1>2. DOMAIN t = 1..(Len(s) - 1) /\ DOMAIN s = 1..Len(s)
    BY <1>1
  <1> HIDE DEF t
  <1>3. ASSUME NEW x PROVE x \in Range(s) <=> x \in {Head(s)} \cup Range(t)
    <2>1. x \in Range(t) <=> \E i \in 1..(Len(s) - 1) : t[i] = x
      BY <1>2 DEF Range
    <2>2. x \in Range(s) <=> \E i \in 1..Len(s) : s[i] = x
      BY <1>2 DEF Range
    <2>3. ASSUME x \in Range(s) PROVE x \in {Head(s)} \cup Range(t)
      <3>1. PICK i \in 1..Len(s) : s[i] = x
        BY <2>2, <2>3
      <3>2. CASE i = 1
        BY <1>1, <3>1, <3>2
      <3>3. CASE i # 1
        <4>1. i - 1 \in 1..(Len(s) - 1) /\ t[i - 1] = x
          BY <1>1, <3>1, <3>3
        <4> QED BY <2>1, <4>1
      <3> QED BY <3>2, <3>3
    <2>4. ASSUME x \in Range(t) PROVE x \in Range(s)
      <3>1. PICK i \in 1..(Len(s) - 1) : t[i] = x
        BY <2>1, <2>4
      <3>2. i + 1 \in 1..Len(s) /\ s[i + 1] = x
        BY <1>1, <3>1
      <3> QED BY <2>2, <3>2
    <2>5. Head(s) \in Range(s)
      BY <1>1, <1>2 DEF Range
    <2> QED BY <2>3, <2>4, <2>5
  <1>4. Range(s) = {Head(s)} \cup Range(t)
    BY <1>3
  <1> QED BY <1>1, <1>4 DEF t

\* Removing the first occurrence of an element loses no other.
LEMMA RangeRemoved ==
  ASSUME NEW G, NEW s \in Seq(G), NEW e
  PROVE  RemoveFirst(s, e) \in Seq(G) /\ Range(RemoveFirst(s, e)) \subseteq Range(s)
         /\ Range(s) \subseteq Range(RemoveFirst(s, e)) \cup {e}
PROOF
  <1>1. CASE ~\E i \in 1..Len(s) : s[i] = e
    BY <1>1 DEF RemoveFirst
  <1>2. CASE \E i \in 1..Len(s) : s[i] = e
    <2> DEFINE I == {i \in 1..Len(s) : s[i] = e}
               m == Min(I)
    <2>1. RemoveFirst(s, e) = SubSeq(s, 1, m - 1) \o SubSeq(s, m + 1, Len(s))
      BY <1>2 DEF RemoveFirst, RemoveAt, SelectInSeq
    <2>2. m \in I
      <3>1. I \in SUBSET Nat /\ I # {}
        BY <1>2
      <3> HIDE DEF I
      <3>2. \E x \in I : \A y \in I : x <= y
        BY <3>1, LeastNumber
      <3> QED BY <3>2 DEF Min
    <2>3. m \in 1..Len(s) /\ s[m] = e /\ Len(s) \in Nat
      BY <2>2
    <2> HIDE DEF m
    <2> DEFINE p == SubSeq(s, 1, m - 1)
               q == SubSeq(s, m + 1, Len(s))
    <2>4. /\ p \in Seq(G) /\ Len(p) = m - 1 /\ \A i \in 1..(m - 1) : p[i] = s[i]
          /\ q \in Seq(G) /\ Len(q) = Len(s) - m /\ \A i \in 1..(Len(s) - m) : q[i] = s[i + m]
      <3>1. p \in Seq(G) /\ Len(p) = m - 1 /\ \A i \in 1..(m - 1) : p[i] = s[i]
        BY <2>3
      <3>2. q \in Seq(G) /\ Len(q) = Len(s) - m /\ \A i \in 1..(Len(s) - m) : q[i] = s[i + m]
        BY <2>3
      <3> QED BY <3>1, <3>2
    <2>5. /\ DOMAIN p = 1..(m - 1) /\ DOMAIN q = 1..(Len(s) - m) /\ DOMAIN s = 1..Len(s)
      BY <2>4
    <2>6. RemoveFirst(s, e) \in Seq(G) /\ Range(RemoveFirst(s, e)) = Range(p) \cup Range(q)
      <3>1. p \in Seq(G) /\ q \in Seq(G) /\ RemoveFirst(s, e) = p \o q
        BY <2>1, <2>4
      <3> HIDE DEF p, q
      <3> QED BY <3>1, RangeJoined
    <2> HIDE DEF p, q
    <2>7. \A x : x \in Range(p) <=> \E i \in 1..(m - 1) : p[i] = x
      BY <2>5 DEF Range
    <2>8. \A x : x \in Range(q) <=> \E i \in 1..(Len(s) - m) : q[i] = x
      BY <2>5 DEF Range
    <2>9. \A x : x \in Range(s) <=> \E i \in 1..Len(s) : s[i] = x
      BY <2>5 DEF Range
    <2>10. ASSUME NEW x \in Range(p) \cup Range(q) PROVE x \in Range(s)
      <3>1. CASE x \in Range(p)
        <4>1. PICK i \in 1..(m - 1) : p[i] = x
          BY <2>7, <3>1
        <4>2. i \in 1..Len(s) /\ s[i] = x
          BY <2>3, <2>4, <4>1
        <4> QED BY <2>9, <4>2
      <3>2. CASE x \in Range(q)
        <4>1. PICK i \in 1..(Len(s) - m) : q[i] = x
          BY <2>8, <3>2
        <4>2. i + m \in 1..Len(s) /\ s[i + m] = x
          BY <2>3, <2>4, <4>1
        <4> QED BY <2>9, <4>2
      <3> QED BY <3>1, <3>2
    <2>11. ASSUME NEW x \in Range(s), x # e PROVE x \in Range(p) \cup Range(q)
      <3>1. PICK i \in 1..Len(s) : s[i] = x
        BY <2>9
      <3>2. CASE i < m
        <4>1. i \in 1..(m - 1) /\ p[i] = x
          BY <2>3, <2>4, <3>1, <3>2
        <4> QED BY <2>7, <4>1
      <3>3. CASE i > m
        <4>1. i - m \in 1..(Len(s) - m) /\ q[i - m] = s[(i - m) + m] /\ (i - m) + m = i
          BY <2>3, <2>4, <3>1, <3>3
        <4> QED BY <2>8, <3>1, <4>1
      <3>4. i # m
        BY <2>3, <2>11, <3>1
      <3> QED BY <2>3, <3>1, <3>2, <3>3, <3>4
    <2> QED BY <2>6, <2>10, <2>11
  <1> QED BY <1>1, <1>2

\* User::AddGIDs adds one group and loses none, nor a gadmin right.
LEMMA AddGIDKeeps ==
  ASSUME MaxGid \in Nat, NEW a \in Account, NEW g \in Gids
  PROVE  Regrouped(a, AddGID(a, g), Member(a) \cup {g}) /\ Member(a) \subseteq Member(AddGID(a, g))
         /\ AddGID(a, g).gadmin = a.gadmin
PROOF
  <1>0. -1 \notin Gids
    BY GidsNotMinus
  <1>1. /\ a \in User /\ a.pgid \in Gids \cup {-1} /\ a.sgids \in Seq(Gids) /\ (a.pgid = -1 => a.sgids = <<>>)
    BY AccountFields
  <1>2. CASE a.pgid = -1
    <2> DEFINE b == [a EXCEPT !.pgid = g]
    <2>1. AddGID(a, g) = b
      BY <1>2 DEF AddGID
    <2>2. /\ b \in User /\ b.pgid = g /\ b.sgids = a.sgids /\ b.flags = a.flags /\ b.ratio = a.ratio
          /\ b.allot = a.allot /\ b.num = a.num /\ b.gadmin = a.gadmin
      BY <1>1 DEF User
    <2> HIDE DEF b
    <2>3. b \in Account
      BY <1>0, <2>2 DEF Account
    <2>4. Member(b) = Member(a) \cup {g}
      BY <1>0, <1>2, <2>2 DEF Member
    <2> QED BY <2>1, <2>2, <2>3, <2>4 DEF Regrouped
  <1>3. CASE a.pgid # -1 /\ g \in Member(a)
    <2>1. AddGID(a, g) = a
      BY <1>3 DEF AddGID
    <2> QED BY <1>3, <2>1 DEF Regrouped
  <1>4. CASE a.pgid # -1 /\ g \notin Member(a)
    <2> DEFINE b == [a EXCEPT !.sgids = Append(@, g)]
    <2>1. AddGID(a, g) = b
      BY <1>4 DEF AddGID
    <2>2. Append(a.sgids, g) \in Seq(Gids) /\ Range(Append(a.sgids, g)) = Range(a.sgids) \cup {g}
      BY <1>1, RangeAppended
    <2>3. /\ b \in User /\ b.pgid = a.pgid /\ b.sgids = Append(a.sgids, g) /\ b.flags = a.flags
          /\ b.ratio = a.ratio /\ b.allot = a.allot /\ b.num = a.num /\ b.gadmin = a.gadmin
      BY <1>1, <2>2 DEF User
    <2> HIDE DEF b
    <2>4. b \in Account
      BY <1>4, <2>3 DEF Account
    <2>5. Member(b) = Member(a) \cup {g}
      BY <2>2, <2>3 DEF Member
    <2> QED BY <2>1, <2>3, <2>4, <2>5 DEF Regrouped
  <1> QED BY <1>2, <1>3, <1>4

\* AddGIDs takes the groups of the list into the account and drops none
\* (acl/user.cpp, AddGIDs).
LEMMA AddGIDsKeeps ==
  ASSUME MaxGid \in Nat, NEW a \in Account, NEW s \in Seq(Gids)
  PROVE  Regrouped(a, AddGIDs(a, s), Member(a) \cup Range(s))
PROOF
  <1> DEFINE L == Len(s)
             Loop(k, m) == [n \in 0 .. m |-> IF n = 0 THEN a ELSE AddGID(k[n - 1], s[n])]
             P(n) == {x \in Gids : \E i \in 1..n : s[i] = x}
             Good(b, n) == /\ Regrouped(a, b, Member(a) \cup P(n)) /\ Member(a) \subseteq Member(b)
                           /\ b.gadmin = a.gadmin
  <1>1. L \in Nat /\ \A n \in 1..L : s[n] \in Gids
    OBVIOUS
  <1>2. AddGIDs(a, s) = (CHOOSE k : k = Loop(k, L))[L]
    BY Zenon DEF AddGIDs
  <1> HIDE DEF L
  <1> DEFINE Bad == {m \in 0..L : ~\E k : k = Loop(k, m)}
  <1>3. Bad = {}
    <2> SUFFICES ASSUME Bad # {} PROVE FALSE
      OBVIOUS
    <2>1. PICK m \in Bad : \A z \in Bad : m <= z
      <3>1. Bad \in SUBSET Nat
        BY <1>1
      <3> HIDE DEF Bad
      <3> QED BY <3>1, LeastNumber
    <2>2. m \in 0..L /\ ~\E k : k = Loop(k, m)
      BY <2>1
    <2>3. CASE m = 0
      <3> DEFINE k == [n \in 0..m |-> a]
      <3>1. k = Loop(k, m)
        BY <2>3
      <3> QED BY <2>2, <3>1
    <2>4. CASE m # 0
      <3>1. m - 1 \in 0..L /\ m - 1 \notin Bad
        <4> HIDE DEF Bad, Loop
        <4> QED BY <1>1, <2>1, <2>2, <2>4
      <3>2. PICK k : k = Loop(k, m - 1)
        BY <3>1
      <3>3. \A n \in 0..(m - 1) : k[n] = IF n = 0 THEN a ELSE AddGID(k[n - 1], s[n])
        BY <3>2, Zenon
      <3> DEFINE j == [n \in 0..m |-> IF n = m THEN AddGID(k[m - 1], s[m]) ELSE k[n]]
      <3>4. ASSUME NEW n \in 0..m PROVE j[n] = IF n = 0 THEN a ELSE AddGID(j[n - 1], s[n])
        <4>1. CASE n = m
          <5>1. m - 1 \in 0..m /\ m - 1 # m /\ m # 0
            BY <1>1, <2>2, <2>4
          <5>2. j[m - 1] = k[m - 1]
            BY <5>1
          <5> QED BY <4>1, <5>1, <5>2
        <4>2. CASE n # m
          <5>1. n \in 0..(m - 1) /\ (n # 0 => n - 1 \in 0..m /\ n - 1 # m)
            BY <1>1, <2>2, <4>2
          <5>2. n # 0 => j[n - 1] = k[n - 1]
            BY <5>1
          <5> QED BY <3>3, <4>2, <5>1, <5>2
        <4> QED BY <4>1, <4>2
      <3>5. j = Loop(j, m)
        <4>1. j = [n \in 0..m |-> j[n]]
          OBVIOUS
        <4> HIDE DEF j
        <4>2. [n \in 0..m |-> j[n]] = Loop(j, m)
          BY <3>4, Zenon
        <4> QED BY <4>1, <4>2
      <3> HIDE DEF j
      <3> QED BY <2>2, <3>5
    <2> QED BY <2>3, <2>4
  <1>4. PICK k : k = (CHOOSE i : i = Loop(i, L))
    OBVIOUS
  <1>5. k = Loop(k, L)
    <2>1. L \in 0..L
      BY <1>1
    <2>2. \E i : i = Loop(i, L)
      BY <1>3, <2>1
    <2> HIDE DEF Loop
    <2> QED BY <1>4, <2>2
  <1>6. \A n \in 0..L : k[n] = IF n = 0 THEN a ELSE AddGID(k[n - 1], s[n])
    BY <1>5, Zenon
  <1> HIDE DEF Good
  <1> DEFINE Wrong == {n \in 0..L : ~Good(k[n], n)}
  <1>7. Wrong = {}
    <2> SUFFICES ASSUME Wrong # {} PROVE FALSE
      OBVIOUS
    <2>1. PICK m \in Wrong : \A z \in Wrong : m <= z
      <3>1. Wrong \in SUBSET Nat
        BY <1>1
      <3> HIDE DEF Wrong
      <3> QED BY <3>1, LeastNumber
    <2>2. m \in 0..L /\ ~Good(k[m], m)
      BY <2>1
    <2>3. CASE m = 0
      <3>1. k[m] = a
        BY <1>6, <2>2, <2>3
      <3>2. Good(a, 0)
        <4> HIDE DEF P
        <4> QED BY DEF Good, Regrouped
      <3> QED BY <2>2, <2>3, <3>1, <3>2
    <2>4. CASE m # 0
      <3>1. m - 1 \in 0..L /\ m - 1 \notin Wrong /\ m \in 1..L /\ s[m] \in Gids
        <4> HIDE DEF Wrong, P
        <4> QED BY <1>1, <2>1, <2>2, <2>4
      <3>2. Good(k[m - 1], m - 1)
        BY <3>1
      <3>3. k[m] = AddGID(k[m - 1], s[m])
        BY <1>6, <2>2, <2>4
      <3>4. P(m) = P(m - 1) \cup {s[m]}
        BY <1>1, <3>1
      <3> HIDE DEF P
      <3>5. PICK b : b = k[m - 1]
        OBVIOUS
      <3>6. b \in Account /\ Regrouped(a, b, Member(a) \cup P(m - 1)) /\ Member(a) \subseteq Member(b) /\ b.gadmin = a.gadmin
        BY <3>2, <3>5 DEF Good, Regrouped
      <3>7. PICK c : c = AddGID(b, s[m])
        OBVIOUS
      <3>8. Regrouped(b, c, Member(b) \cup {s[m]}) /\ Member(b) \subseteq Member(c) /\ c.gadmin = b.gadmin
        BY <3>1, <3>6, <3>7, AddGIDKeeps
      <3>9. Member(b) \cup {s[m]} \subseteq Member(a) \cup P(m)
        BY <3>4, <3>6 DEF Regrouped
      <3>10. Regrouped(a, c, Member(a) \cup P(m))
        BY <3>6, <3>8, <3>9 DEF Regrouped
      <3>11. Good(c, m)
        BY <3>6, <3>8, <3>10 DEF Good
      <3> QED BY <2>2, <3>3, <3>5, <3>7, <3>11
    <2> QED BY <2>3, <2>4
  <1>8. L \in 0..L /\ L \notin Wrong
    <2> HIDE DEF Wrong
    <2> QED BY <1>1, <1>7
  <1>9. Good(k[L], L)
    BY <1>8
  <1>10. P(L) = Range(s)
    BY <1>1 DEF Range, L
  <1>11. AddGIDs(a, s) = k[L]
    BY <1>2, <1>4
  <1> HIDE DEF P
  <1> QED BY <1>9, <1>10, <1>11 DEF Good

\* An account whose groups are replaced keeps gadmin rights only for the new ones.
LEMMA WithGIDsKeeps ==
  ASSUME MaxGid \in Nat, NEW a \in Account, NEW s \in Seq(Gids)
  PROVE  Regrouped(a, CleanGadminGIDs(WithGIDs(a, s)), Range(s))
PROOF
  <1> DEFINE b == WithGIDs(a, s)
             c == CleanGadminGIDs(b)
  <1>0. -1 \notin Gids
    BY GidsNotMinus
  <1>1. a \in User
    BY AccountFields
  <1>2. /\ b \in User /\ b.flags = a.flags /\ b.ratio = a.ratio /\ b.allot = a.allot /\ b.num = a.num
        /\ b.pgid = (IF s = <<>> THEN -1 ELSE Head(s)) /\ b.sgids = (IF s = <<>> THEN <<>> ELSE Tail(s))
    <2>1. CASE s = <<>>
      BY <1>1, <2>1 DEF WithGIDs, User
    <2>2. CASE s # <<>>
      <3>1. Head(s) \in Gids /\ Tail(s) \in Seq(Gids)
        BY <2>2, RangeSplit
      <3> QED BY <1>1, <2>2, <3>1 DEF WithGIDs, User
    <2> QED BY <2>1, <2>2
  <1>3. Member(b) \subseteq Range(s) /\ (b.pgid = -1 => b.sgids = <<>>)
    <2>1. CASE s = <<>>
      BY <1>2, <2>1, RangeNone DEF Member
    <2>2. CASE s # <<>>
      <3>1. Head(s) \in Gids /\ Range(s) = {Head(s)} \cup Range(Tail(s))
        BY <2>2, RangeSplit
      <3> QED BY <1>0, <1>2, <2>2, <3>1 DEF Member
    <2> QED BY <2>1, <2>2
  <1> HIDE DEF b
  <1>4. /\ c \in User /\ c.flags = b.flags /\ c.ratio = b.ratio /\ c.allot = b.allot /\ c.num = b.num
        /\ c.pgid = b.pgid /\ c.sgids = b.sgids /\ c.gadmin = b.gadmin \cap Member(b)
    BY <1>2 DEF CleanGadminGIDs, User
  <1> HIDE DEF c
  <1>5. Member(c) = Member(b)
    BY <1>4 DEF Member
  <1>6. c \in Account
    BY <1>3, <1>4 DEF Account
  <1>7. Regrouped(a, c, Range(s))
    BY <1>2, <1>3, <1>4, <1>5, <1>6 DEF Regrouped
  <1> QED BY <1>7 DEF b, c

\* The primary group and the others are the groups that the account is in.
LEMMA AllGIDsRange ==
  ASSUME NEW a \in Account
  PROVE  AllGIDs(a) \in Seq(Gids) /\ Range(AllGIDs(a)) = Member(a)
PROOF
  <1>1. a.pgid \in Gids \cup {-1} /\ a.sgids \in Seq(Gids)
    BY AccountFields
  <1>2. CASE a.pgid = -1
    BY <1>1, <1>2 DEF AllGIDs, Member
  <1>3. CASE a.pgid # -1
    <2>1. <<a.pgid>> \in Seq(Gids) /\ Range(<<a.pgid>>) = {a.pgid}
      BY <1>1, <1>3 DEF Range
    <2>2. AllGIDs(a) = <<a.pgid>> \o a.sgids
      BY <1>3 DEF AllGIDs
    <2>3. PICK p \in Seq(Gids), q \in Seq(Gids) : p = <<a.pgid>> /\ q = a.sgids
      BY <1>1, <2>1
    <2>4. p \o q \in Seq(Gids) /\ Range(p \o q) = Range(p) \cup Range(q)
      BY RangeJoined
    <2> QED BY <1>3, <2>1, <2>2, <2>3, <2>4 DEF Member
  <1> QED BY <1>2, <1>3

\* CHGRP: whatever it does with the list, the account keeps a primary group as long
\* as it has any, and gadmin rights only for groups it is in.
LEMMA DelGIDsKeeps ==
  ASSUME MaxGid \in Nat, NEW a \in Account, NEW s \in Seq(Gids)
  PROVE  Regrouped(a, DelGIDs(a, s), Member(a) \cup Range(s))
PROOF
  <1> DEFINE kept == Without(a.sgids, Range(s))
  <1>0. -1 \notin Gids /\ Range(s) \subseteq Gids
    BY GidsNotMinus, RangeWithin
  <1>1. /\ a \in User /\ a.pgid \in Gids \cup {-1} /\ a.sgids \in Seq(Gids) /\ (a.pgid = -1 => a.sgids = <<>>)
    BY AccountFields
  <1>2. kept \in Seq(Gids) /\ Range(kept) = Range(a.sgids) \ Range(s)
    BY <1>1, WithoutKeeps
  <1>3. CASE a.pgid \in Range(s)
    <2>1. DelGIDs(a, s) = CleanGadminGIDs(WithGIDs(a, kept))
      BY <1>3 DEF DelGIDs
    <2> HIDE DEF kept
    <2>2. Regrouped(a, CleanGadminGIDs(WithGIDs(a, kept)), Range(kept))
      BY <1>2, WithGIDsKeeps
    <2>3. Range(kept) \subseteq Member(a) \cup Range(s)
      BY <1>2 DEF Member
    <2> QED BY <2>1, <2>2, <2>3 DEF Regrouped
  <1>4. CASE a.pgid \notin Range(s)
    <2> DEFINE b == [a EXCEPT !.sgids = kept]
               c == CleanGadminGIDs(b)
    <2>1. DelGIDs(a, s) = c
      BY <1>4 DEF DelGIDs
    <2>e. a.sgids = <<>> => kept = <<>>
      <3> SUFFICES ASSUME a.sgids = <<>> PROVE kept = <<>>
        OBVIOUS
      <3>1. Range(kept) = {}
        BY <1>2, RangeNone
      <3> HIDE DEF kept
      <3>2. DOMAIN kept = {}
        BY <3>1 DEF Range
      <3> QED BY <1>2, <3>2
    <2> HIDE DEF kept
    <2>2. /\ b \in User /\ b.flags = a.flags /\ b.ratio = a.ratio /\ b.allot = a.allot /\ b.num = a.num
          /\ b.pgid = a.pgid /\ b.sgids = kept /\ b.gadmin = a.gadmin
      BY <1>1, <1>2 DEF User
    <2> HIDE DEF b
    <2>3. /\ c \in User /\ c.flags = b.flags /\ c.ratio = b.ratio /\ c.allot = b.allot /\ c.num = b.num
          /\ c.pgid = b.pgid /\ c.sgids = b.sgids /\ c.gadmin = b.gadmin \cap Member(b)
      BY <2>2 DEF CleanGadminGIDs, User
    <2> HIDE DEF c
    <2>4. Member(c) = Member(b) /\ Member(c) \subseteq Member(a)
      BY <1>2, <2>2, <2>3 DEF Member
    <2>5. c \in Account
      BY <1>1, <2>e, <2>2, <2>3 DEF Account
    <2>6. Regrouped(a, c, Member(a) \cup Range(s))
      BY <2>2, <2>3, <2>4, <2>5 DEF Regrouped
    <2> QED BY <2>1, <2>6
  <1> QED BY <1>3, <1>4

\* User::SetGIDs gives groups from the old and the new ones.
LEMMA SetGIDsKeeps ==
  ASSUME MaxGid \in Nat, NEW a \in Account, NEW s \in Seq(Gids)
  PROVE  Regrouped(a, SetGIDs(a, s), Member(a) \cup Range(s))
PROOF
  <1>1. Regrouped(a, SetGIDs(a, s), Range(s))
    BY WithGIDsKeeps DEF SetGIDs
  <1> QED BY <1>1 DEF Regrouped

\* User::ToggleGIDs gives groups from the old and the toggled ones.
LEMMA ToggleGIDsKeeps ==
  ASSUME MaxGid \in Nat, NEW a \in Account, NEW s \in Seq(Gids)
  PROVE  Regrouped(a, ToggleGIDs(a, s), Member(a) \cup Range(s))
PROOF
  <1> DEFINE p == Without(AllGIDs(a), Range(s))
             q == Without(s, Range(AllGIDs(a)))
  <1>1. AllGIDs(a) \in Seq(Gids) /\ Range(AllGIDs(a)) = Member(a)
    BY AllGIDsRange
  <1>2. p \in Seq(Gids) /\ Range(p) = Range(AllGIDs(a)) \ Range(s)
    BY <1>1, WithoutKeeps
  <1>3. q \in Seq(Gids) /\ Range(q) = Range(s) \ Range(AllGIDs(a))
    BY <1>1, WithoutKeeps
  <1>4. ToggleGIDs(a, s) = CleanGadminGIDs(WithGIDs(a, p \o q))
    BY DEF ToggleGIDs
  <1> HIDE DEF p, q
  <1>5. p \o q \in Seq(Gids) /\ Range(p \o q) = Range(p) \cup Range(q)
    BY <1>2, <1>3, RangeJoined
  <1>6. Regrouped(a, ToggleGIDs(a, s), Range(p \o q))
    BY <1>4, <1>5, WithGIDsKeeps
  <1>7. Range(p \o q) \subseteq Member(a) \cup Range(s)
    BY <1>1, <1>2, <1>3, <1>5
  <1> QED BY <1>6, <1>7 DEF Regrouped

\* User::SetPrimaryGID makes the group the primary one and adds no other.
LEMMA SetPrimaryGIDKeeps ==
  ASSUME MaxGid \in Nat, NEW a \in Account, NEW g \in Gids
  PROVE  Regrouped(a, SetPrimaryGID(a, g), Member(a) \cup {g}) /\ SetPrimaryGID(a, g).pgid = g
PROOF
  <1>0. -1 \notin Gids
    BY GidsNotMinus
  <1>1. a \in User /\ AllGIDs(a) \in Seq(Gids) /\ Range(AllGIDs(a)) = Member(a)
    BY AccountFields, AllGIDsRange
  <1>2. CASE a.pgid = g
    BY <1>2 DEF SetPrimaryGID, Regrouped
  <1>3. CASE a.pgid # g
    <2> DEFINE r == RemoveFirst(AllGIDs(a), g)
               b == [a EXCEPT !.pgid = g, !.sgids = r]
    <2>1. SetPrimaryGID(a, g) = b
      BY <1>3 DEF SetPrimaryGID
    <2>2. r \in Seq(Gids) /\ Range(r) \subseteq Member(a) /\ Member(a) \subseteq Range(r) \cup {g}
      BY <1>1, RangeRemoved
    <2> HIDE DEF r
    <2>3. /\ b \in User /\ b.flags = a.flags /\ b.ratio = a.ratio /\ b.allot = a.allot /\ b.num = a.num
          /\ b.pgid = g /\ b.sgids = r /\ b.gadmin = a.gadmin
      BY <1>1, <2>2 DEF User
    <2> HIDE DEF b
    <2>4. Member(b) = Member(a) \cup {g}
      BY <1>0, <2>2, <2>3 DEF Member
    <2>5. b \in Account
      BY <1>0, <2>3 DEF Account
    <2> QED BY <2>1, <2>3, <2>4, <2>5 DEF Regrouped
  <1> QED BY <1>2, <1>3

-----------------------------------------------------------------------------
(* The writes *)

\* b is a with other flags.
Reflagged(a, b, F) ==
  /\ b \in Account /\ b.flags = F /\ b.pgid = a.pgid /\ b.sgids = a.sgids /\ b.gadmin = a.gadmin
  /\ b.ratio = a.ratio /\ b.allot = a.allot /\ b.num = a.num /\ Member(b) = Member(a)

\* The three ways to change the flags leave all other fields alone.
LEMMA FlagsKeep ==
  ASSUME NEW a \in Account, NEW F \in SUBSET Flags
  PROVE  /\ Reflagged(a, DelFlags(a, F), a.flags \ F)
         /\ Reflagged(a, AddFlags(a, F), a.flags \cup F)
         /\ Reflagged(a, [a EXCEPT !.flags = F], F)
PROOF
  <1> DEFINE b(X) == [a EXCEPT !.flags = X]
  <1>1. ASSUME NEW X \in SUBSET Flags PROVE Reflagged(a, b(X), X)
    <2>1. /\ b(X) \in Account /\ b(X).flags = X /\ b(X).pgid = a.pgid /\ b(X).sgids = a.sgids
          /\ b(X).gadmin = a.gadmin /\ b(X).ratio = a.ratio /\ b(X).allot = a.allot /\ b(X).num = a.num
      BY DEF Account, User
    <2> HIDE DEF b
    <2> QED BY <2>1 DEF Reflagged, Member
  <1>2. a.flags \in SUBSET Flags
    BY AccountFields
  <1>3. Reflagged(a, b(a.flags \ F), a.flags \ F) /\ Reflagged(a, b(a.flags \cup F), a.flags \cup F)
    <2> HIDE DEF b
    <2> QED BY <1>1, <1>2
  <1>4. Reflagged(a, b(F), F)
    <2> HIDE DEF b
    <2> QED BY <1>1
  <1> QED BY <1>3, <1>4 DEF DelFlags, AddFlags

\* The fields a write leaves alone are those of the document, the others those of
\* the copy (db/connection.hpp, SetFields).
LEMMA SetFieldsAre ==
  ASSUME NEW old \in Account, NEW j
  PROVE  /\ SetFields(old, j) =
              [flags |-> IF "flags" \in Fields(j) THEN j.acc.flags ELSE old.flags,
               pgid |-> IF "pgid" \in Fields(j) THEN j.acc.pgid ELSE old.pgid,
               sgids |-> IF "sgids" \in Fields(j) THEN j.acc.sgids ELSE old.sgids,
               gadmin |-> IF "gadmin" \in Fields(j) THEN j.acc.gadmin ELSE old.gadmin,
               ratio |-> IF "ratio" \in Fields(j) THEN j.acc.ratio ELSE old.ratio,
               sratio |-> IF "sratio" \in Fields(j) THEN j.acc.sratio ELSE old.sratio,
               allot |-> IF "allot" \in Fields(j) THEN j.acc.allot ELSE old.allot,
               num |-> IF "num" \in Fields(j) THEN [old.num EXCEPT ![j.set] = j.acc.num[j.set]]
                       ELSE old.num]
PROOF
  <1>1. PICK F : F = Fields(j)
    OBVIOUS
  <1>2. DOMAIN old = {"flags", "pgid", "sgids", "gadmin", "ratio", "sratio", "allot", "num"}
    BY DEF Account, User
  <1> QED BY <1>1, <1>2 DEF SetFields

-----------------------------------------------------------------------------
(* The inductive invariants *)

GroupWrites == {"ADDUSER", "CHGRP", "SETPGRP"}
UserWrites == GroupWrites \cup {"CHGADMIN", "DELUSER", "READD"}

JobShape(j) ==
  j = [op |-> j.op, at |-> j.at, uid |-> j.uid, gid |-> j.gid, acc |-> j.acc, todo |-> j.todo,
       set |-> j.set, val |-> j.val, flags |-> j.flags]

\* What CHANGE was asked for.
Asked(j) ==
  /\ j.set \in {"wkly_allotment"} \cup RatioMap \cup FlagSettings \cup Settings
  /\ j.val \in Int /\ j.flags \subseteq {"template", "exempt"}

\* What a handler holds in each phase.
JobOK(j) ==
  /\ JobShape(j)
  /\ \/ j = NoJob
     \/ /\ j.op = "ADDUSER" /\ j.at = "insert" /\ j.acc \in Account /\ j.set = None
        /\ j.gid \in Gids \cup {-1} /\ j.val \in Int \cup {None}
     \/ j.op \in UserWrites /\ j.at = "save" /\ j.uid \in Uids /\ j.acc \in Account /\ j.set = None
     \/ j.op = "CHGADMIN" /\ j.at = "flag" /\ j.uid \in Uids /\ j.acc \in Account /\ j.set = None
     \/ j.op = "CHANGE" /\ j.at = "load" /\ Asked(j)
     \/ /\ j.op = "CHANGE" /\ j.at = "save" /\ Asked(j) /\ j.uid \in Uids /\ j.acc \in Account
        /\ j.set \in Settings => j.acc.num[j.set] = j.val
     \/ /\ j.op = "CHANGE" /\ j.at = "flag" /\ Asked(j) /\ j.uid \in Uids /\ j.acc \in Account
        /\ j.set \in FlagSettings \ {"flags+"}
     \/ j.op = "PURGE" /\ j.at = "remove" /\ j.uid \in Uids
     \/ j.op = "GRPDEL" /\ j.at = "remove" /\ j.gid \in Gids
     \/ j.op = "GRPADD" /\ j.at = "create" /\ j.set \in GNames /\ j.acc \in Group
     \/ j.op = "GRPREN" /\ j.at = "group" /\ j.gid \in Gids /\ j.set \in GNames
     \/ j.op = "GRPCHANGE" /\ j.at = "group" /\ j.gid \in Gids /\ j.set \in Limits /\ j.val \in Int

DataTyped ==
  /\ users \in [Uids -> Account \cup {None}] /\ groups \in [Gids -> Group \cup {None}]
  /\ credits \in [Uids -> Int \cup {None}] /\ confirmed \in [Uids -> [Settings -> Int]]
  /\ gids \in [GNames -> Gids \cup {-1}] /\ names \in [Gids -> GNames \cup {None}]
  /\ raced \in BOOLEAN /\ misnamed \in BOOLEAN /\ minted \in Int /\ started \in Nat

JobsOK == job = [t \in Operators |-> job[t]] /\ \A t \in Operators : JobOK(job[t])

RightsOK(a) == a.gadmin \subseteq Member(a)

\* While no two commands have overlapped, at most one is under way, what an account
\* may administer are groups it is in, also in the copies that are about to be written,
\* and the copy of CHGADMIN is in the groups that its document is in.
Regroups(j) == j.op \in GroupWrites /\ j.at \in {"insert", "save"}
CopyRights(j) ==
  /\ Regroups(j) => RightsOK(j.acc)
  /\ j.op = "CHGADMIN" /\ j.at = "save" =>
       /\ j.uid \in Users /\ RightsOK(j.acc)
       /\ users[j.uid].pgid = j.acc.pgid /\ users[j.uid].sgids = j.acc.sgids
RightsInv ==
  ~raced => /\ \A t, o \in Operators : job[t].op # "idle" /\ job[o].op # "idle" => t = o
            /\ \A u \in Users : RightsOK(users[u])
            /\ \A t \in Operators : CopyRights(job[t])

\* If besides every name was resolved to the group that bears it, accounts and copies
\* are in groups that exist, and the group that GRPDEL removes has no member.
CopyGroups(j) ==
  /\ Regroups(j) => Member(j.acc) \subseteq Groups
  /\ j.at = "insert" => j.gid \in Groups \cup {-1}
  /\ j.op = "GRPDEL" => \A u \in Users : j.gid \notin Member(users[u])
DangleInv ==
  ~raced /\ ~misnamed => /\ \A u \in Users : Member(users[u]) \subseteq Groups
                         /\ \A t \in Operators : CopyGroups(job[t])

\* A copy whose flags are to be written is deleted if its document is.
WritesFlags(j) ==
  /\ j.at \in {"save", "flag"}
  /\ j.op \in {"CHGADMIN", "DELUSER"} \/ (j.op = "CHANGE" /\ j.set \in {"flags+", "flags-"})
CopyDeleted(j) ==
  WritesFlags(j) => /\ j.uid \in Users
                    /\ "deleted" \in users[j.uid].flags => "deleted" \in j.acc.flags
DeletedInv == ~raced => \A t \in Operators : CopyDeleted(job[t])

\* The increments under way are of accounts that exist or were purged; the last
\* attempt of one has an element to update.
Increments == [id : Nat, uid : Uids, k : Int, at : {"update", "insert", "again", "lost"}]
IncrInv ==
  /\ IsFiniteSet(incr) /\ incr \subseteq Increments /\ \A i \in incr : i.id < started
  /\ \A i, k \in incr : i.id = k.id => i = k
  /\ \A i \in incr : i.uid \in Users \cup purged
  /\ \A i \in incr : i.at = "again" => i.uid \in purged \/ credits[i.uid] # None
  /\ \A i \in incr : i.at = "lost" => i.uid \in purged
  /\ \A u \in Uids : u \notin Users => credits[u] = None

\* An account has the numbers that CHANGE wrote last.
NumsKept == \A u \in Users : users[u].num = confirmed[u]

AccountInv == DataTyped /\ JobsOK /\ NumsKept

CommandsInv == AccountInv /\ RightsInv /\ DangleInv /\ DeletedInv

\* A command begins with a copy as the invariants ask.
Begins(t) ==
  /\ misnamed' \in BOOLEAN /\ (misnamed => misnamed')
  /\ \E j : /\ Start(t, j) /\ JobOK(j)
            /\ ~raced => CopyRights(j) /\ CopyDeleted(j)
            /\ ~raced /\ ~misnamed' => CopyGroups(j)

\* A user is a uid with a document, which is an account.
LEMMA KnownUser ==
  ASSUME AccountAssumption, DataTyped, NEW u
  PROVE  u \in Users <=> u \in Uids /\ users[u] \in Account
PROOF
  BY DEF AccountAssumption, DataTyped, Users, Account

\* A group is a gid with a document.
LEMMA KnownGroup ==
  ASSUME AccountAssumption, DataTyped, NEW g
  PROVE  g \in Groups <=> g \in Gids /\ groups[g] \in Group
PROOF
  BY DEF AccountAssumption, DataTyped, Groups

\* What a handler is doing in a phase.
LEMMA Phase ==
  ASSUME NEW j, JobOK(j)
  PROVE  /\ JobShape(j) /\ (j.op = "idle" => j = NoJob) /\ j.at \in {"", "insert", "save", "flag", "load", "remove", "create", "group"}
         /\ j.at = "" => j = NoJob
         /\ j.at = "insert" => j.op = "ADDUSER"
         /\ j.at = "save" => j.op \in UserWrites \cup {"CHANGE"}
         /\ j.at = "flag" => j.op \in {"CHGADMIN", "CHANGE"}
         /\ j.at = "load" => j.op = "CHANGE"
         /\ j.at = "remove" => j.op \in {"PURGE", "GRPDEL"}
         /\ j.at = "create" => j.op = "GRPADD"
         /\ j.at = "group" => j.op \in {"GRPREN", "GRPCHANGE"}
         /\ j.op = "CHGADMIN" => j.at \in {"save", "flag"}
         /\ j.op = "GRPDEL" => j.at = "remove"
         /\ j.op = "CHANGE" => Asked(j)
PROOF
  <1>1. NoJob.op = "idle" /\ NoJob.at = ""
    BY DEF NoJob
  <1> QED BY <1>1 DEF JobOK, UserWrites, GroupWrites

-----------------------------------------------------------------------------
(* The commands begin *)

\* What ADDUSER, GADDUSER and TADDUSER share: the copy of a template is a job that fits.
LEMMA NewFromBegins ==
  ASSUME AccountAssumption, CommandsInv, NEW t \in Operators, NEW g \in Groups \cup {-1}, NEW tu \in Users,
         NewFrom(t, g, tu), UNCHANGED misnamed
  PROVE  Begins(t)
PROOF
  <1>0. AccountInv /\ DataTyped /\ RightsInv /\ DangleInv
    BY DEF CommandsInv, AccountInv
  <1> DEFINE a == DelFlags(users[tu], {"template"})
  <1>j. PICK j : j = [NoJob EXCEPT !.op = "ADDUSER", !.at = "insert", !.gid = g, !.val = credits[tu], !.acc = a]
    OBVIOUS
  <1>1. Start(t, j)
    BY <1>j DEF NewFrom
  <1>2. users[tu] \in Account /\ tu \in Uids
    BY <1>0, KnownUser
  <1>3. Reflagged(users[tu], a, users[tu].flags \ {"template"})
    BY <1>2, FlagsKeep DEF Flags
  <1> HIDE DEF a
  <1>4. /\ JobShape(j) /\ j.op = "ADDUSER" /\ j.at = "insert" /\ j.gid = g /\ j.acc = a /\ j.set = None
        /\ j.val = credits[tu]
    BY <1>j DEF NoJob, JobShape
  <1>5. credits[tu] \in Int \cup {None} /\ misnamed \in BOOLEAN
    BY <1>0, <1>2 DEF DataTyped
  <1>6. g \in Gids \cup {-1}
    BY <1>0, KnownGroup
  <1>7. JobOK(j)
    BY <1>3, <1>4, <1>5, <1>6 DEF JobOK, Reflagged
  <1>8. ~raced => CopyRights(j) /\ CopyDeleted(j)
    BY <1>0, <1>3, <1>4 DEF RightsInv, CopyRights, CopyDeleted, WritesFlags, RightsOK, Reflagged
  <1>9. ~raced /\ ~misnamed' => CopyGroups(j)
    BY <1>0, <1>3, <1>4 DEF DangleInv, CopyGroups, Reflagged
  <1> QED BY <1>1, <1>5, <1>7, <1>8, <1>9 DEF Begins

\* A command that loads an account and will write a copy of it.
LEMMA LoadedBegins ==
  ASSUME AccountAssumption, CommandsInv, NEW t \in Operators, NEW u, NEW op \in UserWrites \ {"ADDUSER"}, NEW a,
         Loaded(t, u, op, a), a \in Account, misnamed' \in BOOLEAN, misnamed => misnamed',
         op \in GroupWrites => (RightsOK(users[u]) => RightsOK(a)),
         op \in GroupWrites /\ ~misnamed' => (Member(users[u]) \subseteq Groups => Member(a) \subseteq Groups),
         op = "CHGADMIN" => /\ a.pgid = users[u].pgid /\ a.sgids = users[u].sgids
                            /\ (RightsOK(users[u]) => RightsOK(a)),
         op \in {"CHGADMIN", "DELUSER"} => users[u].flags \subseteq a.flags
  PROVE  Begins(t)
PROOF
  <1>0. AccountInv /\ DataTyped /\ RightsInv /\ DangleInv
    BY DEF CommandsInv, AccountInv
  <1>j. PICK j : j = [NoJob EXCEPT !.op = op, !.at = "save", !.uid = u, !.acc = a, !.flags = a.gadmin \ users[u].gadmin]
    OBVIOUS
  <1>1. Start(t, j) /\ u \in Users
    BY <1>j DEF Loaded
  <1>2. u \in Uids
    BY <1>0, <1>1, KnownUser
  <1>3. JobShape(j) /\ j.op = op /\ j.at = "save" /\ j.uid = u /\ j.acc = a /\ j.set = None
    BY <1>j DEF NoJob, JobShape
  <1>4. JobOK(j)
    BY <1>2, <1>3 DEF JobOK
  <1>5. op # "GRPDEL" /\ op # "CHANGE" /\ op # "ADDUSER"
    BY DEF UserWrites, GroupWrites
  <1>6. ~raced => CopyRights(j)
    BY <1>0, <1>1, <1>3, <1>5 DEF RightsInv, CopyRights, Regroups
  <1>7. CopyDeleted(j)
    BY <1>1, <1>3, <1>5 DEF CopyDeleted, WritesFlags
  <1>8. ~raced /\ ~misnamed' => CopyGroups(j)
    BY <1>0, <1>1, <1>3, <1>5 DEF DangleInv, CopyGroups, Regroups
  <1> QED BY <1>1, <1>4, <1>6, <1>7, <1>8 DEF Begins

\* ADDUSER and GADDUSER begin with the default account.
LEMMA AddUserBegins ==
  ASSUME AccountAssumption, CommandsInv, NEW t \in Operators, NEW g, AddUser(t, g) \/ GAddUser(t, g)
  PROVE  Begins(t)
PROOF
  <1>1. g \in Groups \cup {-1} /\ DefaultUser \in Users /\ NewFrom(t, g, DefaultUser) /\ UNCHANGED misnamed
    BY DEF AddUser, GAddUser
  <1> QED BY <1>1, NewFromBegins

\* TADDUSER begins with a template that the operator names.
LEMMA TAddUserBegins ==
  ASSUME AccountAssumption, CommandsInv, NEW t \in Operators, NEW u, TAddUser(t, u)
  PROVE  Begins(t)
PROOF
  <1>1. u \in Users /\ NewFrom(t, -1, u) /\ UNCHANGED misnamed
    BY DEF TAddUser
  <1> QED BY <1>1, NewFromBegins

\* DELUSER begins with a loaded copy that it marks as deleted.
LEMMA DelUserBegins ==
  ASSUME AccountAssumption, CommandsInv, NEW t \in Operators, NEW u, DelUser(t, u)
  PROVE  Begins(t)
PROOF
  <1>0. DataTyped /\ misnamed \in BOOLEAN
    BY DEF CommandsInv, AccountInv, DataTyped
  <1>1. u \in Users /\ UNCHANGED misnamed
    BY DEF DelUser
  <1>2. PICK a : a = AddFlags(users[u], {"deleted"})
    OBVIOUS
  <1>3. Loaded(t, u, "DELUSER", a)
    BY <1>2 DEF DelUser
  <1>4. users[u] \in Account
    BY <1>0, <1>1, KnownUser
  <1>5. Reflagged(users[u], a, users[u].flags \cup {"deleted"})
    BY <1>2, <1>4, FlagsKeep DEF Flags
  <1>6. a \in Account /\ users[u].flags \subseteq a.flags
    BY <1>5 DEF Reflagged
  <1>7. "DELUSER" \in UserWrites \ {"ADDUSER"} /\ "DELUSER" \notin GroupWrites
    BY DEF UserWrites, GroupWrites
  <1> QED BY <1>0, <1>1, <1>3, <1>6, <1>7, LoadedBegins

\* READD begins with a loaded copy whose mark it removes.
LEMMA ReaddBegins ==
  ASSUME AccountAssumption, CommandsInv, NEW t \in Operators, NEW u, Readd(t, u)
  PROVE  Begins(t)
PROOF
  <1>0. DataTyped /\ misnamed \in BOOLEAN
    BY DEF CommandsInv, AccountInv, DataTyped
  <1>1. u \in Users /\ UNCHANGED misnamed
    BY DEF Readd
  <1>2. PICK a : a = DelFlags(users[u], {"deleted"})
    OBVIOUS
  <1>3. Loaded(t, u, "READD", a)
    BY <1>2 DEF Readd
  <1>4. users[u] \in Account
    BY <1>0, <1>1, KnownUser
  <1>5. Reflagged(users[u], a, users[u].flags \ {"deleted"})
    BY <1>2, <1>4, FlagsKeep DEF Flags
  <1>6. a \in Account
    BY <1>5 DEF Reflagged
  <1>7. "READD" \in UserWrites \ {"ADDUSER"} /\ "READD" \notin GroupWrites
    BY DEF UserWrites, GroupWrites
  <1> QED BY <1>0, <1>1, <1>3, <1>6, <1>7, LoadedBegins

\* PURGE begins with a deleted account.
LEMMA PurgeBegins ==
  ASSUME AccountAssumption, CommandsInv, NEW t \in Operators, NEW u, Purge(t, u)
  PROVE  Begins(t)
PROOF
  <1>0. DataTyped /\ misnamed \in BOOLEAN
    BY DEF CommandsInv, AccountInv, DataTyped
  <1>j. PICK j : j = [NoJob EXCEPT !.op = "PURGE", !.at = "remove", !.uid = u]
    OBVIOUS
  <1>1. u \in Users /\ UNCHANGED misnamed /\ Start(t, j)
    BY <1>j DEF Purge
  <1>2. u \in Uids
    BY <1>0, <1>1, KnownUser
  <1>3. JobShape(j) /\ j.op = "PURGE" /\ j.at = "remove" /\ j.uid = u
    BY <1>j DEF NoJob, JobShape
  <1>4. JobOK(j)
    BY <1>2, <1>3 DEF JobOK
  <1>5. CopyRights(j) /\ CopyDeleted(j) /\ CopyGroups(j)
    BY <1>3 DEF CopyRights, CopyDeleted, CopyGroups, Regroups, WritesFlags, GroupWrites
  <1> QED BY <1>0, <1>1, <1>4, <1>5 DEF Begins

\* CHGRP begins with a copy in other groups that the cache knows by their names.
LEMMA ChGrpBegins ==
  ASSUME AccountAssumption, CommandsInv, NEW t \in Operators, NEW u, NEW how \in {"-", "=", "+", "toggle"},
         NEW ns \in Lists, ChGrp(t, u, how, ns)
  PROVE  Begins(t)
PROOF
  <1> DEFINE s == [i \in DOMAIN ns |-> gids[ns[i]]]
  <1>0. DataTyped /\ misnamed \in BOOLEAN /\ gids \in [GNames -> Gids \cup {-1}] /\ MaxGid \in Nat
    BY DEF CommandsInv, AccountInv, DataTyped, AccountAssumption
  <1>1. u \in Users /\ -1 \notin Range(s)
        /\ misnamed' = (misnamed \/ \E n \in Range(ns) : gids[n] \notin Groups \/ groups[gids[n]].name # n)
    BY DEF ChGrp
  <1>2. PICK a : a = (CASE how = "-" -> DelGIDs(users[u], s) [] how = "=" -> SetGIDs(users[u], s)
                        [] how = "+" -> AddGIDs(users[u], s) [] OTHER -> ToggleGIDs(users[u], s))
    OBVIOUS
  <1>3. Loaded(t, u, "CHGRP", a)
    BY <1>2 DEF ChGrp
  <1>4. users[u] \in Account
    BY <1>0, <1>1, KnownUser
  <1>5. ns \in Seq(GNames)
    BY DEF AccountAssumption
  <1>6. \A i \in DOMAIN ns : ns[i] \in GNames /\ s[i] = gids[ns[i]] /\ s[i] \in Range(s)
    BY <1>5 DEF Range
  <1>7. s \in Seq(Gids)
    <2>1. \A i \in DOMAIN ns : gids[ns[i]] \in Gids
      BY <1>0, <1>1, <1>6
    <2>2. DOMAIN ns = 1..Len(ns) /\ Len(ns) \in Nat
      BY <1>5
    <2> QED BY <2>1, <2>2
  <1>8. ~misnamed' => Range(s) \subseteq Groups
    <2> SUFFICES ASSUME ~misnamed', NEW g \in Range(s) PROVE g \in Groups
      OBVIOUS
    <2>1. PICK i \in DOMAIN ns : g = gids[ns[i]]
      BY DEF Range
    <2>2. ns[i] \in Range(ns)
      BY DEF Range
    <2> HIDE DEF s
    <2> QED BY <1>1, <2>1, <2>2
  <1> HIDE DEF s
  <1>9. Regrouped(users[u], a, Member(users[u]) \cup Range(s))
    <2>1. CASE how = "-"
      BY <1>0, <1>2, <1>4, <1>7, <2>1, DelGIDsKeeps
    <2>2. CASE how = "="
      BY <1>0, <1>2, <1>4, <1>7, <2>2, SetGIDsKeeps
    <2>3. CASE how = "+"
      BY <1>0, <1>2, <1>4, <1>7, <2>3, AddGIDsKeeps
    <2>4. CASE how = "toggle"
      BY <1>0, <1>2, <1>4, <1>7, <2>4, ToggleGIDsKeeps
    <2> QED BY <2>1, <2>2, <2>3, <2>4
  <1>10. a \in Account /\ (RightsOK(users[u]) => RightsOK(a)) /\ Member(a) \subseteq Member(users[u]) \cup Range(s)
    BY <1>9 DEF Regrouped, RightsOK
  <1>11. "CHGRP" \in UserWrites \ {"ADDUSER"} /\ "CHGRP" \notin {"CHGADMIN", "DELUSER"}
    BY DEF UserWrites, GroupWrites
  <1>12. ~misnamed' => (Member(users[u]) \subseteq Groups => Member(a) \subseteq Groups)
    BY <1>8, <1>10
  <1>13. misnamed' \in BOOLEAN /\ (misnamed => misnamed')
    BY <1>0, <1>1
  <1> QED BY <1>3, <1>10, <1>11, <1>12, <1>13, LoadedBegins

\* SETPGRP begins with a copy in a group that the cache knows by its name.
LEMMA SetPGrpBegins ==
  ASSUME AccountAssumption, CommandsInv, NEW t \in Operators, NEW u, NEW n \in GNames, SetPGrp(t, u, n)
  PROVE  Begins(t)
PROOF
  <1>0. DataTyped /\ misnamed \in BOOLEAN /\ gids[n] \in Gids \cup {-1} /\ MaxGid \in Nat
    BY DEF CommandsInv, AccountInv, DataTyped, AccountAssumption
  <1>1. u \in Users /\ gids[n] \in Gids
        /\ misnamed' = (misnamed \/ gids[n] \notin Groups \/ groups[gids[n]].name # n)
    BY <1>0 DEF SetPGrp, Resolves
  <1>2. PICK a : a = SetPrimaryGID(users[u], gids[n])
    OBVIOUS
  <1>3. Loaded(t, u, "SETPGRP", a)
    BY <1>2 DEF SetPGrp
  <1>4. users[u] \in Account
    BY <1>0, <1>1, KnownUser
  <1>5. Regrouped(users[u], a, Member(users[u]) \cup {gids[n]})
    BY <1>0, <1>1, <1>2, <1>4, SetPrimaryGIDKeeps
  <1>6. a \in Account /\ (RightsOK(users[u]) => RightsOK(a)) /\ Member(a) \subseteq Member(users[u]) \cup {gids[n]}
    BY <1>5 DEF Regrouped, RightsOK
  <1>7. "SETPGRP" \in UserWrites \ {"ADDUSER"} /\ "SETPGRP" \notin {"CHGADMIN", "DELUSER"}
    BY DEF UserWrites, GroupWrites
  <1>8. ~misnamed' => (Member(users[u]) \subseteq Groups => Member(a) \subseteq Groups)
    BY <1>1, <1>6
  <1>9. misnamed' \in BOOLEAN /\ (misnamed => misnamed')
    BY <1>0, <1>1
  <1> QED BY <1>3, <1>6, <1>7, <1>8, <1>9, LoadedBegins

\* CHGADMIN begins with a copy whose right for one of its groups it toggles.
LEMMA ChGadminBegins ==
  ASSUME AccountAssumption, CommandsInv, NEW t \in Operators, NEW u, NEW n \in GNames, ChGadmin(t, u, n)
  PROVE  Begins(t)
PROOF
  <1>0. DataTyped /\ misnamed \in BOOLEAN /\ gids[n] \in Gids \cup {-1} /\ MaxGid \in Nat
    BY DEF CommandsInv, AccountInv, DataTyped, AccountAssumption
  <1> DEFINE g == gids[n]
             d == users[u]
  <1>1. u \in Users /\ g \in Gids /\ g \in Member(d)
        /\ misnamed' = (misnamed \/ g \notin Groups \/ groups[g].name # n)
    BY <1>0 DEF ChGadmin, Resolves
  <1>2. PICK a : a = IF g \in d.gadmin THEN [d EXCEPT !.gadmin = @ \ {g}] ELSE [d EXCEPT !.gadmin = @ \cup {g}]
    OBVIOUS
  <1>3. Loaded(t, u, "CHGADMIN", a)
    BY <1>2 DEF ChGadmin
  <1>4. d \in Account
    BY <1>0, <1>1, KnownUser
  <1> HIDE DEF d, g
  <1>5. /\ a \in Account /\ a.flags = d.flags /\ a.pgid = d.pgid /\ a.sgids = d.sgids
        /\ a.gadmin \subseteq d.gadmin \cup {g}
    <2>1. d \in User /\ d.gadmin \in SUBSET Gids
      BY <1>4, AccountFields
    <2>2. CASE g \in d.gadmin
      BY <1>1, <1>2, <1>4, <2>1, <2>2 DEF Account, User
    <2>3. CASE g \notin d.gadmin
      BY <1>1, <1>2, <1>4, <2>1, <2>3 DEF Account, User
    <2> QED BY <2>2, <2>3
  <1>6. RightsOK(d) => RightsOK(a)
    BY <1>1, <1>5 DEF RightsOK, Member
  <1>7. "CHGADMIN" \in UserWrites \ {"ADDUSER"} /\ "CHGADMIN" \notin GroupWrites
    BY DEF UserWrites, GroupWrites
  <1>8. misnamed' \in BOOLEAN /\ (misnamed => misnamed')
    BY <1>0, <1>1
  <1> QED BY <1>3, <1>5, <1>6, <1>7, <1>8, LoadedBegins DEF d

\* CHANGE begins with a list of users that are still to be loaded.
LEMMA ChangeBegins ==
  ASSUME AccountAssumption, CommandsInv, NEW t \in Operators, NEW s, NEW v \in Int, NEW F \in SUBSET {"template", "exempt", "deleted"},
         NEW us, Change(t, s, v, F, us),
         \/ s \in {"wkly_allotment"} \cup RatioMap \cup Settings /\ F = {}
         \/ s \in FlagSettings
  PROVE  Begins(t)
PROOF
  <1>0. DataTyped /\ misnamed \in BOOLEAN
    BY DEF CommandsInv, AccountInv, DataTyped
  <1>j. PICK j : j = [NoJob EXCEPT !.op = "CHANGE", !.at = "load", !.todo = SetToSortSeq(us, <), !.set = s, !.flags = F,
                            !.val = IF s = "ratio" /\ v = -1 THEN users[DefaultUser].ratio ELSE v]
    OBVIOUS
  <1>1. Check(t, s, v, F) /\ UNCHANGED misnamed /\ Start(t, j)
    BY <1>j DEF Change
  <1>3. s = "ratio" => DefaultUser \in Users
    BY <1>1 DEF Check, AccountAssumption, RatioMap, FlagSettings
  <1>4. s = "ratio" => users[DefaultUser].ratio \in Int
    BY <1>0, <1>3, KnownUser, AccountFields
  <1>5. F \subseteq {"template", "exempt"}
    <2>1. F = {} \/ CheckFlags(F)
      BY <1>1 DEF Check, AccountAssumption, RatioMap, FlagSettings
    <2> QED BY <2>1 DEF CheckFlags
  <1>6. /\ JobShape(j) /\ j.op = "CHANGE" /\ j.at = "load" /\ j.set = s /\ j.flags = F
        /\ j.val = IF s = "ratio" /\ v = -1 THEN users[DefaultUser].ratio ELSE v
    BY <1>j DEF NoJob, JobShape
  <1>7. Asked(j)
    BY <1>4, <1>5, <1>6 DEF Asked
  <1>8. JobOK(j)
    BY <1>6, <1>7 DEF JobOK
  <1>9. CopyRights(j) /\ CopyDeleted(j) /\ CopyGroups(j)
    BY <1>6 DEF CopyRights, CopyDeleted, CopyGroups, Regroups, WritesFlags, GroupWrites
  <1> QED BY <1>0, <1>1, <1>8, <1>9 DEF Begins

\* GRPADD, GRPREN and GRPCHANGE begin with a name or a limit that they will write.
LEMMA GroupCommandBegins ==
  ASSUME AccountAssumption, CommandsInv, NEW t \in Operators,
         \/ \E n \in GNames : GrpAdd(t, n)
         \/ \E g \in Gids, n \in GNames : GrpRen(t, g, n)
         \/ \E g \in Gids, l \in Limits, v \in Values : GrpChange(t, g, l, v)
  PROVE  Begins(t)
PROOF
  <1>0. DataTyped /\ misnamed \in BOOLEAN
    BY DEF CommandsInv, AccountInv, DataTyped
  <1>1. ASSUME NEW j, JobOK(j), j.at \in {"create", "group"} PROVE CopyRights(j) /\ CopyDeleted(j) /\ CopyGroups(j)
    <2>1. j.op \notin {"CHGADMIN", "GRPDEL"}
      BY <1>1, Phase
    <2> QED BY <1>1, <2>1 DEF CopyRights, CopyDeleted, CopyGroups, Regroups, WritesFlags
  <1>2. ASSUME NEW n \in GNames, GrpAdd(t, n) PROVE Begins(t)
    <2>j. PICK j : j = [NoJob EXCEPT !.op = "GRPADD", !.at = "create", !.set = n, !.acc = groups[DefaultGroup]]
      OBVIOUS
    <2>1. UNCHANGED misnamed /\ Start(t, j) /\ DefaultGroup \in Groups
      BY <1>2, <2>j DEF GrpAdd
    <2>2. JobShape(j) /\ j.op = "GRPADD" /\ j.at = "create" /\ j.set = n /\ j.acc = groups[DefaultGroup]
      BY <2>j DEF NoJob, JobShape
    <2>3. groups[DefaultGroup] \in Group
      BY <1>0, <2>1, KnownGroup
    <2>4. JobOK(j)
      BY <2>2, <2>3 DEF JobOK
    <2> QED BY <1>0, <1>1, <2>1, <2>2, <2>4 DEF Begins
  <1>3. ASSUME NEW g \in Gids, NEW n \in GNames, GrpRen(t, g, n) PROVE Begins(t)
    <2>j. PICK j : j = [NoJob EXCEPT !.op = "GRPREN", !.at = "group", !.gid = g, !.set = n]
      OBVIOUS
    <2>1. UNCHANGED misnamed /\ Start(t, j)
      BY <1>3, <2>j DEF GrpRen
    <2>2. JobShape(j) /\ j.op = "GRPREN" /\ j.at = "group" /\ j.set = n /\ j.gid = g
      BY <2>j DEF NoJob, JobShape
    <2>4. JobOK(j)
      BY <2>2 DEF JobOK
    <2> QED BY <1>0, <1>1, <2>1, <2>2, <2>4 DEF Begins
  <1>4. ASSUME NEW g \in Gids, NEW l \in Limits, NEW v \in Values, GrpChange(t, g, l, v) PROVE Begins(t)
    <2>j. PICK j : j = [NoJob EXCEPT !.op = "GRPCHANGE", !.at = "group", !.gid = g, !.set = l, !.val = v]
      OBVIOUS
    <2>1. UNCHANGED misnamed /\ Start(t, j)
      BY <1>4, <2>j DEF GrpChange
    <2>2. JobShape(j) /\ j.op = "GRPCHANGE" /\ j.at = "group" /\ j.set = l /\ j.gid = g /\ j.val = v
      BY <2>j DEF NoJob, JobShape
    <2>3. v \in Int
      BY DEF AccountAssumption
    <2>4. JobOK(j)
      BY <2>2, <2>3 DEF JobOK
    <2> QED BY <1>0, <1>1, <2>1, <2>2, <2>4 DEF Begins
  <1> QED BY <1>2, <1>3, <1>4

\* There are finitely many uids.
LEMMA UidsFinite ==
  ASSUME AccountAssumption
  PROVE  IsFiniteSet(Uids)
PROOF
  <1>1. 0 \in Int /\ MaxUid \in Int
    BY DEF AccountAssumption
  <1>2. IsFiniteSet(0 .. MaxUid)
    BY <1>1, FS_Interval
  <1> QED BY <1>2 DEF Uids

\* Any set of users is finite and has a size.
LEMMA UsersFinite ==
  ASSUME AccountAssumption, NEW S, S \subseteq Users
  PROVE  IsFiniteSet(S) /\ Cardinality(S) \in Nat
PROOF
  <1>1. IsFiniteSet(Uids)
    BY UidsFinite
  <1>2. S \subseteq Uids
    BY DEF Users
  <1> QED BY <1>1, <1>2, FS_Subset, FS_CardinalityType

\* GRPDEL begins with a group that has no members.
LEMMA GrpDelBegins ==
  ASSUME AccountAssumption, CommandsInv, NEW t \in Operators, NEW g \in Gids, GrpDel(t, g)
  PROVE  Begins(t)
PROOF
  <1>0. DataTyped /\ misnamed \in BOOLEAN
    BY DEF CommandsInv, AccountInv, DataTyped
  <1>j. PICK j : j = [NoJob EXCEPT !.op = "GRPDEL", !.at = "remove", !.gid = g]
    OBVIOUS
  <1>1. UNCHANGED misnamed /\ Start(t, j) /\ NumMembers(g) = 0
    BY <1>j DEF GrpDel
  <1>2. JobShape(j) /\ j.op = "GRPDEL" /\ j.at = "remove" /\ j.gid = g
    BY <1>j DEF NoJob, JobShape
  <1>3. JobOK(j)
    BY <1>2 DEF JobOK
  <1>4. \A u \in Users : g \notin Member(users[u])
    <2> DEFINE M == {u \in Users : g \in Member(users[u])}
    <2>1. Cardinality(M) = 0 /\ M \subseteq Users
      BY <1>1 DEF NumMembers
    <2> HIDE DEF M
    <2>2. M = {}
      BY <2>1, UsersFinite, FS_EmptySet
    <2> QED BY <2>2 DEF M
  <1>5. CopyRights(j) /\ CopyDeleted(j) /\ CopyGroups(j)
    BY <1>2, <1>4 DEF CopyRights, CopyDeleted, CopyGroups, Regroups, WritesFlags, GroupWrites
  <1> QED BY <1>0, <1>1, <1>3, <1>5 DEF Begins

\* Steps that change only the job of one handler and keep it in shape.
LEMMA JobsKept ==
  ASSUME JobsOK, NEW t \in Operators, NEW j, JobOK(j), job' = [job EXCEPT ![t] = j]
  PROVE  JobsOK' /\ job'[t] = j /\ \A o \in Operators : o # t => job'[o] = job[o]
PROOF
  <1>1. job'[t] = j /\ \A o \in Operators : o # t => job'[o] = job[o]
    BY DEF JobsOK
  <1>2. job' = [o \in Operators |-> job'[o]]
    BY DEF JobsOK
  <1>3. ASSUME NEW o \in Operators PROVE JobOK(job'[o])
    BY <1>1 DEF JobsOK
  <1>4. JobsOK'
    BY <1>2, <1>3 DEF JobsOK, JobOK, JobShape, Asked
  <1> QED BY <1>1, <1>4

\* A command that begins keeps the invariant: its job fits and no document changes.
LEMMA BeginsKeeps ==
  ASSUME AccountAssumption, CommandsInv, NEW t \in Operators, Begins(t)
  PROVE  CommandsInv'
PROOF
  <1>0. AccountInv /\ RightsInv /\ DangleInv /\ DeletedInv /\ DataTyped /\ JobsOK /\ NumsKept
    BY DEF CommandsInv, AccountInv
  <1>1. PICK j : /\ Start(t, j) /\ JobOK(j)
                 /\ ~raced => CopyRights(j) /\ CopyDeleted(j)
                 /\ ~raced /\ ~misnamed' => CopyGroups(j)
    BY DEF Begins
  <1>2. /\ job' = [job EXCEPT ![t] = j] /\ started' = started + 1
        /\ raced' = (raced \/ \E o \in Operators \ {t} : job[o].op # "idle")
        /\ users' = users /\ groups' = groups /\ credits' = credits /\ confirmed' = confirmed
        /\ gids' = gids /\ names' = names /\ minted' = minted /\ misnamed' \in BOOLEAN /\ (misnamed => misnamed')
    BY <1>1 DEF Start, dataVars, cacheVars, histVars, Begins
  <1>3. JobsOK' /\ job'[t] = j /\ \A o \in Operators : o # t => job'[o] = job[o]
    BY <1>0, <1>1, <1>2, JobsKept
  <1>4. Users' = Users /\ Groups' = Groups
    BY <1>2 DEF Users, Groups
  <1>5. DataTyped'
    BY <1>0, <1>2 DEF DataTyped
  <1>6. NumsKept'
    BY <1>0, <1>2, <1>4 DEF NumsKept
  <1>7. RightsInv'
    <2> SUFFICES ASSUME ~raced' PROVE
            /\ \A o, p \in Operators : job'[o].op # "idle" /\ job'[p].op # "idle" => o = p
            /\ \A u \in Users : RightsOK(users[u])
            /\ \A o \in Operators : CopyRights(job[o])'
      BY <1>2, <1>4 DEF RightsInv, RightsOK, Member
    <2>1. ~raced /\ \A o \in Operators \ {t} : job[o].op = "idle"
      BY <1>2
    <2>2. \A o, p \in Operators : job'[o].op # "idle" /\ job'[p].op # "idle" => o = p
      BY <1>3, <2>1
    <2>3. \A u \in Users : RightsOK(users[u])
      BY <1>0, <2>1 DEF RightsInv
    <2>4. \A o \in Operators : CopyRights(job'[o])
      BY <1>0, <1>1, <1>3, <2>1 DEF RightsInv
    <2>5. \A o \in Operators : CopyRights(job'[o]) => CopyRights(job[o])'
      BY <1>2, <1>4 DEF CopyRights, Regroups, RightsOK, Member
    <2> QED BY <2>2, <2>3, <2>4, <2>5
  <1>8. DangleInv'
    <2> SUFFICES ASSUME ~raced', ~misnamed' PROVE
            /\ \A u \in Users : Member(users[u]) \subseteq Groups
            /\ \A o \in Operators : CopyGroups(job[o])'
      BY <1>2, <1>4 DEF DangleInv, Member
    <2>1. ~raced /\ ~misnamed
      BY <1>2
    <2>4. \A o \in Operators : CopyGroups(job'[o])
      BY <1>0, <1>1, <1>3, <2>1 DEF DangleInv
    <2>5. \A o \in Operators : CopyGroups(job'[o]) => CopyGroups(job[o])'
      BY <1>2, <1>4 DEF CopyGroups, Regroups, Member
    <2> QED BY <1>0, <2>1, <2>4, <2>5 DEF DangleInv
  <1>9. DeletedInv'
    <2> SUFFICES ASSUME ~raced' PROVE \A o \in Operators : CopyDeleted(job[o])'
      BY DEF DeletedInv
    <2>4. \A o \in Operators : CopyDeleted(job'[o])
      BY <1>0, <1>1, <1>2, <1>3 DEF DeletedInv
    <2>5. \A o \in Operators : CopyDeleted(job'[o]) => CopyDeleted(job[o])'
      BY <1>2, <1>4 DEF CopyDeleted, WritesFlags
    <2> QED BY <2>4, <2>5
  <1> QED BY <1>3, <1>5, <1>6, <1>7, <1>8, <1>9 DEF CommandsInv, AccountInv

-----------------------------------------------------------------------------
(* The commands write *)

\* What a handler's copy is when it writes.
LEMMA Holds ==
  ASSUME AccountAssumption, NEW j, JobOK(j), j.at \in {"save", "flag"}
  PROVE  /\ j.acc \in Account /\ j.uid \in Uids
         /\ j.op = "CHANGE" => /\ j.set \in {"wkly_allotment"} \cup RatioMap \cup FlagSettings \cup Settings
                               /\ j.val \in Int /\ (j.set \in Settings => j.acc.num[j.set] = j.val)
         /\ j.op # "CHANGE" => j.set = None
PROOF
  <1>1. NoJob.at = ""
    BY DEF NoJob
  <1>2. Settings \cap FlagSettings = {}
    BY DEF AccountAssumption
  <1> QED BY <1>1, <1>2 DEF JobOK, Asked, UserWrites, GroupWrites

\* The fields that each command writes back of its copy.
LEMMA WrittenFields ==
  ASSUME AccountAssumption, NEW j, JobOK(j), j.at \in {"save", "flag"}
  PROVE  Fields(j) = IF j.op \in GroupWrites THEN {"pgid", "sgids", "gadmin"}
                     ELSE IF j.op = "CHGADMIN" THEN (IF j.at = "save" THEN {"gadmin"} ELSE {"flags"})
                     ELSE IF j.op \in {"DELUSER", "READD"} \/ (j.op = "CHANGE" /\ j.set \in FlagSettings) THEN {"flags"}
                     ELSE IF j.set \in RatioMap THEN RatioMap
                     ELSE IF j.set = "wkly_allotment" THEN {"allot"}
                     ELSE {"num"}
PROOF
  <1>1. (Settings \cup {None}) \cap ({"wkly_allotment"} \cup RatioMap \cup FlagSettings) = {} /\ None \notin Settings
    BY DEF AccountAssumption
  <1>2. CASE j.op \in UserWrites
    <2>0. j.set \notin {"wkly_allotment"} \cup RatioMap \cup FlagSettings /\ j.op # "CHANGE"
      <3>1. j.op # "CHANGE"
        BY <1>2 DEF UserWrites, GroupWrites
      <3> QED BY <1>1, <3>1, Holds
    <2>1. CASE j.op \in GroupWrites
      BY <2>0, <2>1 DEF Fields, GroupWrites, FlagSettings, RatioMap
    <2>2. CASE j.op = "CHGADMIN"
      BY <2>0, <2>2 DEF Fields, GroupWrites, FlagSettings, RatioMap
    <2>3. CASE j.op \in {"DELUSER", "READD"}
      BY <2>0, <2>3 DEF Fields, GroupWrites, FlagSettings, RatioMap
    <2> QED BY <1>2, <2>1, <2>2, <2>3 DEF UserWrites
  <1>3. CASE j.op = "CHANGE"
    BY <1>1, <1>3 DEF Fields, GroupWrites, FlagSettings, RatioMap
  <1> QED BY <1>2, <1>3, Phase DEF UserWrites

WritesFlagsNow(j) ==
  \/ j.op = "CHGADMIN" /\ j.at = "flag"
  \/ j.op \in {"DELUSER", "READD"}
  \/ j.op = "CHANGE" /\ j.set \in FlagSettings

\* What a save makes of a document: the fields that it writes are those of the copy.
LEMMA SavedDocument ==
  ASSUME AccountAssumption, NEW j, JobOK(j), j.at \in {"save", "flag"}, NEW old \in Account, NEW n,
         n = SetFields(old, j)
  PROVE  /\ n \in Account
         /\ n.num = IF j.set \in Settings THEN [old.num EXCEPT ![j.set] = j.val] ELSE old.num
         /\ n.pgid = (IF j.op \in GroupWrites THEN j.acc.pgid ELSE old.pgid)
         /\ n.sgids = (IF j.op \in GroupWrites THEN j.acc.sgids ELSE old.sgids)
         /\ n.gadmin = (IF j.op \in GroupWrites \/ (j.op = "CHGADMIN" /\ j.at = "save") THEN j.acc.gadmin ELSE old.gadmin)
         /\ n.flags = (IF WritesFlagsNow(j) THEN j.acc.flags ELSE old.flags)
         /\ n.ratio = (IF j.op = "CHANGE" /\ j.set \in RatioMap THEN j.acc.ratio ELSE old.ratio)
         /\ n.sratio = (IF j.op = "CHANGE" /\ j.set \in RatioMap THEN j.acc.sratio ELSE old.sratio)
         /\ n.allot = (IF j.op = "CHANGE" /\ j.set = "wkly_allotment" THEN j.acc.allot ELSE old.allot)
PROOF
  <1>0. (Settings \cup {None}) \cap ({"wkly_allotment"} \cup RatioMap \cup FlagSettings) = {} /\ None \notin Settings
    BY DEF AccountAssumption
  <1>1. PICK F : F = Fields(j)
    OBVIOUS
  <1>2. n = [flags |-> IF "flags" \in F THEN j.acc.flags ELSE old.flags,
             pgid |-> IF "pgid" \in F THEN j.acc.pgid ELSE old.pgid,
             sgids |-> IF "sgids" \in F THEN j.acc.sgids ELSE old.sgids,
             gadmin |-> IF "gadmin" \in F THEN j.acc.gadmin ELSE old.gadmin,
             ratio |-> IF "ratio" \in F THEN j.acc.ratio ELSE old.ratio,
             sratio |-> IF "sratio" \in F THEN j.acc.sratio ELSE old.sratio,
             allot |-> IF "allot" \in F THEN j.acc.allot ELSE old.allot,
             num |-> IF "num" \in F THEN [old.num EXCEPT ![j.set] = j.acc.num[j.set]] ELSE old.num]
    BY <1>1, SetFieldsAre
  <1>3. F = IF j.op \in GroupWrites THEN {"pgid", "sgids", "gadmin"}
            ELSE IF j.op = "CHGADMIN" THEN (IF j.at = "save" THEN {"gadmin"} ELSE {"flags"})
            ELSE IF j.op \in {"DELUSER", "READD"} \/ (j.op = "CHANGE" /\ j.set \in FlagSettings) THEN {"flags"}
            ELSE IF j.set \in RatioMap THEN RatioMap
            ELSE IF j.set = "wkly_allotment" THEN {"allot"}
            ELSE {"num"}
    BY <1>1, WrittenFields
  <1>4. /\ j.acc \in Account
        /\ j.op = "CHANGE" => /\ j.set \in {"wkly_allotment"} \cup RatioMap \cup FlagSettings \cup Settings
                              /\ j.val \in Int /\ (j.set \in Settings => j.acc.num[j.set] = j.val)
        /\ j.op # "CHANGE" => j.set = None
    BY Holds
  <1>5. /\ j.op \in UserWrites \cup {"CHANGE"} /\ (j.at = "flag" => j.op \in {"CHGADMIN", "CHANGE"})
        /\ "CHANGE" \notin GroupWrites /\ "CHGADMIN" \notin GroupWrites /\ "DELUSER" \notin GroupWrites
        /\ "READD" \notin GroupWrites
    BY Phase DEF UserWrites, GroupWrites
  <1>6. /\ j.acc.flags \in SUBSET Flags /\ j.acc.pgid \in Gids \cup {-1}
        /\ j.acc.sgids \in Seq(Gids) /\ j.acc.gadmin \in SUBSET Gids /\ j.acc.ratio \in Int /\ j.acc.sratio \in Int
        /\ j.acc.allot \in Int \cup {None} /\ j.acc.num \in [Settings -> Int]
        /\ (j.acc.pgid = -1 => j.acc.sgids = <<>>)
    BY <1>4, AccountFields
  <1>7. /\ old.flags \in SUBSET Flags /\ old.pgid \in Gids \cup {-1}
        /\ old.sgids \in Seq(Gids) /\ old.gadmin \in SUBSET Gids /\ old.ratio \in Int /\ old.sratio \in Int
        /\ old.allot \in Int \cup {None} /\ old.num \in [Settings -> Int]
        /\ (old.pgid = -1 => old.sgids = <<>>)
    BY AccountFields
  <1>8. "num" \in F <=> j.op = "CHANGE" /\ j.set \in Settings
    BY <1>0, <1>3, <1>4, <1>5 DEF UserWrites, FlagSettings, RatioMap
  <1>9. j.set \in Settings => j.op = "CHANGE"
    BY <1>0, <1>4
  <1>10. n.num = IF j.set \in Settings THEN [old.num EXCEPT ![j.set] = j.val] ELSE old.num
    BY <1>2, <1>4, <1>8, <1>9
  <1>11. n.num \in [Settings -> Int]
    BY <1>4, <1>7, <1>9, <1>10
  <1>12. n.pgid = (IF j.op \in GroupWrites THEN j.acc.pgid ELSE old.pgid)
    BY <1>2, <1>3 DEF RatioMap
  <1>13. n.sgids = (IF j.op \in GroupWrites THEN j.acc.sgids ELSE old.sgids)
    BY <1>2, <1>3 DEF RatioMap
  <1>14. n.gadmin = (IF j.op \in GroupWrites \/ (j.op = "CHGADMIN" /\ j.at = "save") THEN j.acc.gadmin ELSE old.gadmin)
    <2>1. "gadmin" \in F <=> j.op \in GroupWrites \/ (j.op = "CHGADMIN" /\ j.at = "save")
      BY <1>3, <1>5 DEF RatioMap
    <2> QED BY <1>2, <2>1
  <1>15. n.flags = (IF WritesFlagsNow(j) THEN j.acc.flags ELSE old.flags)
    <2>1. "flags" \in F <=> WritesFlagsNow(j)
      BY <1>3, <1>5 DEF WritesFlagsNow, RatioMap
    <2> QED BY <1>2, <2>1
  <1>16. /\ n.ratio = (IF j.op = "CHANGE" /\ j.set \in RatioMap THEN j.acc.ratio ELSE old.ratio)
         /\ n.sratio = (IF j.op = "CHANGE" /\ j.set \in RatioMap THEN j.acc.sratio ELSE old.sratio)
    <2>1. /\ "ratio" \in F <=> j.op = "CHANGE" /\ j.set \in RatioMap
          /\ "sratio" \in F <=> j.op = "CHANGE" /\ j.set \in RatioMap
      BY <1>0, <1>3, <1>4, <1>5 DEF UserWrites, FlagSettings, RatioMap
    <2> QED BY <1>2, <2>1
  <1>17. n.allot = (IF j.op = "CHANGE" /\ j.set = "wkly_allotment" THEN j.acc.allot ELSE old.allot)
    <2>1. "allot" \in F <=> j.op = "CHANGE" /\ j.set = "wkly_allotment"
      BY <1>0, <1>3, <1>4, <1>5 DEF UserWrites, FlagSettings, RatioMap
    <2> QED BY <1>2, <2>1
  <1>18. /\ n.flags \in SUBSET Flags /\ n.pgid \in Gids \cup {-1}
         /\ n.sgids \in Seq(Gids) /\ n.gadmin \in SUBSET Gids /\ n.ratio \in Int /\ n.sratio \in Int
         /\ n.allot \in Int \cup {None} /\ (n.pgid = -1 => n.sgids = <<>>)
    BY <1>6, <1>7, <1>12, <1>13, <1>14, <1>15, <1>16, <1>17
  <1>19. n = [flags |-> n.flags, pgid |-> n.pgid, sgids |-> n.sgids, gadmin |-> n.gadmin, ratio |-> n.ratio,
              sratio |-> n.sratio, allot |-> n.allot, num |-> n.num]
    BY <1>2
  <1>20. n \in User
    BY <1>11, <1>18, <1>19 DEF User
  <1> QED BY <1>10, <1>12, <1>13, <1>14, <1>15, <1>16, <1>17, <1>18, <1>20 DEF Account

\* A step of one handler that keeps accounts and its own copy as the invariants ask:
\* while no commands overlapped, no other handler has a copy.
LEMMA HandlerStep ==
  ASSUME AccountAssumption, CommandsInv, NEW t \in Operators, job[t].op # "idle", NEW j, JobOK(j),
         job' = [job EXCEPT ![t] = j], raced' = raced, misnamed' = misnamed, DataTyped', NumsKept',
         ~raced => \A u \in Users' : RightsOK(users'[u]),
         ~raced => CopyRights(job[t])' /\ CopyDeleted(job[t])',
         ~raced /\ ~misnamed => (\A u \in Users' : Member(users'[u]) \subseteq Groups') /\ CopyGroups(job[t])'
  PROVE  CommandsInv'
PROOF
  <1>0. AccountInv /\ RightsInv /\ DangleInv /\ DeletedInv /\ DataTyped /\ JobsOK /\ NumsKept
    BY DEF CommandsInv, AccountInv
  <1>1. JobsOK' /\ job'[t] = j /\ \A o \in Operators : o # t => job'[o] = job[o]
    BY <1>0, JobsKept
  <1>2. ASSUME ~raced, NEW o \in Operators, o # t PROVE job'[o].op = "idle" /\ job'[o].at = ""
    <2>1. job[o].op = "idle"
      BY <1>0, <1>2 DEF RightsInv
    <2>2. JobOK(job[o])
      BY <1>0 DEF JobsOK
    <2>3. job[o] = NoJob
      BY <2>1, <2>2, Phase
    <2>4. NoJob.op = "idle" /\ NoJob.at = ""
      BY DEF NoJob
    <2> QED BY <1>1, <1>2, <2>3, <2>4
  <1>3. ASSUME ~raced, NEW o \in Operators, o # t
        PROVE  CopyRights(job[o])' /\ CopyDeleted(job[o])' /\ CopyGroups(job[o])'
    BY <1>2, <1>3 DEF CopyRights, CopyDeleted, CopyGroups, Regroups, WritesFlags
  <1>4. RightsInv'
    <2> SUFFICES ASSUME ~raced PROVE
            /\ \A o, p \in Operators : job'[o].op # "idle" /\ job'[p].op # "idle" => o = p
            /\ \A u \in Users' : RightsOK(users'[u])
            /\ \A o \in Operators : CopyRights(job[o])'
      BY DEF RightsInv, RightsOK, Member
    <2> QED BY <1>2, <1>3
  <1>5. DangleInv'
    <2> SUFFICES ASSUME ~raced, ~misnamed PROVE
            /\ \A u \in Users' : Member(users'[u]) \subseteq Groups'
            /\ \A o \in Operators : CopyGroups(job[o])'
      BY DEF DangleInv, Member
    <2> QED BY <1>3
  <1>6. DeletedInv'
    BY <1>3 DEF DeletedInv
  <1> QED BY <1>1, <1>4, <1>5, <1>6 DEF CommandsInv, AccountInv


\* Only a CHANGE of the allotment writes an allotment.
LEMMA SavedAllot ==
  ASSUME AccountAssumption, NEW j, JobOK(j), j.at \in {"save", "flag"}, NEW old \in Account, NEW n,
         n = SetFields(old, j)
  PROVE  n.allot = (IF j.op = "CHANGE" /\ j.set = "wkly_allotment" THEN j.acc.allot ELSE old.allot)
PROOF
  BY SavedDocument, ZenonT(30)

\* Who has no job writes nothing.
LEMMA IdleFits ==
  /\ JobOK(NoJob) /\ NoJob.op = "idle" /\ NoJob.at = ""
  /\ \A j : j.op = "idle" /\ j.at = "" =>
       ~Regroups(j) /\ ~WritesFlags(j)
PROOF
  BY DEF NoJob, JobOK, JobShape, Regroups, WritesFlags

\* What the handler of a write does next.
LEMMA SavedNext ==
  ASSUME AccountAssumption, NEW j, JobOK(j), j.at \in {"save", "flag"}
  PROVE  /\ JobOK(AfterSave(j))
         /\ AfterSave(j).at \in {"", "load", "flag"} /\ ~Regroups(AfterSave(j)) /\ AfterSave(j).at # "insert"
         /\ AfterSave(j).op # "GRPDEL"
         /\ AfterSave(j).at = "flag" =>
              /\ AfterSave(j).op = j.op /\ j.op \in {"CHGADMIN", "CHANGE"} /\ j.at = "save"
              /\ AfterSave(j).uid = j.uid /\ AfterSave(j).set = j.set
              /\ j.op = "CHANGE" => j.set \in FlagSettings \ {"flags+"}
              /\ "deleted" \in j.acc.flags => "deleted" \in AfterSave(j).acc.flags
PROOF
  <1> DEFINE added == j.flags # {}
             due == IF added THEN "gadmin" \notin j.acc.flags ELSE j.acc.gadmin = {}
  <1>0. j.acc \in Account /\ j.uid \in Uids /\ JobShape(j)
    BY Holds, Phase
  <1>1. CASE j.op = "CHGADMIN" /\ j.at = "save" /\ due
    <2> DEFINE F == IF added THEN j.acc.flags \cup {"gadmin"} ELSE j.acc.flags \ {"gadmin"}
               a == [j.acc EXCEPT !.flags = F]
    <2>1. PICK n : n = [j EXCEPT !.at = "flag", !.acc = a]
      OBVIOUS
    <2>2. AfterSave(j) = n
      BY <1>0, <1>1, <2>1 DEF AfterSave, Account, User, JobShape
    <2>3. F \in SUBSET Flags /\ ("deleted" \in j.acc.flags => "deleted" \in F)
      BY <1>0, AccountFields DEF Flags
    <2> HIDE DEF F
    <2>4. a \in Account /\ a.flags = F
      BY <1>0, <2>3, FlagsKeep DEF Reflagged
    <2> HIDE DEF a
    <2>5. /\ JobShape(n) /\ n.op = "CHGADMIN" /\ n.at = "flag" /\ n.uid = j.uid /\ n.acc = a /\ n.set = j.set
      BY <1>0, <1>1, <2>1 DEF JobShape
    <2>6. j.set = None
      BY <1>1, Holds
    <2>7. JobOK(n)
      BY <1>0, <2>4, <2>5, <2>6 DEF JobOK
    <2> QED BY <1>1, <2>2, <2>3, <2>4, <2>5, <2>7 DEF Regroups, GroupWrites
  <1>n. j.op # "CHANGE" => j.set \notin FlagSettings
    BY Holds DEF AccountAssumption
  <1>4. CASE j.op = "CHANGE" /\ j.set \in FlagSettings \ {"flags+"} /\ j.at = "save" /\ j.uid = DefaultUser
    <2> DEFINE F == j.acc.flags \cup {"template"}
               a == [j.acc EXCEPT !.flags = F]
    <2>1. PICK n : n = [j EXCEPT !.at = "flag", !.acc = a]
      OBVIOUS
    <2>2. AfterSave(j) = n
      BY <1>0, <1>4, <2>1 DEF AfterSave, Account, User, JobShape
    <2>3. F \in SUBSET Flags /\ ("deleted" \in j.acc.flags => "deleted" \in F)
      BY <1>0, AccountFields DEF Flags
    <2> HIDE DEF F
    <2>4. a \in Account /\ a.flags = F
      BY <1>0, <2>3, FlagsKeep DEF Reflagged
    <2> HIDE DEF a
    <2>5. /\ JobShape(n) /\ n.op = "CHANGE" /\ n.at = "flag" /\ n.uid = j.uid /\ n.acc = a /\ n.set = j.set
          /\ n.val = j.val /\ n.flags = j.flags
      BY <1>0, <1>4, <2>1 DEF JobShape
    <2>6. Asked(j)
      BY <1>4, Phase
    <2>7. JobOK(n)
      BY <1>0, <1>4, <2>4, <2>5, <2>6 DEF JobOK, Asked
    <2> QED BY <1>4, <2>2, <2>3, <2>4, <2>5, <2>7 DEF Regroups, GroupWrites
  <1>2. CASE j.op = "CHANGE" /\ ~(j.set \in FlagSettings \ {"flags+"} /\ j.at = "save" /\ j.uid = DefaultUser)
    <2>1. PICK n : n = [j EXCEPT !.at = "load", !.uid = None, !.acc = None]
      OBVIOUS
    <2>2. AfterSave(j) = n
      BY <1>2, <2>1 DEF AfterSave
    <2>3. JobShape(n) /\ n.op = "CHANGE" /\ n.at = "load" /\ n.set = j.set /\ n.val = j.val /\ n.flags = j.flags
      BY <1>0, <1>2, <2>1 DEF JobShape
    <2>4. Asked(j)
      BY <1>2, Phase
    <2>5. JobOK(n)
      BY <2>3, <2>4 DEF JobOK, Asked
    <2> QED BY <2>2, <2>3, <2>5 DEF Regroups, GroupWrites
  <1>3. CASE j.op # "CHANGE" /\ ~(j.op = "CHGADMIN" /\ j.at = "save" /\ due)
    <2>1. AfterSave(j) = NoJob
      BY <1>3, <1>n DEF AfterSave
    <2> QED BY <2>1, IdleFits
  <1> QED BY <1>1, <1>2, <1>3, <1>4

\* A save keeps the invariant, even of a copy that was loaded before another's save.
LEMMA SaveKeeps ==
  ASSUME AccountAssumption, CommandsInv, NEW t \in Operators, Save(t)
  PROVE  CommandsInv'
PROOF
  <1>0. AccountInv /\ RightsInv /\ DangleInv /\ DeletedInv /\ DataTyped /\ JobsOK /\ NumsKept
    BY DEF CommandsInv, AccountInv
  <1>1. PICK j : j = job[t]
    OBVIOUS
  <1>2. PICK u : u = j.uid
    OBVIOUS
  <1>3. JobOK(j) /\ j.at \in {"save", "flag"}
    BY <1>0, <1>1 DEF Save, JobsOK
  <1>4. /\ users' = [users EXCEPT ![u] = IF @ = None THEN None ELSE SetFields(@, j)]
        /\ confirmed' = (IF j.set \in Settings /\ u \in Users THEN [confirmed EXCEPT ![u][j.set] = j.val] ELSE confirmed)
        /\ job' = [job EXCEPT ![t] = AfterSave(j)]
    BY <1>1, <1>2 DEF Save
  <1>5. /\ groups' = groups /\ credits' = credits /\ gids' = gids /\ names' = names /\ started' = started
        /\ raced' = raced /\ misnamed' = misnamed /\ minted' = minted
    BY DEF Save, cacheVars
  <1>6. j.acc \in Account /\ u \in Uids /\ (j.set \in Settings => j.val \in Int)
    <2>1. None \notin Settings
      BY DEF AccountAssumption
    <2> QED BY <1>2, <1>3, <2>1, Holds
  <1>7. PICK n : n = SetFields(users[u], j)
    OBVIOUS
  <1>8. u \in Users =>
         /\ n \in Account
         /\ n.num = (IF j.set \in Settings THEN [users[u].num EXCEPT ![j.set] = j.val] ELSE users[u].num)
         /\ n.pgid = (IF j.op \in GroupWrites THEN j.acc.pgid ELSE users[u].pgid)
         /\ n.sgids = (IF j.op \in GroupWrites THEN j.acc.sgids ELSE users[u].sgids)
         /\ n.gadmin = (IF j.op \in GroupWrites \/ (j.op = "CHGADMIN" /\ j.at = "save") THEN j.acc.gadmin ELSE users[u].gadmin)
         /\ n.flags = (IF WritesFlagsNow(j) THEN j.acc.flags ELSE users[u].flags)
    BY <1>0, <1>3, <1>7, KnownUser, SavedDocument
  <1>9. /\ \A v \in Uids : v # u => users'[v] = users[v]
        /\ users'[u] = (IF u \in Users THEN n ELSE None)
    <2>1. DOMAIN users = Uids
      BY <1>0 DEF DataTyped
    <2>2. users'[u] = IF users[u] = None THEN None ELSE n
      BY <1>4, <1>6, <1>7, <2>1
    <2>3. \A v \in Uids : v # u => users'[v] = users[v]
      BY <1>4, <2>1
    <2>4. u \in Users <=> users[u] # None
      BY <1>6 DEF Users
    <2> QED BY <2>2, <2>3, <2>4
  <1>10. users' \in [Uids -> Account \cup {None}]
    <2>1. \A v \in Uids : users'[v] \in Account \cup {None}
      BY <1>0, <1>8, <1>9 DEF DataTyped
    <2>2. users' = [v \in Uids |-> users'[v]]
      BY <1>0, <1>4 DEF DataTyped
    <2> QED BY <2>1, <2>2
  <1>11. Users' = Users
    <2>1. None \notin Account
      BY DEF AccountAssumption, Account
    <2>2. \A v \in Uids : users'[v] # None <=> users[v] # None
      BY <1>8, <1>9, <2>1 DEF Users
    <2> QED BY <2>2 DEF Users
  <1>12. confirmed' \in [Uids -> [Settings -> Int]]
    BY <1>0, <1>4, <1>6 DEF DataTyped
  <1>13. DataTyped'
    BY <1>0, <1>5, <1>10, <1>12 DEF DataTyped
  <1>14. NumsKept'
    <2> SUFFICES ASSUME NEW v \in Users PROVE users'[v].num = confirmed'[v]
      BY <1>11 DEF NumsKept
    <2>0. v \in Uids /\ users[v].num = confirmed[v] /\ confirmed \in [Uids -> [Settings -> Int]]
      BY <1>0, KnownUser DEF NumsKept, DataTyped
    <2>1. CASE v # u
      <3>1. confirmed'[v] = confirmed[v]
        BY <1>4, <2>0, <2>1
      <3> QED BY <1>9, <2>0, <2>1, <3>1
    <2>2. CASE v = u
      <3>1. confirmed'[u] = IF j.set \in Settings THEN [confirmed[u] EXCEPT ![j.set] = j.val] ELSE confirmed[u]
        BY <1>4, <2>0, <2>2
      <3> QED BY <1>8, <1>9, <2>0, <2>2, <3>1
    <2> QED BY <2>1, <2>2
  <1>15. Groups' = Groups
    BY <1>5 DEF Groups
  <1>16. PICK k : k = AfterSave(j)
    OBVIOUS
  <1>17. /\ JobOK(k)
         /\ k.at \in {"", "load", "flag"} /\ ~Regroups(k) /\ k.at # "insert" /\ k.op # "GRPDEL"
         /\ k.at = "flag" =>
              /\ k.op = j.op /\ j.op \in {"CHGADMIN", "CHANGE"} /\ j.at = "save" /\ k.uid = u /\ k.set = j.set
              /\ (j.op = "CHANGE" => j.set \in FlagSettings \ {"flags+"})
              /\ ("deleted" \in j.acc.flags => "deleted" \in k.acc.flags)
    BY <1>2, <1>3, <1>16, SavedNext
  <1>18. job'[t] = k
    BY <1>0, <1>4, <1>16 DEF JobsOK
  <1>19. CopyGroups(job[t])'
    BY <1>17, <1>18 DEF CopyGroups, Regroups
  <1>20. ~raced => CopyRights(job[t])'
    BY <1>17, <1>18 DEF CopyRights, Regroups
  <1>21. ~raced => CopyDeleted(job[t])'
    <2> SUFFICES ASSUME ~raced, k.at = "flag", WritesFlags(k) PROVE u \in Users /\ ("deleted" \in users'[u].flags => "deleted" \in k.acc.flags)
      BY <1>11, <1>17, <1>18 DEF CopyDeleted, WritesFlags
    <2>1. CopyDeleted(j) /\ WritesFlags(j)
      BY <1>0, <1>1, <1>17 DEF DeletedInv, WritesFlags
    <2>2. u \in Users /\ ("deleted" \in users[u].flags => "deleted" \in j.acc.flags)
      BY <1>2, <2>1 DEF CopyDeleted
    <2>3. users'[u].flags = IF j.op = "CHANGE" THEN j.acc.flags ELSE users[u].flags
      BY <1>8, <1>9, <1>17, <2>2 DEF WritesFlagsNow
    <2> QED BY <1>17, <2>2, <2>3
  <1>22. ~raced => \A v \in Users : RightsOK(users'[v])
    <2> SUFFICES ASSUME ~raced, NEW v \in Users PROVE RightsOK(users'[v])
      OBVIOUS
    <2>1. CASE v # u
      BY <1>0, <1>9, <2>1 DEF RightsInv, Users
    <2>2. CASE v = u
      <3>1. users'[v] = n /\ RightsOK(users[u])
        BY <1>0, <1>9, <2>2 DEF RightsInv
      <3>2. CopyRights(j)
        BY <1>0, <1>1 DEF RightsInv
      <3>3. CASE j.op \in GroupWrites
        <4>1. RightsOK(j.acc) /\ j.op # "CHGADMIN"
          BY <1>3, <3>2, <3>3, Phase DEF CopyRights, Regroups, GroupWrites
        <4>2. n.pgid = j.acc.pgid /\ n.sgids = j.acc.sgids /\ n.gadmin = j.acc.gadmin
          BY <1>8, <2>2, <3>3
        <4> QED BY <3>1, <4>1, <4>2 DEF RightsOK, Member
      <3>4. CASE j.op = "CHGADMIN" /\ j.at = "save"
        <4>0. "CHGADMIN" \notin GroupWrites
          BY DEF GroupWrites
        <4>1. RightsOK(j.acc) /\ users[u].pgid = j.acc.pgid /\ users[u].sgids = j.acc.sgids
          BY <1>2, <3>2, <3>4 DEF CopyRights
        <4>2. n.pgid = j.acc.pgid /\ n.sgids = j.acc.sgids /\ n.gadmin = j.acc.gadmin
          BY <1>8, <2>2, <3>4, <4>0, <4>1
        <4> QED BY <3>1, <4>1, <4>2 DEF RightsOK, Member
      <3>5. CASE j.op \notin GroupWrites /\ ~(j.op = "CHGADMIN" /\ j.at = "save")
        <4>2. n.pgid = users[u].pgid /\ n.sgids = users[u].sgids /\ n.gadmin = users[u].gadmin
          BY <1>8, <2>2, <3>5
        <4> QED BY <3>1, <4>2 DEF RightsOK, Member
      <3> QED BY <3>3, <3>4, <3>5
    <2> QED BY <2>1, <2>2
  <1>23. ~raced /\ ~misnamed => \A v \in Users : Member(users'[v]) \subseteq Groups
    <2> SUFFICES ASSUME ~raced, ~misnamed, NEW v \in Users PROVE Member(users'[v]) \subseteq Groups
      OBVIOUS
    <2>1. CASE v # u
      BY <1>0, <1>9, <2>1 DEF DangleInv, Users
    <2>2. CASE v = u
      <3>1. users'[v] = n /\ Member(users[u]) \subseteq Groups
        BY <1>0, <1>9, <2>2 DEF DangleInv
      <3>3. CASE j.op \in GroupWrites
        <4>1. Member(j.acc) \subseteq Groups
          <5>1. CopyGroups(j) /\ Regroups(j)
            BY <1>0, <1>1, <1>3, <3>3, Phase DEF DangleInv, Regroups, GroupWrites
          <5> QED BY <5>1 DEF CopyGroups
        <4>2. n.pgid = j.acc.pgid /\ n.sgids = j.acc.sgids
          BY <1>8, <2>2, <3>3
        <4> QED BY <3>1, <4>1, <4>2 DEF Member
      <3>4. CASE j.op \notin GroupWrites
        <4>2. n.pgid = users[u].pgid /\ n.sgids = users[u].sgids
          BY <1>8, <2>2, <3>4
        <4> QED BY <3>1, <4>2 DEF Member
      <3> QED BY <3>3, <3>4
    <2> QED BY <2>1, <2>2
  <1>24. job[t].op # "idle"
    BY <1>1, <1>3, Phase DEF NoJob
  <1>25. job' = [job EXCEPT ![t] = k]
    BY <1>4, <1>16
  <1> QED BY <1>5, <1>11, <1>13, <1>14, <1>15, <1>17, <1>19, <1>20, <1>21, <1>22, <1>23, <1>24, <1>25, HandlerStep

\* CHANGE loads the next user of its list and keeps the invariant.
LEMMA ChangeLoadKeeps ==
  ASSUME AccountAssumption, CommandsInv, NEW t \in Operators, ChangeLoad(t)
  PROVE  CommandsInv'
PROOF
  <1>0. AccountInv /\ RightsInv /\ DangleInv /\ DeletedInv /\ DataTyped /\ JobsOK /\ NumsKept
    BY DEF CommandsInv, AccountInv
  <1>1. PICK j : j = job[t]
    OBVIOUS
  <1>2. PICK u : u = Head(j.todo)
    OBVIOUS
  <1>3. JobOK(j) /\ j.at = "load" /\ JobShape(j) /\ j.op = "CHANGE" /\ Asked(j)
    <2>1. JobOK(j) /\ j.at = "load"
      BY <1>0, <1>1 DEF ChangeLoad, JobsOK
    <2> QED BY <2>1, Phase
  <1>4. PICK k : k = IF j.todo = <<>> THEN NoJob
                     ELSE IF u \notin Users THEN [j EXCEPT !.todo = Tail(@)]
                     ELSE IF Refuses(t, j, u) THEN NoJob
                     ELSE [j EXCEPT !.at = "save", !.uid = u, !.acc = Changed(j, users[u]), !.todo = Tail(@)]
    OBVIOUS
  <1>5. job' = [job EXCEPT ![t] = k]
    BY <1>1, <1>2, <1>4 DEF ChangeLoad
  <1>6. /\ users' = users /\ groups' = groups /\ credits' = credits /\ gids' = gids /\ names' = names
        /\ started' = started /\ raced' = raced /\ misnamed' = misnamed /\ minted' = minted /\ confirmed' = confirmed
    BY DEF ChangeLoad, cacheVars, dataVars, histVars
  <1>7. Users' = Users /\ Groups' = Groups
    BY <1>6 DEF Users, Groups
  <1>8. /\ JobOK(k) /\ ~Regroups(k) /\ k.at # "insert" /\ k.op \notin {"GRPDEL", "CHGADMIN"}
        /\ WritesFlags(k) => /\ k.uid \in Users
                             /\ "deleted" \in users[k.uid].flags => "deleted" \in k.acc.flags
    <2>1. CASE k = NoJob
      BY <2>1, IdleFits
    <2>2. CASE k = [j EXCEPT !.todo = Tail(@)]
      <3>1. /\ JobShape(k) /\ k.op = "CHANGE" /\ k.at = "load" /\ k.set = j.set /\ k.val = j.val /\ k.flags = j.flags
        BY <1>3, <2>2 DEF JobShape
      <3>2. JobOK(k)
        BY <1>3, <3>1 DEF JobOK, Asked
      <3> QED BY <3>1, <3>2 DEF Regroups, WritesFlags, GroupWrites
    <2>3. CASE u \in Users /\ k = [j EXCEPT !.at = "save", !.uid = u, !.acc = Changed(j, users[u]), !.todo = Tail(@)]
      <3> DEFINE d == users[u]
      <3>1. PICK a : a = Changed(j, d)
        OBVIOUS
      <3>2. /\ JobShape(k) /\ k.op = "CHANGE" /\ k.at = "save" /\ k.set = j.set /\ k.val = j.val /\ k.flags = j.flags
            /\ k.uid = u /\ k.acc = a
        BY <1>3, <2>3, <3>1 DEF JobShape
      <3>3. d \in Account /\ u \in Uids
        BY <1>0, <2>3, KnownUser
      <3> HIDE DEF d
      <3>4. /\ a \in Account /\ (j.set \in Settings => a.num[j.set] = j.val)
            /\ (j.set \in {"flags+", "flags-"} => ("deleted" \in d.flags => "deleted" \in a.flags))
        <4>0. (Settings \cup {None}) \cap ({"wkly_allotment"} \cup RatioMap \cup FlagSettings) = {}
          BY DEF AccountAssumption
        <4>f. j.flags \in SUBSET Flags /\ "deleted" \notin j.flags /\ j.val \in Int
          BY <1>3 DEF Asked, Flags
        <4>1. CASE j.set = "ratio"
          <5>1. a = [d EXCEPT !.ratio = j.val]
            BY <3>1, <4>1 DEF Changed
          <5> QED BY <3>3, <4>0, <4>1, <4>f, <5>1 DEF Account, User, RatioMap
        <4>7. CASE j.set = "sratio"
          <5>1. a = [d EXCEPT !.sratio = j.val]
            BY <3>1, <4>7 DEF Changed
          <5> QED BY <3>3, <4>0, <4>7, <4>f, <5>1 DEF Account, User, RatioMap
        <4>2. CASE j.set = "wkly_allotment"
          <5>1. a = [d EXCEPT !.allot = j.val]
            BY <3>1, <4>2 DEF Changed
          <5> QED BY <3>3, <4>0, <4>2, <4>f, <5>1 DEF Account, User
        <4>3. CASE j.set = "flags+"
          <5>1. a = AddFlags(d, j.flags)
            BY <3>1, <4>3 DEF Changed
          <5>2. Reflagged(d, a, d.flags \cup j.flags)
            BY <3>3, <4>f, <5>1, FlagsKeep
          <5> QED BY <4>0, <4>3, <5>2 DEF Reflagged, FlagSettings
        <4>4. CASE j.set = "flags-"
          <5>1. a = DelFlags(d, j.flags)
            BY <3>1, <4>4 DEF Changed
          <5>2. Reflagged(d, a, d.flags \ j.flags)
            BY <3>3, <4>f, <5>1, FlagsKeep
          <5> QED BY <4>0, <4>4, <4>f, <5>2 DEF Reflagged, FlagSettings
        <4>5. CASE j.set = "flags="
          <5>1. a = [d EXCEPT !.flags = j.flags]
            BY <3>1, <4>5 DEF Changed
          <5>2. Reflagged(d, a, j.flags)
            BY <3>3, <4>f, <5>1, FlagsKeep
          <5> QED BY <4>0, <4>5, <5>2 DEF Reflagged, FlagSettings
        <4>6. CASE j.set \in Settings
          <5>1. a = [d EXCEPT !.num[j.set] = j.val]
            BY <3>1, <4>0, <4>6 DEF Changed, RatioMap, FlagSettings
          <5> QED BY <3>3, <4>0, <4>6, <4>f, <5>1 DEF Account, User
        <4> QED BY <1>3, <4>1, <4>2, <4>3, <4>4, <4>5, <4>6, <4>7 DEF Asked, RatioMap, FlagSettings
      <3>5. JobOK(k)
        BY <1>3, <3>2, <3>3, <3>4 DEF JobOK, Asked
      <3> QED BY <2>3, <3>2, <3>4, <3>5 DEF Regroups, WritesFlags, GroupWrites, d
    <2> QED BY <1>4, <2>1, <2>2, <2>3
  <1>9. job'[t] = k
    BY <1>0, <1>5 DEF JobsOK
  <1>10. CopyRights(job[t])' /\ CopyGroups(job[t])'
    BY <1>8, <1>9 DEF CopyRights, CopyGroups, Regroups
  <1>11. CopyDeleted(job[t])'
    BY <1>6, <1>7, <1>8, <1>9 DEF CopyDeleted, WritesFlags
  <1>12. DataTyped' /\ NumsKept'
    BY <1>0, <1>6, <1>7 DEF DataTyped, NumsKept
  <1>13. /\ ~raced => \A v \in Users : RightsOK(users'[v])
         /\ ~raced /\ ~misnamed => \A v \in Users : Member(users'[v]) \subseteq Groups
    BY <1>0, <1>6 DEF RightsInv, DangleInv
  <1>14. job[t].op # "idle"
    BY <1>1, <1>3
  <1> QED BY <1>5, <1>6, <1>7, <1>8, <1>10, <1>11, <1>12, <1>13, <1>14, HandlerStep

\* The uid of a new user is not taken.
LEMMA NewUid ==
  ASSUME AccountAssumption, Max(Users) + 1 \in Uids
  PROVE  Max(Users) + 1 \notin Users
PROOF
  <1> SUFFICES ASSUME Max(Users) + 1 \in Users PROVE FALSE
    OBVIOUS
  <1>1. MaxUid \in Nat /\ Users \in SUBSET (0..MaxUid) /\ Users # {}
    BY DEF AccountAssumption, Users, Uids
  <1>2. Max(Users) \in Users /\ \A x \in Users : x <= Max(Users)
    BY <1>1, LastNumber
  <1>3. PICK m : m = Max(Users)
    OBVIOUS
  <1>4. m + 1 <= m
    BY <1>2, <1>3
  <1>5. m \in 0..MaxUid
    BY <1>1, <1>2, <1>3
  <1>6. m \in Int
    BY <1>1, <1>5
  <1> QED BY <1>4, <1>6

\* Inserting a new user keeps the invariant.
LEMMA InsertKeeps ==
  ASSUME AccountAssumption, CommandsInv, NEW t \in Operators, Insert(t)
  PROVE  CommandsInv'
PROOF
  <1>0. AccountInv /\ RightsInv /\ DangleInv /\ DeletedInv /\ DataTyped /\ JobsOK /\ NumsKept
    BY DEF CommandsInv, AccountInv
  <1>1. PICK j : j = job[t]
    OBVIOUS
  <1>2. PICK u : u = Max(Users) + 1
    OBVIOUS
  <1>3. JobOK(j) /\ j.at = "insert" /\ u \in Uids
    BY <1>0, <1>1, <1>2 DEF Insert, JobsOK
  <1>4. /\ j.op = "ADDUSER" /\ JobShape(j) /\ j.acc \in Account /\ j.gid \in Gids \cup {-1}
        /\ j.val \in Int \cup {None} /\ j.set = None
    <2>1. NoJob.at = ""
      BY DEF NoJob
    <2> QED BY <1>3, <2>1 DEF JobOK
  <1>5. u \notin Users
    BY <1>2, <1>3, NewUid
  <1>6. PICK k : k = IF j.gid = -1 \/ j.acc.pgid = j.gid THEN NoJob
                     ELSE [j EXCEPT !.at = "save", !.uid = u, !.acc = SetPrimaryGID(j.acc, j.gid)]
    OBVIOUS
  <1>7. /\ users' = [users EXCEPT ![u] = j.acc] /\ credits' = [credits EXCEPT ![u] = j.val]
        /\ confirmed' = [confirmed EXCEPT ![u] = j.acc.num] /\ job' = [job EXCEPT ![t] = k]
        /\ minted' = minted + Amount(j.val)
    BY <1>1, <1>2, <1>6 DEF Insert
  <1>8. /\ groups' = groups /\ gids' = gids /\ names' = names
        /\ started' = started /\ raced' = raced /\ misnamed' = misnamed
    BY DEF Insert, cacheVars
  <1>9. /\ \A v \in Uids : v # u => users'[v] = users[v] /\ confirmed'[v] = confirmed[v]
        /\ users'[u] = j.acc /\ confirmed'[u] = j.acc.num
    BY <1>0, <1>3, <1>7 DEF DataTyped
  <1>10. None \notin Account
    BY DEF AccountAssumption, Account
  <1>11. Users' = Users \cup {u}
    BY <1>3, <1>4, <1>9, <1>10 DEF Users
  <1>12. Groups' = Groups
    BY <1>8 DEF Groups
  <1>13. DataTyped'
    <2>1. users' \in [Uids -> Account \cup {None}]
      BY <1>0, <1>3, <1>4, <1>7 DEF DataTyped
    <2>2. credits' \in [Uids -> Int \cup {None}]
      BY <1>0, <1>3, <1>4, <1>7 DEF DataTyped
    <2>3. confirmed' \in [Uids -> [Settings -> Int]]
      <3>1. j.acc.num \in [Settings -> Int]
        BY <1>4, AccountFields
      <3> QED BY <1>0, <1>3, <1>7, <3>1 DEF DataTyped
    <2>4. minted' \in Int
      BY <1>0, <1>4, <1>7 DEF Amount, DataTyped
    <2> QED BY <1>0, <1>8, <2>1, <2>2, <2>3, <2>4 DEF DataTyped
  <1>14. NumsKept'
    BY <1>0, <1>9, <1>11 DEF NumsKept, Users
  <1>15. /\ JobOK(k) /\ k.at # "insert" /\ k.op # "GRPDEL" /\ ~WritesFlags(k) /\ k.op # "CHGADMIN"
         /\ (k.op \in GroupWrites => Regrouped(j.acc, k.acc, Member(j.acc) \cup {j.gid}) /\ j.gid \in Gids)
    <2>1. CASE j.gid = -1 \/ j.acc.pgid = j.gid
      BY <1>6, <2>1, IdleFits DEF GroupWrites
    <2>2. CASE ~(j.gid = -1 \/ j.acc.pgid = j.gid)
      <3>1. PICK a : a = SetPrimaryGID(j.acc, j.gid)
        OBVIOUS
      <3>2. JobShape(k) /\ k.op = "ADDUSER" /\ k.at = "save" /\ k.uid = u /\ k.acc = a /\ k.set = None
        BY <1>4, <1>6, <2>2, <3>1 DEF JobShape
      <3>3. MaxGid \in Nat /\ j.gid \in Gids
        BY <1>4, <2>2 DEF AccountAssumption
      <3>4. Regrouped(j.acc, a, Member(j.acc) \cup {j.gid})
        BY <1>4, <3>1, <3>3, SetPrimaryGIDKeeps
      <3>5. JobOK(k)
        BY <1>3, <3>2, <3>4 DEF JobOK, Regrouped, UserWrites, GroupWrites
      <3> QED BY <3>2, <3>3, <3>4, <3>5 DEF WritesFlags
    <2> QED BY <2>1, <2>2
  <1>16. job'[t] = k
    BY <1>0, <1>7 DEF JobsOK
  <1>17. ~raced => CopyRights(j)
    BY <1>0, <1>1 DEF RightsInv
  <1>18. ~raced => RightsOK(j.acc)
    BY <1>3, <1>4, <1>17 DEF CopyRights, Regroups, GroupWrites
  <1>19. ~raced /\ ~misnamed => Member(j.acc) \subseteq Groups /\ j.gid \in Groups \cup {-1}
    <2>1. ~raced /\ ~misnamed => CopyGroups(j)
      BY <1>0, <1>1 DEF DangleInv
    <2> QED BY <1>3, <1>4, <2>1 DEF CopyGroups, Regroups, GroupWrites
  <1>20. ~raced => CopyRights(job[t])'
    <2> SUFFICES ASSUME ~raced, k.op \in GroupWrites PROVE RightsOK(k.acc)
      BY <1>8, <1>15, <1>16 DEF CopyRights, Regroups, RightsOK, Member
    <2> QED BY <1>15, <1>18 DEF Regrouped, RightsOK
  <1>21. CopyDeleted(job[t])'
    BY <1>15, <1>16 DEF CopyDeleted, WritesFlags
  <1>22. ~raced /\ ~misnamed => CopyGroups(job[t])'
    <2> SUFFICES ASSUME ~raced, ~misnamed, k.op \in GroupWrites PROVE Member(k.acc) \subseteq Groups
      BY <1>12, <1>15, <1>16 DEF CopyGroups, Regroups, Member
    <2>1. -1 \notin Gids
      BY GidsNotMinus DEF AccountAssumption
    <2> QED BY <1>15, <1>19, <2>1 DEF Regrouped
  <1>23. ~raced => \A v \in Users' : RightsOK(users'[v])
    BY <1>0, <1>9, <1>11, <1>18 DEF RightsInv, Users
  <1>24. ~raced /\ ~misnamed => \A v \in Users' : Member(users'[v]) \subseteq Groups'
    BY <1>0, <1>9, <1>11, <1>12, <1>19 DEF DangleInv, Users
  <1>25. job[t].op # "idle"
    BY <1>1, <1>4
  <1> QED BY <1>7, <1>8, <1>13, <1>14, <1>15, <1>20, <1>21, <1>22, <1>23, <1>24, <1>25, HandlerStep

\* Erasing a purged user or a deleted group keeps the invariant.
LEMMA EraseKeeps ==
  ASSUME AccountAssumption, CommandsInv, NEW t \in Operators, Erase(t)
  PROVE  CommandsInv'
PROOF
  <1>0. AccountInv /\ RightsInv /\ DangleInv /\ DeletedInv /\ DataTyped /\ JobsOK /\ NumsKept
    BY DEF CommandsInv, AccountInv
  <1>1. PICK j : j = job[t]
    OBVIOUS
  <1>2. JobOK(j) /\ j.at = "remove" /\ job' = [job EXCEPT ![t] = NoJob]
    BY <1>0, <1>1 DEF Erase, JobsOK
  <1>3. j.op \in {"PURGE", "GRPDEL"} /\ (j.op = "PURGE" => j.uid \in Uids) /\ (j.op = "GRPDEL" => j.gid \in Gids)
    <2>1. NoJob.at = ""
      BY DEF NoJob
    <2> QED BY <1>2, <2>1 DEF JobOK, UserWrites, GroupWrites
  <1>4. /\ gids' = gids /\ names' = names /\ confirmed' = confirmed
        /\ started' = started /\ raced' = raced /\ misnamed' = misnamed
    BY DEF Erase, cacheVars
  <1>5. job'[t] = NoJob
    BY <1>0, <1>2 DEF JobsOK
  <1>6. CopyRights(job[t])' /\ CopyDeleted(job[t])' /\ CopyGroups(job[t])'
    BY <1>5, IdleFits DEF CopyRights, CopyDeleted, CopyGroups, Regroups, WritesFlags
  <1>7. job[t].op # "idle" /\ JobOK(NoJob)
    BY <1>1, <1>3, IdleFits
  <1>8. CASE j.op = "PURGE"
    <2>1. /\ users' = [users EXCEPT ![j.uid] = None] /\ credits' = [credits EXCEPT ![j.uid] = None]
          /\ minted' = minted - Amount(credits[j.uid]) /\ groups' = groups
      BY <1>1, <1>8 DEF Erase
    <2>2. Users' \subseteq Users /\ Groups' = Groups /\ \A v \in Users' : users'[v] = users[v]
      BY <1>0, <1>3, <1>8, <2>1 DEF Users, Groups, DataTyped
    <2>3. minted' \in Int
      BY <1>0, <1>3, <1>8, <2>1 DEF DataTyped, Amount
    <2>4. users' \in [Uids -> Account \cup {None}] /\ credits' \in [Uids -> Int \cup {None}]
      BY <1>0, <1>3, <1>8, <2>1 DEF DataTyped
    <2>5. DataTyped'
      BY <1>0, <1>4, <2>1, <2>3, <2>4 DEF DataTyped
    <2>6. NumsKept'
      BY <1>0, <1>4, <2>2 DEF NumsKept
    <2>7. /\ ~raced => \A v \in Users' : RightsOK(users'[v])
          /\ ~raced /\ ~misnamed => \A v \in Users' : Member(users'[v]) \subseteq Groups'
      BY <1>0, <2>2 DEF RightsInv, DangleInv
    <2> QED BY <1>2, <1>4, <1>6, <1>7, <2>5, <2>6, <2>7, HandlerStep
  <1>9. CASE j.op = "GRPDEL"
    <2>1. users' = users /\ credits' = credits /\ minted' = minted /\ groups' = [groups EXCEPT ![j.gid] = None]
      BY <1>1, <1>9 DEF Erase
    <2>2. Users' = Users /\ Groups \subseteq Groups' \cup {j.gid}
      BY <1>0, <1>3, <1>9, <2>1 DEF Users, Groups, DataTyped
    <2>4. groups' \in [Gids -> Group \cup {None}]
      BY <1>0, <1>3, <1>9, <2>1 DEF DataTyped
    <2>5. DataTyped'
      BY <1>0, <1>4, <2>1, <2>4 DEF DataTyped
    <2>6. NumsKept'
      BY <1>0, <1>4, <2>1, <2>2 DEF NumsKept
    <2>7. ~raced => \A v \in Users' : RightsOK(users'[v])
      BY <1>0, <2>1, <2>2 DEF RightsInv
    <2>8. ~raced /\ ~misnamed => \A v \in Users' : Member(users'[v]) \subseteq Groups'
      <3> SUFFICES ASSUME ~raced, ~misnamed, NEW v \in Users PROVE Member(users[v]) \subseteq Groups'
        BY <2>1, <2>2
      <3>1. CopyGroups(j) /\ Member(users[v]) \subseteq Groups
        BY <1>0, <1>1 DEF DangleInv
      <3>2. j.gid \notin Member(users[v])
        BY <1>9, <3>1 DEF CopyGroups
      <3> QED BY <2>2, <3>1, <3>2
    <2> QED BY <1>2, <1>4, <1>6, <1>7, <2>5, <2>6, <2>7, <2>8, HandlerStep
  <1> QED BY <1>3, <1>8, <1>9

\* Creating and saving a group keep the invariant.
LEMMA GroupWriteKeeps ==
  ASSUME AccountAssumption, CommandsInv, NEW t \in Operators, Create(t) \/ SaveGroup(t)
  PROVE  CommandsInv'
PROOF
  <1>0. AccountInv /\ RightsInv /\ DangleInv /\ DeletedInv /\ DataTyped /\ JobsOK /\ NumsKept
    BY DEF CommandsInv, AccountInv
  <1>1. PICK j : j = job[t]
    OBVIOUS
  <1>2. JobOK(j) /\ j.at \in {"create", "group"} /\ job' = [job EXCEPT ![t] = NoJob]
    BY <1>0, <1>1 DEF Create, SaveGroup, JobsOK
  <1>3. /\ j.at = "create" => j.acc \in Group /\ j.set \in GNames
        /\ j.at = "group" => /\ j.op = "GRPREN" \/ (j.op = "GRPCHANGE" /\ j.set \in Limits /\ j.val \in Int)
                             /\ j.gid \in Gids /\ (j.op = "GRPREN" => j.set \in GNames)
    <2>1. NoJob.at = ""
      BY DEF NoJob
    <2> QED BY <1>2, <2>1 DEF JobOK, UserWrites, GroupWrites
  <1>4. /\ gids' = gids /\ names' = names /\ confirmed' = confirmed /\ users' = users /\ credits' = credits
        /\ minted' = minted /\ started' = started /\ raced' = raced /\ misnamed' = misnamed
    BY DEF Create, SaveGroup, cacheVars, histVars
  <1>5. job'[t] = NoJob
    BY <1>0, <1>2 DEF JobsOK
  <1>6. CopyRights(job[t])' /\ CopyDeleted(job[t])' /\ CopyGroups(job[t])'
    BY <1>5, IdleFits DEF CopyRights, CopyDeleted, CopyGroups, Regroups, WritesFlags
  <1>7. job[t].op # "idle" /\ JobOK(NoJob)
    <2>1. j.op # "idle"
      BY <1>2, Phase
    <2> QED BY <1>1, <2>1, IdleFits
  <1>8. groups' \in [Gids -> Group \cup {None}] /\ Groups \subseteq Groups'
    <2>n. None \notin Group /\ groups \in [Gids -> Group \cup {None}]
      BY <1>0 DEF AccountAssumption, DataTyped
    <2>1. CASE groups' = groups
      BY <1>0, <2>1 DEF DataTyped, Groups
    <2>2. CASE Create(t) /\ groups' # groups
      <3>1. PICK g : g = Max(Groups) + 1
        OBVIOUS
      <3>2. g \in Gids /\ groups' = [groups EXCEPT ![g] = [j.acc EXCEPT !.name = j.set]] /\ j.at = "create"
        BY <1>1, <2>2, <3>1 DEF Create
      <3>3. PICK b : b = [j.acc EXCEPT !.name = j.set]
        OBVIOUS
      <3>4. b \in Group
        BY <1>3, <3>2, <3>3 DEF Group
      <3>5. groups' \in [Gids -> Group \cup {None}]
        BY <2>n, <3>2, <3>3, <3>4
      <3>6. \A h \in Gids : groups[h] # None => groups'[h] # None
        BY <2>n, <3>2, <3>3, <3>4
      <3> QED BY <3>5, <3>6 DEF Groups
    <2>3. CASE SaveGroup(t) /\ groups' # groups
      <3>1. PICK g : g = j.gid
        OBVIOUS
      <3>2. /\ j.at = "group" /\ g \in Groups
            /\ groups' = IF j.op = "GRPREN" THEN [groups EXCEPT ![g].name = j.set] ELSE [groups EXCEPT ![g].limit[j.set] = j.val]
        BY <1>1, <2>3, <3>1 DEF SaveGroup
      <3>3. groups[g] \in Group /\ g \in Gids
        BY <1>0, <3>2, KnownGroup
      <3>4. PICK b : b = IF j.op = "GRPREN" THEN [groups[g] EXCEPT !.name = j.set] ELSE [groups[g] EXCEPT !.limit[j.set] = j.val]
        OBVIOUS
      <3>5. b \in Group
        <4>1. CASE j.op = "GRPREN"
          BY <1>3, <3>2, <3>3, <3>4, <4>1 DEF Group
        <4>2. CASE j.op # "GRPREN"
          BY <1>3, <3>2, <3>3, <3>4, <4>2 DEF Group
        <4> QED BY <4>1, <4>2
      <3>6. groups' = [groups EXCEPT ![g] = b]
        BY <2>n, <3>2, <3>3, <3>4
      <3>7. groups' \in [Gids -> Group \cup {None}]
        BY <2>n, <3>3, <3>5, <3>6
      <3>8. \A h \in Gids : groups[h] # None => groups'[h] # None
        BY <2>n, <3>3, <3>5, <3>6
      <3> QED BY <3>7, <3>8 DEF Groups
    <2> QED BY <2>1, <2>2, <2>3
  <1>9. DataTyped'
    BY <1>0, <1>4, <1>8 DEF DataTyped
  <1>10. Users' = Users
    BY <1>4 DEF Users
  <1>11. NumsKept'
    BY <1>0, <1>4, <1>10 DEF NumsKept
  <1>12. /\ ~raced => \A v \in Users' : RightsOK(users'[v])
         /\ ~raced /\ ~misnamed => \A v \in Users' : Member(users'[v]) \subseteq Groups'
    BY <1>0, <1>4, <1>8, <1>10 DEF RightsInv, DangleInv
  <1> QED BY <1>2, <1>4, <1>6, <1>7, <1>9, <1>11, <1>12, HandlerStep


-----------------------------------------------------------------------------
(* What is left of a step, and the theorem *)

\* Credits, increments and caches move without a handler.
LEMMA QuietKeeps ==
  ASSUME CommandsInv, DataTyped', users' = users, groups' = groups, job' = job, raced' = raced,
         misnamed' = misnamed, confirmed' = confirmed
  PROVE  CommandsInv'
PROOF
  <1>1. Users' = Users /\ Groups' = Groups
    BY DEF Users, Groups
  <1>2. JobsOK' /\ NumsKept'
    BY <1>1 DEF CommandsInv, AccountInv, JobsOK, NumsKept
  <1>3. RightsInv' /\ DangleInv' /\ DeletedInv'
    BY <1>1 DEF CommandsInv, RightsInv, DangleInv, DeletedInv, CopyRights, CopyGroups, CopyDeleted
  <1> QED BY <1>2, <1>3 DEF CommandsInv, AccountInv

\* GIVE and TAKE change neither accounts nor groups.
LEMMA CreditStepKeeps ==
  ASSUME AccountAssumption, CommandsInv, IncrInv, NEW t \in Operators, NEW u \in Uids, NEW k \in Values,
         Give(t, u, k) \/ Take(t, u, k)
  PROVE  CommandsInv'
PROOF
  <1>0. DataTyped /\ k \in Int /\ 2 \in Uids
    BY DEF CommandsInv, AccountInv, AccountAssumption
  <1>1. /\ users' = users /\ groups' = groups /\ job' = job /\ raced' = raced /\ misnamed' = misnamed
        /\ confirmed' = confirmed /\ gids' = gids /\ names' = names /\ started' = started + 1
    BY DEF Give, Take, cacheVars
  <1>2. /\ credits' \in [Uids -> Int \cup {None}] /\ minted' \in Int
    <2>1. CASE credits' = credits /\ (minted' = minted \/ minted' = minted + k)
      BY <1>0, <2>1 DEF DataTyped
    <2>2. CASE Give(t, u, k) /\ credits' # credits
      <3>1. HasElement(2) /\ credits' = [credits EXCEPT ![2] = @ - k] /\ minted' = minted
        BY <2>2 DEF Give
      <3>2. credits[2] \in Int
        BY <1>0, <3>1 DEF HasElement, DataTyped
      <3>3. credits[2] - k \in Int
        BY <1>0, <3>2
      <3> QED BY <1>0, <3>1, <3>3 DEF DataTyped
    <2>3. CASE Take(t, u, k) /\ credits' # credits
      <3>1. HasElement(u) /\ credits' = [credits EXCEPT ![u] = @ - k] /\ minted' = minted - k
        BY <2>3 DEF Take
      <3>2. credits[u] \in Int
        BY <1>0, <3>1 DEF HasElement, DataTyped
      <3>3. credits[u] - k \in Int
        BY <1>0, <3>2
      <3> QED BY <1>0, <3>1, <3>3 DEF DataTyped
    <2>4. CASE Give(t, u, k) /\ credits' = credits
      BY <1>0, <2>4 DEF Give, DataTyped
    <2>5. CASE Take(t, u, k) /\ credits' = credits
      BY <1>0, <2>5 DEF Take, DataTyped
    <2> QED BY <2>2, <2>3, <2>4, <2>5
  <1>3. DataTyped'
    BY <1>0, <1>1, <1>2 DEF DataTyped
  <1> QED BY <1>1, <1>3, QuietKeeps

\* An increment of credits changes neither accounts nor groups.
LEMMA IncrementKeeps ==
  ASSUME AccountAssumption, CommandsInv, IncrInv, NEW i \in incr, IncrCredits(i)
  PROVE  CommandsInv'
PROOF
  <1>0. DataTyped
    BY DEF CommandsInv, AccountInv
  <1>1. /\ users' = users /\ groups' = groups /\ job' = job /\ raced' = raced /\ misnamed' = misnamed
        /\ confirmed' = confirmed /\ gids' = gids /\ names' = names /\ started' = started /\ minted' = minted
    BY DEF IncrCredits, cacheVars, histVars
  <1>2. i \in Increments
    BY DEF IncrInv
  <1>3. i.uid \in Uids /\ i.k \in Int
    BY <1>2 DEF Increments
  <1>4. credits' = credits \/ credits' = [credits EXCEPT ![i.uid] = IF @ = None THEN i.k ELSE @ + i.k]
    BY DEF IncrCredits
  <1>5. credits' \in [Uids -> Int \cup {None}]
    <2>1. CASE credits' = credits
      BY <1>0, <2>1 DEF DataTyped
    <2>2. CASE credits' = [credits EXCEPT ![i.uid] = IF @ = None THEN i.k ELSE @ + i.k]
      <3>1. (IF credits[i.uid] = None THEN i.k ELSE credits[i.uid] + i.k) \in Int
        BY <1>0, <1>3 DEF DataTyped
      <3> QED BY <1>0, <1>3, <2>2, <3>1 DEF DataTyped
    <2> QED BY <1>4, <2>1, <2>2
  <1>6. DataTyped'
    BY <1>0, <1>1, <1>5 DEF DataTyped
  <1> QED BY <1>1, <1>6, QuietKeeps

\* The replicator changes only the caches.
LEMMA ReplicateKeeps ==
  ASSUME AccountAssumption, CommandsInv,
         (\E g \in Gids : ReplicateGroup(g)) \/ (\E u \in Uids : ReplicateUser(u))
  PROVE  CommandsInv'
PROOF
  <1>0. DataTyped
    BY DEF CommandsInv, AccountInv
  <1>1. /\ users' = users /\ groups' = groups /\ job' = job /\ raced' = raced /\ misnamed' = misnamed
        /\ confirmed' = confirmed /\ credits' = credits /\ started' = started /\ minted' = minted
    BY DEF ReplicateGroup, ReplicateUser, dataVars, histVars
  <1>2. gids' \in [GNames -> Gids \cup {-1}] /\ names' \in [Gids -> GNames \cup {None}]
    <2>1. ASSUME NEW g \in Gids, ReplicateGroup(g)
          PROVE  gids' \in [GNames -> Gids \cup {-1}] /\ names' \in [Gids -> GNames \cup {None}]
      <3>1. /\ gids' = (IF g \in Groups THEN [gids EXCEPT ![groups[g].name] = g]
                        ELSE IF names[g] = None THEN gids ELSE [gids EXCEPT ![names[g]] = -1])
            /\ names' = [names EXCEPT ![g] = IF g \in Groups THEN groups[g].name ELSE None]
        BY <2>1 DEF ReplicateGroup
      <3>2. g \in Groups => groups[g].name \in GNames
        BY <1>0, KnownGroup DEF Group
      <3>3. gids' \in [GNames -> Gids \cup {-1}]
        BY <1>0, <3>1, <3>2 DEF DataTyped
      <3>4. names' \in [Gids -> GNames \cup {None}]
        BY <1>0, <3>1, <3>2 DEF DataTyped
      <3> QED BY <3>3, <3>4
    <2>2. ASSUME NEW u \in Uids, ReplicateUser(u)
          PROVE  gids' \in [GNames -> Gids \cup {-1}] /\ names' \in [Gids -> GNames \cup {None}]
      BY <1>0, <2>2 DEF ReplicateUser, DataTyped
    <2> QED BY <2>1, <2>2
  <1>3. DataTyped'
    BY <1>0, <1>1, <1>2 DEF DataTyped
  <1> QED BY <1>1, <1>3, QuietKeeps


-----------------------------------------------------------------------------
(* The credits *)

Held(c) == SumFunctionOnSet([u \in Uids |-> Amount(c[u])], Uids)
Due(s) == SumFunctionOnSet([i \in s |-> i.k], s)
Balanced == Held(credits) + Due(incr) = 1 + minted
LedgerInv == IncrInv /\ Balanced

\* Changing the credits of one account changes what is held by the difference.
LEMMA HeldChanges ==
  ASSUME AccountAssumption, NEW c \in [Uids -> Int \cup {None}], NEW u \in Uids, NEW x \in Int \cup {None}
  PROVE  /\ Held(c) \in Int /\ Amount(c[u]) \in Int /\ Amount(x) \in Int
         /\ Held([c EXCEPT ![u] = x]) = Held(c) - Amount(c[u]) + Amount(x)
PROOF
  <1> DEFINE d == [c EXCEPT ![u] = x]
             f == [v \in Uids |-> Amount(c[v])]
             g == [v \in Uids |-> Amount(d[v])]
  <1>1. IsFiniteSet(Uids)
    BY UidsFinite
  <1>2. \A y \in Int \cup {None} : Amount(y) \in Int
    BY DEF Amount
  <1>3. d[u] = x /\ \A v \in Uids \ {u} : d[v] = c[v]
    OBVIOUS
  <1> HIDE DEF d
  <1>4. \A v \in Uids : f[v] = Amount(c[v]) /\ g[v] = Amount(d[v])
    OBVIOUS
  <1>5. \A v \in Uids : c[v] \in Int \cup {None} /\ d[v] \in Int \cup {None}
    BY <1>3
  <1>6. \A v \in Uids : f[v] \in Int /\ g[v] \in Int
    BY <1>2, <1>4, <1>5
  <1>7. \A v \in Uids \ {u} : f[v] = g[v]
    BY <1>3, <1>4
  <1>8. Held(c) = SumFunctionOnSet(f, Uids) /\ Held(d) = SumFunctionOnSet(g, Uids)
    BY DEF Held
  <1>9. f[u] = Amount(c[u]) /\ g[u] = Amount(x) /\ f[u] \in Int /\ g[u] \in Int
    BY <1>3, <1>4, <1>6
  <1> HIDE DEF f, g
  <1>10. SumFunctionOnSet(g, Uids) = SumFunctionOnSet(f, Uids) - f[u] + g[u]
    BY <1>1, <1>6, <1>7, SumReplace
  <1>11. SumFunctionOnSet(f, Uids) \in Int
    BY <1>1, <1>6, SumInteger
  <1> QED BY <1>8, <1>9, <1>10, <1>11 DEF d

\* What is due grows and shrinks with each increment that begins and ends.
LEMMA DueChanges ==
  ASSUME NEW s, IsFiniteSet(s), s \subseteq Increments
  PROVE  /\ Due(s) \in Int
         /\ \A i \in s : /\ i.k \in Int /\ IsFiniteSet(s \ {i}) /\ Due(s \ {i}) \in Int
                         /\ Due(s) = i.k + Due(s \ {i})
         /\ \A i \in Increments \ s : /\ i.k \in Int /\ IsFiniteSet(s \cup {i})
                                      /\ Due(s \cup {i}) = i.k + Due(s)
PROOF
  <1> DEFINE F(x) == [i \in x |-> i.k]
  <1>1. \A i \in Increments : i.k \in Int
    BY DEF Increments
  <1>2. \A i \in s : F(s)[i] = i.k /\ F(s)[i] \in Int
    BY <1>1
  <1>3. SumFunctionOnSet(F(s), s) \in Int
    <2> HIDE DEF F
    <2> QED BY <1>2, SumInteger
  <1>4. Due(s) = SumFunctionOnSet(F(s), s)
    BY DEF Due
  <1>5. ASSUME NEW i \in s
        PROVE  /\ i.k \in Int /\ IsFiniteSet(s \ {i}) /\ Due(s \ {i}) \in Int
               /\ Due(s) = i.k + Due(s \ {i})
    <2>1. IsFiniteSet(s \ {i})
      BY FS_RemoveElement
    <2>2. Due(s \ {i}) = SumFunctionOnSet(F(s \ {i}), s \ {i})
      BY DEF Due
    <2>3. \A x \in s \ {i} : F(s)[x] = F(s \ {i})[x]
      OBVIOUS
    <2>4. \A x \in s \ {i} : F(s \ {i})[x] \in Int
      BY <1>1
    <2> HIDE DEF F
    <2>5. SumFunctionOnSet(F(s), s) = F(s)[i] + SumFunctionOnSet(F(s), s \ {i})
      BY <1>2, SumRemove
    <2>6. SumFunctionOnSet(F(s), s \ {i}) = SumFunctionOnSet(F(s \ {i}), s \ {i})
      BY <2>1, <2>3, SumSame
    <2>7. SumFunctionOnSet(F(s \ {i}), s \ {i}) \in Int
      BY <2>1, <2>4, SumInteger
    <2> QED BY <1>2, <1>4, <2>1, <2>2, <2>5, <2>6, <2>7
  <1>6. ASSUME NEW i \in Increments \ s
        PROVE  i.k \in Int /\ IsFiniteSet(s \cup {i}) /\ Due(s \cup {i}) = i.k + Due(s)
    <2> DEFINE r == s \cup {i}
    <2>1. IsFiniteSet(r)
      BY FS_AddElement
    <2>2. Due(r) = SumFunctionOnSet(F(r), r)
      BY DEF Due
    <2>3. \A x \in s : F(r)[x] = F(s)[x]
      OBVIOUS
    <2>4. F(r)[i] = i.k /\ i.k \in Int
      BY <1>1
    <2> HIDE DEF F
    <2>5. SumFunctionOnSet(F(r), s \cup {i}) = F(r)[i] + SumFunctionOnSet(F(r), s)
      BY <1>2, <2>3, <2>4, SumAdd
    <2>6. SumFunctionOnSet(F(r), s) = SumFunctionOnSet(F(s), s)
      BY <2>3, SumSame
    <2> QED BY <1>4, <2>1, <2>2, <2>4, <2>5, <2>6
  <1> QED BY <1>3, <1>4, <1>5, <1>6

\* Steps that move no credits.
LEMMA LedgerQuiet ==
  ASSUME LedgerInv, DataTyped, DataTyped', Users' = Users, credits' = credits, incr' = incr, minted' = minted,
         purged' = purged, started' >= started
  PROVE  LedgerInv'
PROOF
  <1>1. \A i \in incr : i.id \in Nat
    BY DEF LedgerInv, IncrInv, Increments
  <1>2. started \in Nat /\ started' \in Nat
    BY DEF DataTyped
  <1>3. \A i \in incr : i.id < started'
    BY <1>1, <1>2 DEF LedgerInv, IncrInv
  <1>4. IncrInv'
    BY <1>3 DEF LedgerInv, IncrInv
  <1>5. Balanced'
    BY DEF LedgerInv, Balanced, Held, Due
  <1> QED BY <1>4, <1>5 DEF LedgerInv

\* A new account brings the credits of its template, which count as given.
LEMMA InsertBalances ==
  ASSUME AccountAssumption, AccountInv, LedgerInv, NEW t \in Operators, Insert(t)
  PROVE  LedgerInv'
PROOF
  <1>0. IncrInv /\ Balanced /\ DataTyped
    BY DEF LedgerInv, AccountInv
  <1>1. PICK j : j = job[t]
    OBVIOUS
  <1>2. PICK u : u = Max(Users) + 1
    OBVIOUS
  <1>3. JobOK(j) /\ j.at = "insert" /\ u \in Uids
    BY <1>1, <1>2 DEF Insert, JobsOK, AccountInv
  <1>4. j.acc \in Account /\ j.val \in Int \cup {None}
    <2>1. NoJob.at = ""
      BY DEF NoJob
    <2> QED BY <1>3, <2>1 DEF JobOK
  <1>5. u \notin Users /\ credits[u] = None
    BY <1>0, <1>2, <1>3, NewUid DEF IncrInv
  <1>6. /\ users' = [users EXCEPT ![u] = j.acc] /\ credits' = [credits EXCEPT ![u] = j.val]
        /\ minted' = minted + Amount(j.val) /\ incr' = incr /\ purged' = purged /\ started' = started
    BY <1>1, <1>2 DEF Insert
  <1>7. Users' = Users \cup {u}
    BY <1>0, <1>3, <1>4, <1>6 DEF Users, DataTyped, AccountAssumption, Account
  <1>8. credits'[u] = j.val /\ \A v \in Uids : v # u => credits'[v] = credits[v]
    BY <1>0, <1>3, <1>6 DEF DataTyped
  <1>9. incr \subseteq Increments /\ \A i \in incr : i.uid \in Uids
    BY <1>0 DEF IncrInv, Increments
  <1>10. /\ \A i \in incr : i.uid \in Users' \cup purged
         /\ \A i \in incr : i.at = "again" => i.uid \in purged \/ credits'[i.uid] # None
         /\ \A v \in Uids : v \notin Users' => credits'[v] = None
    BY <1>0, <1>5, <1>7, <1>8, <1>9 DEF IncrInv
  <1>11. IncrInv'
    BY <1>0, <1>6, <1>10 DEF IncrInv
  <1>12. /\ Held(credits) \in Int /\ Amount(credits[u]) \in Int /\ Amount(j.val) \in Int
         /\ Held(credits') = Held(credits) - Amount(credits[u]) + Amount(j.val)
    BY <1>0, <1>3, <1>4, <1>6, HeldChanges DEF DataTyped
  <1>13. Amount(credits[u]) = 0
    BY <1>5 DEF Amount
  <1>14. Due(incr) \in Int /\ minted \in Int
    BY <1>0, DueChanges DEF IncrInv, DataTyped
  <1>15. Held(credits') + Due(incr) = 1 + minted'
    BY <1>0, <1>6, <1>12, <1>13, <1>14 DEF Balanced
  <1>16. Balanced'
    BY <1>6, <1>15 DEF Balanced, Held, Due
  <1> QED BY <1>11, <1>16 DEF LedgerInv

\* A purged account takes its credits along, which count as taken.
LEMMA EraseBalances ==
  ASSUME AccountAssumption, AccountInv, DataTyped', LedgerInv, NEW t \in Operators, Erase(t)
  PROVE  LedgerInv'
PROOF
  <1>0. IncrInv /\ Balanced /\ DataTyped
    BY DEF LedgerInv, AccountInv
  <1>1. PICK j : j = job[t]
    OBVIOUS
  <1>2. JobOK(j) /\ j.at = "remove" /\ incr' = incr /\ started' = started
    BY <1>1 DEF Erase, JobsOK, AccountInv
  <1>3. CASE j.op = "PURGE"
    <2>1. PICK u : u = j.uid
      OBVIOUS
    <2>2. u \in Uids
      <3>1. NoJob.at = ""
        BY DEF NoJob
      <3> QED BY <1>2, <1>3, <2>1, <3>1 DEF JobOK
    <2>3. /\ users' = [users EXCEPT ![u] = None] /\ credits' = [credits EXCEPT ![u] = None]
          /\ minted' = minted - Amount(credits[u]) /\ purged' = purged \cup {u}
      BY <1>1, <1>3, <2>1 DEF Erase
    <2>4. Users' = Users \ {u}
      BY <1>0, <2>2, <2>3 DEF Users, DataTyped
    <2>5. credits'[u] = None /\ \A v \in Uids : v # u => credits'[v] = credits[v]
      BY <1>0, <2>2, <2>3 DEF DataTyped
    <2>6. incr \subseteq Increments /\ \A i \in incr : i.uid \in Uids
      BY <1>0 DEF IncrInv, Increments
    <2>7. /\ \A i \in incr : i.uid \in Users' \cup purged'
          /\ \A i \in incr : i.at = "again" => i.uid \in purged' \/ credits'[i.uid] # None
          /\ \A i \in incr : i.at = "lost" => i.uid \in purged'
          /\ \A v \in Uids : v \notin Users' => credits'[v] = None
      BY <1>0, <2>3, <2>4, <2>5, <2>6 DEF IncrInv
    <2>8. IncrInv'
      BY <1>0, <1>2, <2>7 DEF IncrInv
    <2>9. /\ Held(credits) \in Int /\ Amount(credits[u]) \in Int
          /\ Held(credits') = Held(credits) - Amount(credits[u]) + Amount(None)
      <3>1. None \in Int \cup {None} /\ credits \in [Uids -> Int \cup {None}]
        BY <1>0 DEF DataTyped
      <3> QED BY <2>2, <2>3, <3>1, HeldChanges
    <2>10. Amount(None) = 0
      BY DEF Amount
    <2>11. Due(incr) \in Int /\ minted \in Int
      BY <1>0, DueChanges DEF IncrInv, DataTyped
    <2>12. Held(credits') + Due(incr) = 1 + minted'
      BY <1>0, <2>3, <2>9, <2>10, <2>11 DEF Balanced
    <2>13. Balanced'
      BY <1>2, <2>12 DEF Balanced, Held, Due
    <2> QED BY <2>8, <2>13 DEF LedgerInv
  <1>4. CASE j.op # "PURGE"
    <2>1. users' = users /\ credits' = credits /\ minted' = minted /\ purged' = purged
      BY <1>1, <1>4 DEF Erase
    <2>2. Users' = Users /\ started' >= started
      BY <1>0, <1>2, <2>1 DEF Users, DataTyped
    <2> QED BY <1>0, <1>2, <2>1, <2>2, LedgerQuiet
  <1> QED BY <1>3, <1>4


\* GIVE puts an increment under way that counts as given.
LEMMA GiveBalances ==
  ASSUME AccountAssumption, DataTyped, LedgerInv, NEW t \in Operators, NEW u \in Uids, NEW k \in Values, Give(t, u, k)
  PROVE  LedgerInv'
PROOF
  <1>0. IncrInv /\ Balanced /\ k \in Int /\ 2 \in Uids /\ started \in Nat /\ minted \in Int /\ None \notin Int
        /\ credits \in [Uids -> Int \cup {None}]
    BY DEF LedgerInv, AccountAssumption, DataTyped
  <1>1. PICK i : i = [id |-> started, uid |-> u, k |-> k, at |-> "update"]
    OBVIOUS
  <1>2. /\ users' = users /\ purged' = purged /\ started' = started + 1 /\ incr' = incr \cup {i} /\ u \in Users
    BY <1>1 DEF Give
  <1>3. i \in Increments /\ i.id = started /\ i.uid = u /\ i.k = k /\ i.at = "update"
    BY <1>0, <1>1 DEF Increments
  <1>4. i \notin incr /\ \A o \in incr : o.id # i.id
    BY <1>0, <1>3 DEF IncrInv, Increments
  <1>5. Users' = Users
    BY <1>2 DEF Users
  <1>6. /\ IsFiniteSet(incr') /\ Due(incr') = k + Due(incr) /\ Due(incr) \in Int
    BY <1>0, <1>2, <1>3, <1>4, DueChanges DEF IncrInv
  <1>7. /\ credits' \in [Uids -> Int \cup {None}]
        /\ \A v \in Uids : credits'[v] = None <=> credits[v] = None
        /\ Held(credits) \in Int
        /\ Held(credits') - minted' = Held(credits) - minted - k
        /\ Held(credits') \in Int /\ minted' \in Int
    <2>0. Held(credits) \in Int
      BY <1>0, HeldChanges
    <2>1. CASE Siteop(t)
      <3>1. credits' = credits /\ minted' = minted + k
        BY <2>1 DEF Give
      <3>2. Held(credits') = Held(credits)
        BY <3>1
      <3> QED BY <1>0, <2>0, <3>1, <3>2
    <2>2. CASE ~Siteop(t) /\ k = 0
      <3>1. credits' = credits /\ minted' = minted
        BY <2>2 DEF Give
      <3>2. Held(credits') = Held(credits)
        BY <3>1
      <3> QED BY <1>0, <2>0, <2>2, <3>1, <3>2
    <2>3. CASE ~Siteop(t) /\ k # 0
      <3>1. credits' = [credits EXCEPT ![2] = credits[2] - k] /\ minted' = minted /\ credits[2] # None
        BY <2>3 DEF Give, HasElement
      <3>2. credits[2] \in Int /\ credits[2] - k \in Int
        BY <1>0, <3>1
      <3>3. Held(credits') = Held(credits) - Amount(credits[2]) + Amount(credits[2] - k)
        BY <1>0, <3>1, <3>2, HeldChanges
      <3>4. Amount(credits[2]) = credits[2] /\ Amount(credits[2] - k) = credits[2] - k
        BY <1>0, <3>1, <3>2 DEF Amount
      <3>5. Held(credits') = Held(credits) - k
        BY <1>0, <2>0, <3>2, <3>3, <3>4
      <3>6. \A v \in Uids : credits'[v] = IF v = 2 THEN credits[2] - k ELSE credits[v]
        BY <1>0, <3>1
      <3>7. \A v \in Uids : credits'[v] = None <=> credits[v] = None
        BY <1>0, <3>1, <3>2, <3>6
      <3>8. credits' \in [Uids -> Int \cup {None}]
        BY <1>0, <3>1, <3>2
      <3>9. minted' \in Int /\ Held(credits') \in Int
        BY <1>0, <2>0, <3>1, <3>5
      <3>10. Held(credits') - minted' = Held(credits) - minted - k
        BY <1>0, <2>0, <3>1, <3>5
      <3> QED BY <2>0, <3>7, <3>8, <3>9, <3>10
    <2> QED BY <2>1, <2>2, <2>3
  <1>8. \A o \in incr : o.uid \in Uids /\ o.id \in Nat
    BY <1>0 DEF IncrInv, Increments
  <1>9. IncrInv'
    <2>1. incr' \subseteq Increments
      BY <1>0, <1>2, <1>3 DEF IncrInv
    <2>2. \A o \in incr' : o.id < started'
      BY <1>0, <1>2, <1>3, <1>8 DEF IncrInv
    <2>3. \A o, p \in incr' : o.id = p.id => o = p
      BY <1>0, <1>2, <1>4 DEF IncrInv
    <2>4. \A o \in incr' : o.uid \in Users' \cup purged'
      BY <1>0, <1>2, <1>3, <1>5 DEF IncrInv
    <2>5. \A o \in incr' : o.at = "again" => o.uid \in purged' \/ credits'[o.uid] # None
      BY <1>0, <1>2, <1>3, <1>7, <1>8 DEF IncrInv
    <2>6. \A o \in incr' : o.at = "lost" => o.uid \in purged'
      BY <1>0, <1>2, <1>3 DEF IncrInv
    <2>7. \A v \in Uids : v \notin Users' => credits'[v] = None
      BY <1>0, <1>5, <1>7 DEF IncrInv
    <2> QED BY <1>6, <2>1, <2>2, <2>3, <2>4, <2>5, <2>6, <2>7 DEF IncrInv
  <1>10. Held(credits') + Due(incr') = 1 + minted'
    <2>1. \A a, b, c, d, e, m, n \in Int : a + b = 1 + m /\ c - n = a - m - e /\ d = e + b => c + d = 1 + n
      OBVIOUS
    <2>2. Due(incr') \in Int
      BY <1>0, <1>6
    <2>3. Held(credits) + Due(incr) = 1 + minted
      BY <1>0 DEF Balanced
    <2> HIDE DEF Held, Due
    <2> QED BY <1>0, <1>6, <1>7, <2>1, <2>2, <2>3
  <1>11. Balanced'
    BY <1>10 DEF Balanced, Held, Due
  <1> QED BY <1>9, <1>11 DEF LedgerInv

\* TAKE takes from an account with credits, below zero if need be, and counts what it took.
LEMMA TakeBalances ==
  ASSUME AccountAssumption, DataTyped, DataTyped', LedgerInv, NEW t \in Operators, NEW u \in Uids, NEW k \in Values,
         Take(t, u, k)
  PROVE  LedgerInv'
PROOF
  <1>0. IncrInv /\ Balanced /\ k \in Int /\ started \in Nat /\ minted \in Int /\ None \notin Int
        /\ credits \in [Uids -> Int \cup {None}]
    BY DEF LedgerInv, AccountAssumption, DataTyped
  <1>1. users' = users /\ purged' = purged /\ started' = started + 1 /\ incr' = incr
    BY DEF Take
  <1>2. Users' = Users /\ started' >= started
    BY <1>0, <1>1 DEF Users
  <1>3. CASE credits' = credits /\ minted' = minted
    BY <1>1, <1>2, <1>3, LedgerQuiet
  <1>4. CASE ~(credits' = credits /\ minted' = minted)
    <2>1. credits' = [credits EXCEPT ![u] = credits[u] - k] /\ minted' = minted - k /\ credits[u] # None
      BY <1>4 DEF Take, HasElement
    <2>2. credits[u] \in Int /\ credits[u] - k \in Int
      BY <1>0, <2>1
    <2>3. Held(credits') = Held(credits) - Amount(credits[u]) + Amount(credits[u] - k) /\ Held(credits) \in Int
      BY <1>0, <2>1, <2>2, HeldChanges
    <2>4. Amount(credits[u]) = credits[u] /\ Amount(credits[u] - k) = credits[u] - k
      BY <1>0, <2>1, <2>2 DEF Amount
    <2>5. \A v \in Uids : credits'[v] = IF v = u THEN credits[u] - k ELSE credits[v]
      BY <1>0, <2>1
    <2>6. \A v \in Uids : credits'[v] = None <=> credits[v] = None
      BY <1>0, <2>1, <2>2, <2>5
    <2>7. \A i \in incr : i.uid \in Uids /\ i.id \in Nat
      BY <1>0 DEF IncrInv, Increments
    <2>8. IncrInv'
      <3>1. \A i \in incr : i.id < started'
        BY <1>0, <1>1, <2>7 DEF IncrInv
      <3> QED BY <1>0, <1>1, <1>2, <2>6, <2>7, <3>1 DEF IncrInv
    <2>9. Due(incr) \in Int
      BY <1>0, DueChanges DEF IncrInv
    <2>10. Held(credits') + Due(incr) = 1 + minted'
      BY <1>0, <2>1, <2>2, <2>3, <2>4, <2>9 DEF Balanced
    <2>11. Balanced'
      BY <1>1, <2>10 DEF Balanced, Held, Due
    <2> QED BY <2>8, <2>11 DEF LedgerInv
  <1> QED BY <1>3, <1>4

\* An increment moves what was due to what is held, or leaves it due.
LEMMA IncrementBalances ==
  ASSUME AccountAssumption, DataTyped, LedgerInv, NEW i \in incr, IncrCredits(i)
  PROVE  LedgerInv'
PROOF
  <1> DEFINE hit == i.uid \in Users /\ ((i.at = "insert") = (credits[i.uid] = None))
             r == incr \ {i}
  <1>0. IncrInv /\ Balanced /\ started \in Nat /\ minted \in Int /\ None \notin Int
        /\ credits \in [Uids -> Int \cup {None}]
    BY DEF LedgerInv, AccountAssumption, DataTyped
  <1>1. /\ users' = users /\ purged' = purged /\ started' = started /\ minted' = minted /\ i.at # "lost"
        /\ credits' = (IF ~hit THEN credits ELSE [credits EXCEPT ![i.uid] = IF @ = None THEN i.k ELSE @ + i.k])
        /\ incr' = r \cup (IF hit THEN {} ELSE {[i EXCEPT !.at = NextAttempt(@)]})
    BY DEF IncrCredits, histVars
  <1>2. Users' = Users
    BY <1>1 DEF Users
  <1>3. i \in Increments /\ i.uid \in Uids /\ i.k \in Int /\ i.id \in Nat /\ i.at \in {"update", "insert", "again", "lost"}
    BY <1>0 DEF IncrInv, Increments
  <1>4. /\ IsFiniteSet(r) /\ r \subseteq Increments /\ Due(r) \in Int /\ Due(incr) = i.k + Due(r) /\ Due(incr) \in Int
    BY <1>0, DueChanges DEF IncrInv
  <1>5. \A o \in r : o \in incr /\ o.uid \in Uids /\ o.id \in Nat /\ o.id # i.id
    BY <1>0 DEF IncrInv, Increments
  <1>6. Held(credits) \in Int
    BY <1>0, <1>3, HeldChanges
  <1>7. CASE hit
    <2>1. PICK x : x = IF credits[i.uid] = None THEN i.k ELSE credits[i.uid] + i.k
      OBVIOUS
    <2>2. x \in Int /\ x # None /\ Amount(x) = Amount(credits[i.uid]) + i.k /\ Amount(credits[i.uid]) \in Int
      BY <1>0, <1>3, <2>1 DEF Amount
    <2>3. credits' = [credits EXCEPT ![i.uid] = x] /\ incr' = r
      BY <1>0, <1>1, <1>7, <2>1
    <2>4. \A v \in Uids : credits'[v] = IF v = i.uid THEN x ELSE credits[v]
      BY <1>0, <2>3
    <2>5. Held(credits') = Held(credits) - Amount(credits[i.uid]) + Amount(x)
      BY <1>0, <1>3, <2>2, <2>3, HeldChanges
    <2>6. Held(credits') = Held(credits) + i.k
      BY <1>3, <1>6, <2>2, <2>5
    <2>7. IncrInv'
      <3>1. IsFiniteSet(incr') /\ incr' \subseteq Increments /\ \A o \in incr' : o.id < started'
        BY <1>0, <1>1, <1>4, <1>5, <2>3 DEF IncrInv
      <3>2. \A o, p \in incr' : o.id = p.id => o = p
        BY <1>0, <1>5, <2>3 DEF IncrInv
      <3>3. \A o \in incr' : o.uid \in Users' \cup purged'
        BY <1>0, <1>1, <1>2, <1>5, <2>3 DEF IncrInv
      <3>4. \A o \in incr' : o.at = "again" => o.uid \in purged' \/ credits'[o.uid] # None
        BY <1>0, <1>1, <1>5, <2>2, <2>3, <2>4 DEF IncrInv
      <3>5. \A o \in incr' : o.at = "lost" => o.uid \in purged'
        BY <1>0, <1>1, <1>5, <2>3 DEF IncrInv
      <3>6. \A v \in Uids : v \notin Users' => credits'[v] = None
        BY <1>0, <1>2, <1>7, <2>4 DEF IncrInv
      <3> QED BY <3>1, <3>2, <3>3, <3>4, <3>5, <3>6 DEF IncrInv
    <2>8. Held(credits') + Due(incr') = 1 + minted'
      BY <1>0, <1>1, <1>3, <1>4, <1>6, <2>3, <2>6 DEF Balanced
    <2>9. Balanced'
      BY <2>8 DEF Balanced, Held, Due
    <2> QED BY <2>7, <2>9 DEF LedgerInv
  <1>8. CASE ~hit
    <2>1. PICK n : n = [i EXCEPT !.at = NextAttempt(i.at)]
      OBVIOUS
    <2>2. n \in Increments /\ n.id = i.id /\ n.uid = i.uid /\ n.k = i.k /\ n.at = NextAttempt(i.at)
      <3>1. NextAttempt(i.at) \in {"insert", "again", "lost"}
        BY DEF NextAttempt
      <3> QED BY <1>3, <2>1, <3>1 DEF Increments
    <2>3. credits' = credits /\ incr' = r \cup {n}
      BY <1>1, <1>8, <2>1
    <2>4. n \notin r
      BY <1>5, <2>2
    <2>5. IsFiniteSet(incr') /\ Due(incr') = i.k + Due(r)
      BY <1>4, <2>2, <2>3, <2>4, DueChanges
    <2>6. n.at = "again" => i.uid \in purged \/ credits[i.uid] # None
      <3> SUFFICES ASSUME n.at = "again", credits[i.uid] = None PROVE i.uid \in purged
        OBVIOUS
      <3>1. i.at = "insert"
        BY <2>2 DEF NextAttempt
      <3>2. i.uid \notin Users
        BY <1>8, <3>1
      <3> QED BY <1>0, <3>2 DEF IncrInv
    <2>7. n.at = "lost" => i.uid \in purged
      <3> SUFFICES ASSUME n.at = "lost", i.uid \notin purged PROVE FALSE
        OBVIOUS
      <3>1. i.at = "again"
        BY <1>1, <1>3, <2>2 DEF NextAttempt
      <3>2. i.uid \in Users /\ credits[i.uid] # None
        BY <1>0, <3>1 DEF IncrInv
      <3> QED BY <1>8, <3>1, <3>2
    <2>8. i.uid \in Users \cup purged
      BY <1>0 DEF IncrInv
    <2>9. IncrInv'
      <3>1. incr' \subseteq Increments /\ \A o \in incr' : o.id < started'
        BY <1>0, <1>1, <1>4, <1>5, <2>2, <2>3 DEF IncrInv
      <3>2. \A o, p \in incr' : o.id = p.id => o = p
        BY <1>0, <1>5, <2>2, <2>3 DEF IncrInv
      <3>3. \A o \in incr' : o.uid \in Users' \cup purged'
        BY <1>0, <1>1, <1>2, <1>5, <2>2, <2>3, <2>8 DEF IncrInv
      <3>4. \A o \in incr' : o.at = "again" => o.uid \in purged' \/ credits'[o.uid] # None
        BY <1>0, <1>1, <1>5, <2>2, <2>3, <2>6 DEF IncrInv
      <3>5. \A o \in incr' : o.at = "lost" => o.uid \in purged'
        BY <1>0, <1>1, <1>5, <2>2, <2>3, <2>7 DEF IncrInv
      <3>6. \A v \in Uids : v \notin Users' => credits'[v] = None
        BY <1>0, <1>2, <2>3 DEF IncrInv
      <3> QED BY <2>5, <3>1, <3>2, <3>3, <3>4, <3>5, <3>6 DEF IncrInv
    <2>10. Held(credits') + Due(incr') = 1 + minted'
      BY <1>0, <1>1, <1>4, <2>3, <2>5 DEF Balanced
    <2>11. Balanced'
      BY <2>10 DEF Balanced, Held, Due
    <2> QED BY <2>9, <2>11 DEF LedgerInv
  <1> QED BY <1>7, <1>8


-----------------------------------------------------------------------------
(* The theorems *)

AccountsInv == CommandsInv /\ LedgerInv

\* The defaults satisfy the invariant.
LEMMA FirstAccounts ==
  ASSUME AccountAssumption, Init
  PROVE  AccountsInv
PROOF
  <1>0. /\ MaxUid \in Nat /\ MaxGid \in Nat /\ 2 \in Uids /\ 2 \in Gids /\ 0 \in Uids /\ 1 \in Uids /\ 0 \in Gids /\ 1 \in Gids
        /\ None \notin Int /\ None \notin GNames /\ None \notin Group /\ None \notin User
    BY DEF AccountAssumption, Uids, Gids
  <1>1. NewUser \in Account /\ NewUser.pgid = -1 /\ NewUser.gadmin = {} /\ NewUser.sgids = <<>>
    <2>1. [s \in Settings |-> IF s \in {"max_up_speed", "max_down_speed"} THEN 0
                              ELSE IF s = "num_logins" THEN 1 ELSE -1] \in [Settings -> Int]
      OBVIOUS
    <2>2. <<>> \in Seq(Gids)
      OBVIOUS
    <2> QED BY <2>1, <2>2 DEF NewUser, Account, User
  <1> DEFINE a0 == [NewUser EXCEPT !.flags = {"siteop"}, !.pgid = 0]
             a1 == [NewUser EXCEPT !.flags = {"template"}]
             a2 == [NewUser EXCEPT !.pgid = OwnGroup, !.gadmin = {OwnGroup}, !.flags = {"gadmin"}]
  <1>2. a0 \in Account /\ a0.pgid = 0 /\ a0.gadmin = {} /\ a0.sgids = <<>> /\ a0.num = NewUser.num
    BY <1>0, <1>1 DEF Account, User, Flags
  <1>3. a1 \in Account /\ a1.pgid = -1 /\ a1.gadmin = {} /\ a1.sgids = <<>> /\ a1.num = NewUser.num
    BY <1>0, <1>1 DEF Account, User, Flags
  <1>4. a2 \in Account /\ a2.pgid = 2 /\ a2.gadmin = {2} /\ a2.sgids = <<>> /\ a2.num = NewUser.num
    BY <1>0, <1>1 DEF Account, User, Flags, OwnGroup
  <1>5. users = [u \in Uids |-> CASE u = 0 -> a0 [] u = 1 -> a1 [] u = 2 -> a2 [] OTHER -> None]
    BY DEF Init, DefaultUser
  <1> HIDE DEF a0, a1, a2
  <1>6. /\ users[0] = a0 /\ users[1] = a1 /\ users[2] = a2
        /\ \A u \in Uids : u \notin {0, 1, 2} => users[u] = None
    BY <1>0, <1>5
  <1>7. None \notin Account
    BY <1>0 DEF Account
  <1>8. Users = {0, 1, 2}
    BY <1>0, <1>2, <1>3, <1>4, <1>6, <1>7 DEF Users
  <1>9. users \in [Uids -> Account \cup {None}]
    <2>1. \A u \in Uids : users[u] \in Account \cup {None}
      BY <1>2, <1>3, <1>4, <1>6
    <2>2. users = [u \in Uids |-> users[u]]
      BY <1>5
    <2> QED BY <2>1, <2>2
  <1>10. \A n \in GNames : NewGroup(n) \in Group
    BY DEF NewGroup, Group
  <1>11. {"ebftpd", "default", "own"} \subseteq GNames
    BY DEF AccountAssumption
  <1>12. [NewGroup("own") EXCEPT !.limit = [l \in Limits |-> IF l = "slots" THEN 2 ELSE 1]] \in Group
    BY <1>10, <1>11 DEF Group
  <1> DEFINE g2 == [NewGroup("own") EXCEPT !.limit = [l \in Limits |-> IF l = "slots" THEN 2 ELSE 1]]
  <1>13. groups = [g \in Gids |-> CASE g = 0 -> NewGroup("ebftpd") [] g = 1 -> NewGroup("default")
                                    [] g = 2 -> g2 [] OTHER -> None]
    BY DEF Init, DefaultGroup, OwnGroup
  <1>14. g2 \in Group
    BY <1>12
  <1> HIDE DEF g2
  <1>15. groups[0] \in Group /\ groups[1] \in Group /\ groups[2] \in Group /\ \A g \in Gids : g \notin {0, 1, 2} => groups[g] = None
    BY <1>0, <1>10, <1>11, <1>13, <1>14
  <1>16. groups \in [Gids -> Group \cup {None}]
    <2>1. \A g \in Gids : groups[g] \in Group \cup {None}
      BY <1>15
    <2>2. groups = [g \in Gids |-> groups[g]]
      BY <1>13
    <2> QED BY <2>1, <2>2
  <1>17. Groups = {0, 1, 2}
    BY <1>0, <1>15 DEF Groups
  <1>18. /\ credits = [u \in Uids |-> IF u = 2 THEN 1 ELSE None] /\ incr = {} /\ purged = {} /\ minted = 0 /\ started = 0
         /\ job = [t \in Operators |-> NoJob] /\ confirmed = [u \in Uids |-> NewUser.num]
         /\ raced = FALSE /\ misnamed = FALSE
    BY DEF Init
  <1>19. names \in [Gids -> GNames \cup {None}]
    <2>1. names = [g \in Gids |-> IF groups[g] = None THEN None ELSE groups[g].name]
      BY DEF Init
    <2>2. \A g \in Gids : groups[g] # None => groups[g].name \in GNames
      BY <1>16 DEF Group
    <2> QED BY <2>1, <2>2
  <1>20. gids \in [GNames -> Gids \cup {-1}]
    <2>1. gids = [n \in GNames |-> IF \E g \in Groups : groups[g].name = n
                                   THEN CHOOSE g \in Groups : groups[g].name = n ELSE -1]
      BY DEF Init
    <2>2. ASSUME NEW n \in GNames, \E g \in Groups : groups[g].name = n
          PROVE  (CHOOSE g \in Groups : groups[g].name = n) \in Gids
      <3>1. (CHOOSE g \in Groups : groups[g].name = n) \in Groups
        BY <2>2
      <3> QED BY <3>1 DEF Groups
    <2> QED BY <2>1, <2>2
  <1>21. DataTyped
    <2>1. credits \in [Uids -> Int \cup {None}] /\ confirmed \in [Uids -> [Settings -> Int]]
      BY <1>1, <1>18 DEF Account, User
    <2>2. raced \in BOOLEAN /\ misnamed \in BOOLEAN
      BY <1>18, Zenon
    <2>3. minted \in Int /\ started \in Nat
      BY <1>18
    <2> QED BY <1>9, <1>16, <1>19, <1>20, <2>1, <2>2, <2>3 DEF DataTyped
  <1>22. \A t \in Operators : job[t] = NoJob
    BY <1>18
  <1>23. JobsOK
    BY <1>18, <1>22, IdleFits DEF JobsOK
  <1>24. NumsKept
    BY <1>0, <1>2, <1>3, <1>4, <1>6, <1>8, <1>18 DEF NumsKept
  <1>25. \A u \in Users : RightsOK(users[u]) /\ Member(users[u]) \subseteq Groups
    <2>1. Range(<<>>) = {}
      BY RangeNone
    <2>2. Member(a0) = {0} /\ Member(a1) = {} /\ Member(a2) = {2}
      BY <1>2, <1>3, <1>4, <2>1 DEF Member
    <2> QED BY <1>2, <1>3, <1>4, <1>6, <1>8, <1>17, <2>2 DEF RightsOK
  <1>26. \A t \in Operators : CopyRights(job[t]) /\ CopyGroups(job[t]) /\ CopyDeleted(job[t]) /\ job[t].op = "idle"
    BY <1>22, IdleFits DEF CopyRights, CopyGroups, CopyDeleted, Regroups, WritesFlags
  <1>27. CommandsInv
    BY <1>21, <1>23, <1>24, <1>25, <1>26 DEF CommandsInv, AccountInv, RightsInv, DangleInv, DeletedInv
  <1>28. IncrInv
    <2>1. IsFiniteSet(incr)
      BY <1>18, FS_EmptySet
    <2>2. \A u \in Uids : u \notin Users => credits[u] = None
      BY <1>8, <1>18
    <2> QED BY <1>18, <2>1, <2>2 DEF IncrInv
  <1>29. Balanced
    <2> DEFINE c == [u \in Uids |-> None]
    <2>1. c \in [Uids -> Int \cup {None}] /\ credits = [c EXCEPT ![2] = 1] /\ c[2] = None
      BY <1>0, <1>18
    <2>2. \A u \in Uids : Amount(c[u]) = 0
      BY DEF Amount
    <2>3. Held(c) = 0
      <3> DEFINE f == [u \in Uids |-> Amount(c[u])]
      <3>1. \A u \in Uids : f[u] = 0
        BY <2>2
      <3>2. IsFiniteSet(Uids)
        BY UidsFinite
      <3>3. Held(c) = SumFunctionOnSet(f, Uids)
        BY DEF Held
      <3> HIDE DEF f
      <3> QED BY <3>1, <3>2, <3>3, SumZero
    <2> HIDE DEF c
    <2>4. Held(credits) = Held(c) - Amount(c[2]) + Amount(1)
      <3>1. 1 \in Int \cup {None} /\ 2 \in Uids
        BY <1>0
      <3> QED BY <2>1, <3>1, HeldChanges
    <2>5. Amount(c[2]) = 0 /\ Amount(1) = 1
      BY <1>0, <2>1 DEF Amount
    <2>6. Due(incr) = 0
      <3> DEFINE f == [i \in incr |-> i.k]
      <3>1. Due(incr) = SumFunctionOnSet(f, incr)
        BY DEF Due
      <3>2. IsFiniteSet(incr) /\ incr = {}
        BY <1>18, FS_EmptySet
      <3> HIDE DEF f
      <3> QED BY <3>1, <3>2, SumFirst
    <2> HIDE DEF Held, Due
    <2> QED BY <1>18, <2>3, <2>4, <2>5, <2>6 DEF Balanced
  <1> QED BY <1>27, <1>28, <1>29 DEF AccountsInv, LedgerInv

\* The steps of the specification, each by what it does to the invariants.
LEMMA CommandSteps ==
  ASSUME Next
  PROVE  \/ \E t \in Operators :
              \/ \E g \in Gids \cup {-1} : AddUser(t, g) \/ GAddUser(t, g)
              \/ \E u \in Uids : TAddUser(t, u) \/ DelUser(t, u) \/ Readd(t, u) \/ Purge(t, u)
              \/ \E u \in Uids, how \in {"-", "=", "+", "toggle"}, ns \in Lists : ChGrp(t, u, how, ns)
              \/ \E u \in Uids, n \in GNames : SetPGrp(t, u, n) \/ ChGadmin(t, u, n)
              \/ \E us \in Targets, s \in {"wkly_allotment"} \cup RatioMap \cup Settings, v \in Values : Change(t, s, v, {}, us)
              \/ \E us \in Targets, s \in FlagSettings, F \in SUBSET {"template", "exempt", "deleted"} : Change(t, s, 0, F, us)
              \/ \E g \in Gids : GrpDel(t, g)
              \/ \/ \E n \in GNames : GrpAdd(t, n)
                 \/ \E g \in Gids, n \in GNames : GrpRen(t, g, n)
                 \/ \E g \in Gids, l \in Limits, v \in Values : GrpChange(t, g, l, v)
              \/ \E u \in Uids, k \in Values : Give(t, u, k) \/ Take(t, u, k)
              \/ ChangeLoad(t) \/ Save(t) \/ Insert(t) \/ Erase(t) \/ Create(t) \/ SaveGroup(t)
         \/ (\E g \in Gids : ReplicateGroup(g)) \/ (\E u \in Uids : ReplicateUser(u))
         \/ \E i \in incr : IncrCredits(i)
PROOF
  BY Zenon DEF Next

\* Every step keeps the invariant of the accounts and of the credits.
LEMMA AccountStep ==
  ASSUME AccountAssumption, AccountsInv, [Next]_vars
  PROVE  AccountsInv'
PROOF
  <1>0. CommandsInv /\ LedgerInv /\ IncrInv /\ AccountInv /\ DataTyped /\ started \in Nat
    BY DEF AccountsInv, LedgerInv, CommandsInv, AccountInv, DataTyped
  <1>1. CASE UNCHANGED vars
    <2>1. /\ users' = users /\ groups' = groups /\ job' = job /\ raced' = raced /\ misnamed' = misnamed
          /\ confirmed' = confirmed /\ credits' = credits /\ started' = started /\ minted' = minted
          /\ gids' = gids /\ names' = names /\ incr' = incr /\ purged' = purged
      BY <1>1 DEF vars, dataVars, cacheVars, histVars
    <2>2. DataTyped'
      BY <1>0, <2>1 DEF DataTyped
    <2>3. CommandsInv'
      BY <1>0, <2>1, <2>2, QuietKeeps
    <2>4. Users' = Users /\ started' >= started
      BY <1>0, <2>1 DEF Users
    <2>5. LedgerInv'
      BY <1>0, <2>1, <2>2, <2>4, LedgerQuiet
    <2> QED BY <2>3, <2>5 DEF AccountsInv
  <1>q. ASSUME CommandsInv', users' = users, credits' = credits, incr' = incr, minted' = minted, purged' = purged,
               started' = started \/ started' = started + 1
        PROVE  AccountsInv'
    <2>1. DataTyped' /\ Users' = Users
      BY <1>q DEF CommandsInv, AccountInv, Users
    <2>2. started' >= started
      BY <1>0, <1>q
    <2>3. LedgerInv'
      BY <1>0, <1>q, <2>1, <2>2, LedgerQuiet
    <2> QED BY <1>q, <2>3 DEF AccountsInv
  <1>b. ASSUME NEW t \in Operators, Begins(t) PROVE AccountsInv'
    <2>1. CommandsInv'
      BY <1>0, <1>b, BeginsKeeps
    <2>2. /\ users' = users /\ credits' = credits /\ incr' = incr /\ minted' = minted /\ purged' = purged
          /\ started' = started + 1
      BY <1>b DEF Begins, Start, dataVars, histVars
    <2> QED BY <1>q, <2>1, <2>2
  <1>2. ASSUME NEW t \in Operators,
               \/ \E g \in Gids \cup {-1} : AddUser(t, g) \/ GAddUser(t, g)
               \/ \E u \in Uids : TAddUser(t, u) \/ DelUser(t, u) \/ Readd(t, u) \/ Purge(t, u)
        PROVE  AccountsInv'
    BY <1>0, <1>2, <1>b, AddUserBegins, TAddUserBegins, DelUserBegins, ReaddBegins, PurgeBegins
  <1>3. ASSUME NEW t \in Operators,
               \/ \E u \in Uids, how \in {"-", "=", "+", "toggle"}, ns \in Lists : ChGrp(t, u, how, ns)
               \/ \E u \in Uids, n \in GNames : SetPGrp(t, u, n) \/ ChGadmin(t, u, n)
        PROVE  AccountsInv'
    BY <1>0, <1>3, <1>b, ChGrpBegins, SetPGrpBegins, ChGadminBegins
  <1>4. ASSUME NEW t \in Operators, NEW us \in Targets, NEW s \in {"wkly_allotment"} \cup RatioMap \cup Settings, NEW v \in Values,
               Change(t, s, v, {}, us)
        PROVE  AccountsInv'
    <2>1. v \in Int /\ {} \in SUBSET {"template", "exempt", "deleted"}
      BY DEF AccountAssumption
    <2>2. Begins(t)
      BY <1>0, <1>4, <2>1, ChangeBegins
    <2> QED BY <1>b, <2>2
  <1>5. ASSUME NEW t \in Operators, NEW us \in Targets, NEW s \in FlagSettings,
               NEW F \in SUBSET {"template", "exempt", "deleted"}, Change(t, s, 0, F, us)
        PROVE  AccountsInv'
    <2>1. 0 \in Int
      OBVIOUS
    <2>2. Begins(t)
      BY <1>0, <1>5, <2>1, ChangeBegins
    <2> QED BY <1>b, <2>2
  <1>6. ASSUME NEW t \in Operators, \E g \in Gids : GrpDel(t, g) PROVE AccountsInv'
    BY <1>0, <1>6, <1>b, GrpDelBegins
  <1>7. ASSUME NEW t \in Operators,
               \/ \E n \in GNames : GrpAdd(t, n)
               \/ \E g \in Gids, n \in GNames : GrpRen(t, g, n)
               \/ \E g \in Gids, l \in Limits, v \in Values : GrpChange(t, g, l, v)
        PROVE  AccountsInv'
    <2>1. Begins(t)
      BY <1>0, <1>7, GroupCommandBegins
    <2> QED BY <1>b, <2>1
  <1>8. ASSUME NEW t \in Operators, NEW u \in Uids, NEW k \in Values, Give(t, u, k) \/ Take(t, u, k) PROVE AccountsInv'
    <2>1. CommandsInv'
      BY <1>0, <1>8, CreditStepKeeps
    <2>2. DataTyped'
      BY <2>1 DEF CommandsInv, AccountInv
    <2>3. LedgerInv'
      BY <1>0, <1>8, <2>2, GiveBalances, TakeBalances
    <2> QED BY <2>1, <2>3 DEF AccountsInv
  <1>9. ASSUME NEW t \in Operators, ChangeLoad(t) \/ Save(t) \/ Create(t) \/ SaveGroup(t) PROVE AccountsInv'
    <2>1. CommandsInv'
      BY <1>0, <1>9, ChangeLoadKeeps, SaveKeeps, GroupWriteKeeps
    <2>2. DataTyped'
      BY <2>1 DEF CommandsInv, AccountInv
    <2>3. credits' = credits /\ incr' = incr /\ minted' = minted /\ purged' = purged /\ started' = started
      BY <1>9 DEF ChangeLoad, Save, Create, SaveGroup, dataVars, histVars
    <2>4. Users' = Users
      <3>1. CASE Save(t)
        <4>1. ASSUME NEW u \in Uids PROVE users'[u] # None <=> users[u] # None
          <5>1. users' = [users EXCEPT ![job[t].uid] = IF @ = None THEN None ELSE SetFields(@, job[t])]
            BY <3>1 DEF Save
          <5>2. CASE u # job[t].uid \/ users[u] = None
            BY <1>0, <5>1, <5>2 DEF DataTyped
          <5>3. CASE u = job[t].uid /\ users[u] # None
            <6>1. users'[u] = SetFields(users[u], job[t])
              BY <1>0, <5>1, <5>3 DEF DataTyped
            <6>2. users[u] \in Account /\ JobOK(job[t]) /\ job[t].at \in {"save", "flag"}
              BY <1>0, <3>1, <5>3 DEF DataTyped, AccountInv, JobsOK, Save
            <6>3. SetFields(users[u], job[t]) \in Account
              BY <6>2, SavedDocument
            <6>4. None \notin Account
              BY DEF AccountAssumption, Account
            <6> QED BY <5>3, <6>1, <6>3, <6>4
          <5> QED BY <5>2, <5>3
        <4> QED BY <4>1 DEF Users
      <3>2. CASE ~Save(t)
        BY <1>9, <3>2 DEF ChangeLoad, Create, SaveGroup, dataVars, Users
      <3> QED BY <3>1, <3>2
    <2>5. started' >= started
      BY <1>0, <2>3
    <2>6. LedgerInv'
      BY <1>0, <2>2, <2>3, <2>4, <2>5, LedgerQuiet
    <2> QED BY <2>1, <2>6 DEF AccountsInv
  <1>10. ASSUME NEW t \in Operators, Insert(t) \/ Erase(t) PROVE AccountsInv'
    <2>1. CommandsInv'
      BY <1>0, <1>10, InsertKeeps, EraseKeeps
    <2>2. DataTyped'
      BY <2>1 DEF CommandsInv, AccountInv
    <2>3. LedgerInv'
      BY <1>0, <1>10, <2>2, InsertBalances, EraseBalances
    <2> QED BY <2>1, <2>3 DEF AccountsInv
  <1>11. CASE (\E g \in Gids : ReplicateGroup(g)) \/ (\E u \in Uids : ReplicateUser(u))
    <2>1. CommandsInv'
      BY <1>0, <1>11, ReplicateKeeps
    <2>2. users' = users /\ credits' = credits /\ incr' = incr /\ minted' = minted /\ purged' = purged /\ started' = started
      BY <1>11 DEF ReplicateGroup, ReplicateUser, dataVars, histVars
    <2> QED BY <1>q, <2>1, <2>2
  <1>12. ASSUME NEW i \in incr, IncrCredits(i) PROVE AccountsInv'
    <2>1. CommandsInv'
      BY <1>0, <1>12, IncrementKeeps
    <2>2. LedgerInv'
      BY <1>0, <1>12, IncrementBalances
    <2> QED BY <2>1, <2>2 DEF AccountsInv
  <1> HIDE DEF AccountsInv
  <1>13. CASE Next
    BY <1>13, <1>2, <1>3, <1>4, <1>5, <1>6, <1>7, <1>8, <1>9, <1>10, <1>11, <1>12, CommandSteps
  <1> QED BY <1>1, <1>13

\* It holds in every reachable state.
LEMMA AccountsReached ==
  AccountAssumption => (Spec => []AccountsInv)
PROOF
  <1> SUFFICES ASSUME AccountAssumption PROVE Spec => []AccountsInv
    OBVIOUS
  <1>1. Init => AccountsInv
    BY FirstAccounts
  <1>2. AccountsInv /\ [Next]_vars => AccountsInv'
    BY AccountStep
  <1> QED BY <1>1, <1>2, PTL DEF Spec

\* Whatever commands operators enter and however their handlers interleave with each
\* other and with the replicator: an account with any group has a primary one, gadmin
\* rights are for own groups unless commands overlapped, and nobody is in a group that
\* is gone unless they did or the cache gave a stale group for a name.
THEOREM GroupsAreSound ==
  AccountAssumption => (Spec => []GroupsSound)
PROOF
  <1> SUFFICES ASSUME AccountAssumption PROVE Spec => []GroupsSound
    OBVIOUS
  <1>1. AccountsInv => GroupsSound
    <2> SUFFICES ASSUME AccountsInv PROVE GroupsSound
      OBVIOUS
    <2>0. DataTyped /\ RightsInv /\ DangleInv
      BY DEF AccountsInv, CommandsInv, AccountInv
    <2>1. TypeOK
      <3>1. Account \subseteq User
        BY DEF Account
      <3> QED BY <2>0, <3>1 DEF TypeOK, DataTyped
    <2>2. GroupsConsistent
      <3> SUFFICES ASSUME NEW u \in Users
                   PROVE  /\ users[u].pgid = -1 => users[u].sgids = <<>>
                          /\ raced \/ users[u].gadmin \subseteq Member(users[u])
        BY DEF GroupsConsistent
      <3>1. users[u] \in Account
        BY <2>0, KnownUser
      <3> QED BY <2>0, <3>1 DEF Account, RightsInv, RightsOK
    <2>3. NoGroupDangles
      BY <2>0 DEF NoGroupDangles, DangleInv
    <2> QED BY <2>1, <2>2, <2>3 DEF GroupsSound
  <1>2. Spec => []AccountsInv
    BY AccountsReached
  <1> QED BY <1>1, <1>2, PTL

-----------------------------------------------------------------------------
(* The ratios, which are saved as one map *)

\* A handler of CHANGE that is about to write the ratios of its copy.
Rating(j) == j.at = "save" /\ j.set \in RatioMap

\* Unless two operators changed them at once, or the account went, the copy has the
\* number asked for and otherwise the ratios of the account.
CopyRatios(j) ==
  Rating(j) =>
    /\ j.uid \in Users \cup purged
    /\ j.uid \notin torn \cup purged =>
         \A r \in RatioMap : j.acc[r] = IF r = j.set THEN j.val ELSE users[j.uid][r]

RatioInv ==
  /\ ratios \in [Uids -> [RatioMap -> Int]]
  /\ \A u \in Users \ (torn \cup purged), r \in RatioMap : users[u][r] = ratios[u][r]
  /\ \A t \in Operators : CopyRatios(job[t])
  /\ \A t, o \in Operators :
       t # o /\ Rating(job[t]) /\ Rating(job[o]) /\ job[t].uid = job[o].uid => job[t].uid \in torn \cup purged

\* The ratios of an account are numbers.
LEMMA RatiosAre ==
  ASSUME NEW a \in Account
  PROVE  /\ RatiosOf(a) \in [RatioMap -> Int] /\ a["ratio"] = a.ratio /\ a["sratio"] = a.sratio
         /\ \A r \in RatioMap : RatiosOf(a)[r] = a[r] /\ a[r] \in Int
PROOF
  BY DEF RatiosOf, RatioMap, Account, User

\* A handler that writes ratios is that of a CHANGE.
LEMMA RatingChanges ==
  ASSUME AccountAssumption, NEW j, JobOK(j), Rating(j)
  PROVE  j.op = "CHANGE" /\ j.uid \in Uids /\ j.acc \in Account /\ j.val \in Int
PROOF
  <1>1. None \notin RatioMap
    BY DEF AccountAssumption
  <1> QED BY <1>1, Holds DEF Rating

\* A step that neither changes an account that stays, nor a copy of ratios.
LEMMA RatiosQuiet ==
  ASSUME RatioInv, users \in [Uids -> Account \cup {None}], ratios' = ratios, torn' = torn, purged \subseteq purged',
         \A u \in Uids : users'[u] = users[u] \/ u \in purged',
         \A t \in Operators : job'[t] = job[t] \/ ~Rating(job'[t])
  PROVE  RatioInv'
PROOF
  <1>1. Users \subseteq Users' \cup purged' /\ Users' \subseteq Users \cup purged' /\ Users \subseteq Uids /\ Users' \subseteq Uids
    BY DEF Users
  <1>2. ratios' \in [Uids -> [RatioMap -> Int]]
    BY DEF RatioInv
  <1>3. \A u \in Users' \ (torn' \cup purged'), r \in RatioMap : users'[u][r] = ratios'[u][r]
    BY <1>1 DEF RatioInv
  <1>4. ASSUME NEW t \in Operators PROVE CopyRatios(job[t])'
    <2> SUFFICES ASSUME Rating(job'[t])
                 PROVE  /\ job'[t].uid \in Users' \cup purged'
                        /\ job'[t].uid \notin torn' \cup purged' =>
                             \A r \in RatioMap : job'[t].acc[r] = IF r = job'[t].set THEN job'[t].val ELSE users'[job'[t].uid][r]
      BY DEF CopyRatios, Rating
    <2>1. job'[t] = job[t] /\ CopyRatios(job[t])
      BY DEF RatioInv
    <2> QED BY <1>1, <2>1 DEF CopyRatios
  <1>5. ASSUME NEW t \in Operators, NEW o \in Operators, t # o, Rating(job'[t]), Rating(job'[o]), job'[t].uid = job'[o].uid
        PROVE  job'[t].uid \in torn' \cup purged'
    <2>1. job'[t] = job[t] /\ job'[o] = job[o]
      BY <1>5
    <2> QED BY <1>5, <2>1 DEF RatioInv
  <1> QED BY <1>2, <1>3, <1>4, <1>5 DEF RatioInv, Rating

\* CHANGE copies the ratios of the account, and marks it if another has a copy.
LEMMA ChangeLoadRatios ==
  ASSUME AccountAssumption, CommandsInv, RatioInv, NEW t \in Operators, ChangeLoad(t)
  PROVE  RatioInv'
PROOF
  <1>0. DataTyped /\ JobsOK
    BY DEF CommandsInv, AccountInv
  <1>1. PICK j : j = job[t]
    OBVIOUS
  <1>2. PICK u : u = Head(j.todo)
    OBVIOUS
  <1>3. PICK k : k = IF j.todo = <<>> THEN NoJob
                     ELSE IF u \notin Users THEN [j EXCEPT !.todo = Tail(@)]
                     ELSE IF Refuses(t, j, u) THEN NoJob
                     ELSE [j EXCEPT !.at = "save", !.uid = u, !.acc = Changed(j, users[u]), !.todo = Tail(@)]
    OBVIOUS
  <1>4. /\ job' = [job EXCEPT ![t] = k] /\ users' = users /\ ratios' = ratios /\ purged' = purged
        /\ torn' = IF j.todo # <<>> /\ j.set \in RatioMap /\ RatiosHeld(t, u) THEN torn \cup {u} ELSE torn
    BY <1>1, <1>2, <1>3 DEF ChangeLoad, dataVars
  <1>5. JobOK(j) /\ j.at = "load" /\ JobShape(j) /\ j.op = "CHANGE" /\ Asked(j)
    <2>1. JobOK(j) /\ j.at = "load"
      BY <1>0, <1>1 DEF ChangeLoad, JobsOK
    <2> QED BY <2>1, Phase
  <1>6. job'[t] = k /\ \A o \in Operators : o # t => job'[o] = job[o]
    BY <1>0, <1>4 DEF JobsOK
  <1>7. Users' = Users /\ Users \subseteq Uids /\ torn \subseteq torn'
    BY <1>4 DEF Users
  <1>8. \/ ~Rating(k)
        \/ /\ u \in Users /\ k.uid = u /\ k.set = j.set /\ k.val = j.val /\ k.at = "save" /\ j.set \in RatioMap
           /\ j.todo # <<>> /\ k.acc = Changed(j, users[u])
    <2>1. CASE k = NoJob
      BY <2>1 DEF NoJob, Rating
    <2>2. CASE k = [j EXCEPT !.todo = Tail(@)]
      BY <1>5, <2>2 DEF JobShape, Rating
    <2>3. CASE u \in Users /\ j.todo # <<>> /\ k = [j EXCEPT !.at = "save", !.uid = u, !.acc = Changed(j, users[u]), !.todo = Tail(@)]
      BY <1>5, <2>3 DEF JobShape, Rating
    <2> QED BY <1>3, <2>1, <2>2, <2>3
  <1>9. CASE ~Rating(k)
    <2>1. \A u1 \in Users \ torn' : u1 \in Users \ torn
      BY <1>7
    <2>2. \A u1 \in Users' \ (torn' \cup purged'), r \in RatioMap : users'[u1][r] = ratios'[u1][r]
      BY <1>4, <1>7 DEF RatioInv
    <2>3. ASSUME NEW o \in Operators PROVE CopyRatios(job[o])'
      <3> SUFFICES ASSUME Rating(job'[o])
                   PROVE  /\ job'[o].uid \in Users' \cup purged'
                          /\ job'[o].uid \notin torn' \cup purged' =>
                               \A r \in RatioMap : job'[o].acc[r] = IF r = job'[o].set THEN job'[o].val ELSE users'[job'[o].uid][r]
        BY DEF CopyRatios, Rating
      <3>1. job'[o] = job[o] /\ CopyRatios(job[o])
        BY <1>6, <1>9 DEF RatioInv
      <3> QED BY <1>4, <1>7, <3>1 DEF CopyRatios
    <2>4. ASSUME NEW o \in Operators, NEW p \in Operators, o # p, Rating(job'[o]), Rating(job'[p]), job'[o].uid = job'[p].uid
          PROVE  job'[o].uid \in torn' \cup purged'
      <3>1. job'[o] = job[o] /\ job'[p] = job[p]
        BY <1>6, <1>9, <2>4
      <3> QED BY <1>4, <1>7, <2>4, <3>1 DEF RatioInv
    <2>5. ratios' \in [Uids -> [RatioMap -> Int]]
      BY <1>4 DEF RatioInv
    <2> QED BY <2>2, <2>3, <2>4, <2>5 DEF RatioInv, Rating
  <1>10. CASE Rating(k)
    <2>0. /\ u \in Users /\ k.uid = u /\ k.set = j.set /\ k.val = j.val /\ k.at = "save" /\ j.set \in RatioMap
          /\ j.todo # <<>> /\ k.acc = Changed(j, users[u]) /\ users[u] \in Account /\ j.val \in Int
      BY <1>0, <1>5, <1>8, <1>10, KnownUser DEF Asked
    <2>1. \A r \in RatioMap : k.acc[r] = IF r = k.set THEN k.val ELSE users[u][r]
      <3>1. PICK a : a = users[u]
        OBVIOUS
      <3>2. a \in Account /\ k.acc = Changed(j, a)
        BY <2>0, <3>1
      <3>3. CASE j.set = "ratio"
        <4>1. k.acc = [a EXCEPT !.ratio = j.val]
          BY <3>2, <3>3 DEF Changed
        <4> QED BY <2>0, <3>1, <3>2, <3>3, <4>1 DEF Account, User, RatioMap
      <3>4. CASE j.set = "sratio"
        <4>1. k.acc = [a EXCEPT !.sratio = j.val]
          BY <3>2, <3>4 DEF Changed
        <4> QED BY <2>0, <3>1, <3>2, <3>4, <4>1 DEF Account, User, RatioMap
      <3> QED BY <2>0, <3>3, <3>4 DEF RatioMap
    <2>2. \A u1 \in Users' \ (torn' \cup purged'), r \in RatioMap : users'[u1][r] = ratios'[u1][r]
      BY <1>4, <1>7 DEF RatioInv
    <2>3. ASSUME NEW o \in Operators PROVE CopyRatios(job[o])'
      <3> SUFFICES ASSUME Rating(job'[o])
                   PROVE  /\ job'[o].uid \in Users' \cup purged'
                          /\ job'[o].uid \notin torn' \cup purged' =>
                               \A r \in RatioMap : job'[o].acc[r] = IF r = job'[o].set THEN job'[o].val ELSE users'[job'[o].uid][r]
        BY DEF CopyRatios, Rating
      <3>1. CASE o = t
        BY <1>4, <1>6, <1>7, <2>0, <2>1, <3>1
      <3>2. CASE o # t
        <4>1. job'[o] = job[o] /\ CopyRatios(job[o])
          BY <1>6, <3>2 DEF RatioInv
        <4> QED BY <1>4, <1>7, <4>1 DEF CopyRatios
      <3> QED BY <3>1, <3>2
    <2>4. ASSUME NEW o \in Operators \ {t}, Rating(job[o]), job[o].uid = u PROVE u \in torn'
      <3>1. RatiosHeld(t, u)
        BY <2>4 DEF RatiosHeld, Rating
      <3> QED BY <1>4, <2>0, <3>1
    <2>5. ASSUME NEW o \in Operators, NEW p \in Operators, o # p, Rating(job'[o]), Rating(job'[p]), job'[o].uid = job'[p].uid
          PROVE  job'[o].uid \in torn' \cup purged'
      <3>1. CASE o = t
        BY <1>6, <2>0, <2>4, <2>5, <3>1
      <3>2. CASE p = t
        BY <1>6, <2>0, <2>4, <2>5, <3>2
      <3>3. CASE o # t /\ p # t
        <4>1. job'[o] = job[o] /\ job'[p] = job[p]
          BY <1>6, <3>3
        <4> QED BY <1>4, <1>7, <2>5, <4>1 DEF RatioInv
      <3> QED BY <3>1, <3>2, <3>3
    <2>6. ratios' \in [Uids -> [RatioMap -> Int]]
      BY <1>4 DEF RatioInv
    <2> QED BY <2>2, <2>3, <2>5, <2>6 DEF RatioInv, Rating
  <1> QED BY <1>9, <1>10

\* Only a CHANGE of a ratio writes ratios, and it writes all those of its copy.
LEMMA SavedRatios ==
  ASSUME AccountAssumption, NEW j, JobOK(j), j.at \in {"save", "flag"}, NEW old \in Account, NEW n,
         n = SetFields(old, j)
  PROVE  /\ n \in Account
         /\ n.ratio = (IF j.op = "CHANGE" /\ j.set \in RatioMap THEN j.acc.ratio ELSE old.ratio)
         /\ n.sratio = (IF j.op = "CHANGE" /\ j.set \in RatioMap THEN j.acc.sratio ELSE old.sratio)
PROOF
  BY SavedDocument, ZenonT(30)

\* A save writes the ratios of the account as CHANGE asked, or leaves them alone.
LEMMA SaveRatios ==
  ASSUME AccountAssumption, CommandsInv, RatioInv, NEW t \in Operators, Save(t)
  PROVE  RatioInv'
PROOF
  <1>0. DataTyped /\ JobsOK
    BY DEF CommandsInv, AccountInv
  <1>1. PICK j : j = job[t]
    OBVIOUS
  <1>2. PICK u : u = j.uid
    OBVIOUS
  <1>3. JobOK(j) /\ j.at \in {"save", "flag"} /\ u \in Uids /\ j.acc \in Account
    BY <1>0, <1>1, <1>2, Holds DEF Save, JobsOK
  <1>4. /\ users' = [users EXCEPT ![u] = IF @ = None THEN None ELSE SetFields(@, j)]
        /\ ratios' = (IF j.set \in RatioMap /\ u \in Users THEN [ratios EXCEPT ![u][j.set] = j.val] ELSE ratios)
        /\ job' = [job EXCEPT ![t] = AfterSave(j)] /\ torn' = torn /\ purged' = purged
    BY <1>1, <1>2 DEF Save
  <1>5. Users' = Users /\ (u \notin Users => users' = users)
    <2>1. CASE u \in Users
      <3>1. SetFields(users[u], j) \in Account /\ None \notin Account
        BY <1>0, <1>3, <2>1, KnownUser, SavedDocument DEF AccountAssumption, Account
      <3> QED BY <1>0, <1>3, <1>4, <2>1, <3>1 DEF Users, DataTyped
    <2>2. CASE u \notin Users
      <3>1. users[u] = None
        BY <1>3, <2>2 DEF Users
      <3>2. users' = users
        BY <1>0, <1>3, <1>4, <3>1 DEF DataTyped
      <3> QED BY <2>2, <3>2 DEF Users
    <2> QED BY <2>1, <2>2
  <1>6. /\ job'[t] = AfterSave(j) /\ \A o \in Operators : o # t => job'[o] = job[o]
        /\ ~Rating(job'[t]) /\ Users \subseteq Uids
    <2>1. AfterSave(j).at # "save"
      BY <1>3, SavedNext
    <2> QED BY <1>0, <1>4, <2>1 DEF JobsOK, Rating, Users
  <1>7. \A v \in Uids : v # u => users'[v] = users[v]
    BY <1>0, <1>4 DEF DataTyped
  <1>8. CASE u \notin Users
    <2>1. ratios' = ratios /\ users' = users
      BY <1>4, <1>5, <1>8
    <2>2. \A o \in Operators : job'[o] = job[o] \/ ~Rating(job'[o])
      BY <1>6
    <2> QED BY <1>0, <1>4, <2>1, <2>2, RatiosQuiet DEF DataTyped
  <1>9. CASE u \in Users
    <2>0. PICK a : a = users[u]
      OBVIOUS
    <2>1. PICK n : n = SetFields(a, j)
      OBVIOUS
    <2>2. a \in Account /\ users'[u] = n
      BY <1>0, <1>3, <1>4, <1>9, <2>0, <2>1, KnownUser DEF DataTyped, Users
    <2>3. /\ n \in Account
          /\ n.ratio = (IF j.op = "CHANGE" /\ j.set \in RatioMap THEN j.acc.ratio ELSE a.ratio)
          /\ n.sratio = (IF j.op = "CHANGE" /\ j.set \in RatioMap THEN j.acc.sratio ELSE a.sratio)
      BY <1>3, <2>1, <2>2, SavedRatios
    <2>4. \A r \in RatioMap : n[r] = (IF j.op = "CHANGE" /\ j.set \in RatioMap THEN j.acc[r] ELSE a[r])
      BY <1>3, <2>2, <2>3, RatiosAre DEF RatioMap
    <2>5. j.set \in RatioMap => Rating(j) /\ j.op = "CHANGE" /\ j.val \in Int
      <3>1. None \notin RatioMap /\ NoJob.op = "idle" /\ RatioMap \cap FlagSettings = {}
        BY DEF AccountAssumption, NoJob, RatioMap, FlagSettings
      <3> QED BY <1>3, <3>1, Holds DEF JobOK, Rating
    <2>6. ratios' \in [Uids -> [RatioMap -> Int]]
      BY <1>3, <1>4, <2>5 DEF RatioInv
    <2>7. /\ \A v \in Uids : v # u => ratios'[v] = ratios[v]
          /\ \A r \in RatioMap : ratios'[u][r] = IF r = j.set THEN j.val ELSE ratios[u][r]
      <3>1. ratios \in [Uids -> [RatioMap -> Int]]
        BY DEF RatioInv
      <3>2. CASE j.set \in RatioMap
        BY <1>3, <1>4, <1>9, <3>1, <3>2
      <3>3. CASE j.set \notin RatioMap
        BY <1>4, <3>3
      <3> QED BY <3>2, <3>3
    <2>8. ASSUME NEW v \in Users' \ (torn' \cup purged'), NEW r \in RatioMap PROVE users'[v][r] = ratios'[v][r]
      <3>0. v \in Users \ (torn \cup purged) /\ v \in Uids /\ users[v][r] = ratios[v][r]
        BY <1>4, <1>5, <1>6, <2>8 DEF RatioInv
      <3>1. CASE v # u
        BY <1>7, <2>7, <3>0, <3>1
      <3>2. CASE v = u /\ j.set \notin RatioMap
        BY <2>0, <2>2, <2>4, <2>7, <3>0, <3>2
      <3>3. CASE v = u /\ j.set \in RatioMap
        <4>1. CopyRatios(j) /\ Rating(j) /\ j.uid \notin torn \cup purged
          BY <1>1, <1>2, <2>5, <3>0, <3>3 DEF RatioInv
        <4>2. j.acc[r] = IF r = j.set THEN j.val ELSE a[r]
          BY <1>2, <2>0, <4>1 DEF CopyRatios
        <4> QED BY <2>0, <2>2, <2>4, <2>5, <2>7, <3>0, <3>3, <4>2
      <3> QED BY <3>1, <3>2, <3>3
    <2>9. ASSUME NEW o \in Operators PROVE CopyRatios(job[o])'
      <3> SUFFICES ASSUME Rating(job'[o])
                   PROVE  /\ job'[o].uid \in Users' \cup purged'
                          /\ job'[o].uid \notin torn' \cup purged' =>
                               \A r \in RatioMap : job'[o].acc[r] = IF r = job'[o].set THEN job'[o].val ELSE users'[job'[o].uid][r]
        BY DEF CopyRatios, Rating
      <3>1. o # t /\ job'[o] = job[o] /\ CopyRatios(job[o]) /\ Rating(job[o])
        BY <1>6 DEF RatioInv
      <3>2. job[o].uid \in Users \cup purged
        BY <3>1 DEF CopyRatios
      <3>3. ASSUME job[o].uid \notin torn \cup purged, NEW r \in RatioMap PROVE users'[job[o].uid][r] = users[job[o].uid][r]
        <4>1. CASE job[o].uid # u
          BY <1>6, <1>7, <3>2, <3>3, <4>1
        <4>2. CASE job[o].uid = u
          <5>1. ~Rating(j)
            BY <1>1, <1>2, <3>1, <3>3, <4>2 DEF RatioInv
          <5> QED BY <2>0, <2>2, <2>4, <2>5, <4>2, <5>1
        <4> QED BY <4>1, <4>2
      <3> QED BY <1>4, <1>5, <3>1, <3>2, <3>3 DEF CopyRatios
    <2>10. ASSUME NEW o \in Operators, NEW p \in Operators, o # p, Rating(job'[o]), Rating(job'[p]), job'[o].uid = job'[p].uid
           PROVE  job'[o].uid \in torn' \cup purged'
      <3>1. job'[o] = job[o] /\ job'[p] = job[p]
        BY <1>6, <2>10
      <3> QED BY <1>4, <2>10, <3>1 DEF RatioInv
    <2> QED BY <2>6, <2>8, <2>9, <2>10 DEF RatioInv, Rating
  <1> QED BY <1>8, <1>9

\* A new account has the ratios of its template; a copy that another operator still has
\* of its uid is that of an account that was purged.
LEMMA InsertRatios ==
  ASSUME AccountAssumption, CommandsInv, RatioInv, NEW t \in Operators, Insert(t)
  PROVE  RatioInv'
PROOF
  <1>0. DataTyped /\ JobsOK
    BY DEF CommandsInv, AccountInv
  <1>1. PICK j : j = job[t]
    OBVIOUS
  <1>2. PICK u : u = Max(Users) + 1
    OBVIOUS
  <1>3. JobOK(j) /\ j.at = "insert" /\ u \in Uids
    BY <1>0, <1>1, <1>2 DEF Insert, JobsOK
  <1>4. j.acc \in Account /\ j.set = None /\ JobShape(j)
    <2>1. NoJob.at = ""
      BY DEF NoJob
    <2> QED BY <1>3, <2>1 DEF JobOK
  <1>5. u \notin Users
    BY <1>2, <1>3, NewUid
  <1>6. PICK k : k = IF j.gid = -1 \/ j.acc.pgid = j.gid THEN NoJob
                     ELSE [j EXCEPT !.at = "save", !.uid = u, !.acc = SetPrimaryGID(j.acc, j.gid)]
    OBVIOUS
  <1>7. /\ users' = [users EXCEPT ![u] = j.acc] /\ ratios' = [ratios EXCEPT ![u] = RatiosOf(j.acc)]
        /\ job' = [job EXCEPT ![t] = k] /\ torn' = torn /\ purged' = purged
    BY <1>1, <1>2, <1>6 DEF Insert
  <1>8. ~Rating(k)
    <2>1. None \notin RatioMap
      BY DEF AccountAssumption
    <2>2. k = NoJob \/ k.set = None
      BY <1>4, <1>6 DEF JobShape
    <2>3. NoJob.at = ""
      BY DEF NoJob
    <2> QED BY <2>1, <2>2, <2>3 DEF Rating
  <1>9. job'[t] = k /\ \A o \in Operators : o # t => job'[o] = job[o]
    BY <1>0, <1>7 DEF JobsOK
  <1>10. /\ users'[u] = j.acc /\ \A v \in Uids : v # u => users'[v] = users[v] /\ ratios'[v] = ratios[v]
         /\ \A r \in RatioMap : ratios'[u][r] = j.acc[r]
    <2>1. ratios'[u] = RatiosOf(j.acc)
      BY <1>3, <1>7 DEF RatioInv
    <2> QED BY <1>0, <1>3, <1>4, <1>7, <2>1, RatiosAre DEF RatioInv, DataTyped
  <1>11. Users' = Users \cup {u} /\ Users \subseteq Uids
    <2>1. None \notin Account
      BY DEF AccountAssumption, Account
    <2> QED BY <1>3, <1>4, <1>10, <2>1 DEF Users
  <1>12. ratios' \in [Uids -> [RatioMap -> Int]]
    <2>1. RatiosOf(j.acc) \in [RatioMap -> Int]
      BY <1>4, RatiosAre
    <2> QED BY <1>3, <1>7, <2>1 DEF RatioInv
  <1>13. ASSUME NEW v \in Users' \ (torn' \cup purged'), NEW r \in RatioMap PROVE users'[v][r] = ratios'[v][r]
    <2>1. CASE v = u
      BY <1>10, <2>1
    <2>2. CASE v # u
      BY <1>7, <1>10, <1>11, <1>13, <2>2 DEF RatioInv
    <2> QED BY <2>1, <2>2
  <1>14. ASSUME NEW o \in Operators PROVE CopyRatios(job[o])'
    <2> SUFFICES ASSUME Rating(job'[o])
                 PROVE  /\ job'[o].uid \in Users' \cup purged'
                        /\ job'[o].uid \notin torn' \cup purged' =>
                             \A r \in RatioMap : job'[o].acc[r] = IF r = job'[o].set THEN job'[o].val ELSE users'[job'[o].uid][r]
      BY DEF CopyRatios, Rating
    <2>1. job'[o] = job[o] /\ CopyRatios(job[o]) /\ Rating(job[o])
      BY <1>8, <1>9 DEF RatioInv
    <2>2. job[o].uid \in Users \cup purged
      BY <2>1 DEF CopyRatios
    <2>3. job[o].uid \notin purged => users'[job[o].uid] = users[job[o].uid]
      BY <1>5, <1>10, <1>11, <2>2
    <2> QED BY <1>7, <1>11, <2>1, <2>2, <2>3 DEF CopyRatios
  <1>15. ASSUME NEW o \in Operators, NEW p \in Operators, o # p, Rating(job'[o]), Rating(job'[p]), job'[o].uid = job'[p].uid
         PROVE  job'[o].uid \in torn' \cup purged'
    <2>1. job'[o] = job[o] /\ job'[p] = job[p]
      BY <1>8, <1>9, <1>15
    <2> QED BY <1>7, <1>15, <2>1 DEF RatioInv
  <1> QED BY <1>12, <1>13, <1>14, <1>15 DEF RatioInv, Rating

\* No command begins with a copy of ratios: CHANGE loads it later.
LEMMA BeginsUnrated ==
  ASSUME AccountAssumption, NEW t \in Operators,
         \/ \E g \in Gids \cup {-1} : AddUser(t, g) \/ GAddUser(t, g)
         \/ \E u \in Uids : TAddUser(t, u) \/ DelUser(t, u) \/ Readd(t, u) \/ Purge(t, u)
         \/ \E u \in Uids, how \in {"-", "=", "+", "toggle"}, ns \in Lists : ChGrp(t, u, how, ns)
         \/ \E u \in Uids, n \in GNames : SetPGrp(t, u, n) \/ ChGadmin(t, u, n)
         \/ \E us \in Targets, s \in {"wkly_allotment"} \cup RatioMap \cup Settings, v \in Values : Change(t, s, v, {}, us)
         \/ \E us \in Targets, s \in FlagSettings, F \in SUBSET {"template", "exempt", "deleted"} : Change(t, s, 0, F, us)
         \/ \E g \in Gids : GrpDel(t, g)
         \/ \/ \E n \in GNames : GrpAdd(t, n)
            \/ \E g \in Gids, n \in GNames : GrpRen(t, g, n)
            \/ \E g \in Gids, l \in Limits, v \in Values : GrpChange(t, g, l, v)
  PROVE  \E j : Start(t, j) /\ ~Rating(j)
PROOF
  <1>n. None \notin RatioMap
    BY DEF AccountAssumption
  <1>1. ASSUME NEW g, NEW u, NewFrom(t, g, u) PROVE \E j : Start(t, j) /\ ~Rating(j)
    <2>1. PICK j : j = [NoJob EXCEPT !.op = "ADDUSER", !.at = "insert", !.gid = g, !.val = credits[u],
                                     !.acc = DelFlags(users[u], {"template"})]
      OBVIOUS
    <2>2. Start(t, j) /\ j.at = "insert"
      BY <1>1, <2>1 DEF NewFrom, NoJob
    <2> QED BY <2>2 DEF Rating
  <1>2. ASSUME NEW u, NEW op, NEW a, Loaded(t, u, op, a) PROVE \E j : Start(t, j) /\ ~Rating(j)
    <2>1. PICK j : j = [NoJob EXCEPT !.op = op, !.at = "save", !.uid = u, !.acc = a, !.flags = a.gadmin \ users[u].gadmin]
      OBVIOUS
    <2>2. Start(t, j) /\ j.set = None
      BY <1>2, <2>1 DEF Loaded, NoJob
    <2> QED BY <1>n, <2>2 DEF Rating
  <1>3. CASE \/ \E g \in Gids \cup {-1} : AddUser(t, g) \/ GAddUser(t, g)
             \/ \E u \in Uids : TAddUser(t, u) \/ DelUser(t, u) \/ Readd(t, u)
    BY <1>1, <1>2, <1>3, ZenonT(30) DEF AddUser, GAddUser, TAddUser, DelUser, Readd
  <1>4. CASE \/ \E u \in Uids, how \in {"-", "=", "+", "toggle"}, ns \in Lists : ChGrp(t, u, how, ns)
             \/ \E u \in Uids, n \in GNames : SetPGrp(t, u, n) \/ ChGadmin(t, u, n)
    BY <1>2, <1>4, ZenonT(30) DEF ChGrp, SetPGrp, ChGadmin
  <1>5. ASSUME NEW u \in Uids, Purge(t, u) PROVE \E j : Start(t, j) /\ ~Rating(j)
    <2>1. PICK j : j = [NoJob EXCEPT !.op = "PURGE", !.at = "remove", !.uid = u]
      OBVIOUS
    <2>2. Start(t, j) /\ j.at = "remove"
      BY <1>5, <2>1 DEF Purge, NoJob
    <2> QED BY <2>2 DEF Rating
  <1>6. ASSUME NEW s, NEW v, NEW F, NEW us, Change(t, s, v, F, us) PROVE \E j : Start(t, j) /\ ~Rating(j)
    <2>1. PICK j : j = [NoJob EXCEPT !.op = "CHANGE", !.at = "load", !.todo = SetToSortSeq(us, <), !.set = s, !.flags = F,
                            !.val = IF s = "ratio" /\ v = -1 THEN users[DefaultUser].ratio ELSE v]
      OBVIOUS
    <2>2. Start(t, j)
      BY <1>6, <2>1 DEF Change
    <2>3. j.at = "load"
      BY <2>1 DEF NoJob
    <2> QED BY <2>2, <2>3 DEF Rating
  <1>7. ASSUME NEW g \in Gids, GrpDel(t, g) PROVE \E j : Start(t, j) /\ ~Rating(j)
    <2>1. PICK j : j = [NoJob EXCEPT !.op = "GRPDEL", !.at = "remove", !.gid = g]
      OBVIOUS
    <2>2. Start(t, j) /\ j.at = "remove"
      BY <1>7, <2>1 DEF GrpDel, NoJob
    <2> QED BY <2>2 DEF Rating
  <1>8. ASSUME NEW n, GrpAdd(t, n) PROVE \E j : Start(t, j) /\ ~Rating(j)
    <2>1. PICK j : j = [NoJob EXCEPT !.op = "GRPADD", !.at = "create", !.set = n, !.acc = groups[DefaultGroup]]
      OBVIOUS
    <2>2. Start(t, j) /\ j.at = "create"
      BY <1>8, <2>1 DEF GrpAdd, NoJob
    <2> QED BY <2>2 DEF Rating
  <1>9. ASSUME NEW g, NEW n, GrpRen(t, g, n) PROVE \E j : Start(t, j) /\ ~Rating(j)
    <2>1. PICK j : j = [NoJob EXCEPT !.op = "GRPREN", !.at = "group", !.gid = g, !.set = n]
      OBVIOUS
    <2>2. Start(t, j) /\ j.at = "group"
      BY <1>9, <2>1 DEF GrpRen, NoJob
    <2> QED BY <2>2 DEF Rating
  <1>10. ASSUME NEW g, NEW l, NEW v, GrpChange(t, g, l, v) PROVE \E j : Start(t, j) /\ ~Rating(j)
    <2>1. PICK j : j = [NoJob EXCEPT !.op = "GRPCHANGE", !.at = "group", !.gid = g, !.set = l, !.val = v]
      OBVIOUS
    <2>2. Start(t, j) /\ j.at = "group"
      BY <1>10, <2>1 DEF GrpChange, NoJob
    <2> QED BY <2>2 DEF Rating
  <1> QED BY <1>3, <1>4, <1>5, <1>6, <1>7, <1>8, <1>9, <1>10, ZenonT(30)

\* Every step keeps what is known of the ratios.
LEMMA RatioStep ==
  ASSUME AccountAssumption, AccountsInv, RatioInv, [Next]_vars
  PROVE  RatioInv'
PROOF
  <1>0. CommandsInv /\ DataTyped /\ JobsOK /\ users \in [Uids -> Account \cup {None}]
    BY DEF AccountsInv, CommandsInv, AccountInv, DataTyped
  <1>q. ASSUME users' = users, job' = job, ratios' = ratios, torn' = torn, purged' = purged PROVE RatioInv'
    BY <1>0, <1>q, RatiosQuiet
  <1>1. CASE UNCHANGED vars
    BY <1>1, <1>q DEF vars, dataVars, histVars
  <1>2. ASSUME NEW t \in Operators, NEW j, Start(t, j), ~Rating(j) PROVE RatioInv'
    <2>1. job' = [job EXCEPT ![t] = j] /\ users' = users /\ ratios' = ratios /\ torn' = torn /\ purged' = purged
      BY <1>2 DEF Start, dataVars, histVars
    <2>2. \A o \in Operators : job'[o] = job[o] \/ ~Rating(job'[o])
      BY <1>0, <1>2, <2>1 DEF JobsOK
    <2> QED BY <1>0, <2>1, <2>2, RatiosQuiet
  <1>3. ASSUME NEW t \in Operators, \E u \in Uids, k \in Values : Give(t, u, k) \/ Take(t, u, k) PROVE RatioInv'
    BY <1>3, <1>q DEF Give, Take
  <1>4. ASSUME NEW t \in Operators, ChangeLoad(t) \/ Save(t) \/ Insert(t) PROVE RatioInv'
    BY <1>0, <1>4, ChangeLoadRatios, SaveRatios, InsertRatios
  <1>5. ASSUME NEW t \in Operators, Create(t) \/ SaveGroup(t) \/ Erase(t) PROVE RatioInv'
    <2>1. job' = [job EXCEPT ![t] = NoJob] /\ ratios' = ratios /\ torn' = torn
      BY <1>5 DEF Create, SaveGroup, Erase, histVars
    <2>2. ~Rating(NoJob)
      BY DEF Rating, NoJob
    <2>3. \A o \in Operators : job'[o] = job[o] \/ ~Rating(job'[o])
      BY <1>0, <2>1, <2>2 DEF JobsOK
    <2>4. /\ purged \subseteq purged'
          /\ \A u \in Uids : users'[u] = users[u] \/ u \in purged'
      <3>1. CASE Create(t) \/ SaveGroup(t)
        BY <3>1 DEF Create, SaveGroup, histVars
      <3>2. CASE Erase(t)
        <4>1. CASE job[t].op = "PURGE"
          <5>1. users' = [users EXCEPT ![job[t].uid] = None] /\ purged' = purged \cup {job[t].uid}
            BY <3>2, <4>1 DEF Erase
          <5> QED BY <1>0, <5>1
        <4>2. CASE job[t].op # "PURGE"
          BY <3>2, <4>2 DEF Erase
        <4> QED BY <4>1, <4>2
      <3> QED BY <1>5, <3>1, <3>2
    <2> QED BY <1>0, <2>1, <2>3, <2>4, RatiosQuiet
  <1>6. CASE (\E g \in Gids : ReplicateGroup(g)) \/ (\E u \in Uids : ReplicateUser(u))
    BY <1>6, <1>q DEF ReplicateGroup, ReplicateUser, dataVars, histVars
  <1>7. CASE \E i \in incr : IncrCredits(i)
    BY <1>7, <1>q DEF IncrCredits, histVars
  <1>8. CASE Next
    BY <1>8, <1>2, <1>3, <1>4, <1>5, <1>6, <1>7, CommandSteps, BeginsUnrated
  <1> QED BY <1>1, <1>8

\* The accounts of CreateDefaults have the ratios of a new user.
LEMMA FirstRatios ==
  ASSUME AccountAssumption, Init
  PROVE  RatioInv
PROOF
  <1>1. ratios = [u \in Uids |-> RatiosOf(NewUser)] /\ job = [t \in Operators |-> NoJob]
    BY DEF Init
  <1>2. RatiosOf(NewUser) = [r \in RatioMap |-> IF r = "ratio" THEN 3 ELSE -1]
    BY DEF RatiosOf, NewUser, RatioMap
  <1>3. ratios \in [Uids -> [RatioMap -> Int]]
    BY <1>1, <1>2
  <1>4. ASSUME NEW u \in Users, NEW r \in RatioMap PROVE users[u][r] = ratios[u][r]
    <2>0. u \in Uids /\ users[u] # None
      BY DEF Users
    <2>1. ratios[u][r] = IF r = "ratio" THEN 3 ELSE -1
      BY <1>1, <1>2, <2>0
    <2>2. users[u] \in {[NewUser EXCEPT !.flags = {"siteop"}, !.pgid = 0], [NewUser EXCEPT !.flags = {"template"}],
                        [NewUser EXCEPT !.pgid = OwnGroup, !.gadmin = {OwnGroup}, !.flags = {"gadmin"}]}
      BY <2>0 DEF Init
    <2>3. users[u].ratio = 3 /\ users[u].sratio = -1
      BY <2>2 DEF NewUser
    <2> QED BY <2>1, <2>3 DEF RatioMap
  <1>5. \A t \in Operators : ~Rating(job[t])
    BY <1>1 DEF NoJob, Rating
  <1> QED BY <1>3, <1>4, <1>5 DEF RatioInv, CopyRatios

\* It holds in every reachable state.
LEMMA RatiosReached ==
  ASSUME AccountAssumption
  PROVE  Spec => []RatioInv
PROOF
  <1>1. Init => RatioInv
    BY FirstRatios
  <1>2. AccountsInv /\ RatioInv /\ [Next]_vars => RatioInv'
    BY RatioStep
  <1>3. Spec => []AccountsInv
    BY AccountsReached
  <1> QED BY <1>1, <1>2, <1>3, PTL DEF Spec

\* However commands overlap, the number that CHANGE confirmed last is the one in the
\* account. So are its ratios, which are one field, unless two operators changed ratios
\* of that account at once or its uid is that of a purged account. The credits of all
\* accounts with the increments that are under way are what the site gave less what it
\* took.
THEOREM ChangesAreKept ==
  AccountAssumption => (Spec => []ChangesKept)
PROOF
  <1> SUFFICES ASSUME AccountAssumption PROVE Spec => []ChangesKept
    OBVIOUS
  <1>1. AccountsInv /\ RatioInv => ChangesKept
    <2> SUFFICES ASSUME AccountsInv, RatioInv PROVE ChangesKept
      OBVIOUS
    <2>1. NumsKept /\ IncrInv /\ Balanced /\ DataTyped
      BY DEF AccountsInv, CommandsInv, AccountInv, LedgerInv
    <2>2. CreditsConserved
      BY <2>1 DEF CreditsConserved, IncrInv, Balanced, Held, Due
    <2>3. ASSUME NEW u \in Users \ (torn \cup purged) PROVE RatiosOf(users[u]) = ratios[u]
      <3>1. u \in Uids /\ users[u] \in Account
        BY <2>1, KnownUser
      <3>2. RatiosOf(users[u]) \in [RatioMap -> Int] /\ ratios[u] \in [RatioMap -> Int]
        BY <3>1, RatiosAre DEF RatioInv
      <3>3. \A r \in RatioMap : RatiosOf(users[u])[r] = ratios[u][r]
        BY <3>1, RatiosAre DEF RatioInv
      <3> QED BY <3>2, <3>3
    <2> QED BY <2>1, <2>2, <2>3 DEF ChangesKept, NumbersNotLost, NumsKept
  <1>2. Spec => []AccountsInv
    BY AccountsReached
  <1>3. Spec => []RatioInv
    BY RatiosReached
  <1> QED BY <1>1, <1>2, <1>3, PTL


\* Only the write of a handler changes an account that stays.
LEMMA WritesOnly ==
  ASSUME AccountAssumption, AccountsInv, [Next]_vars, NEW u \in Users, users'[u] # None, users'[u] # users[u]
  PROVE  \E t \in Operators : Save(t) /\ job[t].uid = u /\ users'[u] = SetFields(users[u], job[t])
PROOF
  <1>0. DataTyped /\ u \in Uids /\ users[u] # None
    BY DEF AccountsInv, CommandsInv, AccountInv, Users
  <1>1. users' # users
    OBVIOUS
  <1>2. Next
    BY <1>1 DEF vars, dataVars
  <1>3. PICK t \in Operators : Save(t) \/ Insert(t) \/ Erase(t)
    <2>1. ~(\E i \in incr : IncrCredits(i)) /\ ~(\E g \in Gids : ReplicateGroup(g)) /\ ~(\E v \in Uids : ReplicateUser(v))
      BY <1>1 DEF IncrCredits, ReplicateGroup, ReplicateUser, dataVars
    <2>2. \A t, j : ~Start(t, j)
      BY <1>1 DEF Start, dataVars
    <2>3. \A t, v, op, a : ~Loaded(t, v, op, a)
      BY <2>2, Zenon DEF Loaded
    <2>4. \A t, g, v : ~NewFrom(t, g, v)
      BY <2>2, Zenon DEF NewFrom
    <2>5. \A t \in Operators :
            /\ \A g : ~AddUser(t, g) /\ ~GAddUser(t, g) /\ ~GrpDel(t, g)
            /\ \A v : ~TAddUser(t, v) /\ ~DelUser(t, v) /\ ~Readd(t, v) /\ ~Purge(t, v)
      BY <2>2, <2>3, <2>4, Zenon DEF AddUser, GAddUser, GrpDel, TAddUser, DelUser, Readd, Purge
    <2>6. \A t \in Operators :
            /\ \A v, how, ns : ~ChGrp(t, v, how, ns)
            /\ \A v, n : ~SetPGrp(t, v, n) /\ ~ChGadmin(t, v, n)
      BY <2>3, ZenonT(30) DEF ChGrp, SetPGrp, ChGadmin
    <2>7. \A t \in Operators :
            /\ \A s, v, F, us : ~Change(t, s, v, F, us)
            /\ \A n : ~GrpAdd(t, n)
            /\ \A g, n : ~GrpRen(t, g, n)
            /\ \A g, l, v : ~GrpChange(t, g, l, v)
      BY <2>2, ZenonT(30) DEF Change, GrpAdd, GrpRen, GrpChange
    <2>8. \A t \in Operators :
            /\ \A v, k : ~Give(t, v, k) /\ ~Take(t, v, k)
            /\ ~ChangeLoad(t) /\ ~Create(t) /\ ~SaveGroup(t)
      BY <1>1 DEF Give, Take, ChangeLoad, Create, SaveGroup, dataVars
    <2> QED BY <1>2, <2>1, <2>5, <2>6, <2>7, <2>8, CommandSteps, Zenon
  <1>4. CASE Save(t)
    <2>1. users' = [users EXCEPT ![job[t].uid] = IF @ = None THEN None ELSE SetFields(@, job[t])]
      BY <1>4 DEF Save
    <2>2. job[t].uid = u /\ users'[u] = SetFields(users[u], job[t])
      BY <1>0, <2>1 DEF DataTyped
    <2> QED BY <1>4, <2>2
  <1>5. CASE Insert(t)
    <2>1. Max(Users) + 1 \in Uids /\ users' = [users EXCEPT ![Max(Users) + 1] = job[t].acc]
      BY <1>5 DEF Insert
    <2>2. u # Max(Users) + 1
      BY <2>1, NewUid
    <2> QED BY <1>0, <2>1, <2>2 DEF DataTyped
  <1>6. CASE Erase(t)
    <2>1. users' = users \/ users' = [users EXCEPT ![job[t].uid] = None]
      BY <1>6 DEF Erase
    <2> QED BY <1>0, <2>1 DEF DataTyped
  <1> QED BY <1>3, <1>4, <1>5, <1>6

\* No step revives a deleted account, but for the cases that StayDeleted names.
LEMMA DeletedStep ==
  ASSUME AccountAssumption, AccountsInv, [Next]_vars
  PROVE  StayDeleted
PROOF
  <1> SUFFICES ASSUME NEW u \in Users, users'[u] # None,
                      "deleted" \in users[u].flags, "deleted" \notin users'[u].flags, ~raced
               PROVE  \E t \in Operators : job[t].op = "READD" \/ job[t].set = "flags="
    BY DEF StayDeleted
  <1>0. DataTyped /\ JobsOK /\ DeletedInv
    BY DEF AccountsInv, CommandsInv, AccountInv
  <1>1. PICK t \in Operators : Save(t) /\ job[t].uid = u /\ users'[u] = SetFields(users[u], job[t])
    BY WritesOnly
  <1>2. PICK j : j = job[t]
    OBVIOUS
  <1>3. JobOK(j) /\ j.at \in {"save", "flag"} /\ users[u] \in Account /\ CopyDeleted(j)
    BY <1>0, <1>1, <1>2, KnownUser DEF Save, JobsOK, DeletedInv
  <1>4. users'[u].flags = (IF WritesFlagsNow(j) THEN j.acc.flags ELSE users[u].flags)
    <2>1. PICK old : old = users[u]
      OBVIOUS
    <2>2. PICK n : n = SetFields(old, j)
      OBVIOUS
    <2>3. AccountAssumption /\ JobOK(j) /\ j.at \in {"save", "flag"} /\ old \in Account
      BY <1>3, <2>1
    <2>4. /\ n \in Account
          /\ n.num = IF j.set \in Settings THEN [old.num EXCEPT ![j.set] = j.val] ELSE old.num
          /\ n.pgid = (IF j.op \in GroupWrites THEN j.acc.pgid ELSE old.pgid)
          /\ n.sgids = (IF j.op \in GroupWrites THEN j.acc.sgids ELSE old.sgids)
          /\ n.gadmin = (IF j.op \in GroupWrites \/ (j.op = "CHGADMIN" /\ j.at = "save") THEN j.acc.gadmin ELSE old.gadmin)
          /\ n.flags = (IF WritesFlagsNow(j) THEN j.acc.flags ELSE old.flags)
      BY <2>2, <2>3, SavedDocument
    <2> QED BY <1>1, <1>2, <2>1, <2>2, <2>4
  <1>5. WritesFlagsNow(j) /\ "deleted" \notin j.acc.flags
    BY <1>4
  <1>6. ~WritesFlags(j)
    BY <1>1, <1>2, <1>3, <1>5 DEF CopyDeleted
  <1>7. j.op = "READD" \/ j.set = "flags="
    BY <1>3, <1>5, <1>6 DEF WritesFlags, WritesFlagsNow, FlagSettings
  <1> QED BY <1>2, <1>7

\* A deleted account comes back only by READD, by a CHANGE that sets all flags, or by
\* a write of flags that were loaded before a command that overlapped.
THEOREM DeletedStay ==
  AccountAssumption => (Spec => [][StayDeleted]_vars)
PROOF
  <1> SUFFICES ASSUME AccountAssumption PROVE Spec => [][StayDeleted]_vars
    OBVIOUS
  <1>1. AccountsInv /\ [Next]_vars => StayDeleted
    BY DeletedStep
  <1>2. Spec => []AccountsInv
    BY AccountsReached
  <1> QED BY <1>1, <1>2, PTL DEF Spec


-----------------------------------------------------------------------------
(* The limits of a group *)

\* An allotment is not negative; a command has loaded or will write no other.
AllotKept(a) == a.allot # None => a.allot >= 0

JobAllot(j) ==
  /\ j.at = "insert" => AllotKept(j.acc)
  /\ j.op = "CHANGE" /\ j.set = "wkly_allotment" => j.val >= 0 /\ (j.at = "save" => j.acc.allot = j.val)
  /\ j.op = "CHANGE" /\ j.set = "ratio" /\ j.at = "save" => j.acc.ratio = j.val
  /\ j.op = "GRPADD" => j.acc.limit["max_allot_size"] >= 0
  /\ j.op = "GRPCHANGE" /\ j.set = "max_allot_size" => j.val >= 0

\* No allotment and no maximum of them is negative, also in what is about to be written.
AllotInv ==
  /\ \A u \in Users : AllotKept(users[u])
  /\ \A g \in Groups : groups[g].limit["max_allot_size"] >= 0
  /\ \A t \in Operators : JobAllot(job[t])

\* What the load of a gadmin's command found still holds when the handler writes.
Fits(j, a, g) ==
  /\ j.set = "ratio" /\ j.val = 0 => g \in Groups /\ NumLeeches(g) < groups[g].limit["leech_slots"]
  /\ j.set = "wkly_allotment" /\ j.val > 0 =>
       g \in Groups /\ TotalAllotmentSize(g) - Amount(a.allot) + j.val <= groups[g].limit["max_allot_size"]
Allowed(j) ==
  /\ j.op \in {"idle", "ADDUSER", "DELUSER", "READD", "CHANGE"}
  /\ j.op = "ADDUSER" => j.gid \in Groups /\ SlotFree(j.gid) /\ (j.at = "save" => j.acc.pgid = j.gid)
  /\ j.op = "DELUSER" => "deleted" \in j.acc.flags
  /\ j.op = "READD" => j.uid \in Users /\ users[j.uid].pgid \in Groups /\ SlotFree(users[j.uid].pgid)
  /\ j.op = "CHANGE" => j.set \in {"ratio", "wkly_allotment"}
  /\ j.op = "CHANGE" /\ j.at = "save" => j.uid \in Users /\ Fits(j, users[j.uid], users[j.uid].pgid)
AllowedInv == ~raced => \A t \in Gadmins : Allowed(job[t])

LimitInv == AllotInv /\ AllowedInv

\* A command begins with what the limits ask.
LimitsBegin(t) ==
  \E j : Start(t, j) /\ JobAllot(j) /\ (t \in Gadmins => Allowed(j))

\* A gadmin's new account finds a slot free when it begins.
LEMMA NewFromLimits ==
  ASSUME AccountAssumption, AccountsInv, LimitInv, NEW t \in Operators, NEW g, NEW tu \in Users,
         NewFrom(t, g, tu), t \in Gadmins => g \in Groups /\ SlotFree(g)
  PROVE  LimitsBegin(t)
PROOF
  <1>1. PICK a : a = DelFlags(users[tu], {"template"})
    OBVIOUS
  <1>2. PICK j : j = [NoJob EXCEPT !.op = "ADDUSER", !.at = "insert", !.gid = g, !.val = credits[tu], !.acc = a]
    OBVIOUS
  <1>3. Start(t, j)
    BY <1>1, <1>2 DEF NewFrom
  <1>4. j.op = "ADDUSER" /\ j.at = "insert" /\ j.gid = g /\ j.acc = a
    BY <1>2 DEF NoJob
  <1>5. AllotKept(users[tu]) /\ users[tu] \in Account
    BY KnownUser DEF LimitInv, AllotInv, AccountsInv, CommandsInv, AccountInv
  <1>6. a.allot = users[tu].allot
    BY <1>1, <1>5 DEF DelFlags, Account, User
  <1>7. JobAllot(j)
    BY <1>4, <1>5, <1>6 DEF JobAllot, AllotKept
  <1>8. t \in Gadmins => Allowed(j)
    BY <1>4 DEF Allowed
  <1> QED BY <1>3, <1>7, <1>8 DEF LimitsBegin

\* A gadmin's DELUSER frees a slot and its READD finds one free.
LEMMA LoadedLimits ==
  ASSUME NEW t \in Operators, NEW u, NEW op \in UserWrites \ {"ADDUSER"}, NEW a, Loaded(t, u, op, a),
         t \in Gadmins => /\ op \in {"DELUSER", "READD"}
                          /\ op = "DELUSER" => "deleted" \in a.flags
                          /\ op = "READD" => u \in Users /\ users[u].pgid \in Groups /\ SlotFree(users[u].pgid)
  PROVE  LimitsBegin(t)
PROOF
  <1>1. PICK j : j = [NoJob EXCEPT !.op = op, !.at = "save", !.uid = u, !.acc = a, !.flags = a.gadmin \ users[u].gadmin]
    OBVIOUS
  <1>2. Start(t, j)
    BY <1>1 DEF Loaded
  <1>3. j.op = op /\ j.at = "save" /\ j.uid = u /\ j.acc = a
    BY <1>1 DEF NoJob
  <1>4. op \notin {"ADDUSER", "CHANGE", "GRPADD", "GRPCHANGE"}
    BY DEF UserWrites, GroupWrites
  <1>5. JobAllot(j)
    BY <1>3, <1>4 DEF JobAllot
  <1>6. t \in Gadmins => Allowed(j)
    BY <1>3, <1>4 DEF Allowed
  <1> QED BY <1>2, <1>5, <1>6 DEF LimitsBegin

\* The commands that add a user begin within the limits.
LEMMA AddUserLimits ==
  ASSUME AccountAssumption, AccountsInv, LimitInv, NEW t \in Operators,
         \/ \E g \in Gids \cup {-1} : AddUser(t, g) \/ GAddUser(t, g)
         \/ \E u \in Uids : TAddUser(t, u)
  PROVE  LimitsBegin(t)
PROOF
  <1>1. ASSUME NEW g, AddUser(t, g) \/ GAddUser(t, g) PROVE LimitsBegin(t)
    <2>1. DefaultUser \in Users /\ NewFrom(t, g, DefaultUser) /\ (~Siteop(t) => g \in Groups /\ SlotFree(g))
      BY <1>1 DEF AddUser, GAddUser
    <2> QED BY <2>1, NewFromLimits DEF Siteop
  <1>2. ASSUME NEW u, TAddUser(t, u) PROVE LimitsBegin(t)
    <2>1. u \in Users /\ NewFrom(t, -1, u) /\ t \notin Gadmins
      BY <1>2 DEF TAddUser, Siteop
    <2> QED BY <2>1, NewFromLimits
  <1> QED BY <1>1, <1>2

\* The other commands on one user begin within the limits.
LEMMA UserCommandLimits ==
  ASSUME AccountAssumption, AccountsInv, NEW t \in Operators,
         \/ \E u \in Uids : DelUser(t, u) \/ Readd(t, u)
         \/ \E u \in Uids, how \in {"-", "=", "+", "toggle"}, ns \in Lists : ChGrp(t, u, how, ns)
         \/ \E u \in Uids, n \in GNames : SetPGrp(t, u, n) \/ ChGadmin(t, u, n)
  PROVE  LimitsBegin(t)
PROOF
  <1>0. {"DELUSER", "READD", "CHGRP", "SETPGRP", "CHGADMIN"} \subseteq UserWrites \ {"ADDUSER"} /\ DataTyped
    BY DEF UserWrites, GroupWrites, AccountsInv, CommandsInv, AccountInv
  <1>1. ASSUME NEW u, DelUser(t, u) PROVE LimitsBegin(t)
    <2>1. PICK a : a = AddFlags(users[u], {"deleted"})
      OBVIOUS
    <2>2. Loaded(t, u, "DELUSER", a) /\ u \in Users
      BY <1>1, <2>1 DEF DelUser
    <2>3. users[u] \in Account /\ {"deleted"} \in SUBSET Flags
      BY <1>0, <2>2, KnownUser DEF Flags
    <2>4. "deleted" \in a.flags
      BY <2>1, <2>3 DEF AddFlags, Account, User
    <2> QED BY <1>0, <2>2, <2>4, LoadedLimits
  <1>2. ASSUME NEW u, Readd(t, u) PROVE LimitsBegin(t)
    <2>1. PICK a : a = DelFlags(users[u], {"deleted"})
      OBVIOUS
    <2>2. Loaded(t, u, "READD", a) /\ u \in Users
      BY <1>2, <2>1 DEF Readd
    <2>3. t \in Gadmins => users[u].pgid \in Groups /\ SlotFree(users[u].pgid)
      BY <1>2 DEF Readd, Siteop
    <2> QED BY <1>0, <2>2, <2>3, LoadedLimits
  <1>3. ASSUME NEW u, NEW how, NEW ns, ChGrp(t, u, how, ns) PROVE LimitsBegin(t)
    <2>1. t \notin Gadmins /\ \E a : Loaded(t, u, "CHGRP", a)
      BY <1>3 DEF ChGrp, Siteop
    <2> QED BY <1>0, <2>1, LoadedLimits
  <1>4. ASSUME NEW u, NEW n, SetPGrp(t, u, n) \/ ChGadmin(t, u, n) PROVE LimitsBegin(t)
    <2>1. t \notin Gadmins /\ \E a : Loaded(t, u, "SETPGRP", a) \/ Loaded(t, u, "CHGADMIN", a)
      BY <1>4 DEF SetPGrp, ChGadmin, Siteop
    <2> QED BY <1>0, <2>1, LoadedLimits
  <1> QED BY <1>1, <1>2, <1>3, <1>4

\* CHANGE begins before it has loaded what it will check.
LEMMA ChangeLimits ==
  ASSUME AccountAssumption, NEW t \in Operators, NEW s, NEW v, NEW F, NEW us, Change(t, s, v, F, us)
  PROVE  LimitsBegin(t)
PROOF
  <1>1. PICK q : q = SetToSortSeq(us, <)
    OBVIOUS
  <1>2. PICK j : j = [NoJob EXCEPT !.op = "CHANGE", !.at = "load", !.todo = q, !.set = s, !.flags = F,
                            !.val = IF s = "ratio" /\ v = -1 THEN users[DefaultUser].ratio ELSE v]
    OBVIOUS
  <1>3. Check(t, s, v, F) /\ Start(t, j)
    BY <1>1, <1>2 DEF Change
  <1>4. j.op = "CHANGE" /\ j.at = "load" /\ j.set = s /\ (s # "ratio" => j.val = v)
    BY <1>2 DEF NoJob
  <1>5. s = "wkly_allotment" => v >= 0
    BY <1>3 DEF Check, CheckWeeklyAllotment, AccountAssumption, RatioMap, FlagSettings
  <1>6. JobAllot(j)
    BY <1>4, <1>5 DEF JobAllot
  <1>7. t \in Gadmins => s \in {"ratio", "wkly_allotment"}
    BY <1>3 DEF Check, Siteop
  <1>8. t \in Gadmins => Allowed(j)
    BY <1>4, <1>7 DEF Allowed
  <1> QED BY <1>3, <1>6, <1>8 DEF LimitsBegin

\* PURGE and the commands on groups are never a gadmin's.
LEMMA GroupCommandLimits ==
  ASSUME AccountAssumption, AccountsInv, LimitInv, NEW t \in Operators,
         \/ \E u \in Uids : Purge(t, u)
         \/ \E g \in Gids : GrpDel(t, g)
         \/ \E n \in GNames : GrpAdd(t, n)
         \/ \E g \in Gids, n \in GNames : GrpRen(t, g, n)
         \/ \E g \in Gids, l \in Limits, v \in Values : GrpChange(t, g, l, v)
  PROVE  LimitsBegin(t)
PROOF
  <1>1. ASSUME NEW u, Purge(t, u) PROVE LimitsBegin(t)
    <2>1. PICK j : j = [NoJob EXCEPT !.op = "PURGE", !.at = "remove", !.uid = u]
      OBVIOUS
    <2>2. Start(t, j) /\ t \notin Gadmins
      BY <1>1, <2>1 DEF Purge, Siteop
    <2>3. JobAllot(j)
      BY <2>1 DEF JobAllot, NoJob
    <2> QED BY <2>2, <2>3 DEF LimitsBegin
  <1>2. ASSUME NEW g, GrpDel(t, g) PROVE LimitsBegin(t)
    <2>1. PICK j : j = [NoJob EXCEPT !.op = "GRPDEL", !.at = "remove", !.gid = g]
      OBVIOUS
    <2>2. Start(t, j) /\ t \notin Gadmins
      BY <1>2, <2>1 DEF GrpDel, Siteop
    <2>3. JobAllot(j)
      BY <2>1 DEF JobAllot, NoJob
    <2> QED BY <2>2, <2>3 DEF LimitsBegin
  <1>3. ASSUME NEW n, GrpAdd(t, n) PROVE LimitsBegin(t)
    <2>1. PICK j : j = [NoJob EXCEPT !.op = "GRPADD", !.at = "create", !.set = n, !.acc = groups[DefaultGroup]]
      OBVIOUS
    <2>2. Start(t, j) /\ t \notin Gadmins /\ DefaultGroup \in Groups
      BY <1>3, <2>1 DEF GrpAdd, Siteop
    <2>3. j.op = "GRPADD" /\ j.at = "create" /\ j.acc = groups[DefaultGroup]
      BY <2>1 DEF NoJob
    <2>4. JobAllot(j)
      BY <2>2, <2>3 DEF JobAllot, LimitInv, AllotInv
    <2> QED BY <2>2, <2>4 DEF LimitsBegin
  <1>4. ASSUME NEW g, NEW n, GrpRen(t, g, n) PROVE LimitsBegin(t)
    <2>1. PICK j : j = [NoJob EXCEPT !.op = "GRPREN", !.at = "group", !.gid = g, !.set = n]
      OBVIOUS
    <2>2. Start(t, j) /\ t \notin Gadmins
      BY <1>4, <2>1 DEF GrpRen, Siteop
    <2>3. JobAllot(j)
      BY <2>1 DEF JobAllot, NoJob
    <2> QED BY <2>2, <2>3 DEF LimitsBegin
  <1>5. ASSUME NEW g, NEW l, NEW v, GrpChange(t, g, l, v) PROVE LimitsBegin(t)
    <2>1. PICK j : j = [NoJob EXCEPT !.op = "GRPCHANGE", !.at = "group", !.gid = g, !.set = l, !.val = v]
      OBVIOUS
    <2>2. Start(t, j) /\ t \notin Gadmins /\ CheckLimit(l, v)
      BY <1>5, <2>1 DEF GrpChange, Siteop
    <2>3. j.op = "GRPCHANGE" /\ j.at = "group" /\ j.set = l /\ j.val = v
      BY <2>1 DEF NoJob
    <2>4. l = "max_allot_size" => v >= 0
      BY <2>2 DEF CheckLimit
    <2>5. JobAllot(j)
      BY <2>3, <2>4 DEF JobAllot
    <2> QED BY <2>2, <2>5 DEF LimitsBegin
  <1> QED BY <1>1, <1>2, <1>3, <1>4, <1>5


\* The sum of the allotments of a group is a number.
LEMMA TotalIsNumber ==
  ASSUME AccountAssumption, DataTyped, NEW g
  PROVE  /\ TotalAllotmentSize(g) \in Int /\ IsFiniteSet(Allotted(g)) /\ Allotted(g) \subseteq Users
         /\ \A u \in Allotted(g) : users[u].allot \in Int
PROOF
  <1>1. Allotted(g) \subseteq Users
    BY DEF Allotted
  <1>2. IsFiniteSet(Allotted(g))
    BY <1>1, UsersFinite
  <1>3. ASSUME NEW u \in Allotted(g) PROVE users[u].allot \in Int /\ u \in Uids
    <2>1. users[u] \in Account /\ users[u].allot # None /\ u \in Uids
      BY <1>1, KnownUser DEF Allotted
    <2> QED BY <2>1, AccountFields
  <1>4. TotalAllotmentSize(g) \in Int
    <2> DEFINE f == [u \in Uids |-> users[u].allot]
    <2>1. \A u \in Allotted(g) : f[u] \in Int
      BY <1>3
    <2>2. TotalAllotmentSize(g) = IF Allotted(g) = {} THEN -1 ELSE SumFunctionOnSet(f, Allotted(g))
      BY DEF TotalAllotmentSize
    <2> HIDE DEF f
    <2>3. SumFunctionOnSet(f, Allotted(g)) \in Int
      BY <1>2, <2>1, SumInteger
    <2> QED BY <2>2, <2>3
  <1> QED BY <1>1, <1>2, <1>3, <1>4


\* What was allowed stays so while no document changes.
LEMMA AllowedSame ==
  ASSUME users' = users, groups' = groups, NEW t, Allowed(job'[t])
  PROVE  Allowed(job[t])'
PROOF
  <1>1. Users' = Users /\ Groups' = Groups
    BY DEF Users, Groups
  <1>2. \A g : /\ NumSlotsUsed(g)' = NumSlotsUsed(g) /\ NumLeeches(g)' = NumLeeches(g)
               /\ Allotted(g)' = Allotted(g)
    BY <1>1 DEF NumSlotsUsed, NumLeeches, Allotted
  <1>3. \A g : TotalAllotmentSize(g)' = TotalAllotmentSize(g)
    BY <1>1, <1>2 DEF TotalAllotmentSize
  <1>4. \A g : SlotFree(g)' <=> SlotFree(g)
    BY <1>2 DEF SlotFree
  <1> QED BY <1>1, <1>2, <1>3, <1>4 DEF Allowed, Fits

\* Who has no job exceeds no limit.
LEMMA IdleAllowed ==
  /\ JobAllot(NoJob)
  /\ \A j : j.op = "idle" => Allowed(j)
PROOF
  BY DEF NoJob, JobAllot, Allowed

\* A command that begins within the limits keeps the invariant of the limits.
LEMMA LimitsBeginKeeps ==
  ASSUME AccountAssumption, AccountsInv, LimitInv, NEW t \in Operators, LimitsBegin(t)
  PROVE  LimitInv'
PROOF
  <1>0. JobsOK /\ AllotInv /\ AllowedInv /\ Gadmins \subseteq Operators
    BY DEF AccountsInv, CommandsInv, AccountInv, LimitInv, AccountAssumption
  <1>1. PICK j : Start(t, j) /\ JobAllot(j) /\ (t \in Gadmins => Allowed(j))
    BY DEF LimitsBegin
  <1>2. /\ job' = [job EXCEPT ![t] = j] /\ users' = users /\ groups' = groups /\ (raced => raced')
    BY <1>1 DEF Start, dataVars
  <1>3. job'[t] = j /\ \A o \in Operators : o # t => job'[o] = job[o]
    BY <1>0, <1>2 DEF JobsOK
  <1>4. Users' = Users /\ Groups' = Groups
    BY <1>2 DEF Users, Groups
  <1>5. AllotInv'
    BY <1>0, <1>1, <1>2, <1>3, <1>4 DEF AllotInv, AllotKept, JobAllot
  <1>6. AllowedInv'
    <2> SUFFICES ASSUME ~raced', NEW o \in Gadmins PROVE Allowed(job[o])'
      BY DEF AllowedInv
    <2>1. ~raced
      BY <1>2
    <2>2. Allowed(job'[o])
      <3>1. CASE o = t
        BY <1>1, <1>3, <3>1
      <3>2. CASE o # t
        BY <1>0, <1>3, <2>1, <3>2 DEF AllowedInv
      <3> QED BY <3>1, <3>2
    <2> QED BY <1>2, <2>2, AllowedSame
  <1> QED BY <1>5, <1>6 DEF LimitInv

\* A step of one handler.
LEMMA LimitHandler ==
  ASSUME AccountAssumption, AccountsInv, LimitInv, NEW t \in Operators, job[t].op # "idle", NEW k, JobAllot(k),
         job' = [job EXCEPT ![t] = k], raced' = raced,
         \A u \in Users' : AllotKept(users'[u]),
         \A g \in Groups' : groups'[g].limit["max_allot_size"] >= 0,
         ~raced /\ t \in Gadmins => Allowed(job[t])'
  PROVE  LimitInv'
PROOF
  <1>0. JobsOK /\ AllotInv /\ AllowedInv /\ RightsInv /\ Gadmins \subseteq Operators
    BY DEF AccountsInv, CommandsInv, AccountInv, LimitInv, AccountAssumption
  <1>1. job'[t] = k /\ \A o \in Operators : o # t => job'[o] = job[o]
    BY <1>0 DEF JobsOK
  <1>2. \A o \in Operators : JobAllot(job'[o])
    BY <1>0, <1>1 DEF AllotInv
  <1>3. AllotInv'
    BY <1>2 DEF AllotInv, AllotKept, JobAllot
  <1>4. AllowedInv'
    <2> SUFFICES ASSUME ~raced, NEW o \in Gadmins, o # t PROVE Allowed(job[o])'
      BY DEF AllowedInv
    <2>1. job[o].op = "idle"
      BY <1>0 DEF RightsInv
    <2>2. job'[o].op = "idle"
      BY <1>0, <1>1, <2>1
    <2> QED BY <2>2 DEF Allowed
  <1> QED BY <1>3, <1>4 DEF LimitInv

\* A gadmin's CHANGE checks the leech slots and allotments of the user that it loads.
LEMMA ChangeLoadLimits ==
  ASSUME AccountAssumption, AccountsInv, LimitInv, NEW t \in Operators, ChangeLoad(t)
  PROVE  LimitInv'
PROOF
  <1>0. DataTyped /\ JobsOK /\ AllotInv /\ AllowedInv
    BY DEF AccountsInv, CommandsInv, AccountInv, LimitInv
  <1>1. PICK j : j = job[t]
    OBVIOUS
  <1>2. PICK u : u = Head(j.todo)
    OBVIOUS
  <1>3. JobOK(j) /\ j.at = "load" /\ JobShape(j) /\ j.op = "CHANGE" /\ Asked(j) /\ JobAllot(j)
    <2>1. JobOK(j) /\ j.at = "load" /\ JobAllot(j)
      BY <1>0, <1>1 DEF ChangeLoad, JobsOK, AllotInv
    <2> QED BY <2>1, Phase
  <1>4. PICK k : k = IF j.todo = <<>> THEN NoJob
                     ELSE IF u \notin Users THEN [j EXCEPT !.todo = Tail(@)]
                     ELSE IF Refuses(t, j, u) THEN NoJob
                     ELSE [j EXCEPT !.at = "save", !.uid = u, !.acc = Changed(j, users[u]), !.todo = Tail(@)]
    OBVIOUS
  <1>5. job' = [job EXCEPT ![t] = k]
    BY <1>1, <1>2, <1>4 DEF ChangeLoad
  <1>6. users' = users /\ groups' = groups /\ raced' = raced
    BY DEF ChangeLoad, dataVars
  <1>7. Users' = Users /\ Groups' = Groups
    BY <1>6 DEF Users, Groups
  <1>8. JobAllot(k) /\ (~raced /\ t \in Gadmins => Allowed(k))
    <2>1. CASE k = NoJob
      BY <2>1, IdleAllowed DEF NoJob
    <2>2. CASE k = [j EXCEPT !.todo = Tail(@)]
      <3>1. k.op = "CHANGE" /\ k.at = "load" /\ k.set = j.set /\ k.val = j.val
        BY <1>3, <2>2 DEF JobShape
      <3>2. ~raced /\ t \in Gadmins => j.set \in {"ratio", "wkly_allotment"}
        BY <1>0, <1>1, <1>3 DEF AllowedInv, Allowed
      <3> QED BY <1>3, <3>1, <3>2 DEF JobAllot, Allowed
    <2>3. CASE /\ u \in Users /\ ~Refuses(t, j, u)
               /\ k = [j EXCEPT !.at = "save", !.uid = u, !.acc = Changed(j, users[u]), !.todo = Tail(@)]
      <3>1. PICK a : a = Changed(j, users[u])
        OBVIOUS
      <3>2. k.op = "CHANGE" /\ k.at = "save" /\ k.set = j.set /\ k.val = j.val /\ k.uid = u /\ k.acc = a
        BY <1>3, <2>3, <3>1 DEF JobShape
      <3>3. users[u] \in Account
        BY <1>0, <2>3, KnownUser
      <3>4. j.set = "wkly_allotment" => a.allot = j.val
        BY <3>1, <3>3 DEF Changed, Account, User
      <3>5. j.set = "ratio" => a.ratio = j.val
        BY <3>1, <3>3 DEF Changed, Account, User
      <3>6. JobAllot(k)
        BY <1>3, <3>2, <3>4, <3>5 DEF JobAllot
      <3>7. ASSUME ~raced, t \in Gadmins PROVE Allowed(k)
        <4>1. j.set \in {"ratio", "wkly_allotment"}
          BY <1>0, <1>1, <1>3, <3>7 DEF AllowedInv, Allowed
        <4>2. ~Siteop(t)
          BY <3>7 DEF Siteop
        <4>3. PICK g : g = users[u].pgid
          OBVIOUS
        <4>g. /\ users[u].pgid \in Gids \cup {-1} /\ -1 \notin Gids /\ (g \in Groups => groups[g] \in Group)
          BY <1>0, <3>3, <4>3, AccountFields, KnownGroup, GidsNotMinus DEF AccountAssumption
        <4>4. j.set = "ratio" /\ j.val = 0 => g \in Groups /\ ~(NumLeeches(g) >= groups[g].limit["leech_slots"])
          BY <2>3, <4>2, <4>3 DEF Refuses
        <4>5. j.set = "wkly_allotment" /\ j.val > 0 =>
                g \in Groups /\ ~(TotalAllotmentSize(g) - Amount(users[u].allot) + j.val > groups[g].limit["max_allot_size"])
          BY <2>3, <4>2, <4>3 DEF Refuses
        <4>6. NumLeeches(g) \in Nat
          <5>1. {v \in Users : users[v].pgid = g /\ users[v].ratio = 0} \subseteq Users
            OBVIOUS
          <5> QED BY <5>1, UsersFinite DEF NumLeeches
        <4>7. TotalAllotmentSize(g) \in Int
          BY <1>0, TotalIsNumber
        <4>8. g \in Groups => groups[g].limit["leech_slots"] \in Int /\ groups[g].limit["max_allot_size"] \in Int
          BY <4>g DEF Group, Limits
        <4>9. Amount(users[u].allot) \in Int /\ j.val \in Int
          BY <1>3, <3>3, AccountFields DEF Amount, Asked
        <4>10. j.set = "ratio" /\ j.val = 0 => g \in Groups /\ NumLeeches(g) < groups[g].limit["leech_slots"]
          BY <4>4, <4>6, <4>8
        <4>11. j.set = "wkly_allotment" /\ j.val > 0 =>
                 g \in Groups /\ TotalAllotmentSize(g) - Amount(users[u].allot) + j.val <= groups[g].limit["max_allot_size"]
          BY <4>5, <4>7, <4>8, <4>9
        <4>12. Fits(k, users[u], g)
          BY <3>2, <4>10, <4>11 DEF Fits
        <4> QED BY <2>3, <3>2, <4>1, <4>3, <4>12 DEF Allowed
      <3> QED BY <3>6, <3>7
    <2> QED BY <1>4, <2>1, <2>2, <2>3
  <1>9. job'[t] = k
    BY <1>0, <1>5 DEF JobsOK
  <1>10. ~raced /\ t \in Gadmins => Allowed(job[t])'
    BY <1>6, <1>8, <1>9, AllowedSame
  <1>11. job[t].op # "idle"
    BY <1>1, <1>3
  <1>12. /\ \A v \in Users' : AllotKept(users'[v])
         /\ \A g \in Groups' : groups'[g].limit["max_allot_size"] >= 0
    BY <1>0, <1>6, <1>7 DEF AllotInv
  <1> QED BY <1>5, <1>6, <1>8, <1>10, <1>11, <1>12, LimitHandler


\* A save while no commands overlap leaves nobody else's check behind.
LEMMA SaveLimits ==
  ASSUME AccountAssumption, AccountsInv, LimitInv, NEW t \in Operators, Save(t)
  PROVE  LimitInv'
PROOF
  <1>0. DataTyped /\ JobsOK /\ AllotInv /\ AllowedInv
    BY DEF AccountsInv, CommandsInv, AccountInv, LimitInv
  <1>1. PICK j : j = job[t]
    OBVIOUS
  <1>2. JobOK(j) /\ j.at \in {"save", "flag"} /\ JobAllot(j) /\ job' = [job EXCEPT ![t] = AfterSave(j)]
    BY <1>0, <1>1 DEF Save, JobsOK, AllotInv
  <1>3. groups' = groups /\ raced' = raced
    BY DEF Save
  <1>4. \A v \in Users' : AllotKept(users'[v])
    <2> SUFFICES ASSUME NEW v \in Users' PROVE AllotKept(users'[v])
      OBVIOUS
    <2>1. v \in Uids /\ users'[v] # None
      BY DEF Users
    <2>2. v \in Users
      BY <1>0, <2>1 DEF Save, Users, DataTyped
    <2>3. CASE users'[v] = users[v]
      BY <1>0, <2>2, <2>3 DEF AllotInv
    <2>4. CASE users'[v] # users[v]
      <3>1. PICK n : n = SetFields(users[v], j)
        OBVIOUS
      <3>2. users'[v] = n
        BY <1>0, <1>1, <2>1, <2>4, <3>1 DEF Save, DataTyped
      <3>3. users[v] \in Account /\ AllotKept(users[v])
        BY <1>0, <2>2, KnownUser DEF AllotInv
      <3>4. n.allot = (IF j.op = "CHANGE" /\ j.set = "wkly_allotment" THEN j.acc.allot ELSE users[v].allot)
        BY <1>2, <3>1, <3>3, SavedAllot
      <3>5. j.op = "CHANGE" /\ j.set = "wkly_allotment" => j.acc.allot = j.val /\ j.val >= 0
        <4>1. j.op = "CHANGE" /\ j.set = "wkly_allotment" => j.at = "save"
          <5>1. NoJob.op = "idle"
            BY DEF NoJob
          <5> QED BY <1>2, <5>1 DEF JobOK, FlagSettings
        <4> QED BY <1>2, <4>1 DEF JobAllot
      <3> QED BY <3>2, <3>3, <3>4, <3>5 DEF AllotKept
    <2> QED BY <2>3, <2>4
  <1>5. JobShape(j) /\ j.op # "idle" /\ j.op \in UserWrites \cup {"CHANGE"}
    BY <1>2, Phase DEF NoJob, UserWrites, GroupWrites
  <1>6. /\ JobAllot(AfterSave(j))
        /\ \/ j.op = "CHGADMIN" \/ AfterSave(j) = NoJob
           \/ AfterSave(j).op = "CHANGE" /\ AfterSave(j).at = "load" /\ AfterSave(j).set = j.set /\ j.op = "CHANGE"
           \/ j.op = "CHANGE" /\ j.set \in FlagSettings
    <2>4. CASE j.op = "CHANGE" /\ AfterSave(j).at = "flag"
      <3>1. AfterSave(j).op = "CHANGE" /\ AfterSave(j).set = j.set /\ j.set \in FlagSettings
        BY <1>2, <2>4, SavedNext
      <3> QED BY <2>4, <3>1 DEF JobAllot, FlagSettings
    <2>1. CASE j.op = "CHANGE" /\ AfterSave(j).at # "flag"
      <3>0. ~(j.set \in FlagSettings \ {"flags+"} /\ j.at = "save" /\ j.uid = DefaultUser)
        BY <1>5, <2>1 DEF AfterSave, JobShape
      <3>1. AfterSave(j) = [j EXCEPT !.at = "load", !.uid = None, !.acc = None]
        BY <2>1, <3>0 DEF AfterSave
      <3>2. /\ AfterSave(j).op = "CHANGE" /\ AfterSave(j).at = "load" /\ AfterSave(j).set = j.set
            /\ AfterSave(j).val = j.val
        BY <1>5, <2>1, <3>1 DEF JobShape
      <3> QED BY <1>2, <2>1, <3>2 DEF JobAllot
    <2>2. CASE AfterSave(j) = NoJob
      BY <2>2, IdleAllowed
    <2>3. CASE j.op # "CHANGE" /\ AfterSave(j) # NoJob
      <3>0. j.set \notin FlagSettings
        BY <1>2, <2>3, Holds DEF AccountAssumption
      <3>1. j.op = "CHGADMIN" /\ AfterSave(j).at = "flag"
        BY <1>2, <1>5, <2>3, <3>0 DEF AfterSave, JobShape
      <3>2. AfterSave(j).op = "CHGADMIN"
        BY <1>2, <3>1, SavedNext
      <3> QED BY <3>1, <3>2 DEF JobAllot
    <2> QED BY <2>1, <2>2, <2>3, <2>4
  <1>7. job'[t] = AfterSave(j)
    BY <1>0, <1>2 DEF JobsOK
  <1>8. ~raced /\ t \in Gadmins => Allowed(job[t])'
    <2> SUFFICES ASSUME ~raced, t \in Gadmins PROVE Allowed(job[t])'
      OBVIOUS
    <2>1. Allowed(j)
      BY <1>0, <1>1 DEF AllowedInv
    <2>2. \/ AfterSave(j) = NoJob
          \/ AfterSave(j).op = "CHANGE" /\ AfterSave(j).at = "load" /\ AfterSave(j).set \in {"ratio", "wkly_allotment"}
      BY <1>6, <2>1 DEF Allowed, FlagSettings
    <2>3. \/ job'[t].op = "idle"
          \/ job'[t].op = "CHANGE" /\ job'[t].at = "load" /\ job'[t].set \in {"ratio", "wkly_allotment"}
      BY <1>7, <2>2, IdleFits
    <2>4. CASE job'[t].op = "idle"
      BY <2>4 DEF Allowed
    <2>5. CASE job'[t].op = "CHANGE" /\ job'[t].at = "load" /\ job'[t].set \in {"ratio", "wkly_allotment"}
      BY <2>5 DEF Allowed
    <2> QED BY <2>3, <2>4, <2>5
  <1>9. job[t].op # "idle"
    BY <1>1, <1>5
  <1>10. \A g \in Groups' : groups'[g].limit["max_allot_size"] >= 0
    BY <1>0, <1>3 DEF AllotInv, Groups
  <1> QED BY <1>2, <1>3, <1>4, <1>6, <1>8, <1>9, <1>10, LimitHandler

\* So does the insertion of a user.
LEMMA InsertLimits ==
  ASSUME AccountAssumption, AccountsInv, LimitInv, NEW t \in Operators, Insert(t)
  PROVE  LimitInv'
PROOF
  <1>0. DataTyped /\ JobsOK /\ AllotInv /\ AllowedInv
    BY DEF AccountsInv, CommandsInv, AccountInv, LimitInv
  <1>1. PICK j : j = job[t]
    OBVIOUS
  <1>2. PICK u : u = Max(Users) + 1
    OBVIOUS
  <1>3. JobOK(j) /\ j.at = "insert" /\ u \in Uids /\ JobAllot(j)
    BY <1>0, <1>1, <1>2 DEF Insert, JobsOK, AllotInv
  <1>4. /\ j.op = "ADDUSER" /\ JobShape(j) /\ j.acc \in Account /\ j.gid \in Gids \cup {-1}
    <2>1. NoJob.at = ""
      BY DEF NoJob
    <2> QED BY <1>3, <2>1 DEF JobOK
  <1>5. u \notin Users
    BY <1>2, <1>3, NewUid
  <1>6. PICK k : k = IF j.gid = -1 \/ j.acc.pgid = j.gid THEN NoJob
                     ELSE [j EXCEPT !.at = "save", !.uid = u, !.acc = SetPrimaryGID(j.acc, j.gid)]
    OBVIOUS
  <1>7. users' = [users EXCEPT ![u] = j.acc] /\ job' = [job EXCEPT ![t] = k] /\ groups' = groups /\ raced' = raced
    BY <1>1, <1>2, <1>6 DEF Insert
  <1>8. users'[u] = j.acc /\ \A v \in Uids : v # u => users'[v] = users[v]
    BY <1>0, <1>3, <1>7 DEF DataTyped
  <1>9. None \notin Account
    BY DEF AccountAssumption, Account
  <1>10. Users' = Users \cup {u}
    BY <1>3, <1>4, <1>8, <1>9 DEF Users
  <1>11. \A v \in Users' : AllotKept(users'[v])
    BY <1>0, <1>3, <1>8, <1>10 DEF AllotInv, JobAllot, Users
  <1>12. job'[t] = k
    BY <1>0, <1>7 DEF JobsOK
  <1>13. CASE k = NoJob
    <2>0. job'[t].op = "idle"
      BY <1>12, <1>13, IdleFits
    <2>1. JobAllot(k) /\ Allowed(job[t])'
      <3>1. Allowed(job[t])'
        BY <2>0 DEF Allowed
      <3> QED BY <1>13, <3>1, IdleAllowed
    <2>2. \A g \in Groups' : groups'[g].limit["max_allot_size"] >= 0
      BY <1>0, <1>7 DEF AllotInv, Groups
    <2> QED BY <1>1, <1>4, <1>7, <1>11, <2>1, <2>2, LimitHandler
  <1>14. CASE k # NoJob
    <2>1. PICK a : a = SetPrimaryGID(j.acc, j.gid)
      OBVIOUS
    <2>2. j.acc.pgid # j.gid /\ k = [j EXCEPT !.at = "save", !.uid = u, !.acc = a]
      BY <1>6, <1>14, <2>1
    <2>3. k.op = "ADDUSER" /\ k.at = "save" /\ k.uid = u /\ k.acc = a /\ k.gid = j.gid
      BY <1>4, <2>2 DEF JobShape
    <2>4. a.pgid = j.gid
      BY <1>4, <2>1, <2>2 DEF SetPrimaryGID, Account, User
    <2>5. JobAllot(k)
      BY <2>3 DEF JobAllot
    <2>6. ~raced /\ t \in Gadmins => Allowed(job[t])'
      <3> SUFFICES ASSUME ~raced, t \in Gadmins PROVE Allowed(job[t])'
        OBVIOUS
      <3>1. j.gid \in Groups /\ SlotFree(j.gid)
        BY <1>0, <1>1, <1>4 DEF AllowedInv, Allowed
      <3>2. PICK g : g = j.gid
        OBVIOUS
      <3>3. NumSlotsUsed(g)' = NumSlotsUsed(g)
        <4>1. {v \in Users' : users'[v].pgid = g /\ "deleted" \notin users'[v].flags}
                = {v \in Users : users[v].pgid = g /\ "deleted" \notin users[v].flags}
          BY <1>5, <1>8, <1>10, <2>2, <3>2 DEF Users
        <4> QED BY <4>1 DEF NumSlotsUsed
      <3>4. SlotFree(g)' /\ g \in Groups'
        BY <1>7, <3>1, <3>2, <3>3 DEF SlotFree, Groups
      <3> QED BY <1>12, <2>3, <2>4, <3>2, <3>4 DEF Allowed
    <2>7. \A g \in Groups' : groups'[g].limit["max_allot_size"] >= 0
      BY <1>0, <1>7 DEF AllotInv, Groups
    <2> QED BY <1>1, <1>4, <1>7, <1>11, <2>5, <2>6, <2>7, LimitHandler
  <1> QED BY <1>13, <1>14

\* So does erasing one.
LEMMA EraseLimits ==
  ASSUME AccountAssumption, AccountsInv, LimitInv, NEW t \in Operators, Erase(t)
  PROVE  LimitInv'
PROOF
  <1>0. DataTyped /\ JobsOK /\ AllotInv
    BY DEF AccountsInv, CommandsInv, AccountInv, LimitInv
  <1>1. job[t].at = "remove" /\ JobOK(job[t]) /\ job' = [job EXCEPT ![t] = NoJob] /\ raced' = raced
    BY <1>0 DEF Erase, JobsOK
  <1>2. job'[t] = NoJob
    BY <1>0, <1>1 DEF JobsOK
  <1>3. job[t].op # "idle"
    BY <1>1, Phase
  <1>4. Allowed(job[t])' /\ JobAllot(NoJob)
    BY <1>2, IdleAllowed DEF Allowed, NoJob
  <1>5. \A v \in Users' : AllotKept(users'[v])
    <2>1. \A v \in Users' : v \in Users /\ users'[v] = users[v]
      BY <1>0 DEF Erase, Users, DataTyped
    <2> QED BY <1>0, <2>1 DEF AllotInv
  <1>6. \A g \in Groups' : groups'[g].limit["max_allot_size"] >= 0
    <2>1. \A g \in Groups' : g \in Groups /\ groups'[g] = groups[g]
      BY <1>0 DEF Erase, Groups, DataTyped
    <2> QED BY <1>0, <2>1 DEF AllotInv
  <1> QED BY <1>1, <1>3, <1>4, <1>5, <1>6, LimitHandler

\* So do the writes of a group.
LEMMA GroupWriteLimits ==
  ASSUME AccountAssumption, AccountsInv, LimitInv, NEW t \in Operators, Create(t) \/ SaveGroup(t)
  PROVE  LimitInv'
PROOF
  <1>0. DataTyped /\ JobsOK /\ AllotInv
    BY DEF AccountsInv, CommandsInv, AccountInv, LimitInv
  <1>1. PICK j : j = job[t]
    OBVIOUS
  <1>2. /\ JobOK(j) /\ JobAllot(j) /\ j.at \in {"create", "group"} /\ job' = [job EXCEPT ![t] = NoJob]
        /\ raced' = raced /\ users' = users
    BY <1>0, <1>1 DEF Create, SaveGroup, JobsOK, AllotInv
  <1>3. job'[t] = NoJob
    BY <1>0, <1>2 DEF JobsOK
  <1>4. job[t].op # "idle"
    BY <1>1, <1>2, Phase
  <1>5. Allowed(job[t])' /\ JobAllot(NoJob)
    BY <1>3, IdleAllowed DEF Allowed, NoJob
  <1>6. \A v \in Users' : AllotKept(users'[v])
    BY <1>0, <1>2 DEF AllotInv, Users
  <1>7. \A g \in Groups' : groups'[g].limit["max_allot_size"] >= 0
    <2> SUFFICES ASSUME NEW h \in Groups' PROVE groups'[h].limit["max_allot_size"] >= 0
      OBVIOUS
    <2>0. h \in Gids /\ groups'[h] # None
      BY DEF Groups
    <2>1. CASE groups'[h] = groups[h]
      BY <1>0, <2>0, <2>1 DEF AllotInv, Groups
    <2>2. CASE Create(t) /\ groups'[h] # groups[h]
      <3>1. groups'[h] = [j.acc EXCEPT !.name = j.set] /\ j.at = "create"
        BY <1>0, <1>1, <2>0, <2>2 DEF Create, DataTyped
      <3>2. j.op = "GRPADD" /\ j.acc \in Group
        <4>1. NoJob.at = ""
          BY DEF NoJob
        <4> QED BY <1>2, <3>1, <4>1 DEF JobOK
      <3>3. groups'[h].limit = j.acc.limit
        BY <3>1, <3>2 DEF Group
      <3> QED BY <1>2, <3>2, <3>3 DEF JobAllot
    <2>3. CASE SaveGroup(t) /\ groups'[h] # groups[h]
      <3>1. j.at = "group" /\ h = j.gid /\ h \in Groups
            /\ groups' = IF j.op = "GRPREN" THEN [groups EXCEPT ![h].name = j.set] ELSE [groups EXCEPT ![h].limit[j.set] = j.val]
        BY <1>0, <1>1, <2>0, <2>3 DEF SaveGroup, DataTyped
      <3>2. groups[h] \in Group /\ groups[h].limit["max_allot_size"] >= 0
        BY <1>0, <3>1, KnownGroup DEF AllotInv
      <3>3. j.op = "GRPREN" \/ (j.op = "GRPCHANGE" /\ j.set \in Limits)
        <4>1. NoJob.at = ""
          BY DEF NoJob
        <4> QED BY <1>2, <3>1, <4>1 DEF JobOK, UserWrites, GroupWrites
      <3>4. CASE j.op = "GRPREN"
        <4>1. groups'[h].limit = groups[h].limit
          BY <1>0, <2>0, <3>1, <3>2, <3>4 DEF DataTyped, Group
        <4> QED BY <3>2, <4>1
      <3>5. CASE j.op = "GRPCHANGE"
        <4>1. groups'[h].limit["max_allot_size"] = IF j.set = "max_allot_size" THEN j.val ELSE groups[h].limit["max_allot_size"]
          <5>1. groups'[h].limit = [groups[h].limit EXCEPT ![j.set] = j.val]
            BY <1>0, <2>0, <3>1, <3>2, <3>5 DEF DataTyped, Group
          <5>2. groups[h].limit \in [Limits -> Int] /\ "max_allot_size" \in Limits
            BY <3>2 DEF Group, Limits
          <5> QED BY <5>1, <5>2
        <4> QED BY <1>2, <3>2, <3>5, <4>1 DEF JobAllot
      <3> QED BY <3>3, <3>4, <3>5
    <2> QED BY <2>1, <2>2, <2>3
  <1> QED BY <1>2, <1>4, <1>5, <1>6, <1>7, LimitHandler


\* A step that leaves documents and jobs alone keeps the invariant of the limits.
LEMMA LimitQuiet ==
  ASSUME LimitInv, users' = users, groups' = groups, job' = job, raced' = raced
  PROVE  LimitInv'
PROOF
  <1>1. Users' = Users /\ Groups' = Groups
    BY DEF Users, Groups
  <1>2. AllotInv'
    BY <1>1 DEF LimitInv, AllotInv, AllotKept, JobAllot
  <1>3. ASSUME NEW t \in Gadmins, ~raced PROVE Allowed(job[t])'
    <2>1. Allowed(job'[t])
      BY <1>3 DEF LimitInv, AllowedInv
    <2> QED BY <2>1, AllowedSame
  <1>4. AllowedInv'
    BY <1>3 DEF AllowedInv
  <1> QED BY <1>2, <1>4 DEF LimitInv

\* It holds initially.
LEMMA FirstLimits ==
  ASSUME AccountAssumption, Init
  PROVE  LimitInv
PROOF
  <1>1. \A t \in Operators : job[t] = NoJob
    BY DEF Init
  <1>2. Gadmins \subseteq Operators
    BY DEF AccountAssumption
  <1>3. \A t \in Operators : JobAllot(job[t]) /\ Allowed(job[t])
    BY <1>1, IdleAllowed, IdleFits
  <1>4. ASSUME NEW u \in Users PROVE AllotKept(users[u])
    <2>1. u \in Uids /\ users[u] # None
      BY DEF Users
    <2>2. users = [v \in Uids |-> CASE v = 0 -> [NewUser EXCEPT !.flags = {"siteop"}, !.pgid = 0]
                               [] v = DefaultUser -> [NewUser EXCEPT !.flags = {"template"}]
                               [] v = 2 -> [NewUser EXCEPT !.pgid = OwnGroup, !.gadmin = {OwnGroup}, !.flags = {"gadmin"}]
                               [] OTHER -> None]
      BY DEF Init
    <2>3. \/ users[u] = [NewUser EXCEPT !.flags = {"siteop"}, !.pgid = 0]
          \/ users[u] = [NewUser EXCEPT !.flags = {"template"}]
          \/ users[u] = [NewUser EXCEPT !.pgid = OwnGroup, !.gadmin = {OwnGroup}, !.flags = {"gadmin"}]
      BY <2>1, <2>2
    <2>4. users[u].allot = None
      BY <2>3 DEF NewUser
    <2> QED BY <2>4 DEF AllotKept
  <1>5. ASSUME NEW g \in Groups PROVE groups[g].limit["max_allot_size"] >= 0
    <2>1. g \in Gids /\ groups[g] # None
      BY DEF Groups
    <2>2. groups = [h \in Gids |-> CASE h = 0 -> NewGroup("ebftpd") [] h = DefaultGroup -> NewGroup("default")
                                [] h = OwnGroup -> [NewGroup("own") EXCEPT !.limit =
                                     [l \in Limits |-> IF l = "slots" THEN 2 ELSE 1]]
                                [] OTHER -> None]
      BY DEF Init
    <2>3. \/ groups[g] = NewGroup("ebftpd") \/ groups[g] = NewGroup("default")
          \/ groups[g] = [NewGroup("own") EXCEPT !.limit = [l \in Limits |-> IF l = "slots" THEN 2 ELSE 1]]
      BY <2>1, <2>2
    <2>4. \A n : NewGroup(n).limit["max_allot_size"] = 0
      BY DEF NewGroup, Limits
    <2>5. [NewGroup("own") EXCEPT !.limit = [l \in Limits |-> IF l = "slots" THEN 2 ELSE 1]].limit["max_allot_size"] = 1
      BY DEF NewGroup, Limits
    <2>6. groups[g].limit["max_allot_size"] \in {0, 1}
      BY <2>3, <2>4, <2>5, Zenon
    <2> QED BY <2>6
  <1> QED BY <1>2, <1>3, <1>4, <1>5 DEF LimitInv, AllotInv, AllowedInv

\* Every step keeps it.
LEMMA LimitStep ==
  ASSUME AccountAssumption, AccountsInv, LimitInv, [Next]_vars
  PROVE  LimitInv'
PROOF
  <1>1. CASE UNCHANGED vars
    BY <1>1, LimitQuiet DEF vars, dataVars
  <1>2. ASSUME NEW t \in Operators,
               \/ \E g \in Gids \cup {-1} : AddUser(t, g) \/ GAddUser(t, g)
               \/ \E u \in Uids : TAddUser(t, u)
        PROVE  LimitInv'
    BY <1>2, AddUserLimits, LimitsBeginKeeps
  <1>3. ASSUME NEW t \in Operators,
               \/ \E u \in Uids : DelUser(t, u) \/ Readd(t, u)
               \/ \E u \in Uids, how \in {"-", "=", "+", "toggle"}, ns \in Lists : ChGrp(t, u, how, ns)
               \/ \E u \in Uids, n \in GNames : SetPGrp(t, u, n) \/ ChGadmin(t, u, n)
        PROVE  LimitInv'
    BY <1>3, UserCommandLimits, LimitsBeginKeeps
  <1>4. ASSUME NEW t \in Operators, NEW s, NEW v, NEW F, NEW us, Change(t, s, v, F, us) PROVE LimitInv'
    BY <1>4, ChangeLimits, LimitsBeginKeeps
  <1>5. ASSUME NEW t \in Operators,
               \/ \E u \in Uids : Purge(t, u)
               \/ \E g \in Gids : GrpDel(t, g)
               \/ \E n \in GNames : GrpAdd(t, n)
               \/ \E g \in Gids, n \in GNames : GrpRen(t, g, n)
               \/ \E g \in Gids, l \in Limits, v \in Values : GrpChange(t, g, l, v)
        PROVE  LimitInv'
    BY <1>5, GroupCommandLimits, LimitsBeginKeeps
  <1>6. ASSUME NEW t \in Operators, NEW u, NEW k, Give(t, u, k) \/ Take(t, u, k) PROVE LimitInv'
    <2>1. users' = users /\ groups' = groups /\ job' = job /\ raced' = raced
      BY <1>6 DEF Give, Take
    <2> QED BY <2>1, LimitQuiet
  <1>7. ASSUME NEW t \in Operators,
               ChangeLoad(t) \/ Save(t) \/ Insert(t) \/ Erase(t) \/ Create(t) \/ SaveGroup(t)
        PROVE  LimitInv'
    BY <1>7, ChangeLoadLimits, SaveLimits, InsertLimits, EraseLimits, GroupWriteLimits
  <1>8. CASE (\E g \in Gids : ReplicateGroup(g)) \/ (\E u \in Uids : ReplicateUser(u)) \/ (\E i \in incr : IncrCredits(i))
    <2>1. users' = users /\ groups' = groups /\ job' = job /\ raced' = raced
      BY <1>8 DEF ReplicateGroup, ReplicateUser, IncrCredits, dataVars
    <2> QED BY <2>1, LimitQuiet
  <1>9. CASE Next
    BY <1>2, <1>3, <1>4, <1>5, <1>6, <1>7, <1>8, <1>9, CommandSteps, Zenon
  <1> QED BY <1>1, <1>9

\* It holds in every reachable state.
LEMMA LimitsReached ==
  AccountAssumption => (Spec => [](AccountsInv /\ LimitInv))
PROOF
  <1> SUFFICES ASSUME AccountAssumption PROVE Spec => [](AccountsInv /\ LimitInv)
    OBVIOUS
  <1>1. Init => LimitInv
    BY FirstLimits
  <1>2. AccountsInv /\ LimitInv /\ [Next]_vars => LimitInv'
    BY LimitStep
  <1>3. Spec => []AccountsInv
    BY AccountsReached
  <1> QED BY <1>1, <1>2, <1>3, PTL DEF Spec

-----------------------------------------------------------------------------
(* A step keeps the limits of a group *)

\* One document more is at most one member more.
LEMMA OneMore ==
  ASSUME AccountAssumption, NEW S \in SUBSET Uids, NEW v \in Uids, NEW T, T \subseteq S \cup {v}
  PROVE  /\ Cardinality(S) \in Nat /\ Cardinality(T) \in Nat /\ Cardinality(T) <= Cardinality(S) + 1
         /\ (T \subseteq S => Cardinality(T) <= Cardinality(S))
PROOF
  <1>1. IsFiniteSet(S)
    BY UidsFinite, FS_Subset
  <1>2. IsFiniteSet(S \cup {v}) /\ Cardinality(S \cup {v}) <= Cardinality(S) + 1 /\ Cardinality(S \cup {v}) \in Nat
        /\ Cardinality(S) \in Nat
    <2>1. Cardinality(S) \in Nat
      BY <1>1, FS_CardinalityType
    <2>2. IsFiniteSet(S \cup {v}) /\ (Cardinality(S \cup {v}) = Cardinality(S) \/ Cardinality(S \cup {v}) = Cardinality(S) + 1)
      BY <1>1, FS_AddElement
    <2> QED BY <2>1, <2>2
  <1>3. IsFiniteSet(T) /\ Cardinality(T) <= Cardinality(S \cup {v})
    BY <1>2, FS_Subset
  <1>4. Cardinality(T) \in Nat
    BY <1>3, FS_CardinalityType
  <1>5. T \subseteq S => Cardinality(T) <= Cardinality(S)
    BY <1>1, FS_Subset
  <1> QED BY <1>2, <1>3, <1>4, <1>5


\* While no commands overlapped, a gadmin's handler moves on by a load, a write or an insert.
LEMMA GadminMoves ==
  ASSUME AccountAssumption, AccountsInv, LimitInv, [Next]_vars, NEW t \in Gadmins,
         job[t].op # "idle", job'[t] # job[t], ~raced'
  PROVE  /\ t \in Operators /\ ~raced /\ Allowed(job[t]) /\ JobAllot(job[t]) /\ JobOK(job[t])
         /\ ChangeLoad(t) \/ Save(t) \/ Insert(t)
PROOF
  <1>0. JobsOK /\ AllotInv /\ AllowedInv /\ RightsInv /\ t \in Operators
    BY DEF AccountsInv, CommandsInv, AccountInv, LimitInv, AccountAssumption
  <1>1. job' # job
    OBVIOUS
  <1>2. Next
    BY <1>1 DEF vars
  <1>3. ~(\E i \in incr : IncrCredits(i)) /\ ~(\E g \in Gids : ReplicateGroup(g)) /\ ~(\E u \in Uids : ReplicateUser(u))
    BY <1>1 DEF IncrCredits, ReplicateGroup, ReplicateUser
  <1>4. \A o \in Operators : \A j : ~(Start(o, j) /\ job[o].op = "idle")
    <2> SUFFICES ASSUME NEW o \in Operators, NEW j, Start(o, j), job[o].op = "idle" PROVE FALSE
      OBVIOUS
    <2>1. job' = [job EXCEPT ![o] = j] /\ o # t /\ raced' = (raced \/ \E p \in Operators \ {o} : job[p].op # "idle")
      BY DEF Start
    <2> QED BY <1>0, <2>1
  <1>5. \A o \in Operators : \A u, op, a : ~(Loaded(o, u, op, a) /\ job[o].op = "idle")
    BY <1>4, Zenon DEF Loaded
  <1>6. \A o \in Operators : \A g, u : ~(NewFrom(o, g, u) /\ job[o].op = "idle")
    BY <1>4, Zenon DEF NewFrom
  <1>7. \A o \in Operators :
          /\ \A g : ~AddUser(o, g) /\ ~GAddUser(o, g) /\ ~GrpDel(o, g)
          /\ \A u : ~TAddUser(o, u) /\ ~DelUser(o, u) /\ ~Readd(o, u) /\ ~Purge(o, u)
    BY <1>4, <1>5, <1>6, Zenon DEF AddUser, GAddUser, GrpDel, TAddUser, DelUser, Readd, Purge, Can
  <1>8. \A o \in Operators :
          /\ \A u, how, ns : ~ChGrp(o, u, how, ns)
          /\ \A u, n : ~SetPGrp(o, u, n) /\ ~ChGadmin(o, u, n)
    <2>1. ASSUME NEW o \in Operators, NEW u, NEW how, NEW ns, ChGrp(o, u, how, ns) PROVE FALSE
      <3>1. job[o].op = "idle" /\ \E a : Loaded(o, u, "CHGRP", a)
        BY <2>1 DEF ChGrp, Can
      <3> QED BY <1>5, <3>1
    <2>2. ASSUME NEW o \in Operators, NEW u, NEW n, SetPGrp(o, u, n) \/ ChGadmin(o, u, n) PROVE FALSE
      <3>1. job[o].op = "idle" /\ \E op, a : Loaded(o, u, op, a)
        BY <2>2 DEF SetPGrp, ChGadmin, Can
      <3> QED BY <1>5, <3>1
    <2> QED BY <2>1, <2>2
  <1>9. \A o \in Operators :
          /\ \A s, v, F, us : ~Change(o, s, v, F, us)
          /\ \A n : ~GrpAdd(o, n)
          /\ \A g, n : ~GrpRen(o, g, n)
          /\ \A g, l, v : ~GrpChange(o, g, l, v)
    BY <1>4, ZenonT(30) DEF Change, GrpAdd, GrpRen, GrpChange, Can
  <1>10. \A o \in Operators : \A u, k : ~Give(o, u, k) /\ ~Take(o, u, k)
    BY <1>1 DEF Give, Take
  <1>11. PICK o \in Operators : ChangeLoad(o) \/ Save(o) \/ Insert(o) \/ Erase(o) \/ Create(o) \/ SaveGroup(o)
    BY <1>2, <1>3, <1>7, <1>8, <1>9, <1>10, CommandSteps, Zenon
  <1>12. raced' = raced /\ o = t
    BY <1>0, <1>11 DEF ChangeLoad, Save, Insert, Erase, Create, SaveGroup, JobsOK
  <1>13. ~raced /\ Allowed(job[t]) /\ JobAllot(job[t]) /\ JobOK(job[t])
    BY <1>0, <1>12 DEF AllowedInv, AllotInv, JobsOK
  <1>14. job[t].at \notin {"remove", "create", "group"}
    <2>1. job[t].op \notin {"PURGE", "GRPDEL", "GRPADD", "GRPREN", "GRPCHANGE"}
      BY <1>13 DEF Allowed
    <2> QED BY <1>13, <2>1, Phase
  <1>15. ~Erase(t) /\ ~Create(t) /\ ~SaveGroup(t)
    BY <1>14 DEF Erase, Create, SaveGroup
  <1> QED BY <1>0, <1>11, <1>12, <1>13, <1>15

\* What a write of a gadmin's handler changes in an account.
LEMMA GadminWrites ==
  ASSUME AccountAssumption, AccountsInv, NEW t \in Operators, Save(t), Allowed(job[t]), JobAllot(job[t]),
         NEW u, u = job[t].uid, u \in Users
  PROVE  /\ Users' = Users /\ \A v \in Users \ {u} : users'[v] = users[v]
         /\ users[u] \in Account /\ users'[u] \in Account
         /\ users'[u].pgid = (IF job[t].op = "ADDUSER" THEN job[t].gid ELSE users[u].pgid)
         /\ job[t].op # "READD" => ("deleted" \in users[u].flags => "deleted" \in users'[u].flags)
         /\ job[t].op = "DELUSER" => "deleted" \in users'[u].flags
         /\ users'[u].ratio = (IF job[t].op = "CHANGE" /\ job[t].set = "ratio" THEN job[t].val ELSE users[u].ratio)
         /\ users'[u].allot = (IF job[t].op = "CHANGE" /\ job[t].set = "wkly_allotment" THEN job[t].val ELSE users[u].allot)
PROOF
  <1>0. DataTyped /\ JobsOK /\ u \in Uids /\ users[u] # None
    BY DEF AccountsInv, CommandsInv, AccountInv, Users
  <1>1. PICK j : j = job[t]
    OBVIOUS
  <1>2. PICK old : old = users[u]
    OBVIOUS
  <1>3. PICK n : n = SetFields(old, j)
    OBVIOUS
  <1>4. JobOK(j) /\ j.at \in {"save", "flag"} /\ old \in Account /\ Allowed(j) /\ JobAllot(j)
    BY <1>0, <1>1, <1>2, KnownUser DEF Save, JobsOK
  <1>5. users' = [users EXCEPT ![u] = n]
    BY <1>0, <1>1, <1>2, <1>3 DEF Save
  <1>6. users'[u] = n /\ \A v \in Uids \ {u} : users'[v] = users[v]
    BY <1>0, <1>5 DEF DataTyped
  <1>7. /\ n \in Account
        /\ n.num = IF j.set \in Settings THEN [old.num EXCEPT ![j.set] = j.val] ELSE old.num
        /\ n.pgid = (IF j.op \in GroupWrites THEN j.acc.pgid ELSE old.pgid)
        /\ n.sgids = (IF j.op \in GroupWrites THEN j.acc.sgids ELSE old.sgids)
        /\ n.gadmin = (IF j.op \in GroupWrites \/ (j.op = "CHGADMIN" /\ j.at = "save") THEN j.acc.gadmin ELSE old.gadmin)
        /\ n.flags = (IF WritesFlagsNow(j) THEN j.acc.flags ELSE old.flags)
        /\ n.ratio = (IF j.op = "CHANGE" /\ j.set \in RatioMap THEN j.acc.ratio ELSE old.ratio)
        /\ n.allot = (IF j.op = "CHANGE" /\ j.set = "wkly_allotment" THEN j.acc.allot ELSE old.allot)
    BY <1>3, <1>4, SavedDocument
  <1>8. None \notin Account
    BY DEF AccountAssumption, Account
  <1>9. Users' = Users
    BY <1>0, <1>6, <1>7, <1>8 DEF Users
  <1>10. j.op \in {"ADDUSER", "DELUSER", "READD", "CHANGE"} /\ j.at = "save"
    <2>1. j.op # "idle" /\ (j.at = "flag" => j.op \in {"CHGADMIN", "CHANGE"})
      BY <1>4, Phase DEF NoJob, UserWrites, GroupWrites
    <2>2. j.op = "CHANGE" /\ j.at = "flag" => j.set \in FlagSettings
      <3>1. NoJob.op = "idle"
        BY DEF NoJob
      <3> QED BY <1>4, <3>1 DEF JobOK
    <2> QED BY <1>4, <2>1, <2>2 DEF Allowed, FlagSettings
  <1>11. j.op \in GroupWrites <=> j.op = "ADDUSER"
    BY <1>10 DEF GroupWrites
  <1>12. j.op = "ADDUSER" => j.acc.pgid = j.gid
    BY <1>4, <1>10 DEF Allowed
  <1>13. n.pgid = (IF j.op = "ADDUSER" THEN j.gid ELSE old.pgid)
    BY <1>7, <1>11, <1>12
  <1>14. j.op = "DELUSER" => "deleted" \in j.acc.flags
    BY <1>4 DEF Allowed
  <1>15. j.op = "CHANGE" => j.set \in {"ratio", "wkly_allotment"}
    BY <1>4 DEF Allowed
  <1>16. WritesFlagsNow(j) <=> j.op \in {"DELUSER", "READD"}
    BY <1>10, <1>15 DEF WritesFlagsNow, FlagSettings
  <1>17. /\ j.op # "READD" => ("deleted" \in old.flags => "deleted" \in n.flags)
         /\ j.op = "DELUSER" => "deleted" \in n.flags
    BY <1>7, <1>14, <1>16
  <1>18. /\ j.op = "CHANGE" /\ j.set = "ratio" => j.acc.ratio = j.val
         /\ j.op = "CHANGE" /\ j.set = "wkly_allotment" => j.acc.allot = j.val
    BY <1>4, <1>10 DEF JobAllot
  <1>19. Users \subseteq Uids
    BY DEF Users
  <1>20. n.ratio = (IF j.op = "CHANGE" /\ j.set = "ratio" THEN j.val ELSE old.ratio)
    BY <1>7, <1>15, <1>18 DEF RatioMap
  <1> QED BY <1>1, <1>2, <1>4, <1>6, <1>7, <1>9, <1>13, <1>17, <1>18, <1>19, <1>20


\* What a group uses of its limits are numbers.
LEMMA CountsAreNumbers ==
  ASSUME AccountAssumption, DataTyped, NEW g
  PROVE  NumSlotsUsed(g) \in Nat /\ NumLeeches(g) \in Nat /\ TotalAllotmentSize(g) \in Int
PROOF
  <1>1. /\ {u \in Users : users[u].pgid = g /\ "deleted" \notin users[u].flags} \subseteq Users
        /\ {u \in Users : users[u].pgid = g /\ users[u].ratio = 0} \subseteq Users
    OBVIOUS
  <1>2. NumSlotsUsed(g) \in Nat /\ NumLeeches(g) \in Nat
    BY <1>1, UsersFinite DEF NumSlotsUsed, NumLeeches
  <1> QED BY <1>2, TotalIsNumber

\* They are functions of the accounts alone.
LEMMA CountsSame ==
  ASSUME users' = users, NEW g
  PROVE  /\ NumSlotsUsed(g)' = NumSlotsUsed(g) /\ NumLeeches(g)' = NumLeeches(g)
         /\ TotalAllotmentSize(g)' = TotalAllotmentSize(g)
PROOF
  <1>1. Users' = Users
    BY DEF Users
  <1>2. Allotted(g)' = Allotted(g)
    BY <1>1 DEF Allotted
  <1> QED BY <1>1, <1>2 DEF NumSlotsUsed, NumLeeches, TotalAllotmentSize

\* A gadmin's save that takes a slot finds one free.
LEMMA SlotsAfterSave ==
  ASSUME AccountAssumption, AccountsInv, NEW t \in Operators, Save(t), Allowed(job[t]), JobAllot(job[t]),
         job[t].uid \in Users, NEW g \in Groups, NumSlotsUsed(g)' > NumSlotsUsed(g)
  PROVE  NumSlotsUsed(g)' <= groups[g].limit["slots"]
PROOF
  <1>0. DataTyped /\ JobsOK
    BY DEF AccountsInv, CommandsInv, AccountInv
  <1>1. PICK u : u = job[t].uid
    OBVIOUS
  <1> DEFINE S == {v \in Users : users[v].pgid = g /\ "deleted" \notin users[v].flags}
             T == {v \in Users' : users'[v].pgid = g /\ "deleted" \notin users'[v].flags}
  <1>2. u \in Users /\ u \in Uids /\ Users \subseteq Uids
    BY <1>1 DEF Users
  <1>3. /\ Users' = Users /\ \A v \in Users \ {u} : users'[v] = users[v]
        /\ users'[u].pgid = (IF job[t].op = "ADDUSER" THEN job[t].gid ELSE users[u].pgid)
        /\ job[t].op # "READD" => ("deleted" \in users[u].flags => "deleted" \in users'[u].flags)
    BY <1>1, <1>2, GadminWrites
  <1>4. NumSlotsUsed(g) = Cardinality(S) /\ NumSlotsUsed(g)' = Cardinality(T)
    BY DEF NumSlotsUsed
  <1>5. T \subseteq S \cup {u} /\ S \in SUBSET Uids
    BY <1>2, <1>3
  <1>6. T \subseteq S \/ SlotFree(g)
    <2>1. CASE job[t].op = "ADDUSER"
      <3>1. SlotFree(job[t].gid)
        BY <2>1 DEF Allowed
      <3>2. g # job[t].gid => T \subseteq S
        BY <1>3, <2>1
      <3> QED BY <3>1, <3>2
    <2>2. CASE job[t].op = "READD"
      <3>1. SlotFree(users[u].pgid) /\ job[t].op # "ADDUSER"
        BY <1>1, <2>2 DEF Allowed
      <3>2. g # users[u].pgid => T \subseteq S
        BY <1>3, <2>2
      <3> QED BY <3>1, <3>2
    <2>3. CASE job[t].op \notin {"ADDUSER", "READD"}
      BY <1>3, <2>3
    <2> QED BY <2>1, <2>2, <2>3
  <1> HIDE DEF S, T
  <1>7. /\ Cardinality(S) \in Nat /\ Cardinality(T) \in Nat /\ Cardinality(T) <= Cardinality(S) + 1
        /\ (T \subseteq S => Cardinality(T) <= Cardinality(S))
    BY <1>2, <1>5, OneMore
  <1>8. SlotFree(g)
    BY <1>4, <1>6, <1>7
  <1>9. groups[g].limit["slots"] \in Int
    BY <1>0, KnownGroup DEF Group, Limits
  <1>10. Cardinality(S) < groups[g].limit["slots"]
    BY <1>4, <1>8 DEF SlotFree
  <1> QED BY <1>4, <1>7, <1>9, <1>10

\* A gadmin's new account that stays in its group finds a slot free.
LEMMA SlotsAfterInsert ==
  ASSUME AccountAssumption, AccountsInv, NEW t \in Operators, Insert(t), Allowed(job[t]),
         NEW g \in Groups, job[t].gid = g
  PROVE  NumSlotsUsed(g)' <= groups[g].limit["slots"]
PROOF
  <1>0. DataTyped /\ JobsOK
    BY DEF AccountsInv, CommandsInv, AccountInv
  <1>1. PICK u : u = Max(Users) + 1
    OBVIOUS
  <1> DEFINE S == {v \in Users : users[v].pgid = g /\ "deleted" \notin users[v].flags}
             T == {v \in Users' : users'[v].pgid = g /\ "deleted" \notin users'[v].flags}
  <1>2. u \in Uids /\ Users \subseteq Uids /\ users' = [users EXCEPT ![u] = job[t].acc] /\ job[t].at = "insert"
    BY <1>1 DEF Insert, Users
  <1>3. Users' \subseteq Users \cup {u} /\ \A v \in Users' : v # u => v \in Users /\ users'[v] = users[v]
    BY <1>0, <1>2 DEF Users, DataTyped
  <1>4. NumSlotsUsed(g) = Cardinality(S) /\ NumSlotsUsed(g)' = Cardinality(T)
    BY DEF NumSlotsUsed
  <1>5. T \subseteq S \cup {u} /\ S \in SUBSET Uids
    BY <1>2, <1>3
  <1>6. SlotFree(g)
    <2>1. JobOK(job[t])
      BY <1>0 DEF JobsOK
    <2>2. job[t].op = "ADDUSER"
      BY <1>2, <2>1, Phase
    <2> QED BY <2>2 DEF Allowed
  <1> HIDE DEF S, T
  <1>7. /\ Cardinality(S) \in Nat /\ Cardinality(T) \in Nat /\ Cardinality(T) <= Cardinality(S) + 1
    BY <1>2, <1>5, OneMore
  <1>9. groups[g].limit["slots"] \in Int
    BY <1>0, KnownGroup DEF Group, Limits
  <1>10. Cardinality(S) < groups[g].limit["slots"]
    BY <1>4, <1>6 DEF SlotFree
  <1> QED BY <1>4, <1>7, <1>9, <1>10

\* A gadmin's CHANGE that makes a leech finds a leech slot free.
LEMMA LeechesAfterSave ==
  ASSUME AccountAssumption, AccountsInv, NEW t \in Operators, Save(t), Allowed(job[t]), JobAllot(job[t]),
         job[t].uid \in Users, NEW g \in Groups, job[t].op = "CHANGE", NumLeeches(g)' > NumLeeches(g)
  PROVE  NumLeeches(g)' <= groups[g].limit["leech_slots"]
PROOF
  <1>0. DataTyped /\ JobsOK
    BY DEF AccountsInv, CommandsInv, AccountInv
  <1>1. PICK u : u = job[t].uid
    OBVIOUS
  <1> DEFINE S == {v \in Users : users[v].pgid = g /\ users[v].ratio = 0}
             T == {v \in Users' : users'[v].pgid = g /\ users'[v].ratio = 0}
  <1>2. u \in Users /\ u \in Uids /\ Users \subseteq Uids
    BY <1>1 DEF Users
  <1>3. /\ Users' = Users /\ \A v \in Users \ {u} : users'[v] = users[v]
        /\ users'[u].pgid = users[u].pgid
        /\ users'[u].ratio = (IF job[t].set = "ratio" THEN job[t].val ELSE users[u].ratio)
    BY <1>1, <1>2, GadminWrites
  <1>4. NumLeeches(g) = Cardinality(S) /\ NumLeeches(g)' = Cardinality(T)
    BY DEF NumLeeches
  <1>5. T \subseteq S \cup {u} /\ S \in SUBSET Uids
    BY <1>2, <1>3
  <1>6. T \subseteq S \/ (job[t].set = "ratio" /\ job[t].val = 0 /\ users[u].pgid = g)
    BY <1>3
  <1> HIDE DEF S, T
  <1>7. /\ Cardinality(S) \in Nat /\ Cardinality(T) \in Nat /\ Cardinality(T) <= Cardinality(S) + 1
        /\ (T \subseteq S => Cardinality(T) <= Cardinality(S))
    BY <1>2, <1>5, OneMore
  <1>8. job[t].set = "ratio" /\ job[t].val = 0 /\ users[u].pgid = g
    BY <1>4, <1>6, <1>7
  <1>9. job[t].at = "save"
    <2>1. JobOK(job[t]) /\ job[t].at \in {"save", "flag"}
      BY <1>0 DEF JobsOK, Save
    <2>2. NoJob.op = "idle"
      BY DEF NoJob
    <2> QED BY <1>8, <2>1, <2>2 DEF JobOK, FlagSettings
  <1>10. NumLeeches(g) < groups[g].limit["leech_slots"]
    BY <1>1, <1>8, <1>9 DEF Allowed, Fits
  <1>11. groups[g].limit["leech_slots"] \in Int
    BY <1>0, KnownGroup DEF Group, Limits
  <1> QED BY <1>4, <1>7, <1>10, <1>11

\* A gadmin's CHANGE of an allotment stays below the size allowed, as the code counts it.
LEMMA AllotmentsAfterSave ==
  ASSUME AccountAssumption, AccountsInv, LimitInv, NEW t \in Operators, Save(t), Allowed(job[t]), JobAllot(job[t]),
         job[t].uid \in Users, NEW g \in Groups, job[t].set = "wkly_allotment",
         TotalAllotmentSize(g)' > TotalAllotmentSize(g)
  PROVE  TotalAllotmentSize(g)' <= groups[g].limit["max_allot_size"] + IF Allotted(g) = {} THEN 1 ELSE 0
PROOF
  <1>0. DataTyped /\ JobsOK /\ AllotInv
    BY DEF AccountsInv, CommandsInv, AccountInv, LimitInv
  <1>1. PICK u : u = job[t].uid
    OBVIOUS
  <1>2. PICK w : w = job[t].val
    OBVIOUS
  <1>3. u \in Users /\ u \in Uids /\ Users \subseteq Uids
    BY <1>1 DEF Users
  <1>4. job[t].op = "CHANGE" /\ job[t].at = "save" /\ w \in Int
    <2>1. JobOK(job[t]) /\ job[t].at \in {"save", "flag"}
      BY <1>0 DEF JobsOK, Save
    <2>2. job[t].op = "CHANGE"
      <3>1. None # "wkly_allotment"
        BY DEF AccountAssumption
      <3> QED BY <2>1, <3>1, Holds
    <2>3. NoJob.op = "idle" /\ job[t].set \notin FlagSettings
      BY DEF NoJob, FlagSettings
    <2>4. job[t].at = "save"
      BY <2>1, <2>2, <2>3 DEF JobOK
    <2> QED BY <1>2, <2>1, <2>2, <2>4, Holds
  <1>5. w >= 0
    BY <1>2, <1>4 DEF JobAllot
  <1>6. /\ Users' = Users /\ \A v \in Users \ {u} : users'[v] = users[v]
        /\ users'[u].pgid = users[u].pgid /\ users'[u].allot = w /\ users[u] \in Account
    BY <1>1, <1>2, <1>3, <1>4, GadminWrites
  <1>7. PICK A : A = Allotted(g)
    OBVIOUS
  <1>8. PICK B : B = Allotted(g)'
    OBVIOUS
  <1> DEFINE f == [v \in Uids |-> users[v].allot]
             h == [v \in Uids |-> users'[v].allot]
  <1>9. TotalAllotmentSize(g) = IF A = {} THEN -1 ELSE SumFunctionOnSet(f, A)
    BY <1>7 DEF TotalAllotmentSize
  <1>10. TotalAllotmentSize(g)' = IF B = {} THEN -1 ELSE SumFunctionOnSet(h, B)
    BY <1>8 DEF TotalAllotmentSize
  <1>11. A \subseteq Users /\ IsFiniteSet(A) /\ \A v \in A : users[v].allot \in Int
    BY <1>0, <1>7, TotalIsNumber
  <1>12. A = {v \in Users : users[v].pgid = g /\ users[v].allot # None}
         /\ B = {v \in Users : users'[v].pgid = g /\ users'[v].allot # None}
    BY <1>6, <1>7, <1>8 DEF Allotted
  <1>13. \A v \in Users : f[v] = users[v].allot /\ h[v] = users'[v].allot
    BY <1>3
  <1> HIDE DEF f, h
  <1>14. \A v \in A : f[v] \in Int
    BY <1>11, <1>13
  <1>15. None \notin Int
    BY DEF AccountAssumption
  <1>16. PICK m : m = groups[g].limit["max_allot_size"]
    OBVIOUS
  <1>17. m \in Int /\ m >= 0
    BY <1>0, <1>16, KnownGroup DEF Group, Limits, AllotInv
  <1>18. PICK x : x = TotalAllotmentSize(g)
    OBVIOUS
  <1>19. PICK y : y = TotalAllotmentSize(g)'
    OBVIOUS
  <1>20. x \in Int /\ y > x
    BY <1>0, <1>18, <1>19, CountsAreNumbers
  <1>21. w > 0 /\ users[u].pgid = g => x - Amount(users[u].allot) + w <= m
    BY <1>1, <1>2, <1>3, <1>4, <1>16, <1>18 DEF Allowed, Fits
  <1>22. CASE users[u].pgid # g
    <2>1. B = A /\ \A v \in A : f[v] = h[v]
      BY <1>6, <1>11, <1>12, <1>13, <1>22
    <2>2. SumFunctionOnSet(f, A) = SumFunctionOnSet(h, A)
      BY <1>11, <2>1, SumSame
    <2>3. y = x
      BY <1>9, <1>10, <1>18, <1>19, <2>1, <2>2
    <2> QED BY <1>20, <2>3
  <1>23. CASE users[u].pgid = g /\ u \in A
    <2>1. B = A
      BY <1>4, <1>6, <1>12, <1>15, <1>23
    <2>2. \A v \in A : f[v] \in Int /\ h[v] \in Int
      BY <1>4, <1>6, <1>11, <1>13
    <2>3. \A v \in A \ {u} : f[v] = h[v]
      BY <1>6, <1>11, <1>13
    <2>4. SumFunctionOnSet(h, A) = SumFunctionOnSet(f, A) - f[u] + h[u]
      BY <1>11, <1>23, <2>2, <2>3, SumReplace
    <2>5. PICK e : e = users[u].allot
      OBVIOUS
    <2>6. f[u] = e /\ h[u] = w /\ e \in Int /\ e # None /\ Amount(e) = e
      BY <1>3, <1>6, <1>11, <1>13, <1>15, <1>23, <2>5 DEF Amount
    <2>7. e >= 0
      BY <1>0, <1>3, <2>5, <2>6 DEF AllotInv, AllotKept
    <2>8. A # {}
      BY <1>23
    <2>9. x = SumFunctionOnSet(f, A) /\ y = x - e + w
      BY <1>9, <1>10, <1>18, <1>19, <2>1, <2>4, <2>6, <2>8
    <2>10. w > 0
      BY <1>4, <1>5, <1>20, <2>6, <2>7, <2>9
    <2>11. x - e + w <= m
      BY <1>21, <1>23, <2>5, <2>6, <2>10
    <2>12. y <= m
      BY <2>9, <2>11
    <2> QED BY <1>7, <1>16, <1>17, <1>19, <2>8, <2>12
  <1>24. CASE users[u].pgid = g /\ u \notin A
    <2>1. users[u].allot = None /\ Amount(users[u].allot) = 0
      BY <1>3, <1>12, <1>24 DEF Amount
    <2>2. B = A \cup {u}
      BY <1>3, <1>4, <1>6, <1>12, <1>15, <1>24
    <2>3. \A v \in A : f[v] = h[v]
      BY <1>6, <1>11, <1>13, <1>24
    <2>4. h[u] = w
      BY <1>3, <1>6, <1>13
    <2>5. SumFunctionOnSet(h, A \cup {u}) = h[u] + SumFunctionOnSet(h, A)
      BY <1>4, <1>11, <1>14, <1>24, <2>3, <2>4, SumAdd
    <2>6. SumFunctionOnSet(f, A) = SumFunctionOnSet(h, A)
      BY <1>11, <2>3, SumSame
    <2>7. PICK s : s = SumFunctionOnSet(f, A)
      OBVIOUS
    <2>8. s \in Int /\ (A = {} => s = 0)
      BY <1>11, <1>14, <2>7, SumInteger, SumFirst
    <2>9. y = w + s /\ B # {}
      BY <1>10, <1>19, <2>2, <2>4, <2>5, <2>6, <2>7
    <2>10. CASE A = {}
      <3>1. x = -1 /\ s = 0
        BY <1>9, <1>18, <2>8, <2>10
      <3>2. y = w
        BY <1>4, <2>9, <3>1
      <3>3. w <= m + 1
        BY <1>4, <1>5, <1>17, <1>21, <1>24, <2>1, <3>1
      <3> QED BY <1>7, <1>16, <1>19, <2>10, <3>2, <3>3
    <2>11. CASE A # {}
      <3>1. x = s
        BY <1>9, <1>18, <2>7, <2>11
      <3>2. w > 0
        BY <1>4, <1>5, <1>20, <2>8, <2>9, <3>1
      <3>3. y <= m
        BY <1>4, <1>17, <1>21, <1>24, <2>1, <2>8, <2>9, <3>1, <3>2
      <3> QED BY <1>7, <1>16, <1>17, <1>19, <2>11, <3>3
    <2> QED BY <2>10, <2>11
  <1> QED BY <1>22, <1>23, <1>24


\* Every step is within the limits.
LEMMA LimitsStep ==
  ASSUME AccountAssumption, AccountsInv, LimitInv, [Next]_vars
  PROVE  WithinLimits
PROOF
  <1> SUFFICES ASSUME NEW t \in Gadmins, NEW g \in Groups,
                      job[t].op # "idle", job'[t] # job[t], ~raced', groups'[g] = groups[g]
               PROVE  /\ NumSlotsUsed(g)' > NumSlotsUsed(g) /\ (job[t].at = "insert" => job[t].gid = g) =>
                           NumSlotsUsed(g)' <= groups[g].limit["slots"]
                      /\ NumLeeches(g)' > NumLeeches(g) /\ job[t].op = "CHANGE" =>
                           NumLeeches(g)' <= groups[g].limit["leech_slots"]
                      /\ TotalAllotmentSize(g)' > TotalAllotmentSize(g) /\ job[t].set = "wkly_allotment" =>
                           TotalAllotmentSize(g)' <= groups[g].limit["max_allot_size"] + IF Allotted(g) = {} THEN 1 ELSE 0
    BY DEF WithinLimits
  <1>0. DataTyped /\ JobsOK
    BY DEF AccountsInv, CommandsInv, AccountInv
  <1>1. /\ t \in Operators /\ ~raced /\ Allowed(job[t]) /\ JobAllot(job[t]) /\ JobOK(job[t])
        /\ ChangeLoad(t) \/ Save(t) \/ Insert(t)
    BY GadminMoves
  <1>2. NumSlotsUsed(g) \in Nat /\ NumLeeches(g) \in Nat /\ TotalAllotmentSize(g) \in Int
    BY <1>0, CountsAreNumbers
  <1>3. CASE users' = users
    <2>1. /\ NumSlotsUsed(g)' = NumSlotsUsed(g) /\ NumLeeches(g)' = NumLeeches(g)
          /\ TotalAllotmentSize(g)' = TotalAllotmentSize(g)
      BY <1>3, CountsSame
    <2> QED BY <1>2, <2>1
  <1>4. CASE users' # users /\ Save(t)
    <2>1. job[t].uid \in Users
      <3>1. job[t].uid \in Uids
        BY <1>1, <1>4, Holds DEF Save
      <3>2. users[job[t].uid] # None
        BY <1>0, <1>4, <3>1 DEF Save, DataTyped
      <3> QED BY <3>1, <3>2 DEF Users
    <2> QED BY <1>1, <1>4, <2>1, SlotsAfterSave, LeechesAfterSave, AllotmentsAfterSave
  <1>5. CASE users' # users /\ Insert(t)
    <2>1. job[t].at = "insert" /\ job[t].op = "ADDUSER"
      BY <1>1, <1>5, Phase DEF Insert
    <2>2. job[t].set # "wkly_allotment"
      <3>1. NoJob.at = ""
        BY DEF NoJob
      <3>2. job[t].set = None
        BY <1>1, <2>1, <3>1 DEF JobOK
      <3> QED BY <3>2 DEF AccountAssumption
    <2> QED BY <1>1, <1>5, <2>1, <2>2, SlotsAfterInsert
  <1>6. ChangeLoad(t) => users' = users
    BY DEF ChangeLoad, dataVars
  <1> QED BY <1>1, <1>3, <1>4, <1>5, <1>6

\* A gadmin's ADDUSER, READD and CHANGE keep its group within its slots, leech slots and
\* allotments while no commands overlap: nothing moves between the check at the load and
\* the write. The two exceptions are those that WithinLimits names.
THEOREM LimitsAreKept ==
  AccountAssumption => (Spec => [][WithinLimits]_vars)
PROOF
  <1> SUFFICES ASSUME AccountAssumption PROVE Spec => [][WithinLimits]_vars
    OBVIOUS
  <1>1. AccountsInv /\ LimitInv /\ [Next]_vars => WithinLimits
    BY LimitsStep
  <1>2. Spec => [](AccountsInv /\ LimitInv)
    BY LimitsReached
  <1> QED BY <1>1, <1>2, PTL DEF Spec
=============================================================================
