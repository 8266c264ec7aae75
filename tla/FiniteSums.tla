----------------------------- MODULE FiniteSums -----------------------------
(***************************************************************************)
(* Induction over the subsets of a finite set, and what it proves of the   *)
(* sums over finite sets with which credits and statistics are stated      *)
(* (SumFunctionOnSet): they are integers, an element adds its value        *)
(* whatever the order of the summation, and only the values count.         *)
(***************************************************************************)
EXTENDS Integers, FiniteSets, Functions, FiniteSetTheorems, NaturalsInduction,
        WellFoundedInduction, TLAPS

\* A set of naturals that is not empty has a least element.
LEMMA LeastNumber ==
  ASSUME NEW S \in SUBSET Nat, S # {}
  PROVE  \E x \in S : \A y \in S : x <= y
PROOF
  <1>1. PICK x \in S : \A y \in S : ~(<<y, x>> \in OpToRel(<, Nat))
    BY NatLessThanWellFounded, WFMin
  <1>2. \A y, z \in Nat : y < z => <<y, z>> \in OpToRel(<, Nat)
    BY DEF OpToRel
  <1>3. ASSUME NEW y \in S PROVE x <= y
    <2>1. ~(y < x)
      BY <1>1, <1>2
    <2> QED BY <2>1
  <1> QED BY <1>3

\* A set Q that contains every subset of S all of whose proper subsets it contains
\* contains every subset of S.
LEMMA SubsetInduction ==
  ASSUME NEW S, IsFiniteSet(S), NEW Q,
         \A T \in SUBSET S : (\A U \in SUBSET T : U # T => U \in Q) => T \in Q
  PROVE  \A T \in SUBSET S : T \in Q
PROOF
  <1> SUFFICES ASSUME NEW T0 \in SUBSET S, T0 \notin Q PROVE FALSE
    OBVIOUS
  <1> DEFINE Bad == {T \in SUBSET S : T \notin Q}
             Sizes == {Cardinality(T) : T \in Bad}
  <1>1. \A T \in SUBSET S : IsFiniteSet(T) /\ Cardinality(T) \in Nat
    BY FS_Subset, FS_CardinalityType
  <1>2. Sizes \in SUBSET Nat /\ Sizes # {}
    BY <1>1
  <1>3. PICK n \in Sizes : \A m \in Sizes : n <= m
    <2> HIDE DEF Sizes
    <2> QED BY <1>2, LeastNumber
  <1>4. PICK T \in Bad : n = Cardinality(T)
    BY <1>3
  <1>5. ASSUME NEW U \in SUBSET T, U # T PROVE U \in Q
    <2>0. IsFiniteSet(T) /\ T \in SUBSET S /\ U \in SUBSET S
      BY <1>1, <1>4
    <2>2. Cardinality(U) \in Nat /\ Cardinality(T) \in Nat
      BY <1>1, <2>0
    <2>1. Cardinality(U) < Cardinality(T) /\ U \in SUBSET S
      <3>1. Cardinality(U) <= Cardinality(T) /\ (Cardinality(U) = Cardinality(T) => U = T)
        BY <2>0, FS_Subset
      <3> QED BY <1>5, <2>0, <2>2, <3>1
    <2>3. SUFFICES ASSUME U \notin Q PROVE FALSE
      OBVIOUS
    <2>4. Cardinality(U) \in Sizes
      BY <2>1, <2>3
    <2> HIDE DEF Sizes
    <2> QED BY <1>3, <1>4, <2>1, <2>2, <2>4
  <1> QED BY <1>4, <1>5

-----------------------------------------------------------------------------
(* The recursion of a sum *)

Pick(s) == CHOOSE x \in s : TRUE

\* h computes the sums of f over the subsets of S.
Sums(h, f, S) ==
  h = [s \in SUBSET S |-> IF s = {} THEN 0 ELSE f[Pick(s)] + h[s \ {Pick(s)}]]

\* What SumFunctionOnSet stands for.
LEMMA SumUnfolded ==
  ASSUME NEW f, NEW S
  PROVE  SumFunctionOnSet(f, S) = (CHOOSE h : Sums(h, f, S))[S]
PROOF
  BY DEF SumFunctionOnSet, FoldFunctionOnSet, MapThenFoldSet, Sums, Pick

\* The sum over a subset is a picked element's part and the sum over the rest.
LEMMA SumsAt ==
  ASSUME NEW f, NEW S, NEW h, Sums(h, f, S), NEW s \in SUBSET S
  PROVE  /\ s = {} => h[s] = 0
         /\ s # {} => h[s] = f[Pick(s)] + h[s \ {Pick(s)}] /\ Pick(s) \in s
PROOF
  <1>1. h[s] = IF s = {} THEN 0 ELSE f[Pick(s)] + h[s \ {Pick(s)}]
    BY Zenon DEF Sums
  <1>2. s # {} => Pick(s) \in s
    BY DEF Pick
  <1> QED BY <1>1, <1>2

\* Two such functions agree where both are defined.
LEMMA SumsAgree ==
  ASSUME NEW f, NEW S, NEW T, NEW h, NEW g, Sums(h, f, S), Sums(g, f, T),
         NEW R, IsFiniteSet(R), R \subseteq S, R \subseteq T
  PROVE  h[R] = g[R]
PROOF
  <1> DEFINE Q == {s \in SUBSET R : h[s] = g[s]}
  <1>1. ASSUME NEW s \in SUBSET R, \A u \in SUBSET s : u # s => u \in Q
        PROVE  s \in Q
    <2>1. CASE s = {}
      BY <2>1, SumsAt
    <2>2. CASE s # {}
      <3>1. /\ h[s] = f[Pick(s)] + h[s \ {Pick(s)}] /\ Pick(s) \in s
            /\ g[s] = f[Pick(s)] + g[s \ {Pick(s)}]
        BY <2>2, SumsAt
      <3>2. s \ {Pick(s)} \in Q
        BY <1>1, <3>1
      <3> QED BY <3>1, <3>2
    <2> QED BY <2>1, <2>2
  <1>2. \A s \in SUBSET R : s \in Q
    <2> HIDE DEF Q
    <2> QED BY <1>1, SubsetInduction
  <1> QED BY <1>2

\* There is one over a finite set.
LEMMA SumsExist ==
  ASSUME NEW f, NEW S, IsFiniteSet(S)
  PROVE  \E h : Sums(h, f, S)
PROOF
  <1> DEFINE Q == {s \in SUBSET S : \E h : Sums(h, f, s)}
  <1>1. ASSUME NEW s \in SUBSET S, \A u \in SUBSET s : u # s => u \in Q
        PROVE  s \in Q
    <2> DEFINE H(u) == CHOOSE h : Sums(h, f, u)
               V(u) == H(u)[u]
               g == [u \in SUBSET s |->
                       IF u # s THEN V(u)
                       ELSE IF u = {} THEN 0 ELSE f[Pick(u)] + V(u \ {Pick(u)})]
    <2>1. \A u \in SUBSET s : u # s => Sums(H(u), f, u)
      BY <1>1
    <2>2. \A u \in SUBSET s : IsFiniteSet(u)
      BY FS_Subset
    <2> HIDE DEF H
    <2>3. ASSUME NEW u \in SUBSET s
          PROVE  g[u] = IF u = {} THEN 0 ELSE f[Pick(u)] + g[u \ {Pick(u)}]
      <3>1. CASE u = {}
        <4>1. u # s => V(u) = 0
          BY <2>1, <3>1, SumsAt
        <4> QED BY <3>1, <4>1
      <3>2. CASE u # {}
        <4> DEFINE x == Pick(u)
        <4>1. x \in u
          BY <3>2 DEF Pick
        <4>2. u \ {x} \in SUBSET s /\ u \ {x} # s /\ u \ {x} # u
          BY <4>1
        <4>3. g[u \ {x}] = V(u \ {x})
          BY <4>2
        <4>4. CASE u = s
          BY <3>2, <4>3, <4>4
        <4>5. CASE u # s
          <5>1. V(u) = f[x] + H(u)[u \ {x}]
            BY <2>1, <3>2, <4>5, SumsAt
          <5>2. H(u)[u \ {x}] = V(u \ {x})
            <6>1. Sums(H(u), f, u) /\ Sums(H(u \ {x}), f, u \ {x}) /\ IsFiniteSet(u \ {x})
              BY <2>1, <2>2, <4>2, <4>5
            <6> QED BY <6>1, SumsAgree
          <5> QED BY <3>2, <4>3, <4>5, <5>1, <5>2
        <4> QED BY <4>4, <4>5
      <3> QED BY <3>1, <3>2
    <2>4. Sums(g, f, s)
      <3>1. g = [u \in SUBSET s |-> g[u]]
        OBVIOUS
      <3> HIDE DEF g
      <3>2. [u \in SUBSET s |-> g[u]]
              = [u \in SUBSET s |-> IF u = {} THEN 0 ELSE f[Pick(u)] + g[u \ {Pick(u)}]]
        BY <2>3
      <3> QED BY <3>1, <3>2 DEF Sums
    <2> HIDE DEF g
    <2> QED BY <2>4
  <1>2. \A s \in SUBSET S : s \in Q
    <2> HIDE DEF Q
    <2> QED BY <1>1, SubsetInduction
  <1> QED BY <1>2

-----------------------------------------------------------------------------
(* Facts about sums *)

\* The sum over no element, and the element that is summed first.
LEMMA SumFirst ==
  ASSUME NEW f, NEW S, IsFiniteSet(S)
  PROVE  /\ S = {} => SumFunctionOnSet(f, S) = 0
         /\ S # {} => /\ Pick(S) \in S
                      /\ SumFunctionOnSet(f, S)
                           = f[Pick(S)] + SumFunctionOnSet(f, S \ {Pick(S)})
PROOF
  <1>1. PICK h : h = CHOOSE i : Sums(i, f, S)
    OBVIOUS
  <1>2. Sums(h, f, S)
    BY <1>1, SumsExist
  <1>3. SumFunctionOnSet(f, S) = h[S]
    BY <1>1, SumUnfolded
  <1>4. CASE S # {}
    <2> DEFINE R == S \ {Pick(S)}
    <2>1. PICK g : g = CHOOSE i : Sums(i, f, R)
      OBVIOUS
    <2>2. IsFiniteSet(R)
      BY FS_Subset
    <2>3. Sums(g, f, R)
      BY <2>1, <2>2, SumsExist
    <2>4. SumFunctionOnSet(f, R) = g[R]
      BY <2>1, SumUnfolded
    <2>5. h[R] = g[R]
      BY <1>2, <2>2, <2>3, SumsAgree
    <2>6. h[S] = f[Pick(S)] + h[R] /\ Pick(S) \in S
      BY <1>2, <1>4, SumsAt
    <2> QED BY <1>3, <1>4, <2>4, <2>5, <2>6
  <1>5. CASE S = {}
    BY <1>2, <1>3, <1>5, SumsAt
  <1> QED BY <1>4, <1>5

\* A sum of integers is an integer.
LEMMA SumInteger ==
  ASSUME NEW f, NEW S, IsFiniteSet(S), \A x \in S : f[x] \in Int
  PROVE  SumFunctionOnSet(f, S) \in Int
PROOF
  <1> DEFINE Q == {s \in SUBSET S : SumFunctionOnSet(f, s) \in Int}
  <1>1. ASSUME NEW s \in SUBSET S, \A u \in SUBSET s : u # s => u \in Q
        PROVE  s \in Q
    <2>1. IsFiniteSet(s)
      BY FS_Subset
    <2>2. CASE s = {}
      <3>1. SumFunctionOnSet(f, s) = 0
        BY <2>1, <2>2, SumFirst
      <3> QED BY <3>1
    <2>3. CASE s # {}
      <3>1. /\ SumFunctionOnSet(f, s) = f[Pick(s)] + SumFunctionOnSet(f, s \ {Pick(s)})
            /\ Pick(s) \in s
        BY <2>1, <2>3, SumFirst
      <3>2. s \ {Pick(s)} \in Q
        BY <1>1, <3>1
      <3>3. f[Pick(s)] \in Int /\ SumFunctionOnSet(f, s \ {Pick(s)}) \in Int
        BY <3>1, <3>2
      <3>4. SumFunctionOnSet(f, s) \in Int
        BY <3>1, <3>3
      <3> QED BY <3>4
    <2> QED BY <2>2, <2>3
  <1>2. \A s \in SUBSET S : s \in Q
    <2> HIDE DEF Q
    <2> QED BY <1>1, SubsetInduction
  <1> QED BY <1>2

\* Any element may be summed first.
LEMMA SumRemove ==
  ASSUME NEW f, NEW S, IsFiniteSet(S), \A x \in S : f[x] \in Int, NEW y \in S
  PROVE  SumFunctionOnSet(f, S) = f[y] + SumFunctionOnSet(f, S \ {y})
PROOF
  <1> DEFINE Q == {s \in SUBSET S : \A z \in s :
                     SumFunctionOnSet(f, s) = f[z] + SumFunctionOnSet(f, s \ {z})}
  <1>1. ASSUME NEW s \in SUBSET S, \A u \in SUBSET s : u # s => u \in Q
        PROVE  s \in Q
    <2>1. \A u \in SUBSET s : IsFiniteSet(u) /\ SumFunctionOnSet(f, u) \in Int
      BY FS_Subset, SumInteger
    <2>2. ASSUME NEW z \in s
          PROVE  SumFunctionOnSet(f, s) = f[z] + SumFunctionOnSet(f, s \ {z})
      <3> DEFINE x == Pick(s)
      <3>1. SumFunctionOnSet(f, s) = f[x] + SumFunctionOnSet(f, s \ {x}) /\ x \in s
        BY <2>1, SumFirst
      <3> HIDE DEF x
      <3>2. CASE x = z
        BY <3>1, <3>2
      <3>3. CASE x # z
        <4>1. s \ {x} \in Q /\ s \ {z} \in Q
          BY <1>1, <3>1
        <4>2. SumFunctionOnSet(f, s \ {x}) = f[z] + SumFunctionOnSet(f, (s \ {x}) \ {z})
          BY <3>3, <4>1
        <4>3. SumFunctionOnSet(f, s \ {z}) = f[x] + SumFunctionOnSet(f, (s \ {z}) \ {x})
          BY <3>1, <3>3, <4>1
        <4>4. (s \ {x}) \ {z} = (s \ {z}) \ {x}
          OBVIOUS
        <4>5. f[x] \in Int /\ f[z] \in Int /\ SumFunctionOnSet(f, (s \ {z}) \ {x}) \in Int
          BY <2>1, <3>1
        <4>6. /\ SumFunctionOnSet(f, s) \in Int /\ SumFunctionOnSet(f, s \ {x}) \in Int
              /\ SumFunctionOnSet(f, s \ {z}) \in Int
          BY <2>1
        <4>7. PICK a \in Int, b \in Int, i \in Int :
                a = f[x] /\ b = f[z] /\ i = SumFunctionOnSet(f, (s \ {z}) \ {x})
          BY <4>5
        <4>8. SumFunctionOnSet(f, s \ {x}) = b + i /\ SumFunctionOnSet(f, s \ {z}) = a + i
          BY <4>2, <4>3, <4>4, <4>7
        <4>9. SumFunctionOnSet(f, s) = a + (b + i)
          BY <3>1, <4>7, <4>8
        <4>10. a + (b + i) = b + (a + i)
          OBVIOUS
        <4> QED BY <4>7, <4>8, <4>9, <4>10
      <3> QED BY <3>2, <3>3
    <2> QED BY <2>2
  <1>2. \A s \in SUBSET S : s \in Q
    <2> HIDE DEF Q
    <2> QED BY <1>1, SubsetInduction
  <1> QED BY <1>2

\* A further element adds its value.
LEMMA SumAdd ==
  ASSUME NEW f, NEW S, IsFiniteSet(S), \A x \in S : f[x] \in Int, NEW y, y \notin S, f[y] \in Int
  PROVE  SumFunctionOnSet(f, S \cup {y}) = f[y] + SumFunctionOnSet(f, S)
PROOF
  <1>1. IsFiniteSet(S \cup {y}) /\ (S \cup {y}) \ {y} = S
    BY FS_AddElement
  <1>2. \A x \in S \cup {y} : f[x] \in Int
    OBVIOUS
  <1>3. SumFunctionOnSet(f, S \cup {y}) = f[y] + SumFunctionOnSet(f, (S \cup {y}) \ {y})
    BY <1>1, <1>2, SumRemove
  <1> QED BY <1>1, <1>3

\* Only the values on the set count.
LEMMA SumSame ==
  ASSUME NEW f, NEW g, NEW S, IsFiniteSet(S), \A x \in S : f[x] = g[x]
  PROVE  SumFunctionOnSet(f, S) = SumFunctionOnSet(g, S)
PROOF
  <1> DEFINE Q == {s \in SUBSET S : SumFunctionOnSet(f, s) = SumFunctionOnSet(g, s)}
  <1>1. ASSUME NEW s \in SUBSET S, \A u \in SUBSET s : u # s => u \in Q
        PROVE  s \in Q
    <2>1. IsFiniteSet(s)
      BY FS_Subset
    <2>2. CASE s = {}
      BY <2>1, <2>2, SumFirst
    <2>3. CASE s # {}
      <3>1. /\ SumFunctionOnSet(f, s) = f[Pick(s)] + SumFunctionOnSet(f, s \ {Pick(s)})
            /\ SumFunctionOnSet(g, s) = g[Pick(s)] + SumFunctionOnSet(g, s \ {Pick(s)})
            /\ Pick(s) \in s
        BY <2>1, <2>3, SumFirst
      <3>2. s \ {Pick(s)} \in Q
        BY <1>1, <3>1
      <3> QED BY <3>1, <3>2
    <2> QED BY <2>2, <2>3
  <1>2. \A s \in SUBSET S : s \in Q
    <2> HIDE DEF Q
    <2> QED BY <1>1, SubsetInduction
  <1> QED BY <1>2

\* The value at one element changes.
LEMMA SumReplace ==
  ASSUME NEW f, NEW g, NEW S, IsFiniteSet(S), \A x \in S : f[x] \in Int /\ g[x] \in Int,
         NEW y \in S, \A x \in S \ {y} : f[x] = g[x]
  PROVE  SumFunctionOnSet(g, S) = SumFunctionOnSet(f, S) - f[y] + g[y]
PROOF
  <1>1. IsFiniteSet(S \ {y}) /\ SumFunctionOnSet(f, S \ {y}) \in Int
    BY FS_Subset, SumInteger
  <1>2. SumFunctionOnSet(f, S) = f[y] + SumFunctionOnSet(f, S \ {y})
    BY SumRemove
  <1>3. SumFunctionOnSet(g, S) = g[y] + SumFunctionOnSet(g, S \ {y})
    BY SumRemove
  <1>4. SumFunctionOnSet(f, S \ {y}) = SumFunctionOnSet(g, S \ {y})
    BY <1>1, SumSame
  <1> QED BY <1>1, <1>2, <1>3, <1>4

\* A sum of natural numbers is one, and no less than any of them.
LEMMA SumNatural ==
  ASSUME NEW f, NEW S, IsFiniteSet(S), \A x \in S : f[x] \in Nat
  PROVE  SumFunctionOnSet(f, S) \in Nat /\ \A y \in S : f[y] <= SumFunctionOnSet(f, S)
PROOF
  <1> DEFINE Q == {s \in SUBSET S : SumFunctionOnSet(f, s) \in Nat}
  <1>1. ASSUME NEW s \in SUBSET S, \A u \in SUBSET s : u # s => u \in Q
        PROVE  s \in Q
    <2>1. IsFiniteSet(s)
      BY FS_Subset
    <2>2. CASE s = {}
      <3>1. SumFunctionOnSet(f, s) = 0
        BY <2>1, <2>2, SumFirst
      <3> QED BY <3>1
    <2>3. CASE s # {}
      <3>1. /\ Pick(s) \in s
            /\ SumFunctionOnSet(f, s) = f[Pick(s)] + SumFunctionOnSet(f, s \ {Pick(s)})
        BY <2>1, <2>3, SumFirst
      <3>2. SumFunctionOnSet(f, s \ {Pick(s)}) \in Nat
        BY <1>1, <3>1
      <3>3. f[Pick(s)] \in Nat
        BY <3>1
      <3> QED BY <3>1, <3>2, <3>3
    <2> QED BY <2>2, <2>3
  <1> HIDE DEF Q
  <1>2. \A s \in SUBSET S : s \in Q
    BY <1>1, SubsetInduction
  <1>3. \A s \in SUBSET S : SumFunctionOnSet(f, s) \in Nat
    BY <1>2 DEF Q
  <1>4. ASSUME NEW y \in S PROVE f[y] <= SumFunctionOnSet(f, S)
    <2>1. SumFunctionOnSet(f, S) = f[y] + SumFunctionOnSet(f, S \ {y})
      BY SumRemove
    <2>2. SumFunctionOnSet(f, S \ {y}) \in Nat /\ f[y] \in Nat
      BY <1>3
    <2> QED BY <2>1, <2>2
  <1> QED BY <1>3, <1>4

\* Zeroes add up to zero.
LEMMA SumZero ==
  ASSUME NEW f, NEW S, IsFiniteSet(S), \A x \in S : f[x] = 0
  PROVE  SumFunctionOnSet(f, S) = 0
PROOF
  <1> DEFINE Q == {s \in SUBSET S : SumFunctionOnSet(f, s) = 0}
  <1>1. ASSUME NEW s \in SUBSET S, \A u \in SUBSET s : u # s => u \in Q
        PROVE  s \in Q
    <2>1. IsFiniteSet(s)
      BY FS_Subset
    <2>2. CASE s = {}
      BY <2>1, <2>2, SumFirst
    <2>3. CASE s # {}
      <3>1. /\ Pick(s) \in s
            /\ SumFunctionOnSet(f, s) = f[Pick(s)] + SumFunctionOnSet(f, s \ {Pick(s)})
        BY <2>1, <2>3, SumFirst
      <3>2. SumFunctionOnSet(f, s \ {Pick(s)}) = 0 /\ f[Pick(s)] = 0
        BY <1>1, <3>1
      <3> QED BY <3>1, <3>2
    <2> QED BY <2>2, <2>3
  <1> HIDE DEF Q
  <1>2. \A s \in SUBSET S : s \in Q
    BY <1>1, SubsetInduction
  <1> QED BY <1>2 DEF Q
=============================================================================
