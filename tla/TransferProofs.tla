--------------------------- MODULE TransferProofs ---------------------------
(***************************************************************************)
(* Proofs about Transfer, for any number of clients, users, files and      *)
(* transfers.                                                              *)
(***************************************************************************)
EXTENDS Transfer, FiniteSums

-----------------------------------------------------------------------------
(* Lemmas about the operators *)

\* A command only starts between two commands and below the bound on transfers.
LEMMA StartBound ==
  ASSUME NEW c \in Clients, MayStart(c)
  PROVE  pc[c] = "idle" /\ num[c] < MaxTransfers
PROOF BY DEF MayStart

\* Kilobytes of a natural number of bytes, times the ratio, are a natural number.
LEMMA PriceNat ==
  ASSUME NEW b \in Nat
  PROVE  (b \div KB) * Ratio \in Nat
PROOF
  <1>1. b \div KB \in Nat
    BY CreditAssumption
  <1> DEFINE q == b \div KB
  <1>2. q \in Nat
    BY <1>1
  <1> HIDE DEF q
  <1>3. q * Ratio \in Nat
    BY <1>2, CreditAssumption
  <1> QED BY <1>3 DEF q

-----------------------------------------------------------------------------
(* Slots *)

\* c takes a slot of kind k: TransferCounter::Start succeeds.
TakesSlot(c, k) ==
  /\ ~Busy(c) /\ Busy(c)' /\ kind'[c] = k /\ SlotFree(k, UserOf[c])
  /\ count' = [count EXCEPT ![k][UserOf[c]] = @ + 1]
  /\ global' = [global EXCEPT ![k] = @ + 1]

\* c gives its slot of kind k back: TransferCounter::Stop.
GivesSlot(c, k) ==
  /\ Busy(c) /\ ~Busy(c)' /\ kind[c] = k
  /\ count' = [count EXCEPT ![k][UserOf[c]] = @ - 1]
  /\ global' = [global EXCEPT ![k] = @ - 1]

\* Client d is as busy as before, with the same command.
SameSlot(d) == Busy(d)' = Busy(d) /\ (Busy(d) => kind'[d] = kind[d])

\* A step takes a slot, gives one back, or leaves the slots alone.
LEMMA SlotCases ==
  ASSUME TypeOK, [Next]_vars
  PROVE  \/ /\ count' = count /\ global' = global
            /\ \A d \in Clients : SameSlot(d)
         \/ \E c \in Clients, k \in AllKinds :
              /\ TakesSlot(c, k) \/ GivesSlot(c, k)
              /\ \A d \in Clients \ {c} : SameSlot(d)
PROOF
  <1> DEFINE Goal ==
         \/ /\ count' = count /\ global' = global
            /\ \A d \in Clients : SameSlot(d)
         \/ \E c \in Clients, k \in AllKinds :
              /\ TakesSlot(c, k) \/ GivesSlot(c, k)
              /\ \A d \in Clients \ {c} : SameSlot(d)
  <1> USE DEF TypeOK, handlerVars, dataVars, slotVars, fileVars, creditVars, Pcs, Busy, SameSlot
  <1>1. ASSUME NEW c \in Clients, Rest(c) PROVE Goal
    BY <1>1 DEF Rest
  <1>2. ASSUME NEW c \in Clients, NEW k \in AllKinds, Start(c, k) PROVE Goal
    <2>1. pc[c] = "idle"
      BY <1>2, StartBound DEF Start
    <2>2. kind' = [kind EXCEPT ![c] = k]
      BY <1>2 DEF Start
    <2>3. CASE SlotFree(k, UserOf[c]) /\ pc' = [pc EXCEPT ![c] = "started"]
               /\ count' = [count EXCEPT ![k][UserOf[c]] = @ + 1]
               /\ global' = [global EXCEPT ![k] = @ + 1]
      <3>1. TakesSlot(c, k)
        BY <2>1, <2>2, <2>3 DEF TakesSlot
      <3>2. \A d \in Clients \ {c} : SameSlot(d)
        BY <2>2, <2>3
      <3> QED BY <3>1, <3>2
    <2>4. CASE UNCHANGED slotVars /\ \E o \in {"idle", "ended"} : pc' = [pc EXCEPT ![c] = o]
      BY <2>1, <2>2, <2>4
    <2> QED BY <1>2, <2>3, <2>4 DEF Start, Goto
  <1>3. ASSUME NEW c \in Clients, Retr(c) PROVE Goal
    BY <1>3, ZenonT(30) DEF Retr, RetrOpenFile, RetrCharge, RetrOpen, RetrChunk, RetrClose, RetrGuard,
       Goto, Leave
  <1>4. ASSUME NEW c \in Clients, Stor(c) PROVE Goal
    BY <1>4, SMTT(30) DEF Stor, StorCreate, StorOpen, StorChunk, StorClose, StorCheck, StorGuard,
       FileGuard, Goto, Leave, Throw
  <1>5. ASSUME NEW c \in Clients, XferEnd(c) \/ HandleControl(c) PROVE Goal
    BY <1>5 DEF XferEnd, HandleControl, Goto, Leave, Throw
  <1>6. ASSUME NEW c \in Clients, CountGuard(c) PROVE Goal
    <2>1. GivesSlot(c, kind[c]) /\ kind[c] \in AllKinds
      BY <1>6 DEF CountGuard, Goto, GivesSlot
    <2>2. \A d \in Clients \ {c} : SameSlot(d)
      BY <1>6 DEF CountGuard, Goto
    <2> QED BY <2>1, <2>2
  <1>7. ASSUME NEW c \in Clients, NEW n \in 1 .. MaxTransfers, DoIncrement(c, n) PROVE Goal
    BY <1>7 DEF DoIncrement
  <1>8. CASE UNCHANGED vars
    BY <1>8 DEF vars
  <1> QED BY <1>1, <1>2, <1>3, <1>4, <1>5, <1>6, <1>7, <1>8
        DEF Next, RetrStart, StorStart, AllKinds

\* The handlers that hold a slot of kind k and satisfy P: all of them, those of
\* a user, those of users who are not exempt.
Holders(k) == {c \in Clients : Busy(c) /\ kind[c] = k}
HoldersOf(k, u) == {c \in Clients : Busy(c) /\ kind[c] = k /\ UserOf[c] = u}
Ordinary(k) == {c \in Clients : Busy(c) /\ kind[c] = k /\ UserOf[c] \notin Exempt}

\* These sets are finite.
LEMMA HoldersFinite ==
  ASSUME NEW k \in AllKinds
  PROVE  /\ IsFiniteSet(Holders(k)) /\ Cardinality(Holders(k)) \in Nat
         /\ IsFiniteSet(Ordinary(k)) /\ Cardinality(Ordinary(k)) <= Cardinality(Holders(k))
         /\ Cardinality(Ordinary(k)) \in Nat
         /\ \A u : IsFiniteSet(HoldersOf(k, u)) /\ Cardinality(HoldersOf(k, u)) \in Nat
PROOF
  <1>1. Holders(k) \subseteq Clients /\ \A u : HoldersOf(k, u) \subseteq Clients
    BY DEF Holders, HoldersOf
  <1>2. Ordinary(k) \subseteq Holders(k)
    BY DEF Holders, Ordinary
  <1>3. IsFiniteSet(Holders(k)) /\ \A u : IsFiniteSet(HoldersOf(k, u))
    BY <1>1, ClientAssumption, FS_Subset
  <1>4. IsFiniteSet(Ordinary(k)) /\ Cardinality(Ordinary(k)) <= Cardinality(Holders(k))
    BY <1>2, <1>3, FS_Subset
  <1> QED BY <1>3, <1>4, FS_CardinalityType

\* What a step that leaves the slots alone does to these sets ...
LEMMA SameHolders ==
  ASSUME \A d \in Clients : SameSlot(d), NEW k
  PROVE  /\ Holders(k)' = Holders(k) /\ Ordinary(k)' = Ordinary(k)
         /\ \A u : HoldersOf(k, u)' = HoldersOf(k, u)
PROOF BY DEF SameSlot, Holders, HoldersOf, Ordinary

\* ... a step that takes a slot ...
LEMMA TakenHolders ==
  ASSUME NEW c \in Clients, NEW k \in AllKinds, TakesSlot(c, k),
         \A d \in Clients \ {c} : SameSlot(d)
  PROVE  /\ c \notin Holders(k) /\ Holders(k)' = Holders(k) \cup {c}
         /\ c \notin HoldersOf(k, UserOf[c])
         /\ HoldersOf(k, UserOf[c])' = HoldersOf(k, UserOf[c]) \cup {c}
         /\ \A u : u # UserOf[c] => HoldersOf(k, u)' = HoldersOf(k, u)
         /\ UserOf[c] \in Exempt => Ordinary(k)' = Ordinary(k)
         /\ UserOf[c] \notin Exempt => Ordinary(k)' = Ordinary(k) \cup {c}
         /\ c \notin Ordinary(k)
         /\ \A j : j # k => /\ Holders(j)' = Holders(j) /\ Ordinary(j)' = Ordinary(j)
                            /\ \A u : HoldersOf(j, u)' = HoldersOf(j, u)
PROOF BY DEF TakesSlot, SameSlot, Holders, HoldersOf, Ordinary

\* ... and a step that gives one back.
LEMMA GivenHolders ==
  ASSUME NEW c \in Clients, NEW k \in AllKinds, GivesSlot(c, k),
         \A d \in Clients \ {c} : SameSlot(d)
  PROVE  /\ c \in Holders(k) /\ Holders(k)' = Holders(k) \ {c}
         /\ c \in HoldersOf(k, UserOf[c])
         /\ HoldersOf(k, UserOf[c])' = HoldersOf(k, UserOf[c]) \ {c}
         /\ \A u : u # UserOf[c] => HoldersOf(k, u)' = HoldersOf(k, u)
         /\ Ordinary(k)' \subseteq Ordinary(k)
         /\ \A j : j # k => /\ Holders(j)' = Holders(j) /\ Ordinary(j)' = Ordinary(j)
                            /\ \A u : HoldersOf(j, u)' = HoldersOf(j, u)
PROOF BY DEF GivesSlot, SameSlot, Holders, HoldersOf, Ordinary

\* The counters count the holders.
LEMMA SlotsExactStep ==
  ASSUME TypeOK, SlotsExact, [Next]_vars
  PROVE  /\ SlotsExact'
         /\ count' \in [AllKinds -> [Users -> Nat]] /\ global' \in [AllKinds -> Nat]
PROOF
  <1> DEFINE Exact(j) == /\ global'[j] = Cardinality(Holders(j)')
                         /\ \A u \in Users : count'[j][u] = Cardinality(HoldersOf(j, u)')
             Shape == count' \in [AllKinds -> [Users -> Int]] /\ global' \in [AllKinds -> Int]
  <1>1. \A j \in AllKinds : /\ global[j] = Cardinality(Holders(j))
                            /\ \A u \in Users : count[j][u] = Cardinality(HoldersOf(j, u))
    BY DEF SlotsExact, Holders, HoldersOf
  <1>2. SUFFICES Shape /\ \A j \in AllKinds : Exact(j)
    <2>1. ASSUME Shape /\ \A j \in AllKinds : Exact(j) PROVE SlotsExact'
      BY <2>1 DEF SlotsExact, Holders, HoldersOf
    <2>2. \A j \in AllKinds : /\ Cardinality(Holders(j)') \in Nat
                              /\ \A u \in Users : Cardinality(HoldersOf(j, u)') \in Nat
      <3>1. \A j \in AllKinds : IsFiniteSet(Holders(j)') /\ \A u : IsFiniteSet(HoldersOf(j, u)')
        <4>1. \A j : Holders(j)' \subseteq Clients /\ \A u : HoldersOf(j, u)' \subseteq Clients
          BY DEF Holders, HoldersOf
        <4> QED BY <4>1, ClientAssumption, FS_Subset
      <3> QED BY <3>1, FS_CardinalityType
    <2>3. ASSUME Shape /\ \A j \in AllKinds : Exact(j)
          PROVE  /\ \A j \in AllKinds : global'[j] \in Nat
                 /\ \A j \in AllKinds : \A u \in Users : count'[j][u] \in Nat
      BY <2>2, <2>3
    <2>4. ASSUME Shape /\ \A j \in AllKinds : Exact(j)
          PROVE  /\ count' \in [AllKinds -> [Users -> Nat]] /\ global' \in [AllKinds -> Nat]
      <3> HIDE DEF Exact
      <3>1. \A j \in AllKinds : count'[j] \in [Users -> Nat]
        BY <2>3, <2>4
      <3> QED BY <2>3, <2>4, <3>1
    <2> QED BY <2>1, <2>4
  <1>3. CASE /\ count' = count /\ global' = global
             /\ \A d \in Clients : SameSlot(d)
    <2>1. Shape
      BY <1>3 DEF TypeOK
    <2> QED BY <1>1, <1>3, <2>1, SameHolders
  <1>4. ASSUME NEW c \in Clients, NEW k \in AllKinds, TakesSlot(c, k),
               \A d \in Clients \ {c} : SameSlot(d)
        PROVE  Shape /\ \A j \in AllKinds : Exact(j)
    <2>1. UserOf[c] \in Users
      BY UserAssumption
    <2>2. Shape
      <3> DEFINE more == [count[k] EXCEPT ![UserOf[c]] = @ + 1]
      <3>1. count \in [AllKinds -> [Users -> Nat]] /\ global \in [AllKinds -> Nat]
        BY DEF TypeOK
      <3>2. more \in [Users -> Nat]
        BY <2>1, <3>1
      <3>3. count' = [count EXCEPT ![k] = more] /\ global' = [global EXCEPT ![k] = @ + 1]
        BY <1>4 DEF TakesSlot
      <3> HIDE DEF more
      <3>4. count' \in [AllKinds -> [Users -> Nat]]
        BY <3>1, <3>2, <3>3
      <3>5. global' \in [AllKinds -> Nat]
        BY <3>1, <3>3
      <3> QED BY <3>4, <3>5
    <2>3. /\ global'[k] = global[k] + 1 /\ count'[k][UserOf[c]] = count[k][UserOf[c]] + 1
          /\ \A u \in Users : u # UserOf[c] => count'[k][u] = count[k][u]
          /\ \A j \in AllKinds : j # k => global'[j] = global[j] /\ count'[j] = count[j]
      BY <1>4, <2>1 DEF TypeOK, TakesSlot
    <2>4. Cardinality(Holders(k)') = Cardinality(Holders(k)) + 1
      BY <1>4, TakenHolders, HoldersFinite, FS_AddElement
    <2>5. Cardinality(HoldersOf(k, UserOf[c])') = Cardinality(HoldersOf(k, UserOf[c])) + 1
      <3>1. IsFiniteSet(HoldersOf(k, UserOf[c]))
        BY HoldersFinite
      <3>2. /\ c \notin HoldersOf(k, UserOf[c])
            /\ HoldersOf(k, UserOf[c])' = HoldersOf(k, UserOf[c]) \cup {c}
        BY <1>4, TakenHolders
      <3> QED BY <3>1, <3>2, FS_AddElement
    <2>6. Exact(k)
      BY <1>1, <1>4, <2>1, <2>3, <2>4, <2>5, TakenHolders
    <2>7. \A j \in AllKinds : j # k => Exact(j)
      BY <1>1, <1>4, <2>3, TakenHolders
    <2> QED BY <2>2, <2>6, <2>7
  <1>5. ASSUME NEW c \in Clients, NEW k \in AllKinds, GivesSlot(c, k),
               \A d \in Clients \ {c} : SameSlot(d)
        PROVE  Shape /\ \A j \in AllKinds : Exact(j)
    <2>1. UserOf[c] \in Users
      BY UserAssumption
    <2>2. Shape
      BY <1>5, <2>1, SMTT(30) DEF TypeOK, GivesSlot
    <2>3. /\ global'[k] = global[k] - 1 /\ count'[k][UserOf[c]] = count[k][UserOf[c]] - 1
          /\ \A u \in Users : u # UserOf[c] => count'[k][u] = count[k][u]
          /\ \A j \in AllKinds : j # k => global'[j] = global[j] /\ count'[j] = count[j]
      BY <1>5, <2>1 DEF TypeOK, GivesSlot
    <2>4. Cardinality(Holders(k)') = Cardinality(Holders(k)) - 1
      BY <1>5, GivenHolders, HoldersFinite, FS_RemoveElement
    <2>5. Cardinality(HoldersOf(k, UserOf[c])') = Cardinality(HoldersOf(k, UserOf[c])) - 1
      <3>1. IsFiniteSet(HoldersOf(k, UserOf[c]))
        BY HoldersFinite
      <3> QED BY <1>5, <3>1, GivenHolders, FS_RemoveElement, ZenonT(30)
    <2>6. Exact(k)
      BY <1>1, <1>5, <2>1, <2>3, <2>4, <2>5, GivenHolders
    <2>7. \A j \in AllKinds : j # k => Exact(j)
      BY <1>1, <1>5, <2>3, GivenHolders
    <2> QED BY <2>2, <2>6, <2>7
  <1> QED BY <1>3, <1>4, <1>5, SlotCases

\* The limits are kept.
LEMMA SlotsLimitedStep ==
  ASSUME TypeOK, SlotsExact, SlotsLimited, [Next]_vars
  PROVE  SlotsLimited'
PROOF
  <1> DEFINE Below(j) ==
        /\ \A u \in Users : MaxSim[u] # -1 => count'[j][u] <= MaxSim[u]
        /\ MaxGlobal # -1 => Cardinality(Ordinary(j)') <= MaxGlobal
  <1>1. \A j \in AllKinds :
          /\ \A u \in Users : MaxSim[u] # -1 => count[j][u] <= MaxSim[u]
          /\ MaxGlobal # -1 => Cardinality(Ordinary(j)) <= MaxGlobal
    BY DEF SlotsLimited, Ordinary
  <1>2. SUFFICES \A j \in AllKinds : Below(j)
    BY DEF SlotsLimited, Ordinary
  <1>3. CASE /\ count' = count /\ global' = global
             /\ \A d \in Clients : SameSlot(d)
    BY <1>1, <1>3, SameHolders
  <1>4. ASSUME NEW c \in Clients, NEW k \in AllKinds, TakesSlot(c, k),
               \A d \in Clients \ {c} : SameSlot(d)
        PROVE  \A j \in AllKinds : Below(j)
    <2>1. UserOf[c] \in Users
      BY UserAssumption
    <2>2. /\ count'[k][UserOf[c]] = count[k][UserOf[c]] + 1
          /\ \A u \in Users : u # UserOf[c] => count'[k][u] = count[k][u]
          /\ \A j \in AllKinds : j # k => count'[j] = count[j]
      BY <1>4, <2>1 DEF TypeOK, TakesSlot
    <2>3. \A u \in Users : MaxSim[u] # -1 => count'[k][u] <= MaxSim[u]
      <3>1. MaxSim[UserOf[c]] # -1 => count[k][UserOf[c]] < MaxSim[UserOf[c]]
        BY <1>4 DEF TakesSlot, SlotFree
      <3>2. count[k][UserOf[c]] \in Nat /\ MaxSim[UserOf[c]] \in Nat \cup {-1}
        BY <2>1, LimitAssumption DEF TypeOK
      <3> QED BY <1>1, <2>1, <2>2, <3>1, <3>2
    <2>4. MaxGlobal # -1 => Cardinality(Ordinary(k)') <= MaxGlobal
      <3>1. CASE UserOf[c] \in Exempt
        BY <1>1, <1>4, <3>1, TakenHolders
      <3>2. CASE UserOf[c] \notin Exempt
        <4>1. MaxGlobal # -1 => global[k] < MaxGlobal
          BY <1>4, <3>2 DEF TakesSlot, SlotFree
        <4>2. global[k] = Cardinality(Holders(k)) /\ global[k] \in Nat
          BY DEF SlotsExact, TypeOK, Holders
        <4>3. c \notin Ordinary(k) /\ Ordinary(k)' = Ordinary(k) \cup {c}
          BY <1>4, <3>2, TakenHolders
        <4>4. Cardinality(Ordinary(k)') = Cardinality(Ordinary(k)) + 1
          BY <4>3, HoldersFinite, FS_AddElement
        <4> QED BY <4>1, <4>2, <4>4, HoldersFinite, LimitAssumption
      <3> QED BY <3>1, <3>2
    <2>5. \A j \in AllKinds : j # k => Below(j)
      BY <1>1, <1>4, <2>2, TakenHolders
    <2> QED BY <2>3, <2>4, <2>5
  <1>5. ASSUME NEW c \in Clients, NEW k \in AllKinds, GivesSlot(c, k),
               \A d \in Clients \ {c} : SameSlot(d)
        PROVE  \A j \in AllKinds : Below(j)
    <2>1. UserOf[c] \in Users
      BY UserAssumption
    <2>2. /\ count'[k][UserOf[c]] = count[k][UserOf[c]] - 1
          /\ \A u \in Users : u # UserOf[c] => count'[k][u] = count[k][u]
          /\ \A j \in AllKinds : j # k => count'[j] = count[j]
      BY <1>5, <2>1 DEF TypeOK, GivesSlot
    <2>3. \A u \in Users : MaxSim[u] # -1 => count'[k][u] <= MaxSim[u]
      <3>1. count[k][UserOf[c]] \in Nat /\ MaxSim[UserOf[c]] \in Nat \cup {-1}
        BY <2>1, LimitAssumption DEF TypeOK
      <3> QED BY <1>1, <2>1, <2>2, <3>1
    <2>4. MaxGlobal # -1 => Cardinality(Ordinary(k)') <= MaxGlobal
      <3>1. Ordinary(k)' \subseteq Ordinary(k)
        BY <1>5, GivenHolders
      <3>2. /\ Cardinality(Ordinary(k)') <= Cardinality(Ordinary(k))
            /\ IsFiniteSet(Ordinary(k)')
        BY <3>1, HoldersFinite, FS_Subset
      <3>3. Cardinality(Ordinary(k)') \in Nat /\ Cardinality(Ordinary(k)) \in Nat
        BY <3>2, HoldersFinite, FS_CardinalityType
      <3> QED BY <1>1, <3>2, <3>3, LimitAssumption
    <2>5. \A j \in AllKinds : j # k => Below(j)
      BY <1>1, <1>5, <2>2, GivenHolders
    <2> QED BY <2>3, <2>4, <2>5
  <1> QED BY <1>3, <1>4, <1>5, SlotCases

-----------------------------------------------------------------------------
(* Types *)

\* IncrCredits starts an increment of a natural number of kilobytes.
LEMMA IncrType ==
  ASSUME TypeOK, NEW c \in Clients, NEW kb \in Nat, IncrCredits(c, kb)
  PROVE  /\ jobs' \in [Clients -> [1 .. MaxTransfers -> [step : Steps, kb : Nat]]]
         /\ ledger' \in [Users -> Int]
PROOF
  <1>1. Job("update", kb) \in [step : Steps, kb : Nat]
    BY DEF Job, Steps
  <1> DEFINE j == Job("update", kb)
  <1>2. j \in [step : Steps, kb : Nat]
    BY <1>1
  <1> HIDE DEF j
  <1>3. jobs' = [jobs EXCEPT ![c][num[c]] = j]
    BY DEF IncrCredits, j
  <1>4. jobs' \in [Clients -> [1 .. MaxTransfers -> [step : Steps, kb : Nat]]]
    BY <1>2, <1>3 DEF TypeOK
  <1>5. ledger' = [ledger EXCEPT ![UserOf[c]] = @ + kb] /\ UserOf[c] \in Users
    BY UserAssumption DEF IncrCredits
  <1>6. ledger' \in [Users -> Int]
    BY <1>5 DEF TypeOK
  <1> QED BY <1>4, <1>6

\* DecrCredits takes a natural number of kilobytes from an entry that is there.
LEMMA DecrType ==
  ASSUME TypeOK, NEW c \in Clients, NEW kb \in Nat, NEW force \in BOOLEAN,
         CanDecr(UserOf[c], kb, force), DecrCredits(c, kb)
  PROVE  /\ credits' \in [Users -> Int \cup {NoEntry}]
         /\ paid' \in [Clients -> Int] /\ ledger' \in [Users -> Int]
PROOF
  <1>1. UserOf[c] \in Users
    BY UserAssumption
  <1>2. kb = 0 \/ credits[UserOf[c]] \in Int
    BY <1>1 DEF TypeOK, CanDecr
  <1>3. credits' \in [Users -> Int \cup {NoEntry}]
    BY <1>1, <1>2, SMTT(30) DEF TypeOK, DecrCredits
  <1>4. paid' \in [Clients -> Int] /\ ledger' \in [Users -> Int]
    BY <1>1, SMTT(30) DEF TypeOK, DecrCredits
  <1> QED BY <1>3, <1>4

\* A step of an increment changes its step alone, from one that is under way to
\* a later one, and adds its kilobytes at most once.
LEMMA IncrementStep ==
  ASSUME TypeOK, NEW c \in Clients, NEW n \in 1 .. MaxTransfers, DoIncrement(c, n)
  PROVE  /\ jobs' \in [Clients -> [1 .. MaxTransfers -> [step : Steps, kb : Nat]]]
         /\ \A d \in Clients : \A m \in 1 .. MaxTransfers :
              /\ jobs'[d][m].kb = jobs[d][m].kb
              /\ jobs'[d][m].step = "none" <=> jobs[d][m].step = "none"
         /\ credits' \in [Users -> Int \cup {NoEntry}]
         /\ \A u \in Users : credits'[u] = credits[u]
                             \/ (credits[u] # NoEntry /\ credits'[u] = credits[u] + jobs[c][n].kb)
                             \/ credits'[u] = jobs[c][n].kb
         /\ jobs[c][n].kb \in Nat
PROOF
  <1> DEFINE Rec == [step : Steps, kb : Nat]
             j == jobs[c][n]
             u == UserOf[c]
  <1>1. j \in Rec /\ jobs[c] \in [1 .. MaxTransfers -> Rec] /\ u \in Users
    BY UserAssumption DEF TypeOK
  <1>2. PICK s \in Steps \ {"none"} :
          jobs' = [jobs EXCEPT ![c][n].step = s] /\ j.step # "none"
    BY Zenon DEF DoIncrement, Steps
  <1>3. jobs' = [jobs EXCEPT ![c] = [jobs[c] EXCEPT ![n] = [j EXCEPT !.step = s]]]
    BY <1>2, Zenon
  <1>4. [j EXCEPT !.step = s] \in Rec /\ [j EXCEPT !.step = s].kb = j.kb
        /\ [j EXCEPT !.step = s].step = s
    BY <1>1, <1>2
  <1> DEFINE i == [j EXCEPT !.step = s]
  <1>5. i \in Rec /\ i.kb = j.kb /\ i.step = s /\ s # "none"
    BY <1>2, <1>4
  <1>6. jobs' = [jobs EXCEPT ![c] = [jobs[c] EXCEPT ![n] = i]]
    BY <1>3
  <1> HIDE DEF i, j
  <1>7. jobs' \in [Clients -> [1 .. MaxTransfers -> Rec]]
    BY <1>1, <1>5, <1>6 DEF TypeOK
  <1>8. ASSUME NEW d \in Clients, NEW m \in 1 .. MaxTransfers
        PROVE  /\ jobs'[d][m].kb = jobs[d][m].kb
               /\ jobs'[d][m].step = "none" <=> jobs[d][m].step = "none"
    <2>1. d = c /\ m = n => jobs'[d][m] = i /\ jobs[d][m] = j
      BY <1>1, <1>6 DEF TypeOK, j
    <2>2. ~(d = c /\ m = n) => jobs'[d][m] = jobs[d][m]
      BY <1>1, <1>6 DEF TypeOK
    <2> QED BY <1>2, <1>5, <2>1, <2>2
  <1>9. \/ credits' = credits
        \/ credits[u] # NoEntry /\ credits' = [credits EXCEPT ![u] = @ + j.kb]
        \/ credits[u] = NoEntry /\ credits' = [credits EXCEPT ![u] = j.kb]
    BY Zenon DEF DoIncrement, j
  <1>10. j.kb \in Nat
    BY <1>1
  <1>11. /\ credits' \in [Users -> Int \cup {NoEntry}]
         /\ \A v \in Users : credits'[v] = credits[v]
                             \/ (credits[v] # NoEntry /\ credits'[v] = credits[v] + j.kb)
                             \/ credits'[v] = j.kb
    <2>1. CASE credits' = credits
      BY <2>1 DEF TypeOK
    <2>2. CASE credits[u] # NoEntry /\ credits' = [credits EXCEPT ![u] = @ + j.kb]
      <3>1. credits[u] \in Int
        BY <1>1, <2>2 DEF TypeOK
      <3> DEFINE k == credits[u] + j.kb
      <3>2. k \in Int
        BY <1>10, <3>1
      <3>3. credits' = [credits EXCEPT ![u] = k]
        BY <2>2
      <3>4. \A v \in Users : credits'[v] = IF v = u THEN k ELSE credits[v]
        BY <3>3 DEF TypeOK
      <3> HIDE DEF k
      <3>5. credits' \in [Users -> Int \cup {NoEntry}]
        BY <1>1, <3>2, <3>3 DEF TypeOK
      <3> QED BY <2>2, <3>4, <3>5 DEF k
    <2>3. CASE credits[u] = NoEntry /\ credits' = [credits EXCEPT ![u] = j.kb]
      BY <1>1, <1>10, <2>3 DEF TypeOK
    <2> QED BY <1>9, <2>1, <2>2, <2>3
  <1> QED BY <1>7, <1>8, <1>10, <1>11 DEF j

\* An update of a function to BOOLEAN with a Boolean.
LEMMA BooleanUpdate ==
  ASSUME NEW f \in [Clients -> BOOLEAN], NEW c \in Clients, NEW b \in BOOLEAN
  PROVE  [f EXCEPT ![c] = b] \in [Clients -> BOOLEAN]
PROOF OBVIOUS

\* The type invariant without the two counters.
HandlerType ==
  /\ pc \in [Clients -> Pcs]
  /\ kind \in [Clients -> AllKinds]
  /\ out \in [Clients -> {"idle", "ended"}]
  /\ restart \in [Clients -> Nat] /\ bytes \in [Clients -> Nat]
  /\ size \in [Clients -> Nat]
  /\ open \in [Clients -> BOOLEAN] /\ aborted \in [Clients -> BOOLEAN]
  /\ fileOkay \in [Clients -> BOOLEAN]
  /\ inode \in [Clients -> Inodes] /\ dir \in Inodes /\ len \in [Inodes -> Nat]
  /\ num \in [Clients -> 0 .. MaxTransfers] /\ recorded \in [Clients -> Nat]
  /\ kept \subseteq Inodes

CreditType ==
  /\ credits \in [Users -> Int \cup {NoEntry}]
  /\ jobs \in [Clients -> [1 .. MaxTransfers -> [step : Steps, kb : Nat]]]
  /\ paid \in [Clients -> Int]
  /\ ledger \in [Users -> Int]

\* The variables of the handlers and of the file keep their types.
LEMMA HandlerTypeStep ==
  ASSUME TypeOK, [Next]_vars
  PROVE  HandlerType'
PROOF
  <1>1. HandlerType
    BY DEF TypeOK, HandlerType
  <1> USE TransferBounds
      DEF HandlerType, handlerVars, dataVars, slotVars, fileVars, creditVars, Pcs, Goto, AllKinds
  <1>2. ASSUME NEW c \in Clients, Rest(c) PROVE HandlerType'
    BY <1>1, <1>2 DEF Rest
  <1>3. ASSUME NEW c \in Clients, NEW k \in AllKinds, Start(c, k) PROVE HandlerType'
    <2>1. num[c] < MaxTransfers
      BY <1>3, StartBound DEF Start
    <2>2. num' \in [Clients -> 0 .. MaxTransfers]
      BY <1>1, <1>3, <2>1 DEF Start
    <2>3. pc' \in [Clients -> Pcs] /\ kind' \in [Clients -> AllKinds]
      BY <1>1, <1>3 DEF Start
    <2>4. recorded' \in [Clients -> Nat]
      BY <1>1, <1>3 DEF Start
    <2> QED BY <1>1, <1>3, <2>2, <2>3, <2>4 DEF Start
  <1>4. ASSUME NEW c \in Clients, RetrOpenFile(c) PROVE HandlerType'
    <2>1. len[dir] \in Nat /\ dir \in Inodes
      BY <1>1
    <2>2. /\ inode' = inode \/ inode' = [inode EXCEPT ![c] = dir]
          /\ size' = size \/ \E s \in Nat : size' = [size EXCEPT ![c] = s]
          /\ out' = out \/ \E o \in {"idle", "ended"} : out' = [out EXCEPT ![c] = o]
          /\ \E l \in {"guardCount", "opened"} : pc' = [pc EXCEPT ![c] = l]
      BY <1>4, <2>1, TransferBounds DEF RetrOpenFile, Leave
    <2>3. inode' \in [Clients -> Inodes] /\ size' \in [Clients -> Nat]
      BY <1>1, <2>1, <2>2
    <2>4. pc' \in [Clients -> Pcs] /\ out' \in [Clients -> {"idle", "ended"}]
      BY <1>1, <2>2
    <2>5. UNCHANGED <<kind, aborted, fileOkay, restart, open, bytes, dir, len, num, recorded, kept>>
      BY <1>4 DEF RetrOpenFile
    <2> QED BY <1>1, <2>3, <2>4, <2>5
  <1>5. ASSUME NEW c \in Clients, RetrCharge(c) PROVE HandlerType'
    <2>1. /\ out' = out \/ \E o \in {"idle", "ended"} : out' = [out EXCEPT ![c] = o]
          /\ \E l \in {"guardCount", "charged"} : pc' = [pc EXCEPT ![c] = l]
      BY <1>5 DEF RetrCharge, Leave
    <2>2. pc' \in [Clients -> Pcs] /\ out' \in [Clients -> {"idle", "ended"}]
      BY <1>1, <2>1
    <2>3. UNCHANGED <<handlerVars, dataVars, fileVars, num, recorded, kept>>
      BY <1>5 DEF RetrCharge
    <2> QED BY <1>1, <2>2, <2>3
  <1>6. ASSUME NEW c \in Clients, RetrOpen(c) PROVE HandlerType'
    <2>1. open' \in [Clients -> BOOLEAN]
      BY <1>1, <1>6, BooleanUpdate DEF RetrOpen
    <2>2. bytes' \in [Clients -> Nat]
      BY <1>1, <1>6 DEF RetrOpen
    <2>3. pc' \in [Clients -> Pcs] /\ out' \in [Clients -> {"idle", "ended"}]
      BY <1>1, <1>6 DEF RetrOpen, Leave
    <2> QED BY <1>1, <1>6, <2>1, <2>2, <2>3 DEF RetrOpen
  <1>7. ASSUME NEW c \in Clients, RetrChunk(c) PROVE HandlerType'
    BY <1>1, <1>7 DEF RetrChunk
  <1>8. ASSUME NEW c \in Clients, RetrClose(c) PROVE HandlerType'
    BY <1>1, <1>8 DEF RetrClose, Leave, Close
  <1>9. ASSUME NEW c \in Clients, RetrGuard(c) PROVE HandlerType'
    BY <1>1, <1>9 DEF RetrGuard, Close
  <1>10. ASSUME NEW c \in Clients, StorCreate(c) PROVE HandlerType'
    <2>1. CASE UNCHANGED <<fileVars, inode, fileOkay>> /\ Leave(c, "guardCount")
      BY <1>1, <1>10, <2>1 DEF StorCreate, Leave
    <2>2. ASSUME NEW i \in Inodes \ {0},
                 dir' = i, len' = [len EXCEPT ![i] = IF restart[c] > @ THEN @ ELSE restart[c]],
                 inode' = [inode EXCEPT ![c] = i],
                 fileOkay' = [fileOkay EXCEPT ![c] = restart[c] > 0],
                 Goto(c, "created"), UNCHANGED out
          PROVE  HandlerType'
      <3>1. (restart[c] > 0) \in BOOLEAN
        BY <1>1
      <3>2. fileOkay' \in [Clients -> BOOLEAN]
        BY <1>1, <2>2, <3>1
      <3> QED BY <1>1, <1>10, <2>2, <3>2 DEF StorCreate
    <2> QED BY <1>10, <2>1, <2>2 DEF StorCreate
  <1>11. ASSUME NEW c \in Clients, StorOpen(c) PROVE HandlerType'
    <2>1. 0 \in Inodes
      BY DEF Inodes
    <2>2. fileOkay' \in [Clients -> BOOLEAN] /\ open' \in [Clients -> BOOLEAN]
      BY <1>1, <1>11 DEF StorOpen, Leave, Throw
    <2>3. pc' \in [Clients -> Pcs] /\ out' \in [Clients -> {"idle", "ended"}]
      BY <1>1, <1>11 DEF StorOpen, Leave, Throw
    <2>4. dir' \in Inodes /\ bytes' \in [Clients -> Nat]
      BY <1>1, <1>11, <2>1 DEF StorOpen, Leave, Throw
    <2> QED BY <1>1, <1>11, <2>2, <2>3, <2>4 DEF StorOpen, Leave, Throw
  <1>12. ASSUME NEW c \in Clients, StorChunk(c) PROVE HandlerType'
    BY <1>1, <1>12 DEF StorChunk
  <1>13. ASSUME NEW c \in Clients, StorClose(c) PROVE HandlerType'
    BY <1>1, <1>13 DEF StorClose, Leave, Throw, Close
  <1>14. ASSUME NEW c \in Clients, StorCheck(c) PROVE HandlerType'
    <2>1. fileOkay' \in [Clients -> BOOLEAN]
      BY <1>1, <1>14, BooleanUpdate, Zenon DEF StorCheck
    <2>3. recorded' \in [Clients -> Nat]
      <3>1. recorded' = recorded \/ recorded' = [recorded EXCEPT ![c] = @ + 1]
        BY <1>14, Zenon DEF StorCheck
      <3> QED BY <1>1, <3>1
    <2>2. kept' \subseteq Inodes
      BY <1>1, <1>14 DEF StorCheck
    <2> QED BY <1>1, <1>14, <2>1, <2>2, <2>3 DEF StorCheck, Leave
  <1>15. ASSUME NEW c \in Clients, StorGuard(c) PROVE HandlerType'
    BY <1>1, <1>15 DEF StorGuard, Close
  <1>16. ASSUME NEW c \in Clients, FileGuard(c) PROVE HandlerType'
    <2>1. 0 \in Inodes
      BY DEF Inodes
    <2>2. dir' \in Inodes
      BY <1>1, <1>16, <2>1 DEF FileGuard
    <2> QED BY <1>1, <1>16, <2>2 DEF FileGuard
  <1>17. ASSUME NEW c \in Clients, XferEnd(c) PROVE HandlerType'
    <2>1. aborted' \in [Clients -> BOOLEAN]
      <3>1. \/ UNCHANGED aborted
            \/ \E b \in BOOLEAN : aborted' = [aborted EXCEPT ![c] = b]
        BY <1>17, Zenon DEF XferEnd
      <3> QED BY <1>1, <3>1, BooleanUpdate, Zenon
    <2>2. out' \in [Clients -> {"idle", "ended"}]
      <3>1. \/ UNCHANGED out
            \/ \E o \in {"idle", "ended"} : out' = [out EXCEPT ![c] = o]
        BY <1>17, Zenon DEF XferEnd, Leave
      <3> QED BY <1>1, <3>1
    <2>3. pc' \in [Clients -> Pcs]
      <3>1. Goto(c, "closing") \/ Goto(c, "guardData")
        BY <1>17, Zenon DEF XferEnd, Leave
      <3> QED BY <1>1, <3>1
    <2>4. UNCHANGED <<kind, size, fileOkay, inode, dataVars, fileVars, num, recorded, kept>>
      BY <1>17, Zenon DEF XferEnd
    <2> QED BY <1>1, <2>1, <2>2, <2>3, <2>4
  <1>18. ASSUME NEW c \in Clients, HandleControl(c) PROVE HandlerType'
    BY <1>1, <1>18 DEF HandleControl, Throw
  <1>19. ASSUME NEW c \in Clients, CountGuard(c) PROVE HandlerType'
    BY <1>1, <1>19 DEF CountGuard
  <1>20. ASSUME NEW c \in Clients, NEW n \in 1 .. MaxTransfers, DoIncrement(c, n)
         PROVE  HandlerType'
    BY <1>1, <1>20, Zenon DEF DoIncrement
  <1>21. CASE UNCHANGED vars
    BY <1>1, <1>21 DEF vars
  <1> QED BY <1>2, <1>3, <1>4, <1>5, <1>6, <1>7, <1>8, <1>9, <1>10, <1>11, <1>12, <1>13, <1>14,
             <1>15, <1>16, <1>17, <1>18, <1>19, <1>20, <1>21
          DEF Next, RetrStart, StorStart, Retr, Stor

\* The credits and the increments keep their types.
LEMMA CreditTypeStep ==
  ASSUME TypeOK, [Next]_vars
  PROVE  CreditType'
PROOF
  <1>1. CreditType
    BY DEF TypeOK, CreditType
  <1> USE DEF CreditType, handlerVars, dataVars, slotVars, fileVars, creditVars
  <1>2. ASSUME NEW c \in Clients, Rest(c) PROVE CreditType'
    BY <1>1, <1>2 DEF Rest
  <1>3. ASSUME NEW c \in Clients, NEW k \in AllKinds, Start(c, k) PROVE CreditType'
    BY <1>1, <1>3 DEF Start
  <1>4. ASSUME NEW c \in Clients, RetrOpenFile(c) PROVE CreditType'
    BY <1>1, <1>4 DEF RetrOpenFile
  <1>5. ASSUME NEW c \in Clients, RetrCharge(c) PROVE CreditType'
    <2> DEFINE kb == (size[c] \div KB) * Ratio
    <2>1. kb \in Nat
      BY PriceNat DEF TypeOK
    <2>2. CASE UNCHANGED <<credits, paid, ledger>>
      BY <1>1, <1>5, <2>2 DEF RetrCharge
    <2>3. CASE CanDecr(UserOf[c], kb, FALSE) /\ DecrCredits(c, kb)
      <3> HIDE DEF kb
      <3>1. /\ credits' \in [Users -> Int \cup {NoEntry}]
            /\ paid' \in [Clients -> Int] /\ ledger' \in [Users -> Int]
        BY <2>1, <2>3, DecrType
      <3> QED BY <1>1, <1>5, <3>1 DEF RetrCharge
    <2> QED BY <1>5, <2>2, <2>3 DEF RetrCharge
  <1>6. ASSUME NEW c \in Clients, RetrOpen(c) \/ RetrChunk(c) \/ RetrClose(c) PROVE CreditType'
    BY <1>1, <1>6 DEF RetrOpen, RetrChunk, RetrClose
  <1>7. ASSUME NEW c \in Clients, RetrGuard(c) PROVE CreditType'
    <2> DEFINE rest == size[c] - bytes[c]
               back == (rest \div KB) * Ratio
               more == (0 - rest) * Ratio
    <2>1. rest \in Int /\ (rest > 0 => back \in Nat) /\ (rest < 0 => more \in Nat)
      <3>1. rest \in Int
        BY DEF TypeOK
      <3> HIDE DEF rest
      <3>2. rest > 0 => back \in Nat
        BY <3>1, PriceNat
      <3>3. ASSUME rest < 0 PROVE more \in Nat
        <4> DEFINE r == 0 - rest
        <4>1. r \in Nat
          BY <3>1, <3>3
        <4> HIDE DEF r
        <4>2. r * Ratio \in Nat
          BY <4>1, CreditAssumption
        <4> QED BY <4>2 DEF r
      <3> QED BY <3>1, <3>2, <3>3
    <2>2. CASE UNCHANGED creditVars
      BY <1>1, <2>2
    <2>3. CASE rest > 0 /\ IncrCredits(c, back) /\ paid' = [paid EXCEPT ![c] = @ - back]
               /\ UNCHANGED credits
      <3> HIDE DEF back, rest
      <3>1. /\ jobs' \in [Clients -> [1 .. MaxTransfers -> [step : Steps, kb : Nat]]]
            /\ ledger' \in [Users -> Int]
        BY <2>1, <2>3, IncrType
      <3>2. back \in Nat /\ paid' = [paid EXCEPT ![c] = @ - back] /\ UNCHANGED credits
        BY <2>1, <2>3
      <3>3. paid' \in [Clients -> Int]
        BY <1>1, <3>2
      <3> QED BY <1>1, <3>1, <3>2, <3>3
    <2>4. CASE rest < 0 /\ UNCHANGED jobs /\ CanDecr(UserOf[c], more, TRUE)
               /\ DecrCredits(c, more)
      <3> HIDE DEF more, rest
      <3> QED BY <1>1, <2>1, <2>4, DecrType
    <2>5. CASE UNCHANGED <<credits, paid, ledger, jobs>>
      BY <1>1, <2>5
    <2> QED BY <1>7, <2>2, <2>3, <2>4, <2>5 DEF RetrGuard
  <1>8. ASSUME NEW c \in Clients,
               StorCreate(c) \/ StorOpen(c) \/ StorChunk(c) \/ StorClose(c) \/ StorGuard(c)
               \/ FileGuard(c)
        PROVE  CreditType'
    BY <1>1, <1>8 DEF StorCreate, StorOpen, StorChunk, StorClose, StorGuard, FileGuard
  <1>9. ASSUME NEW c \in Clients, StorCheck(c) PROVE CreditType'
    <2> DEFINE kb == (bytes[c] \div KB) * Ratio
    <2>1. kb \in Nat
      BY PriceNat DEF TypeOK
    <2> HIDE DEF kb
    <2>2. CASE IncrCredits(c, kb)
      BY <1>1, <1>9, <2>1, <2>2, IncrType DEF StorCheck
    <2>3. CASE UNCHANGED <<jobs, ledger>>
      BY <1>1, <1>9, <2>3 DEF StorCheck
    <2> QED BY <1>9, <2>2, <2>3 DEF StorCheck, kb
  <1>10. ASSUME NEW c \in Clients, XferEnd(c) \/ HandleControl(c) \/ CountGuard(c)
         PROVE  CreditType'
    BY <1>1, <1>10 DEF XferEnd, HandleControl, CountGuard
  <1>11. ASSUME NEW c \in Clients, NEW n \in 1 .. MaxTransfers, DoIncrement(c, n)
         PROVE  CreditType'
    <2>1. UNCHANGED <<paid, ledger>>
      BY <1>11, Zenon DEF DoIncrement
    <2> QED BY <1>1, <1>11, <2>1, IncrementStep
  <1>12. CASE UNCHANGED vars
    BY <1>1, <1>12 DEF vars
  <1> QED BY <1>2, <1>3, <1>4, <1>5, <1>6, <1>7, <1>8, <1>9, <1>10, <1>11, <1>12
          DEF Next, RetrStart, StorStart, Retr, Stor, AllKinds

\* The type invariant is that of the handlers, of the credits and of the slots.
LEMMA TypeParts ==
  TypeOK <=> /\ HandlerType /\ CreditType
             /\ count \in [AllKinds -> [Users -> Nat]] /\ global \in [AllKinds -> Nat]
PROOF BY Zenon DEF TypeOK, HandlerType, CreditType

\* Slots at the start.
LEMMA SlotsInit ==
  ASSUME Init
  PROVE  SlotsSound
PROOF
  <1>1. HandlerType
    BY TransferBounds DEF Init, HandlerType, Pcs, AllKinds, Inodes
  <1>2. CreditType
    <2>1. Job("none", 0) \in [step : Steps, kb : Nat]
      BY DEF Job, Steps
    <2> DEFINE j == Job("none", 0)
    <2>2. j \in [step : Steps, kb : Nat]
      BY <2>1
    <2>3. jobs = [c \in Clients |-> [n \in 1 .. MaxTransfers |-> j]]
      BY DEF Init
    <2> HIDE DEF j
    <2>4. jobs \in [Clients -> [1 .. MaxTransfers -> [step : Steps, kb : Nat]]]
      BY <2>2, <2>3
    <2>5. paid \in [Clients -> Int] /\ credits \in [Users -> Int \cup {NoEntry}]
      BY CreditAssumption DEF Init
    <2>6. ledger \in [Users -> Int]
      BY CreditAssumption DEF Init
    <2> QED BY <2>4, <2>5, <2>6 DEF CreditType
  <1>3. count \in [AllKinds -> [Users -> Nat]] /\ global \in [AllKinds -> Nat]
    BY DEF Init
  <1>4. \A k \in AllKinds :
          /\ {c \in Clients : Busy(c) /\ kind[c] = k} = {}
          /\ {c \in Clients : Busy(c) /\ kind[c] = k /\ UserOf[c] \notin Exempt} = {}
          /\ \A u \in Users : {c \in Clients : Busy(c) /\ kind[c] = k /\ UserOf[c] = u} = {}
    BY DEF Init, Busy
  <1>5. \A k \in AllKinds : global[k] = 0 /\ \A u \in Users : count[k][u] = 0
    BY DEF Init
  <1>6. SlotsExact
    BY <1>4, <1>5, FS_EmptySet DEF SlotsExact
  <1>7. SlotsLimited
    BY <1>4, <1>5, FS_EmptySet, LimitAssumption DEF SlotsLimited
  <1> QED BY <1>1, <1>2, <1>3, <1>6, <1>7, TypeParts DEF SlotsSound

\* Slots are counted exactly, never negative, and within the limits of users and
\* of the site, however the transfers of the clients interleave and end.
THEOREM SlotsCorrect == Spec => []SlotsSound
PROOF
  <1>1. Init => SlotsSound
    BY SlotsInit
  <1>2. SlotsSound /\ [Next]_vars => SlotsSound'
    <2> SUFFICES ASSUME SlotsSound, [Next]_vars PROVE SlotsSound'
      OBVIOUS
    <2>1. TypeOK /\ SlotsExact /\ SlotsLimited
      BY DEF SlotsSound
    <2>2. /\ SlotsExact'
          /\ count' \in [AllKinds -> [Users -> Nat]] /\ global' \in [AllKinds -> Nat]
      BY <2>1, SlotsExactStep
    <2>3. HandlerType' /\ CreditType'
      BY <2>1, HandlerTypeStep, CreditTypeStep
    <2>4. TypeOK'
      BY <2>2, <2>3, Zenon DEF TypeOK, HandlerType, CreditType
    <2>5. SlotsLimited'
      BY <2>1, SlotsLimitedStep
    <2> QED BY <2>2, <2>4, <2>5 DEF SlotsSound
  <1> QED BY <1>1, <1>2, PTL DEF Spec

-----------------------------------------------------------------------------
(* The statistics record of a transfer *)

\* Labels that only one of the two handlers has.
LabelInv ==
  \A c \in Clients :
    /\ pc[c] \in {"opened", "charged"} => kind[c] = "RETR"
    /\ pc[c] \in {"created", "check", "guardFile"} => kind[c] = "STOR"

\* Where the handler of a transfer has neither recorded it nor given credits.
EarlyPcs == {"started", "opened", "charged", "created", "xfer", "closing", "check"}

\* The current transfer has started an increment of credits.
Given(c) == num[c] > 0 /\ jobs[c][num[c]].step # "none"

\* No transfer that has not begun has started one.
Fresh(c) == \A n \in 1 .. MaxTransfers : n > num[c] => jobs[c][n].step = "none"

\* Why a transfer is recorded once: the handler closes the transfer before it
\* records it, and the data guard records an open one alone; an increment
\* belongs to a transfer that has begun, and is started with its record.
RecordInv ==
  \A c \in Clients :
    /\ recorded[c] <= 1
    /\ Busy(c) => num[c] > 0
    /\ Fresh(c)
    /\ pc[c] \in EarlyPcs => recorded[c] = 0
    /\ pc[c] = "xfer" => open[c]
    /\ pc[c] = "check" => ~open[c]
    /\ pc[c] = "guardData" /\ open[c] => recorded[c] = 0
    /\ pc[c] = "guardData" /\ kind[c] = "RETR" /\ ~open[c] => recorded[c] = 1
    /\ Given(c) => recorded[c] = 1

-----------------------------------------------------------------------------
(* The file of an upload *)

\* c is past the creation of the file and before the end of its file guard.
Uploading(c) ==
  kind[c] = "STOR" /\ pc[c] \in {"created", "xfer", "closing", "check", "guardData", "guardFile"}

\* A file that is neither old nor credited has an upload whose guard will
\* delete it.
PartialInv ==
  \/ dir = 0 \/ dir \in kept \/ (dir = 1 /\ FileLen # -1)
  \/ \E c \in Clients : Uploading(c) /\ inode[c] = dir /\ ~fileOkay[c]

\* Without overwriting and resuming there is one upload at a time, of the file
\* the path leads to, and once it is credited its guard keeps the file.
UploadInv ==
  /\ \A c \in Clients : restart[c] = 0
  /\ \A c \in Clients : Uploading(c) => inode[c] = dir /\ dir # 0
  /\ \A c, d \in Clients : Uploading(c) /\ Uploading(d) => c = d
  /\ kept # {} => dir # 0
  /\ kept # {} => \A c \in Clients :
       Uploading(c) => fileOkay[c] /\ pc[c] \in {"guardData", "guardFile"}
  /\ UploadKept

-----------------------------------------------------------------------------
(* The price of a download *)

\* With downloads alone the size a handler has read stays that of its file, so
\* no more is sent than was paid for; the price is paid before the transfer and
\* corrected by the data guard.
DownloadInv ==
  \A c \in Clients :
    /\ kind[c] = "RETR"
    /\ pc[c] \in {"opened", "charged", "xfer", "closing", "guardData"} => size[c] = len[inode[c]]
    /\ pc[c] \in {"xfer", "closing", "guardData"} => bytes[c] <= size[c]

PriceInv ==
  \A c \in Clients :
    /\ pc[c] \in {"started", "opened"} => paid[c] = 0
    /\ pc[c] \in {"charged", "xfer", "closing", "guardData"} /\ UserOf[c] \notin Allotted =>
         paid[c] = (size[c] \div KB) * Ratio

-----------------------------------------------------------------------------
(* The proofs *)

\* Labels stay with their handler.
LEMMA LabelStep ==
  ASSUME TypeOK, LabelInv, [Next]_vars
  PROVE  LabelInv'
PROOF
  <1> USE DEF TypeOK, LabelInv, handlerVars, Pcs, AllKinds, Goto, Leave, Throw
  <1>1. ASSUME NEW c \in Clients, Rest(c) PROVE LabelInv'
    BY <1>1 DEF Rest
  <1>2. ASSUME NEW c \in Clients, NEW k \in AllKinds, Start(c, k) PROVE LabelInv'
    BY <1>2 DEF Start
  <1>3. ASSUME NEW c \in Clients, Retr(c) PROVE LabelInv'
    BY <1>3 DEF Retr, RetrOpenFile, RetrCharge, RetrOpen, RetrChunk, RetrClose, RetrGuard
  <1>4. ASSUME NEW c \in Clients, Stor(c) PROVE LabelInv'
    BY <1>4, SMTT(30) DEF Stor, StorCreate, StorOpen, StorChunk, StorClose, StorCheck, StorGuard,
       FileGuard
  <1>5. ASSUME NEW c \in Clients, XferEnd(c) \/ HandleControl(c) \/ CountGuard(c)
        PROVE  LabelInv'
    BY <1>5 DEF XferEnd, HandleControl, CountGuard
  <1>6. ASSUME NEW c \in Clients, NEW n \in 1 .. MaxTransfers, DoIncrement(c, n)
        PROVE  LabelInv'
    BY <1>6, Zenon DEF DoIncrement
  <1>7. CASE UNCHANGED vars
    BY <1>7 DEF vars
  <1> QED BY <1>1, <1>2, <1>3, <1>4, <1>5, <1>6, <1>7 DEF Next, RetrStart, StorStart

\* IncrCredits starts the increment of the current transfer and no other.
LEMMA IncrJobs ==
  ASSUME TypeOK, NEW c \in Clients, num[c] > 0, NEW kb \in Nat, IncrCredits(c, kb)
  PROVE  /\ jobs'[c][num[c]].step = "update"
         /\ \A d \in Clients : \A m \in 1 .. MaxTransfers :
              ~(d = c /\ m = num[c]) => jobs'[d][m] = jobs[d][m]
PROOF
  <1> DEFINE j == Job("update", kb)
  <1>1. jobs' = [jobs EXCEPT ![c][num[c]] = j] /\ j.step = "update"
    BY DEF IncrCredits, Job
  <1>2. num[c] \in 1 .. MaxTransfers /\ jobs[c] \in [1 .. MaxTransfers -> [step : Steps, kb : Nat]]
    BY TransferBounds DEF TypeOK
  <1> HIDE DEF j
  <1>3. jobs'[c][num[c]] = j
    BY <1>1, <1>2 DEF TypeOK
  <1>4. \A d \in Clients : \A m \in 1 .. MaxTransfers :
          ~(d = c /\ m = num[c]) => jobs'[d][m] = jobs[d][m]
    BY <1>1, <1>2 DEF TypeOK
  <1> QED BY <1>1, <1>3, <1>4

\* A step that starts no transfer and no increment leaves Given and Fresh alone.
LEMMA SameJobs ==
  ASSUME UNCHANGED <<num, jobs>>
  PROVE  \A d \in Clients : Given(d)' = Given(d) /\ Fresh(d)' = Fresh(d)
PROOF BY Zenon DEF Given, Fresh

\* IncrCredits starts the increment of the current transfer and no other.
LEMMA IncrGiven ==
  ASSUME TypeOK, NEW c \in Clients, num[c] > 0, NEW kb \in Nat, IncrCredits(c, kb),
         num' = num
  PROVE  /\ Given(c)' /\ \A d \in Clients \ {c} : Given(d)' = Given(d)
         /\ \A d \in Clients : Fresh(d) => Fresh(d)'
PROOF
  <1>1. \A d \in Clients : num[d] \in 0 .. MaxTransfers
    BY DEF TypeOK
  <1>2. jobs'[c][num[c]].step = "update"
    BY IncrJobs
  <1>3. \A d \in Clients : \A m \in 1 .. MaxTransfers :
          ~(d = c /\ m = num[c]) => jobs'[d][m] = jobs[d][m]
    BY IncrJobs
  <1>4. Given(c)'
    BY <1>2 DEF Given
  <1>5. ASSUME NEW d \in Clients \ {c} PROVE Given(d)' = Given(d)
    <2>1. num[d] > 0 => num[d] \in 1 .. MaxTransfers
      BY <1>1
    <2>2. num[d] > 0 => jobs'[d][num[d]] = jobs[d][num[d]]
      BY <1>3, <2>1
    <2> QED BY <2>2 DEF Given
  <1>6. ASSUME NEW d \in Clients, Fresh(d) PROVE Fresh(d)'
    <2> SUFFICES ASSUME NEW m \in 1 .. MaxTransfers, m > num[d]
                 PROVE  jobs'[d][m].step = "none"
      BY DEF Fresh
    <2>1. ~(d = c /\ m = num[c])
      BY <1>1
    <2>2. jobs'[d][m] = jobs[d][m]
      BY <1>3, <2>1
    <2> QED BY <1>6, <2>2 DEF Fresh
  <1> QED BY <1>4, <1>5, <1>6

\* RecordInv is kept by every step.
LEMMA RecordStep ==
  ASSUME TypeOK, LabelInv, RecordInv, [Next]_vars
  PROVE  RecordInv'
PROOF
  <1> USE DEF RecordInv, EarlyPcs, Busy, Pcs, Goto, Leave, Throw, Close,
      handlerVars, dataVars, slotVars, fileVars, creditVars
  <1>0. /\ pc \in [Clients -> Pcs] /\ kind \in [Clients -> AllKinds]
        /\ open \in [Clients -> BOOLEAN] /\ recorded \in [Clients -> Nat]
        /\ num \in [Clients -> 0 .. MaxTransfers]
    BY DEF TypeOK
  <1>1. ASSUME NEW c \in Clients, Rest(c) PROVE RecordInv'
    BY <1>0, <1>1, SameJobs DEF Rest
  <1>2. ASSUME NEW c \in Clients, NEW k \in AllKinds, Start(c, k) PROVE RecordInv'
    <2>1. pc[c] = "idle" /\ num[c] < MaxTransfers
      BY <1>2, StartBound DEF Start
    <2>2. /\ num' = [num EXCEPT ![c] = @ + 1] /\ recorded' = [recorded EXCEPT ![c] = 0]
          /\ kind' = [kind EXCEPT ![c] = k] /\ jobs' = jobs /\ open' = open
          /\ \E l \in {"started", "idle", "ended"} : pc' = [pc EXCEPT ![c] = l]
      BY <1>2 DEF Start
    <2>3. /\ num'[c] = num[c] + 1 /\ num[c] \in Nat /\ num'[c] \in 1 .. MaxTransfers
          /\ \A d \in Clients \ {c} : num'[d] = num[d]
      BY <2>1, <2>2, TransferBounds, SMTT(30) DEF TypeOK
    <2>4. jobs'[c][num'[c]].step = "none"
      BY <2>2, <2>3 DEF Fresh
    <2>5. ~Given(c)' /\ \A d \in Clients \ {c} : Given(d)' = Given(d)
      BY <2>2, <2>3, <2>4, Zenon DEF Given
    <2>6. \A d \in Clients \ {c} : Fresh(d)' = Fresh(d)
      BY <2>2, <2>3 DEF Fresh
    <2>7. Fresh(c)'
      BY <2>2, <2>3 DEF Fresh
    <2> QED BY <2>1, <2>2, <2>3, <2>5, <2>6, <2>7, <1>0
  <1>3. ASSUME NEW c \in Clients, RetrOpenFile(c) PROVE RecordInv'
    BY <1>0, <1>3, SameJobs DEF RetrOpenFile
  <1>4. ASSUME NEW c \in Clients, RetrCharge(c) PROVE RecordInv'
    BY <1>0, <1>4, SameJobs DEF RetrCharge
  <1>5. ASSUME NEW c \in Clients, RetrOpen(c) PROVE RecordInv'
    BY <1>0, <1>5, SameJobs DEF RetrOpen
  <1>6. ASSUME NEW c \in Clients, RetrChunk(c) PROVE RecordInv'
    BY <1>0, <1>6, SameJobs DEF RetrChunk
  <1>7. ASSUME NEW c \in Clients, RetrClose(c) PROVE RecordInv'
    BY <1>0, <1>7, SameJobs DEF RetrClose
  <1>8. ASSUME NEW c \in Clients, RetrGuard(c) PROVE RecordInv'
    <2>1. /\ pc[c] = "guardData" /\ kind[c] = "RETR"
          /\ pc' = [pc EXCEPT ![c] = "guardCount"] /\ open' = [open EXCEPT ![c] = FALSE]
          /\ recorded' = [recorded EXCEPT ![c] = IF open[c] THEN @ + 1 ELSE @]
          /\ UNCHANGED <<kind, num>>
      BY <1>8 DEF RetrGuard
    <2>2. recorded'[c] = 1 /\ num[c] > 0 /\ \A d \in Clients \ {c} : recorded'[d] = recorded[d]
      <3>1. num[c] > 0 /\ (open[c] => recorded[c] = 0) /\ (~open[c] => recorded[c] = 1)
        BY <1>0, <2>1
      <3> QED BY <1>0, <2>1, <3>1
    <2>3. CASE UNCHANGED jobs
      BY <2>1, <2>2, <2>3, SameJobs, SMTT(30) DEF TypeOK
    <2>4. CASE \E kb \in Nat : IncrCredits(c, kb)
      <3>1. /\ Given(c)' /\ \A d \in Clients \ {c} : Given(d)' = Given(d)
            /\ \A d \in Clients : Fresh(d)'
        BY <2>1, <2>2, <2>4, IncrGiven
      <3> QED BY <1>0, <2>1, <2>2, <3>1
    <2>5. UNCHANGED jobs \/ \E kb \in Nat : IncrCredits(c, kb)
      <3> DEFINE rest == size[c] - bytes[c]
      <3>1. rest \in Int
        BY DEF TypeOK
      <3> HIDE DEF rest
      <3>2. rest > 0 => (rest \div KB) * Ratio \in Nat
        BY <3>1, PriceNat
      <3> QED BY <1>8, <3>2 DEF RetrGuard, rest
    <2> QED BY <2>3, <2>4, <2>5
  <1>9. ASSUME NEW c \in Clients, StorCreate(c) PROVE RecordInv'
    BY <1>0, <1>9, SameJobs DEF StorCreate
  <1>10. ASSUME NEW c \in Clients, StorOpen(c) PROVE RecordInv'
    BY <1>0, <1>10, SameJobs DEF StorOpen, LabelInv
  <1>11. ASSUME NEW c \in Clients, StorChunk(c) PROVE RecordInv'
    BY <1>0, <1>11, SameJobs DEF StorChunk
  <1>12. ASSUME NEW c \in Clients, StorClose(c) PROVE RecordInv'
    BY <1>0, <1>12, SameJobs DEF StorClose
  <1>13. ASSUME NEW c \in Clients, StorCheck(c) PROVE RecordInv'
    <2>1. /\ pc[c] = "check" /\ kind[c] = "STOR" /\ ~open[c] /\ num[c] > 0
          /\ pc' = [pc EXCEPT ![c] = "guardData"]
          /\ UNCHANGED <<kind, num, open>>
      BY <1>13 DEF StorCheck, LabelInv
    <2>2. CASE UNCHANGED <<jobs, recorded>>
      BY <2>1, <2>2, SameJobs DEF TypeOK
    <2>3. CASE /\ \E kb \in Nat : IncrCredits(c, kb)
               /\ recorded' = [recorded EXCEPT ![c] = @ + 1]
      <3>1. recorded'[c] = 1 /\ \A d \in Clients \ {c} : recorded'[d] = recorded[d]
        BY <2>1, <2>3 DEF TypeOK
      <3>2. /\ Given(c)' /\ \A d \in Clients \ {c} : Given(d)' = Given(d)
            /\ \A d \in Clients : Fresh(d)'
        BY <2>1, <2>3, IncrGiven
      <3> QED BY <1>0, <2>1, <3>1, <3>2
    <2>4. (bytes[c] \div KB) * Ratio \in Nat
      BY PriceNat DEF TypeOK
    <2> QED BY <1>13, <2>2, <2>3, <2>4 DEF StorCheck
  <1>14. ASSUME NEW c \in Clients, StorGuard(c) PROVE RecordInv'
    BY <1>0, <1>14, SameJobs DEF StorGuard
  <1>15. ASSUME NEW c \in Clients, FileGuard(c) PROVE RecordInv'
    BY <1>0, <1>15, SameJobs DEF FileGuard
  <1>16. ASSUME NEW c \in Clients, XferEnd(c) PROVE RecordInv'
    BY <1>0, <1>16, SameJobs DEF XferEnd
  <1>17. ASSUME NEW c \in Clients, HandleControl(c) PROVE RecordInv'
    BY <1>0, <1>17, SameJobs DEF HandleControl
  <1>18. ASSUME NEW c \in Clients, CountGuard(c) PROVE RecordInv'
    <2>1. out[c] \in {"idle", "ended"}
      BY DEF TypeOK
    <2> QED BY <1>0, <1>18, <2>1, SameJobs DEF CountGuard
  <1>19. ASSUME NEW c \in Clients, NEW n \in 1 .. MaxTransfers, DoIncrement(c, n)
         PROVE  RecordInv'
    <2>1. UNCHANGED <<pc, kind, num, open, recorded>>
      BY <1>19, Zenon DEF DoIncrement
    <2>2. \A d \in Clients : \A m \in 1 .. MaxTransfers :
             jobs'[d][m].step = "none" <=> jobs[d][m].step = "none"
      BY <1>19, IncrementStep
    <2>3. \A d \in Clients : num[d] \in 0 .. MaxTransfers
      BY DEF TypeOK
    <2>4. \A d \in Clients : Given(d)' = Given(d) /\ Fresh(d)' = Fresh(d)
      BY <2>1, <2>2, <2>3, TransferBounds DEF Given, Fresh
    <2> QED BY <2>1, <2>4
  <1>20. CASE UNCHANGED vars
    BY <1>20, SameJobs DEF vars
  <1> QED BY <1>1, <1>2, <1>3, <1>4, <1>5, <1>6, <1>7, <1>8, <1>9, <1>10, <1>11, <1>12, <1>13,
             <1>14, <1>15, <1>16, <1>17, <1>18, <1>19, <1>20
          DEF Next, RetrStart, StorStart, Retr, Stor, AllKinds

\* What the transfers of a client keep, whatever the constants.
TransferInv == SlotsSound /\ LabelInv /\ RecordInv

\* TransferInv is an invariant.
LEMMA TransferInvariance == Spec => []TransferInv
PROOF
  <1>1. Init => TransferInv
    <2> SUFFICES ASSUME Init PROVE TransferInv
      OBVIOUS
    <2>1. LabelInv
      BY DEF Init, LabelInv
    <2>2. \A c \in Clients : ~Given(c) /\ Fresh(c)
      BY DEF Init, Given, Fresh, Job
    <2>3. RecordInv
      BY <2>2 DEF Init, RecordInv, EarlyPcs, Busy
    <2> QED BY <2>1, <2>3, SlotsInit DEF TransferInv
  <1>2. TransferInv /\ SlotsSound' /\ [Next]_vars => TransferInv'
    BY LabelStep, RecordStep DEF TransferInv, SlotsSound
  <1> QED BY <1>1, <1>2, SlotsCorrect, PTL DEF Spec

\* A transfer is recorded in the statistics at most once, and one that gave
\* credits, as a reward or back, was recorded.
THEOREM RecordedAtMostOnce == Spec => []RecordedOnce
PROOF
  <1>1. TransferInv => RecordedOnce
    BY DEF TransferInv, RecordInv, RecordedOnce, Given
  <1> QED BY <1>1, TransferInvariance, PTL

\* PartialInv is kept by every step.
LEMMA PartialStep ==
  ASSUME TypeOK, LabelInv, PartialInv, [Next]_vars
  PROVE  PartialInv'
PROOF
  <1> USE DEF PartialInv, Uploading, Pcs, AllKinds, Goto, Leave, Throw, Close,
      handlerVars, dataVars, slotVars, fileVars, creditVars
  <1>0. /\ pc \in [Clients -> Pcs] /\ kind \in [Clients -> AllKinds]
        /\ fileOkay \in [Clients -> BOOLEAN] /\ inode \in [Clients -> Inodes]
        /\ restart \in [Clients -> Nat]
    BY DEF TypeOK
  <1>1. ASSUME NEW c \in Clients, Rest(c) PROVE PartialInv'
    BY <1>0, <1>1 DEF Rest
  <1>2. ASSUME NEW c \in Clients, NEW k \in AllKinds, Start(c, k) PROVE PartialInv'
    <2>1. pc[c] = "idle"
      BY <1>2, StartBound DEF Start
    <2> QED BY <1>0, <1>2, <2>1 DEF Start
  <1>3. ASSUME NEW c \in Clients, Retr(c) PROVE PartialInv'
    <2>1. ~Uploading(c) /\ UNCHANGED <<dir, kept, kind, fileOkay>>
      BY <1>3 DEF Retr, RetrOpenFile, RetrCharge, RetrOpen, RetrChunk, RetrClose, RetrGuard,
         LabelInv
    <2>2. \A d \in Clients \ {c} : pc'[d] = pc[d] /\ inode'[d] = inode[d]
      BY <1>0, <1>3 DEF Retr, RetrOpenFile, RetrCharge, RetrOpen, RetrChunk, RetrClose, RetrGuard
    <2> QED BY <2>1, <2>2
  <1>5. ASSUME NEW c \in Clients, StorCreate(c) PROVE PartialInv'
    <2>1. CASE UNCHANGED fileVars /\ UNCHANGED <<inode, fileOkay>> /\ Leave(c, "guardCount")
      BY <1>0, <1>5, <2>1 DEF StorCreate
    <2>2. ASSUME NEW i \in Inodes \ {0}, dir = 0 \/ i = dir, dir = 0 => restart[c] = 0,
                 dir' = i, inode' = [inode EXCEPT ![c] = i],
                 fileOkay' = [fileOkay EXCEPT ![c] = restart[c] > 0], Goto(c, "created"),
                 UNCHANGED <<kind, kept>>, pc[c] = "started", kind[c] = "STOR"
          PROVE  PartialInv'
      <3>1. CASE restart[c] = 0
        <4>1. Uploading(c)' /\ inode'[c] = dir'
          BY <1>0, <2>2
        <4>2. ~fileOkay'[c]
          <5>1. fileOkay'[c] = (restart[c] > 0)
            BY <1>0, <2>2, Zenon
          <5>2. ~(restart[c] > 0)
            BY <3>1
          <5> QED BY <5>1, <5>2
        <4> QED BY <4>1, <4>2
      <3>2. CASE restart[c] # 0
        BY <1>0, <2>2, <3>2
      <3> QED BY <3>1, <3>2
    <2> QED BY <1>5, <2>1, <2>2 DEF StorCreate
  <1>6. ASSUME NEW c \in Clients, StorOpen(c) PROVE PartialInv'
    BY <1>0, <1>6 DEF StorOpen, LabelInv
  <1>7. ASSUME NEW c \in Clients, StorChunk(c) \/ StorClose(c) PROVE PartialInv'
    BY <1>0, <1>7 DEF StorChunk, StorClose
  <1>8. ASSUME NEW c \in Clients, StorCheck(c) PROVE PartialInv'
    <2>1. pc' = [pc EXCEPT ![c] = "guardData"] /\ UNCHANGED <<kind, inode, dir>>
      BY <1>8 DEF StorCheck
    <2>2. \/ fileOkay' = fileOkay /\ kept' = kept
          \/ fileOkay' = [fileOkay EXCEPT ![c] = TRUE] /\ kept' = kept \cup {inode[c]}
      BY <1>8 DEF StorCheck
    <2> QED BY <1>0, <2>1, <2>2
  <1>9. ASSUME NEW c \in Clients, StorGuard(c) \/ FileGuard(c) PROVE PartialInv'
    BY <1>0, <1>9 DEF StorGuard, FileGuard
  <1>10. ASSUME NEW c \in Clients, XferEnd(c) \/ HandleControl(c) PROVE PartialInv'
    BY <1>0, <1>10 DEF XferEnd, HandleControl
  <1>11. ASSUME NEW c \in Clients, CountGuard(c) PROVE PartialInv'
    BY <1>0, <1>11 DEF CountGuard
  <1>12. ASSUME NEW c \in Clients, NEW n \in 1 .. MaxTransfers, DoIncrement(c, n)
         PROVE  PartialInv'
    BY <1>12, Zenon DEF DoIncrement
  <1>13. CASE UNCHANGED vars
    BY <1>13 DEF vars
  <1> QED BY <1>1, <1>2, <1>3, <1>5, <1>6, <1>7, <1>8, <1>9, <1>10, <1>11, <1>12, <1>13
          DEF Next, RetrStart, StorStart, Stor

\* When no transfer is running, no failed upload has stayed behind.
THEOREM NoPartialFileLeft == Spec => []NoPartialFile
PROOF
  <1>1. Init => PartialInv
    BY TransferBounds DEF Init, PartialInv
  <1>2. TransferInv /\ PartialInv /\ [Next]_vars => PartialInv'
    BY PartialStep DEF TransferInv, SlotsSound
  <1>3. PartialInv => NoPartialFile
    BY DEF PartialInv, NoPartialFile, Uploading, Busy
  <1> QED BY <1>1, <1>2, <1>3, TransferInvariance, PTL DEF Spec

\* Uploads that neither resume nor overwrite a file and whose data connection
\* opens: the site's default rights and no failing client.
PlainUploads == Offsets = {0} /\ ~Overwrite /\ ~OpenFails

\* UploadInv is kept by every step of plain uploads, and of any downloads.
LEMMA UploadStep ==
  ASSUME PlainUploads, TypeOK, LabelInv, UploadInv, [Next]_vars
  PROVE  UploadInv'
PROOF
  <1> USE DEF UploadInv, UploadKept, Uploading, Pcs, AllKinds, Goto, Leave, Throw, Close,
      handlerVars, dataVars, slotVars, fileVars, creditVars
  <1>0. /\ pc \in [Clients -> Pcs] /\ kind \in [Clients -> AllKinds]
        /\ fileOkay \in [Clients -> BOOLEAN] /\ inode \in [Clients -> Inodes]
        /\ restart \in [Clients -> Nat] /\ out \in [Clients -> {"idle", "ended"}]
    BY DEF TypeOK
  <1>1. ASSUME NEW c \in Clients, Rest(c) PROVE UploadInv'
    BY <1>0, <1>1 DEF Rest, PlainUploads
  <1>2. ASSUME NEW c \in Clients, NEW k \in AllKinds, Start(c, k) PROVE UploadInv'
    <2>1. pc[c] = "idle"
      BY <1>2, StartBound DEF Start
    <2> QED BY <1>0, <1>2, <2>1 DEF Start
  <1>3. ASSUME NEW c \in Clients, Retr(c) PROVE UploadInv'
    <2>1. ~Uploading(c) /\ kind[c] = "RETR" /\ UNCHANGED <<dir, kept, kind, fileOkay>>
      BY <1>3 DEF Retr, RetrOpenFile, RetrCharge, RetrOpen, RetrChunk, RetrClose, RetrGuard,
         LabelInv
    <2>2. \A d \in Clients \ {c} : pc'[d] = pc[d] /\ inode'[d] = inode[d]
      BY <1>0, <1>3 DEF Retr, RetrOpenFile, RetrCharge, RetrOpen, RetrChunk, RetrClose, RetrGuard
    <2>3. restart' = restart \/ restart' = [restart EXCEPT ![c] = 0]
      BY <1>3 DEF Retr, RetrOpenFile, RetrCharge, RetrOpen, RetrChunk, RetrClose, RetrGuard
    <2> QED BY <1>0, <2>1, <2>2, <2>3
  <1>4. ASSUME NEW c \in Clients, StorCreate(c) PROVE UploadInv'
    <2>1. CASE UNCHANGED fileVars /\ UNCHANGED <<inode, fileOkay>> /\ Leave(c, "guardCount")
      BY <1>0, <1>4, <2>1 DEF StorCreate
    <2>2. ASSUME NEW i \in Inodes \ {0}, dir = 0, dir' = i, inode' = [inode EXCEPT ![c] = i],
                 Goto(c, "created"), UNCHANGED <<kind, kept, restart>>
          PROVE  UploadInv'
      <3>1. kept = {} /\ \A d \in Clients : ~Uploading(d)
        BY <2>2
      <3> QED BY <1>0, <2>2, <3>1
    <2>3. restart[c] = 0
      OBVIOUS
    <2> QED BY <1>4, <2>1, <2>2, <2>3 DEF StorCreate, PlainUploads
  <1>5. ASSUME NEW c \in Clients, StorOpen(c) PROVE UploadInv'
    <2>1. Uploading(c) /\ pc[c] = "created" /\ kept = {}
      BY <1>5 DEF StorOpen, LabelInv
    <2>2. UNCHANGED <<restart, dir, inode, kind, kept>>
      BY <1>5 DEF StorOpen, PlainUploads
    <2>3. \E l \in {"guardData", "xfer"} : pc' = [pc EXCEPT ![c] = l]
      BY <1>5 DEF StorOpen, PlainUploads
    <2> QED BY <1>0, <2>1, <2>2, <2>3
  <1>6. ASSUME NEW c \in Clients, StorChunk(c) PROVE UploadInv'
    BY <1>0, <1>6 DEF StorChunk
  <1>7. ASSUME NEW c \in Clients, StorClose(c) PROVE UploadInv'
    <2>1. Uploading(c) /\ pc[c] = "closing" /\ kept = {}
      BY <1>7 DEF StorClose
    <2>2. UNCHANGED <<dir, inode, kind, kept>> /\ restart' = [restart EXCEPT ![c] = 0]
      BY <1>7 DEF StorClose
    <2>3. \E l \in {"guardData", "check"} : pc' = [pc EXCEPT ![c] = l]
      BY <1>7 DEF StorClose
    <2> QED BY <1>0, <2>1, <2>2, <2>3
  <1>8. ASSUME NEW c \in Clients, StorCheck(c) PROVE UploadInv'
    <2>1. Uploading(c) /\ pc[c] = "check" /\ kept = {}
      BY <1>8 DEF StorCheck, LabelInv
    <2>2. pc' = [pc EXCEPT ![c] = "guardData"] /\ UNCHANGED <<kind, inode, dir, restart>>
      BY <1>8 DEF StorCheck
    <2>3. \/ fileOkay' = fileOkay /\ kept' = kept
          \/ fileOkay' = [fileOkay EXCEPT ![c] = TRUE] /\ kept' = kept \cup {inode[c]}
      BY <1>8 DEF StorCheck
    <2>4. \A d \in Clients : Uploading(d)' <=> Uploading(d)
      BY <1>0, <2>1, <2>2
    <2>5. \A d \in Clients \ {c} : ~Uploading(d)
      BY <2>1
    <2>6. kept' # {} => fileOkay'[c] /\ kept' = {dir}
      BY <1>0, <2>1, <2>3
    <2> QED BY <1>0, <2>1, <2>2, <2>4, <2>5, <2>6
  <1>9. ASSUME NEW c \in Clients, StorGuard(c) PROVE UploadInv'
    <2>1. Uploading(c) /\ pc[c] = "guardData"
      BY <1>9 DEF StorGuard
    <2>2. /\ pc' = [pc EXCEPT ![c] = "guardFile"] /\ restart' = [restart EXCEPT ![c] = 0]
          /\ UNCHANGED <<kind, inode, dir, kept, fileOkay>>
      BY <1>9 DEF StorGuard
    <2> QED BY <1>0, <2>1, <2>2
  <1>10. ASSUME NEW c \in Clients, FileGuard(c) PROVE UploadInv'
    <2>1. Uploading(c) /\ pc[c] = "guardFile"
      BY <1>10 DEF FileGuard, LabelInv
    <2>2. /\ pc' = [pc EXCEPT ![c] = "guardCount"] /\ UNCHANGED <<restart, kind, inode, kept, fileOkay>>
          /\ dir' = IF fileOkay[c] THEN dir ELSE 0
      BY <1>10 DEF FileGuard
    <2>3. \A d \in Clients : ~Uploading(d)'
      BY <1>0, <2>1, <2>2
    <2>4. kept # {} => fileOkay[c]
      BY <2>1
    <2> QED BY <1>0, <2>2, <2>3, <2>4
  <1>11. ASSUME NEW c \in Clients, XferEnd(c) \/ HandleControl(c) PROVE UploadInv'
    <2>1. /\ pc[c] = "xfer" /\ UNCHANGED <<restart, kind, inode, kept, fileOkay, dir>>
          /\ \E l \in {"closing", "guardData"} : pc' = [pc EXCEPT ![c] = l]
      BY <1>11 DEF XferEnd, HandleControl
    <2> QED BY <1>0, <2>1
  <1>12. ASSUME NEW c \in Clients, CountGuard(c) PROVE UploadInv'
    BY <1>0, <1>12 DEF CountGuard
  <1>13. ASSUME NEW c \in Clients, NEW n \in 1 .. MaxTransfers, DoIncrement(c, n)
         PROVE  UploadInv'
    BY <1>13, Zenon DEF DoIncrement
  <1>14. CASE UNCHANGED vars
    BY <1>14 DEF vars
  <1> QED BY <1>1, <1>2, <1>3, <1>4, <1>5, <1>6, <1>7, <1>8, <1>9, <1>10, <1>11, <1>12, <1>13,
             <1>14
          DEF Next, RetrStart, StorStart, Stor

\* An upload that was credited stays on disk, whatever later or simultaneous
\* uploads of the same name do, when none of them resumes or overwrites.
THEOREM CreditedUploadStays == PlainUploads => (Spec => []UploadKept)
PROOF
  <1> SUFFICES ASSUME PlainUploads PROVE Spec => []UploadKept
    OBVIOUS
  <1>1. Init => UploadInv
    BY DEF Init, UploadInv, UploadKept, Uploading
  <1>2. TransferInv /\ UploadInv /\ [Next]_vars => UploadInv'
    BY UploadStep DEF TransferInv, SlotsSound
  <1>3. UploadInv => UploadKept
    BY DEF UploadInv
  <1> QED BY <1>1, <1>2, <1>3, TransferInvariance, PTL DEF Spec

\* Multiplication with a natural number is monotonic ...
LEMMA TimesMonotonic ==
  ASSUME NEW k \in Nat, NEW a \in Int, NEW b \in Int, a <= b
  PROVE  k * a <= k * b /\ k * a \in Int /\ k * b \in Int
PROOF
  <1>1. b - a \in Nat
    OBVIOUS
  <1>2. k * (b - a) \in Nat
    BY <1>1
  <1>3. k * (b - a) = k * b - k * a
    OBVIOUS
  <1> QED BY <1>2, <1>3

\* ... and distributes over addition.
LEMMA TimesDistributes ==
  ASSUME NEW k \in Int, NEW a \in Int, NEW b \in Int
  PROVE  k * (a + b) = k * a + k * b /\ k * (a - b) = k * a - k * b
PROOF OBVIOUS

\* The quotient of the integer division.
LEMMA Quotient ==
  ASSUME NEW k \in Nat \ {0}, NEW b \in Nat
  PROVE  b \div k \in Nat /\ k * (b \div k) <= b /\ b < k * (b \div k) + k
PROOF OBVIOUS

\* The price of a whole file less the refund for what was not sent is the price
\* of what was sent, up to rounding.
LEMMA RefundRounds ==
  ASSUME NEW s \in Nat, NEW b \in Nat, b <= s
  PROVE  (s \div KB) * Ratio - ((s - b) \div KB) * Ratio
           \in (b \div KB) * Ratio .. ((b + KB - 1) \div KB) * Ratio
PROOF
  <1> USE CreditAssumption
  <1> DEFINE whole == s \div KB
             back == (s - b) \div KB
             low == b \div KB
             high == (b + KB - 1) \div KB
  <1>1. whole \in Nat /\ KB * whole <= s /\ s < KB * whole + KB
    BY Quotient
  <1>2. back \in Nat /\ KB * back <= s - b /\ s - b < KB * back + KB
    <2>1. s - b \in Nat
      OBVIOUS
    <2> QED BY <2>1, Quotient
  <1>3. low \in Nat /\ KB * low <= b
    BY Quotient
  <1>4. high \in Nat /\ b + KB - 1 < KB * high + KB
    <2>1. b + KB - 1 \in Nat
      OBVIOUS
    <2> QED BY <2>1, Quotient
  <1> HIDE DEF whole, back, low, high
  <1>5. low + back <= whole
    <2> SUFFICES ASSUME whole + 1 <= low + back PROVE FALSE
      BY <1>1, <1>2, <1>3
    <2>1. KB * (whole + 1) <= KB * (low + back)
      BY <1>1, <1>2, <1>3, TimesMonotonic
    <2>2. KB * (whole + 1) = KB * whole + KB /\ KB * (low + back) = KB * low + KB * back
      BY <1>1, <1>2, <1>3, TimesDistributes
    <2>3. KB * whole \in Int /\ KB * low \in Int /\ KB * back \in Int
      BY <1>1, <1>2, <1>3
    <2> QED BY <1>1, <1>2, <1>3, <2>1, <2>2, <2>3
  <1>6. whole <= high + back
    <2> SUFFICES ASSUME high + back + 1 <= whole PROVE FALSE
      BY <1>1, <1>2, <1>4
    <2>1. KB * (high + back + 1) <= KB * whole
      BY <1>1, <1>2, <1>4, TimesMonotonic
    <2>2. KB * (high + back + 1) = KB * high + KB * back + KB
      BY <1>2, <1>4
    <2>3. KB * whole \in Int /\ KB * high \in Int /\ KB * back \in Int
      BY <1>1, <1>2, <1>4
    <2> QED BY <1>1, <1>2, <1>4, <2>1, <2>2, <2>3
  <1>7. Ratio * low <= Ratio * (whole - back) /\ Ratio * (whole - back) <= Ratio * high
    BY <1>1, <1>2, <1>3, <1>4, <1>5, <1>6, TimesMonotonic
  <1>8. Ratio * (whole - back) = Ratio * whole - Ratio * back
    BY <1>1, <1>2, TimesDistributes
  <1>9. /\ Ratio * low = low * Ratio /\ Ratio * high = high * Ratio
        /\ Ratio * whole = whole * Ratio /\ Ratio * back = back * Ratio
    BY <1>1, <1>2, <1>3, <1>4
  <1>10. /\ low * Ratio \in Int /\ high * Ratio \in Int
         /\ whole * Ratio \in Int /\ back * Ratio \in Int
    BY <1>1, <1>2, <1>3, <1>4
  <1>11. whole * Ratio - back * Ratio \in low * Ratio .. high * Ratio
    BY <1>7, <1>8, <1>9, <1>10
  <1> QED BY <1>11 DEF whole, back, low, high

\* Where everybody downloads, no step of STOR is possible.
LEMMA NoUpload ==
  ASSUME LabelInv, DownloadInv, NEW c \in Clients
  PROVE  ~Stor(c)
PROOF BY DEF LabelInv, DownloadInv, Stor, StorCreate, StorOpen, StorChunk, StorClose, StorCheck,
         StorGuard, FileGuard

\* DownloadInv is kept by every step of downloads.
LEMMA DownloadStep ==
  ASSUME Kinds = {"RETR"}, Garbage = {}, TypeOK, LabelInv, DownloadInv, [Next]_vars
  PROVE  DownloadInv'
PROOF
  <1> USE DEF DownloadInv, Pcs, Goto, Leave, Throw, Close,
      handlerVars, dataVars, slotVars, fileVars, creditVars
  <1>0. /\ pc \in [Clients -> Pcs] /\ kind \in [Clients -> AllKinds]
        /\ inode \in [Clients -> Inodes] /\ len \in [Inodes -> Nat] /\ dir \in Inodes
        /\ restart \in [Clients -> Nat] /\ bytes \in [Clients -> Nat]
        /\ size \in [Clients -> Nat] /\ out \in [Clients -> {"idle", "ended"}]
    BY DEF TypeOK
  <1>1. ASSUME NEW c \in Clients, Rest(c) PROVE DownloadInv'
    BY <1>0, <1>1 DEF Rest
  <1>2. ASSUME NEW c \in Clients, NEW k \in AllKinds, Start(c, k) PROVE DownloadInv'
    BY <1>0, <1>2 DEF Start
  <1>3. ASSUME NEW c \in Clients, RetrOpenFile(c) PROVE DownloadInv'
    BY <1>0, <1>3 DEF RetrOpenFile
  <1>4. ASSUME NEW c \in Clients, RetrCharge(c) PROVE DownloadInv'
    BY <1>0, <1>4 DEF RetrCharge
  <1>5. ASSUME NEW c \in Clients, RetrOpen(c) PROVE DownloadInv'
    BY <1>0, <1>5 DEF RetrOpen
  <1>6. ASSUME NEW c \in Clients, RetrChunk(c) PROVE DownloadInv'
    BY <1>0, <1>6 DEF RetrChunk
  <1>7. ASSUME NEW c \in Clients, RetrClose(c) PROVE DownloadInv'
    BY <1>0, <1>7 DEF RetrClose
  <1>8. ASSUME NEW c \in Clients, RetrGuard(c) PROVE DownloadInv'
    <2>1. /\ UNCHANGED <<bytes, kind, size, inode, len>>
          /\ pc' = [pc EXCEPT ![c] = "guardCount"]
      BY <1>8 DEF RetrGuard
    <2> QED BY <1>0, <2>1
  <1>9. ASSUME NEW c \in Clients, XferEnd(c) PROVE DownloadInv'
    BY <1>0, <1>9 DEF XferEnd
  <1>10. ASSUME NEW c \in Clients, HandleControl(c) \/ CountGuard(c) PROVE DownloadInv'
    BY <1>0, <1>10 DEF HandleControl, CountGuard
  <1>11. ASSUME NEW c \in Clients, NEW n \in 1 .. MaxTransfers, DoIncrement(c, n)
         PROVE  DownloadInv'
    BY <1>11, Zenon DEF DoIncrement
  <1>12. CASE UNCHANGED vars
    BY <1>12 DEF vars
  <1> QED BY <1>1, <1>2, <1>3, <1>4, <1>5, <1>6, <1>7, <1>8, <1>9, <1>10, <1>11, <1>12, NoUpload
          DEF Next, RetrStart, StorStart, Retr, AllKinds

\* No step of downloads overdraws the credits of a user: the price is taken with
\* one database command that compares, and nothing is left to take by force.
LEMMA CreditStep ==
  ASSUME TypeOK, LabelInv, DownloadInv, NotOverdrawn, [Next]_vars
  PROVE  NotOverdrawn'
PROOF
  <1> USE DEF NotOverdrawn, creditVars
  <1>1. ASSUME UNCHANGED credits PROVE NotOverdrawn'
    BY <1>1
  <1>2. ASSUME NEW c \in Clients, RetrCharge(c) PROVE NotOverdrawn'
    <2> DEFINE kb == (size[c] \div KB) * Ratio
    <2>1. kb \in Nat
      BY PriceNat DEF TypeOK
    <2> HIDE DEF kb
    <2>2. CASE CanDecr(UserOf[c], kb, FALSE) /\ DecrCredits(c, kb)
      <3>1. credits' = [credits EXCEPT ![UserOf[c]] = IF kb = 0 THEN @ ELSE @ - kb]
        BY <2>2 DEF DecrCredits
      <3>2. kb = 0 \/ (credits[UserOf[c]] # NoEntry /\ credits[UserOf[c]] >= kb)
        BY <2>2 DEF CanDecr
      <3>3. UserOf[c] \in Users /\ (credits[UserOf[c]] # NoEntry => credits[UserOf[c]] \in Int)
        BY UserAssumption DEF TypeOK
      <3>4. kb # 0 => credits[UserOf[c]] - kb \in Nat
        BY <2>1, <3>2, <3>3
      <3> QED BY <2>1, <3>1, <3>2, <3>3, <3>4 DEF TypeOK
    <2> QED BY <1>1, <1>2, <2>2 DEF RetrCharge, kb
  <1>3. ASSUME NEW c \in Clients, RetrGuard(c) PROVE NotOverdrawn'
    <2>1. bytes[c] <= size[c] /\ bytes[c] \in Nat /\ size[c] \in Nat
      BY <1>3 DEF RetrGuard, DownloadInv, TypeOK
    <2>2. ~(size[c] - bytes[c] < 0)
      BY <2>1
    <2> QED BY <1>1, <1>3, <2>2 DEF RetrGuard
  <1>4. ASSUME NEW c \in Clients, NEW n \in 1 .. MaxTransfers, DoIncrement(c, n)
        PROVE  NotOverdrawn'
    <2> DEFINE kb == jobs[c][n].kb
    <2>1. kb \in Nat /\ credits' \in [Users -> Int \cup {NoEntry}]
      BY <1>4, IncrementStep
    <2>2. \A u \in Users : credits'[u] = credits[u]
                             \/ (credits[u] # NoEntry /\ credits'[u] = credits[u] + kb)
                             \/ credits'[u] = kb
      BY <1>4, IncrementStep
    <2>3. \A u \in Users : credits[u] # NoEntry => credits[u] \in Nat
      BY DEF TypeOK
    <2> HIDE DEF kb
    <2> QED BY <2>1, <2>2, <2>3
  <1>5. ASSUME NEW c \in Clients,
               \/ Rest(c) \/ (\E k \in AllKinds : Start(c, k)) \/ RetrOpenFile(c) \/ RetrOpen(c)
               \/ RetrChunk(c) \/ RetrClose(c) \/ XferEnd(c) \/ HandleControl(c) \/ CountGuard(c)
        PROVE  UNCHANGED credits
    BY <1>5 DEF Rest, Start, RetrOpenFile, RetrOpen, RetrChunk, RetrClose, XferEnd,
       HandleControl, CountGuard
  <1>6. CASE UNCHANGED vars
    BY <1>6 DEF vars
  <1> QED BY <1>1, <1>2, <1>3, <1>4, <1>5, <1>6, NoUpload
          DEF Next, RetrStart, StorStart, Retr, AllKinds

\* A site where everybody downloads, and nobody starts with a debt.
Downloads == Kinds = {"RETR"} /\ Garbage = {} /\ \A u \in Users : Credits[u] # NoEntry => Credits[u] >= 0

\* DownloadInv is an invariant of downloads.
LEMMA DownloadInvariance == Kinds = {"RETR"} /\ Garbage = {} => (Spec => []DownloadInv)
PROOF
  <1> SUFFICES ASSUME Kinds = {"RETR"}, Garbage = {} PROVE Spec => []DownloadInv
    OBVIOUS
  <1>1. Init => DownloadInv
    BY DEF Init, DownloadInv
  <1>2. TransferInv /\ DownloadInv /\ [Next]_vars => DownloadInv'
    BY DownloadStep DEF TransferInv, SlotsSound
  <1> QED BY <1>1, <1>2, TransferInvariance, PTL DEF Spec

\* Downloads that run at the same time never spend more credits than there are.
THEOREM DownloadsNotOverdrawn == Downloads => (Spec => []NotOverdrawn)
PROOF
  <1> SUFFICES ASSUME Downloads PROVE Spec => []NotOverdrawn
    OBVIOUS
  <1>0. Spec => []DownloadInv
    BY DownloadInvariance DEF Downloads
  <1>1. Init => NotOverdrawn
    BY DEF Init, NotOverdrawn, Downloads
  <1>2. TransferInv /\ DownloadInv /\ NotOverdrawn /\ [Next]_vars => NotOverdrawn'
    BY CreditStep DEF TransferInv, SlotsSound
  <1> QED BY <1>0, <1>1, <1>2, TransferInvariance, PTL DEF Spec

\* What PaidForBytes says of one download that has ended.
Sent(c) == IF recorded[c] = 0 THEN 0 ELSE bytes[c]
Settled(c) == paid[c] \in (Sent(c) \div KB) * Ratio .. ((Sent(c) + KB - 1) \div KB) * Ratio

\* A download that sent nothing and cost nothing is settled.
LEMMA NothingSettled ==
  0 \in (0 \div KB) * Ratio .. ((0 + KB - 1) \div KB) * Ratio
PROOF
  <1>1. (0 \div KB) * Ratio - ((0 - 0) \div KB) * Ratio
           \in (0 \div KB) * Ratio .. ((0 + KB - 1) \div KB) * Ratio
    BY RefundRounds
  <1>2. (0 \div KB) * Ratio \in Nat /\ 0 - 0 = 0
    BY PriceNat
  <1> QED BY <1>1, <1>2

\* The prices are kept by every step of downloads whose data connection opens.
LEMMA PriceStep ==
  ASSUME Kinds = {"RETR"}, ~OpenFails, TypeOK, LabelInv, RecordInv, DownloadInv,
         PriceInv, PaidForBytes, [Next]_vars
  PROVE  PriceInv' /\ PaidForBytes'
PROOF
  <1> DEFINE After == {"guardCount", "idle", "ended"}
             Due(c) == UserOf[c] \notin Allotted
             During(c) == paid[c] = (size[c] \div KB) * Ratio
             Right(c) ==
               /\ pc[c] \in {"started", "opened"} => paid[c] = 0
               /\ pc[c] \in {"charged", "xfer", "closing", "guardData"} /\ Due(c) => During(c)
               /\ pc[c] \in After /\ Due(c) => Settled(c)
  <1>0. /\ pc \in [Clients -> Pcs] /\ out \in [Clients -> {"idle", "ended"}]
        /\ paid \in [Clients -> Int] /\ recorded \in [Clients -> Nat]
        /\ size \in [Clients -> Nat] /\ bytes \in [Clients -> Nat]
    BY DEF TypeOK
  <1>a. \A c \in Clients : kind[c] = "RETR"
    BY DEF DownloadInv
  <1>b. \A c \in Clients : Right(c)
    BY <1>a DEF PriceInv, PaidForBytes, Settled, Sent
  <1>c. SUFFICES \A c \in Clients : Right(c)'
    BY DEF PriceInv, PaidForBytes, Settled, Sent
  \* Clients whose handler does nothing in this step.
  <1>d. ASSUME NEW d \in Clients, pc'[d] = pc[d], paid'[d] = paid[d], recorded'[d] = recorded[d],
               size'[d] = size[d], bytes'[d] = bytes[d]
        PROVE  Right(d)'
    BY <1>b, <1>d DEF Settled, Sent
  <1> USE DEF Goto, Leave, Throw, Close, handlerVars, dataVars, slotVars, fileVars, creditVars
  <1>1. ASSUME NEW c \in Clients, Rest(c) PROVE \A d \in Clients : Right(d)'
    BY <1>1, <1>d DEF Rest
  <1>2. ASSUME NEW c \in Clients, NEW k \in AllKinds, Start(c, k)
        PROVE  \A d \in Clients : Right(d)'
    <2>1. /\ paid' = [paid EXCEPT ![c] = 0] /\ recorded' = [recorded EXCEPT ![c] = 0]
          /\ UNCHANGED <<size, bytes>>
          /\ \E l \in {"started", "idle", "ended"} : pc' = [pc EXCEPT ![c] = l]
      BY <1>2 DEF Start
    <2>2. paid'[c] = 0 /\ recorded'[c] = 0 /\ pc'[c] \in {"started", "idle", "ended"}
      BY <1>0, <2>1
    <2>3. Settled(c)'
      BY <2>2, NothingSettled DEF Settled, Sent
    <2>4. Right(c)'
      BY <2>2, <2>3
    <2>5. \A d \in Clients \ {c} : pc'[d] = pc[d] /\ paid'[d] = paid[d]
            /\ recorded'[d] = recorded[d] /\ size'[d] = size[d] /\ bytes'[d] = bytes[d]
      BY <1>0, <2>1
    <2> QED BY <1>d, <2>4, <2>5
  <1>3. ASSUME NEW c \in Clients, RetrOpenFile(c) PROVE \A d \in Clients : Right(d)'
    <2>1. /\ pc[c] = "started" /\ UNCHANGED <<paid, recorded, bytes>>
          /\ size' = size \/ \E s : size' = [size EXCEPT ![c] = s]
          /\ \E l \in {"guardCount", "opened"} : pc' = [pc EXCEPT ![c] = l]
      BY <1>3 DEF RetrOpenFile
    <2>2. paid'[c] = 0 /\ recorded'[c] = 0 /\ pc'[c] \in {"guardCount", "opened"}
      BY <1>0, <1>b, <2>1 DEF RecordInv, EarlyPcs
    <2>3. Settled(c)'
      BY <2>2, NothingSettled DEF Settled, Sent
    <2>4. Right(c)'
      BY <2>2, <2>3
    <2>5. \A d \in Clients \ {c} : pc'[d] = pc[d] /\ paid'[d] = paid[d]
            /\ recorded'[d] = recorded[d] /\ size'[d] = size[d] /\ bytes'[d] = bytes[d]
      BY <1>0, <2>1
    <2> QED BY <1>d, <2>4, <2>5
  <1>4. ASSUME NEW c \in Clients, RetrCharge(c) PROVE \A d \in Clients : Right(d)'
    <2> DEFINE kb == (size[c] \div KB) * Ratio
    <2>1. kb \in Nat /\ pc[c] = "opened" /\ paid[c] = 0 /\ recorded[c] = 0
      BY <1>0, <1>4, <1>b, PriceNat DEF RetrCharge, RecordInv, EarlyPcs
    <2>2. UNCHANGED <<size, bytes, recorded>>
      BY <1>4 DEF RetrCharge
    <2>3. \/ pc' = [pc EXCEPT ![c] = "guardCount"] /\ paid' = paid
          \/ pc' = [pc EXCEPT ![c] = "charged"] /\ ~Due(c) /\ paid' = paid
          \/ pc' = [pc EXCEPT ![c] = "charged"] /\ paid' = [paid EXCEPT ![c] = @ + kb]
      BY <1>4 DEF RetrCharge, DecrCredits
    <2>4. \A d \in Clients \ {c} : pc'[d] = pc[d] /\ paid'[d] = paid[d]
            /\ recorded'[d] = recorded[d] /\ size'[d] = size[d] /\ bytes'[d] = bytes[d]
      BY <1>0, <2>2, <2>3
    <2>5. CASE pc' = [pc EXCEPT ![c] = "guardCount"] /\ paid' = paid
      <3>1. Settled(c)'
        BY <2>1, <2>2, <2>5, NothingSettled DEF Settled, Sent
      <3> QED BY <1>0, <1>d, <2>4, <2>5, <3>1
    <2>6. CASE pc' = [pc EXCEPT ![c] = "charged"] /\ ~Due(c) /\ paid' = paid
      <3>1. Right(c)'
        BY <1>0, <2>6
      <3> QED BY <1>d, <2>4, <3>1
    <2>7. CASE pc' = [pc EXCEPT ![c] = "charged"] /\ paid' = [paid EXCEPT ![c] = @ + kb]
      <3>1. pc'[c] = "charged" /\ paid'[c] = kb /\ size'[c] = size[c]
        <4> HIDE DEF kb
        <4> QED BY <1>0, <2>1, <2>2, <2>7
      <3>2. Right(c)'
        BY <3>1
      <3> QED BY <1>d, <2>4, <3>2
    <2> QED BY <2>3, <2>5, <2>6, <2>7
  <1>5. ASSUME NEW c \in Clients,
               RetrOpen(c) \/ RetrChunk(c) \/ RetrClose(c) \/ XferEnd(c) \/ HandleControl(c)
        PROVE  \A d \in Clients : Right(d)'
    <2>1. /\ pc[c] \in {"charged", "xfer", "closing"} /\ UNCHANGED <<paid, size>>
          /\ pc' = pc \/ \E l \in {"guardData", "xfer", "closing"} : pc' = [pc EXCEPT ![c] = l]
      BY <1>5 DEF RetrOpen, RetrChunk, RetrClose, XferEnd, HandleControl
    <2>2. pc'[c] \in {"charged", "xfer", "closing", "guardData"}
      BY <1>0, <2>1
    <2>3. Right(c)'
      BY <1>b, <2>1, <2>2
    <2>4. \A d \in Clients \ {c} : recorded'[d] = recorded[d] /\ bytes'[d] = bytes[d]
      BY <1>0, <1>5 DEF RetrOpen, RetrChunk, RetrClose, XferEnd, HandleControl
    <2>5. \A d \in Clients \ {c} : pc'[d] = pc[d] /\ paid'[d] = paid[d] /\ size'[d] = size[d]
      BY <1>0, <2>1
    <2> QED BY <1>d, <2>3, <2>4, <2>5
  <1>6. ASSUME NEW c \in Clients, RetrGuard(c) PROVE \A d \in Clients : Right(d)'
    <2> DEFINE rest == size[c] - bytes[c]
               back == (rest \div KB) * Ratio
               kb == (size[c] \div KB) * Ratio
    <2>1. /\ pc[c] = "guardData" /\ kind[c] = "RETR"
          /\ pc' = [pc EXCEPT ![c] = "guardCount"]
          /\ recorded' = [recorded EXCEPT ![c] = IF open[c] THEN @ + 1 ELSE @]
          /\ UNCHANGED <<size, bytes>>
      BY <1>6 DEF RetrGuard
    <2>2. bytes[c] <= size[c] /\ rest \in Nat /\ size[c] \in Nat /\ bytes[c] \in Nat
      BY <1>0, <2>1 DEF DownloadInv
    <2>3. recorded'[c] = 1 /\ pc'[c] = "guardCount"
      <3>1. (open[c] => recorded[c] = 0) /\ (~open[c] => recorded[c] = 1)
        BY <2>1 DEF RecordInv
      <3> QED BY <1>0, <2>1, <3>1
    <2>4. \/ ~Due(c) /\ paid' = paid
          \/ Due(c) /\ rest = 0 /\ paid' = paid
          \/ Due(c) /\ paid' = [paid EXCEPT ![c] = @ - back]
      <3>1. ~(rest < 0)
        BY <2>2
      <3> QED BY <1>6, <3>1, Zenon DEF RetrGuard
    <2>5. \A d \in Clients \ {c} : pc'[d] = pc[d] /\ paid'[d] = paid[d]
            /\ recorded'[d] = recorded[d] /\ size'[d] = size[d] /\ bytes'[d] = bytes[d]
      BY <1>0, <2>1, <2>4
    <2>6. ASSUME Due(c) PROVE Settled(c)'
      <3>1. paid[c] = kb
        BY <1>b, <2>1, <2>6
      <3>2. kb - back \in (bytes[c] \div KB) * Ratio .. ((bytes[c] + KB - 1) \div KB) * Ratio
        BY <2>2, RefundRounds
      <3>3. rest = 0 => back = 0
        <4>1. (0 \div KB) = 0
          BY CreditAssumption
        <4>2. 0 * Ratio = 0
          BY CreditAssumption
        <4> QED BY <4>1, <4>2
      <3>4. kb \in Nat /\ back \in Nat
        BY <2>2, PriceNat
      <3>5. paid'[c] = kb - back
        <4> HIDE DEF kb, back, rest
        <4> QED BY <1>0, <2>4, <2>6, <3>1, <3>3, <3>4
      <3>6. Sent(c)' = bytes[c]
        BY <2>1, <2>3 DEF Sent
      <3> QED BY <3>2, <3>5, <3>6 DEF Settled
    <2>7. Right(c)'
      BY <2>3, <2>6
    <2> QED BY <1>d, <2>5, <2>7
  <1>7. ASSUME NEW c \in Clients, CountGuard(c) PROVE \A d \in Clients : Right(d)'
    <2>1. /\ pc[c] = "guardCount" /\ pc' = [pc EXCEPT ![c] = out[c]]
          /\ UNCHANGED <<paid, recorded, size, bytes>>
      BY <1>7 DEF CountGuard
    <2>2. pc'[c] \in {"idle", "ended"}
      BY <1>0, <2>1
    <2>3. Right(c)'
      BY <1>b, <2>1, <2>2 DEF Settled, Sent
    <2>4. \A d \in Clients \ {c} : pc'[d] = pc[d]
      BY <1>0, <2>1
    <2> QED BY <1>d, <2>1, <2>3, <2>4
  <1>8. ASSUME NEW c \in Clients, NEW n \in 1 .. MaxTransfers, DoIncrement(c, n)
        PROVE  \A d \in Clients : Right(d)'
    <2>1. UNCHANGED <<pc, paid, recorded, size, bytes>>
      BY <1>8, Zenon DEF DoIncrement
    <2> QED BY <1>d, <2>1
  <1>9. CASE UNCHANGED vars
    BY <1>9, <1>d DEF vars
  <1> QED BY <1>1, <1>2, <1>3, <1>4, <1>5, <1>6, <1>7, <1>8, <1>9, NoUpload
          DEF Next, RetrStart, StorStart, Retr, AllKinds

\* A download costs the kilobytes that were sent, up to rounding, whenever and
\* however it ended once its data connection was open.
THEOREM DownloadsPaid == Kinds = {"RETR"} /\ Garbage = {} /\ ~OpenFails => (Spec => []PaidForBytes)
PROOF
  <1> SUFFICES ASSUME Kinds = {"RETR"}, Garbage = {}, ~OpenFails PROVE Spec => []PaidForBytes
    OBVIOUS
  <1>0. Spec => []DownloadInv
    BY DownloadInvariance
  <1>1. Init => PriceInv /\ PaidForBytes
    <2> SUFFICES ASSUME Init PROVE PriceInv /\ PaidForBytes
      OBVIOUS
    <2>1. PriceInv
      BY DEF Init, PriceInv
    <2>2. \A c \in Clients : paid[c] = 0 /\ recorded[c] = 0
      BY DEF Init
    <2>3. PaidForBytes
      BY <2>2, NothingSettled DEF PaidForBytes
    <2> QED BY <2>1, <2>3
  <1>2. TransferInv /\ DownloadInv /\ (PriceInv /\ PaidForBytes) /\ [Next]_vars
          => (PriceInv /\ PaidForBytes)'
    BY PriceStep DEF TransferInv, SlotsSound
  <1> QED BY <1>0, <1>1, <1>2, TransferInvariance, PTL DEF Spec

-----------------------------------------------------------------------------
(* The ledger *)

\* The kilobytes of every increment, and what a user has in the database.
KBytesOf == [j \in Clients \X (1 .. MaxTransfers) |-> jobs[j[1]][j[2]].kb]
Entry(u) == IF credits[u] = NoEntry THEN 0 ELSE credits[u]

\* A download that is about to settle its price has started no increment; an
\* increment that found an entry when it wanted to insert one finds it again, since
\* entries are never removed.  So none is lost.
LedgerInv ==
  /\ LedgerBalanced
  /\ \A c \in Clients : pc[c] = "guardData" /\ kind[c] = "RETR" => ~Given(c)
  /\ \A c \in Clients : \A n \in 1 .. MaxTransfers :
       jobs[c][n].step = "retry" => credits[UserOf[c]] # NoEntry

\* What a step may do to the credits: nothing, start an increment for a transfer that
\* has none, take credits away, or do a step of an increment.
Starts(c, kb) ==
  /\ IncrCredits(c, kb) /\ UNCHANGED <<credits, num>> /\ num[c] > 0 /\ ~Given(c)
  /\ pc'[c] # "guardData" \/ kind'[c] # "RETR"
Takes(c, kb) == CanDecr(UserOf[c], kb, TRUE) /\ DecrCredits(c, kb) /\ jobs' = jobs

\* A step leaves credits, jobs and ledger alone, or is one that pays for, takes or grants credits.
LEMMA CreditCases ==
  ASSUME TransferInv, LedgerInv, [Next]_vars
  PROVE  \/ UNCHANGED <<credits, jobs, ledger>>
         \/ \E c \in Clients, kb \in Nat : Starts(c, kb) \/ Takes(c, kb)
         \/ \E c \in Clients, n \in 1 .. MaxTransfers : DoIncrement(c, n)
PROOF
  <1> USE DEF creditVars
  <1>t. TypeOK /\ LabelInv /\ RecordInv
    BY DEF TransferInv, SlotsSound
  <1>1. ASSUME NEW c \in Clients,
               \/ Rest(c) \/ (\E k \in AllKinds : Start(c, k)) \/ RetrOpenFile(c) \/ RetrOpen(c)
               \/ RetrChunk(c) \/ RetrClose(c) \/ XferEnd(c) \/ HandleControl(c) \/ CountGuard(c)
               \/ StorCreate(c) \/ StorOpen(c) \/ StorChunk(c) \/ StorClose(c) \/ StorGuard(c)
               \/ FileGuard(c)
        PROVE  UNCHANGED <<credits, jobs, ledger>>
    BY <1>1 DEF Rest, Start, RetrOpenFile, RetrOpen, RetrChunk, RetrClose, XferEnd,
       HandleControl, CountGuard, StorCreate, StorOpen, StorChunk, StorClose, StorGuard, FileGuard
  <1>2. ASSUME NEW c \in Clients, RetrCharge(c)
        PROVE  UNCHANGED <<credits, jobs, ledger>> \/ \E kb \in Nat : Takes(c, kb)
    <2> DEFINE kb == (size[c] \div KB) * Ratio
    <2>1. kb \in Nat
      BY <1>t, PriceNat DEF TypeOK
    <2>2. \/ UNCHANGED <<credits, jobs, ledger>>
          \/ CanDecr(UserOf[c], kb, FALSE) /\ DecrCredits(c, kb) /\ jobs' = jobs
      BY <1>2 DEF RetrCharge
    <2> HIDE DEF kb
    <2>3. CanDecr(UserOf[c], kb, FALSE) => CanDecr(UserOf[c], kb, TRUE)
      BY DEF CanDecr
    <2> QED BY <2>1, <2>2, <2>3 DEF Takes
  <1>3. ASSUME NEW c \in Clients, RetrGuard(c)
        PROVE  \/ UNCHANGED <<credits, jobs, ledger>>
               \/ \E kb \in Nat : Starts(c, kb) \/ Takes(c, kb)
    <2> DEFINE rest == size[c] - bytes[c]
               back == (rest \div KB) * Ratio
               more == (0 - rest) * Ratio
    <2>1. rest \in Int
      BY <1>t DEF TypeOK
    <2>2. rest > 0 => back \in Nat
      <3> HIDE DEF rest
      <3> QED BY <2>1, PriceNat
    <2>3. ASSUME rest < 0 PROVE more \in Nat
      <3> DEFINE r == 0 - rest
      <3>1. r \in Nat
        BY <2>1, <2>3
      <3> HIDE DEF r
      <3>2. r * Ratio \in Nat
        BY <3>1, CreditAssumption
      <3> QED BY <3>2 DEF r
    <2>4. /\ pc[c] = "guardData" /\ kind[c] = "RETR" /\ pc' = [pc EXCEPT ![c] = "guardCount"]
          /\ num' = num
      BY <1>3 DEF RetrGuard, Goto
    <2>5. num[c] > 0 /\ ~Given(c) /\ pc'[c] # "guardData"
      BY <1>t, <2>4 DEF RecordInv, Busy, LedgerInv, TypeOK
    <2>6. \/ UNCHANGED <<credits, jobs, ledger>>
          \/ rest > 0 /\ IncrCredits(c, back) /\ UNCHANGED credits
          \/ rest < 0 /\ CanDecr(UserOf[c], more, TRUE) /\ DecrCredits(c, more) /\ jobs' = jobs
      BY <1>3 DEF RetrGuard
    <2> HIDE DEF back, more, rest
    <2> QED BY <2>2, <2>3, <2>4, <2>5, <2>6 DEF Starts, Takes
  <1>4. ASSUME NEW c \in Clients, StorCheck(c)
        PROVE  UNCHANGED <<credits, jobs, ledger>> \/ \E kb \in Nat : Starts(c, kb)
    <2> DEFINE kb == (bytes[c] \div KB) * Ratio
    <2>1. kb \in Nat
      BY <1>t, PriceNat DEF TypeOK
    <2>2. pc[c] = "check" /\ kind[c] = "STOR" /\ UNCHANGED <<credits, num, kind>>
      BY <1>4, <1>t DEF StorCheck, LabelInv
    <2>3. num[c] > 0 /\ ~Given(c)
      BY <1>t, <2>2 DEF RecordInv, Busy, EarlyPcs
    <2>4. UNCHANGED <<credits, jobs, ledger>> \/ IncrCredits(c, kb)
      BY <1>4 DEF StorCheck
    <2> HIDE DEF kb
    <2> QED BY <2>1, <2>2, <2>3, <2>4 DEF Starts
  <1>5. CASE UNCHANGED vars
    BY <1>5 DEF vars
  <1> QED BY <1>1, <1>2, <1>3, <1>4, <1>5 DEF Next, RetrStart, StorStart, Retr, Stor, AllKinds

\* The increments under way are finitely many, of natural numbers of kilobytes.
LEMMA PendingFinite ==
  ASSUME TypeOK, NEW u
  PROVE  /\ IsFiniteSet(Pending(u)) /\ Pending(u) \subseteq Clients \X (1 .. MaxTransfers)
         /\ \A j \in Clients \X (1 .. MaxTransfers) : KBytesOf[j] \in Nat
         /\ SumFunctionOnSet(KBytesOf, Pending(u)) \in Int
PROOF
  <1>1. IsFiniteSet(1 .. MaxTransfers)
    BY TransferBounds, FS_Interval
  <1>2. IsFiniteSet(Clients \X (1 .. MaxTransfers))
    BY <1>1, ClientAssumption, FS_Product
  <1>3. Pending(u) \subseteq Clients \X (1 .. MaxTransfers)
    BY DEF Pending
  <1>4. IsFiniteSet(Pending(u))
    BY <1>2, <1>3, FS_Subset
  <1>5. ASSUME NEW j \in Clients \X (1 .. MaxTransfers) PROVE KBytesOf[j] \in Nat
    <2>1. j[1] \in Clients /\ j[2] \in 1 .. MaxTransfers
      OBVIOUS
    <2>2. jobs[j[1]][j[2]] \in [step : Steps, kb : Nat]
      BY <2>1, ZenonT(30) DEF TypeOK
    <2>3. jobs[j[1]][j[2]].kb \in Nat
      BY <2>2
    <2> QED BY <2>3 DEF KBytesOf
  <1>6. \A j \in Pending(u) : KBytesOf[j] \in Int
    BY <1>3, <1>5
  <1>7. SumFunctionOnSet(KBytesOf, Pending(u)) \in Int
    BY <1>4, <1>6, SumInteger
  <1> QED BY <1>3, <1>4, <1>5, <1>7

\* An increment that is started is one more under way.
LEMMA StartsLedger ==
  ASSUME TypeOK, TypeOK', NEW c \in Clients, NEW kb \in Nat, Starts(c, kb), NEW u \in Users
  PROVE  SumFunctionOnSet(KBytesOf, Pending(u))'
           = SumFunctionOnSet(KBytesOf, Pending(u)) + IF u = UserOf[c] THEN kb ELSE 0
PROOF
  <1> DEFINE new == <<c, num[c]>>
             All == Clients \X (1 .. MaxTransfers)
  <1>0. num[c] \in 0 .. MaxTransfers /\ num[c] > 0
    BY DEF Starts, TypeOK
  <1>1. num[c] \in 1 .. MaxTransfers /\ new \in All
    BY <1>0, TransferBounds
  <1>2. jobs'[c][num[c]] = Job("update", kb) /\ jobs[c][num[c]].step = "none"
    BY <1>1, SMTT(30) DEF Starts, IncrCredits, Given, TypeOK
  <1>3. \A d \in Clients : \A m \in 1 .. MaxTransfers :
          ~(d = c /\ m = num[c]) => jobs'[d][m] = jobs[d][m]
    BY IncrJobs DEF Starts
  <1>4. PICK f, g, S, T : /\ f = KBytesOf /\ g = KBytesOf' /\ S = Pending(u) /\ T = Pending(u)'
    OBVIOUS
  <1>5. /\ IsFiniteSet(S) /\ S \subseteq All /\ (\A j \in All : f[j] \in Nat)
        /\ SumFunctionOnSet(f, S) \in Int
    BY <1>4, PendingFinite
  <1>6. ASSUME NEW j \in All, j # new PROVE jobs'[j[1]][j[2]] = jobs[j[1]][j[2]]
    <2>1. j[1] \in Clients /\ j[2] \in 1 .. MaxTransfers /\ ~(j[1] = c /\ j[2] = num[c])
      BY <1>6
    <2> QED BY <1>3, <2>1
  <1>7. /\ g[new] = kb /\ new \notin S
        /\ \A j \in All : j # new => g[j] = f[j] /\ (j \in T <=> j \in S)
    <2>1. g = [j \in All |-> jobs'[j[1]][j[2]].kb] /\ f = [j \in All |-> jobs[j[1]][j[2]].kb]
      BY <1>4 DEF KBytesOf
    <2>2. /\ T = {j \in All : UserOf[j[1]] = u
                               /\ jobs'[j[1]][j[2]].step \in {"update", "insert", "retry"}}
          /\ S = {j \in All : UserOf[j[1]] = u
                               /\ jobs[j[1]][j[2]].step \in {"update", "insert", "retry"}}
      BY <1>4 DEF Pending
    <2> QED BY <1>1, <1>2, <1>6, <2>1, <2>2 DEF Job
  <1>8. T \subseteq All /\ (new \in T <=> u = UserOf[c])
    <2>1. T = {j \in All : UserOf[j[1]] = u
                            /\ jobs'[j[1]][j[2]].step \in {"update", "insert", "retry"}}
      BY <1>4 DEF Pending
    <2> QED BY <1>1, <1>2, <2>1 DEF Job
  <1> HIDE DEF new, All
  <1>9. T = IF u = UserOf[c] THEN S \cup {new} ELSE S
    BY <1>1, <1>5, <1>7, <1>8
  <1>10. SumFunctionOnSet(g, S) = SumFunctionOnSet(f, S)
    BY <1>5, <1>7, SumSame
  <1>11. SumFunctionOnSet(g, S \cup {new}) = kb + SumFunctionOnSet(g, S)
    <2>1. \A j \in S : g[j] \in Int
      BY <1>5, <1>7
    <2> QED BY <1>5, <1>7, <2>1, SumAdd
  <1>12. SumFunctionOnSet(g, T) = SumFunctionOnSet(f, S) + IF u = UserOf[c] THEN kb ELSE 0
    BY <1>5, <1>9, <1>10, <1>11
  <1> QED BY <1>4, <1>12

\* A step of an increment leaves what the user has and is to get as it was.
LEMMA IncrementLedger ==
  ASSUME TypeOK, LedgerInv, NEW c \in Clients, NEW n \in 1 .. MaxTransfers, DoIncrement(c, n),
         NEW u \in Users
  PROVE  /\ Entry(u)' + SumFunctionOnSet(KBytesOf, Pending(u))'
              = Entry(u) + SumFunctionOnSet(KBytesOf, Pending(u))
         /\ (credits[u] # NoEntry => credits'[u] # NoEntry)
         /\ \A d \in Clients : \A m \in 1 .. MaxTransfers :
              jobs'[d][m].step = "retry" /\ jobs[d][m].step # "retry" =>
                credits[UserOf[d]] # NoEntry
PROOF
  <1> DEFINE own == <<c, n>>
             All == Clients \X (1 .. MaxTransfers)
             Under == {"update", "insert", "retry"}
             kb == jobs[c][n].kb
             at == jobs[c][n].step
             v == UserOf[c]
  <1>1. own \in All /\ kb \in Nat /\ v \in Users
    BY UserAssumption DEF TypeOK
  <1> DEFINE Sum(k) == IF credits[v] = NoEntry THEN k ELSE credits[v] + k
             Does(i) == /\ jobs' = [jobs EXCEPT ![c][n].step = i]
                        /\ at \in Under /\ i \in {"done", "insert", "retry"}
                        /\ i = "done" => credits' = [credits EXCEPT ![v] = Sum(kb)]
                        /\ i # "done" => credits' = credits
                        /\ i = "retry" => credits[v] # NoEntry
  <1>2. PICK s : Does(s)
    <2>1. at = "retry" => credits[v] # NoEntry
      BY DEF LedgerInv
    <2>2. CASE at \in {"update", "retry"} /\ credits[v] # NoEntry
      <3>1. /\ jobs' = [jobs EXCEPT ![c][n].step = "done"]
            /\ credits' = [credits EXCEPT ![v] = credits[v] + kb]
        BY <2>2, Zenon DEF DoIncrement
      <3>2. Sum(kb) = credits[v] + kb
        BY <2>2
      <3> HIDE DEF kb, at, v, Sum
      <3>3. Does("done")
        BY <2>2, <3>1, <3>2
      <3> QED BY <3>3
    <2>3. CASE at \in {"update", "retry"} /\ credits[v] = NoEntry
      <3>1. jobs' = [jobs EXCEPT ![c][n].step = "insert"] /\ credits' = credits
        BY <2>1, <2>3, Zenon DEF DoIncrement
      <3> HIDE DEF kb, at, v, Sum
      <3>3. Does("insert")
        BY <2>3, <3>1
      <3> QED BY <3>3
    <2>4. CASE at = "insert" /\ credits[v] # NoEntry
      <3>1. jobs' = [jobs EXCEPT ![c][n].step = "retry"] /\ credits' = credits
        BY <2>4, Zenon DEF DoIncrement
      <3> HIDE DEF kb, at, v, Sum
      <3>3. Does("retry")
        BY <2>4, <3>1
      <3> QED BY <3>3
    <2>5. CASE at = "insert" /\ credits[v] = NoEntry
      <3>1. /\ jobs' = [jobs EXCEPT ![c][n].step = "done"]
            /\ credits' = [credits EXCEPT ![v] = kb]
        BY <2>5, Zenon DEF DoIncrement
      <3>2. Sum(kb) = kb
        BY <2>5
      <3> HIDE DEF kb, at, v, Sum
      <3>3. Does("done")
        BY <2>5, <3>1, <3>2
      <3> QED BY <3>3
    <2>6. at \in {"update", "retry"} \/ at = "insert"
      BY Zenon DEF DoIncrement
    <2> HIDE DEF Does, at, v
    <2> QED BY <2>2, <2>3, <2>4, <2>5, <2>6
  <1>3. /\ jobs'[c][n].step = s /\ jobs'[c][n].kb = kb
        /\ \A d \in Clients : \A m \in 1 .. MaxTransfers :
             ~(d = c /\ m = n) => jobs'[d][m] = jobs[d][m]
    <2> DEFINE j == jobs[c][n]
               i == [j EXCEPT !.step = s]
    <2>1. jobs' = [jobs EXCEPT ![c] = [jobs[c] EXCEPT ![n] = i]]
      BY <1>2, Zenon
    <2>2. i.step = s /\ i.kb = kb /\ jobs[c] \in [1 .. MaxTransfers -> [step : Steps, kb : Nat]]
      BY DEF TypeOK
    <2> HIDE DEF i
    <2> QED BY <2>1, <2>2 DEF TypeOK
  <1>4. PICK f, g, S, T : /\ f = KBytesOf /\ g = KBytesOf' /\ S = Pending(u) /\ T = Pending(u)'
    OBVIOUS
  <1>5. /\ IsFiniteSet(S) /\ S \subseteq All /\ (\A j \in All : f[j] \in Nat)
        /\ SumFunctionOnSet(f, S) \in Int
    BY <1>4, PendingFinite
  <1>6. /\ g = [j \in All |-> jobs'[j[1]][j[2]].kb] /\ f = [j \in All |-> jobs[j[1]][j[2]].kb]
        /\ T = {j \in All : UserOf[j[1]] = u /\ jobs'[j[1]][j[2]].step \in Under}
        /\ S = {j \in All : UserOf[j[1]] = u /\ jobs[j[1]][j[2]].step \in Under}
    BY <1>4 DEF KBytesOf, Pending
  <1>7. ASSUME NEW j \in All, j # own PROVE jobs'[j[1]][j[2]] = jobs[j[1]][j[2]]
    <2>1. j[1] \in Clients /\ j[2] \in 1 .. MaxTransfers /\ ~(j[1] = c /\ j[2] = n)
      BY <1>7
    <2> QED BY <1>3, <2>1
  <1>8. /\ f[own] = kb /\ \A j \in All : g[j] = f[j]
        /\ \A j \in All : j # own => (j \in T <=> j \in S)
        /\ (own \in S <=> u = v) /\ (own \in T <=> u = v /\ s # "done") /\ T \subseteq All
    BY <1>1, <1>2, <1>3, <1>6, <1>7, SMTT(30)
  <1> HIDE DEF All, own
  <1>9. T = IF u = v /\ s = "done" THEN S \ {own} ELSE S
    BY <1>1, <1>5, <1>8
  <1>10. SumFunctionOnSet(g, T) = SumFunctionOnSet(f, T)
    <2>1. IsFiniteSet(T) /\ T \subseteq S
      BY <1>5, <1>9, FS_Subset
    <2> QED BY <1>8, <2>1, SumSame
  <1>11. u = v => SumFunctionOnSet(f, S) = kb + SumFunctionOnSet(f, S \ {own})
    <2>1. \A j \in S : f[j] \in Int
      BY <1>5
    <2> QED BY <1>5, <1>8, <2>1, SumRemove
  <1>12. SumFunctionOnSet(f, S \ {own}) \in Int
    <2>1. IsFiniteSet(S \ {own}) /\ \A j \in S \ {own} : f[j] \in Int
      BY <1>5, FS_Subset
    <2> QED BY <2>1, SumInteger
  <1>13. credits[u] \in Int \cup {NoEntry} /\ credits \in [Users -> Int \cup {NoEntry}]
    BY DEF TypeOK
  <1>14. Entry(u) = (IF credits[u] = NoEntry THEN 0 ELSE credits[u]) /\ Entry(u) \in Int
    BY <1>13, CreditAssumption DEF Entry
  <1> HIDE DEF kb, v, at
  <1>15. Entry(u)' = Entry(u) + (IF u = v /\ s = "done" THEN kb ELSE 0)
         /\ (credits[u] # NoEntry => credits'[u] # NoEntry)
    <2>1. CASE u = v /\ s = "done"
      <3>1. credits'[u] = IF credits[u] = NoEntry THEN kb ELSE credits[u] + kb
        BY <1>2, <1>13, <2>1
      <3>2. credits'[u] \in Int
        BY <1>1, <1>13, <3>1
      <3>3. Entry(u)' = credits'[u] /\ credits'[u] # NoEntry
        BY <3>2, CreditAssumption DEF Entry
      <3> QED BY <1>1, <1>13, <1>14, <2>1, <3>1, <3>3
    <2>2. CASE ~(u = v /\ s = "done")
      <3>1. credits'[u] = credits[u]
        BY <1>1, <1>2, <1>13, <2>2
      <3>2. Entry(u)' = Entry(u)
        BY <3>1 DEF Entry
      <3> QED BY <1>14, <2>2, <3>1, <3>2
    <2> QED BY <2>1, <2>2
  <1>16. Entry(u)' + SumFunctionOnSet(g, T) = Entry(u) + SumFunctionOnSet(f, S)
    <2>1. PICK e \in Int, a \in Int, b \in Int :
            e = Entry(u) /\ a = SumFunctionOnSet(f, S) /\ b = SumFunctionOnSet(f, S \ {own})
      BY <1>5, <1>12, <1>14
    <2>2. CASE u = v /\ s = "done"
      <3>1. Entry(u)' = e + kb /\ SumFunctionOnSet(g, T) = b /\ a = kb + b
        BY <1>9, <1>10, <1>11, <1>15, <2>1, <2>2
      <3> QED BY <1>1, <2>1, <3>1
    <2>3. CASE ~(u = v /\ s = "done")
      <3>1. Entry(u)' = e + 0 /\ SumFunctionOnSet(g, T) = a
        BY <1>9, <1>10, <1>15, <2>1, <2>3
      <3> QED BY <2>1, <3>1
    <2> QED BY <2>2, <2>3
  <1>17. ASSUME NEW d \in Clients, NEW m \in 1 .. MaxTransfers,
                jobs'[d][m].step = "retry", jobs[d][m].step # "retry"
         PROVE  credits[UserOf[d]] # NoEntry
    <2>1. d = c /\ m = n
      BY <1>3, <1>17
    <2> QED BY <1>2, <1>3, <1>17, <2>1 DEF v
  <1> QED BY <1>4, <1>15, <1>16, <1>17

\* LedgerInv is kept by every step.
LEMMA LedgerStep ==
  ASSUME TransferInv, LedgerInv, [Next]_vars, TransferInv'
  PROVE  LedgerInv'
PROOF
  <1>t. TypeOK /\ TypeOK' /\ RecordInv /\ RecordInv' /\ LabelInv
    BY DEF TransferInv, SlotsSound
  <1> DEFINE Due(u) == SumFunctionOnSet(KBytesOf, Pending(u))
  <1>l. \A u \in Users : Entry(u) + Due(u) = ledger[u]
    BY DEF LedgerInv, LedgerBalanced, Entry, KBytesOf
  <1>i. \A u \in Users : Entry(u) \in Int /\ Due(u) \in Int /\ ledger[u] \in Int
    BY <1>t, PendingFinite DEF Entry, TypeOK
  <1>u. \A c \in Clients : UserOf[c] \in Users
    BY UserAssumption
  <1>1. LedgerBalanced' /\ \A u \in Users : credits[u] # NoEntry => credits'[u] # NoEntry
    <2>0. SUFFICES ASSUME NEW u \in Users
                   PROVE  /\ Entry(u)' + Due(u)' = ledger'[u]
                          /\ credits[u] # NoEntry => credits'[u] # NoEntry
      BY DEF LedgerBalanced, Entry, KBytesOf
    <2>1. CASE UNCHANGED <<credits, jobs, ledger>>
      <3>1. Entry(u)' = Entry(u) /\ Due(u)' = Due(u)
        BY <2>1 DEF Entry, KBytesOf, Pending
      <3> QED BY <1>l, <2>1, <3>1
    <2>2. ASSUME NEW c \in Clients, NEW kb \in Nat, Starts(c, kb)
          PROVE  /\ Entry(u)' + Due(u)' = ledger'[u]
                 /\ credits[u] # NoEntry => credits'[u] # NoEntry
      <3>1. Entry(u)' = Entry(u) /\ credits' = credits
        BY <2>2 DEF Entry, Starts
      <3>2. Due(u)' = Due(u) + IF u = UserOf[c] THEN kb ELSE 0
        BY <1>t, <2>2, StartsLedger
      <3>3. ledger' = [ledger EXCEPT ![UserOf[c]] = @ + kb] /\ ledger \in [Users -> Int]
        BY <1>t, <2>2 DEF Starts, IncrCredits, TypeOK
      <3>4. ledger'[u] = ledger[u] + IF u = UserOf[c] THEN kb ELSE 0
        BY <3>3
      <3> HIDE DEF Due
      <3>5. Entry(u) + Due(u) = ledger[u] /\ Entry(u) \in Int /\ Due(u) \in Int
        BY <1>l, <1>i
      <3>6. Entry(u)' + Due(u)' = ledger'[u]
        BY <3>1, <3>2, <3>4, <3>5
      <3> QED BY <3>1, <3>6
    <2>3. ASSUME NEW c \in Clients, NEW kb \in Nat, Takes(c, kb)
          PROVE  /\ Entry(u)' + Due(u)' = ledger'[u]
                 /\ credits[u] # NoEntry => credits'[u] # NoEntry
      <3>1. Due(u)' = Due(u)
        BY <2>3 DEF Takes, KBytesOf, Pending
      <3>2. /\ credits' = [credits EXCEPT ![UserOf[c]] = IF kb = 0 THEN @ ELSE @ - kb]
            /\ ledger' = [ledger EXCEPT ![UserOf[c]] = @ - kb]
            /\ kb = 0 \/ credits[UserOf[c]] # NoEntry
        BY <2>3 DEF Takes, DecrCredits, CanDecr
      <3>3. credits \in [Users -> Int \cup {NoEntry}] /\ ledger \in [Users -> Int]
        BY <1>t DEF TypeOK
      <3>4. ledger'[u] = ledger[u] - IF u = UserOf[c] THEN kb ELSE 0
        BY <3>2, <3>3
      <3>5. /\ Entry(u)' = Entry(u) - IF u = UserOf[c] THEN kb ELSE 0
            /\ credits[u] # NoEntry => credits'[u] # NoEntry
        <4>1. CASE u = UserOf[c] /\ kb # 0
          <5>1. credits[u] \in Int /\ credits'[u] = credits[u] - kb
            BY <1>u, <3>2, <3>3, <4>1
          <5>2. credits'[u] \in Int
            BY <5>1
          <5>3. credits[u] # NoEntry /\ credits'[u] # NoEntry
            BY <5>1, <5>2, CreditAssumption
          <5> QED BY <4>1, <5>1, <5>3 DEF Entry
        <4>2. CASE u # UserOf[c] \/ kb = 0
          <5>1. credits'[u] = credits[u]
            BY <3>2, <3>3, <4>2
          <5>2. Entry(u)' = Entry(u)
            BY <5>1 DEF Entry
          <5> QED BY <1>i, <4>2, <5>1, <5>2
        <4> QED BY <4>1, <4>2
      <3> HIDE DEF Due
      <3>6. Entry(u) + Due(u) = ledger[u] /\ Entry(u) \in Int /\ Due(u) \in Int
        BY <1>l, <1>i
      <3> QED BY <3>1, <3>4, <3>5, <3>6
    <2>4. ASSUME NEW c \in Clients, NEW n \in 1 .. MaxTransfers, DoIncrement(c, n)
          PROVE  /\ Entry(u)' + Due(u)' = ledger'[u]
                 /\ credits[u] # NoEntry => credits'[u] # NoEntry
      <3>1. ledger' = ledger
        BY <2>4, Zenon DEF DoIncrement
      <3>2. /\ Entry(u)' + Due(u)' = Entry(u) + Due(u)
            /\ credits[u] # NoEntry => credits'[u] # NoEntry
        BY <1>t, <2>4, IncrementLedger
      <3> HIDE DEF Due
      <3> QED BY <1>l, <3>1, <3>2
    <2> QED BY <2>1, <2>2, <2>3, <2>4, CreditCases
  <1>2. ASSUME NEW c \in Clients, NEW n \in 1 .. MaxTransfers, jobs'[c][n].step = "retry"
        PROVE  credits'[UserOf[c]] # NoEntry
    <2>0. jobs[c][n].step = "retry" => credits[UserOf[c]] # NoEntry
      BY DEF LedgerInv
    <2>1. CASE jobs[c][n].step = "retry"
      BY <1>1, <1>u, <2>0, <2>1
    <2>2. CASE jobs[c][n].step # "retry"
      <3>1. jobs' # jobs
        BY <1>2, <2>2
      <3>2. ASSUME NEW d \in Clients, NEW kb \in Nat, Starts(d, kb) PROVE FALSE
        <4>1. num[d] \in 0 .. MaxTransfers /\ num[d] > 0
          BY <1>t, <3>2 DEF Starts, TypeOK
        <4>2. /\ jobs'[d][num[d]].step = "update"
              /\ ~(d = c /\ n = num[d]) => jobs'[c][n] = jobs[c][n]
          BY <1>t, <3>2, <4>1, IncrJobs DEF Starts
        <4> QED BY <1>2, <2>2, <4>2
      <3>3. ASSUME NEW d \in Clients, NEW m \in 1 .. MaxTransfers, DoIncrement(d, m)
            PROVE  credits[UserOf[c]] # NoEntry
        BY <1>2, <1>t, <1>u, <2>2, <3>3, IncrementLedger
      <3>4. credits[UserOf[c]] # NoEntry
        BY <3>1, <3>2, <3>3, CreditCases DEF Takes
      <3> QED BY <1>1, <1>u, <3>4
    <2> QED BY <2>1, <2>2
  <1>3. ASSUME NEW c \in Clients, pc'[c] = "guardData", kind'[c] = "RETR" PROVE ~Given(c)'
    <2>0. pc[c] = "guardData" /\ kind[c] = "RETR" => ~Given(c)
      BY DEF LedgerInv
    <2>1. ASSUME pc[c] \in {"charged", "xfer", "closing"} PROVE ~Given(c)
      BY <1>t, <2>1 DEF RecordInv, EarlyPcs
    <2> USE DEF creditVars, handlerVars, Goto, Leave, Throw
    <2>t. pc \in [Clients -> Pcs] /\ kind \in [Clients -> AllKinds]
          /\ out \in [Clients -> {"idle", "ended"}]
      BY <1>t DEF TypeOK
    <2>2. ASSUME NEW d \in Clients,
                 \/ Rest(d) \/ RetrOpenFile(d) \/ RetrOpen(d) \/ RetrCharge(d)
                 \/ RetrChunk(d) \/ RetrClose(d) \/ XferEnd(d) \/ HandleControl(d) \/ CountGuard(d)
                 \/ StorCreate(d) \/ StorOpen(d) \/ StorChunk(d) \/ StorClose(d) \/ StorGuard(d)
                 \/ FileGuard(d)
          PROVE  /\ UNCHANGED <<jobs, num>>
                 /\ pc[c] \in {"charged", "xfer", "closing"}
                    \/ (pc[c] = "guardData" /\ kind[c] = "RETR")
      <3>1. ASSUME Rest(d) \/ RetrOpenFile(d) \/ RetrCharge(d) \/ RetrChunk(d) \/ FileGuard(d)
                   \/ StorCreate(d) \/ StorChunk(d) \/ StorGuard(d) \/ CountGuard(d)
            PROVE  UNCHANGED <<jobs, num>> /\ pc[c] = "guardData" /\ kind[c] = "RETR"
        BY <1>3, <2>t, <3>1 DEF Rest, RetrOpenFile, RetrCharge, RetrChunk, FileGuard, StorCreate,
           StorChunk, StorGuard, CountGuard
      <3>2. ASSUME RetrOpen(d) \/ RetrClose(d) \/ XferEnd(d) \/ HandleControl(d)
            PROVE  /\ UNCHANGED <<jobs, num>>
                   /\ pc[c] \in {"charged", "xfer", "closing"}
                      \/ (pc[c] = "guardData" /\ kind[c] = "RETR")
        BY <1>3, <2>t, <3>2 DEF RetrOpen, RetrClose, XferEnd, HandleControl
      <3>3. ASSUME StorOpen(d) \/ StorClose(d)
            PROVE  UNCHANGED <<jobs, num>> /\ pc[c] = "guardData" /\ kind[c] = "RETR"
        BY <1>3, <1>t, <2>t, <3>3 DEF StorOpen, StorClose, LabelInv
      <3> QED BY <2>2, <3>1, <3>2, <3>3
    <2>3. ASSUME UNCHANGED <<jobs, num>> PROVE Given(c)' = Given(c)
      BY <2>3 DEF Given
    <2>4. ASSUME NEW d \in Clients, NEW k \in AllKinds, Start(d, k) PROVE ~Given(c)'
      <3>1. c # d /\ pc[c] = "guardData" /\ kind[c] = "RETR" /\ jobs' = jobs /\ num'[c] = num[c]
        BY <1>3, <1>t, <2>t, <2>4, StartBound DEF Start, TypeOK
      <3> QED BY <2>0, <3>1 DEF Given
    <2>5. ASSUME NEW d \in Clients, RetrGuard(d) \/ StorCheck(d) PROVE ~Given(c)'
      <3>1. c # d /\ pc[c] = "guardData" /\ kind[c] = "RETR" /\ num' = num
        BY <1>3, <1>t, <2>t, <2>5 DEF RetrGuard, StorCheck, LabelInv
      <3>2. pc'[d] # pc[d]
        BY <2>t, <2>5 DEF RetrGuard, StorCheck
      <3>3. CASE jobs' = jobs
        BY <2>0, <2>3, <3>1, <3>3
      <3>4. CASE jobs' # jobs
        <4>1. PICK kb \in Nat : IncrCredits(d, kb) /\ num[d] > 0
          <5>1. PICK e \in Clients, kb \in Nat : Starts(e, kb)
            <6>1. ~\E e \in Clients, n \in 1 .. MaxTransfers : DoIncrement(e, n)
              BY <3>2, Zenon DEF DoIncrement
            <6> QED BY <3>4, <6>1, CreditCases DEF Takes
          <5>2. num[e] \in 0 .. MaxTransfers /\ num[e] > 0 /\ ~Given(e) /\ IncrCredits(e, kb)
            BY <1>t, <5>1 DEF Starts, TypeOK
          <5>3. /\ jobs'[e][num[e]].step = "update"
                /\ \A i \in Clients : \A m \in 1 .. MaxTransfers :
                     ~(i = e /\ m = num[e]) => jobs'[i][m] = jobs[i][m]
            BY <1>t, <5>2, IncrJobs
          <5>4. e = d
            <6>1. CASE RetrGuard(d)
              <7>1. \A i \in Clients \ {d} : jobs'[i] = jobs[i]
                BY <1>t, <6>1 DEF RetrGuard, IncrCredits, TypeOK
              <7> QED BY <5>2, <5>3, <7>1 DEF Given
            <6>2. CASE StorCheck(d)
              <7>1. \A i \in Clients \ {d} : jobs'[i] = jobs[i]
                BY <1>t, <6>2, ZenonT(30) DEF StorCheck, IncrCredits, TypeOK
              <7> QED BY <5>2, <5>3, <7>1 DEF Given
            <6> QED BY <2>5, <6>1, <6>2
          <5> QED BY <5>2, <5>4
        <4>2. Given(c)' = Given(c)
          BY <1>t, <3>1, <4>1, IncrGiven
        <4> QED BY <2>0, <3>1, <4>2
      <3> QED BY <3>3, <3>4
    <2>6. ASSUME NEW d \in Clients, NEW n \in 1 .. MaxTransfers, DoIncrement(d, n)
          PROVE  ~Given(c)'
      <3>1. UNCHANGED <<pc, kind, num>>
        BY <2>6, Zenon DEF DoIncrement
      <3>2. \A m \in 1 .. MaxTransfers : jobs'[c][m].step = "none" <=> jobs[c][m].step = "none"
        BY <1>t, <2>6, IncrementStep
      <3>3. num[c] \in 0 .. MaxTransfers
        BY <1>t DEF TypeOK
      <3> QED BY <1>3, <2>0, <3>1, <3>2, <3>3, TransferBounds DEF Given
    <2>7. CASE UNCHANGED vars
      BY <1>3, <2>0, <2>3, <2>7 DEF vars
    <2>8. ASSUME NEW d \in Clients,
                 \/ Rest(d) \/ RetrOpenFile(d) \/ RetrOpen(d) \/ RetrCharge(d)
                 \/ RetrChunk(d) \/ RetrClose(d) \/ XferEnd(d) \/ HandleControl(d) \/ CountGuard(d)
                 \/ StorCreate(d) \/ StorOpen(d) \/ StorChunk(d) \/ StorClose(d) \/ StorGuard(d)
                 \/ FileGuard(d)
          PROVE  ~Given(c)'
      BY <2>0, <2>1, <2>2, <2>3, <2>8
    <2> QED BY <2>4, <2>5, <2>6, <2>7, <2>8 DEF Next, RetrStart, StorStart, Retr, Stor, AllKinds
  <1> QED BY <1>1, <1>2, <1>3 DEF LedgerInv

\* No increment and no decrement of credits is lost or applied twice, in whatever order
\* the asynchronous increments reach the database (User::IncrCredits).
THEOREM CreditsBalance == Spec => []LedgerBalanced
PROOF
  <1>1. Init => LedgerInv
    <2> SUFFICES ASSUME Init PROVE LedgerInv
      OBVIOUS
    <2>1. \A c \in Clients : \A n \in 1 .. MaxTransfers : jobs[c][n].step = "none"
      BY DEF Init, Job
    <2>2. \A u \in Users : Pending(u) = {}
      <3> SUFFICES ASSUME NEW u \in Users, NEW j \in Pending(u) PROVE FALSE
        OBVIOUS
      <3>1. /\ j[1] \in Clients /\ j[2] \in 1 .. MaxTransfers
            /\ jobs[j[1]][j[2]].step \in {"update", "insert", "retry"}
        BY DEF Pending
      <3> QED BY <2>1, <3>1
    <2>3. \A f : SumFunctionOnSet(f, {}) = 0
      BY SumFirst, FS_EmptySet
    <2>4. ASSUME NEW u \in Users
          PROVE  (IF credits[u] = NoEntry THEN 0 ELSE credits[u]) + 0 = ledger[u]
      BY CreditAssumption DEF Init
    <2>5. LedgerBalanced
      BY <2>2, <2>3, <2>4 DEF LedgerBalanced
    <2> QED BY <2>1, <2>5 DEF LedgerInv, Init
  <1>2. TransferInv /\ LedgerInv /\ [Next]_vars /\ TransferInv' => LedgerInv'
    BY LedgerStep
  <1>3. LedgerInv => LedgerBalanced
    BY DEF LedgerInv
  <1> QED BY <1>1, <1>2, <1>3, TransferInvariance, PTL DEF Spec
=============================================================================
