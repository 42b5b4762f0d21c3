------------------------ MODULE NodeLifecycleProofs -------------------------
(***************************************************************************)
(* Proofs about the life of a node, for any world size, any rank ids and    *)
(* any number of hosts, endpoints and peers: build accepts exactly the      *)
(* rankings, endpoints end up where they belong, the barrier is called on   *)
(* its contract and stays failed, no peer writes to freed memory and        *)
(* nothing is left at the device.                                           *)
(***************************************************************************)
EXTENDS NodeLifecycle, Integers, FunctionTheorems, FiniteSetTheorems, NaturalsInduction,
        WellFoundedInduction, TLAPS

-----------------------------------------------------------------------------
(* Facts about numbers and finite sets.                                    *)

\* A set of natural numbers that is not empty has a least element.
LEMMA LeastOne ==
  ASSUME NEW T \in SUBSET Nat, T # {}
  PROVE  \E n \in T : \A k \in T : n <= k
<1> DEFINE R == OpToRel(<, Nat)
<1>1. \E n \in T : \A k \in T : ~ (<<k, n>> \in R)
  BY NatLessThanWellFounded, WFMin
<1>2. \A k, n \in Nat : k < n => <<k, n>> \in R
  BY DEF OpToRel
<1> HIDE DEF R
<1>3. PICK n \in T : \A k \in T : ~ (<<k, n>> \in R)
  BY <1>1
<1>4. \A k \in T : ~ (k < n)
  BY <1>2, <1>3
<1>5. \A k \in T : n <= k
  BY <1>4
<1> QED
  BY <1>3, <1>5

\* f takes all the ranks of a world of m on 1..n; it takes none of them twice.
Onto(f, n, m) ==
  f \in [1..n -> 0..(m - 1)] /\ \A r \in 0..(m - 1) : \E k \in 1..n : f[k] = r
NoneTwice(f, n) == \A k, l \in 1..n : f[k] = f[l] => k = l

\* All the ranks in n places: none of them twice exactly when there are n ranks.
LEMMA OntoRanks ==
  ASSUME NEW n \in Nat, NEW m \in Nat, NEW f, Onto(f, n, m)
  PROVE  (n = m) <=> NoneTwice(f, n)
<1>1. f \in Surjection(1..n, 0..(m - 1))
  BY DEF Onto, Surjection
<1>2. IsFiniteSet(1..n) /\ Cardinality(1..n) = n
  BY FS_Interval
<1>3. Cardinality(0..(m - 1)) = m
  BY FS_Interval
<1>4. Cardinality(0..(m - 1)) = Cardinality(1..n) <=> f \in Injection(1..n, 0..(m - 1))
  BY <1>1, <1>2, FS_Surjection, Zenon
<1>5. f \in Injection(1..n, 0..(m - 1)) <=> NoneTwice(f, n)
  BY Zenon DEF Injection, IsInjective, NoneTwice, Onto
<1> QED
  BY <1>2, <1>3, <1>4, <1>5

-----------------------------------------------------------------------------
(* sort_by_key.                                                            *)

\* Host i stands before host j in the order of the sort.
Precedes(s, i, j) == s[i] < s[j] \/ (s[i] = s[j] /\ i < j)

\* Hosts take different places, each of them within the list, and in order.
LEMMA PositionOrders ==
  ASSUME NEW s \in Seq(Nat)
  PROVE  /\ \A i \in 1..Len(s) : Position(s, i) \in 1..Len(s)
         /\ \A i, j \in 1..Len(s) : Precedes(s, i, j) => Position(s, i) < Position(s, j)
<1> DEFINE n == Len(s)
<1>1. n \in Nat /\ \A i \in 1..n : s[i] \in Nat
  OBVIOUS
<1> HIDE DEF n
<1>2. IsFiniteSet(1..n) /\ Cardinality(1..n) = n
  BY <1>1, FS_Interval
<1>3. ASSUME NEW i \in 1..n
      PROVE  /\ UpTo(s, i) \in SUBSET (1..n) /\ IsFiniteSet(UpTo(s, i))
             /\ Position(s, i) \in Nat /\ Position(s, i) <= n /\ Position(s, i) # 0
  <2>1. UpTo(s, i) \in SUBSET (1..n) /\ i \in UpTo(s, i)
    BY <1>1 DEF UpTo, n
  <2>2. IsFiniteSet(UpTo(s, i)) /\ Cardinality(UpTo(s, i)) <= n
    BY <2>1, <1>2, FS_Subset
  <2>3. Cardinality(UpTo(s, i)) \in Nat
    BY <2>2, FS_CardinalityType
  <2>4. Cardinality(UpTo(s, i)) # 0
    BY <2>1, <2>2, FS_EmptySet
  <2> QED
    BY <2>1, <2>2, <2>3, <2>4 DEF Position
<1>4. ASSUME NEW i \in 1..n, NEW j \in 1..n, Precedes(s, i, j)
      PROVE  Position(s, i) < Position(s, j)
  <2>1. UpTo(s, i) \in SUBSET UpTo(s, j)
    <3> SUFFICES ASSUME NEW k \in 1..n, s[k] < s[i] \/ (s[k] = s[i] /\ k <= i)
                 PROVE  s[k] < s[j] \/ (s[k] = s[j] /\ k <= j)
      BY DEF UpTo, n
    <3> QED
      BY <1>1, <1>4 DEF Precedes
  <2>2. j \in UpTo(s, j) /\ j \notin UpTo(s, i)
    BY <1>1, <1>4 DEF UpTo, Precedes, n
  <2>3. IsFiniteSet(UpTo(s, j)) /\ IsFiniteSet(UpTo(s, i))
    BY <1>3
  <2>4. /\ Cardinality(UpTo(s, i)) <= Cardinality(UpTo(s, j))
        /\ Cardinality(UpTo(s, j)) = Cardinality(UpTo(s, i)) => UpTo(s, j) = UpTo(s, i)
    BY <2>1, <2>3, FS_Subset
  <2>5. Cardinality(UpTo(s, j)) # Cardinality(UpTo(s, i))
    BY <2>2, <2>4
  <2>6. Cardinality(UpTo(s, i)) \in Nat /\ Cardinality(UpTo(s, j)) \in Nat
    BY <2>3, FS_CardinalityType
  <2> QED
    BY <2>4, <2>5, <2>6 DEF Position
<1> QED
  BY <1>1, <1>3, <1>4 DEF n

\* The host that comes to stand at k.
HostAt(s, k) == CHOOSE i \in 1..Len(s) : Position(s, i) = k

\* Every place is taken by one host.
LEMMA HostAtPlace ==
  ASSUME NEW s \in Seq(Nat)
  PROVE  /\ \A k \in 1..Len(s) : HostAt(s, k) \in 1..Len(s) /\ Position(s, HostAt(s, k)) = k
         /\ \A i \in 1..Len(s) : HostAt(s, Position(s, i)) = i
<1> DEFINE n == Len(s)
           f == [i \in 1..n |-> Position(s, i)]
<1>1. n \in Nat /\ \A i \in 1..n : s[i] \in Nat
  OBVIOUS
<1>2. /\ \A i \in 1..n : Position(s, i) \in 1..n
      /\ \A i, j \in 1..n : Precedes(s, i, j) => Position(s, i) < Position(s, j)
  BY PositionOrders
<1> HIDE DEF n
<1>3. \A i, j \in 1..n : Position(s, i) = Position(s, j) => i = j
  <2> SUFFICES ASSUME NEW i \in 1..n, NEW j \in 1..n, Position(s, i) = Position(s, j), i # j
               PROVE  FALSE
    OBVIOUS
  <2>1. Precedes(s, i, j) \/ Precedes(s, j, i)
    BY <1>1 DEF Precedes
  <2>2. Position(s, i) \in Nat
    BY <1>1, <1>2
  <2> QED
    BY <1>2, <2>1, <2>2
<1>4. f \in [1..n -> 1..n] /\ \A i, j \in 1..n : f[i] = f[j] => i = j
  BY <1>2, <1>3
<1>5. f \in Injection(1..n, 1..n)
  BY <1>4, Zenon DEF Injection, IsInjective
<1>6. IsFiniteSet(1..n)
  BY <1>1, FS_Interval
<1>7. f \in Surjection(1..n, 1..n)
  BY <1>5, <1>6, FS_Injection, Zenon
<1>8. \A k \in 1..n : \E i \in 1..n : f[i] = k
  BY <1>7 DEF Surjection
<1>9. \A k \in 1..n : \E i \in 1..n : Position(s, i) = k
  BY <1>8
<1>10. \A k \in 1..n : HostAt(s, k) \in 1..n /\ Position(s, HostAt(s, k)) = k
  BY <1>9 DEF HostAt, n
<1>11. \A i \in 1..n : HostAt(s, Position(s, i)) = i
  BY <1>2, <1>3, <1>10
<1> QED
  BY <1>10, <1>11 DEF n

\* The sorted list has the same hosts, each once, in ascending order.
LEMMA ByRankSorts ==
  ASSUME NEW s \in Seq(Nat)
  PROVE  /\ ByRank(s) \in Seq(Nat) /\ Len(ByRank(s)) = Len(s)
         /\ \A k \in 1..Len(s) : HostAt(s, k) \in 1..Len(s) /\ ByRank(s)[k] = s[HostAt(s, k)]
         /\ \A k, l \in 1..Len(s) : HostAt(s, k) = HostAt(s, l) => k = l
         /\ \A i \in 1..Len(s) : \E k \in 1..Len(s) : ByRank(s)[k] = s[i]
         /\ \A k, l \in 1..Len(s) : k < l => ByRank(s)[k] <= ByRank(s)[l]
<1> DEFINE n == Len(s)
           t == [k \in 1..n |-> s[HostAt(s, k)]]
<1>1. n \in Nat /\ \A i \in 1..n : s[i] \in Nat
  OBVIOUS
<1>2. ByRank(s) = t
  BY DEF ByRank, HostAt
<1>3. /\ \A k \in 1..n : HostAt(s, k) \in 1..n /\ Position(s, HostAt(s, k)) = k
      /\ \A i \in 1..n : HostAt(s, Position(s, i)) = i
  BY HostAtPlace
<1>4. /\ \A i \in 1..n : Position(s, i) \in 1..n
      /\ \A i, j \in 1..n : Precedes(s, i, j) => Position(s, i) < Position(s, j)
  BY PositionOrders
<1> HIDE DEF n
<1>5. t \in Seq(Nat) /\ Len(t) = n
  <2>1. t \in [1..n -> Nat]
    BY <1>1, <1>3
  <2> HIDE DEF t
  <2> QED
    BY <1>1, <2>1
<1>6. \A k \in 1..n : t[k] = s[HostAt(s, k)]
  OBVIOUS
<1> HIDE DEF t
<1>7. \A k, l \in 1..n : HostAt(s, k) = HostAt(s, l) => k = l
  BY <1>3
<1>8. \A i \in 1..n : \E k \in 1..n : t[k] = s[i]
  BY <1>3, <1>4, <1>6
<1>9. ASSUME NEW k \in 1..n, NEW l \in 1..n, k < l
      PROVE  t[k] <= t[l]
  <2>1. ~ Precedes(s, HostAt(s, l), HostAt(s, k))
    BY <1>1, <1>3, <1>4, <1>9
  <2>2. ~ (s[HostAt(s, l)] < s[HostAt(s, k)])
    BY <2>1 DEF Precedes
  <2>3. s[HostAt(s, l)] \in Nat /\ s[HostAt(s, k)] \in Nat
    BY <1>1, <1>3
  <2> QED
    BY <1>6, <2>2, <2>3
<1> QED
  BY <1>2, <1>3, <1>5, <1>6, <1>7, <1>8, <1>9 DEF n

-----------------------------------------------------------------------------
(* build.                                                                  *)

\* A list of naturals that is sorted, and whose members are those of the hosts.
Arranged(s, t) ==
  /\ t \in Seq(Nat) /\ Len(t) = Len(s)
  /\ \A k \in 1..Len(s) : \E i \in 1..Len(s) : t[k] = s[i]
  /\ \A i \in 1..Len(s) : \E k \in 1..Len(s) : t[k] = s[i]
  /\ \A k, l \in 1..Len(s) : k < l => t[k] <= t[l]

\* The faults that the loop of build finds at index i of the sorted list.
Faults(t) == {i \in 1..(Len(t) - 1) : t[i + 1] = t[i] \/ t[i + 1] # i}

\* The loop accepts a list without faults, and of another one it names the first fault.
LEMMA FirstFault ==
  ASSUME NEW t \in Seq(Nat)
  PROVE  /\ Faults(t) = {} => first_fault(t) = [kind |-> "Ok"]
         /\ Faults(t) # {} => \E i \in Faults(t) :
              /\ \A j \in Faults(t) : i <= j
              /\ t[i + 1] = t[i] => first_fault(t) = [kind |-> "DuplicatedRank", rank |-> t[i + 1]]
              /\ t[i + 1] # t[i] => first_fault(t) = [kind |-> "NonSequentialRanks", rank |-> i]
<1> DEFINE B == Faults(t)
           c == CHOOSE i \in B : \A j \in B : i <= j
<1>1. first_fault(t) =
        IF B = {} THEN [kind |-> "Ok"]
        ELSE IF t[c + 1] = t[c] THEN [kind |-> "DuplicatedRank", rank |-> t[c + 1]]
        ELSE [kind |-> "NonSequentialRanks", rank |-> c]
  BY DEF first_fault, Faults
<1>2. B \in SUBSET Nat
  BY DEF Faults
<1> HIDE DEF B
<1>3. CASE B = {}
  BY <1>1, <1>3 DEF B
<1>4. CASE B # {}
  <2>1. \E i \in B : \A j \in B : i <= j
    BY <1>2, <1>4, LeastOne
  <2>2. c \in B /\ \A j \in B : c <= j
    BY <2>1
  <2> HIDE DEF c
  <2>3. /\ t[c + 1] = t[c] => first_fault(t) = [kind |-> "DuplicatedRank", rank |-> t[c + 1]]
        /\ t[c + 1] # t[c] => first_fault(t) = [kind |-> "NonSequentialRanks", rank |-> c]
    BY <1>1, <1>4
  <2> QED
    BY <1>4, <2>2, <2>3 DEF B
<1> QED
  BY <1>3, <1>4

Kinds == {"EmptyNetwork", "FirstRankNotZero", "Ok", "DuplicatedRank", "NonSequentialRanks"}

\* What build makes of hosts s whose sorted list is t, in terms of the hosts.
LEMMA ValidatedSorted ==
  ASSUME NEW s \in Seq(Nat), NEW t, Arranged(s, t)
  PROVE  /\ validated(t).kind \in Kinds
         /\ validated(t).kind = "EmptyNetwork" => s = << >>
         /\ validated(t).kind = "FirstRankNotZero" => \A i \in 1..Len(s) : s[i] # 0
         /\ validated(t).kind = "Ok" => s # << >> /\ \A r \in 0..(Len(s) - 1) : t[r + 1] = r
         /\ validated(t).kind = "DuplicatedRank" =>
              \E i \in 1..(Len(s) - 1) : t[i] = t[i + 1] /\ validated(t).rank = t[i]
         /\ validated(t).kind = "NonSequentialRanks" =>
              /\ validated(t).rank \in 1..(Len(s) - 1)
              /\ \A i \in 1..Len(s) : s[i] # validated(t).rank
              /\ \A r \in 0..(validated(t).rank - 1) : t[r + 1] = r
<1> DEFINE n == Len(s)
<1>1. n \in Nat /\ (s = << >> <=> n = 0) /\ \A i \in 1..n : s[i] \in Nat
  OBVIOUS
<1>2. /\ t \in Seq(Nat) /\ Len(t) = n
      /\ \A k \in 1..n : \E i \in 1..n : t[k] = s[i]
      /\ \A i \in 1..n : \E k \in 1..n : t[k] = s[i]
      /\ \A k, l \in 1..n : k < l => t[k] <= t[l]
  BY DEF Arranged
<1> HIDE DEF n
<1>3. (t = << >> <=> n = 0) /\ \A k \in 1..n : t[k] \in Nat
  <2>1. t \in Seq(Nat) /\ Len(t) = n
    BY <1>2
  <2> QED
    BY <2>1
<1>4. CASE n = 0
  <2>1. validated(t) = [kind |-> "EmptyNetwork"]
    BY <1>3, <1>4 DEF validated
  <2> QED
    BY <1>1, <1>4, <2>1 DEF Kinds
<1>5. CASE n # 0 /\ t[1] # 0
  <2>1. validated(t) = [kind |-> "FirstRankNotZero"]
    BY <1>3, <1>5 DEF validated
  <2>2. ASSUME NEW i \in 1..n PROVE s[i] # 0
    <3>1. PICK k \in 1..n : t[k] = s[i]
      BY <1>2
    <3>2. k = 1 \/ t[1] <= t[k]
      BY <1>1, <1>2, <1>5
    <3>3. t[1] \in Nat /\ t[k] \in Nat
      BY <1>1, <1>3, <1>5
    <3> QED
      BY <1>5, <3>1, <3>2, <3>3
  <2> QED
    BY <2>1, <2>2 DEF Kinds, n
<1>6. CASE n # 0 /\ t[1] = 0
  <2>1. validated(t) = first_fault(t)
    BY <1>3, <1>6 DEF validated
  <2>2. Faults(t) = {i \in 1..(n - 1) : t[i + 1] = t[i] \/ t[i + 1] # i}
    BY <1>2 DEF Faults
  <2>3. CASE Faults(t) = {}
    <3>1. validated(t) = [kind |-> "Ok"]
      BY <1>2, <2>1, <2>3, FirstFault
    <3>2. \A i \in 1..(n - 1) : t[i + 1] = i
      BY <2>2, <2>3
    <3>3. ASSUME NEW r \in 0..(n - 1) PROVE t[r + 1] = r
      <4>1. CASE r = 0
        BY <1>6, <4>1
      <4>2. CASE r # 0
        BY <1>1, <3>2, <4>2
      <4> QED
        BY <4>1, <4>2
    <3> QED
      BY <1>1, <1>6, <3>1, <3>3 DEF Kinds, n
  <2>4. CASE Faults(t) # {}
    <3>1. PICK i \in Faults(t) :
            /\ \A j \in Faults(t) : i <= j
            /\ t[i + 1] = t[i] => first_fault(t) = [kind |-> "DuplicatedRank", rank |-> t[i + 1]]
            /\ t[i + 1] # t[i] => first_fault(t) = [kind |-> "NonSequentialRanks", rank |-> i]
      BY <1>2, <2>4, FirstFault
    <3>2. i \in 1..(n - 1) /\ (t[i + 1] = t[i] \/ t[i + 1] # i)
      BY <2>2
    <3>3. ASSUME NEW j \in 1..(n - 1), j < i PROVE t[j + 1] = j
      BY <1>1, <2>2, <3>1, <3>2, <3>3
    <3>4. ASSUME NEW r \in 0..(i - 1) PROVE t[r + 1] = r
      <4>1. CASE r = 0
        BY <1>6, <4>1
      <4>2. CASE r # 0
        BY <1>1, <3>2, <3>3, <4>2
      <4> QED
        BY <4>1, <4>2
    <3>5. CASE t[i + 1] = t[i]
      <4>1. validated(t) = [kind |-> "DuplicatedRank", rank |-> t[i + 1]]
        BY <2>1, <3>1, <3>5
      <4> QED
        BY <3>2, <3>5, <4>1 DEF Kinds, n
    <3>6. CASE t[i + 1] # t[i]
      <4>1. validated(t) = [kind |-> "NonSequentialRanks", rank |-> i]
        BY <2>1, <3>1, <3>6
      <4>2. i \in Nat /\ i \in 1..n /\ i + 1 \in 1..n /\ t[i] \in Nat /\ t[i + 1] \in Nat
        BY <1>1, <1>3, <3>2
      <4>3. t[i] = i - 1
        BY <3>4, <4>2
      <4>4. t[i] <= t[i + 1]
        BY <1>2, <4>2
      <4>5. t[i + 1] > i
        BY <3>2, <3>6, <4>2, <4>3, <4>4
      <4>6. ASSUME NEW k \in 1..n PROVE t[k] # i
        <5>1. CASE k <= i
          <6>1. k - 1 \in 0..(i - 1) /\ (k - 1) + 1 = k
            BY <1>1, <4>2, <5>1
          <6>2. t[k] = k - 1
            BY <3>4, <6>1
          <6> QED
            BY <4>2, <5>1, <6>2
        <5>2. CASE k = i + 1
          BY <4>2, <4>5, <5>2
        <5>3. CASE k > i + 1
          <6>1. t[i + 1] <= t[k] /\ t[k] \in Nat
            BY <1>2, <1>3, <4>2, <5>3
          <6> QED
            BY <4>2, <4>5, <6>1
        <5> QED
          BY <1>1, <4>2, <5>1, <5>2, <5>3
      <4>7. ASSUME NEW j \in 1..n PROVE s[j] # i
        <5>1. PICK k \in 1..n : t[k] = s[j]
          BY <1>2
        <5> QED
          BY <4>6, <5>1
      <4> QED
        BY <3>2, <3>4, <4>1, <4>7 DEF Kinds, n
    <3> QED
      BY <3>5, <3>6
  <2> QED
    BY <2>3, <2>4
<1> QED
  BY <1>4, <1>5, <1>6

\* A list of hosts that names each rank once is accepted.
LEMMA RankingAccepted ==
  ASSUME NEW s \in Seq(Nat), NEW t, Arranged(s, t), s # << >>,
         {s[k] : k \in 1..Len(s)} = 0..(Len(s) - 1)
  PROVE  validated(t).kind = "Ok"
<1> DEFINE n == Len(s)
           f == [k \in 1..n |-> t[k]]
<1>1. n \in Nat /\ n # 0
  OBVIOUS
<1>2. \A i \in 1..n : s[i] \in 0..(n - 1)
  OBVIOUS
<1>3. \A r \in 0..(n - 1) : \E i \in 1..n : s[i] = r
  OBVIOUS
<1>4. /\ validated(t).kind \in Kinds
      /\ validated(t).kind = "EmptyNetwork" => s = << >>
      /\ validated(t).kind = "FirstRankNotZero" => \A i \in 1..n : s[i] # 0
      /\ validated(t).kind = "DuplicatedRank" => \E i \in 1..(n - 1) : t[i] = t[i + 1]
      /\ validated(t).kind = "NonSequentialRanks" =>
           /\ validated(t).rank \in 1..(n - 1)
           /\ \A i \in 1..n : s[i] # validated(t).rank
  BY ValidatedSorted
<1>5. /\ \A k \in 1..n : \E i \in 1..n : t[k] = s[i]
      /\ \A i \in 1..n : \E k \in 1..n : t[k] = s[i]
  BY DEF Arranged
<1> HIDE DEF n
<1>6. \A k \in 1..n : f[k] = t[k]
  OBVIOUS
<1>7. f \in [1..n -> 0..(n - 1)]
  BY <1>2, <1>5
<1> HIDE DEF f
<1>8. ASSUME NEW r \in 0..(n - 1)
      PROVE  \E k \in 1..n : f[k] = r
  <2>1. PICK i \in 1..n : s[i] = r
    BY <1>3
  <2>2. PICK k \in 1..n : t[k] = s[i]
    BY <1>5
  <2> QED
    BY <1>6, <2>1, <2>2
<1>9. \A k, l \in 1..n : f[k] = f[l] => k = l
  <2>1. Onto(f, n, n)
    BY <1>7, <1>8 DEF Onto
  <2>2. NoneTwice(f, n)
    BY <1>1, <2>1, OntoRanks
  <2> QED
    BY <2>2 DEF NoneTwice
<1>10. validated(t).kind # "DuplicatedRank"
  <2> SUFFICES ASSUME NEW i \in 1..(n - 1), t[i] = t[i + 1]
               PROVE  FALSE
    BY <1>4
  <2>1. i \in 1..n /\ i + 1 \in 1..n /\ i # i + 1
    BY <1>1
  <2> QED
    BY <1>6, <1>9, <2>1
<1>11. validated(t).kind # "NonSequentialRanks"
  <2> SUFFICES ASSUME validated(t).rank \in 1..(n - 1), \A i \in 1..n : s[i] # validated(t).rank
               PROVE  FALSE
    BY <1>4
  <2>1. validated(t).rank \in 0..(n - 1)
    BY <1>1
  <2> QED
    BY <1>3, <2>1
<1>12. validated(t).kind # "FirstRankNotZero"
  <2>1. 0 \in 0..(n - 1)
    BY <1>1
  <2> QED
    BY <1>3, <1>4, <2>1
<1> QED
  BY <1>4, <1>10, <1>11, <1>12 DEF Kinds

\* A set of hosts in which there are two different ones has more than one element.
LEMMA TwoAreCounted ==
  ASSUME NEW n \in Nat, NEW D \in SUBSET (1..n), NEW a \in D, NEW b \in D, a # b
  PROVE  Cardinality(D) > 1
<1>1. IsFiniteSet(1..n)
  BY FS_Interval
<1>2. IsFiniteSet(D)
  BY <1>1, FS_Subset
<1>3. Cardinality(D) \in Nat
  BY <1>2, FS_CardinalityType
<1>4. Cardinality(D) # 0
  BY <1>2, FS_EmptySet
<1>5. Cardinality(D) # 1
  <2> SUFFICES ASSUME Cardinality(D) = 1 PROVE FALSE
    OBVIOUS
  <2>1. PICK x : D = {x}
    BY <1>2, FS_Singleton
  <2> QED
    BY <2>1
<1> QED
  BY <1>3, <1>4, <1>5

\* What is built is what the property asks for.
LEMMA BuildIsExact ==
  ASSUME hosts \in Seq(Nat), build
  PROVE  network' \in Seq(Nat) /\ BuildsExactlyRankings'
<1> DEFINE s == hosts
           t == ByRank(hosts)
           n == Len(hosts)
           v == validated(t)
<1>1. hosts' = s /\ outcome' = v /\ network' = IF v.kind = "Ok" THEN t ELSE << >>
  BY DEF build
<1>2. n \in Nat /\ (s = << >> <=> n = 0) /\ (\A i \in 1..n : s[i] \in Nat)
  OBVIOUS
<1>3. /\ t \in Seq(Nat) /\ Len(t) = n
      /\ \A k \in 1..n : HostAt(s, k) \in 1..n /\ t[k] = s[HostAt(s, k)]
      /\ \A k, l \in 1..n : HostAt(s, k) = HostAt(s, l) => k = l
      /\ \A i \in 1..n : \E k \in 1..n : t[k] = s[i]
      /\ \A k, l \in 1..n : k < l => t[k] <= t[l]
  BY ByRankSorts
<1> HIDE DEF n, t
<1>4. Arranged(s, t)
  BY <1>3 DEF Arranged, n
<1>5. /\ v.kind \in Kinds
      /\ v.kind = "EmptyNetwork" => s = << >>
      /\ v.kind = "FirstRankNotZero" => \A i \in 1..n : s[i] # 0
      /\ v.kind = "Ok" => s # << >> /\ \A r \in 0..(n - 1) : t[r + 1] = r
      /\ v.kind = "DuplicatedRank" => \E i \in 1..(n - 1) : t[i] = t[i + 1] /\ v.rank = t[i]
      /\ v.kind = "NonSequentialRanks" =>
           /\ v.rank \in 1..(n - 1)
           /\ \A i \in 1..n : s[i] # v.rank
           /\ \A r \in 0..(v.rank - 1) : t[r + 1] = r
  BY <1>4, ValidatedSorted DEF n
<1> DEFINE G == {s[k] : k \in 1..n}
<1>6. s # << >> /\ G = 0..(n - 1) => v.kind = "Ok"
  BY <1>4, RankingAccepted DEF n
<1> HIDE DEF v
<1>7. ASSUME NEW m \in 0..n, \A r \in 0..(m - 1) : t[r + 1] = r
      PROVE  0..(m - 1) \subseteq G
  <2> SUFFICES ASSUME NEW r \in 0..(m - 1) PROVE \E k \in 1..n : s[k] = r
    OBVIOUS
  <2>1. r + 1 \in 1..n /\ t[r + 1] = r
    BY <1>2, <1>7
  <2>2. HostAt(s, r + 1) \in 1..n /\ t[r + 1] = s[HostAt(s, r + 1)]
    BY <1>3, <2>1
  <2> QED
    BY <2>1, <2>2
<1>8. v.kind = "Ok" => G = 0..(n - 1)
  <2> SUFFICES ASSUME v.kind = "Ok" PROVE G = 0..(n - 1)
    OBVIOUS
  <2>1. \A r \in 0..(n - 1) : t[r + 1] = r
    BY <1>5
  <2>2. 0..(n - 1) \subseteq G
    <3>1. n \in 0..n
      BY <1>2
    <3> HIDE DEF G
    <3> QED
      BY <1>7, <2>1, <3>1
  <2>3. ASSUME NEW i \in 1..n PROVE s[i] \in 0..(n - 1)
    <3>1. PICK k \in 1..n : t[k] = s[i]
      BY <1>3
    <3>2. k - 1 \in 0..(n - 1) /\ (k - 1) + 1 = k
      BY <1>2
    <3>3. t[k] = k - 1
      BY <2>1, <3>2
    <3> QED
      BY <3>1, <3>2, <3>3
  <2> QED
    BY <2>2, <2>3
<1>9. v.kind = "DuplicatedRank" => Cardinality({k \in 1..n : s[k] = v.rank}) > 1
  <2> SUFFICES ASSUME NEW i \in 1..(n - 1), t[i] = t[i + 1], v.rank = t[i]
               PROVE  Cardinality({k \in 1..n : s[k] = v.rank}) > 1
    BY <1>5
  <2>1. i \in 1..n /\ i + 1 \in 1..n /\ i # i + 1
    BY <1>2
  <2>2. /\ HostAt(s, i) \in 1..n /\ HostAt(s, i + 1) \in 1..n
        /\ HostAt(s, i) # HostAt(s, i + 1)
        /\ s[HostAt(s, i)] = v.rank /\ s[HostAt(s, i + 1)] = v.rank
    BY <1>3, <2>1
  <2> DEFINE same == {k \in 1..n : s[k] = v.rank}
  <2>3. /\ same \in SUBSET (1..n)
        /\ HostAt(s, i) \in same /\ HostAt(s, i + 1) \in same
    BY <2>2
  <2> HIDE DEF same, v
  <2>4. Cardinality(same) > 1
    BY <1>2, <2>2, <2>3, TwoAreCounted
  <2> QED
    BY <2>4 DEF same
<1>10. v.kind = "NonSequentialRanks" => v.rank \notin G /\ 0..(v.rank - 1) \subseteq G
  <2> SUFFICES ASSUME v.kind = "NonSequentialRanks"
               PROVE  v.rank \notin G /\ 0..(v.rank - 1) \subseteq G
    OBVIOUS
  <2>1. v.rank \in 0..n /\ v.rank \notin G
    BY <1>2, <1>5
  <2>2. \A r \in 0..(v.rank - 1) : t[r + 1] = r
    BY <1>5
  <2> QED
    BY <1>7, <2>1, <2>2
<1>11. Given' = G
  BY <1>1 DEF Given, n
<1> HIDE DEF G
<1>12. v.kind = "FirstRankNotZero" => 0 \notin G
  BY <1>5 DEF G
<1>13. v.kind = "Ok" => Len(network') = n /\ \A r \in 0..(n - 1) : network'[r + 1] = r
  BY <1>1, <1>3, <1>5
<1>14. network' \in Seq(Nat)
  BY <1>1, <1>3
<1>15. BuildsExactlyRankings' <=>
        /\ v.kind # "raw" /\ v.kind # "taken" =>
             (v.kind = "Ok") <=> (s # << >> /\ G = 0..(n - 1))
        /\ v.kind = "Ok" => Len(network') = n /\ \A r \in 0..(n - 1) : network'[r + 1] = r
        /\ v.kind = "EmptyNetwork" => s = << >>
        /\ v.kind = "FirstRankNotZero" => 0 \notin G
        /\ v.kind = "DuplicatedRank" => Cardinality({k \in 1..n : s[k] = v.rank}) > 1
        /\ v.kind = "NonSequentialRanks" => v.rank \notin G /\ 0..(v.rank - 1) \subseteq G
  BY <1>1, <1>11 DEF BuildsExactlyRankings, IsRaw, n
<1> QED
  BY <1>5, <1>6, <1>8, <1>9, <1>10, <1>12, <1>13, <1>14, <1>15

-----------------------------------------------------------------------------
(* The inductive invariant, in four parts about different variables.       *)

\* The network as it is configured.
ConfigInv ==
  /\ hosts \in Seq(Nat) /\ network \in Seq(Nat)
  /\ BuildsExactlyRankings

QpStates == {"none", "reset", "init", "rtr", "rts", "leaked", "destroyed"}
Drops == {"drop_channels", "drop_memory", "drop_mr", "gone"}

\* A queue pair is lost only by a build that fails, and then no barrier is built and no
\* endpoint handed out.
LeakInv ==
  /\ phase # "none" => \A j, k \in Ranks : qp[j] = "leaked" /\ qp[k] = "leaked" => j = k
  /\ phase \notin {"none"} \cup Drops => \A k \in Ranks : qp[k] # "leaked"
  /\ phase = "prepared" => mr # "none"
  /\ handed => mr # "none"
  /\ phase # "none" /\ mr # "none" => \A k \in Ranks : qp[k] # "leaked"

\* What the node has at the device: no barrier memory before its channels exist, memory
\* registered while it is allocated, and what has been dropped by the field dropped next.
DeviceInv ==
  /\ phase # "none" => qp \in [Ranks -> QpStates]
  /\ phase \in {"none", "building"} => memory = "none" /\ mr = "none"
  /\ memory = "allocated" => mr = "registered"
  /\ memory = "freed" => phase \in {"drop_mr", "gone"}
  /\ phase \in {"drop_memory", "drop_mr", "gone"} => \A k \in Ranks : ~Owned(k)
  /\ phase \in {"drop_mr", "gone"} => memory # "allocated"
  /\ phase = "gone" => mr # "registered"
  /\ LeakInv /\ NoStrayWrite

\* The barrier object: an error that may have moved the epochs has poisoned it.
ApiInv ==
  /\ algorithm \in Algorithms /\ poisoned \in BOOLEAN /\ ran \in BOOLEAN
  /\ answer \in RunErrors => poisoned
  /\ poisoned => answer # "Ok"
  /\ RunsOnContract

\* What this node must hold of node r: the queue pair r keeps for it, and the memory of r.
Slot(r) == [qp |-> <<r, rank>>, mr |-> r]

Gathering == {"gathering", "gathered"} \cup GatherErrors

\* Each phase of the node has its states of the setup.
StateInv ==
  /\ phase # "none" => rank \in Ranks
  /\ phase \in {"none", "building"} \cup Drops => state = "idle"
  /\ phase = "prepared" => state \in {"idle"} \cup Gathering
  /\ phase = "connecting" => state = "handshake"
  /\ phase = "running" => state = "connected"

\* The endpoints taken so far are of different ranks, and each slot holds what its rank
\* has for this node.
GatherInv ==
  state \in Gathering =>
    /\ input \in Seq(LocalEndpoints) /\ pos \in 0..Len(input)
    /\ \A k \in 1..pos :
         /\ input[k].rank \in Ranks /\ Len(input[k].endpoints) > rank
         /\ tmp[input[k].rank] = Slot(input[k].rank)
    /\ \A k, l \in 1..pos : input[k].rank = input[l].rank => k = l
    /\ \A r \in Ranks : tmp[r] = None \/ \E k \in 1..pos : input[k].rank = r
    /\ DOMAIN tmp = Ranks

\* Once all are gathered every slot is filled, and the channels are connected in turn.
WiringInv ==
  /\ state \in {"gathered", "handshake", "connected"} => \A r \in Ranks : tmp[r] = Slot(r)
  /\ state \notin {"handshake", "connected"} => channels = << >>
  /\ state \in {"handshake", "connected"} =>
       /\ channels \in Seq(Nat \X Nat) /\ Len(channels) <= WorldSize
       /\ \A k \in 1..Len(channels) : channels[k] = <<k - 1, rank>>

SetupInv == StateInv /\ GatherInv /\ WiringInv /\ GathersExactly /\ CrossWired

IInv == ConfigInv /\ DeviceInv /\ ApiInv /\ SetupInv

-----------------------------------------------------------------------------
(* The configuration, and what the node has at the device.                 *)

\* The steps of a node that exists, and those that leave everything alone.
LEMMA StepCases ==
  ASSUME [Next]_vars
  PROVE  \/ configure
         \/ \E r \in Ranks, a \in Algorithms : begin(r, a)
         \/ /\ phase # "none"
            /\ \/ build_barrier \/ build_fails
               \/ \E k \in Ranks : build_channel(k)
               \/ \E k \in Ranks : build_leaks(k)
               \/ hand_out_endpoint \/ gather
               \/ start_handshake \/ handshake_fails \/ handshake_done
               \/ \E k \in Ranks : modify_qp(k)
               \/ drop_node \/ drop_channels_done \/ drop_memory \/ drop_mr
               \/ \E k \in Ranks : drop_qp(k)
               \/ \E k \in Ranks : PeerWrites(k)
         \/ barrier_call
         \/ UNCHANGED vars
  BY Zenon DEF Next, Building, Connecting, Dropping, Gone

\* The world a node lives in does not change.
LEMMA ConfigKept ==
  ASSUME UNCHANGED configVars
  PROVE  /\ hosts' = hosts /\ outcome' = outcome /\ network' = network
         /\ WorldSize' = WorldSize /\ Ranks' = Ranks
         /\ BuildsExactlyRankings' <=> BuildsExactlyRankings
  BY DEF configVars, WorldSize, Ranks, BuildsExactlyRankings, IsRaw, Given

\* The configuration keeps its type and is built exactly, whatever is added and truncated.
LEMMA ConfigStep ==
  ASSUME ConfigInv, [Next]_vars
  PROVE  ConfigInv'
<1> USE DEF ConfigInv
<1>1. CASE configure
  <2>1. ASSUME IsRaw', hosts' \in Seq(Nat) PROVE BuildsExactlyRankings'
    BY <2>1 DEF BuildsExactlyRankings, IsRaw
  <2>2. ASSUME NEW r \in RankIds, add_node(r) PROVE ConfigInv'
    <3>1. hosts' \in Seq(Nat) /\ network' = network /\ outcome' = outcome /\ IsRaw
      BY <2>2, ConfigAssumption DEF add_node
    <3> QED
      BY <2>1, <3>1 DEF IsRaw
  <2>3. ASSUME NEW n \in 0..MaxHosts, truncate(n) PROVE ConfigInv'
    <3>1. hosts' = SubSeq(hosts, 1, IF n < Len(hosts) THEN n ELSE Len(hosts))
          /\ network' = network /\ outcome' = outcome /\ IsRaw
      BY <2>3 DEF truncate
    <3>2. PICK m \in Nat : m <= Len(hosts) /\ hosts' = SubSeq(hosts, 1, m)
      BY <3>1, ConfigAssumption
    <3>3. hosts' \in Seq(Nat)
      BY <3>2
    <3> QED
      BY <2>1, <3>1, <3>3 DEF IsRaw
  <2>4. ASSUME build PROVE ConfigInv'
    <3>1. hosts' = hosts
      BY <2>4 DEF build
    <3> QED
      BY <2>4, <3>1, BuildIsExact
  <2> QED
    BY <1>1, <2>2, <2>3, <2>4 DEF configure, ConfigNext
<1>2. CASE \E r \in Ranks, a \in Algorithms : begin(r, a)
  <2>1. hosts' = << >> /\ outcome' = [kind |-> "taken"] /\ network' = network
    BY <1>2 DEF begin
  <2> QED
    BY <2>1 DEF BuildsExactlyRankings, IsRaw
<1>3. CASE UNCHANGED configVars
  BY <1>3, ConfigKept
<1> QED
  BY <1>1, <1>2, <1>3, StepCases, Zenon
     DEF build_barrier, build_fails, build_channel, build_leaks, hand_out_endpoint, gather,
         start_handshake, handshake_fails, handshake_done, modify_qp, drop_node,
         drop_channels_done, drop_memory, drop_mr, drop_qp, PeerWrites, barrier_call, vars

\* What is at the device, after a step that leaves it alone.
LEMMA DeviceKept ==
  ASSUME DeviceInv, UNCHANGED <<configVars, qp, resVars>>,
         \/ phase' = phase
         \/ /\ phase' \in {"connecting", "running", "drop_channels"}
            /\ phase \notin {"none", "building"} \cup Drops
  PROVE  DeviceInv'
<1>1. /\ Ranks' = Ranks /\ qp' = qp /\ memory' = memory /\ mr' = mr /\ stray' = stray
      /\ handed' = handed
  BY ConfigKept DEF resVars
<1>2. \A k \in Ranks : Owned(k)' <=> Owned(k)
  BY <1>1 DEF Owned
<1>3. LeakInv'
  BY <1>1 DEF DeviceInv, LeakInv, Drops
<1> QED
  BY <1>1, <1>2, <1>3 DEF DeviceInv, NoStrayWrite, Drops

\* The fields of a node are dropped one after another, and memory only when no queue pair
\* is left to write through.
LEMMA DeviceStep ==
  ASSUME ConfigInv, DeviceInv, [Next]_vars
  PROVE  DeviceInv'
<1> USE DEF NoStrayWrite
<1>1. CASE configure
  BY <1>1 DEF configure, resVars, DeviceInv, LeakInv, Drops
<1>2. ASSUME NEW r \in Ranks, NEW a \in Algorithms, begin(r, a)
      PROVE  DeviceInv'
  <2>1. /\ phase = "none" /\ phase' = "building" /\ UNCHANGED <<memory, mr, stray, handed, network>>
        /\ qp' = [k \in Ranks |-> "none"]
    BY <1>2 DEF begin, resVars
  <2>2. Ranks' = Ranks
    BY <2>1 DEF Ranks, WorldSize
  <2> QED
    BY <2>1, <2>2 DEF DeviceInv, LeakInv, QpStates, Drops
<1>3. ASSUME NEW k \in Ranks, build_channel(k), phase # "none"
      PROVE  DeviceInv'
  <2>1. /\ phase = "building" /\ UNCHANGED <<phase, memory, mr, stray, handed>> /\ Ranks' = Ranks
        /\ qp' = [qp EXCEPT ![k] = "reset"]
    BY <1>3, ConfigKept DEF build_channel, NextChannel, resVars
  <2> QED
    BY <2>1 DEF DeviceInv, LeakInv, QpStates, Drops
<1>4. CASE build_barrier
  <2>1. /\ phase = "building" /\ phase' = "prepared" /\ UNCHANGED <<qp, stray, handed>>
        /\ Ranks' = Ranks /\ memory' = "allocated" /\ mr' = "registered"
    BY <1>4, ConfigKept DEF build_barrier
  <2> QED
    BY <2>1 DEF DeviceInv, LeakInv, Drops
<1>5. CASE build_fails
  <2>1. /\ phase = "building" /\ phase' = "drop_channels"
        /\ UNCHANGED <<qp, memory, mr, stray, handed>> /\ Ranks' = Ranks
    BY <1>5, ConfigKept DEF build_fails, resVars
  <2> QED
    BY <2>1 DEF DeviceInv, LeakInv, Drops
<1>5a. ASSUME NEW k \in Ranks, build_leaks(k), phase # "none"
       PROVE  DeviceInv'
  <2>1. /\ phase = "building" /\ phase' = "drop_channels" /\ UNCHANGED <<memory, mr, stray, handed>>
        /\ Ranks' = Ranks /\ qp' = [qp EXCEPT ![k] = "leaked"]
    BY <1>5a, ConfigKept DEF build_leaks, NextChannel, resVars
  <2>2. qp \in [Ranks -> QpStates] /\ \A j \in Ranks : qp[j] # "leaked"
    BY <2>1 DEF DeviceInv, LeakInv, Drops
  <2>3. LeakInv'
    BY <2>1, <2>2 DEF DeviceInv, LeakInv, Drops
  <2> QED
    BY <2>1, <2>2, <2>3 DEF DeviceInv, QpStates
<1>6. CASE hand_out_endpoint
  <2>1. /\ phase = "prepared" /\ UNCHANGED <<phase, qp, memory, mr, stray>> /\ Ranks' = Ranks
    BY <1>6, ConfigKept DEF hand_out_endpoint
  <2> QED
    BY <2>1 DEF DeviceInv, LeakInv, Owned, Drops
<1>7. CASE gather \/ start_handshake \/ handshake_fails \/ handshake_done \/ drop_node
  BY <1>7, DeviceKept
     DEF gather, start_handshake, handshake_fails, handshake_done, drop_node, Drops
<1>8. CASE barrier_call
  BY <1>8, DeviceKept DEF barrier_call
<1>9. ASSUME NEW k \in Ranks, modify_qp(k), phase # "none"
      PROVE  DeviceInv'
  <2>1. /\ phase = "connecting" /\ UNCHANGED <<phase, memory, mr, stray, handed>> /\ Ranks' = Ranks
        /\ qp' = [qp EXCEPT ![k] = NextState(qp[k])] /\ qp[k] \in {"reset", "init", "rtr"}
    BY <1>9, ConfigKept DEF modify_qp, resVars
  <2>2. NextState(qp[k]) \in QpStates \ {"leaked"}
    BY <2>1 DEF NextState, QpStates
  <2>3. LeakInv'
    BY <2>1, <2>2 DEF DeviceInv, LeakInv, Drops
  <2> QED
    BY <2>1, <2>2, <2>3 DEF DeviceInv
<1>10. ASSUME NEW k \in Ranks, drop_qp(k), phase # "none"
       PROVE  DeviceInv'
  <2>1. /\ phase = "drop_channels" /\ UNCHANGED <<phase, memory, mr, stray, handed>>
        /\ Ranks' = Ranks /\ qp' = [qp EXCEPT ![k] = "destroyed"]
    BY <1>10, ConfigKept DEF drop_qp, resVars
  <2>2. qp \in [Ranks -> QpStates]
    BY <2>1 DEF DeviceInv
  <2>3. LeakInv'
    BY <2>1, <2>2 DEF DeviceInv, LeakInv, Drops
  <2>4. qp' \in [Ranks' -> QpStates]
    BY <2>1, <2>2 DEF QpStates
  <2> QED
    BY <2>1, <2>3, <2>4 DEF DeviceInv
<1>11. CASE drop_channels_done
  <2>1. /\ phase = "drop_channels" /\ phase' = "drop_memory"
        /\ UNCHANGED <<qp, memory, mr, stray, handed>> /\ Ranks' = Ranks
        /\ \A k \in Ranks : ~Owned(k)
    BY <1>11, ConfigKept DEF drop_channels_done, resVars
  <2> QED
    BY <2>1 DEF DeviceInv, LeakInv, Owned, Drops
<1>12. CASE drop_memory
  <2>1. /\ phase = "drop_memory" /\ phase' = "drop_mr" /\ UNCHANGED <<qp, mr, stray, handed>>
        /\ Ranks' = Ranks /\ memory' = IF memory = "allocated" THEN "freed" ELSE memory
    BY <1>12, ConfigKept DEF drop_memory
  <2> QED
    BY <2>1 DEF DeviceInv, LeakInv, Owned, Drops
<1>13. CASE drop_mr
  <2>1. /\ phase = "drop_mr" /\ phase' = "gone" /\ UNCHANGED <<qp, memory, stray, handed>>
        /\ Ranks' = Ranks /\ mr' = IF mr = "registered" THEN "deregistered" ELSE mr
    BY <1>13, ConfigKept DEF drop_mr
  <2> QED
    BY <2>1 DEF DeviceInv, LeakInv, Owned, Drops
<1>14. ASSUME NEW k \in Ranks, PeerWrites(k)
       PROVE  DeviceInv'
  <2>1. /\ UNCHANGED <<phase, qp, memory, mr, handed>> /\ Ranks' = Ranks
        /\ stray' = (stray \/ memory = "freed") /\ Owned(k)
    BY <1>14, ConfigKept DEF PeerWrites, Owned
  <2>2. memory # "freed"
    BY <2>1 DEF DeviceInv
  <2>3. ~ stray'
    BY <2>1, <2>2 DEF DeviceInv
  <2>4. LeakInv'
    BY <2>1 DEF DeviceInv, LeakInv
  <2> QED
    BY <2>1, <2>3, <2>4 DEF DeviceInv, Owned
<1>15. CASE UNCHANGED vars
  BY <1>15, DeviceKept DEF vars
<1> QED
  BY <1>1, <1>2, <1>3, <1>4, <1>5, <1>5a, <1>6, <1>7, <1>8, <1>9, <1>10, <1>11, <1>12, <1>13,
     <1>14, <1>15, StepCases, Zenon

-----------------------------------------------------------------------------
(* The barrier object.                                                     *)

\* A list that is sorted and has no equal neighbours is strictly ascending.
LEMMA SortedWithoutDuplicates ==
  ASSUME NEW p \in Seq(Nat), validate_peer_list(p) = "Ok"
  PROVE  \A k, l \in 1..Len(p) : k < l => p[k] < p[l]
<1>1. \A k \in 1..(Len(p) - 1) : p[k] < p[k + 1]
  BY DEF validate_peer_list, is_sorted, has_duplicates
<1> SUFFICES ASSUME NEW k \in 1..Len(p), NEW m \in 1..Len(p), k < m, ~ (p[k] < p[m])
             PROVE  FALSE
  OBVIOUS
<1> DEFINE T == {l \in 1..Len(p) : k < l /\ ~ (p[k] < p[l])}
<1>2. m \in T /\ T \in SUBSET Nat
  OBVIOUS
<1> HIDE DEF T
<1>3. PICK l \in T : \A j \in T : l <= j
  BY <1>2, LeastOne
<1>4. l \in 1..Len(p) /\ k < l /\ ~ (p[k] < p[l])
  BY DEF T
<1>5. l - 1 \in 1..(Len(p) - 1) /\ p[l - 1] < p[l]
  BY <1>1, <1>4
<1>6. k # l - 1
  BY <1>4, <1>5
<1>7. k < l - 1 /\ l - 1 \in 1..Len(p) /\ ~ (l <= l - 1)
  BY <1>4, <1>5, <1>6
<1>8. p[k] < p[l - 1]
  BY <1>3, <1>7 DEF T
<1>9. p[k] \in Nat /\ p[l - 1] \in Nat /\ p[l] \in Nat
  BY <1>4, <1>7, SMTT(30)
<1> QED
  BY <1>4, <1>5, <1>8, <1>9

\* The lists of a call are lists of naturals.
LEMMA PeerListType ==
  ASSUME ConfigInv, NEW p \in PeerLists
  PROVE  p \in Seq(Nat)
<1>1. PICK n \in 0..MaxPeers : p \in [1..n -> 0..WorldSize]
  BY DEF PeerLists
<1>2. n \in Nat /\ WorldSize \in Nat
  BY ApiAssumption DEF ConfigInv, WorldSize
<1>3. 0..WorldSize \subseteq Nat
  BY <1>2
<1>4. p \in [1..n -> Nat]
  BY <1>1, <1>3
<1> QED
  BY <1>2, <1>4

\* A rank that has been found in a list is in it.
LEMMA FoundInGroup ==
  ASSUME ConfigInv, NEW p \in PeerLists, FoundAt(p) # {}
  PROVE  InGroup(p, rank)
<1>1. PICK idx \in 0..(Len(p) - 1) : p[idx + 1] = rank
  BY DEF FoundAt, At
<1>2. p \in Seq(Nat)
  BY PeerListType
<1>3. idx + 1 \in DOMAIN p
  BY <1>2
<1> QED
  BY <1>1, <1>3 DEF InGroup

\* A call of a barrier: one that is poisoned stays so and answers an error without running;
\* one that runs keeps its part of the contract; an answer of run_barrier that is an error poisons.
LEMMA BarrierCall ==
  ASSUME ConfigInv, ApiInv, call_barrier
  PROVE  /\ algorithm' = algorithm /\ poisoned' \in BOOLEAN /\ ran' \in BOOLEAN
         /\ poisoned => poisoned' /\ answer' # "Ok" /\ ~ran'
         /\ answer' \in RunErrors => poisoned'
         /\ poisoned' => answer' # "Ok"
         /\ ran' => /\ entry' = "barrier" =>
                         /\ \A k, l \in 1..Len(peers') : k < l => peers'[k] < peers'[l]
                         /\ InGroup(peers', rank)
                    /\ algorithm' # "Centralized" => InGroup(peers', rank)
<1>1. PICK p \in PeerLists : barrier(p) \/ barrier_unchecked(p)
  BY DEF call_barrier
<1>2. peers' = p /\ algorithm' = algorithm
  BY <1>1 DEF barrier, barrier_unchecked
<1>3. poisoned \in BOOLEAN
  BY DEF ApiInv
<1>4. validate_peer_list(p) \in {"UnorderedPeers", "DuplicatePeers", "Ok"}
  BY DEF validate_peer_list
<1>5. barrier_validation(p) \in ListErrors \cup {"Ok"}
  BY <1>4 DEF barrier_validation, ListErrors
<1>6. barrier_validation(p) = "Ok" =>
        validate_peer_list(p) = "Ok" /\ (algorithm = "Centralized" => InGroup(p, rank))
  BY <1>4 DEF barrier_validation
<1>7. validate_peer_list(p) = "Ok" => \A k, l \in 1..Len(p) : k < l => p[k] < p[l]
  BY PeerListType, SortedWithoutDuplicates
<1>8. CASE unchecked(p) /\ (entry' = "barrier" => barrier_validation(p) = "Ok")
  <2>1. CASE poisoned
    BY <1>2, <1>8, <2>1 DEF unchecked, RunErrors
  <2>2. CASE ~poisoned
    <3>1. PICK ans \in Answers, touched \in BOOLEAN :
            /\ run_barrier(p, ans, touched) /\ answer' = ans /\ ran' = touched
            /\ poisoned' = (ans \notin {"Ok", "Panic"})
      BY <1>8, <2>2 DEF unchecked
    <3>2. touched /\ algorithm # "Centralized" => InGroup(p, rank)
      <4>1. SUFFICES ASSUME touched, algorithm # "Centralized" PROVE FoundAt(p) # {}
        BY FoundInGroup
      <4>2. Plans(p) # {}
        BY <3>1, <4>1 DEF run_barrier
      <4>3. algorithm \in Algorithms
        BY DEF ApiInv
      <4> QED
        BY <4>1, <4>2, <4>3 DEF Plans, Algorithms
    <3>3. /\ poisoned' \in BOOLEAN /\ ran' \in BOOLEAN
          /\ answer' \in RunErrors => poisoned'
          /\ poisoned' => answer' # "Ok"
      BY <3>1 DEF RunErrors
    <3> QED
      BY <1>2, <1>6, <1>7, <1>8, <2>2, <3>1, <3>2, <3>3
  <2> QED
    BY <2>1, <2>2
<1>9. CASE barrier_validation(p) # "Ok" /\ answer' = barrier_validation(p) /\ ~ran' /\ ran' = FALSE
           /\ poisoned' = poisoned
  BY <1>2, <1>3, <1>5, <1>9 DEF ListErrors, RunErrors
<1> QED
  BY <1>1, <1>6, <1>8, <1>9 DEF barrier, barrier_unchecked

\* The barrier object keeps its invariant; a new or dropped one is as new.
LEMMA ApiStep ==
  ASSUME ConfigInv, ApiInv, [Next]_vars
  PROVE  ApiInv'
<1>1. CASE UNCHANGED <<apiVars, rank>>
  BY <1>1 DEF apiVars, ApiInv, RunsOnContract
<1>2. ASSUME NEW a \in Algorithms, instance(a) PROVE ApiInv'
  BY <1>2 DEF instance, ApiInv, RunsOnContract, RunErrors
<1>3. CASE barrier_call
  <2>1. rank' = rank /\ call_barrier
    BY <1>3 DEF barrier_call, setupVars
  <2> QED
    BY <2>1, BarrierCall DEF ApiInv, RunsOnContract
<1>4. CASE \E r \in Ranks, a \in Algorithms : begin(r, a)
  BY <1>2, <1>4 DEF begin
<1>5. CASE handshake_fails \/ drop_node
  <2>1. algorithm \in Algorithms
    BY DEF ApiInv
  <2> QED
    BY <1>2, <1>5, <2>1 DEF handshake_fails, drop_node, setup_dropped
<1>6. CASE \/ configure \/ build_barrier \/ build_fails \/ hand_out_endpoint \/ gather
           \/ start_handshake \/ handshake_done \/ drop_channels_done \/ drop_memory \/ drop_mr
  BY <1>1, <1>6
     DEF configure, build_barrier, build_fails, hand_out_endpoint, gather, start_handshake,
         handshake_done, drop_channels_done, drop_memory, drop_mr, setupVars, gather_endpoints,
         gather_next, gather_end, link_remote
<1>7. CASE \E k \in Ranks : \/ build_channel(k) \/ build_leaks(k) \/ modify_qp(k)
                            \/ drop_qp(k) \/ PeerWrites(k)
  BY <1>1, <1>7 DEF build_channel, build_leaks, modify_qp, drop_qp, PeerWrites, setupVars, handshake_next
<1>8. CASE UNCHANGED vars
  BY <1>1, <1>8 DEF vars, setupVars
<1> QED
  BY <1>3, <1>4, <1>5, <1>6, <1>7, <1>8, StepCases, Zenon

-----------------------------------------------------------------------------
(* Gathering endpoints and connecting the channels.                        *)

\* What an endpoint holds for this node is what belongs in the slot of its sender.
LEMMA EndpointFacts ==
  ASSUME ConfigInv, rank \in Ranks, NEW e \in LocalEndpoints
  PROVE  /\ e.rank \in Nat /\ Len(e.endpoints) \in Nat
         /\ Len(e.endpoints) > rank => slot_for_me(e) = Slot(e.rank)
<1>1. PICK j \in 0..WorldSize, n \in 0..WorldSize : e = endpoint(j, n)
  BY DEF LocalEndpoints
<1>2. WorldSize \in Nat /\ rank \in Nat /\ j \in Nat /\ n \in Nat
  <2>1. WorldSize \in Nat
    BY DEF ConfigInv, WorldSize
  <2> QED
    BY <2>1 DEF Ranks
<1> DEFINE f == [k \in 1..n |-> [qp |-> <<j, k - 1>>, mr |-> j]]
<1>3. e.rank = j /\ e.endpoints = f
  BY <1>1 DEF endpoint
<1>4. Len(f) = n
  <2> DEFINE S == [qp : Nat \X Int, mr : Nat]
  <2>1. f \in [1..n -> S]
    BY <1>2
  <2> HIDE DEF f, S
  <2>2. f \in Seq(S)
    BY <1>2, <2>1
  <2> QED
    BY <1>2, <2>1, <2>2
<1>5. ASSUME n > rank PROVE f[rank + 1] = Slot(j)
  <2>1. rank + 1 \in 1..n /\ (rank + 1) - 1 = rank
    BY <1>2, <1>5
  <2>2. f[rank + 1] = [qp |-> <<j, (rank + 1) - 1>>, mr |-> j]
    BY <2>1
  <2> QED
    BY <2>1, <2>2 DEF Slot
<1> HIDE DEF f
<1> QED
  BY <1>2, <1>3, <1>4, <1>5 DEF slot_for_me

\* A slot that is filled is not empty.
LEMMA SlotIsFilled == \A r : Slot(r) # None
<1> SUFFICES ASSUME NEW r, Slot(r) = None PROVE FALSE
  OBVIOUS
<1>1. "qp" \in DOMAIN Slot(r)
  BY DEF Slot
<1>2. DOMAIN None = {}
  BY DEF None
<1> QED
  BY <1>1, <1>2

\* What is in a slot.
LEMMA SlotFields == \A r : Slot(r).qp = <<r, rank>> /\ Slot(r).mr = r
  BY DEF Slot

\* The ranks of the inputs, as a function, and what Complete says of it.
LEMMA CompleteOnto ==
  ASSUME ConfigInv, Complete, input \in Seq(LocalEndpoints)
  PROVE  \A k, l \in 1..Len(input) : input[k].rank = input[l].rank => k = l
<1> DEFINE n == Len(input)
           f == [k \in 1..n |-> input[k].rank]
<1>1. n \in Nat /\ n = WorldSize
  BY DEF Complete
<1>2. Ranks = 0..(n - 1)
  BY <1>1 DEF Ranks
<1>3. Onto(f, n, n)
  BY <1>2 DEF Onto, Complete
<1> HIDE DEF f, n
<1>4. NoneTwice(f, n)
  BY <1>1, <1>3, OntoRanks
<1> QED
  BY <1>4 DEF NoneTwice, f, n

\* Inputs whose ranks are all the ranks, none of them twice, are complete.
LEMMA GatheredComplete ==
  ASSUME ConfigInv, input \in Seq(LocalEndpoints),
         \A k \in 1..Len(input) : input[k].rank \in Ranks /\ Len(input[k].endpoints) > rank,
         \A k, l \in 1..Len(input) : input[k].rank = input[l].rank => k = l,
         \A r \in Ranks : \E k \in 1..Len(input) : input[k].rank = r
  PROVE  Complete
<1> DEFINE n == Len(input)
           f == [k \in 1..n |-> input[k].rank]
<1>1. n \in Nat /\ WorldSize \in Nat
  BY DEF ConfigInv, WorldSize
<1>2. Onto(f, n, WorldSize)
  BY DEF Onto, Ranks
<1>3. NoneTwice(f, n)
  BY DEF NoneTwice
<1> HIDE DEF f
<1>4. n = WorldSize
  BY <1>1, <1>2, <1>3, OntoRanks
<1> QED
  BY <1>4 DEF Complete

\* What GatherInv says of a given place in the inputs.
Gathered(in, p, tm, rk, R) ==
  /\ \A k \in 1..p :
       /\ in[k].rank \in R /\ Len(in[k].endpoints) > rk
       /\ tm[in[k].rank] = [qp |-> <<in[k].rank, rk>>, mr |-> in[k].rank]
  /\ \A k, l \in 1..p : in[k].rank = in[l].rank => k = l
  /\ \A r \in R : tm[r] = None \/ \E k \in 1..p : in[k].rank = r
  /\ DOMAIN tm = R

\* GatherInv in those terms.
LEMMA GatherInvIs ==
  GatherInv <=> (state \in Gathering =>
    /\ input \in Seq(LocalEndpoints) /\ pos \in 0..Len(input)
    /\ Gathered(input, pos, tmp, rank, Ranks))
  BY DEF GatherInv, Gathered, Slot

\* One more endpoint goes into an empty slot.
LEMMA GatherOne ==
  ASSUME NEW in, NEW p \in Nat, NEW tm, NEW rk, NEW R, Gathered(in, p, tm, rk, R),
         in[p + 1].rank \in R, Len(in[p + 1].endpoints) > rk, tm[in[p + 1].rank] = None,
         NEW x, x = [qp |-> <<in[p + 1].rank, rk>>, mr |-> in[p + 1].rank], x # None,
         \A k \in 1..p : tm[in[k].rank] # None
  PROVE  Gathered(in, p + 1, [tm EXCEPT ![in[p + 1].rank] = x], rk, R)
<1> DEFINE q == in[p + 1].rank
           new == [tm EXCEPT ![q] = x]
<1>1. DOMAIN tm = R /\ q \in R /\ tm[q] = None
  BY DEF Gathered
<1>2. DOMAIN new = R /\ new[q] = x /\ \A r \in R \ {q} : new[r] = tm[r]
  BY <1>1
<1> HIDE DEF new
<1>3. \A k \in 1..p : in[k].rank # q /\ in[k].rank \in R
  BY <1>1 DEF Gathered
<1>4. ASSUME NEW k \in 1..(p + 1)
      PROVE  /\ in[k].rank \in R /\ Len(in[k].endpoints) > rk
             /\ new[in[k].rank] = [qp |-> <<in[k].rank, rk>>, mr |-> in[k].rank]
  <2>1. CASE k = p + 1
    BY <1>2, <2>1
  <2>2. CASE k \in 1..p
    <3>1. new[in[k].rank] = tm[in[k].rank]
      BY <1>2, <1>3, <2>2
    <3> QED
      BY <2>2, <3>1 DEF Gathered
  <2> QED
    BY <2>1, <2>2
<1>5. ASSUME NEW k \in 1..(p + 1), NEW l \in 1..(p + 1), in[k].rank = in[l].rank
      PROVE  k = l
  <2>1. CASE k \in 1..p /\ l \in 1..p
    BY <1>5, <2>1 DEF Gathered
  <2>2. CASE k = p + 1 \/ l = p + 1
    BY <1>3, <1>5, <2>2
  <2> QED
    BY <2>1, <2>2
<1>6. ASSUME NEW r \in R
      PROVE  new[r] = None \/ \E k \in 1..(p + 1) : in[k].rank = r
  <2>1. CASE r = q
    <3>1. p + 1 \in 1..(p + 1)
      OBVIOUS
    <3> QED
      BY <2>1, <3>1
  <2>2. CASE r # q
    <3>1. tm[r] = None \/ \E k \in 1..p : in[k].rank = r
      BY DEF Gathered
    <3> QED
      BY <1>2, <2>2, <3>1
  <2> QED
    BY <2>1, <2>2
<1>7. Gathered(in, p + 1, new, rk, R)
  BY <1>2, <1>4, <1>5, <1>6 DEF Gathered
<1> QED
  BY <1>7 DEF new

\* The outcomes of gathering an endpoint are told apart by what is wrong with it.
LEMMA CheckCases ==
  ASSUME NEW e, e.rank \in Nat, Len(e.endpoints) \in Nat, rank \in Nat
  PROVE  \/ check(e) = "out of bounds" /\ e.rank \notin Ranks
         \/ check(e) = "duplicate" /\ e.rank \in Ranks /\ tmp[e.rank] # None
         \/ check(e) = "missing rechannel" /\ e.rank \in Ranks /\ ~(Len(e.endpoints) > rank)
         \/ /\ check(e) = "ok" /\ e.rank \in Ranks /\ tmp[e.rank] = None
            /\ Len(e.endpoints) > rank
<1>1. CASE e.rank \notin Ranks
  BY <1>1 DEF check
<1>2. CASE e.rank \in Ranks /\ tmp[e.rank] # None
  BY <1>2 DEF check
<1>3. CASE e.rank \in Ranks /\ tmp[e.rank] = None /\ Len(e.endpoints) <= rank
  BY <1>3 DEF check
<1>4. CASE e.rank \in Ranks /\ tmp[e.rank] = None /\ ~(Len(e.endpoints) <= rank)
  BY <1>4 DEF check
<1> QED
  BY <1>1, <1>2, <1>3, <1>4

\* An endpoint is refused for a reason: the inputs are not complete.
LEMMA RefusalIsRight ==
  ASSUME ConfigInv, GatherInv, state = "gathering", rank \in Ranks, pos < Len(input),
         check(input[pos + 1]) # "ok"
  PROVE  /\ check(input[pos + 1]) \in GatherErrors
         /\ ~Complete
         /\ check(input[pos + 1]) = "duplicate" =>
              \E k, l \in 1..Len(input) : k # l /\ input[k].rank = input[l].rank
<1> DEFINE e == input[pos + 1]
<1>1. /\ input \in Seq(LocalEndpoints) /\ pos \in 0..Len(input)
      /\ Gathered(input, pos, tmp, rank, Ranks)
  BY GatherInvIs DEF Gathering
<1>2. pos + 1 \in 1..Len(input) /\ 1..pos \subseteq 1..Len(input) /\ pos + 1 \notin 1..pos
  BY <1>1
<1>3. e \in LocalEndpoints
  BY <1>1, <1>2
<1>4. rank \in Nat
  BY DEF ConfigInv, Ranks, WorldSize
<1>5. e.rank \in Nat /\ Len(e.endpoints) \in Nat
  BY <1>3, EndpointFacts
<1> HIDE DEF e
<1>6. \/ check(e) = "out of bounds" /\ e.rank \notin Ranks
      \/ check(e) = "duplicate" /\ e.rank \in Ranks /\ tmp[e.rank] # None
      \/ check(e) = "missing rechannel" /\ ~(Len(e.endpoints) > rank)
  BY <1>4, <1>5, CheckCases DEF e
<1>7. CASE check(e) = "out of bounds" /\ e.rank \notin Ranks
  <2>1. ~Complete
    BY <1>2, <1>7 DEF Complete, e
  <2> QED
    BY <1>7, <2>1 DEF GatherErrors, e
<1>8. CASE check(e) = "duplicate" /\ e.rank \in Ranks /\ tmp[e.rank] # None
  <2>1. PICK k \in 1..pos : input[k].rank = e.rank
    BY <1>1, <1>8 DEF Gathered
  <2>2. k \in 1..Len(input) /\ k # pos + 1 /\ input[k].rank = input[pos + 1].rank
    BY <1>2, <2>1 DEF e
  <2>3. ~Complete
    BY <1>1, <1>2, <2>2, CompleteOnto
  <2> QED
    BY <1>2, <1>8, <2>2, <2>3 DEF GatherErrors, e
<1>9. CASE check(e) = "missing rechannel" /\ ~(Len(e.endpoints) > rank)
  <2>1. ~Complete
    BY <1>2, <1>9 DEF Complete, e
  <2> QED
    BY <1>9, <2>1 DEF GatherErrors, e
<1> QED
  BY <1>6, <1>7, <1>8, <1>9

\* A step after which there is no setup, or no setup any more.
LEMMA SetupIdle ==
  ASSUME state' = "idle", channels' = << >>
  PROVE  GatherInv' /\ WiringInv' /\ GathersExactly' /\ CrossWired'
  BY DEF GatherInv, WiringInv, GathersExactly, CrossWired, Gathering, GatherErrors

\* A step that leaves the setup alone.
LEMMA SetupKept ==
  ASSUME GatherInv, WiringInv, GathersExactly, CrossWired,
         UNCHANGED configVars, UNCHANGED setupVars
  PROVE  GatherInv' /\ WiringInv' /\ GathersExactly' /\ CrossWired'
<1>1. /\ WorldSize' = WorldSize /\ Ranks' = Ranks
      /\ rank' = rank /\ input' = input /\ pos' = pos /\ tmp' = tmp /\ state' = state
      /\ channels' = channels /\ remote_mrs' = remote_mrs
  BY ConfigKept DEF setupVars
<1>2. LocalEndpoints' = LocalEndpoints
  BY <1>1 DEF LocalEndpoints
<1>3. GatherInv'
  BY <1>1, <1>2, Zenon DEF GatherInv, Slot
<1>4. WiringInv'
  BY <1>1, Zenon DEF WiringInv, Slot
<1>5. Complete' <=> Complete
  BY <1>1, Zenon DEF Complete
<1>6. GathersExactly'
  BY <1>1, <1>5, Zenon DEF GathersExactly
<1>7. CrossWired'
  BY <1>1, Zenon DEF CrossWired
<1> QED
  BY <1>3, <1>4, <1>6, <1>7

\* gather_endpoints is called with a list of endpoints.
LEMMA GatherBegins ==
  ASSUME ConfigInv, SetupInv, NEW es \in Inputs, gather_endpoints(es), UNCHANGED configVars
  PROVE  state' \in Gathering /\ GatherInv' /\ WiringInv' /\ GathersExactly' /\ CrossWired'
<1>1. /\ state = "idle" /\ input' = es /\ pos' = 0 /\ tmp' = [k \in Ranks |-> None]
      /\ state' = "gathering" /\ rank' = rank /\ channels' = channels
  BY DEF gather_endpoints
<1>2. Ranks' = Ranks /\ WorldSize' = WorldSize
  BY ConfigKept
<1>3. LocalEndpoints' = LocalEndpoints
  BY <1>2 DEF LocalEndpoints
<1>4. es \in Seq(LocalEndpoints)
  <2>1. PICK n \in 0..(WorldSize + 1) : es \in [1..n -> LocalEndpoints]
    BY DEF Inputs
  <2>2. n \in Nat
    BY DEF ConfigInv, WorldSize
  <2> QED
    BY <2>1, <2>2
<1>5. Gathered(es, 0, [k \in Ranks |-> None], rank, Ranks)
  BY DEF Gathered
<1>6. GatherInv'
  BY <1>1, <1>2, <1>3, <1>4, <1>5 DEF GatherInv, Gathered, Slot
<1>7. channels = << >>
  BY <1>1 DEF SetupInv, WiringInv
<1> QED
  BY <1>1, <1>6, <1>7
     DEF WiringInv, GathersExactly, CrossWired, Gathering, GatherErrors

\* An endpoint is taken.
LEMMA GatherTakes ==
  ASSUME ConfigInv, SetupInv, gather_next, phase = "prepared", UNCHANGED configVars
  PROVE  state' \in Gathering /\ GatherInv' /\ WiringInv' /\ GathersExactly' /\ CrossWired'
<1> DEFINE e == input[pos + 1]
<1>1. /\ state = "gathering" /\ pos < Len(input)
      /\ rank' = rank /\ input' = input /\ channels' = channels
  BY DEF gather_next
<1>2. Ranks' = Ranks /\ WorldSize' = WorldSize
  BY ConfigKept
<1>3. LocalEndpoints' = LocalEndpoints
  BY <1>2 DEF LocalEndpoints
<1>4. /\ input \in Seq(LocalEndpoints) /\ pos \in 0..Len(input)
      /\ Gathered(input, pos, tmp, rank, Ranks)
  BY <1>1, GatherInvIs DEF SetupInv, Gathering
<1>5. rank \in Ranks /\ rank \in Nat
  BY DEF SetupInv, StateInv, ConfigInv, Ranks, WorldSize
<1>6. channels = << >>
  BY <1>1 DEF SetupInv, WiringInv
<1>7. GatherInv' <=> (state' \in Gathering =>
        /\ input \in Seq(LocalEndpoints) /\ pos' \in 0..Len(input)
        /\ Gathered(input, pos', tmp', rank, Ranks))
  BY <1>1, <1>2, <1>3 DEF GatherInv, Gathered, Slot
<1>8. CASE check(e) = "ok"
  <2>1. /\ tmp' = [tmp EXCEPT ![e.rank] = slot_for_me(e)] /\ pos' = pos + 1 /\ state' = state
    BY <1>8 DEF gather_next
  <2>2. e \in LocalEndpoints
    BY <1>1, <1>4
  <2>3. /\ e.rank \in Nat /\ Len(e.endpoints) \in Nat
        /\ Len(e.endpoints) > rank => slot_for_me(e) = Slot(e.rank)
    BY <1>5, <2>2, EndpointFacts
  <2>4. e.rank \in Ranks /\ tmp[e.rank] = None /\ Len(e.endpoints) > rank
    BY <1>5, <1>8, <2>3, CheckCases
  <2>5. slot_for_me(e) = Slot(e.rank) /\ Slot(e.rank) # None
    BY <2>3, <2>4, SlotIsFilled
  <2>6. \A k \in 1..pos : tmp[input[k].rank] # None
    <3>1. \A k \in 1..pos : tmp[input[k].rank] = Slot(input[k].rank)
      BY <1>4 DEF Gathered, Slot
    <3> QED
      BY <3>1, SlotIsFilled
  <2>7. pos \in Nat
    BY <1>4
  <2>8. Gathered(input, pos + 1, [tmp EXCEPT ![e.rank] = slot_for_me(e)], rank, Ranks)
    BY <1>4, <2>4, <2>5, <2>6, <2>7, GatherOne DEF Slot
  <2>9. pos + 1 \in 0..Len(input)
    BY <1>1, <1>4
  <2>10. GatherInv'
    BY <1>4, <1>7, <2>1, <2>8, <2>9
  <2> QED
    BY <1>1, <1>6, <2>1, <2>10
       DEF WiringInv, GathersExactly, CrossWired, Gathering, GatherErrors
<1>9. CASE check(e) # "ok"
  <2>1. state' = check(e) /\ tmp' = tmp /\ pos' = pos
    BY <1>9 DEF gather_next
  <2>2. /\ check(e) \in GatherErrors
        /\ ~Complete
        /\ check(e) = "duplicate" =>
             \E k, l \in 1..Len(input) : k # l /\ input[k].rank = input[l].rank
    BY <1>1, <1>5, <1>9, RefusalIsRight DEF SetupInv
  <2>3. Complete' <=> Complete
    BY <1>1, <1>2 DEF Complete
  <2>4. GathersExactly'
    BY <1>1, <2>1, <2>2, <2>3 DEF GathersExactly, GatherErrors
  <2>5. GatherInv'
    BY <1>4, <1>7, <2>1
  <2>6. WiringInv' /\ CrossWired' /\ state' \in Gathering
    BY <1>1, <1>6, <2>1, <2>2 DEF WiringInv, CrossWired, Gathering, GatherErrors
  <2> QED
    BY <2>4, <2>5, <2>6
<1> QED
  BY <1>8, <1>9

\* The endpoints have all been taken: the slots are filled, or one is empty.
LEMMA GatherEnds ==
  ASSUME ConfigInv, SetupInv, gather_end, phase = "prepared", UNCHANGED configVars
  PROVE  state' \in Gathering /\ GatherInv' /\ WiringInv' /\ GathersExactly' /\ CrossWired'
<1>1. /\ state = "gathering" /\ pos = Len(input)
      /\ state' = IF \E k \in Ranks : tmp[k] = None THEN "missing endpoint" ELSE "gathered"
      /\ rank' = rank /\ input' = input /\ pos' = pos /\ tmp' = tmp /\ channels' = channels
  BY DEF gather_end
<1>2. Ranks' = Ranks /\ WorldSize' = WorldSize
  BY ConfigKept
<1>3. LocalEndpoints' = LocalEndpoints
  BY <1>2 DEF LocalEndpoints
<1>4. /\ input \in Seq(LocalEndpoints) /\ pos \in 0..Len(input)
      /\ Gathered(input, Len(input), tmp, rank, Ranks)
  BY <1>1, GatherInvIs DEF SetupInv, Gathering
<1>5. channels = << >>
  BY <1>1 DEF SetupInv, WiringInv
<1>6. GatherInv'
  BY <1>1, <1>2, <1>3, <1>4 DEF GatherInv, Gathered, Slot
<1>7. Complete' <=> Complete
  BY <1>1, <1>2 DEF Complete
<1>8. CASE \E k \in Ranks : tmp[k] = None
  <2>1. PICK r \in Ranks : tmp[r] = None
    BY <1>8
  <2>2. \A k \in 1..Len(input) : tmp[input[k].rank] = Slot(input[k].rank)
    BY <1>4 DEF Gathered, Slot
  <2>3. \A k \in 1..Len(input) : input[k].rank # r
    BY <2>1, <2>2, SlotIsFilled
  <2>4. ~Complete
    BY <2>3 DEF Complete
  <2> QED
    BY <1>1, <1>5, <1>6, <1>7, <1>8, <2>4
       DEF WiringInv, GathersExactly, CrossWired, Gathering, GatherErrors
<1>9. CASE ~ \E k \in Ranks : tmp[k] = None
  <2>1. \A r \in Ranks : \E k \in 1..Len(input) : input[k].rank = r
    BY <1>4, <1>9 DEF Gathered
  <2>2. /\ \A k \in 1..Len(input) : input[k].rank \in Ranks /\ Len(input[k].endpoints) > rank
        /\ \A k, l \in 1..Len(input) : input[k].rank = input[l].rank => k = l
    BY <1>4 DEF Gathered
  <2>3. Complete
    BY <1>4, <2>1, <2>2, GatheredComplete
  <2>4. \A k \in 1..Len(input) : tmp[input[k].rank] = Slot(input[k].rank)
    BY <1>4 DEF Gathered, Slot
  <2>5. \A r \in Ranks : tmp[r] = Slot(r)
    BY <2>1, <2>4
  <2>6. state' = "gathered"
    BY <1>1, <1>9
  <2>7. WiringInv'
    BY <1>1, <1>2, <1>5, <2>5, <2>6 DEF WiringInv, Slot
  <2> QED
    BY <1>6, <1>7, <2>3, <2>6, <2>7 DEF GathersExactly, CrossWired, Gathering, GatherErrors
<1> QED
  BY <1>8, <1>9

\* A channel is connected to the endpoint at its index.
LEMMA ChannelConnects ==
  ASSUME ConfigInv, SetupInv, handshake_next, phase = "connecting", UNCHANGED configVars
  PROVE  state' = state /\ rank' = rank /\ GatherInv' /\ WiringInv' /\ GathersExactly' /\ CrossWired'
<1> DEFINE n == Len(channels)
<1>1. /\ state = "handshake" /\ n < WorldSize /\ channels' = Append(channels, tmp[n].qp)
      /\ rank' = rank /\ tmp' = tmp /\ state' = state
  BY DEF handshake_next
<1>2. Ranks' = Ranks /\ WorldSize' = WorldSize
  BY ConfigKept
<1>3. /\ \A r \in Ranks : tmp[r] = Slot(r)
      /\ channels \in Seq(Nat \X Nat)
      /\ \A k \in 1..n : channels[k] = <<k - 1, rank>>
  BY <1>1 DEF SetupInv, WiringInv
<1>4. WorldSize \in Nat /\ n \in Nat /\ n \in Ranks
  <2>1. WorldSize \in Nat
    BY DEF ConfigInv, WorldSize
  <2>2. n \in Nat
    BY <1>3
  <2> QED
    BY <1>1, <2>1, <2>2 DEF Ranks
<1>5. rank \in Nat
  BY <1>4 DEF SetupInv, StateInv, Ranks
<1>6. tmp[n].qp = <<n, rank>> /\ <<n, rank>> \in Nat \X Nat
  <2>1. tmp[n] = Slot(n)
    BY <1>3, <1>4
  <2>2. tmp[n].qp = <<n, rank>>
    BY <2>1, SlotFields
  <2> QED
    BY <1>4, <1>5, <2>2
<1> DEFINE x == <<n, rank>>
           S == Nat \X Nat
<1>7. channels' = Append(channels, x) /\ x \in S /\ channels \in Seq(S)
  BY <1>1, <1>3, <1>6
<1> HIDE DEF x, S
<1>8. /\ channels' \in Seq(S) /\ Len(channels') = n + 1
      /\ \A k \in 1..n : channels'[k] = channels[k]
      /\ channels'[n + 1] = x
  BY <1>7
<1> HIDE DEF n
<1>9. ASSUME NEW k \in 1..(n + 1) PROVE channels'[k] = <<k - 1, rank>>
  <2>1. CASE k = n + 1
    <3>1. k - 1 = n
      BY <1>4, <2>1
    <3> QED
      BY <1>8, <2>1, <3>1 DEF x
  <2>2. CASE k # n + 1
    <3>1. k \in 1..n
      BY <1>4, <2>2
    <3> QED
      BY <1>3, <1>8, <3>1
  <2> QED
    BY <2>1, <2>2
<1>10. Len(channels') <= WorldSize
  BY <1>1, <1>4, <1>8
<1>11. WiringInv'
  <2>1. \A r \in Ranks' : tmp'[r] = Slot(r)'
    BY <1>1, <1>2, <1>3 DEF Slot
  <2> QED
    BY <1>1, <1>2, <1>8, <1>9, <1>10, <2>1 DEF WiringInv, S
<1> QED
  BY <1>1, <1>11 DEF GatherInv, GathersExactly, CrossWired, Gathering, GatherErrors

\* The barrier is linked to the memory of every rank.
LEMMA RemoteLinks ==
  ASSUME ConfigInv, SetupInv, link_remote, phase = "connecting", UNCHANGED configVars
  PROVE  state' = "connected" /\ rank' = rank
         /\ GatherInv' /\ WiringInv' /\ GathersExactly' /\ CrossWired'
<1>1. /\ state = "handshake" /\ Len(channels) = WorldSize
      /\ remote_mrs' = [k \in 1..WorldSize |-> tmp[k - 1].mr]
      /\ rank' = rank /\ tmp' = tmp /\ state' = "connected" /\ channels' = channels
  BY DEF link_remote
<1>2. Ranks' = Ranks /\ WorldSize' = WorldSize
  BY ConfigKept
<1>3. WorldSize \in Nat
  BY DEF ConfigInv, WorldSize
<1>4. /\ \A r \in Ranks : tmp[r] = Slot(r)
      /\ channels \in Seq(Nat \X Nat) /\ Len(channels) <= WorldSize
      /\ \A k \in 1..Len(channels) : channels[k] = <<k - 1, rank>>
  BY <1>1 DEF SetupInv, WiringInv
<1>5. ASSUME NEW k \in Ranks
      PROVE  channels[k + 1] = <<k, rank>> /\ remote_mrs'[k + 1] = k
  <2>1. k + 1 \in 1..WorldSize /\ (k + 1) - 1 = k
    BY <1>3 DEF Ranks
  <2>2. channels[k + 1] = <<k, rank>>
    BY <1>1, <1>4, <2>1
  <2>3. remote_mrs'[k + 1] = tmp[k].mr
    BY <1>1, <2>1
  <2>4. tmp[k].mr = k
    BY <1>4, SlotFields
  <2> QED
    BY <2>2, <2>3, <2>4
<1>6. CrossWired'
  BY <1>1, <1>2, <1>5 DEF CrossWired
<1>7. WiringInv'
  <2>1. \A r \in Ranks' : tmp'[r] = Slot(r)'
    BY <1>1, <1>2, <1>4 DEF Slot
  <2> QED
    BY <1>1, <1>2, <1>4, <2>1 DEF WiringInv
<1> QED
  BY <1>1, <1>6, <1>7 DEF GatherInv, GathersExactly, Gathering, GatherErrors

\* The setup keeps its invariant.
LEMMA SetupStep ==
  ASSUME ConfigInv, SetupInv, [Next]_vars
  PROVE  SetupInv'
<1>1. CASE configure
  <2>1. state = "idle" /\ phase = "none"
    BY <1>1 DEF configure, SetupInv, StateInv
  <2>2. channels = << >>
    BY <2>1 DEF SetupInv, WiringInv
  <2>3. state' = "idle" /\ channels' = << >> /\ phase' = "none"
    BY <1>1, <2>1, <2>2 DEF configure, setupVars
  <2>4. GatherInv' /\ WiringInv' /\ GathersExactly' /\ CrossWired'
    BY <2>3, SetupIdle
  <2> QED
    BY <2>3, <2>4 DEF SetupInv, StateInv, Drops
<1>2. CASE \E r \in Ranks, a \in Algorithms : begin(r, a)
  <2>1. PICK r \in Ranks : \E a \in Algorithms : begin(r, a)
    BY <1>2
  <2>2. phase = "none" /\ rank' = r /\ phase' = "building"
        /\ network' = network /\ state' = state /\ channels' = channels
    BY <2>1 DEF begin
  <2>3. state = "idle"
    BY <2>2 DEF SetupInv, StateInv, Drops
  <2>4. channels = << >>
    BY <2>3 DEF SetupInv, WiringInv
  <2>5. state' = "idle" /\ channels' = << >> /\ rank' \in Ranks'
    BY <2>2, <2>3, <2>4 DEF Ranks, WorldSize
  <2>6. GatherInv' /\ WiringInv' /\ GathersExactly' /\ CrossWired'
    BY <2>5, SetupIdle
  <2> QED
    BY <2>2, <2>5, <2>6 DEF SetupInv, StateInv, Drops
<1>3. ASSUME UNCHANGED configVars, UNCHANGED setupVars, StateInv'
      PROVE  SetupInv'
  BY <1>3, SetupKept DEF SetupInv
<1>4. ASSUME UNCHANGED configVars, UNCHANGED setupVars
      PROVE  Ranks' = Ranks /\ rank' = rank /\ state' = state
  BY <1>4, ConfigKept DEF setupVars
<1>5. CASE build_barrier \/ build_fails \/ \E k \in Ranks : build_leaks(k)
  <2>1. /\ phase = "building" /\ phase' \in {"prepared", "drop_channels"}
        /\ UNCHANGED configVars /\ UNCHANGED setupVars
    BY <1>5 DEF build_barrier, build_fails, build_leaks, NextChannel
  <2>2. StateInv'
    BY <1>4, <2>1 DEF SetupInv, StateInv, Drops
  <2> QED
    BY <1>3, <2>1, <2>2
<1>6. CASE drop_channels_done \/ drop_memory \/ drop_mr
  <2>1. /\ phase \in Drops /\ phase' \in Drops
        /\ UNCHANGED configVars /\ UNCHANGED setupVars
    BY <1>6 DEF drop_channels_done, drop_memory, drop_mr, Drops
  <2>2. StateInv'
    BY <1>4, <2>1 DEF SetupInv, StateInv, Drops
  <2> QED
    BY <1>3, <2>1, <2>2
<1>7. CASE UNCHANGED configVars /\ UNCHANGED setupVars /\ UNCHANGED phase
  <2>1. StateInv'
    BY <1>4, <1>7 DEF SetupInv, StateInv, Drops
  <2> QED
    BY <1>3, <1>7, <2>1
<1>8. CASE gather
  <2>1. phase = "prepared" /\ phase' = phase /\ UNCHANGED configVars
    BY <1>8 DEF gather
  <2>2. rank' = rank /\ state' \in Gathering
        /\ GatherInv' /\ WiringInv' /\ GathersExactly' /\ CrossWired'
    BY <1>8, <2>1, GatherBegins, GatherTakes, GatherEnds
       DEF gather, gather_endpoints, gather_next, gather_end
  <2>3. Ranks' = Ranks /\ rank \in Ranks
    BY <2>1, ConfigKept DEF SetupInv, StateInv, Drops
  <2> QED
    BY <2>1, <2>2, <2>3 DEF SetupInv, StateInv, Drops
<1>9. CASE start_handshake
  <2>1. /\ phase = "prepared" /\ state = "gathered" /\ phase' = "connecting"
        /\ state' = "handshake" /\ UNCHANGED <<configVars, rank, tmp, channels>>
    BY <1>9 DEF start_handshake
  <2>2. Ranks' = Ranks /\ WorldSize' = WorldSize /\ rank \in Ranks
    BY <2>1, ConfigKept DEF SetupInv, StateInv, Drops
  <2>3. WorldSize \in Nat
    BY DEF ConfigInv, WorldSize
  <2>4. (\A r \in Ranks : tmp[r] = Slot(r)) /\ channels = << >>
    BY <2>1 DEF SetupInv, WiringInv
  <2>5. WiringInv'
    BY <2>1, <2>2, <2>3, <2>4 DEF WiringInv, Slot
  <2> QED
    BY <2>1, <2>2, <2>5
       DEF SetupInv, StateInv, GatherInv, GathersExactly, CrossWired, Gathering, GatherErrors,
           Drops
<1>10. CASE handshake_fails \/ drop_node
  <2>1. /\ phase \notin {"none"} /\ phase' = "drop_channels" /\ UNCHANGED configVars
        /\ state' = "idle" /\ channels' = << >> /\ rank' = rank
    BY <1>10 DEF handshake_fails, drop_node, setup_dropped
  <2>2. Ranks' = Ranks /\ rank \in Ranks
    BY <2>1, ConfigKept DEF SetupInv, StateInv, Drops
  <2>3. GatherInv' /\ WiringInv' /\ GathersExactly' /\ CrossWired'
    BY <2>1, SetupIdle
  <2> QED
    BY <2>1, <2>2, <2>3 DEF SetupInv, StateInv, Drops
<1>11. CASE handshake_done
  <2>1. phase = "connecting" /\ phase' = "running" /\ UNCHANGED configVars /\ link_remote
    BY <1>11 DEF handshake_done
  <2>2. Ranks' = Ranks /\ rank \in Ranks
    BY <2>1, ConfigKept DEF SetupInv, StateInv, Drops
  <2> QED
    BY <2>1, <2>2, RemoteLinks DEF SetupInv, StateInv, Drops
<1>12. ASSUME NEW k \in Ranks, modify_qp(k) PROVE SetupInv'
  <2>1. phase = "connecting" /\ phase' = phase /\ UNCHANGED configVars
    BY <1>12 DEF modify_qp
  <2>2. CASE handshake_next
    <3>1. Ranks' = Ranks
      BY <2>1, ConfigKept
    <3> QED
      BY <2>1, <2>2, <3>1, ChannelConnects DEF SetupInv, StateInv, Drops
  <2>3. CASE UNCHANGED setupVars
    BY <1>7, <2>1, <2>3
  <2> QED
    BY <1>12, <2>2, <2>3 DEF modify_qp
<1>13. CASE hand_out_endpoint \/ barrier_call \/ UNCHANGED vars
  BY <1>7, <1>13 DEF hand_out_endpoint, barrier_call, vars
<1>14. CASE \E k \in Ranks : build_channel(k) \/ drop_qp(k) \/ PeerWrites(k)
  BY <1>7, <1>14 DEF build_channel, drop_qp, PeerWrites
<1> QED
  BY <1>1, <1>2, <1>5, <1>6, <1>8, <1>9, <1>10, <1>11, <1>12, <1>13, <1>14, StepCases, Zenon

-----------------------------------------------------------------------------
(* The theorems.                                                           *)

\* A process that has configured nothing satisfies the invariant.
LEMMA InitIInv == Init => IInv
<1> SUFFICES ASSUME Init PROVE IInv
  OBVIOUS
<1> USE DEF Init, ConfigInit, SetupInit, ApiInit
<1>1. ConfigInv
  BY DEF ConfigInv, BuildsExactlyRankings, IsRaw
<1>2. DeviceInv
  BY DEF DeviceInv, LeakInv, NoStrayWrite, Drops
<1>3. ApiInv
  BY DEF ApiInv, RunsOnContract, RunErrors, Algorithms
<1>4. SetupInv
  BY DEF SetupInv, StateInv, GatherInv, WiringInv, GathersExactly, CrossWired, Gathering,
         GatherErrors
<1> QED
  BY <1>1, <1>2, <1>3, <1>4 DEF IInv

\* Every step keeps it.
LEMMA NextIInv == IInv /\ [Next]_vars => IInv'
  BY ConfigStep, DeviceStep, ApiStep, SetupStep DEF IInv

\* It holds throughout.
LEMMA Invariance == Spec => []IInv
  BY InitIInv, NextIInv, PTL DEF Spec

\* RawNetworkConfig::build accepts exactly the lists of hosts that name each rank 0..n-1
\* once, and its errors name a real fault, for any list of any length.
THEOREM BuildIsExactly == Spec => []BuildsExactlyRankings
<1>1. IInv => BuildsExactlyRankings
  BY DEF IInv, ConfigInv
<1> QED
  BY <1>1, Invariance, PTL

\* gather_endpoints succeeds exactly on a complete set of endpoints, in any order, for
\* any world size, and says rightly what is wrong with another.
THEOREM EndpointsGatheredExactly == Spec => []GathersExactly
<1>1. IInv => GathersExactly
  BY DEF IInv, SetupInv
<1> QED
  BY <1>1, Invariance, PTL

\* A connected node has each channel at the queue pair its peer keeps for it, and each
\* barrier slot at that peer's memory.
THEOREM NodesAreCrossWired == Spec => []CrossWired
<1>1. IInv => CrossWired
  BY DEF IInv, SetupInv
<1> QED
  BY <1>1, Invariance, PTL

\* No write of a peer goes to freed barrier memory, wherever the setup or the drop of the
\* node has got to.
THEOREM NoWriteStrays == Spec => []NoStrayWrite
<1>1. IInv => NoStrayWrite
  BY DEF IInv, DeviceInv
<1> QED
  BY <1>1, Invariance, PTL

\* A node that is gone has left nothing behind but one queue pair at most, lost by a build
\* that failed: its fields are dropped in an order that reaches each of them, wherever its
\* setup stopped.
THEOREM NodeLeavesNothing == Spec => []NothingLeft
<1>1. IInv => NothingLeft
  BY DEF IInv, DeviceInv, LeakInv, NothingLeft
<1> QED
  BY <1>1, Invariance, PTL

\* A checked call moves epochs only for a strictly ascending peer list that has the caller
\* in it, and an unchecked one of two algorithms only for a list that has the caller in it,
\* for lists of any length.
THEOREM BarrierRunsOnContract == Spec => []RunsOnContract
<1>1. IInv => RunsOnContract
  BY DEF IInv, ApiInv
<1> QED
  BY <1>1, Invariance, PTL

\* After a timeout or a transport error no call of the barrier of a running node succeeds
\* or touches the epochs.
THEOREM PoisonStays == Spec => PoisonIsFinal
<1>1. ASSUME IInv, [Next]_vars, phase' = "running", poisoned \/ answer \in RunErrors
      PROVE  answer' # "Ok" /\ (apiVars' # apiVars => ~ran')
  <2>1. poisoned /\ answer # "Ok" /\ ConfigInv /\ ApiInv
    BY <1>1 DEF IInv, ApiInv
  <2>2. CASE apiVars' = apiVars
    BY <2>1, <2>2 DEF apiVars
  <2>3. CASE barrier_call
    BY <2>1, <2>3, BarrierCall DEF barrier_call
  <2>4. CASE phase' # "running"
    BY <1>1, <2>4
  <2>5. CASE \/ configure \/ build_barrier \/ build_fails \/ hand_out_endpoint \/ gather
             \/ start_handshake \/ handshake_done \/ drop_channels_done \/ drop_memory \/ drop_mr
    BY <2>2, <2>5
       DEF configure, build_barrier, build_fails, hand_out_endpoint, gather, start_handshake,
           handshake_done, drop_channels_done, drop_memory, drop_mr
  <2>6. CASE \E k \in Ranks : \/ build_channel(k) \/ build_leaks(k) \/ modify_qp(k)
                              \/ drop_qp(k) \/ PeerWrites(k)
    BY <2>2, <2>6 DEF build_channel, build_leaks, modify_qp, drop_qp, PeerWrites
  <2>7. CASE handshake_fails \/ drop_node \/ \E r \in Ranks, a \in Algorithms : begin(r, a)
    BY <2>4, <2>7 DEF handshake_fails, drop_node, begin
  <2>8. CASE UNCHANGED vars
    BY <2>2, <2>8 DEF vars
  <2> QED
    BY <1>1, <2>3, <2>5, <2>6, <2>7, <2>8, StepCases, Zenon
<1>2. IInv /\ [Next]_vars =>
        [phase' = "running" /\ (poisoned \/ answer \in RunErrors) =>
           answer' # "Ok" /\ (apiVars' # apiVars => ~ran')]_vars
  BY <1>1
<1> QED
  BY <1>2, Invariance, PTL DEF Spec, PoisonIsFinal
=============================================================================
