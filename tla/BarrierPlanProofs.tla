------------------------- MODULE BarrierPlanProofs --------------------------
(***************************************************************************)
(* What the plans of the three barrier algorithms have in common, for every *)
(* peer list without repetition: the notifications and the waits of the     *)
(* members match, and together they carry to every member the news that     *)
(* every other one has called (Sound).  Nothing here is about time: the     *)
(* protocol that executes the plans is proved about in BarrierProofs.       *)
(***************************************************************************)
EXTENDS BarrierAlgorithms, Integers, NaturalsInduction, WellFoundedInduction, TLAPS

-----------------------------------------------------------------------------
(* Arithmetic.                                                             *)

\* A set of natural numbers has a least element.
LEMMA LeastElement ==
  ASSUME NEW T \in SUBSET Nat, T # {}
  PROVE  \E n \in T : \A k \in T : n <= k
<1> DEFINE R == OpToRel(<, Nat)
<1>1. \E n \in T : \A k \in T : ~ (<<k, n>> \in R)
  BY NatLessThanWellFounded, WFMin
<1>2. \A k, n \in Nat : k < n => <<k, n>> \in R
  BY DEF OpToRel
<1> HIDE DEF R
<1>3. PICK n \in T : \A k \in T : ~ (<<k, n>> \in R)
  BY <1>1
<1>4. \A k \in T : ~ (k < n)
  BY <1>2, <1>3
<1>5. \A k \in T : n <= k
  BY <1>4
<1> QED
  BY <1>5

\* The remainder of an index that has gone round at most once.
LEMMA WrapAround ==
  ASSUME NEW n \in Nat, n > 0, NEW a \in 0..(2 * n - 1)
  PROVE  a % n = IF a < n THEN a ELSE a - n
<1> DEFINE q == a \div n
<1>1. /\ q \in Int /\ a % n \in 0..(n - 1)
      /\ a = n * q + (a % n)
  OBVIOUS
<1>2. q < 2
  <2> SUFFICES ASSUME q >= 2 PROVE FALSE
    BY <1>1
  <2>1. n * q >= n * 2
    BY <1>1
  <2> QED
    BY <1>1, <2>1
<1>3. q >= 0
  <2> SUFFICES ASSUME q <= -1 PROVE FALSE
    BY <1>1
  <2>1. n * q <= n * (-1)
    BY <1>1
  <2> QED
    BY <1>1, <2>1
<1> QED
  BY <1>1, <1>2, <1>3

\* The first powers of two, as a function of their exponents.
FirstPowers(n) ==
  {g \in [0..n -> Nat] : g[0] = 1 /\ \A k \in 1..n : g[k] = 2 * g[k - 1]}

\* The recursive definition of Pow2 is met: such functions exist.
LEMMA PowersExist == \A n \in Nat : FirstPowers(n) # {}
<1> DEFINE T == {n \in Nat : FirstPowers(n) = {}}
<1> SUFFICES ASSUME T # {} PROVE FALSE
  OBVIOUS
<1>1. PICK n \in T : \A k \in T : n <= k
  BY LeastElement
<1>2. CASE n = 0
  <2>1. [k \in 0..0 |-> 1] \in FirstPowers(0)
    BY DEF FirstPowers
  <2> QED
    BY <1>2, <2>1
<1>3. CASE n > 0
  <2>1. PICK g : g \in FirstPowers(n - 1)
    BY <1>1, <1>3
  <2> DEFINE h == [k \in 0..n |-> IF k = n THEN 2 * g[n - 1] ELSE g[k]]
  <2>2. g \in [0..(n - 1) -> Nat] /\ g[0] = 1 /\ \A k \in 1..(n - 1) : g[k] = 2 * g[k - 1]
    BY <2>1 DEF FirstPowers
  <2>3. h \in [0..n -> Nat] /\ h[0] = 1
    BY <1>3, <2>2
  <2>4. \A k \in 1..n : h[k] = 2 * h[k - 1]
    BY <1>3, <2>2
  <2>5. h \in FirstPowers(n)
    BY <2>3, <2>4 DEF FirstPowers
  <2> QED
    BY <2>5
<1> QED
  BY <1>2, <1>3

\* They agree.
LEMMA PowersUnique ==
  ASSUME NEW n \in Nat, NEW m \in Nat, NEW g \in FirstPowers(n), NEW h \in FirstPowers(m)
  PROVE  \A k \in Nat : k <= n /\ k <= m => g[k] = h[k]
<1> DEFINE T == {k \in Nat : k <= n /\ k <= m /\ g[k] # h[k]}
<1> SUFFICES ASSUME T # {} PROVE FALSE
  OBVIOUS
<1>1. PICK k \in T : \A l \in T : k <= l
  BY LeastElement
<1>2. k > 0
  BY <1>1 DEF FirstPowers
<1>3. k - 1 \in Nat /\ k - 1 <= n /\ k - 1 <= m /\ g[k - 1] = h[k - 1]
  BY <1>1, <1>2
<1> QED
  BY <1>1, <1>2, <1>3 DEF FirstPowers

\* Pow2 satisfies its equation.
LEMMA Pow2Def ==
  /\ Pow2 \in [Nat -> Nat]
  /\ Pow2[0] = 1
  /\ \A n \in Nat : Pow2[n + 1] = 2 * Pow2[n]
<1> DEFINE F == [n \in Nat |-> (CHOOSE g : g \in FirstPowers(n))[n]]
           Eq(f) == f = [n \in Nat |-> IF n = 0 THEN 1 ELSE 2 * f[n - 1]]
<1>1. \A n \in Nat : (CHOOSE g : g \in FirstPowers(n)) \in FirstPowers(n)
  BY PowersExist
<1>2. ASSUME NEW n \in Nat PROVE F[n] = IF n = 0 THEN 1 ELSE 2 * F[n - 1]
  <2>1. CASE n = 0
    BY <2>1, <1>1 DEF FirstPowers
  <2>2. CASE n > 0
    <3> DEFINE g == CHOOSE g : g \in FirstPowers(n)
               h == CHOOSE h : h \in FirstPowers(n - 1)
    <3>1. g \in FirstPowers(n) /\ h \in FirstPowers(n - 1) /\ n - 1 \in Nat
      BY <1>1, <2>2
    <3>2. g[n - 1] = h[n - 1]
      BY <3>1, PowersUnique
    <3>3. F[n] = g[n] /\ F[n - 1] = h[n - 1]
      BY <2>2
    <3> HIDE DEF g, h
    <3>4. g[n] = 2 * g[n - 1]
      BY <3>1, <2>2 DEF FirstPowers
    <3> QED
      BY <3>2, <3>3, <3>4, <2>2
  <2> QED
    BY <2>1, <2>2
<1>3. F = [n \in Nat |-> IF n = 0 THEN 1 ELSE 2 * F[n - 1]]
  <2>1. F = [n \in Nat |-> F[n]]
    OBVIOUS
  <2> HIDE DEF F
  <2> QED
    BY <1>2, <2>1
<1>4. Pow2 = CHOOSE f : Eq(f)
  BY DEF Pow2
<1>5. Eq(Pow2)
  BY <1>3, <1>4
<1> HIDE DEF F
<1>6. DOMAIN Pow2 = Nat /\ \A n \in Nat : Pow2[n] = IF n = 0 THEN 1 ELSE 2 * Pow2[n - 1]
  BY <1>5
<1>7. \A n \in Nat : Pow2[n + 1] = 2 * Pow2[n]
  BY <1>6
<1>8. \A n \in Nat : Pow2[n] \in Nat
  <2> DEFINE T == {n \in Nat : Pow2[n] \notin Nat}
  <2> SUFFICES ASSUME T # {} PROVE FALSE
    OBVIOUS
  <2>1. PICK n \in T : \A k \in T : n <= k
    BY LeastElement
  <2>2. n = 0 \/ Pow2[n - 1] \in Nat
    BY <2>1
  <2> QED
    BY <1>6, <2>1, <2>2
<1> QED
  BY <1>5, <1>6, <1>7, <1>8

\* A power of two exceeds its exponent.
LEMMA Pow2Grows == \A n \in Nat : Pow2[n] > n
<1> DEFINE T == {n \in Nat : ~ (Pow2[n] > n)}
<1> SUFFICES ASSUME T # {} PROVE FALSE
  OBVIOUS
<1>1. PICK n \in T : \A k \in T : n <= k
  BY LeastElement
<1>2. n > 0
  BY <1>1, Pow2Def
<1>3. n - 1 \in Nat /\ Pow2[n - 1] > n - 1
  BY <1>1, <1>2
<1>4. Pow2[(n - 1) + 1] = 2 * Pow2[n - 1] /\ Pow2[n - 1] \in Nat
  BY <1>3, Pow2Def
<1> QED
  BY <1>1, <1>2, <1>3, <1>4

\* A larger exponent at least doubles the power.
LEMMA Pow2Doubles ==
  ASSUME NEW m \in Nat, NEW n \in Nat, m < n
  PROVE  2 * Pow2[m] <= Pow2[n]
<1> DEFINE T == {k \in Nat : m < k /\ ~ (2 * Pow2[m] <= Pow2[k])}
<1> SUFFICES ASSUME T # {} PROVE FALSE
  OBVIOUS
<1>1. PICK k \in T : \A l \in T : k <= l
  BY LeastElement
<1>2. k - 1 \in Nat /\ m <= k - 1 /\ (m < k - 1 => 2 * Pow2[m] <= Pow2[k - 1])
  BY <1>1
<1>3. Pow2[(k - 1) + 1] = 2 * Pow2[k - 1] /\ Pow2[k - 1] \in Nat /\ Pow2[m] \in Nat
  BY <1>2, Pow2Def
<1>4. CASE m = k - 1
  BY <1>1, <1>3, <1>4
<1>5. CASE m < k - 1
  BY <1>1, <1>2, <1>3, <1>5
<1> QED
  BY <1>2, <1>4, <1>5

\* Rounds counts the distances 1, 2, 4, ... smaller than len.
LEMMA RoundsDef ==
  ASSUME NEW len \in Nat
  PROVE  /\ Rounds(len) \in Nat /\ Pow2[Rounds(len)] >= len
         /\ \A q \in 0..(Rounds(len) - 1) : Pow2[q] < len
<1> DEFINE T == {n \in Nat : Pow2[n] >= len}
           IsRounds(r) == Pow2[r] >= len /\ \A q \in 0..(r - 1) : Pow2[q] < len
<1>1. len \in T
  BY Pow2Grows, Pow2Def
<1>2. PICK r \in T : \A k \in T : r <= k
  BY <1>1, LeastElement
<1>3. r \in 0..len /\ IsRounds(r)
  BY <1>1, <1>2, Pow2Def
<1>4. Rounds(len) = CHOOSE n \in 0..len : IsRounds(n)
  BY DEF Rounds
<1>5. Rounds(len) \in 0..len /\ IsRounds(Rounds(len))
  BY <1>3, <1>4
<1> QED
  BY <1>5

\* Every distance below 2^r falls in one of the ranges 2^(q-1) .. 2^q - 1, q <= r.
LEMMA RangeOfDistance ==
  ASSUME NEW r \in Nat, NEW t \in Nat, 1 <= t, t < Pow2[r]
  PROVE  \E q \in 1..r : Pow2[q - 1] <= t /\ t < 2 * Pow2[q - 1]
<1> DEFINE T == {n \in Nat : t < Pow2[n]}
<1>1. PICK q \in T : \A k \in T : q <= k
  BY LeastElement
<1>2. q >= 1 /\ q <= r
  BY <1>1, Pow2Def
<1>3. q - 1 \in Nat /\ Pow2[q - 1] \in Nat /\ Pow2[(q - 1) + 1] = 2 * Pow2[q - 1]
  BY <1>2, Pow2Def
<1> QED
  BY <1>1, <1>2, <1>3

-----------------------------------------------------------------------------
(* Plans that carry the news to every member.                              *)

\* A peer list without repetition; the code asks for an ascending one.
Distinct(peers) == \A a, b \in DOMAIN peers : peers[a] = peers[b] => a = b

StepsOver(M) == [op : {"notify", "wait"}, peers : SUBSET M]

\* Step k of a plan notifies peer i, or waits for it.
Notifies(plan, k, i) == k \in DOMAIN plan /\ plan[k].op = "notify" /\ i \in plan[k].peers
Awaits(plan, k, i) == k \in DOMAIN plan /\ plan[k].op = "wait" /\ i \in plan[k].peers

\* F gives each member of M its plan, C[i][p] says which members a notification of i tells
\* p to have called.
Plans(M, F, C) ==
  F \in [M -> Seq(StepsOver(M))] /\ C \in [M -> [M -> SUBSET M]]

\* A plan notifies a peer at most once, waits for it at most once and for one peer at a time.
Once(M, F) ==
  \A i, p, q \in M : \A k, l \in Nat :
    /\ Notifies(F[i], k, p) /\ Notifies(F[i], l, p) => k = l
    /\ Awaits(F[i], k, p) /\ Awaits(F[i], l, p) => k = l
    /\ Awaits(F[i], k, p) /\ Awaits(F[i], k, q) => p = q

\* A member notifies exactly the members that wait for it.
Matched(M, F) ==
  \A i, p \in M : (\E k \in Nat : Notifies(F[i], k, p)) <=> (\E k \in Nat : Awaits(F[p], k, i))

\* Before step k of its plan, i has waited for a notification that tells of x.
Told(M, F, C, i, k, x) ==
  \E l \in Nat : \E w \in M : l < k /\ Awaits(F[i], l, w) /\ x \in C[w][i]

\* When i sends a notification it has been told of everybody the notification tells of.
Informed(M, F, C) ==
  \A i, p \in M : \A k \in Nat : Notifies(F[i], k, p) =>
    \A x \in C[i][p] : x = i \/ Told(M, F, C, i, k, x)

\* At the end of its plan a member has been told of every other one.
Complete(M, F, C) ==
  \A i, x \in M : x = i \/ Told(M, F, C, i, Len(F[i]) + 1, x)

Sound(M, F, C) ==
  /\ Plans(M, F, C)
  /\ Once(M, F) /\ Matched(M, F)
  /\ Informed(M, F, C) /\ Complete(M, F, C)

\* A member is found at its index.
LEMMA IndexOfMember ==
  ASSUME NEW peers \in Seq(Nat), Distinct(peers), NEW rank \in Members(peers)
  PROVE  IndexOf(peers, rank) \in 0..(Len(peers) - 1) /\ At(peers, IndexOf(peers, rank)) = rank
<1>1. PICK k \in DOMAIN peers : peers[k] = rank
  BY DEF Members
<1>2. k - 1 \in 0..(Len(peers) - 1) /\ At(peers, k - 1) = rank
  BY <1>1 DEF At
<1> QED
  BY <1>2 DEF IndexOf

\* Different indices are different members.
LEMMA AtInjective ==
  ASSUME NEW peers \in Seq(Nat), Distinct(peers)
  PROVE  /\ \A a \in 0..(Len(peers) - 1) : At(peers, a) \in Members(peers)
         /\ \A a, b \in 0..(Len(peers) - 1) : At(peers, a) = At(peers, b) => a = b
  BY DEF At, Members, Distinct

-----------------------------------------------------------------------------
(* LinearBarrier.                                                          *)

\* A follower tells of itself, the leader of everybody.
LinearCarries(peers, i) == IF i = peers[1] THEN Members(peers) ELSE {i}

\* Plans where a leader waits for all the others, in the order w, and then answers them.
LeaderShape(M, F, C, leader, n, w) ==
  /\ Plans(M, F, C) /\ leader \in M /\ n \in Nat /\ w \in [1..n -> M \ {leader}]
  /\ \A x \in M \ {leader} : \E k \in 1..n : x = w[k]
  /\ \A k, l \in 1..n : w[k] = w[l] => k = l
  /\ \A k \in Nat, p \in M :
       /\ Notifies(F[leader], k, p) <=> k = n + 1 /\ p # leader
       /\ Awaits(F[leader], k, p) <=> k \in 1..n /\ p = w[k]
  /\ \A i \in M \ {leader}, k \in Nat, p \in M :
       /\ Notifies(F[i], k, p) <=> k = 1 /\ p = leader
       /\ Awaits(F[i], k, p) <=> k = 2 /\ p = leader
  /\ Len(F[leader]) = n + 1 /\ \A i \in M \ {leader} : Len(F[i]) = 2
  /\ \A i, p, x \in M : x \in C[i][p] <=> i = leader \/ x = i

\* Such plans are sound.
LEMMA LeaderShapeSound ==
  ASSUME NEW M, NEW F, NEW C, NEW leader, NEW n, NEW w, LeaderShape(M, F, C, leader, n, w)
  PROVE  Sound(M, F, C)
<1> USE DEF LeaderShape
<1>1. Once(M, F)
  BY DEF Once
<1>2. Matched(M, F)
  <2>1. ASSUME NEW i \in M, NEW p \in M
        PROVE  (\E k \in Nat : Notifies(F[i], k, p)) <=> (i = leader) # (p = leader)
    <3>1. n + 1 \in Nat /\ 1 \in Nat
      OBVIOUS
    <3>2. CASE i = leader
      BY <3>1, <3>2
    <3>3. CASE i # leader
      BY <3>1, <3>3
    <3> QED
      BY <3>2, <3>3
  <2>2. ASSUME NEW i \in M, NEW p \in M
        PROVE  (\E k \in Nat : Awaits(F[p], k, i)) <=> (i = leader) # (p = leader)
    <3>1. 1..n \subseteq Nat /\ 2 \in Nat
      OBVIOUS
    <3>2. CASE p = leader
      BY <3>1, <3>2
    <3>3. CASE p # leader
      BY <3>1, <3>3
    <3> QED
      BY <3>2, <3>3
  <2> QED
    BY <2>1, <2>2 DEF Matched
<1>3. ASSUME NEW x \in M \ {leader}, NEW m \in Nat, m > n PROVE Told(M, F, C, leader, m, x)
  <2>1. PICK k \in 1..n : x = w[k]
    OBVIOUS
  <2>2. k \in Nat /\ k < m /\ Awaits(F[leader], k, x)
    BY <1>3, <2>1
  <2>3. x \in C[x][leader]
    OBVIOUS
  <2> QED
    BY <2>2, <2>3 DEF Told
<1>4. Informed(M, F, C)
  <2> SUFFICES ASSUME NEW i \in M, NEW p \in M, NEW k \in Nat, Notifies(F[i], k, p),
                      NEW x \in C[i][p], x # i
               PROVE  Told(M, F, C, i, k, x)
    BY DEF Informed
  <2>1. x \in M
    BY DEF Plans
  <2>2. i = leader /\ k = n + 1 /\ x \in M \ {leader}
    BY <2>1
  <2> QED
    BY <1>3, <2>2
<1>5. ASSUME NEW i \in M \ {leader}, NEW x \in M PROVE Told(M, F, C, i, 3, x)
  <2>1. 2 \in Nat /\ 2 < 3 /\ Awaits(F[i], 2, leader) /\ x \in C[leader][i]
    OBVIOUS
  <2> QED
    BY <2>1 DEF Told
<1>6. Complete(M, F, C)
  <2> SUFFICES ASSUME NEW i \in M, NEW x \in M, x # i
               PROVE  Told(M, F, C, i, Len(F[i]) + 1, x)
    BY DEF Complete
  <2>1. CASE i = leader
    BY <1>3, <2>1
  <2>2. CASE i # leader
    <3>0. Len(F[i]) = 2
      BY <2>2 DEF Plans
    <3>1. Len(F[i]) + 1 = 3
      BY <3>0
    <3> QED
      BY <1>5, <2>2, <3>1
  <2> QED
    BY <2>1, <2>2
<1> QED
  BY <1>1, <1>2, <1>4, <1>6 DEF Sound

\* The linear plans are sound.
LEMMA LinearSound ==
  ASSUME NEW peers \in Seq(Nat), Distinct(peers)
  PROVE  Sound(Members(peers),
               [i \in Members(peers) |-> LinearPlan(peers, i)],
               [i \in Members(peers) |-> [p \in Members(peers) |-> LinearCarries(peers, i)]])
<1> DEFINE M == Members(peers)
           F == [i \in M |-> LinearPlan(peers, i)]
           C == [i \in M |-> [p \in M |-> LinearCarries(peers, i)]]
           N == Len(peers)
<1>1. CASE N < 2
  <2>1. \A i \in M : F[i] = << >>
    BY <1>1 DEF LinearPlan
  <2>2. \A i, x \in M : x = i
    BY <1>1 DEF Members
  <2>3. C \in [M -> [M -> SUBSET M]]
    BY DEF LinearCarries
  <2>4. F \in [M -> Seq(StepsOver(M))]
    BY <1>1 DEF LinearPlan
  <2> HIDE DEF F, C, M
  <2>5. \A i, p \in M, k \in Nat : ~Notifies(F[i], k, p) /\ ~Awaits(F[i], k, p)
    BY <2>1 DEF Notifies, Awaits
  <2>6. Sound(M, F, C)
    BY <2>2, <2>3, <2>4, <2>5
    DEF Sound, Plans, Once, Matched, Informed, Complete
  <2> QED
    BY <2>6 DEF F, C, M
<1>2. CASE N >= 2
  <2> DEFINE leader == peers[1]
             lead == [k \in 1..N |-> IF k < N THEN WaitStep(peers[k + 1])
                                              ELSE NotifyStep(Members(Tail(peers)))]
             follow == <<NotifyStep({leader}), WaitStep(leader)>>
             n == N - 1
             w == [k \in 1..n |-> peers[k + 1]]
  <2>1. N \in Nat /\ n \in Nat /\ n + 1 = N /\ peers \in [1..N -> Nat]
        /\ M = {peers[k] : k \in 1..N} /\ leader \in M
    BY <1>2 DEF Members
  <2>2. \A k \in 1..n : w[k] \in M \ {leader}
    <3> SUFFICES ASSUME NEW k \in 1..n PROVE w[k] \in M \ {leader}
      OBVIOUS
    <3>1. w[k] = peers[k + 1] /\ k + 1 \in 1..N /\ 1 \in 1..N /\ k + 1 # 1
      BY <2>1
    <3> QED
      BY <2>1, <3>1 DEF Distinct
  <2>3. \A k, l \in 1..n : w[k] = w[l] => k = l
    <3> SUFFICES ASSUME NEW k \in 1..n, NEW l \in 1..n, w[k] = w[l] PROVE k = l
      OBVIOUS
    <3>1. /\ w[k] = peers[k + 1] /\ k + 1 \in DOMAIN peers
          /\ w[l] = peers[l + 1] /\ l + 1 \in DOMAIN peers
      BY <2>1
    <3>2. k + 1 = l + 1
      BY <3>1 DEF Distinct
    <3> QED
      BY <3>2
  <2>4. ASSUME NEW x \in M \ {leader} PROVE \E k \in 1..n : x = w[k]
    <3>1. PICK k \in 1..N : x = peers[k]
      BY <2>1
    <3>2. k - 1 \in 1..n /\ x = peers[(k - 1) + 1]
      BY <2>1, <3>1
    <3> QED
      BY <3>2
  <2>5. Members(Tail(peers)) = M \ {leader}
    <3>1. /\ DOMAIN Tail(peers) = 1..n
          /\ \A k \in 1..n : Tail(peers)[k] = w[k]
      BY <1>2
    <3> HIDE DEF w, n, M, leader
    <3>2. Members(Tail(peers)) = {w[k] : k \in 1..n}
      BY <3>1 DEF Members
    <3> QED
      BY <3>2, <2>2, <2>4
  <2>6. /\ \A i \in M : F[i] = IF i = leader THEN lead ELSE follow
        /\ \A i, p, x \in M : x \in C[i][p] <=> i = leader \/ x = i
    BY <1>2 DEF LinearPlan, LinearCarries
  <2>7. /\ DOMAIN lead = 1..N
        /\ \A k \in 1..n : lead[k].op = "wait" /\ lead[k].peers = {w[k]}
        /\ lead[N].op = "notify" /\ lead[N].peers = M \ {leader}
    BY <1>2, <2>1, <2>5 DEF WaitStep, NotifyStep
  <2>8. /\ DOMAIN follow = 1..2
        /\ follow[1].op = "notify" /\ follow[1].peers = {leader}
        /\ follow[2].op = "wait" /\ follow[2].peers = {leader}
    BY DEF WaitStep, NotifyStep
  <2>9. /\ lead \in Seq(StepsOver(M)) /\ Len(lead) = N
        /\ follow \in Seq(StepsOver(M)) /\ Len(follow) = 2
    <3>1. \A k \in 1..N : lead[k] \in StepsOver(M)
      BY <2>1, <2>5 DEF StepsOver, WaitStep, NotifyStep
    <3>2. follow \in Seq(StepsOver(M)) /\ Len(follow) = 2
      BY <2>1 DEF StepsOver, WaitStep, NotifyStep
    <3> QED
      BY <3>1, <3>2, <2>1
  <2>10. Plans(M, F, C)
    <3>1. \A i \in M : F[i] \in Seq(StepsOver(M))
      BY <2>6, <2>9, Zenon
    <3>2. F \in [M -> Seq(StepsOver(M))]
      BY <3>1, Zenon
    <3>3. \A i \in M : LinearCarries(peers, i) \in SUBSET M
      BY DEF LinearCarries
    <3>4. C \in [M -> [M -> SUBSET M]]
      BY <3>3, Zenon
    <3> QED
      BY <3>2, <3>4, Zenon DEF Plans
  <2>11. w \in [1..n -> M \ {leader}]
    BY <2>2
  <2> HIDE DEF F, C, M, N, n, w, lead, follow, leader
  <2>12. ASSUME NEW k \in Nat, NEW p \in M
         PROVE  /\ Notifies(F[leader], k, p) <=> k = n + 1 /\ p # leader
                /\ Awaits(F[leader], k, p) <=> k \in 1..n /\ p = w[k]
    <3>1. k \in 1..N <=> k \in 1..n \/ k = N
      BY <1>2, <2>1
    <3>2. F[leader] = lead /\ N \notin 1..n
      BY <2>1, <2>6
    <3> QED
      BY <3>1, <3>2, <2>1, <2>7 DEF Notifies, Awaits
  <2>13. ASSUME NEW i \in M \ {leader}, NEW k \in Nat, NEW p \in M
         PROVE  /\ Notifies(F[i], k, p) <=> k = 1 /\ p = leader
                /\ Awaits(F[i], k, p) <=> k = 2 /\ p = leader
    BY <2>6, <2>8 DEF Notifies, Awaits
  <2>14. Len(F[leader]) = n + 1 /\ \A i \in M \ {leader} : Len(F[i]) = 2
    BY <2>1, <2>6, <2>9
  <2>15. leader \in M /\ n \in Nat
    BY <2>1
  <2>16. LeaderShape(M, F, C, leader, n, w)
    BY <2>3, <2>4, <2>6, <2>10, <2>11, <2>12, <2>13, <2>14, <2>15 DEF LeaderShape
  <2>17. Sound(M, F, C)
    BY <2>16, LeaderShapeSound
  <2> QED
    BY <2>17 DEF F, C, M
<1> QED
  BY <1>1, <1>2

-----------------------------------------------------------------------------
(* DisseminationBarrier: the members stand on a ring of n indices.         *)

\* The index d places to the right, and to the left; how far b is to the right of a.
Rightward(n, a, d) == IF a + d < n THEN a + d ELSE a + d - n
Leftward(n, a, d) == IF d <= a THEN a - d ELSE a + n - d
Distance(n, a, b) == IF a <= b THEN b - a ELSE b + n - a

\* Plans where round r notifies at distance D[r] to the right and waits at that distance to
\* the left; a notification tells of the members between the last it skips and its sender.
RingShape(M, F, C, n, R, D, idx) ==
  /\ Plans(M, F, C) /\ n \in Nat /\ R \in Nat /\ D \in [1..R -> 1..(n - 1)]
  /\ idx \in [M -> 0..(n - 1)]
  /\ \A a \in 0..(n - 1) : \E p \in M : idx[p] = a
  /\ \A p, q \in M : idx[p] = idx[q] => p = q
  /\ \A q, r \in 1..R : D[q] = D[r] => q = r
  /\ \A r \in 1..R, t \in Nat : 1 <= t /\ t < D[r] => \E q \in 1..R : q < r /\ D[q] <= t /\ t < 2 * D[q]
  /\ \A t \in 1..(n - 1) : \E q \in 1..R : D[q] <= t /\ t < 2 * D[q]
  /\ \A i, p \in M, k \in Nat :
       /\ Notifies(F[i], k, p) <=> \E r \in 1..R : k = 2 * r - 1 /\ idx[p] = Rightward(n, idx[i], D[r])
       /\ Awaits(F[i], k, p) <=> \E r \in 1..R : k = 2 * r /\ idx[p] = Leftward(n, idx[i], D[r])
  /\ \A i \in M : Len(F[i]) = 2 * R
  /\ \A i, p, x \in M : x \in C[i][p] <=> Distance(n, idx[x], idx[i]) < Distance(n, idx[i], idx[p])

\* Such plans are sound.
LEMMA RingShapeSound ==
  ASSUME NEW M, NEW F, NEW C, NEW n, NEW R, NEW D, NEW idx, RingShape(M, F, C, n, R, D, idx)
  PROVE  Sound(M, F, C)
<1>01. n \in Nat /\ R \in Nat /\ D \in [1..R -> 1..(n - 1)] /\ idx \in [M -> 0..(n - 1)]
  BY DEF RingShape
<1>02. /\ \A a \in 0..(n - 1) : \E p \in M : idx[p] = a
       /\ \A p, q \in M : idx[p] = idx[q] => p = q
  BY DEF RingShape
<1>03. \A q, r \in 1..R : D[q] = D[r] => q = r
  BY DEF RingShape
<1>04. /\ \A r \in 1..R, t \in Nat :
            1 <= t /\ t < D[r] => \E q \in 1..R : q < r /\ D[q] <= t /\ t < 2 * D[q]
       /\ \A t \in 1..(n - 1) : \E q \in 1..R : D[q] <= t /\ t < 2 * D[q]
  BY DEF RingShape
<1>0. \A i, p \in M, k \in Nat :
        /\ Notifies(F[i], k, p) <=> \E r \in 1..R : k = 2 * r - 1 /\ idx[p] = Rightward(n, idx[i], D[r])
        /\ Awaits(F[i], k, p) <=> \E r \in 1..R : k = 2 * r /\ idx[p] = Leftward(n, idx[i], D[r])
  BY Zenon DEF RingShape
<1>05. ASSUME NEW i \in M, NEW p \in M, NEW k \in Nat
       PROVE  Notifies(F[i], k, p) <=> \E r \in 1..R : k = 2 * r - 1 /\ idx[p] = Rightward(n, idx[i], D[r])
  BY <1>0, Zenon
<1>06. ASSUME NEW i \in M, NEW p \in M, NEW k \in Nat
       PROVE  Awaits(F[i], k, p) <=> \E r \in 1..R : k = 2 * r /\ idx[p] = Leftward(n, idx[i], D[r])
  BY <1>0, Zenon
<1>07. /\ F \in [M -> Seq(StepsOver(M))] /\ C \in [M -> [M -> SUBSET M]]
       /\ \A i \in M : Len(F[i]) = 2 * R
  BY DEF RingShape, Plans
<1>08. \A i, p, x \in M : x \in C[i][p] <=> Distance(n, idx[x], idx[i]) < Distance(n, idx[i], idx[p])
  BY DEF RingShape
<1>1. ASSUME NEW i \in M, NEW p \in M, NEW r \in 1..R
      PROVE  /\ idx[i] \in 0..(n - 1) /\ idx[p] \in 0..(n - 1) /\ D[r] \in 1..(n - 1)
             /\ idx[p] = Rightward(n, idx[i], D[r]) <=> idx[i] = Leftward(n, idx[p], D[r])
             /\ idx[p] = Rightward(n, idx[i], D[r]) <=> Distance(n, idx[i], idx[p]) = D[r]
  <2>1. n \in Nat /\ idx[i] \in 0..(n - 1) /\ idx[p] \in 0..(n - 1) /\ D[r] \in 1..(n - 1)
    BY <1>01
  <2>2. idx[p] = Rightward(n, idx[i], D[r]) <=> idx[i] = Leftward(n, idx[p], D[r])
    BY <2>1 DEF Rightward, Leftward
  <2>3. idx[p] = Rightward(n, idx[i], D[r]) <=> Distance(n, idx[i], idx[p]) = D[r]
    BY <2>1 DEF Rightward, Distance
  <2> QED
    BY <2>1, <2>2, <2>3
<1>2. Once(M, F)
  <2> SUFFICES ASSUME NEW i \in M, NEW p \in M, NEW q \in M, NEW k \in Nat, NEW l \in Nat
               PROVE  /\ Notifies(F[i], k, p) /\ Notifies(F[i], l, p) => k = l
                      /\ Awaits(F[i], k, p) /\ Awaits(F[i], l, p) => k = l
                      /\ Awaits(F[i], k, p) /\ Awaits(F[i], k, q) => p = q
    BY DEF Once
  <2>1. ASSUME Notifies(F[i], k, p), Notifies(F[i], l, p) PROVE k = l
    <3>1. PICK r \in 1..R : k = 2 * r - 1 /\ idx[p] = Rightward(n, idx[i], D[r])
      BY <1>05, <2>1
    <3>2. PICK s \in 1..R : l = 2 * s - 1 /\ idx[p] = Rightward(n, idx[i], D[s])
      BY <1>05, <2>1
    <3>3. Distance(n, idx[i], idx[p]) = D[r] /\ Distance(n, idx[i], idx[p]) = D[s]
      BY <3>1, <3>2, <1>1
    <3> QED
      BY <1>03, <3>1, <3>2, <3>3
  <2>2. ASSUME Awaits(F[i], k, p), Awaits(F[i], l, p) PROVE k = l
    <3>1. PICK r \in 1..R : k = 2 * r /\ idx[p] = Leftward(n, idx[i], D[r])
      BY <1>06, <2>2
    <3>2. PICK s \in 1..R : l = 2 * s /\ idx[p] = Leftward(n, idx[i], D[s])
      BY <1>06, <2>2
    <3>3. Distance(n, idx[p], idx[i]) = D[r] /\ Distance(n, idx[p], idx[i]) = D[s]
      BY <3>1, <3>2, <1>1
    <3> QED
      BY <1>03, <3>1, <3>2, <3>3
  <2>3. ASSUME Awaits(F[i], k, p), Awaits(F[i], k, q) PROVE p = q
    <3>1. PICK r \in 1..R : k = 2 * r /\ idx[p] = Leftward(n, idx[i], D[r])
      BY <1>06, <2>3
    <3>2. PICK s \in 1..R : k = 2 * s /\ idx[q] = Leftward(n, idx[i], D[s])
      BY <1>06, <2>3
    <3>3. r = s
      BY <3>1, <3>2
    <3> QED
      BY <1>02, <3>1, <3>2, <3>3
  <2> QED
    BY <2>1, <2>2, <2>3
<1>3. Matched(M, F)
  <2> SUFFICES ASSUME NEW i \in M, NEW p \in M
               PROVE  (\E k \in Nat : Notifies(F[i], k, p)) <=> (\E k \in Nat : Awaits(F[p], k, i))
    BY DEF Matched
  <2>1. (\E k \in Nat : Notifies(F[i], k, p))
          <=> \E r \in 1..R : idx[p] = Rightward(n, idx[i], D[r])
    <3>1. ASSUME NEW r \in 1..R, idx[p] = Rightward(n, idx[i], D[r])
          PROVE  2 * r - 1 \in Nat /\ Notifies(F[i], 2 * r - 1, p)
      BY <1>05, <3>1
    <3> QED
      BY <1>05, <3>1
  <2>2. (\E k \in Nat : Awaits(F[p], k, i))
          <=> \E r \in 1..R : idx[i] = Leftward(n, idx[p], D[r])
    <3>1. ASSUME NEW r \in 1..R, idx[i] = Leftward(n, idx[p], D[r])
          PROVE  2 * r \in Nat /\ Awaits(F[p], 2 * r, i)
      BY <1>06, <3>1
    <3> QED
      BY <1>06, <3>1
  <2> QED
    BY <2>1, <2>2, <1>1
<1>4. ASSUME NEW i \in M, NEW x \in M, NEW q \in 1..R, NEW k \in Nat, 2 * q < k,
             D[q] <= Distance(n, idx[x], idx[i]), Distance(n, idx[x], idx[i]) < 2 * D[q]
      PROVE  Told(M, F, C, i, k, x)
  <2>1. n \in Nat /\ idx[x] \in 0..(n - 1) /\ idx[i] \in 0..(n - 1) /\ D[q] \in 1..(n - 1)
    BY <1>01
  <2>2. Leftward(n, idx[i], D[q]) \in 0..(n - 1)
    BY <2>1 DEF Leftward
  <2>3. PICK w \in M : idx[w] = Leftward(n, idx[i], D[q])
    BY <1>02, <2>2
  <2>4. 2 * q \in Nat /\ Awaits(F[i], 2 * q, w)
    BY <1>06, <2>3
  <2>5. /\ Distance(n, idx[x], Leftward(n, idx[i], D[q])) = Distance(n, idx[x], idx[i]) - D[q]
        /\ Distance(n, Leftward(n, idx[i], D[q]), idx[i]) = D[q]
        /\ Distance(n, idx[x], idx[i]) \in 0..(n - 1)
    BY <1>4, <2>1 DEF Leftward, Distance
  <2>6. Distance(n, idx[x], idx[w]) < Distance(n, idx[w], idx[i])
    BY <1>4, <2>1, <2>3, <2>5
  <2>7. x \in C[w][i]
    BY <1>08, <2>6
  <2> QED
    BY <1>4, <2>4, <2>7 DEF Told
<1>5. ASSUME NEW i \in M, NEW x \in M, x # i
      PROVE  Distance(n, idx[x], idx[i]) \in 1..(n - 1)
  <2>1. n \in Nat /\ idx[x] \in 0..(n - 1) /\ idx[i] \in 0..(n - 1) /\ idx[x] # idx[i]
    BY <1>01, <1>02, <1>5
  <2> QED
    BY <2>1 DEF Distance
<1>6. Informed(M, F, C)
  <2> SUFFICES ASSUME NEW i \in M, NEW p \in M, NEW k \in Nat, Notifies(F[i], k, p),
                      NEW x \in C[i][p], x # i
               PROVE  Told(M, F, C, i, k, x)
    BY DEF Informed
  <2>1. x \in M
    BY <1>07
  <2>2. PICK r \in 1..R : k = 2 * r - 1 /\ idx[p] = Rightward(n, idx[i], D[r])
    BY <1>05
  <2>3. Distance(n, idx[i], idx[p]) = D[r]
    BY <1>1, <2>2
  <2>4. Distance(n, idx[x], idx[i]) < D[r] /\ Distance(n, idx[x], idx[i]) \in 1..(n - 1)
    BY <1>5, <1>08, <2>1, <2>3
  <2>5. PICK q \in 1..R : /\ q < r /\ D[q] <= Distance(n, idx[x], idx[i])
                          /\ Distance(n, idx[x], idx[i]) < 2 * D[q]
    BY <1>04, <2>4
  <2>6. 2 * q < k
    BY <2>2, <2>5
  <2> QED
    BY <1>4, <2>1, <2>5, <2>6
<1>7. Complete(M, F, C)
  <2> SUFFICES ASSUME NEW i \in M, NEW x \in M, x # i
               PROVE  Told(M, F, C, i, Len(F[i]) + 1, x)
    BY DEF Complete
  <2>1. Distance(n, idx[x], idx[i]) \in 1..(n - 1)
    BY <1>5
  <2>2. PICK q \in 1..R : /\ D[q] <= Distance(n, idx[x], idx[i])
                          /\ Distance(n, idx[x], idx[i]) < 2 * D[q]
    BY <1>04, <2>1
  <2>3. Len(F[i]) = 2 * R
    BY <1>07
  <2>4. Len(F[i]) + 1 \in Nat /\ 2 * q < Len(F[i]) + 1
    BY <1>01, <2>3
  <2> QED
    BY <1>4, <2>2, <2>4
<1> QED
  BY <1>07, <1>2, <1>3, <1>6, <1>7 DEF Sound, Plans

\* A notification over distance d tells of the d members that end with its sender.
DisseminationCarries(peers, i, p) ==
  LET n == Len(peers)
  IN  {x \in Members(peers) : Distance(n, IndexOf(peers, x), IndexOf(peers, i))
                                 < Distance(n, IndexOf(peers, i), IndexOf(peers, p))}

\* The steps of a dissemination plan.
LEMMA DisseminationSteps ==
  ASSUME NEW peers \in Seq(Nat), Distinct(peers), Len(peers) >= 2, NEW i \in Members(peers),
         NEW r \in 1..Rounds(Len(peers))
  PROVE  LET n == Len(peers)
             d == Pow2[r - 1]
             a == IndexOf(peers, i)
             plan == DisseminationPlan(peers, i)
         IN  /\ d \in 1..(n - 1)
             /\ plan[2 * r - 1] = NotifyStep({At(peers, Rightward(n, a, d))})
             /\ plan[2 * r] = WaitStep(At(peers, Leftward(n, a, d)))
<1> DEFINE n == Len(peers)
           R == Rounds(n)
           d == Pow2[r - 1]
           a == IndexOf(peers, i)
           pairs == round_pairs(a, n)
           pair(k) == pairs[(k + 1) \div 2]
           plan == [k \in 1..(2 * R) |->
                      IF k % 2 = 1 THEN NotifyStep({At(peers, pair(k)[1])})
                                   ELSE WaitStep(At(peers, pair(k)[2]))]
<1>1. n \in Nat /\ n >= 2
  OBVIOUS
<1>2. a \in 0..(n - 1)
  BY IndexOfMember
<1>3. pairs = [q \in 1..R |-> <<(a + Pow2[q - 1]) % n, (a + n - Pow2[q - 1]) % n>>]
  BY DEF round_pairs
<1> HIDE DEF n, a
<1>4. R \in Nat /\ r \in 1..R /\ \A q \in 0..(R - 1) : Pow2[q] < n
  BY <1>1, RoundsDef DEF n
<1>5. r - 1 \in Nat /\ r - 1 \in 0..(R - 1)
  BY <1>4
<1>6. d \in Nat /\ d < n /\ d > 0
  <2>1. Pow2 \in [Nat -> Nat]
    BY Pow2Def
  <2>2. d \in Nat
    BY <1>5, <2>1
  <2>3. d > r - 1
    BY <1>5, Pow2Grows
  <2>4. d < n
    BY <1>4, <1>5
  <2> QED
    BY <1>5, <2>2, <2>3, <2>4
<1>7. Len(pairs) = R /\ pairs[r] = <<(a + d) % n, (a + n - d) % n>>
  BY <1>3, <1>4
<1>8. DisseminationPlan(peers, i) = plan
  BY <1>1, <1>7 DEF DisseminationPlan, DisseminationPlanAt, n, a
<1> HIDE DEF pairs, d, R
<1>14. (a + d) % n = Rightward(n, a, d)
  <2> DEFINE s == a + d
  <2>1. s \in 0..(2 * n - 1) /\ n > 0
    BY <1>1, <1>2, <1>6
  <2> HIDE DEF s
  <2>2. s % n = IF s < n THEN s ELSE s - n
    BY <1>1, <2>1, WrapAround
  <2> QED
    BY <1>1, <1>2, <1>6, <2>2 DEF Rightward, s
<1>15. (a + n - d) % n = Leftward(n, a, d)
  <2> DEFINE s == a + n - d
  <2>1. s \in 0..(2 * n - 1) /\ n > 0
    BY <1>1, <1>2, <1>6
  <2> HIDE DEF s
  <2>2. s % n = IF s < n THEN s ELSE s - n
    BY <1>1, <2>1, WrapAround
  <2> QED
    BY <1>1, <1>2, <1>6, <2>2 DEF Leftward, s
<1>9. /\ 2 * r - 1 \in 1..(2 * R) /\ (2 * r - 1) % 2 = 1 /\ ((2 * r - 1) + 1) \div 2 = r
      /\ 2 * r \in 1..(2 * R) /\ (2 * r) % 2 = 0 /\ (2 * r + 1) \div 2 = r
  BY <1>4
<1>10. plan[2 * r - 1] = NotifyStep({At(peers, pairs[r][1])})
  BY <1>9
<1>11. plan[2 * r] = WaitStep(At(peers, pairs[r][2]))
  BY <1>9
<1>12. pairs[r][1] = Rightward(n, a, d) /\ pairs[r][2] = Leftward(n, a, d)
  BY <1>7, <1>14, <1>15
<1>13. d \in 1..(n - 1)
  BY <1>1, <1>6
<1> QED
  BY <1>8, <1>10, <1>11, <1>12, <1>13 DEF n, d, a

\* Two steps a round.
LEMMA DisseminationLength ==
  ASSUME NEW peers \in Seq(Nat), Distinct(peers), Len(peers) >= 2, NEW i \in Members(peers)
  PROVE  LET plan == DisseminationPlan(peers, i)
             R == Rounds(Len(peers))
         IN  R \in Nat /\ DOMAIN plan = 1..(2 * R) /\ plan = [k \in 1..(2 * R) |-> plan[k]]
<1> DEFINE R == Rounds(Len(peers))
           pairs == round_pairs(IndexOf(peers, i), Len(peers))
<1>1. Len(peers) \in Nat
  OBVIOUS
<1>2. R \in Nat
  BY <1>1, RoundsDef
<1>3. Len(pairs) = R
  BY <1>2 DEF round_pairs
<1> HIDE DEF pairs
<1>4. DisseminationPlan(peers, i) =
        [k \in 1..(2 * Len(pairs)) |->
           LET pair == pairs[(k + 1) \div 2]
           IN  IF k % 2 = 1 THEN NotifyStep({At(peers, pair[1])}) ELSE WaitStep(At(peers, pair[2]))]
  BY <1>1 DEF DisseminationPlan, DisseminationPlanAt, pairs
<1> QED
  BY <1>2, <1>3, <1>4

\* Steps 2 r - 1 and 2 r belong to round r.
LEMMA RoundOfStep ==
  ASSUME NEW R \in Nat, NEW k \in 1..(2 * R)
  PROVE  \E r \in 1..R : k = 2 * r - 1 \/ k = 2 * r
<1> DEFINE r == (k + 1) \div 2
<1>1. r \in 1..R /\ (k = 2 * r - 1 \/ k = 2 * r)
  OBVIOUS
<1> QED
  BY <1>1

\* The dissemination plans are sound.
LEMMA DisseminationSound ==
  ASSUME NEW peers \in Seq(Nat), Distinct(peers)
  PROVE  Sound(Members(peers),
               [i \in Members(peers) |-> DisseminationPlan(peers, i)],
               [i \in Members(peers) |->
                  [p \in Members(peers) |-> DisseminationCarries(peers, i, p)]])
<1> DEFINE M == Members(peers)
           F == [i \in M |-> DisseminationPlan(peers, i)]
           C == [i \in M |-> [p \in M |-> DisseminationCarries(peers, i, p)]]
           n == Len(peers)
<1>1. CASE n < 2
  <2>1. \A i \in M : F[i] = << >>
    BY <1>1 DEF DisseminationPlan, DisseminationPlanAt
  <2>2. \A i, x \in M : x = i
    BY <1>1 DEF Members
  <2>3. C \in [M -> [M -> SUBSET M]]
    BY DEF DisseminationCarries
  <2>4. F \in [M -> Seq(StepsOver(M))]
    BY <1>1 DEF DisseminationPlan, DisseminationPlanAt
  <2> HIDE DEF F, C, M
  <2>5. \A i, p \in M, k \in Nat : ~Notifies(F[i], k, p) /\ ~Awaits(F[i], k, p)
    BY <2>1 DEF Notifies, Awaits
  <2>6. Sound(M, F, C)
    BY <2>2, <2>3, <2>4, <2>5
    DEF Sound, Plans, Once, Matched, Informed, Complete
  <2> QED
    BY <2>6 DEF F, C, M
<1>2. CASE n >= 2
  <2> DEFINE R == Rounds(n)
             D == [r \in 1..R |-> Pow2[r - 1]]
             idx == [p \in M |-> IndexOf(peers, p)]
  <2>1. n \in Nat /\ R \in Nat
    BY RoundsDef
  <2>2. /\ idx \in [M -> 0..(n - 1)]
        /\ \A p \in M : At(peers, idx[p]) = p
    BY IndexOfMember
  <2>3. /\ \A a \in 0..(n - 1) : At(peers, a) \in M
        /\ \A p \in M, a \in 0..(n - 1) : p = At(peers, a) <=> idx[p] = a
    BY <2>2, AtInjective
  <2>4. ASSUME NEW i \in M, NEW r \in 1..R
        PROVE  /\ D[r] = Pow2[r - 1] /\ D[r] \in 1..(n - 1)
               /\ F[i][2 * r - 1] = NotifyStep({At(peers, Rightward(n, idx[i], D[r]))})
               /\ F[i][2 * r] = WaitStep(At(peers, Leftward(n, idx[i], D[r])))
    BY <1>2, DisseminationSteps
  <2>5. ASSUME NEW i \in M
        PROVE  DOMAIN F[i] = 1..(2 * R) /\ F[i] = [k \in 1..(2 * R) |-> F[i][k]]
    BY <1>2, DisseminationLength
  <2>6. \A i, p, x \in M : x \in C[i][p] <=> Distance(n, idx[x], idx[i]) < Distance(n, idx[i], idx[p])
    BY DEF DisseminationCarries
  <2>7. C \in [M -> [M -> SUBSET M]]
    BY DEF DisseminationCarries
  <2>8. F = [i \in M |-> F[i]] /\ D = [r \in 1..R |-> D[r]]
    OBVIOUS
  <2>9. peers[1] \in M
    BY <1>2 DEF Members
  <2>10. \A r \in 1..R : D[r] = Pow2[r - 1] /\ D[r] \in 1..(n - 1)
    BY <2>4, <2>9
  <2>11. n <= Pow2[R]
    BY <2>1, RoundsDef
  <2> HIDE DEF F, C, M, D, idx, n, R
  <2>12. \A q, r \in 1..R : D[q] = D[r] => q = r
    <3>1. \A q, r \in 1..R : q < r => D[q] < D[r]
      <4> SUFFICES ASSUME NEW q \in 1..R, NEW r \in 1..R, q < r PROVE D[q] < D[r]
        OBVIOUS
      <4>1. q - 1 \in Nat /\ r - 1 \in Nat /\ q - 1 < r - 1
        BY <2>1
      <4>2. 2 * Pow2[q - 1] <= Pow2[r - 1]
        BY <4>1, Pow2Doubles
      <4> QED
        BY <2>1, <2>10, <4>2
    <3> QED
      BY <2>1, <2>10, <3>1
  <2>13. ASSUME NEW r \in 1..R, NEW t \in Nat, 1 <= t, t < D[r]
         PROVE  \E q \in 1..R : q < r /\ D[q] <= t /\ t < 2 * D[q]
    <3>1. r - 1 \in Nat /\ t < Pow2[r - 1]
      BY <2>1, <2>10, <2>13
    <3>2. PICK q \in 1..(r - 1) : Pow2[q - 1] <= t /\ t < 2 * Pow2[q - 1]
      BY <2>13, <3>1, RangeOfDistance
    <3>3. q \in 1..R /\ q < r
      BY <2>1, <3>2
    <3> QED
      BY <2>10, <3>2, <3>3
  <2>14. ASSUME NEW t \in 1..(n - 1) PROVE \E q \in 1..R : D[q] <= t /\ t < 2 * D[q]
    <3>1. t \in Nat /\ 1 <= t /\ t < Pow2[R]
      BY <2>1, <2>11, Pow2Def
    <3>2. PICK q \in 1..R : Pow2[q - 1] <= t /\ t < 2 * Pow2[q - 1]
      BY <2>1, <3>1, RangeOfDistance
    <3> QED
      BY <2>10, <3>2
  <2>15. ASSUME NEW i \in M, NEW r \in 1..R
         PROVE  /\ Rightward(n, idx[i], D[r]) \in 0..(n - 1)
                /\ Leftward(n, idx[i], D[r]) \in 0..(n - 1)
    <3>1. idx[i] \in 0..(n - 1) /\ D[r] \in 1..(n - 1)
      BY <2>2, <2>10
    <3> DEFINE a == idx[i]
               d == D[r]
    <3>2. a \in 0..(n - 1) /\ d \in 1..(n - 1)
      BY <3>1
    <3> HIDE DEF a, d
    <3>3. Rightward(n, a, d) \in 0..(n - 1) /\ Leftward(n, a, d) \in 0..(n - 1)
      BY <2>1, <3>2 DEF Rightward, Leftward
    <3> QED
      BY <3>3 DEF a, d
  <2>16. ASSUME NEW i \in M, NEW p \in M, NEW r \in 1..R
         PROVE  /\ 2 * r - 1 \in Nat /\ 2 * r \in Nat
                /\ Notifies(F[i], 2 * r - 1, p) <=> idx[p] = Rightward(n, idx[i], D[r])
                /\ ~Awaits(F[i], 2 * r - 1, p)
                /\ Awaits(F[i], 2 * r, p) <=> idx[p] = Leftward(n, idx[i], D[r])
                /\ ~Notifies(F[i], 2 * r, p)
    <3> DEFINE odd == 2 * r - 1
               even == 2 * r
               x == At(peers, Rightward(n, idx[i], D[r]))
               y == At(peers, Leftward(n, idx[i], D[r]))
    <3>1. odd \in 1..(2 * R) /\ even \in 1..(2 * R) /\ odd \in Nat /\ even \in Nat
      BY <2>1
    <3>2. F[i][odd] = NotifyStep({x}) /\ F[i][even] = WaitStep(y)
      BY <2>4
    <3>3. /\ p = x <=> idx[p] = Rightward(n, idx[i], D[r])
          /\ p = y <=> idx[p] = Leftward(n, idx[i], D[r])
      BY <2>3, <2>15
    <3> HIDE DEF odd, even, x, y
    <3>4. F[i][odd].op = "notify" /\ F[i][odd].peers = {x}
      BY <3>2 DEF NotifyStep
    <3>5. F[i][even].op = "wait" /\ F[i][even].peers = {y}
      BY <3>2 DEF WaitStep
    <3>6. odd \in DOMAIN F[i] /\ even \in DOMAIN F[i]
      BY <2>5, <3>1
    <3>7. /\ Notifies(F[i], odd, p) <=> p = x
          /\ ~Awaits(F[i], odd, p)
          /\ Awaits(F[i], even, p) <=> p = y
          /\ ~Notifies(F[i], even, p)
      BY <3>4, <3>5, <3>6 DEF Notifies, Awaits
    <3> QED
      BY <3>1, <3>3, <3>7 DEF odd, even
  <2>17. ASSUME NEW i \in M, NEW p \in M, NEW k \in Nat, Notifies(F[i], k, p) \/ Awaits(F[i], k, p)
         PROVE  \E r \in 1..R : k = 2 * r - 1 \/ k = 2 * r
    <3>1. k \in 1..(2 * R)
      BY <2>5, <2>17 DEF Notifies, Awaits
    <3> QED
      BY <2>1, <3>1, RoundOfStep
  <2>18. ASSUME NEW i \in M, NEW p \in M, NEW k \in Nat
         PROVE  Notifies(F[i], k, p) <=>
                  \E r \in 1..R : k = 2 * r - 1 /\ idx[p] = Rightward(n, idx[i], D[r])
    <3>1. ASSUME Notifies(F[i], k, p)
          PROVE  \E r \in 1..R : k = 2 * r - 1 /\ idx[p] = Rightward(n, idx[i], D[r])
      <4>1. PICK r \in 1..R : k = 2 * r - 1 \/ k = 2 * r
        BY <2>17, <3>1
      <4>2. k = 2 * r - 1
        BY <2>16, <3>1, <4>1
      <4> QED
        BY <2>16, <3>1, <4>2
    <3>2. ASSUME NEW r \in 1..R, k = 2 * r - 1, idx[p] = Rightward(n, idx[i], D[r])
          PROVE  Notifies(F[i], k, p)
      BY <2>16, <3>2
    <3> QED
      BY <3>1, <3>2
  <2>19. ASSUME NEW i \in M, NEW p \in M, NEW k \in Nat
         PROVE  Awaits(F[i], k, p) <=>
                  \E r \in 1..R : k = 2 * r /\ idx[p] = Leftward(n, idx[i], D[r])
    <3>1. ASSUME Awaits(F[i], k, p)
          PROVE  \E r \in 1..R : k = 2 * r /\ idx[p] = Leftward(n, idx[i], D[r])
      <4>1. PICK r \in 1..R : k = 2 * r - 1 \/ k = 2 * r
        BY <2>17, <3>1
      <4>2. k = 2 * r
        BY <2>16, <3>1, <4>1
      <4> QED
        BY <2>16, <3>1, <4>2
    <3>2. ASSUME NEW r \in 1..R, k = 2 * r, idx[p] = Leftward(n, idx[i], D[r])
          PROVE  Awaits(F[i], k, p)
      BY <2>16, <3>2
    <3> QED
      BY <3>1, <3>2
  <2>20. ASSUME NEW i \in M PROVE F[i] \in Seq(StepsOver(M)) /\ Len(F[i]) = 2 * R
    <3>1. ASSUME NEW k \in 1..(2 * R) PROVE F[i][k] \in StepsOver(M)
      <4>1. PICK r \in 1..R : k = 2 * r - 1 \/ k = 2 * r
        BY <2>1, RoundOfStep
      <4>2. /\ At(peers, Rightward(n, idx[i], D[r])) \in M
            /\ At(peers, Leftward(n, idx[i], D[r])) \in M
        BY <2>3, <2>15
      <4>3. \A x \in M : NotifyStep({x}) \in StepsOver(M) /\ WaitStep(x) \in StepsOver(M)
        BY DEF StepsOver, NotifyStep, WaitStep
      <4>4. F[i][2 * r - 1] \in StepsOver(M) /\ F[i][2 * r] \in StepsOver(M)
        BY <2>4, <4>2, <4>3
      <4> QED
        BY <4>1, <4>4
    <3> DEFINE m == 2 * R
    <3>2. m \in Nat
      BY <2>1
    <3>3. F[i] \in [1..m -> StepsOver(M)]
      BY <2>5, <3>1
    <3> HIDE DEF m
    <3>4. F[i] \in Seq(StepsOver(M)) /\ Len(F[i]) = m
      BY <3>2, <3>3
    <3> QED
      BY <3>4 DEF m
  <2>21. Plans(M, F, C)
    BY <2>7, <2>8, <2>20 DEF Plans
  <2>22. D \in [1..R -> 1..(n - 1)]
    BY <2>8, <2>10
  <2>23. /\ \A a \in 0..(n - 1) : \E p \in M : idx[p] = a
         /\ \A p, q \in M : idx[p] = idx[q] => p = q
    BY <2>2, <2>3
  <2>24. RingShape(M, F, C, n, R, D, idx)
    <3>1. \A r \in 1..R, t \in Nat :
            1 <= t /\ t < D[r] => \E q \in 1..R : q < r /\ D[q] <= t /\ t < 2 * D[q]
      BY <2>13
    <3>2. \A t \in 1..(n - 1) : \E q \in 1..R : D[q] <= t /\ t < 2 * D[q]
      BY <2>14
    <3>3. \A i, p \in M, k \in Nat :
            /\ Notifies(F[i], k, p) <=>
                 \E r \in 1..R : k = 2 * r - 1 /\ idx[p] = Rightward(n, idx[i], D[r])
            /\ Awaits(F[i], k, p) <=>
                 \E r \in 1..R : k = 2 * r /\ idx[p] = Leftward(n, idx[i], D[r])
      BY <2>18, <2>19
    <3>4. \A i \in M : Len(F[i]) = 2 * R
      BY <2>20
    <3> QED
      BY <2>1, <2>2, <2>6, <2>12, <2>21, <2>22, <2>23, <3>1, <3>2, <3>3, <3>4, Zenon
      DEF RingShape
  <2>25. Sound(M, F, C)
    BY <2>24, RingShapeSound
  <2> QED
    BY <2>25 DEF F, C, M
<1>3. n \in Nat
  OBVIOUS
<1> QED
  BY <1>1, <1>2, <1>3

-----------------------------------------------------------------------------
(* BinaryTreeBarrier: the members stand on a tree of the indices below n.  *)

IsChild(b, a) == b = 2 * a + 1 \/ b = 2 * a + 2

\* A set that holds the parent of each of its indices.
ParentClosed(S) == \A b \in S, a \in Nat : IsChild(b, a) => a \in S

\* b is in the subtree of a: the way up from b leads through a.
Below(n, b, a) == \A S \in SUBSET (0..(n - 1)) : b \in S /\ ParentClosed(S) => a \in S

\* An index has at most one parent.
LEMMA OneParent ==
  ASSUME NEW b \in Nat, NEW a \in Nat, NEW c \in Nat, IsChild(b, a)
  PROVE  IsChild(b, c) <=> c = a
  BY DEF IsChild

\* Every index but the root's has a parent, which is smaller.
LEMMA ParentExists ==
  ASSUME NEW b \in Nat, b > 0
  PROVE  \E a \in Nat : a < b /\ IsChild(b, a) /\ a = (b - 1) \div 2
<1> DEFINE a == (b - 1) \div 2
<1>1. a \in Nat /\ a < b /\ IsChild(b, a)
  BY DEF IsChild
<1> QED
  BY <1>1

\* The root is above everybody.
LEMMA BelowRoot ==
  ASSUME NEW n \in Nat, NEW b \in 0..(n - 1)
  PROVE  Below(n, b, 0)
<1> SUFFICES ASSUME NEW S \in SUBSET (0..(n - 1)), b \in S, ParentClosed(S)
             PROVE  0 \in S
  BY DEF Below
<1>1. S \in SUBSET Nat /\ S # {}
  OBVIOUS
<1>2. PICK a \in S : \A c \in S : a <= c
  BY <1>1, LeastElement
<1>3. CASE a = 0
  BY <1>3
<1>4. CASE a > 0
  <2>1. PICK c \in Nat : c < a /\ IsChild(a, c)
    BY <1>1, <1>4, ParentExists
  <2>2. c \in S
    BY <2>1 DEF ParentClosed
  <2> QED
    BY <1>1, <1>2, <2>1, <2>2
<1> QED
  BY <1>1, <1>3, <1>4

\* Who is below an index, and not there, is below one of its children.
LEMMA BelowChild ==
  ASSUME NEW n \in Nat, NEW a \in 0..(n - 1), NEW b \in 0..(n - 1), Below(n, b, a), b # a
  PROVE  \E c \in 0..(n - 1) : IsChild(c, a) /\ Below(n, b, c)
<1> DEFINE Away(S, c) == S \in SUBSET (0..(n - 1)) /\ b \in S /\ ParentClosed(S) /\ c \notin S
           c1 == 2 * a + 1
           c2 == 2 * a + 2
<1> SUFFICES ASSUME \A c \in 0..(n - 1) : IsChild(c, a) => ~Below(n, b, c)
             PROVE  FALSE
  OBVIOUS
<1>1. ASSUME NEW c \in Nat, IsChild(c, a) PROVE \E S : Away(S, c)
  <2>1. CASE c < n
    <3>1. c \in 0..(n - 1) /\ ~Below(n, b, c)
      BY <1>1, <2>1
    <3> QED
      BY <3>1 DEF Below
  <2>2. CASE c >= n
    <3>1. 0..(n - 1) \in SUBSET (0..(n - 1)) /\ b \in 0..(n - 1) /\ c \notin 0..(n - 1)
      BY <2>2
    <3>2. ParentClosed(0..(n - 1))
      <4> SUFFICES ASSUME NEW x \in 0..(n - 1), NEW y \in Nat, IsChild(x, y)
                   PROVE  y \in 0..(n - 1)
        BY DEF ParentClosed
      <4> QED
        BY DEF IsChild
    <3> QED
      BY <3>1, <3>2
  <2> QED
    BY <2>1, <2>2
<1>2. c1 \in Nat /\ c2 \in Nat /\ IsChild(c1, a) /\ IsChild(c2, a)
  BY DEF IsChild
<1>3. PICK S1 : Away(S1, c1)
  BY <1>1, <1>2
<1>4. PICK S2 : Away(S2, c2)
  BY <1>1, <1>2
<1> DEFINE S == (S1 \cap S2) \ {a}
<1>5. S \in SUBSET (0..(n - 1)) /\ b \in S /\ a \notin S
  BY <1>3, <1>4
<1>6. ParentClosed(S)
  <2> SUFFICES ASSUME NEW x \in S, NEW y \in Nat, IsChild(x, y)
               PROVE  y \in S
    BY DEF ParentClosed
  <2>1. y \in S1 /\ y \in S2
    BY <1>3, <1>4 DEF ParentClosed
  <2>2. x # c1 /\ x # c2
    BY <1>3, <1>4
  <2>3. y # a
    BY <2>2 DEF IsChild
  <2> QED
    BY <2>1, <2>3
<1> QED
  BY <1>5, <1>6 DEF Below

\* Plans where a member waits for its children, tells its parent, waits for the parent and
\* tells its children; c[i] is how many children i has.
TreeShape(M, F, C, n, c, idx) ==
  /\ Plans(M, F, C) /\ n \in Nat /\ c \in [M -> Nat] /\ idx \in [M -> 0..(n - 1)]
  /\ \A a \in 0..(n - 1) : \E p \in M : idx[p] = a
  /\ \A p, q \in M : idx[p] = idx[q] => p = q
  /\ \A i, p \in M : IsChild(idx[p], idx[i]) => idx[p] - 2 * idx[i] <= c[i]
  /\ \A i \in M : Len(F[i]) = IF idx[i] = 0 THEN c[i] + 1 ELSE c[i] + 3
  /\ \A i, p \in M, k \in Nat : Notifies(F[i], k, p) <=>
       \/ IsChild(idx[i], idx[p]) /\ k = c[i] + 1
       \/ IsChild(idx[p], idx[i]) /\ k = Len(F[i])
  /\ \A i, p \in M, k \in Nat : Awaits(F[i], k, p) <=>
       \/ IsChild(idx[p], idx[i]) /\ k = idx[p] - 2 * idx[i]
       \/ IsChild(idx[i], idx[p]) /\ k = c[i] + 2
  /\ \A i, p, x \in M : x \in C[i][p] <=> (IsChild(idx[i], idx[p]) => Below(n, idx[x], idx[i]))

\* Such plans are sound.
LEMMA TreeShapeSound ==
  ASSUME NEW M, NEW F, NEW C, NEW n, NEW c, NEW idx, TreeShape(M, F, C, n, c, idx)
  PROVE  Sound(M, F, C)
<1>1. n \in Nat /\ c \in [M -> Nat] /\ idx \in [M -> 0..(n - 1)]
  BY DEF TreeShape
<1>2. /\ \A a \in 0..(n - 1) : \E p \in M : idx[p] = a
      /\ \A p, q \in M : idx[p] = idx[q] => p = q
  BY DEF TreeShape
<1>3. \A i, p \in M : IsChild(idx[p], idx[i]) => idx[p] - 2 * idx[i] <= c[i]
  BY DEF TreeShape
<1>4. /\ F \in [M -> Seq(StepsOver(M))] /\ C \in [M -> [M -> SUBSET M]]
      /\ \A i \in M : Len(F[i]) = IF idx[i] = 0 THEN c[i] + 1 ELSE c[i] + 3
  BY DEF TreeShape, Plans
<1>5. ASSUME NEW i \in M, NEW p \in M, NEW k \in Nat
      PROVE  Notifies(F[i], k, p) <=> \/ IsChild(idx[i], idx[p]) /\ k = c[i] + 1
                                      \/ IsChild(idx[p], idx[i]) /\ k = Len(F[i])
  BY DEF TreeShape
<1>6. ASSUME NEW i \in M, NEW p \in M, NEW k \in Nat
      PROVE  Awaits(F[i], k, p) <=> \/ IsChild(idx[p], idx[i]) /\ k = idx[p] - 2 * idx[i]
                                    \/ IsChild(idx[i], idx[p]) /\ k = c[i] + 2
  BY DEF TreeShape
<1>7. \A i, p, x \in M : x \in C[i][p] <=> (IsChild(idx[i], idx[p]) => Below(n, idx[x], idx[i]))
  BY DEF TreeShape
<1>8. ASSUME NEW i \in M, NEW p \in M, NEW q \in M
      PROVE  /\ idx[i] \in Nat /\ idx[p] \in Nat /\ c[i] \in Nat
             /\ IsChild(idx[i], idx[p]) => ~IsChild(idx[p], idx[i]) /\ idx[i] # 0
             /\ IsChild(idx[i], idx[p]) /\ IsChild(idx[i], idx[q]) => p = q
             /\ IsChild(idx[p], idx[i]) => idx[p] - 2 * idx[i] \in 1..2
  <2>1. idx[i] \in Nat /\ idx[p] \in Nat /\ idx[q] \in Nat /\ c[i] \in Nat
    BY <1>1
  <2>2. IsChild(idx[i], idx[p]) => ~IsChild(idx[p], idx[i]) /\ idx[i] # 0
    BY <2>1 DEF IsChild
  <2>3. IsChild(idx[i], idx[p]) /\ IsChild(idx[i], idx[q]) => idx[p] = idx[q]
    BY <2>1 DEF IsChild
  <2>4. IsChild(idx[p], idx[i]) => idx[p] - 2 * idx[i] \in 1..2
    BY <2>1 DEF IsChild
  <2> QED
    BY <1>2, <2>1, <2>2, <2>3, <2>4
<1>9. Once(M, F)
  <2> SUFFICES ASSUME NEW i \in M, NEW p \in M, NEW q \in M, NEW k \in Nat, NEW l \in Nat
               PROVE  /\ Notifies(F[i], k, p) /\ Notifies(F[i], l, p) => k = l
                      /\ Awaits(F[i], k, p) /\ Awaits(F[i], l, p) => k = l
                      /\ Awaits(F[i], k, p) /\ Awaits(F[i], k, q) => p = q
    BY DEF Once
  <2>1. Notifies(F[i], k, p) /\ Notifies(F[i], l, p) => k = l
    BY <1>5, <1>8
  <2>2. Awaits(F[i], k, p) /\ Awaits(F[i], l, p) => k = l
    BY <1>6, <1>8
  <2>3. ASSUME Awaits(F[i], k, p), Awaits(F[i], k, q) PROVE p = q
    <3>1. CASE IsChild(idx[p], idx[i]) /\ IsChild(idx[q], idx[i])
      <4>1. k = idx[p] - 2 * idx[i] /\ k = idx[q] - 2 * idx[i]
        BY <1>6, <1>8, <2>3, <3>1
      <4>2. idx[p] = idx[q]
        BY <1>8, <4>1
      <4> QED
        BY <1>2, <4>2
    <3>2. CASE IsChild(idx[i], idx[p]) /\ IsChild(idx[i], idx[q])
      BY <1>8, <3>2
    <3>3. ASSUME NEW x \in M, NEW y \in M, IsChild(idx[x], idx[i]), IsChild(idx[i], idx[y]),
                 Awaits(F[i], k, x), Awaits(F[i], k, y)
          PROVE  FALSE
      <4>1. k <= c[i] /\ k = c[i] + 2
        BY <1>3, <1>6, <1>8, <3>3
      <4> QED
        BY <1>8, <4>1
    <3> QED
      BY <1>6, <2>3, <3>1, <3>2, <3>3
  <2> QED
    BY <2>1, <2>2, <2>3
<1>10. Matched(M, F)
  <2> SUFFICES ASSUME NEW i \in M, NEW p \in M
               PROVE  (\E k \in Nat : Notifies(F[i], k, p)) <=> (\E k \in Nat : Awaits(F[p], k, i))
    BY DEF Matched
  <2>1. c[i] + 1 \in Nat /\ c[p] + 2 \in Nat /\ Len(F[i]) \in Nat
    BY <1>4, <1>8
  <2>2. IsChild(idx[i], idx[p]) => idx[i] - 2 * idx[p] \in Nat
    BY <1>8
  <2>3. (\E k \in Nat : Notifies(F[i], k, p)) <=> IsChild(idx[i], idx[p]) \/ IsChild(idx[p], idx[i])
    BY <1>5, <2>1
  <2>4. (\E k \in Nat : Awaits(F[p], k, i)) <=> IsChild(idx[i], idx[p]) \/ IsChild(idx[p], idx[i])
    BY <1>6, <2>1, <2>2
  <2> QED
    BY <2>3, <2>4
<1>11. ASSUME NEW i \in M, NEW x \in M, x # i, Below(n, idx[x], idx[i]), NEW k \in Nat, k > c[i]
       PROVE  Told(M, F, C, i, k, x)
  <2>1. idx[i] \in 0..(n - 1) /\ idx[x] \in 0..(n - 1) /\ idx[x] # idx[i]
    BY <1>1, <1>2, <1>11
  <2>2. PICK b \in 0..(n - 1) : IsChild(b, idx[i]) /\ Below(n, idx[x], b)
    BY <1>1, <1>11, <2>1, BelowChild
  <2>3. PICK w \in M : idx[w] = b
    BY <1>2
  <2>4. /\ idx[w] - 2 * idx[i] \in Nat /\ idx[w] - 2 * idx[i] < k
        /\ Awaits(F[i], idx[w] - 2 * idx[i], w)
    <3>1. IsChild(idx[w], idx[i])
      BY <2>2, <2>3
    <3>2. idx[w] - 2 * idx[i] \in Nat /\ idx[w] - 2 * idx[i] <= c[i] /\ c[i] \in Nat
      BY <1>3, <1>8, <3>1
    <3> QED
      BY <1>6, <1>11, <3>1, <3>2
  <2>5. x \in C[w][i]
    BY <1>7, <2>2, <2>3
  <2> QED
    BY <2>4, <2>5 DEF Told
<1>12. ASSUME NEW i \in M, NEW x \in M, x # i, NEW k \in Nat, k >= Len(F[i])
       PROVE  Told(M, F, C, i, k, x)
  <2>1. CASE idx[i] = 0
    <3>1. Below(n, idx[x], idx[i])
      BY <1>1, <2>1, BelowRoot
    <3>2. k > c[i]
      BY <1>4, <1>8, <1>12, <2>1
    <3> QED
      BY <1>11, <1>12, <3>1, <3>2
  <2>2. CASE idx[i] # 0
    <3>1. PICK a \in Nat : a < idx[i] /\ IsChild(idx[i], a)
      BY <1>8, <2>2, ParentExists
    <3>2. a \in 0..(n - 1)
      BY <1>1, <3>1
    <3>3. PICK w \in M : idx[w] = a
      BY <1>2, <3>2
    <3>4. c[i] + 2 \in Nat /\ c[i] + 2 < k /\ Awaits(F[i], c[i] + 2, w)
      <4>1. c[i] \in Nat /\ k >= c[i] + 3
        BY <1>4, <1>8, <1>12, <2>2
      <4> QED
        BY <1>6, <3>1, <3>3, <4>1
    <3>5. x \in C[w][i]
      BY <1>7, <1>8, <3>1, <3>3
    <3> QED
      BY <3>4, <3>5 DEF Told
  <2> QED
    BY <2>1, <2>2
<1>13. Informed(M, F, C)
  <2> SUFFICES ASSUME NEW i \in M, NEW p \in M, NEW k \in Nat, Notifies(F[i], k, p),
                      NEW x \in C[i][p], x # i
               PROVE  Told(M, F, C, i, k, x)
    BY DEF Informed
  <2>1. x \in M
    BY <1>4
  <2>2. CASE IsChild(idx[i], idx[p]) /\ k = c[i] + 1
    <3>1. Below(n, idx[x], idx[i]) /\ k > c[i]
      BY <1>7, <1>8, <2>1, <2>2
    <3> QED
      BY <1>11, <2>1, <3>1
  <2>3. CASE k = Len(F[i])
    BY <1>12, <2>1, <2>3
  <2> QED
    BY <1>5, <2>2, <2>3
<1>14. Complete(M, F, C)
  <2> SUFFICES ASSUME NEW i \in M, NEW x \in M, x # i
               PROVE  Told(M, F, C, i, Len(F[i]) + 1, x)
    BY DEF Complete
  <2>1. Len(F[i]) \in Nat
    BY <1>4
  <2>2. Len(F[i]) + 1 \in Nat /\ Len(F[i]) + 1 >= Len(F[i])
    BY <2>1
  <2> QED
    BY <1>12, <2>2
<1> QED
  BY <1>4, <1>9, <1>10, <1>13, <1>14 DEF Sound, Plans

\* A parent is told of the subtree of its child, a child of everybody.
BinaryTreeCarries(peers, i, p) ==
  {x \in Members(peers) :
     IsChild(IndexOf(peers, i), IndexOf(peers, p))
       => Below(Len(peers), IndexOf(peers, x), IndexOf(peers, i))}

\* How many children an index has.
ChildCount(a, n) == IF 2 * a + 2 < n THEN 2 ELSE IF 2 * a + 1 < n THEN 1 ELSE 0

\* Its children, in order.
LEMMA ChildIndices ==
  ASSUME NEW n \in Nat, NEW a \in 0..(n - 1)
  PROVE  /\ ChildCount(a, n) \in 0..2
         /\ child_indices(a, n) = [k \in 1..ChildCount(a, n) |-> 2 * a + k]
         /\ \A k \in 1..ChildCount(a, n) : 2 * a + k \in 0..(n - 1)
         /\ \A b \in 0..(n - 1) : IsChild(b, a) <=> b - 2 * a \in 1..ChildCount(a, n)
<1>1. {k \in 1..2 : 2 * a + k < n} = 1..ChildCount(a, n)
  BY DEF ChildCount
<1>2. child_indices(a, n) = [k \in {m \in 1..2 : 2 * a + m < n} |-> 2 * a + k]
  BY DEF child_indices
<1>3. child_indices(a, n) = [k \in 1..ChildCount(a, n) |-> 2 * a + k]
  BY <1>1, <1>2
<1>4. ChildCount(a, n) \in 0..2 /\ \A k \in 1..ChildCount(a, n) : 2 * a + k \in 0..(n - 1)
  BY DEF ChildCount
<1>5. \A b \in 0..(n - 1) : IsChild(b, a) <=> b - 2 * a \in 1..ChildCount(a, n)
  BY DEF ChildCount, IsChild
<1> QED
  BY <1>3, <1>4, <1>5

\* Appending one step.
LEMMA AppendOne ==
  ASSUME NEW S, NEW s \in Seq(S), NEW d \in S, NEW t, t = s \o << >> \o <<d>>
  PROVE  /\ t \in Seq(S) /\ Len(t) = Len(s) + 1 /\ t[Len(s) + 1] = d
         /\ \A k \in 1..Len(s) : t[k] = s[k]
<1>1. s \o << >> = s
  OBVIOUS
<1> QED
  BY <1>1

\* The steps of a tree plan: the children, the parent if there is one, the children.
LEMMA BinaryTreeSteps ==
  ASSUME NEW peers \in Seq(Nat), Distinct(peers), Len(peers) >= 2, NEW i \in Members(peers)
  PROVE  LET n == Len(peers)
             a == IndexOf(peers, i)
             c == ChildCount(a, n)
             up == At(peers, (a - 1) \div 2)
             down == {At(peers, 2 * a + k) : k \in 1..c}
             collect == [k \in 1..c |-> WaitStep(At(peers, 2 * a + k))]
             plan == BinaryTreePlan(peers, i)
         IN  plan = collect \o (IF a > 0 THEN <<NotifyStep({up}), WaitStep(up)>> ELSE << >>)
                            \o <<NotifyStep(down)>>
<1> DEFINE n == Len(peers)
           a == IndexOf(peers, i)
           c == ChildCount(a, n)
           children == child_indices(a, n)
           up == At(peers, (a - 1) \div 2)
           down == {At(peers, 2 * a + k) : k \in 1..c}
           collect == [k \in 1..c |-> WaitStep(At(peers, 2 * a + k))]
           parent == {At(peers, p) : p \in parent_index(a)}
           exchange == IF a > 0 THEN <<NotifyStep({up}), WaitStep(up)>> ELSE << >>
<1>1. n \in Nat /\ a \in 0..(n - 1)
  BY IndexOfMember
<1>2. children = [k \in 1..c |-> 2 * a + k]
  BY <1>1, ChildIndices
<1>3. {At(peers, children[k]) : k \in DOMAIN children} = down
  BY <1>2
<1>4. [k \in DOMAIN children |-> WaitStep(At(peers, children[k]))] = collect
  BY <1>2
<1>5. parent = IF a > 0 THEN {up} ELSE {}
  BY DEF parent_index
<1>6. (CHOOSE p \in {up} : TRUE) = up
  OBVIOUS
<1> DEFINE inner == IF parent = {} THEN << >>
                    ELSE LET p == CHOOSE p \in parent : TRUE IN <<NotifyStep({p}), WaitStep(p)>>
<1>7. inner = exchange
  <2>1. CASE a > 0
    <3>1. parent = {up}
      BY <1>5, <2>1
    <3> HIDE DEF parent
    <3>2. inner = <<NotifyStep({up}), WaitStep(up)>>
      BY <3>1, <1>6
    <3> QED
      BY <2>1, <3>2
  <2>2. CASE ~(a > 0)
    BY <1>5, <2>2
  <2> QED
    BY <2>1, <2>2
<1>8. BinaryTreePlan(peers, i) =
        [k \in DOMAIN children |-> WaitStep(At(peers, children[k]))] \o inner
          \o <<NotifyStep({At(peers, children[k]) : k \in DOMAIN children})>>
  <2>1. ~(Len(peers) < 2)
    OBVIOUS
  <2> QED
    BY <2>1, Zenon DEF BinaryTreePlan, BinaryTreePlanAt
<1> HIDE DEF n, a, c, children, up, down, collect, parent, exchange, inner
<1>9. BinaryTreePlan(peers, i) = collect \o exchange \o <<NotifyStep(down)>>
  BY <1>3, <1>4, <1>7, <1>8
<1> QED
  BY <1>9 DEF n, a, c, up, down, collect, exchange

\* The binary tree plans are sound.
LEMMA BinaryTreeSound ==
  ASSUME NEW peers \in Seq(Nat), Distinct(peers)
  PROVE  Sound(Members(peers),
               [i \in Members(peers) |-> BinaryTreePlan(peers, i)],
               [i \in Members(peers) |->
                  [p \in Members(peers) |-> BinaryTreeCarries(peers, i, p)]])
<1> DEFINE M == Members(peers)
           F == [i \in M |-> BinaryTreePlan(peers, i)]
           C == [i \in M |-> [p \in M |-> BinaryTreeCarries(peers, i, p)]]
           n == Len(peers)
<1>1. CASE n < 2
  <2>1. \A i \in M : F[i] = << >>
    BY <1>1 DEF BinaryTreePlan, BinaryTreePlanAt
  <2>2. \A i, x \in M : x = i
    BY <1>1 DEF Members
  <2>3. C \in [M -> [M -> SUBSET M]]
    BY DEF BinaryTreeCarries
  <2>4. F \in [M -> Seq(StepsOver(M))]
    BY <1>1 DEF BinaryTreePlan, BinaryTreePlanAt
  <2> HIDE DEF F, C, M
  <2>5. \A i, p \in M, k \in Nat : ~Notifies(F[i], k, p) /\ ~Awaits(F[i], k, p)
    BY <2>1 DEF Notifies, Awaits
  <2>6. Sound(M, F, C)
    BY <2>2, <2>3, <2>4, <2>5
    DEF Sound, Plans, Once, Matched, Informed, Complete
  <2> QED
    BY <2>6 DEF F, C, M
<1>2. CASE n >= 2
  <2> DEFINE idx == [p \in M |-> IndexOf(peers, p)]
             c == [p \in M |-> ChildCount(idx[p], n)]
             up(i) == At(peers, (idx[i] - 1) \div 2)
             down(i) == {At(peers, 2 * idx[i] + k) : k \in 1..c[i]}
             collect(i) == [k \in 1..c[i] |-> WaitStep(At(peers, 2 * idx[i] + k))]
             exchange(i) == IF idx[i] > 0 THEN <<NotifyStep({up(i)}), WaitStep(up(i))>> ELSE << >>
  <2>1. n \in Nat /\ idx \in [M -> 0..(n - 1)] /\ \A p \in M : At(peers, idx[p]) = p
    BY IndexOfMember
  <2>2. /\ \A a \in 0..(n - 1) : At(peers, a) \in M
        /\ \A p \in M, a \in 0..(n - 1) : p = At(peers, a) <=> idx[p] = a
    BY <2>1, AtInjective
  <2>3. \A i \in M : F[i] = collect(i) \o exchange(i) \o <<NotifyStep(down(i))>>
    BY <1>2, BinaryTreeSteps
  <2>4. C \in [M -> [M -> SUBSET M]]
    BY DEF BinaryTreeCarries
  <2>5. \A i, p, x \in M : x \in C[i][p] <=> (IsChild(idx[i], idx[p]) => Below(n, idx[x], idx[i]))
    BY DEF BinaryTreeCarries
  <2>6. F = [i \in M |-> F[i]] /\ c = [i \in M |-> c[i]]
    OBVIOUS
  <2>7. \A i \in M : c[i] = ChildCount(idx[i], n)
    OBVIOUS
  <2> HIDE DEF F, C, M, n, idx, c
  <2>8. ASSUME NEW i \in M
        PROVE  /\ c[i] \in 0..2
               /\ \A k \in 1..c[i] : 2 * idx[i] + k \in 0..(n - 1)
               /\ \A p \in M : IsChild(idx[p], idx[i]) <=> idx[p] - 2 * idx[i] \in 1..c[i]
    <3>1. idx[i] \in 0..(n - 1)
      BY <2>1
    <3> QED
      BY <2>1, <2>7, <3>1, ChildIndices
  <2>9. c \in [M -> Nat]
    BY <2>6, <2>8
  <2>10. ASSUME NEW i \in M, idx[i] > 0
         PROVE  /\ up(i) \in M
                /\ \A p \in M : p = up(i) <=> IsChild(idx[i], idx[p])
    <3>1. PICK a \in Nat : a < idx[i] /\ IsChild(idx[i], a) /\ a = (idx[i] - 1) \div 2
      <4>1. idx[i] \in Nat
        BY <2>1
      <4> QED
        BY <2>10, <4>1, ParentExists
    <3>2. a \in 0..(n - 1) /\ up(i) = At(peers, a)
      BY <2>1, <3>1
    <3>3. \A p \in M : IsChild(idx[i], idx[p]) <=> idx[p] = a
      <4> SUFFICES ASSUME NEW p \in M PROVE IsChild(idx[i], idx[p]) <=> idx[p] = a
        OBVIOUS
      <4>1. idx[i] \in Nat /\ idx[p] \in Nat
        BY <2>1
      <4> QED
        BY <3>1, <4>1, OneParent
    <3> QED
      BY <2>2, <3>2, <3>3
  <2>11. ASSUME NEW i \in M, NEW k \in 1..c[i], NEW p \in M
         PROVE  /\ At(peers, 2 * idx[i] + k) \in M
                /\ p = At(peers, 2 * idx[i] + k) <=> IsChild(idx[p], idx[i]) /\ k = idx[p] - 2 * idx[i]
    <3>1. 2 * idx[i] + k \in 0..(n - 1)
      BY <2>8
    <3>2. p = At(peers, 2 * idx[i] + k) <=> idx[p] = 2 * idx[i] + k
      BY <2>2, <3>1
    <3>3. idx[p] \in Nat /\ idx[i] \in Nat /\ c[i] \in Nat
      BY <2>1, <2>9
    <3>4. idx[p] = 2 * idx[i] + k <=> k = idx[p] - 2 * idx[i]
      BY <3>3
    <3>5. k = idx[p] - 2 * idx[i] => IsChild(idx[p], idx[i])
      BY <2>8
    <3> QED
      BY <2>2, <3>1, <3>2, <3>4, <3>5
  <2>12. ASSUME NEW i \in M
         PROVE  /\ down(i) \in SUBSET M
                /\ \A p \in M : p \in down(i) <=> IsChild(idx[p], idx[i])
    <3>1. down(i) \in SUBSET M
      BY <2>11
    <3>2. ASSUME NEW p \in M, p \in down(i) PROVE IsChild(idx[p], idx[i])
      BY <2>11, <3>2
    <3>3. ASSUME NEW p \in M, IsChild(idx[p], idx[i]) PROVE p \in down(i)
      <4>1. idx[p] - 2 * idx[i] \in 1..c[i]
        BY <2>8, <3>3
      <4>2. p = At(peers, 2 * idx[i] + (idx[p] - 2 * idx[i]))
        BY <2>11, <3>3, <4>1
      <4> QED
        BY <4>1, <4>2
    <3> QED
      BY <3>1, <3>2, <3>3
  <2>13. ASSUME NEW i \in M
         PROVE  /\ F[i] \in Seq(StepsOver(M))
                /\ Len(F[i]) = IF idx[i] = 0 THEN c[i] + 1 ELSE c[i] + 3
                /\ \A k \in 1..c[i] : F[i][k] = WaitStep(At(peers, 2 * idx[i] + k))
                /\ idx[i] > 0 => /\ F[i][c[i] + 1] = NotifyStep({up(i)})
                                 /\ F[i][c[i] + 2] = WaitStep(up(i))
                /\ F[i][Len(F[i])] = NotifyStep(down(i))
    <3>1. \A x \in M, S \in SUBSET M : NotifyStep(S) \in StepsOver(M) /\ WaitStep(x) \in StepsOver(M)
      BY DEF StepsOver, NotifyStep, WaitStep
    <3> DEFINE col == collect(i)
               m == c[i]
               e1 == NotifyStep({up(i)})
               e2 == WaitStep(up(i))
               d == NotifyStep(down(i))
    <3>2. m \in Nat /\ idx[i] \in Nat
      BY <2>1, <2>9
    <3>3. col \in Seq(StepsOver(M)) /\ Len(col) = m
          /\ \A k \in 1..m : col[k] = WaitStep(At(peers, 2 * idx[i] + k))
      <4>1. \A k \in 1..c[i] : WaitStep(At(peers, 2 * idx[i] + k)) \in StepsOver(M)
        BY <2>11, <3>1
      <4>2. col \in [1..m -> StepsOver(M)]
            /\ \A k \in 1..m : col[k] = WaitStep(At(peers, 2 * idx[i] + k))
        BY <4>1
      <4> HIDE DEF col, m
      <4> QED
        BY <3>2, <4>2
    <3>4. d \in StepsOver(M)
      BY <2>12 DEF StepsOver, NotifyStep
    <3>5. idx[i] = 0 => F[i] = col \o << >> \o <<d>>
      <4>1. idx[i] = 0 => exchange(i) = << >>
        OBVIOUS
      <4> HIDE DEF exchange, collect, down
      <4> QED
        BY <2>3, <4>1
    <3>6. idx[i] > 0 => F[i] = col \o <<e1, e2>> \o <<d>>
      BY <2>3
    <3>7. idx[i] > 0 => e1 \in StepsOver(M) /\ e2 \in StepsOver(M)
      BY <2>10 DEF StepsOver, NotifyStep, WaitStep
    <3> HIDE DEF col, d, m, e1, e2
    <3>8. CASE idx[i] = 0
      <4>1. /\ F[i] \in Seq(StepsOver(M)) /\ Len(F[i]) = m + 1 /\ F[i][m + 1] = d
            /\ \A k \in 1..m : F[i][k] = col[k]
        <5> DEFINE t == F[i]
        <5>1. col \in Seq(StepsOver(M)) /\ Len(col) = m /\ t = col \o << >> \o <<d>>
          BY <3>3, <3>5, <3>8
        <5> HIDE DEF t
        <5>2. /\ t \in Seq(StepsOver(M)) /\ Len(t) = m + 1 /\ t[m + 1] = d
              /\ \A k \in 1..m : t[k] = col[k]
          BY <5>1, <3>4, AppendOne
        <5> QED
          BY <5>2 DEF t
      <4>2. \A k \in 1..m : F[i][k] = WaitStep(At(peers, 2 * idx[i] + k))
        BY <3>3, <4>1
      <4>3. F[i][Len(F[i])] = d
        BY <4>1
      <4> QED
        BY <3>8, <4>1, <4>2, <4>3 DEF d, m
    <3>9. CASE idx[i] > 0
      <4>1. /\ F[i] \in Seq(StepsOver(M)) /\ Len(F[i]) = m + 3
            /\ F[i][m + 1] = e1 /\ F[i][m + 2] = e2 /\ F[i][m + 3] = d
            /\ \A k \in 1..m : F[i][k] = col[k]
        <5> DEFINE t == F[i]
                   v == col \o <<e1, e2>>
        <5>1. t = v \o <<d>>
          BY <3>6, <3>9
        <5>2. /\ v \in Seq(StepsOver(M)) /\ Len(v) = m + 2 /\ v[m + 1] = e1 /\ v[m + 2] = e2
              /\ \A k \in 1..m : v[k] = col[k]
          BY <3>2, <3>3, <3>7, <3>9
        <5> HIDE DEF t, v
        <5>3. /\ t \in Seq(StepsOver(M)) /\ Len(t) = m + 3 /\ t[m + 3] = d
              /\ \A k \in 1..(m + 2) : t[k] = v[k]
          BY <3>2, <3>4, <5>1, <5>2
        <5>4. t[m + 1] = e1 /\ t[m + 2] = e2 /\ \A k \in 1..m : t[k] = col[k]
          <6>1. m + 1 \in 1..(m + 2) /\ m + 2 \in 1..(m + 2) /\ 1..m \subseteq 1..(m + 2)
            BY <3>2
          <6>2. t[m + 1] = v[m + 1] /\ t[m + 2] = v[m + 2]
            BY <5>3, <6>1
          <6>3. \A k \in 1..m : t[k] = col[k]
            BY <5>2, <5>3, <6>1
          <6> QED
            BY <5>2, <6>2, <6>3
        <5> QED
          BY <5>3, <5>4 DEF t
      <4>2. \A k \in 1..m : F[i][k] = WaitStep(At(peers, 2 * idx[i] + k))
        BY <3>3, <4>1
      <4>3. F[i][Len(F[i])] = d
        BY <4>1
      <4>4. idx[i] # 0
        BY <3>9
      <4> QED
        BY <4>1, <4>2, <4>3, <4>4 DEF d, m, e1, e2
    <3> QED
      BY <3>2, <3>8, <3>9
  <2>14. \A i \in M : c[i] \in Nat /\ idx[i] \in Nat
    BY <2>1, <2>9
  <2>15. ASSUME NEW i \in M, NEW p \in M, NEW k \in Nat
         PROVE  /\ Notifies(F[i], k, p) <=> \/ IsChild(idx[i], idx[p]) /\ k = c[i] + 1
                                            \/ IsChild(idx[p], idx[i]) /\ k = Len(F[i])
                /\ Awaits(F[i], k, p) <=> \/ IsChild(idx[p], idx[i]) /\ k = idx[p] - 2 * idx[i]
                                          \/ IsChild(idx[i], idx[p]) /\ k = c[i] + 2
    <3> DEFINE f == F[i]
               a == idx[i]
               m == c[i]
               L == Len(f)
               u == up(i)
               ds == down(i)
               Up == IsChild(idx[i], idx[p])
               Down == IsChild(idx[p], idx[i])
               w == idx[p] - 2 * idx[i]
    <3>1. m \in Nat /\ a \in Nat /\ L = (IF a = 0 THEN m + 1 ELSE m + 3) /\ DOMAIN f = 1..L
      <4>1. f \in Seq(StepsOver(M)) /\ L = (IF a = 0 THEN m + 1 ELSE m + 3)
        BY <2>13
      <4>2. m \in Nat /\ a \in Nat
        BY <2>14
      <4>3. DOMAIN f = 1..L
        BY <4>1
      <4> QED
        BY <4>1, <4>2, <4>3
    <3>2. Up => a > 0
      BY <2>14 DEF IsChild
    <3>3. Down => w \in 1..m
      BY <2>8
    <3>4. ASSUME k \in 1..m
          PROVE  f[k].op = "wait" /\ (p \in f[k].peers <=> Down /\ k = w)
      <4>1. f[k] = WaitStep(At(peers, 2 * idx[i] + k))
        BY <2>13, <3>4
      <4>2. p = At(peers, 2 * idx[i] + k) <=> Down /\ k = w
        BY <2>11, <3>4
      <4> HIDE DEF f, Down, w
      <4> QED
        BY <4>1, <4>2 DEF WaitStep
    <3>5. f[L].op = "notify" /\ (p \in f[L].peers <=> Down)
      <4>1. f[L] = NotifyStep(ds) /\ (p \in ds <=> Down)
        BY <2>12, <2>13
      <4> HIDE DEF f, L, ds, Down
      <4> QED
        BY <4>1 DEF NotifyStep
    <3>6. ASSUME a > 0
          PROVE  /\ f[m + 1].op = "notify" /\ (p \in f[m + 1].peers <=> Up)
                 /\ f[m + 2].op = "wait" /\ (p \in f[m + 2].peers <=> Up)
      <4>1. f[m + 1] = NotifyStep({u}) /\ f[m + 2] = WaitStep(u) /\ (p = u <=> Up)
        BY <2>10, <2>13, <3>6
      <4> HIDE DEF f, m, u, Up
      <4> QED
        BY <4>1 DEF NotifyStep, WaitStep
    <3> HIDE DEF f, a, m, L, Up, Down, w
    <3>7. Notifies(f, k, p) <=> (Up /\ k = m + 1) \/ (Down /\ k = L)
      <4>1. CASE a = 0
        <5>1. k \in 1..L <=> k \in 1..m \/ k = L
          BY <3>1, <4>1
        <5> QED
          BY <3>1, <3>2, <3>4, <3>5, <4>1, <5>1 DEF Notifies
      <4>2. CASE a > 0
        <5>1. k \in 1..L <=> k \in 1..m \/ k = m + 1 \/ k = m + 2 \/ k = L
          BY <3>1, <4>2
        <5>2. L # m + 1 /\ m + 1 # m + 2 /\ m + 1 \in 1..L /\ L \in 1..L
          BY <3>1, <4>2
        <5> QED
          BY <3>1, <3>4, <3>5, <3>6, <4>2, <5>1, <5>2 DEF Notifies
      <4> QED
        BY <3>1, <4>1, <4>2
    <3>8. Awaits(f, k, p) <=> (Down /\ k = w) \/ (Up /\ k = m + 2)
      <4>1. CASE a = 0
        <5>1. k \in 1..L <=> k \in 1..m \/ k = L
          BY <3>1, <4>1
        <5> QED
          BY <3>1, <3>2, <3>3, <3>4, <3>5, <4>1, <5>1 DEF Awaits
      <4>2. CASE a > 0
        <5>1. k \in 1..L <=> k \in 1..m \/ k = m + 1 \/ k = m + 2 \/ k = L
          BY <3>1, <4>2
        <5>2. m + 2 \in 1..L
          BY <3>1, <4>2
        <5> QED
          BY <3>1, <3>3, <3>4, <3>5, <3>6, <4>2, <5>1, <5>2 DEF Awaits
      <4> QED
        BY <3>1, <4>1, <4>2
    <3> QED
      BY <3>7, <3>8, Zenon DEF f, a, m, L, Up, Down, w
  <2>16. Plans(M, F, C)
    BY <2>4, <2>6, <2>13 DEF Plans
  <2>17. \A i, p \in M : IsChild(idx[p], idx[i]) => idx[p] - 2 * idx[i] <= c[i]
    BY <2>8, <2>14
  <2>18. /\ \A a \in 0..(n - 1) : \E p \in M : idx[p] = a
         /\ \A p, q \in M : idx[p] = idx[q] => p = q
    BY <2>1, <2>2
  <2>19. TreeShape(M, F, C, n, c, idx)
    <3>1. \A i \in M : Len(F[i]) = IF idx[i] = 0 THEN c[i] + 1 ELSE c[i] + 3
      BY <2>13
    <3>2. \A i, p \in M, k \in Nat : Notifies(F[i], k, p) <=>
            \/ IsChild(idx[i], idx[p]) /\ k = c[i] + 1
            \/ IsChild(idx[p], idx[i]) /\ k = Len(F[i])
      BY <2>15, Zenon
    <3>3. \A i, p \in M, k \in Nat : Awaits(F[i], k, p) <=>
            \/ IsChild(idx[p], idx[i]) /\ k = idx[p] - 2 * idx[i]
            \/ IsChild(idx[i], idx[p]) /\ k = c[i] + 2
      BY <2>15, Zenon
    <3> QED
      BY <2>1, <2>5, <2>9, <2>16, <2>17, <2>18, <3>1, <3>2, <3>3, Zenon DEF TreeShape
  <2>20. Sound(M, F, C)
    BY <2>19, TreeShapeSound
  <2> QED
    BY <2>20 DEF F, C, M
<1>3. n \in Nat
  OBVIOUS
<1> QED
  BY <1>1, <1>2, <1>3
=============================================================================
