---------------------------- MODULE BarrierProofs ---------------------------
(***************************************************************************)
(* The barrier protocol is correct for any number of nodes, any schedule of *)
(* barriers over any groups, each of the three algorithms, and any timeouts *)
(* and write errors.  The algorithms enter only through Sound, proved of    *)
(* them in BarrierPlanProofs.                                               *)
(*                                                                         *)
(* The argument counts.  Barrier m meets i with j when i notifies j in it,  *)
(* which is when j waits for i in it.  The epoch i has sent to j and the    *)
(* epoch j expects of i both count these barriers as far as the nodes have  *)
(* come, so an epoch that has come in says which barrier its sender has     *)
(* reached, and that it had then been told of the members it tells of.      *)
(***************************************************************************)
EXTENDS Barrier, BarrierPlanProofs, FiniteSetTheorems

\* The plans and what their notifications tell, for a given algorithm and schedule.
PlanFor(a, peers, i) ==
  CASE a = "Centralized" -> LinearPlan(peers, i)
    [] a = "BinaryTree" -> BinaryTreePlan(peers, i)
    [] a = "Dissemination" -> DisseminationPlan(peers, i)

CarriesFor(a, peers, i, p) ==
  CASE a = "Centralized" -> LinearCarries(peers, i)
    [] a = "BinaryTree" -> BinaryTreeCarries(peers, i, p)
    [] a = "Dissemination" -> DisseminationCarries(peers, i, p)

Group(s, m) == Members(s[m])
P(a, s, m, i) == PlanFor(a, s[m], i)
Carries(a, s, m, i, p) == CarriesFor(a, s[m], i, p)

\* The barriers of schedule s in which i notifies j.
Meets(a, s, i, j) ==
  {m \in 1..Len(s) : /\ i \in Group(s, m) /\ j \in Group(s, m)
                     /\ \E k \in Nat : Notifies(P(a, s, m, i), k, j)}

\* How many members of S are at most m.
Count(S, m) == Cardinality(S \cap (1..m))

-----------------------------------------------------------------------------
(* Counting.                                                               *)

\* A count is finite and bounded.
LEMMA CountNat ==
  ASSUME NEW S, NEW m \in Nat
  PROVE  Count(S, m) \in Nat /\ Count(S, m) <= m /\ IsFiniteSet(S \cap (1..m))
<1>1. IsFiniteSet(1..m) /\ Cardinality(1..m) = m
  BY FS_Interval
<1>2. IsFiniteSet(S \cap (1..m)) /\ Cardinality(S \cap (1..m)) <= Cardinality(1..m)
  BY <1>1, FS_Subset
<1>3. Cardinality(S \cap (1..m)) \in Nat
  BY <1>2, FS_CardinalityType
<1> QED
  BY <1>1, <1>2, <1>3 DEF Count

\* A count grows with its bound.
LEMMA CountMonotone ==
  ASSUME NEW S, NEW m \in Nat, NEW n \in Nat, m <= n
  PROVE  Count(S, m) <= Count(S, n)
<1>1. (S \cap (1..m)) \in SUBSET (S \cap (1..n))
  OBVIOUS
<1> QED
  BY <1>1, CountNat, FS_Subset DEF Count

\* The bound itself counts when it is a member.
LEMMA CountNext ==
  ASSUME NEW S, NEW m \in Nat, m > 0
  PROVE  Count(S, m) = IF m \in S THEN Count(S, m - 1) + 1 ELSE Count(S, m - 1)
<1>1. m - 1 \in Nat /\ m \notin 1..(m - 1)
  OBVIOUS
<1>2. IsFiniteSet(S \cap (1..(m - 1)))
  BY <1>1, CountNat
<1>3. CASE m \in S
  <2>1. S \cap (1..m) = (S \cap (1..(m - 1))) \cup {m}
    BY <1>3
  <2> QED
    BY <1>1, <1>2, <1>3, <2>1, FS_AddElement DEF Count
<1>4. CASE m \notin S
  <2>1. S \cap (1..m) = S \cap (1..(m - 1))
    BY <1>4
  <2> QED
    BY <1>4, <2>1 DEF Count
<1> QED
  BY <1>3, <1>4

\* What is not in the set does not count.
LEMMA CountSkip ==
  ASSUME NEW S, NEW m \in Nat, NEW n \in Nat, m <= n, \A k \in (m + 1)..n : k \notin S
  PROVE  Count(S, m) = Count(S, n)
<1>1. S \cap (1..m) = S \cap (1..n)
  OBVIOUS
<1> QED
  BY <1>1 DEF Count

-----------------------------------------------------------------------------
(* The plans of a schedule.                                                *)

\* Whatever the algorithm, the plans over a group are sound.
LEMMA PlansSound ==
  ASSUME NEW a \in Algorithms, NEW peers \in Seq(Nat), Distinct(peers)
  PROVE  Sound(Members(peers),
               [i \in Members(peers) |-> PlanFor(a, peers, i)],
               [i \in Members(peers) |-> [p \in Members(peers) |-> CarriesFor(a, peers, i, p)]])
<1>1. CASE a = "Centralized"
  <2>1. \A i, p : PlanFor(a, peers, i) = LinearPlan(peers, i)
                  /\ CarriesFor(a, peers, i, p) = LinearCarries(peers, i)
    BY <1>1 DEF PlanFor, CarriesFor
  <2> QED
    BY <2>1, LinearSound
<1>2. CASE a = "BinaryTree"
  <2>1. \A i, p : PlanFor(a, peers, i) = BinaryTreePlan(peers, i)
                  /\ CarriesFor(a, peers, i, p) = BinaryTreeCarries(peers, i, p)
    BY <1>2 DEF PlanFor, CarriesFor
  <2> QED
    BY <2>1, BinaryTreeSound
<1>3. CASE a = "Dissemination"
  <2>1. \A i, p : PlanFor(a, peers, i) = DisseminationPlan(peers, i)
                  /\ CarriesFor(a, peers, i, p) = DisseminationCarries(peers, i, p)
    BY <1>3 DEF PlanFor, CarriesFor
  <2> QED
    BY <2>1, DisseminationSound
<1> QED
  BY <1>1, <1>2, <1>3 DEF Algorithms

\* The groups of a schedule are peer lists without repetition, of nodes.
LEMMA GroupFacts ==
  ASSUME NEW s \in Schedules, NEW m \in 1..Len(s)
  PROVE  /\ s[m] \in Seq(Nat) /\ Distinct(s[m]) /\ Group(s, m) \in SUBSET Nodes
         /\ s \in Seq(Seq(Nodes)) /\ Len(s) \in Nat
<1>1. s \in Seq(Seq(Nodes)) /\ Ascending(s[m]) /\ Nodes \subseteq Nat
  BY BarrierAssumption DEF Schedules
<1>2. s[m] \in Seq(Nodes)
  BY <1>1
<1>3. s[m] \in Seq(Nat)
  <2>1. Len(s[m]) \in Nat /\ s[m] \in [1..Len(s[m]) -> Nodes]
    BY <1>2
  <2>2. s[m] \in [1..Len(s[m]) -> Nat]
    BY <1>1, <2>1
  <2> QED
    BY <2>1, <2>2
<1>4. Group(s, m) \in SUBSET Nodes
  BY <1>2 DEF Group, Members
<1>5. Distinct(s[m])
  <2> SUFFICES ASSUME NEW k \in DOMAIN s[m], NEW l \in DOMAIN s[m], s[m][k] = s[m][l], k # l
               PROVE  FALSE
    BY DEF Distinct
  <2>1. k \in Nat /\ l \in Nat /\ s[m][k] \in Nat /\ s[m][l] \in Nat
    BY <1>3
  <2>2. k < l \/ l < k
    BY <2>1
  <2>3. s[m][k] < s[m][l] \/ s[m][l] < s[m][k]
    BY <1>1, <2>2 DEF Ascending
  <2> QED
    BY <2>1, <2>3
<1> QED
  BY <1>1, <1>3, <1>4, <1>5

\* The plans over the group of barrier m are sound.
LEMMA GroupSound ==
  ASSUME NEW a \in Algorithms, NEW s \in Schedules, NEW m \in 1..Len(s)
  PROVE  Sound(Group(s, m),
               [i \in Group(s, m) |-> P(a, s, m, i)],
               [i \in Group(s, m) |-> [p \in Group(s, m) |-> Carries(a, s, m, i, p)]])
  BY GroupFacts, PlansSound, Zenon DEF Group, P, Carries

\* A plan is a sequence of steps over its group.
LEMMA PlanType ==
  ASSUME NEW a \in Algorithms, NEW s \in Schedules, NEW m \in 1..Len(s), NEW i \in Group(s, m)
  PROVE  /\ P(a, s, m, i) \in Seq(StepsOver(Group(s, m)))
         /\ Len(P(a, s, m, i)) \in Nat /\ DOMAIN P(a, s, m, i) = 1..Len(P(a, s, m, i))
<1> DEFINE M == Group(s, m)
           F == [x \in M |-> P(a, s, m, x)]
<1>1. F \in [M -> Seq(StepsOver(M))]
  BY GroupSound DEF Sound, Plans
<1>2. F[i] = P(a, s, m, i)
  OBVIOUS
<1> HIDE DEF F
<1>3. P(a, s, m, i) \in Seq(StepsOver(M))
  BY <1>1, <1>2
<1> QED
  BY <1>3

\* Only members of the group are notified or waited for.
LEMMA PlanPeers ==
  ASSUME NEW a \in Algorithms, NEW s \in Schedules, NEW m \in 1..Len(s), NEW i \in Group(s, m),
         NEW k, NEW p, Notifies(P(a, s, m, i), k, p) \/ Awaits(P(a, s, m, i), k, p)
  PROVE  /\ k \in Nat /\ k > 0 /\ k <= Len(P(a, s, m, i)) /\ p \in Group(s, m)
         /\ p \in Nodes
<1>1. /\ k \in 1..Len(P(a, s, m, i)) /\ Len(P(a, s, m, i)) \in Nat
      /\ p \in P(a, s, m, i)[k].peers
  BY PlanType DEF Notifies, Awaits
<1>2. P(a, s, m, i)[k] \in StepsOver(Group(s, m))
  BY <1>1, PlanType
<1>3. p \in Group(s, m)
  BY <1>1, <1>2 DEF StepsOver
<1> QED
  BY <1>1, <1>3, GroupFacts

\* A plan notifies a peer once, waits for it once, and for one peer at a time.
LEMMA PlanOnce ==
  ASSUME NEW a \in Algorithms, NEW s \in Schedules, NEW m \in 1..Len(s), NEW i \in Group(s, m),
         NEW k, NEW l, NEW p, NEW q
  PROVE  /\ Notifies(P(a, s, m, i), k, p) /\ Notifies(P(a, s, m, i), l, p) => k = l
         /\ Awaits(P(a, s, m, i), k, p) /\ Awaits(P(a, s, m, i), l, p) => k = l
         /\ Awaits(P(a, s, m, i), k, p) /\ Awaits(P(a, s, m, i), k, q) => p = q
<1> DEFINE M == Group(s, m)
           F == [x \in M |-> P(a, s, m, x)]
<1>1. Once(M, F)
  BY GroupSound DEF Sound
<1>2. F[i] = P(a, s, m, i)
  OBVIOUS
<1> HIDE DEF F
<1>3. \A x, y \in M : \A c, d \in Nat :
        /\ Notifies(P(a, s, m, i), c, x) /\ Notifies(P(a, s, m, i), d, x) => c = d
        /\ Awaits(P(a, s, m, i), c, x) /\ Awaits(P(a, s, m, i), d, x) => c = d
        /\ Awaits(P(a, s, m, i), c, x) /\ Awaits(P(a, s, m, i), c, y) => x = y
  BY <1>1, <1>2 DEF Once
<1> QED
  BY <1>3, PlanPeers

\* A member waits for those that notify it.
LEMMA PlanMatched ==
  ASSUME NEW a \in Algorithms, NEW s \in Schedules, NEW m \in 1..Len(s), NEW i \in Group(s, m),
         NEW p
  PROVE  m \in Meets(a, s, p, i) <=> \E k \in Nat : Awaits(P(a, s, m, i), k, p)
<1> DEFINE M == Group(s, m)
           F == [x \in M |-> P(a, s, m, x)]
<1>1. Matched(M, F)
  BY GroupSound DEF Sound
<1>2. \A x \in M : F[x] = P(a, s, m, x)
  OBVIOUS
<1> HIDE DEF F
<1>3. \A x \in M : (\E k \in Nat : Notifies(P(a, s, m, x), k, i))
                     <=> (\E k \in Nat : Awaits(P(a, s, m, i), k, x))
  BY <1>1, <1>2 DEF Matched
<1>4. m \in Meets(a, s, p, i) <=> p \in M /\ \E k \in Nat : Notifies(P(a, s, m, p), k, i)
  BY DEF Meets
<1>5. (\E k \in Nat : Awaits(P(a, s, m, i), k, p)) => p \in M
  BY PlanPeers
<1> QED
  BY <1>3, <1>4, <1>5

\* Before it sends a notification a member has been told of everybody it tells of.
LEMMA PlanInformed ==
  ASSUME NEW a \in Algorithms, NEW s \in Schedules, NEW m \in 1..Len(s), NEW i \in Group(s, m),
         NEW k, NEW p, Notifies(P(a, s, m, i), k, p), NEW x \in Carries(a, s, m, i, p), x # i
  PROVE  \E l \in Nat : \E w \in Group(s, m) :
           l < k /\ Awaits(P(a, s, m, i), l, w) /\ x \in Carries(a, s, m, w, i)
<1> DEFINE M == Group(s, m)
           F == [y \in M |-> P(a, s, m, y)]
           C == [y \in M |-> [z \in M |-> Carries(a, s, m, y, z)]]
<1>1. Informed(M, F, C)
  BY GroupSound DEF Sound
<1>2. /\ \A y \in M : F[y] = P(a, s, m, y)
      /\ \A y, z \in M : C[y][z] = Carries(a, s, m, y, z)
  OBVIOUS
<1> HIDE DEF F, C
<1>3. k \in Nat /\ p \in M
  BY PlanPeers
<1>4. Told(M, F, C, i, k, x)
  BY <1>1, <1>2, <1>3, Zenon DEF Informed
<1> QED
  BY <1>2, <1>4, Zenon DEF Told

\* At the end of its plan a member has been told of everybody.
LEMMA PlanComplete ==
  ASSUME NEW a \in Algorithms, NEW s \in Schedules, NEW m \in 1..Len(s), NEW i \in Group(s, m),
         NEW x \in Group(s, m), x # i
  PROVE  \E l \in Nat : \E w \in Group(s, m) :
           /\ l < Len(P(a, s, m, i)) + 1
           /\ Awaits(P(a, s, m, i), l, w) /\ x \in Carries(a, s, m, w, i)
<1> DEFINE M == Group(s, m)
           F == [y \in M |-> P(a, s, m, y)]
           C == [y \in M |-> [z \in M |-> Carries(a, s, m, y, z)]]
<1>1. Complete(M, F, C)
  BY GroupSound DEF Sound
<1>2. /\ \A y \in M : F[y] = P(a, s, m, y)
      /\ \A y, z \in M : C[y][z] = Carries(a, s, m, y, z)
  OBVIOUS
<1> HIDE DEF F, C
<1>3. Told(M, F, C, i, Len(F[i]) + 1, x)
  BY <1>1, Zenon DEF Complete
<1> QED
  BY <1>2, <1>3, Zenon DEF Told

\* A notification tells of nodes.
LEMMA CarriesNodes ==
  ASSUME NEW a \in Algorithms, NEW s \in Schedules, NEW m \in 1..Len(s), NEW i \in Group(s, m),
         NEW p \in Group(s, m)
  PROVE  Carries(a, s, m, i, p) \in SUBSET Nodes
<1> DEFINE M == Group(s, m)
           C == [y \in M |-> [z \in M |-> Carries(a, s, m, y, z)]]
<1>1. C \in [M -> [M -> SUBSET M]]
  BY GroupSound DEF Sound, Plans
<1>2. C[i][p] = Carries(a, s, m, i, p)
  OBVIOUS
<1> HIDE DEF C
<1> QED
  BY <1>1, <1>2, GroupFacts

-----------------------------------------------------------------------------
(* The inductive invariant, for the algorithm a and the schedule s of the  *)
(* behaviour: constants, so that a plan does not change when a node moves. *)

\* The plan of the barrier node i is in or was last in.
Cur(a, s, i) == P(a, s, call[i], i)

\* A node at step n of a plan has advanced the epoch it sends to j.
SentIn(plan, n, st, j) ==
  \E k \in Nat : Notifies(plan, k, j) /\ (k < n \/ (k = n /\ st = "writing"))

\* A node at step n of a plan has advanced the epoch it expects of j.
WaitedIn(plan, n, st, j) ==
  \E k \in Nat : Awaits(plan, k, j) /\ (k < n \/ (k = n /\ st \in {"waiting", "expiring"}))

\* The barriers i has counted in its outgoing epoch for j, and in the one it expects of j.
SentUpTo(a, s, i, j) ==
  IF Running(i) /\ ~SentIn(Cur(a, s, i), pc[i], stage[i], j) THEN call[i] - 1 ELSE call[i]

WaitedUpTo(a, s, i, j) ==
  IF Running(i) /\ ~WaitedIn(Cur(a, s, i), pc[i], stage[i], j) THEN call[i] - 1 ELSE call[i]

\* A node runs a plan only of a barrier it belongs to, and what is begun is a step of it.
NodeInv(a, s, i) ==
  /\ call[i] # 0 => i \in Group(s, call[i])
  /\ Running(i) => call[i] # 0 /\ ~poisoned[i]
  /\ stage[i] # "ready" => Running(i)
  /\ stage[i] = "writing" =>
       pc[i] \in DOMAIN Cur(a, s, i) /\ Cur(a, s, i)[pc[i]].op = "notify"
  /\ stage[i] \in {"waiting", "expiring"} =>
       pc[i] \in DOMAIN Cur(a, s, i) /\ Cur(a, s, i)[pc[i]].op = "wait"
  /\ unacked[i] # {} => stage[i] = "writing"
  /\ \A m \in passed[i] : m <= call[i]
  /\ call[i] \in passed[i] => ~Running(i) /\ ~poisoned[i]

\* An epoch comes in after it has been sent, and in order.
EpochInv(i, j) ==
  /\ in_epoch[j][i] <= out_epoch[i][j]
  /\ wire[i][j] <= out_epoch[i][j]
  /\ wire[i][j] # 0 => wire[i][j] > in_epoch[j][i]

\* Both ends count the barriers in which i notifies j.
CountInv(a, s, i, j) ==
  ~poisoned[i] =>
    /\ out_epoch[i][j] = Count(Meets(a, s, i, j), SentUpTo(a, s, i, j))
    /\ expected[i][j] = Count(Meets(a, s, j, i), WaitedUpTo(a, s, i, j))

\* A node is behind a peer only while it waits for it.
WaitInv(a, s, i, j) ==
  ~poisoned[i] /\ expected[i][j] > in_epoch[i][j] =>
    stage[i] \in {"waiting", "expiring"} /\ Awaits(Cur(a, s, i), pc[i], j)

\* Whoever a notification tells of has called the barrier it belongs to.
NewsInv(a, s, i, j) ==
  \A m \in Meets(a, s, i, j) : out_epoch[i][j] >= Count(Meets(a, s, i, j), m) =>
    \A x \in Carries(a, s, m, i, j) : call[x] >= m

\* Whoever a node in a barrier has been told of has called it.
HeardInv(a, s, i) ==
  Running(i) =>
    \A k \in Nat : \A p \in Nodes : k < pc[i] /\ Awaits(Cur(a, s, i), k, p) =>
      \A x \in Carries(a, s, call[i], p, i) : call[x] >= call[i]

\* What is about one node, whoever it talks to.
LocalInv(a, s, i) ==
  /\ NodeInv(a, s, i) /\ HeardInv(a, s, i)
  /\ \A j \in Nodes : CountInv(a, s, i, j) /\ NewsInv(a, s, i, j)

BInv(a, s) ==
  /\ TypeOK /\ algorithm = a /\ sched = s
  /\ \A i \in Nodes : LocalInv(a, s, i)
  /\ \A i, j \in Nodes : EpochInv(i, j) /\ WaitInv(a, s, i, j)
  /\ BarrierSafety

\* The local state of node i, which only its own steps change (its NIC completes its
\* writes), and the calls, which only grow.
Kept(i) ==
  /\ call'[i] = call[i] /\ pc'[i] = pc[i] /\ stage'[i] = stage[i]
  /\ unacked'[i] \subseteq unacked[i]
  /\ expected'[i] = expected[i] /\ out_epoch'[i] = out_epoch[i]
  /\ poisoned'[i] = poisoned[i] /\ passed'[i] = passed[i]

CallsGrow == \A x \in Nodes : call[x] \in Nat /\ call'[x] \in Nat /\ call'[x] >= call[x]

-----------------------------------------------------------------------------
(* What a state with the invariant looks like.                             *)

\* The constants of the behaviour and the barrier a node is in.
LEMMA CallFacts ==
  ASSUME NEW a, NEW s, BInv(a, s), NEW i \in Nodes
  PROVE  /\ a \in Algorithms /\ s \in Schedules /\ Len(s) \in Nat
         /\ call[i] \in 0..Len(s) /\ pc[i] \in Nat
         /\ call[i] # 0 => call[i] \in 1..Len(s) /\ i \in Group(s, call[i])
         /\ Running(i) => call[i] # 0 /\ ~poisoned[i]
         /\ ~Running(i) => stage[i] = "ready" /\ unacked[i] = {}
<1>1. TypeOK /\ algorithm = a /\ sched = s /\ NodeInv(a, s, i)
  BY DEF BInv, LocalInv
<1>2. a \in Algorithms /\ s \in Schedules
  BY <1>1 DEF TypeOK
<1>3. Len(s) \in Nat
  BY <1>2, BarrierAssumption DEF Schedules
<1>4. call[i] \in 0..Len(s) /\ pc[i] \in Nat
      /\ stage[i] \in {"ready", "waiting", "expiring", "writing"}
  BY <1>1 DEF TypeOK
<1>5. call[i] # 0 => call[i] \in 1..Len(s) /\ i \in Group(s, call[i])
  BY <1>1, <1>3, <1>4 DEF NodeInv
<1>6. Running(i) => call[i] # 0 /\ ~poisoned[i]
  BY <1>1 DEF NodeInv
<1>7. ~Running(i) => stage[i] = "ready" /\ unacked[i] = {}
  BY <1>1 DEF NodeInv
<1> QED
  BY <1>2, <1>3, <1>4, <1>5, <1>6, <1>7

\* Where a node is in its plan, as the actions see it.
LEMMA StepFacts ==
  ASSUME NEW a, NEW s, BInv(a, s), NEW i \in Nodes, Running(i)
  PROVE  /\ PlanOf(i) = Cur(a, s, i) /\ StepOf(i) = Cur(a, s, i)[pc[i]]
         /\ Len(Cur(a, s, i)) \in Nat /\ DOMAIN Cur(a, s, i) = 1..Len(Cur(a, s, i))
         /\ \A op : AtStep(i, op) <=>
              pc[i] \in DOMAIN Cur(a, s, i) /\ Cur(a, s, i)[pc[i]].op = op
<1>1. algorithm = a /\ sched = s
  BY DEF BInv
<1>2. PlanOf(i) = Cur(a, s, i)
  BY <1>1 DEF PlanOf, Plan, Cur, P, PlanFor
<1>3. /\ Len(Cur(a, s, i)) \in Nat /\ DOMAIN Cur(a, s, i) = 1..Len(Cur(a, s, i))
  BY CallFacts, PlanType DEF Cur
<1>4. StepOf(i) = Cur(a, s, i)[pc[i]]
  BY <1>2 DEF StepOf
<1>5. pc[i] \in Nat /\ pc[i] # 0
  BY CallFacts DEF Running
<1>6. pc[i] <= Len(PlanOf(i)) <=> pc[i] \in DOMAIN Cur(a, s, i)
  BY <1>2, <1>3, <1>5
<1> QED
  BY <1>2, <1>3, <1>4, <1>6 DEF AtStep

\* How the steps of a plan count: before it has begun, begun, and done.
LEMMA SentSteps ==
  ASSUME NEW plan, NEW n \in Nat, NEW j
  PROVE  /\ \A st : st # "writing" => (SentIn(plan, n, st, j) <=> SentIn(plan, n, "ready", j))
         /\ SentIn(plan, n, "writing", j) <=> SentIn(plan, n, "ready", j) \/ Notifies(plan, n, j)
         /\ SentIn(plan, n + 1, "ready", j) <=> SentIn(plan, n, "ready", j) \/ Notifies(plan, n, j)
  BY DEF SentIn

\* How the peers waited for change from one place in a plan to the next.
LEMMA WaitedSteps ==
  ASSUME NEW plan, NEW n \in Nat, NEW j
  PROVE  /\ WaitedIn(plan, n, "writing", j) <=> WaitedIn(plan, n, "ready", j)
         /\ \A st \in {"waiting", "expiring"} :
              WaitedIn(plan, n, st, j) <=> WaitedIn(plan, n, "ready", j) \/ Awaits(plan, n, j)
         /\ WaitedIn(plan, n + 1, "ready", j) <=> WaitedIn(plan, n, "ready", j) \/ Awaits(plan, n, j)
  BY DEF WaitedIn

-----------------------------------------------------------------------------
(* A step of one node leaves what is about another one.                    *)

\* What has been sent keeps telling the truth.
LEMMA KeptNews ==
  ASSUME NEW a, NEW s, BInv(a, s), CallsGrow, NEW i \in Nodes, NEW j \in Nodes,
         out_epoch'[i][j] = out_epoch[i][j]
  PROVE  NewsInv(a, s, i, j)'
<1>1. NewsInv(a, s, i, j)
  BY DEF BInv, LocalInv
<1> SUFFICES ASSUME NEW m \in Meets(a, s, i, j),
                    out_epoch[i][j] >= Count(Meets(a, s, i, j), m),
                    NEW x \in Carries(a, s, m, i, j)
             PROVE  call'[x] >= m
  BY DEF NewsInv
<1>2. m \in 1..Len(s) /\ i \in Group(s, m) /\ j \in Group(s, m) /\ Len(s) \in Nat
  BY CallFacts DEF Meets
<1>3. x \in Nodes
  BY <1>2, CallFacts, CarriesNodes
<1>4. call[x] >= m
  BY <1>1 DEF NewsInv
<1>5. m \in Nat
  BY <1>2
<1> QED
  BY <1>3, <1>4, <1>5 DEF CallsGrow

\* What a node has heard stays true.
LEMMA KeptHeard ==
  ASSUME NEW a, NEW s, BInv(a, s), CallsGrow, NEW i \in Nodes,
         call'[i] = call[i], pc'[i] = pc[i]
  PROVE  HeardInv(a, s, i)'
<1>1. HeardInv(a, s, i)
  BY DEF BInv, LocalInv
<1>2. Cur(a, s, i)' = Cur(a, s, i) /\ (Running(i)' <=> Running(i))
  BY DEF Cur, Running
<1> SUFFICES ASSUME Running(i), NEW k \in Nat, NEW p \in Nodes, k < pc[i],
                    Awaits(Cur(a, s, i), k, p), NEW x \in Carries(a, s, call[i], p, i)
             PROVE  call'[x] >= call[i]
  BY <1>2 DEF HeardInv
<1>3. call[x] >= call[i]
  BY <1>1 DEF HeardInv
<1>4. call[i] \in 1..Len(s) /\ i \in Group(s, call[i]) /\ a \in Algorithms /\ s \in Schedules
  BY CallFacts
<1>5. p \in Group(s, call[i])
  BY <1>4, PlanPeers DEF Cur
<1>6. x \in Nodes
  BY <1>4, <1>5, CarriesNodes
<1> QED
  BY <1>3, <1>6 DEF CallsGrow

\* So does everything about a node that does not step.
LEMMA KeptLocal ==
  ASSUME NEW a, NEW s, BInv(a, s), NEW i \in Nodes, Kept(i), CallsGrow
  PROVE  LocalInv(a, s, i)'
<1>1. LocalInv(a, s, i)
  BY DEF BInv
<1>2. Cur(a, s, i)' = Cur(a, s, i) /\ (Running(i)' <=> Running(i))
  BY DEF Kept, Cur, Running
<1>3. NodeInv(a, s, i)'
  BY <1>1, <1>2 DEF Kept, LocalInv, NodeInv
<1>4. HeardInv(a, s, i)'
  BY KeptHeard DEF Kept
<1>5. ASSUME NEW j \in Nodes PROVE CountInv(a, s, i, j)'
  <2>1. CountInv(a, s, i, j)
    BY <1>1 DEF LocalInv
  <2>2. /\ SentUpTo(a, s, i, j)' = SentUpTo(a, s, i, j)
        /\ WaitedUpTo(a, s, i, j)' = WaitedUpTo(a, s, i, j)
    BY <1>2 DEF Kept, SentUpTo, WaitedUpTo
  <2> QED
    BY <2>1, <2>2 DEF Kept, CountInv
<1>6. ASSUME NEW j \in Nodes PROVE NewsInv(a, s, i, j)'
  BY KeptNews DEF Kept
<1> QED
  BY <1>3, <1>4, <1>5, <1>6 DEF LocalInv

\* Calls only grow, so a barrier once passed stays passed by right.
LEMMA KeptSafety ==
  ASSUME NEW a, NEW s, BInv(a, s), CallsGrow, passed' = passed, sched' = sched
  PROVE  BarrierSafety'
<1>1. BarrierSafety /\ sched = s /\ TypeOK
  BY DEF BInv
<1> SUFFICES ASSUME NEW i \in Nodes, NEW m \in passed[i], NEW j \in Members(s[m])
             PROVE  call'[j] >= m
  BY <1>1 DEF BarrierSafety
<1>2. m \in 1..Len(s) /\ s \in Schedules
  BY <1>1 DEF TypeOK
<1>3. j \in Nodes /\ m \in Nat
  BY <1>2, GroupFacts DEF Group
<1>4. call[j] >= m
  BY <1>1 DEF BarrierSafety
<1> QED
  BY <1>3, <1>4 DEF CallsGrow

\* A step of node i that writes no memory a peer reads or writes.
LEMMA QuietStep ==
  ASSUME NEW a, NEW s, BInv(a, s), NEW i \in Nodes,
         TypeOK', UNCHANGED <<setup, out_epoch, in_epoch, wire>>, CallsGrow,
         \A j \in Nodes \ {i} : Kept(j),
         LocalInv(a, s, i)', \A j \in Nodes : WaitInv(a, s, i, j)', BarrierSafety'
  PROVE  BInv(a, s)'
<1>1. \A j \in Nodes : LocalInv(a, s, j)'
  BY KeptLocal
<1>2. \A x, y \in Nodes : EpochInv(x, y) /\ WaitInv(a, s, x, y)
  BY DEF BInv
<1>3. \A x, y \in Nodes : EpochInv(x, y)'
  BY <1>2 DEF EpochInv
<1>4. ASSUME NEW x \in Nodes, NEW y \in Nodes PROVE WaitInv(a, s, x, y)'
  <2>1. CASE x = i
    BY <2>1
  <2>2. CASE x # i
    <3>1. Kept(x) /\ Cur(a, s, x)' = Cur(a, s, x)
      BY <2>2 DEF Kept, Cur
    <3>2. WaitInv(a, s, x, y)
      BY <1>2
    <3> QED
      BY <3>1, <3>2 DEF WaitInv, Kept
  <2> QED
    BY <2>1, <2>2
<1>5. algorithm' = a /\ sched' = s
  BY DEF BInv, setup
<1> QED
  BY <1>1, <1>3, <1>4, <1>5 DEF BInv

-----------------------------------------------------------------------------
(* The steps of a node.                                                    *)

\* Entering the next barrier: the barriers skipped do not count.
LEMMA EnterKeeps ==
  ASSUME NEW a, NEW s, BInv(a, s), NEW i \in Nodes, Enter(i)
  PROVE  BInv(a, s)'
<1>1. PICK m \in 1..Len(s) : IsNextCall(i, m) /\ call' = [call EXCEPT ![i] = m]
  BY DEF Enter, BInv
<1>2. TypeOK /\ sched = s /\ LocalInv(a, s, i)
  BY DEF BInv
<1>3. /\ a \in Algorithms /\ s \in Schedules /\ Len(s) \in Nat
      /\ call[i] \in 0..Len(s) /\ stage[i] = "ready" /\ unacked[i] = {}
  BY CallFacts DEF Enter
<1>4. call[i] < m /\ i \in Group(s, m) /\ \A k \in (call[i] + 1)..(m - 1) : i \notin Group(s, k)
  BY <1>1, <1>2, <1>3 DEF IsNextCall, InGroup, Group, Members
<1>5. /\ pc' = [pc EXCEPT ![i] = IF poisoned[i] THEN 0 ELSE 1]
      /\ UNCHANGED <<setup, stage, unacked, write_err, mrVars, wire, poisoned, passed>>
  BY DEF Enter
<1>6. TypeOK'
  BY <1>1, <1>2, <1>5 DEF TypeOK, Epochs, setup, mrVars
<1>7. /\ call'[i] = m /\ pc'[i] = IF poisoned[i] THEN 0 ELSE 1
      /\ \A j \in Nodes \ {i} : Kept(j)
  BY <1>1, <1>2, <1>5 DEF TypeOK, Kept, mrVars
<1>8. CallsGrow
  <2>1. \A x \in Nodes : call[x] \in Nat
    BY CallFacts
  <2> QED
    BY <1>1, <1>2, <1>3, <1>4, <2>1 DEF CallsGrow, TypeOK
<1>9. NodeInv(a, s, i)'
  <2>1. /\ \A n \in passed[i] : n <= call[i] /\ n \in Nat
    BY <1>2 DEF LocalInv, NodeInv, TypeOK
  <2>2. \A n \in passed[i] : n <= m /\ n # m
    BY <1>3, <1>4, <2>1
  <2> QED
    BY <1>3, <1>4, <1>5, <1>7, <2>2 DEF NodeInv, Running
<1>10. Cur(a, s, i)' = P(a, s, m, i)
  BY <1>7 DEF Cur
<1>11. HeardInv(a, s, i)'
  <2> SUFFICES ASSUME NEW k \in Nat, NEW p \in Nodes, k < pc'[i], Awaits(P(a, s, m, i), k, p)
               PROVE  FALSE
    BY <1>10 DEF HeardInv
  <2>1. k > 0
    BY <1>3, <1>4, PlanPeers
  <2> QED
    BY <1>7, <2>1
<1>12. ASSUME NEW j \in Nodes PROVE CountInv(a, s, i, j)'
  <2> SUFFICES ASSUME ~poisoned[i]
               PROVE  /\ out_epoch[i][j] = Count(Meets(a, s, i, j), SentUpTo(a, s, i, j)')
                      /\ expected[i][j] = Count(Meets(a, s, j, i), WaitedUpTo(a, s, i, j)')
    BY <1>5 DEF CountInv, mrVars
  <2>1. pc'[i] = 1 /\ stage'[i] = "ready" /\ Running(i)'
    BY <1>3, <1>5, <1>7 DEF Running
  <2>2. \A k : ~Notifies(P(a, s, m, i), k, j) \/ k > 0
    BY <1>3, <1>4, PlanPeers
  <2>3. \A k : ~Awaits(P(a, s, m, i), k, j) \/ k > 0
    BY <1>3, <1>4, PlanPeers
  <2>4. ~SentIn(P(a, s, m, i), 1, "ready", j) /\ ~WaitedIn(P(a, s, m, i), 1, "ready", j)
    BY <2>2, <2>3 DEF SentIn, WaitedIn
  <2>5. SentUpTo(a, s, i, j)' = m - 1 /\ WaitedUpTo(a, s, i, j)' = m - 1
    BY <1>7, <1>10, <2>1, <2>4 DEF SentUpTo, WaitedUpTo
  <2>6. SentUpTo(a, s, i, j) = call[i] /\ WaitedUpTo(a, s, i, j) = call[i]
    BY DEF Enter, SentUpTo, WaitedUpTo
  <2>7. \A k \in (call[i] + 1)..(m - 1) : k \notin Meets(a, s, i, j) /\ k \notin Meets(a, s, j, i)
    BY <1>4 DEF Meets
  <2>8. call[i] \in Nat /\ m - 1 \in Nat /\ call[i] <= m - 1
    BY <1>3, <1>4
  <2>9. /\ Count(Meets(a, s, i, j), call[i]) = Count(Meets(a, s, i, j), m - 1)
        /\ Count(Meets(a, s, j, i), call[i]) = Count(Meets(a, s, j, i), m - 1)
    BY <2>7, <2>8, CountSkip
  <2>10. CountInv(a, s, i, j)
    BY <1>2 DEF LocalInv
  <2> QED
    BY <2>5, <2>6, <2>9, <2>10 DEF CountInv
<1>13. \A j \in Nodes : NewsInv(a, s, i, j)'
  BY <1>5, <1>8, KeptNews DEF mrVars
<1>14. ASSUME NEW j \in Nodes PROVE WaitInv(a, s, i, j)'
  <2>1. WaitInv(a, s, i, j)
    BY DEF BInv
  <2> QED
    BY <1>3, <1>5, <2>1 DEF WaitInv, mrVars
<1>15. BarrierSafety'
  BY <1>5, <1>8, KeptSafety DEF setup
<1>16. UNCHANGED <<setup, out_epoch, in_epoch, wire>>
  BY <1>5 DEF mrVars
<1>17. LocalInv(a, s, i)'
  BY <1>9, <1>11, <1>12, <1>13 DEF LocalInv
<1> QED
  BY <1>6, <1>7, <1>8, <1>14, <1>15, <1>16, <1>17, QuietStep

\* No call is made.
LEMMA NoCall ==
  ASSUME NEW a, NEW s, BInv(a, s), call' = call
  PROVE  CallsGrow
<1>1. \A x \in Nodes : call[x] \in Nat
  BY CallFacts
<1> QED
  BY <1>1 DEF CallsGrow

\* At the end of its plan a node has counted the barrier on both sides, and everybody
\* has called it.
LEMMA PlanEnded ==
  ASSUME NEW a, NEW s, BInv(a, s), NEW i \in Nodes, Running(i), pc[i] > Len(PlanOf(i))
  PROVE  /\ \A x \in Group(s, call[i]) : call[x] >= call[i]
         /\ \A j \in Nodes : /\ out_epoch[i][j] = Count(Meets(a, s, i, j), call[i])
                             /\ expected[i][j] = Count(Meets(a, s, j, i), call[i])
<1> DEFINE m == call[i]
           pl == Cur(a, s, i)
<1>1. /\ a \in Algorithms /\ s \in Schedules /\ m \in 1..Len(s) /\ m \in Nat /\ i \in Group(s, m)
      /\ ~poisoned[i] /\ pc[i] \in Nat
  BY CallFacts
<1>2. pl = P(a, s, m, i) /\ Len(pl) \in Nat /\ pc[i] > Len(pl)
  BY StepFacts DEF Cur
<1>3. LocalInv(a, s, i)
  BY DEF BInv
<1> HIDE DEF m, pl
<1>4. ASSUME NEW x \in Group(s, m) PROVE call[x] >= m
  <2>1. CASE x = i
    BY <1>1, <2>1 DEF m
  <2>2. CASE x # i
    <3>1. PICK l \in Nat, w \in Group(s, m) :
            l < Len(pl) + 1 /\ Awaits(pl, l, w) /\ x \in Carries(a, s, m, w, i)
      BY <1>1, <1>2, <2>2, PlanComplete
    <3>2. w \in Nodes /\ l < pc[i]
      BY <1>1, <1>2, <3>1, GroupFacts
    <3>3. HeardInv(a, s, i)
      BY <1>3 DEF LocalInv
    <3> QED
      BY <3>1, <3>2, <3>3 DEF HeardInv, m, pl
  <2> QED
    BY <2>1, <2>2
<1>5. ASSUME NEW j \in Nodes
      PROVE  /\ out_epoch[i][j] = Count(Meets(a, s, i, j), m)
             /\ expected[i][j] = Count(Meets(a, s, j, i), m)
  <2>1. /\ out_epoch[i][j] = Count(Meets(a, s, i, j), SentUpTo(a, s, i, j))
        /\ expected[i][j] = Count(Meets(a, s, j, i), WaitedUpTo(a, s, i, j))
    BY <1>1, <1>3 DEF LocalInv, CountInv
  <2>2. SentUpTo(a, s, i, j) = m \/ (SentUpTo(a, s, i, j) = m - 1 /\ m \notin Meets(a, s, i, j))
    <3> SUFFICES ASSUME ~SentIn(pl, pc[i], stage[i], j), m \in Meets(a, s, i, j) PROVE FALSE
      BY DEF SentUpTo, m, pl
    <3>1. PICK k \in Nat : Notifies(pl, k, j)
      BY <1>2 DEF Meets
    <3>2. k <= Len(pl)
      BY <1>1, <1>2, <3>1, PlanPeers
    <3> QED
      BY <1>1, <1>2, <3>1, <3>2 DEF SentIn
  <2>3. WaitedUpTo(a, s, i, j) = m \/ (WaitedUpTo(a, s, i, j) = m - 1 /\ m \notin Meets(a, s, j, i))
    <3> SUFFICES ASSUME ~WaitedIn(pl, pc[i], stage[i], j), m \in Meets(a, s, j, i) PROVE FALSE
      BY DEF WaitedUpTo, m, pl
    <3>1. PICK k \in Nat : Awaits(pl, k, j)
      BY <1>1, <1>2, PlanMatched
    <3>2. k <= Len(pl)
      BY <1>1, <1>2, <3>1, PlanPeers
    <3> QED
      BY <1>1, <1>2, <3>1, <3>2 DEF WaitedIn
  <2>4. \A S : m \notin S => Count(S, m - 1) = Count(S, m)
    BY <1>1, CountNext
  <2> QED
    BY <2>1, <2>2, <2>3, <2>4
<1> QED
  BY <1>4, <1>5 DEF m

\* Returning Ok.
LEMMA ReturnOkKeeps ==
  ASSUME NEW a, NEW s, BInv(a, s), NEW i \in Nodes, ReturnOk(i)
  PROVE  BInv(a, s)'
<1>1. /\ Running(i) /\ pc[i] > Len(PlanOf(i)) /\ pc' = [pc EXCEPT ![i] = 0]
      /\ passed' = [passed EXCEPT ![i] = @ \cup {call[i]}]
      /\ UNCHANGED <<setup, call, stage, unacked, write_err, mrVars, wire, poisoned>>
  BY DEF ReturnOk
<1>2. TypeOK /\ sched = s /\ LocalInv(a, s, i) /\ BarrierSafety
  BY DEF BInv
<1>3. /\ a \in Algorithms /\ s \in Schedules /\ Len(s) \in Nat /\ call[i] \in 1..Len(s)
      /\ ~poisoned[i]
  BY <1>1, CallFacts
<1>4. stage[i] = "ready" /\ unacked[i] = {}
  <2>1. pc[i] \notin DOMAIN Cur(a, s, i) /\ NodeInv(a, s, i)
    BY <1>1, <1>2, StepFacts DEF LocalInv
  <2> QED
    BY <1>2, <2>1 DEF NodeInv, TypeOK
<1>5. TypeOK'
  BY <1>1, <1>2, <1>3 DEF TypeOK, Epochs, setup, mrVars
<1>6. CallsGrow
  BY <1>1, NoCall
<1>7. /\ pc'[i] = 0 /\ passed'[i] = passed[i] \cup {call[i]} /\ ~Running(i)'
      /\ \A j \in Nodes \ {i} : Kept(j)
  BY <1>1, <1>2 DEF TypeOK, Kept, mrVars, Running
<1>8. LocalInv(a, s, i)'
  <2>1. NodeInv(a, s, i)'
    <3>1. NodeInv(a, s, i)
      BY <1>2 DEF LocalInv
    <3> QED
      BY <1>1, <1>3, <1>4, <1>7, <3>1 DEF NodeInv
  <2>2. HeardInv(a, s, i)'
    BY <1>7 DEF HeardInv
  <2>3. \A j \in Nodes : CountInv(a, s, i, j)'
    BY <1>1, <1>7, PlanEnded DEF CountInv, SentUpTo, WaitedUpTo, mrVars
  <2>4. \A j \in Nodes : NewsInv(a, s, i, j)'
    BY <1>1, <1>6, KeptNews DEF mrVars
  <2> QED
    BY <2>1, <2>2, <2>3, <2>4 DEF LocalInv
<1>9. ASSUME NEW j \in Nodes PROVE WaitInv(a, s, i, j)'
  <2>1. WaitInv(a, s, i, j)
    BY DEF BInv
  <2> QED
    BY <1>1, <1>4, <2>1 DEF WaitInv, mrVars
<1>10. BarrierSafety'
  <2> SUFFICES ASSUME NEW x \in Nodes, NEW n \in passed'[x], NEW j \in Members(s[n])
               PROVE  call[j] >= n
    BY <1>1, <1>2 DEF BarrierSafety, setup
  <2>1. CASE n \in passed[x]
    BY <1>2, <2>1 DEF BarrierSafety
  <2>2. CASE n \notin passed[x]
    <3>1. x = i /\ n = call[i]
      BY <1>1, <1>2, <2>2 DEF TypeOK
    <3> QED
      BY <1>1, <3>1, PlanEnded DEF Group
  <2> QED
    BY <2>1, <2>2
<1>11. UNCHANGED <<setup, out_epoch, in_epoch, wire>>
  BY <1>1 DEF mrVars
<1> QED
  BY <1>5, <1>6, <1>7, <1>8, <1>9, <1>10, <1>11, QuietStep

\* The two ways a node leaves a step: with an error, which poisons it, ...
LEMMA FailKeeps ==
  ASSUME NEW a, NEW s, BInv(a, s), NEW i \in Nodes, Running(i), unacked[i] = {}, Fail(i),
         UNCHANGED <<setup, call, unacked, mrVars, wire, passed>>, write_err' \in [Nodes -> BOOLEAN]
  PROVE  BInv(a, s)'
<1>1. TypeOK /\ sched = s /\ LocalInv(a, s, i)
  BY DEF BInv
<1>2. TypeOK'
  BY <1>1 DEF TypeOK, Epochs, setup, mrVars, Fail
<1>3. CallsGrow
  BY NoCall
<1>4. /\ pc'[i] = 0 /\ stage'[i] = "ready" /\ poisoned'[i] = TRUE /\ ~Running(i)'
      /\ \A j \in Nodes \ {i} : Kept(j)
  BY <1>1 DEF TypeOK, Kept, mrVars, Running, Fail
<1>5. LocalInv(a, s, i)'
  <2>1. NodeInv(a, s, i)'
    <3>1. NodeInv(a, s, i)
      BY <1>1 DEF LocalInv
    <3> QED
      BY <1>4, <3>1 DEF NodeInv
  <2>2. HeardInv(a, s, i)'
    BY <1>4 DEF HeardInv
  <2>3. \A j \in Nodes : CountInv(a, s, i, j)'
    BY <1>4 DEF CountInv
  <2>4. \A j \in Nodes : NewsInv(a, s, i, j)'
    BY <1>3, KeptNews DEF mrVars
  <2> QED
    BY <2>1, <2>2, <2>3, <2>4 DEF LocalInv
<1>6. \A j \in Nodes : WaitInv(a, s, i, j)'
  BY <1>4 DEF WaitInv
<1>7. BarrierSafety'
  BY <1>3, KeptSafety DEF setup
<1>8. UNCHANGED <<setup, out_epoch, in_epoch, wire>>
  BY DEF mrVars
<1> QED
  BY <1>2, <1>3, <1>4, <1>5, <1>6, <1>7, <1>8, QuietStep

\* ... or to the next step, with the epoch it waited for and what that tells.
LEMMA StepDoneKeeps ==
  ASSUME NEW a, NEW s, BInv(a, s), NEW i \in Nodes, Running(i), unacked[i] = {},
         stage[i] # "ready", StepDone(i),
         UNCHANGED <<setup, call, unacked, mrVars, wire, passed>>, write_err' \in [Nodes -> BOOLEAN],
         \A p \in Nodes : Awaits(Cur(a, s, i), pc[i], p) =>
           \A x \in Carries(a, s, call[i], p, i) : call[x] >= call[i],
         \A p \in Nodes : ~(expected[i][p] > in_epoch[i][p])
  PROVE  BInv(a, s)'
<1>1. TypeOK /\ sched = s /\ LocalInv(a, s, i)
  BY DEF BInv
<1>2. TypeOK'
  BY <1>1 DEF TypeOK, Epochs, setup, mrVars, StepDone
<1>3. CallsGrow
  BY NoCall
<1>4. /\ pc[i] \in Nat /\ pc[i] # 0 /\ ~poisoned[i] /\ call[i] # 0
      /\ stage[i] \in {"waiting", "expiring", "writing"}
  BY <1>1, CallFacts DEF Running, TypeOK
<1>5. /\ pc'[i] = pc[i] + 1 /\ stage'[i] = "ready" /\ Running(i)'
      /\ Cur(a, s, i)' = Cur(a, s, i)
      /\ \A j \in Nodes \ {i} : Kept(j)
  BY <1>1, <1>4 DEF TypeOK, Kept, mrVars, Running, StepDone, Cur
<1>6. NodeInv(a, s, i)
  BY <1>1 DEF LocalInv
<1>7. NodeInv(a, s, i)'
  BY <1>4, <1>5, <1>6 DEF NodeInv, StepDone
<1>8. HeardInv(a, s, i)'
  <2> SUFFICES ASSUME NEW k \in Nat, NEW p \in Nodes, k < pc[i] + 1, Awaits(Cur(a, s, i), k, p),
                      NEW x \in Carries(a, s, call[i], p, i)
               PROVE  call[x] >= call[i]
    BY <1>5 DEF HeardInv
  <2>1. CASE k = pc[i]
    BY <2>1
  <2>2. CASE k < pc[i]
    BY <1>1, <2>2 DEF LocalInv, HeardInv
  <2> QED
    BY <1>4, <2>1, <2>2
<1>9. ASSUME NEW j \in Nodes PROVE CountInv(a, s, i, j)'
  <2> DEFINE pl == Cur(a, s, i)
  <2>1. stage[i] = "writing" => ~Awaits(pl, pc[i], j)
    BY <1>6 DEF NodeInv, Awaits
  <2>2. stage[i] # "writing" => ~Notifies(pl, pc[i], j)
    BY <1>4, <1>6 DEF NodeInv, Notifies
  <2> HIDE DEF pl
  <2>3. SentIn(pl, pc[i] + 1, "ready", j) <=> SentIn(pl, pc[i], stage[i], j)
    BY <1>4, <2>2, SentSteps
  <2>4. WaitedIn(pl, pc[i] + 1, "ready", j) <=> WaitedIn(pl, pc[i], stage[i], j)
    BY <1>4, <2>1, WaitedSteps
  <2>5. /\ SentUpTo(a, s, i, j)' = SentUpTo(a, s, i, j)
        /\ WaitedUpTo(a, s, i, j)' = WaitedUpTo(a, s, i, j)
    BY <1>5, <2>3, <2>4 DEF SentUpTo, WaitedUpTo, pl
  <2>6. CountInv(a, s, i, j)
    BY <1>1 DEF LocalInv
  <2> QED
    BY <1>4, <2>5, <2>6 DEF CountInv, mrVars
<1>10. \A j \in Nodes : NewsInv(a, s, i, j)'
  BY <1>3, KeptNews DEF mrVars
<1>11. LocalInv(a, s, i)'
  BY <1>7, <1>8, <1>9, <1>10 DEF LocalInv
<1>12. \A j \in Nodes : WaitInv(a, s, i, j)'
  BY DEF WaitInv, mrVars
<1>13. BarrierSafety'
  BY <1>3, KeptSafety DEF setup
<1>14. UNCHANGED <<setup, out_epoch, in_epoch, wire>>
  BY DEF mrVars
<1> QED
  BY <1>2, <1>3, <1>5, <1>11, <1>12, <1>13, <1>14, QuietStep

\* Going into the spin loop: the barrier now counts in the epoch expected.
LEMMA StartWaitKeeps ==
  ASSUME NEW a, NEW s, BInv(a, s), NEW i \in Nodes, StartWait(i)
  PROVE  BInv(a, s)'
<1>1. PICK p \in StepOf(i).peers : expected' = [expected EXCEPT ![i][p] = @ + 1]
  BY DEF StartWait, increase_peer_expected_epoch
<1>2. /\ Running(i) /\ AtStep(i, "wait") /\ stage[i] = "ready"
      /\ stage' = [stage EXCEPT ![i] = "waiting"]
      /\ UNCHANGED <<setup, call, pc, unacked, write_err, out_epoch, in_epoch, wire,
                     poisoned, passed>>
  BY DEF StartWait, AtStep
<1>3. TypeOK /\ sched = s /\ LocalInv(a, s, i)
  BY DEF BInv
<1> DEFINE m == call[i]
           pl == Cur(a, s, i)
<1>4. /\ a \in Algorithms /\ s \in Schedules /\ Len(s) \in Nat /\ m \in 1..Len(s)
      /\ m \in Nat /\ i \in Group(s, m) /\ pc[i] \in Nat /\ ~poisoned[i] /\ pl = P(a, s, m, i)
  BY <1>2, CallFacts DEF Cur
<1>5. Awaits(pl, pc[i], p) /\ pl[pc[i]].op = "wait" /\ pc[i] \in DOMAIN pl
  BY <1>1, <1>2, StepFacts DEF Awaits
<1>6. Cur(a, s, i)' = pl /\ (Running(i)' <=> Running(i))
  BY <1>2 DEF Cur, Running
<1> HIDE DEF m, pl
<1>7. p \in Nodes
  BY <1>4, <1>5, PlanPeers
<1>8. \A j : Awaits(pl, pc[i], j) => j = p
  BY <1>4, <1>5, PlanOnce
<1>9. m \in Meets(a, s, p, i)
  BY <1>4, <1>5, PlanMatched
<1>10. ~WaitedIn(pl, pc[i], "ready", p)
  BY <1>4, <1>5, PlanOnce DEF WaitedIn
<1>11. \A j \in Nodes : CountInv(a, s, i, j)
  BY <1>3 DEF LocalInv
<1>12. expected[i][p] = Count(Meets(a, s, p, i), m - 1)
  BY <1>2, <1>4, <1>7, <1>10, <1>11 DEF CountInv, WaitedUpTo, m, pl
<1>13. Count(Meets(a, s, p, i), m) = expected[i][p] + 1 /\ expected[i][p] + 1 \in 0..Len(s)
  <2>1. Count(Meets(a, s, p, i), m) \in Nat /\ Count(Meets(a, s, p, i), m) <= m
    BY <1>4, CountNat
  <2> QED
    BY <1>4, <1>9, <1>12, <2>1, CountNext
<1>14. expected'[i][p] = expected[i][p] + 1
       /\ (\A j \in Nodes \ {p} : expected'[i][j] = expected[i][j])
       /\ \A j \in Nodes \ {i} : expected'[j] = expected[j]
  BY <1>1, <1>3, <1>7 DEF TypeOK, Epochs
<1>15. expected' \in Epochs
  BY <1>1, <1>3, <1>7, <1>13 DEF TypeOK, Epochs
<1>16. TypeOK'
  <2>1. expected' \in Epochs'
    BY <1>2, <1>15 DEF Epochs, setup
  <2> QED
    BY <1>2, <1>3, <2>1 DEF TypeOK, Epochs, setup
<1>17. CallsGrow
  BY <1>2, NoCall
<1>18. stage'[i] = "waiting" /\ \A j \in Nodes \ {i} : Kept(j)
  BY <1>2, <1>3, <1>14 DEF TypeOK, Kept
<1>19. NodeInv(a, s, i)'
  <2>1. NodeInv(a, s, i)
    BY <1>3 DEF LocalInv
  <2> QED
    BY <1>2, <1>5, <1>6, <1>18, <2>1 DEF NodeInv, Running
<1>20. ASSUME NEW j \in Nodes PROVE CountInv(a, s, i, j)'
  <2>1. SentIn(pl, pc[i], "waiting", j) <=> SentIn(pl, pc[i], "ready", j)
    BY <1>4, SentSteps
  <2>2. SentUpTo(a, s, i, j)' = SentUpTo(a, s, i, j)
    BY <1>2, <1>6, <1>18, <2>1 DEF SentUpTo, pl
  <2>3. WaitedIn(pl, pc[i], "waiting", j) <=> WaitedIn(pl, pc[i], "ready", j) \/ Awaits(pl, pc[i], j)
    BY <1>4, WaitedSteps
  <2>4. CASE j = p
    <3>1. WaitedUpTo(a, s, i, j)' = m
      BY <1>2, <1>5, <1>6, <1>18, <2>3, <2>4 DEF WaitedUpTo, m
    <3> QED
      BY <1>2, <1>4, <1>11, <1>13, <1>14, <2>2, <2>4, <3>1 DEF CountInv
  <2>5. CASE j # p
    <3>1. WaitedUpTo(a, s, i, j)' = WaitedUpTo(a, s, i, j)
      BY <1>2, <1>6, <1>8, <1>18, <2>3, <2>5 DEF WaitedUpTo, pl
    <3> QED
      BY <1>2, <1>4, <1>11, <1>14, <2>2, <2>5, <3>1 DEF CountInv
  <2> QED
    BY <2>4, <2>5
<1>21. LocalInv(a, s, i)'
  <2>1. HeardInv(a, s, i)'
    BY <1>2, <1>17, KeptHeard
  <2>2. \A j \in Nodes : NewsInv(a, s, i, j)'
    BY <1>2, <1>17, KeptNews
  <2> QED
    BY <1>19, <1>20, <2>1, <2>2 DEF LocalInv
<1>22. ASSUME NEW j \in Nodes PROVE WaitInv(a, s, i, j)'
  <2>1. WaitInv(a, s, i, j)
    BY DEF BInv
  <2>2. CASE j = p
    BY <1>2, <1>5, <1>6, <1>18, <2>2 DEF WaitInv
  <2>3. CASE j # p
    BY <1>2, <1>4, <1>14, <2>1, <2>3 DEF WaitInv
  <2> QED
    BY <2>2, <2>3
<1>23. BarrierSafety'
  BY <1>2, <1>17, KeptSafety DEF setup
<1>24. UNCHANGED <<setup, out_epoch, in_epoch, wire>>
  BY <1>2
<1> QED
  BY <1>16, <1>17, <1>18, <1>21, <1>22, <1>23, <1>24, QuietStep

\* Leaving the spin loop: the epoch that has come in says whom its sender had been told of.
LEMMA WaitOkKeeps ==
  ASSUME NEW a, NEW s, BInv(a, s), NEW i \in Nodes, WaitOk(i)
  PROVE  BInv(a, s)'
<1>1. PICK p \in StepOf(i).peers : in_epoch[i][p] >= expected[i][p]
  BY DEF WaitOk, is_peer_epoch_expected
<1>2. /\ Running(i) /\ AtStep(i, "wait") /\ stage[i] = "waiting" /\ StepDone(i)
      /\ UNCHANGED <<setup, call, unacked, write_err, mrVars, wire, passed>>
  BY DEF WaitOk, AtStep
<1>3. TypeOK /\ LocalInv(a, s, i) /\ sched = s
  BY DEF BInv
<1> DEFINE m == call[i]
           pl == Cur(a, s, i)
<1>4. /\ a \in Algorithms /\ s \in Schedules /\ Len(s) \in Nat /\ m \in 1..Len(s)
      /\ i \in Group(s, m) /\ pc[i] \in Nat /\ ~poisoned[i] /\ pl = P(a, s, m, i)
  BY <1>2, CallFacts DEF Cur
<1>5. Awaits(pl, pc[i], p)
  BY <1>1, <1>2, StepFacts DEF Awaits
<1> HIDE DEF m, pl
<1>6. p \in Nodes
  BY <1>4, <1>5, PlanPeers
<1>7. \A j : Awaits(pl, pc[i], j) => j = p
  BY <1>4, <1>5, PlanOnce
<1>8. m \in Meets(a, s, p, i)
  BY <1>4, <1>5, PlanMatched
<1>9. expected[i][p] = Count(Meets(a, s, p, i), m)
  <2>1. WaitedIn(pl, pc[i], stage[i], p)
    BY <1>2, <1>4, <1>5 DEF WaitedIn
  <2>2. WaitedUpTo(a, s, i, p) = m
    BY <2>1 DEF WaitedUpTo, m, pl
  <2> QED
    BY <1>3, <1>4, <1>6, <2>2 DEF LocalInv, CountInv
<1>10. out_epoch[p][i] >= Count(Meets(a, s, p, i), m)
  <2>1. in_epoch[i][p] <= out_epoch[p][i]
    BY <1>6 DEF BInv, EpochInv
  <2>2. in_epoch[i][p] \in Nat /\ out_epoch[p][i] \in Nat /\ expected[i][p] \in Nat
    BY <1>3, <1>4, <1>6 DEF TypeOK, Epochs
  <2> QED
    BY <1>1, <1>9, <2>1, <2>2
<1>11. \A x \in Carries(a, s, m, p, i) : call[x] >= m
  <2>1. NewsInv(a, s, p, i)
    BY <1>6 DEF BInv, LocalInv
  <2> QED
    BY <1>8, <1>10, <2>1 DEF NewsInv
<1>12. \A q \in Nodes : Awaits(Cur(a, s, i), pc[i], q) =>
         \A x \in Carries(a, s, call[i], q, i) : call[x] >= call[i]
  BY <1>7, <1>11 DEF m, pl
<1>13. ASSUME NEW q \in Nodes, expected[i][q] > in_epoch[i][q] PROVE FALSE
  <2>1. WaitInv(a, s, i, q)
    BY DEF BInv
  <2>2. q = p
    BY <1>4, <1>7, <1>13, <2>1 DEF WaitInv, pl
  <2>3. in_epoch[i][p] \in Nat /\ expected[i][p] \in Nat
    BY <1>3, <1>4, <1>6 DEF TypeOK, Epochs
  <2> QED
    BY <1>1, <1>13, <2>2, <2>3
<1>14. unacked[i] = {}
  BY <1>2, <1>3 DEF LocalInv, NodeInv
<1>15. write_err' \in [Nodes -> BOOLEAN]
  BY <1>2, <1>3 DEF TypeOK
<1> QED
  BY <1>2, <1>12, <1>13, <1>14, <1>15, StepDoneKeeps

\* The iteration of the spin loop that will find the time elapsed.
LEMMA NotYetKeeps ==
  ASSUME NEW a, NEW s, BInv(a, s), NEW i \in Nodes, NotYet(i)
  PROVE  BInv(a, s)'
<1>1. /\ Running(i) /\ stage[i] = "waiting" /\ stage' = [stage EXCEPT ![i] = "expiring"]
      /\ UNCHANGED <<setup, call, pc, unacked, write_err, mrVars, wire, poisoned, passed>>
  BY DEF NotYet, AtStep
<1>2. TypeOK /\ sched = s /\ LocalInv(a, s, i)
  BY DEF BInv
<1>3. TypeOK'
  BY <1>1, <1>2 DEF TypeOK, Epochs, setup, mrVars
<1>4. CallsGrow
  BY <1>1, NoCall
<1>5. /\ stage'[i] = "expiring" /\ Cur(a, s, i)' = Cur(a, s, i) /\ (Running(i)' <=> Running(i))
      /\ \A j \in Nodes \ {i} : Kept(j)
  BY <1>1, <1>2 DEF TypeOK, Kept, mrVars, Running, Cur
<1>6. LocalInv(a, s, i)'
  <2>1. NodeInv(a, s, i)'
    <3>1. NodeInv(a, s, i)
      BY <1>2 DEF LocalInv
    <3> QED
      BY <1>1, <1>5, <3>1 DEF NodeInv
  <2>2. HeardInv(a, s, i)'
    BY <1>1, <1>4, KeptHeard
  <2>3. ASSUME NEW j \in Nodes PROVE CountInv(a, s, i, j)'
    <3>1. /\ SentUpTo(a, s, i, j)' = SentUpTo(a, s, i, j)
          /\ WaitedUpTo(a, s, i, j)' = WaitedUpTo(a, s, i, j)
      BY <1>1, <1>5 DEF SentUpTo, WaitedUpTo, SentIn, WaitedIn
    <3> QED
      BY <1>1, <1>2, <3>1 DEF LocalInv, CountInv, mrVars
  <2>4. \A j \in Nodes : NewsInv(a, s, i, j)'
    BY <1>1, <1>4, KeptNews DEF mrVars
  <2> QED
    BY <2>1, <2>2, <2>3, <2>4 DEF LocalInv
<1>7. ASSUME NEW j \in Nodes PROVE WaitInv(a, s, i, j)'
  <2>1. WaitInv(a, s, i, j)
    BY DEF BInv
  <2> QED
    BY <1>1, <1>5, <2>1 DEF WaitInv, mrVars
<1>8. BarrierSafety'
  BY <1>1, <1>4, KeptSafety DEF setup
<1>9. UNCHANGED <<setup, out_epoch, in_epoch, wire>>
  BY <1>1 DEF mrVars
<1> QED
  BY <1>3, <1>4, <1>5, <1>6, <1>7, <1>8, <1>9, QuietStep

\* A timeout.
LEMMA TimeoutKeeps ==
  ASSUME NEW a, NEW s, BInv(a, s), NEW i \in Nodes, Timeout(i)
  PROVE  BInv(a, s)' /\ Running(i)
<1>1. /\ stage[i] = "expiring" /\ Fail(i)
      /\ UNCHANGED <<setup, call, unacked, write_err, mrVars, wire, passed>>
  BY DEF Timeout
<1>2. TypeOK /\ NodeInv(a, s, i)
  BY DEF BInv, LocalInv
<1>3. Running(i) /\ unacked[i] = {}
  BY <1>1, <1>2 DEF NodeInv
<1>4. write_err' \in [Nodes -> BOOLEAN]
  BY <1>1, <1>2 DEF TypeOK
<1> QED
  BY <1>1, <1>3, <1>4, FailKeeps

\* The writes of a notification have completed.
LEMMA NotifyReturnsKeeps ==
  ASSUME NEW a, NEW s, BInv(a, s), NEW i \in Nodes, NotifyReturns(i)
  PROVE  BInv(a, s)'
<1>1. /\ Running(i) /\ stage[i] = "writing" /\ unacked[i] = {}
      /\ write_err' = [write_err EXCEPT ![i] = FALSE]
      /\ Fail(i) \/ StepDone(i)
      /\ UNCHANGED <<setup, call, unacked, mrVars, wire, passed>>
  BY DEF NotifyReturns, AtStep
<1>2. TypeOK /\ NodeInv(a, s, i) /\ \A p \in Nodes : WaitInv(a, s, i, p)
  BY DEF BInv, LocalInv
<1>3. write_err' \in [Nodes -> BOOLEAN]
  BY <1>1, <1>2 DEF TypeOK
<1>4. \A p \in Nodes : ~Awaits(Cur(a, s, i), pc[i], p)
  BY <1>1, <1>2 DEF NodeInv, Awaits
<1>5. \A p \in Nodes : ~(expected[i][p] > in_epoch[i][p])
  BY <1>1, <1>2 DEF WaitInv, NodeInv
<1>6. CASE Fail(i)
  BY <1>1, <1>3, <1>6, FailKeeps
<1>7. CASE StepDone(i)
  BY <1>1, <1>3, <1>4, <1>5, <1>7, StepDoneKeeps
<1> QED
  BY <1>1, <1>6, <1>7

\* Posting the writes of a notification: the barrier now counts in the epochs sent, and
\* the sender has been told of everybody they tell of.
LEMMA StartNotifyKeeps ==
  ASSUME NEW a, NEW s, BInv(a, s), NEW i \in Nodes, StartNotify(i)
  PROVE  BInv(a, s)'
<1> DEFINE S == StepOf(i).peers
           epochs == advanced(i, S)
           m == call[i]
           pl == Cur(a, s, i)
<1>1. PICK posted \in {S} \cup (IF faults THEN PostedPrefixes(S) ELSE {}) :
        /\ unacked' = [unacked EXCEPT ![i] = posted]
        /\ write_err' = [write_err EXCEPT ![i] = posted # S]
        /\ wire' = [wire EXCEPT ![i] =
                      [j \in Nodes |-> IF j \in posted THEN epochs[j] ELSE wire[i][j]]]
  BY DEF StartNotify
<1>2. /\ Running(i) /\ AtStep(i, "notify") /\ stage[i] = "ready"
      /\ stage' = [stage EXCEPT ![i] = "writing"]
      /\ out_epoch' = [out_epoch EXCEPT ![i] = epochs]
      /\ UNCHANGED <<setup, call, pc, expected, in_epoch, poisoned, passed>>
  BY DEF StartNotify, AtStep
<1>3. posted \subseteq S
  BY <1>1 DEF PostedPrefixes
<1>4. TypeOK /\ sched = s /\ LocalInv(a, s, i)
  BY DEF BInv
<1>5. /\ a \in Algorithms /\ s \in Schedules /\ Len(s) \in Nat /\ m \in 1..Len(s)
      /\ m \in Nat /\ i \in Group(s, m) /\ pc[i] \in Nat /\ ~poisoned[i] /\ pl = P(a, s, m, i)
  BY <1>2, CallFacts DEF Cur
<1>6. /\ \A j : Notifies(pl, pc[i], j) <=> j \in S
      /\ pl[pc[i]].op = "notify" /\ pc[i] \in DOMAIN pl
  BY <1>2, StepFacts DEF Notifies
<1>7. Cur(a, s, i)' = pl /\ (Running(i)' <=> Running(i))
  BY <1>2 DEF Cur, Running
<1> HIDE DEF S, m, pl
<1>8. S \subseteq Nodes
  BY <1>5, <1>6, PlanPeers
<1>9. /\ \A j \in Nodes : out_epoch'[i][j] = IF j \in S THEN out_epoch[i][j] + 1 ELSE out_epoch[i][j]
      /\ \A j \in Nodes : wire'[i][j] = IF j \in posted THEN out_epoch[i][j] + 1 ELSE wire[i][j]
      /\ \A x \in Nodes \ {i} : out_epoch'[x] = out_epoch[x] /\ wire'[x] = wire[x]
  BY <1>1, <1>2, <1>3, <1>4, <1>8 DEF TypeOK, Epochs, advanced
<1>10. /\ out_epoch' \in [Nodes -> [Nodes -> Nat]] /\ DOMAIN out_epoch' = Nodes
       /\ wire' \in [Nodes -> [Nodes -> Nat]] /\ DOMAIN wire' = Nodes
  <2> DEFINE row == [j \in Nodes |-> IF j \in posted THEN epochs[j] ELSE wire[i][j]]
  <2>1. out_epoch \in [Nodes -> [Nodes -> Nat]] /\ wire \in [Nodes -> [Nodes -> Nat]]
    <3>1. ASSUME NEW E \in SUBSET Nat, NEW f \in [Nodes -> [Nodes -> E]]
          PROVE  f \in [Nodes -> [Nodes -> Nat]]
      <4>1. \A x \in Nodes : f[x] \in [Nodes -> Nat]
        OBVIOUS
      <4> QED
        BY <4>1
    <3>2. 0..Len(s) \in SUBSET Nat
      BY <1>5
    <3> QED
      BY <1>4, <3>1, <3>2 DEF TypeOK, Epochs
  <2>2. epochs \in [Nodes -> Nat]
    BY <2>1 DEF advanced
  <2> HIDE DEF epochs
  <2>3. row \in [Nodes -> Nat]
    BY <2>1, <2>2
  <2> HIDE DEF row
  <2>4. wire' = [wire EXCEPT ![i] = row]
    BY <1>1 DEF row
  <2> QED
    BY <1>2, <2>1, <2>2, <2>3, <2>4
<1> HIDE DEF epochs
<1>11. \A j \in Nodes : CountInv(a, s, i, j)
  BY <1>4 DEF LocalInv
<1>12. ASSUME NEW j \in S
       PROVE  /\ out_epoch[i][j] = Count(Meets(a, s, i, j), m - 1)
              /\ out_epoch[i][j] + 1 = Count(Meets(a, s, i, j), m)
              /\ out_epoch[i][j] + 1 \in 0..Len(s) /\ m \in Meets(a, s, i, j)
  <2>1. j \in Group(s, m) /\ j \in Nodes
    BY <1>5, <1>6, PlanPeers
  <2>2. m \in Meets(a, s, i, j)
    BY <1>5, <1>6, <2>1 DEF Meets
  <2>3. ~SentIn(pl, pc[i], "ready", j)
    <3>1. \A k : Notifies(pl, k, j) => k = pc[i]
      BY <1>5, <1>6, PlanOnce
    <3> QED
      BY <1>5, <3>1 DEF SentIn
  <2>4. out_epoch[i][j] = Count(Meets(a, s, i, j), m - 1)
    BY <1>2, <1>5, <1>11, <2>1, <2>3 DEF CountInv, SentUpTo, m, pl
  <2>5. Count(Meets(a, s, i, j), m) \in Nat /\ Count(Meets(a, s, i, j), m) <= m
    BY <1>5, CountNat
  <2> QED
    BY <1>5, <2>2, <2>4, <2>5, CountNext
<1>13. out_epoch' \in Epochs /\ wire' \in Epochs
  <2>1. \A x, y \in Nodes : out_epoch[x][y] \in 0..Len(s) /\ wire[x][y] \in 0..Len(s)
    BY <1>4 DEF TypeOK, Epochs
  <2>2. \A x, y \in Nodes : out_epoch'[x][y] \in 0..Len(s) /\ wire'[x][y] \in 0..Len(s)
    BY <1>3, <1>9, <1>12, <2>1, SMTT(30)
  <2> QED
    BY <1>4, <1>10, <2>2 DEF Epochs
<1>14. TypeOK'
  <2>1. out_epoch' \in Epochs' /\ wire' \in Epochs'
    BY <1>2, <1>13 DEF Epochs, setup
  <2>2. unacked' \in [Nodes -> SUBSET Nodes] /\ write_err' \in [Nodes -> BOOLEAN]
    BY <1>1, <1>3, <1>4, <1>8 DEF TypeOK
  <2> QED
    BY <1>2, <1>4, <2>1, <2>2 DEF TypeOK, Epochs, setup
<1>15. CallsGrow
  BY <1>2, NoCall
<1>16. stage'[i] = "writing" /\ \A j \in Nodes \ {i} : Kept(j)
  BY <1>1, <1>2, <1>4, <1>9 DEF TypeOK, Kept
<1>17. NodeInv(a, s, i)'
  <2>1. NodeInv(a, s, i)
    BY <1>4 DEF LocalInv
  <2> QED
    BY <1>2, <1>6, <1>7, <1>16, <2>1 DEF NodeInv
<1>18. ASSUME NEW j \in Nodes PROVE CountInv(a, s, i, j)'
  <2>1. WaitedIn(pl, pc[i], "writing", j) <=> WaitedIn(pl, pc[i], "ready", j)
    BY <1>5, WaitedSteps
  <2>2. WaitedUpTo(a, s, i, j)' = WaitedUpTo(a, s, i, j)
    BY <1>2, <1>7, <1>16, <2>1 DEF WaitedUpTo, pl
  <2>3. SentIn(pl, pc[i], "writing", j) <=> SentIn(pl, pc[i], "ready", j) \/ Notifies(pl, pc[i], j)
    BY <1>5, SentSteps
  <2>4. CASE j \in S
    <3>1. SentUpTo(a, s, i, j)' = m
      BY <1>2, <1>6, <1>7, <1>16, <2>3, <2>4 DEF SentUpTo, m
    <3> QED
      BY <1>2, <1>5, <1>9, <1>11, <1>12, <2>2, <2>4, <3>1 DEF CountInv
  <2>5. CASE j \notin S
    <3>1. SentUpTo(a, s, i, j)' = SentUpTo(a, s, i, j)
      BY <1>2, <1>6, <1>7, <1>16, <2>3, <2>5 DEF SentUpTo, pl
    <3> QED
      BY <1>2, <1>5, <1>9, <1>11, <2>2, <2>5, <3>1 DEF CountInv
  <2> QED
    BY <2>4, <2>5
<1>19. ASSUME NEW j \in Nodes PROVE NewsInv(a, s, i, j)'
  <2>1. NewsInv(a, s, i, j)
    BY <1>4 DEF LocalInv
  <2>2. CASE j \notin S
    BY <1>9, <1>15, <2>2, KeptNews
  <2>3. CASE j \in S
    <3> DEFINE T == Meets(a, s, i, j)
    <3> HIDE DEF T
    <3>1. /\ out_epoch'[i][j] = Count(T, m) /\ out_epoch[i][j] = Count(T, m - 1)
          /\ j \in Group(s, m)
      BY <1>5, <1>6, <1>9, <1>12, <2>3, PlanPeers DEF T
    <3> SUFFICES ASSUME NEW n \in T, Count(T, m) >= Count(T, n), NEW x \in Carries(a, s, n, i, j)
                 PROVE  call[x] >= n
      BY <1>2, <3>1 DEF NewsInv, T
    <3>2. n \in Nat /\ n > 0
      BY <1>5 DEF T, Meets
    <3>3. CASE n < m
      <4>1. n <= m - 1 /\ m - 1 \in Nat
        BY <1>5, <3>2, <3>3
      <4>2. Count(T, n) <= Count(T, m - 1) /\ Count(T, n) \in Nat /\ Count(T, m - 1) \in Nat
        <5>1. Count(T, n) <= Count(T, m - 1)
          BY <3>2, <4>1, CountMonotone
        <5>2. Count(T, n) \in Nat /\ Count(T, m - 1) \in Nat
          BY <3>2, <4>1, CountNat
        <5> QED
          BY <5>1, <5>2
      <4>3. out_epoch[i][j] >= Count(T, n)
        BY <3>1, <4>2
      <4> QED
        BY <2>1, <4>3 DEF NewsInv, T
    <3>4. CASE n = m
      <4>1. CASE x = i
        BY <1>5, <3>4, <4>1 DEF m
      <4>2. CASE x # i
        <5>1. PICK l \in Nat, w \in Group(s, m) :
                l < pc[i] /\ Awaits(pl, l, w) /\ x \in Carries(a, s, m, w, i)
          BY <1>5, <1>6, <2>3, <3>4, <4>2, PlanInformed
        <5>2. w \in Nodes
          BY <1>5, GroupFacts
        <5>3. HeardInv(a, s, i)
          BY <1>4 DEF LocalInv
        <5> QED
          BY <1>2, <3>4, <5>1, <5>2, <5>3 DEF HeardInv, m, pl
      <4> QED
        BY <4>1, <4>2
    <3>5. CASE n > m
      <4>1. Count(T, n) = Count(T, n - 1) + 1 /\ n - 1 \in Nat /\ m <= n - 1
        BY <1>5, <3>2, <3>5, CountNext
      <4>2. Count(T, m) <= Count(T, n - 1) /\ Count(T, m) \in Nat /\ Count(T, n - 1) \in Nat
        <5>1. Count(T, m) <= Count(T, n - 1)
          BY <1>5, <4>1, CountMonotone
        <5>2. Count(T, m) \in Nat /\ Count(T, n - 1) \in Nat
          BY <1>5, <4>1, CountNat
        <5> QED
          BY <5>1, <5>2
      <4> QED
        BY <4>1, <4>2
    <3> QED
      BY <1>5, <3>2, <3>3, <3>4, <3>5
  <2> QED
    BY <2>2, <2>3
<1>20. LocalInv(a, s, i)'
  <2>1. HeardInv(a, s, i)'
    BY <1>2, <1>15, KeptHeard
  <2> QED
    BY <1>17, <1>18, <1>19, <2>1 DEF LocalInv
<1>21. \A x \in Nodes : LocalInv(a, s, x)'
  BY <1>15, <1>16, <1>20, KeptLocal
<1>22. ASSUME NEW x \in Nodes, NEW y \in Nodes PROVE EpochInv(x, y)'
  <2>1. EpochInv(x, y) /\ in_epoch'[y][x] = in_epoch[y][x]
    BY <1>2 DEF BInv
  <2>2. out_epoch[x][y] \in Nat /\ wire[x][y] \in Nat /\ in_epoch[y][x] \in Nat
    BY <1>4, <1>5 DEF TypeOK, Epochs
  <2>3. CASE x = i
    BY <1>3, <1>9, <2>1, <2>2, <2>3 DEF EpochInv
  <2>4. CASE x # i
    BY <1>9, <2>1, <2>4 DEF EpochInv
  <2> QED
    BY <2>3, <2>4
<1>23. ASSUME NEW x \in Nodes, NEW y \in Nodes PROVE WaitInv(a, s, x, y)'
  <2>1. WaitInv(a, s, x, y)
    BY DEF BInv
  <2>2. CASE x = i
    BY <1>2, <2>1, <2>2 DEF WaitInv
  <2>3. CASE x # i
    <3>1. Cur(a, s, x)' = Cur(a, s, x)
      BY <1>2 DEF Cur
    <3> QED
      BY <1>2, <1>16, <2>1, <2>3, <3>1 DEF WaitInv, Kept
  <2> QED
    BY <2>2, <2>3
<1>24. BarrierSafety'
  BY <1>2, <1>15, KeptSafety DEF setup
<1>25. algorithm' = a /\ sched' = s
  BY <1>2 DEF BInv, setup
<1> QED
  BY <1>14, <1>21, <1>22, <1>23, <1>24, <1>25 DEF BInv

-----------------------------------------------------------------------------
(* The steps of the NICs.                                                  *)

\* A write lands: a later epoch replaces an earlier one.
LEMMA LandKeeps ==
  ASSUME NEW a, NEW s, BInv(a, s), NEW i \in Nodes, NEW j \in Nodes, Land(i, j)
  PROVE  BInv(a, s)'
<1>1. /\ wire[i][j] # 0
      /\ in_epoch' = [in_epoch EXCEPT ![j][i] = wire[i][j]]
      /\ wire' = [wire EXCEPT ![i][j] = 0]
      /\ UNCHANGED <<setup, call, pc, stage, unacked, write_err, expected, out_epoch,
                     poisoned, passed>>
  BY DEF Land
<1>2. TypeOK /\ sched = s /\ Len(s) \in Nat
  BY CallFacts DEF BInv
<1>3. /\ \A x, y \in Nodes : in_epoch'[y][x] = IF x = i /\ y = j THEN wire[i][j] ELSE in_epoch[y][x]
      /\ \A x, y \in Nodes : wire'[x][y] = IF x = i /\ y = j THEN 0 ELSE wire[x][y]
  BY <1>1, <1>2 DEF TypeOK, Epochs
<1>4. TypeOK'
  <2>1. in_epoch' \in Epochs /\ wire' \in Epochs
    <3>1. wire[i][j] \in 0..Len(sched) /\ 0 \in 0..Len(sched)
      BY <1>2 DEF TypeOK, Epochs
    <3>2. in_epoch' \in Epochs
      BY <1>1, <1>2, <3>1 DEF TypeOK, Epochs
    <3>3. wire' \in Epochs
      BY <1>1, <1>2, <3>1 DEF TypeOK, Epochs
    <3> QED
      BY <3>2, <3>3
  <2>2. in_epoch' \in Epochs' /\ wire' \in Epochs'
    BY <1>1, <2>1 DEF Epochs, setup
  <2> QED
    BY <1>1, <1>2, <2>2 DEF TypeOK, Epochs, setup
<1>5. CallsGrow
  BY <1>1, NoCall
<1>6. \A x \in Nodes : Kept(x)
  BY <1>1 DEF Kept
<1>7. \A x \in Nodes : LocalInv(a, s, x)'
  BY <1>5, <1>6, KeptLocal
<1>8. ASSUME NEW x \in Nodes, NEW y \in Nodes PROVE EpochInv(x, y)' /\ WaitInv(a, s, y, x)'
  <2>1. EpochInv(x, y) /\ WaitInv(a, s, y, x) /\ Cur(a, s, y)' = Cur(a, s, y)
    BY <1>1 DEF BInv, Cur
  <2>2. /\ out_epoch[x][y] \in Nat /\ wire[x][y] \in Nat /\ in_epoch[y][x] \in Nat
        /\ expected[y][x] \in Nat
    BY <1>2 DEF TypeOK, Epochs
  <2>3. EpochInv(x, y)'
    BY <1>1, <1>3, <2>1, <2>2 DEF EpochInv
  <2>4. in_epoch'[y][x] \in Nat /\ in_epoch'[y][x] >= in_epoch[y][x]
    BY <1>1, <1>3, <2>1, <2>2 DEF EpochInv
  <2>5. WaitInv(a, s, y, x)'
    BY <1>1, <2>1, <2>2, <2>4 DEF WaitInv
  <2> QED
    BY <2>3, <2>5
<1>9. BarrierSafety'
  BY <1>1, <1>5, KeptSafety DEF setup
<1>10. algorithm' = a /\ sched' = s
  BY <1>1 DEF BInv, setup
<1> QED
  BY <1>4, <1>7, <1>8, <1>9, <1>10 DEF BInv

\* A write completes, with success or with an error.
LEMMA CompletionKeeps ==
  ASSUME NEW a, NEW s, BInv(a, s), NEW i \in Nodes, NEW j \in Nodes,
         WriteCompletes(i, j) \/ WriteFails(i, j)
  PROVE  BInv(a, s)'
<1>1. /\ unacked' = [unacked EXCEPT ![i] = @ \ {j}]
      /\ write_err' = write_err \/ write_err' = [write_err EXCEPT ![i] = TRUE]
      /\ UNCHANGED <<setup, call, pc, stage, mrVars, wire, poisoned, passed>>
  BY DEF WriteCompletes, WriteFails
<1>2. TypeOK
  BY DEF BInv
<1>3. TypeOK'
  <2>1. unacked' \in [Nodes -> SUBSET Nodes] /\ write_err' \in [Nodes -> BOOLEAN]
    BY <1>1, <1>2 DEF TypeOK
  <2> QED
    BY <1>1, <1>2, <2>1 DEF TypeOK, Epochs, setup, mrVars
<1>4. CallsGrow
  BY <1>1, NoCall
<1>5. \A x \in Nodes : Kept(x)
  BY <1>1, <1>2 DEF Kept, TypeOK, mrVars
<1>6. LocalInv(a, s, i)'
  BY <1>4, <1>5, KeptLocal
<1>7. ASSUME NEW y \in Nodes PROVE WaitInv(a, s, i, y)'
  <2>1. WaitInv(a, s, i, y) /\ Cur(a, s, i)' = Cur(a, s, i)
    BY <1>1 DEF BInv, Cur
  <2> QED
    BY <1>1, <2>1 DEF WaitInv, mrVars
<1>8. BarrierSafety'
  BY <1>1, <1>4, KeptSafety DEF setup
<1>9. UNCHANGED <<setup, out_epoch, in_epoch, wire>>
  BY <1>1 DEF mrVars
<1> QED
  BY <1>3, <1>4, <1>5, <1>6, <1>7, <1>8, <1>9, QuietStep

-----------------------------------------------------------------------------
(* The theorems.                                                           *)

\* The inductive invariant: the counting argument holds for the algorithm and the schedule
\* this behaviour started with.
IInv == \E a \in Algorithms, s \in Schedules : BInv(a, s)

\* It holds at the start: nothing has been called, counted or sent.
LEMMA InitInvariant == Init => IInv
<1> SUFFICES ASSUME Init PROVE IInv
  OBVIOUS
<1>1. PICK sc \in Scenarios : algorithm = sc.algorithm /\ faults = sc.faults /\ sched = sc.sched
  BY DEF Init
<1> DEFINE a == algorithm
           s == sched
<1>2. a \in Algorithms /\ faults \in BOOLEAN /\ s \in Schedules
  BY <1>1, BarrierAssumption DEF Schedules
<1>3. Len(s) \in Nat
  BY <1>1, BarrierAssumption
<1>4. TypeOK
  <2>1. 0 \in 0..Len(sched)
    BY <1>3
  <2>2. Pairs0 \in Epochs
    BY <2>1 DEF Pairs0, Epochs
  <2> QED
    BY <1>2, <2>1, <2>2 DEF Init, TypeOK
<1>5. ASSUME NEW i \in Nodes
      PROVE  /\ call[i] = 0 /\ pc[i] = 0 /\ stage[i] = "ready" /\ unacked[i] = {} /\ passed[i] = {}
             /\ \A j \in Nodes : /\ expected[i][j] = 0 /\ out_epoch[i][j] = 0
                                 /\ in_epoch[i][j] = 0 /\ wire[i][j] = 0
  BY DEF Init, Pairs0
<1>6. \A S : Count(S, 0) = 0
  <2>1. \A S : S \cap (1..0) = {}
    OBVIOUS
  <2> QED
    BY <2>1, FS_EmptySet DEF Count
<1>7. ASSUME NEW i \in Nodes PROVE LocalInv(a, s, i)
  <2>1. NodeInv(a, s, i) /\ HeardInv(a, s, i)
    BY <1>5 DEF NodeInv, HeardInv, Running
  <2>2. ASSUME NEW j \in Nodes PROVE CountInv(a, s, i, j)
    BY <1>5, <1>6 DEF CountInv, SentUpTo, WaitedUpTo, Running
  <2>3. ASSUME NEW j \in Nodes PROVE NewsInv(a, s, i, j)
    <3> DEFINE T == Meets(a, s, i, j)
    <3>1. \A m \in T : m \in Nat /\ m > 0
      BY <1>3 DEF Meets
    <3> HIDE DEF T
    <3>2. ASSUME NEW m \in T PROVE ~(0 >= Count(T, m))
      <4>1. Count(T, m) = Count(T, m - 1) + 1 /\ m - 1 \in Nat
        BY <3>1, CountNext
      <4>2. Count(T, m - 1) \in Nat
        BY <4>1, CountNat
      <4> QED
        BY <4>1, <4>2
    <3> QED
      BY <1>5, <3>2 DEF NewsInv, T
  <2> QED
    BY <2>1, <2>2, <2>3 DEF LocalInv
<1>8. \A i, j \in Nodes : EpochInv(i, j) /\ WaitInv(a, s, i, j)
  BY <1>5 DEF EpochInv, WaitInv
<1>9. BarrierSafety
  BY <1>5 DEF BarrierSafety
<1> QED
  BY <1>2, <1>4, <1>7, <1>8, <1>9 DEF IInv, BInv

\* Every step keeps it.
LEMMA StepInvariant == IInv /\ [Next]_vars => IInv'
<1> SUFFICES ASSUME IInv, [Next]_vars PROVE IInv'
  OBVIOUS
<1>1. PICK a \in Algorithms, s \in Schedules : BInv(a, s)
  BY DEF IInv
<1>2. BInv(a, s)'
  <2>1. ASSUME NEW i \in Nodes, Enter(i) \/ NodeStep(i) PROVE BInv(a, s)'
    BY <1>1, <2>1, EnterKeeps, ReturnOkKeeps, StartWaitKeeps, WaitOkKeeps, NotYetKeeps,
       TimeoutKeeps, StartNotifyKeeps, NotifyReturnsKeeps DEF NodeStep
  <2>2. ASSUME NEW i \in Nodes, NEW j \in Nodes, Nic(i, j) PROVE BInv(a, s)'
    BY <1>1, <2>2, LandKeeps, CompletionKeeps DEF Nic
  <2>3. CASE UNCHANGED vars
    <3>1. UNCHANGED <<setup, call, pc, stage, unacked, write_err, mrVars, wire, poisoned, passed>>
      BY <2>3 DEF vars
    <3>2. /\ UNCHANGED <<algorithm, faults, sched, expected, out_epoch, in_epoch>>
          /\ UNCHANGED <<call, pc, stage, unacked, write_err, wire, poisoned, passed>>
      BY <3>1 DEF setup, mrVars
    <3> QED
      BY <1>1, <3>2
      DEF BInv, TypeOK, Epochs, BarrierSafety, LocalInv, NodeInv, HeardInv, CountInv, NewsInv,
          EpochInv, WaitInv, SentUpTo, WaitedUpTo, Cur, Running
  <2> QED
    BY <2>1, <2>2, <2>3 DEF Next, Done
<1> QED
  BY <1>2 DEF IInv

\* The invariant holds in every reachable state.
LEMMA Invariant == Spec => []IInv
  BY InitInvariant, StepInvariant, PTL DEF Spec

\* Every variable keeps its type, and no epoch ever exceeds the number of barriers.
THEOREM TypeCorrect == Spec => []TypeOK
<1>1. IInv => TypeOK
  BY DEF IInv, BInv
<1> QED
  BY <1>1, Invariant, PTL

\* No node returns Ok from a barrier before every member of its group has called it: for
\* any network, schedule and algorithm, whatever times out, fails or runs ahead.
THEOREM BarrierIsSafe == Spec => []BarrierSafety
<1>1. IInv => BarrierSafety
  BY DEF IInv, BInv
<1> QED
  BY <1>1, Invariant, PTL

\* When a node has left a barrier with Ok, no write of it or of an earlier one is still on
\* its way to the node's memory.
THEOREM NoWriteComesLate == Spec => []NoLateWrite
<1>1. IInv => NoLateWrite
  <2> SUFFICES ASSUME NEW a \in Algorithms, NEW s \in Schedules, BInv(a, s),
                      NEW i \in Nodes, NEW j \in Nodes,
                      ~Running(i), call[i] \in passed[i], wire[j][i] # 0
               PROVE  wire[j][i] > expected[i][j]
    BY DEF IInv, NoLateWrite
  <2>1. stage[i] = "ready" /\ Len(s) \in Nat
    BY CallFacts
  <2>2. ~poisoned[i] /\ EpochInv(j, i) /\ WaitInv(a, s, i, j) /\ TypeOK /\ sched = s
    BY DEF BInv, LocalInv, NodeInv
  <2>3. ~(expected[i][j] > in_epoch[i][j]) /\ wire[j][i] > in_epoch[i][j]
    BY <2>1, <2>2 DEF WaitInv, EpochInv
  <2>4. expected[i][j] \in Nat /\ in_epoch[i][j] \in Nat /\ wire[j][i] \in Nat
    BY <2>1, <2>2 DEF TypeOK, Epochs
  <2> QED
    BY <2>3, <2>4
<1> QED
  BY <1>1, Invariant, PTL

\* The cell a posted write is read from does not change before the write has completed.
THEOREM SourceIsStable == Spec => SourceStable
<1>1. ASSUME IInv, [Next]_vars, NEW i \in Nodes, NEW j \in Nodes, j \in unacked[i]
      PROVE  out_epoch'[i][j] = out_epoch[i][j]
  <2>1. TypeOK /\ stage[i] = "writing"
    BY <1>1 DEF IInv, BInv, LocalInv, NodeInv
  <2>2. ASSUME NEW x \in Nodes, StartNotify(x) PROVE out_epoch'[i][j] = out_epoch[i][j]
    <3>1. x # i /\ out_epoch' = [out_epoch EXCEPT ![x] = advanced(x, StepOf(x).peers)]
      BY <2>1, <2>2 DEF StartNotify
    <3> QED
      BY <2>1, <3>1 DEF TypeOK, Epochs
  <2>3. ASSUME NEW x \in Nodes, Enter(x) \/ NodeStep(x), ~StartNotify(x)
        PROVE  out_epoch' = out_epoch
    BY <2>3 DEF NodeStep, Enter, ReturnOk, StartWait, WaitOk, NotYet, Timeout, NotifyReturns, mrVars
  <2>4. ASSUME NEW x \in Nodes, NEW y \in Nodes, Nic(x, y) PROVE out_epoch' = out_epoch
    BY <2>4 DEF Nic, Land, WriteCompletes, WriteFails, mrVars
  <2>5. CASE UNCHANGED vars
    BY <2>5 DEF vars, mrVars
  <2> QED
    BY <1>1, <2>2, <2>3, <2>4, <2>5 DEF Next, Done
<1>2. IInv /\ [Next]_vars
        => [\A i, j \in Nodes : j \in unacked[i] => out_epoch'[i][j] = out_epoch[i][j]]_vars
  BY <1>1
<1> QED
  BY <1>2, Invariant, PTL DEF Spec, SourceStable

-----------------------------------------------------------------------------
(* The protocol implements what the barrier promises.                      *)

Inside == [i \in Nodes |-> Running(i)]

\* Calling a barrier is arriving.
LEMMA EnterArrives ==
  ASSUME IInv, NEW i \in Nodes, Enter(i)
  PROVE  Promise!Arrive(i)
<1>1. PICK a \in Algorithms, s \in Schedules : BInv(a, s)
  BY DEF IInv
<1>2. TypeOK /\ sched = s /\ Len(s) \in Nat /\ call[i] \in Nat
  BY <1>1, CallFacts DEF BInv
<1>3. PICK m \in 1..Len(s) : IsNextCall(i, m) /\ call' = [call EXCEPT ![i] = m]
  BY <1>2 DEF Enter
<1>4. \A k \in 1..Len(s) : k \in Promise!Calls(i) <=> InGroup(s[k], i)
  <2>1. \A k \in 1..Len(s) : DOMAIN s[k] = 1..Len(s[k])
    BY GroupFacts
  <2> QED
    BY <1>2, <2>1 DEF Promise!Calls, InGroup
<1>5. /\ m \in Promise!Calls(i) /\ m > call[i]
      /\ \A k \in Promise!Calls(i) : k > call[i] => k >= m
  <2>1. InGroup(s[m], i) /\ m > call[i]
    BY <1>2, <1>3 DEF IsNextCall
  <2>2. ASSUME NEW k \in Promise!Calls(i), k > call[i], ~(k >= m) PROVE FALSE
    <3>1. k \in 1..Len(s)
      BY <1>2, <2>2 DEF Promise!Calls
    <3>2. k \in (call[i] + 1)..(m - 1) /\ InGroup(s[k], i)
      BY <1>2, <1>4, <2>2, <3>1
    <3> QED
      BY <1>2, <1>3, <3>2 DEF IsNextCall
  <2> QED
    BY <1>4, <2>1, <2>2
<1>6. ~Inside[i] /\ Inside' = [Inside EXCEPT ![i] = ~poisoned[i]]
  <2>1. ~Running(i) /\ pc' = [pc EXCEPT ![i] = IF poisoned[i] THEN 0 ELSE 1]
    BY DEF Enter
  <2>2. \A j \in Nodes \ {i} : Running(j)' = Running(j)
    BY <1>2, <2>1 DEF Running, TypeOK
  <2>3. Running(i)' = ~poisoned[i]
    <3>1. poisoned[i] \in BOOLEAN /\ pc'[i] = IF poisoned[i] THEN 0 ELSE 1
      BY <1>2, <2>1 DEF TypeOK
    <3>2. CASE poisoned[i]
      BY <3>1, <3>2 DEF Running
    <3>3. CASE ~poisoned[i]
      BY <3>1, <3>3 DEF Running
    <3> QED
      BY <3>2, <3>3
  <2> QED
    BY <2>1, <2>2, <2>3 DEF Inside
<1> QED
  BY <1>3, <1>5, <1>6 DEF Promise!Arrive, Enter, Inside, setup

\* Returning Ok is passing, which the promise allows only when everybody has called.
LEMMA ReturnOkPasses ==
  ASSUME IInv, NEW i \in Nodes, ReturnOk(i)
  PROVE  Promise!Pass(i)
<1>1. PICK a \in Algorithms, s \in Schedules : BInv(a, s)
  BY DEF IInv
<1>2. TypeOK /\ sched = s /\ Running(i) /\ call[i] \in 1..Len(s)
  BY <1>1, CallFacts DEF BInv, ReturnOk
<1>3. \A x \in Group(s, call[i]) : call[x] >= call[i]
  BY <1>1, <1>2, PlanEnded DEF ReturnOk
<1>4. \A k \in 1..Len(s[call[i]]) : s[call[i]][k] \in Group(s, call[i])
  BY <1>2, GroupFacts DEF Group, Members
<1>5. Inside[i] /\ Inside' = [Inside EXCEPT ![i] = FALSE]
  BY <1>2 DEF ReturnOk, Inside, Running, TypeOK
<1> QED
  BY <1>2, <1>3, <1>4, <1>5 DEF Promise!Pass, ReturnOk, Inside, setup

\* An error is a failure.
LEMMA FailFails ==
  ASSUME TypeOK, NEW i \in Nodes, Running(i), Fail(i), UNCHANGED <<sched, call, passed>>
  PROVE  Promise!Fail(i)
<1>1. Inside[i] /\ Inside' = [Inside EXCEPT ![i] = FALSE]
  BY DEF Fail, Inside, Running, TypeOK
<1> QED
  BY <1>1 DEF Promise!Fail, Fail, Inside

\* Nothing else is seen.
LEMMA InsideStutters ==
  ASSUME UNCHANGED <<sched, call, poisoned, passed>>,
         \A i \in Nodes : Running(i)' <=> Running(i)
  PROVE  UNCHANGED Promise!vars
<1>1. Inside' = Inside
  BY DEF Inside, Running
<1> QED
  BY <1>1 DEF Promise!vars, Inside

\* Every step of the protocol is a step of the promise or is not seen.
LEMMA StepKeepsPromise == IInv /\ [Next]_vars => [Promise!Next]_(Promise!vars)
<1> SUFFICES ASSUME IInv, [Next]_vars PROVE Promise!Next \/ UNCHANGED Promise!vars
  OBVIOUS
<1>1. PICK a \in Algorithms, s \in Schedules : BInv(a, s)
  BY DEF IInv
<1>2. TypeOK
  BY <1>1 DEF BInv
<1>3. ASSUME NEW i \in Nodes, Enter(i) \/ NodeStep(i) PROVE Promise!Next \/ UNCHANGED Promise!vars
  <2>1. CASE Enter(i)
    BY <2>1, EnterArrives DEF Promise!Next
  <2>2. CASE ReturnOk(i)
    BY <2>2, ReturnOkPasses DEF Promise!Next
  <2>3. CASE StartWait(i) \/ NotYet(i) \/ StartNotify(i)
    <3>1. UNCHANGED <<sched, call, pc, poisoned, passed>>
      BY <2>3 DEF StartWait, NotYet, StartNotify, setup
    <3> QED
      BY <3>1, InsideStutters DEF Running
  <2>4. ASSUME StepDone(i), Running(i), UNCHANGED <<sched, call, passed>> PROVE UNCHANGED Promise!vars
    <3>1. \A j \in Nodes : Running(j)' <=> Running(j)
      BY <1>2, <2>4 DEF StepDone, Running, TypeOK
    <3> QED
      BY <2>4, <3>1, InsideStutters DEF StepDone
  <2>5. CASE WaitOk(i)
    BY <2>4, <2>5 DEF WaitOk, AtStep, setup
  <2>6. CASE Timeout(i)
    BY <1>1, <1>2, <2>6, TimeoutKeeps, FailFails DEF Timeout, setup, Promise!Next
  <2>7. CASE NotifyReturns(i)
    <3>1. Running(i) /\ (Fail(i) \/ StepDone(i)) /\ UNCHANGED <<sched, call, passed>>
      BY <2>7 DEF NotifyReturns, AtStep, setup
    <3> QED
      BY <1>2, <2>4, <3>1, FailFails DEF Promise!Next
  <2> QED
    BY <1>3, <2>1, <2>2, <2>3, <2>5, <2>6, <2>7 DEF NodeStep
<1>4. ASSUME NEW i \in Nodes, NEW j \in Nodes, Nic(i, j) PROVE UNCHANGED Promise!vars
  <2>1. UNCHANGED <<sched, call, pc, poisoned, passed>>
    BY <1>4 DEF Nic, Land, WriteCompletes, WriteFails, setup
  <2> QED
    BY <2>1, InsideStutters DEF Running
<1>5. CASE UNCHANGED vars
  <2>1. UNCHANGED <<sched, call, pc, poisoned, passed>>
    BY <1>5 DEF vars, setup
  <2> QED
    BY <2>1, InsideStutters DEF Running
<1> QED
  BY <1>3, <1>4, <1>5 DEF Next, Done

\* The protocol implements the promise: nobody passes before all the members have called,
\* and a node that has failed never passes again.
THEOREM PromiseIsKept == Spec => KeepsPromise
<1>1. Init => Promise!Init
  <2> SUFFICES ASSUME Init PROVE Promise!Init
    OBVIOUS
  <2>1. sched \in Schedules
    BY DEF Init, Schedules
  <2> QED
    BY <2>1 DEF Init, Promise!Init, Running
<1>2. IInv /\ [Next]_vars => [Promise!Next]_(Promise!vars)
  BY StepKeepsPromise
<1> QED
  BY <1>1, <1>2, Invariant, PTL DEF Spec, KeepsPromise, Promise!Spec
=============================================================================
