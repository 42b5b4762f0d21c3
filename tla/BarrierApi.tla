----------------------------- MODULE BarrierApi -----------------------------
(***************************************************************************)
(* The calls an application makes on the barrier object of its node         *)
(* (LinearBarrier, BinaryTreeBarrier, DisseminationBarrier): validation of  *)
(* the peer list, the poisoned flag, and what each call answers.  What the  *)
(* peers do meanwhile is in Barrier; here a step of the plan succeeds,      *)
(* times out or meets a transport error.                                    *)
(***************************************************************************)
EXTENDS BarrierAlgorithms, NodeSetup

CONSTANT MaxPeers  \* bound: length of the peer lists

ASSUME ApiAssumption == MaxPeers \in Nat

VARIABLES
  algorithm, \* variant of the Barrier enum
  poisoned,  \* the barrier's flag
  entry,     \* history: which function was called last
  peers,     \* peer list of the latest call
  answer,    \* what the latest call answered, "Panic" if it did not
  ran        \* did the latest call touch the epochs or post a write?

apiVars == <<algorithm, poisoned, entry, peers, answer, ran>>

Algorithms == {"Centralized", "BinaryTree", "Dissemination"}
RunErrors == {"Timeout", "TransportError"}
ListErrors == {"UnorderedPeers", "DuplicatePeers", "SelfNotInGroup"}
Answers == {"Ok", "Poisoned", "Panic"} \cup RunErrors \cup ListErrors

\* Lists of ranks of the network, and of one that is not in it.
PeerLists == UNION {[1..n -> 0..WorldSize] : n \in 0..MaxPeers}

ApiInit ==
  /\ algorithm = "BinaryTree" /\ poisoned = FALSE
  /\ entry = "none" /\ peers = << >> /\ answer = "none" /\ ran = FALSE

\* BarrierAlgorithm::instance.
instance(a) ==
  /\ algorithm' = a /\ poisoned' = FALSE
  /\ entry' = "none" /\ peers' = << >> /\ answer' = "none" /\ ran' = FALSE

is_sorted(p) == \A k \in 1..(Len(p) - 1) : p[k] <= p[k + 1]
has_duplicates(p) == \E k \in 1..(Len(p) - 1) : p[k] = p[k + 1]

\* Mutant: duplicates are not looked for.
validate_sorted_only(p) == IF ~is_sorted(p) THEN "UnorderedPeers" ELSE "Ok"

validate_peer_list(p) ==
  IF ~is_sorted(p) THEN "UnorderedPeers"
  ELSE IF has_duplicates(p) THEN "DuplicatePeers" ELSE "Ok"

\* LinearBarrier::barrier looks for its own rank before anything else happens; the
\* other two leave it to run_barrier.
barrier_validation(p) ==
  IF validate_peer_list(p) # "Ok" THEN validate_peer_list(p)
  ELSE IF algorithm = "Centralized" /\ ~InGroup(p, rank) THEN "SelfNotInGroup"
  ELSE "Ok"

\* slice::binary_search for the node's own rank: it may find any place of it, and it may
\* miss it in a list that is not sorted.
FoundAt(p) == {idx \in 0..(Len(p) - 1) : At(p, idx) = rank}
Missed(p) == ~is_sorted(p) \/ ~InGroup(p, rank)

\* What run_barrier may set out to do; LinearBarrier does not look for its own rank.
Plans(p) ==
  CASE algorithm = "Centralized" -> {LinearPlan(p, rank)}
    [] algorithm = "BinaryTree" -> {BinaryTreePlanAt(p, idx) : idx \in FoundAt(p)}
    [] algorithm = "Dissemination" -> {DisseminationPlanAt(p, idx) : idx \in FoundAt(p)}

\* Steps of a plan that index the flags with a rank out of bounds, which panics.
Strays(plan) == {k \in DOMAIN plan : ~(plan[k].peers \subseteq Ranks)}

\* run_barrier: the answer and whether it got to the epochs.
run_barrier(p, ans, touched) ==
  \/ Len(p) < 2 /\ ans = "Ok" /\ touched = FALSE
  \/ /\ Len(p) >= 2 /\ algorithm # "Centralized" /\ Missed(p)
     /\ ans = "SelfNotInGroup" /\ touched = FALSE
  \/ /\ Len(p) >= 2 /\ touched = TRUE
     /\ \E plan \in Plans(p) :
          \/ ans \in RunErrors /\ 1 \notin Strays(plan)
          \/ ans = IF Strays(plan) = {} THEN "Ok" ELSE "Panic"

\* Mutant: a poisoned barrier runs again.
unchecked_unguarded(p) ==
  \E ans \in Answers, touched \in BOOLEAN :
    /\ run_barrier(p, ans, touched)
    /\ answer' = ans /\ ran' = touched
    /\ poisoned' = (poisoned \/ ans \notin {"Ok", "Panic"})

\* barrier_unchecked: the poisoned flag is looked at first, and set by an error.
unchecked(p) ==
  \/ /\ poisoned
     /\ answer' = "Poisoned" /\ ran' = FALSE
     /\ UNCHANGED poisoned
  \/ /\ ~poisoned
     /\ \E ans \in Answers, touched \in BOOLEAN :
          /\ run_barrier(p, ans, touched)
          /\ answer' = ans /\ ran' = touched
          /\ poisoned' = (ans \notin {"Ok", "Panic"})

\* Barrier::barrier.
barrier(p) ==
  /\ entry' = "barrier" /\ peers' = p /\ UNCHANGED algorithm
  /\ \/ /\ barrier_validation(p) # "Ok"
        /\ answer' = barrier_validation(p) /\ ran' = FALSE
        /\ UNCHANGED poisoned
     \/ barrier_validation(p) = "Ok" /\ unchecked(p)

\* Barrier::barrier_unchecked runs on whatever list it is given.
barrier_unchecked(p) ==
  /\ entry' = "barrier_unchecked" /\ peers' = p /\ UNCHANGED algorithm
  /\ unchecked(p)

\* A panic unwinds the program.
call_barrier == answer # "Panic" /\ \E p \in PeerLists : barrier(p) \/ barrier_unchecked(p)

-----------------------------------------------------------------------------
(* Properties.                                                             *)

\* The checked entry point moves epochs and posts writes only for a list that keeps the
\* contract (strictly ascending, own rank included), although two of the algorithms check one
\* half of it before the poisoned flag and the other half behind it.  Of a call that is not
\* checked, the tree and the dissemination keep the half they check themselves.
RunsOnContract ==
  ran => /\ entry = "barrier" =>
              /\ \A k, l \in 1..Len(peers) : k < l => peers[k] < peers[l]
              /\ InGroup(peers, rank)
         /\ algorithm # "Centralized" => InGroup(peers, rank)
=============================================================================
