------------------------- MODULE BarrierAlgorithms --------------------------
(***************************************************************************)
(* The three barrier algorithms of src/network/barrier as plans: the steps  *)
(* run_barrier takes at the node of a given rank for a given peer list.  A  *)
(* step either notifies a set of peers (notify_peer, scatter_notify_peers)  *)
(* or waits for one (increase_peer_expected_epoch and                       *)
(* spin_poll_peer_epoch_expected).  A peer list is a sequence of ranks; the *)
(* code's indices start at 0, so index k is peers[k + 1].                   *)
(***************************************************************************)
EXTENDS Naturals, Sequences, FiniteSets

NotifyStep(S) == [op |-> "notify", peers |-> S]
WaitStep(p) == [op |-> "wait", peers |-> {p}]

At(peers, idx) == peers[idx + 1]
InGroup(peers, rank) == \E k \in DOMAIN peers : peers[k] = rank
IndexOf(peers, rank) == CHOOSE idx \in 0..(Len(peers) - 1) : At(peers, idx) = rank
Members(peers) == {peers[k] : k \in DOMAIN peers}

-----------------------------------------------------------------------------
(* LinearBarrier: the first peer collects every other one, then answers.   *)

\* Mutant: the leader answers before it has waited for the last peer.
LinearPlan_EarlyAnswer(peers, rank) ==
  IF Len(peers) < 2 THEN << >>
  ELSE IF rank = peers[1]
       THEN [k \in 1..(Len(peers) - 2) |-> WaitStep(peers[k + 1])]
              \o <<NotifyStep(Members(Tail(peers))), WaitStep(peers[Len(peers)])>>
       ELSE <<NotifyStep({peers[1]}), WaitStep(peers[1])>>

LinearPlan(peers, rank) ==
  IF Len(peers) < 2 THEN << >>
  ELSE IF rank = peers[1]
       THEN [k \in 1..Len(peers) |->
               IF k < Len(peers) THEN WaitStep(peers[k + 1])
                                 ELSE NotifyStep(Members(Tail(peers)))]
       ELSE <<NotifyStep({peers[1]}), WaitStep(peers[1])>>

-----------------------------------------------------------------------------
(* BinaryTreeBarrier: reduce towards index 0, then broadcast back.         *)

parent_index(idx) == IF idx > 0 THEN {(idx - 1) \div 2} ELSE {}

child_indices(idx, len) == [k \in {n \in 1..2 : 2 * idx + n < len} |-> 2 * idx + k]

\* The steps of the node that finds itself at index idx.
BinaryTreePlanAt(peers, idx) ==
  LET children == child_indices(idx, Len(peers))
      down == {At(peers, children[k]) : k \in DOMAIN children}
      collect == [k \in DOMAIN children |-> WaitStep(At(peers, children[k]))]
      parent == {At(peers, p) : p \in parent_index(idx)}
      exchange == IF parent = {} THEN << >>
                  ELSE LET p == CHOOSE p \in parent : TRUE
                       IN  <<NotifyStep({p}), WaitStep(p)>>
  IN  IF Len(peers) < 2 THEN << >>
      ELSE collect \o exchange \o <<NotifyStep(down)>>

BinaryTreePlan(peers, rank) == BinaryTreePlanAt(peers, IndexOf(peers, rank))

-----------------------------------------------------------------------------
(* DisseminationBarrier: notify at distance 1, 2, 4, ... to the right and  *)
(* wait for the peer at the same distance to the left.                     *)

Pow2[n \in Nat] == IF n = 0 THEN 1 ELSE 2 * Pow2[n - 1]

\* Number of distances 1, 2, 4, ... smaller than len.
Rounds(len) == CHOOSE r \in 0..len : Pow2[r] >= len /\ \A q \in 0..(r - 1) : Pow2[q] < len

\* The (right, left) indices of each round.
round_pairs(idx, len) ==
  [r \in 1..Rounds(len) |->
     LET d == Pow2[r - 1] IN <<(idx + d) % len, (idx + len - d) % len>>]

DisseminationPlanAt(peers, idx) ==
  LET pairs == round_pairs(idx, Len(peers))
  IN  IF Len(peers) < 2 THEN << >>
      ELSE [k \in 1..(2 * Len(pairs)) |->
              LET pair == pairs[(k + 1) \div 2]
              IN  IF k % 2 = 1 THEN NotifyStep({At(peers, pair[1])})
                               ELSE WaitStep(At(peers, pair[2]))]

DisseminationPlan(peers, rank) == DisseminationPlanAt(peers, IndexOf(peers, rank))
=============================================================================
