----------------------------- MODULE MCBarrier ------------------------------
(* Scenarios for Barrier: groups are sorted lists of ranks, as the peer    *)
(* list contract requires.                                                 *)
EXTENDS Barrier

Scenario(a, f, groups) == [algorithm |-> a, faults |-> f, sched |-> groups]

\* The whole of a network of n nodes, k times in a row.
All(n) == [r \in 1..n |-> r - 1]
Full(n, k) == [m \in 1..k |-> All(n)]

Groups == {<<0, 1>>, <<0, 2>>, <<1, 2>>, <<0, 1, 2>>}

\* Every succession of k groups, each different from the one before.
Mixed(k) == {g \in [1..k -> Groups] : \A m \in 2..k : g[m] # g[m - 1]}

\* Overlapping groups for the algorithm that talks to the fewest peers, a tree of three
\* levels, and two rounds of dissemination; everything may time out and fail.
SafetyScenarios ==
  {Scenario("Centralized", TRUE, g) : g \in Mixed(3)}
    \cup {Scenario("BinaryTree", TRUE, Full(4, 2)), Scenario("Dissemination", TRUE, Full(3, 2))}

\* A group overtaking another without faults, and one barrier of each kind with faults.
LiveScenarios ==
  {Scenario(a, FALSE, << <<0, 1>>, <<0, 1, 2>>, <<1, 2>> >>) : a \in Algorithms}
    \cup {Scenario("Dissemination", FALSE, Full(3, 2))}
    \cup {Scenario(a, TRUE, Full(3, 1)) : a \in Algorithms}
=============================================================================
