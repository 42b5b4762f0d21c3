---------------------------- MODULE BarrierSpec -----------------------------
(***************************************************************************)
(* What a barrier promises to an application whose nodes call barriers over *)
(* the groups of an agreed schedule, each the ones it belongs to.  No       *)
(* memory, no epochs, no algorithm: only who has called, who is inside, who *)
(* has passed and who is poisoned.                                          *)
(***************************************************************************)
EXTENDS Naturals, Sequences

CONSTANTS Nodes, Schedules

VARIABLES
  sched,     \* the sequence of peer lists of this run
  call,      \* index in sched of the latest barrier a node has called
  inside,    \* is the node inside a call?
  poisoned,  \* Barrier::poisoned
  passed     \* the barriers a node has returned Ok from

vars == <<sched, call, inside, poisoned, passed>>

Calls(i) == {m \in 1..Len(sched) : \E k \in 1..Len(sched[m]) : sched[m][k] = i}

Init ==
  /\ sched \in Schedules
  /\ call = [i \in Nodes |-> 0]
  /\ inside = [i \in Nodes |-> FALSE]
  /\ poisoned = [i \in Nodes |-> FALSE]
  /\ passed = [i \in Nodes |-> {}]

\* A node calls its next barrier; once poisoned it is turned away at the door.
Arrive(i) ==
  /\ ~inside[i]
  /\ \E m \in Calls(i) :
       /\ m > call[i]
       /\ \A k \in Calls(i) : k > call[i] => k >= m
       /\ call' = [call EXCEPT ![i] = m]
  /\ inside' = [inside EXCEPT ![i] = ~poisoned[i]]
  /\ UNCHANGED <<sched, poisoned, passed>>

\* Ok is returned only when every member of the group has called this barrier.
Pass(i) ==
  /\ inside[i]
  /\ \A k \in 1..Len(sched[call[i]]) : call[sched[call[i]][k]] >= call[i]
  /\ passed' = [passed EXCEPT ![i] = @ \cup {call[i]}]
  /\ inside' = [inside EXCEPT ![i] = FALSE]
  /\ UNCHANGED <<sched, call, poisoned>>

\* An error is returned and poisons the barrier of this node for good.
Fail(i) ==
  /\ inside[i]
  /\ inside' = [inside EXCEPT ![i] = FALSE]
  /\ poisoned' = [poisoned EXCEPT ![i] = TRUE]
  /\ UNCHANGED <<sched, call, passed>>

Next == \E i \in Nodes : Arrive(i) \/ Pass(i) \/ Fail(i)

Spec == Init /\ [][Next]_vars
=============================================================================
