------------------------------ MODULE Barrier -------------------------------
(***************************************************************************)
(* Barriers between the nodes of a network (src/network/barrier): every     *)
(* node runs run_barrier over its BarrierMr, whose epoch counters the peers *)
(* advance with one-sided RDMA writes.                                      *)
(*                                                                         *)
(* The application calls barriers in an order all nodes agree on: sched is  *)
(* the sequence of peer lists, and a node calls the ones it belongs to.     *)
(***************************************************************************)
EXTENDS BarrierAlgorithms

CONSTANTS
  Nodes,      \* ranks
  Scenarios   \* the applications considered: algorithm, sched and faults of each

Algorithms == {"Centralized", "BinaryTree", "Dissemination"}

\* The contract of a peer list (validate_peer_list), the same list at every member.
Ascending(peers) == \A a, b \in DOMAIN peers : a < b => peers[a] < peers[b]

ASSUME BarrierAssumption ==
  /\ Nodes \subseteq Nat
  /\ \A s \in Scenarios : s.algorithm \in Algorithms /\ s.faults \in BOOLEAN
  /\ \A s \in Scenarios :
       /\ s.sched \in Seq(Seq(Nodes))
       /\ \A m \in DOMAIN s.sched : Ascending(s.sched[m])

VARIABLES
  algorithm,  \* variant of the Barrier enum, the same at every node
  faults,     \* can waits time out and writes fail?
  sched,      \* the sequence of peer lists the application uses
  call,       \* index in sched of the latest barrier a node has called
  pc,         \* next step of the plan; 0 outside run_barrier
  stage,      \* of the current step: "ready" (not begun), "waiting", "expiring", "writing"
  unacked,    \* peers whose notification has been posted and not completed
  write_err,  \* a write of the current notification has failed
  expected,   \* expected_in_epoch, per peer
  out_epoch,  \* out_epoch, per peer
  in_epoch,   \* in_epoch, per peer: written by that peer
  wire,       \* value of the write in flight from a node to a peer, 0 if none
  poisoned,   \* Barrier::poisoned
  passed      \* the barriers a node has returned Ok from

mrVars == <<expected, out_epoch, in_epoch>>
setup == <<algorithm, faults, sched>>
vars == <<setup, call, pc, stage, unacked, write_err, mrVars, wire, poisoned, passed>>

Pairs0 == [i \in Nodes |-> [j \in Nodes |-> 0]]

Init ==
  /\ \E s \in Scenarios :
       algorithm = s.algorithm /\ faults = s.faults /\ sched = s.sched
  /\ call = [i \in Nodes |-> 0]
  /\ pc = [i \in Nodes |-> 0]
  /\ stage = [i \in Nodes |-> "ready"]
  /\ unacked = [i \in Nodes |-> {}]
  /\ write_err = [i \in Nodes |-> FALSE]
  /\ expected = Pairs0 /\ out_epoch = Pairs0 /\ in_epoch = Pairs0
  /\ wire = Pairs0
  /\ poisoned = [i \in Nodes |-> FALSE]
  /\ passed = [i \in Nodes |-> {}]

Plan(peers, rank) ==
  CASE algorithm = "Centralized" -> LinearPlan(peers, rank)
    [] algorithm = "BinaryTree" -> BinaryTreePlan(peers, rank)
    [] algorithm = "Dissemination" -> DisseminationPlan(peers, rank)

PlanOf(i) == Plan(sched[call[i]], i)
StepOf(i) == PlanOf(i)[pc[i]]
Running(i) == pc[i] # 0
AtStep(i, op) == Running(i) /\ pc[i] <= Len(PlanOf(i)) /\ StepOf(i).op = op

\* m is the next barrier in the schedule that node i takes part in.
IsNextCall(i, m) ==
  /\ m \in (call[i] + 1)..Len(sched)
  /\ InGroup(sched[m], i)
  /\ \A k \in (call[i] + 1)..(m - 1) : ~InGroup(sched[k], i)

-----------------------------------------------------------------------------
\* barrier and barrier_unchecked: a poisoned barrier answers at once.
Enter(i) ==
  /\ ~Running(i)
  /\ \E m \in 1..Len(sched) :
       /\ IsNextCall(i, m)
       /\ call' = [call EXCEPT ![i] = m]
  /\ pc' = [pc EXCEPT ![i] = IF poisoned[i] THEN 0 ELSE 1]
  /\ UNCHANGED <<setup, stage, unacked, write_err, mrVars, wire, poisoned, passed>>

\* run_barrier reaches its end: the call returns Ok.
ReturnOk(i) ==
  /\ Running(i) /\ pc[i] > Len(PlanOf(i))
  /\ pc' = [pc EXCEPT ![i] = 0]
  /\ passed' = [passed EXCEPT ![i] = @ \cup {call[i]}]
  /\ UNCHANGED <<setup, call, stage, unacked, write_err, mrVars, wire, poisoned>>

\* Mutant: an error does not poison the barrier.
Fail_Unpoisoned(i) ==
  /\ pc' = [pc EXCEPT ![i] = 0]
  /\ stage' = [stage EXCEPT ![i] = "ready"]
  /\ UNCHANGED poisoned

\* barrier_unchecked: an error of run_barrier poisons the barrier.
Fail(i) ==
  /\ pc' = [pc EXCEPT ![i] = 0]
  /\ stage' = [stage EXCEPT ![i] = "ready"]
  /\ poisoned' = [poisoned EXCEPT ![i] = TRUE]

StepDone(i) ==
  /\ pc' = [pc EXCEPT ![i] = @ + 1]
  /\ stage' = [stage EXCEPT ![i] = "ready"]
  /\ UNCHANGED poisoned

-----------------------------------------------------------------------------
(* Waiting.                                                                *)

increase_peer_expected_epoch(i, p) == expected' = [expected EXCEPT ![i][p] = @ + 1]

\* increase_peer_expected_epoch, then into the spin loop.
StartWait(i) ==
  /\ AtStep(i, "wait") /\ stage[i] = "ready"
  /\ \E p \in StepOf(i).peers : increase_peer_expected_epoch(i, p)
  /\ stage' = [stage EXCEPT ![i] = "waiting"]
  /\ UNCHANGED <<setup, call, pc, unacked, write_err, out_epoch, in_epoch, wire,
                 poisoned, passed>>

\* Mutant: a peer one epoch behind is taken to have arrived.
is_peer_epoch_lagging(i, p) == in_epoch[i][p] + 1 >= expected[i][p]

\* Mutant: the comparison the code's comment warns against.
is_peer_epoch_equal(i, p) == in_epoch[i][p] = expected[i][p]

is_peer_epoch_expected(i, p) == in_epoch[i][p] >= expected[i][p]

\* spin_poll_peer_epoch_expected returns Ok.
WaitOk(i) ==
  /\ AtStep(i, "wait") /\ stage[i] = "waiting"
  /\ \E p \in StepOf(i).peers : is_peer_epoch_expected(i, p)
  /\ StepDone(i)
  /\ UNCHANGED <<setup, call, unacked, write_err, mrVars, wire, passed>>

\* An iteration of the loop does not find the epoch, and will find the time elapsed
\* when it looks at the clock.
NotYet(i) ==
  /\ faults
  /\ AtStep(i, "wait") /\ stage[i] = "waiting"
  /\ \E p \in StepOf(i).peers : ~is_peer_epoch_expected(i, p)
  /\ stage' = [stage EXCEPT ![i] = "expiring"]
  /\ UNCHANGED <<setup, call, pc, unacked, write_err, mrVars, wire, poisoned, passed>>

\* Mutant: every iteration of the loop restarts the clock.
Timeout_Restarted(i) ==
  /\ stage[i] = "expiring"
  /\ stage' = [stage EXCEPT ![i] = "waiting"]
  /\ UNCHANGED <<setup, call, pc, unacked, write_err, mrVars, wire, poisoned, passed>>

\* spin_poll_peer_epoch_expected returns Timeout, although the epoch may have come in
\* since the iteration looked for it.
Timeout(i) ==
  /\ stage[i] = "expiring"
  /\ Fail(i)
  /\ UNCHANGED <<setup, call, unacked, write_err, mrVars, wire, passed>>

-----------------------------------------------------------------------------
(* Notifying: notify_peer blocks on one write, scatter_notify_peers on the *)
(* writes to all the peers of the step.                                    *)

\* The writes posted before a refused one, in the ascending order of the peers.
PostedPrefixes(S) == {{p \in S : p < q} : q \in S}

\* The outgoing epochs of node i once those of the notified peers have advanced.
advanced(i, S) ==
  [j \in Nodes |-> IF j \in S THEN out_epoch[i][j] + 1 ELSE out_epoch[i][j]]

\* All the epochs advance first, then the writes are posted; when a post is refused
\* scatter_write stops posting and will return the error.
StartNotify(i) ==
  LET S == StepOf(i).peers
      epochs == advanced(i, S)
  IN  /\ AtStep(i, "notify") /\ stage[i] = "ready"
      /\ stage' = [stage EXCEPT ![i] = "writing"]
      /\ out_epoch' = [out_epoch EXCEPT ![i] = epochs]
      /\ \E posted \in {S} \cup (IF faults THEN PostedPrefixes(S) ELSE {}) :
           /\ unacked' = [unacked EXCEPT ![i] = posted]
           /\ write_err' = [write_err EXCEPT ![i] = posted # S]
           /\ wire' = [wire EXCEPT ![i] =
                         [j \in Nodes |-> IF j \in posted THEN epochs[j] ELSE wire[i][j]]]
      /\ UNCHANGED <<setup, call, pc, expected, in_epoch, poisoned, passed>>

\* The NIC of j stores a write of i into the in_epoch slot of i.
Land(i, j) ==
  /\ wire[i][j] # 0
  /\ in_epoch' = [in_epoch EXCEPT ![j][i] = wire[i][j]]
  /\ wire' = [wire EXCEPT ![i][j] = 0]
  /\ UNCHANGED <<setup, call, pc, stage, unacked, write_err, expected, out_epoch,
                 poisoned, passed>>

\* The write of i to j completes with success, after it has landed.
WriteCompletes(i, j) ==
  /\ j \in unacked[i] /\ wire[i][j] = 0
  /\ unacked' = [unacked EXCEPT ![i] = @ \ {j}]
  /\ UNCHANGED <<setup, call, pc, stage, write_err, mrVars, wire, poisoned, passed>>

\* The write of i to j completes with an error: it has landed, will land or is lost.
WriteFails(i, j) ==
  /\ faults
  /\ j \in unacked[i]
  /\ unacked' = [unacked EXCEPT ![i] = @ \ {j}]
  /\ write_err' = [write_err EXCEPT ![i] = TRUE]
  /\ UNCHANGED <<setup, call, pc, stage, mrVars, wire, poisoned, passed>>

\* Mutant: the blocking write returns once the writes are posted.
NotifyReturns_Early(i) ==
  /\ AtStep(i, "notify") /\ stage[i] = "writing"
  /\ write_err' = [write_err EXCEPT ![i] = FALSE]
  /\ StepDone(i)
  /\ UNCHANGED <<setup, call, unacked, mrVars, wire, passed>>

\* The scope of the write has polled every posted write: go on, or fail.
NotifyReturns(i) ==
  /\ AtStep(i, "notify") /\ stage[i] = "writing"
  /\ unacked[i] = {}
  /\ write_err' = [write_err EXCEPT ![i] = FALSE]
  /\ IF write_err[i] THEN Fail(i) ELSE StepDone(i)
  /\ UNCHANGED <<setup, call, unacked, mrVars, wire, passed>>

-----------------------------------------------------------------------------
NodeStep(i) ==
  \/ ReturnOk(i)
  \/ StartWait(i)
  \/ WaitOk(i)
  \/ NotYet(i)
  \/ Timeout(i)
  \/ StartNotify(i)
  \/ NotifyReturns(i)

Nic(i, j) == Land(i, j) \/ WriteCompletes(i, j) \/ WriteFails(i, j)

\* Every node has made all its calls and the network is quiet.
Done ==
  /\ \A i \in Nodes : ~Running(i) /\ \A m \in 1..Len(sched) : ~IsNextCall(i, m)
  /\ UNCHANGED vars

Next ==
  \/ \E i \in Nodes : Enter(i) \/ NodeStep(i)
  \/ \E i, j \in Nodes : Nic(i, j)
  \/ Done

Spec == Init /\ [][Next]_vars

\* The NIC of i executes a write or completes it.
NicStep(i) == \E j \in Nodes : (j \in unacked[i] /\ Land(i, j)) \/ WriteCompletes(i, j)

\* Nodes keep calling and keep running; their NICs go on with posted writes.
Fairness ==
  \A i \in Nodes : WF_vars(Enter(i) \/ NodeStep(i)) /\ WF_vars(NicStep(i))

FairSpec == Spec /\ Fairness

-----------------------------------------------------------------------------
(* Properties.                                                             *)

Schedules == {s.sched : s \in Scenarios}
Epochs == [Nodes -> [Nodes -> 0..Len(sched)]]

\* Every variable of the barrier and of its shared memory has its type; a barrier
\* advances an epoch at most once, so no epoch runs ahead of the calls.
TypeOK ==
  /\ algorithm \in Algorithms /\ faults \in BOOLEAN /\ sched \in Schedules
  /\ call \in [Nodes -> 0..Len(sched)]
  /\ pc \in [Nodes -> Nat]
  /\ stage \in [Nodes -> {"ready", "waiting", "expiring", "writing"}]
  /\ unacked \in [Nodes -> SUBSET Nodes]
  /\ write_err \in [Nodes -> BOOLEAN]
  /\ expected \in Epochs
  /\ out_epoch \in Epochs
  /\ in_epoch \in Epochs
  /\ wire \in Epochs
  /\ poisoned \in [Nodes -> BOOLEAN]
  /\ passed \in [Nodes -> SUBSET (1..Len(sched))]

\* A node returns Ok from a barrier only after every member of the group has called
\* it, whatever timed out, failed, was poisoned or is running ahead.
BarrierSafety ==
  \A i \in Nodes : \A m \in passed[i] :
    \A j \in Members(sched[m]) : call[j] >= m

\* When a node has left its latest barrier with Ok, no write of that barrier or an
\* earlier one is in flight towards its memory: what is in flight is for a later wait.
NoLateWrite ==
  \A i, j \in Nodes :
    ~Running(i) /\ call[i] \in passed[i] /\ wire[j][i] # 0
      => wire[j][i] > expected[i][j]

\* The out_epoch cell is the buffer the NIC reads: it does not change while a write of
\* it is unfinished, across any number of barriers.
SourceStable ==
  [][\A i, j \in Nodes : j \in unacked[i] => out_epoch'[i][j] = out_epoch[i][j]]_vars

\* What the barrier promises, as a specification (BarrierSpec): nobody passes before
\* all the members have called, and a node that has failed never passes again.
Promise == INSTANCE BarrierSpec WITH inside <- [i \in Nodes |-> Running(i)]
KeepsPromise == Promise!Spec

\* Without faults every node gets through every barrier of its schedule, and has then
\* passed all of them.
AllPass ==
  <>[](faults \/ \A i \in Nodes : passed[i] = {m \in 1..Len(sched) : InGroup(sched[m], i)})

\* Every call returns, with Ok or an error.
CallReturns == \A i \in Nodes : []<>(~Running(i))
=============================================================================
