--------------------------- MODULE NodeLifecycle ----------------------------
(***************************************************************************)
(* The life of a Node (src/network/builder.rs) from the network it is       *)
(* configured in, through its setup (NodeSetup), to its drop, as its peers  *)
(* see it: the queue pairs they write through and the barrier memory they   *)
(* write to.  A running node calls its barrier (BarrierApi).  A peer that   *)
(* has this node's endpoint and has finished its own setup writes at any    *)
(* time, whether this node is still connecting, running or being dropped.   *)
(***************************************************************************)
EXTENDS BarrierApi

VARIABLES
  phase,     \* of the node: "none", "building", "prepared", "connecting", "running",
             \* then the field being dropped: "drop_channels", "drop_memory", "drop_mr", "gone"
  qp,        \* state of the queue pair of each rank
  memory,    \* the boxed BarrierPeerFlags: "none", "allocated" or "freed"
  mr,        \* their registration: "none", "registered" or "deregistered"
  handed,    \* has the endpoint been handed out?
  stray      \* history: a peer's write went to memory that had been freed

resVars == <<memory, mr, handed, stray>>
vars == <<configVars, setupVars, apiVars, phase, qp, resVars>>

Init ==
  /\ ConfigInit /\ SetupInit /\ ApiInit
  /\ phase = "none" /\ qp = << >>
  /\ memory = "none" /\ mr = "none" /\ handed = FALSE /\ stray = FALSE

\* The network is configured, then a node of it is built.
configure == phase = "none" /\ ConfigNext /\ UNCHANGED <<setupVars, apiVars, phase, qp, resVars>>

begin(r, a) ==
  /\ phase = "none" /\ instance(a) /\ outcome.kind = "Ok" /\ r \in Ranks
  /\ hosts' = << >> /\ outcome' = [kind |-> "taken"]
  /\ rank' = r /\ phase' = "building" /\ qp' = [k \in Ranks |-> "none"]
  /\ UNCHANGED <<network, input, pos, tmp, state, channels, remote_mrs, resVars>>

Before(k) == 0..(k - 1)
Owned(k) == qp[k] \notin {"none", "leaked", "destroyed"}

-----------------------------------------------------------------------------
(* Building.  Any failure drops what has been built so far.                *)

NextChannel(k) == phase = "building" /\ qp[k] = "none" /\ \A j \in Before(k) : Owned(j)

\* MultiChannel::builder makes the channels one by one.
build_channel(k) ==
  /\ NextChannel(k)
  /\ qp' = [qp EXCEPT ![k] = "reset"]
  /\ UNCHANGED <<configVars, apiVars, setupVars, phase, resVars>>

\* Barrier::instance: PreparedBarrierMr::new allocates the flags and registers them.
build_barrier ==
  /\ phase = "building" /\ mr = "none" /\ \A k \in Ranks : Owned(k)
  /\ memory' = "allocated" /\ mr' = "registered" /\ phase' = "prepared"
  /\ UNCHANGED <<configVars, apiVars, setupVars, qp, handed, stray>>

\* query_port fails behind ibv_create_qp: nothing owns the new queue pair.
build_leaks(k) ==
  /\ NextChannel(k)
  /\ qp' = [qp EXCEPT ![k] = "leaked"] /\ phase' = "drop_channels"
  /\ UNCHANGED <<configVars, apiVars, setupVars, resVars>>

\* A channel fails earlier, or the registration does: a box not registered is freed at once.
build_fails ==
  /\ phase = "building"
  /\ phase' = "drop_channels"
  /\ UNCHANGED <<configVars, apiVars, setupVars, qp, resVars>>

\* PreparedNode::endpoint.
hand_out_endpoint ==
  /\ phase = "prepared" /\ state = "idle" /\ ~handed
  /\ handed' = TRUE
  /\ UNCHANGED <<configVars, apiVars, setupVars, phase, qp, memory, mr, stray>>

gather ==
  /\ phase = "prepared"
  /\ \/ state = "idle" /\ \E es \in Inputs : gather_endpoints(es)
     \/ gather_next
     \/ gather_end
  /\ UNCHANGED <<configVars, apiVars, phase, qp, resVars>>

-----------------------------------------------------------------------------
(* Connecting: PreparedNode::handshake, which consumes the PreparedNode.   *)

start_handshake ==
  /\ phase = "prepared" /\ state = "gathered"
  /\ phase' = "connecting" /\ state' = "handshake" /\ input' = << >> /\ pos' = 0
  /\ UNCHANGED <<configVars, apiVars, rank, tmp, channels, remote_mrs, qp, resVars>>

NextState(s) ==
  CASE s = "reset" -> "init" [] s = "init" -> "rtr" [] s = "rtr" -> "rts"

\* PreparedQueuePair::handshake, one ibv_modify_qp; the channels go one after another.
modify_qp(k) ==
  /\ phase = "connecting" /\ qp[k] \in {"reset", "init", "rtr"}
  /\ \A j \in Before(k) : qp[j] = "rts"
  /\ qp' = [qp EXCEPT ![k] = NextState(qp[k])]
  /\ IF qp[k] = "rtr" THEN handshake_next ELSE UNCHANGED setupVars
  /\ UNCHANGED <<configVars, apiVars, phase, resVars>>

\* What gathering and connecting have made goes with the node.
setup_dropped ==
  /\ input' = << >> /\ pos' = 0 /\ tmp' = << >> /\ state' = "idle"
  /\ channels' = << >> /\ remote_mrs' = << >>
  /\ instance(algorithm)
  /\ UNCHANGED rank

\* An ibv_modify_qp fails: the channels connected so far are dropped with the rest.
handshake_fails ==
  /\ phase = "connecting" /\ \E k \in Ranks : qp[k] # "rts"
  /\ phase' = "drop_channels"
  /\ setup_dropped
  /\ UNCHANGED <<configVars, qp, resVars>>

handshake_done ==
  /\ phase = "connecting"
  /\ link_remote
  /\ phase' = "running"
  /\ UNCHANGED <<configVars, apiVars, qp, resVars>>

\* Node::barrier and Node::barrier_unchecked.
barrier_call ==
  /\ phase = "running"
  /\ call_barrier
  /\ UNCHANGED <<configVars, setupVars, phase, qp, resVars>>

-----------------------------------------------------------------------------
(* Dropping a PreparedNode or a Node, whose fields go in the order they are *)
(* declared: multi_channel, then barrier; of a BarrierMr memory, then mr.   *)

drop_node ==
  /\ phase \in {"prepared", "running"} /\ state # "gathering"
  /\ phase' = "drop_channels"
  /\ setup_dropped
  /\ UNCHANGED <<configVars, qp, resVars>>

drop_qp(k) ==
  /\ phase = "drop_channels" /\ Owned(k)
  /\ qp' = [qp EXCEPT ![k] = "destroyed"]
  /\ UNCHANGED <<configVars, apiVars, setupVars, phase, resVars>>

\* The last channel has been dropped.
drop_channels_done ==
  /\ phase = "drop_channels" /\ \A k \in Ranks : ~Owned(k)
  /\ phase' = "drop_memory"
  /\ UNCHANGED <<configVars, apiVars, setupVars, qp, resVars>>

\* Mutant: the barrier is declared, and so dropped, before the channels.
drop_memory_first ==
  /\ phase \in {"drop_channels", "drop_memory"}
  /\ memory' = IF memory = "allocated" THEN "freed" ELSE memory
  /\ phase' = IF phase = "drop_memory" THEN "drop_mr" ELSE phase
  /\ UNCHANGED <<configVars, apiVars, setupVars, qp, mr, handed, stray>>

\* The flags are freed, if the node got as far as allocating them.
drop_memory ==
  /\ phase = "drop_memory" /\ phase' = "drop_mr"
  /\ memory' = IF memory = "allocated" THEN "freed" ELSE memory
  /\ UNCHANGED <<configVars, apiVars, setupVars, qp, mr, handed, stray>>

\* Mutant: the registration has no Drop.
drop_mr_forgotten ==
  /\ phase = "drop_mr" /\ phase' = "gone"
  /\ UNCHANGED <<configVars, apiVars, setupVars, qp, resVars>>

drop_mr ==
  /\ phase = "drop_mr" /\ phase' = "gone"
  /\ mr' = IF mr = "registered" THEN "deregistered" ELSE mr
  /\ UNCHANGED <<configVars, apiVars, setupVars, qp, memory, handed, stray>>

\* The node is gone, or the configuration was refused.
Gone ==
  /\ phase = "gone" \/ (phase = "none" /\ ~IsRaw /\ outcome.kind # "Ok")
  /\ UNCHANGED vars

-----------------------------------------------------------------------------
\* The write of a peer arrives through queue pair k: it is stored if the queue pair can
\* receive and the key is valid.
PeerWrites(k) ==
  /\ handed /\ qp[k] \in {"rtr", "rts"} /\ mr = "registered"
  /\ stray' = (stray \/ memory = "freed")
  /\ UNCHANGED <<configVars, apiVars, setupVars, phase, qp, memory, mr, handed>>

Building ==
  build_barrier \/ build_fails \/ \E k \in Ranks : build_channel(k) \/ build_leaks(k)
Connecting ==
  start_handshake \/ handshake_fails \/ handshake_done \/ \E k \in Ranks : modify_qp(k)
Dropping ==
  drop_node \/ drop_channels_done \/ drop_memory \/ drop_mr \/ \E k \in Ranks : drop_qp(k)

Next ==
  \/ configure
  \/ \E r \in Ranks, a \in Algorithms : begin(r, a)
  \/ phase # "none" /\ (Building \/ hand_out_endpoint \/ gather \/ Connecting \/ Dropping)
  \/ barrier_call
  \/ phase # "none" /\ \E k \in Ranks : PeerWrites(k)
  \/ Gone

Spec == Init /\ [][Next]_vars

-----------------------------------------------------------------------------
(* Properties.                                                             *)

\* No write of a peer ever goes to barrier memory that has been freed, although the
\* memory is freed before it is deregistered and peers write until the queue pairs go.
NoStrayWrite == ~stray

\* An error that may have left the epochs inconsistent is final: as long as the node runs
\* no call succeeds any more and none touches the epochs.
PoisonIsFinal ==
  [][phase' = "running" /\ (poisoned \/ answer \in RunErrors) =>
       answer' # "Ok" /\ (apiVars' # apiVars => ~ran')]_vars

\* A node that is gone has left nothing behind, wherever its setup stopped, but a single queue
\* pair that its failing build lost; a node that got as far as its barrier has left nothing.
NothingLeft ==
  phase = "gone" =>
    /\ \A k \in Ranks : ~Owned(k)
    /\ memory # "allocated" /\ mr # "registered"
    /\ \A j, k \in Ranks : qp[j] = "leaked" /\ qp[k] = "leaked" => j = k
    /\ handed \/ mr = "deregistered" => \A k \in Ranks : qp[k] # "leaked"
=============================================================================
