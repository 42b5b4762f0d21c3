----------------------------- MODULE NodeSetup ------------------------------
(***************************************************************************)
(* How a PreparedNode of a configured network becomes a Node                *)
(* (src/network/builder.rs): gather_endpoints over whatever endpoints the   *)
(* application brings, and the handshake of every channel in turn.          *)
(*                                                                         *)
(* Node j owns one queue pair per peer: <<j, k>> is the one it keeps for    *)
(* peer k, and its endpoint k travels with the barrier memory of j.         *)
(***************************************************************************)
EXTENDS NetworkConfig

WorldSize == Len(network)
Ranks == 0..(WorldSize - 1)
None == << >>

\* PreparedNode::endpoint of node j in a world of n nodes.
endpoint(j, n) == [rank |-> j, endpoints |-> [k \in 1..n |-> [qp |-> <<j, k - 1>>, mr |-> j]]]

VARIABLES
  rank,      \* rank of the node
  input,     \* endpoints handed to gather_endpoints
  pos,       \* endpoints taken so far
  tmp,       \* tmp: endpoint per rank
  state,     \* "idle", "gathering", "gathered", "handshake", "connected" or a GatherError
  channels,  \* remote queue pairs the channels are connected to, in order
  remote_mrs \* remote barrier memory, per rank

setupVars == <<rank, input, pos, tmp, state, channels, remote_mrs>>

GatherErrors == {"out of bounds", "duplicate", "missing rechannel", "missing endpoint"}

\* Endpoints of the nodes of this network, of one beyond it, and of nodes configured for
\* a smaller world; one more of them may come than there are ranks.
LocalEndpoints == {endpoint(j, n) : j \in 0..WorldSize, n \in 0..WorldSize}
Inputs == UNION {[1..n -> LocalEndpoints] : n \in 0..(WorldSize + 1)}

SetupInit ==
  /\ rank = 0 /\ input = << >> /\ pos = 0 /\ tmp = << >>
  /\ state = "idle" /\ channels = << >> /\ remote_mrs = << >>

\* gather_endpoints is called; a node gathers once.
gather_endpoints(es) ==
  /\ state = "idle"
  /\ input' = es /\ pos' = 0 /\ tmp' = [k \in Ranks |-> None] /\ state' = "gathering"
  /\ UNCHANGED <<rank, channels, remote_mrs>>

\* Mutant: the endpoint meant for the sender's own rank is taken.
slot_of_sender(e) ==
  e.endpoints[IF e.rank < Len(e.endpoints) THEN e.rank + 1 ELSE rank + 1]

\* The channel of endpoint e that leads to this node.
slot_for_me(e) == e.endpoints[rank + 1]

\* Mutant: a second endpoint of a rank replaces the first.
check_without_duplicates(e) ==
  CASE e.rank \notin Ranks -> "out of bounds"
    [] e.rank \in Ranks /\ Len(e.endpoints) <= rank -> "missing rechannel"
    [] OTHER -> "ok"

check(e) ==
  CASE e.rank \notin Ranks -> "out of bounds"
    [] e.rank \in Ranks /\ tmp[e.rank] # None -> "duplicate"
    [] e.rank \in Ranks /\ tmp[e.rank] = None /\ Len(e.endpoints) <= rank -> "missing rechannel"
    [] OTHER -> "ok"

\* gather_endpoints, one endpoint.
gather_next ==
  /\ state = "gathering" /\ pos < Len(input)
  /\ LET e == input[pos + 1]
     IN  IF check(e) = "ok"
         THEN /\ tmp' = [tmp EXCEPT ![e.rank] = slot_for_me(e)]
              /\ pos' = pos + 1 /\ UNCHANGED state
         ELSE state' = check(e) /\ UNCHANGED <<tmp, pos>>
  /\ UNCHANGED <<rank, input, channels, remote_mrs>>

\* gather_endpoints, after the loop: every slot must be filled.
gather_end ==
  /\ state = "gathering" /\ pos = Len(input)
  /\ state' = IF \E k \in Ranks : tmp[k] = None THEN "missing endpoint" ELSE "gathered"
  /\ UNCHANGED <<rank, input, pos, tmp, channels, remote_mrs>>

\* Handshake of the next channel with the endpoint at its index.
handshake_next ==
  /\ state = "handshake" /\ Len(channels) < WorldSize
  /\ channels' = Append(channels, tmp[Len(channels)].qp)
  /\ UNCHANGED <<rank, input, pos, tmp, state, remote_mrs>>

\* All the channels are up: the barrier is linked to the remote memory.
link_remote ==
  /\ state = "handshake" /\ Len(channels) = WorldSize
  /\ remote_mrs' = [k \in 1..WorldSize |-> tmp[k - 1].mr]
  /\ state' = "connected"
  /\ UNCHANGED <<rank, input, pos, tmp, channels>>

-----------------------------------------------------------------------------
(* Properties.                                                             *)

\* A connected node is wired crosswise: channel k leads to the queue pair that node k
\* keeps for this node, and barrier slot k to the memory of node k.
CrossWired ==
  state = "connected" =>
    \A k \in Ranks : channels[k + 1] = <<k, rank>> /\ remote_mrs[k + 1] = k

Complete ==
  /\ Len(input) = WorldSize
  /\ {input[k].rank : k \in 1..Len(input)} = Ranks
  /\ \A k \in 1..Len(input) : Len(input[k].endpoints) > rank

\* Endpoints are gathered exactly when each rank appears once with a channel for this
\* node, in whatever order they come, and a complaint of a duplicate is true.
GathersExactly ==
  /\ state = "gathered" => Complete
  /\ state \in GatherErrors => ~Complete
  /\ state = "duplicate" =>
       \E k, l \in 1..Len(input) : k # l /\ input[k].rank = input[l].rank
=============================================================================
