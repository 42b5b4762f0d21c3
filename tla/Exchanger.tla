------------------------------ MODULE Exchanger -----------------------------
(***************************************************************************)
(* The all-to-all exchange over TCP that bootstraps a network               *)
(* (src/network/tcp_exchanger.rs).  A node first serves the lower ranks,    *)
(* one stream at a time, then connects to the greater ranks in turn.  The   *)
(* whole call is a future under one timeout: when it is dropped, so are its *)
(* listener and its stream.  A failed node may call again, with the data of *)
(* a newly built node.                                                      *)
(*                                                                         *)
(* A stream is <<client, rank it connects to, attempt of the client>>; the  *)
(* data of node i in its attempt t is <<i, t>>.  NetworkConfig does not     *)
(* compare hostnames and ports, so a stream may end at another node of the  *)
(* same address.                                                            *)
(***************************************************************************)
EXTENDS Naturals, SequencesExt

CONSTANTS
  WorldSize,  \* NetworkConfig::world_size
  Clash,      \* ranks to which a configuration gives one hostname and port
  MaxTries,   \* bound: calls of await_exchange_all per unsteady node
  Unsteady    \* bound: nodes that can time out, fail to bind and call again

Ranks == 0..(WorldSize - 1)

ASSUME ExchangerAssumption ==
  /\ WorldSize \in Nat \ {0} /\ MaxTries \in Nat \ {0}
  /\ Clash \subseteq Ranks /\ Unsteady \subseteq Ranks

LowerRanks(i) == 0..(i - 1)
GreaterRanks(i) == (i + 1)..(WorldSize - 1)
NoData == << >>
NoStream == << >>

VARIABLES
  shared,     \* the ranks that share one address: Clash or none
  faults,     \* the nodes whose calls can time out and whose binds can fail
  try,        \* calls of await_exchange_all so far
  pc,         \* where the call is
  stream,     \* the stream the node is exchanging on
  target,     \* the greater rank a client is at
  listening,  \* is the node's port bound?
  backlog,    \* streams connected to the port and not accepted
  received,   \* the received map: data per rank
  down,       \* <<stream, data>> for every server's message sent and not read
  up,         \* streams with the client's message sent and not read
  closed_c,   \* streams whose client has closed its end
  closed_s    \* streams whose server has closed its end

netVars == <<shared, faults, down, up, closed_c, closed_s>>
portVars == <<listening, backlog>>
vars == <<try, pc, stream, target, portVars, received, netVars>>

SameAddress(i, j) == i = j \/ {i, j} \subseteq shared
Data(i) == <<i, try[i]>>
Message(s) == <<s[1], s[3]>>   \* what the client of stream s sends

Init ==
  /\ shared \in {{}, Clash} /\ faults \in {{}, Unsteady}
  /\ try = [i \in Ranks |-> 0]
  /\ pc = [i \in Ranks |-> "out"]
  /\ stream = [i \in Ranks |-> NoStream]
  /\ target = [i \in Ranks |-> 0]
  /\ listening = [i \in Ranks |-> FALSE]
  /\ backlog = [i \in Ranks |-> << >>]
  /\ received = [i \in Ranks |-> [j \in Ranks |-> NoData]]
  /\ down = {} /\ up = {} /\ closed_c = {} /\ closed_s = {}

Goto(i, l) == pc' = [pc EXCEPT ![i] = l]

\* The listener of node i is dropped: connections nobody accepted are reset.
DropListener(i) ==
  /\ listening' = [listening EXCEPT ![i] = FALSE]
  /\ backlog' = [backlog EXCEPT ![i] = << >>]

\* Mutant: the stream in hand outlives the call that failed.
Abort_KeepsStream(i) ==
  /\ Goto(i, "failed")
  /\ stream' = [stream EXCEPT ![i] = NoStream]
  /\ DropListener(i)
  /\ closed_s' = closed_s \cup ToSet(backlog[i])
  /\ UNCHANGED <<shared, faults, try, target, received, down, up, closed_c>>

\* The call of node i ends with an error: the future's listener and stream are dropped.
Abort(i) ==
  /\ Goto(i, "failed")
  /\ stream' = [stream EXCEPT ![i] = NoStream]
  /\ DropListener(i)
  /\ closed_c' = closed_c \cup {s \in {stream[i]} \ {NoStream} : s[1] = i}
  /\ closed_s' = closed_s \cup ToSet(backlog[i])
                   \cup {s \in {stream[i]} \ {NoStream} : s[1] # i}
  /\ UNCHANGED <<shared, faults, try, target, received, down, up>>

-----------------------------------------------------------------------------
\* Mutant: a new call goes on with what an earlier one has received.
empty_map_kept(i) == received[i]

\* HashMap::new.
empty_map(i) == [j \in Ranks |-> NoData]

MayCall(i) ==
  pc[i] \in {"out", "failed"} /\ try[i] < (IF i \in faults THEN MaxTries ELSE 1)

AddressInUse(i) == \E j \in Ranks \ {i} : listening[j] /\ SameAddress(i, j)

\* await_exchange_all: bind, with nothing received.
Bind(i) ==
  /\ MayCall(i) /\ ~AddressInUse(i)
  /\ try' = [try EXCEPT ![i] = @ + 1]
  /\ received' = [received EXCEPT ![i] = empty_map(i)]
  /\ listening' = [listening EXCEPT ![i] = TRUE]
  /\ Goto(i, "serving")
  /\ UNCHANGED <<stream, target, backlog, netVars>>

\* The port cannot be bound: the call fails at once.
BindFails(i) ==
  /\ MayCall(i) /\ (i \in faults \/ AddressInUse(i))
  /\ try' = [try EXCEPT ![i] = @ + 1]
  /\ Goto(i, "failed")
  /\ UNCHANGED <<stream, target, portVars, received, netVars>>

\* Mutant: the valid range leaves out its last rank.
insert_if_in_short_range(i, r, d, range) ==
  IF r \in range /\ r + 1 \in range THEN [received[i] EXCEPT ![r] = d] ELSE received[i]

\* Mutant: the rank of a message is not compared with the range.
insert_unchecked(i, r, d, range) == [received[i] EXCEPT ![r] = d]

\* insert_if_valid: a duplicate replaces, a rank out of range is ignored.
insert_if_valid(i, r, d, range) ==
  IF r \in range THEN [received[i] EXCEPT ![r] = d] ELSE received[i]

ReceivedFrom(i, range) == {r \in range : received[i][r] # NoData}

-----------------------------------------------------------------------------
(* Serving the lower ranks.                                                *)

\* while received.len() < remote_ranks.len()
StillServing(i) ==
  pc[i] = "serving" /\ Cardinality(ReceivedFrom(i, Ranks)) < Cardinality(LowerRanks(i))

\* Mutant: the server waits for the client's message before it sends its own.
Accept_ReadFirst(i) ==
  /\ StillServing(i) /\ backlog[i] # << >>
  /\ stream' = [stream EXCEPT ![i] = Head(backlog[i])]
  /\ backlog' = [backlog EXCEPT ![i] = Tail(@)]
  /\ Goto(i, "serve_read")
  /\ UNCHANGED <<try, target, listening, received, netVars>>

\* accept, then exchange_serve sends the node's own data.
Accept(i) ==
  /\ StillServing(i) /\ backlog[i] # << >>
  /\ stream' = [stream EXCEPT ![i] = Head(backlog[i])]
  /\ backlog' = [backlog EXCEPT ![i] = Tail(@)]
  /\ down' = down \cup {<<Head(backlog[i]), Data(i)>>}
  /\ Goto(i, "serve_read")
  /\ UNCHANGED <<shared, faults, try, target, listening, received, up, closed_c, closed_s>>

\* exchange_serve reads the client's message.
ServeRead(i) ==
  /\ pc[i] = "serve_read" /\ stream[i] \in up
  /\ received' = [received EXCEPT ![i] =
                    insert_if_valid(i, stream[i][1], Message(stream[i]), LowerRanks(i))]
  /\ up' = up \ {stream[i]}
  /\ closed_s' = closed_s \cup {stream[i]}
  /\ stream' = [stream EXCEPT ![i] = NoStream]
  /\ Goto(i, "serving")
  /\ UNCHANGED <<shared, faults, try, target, portVars, down, closed_c>>

\* The client has gone without a message: one broken stream fails the whole call.
ServeReadFails(i) ==
  /\ pc[i] = "serve_read" /\ stream[i] \notin up /\ stream[i] \in closed_c
  /\ Abort(i)

\* As many ranks as there are lower ones have been served: they are taken from the map,
\* where a missing one is a panic, the listener is dropped and connecting begins.
ServeDone(i) ==
  /\ pc[i] = "serving" /\ ~StillServing(i)
  /\ DropListener(i)
  /\ closed_s' = closed_s \cup ToSet(backlog[i])
  /\ target' = [target EXCEPT ![i] = i + 1]
  /\ Goto(i, IF ReceivedFrom(i, LowerRanks(i)) = LowerRanks(i)
             THEN "connecting" ELSE "serve_panic")
  /\ UNCHANGED <<shared, faults, try, stream, received, down, up, closed_c>>

-----------------------------------------------------------------------------
(* Connecting to the greater ranks.                                        *)

\* connect succeeds once a node has bound the address of the target; until then it is
\* tried again and again.
Connect(i) ==
  LET s == <<i, target[i], try[i]>>
  IN  /\ pc[i] = "connecting" /\ target[i] < WorldSize
      /\ \E j \in Ranks :
           /\ listening[j] /\ SameAddress(j, target[i])
           /\ backlog' = [backlog EXCEPT ![j] = Append(@, s)]
      /\ stream' = [stream EXCEPT ![i] = s]
      /\ Goto(i, "connect_read")
      /\ UNCHANGED <<try, target, listening, received, netVars>>

\* exchange_connect reads the server's message.
ConnectRead(i) ==
  /\ pc[i] = "connect_read"
  /\ \E m \in down :
       /\ m[1] = stream[i]
       /\ down' = down \ {m}
       /\ received' = [received EXCEPT ![i] =
                         insert_if_valid(i, m[2][1], m[2], GreaterRanks(i))]
  /\ Goto(i, "connect_write")
  /\ UNCHANGED <<shared, faults, try, stream, target, portVars, up, closed_c, closed_s>>

\* The server has gone without a message, or never accepted the stream.
ConnectReadFails(i) ==
  /\ pc[i] = "connect_read" /\ stream[i] \in closed_s
  /\ \A m \in down : m[1] # stream[i]
  /\ Abort(i)

\* exchange_connect sends the node's own data; the stream is closed behind it.  The
\* write succeeds even if the server has just gone.
ConnectWrite(i) ==
  /\ pc[i] = "connect_write"
  /\ up' = up \cup {stream[i]}
  /\ closed_c' = closed_c \cup {stream[i]}
  /\ stream' = [stream EXCEPT ![i] = NoStream]
  /\ target' = [target EXCEPT ![i] = @ + 1]
  /\ Goto(i, "connecting")
  /\ UNCHANGED <<shared, faults, try, portVars, received, down, closed_s>>

\* The write finds out that the server has gone.
ConnectWriteFails(i) ==
  /\ pc[i] = "connect_write" /\ stream[i] \in closed_s
  /\ Abort(i)

\* Every greater rank has been connected to: the results are collected, and a rank
\* missing from the map is a panic.
Collect(i) ==
  /\ pc[i] = "connecting" /\ target[i] = WorldSize
  /\ Goto(i, IF ReceivedFrom(i, GreaterRanks(i)) = GreaterRanks(i)
             THEN "done" ELSE "connect_panic")
  /\ UNCHANGED <<try, stream, target, portVars, received, netVars>>

\* Is the call suspended in an await?
Suspended(i) ==
  \/ StillServing(i)
  \/ pc[i] = "connecting" /\ target[i] < WorldSize
  \/ pc[i] \in {"serve_read", "connect_read", "connect_write"}

\* exchange_timeout elapses: the call is dropped in whichever await it is suspended.
Timeout(i) == i \in faults /\ Suspended(i) /\ Abort(i)

-----------------------------------------------------------------------------
exchange_all(i) ==
  \/ Accept(i) \/ ServeRead(i) \/ ServeReadFails(i) \/ ServeDone(i)
  \/ Connect(i) \/ ConnectRead(i) \/ ConnectReadFails(i)
  \/ ConnectWrite(i) \/ ConnectWriteFails(i) \/ Collect(i)

\* Every node has its results, or has given up.
Over ==
  /\ \A i \in Ranks : pc[i] \in {"done", "serve_panic", "connect_panic", "failed"} /\ ~MayCall(i)
  /\ UNCHANGED vars

Next ==
  \/ \E i \in Ranks : Bind(i) \/ BindFails(i) \/ exchange_all(i) \/ Timeout(i)
  \/ Over

Spec == Init /\ [][Next]_vars

\* Every node calls the exchanger and its runtime keeps polling the future.
FairSpec == Spec /\ \A i \in Ranks : WF_vars(Bind(i)) /\ WF_vars(exchange_all(i))

-----------------------------------------------------------------------------
(* Properties.                                                             *)

Streams == Ranks \X Ranks \X (1..MaxTries)
AnyData == Ranks \X (1..MaxTries)

\* Every variable of the nodes, their ports and their streams has its type.
TypeOK ==
  /\ shared \in SUBSET Ranks /\ faults \in SUBSET Ranks
  /\ try \in [Ranks -> 0..MaxTries]
  /\ pc \in [Ranks -> {"out", "serving", "serve_read", "connecting", "connect_read",
                       "connect_write", "done", "failed", "serve_panic", "connect_panic"}]
  /\ stream \in [Ranks -> Streams \cup {NoStream}]
  /\ target \in [Ranks -> 0..WorldSize]
  /\ listening \in [Ranks -> BOOLEAN]
  /\ backlog \in [Ranks -> Seq(Streams)]
  /\ received \in [Ranks -> [Ranks -> AnyData \cup {NoData}]]
  /\ down \in SUBSET (Streams \X AnyData)
  /\ up \in SUBSET Streams /\ closed_c \in SUBSET Streams /\ closed_s \in SUBSET Streams

\* The configuration gives every node a hostname and port of its own.
OwnAddresses == shared = {}

\* Two nodes that both have their results hold each other's data of the very calls that
\* succeeded, however many calls timed out, failed and were made again before, if every
\* node has an address of its own.
Agreement ==
  OwnAddresses =>
    \A i, j \in Ranks : i # j /\ pc[i] = "done" /\ pc[j] = "done" => received[i][j] = Data(j)

\* Counting is enough for the server: when the loop ends, the ranks received are the lower
\* ones and the expect behind it does not panic, although clients with other ranks have
\* come to a port that nodes share and retries came twice.
ServeNeverPanics == \A i \in Ranks : pc[i] # "serve_panic"

\* The expect behind the connecting loop, which counts its streams, does not panic unless
\* an address is shared: every stream has brought the data of the rank it was made for.
ConnectNeverPanics == OwnAddresses => \A i \in Ranks : pc[i] # "connect_panic"

\* A client is never orphaned: the stream it waits on is in the server's backlog, in
\* the server's hands, or closed by the server so that the client finds out.
StreamsHeld ==
  OwnAddresses =>
    \A i \in Ranks : pc[i] \in {"connect_read", "connect_write"} =>
      LET s == stream[i]
          t == target[i]
      IN  s \in closed_s \/ s \in ToSet(backlog[t]) \/ stream[t] = s

\* Without faults and with their own addresses all nodes get everybody's data: the order of
\* serving and connecting, and of reading and writing, has no circular wait.
AllExchanged ==
  <>[](faults # {} \/ ~OwnAddresses \/ \A i \in Ranks : pc[i] = "done")
=============================================================================
