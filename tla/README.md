# A TLA+ model of ibverbs-rs

ibverbs-rs wraps libibverbs in safe Rust: device contexts, protection domains, memory regions and
queue pairs (`src/src/ibverbs`), a connected `Channel` with lifetime-tracked buffers
(`src/src/channel`), a `MultiChannel` over several peers (`src/src/multi_channel`), and a `Node` of
a ranked network with a TCP bootstrap and barriers over one-sided writes (`src/src/network`). This
directory models its concurrent and failure-prone parts, checks them with TLC, and proves every safety
property the runs check with TLAPS, for all values of the constants. Paths below are relative to
`src/src/`.

## Inventory

| Component | State | Operations | What is hard | What makes it correct |
|---|---|---|---|---|
| Completion queue cache (`channel/cached_completion_queue.rs`) | polled completions by work request id | `update`, `consume` | completions polled on behalf of one handle belong to others | none lost, doubled or mixed up; nothing left over |
| Handles (`channel/pending_work.rs`, `polling_scope.rs`) | status, `user_polled_to_completion` | `poll`, `spin_poll`, `Drop` | the poll itself may fail; Drop blocks | buffers are borrowed while the NIC works |
| Scopes (`channel/polling_scope.rs`) | handles posted, closure result | `scope`, `manual_scope`, `auto_poll` | closures that err or panic with work outstanding | everything settled before the borrows end; the answer is what happened |
| Posting (`channel/ops`, `ibverbs/queue_pair/ops.rs`) | next id, queue slots | `post_*`, `*_unpolled` | refused posts, queue depths against the completion queue | ids never reused; a completion is lost only by a queue the builder made too small |
| MultiChannel and Node operations (`multi_channel/ops`, `network/ops`) | peers, handles so far | scatter, gather, multicast, single; polled and unpolled | failure half way through a list | Ok means all of it; an error leaves nothing in flight |
| Barrier (`network/barrier`) | three epochs per peer, `poisoned` | `barrier`, `barrier_unchecked`, three algorithms | nodes running ahead, late or failed writes, timeouts, overlapping groups | nobody passes before all have called; no deadlock |
| Exchanger (`network/tcp_exchanger.rs`) | listener, stream, `received` map | `await_exchange_all` | start order, one broken stream, timeout in any await, calls made again, loops that count | agreement, no panic, no circular wait |
| Configuration (`network/config.rs`) | hosts | `add_node`, `truncate`, `build` | which fault is reported | exactly the rankings 0..n-1 are accepted |
| Node setup (`network/builder.rs`, `multi_channel/builder.rs`) | prepared and connected channels, endpoints | `builder`, `endpoint`, `gather_endpoints`, `handshake`, drop | endpoints in any order or missing; failure half way; peers writing during setup and teardown | crosswise wiring; no write to freed memory; nothing left |
| ibverbs objects (`ibverbs`) | Arcs between objects, the device list | list, open, create, clone, drop | drops in any order | destructors in order; pointers valid; no leak |
| Memory regions, elements, handles (`ibverbs/memory`) | address, length, access | `gather_element`, `scatter_element`, `sub_region`, the `remote_*_field!` macros, each with an unchecked twin | offsets and lengths of machine words that wrap in release and panic in debug; lengths cut to 32 bits | checked ones transfer exactly what was meant |
| Queue pair parameters (`ibverbs/queue_pair/config.rs`, `builder.rs`) | codes of timeouts and retries | `limited`, `unlimited`, `min_duration_greater_than`, `handshake` | codes with special meanings, rounding; they act only when packets are lost or receivers late | the hardware is as patient as the builder was told |
| Requests and completions (`ibverbs/work`) | immediate data, byte counts, errors | builders, `WorkCompletion::new` | peers that are not ready, refuse or leave | a success moved the right bytes; a request is answered |

Interactions: a scope calls handles, handles call the cached completion queue, and all of them race
with the NIC. Collective operations are built from manual scopes. Barriers write through the
MultiChannel's blocking operations into the peers' memory, so their correctness uses what scopes
promise: a blocking write has completed when it returns. What a write does at the other end, and
that it completes at all, rests on the parameters of the queue pairs and on the addresses of elements
and handles. The exchanger carries the endpoints that
`gather_endpoints` sorts and the handshake consumes. Everything holds Arcs of the ibverbs objects.

## Modules

| Module | Models | Depends on |
|---|---|---|
| `PollingScope` | one user thread with its scopes and handles against the NIC | |
| `CollectiveOps` | the operations of MultiChannel and Node as sequences of `PollingScope` steps | `PollingScope` |
| `BarrierAlgorithms` | the three `run_barrier`s as plans: the sequence of notify and wait steps of a rank | |
| `Barrier` | all nodes running their plans over the epoch memory | `BarrierAlgorithms` |
| `BarrierSpec` | what a barrier promises, in five variables | |
| `MCBarrier` | the applications (algorithm, sequence of groups, faults) the barrier runs use | `Barrier` |
| `NetworkConfig`, `NodeSetup` | configuration, then gathering endpoints and wiring channels | `NodeSetup` extends `NetworkConfig` |
| `BarrierApi` | peer list validation, dispatch, poisoning: the calls on the barrier of a node | `BarrierAlgorithms`, `NodeSetup` |
| `NodeLifecycle` | the life of a node: configuration, setup, barrier calls, drop, while peers write | `BarrierApi` |
| `Exchanger` | the exchange at every rank, over streams | |
| `Resources` | ownership of the device list and the device's objects | |
| `MemoryBounds` | the arithmetic of regions, elements and remote handles, as operators | |
| `QueuePairConfig` | the tuning parameters, what `handshake` programs, what the hardware makes of it | |
| `Connection` | one request over one connection, from two handshakes to its completion | `MemoryBounds`, `QueuePairConfig` |
| `MCConnection` | the scenarios (settings, memory, choices of the program) of its runs | `Connection` |
| `PollingScopeProofs` | theorems about scopes, handles and completions | `PollingScope` |
| `CollectiveOpsProofs` | theorems about the collective operations | `CollectiveOps`, `PollingScopeProofs` |
| `BarrierPlanProofs` | the plans of the three algorithms are sound | `BarrierAlgorithms` |
| `BarrierProofs` | theorems about the barrier protocol | `Barrier`, `BarrierPlanProofs` |
| `ExchangerProofs` | theorems about the exchange | `Exchanger` |
| `ResourcesProofs` | theorems about ownership | `Resources` |
| `NodeLifecycleProofs` | theorems about configuration, setup, barrier calls and teardown | `NodeLifecycle` |
| `ConnectionProofs` | theorems about handles, transfers and patience | `Connection` |

How state and actions correspond to code, where names alone do not say it:

* **PollingScope.** A work request is `<<channel, wr_id>>`. `nic` is the hardware's view (`none`,
  `flying`, or the outcome); `cq`, `cache` and `status` are the three places a completion can be.
  `poll` is `PendingWork::poll` branch by branch: known status, cached completion, failed
  `ibv_poll_cq`, and a poll that fetches some of the waiting completions in any order. A `spin_poll`
  is a loop of such steps (`SpinAgain`, then one of the `...Done` actions), so the NIC moves between
  its iterations. `borrowed` is the Rust borrow of the buffers: it ends when a scope returns or a
  raw handle has been dropped. `poll_errs` is history, and no action reads it. `UserPoll` and the
  other user actions may come in any order the borrow checker allows: scoped handles inside the
  closure, raw ones anywhere outside `auto_poll`. A post gets a slot while its queue has one free; a
  slot is freed when its completion is polled. The builder takes any sizes, so the completion queue may
  be smaller than the two work queues together: `lost` holds the works whose completion found it full.
  An overrun queue takes nothing any more.
* **CollectiveOps** adds the state of one call (`peers`, `posted`, `taken`, `failed`) and conjoins
  each of its steps with the `PollingScope` action it performs.
* **Barrier.** `expected`, `out_epoch`, `in_epoch` are the three fields of `BarrierPeerFlags`;
  `wire[i][j]` is the write in flight from i to j (a pair never has two, which `SourceStable` relies
  on and shows). A wait is `StartWait` (the expected epoch advances), then `WaitOk`, or `NotYet` and
  `Timeout`: the notification may land between the test of the epoch and the look at the clock. A
  notification is `StartNotify` (every epoch advances, then a prefix of the writes is posted) and
  `NotifyReturns`. A write that completes with an error has landed, lands later, or never does. The
  code requires all members to call their barriers in the same order; `sched` is that order.
* **NetworkConfig.** `sort_by_key` is a stable sort: `ByRank` puts each host at its `Position`, the number
  of hosts that are smaller, or equal and not later.
* **Exchanger.** The streams of an aborted call are closed, and the peer finds out when it next reads
  or writes. A write to a stream whose server has just gone may still succeed. Both loops count, as in the
  code: the server counts the ranks in its map (`StillServing`), the client its connections, and each takes the
  ranks out of its map afterwards, where a missing one is a panic (`serve_panic`, `connect_panic`).
  `shared` is empty, or a set of nodes that the configuration gives one address: `RawNetworkConfig::build`
  compares ranks only. One of them binds it at a time, and a client that means another reaches it.
* **NodeLifecycle.** Fields drop in the order they are declared: channels, then the barrier; in it
  the memory, then its registration. The channels drop in any order, which covers the code's. A queue pair
  whose `query_port` fails is `leaked`: it stays at the device and nobody owns it. A write of a peer is stored as long as the queue pair can receive and the registration is valid.
* **BarrierApi.** `algorithm` is the variant of the enum, `entry`, `peers`, `answer` and `ran` describe the latest
  call. `barrier_unchecked` takes every list. The binary search for the own rank may find any of its places
  in a sorted list with repetitions, and may find or miss it in one that is not sorted; `LinearBarrier::run_barrier`
  does not search. Peer lists may name one rank outside the network: validation lets it pass, and the step of the
  plan that indexes the epoch memory with it panics, after the steps before it have run.
* **Resources.** `parents[o]` are the Arcs a value holds. A destructor of an object in use fails and
  leaves the object at the device, as libibverbs does; the code only logs it. A context does not hold
  the list it was found in, and `open_device` frees the list before it returns.
* **Connection.** `attr` is a queue pair with the attributes of the three `ibv_modify_qp` calls; the two
  ends go through them independently, since nothing in the code brings them together. The program at A
  derives its handle in up to `MaxSteps` steps, each through `sub_region` or a macro, checked or not, and
  makes its elements through any constructor; `sc.debug` is the build profile, which decides whether an
  overflow panics or wraps. `aim` is history: the offset the program meant, as a natural number, whether
  every step was checked and whether every step kept within its region. Posting hands over address, key
  and elements: the length of a handle is never compared with the length of a request, by the code or
  by the NIC. The NICs are external: A checks its own memory first, resends after a silence as often as
  `retry_cnt` allows (never, with timeout code 0), bears receiver-not-ready refusals as `rnr_retry` says;
  B hears in RTR or RTS with the sequence number it expects, checks key, access and bounds, and executes
  a request once however often it is resent. `Total` is the number of bytes of the elements, each counted
  once (`ByteCount`). A silence may be a lost packet, a lost acknowledgement
  after the request was executed, or a peer that is not there. Both NICs treat a message as a whole.
  `IsScenario` says which scenarios the types of the code admit, with any byte in the public variants
  `AckTimeout::Limited` and `MaxRnrRetries::Limited` and any duration for the RNR timer; the runs and the
  theorems assume it of theirs. A code too wide for its field makes `ibv_modify_qp` fail (`Fits`), so such
  a queue pair is never connected.

## Runs

| Run | Shows | Distinct states |
|---|---|---|
| `polling_scope` | no completion doubled or mixed up, or lost but by a queue that overruns; cache drains | 902 000 |
| `polling_scope_errors` | with failing polls: buffers held, truthful answers, scopes and spins end | 194 000 |
| `polling_scope_doc` | violation: the channel docs' memory safety statement has an exception | |
| `collective_ops` | the operations answer Ok only for all of it, hold their buffers, leave nothing in flight, return | 426 000 |
| `barrier` | safety, late writes, stable source buffers, refinement of `BarrierSpec` | 1 200 000 |
| `barrier_live` | without faults all pass; with faults all calls return | 40 000 |
| `exchanger` | agreement, no orphaned stream, without faults all finish; the serving loop never panics, the connecting one only where two nodes share an address | 491 000 |
| `node_lifecycle` | exact validation, crosswise wiring, checked barrier calls that keep the contract, failed barriers that stay failed, no write to freed memory, at most one lost queue pair left | 3 185 000 |
| `resources` | teardown order, valid pointers, nothing lost, all dropped | 237 000 |
| `resources_doc` | violation: a queue pair leaked by a failing `query_port` pins its protection domain | |
| `connection` | handles and transfers exact, patience as configured, every request answered | 662 000 |
| `connection_doc` | violation: a timeout asked for by duration may be programmed shorter, and an RNR wait of the table is got exactly, not a greater one | |

### Bounds

* `MaxWrId` (ids per channel): with three requests on one channel, a completion is polled by
  another's handle and cached while a third request takes the slot it frees; with failing polls and
  liveness there are two. Two channels, with
  one id each, are in `collective_ops`. The theorems below need none of these bounds.
* `MinCqEntries`, `MaxSendWr`, `MaxRecvWr`: in `polling_scope` the completion queue has one entry for two
  works (1 < 1 + 1), so that it overruns; in the other runs it fits both queues exactly, as in the builder's
  defaults (32 = 16 + 16), which is the tight case.
* `Scenarios`: three successive groups out of four overlapping ones over three nodes for the
  centralized barrier, two full barriers of a tree of three levels and of two dissemination rounds.
  Two barriers in a row are what it takes for a node to run ahead by one epoch, and it can run no
  further ahead of its group, since it waits for the others.
* `WorldSize` = 4 and `MaxTries` = 2: nodes 1 to 3 fail at different points, call again and meet, and the two
  in the middle both serve and connect. All of it is run with an address for each node and with nodes 1 and 3
  at one: node 3 is reached by streams meant for node 1, and node 1 by clients that mean node 3, among them
  node 2, whose rank is not lower, which takes four nodes. The theorems need none of these bounds.
* `MaxHosts` = 3 and `RankIds` 0..3 include gaps, duplicates, a missing zero and a rank beyond the
  end; endpoints of a smaller and a larger world and one surplus endpoint are among the inputs.
* `MaxPeers` = 3: a barrier call may pass any list of up to three ranks, repeated, unsorted or out of
  range, which reaches every check and every plan of the three algorithms, through both entry points.
* Two completion queues and two queue pairs give every pattern of sharing between queue pairs; the
  second memory region lets two values outlive the last handle of their protection domain.
* `Usize` = 16 and `U32` = 4 stand for 2^64 and 2^32. They keep what matters: slices longer than a
  `u32`, regions in the middle and at the end of the address space, offsets, products and sums beyond
  it. Every offset, every index and every slice of that address space is tried, in both builds.
  `MaxSteps` = 2 derivations let an unchecked step follow a checked one and the reverse.
* `AckCodes` = 6 codes of an acknowledgement timeout instead of 32 keep the durations small; the quantum
  is the real one. The table of RNR timers is the real one, in units of 10 microseconds; the waits asked for are
  at, between and beyond its entries and beyond the longest wait.
* `MaxRefused` = 8 exceeds every finite retry count (7 means no limit), so a wrong count shows.
* Scenarios of `connection` vary memory, elements and transport in turn, not all at once: address
  arithmetic does not depend on retries. `TransportScenarios` has both ends unconnected at the start,
  leaving at any time, and all combinations of the limits at and beyond their boundaries, `Limited(0)`,
  `Limited(7)` and codes too wide for their fields among them.

### Fairness

* The thread inside the library keeps running (`WF` of the library's own steps). Nothing is assumed
  of the user. A spin may not rely on a failing poll to end (`PollSucceeds`). `ScopeTerminates`,
  `SpinTerminates` and `CallReturns` except works whose completion an overrun queue has lost: for those the code
  waits for ever.
* The NIC finishes every posted work request with some outcome. Reliable connections give this for
  sends, writes and reads (acknowledged, retries exhausted or flushed); a receive needs a matching
  send or an error of the queue pair, so a scope that posts a receive nobody answers does block in the
  real system: the liveness results are for programs whose receives are matched.
* Nodes go on calling barriers, their steps run, and their NICs execute posted writes. Time passes: a
  wait that has found the time elapsed returns. No fairness is put on faults.
* Each node of the exchanger calls it and its runtime keeps polling; in `AllExchanged` no timeout
  fires.
* `Drop` of a value runs once its last reference is gone.
* In `connection` A's NIC goes on with a request it was given (`WF` of all its steps together). Nothing
  is assumed of B, of the network or of the programs. `Answered` asks for an acknowledgement timeout
  that is not unlimited, by name or by code 0, and for RNR retries of 0 to 6 or a posted receive: without them a request may
  indeed wait for ever, as the documentation of these settings says.

Deadlock checking is on in every run but `exchanger`, where a node may well come to rest: a node without a
timeout (`Unsteady` leaves one out) waits for a peer that has used up its calls, or tries to connect to a node that
could not bind its address. `AllExchanged` is what rules out a circular wait there. In the others, a model that comes to an end has an explicit idle step (`Done`,
`Over`, `Gone`) that is enabled only when all is finished, so that a stuck state is reported.

## Proofs

`tlapm` checks the eight proof modules. The theorems hold for every value of the constants that
satisfies the named assumptions of the modules, which TLC evaluates on every run:

| Assumption | Says | Why the code justifies it |
|---|---|---|
| `ConstantsAssumption` | naturals, a non-empty poll buffer | types; the buffer has the size of the completion queue |
| `CollectiveAssumption` | the absent peer is not a channel | it stands for an index out of range |
| `BarrierAssumption` | every peer list is ascending and of nodes | `validate_peer_list`; `barrier_unchecked` leaves it to its caller: `Barrier` is about callers that keep to it, `BarrierApi` about all |
| `ExchangerAssumption` | at least one node and one call; the sets of nodes are of ranks | a validated network is not empty |
| `ObjectsAssumption` | different kinds of objects are different | types |
| `ConfigAssumption`, `ApiAssumption` | ranks and lengths are naturals | `usize` |
| `BoundsAssumption`, `ConnectionAssumption` | a `u32` is no wider than a `usize`; scenarios are what the types admit (`IsScenario`) | slices do not wrap and are at most `isize::MAX` long; regions are registered from slices; settings are of any value their types admit |

**`PollingScopeProofs`**, for any set of channels, number of requests and queue depths: `TypeCorrect`,
`CompletionsConserved`, `ResultsAreOwn`, `BuffersStayHeld`, `NoCompletionLeaks`,
`ScopeReportsOutcome`. `BuffersHeld` is not inductive. When a scope returns, the borrows of all its
`members` end at once, so the invariant has to say that by then each of them is settled. `IInv` adds
`CompletionInv` (where a completion is; an answer that is not `pending` or an error means that the NIC
has finished), `FreshInv` (an id not handed out has left no trace, so a post never revives an old
request), `ScopeInv` (the handles still to be dealt with are distinct, and every member is settled or
among them) and `SpinInv` (the loop the thread is in polls the head of that list). On top of it, `OInv`
counts the slots of each queue (`CapacityInv`: what is in the completion queue holds a slot, so a queue as large as the two is never
found full, which is `OverrunInv`), says that every work that may have a completion has a handle somewhere (`HandleInv`,
from which the cache drains), and follows what `auto_poll` has learned of the works left to it up to the
answer (`OutcomeInv`, `ResultInv`).

**`CollectiveOpsProofs`**: `CollectiveBuffersHeld` and `CallTypeCorrect`, for any peer lists, from the
invariant of the scopes, which the steps of a call keep; and of the answers of the calls `OkIsComplete`,
`ContractIsKept`, `CallsEndQuiet`.
Their invariant `CInv` follows a call through posting, spinning and dropping: which prefix of the peers
has been posted and which prefix of that has been polled. It needs that results persist (`Persists`: no
step takes back an outcome, a status or the record of a failed poll), since a call looks at each work
once and answers later.

**`BarrierPlanProofs`, `BarrierProofs`**, for any number of nodes, any schedule of barriers over
overlapping groups, and all three algorithms: `BarrierIsSafe`, `NoWriteComesLate`, `SourceIsStable`,
`PromiseIsKept` (refinement of `BarrierSpec`), `TypeCorrect`. The proof has two halves. The first is about
plans, not time: the plans of a group are `Sound`, meaning that between two members there is at most one
notification, that there is a wait for it exactly when it is sent, and that the news that a member has called
travels to every other member along them (`Informed`, `Complete`). It is proved of the leader, of the tree
by descent from the root, and of dissemination by the distances a round has covered. The second half counts:
the epoch i has sent to j, and the epoch j expects of i, both are the number of barriers up to where the
node is in which i notifies j. So an epoch that has arrived says which barrier its sender has reached, and
what the sender had been told by then; a node at the end of its plan has been told of everybody. Timeouts
and failed writes only stop a node: a node that has failed never advances its epochs again.

**`ExchangerProofs`**, for any world size, number of repeated calls and shared addresses: `TypeCorrect` and
`CountIsEnough`, that the serving loop, which counts, never ends with a rank missing. `PlaceInv` says that
what a server has received is of lower ranks only, so as many as there are lower ranks are all of them
(`CountIsCoverage`). Where no two nodes share an address (`OwnAddresses`): `FinishedNodesAgree`, `MapIsComplete`,
`NoClientOrphaned`. `Agreement` is hard because a client may still hold data of a call
its server has since abandoned. `MetInv` says of everything sent to a client's current call: if it is of
the server's current call, the server is reading from that very stream or has this client's data; if it is of
an earlier one, the server has nothing from the client and no stream of it in its backlog, so it cannot
finish without the client calling again. `MapInv` (what a call has received behind its serving loop) gives
`ConnectNeverPanics`.

**`ResourcesProofs`**, for any objects: `PointersStayValid`, `TeardownInOrder`, `NothingIsLost`. They are
inductive together with the shape of ownership (`ParentsInv`): only queue pairs and regions can pin
something that something else was made from, so a leak pins no more than its own parents and the context.
`NothingLost` names the leaked queue pair that pins an object.

**`NodeLifecycleProofs`**, for any world size, rank ids and lists: `BuildIsExactly`,
`EndpointsGatheredExactly`, `NodesAreCrossWired`, `NoWriteStrays`, `NodeLeavesNothing`,
`BarrierRunsOnContract`, `PoisonStays`. The invariant has one part for each group of variables:
`ConfigInv`, `DeviceInv` (no memory is freed while a queue pair is owned), `LeakInv` in it
(a queue pair is lost only by a build that fails, at most one, before there is a barrier), `ApiInv` (an error that may
have moved the epochs has poisoned the barrier) and `SetupInv` (the endpoints taken so far are of
different ranks, each in its slot). The lemmas behind `BuildIsExactly` show that `ByRank` is a sorted
permutation and that the loop of `build` finds a fault in a sorted list exactly when it is not a ranking;
those behind `EndpointsGatheredExactly` are a counting argument (n endpoints that cover n ranks repeat none).

**`ConnectionProofs`**, for any width of the machine words, any memory, offsets, slices and settings that
`IsScenario` admits: `HandlesAreExact`, `TransfersAreExact`, `PatienceIsAsConfigured`. `HandleInv` carries the
place a handle was meant for through checked and unchecked steps: once an unchecked step has left the region,
`aim.within` stays false, also when a wrapped address comes back. `ElementInv` ties each element to its
slice, `EffectInv` what was moved to the handle and the elements of the request, and `PatienceInv` the counts of silences
and refusals to what was programmed, which `AttrInv` ties to the settings. `BytesWithin` is why a request that succeeds did
not wrap: bytes that start in the region and all lie in it end before it does. `ShortestWait` shows what
`min_duration_greater_than` finds in the table of RNR timers for any duration, and `FittingCodes` which settings
have the codes without a limit.

Only model-checked: the liveness properties (`ScopeTerminates`, `SpinTerminates`, the two `CallReturns`,
`AllPass`, `AllExchanged`, `AllDropped`, `Answered`), since fairness is outside the prover. The statements
that the three violation runs refute are not theorems.

## Findings

1. `channel/mod.rs:40-44` calls it impossible in safe code to reuse a buffer the NIC still uses. If
   `ibv_poll_cq` fails, `poll` answers an error without a completion, the handle counts as polled, Drop
   logs, and the scope returns with the work in flight: `polling_scope_doc` posts, polls with a failure and ends the
   closure. `BuffersHeld` shows this to be the only way.
2. `ibverbs/queue_pair/config.rs:229` promises the smallest timeout code that covers a duration. Line 233
   divides by the quantum, rounding down, before it takes the next power of two: 8193 ns get code 1,
   8192 ns. Below 8192 ns it answers `None`, although code 1 covers the duration.
3. `ibverbs/queue_pair/builder.rs:92` returns early when `query_port` fails after `ibv_create_qp`: the
   queue pair is leaked, and its protection domain and completion queues can no longer be freed.
4. `ibverbs/queue_pair/config.rs:116` promises an RNR timer of a duration greater than the one given. Line 121
   takes an exact match, and line 123 the longest wait, 655.36 ms, for anything above it.
   `PatienceAsConfigured` states what the code does. `connection_doc` shows 2 and 4 in one state: a queue pair
   ready to send whose timeout is shorter than asked for and whose RNR wait is not greater.

Seen while modelling, without a run of its own:

* `network/tcp_exchanger.rs:193` expects every rank to have been inserted by the connecting loop. The loop
  files an answer under the rank it claims (`insert_if_valid`), and `network/config.rs:96-126` does not compare
  host names and ports: with two nodes at one address a lower one may be answered twice by the same and panics
  instead of returning an `ExchangeError`. `ConnectNeverPanics` says that this is the only way; the model
  reaches it. The `expect` of the serving loop (`:148`) never panics (`ServeNeverPanics`).
* `network/barrier/mod.rs:19-22` and `:106` say that any error poisons a barrier. Errors of validation
  (and `SelfNotInGroup` of the linear barrier) do not. Errors that may have touched the epochs do
  (`PoisonIsFinal`), so the code is safe and the docs too strong.
* A peer list that names a rank outside the network passes validation and panics by index
  (`network/barrier/memory.rs:93`, `:116`), possibly after epochs have moved; the flag is not set. The
  model ends with the panic; a program that catches it has a barrier that is not poisoned.
* The tree and dissemination barriers answer Ok for a list of one rank that is not the caller's
  (`binary_tree.rs:107`), although `binary_tree.rs:71` promises `SelfNotInGroup`; nothing is touched by
  such a call (`RunsOnContract`).
* Nodes of an exchange do not agree on success: the last message is not acknowledged, so one node may
  finish and its peer fail.
* `gather_element_unchecked` and its twin (`ibverbs/memory/memory_region.rs:395-400`) leave a bad length
  to the hardware. A slice too long for 32 bits is not caught: its length wraps, and the request
  succeeds with fewer bytes. `TransferExact` claims the full length of checked elements only.
* `sub_region_unchecked` and the unchecked macros rely on the hardware too
  (`ibverbs/memory/remote_memory_region.rs:90-92`). The hardware knows the registered region only: an
  offset that wraps in a release build may come back into it.
* `MaxRnrRetries::Limited` and `AckTimeout::Limited` are public: `Limited(7)` retries for ever and `Limited(0)`
  waits for ever, although their docs (`config.rs:156`, `:208`) say 0-6 and 1-31, which only `limited` enforces.
* `Channel::builder` and `MultiChannel::builder` accept a completion queue smaller than the two work queues; it can
  then overrun, and `spin_poll` waits for ever for the completion that was lost (`channel/builder.rs:25-27`).
* `barrier_unchecked` of the centralized barrier runs on a list without the own rank: the node then takes part as a
  follower of the first rank named, and its epochs fall out of step with the group.
* `MinRnrTimer::limited` accepts code 0, the longest wait, where its
  doc says 1-31.

## Not modelled

* The tables of work and system error codes (`ibverbs/work/error.rs`, `ibverbs/error.rs`): total matches.
* GUIDs and NUMA pinning: formatting and calls of C libraries.
* The cutting of messages into packets by the MTU; a write that is lost half way may have moved a part.
* A raw handle that outlives its channel (unsafe API; its Drop would spin for ever).
* The eight-byte atomicity of an epoch write, clocks as numbers, overflow of 64-bit ids and epochs.
* Message framing and JSON of the exchanger: a message is read whole or not at all.

## Plan

Done: the modules, runs and theorems above; every invariant and every action property of a passing run
is a theorem, and so is the refinement of the abstract barrier. Left:

1. Steps towards the liveness properties that need no fairness, as theorems: that a step the code waits for
   is never undone, and measures that every step of a loop lowers (the handles left to `auto_poll`, the
   peers left to an exchange, the steps left of a plan).
2. Compositions of results: that a blocking write of the barrier is one of `CollectiveOps`, so that
   `SourceStable` rests on `ReturnsQuiet`; that every list the checked entry point runs on satisfies
   `BarrierAssumption`.
3. Shorter proofs: the facts about finite sets and least elements that several proof modules state for themselves.
