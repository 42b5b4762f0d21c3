---------------------------- MODULE PollingScope ----------------------------
(***************************************************************************)
(* The completion machinery of ibverbs-rs: the cached completion queue,     *)
(* PendingWork, ScopedPendingWork and the polling scopes that own them      *)
(* (src/channel).  One user thread (the handles are Rc, hence !Send) runs   *)
(* against the NIC, which finishes posted work requests in any order.       *)
(*                                                                         *)
(* A scope is opened over `Channels`: a single one for Channel::scope, one  *)
(* per peer for MultiChannel::scope and Node::scope, which all run the same *)
(* generic PollingScope<C>.  A work request is <<channel, wr_id>>.  Raw     *)
(* PendingWork handles of the unpolled operations share the same completion *)
(* queue and may be alive across scopes.                                    *)
(***************************************************************************)
EXTENDS Naturals, Sequences, FiniteSets

CONSTANTS
  Channels,      \* channels the scope can post to
  MaxWrId,       \* model bound: work request ids per channel are 0..MaxWrId-1
  MinCqEntries,  \* min_cq_entries: least completion queue size and poll buffer length
  MaxSendWr,     \* max_send_wr: depth of the send queue
  MaxRecvWr,     \* max_recv_wr: depth of the receive queue
  PollFails      \* can poll_cq return a negative number?

ASSUME ConstantsAssumption ==
  /\ MaxWrId \in Nat
  /\ MinCqEntries \in Nat \ {0}
  /\ MaxSendWr \in Nat
  /\ MaxRecvWr \in Nat
  /\ PollFails \in BOOLEAN

WRs == Channels \X (0..(MaxWrId - 1))
NoWr == << >>
Queues == {"sq", "rq"}
Results == {"success", "error"}          \* WorkResult: Ok(_) or Err(_)
MaybeResult == Results \cup {"none"}     \* Option<WorkResult>
Returned == Results \cup {"pending", "ibv_error"}  \* what PendingWork::poll answers
Depth(q) == IF q = "sq" THEN MaxSendWr ELSE MaxRecvWr

VARIABLES
  next_wr_id,        \* Channel::next_wr_id
  queue,             \* queue a work request was posted to
  nic,               \* the hardware: not posted, in flight, or its outcome
  lost,              \* works whose completion found the completion queue full
  cq,                \* completions not yet polled
  cache,             \* CachedCompletionQueue::cache
  status,            \* PendingWork::status
  handle,            \* who holds the PendingWork: nobody yet, a scope, the user, dropped
  user_polled,       \* works with user_polled_to_completion set
  borrowed,          \* works whose data buffers are still borrowed
  phase,             \* of the thread: no scope, inside the closure, in auto_poll
  mode,              \* "auto": run, "manual": run_manual
  wrs,               \* PollingScope::wrs, consumed by auto_poll from the front
  members,           \* every work posted through the latest scope
  closure,           \* how the closure of the latest scope ended
  auto_polled,       \* local of auto_poll
  transport_errors,  \* local of auto_poll: works whose error was pushed
  result,            \* what the latest scope returned
  spin,              \* which spin_poll loop the thread is in, if any
  cur,               \* the work that loop polls
  poll_errs          \* history: works a poll of which answered IbvError

hwVars == <<queue, nic, lost>>
cqVars == <<cq, cache, status>>
handleVars == <<handle, user_polled, borrowed>>
scopeVars == <<phase, mode, wrs, members, closure, auto_polled,
               transport_errors, result>>
spinVars == <<spin, cur>>
vars == <<next_wr_id, hwVars, cqVars, handleVars, scopeVars, spinVars, poll_errs>>

Init ==
  /\ next_wr_id = [c \in Channels |-> 0]
  /\ queue = [w \in WRs |-> "sq"]
  /\ nic = [w \in WRs |-> "none"]
  /\ lost = {}
  /\ cq = {}
  /\ cache = [w \in WRs |-> "none"]
  /\ status = [w \in WRs |-> "none"]
  /\ handle = [w \in WRs |-> "none"]
  /\ user_polled = {}
  /\ borrowed = {}
  /\ phase = "idle"
  /\ mode = "auto"
  /\ wrs = << >>
  /\ members = {}
  /\ closure = "running"
  /\ auto_polled = FALSE
  /\ transport_errors = {}
  /\ result = "none"
  /\ spin = "none"
  /\ cur = NoWr
  /\ poll_errs = {}

-----------------------------------------------------------------------------
(* Polling.                                                                *)

InCq(c) == {w \in cq : w[1] = c}

\* ibv_poll_cq fills at most a poll buffer, and something if there is something.
PolledCompletions(c) ==
  {S \in SUBSET InCq(c) : /\ Cardinality(S) <= MinCqEntries
                          /\ S = {} => InCq(c) = {}}

\* Mutant: the cache keeps nothing but the completions just polled.
update_overwriting(S) == [w \in WRs |-> IF w \in S THEN nic[w] ELSE "none"]

\* CachedCompletionQueue::update: the cache once the completions S are inserted.
update(S) == [w \in WRs |-> IF w \in S THEN nic[w] ELSE cache[w]]

\* Mutant: any cached completion of the channel is taken for the work's own.
consume_any(filled, w) ==
  \E v \in WRs :
    /\ v[1] = w[1] /\ filled[v] # "none"
    /\ status' = [status EXCEPT ![w] = filled[v]]
    /\ cache' = [filled EXCEPT ![v] = "none"]

\* consume_cache: the completion leaves the cache and becomes the handle's status.
consume_cache(filled, w) ==
  /\ status' = [status EXCEPT ![w] = filled[w]]
  /\ cache' = [filled EXCEPT ![w] = "none"]

\* PendingWork::poll, with the answer it gives.
poll(w, ret) ==
  \/ /\ status[w] # "none"
     /\ ret = status[w]
     /\ UNCHANGED cqVars
  \/ /\ status[w] = "none"
     /\ cache[w] # "none"
     /\ ret = cache[w]
     /\ consume_cache(cache, w)
     /\ UNCHANGED cq
  \/ /\ status[w] = "none"
     /\ cache[w] = "none"
     /\ PollFails
     /\ ret = "ibv_error"
     /\ UNCHANGED cqVars
  \/ /\ status[w] = "none"
     /\ cache[w] = "none"
     /\ \E S \in PolledCompletions(w[1]) :
          /\ cq' = cq \ S
          /\ \/ /\ update(S)[w] # "none"
                /\ ret = update(S)[w]
                /\ consume_cache(update(S), w)
             \/ /\ update(S)[w] = "none"
                /\ ret = "pending"
                /\ cache' = update(S)
                /\ UNCHANGED status

NotePollError(w, ret) ==
  poll_errs' = IF ret = "ibv_error" THEN poll_errs \cup {w} ELSE poll_errs

-----------------------------------------------------------------------------
(* Posting.                                                                *)

Outstanding(c, q) ==
  {w \in WRs : w[1] = c /\ queue[w] = q /\ (nic[w] = "flying" \/ w \in cq \cup lost)}

\* The QP takes a work request while its queue has a slot free; a slot is freed
\* when the completion is polled from the completion queue.
post(c, q, w) ==
  /\ Cardinality(Outstanding(c, q)) < Depth(q)
  /\ queue' = [queue EXCEPT ![w] = q]
  /\ nic' = [nic EXCEPT ![w] = "flying"]
  /\ UNCHANGED lost

\* Mutant: the id is advanced by the channel and again by its caller.
get_and_advance_twice(c) == next_wr_id' = [next_wr_id EXCEPT ![c] = @ + 2]

\* get_and_advance_wr_id: the id is spent even if the post then fails.
get_and_advance_wr_id(c) == next_wr_id' = [next_wr_id EXCEPT ![c] = @ + 1]

\* Mutant: the scope does not record the handle it gives to the user.
channel_post_untracked(c, q) ==
  LET w == <<c, next_wr_id[c]>>
  IN  /\ phase = "closure" /\ spin = "none" /\ next_wr_id[c] < MaxWrId
      /\ get_and_advance_wr_id(c)
      /\ post(c, q, w)
      /\ handle' = [handle EXCEPT ![w] = "scoped"]
      /\ borrowed' = borrowed \cup {w}
      /\ members' = members \cup {w}
      /\ UNCHANGED <<cqVars, user_polled, phase, mode, wrs, closure, auto_polled,
                     transport_errors, result, spinVars, poll_errs>>

\* PollingScope::channel_post_*: posts through the scope, which keeps a clone of
\* the handle.  The buffers are borrowed for 'env, until the scope returns.
channel_post(c, q) ==
  LET w == <<c, next_wr_id[c]>>
  IN  /\ phase = "closure" /\ spin = "none" /\ next_wr_id[c] < MaxWrId
      /\ get_and_advance_wr_id(c)
      /\ post(c, q, w)
      /\ handle' = [handle EXCEPT ![w] = "scoped"]
      /\ borrowed' = borrowed \cup {w}
      /\ wrs' = Append(wrs, w)
      /\ members' = members \cup {w}
      /\ UNCHANGED <<cqVars, user_polled, phase, mode, closure, auto_polled,
                     transport_errors, result, spinVars, poll_errs>>

channel_post_send(c) == channel_post(c, "sq")
channel_post_receive(c) == channel_post(c, "rq")
channel_post_write(c) == channel_post(c, "sq")
channel_post_read(c) == channel_post(c, "sq")

\* Channel::*_unpolled outside a scope: the user owns the PendingWork and the
\* buffers are borrowed until it is dropped.
post_unpolled(c, q) ==
  LET w == <<c, next_wr_id[c]>>
  IN  /\ phase = "idle" /\ spin = "none" /\ next_wr_id[c] < MaxWrId
      /\ get_and_advance_wr_id(c)
      /\ post(c, q, w)
      /\ handle' = [handle EXCEPT ![w] = "raw"]
      /\ borrowed' = borrowed \cup {w}
      /\ UNCHANGED <<cqVars, user_polled, scopeVars, spinVars, poll_errs>>

\* Any post may be refused (full queue, bad state): the `?` leaves with the error
\* before a handle exists.
PostRefused(c) ==
  /\ phase \in {"idle", "closure"} /\ spin = "none" /\ next_wr_id[c] < MaxWrId
  /\ get_and_advance_wr_id(c)
  /\ UNCHANGED <<hwVars, cqVars, handleVars, scopeVars, spinVars, poll_errs>>

-----------------------------------------------------------------------------
(* The user's handles.  Raw ones can be polled inside a closure as well.   *)

Usable(w) ==
  /\ spin = "none"
  /\ \/ phase = "closure" /\ handle[w] = "scoped"
     \/ phase \in {"idle", "closure"} /\ handle[w] = "raw"

\* user_polled_to_completion is set by every answer that is not None, IbvError included.
MarkPolled(w, ret) ==
  user_polled' = IF handle[w] = "scoped" /\ ret # "pending"
                 THEN user_polled \cup {w} ELSE user_polled

\* ScopedPendingWork::poll and PendingWork::poll.
UserPoll(w) ==
  /\ Usable(w)
  /\ \E ret \in Returned :
       poll(w, ret) /\ MarkPolled(w, ret) /\ NotePollError(w, ret)
  /\ UNCHANGED <<next_wr_id, hwVars, handle, borrowed, scopeVars, spinVars>>

\* ScopedPendingWork::spin_poll and PendingWork::spin_poll enter their loop.
UserSpin(w) ==
  /\ Usable(w)
  /\ spin' = "user" /\ cur' = w
  /\ UNCHANGED <<next_wr_id, hwVars, cqVars, handleVars, scopeVars, poll_errs>>

\* A raw PendingWork goes out of scope: its Drop spin-polls.
DropRaw(w) ==
  /\ Usable(w) /\ handle[w] = "raw"
  /\ spin' = "drop" /\ cur' = w
  /\ UNCHANGED <<next_wr_id, hwVars, cqVars, handleVars, scopeVars, poll_errs>>

\* spin_poll: not ready yet, poll again.
SpinAgain ==
  /\ spin # "none"
  /\ poll(cur, "pending")
  /\ UNCHANGED <<next_wr_id, hwVars, handleVars, scopeVars, spinVars, poll_errs>>

\* The user's spin_poll returns.
SpinUserDone ==
  /\ spin = "user"
  /\ \E ret \in Returned \ {"pending"} :
       poll(cur, ret) /\ MarkPolled(cur, ret) /\ NotePollError(cur, ret)
  /\ spin' = "none" /\ cur' = NoWr
  /\ UNCHANGED <<next_wr_id, hwVars, handle, borrowed, scopeVars>>

-----------------------------------------------------------------------------
(* Scopes.                                                                 *)

\* Channel::scope and Channel::manual_scope: a fresh PollingScope, then the closure.
OpenScope(m) ==
  /\ phase = "idle" /\ spin = "none"
  /\ phase' = "closure" /\ mode' = m /\ closure' = "running"
  /\ wrs' = << >> /\ members' = {}
  /\ auto_polled' = FALSE /\ transport_errors' = {} /\ result' = "none"
  /\ UNCHANGED <<next_wr_id, hwVars, cqVars, handleVars, spinVars, poll_errs>>

\* The closure returns Ok or Err, or panics and is caught: auto_poll starts.
ClosureEnds(out) ==
  /\ phase = "closure" /\ spin = "none"
  /\ closure' = out /\ phase' = "auto_poll"
  /\ UNCHANGED <<next_wr_id, hwVars, cqVars, handleVars, mode, wrs, members,
                 auto_polled, transport_errors, result, spinVars, poll_errs>>

\* auto_poll takes the next handle: one the user has polled is only dropped, any
\* other is spun to completion first.
AutoPollNext ==
  /\ phase = "auto_poll" /\ spin = "none" /\ wrs # << >>
  /\ cur' = Head(wrs)
  /\ IF Head(wrs) \in user_polled
     THEN spin' = "drop" /\ UNCHANGED auto_polled
     ELSE spin' = "auto" /\ auto_polled' = TRUE
  /\ UNCHANGED <<next_wr_id, hwVars, cqVars, handleVars, phase, mode, wrs, members,
                 closure, transport_errors, result, poll_errs>>

\* auto_poll's spin_poll returns: an error is collected and the Rc is dropped.
SpinAutoDone ==
  /\ spin = "auto"
  /\ \E ret \in Returned \ {"pending"} :
       /\ poll(cur, ret) /\ NotePollError(cur, ret)
       /\ transport_errors' = IF ret = "success" THEN transport_errors
                              ELSE transport_errors \cup {cur}
  /\ spin' = "drop" /\ UNCHANGED cur
  /\ UNCHANGED <<next_wr_id, hwVars, handleVars, phase, mode, wrs, members,
                 closure, auto_polled, result>>

\* Drop of a PendingWork: its spin_poll returns, an error is only logged.  A raw
\* handle gives its buffers back; auto_poll goes on to its next handle.
DropDone ==
  /\ spin = "drop"
  /\ \E ret \in Returned \ {"pending"} : poll(cur, ret) /\ NotePollError(cur, ret)
  /\ handle' = [handle EXCEPT ![cur] = "dropped"]
  /\ IF handle[cur] = "raw"
     THEN borrowed' = borrowed \ {cur} /\ UNCHANGED wrs
     ELSE wrs' = Tail(wrs) /\ UNCHANGED borrowed
  /\ spin' = "none" /\ cur' = NoWr
  /\ UNCHANGED <<next_wr_id, hwVars, user_polled, phase, mode, members, closure,
                 auto_polled, transport_errors, result>>

\* PollingScope::run's match: panic, then closure error, then auto-poll errors.
RunResult ==
  CASE closure = "panic" -> "resumed_panic"
    [] closure = "err" -> "ClosureError"
    [] closure = "ok" /\ transport_errors = {} -> "Ok"
    [] OTHER -> "AutoPollError"

\* Mutant: run_manual looks at the errors only, as run does.
RunManualResult_Lenient ==
  CASE closure = "panic" -> "resumed_panic"
    [] closure = "err" -> "Err"
    [] closure = "ok" /\ transport_errors = {} -> "Ok"
    [] OTHER -> "unpolled_panic"

\* PollingScope::run_manual's match: a success with unpolled work panics.
RunManualResult ==
  CASE closure = "panic" -> "resumed_panic"
    [] closure = "err" -> "Err"
    [] closure = "ok" /\ ~auto_polled -> "Ok"
    [] OTHER -> "unpolled_panic"

\* Mutant: the scope returns without auto-polling when the closure fails.
ScopeReturns_SkipOnError ==
  /\ phase = "auto_poll" /\ spin = "none" /\ (wrs = << >> \/ closure = "err")
  /\ phase' = "idle"
  /\ result' = IF mode = "auto" THEN RunResult ELSE RunManualResult
  /\ borrowed' = borrowed \ members
  /\ UNCHANGED <<next_wr_id, hwVars, cqVars, handle, user_polled, mode, wrs,
                 members, closure, auto_polled, transport_errors, spinVars, poll_errs>>

\* The scope returns to its caller and the borrows of 'env end.
ScopeReturns ==
  /\ phase = "auto_poll" /\ spin = "none" /\ wrs = << >>
  /\ phase' = "idle"
  /\ result' = IF mode = "auto" THEN RunResult ELSE RunManualResult
  /\ borrowed' = borrowed \ members
  /\ UNCHANGED <<next_wr_id, hwVars, cqVars, handle, user_polled, mode, wrs,
                 members, closure, auto_polled, transport_errors, spinVars, poll_errs>>

-----------------------------------------------------------------------------
(* The NIC finishes a work request and queues its completion.  The builder  *)
(* takes any min_cq_entries, max_send_wr and max_recv_wr.  The device makes *)
(* a completion queue of min_cq_entries or more; one that is full overruns, *)
(* and takes nothing from then on.                                          *)

Overrun(c) == \E w \in lost : w[1] = c

NicCompletes(w, r) ==
  /\ nic[w] = "flying"
  /\ nic' = [nic EXCEPT ![w] = r]
  /\ \/ /\ ~Overrun(w[1])
        /\ cq' = cq \cup {w} /\ UNCHANGED lost
     \/ /\ Overrun(w[1]) \/ Cardinality(InCq(w[1])) >= MinCqEntries
        /\ lost' = lost \cup {w} /\ UNCHANGED cq
  /\ UNCHANGED <<next_wr_id, queue, cache, status, handleVars, scopeVars,
                 spinVars, poll_errs>>

Posting ==
  \E c \in Channels :
    \/ channel_post_send(c)
    \/ channel_post_receive(c)
    \/ channel_post_write(c)
    \/ channel_post_read(c)
    \/ \E q \in Queues : post_unpolled(c, q)
    \/ PostRefused(c)

Handles == \E w \in WRs : UserPoll(w) \/ UserSpin(w) \/ DropRaw(w)

\* What the library does by itself once it has been called.
Library ==
  \/ SpinAgain
  \/ SpinUserDone
  \/ AutoPollNext
  \/ SpinAutoDone
  \/ DropDone
  \/ ScopeReturns

Next ==
  \/ Posting
  \/ Handles
  \/ \E m \in {"auto", "manual"} : OpenScope(m)
  \/ \E out \in {"ok", "err", "panic"} : ClosureEnds(out)
  \/ Library
  \/ \E w \in WRs, r \in Results : NicCompletes(w, r)

Spec == Init /\ [][Next]_vars

\* The step is not a poll that fails: nothing obliges ibv_poll_cq ever to fail, so a
\* spin may not count on it to come to an end.
PollSucceeds == spin # "none" /\ spin' = "none" => status'[cur] # "none"

\* The thread keeps running inside the library, and the NIC finishes every posted
\* work request with some outcome (acknowledged, retries exhausted, flushed).
Fairness ==
  /\ WF_vars(Library /\ PollSucceeds)
  /\ \A w \in WRs : WF_vars(\E r \in Results : NicCompletes(w, r))

FairSpec == Spec /\ Fairness

-----------------------------------------------------------------------------
(* Properties.                                                             *)

\* Every variable of the scope, its handles and the completion queue has its type.
TypeOK ==
  /\ next_wr_id \in [Channels -> 0..MaxWrId]
  /\ queue \in [WRs -> Queues]
  /\ nic \in [WRs -> Results \cup {"none", "flying"}]
  /\ lost \in SUBSET WRs
  /\ cq \in SUBSET WRs
  /\ cache \in [WRs -> MaybeResult]
  /\ status \in [WRs -> MaybeResult]
  /\ handle \in [WRs -> {"none", "scoped", "raw", "dropped"}]
  /\ user_polled \in SUBSET WRs
  /\ borrowed \in SUBSET WRs
  /\ phase \in {"idle", "closure", "auto_poll"}
  /\ mode \in {"auto", "manual"}
  /\ wrs \in Seq(WRs)
  /\ members \in SUBSET WRs
  /\ closure \in {"running", "ok", "err", "panic"}
  /\ auto_polled \in BOOLEAN
  /\ transport_errors \in SUBSET WRs
  /\ result \in {"none", "Ok", "ClosureError", "AutoPollError", "Err",
                 "resumed_panic", "unpolled_panic"}
  /\ spin \in {"none", "user", "auto", "drop"}
  /\ cur \in WRs \cup {NoWr}
  /\ poll_errs \in SUBSET WRs

Finished(w) == nic[w] \in Results

\* The memory-safety promise of the channel: the buffers of a work request the NIC
\* has not finished are still borrowed, whatever the closure did (error, panic,
\* forgotten handle), unless a poll of that very work request answered IbvError.
BuffersHeld ==
  \A w \in WRs : nic[w] = "flying" /\ w \notin borrowed => w \in poll_errs

\* The same promise as the documentation of the channel states it of safe code, without
\* exception: it is about the works posted through a scope.
BuffersAlwaysHeld == \A w \in members : nic[w] = "flying" => w \in borrowed

\* A completion is never seen twice, and lost by the hardware only: once the NIC has
\* finished a work request, its completion is in exactly one of the queue, the cache and
\* the handle, or it overran the queue, which takes a builder whose min_cq_entries is less
\* than max_send_wr + max_recv_wr.
CompletionConserved ==
  \A w \in WRs :
    /\ Finished(w) =>
         \/ w \in cq /\ cache[w] = "none" /\ status[w] = "none"
         \/ w \notin cq /\ cache[w] # "none" /\ status[w] = "none"
         \/ w \notin cq /\ cache[w] = "none" /\ status[w] # "none"
         \/ w \notin cq /\ cache[w] = "none" /\ status[w] = "none" /\ w \in lost
    /\ w \in lost => status[w] = "none" /\ MinCqEntries < MaxSendWr + MaxRecvWr

\* The result a handle reports is the one the NIC gave for that work request, however
\* many completions of other work requests were polled and cached on the way.
ResultIsOwn == \A w \in WRs : status[w] # "none" => status[w] = nic[w]

\* No leak: when no scope is open and no raw handle is alive, nothing is left in the
\* queue or the cache, but for works whose polling failed.
CacheDrained ==
  phase = "idle" /\ (\A w \in WRs : handle[w] # "raw")
    => \A w \in WRs \ poll_errs : w \notin cq /\ cache[w] = "none"

\* What a scope returns is what happened: no failure of a work left to auto_poll is
\* swallowed, a closure's error or panic wins, and manual_scope panics exactly when a
\* successful closure left work unpolled.
ScopeOutcome ==
  phase = "idle" /\ result # "none" =>
    LET left == members \ user_polled
        failed == {w \in left : status[w] = "error"}
    IN  /\ closure = "panic" <=> result = "resumed_panic"
        /\ closure = "err" <=> result \in {"ClosureError", "Err"}
        /\ result = "Ok" /\ mode = "auto" => \A w \in left : status[w] = "success"
        /\ result = "Ok" /\ mode = "manual" => left = {}
        /\ result = "unpolled_panic" => left # {}
        /\ result = "AutoPollError" => transport_errors # {}
        /\ failed \subseteq transport_errors
        /\ transport_errors \subseteq failed \cup (left \cap poll_errs)

\* Once the closure has ended, auto_poll gets through its handles and the scope returns,
\* unless the completion of one of its works overran the completion queue.
ScopeTerminates == (phase = "auto_poll") ~> (phase = "idle" \/ members \cap lost # {})

\* Every spin_poll returns, the caller's, auto_poll's and the one of Drop, although a
\* completion may have been polled and cached on behalf of another handle.  It has no
\* timeout, so only a completion the queue lost keeps it.
SpinTerminates == (spin # "none") ~> (spin = "none" \/ cur \in lost)
=============================================================================
