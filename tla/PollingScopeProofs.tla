------------------------- MODULE PollingScopeProofs -------------------------
(***************************************************************************)
(* Proofs about PollingScope, for any channels, queue depths and number of  *)
(* work requests: typing, conservation of completions, the promise that     *)
(* buffers stay borrowed while the NIC may use them, and what a scope       *)
(* answers and leaves behind.                                               *)
(***************************************************************************)
EXTENDS PollingScope, FiniteSetTheorems, TLAPS

\* Where the completion of each work request is: nowhere before the NIC has finished
\* it, then in exactly one of the three places, with the NIC's result, or lost.
CompletionInv ==
  \A w \in WRs :
    /\ w \in cq => nic[w] \in Results /\ cache[w] = "none" /\ status[w] = "none"
    /\ cache[w] # "none" => nic[w] = cache[w] /\ w \notin cq /\ status[w] = "none"
    /\ status[w] # "none" => nic[w] = status[w] /\ w \notin cq /\ cache[w] = "none"
    /\ w \in lost =>
         nic[w] \in Results /\ w \notin cq /\ cache[w] = "none" /\ status[w] = "none"
    /\ nic[w] \in Results => w \in cq \cup lost \/ cache[w] # "none" \/ status[w] # "none"

\* An id that has not been handed out has left no trace.
FreshInv ==
  \A w \in WRs : w[2] >= next_wr_id[w[1]] =>
    nic[w] = "none" /\ handle[w] = "none" /\ w \notin members

Settled(w) == nic[w] # "flying" \/ w \in poll_errs

\* The handles a scope still has to deal with are distinct and its own, and every
\* work it has posted is one of them or settled.
ScopeInv ==
  /\ \A k \in 1..Len(wrs) : handle[wrs[k]] = "scoped"
  /\ \A k, l \in 1..Len(wrs) : wrs[k] = wrs[l] => k = l
  /\ phase # "idle" =>
       \A w \in members : Settled(w) \/ \E k \in 1..Len(wrs) : wrs[k] = w

\* The loop the thread is in polls the handle it should.
SpinInv ==
  /\ spin # "none" => cur \in WRs
  /\ spin = "auto" => phase = "auto_poll" /\ wrs # << >> /\ cur = Head(wrs)
  /\ spin = "drop" =>
       \/ handle[cur] = "raw"
       \/ handle[cur] = "scoped" /\ phase = "auto_poll" /\ wrs # << >> /\ cur = Head(wrs)

IInv == TypeOK /\ CompletionInv /\ FreshInv /\ ScopeInv /\ SpinInv /\ BuffersHeld

-----------------------------------------------------------------------------
(* Polling.                                                                *)

\* One poll keeps the types and the conservation of completions, and a result it
\* answers has become the status of the handle.
LEMMA PollStep ==
  ASSUME TypeOK, CompletionInv, NEW w \in WRs, NEW ret \in Returned,
         poll(w, ret), UNCHANGED <<nic, lost>>
  PROVE  /\ cq' \in SUBSET WRs
         /\ cache' \in [WRs -> MaybeResult]
         /\ status' \in [WRs -> MaybeResult]
         /\ CompletionInv'
         /\ ret \in Results => status'[w] # "none"
<1> USE DEF TypeOK, CompletionInv, MaybeResult, Results, Returned, cqVars
<1>1. CASE status[w] # "none"
  BY <1>1 DEF poll
<1>2. CASE status[w] = "none" /\ cache[w] # "none"
  <2>1. /\ cq' = cq
        /\ ret = cache[w]
        /\ status' = [status EXCEPT ![w] = cache[w]]
        /\ cache' = [cache EXCEPT ![w] = "none"]
    BY <1>2 DEF poll, consume_cache
  <2> HIDE DEF Returned
  <2> QED
    BY <1>2, <2>1
<1>3. CASE status[w] = "none" /\ cache[w] = "none"
  <2>1. CASE ret = "ibv_error" /\ UNCHANGED <<cq, cache, status>>
    BY <2>1
  <2>2. ASSUME NEW S \in PolledCompletions(w[1]),
               cq' = cq \ S,
               update(S)[w] # "none",
               ret = update(S)[w],
               consume_cache(update(S), w)
        PROVE  /\ cq' \in SUBSET WRs
               /\ cache' \in [WRs -> MaybeResult]
               /\ status' \in [WRs -> MaybeResult]
               /\ CompletionInv'
               /\ status'[w] # "none"
    <3>1. S \subseteq cq
      BY DEF PolledCompletions, InCq
    <3>2. update(S) = [v \in WRs |-> IF v \in S THEN nic[v] ELSE cache[v]]
      BY DEF update
    <3>3. /\ status' = [status EXCEPT ![w] = update(S)[w]]
          /\ cache' = [update(S) EXCEPT ![w] = "none"]
      BY <2>2 DEF consume_cache
    <3>4. w \in S /\ update(S)[w] = nic[w] /\ nic[w] \in Results
      BY <2>2, <3>1, <3>2, <1>3
    <3>5. cache' = [v \in WRs |-> IF v = w THEN "none"
                                  ELSE IF v \in S THEN nic[v] ELSE cache[v]]
      BY <3>2, <3>3
    <3>6. status' = [status EXCEPT ![w] = nic[w]]
      BY <3>3, <3>4
    <3>7. /\ cq' \in SUBSET WRs
          /\ cache' \in [WRs -> MaybeResult]
          /\ status' \in [WRs -> MaybeResult]
          /\ status'[w] # "none"
      BY <2>2, <3>1, <3>4, <3>5, <3>6
    <3>8. CompletionInv'
      BY <1>3, <2>2, <3>1, <3>4, <3>5, <3>6
    <3> QED
      BY <3>7, <3>8
  <2>3. ASSUME NEW S \in PolledCompletions(w[1]),
               cq' = cq \ S,
               ret = "pending",
               cache' = update(S),
               UNCHANGED status
        PROVE  /\ cq' \in SUBSET WRs
               /\ cache' \in [WRs -> MaybeResult]
               /\ status' \in [WRs -> MaybeResult]
               /\ CompletionInv'
    <3>1. S \subseteq cq
      BY DEF PolledCompletions, InCq
    <3>2. cache' = [v \in WRs |-> IF v \in S THEN nic[v] ELSE cache[v]]
      BY <2>3 DEF update
    <3> QED
      BY <2>3, <3>1, <3>2
  <2> QED
    BY <1>3, <2>1, <2>2, <2>3 DEF poll
<1> QED
  BY <1>1, <1>2, <1>3

-----------------------------------------------------------------------------
(* The inductive invariant.                                                *)

\* The invariant holds of a channel just built.
LEMMA InitIInv == Init => IInv
<1> SUFFICES ASSUME Init PROVE IInv
  OBVIOUS
<1> USE ConstantsAssumption DEF Init
<1>1. TypeOK
  <2>1. next_wr_id \in [Channels -> 0..MaxWrId] /\ wrs \in Seq(WRs)
    OBVIOUS
  <2>2. auto_polled \in BOOLEAN
    BY Zenon
  <2>3. cur \in WRs \cup {NoWr}
    OBVIOUS
  <2> QED
    BY <2>1, <2>2, <2>3 DEF TypeOK, Queues, MaybeResult, Results
<1>2. CompletionInv
  <2> SUFFICES ASSUME NEW w \in WRs
               PROVE  nic[w] = "none" /\ w \notin cq \cup lost /\ cache[w] = "none" /\ status[w] = "none"
    BY DEF CompletionInv, Results
  <2> QED
    OBVIOUS
<1>3. FreshInv
  BY DEF FreshInv
<1>4. ScopeInv /\ SpinInv
  BY DEF ScopeInv, SpinInv
<1>5. BuffersHeld
  BY DEF BuffersHeld
<1> QED
  BY <1>1, <1>2, <1>3, <1>4, <1>5 DEF IInv

\* Posting takes an id nothing refers to.
LEMMA FreshId ==
  ASSUME IInv, NEW c \in Channels, next_wr_id[c] < MaxWrId
  PROVE  LET w == <<c, next_wr_id[c]>>
         IN  /\ w \in WRs
             /\ nic[w] = "none" /\ handle[w] = "none" /\ w \notin members
             /\ w \notin cq \cup lost /\ cache[w] = "none" /\ status[w] = "none"
             /\ \A k \in 1..Len(wrs) : wrs[k] # w
<1> DEFINE w == <<c, next_wr_id[c]>>
<1>1. w \in WRs
  BY ConstantsAssumption DEF IInv, TypeOK, WRs
<1>2. nic[w] = "none" /\ handle[w] = "none" /\ w \notin members
  BY <1>1 DEF IInv, FreshInv, TypeOK
<1>3. w \notin cq \cup lost /\ cache[w] = "none" /\ status[w] = "none"
  BY <1>1, <1>2 DEF IInv, CompletionInv, TypeOK, MaybeResult, Results
<1>4. \A k \in 1..Len(wrs) : wrs[k] # w
  BY <1>2 DEF IInv, ScopeInv
<1> QED
  BY <1>1, <1>2, <1>3, <1>4

\* Posting through a scope preserves the invariant.
LEMMA ChannelPostStep ==
  ASSUME IInv, NEW c \in Channels, NEW q \in Queues, channel_post(c, q)
  PROVE  IInv'
<1> DEFINE w == <<c, next_wr_id[c]>>
<1>1. /\ w \in WRs
      /\ nic[w] = "none" /\ handle[w] = "none" /\ w \notin members
      /\ w \notin cq \cup lost /\ cache[w] = "none" /\ status[w] = "none"
      /\ \A k \in 1..Len(wrs) : wrs[k] # w
  BY FreshId DEF channel_post
<1>2. /\ next_wr_id[c] < MaxWrId /\ phase = "closure" /\ spin = "none"
      /\ next_wr_id' = [next_wr_id EXCEPT ![c] = @ + 1]
      /\ queue' = [queue EXCEPT ![w] = q]
      /\ nic' = [nic EXCEPT ![w] = "flying"]
      /\ handle' = [handle EXCEPT ![w] = "scoped"]
      /\ borrowed' = borrowed \cup {w}
      /\ wrs' = Append(wrs, w)
      /\ members' = members \cup {w}
      /\ UNCHANGED <<lost, cq, cache, status, user_polled, phase, mode, closure, auto_polled,
                     transport_errors, result, spin, cur, poll_errs>>
  BY DEF channel_post, post, get_and_advance_wr_id, cqVars, spinVars
<1> HIDE DEF w
<1> USE DEF IInv
<1>3. TypeOK'
  BY <1>1, <1>2, ConstantsAssumption DEF TypeOK, Queues
<1>4. CompletionInv'
  BY <1>1, <1>2 DEF CompletionInv, TypeOK, Results
<1>5. FreshInv'
  BY <1>1, <1>2 DEF FreshInv, TypeOK, WRs, w
<1>6. ScopeInv'
  BY <1>1, <1>2 DEF ScopeInv, TypeOK, Settled
<1>7. SpinInv'
  BY <1>1, <1>2 DEF SpinInv, TypeOK
<1>8. BuffersHeld'
  BY <1>1, <1>2 DEF BuffersHeld, TypeOK
<1> QED
  BY <1>3, <1>4, <1>5, <1>6, <1>7, <1>8

\* Posting outside a scope preserves the invariant.
LEMMA PostUnpolledStep ==
  ASSUME IInv, NEW c \in Channels, NEW q \in Queues, post_unpolled(c, q)
  PROVE  IInv'
<1> DEFINE w == <<c, next_wr_id[c]>>
<1>1. /\ w \in WRs
      /\ nic[w] = "none" /\ handle[w] = "none" /\ w \notin members
      /\ w \notin cq \cup lost /\ cache[w] = "none" /\ status[w] = "none"
      /\ \A k \in 1..Len(wrs) : wrs[k] # w
  BY FreshId DEF post_unpolled
<1>2. /\ next_wr_id[c] < MaxWrId /\ phase = "idle" /\ spin = "none"
      /\ next_wr_id' = [next_wr_id EXCEPT ![c] = @ + 1]
      /\ queue' = [queue EXCEPT ![w] = q]
      /\ nic' = [nic EXCEPT ![w] = "flying"]
      /\ handle' = [handle EXCEPT ![w] = "raw"]
      /\ borrowed' = borrowed \cup {w}
      /\ UNCHANGED <<lost, cq, cache, status, user_polled, scopeVars, spin, cur, poll_errs>>
  BY DEF post_unpolled, post, get_and_advance_wr_id, cqVars, spinVars
<1> HIDE DEF w
<1> USE DEF IInv, scopeVars
<1>3. TypeOK'
  BY <1>1, <1>2, ConstantsAssumption DEF TypeOK, Queues
<1>4. CompletionInv'
  BY <1>1, <1>2 DEF CompletionInv, TypeOK, Results
<1>5. FreshInv'
  BY <1>1, <1>2 DEF FreshInv, TypeOK, WRs, w
<1>6. ScopeInv'
  BY <1>1, <1>2 DEF ScopeInv, TypeOK, Settled
<1>7. SpinInv'
  BY <1>1, <1>2 DEF SpinInv, TypeOK
<1>8. BuffersHeld'
  BY <1>1, <1>2 DEF BuffersHeld, TypeOK
<1> QED
  BY <1>3, <1>4, <1>5, <1>6, <1>7, <1>8

\* A refused post, which spends an id, preserves the invariant.
LEMMA PostRefusedStep ==
  ASSUME IInv, NEW c \in Channels, PostRefused(c)
  PROVE  IInv'
<1>1. /\ next_wr_id[c] < MaxWrId
      /\ next_wr_id' = [next_wr_id EXCEPT ![c] = @ + 1]
      /\ UNCHANGED <<hwVars, cqVars, handleVars, scopeVars, spinVars, poll_errs>>
  BY DEF PostRefused, get_and_advance_wr_id
<1> USE DEF IInv, hwVars, cqVars, handleVars, scopeVars, spinVars
<1>2. TypeOK'
  BY <1>1, ConstantsAssumption DEF TypeOK
<1>3. CompletionInv'
  BY <1>1 DEF CompletionInv
<1>4. FreshInv'
  BY <1>1 DEF FreshInv, TypeOK, WRs
<1>5. ScopeInv'
  BY <1>1 DEF ScopeInv, Settled
<1>6. SpinInv' /\ BuffersHeld'
  BY <1>1 DEF SpinInv, BuffersHeld
<1> QED
  BY <1>2, <1>3, <1>4, <1>5, <1>6

-----------------------------------------------------------------------------
(* Steps that poll.                                                        *)

\* A poll that answers leaves the work finished, or its polling failed.
LEMMA AnsweredIsSettled ==
  ASSUME TypeOK, CompletionInv, NEW w \in WRs, NEW ret \in Returned \ {"pending"},
         poll(w, ret), NotePollError(w, ret), UNCHANGED <<nic, lost>>
  PROVE  Settled(w)'
<1>1. CASE ret = "ibv_error"
  BY <1>1 DEF NotePollError, Settled
<1>2. CASE ret \in Results
  <2>1. CompletionInv' /\ status'[w] # "none" /\ status' \in [WRs -> MaybeResult]
    BY <1>2, PollStep
  <2>2. nic'[w] = status'[w] /\ status'[w] \in Results
    BY <2>1 DEF CompletionInv, MaybeResult
  <2> QED
    BY <2>2 DEF Settled, Results
<1> QED
  BY <1>1, <1>2 DEF Returned

\* What a poll leaves alone: it may be followed by any change of who holds what.
LEMMA PollFrame ==
  ASSUME IInv, NEW w \in WRs, NEW ret \in Returned, poll(w, ret),
         poll_errs' = poll_errs \/ NotePollError(w, ret),
         UNCHANGED <<next_wr_id, hwVars, members>>
  PROVE  /\ cq' \in SUBSET WRs
         /\ cache' \in [WRs -> MaybeResult]
         /\ status' \in [WRs -> MaybeResult]
         /\ poll_errs' \in SUBSET WRs
         /\ poll_errs \subseteq poll_errs'
         /\ CompletionInv'
         /\ \A v \in WRs : Settled(v) => Settled(v)'
<1>1. TypeOK /\ CompletionInv /\ UNCHANGED <<nic, lost>>
  BY DEF IInv, hwVars
<1>2. /\ cq' \in SUBSET WRs
      /\ cache' \in [WRs -> MaybeResult]
      /\ status' \in [WRs -> MaybeResult]
      /\ CompletionInv'
  BY <1>1, PollStep
<1>3. poll_errs' \in SUBSET WRs /\ poll_errs \subseteq poll_errs'
  BY <1>1 DEF NotePollError, TypeOK
<1>4. \A v \in WRs : Settled(v) => Settled(v)'
  BY <1>1, <1>3 DEF Settled
<1> QED
  BY <1>2, <1>3, <1>4

\* A poll by the user preserves the invariant.
LEMMA UserPollStep ==
  ASSUME IInv, NEW w \in WRs, UserPoll(w)
  PROVE  IInv'
<1> PICK ret \in Returned : poll(w, ret) /\ MarkPolled(w, ret) /\ NotePollError(w, ret)
  BY DEF UserPoll
<1>1. /\ user_polled' \in {user_polled, user_polled \cup {w}}
      /\ UNCHANGED <<next_wr_id, hwVars, handle, borrowed, scopeVars, spinVars>>
  BY DEF UserPoll, MarkPolled
<1> USE DEF hwVars, scopeVars, spinVars
<1>2. /\ cq' \in SUBSET WRs
      /\ cache' \in [WRs -> MaybeResult]
      /\ status' \in [WRs -> MaybeResult]
      /\ poll_errs' \in SUBSET WRs
      /\ poll_errs \subseteq poll_errs'
      /\ CompletionInv'
      /\ \A v \in WRs : Settled(v) => Settled(v)'
  BY <1>1, PollFrame
<1> USE DEF IInv
<1>3. TypeOK'
  BY <1>1, <1>2 DEF TypeOK
<1>4. FreshInv'
  BY <1>1 DEF FreshInv
<1>5. ScopeInv'
  BY <1>1, <1>2 DEF ScopeInv, TypeOK
<1>6. SpinInv' /\ BuffersHeld'
  BY <1>1, <1>2 DEF SpinInv, BuffersHeld
<1> QED
  BY <1>2, <1>3, <1>4, <1>5, <1>6

\* An iteration of a spin loop preserves the invariant.
LEMMA SpinAgainStep ==
  ASSUME IInv, SpinAgain
  PROVE  IInv'
<1>1. /\ cur \in WRs
      /\ poll(cur, "pending")
      /\ UNCHANGED <<next_wr_id, hwVars, handleVars, scopeVars, spinVars, poll_errs>>
  BY DEF SpinAgain, IInv, SpinInv
<1> USE DEF hwVars, handleVars, scopeVars, spinVars
<1>2. /\ cq' \in SUBSET WRs
      /\ cache' \in [WRs -> MaybeResult]
      /\ status' \in [WRs -> MaybeResult]
      /\ CompletionInv'
  BY <1>1, PollStep DEF IInv, Returned
<1> USE DEF IInv
<1>3. TypeOK'
  BY <1>1, <1>2 DEF TypeOK
<1>4. FreshInv'
  BY <1>1 DEF FreshInv
<1>5. ScopeInv'
  BY <1>1 DEF ScopeInv, Settled
<1>6. SpinInv' /\ BuffersHeld'
  BY <1>1 DEF SpinInv, BuffersHeld
<1> QED
  BY <1>2, <1>3, <1>4, <1>5, <1>6

\* The return of the user's spin_poll preserves the invariant.
LEMMA SpinUserDoneStep ==
  ASSUME IInv, SpinUserDone
  PROVE  IInv'
<1>1. cur \in WRs
  BY DEF SpinUserDone, IInv, SpinInv
<1> PICK ret \in Returned \ {"pending"} :
          poll(cur, ret) /\ MarkPolled(cur, ret) /\ NotePollError(cur, ret)
  BY DEF SpinUserDone
<1>2. /\ user_polled' \in {user_polled, user_polled \cup {cur}}
      /\ spin' = "none" /\ cur' = NoWr
      /\ UNCHANGED <<next_wr_id, hwVars, handle, borrowed, scopeVars>>
  BY DEF SpinUserDone, MarkPolled
<1> USE DEF hwVars, scopeVars
<1>3. /\ cq' \in SUBSET WRs
      /\ cache' \in [WRs -> MaybeResult]
      /\ status' \in [WRs -> MaybeResult]
      /\ poll_errs' \in SUBSET WRs
      /\ poll_errs \subseteq poll_errs'
      /\ CompletionInv'
      /\ \A v \in WRs : Settled(v) => Settled(v)'
  BY <1>1, <1>2, PollFrame
<1> USE DEF IInv
<1>4. TypeOK'
  BY <1>1, <1>2, <1>3 DEF TypeOK
<1>5. FreshInv'
  BY <1>2 DEF FreshInv
<1>6. ScopeInv'
  BY <1>2, <1>3 DEF ScopeInv, TypeOK
<1>7. SpinInv' /\ BuffersHeld'
  BY <1>2, <1>3 DEF SpinInv, BuffersHeld
<1> QED
  BY <1>3, <1>4, <1>5, <1>6, <1>7

\* The return of auto_poll's spin_poll preserves the invariant.
LEMMA SpinAutoDoneStep ==
  ASSUME IInv, SpinAutoDone
  PROVE  IInv'
<1>1. /\ cur \in WRs /\ phase = "auto_poll" /\ wrs # << >> /\ cur = Head(wrs)
  BY DEF SpinAutoDone, IInv, SpinInv
<1> PICK ret \in Returned \ {"pending"} :
          /\ poll(cur, ret) /\ NotePollError(cur, ret)
          /\ transport_errors' = IF ret = "success" THEN transport_errors
                                 ELSE transport_errors \cup {cur}
  BY DEF SpinAutoDone
<1>2. /\ transport_errors' \in {transport_errors, transport_errors \cup {cur}}
      /\ spin' = "drop"
      /\ UNCHANGED <<cur, next_wr_id, hwVars, handleVars, phase, mode, wrs, members,
                     closure, auto_polled, result>>
  BY DEF SpinAutoDone
<1> USE DEF hwVars, handleVars
<1>3. /\ cq' \in SUBSET WRs
      /\ cache' \in [WRs -> MaybeResult]
      /\ status' \in [WRs -> MaybeResult]
      /\ poll_errs' \in SUBSET WRs
      /\ poll_errs \subseteq poll_errs'
      /\ CompletionInv'
      /\ \A v \in WRs : Settled(v) => Settled(v)'
  BY <1>1, <1>2, PollFrame
<1> USE DEF IInv
<1>4. TypeOK'
  BY <1>1, <1>2, <1>3 DEF TypeOK
<1>5. FreshInv'
  BY <1>2 DEF FreshInv
<1>6. ScopeInv'
  BY <1>2, <1>3 DEF ScopeInv, TypeOK
<1>7. handle[cur] = "scoped"
  BY <1>1 DEF ScopeInv, TypeOK
<1>8. SpinInv'
  BY <1>1, <1>2, <1>7 DEF SpinInv
<1>9. BuffersHeld'
  BY <1>2, <1>3 DEF BuffersHeld
<1> QED
  BY <1>3, <1>4, <1>5, <1>6, <1>8, <1>9

\* The end of a PendingWork's Drop preserves the invariant.
LEMMA DropDoneStep ==
  ASSUME IInv, DropDone
  PROVE  IInv'
<1>1. cur \in WRs /\ spin = "drop"
  BY DEF DropDone, IInv, SpinInv
<1> PICK ret \in Returned \ {"pending"} : poll(cur, ret) /\ NotePollError(cur, ret)
  BY DEF DropDone
<1>2. /\ handle' = [handle EXCEPT ![cur] = "dropped"]
      /\ spin' = "none" /\ cur' = NoWr
      /\ UNCHANGED <<next_wr_id, hwVars, user_polled, phase, mode, members, closure,
                     auto_polled, transport_errors, result>>
  BY DEF DropDone
<1> USE DEF hwVars
<1>3. /\ cq' \in SUBSET WRs
      /\ cache' \in [WRs -> MaybeResult]
      /\ status' \in [WRs -> MaybeResult]
      /\ poll_errs' \in SUBSET WRs
      /\ poll_errs \subseteq poll_errs'
      /\ CompletionInv'
      /\ \A v \in WRs : Settled(v) => Settled(v)'
  BY <1>1, <1>2, PollFrame
<1>4. nic'[cur] # "flying" \/ cur \in poll_errs'
  BY <1>1, <1>2, AnsweredIsSettled DEF IInv, Settled
<1> USE DEF IInv
<1>5. CASE handle[cur] = "raw"
  <2>1. borrowed' = borrowed \ {cur} /\ wrs' = wrs
    BY <1>5 DEF DropDone
  <2>2. TypeOK'
    BY <1>1, <1>2, <1>3, <2>1 DEF TypeOK
  <2>3. FreshInv'
    BY <1>1, <1>2, <1>5, <2>1 DEF FreshInv, TypeOK
  <2>4. ScopeInv'
    <3>1. \A k \in 1..Len(wrs) : wrs[k] # cur /\ wrs[k] \in WRs
      BY <1>5 DEF ScopeInv, TypeOK
    <3> QED
      BY <1>1, <1>2, <1>3, <2>1, <3>1 DEF ScopeInv, TypeOK
  <2>5. SpinInv'
    BY <1>2 DEF SpinInv
  <2>6. BuffersHeld'
    BY <1>1, <1>2, <1>3, <1>4, <2>1 DEF BuffersHeld, Settled
  <2> QED
    BY <1>3, <2>2, <2>3, <2>4, <2>5, <2>6
<1>6. CASE handle[cur] # "raw"
  <2>1. /\ borrowed' = borrowed /\ wrs' = Tail(wrs)
        /\ handle[cur] = "scoped" /\ wrs # << >> /\ cur = Head(wrs)
    BY <1>1, <1>6 DEF DropDone, SpinInv
  <2>2. /\ Len(wrs') = Len(wrs) - 1 /\ Len(wrs) \in Nat /\ wrs[1] = cur
        /\ \A k \in 1..Len(wrs') : wrs'[k] = wrs[k + 1] /\ wrs[k + 1] \in WRs
        /\ wrs' \in Seq(WRs)
    BY <2>1 DEF TypeOK
  <2>3. TypeOK'
    BY <1>1, <1>2, <1>3, <2>1, <2>2 DEF TypeOK
  <2>4. FreshInv'
    BY <1>1, <1>2, <2>1 DEF FreshInv, TypeOK
  <2>5. ScopeInv'
    <3>1. \A k \in 1..Len(wrs') : wrs'[k] # cur
      BY <2>2 DEF ScopeInv
    <3>2. \A k \in 1..Len(wrs') : handle'[wrs'[k]] = "scoped"
      <4> TAKE k \in 1..Len(wrs')
      <4>1. handle[wrs[k + 1]] = "scoped"
        BY <2>2 DEF ScopeInv
      <4> QED
        BY <1>2, <2>2, <3>1, <4>1 DEF TypeOK
    <3>3. \A k, l \in 1..Len(wrs') : wrs'[k] = wrs'[l] => k = l
      <4> TAKE k, l \in 1..Len(wrs')
      <4>1. k + 1 \in 1..Len(wrs) /\ l + 1 \in 1..Len(wrs)
        BY <2>2
      <4>2. wrs[k + 1] = wrs[l + 1] => k + 1 = l + 1
        BY <4>1 DEF ScopeInv
      <4> QED
        BY <2>2, <4>2
    <3>4. phase' # "idle" =>
            \A v \in members' : Settled(v)' \/ \E k \in 1..Len(wrs') : wrs'[k] = v
      <4> SUFFICES ASSUME phase # "idle", NEW v \in members, ~Settled(v)', v # cur
                   PROVE  \E k \in 1..Len(wrs') : wrs'[k] = v
        BY <1>2, <1>4 DEF Settled
      <4>1. v \in WRs /\ ~Settled(v)
        BY <1>3 DEF TypeOK
      <4>2. PICK k \in 1..Len(wrs) : wrs[k] = v
        BY <4>1 DEF ScopeInv
      <4>3. k - 1 \in 1..Len(wrs')
        BY <2>2, <4>2
      <4>4. wrs'[k - 1] = wrs[(k - 1) + 1] /\ (k - 1) + 1 = k
        BY <2>2, <4>3
      <4>5. wrs'[k - 1] = v
        BY <4>2, <4>4
      <4> QED
        BY <4>3, <4>5
    <3> QED
      BY <3>2, <3>3, <3>4 DEF ScopeInv
  <2>6. SpinInv'
    BY <1>2 DEF SpinInv
  <2>7. BuffersHeld'
    BY <1>2, <1>3, <2>1 DEF BuffersHeld
  <2> QED
    BY <1>3, <2>3, <2>4, <2>5, <2>6, <2>7
<1> QED
  BY <1>5, <1>6

-----------------------------------------------------------------------------
(* Steps that do not poll.                                                 *)

\* Entering a spin loop, by the user or by Drop, preserves the invariant.
LEMMA StartSpinStep ==
  ASSUME IInv, NEW w \in WRs, UserSpin(w) \/ DropRaw(w)
  PROVE  IInv'
<1>1. /\ spin' = "user" \/ (spin' = "drop" /\ handle[w] = "raw")
      /\ cur' = w
      /\ UNCHANGED <<next_wr_id, hwVars, cqVars, handleVars, scopeVars, poll_errs>>
  BY DEF UserSpin, DropRaw
<1> USE DEF IInv, hwVars, cqVars, handleVars, scopeVars
<1>2. TypeOK'
  BY <1>1 DEF TypeOK
<1>3. CompletionInv' /\ FreshInv' /\ BuffersHeld'
  BY <1>1 DEF CompletionInv, FreshInv, BuffersHeld
<1>4. ScopeInv'
  BY <1>1 DEF ScopeInv, Settled
<1>5. SpinInv'
  BY <1>1 DEF SpinInv
<1> QED
  BY <1>2, <1>3, <1>4, <1>5

\* Opening a scope preserves the invariant.
LEMMA OpenScopeStep ==
  ASSUME IInv, NEW m \in {"auto", "manual"}, OpenScope(m)
  PROVE  IInv'
<1>1. /\ spin = "none"
      /\ phase' = "closure" /\ mode' = m /\ closure' = "running"
      /\ wrs' = << >> /\ members' = {}
      /\ auto_polled' = FALSE /\ transport_errors' = {} /\ result' = "none"
      /\ UNCHANGED <<next_wr_id, hwVars, cqVars, handleVars, spinVars, poll_errs>>
  BY DEF OpenScope
<1> USE DEF IInv, hwVars, cqVars, handleVars, spinVars
<1>2. auto_polled' \in BOOLEAN
  BY <1>1, Zenon
<1>3. TypeOK'
  BY <1>1, <1>2 DEF TypeOK
<1>4. CompletionInv' /\ FreshInv' /\ BuffersHeld'
  BY <1>1 DEF CompletionInv, FreshInv, BuffersHeld
<1>5. ScopeInv'
  BY <1>1 DEF ScopeInv
<1>6. SpinInv'
  BY <1>1 DEF SpinInv
<1> QED
  BY <1>3, <1>4, <1>5, <1>6

\* The end of the closure preserves the invariant.
LEMMA ClosureEndsStep ==
  ASSUME IInv, NEW out \in {"ok", "err", "panic"}, ClosureEnds(out)
  PROVE  IInv'
<1>1. /\ spin = "none" /\ phase = "closure"
      /\ closure' = out /\ phase' = "auto_poll"
      /\ UNCHANGED <<next_wr_id, hwVars, cqVars, handleVars, mode, wrs, members,
                     auto_polled, transport_errors, result, spinVars, poll_errs>>
  BY DEF ClosureEnds
<1> USE DEF IInv, hwVars, cqVars, handleVars, spinVars
<1>2. TypeOK'
  BY <1>1 DEF TypeOK
<1>3. CompletionInv' /\ FreshInv' /\ BuffersHeld'
  BY <1>1 DEF CompletionInv, FreshInv, BuffersHeld
<1>4. ScopeInv'
  BY <1>1 DEF ScopeInv, Settled
<1>5. SpinInv'
  BY <1>1 DEF SpinInv
<1> QED
  BY <1>2, <1>3, <1>4, <1>5

\* auto_poll taking its next handle preserves the invariant.
LEMMA AutoPollNextStep ==
  ASSUME IInv, AutoPollNext
  PROVE  IInv'
<1>1. /\ phase = "auto_poll" /\ wrs # << >> /\ cur' = Head(wrs)
      /\ spin' \in {"drop", "auto"}
      /\ UNCHANGED <<next_wr_id, hwVars, cqVars, handleVars, phase, mode, wrs, members,
                     closure, transport_errors, result, poll_errs>>
  BY DEF AutoPollNext
<1>2. auto_polled' = auto_polled \/ auto_polled' = TRUE
  BY DEF AutoPollNext
<1> USE DEF IInv, hwVars, cqVars, handleVars
<1>3. Head(wrs) \in WRs /\ handle[Head(wrs)] = "scoped"
  BY <1>1 DEF TypeOK, ScopeInv
<1>4. auto_polled' \in BOOLEAN
  BY <1>2, Zenon DEF TypeOK
<1>5. TypeOK'
  BY <1>1, <1>3, <1>4 DEF TypeOK
<1>6. CompletionInv' /\ FreshInv' /\ BuffersHeld'
  BY <1>1 DEF CompletionInv, FreshInv, BuffersHeld
<1>7. ScopeInv'
  BY <1>1 DEF ScopeInv, Settled
<1>8. SpinInv'
  BY <1>1, <1>3 DEF SpinInv
<1> QED
  BY <1>5, <1>6, <1>7, <1>8

\* The return of a scope, which ends its borrows, preserves the invariant.
LEMMA ScopeReturnsStep ==
  ASSUME IInv, ScopeReturns
  PROVE  IInv'
<1>1. /\ phase = "auto_poll" /\ wrs = << >> /\ spin = "none"
      /\ phase' = "idle"
      /\ borrowed' = borrowed \ members
      /\ UNCHANGED <<next_wr_id, hwVars, cqVars, handle, user_polled, mode, wrs,
                     members, closure, auto_polled, transport_errors, spinVars,
                     poll_errs>>
  BY DEF ScopeReturns
<1>2. result' \in {"Ok", "ClosureError", "AutoPollError", "Err", "resumed_panic",
                   "unpolled_panic"}
  BY DEF ScopeReturns, RunResult, RunManualResult
<1> USE DEF IInv, hwVars, cqVars, spinVars
<1>3. TypeOK'
  BY <1>1, <1>2 DEF TypeOK
<1>4. CompletionInv' /\ FreshInv'
  BY <1>1 DEF CompletionInv, FreshInv
<1>5. ScopeInv' /\ SpinInv'
  BY <1>1 DEF ScopeInv, SpinInv
<1>6. \A w \in members : Settled(w)
  BY <1>1 DEF ScopeInv
<1>7. BuffersHeld'
  BY <1>1, <1>6 DEF BuffersHeld, Settled
<1> QED
  BY <1>3, <1>4, <1>5, <1>7

\* A completion by the NIC preserves the invariant.
LEMMA NicCompletesStep ==
  ASSUME IInv, NEW w \in WRs, NEW r \in Results, NicCompletes(w, r)
  PROVE  IInv'
<1>1. /\ nic[w] = "flying"
      /\ nic' = [nic EXCEPT ![w] = r]
      /\ \/ cq' = cq \cup {w} /\ lost' = lost
         \/ lost' = lost \cup {w} /\ cq' = cq
      /\ UNCHANGED <<next_wr_id, queue, cache, status, handleVars, scopeVars,
                     spinVars, poll_errs>>
  BY DEF NicCompletes
<1>2. r # "flying" /\ r # "none"
  BY DEF Results
<1> USE DEF IInv, handleVars, scopeVars, spinVars
<1>3. TypeOK'
  BY <1>1 DEF TypeOK
<1>4. CompletionInv'
  BY <1>1 DEF CompletionInv, TypeOK, MaybeResult, Results
<1>5. FreshInv'
  BY <1>1 DEF FreshInv, TypeOK
<1>6. ScopeInv' /\ SpinInv'
  BY <1>1, <1>2 DEF ScopeInv, SpinInv, Settled, TypeOK
<1>7. BuffersHeld'
  BY <1>1, <1>2 DEF BuffersHeld, TypeOK
<1> QED
  BY <1>3, <1>4, <1>5, <1>6, <1>7

\* A step that changes nothing preserves the invariant.
LEMMA StutterStep ==
  ASSUME IInv, UNCHANGED vars
  PROVE  IInv'
<1> USE DEF vars, hwVars, cqVars, handleVars, scopeVars, spinVars, IInv
<1>1. TypeOK'
  BY DEF TypeOK
<1>2. CompletionInv' /\ FreshInv' /\ BuffersHeld'
  BY DEF CompletionInv, FreshInv, BuffersHeld
<1>3. ScopeInv' /\ SpinInv'
  BY DEF ScopeInv, SpinInv, Settled
<1> QED
  BY <1>1, <1>2, <1>3

-----------------------------------------------------------------------------
(* The theorems.                                                           *)

\* Every step preserves the invariant.
LEMMA NextIInv == IInv /\ [Next]_vars => IInv'
<1> SUFFICES ASSUME IInv, [Next]_vars PROVE IInv'
  OBVIOUS
<1>1. CASE Posting
  <2>1. ASSUME NEW c \in Channels, NEW q \in Queues, channel_post(c, q) PROVE IInv'
    BY <2>1, ChannelPostStep
  <2>2. ASSUME NEW c \in Channels, NEW q \in Queues, post_unpolled(c, q) PROVE IInv'
    BY <2>2, PostUnpolledStep
  <2>3. ASSUME NEW c \in Channels, PostRefused(c) PROVE IInv'
    BY <2>3, PostRefusedStep
  <2> QED
    BY <1>1, <2>1, <2>2, <2>3
    DEF Posting, channel_post_send, channel_post_receive, channel_post_write,
        channel_post_read, Queues
<1>2. CASE Handles
  BY <1>2, UserPollStep, StartSpinStep DEF Handles
<1>3. CASE \E m \in {"auto", "manual"} : OpenScope(m)
  BY <1>3, OpenScopeStep
<1>4. CASE \E out \in {"ok", "err", "panic"} : ClosureEnds(out)
  BY <1>4, ClosureEndsStep
<1>5. CASE Library
  BY <1>5, SpinAgainStep, SpinUserDoneStep, AutoPollNextStep, SpinAutoDoneStep,
     DropDoneStep, ScopeReturnsStep DEF Library
<1>6. CASE \E w \in WRs, r \in Results : NicCompletes(w, r)
  BY <1>6, NicCompletesStep
<1>7. CASE UNCHANGED vars
  BY <1>7, StutterStep
<1> QED
  BY <1>1, <1>2, <1>3, <1>4, <1>5, <1>6, <1>7 DEF Next

\* The inductive invariant of scopes, handles and completions holds in every behaviour.
LEMMA InvariantHolds == Spec => []IInv
  BY InitIInv, NextIInv, PTL DEF Spec

\* Every variable keeps its type, for any number of channels, work requests and depths.
THEOREM TypeCorrect == Spec => []TypeOK
<1>1. IInv => TypeOK
  BY DEF IInv
<1> QED
  BY <1>1, InvariantHolds, PTL

\* The memory-safety promise of polling_scope.rs and pending_work.rs: while the NIC
\* works on a request its buffers are borrowed, unless polling that request failed.
THEOREM BuffersStayHeld == Spec => []BuffersHeld
<1>1. IInv => BuffersHeld
  BY DEF IInv
<1> QED
  BY <1>1, InvariantHolds, PTL

\* A handle reports the NIC's result for its own work request and no other.
THEOREM ResultsAreOwn == Spec => []ResultIsOwn
<1>1. IInv => ResultIsOwn
  BY DEF IInv, CompletionInv, ResultIsOwn
<1> QED
  BY <1>1, InvariantHolds, PTL

-----------------------------------------------------------------------------
(* Capacity, leaks and outcomes: further invariants that rest on IInv.     *)

\* The slots of a queue in use are a finite set within its depth.
CapacityInv ==
  \A c \in Channels, q \in Queues :
    IsFiniteSet(Outstanding(c, q)) /\ Cardinality(Outstanding(c, q)) <= Depth(q)

\* The completion queue overruns only if it is smaller than the two queues it serves.
OverrunInv == lost # {} => MinCqEntries < MaxSendWr + MaxRecvWr

\* Every work that may have a completion is held by a handle: one in the hands of a scope,
\* one of the user's, or one that went with the answer or with a failed poll.
HandleInv ==
  \A w \in WRs :
    /\ handle[w] = "none" => nic[w] = "none"
    /\ handle[w] = "scoped" => phase # "idle" /\ \E k \in 1..Len(wrs) : wrs[k] = w
    /\ handle[w] = "dropped" => status[w] # "none" \/ w \in poll_errs

\* auto_poll is done with the work but for the return of its Drop.
Handled(w) == handle[w] = "dropped" \/ (spin = "drop" /\ cur = w)

Left == members \ user_polled

\* What auto_poll knows so far of the works the user left to it.
OutcomeInv ==
  /\ \A w \in members : handle[w] \in {"scoped", "dropped"}
  /\ \A k \in 1..Len(wrs) : wrs[k] \in members
  /\ transport_errors \subseteq Left
  /\ \A w \in transport_errors : status[w] = "error" \/ w \in poll_errs
  /\ \A w \in Left : Handled(w) => status[w] = "success" \/ w \in transport_errors
  /\ auto_polled => Left # {}
  /\ ~auto_polled => \A w \in Left : handle[w] = "scoped" /\ ~(spin \in {"auto", "drop"} /\ cur = w)
  /\ phase = "closure" =>
       ~auto_polled /\ transport_errors = {} /\ \A w \in members : handle[w] = "scoped"
  /\ spin = "user" => handle[cur] = "raw" \/ (handle[cur] = "scoped" /\ phase = "closure")
  /\ spin = "auto" => cur \notin user_polled
  /\ phase = "auto_poll" => closure \in {"ok", "err", "panic"}

\* The result is the one the closure and auto_poll call for.
ResultInv ==
  phase = "idle" /\ result # "none" =>
    /\ closure \in {"ok", "err", "panic"}
    /\ result = IF mode = "auto" THEN RunResult ELSE RunManualResult

OInv == CapacityInv /\ OverrunInv /\ HandleInv /\ OutcomeInv /\ ResultInv

\* Nothing new is outstanding.
LEMMA CapacityKept ==
  ASSUME CapacityInv,
         \A c \in Channels, q \in Queues : Outstanding(c, q)' \subseteq Outstanding(c, q)
  PROVE  CapacityInv'
<1> SUFFICES ASSUME NEW c \in Channels, NEW q \in Queues
             PROVE  IsFiniteSet(Outstanding(c, q)') /\ Cardinality(Outstanding(c, q)') <= Depth(q)
  BY DEF CapacityInv, Depth
<1> DEFINE S == Outstanding(c, q)
           T == Outstanding(c, q)'
<1>1. IsFiniteSet(S) /\ Cardinality(S) <= Depth(q) /\ T \in SUBSET S
  BY DEF CapacityInv
<1> HIDE DEF S, T
<1>2. IsFiniteSet(T) /\ Cardinality(T) <= Cardinality(S)
  BY <1>1, FS_Subset
<1>3. Cardinality(T) \in Nat /\ Cardinality(S) \in Nat /\ Depth(q) \in Nat
  BY <1>1, <1>2, FS_CardinalityType, ConstantsAssumption DEF Depth
<1>4. Cardinality(T) <= Depth(q)
  BY <1>1, <1>2, <1>3
<1> QED
  BY <1>2, <1>4 DEF T

\* Neither is it when the NIC has posted and finished nothing.
LEMMA CapacityQuiet ==
  ASSUME CapacityInv, UNCHANGED hwVars, cq' \subseteq cq
  PROVE  CapacityInv'
<1>1. \A c \in Channels, q \in Queues : Outstanding(c, q)' \subseteq Outstanding(c, q)
  BY DEF Outstanding, hwVars
<1> QED
  BY <1>1, CapacityKept

\* A post takes a slot that is free.
LEMMA CapacityPosted ==
  ASSUME TypeOK, CapacityInv, NEW c \in Channels, NEW q \in Queues, NEW w \in WRs,
         nic[w] = "none", w \notin cq \cup lost, w[1] = c, post(c, q, w), cq' = cq
  PROVE  CapacityInv'
<1>1. /\ Cardinality(Outstanding(c, q)) < Depth(q)
      /\ queue' = [queue EXCEPT ![w] = q] /\ nic' = [nic EXCEPT ![w] = "flying"]
      /\ lost' = lost
  BY DEF post
<1>2. Outstanding(c, q)' = Outstanding(c, q) \cup {w} /\ w \notin Outstanding(c, q)
  BY <1>1 DEF Outstanding, TypeOK
<1>3. ASSUME NEW x \in Channels, NEW y \in Queues, x # c \/ y # q
      PROVE  Outstanding(x, y)' = Outstanding(x, y)
  BY <1>1, <1>3 DEF Outstanding, TypeOK
<1> SUFFICES ASSUME NEW x \in Channels, NEW y \in Queues
             PROVE  IsFiniteSet(Outstanding(x, y)') /\ Cardinality(Outstanding(x, y)') <= Depth(y)
  BY DEF CapacityInv, Depth
<1>4. IsFiniteSet(Outstanding(x, y)) /\ Cardinality(Outstanding(x, y)) <= Depth(y)
  BY DEF CapacityInv
<1>5. CASE x = c /\ y = q
  <2> DEFINE S == Outstanding(c, q)
  <2>1. IsFiniteSet(S) /\ Cardinality(S) < Depth(q) /\ w \notin S /\ Outstanding(c, q)' = S \cup {w}
    BY <1>1, <1>2, <1>4, <1>5
  <2> HIDE DEF S
  <2>2. IsFiniteSet(S \cup {w}) /\ Cardinality(S \cup {w}) = Cardinality(S) + 1
    BY <2>1, FS_AddElement
  <2>3. Cardinality(S) \in Nat /\ Depth(q) \in Nat
    BY <2>1, FS_CardinalityType, ConstantsAssumption DEF Depth
  <2> QED
    BY <1>5, <2>1, <2>2, <2>3
<1>6. CASE x # c \/ y # q
  BY <1>3, <1>4, <1>6
<1> QED
  BY <1>5, <1>6

\* A poll takes from the completion queue and decides the status of its own work only, once.
LEMMA PollStatus ==
  ASSUME TypeOK, NEW w \in WRs, NEW ret \in Returned, poll(w, ret)
  PROVE  /\ cq' \subseteq cq
         /\ \A v \in WRs : v # w \/ status[v] # "none" => status'[v] = status[v]
         /\ ret \in Results => status'[w] = ret
<1> USE DEF TypeOK, cqVars, MaybeResult, Results
<1>1. CASE status[w] # "none"
  BY <1>1 DEF poll
<1>2. CASE status[w] = "none" /\ cache[w] # "none"
  BY <1>2 DEF poll, consume_cache
<1>3. CASE status[w] = "none" /\ cache[w] = "none"
  <2>1. CASE ret = "ibv_error" /\ UNCHANGED <<cq, cache, status>>
    BY <2>1
  <2>2. ASSUME NEW S \in PolledCompletions(w[1]), cq' = cq \ S, ret = update(S)[w],
               status' = [status EXCEPT ![w] = update(S)[w]]
        PROVE  /\ cq' \subseteq cq
               /\ \A v \in WRs : v # w \/ status[v] # "none" => status'[v] = status[v]
               /\ ret \in Results => status'[w] = ret
    BY <1>3, <2>2
  <2>3. ASSUME NEW S \in PolledCompletions(w[1]), cq' = cq \ S, ret = "pending", status' = status
        PROVE  /\ cq' \subseteq cq
               /\ \A v \in WRs : v # w \/ status[v] # "none" => status'[v] = status[v]
               /\ ret \in Results => status'[w] = ret
    BY <2>3
  <2> QED
    BY <1>3, <2>1, <2>2, <2>3 DEF poll, consume_cache
<1> QED
  BY <1>1, <1>2, <1>3

\* A completion that finds the queue full is of a work beyond the ones queued, and all of
\* them have a slot of the send queue or of the receive queue.
LEMMA OverrunNeedsRoom ==
  ASSUME TypeOK, CompletionInv, CapacityInv, NEW w \in WRs, nic[w] = "flying",
         Cardinality(InCq(w[1])) >= MinCqEntries
  PROVE  MinCqEntries < MaxSendWr + MaxRecvWr
<1> DEFINE c == w[1]
           A == Outstanding(c, "sq")
           B == Outstanding(c, "rq")
           Q == InCq(c)
<1>1. c \in Channels
  BY DEF WRs
<1>2. w \notin Q
  BY DEF CompletionInv, InCq, Results
<1>3. Q \cup {w} \in SUBSET (A \cup B)
  BY DEF TypeOK, InCq, Outstanding, Queues
<1>4. /\ IsFiniteSet(A) /\ Cardinality(A) <= MaxSendWr
      /\ IsFiniteSet(B) /\ Cardinality(B) <= MaxRecvWr
  BY <1>1 DEF CapacityInv, Queues, Depth
<1>5. Cardinality(Q) >= MinCqEntries
  OBVIOUS
<1> HIDE DEF A, B, Q, c
<1>6. IsFiniteSet(A \cup B) /\ IsFiniteSet(A \cap B)
      /\ Cardinality(A \cup B) = Cardinality(A) + Cardinality(B) - Cardinality(A \cap B)
  BY <1>4, FS_Union, FS_Intersection
<1>7. IsFiniteSet(Q \cup {w}) /\ Cardinality(Q \cup {w}) <= Cardinality(A \cup B)
  BY <1>3, <1>6, FS_Subset
<1>8. IsFiniteSet(Q)
  BY <1>7, FS_Subset
<1>9. Cardinality(Q \cup {w}) = Cardinality(Q) + 1
  BY <1>2, <1>8, FS_AddElement
<1>10. /\ Cardinality(A) \in Nat /\ Cardinality(B) \in Nat /\ Cardinality(A \cap B) \in Nat
       /\ Cardinality(Q) \in Nat
  BY <1>4, <1>6, <1>8, FS_CardinalityType
<1> QED
  BY <1>4, <1>5, <1>6, <1>7, <1>9, <1>10, ConstantsAssumption

\* It holds of a channel just built.
LEMMA InitOInv == Init => OInv
<1> SUFFICES ASSUME Init PROVE OInv
  OBVIOUS
<1>1. CapacityInv
  <2>1. ASSUME NEW c \in Channels, NEW q \in Queues
        PROVE  Outstanding(c, q) = {} /\ 0 <= Depth(q)
    BY ConstantsAssumption DEF Outstanding, Init, Depth
  <2> QED
    BY <2>1, FS_EmptySet DEF CapacityInv
<1>2. HandleInv /\ OverrunInv
  BY DEF Init, HandleInv, OverrunInv
<1>3. OutcomeInv
  BY DEF Init, OutcomeInv, Left
<1>4. ResultInv
  BY DEF Init, ResultInv
<1> QED
  BY <1>1, <1>2, <1>3, <1>4 DEF OInv

\* Posting through a scope.
LEMMA ChannelPostOutcome ==
  ASSUME IInv, OInv, NEW c \in Channels, NEW q \in Queues, channel_post(c, q)
  PROVE  OInv'
<1> DEFINE w == <<c, next_wr_id[c]>>
<1>1. /\ w \in WRs
      /\ nic[w] = "none" /\ handle[w] = "none" /\ w \notin members
      /\ w \notin cq \cup lost /\ cache[w] = "none" /\ status[w] = "none"
      /\ \A k \in 1..Len(wrs) : wrs[k] # w
  BY FreshId DEF channel_post
<1>2. /\ phase = "closure" /\ spin = "none" /\ post(c, q, w) /\ w[1] = c
      /\ nic' = [nic EXCEPT ![w] = "flying"]
      /\ handle' = [handle EXCEPT ![w] = "scoped"]
      /\ wrs' = Append(wrs, w)
      /\ members' = members \cup {w}
      /\ UNCHANGED <<lost, cq, cache, status, user_polled, phase, mode, closure, auto_polled,
                     transport_errors, result, spin, cur, poll_errs>>
  BY DEF channel_post, post, cqVars, spinVars
<1> HIDE DEF w
<1>3. TypeOK /\ wrs \in Seq(WRs)
  BY DEF IInv, TypeOK
<1>4. CapacityInv' /\ OverrunInv'
  BY <1>1, <1>2, <1>3, CapacityPosted DEF OInv, OverrunInv
<1>5. /\ Len(wrs') = Len(wrs) + 1 /\ Len(wrs) \in Nat /\ wrs'[Len(wrs) + 1] = w
      /\ \A k \in 1..Len(wrs) : wrs'[k] = wrs[k] /\ wrs[k] \in WRs
  BY <1>1, <1>2, <1>3
<1>6. HandleInv'
  BY <1>1, <1>2, <1>3, <1>5 DEF OInv, HandleInv, TypeOK
<1>7. OutcomeInv'
  <2>1. \A v \in members' : handle'[v] = "scoped"
    BY <1>1, <1>2, <1>3 DEF OInv, OutcomeInv, TypeOK
  <2>2. \A k \in 1..Len(wrs') : wrs'[k] \in members'
    BY <1>2, <1>5 DEF OInv, OutcomeInv
  <2>3. ~auto_polled' /\ transport_errors' = {} /\ phase' = "closure" /\ spin' = "none"
    BY <1>2 DEF OInv, OutcomeInv
  <2> QED
    BY <2>1, <2>2, <2>3 DEF OutcomeInv, Handled, Left
<1>8. ResultInv'
  BY <1>2 DEF ResultInv
<1> QED
  BY <1>4, <1>6, <1>7, <1>8 DEF OInv

\* Posting outside a scope.
LEMMA PostUnpolledOutcome ==
  ASSUME IInv, OInv, NEW c \in Channels, NEW q \in Queues, post_unpolled(c, q)
  PROVE  OInv'
<1> DEFINE w == <<c, next_wr_id[c]>>
<1>1. /\ w \in WRs
      /\ nic[w] = "none" /\ handle[w] = "none" /\ w \notin members
      /\ w \notin cq \cup lost /\ cache[w] = "none" /\ status[w] = "none"
      /\ \A k \in 1..Len(wrs) : wrs[k] # w
  BY FreshId DEF post_unpolled
<1>2. /\ phase = "idle" /\ spin = "none" /\ post(c, q, w) /\ w[1] = c
      /\ nic' = [nic EXCEPT ![w] = "flying"]
      /\ handle' = [handle EXCEPT ![w] = "raw"]
      /\ UNCHANGED <<lost, cq, cache, status, user_polled, scopeVars, spin, cur, poll_errs>>
  BY DEF post_unpolled, post, cqVars, spinVars
<1> HIDE DEF w
<1> USE DEF scopeVars
<1>3. TypeOK
  BY DEF IInv
<1>4. CapacityInv' /\ OverrunInv'
  BY <1>1, <1>2, <1>3, CapacityPosted DEF OInv, OverrunInv
<1>5. HandleInv'
  BY <1>1, <1>2, <1>3 DEF OInv, HandleInv, TypeOK
<1>6. OutcomeInv'
  <2>1. \A v \in members : v # w /\ v \in WRs /\ handle'[v] = handle[v]
    BY <1>1, <1>2, <1>3 DEF TypeOK
  <2> QED
    BY <1>2, <2>1 DEF OInv, OutcomeInv, Handled, Left
<1>7. ResultInv'
  BY <1>2 DEF OInv, ResultInv, RunResult, RunManualResult
<1> QED
  BY <1>4, <1>5, <1>6, <1>7 DEF OInv

\* A step that touches none of it.
LEMMA QuietOutcome ==
  ASSUME OInv, UNCHANGED <<hwVars, cqVars, handleVars, scopeVars, spinVars, poll_errs>>
  PROVE  OInv'
<1> USE DEF hwVars, cqVars, handleVars, scopeVars, spinVars, OInv
<1>1. CapacityInv' /\ OverrunInv'
  BY CapacityQuiet DEF OverrunInv
<1>2. HandleInv' /\ ResultInv'
  BY DEF HandleInv, ResultInv, RunResult, RunManualResult
<1>3. OutcomeInv'
  BY DEF OutcomeInv, Handled, Left
<1> QED
  BY <1>1, <1>2, <1>3

\* A poll by the user: only a handle of the open scope is marked.
LEMMA UserPollOutcome ==
  ASSUME IInv, OInv, NEW w \in WRs, UserPoll(w)
  PROVE  OInv'
<1> PICK ret \in Returned : poll(w, ret) /\ MarkPolled(w, ret) /\ NotePollError(w, ret)
  BY DEF UserPoll
<1>1. /\ spin = "none"
      /\ UNCHANGED <<next_wr_id, hwVars, handle, borrowed, scopeVars, spinVars>>
      /\ \/ phase = "closure" /\ handle[w] = "scoped" /\ user_polled \subseteq user_polled'
         \/ handle[w] = "raw" /\ user_polled' = user_polled
  BY DEF UserPoll, MarkPolled, Usable
<1> USE DEF hwVars, scopeVars, spinVars, OInv
<1>2. TypeOK /\ poll_errs \subseteq poll_errs'
  BY DEF IInv, NotePollError
<1>3. /\ cq' \subseteq cq
      /\ \A v \in WRs : v # w \/ status[v] # "none" => status'[v] = status[v]
  BY <1>2, PollStatus
<1>4. CapacityInv' /\ OverrunInv'
  BY <1>1, <1>3, CapacityQuiet DEF OverrunInv
<1>5. HandleInv'
  BY <1>1, <1>2, <1>3 DEF HandleInv
<1>6. OutcomeInv'
  <2>1. members \subseteq WRs
    BY <1>2 DEF TypeOK
  <2>2. CASE phase = "closure"
    BY <1>1, <2>2 DEF OutcomeInv, Handled, Left
  <2>3. CASE handle[w] = "raw" /\ user_polled' = user_polled
    <3>1. \A v \in members : v # w /\ status'[v] = status[v]
      BY <1>3, <2>1, <2>3 DEF OutcomeInv
    <3> QED
      BY <1>1, <1>2, <2>3, <3>1 DEF OutcomeInv, Handled, Left
  <2> QED
    BY <1>1, <2>2, <2>3
<1>7. ResultInv'
  BY <1>1 DEF ResultInv, RunResult, RunManualResult
<1> QED
  BY <1>4, <1>5, <1>6, <1>7

\* Entering a spin loop.
LEMMA StartSpinOutcome ==
  ASSUME IInv, OInv, NEW w \in WRs, UserSpin(w) \/ DropRaw(w)
  PROVE  OInv'
<1>1. /\ \/ spin' = "user" /\ (handle[w] = "raw" \/ (handle[w] = "scoped" /\ phase = "closure"))
         \/ spin' = "drop" /\ handle[w] = "raw"
      /\ cur' = w /\ spin = "none"
      /\ UNCHANGED <<next_wr_id, hwVars, cqVars, handleVars, scopeVars, poll_errs>>
  BY DEF UserSpin, DropRaw, Usable
<1> USE DEF hwVars, cqVars, handleVars, scopeVars, OInv
<1>2. CapacityInv' /\ OverrunInv'
  BY <1>1, CapacityQuiet DEF OverrunInv
<1>3. HandleInv' /\ ResultInv'
  BY <1>1 DEF HandleInv, ResultInv, RunResult, RunManualResult
<1>4. OutcomeInv'
  <2>1. spin' = "drop" => w \notin members
    BY <1>1 DEF OutcomeInv
  <2> QED
    BY <1>1, <2>1 DEF OutcomeInv, Handled, Left
<1> QED
  BY <1>2, <1>3, <1>4

\* An iteration of a spin loop.
LEMMA SpinAgainOutcome ==
  ASSUME IInv, OInv, SpinAgain
  PROVE  OInv'
<1>1. /\ cur \in WRs /\ spin # "none" /\ poll(cur, "pending")
      /\ UNCHANGED <<next_wr_id, hwVars, handleVars, scopeVars, spinVars, poll_errs>>
  BY DEF SpinAgain, IInv, SpinInv
<1> USE DEF hwVars, handleVars, scopeVars, spinVars, OInv
<1>2. TypeOK /\ members \subseteq WRs
  BY DEF IInv, TypeOK
<1>3. /\ cq' \subseteq cq
      /\ \A v \in WRs : v # cur \/ status[v] # "none" => status'[v] = status[v]
  BY <1>1, <1>2, PollStatus DEF Returned
<1>4. CapacityInv' /\ OverrunInv'
  BY <1>1, <1>3, CapacityQuiet DEF OverrunInv
<1>5. HandleInv' /\ ResultInv'
  BY <1>1, <1>3 DEF HandleInv, ResultInv, RunResult, RunManualResult
<1>6. \A v \in members : status[v] # "none" => status'[v] = status[v]
  BY <1>2, <1>3
<1>7. OutcomeInv'
  BY <1>1, <1>6 DEF OutcomeInv, Handled, Left
<1> QED
  BY <1>4, <1>5, <1>7

\* The user's spin_poll returns.
LEMMA SpinUserDoneOutcome ==
  ASSUME IInv, OInv, SpinUserDone
  PROVE  OInv'
<1>1. cur \in WRs /\ spin = "user"
  BY DEF SpinUserDone, IInv, SpinInv
<1> PICK ret \in Returned \ {"pending"} :
          poll(cur, ret) /\ MarkPolled(cur, ret) /\ NotePollError(cur, ret)
  BY DEF SpinUserDone
<1>2. /\ spin' = "none" /\ cur' = NoWr
      /\ UNCHANGED <<next_wr_id, hwVars, handle, borrowed, scopeVars>>
  BY DEF SpinUserDone
<1> USE DEF hwVars, scopeVars, OInv
<1>3. \/ phase = "closure" /\ handle[cur] = "scoped" /\ user_polled \subseteq user_polled'
      \/ handle[cur] = "raw" /\ user_polled' = user_polled
  BY <1>1 DEF OutcomeInv, MarkPolled
<1>4. TypeOK /\ poll_errs \subseteq poll_errs'
  BY DEF IInv, NotePollError
<1>5. /\ cq' \subseteq cq
      /\ \A v \in WRs : v # cur \/ status[v] # "none" => status'[v] = status[v]
  BY <1>1, <1>4, PollStatus
<1>6. CapacityInv' /\ OverrunInv'
  BY <1>2, <1>5, CapacityQuiet DEF OverrunInv
<1>7. HandleInv'
  BY <1>2, <1>4, <1>5 DEF HandleInv
<1>8. OutcomeInv'
  <2>1. members \subseteq WRs
    BY <1>4 DEF TypeOK
  <2>2. CASE phase = "closure"
    BY <1>2, <1>3, <2>2 DEF OutcomeInv, Handled, Left
  <2>3. CASE handle[cur] = "raw" /\ user_polled' = user_polled
    <3>1. \A v \in members : v # cur /\ status'[v] = status[v]
      BY <1>5, <2>1, <2>3 DEF OutcomeInv
    <3> QED
      BY <1>1, <1>2, <1>4, <2>3, <3>1 DEF OutcomeInv, Handled, Left
  <2> QED
    BY <1>3, <2>2, <2>3
<1>9. ResultInv'
  BY <1>2 DEF ResultInv, RunResult, RunManualResult
<1> QED
  BY <1>6, <1>7, <1>8, <1>9

\* A scope is opened: the last one has left no handle behind.
LEMMA OpenScopeOutcome ==
  ASSUME IInv, OInv, NEW m \in {"auto", "manual"}, OpenScope(m)
  PROVE  OInv'
<1>1. /\ phase = "idle" /\ spin = "none"
      /\ phase' = "closure" /\ wrs' = << >> /\ members' = {}
      /\ auto_polled' = FALSE /\ transport_errors' = {} /\ result' = "none"
      /\ UNCHANGED <<next_wr_id, hwVars, cqVars, handleVars, spinVars, poll_errs>>
  BY DEF OpenScope
<1> USE DEF hwVars, cqVars, handleVars, spinVars, OInv
<1>2. CapacityInv' /\ OverrunInv'
  BY <1>1, CapacityQuiet DEF OverrunInv
<1>3. HandleInv' /\ ResultInv'
  BY <1>1 DEF HandleInv, ResultInv
<1>4. OutcomeInv'
  BY <1>1 DEF OutcomeInv, Handled, Left
<1> QED
  BY <1>2, <1>3, <1>4

\* The closure ends.
LEMMA ClosureEndsOutcome ==
  ASSUME IInv, OInv, NEW out \in {"ok", "err", "panic"}, ClosureEnds(out)
  PROVE  OInv'
<1>1. /\ spin = "none" /\ phase = "closure" /\ closure' = out /\ phase' = "auto_poll"
      /\ UNCHANGED <<next_wr_id, hwVars, cqVars, handleVars, mode, wrs, members,
                     auto_polled, transport_errors, result, spinVars, poll_errs>>
  BY DEF ClosureEnds
<1> USE DEF hwVars, cqVars, handleVars, spinVars, OInv
<1>2. CapacityInv' /\ OverrunInv'
  BY <1>1, CapacityQuiet DEF OverrunInv
<1>3. HandleInv' /\ ResultInv'
  BY <1>1 DEF HandleInv, ResultInv
<1>4. OutcomeInv'
  BY <1>1 DEF OutcomeInv, Handled, Left
<1> QED
  BY <1>2, <1>3, <1>4

\* auto_poll takes its next handle: one the user left to it makes auto_polled true.
LEMMA AutoPollNextOutcome ==
  ASSUME IInv, OInv, AutoPollNext
  PROVE  OInv'
<1>1. /\ phase = "auto_poll" /\ spin = "none" /\ wrs # << >> /\ cur' = Head(wrs)
      /\ UNCHANGED <<next_wr_id, hwVars, cqVars, handleVars, phase, mode, wrs, members,
                     closure, transport_errors, result, poll_errs>>
  BY DEF AutoPollNext
<1> USE DEF hwVars, cqVars, handleVars, OInv
<1>2. Head(wrs) \in members /\ handle[Head(wrs)] = "scoped"
  BY <1>1 DEF IInv, TypeOK, ScopeInv, OutcomeInv
<1>3. CapacityInv' /\ OverrunInv'
  BY <1>1, CapacityQuiet DEF OverrunInv
<1>4. HandleInv' /\ ResultInv'
  BY <1>1 DEF HandleInv, ResultInv
<1>5. OutcomeInv'
  <2>1. CASE Head(wrs) \in user_polled
    <3>1. spin' = "drop" /\ auto_polled' = auto_polled
      BY <2>1 DEF AutoPollNext
    <3> QED
      BY <1>1, <1>2, <2>1, <3>1 DEF OutcomeInv, Handled, Left
  <2>2. CASE Head(wrs) \notin user_polled
    <3>1. spin' = "auto" /\ auto_polled' = TRUE
      BY <2>2 DEF AutoPollNext
    <3>2. Left' = Left /\ Head(wrs) \in Left
      BY <1>1, <1>2, <2>2 DEF Left
    <3> QED
      BY <1>1, <1>2, <2>2, <3>1, <3>2 DEF OutcomeInv, Handled
  <2> QED
    BY <2>1, <2>2
<1> QED
  BY <1>3, <1>4, <1>5

\* auto_poll's spin_poll returns: a success or a recorded error.
LEMMA SpinAutoDoneOutcome ==
  ASSUME IInv, OInv, SpinAutoDone
  PROVE  OInv'
<1>1. /\ cur \in WRs /\ spin = "auto" /\ phase = "auto_poll" /\ wrs # << >> /\ cur = Head(wrs)
  BY DEF SpinAutoDone, IInv, SpinInv
<1> PICK ret \in Returned \ {"pending"} :
          /\ poll(cur, ret) /\ NotePollError(cur, ret)
          /\ transport_errors' = IF ret = "success" THEN transport_errors
                                 ELSE transport_errors \cup {cur}
  BY DEF SpinAutoDone
<1>2. /\ spin' = "drop"
      /\ UNCHANGED <<cur, next_wr_id, hwVars, handleVars, phase, mode, wrs, members,
                     closure, auto_polled, result>>
  BY DEF SpinAutoDone
<1> USE DEF hwVars, handleVars, OInv
<1>3. TypeOK /\ members \subseteq WRs /\ poll_errs \subseteq poll_errs'
  BY DEF IInv, TypeOK, NotePollError
<1>4. /\ cq' \subseteq cq
      /\ \A v \in WRs : v # cur \/ status[v] # "none" => status'[v] = status[v]
      /\ ret \in Results => status'[cur] = ret
  BY <1>1, <1>3, PollStatus
<1>5. cur \in Left /\ handle[cur] = "scoped"
  BY <1>1 DEF IInv, TypeOK, ScopeInv, OutcomeInv, Left
<1>6. CapacityInv' /\ OverrunInv'
  BY <1>2, <1>4, CapacityQuiet DEF OverrunInv
<1>7. HandleInv' /\ ResultInv'
  BY <1>1, <1>2, <1>3, <1>4 DEF HandleInv, ResultInv
<1>8. OutcomeInv'
  <2>1. ret = "success" \/ ret = "error" \/ (ret = "ibv_error" /\ cur \in poll_errs')
    BY DEF Returned, Results, NotePollError
  <2>2. Left' = Left
    BY <1>2 DEF Left
  <2>3. transport_errors \subseteq transport_errors' /\ transport_errors' \subseteq Left
    BY <1>5 DEF OutcomeInv
  <2>4. \A v \in transport_errors' : status'[v] = "error" \/ v \in poll_errs'
    <3> TAKE v \in transport_errors'
    <3>1. CASE v \in transport_errors
      BY <1>3, <1>4, <3>1, <2>3 DEF OutcomeInv, Left
    <3>2. CASE v \notin transport_errors
      <4>1. v = cur /\ ret # "success"
        BY <3>2
      <4> QED
        BY <1>4, <2>1, <4>1 DEF Results
    <3> QED
      BY <3>1, <3>2
  <2>5. \A v \in Left : Handled(v)' => status'[v] = "success" \/ v \in transport_errors'
    <3> SUFFICES ASSUME NEW v \in Left, Handled(v)', v \notin transport_errors'
                 PROVE  status'[v] = "success"
      OBVIOUS
    <3>1. CASE v = cur
      <4>1. ret = "success"
        BY <3>1
      <4> QED
        BY <1>4, <3>1, <4>1 DEF Results
    <3>2. CASE v # cur
      <4>1. v \in WRs /\ Handled(v) /\ v \notin transport_errors
        BY <1>2, <1>3, <2>3, <3>2 DEF Handled, Left
      <4> QED
        BY <1>4, <4>1 DEF OutcomeInv
    <3> QED
      BY <3>1, <3>2
  <2>6. auto_polled
    BY <1>1, <1>5 DEF OutcomeInv
  <2> QED
    BY <1>1, <1>2, <1>5, <2>2, <2>3, <2>4, <2>5, <2>6 DEF OutcomeInv
<1> QED
  BY <1>6, <1>7, <1>8

\* The end of a Drop.
LEMMA DropDoneOutcome ==
  ASSUME IInv, OInv, DropDone
  PROVE  OInv'
<1>1. cur \in WRs /\ spin = "drop"
  BY DEF DropDone, IInv, SpinInv
<1> PICK ret \in Returned \ {"pending"} : poll(cur, ret) /\ NotePollError(cur, ret)
  BY DEF DropDone
<1>2. /\ handle' = [handle EXCEPT ![cur] = "dropped"]
      /\ spin' = "none" /\ cur' = NoWr
      /\ UNCHANGED <<next_wr_id, hwVars, user_polled, phase, mode, members, closure,
                     auto_polled, transport_errors, result>>
  BY DEF DropDone
<1> USE DEF hwVars, OInv
<1>3. TypeOK /\ members \subseteq WRs /\ poll_errs \subseteq poll_errs' /\ wrs \in Seq(WRs)
  BY DEF IInv, TypeOK, NotePollError
<1>4. /\ cq' \subseteq cq
      /\ \A v \in WRs : v # cur \/ status[v] # "none" => status'[v] = status[v]
      /\ ret \in Results => status'[cur] = ret
  BY <1>1, <1>3, PollStatus
<1>5. status'[cur] # "none" \/ cur \in poll_errs'
  <2>1. ret \in Results \/ ret = "ibv_error"
    BY DEF Returned
  <2>2. "none" \notin Results
    BY DEF Results
  <2> QED
    BY <1>4, <2>1, <2>2 DEF NotePollError
<1>6. /\ handle'[cur] = "dropped" /\ \A v \in WRs : v # cur => handle'[v] = handle[v]
  BY <1>1, <1>2, <1>3 DEF TypeOK
<1>7. CapacityInv' /\ OverrunInv'
  BY <1>2, <1>4, CapacityQuiet DEF OverrunInv
<1>8. ResultInv'
  BY <1>2 DEF ResultInv, RunResult, RunManualResult
<1>9. /\ \A k \in 1..Len(wrs') : \E l \in 1..Len(wrs) : wrs'[k] = wrs[l]
      /\ \A l \in 1..Len(wrs) : wrs[l] # cur => \E k \in 1..Len(wrs') : wrs'[k] = wrs[l]
  <2>1. CASE handle[cur] = "raw"
    BY <2>1 DEF DropDone
  <2>2. CASE handle[cur] # "raw"
    <3>1. wrs' = Tail(wrs) /\ wrs # << >> /\ cur = Head(wrs)
      BY <1>1, <2>2 DEF DropDone, IInv, SpinInv
    <3>2. /\ Len(wrs') = Len(wrs) - 1 /\ Len(wrs) \in Nat /\ wrs[1] = cur
          /\ \A k \in 1..Len(wrs') : wrs'[k] = wrs[k + 1]
      BY <1>3, <3>1
    <3>3. \A k \in 1..Len(wrs') : k + 1 \in 1..Len(wrs)
      BY <3>2
    <3>4. ASSUME NEW l \in 1..Len(wrs), wrs[l] # cur
          PROVE  \E k \in 1..Len(wrs') : wrs'[k] = wrs[l]
      <4>1. l - 1 \in 1..Len(wrs') /\ (l - 1) + 1 = l
        BY <3>2, <3>4
      <4>2. wrs'[l - 1] = wrs[(l - 1) + 1]
        BY <3>2, <4>1
      <4>3. wrs'[l - 1] = wrs[l]
        BY <4>1, <4>2
      <4> QED
        BY <4>1, <4>3
    <3> QED
      BY <3>2, <3>3, <3>4
  <2> QED
    BY <2>1, <2>2
<1>10. HandleInv'
  <2> SUFFICES ASSUME NEW v \in WRs
               PROVE  /\ handle'[v] = "none" => nic[v] = "none"
                      /\ handle'[v] = "scoped" => phase # "idle" /\ \E k \in 1..Len(wrs') : wrs'[k] = v
                      /\ handle'[v] = "dropped" => status'[v] # "none" \/ v \in poll_errs'
    BY <1>2 DEF HandleInv
  <2>1. CASE v = cur
    BY <1>5, <1>6, <2>1
  <2>2. CASE v # cur
    <3>1. handle'[v] = handle[v] /\ status'[v] = status[v]
      BY <1>4, <1>6, <2>2
    <3>2. handle[v] = "scoped" => \E k \in 1..Len(wrs') : wrs'[k] = v
      BY <1>9, <2>2 DEF HandleInv
    <3> QED
      BY <1>3, <3>1, <3>2 DEF HandleInv
  <2> QED
    BY <2>1, <2>2
<1>11. OutcomeInv'
  <2>1. Left' = Left /\ Left \subseteq WRs
    BY <1>2, <1>3 DEF Left
  <2>2. \A v \in members : handle'[v] \in {"scoped", "dropped"}
    BY <1>3, <1>6 DEF OutcomeInv
  <2>3. \A k \in 1..Len(wrs') : wrs'[k] \in members
    BY <1>9 DEF OutcomeInv
  <2>4. \A v \in transport_errors : status'[v] = "error" \/ v \in poll_errs'
    BY <1>3, <1>4, <2>1 DEF OutcomeInv
  <2>5. \A v \in Left : Handled(v)' => status'[v] = "success" \/ v \in transport_errors
    <3> SUFFICES ASSUME NEW v \in Left, Handled(v)', v \notin transport_errors
                 PROVE  status'[v] = "success"
      OBVIOUS
    <3>1. Handled(v)
      BY <1>1, <1>2, <1>6, <2>1 DEF Handled
    <3> QED
      BY <1>4, <2>1, <3>1 DEF OutcomeInv
  <2>6. ~auto_polled => \A v \in Left : handle'[v] = "scoped"
    BY <1>1, <1>6, <2>1 DEF OutcomeInv
  <2>7. phase = "closure" => \A v \in members : handle'[v] = "scoped"
    <3>1. phase = "closure" => handle[cur] = "raw"
      BY <1>1 DEF IInv, SpinInv
    <3> QED
      BY <1>3, <1>6, <3>1 DEF OutcomeInv
  <2> QED
    BY <1>2, <2>1, <2>2, <2>3, <2>4, <2>5, <2>6, <2>7 DEF OutcomeInv
<1> QED
  BY <1>7, <1>8, <1>10, <1>11

\* The scope returns.
LEMMA ScopeReturnsOutcome ==
  ASSUME IInv, OInv, ScopeReturns
  PROVE  OInv'
<1>1. /\ phase = "auto_poll" /\ wrs = << >> /\ spin = "none"
      /\ phase' = "idle"
      /\ result' = IF mode = "auto" THEN RunResult ELSE RunManualResult
      /\ UNCHANGED <<next_wr_id, hwVars, cqVars, handle, user_polled, mode, wrs,
                     members, closure, auto_polled, transport_errors, spinVars,
                     poll_errs>>
  BY DEF ScopeReturns
<1> USE DEF hwVars, cqVars, spinVars, OInv
<1>2. CapacityInv' /\ OverrunInv'
  BY <1>1, CapacityQuiet DEF OverrunInv
<1>3. HandleInv'
  BY <1>1 DEF HandleInv
<1>4. OutcomeInv'
  BY <1>1 DEF OutcomeInv, Handled, Left
<1>5. ResultInv'
  BY <1>1 DEF ResultInv, RunResult, RunManualResult, OutcomeInv
<1> QED
  BY <1>2, <1>3, <1>4, <1>5

\* The NIC finishes a work: it stays outstanding until its completion is polled.
LEMMA NicCompletesOutcome ==
  ASSUME IInv, OInv, NEW w \in WRs, NEW r \in Results, NicCompletes(w, r)
  PROVE  OInv'
<1>1. /\ nic[w] = "flying" /\ nic' = [nic EXCEPT ![w] = r]
      /\ \/ cq' = cq \cup {w} /\ lost' = lost
         \/ /\ Overrun(w[1]) \/ Cardinality(InCq(w[1])) >= MinCqEntries
            /\ lost' = lost \cup {w} /\ cq' = cq
      /\ UNCHANGED <<next_wr_id, queue, cache, status, handleVars, scopeVars,
                     spinVars, poll_errs>>
  BY DEF NicCompletes
<1> USE DEF handleVars, scopeVars, spinVars, OInv
<1>2. TypeOK
  BY DEF IInv
<1>3. \A c \in Channels, q \in Queues : Outstanding(c, q)' \subseteq Outstanding(c, q)
  BY <1>1, <1>2 DEF Outstanding, TypeOK
<1>4. CapacityInv'
  BY <1>3, CapacityKept
<1>5. HandleInv'
  BY <1>1, <1>2 DEF HandleInv, TypeOK
<1>6. OutcomeInv' /\ ResultInv'
  BY <1>1 DEF OutcomeInv, Handled, Left, ResultInv, RunResult, RunManualResult
<1>7. OverrunInv'
  <2>1. lost # {} \/ Cardinality(InCq(w[1])) >= MinCqEntries => MinCqEntries < MaxSendWr + MaxRecvWr
    BY <1>1, <1>2, OverrunNeedsRoom DEF IInv, OverrunInv
  <2> QED
    BY <1>1, <2>1 DEF OverrunInv, Overrun
<1> QED
  BY <1>4, <1>5, <1>6, <1>7

\* Every step preserves it.
LEMMA NextOInv == IInv /\ OInv /\ [Next]_vars => OInv'
<1> SUFFICES ASSUME IInv, OInv, [Next]_vars PROVE OInv'
  OBVIOUS
<1>1. CASE Posting
  <2>1. ASSUME NEW c \in Channels, NEW q \in Queues, channel_post(c, q) PROVE OInv'
    BY <2>1, ChannelPostOutcome
  <2>2. ASSUME NEW c \in Channels, NEW q \in Queues, post_unpolled(c, q) PROVE OInv'
    BY <2>2, PostUnpolledOutcome
  <2>3. ASSUME NEW c \in Channels, PostRefused(c) PROVE OInv'
    BY <2>3, QuietOutcome DEF PostRefused
  <2> QED
    BY <1>1, <2>1, <2>2, <2>3
    DEF Posting, channel_post_send, channel_post_receive, channel_post_write,
        channel_post_read, Queues
<1>2. CASE Handles
  BY <1>2, UserPollOutcome, StartSpinOutcome DEF Handles
<1>3. CASE \E m \in {"auto", "manual"} : OpenScope(m)
  BY <1>3, OpenScopeOutcome
<1>4. CASE \E out \in {"ok", "err", "panic"} : ClosureEnds(out)
  BY <1>4, ClosureEndsOutcome
<1>5. CASE Library
  BY <1>5, SpinAgainOutcome, SpinUserDoneOutcome, AutoPollNextOutcome, SpinAutoDoneOutcome,
     DropDoneOutcome, ScopeReturnsOutcome DEF Library
<1>6. CASE \E w \in WRs, r \in Results : NicCompletes(w, r)
  BY <1>6, NicCompletesOutcome
<1>7. CASE UNCHANGED vars
  BY <1>7, QuietOutcome DEF vars
<1> QED
  BY <1>1, <1>2, <1>3, <1>4, <1>5, <1>6, <1>7 DEF Next

\* The second invariant holds in every behaviour.
LEMMA OutcomeInvariantHolds == Spec => []OInv
  BY InitOInv, NextOInv, InvariantHolds, PTL DEF Spec

\* CachedCompletionQueue and PendingWork neither lose nor duplicate a completion, and the
\* hardware loses one only to a min_cq_entries below max_send_wr + max_recv_wr.
THEOREM CompletionsConserved == Spec => []CompletionConserved
<1>1. IInv /\ OInv => CompletionConserved
  <2> SUFFICES ASSUME IInv, OInv, NEW w \in WRs
               PROVE  /\ Finished(w) =>
                           \/ w \in cq /\ cache[w] = "none" /\ status[w] = "none"
                           \/ w \notin cq /\ cache[w] # "none" /\ status[w] = "none"
                           \/ w \notin cq /\ cache[w] = "none" /\ status[w] # "none"
                           \/ /\ w \notin cq /\ cache[w] = "none" /\ status[w] = "none"
                              /\ w \in lost
                      /\ w \in lost => status[w] = "none" /\ MinCqEntries < MaxSendWr + MaxRecvWr
    BY DEF CompletionConserved
  <2>1. w \in lost => status[w] = "none" /\ MinCqEntries < MaxSendWr + MaxRecvWr
    BY DEF IInv, CompletionInv, OInv, OverrunInv
  <2> QED
    BY <2>1 DEF IInv, CompletionInv, Finished
<1> QED
  BY <1>1, InvariantHolds, OutcomeInvariantHolds, PTL

\* No completion is left behind in the queue or the cache once the scopes are closed and
\* the raw handles dropped, but for works whose polling failed.
THEOREM NoCompletionLeaks == Spec => []CacheDrained
<1>1. IInv /\ OInv => CacheDrained
  <2> SUFFICES ASSUME IInv, OInv, phase = "idle", NEW w \in WRs \ poll_errs, handle[w] # "raw"
               PROVE  w \notin cq /\ cache[w] = "none"
    BY DEF CacheDrained
  <2>1. handle[w] = "none" \/ handle[w] = "dropped"
    BY DEF IInv, TypeOK, OInv, HandleInv
  <2>2. nic[w] = "none" \/ status[w] # "none"
    BY <2>1 DEF OInv, HandleInv
  <2>3. cache[w] \in MaybeResult
    BY DEF IInv, TypeOK
  <2> QED
    BY <2>2, <2>3 DEF IInv, CompletionInv, MaybeResult, Results
<1> QED
  BY <1>1, InvariantHolds, OutcomeInvariantHolds, PTL

\* What run and run_manual return is what happened in the closure and in auto_poll.
THEOREM ScopeReportsOutcome == Spec => []ScopeOutcome
<1>1. IInv /\ OInv => ScopeOutcome
  <2> SUFFICES ASSUME IInv, OInv, phase = "idle", result # "none"
               PROVE  LET failed == {w \in Left : status[w] = "error"}
                      IN  /\ closure = "panic" <=> result = "resumed_panic"
                          /\ closure = "err" <=> result \in {"ClosureError", "Err"}
                          /\ result = "Ok" /\ mode = "auto" => \A w \in Left : status[w] = "success"
                          /\ result = "Ok" /\ mode = "manual" => Left = {}
                          /\ result = "unpolled_panic" => Left # {}
                          /\ result = "AutoPollError" => transport_errors # {}
                          /\ failed \subseteq transport_errors
                          /\ transport_errors \subseteq failed \cup (Left \cap poll_errs)
    BY DEF ScopeOutcome, Left
  <2>1. /\ closure \in {"ok", "err", "panic"} /\ mode \in {"auto", "manual"}
        /\ result = IF mode = "auto" THEN RunResult ELSE RunManualResult
    BY DEF OInv, ResultInv, IInv, TypeOK
  <2>2. \A w \in Left : handle[w] = "dropped" /\ Handled(w)
    BY DEF OInv, OutcomeInv, HandleInv, Left, Handled, IInv, TypeOK
  <2>3. \A w \in Left : status[w] = "success" \/ w \in transport_errors
    BY <2>2 DEF OInv, OutcomeInv
  <2>4. ~auto_polled => Left = {}
    BY <2>2 DEF OInv, OutcomeInv
  <2>5. /\ auto_polled => Left # {}
        /\ transport_errors \subseteq Left
        /\ \A w \in transport_errors : status[w] = "error" \/ w \in poll_errs
    BY DEF OInv, OutcomeInv
  <2>6. CASE mode = "auto"
    <3>1. result = RunResult
      BY <2>1, <2>6
    <3> QED
      BY <2>1, <2>3, <2>5, <2>6, <3>1 DEF RunResult
  <2>7. CASE mode = "manual"
    <3>1. result = RunManualResult
      BY <2>1, <2>7
    <3> QED
      BY <2>1, <2>3, <2>4, <2>5, <2>7, <3>1 DEF RunManualResult
  <2> QED
    BY <2>1, <2>6, <2>7
<1> QED
  BY <1>1, InvariantHolds, OutcomeInvariantHolds, PTL
=============================================================================
