------------------------ MODULE CollectiveOpsProofs -------------------------
(***************************************************************************)
(* What the collective operations answer and leave behind, for any number   *)
(* of channels, ids and peers.  Their steps are steps of the scopes and     *)
(* handles they are built from, so that the invariant of PollingScopeProofs *)
(* carries over; what they answer is proved from their own invariant.       *)
(***************************************************************************)
EXTENDS CollectiveOps, PollingScopeProofs

CallInv == IInv /\ CallTypeOK

\* A call opens a manual scope, or changes nothing of the scopes.
LEMMA CallMaps == NodeCall => [Next]_vars
<1>1. ASSUME NEW q, NEW ps, blocking(q, ps)
      PROVE  Next
  BY <1>1 DEF blocking, Next
<1>2. ASSUME NEW q, NEW ps, unpolled(q, ps)
      PROVE  UNCHANGED vars
  BY <1>2 DEF unpolled
<1>3. ASSUME NEW q, NEW p, blocking_one(q, p)
      PROVE  [Next]_vars
  BY <1>1, <1>3 DEF blocking_one
<1> QED
  BY <1>1, <1>2, <1>3
     DEF NodeCall, NodeCollectiveCall, NodeChannelCall, CollectiveCall, ChannelCall,
         scatter_send, scatter_write, gather_receive, gather_read,
         multicast_send, scatter_send_unpolled, scatter_write_unpolled,
         gather_receive_unpolled, gather_read_unpolled, multicast_send_unpolled

\* The next handle of a call is the handle of a work that exists.
LEMMA NextHandleExists ==
  ASSUME CallTypeOK, taken < Len(posted)
  PROVE  NextHandle \in WRs
  BY DEF CallTypeOK, NextHandle

\* What a call does between its beginning and its end is done by the scopes.
LEMMA StepMaps ==
  ASSUME CallTypeOK, CallSteps
  PROVE  [Next]_vars
<1>1. ASSUME post_next PROVE Next
  <2>1. kind \in Queues
    BY DEF CallTypeOK
  <2>2. ASSUME channel_post(NextPeer, kind), NextPeer \in Channels PROVE Next
    BY <2>1, <2>2 DEF Next, Posting, channel_post_send, channel_post_receive, Queues
  <2>3. ASSUME post_unpolled(NextPeer, kind), NextPeer \in Channels PROVE Next
    BY <2>1, <2>3 DEF Next, Posting
  <2> QED
    BY <1>1, <2>2, <2>3 DEF post_next
<1>2. ASSUME post_fails PROVE [Next]_vars
  BY <1>2 DEF post_fails, Next, Posting
<1>3. ASSUME spin_next PROVE Next
  BY <1>3, NextHandleExists DEF spin_next, Next, Handles
<1>4. ASSUME drop_next PROVE Next
  BY <1>4, NextHandleExists DEF drop_next, Next, Handles
<1>5. ASSUME spin_done \/ auto_poll \/ blocking_returns \/ drop_done \/ SpinAgain PROVE Next
  BY <1>5 DEF spin_done, auto_poll, blocking_returns, drop_done, Next, Library
<1>6. ASSUME closure_done PROVE Next
  BY <1>6 DEF closure_done, Next
<1>7. ASSUME unpolled_returns PROVE UNCHANGED vars
  BY <1>7 DEF unpolled_returns
<1> QED
  BY <1>1, <1>2, <1>3, <1>4, <1>5, <1>6, <1>7 DEF CallSteps

\* Every step of the collective operations is a step of the scopes, or a stutter.
LEMMA NextMaps == CallInv /\ [CollectiveNext]_allVars => [Next]_vars
<1> SUFFICES ASSUME CallInv, [CollectiveNext]_allVars PROVE [Next]_vars
  OBVIOUS
<1>1. CASE NodeCall
  BY <1>1, CallMaps
<1>2. CASE CallSteps
  BY <1>2, StepMaps DEF CallInv
<1>3. CASE RawHandles
  BY <1>3 DEF RawHandles, Next, Handles, Library
<1>4. CASE Hardware
  BY <1>4 DEF Hardware, Next
<1>5. CASE UNCHANGED allVars
  BY <1>5 DEF allVars
<1> QED
  BY <1>1, <1>2, <1>3, <1>4, <1>5 DEF CollectiveNext

\* A new call starts with well-typed variables.
LEMMA CallKeepsTypes ==
  ASSUME CallTypeOK, NodeCall
  PROVE  CallTypeOK'
<1>1. ASSUME NEW o \in {"polled", "unpolled"}, NEW q \in Queues,
             NEW ps \in Seq(Channels \cup {NoPeer}), Begin(o, q, ps)
      PROVE  CallTypeOK'
  <2>1. /\ op' = o /\ kind' = q /\ peers' = ps /\ posted' = << >> /\ taken' = 0
        /\ answer' = "running"
    BY <1>1 DEF Begin
  <2>2. failed' \in BOOLEAN
    BY <1>1, Zenon DEF Begin
  <2> QED
    BY <2>1, <2>2 DEF CallTypeOK
<1>2. ASSUME NEW ps \in PeerLists PROVE ps \in Seq(Channels \cup {NoPeer})
  BY <1>2, CollectiveAssumption DEF PeerLists
<1>3. "sq" \in Queues /\ "rq" \in Queues
  BY DEF Queues
<1>4. ASSUME NEW q \in Queues, NEW p \in Channels \cup {NoPeer}, blocking_one(q, p)
      PROVE  CallTypeOK'
  <2>1. CASE p \in Channels /\ blocking(q, <<p>>)
    <3>1. <<p>> \in Seq(Channels \cup {NoPeer})
      OBVIOUS
    <3>2. Begin("polled", q, <<p>>)
      BY <2>1 DEF blocking
    <3> QED
      BY <3>1, <3>2, <1>1
  <2>2. CASE ~(p \in Channels /\ blocking(q, <<p>>))
    <3>1. /\ op' = "polled" /\ kind' = q /\ peers' = <<p>> /\ posted' = << >>
          /\ taken' = 0 /\ answer' = "Err"
      BY <1>4, <2>2 DEF blocking_one
    <3>2. failed' \in BOOLEAN
      BY <1>4, <2>2, Zenon DEF blocking_one
    <3> QED
      BY <3>1, <3>2 DEF CallTypeOK
  <2> QED
    BY <2>1, <2>2
<1>5. ASSUME NEW ps \in PeerLists, NEW q \in Queues, blocking(q, ps) \/ unpolled(q, ps)
      PROVE  CallTypeOK'
  BY <1>1, <1>2, <1>5 DEF blocking, unpolled
<1>6. ASSUME NEW q \in Queues, NEW p \in Channels \cup {NoPeer}, unpolled(q, <<p>>)
      PROVE  CallTypeOK'
  <2>1. <<p>> \in Seq(Channels \cup {NoPeer})
    OBVIOUS
  <2> QED
    BY <2>1, <1>1, <1>6 DEF unpolled
<1> QED
  BY <1>3, <1>4, <1>5, <1>6
     DEF NodeCall, NodeCollectiveCall, NodeChannelCall, CollectiveCall, ChannelCall,
         scatter_send, scatter_write, gather_receive, gather_read,
         multicast_send, scatter_send_unpolled, scatter_write_unpolled,
         gather_receive_unpolled, gather_read_unpolled, multicast_send_unpolled

\* The work a call posts next exists: its id is below the bound.
LEMMA PostedExists ==
  ASSUME TypeOK, NEW c \in Channels, NEW q, channel_post(c, q) \/ post_unpolled(c, q)
  PROVE  <<c, next_wr_id[c]>> \in WRs
<1>1. next_wr_id[c] \in Nat /\ next_wr_id[c] < MaxWrId
  BY ConstantsAssumption DEF TypeOK, channel_post, post_unpolled
<1> QED
  BY <1>1, ConstantsAssumption DEF WRs

\* The steps of a call keep its variables well typed.
LEMMA StepKeepsTypes ==
  ASSUME TypeOK, TypeOK', CallTypeOK, CallSteps
  PROVE  CallTypeOK'
<1>1. ASSUME UNCHANGED callVars PROVE CallTypeOK'
  BY <1>1 DEF CallTypeOK, callVars
<1>2. ASSUME post_next PROVE CallTypeOK'
  <2>1. <<NextPeer, next_wr_id[NextPeer]>> \in WRs
    BY <1>2, PostedExists DEF post_next
  <2>2. posted' = Append(posted, <<NextPeer, next_wr_id[NextPeer]>>)
        /\ UNCHANGED <<op, kind, peers, taken, failed, answer>>
    BY <1>2 DEF post_next
  <2> QED
    BY <2>1, <2>2 DEF CallTypeOK
<1>3. ASSUME post_fails PROVE CallTypeOK'
  BY <1>3 DEF post_fails, CallTypeOK
<1>4. ASSUME spin_done PROVE CallTypeOK'
  <2>1. taken' = taken + 1 /\ UNCHANGED <<op, kind, peers, posted, answer>>
    BY <1>4 DEF spin_done
  <2>2. failed' \in BOOLEAN
    BY <1>4, Zenon DEF spin_done
  <2> QED
    BY <2>1, <2>2 DEF CallTypeOK
<1>5. ASSUME drop_done PROVE CallTypeOK'
  BY <1>5 DEF drop_done, CallTypeOK
<1>6. ASSUME blocking_returns PROVE CallTypeOK'
  BY <1>6 DEF blocking_returns, CallTypeOK, TypeOK
<1>7. ASSUME unpolled_returns PROVE CallTypeOK'
  BY <1>7 DEF unpolled_returns, CallTypeOK
<1> QED
  BY <1>1, <1>2, <1>3, <1>4, <1>5, <1>6, <1>7
     DEF CallSteps, spin_next, closure_done, auto_poll, drop_next

\* The invariant of the scopes and the types of the call are kept together.
LEMMA NextCallInv == CallInv /\ [CollectiveNext]_allVars => CallInv'
<1> SUFFICES ASSUME CallInv, [CollectiveNext]_allVars PROVE CallInv'
  OBVIOUS
<1>1. IInv'
  BY NextMaps, NextIInv DEF CallInv
<1>2. TypeOK /\ TypeOK'
  BY <1>1 DEF CallInv, IInv
<1>3. ASSUME UNCHANGED callVars PROVE CallTypeOK'
  BY <1>3 DEF CallInv, CallTypeOK, callVars
<1>4. CallTypeOK'
  <2>1. CASE NodeCall
    BY <2>1, CallKeepsTypes DEF CallInv
  <2>2. CASE CallSteps
    BY <2>2, <1>2, StepKeepsTypes DEF CallInv
  <2>3. CASE RawHandles \/ Hardware
    BY <2>3, <1>3 DEF RawHandles, Hardware
  <2>4. CASE UNCHANGED allVars
    BY <2>4, <1>3 DEF allVars
  <2> QED
    BY <2>1, <2>2, <2>3, <2>4 DEF CollectiveNext
<1> QED
  BY <1>1, <1>4 DEF CallInv

\* The invariant holds when nothing has been called.
LEMMA InitCallInv == CollectiveInit => CallInv
<1> SUFFICES ASSUME CollectiveInit PROVE CallInv
  OBVIOUS
<1>1. IInv
  BY InitIInv DEF CollectiveInit
<1>2. failed \in BOOLEAN
  BY Zenon DEF CollectiveInit
<1>3. CallTypeOK
  BY <1>2 DEF CollectiveInit, CallTypeOK, Queues
<1> QED
  BY <1>1, <1>3 DEF CallInv

\* The inductive invariant of the collective calls holds in every behaviour.
LEMMA CallInvHolds == CollectiveSpec => []CallInv
  BY InitCallInv, NextCallInv, PTL DEF CollectiveSpec

\* The variables of a call keep their types, for any list of peers.
THEOREM CallTypeCorrect == CollectiveSpec => []CallTypeOK
<1>1. CallInv => CallTypeOK
  BY DEF CallInv
<1> QED
  BY <1>1, CallInvHolds, PTL

\* The buffers of a collective operation stay borrowed while the NIC may use them,
\* wherever the operation stops: refused post, failed work, failed poll.
THEOREM CollectiveBuffersHeld == CollectiveSpec => []BuffersHeld
<1>1. CallInv => BuffersHeld
  BY DEF CallInv, IInv
<1> QED
  BY <1>1, CallInvHolds, PTL

-----------------------------------------------------------------------------
(* What the answers of the calls mean.                                     *)

InBlocking == Running /\ op = "polled"
InUnpolled == Running /\ op = "unpolled"

\* A scope is open exactly during a blocking call, and it is a manual one.
PhaseInv ==
  /\ InBlocking => phase \in {"closure", "auto_poll"} /\ mode = "manual"
  /\ ~InBlocking => phase = "idle"

\* The handles are those of the first peers, and are consumed in order.
PostedInv ==
  /\ taken <= Len(posted) /\ Len(posted) <= Len(peers)
  /\ \A k \in 1..Len(posted) : posted[k][1] = peers[k]

\* How far a blocking call has come: while nothing has failed, every handle it has
\* consumed is of a success, and its closure ends only after an error or the last handle.
BlockingInv ==
  InBlocking =>
    /\ \A k \in 1..Len(posted) : posted[k] \in members
    /\ \A w \in members : \E k \in 1..Len(posted) : posted[k] = w
    /\ ~failed => \A k \in 1..taken : posted[k] \in user_polled /\ status[posted[k]] = "success"
    /\ phase = "closure" => spin \in {"none", "user"}
    /\ spin = "user" => ~failed /\ AllPosted /\ taken < Len(posted) /\ cur = NextHandle
    /\ phase = "auto_poll" => \/ closure = "err" /\ failed
                              \/ closure = "ok" /\ ~failed /\ AllPosted /\ taken = Len(posted)

\* A failed unpolled call drops the handles it has, each after its work has finished.
UnpolledInv ==
  InUnpolled =>
    /\ spin \in {"none", "drop"}
    /\ spin = "drop" => failed /\ taken < Len(posted) /\ cur = NextHandle
    /\ \A k \in 1..taken : Finished(posted[k]) \/ posted[k] \in poll_errs

CInv ==
  /\ PhaseInv /\ PostedInv /\ BlockingInv /\ UnpolledInv
  /\ OkMeansAll /\ NoUnpolledPanic /\ ReturnsQuiet

\* No step takes a result back: an outcome of the NIC, the status of a handle, the mark
\* of a polled handle and the record of a failed poll are there to stay.
Persists ==
  /\ \A w \in WRs : nic[w] \in Results => nic'[w] = nic[w]
  /\ \A w \in WRs : status[w] # "none" => status'[w] = status[w]
  /\ user_polled \subseteq user_polled'
  /\ poll_errs \subseteq poll_errs'

\* Results persist while a handle is polled.
LEMMA PollPersists ==
  ASSUME TypeOK, NEW w \in WRs, NEW ret \in Returned, poll(w, ret),
         UNCHANGED nic, user_polled \subseteq user_polled',
         NotePollError(w, ret) \/ UNCHANGED poll_errs
  PROVE  Persists
<1>1. poll_errs \subseteq poll_errs'
  BY DEF NotePollError
<1>2. \A v \in WRs : status[v] # "none" => status'[v] = status[v]
  BY PollStatus
<1> QED
  BY <1>1, <1>2 DEF Persists

\* Results persist in every step of the scopes.
LEMMA NextPersists == IInv /\ [Next]_vars => Persists
<1> SUFFICES ASSUME IInv, [Next]_vars PROVE Persists
  OBVIOUS
<1>t. TypeOK /\ FreshInv /\ SpinInv
  BY DEF IInv
<1>1. ASSUME UNCHANGED <<nic, status, user_polled, poll_errs>> PROVE Persists
  BY <1>1 DEF Persists
<1>2. ASSUME NEW c \in Channels, NEW q, channel_post(c, q) \/ post_unpolled(c, q)
      PROVE  Persists
  <2> DEFINE w == <<c, next_wr_id[c]>>
  <2>1. w \in WRs
    BY <1>t, <1>2, PostedExists
  <2>2. next_wr_id[c] \in Nat
    BY <1>t, ConstantsAssumption DEF TypeOK
  <2>3. nic[w] = "none"
    BY <1>t, <2>1, <2>2 DEF FreshInv
  <2>4. nic' = [nic EXCEPT ![w] = "flying"]
        /\ UNCHANGED <<status, user_polled, poll_errs>>
    BY <1>2 DEF channel_post, post_unpolled, post, cqVars
  <2> QED
    BY <2>1, <2>3, <2>4, <1>t DEF Persists, TypeOK, Results
<1>3. CASE Posting
  BY <1>1, <1>2, <1>3
     DEF Posting, channel_post_send, channel_post_receive, channel_post_write,
         channel_post_read, PostRefused, hwVars, cqVars, handleVars
<1>4. ASSUME NEW w \in WRs, UserPoll(w) PROVE Persists
  <2>1. PICK ret \in Returned : poll(w, ret) /\ MarkPolled(w, ret) /\ NotePollError(w, ret)
    BY <1>4 DEF UserPoll
  <2>2. UNCHANGED nic /\ user_polled \subseteq user_polled'
    BY <1>4, <2>1 DEF UserPoll, hwVars, MarkPolled
  <2> QED
    BY <1>t, <2>1, <2>2, PollPersists
<1>5. CASE Handles
  BY <1>1, <1>4, <1>5 DEF Handles, UserSpin, DropRaw, hwVars, cqVars, handleVars
<1>6. CASE spin # "none" /\ SpinAgain
  <2>1. cur \in WRs
    BY <1>t, <1>6 DEF SpinInv
  <2>2. poll(cur, "pending") /\ UNCHANGED <<nic, user_polled, poll_errs>>
    BY <1>6 DEF SpinAgain, hwVars, handleVars
  <2> QED
    BY <1>t, <2>1, <2>2, PollPersists DEF Returned
<1>7. CASE spin # "none" /\ (SpinUserDone \/ SpinAutoDone \/ DropDone)
  <2>1. cur \in WRs
    BY <1>t, <1>7 DEF SpinInv
  <2>2. PICK ret \in Returned : poll(cur, ret) /\ NotePollError(cur, ret)
                                /\ (MarkPolled(cur, ret) \/ UNCHANGED user_polled)
    BY <1>7 DEF SpinUserDone, SpinAutoDone, DropDone, handleVars
  <2>3. UNCHANGED nic /\ user_polled \subseteq user_polled'
    BY <1>7, <2>2 DEF SpinUserDone, SpinAutoDone, DropDone, hwVars, MarkPolled
  <2> QED
    BY <1>t, <2>1, <2>2, <2>3, PollPersists
<1>8. CASE Library
  BY <1>1, <1>6, <1>7, <1>8
     DEF Library, SpinAgain, SpinUserDone, SpinAutoDone, DropDone, AutoPollNext, ScopeReturns,
         hwVars, cqVars, handleVars
<1>9. ASSUME NEW w \in WRs, NEW r \in Results, NicCompletes(w, r) PROVE Persists
  BY <1>9, <1>t DEF NicCompletes, Persists, TypeOK, Results, handleVars
<1>10. CASE \/ \E m \in {"auto", "manual"} : OpenScope(m)
            \/ \E out \in {"ok", "err", "panic"} : ClosureEnds(out)
            \/ UNCHANGED vars
  BY <1>1, <1>10 DEF OpenScope, ClosureEnds, vars, hwVars, cqVars, handleVars
<1> QED
  BY <1>3, <1>5, <1>8, <1>9, <1>10 DEF Next

\* What is true of an answer stays true while the call it belongs to is the latest.
LEMMA AnswersKept ==
  ASSUME CallTypeOK, CInv, Persists,
         UNCHANGED <<op, peers, posted, answer>> \/ answer' = "running"
  PROVE  OkMeansAll' /\ NoUnpolledPanic' /\ ReturnsQuiet'
<1>1. CASE answer' = "running"
  BY <1>1 DEF OkMeansAll, NoUnpolledPanic, ReturnsQuiet, Running
<1>2. CASE UNCHANGED <<op, peers, posted, answer>>
  <2>1. \A k \in 1..Len(posted) : posted[k] \in WRs
    BY DEF CallTypeOK
  <2>2. NoUnpolledPanic'
    BY <1>2 DEF CInv, NoUnpolledPanic
  <2>3. OkMeansAll'
    BY <1>2, <2>1 DEF CInv, OkMeansAll, Persists, Results
  <2>4. ReturnsQuiet'
    BY <1>2, <2>1 DEF CInv, ReturnsQuiet, Persists, Running, Finished
  <2> QED
    BY <2>2, <2>3, <2>4
<1> QED
  BY <1>1, <1>2

\* A step that leaves the call, its scope and the loop of the thread alone.
LEMMA QuietCall ==
  ASSUME CallTypeOK, CInv, Persists, UNCHANGED callVars,
         UNCHANGED <<phase, mode, members, closure, spin, cur>>
  PROVE  CInv'
<1>1. OkMeansAll' /\ NoUnpolledPanic' /\ ReturnsQuiet'
  BY AnswersKept DEF callVars
<1>2. PhaseInv' /\ PostedInv'
  BY DEF CInv, PhaseInv, PostedInv, InBlocking, Running, callVars
<1>3. \A k \in 1..Len(posted) : posted[k] \in WRs
  BY DEF CallTypeOK
<1>4. taken \in Nat /\ taken <= Len(posted) /\ Len(posted) \in Nat
  BY DEF CallTypeOK, CInv, PostedInv
<1>5. BlockingInv'
  <2>1. SUFFICES ASSUME InBlocking' PROVE BlockingInv'
    BY DEF BlockingInv
  <2>2. InBlocking
    BY <2>1 DEF InBlocking, Running, callVars
  <2>3. ~failed => \A k \in 1..taken : posted[k] \in user_polled' /\ status'[posted[k]] = "success"
    BY <1>3, <1>4, <2>2 DEF CInv, BlockingInv, Persists
  <2> QED
    BY <2>2, <2>3 DEF CInv, BlockingInv, callVars, AllPosted, NextHandle
<1>6. UnpolledInv'
  <2>1. SUFFICES ASSUME InUnpolled' PROVE UnpolledInv'
    BY DEF UnpolledInv
  <2>2. InUnpolled
    BY <2>1 DEF InUnpolled, Running, callVars
  <2>3. \A k \in 1..taken : nic'[posted[k]] \in Results \/ posted[k] \in poll_errs'
    BY <1>3, <1>4, <2>2 DEF CInv, UnpolledInv, Persists, Finished
  <2> QED
    BY <2>2, <2>3 DEF CInv, UnpolledInv, callVars, NextHandle, Finished
<1> QED
  BY <1>1, <1>2, <1>5, <1>6 DEF CInv

\* A call begins with nothing posted.
LEMMA BeginStep ==
  ASSUME CallTypeOK, CInv, Persists, NEW q, NEW ps \in Seq(Channels \cup {NoPeer}),
         blocking(q, ps) \/ unpolled(q, ps)
  PROVE  CInv'
<1>1. OkMeansAll' /\ NoUnpolledPanic' /\ ReturnsQuiet'
  BY AnswersKept DEF blocking, unpolled, Begin
<1>2. posted' = << >> /\ taken' = 0 /\ peers' = ps /\ failed' = FALSE /\ spin' = "none"
  BY DEF blocking, unpolled, Begin, OpenScope, vars, spinVars
<1>3. \/ InBlocking' /\ ~InUnpolled' /\ phase' = "closure" /\ mode' = "manual" /\ members' = {}
      \/ ~InBlocking' /\ InUnpolled' /\ phase' = "idle"
  BY DEF blocking, unpolled, Begin, OpenScope, vars, scopeVars, InBlocking, InUnpolled, Running
<1>4. PhaseInv' /\ PostedInv'
  BY <1>2, <1>3 DEF PhaseInv, PostedInv
<1>5. BlockingInv' /\ UnpolledInv'
  BY <1>2, <1>3 DEF BlockingInv, UnpolledInv
<1> QED
  BY <1>1, <1>4, <1>5 DEF CInv

\* Every call of a Node begins like that, or is refused at once.
LEMMA NodeCallStep ==
  ASSUME CallTypeOK, CInv, Persists, NodeCall
  PROVE  CInv'
<1>1. ASSUME NEW ps \in PeerLists PROVE ps \in Seq(Channels \cup {NoPeer})
  BY <1>1, CollectiveAssumption DEF PeerLists
<1>2. ASSUME NEW p \in Channels \cup {NoPeer} PROVE <<p>> \in Seq(Channels \cup {NoPeer})
  OBVIOUS
<1>3. ASSUME NEW q, NEW p \in Channels \cup {NoPeer}, blocking_one(q, p)
      PROVE  CInv'
  <2>1. CASE blocking(q, <<p>>)
    BY <2>1, <1>2, BeginStep
  <2>2. CASE ~blocking(q, <<p>>)
    <3>1. /\ op' = "polled" /\ posted' = << >> /\ taken' = 0 /\ peers' = <<p>>
          /\ answer' = "Err" /\ phase' = "idle"
      BY <1>3, <2>2 DEF blocking_one, vars, scopeVars
    <3>2. ~InBlocking' /\ ~InUnpolled'
      BY <3>1 DEF InBlocking, InUnpolled, Running
    <3>3. PhaseInv' /\ PostedInv' /\ BlockingInv' /\ UnpolledInv'
      BY <3>1, <3>2 DEF PhaseInv, PostedInv, BlockingInv, UnpolledInv
    <3>4. OkMeansAll' /\ NoUnpolledPanic' /\ ReturnsQuiet'
      BY <3>1 DEF OkMeansAll, NoUnpolledPanic, ReturnsQuiet
    <3> QED
      BY <3>3, <3>4 DEF CInv
  <2> QED
    BY <2>1, <2>2
<1>4. ASSUME NEW q, NEW ps \in PeerLists, blocking(q, ps) \/ unpolled(q, ps) PROVE CInv'
  BY <1>1, <1>4, BeginStep
<1>5. ASSUME NEW q, NEW p \in Channels \cup {NoPeer}, unpolled(q, <<p>>) PROVE CInv'
  BY <1>2, <1>5, BeginStep
<1> QED
  BY <1>3, <1>4, <1>5
     DEF NodeCall, NodeCollectiveCall, NodeChannelCall, CollectiveCall, ChannelCall,
         scatter_send, scatter_write, gather_receive, gather_read,
         multicast_send, scatter_send_unpolled, scatter_write_unpolled,
         gather_receive_unpolled, gather_read_unpolled, multicast_send_unpolled

\* A post appends the handle of the next peer.
LEMMA PostNextStep ==
  ASSUME IInv, CallTypeOK, CInv, Persists, post_next
  PROVE  CInv'
<1> DEFINE w == <<NextPeer, next_wr_id[NextPeer]>>
<1>1. /\ answer = "running" /\ ~failed /\ Len(posted) < Len(peers) /\ NextPeer \in Channels
      /\ posted' = Append(posted, w) /\ UNCHANGED <<op, peers, taken, failed, answer>>
  BY DEF post_next, Posts, Running
<1>2. OkMeansAll' /\ NoUnpolledPanic' /\ ReturnsQuiet'
  BY <1>1, AnswersKept
<1>3. /\ posted \in Seq(WRs) /\ peers \in Seq(Channels \cup {NoPeer}) /\ taken \in Nat
      /\ taken <= Len(posted) /\ w \in WRs
  BY <1>1, PostedExists DEF IInv, CallTypeOK, CInv, PostedInv, post_next
<1>4. /\ Len(posted') = Len(posted) + 1 /\ Len(posted) \in Nat /\ Len(peers) \in Nat
      /\ \A k \in 1..Len(posted) : posted'[k] = posted[k]
      /\ posted'[Len(posted) + 1] = w
  BY <1>1, <1>3
<1>5. PostedInv'
  <2>1. ASSUME NEW k \in 1..Len(posted') PROVE posted'[k][1] = peers[k]
    <3>1. CASE k = Len(posted) + 1
      BY <3>1, <1>4 DEF NextPeer
    <3>2. CASE k \in 1..Len(posted)
      BY <3>2, <1>4 DEF CInv, PostedInv
    <3> QED
      BY <1>4, <3>1, <3>2
  <2> QED
    BY <2>1, <1>1, <1>3, <1>4 DEF PostedInv
<1>6. spin = "none" /\ UNCHANGED <<spin, phase, mode, status, user_polled>>
  BY DEF post_next, channel_post, post_unpolled, spinVars, cqVars, scopeVars
<1>7. CASE op = "polled"
  <2>1. /\ phase = "closure" /\ members' = members \cup {w}
    BY <1>7 DEF post_next, channel_post
  <2>2. InBlocking /\ InBlocking' /\ ~InUnpolled'
    BY <1>1, <1>7 DEF InBlocking, InUnpolled, Running
  <2>3. PhaseInv'
    BY <2>1, <2>2, <1>6 DEF CInv, PhaseInv
  <2>4. \A k \in 1..Len(posted') : posted'[k] \in members'
    <3>1. \A k \in 1..Len(posted) : posted[k] \in members
      BY <2>2 DEF CInv, BlockingInv
    <3>2. SUFFICES ASSUME NEW k \in 1..Len(posted') PROVE posted'[k] \in members'
      OBVIOUS
    <3>3. CASE k = Len(posted) + 1
      BY <3>3, <2>1, <1>4
    <3>4. CASE k \in 1..Len(posted)
      <4>1. posted'[k] = posted[k]
        BY <3>4, <1>4
      <4> QED
        BY <3>1, <3>4, <4>1, <2>1
    <3> QED
      BY <3>3, <3>4, <1>4
  <2>5. \A v \in members' : \E k \in 1..Len(posted') : posted'[k] = v
    <3>1. ASSUME NEW v \in members PROVE \E k \in 1..Len(posted') : posted'[k] = v
      <4>1. PICK k \in 1..Len(posted) : posted[k] = v
        BY <2>2 DEF CInv, BlockingInv
      <4> QED
        BY <4>1, <1>4
    <3>2. \E k \in 1..Len(posted') : posted'[k] = w
      BY <1>4
    <3> QED
      BY <3>1, <3>2, <2>1
  <2>6. \A k \in 1..taken : posted'[k] \in user_polled' /\ status'[posted'[k]] = "success"
    BY <1>1, <1>3, <1>4, <1>6, <2>2 DEF CInv, BlockingInv
  <2>7. BlockingInv' /\ UnpolledInv'
    BY <2>1, <2>2, <2>4, <2>5, <2>6, <1>1, <1>6 DEF BlockingInv, UnpolledInv
  <2> QED
    BY <1>2, <1>5, <2>3, <2>7 DEF CInv
<1>8. CASE op = "unpolled"
  <2>1. ~InBlocking /\ ~InBlocking' /\ InUnpolled /\ InUnpolled'
    BY <1>1, <1>8 DEF InBlocking, InUnpolled, Running
  <2>2. PhaseInv' /\ BlockingInv'
    BY <2>1, <1>6 DEF CInv, PhaseInv, BlockingInv
  <2>3. \A k \in 1..taken : nic'[posted'[k]] \in Results \/ posted'[k] \in poll_errs'
    BY <1>3, <1>4, <2>1, SMTT(30) DEF CInv, UnpolledInv, Persists, Finished
  <2>4. UnpolledInv'
    BY <1>1, <1>6, <2>1, <2>3 DEF UnpolledInv, Finished
  <2> QED
    BY <1>2, <1>5, <2>2, <2>4 DEF CInv
<1> QED
  BY <1>7, <1>8 DEF CallTypeOK

\* A refused post only makes the call fail.
LEMMA PostFailsStep ==
  ASSUME CallTypeOK, CInv, Persists, post_fails
  PROVE  CInv'
<1>1. /\ answer = "running" /\ ~failed /\ failed' = TRUE /\ Len(posted) < Len(peers)
      /\ UNCHANGED <<op, peers, posted, taken, answer>>
  BY DEF post_fails, Posts, Running
<1>2. OkMeansAll' /\ NoUnpolledPanic' /\ ReturnsQuiet'
  BY <1>1, AnswersKept
<1>3. UNCHANGED <<phase, mode, members, closure, spin, cur>>
  BY DEF post_fails, PostRefused, scopeVars, spinVars, vars
<1>4. PhaseInv' /\ PostedInv'
  BY <1>1, <1>3 DEF CInv, PhaseInv, PostedInv, InBlocking, Running
<1>5. /\ \A k \in 1..Len(posted) : posted[k] \in WRs
      /\ taken \in Nat /\ taken <= Len(posted) /\ Len(posted) \in Nat /\ Len(peers) \in Nat
  BY DEF CallTypeOK, CInv, PostedInv
<1>6. BlockingInv'
  <2>1. SUFFICES ASSUME InBlocking' PROVE BlockingInv'
    BY DEF BlockingInv
  <2>2. InBlocking
    BY <2>1, <1>1 DEF InBlocking, Running
  <2>3. spin # "user" /\ phase # "auto_poll"
    <3>1. PostedInv /\ BlockingInv
      BY DEF CInv
    <3>2. spin # "user"
      BY <1>1, <1>5, <2>2, <3>1 DEF BlockingInv, AllPosted
    <3>3. phase # "auto_poll"
      BY <1>1, <1>5, <2>2, <3>1 DEF BlockingInv, AllPosted
    <3> QED
      BY <3>2, <3>3
  <2> QED
    BY <1>1, <1>3, <2>2, <2>3 DEF CInv, BlockingInv
<1>7. UnpolledInv'
  <2>1. SUFFICES ASSUME InUnpolled' PROVE UnpolledInv'
    BY DEF UnpolledInv
  <2>2. InUnpolled
    BY <2>1, <1>1 DEF InUnpolled, Running
  <2>3. \A k \in 1..taken : nic'[posted[k]] \in Results \/ posted[k] \in poll_errs'
    BY <1>5, <2>2 DEF CInv, UnpolledInv, Persists, Finished
  <2> QED
    BY <1>1, <1>3, <2>2, <2>3 DEF CInv, UnpolledInv, NextHandle, Finished
<1> QED
  BY <1>2, <1>4, <1>6, <1>7 DEF CInv

\* The closure polls its handles in order.
LEMMA SpinNextStep ==
  ASSUME CallTypeOK, CInv, Persists, spin_next
  PROVE  CInv'
<1>1. /\ answer = "running" /\ op = "polled" /\ phase = "closure" /\ ~failed /\ AllPosted
      /\ taken < Len(posted) /\ spin' = "user" /\ cur' = NextHandle /\ UNCHANGED callVars
  BY DEF spin_next, InClosure, Running, UserSpin
<1>2. OkMeansAll' /\ NoUnpolledPanic' /\ ReturnsQuiet'
  BY <1>1, AnswersKept DEF callVars
<1>3. UNCHANGED <<phase, mode, members, closure, status, user_polled>>
  BY DEF spin_next, UserSpin, scopeVars, cqVars, handleVars
<1>4. InBlocking /\ InBlocking' /\ ~InUnpolled'
  BY <1>1 DEF InBlocking, InUnpolled, Running, callVars
<1>5. PhaseInv' /\ PostedInv'
  BY <1>1, <1>3, <1>4 DEF CInv, PhaseInv, PostedInv, callVars
<1>6. BlockingInv' /\ UnpolledInv'
  BY <1>1, <1>3, <1>4 DEF CInv, BlockingInv, UnpolledInv, callVars, AllPosted, NextHandle
<1> QED
  BY <1>2, <1>5, <1>6 DEF CInv

\* A handle whose spin_poll has returned is marked as polled, and the call goes on only
\* after a success.
LEMMA SpinDoneStep ==
  ASSUME IInv, OInv, CallTypeOK, CInv, Persists, spin_done
  PROVE  CInv'
<1>1. /\ answer = "running" /\ op = "polled" /\ phase = "closure" /\ spin = "user"
      /\ taken' = taken + 1 /\ spin' = "none" /\ failed' = (status'[cur] # "success")
      /\ UNCHANGED <<op, peers, posted, answer, phase, mode, members, closure>>
  BY DEF spin_done, InClosure, Running, SpinUserDone, scopeVars
<1>2. OkMeansAll' /\ NoUnpolledPanic' /\ ReturnsQuiet'
  BY <1>1, AnswersKept
<1>3. InBlocking /\ InBlocking' /\ ~InUnpolled'
  BY <1>1 DEF InBlocking, InUnpolled, Running
<1>4. ~failed /\ AllPosted /\ taken < Len(posted) /\ cur = NextHandle
  BY <1>1, <1>3 DEF CInv, BlockingInv
<1>5. taken \in Nat /\ Len(posted) \in Nat /\ \A k \in 1..Len(posted) : posted[k] \in WRs
  BY DEF CallTypeOK
<1>6. PhaseInv' /\ PostedInv'
  <2>1. PhaseInv'
    BY <1>1, <1>3 DEF CInv, PhaseInv
  <2>2. PostedInv'
    BY <1>1, <1>4, <1>5 DEF CInv, PostedInv
  <2> QED
    BY <2>1, <2>2
<1>7. cur \in user_polled'
  <2>1. cur \in members
    BY <1>3, <1>4, <1>5 DEF CInv, BlockingInv, NextHandle
  <2>2. handle[cur] = "scoped"
    BY <1>1, <2>1 DEF OInv, OutcomeInv
  <2> QED
    BY <2>2 DEF spin_done, SpinUserDone, MarkPolled
<1>8. ~failed' => \A k \in 1..taken' : posted[k] \in user_polled' /\ status'[posted[k]] = "success"
  <2>1. SUFFICES ASSUME ~failed', NEW k \in 1..taken'
                 PROVE  posted[k] \in user_polled' /\ status'[posted[k]] = "success"
    OBVIOUS
  <2>2. CASE k = taken + 1
    BY <2>1, <2>2, <1>1, <1>4, <1>7 DEF NextHandle
  <2>3. CASE k \in 1..taken
    <3>1. posted[k] \in user_polled /\ status[posted[k]] = "success" /\ posted[k] \in WRs
      BY <2>3, <1>3, <1>4, <1>5 DEF CInv, BlockingInv
    <3> QED
      BY <3>1 DEF Persists
  <2> QED
    BY <2>2, <2>3, <1>1, <1>5
<1>9. BlockingInv' /\ UnpolledInv'
  BY <1>1, <1>3, <1>8 DEF CInv, BlockingInv, UnpolledInv
<1> QED
  BY <1>2, <1>6, <1>9 DEF CInv

\* The closure ends after an error, or when all handles have been polled.
LEMMA ClosureDoneStep ==
  ASSUME CallTypeOK, CInv, Persists, closure_done
  PROVE  CInv'
<1>1. /\ answer = "running" /\ op = "polled" /\ spin = "none" /\ phase' = "auto_poll"
      /\ UNCHANGED <<callVars, mode, members, status, user_polled, spin>>
      /\ \/ closure' = "err" /\ failed
         \/ closure' = "ok" /\ ~failed /\ AllPosted /\ taken = Len(posted)
  BY DEF closure_done, InClosure, Running, ClosureEnds, cqVars, handleVars, spinVars
<1>2. OkMeansAll' /\ NoUnpolledPanic' /\ ReturnsQuiet'
  BY <1>1, AnswersKept DEF callVars
<1>3. InBlocking /\ InBlocking' /\ ~InUnpolled'
  BY <1>1 DEF InBlocking, InUnpolled, Running, callVars
<1>4. PhaseInv' /\ PostedInv'
  BY <1>1, <1>3 DEF CInv, PhaseInv, PostedInv, callVars
<1>5. BlockingInv' /\ UnpolledInv'
  BY <1>1, <1>3 DEF CInv, BlockingInv, UnpolledInv, callVars, AllPosted
<1> QED
  BY <1>2, <1>4, <1>5 DEF CInv

\* auto_poll changes nothing of the call.
LEMMA AutoPollCall ==
  ASSUME IInv, CallTypeOK, CInv, Persists, auto_poll
  PROVE  CInv'
<1>1. /\ answer = "running" /\ op = "polled" /\ spin' # "user"
      /\ UNCHANGED <<callVars, phase, mode, members, closure>>
  BY DEF auto_poll, Running, AutoPollNext, SpinAutoDone, DropDone
<1>2. OkMeansAll' /\ NoUnpolledPanic' /\ ReturnsQuiet'
  BY <1>1, AnswersKept DEF callVars
<1>3. InBlocking /\ InBlocking' /\ ~InUnpolled'
  BY <1>1 DEF InBlocking, InUnpolled, Running, callVars
<1>4. PhaseInv' /\ PostedInv'
  BY <1>1, <1>3 DEF CInv, PhaseInv, PostedInv, callVars
<1>5. phase # "closure"
  <2>1. phase = "closure" => spin \in {"none", "user"}
    BY <1>3 DEF CInv, BlockingInv
  <2> QED
    BY <2>1 DEF auto_poll, AutoPollNext, SpinAutoDone, DropDone
<1>6. /\ \A k \in 1..Len(posted) : posted[k] \in WRs
      /\ taken \in Nat /\ taken <= Len(posted) /\ Len(posted) \in Nat
  BY DEF CallTypeOK, CInv, PostedInv
<1>7. ~failed => \A k \in 1..taken : posted[k] \in user_polled' /\ status'[posted[k]] = "success"
  BY <1>3, <1>6 DEF CInv, BlockingInv, Persists
<1>8. BlockingInv' /\ UnpolledInv'
  BY <1>1, <1>3, <1>5, <1>7 DEF CInv, BlockingInv, UnpolledInv, callVars, AllPosted
<1> QED
  BY <1>2, <1>4, <1>8 DEF CInv

\* The work of a dropped handle has been finished by the NIC, or its polling failed.
LEMMA DroppedIsDone ==
  ASSUME IInv, OInv, NEW w \in WRs, handle[w] = "dropped"
  PROVE  Finished(w) \/ w \in poll_errs
<1>1. status[w] # "none" \/ w \in poll_errs
  BY DEF OInv, HandleInv
<1>2. status[w] # "none" => nic[w] = status[w] /\ status[w] \in Results
  BY DEF IInv, CompletionInv, TypeOK, MaybeResult
<1> QED
  BY <1>1, <1>2 DEF Finished

\* A blocking call returns Ok only when all of its work has succeeded, and otherwise with
\* the closure's error: what it has left to auto_poll is finished either way.
LEMMA BlockingReturnsStep ==
  ASSUME IInv, OInv, CallTypeOK, CInv, blocking_returns
  PROVE  CInv'
<1>1. /\ answer = "running" /\ op = "polled" /\ phase = "auto_poll" /\ phase' = "idle"
      /\ wrs = << >> /\ answer' = result'
      /\ result' = IF mode = "auto" THEN RunResult ELSE RunManualResult
      /\ UNCHANGED <<op, peers, posted, taken, failed, nic, poll_errs>>
  BY DEF blocking_returns, ScopeReturns, Running, hwVars
<1>2. InBlocking
  BY <1>1 DEF InBlocking, Running
<1>3. /\ \A k \in 1..Len(posted) : posted[k] \in members
      /\ \A w \in members : \E k \in 1..Len(posted) : posted[k] = w
      /\ ~failed => \A k \in 1..taken : posted[k] \in user_polled /\ status[posted[k]] = "success"
      /\ \/ closure = "err" /\ failed
         \/ closure = "ok" /\ ~failed /\ AllPosted /\ taken = Len(posted)
  BY <1>1, <1>2 DEF CInv, BlockingInv
<1>4. \A k \in 1..Len(posted) : posted[k] \in WRs
  BY DEF CallTypeOK
<1>5. result' = RunManualResult
  BY <1>1, <1>2 DEF CInv, PhaseInv
<1>6. /\ closure = "err" => result' = "Err"
      /\ closure = "ok" => result' = "Ok"
  <2>1. closure = "err" => result' = "Err"
    BY <1>5 DEF RunManualResult
  <2>2. ASSUME closure = "ok" PROVE ~auto_polled
    <3>1. Left = {}
      BY <1>3, <2>2 DEF Left
    <3> QED
      BY <3>1 DEF OInv, OutcomeInv
  <2>3. closure = "ok" => result' = "Ok"
    BY <1>5, <2>2 DEF RunManualResult
  <2> QED
    BY <2>1, <2>3
<1>7. answer' \in {"Ok", "Err"}
  BY <1>1, <1>3, <1>6
<1>8. ~InBlocking' /\ ~InUnpolled'
  BY <1>7 DEF InBlocking, InUnpolled, Running
<1>9. PhaseInv' /\ PostedInv' /\ BlockingInv' /\ UnpolledInv'
  BY <1>1, <1>8 DEF CInv, PhaseInv, PostedInv, BlockingInv, UnpolledInv
<1>10. NoUnpolledPanic'
  BY <1>7 DEF NoUnpolledPanic
<1>11. OkMeansAll'
  <2>1. SUFFICES ASSUME answer' = "Ok" PROVE OkMeansAll'
    BY DEF OkMeansAll
  <2>2. ~failed /\ AllPosted /\ taken = Len(posted)
    BY <2>1, <1>1, <1>3, <1>6
  <2>3. ASSUME NEW k \in 1..Len(posted)
        PROVE  posted[k][1] = peers[k] /\ nic[posted[k]] = "success"
    <3>1. status[posted[k]] = "success" /\ posted[k] \in WRs
      BY <1>3, <1>4, <2>2
    <3>2. nic[posted[k]] = status[posted[k]]
      BY <3>1 DEF IInv, CompletionInv
    <3> QED
      BY <3>1, <3>2 DEF CInv, PostedInv
  <2> QED
    BY <2>2, <2>3, <1>1 DEF OkMeansAll, AllPosted
<1>12. ReturnsQuiet'
  <2>1. ASSUME NEW k \in 1..Len(posted)
        PROVE  Finished(posted[k]) \/ posted[k] \in poll_errs
    <3>1. posted[k] \in members /\ posted[k] \in WRs
      BY <1>3, <1>4
    <3>2. handle[posted[k]] \in {"scoped", "dropped"}
      BY <3>1 DEF OInv, OutcomeInv
    <3>3. handle[posted[k]] # "scoped"
      BY <3>1, <1>1 DEF OInv, HandleInv
    <3> QED
      BY <3>1, <3>2, <3>3, DroppedIsDone
  <2> QED
    BY <1>1, <2>1 DEF ReturnsQuiet, Finished
<1> QED
  BY <1>9, <1>10, <1>11, <1>12 DEF CInv

\* A failed unpolled call drops its handles one after the other.
LEMMA DropNextStep ==
  ASSUME CallTypeOK, CInv, Persists, drop_next
  PROVE  CInv'
<1>1. /\ answer = "running" /\ op = "unpolled" /\ failed /\ taken < Len(posted)
      /\ spin' = "drop" /\ cur' = NextHandle /\ UNCHANGED callVars
      /\ UNCHANGED <<phase, nic, poll_errs>>
  BY DEF drop_next, Running, DropRaw, scopeVars, hwVars
<1>2. OkMeansAll' /\ NoUnpolledPanic' /\ ReturnsQuiet'
  BY <1>1, AnswersKept DEF callVars
<1>3. ~InBlocking /\ ~InBlocking' /\ InUnpolled
  BY <1>1 DEF InBlocking, InUnpolled, Running, callVars
<1>4. PhaseInv' /\ PostedInv' /\ BlockingInv'
  BY <1>1, <1>3 DEF CInv, PhaseInv, PostedInv, BlockingInv, callVars
<1>5. UnpolledInv'
  BY <1>1, <1>3 DEF CInv, UnpolledInv, callVars, NextHandle, Finished
<1> QED
  BY <1>2, <1>4, <1>5 DEF CInv

\* A handle that has been dropped is of a work that has finished.
LEMMA DropDoneStepOfCall ==
  ASSUME IInv, IInv', OInv', CallTypeOK, CInv, Persists, drop_done
  PROVE  CInv'
<1>1. /\ answer = "running" /\ op = "unpolled" /\ spin = "drop" /\ spin' = "none"
      /\ taken' = taken + 1 /\ handle' = [handle EXCEPT ![cur] = "dropped"]
      /\ UNCHANGED <<phase, op, peers, posted, failed, answer>>
  BY DEF drop_done, Running, DropDone
<1>2. OkMeansAll' /\ NoUnpolledPanic' /\ ReturnsQuiet'
  BY <1>1, AnswersKept
<1>3. ~InBlocking /\ ~InBlocking' /\ InUnpolled
  BY <1>1 DEF InBlocking, InUnpolled, Running
<1>4. taken < Len(posted) /\ cur = NextHandle
  BY <1>1, <1>3 DEF CInv, UnpolledInv
<1>5. taken \in Nat /\ Len(posted) \in Nat /\ \A k \in 1..Len(posted) : posted[k] \in WRs
  BY DEF CallTypeOK
<1>6. PhaseInv' /\ PostedInv' /\ BlockingInv'
  BY <1>1, <1>3, <1>4, <1>5 DEF CInv, PhaseInv, PostedInv, BlockingInv
<1>7. nic'[cur] \in Results \/ cur \in poll_errs'
  <2>1. cur \in WRs
    BY <1>4, <1>5 DEF NextHandle
  <2>2. handle'[cur] = "dropped"
    BY <1>1, <2>1 DEF IInv, TypeOK
  <2>3. status'[cur] # "none" \/ cur \in poll_errs'
    BY <2>1, <2>2 DEF OInv, HandleInv
  <2>4. status'[cur] # "none" => nic'[cur] = status'[cur] /\ status'[cur] \in Results
    BY <2>1 DEF IInv, CompletionInv, TypeOK, MaybeResult
  <2> QED
    BY <2>3, <2>4
<1>8. ASSUME NEW k \in 1..taken' PROVE nic'[posted[k]] \in Results \/ posted[k] \in poll_errs'
  <2>1. CASE k = taken + 1
    BY <2>1, <1>4, <1>7 DEF NextHandle
  <2>2. CASE k \in 1..taken
    BY <2>2, <1>3, <1>4, <1>5 DEF CInv, UnpolledInv, Persists, Finished
  <2> QED
    BY <2>1, <2>2, <1>1, <1>5
<1>9. UnpolledInv'
  BY <1>1, <1>8 DEF UnpolledInv, Finished
<1> QED
  BY <1>2, <1>6, <1>9 DEF CInv

\* An unpolled call returns its handles, or its error once it has dropped them all.
LEMMA UnpolledReturnsStep ==
  ASSUME CallTypeOK, CInv, unpolled_returns
  PROVE  CInv'
<1>1. /\ answer = "running" /\ op = "unpolled" /\ answer' \in {"Ok", "Err"}
      /\ answer' = "Err" => taken = Len(posted)
      /\ UNCHANGED <<op, peers, posted, taken, phase, nic, poll_errs>>
  BY DEF unpolled_returns, Running, vars, scopeVars, hwVars
<1>2. ~InBlocking /\ InUnpolled /\ ~InBlocking' /\ ~InUnpolled'
  BY <1>1 DEF InBlocking, InUnpolled, Running
<1>3. PhaseInv' /\ PostedInv' /\ BlockingInv' /\ UnpolledInv'
  BY <1>1, <1>2 DEF CInv, PhaseInv, PostedInv, BlockingInv, UnpolledInv
<1>4. OkMeansAll' /\ NoUnpolledPanic'
  BY <1>1 DEF OkMeansAll, NoUnpolledPanic
<1>5. ReturnsQuiet'
  BY <1>1, <1>2 DEF CInv, UnpolledInv, ReturnsQuiet, Finished
<1> QED
  BY <1>3, <1>4, <1>5 DEF CInv

\* Between calls, raw handles are polled and dropped.
LEMMA RawHandlesStep ==
  ASSUME CallTypeOK, CInv, Persists, RawHandles
  PROVE  CInv'
<1>1. answer # "running" /\ UNCHANGED callVars /\ UNCHANGED phase
  BY DEF RawHandles, Running, UserPoll, UserSpin, DropRaw, SpinUserDone, DropDone, scopeVars
<1>2. OkMeansAll' /\ NoUnpolledPanic' /\ ReturnsQuiet'
  BY <1>1, AnswersKept DEF callVars
<1>3. ~InBlocking /\ ~InBlocking' /\ ~InUnpolled'
  BY <1>1 DEF InBlocking, InUnpolled, Running, callVars
<1>4. PhaseInv' /\ PostedInv' /\ BlockingInv' /\ UnpolledInv'
  BY <1>1, <1>3 DEF CInv, PhaseInv, PostedInv, BlockingInv, UnpolledInv, callVars
<1> QED
  BY <1>2, <1>4 DEF CInv

AnswerInv == CallInv /\ OInv /\ CInv

\* The invariant about answers holds before any call.
LEMMA InitAnswerInv == CollectiveInit => AnswerInv
<1> SUFFICES ASSUME CollectiveInit PROVE AnswerInv
  OBVIOUS
<1>1. CallInv /\ OInv
  BY InitCallInv, InitOInv DEF CollectiveInit
<1>2. CInv
  BY DEF CollectiveInit, Init, CInv, PhaseInv, PostedInv, BlockingInv, UnpolledInv, InBlocking,
         InUnpolled, Running, OkMeansAll, NoUnpolledPanic, ReturnsQuiet
<1> QED
  BY <1>1, <1>2 DEF AnswerInv

\* Every step of the collective operations preserves the invariant about answers.
LEMMA NextAnswerInv == AnswerInv /\ [CollectiveNext]_allVars => AnswerInv'
<1> SUFFICES ASSUME AnswerInv, [CollectiveNext]_allVars PROVE AnswerInv'
  OBVIOUS
<1>1. /\ CallInv /\ CallInv' /\ OInv /\ OInv' /\ CInv /\ [Next]_vars
  BY NextCallInv, NextMaps, NextOInv DEF AnswerInv, CallInv
<1>2. IInv /\ IInv' /\ CallTypeOK /\ Persists
  BY <1>1, NextPersists DEF CallInv
<1>3. CASE NodeCall
  BY <1>1, <1>2, <1>3, NodeCallStep DEF AnswerInv
<1>4. CASE CallSteps
  <2>1. CASE SpinAgain /\ UNCHANGED callVars
    BY <2>1, <1>1, <1>2, QuietCall DEF AnswerInv, SpinAgain, scopeVars, spinVars
  <2> QED
    BY <2>1, <1>1, <1>2, <1>4, PostNextStep, PostFailsStep, SpinNextStep, SpinDoneStep,
       ClosureDoneStep, AutoPollCall, BlockingReturnsStep, DropNextStep, DropDoneStepOfCall,
       UnpolledReturnsStep
       DEF AnswerInv, CallSteps
<1>5. CASE RawHandles
  BY <1>1, <1>2, <1>5, RawHandlesStep DEF AnswerInv
<1>6. CASE Hardware \/ UNCHANGED allVars
  <2>1. UNCHANGED <<callVars, phase, mode, members, closure, spin, cur>>
    BY <1>6 DEF Hardware, allVars, vars, NicCompletes, scopeVars, spinVars
  <2> QED
    BY <2>1, <1>1, <1>2, QuietCall DEF AnswerInv
<1> QED
  BY <1>3, <1>4, <1>5, <1>6 DEF CollectiveNext

\* The invariant about answers holds in every behaviour.
LEMMA AnswerInvHolds == CollectiveSpec => []AnswerInv
  BY InitAnswerInv, NextAnswerInv, PTL DEF CollectiveSpec

\* A blocking operation that answers Ok has posted one work request per peer, in order,
\* and the NIC has reported each of them as a success.
THEOREM OkIsComplete == CollectiveSpec => []OkMeansAll
<1>1. AnswerInv => OkMeansAll
  BY DEF AnswerInv, CInv
<1> QED
  BY <1>1, AnswerInvHolds, PTL

\* The panic of manual_scope on unpolled work never comes out of a collective operation,
\* for any list of peers and wherever a post is refused or a work fails.
THEOREM ContractIsKept == CollectiveSpec => []NoUnpolledPanic
<1>1. AnswerInv => NoUnpolledPanic
  BY DEF AnswerInv, CInv
<1> QED
  BY <1>1, AnswerInvHolds, PTL

\* A blocking operation that has returned, and an unpolled one that has failed half way,
\* leave no work request in flight, but for one whose polling failed.
THEOREM CallsEndQuiet == CollectiveSpec => []ReturnsQuiet
<1>1. AnswerInv => ReturnsQuiet
  BY DEF AnswerInv, CInv
<1> QED
  BY <1>1, AnswerInvHolds, PTL
=============================================================================
