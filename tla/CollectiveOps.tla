--------------------------- MODULE CollectiveOps ----------------------------
(***************************************************************************)
(* The operations MultiChannel and Node are called with: blocking ones      *)
(* (send, scatter_send, gather_receive, multicast_send, ...), which run     *)
(* inside a manual scope, and their unpolled variants, which hand raw       *)
(* handles to the caller.  Each is a sequence of steps of PollingScope: the *)
(* posts in the order of the peers, then the polls in the same order.       *)
(***************************************************************************)
EXTENDS PollingScope

CONSTANTS
  NoPeer,    \* a peer index without a channel
  MaxPeers   \* bound: work requests per call

ASSUME CollectiveAssumption == NoPeer \notin Channels /\ MaxPeers \in Nat

PeerLists == UNION {[1..n -> Channels \cup {NoPeer}] : n \in 0..MaxPeers}

VARIABLES
  op,      \* the latest call: "polled" or "unpolled"
  kind,    \* the queue its work requests go to
  peers,   \* the peers of its work requests
  posted,  \* the works posted so far: the Vec of handles
  taken,   \* how many of these handles have been consumed, in order
  failed,  \* has the `?` or the collect of the call met an error?
  answer   \* "running", or what the call has returned

callVars == <<op, kind, peers, posted, taken, failed, answer>>
allVars == <<vars, callVars>>

CollectiveInit ==
  /\ Init
  /\ op = "polled" /\ kind = "sq" /\ peers = << >> /\ posted = << >>
  /\ taken = 0 /\ failed = FALSE /\ answer = "none"

Running == answer = "running"
AllPosted == Len(posted) = Len(peers)
NextPeer == peers[Len(posted) + 1]
NextHandle == posted[taken + 1]

\* Model bound: a call is made while every channel has ids left for all of it.
IdsLeft(ps) ==
  \A c \in Channels :
    next_wr_id[c] + Cardinality({k \in DOMAIN ps : ps[k] = c}) <= MaxWrId

Begin(o, q, ps) ==
  /\ ~Running /\ phase = "idle" /\ spin = "none" /\ IdsLeft(ps)
  /\ op' = o /\ kind' = q /\ peers' = ps /\ posted' = << >> /\ taken' = 0
  /\ failed' = FALSE /\ answer' = "running"

-----------------------------------------------------------------------------
(* The calls.                                                              *)

blocking(q, ps) == Begin("polled", q, ps) /\ OpenScope("manual")
scatter_send(ps) == blocking("sq", ps)
scatter_write(ps) == blocking("sq", ps)
gather_receive(ps) == blocking("rq", ps)
gather_read(ps) == blocking("sq", ps)
multicast_send(ps) == blocking("sq", ps)

\* MultiChannel::send, receive, write and read look the channel up before its scope opens.
blocking_one(q, p) ==
  \/ p \in Channels /\ blocking(q, <<p>>)
  \/ /\ p \notin Channels
     /\ ~Running /\ phase = "idle" /\ spin = "none"
     /\ op' = "polled" /\ kind' = q /\ peers' = <<p>> /\ posted' = << >>
     /\ taken' = 0 /\ failed' = TRUE /\ answer' = "Err"
     /\ UNCHANGED vars

unpolled(q, ps) == Begin("unpolled", q, ps) /\ UNCHANGED vars
scatter_send_unpolled(ps) == unpolled("sq", ps)
scatter_write_unpolled(ps) == unpolled("sq", ps)
gather_receive_unpolled(ps) == unpolled("rq", ps)
gather_read_unpolled(ps) == unpolled("sq", ps)
multicast_send_unpolled(ps) == unpolled("sq", ps)

\* The calls of MultiChannel that take a list of work requests, and those for one peer.
CollectiveCall ==
  \E ps \in PeerLists :
    \/ scatter_send(ps) \/ scatter_write(ps) \/ gather_receive(ps)
    \/ gather_read(ps) \/ multicast_send(ps)
    \/ scatter_send_unpolled(ps) \/ scatter_write_unpolled(ps)
    \/ gather_receive_unpolled(ps) \/ gather_read_unpolled(ps)
    \/ multicast_send_unpolled(ps)
ChannelCall ==
  \E q \in Queues, p \in Channels \cup {NoPeer} : blocking_one(q, p) \/ unpolled(q, <<p>>)

\* A Node forwards every call to its MultiChannel.
NodeCollectiveCall == CollectiveCall
NodeChannelCall == ChannelCall
NodeCall == NodeCollectiveCall \/ NodeChannelCall

-----------------------------------------------------------------------------
(* Posting, the same for both kinds of call.                               *)

Posts == Running /\ ~failed /\ Len(posted) < Len(peers)

\* Mutant: the handle is made with the id that comes after the one posted.
post_next_advanced ==
  /\ Posts /\ NextPeer \in Channels
  /\ \/ op = "polled" /\ channel_post(NextPeer, kind)
     \/ op = "unpolled" /\ post_unpolled(NextPeer, kind)
  /\ posted' = Append(posted, <<NextPeer, next_wr_id'[NextPeer]>>)
  /\ UNCHANGED <<op, kind, peers, taken, failed, answer>>

\* post_send(wr)? and the like, for the next work request.
post_next ==
  /\ Posts /\ NextPeer \in Channels
  /\ \/ op = "polled" /\ channel_post(NextPeer, kind)
     \/ op = "unpolled" /\ post_unpolled(NextPeer, kind)
  /\ posted' = Append(posted, <<NextPeer, next_wr_id[NextPeer]>>)
  /\ UNCHANGED <<op, kind, peers, taken, failed, answer>>

\* Mutant: a refused post is tried again.
post_fails_retried ==
  /\ Posts
  /\ \/ NextPeer \in Channels /\ PostRefused(NextPeer)
     \/ NextPeer \notin Channels /\ UNCHANGED vars
  /\ UNCHANGED callVars

\* The post is refused, or channel(peer) finds no channel, which spends no id.
post_fails ==
  /\ Posts
  /\ \/ NextPeer \in Channels /\ PostRefused(NextPeer)
     \/ NextPeer \notin Channels /\ UNCHANGED vars
  /\ failed' = TRUE
  /\ UNCHANGED <<op, kind, peers, posted, taken, answer>>

-----------------------------------------------------------------------------
(* The rest of a blocking call: its closure, then the end of its scope.    *)

InClosure == Running /\ op = "polled" /\ phase = "closure"

\* wr.spin_poll() of the next handle; the collect stops at the first error.
spin_next ==
  /\ InClosure /\ ~failed /\ AllPosted /\ taken < Len(posted)
  /\ UserSpin(NextHandle)
  /\ UNCHANGED callVars

\* Mutant: the error of a handle is dropped and the next one is polled.
spin_done_ignored ==
  /\ InClosure /\ SpinUserDone
  /\ taken' = taken + 1
  /\ UNCHANGED <<op, kind, peers, posted, failed, answer>>

spin_done ==
  /\ InClosure /\ SpinUserDone
  /\ taken' = taken + 1
  /\ failed' = (status'[cur] # "success")
  /\ UNCHANGED <<op, kind, peers, posted, answer>>

\* Mutant: the closure returns once the first handle has been polled.
closure_done_early ==
  /\ InClosure /\ spin = "none"
  /\ \/ failed /\ ClosureEnds("err")
     \/ ~failed /\ AllPosted /\ (taken > 0 \/ posted = << >>) /\ ClosureEnds("ok")
  /\ UNCHANGED callVars

closure_done ==
  /\ InClosure /\ spin = "none"
  /\ \/ failed /\ ClosureEnds("err")
     \/ ~failed /\ AllPosted /\ taken = Len(posted) /\ ClosureEnds("ok")
  /\ UNCHANGED callVars

auto_poll ==
  /\ Running /\ op = "polled"
  /\ AutoPollNext \/ SpinAutoDone \/ DropDone
  /\ UNCHANGED callVars

blocking_returns ==
  /\ Running /\ op = "polled"
  /\ ScopeReturns
  /\ answer' = result'
  /\ UNCHANGED <<op, kind, peers, posted, taken, failed>>

-----------------------------------------------------------------------------
(* The rest of an unpolled call: an error drops the handles collected.     *)

\* Mutant: the handles collected before the error are forgotten.
drop_next_forgotten ==
  /\ Running /\ op = "unpolled" /\ failed /\ taken < Len(posted) /\ spin = "none"
  /\ handle' = [handle EXCEPT ![NextHandle] = "dropped"]
  /\ borrowed' = borrowed \ {NextHandle}
  /\ taken' = taken + 1
  /\ UNCHANGED <<next_wr_id, hwVars, cqVars, user_polled, scopeVars, spinVars, poll_errs,
                 op, kind, peers, posted, failed, answer>>

drop_next ==
  /\ Running /\ op = "unpolled" /\ failed /\ taken < Len(posted)
  /\ DropRaw(NextHandle)
  /\ UNCHANGED callVars

drop_done ==
  /\ Running /\ op = "unpolled" /\ DropDone
  /\ taken' = taken + 1
  /\ UNCHANGED <<op, kind, peers, posted, failed, answer>>

unpolled_returns ==
  /\ Running /\ op = "unpolled" /\ spin = "none"
  /\ \/ ~failed /\ AllPosted /\ answer' = "Ok"
     \/ failed /\ taken = Len(posted) /\ answer' = "Err"
  /\ UNCHANGED <<vars, op, kind, peers, posted, taken, failed>>

-----------------------------------------------------------------------------
\* What the library does by itself once it has been called.
CallSteps ==
  \/ post_next \/ post_fails
  \/ spin_next \/ spin_done \/ closure_done \/ auto_poll \/ blocking_returns
  \/ drop_next \/ drop_done \/ unpolled_returns
  \/ SpinAgain /\ UNCHANGED callVars

\* Between calls the caller uses the raw handles it was given.
RawHandles ==
  /\ ~Running /\ UNCHANGED callVars
  /\ \/ \E w \in WRs : UserPoll(w) \/ UserSpin(w) \/ DropRaw(w)
     \/ SpinUserDone
     \/ DropDone

Hardware == UNCHANGED callVars /\ \E w \in WRs, r \in Results : NicCompletes(w, r)

CollectiveNext == NodeCall \/ CallSteps \/ RawHandles \/ Hardware

CollectiveSpec == CollectiveInit /\ [][CollectiveNext]_allVars

\* As in PollingScope: the thread runs on, and the NIC finishes what was posted.
CollectiveFairSpec ==
  /\ CollectiveSpec
  /\ WF_allVars(CallSteps /\ PollSucceeds)
  /\ \A w \in WRs : WF_allVars(UNCHANGED callVars /\ \E r \in Results : NicCompletes(w, r))

-----------------------------------------------------------------------------
(* Properties.                                                             *)

\* The variables of a call have their types; its handles are of works that exist.
CallTypeOK ==
  /\ op \in {"polled", "unpolled"}
  /\ kind \in Queues
  /\ peers \in Seq(Channels \cup {NoPeer})
  /\ posted \in Seq(WRs)
  /\ taken \in Nat
  /\ failed \in BOOLEAN
  /\ answer \in {"none", "running", "Ok", "ClosureError", "AutoPollError", "Err",
                 "resumed_panic", "unpolled_panic"}

\* A blocking operation that answers Ok has done all of its work: one work request for
\* each peer of the list, in order, and each reported by the NIC as a success.
OkMeansAll ==
  op = "polled" /\ answer = "Ok" =>
    /\ Len(posted) = Len(peers)
    /\ \A k \in 1..Len(posted) :
         posted[k][1] = peers[k] /\ nic[posted[k]] = "success"

\* The operations keep manual_scope's contract: its panic on unpolled work never comes
\* out of one of them, wherever they stop.
NoUnpolledPanic == answer # "unpolled_panic"

\* A blocking operation that has returned, and an unpolled one that has failed half way,
\* leave none of their work requests in flight, but for one whose polling failed.
ReturnsQuiet ==
  ~Running /\ (op = "polled" \/ answer = "Err") =>
    \A k \in 1..Len(posted) : Finished(posted[k]) \/ posted[k] \in poll_errs

\* Every call returns, also when its posts are refused or its works fail, unless the
\* completion of one of its works overran the completion queue.
CallReturns ==
  Running ~> (~Running \/ \E k \in 1..Len(posted) : posted[k] \in lost)
=============================================================================
