---------------------------- MODULE MCConnection ----------------------------
(* Scenarios for Connection.                                               *)
EXTENDS Connection

\* Builder settings: ack timeout and retries, RNR retries and the wait wanted, numbers.
Settings(ack, acks, rnrs, wanted, psn) ==
  [access |-> shared_access, send_psn |-> psn, recv_psn |-> psn, ack_wanted |-> 0,
   ack_timeout |-> ack, max_ack_retries |-> acks, max_rnr_retries |-> rnrs,
   rnr_wanted |-> wanted, min_rnr_timer |-> MinRnrTimer_min_duration_greater_than(wanted)]

Plain == Settings(1, 0, 0, 1, 0)
Both(a, b) == [e \in Ends |-> IF e = "A" THEN a ELSE b]

AckTimeouts ==
  UNION {AckTimeout_limited(c) : c \in {0, 1, AckCodes}}
    \cup AckTimeout_min_duration_greater_than(4 * AckQuantum) \cup {0, Unlimited}
AckRetries == UNION {MaxAckRetries_limited(r) : r \in {0, 2, 8}}
RnrRetries == UNION {MaxRnrRetries_limited(r) : r \in {0, 2, 7}} \cup {7, Unlimited}
Waits == {0, 1, 5, 256, 49152, 49153, 65536, 65537}
RawTimers == UNION {MinRnrTimer_limited(c) : c \in {0, 31, 32}}
Psns == UNION {PacketSequenceNumber_new(p) : p \in {0, 2^24}}

Slice(a, n) == [start |-> a, len |-> n]
AllSlices == {s \in [start : 0..(Usize - 1), len : 0..(Usize - 1)] : IsSlice(s)}

\* B's memory in the middle of the address space and at its end, A's in the middle.
Target == register_shared_mr(Slice(4, 6))
Buffer == register_local_mr(Slice(3, 6))

Base ==
  [debug |-> FALSE, connected |-> TRUE, leaves |-> FALSE, shared |-> TRUE,
   settings |-> Both(Plain, Plain), target |-> Target, buffer |-> Buffer,
   receives |-> {2}, ops |-> {"write", "read"}, slices |-> {Slice(3, 2)}, max_sge |-> 1,
   offsets |-> {}, structs |-> {}, indexes |-> {}]

\* Every offset, and every index of arrays of small structures.
HandleScenarios ==
  {[Base EXCEPT !.debug = d, !.target = t, !.offsets = 0..(Usize - 1),
                !.structs = {[size |-> 2, field |-> 1]}, !.indexes = 0..(Usize - 1)] :
     d \in BOOLEAN, t \in {Target, register_shared_mr(Slice(9, 6))}}

\* Every slice, pairs of slices, and memory that B does not share.
ElementScenarios ==
  {[Base EXCEPT !.debug = d, !.slices = AllSlices, !.offsets = {2}] : d \in BOOLEAN}
    \cup {[Base EXCEPT !.debug = d, !.max_sge = 2,
                        !.slices = {Slice(a, n) : a \in {3, 6}, n \in {2, 3, 5}}] : d \in BOOLEAN}
    \cup {[Base EXCEPT !.shared = FALSE, !.target = register_local_mr(Slice(4, 6))]}

\* Two ends that get ready, leave, lose and refuse, under various settings.
TransportScenarios ==
  {[Base EXCEPT !.connected = FALSE, !.leaves = TRUE, !.ops = {"write", "send"},
                !.receives = {0, 1, 2}, !.settings = Both(a, Plain)] :
     a \in {Settings(t, r, n, 1, 0) : t \in AckTimeouts, r \in AckRetries, n \in RnrRetries}
             \cup {Settings(AckCodes, 0, 0, 1, 0), Settings(1, 0, 8, 1, 0)}}
    \cup {[Base EXCEPT !.connected = FALSE, !.ops = {"send"}, !.settings = Both(Plain, b)] :
            b \in {Settings(1, 0, 0, w, p) : w \in Waits, p \in Psns \cup {1}}
                    \cup {[Plain EXCEPT !.min_rnr_timer = c,
                                        !.rnr_wanted = MinRnrTimer_duration(c)] : c \in RawTimers}}

AllScenarios == HandleScenarios \cup ElementScenarios \cup TransportScenarios

\* A wants an acknowledgement timeout of two quanta and a wait of less than the table's 2.56
\* ms, where both conversions do as documented, or a nanosecond more and that very wait.
DocScenarios ==
  UNION {{[Base EXCEPT !.connected = FALSE,
                       !.settings["A"] = [Settings(t, 0, 0, 255 + d, 0) EXCEPT !.ack_wanted = w]] :
            t \in AckTimeout_min_duration_greater_than(w)} :
         <<w, d>> \in {<<2 * AckQuantum, 0>>, <<2 * AckQuantum + 1, 1>>}}
=============================================================================
