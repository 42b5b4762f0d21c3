-------------------------- MODULE QueuePairConfig ---------------------------
(***************************************************************************)
(* The tuning parameters of a queue pair (src/ibverbs/queue_pair/config.rs) *)
(* and the attributes handshake programs from them.  Codes are what the     *)
(* hardware sees; the last section is what the hardware makes of them.      *)
(***************************************************************************)
EXTENDS Integers, Sequences, FiniteSets

CONSTANTS
  AckQuantum, \* nanoseconds of acknowledgement timeout at code 0: 4096
  AckCodes    \* codes of an acknowledgement timeout: 32

ASSUME ConfigAssumption ==
  AckQuantum \in Nat \ {0} /\ AckCodes \in 2..32

\* Option is the empty set for None.  MaxRnrRetries and AckTimeout are Unlimited or the
\* byte of Limited, which is public: the constructors bound it, the types do not.
Unlimited == -1

PacketSequenceNumber_new(psn) == {p \in {psn} : p < 2^24}

\* MinRnrTimer: durations of codes 1 to 31, and of code 0, in units of 10 microseconds.
DURATION_TABLE ==
  << 1, 2, 3, 4, 6, 8, 12, 16, 24, 32, 48, 64, 96, 128, 192, 256, 384, 512, 768, 1024,
     1536, 2048, 3072, 4096, 6144, 8192, 12288, 16384, 24576, 32768, 49152 >>
DURATION_ZERO == 65536

MinRnrTimer_limited(code) == {c \in {code} : c < 32}

\* binary_search finds the place of the first entry that is not smaller.
first_not_less(t) == Cardinality({k \in 1..Len(DURATION_TABLE) : DURATION_TABLE[k] < t})

MinRnrTimer_min_duration_greater_than(t) ==
  IF first_not_less(t) < Len(DURATION_TABLE) THEN first_not_less(t) + 1 ELSE 0

MinRnrTimer_duration(code) == IF code > 0 THEN DURATION_TABLE[code] ELSE DURATION_ZERO

MaxRnrRetries_limited(retries) == {r \in {retries} : r < 7}

MaxRnrRetries_code(r) == IF r = Unlimited THEN 7 ELSE r

AckTimeout_limited(code) == {c \in {code} : c > 0 /\ c < AckCodes}

\* (nanoseconds / quantum).next_power_of_two().ilog2(), kept when it is a code.
AckTimeout_min_duration_greater_than(nanos) ==
  LET log == CHOOSE c \in 0..AckCodes :
               /\ 2^c >= nanos \div AckQuantum
               /\ \A d \in 0..(c - 1) : 2^d < nanos \div AckQuantum
  IN  AckTimeout_limited(log)

AckTimeout_duration(code) == AckQuantum * 2^code

AckTimeout_code(t) == IF t = Unlimited THEN 0 ELSE t

MaxAckRetries_limited(retries) == {r \in {retries} : r <= 7}

-----------------------------------------------------------------------------
(* PreparedQueuePair::handshake: what each ibv_modify_qp sets, c the        *)
(* settings of the builder.                                                 *)

Reset ==
  [state |-> "reset", access |-> {}, rq_psn |-> 0, min_rnr_timer |-> 0, timeout |-> 0,
   retry_cnt |-> 0, rnr_retry |-> 0, sq_psn |-> 0]

modify_to_init(a, c) == [a EXCEPT !.state = "init", !.access = c.access]

modify_to_rtr(a, c) ==
  [a EXCEPT !.state = "rtr", !.rq_psn = c.recv_psn, !.min_rnr_timer = c.min_rnr_timer]

\* Mutant: the two retry counts are swapped.
modify_to_rts_swapped(a, c) ==
  [a EXCEPT !.state = "rts", !.timeout = AckTimeout_code(c.ack_timeout),
            !.retry_cnt = MaxRnrRetries_code(c.max_rnr_retries),
            !.rnr_retry = c.max_ack_retries, !.sq_psn = c.send_psn]

\* Mutant: the acknowledgement timeout is left at its reset value.
modify_to_rts_no_timeout(a, c) ==
  [a EXCEPT !.state = "rts", !.retry_cnt = c.max_ack_retries,
            !.rnr_retry = MaxRnrRetries_code(c.max_rnr_retries), !.sq_psn = c.send_psn]

modify_to_rts(a, c) ==
  [a EXCEPT !.state = "rts", !.timeout = AckTimeout_code(c.ack_timeout),
            !.retry_cnt = c.max_ack_retries,
            !.rnr_retry = MaxRnrRetries_code(c.max_rnr_retries), !.sq_psn = c.send_psn]

-----------------------------------------------------------------------------
(* The hardware.                                                           *)

\* The codes fit their fields; ibv_modify_qp fails otherwise.
Fits(c) ==
  AckTimeout_code(c.ack_timeout) < AckCodes /\ MaxRnrRetries_code(c.max_rnr_retries) <= 7

\* Resends after a silence: none at all when the timeout code is 0.
Resends(a) == a.timeout # 0

\* Is another RNR refusal, after n of them, borne?
Bears(a, n) == a.rnr_retry = 7 \/ n < a.rnr_retry

\* The wait an RNR refusal asks for.
RnrWait(a) == MinRnrTimer_duration(a.min_rnr_timer)
=============================================================================
