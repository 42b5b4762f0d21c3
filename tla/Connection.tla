----------------------------- MODULE Connection -----------------------------
(***************************************************************************)
(* One request over one connection, end to end: the handshake of the two    *)
(* queue pairs, each in its own time; the elements and the remote handle    *)
(* the program at end A makes its request of; the post; and what the two    *)
(* NICs do with it, over a network that loses packets and against an end B  *)
(* that may be late, refuse, deregister its memory or go.                   *)
(***************************************************************************)
EXTENDS MemoryBounds, QueuePairConfig, SequencesExt

CONSTANTS
  Scenarios,  \* settings of the two ends, their memory, and the choices of the program
  MaxSteps,   \* bound: derivations of one handle
  MaxRefused  \* bound: RNR refusals that are told apart

Ends == {"A", "B"}
None == << >>

\* Builder settings of any value the types admit: any byte in the public variants of
\* AckTimeout and MaxRnrRetries; an RNR timer asked for by any duration, or by a code.
IsSettings(c) ==
  /\ c.access \subseteq shared_access /\ c.send_psn \in Nat /\ c.recv_psn \in Nat
  /\ c.ack_timeout \in 0..255 \cup {Unlimited}
  /\ \E n \in 0..255 : c.max_ack_retries \in MaxAckRetries_limited(n)
  /\ c.max_rnr_retries \in 0..255 \cup {Unlimited}
  /\ c.rnr_wanted \in Nat
  /\ \/ c.min_rnr_timer = MinRnrTimer_min_duration_greater_than(c.rnr_wanted)
     \/ c.min_rnr_timer \in 0..31 /\ c.rnr_wanted = MinRnrTimer_duration(c.min_rnr_timer)

\* Memory registered from a slice the program holds, and the arguments its types admit.
IsScenario(s) ==
  LET from(mr) == [start |-> mr.address, len |-> mr.length]
      held(x) == x.start \in Nat /\ x.len \in Nat /\ IsSlice(x)
  IN  /\ \A e \in Ends : IsSettings(s.settings[e]) /\ (s.connected => Fits(s.settings[e]))
      /\ held(from(s.target)) /\ held(from(s.buffer)) /\ \A x \in s.slices : held(x)
      /\ s.target = IF s.shared THEN register_shared_mr(from(s.target))
                                ELSE register_local_mr(from(s.target))
      /\ s.buffer = register_local_mr(from(s.buffer))
      /\ s.offsets \subseteq Nat /\ s.indexes \subseteq Nat
      /\ \A t \in s.structs : t.size \in Nat /\ t.field \in Nat
      /\ s.ops \subseteq {"write", "read", "send"}

ASSUME ConnectionAssumption ==
  /\ MaxSteps \in Nat /\ MaxRefused \in Nat /\ MaxRefused > 7
  /\ \A s \in Scenarios : IsScenario(s)

VARIABLES
  sc,         \* the scenario
  attr,       \* queue pair of each end: its state and the attributes it was given
  registered, \* is B's memory still registered?
  handle,     \* the RemoteMemoryRegion A holds
  aim,        \* history: what the handle is meant to be, and how it was made
  elements,   \* elements of the request
  wr,         \* the request posted
  recv,       \* bytes a receive posted at B takes, or -1
  lost,       \* silences A's NIC has met
  refused,    \* RNR refusals A's NIC has met
  executed,   \* has B's NIC executed the request?
  arrived,    \* completion of the receive the request took at B
  moved,      \* addresses of B's memory the request has read or written
  result      \* "none", "Panic" or the completion's status

progVars == <<handle, aim, elements, wr>>
nicVars == <<lost, refused, executed, arrived, moved, result>>
vars == <<sc, attr, registered, progVars, recv, nicVars>>

Connected(c) == modify_to_rts(modify_to_rtr(modify_to_init(Reset, c), c), c)

Init ==
  /\ sc \in Scenarios
  /\ attr = [e \in Ends |-> IF sc.connected THEN Connected(sc.settings[e]) ELSE Reset]
  /\ registered = TRUE
  /\ handle = None /\ aim = [pos |-> 0, checked |-> TRUE, within |-> TRUE, steps |-> 0]
  /\ elements = << >> /\ wr = None /\ recv = -1
  /\ lost = 0 /\ refused = 0 /\ executed = FALSE /\ arrived = None /\ moved = {}
  /\ result = "none"

-----------------------------------------------------------------------------
(* PreparedQueuePair::handshake, at either end.                            *)

handshake(e) ==
  /\ \/ /\ attr[e].state = "reset"
        /\ attr' = [attr EXCEPT ![e] = modify_to_init(@, sc.settings[e])]
     \/ /\ attr[e].state = "init"
        /\ attr' = [attr EXCEPT ![e] = modify_to_rtr(@, sc.settings[e])]
     \/ /\ attr[e].state = "rtr" /\ Fits(sc.settings[e])
        /\ attr' = [attr EXCEPT ![e] = modify_to_rts(@, sc.settings[e])]
  /\ UNCHANGED <<sc, registered, progVars, recv, nicVars>>

\* An ibv_modify_qp fails and the PreparedQueuePair is dropped, or B drops its channel.
goes(e) ==
  /\ attr[e].state \in {"reset", "init", "rtr"} \/ (e = "B" /\ attr[e].state = "rts")
  /\ attr' = [attr EXCEPT ![e].state = "destroyed"]
  /\ UNCHANGED <<sc, registered, progVars, recv, nicVars>>

\* B drops its MemoryRegion.
deregister ==
  /\ registered /\ sc.leaves
  /\ registered' = FALSE
  /\ UNCHANGED <<sc, attr, progVars, recv, nicVars>>

\* B posts a receive, which a queue pair takes from Init on.
post_receive ==
  /\ attr["B"].state \in {"init", "rtr", "rts"} /\ recv = -1
  /\ \E n \in sc.receives : recv' = n
  /\ UNCHANGED <<sc, attr, registered, progVars, nicVars>>

-----------------------------------------------------------------------------
(* The program at A.                                                       *)

Preparing == wr = None /\ result = "none"

\* MemoryRegion::remote of B's memory, exchanged out of band.
receive_handle ==
  /\ Preparing /\ handle = None
  /\ handle' = remote(sc.target)
  /\ UNCHANGED <<sc, attr, registered, aim, elements, wr, recv, nicVars>>

Aimed(off, h, checked) ==
  [pos |-> aim.pos + off, checked |-> aim.checked /\ checked,
   within |-> aim.within /\ off <= h.length, steps |-> aim.steps + 1]

\* A handle at a checked offset; None leaves the program with the one it has.
derive(off) ==
  /\ Preparing /\ handle # None /\ aim.steps < MaxSteps
  /\ ~offset_overflows(off) /\ has_sub_region(handle, off)
  /\ handle' = sub_region(handle, off)
  /\ aim' = Aimed(off, handle, TRUE)
  /\ UNCHANGED <<sc, attr, registered, elements, wr, recv, nicVars>>

\* A handle at an offset nobody checks.
derive_unchecked(off) ==
  /\ Preparing /\ handle # None /\ aim.steps < MaxSteps
  /\ \/ /\ sc.debug
        /\ offset_overflows(off) \/ sub_region_overflows(handle, off)
        /\ result' = "Panic"
        /\ UNCHANGED <<handle, aim>>
     \/ /\ ~sc.debug \/ ~(offset_overflows(off) \/ sub_region_overflows(handle, off))
        /\ handle' = sub_region_unchecked(handle, off % Usize)
        /\ aim' = Aimed(off, handle, FALSE)
        /\ UNCHANGED result
  /\ UNCHANGED <<sc, attr, registered, elements, wr, recv, lost, refused, executed, arrived, moved>>

Derive(off) == derive(off) \/ derive_unchecked(off)

\* sub_region and the macros, each with its unchecked twin.
derivations ==
  \/ \E off \in sc.offsets : Derive(off)
  \/ \E t \in sc.structs :
       \/ Derive(struct_field_offset(t.field))
       \/ \E i \in sc.indexes :
            \/ Derive(array_offset(t.size, i))
            \/ Derive(struct_array_offset(t.size, i, t.field))

\* gather_element and scatter_element, and their checked and unchecked twins.
make_element(how, s) ==
  LET e == element(how, sc.debug, sc.buffer, s)
  IN  /\ Preparing /\ Len(elements) < sc.max_sge
      /\ e.kind \in {"Ok", "Panic"}
      /\ IF e.kind = "Ok"
         THEN /\ elements' = Append(elements, [how |-> how, slice |-> s, sge |-> e])
              /\ UNCHANGED result
         ELSE result' = "Panic" /\ UNCHANGED elements
      /\ UNCHANGED <<sc, attr, registered, handle, aim, wr, recv, lost, refused, executed, arrived, moved>>

\* Immediate data travels in network order: a word is a pair of bytes, and the hosts are
\* little-endian.  A request without it carries none.
to_be(w) == Reverse(w)
from_be(w) == Reverse(w)

\* SendWorkRequest and WriteWorkRequest, with_immediate and only_immediate; ReadWorkRequest.
request(op, imm) == [op |-> op, imm |-> imm]

\* post_write, post_read and post_send; a Channel exists once its handshake is done.
post(op, imm) ==
  /\ Preparing /\ attr["A"].state = "rts"
  /\ op \in {"write", "read"} => handle # None
  /\ op = "read" => imm = None
  /\ LET r == request(op, imm) IN wr' = [op |-> r.op, given |-> r.imm, imm |-> to_be(r.imm)]
  /\ UNCHANGED <<sc, attr, registered, handle, aim, elements, recv, nicVars>>

\* WorkCompletion::new of the receive, and WorkSuccess::immediate_data.
completion(imm, bytes) == [imm |-> imm, scattered_bytes |-> bytes]
immediate_data(c) == from_be(c.imm)

-----------------------------------------------------------------------------
(* The NICs.  A reads nothing of the handle but its address and key.        *)

Pending == wr # None /\ result = "none" /\ (lost = 0 \/ Resends(attr["A"]))
\* The bytes of elements of the given lengths, each counted once.
ByteCount(lens) == Cardinality(UNION {{k} \X (0..(lens[k] - 1)) : k \in DOMAIN lens})
Total == ByteCount([k \in DOMAIN elements |-> elements[k].sge.length])
Bytes(a, n) == {(a + k) % Usize : k \in 0..(n - 1)}
MrBytes(mr) == mr.address..(mr.address + mr.length - 1)

LocalFault ==
  \E k \in DOMAIN elements :
    LET e == elements[k].sge IN ~(Bytes(e.addr, e.length) \subseteq MrBytes(sc.buffer))

\* B's queue pair hears A's when it is ready and expects A's sequence number.
Hears == attr["B"].state \in {"rtr", "rts"} /\ attr["B"].rq_psn = attr["A"].sq_psn
TakesReceive == wr.op = "send" \/ wr.imm # None
RemoteFault ==
  \/ wr.op = "send" /\ Total > recv
  \/ /\ wr.op \in {"write", "read"} /\ Total > 0
     /\ LET right == IF wr.op = "write" THEN "remote_write" ELSE "remote_read"
        IN  ~ /\ registered /\ right \in attr["B"].access \cap sc.target.access
              /\ Bytes(handle.addr, Total) \subseteq MrBytes(sc.target)

Completes(status) == result' = status

nic_local_error ==
  /\ Pending /\ LocalFault
  /\ Completes("LocalProtection")
  /\ UNCHANGED <<sc, attr, registered, progVars, recv, lost, refused, executed, arrived, moved>>

\* Silence: B does not hear, the packet is lost, or its acknowledgement is.
nic_silence ==
  /\ Pending /\ ~LocalFault
  /\ lost' = lost + 1
  /\ IF Resends(attr["A"]) /\ lost >= attr["A"].retry_cnt
     THEN Completes("RetryExceeded") ELSE UNCHANGED result
  /\ UNCHANGED <<sc, attr, registered, progVars, recv, refused>>

Executes ==
  /\ executed' = TRUE
  /\ arrived' = IF TakesReceive THEN completion(wr.imm, Total) ELSE None
  /\ moved' = IF wr.op = "send" THEN {} ELSE Bytes(handle.addr, Total)

nic_lost ==
  /\ nic_silence
  /\ \/ UNCHANGED <<executed, arrived, moved>>
     \/ /\ Hears /\ ~executed /\ ~RemoteFault /\ (TakesReceive => recv # -1)
        /\ Executes

nic_not_ready ==
  /\ Pending /\ ~LocalFault /\ Hears /\ ~executed /\ TakesReceive /\ recv = -1
  /\ refused' = IF refused < MaxRefused THEN refused + 1 ELSE refused
  /\ IF Bears(attr["A"], refused) THEN UNCHANGED result ELSE Completes("RnrRetryExceeded")
  /\ UNCHANGED <<sc, attr, registered, progVars, recv, lost, executed, arrived, moved>>

nic_refuses ==
  /\ Pending /\ ~LocalFault /\ Hears /\ ~executed /\ (TakesReceive => recv # -1)
  /\ RemoteFault
  /\ Completes(IF wr.op = "send" THEN "RemoteInvalidRequest" ELSE "RemoteAccess")
  /\ UNCHANGED <<sc, attr, registered, progVars, recv, lost, refused, executed, arrived, moved>>

\* A request executed before is only acknowledged again.
nic_delivers ==
  /\ Pending /\ ~LocalFault /\ Hears
  /\ \/ executed /\ UNCHANGED <<executed, arrived, moved>>
     \/ ~executed /\ ~RemoteFault /\ (TakesReceive => recv # -1) /\ Executes
  /\ Completes("Ok")
  /\ UNCHANGED <<sc, attr, registered, progVars, recv, lost, refused>>

Nic == nic_local_error \/ nic_lost \/ nic_not_ready \/ nic_refuses \/ nic_delivers

\* The request is over, or nothing will ever be posted or resent.
Over ==
  /\ \/ result # "none"
     \/ wr = None /\ attr["A"].state = "destroyed"
     \/ wr # None /\ ~Pending
  /\ UNCHANGED vars

Program ==
  \/ receive_handle
  \/ derivations
  \/ \E s \in sc.slices, how \in {"new", "checked", "unchecked"} : make_element(how, s)
  \/ \E op \in sc.ops, imm \in {None, <<1, 2>>} : post(op, imm)

Next ==
  \/ result = "none" /\ (Program \/ \E e \in Ends : handshake(e) \/ (sc.leaves /\ goes(e)))
  \/ result = "none" /\ (deregister \/ post_receive)
  \/ Nic
  \/ Over

Spec == Init /\ [][Next]_vars

\* The NIC goes on with a request it was given.
FairSpec == Spec /\ WF_vars(Nic)

-----------------------------------------------------------------------------
(* Properties.                                                             *)

\* However a handle was derived, by checked steps, or by unchecked ones that kept within
\* the bounds, it starts exactly where the program meant and ends where B's region ends.
HandleExact ==
  handle # None /\ (aim.checked \/ aim.within) =>
    /\ handle.addr = sc.target.address + aim.pos
    /\ handle.addr + handle.length = sc.target.address + sc.target.length

AllChecked == \A k \in DOMAIN elements : elements[k].how = "checked"
MeantBytes == ByteCount([k \in DOMAIN elements |-> elements[k].slice.len])

\* A request of checked elements is never refused by A's own NIC, and when it succeeds it
\* has moved all the bytes of its slices, to or from the place that was meant, and B has
\* the immediate data it was given; memory B did not share is never moved.
TransferExact ==
  /\ AllChecked => result # "LocalProtection"
  /\ AllChecked /\ result = "Ok" => Total = MeantBytes
  /\ (aim.checked \/ aim.within) /\ result = "Ok" /\ wr.op # "send" =>
       moved = {sc.target.address + aim.pos + k : k \in 0..(Total - 1)}
  /\ result = "Ok" /\ TakesReceive => arrived # None /\ immediate_data(arrived) = wr.given
  /\ moved # {} => sc.shared

\* The hardware is as patient as the builder was told.  It bears exactly the refusals
\* asked for when they are 0 to 6, and any number otherwise (Limited(7) has the code of
\* Unlimited); it gives up on silence only after the resends asked for, and never under
\* an unlimited timeout (Limited(0) has its code).  A refusal asks for the shortest wait
\* that covers the duration B wanted, or for the longest there is when none covers it.
PatienceAsConfigured ==
  LET a == sc.settings["A"]
      wanted == sc.settings["B"].rnr_wanted
      wait == RnrWait(attr["B"])
  IN  /\ a.max_rnr_retries \notin 0..6 => result # "RnrRetryExceeded"
      /\ a.max_rnr_retries \in 0..6 =>
           /\ refused <= a.max_rnr_retries + 1
           /\ result = "RnrRetryExceeded" <=> refused = a.max_rnr_retries + 1
      /\ lost <= a.max_ack_retries + 1
      /\ result = "RetryExceeded" =>
           lost = a.max_ack_retries + 1 /\ a.ack_timeout \notin {0, Unlimited}
      /\ refused > 0 =>
           /\ wanted <= DURATION_ZERO => wait >= wanted
           /\ wanted > DURATION_ZERO => wait = DURATION_ZERO
           /\ \A d \in Range(DURATION_TABLE) : d >= wanted => wait <= d

\* A request that was posted is answered, whatever is lost and whoever goes, unless the
\* acknowledgement timeout or the patience with an absent receive has no limit, by name
\* or by its code.
Answered ==
  (/\ wr # None /\ sc.settings["A"].ack_timeout \notin {0, Unlimited}
   /\ sc.settings["A"].max_rnr_retries \in 0..6 \/ recv # -1)
    ~> (result # "none")

\* A queue pair that is ready to send waits as the docs of the two conversions from a
\* duration say: "Calculates the smallest timeout code that covers the given `timeout`
\* duration" of the acknowledgement timeout, and "Finds the smallest RNR timer code that
\* represents a duration greater than `timeout`" of the RNR timer.
AckTimeoutCovers == AckTimeout_duration(attr["A"].timeout) >= sc.settings["A"].ack_wanted
RnrWaitGreater == RnrWait(attr["A"]) > sc.settings["A"].rnr_wanted
WaitsAsDocumented == attr["A"].state = "rts" => AckTimeoutCovers /\ RnrWaitGreater
=============================================================================
