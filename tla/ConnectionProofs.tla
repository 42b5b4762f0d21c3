-------------------------- MODULE ConnectionProofs --------------------------
(***************************************************************************)
(* Proofs about one request over one connection, for any width of the       *)
(* machine words, any memory, offsets, slices and settings the types of the *)
(* code admit: a handle points where it was meant to, a request moves the   *)
(* bytes it was made for and no others, and the hardware is as patient as   *)
(* it was told to be.                                                       *)
(***************************************************************************)
EXTENDS Connection, FiniteSetTheorems, WellFoundedInduction, NaturalsInduction, TLAPS

-----------------------------------------------------------------------------
(* The invariant.                                                          *)

States == {"reset", "init", "rtr", "rts", "destroyed"}
Attrs ==
  [state : States, access : SUBSET shared_access, rq_psn : Nat, min_rnr_timer : Nat,
   timeout : Nat, retry_cnt : Nat, rnr_retry : Nat, sq_psn : Nat]

\* What a queue pair has been given so far.
Programmed(a, c) ==
  /\ a.state \in {"rtr", "rts"} => a.min_rnr_timer = c.min_rnr_timer
  /\ a.state = "rts" =>
       /\ a.timeout = AckTimeout_code(c.ack_timeout) /\ a.retry_cnt = c.max_ack_retries
       /\ a.rnr_retry = MaxRnrRetries_code(c.max_rnr_retries) /\ Fits(c)

AttrInv ==
  /\ sc \in Scenarios /\ attr \in [Ends -> Attrs]
  /\ \A e \in Ends : Programmed(attr[e], sc.settings[e])

Handles == [addr : Nat, length : Nat]
Aims == [pos : Nat, checked : BOOLEAN, within : BOOLEAN, steps : Nat]

\* A handle starts where it was meant to start, unless an unchecked step left its region.
HandleInv ==
  /\ handle = None \/ handle \in Handles
  /\ aim \in Aims /\ (handle = None => aim.pos = 0)
  /\ HandleExact

Hows == {"new", "checked", "unchecked"}
Elements(slices) == [how : Hows, slice : slices, sge : [kind : {"Ok"}, addr : Nat, length : Nat]]

\* Every element is made of its slice, and a checked one of a slice of the buffer that is
\* not too long.
ElementInv ==
  /\ elements \in Seq(Elements(sc.slices))
  /\ \A k \in DOMAIN elements :
       /\ elements[k].sge = Sge(elements[k].slice)
       /\ elements[k].how = "checked" =>
            /\ elements[k].slice.len < U32
            /\ encloses(sc.buffer, elements[k].slice.start, elements[k].slice.len)

Immediates == {None, <<1, 2>>}

\* A request is posted once A is connected, with a handle if it needs one.
RequestInv ==
  /\ wr # None =>
       /\ wr \in [op : {"write", "read", "send"}, given : Immediates, imm : Seq(Nat)]
       /\ wr.imm = to_be(wr.given)
       /\ wr.op # "send" => handle # None
       /\ attr["A"].state = "rts"
  /\ wr = None =>
       lost = 0 /\ refused = 0 /\ executed = FALSE /\ result \in {"none", "Panic"}

\* Executing a request has the effect meant by its arguments, on memory that is shared.
EffectInv ==
  /\ executed \in BOOLEAN
  /\ ~executed => moved = {}
  /\ executed =>
       /\ TakesReceive => arrived = completion(wr.imm, Total)
       /\ wr.op = "send" => moved = {}
       /\ wr.op # "send" =>
            /\ moved = Bytes(handle.addr, Total)
            /\ Total > 0 => sc.shared /\ Bytes(handle.addr, Total) \subseteq MrBytes(sc.target)
  /\ result = "Ok" => executed
  /\ result = "LocalProtection" => LocalFault

\* No acknowledgement timeout, by name or by its code; a limit to the refusals.
Waived(c) == c.ack_timeout \in {0, Unlimited}
Limited(c) == c.max_rnr_retries \in 0..6

\* Silences and refusals are counted up to what was programmed.
PatienceInv ==
  LET a == sc.settings["A"]
  IN  /\ lost \in Nat /\ refused \in Nat
      /\ result = "none" => lost <= a.max_ack_retries \/ (lost = 1 /\ Waived(a))
      /\ lost <= a.max_ack_retries + 1
      /\ result = "RetryExceeded" => lost = a.max_ack_retries + 1 /\ ~Waived(a)
      /\ ~Limited(a) => result # "RnrRetryExceeded"
      /\ Limited(a) =>
           /\ refused <= a.max_rnr_retries + 1
           /\ result = "RnrRetryExceeded" <=> refused = a.max_rnr_retries + 1
      /\ refused > 0 => attr["B"].min_rnr_timer = sc.settings["B"].min_rnr_timer

IInv ==
  AttrInv /\ HandleInv /\ ElementInv /\ RequestInv /\ EffectInv /\ PatienceInv

-----------------------------------------------------------------------------
(* Scenarios, and the arithmetic of regions.                               *)

\* A region within the address space.
IsRegion(mr) ==
  mr.address \in Nat /\ mr.length \in Nat /\ mr.address + mr.length < Usize

\* What the types of the code say of memory and slices.
LEMMA ScenarioMemory ==
  ASSUME NEW s \in Scenarios
  PROVE  /\ IsRegion(s.target) /\ IsRegion(s.buffer)
         /\ \A x \in s.slices : x.start \in Nat /\ x.len \in Nat /\ x.start + x.len < Usize
<1>1. IsScenario(s)
  BY ConnectionAssumption
<1> QED
  BY <1>1 DEF IsScenario, IsRegion, IsSlice

\* Memory that a peer may read or write was shared.
LEMMA ScenarioShared ==
  ASSUME NEW s \in Scenarios, NEW r \in {"remote_read", "remote_write"}, r \in s.target.access
  PROVE  s.shared
<1>1. IsScenario(s)
  BY ConnectionAssumption
<1>2. ASSUME ~s.shared PROVE s.target.access = local_access
  BY <1>1, <1>2 DEF IsScenario, register_local_mr, register_mr_with_access
<1> QED
  BY <1>2 DEF local_access

\* What the types say of the settings.
LEMMA ScenarioSettings ==
  ASSUME NEW s \in Scenarios, NEW e \in Ends
  PROVE  IsSettings(s.settings[e]) /\ (s.connected => Fits(s.settings[e]))
  BY ConnectionAssumption DEF IsScenario

\* The values the types admit.
LEMMA SettingRanges ==
  ASSUME NEW c, IsSettings(c)
  PROVE  /\ c.ack_timeout \in 0..255 \cup {Unlimited}
         /\ c.max_ack_retries \in 0..7
         /\ c.max_rnr_retries \in 0..255 \cup {Unlimited}
  BY DEF IsSettings, MaxAckRetries_limited

\* The codes that fit their fields.
LEMMA FittingCodes ==
  ASSUME NEW c, IsSettings(c), Fits(c)
  PROVE  /\ AckTimeout_code(c.ack_timeout) = 0 <=> Waived(c)
         /\ Limited(c) => MaxRnrRetries_code(c.max_rnr_retries) = c.max_rnr_retries
         /\ ~Limited(c) => MaxRnrRetries_code(c.max_rnr_retries) = 7
<1>1. AckTimeout_code(c.ack_timeout) = 0 <=> Waived(c)
  BY SettingRanges DEF AckTimeout_code, Waived, Unlimited
<1>2. Limited(c) => MaxRnrRetries_code(c.max_rnr_retries) = c.max_rnr_retries
  BY DEF Limited, MaxRnrRetries_code, Unlimited
<1>3. ~Limited(c) => MaxRnrRetries_code(c.max_rnr_retries) = 7
  BY SettingRanges DEF Limited, MaxRnrRetries_code, Unlimited, Fits
<1> QED
  BY <1>1, <1>2, <1>3

\* Offsets and operations of the program.
LEMMA ScenarioProgram ==
  ASSUME NEW s \in Scenarios
  PROVE  /\ \A off \in s.offsets : off \in Nat
         /\ \A i \in s.indexes : i \in Nat
         /\ \A t \in s.structs : t.size \in Nat /\ t.field \in Nat
         /\ \A op \in s.ops : op \in {"write", "read", "send"}
<1>1. IsScenario(s)
  BY ConnectionAssumption
<1> QED
  BY <1>1 DEF IsScenario

\* Bytes from an address that stay within the words do not wrap.
LEMMA BytesInOrder ==
  ASSUME NEW a \in Nat, NEW n \in Nat, a + n <= Usize
  PROVE  Bytes(a, n) = {a + k : k \in 0..(n - 1)}
<1>1. Usize \in Nat /\ Usize > 0
  BY BoundsAssumption
<1>2. \A k \in 0..(n - 1) : (a + k) % Usize = a + k
  <2> SUFFICES ASSUME NEW k \in 0..(n - 1) PROVE (a + k) % Usize = a + k
    OBVIOUS
  <2>1. a + k \in Nat /\ a + k < Usize
    BY <1>1
  <2> QED
    BY <1>1, <2>1
<1> QED
  BY <1>2 DEF Bytes

\* Bytes from an address of a region that are all in the region end before it does.
LEMMA BytesWithin ==
  ASSUME NEW mr, IsRegion(mr), NEW a \in Nat, NEW n \in Nat, n > 0,
         a >= mr.address, a <= mr.address + mr.length, Bytes(a, n) \subseteq MrBytes(mr)
  PROVE  a + n <= mr.address + mr.length
<1> DEFINE top == mr.address + mr.length
<1>1. top \in Nat /\ top < Usize /\ Usize \in Nat
  BY BoundsAssumption DEF IsRegion
<1> SUFFICES ASSUME a + n > top PROVE FALSE
  BY <1>1
<1> DEFINE k == top - a
<1>2. k \in 0..(n - 1) /\ a + k = top
  BY <1>1
<1>3. (a + k) % Usize = top
  BY <1>1, <1>2
<1>4. top \in Bytes(a, n)
  BY <1>2, <1>3 DEF Bytes
<1>5. top \notin MrBytes(mr)
  BY <1>1 DEF MrBytes, IsRegion
<1> QED
  BY <1>4, <1>5

\* A slice that a region encloses is made of bytes of the region.
LEMMA EnclosedBytes ==
  ASSUME NEW mr, IsRegion(mr), NEW a \in Nat, NEW n \in Nat, encloses(mr, a, n)
  PROVE  Bytes(a, n) \subseteq MrBytes(mr)
<1>1. mr.address \in Nat /\ mr.length \in Nat /\ mr.address + mr.length < Usize /\ Usize \in Nat
  BY BoundsAssumption DEF IsRegion
<1>2. CASE n = 0
  BY <1>2 DEF Bytes
<1>3. CASE n > 0
  <2>1. a >= mr.address /\ a + n <= mr.address + mr.length
    BY <1>1, <1>3 DEF encloses, saturating_sub
  <2>2. Bytes(a, n) = {a + k : k \in 0..(n - 1)}
    <3>1. a + n <= Usize
      BY <1>1, <2>1
    <3> QED
      BY <3>1, BytesInOrder
  <2> QED
    BY <1>1, <2>1, <2>2 DEF MrBytes
<1> QED
  BY <1>2, <1>3

-----------------------------------------------------------------------------
(* Elements.                                                               *)

\* The number of bytes is a number.
LEMMA ByteCountType ==
  ASSUME NEW n \in Nat, NEW m \in Nat, NEW lens \in [1..n -> 0..m]
  PROVE  ByteCount(lens) \in Nat
<1> DEFINE U == UNION {{k} \X (0..(lens[k] - 1)) : k \in DOMAIN lens}
<1>1. U \in SUBSET ((1..n) \X (0..m))
  <2>1. ASSUME NEW k \in 1..n PROVE {k} \X (0..(lens[k] - 1)) \subseteq (1..n) \X (0..m)
    <3>1. lens[k] \in 0..m
      OBVIOUS
    <3>2. 0..(lens[k] - 1) \subseteq 0..m
      BY <3>1
    <3> QED
      BY <3>2
  <2> QED
    BY <2>1
<1> HIDE DEF U
<1>2. IsFiniteSet(1..n) /\ IsFiniteSet(0..m)
  BY FS_Interval
<1>3. IsFiniteSet((1..n) \X (0..m))
  BY <1>2, FS_Product
<1>4. IsFiniteSet(U)
  BY <1>1, <1>3, FS_Subset
<1> QED
  BY <1>4, FS_CardinalityType DEF ByteCount, U

\* What the elements of a request are, taken together.
LEMMA ElementFacts ==
  ASSUME AttrInv, ElementInv
  PROVE  /\ Total \in Nat
         /\ AllChecked => Total = MeantBytes
         /\ AllChecked => ~LocalFault
<1>1. sc \in Scenarios /\ U32 \in Nat /\ U32 > 0
  BY BoundsAssumption DEF AttrInv
<1> DEFINE n == Len(elements)
           f == [k \in DOMAIN elements |-> elements[k].sge.length]
           g == [k \in DOMAIN elements |-> elements[k].slice.len]
<1>2. n \in Nat /\ DOMAIN elements = 1..n
  BY DEF ElementInv
<1>3. ASSUME NEW k \in 1..n
      PROVE  /\ elements[k].slice.start \in Nat /\ elements[k].slice.len \in Nat
             /\ elements[k].sge.addr = elements[k].slice.start
             /\ elements[k].sge.length = elements[k].slice.len % U32
             /\ elements[k].how = "checked" =>
                  /\ elements[k].slice.len < U32
                  /\ encloses(sc.buffer, elements[k].slice.start, elements[k].slice.len)
  <2>1. elements[k].slice \in sc.slices
    <3>1. elements[k] \in Elements(sc.slices)
      BY <1>2 DEF ElementInv
    <3> QED
      BY <3>1 DEF Elements
  <2>2. elements[k].slice.start \in Nat /\ elements[k].slice.len \in Nat
    BY <1>1, <2>1, ScenarioMemory
  <2>3. elements[k].sge = Sge(elements[k].slice)
    BY <1>2 DEF ElementInv
  <2>4. /\ elements[k].sge.addr = elements[k].slice.start
        /\ elements[k].sge.length = elements[k].slice.len % U32
    BY <2>3 DEF Sge
  <2>5. elements[k].how = "checked" =>
          /\ elements[k].slice.len < U32
          /\ encloses(sc.buffer, elements[k].slice.start, elements[k].slice.len)
    BY <1>2 DEF ElementInv
  <2> QED
    BY <2>2, <2>4, <2>5
<1> HIDE DEF n
<1>4. Total \in Nat
  <2>1. f \in [1..n -> 0..U32]
    <3>1. ASSUME NEW k \in 1..n PROVE elements[k].slice.len % U32 \in 0..U32
      BY <1>1, <1>3
    <3> QED
      BY <1>2, <1>3, <3>1
  <2> HIDE DEF f
  <2>2. ByteCount(f) \in Nat
    BY <1>1, <1>2, <2>1, ByteCountType
  <2> QED
    BY <2>2 DEF Total, f
<1>5. ASSUME AllChecked, NEW k \in 1..n
      PROVE  elements[k].sge.length = elements[k].slice.len
  <2>1. elements[k].how = "checked"
    BY <1>2, <1>5 DEF AllChecked
  <2> QED
    BY <1>1, <1>3, <2>1
<1>6. ASSUME AllChecked PROVE Total = MeantBytes
  <2>1. f = g
    BY <1>2, <1>5, <1>6
  <2> HIDE DEF f, g
  <2>2. ByteCount(f) = ByteCount(g)
    BY <2>1
  <2> QED
    BY <2>2 DEF Total, MeantBytes, f, g
<1>7. ASSUME AllChecked, NEW k \in 1..n
      PROVE  Bytes(elements[k].sge.addr, elements[k].sge.length) \subseteq MrBytes(sc.buffer)
  <2>1. elements[k].how = "checked"
    BY <1>2, <1>7 DEF AllChecked
  <2>2. IsRegion(sc.buffer)
    BY <1>1, ScenarioMemory
  <2>3. Bytes(elements[k].slice.start, elements[k].slice.len) \subseteq MrBytes(sc.buffer)
    BY <1>3, <2>1, <2>2, EnclosedBytes
  <2> QED
    BY <1>3, <1>5, <1>7, <2>3
<1>8. AllChecked => ~LocalFault
  BY <1>2, <1>7 DEF LocalFault
<1> QED
  BY <1>4, <1>6, <1>8

-----------------------------------------------------------------------------
(* Steps of the handshake and of the program.                              *)

\* The state functions that the properties read of the request.
LEMMA RequestKept ==
  ASSUME UNCHANGED <<sc, handle, elements, wr>>
  PROVE  /\ Total' = Total /\ (LocalFault' <=> LocalFault) /\ (TakesReceive' <=> TakesReceive)
         /\ (AllChecked' <=> AllChecked) /\ MeantBytes' = MeantBytes
  BY DEF Total, LocalFault, TakesReceive, AllChecked, MeantBytes, Bytes, MrBytes

\* A queue pair keeps what it was given and gets what it is programmed with.
LEMMA Modified ==
  ASSUME NEW a \in Attrs, NEW c, IsSettings(c), Programmed(a, c)
  PROVE  /\ modify_to_init(a, c) \in Attrs /\ Programmed(modify_to_init(a, c), c)
         /\ modify_to_rtr(a, c) \in Attrs /\ Programmed(modify_to_rtr(a, c), c)
         /\ a.state = "rtr" /\ Fits(c) =>
              modify_to_rts(a, c) \in Attrs /\ Programmed(modify_to_rts(a, c), c)
         /\ [a EXCEPT !.state = "destroyed"] \in Attrs
         /\ Programmed([a EXCEPT !.state = "destroyed"], c)
<1>1. /\ c.access \in SUBSET shared_access /\ c.recv_psn \in Nat /\ c.send_psn \in Nat
      /\ c.max_ack_retries \in Nat
      /\ AckTimeout_code(c.ack_timeout) \in Nat /\ MaxRnrRetries_code(c.max_rnr_retries) \in Nat
  <2>1. c.access \in SUBSET shared_access /\ c.recv_psn \in Nat /\ c.send_psn \in Nat
    BY DEF IsSettings
  <2> QED
    BY <2>1, SettingRanges, ConfigAssumption DEF AckTimeout_code, MaxRnrRetries_code, Unlimited
<1>2. c.min_rnr_timer \in Nat
  <2>1. first_not_less(c.rnr_wanted) \in Nat
    <3> DEFINE m == Len(DURATION_TABLE)
               D == {k \in 1..m : DURATION_TABLE[k] < c.rnr_wanted}
    <3>1. m \in Int
      BY DEF DURATION_TABLE
    <3> HIDE DEF m
    <3>2. IsFiniteSet(1..m)
      BY <3>1, FS_Interval
    <3>3. D \in SUBSET (1..m)
      OBVIOUS
    <3> HIDE DEF D
    <3>4. IsFiniteSet(D)
      BY <3>2, <3>3, FS_Subset
    <3>5. Cardinality(D) \in Nat
      BY <3>4, FS_CardinalityType
    <3> QED
      BY <3>5 DEF D, m, first_not_less
  <2>2. MinRnrTimer_min_duration_greater_than(c.rnr_wanted) \in Nat
    BY <2>1 DEF MinRnrTimer_min_duration_greater_than
  <2>3. \/ c.min_rnr_timer = MinRnrTimer_min_duration_greater_than(c.rnr_wanted)
        \/ c.min_rnr_timer \in 0..31
    BY DEF IsSettings
  <2> QED
    BY <2>2, <2>3
<1> USE DEF Attrs, States, Programmed
<1>3. modify_to_init(a, c) \in Attrs /\ Programmed(modify_to_init(a, c), c)
  BY <1>1 DEF modify_to_init
<1>4. modify_to_rtr(a, c) \in Attrs /\ Programmed(modify_to_rtr(a, c), c)
  BY <1>1, <1>2 DEF modify_to_rtr
<1>5. ASSUME a.state = "rtr", Fits(c)
      PROVE  modify_to_rts(a, c) \in Attrs /\ Programmed(modify_to_rts(a, c), c)
  <2> DEFINE t == AckTimeout_code(c.ack_timeout)
             m == MaxRnrRetries_code(c.max_rnr_retries)
  <2>1. t \in Nat /\ m \in Nat
    BY <1>1
  <2>2. modify_to_rts(a, c) =
          [a EXCEPT !.state = "rts", !.timeout = t, !.retry_cnt = c.max_ack_retries,
                    !.rnr_retry = m, !.sq_psn = c.send_psn]
    BY DEF modify_to_rts
  <2> HIDE DEF t, m
  <2>3. modify_to_rts(a, c) \in Attrs
    BY <1>1, <2>1, <2>2
  <2>4. Programmed(modify_to_rts(a, c), c)
    BY <1>5, <2>2 DEF t, m
  <2> QED
    BY <2>3, <2>4
<1>6. /\ [a EXCEPT !.state = "destroyed"] \in Attrs
      /\ Programmed([a EXCEPT !.state = "destroyed"], c)
  OBVIOUS
<1> QED
  BY <1>3, <1>4, <1>5, <1>6

\* What the handshake, or the end, of a queue pair does.
LEMMA EndStep ==
  ASSUME IInv, NEW e \in Ends, handshake(e) \/ goes(e)
  PROVE  IInv'
<1> DEFINE c == sc.settings[e]
           a == attr[e]
<1>1. /\ sc \in Scenarios /\ attr \in [Ends -> Attrs] /\ a \in Attrs
      /\ \A x \in Ends : Programmed(attr[x], sc.settings[x])
  BY DEF IInv, AttrInv
<1>2. IsSettings(c)
  BY <1>1, ScenarioSettings
<1>3. UNCHANGED <<sc, registered, progVars, recv, nicVars>>
  BY DEF handshake, goes
<1>4. UNCHANGED <<sc, handle, aim, elements, wr, lost, refused, executed, arrived, moved, result>>
  BY <1>3 DEF progVars, nicVars
<1>5. PICK b : /\ attr' = [attr EXCEPT ![e] = b] /\ b \in Attrs /\ Programmed(b, c)
               /\ b.min_rnr_timer \in {a.min_rnr_timer, c.min_rnr_timer}
               /\ e = "A" => a.state # "rts"
  <2>0. Programmed(a, c)
    BY <1>1
  <2>1. CASE a.state = "reset" /\ attr' = [attr EXCEPT ![e] = modify_to_init(a, c)]
    <3>1. modify_to_init(a, c).min_rnr_timer = a.min_rnr_timer
      BY <1>1 DEF modify_to_init, Attrs
    <3> QED
      BY <1>1, <1>2, <2>0, <2>1, <3>1, Modified
  <2>2. CASE a.state = "init" /\ attr' = [attr EXCEPT ![e] = modify_to_rtr(a, c)]
    <3>1. modify_to_rtr(a, c).min_rnr_timer = c.min_rnr_timer
      BY <1>1 DEF modify_to_rtr, Attrs
    <3> QED
      BY <1>1, <1>2, <2>0, <2>2, <3>1, Modified
  <2>3. CASE a.state = "rtr" /\ Fits(c) /\ attr' = [attr EXCEPT ![e] = modify_to_rts(a, c)]
    <3>1. modify_to_rts(a, c).min_rnr_timer = a.min_rnr_timer
      BY <1>1 DEF modify_to_rts, Attrs
    <3> QED
      BY <1>1, <1>2, <2>0, <2>3, <3>1, Modified
  <2>4. CASE goes(e)
    <3> DEFINE d == [a EXCEPT !.state = "destroyed"]
    <3>1. attr' = [attr EXCEPT ![e] = d]
      BY <2>4 DEF goes
    <3>2. d.min_rnr_timer = a.min_rnr_timer
      BY <1>1 DEF Attrs
    <3>3. e = "A" => a.state # "rts"
      BY <2>4 DEF goes
    <3>4. d \in Attrs /\ Programmed(d, c)
      BY <1>1, <1>2, <2>0, Modified
    <3> QED
      BY <3>1, <3>2, <3>3, <3>4
  <2> QED
    BY <2>1, <2>2, <2>3, <2>4 DEF handshake
<1>6. attr' \in [Ends -> Attrs] /\ attr'[e] = b /\ \A x \in Ends \ {e} : attr'[x] = attr[x]
  BY <1>1, <1>5
<1>7. AttrInv'
  BY <1>1, <1>4, <1>5, <1>6 DEF AttrInv
<1>8. HandleInv' /\ ElementInv'
  BY <1>4 DEF IInv, HandleInv, HandleExact, ElementInv
<1>9. EffectInv'
  BY <1>4, RequestKept DEF IInv, EffectInv, Bytes, MrBytes
<1>10. "A" \in Ends /\ "B" \in Ends
  BY DEF Ends
<1>11. wr # None => attr["A"].state = "rts"
  BY DEF IInv, RequestInv
<1>12. wr # None => attr'["A"].state = "rts"
  BY <1>5, <1>6, <1>10, <1>11
<1>13. RequestInv'
  BY <1>4, <1>12 DEF IInv, RequestInv
<1>14. attr["B"].min_rnr_timer = sc.settings["B"].min_rnr_timer =>
         attr'["B"].min_rnr_timer = sc.settings["B"].min_rnr_timer
  BY <1>5, <1>6, <1>10
<1>15. PatienceInv'
  BY <1>4, <1>14 DEF IInv, PatienceInv
<1> QED
  BY <1>7, <1>8, <1>9, <1>13, <1>15 DEF IInv

\* A step that touches neither a queue pair nor the request.
LEMMA Kept ==
  ASSUME IInv, UNCHANGED <<sc, attr, progVars, nicVars>>
  PROVE  IInv'
<1>1. /\ UNCHANGED <<sc, attr, handle, aim, elements, wr>>
      /\ UNCHANGED <<lost, refused, executed, arrived, moved, result>>
  BY DEF progVars, nicVars
<1>2. AttrInv' /\ HandleInv' /\ ElementInv' /\ RequestInv' /\ PatienceInv'
  BY <1>1 DEF IInv, AttrInv, HandleInv, HandleExact, ElementInv, RequestInv, PatienceInv
<1>3. EffectInv'
  BY <1>1, RequestKept DEF IInv, EffectInv, Bytes, MrBytes
<1> QED
  BY <1>2, <1>3 DEF IInv

\* While the program prepares its request, nothing has been done with it.
LEMMA PreparingStep ==
  ASSUME IInv, Preparing, UNCHANGED <<sc, attr, lost, refused, executed, arrived, moved>>,
         result' \in {"none", "Panic"}, wr' = None
  PROVE  AttrInv' /\ RequestInv' /\ EffectInv' /\ PatienceInv'
<1>1. wr = None /\ result = "none" /\ lost = 0 /\ refused = 0 /\ executed = FALSE /\ moved = {}
  BY DEF Preparing, IInv, RequestInv, EffectInv
<1>2. IsSettings(sc.settings["A"])
  BY ScenarioSettings DEF IInv, AttrInv, Ends
<1>3. AttrInv'
  BY DEF IInv, AttrInv
<1>4. RequestInv'
  BY <1>1 DEF RequestInv
<1>5. EffectInv'
  BY <1>1 DEF EffectInv
<1>6. sc.settings["A"].max_ack_retries \in Nat
  BY <1>2, SettingRanges
<1>7. Limited(sc.settings["A"]) => sc.settings["A"].max_rnr_retries \in Nat
  BY DEF Limited
<1>8. PatienceInv'
  BY <1>1, <1>6, <1>7 DEF PatienceInv
<1> QED
  BY <1>3, <1>4, <1>5, <1>8

\* A handle that is received covers the region it was made for.
LEMMA ReceiveStep ==
  ASSUME IInv, receive_handle
  PROVE  IInv'
<1>1. /\ Preparing /\ handle = None /\ handle' = remote(sc.target)
      /\ UNCHANGED <<sc, attr, aim, elements, wr, nicVars>>
  BY DEF receive_handle
<1>2. UNCHANGED <<lost, refused, executed, arrived, moved, result>>
  BY <1>1 DEF nicVars
<1>3. AttrInv' /\ RequestInv' /\ EffectInv' /\ PatienceInv'
  BY <1>1, <1>2, PreparingStep DEF Preparing
<1>4. ElementInv'
  BY <1>1 DEF IInv, ElementInv
<1>5. IsRegion(sc.target)
  BY ScenarioMemory DEF IInv, AttrInv
<1>6. aim.pos = 0 /\ aim \in Aims
  BY <1>1 DEF IInv, HandleInv
<1>7. /\ handle' \in Handles /\ handle'.addr = sc.target.address
      /\ handle'.length = sc.target.length
  BY <1>1, <1>5 DEF remote, Handles, IsRegion
<1>8. HandleExact'
  BY <1>1, <1>5, <1>6, <1>7 DEF HandleExact, IsRegion
<1>9. HandleInv'
  BY <1>1, <1>6, <1>7, <1>8 DEF HandleInv
<1> QED
  BY <1>3, <1>4, <1>9 DEF IInv

\* A handle is not the absence of one.
LEMMA HandleIsNotNone == \A h \in Handles : h # None
<1> SUFFICES ASSUME NEW h \in Handles, h = None PROVE FALSE
  OBVIOUS
<1>1. "addr" \in DOMAIN h
  BY DEF Handles
<1>2. DOMAIN None = {}
  BY DEF None
<1> QED
  BY <1>1, <1>2

\* A derived handle is exact if its steps were checked or kept within their region.
LEMMA DeriveExact ==
  ASSUME IInv, NEW off \in Nat, handle # None, sc' = sc,
         \/ derive(off)
         \/ /\ handle' = sub_region_unchecked(handle, off % Usize)
            /\ aim' = Aimed(off, handle, FALSE)
  PROVE  HandleInv'
<1> DEFINE T == sc.target
           top == T.address + T.length
<1>1. /\ T.address \in Nat /\ T.length \in Nat /\ top \in Nat /\ top < Usize
      /\ Usize \in Nat /\ Usize > 0
  BY ScenarioMemory, BoundsAssumption DEF IInv, AttrInv, IsRegion
<1>2. handle \in Handles /\ aim \in Aims
  BY DEF IInv, HandleInv
<1>3. /\ handle.addr \in Nat /\ handle.length \in Nat /\ aim.pos \in Nat
      /\ aim.checked \in BOOLEAN /\ aim.within \in BOOLEAN /\ aim.steps \in Nat
  BY <1>2 DEF Handles, Aims
<1>4. aim.checked \/ aim.within =>
        handle.addr = T.address + aim.pos /\ handle.addr + handle.length = top
  BY DEF IInv, HandleInv, HandleExact
<1> HIDE DEF T, top
<1>5. ASSUME derive(off)
      PROVE  HandleInv'
  <2>1. /\ off <= handle.length /\ handle' = sub_region(handle, off)
        /\ aim' = Aimed(off, handle, TRUE)
    BY <1>5 DEF derive, has_sub_region
  <2>2. /\ handle' = [addr |-> handle.addr + off, length |-> handle.length - off]
        /\ handle.addr + off \in Nat /\ handle.length - off \in Nat
    BY <1>3, <2>1 DEF sub_region
  <2>3. aim' = [pos |-> aim.pos + off, checked |-> aim.checked /\ TRUE,
                within |-> aim.within /\ off <= handle.length, steps |-> aim.steps + 1]
    BY <2>1 DEF Aimed
  <2>4. handle' \in Handles /\ handle'.addr = handle.addr + off /\ handle'.length = handle.length - off
    BY <2>2 DEF Handles
  <2>5. /\ aim' \in Aims /\ aim'.pos = aim.pos + off
        /\ aim'.checked \/ aim'.within => aim.checked \/ aim.within
    <3>1. aim.pos + off \in Nat /\ aim.steps + 1 \in Nat
      BY <1>3
    <3> QED
      BY <1>3, <2>3, <3>1 DEF Aims
  <2>6. aim'.checked \/ aim'.within =>
          handle'.addr = T.address + aim'.pos /\ handle'.addr + handle'.length = top
    BY <1>1, <1>3, <1>4, <2>4, <2>5
  <2> QED
    BY <2>4, <2>5, <2>6, HandleIsNotNone DEF HandleInv, HandleExact, T, top
<1>6. ASSUME handle' = sub_region_unchecked(handle, off % Usize), aim' = Aimed(off, handle, FALSE)
      PROVE  HandleInv'
  <2> DEFINE o == off % Usize
             x == (handle.addr + o) % Usize
             y == (handle.length - o) % Usize
  <2>1. o \in Nat
    BY <1>1
  <2>2. handle' = [addr |-> x, length |-> y]
    BY <1>6 DEF sub_region_unchecked
  <2>3. x \in Nat /\ y \in Nat
    <3>1. handle.addr + o \in Int /\ handle.length - o \in Int
      BY <1>3, <2>1
    <3> HIDE DEF o
    <3> QED
      BY <1>1, <3>1
  <2>4. aim' = [pos |-> aim.pos + off, checked |-> aim.checked /\ FALSE,
                within |-> aim.within /\ off <= handle.length, steps |-> aim.steps + 1]
    BY <1>6 DEF Aimed
  <2>5. /\ aim' \in Aims /\ aim'.pos = aim.pos + off /\ ~aim'.checked
        /\ aim'.within => aim.within /\ off <= handle.length
    <3>1. aim.pos + off \in Nat /\ aim.steps + 1 \in Nat
      BY <1>3
    <3> QED
      BY <1>3, <2>4, <3>1 DEF Aims
  <2>6. ASSUME aim.within, off <= handle.length
        PROVE  x = handle.addr + off /\ y = handle.length - off
    <3>1. handle.addr + handle.length = top
      BY <1>4, <2>6
    <3>2. off < Usize /\ handle.addr + off < Usize /\ handle.length - off \in Nat
          /\ handle.length - off < Usize
      BY <1>1, <1>3, <2>6, <3>1
    <3>3. o = off
      BY <1>1, <3>2
    <3>4. \A z \in Nat : z < Usize => z % Usize = z
      BY <1>1
    <3>5. handle.addr + off \in Nat
      BY <1>3
    <3>6. (handle.addr + off) % Usize = handle.addr + off
      BY <3>2, <3>4, <3>5
    <3>7. (handle.length - off) % Usize = handle.length - off
      BY <3>2, <3>4
    <3> QED
      BY <3>3, <3>6, <3>7
  <2> HIDE DEF x, y
  <2>7. handle' \in Handles /\ handle'.addr = x /\ handle'.length = y
    BY <2>2, <2>3 DEF Handles
  <2>8. aim'.checked \/ aim'.within =>
          handle'.addr = T.address + aim'.pos /\ handle'.addr + handle'.length = top
    BY <1>1, <1>3, <1>4, <2>5, <2>6, <2>7
  <2> QED
    BY <2>5, <2>7, <2>8, HandleIsNotNone DEF HandleInv, HandleExact, T, top
<1> QED
  BY <1>5, <1>6

\* A step that derives a handle from the one the program has.
LEMMA DerivationStep ==
  ASSUME IInv, NEW off \in Nat, Derive(off)
  PROVE  IInv'
<1>1. /\ Preparing /\ handle # None
      /\ UNCHANGED <<sc, attr, elements, wr, lost, refused, executed, arrived, moved>>
      /\ \/ derive(off) /\ result' = result
         \/ /\ handle' = sub_region_unchecked(handle, off % Usize)
            /\ aim' = Aimed(off, handle, FALSE) /\ result' = result
         \/ result' = "Panic" /\ UNCHANGED <<handle, aim>>
  BY DEF Derive, derive, derive_unchecked, nicVars
<1>2. AttrInv' /\ RequestInv' /\ EffectInv' /\ PatienceInv'
  BY <1>1, PreparingStep DEF Preparing
<1>3. ElementInv'
  BY <1>1 DEF IInv, ElementInv
<1>4. HandleInv'
  <2>1. CASE UNCHANGED <<handle, aim>>
    BY <1>1, <2>1 DEF IInv, HandleInv, HandleExact
  <2>2. CASE derive(off)
    BY <1>1, <2>2, DeriveExact
  <2>3. CASE /\ handle' = sub_region_unchecked(handle, off % Usize)
             /\ aim' = Aimed(off, handle, FALSE)
    BY <1>1, <2>3, DeriveExact
  <2> QED
    BY <1>1, <2>1, <2>2, <2>3
<1> QED
  BY <1>2, <1>3, <1>4 DEF IInv

\* The macros and sub_region, each at the offset it computes.
LEMMA DerivationsStep ==
  ASSUME IInv, derivations
  PROVE  IInv'
<1>1. sc \in Scenarios
  BY DEF IInv, AttrInv
<1>2. \A i, n \in Nat : i * n \in Nat
  OBVIOUS
<1>3. PICK off \in Nat : Derive(off)
  <2>1. CASE \E off \in sc.offsets : Derive(off)
    BY <1>1, <2>1, ScenarioProgram
  <2>2. ASSUME NEW t \in sc.structs,
               \/ Derive(struct_field_offset(t.field))
               \/ \E i \in sc.indexes :
                    \/ Derive(array_offset(t.size, i))
                    \/ Derive(struct_array_offset(t.size, i, t.field))
        PROVE  \E off \in Nat : Derive(off)
    <3>1. t.size \in Nat /\ t.field \in Nat
      BY <1>1, ScenarioProgram
    <3>2. CASE Derive(struct_field_offset(t.field))
      BY <3>1, <3>2 DEF struct_field_offset
    <3>3. ASSUME NEW i \in sc.indexes,
                 \/ Derive(array_offset(t.size, i))
                 \/ Derive(struct_array_offset(t.size, i, t.field))
          PROVE  \E off \in Nat : Derive(off)
      <4>1. i \in Nat
        BY <1>1, ScenarioProgram
      <4>2. array_offset(t.size, i) \in Nat
        BY <1>2, <3>1, <4>1 DEF array_offset
      <4>3. struct_array_offset(t.size, i, t.field) \in Nat
        <5> DEFINE x == i * t.size
        <5>1. x \in Nat
          BY <1>2, <3>1, <4>1
        <5> HIDE DEF x
        <5>2. x + t.field \in Nat
          BY <3>1, <5>1
        <5> QED
          BY <5>2 DEF x, struct_array_offset
      <4> QED
        BY <3>3, <4>2, <4>3
    <3> QED
      BY <2>2, <3>2, <3>3
  <2> QED
    BY <2>1, <2>2 DEF derivations
<1> QED
  BY <1>3, DerivationStep

\* An element is made of its slice.
LEMMA ElementStep ==
  ASSUME IInv, NEW s \in sc.slices, NEW how \in Hows, make_element(how, s)
  PROVE  IInv'
<1> DEFINE e == element(how, sc.debug, sc.buffer, s)
           x == [how |-> how, slice |-> s, sge |-> e]
<1>1. /\ Preparing
      /\ UNCHANGED <<sc, attr, handle, aim, wr, lost, refused, executed, arrived, moved>>
      /\ \/ e.kind = "Ok" /\ elements' = Append(elements, x) /\ result' = result
         \/ result' = "Panic" /\ elements' = elements
  BY DEF make_element
<1>2. AttrInv' /\ RequestInv' /\ EffectInv' /\ PatienceInv'
  BY <1>1, PreparingStep DEF Preparing
<1>3. HandleInv'
  BY <1>1 DEF IInv, HandleInv, HandleExact
<1>4. CASE elements' = elements
  <2>1. ElementInv'
    BY <1>1, <1>4 DEF IInv, ElementInv
  <2> QED
    BY <1>2, <1>3, <2>1 DEF IInv
<1>5. ASSUME e.kind = "Ok", elements' = Append(elements, x)
      PROVE  IInv'
  <2>1. s.start \in Nat /\ s.len \in Nat
    BY ScenarioMemory DEF IInv, AttrInv
  <2>2. e = Sge(s) /\ (how = "checked" => s.len < U32 /\ encloses(sc.buffer, s.start, s.len))
    <3>1. CASE how = "checked" /\ s.len >= U32
      BY <1>5, <3>1 DEF element
    <3>2. CASE how = "checked" /\ s.len < U32 /\ ~encloses(sc.buffer, s.start, s.len)
      BY <1>5, <3>2, BoundsAssumption, <2>1 DEF element
    <3>3. CASE how = "new" /\ sc.debug /\ (s.len >= U32 \/ ~encloses(sc.buffer, s.start, s.len))
      BY <1>5, <3>3 DEF element
    <3>4. CASE /\ ~(how = "checked" /\ s.len >= U32)
               /\ ~(how = "checked" /\ s.len < U32 /\ ~encloses(sc.buffer, s.start, s.len))
               /\ ~(how = "new" /\ sc.debug
                      /\ (s.len >= U32 \/ ~encloses(sc.buffer, s.start, s.len)))
      <4>1. e = Sge(s)
        BY <3>4 DEF element
      <4>2. how = "checked" => s.len < U32 /\ encloses(sc.buffer, s.start, s.len)
        BY <2>1, <3>4, BoundsAssumption
      <4> QED
        BY <4>1, <4>2
    <3> QED
      BY <3>1, <3>2, <3>3, <3>4
  <2>3. Sge(s) \in [kind : {"Ok"}, addr : Nat, length : Nat]
    <3>1. s.len % U32 \in Nat
      BY <2>1, BoundsAssumption
    <3> QED
      BY <2>1, <3>1 DEF Sge
  <2> HIDE DEF e
  <2>4. x \in Elements(sc.slices)
    BY <2>2, <2>3 DEF Elements
  <2>5. x.sge = Sge(x.slice) /\ (x.how = "checked" =>
          x.slice.len < U32 /\ encloses(sc.buffer, x.slice.start, x.slice.len))
    BY <2>2
  <2> HIDE DEF x
  <2>6. elements \in Seq(Elements(sc.slices))
    BY DEF IInv, ElementInv
  <2> DEFINE S == Elements(sc.slices)
             n == Len(elements)
  <2>7. S' = S
    BY <1>1 DEF Elements
  <2>8. /\ elements' \in Seq(S) /\ DOMAIN elements = 1..n /\ DOMAIN elements' = 1..(n + 1)
        /\ n \in Nat /\ elements'[n + 1] = x /\ \A k \in 1..n : elements'[k] = elements[k]
    <3> HIDE DEF S
    <3> QED
      BY <1>5, <2>4, <2>6 DEF S
  <2>9. \A k \in DOMAIN elements' :
          (k \in DOMAIN elements /\ elements'[k] = elements[k]) \/ elements'[k] = x
    <3> HIDE DEF S
    <3> QED
      BY <2>8
  <2>10. \A k \in DOMAIN elements :
           /\ elements[k].sge = Sge(elements[k].slice)
           /\ elements[k].how = "checked" =>
                /\ elements[k].slice.len < U32
                /\ encloses(sc.buffer, elements[k].slice.start, elements[k].slice.len)
    BY DEF IInv, ElementInv
  <2>11. sc' = sc
    BY <1>1
  <2>12. ASSUME NEW k \in DOMAIN elements'
         PROVE  /\ elements'[k].sge = Sge(elements'[k].slice)
                /\ elements'[k].how = "checked" =>
                     /\ elements'[k].slice.len < U32
                     /\ encloses(sc'.buffer, elements'[k].slice.start, elements'[k].slice.len)
    BY <2>5, <2>9, <2>10, <2>11
  <2>13. ElementInv'
    BY <2>7, <2>8, <2>12 DEF ElementInv
  <2> QED
    BY <1>2, <1>3, <2>13 DEF IInv
<1> QED
  BY <1>1, <1>4, <1>5

\* A request is posted over a connected queue pair.
LEMMA PostStep ==
  ASSUME IInv, NEW op \in sc.ops, NEW imm \in Immediates, post(op, imm)
  PROVE  IInv'
<1>1. /\ wr = None /\ result = "none" /\ attr["A"].state = "rts"
      /\ op \in {"write", "read"} => handle # None
      /\ wr' = [op |-> op, given |-> imm, imm |-> to_be(imm)]
      /\ UNCHANGED <<sc, attr, handle, aim, elements>>
      /\ UNCHANGED <<lost, refused, executed, arrived, moved, result>>
  BY DEF post, Preparing, request, nicVars
<1>2. AttrInv' /\ HandleInv' /\ ElementInv' /\ PatienceInv'
  BY <1>1 DEF IInv, AttrInv, HandleInv, HandleExact, ElementInv, PatienceInv
<1>3. lost = 0 /\ refused = 0 /\ executed = FALSE /\ result = "none" /\ moved = {}
  BY <1>1 DEF IInv, RequestInv, EffectInv
<1>4. EffectInv'
  BY <1>1, <1>3 DEF EffectInv
<1>5. op \in {"write", "read", "send"}
  BY ScenarioProgram DEF IInv, AttrInv
<1>6. to_be(imm) \in Seq(Nat)
  <2>1. CASE imm = None
    BY <2>1 DEF None, to_be, Reverse
  <2>2. CASE imm = <<1, 2>>
    <3>1. imm \in Seq(Nat)
      BY <2>2
    <3> QED
      BY <3>1 DEF to_be, Reverse
  <2> QED
    BY <2>1, <2>2 DEF Immediates
<1>7. wr' \in [op : {"write", "read", "send"}, given : Immediates, imm : Seq(Nat)]
  BY <1>1, <1>5, <1>6
<1>8. wr' # None
  <2>1. "op" \in DOMAIN wr'
    BY <1>1
  <2>2. DOMAIN None = {}
    BY DEF None
  <2> QED
    BY <2>1, <2>2
<1>9. wr'.op = op /\ wr'.given = imm /\ wr'.imm = to_be(imm)
  BY <1>1
<1>10. RequestInv'
  BY <1>1, <1>5, <1>7, <1>8, <1>9 DEF RequestInv
<1> QED
  BY <1>2, <1>4, <1>10 DEF IInv

-----------------------------------------------------------------------------
(* Steps of the NICs.                                                      *)

\* A's NIC only works on a request that was posted, and changes neither it nor the ends.
LEMMA NicFrame ==
  ASSUME IInv, Pending, UNCHANGED <<sc, attr, progVars>>
  PROVE  /\ AttrInv' /\ HandleInv' /\ ElementInv' /\ RequestInv'
         /\ wr # None /\ wr.op \in {"write", "read", "send"} /\ result = "none"
         /\ attr["A"].state = "rts" /\ (wr.op # "send" => handle # None)
         /\ UNCHANGED <<handle, elements, wr>>
<1>1. UNCHANGED <<sc, attr, handle, aim, elements, wr>> /\ wr # None /\ result = "none"
  BY DEF progVars, Pending
<1>2. AttrInv' /\ HandleInv' /\ ElementInv' /\ RequestInv'
  BY <1>1 DEF IInv, AttrInv, HandleInv, HandleExact, ElementInv, RequestInv
<1>3. /\ wr.op \in {"write", "read", "send"} /\ attr["A"].state = "rts"
      /\ wr.op # "send" => handle # None
  BY <1>1 DEF IInv, RequestInv
<1> QED
  BY <1>1, <1>2, <1>3

\* Executing a request that B's NIC finds no fault with has the effect meant.
LEMMA ExecuteStep ==
  ASSUME IInv, Pending, UNCHANGED <<sc, attr, progVars>>, ~RemoteFault, Executes,
         result' # "LocalProtection"
  PROVE  EffectInv'
<1>1. /\ wr.op \in {"write", "read", "send"} /\ UNCHANGED <<handle, elements, wr>> /\ sc' = sc
  BY NicFrame
<1>2. /\ Total' = Total /\ (TakesReceive' <=> TakesReceive)
  BY <1>1, RequestKept
<1>3. /\ executed' = TRUE /\ (TakesReceive => arrived' = completion(wr.imm, Total))
      /\ wr.op = "send" => moved' = {}
      /\ wr.op # "send" => moved' = Bytes(handle.addr, Total)
  BY DEF Executes
<1>4. ASSUME wr.op # "send", Total > 0
      PROVE  sc.shared /\ Bytes(handle.addr, Total) \subseteq MrBytes(sc.target)
  <2> DEFINE right == IF wr.op = "write" THEN "remote_write" ELSE "remote_read"
  <2>1. /\ right \in attr["B"].access \cap sc.target.access
        /\ Bytes(handle.addr, Total) \subseteq MrBytes(sc.target)
    BY <1>1, <1>4 DEF RemoteFault
  <2>2. right \in {"remote_read", "remote_write"} /\ right \in sc.target.access
    BY <2>1
  <2> HIDE DEF right
  <2>3. sc \in Scenarios
    BY DEF IInv, AttrInv
  <2> QED
    BY <2>1, <2>2, <2>3, ScenarioShared
<1>5. /\ Bytes(handle.addr, Total)' = Bytes(handle.addr, Total)
      /\ MrBytes(sc.target)' = MrBytes(sc.target)
  BY <1>1, <1>2 DEF Bytes, MrBytes
<1>6. completion(wr.imm, Total)' = completion(wr.imm, Total)
  BY <1>1, <1>2 DEF completion
<1> QED
  BY <1>1, <1>2, <1>3, <1>4, <1>5, <1>6 DEF EffectInv

\* A step that leaves the effect as it is.
LEMMA NoEffectStep ==
  ASSUME IInv, Pending, UNCHANGED <<sc, attr, progVars>>, UNCHANGED <<executed, arrived, moved>>,
         result' = "Ok" => executed, result' = "LocalProtection" => LocalFault
  PROVE  EffectInv'
<1>1. UNCHANGED <<handle, elements, wr>> /\ sc' = sc
  BY NicFrame
<1> QED
  BY <1>1, RequestKept DEF IInv, EffectInv, Bytes, MrBytes

\* What A's queue pair was told of its patience.
LEMMA PatienceSettings ==
  ASSUME IInv, attr["A"].state = "rts"
  PROVE  LET a == sc.settings["A"]
         IN  /\ a.max_ack_retries \in Nat /\ attr["A"].retry_cnt = a.max_ack_retries
             /\ Resends(attr["A"]) <=> ~Waived(a)
             /\ ~Limited(a) => attr["A"].rnr_retry = 7
             /\ Limited(a) =>
                  a.max_rnr_retries \in 0..6 /\ attr["A"].rnr_retry = a.max_rnr_retries
<1> DEFINE a == sc.settings["A"]
<1>1. IsSettings(a) /\ Programmed(attr["A"], a)
  BY ScenarioSettings DEF IInv, AttrInv, Ends
<1> HIDE DEF a
<1>2. a.max_ack_retries \in Nat
  BY <1>1, SettingRanges
<1>3. /\ attr["A"].timeout = AckTimeout_code(a.ack_timeout)
      /\ attr["A"].retry_cnt = a.max_ack_retries
      /\ attr["A"].rnr_retry = MaxRnrRetries_code(a.max_rnr_retries)
      /\ Fits(a)
  BY <1>1 DEF Programmed
<1>4. Resends(attr["A"]) <=> ~Waived(a)
  BY <1>1, <1>3, FittingCodes DEF Resends
<1>5. /\ ~Limited(a) => attr["A"].rnr_retry = 7
      /\ Limited(a) =>
           a.max_rnr_retries \in 0..6 /\ attr["A"].rnr_retry = a.max_rnr_retries
  BY <1>1, <1>3, FittingCodes DEF Limited
<1> QED
  BY <1>2, <1>3, <1>4, <1>5 DEF a

\* A silence is borne as often as was asked for.
LEMMA SilenceStep ==
  ASSUME IInv, nic_silence
  PROVE  PatienceInv'
<1>1. /\ Pending /\ UNCHANGED <<sc, attr, progVars, refused>> /\ lost' = lost + 1
      /\ IF Resends(attr["A"]) /\ lost >= attr["A"].retry_cnt
         THEN result' = "RetryExceeded" ELSE result' = result
  BY DEF nic_silence, Completes
<1>2. result = "none" /\ attr["A"].state = "rts" /\ (lost = 0 \/ Resends(attr["A"]))
  BY <1>1, NicFrame DEF Pending
<1> DEFINE a == sc.settings["A"]
<1>3. /\ a.max_ack_retries \in Nat /\ attr["A"].retry_cnt = a.max_ack_retries
      /\ Resends(attr["A"]) <=> ~Waived(a)
      /\ Limited(a) => a.max_rnr_retries \in 0..6
  BY <1>2, PatienceSettings
<1>4. PatienceInv
  BY DEF IInv
<1>5. a' = a /\ attr' = attr /\ sc' = sc
  BY <1>1
<1>6. /\ lost \in Nat /\ (lost <= a.max_ack_retries \/ (lost = 1 /\ Waived(a)))
      /\ refused \in Nat
      /\ Limited(a) =>
           refused <= a.max_rnr_retries + 1 /\ refused # a.max_rnr_retries + 1
      /\ refused > 0 => attr["B"].min_rnr_timer = sc.settings["B"].min_rnr_timer
  BY <1>2, <1>4 DEF PatienceInv
<1> HIDE DEF a
<1>7. CASE Resends(attr["A"]) /\ lost >= attr["A"].retry_cnt
  <2>1. result' = "RetryExceeded" /\ ~Waived(a) /\ lost' = a.max_ack_retries + 1
    BY <1>1, <1>3, <1>6, <1>7
  <2> QED
    BY <1>1, <1>3, <1>5, <1>6, <2>1 DEF PatienceInv, a
<1>8. CASE ~(Resends(attr["A"]) /\ lost >= attr["A"].retry_cnt)
  <2>1. /\ result' = "none"
        /\ lost' <= a.max_ack_retries \/ (lost' = 1 /\ Waived(a))
        /\ lost' <= a.max_ack_retries + 1 /\ lost' \in Nat
    BY <1>1, <1>2, <1>3, <1>6, <1>8
  <2> QED
    BY <1>1, <1>3, <1>5, <1>6, <2>1 DEF PatienceInv, a
<1> QED
  BY <1>7, <1>8

\* A refusal is borne as often as was asked for.
LEMMA RefusalStep ==
  ASSUME IInv, nic_not_ready
  PROVE  PatienceInv'
<1>1. /\ Pending /\ Hears /\ UNCHANGED <<sc, attr, progVars, lost>>
      /\ refused' = IF refused < MaxRefused THEN refused + 1 ELSE refused
      /\ IF Bears(attr["A"], refused) THEN result' = result ELSE result' = "RnrRetryExceeded"
  BY DEF nic_not_ready, Completes
<1>2. result = "none" /\ attr["A"].state = "rts"
  BY <1>1, NicFrame
<1> DEFINE a == sc.settings["A"]
<1>3. /\ a.max_ack_retries \in Nat
      /\ ~Limited(a) => attr["A"].rnr_retry = 7
      /\ Limited(a) =>
           a.max_rnr_retries \in 0..6 /\ attr["A"].rnr_retry = a.max_rnr_retries
  BY <1>2, PatienceSettings
<1>4. PatienceInv
  BY DEF IInv
<1>5. a' = a /\ attr' = attr /\ sc' = sc /\ lost' = lost
  BY <1>1
<1>6. /\ lost \in Nat /\ (lost <= a.max_ack_retries \/ (lost = 1 /\ Waived(a)))
      /\ lost <= a.max_ack_retries + 1 /\ refused \in Nat
      /\ Limited(a) =>
           refused <= a.max_rnr_retries + 1 /\ refused # a.max_rnr_retries + 1
  BY <1>2, <1>4 DEF PatienceInv
<1>7. attr["B"].min_rnr_timer = sc.settings["B"].min_rnr_timer
  BY <1>1 DEF IInv, AttrInv, Ends, Hears, Programmed
<1>8. MaxRefused \in Nat /\ MaxRefused > 7
  BY ConnectionAssumption
<1> HIDE DEF a
<1>9. refused' \in Nat /\ result' \in {"none", "RnrRetryExceeded"}
  BY <1>1, <1>2, <1>6, <1>8
<1>10. ~Limited(a) => result' # "RnrRetryExceeded"
  BY <1>1, <1>2, <1>3 DEF Bears
<1>11. Limited(a) =>
         /\ refused' <= a.max_rnr_retries + 1
         /\ result' = "RnrRetryExceeded" <=> refused' = a.max_rnr_retries + 1
  <2> SUFFICES ASSUME Limited(a)
               PROVE  /\ refused' <= a.max_rnr_retries + 1
                      /\ result' = "RnrRetryExceeded" <=> refused' = a.max_rnr_retries + 1
    OBVIOUS
  <2>1. a.max_rnr_retries \in 0..6 /\ refused <= a.max_rnr_retries
    BY <1>3, <1>6
  <2>2. refused' = refused + 1
    BY <1>1, <1>6, <1>8, <2>1
  <2>3. Bears(attr["A"], refused) <=> refused < a.max_rnr_retries
    BY <1>3, <2>1 DEF Bears
  <2>4. CASE refused < a.max_rnr_retries
    BY <1>1, <1>2, <1>6, <2>1, <2>2, <2>3, <2>4
  <2>5. CASE refused = a.max_rnr_retries
    BY <1>1, <1>2, <1>6, <2>1, <2>2, <2>3, <2>5
  <2> QED
    BY <1>6, <2>1, <2>4, <2>5
<1> QED
  BY <1>5, <1>6, <1>7, <1>9, <1>10, <1>11 DEF PatienceInv, a

\* A step that counts nothing and does not give up for want of patience.
LEMMA PatienceKept ==
  ASSUME IInv, Pending, UNCHANGED <<sc, attr, lost, refused>>,
         result' \notin {"none", "RetryExceeded", "RnrRetryExceeded"}
  PROVE  PatienceInv'
<1>1. result = "none" /\ PatienceInv
  BY DEF Pending, IInv
<1> QED
  BY <1>1 DEF PatienceInv

\* The steps of the NICs, taken together.
LEMMA NicStep ==
  ASSUME IInv, Nic
  PROVE  IInv'
<1>1. Pending /\ UNCHANGED <<sc, attr, progVars>>
  BY DEF Nic, nic_local_error, nic_lost, nic_silence, nic_not_ready, nic_refuses, nic_delivers
<1>2. AttrInv' /\ HandleInv' /\ ElementInv' /\ RequestInv'
  BY <1>1, NicFrame
<1>3. result = "none"
  BY <1>1 DEF Pending
<1>4. CASE nic_local_error
  <2>1. EffectInv'
    BY <1>1, <1>4, NoEffectStep DEF nic_local_error, Completes
  <2>2. PatienceInv'
    BY <1>1, <1>4, PatienceKept DEF nic_local_error, Completes
  <2> QED
    BY <1>2, <2>1, <2>2 DEF IInv
<1>5. CASE nic_lost
  <2>1. nic_silence /\ result' \in {"none", "RetryExceeded"}
    BY <1>3, <1>5 DEF nic_lost, nic_silence, Completes
  <2>2. EffectInv'
    BY <1>1, <1>5, <2>1, NoEffectStep, ExecuteStep DEF nic_lost
  <2> QED
    BY <1>2, <2>1, <2>2, SilenceStep DEF IInv
<1>6. CASE nic_not_ready
  <2>1. result' \in {"none", "RnrRetryExceeded"} /\ UNCHANGED <<executed, arrived, moved>>
    BY <1>3, <1>6 DEF nic_not_ready, Completes
  <2>2. EffectInv'
    BY <1>1, <2>1, NoEffectStep
  <2> QED
    BY <1>2, <1>6, <2>2, RefusalStep DEF IInv
<1>7. CASE nic_refuses
  <2>1. /\ result' \in {"RemoteInvalidRequest", "RemoteAccess"}
        /\ UNCHANGED <<executed, arrived, moved, lost, refused>>
    BY <1>7 DEF nic_refuses, Completes
  <2>2. EffectInv'
    BY <1>1, <2>1, NoEffectStep
  <2>3. PatienceInv'
    BY <1>1, <2>1, PatienceKept
  <2> QED
    BY <1>2, <2>2, <2>3 DEF IInv
<1>8. CASE nic_delivers
  <2>1. /\ result' = "Ok" /\ UNCHANGED <<lost, refused>>
        /\ \/ executed /\ UNCHANGED <<executed, arrived, moved>>
           \/ ~RemoteFault /\ Executes
    BY <1>8 DEF nic_delivers, Completes
  <2>2. EffectInv'
    BY <1>1, <2>1, NoEffectStep, ExecuteStep
  <2>3. PatienceInv'
    BY <1>1, <2>1, PatienceKept
  <2> QED
    BY <1>2, <2>2, <2>3 DEF IInv
<1> QED
  BY <1>4, <1>5, <1>6, <1>7, <1>8 DEF Nic

-----------------------------------------------------------------------------
(* The invariant is inductive.                                             *)

\* Before anything was asked of it, a request has no effect and costs no patience.
LEMMA InitIInv == Init => IInv
<1> SUFFICES ASSUME Init PROVE IInv
  OBVIOUS
<1>1. /\ sc \in Scenarios
      /\ attr = [e \in Ends |-> IF sc.connected THEN Connected(sc.settings[e]) ELSE Reset]
      /\ handle = None /\ aim = [pos |-> 0, checked |-> TRUE, within |-> TRUE, steps |-> 0]
      /\ elements = << >> /\ wr = None /\ lost = 0 /\ refused = 0 /\ executed = FALSE
      /\ moved = {} /\ result = "none"
  BY DEF Init
<1>2. ASSUME NEW e \in Ends
      PROVE  /\ Reset \in Attrs /\ Programmed(Reset, sc.settings[e])
             /\ sc.connected =>
                  /\ Connected(sc.settings[e]) \in Attrs
                  /\ Programmed(Connected(sc.settings[e]), sc.settings[e])
  <2> DEFINE c == sc.settings[e]
             i == modify_to_init(Reset, c)
             r == modify_to_rtr(i, c)
  <2>1. IsSettings(c) /\ (sc.connected => Fits(c))
    BY <1>1, ScenarioSettings
  <2>2. Reset \in Attrs /\ Programmed(Reset, c)
    BY DEF Reset, Attrs, States, Programmed
  <2> HIDE DEF c
  <2>3. i \in Attrs /\ Programmed(i, c)
    BY <2>1, <2>2, Modified
  <2> HIDE DEF i
  <2>4. r \in Attrs /\ Programmed(r, c) /\ r.state = "rtr"
    <3>1. r \in Attrs /\ Programmed(r, c)
      BY <2>1, <2>3, Modified
    <3>2. r.state = "rtr"
      BY <2>3 DEF modify_to_rtr, Attrs
    <3> QED
      BY <3>1, <3>2
  <2> HIDE DEF r
  <2>5. sc.connected => modify_to_rts(r, c) \in Attrs /\ Programmed(modify_to_rts(r, c), c)
    BY <2>1, <2>4, Modified
  <2>6. Connected(c) = modify_to_rts(r, c)
    BY DEF Connected, i, r
  <2> QED
    BY <2>2, <2>5, <2>6 DEF c
<1>3. AttrInv
  BY <1>1, <1>2 DEF AttrInv
<1>4. HandleInv
  BY <1>1 DEF HandleInv, HandleExact, Aims
<1>5. ElementInv
  BY <1>1 DEF ElementInv
<1>6. RequestInv /\ EffectInv
  BY <1>1 DEF RequestInv, EffectInv
<1>7. IsSettings(sc.settings["A"])
  BY <1>1, ScenarioSettings DEF Ends
<1>8. /\ sc.settings["A"].max_ack_retries \in Nat
      /\ Limited(sc.settings["A"]) => sc.settings["A"].max_rnr_retries \in Nat
  BY <1>7, SettingRanges DEF Limited
<1>9. PatienceInv
  BY <1>1, <1>8 DEF PatienceInv
<1> QED
  BY <1>3, <1>4, <1>5, <1>6, <1>9 DEF IInv

\* Every step keeps the invariant.
LEMMA NextIInv == IInv /\ [Next]_vars => IInv'
<1> SUFFICES ASSUME IInv, [Next]_vars PROVE IInv'
  OBVIOUS
<1>1. CASE UNCHANGED vars
  BY <1>1, Kept DEF vars
<1>2. CASE Program
  <2>1. CASE receive_handle
    BY <2>1, ReceiveStep
  <2>2. CASE derivations
    BY <2>2, DerivationsStep
  <2>3. ASSUME NEW s \in sc.slices, NEW how \in Hows, make_element(how, s) PROVE IInv'
    BY <2>3, ElementStep
  <2>4. ASSUME NEW op \in sc.ops, NEW imm \in Immediates, post(op, imm) PROVE IInv'
    BY <2>4, PostStep
  <2> QED
    BY <1>2, <2>1, <2>2, <2>3, <2>4 DEF Program, Hows, Immediates
<1>3. ASSUME NEW e \in Ends, handshake(e) \/ goes(e) PROVE IInv'
  BY <1>3, EndStep
<1>4. CASE deregister \/ post_receive
  BY <1>4, Kept DEF deregister, post_receive
<1>5. CASE Nic
  BY <1>5, NicStep
<1> QED
  BY <1>1, <1>2, <1>3, <1>4, <1>5 DEF Next, Over

\* The invariant holds throughout.
LEMMA Invariance == Spec => []IInv
  BY InitIInv, NextIInv, PTL DEF Spec

-----------------------------------------------------------------------------
(* The properties.                                                         *)

\* A handle derived by checked steps, or by unchecked ones that kept within the bounds
\* (RemoteMemoryRegion::sub_region and the macros), starts where the program meant and ends
\* where the region of the peer ends, for any width of the words and any offsets.
THEOREM HandlesAreExact == Spec => []HandleExact
<1>1. IInv => HandleExact
  BY DEF IInv, HandleInv
<1> QED
  BY <1>1, Invariance, PTL

\* Immediate data comes out of the byte order of the network as it went in.
LEMMA ByteOrder == \A imm \in Immediates : from_be(to_be(imm)) = imm
<1>1. ASSUME NEW s \in Seq(Nat) PROVE Reverse(Reverse(s)) = s
  BY DEF Reverse
<1>2. \A imm \in Immediates : imm \in Seq(Nat)
  <2>1. None \in Seq(Nat)
    BY DEF None
  <2>2. <<1, 2>> \in Seq(Nat)
    OBVIOUS
  <2> QED
    BY <2>1, <2>2 DEF Immediates
<1> QED
  BY <1>1, <1>2 DEF from_be, to_be

\* A request of checked elements is never refused by the NIC that posted it; one that
\* succeeds has moved all its bytes, at the place meant, with the immediate data it was
\* given; and memory that was not shared (register_shared_mr) is never moved: for any
\* region, slices, offsets and settings, whatever the network loses.
THEOREM TransfersAreExact == Spec => []TransferExact
<1>1. ASSUME IInv PROVE TransferExact
  <2>1. AllChecked => result # "LocalProtection"
    BY <1>1, ElementFacts DEF IInv, EffectInv
  <2>2. AllChecked /\ result = "Ok" => Total = MeantBytes
    BY <1>1, ElementFacts DEF IInv
  <2>3. Total \in Nat
    BY <1>1, ElementFacts DEF IInv
  <2>4. ASSUME aim.checked \/ aim.within, result = "Ok", wr.op # "send"
        PROVE  moved = {sc.target.address + aim.pos + k : k \in 0..(Total - 1)}
    <3>1. executed /\ wr # None
      BY <1>1, <2>4 DEF IInv, EffectInv, RequestInv
    <3>2. /\ handle # None /\ moved = Bytes(handle.addr, Total)
          /\ Total > 0 => Bytes(handle.addr, Total) \subseteq MrBytes(sc.target)
      BY <1>1, <2>4, <3>1 DEF IInv, EffectInv, RequestInv
    <3>3. IsRegion(sc.target)
      BY <1>1, ScenarioMemory DEF IInv, AttrInv
    <3>4. handle.addr \in Nat /\ handle.length \in Nat /\ aim.pos \in Nat
      BY <1>1, <3>2 DEF IInv, HandleInv, Handles, Aims
    <3>5. /\ handle.addr = sc.target.address + aim.pos
          /\ handle.addr + handle.length = sc.target.address + sc.target.length
      BY <1>1, <2>4, <3>2 DEF IInv, HandleInv, HandleExact
    <3>6. /\ sc.target.address \in Nat /\ sc.target.length \in Nat
          /\ sc.target.address + sc.target.length < Usize /\ Usize \in Nat
      BY <3>3, BoundsAssumption DEF IsRegion
    <3>7. handle.addr >= sc.target.address /\ handle.addr <= sc.target.address + sc.target.length
      BY <3>4, <3>5, <3>6
    <3> DEFINE n == Total
               h == handle.addr
    <3> HIDE DEF n, h
    <3>8. h + n <= Usize
      <4>1. CASE n = 0
        BY <3>4, <3>6, <3>7, <4>1 DEF h
      <4>2. CASE n > 0
        <5>1. h + n <= sc.target.address + sc.target.length
          BY <2>3, <3>2, <3>3, <3>4, <3>7, <4>2, BytesWithin DEF h, n
        <5> QED
          BY <2>3, <3>4, <3>6, <5>1 DEF h, n
      <4> QED
        BY <2>3, <4>1, <4>2 DEF n
    <3>9. Bytes(h, n) = {h + k : k \in 0..(n - 1)}
      BY <2>3, <3>4, <3>8, BytesInOrder DEF h, n
    <3> QED
      BY <3>2, <3>5, <3>9 DEF h, n
  <2>5. ASSUME result = "Ok", TakesReceive
        PROVE  arrived # None /\ immediate_data(arrived) = wr.given
    <3>1. executed /\ wr # None
      BY <1>1, <2>5 DEF IInv, EffectInv, RequestInv
    <3>2. arrived = completion(wr.imm, Total) /\ wr.imm = to_be(wr.given) /\ wr.given \in Immediates
      BY <1>1, <2>5, <3>1 DEF IInv, EffectInv, RequestInv
    <3>3. arrived.imm = wr.imm /\ "imm" \in DOMAIN arrived
      BY <3>2 DEF completion
    <3>4. arrived # None
      <4>1. DOMAIN None = {}
        BY DEF None
      <4> QED
        BY <3>3, <4>1
    <3>5. immediate_data(arrived) = wr.given
      BY <3>2, <3>3, ByteOrder DEF immediate_data
    <3> QED
      BY <3>4, <3>5
  <2>6. ASSUME moved # {} PROVE sc.shared
    <3>1. executed /\ moved = Bytes(handle.addr, Total) /\ (Total > 0 => sc.shared)
      BY <1>1, <2>6 DEF IInv, EffectInv
    <3>2. Total = 0 => moved = {}
      BY <3>1 DEF Bytes
    <3> QED
      BY <2>3, <2>6, <3>1, <3>2
  <2> QED
    BY <2>1, <2>2, <2>4, <2>5, <2>6 DEF TransferExact
<1> QED
  BY <1>1, Invariance, PTL

\* The durations of the RNR timer ascend with their codes.
LEMMA TableAscends ==
  /\ Len(DURATION_TABLE) = 31 /\ DOMAIN DURATION_TABLE = 1..31
  /\ \A i \in 1..31 : DURATION_TABLE[i] \in Nat /\ DURATION_TABLE[i] <= DURATION_ZERO
  /\ \A i, j \in 1..31 : i <= j => DURATION_TABLE[i] <= DURATION_TABLE[j]
<1>1. Len(DURATION_TABLE) = 31 /\ DOMAIN DURATION_TABLE = 1..31
  BY DEF DURATION_TABLE
<1>2. \A i \in 1..31 : DURATION_TABLE[i] \in Nat /\ DURATION_TABLE[i] <= DURATION_ZERO
  <2>1. \A i \in 1..31 : DURATION_TABLE[i] <= DURATION_ZERO
    BY DEF DURATION_TABLE, DURATION_ZERO
  <2>2. DURATION_TABLE \in Seq(Nat)
    BY DEF DURATION_TABLE
  <2>3. \A i \in 1..31 : DURATION_TABLE[i] \in Nat
    <3>1. ASSUME NEW s \in Seq(Nat), NEW i \in 1..Len(s) PROVE s[i] \in Nat
      OBVIOUS
    <3> QED
      BY <1>1, <2>2, <3>1
  <2> QED
    BY <2>1, <2>3
<1>3. \A i, j \in 1..31 : i <= j => DURATION_TABLE[i] <= DURATION_TABLE[j]
  BY DEF DURATION_TABLE
<1> QED
  BY <1>1, <1>2, <1>3

\* A set of natural numbers that has a member has a least one.
LEMMA LeastCode ==
  ASSUME NEW K \in SUBSET Nat, K # {}
  PROVE  \E n \in K : \A k \in K : n <= k
<1> DEFINE R == OpToRel(<, Nat)
<1>1. \E n \in K : \A k \in K : ~ (<<k, n>> \in R)
  BY NatLessThanWellFounded, WFMin
<1>2. \A k, n \in Nat : k < n => <<k, n>> \in R
  BY DEF OpToRel
<1> HIDE DEF R
<1>3. PICK n \in K : \A k \in K : ~ (<<k, n>> \in R)
  BY <1>1
<1>4. \A k \in K : ~ (k < n)
  BY <1>2, <1>3
<1>5. \A k \in K : n <= k
  BY <1>4
<1> QED
  BY <1>5

\* The longest wait is a duration.
LEMMA LongestWait == DURATION_ZERO \in Nat
  BY DEF DURATION_ZERO

\* The code found for a wait (MinRnrTimer::min_duration_greater_than) is that of the
\* shortest duration of the hardware that covers it, or of the longest when none does.
LEMMA ShortestWait ==
  ASSUME NEW t \in Nat
  PROVE  LET wait == MinRnrTimer_duration(MinRnrTimer_min_duration_greater_than(t))
         IN  /\ wait >= t \/ wait = DURATION_ZERO
             /\ wait \in Nat /\ wait <= DURATION_ZERO
             /\ \A j \in 1..31 : DURATION_TABLE[j] >= t => wait <= DURATION_TABLE[j]
<1> DEFINE T == DURATION_TABLE
           D == {k \in 1..Len(T) : T[k] < t}
           K == {k \in 1..32 : k = 32 \/ ~(T[k] < t)}
<1>0. Len(T) = 31 /\ DURATION_ZERO \in Nat
  BY LongestWait, TableAscends
<1>1. /\ \A i \in 1..31 : T[i] \in Nat /\ T[i] <= DURATION_ZERO
      /\ \A i, j \in 1..31 : i <= j => T[i] <= T[j]
  BY TableAscends
<1> HIDE DEF T
<1>2. PICK n \in K : \A k \in K : n <= k
  <2>1. K \in SUBSET Nat /\ 32 \in K
    OBVIOUS
  <2> HIDE DEF K
  <2> QED
    BY <2>1, LeastCode
<1>3. n \in 1..32 /\ (n < 32 => T[n] >= t)
  BY <1>0, <1>1, <1>2
<1>4. ASSUME NEW k \in 1..31 PROVE T[k] < t <=> k < n
  <2>1. CASE k < n
    BY <1>2, <1>3, <2>1
  <2>2. CASE k >= n
    <3>1. n \in 1..31 /\ T[n] >= t /\ T[n] <= T[k]
      BY <1>1, <1>3, <2>2
    <3> QED
      BY <1>0, <1>1, <2>2, <3>1
  <2> QED
    BY <1>3, <2>1, <2>2
<1>5. D = 1..(n - 1)
  BY <1>0, <1>3, <1>4
<1>6. Cardinality(D) = n - 1
  <2> DEFINE m == n - 1
  <2>1. m \in Int /\ m >= 0 /\ D = 1..m
    BY <1>3, <1>5
  <2> HIDE DEF m, D
  <2>2. Cardinality(1..m) = m
    BY <2>1, FS_Interval
  <2> QED
    BY <2>1, <2>2 DEF m
<1>7. first_not_less(t) = n - 1
  BY <1>6 DEF first_not_less, T
<1>8. CASE n < 32
  <2>1. MinRnrTimer_min_duration_greater_than(t) = n
    BY <1>0, <1>3, <1>7, <1>8 DEF MinRnrTimer_min_duration_greater_than, T
  <2>2. MinRnrTimer_duration(n) = T[n]
    BY <1>3 DEF MinRnrTimer_duration, T
  <2>3. ASSUME NEW j \in 1..31, T[j] >= t PROVE T[n] <= T[j]
    <3>1. j >= n
      BY <1>0, <1>1, <1>3, <1>4, <2>3
    <3> QED
      BY <1>1, <1>3, <1>8, <3>1
  <2> QED
    BY <1>1, <1>3, <1>8, <2>1, <2>2, <2>3 DEF T
<1>9. CASE n = 32
  <2>1. MinRnrTimer_min_duration_greater_than(t) = 0
    BY <1>0, <1>7, <1>9 DEF MinRnrTimer_min_duration_greater_than, T
  <2>2. MinRnrTimer_duration(0) = DURATION_ZERO
    BY DEF MinRnrTimer_duration
  <2>3. \A j \in 1..31 : ~(T[j] >= t)
    BY <1>0, <1>1, <1>4, <1>9
  <2> QED
    BY <1>0, <2>1, <2>2, <2>3 DEF T
<1> QED
  BY <1>3, <1>8, <1>9

\* The hardware bears exactly the refusals asked for when they are limited, any number
\* otherwise, gives up on silence only after the resends asked for and never without a
\* timeout, and a refusal asks for the shortest wait of the hardware that covers the
\* duration B wanted, or for the longest there is (MaxRnrRetries, AckTimeout,
\* MinRnrTimer): for any settings the types admit, the public variants included.
THEOREM PatienceIsAsConfigured == Spec => []PatienceAsConfigured
<1>1. ASSUME IInv PROVE PatienceAsConfigured
  <2> DEFINE b == sc.settings["B"]
             wait == RnrWait(attr["B"])
  <2>1. PatienceInv
    BY <1>1 DEF IInv
  <2>2. ASSUME refused > 0
        PROVE  /\ b.rnr_wanted <= DURATION_ZERO => wait >= b.rnr_wanted
               /\ b.rnr_wanted > DURATION_ZERO => wait = DURATION_ZERO
               /\ \A d \in Range(DURATION_TABLE) : d >= b.rnr_wanted => wait <= d
    <3>1. wait = MinRnrTimer_duration(b.min_rnr_timer)
      BY <2>1, <2>2 DEF PatienceInv, RnrWait
    <3>2. IsSettings(b)
      BY <1>1, ScenarioSettings DEF IInv, AttrInv, Ends
    <3> HIDE DEF b, wait
    <3>3. \A d \in Range(DURATION_TABLE) : \E j \in 1..31 : d = DURATION_TABLE[j]
      BY TableAscends DEF Range
    <3>4. CASE b.min_rnr_timer = MinRnrTimer_min_duration_greater_than(b.rnr_wanted)
      <4>1. b.rnr_wanted \in Nat
        BY <3>2 DEF IsSettings
      <4>2. /\ wait >= b.rnr_wanted \/ wait = DURATION_ZERO
            /\ wait \in Nat /\ wait <= DURATION_ZERO
            /\ \A j \in 1..31 : DURATION_TABLE[j] >= b.rnr_wanted => wait <= DURATION_TABLE[j]
        BY <3>1, <3>4, <4>1, ShortestWait
      <4> QED
        BY <3>3, <4>1, <4>2, LongestWait
    <3>5. CASE /\ b.min_rnr_timer \in 0..31
               /\ b.rnr_wanted = MinRnrTimer_duration(b.min_rnr_timer)
      <4>1. wait \in Nat /\ wait <= DURATION_ZERO
        BY <3>1, <3>5, TableAscends, LongestWait DEF MinRnrTimer_duration
      <4>2. b.rnr_wanted = wait
        BY <3>1, <3>5
      <4> QED
        BY <4>1, <4>2, LongestWait
    <3> QED
      BY <3>2, <3>4, <3>5 DEF IsSettings
  <2> QED
    BY <2>1, <2>2 DEF PatienceInv, PatienceAsConfigured, Waived, Limited
<1> QED
  BY <1>1, Invariance, PTL
=============================================================================
