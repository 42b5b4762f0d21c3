---------------------------- MODULE MemoryBounds ----------------------------
(***************************************************************************)
(* The arithmetic of memory regions, scatter/gather elements and remote     *)
(* handles (src/ibverbs/memory).  Addresses and lengths are machine words;  *)
(* an offset a program means is a natural number, and what an operation     *)
(* makes of it depends on whether it checks, wraps or panics.               *)
(***************************************************************************)
EXTENDS Integers

CONSTANTS
  Usize, \* values of a u64 or usize: 2^64
  U32    \* values of a u32: 2^32

ASSUME BoundsAssumption ==
  Usize \in Nat /\ U32 \in Nat /\ 0 < U32 /\ U32 <= Usize

\* A slice of bytes the program can hold: no slice is longer than isize::MAX.
IsSlice(s) == s.start + s.len < Usize /\ 2 * s.len < Usize

\* AccessFlags of the ways to register memory.
local_access == {"local_write"}
shared_access == {"local_write", "remote_read", "remote_write"}

register_mr_with_access(s, access) == [address |-> s.start, length |-> s.len, access |-> access]
register_local_mr(s) == register_mr_with_access(s, local_access)
register_shared_mr(s) == register_mr_with_access(s, shared_access)

saturating_sub(a, b) == IF a >= b THEN a - b ELSE 0

encloses(mr, a, n) ==
  a >= mr.address /\ n <= saturating_sub(mr.length, a - mr.address)

\* A gather or scatter element for slice s of region mr, made by new, new_checked or
\* new_unchecked: an ibv_sge, an error, or a panic of a debug assertion.
Sge(s) == [kind |-> "Ok", addr |-> s.start, length |-> s.len % U32]

\* Mutant: new_checked leaves out the limit of 32 bits.
element_any_length(how, debug, mr, s) ==
  IF how = "checked" /\ ~encloses(mr, s.start, s.len) THEN [kind |-> "SliceNotWithinBounds"]
  ELSE Sge(s)

element(how, debug, mr, s) ==
  CASE how = "checked" /\ s.len >= U32 -> [kind |-> "SliceTooBig"]
    [] how = "checked" /\ s.len < U32 /\ ~encloses(mr, s.start, s.len) ->
         [kind |-> "SliceNotWithinBounds"]
    [] how = "new" /\ debug /\ (s.len >= U32 \/ ~encloses(mr, s.start, s.len)) ->
         [kind |-> "Panic"]
    [] OTHER -> Sge(s)

-----------------------------------------------------------------------------
(* RemoteMemoryRegion.                                                     *)

remote(mr) == [addr |-> mr.address, length |-> mr.length]

\* When sub_region answers Some.
has_sub_region(h, off) == off <= h.length /\ h.addr + off < Usize

\* Mutant: the length is kept.
sub_region_same_length(h, off) == [addr |-> h.addr + off, length |-> h.length]

sub_region(h, off) == [addr |-> h.addr + off, length |-> h.length - off]

\* Arithmetic overflows in sub_region_unchecked: a debug build panics.
sub_region_overflows(h, off) == h.addr + off >= Usize \/ off > h.length

\* A release build wraps.
sub_region_unchecked(h, off) ==
  [addr |-> (h.addr + off) % Usize, length |-> (h.length - off) % Usize]

\* The offsets the macros compute, as the program means them.
array_offset(size, index) == index * size
struct_field_offset(field) == field

struct_array_offset(size, index, field) == index * size + field

\* checked_mul and checked_add answer None; without them a debug build panics and a
\* release build wraps.
offset_overflows(off) == off >= Usize
=============================================================================
