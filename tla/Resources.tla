----------------------------- MODULE Resources ------------------------------
(***************************************************************************)
(* The ownership of the RDMA objects (src/ibverbs): the list of devices, a  *)
(* device context, protection domains, completion queues, queue pairs and   *)
(* memory regions.                                                          *)
(* Rust values hold Arcs of the objects they were made from; the program    *)
(* drops its handles in any order and from any thread, and Drop calls the   *)
(* destructor of libibverbs, which fails for an object still in use.        *)
(***************************************************************************)
EXTENDS Naturals, FiniteSets

CONSTANTS
  List,  \* the list of devices
  Ctx,   \* the device context
  Pds,   \* protection domains
  Cqs,   \* completion queues
  Qps,   \* queue pairs
  Mrs    \* memory regions

Objects == {List, Ctx} \cup Pds \cup Cqs \cup Qps \cup Mrs

ASSUME ObjectsAssumption ==
  /\ List # Ctx /\ {List, Ctx} \cap (Pds \cup Cqs \cup Qps \cup Mrs) = {}
  /\ Pds \cap (Cqs \cup Qps \cup Mrs) = {} /\ Cqs \cap (Qps \cup Mrs) = {}
  /\ Qps \cap Mrs = {}

VARIABLES
  made,     \* objects that have been created at the device
  device,   \* objects the device has
  values,   \* Rust values alive: the inner structs, queue pairs and memory regions
  handles,  \* values the program holds a handle of
  parents,  \* the objects an object was made from
  premature, \* objects whose destructor was called while the device had others made from them
  leaked     \* objects the device has made and no Rust value has ever owned

vars == <<made, device, values, handles, parents, premature, leaked>>

Init ==
  /\ made = {} /\ device = {} /\ values = {} /\ handles = {} /\ premature = {} /\ leaked = {}
  /\ parents = [o \in Objects |-> {}]

\* The device makes object o out of ps.
Create(o, ps) ==
  /\ o \notin made
  /\ made' = made \cup {o}
  /\ device' = device \cup {o}
  /\ parents' = [parents EXCEPT ![o] = ps]
  /\ UNCHANGED premature

\* ... and a Rust value that clones the Arcs of ps owns it.
Own(o) ==
  /\ values' = values \cup {o} /\ handles' = handles \cup {o} /\ UNCHANGED leaked

list_devices == Create(List, {}) /\ Own(List)

\* Device::open, Context::from_device: a Device borrows the list it was taken from, the
\* context does not.
from_device == List \in handles /\ Create(Ctx, {}) /\ Own(Ctx)

\* The port is not active: the new context is dropped on the way out.
from_device_fails ==
  /\ List \in handles
  /\ Create(Ctx, {})
  /\ values' = values \cup {Ctx}
  /\ UNCHANGED <<handles, leaked>>

\* open_device: the list is freed on return, whether the device was found and opened,
\* was not found, or its port was not active.
open_device ==
  /\ {List, Ctx} \cap made = {}
  /\ \/ made' = made \cup {List} /\ UNCHANGED <<device, values, handles>>
     \/ /\ made' = made \cup {List, Ctx}
        /\ device' = device \cup {Ctx} /\ values' = values \cup {Ctx}
        /\ handles' \in {handles, handles \cup {Ctx}}
  /\ UNCHANGED <<parents, premature, leaked>>

\* Protection domains and completion queues lead back to their context.
HasContext == handles \cap ({Ctx} \cup Pds \cup Cqs) # {}

allocate_pd(p) == HasContext /\ Create(p, {Ctx}) /\ Own(p)
create_cq(c) == HasContext /\ Create(c, {Ctx}) /\ Own(c)
register_mr(m, p) == p \in handles /\ Create(m, {p}) /\ Own(m)

\* QueuePair::builder, with its send and receive completion queues.
create_qp(q, p, s, r) == {p, s, r} \subseteq handles /\ Create(q, {p, s, r}) /\ Own(q)

\* query_port fails after ibv_create_qp: the function returns before a QueuePair exists.
create_qp_fails(q, p, s, r) ==
  /\ {p, s, r} \subseteq handles
  /\ Create(q, {p, s, r})
  /\ leaked' = leaked \cup {q}
  /\ UNCHANGED <<values, handles>>

\* The program lets go of its last handle of o.
drop_handle(o) ==
  /\ o \in handles
  /\ handles' = handles \ {o}
  /\ UNCHANGED <<made, device, values, parents, premature, leaked>>

\* Mutant: a queue pair does not hold its completion queues.
held_pd_only(o) == parents[o] \ Cqs

\* Mutant: an object keeps the ones made from it as well.
held_in_cycles(o) == parents[o] \cup {x \in values : o \in parents[x]}

\* The objects a value keeps alive.
held(o) == parents[o]

\* Mutant: the value goes without a call of the destructor.
drop_forgotten(o) ==
  /\ o \in values \ handles
  /\ \A x \in values : o \notin held(x)
  /\ values' = values \ {o}
  /\ UNCHANGED <<made, device, handles, parents, premature, leaked>>

\* The last reference of o is gone: Drop calls the destructor, an error is only logged,
\* and the Arcs that o holds are released after it.  An object in use stays at the device;
\* the context is closed whatever is left in it.
drop(o) ==
  LET inUse == \E x \in device : o \in parents[x]
  IN  /\ o \in values \ handles
      /\ \A x \in values : o \notin held(x)
      /\ values' = values \ {o}
      /\ premature' = IF inUse THEN premature \cup {o} ELSE premature
      /\ device' = IF inUse /\ o # Ctx THEN device ELSE device \ {o}
      /\ UNCHANGED <<made, handles, parents, leaked>>

\* Nothing is left to make or to drop.
Over == values = {} /\ made # {} /\ UNCHANGED vars

Next ==
  \/ list_devices
  \/ open_device
  \/ from_device
  \/ from_device_fails
  \/ \E p \in Pds : allocate_pd(p) \/ \E m \in Mrs : register_mr(m, p)
  \/ \E c \in Cqs : create_cq(c)
  \/ \E q \in Qps, p \in Pds, s, r \in Cqs : create_qp(q, p, s, r) \/ create_qp_fails(q, p, s, r)
  \/ \E o \in Objects : drop_handle(o) \/ drop(o)
  \/ Over

Spec == Init /\ [][Next]_vars

\* Drop runs to its end once the last reference is gone.
FairSpec == Spec /\ \A o \in Objects : WF_vars(drop(o))

-----------------------------------------------------------------------------
(* Properties.                                                             *)

\* In whatever order the handles are dropped, every object is destroyed before the ones
\* it was made from, but for what a leaked queue pair was made from.
TeardownOrdered ==
  \A o \in premature : \E q \in leaked : o \in parents[q] \cup {Ctx}

\* A value's raw pointers stay good: what it was made from is alive in the program and at
\* the device as long as the value is.
PointersValid ==
  \A o \in values : o \in device /\ parents[o] \subseteq values \cap device

\* Nothing is lost, in whatever order the handles are dropped: an object no value owns has
\* left the device, unless a queue pair leaked by its builder was made from it, or it is one.
NothingLost ==
  \A o \in device \ values : \E q \in leaked \cap Qps : o = q \/ o \in parents[q]

\* "The underlying hardware resource is deallocated when the last clone is dropped."
DeallocatedWithLastClone == \A p \in made \cap Pds : p \notin values => p \notin device

\* When the program holds nothing any more, everything is torn down.
AllDropped == (handles = {} /\ made # {}) ~> (values = {})
=============================================================================
