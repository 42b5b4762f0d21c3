-------------------------- MODULE ResourcesProofs ---------------------------
(***************************************************************************)
(* Proofs about Resources, for any sets of protection domains, completion   *)
(* queues, queue pairs and memory regions: the objects of the device are    *)
(* destroyed in order, whatever order the program drops its handles in.     *)
(***************************************************************************)
EXTENDS Resources, TLAPS

\* Every variable has its type.
TypeInv ==
  /\ made \in SUBSET Objects /\ device \in SUBSET made /\ values \in SUBSET made
  /\ handles \in SUBSET values
  /\ premature \in SUBSET made /\ leaked \in SUBSET (device \ values)
  /\ parents \in [Objects -> SUBSET Objects]

\* What each kind of object is made from: a context from nothing, a domain or queue from
\* the context, a region from a domain, a queue pair from a domain and two queues.
ParentsInv ==
  /\ \A o \in Objects \ made : parents[o] = {}
  /\ parents[Ctx] = {} /\ parents[List] = {}
  /\ \A o \in made \cap (Pds \cup Cqs) : parents[o] = {Ctx}
  /\ \A o \in Qps \cup Mrs : parents[o] \subseteq Pds \cup Cqs

IInv == TypeInv /\ ParentsInv /\ PointersValid /\ NothingLost /\ TeardownOrdered

-----------------------------------------------------------------------------
\* Nothing exists at first.
LEMMA InitIInv == Init => IInv
<1> SUFFICES ASSUME Init PROVE IInv
  OBVIOUS
<1> QED
  BY ObjectsAssumption
  DEF Init, IInv, TypeInv, ParentsInv, PointersValid, NothingLost, TeardownOrdered, Objects

\* A new object whose parents are alive, owned by a new value, keeps the invariant.
LEMMA CreateOwned ==
  ASSUME IInv, NEW o \in Objects, NEW ps \in SUBSET values,
         Create(o, ps),
         values' = values \cup {o}, handles' \in {handles, handles \cup {o}}, leaked' = leaked,
         o \in {Ctx, List} => ps = {},
         o \in Pds \cup Cqs => ps = {Ctx},
         o \in Qps \cup Mrs => ps \subseteq Pds \cup Cqs
  PROVE  IInv'
<1> USE DEF IInv, Create
<1>1. TypeInv'
  BY DEF TypeInv
<1>2. parents'[o] = ps /\ \A x \in Objects \ {o} : parents'[x] = parents[x]
  BY DEF TypeInv
<1>3. ParentsInv'
  BY <1>2, ObjectsAssumption DEF TypeInv, ParentsInv, Objects
<1>4. PointersValid'
  BY <1>2 DEF TypeInv, PointersValid
<1>5. NothingLost'
  BY DEF TypeInv, NothingLost
<1>6. TeardownOrdered'
  BY <1>2 DEF TypeInv, TeardownOrdered
<1> QED
  BY <1>1, <1>3, <1>4, <1>5, <1>6

\* An object made from the context needs a value that leads back to it.
LEMMA ContextAlive == IInv /\ HasContext => Ctx \in values
  BY DEF IInv, TypeInv, ParentsInv, PointersValid, HasContext

\* A queue pair that no value owns, made from live objects, keeps the invariant.
LEMMA CreateLeaked ==
  ASSUME IInv, NEW q \in Qps, NEW p \in Pds, NEW s \in Cqs, NEW r \in Cqs,
         create_qp_fails(q, p, s, r)
  PROVE  IInv'
<1> USE DEF IInv, Create, create_qp_fails
<1>0. q \in Objects /\ {p, s, r} \in SUBSET values
  BY DEF Objects, TypeInv
<1>1. TypeInv'
  BY <1>0 DEF TypeInv
<1>2. parents'[q] = {p, s, r} /\ \A x \in Objects \ {q} : parents'[x] = parents[x]
  BY <1>0 DEF TypeInv
<1>3. ParentsInv'
  BY <1>0, <1>2, ObjectsAssumption DEF TypeInv, ParentsInv, Objects
<1>4. PointersValid'
  BY <1>2 DEF TypeInv, PointersValid
<1>5. NothingLost'
  BY DEF TypeInv, NothingLost
<1>6. TeardownOrdered'
  BY <1>2 DEF TypeInv, TeardownOrdered
<1> QED
  BY <1>1, <1>3, <1>4, <1>5, <1>6

\* Opening a device by name leaves no list behind.
LEMMA OpenDevice == IInv /\ open_device => IInv'
<1> SUFFICES ASSUME IInv, open_device PROVE IInv'
  OBVIOUS
<1> USE DEF IInv, open_device
<1>1. TypeInv'
  BY DEF TypeInv, Objects
<1>2. ParentsInv'
  BY ObjectsAssumption DEF TypeInv, ParentsInv, Objects
<1>3. PointersValid'
  BY DEF TypeInv, PointersValid, ParentsInv
<1>4. NothingLost'
  BY DEF TypeInv, NothingLost
<1>5. TeardownOrdered'
  BY DEF TeardownOrdered
<1> QED
  BY <1>1, <1>2, <1>3, <1>4, <1>5

\* The destructor runs in order: a value goes when no other value needs it.  If the device
\* still has an object made from it, that one is a leaked queue pair, or is pinned by one.
LEMMA DropKeeps ==
  ASSUME IInv, NEW o \in Objects, drop(o)
  PROVE  IInv'
<1> DEFINE inUse == \E x \in device : o \in parents[x]
<1> USE DEF IInv, held
<1>0. /\ o \in values \ handles
      /\ \A x \in values : o \notin parents[x]
      /\ values' = values \ {o}
      /\ premature' = IF inUse THEN premature \cup {o} ELSE premature
      /\ device' = IF inUse /\ o # Ctx THEN device ELSE device \ {o}
      /\ UNCHANGED <<made, handles, parents, leaked>>
  BY DEF drop
<1>1. TypeInv'
  BY <1>0 DEF TypeInv
<1>2. ParentsInv'
  BY <1>0 DEF ParentsInv
<1>3. PointersValid'
  BY <1>0 DEF PointersValid, TypeInv
<1>4. inUse => \E q \in leaked \cap Qps : o \in parents[q] \cup {Ctx}
  <2> SUFFICES ASSUME NEW x \in device, o \in parents[x]
               PROVE  \E q \in leaked \cap Qps : o \in parents[q] \cup {Ctx}
    OBVIOUS
  <2>1. PICK q \in leaked \cap Qps : x = q \/ x \in parents[q]
    BY <1>0 DEF NothingLost
  <2>2. CASE x = q
    BY <2>2
  <2>3. CASE x \in parents[q]
    <3>1. x \in Pds \cup Cqs /\ x \in made
      BY <2>3 DEF ParentsInv, TypeInv
    <3>2. o = Ctx
      BY <3>1 DEF ParentsInv
    <3> QED
      BY <3>2
  <2> QED
    BY <2>1, <2>2, <2>3
<1>5. NothingLost'
  <2> SUFFICES ASSUME NEW x \in device' \ values'
               PROVE  \E q \in leaked \cap Qps : x = q \/ x \in parents[q]
    BY <1>0 DEF NothingLost
  <2>1. CASE x = o
    BY <1>0, <1>4, <2>1
  <2>2. CASE x # o
    BY <1>0, <2>2 DEF NothingLost
  <2> QED
    BY <2>1, <2>2
<1>6. TeardownOrdered'
  BY <1>0, <1>4 DEF TeardownOrdered
<1> QED
  BY <1>1, <1>2, <1>3, <1>5, <1>6

-----------------------------------------------------------------------------
\* Every step keeps the invariant.
LEMMA NextIInv == IInv /\ [Next]_vars => IInv'
<1> SUFFICES ASSUME IInv, [Next]_vars PROVE IInv'
  OBVIOUS
<1>1. CASE list_devices
  <2>1. List \in Objects /\ {} \in SUBSET values
    BY DEF Objects
  <2> QED
    BY <1>1, <2>1, CreateOwned, ObjectsAssumption DEF list_devices, Own, Objects
<1>2. CASE from_device \/ from_device_fails
  <2>1. Ctx \in Objects /\ {} \in SUBSET values
    BY DEF Objects
  <2> QED
    BY <1>2, <2>1, CreateOwned, ObjectsAssumption DEF from_device, from_device_fails, Own
<1>3. CASE open_device
  BY <1>3, OpenDevice
<1>4. ASSUME NEW p \in Pds \cup Cqs, HasContext, Create(p, {Ctx}), Own(p)
      PROVE  IInv'
  <2>1. p \in Objects /\ {Ctx} \in SUBSET values
    BY <1>4, ContextAlive DEF Objects
  <2> QED
    BY <1>4, <2>1, CreateOwned, ObjectsAssumption DEF Own
<1>5. ASSUME NEW p \in Pds, NEW m \in Mrs, register_mr(m, p)
      PROVE  IInv'
  <2>1. m \in Objects /\ {p} \in SUBSET values
    BY <1>5 DEF Objects, register_mr, IInv, TypeInv
  <2> QED
    BY <1>5, <2>1, CreateOwned, ObjectsAssumption DEF Own, register_mr
<1>6. ASSUME NEW q \in Qps, NEW p \in Pds, NEW s \in Cqs, NEW r \in Cqs, create_qp(q, p, s, r)
      PROVE  IInv'
  <2>1. q \in Objects /\ {p, s, r} \in SUBSET values
    BY <1>6 DEF Objects, create_qp, IInv, TypeInv
  <2> QED
    BY <1>6, <2>1, CreateOwned, ObjectsAssumption DEF Own, create_qp
<1>7. ASSUME NEW o \in Objects, drop_handle(o)
      PROVE  IInv'
  BY <1>7 DEF drop_handle, IInv, TypeInv, ParentsInv, PointersValid, NothingLost, TeardownOrdered
<1>8. CASE UNCHANGED vars
  BY <1>8 DEF vars, IInv, TypeInv, ParentsInv, PointersValid, NothingLost, TeardownOrdered
<1> QED
  BY <1>1, <1>2, <1>3, <1>4, <1>5, <1>6, <1>7, <1>8, CreateLeaked, DropKeeps
  DEF Next, allocate_pd, create_cq, Over

\* The raw pointers of a value stay good as long as the value lives: what it was made from
\* is alive in the program and at the device.
THEOREM PointersStayValid == Spec => []PointersValid
<1>1. IInv => PointersValid
  BY DEF IInv
<1> QED
  BY <1>1, InitIInv, NextIInv, PTL DEF Spec

\* In whatever order handles are dropped, an object is destroyed before those it was made
\* from, but for what a leaked queue pair pins.
THEOREM TeardownInOrder == Spec => []TeardownOrdered
<1>1. IInv => TeardownOrdered
  BY DEF IInv
<1> QED
  BY <1>1, InitIInv, NextIInv, PTL DEF Spec

\* An object that no value owns has left the device, in whatever order the handles were
\* dropped, unless a queue pair that its builder leaked was made from it.
THEOREM NothingIsLost == Spec => []NothingLost
<1>1. IInv => NothingLost
  BY DEF IInv
<1> QED
  BY <1>1, InitIInv, NextIInv, PTL DEF Spec
=============================================================================
