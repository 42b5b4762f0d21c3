SPECIFICATION Spec
CONSTANTS
  List = list
  Ctx = ctx
  Pds = {p1}
  Cqs = {c1}
  Qps = {q1}
  Mrs = {m1}
INVARIANT DeallocatedWithLastClone
