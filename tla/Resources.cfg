SPECIFICATION FairSpec
CONSTANTS
  List = list
  Ctx = ctx
  Pds = {p1}
  Cqs = {c1, c2}
  Qps = {q1, q2}
  Mrs = {m1, m2}
INVARIANT TeardownOrdered
INVARIANT PointersValid
INVARIANT NothingLost
PROPERTY AllDropped
