\* Two request workers and the sweep on two orders, one failure.
SPECIFICATION Spec
CONSTANTS
  w1 = w1
  w2 = w2
  c1 = c1
  o1 = o1
  o2 = o2
  Orders = {o1, o2}
  WebWorkers = {w1, w2}
  CeleryWorkers = {c1}
  AutoCompleteDays = 1
  HasProfile = {o1, o2}
  MaxCrashes = 1
SYMMETRY Symmetry
CONSTRAINT OverlapOnOneOrder
INVARIANTS
  TypeOK
  StatusStamped
  HistoryGrounded
  AnnouncedHappened
  CreditedAtMostOnce
  StockReturnedOnce
  LossesAreFailures
PROPERTIES
  StampsKept
  FlowUnlessRaced
