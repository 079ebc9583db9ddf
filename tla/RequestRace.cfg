\* Three handlers at once beside the daily task, two failures.
SPECIFICATION Spec
CONSTANTS
  w1 = w1
  w2 = w2
  w3 = w3
  c1 = c1
  r1 = r1
  r2 = r2
  p1 = p1
  p2 = p2
  NoPrice = NoPrice
  Prices = {p1, p2}
  Requests = {r1, r2}
  WebWorkers = {w1, w2, w3}
  CeleryWorkers = {c1}
  MaxCrashes = 2
SYMMETRY Symmetry
INVARIANTS
  AcceptedOnTerms
  ExpiredIsOverdue
PROPERTIES
  FlowUnlessRaced
