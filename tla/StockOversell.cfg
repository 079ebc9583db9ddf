\* Two checkouts validate the same units.
SPECIFICATION Spec
CONSTANTS
  a = a
  b = b
  w1 = w1
  w2 = w2
  o1 = o1
  o2 = o2
  o3 = o3
  NoWorker = NoWorker
  Products = {a}
  Orders = {o1, o2}
  Workers = {w1, w2}
  Carts <- OneProductCarts
  InitStock <- OneStock
  EditStock = {}
  Endpoints = {"checkout"}
  MaxUpdates = 0
  MaxFailures = 0
INVARIANT
  ReservedWithinStock
CHECK_DEADLOCK FALSE
