\* All endpoints, two processes, one product.
SPECIFICATION Spec
CONSTANTS
  a = a
  b = b
  w1 = w1
  w2 = w2
  o1 = o1
  o2 = o2
  o3 = o3
  NoWorker = NoWorker
  Products = {a}
  Orders = {o1}
  Workers = {w1, w2}
  Carts <- SingleUnitCart
  InitStock <- UnitStock
  EditStock = {0, 1}
  Endpoints = {"checkout", "cancel", "patch", "update", "edit", "archive"}
  MaxUpdates = 1
  MaxFailures = 1
SYMMETRY Requests
INVARIANTS
  ActiveInStock
  
