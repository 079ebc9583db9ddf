\* Checkouts of two products in both orders, cancellations, other statuses; fair scheduling.
SPECIFICATION FairSpec
CONSTANTS
  a = a
  b = b
  w1 = w1
  w2 = w2
  o1 = o1
  o2 = o2
  o3 = o3
  NoWorker = NoWorker
  Products = {a, b}
  Orders = {o1, o2}
  Workers = {w1, w2}
  Carts <- TwoProductCarts
  InitStock <- UnitStock
  EditStock = {}
  Endpoints = {"checkout", "cancel", "update"}
  MaxUpdates = 2
  MaxFailures = 1
INVARIANTS
  PlacedIsConfirmed
  SoldOutIsEmpty
  SalesExact
  CheckoutLedger
  StockConserved
CHECK_DEADLOCK FALSE
PROPERTY
  RequestsEnd
