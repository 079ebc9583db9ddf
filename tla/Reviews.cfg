SPECIFICATION Spec
CONSTANTS
  w1 = w1
  w2 = w2
  p1 = p1
  p2 = p2
  c1 = c1
  i1 = i1
  i2 = i2
  t1 = t1
  Shop = Shop
  NoReply = NoReply
  Products = {p1, p2}
  Customers = {c1}
  WebWorkers = {w1, w2}
  ReviewIds = {i1, i2}
  Ratings = {5}
  Replies = {t1}
  MaxVotes = 2
SYMMETRY Symmetry
INVARIANTS
  TypeOK
  HelpfulNotInflated
PROPERTIES
  RatingRepaired
  NothingUndone
CHECK_DEADLOCK FALSE
