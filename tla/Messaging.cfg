SPECIFICATION Spec
CONSTANTS
  w1 = w1
  w2 = w2
  u1 = u1
  u2 = u2
  p1 = p1
  NoProduct = NoProduct
  Users = {u1, u2}
  Products = {p1}
  MaxConversations = 2
  MaxMessages = 2
  WebWorkers = {w1, w2}
SYMMETRY Symmetry
INVARIANTS
  TypeOK
  NoStrayMessage
  ReadWasShown
  OnePerProduct
PROPERTY
  MailboxSpec
CHECK_DEADLOCK FALSE
