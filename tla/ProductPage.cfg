SPECIFICATION Spec
CONSTANTS
  w1 = w1
  w2 = w2
  r1 = r1
  r2 = r2
  r3 = r3
  i1 = i1
  i2 = i2
  i3 = i3
  i4 = i4
  wished = wished
  NoRow = NoRow
  Favorites = {wished}
  RowIds = {r1, r2, r3}
  ImageIds = {i1, i2, i3, i4}
  WebWorkers = {w1, w2}
  MaxImages = 2
  MaxViews = 2
SYMMETRY Symmetry
INVARIANTS
  AnswerStands
  OnePrimary
  ImagesBounded
  ViewsCounted
CHECK_DEADLOCK FALSE
