SPECIFICATION Spec
CONSTANTS
  w1 = w1
  w2 = w2
  ann = ann
  Ann = Ann
  bob = bob
  old = old
  new = new
  annas = annas
  others = others
  slug = slug
  NoName = NoName
  Spellings = {ann, Ann, bob}
  Normal <- MCNormal
  Passwords = {old, new}
  Names = {annas, others}
  Workshop = {annas}
  Slug <- MCSlug
  Workers = {w1, w2}
  Crashes = TRUE
  MaxCredits = 2
SYMMETRY Symmetry
INVARIANTS
  TotalsEarned
  ShopsAddressed
PROPERTY
  PasswordStands
CHECK_DEADLOCK FALSE
