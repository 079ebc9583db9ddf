\* One registration after another, none interrupted.
SPECIFICATION Spec
CONSTANTS
  w1 = w1
  w2 = w2
  ann = ann
  Ann = Ann
  bob = bob
  old = old
  new = new
  annas = annas
  others = others
  slug = slug
  NoName = NoName
  Spellings = {ann, Ann, bob}
  Normal <- MCNormal
  Passwords = {old, new}
  Names = {annas, others}
  Workshop = {annas}
  Slug <- MCSlug
  Workers = {w1}
  Crashes = FALSE
  MaxCredits = 2
INVARIANT
  AccountsHaveProfiles
CHECK_DEADLOCK FALSE
