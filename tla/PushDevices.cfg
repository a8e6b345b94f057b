SPECIFICATION FairSpec
CONSTANTS
  Members = {ann, bob}
  Browsers = {desk}
  Pages = {p1, p2}
  Senders = {s1}
  Nobody = Nobody
  MaxUpsets = 2
INVARIANTS
  TypeOK
  OnlyOwnRows
  NoEcho
  UpsertNeverCollides
  ShownToMember
PROPERTIES
  Heals
CHECK_DEADLOCK FALSE
