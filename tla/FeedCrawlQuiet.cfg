\* One subscriber, two versions of the document, one edit, and nothing fails.
SPECIFICATION FairSpec
CONSTANTS
  u1 = u1
  u2 = u2
  g1 = g1
  g2 = g2
  User = {u1}
  Guid = {g1, g2}
  NoGuid = NoGuid
  NoRow = NoRow
  MaxVersion = 2
  Items <- TwoVersions
  MaxEdits = 1
  MaxRewinds = 0
  MaxFailures = 0
  MaxAborts = 0
INVARIANTS
  ConditionalGetSafe
PROPERTIES
  EveryItemSeen
