\* Two subscribers, one item, one edit, one rewind, one failure and
\* one crawl cut short.
SPECIFICATION Spec
CONSTANTS
  u1 = u1
  u2 = u2
  g1 = g1
  g2 = g2
  User = {u1, u2}
  Guid = {g1}
  NoGuid = NoGuid
  NoRow = NoRow
  MaxVersion = 1
  Items <- OneItem
  MaxEdits = 1
  MaxRewinds = 1
  MaxFailures = 1
  MaxAborts = 1
SYMMETRY Subscribers
INVARIANTS
  TypeOK
  QueuedOnce
PROPERTIES
  ImplementsLedger
