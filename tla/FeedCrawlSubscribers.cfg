\* Two subscribers, one item, nothing fails.
SPECIFICATION Spec
CONSTANTS
  u1 = u1
  u2 = u2
  g1 = g1
  g2 = g2
  User = {u1, u2}
  Guid = {g1}
  NoGuid = NoGuid
  NoRow = NoRow
  MaxVersion = 1
  Items <- OneItem
  MaxEdits = 0
  MaxRewinds = 0
  MaxFailures = 0
  MaxAborts = 0
PROPERTIES
  EverySubscriberQueued
