\* Two addresses, two URLs, two guids, two ids of each; two requests of operators beside
\* the page and the import, one of which is killed.
SPECIFICATION FairSpec
CONSTANTS
  x = x
  y = y
  a = a
  b = b
  g = g
  h = h
  Url = {a, b}
  Email = {x, y}
  Guid = {g, h}
  Nobody = Nobody
  MaxId = 2
  LegacyUsers <- MCLegacyUsers
  LegacyFeeds <- MCLegacyFeeds
  LegacySubs <- MCLegacySubs
  LegacySeen <- MCLegacySeen
  MaxRequests = 2
  MaxFailures = 1
  MaxKills = 1
INVARIANTS
  Intact
PROPERTIES
  SavesExactly
  ImportCompletes
CHECK_DEADLOCK FALSE
