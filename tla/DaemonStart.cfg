\* Two processes on one new database, two addresses, the four migrations of the
\* repository, of which only the third can be applied again.
SPECIFICATION FairSpec
CONSTANTS
  p1 = p1
  p2 = p2
  addr = addr
  crawlers = crawlers
  usual = usual
  other = other
  Process = {p1, p2}
  Option = {addr, crawlers}
  Numeric = {crawlers}
  Usable = {usual, other}
  Default = usual
  Unset = Unset
  Refused = Refused
  Garbage = Garbage
  Missing = Missing
  Malformed = Malformed
  Stopped = Stopped
  Addr = addr
  Last = 4
  Repeatable = {3}
INVARIANTS
  TypeOK
  RunsAsTold
  SchemaComplete
PROPERTIES
  RivalLeaves
  SignalEnds
