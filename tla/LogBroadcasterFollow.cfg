\* Two connections, a ring of two lines and channels of one, five lines: the
\* ring wraps around twice and channels overflow.  Nothing more happens once the
\* lines are used up and the connections are gone.
SPECIFICATION FairSpec
CONSTANTS
  b1 = b1
  b2 = b2
  Client = {b1, b2}
  RingSize = 2
  ChanSize = 1
  MaxLines = 5
  Threshold <- MCThreshold
  Level <- MCLevel
  Global <- MCGlobal
  Override <- MCOverride
  Record <- MCRecord
  Part = {"a", "b"}
  Depth = 2
  MaxOverrides = 2
INVARIANTS
  TypeOK
  HistoryIsLatest
  NoGapNoRepeat
  FilterObeyed
PROPERTIES
  LinesArrive
CHECK_DEADLOCK FALSE
