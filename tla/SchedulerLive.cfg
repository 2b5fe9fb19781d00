\* Two feeds, one due again at once, one worker, one scan, another goroutine
\* that calls Stop, a cancellation and one failed statement.  The process may
\* end: nothing is left to do once Start has returned.
SPECIFICATION FairSpec
CONSTANTS
  f1 = f1
  f2 = f2
  s1 = s1
  Feed = {f1, f2}
  Hot = {f1}
  Stopper = {s1}
  Loop = Loop
  NoFeed = NoFeed
  MaxWorkers = 1
  MayCancel = TRUE
  MaxScans = 1
  MaxDBErrors = 1
INVARIANTS
  TypeOK
  OneCrawlPerFeed
  FlagsOwned
  PollCrawlsWaited
PROPERTIES
  CancelEnds
  DueCrawled
CHECK_DEADLOCK FALSE
