\* One row, one process that is cancelled or killed and started again.
SPECIFICATION FairSpec
CONSTANTS
  r1 = r1
  r2 = r2
  s1 = s1
  Item = {r1}
  Stopper = {}
  Loop = Loop
  NoItem = NoItem
  MaxRetries = 2
  InitialBackoff = 1
  MaxBackoff = 2
  Width = 6
  Half = 32
  FarFuture = 2
  MaxInterrupts = 1
  MaxDBErrors = 0
PROPERTIES
  EverySettled
