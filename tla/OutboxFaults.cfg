\* Two rows, a goroutine that calls Stop, one process that is cancelled or killed
\* and started again, and one failed statement, under the fairness of the Go
\* scheduler.
SPECIFICATION FairSpec
CONSTANTS
  r1 = r1
  r2 = r2
  s1 = s1
  Item = {r1, r2}
  Stopper = {s1}
  Loop = Loop
  NoItem = NoItem
  MaxRetries = 2
  InitialBackoff = 1
  MaxBackoff = 2
  Width = 6
  Half = 32
  FarFuture = 1
  MaxInterrupts = 1
  MaxDBErrors = 1
INVARIANTS
  TypeOK
  NoDoubleDelivery
  StrandedBounded
  StopWaits
  DelayDoubles
PROPERTIES
  BackoffHonoured
  NoAddDuringWait
  ImplementsLifecycle
  ShutdownEnds
  SettledUnlessDisturbed
