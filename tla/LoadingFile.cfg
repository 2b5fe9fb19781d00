\* The options of DaemonStart.cfg.
SPECIFICATION Spec
CONSTANTS
  addr = addr
  crawlers = crawlers
  usual = usual
  other = other
  Option = {addr, crawlers}
  Numeric = {crawlers}
  Usable = {usual, other}
  Default = usual
  Unset = Unset
  Refused = Refused
  Garbage = Garbage
  Missing = Missing
  Malformed = Malformed
  Stopped = Stopped
INVARIANT
  FileAsTold
CHECK_DEADLOCK FALSE
