\* Two callers, two addresses, three calls and two connections; the server may
\* drop a connection and refuse any command.  Nothing more happens once the
\* calls are used up and the server has gone.
SPECIFICATION FairSpec
CONSTANTS
  c1 = c1
  c2 = c2
  a1 = a1
  a2 = a2
  Caller = {c1, c2}
  Rcpt = {a1, a2}
  Recipients <- MCRecipients
  Nobody = Nobody
  NoConn = NoConn
  MaxDials = 2
  MaxCalls = 3
INVARIANTS
  TypeOK
  SessionsSerialised
  BrokenNeverUsed
  NoConnectionLeak
PROPERTIES
  ImplementsTransport
  SendReturns
CHECK_DEADLOCK FALSE
