\* Two threads besides the connection's, a queue of two, rr_id overflowing
\* after three, a socket that may drop what it is given.
SPECIFICATION LiveSpec
CONSTANTS
  Callers = {w1, mqtt}
  Conn = conn
  CallType = {value}
  NoCall = NoCall
  QueueSize = 2
  RRMax = 3
  InCap = 2
  Lossy = TRUE
  MaxCalls = 3
  MaxIn = 3
  MaxRead = 3
INVARIANTS TypeOK HandledInOrder NoLostWakeup
PROPERTIES ImplementsQueue AcceptedIsWritten
CHECK_DEADLOCK FALSE
