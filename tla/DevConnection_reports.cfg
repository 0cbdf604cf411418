SPECIFICATION LiveSpec
CONSTANTS
  Channel = {c1}
  Value = {0, 1}
  W1 = w1
  Mqtt = mqtt
  Conn = conn
  QueueSize = 2
  MaxConnections = 2
  MaxChanges = 2
  MaxOther = 1
INVARIANTS FaultOnlyWhenOverlapped RegisterFirst ServerInStep
PROPERTY TerminatedEnds
CHECK_DEADLOCK FALSE
