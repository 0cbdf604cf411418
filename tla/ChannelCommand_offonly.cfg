SPECIFICATION Spec
CONSTANTS
  Kinds = {"relay"}
  Position = {"p1", "p2"}
  Move = {"up", "down"}
  Nothing = "nothing"
  HasOn = FALSE
  HasOff = TRUE
  MaxTime = 1
  Conn = conn
  W1 = w1
  Mqtt = mqtt
  MaxCommands = 2
  MaxStates = 1
INVARIANT DeviceFollows
CHECK_DEADLOCK FALSE
