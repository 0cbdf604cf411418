\* A relay, an impulse channel and a roller shutter, each an initial choice.
SPECIFICATION LiveSpec
CONSTANTS
  Kinds = {"relay", "impulse", "shutter"}
  Position = {"p1", "p2"}
  Move = {"up", "down"}
  Nothing = "nothing"
  HasOn = TRUE
  HasOff = TRUE
  MaxTime = 1
  Conn = conn
  W1 = w1
  Mqtt = mqtt
  MaxCommands = 3
  MaxStates = 2
INVARIANTS DeviceFollows ServerFollows PositionKept
PROPERTY ImpulseEnds
CHECK_DEADLOCK FALSE
