SPECIFICATION Spec
CONSTANTS
  low = low
  high = high
  q1 = q1
  q2 = q2
  Setpoint = {low, high}
  NoSetpoint = NoSetpoint
  NoSchedule = NoSchedule
  NoValue = NoValue
  Quarter = {q1, q2}
  Schedules <- MCSchedules
  Durations = {0, 1}
  Requests <- MCRequests
  Updates <- MCUpdates
  Throttle = 1
  Tracked = FALSE
  Conn = conn
  W1 = w1
  Mqtt = mqtt
  MaxCommands = 2
  MaxConfigs = 1
  MaxUpdates = 0
  MaxInputs = 4
PROPERTY ProgramIsReceived
