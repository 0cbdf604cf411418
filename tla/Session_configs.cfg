\* A meter that is channel 0, which is untracked, and a thermostat, and a queue
\* smaller than what is offered; the margin is twice the slack.
SPECIFICATION LiveSpec
CONSTANTS
  LastChannel = 1
  Gpm = {0}
  Hvac = {1}
  Fan = {}
  QueueSize = 2
  ActivityTimeout = 5
  PingMargin = 2
  ConfigDelay = 1
  Slack = 1
  Latency = 1
INVARIANT KeepAlive
PROPERTIES OfferedOnce ConfigsSettle
