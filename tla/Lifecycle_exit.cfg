SPECIFICATION LiveSpec
CONSTANTS
  Mqtt = mqtt
  Publishers = {w1t, connt}
  Owner = connt
  NoThread = NoThread
  MinDelay = 1
  MaxDelay = 2
  QueueSize = 2
  MaxClients = 2
  MaxPublishes = 1
  MaxOutages = 1
  W1 = w1t
  Conn = connt
INVARIANTS ConnectFirst SocketsKept StuckOnlyWhenRefused FaultsAreKnown
INVARIANTS OnlineUnlessRefused CleanExit
PROPERTIES Recovers ExitCompletes
CHECK_DEADLOCK FALSE
