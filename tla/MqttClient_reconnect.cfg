SPECIFICATION MqttLiveSpec
CONSTANTS
  Mqtt = mqtt
  Publishers = {w1}
  Owner = conn
  NoThread = NoThread
  MinDelay = 1
  MaxDelay = 5
  QueueSize = 3
  MaxClients = 1
  MaxPublishes = 1
  MaxOutages = 1
PROPERTY Reconnects
CHECK_DEADLOCK FALSE
