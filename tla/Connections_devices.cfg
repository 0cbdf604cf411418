SPECIFICATION LiveSpec
CONSTANTS
  MaxConnections = 3
  Holder = {h1}
  GUID = {g1}
  Limit = 2
  Nobody = Nobody
INVARIANTS HeldIsLive ConnectionOutlivesUse OneOnline RetiredIsDeleted
PROPERTY SlotsReturned
CHECK_DEADLOCK FALSE
