\* A tag of two bytes, a receiver that takes three bytes of data and version 2,
\* a sender of version 3 with five bytes.
SPECIFICATION LiveSpec
CONSTANTS
  SUPLA_TAG_SIZE = 2
  Payloads <- MCPayloads
  SUPLA_MAX_DATA_SIZE = 3
  SenderVersion = 3
  SUPLA_PROTO_VERSION = 2
  BUFFER_MAX_SIZE = 15
  SRPC_BUFFER_SIZE = 8
  Lossy = TRUE
  MaxFrames = 2
INVARIANTS TypeOK FramesKept BeginTagIsCurrent ErrorIsDeserved
PROPERTY AllReceived
