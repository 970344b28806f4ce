SPECIFICATION Spec
CONSTANTS
  MsgIds = 1
  PD_CAPS_COUNT = 1
  PD_SNK_CAP_RETRIES = 1
  PDO_MAX_OBJECTS = 1
  SeenOnWire = {}
  Partners <- Src
  PartnerMsgs <- SinkMsgs
  RoleConformant = TRUE
  PartnerAcks = TRUE
  Collisions = FALSE
  PartnerResets = TRUE
  Apis = {}
  MaxPresses = 1
  Replug = TRUE
  RxDepth = 2
INVARIANTS
  TypeOK
  DeafWhenDisconnected
  TimerOfState
  TimedWaits
PROPERTIES
  ImplementsContract
