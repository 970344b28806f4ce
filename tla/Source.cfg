SPECIFICATION Spec
CONSTANTS
  MsgIds = 1
  PD_CAPS_COUNT = 1
  PD_SNK_CAP_RETRIES = 1
  PDO_MAX_OBJECTS = 1
  SeenOnWire = {}
  Partners <- Snk
  PartnerMsgs <- SourceMsgs
  RoleConformant = TRUE
  PartnerAcks = TRUE
  Collisions = TRUE
  PartnerResets = FALSE
  Apis <- ToggleOn
  MaxPresses = 0
  Replug = TRUE
  RxDepth = 1
INVARIANTS
  TimerOfState
  TimedWaits
  VdmWaits
  ListeningWhenConnected
PROPERTIES
  ListensToPartner
  ImplementsContract
