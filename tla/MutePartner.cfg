SPECIFICATION Spec
CONSTANTS
  MsgIds = 1
  PD_CAPS_COUNT = 1
  PD_SNK_CAP_RETRIES = 1
  PDO_MAX_OBJECTS = 1
  SeenOnWire = {}
  Partners <- Snk
  PartnerMsgs = {}
  RoleConformant = TRUE
  PartnerAcks = FALSE
  Collisions = FALSE
  PartnerResets = FALSE
  Apis <- ToggleOn
  MaxPresses = 0
  Replug = FALSE
  RxDepth = 1
INVARIANTS
  PdCapableOnlyIfAcked
