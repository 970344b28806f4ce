SPECIFICATION FairSpec
CONSTANTS
  MsgIds = 1
  PD_CAPS_COUNT = 1
  PD_SNK_CAP_RETRIES = 1
  PDO_MAX_OBJECTS = 1
  SeenOnWire = {}
  Partners <- SrcOrSnk
  PartnerMsgs = {}
  RoleConformant = TRUE
  PartnerAcks = TRUE
  Collisions = FALSE
  PartnerResets = FALSE
  Apis <- ForceSource
  MaxPresses = 0
  Replug = TRUE
  RxDepth = 1
PROPERTIES
  ForcedToSource
