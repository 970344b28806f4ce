SPECIFICATION Spec
CONSTANTS
  MsgIds = 1
  PD_CAPS_COUNT = 1
  PD_SNK_CAP_RETRIES = 1
  PDO_MAX_OBJECTS = 2
  SeenOnWire = {}
  Partners <- Src
  PartnerMsgs <- OfferMsgs
  RoleConformant = TRUE
  PartnerAcks = TRUE
  Collisions = FALSE
  PartnerResets = FALSE
  Apis = {}
  MaxPresses = 1
  Replug = FALSE
  RxDepth = 1
INVARIANTS
  RequestsOfferedPdo
