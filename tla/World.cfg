SPECIFICATION Spec
CONSTANTS
  MsgIds = 1
  PD_CAPS_COUNT = 1
  PD_SNK_CAP_RETRIES = 0
  PDO_MAX_OBJECTS = 1
  SeenOnWire = {}
  Partners <- AnyCable
  PartnerMsgs <- WorldMsgs
  RoleConformant = TRUE
  PartnerAcks = TRUE
  Collisions = FALSE
  PartnerResets = FALSE
  Apis <- WorldApis
  MaxPresses = 0
  Replug = FALSE
  RxDepth = 1
INVARIANTS
  OrientationOK
  OnlyPartnersConnect
  VdmWaits
