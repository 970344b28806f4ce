SPECIFICATION FairSpec
CONSTANTS
  MsgIds = 1
  PD_CAPS_COUNT = 2
  PD_SNK_CAP_RETRIES = 1
  PDO_MAX_OBJECTS = 1
  SeenOnWire = {}
  Partners <- SrcOrSnk
  PartnerMsgs <- ContractMsgs
  RoleConformant = TRUE
  PartnerAcks = TRUE
  Collisions = FALSE
  PartnerResets = FALSE
  Apis <- ToggleOn
  MaxPresses = 0
  Replug = FALSE
  RxDepth = 1
  MSEC_US = 3
  WordSize = 10
  Moments <- SmallMoments
  Delays <- SmallDelays
  CurrentFields <- SomeCurrents
  VoltageFields <- SomeVoltages
INVARIANTS
  ClockSound
  RequestSound
PROPERTIES
  WaitsEnd
  VdmEnds
  PlainChargerLeftAlone
