SPECIFICATION Spec
CONSTANTS
  MsgIds = 1
  PD_CAPS_COUNT = 1
  PD_SNK_CAP_RETRIES = 0
  PDO_MAX_OBJECTS = 1
  SeenOnWire = {}
  Partners <- Drp
  PartnerMsgs <- ContractMsgs
  RoleConformant = TRUE
  PartnerAcks = TRUE
  Collisions = FALSE
  PartnerResets = FALSE
  Apis <- BothSwaps
  MaxPresses = 0
  Replug = FALSE
  RxDepth = 1
INVARIANTS
  TimerOfState
  TimedWaits
  RoleMatchesState
  PullMatchesRole
  NoContractDuringSwap
  HeaderMatchesRoles
PROPERTIES
  ImplementsContract
