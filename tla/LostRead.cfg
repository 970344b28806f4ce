SPECIFICATION Spec
CONSTANTS
  Partners <- ChipPartners
  Headers <- ChipHeaders
  CONFIG_USB_PD_PULLUP = "USB"
  FifoDepth = 1
  ReadsFail = TRUE
INVARIANTS
  SuccessMeansDone
