SPECIFICATION Spec
CONSTANTS
  Partners <- ChipPartners
  Headers <- ChipHeaders
  CONFIG_USB_PD_PULLUP = "USB"
  FifoDepth = 2
  ReadsFail = FALSE
INVARIANTS
  ChipTypeOK
  RegistersMatchDriver
  PullsMatchDriver
  CcReadingRight
PROPERTIES
  ImplementsTransceiver
