SPECIFICATION Spec
CONSTANTS
  ClientMsgs = {"c1"}
  ServerMsgs = {"s1"}
  Calls <- MCCalls
  MaxCalls = 3
  ClientRegs <- MCClientRegs
  ServerRegs <- MCServerRegs
  Kinds <- MCKinds
  INBOUND_QUEUE_CAPACITY = 1
CHECK_DEADLOCK FALSE
INVARIANTS
  SwitchLossless
  CompressionAccepted
  FlareHears
PROPERTY
  Negotiates
