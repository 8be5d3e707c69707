SPECIFICATION SpecTurns
CONSTANTS
  Scenario = "turns"
  a = a
  b = b
  c = c
  d = d
  e = e
  p1 = p1
  p2 = p2
  Requests <- MCRequests
  Kind <- MCKind
  Arduino <- MCArduino
  Port <- MCPort
  Target <- MCTarget
  Ports <- MCPorts
  Targets = {"esp32c3", "esp32c6"}
  Chip <- MCChip
  UsesCr = {b, c}
  Containers = {FALSE}
  Faults = {"fail"}
  None = None
  Empty = Empty
  Torn = Torn
INVARIANTS TypeOK
PROPERTIES FlashSound JobSound CleanSound ImplementsService
