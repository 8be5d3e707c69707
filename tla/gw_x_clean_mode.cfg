SPECIFICATION Spec
CONSTANTS
  Scenario = "clean_modes"
  a = a
  b = b
  c = c
  d = d
  e = e
  p1 = p1
  p2 = p2
  Requests <- MCRequests
  Kind <- MCKind
  Arduino <- MCArduino
  Port <- MCPort
  Target <- MCTarget
  Ports <- MCPorts
  Targets = {"esp32c3", "esp32c6"}
  Chip <- MCChip
  UsesCr = {}
  Containers = {FALSE}
  Faults = {}
  None = None
  Empty = Empty
  Torn = Torn
PROPERTIES CleanSound
