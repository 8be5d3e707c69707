SPECIFICATION StreamSpec
CONSTANTS
  LINE_SIZE = 4
  Chars = {"[", "C", "D"}
  StrSizes = {2}
INVARIANTS TypeOK InBuffer Mirror EditedAsTyped
PROPERTIES ImplementsConsole
