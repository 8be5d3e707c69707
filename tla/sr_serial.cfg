SPECIFICATION Spec
CONSTANTS
  Bytes = {0, 10, 45, 49, 97}
  INT_CHARS = 3
  FIND_BUFFER = 5
  Targets <- MCTargets
  Terminators = {0, 49}
  Lengths = {0, 2}
  Ignores = {0, 97}
  MaxUnread = 4
INVARIANTS TypeOK FindsLongest
PROPERTIES BoundedCallsEnd ImplementsByteStream
