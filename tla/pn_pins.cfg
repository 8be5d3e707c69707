SPECIFICATION Spec
CONSTANTS
  Pins = {p, q}
  LEDC_CHANNELS = 2
  Freqs = {0, 1, 2}
  Reachable = {1}
  QueueSize = 2
  FollowRaces = FALSE
  None = None
INVARIANTS TypeOK OneTonePin NoToneOverrides Books SoundsOnTonePin
PROPERTIES CallsReturn NoToneEnds
