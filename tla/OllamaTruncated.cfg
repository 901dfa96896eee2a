SPECIFICATION Spec
CONSTANTS
  Streams = {s1, s2}
  ConnectTimeout = 1
  ReadTimeout = 2
  WallClock = 3
INVARIANT SuccessIsComplete
