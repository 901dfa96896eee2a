SPECIFICATION FairSpec
CONSTANTS
  Streams = {s1, s2, s3}
  ConnectTimeout = 1
  ReadTimeout = 2
  WallClock = 4
INVARIANT StreamTypeOK
INVARIANT HoldBounded
PROPERTY StreamsEnd
