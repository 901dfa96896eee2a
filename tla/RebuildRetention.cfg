SPECIFICATION Spec
CONSTANTS
  Builders = {b1}
  d1 = d1
  d2 = d2
  d3 = d3
  x = x
  y = y
  Docs = {d1}
  ChunkId <- MCChunkId
  KeepPrevious = 1
  MaxCommits = 1
  MaxTime = 3
PROPERTY RetentionBound
