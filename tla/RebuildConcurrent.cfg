SPECIFICATION Spec
CONSTANTS
  Builders = {b1, b2}
  d1 = d1
  d2 = d2
  d3 = d3
  x = x
  y = y
  Docs = {d1, d2}
  ChunkId <- MCChunkId
  KeepPrevious = 0
  MaxCommits = 2
  MaxTime = 4
SYMMETRY Symmetry
INVARIANT LiveIsComplete
INVARIANT TargetsArePrivate
INVARIANT OneLivePerBuilder
PROPERTY AliasNeverDropped
