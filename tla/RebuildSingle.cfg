SPECIFICATION Spec
CONSTANTS
  Builders = {b1}
  d1 = d1
  d2 = d2
  d3 = d3
  x = x
  y = y
  Docs = {d1, d2, d3}
  ChunkId <- MCChunkId
  KeepPrevious = 1
  MaxCommits = 3
  MaxTime = 3
INVARIANT TypeOK
INVARIANT LiveIsComplete
INVARIANT SingleLive
PROPERTY AliasNeverDropped
PROPERTY RollbackStaysPossible
PROPERTY PublishedIsCurrentOrEmpty
PROPERTY ImplementsLiveIndex
