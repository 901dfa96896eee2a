SPECIFICATION CacheSpec
CONSTANTS
  named = named
  plain = plain
  code = code
  offTopic = offTopic
  Clients = {c1, c2}
  AgenticClients = {c2}
  NoCacheClients = {}
  Questions = {named}
  RoutesOf <- MCRoutesOf
  Docs = {}
  MaxCommits = 2
  MaxTime = 2
INVARIANT CacheTypeOK
INVARIANT NoStaleReplay
INVARIANT LiveEntriesAreExact
INVARIANT OnlyGeneratedCached
