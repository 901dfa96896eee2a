SPECIFICATION FairCacheSpec
CONSTANTS
  named = named
  plain = plain
  code = code
  offTopic = offTopic
  Clients = {c1, c2}
  AgenticClients = {c1, c2}
  NoCacheClients = {c2}
  Questions = {plain, code}
  RoutesOf <- MCRoutesOf
  Docs = {}
  MaxCommits = 1
  MaxTime = 2
PROPERTY RequestsEnd
