SPECIFICATION CacheSpec
CONSTANTS
  named = named
  plain = plain
  code = code
  offTopic = offTopic
  Clients = {c1, c2}
  AgenticClients = {c2}
  NoCacheClients = {}
  Questions = {offTopic}
  RoutesOf <- MCRoutesOf
  Docs = {}
  MaxCommits = 1
  MaxTime = 1
INVARIANT RejectedNotAnswered
