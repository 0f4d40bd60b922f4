SPECIFICATION DnsFairSpec
CONSTANTS
  Lookups = {l1, l2}
  Sessions = {s1, s2}
  Questions = {server, app}
  Server = server
  Ttl = 3
  Timeout = 1
  Patience = 2
INVARIANTS
  DnsTypeOK
  NoStaleAnswer
PROPERTIES
  EveryLookupEnds
  CachedNameReconnects
CHECK_DEADLOCK FALSE
