SPECIFICATION FairSpec
CONSTANTS
  m1 = m1
  m2 = m2
  w1 = w1
  a1 = a1
  a2 = a2
  c1 = c1
  u1 = u1
  Messages = {m1, m2}
  Keys = {a1, a2, u1}
  Addresses = {a1, a2}
  Configured = {}
  SitesOf <- TwoSites
  WebMessages = {w1}
  WebSite <- PostedToOne
  Senders = {s1}
  Slots = {1, 2}
  Persisters = {"InMemory", "Raven", "Sql"}
  MaxRetries = 2
  MaxPosts = 1
  MaxDisturbances = 1
  None = None
INVARIANT TypeOK
INVARIANT NoDestinationForgotten
INVARIANT AtMostOnce
INVARIANT RecordsAgree
PROPERTY EveryDestinationDecided
CHECK_DEADLOCK FALSE
