SPECIFICATION Spec
CONSTANTS
  m1 = m1
  m2 = m2
  w1 = w1
  a1 = a1
  a2 = a2
  c1 = c1
  u1 = u1
  Messages = {m1}
  Keys = {a1, c1}
  Addresses = {a1}
  Configured = {c1}
  SitesOf <- MixedSites
  WebMessages = {}
  WebSite <- PostedToNone
  Senders = {s1}
  Slots = {1, 2, 3}
  Persisters = {"Raven"}
  MaxRetries = 2
  MaxPosts = 0
  MaxDisturbances = 0
  None = None
INVARIANT NoDestinationForgotten
CHECK_DEADLOCK FALSE
