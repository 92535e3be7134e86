\* Subscribers leave only when nobody sends to them.
SPECIFICATION FairSpec
CONSTANTS
  r1 = r1
  r2 = r2
  p1 = p1
  p2 = p2
  s2 = s2
  t2 = t2
  g1 = g1
  Resources = {r1, r2}
  Publishers = {p1, p2}
  Subscribers = {s2, t2}
  ResOf <- MCResOf
  IDOf <- MCIDOf
  Rank <- MCRank
  Values = {v0, v1}
  NoValue = v0
  NumRDs = 2
  QueueSize = 1
  ListSize = 1
  Rough = {}
  NoOwner = NoOwner
  NoID = NoID
  End = End
  Freed = Freed
INVARIANTS
  TypeOK
  GroupsAgree
  WaitsUpwards
  IndicatedWhole
  InterruptsAnnounced
PROPERTIES
  SendEnds
