CONSTANTS
  intake = intake
  Store = {intake, copy}
  Node = {m, n}
  Edge = {e}
  EventId = {v1, v2, v3, v4}
  Session = {"s"}
  MaxBatch = 2
  MaxNodes = 2
  MaxEdges = 1
  MaxEvents = 4
  MaxOwn <- MCMaxOwn
  NoEvent = NoEvent
  Thread = {t1, t2}
  Caps = {0, 2}
  Card <- MCCard
  MinScore = 8
  Infinite = 1000
  AlwaysKeep = {3}
  Catalogs <- MCCatalogs
  Documents <- MCDocuments
  NoCatalog = NoCatalog
SYMMETRY MCGraphsSymmetry
SPECIFICATION GraphsSpec
INVARIANTS GraphsTypeOK NoDanglingEdges LogIsState ComparableReplayAccepted MatchesStay UnrelatedStayOut MembersAreOrderFree
PROPERTY ReplayKeepsEvents
