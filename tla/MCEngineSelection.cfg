CONSTANTS
  a = a
  b = b
  g = g
  l = l
  s = s
  t = t
  u1 = u1
  u2 = u2
  u3 = u3
  r1 = r1
  r2 = r2
  s1 = s1
  s2 = s2
  Engine = {e1}
  Context = {x1, x2}
  Session = {s1, s2}
  Request = {r1, r2}
  Call = {k1, k2}
  SessionOf <- MCSessionOf
  TargetOf <- MCTargetOf
  MaxGeneration = 3
  None = None
  User <- MCUser
  Prose <- MCProse
  Structured <- MCStructured
  Guarded <- MCGuarded
  Encodable <- MCStructured
  Words <- MCWords
  Size <- MCSize
  Cost <- MCCost
  IRCost <- MCIRCost
  IRSize <- MCIRSize
  ReceiptCost = 1
  ReceiptSize = 1
  Incoming <- MCIncoming
  ProtectLast = 1
  RegionChars = 4
  RecallSources = 1
  FindLimit = 2
  MaxBatches = 2
  MaxCandidateChars = 6
  MaxCandidates = 2
  MaxStateChars = 10
  CacheSize = 2
  PolicyMode <- MCPolicyMode
  Budget = 9
  MaxRequests = 2
SYMMETRY MCSymmetry
SPECIFICATION EngineSpec
INVARIANTS EngineTypeOK ReductionIsCurrent SavingsAreReal OmissionsAreScored EditsAreBound OmissionsAreNeeded
