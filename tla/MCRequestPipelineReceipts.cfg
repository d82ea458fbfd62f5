CONSTANTS
  c1 = c1
  c2 = c2
  c3 = c3
  s1 = s1
  rA = rA
  rB = rB
  hist = hist
  Content = {c1, c2, c3}
  Prefix <- MCPrefix
  Bytes <- MCBytes
  Chars <- MCChars
  Session = {s1}
  Request = {rA, rB, hist}
  HistoryPin = hist
  Caller <- MCCaller
  StateKey = {}
  MaxArtifactChars = 4
  MaxVaultBytes = 6
  HighPct = 100
  LowPct = 60
  InlineLimit = 1
  NoId = NoId
  IdOrder <- MCIdOrder
  MaxTime = 1
  Worker = {w1, w2}
  Job <- MCJob
  MinArtifact = 3
  MinVault = 2
  ReceiptChars = 1
  MaxRequests = 2
  MaxFaults = 0
SPECIFICATION PipelineSpec
INVARIANTS PublishedRecoverable
