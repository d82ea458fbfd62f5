CONSTANTS
  c1 = c1
  c2 = c2
  c3 = c3
  s1 = s1
  hf = hf
  bpe = bpe
  Plain <- MCPlain
  Coded <- MCCoded
  r1 = r1
  hist = hist
  Content = {c1, c2, c3}
  Prefix <- MCPrefix
  Bytes <- MCBytes
  Chars <- MCChars
  Session = {s1}
  Request = {r1, hist}
  HistoryPin = hist
  JevPin = r1
  Caller = {w1, w2}
  w1 = w1
  w2 = w2
  IdOrder <- MCIdOrder
  MaxTime = 2
  StateKey = {k1}
  MaxArtifactChars = 2
  MaxVaultBytes = 5
  HighPct = 90
  LowPct = 60
  InlineLimit = 1
  NoId = NoId
  Worker = {v1}
  Tokenizers = {hf, bpe}
  MaxReductions = 1
SPECIFICATION VaultSpec
INVARIANTS SemanticTypeOK ReferencesHeld CapacityKept SentRecoverable SearchHolds
PROPERTIES EvictOldestFirst KeepsArchivePromise
