CONSTANTS
  c1 = c1
  c2 = c2
  c3 = c3
  hist = hist
  note = note
  ToolKey = note
  Content = {c1, c2, c3}
  Prefix <- MCPrefix
  Bytes <- MCBytes
  Chars <- MCChars
  Session = {s1}
  Request <- MCRequest
  HistoryPin = hist
  Caller = {w}
  StateKey = {k1}
  MaxArtifactChars = 3
  MaxVaultBytes = 8
  HighPct = 80
  LowPct = 40
  InlineLimit = 1
  NoId = NoId
  IdOrder <- MCIdOrder
  MaxTime = 1
  Worker = {w1, w2}
  DeltaKey <- MCDeltaKey
  Shrinks <- MCShrinks
  MaxTransforms = 3
  async = async
  thread = thread
  reader = reader
  Site = {async, thread, reader}
  Blocking = {thread}
  Reads = {reader}
  Sharing = {async, reader}
  CommandOf <- MCCommand
  DirectoryOf <- MCDirectory
  Verdict = {"short", "keep"}
  MaxCached = 1
SPECIFICATION TerminalSpec
INVARIANTS TerminalTypeOK DeltasRecoverable NoProcessSurvives AnswersAreReal
PROPERTY CallsEnd
