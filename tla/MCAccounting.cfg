CONSTANTS
  s1 = s1
  p1 = p1
  Session = {s1}
  Turn = {t1}
  Process = {p1}
  Worker = {w1, w2}
  Mode = {native, balanced}
  Model = {m1, m2}
  SessionOf <- MCSessionOf
  ProcessOf <- MCProcessOf
  TurnProcess <- MCTurnProcess
  Resumed = 1
  MaxTokens = 2
  MaxMishaps = 2
  Request = {r1}
  Call = {c1, c2}
  HasTiktoken = TRUE
  None = None
  NoRow = NoRow
  Shapes <- MCShapes
SYMMETRY MCAccountingSymmetry
SPECIFICATION AccountingSpec
INVARIANTS AccountingTypeOK TurnsCountedOnce ComparisonIsFair MeasuredTurnsAreReal MeasuredRowsAddUp ReportCountsOnce OneTokenizerRowsReal
