CONSTANTS
  a = a
  b = b
  la = la
  lb = lb
  Call = {a, b, d}
  Sharing = {a, b}
  Loop = {la, lb}
  LoopOf <- MCLoopOf
SPECIFICATION Spec
CHECK_DEADLOCK FALSE
INVARIANTS TaskCancelRaises
