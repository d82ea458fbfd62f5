CONSTANTS
  a = a
  b = b
  la = la
  lb = lb
  Call = {a, b, d}
  Sharing = {a, b}
  Loop = {la, lb}
  LoopOf <- MCLoopOf
SPECIFICATION FairSpec
INVARIANTS NoLostWakeup NoRegistrationLeaks CancellationsAccounted
CHECK_DEADLOCK FALSE
PROPERTIES EveryCallReturns
