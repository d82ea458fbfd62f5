CONSTANTS
  r1 = r1
  r2 = r2
  s1 = s1
  s2 = s2
  Engine = {e1}
  Context = {x1}
  Session = {s1, s2}
  Request = {r1, r2}
  Call = {k1, k2}
  SessionOf <- MCSessionOf
  TargetOf <- MCTargetOf
  MaxGeneration = 3
  None = None
SYMMETRY MCSymmetry
SPECIFICATION Spec
INVARIANT ReductionIsCounted
