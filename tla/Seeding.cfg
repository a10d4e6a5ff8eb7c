SPECIFICATION Spec
CONSTANTS
  Workers = {w1, w2}
  Requests = {r1, r2}
  Estates = {e1, e2, e3, e4}
  MaxCases = 3
  None = None
INVARIANTS OneEstate NumberedInOrder
PROPERTY ComesUp
