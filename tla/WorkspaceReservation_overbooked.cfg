SPECIFICATION Spec
CONSTANTS
  Id = {a, b, c}
  MaxTime = 3
  Day = 2
  Total = 2
  Sizes <- SmallSizes
  Request = {r1}
INVARIANTS
  GuaranteesFit
SYMMETRY AnyId
