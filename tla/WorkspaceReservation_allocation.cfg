SPECIFICATION Spec
CONSTANTS
  Id = {a, b, c}
  MaxTime = 4
  Day = 2
  Total = 2
  Sizes <- SmallSizes
  Request = {r1}
INVARIANTS
  TypeOK
  AllocatedIsPeak
  CalendarKeepsPromise
PROPERTIES
  StartIsCovered
SYMMETRY AnyId
