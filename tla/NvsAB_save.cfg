SPECIFICATION Spec
CONSTANTS
  a = a
  b = b
  c = c
  Value = {a, b, c}
  NoVal = NoVal
  Bad = Bad
  Idle = Idle
  Faults <- SaveFaults
  MaxGen = 4
INVARIANTS SpareIsDisposable
PROPERTIES LastGoodKept ImplementsCell
