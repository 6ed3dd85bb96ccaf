SPECIFICATION Spec
CONSTANTS
  a = a
  b = b
  c = c
  Value = {a, b}
  NoVal = NoVal
  Bad = Bad
  Idle = Idle
  Faults <- PossibleFaults
  MaxGen = 3
PROPERTIES SaveOkMeansSaved
