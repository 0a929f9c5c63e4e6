CONSTANTS
  a = a
  b = b
  c = c
  d = d
  e = e
  Null = Null
  Away = Away
  Objects = {a, b, c, d, e}
  Calls <- ShareCycles
  CounterLimit = 2048
  TableMin = 2
SPECIFICATION Spec
CHECK_DEADLOCK FALSE
INVARIANTS ValuePreserved
