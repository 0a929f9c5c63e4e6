CONSTANTS
  MaxValues = 2
  MaxAfters = 2
  Raising = TRUE
  Making = TRUE
SPECIFICATION Spec
CHECK_DEADLOCK FALSE
INVARIANTS NobodyForgotten
