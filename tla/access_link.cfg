SPECIFICATION Spec
CONSTANTS
  Language = {hi, ta}
  Call = {c1}
  Hours = {1}
  MaxSecret = 4
  MaxTime = 1
  None = None
INVARIANT LinkOfLanguage
CHECK_DEADLOCK FALSE
