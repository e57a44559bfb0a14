CONSTANTS
  s1 = s1
  s2 = s2
  Scaffolds = {s1}
  MaxAttempts = 5
  MaxFaults = 1
  Nobody = Nobody
CHECK_DEADLOCK FALSE
SPECIFICATION Spec
INVARIANT SafeToRetry
