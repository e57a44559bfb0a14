CONSTANTS
  s1 = s1
  d1 = d1
  d2 = d2
  t1 = t1
  t2 = t2
  Services = {s1}
  Deploys = {d1, d2}
  Owner <- MCOwner
  Slots = {t1, t2}
  Workers = 2
  MaxRetries = 1
  MaxFaults = 1
  Null = Null
SPECIFICATION Spec
INVARIANT TypeOK
INVARIANT DoubleCountNeedsRollBack
PROPERTY RaceLosesNoTask
PROPERTY RecordCatchesUp
