CONSTANTS
  Null = Null
  Time <- MCTime
  Services = {s1}
  Requests = {r1, r2}
  Alerts = {a1, a2}
  Inputs <- MCInputs
  MaxFaults = 2
  MaxUnfreezes = 1
SPECIFICATION Spec
INVARIANT TypeOK
INVARIANT QueuedOnlyAboveThreshold
INVARIANT ScoreFollowsHistory
INVARIANT SurplusEventsNeedFaults
PROPERTY GateKept
PROPERTY AlertFreezes
PROPERTY FreezeDrains
