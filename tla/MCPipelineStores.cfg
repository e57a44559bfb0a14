CONSTANTS
  Services <- MCServices
  Quota = 7
  Buffer = 5
  MaxFaults = 2
  Null = Null
SPECIFICATION Spec
PROPERTY EndedRunIsStored
