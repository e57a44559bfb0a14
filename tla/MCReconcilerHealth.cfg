CONSTANTS
  n1 = n1
  n2 = n2
  Names = {n1, n2}
  Calls = {c1, c2}
  Health <- MCHealth
  Null = Null
  Seeds <- MCSeeds
  MaxFaults = 1
SPECIFICATION Spec
PROPERTY HealthConverges
