CONSTANTS
  s1 = s1
  s2 = s2
  Scaffolds = {s1, s2}
  MaxAttempts = 2
  MaxFaults = 2
  Nobody = Nobody
CHECK_DEADLOCK FALSE
SPECIFICATION Spec
INVARIANT TypeOK
INVARIANT CompletedIsWhole
PROPERTY ClaimKept
PROPERTY SecretsSettle
PROPERTY EveryScaffoldEnds
