CONSTANTS
  Null = Null
  Time <- MCTime
  Counts <- MCCounts
SPECIFICATION Spec
INVARIANT RulesExclusive
INVARIANT PassesIffAtMostOneCheckDown
INVARIANT AdmittedIfPassed
PROPERTY ImprovementKeepsPassing
