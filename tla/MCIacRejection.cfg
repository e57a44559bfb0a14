CONSTANTS
  u1 = u1
  u2 = u2
  Users = {u1, u2}
  MaxAttempts = 2
  MaxFaults = 2
  Null = Null
SPECIFICATION Spec
INVARIANT RejectionIsStored
