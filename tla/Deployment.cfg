SPECIFICATION Spec
CONSTANTS
  r1 = r1
  r2 = r2
  Owner = {r1, r2}
  NoOwner = NoOwner
  Calls <- OnlyApart
  TTL = 2
  MaxTime = 3
  Waits = {r1, r2}
  MaxAttempts = 1
  Steps = 2
  Serial = FALSE
SYMMETRY Symmetry
INVARIANTS TypeOK AtMostOneLateEffect SuccessWasExclusive SuccessReleased
