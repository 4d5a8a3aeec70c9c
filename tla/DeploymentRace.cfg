SPECIFICATION Spec
CONSTANTS
  r1 = r1
  r2 = r2
  Owner = {r1, r2}
  NoOwner = NoOwner
  Calls <- OnlyTogether
  TTL = 2
  MaxTime = 3
  Waits = {r2}
  MaxAttempts = 2
  Steps = 2
  Serial = FALSE
INVARIANT NoBlindRepeat
