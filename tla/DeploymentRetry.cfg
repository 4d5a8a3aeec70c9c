SPECIFICATION Spec
CONSTANTS
  r1 = r1
  r2 = r2
  Owner = {r1, r2}
  NoOwner = NoOwner
  Calls <- ApartOrTogether
  TTL = 1
  MaxTime = 1
  Waits = {r1, r2}
  MaxAttempts = 2
  Steps = 1
  Serial = TRUE
INVARIANT NoBlindRepeat
PROPERTY RunnerReturns
