SPECIFICATION Spec
CONSTANTS
  p1 = p1
  p2 = p2
  c1 = c1
  c2 = c2
  Proc = {p1, p2}
  Controller = {c1, c2}
  NoOwner = NoOwner
  Id <- OwnIds
  MaxReworks = 2
  ApprovalRequired = FALSE
  Outcome = {"PASS", "REWORK_REQUIRED"}
  MaxGen = 2
  MaxMakers = 2
  MaxEvaluators = 2
  MaxVerifications = 2
CHECK_DEADLOCK FALSE
PROPERTY BlockedByOwnEvaluator
