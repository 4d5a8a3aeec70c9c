SPECIFICATION Spec
CONSTANTS
  p1 = p1
  p2 = p2
  c1 = c1
  c2 = c2
  Proc = {p1, p2}
  Controller = {c1, c2}
  NoOwner = NoOwner
  Id <- OwnIds
  MaxReworks = 1
  ApprovalRequired = FALSE
  Outcome = {"PASS", "REWORK_REQUIRED", "DESIGN_REVIEW_REQUIRED", "BLOCKED_ENVIRONMENT"}
  MaxGen = 2
  MaxMakers = 2
  MaxEvaluators = 2
  MaxVerifications = 2
SYMMETRY Symmetry
CHECK_DEADLOCK FALSE
INVARIANTS TypeOK StateHasEvidence AcceptedOnEvidence
