SPECIFICATION Spec
CONSTANTS
  p1 = p1
  p2 = p2
  c1 = c1
  c2 = c2
  Proc = {p1, p2}
  Controller = {c1}
  NoOwner = NoOwner
  Id <- OneId
  MaxReworks = 1
  ApprovalRequired = FALSE
  Outcome = {"PASS", "REWORK_REQUIRED"}
  MaxGen = 2
  MaxMakers = 2
  MaxEvaluators = 2
  MaxVerifications = 2
SYMMETRY OneIdSymmetry
CHECK_DEADLOCK FALSE
PROPERTY AcceptsOnEvidence
