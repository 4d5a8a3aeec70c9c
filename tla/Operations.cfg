SPECIFICATION Spec
CONSTANTS
  d1 = d1
  p1 = p1
  Actor = {x1, x2}
  Execution = {o1, o2}
  NoExecution = None
  Caller = {x1, x2}
  Serial = TRUE
  MaxVersion = 1
  LeasedAt = {0, 2}
  Operation = {o1, o2}
  None = None
  Nobody = None
  Call = {x1, x2}
  Request = {1, 2}
  \* A script, a password with its proof of login, and a worker's grants: between
  \* them every way in which the six operations differ but PRINCIPAL's comparison.
  Kinds = {"SQL_FILE", "LOGIN", "WORKER"}
  CredentialId = {o1, o2}
  MaxFile = 2
  Client = {x1, x2}
  MaxEvent = 4
  Tool = {x1, x2}
  Cutover = {c1, c2}
  Slices = 2
  MaxGen = 4
  Run = {x1, x2}
  Writer = {d1, p1}
  Periodic = {p1}
  NoRun = None
  NoWriter = None
  Found <- UpInventory
  FirstSchema = {7}
  MaxToken = 2
  MaxRuns = 2
  Author = {x1, x2}
  NoOwner = None
  Contents = 2
  MaxMakers = 2
  MaxLeases = 2
  MaxMoves = 1
  MaxResults = 2
SYMMETRY Symmetry
CHECK_DEADLOCK FALSE
INVARIANTS
  TypeOK   AuthorityLedger RegisteredUnderStore ReviewedIsCommitted
  ClosureOnBranch OneLateCommand NewSchemaNewClient OneLateEffect EvidenceHolds
PROPERTIES
  ImplementsOneEffect MakerKeepsSlice OwnArtifactsOnly AnsweredInForce RefMovesUnderFence QuietMigration
  AdoptedRestores ReleasedRestored CompensationExact RuntimeFollowsEpoch
