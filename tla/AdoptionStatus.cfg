SPECIFICATION AdoptionSpec
CONSTANTS
    Writer = {d1, p1}
    Periodic = {p1}
    Run = {r1, r2}
    NoRun = NoRun
    NoWriter = NoWriter
    MaxToken = 2
    Found <- MCFound
    FirstSchema = {6, 7}
    d1 = d1
    p1 = p1
SYMMETRY Symmetry

PROPERTY FailedMigrationRestores
CHECK_DEADLOCK FALSE
