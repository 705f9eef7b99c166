SPECIFICATION Spec
CONSTANTS
    r1 = r1
    r2 = r2
    Run = {r1, r2}
    NoRun = NoRun
    MaxVersion = 3
SYMMETRY RunSymmetry
INVARIANTS
    TypeOK
    FilesKept
\* Every run may be retired, and the agent done.
CHECK_DEADLOCK FALSE
