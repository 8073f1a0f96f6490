SPECIFICATION Spec
CONSTANTS
    a = a  b = b  c = c  cap = cap
    Pkg = {a, b, c}
    MaxVersion = 3
    Capability = {cap}
    Worlds <- WorldsDef
    RootLists <- RootListsDef
    MaxAttempts = 24
    None = None
INVARIANT TypeOK
INVARIANT SolvedIsAdmitted
PROPERTY EndsBelowTheCap
\* A solver that has its answer stops.
CHECK_DEADLOCK FALSE
