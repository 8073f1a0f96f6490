SPECIFICATION Spec
CONSTANTS
    p1 = p1  p2 = p2  v1 = v1  v2 = v2  a = a  b = b  c = c
    Project = {p1, p2}
    Tag = {v1, v2}
    Content = {a, b, c}
    Wants <- WantsDef
    First <- FirstDef
    Sources = 2
    MaxChanges = 2
    MaxFaults = 1
    MaxRuns = 3
    None = None
    Torn = Torn
INVARIANT TypeOK
INVARIANT PrimaryIsEnough
INVARIANT HandedOnWasServed
INVARIANT PassedIsPinned
\* The bounds on runs, changes and faults stop the model.
CHECK_DEADLOCK FALSE
