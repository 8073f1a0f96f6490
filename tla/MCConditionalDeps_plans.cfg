SPECIFICATION PlanSpec
CONSTANTS
    r = r  a = a  b = b  c = c  tag = tag
    Pkg = {r, a, b, c}
    Tag = {tag}
    MaxVersion = 2
    Registries <- RegistriesDef
    RootSets <- RootSetsDef
    MaxIterations = 2
    None = None
INVARIANT PlanTypeOK
INVARIANT NothingMissing
PROPERTY FollowsModel
\* A plan that is made, or cannot be made, is the end.
CHECK_DEADLOCK FALSE
