SPECIFICATION Spec
CONSTANTS
    Registries = 2
    Sources = 2
    Version = {1, 2}
    TargetVersion = 1
    DeclaredVersion <- DeclaredVersionDef
    Worlds <- WorldsDef
    MaxChanges = 2
    None = None
INVARIANT NeverPassedOver
INVARIANT ReadIsInstalled
INVARIANT SolvedIsFetchable
\* An install that has ended is the end.
CHECK_DEADLOCK FALSE
