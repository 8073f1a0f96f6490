SPECIFICATION Spec
CONSTANTS
    Publisher = {p1, p2}
    app = app
    lib = lib
    Node = {app, lib}
    Public = {app, lib}
    Deps <- MCDeps
    Tag <- MCTag
    MaxVersion = 2
    MaxEdits = 1
    MaxRuns = 3
    MaxFaults = 1
    None = None
INVARIANT TypeOK
INVARIANT TagNamesVersion
INVARIANT ReleaseIsOnMain
INVARIANT DependenciesFirst
INVARIANT ReportIsTrue
INVARIANT IndexedIsReleased
\* The bounds on runs, edits and faults stop the model.
CHECK_DEADLOCK FALSE
