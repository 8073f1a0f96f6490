SPECIFICATION Spec
CONSTANTS
    app = app
    lib = lib
    Pkg <- MCPkg
    MaxVersion = 2
    Registry <- MCRegistry
    Hooked = {app}
    Asked <- MCAsked
    Command = {"sync", "add", "remove", "update", "reinstall", "force"}
    Failing = TRUE
    None = None
INVARIANT TreeMatchesLock
INVARIANT BootMatchesLock
INVARIANT UninstalledStaysGone
INVARIANT FreshIsResolved
