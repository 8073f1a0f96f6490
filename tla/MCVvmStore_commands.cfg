SPECIFICATION OrderlySpec
CONSTANTS
    Process = {p1, p2}
    Id = {main, v1}
    Build = {b1}
    MaxNumber = 3
    Command = {"install", "use", "remove", "prune"}
    RemoveForced = FALSE
    DirsBusy = FALSE
    Crashing = TRUE
    Absent = Absent
    Gutted = Gutted
    None = None
INVARIANT InstallersExclude
INVARIANT NamedWasPublished
INVARIANT CurrentIsUsable
INVARIANT RecordsMatchDisk
PROPERTY CatalogSpec
PROPERTY CommandsEnd
\* Between commands the system may stop: nobody has to run another one.
CHECK_DEADLOCK FALSE
