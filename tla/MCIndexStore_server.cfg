SPECIFICATION Spec
CONSTANTS
    Server = {s1}
    Cli = {}
    CliCommand = {}
    Package = {p1, p2, p3}
    Version = {v1}
    Name = {short, other}
    NameOf <- Names
    p1 = p1
    p2 = p2
    p3 = p3
    short = short
    other = other
    Failing = FALSE
    Killing = FALSE
    None = None
INVARIANT AckedSurvives
INVARIANT AckedOnDisk
