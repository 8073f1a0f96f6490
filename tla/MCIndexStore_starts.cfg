SPECIFICATION Spec
CONSTANTS
    Server = {s1, s2}
    Cli = {c1}
    CliCommand = {"add", "remove", "reindex"}
    Package = {p1}
    Version = {v1}
    Name = {short, other}
    NameOf <- Names
    p1 = p1
    p2 = p2
    p3 = p3
    short = short
    other = other
    Failing = TRUE
    Killing = TRUE
    None = None
INVARIANT ServersExclude
