SPECIFICATION FairSpec
CONSTANTS
    Scanner = {s1}
    Repo = {r1}
    Tag = {t1, t2}
    Content = {c1, bad}
    Invalid = {bad}
    Source = {"mirror", "scratch", "cache"}
    Filed = {r1}
    MaxPushes = 2
    MaxFaults = 1
    None = None
INVARIANT TypeOK
INVARIANT SkippedIsIndexed
INVARIANT NoPhantoms
PROPERTY CatchesUp
