CONSTANTS
    None = None
    Diffs = {2, 3, 4}
    Block = 9
    TokenCap = 1
    MaxPast = 1
    Limits <- MCLimits
SPECIFICATION NanoSpec
CHECK_DEADLOCK FALSE
INVARIANTS
    CurrentWorkIsKnown
    GivenJobsAreRight
PROPERTIES
    DeviceFollows
    ImplementsJobSource
