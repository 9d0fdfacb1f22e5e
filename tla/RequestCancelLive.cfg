\* Three requests whose parameters are plain values.
SPECIFICATION FairSpec
CONSTANTS
    Requests = {r1, r2, r3}
    RefArgs = {}
    None = none
INVARIANT
    NoCircularWait
PROPERTIES
    DisconnectCompletes
    WorkersProgress
