\* Four calls of one thread, nested or one after the other, over two connections
\* that exist at once or replace each other.
SPECIFICATION FairSpec
CONSTANTS
    Users = {u1}
    Workers = {w1, w2, w3, w4}
    MaxConnections = 2
    MaxCalls = 4
    MaxClosed = 1
    None = none
INVARIANTS
    TypeOK
    CallsBackToCaller
    OneWorker
    OneRuns
    PostedIsRun
PROPERTIES
    KeepsPromise
    CallsReturn
