\* A request, one the peer sends while serving the first one's nested call,
\* and one that may be either, or behind them in the chain.
SPECIFICATION FairSpec
CONSTANTS
    Requests = {r1, r2, r3}
    None = none
INVARIANTS
    TypeOK
    NeverFails
    JoinsIdleWorker
    NoLostWakeup
PROPERTIES
    ThreadImplementsCalls
    ThreadExits
