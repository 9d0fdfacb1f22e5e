\* Two clients, the cleanup thread and the loop thread; no listener.  Two
\* clients and two cleanup functions are enough for every thread to wait on
\* every other.
SPECIFICATION FairSpec
CONSTANTS
    Clients = {c1, c2}
    Async = async
    None = none
    Listening = FALSE
    MaxLoopRefs = 2
    MaxCleanups = 3
    MaxBytes = 0
INVARIANTS
    TypeOK
    RefCount
    NoLostWakeup
    OneWakeup
    WriteSafe
    ExitClean
    CleanupsInOrder
PROPERTIES
    PostImplementsCalls
    LoopExits
    CleanupsFinish
