\* A listener accepts a connection, which comes and goes while a client's
\* thread is between dropping the last reference and writing to the pipe.
SPECIFICATION Spec
CONSTANTS
    Clients = {c1}
    Async = async
    None = none
    Listening = TRUE
    MaxLoopRefs = 1
    MaxCleanups = 1
    MaxBytes = 2
INVARIANT
    WriteSafe
