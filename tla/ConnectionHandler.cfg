\* The owner is destroyed while the peer disconnects: the handler is already
\* in the task set of the event loop.
SPECIFICATION Spec
CONSTANTS
    Owner = owner
    Objects = {}
    Threads = {t1}
    Servers = {}
    None = none
INVARIANT
    HandlerScoped
