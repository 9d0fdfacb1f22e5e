\* A thread exits while the connection it has an entry for is destroyed.
SPECIFICATION Spec
CONSTANTS
    Owner = owner
    Objects = {}
    Threads = {t1}
    Servers = {}
    None = none
INVARIANT
    EntryErasedOnce
