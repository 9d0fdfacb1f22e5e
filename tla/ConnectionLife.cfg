\* An owner, one more object, two threads and a server object.
SPECIFICATION FairSpec
CONSTANTS
    Owner = owner
    Objects = {o1}
    Threads = {t1, t2}
    Servers = {s1}
    None = none
INVARIANTS
    TypeOK
    LinkedMeansOpen
    ListMatches
    EntriesValid
PROPERTIES
    DisconnectCompletes
    DestroyReturns
    ServersDestroyed
