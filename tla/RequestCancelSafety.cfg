\* Three requests with an interface reference parameter.  The circular wait
\* that RequestCancelRefArg shows stops the system: deadlock is not checked.
SPECIFICATION Spec
CONSTANTS
    Requests = {r1, r2, r3}
    RefArgs = {r1, r2, r3}
    None = none
SYMMETRY RequestSymmetry
CHECK_DEADLOCK FALSE
INVARIANTS
    TypeOK
    DataSafe
    EntryLifetime
    CallbackScoped
