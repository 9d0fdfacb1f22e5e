\* One request with an interface reference parameter, canceled while it
\* returns.
SPECIFICATION Spec
CONSTANTS
    Requests = {r1}
    RefArgs = {r1}
    None = none
INVARIANT
    NoCircularWait
