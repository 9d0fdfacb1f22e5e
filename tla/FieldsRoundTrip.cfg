\* Methods with one argument of every declaration, and with two of different ones.
SPECIFICATION Spec
CONSTANTS
    Half <- MCHalf
    Sample <- MCSample
    Methods <- MCMethods
    Null = null
INVARIANTS
    TypeOK
    LikeLocalCall
    NeverAltered
