\* A push before the constructor may crash the program.
CONSTANTS
    SolversNum = 2
SPECIFICATION Spec
INVARIANTS
    OffersAreRelayed
CHECK_DEADLOCK FALSE
