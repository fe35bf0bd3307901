CONSTANTS
    Keys = {k1, k2, k3}
    Entries = {e1, e2, e3, e4}
    NULL = NULL
SPECIFICATION FairSpec
INVARIANTS TypeOK AtMostOneWaiting 
PROPERTIES ImplementsService EventuallyCalled
