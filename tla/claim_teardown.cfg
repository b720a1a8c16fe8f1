SPECIFICATION Spec
CONSTANTS
    n1 = n1
    n2 = n2
    Names = {n1, n2}
    Alike <- Prefix
    Faults = {}
    MaxFaults = 0
INVARIANT Isolation
