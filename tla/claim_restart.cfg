SPECIFICATION Spec
CONSTANTS
    n1 = n1
    n2 = n2
    Names = {n1, n2}
    l1 = l1
    Labels = {l1}
    r1 = r1
    Requests = {r1}
    Boot = boot
    None = none
    MaxSubnetIndex = 1
    Exclusive = TRUE
    Offered = {"create", "clone", "delete", "snapshot", "revert", "start", "stop"}
    Faults = {"death"}
    MaxFaults = 1
    MaxCrashes = 1
SYMMETRY Symmetry
PROPERTY ReconcileRestarts
