SPECIFICATION Spec
CONSTANTS
    n1 = n1
    n2 = n2
    Names = {n1, n2}
    l1 = l1
    l2 = l2
    Labels = {l1, l2}
    r1 = r1
    r2 = r2
    Requests = {r1, r2}
    Boot = boot
    None = none
    MaxSubnetIndex = 1
    Exclusive = TRUE
    Offered = {"create", "clone", "delete", "snapshot", "revert", "start", "stop"}
    Faults = {"zfs", "destroy", "exists", "deploy"}
    MaxFaults = 1
    MaxCrashes = 0
SYMMETRY Symmetry
INVARIANT TypeOK
INVARIANT NamespacesDisjoint
INVARIANT Restartable
INVARIANT Settled
INVARIANT SnapshotsAgree
INVARIANT NoStalePages
