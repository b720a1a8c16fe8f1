SPECIFICATION Spec
CONSTANTS
    n1 = n1
    n2 = n2
    l1 = l1
    l2 = l2
    r1 = r1
    Names = {n1, n2}
    Labels = {l1, l2}
    Requests = {r1}
    Boot = boot
    None = none
    MaxSubnetIndex = 1
    Exclusive = TRUE
    Offered = {"create", "clone", "delete", "snapshot", "revert", "start", "stop"}
    Faults = {"zfs", "exists", "netns", "unit", "wait", "drop", "deploy"}
    MaxFaults = 1
    MaxCrashes = 1
SYMMETRY Symmetry
INVARIANT HostOwned
INVARIANT SnapshotOrderAgrees
PROPERTY ZfsOpsOnlyWhenStopped
PROPERTY ReconcileReports
