SPECIFICATION FairSpec
CONSTANTS
    n1 = n1
    n2 = n2
    Names = {n1, n2}
    l1 = l1
    Labels = {l1}
    r1 = r1
    r2 = r2
    Requests = {r1, r2}
    Boot = boot
    None = none
    MaxSubnetIndex = 1
    Exclusive = FALSE
    Offered = {"create", "delete"}
    Faults = {"zfs", "wait", "destroy", "cancel", "death", "netns", "unit", "deploy", "stop"}
    MaxFaults = 1
    MaxCrashes = 0
INVARIANT IndexesBelowNext
INVARIANT UniqueSubnets
PROPERTY RegistrySpec
PROPERTY ReservationsResolve
