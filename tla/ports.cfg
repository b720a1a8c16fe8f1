SPECIFICATION FairSpec
CONSTANTS
    n1 = n1
    Names = {n1}
    p1 = p1
    p2 = p2
    p3 = p3
    Ports = {p1, p2}
    HostPorts = {p1, p2, p3}
    Taken = {p1}
    r1 = r1
    Requests = {r1}
    Watcher = watcher
    None = none
    MaxFailures = 1
    MaxPublished = 1
INVARIANT OneListenerPerTarget
PROPERTY FirstPortFound
PROPERTY WatchersFollow
