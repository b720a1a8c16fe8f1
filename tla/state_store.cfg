SPECIFICATION FairSpec
CONSTANTS
    a = a
    b = b
    Names = {a, b}
    c1 = c1
    c2 = c2
    Clients = {c1, c2}
    None = none
INVARIANT NeverTorn
INVARIANT CopyIsCurrent
PROPERTY AtomicSpec
PROPERTY CallsReturn
