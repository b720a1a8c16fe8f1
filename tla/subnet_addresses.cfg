SPECIFICATION Spec
CONSTANTS
    a = a
    b = b
    c = c
    d = d
    e = e
    Names = {a, b, c, d, e}
    None = none
    Byte = 4
    Offset <- LB
    MaxIndex = 16
SYMMETRY Symmetry
INVARIANT SubnetsDisjoint
INVARIANT AddressesDistinct
INVARIANT AllUsable
