SPECIFICATION Spec
CONSTANTS
    k1 = k1
    k2 = k2
    k3 = k3
    k4 = k4
    b1 = b1
    b2 = b2
    a1 = a1
    a2 = a2
    a3 = a3
    r2 = r2
    r3 = r3
    Null = Null
    Keys = {k1, k2, k3, k4}
    File <- OneLine
    FreshRows = {r2, r3}
    Buckets = {b1, b2}
    Addrs = {a1, a2, a3}
    Hash <- FileApartBuckets
SYMMETRY AddrRowSymmetry
INVARIANT TypeOK
INVARIANT ChainsIntact
PROPERTY LossyMap
CHECK_DEADLOCK FALSE
