SPECIFICATION Spec
CONSTANTS
    c1 = c1
    c2 = c2
    u1 = u1
    u2 = u2
    u3 = u3
    ptr = ptr
    b1 = b1
    b2 = b2
    b3 = b3
    a1 = a1
    a2 = a2
    a3 = a3
    Null = Null
    Blocked = Blocked
    Clients = {c1, c2}
    ClientIds = {7}
    Urls = {u2, ptr}
    PtrUrls = {ptr}
    File <- NoFile
    Hash <- OneBucket
    Buckets = {b1}
    Addrs = {a1}
    IdRows = 2
    DnsRows = 1
    TTLs = {1}
    TimeLimit = 1
    Lifetime = 2
    Month = 100
    RateLimited = TRUE
    OneLap = FALSE
    MaxTime = 5
SYMMETRY ClientSymmetry
INVARIANT TypeOK
INVARIANT AnswerReachesAsker
INVARIANT NoLateAnswer
CHECK_DEADLOCK FALSE
