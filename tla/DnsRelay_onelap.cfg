SPECIFICATION Spec
CONSTANTS
    c1 = c1
    c2 = c2
    u1 = u1
    u2 = u2
    u3 = u3
    ptr = ptr
    b1 = b1
    b2 = b2
    b3 = b3
    a1 = a1
    a2 = a2
    a3 = a3
    Null = Null
    Blocked = Blocked
    Clients = {c1}
    ClientIds = {7}
    Urls = {u1, u2, u3}
    PtrUrls = {}
    File <- OneLine
    Hash <- BlockedAlone
    Buckets = {b1, b2}
    Addrs = {a1, a2}
    IdRows = 4
    DnsRows = 4
    TTLs = {1}
    TimeLimit = 1
    Lifetime = 1
    Month = 100
    RateLimited = TRUE
    OneLap = TRUE
    MaxTime = 2
INVARIANT RightAddress
INVARIANT BlockedStaysBlocked
INVARIANT KeysMatchRows
CHECK_DEADLOCK FALSE
