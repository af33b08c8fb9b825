SPECIFICATION MCSpec
CONSTANTS
    p1 = p1
    p2 = p2
    c1 = c1
    c2 = c2
    a1 = a1
    a2 = a2
    h1 = h1
    h2 = h2
    i1 = i1
    i2 = i2
    i3 = i3
    v1 = v1
    r1 = r1
    r2 = r2
    ProofHash = {p1, p2}
    CodeHash = {c1, c2}
    ChainId = {4, 5, 6, 7}
    Address = {a1, a2}
    Payload <- MCPayload
    Sender = {s1}
    Zero = Zero
    MaxHead = 2
    MaxLogs = 3
    Reader = {r1, r2}
    Content <- MCContent
    Numbered <- MCNumbered
    Loads <- MCLoads
    Client = {x1, x2}
    WindowMs = 3
    MaxRequests = 1
    Second = 2
    MaxClock = 7
    MaxArrivals = 3
    WebhookEvent = {w1, w2}
    MaxRetries = 1
    MaxSubscribed = 3
    MaxDispatched = 1
    Logged <- MCLogged
    DefaultLimit = 2
    MaxLimit = 2
CHECK_DEADLOCK FALSE
INVARIANTS TypeOK ArraysListed LogTellsStorage ListedInLogOrder
INVARIANTS LookupCovers LookupExplained RecentlyUsedKept RateFair DispatchExplained PagesCover StoresAgree
PROPERTIES Immutable ImplementsEventLog
