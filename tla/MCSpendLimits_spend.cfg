CONSTANTS
    c1 = c1
    c2 = c2
    c3 = c3
    Callers = {c1, c2, c3}
    Fields = {"attemptCount", "successCount"}
    Cap <- SmallCap
    MaxTries = 2
    SpuriousAborts = FALSE
    i1 = i1
    i2 = i2
    ann = ann
    bob = bob
    fake = fake
    Peer = Peer
    Nobody = Nobody
    Blank = Blank
    Instances = {i1, i2}
    Clients = {ann, bob}
    Watched = ann
    Strangers = {fake}
    Forwarded <- MCForwarded
    TrustedHops = 2
    MaxInstances = 2
    Intended = 3
    Window = 2
    LastTime = 2
    MaxRestarts = 1
SPECIFICATION SpendSpec
CONSTRAINT OthersStayFew
INVARIANTS
    CapIsExact
    ContentionMeansProgress
    RefusalIsEarned
    BurstIsBounded
PROPERTIES
    ImplementsAtomicQuota
    EveryCallReturns
