SPECIFICATION MCSpec
CONSTANTS
    o1 = o1
    o2 = o2
    o3 = o3
    r1 = r1
    r2 = r2
    d1 = d1
    Nobody = Nobody
    Officials <- MCOfficials
    Approvers <- MCApprovers
    Requests <- MCRequests
    Disputes <- MCDisputes
    Actions = {"extend", "unfreeze", "release", "other"}
    FirstEnd = 0
    Lifetime = 1
    MaxTime = 2
    b1 = b1
    b2 = b2
    c1 = c1
    Browsers <- MCBrowsers
    Codes <- MCCodes
    MaxFailures = 2
    LockTime = 1
    LockCap = 2
    PendingTtl = 1
    OtpTtl = 1
    MaxAttempts = 1
    FirstMethods <- MCMethods
    MaxCount = 4
    EndOfTime = 3
    p1 = p1
    p2 = p2
    g1 = g1
    g2 = g2
    a1 = a1
    a2 = a2
    device = device
    payer = payer
    card = card
    Platform = Platform
    Deals <- MCDeals
    Tenants <- MCTenants
    Tenant <- MCTenant
    Analysts = {a1, a2}
    WorksFor <- MCWorksFor
    Device <- MCDevice
    Email <- MCEmail
    Card <- MCCard
    Mispaid = {p1}
    MonitorAt = 31
    ChallengeAt = 61
    HoldAt = 81
    OtherWeights = {0, 85}
    ManyAttempts = 1
    MaxAlerts = 2
    MaxCounted = 2

    
    
    
PROPERTIES
    ExtensionsLengthen
SYMMETRY MCSymmetry
CHECK_DEADLOCK FALSE
