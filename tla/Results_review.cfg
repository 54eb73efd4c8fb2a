\* Two handlers, overlapping or not, either custody; beside it, the bulletin.
CONSTANTS
    o1 = o1
    o2 = o2
    t1 = t1
    r1 = r1
    r2 = r2
    k1 = k1
    k2 = k2
    Officials = {o1, o2}
    Nobody = Nobody
    Trustees = {t1}
    Threshold = 1
    Requests = {r1, r2}
    DualApproval = TRUE
    Settings <- Reviews
    MaxCertifications = 2
    People <- MCPeople
    Trackers <- MCTrackers
    SigningKeys <- MCKeys
    FirstKey = k1
    Prime = 5
    Custodies <- MCCustodies
    MaxEdits = 1
    MaxSnapshots = 2
    MaxTallies = 2
SPECIFICATION MCSpec
SYMMETRY Symmetry
INVARIANTS
    
    
    CertifiedStaysApproved
CHECK_DEADLOCK FALSE
