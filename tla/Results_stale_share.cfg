\* A recount after the tally wiped the shares; handlers do not overlap.
CONSTANTS
    o1 = o1
    o2 = o2
    t1 = t1
    t2 = t2
    t3 = t3
    r1 = r1
    r2 = r2
    Officials = {o1, o2}
    Nobody = Nobody
    Trustees = {t1, t2, t3}
    Threshold = 2
    Requests = {r1, r2}
    DualApproval = TRUE
    Settings <- OneByOne
    MaxCertifications = 2
SPECIFICATION Spec
SYMMETRY Symmetry
INVARIANTS EnoughSharesSuffice
CHECK_DEADLOCK FALSE
