\* A cast that read the election before it closed, against the tally.
CONSTANTS
    v1 = v1
    t1 = t1
    t2 = t2
    r1 = r1
    r2 = r2
    Voters = {v1}
    Tokens = {t1, t2}
    Requests = {r1, r2}
    NoVoter = NoVoter
    NoToken = NoToken
    MaxTime = 2
    EndDate = 2
    TTL = 1
    OfficialStatuses = {"ELIGIBLE", "SUSPENDED"}
    RollFrozen = TRUE
SPECIFICATION Spec
INVARIANTS CertifiedCountsEveryBallot
CHECK_DEADLOCK FALSE
