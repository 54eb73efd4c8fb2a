\* An editable roll (self-registration, or a granted unfreeze): imports, removals, clearing,
\* and the periodic jobs; no symmetry, as temporal properties are checked.
CONSTANTS
    v1 = v1
    t1 = t1
    t2 = t2
    r1 = r1
    r2 = r2
    Voters = {v1}
    Tokens = {t1, t2}
    Requests = {r1, r2}
    NoVoter = NoVoter
    NoToken = NoToken
    MaxTime = 2
    EndDate = 1
    TTL = 1
    OfficialStatuses = {"ELIGIBLE", "SUSPENDED"}
    RollFrozen = FALSE
SPECIFICATION FairSpec
INVARIANTS BoxCoversRegister
PROPERTIES ClosesAtTheEnd UnusedTokensExpire
CHECK_DEADLOCK FALSE
