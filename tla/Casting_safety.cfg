\* A frozen roll, as effect_open leaves it: two people, two tokens, two requests;
\* beside it, how the roll came about.
CONSTANTS
    v1 = v1
    v2 = v2
    t1 = t1
    t2 = t2
    r1 = r1
    r2 = r2
    Voters = {v1, v2}
    Tokens = {t1, t2}
    Requests = {r1, r2}
    NoVoter = NoVoter
    NoToken = NoToken
    MaxTime = 2
    EndDate = 2
    TTL = 1
    OfficialStatuses = {"ELIGIBLE", "SUSPENDED"}
    RollFrozen = TRUE
    c1 = c1
    c2 = c2
    id1 = id1
    mail1 = mail1
    mail2 = mail2
    Clerks = {c1, c2}
    Ids = {id1}
    Mails = {mail1, mail2}
    None = None
    Units <- MCUnits
    NameOf <- MCNameOf
    Files <- MCFiles
    Institution = {mail1}
    PlanLimit = 2
    MaxPersons = 3
    MaxIssued = 3
    MaxSteps = 5
SPECIFICATION MCSpec
SYMMETRY Symmetry
INVARIANTS OneBallotPerVoter OneLiveToken 
PROPERTIES NoBallotFromBarredVoter ImplementsOneVote
CHECK_DEADLOCK FALSE
