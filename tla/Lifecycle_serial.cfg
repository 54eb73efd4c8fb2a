\* One handler at a time, both voting modes: the edit policy in every state, and the
\* scheduler. No symmetry, as temporal properties are checked.
CONSTANTS
    alice = alice
    bob = bob
    r1 = r1
    Officials = {alice, bob}
    Nobody = Nobody
    Requests = {r1}
    Modes = {"institutional", "paid"}
    DualApproval = TRUE
    SelfRegistration = FALSE
    OneAtATime = TRUE
    ConsoleActions = {"submit", "withdraw", "approve", "reject", "schedule", "unschedule", "open", "pause", "resume", "close", "start_tally", "publish", "archive", "reopen_voting", "decertify"}
    FreezeScopes = {"ballot"}
    Askable = {"unfreeze", "extend", "decertify"}
    StartDate = 1
    EndDate = 2
    ExtendedEnd = 3
    MaxTime = 3
    MaxEdits = 1
SPECIFICATION FairSpec
 
PROPERTIES NoWayBack CatchUp
CHECK_DEADLOCK FALSE
