\* Edits, ticks and officials interleave; beside it, nominations and the portal.
CONSTANTS
    alice = alice
    bob = bob
    r1 = r1
    r2 = r2
    Officials = {alice, bob}
    Nobody = Nobody
    Requests = {r1, r2}
    Modes = {"institutional"}
    DualApproval = TRUE
    SelfRegistration = FALSE
    OneAtATime = FALSE
    ConsoleActions = {"submit", "withdraw", "approve", "reject", "schedule", "unschedule", "open", "pause", "resume", "close", "start_tally", "publish", "archive", "reopen_voting", "decertify"}
    FreezeScopes = {"config"}
    Askable = {"reopen", "extend"}
    StartDate = 1
    EndDate = 2
    ExtendedEnd = 3
    MaxTime = 3
    MaxEdits = 1
    h1 = h1
    h2 = h2
    president = president
    secretary = secretary
    ann = ann
    ben = ben
    x = x
    y = y
    Staff = {h1, h2}
    Positions = {president, secretary}
    Candidates = {ann, ben}
    Unassigned = Unassigned
    NoAccount = NoAccount
    People = {x, y}
    Kinds = {"institutional", "paid"}
    Forms <- MCForms
    MaxChanges = 3
SPECIFICATION MCSpec
SYMMETRY Symmetry
INVARIANTS FourEyes LiveHasKey NominationsHold
CHECK_DEADLOCK FALSE
