\* Two voters' posts and one confirmation's way out, with a fault or two.
CONSTANTS
    v1 = v1
    v2 = v2
    q1 = q1
    q2 = q2
    w1 = w1
    w2 = w2
    b1 = b1
    b2 = b2
    Voters = {v1, v2}
    Bodies = {b1, b2}
    NoBallot = NoBallot
    Requests = {q1, q2}
    Workers = {w1, w2}
    Writers = {q1, q2}
    Contents = {v1, v2}
    Settings <- MCSettings
    MaxAttempts = 2
    MaxFaults = 2
SPECIFICATION FairSpec
INVARIANTS ReceiptIsMine AuditTellsEveryBallot AlarmOnlyInARace ConfirmedOnce
PROPERTIES ImplementsRecordedVotes EveryConfirmationSettles
CHECK_DEADLOCK FALSE
