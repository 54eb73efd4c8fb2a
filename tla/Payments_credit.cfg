\* One purchase of two units, calm and rough.
CONSTANTS
    r1 = r1
    r2 = r2
    Requests = {r1, r2}
    Settings <- Purchases
    Amount = 2
    RefundIds = {1}
    None = None
SPECIFICATION FairSpec
INVARIANTS CreditedOnce  RefundSentOnce
PROPERTIES ImplementsPaidVotes PaidIsCredited
CHECK_DEADLOCK FALSE
