\* A purchase of two units and two refunds of it.
CONSTANTS
    r1 = r1
    r2 = r2
    Requests = {r1, r2}
    Settings <- TwoRefunds
    Amount = 2
    RefundIds = {1, 2}
    None = None
SPECIFICATION Spec
SYMMETRY Symmetry
INVARIANTS ProcessedWasApproved
CHECK_DEADLOCK FALSE
