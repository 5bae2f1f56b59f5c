\* What was paid takes effect in the end.
SPECIFICATION FairSpec
CONSTANTS
    Worker = {w1, w2}
    Quantity = {1}
    Ordered = 1
    Again = {}
    PayAgain = FALSE
    SeatChoice = {}
    ExpiryChoice = {}
    MaxInvoice = 2
    MaxAmend = 0
PROPERTIES PaidIsFulfilled PaidIsApplied Settles
CHECK_DEADLOCK FALSE
