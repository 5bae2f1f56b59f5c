\* One subscription: events out of order, twice and late, quantities and amendments.
SPECIFICATION Spec
CONSTANTS
    Worker = {w1, w2}
    Quantity = {1, 2}
    Ordered = 1
    Again = {"session"}
    PayAgain = FALSE
    SeatChoice = {2}
    ExpiryChoice = {1}
    MaxInvoice = 2
    MaxAmend = 1
INVARIANTS AppliedExtends SeatsFollow
PROPERTIES CompletedStays NeverShortened
SYMMETRY Symmetry
