\* A renewal is handled while support amends the entitlement.
SPECIFICATION Spec
CONSTANTS
    Worker = {w1, w2}
    Quantity = {1}
    Ordered = 1
    Again = {"session", "subscription", "invoice"}
    PayAgain = TRUE
    SeatChoice = {}
    ExpiryChoice = {}
    MaxInvoice = 2
    MaxAmend = 1
INVARIANT OneExtensionPerInvoice
SYMMETRY Symmetry
