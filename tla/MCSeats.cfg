\* Seats and transfers: overlapping activations, releases, seat changes and grants.
SPECIFICATION Spec
CONSTANTS
    Request = {r1, r2}
    Device = {d1, d2}
    Secret = {s1}
    Activation = {a1, a2, a3}
    ActivationKey = {k1}
    Viewer = {}
    SigningKey = {g1}
    Ref = {}
    Name = {n1}
    SeatChoice = {1, 2}
    AllowanceChoice = {1}
    ExpiryChoice = {}
    InitialExpiry = Never
    ActivationModel = "device_seats"
    MaxSignatures = 1
    SignMargin = 1
    Resolution = 1
    Window = 3
    RevealLife = 20
    MaxGrant = 1
    Operation = {"activate", "release", "amend", "grant"}
    MaxClock = 6
    Nobody = Nobody
    Never = Never
    NoEnvelope = NoEnvelope
    NoActivation = NoActivation
SYMMETRY Symmetry
CHECK_DEADLOCK FALSE
INVARIANT TransferBudget
PROPERTIES SeatCeiling FreshSeats ImplementsLedger
