\* Signing and serving: overlapping changes of the entitlement and of the signing keys.
SPECIFICATION Spec
CONSTANTS
    Request = {r1, r2}
    Device = {d1}
    Secret = {s1}
    Activation = {a1, a2}
    ActivationKey = {k1}
    Viewer = {}
    SigningKey = {g1, g2}
    Ref = {}
    Name = {n1, n2}
    SeatChoice = {1}
    AllowanceChoice = {1}
    ExpiryChoice = {4, 6}
    InitialExpiry = 4
    ActivationModel = "none"
    MaxSignatures = 2
    SignMargin = 1
    Resolution = 2
    Window = 20
    RevealLife = 20
    MaxGrant = 1
    Operation = {"activate", "renew", "download", "amend", "reissue", "extend", "keychange", "elapse"}
    MaxClock = 5
    Nobody = Nobody
    Never = Never
    NoEnvelope = NoEnvelope
    NoActivation = NoActivation
SYMMETRY Symmetry
CHECK_DEADLOCK FALSE
PROPERTIES SignedAsEntitled ServedUnlessBackdated
