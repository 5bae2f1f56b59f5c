\* A licence judged current although the entitlement changed after it was signed: an
\* extension that began before the signing commits after it.
SPECIFICATION Spec
CONSTANTS
    Request = {r1, r2}
    Device = {d1}
    Secret = {s1}
    Activation = {a1, a2}
    ActivationKey = {k1}
    Viewer = {}
    SigningKey = {g1}
    Ref = {}
    Name = {n1}
    SeatChoice = {1}
    AllowanceChoice = {1}
    ExpiryChoice = {20}
    InitialExpiry = 9
    ActivationModel = "device_seats"
    MaxSignatures = 1
    SignMargin = 1
    Resolution = 1
    Window = 20
    RevealLife = 20
    MaxGrant = 1
    Operation = {"renew", "extend", "download"}
    MaxClock = 5
    Nobody = Nobody
    Never = Never
    NoEnvelope = NoEnvelope
    NoActivation = NoActivation
SYMMETRY Symmetry
CHECK_DEADLOCK FALSE
PROPERTIES ServedAsEntitled
