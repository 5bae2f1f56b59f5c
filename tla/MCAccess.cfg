\* Machine credentials, release and revocation: renewals that overlap them, transfers
\* after a reset only, and an activation key that two viewers and a rotation contend for.
SPECIFICATION Spec
CONSTANTS
    Request = {r1, r2}
    Device = {d1}
    Secret = {s1, s2}
    Activation = {a1, a2}
    ActivationKey = {k1, k2}
    Viewer = {v1, v2}
    SigningKey = {g1}
    Ref = {f1}
    Name = {n1}
    SeatChoice = {1}
    AllowanceChoice = {0}
    ExpiryChoice = {}
    InitialExpiry = Never
    ActivationModel = "device_seats"
    MaxSignatures = 1
    SignMargin = 1
    Resolution = 1
    Window = 20
    RevealLife = 1
    MaxGrant = 1
    Operation = {"rotate", "reset", "activate", "renew", "deactivate", "release", "reveal", "revoke", "unrevoke"}
    MaxClock = 5
    Nobody = Nobody
    Never = Never
    NoEnvelope = NoEnvelope
    NoActivation = NoActivation
SYMMETRY Symmetry
CHECK_DEADLOCK FALSE
INVARIANTS RevokedAsRecorded KeysShownOnce
PROPERTIES NoCertificateOnceReleased RevokedServesNothing
