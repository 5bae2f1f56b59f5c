\* Every request is answered, every mail and every job ends.
SPECIFICATION ServicesEndSpec
CONSTANTS
    Request = {r1, r2}
    Device = {d1}
    Secret = {s1}
    Activation = {a1}
    ActivationKey = {k1, k2}
    Viewer = {v1}
    SigningKey = {g1}
    Ref = {}
    Name = {n1}
    SeatChoice = {1}
    AllowanceChoice = {0}
    ExpiryChoice = {}
    InitialExpiry = Never
    ActivationModel = "device_seats"
    MaxSignatures = 1
    SignMargin = 1
    Resolution = 1
    Window = 20
    RevealLife = 2
    MaxGrant = 1
    Operation = {"activate", "rotate", "reveal", "amend"}
    MaxClock = 4
    Nobody = Nobody
    Never = Never
    NoEnvelope = NoEnvelope
    NoActivation = NoActivation
    Mail = {m1}
    Dispatcher = {w1}
    MailMaxAttempts = 2
    MailBatch = 1
    MaxCopy = 1
    MaxMailCrash = 1
    Event = {e1}
    Handled = {e1}
    Worker = {w1, w2}
    MaxReplay = 0
    MaxAttempts = 2
    Batch = 1
    Lease = 1
    BackoffBase = 1
    BackoffCap = 2
    RetryLaterDelay = 1
    MaxCrash = 1
PROPERTIES EveryRequestAnswered MailEnds JobsEnd
CHECK_DEADLOCK FALSE
