\* Workers that overlap, outlive their leases and are cut short; retries and replays.
SPECIFICATION Spec
CONSTANTS
    Event = {e1, e2}
    Handled = {e1}
    Worker = {w1, w2}
    MaxReplay = 1
    MaxAttempts = 2
    Batch = 2
    Lease = 2
    BackoffBase = 1
    BackoffCap = 2
    RetryLaterDelay = 1
    MaxCrash = 1
INVARIANTS NoEventLost ProcessedWasHandled OneWorkerPerJob
PROPERTIES NoFailureOverAnothersSuccess
SYMMETRY Symmetry
