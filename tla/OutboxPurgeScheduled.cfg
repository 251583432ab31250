SPECIFICATION Spec
CONSTANTS
    App = {"a1", "a2"}
    Worker = {v, w}
    Msg = {"m1", "m2"}
    Key = {"k", "l"}
    NoOne = NoOne
    Batch <- MCBatch2
    KeyOf <- MCKeyOf2
    LockOf <- MCLockOf
    OperationTimeout = 1
    AttemptTimeout = 1
    SpareLease = 0
    RetryMin = 1
    RetryMax = 2
    PurgeAttempts = 2
    Retention = 1
    MaxAttempts = 2
    Faults = {"purge"}
SYMMETRY Symmetry
PROPERTIES PurgeKeepsScheduled
