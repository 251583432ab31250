SPECIFICATION BackgroundSpec
CONSTANTS
    App = {"a1", "a2"}
    Worker = {v, w}
    Msg = {"m1", "m2"}
    Key = {"k", "l"}
    NoOne = NoOne
    Batch <- MCBatch
    KeyOf <- MCKeyOf
    LockOf <- MCLockOf
    OperationTimeout = 1
    AttemptTimeout = 2
    SpareLease = 0
    RetryMin = 1
    RetryMax = 2
    PurgeAttempts = 2
    Retention = 1
    MaxAttempts = 2
    Faults = {"crash", "database", "refuse"}
    StallTimeout = 1
    StallFaults = {"stall", "crash", "database", "refuse", "purge"}
    Cycles <- MCCycles
    Path = {"x", "y"}
    Identity = {1, 2}
    Object = {"o"}
    Initial <- MCInitial
    Assignment <- MCAssignment
    MaxObjects = 1
    MaxWatches = 3
    MaxWrites = 1
SYMMETRY Symmetry
INVARIANTS IndInv OneDeliveryPerKey CyclesHold WatchesHold
PROPERTIES CommitsInOrder DeliveredInOrder NeverLost LeaseIsKept StallsAreSafe CyclesGoForward
