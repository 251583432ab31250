SPECIFICATION Spec
CONSTANTS
    Actor = {p, q}
    Token = {s, t}
    None = None
    Key = {"k1", "k2"}
    Receiver = {"r"}
    Scanner = "s"
    Direct = {"k2"}
    Capacity = 1
    RetryMin = 1
    RetryMax = 2
    Recheck = 1
    ResyncInterval = 1
    MaxDisturb = 1
    KeyID = {"i"}
    RetryAfter = 1
    StaleAfter = 2
    ExpireAfter = 3
    ReadTimeout = 1
    MaxChanges = 2
    SubscriptionBuffer = 1
    MaxSubscriptions = 1
    MaxEvents = 3
    Permits = 1
    Request = {"r", "s"}
    Hijacked = {"s"}
SYMMETRY Symmetry
CHECK_DEADLOCK FALSE
INVARIANTS QueueHolds KeysAreCurrent GapIsNoticed NoLateWrite ExitIsHonest
PROPERTIES QueueSteps
