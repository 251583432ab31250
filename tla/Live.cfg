SPECIFICATION MCSpec
CONSTANTS
    Proc = {p1}
    Out = {"a", "b"}
    Source = {"s1", "s2"}
    Content = {"x", "y"}
    Requirement = {"m"}
    Generate <- MCGenerate
    Required <- MCRequired
    Absent = Absent
    NoPlan = NoPlan
    NoProc = NoProc
    Commands = {"apply", "recover"}
    Failures = {"kill"}
    Edits = {"service.yaml", "a"}
    MaxDisturb = 2
PROPERTIES PendingResolves EventuallyDelivered EnqueueEnds SignalEnds
CHECK_DEADLOCK FALSE
