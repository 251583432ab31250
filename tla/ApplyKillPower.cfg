SPECIFICATION Spec
CONSTANTS
    Proc = {p1}
    Out = {"a", "b"}
    Source = {"s1", "s2"}
    Content = {"x", "y"}
    Requirement = {"m"}
    Generate <- MCGenerate
    Required <- MCRequired
    Absent = Absent
    NoPlan = NoPlan
    NoProc = NoProc
    Commands = {"apply", "recover"}
    Failures = {"kill", "power"}
    Edits = {"service.yaml"}
    MaxDisturb = 3
INVARIANTS RecordMatchesOutput
