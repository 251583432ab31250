SPECIFICATION Spec
CONSTANTS
    Proc = {p1}
    Out = {"a", "b"}
    Source = {"s1", "s2"}
    Content = {"x", "y"}
    Requirement = {"m"}
    Generate <- MCGenerate
    Required <- MCRequired
    Absent = Absent
    NoPlan = NoPlan
    NoProc = NoProc
    Commands = {"plan", "apply", "apply-saved", "deps", "recover"}
    Failures = {"power"}
    Edits = {"service.yaml", "go.mod", "a", "b"}
    MaxDisturb = 2
INVARIANTS RecordMatchesOutput RequirementsMet SecondApplyChangesNothing
PROPERTIES CommandsKeepToTheirFiles ImplementsDurableApply
