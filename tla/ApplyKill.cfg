SPECIFICATION Spec
CONSTANTS
    Proc = {p1, p2}
    Out = {"a", "b"}
    Source = {"s1", "s2"}
    Content = {"x", "y"}
    Requirement = {"m"}
    Generate <- MCGenerate
    Required <- MCRequired
    Absent = Absent
    NoPlan = NoPlan
    NoProc = NoProc
    Commands = {"apply", "recover"}
    Failures = {"kill"}
    Edits = {"service.yaml"}
    MaxDisturb = 2
SYMMETRY Symmetry
INVARIANTS IndInv
PROPERTIES WritesFollowJournal JournalCompletes JournalIsCurrent ImplementsAtomicApply
