SPECIFICATION ToolsSpec
CONSTANTS
    Proc = {p, q}
    Subject = {"d1", "d2", "e1"}
    ComponentOf <- MCComponentOf
    Stage <- MCStage
    TookOver <- MCTookOver
    Released <- MCReleased
    Window <- MCWindow
    Unknown = Unknown
    Nothing = Nothing
    Requests <- MCRequests
    Earlier <- MCEarlier
    Pinned = {"d1"}
    MaxDay = 1
    MaxAdvisory = 2
    MaxKill = 1
    Commit <- MCCommit
    Shares <- MCShares
    Retirements <- MCRetirements
    Automated <- MCAutomated
    Manual <- MCManual
    Faults <- MCFaults
    Workflows <- MCWorkflows
    Ref <- MCRef
    First = "c0"
    Test = {"t", "u"}
    SuiteOutput <- MCSuiteOutput
    Others <- MCOthers
    Candidate = {"c1", "c3"}
    MaxLog = 2
SYMMETRY Symmetry
INVARIANTS AdvisoriesAreTrue GatesHold
 
CHECK_DEADLOCK FALSE
