SPECIFICATION Spec
CONSTANTS
    Proc = {p, q}
    Subject = {"d1", "d2", "e1"}
    ComponentOf <- MCComponentOf
    Stage <- MCStage
    TookOver <- MCTookOver
    Released <- MCReleased
    Window <- MCWindow
    Unknown = Unknown
    Nothing = Nothing
    Requests <- MCWithdrawals
    Earlier <- MCEmpty
    Pinned = {"d1"}
    MaxDay = 1
    MaxAdvisory = 2
    MaxKill = 1
SYMMETRY Symmetry
INVARIANTS EachAtMostOnce
CHECK_DEADLOCK FALSE
