SPECIFICATION Spec
CONSTANTS
    Request = {p, q}
    MaxId = 6
    Name = {"n1", "n2"}
    Generation = {0, 1}
    Seed <- MCSeed
    OrgPath = {1, 2}
    IdPath = {1, 3}
    Page = {0, 2}
    Size = {0, 1, 3}
    DefaultSize = 2
    MaxSize = 2
    Offered = {"org-settings.Upsert"}
SYMMETRY Symmetry
CHECK_DEADLOCK FALSE
INVARIANT NewerGenerationAccepted
