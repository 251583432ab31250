SPECIFICATION DataSpec
CONSTANTS
    Tx = {t, u}
    Resource = {r, s}
    Digest = {"d", "e"}
    Free = Free
    NoDigest = NoDigest
    MaxVersion = 2
    MaxBatch = 1
    MaxCalls = 2
    MaxId = 5
    Name = {"n1", "n2"}
    Generation = {1}
    Seed <- MCSeed
    OrgPath = {1, 2}
    IdPath = {1, 3}
    Page = {0}
    Size = {3}
    DefaultSize = 1
    MaxSize = 2
    Offered = {"organizations.Create", "organizations.Read", "organizations.Delete",
        "organizations.List", "org-users.Create", "org-users.Read", "org-users.Update",
        "org-users.Delete", "org-users.Patch", "org-users.List", "all-users.List",
        "org-settings.List", "org-settings.Upsert", "user-audit-events.Create",
        "user-audit-events.List", "org-audit-events.Create", "org-audit-events.List"}
SYMMETRY Symmetry
CHECK_DEADLOCK FALSE
INVARIANTS StoreAgrees AnswersAreTrue
PROPERTIES StoreKeeps RowsKeepFaith
