SPECIFICATION FairSpec
CONSTANTS
    Key = {"k1", "k2"}
    Worker = {v}
    Receiver = {r}
    Scanner = Scanner
    NoOne = NoOne
    Direct = {"k2"}
    Capacity = 1
    RetryMin = 1
    RetryMax = 2
    Recheck = 1
    ResyncInterval = 1
    MaxDisturb = 1
PROPERTIES AddedKeyRuns NobodyWaitsForEver
