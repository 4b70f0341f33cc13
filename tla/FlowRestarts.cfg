CONSTANTS
    MaxU64 = 2
    Workers = {w1}
    Sources = {s1}
    MaxDomains = 1
    MaxActiveFlows = 1
    MaxQueueDepthOps = 1
    ByteAmounts = {1}
    MaxDomainId = 1
    MaxFlowId = 1
    NoFile = NoFile
    Torn = Torn
SPECIFICATION RestartSpec
INVARIANTS
    SavedIsLoadable
    LoadedStaysOut
    FencesSurvive
    AccountingSound
    BoundExactlyOnce
