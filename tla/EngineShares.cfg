\* Two flows share a domain, at a width where the sum of their queued bytes wraps.
CONSTANTS
    Unknown = Unknown
    NotARate = NotARate
    NoBound = NoBound
    MaxU64 = 1
    Workers = {w1}
    NoWorker = NoWorker
    Sources = {s1}
    MaxDomains = 1
    MaxActiveFlows = 2
    MaxQueueDepthOps = 2
    MaxEpisodeHistory = 0
    Profiles <- MCProfiles
    Rates = {0, 13}
    Latencies = {0}
    ByteAmounts = {1}
    RegisteredBoots = {1}
    Publishing = {w1}
    MaxDomainId = 1
    MaxFlowId = 2
    MaxEventId = 1
SPECIFICATION EngineSpec
INVARIANTS
    StarvationAgrees
    IntentTargetsContributor
    SnapshotConsistent
