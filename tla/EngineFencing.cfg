\* One flow of one worker and one source, fenced, replayed and recovered at any point,
\* in a domain that publications and recomputations change.
CONSTANTS
    Unknown = Unknown
    NotARate = NotARate
    NoBound = NoBound
    MaxU64 = 2
    Workers = {w1}
    NoWorker = NoWorker
    Sources = {s1}
    MaxDomains = 1
    MaxActiveFlows = 2
    MaxQueueDepthOps = 2
    MaxEpisodeHistory = 0
    Profiles <- MCProfiles
    Rates = {0, 13}
    Latencies = {0}
    ByteAmounts = {1}
    RegisteredBoots = {1}
    Publishing = {w1}
    MaxDomainId = 1
    MaxFlowId = 1
    MaxEventId = 1
SPECIFICATION EngineSpec
INVARIANTS
    EffectiveIsLargest
PROPERTIES
    ImplementsFlowTable
    ImplementsEvidence
    BacklogIsLive
