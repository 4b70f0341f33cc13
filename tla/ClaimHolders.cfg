\* Two domains, one of which holds evidence of the fenced worker.
CONSTANTS
    MaxU64 = 2
    Workers = {w1}
    NoWorker = NoWorker
    MaxDomains = 2
    MaxEpisodeHistory = 1
    Capacities = {10}
    NoBound = NoBound
    Rates = {0, 13}
    Latencies = {0}
    MaxDomainId = 2
    MaxEventId = 1
SPECIFICATION EvidenceSpec
PROPERTY
    OnlyHoldersMarked
