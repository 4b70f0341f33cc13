\* One worker and one domain at a time, of a capacity that lets it reach every state:
\* episodes that open and close, fencing and replay, before and after restarts of the
\* process and reboots of the machine.
CONSTANTS
    MaxU64 = 2
    Workers = {w1}
    NoWorker = NoWorker
    MaxDomains = 1
    MaxEpisodeHistory = 1
    Capacities = {8, 10, NoBound}
    NoBound = NoBound
    Rates = {0, 10}
    Latencies = {0}
    MaxDomainId = 1
    MaxEventId = 2
    MaxTime = 1
SPECIFICATION RestartSpec
INVARIANTS
    EpisodesDistinct
    
    OnlyRebootsReorder
    EpisodeTracksState
    EvidenceTypeOK

    
