\* Three flows compete for two slots and one place in the queue of a domain or its successor.
CONSTANTS
    MaxU64 = 1
    Workers = {w1}
    Sources = {s1}
    MaxDomains = 1
    MaxActiveFlows = 2
    MaxQueueDepthOps = 1
    ByteAmounts = {1}
    MaxDomainId = 2
    MaxFlowId = 3
SPECIFICATION FlowSpec
INVARIANTS
    ActiveCountExact
    
