\* One flow, at a width where sums of two byte amounts overflow and boots saturate.
CONSTANTS
    MaxU64 = 3
    Workers = {w1}
    Sources = {s1}
    MaxDomains = 1
    MaxActiveFlows = 1
    MaxQueueDepthOps = 1
    ByteAmounts = {1, 3}
    MaxDomainId = 1
    MaxFlowId = 1
SPECIFICATION FlowSpec
INVARIANTS
    FlowTypeOK
    AccountingSound
    FencedStaysDead
PROPERTIES
    OutOfServiceIsFrozen
