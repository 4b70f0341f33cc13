\* A worker that drives a domain, its successor with a newer boot and a replay of the old one.
CONSTANTS
    MaxU64 = 5
    Workers = {w1}
    Sources = {x1}
    MaxDomains = 1
    MaxActiveFlows = 3
    MaxQueueDepthOps = 1
    ByteAmounts = {1}
    MaxDomainId = 1
    MaxFlowId = 3
    a = a
    b = b
    r = r
    w1 = w1
    x1 = x1
    Processes = {a, b, r}
    Options <- MCOptions
SPECIFICATION DeploymentSpec
INVARIANTS
    ReplayRejected
    LiveIsServed
    GoodStandingServed
PROPERTIES
    AllSettle
CHECK_DEADLOCK FALSE
