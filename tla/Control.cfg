\* Two domains of capacity 2, 1 or without a bound, and a clock of two units.
CONSTANTS
    Unknown = Unknown
    NotARate = NotARate
    NoBound = NoBound
    Domains = {1, 2}
    Profiles <- MCProfiles
    Rates = {0, 3}
    Backlogs = {0, 2}
    Amounts = {1, 2}
    Paths <- MCPaths
    MaxGeneration = 1
    MaxTime = 2
SPECIFICATION ControlSpec
INVARIANTS
    
    EnvelopeFits
    BottleneckIsWorst
