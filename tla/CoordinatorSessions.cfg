\* Two connections that claim any identity.  The coordinator stops after SHUTDOWN
\* and waits for ever when all connections have come and gone.
CONSTANTS
    MaxU64 = 2
    Sessions = {c1, c2}
    Workers = {w1}
    NoWorker = NoWorker
    Sources = {s1}
SPECIFICATION CoordinatorSpec
INVARIANTS
    CoordinatorTypeOK
    RegistryExact
    EndedIsFenced
    FinalSaveComplete
PROPERTIES
    ShutdownCompletes
    DeathIsFenced
CHECK_DEADLOCK FALSE
