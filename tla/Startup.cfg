\* Two outages, a restart and failing migrations; PostgreSQL comes back each
\* time.
CONSTANTS
    MaxOutages = 2
    MaxRestarts = 1
    PartMayFail = TRUE
SPECIFICATION StartupFairSpec
INVARIANTS
    OnlyOnCurrentSchema
PROPERTIES
    EventuallyAvailable
\* Once it serves and PostgreSQL stays, nothing is left to do.
CHECK_DEADLOCK FALSE
