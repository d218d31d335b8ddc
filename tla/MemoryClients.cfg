\* Two operations, config_write, an editor under a fine clock, and a reset.
CONSTANTS
    Loads = {l1, l2}
    Writers = {w1}
    Settings = {"model", "timeout"}
    NoText = none
    MaxClients = 1
    MaxChanges = 1
    FineClock = TRUE
    MaxResets = 1
    MayFail = TRUE
SPECIFICATION MFairSpec
INVARIANTS
    HashMatchesClient
PROPERTIES
    LoadsSeeTheFile
    EventuallyReloaded
    OperationsReturn
CHECK_DEADLOCK FALSE
