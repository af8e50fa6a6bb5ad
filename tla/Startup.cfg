SPECIFICATION FairSpec
CONSTANTS
    gateway = gateway
    sidecar = sidecar
    prefix = prefix
    hash = hash
    Processes = {gateway, sidecar}
    Supervised = gateway
    FirstDatabases <- ThreeDatabases
    KEY_COLUMNS <- TwoColumns
    SIGNATURE_CAPACITY = 2
    WRITE_QUEUE_DEPTH = 1
    MaxRecords = 4
    MaxCrashes = 1
INVARIANT ServesOnlyMigrated
PROPERTIES LoadsWhatWasWritten ComesToServe
