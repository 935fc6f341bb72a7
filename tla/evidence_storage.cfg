SPECIFICATION FairStorageSpec
CONSTANTS
    Registration = {g1, g2, g3}
    Nobody = Nobody
    Faults = {"io", "db", "crash"}
INVARIANTS
    StorageTypeOK
    StoredFileIsKept
    MkdirNeverCollides
    FailureLeavesNothing
PROPERTY
    EveryStoreEnds
