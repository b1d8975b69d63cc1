CONSTANTS
    PK <- MCPK
    SK <- MCSK
    Versions <- MCVersions
    Programs <- MCPrograms
    Kinds = {"leveldb", "lmdb", "indexeddb"}
    NoKey = NoKey
    Null = Null
    NoCall = NoCall
    MaxCrashes = 2
SPECIFICATION Spec
INVARIANTS IndexIsSound IndexIsComplete UpgradeFunctionRuns
