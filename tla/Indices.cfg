CONSTANTS
    PK = {1, 2}
    SK = {0, 1, 2}
    Kinds = {"memory", "leveldb", "lmdb", "indexeddb"}
    Single <- SingleKeys
    Arrays <- ArrayKeys
    NoKey = NoKey
SPECIFICATION Spec
INVARIANT IndexMatchesObjects
INVARIANT ChecksSuffice
INVARIANT IndexReadsAgree
INVARIANT TxIndexReadsAgree
