CONSTANTS
    Key = {2, 5, 10}
    SortedAsStrings <- Strings
    Kinds = {"memory", "leveldb", "lmdb", "indexeddb"}
    MaxLimit = 2
    NoKey = NoKey
    Null = Null
SPECIFICATION Spec
INVARIANT ReadsAgree
INVARIANT TxReadsAgree
