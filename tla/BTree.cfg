CONSTANTS
    Key = {1, 2, 3, 4, 5, 6, 7}
    Orders = {3, 4}
    NoKey = NoKey
    MaxStep = 3
SPECIFICATION Spec
INVARIANT LeavesHoldContent
INVARIANT SeparatorsAreFirstKeys
INVARIANT Balanced
INVARIANT CursorIsSound
INVARIANT LookupsAgree
PROPERTY RemovalMovesOn
