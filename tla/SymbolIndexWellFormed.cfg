\* Files as linkers write them: everything the index promises.
CONSTANTS
    W = 10
    Files <- MCWellFormedFiles
    Nil = Nil
SPECIFICATION FairSpec
INVARIANTS
    RangesDisjoint
    SizesReachNextSymbol
    AliasesListedBelowTop
    RelocsAttachedOnce
PROPERTIES
    ImplementsAddressMap
    Completes
