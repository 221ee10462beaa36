\* Object files as compilers write them, and files that are odd in one way each: stray
\* symbols, arm64 code of odd size, one-byte relocations, ...  A panic stops the program.
CONSTANTS
    W = 16
    Files <- MCFiles
    Nil = Nil
    IsObj = TRUE
    Arm64 <- MCArmFiles
    MaxAlloc = 10
    OddTypes = {2}
SPECIFICATION ViewSpec
CHECK_DEADLOCK FALSE
INVARIANTS
    EverySymbolIndexed
    RowsTile
    RelocsShown
    PanicsOnlyOnOddInput
PROPERTIES
    ViewEnds
