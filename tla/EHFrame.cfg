\* Sections of the kinds compilers write are read back as they were laid out; of ones with
\* a piece missing or overwritten nothing is shown twice or read outside.
\* The parser stops when it has returned.
CONSTANTS
    Sections <- MCSections
    Nil = Nil
SPECIFICATION Spec
CHECK_DEADLOCK FALSE
INVARIANTS
    TypeOK
    RoundTrip
    FdesUnderTheirCie
    SectionTiles
PROPERTIES
    Terminates
