\* CIEs that declare a 4-byte FDE encoding on a 64-bit processor.
CONSTANTS
    Sections <- MCNarrowSections
    Nil = Nil
SPECIFICATION Spec
CHECK_DEADLOCK FALSE
INVARIANTS
    FdeEncodingUsed
