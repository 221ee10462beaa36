\* Any use of the filters, the table and the view buttons, on files in order and on ones
\* with symbols of __eh_frame, of no section or with odd tables; a panic ends the program.
CONSTANTS
    Files <- MCFiles
    Names <- MCNames
    None = None
SPECIFICATION Spec
CHECK_DEADLOCK FALSE
INVARIANTS
    FilterMeaning
    ShowsSelection
    ButtonMatchesView
    CrashesOnlyOnOddSymbols
