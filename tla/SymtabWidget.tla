----------------------------- MODULE SymtabWidget -----------------------------
(***************************************************************************)
(* The "Symbols" tab: the symbol table with its filters and, below it, the *)
(* bytes of the selected symbol (macho_widgets/symtab_widget.go,           *)
(* symtab_model.go, symdata_widget.go, button_bar_widget.go).              *)
(*                                                                         *)
(* Everything happens in callbacks of Qt's one thread.  Selecting a row    *)
(* checks the button of the symbol's view type, and the button's own       *)
(* callback sets the model before the selection's callback sets it again.  *)
(* A filter that hides the selected row makes Qt select another one.       *)
(***************************************************************************)
EXTENDS Integers, Sequences

CONSTANTS
    Files,   \* the files that may be open
    Names,   \* the names of symbols
    None     \* no row, no button, no model

\* The buttons of the two bars.
SymChars == {"*", "U", "T", "D", "B", "C", "S", "A", "I", "-"}
Labels == {"Code", "CString", "Float32", "Float64", "Float128", "Pointer32", "Data", "DwarfType"}

SymTypes == {"N_UNDF", "N_ABS", "N_SECT", "N_PBUD", "N_INDR", "unknown"}

\* stab: one of the N_STAB bits is set; ext: N_EXT is; zero: the value is 0.  bytes: how
\* much of what the symbol's SymInfo asks for the section holds, or that no memory can.
\* typed: the debug information has a type for the symbol.  odd: the view types that the
\* building of the table dies of; DataRows and DwarfValue say when.
Symbol == [name: Names, stab: BOOLEAN, type: SymTypes, ext: BOOLEAN, zero: BOOLEAN,
           sect: 0..255, bytes: {"all", "some", "huge"}, typed: BOOLEAN, odd: SUBSET Labels]

\* A section, by what guessSectType makes of it and the letter toSymChar gives it.
Section == [view: (Labels \ {"DwarfType"}) \cup {"EHFrame"}, letter: {"T", "D", "S"}]

ASSUME NoneAssumption ==
    None \notin Nat \cup SymChars \cup Labels /\ None \notin [sym: Nat, typ: Labels]

\* disasm: there is a disassembler for the processor.
ASSUME TabAssumption ==
    \A f \in Files : /\ f.syms \in Seq(Symbol)
                     /\ f.sects \in Seq(Section)
                     /\ f.disasm \in BOOLEAN

VARIABLES
    file,        \* the File
    charButton,  \* the checked button of the symChar bar
    filterChar,  \* SymtabModel's filterChar; None is the initial 0 byte
    externOnly,  \* its filterExtern, and the check box
    nameFilter,  \* the names the search expression matches
    current,     \* the table's current row
    sym,         \* SymdataWidget's sym
    checked,     \* the checked button of its bar
    shown,       \* the model of its tree: a symbol and a view type
    crashed      \* a panic has ended the program

filters == <<charButton, filterChar, externOnly, nameFilter>>
data == <<sym, checked, shown, crashed>>
vars == <<file, filters, current, data>>

-----------------------------------------------------------------------------
(* The filter.                                                               *)

Rows == 1..Len(file.syms)

ValidSect(s) == 0 < s.sect /\ s.sect <= Len(file.sects)

\* The letter of toSymChar; it is a capital for an external symbol.
Letter(s) ==
    CASE s.stab -> "-"
      [] ~s.stab /\ s.type = "N_UNDF" -> IF s.zero THEN "U" ELSE "C"
      [] ~s.stab /\ s.type = "N_ABS" -> "A"
      [] ~s.stab /\ s.type = "N_SECT" -> IF s.sect = 0 THEN "B"
                                         ELSE IF ValidSect(s) THEN file.sects[s.sect].letter
                                         ELSE "S"
      [] ~s.stab /\ s.type = "N_PBUD" -> "U"
      [] ~s.stab /\ s.type = "N_INDR" -> "I"
      [] OTHER -> "?"

IsUpperOfAny(s) == s.ext
IsUpper(s) == s.ext /\ Letter(s) \notin {"-", "?"}

\* ConnectFilterAcceptsRow
Accepts(s) ==
    /\ externOnly => IsUpper(s)
    /\ IF filterChar \in {None, "*"} THEN Letter(s) # "-" ELSE Letter(s) = filterChar
    /\ s.name \in nameFilter

Visible == {r \in Rows : Accepts(file.syms[r])}

-----------------------------------------------------------------------------
(* SymdataWidget.                                                            *)

InSection(s) == ~s.stab /\ s.type = "N_SECT"

HasBytes(r) == r # None /\ InSection(file.syms[r])

\* guessSymType; "" when the symbol has no bytes.
GuessSymType(r) ==
    LET s == file.syms[r]
    IN IF InSection(s) /\ ValidSect(s) THEN file.sects[s.sect].view ELSE ""

\* The view types that end without a model before the symbol's bytes are asked for.
NoModel(s, typ) == (typ = "Code" /\ ~file.disasm) \/ (typ = "DwarfType" /\ ~s.typed)

\* newSymbolModel: the section number is not checked, room is made for any size, and
\* the table is built once all bytes are there.
TableDies(s, typ) ==
    /\ ~NoModel(s, typ)
    /\ \/ ~ValidSect(s)
       \/ s.bytes = "huge"
       \/ s.bytes = "all" /\ typ \in s.odd

\* NewSymbolModel has no case for __eh_frame.
Panics(r, typ) == typ \notin Labels \/ TableDies(file.syms[r], typ)

NewSymbolModel(r, typ) ==
    LET s == file.syms[r]
    IN IF ~NoModel(s, typ) /\ s.bytes = "all" THEN [sym |-> r, typ |-> typ] ELSE None

\* Display the model of the symbol in row r, or die of it.
Display(r, typ) ==
    \/ Panics(r, typ) /\ crashed' = TRUE /\ UNCHANGED shown
    \/ ~Panics(r, typ) /\ shown' = NewSymbolModel(r, typ) /\ UNCHANGED crashed

\* SetModel(typ) for the symbol in row r; a symbol without bytes leaves the view alone.
SetModelUnguarded(r, typ) ==
    \/ typ = "" /\ shown' = None /\ UNCHANGED crashed
    \/ typ # "" /\ r = None /\ UNCHANGED <<shown, crashed>>
    \/ typ # "" /\ r # None /\ Display(r, typ)
SetModel(r, typ) ==
    \/ typ = "" /\ shown' = None /\ UNCHANGED crashed
    \/ typ # "" /\ ~HasBytes(r) /\ UNCHANGED <<shown, crashed>>
    \/ typ # "" /\ HasBytes(r) /\ Display(r, typ)

\* The button of the type is checked, if there is one.  That it calls SetModel itself
\* when it was not checked before adds nothing to the call that follows.
CheckButtonOnce(typ) == checked' = IF checked = None /\ typ \in Labels THEN typ ELSE checked
CheckButton(typ) == checked' = IF typ \in Labels THEN typ ELSE checked

SetSymbolWithBytes(r) ==
    /\ sym' = IF GuessSymType(r) = "" THEN sym ELSE r
    /\ CheckButton(GuessSymType(r))
    /\ SetModel(r, GuessSymType(r))
SetSymbol(r) ==
    /\ sym' = r
    /\ CheckButton(GuessSymType(r))
    /\ SetModel(r, GuessSymType(r))

\* ConnectCurrentChanged.  Without a row the tree is emptied, but sym stays.
CurrentChanged(r) ==
    /\ current' = r
    /\ \/ r # None /\ SetSymbol(r)
       \/ r = None /\ SetModel(None, "") /\ UNCHANGED <<sym, checked>>

-----------------------------------------------------------------------------
(* What the user and Qt do.                                                  *)

Init ==
    /\ file \in Files
    /\ charButton = "*"
    /\ filterChar = None
    /\ externOnly = FALSE
    /\ nameFilter = Names
    /\ current = None
    /\ sym = None
    /\ checked = None
    /\ shown = None
    /\ crashed = FALSE

\* The table has followed the last change of the filter.
Settled == ~crashed /\ (current = None \/ current \in Visible)

\* A button of an exclusive group only signals when it was not checked.
ClickChar(c) ==
    /\ Settled
    /\ c # charButton
    /\ charButton' = c
    /\ filterChar' = c
    /\ UNCHANGED <<file, externOnly, nameFilter, current, data>>

ClickExtern ==
    /\ Settled
    /\ externOnly' = ~externOnly
    /\ UNCHANGED <<file, charButton, filterChar, nameFilter, current, data>>

EditName(names) ==
    /\ Settled
    /\ nameFilter' = names
    /\ UNCHANGED <<file, charButton, filterChar, externOnly, current, data>>

Select(r) ==
    /\ Settled
    /\ r # current
    /\ CurrentChanged(r)
    /\ UNCHANGED <<file, filters>>

\* The current row is filtered out: Qt moves to another row, which may be about to be
\* removed as well, or to none.
MoveCurrent ==
    /\ ~crashed
    /\ ~Settled
    /\ \E r \in (Rows \cup {None}) \ {current} : CurrentChanged(r)
    /\ UNCHANGED <<file, filters>>

ClickView(typ) ==
    /\ Settled
    /\ typ # checked
    /\ checked' = typ
    /\ SetModel(sym, typ)
    /\ UNCHANGED <<file, filters, current, sym>>

Next ==
    \/ \E c \in SymChars : ClickChar(c)
    \/ ClickExtern
    \/ \E names \in SUBSET Names : EditName(names)
    \/ \E r \in Visible : Select(r)
    \/ MoveCurrent
    \/ \E typ \in Labels : ClickView(typ)

Spec == Init /\ [][Next]_vars

-----------------------------------------------------------------------------
(* What makes the tab correct.                                               *)

\* Type invariant of the tab; shown never holds a symbol without bytes.
TypeOK ==
    /\ charButton \in SymChars
    /\ filterChar \in SymChars \cup {None}
    /\ filterChar = None \/ filterChar = charButton
    /\ externOnly \in BOOLEAN
    /\ nameFilter \subseteq Names
    /\ current \in Rows \cup {None}
    /\ sym \in Rows \cup {None}
    /\ checked \in Labels \cup {None}
    /\ shown \in [sym: {r \in Rows : InSection(file.syms[r])}, typ: Labels] \cup {None}
    /\ crashed \in BOOLEAN

\* The bytes below the table are those of the selected symbol, whatever filters and
\* buttons were used in between.  The view is empty only for a symbol without bytes or
\* a view type that cannot be had in this file.
SelectedIsShown ==
    ~crashed /\ current # None =>
        IF shown # None THEN shown.sym = current
        ELSE \/ ~InSection(file.syms[current])
             \/ ~ValidSect(file.syms[current])
             \/ file.syms[current].bytes # "all"
             \/ NoModel(file.syms[current], checked)

\* With nothing selected, the view is empty or shows the symbol selected last: the
\* view buttons still act on it.
NothingElseShown ==
    ~crashed /\ shown # None => shown.sym = sym /\ (current = None \/ current = sym)

\* The bytes below the table follow the selection.
ShowsSelection == SelectedIsShown /\ NothingElseShown

\* The checked button names the view type that is on display.
ButtonMatchesView == ~crashed /\ shown # None => checked = shown.typ

\* What the filters mean in terms of the symbols: the reference definition of the
\* letters, and "Extern Only" leaves exactly the external symbols that have a letter.
FilterMeaning ==
    LET in(s) == ~s.stab /\ s.type = "N_SECT"
        section(s, l) == s.sect \in 1..Len(file.sects) /\ file.sects[s.sect].letter = l
        class(s) ==
            [ U |-> ~s.stab /\ (s.type = "N_PBUD" \/ (s.type = "N_UNDF" /\ s.zero)),
              C |-> ~s.stab /\ s.type = "N_UNDF" /\ ~s.zero,
              A |-> ~s.stab /\ s.type = "N_ABS",
              I |-> ~s.stab /\ s.type = "N_INDR",
              B |-> in(s) /\ s.sect = 0,
              T |-> in(s) /\ section(s, "T"),
              D |-> in(s) /\ section(s, "D"),
              S |-> in(s) /\ s.sect # 0 /\ ~section(s, "T") /\ ~section(s, "D") ]
        any(s) == \E l \in DOMAIN class(s) : class(s)[l]
    IN \A r \in Rows :
        LET s == file.syms[r] IN
        r \in Visible <=>
            /\ s.name \in nameFilter
            /\ externOnly => s.ext /\ any(s)
            /\ CASE filterChar \in {None, "*"} -> ~s.stab
                 [] filterChar = "-" -> s.stab
                 [] OTHER -> class(s)[filterChar]

\* The program dies only of the symbol that the view buttons act on, which is the selected
\* one: of its being in an __eh_frame section, or of what building the table of the view
\* that is checked then meets.  A symbol of a section that does not exist is harmless
\* until a button is clicked.
CrashesOnlyOnOddSymbols ==
    crashed =>
        /\ sym # None /\ InSection(file.syms[sym])
        /\ current # None => current = sym
        /\ GuessSymType(sym) # "EHFrame" =>
             checked # None /\ TableDies(file.syms[sym], checked)

=============================================================================
