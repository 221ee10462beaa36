---------------------------- MODULE ReltabWidget ----------------------------
(***************************************************************************)
(* The "Relocations" tab of an object file: a list of sections, the table  *)
(* of the selected section's relocations and a box, "Calculate Address",   *)
(* that decides which of two address columns is visible                    *)
(* (macho_widgets/reltab_widget.go, reltab_model.go).                      *)
(*                                                                         *)
(* The columns are hidden in Qt's header, which belongs to the view and    *)
(* not to the model.  What the header does with them when it is given      *)
(* another model is Qt's business: it may forget them or keep them.        *)
(***************************************************************************)
EXTENDS Integers, Sequences

CONSTANTS
    Files,  \* the files that may be open
    M,      \* the number of values of a uint32
    None    \* no section, no table, no name

\* A relocation: its offset and what says what its value means.
Reloc == [addr: 0..(M - 1), value: 0..(M - 1), scattered: BOOLEAN, extern: BOOLEAN]

\* nsyms: the number of symbols; named: the addresses SymLookup has a name for.
ASSUME ReltabAssumption ==
    /\ M \in Nat /\ M > 0
    /\ None \notin [of: {"symbol", "section", "address"}, n: Nat]
    /\ \A f \in Files :
         /\ f.nsyms \in Nat /\ f.named \subseteq Nat
         /\ f.sects \in Seq([addr: Nat, relocs: Seq(Reloc)])
         /\ Len(f.sects) < M /\ f.nsyms < M

VARIABLES
    file,     \* the File
    current,  \* the current row of the list
    checked,  \* the box
    table,    \* the section whose relocations the table shows
    hidden    \* the hidden columns

vars == <<file, current, checked, table, hidden>>

Sections == 1..Len(file.sects)

\* The two columns that share a place.
Addr == 0
Offset == 1

-----------------------------------------------------------------------------
(* The cells.                                                                *)

\* symIndexString: the symbol with this index, counting from 0.
SymIndex(n) == IF n < file.nsyms THEN [of |-> "symbol", n |-> n + 1] ELSE None

\* sectNumString: sections count from 1; the subtraction is one of uint32s.
SectNumFromZero(n) == IF n < Len(file.sects) THEN [of |-> "section", n |-> n + 1] ELSE None
SectNum(n) ==
    LET index == (n - 1) % M
    IN IF index < Len(file.sects) THEN [of |-> "section", n |-> index + 1] ELSE None

\* symAddrString without force
SymAddr(a) == IF a \in file.named THEN [of |-> "address", n |-> a] ELSE None

\* relocValueString: what the number stands for.
RelocValue(r) ==
    IF r.scattered THEN SymAddr(r.value)
    ELSE IF r.extern THEN SymIndex(r.value)
    ELSE SectNum(r.value)

\* The row of relocation k of section s.
CellOf(s, k, column) ==
    IF column = Addr THEN file.sects[s].addr + file.sects[s].relocs[k].addr
    ELSE file.sects[s].relocs[k].addr

\* Reltab: one proxy for each section, in their order.
Reltab(row) == row

-----------------------------------------------------------------------------
(* The callbacks.                                                            *)

Hide(old, box) == IF box THEN (old \ {Addr}) \cup {Offset} ELSE (old \ {Offset}) \cup {Addr}

Init ==
    /\ file \in Files
    /\ current = None
    /\ checked = FALSE
    /\ table = None
    /\ hidden = {}

\* A header without a model has no columns to hide.
ApplyBoxOnClickOnly(old, box) == hidden' = old
ApplyBox(old, box) == hidden' = IF table' = None THEN {} ELSE Hide(old, box)

\* The selection moves to another section, or away.
Select(row) ==
    /\ row # current
    /\ current' = row
    /\ table' = Reltab(row)
    /\ \E kept \in {{}, hidden} : ApplyBox(kept, checked)
    /\ UNCHANGED <<file, checked>>

ClickBox ==
    /\ checked' = ~checked
    /\ UNCHANGED <<file, current, table>>
    /\ hidden' = IF table = None THEN {} ELSE Hide(hidden, ~checked)

Next ==
    \/ \E row \in Sections \cup {None} : Select(row)
    \/ ClickBox

Spec == Init /\ [][Next]_vars

-----------------------------------------------------------------------------
(* What makes the tab correct.                                               *)

\* Type invariant of the tab.
TypeOK ==
    /\ current \in Sections \cup {None}
    /\ checked \in BOOLEAN
    /\ table \in Sections \cup {None}
    /\ hidden \subseteq {Addr, Offset}

Visible == {Addr, Offset} \ hidden

\* Exactly one address column is visible in a table, the one the box asks for, whatever
\* was clicked before and whatever the header remembers of the last table.
ColumnsFollowBox == table # None => Visible = IF checked THEN {Addr} ELSE {Offset}

\* What the user reads in the address column belongs to the selected section: the places
\* of its relocations, relative to it or absolute.
AddressesRight ==
    table # None =>
        /\ Len(file.sects[table].relocs) = Len(file.sects[current].relocs)
        /\ \A k \in 1..Len(file.sects[table].relocs) : \A c \in Visible :
            CellOf(table, k, c) =
                (IF checked THEN file.sects[current].addr ELSE 0) + file.sects[current].relocs[k].addr

\* v is the name of what r's value means, or None, and then there is nothing to name.
NameRight(r, v) ==
    IF v = None
    THEN /\ r.scattered => r.value \notin file.named
         /\ ~r.scattered /\ r.extern => r.value >= file.nsyms
         /\ ~r.scattered /\ ~r.extern => r.value \notin Sections
    ELSE /\ v.of = "address" => r.scattered /\ v.n = r.value
         /\ v.of = "symbol" => ~r.scattered /\ r.extern /\ v.n = r.value + 1 /\ v.n <= file.nsyms
         /\ v.of = "section" => ~r.scattered /\ ~r.extern /\ v.n = r.value /\ v.n \in Sections

\* The name next to a relocation's value is that of the symbol or section with this
\* number; 0, which is no section (R_ABS), has none although 0 - 1 wraps around.
ValuesNamed ==
    table # None =>
        \A k \in 1..Len(file.sects[table].relocs) :
            NameRight(file.sects[table].relocs[k], RelocValue(file.sects[table].relocs[k]))

\* The cells of the table are those of the selected section's relocations.
CellsRight == AddressesRight /\ ValuesNamed

=============================================================================
