--------------------------- MODULE ReltabWidgetProofs ---------------------------
(***************************************************************************)
(* Proofs about ReltabWidget, for every set of files: the visible address  *)
(* column is the one the box asks for and shows the selected section's     *)
(* relocations, whatever Qt's header remembers.                            *)
(***************************************************************************)
EXTENDS ReltabWidget, TLAPS

\* The table is that of the current row; a header without a table hides nothing.
TableIsCurrent == table = current

ReltabInv == file \in Files /\ TypeOK /\ TableIsCurrent /\ ColumnsFollowBox

\* An element of a sequence is of the sequence's kind.
LEMMA ElementOf == ASSUME NEW S, NEW s \in Seq(S), NEW k \in 1..Len(s) PROVE s[k] \in S
  OBVIOUS

\* After Hide exactly one of the two columns is left.
LEMMA HideLeavesOne ==
    ASSUME NEW old \in SUBSET {Addr, Offset}, NEW box \in BOOLEAN
    PROVE  /\ Hide(old, box) \subseteq {Addr, Offset}
           /\ {Addr, Offset} \ Hide(old, box) = IF box THEN {Addr} ELSE {Offset}
  BY DEF Hide, Addr, Offset

\* Another section: the box is applied to the new table, whatever was hidden in the last.
LEMMA SelectKeeps ==
    ASSUME ReltabInv, NEW row \in Sections \cup {None}, Select(row) PROVE ReltabInv'
<1>1. /\ file \in Files /\ file' = file /\ current' = row /\ table' = row
      /\ checked' = checked /\ checked \in BOOLEAN /\ hidden \subseteq {Addr, Offset}
  BY DEF ReltabInv, TypeOK, Select, Reltab
<1>2. PICK kept \in SUBSET {Addr, Offset} :
        hidden' = IF table' = None THEN {} ELSE Hide(kept, checked)
  BY <1>1 DEF Select, ApplyBox
<1>3. hidden' \subseteq {Addr, Offset}
  BY <1>1, <1>2, HideLeavesOne
<1>4. TypeOK'
  BY <1>1, <1>3 DEF TypeOK, Sections
<1>5. ColumnsFollowBox'
  BY <1>1, <1>2, HideLeavesOne DEF ColumnsFollowBox, Visible
<1> QED
  BY <1>1, <1>4, <1>5 DEF ReltabInv, TableIsCurrent

\* The box: the columns swap in the table there is.
LEMMA ClickBoxKeeps == ASSUME ReltabInv, ClickBox PROVE ReltabInv'
<1>1. /\ file \in Files /\ UNCHANGED <<file, current, table>> /\ checked' = ~checked
      /\ checked \in BOOLEAN /\ checked' \in BOOLEAN /\ hidden \in SUBSET {Addr, Offset}
      /\ hidden' = IF table = None THEN {} ELSE Hide(hidden, checked')
  BY DEF ReltabInv, TypeOK, ClickBox
<1>2. TypeOK'
  BY <1>1, HideLeavesOne DEF ReltabInv, TypeOK, Sections
<1>3. ColumnsFollowBox'
  BY <1>1, HideLeavesOne DEF ColumnsFollowBox, Visible
<1> QED
  BY <1>1, <1>2, <1>3 DEF ReltabInv, TableIsCurrent

\* The inductive invariant of the tab: the table is the current row's and the box is applied to it.
THEOREM ReltabInvariant == Spec => []ReltabInv
<1>1. Init => ReltabInv
  BY DEF Init, ReltabInv, TypeOK, TableIsCurrent, ColumnsFollowBox
<1>2. ReltabInv /\ [Next]_vars => ReltabInv'
  <2> SUFFICES ASSUME ReltabInv, [Next]_vars PROVE ReltabInv'
    OBVIOUS
  <2>1. CASE UNCHANGED vars
    BY <2>1 DEF vars, ReltabInv, TypeOK, TableIsCurrent, ColumnsFollowBox, Visible, Sections
  <2> QED
    BY <2>1, SelectKeeps, ClickBoxKeeps DEF Next
<1> QED
  BY <1>1, <1>2, PTL DEF Spec

\* One address column is visible, the one that the box asks for.
THEOREM OneColumn == Spec => []ColumnsFollowBox
<1>1. ReltabInv => ColumnsFollowBox
  BY DEF ReltabInv
<1> QED
  BY <1>1, ReltabInvariant, PTL

\* A relocation of the table's section is a Reloc; its numbers are uint32s.
LEMMA RelocOfTable ==
    ASSUME ReltabInv, table # None, NEW k \in 1..Len(file.sects[table].relocs)
    PROVE  /\ file.sects[table].relocs[k].addr \in 0..(M - 1)
           /\ file.sects[table].relocs[k].value \in 0..(M - 1)
           /\ file.sects[table].relocs[k].scattered \in BOOLEAN
           /\ file.sects[table].relocs[k].extern \in BOOLEAN
<1>1. /\ file.sects \in Seq([addr: Nat, relocs: Seq(Reloc)]) /\ table \in 1..Len(file.sects)
  BY ReltabAssumption DEF ReltabInv, TypeOK, Sections
<1>2. file.sects[table] \in [addr: Nat, relocs: Seq(Reloc)]
  BY <1>1, ElementOf
<1>3. file.sects[table].relocs \in Seq(Reloc)
  BY <1>2
<1>4. file.sects[table].relocs[k] \in Reloc
  BY <1>3, ElementOf
<1>5. \A r \in Reloc : /\ r.addr \in 0..(M - 1) /\ r.value \in 0..(M - 1)
                       /\ r.scattered \in BOOLEAN /\ r.extern \in BOOLEAN
  BY DEF Reloc
<1> QED
  BY <1>4, <1>5, Zenon

\* The addresses in the table are those of the selected section's relocations.
LEMMA AddressesFollow == ReltabInv => AddressesRight
<1> SUFFICES ASSUME ReltabInv, table # None PROVE AddressesRight
  BY DEF AddressesRight
<1>1. table = current /\ Visible = IF checked THEN {Addr} ELSE {Offset}
  BY DEF ReltabInv, TableIsCurrent, ColumnsFollowBox
<1>2. ASSUME NEW k \in 1..Len(file.sects[table].relocs), NEW c \in Visible
      PROVE  CellOf(table, k, c)
               = (IF checked THEN file.sects[current].addr ELSE 0) + file.sects[current].relocs[k].addr
  <2>1. file.sects[table].relocs[k].addr \in Int
    BY RelocOfTable, ReltabAssumption
  <2> QED
    BY <1>1, <1>2, <2>1 DEF CellOf, Addr, Offset
<1> QED
  BY <1>1, <1>2 DEF AddressesRight

\* 0 - 1 is a number no section has; any other number counts the sections from 1.
LEMMA SectNumMeans ==
    ASSUME NEW n \in 0..(M - 1), M \in Nat, M > 0, Len(file.sects) \in Nat, Len(file.sects) < M
    PROVE  SectNum(n) = IF n \in 1..Len(file.sects) THEN [of |-> "section", n |-> n] ELSE None
<1>1. CASE n = 0
  <2>1. (n - 1) % M = M - 1
    BY <1>1, Z3
  <2> QED
    BY <1>1, <2>1 DEF SectNum
<1>2. CASE n # 0
  <2>1. (n - 1) % M = n - 1
    BY <1>2, Z3
  <2> QED
    BY <1>2, <2>1 DEF SectNum
<1> QED
  BY <1>1, <1>2

\* The name that is found for a relocation's value is right.
LEMMA NameFound ==
    ASSUME file \in Files, NEW r, r.value \in 0..(M - 1),
           r.scattered \in BOOLEAN, r.extern \in BOOLEAN
    PROVE  NameRight(r, RelocValue(r))
<1>1. /\ M \in Nat /\ M > 0 /\ file.nsyms \in Nat /\ Len(file.sects) \in Nat
      /\ Len(file.sects) < M /\ r.value \in Nat
      /\ \A n \in Nat : /\ [of |-> "symbol", n |-> n] # None
                        /\ [of |-> "section", n |-> n] # None
                        /\ [of |-> "address", n |-> n] # None
  BY ReltabAssumption
<1>2. CASE r.scattered
  <2>1. RelocValue(r) = IF r.value \in file.named THEN [of |-> "address", n |-> r.value] ELSE None
    BY <1>2 DEF RelocValue, SymAddr
  <2> QED
    BY <1>1, <1>2, <2>1 DEF NameRight
<1>3. CASE ~r.scattered /\ r.extern
  <2>1. RelocValue(r) = IF r.value < file.nsyms THEN [of |-> "symbol", n |-> r.value + 1] ELSE None
    BY <1>3 DEF RelocValue, SymIndex
  <2> QED
    BY <1>1, <1>3, <2>1 DEF NameRight
<1>4. CASE ~r.scattered /\ ~r.extern
  <2>1. RelocValue(r) = IF r.value \in 1..Len(file.sects) THEN [of |-> "section", n |-> r.value] ELSE None
    <3>1. RelocValue(r) = SectNum(r.value)
      BY <1>4 DEF RelocValue
    <3> QED
      BY <1>1, <3>1, SectNumMeans
  <2> QED
    BY <1>1, <1>4, <2>1 DEF NameRight, Sections
<1> QED
  BY <1>2, <1>3, <1>4

\* The names in the table are those of the relocations' values.
LEMMA NamesFollow == ReltabInv => ValuesNamed
  BY RelocOfTable, NameFound DEF ValuesNamed, ReltabInv

\* The cells of the table, addresses and names, are those of the selected section's
\* relocations.
THEOREM CellsOfSelected == Spec => []CellsRight
<1>1. ReltabInv => CellsRight
  BY AddressesFollow, NamesFollow DEF CellsRight
<1> QED
  BY <1>1, ReltabInvariant, PTL

=================================================================================
