------------------------------ MODULE SymbolProofs ------------------------------
(***************************************************************************)
(* Proofs about the views of one symbol.                                   *)
(*                                                                         *)
(* Its row (SymbolCells), for every set of files and symbols: no bit of    *)
(* Desc is lost or shown twice, numbers are shown whole, flags only where  *)
(* they apply, and no library is asked for that does not exist.            *)
(*                                                                         *)
(* Its value (DwarfValue), for every debug information and all types: the  *)
(* search finds the first global variable of the symbol's name, and        *)
(* decodeValue reads all the scalars of its type and nothing else, fails   *)
(* only where it has to and panics only on incomplete types.  decodeValue  *)
(* and the size of a type are recursive: that they are what their          *)
(* definitions say follows from how deep types are made of others.         *)
(***************************************************************************)
EXTENDS SymbolCells, DwarfValue, WellFoundedInduction, TLAPS

-----------------------------------------------------------------------------
(* The row of a symbol.                                                      *)

\* What symDescString has not read yet is still in desc: a field's bits until its block.
StillThere ==
    /\ pc = 1 => vals = <<>> /\ desc = sym.desc
    /\ pc <= 7 /\ ~Common => desc \cap (8..15) = sym.desc \cap (8..15)
    /\ pc = End => desc = {}

\* The lines share out what is gone from desc.
SharedOut ==
    /\ sym.desc = desc \cup (UNION {vals[k].bits : k \in Lines})
    /\ \A k \in Lines : vals[k].bits \cap desc = {}
    /\ \A j, k \in Lines : j # k => vals[j].bits \cap vals[k].bits = {}

LineType == [label: Labels, bits: SUBSET Bits, lib: SUBSET (1..253)]

\* What is said of one line, when it is added and ever after.
LineRight(line) ==
    /\ line.label \in {"alignment", "REFERENCE_TYPE", "ordinal"} =>
         line.bits = sym.desc \cap MaskOf(line.label)
    /\ line.label \in {"REFERENCE_TYPE", "N_WEAK_REF", "N_REF_TO_WEAK"} => Undefined
    /\ line.label \in {"REFERENCED_DYNAMICALLY", "N_WEAK_DEF"} => External
    /\ line.label = "N_WEAK_DEF" => ~Undefined
    /\ line.label \in {"N_NO_DEAD_STRIP", "N_SYMBOL_RESOLVER"} => file.obj
    /\ line.label = "N_DESC_DISCARDED" => ~file.obj
    /\ line.lib \subseteq 1..file.libs

CellsInv == TypeOK /\ StillThere /\ SharedOut /\ \A k \in Lines : LineRight(vals[k])

\* What the assumptions say of the file and the symbol.
LEMMA Given == TypeOK => file \in File /\ sym \in Symbol /\ sym.desc \subseteq Bits /\ file.libs \in Nat
  BY CellsAssumption DEF TypeOK, File, Symbol

\* A block that prints one line for bits it finds, or none, and flips them out.
LEMMA OneLine ==
    ASSUME CellsInv, NEW line \in LineType, line.bits \subseteq desc, LineRight(line),
           Done(<<line>>, line.bits), pc \in 1..9
    PROVE  /\ TypeOK' /\ SharedOut' /\ \A k \in Lines' : LineRight(vals'[k])
           /\ desc' = desc \ line.bits
<1>1. /\ vals \in Seq(LineType) /\ desc \subseteq Bits /\ file \in Files /\ sym \in Syms
      /\ Len(vals) \in Nat
  BY DEF CellsInv, TypeOK, LineType
<1>2. /\ vals' = vals \o <<line>> /\ desc' = Xor(desc, line.bits) /\ pc' = pc + 1
      /\ file' = file /\ sym' = sym
  BY DEF Done
<1>3. desc' = desc \ line.bits
  BY <1>2 DEF Xor
<1>4. /\ vals' \in Seq(LineType) /\ Len(vals') = Len(vals) + 1
      /\ vals'[Len(vals) + 1] = line
      /\ \A k \in 1..Len(vals) : vals'[k] = vals[k]
  BY <1>1, <1>2
<1>5. 1..Len(vals') = 1..Len(vals) \cup {Len(vals) + 1} /\ Len(vals) + 1 \notin 1..Len(vals)
  BY <1>1, <1>4
<1>6. TypeOK'
  BY <1>1, <1>2, <1>3, <1>4 DEF TypeOK, LineType, End
<1>7. SharedOut
  BY DEF CellsInv
<1>8. SharedOut'
  <2>1. sym.desc = desc' \cup (UNION {vals'[k].bits : k \in 1..Len(vals')})
    <3>1. UNION {vals'[k].bits : k \in 1..Len(vals')}
            = (UNION {vals[k].bits : k \in 1..Len(vals)}) \cup line.bits
      BY <1>4, <1>5
    <3> QED
      BY <1>3, <1>7, <3>1 DEF SharedOut, Lines
  <2>2. \A k \in 1..Len(vals') : vals'[k].bits \cap desc' = {}
    BY <1>3, <1>4, <1>5, <1>7 DEF SharedOut, Lines
  <2>3. \A j, k \in 1..Len(vals') : j # k => vals'[j].bits \cap vals'[k].bits = {}
    BY <1>4, <1>5, <1>7 DEF SharedOut, Lines
  <2> QED
    BY <1>2, <2>1, <2>2, <2>3 DEF SharedOut, Lines
<1>9. \A k \in Lines' : LineRight(vals'[k])
  <2>1. \A k \in 1..Len(vals) : LineRight(vals[k])
    BY DEF CellsInv, Lines
  <2> QED
    BY <1>4, <1>5, <2>1 DEF Lines
<1> QED
  BY <1>3, <1>6, <1>8, <1>9

\* A block that prints nothing leaves everything as it is.
LEMMA NoLine ==
    ASSUME CellsInv, Done(<<>>, {}), pc \in 1..9
    PROVE  TypeOK' /\ SharedOut' /\ (\A k \in Lines' : LineRight(vals'[k])) /\ desc' = desc
<1>1. vals \in Seq(LineType) /\ desc \subseteq Bits
  BY DEF CellsInv, TypeOK, LineType
<1>2. vals' = vals /\ desc' = desc /\ pc' = pc + 1 /\ file' = file /\ sym' = sym
  BY <1>1 DEF Done, Xor
<1> QED
  BY <1>2 DEF CellsInv, TypeOK, SharedOut, Lines, End, LineRight

\* So the invariant survives every block but the last, if fields find their bits.
LEMMA LineKept ==
    ASSUME CellsInv, NEW line \in LineType, line.bits \subseteq desc, LineRight(line),
           Done(<<line>>, line.bits), pc \in 1..8,
           line.bits \cap (8..15) = {} \/ Common \/ pc >= 7
    PROVE  CellsInv'
<1>1. /\ TypeOK' /\ SharedOut' /\ \A k \in Lines' : LineRight(vals'[k])
      /\ desc' = desc \ line.bits
  BY OneLine
<1>2. pc' = pc + 1 /\ file' = file /\ sym' = sym
  BY DEF Done
<1>3. (\A k \in Lines : LineRight(vals[k]))'
  BY <1>1, <1>2 DEF LineRight, Undefined, External
<1>4. StillThere'
  <2>1. pc <= 6 /\ ~Common => desc' \cap (8..15) = sym.desc \cap (8..15)
    BY <1>1 DEF CellsInv, StillThere
  <2> QED
    BY <1>2, <2>1 DEF StillThere, Common, End
<1> QED
  BY <1>1, <1>3, <1>4 DEF CellsInv

\* A block that does not apply keeps the invariant.
LEMMA SkipKept == ASSUME CellsInv, Skip, pc \in 1..8 PROVE CellsInv'
<1>1. TypeOK' /\ SharedOut' /\ (\A k \in Lines' : LineRight(vals'[k])) /\ desc' = desc
  BY NoLine DEF Skip
<1>2. pc' = pc + 1 /\ file' = file /\ sym' = sym
  BY DEF Skip, Done
<1>3. (\A k \in Lines : LineRight(vals[k]))'
  BY <1>1, <1>2 DEF LineRight, Undefined, External
<1>4. StillThere'
  BY <1>1, <1>2 DEF CellsInv, StillThere, Common, End
<1> QED
  BY <1>1, <1>3, <1>4 DEF CellsInv

\* The provers are told once what the labels are.
LEMMA LabelsAre ==
    /\ {"?", "alignment", "REFERENCE_TYPE", "N_ARM_THUMB_DEF", "REFERENCED_DYNAMICALLY"} \subseteq Labels
    /\ {"N_NO_DEAD_STRIP", "N_DESC_DISCARDED", "N_WEAK_REF", "N_WEAK_DEF"} \subseteq Labels
    /\ {"N_REF_TO_WEAK", "N_SYMBOL_RESOLVER", "ordinal", "N_ALT_ENTRY", "??"} \subseteq Labels
  BY DEF Labels

\* A flag prints its bit alone.
LEMMA FlagKept ==
    ASSUME CellsInv, NEW label \in Labels, NEW bit \in Bits, Flag(label, bit), pc \in 1..8,
           LineRight(Line(label, {bit})), bit \notin 8..15 \/ pc >= 7
    PROVE  CellsInv'
<1>1. CASE bit \in desc
  <2>1. Line(label, {bit}) \in LineType /\ Line(label, {bit}).bits = {bit}
    BY DEF Line, LineType
  <2>2. Done(<<Line(label, {bit})>>, Line(label, {bit}).bits)
    BY <1>1, <2>1 DEF Flag
  <2> QED
    BY <1>1, <2>1, <2>2, LineKept
<1>2. CASE bit \notin desc
  BY <1>2, SkipKept DEF Flag
<1> QED
  BY <1>1, <1>2

\* A field prints all its bits that are left.
LEMMA FieldKept ==
    ASSUME CellsInv, NEW label \in Labels, NEW mask \in SUBSET Bits, Field(label, mask),
           pc \in 1..8, LineRight(Line(label, desc \cap mask)),
           mask \cap (8..15) = {} \/ Common \/ pc >= 7
    PROVE  CellsInv'
<1>1. Line(label, desc \cap mask) \in LineType /\ Line(label, desc \cap mask).bits = desc \cap mask
  BY DEF Line, LineType
<1>2. Done(<<Line(label, desc \cap mask)>>, Line(label, desc \cap mask).bits)
  BY <1>1 DEF Field
<1> QED
  BY <1>1, <1>2, LineKept

-----------------------------------------------------------------------------
\* One lemma for each block.

\* The whole Desc is one line of a stab, or none if it is 0.
LEMMA StabKeeps == ASSUME CellsInv, Stab PROVE CellsInv'
<1>1. /\ vals = <<>> /\ desc = sym.desc /\ desc \subseteq Bits /\ file \in Files /\ sym \in Syms
      /\ pc' = End /\ desc' = {} /\ file' = file /\ sym' = sym
  BY DEF CellsInv, StillThere, Stab, TypeOK
<1>2. CASE vals' = <<>>
  <2>1. SharedOut' /\ (\A k \in Lines : LineRight(vals[k]))'
    <3>1. desc = {}
      BY <1>2 DEF Stab
    <3> QED
      BY <1>1, <1>2, <3>1 DEF SharedOut, Lines
  <2>2. TypeOK' /\ StillThere'
    BY <1>1, <1>2 DEF TypeOK, StillThere, End
  <2> QED
    BY <2>1, <2>2 DEF CellsInv
<1>3. CASE vals' = <<Line("?", desc)>>
  <2>1. Len(vals') = 1 /\ 1..1 = {1} /\ vals'[1] = Line("?", desc)
    BY <1>3
  <2>2. SharedOut'
    BY <1>1, <2>1 DEF SharedOut, Lines, Line
  <2>3. (\A k \in Lines : LineRight(vals[k]))'
    BY <1>1, <2>1 DEF LineRight, Lines, Line
  <2>4. TypeOK' /\ StillThere'
    <3>1. Line("?", desc) \in [label: Labels, bits: SUBSET Bits, lib: SUBSET (1..253)]
      BY <1>1, LabelsAre DEF Line
    <3>2. vals' \in Seq([label: Labels, bits: SUBSET Bits, lib: SUBSET (1..253)])
      BY <1>3, <3>1
    <3>3. TypeOK'
      BY <1>1, <3>2 DEF TypeOK, End
    <3> QED
      BY <1>1, <3>3 DEF StillThere, End
  <2> QED
    BY <2>2, <2>3, <2>4 DEF CellsInv
<1> QED
  BY <1>2, <1>3 DEF Stab

\* The first block comes before every flag: its field is whole.
LEMMA CommonOrReferenceKeeps == ASSUME CellsInv, CommonOrReference PROVE CellsInv'
<1>1. pc \in 1..8 /\ desc = sym.desc
  BY DEF CommonOrReference, CellsInv, StillThere
<1>2. CASE ~Undefined
  BY <1>1, <1>2, SkipKept DEF CommonOrReference
<1>3. CASE Undefined /\ Common
  <2>1. Field("alignment", 8..11) /\ 8..11 \in SUBSET Bits
    BY <1>3 DEF CommonOrReference, Bits
  <2>2. LineRight(Line("alignment", desc \cap (8..11)))
    BY <1>1 DEF LineRight, Line, MaskOf
  <2> QED
    BY <1>1, <1>3, <2>1, <2>2, LabelsAre, FieldKept
<1>4. CASE Undefined /\ ~Common
  <2>1. Field("REFERENCE_TYPE", 0..2) /\ 0..2 \in SUBSET Bits /\ (0..2) \cap (8..15) = {}
    BY <1>4 DEF CommonOrReference, Bits
  <2>2. LineRight(Line("REFERENCE_TYPE", desc \cap (0..2)))
    BY <1>1, <1>4 DEF LineRight, Line, MaskOf
  <2> QED
    BY <1>1, <2>1, <2>2, LabelsAre, FieldKept
<1> QED
  BY <1>2, <1>3, <1>4

\* Bit 3 belongs to no field.
LEMMA ThumbKeeps == ASSUME CellsInv, Thumb PROVE CellsInv'
<1>1. pc \in 1..8 /\ Flag("N_ARM_THUMB_DEF", 3) /\ 3 \in Bits /\ 3 \notin 8..15
  BY DEF Thumb, Bits
<1>2. LineRight(Line("N_ARM_THUMB_DEF", {3}))
  BY DEF LineRight, Line
<1> QED
  BY <1>1, <1>2, LabelsAre, FlagKept

\* Bit 4 is taken of external symbols only.
LEMMA DynamicKeeps == ASSUME CellsInv, Dynamic PROVE CellsInv'
<1>1. pc \in 1..8 /\ 4 \in Bits /\ 4 \notin 8..15
  BY DEF Dynamic, Bits
<1>2. External => LineRight(Line("REFERENCED_DYNAMICALLY", {4}))
  BY DEF LineRight, Line
<1>3. CASE External
  <2>1. Flag("REFERENCED_DYNAMICALLY", 4)
    BY <1>3 DEF Dynamic
  <2> QED
    BY <1>1, <1>2, <1>3, <2>1, LabelsAre, FlagKept
<1>4. CASE ~External
  BY <1>1, <1>4, SkipKept DEF Dynamic
<1> QED
  BY <1>3, <1>4

\* Bit 5 has one of its two meanings, by the kind of file.
LEMMA StripKeeps == ASSUME CellsInv, Strip PROVE CellsInv'
<1>1. pc \in 1..8 /\ 5 \in Bits /\ 5 \notin 8..15
  BY DEF Strip, Bits
<1>2. file.obj => LineRight(Line("N_NO_DEAD_STRIP", {5}))
  BY DEF LineRight, Line
<1>3. ~file.obj => LineRight(Line("N_DESC_DISCARDED", {5}))
  BY DEF LineRight, Line
<1>4. CASE file.obj
  <2>1. Flag("N_NO_DEAD_STRIP", 5)
    BY <1>4 DEF Strip
  <2> QED
    BY <1>1, <1>2, <1>4, <2>1, LabelsAre, FlagKept
<1>5. CASE ~file.obj
  <2>1. Flag("N_DESC_DISCARDED", 5)
    BY <1>5 DEF Strip
  <2> QED
    BY <1>1, <1>3, <1>5, <2>1, LabelsAre, FlagKept
<1> QED
  BY <1>4, <1>5

\* Bit 6 or, of defined symbols, bit 7.
LEMMA WeakKeeps == ASSUME CellsInv, Weak PROVE CellsInv'
<1>1. pc \in 1..8 /\ {6, 7} \subseteq Bits /\ 6 \notin 8..15 /\ 7 \notin 8..15
  BY DEF Weak, Bits
<1>2. Undefined => LineRight(Line("N_WEAK_REF", {6}))
  BY DEF LineRight, Line
<1>3. ~Undefined /\ External => LineRight(Line("N_WEAK_DEF", {7}))
  BY DEF LineRight, Line
<1>4. CASE Undefined
  <2>1. Flag("N_WEAK_REF", 6)
    BY <1>4 DEF Weak
  <2> QED
    BY <1>1, <1>2, <1>4, <2>1, LabelsAre, FlagKept
<1>5. CASE ~Undefined /\ External
  <2>1. Flag("N_WEAK_DEF", 7)
    BY <1>5 DEF Weak
  <2> QED
    BY <1>1, <1>3, <1>5, <2>1, LabelsAre, FlagKept
<1>6. CASE ~Undefined /\ ~External
  BY <1>1, <1>6, SkipKept DEF Weak
<1> QED
  BY <1>4, <1>5, <1>6

\* Bit 7 of undefined symbols, which Weak has left alone.
LEMMA RefToWeakKeeps == ASSUME CellsInv, RefToWeak PROVE CellsInv'
<1>1. pc \in 1..8 /\ 7 \in Bits /\ 7 \notin 8..15
  BY DEF RefToWeak, Bits
<1>2. Undefined => LineRight(Line("N_REF_TO_WEAK", {7}))
  BY DEF LineRight, Line
<1>3. CASE Undefined
  <2>1. Flag("N_REF_TO_WEAK", 7)
    BY <1>3 DEF RefToWeak
  <2> QED
    BY <1>1, <1>2, <1>3, <2>1, LabelsAre, FlagKept
<1>4. CASE ~Undefined
  BY <1>1, <1>4, SkipKept DEF RefToWeak
<1> QED
  BY <1>3, <1>4

\* Bit 9 of object files, where no ordinal has been read.
LEMMA AltEntryKeeps == ASSUME CellsInv, AltEntry PROVE CellsInv'
<1>1. pc \in 1..8 /\ pc >= 7 /\ 9 \in Bits
  BY DEF AltEntry, Bits
<1>2. LineRight(Line("N_ALT_ENTRY", {9}))
  BY DEF LineRight, Line
<1>3. CASE file.obj
  <2>1. Flag("N_ALT_ENTRY", 9)
    BY <1>3 DEF AltEntry
  <2> QED
    BY <1>1, <1>2, <2>1, LabelsAre, FlagKept
<1>4. CASE ~file.obj
  BY <1>1, <1>4, SkipKept DEF AltEntry
<1> QED
  BY <1>3, <1>4

\* An ordinal is a number of 8 bits.
LEMMA OrdinalRange == ASSUME NEW bits \in SUBSET Bits PROVE Ordinal(bits) \in 0..255
  BY DEF Ordinal

\* The ordinal is read whole, as nothing before has taken bits 8 to 15 of a file that is no object.
LEMMA LibraryKeeps == ASSUME CellsInv, Library, pc = 7, ~file.obj PROVE CellsInv'
<1> DEFINE v == desc \cap (8..15)
           line == [label |-> "ordinal", bits |-> v, lib |-> LibraryOf(Ordinal(v))]
<1>1. v \in SUBSET Bits /\ v = sym.desc \cap (8..15) /\ file.libs \in Nat
  <2>1. ~Common /\ pc <= 7
    BY DEF Common
  <2> QED
    BY <2>1, Given DEF CellsInv, TypeOK, StillThere
<1>2. Ordinal(v) \in 0..255
  BY <1>1, OrdinalRange
<1>3. LibraryOf(Ordinal(v)) \subseteq 1..253 /\ LibraryOf(Ordinal(v)) \subseteq 1..file.libs
  <2> DEFINE ord == Ordinal(v)
  <2>1. ord \in 0..255 /\ LibraryOf(ord) = IF ord \in {0, 254, 255} \/ ord > file.libs THEN {} ELSE {ord}
    BY <1>2 DEF LibraryOf, SpecialOrdinals
  <2> HIDE DEF ord
  <2>2. LibraryOf(ord) \subseteq 1..253 /\ LibraryOf(ord) \subseteq 1..file.libs
    BY <1>1, <2>1
  <2> QED
    BY <2>2 DEF ord
<1>4. line \in LineType /\ LineRight(line)
  <2> DEFINE lib == LibraryOf(Ordinal(v))
  <2>1. lib \subseteq 1..253 /\ lib \subseteq 1..file.libs
    BY <1>3
  <2> HIDE DEF lib
  <2>2. [label |-> "ordinal", bits |-> v, lib |-> lib] \in LineType
    BY <1>1, <2>1, LabelsAre DEF LineType
  <2>3. LineRight([label |-> "ordinal", bits |-> v, lib |-> lib])
    BY <1>1, <2>1 DEF LineRight, MaskOf
  <2> QED
    BY <2>2, <2>3 DEF lib
<1>5. Done(<<line>>, line.bits) /\ line.bits \subseteq desc
  BY DEF Library
<1> HIDE DEF line
<1> QED
  BY <1>4, <1>5, LineKept

\* Bit 8 of object files, the ordinal of others.
LEMMA HighKeeps == ASSUME CellsInv, High PROVE CellsInv'
<1>1. pc \in 1..8 /\ pc = 7 /\ pc >= 7 /\ 8 \in Bits
  BY DEF High, Bits
<1>2. CASE file.obj
  <2>1. Flag("N_SYMBOL_RESOLVER", 8) 
    BY <1>2 DEF High
  <2>2. LineRight(Line("N_SYMBOL_RESOLVER", {8}))
    BY <1>2 DEF LineRight, Line
  <2> QED
    BY <1>1, <2>1, <2>2, LabelsAre, FlagKept
<1>3. CASE ~file.obj /\ file.twoLevel /\ Undefined
  BY <1>1, <1>3, LibraryKeeps DEF High
<1>4. CASE ~file.obj /\ ~(file.twoLevel /\ Undefined)
  BY <1>1, <1>4, SkipKept DEF High
<1> QED
  BY <1>2, <1>3, <1>4

\* The last line takes what is left, and nothing is left.
LEMMA RestKeeps == ASSUME CellsInv, Rest PROVE CellsInv'
<1>1. pc \in 1..9 /\ pc' = End /\ file' = file /\ sym' = sym
  BY DEF Rest, Skip, Done, End
<1>2. CASE desc = {}
  <2>1. TypeOK' /\ SharedOut' /\ (\A k \in Lines' : LineRight(vals'[k])) /\ desc' = desc
    BY <1>1, <1>2, NoLine DEF Rest, Skip
  <2> QED
    BY <1>1, <1>2, <2>1 DEF CellsInv, StillThere, End, LineRight, Undefined, External
<1>3. CASE desc # {}
  <2> DEFINE line == Line("??", desc)
  <2>1. line \in LineType /\ line.bits = desc /\ LineRight(line)
    <3>1. desc \subseteq Bits
      BY DEF CellsInv, TypeOK
    <3> QED
      BY <3>1, LabelsAre DEF Line, LineType, LineRight
  <2>2. Done(<<line>>, line.bits)
    BY <1>3, <2>1 DEF Rest
  <2> HIDE DEF line
  <2>3. TypeOK' /\ SharedOut' /\ (\A k \in Lines' : LineRight(vals'[k])) /\ desc' = {}
    BY <1>1, <2>1, <2>2, OneLine
  <2> QED
    BY <1>1, <2>3 DEF CellsInv, StillThere, End, LineRight, Undefined, External
<1> QED
  BY <1>2, <1>3

-----------------------------------------------------------------------------
\* The invariant that all theorems of this module follow from.
THEOREM CellsInvariant == Spec => []CellsInv
<1>1. Init => CellsInv
  <2> SUFFICES ASSUME Init PROVE CellsInv
    OBVIOUS
  <2>1. Lines = {}
    BY DEF Init, Lines
  <2>2. TypeOK
    BY CellsAssumption DEF Init, TypeOK, Symbol, End
  <2> QED
    BY <2>1, <2>2 DEF CellsInv, Init, StillThere, SharedOut, End
<1>2. CellsInv /\ [Next]_vars => CellsInv'
  <2> SUFFICES ASSUME CellsInv, [Next]_vars PROVE CellsInv'
    OBVIOUS
  <2>1. CASE Next
    BY <2>1, StabKeeps, CommonOrReferenceKeeps, ThumbKeeps, DynamicKeeps, StripKeeps,
       WeakKeeps, RefToWeakKeeps, HighKeeps, AltEntryKeeps, RestKeeps DEF Next
  <2>2. CASE UNCHANGED vars
    <3>1. file' = file /\ sym' = sym /\ pc' = pc /\ desc' = desc /\ vals' = vals
      BY <2>2 DEF vars
    <3>2. TypeOK'
      BY <3>1 DEF CellsInv, TypeOK
    <3>3. StillThere'
      BY <3>1 DEF CellsInv, StillThere, Common
    <3>4. SharedOut'
      BY <3>1 DEF CellsInv, SharedOut, Lines
    <3>5. (\A k \in Lines : LineRight(vals[k]))'
      BY <3>1 DEF CellsInv, Lines, LineRight, Undefined, External
    <3> QED
      BY <3>2, <3>3, <3>4, <3>5 DEF CellsInv
  <2> QED
    BY <2>1, <2>2
<1> QED
  BY <1>1, <1>2, PTL DEF Spec

\* symDescString keeps to its types; the ordinals it looks up are from 1 to 253.
THEOREM TypeCorrect == Spec => []TypeOK
<1>1. CellsInv => TypeOK
  BY DEF CellsInv
<1> QED
  BY <1>1, CellsInvariant, PTL

\* Each bit of Desc is shown exactly once by the time the cell is complete.
THEOREM EachBitOnce == Spec => []BitsOnce
<1>1. CellsInv => BitsOnce
  BY DEF CellsInv, SharedOut, StillThere, BitsOnce
<1> QED
  BY <1>1, CellsInvariant, PTL

\* Alignments, reference types and ordinals are shown with all their bits, flags only for the
\* symbols and files they are defined for, and libs[ord-1] is never read out of bounds.
THEOREM AllLinesRight == Spec => []LinesRight
<1>1. CellsInv => FieldsWhole
  BY DEF CellsInv, LineRight, FieldsWhole
<1>2. CellsInv => FlagsApply
  BY DEF CellsInv, LineRight, FlagsApply
<1>3. CellsInv => LibrariesExist
  BY DEF CellsInv, LineRight, LibrariesExist
<1>4. CellsInv => LinesRight
  BY <1>1, <1>2, <1>3 DEF LinesRight
<1> QED
  BY <1>4, CellsInvariant, PTL

-----------------------------------------------------------------------------
(* The Desc and the Value column decide alike which symbols are common.      *)

HasAlignment == \E k \in Lines : vals[k].label = "alignment"

\* From the first block on, a line with an alignment says that the symbol is a common one.
AlignmentOfCommons == pc > 1 /\ sym.stab = NoStab => (HasAlignment <=> Common)

\* The blocks after the first print no alignment.
LEMMA NoAlignmentLater ==
    ASSUME Thumb \/ Dynamic \/ Strip \/ Weak \/ RefToWeak \/ High \/ AltEntry \/ Rest
    PROVE  /\ pc > 1 /\ file' = file /\ sym' = sym
           /\ \/ vals' = vals \o <<>>
              \/ \E line : vals' = vals \o <<line>> /\ line.label # "alignment"
<1> DEFINE Later == /\ file' = file /\ sym' = sym
                    /\ \/ vals' = vals \o <<>>
                       \/ \E line : vals' = vals \o <<line>> /\ line.label # "alignment"
<1>1. pc > 1
  BY DEF Thumb, Dynamic, Strip, Weak, RefToWeak, High, AltEntry, Rest
<1>2. ASSUME NEW label, NEW bit, Flag(label, bit), label # "alignment" PROVE Later
  <2>1. Line(label, {bit}).label # "alignment"
    BY <1>2 DEF Line
  <2> QED
    BY <1>2, <2>1 DEF Flag, Skip, Done
<1>3. Skip => Later
  BY DEF Skip, Done
<1>4. ASSUME Library PROVE Later
  <2> DEFINE v == desc \cap (8..15)
             line == [label |-> "ordinal", bits |-> v, lib |-> LibraryOf(Ordinal(v))]
  <2>1. vals' = vals \o <<line>> /\ file' = file /\ sym' = sym
    BY <1>4 DEF Library, Done
  <2>2. line.label # "alignment"
    OBVIOUS
  <2> HIDE DEF line
  <2> QED
    BY <2>1, <2>2
<1>5. ASSUME Done(<<Line("??", desc)>>, desc) PROVE Later
  <2>1. Line("??", desc).label # "alignment"
    BY DEF Line
  <2> QED
    BY <1>5, <2>1 DEF Done
<1> HIDE DEF Later
<1>6. Later
  BY <1>2, <1>3, <1>4, <1>5 DEF Thumb, Dynamic, Strip, Weak, RefToWeak, High, AltEntry, Rest
<1> QED
  BY <1>1, <1>6 DEF Later

\* A line at the end decides nothing about the lines before.
LEMMA LaterLine ==
    ASSUME CellsInv, NEW line, vals' = vals \o <<line>>, line.label # "alignment"
    PROVE  HasAlignment' <=> HasAlignment
<1>1. vals \in Seq(LineType)
  BY DEF CellsInv, TypeOK, LineType
<1>2. /\ Len(vals') = Len(vals) + 1 /\ Len(vals) \in Nat
      /\ vals'[Len(vals) + 1] = line
      /\ \A k \in 1..Len(vals) : vals'[k] = vals[k]
  BY <1>1
<1>3. 1..Len(vals') = 1..Len(vals) \cup {Len(vals) + 1}
  BY <1>2
<1> QED
  BY <1>2, <1>3 DEF HasAlignment, Lines

\* The first block prints an alignment of a common symbol and of no other.
LEMMA FirstBlock == ASSUME CellsInv, CommonOrReference PROVE AlignmentOfCommons'
<1>1. vals = <<>> /\ file' = file /\ sym' = sym
  BY DEF CellsInv, StillThere, CommonOrReference, Skip, Field, Done
<1>2. Common => Undefined
  BY DEF Common, Undefined
<1>3. CASE ~Undefined
  <2>1. vals' = <<>>
    BY <1>1, <1>3 DEF CommonOrReference, Skip, Done
  <2> QED
    BY <1>1, <1>2, <1>3, <2>1 DEF AlignmentOfCommons, HasAlignment, Lines, Common
<1>4. CASE Undefined
  <2> DEFINE label == IF Common THEN "alignment" ELSE "REFERENCE_TYPE"
             mask == IF Common THEN 8..11 ELSE 0..2
             line == Line(label, desc \cap mask)
  <2>1. vals' = <<line>>
    <3>1. Field(label, mask)
      BY <1>4 DEF CommonOrReference
    <3> QED
      BY <1>1, <3>1 DEF Field, Done
  <2>2. line.label = label
    BY DEF Line
  <2> HIDE DEF line
  <2>3. Len(vals') = 1 /\ vals'[1] = line /\ 1..1 = {1}
    BY <2>1
  <2>4. HasAlignment' <=> Common
    BY <2>2, <2>3 DEF HasAlignment, Lines
  <2> QED
    BY <1>1, <2>4 DEF AlignmentOfCommons, Common
<1> QED
  BY <1>3, <1>4

\* In an object file the symbols with an alignment in the Desc column are those with a size
\* in the Value column, although the two columns ask different questions.
THEOREM ColumnsAgree == Spec => []CommonsAgree
<1>1. Init => AlignmentOfCommons
  BY DEF Init, AlignmentOfCommons
<1>2. CellsInv /\ AlignmentOfCommons /\ [Next]_vars => AlignmentOfCommons'
  <2> SUFFICES ASSUME CellsInv, AlignmentOfCommons, [Next]_vars PROVE AlignmentOfCommons'
    OBVIOUS
  <2>1. CASE Stab
    BY <2>1 DEF Stab, AlignmentOfCommons
  <2>2. CASE CommonOrReference
    BY <2>2, FirstBlock
  <2>3. CASE Thumb \/ Dynamic \/ Strip \/ Weak \/ RefToWeak \/ High \/ AltEntry \/ Rest
    <3>1. /\ pc > 1 /\ file' = file /\ sym' = sym
          /\ \/ vals' = vals \o <<>>
             \/ \E line : vals' = vals \o <<line>> /\ line.label # "alignment"
      BY <2>3, NoAlignmentLater
    <3>2. HasAlignment' <=> HasAlignment
      <4>1. vals \in Seq(LineType)
        BY DEF CellsInv, TypeOK, LineType
      <4>2. CASE vals' = vals \o <<>>
        <5>1. vals' = vals
          BY <4>1, <4>2
        <5> QED
          BY <5>1 DEF HasAlignment, Lines
      <4> QED
        BY <3>1, <4>2, LaterLine
    <3> QED
      BY <3>1, <3>2 DEF AlignmentOfCommons, Common
  <2>4. CASE UNCHANGED vars
    BY <2>4 DEF vars, AlignmentOfCommons, HasAlignment, Lines, Common
  <2> QED
    BY <2>1, <2>2, <2>3, <2>4 DEF Next
<1>3. CellsInv /\ AlignmentOfCommons => CommonsAgree
  <2> SUFFICES ASSUME CellsInv, AlignmentOfCommons, pc = End, file.obj, sym.stab = NoStab
               PROVE  HasAlignment <=> ValueCell = "size"
    BY DEF CommonsAgree, HasAlignment
  <2>1. HasAlignment <=> sym.type = "N_UNDF" /\ ~sym.zero
    BY DEF AlignmentOfCommons, Common, End
  <2>2. sym.stab \notin StabTypes /\ sym \in Symbol
    BY CellsAssumption DEF CellsInv, TypeOK
  <2>3. sym.stab \notin {"N_OSO", "N_ENSYM", "N_FUN", "N_SO", "N_GSYM"} /\ sym.zero \in BOOLEAN
    BY <2>2 DEF StabTypes, QuietStabs, Symbol
  <2>4. ValueCell = "size" <=> sym.type = "N_UNDF" /\ ~sym.zero
    BY <2>3 DEF ValueCell, Undefined
  <2> QED
    BY <2>1, <2>4
<1> QED
  BY <1>1, <1>2, <1>3, CellsInvariant, PTL DEF Spec

-----------------------------------------------------------------------------
(* The value of a symbol.                                                    *)

\* A set of numbers that is not empty has a least one.
LEMMA FirstOf == ASSUME NEW S \in SUBSET Nat, S # {} PROVE \E x \in S : \A y \in S : x <= y
<1>1. PICK x \in S : \A y \in S : ~(<<y, x>> \in OpToRel(<, Nat))
  BY NatLessThanWellFounded, WFMin
<1>2. \A y \in S : ~(y < x)
  BY <1>1 DEF OpToRel
<1> QED
  BY <1>2

\* What holds of 0 and of every successor holds of all numbers.
LEMMA AllNumbers ==
    ASSUME NEW S \in SUBSET Nat, 0 \in S, \A n \in S : n + 1 \in S PROVE \A n \in Nat : n \in S
<1> SUFFICES ASSUME Nat \ S # {} PROVE FALSE
  OBVIOUS
<1>1. PICK x \in Nat \ S : \A y \in Nat \ S : x <= y
  BY FirstOf
<1>2. x - 1 \in S
  BY <1>1
<1> QED
  BY <1>1, <1>2

\* An element of a sequence is of the sequence's kind.
LEMMA ElementIn == ASSUME NEW S, NEW s \in Seq(S), NEW k \in 1..Len(s) PROVE s[k] \in S
  OBVIOUS

\* The types a type is made of are types, and less deep.
LEMMA PartIsType ==
    ASSUME NEW t \in Types, NEW p \in MadeOf(t)
    PROVE  p \in Types /\ Nesting[p] \in Nat /\ Nesting[t] \in Nat /\ Nesting[p] < Nesting[t]
<1>1. IsType(t) /\ Nesting \in [Types -> Nat] /\ Nesting[p] < Nesting[t]
  BY TypesAssumption
<1>2. CASE t.kind \in Wrappers \cup {"array"}
  BY <1>1, <1>2 DEF MadeOf, IsType
<1>3. CASE t.kind \notin Wrappers \cup {"array"}
  <2>1. t.kind = "struct" /\ p \in {t.fields[k].type : k \in 1..Len(t.fields)}
    BY <1>3 DEF MadeOf
  <2>2. PICK k \in 1..Len(t.fields) : p = t.fields[k].type
    BY <2>1
  <2>3. t.fields \in Seq([offset: Int64, type: Types, bits: Nat])
    BY <1>1, <1>3, <2>1 DEF IsType
  <2>4. t.fields[k] \in [offset: Int64, type: Types, bits: Nat]
    BY <2>3, ElementIn
  <2> QED
    BY <1>1, <2>2, <2>4
<1> QED
  BY <1>2, <1>3

\* What holds of a type when it holds of the types it is made of holds of all types.
LEMMA AllTypes ==
    ASSUME NEW S \in SUBSET Types, \A t \in Types : (\A p \in MadeOf(t) : p \in S) => t \in S
    PROVE  \A t \in Types : t \in S
<1> SUFFICES ASSUME Types \ S # {} PROVE FALSE
  OBVIOUS
<1> DEFINE levels == {Nesting[t] : t \in Types \ S}
<1>1. PICK n \in levels : \A m \in levels : n <= m
  <2>1. levels \in SUBSET Nat /\ levels # {}
    BY TypesAssumption
  <2> QED
    BY <2>1, FirstOf
<1>2. PICK t \in Types \ S : Nesting[t] = n
  BY <1>1
<1>3. ASSUME NEW p \in MadeOf(t) PROVE p \in S
  <2>1. p \in Types /\ Nesting[p] < Nesting[t] /\ Nesting[p] \in Nat /\ Nesting[t] \in Nat
    BY PartIsType
  <2>2. Nesting[p] \in levels \/ p \in S
    BY <2>1
  <2> QED
    BY <1>1, <1>2, <2>1, <2>2
<1> QED
  BY <1>2, <1>3

\* What F makes of a function of D is, at each point, decided by the function's values at
\* the points that are lower in h.
GoesDown(F, D, R, h) ==
    /\ R # {} /\ h \in [D -> Nat] /\ F \in [[D -> R] -> [D -> R]]
    /\ \A f, g \in [D -> R], x \in D :
          (\A y \in D : h[y] < h[x] => f[y] = g[y]) => F[f][x] = F[g][x]

\* A recursion that goes down in h is a definition: F has a fixed point.
LEMMA Recursion ==
    ASSUME NEW D, NEW R, NEW h, NEW F, GoesDown(F, D, R, h)
    PROVE  \E f \in [D -> R] : F[f] = f
<1> USE DEF GoesDown
<1> DEFINE Fixed(f, n) == \A x \in D : h[x] < n => F[f][x] = f[x]
           Unique(n) == \A f, g \in [D -> R] :
               Fixed(f, n) /\ Fixed(g, n) => \A x \in D : h[x] < n => f[x] = g[x]
           S == {n \in Nat : (\E f \in [D -> R] : Fixed(f, n)) /\ Unique(n)}
<1>1. 0 \in S
  <2>1. PICK r \in R : TRUE
    OBVIOUS
  <2>2. [x \in D |-> r] \in [D -> R]
    OBVIOUS
  <2>3. [D -> R] # {}
    BY <2>2
  <2> QED
    BY <2>3
<1>2. ASSUME NEW n \in S PROVE n + 1 \in S
  <2>1. PICK f \in [D -> R] : Fixed(f, n)
    OBVIOUS
  <2>2. F[f] \in [D -> R] /\ Fixed(F[f], n + 1)
    <3>1. F[f] \in [D -> R]
      OBVIOUS
    <3>2. ASSUME NEW x \in D, h[x] < n + 1 PROVE F[F[f]][x] = F[f][x]
      <4>1. \A y \in D : h[y] < h[x] => h[y] < n
        BY <3>2
      <4>2. \A y \in D : h[y] < h[x] => F[f][y] = f[y]
        BY <2>1, <4>1
      <4> QED
        BY <3>1, <4>2
    <3> QED
      BY <3>1, <3>2
  <2>3. ASSUME NEW e \in [D -> R], NEW g \in [D -> R], Fixed(e, n + 1), Fixed(g, n + 1),
               NEW x \in D, h[x] < n + 1
        PROVE  e[x] = g[x]
    <3>1. \A y \in D : h[y] < n => h[y] < n + 1
      OBVIOUS
    <3>2. Fixed(e, n) /\ Fixed(g, n)
      BY <2>3, <3>1
    <3>3. \A y \in D : h[y] < n => e[y] = g[y]
      BY <3>2
    <3>4. \A y \in D : h[y] < h[x] => e[y] = g[y]
      BY <2>3, <3>3
    <3>5. F[e][x] = F[g][x]
      BY <3>4
    <3> QED
      BY <2>3, <3>5
  <2>4. Unique(n + 1)
    BY <2>3
  <2>5. n + 1 \in Nat /\ (\E e \in [D -> R] : Fixed(e, n + 1))
    BY <2>2
  <2> QED
    BY <2>4, <2>5
<1>3. \A n \in Nat : n \in S
  <2> HIDE DEF S
  <2>1. S \in SUBSET Nat
    BY DEF S
  <2> QED
    BY <1>1, <1>2, <2>1, AllNumbers
<1> DEFINE upTo == [n \in Nat |-> CHOOSE f \in [D -> R] : Fixed(f, n)]
           fix == [x \in D |-> upTo[h[x] + 1][x]]
<1>4. ASSUME NEW n \in Nat PROVE upTo[n] \in [D -> R] /\ Fixed(upTo[n], n) /\ Unique(n)
  <2>1. n \in S
    BY <1>3
  <2> QED
    BY <2>1
<1> HIDE DEF upTo
<1>5. fix \in [D -> R]
  BY <1>4
<1>6. ASSUME NEW n \in Nat, NEW y \in D, h[y] < n PROVE fix[y] = upTo[n][y]
  <2>1. h[y] \in Nat /\ h[y] + 1 \in Nat
    OBVIOUS
  <2>2. Fixed(upTo[n], h[y] + 1)
    <3>1. \A x \in D : h[x] < h[y] + 1 => h[x] < n
      BY <1>6
    <3> QED
      BY <1>4, <3>1
  <2>3. Fixed(upTo[h[y] + 1], h[y] + 1) /\ Unique(h[y] + 1)
        /\ upTo[h[y] + 1] \in [D -> R] /\ upTo[n] \in [D -> R]
    BY <1>4, <2>1
  <2>4. h[y] < h[y] + 1
    BY <2>1
  <2> QED
    BY <2>2, <2>3, <2>4
<1>7. ASSUME NEW x \in D PROVE F[fix][x] = fix[x]
  <2> DEFINE u == upTo[h[x] + 1]
  <2>1. h[x] \in Nat /\ h[x] + 1 \in Nat /\ h[x] < h[x] + 1
    OBVIOUS
  <2>2. u \in [D -> R] /\ Fixed(u, h[x] + 1)
    BY <1>4, <2>1
  <2>3. \A y \in D : h[y] < h[x] => fix[y] = u[y]
    <3>1. \A y \in D : h[y] < h[x] => h[y] < h[x] + 1
      BY <2>1
    <3> QED
      BY <1>6, <2>1, <3>1
  <2>4. F[fix][x] = F[u][x]
    BY <1>5, <2>2, <2>3
  <2>5. F[u][x] = u[x]
    BY <2>1, <2>2
  <2> QED
    BY <2>4, <2>5
<1>8. F[fix] = fix
  <2>1. F[fix] \in [D -> R]
    BY <1>5
  <2> QED
    BY <1>5, <1>7, <2>1
<1> QED
  BY <1>5, <1>8

\* A recursion from types to those they are made of is a definition.
LEMMA RecursionOverTypes ==
    ASSUME NEW R, R # {}, NEW F \in [[Types -> R] -> [Types -> R]],
           \A f, g \in [Types -> R], t \in Types :
               (\A p \in MadeOf(t) : f[p] = g[p]) => F[f][t] = F[g][t]
    PROVE  \E f \in [Types -> R] : F[f] = f
<1>1. GoesDown(F, Types, R, Nesting)
  BY PartIsType, TypesAssumption DEF GoesDown
<1> QED
  BY <1>1, Recursion

\* The int64 are numbers, 0 and those up to Half among them.
LEMMA Int64Is ==
    /\ Half \in Nat /\ Half > 0
    /\ \A n \in Int64 : n \in Int /\ -Half <= n /\ n < Half
    /\ \A n \in Int : -Half <= n /\ n < Half => n \in Int64
    /\ 0 \in Int64
  BY DwarfAssumption DEF Int64

\* A number that is less than two moduli is reduced by at most one.
LEMMA OneModulus ==
    ASSUME NEW m \in Nat, m > 0, NEW x \in Int, m <= x, x < m + m PROVE x % m = x - m
  OBVIOUS

\* What is computed of int64 is one, the number itself if that is one; the sum of two that is
\* too large is less than both.
LEMMA WrappedIs ==
    ASSUME NEW n \in Int
    PROVE  /\ Wrapped(n) \in Int64
           /\ n \in Int64 => Wrapped(n) = n
           /\ n >= Half /\ n < 2 * Half => Wrapped(n) = n - 2 * Half
<1> DEFINE W2 == 2 * Half
<1>1. W2 \in Nat /\ W2 > 0 /\ n + Half \in Int
  BY Int64Is
<1>2. (n + Half) % W2 \in 0..(W2 - 1)
  <2> HIDE DEF W2
  <2> QED
    BY <1>1
<1>3. ASSUME n + Half \in 0..(W2 - 1) PROVE (n + Half) % W2 = n + Half
  <2> HIDE DEF W2
  <2> QED
    BY <1>1, <1>3
<1>4. ASSUME W2 <= n + Half, n + Half < W2 + W2 PROVE (n + Half) % W2 = (n + Half) - W2
  <2> HIDE DEF W2
  <2> QED
    BY <1>1, <1>4, OneModulus
<1> QED
  BY <1>2, <1>3, <1>4, Int64Is DEF Wrapped

\* What a type is made of.
LEMMA Parts ==
    ASSUME NEW t \in Types
    PROVE  /\ t.kind \in Wrappers \cup {"array"} => t.of \in Types /\ MadeOf(t) = {t.of}
           /\ t.kind = "array" => t.count \in Int64 /\ t.count \in Int
           /\ t.kind \notin Wrappers \cup {"array"} => t.size \in Int64 /\ t.size \in Int
           /\ t.kind = "struct" =>
                /\ Len(t.fields) \in Nat
                /\ \A k \in 1..Len(t.fields) :
                     /\ t.fields[k].type \in MadeOf(t) /\ t.fields[k].type \in Types
                     /\ t.fields[k].offset \in Int64 /\ t.fields[k].offset \in Int
<1>1. IsType(t)
  BY TypesAssumption
<1>2. CASE t.kind \in Wrappers \cup {"array"}
  BY <1>1, <1>2, Int64Is DEF IsType, MadeOf, Wrappers
<1>3. CASE t.kind \notin Wrappers \cup {"array"}
  <2>1. t.size \in Int64 /\ t.size \in Int
    BY <1>1, <1>3, Int64Is DEF IsType
  <2>2. CASE t.kind = "struct"
    <3>1. t.fields \in Seq([offset: Int64, type: Types, bits: Nat])
      BY <1>1, <1>3, <2>2 DEF IsType
    <3>2. ASSUME NEW k \in 1..Len(t.fields)
          PROVE  /\ t.fields[k].type \in MadeOf(t) /\ t.fields[k].type \in Types
                 /\ t.fields[k].offset \in Int64 /\ t.fields[k].offset \in Int
      <4>1. t.fields[k] \in [offset: Int64, type: Types, bits: Nat]
        BY <3>1, ElementIn
      <4> QED
        BY <1>3, <2>2, <4>1, Int64Is DEF MadeOf
    <3>3. Len(t.fields) \in Nat
      BY <3>1
    <3> QED
      BY <1>3, <2>1, <2>2, <3>2, <3>3
  <2> QED
    BY <1>3, <2>1, <2>2
<1> QED
  BY <1>2, <1>3

\* Size of a type, where f is the size of those it is made of.
SizeBy(f, t) ==
    IF t.kind \in Wrappers THEN f[t.of]
    ELSE IF t.kind = "array" THEN Wrapped(t.count * f[t.of])
    ELSE t.size

\* The size of a type made of types with a size is an int64.
LEMMA SizeByInt ==
    ASSUME NEW f, NEW t \in Types, \A p \in MadeOf(t) : f[p] \in Int64 PROVE SizeBy(f, t) \in Int64
<1>1. t.kind = "array" => t.count * f[t.of] \in Int
  BY Parts, Int64Is
<1> QED
  BY <1>1, Parts, WrappedIs DEF SizeBy

\* The sizes are numbers, and what Size says they are.
LEMMA SizeIs == \A t \in Types : Size[t] \in Int64 /\ Size[t] \in Int /\ Size[t] = SizeBy(Size, t)
<1> DEFINE F == [f \in [Types -> Int64] |-> [t \in Types |-> SizeBy(f, t)]]
<1>1. F \in [[Types -> Int64] -> [Types -> Int64]]
  <2>1. ASSUME NEW f \in [Types -> Int64], NEW t \in Types PROVE SizeBy(f, t) \in Int64
    <3>1. \A p \in MadeOf(t) : f[p] \in Int64
      BY PartIsType
    <3> QED
      BY <3>1, SizeByInt
  <2> QED
    BY <2>1
<1>2. \A f, g \in [Types -> Int64], t \in Types :
        (\A p \in MadeOf(t) : f[p] = g[p]) => F[f][t] = F[g][t]
  BY Parts DEF SizeBy
<1>3. PICK f \in [Types -> Int64] : F[f] = f
  <2> HIDE DEF F
  <2>1. Int64 # {}
    BY Int64Is
  <2> QED
    BY <1>1, <1>2, <2>1, RecursionOverTypes
<1>4. f = [t \in Types |-> SizeBy(f, t)]
  BY <1>3
<1>5. Size = [t \in Types |-> SizeBy(Size, t)]
  BY <1>4, Zenon DEF Size, SizeBy
<1>6. \A t \in Types : Size[t] = SizeBy(Size, t)
  BY <1>5
<1> DEFINE S == {t \in Types : Size[t] \in Int64}
<1>7. \A t \in Types : (\A p \in MadeOf(t) : p \in S) => t \in S
  BY <1>6, SizeByInt
<1>8. \A t \in Types : t \in S
  <2> HIDE DEF S
  <2>1. S \in SUBSET Types
    BY DEF S
  <2> QED
    BY <1>7, <2>1, AllTypes
<1> QED
  BY <1>6, <1>8, Int64Is

\* The types that make up a type are types, and those of its parts and itself.
LEMMA PartsOfIs ==
    \A t \in Types : /\ PartsOf[t] \in SUBSET Types
                     /\ PartsOf[t] = {t} \cup UNION {PartsOf[p] : p \in MadeOf(t)}
<1> DEFINE By(f, t) == {t} \cup UNION {f[p] : p \in MadeOf(t)}
           R == SUBSET Types
           F == [f \in [Types -> R] |-> [t \in Types |-> By(f, t)]]
<1>1. F \in [[Types -> R] -> [Types -> R]]
  <2>1. ASSUME NEW f \in [Types -> R], NEW t \in Types PROVE By(f, t) \in R
    BY PartIsType
  <2> QED
    BY <2>1
<1>2. \A f, g \in [Types -> R], t \in Types :
        (\A p \in MadeOf(t) : f[p] = g[p]) => F[f][t] = F[g][t]
  OBVIOUS
<1>3. PICK f \in [Types -> R] : F[f] = f
  <2> HIDE DEF F, R
  <2>1. R # {}
    BY DEF R
  <2> QED
    BY <1>1, <1>2, <2>1, RecursionOverTypes
<1>4. f = [t \in Types |-> {t} \cup UNION {f[p] : p \in MadeOf(t)}]
  BY <1>3
<1>5. PartsOf = [t \in Types |-> {t} \cup UNION {PartsOf[p] : p \in MadeOf(t)}]
  BY <1>4, Zenon DEF PartsOf
<1>6. \A t \in Types : PartsOf[t] = By(PartsOf, t)
  BY <1>5
<1> DEFINE S == {t \in Types : PartsOf[t] \in R}
<1>7. \A t \in Types : (\A p \in MadeOf(t) : p \in S) => t \in S
  BY <1>6, PartIsType
<1>8. \A t \in Types : t \in S
  <2> HIDE DEF S
  <2>1. S \in SUBSET Types
    BY DEF S
  <2> QED
    BY <1>7, <2>1, AllTypes
<1> QED
  BY <1>6, <1>8

\* The scalars' places and kinds.
Leaves == [from: Int, size: Int, kind: {t.kind : t \in Types} \cup {"float"}]

\* Scalars further on are scalars.
LEMMA ShiftLeaves ==
    ASSUME NEW leaves \in SUBSET Leaves, NEW d \in Int
    PROVE  Shift(leaves, d) \in SUBSET Leaves
  BY DEF Shift, Leaves

ScalarsBy(f, t) ==
    IF t.kind \in Wrappers THEN f[t.of]
    ELSE IF t.kind = "struct" THEN
        UNION {Shift(f[t.fields[k].type], t.fields[k].offset) : k \in 1..Len(t.fields)}
    ELSE IF t.kind = "array" THEN
        UNION {Shift(f[t.of], k * Size[t.of]) : k \in 0..(t.count - 1)}
    ELSE IF t.kind = "complex" THEN
        {[from |-> k, size |-> t.size \div 2, kind |-> "float"] : k \in {0, t.size \div 2}}
    ELSE {[from |-> 0, size |-> t.size, kind |-> t.kind]}

\* The scalars of a type made of types with scalars are scalars.
LEMMA ScalarsByLeaves ==
    ASSUME NEW f, NEW t \in Types, \A p \in MadeOf(t) : f[p] \in SUBSET Leaves
    PROVE  ScalarsBy(f, t) \in SUBSET Leaves
<1>1. CASE t.kind \in Wrappers
  BY <1>1, Parts DEF ScalarsBy
<1>2. CASE t.kind = "struct"
  <2>1. \A k \in 1..Len(t.fields) :
          Shift(f[t.fields[k].type], t.fields[k].offset) \in SUBSET Leaves
    BY <1>2, Parts, ShiftLeaves
  <2> QED
    BY <1>2, <2>1 DEF ScalarsBy, Wrappers
<1>3. CASE t.kind = "array"
  <2>1. \A k \in 0..(t.count - 1) : Shift(f[t.of], k * Size[t.of]) \in SUBSET Leaves
    BY <1>3, Parts, SizeIs, ShiftLeaves
  <2> QED
    BY <1>3, <2>1 DEF ScalarsBy, Wrappers
<1>4. CASE t.kind \notin Wrappers \cup {"struct", "array"}
  <2>1. t.size \in Int /\ t.size \div 2 \in Int
    BY <1>4, Parts
  <2> QED
    BY <1>4, <2>1 DEF ScalarsBy, Leaves
<1> QED
  BY <1>1, <1>2, <1>3, <1>4

\* What the scalars of a type are is decided by those of the types it is made of.
LEMMA ScalarsBySame ==
    ASSUME NEW f, NEW g, NEW t \in Types, \A p \in MadeOf(t) : f[p] = g[p]
    PROVE  ScalarsBy(f, t) = ScalarsBy(g, t)
<1>1. t.kind \in Wrappers \cup {"array"} => f[t.of] = g[t.of]
  BY Parts
<1>2. t.kind = "struct" => \A k \in 1..Len(t.fields) : f[t.fields[k].type] = g[t.fields[k].type]
  BY Parts
<1>3. CASE t.kind \in Wrappers
  BY <1>1, <1>3 DEF ScalarsBy
<1>4. CASE t.kind = "struct"
  <2> DEFINE of(h) == {Shift(h[t.fields[k].type], t.fields[k].offset) : k \in 1..Len(t.fields)}
  <2>1. of(f) = of(g)
    BY <1>2, <1>4
  <2>2. ScalarsBy(f, t) = UNION of(f) /\ ScalarsBy(g, t) = UNION of(g)
    BY <1>4, Zenon DEF ScalarsBy, Wrappers
  <2> QED
    BY <2>1, <2>2
<1>5. CASE t.kind = "array"
  BY <1>1, <1>5, Zenon DEF ScalarsBy, Wrappers
<1>6. CASE t.kind \notin Wrappers \cup {"struct", "array"}
  BY <1>6, Zenon DEF ScalarsBy
<1> QED
  BY <1>3, <1>4, <1>5, <1>6

\* The scalars of a type are what Scalars says they are.
LEMMA ScalarsIs ==
    \A t \in Types : Scalars[t] \in SUBSET Leaves /\ Scalars[t] = ScalarsBy(Scalars, t)
<1> DEFINE R == SUBSET Leaves
           F == [f \in [Types -> R] |-> [t \in Types |-> ScalarsBy(f, t)]]
<1>1. F \in [[Types -> R] -> [Types -> R]]
  <2>1. ASSUME NEW f \in [Types -> R], NEW t \in Types PROVE ScalarsBy(f, t) \in R
    BY PartIsType, ScalarsByLeaves
  <2> QED
    BY <2>1
<1>2. \A f, g \in [Types -> R], t \in Types :
        (\A p \in MadeOf(t) : f[p] = g[p]) => F[f][t] = F[g][t]
  BY ScalarsBySame
<1>3. PICK f \in [Types -> R] : F[f] = f
  <2> HIDE DEF F, R
  <2>1. R # {}
    BY DEF R
  <2> QED
    BY <1>1, <1>2, <2>1, RecursionOverTypes
<1>4. f = [t \in Types |-> ScalarsBy(f, t)]
  BY <1>3
<1>5. Scalars = [t \in Types |-> ScalarsBy(Scalars, t)]
  BY <1>4, Zenon DEF Scalars, ScalarsBy
<1>6. \A t \in Types : Scalars[t] = ScalarsBy(Scalars, t)
  BY <1>5
<1> DEFINE S == {t \in Types : Scalars[t] \in R}
<1>7. \A t \in Types : (\A p \in MadeOf(t) : p \in S) => t \in S
  BY <1>6, ScalarsByLeaves
<1>8. \A t \in Types : t \in S
  <2> HIDE DEF S
  <2>1. S \in SUBSET Types
    BY DEF S
  <2> QED
    BY <1>7, <2>1, AllTypes
<1> QED
  BY <1>6, <1>8

Results == [res: {"ok", "fail", "panic"}, leaves: SUBSET Leaves]

\* What decodeValue returns for parts in turn: all of them, or the first that is not ok.
LEMMA InTurnIs ==
    ASSUME NEW m \in Int, NEW parts, DOMAIN parts = 1..m, \A k \in 1..m : parts[k] \in Results
    PROVE  /\ InTurn(parts) \in Results
           /\ InTurn(parts).res = "ok" => \A k \in 1..m : parts[k].res = "ok"
           /\ (\A k \in 1..m : parts[k].res = "ok") =>
                 InTurn(parts) = Ok(UNION {parts[k].leaves : k \in 1..m})
           /\ InTurn(parts).res # "ok" => \E k \in 1..m : InTurn(parts) = parts[k]
<1> DEFINE bad == {k \in DOMAIN parts : parts[k].res # "ok"}
<1>1. CASE bad = {}
  <2>1. InTurn(parts) = Ok(UNION {parts[k].leaves : k \in 1..m})
    BY <1>1 DEF InTurn
  <2>2. UNION {parts[k].leaves : k \in 1..m} \in SUBSET Leaves
    BY DEF Results
  <2>3. InTurn(parts) \in Results /\ InTurn(parts).res = "ok"
    BY <2>1, <2>2 DEF Ok, Results
  <2> QED
    BY <1>1, <2>1, <2>3
<1>2. CASE bad # {}
  <2>1. PICK k \in bad : \A j \in bad : k <= j
    <3>1. bad \in SUBSET Nat
      OBVIOUS
    <3> QED
      BY <1>2, <3>1, FirstOf
  <2> DEFINE first == CHOOSE i \in bad : \A j \in bad : i <= j
  <2>2. first \in bad
    BY <2>1
  <2>3. InTurn(parts) = parts[first]
    BY <1>2 DEF InTurn
  <2> HIDE DEF first
  <2> QED
    BY <2>2, <2>3
<1> QED
  BY <1>1, <1>2

\* A call for a type, and what it says.
LEMMA CallIs ==
    ASSUME NEW t \in Types, NEW n \in Nat, NEW cap \in Nat, NEW z \in BOOLEAN
    PROVE  LET c == Call(t, n, cap, z)
           IN c \in Calls /\ c.type = t /\ c.n = n /\ c.cap = cap /\ c.zero = z
  BY DEF Call, Calls

\* A result put further on is a result of the same outcome.
LEMMA PlacedIs ==
    ASSUME NEW r \in Results, NEW d \in Int
    PROVE  /\ Placed(r, d) \in Results /\ Placed(r, d).res = r.res
           /\ Placed(r, d).leaves = Shift(r.leaves, d)
  BY ShiftLeaves DEF Placed, Results

\* What decodeValue returns for a type that is not made of others is a result.
LEMMA ScalarResult ==
    ASSUME NEW t \in Types, t.size \in Int, NEW n, NEW z PROVE Scalar(n, t, z) \in Results
<1>1. t.size \div 2 \in Int
  OBVIOUS
<1>2. LeavesOf(t) \in SUBSET Leaves
  BY <1>1 DEF LeavesOf, Leaf, Leaves
<1> QED
  BY <1>2 DEF Scalar, Ok, Fail, Results

\* The calls for the types that a type is made of.
Below(t) == {c \in Calls : c.type \in MadeOf(t)}

\* The calls decodeValue makes are for the types that its own type is made of.
LEMMA CallBelow ==
    ASSUME NEW t \in Types, NEW p \in MadeOf(t), NEW n \in Nat, NEW cap \in Nat, NEW z \in BOOLEAN
    PROVE  p \in Types /\ Call(p, n, cap, z) \in Below(t)
<1>1. p \in Types
  BY PartIsType
<1> QED
  BY <1>1, CallIs DEF Below

\* A slice that is none panics, and what is decoded of another is put in its place.
LEMMA PartIs ==
    ASSUME NEW f, NEW p, NEW from \in Int, NEW to \in Int, NEW cap \in Nat
    PROVE  \/ Part(f, p, from, to, cap) = Panic /\ ~(0 <= from /\ from <= to /\ to <= cap)
           \/ /\ from \in Nat /\ to \in Nat /\ from <= to /\ to <= cap
              /\ to - from \in Nat /\ cap - from \in Nat /\ to - from <= cap - from
              /\ Part(f, p, from, to, cap) = Placed(f[Call(p, to - from, cap - from, FALSE)], from)
<1>1. CASE 0 <= from /\ from <= to /\ to <= cap
  <2>1. /\ from \in Nat /\ to \in Nat /\ from <= to /\ to <= cap
        /\ to - from \in Nat /\ cap - from \in Nat /\ to - from <= cap - from
    BY <1>1
  <2>2. Part(f, p, from, to, cap) = Placed(f[Call(p, to - from, cap - from, FALSE)], from)
    BY <1>1, Zenon DEF Part
  <2> QED
    BY <2>1, <2>2
<1>2. CASE ~(0 <= from /\ from <= to /\ to <= cap)
  <2>1. Part(f, p, from, to, cap) = Panic
    BY <1>2, Zenon DEF Part
  <2> QED
    BY <1>2, <2>1
<1> QED
  BY <1>1, <1>2

\* What is returned for a part is a result if what decodeValue calls returns results,
LEMMA PartResult ==
    ASSUME NEW f, NEW t \in Types, \A c \in Below(t) : f[c] \in Results, NEW p \in MadeOf(t),
           NEW from \in Int, NEW to \in Int, NEW cap \in Nat
    PROVE  Part(f, p, from, to, cap) \in Results
<1> DEFINE part == Part(f, p, from, to, cap)
<1>0. \/ part = Panic
      \/ /\ to - from \in Nat /\ cap - from \in Nat
         /\ part = Placed(f[Call(p, to - from, cap - from, FALSE)], from)
  <2>1. CASE 0 <= from /\ from <= to /\ to <= cap
    <3>1. to - from \in Nat /\ cap - from \in Nat
      BY <2>1
    <3>2. part = Placed(f[Call(p, to - from, cap - from, FALSE)], from)
      BY <2>1, Zenon DEF Part
    <3> QED
      BY <3>1, <3>2
  <2>2. CASE ~(0 <= from /\ from <= to /\ to <= cap)
    BY <2>2, Zenon DEF Part
  <2> QED
    BY <2>1, <2>2
<1>1. CASE part = Panic
  BY <1>1 DEF Panic, Results
<1>2. CASE part # Panic
  <2>1. /\ to - from \in Nat /\ cap - from \in Nat
        /\ part = Placed(f[Call(p, to - from, cap - from, FALSE)], from)
    BY <1>0, <1>2
  <2>2. f[Call(p, to - from, cap - from, FALSE)] \in Results
    BY <2>1, CallBelow
  <2> QED
    BY <2>1, <2>2, PlacedIs
<1> QED
  BY <1>1, <1>2

\* ... and decided by what it returns.
LEMMA PartSame ==
    ASSUME NEW f, NEW g, NEW t \in Types, \A c \in Below(t) : f[c] = g[c], NEW p \in MadeOf(t),
           NEW from \in Int, NEW to \in Int, NEW cap \in Nat
    PROVE  Part(f, p, from, to, cap) = Part(g, p, from, to, cap)
<1>1. CASE 0 <= from /\ from <= to /\ to <= cap
  <2>1. f[Call(p, to - from, cap - from, FALSE)] = g[Call(p, to - from, cap - from, FALSE)]
    <3>1. to - from \in Nat /\ cap - from \in Nat
      BY <1>1
    <3> QED
      BY <3>1, CallBelow
  <2> QED
    BY <1>1, <2>1 DEF Part
<1> QED
  BY <1>1 DEF Part

\* Where a field ends and where an element starts and ends.
FieldEnd(field) == Wrapped(field.offset + Size[field.type])
ElementFrom(t, k) == Wrapped(Size[t.of] * (k - 1))
ElementTo(t, k) == Wrapped(ElementFrom(t, k) + Size[t.of])

LEMMA FieldEndIs ==
    ASSUME NEW field, field.type \in Types, field.offset \in Int
    PROVE  FieldEnd(field) \in Int64 /\ FieldEnd(field) \in Int
<1>1. Size[field.type] \in Int
  BY SizeIs
<1> QED
  BY <1>1, WrappedIs, Int64Is DEF FieldEnd

LEMMA ElementEnds ==
    ASSUME NEW t, t.of \in Types, NEW k \in Int
    PROVE  /\ ElementFrom(t, k) \in Int64 /\ ElementFrom(t, k) \in Int
           /\ ElementTo(t, k) \in Int64 /\ ElementTo(t, k) \in Int
<1>1. Size[t.of] \in Int
  BY SizeIs
<1>2. Size[t.of] * (k - 1) \in Int
  BY <1>1
<1>3. ElementFrom(t, k) \in Int64 /\ ElementFrom(t, k) \in Int
  BY <1>2, WrappedIs, Int64Is DEF ElementFrom
<1>4. ElementFrom(t, k) + Size[t.of] \in Int
  BY <1>1, <1>3
<1> QED
  BY <1>3, <1>4, WrappedIs, Int64Is DEF ElementTo

\* A field and an element are such parts.
LEMMA FieldPart ==
    ASSUME NEW f, NEW n, NEW cap, NEW field
    PROVE  FieldValue(f, n, cap, field) =
             IF n < FieldEnd(field) \/ field.bits # 0 THEN Fail
             ELSE Part(f, field.type, field.offset, FieldEnd(field), cap)
  BY DEF FieldValue, FieldEnd

LEMMA ElementPart ==
    ASSUME NEW f, NEW cap, NEW k, NEW t
    PROVE  Element(f, cap, k, t) = Part(f, t.of, ElementFrom(t, k), ElementTo(t, k), cap)
  BY DEF Element, ElementFrom, ElementTo

\* What decodeValue returns is a result if what it calls returns results.
LEMMA DecodeByResult ==
    ASSUME NEW f, NEW t \in Types, \A c \in Below(t) : f[c] \in Results,
           NEW n \in Nat, NEW cap \in Nat, NEW z \in BOOLEAN
    PROVE  DecodeBy(f, t, n, cap, z) \in Results
<1>1. Fail \in Results /\ Panic \in Results /\ Ok({}) \in Results
  BY DEF Fail, Panic, Ok, Results
<1>2. CASE t.kind \in Wrappers
  <2>1. Call(t.of, n, cap, z) \in Below(t)
    BY <1>2, Parts, CallIs DEF Below
  <2> QED
    BY <1>2, <2>1 DEF DecodeBy
<1>3. CASE t.kind = "struct"
  <2> DEFINE parts == [k \in 1..Len(t.fields) |-> FieldValue(f, n, cap, t.fields[k])]
  <2>1. DOMAIN parts = 1..Len(t.fields) /\ Len(t.fields) \in Int
        /\ \A k \in 1..Len(t.fields) : parts[k] \in Results
    <3>1. ASSUME NEW k \in 1..Len(t.fields) PROVE FieldValue(f, n, cap, t.fields[k]) \in Results
      <4>1. /\ t.fields[k].type \in MadeOf(t) /\ t.fields[k].type \in Types
            /\ t.fields[k].offset \in Int
        BY <1>3, Parts
      <4>2. Part(f, t.fields[k].type, t.fields[k].offset, FieldEnd(t.fields[k]), cap) \in Results
        BY <4>1, FieldEndIs, PartResult
      <4> QED
        BY <1>1, <4>2, FieldPart
    <3> QED
      BY <1>3, <3>1, Parts
  <2>2. InTurn(parts) \in Results
    <3> HIDE DEF parts
    <3> QED
      BY <2>1, InTurnIs
  <2> QED
    BY <1>1, <1>3, <2>2, Zenon DEF DecodeBy, Struct, Wrappers
<1>4. CASE t.kind = "array"
  <2> DEFINE parts == [k \in 1..t.count |-> Element(f, cap, k, t)]
  <2>1. DOMAIN parts = 1..t.count /\ t.count \in Int
        /\ \A k \in 1..t.count : parts[k] \in Results
    <3>1. ASSUME NEW k \in 1..t.count PROVE Element(f, cap, k, t) \in Results
      <4>1. t.of \in MadeOf(t) /\ t.of \in Types /\ k \in Int
        BY <1>4, Parts
      <4> QED
        BY <4>1, ElementEnds, ElementPart, PartResult
    <3> QED
      BY <1>4, <3>1, Parts
  <2>2. InTurn(parts) \in Results
    <3> HIDE DEF parts
    <3> QED
      BY <2>1, InTurnIs
  <2> QED
    BY <1>1, <1>4, <2>2, Zenon DEF DecodeBy, Array, Wrappers
<1>5. CASE t.kind \notin Wrappers \cup {"struct", "array"}
  BY <1>1, <1>5, Parts, ScalarResult DEF DecodeBy
<1> QED
  BY <1>2, <1>3, <1>4, <1>5

\* What decodeValue returns is decided by what it returns for the types that its own is made of.
LEMMA DecodeBySame ==
    ASSUME NEW f, NEW g, NEW t \in Types, \A c \in Below(t) : f[c] = g[c],
           NEW n \in Nat, NEW cap \in Nat, NEW z \in BOOLEAN
    PROVE  DecodeBy(f, t, n, cap, z) = DecodeBy(g, t, n, cap, z)
<1>2. CASE t.kind \in Wrappers
  <2>1. Call(t.of, n, cap, z) \in Below(t)
    BY <1>2, Parts, CallIs DEF Below
  <2> QED
    BY <1>2, <2>1 DEF DecodeBy
<1>3. CASE t.kind = "struct"
  <2>1. ASSUME NEW k \in 1..Len(t.fields)
        PROVE  FieldValue(f, n, cap, t.fields[k]) = FieldValue(g, n, cap, t.fields[k])
    <3>1. /\ t.fields[k].type \in MadeOf(t) /\ t.fields[k].type \in Types
          /\ t.fields[k].offset \in Int
      BY <1>3, Parts
    <3>2. Part(f, t.fields[k].type, t.fields[k].offset, FieldEnd(t.fields[k]), cap)
            = Part(g, t.fields[k].type, t.fields[k].offset, FieldEnd(t.fields[k]), cap)
      BY <3>1, FieldEndIs, PartSame
    <3> QED
      BY <3>2, FieldPart
  <2>2. [k \in 1..Len(t.fields) |-> FieldValue(f, n, cap, t.fields[k])]
          = [k \in 1..Len(t.fields) |-> FieldValue(g, n, cap, t.fields[k])]
    BY <2>1
  <2> QED
    BY <1>3, <2>2, Zenon DEF DecodeBy, Struct, Wrappers
<1>4. CASE t.kind = "array"
  <2>1. ASSUME NEW k \in 1..t.count PROVE Element(f, cap, k, t) = Element(g, cap, k, t)
    <3>1. t.of \in MadeOf(t) /\ t.of \in Types /\ k \in Int
      BY <1>4, Parts
    <3> QED
      BY <3>1, ElementEnds, ElementPart, PartSame
  <2>2. [k \in 1..t.count |-> Element(f, cap, k, t)] = [k \in 1..t.count |-> Element(g, cap, k, t)]
    BY <2>1
  <2> QED
    BY <1>4, <2>2, Zenon DEF DecodeBy, Array, Wrappers
<1>5. CASE t.kind \notin Wrappers \cup {"struct", "array"}
  BY <1>5, Zenon DEF DecodeBy
<1> QED
  BY <1>2, <1>3, <1>4, <1>5

\* Decode returns results, and those that decodeValue computes.
LEMMA DecodeIs ==
    \A t \in Types, n \in Nat, cap \in Nat, z \in BOOLEAN :
        /\ Decode[Call(t, n, cap, z)] \in Results
        /\ Decode[Call(t, n, cap, z)] = DecodeBy(Decode, t, n, cap, z)
<1> DEFINE By(f, c) == DecodeBy(f, c.type, c.n, c.cap, c.zero)
           h == [c \in Calls |-> Nesting[c.type]]
           F == [f \in [Calls -> Results] |-> [c \in Calls |-> By(f, c)]]
<1>1. \A c \in Calls : c.type \in Types /\ c.n \in Nat /\ c.cap \in Nat /\ c.zero \in BOOLEAN
  BY DEF Calls
<1>2. F \in [[Calls -> Results] -> [Calls -> Results]]
  <2>1. ASSUME NEW f \in [Calls -> Results], NEW c \in Calls PROVE By(f, c) \in Results
    <3>1. \A d \in Below(c.type) : f[d] \in Results
      BY DEF Below
    <3> QED
      BY <1>1, <3>1, DecodeByResult
  <2> QED
    BY <2>1
<1>3. ASSUME NEW f \in [Calls -> Results], NEW g \in [Calls -> Results], NEW c \in Calls,
             \A d \in Calls : h[d] < h[c] => f[d] = g[d]
      PROVE  F[f][c] = F[g][c]
  <2>1. \A d \in Below(c.type) : f[d] = g[d]
    BY <1>1, <1>3, PartIsType DEF Below
  <2>2. By(f, c) = By(g, c)
    BY <1>1, <2>1, DecodeBySame
  <2> QED
    BY <2>2
<1>4. Results # {} /\ h \in [Calls -> Nat]
  <2>1. Fail \in Results
    BY DEF Fail, Results
  <2> QED
    BY <1>1, <2>1, TypesAssumption
<1>5. GoesDown(F, Calls, Results, h)
  <2> HIDE DEF F, h
  <2> QED
    BY <1>2, <1>3, <1>4 DEF GoesDown
<1>6. PICK f \in [Calls -> Results] : F[f] = f
  <2> HIDE DEF F, h
  <2> QED
    BY <1>5, Recursion
<1>7. f = [c \in Calls |-> DecodeBy(f, c.type, c.n, c.cap, c.zero)]
  BY <1>6
<1>8. Decode = [c \in Calls |-> DecodeBy(Decode, c.type, c.n, c.cap, c.zero)]
  BY <1>7, Zenon DEF Decode
<1>9. ASSUME NEW t \in Types, NEW n \in Nat, NEW cap \in Nat, NEW z \in BOOLEAN
      PROVE  Decode[Call(t, n, cap, z)] = DecodeBy(Decode, t, n, cap, z)
  BY <1>8, CallIs
<1> DEFINE S == {t \in Types : \A c \in Calls : c.type = t => Decode[c] \in Results}
<1>10. ASSUME NEW t \in Types, \A p \in MadeOf(t) : p \in S PROVE t \in S
  <2>1. \A c \in Below(t) : Decode[c] \in Results
    BY <1>10 DEF Below
  <2>2. ASSUME NEW c \in Calls, c.type = t PROVE Decode[c] \in Results
    <3>1. Decode[c] = DecodeBy(Decode, t, c.n, c.cap, c.zero)
      BY <1>8, <2>2
    <3> QED
      BY <1>1, <2>1, <3>1, DecodeByResult
  <2> QED
    BY <2>2
<1>11. \A t \in Types : t \in S
  <2> HIDE DEF S
  <2>1. S \in SUBSET Types
    BY DEF S
  <2> QED
    BY <1>10, <2>1, AllTypes
<1>12. \A c \in Calls : Decode[c] \in Results
  BY <1>1, <1>11
<1>13. ASSUME NEW t \in Types, NEW n \in Nat, NEW cap \in Nat, NEW z \in BOOLEAN
       PROVE  Decode[Call(t, n, cap, z)] \in Results
  BY <1>12, CallIs
<1> QED
  BY <1>9, <1>13

\* A type is one of its parts, and the parts of what it is made of are its own.
LEMMA OwnParts ==
    ASSUME NEW t \in Types
    PROVE  t \in PartsOf[t] /\ \A p \in MadeOf(t) : PartsOf[p] \subseteq PartsOf[t]
  BY PartsOfIs

\* Only a type with an odd part has no size.
LEMMA UnknownSize == \A t \in Types : Size[t] < 0 => \E p \in PartsOf[t] : Odd(p)
<1> DEFINE S == {t \in Types : Size[t] < 0 => \E p \in PartsOf[t] : Odd(p)}
<1>1. ASSUME NEW t \in Types, \A p \in MadeOf(t) : p \in S, Size[t] < 0
      PROVE  \E p \in PartsOf[t] : Odd(p)
  <2>1. Size[t] = SizeBy(Size, t) /\ t \in PartsOf[t]
    BY SizeIs, OwnParts
  <2>2. CASE t.kind \in Wrappers
    <3>1. Size[t] = Size[t.of] /\ t.of \in MadeOf(t)
      BY <2>1, <2>2, Parts DEF SizeBy
    <3> QED
      BY <1>1, <3>1, OwnParts
  <2>3. CASE t.kind = "array"
    <3>1. /\ Size[t] = Wrapped(t.count * Size[t.of]) /\ t.of \in MadeOf(t) /\ t.count \in Int
          /\ t.of \in Types
      BY <2>1, <2>3, Parts DEF SizeBy, Wrappers
    <3>2. Size[t.of] \in Int /\ t.count * Size[t.of] \in Int
      BY <3>1, SizeIs
    <3>3. t.count < 0 \/ Size[t.of] < 0 \/ t.count * Size[t.of] \notin Int64
      <4>1. t.count * Size[t.of] \in Int64 => t.count * Size[t.of] < 0
        BY <1>1, <3>1, <3>2, WrappedIs
      <4> QED
        BY <3>1, <3>2, <4>1
    <3>4. CASE t.count < 0 \/ t.count * Size[t.of] \notin Int64
      BY <2>1, <2>3, <3>1, <3>4 DEF Odd
    <3>5. CASE Size[t.of] < 0
      BY <1>1, <3>1, <3>5, OwnParts
    <3> QED
      BY <3>3, <3>4, <3>5
  <2>4. CASE t.kind \notin Wrappers \cup {"array"}
    BY <1>1, <2>1, <2>4 DEF SizeBy, Odd
  <2> QED
    BY <2>2, <2>3, <2>4
<1>2. \A t \in Types : (\A p \in MadeOf(t) : p \in S) => t \in S
  BY <1>1
<1>3. \A t \in Types : t \in S
  <2> HIDE DEF S
  <2>1. S \in SUBSET Types
    BY DEF S
  <2> QED
    BY <1>2, <2>1, AllTypes
<1> QED
  BY <1>3

\* A sound type is made of sound types, and has a size.
LEMMA SoundIs ==
    ASSUME NEW t \in Types, Sound(t)
    PROVE  Size[t] >= 0 /\ \A p \in MadeOf(t) : Sound(p)
<1>1. \A p \in PartsOf[t] : ~Odd(p)
  <2>1. ASSUME NEW p \in PartsOf[t], Odd(p) PROVE FALSE
    <3>1. p \in Types /\ p.kind \in Kinds
      BY PartsOfIs, TypesAssumption DEF IsType
    <3>2. CASE p.kind = "array"
      <4>1. p.count \in 0..MaxCount /\ p.count * Size[p.of] \in Int64
        BY <3>2 DEF Sound
      <4> QED
        BY <2>1, <3>2, <4>1 DEF Odd
    <3>3. CASE p.kind \notin Wrappers \cup {"array"} /\ p.size < 0
      <4>1. p.size \in Int /\ p.size < 0
        BY <3>1, <3>3, Parts
      <4>2. CASE p.kind \in Integer_ \cup Bytes \cup Floats
        <5>1. p.size \in SizesOf(p.kind)
          BY <4>2 DEF Sound
        <5> QED
          BY <4>1, <5>1 DEF SizesOf
      <4>3. CASE p.kind = "struct"
        BY <4>1, <4>3 DEF Sound
      <4>4. CASE p.kind = "other"
        BY <4>4 DEF Sound
      <4> QED
        BY <3>1, <3>3, <4>2, <4>3, <4>4 DEF Kinds
    <3>4. ASSUME p.kind = "struct", NEW k \in 1..Len(p.fields),
                 \/ p.fields[k].offset < 0
                 \/ p.fields[k].offset + Size[p.fields[k].type] \notin Int64
          PROVE  FALSE
      <4>1. /\ p.fields[k].offset \in Int /\ Size[p.fields[k].type] \in Int64
            /\ Size[p.fields[k].type] \in Int /\ p.size \in Int64
        BY <3>1, <3>4, Parts, SizeIs DEF Wrappers
      <4>2. p.fields[k].offset >= 0 /\ p.fields[k].offset + Size[p.fields[k].type] <= p.size
        BY <3>4 DEF Sound
      <4> QED
        BY <3>4, <4>1, <4>2, Int64Is
    <3> QED
      BY <2>1, <3>2, <3>3, <3>4 DEF Odd
  <2> QED
    BY <2>1
<1>2. Size[t] \in Int /\ ~(Size[t] < 0)
  BY <1>1, SizeIs, UnknownSize
<1>3. \A p \in MadeOf(t) : Sound(p)
  BY OwnParts DEF Sound
<1> QED
  BY <1>2, <1>3

\* What decodeValue calls returns results.
LEMMA BelowResults == \A t \in Types : \A c \in Below(t) : Decode[c] \in Results
  BY DecodeIs, PartIsType DEF Below, Calls, Call

\* decodeValue of a structure: its fields in turn.
LEMMA StructIs ==
    ASSUME NEW t \in Types, t.kind = "struct", NEW n \in Nat, NEW cap \in Nat, ~(n < t.size)
    PROVE  LET r == Decode[Call(t, n, cap, FALSE)]
               part(k) == FieldValue(Decode, n, cap, t.fields[k])
           IN /\ r.res = "ok" =>
                   /\ \A k \in 1..Len(t.fields) : part(k).res = "ok"
                   /\ r.leaves = UNION {part(k).leaves : k \in 1..Len(t.fields)}
              /\ (\A k \in 1..Len(t.fields) : part(k).res = "ok") => r.res = "ok"
              /\ r.res # "ok" => \E k \in 1..Len(t.fields) : r = part(k)
<1> DEFINE parts == [k \in 1..Len(t.fields) |-> FieldValue(Decode, n, cap, t.fields[k])]
<1>1. ASSUME NEW k \in 1..Len(t.fields) PROVE FieldValue(Decode, n, cap, t.fields[k]) \in Results
  <2>1. /\ t.fields[k].type \in MadeOf(t) /\ t.fields[k].type \in Types
        /\ t.fields[k].offset \in Int
    BY Parts
  <2>2. Part(Decode, t.fields[k].type, t.fields[k].offset, FieldEnd(t.fields[k]), cap) \in Results
    BY <2>1, BelowResults, FieldEndIs, PartResult
  <2>3. Fail \in Results
    BY DEF Fail, Results
  <2> QED
    BY <2>2, <2>3, FieldPart
<1>2. /\ DOMAIN parts = 1..Len(t.fields) /\ Len(t.fields) \in Int
      /\ \A k \in 1..Len(t.fields) : parts[k] \in Results
  BY <1>1, Parts
<1>3. Decode[Call(t, n, cap, FALSE)] = InTurn(parts)
  <2>1. Decode[Call(t, n, cap, FALSE)] = DecodeBy(Decode, t, n, cap, FALSE)
    BY DecodeIs
  <2> QED
    BY <2>1, Zenon DEF DecodeBy, Struct, Wrappers
<1>4. \A k \in 1..Len(t.fields) : parts[k] = FieldValue(Decode, n, cap, t.fields[k])
  OBVIOUS
<1> HIDE DEF parts
<1>5. /\ InTurn(parts).res = "ok" => \A k \in 1..Len(t.fields) : parts[k].res = "ok"
      /\ (\A k \in 1..Len(t.fields) : parts[k].res = "ok") =>
            InTurn(parts) = Ok(UNION {parts[k].leaves : k \in 1..Len(t.fields)})
      /\ InTurn(parts).res # "ok" => \E k \in 1..Len(t.fields) : InTurn(parts) = parts[k]
  BY <1>2, InTurnIs
<1>6. {parts[k].leaves : k \in 1..Len(t.fields)}
        = {FieldValue(Decode, n, cap, t.fields[k]).leaves : k \in 1..Len(t.fields)}
  BY <1>4
<1> QED
  BY <1>3, <1>4, <1>5, <1>6 DEF Ok

\* ... all of them are decoded if the structure is.
LEMMA StructOk ==
    ASSUME NEW t \in Types, t.kind = "struct", NEW n \in Nat, NEW cap \in Nat, ~(n < t.size),
           Decode[Call(t, n, cap, FALSE)].res = "ok"
    PROVE  /\ \A k \in 1..Len(t.fields) : FieldValue(Decode, n, cap, t.fields[k]).res = "ok"
           /\ Decode[Call(t, n, cap, FALSE)].leaves
                = UNION {FieldValue(Decode, n, cap, t.fields[k]).leaves : k \in 1..Len(t.fields)}
  BY StructIs

\* decodeValue of an array: its elements in turn.
LEMMA ArrayIs ==
    ASSUME NEW t \in Types, t.kind = "array", NEW n \in Nat, NEW cap \in Nat, ~(n < Size[t]),
           t.count \in 0..MaxCount
    PROVE  LET r == Decode[Call(t, n, cap, FALSE)]
               part(k) == Element(Decode, cap, k, t)
           IN /\ r.res = "ok" =>
                   /\ \A k \in 1..t.count : part(k).res = "ok"
                   /\ r.leaves = UNION {part(k).leaves : k \in 1..t.count}
              /\ (\A k \in 1..t.count : part(k).res = "ok") => r.res = "ok"
              /\ r.res # "ok" => \E k \in 1..t.count : r = part(k)
<1> DEFINE parts == [k \in 1..t.count |-> Element(Decode, cap, k, t)]
<1>1. ASSUME NEW k \in 1..t.count PROVE Element(Decode, cap, k, t) \in Results
  <2>1. t.of \in MadeOf(t) /\ t.of \in Types /\ k \in Int
    BY Parts
  <2> QED
    BY <2>1, BelowResults, ElementEnds, ElementPart, PartResult
<1>2. DOMAIN parts = 1..t.count /\ t.count \in Int /\ \A k \in 1..t.count : parts[k] \in Results
  BY <1>1, Parts
<1>3. Decode[Call(t, n, cap, FALSE)] = InTurn(parts)
  <2>1. Decode[Call(t, n, cap, FALSE)] = DecodeBy(Decode, t, n, cap, FALSE)
    BY DecodeIs
  <2> QED
    BY <2>1, Zenon DEF DecodeBy, Array, Wrappers
<1>4. \A k \in 1..t.count : parts[k] = Element(Decode, cap, k, t)
  OBVIOUS
<1> HIDE DEF parts
<1>5. /\ InTurn(parts).res = "ok" => \A k \in 1..t.count : parts[k].res = "ok"
      /\ (\A k \in 1..t.count : parts[k].res = "ok") =>
            InTurn(parts) = Ok(UNION {parts[k].leaves : k \in 1..t.count})
      /\ InTurn(parts).res # "ok" => \E k \in 1..t.count : InTurn(parts) = parts[k]
  BY <1>2, InTurnIs
<1>6. {parts[k].leaves : k \in 1..t.count} = {Element(Decode, cap, k, t).leaves : k \in 1..t.count}
  BY <1>4
<1> QED
  BY <1>3, <1>4, <1>5, <1>6 DEF Ok

\* What decodeValue returns for the bytes of a part of a value, in a slice up to cap.
PartDecoded(p, cap) == Decode[Call(p, Size[p], cap, FALSE)]

\* How long slices are.
Room(p) == {cap \in Nat : Size[p] \in Nat /\ Size[p] <= cap /\ cap < Half}

\* What is decoded of a part, put in its place.
LEMMA PartPlaced ==
    ASSUME NEW p \in Types, NEW cap \in Room(p), NEW d \in Int
    PROVE  /\ PartDecoded(p, cap) \in Results
           /\ Placed(PartDecoded(p, cap), d).res = PartDecoded(p, cap).res
           /\ Placed(PartDecoded(p, cap), d).leaves = Shift(PartDecoded(p, cap).leaves, d)
<1>1. PartDecoded(p, cap) \in Results
  BY DecodeIs DEF PartDecoded, Room
<1> QED
  BY <1>1, PlacedIs

\* A slice of a part's size is that part.
LEMMA SizedPart ==
    ASSUME NEW p \in Types, NEW from \in Int, NEW cap \in Nat, cap < Half,
           Part(Decode, p, from, from + Size[p], cap) # Panic
           \/ (0 <= from /\ 0 <= Size[p] /\ from + Size[p] <= cap)
    PROVE  /\ from \in Nat /\ from + Size[p] <= cap /\ cap - from \in Room(p)
           /\ Part(Decode, p, from, from + Size[p], cap)
                = Placed(PartDecoded(p, cap - from), from)
<1>1. Size[p] \in Int /\ from + Size[p] \in Int
  BY SizeIs
<1>2. 0 <= from /\ from <= from + Size[p] /\ from + Size[p] <= cap
  <2>1. CASE Part(Decode, p, from, from + Size[p], cap) # Panic
    BY <2>1, Zenon DEF Part
  <2>2. CASE 0 <= from /\ 0 <= Size[p] /\ from + Size[p] <= cap
    BY <1>1, <2>2
  <2> QED
    BY <2>1, <2>2
<1>3. (from + Size[p]) - from = Size[p] /\ from \in Nat /\ Size[p] \in Nat /\ cap - from \in Nat
  BY <1>1, <1>2
<1>4. cap - from \in Room(p)
  BY <1>1, <1>2, <1>3, Int64Is DEF Room
<1> QED
  BY <1>2, <1>3, <1>4 DEF Part, PartDecoded

\* A field that does not wrap ends its size behind its start; if it wraps, it ends before that.
LEMMA FieldSpan ==
    ASSUME NEW field, field.type \in Types, field.offset \in Int64,
           \/ field.offset + Size[field.type] \in Int64
           \/ 0 <= field.offset /\ field.offset <= FieldEnd(field)
    PROVE  FieldEnd(field) = field.offset + Size[field.type]
<1>1. /\ field.offset \in Int /\ Size[field.type] \in Int /\ Size[field.type] \in Int64
      /\ field.offset + Size[field.type] \in Int
  BY SizeIs, Int64Is
<1> DEFINE o == field.offset
           s == Size[field.type]
<1>2. /\ o + s \in Int64 => FieldEnd(field) = o + s
      /\ o + s >= Half /\ o + s < 2 * Half => FieldEnd(field) = (o + s) - 2 * Half
  <2>1. FieldEnd(field) = Wrapped(o + s) /\ o + s \in Int
    BY <1>1 DEF FieldEnd
  <2> DEFINE sum == o + s
  <2> HIDE DEF sum
  <2>2. /\ sum \in Int64 => Wrapped(sum) = sum
        /\ sum >= Half /\ sum < 2 * Half => Wrapped(sum) = sum - 2 * Half
    BY <2>1, WrappedIs DEF sum
  <2>3. /\ sum \in Int64 => FieldEnd(field) = sum
        /\ sum >= Half /\ sum < 2 * Half => FieldEnd(field) = sum - 2 * Half
    <3>1. FieldEnd(field) = Wrapped(sum)
      BY <2>1 DEF sum
    <3> QED
      BY <2>2, <3>1
  <2> QED
    BY <2>3, Zenon DEF sum
<1>3. o < Half /\ s < Half /\ -Half <= s /\ Half \in Nat
  BY <1>1, Int64Is
<1>4. CASE o + s \in Int64
  BY <1>2, <1>4
<1>5. CASE o + s \notin Int64
  <2>1. 0 <= o /\ o <= FieldEnd(field)
    BY <1>5
  <2>2. o + s >= Half
    <3>1. ~(-Half <= o + s /\ o + s < Half)
      BY <1>1, <1>5, Int64Is
    <3> QED
      BY <1>1, <1>3, <2>1, <3>1
  <2> HIDE DEF o, s
  <2>3. o \in Int /\ s \in Int
    BY <1>1 DEF o, s
  <2>4. FieldEnd(field) = (o + s) - 2 * Half
    BY <1>2, <1>3, <2>2, <2>3
  <2> QED
    BY <1>3, <2>1, <2>3, <2>4
<1> QED
  BY <1>4, <1>5

\* A field: what is returned for it, by its size and what decodeValue returns for its bytes.
LEMMA FieldIs ==
    ASSUME NEW field, field.type \in Types, field.offset \in Int64,
           NEW n \in Nat, NEW cap \in Nat, n <= cap, cap < Half
    PROVE  LET r == FieldValue(Decode, n, cap, field)
               o == field.offset
               p == field.type
               d == PartDecoded(p, cap - o)
           IN /\ r.res = "panic" =>
                   \/ o < 0 \/ o + Size[p] \notin Int64 \/ Size[p] < 0
                   \/ cap - o \in Room(p) /\ d.res = "panic"
              /\ r.res = "ok" =>
                   /\ o \in Nat /\ Size[p] \in Nat /\ o + Size[p] <= n
                   /\ cap - o \in Room(p) /\ d.res = "ok" /\ r.leaves = Shift(d.leaves, o)
              /\ field.bits = 0 /\ o >= 0 /\ Size[p] >= 0 /\ o + Size[p] <= n =>
                   cap - o \in Room(p) /\ r.res = d.res
<1> DEFINE r == FieldValue(Decode, n, cap, field)
           o == field.offset
           p == field.type
           d == PartDecoded(p, cap - o)
<1>1. /\ o \in Int /\ Size[p] \in Int /\ o + Size[p] \in Int /\ FieldEnd(field) \in Int
      /\ p \in Types /\ Fail.res = "fail" /\ Panic.res = "panic"
  BY SizeIs, Int64Is, FieldEndIs DEF Fail, Panic
<1>2. r = IF n < FieldEnd(field) \/ field.bits # 0 THEN Fail
          ELSE Part(Decode, p, o, FieldEnd(field), cap)
  BY FieldPart
<1>3. ASSUME o + Size[p] \in Int64 \/ (0 <= o /\ o <= FieldEnd(field)) PROVE FieldEnd(field) = o + Size[p]
  BY <1>3, FieldSpan
<1>4. ASSUME cap - o \in Room(p)
      PROVE  Placed(d, o).res = d.res /\ Placed(d, o).leaves = Shift(d.leaves, o)
  BY <1>1, <1>4, PartPlaced
<1> HIDE DEF r, o, p, d
<1>5. ASSUME r.res = "panic"
      PROVE  o < 0 \/ o + Size[p] \notin Int64 \/ Size[p] < 0 \/ (cap - o \in Room(p) /\ d.res = "panic")
  <2> SUFFICES ASSUME ~(o < 0), o + Size[p] \in Int64, ~(Size[p] < 0)
               PROVE  cap - o \in Room(p) /\ d.res = "panic"
    OBVIOUS
  <2>1. FieldEnd(field) = o + Size[p] /\ ~(n < o + Size[p]) /\ r = Part(Decode, p, o, o + Size[p], cap)
    BY <1>1, <1>2, <1>3, <1>5
  <2>2. 0 <= o /\ 0 <= Size[p] /\ o + Size[p] <= cap
    BY <1>1, <2>1
  <2>3. cap - o \in Room(p) /\ r = Placed(d, o)
    BY <1>1, <2>1, <2>2, SizedPart DEF d
  <2> QED
    BY <1>4, <1>5, <2>3
<1>6. ASSUME r.res = "ok"
      PROVE  /\ o \in Nat /\ Size[p] \in Nat /\ o + Size[p] <= n
             /\ cap - o \in Room(p) /\ d.res = "ok" /\ r.leaves = Shift(d.leaves, o)
  <2>1. /\ ~(n < FieldEnd(field)) /\ r = Part(Decode, p, o, FieldEnd(field), cap)
        /\ r # Panic
    BY <1>1, <1>2, <1>6
  <2>2. 0 <= o /\ o <= FieldEnd(field)
    BY <2>1, Zenon DEF Part
  <2>3. FieldEnd(field) = o + Size[p]
    BY <1>3, <2>2
  <2>4. o \in Nat /\ cap - o \in Room(p) /\ r = Placed(d, o)
    BY <1>1, <2>1, <2>3, SizedPart DEF d
  <2>5. Size[p] \in Nat
    BY <2>4 DEF Room
  <2> QED
    BY <1>1, <1>4, <1>6, <2>1, <2>3, <2>4, <2>5
<1>7. ASSUME field.bits = 0, o >= 0, Size[p] >= 0, o + Size[p] <= n
      PROVE  cap - o \in Room(p) /\ r.res = d.res
  <2>1. o + Size[p] \in Int64
    BY <1>1, <1>7, Int64Is
  <2>2. FieldEnd(field) = o + Size[p] /\ r = Part(Decode, p, o, o + Size[p], cap)
    BY <1>1, <1>2, <1>3, <1>7, <2>1
  <2>3. cap - o \in Room(p) /\ r = Placed(d, o)
    BY <1>1, <1>7, <2>2, SizedPart DEF d
  <2> QED
    BY <1>4, <2>3
<1> QED
  BY <1>5, <1>6, <1>7 DEF r, o, p, d

\* Multiplying by a size keeps the order.
LEMMA Times == ASSUME NEW s \in Nat, NEW i \in Int, NEW j \in Int, i <= j PROVE s * i <= s * j
<1>1. j - i \in Nat
  OBVIOUS
<1>2. s * (j - i) >= 0
  BY <1>1
<1>3. s * (j - i) = s * j - s * i
  OBVIOUS
<1>4. s * i \in Int /\ s * j \in Int
  OBVIOUS
<1> QED
  BY <1>2, <1>3, <1>4

\* An element that starts where it should ends where it should, or before its start.
LEMMA ElementSpan ==
    ASSUME NEW t, t.of \in Types, NEW k \in Int, Size[t.of] * (k - 1) \in 0..(Half - 1)
    PROVE  /\ ElementFrom(t, k) = Size[t.of] * (k - 1)
           /\ Size[t.of] * k = Size[t.of] * (k - 1) + Size[t.of] /\ Size[t.of] * k \in Int
           /\ \/ ElementTo(t, k) = Size[t.of] * k
              \/ ElementTo(t, k) < 0 /\ Size[t.of] * k >= Half
<1> DEFINE s == Size[t.of]
           x == s * (k - 1)
<1>1. s \in Int /\ s \in Int64 /\ x \in Int /\ 0 <= x /\ x < Half
  BY SizeIs, Int64Is
<1>2. s * k = x + s /\ s * k \in Int
  BY <1>1
<1>3. ElementFrom(t, k) = x
  BY <1>1, WrappedIs, Int64Is DEF ElementFrom
<1>4. ElementTo(t, k) = Wrapped(x + s) /\ x + s \in Int
  BY <1>1, <1>3 DEF ElementTo
<1> HIDE DEF s, x
<1>5. -Half <= x + s /\ x + s < 2 * Half
  BY <1>1, Int64Is
<1>6. ElementTo(t, k) = x + s \/ (ElementTo(t, k) < 0 /\ x + s >= Half)
  <2>1. CASE x + s < Half
    <3>1. x + s \in Int64
      BY <1>4, <1>5, <2>1, Int64Is
    <3> QED
      BY <1>4, <3>1, WrappedIs
  <2>2. CASE x + s >= Half
    <3>1. ElementTo(t, k) = (x + s) - 2 * Half
      BY <1>4, <1>5, <2>2, WrappedIs
    <3>2. ElementTo(t, k) < 0
      BY <1>4, <1>5, <3>1, Int64Is
    <3> QED
      BY <2>2, <3>2
  <2> QED
    BY <1>4, <2>1, <2>2, Int64Is
<1> QED
  BY <1>2, <1>3, <1>6 DEF s, x

\* An element that is where it should be is the part decoded there,
LEMMA ElementIs ==
    ASSUME NEW t, t.of \in Types, NEW k \in Int, k >= 1, NEW cap \in Nat, cap < Half,
           Size[t.of] \in Nat, Size[t.of] * k <= cap
    PROVE  LET from == Size[t.of] * (k - 1)
           IN /\ from \in Nat /\ from + Size[t.of] = Size[t.of] * k
              /\ cap - from \in Room(t.of)
              /\ Element(Decode, cap, k, t).res = PartDecoded(t.of, cap - from).res
              /\ Element(Decode, cap, k, t).leaves = Shift(PartDecoded(t.of, cap - from).leaves, from)
<1> DEFINE s == Size[t.of]
           x == s * (k - 1)
<1>1. s \in Nat /\ x \in Nat /\ s * k = x + s /\ s * k \in Int
  OBVIOUS
<1> HIDE DEF s, x
<1>2. x \in 0..(Half - 1) /\ s * k < Half
  BY <1>1, Int64Is DEF s
<1>3. ElementFrom(t, k) = x /\ ElementTo(t, k) = x + s
  BY <1>1, <1>2, ElementSpan, Int64Is DEF s, x
<1>4. Element(Decode, cap, k, t) = Part(Decode, t.of, x, x + Size[t.of], cap)
  BY <1>3, ElementPart DEF s
<1>5. x \in Int /\ 0 <= x /\ 0 <= Size[t.of] /\ x + Size[t.of] <= cap
  BY <1>1 DEF s
<1>6. cap - x \in Room(t.of) /\ Element(Decode, cap, k, t) = Placed(PartDecoded(t.of, cap - x), x)
  BY <1>4, <1>5, SizedPart
<1>7. /\ Element(Decode, cap, k, t).res = PartDecoded(t.of, cap - x).res
      /\ Element(Decode, cap, k, t).leaves = Shift(PartDecoded(t.of, cap - x).leaves, x)
  BY <1>5, <1>6, PartPlaced
<1> QED
  BY <1>1, <1>6, <1>7 DEF s, x

\* ... and elements that do not panic are where they should be: the first that is not would
\* end before its start, or behind the slice.
LEMMA ElementsFit ==
    ASSUME NEW t, t.of \in Types, t.count \in Nat, NEW cap \in Nat, cap < Half,
           \A k \in 1..t.count : Element(Decode, cap, k, t) # Panic
    PROVE  \A k \in 1..t.count : Size[t.of] \in Nat /\ Size[t.of] * k <= cap
<1> DEFINE s == Size[t.of]
           off == {k \in 1..t.count : ~(s \in Nat /\ s * k <= cap)}
<1>0. s \in Int
  BY SizeIs
<1> SUFFICES ASSUME off # {} PROVE FALSE
  OBVIOUS
<1>1. PICK k \in off : \A j \in off : k <= j
  <2>1. off \in SUBSET Nat
    OBVIOUS
  <2> HIDE DEF off
  <2> QED
    BY <2>1, FirstOf
<1>2. k \in 1..t.count /\ k \in Int
  OBVIOUS
<1>3. s * (k - 1) \in 0..(Half - 1) /\ (s < 0 => k = 1)
  <2>1. CASE k = 1
    <3>1. s * (k - 1) = 0
      BY <1>0, <2>1
    <3> QED
      BY <2>1, <3>1, Int64Is
  <2>2. CASE k # 1
    <3>1. k - 1 \in 1..t.count /\ k - 1 \notin off
      BY <1>1, <1>2, <2>2
    <3>2. s \in Nat /\ s * (k - 1) <= cap
      BY <3>1
    <3>3. s * (k - 1) \in Nat
      BY <1>2, <3>1, <3>2
    <3> QED
      BY <3>2, <3>3, Int64Is
  <2> QED
    BY <2>1, <2>2
<1>4. /\ ElementFrom(t, k) = s * (k - 1)
      /\ s * k = s * (k - 1) + s /\ s * k \in Int
      /\ ElementTo(t, k) = s * k \/ ElementTo(t, k) < 0
  <2>1. Size[t.of] * (k - 1) \in 0..(Half - 1)
    BY <1>3
  <2> HIDE DEF off
  <2> QED
    BY <1>2, <2>1, ElementSpan
<1>5. 0 <= ElementFrom(t, k) /\ ElementFrom(t, k) <= ElementTo(t, k) /\ ElementTo(t, k) <= cap
  <2>1. Part(Decode, t.of, ElementFrom(t, k), ElementTo(t, k), cap) # Panic
    BY <1>2, ElementPart
  <2> QED
    BY <2>1, Zenon DEF Part
<1>6. ElementTo(t, k) = s * k /\ s * k <= cap /\ s >= 0
  <2> DEFINE x == s * (k - 1)
             y == s * k
  <2>1. x \in Int /\ y = x + s /\ y \in Int /\ ElementFrom(t, k) = x
        /\ (ElementTo(t, k) = y \/ ElementTo(t, k) < 0) /\ ElementTo(t, k) \in Int
    BY <1>2, <1>3, <1>4, ElementEnds
  <2> HIDE DEF s, x, y
  <2>2. ElementTo(t, k) = y /\ y <= cap /\ s >= 0
    BY <1>0, <1>5, <2>1
  <2> QED
    BY <2>2 DEF y
<1> QED
  BY <1>0, <1>1, <1>6

\* What decodeValue does with a type, by its kind.
LEMMA DecodeKind ==
    ASSUME NEW t \in Types, NEW n \in Nat, NEW cap \in Nat, NEW z \in BOOLEAN
    PROVE  LET r == Decode[Call(t, n, cap, z)]
           IN /\ t.kind \in Wrappers => r = Decode[Call(t.of, n, cap, z)]
              /\ t.kind = "struct" /\ n < t.size => r = Fail
              /\ t.kind = "struct" /\ ~(n < t.size) /\ z => r = Ok({})
              /\ t.kind = "array" /\ n < Size[t] => r = Fail
              /\ t.kind = "array" /\ ~(n < Size[t]) /\ z => r = Ok({})
              /\ t.kind = "array" /\ ~(n < Size[t]) /\ ~z /\ t.count \notin 0..MaxCount => r = Panic
              /\ t.kind \in Integer_ \cup Bytes \cup Floats => r = Scalar(n, t, z)
              /\ t.kind = "other" => r = Fail
<1>1. Decode[Call(t, n, cap, z)] = DecodeBy(Decode, t, n, cap, z)
  BY DecodeIs
<1>2. CASE t.kind \in Wrappers
  BY <1>1, <1>2 DEF DecodeBy, Wrappers, Integer_, Bytes, Floats
<1>3. CASE t.kind = "struct"
  BY <1>1, <1>3, Zenon DEF DecodeBy, Struct, Wrappers, Integer_, Bytes, Floats
<1>4. CASE t.kind = "array"
  BY <1>1, <1>4, Zenon DEF DecodeBy, Array, Wrappers, Integer_, Bytes, Floats
<1>5. CASE t.kind \in Integer_ \cup Bytes \cup Floats
  BY <1>1, <1>5 DEF DecodeBy, Wrappers, Integer_, Bytes, Floats
<1>6. CASE t.kind = "other"
  BY <1>1, <1>6 DEF DecodeBy, Wrappers, Integer_, Bytes, Floats
<1>7. t.kind \in Kinds
  BY TypesAssumption DEF IsType
<1> QED
  BY <1>2, <1>3, <1>4, <1>5, <1>6, <1>7 DEF Kinds

\* The elements of an array that is not too large are within it.
LEMMA ElementEndsIn ==
    ASSUME NEW t \in Types, t.kind = "array", t.count * Size[t.of] \in Int64, t.count \in Nat,
           Size[t.of] \in Nat, NEW n \in Nat, ~(n < Size[t]), NEW cap \in Nat, n <= cap,
           NEW k \in Int, k <= t.count
    PROVE  Size[t.of] * k <= n /\ Size[t.of] * k <= cap
<1>1. Size[t] = Wrapped(t.count * Size[t.of])
  BY SizeIs DEF SizeBy, Wrappers
<1> DEFINE s == Size[t.of]
           c == t.count
<1>2. s \in Nat /\ c \in Nat /\ c * s \in Int /\ c * s \in Int64 /\ s * c = c * s /\ s * k \in Int
  OBVIOUS
<1> HIDE DEF s, c
<1>3. Size[t] = c * s
  BY <1>1, <1>2, WrappedIs DEF s, c
<1>4. s * k <= s * c
  BY <1>2, Times DEF c
<1>5. s * k <= n /\ s * k <= cap
  BY <1>2, <1>3, <1>4
<1> QED
  BY <1>5 DEF s

\* decodeValue panics only on types with an odd part.
LEMMA PanicsOf ==
    \A t \in Types, n \in Nat, cap \in Nat, z \in BOOLEAN :
        n <= cap /\ cap < Half /\ Decode[Call(t, n, cap, z)].res = "panic" => \E p \in PartsOf[t] : Odd(p)
<1> DEFINE S == {t \in Types : \A n \in Nat, cap \in Nat, z \in BOOLEAN :
                   n <= cap /\ cap < Half /\ Decode[Call(t, n, cap, z)].res = "panic" =>
                      \E p \in PartsOf[t] : Odd(p)}
<1>1. ASSUME NEW t \in Types, \A p \in MadeOf(t) : p \in S, NEW n \in Nat, NEW cap \in Nat,
             NEW z \in BOOLEAN, n <= cap, cap < Half, Decode[Call(t, n, cap, z)].res = "panic"
      PROVE  \E p \in PartsOf[t] : Odd(p)
  <2>1. ASSUME NEW p \in MadeOf(t), NEW m \in Nat, NEW c \in Nat, NEW y \in BOOLEAN,
               m <= c, c < Half, Decode[Call(p, m, c, y)].res = "panic"
        PROVE  \E q \in PartsOf[t] : Odd(q)
    BY <1>1, <2>1, OwnParts
  <2>0. ASSUME NEW p \in MadeOf(t), NEW c \in Room(p), PartDecoded(p, c).res = "panic"
        PROVE  \E q \in PartsOf[t] : Odd(q)
    BY <2>0, <2>1 DEF Room, PartDecoded
  <2>2. ASSUME NEW p \in MadeOf(t), Size[p] < 0 PROVE \E q \in PartsOf[t] : Odd(q)
    BY <2>2, OwnParts, PartIsType, UnknownSize
  <2>3. CASE t.kind \in Wrappers
    <3>1. t.of \in MadeOf(t) /\ Decode[Call(t, n, cap, z)] = Decode[Call(t.of, n, cap, z)]
      BY <2>3, Parts, DecodeKind
    <3> QED
      BY <1>1, <2>1, <3>1
  <2>4. CASE t.kind = "struct"
    <3>1. ~(n < t.size) /\ z = FALSE
      BY <1>1, <2>4, DecodeKind DEF Fail, Ok
    <3>2. PICK k \in 1..Len(t.fields) : FieldValue(Decode, n, cap, t.fields[k]).res = "panic"
      BY <1>1, <2>4, <3>1, StructIs
    <3> DEFINE o == t.fields[k].offset
               p == t.fields[k].type
    <3>3. p \in MadeOf(t) /\ p \in Types /\ o \in Int64
      BY <2>4, Parts
    <3>4. \/ o < 0 \/ o + Size[p] \notin Int64 \/ Size[p] < 0
          \/ cap - o \in Room(p) /\ PartDecoded(p, cap - o).res = "panic"
      BY <1>1, <3>2, <3>3, FieldIs
    <3>5. CASE o < 0 \/ o + Size[p] \notin Int64
      BY <2>4, <3>5, OwnParts DEF Odd
    <3> HIDE DEF o, p
    <3> QED
      BY <2>0, <2>2, <3>3, <3>4, <3>5
  <2>5. CASE t.kind = "array"
    <3>1. ~(n < Size[t]) /\ z = FALSE
      BY <1>1, <2>5, DecodeKind DEF Fail, Ok
    <3>2. t.of \in MadeOf(t) /\ t.of \in Types /\ Size[t.of] \in Int /\ t.count \in Int
          /\ t \in PartsOf[t]
      BY <2>5, Parts, SizeIs, OwnParts
    <3>3. CASE t.count \notin 0..MaxCount \/ t.count * Size[t.of] \notin Int64
      BY <2>5, <3>2, <3>3 DEF Odd
    <3>4. CASE Size[t.of] < 0
      BY <2>2, <3>2, <3>4
    <3>5. CASE /\ t.count \in 0..MaxCount /\ t.count * Size[t.of] \in Int64
               /\ ~(Size[t.of] < 0)
      <4>1. PICK k \in 1..t.count : Element(Decode, cap, k, t).res = "panic"
        BY <1>1, <2>5, <3>1, <3>5, ArrayIs
      <4>2. Size[t.of] \in Nat /\ k \in Int /\ k <= t.count /\ k >= 1
        BY <3>2, <3>5
      <4>3. Size[t.of] * k <= cap
        BY <1>1, <2>5, <3>1, <3>5, <4>2, ElementEndsIn
      <4>4. /\ cap - Size[t.of] * (k - 1) \in Room(t.of)
            /\ PartDecoded(t.of, cap - Size[t.of] * (k - 1)).res = "panic"
        BY <1>1, <3>2, <4>1, <4>2, <4>3, ElementIs
      <4> QED
        BY <2>0, <3>2, <4>4
    <3> QED
      BY <3>3, <3>4, <3>5
  <2>6. CASE t.kind \in Integer_ \cup Bytes \cup Floats
    <3>1. Decode[Call(t, n, cap, z)] = Scalar(n, t, z)
      BY <2>6, DecodeKind
    <3> QED
      BY <1>1, <3>1 DEF Scalar, Fail, Ok
  <2>7. CASE t.kind = "other"
    BY <1>1, <2>7, DecodeKind DEF Fail
  <2>8. t.kind \in Kinds
    BY TypesAssumption DEF IsType
  <2> QED
    BY <2>3, <2>4, <2>5, <2>6, <2>7, <2>8 DEF Kinds
<1>2. \A t \in Types : (\A p \in MadeOf(t) : p \in S) => t \in S
  BY <1>1
<1>3. \A t \in Types : t \in S
  <2> HIDE DEF S
  <2>1. S \in SUBSET Types
    BY DEF S
  <2> QED
    BY <1>2, <2>1, AllTypes
<1> QED
  BY <1>3

\* A sound type is decoded exactly if there are as many bytes as it has.
LEMMA FitsOf ==
    \A t \in Types, n \in Nat, cap \in Nat, z \in BOOLEAN :
        Sound(t) /\ n <= cap /\ cap < Half =>
          Decode[Call(t, n, cap, z)].res = IF Size[t] <= n THEN "ok" ELSE "fail"
<1> DEFINE S == {t \in Types : \A n \in Nat, cap \in Nat, z \in BOOLEAN :
                   Sound(t) /\ n <= cap /\ cap < Half =>
                     Decode[Call(t, n, cap, z)].res = IF Size[t] <= n THEN "ok" ELSE "fail"}
<1>1. ASSUME NEW t \in Types, \A p \in MadeOf(t) : p \in S, NEW n \in Nat, NEW cap \in Nat,
             NEW z \in BOOLEAN, Sound(t), n <= cap, cap < Half
      PROVE  Decode[Call(t, n, cap, z)].res = IF Size[t] <= n THEN "ok" ELSE "fail"
  <2>0. Size[t] = SizeBy(Size, t) /\ Size[t] \in Int /\ t \in PartsOf[t]
    BY SizeIs, OwnParts
  <2> DEFINE r == Decode[Call(t, n, cap, z)]
  <2>fits. ASSUME n < Size[t] => r = Fail, ~(n < Size[t]) => r.res = "ok"
           PROVE  r.res = IF Size[t] <= n THEN "ok" ELSE "fail"
    <3>1. CASE n < Size[t]
      <4>1. r.res = "fail" /\ ~(Size[t] <= n)
        BY <2>0, <2>fits, <3>1 DEF Fail
      <4> QED
        BY <4>1
    <3>2. CASE ~(n < Size[t])
      <4>1. r.res = "ok" /\ Size[t] <= n
        BY <2>0, <2>fits, <3>2
      <4> QED
        BY <4>1
    <3> QED
      BY <3>1, <3>2
  <2> HIDE DEF r
  <2>1. ASSUME NEW p \in MadeOf(t)
        PROVE  /\ p \in Types /\ Size[p] \in Nat
               /\ \A c \in Room(p) : PartDecoded(p, c).res = "ok"
    <3>1. p \in Types /\ Sound(p) /\ Size[p] \in Int /\ Size[p] >= 0
      BY <1>1, PartIsType, SoundIs, SizeIs
    <3>2. Size[p] \in Nat /\ Size[p] <= Size[p]
      BY <3>1
    <3> QED
      BY <1>1, <3>1, <3>2 DEF PartDecoded, Room
  <2>2. CASE t.kind \in Wrappers
    <3>1. t.of \in MadeOf(t) /\ Decode[Call(t, n, cap, z)] = Decode[Call(t.of, n, cap, z)] /\ Size[t] = Size[t.of]
      BY <2>0, <2>2, Parts, DecodeKind DEF SizeBy
    <3> QED
      BY <1>1, <3>1, SoundIs
  <2>3. CASE t.kind = "struct"
    <3>1. Size[t] = t.size
      BY <2>0, <2>3 DEF SizeBy, Wrappers
    <3>2. n < t.size => r = Fail
      BY <2>3, DecodeKind DEF r
    <3>3. ~(n < t.size) /\ z = TRUE => r.res = "ok"
      <4>1. ASSUME ~(n < t.size), z = TRUE PROVE r = Ok({})
        BY <2>3, <4>1, DecodeKind DEF r
      <4>2. Ok({}).res = "ok"
        BY DEF Ok
      <4> QED
        BY <4>1, <4>2
    <3>4. ASSUME ~(n < t.size), z = FALSE PROVE r.res = "ok"
      <4>1. ASSUME NEW k \in 1..Len(t.fields) PROVE FieldValue(Decode, n, cap, t.fields[k]).res = "ok"
        <5> DEFINE field == t.fields[k]
        <5>1. field.type \in MadeOf(t) /\ field.type \in Types /\ field.offset \in Int64 /\ field.offset \in Int
          BY <2>3, Parts
        <5>2. field.bits = 0 /\ field.offset >= 0 /\ field.offset + Size[field.type] <= t.size
          BY <1>1, <2>0, <2>3 DEF Sound
        <5>3. Size[field.type] \in Nat /\ \A c \in Room(field.type) : PartDecoded(field.type, c).res = "ok"
          BY <2>1, <5>1
        <5>4. field.offset + Size[field.type] <= n /\ Size[field.type] >= 0
          BY <2>0, <3>1, <3>4, <5>1, <5>2, <5>3
        <5> HIDE DEF field
        <5>5. /\ cap - field.offset \in Room(field.type)
              /\ FieldValue(Decode, n, cap, field).res = PartDecoded(field.type, cap - field.offset).res
          BY <1>1, <5>1, <5>2, <5>4, FieldIs
        <5> QED
          BY <5>3, <5>5 DEF field
      <4>2. Decode[Call(t, n, cap, FALSE)].res = "ok"
        BY <2>3, <3>4, <4>1, StructIs
      <4> QED
        BY <3>4, <4>2 DEF r
    <3> QED
      BY <2>fits, <3>1, <3>2, <3>3, <3>4 DEF r
  <2>4. CASE t.kind = "array"
    <3>1. /\ t.count \in 0..MaxCount /\ t.count \in Nat /\ t.of \in MadeOf(t)
          /\ t.count * Size[t.of] \in Int64
      BY <1>1, <2>0, <2>4, Parts DEF Sound
    <3>2. n < Size[t] => r = Fail
      BY <2>4, DecodeKind DEF r
    <3>3. ~(n < Size[t]) /\ z = TRUE => r.res = "ok"
      <4>1. ASSUME ~(n < Size[t]), z = TRUE PROVE r = Ok({})
        BY <2>4, <4>1, DecodeKind DEF r
      <4>2. Ok({}).res = "ok"
        BY DEF Ok
      <4> QED
        BY <4>1, <4>2
    <3>4. ASSUME ~(n < Size[t]), z = FALSE PROVE r.res = "ok"
      <4>1. ASSUME NEW k \in 1..t.count PROVE Element(Decode, cap, k, t).res = "ok"
        <5>1. t.of \in Types /\ Size[t.of] \in Nat /\ k \in Int /\ k >= 1 /\ k <= t.count
          BY <2>1, <3>1
        <5>2. Size[t.of] * k <= cap
          BY <1>1, <2>4, <3>1, <3>4, <5>1, ElementEndsIn
        <5>3. /\ cap - Size[t.of] * (k - 1) \in Room(t.of)
              /\ Element(Decode, cap, k, t).res = PartDecoded(t.of, cap - Size[t.of] * (k - 1)).res
          BY <1>1, <5>1, <5>2, ElementIs
        <5> QED
          BY <2>1, <3>1, <5>3
      <4>2. Decode[Call(t, n, cap, FALSE)].res = "ok"
        BY <2>4, <3>1, <3>4, <4>1, ArrayIs
      <4> QED
        BY <3>4, <4>2 DEF r
    <3> QED
      BY <2>fits, <3>2, <3>3, <3>4 DEF r
  <2>5. CASE t.kind \in Integer_ \cup Bytes \cup Floats
    <3>1. Decode[Call(t, n, cap, z)] = Scalar(n, t, z) /\ t.size \in SizesOf(t.kind)
      BY <1>1, <2>0, <2>5, DecodeKind DEF Sound
    <3>2. Size[t] = t.size
      BY <2>0, <2>5 DEF SizeBy, Wrappers, Integer_, Bytes, Floats
    <3>3. n < t.size => r = Fail
      BY <3>1 DEF Scalar, r
    <3>4. ~(n < t.size) => r.res = "ok"
      BY <3>1 DEF Scalar, Ok, r
    <3> QED
      BY <2>fits, <3>2, <3>3, <3>4 DEF r
  <2>6. t.kind # "other" /\ t.kind \in Kinds
    BY <1>1, <2>0, TypesAssumption DEF IsType, Sound
  <2> QED
    BY <2>2, <2>3, <2>4, <2>5, <2>6 DEF Kinds
<1>2. \A t \in Types : (\A p \in MadeOf(t) : p \in S) => t \in S
  BY <1>1
<1>3. \A t \in Types : t \in S
  <2> HIDE DEF S
  <2>1. S \in SUBSET Types
    BY DEF S
  <2> QED
    BY <1>2, <2>1, AllTypes
<1> QED
  BY <1>3

\* Scalars within n bytes, and scalars of which no two share bytes.
Bounded(leaves, n) == \A l \in leaves : 0 <= l.from /\ l.from + l.size <= n
Apart(leaves) ==
    \A l, m \in leaves : l = m \/ l.from + l.size <= m.from \/ m.from + m.size <= l.from

\* l is the scalar m, d bytes further on.
Moved(l, m, d) ==
    /\ m.from \in Int /\ m.size \in Int
    /\ l.from = m.from + d /\ l.size = m.size /\ l = [m EXCEPT !.from = @ + d]

\* A scalar further on is one of those that were moved.
LEMMA ShiftIs ==
    ASSUME NEW leaves, leaves \subseteq Leaves, NEW d \in Int, NEW l, l \in Shift(leaves, d)
    PROVE  \E m \in leaves : Moved(l, m, d)
<1>1. PICK m \in leaves : l = [m EXCEPT !.from = @ + d]
  BY DEF Shift
<1>2. m \in Leaves
  OBVIOUS
<1>3. l.from = m.from + d /\ l.size = m.size /\ m.from \in Int /\ m.size \in Int
  BY <1>1, <1>2 DEF Leaves
<1> QED
  BY <1>1, <1>3 DEF Moved

\* Moving s bytes into n leaves their scalars within the bytes, and apart.
LEMMA ShiftKeeps ==
    ASSUME NEW leaves, leaves \subseteq Leaves, NEW d \in Nat, NEW s \in Int, NEW n \in Int,
           d + s <= n,
           Bounded(leaves, s)
    PROVE  Bounded(Shift(leaves, d), n) /\ (Apart(leaves) => Apart(Shift(leaves, d)))
<1>1. ASSUME NEW l \in Shift(leaves, d) PROVE 0 <= l.from /\ l.from + l.size <= n
  <2>1. PICK m \in leaves : Moved(l, m, d)
    BY ShiftIs
  <2>2. 0 <= m.from /\ m.from + m.size <= s
    BY DEF Bounded
  <2> QED
    BY <2>1, <2>2 DEF Moved
<1>2. ASSUME Apart(leaves), NEW k \in Shift(leaves, d), NEW l \in Shift(leaves, d)
      PROVE  k = l \/ k.from + k.size <= l.from \/ l.from + l.size <= k.from
  <2>1. PICK i \in leaves : Moved(k, i, d)
    BY ShiftIs
  <2>2. PICK j \in leaves : Moved(l, j, d)
    BY ShiftIs
  <2>3. i = j \/ i.from + i.size <= j.from \/ j.from + j.size <= i.from
    BY <1>2 DEF Apart
  <2>4. i = j => k = l
    BY <2>1, <2>2 DEF Moved
  <2>5. /\ i.from \in Int /\ i.size \in Int /\ k.from = i.from + d /\ k.size = i.size
        /\ j.from \in Int /\ j.size \in Int /\ l.from = j.from + d /\ l.size = j.size
    BY <2>1, <2>2 DEF Moved
  <2> QED
    BY <2>3, <2>4, <2>5
<1> QED
  BY <1>1, <1>2 DEF Bounded, Apart

\* What lies behind d + s does not share bytes with s bytes at d.
LEMMA BehindApart ==
    ASSUME NEW a, a \subseteq Leaves, NEW b, b \subseteq Leaves, NEW s \in Int, NEW u \in Int,
           Bounded(a, s), Bounded(b, u), NEW d \in Int, NEW e \in Int, d + s <= e,
           NEW l \in Shift(a, d), NEW m \in Shift(b, e)
    PROVE  l.from + l.size <= m.from
<1>1. PICK i \in a : Moved(l, i, d)
  BY ShiftIs
<1>2. PICK j \in b : Moved(m, j, e)
  BY ShiftIs
<1>3. i.from + i.size <= s /\ 0 <= j.from
  BY DEF Bounded
<1> QED
  BY <1>1, <1>2, <1>3 DEF Moved

NoUnion(t) == \A p \in PartsOf[t] : ~IsUnion(p)

\* What is right about what decodeValue read of the n bytes of a type.
Whole(t, n, z, leaves) ==
    /\ leaves = IF z THEN {} ELSE Scalars[t]
    /\ Bounded(leaves, n)
    /\ NoUnion(t) => Apart(leaves)

\* Of a zero-filled symbol nothing has to be read.
LEMMA NothingWhole == ASSUME NEW t, NEW n PROVE Whole(t, n, TRUE, {})
  BY DEF Whole, Bounded, Apart

\* What decodeValue read of a part, wherever it was, is whole.
PartWhole(p) == \A cap \in Room(p) :
    PartDecoded(p, cap).res = "ok" => Whole(p, Size[p], FALSE, PartDecoded(p, cap).leaves)

\* A structure is whole if its fields are.
LEMMA StructWhole ==
    ASSUME NEW t \in Types, t.kind = "struct", NEW n \in Nat, NEW cap \in Nat, n <= cap,
           cap < Half, ~(n < t.size),
           \A p \in MadeOf(t) : PartWhole(p),
           Decode[Call(t, n, cap, FALSE)].res = "ok"
    PROVE  Whole(t, n, FALSE, Decode[Call(t, n, cap, FALSE)].leaves)
<1> DEFINE type(k) == t.fields[k].type
           of(k) == Shift(Scalars[type(k)], t.fields[k].offset)
           leaves == Decode[Call(t, n, cap, FALSE)].leaves
<1>1. ASSUME NEW k \in 1..Len(t.fields)
      PROVE  /\ type(k) \in MadeOf(t) /\ type(k) \in Types /\ t.fields[k].offset \in Nat
             /\ Size[type(k)] \in Nat /\ t.fields[k].offset + Size[type(k)] <= n
             /\ Scalars[type(k)] \in SUBSET Leaves
             /\ Whole(type(k), Size[type(k)], FALSE, Scalars[type(k)])
             /\ FieldValue(Decode, n, cap, t.fields[k]).leaves = of(k)
  <2> DEFINE field == t.fields[k]
             d == PartDecoded(field.type, cap - field.offset)
  <2>1. FieldValue(Decode, n, cap, field).res = "ok"
    BY StructOk
  <2>2. field.type \in MadeOf(t) /\ field.type \in Types /\ field.offset \in Int64
    BY Parts
  <2>3. /\ field.offset \in Nat /\ Size[field.type] \in Nat /\ field.offset + Size[field.type] <= n
        /\ cap - field.offset \in Room(field.type) /\ d.res = "ok"
        /\ FieldValue(Decode, n, cap, field).leaves = Shift(d.leaves, field.offset)
    <3> HIDE DEF field
    <3> QED
      BY <2>1, <2>2, FieldIs
  <2>4. Whole(field.type, Size[field.type], FALSE, d.leaves)
    BY <2>2, <2>3 DEF PartWhole
  <2>5. d.leaves = Scalars[field.type]
    BY <2>4 DEF Whole
  <2>6. Scalars[field.type] \in SUBSET Leaves
    BY <2>2, ScalarsIs
  <2> QED
    BY <2>2, <2>3, <2>4, <2>5, <2>6
<1>2. leaves = UNION {of(k) : k \in 1..Len(t.fields)}
  <2>1. leaves = UNION {FieldValue(Decode, n, cap, t.fields[k]).leaves : k \in 1..Len(t.fields)}
    BY StructOk
  <2> QED
    BY <1>1, <2>1
<1> HIDE DEF leaves
<1>3. leaves = Scalars[t]
  <2>2. leaves = UNION {Shift(Scalars[type(k)], t.fields[k].offset) : k \in 1..Len(t.fields)}
    BY <1>2
  <2>3. Scalars[t] = ScalarsBy(Scalars, t)
    BY ScalarsIs
  <2> QED
    BY <2>2, <2>3, Zenon DEF ScalarsBy, Wrappers
<1>4. ASSUME NEW k \in 1..Len(t.fields)
      PROVE  Bounded(of(k), n) /\ (Apart(Scalars[type(k)]) => Apart(of(k)))
  <2> DEFINE d == Scalars[type(k)]
             offset == t.fields[k].offset
             size == Size[type(k)]
  <2>1. d \in SUBSET Leaves /\ offset \in Nat /\ size \in Nat /\ offset + size <= n
    BY <1>1
  <2>2. Bounded(d, size)
    BY <1>1 DEF Whole
  <2> HIDE DEF d, offset, size
  <2>3. Bounded(Shift(d, offset), n) /\ (Apart(d) => Apart(Shift(d, offset)))
    <3>1. d \subseteq Leaves /\ size \in Int /\ n \in Int
      BY <2>1
    <3> QED
      BY <2>1, <2>2, <3>1, ShiftKeeps, Zenon
  <2> QED
    BY <2>3 DEF d, offset
<1>5. Bounded(leaves, n)
  BY <1>2, <1>4 DEF Bounded
<1>6. ASSUME NoUnion(t) PROVE Apart(leaves)
  <2>1. ~IsUnion(t) /\ \A p \in MadeOf(t) : NoUnion(p)
    BY <1>6, OwnParts DEF NoUnion
  <2>2. ASSUME NEW j \in 1..Len(t.fields), NEW k \in 1..Len(t.fields), j < k,
               NEW l \in of(j), NEW m \in of(k)
        PROVE  l.from + l.size <= m.from
    <3>1. t.fields[j].offset + Size[type(j)] <= t.fields[k].offset
      <4>1. ~(t.fields[k].offset < t.fields[j].offset + Size[type(j)])
        BY <2>1, <2>2 DEF IsUnion
      <4>2. /\ t.fields[k].offset \in Nat /\ t.fields[j].offset \in Nat /\ Size[type(j)] \in Nat
        BY <1>1
      <4> QED
        BY <4>1, <4>2
    <3>2. /\ Bounded(Scalars[type(j)], Size[type(j)])
          /\ Bounded(Scalars[type(k)], Size[type(k)])
      <4>1. Whole(type(j), Size[type(j)], FALSE, Scalars[type(j)])
        BY <1>1
      <4>2. Whole(type(k), Size[type(k)], FALSE, Scalars[type(k)])
        BY <1>1
      <4> QED
        BY <4>1, <4>2 DEF Whole
    <3>3. /\ Size[type(j)] \in Int /\ Size[type(k)] \in Int
          /\ t.fields[j].offset \in Int /\ t.fields[k].offset \in Int
      <4>1. Size[type(j)] \in Nat /\ t.fields[j].offset \in Nat
        BY <1>1
      <4>2. Size[type(k)] \in Nat /\ t.fields[k].offset \in Nat
        BY <1>1
      <4> QED
        BY <4>1, <4>2
    <3>4. Scalars[type(j)] \in SUBSET Leaves
      BY <1>1
    <3>5. Scalars[type(k)] \in SUBSET Leaves
      BY <1>1
    <3>6. Scalars[type(j)] \subseteq Leaves /\ Scalars[type(k)] \subseteq Leaves
      BY <3>4, <3>5
    <3> QED
      BY <2>2, <3>1, <3>2, <3>3, <3>6, BehindApart
  <2>3. \A k \in 1..Len(t.fields) : Apart(of(k))
    <3>1. ASSUME NEW k \in 1..Len(t.fields) PROVE Apart(Scalars[type(k)])
      <4>1. Whole(type(k), Size[type(k)], FALSE, Scalars[type(k)])
            /\ type(k) \in MadeOf(t)
        BY <1>1
      <4> QED
        BY <2>1, <4>1 DEF Whole
    <3> QED
      BY <1>4, <3>1
  <2>4. ASSUME NEW l \in leaves, NEW m \in leaves
        PROVE  l = m \/ l.from + l.size <= m.from \/ m.from + m.size <= l.from
    <3>1. PICK j \in 1..Len(t.fields) : l \in of(j)
      BY <1>2
    <3>2. PICK k \in 1..Len(t.fields) : m \in of(k)
      BY <1>2
    <3>3. CASE j = k
      BY <2>3, <3>1, <3>2, <3>3 DEF Apart
    <3>4. CASE j < k
      BY <2>2, <3>1, <3>2, <3>4
    <3>5. CASE k < j
      BY <2>2, <3>1, <3>2, <3>5
    <3> QED
      BY <3>3, <3>4, <3>5
  <2> QED
    BY <2>4 DEF Apart
<1> QED
  BY <1>3, <1>5, <1>6 DEF Whole, leaves

\* An array is whole if its elements are.
LEMMA ArrayWhole ==
    ASSUME NEW t \in Types, t.kind = "array", NEW n \in Nat, NEW cap \in Nat, n <= cap,
           cap < Half, ~(n < Size[t]), t.count \in 0..MaxCount, PartWhole(t.of),
           Decode[Call(t, n, cap, FALSE)].res = "ok"
    PROVE  Whole(t, n, FALSE, Decode[Call(t, n, cap, FALSE)].leaves)
<1> DEFINE s == Size[t.of]
           d == Scalars[t.of]
           of(k) == Shift(d, s * (k - 1))
           leaves == Decode[Call(t, n, cap, FALSE)].leaves
<1>1. /\ t.of \in Types /\ t.of \in MadeOf(t) /\ s \in Int /\ t.count \in Nat
      /\ Size[t] = Wrapped(t.count * s) /\ Size[t] \in Int
  <2>1. t.of \in Types /\ t.of \in MadeOf(t) /\ t.count \in Int
    BY Parts
  <2>2. Size[t] = SizeBy(Size, t) /\ Size[t] \in Int /\ s \in Int
    BY <2>1, SizeIs
  <2> QED
    BY <2>1, <2>2 DEF SizeBy, Wrappers
<1>0. \A k \in 1..t.count : s \in Nat /\ s * k <= cap
  <2>1. \A k \in 1..t.count : Element(Decode, cap, k, t) # Panic
    <3>1. \A k \in 1..t.count : Element(Decode, cap, k, t).res = "ok"
      BY ArrayIs
    <3> QED
      BY <3>1 DEF Panic
  <2> QED
    BY <1>1, <2>1, ElementsFit
<1>2. ASSUME NEW k \in 1..t.count
      PROVE  /\ s \in Nat /\ d \subseteq Leaves /\ Whole(t.of, s, FALSE, d)
             /\ Element(Decode, cap, k, t).leaves = of(k)
  <2> DEFINE from == s * (k - 1)
             e == PartDecoded(t.of, cap - from)
  <2>1. Element(Decode, cap, k, t).res = "ok"
    BY ArrayIs
  <2>2. s \in Nat /\ s * k <= cap /\ k \in Int /\ k >= 1
    BY <1>0, <1>1
  <2>3. /\ cap - from \in Room(t.of) /\ e.res = "ok"
        /\ Element(Decode, cap, k, t).leaves = Shift(e.leaves, from)
    BY <1>1, <2>1, <2>2, ElementIs
  <2>4. Whole(t.of, s, FALSE, e.leaves)
    BY <2>3 DEF PartWhole
  <2>5. e.leaves = d
    BY <2>4 DEF Whole
  <2>6. d \in SUBSET Leaves
    BY <1>1, ScalarsIs
  <2> QED
    BY <2>2, <2>3, <2>4, <2>5, <2>6
<1>3. leaves = UNION {of(k) : k \in 1..t.count}
  <2>1. leaves = UNION {Element(Decode, cap, k, t).leaves : k \in 1..t.count}
    BY ArrayIs
  <2> QED
    BY <1>2, <2>1
<1> HIDE DEF leaves
<1>4. leaves = Scalars[t]
  <2>2. ASSUME NEW k \in 1..t.count
        PROVE  k - 1 \in 0..(t.count - 1) /\ of(k) = Shift(Scalars[t.of], (k - 1) * s)
    <3>1. s * (k - 1) = (k - 1) * s /\ k - 1 \in 0..(t.count - 1)
      BY <1>1
    <3> QED
      BY <3>1
  <2>3. ASSUME NEW k \in 0..(t.count - 1)
        PROVE  k + 1 \in 1..t.count /\ of(k + 1) = Shift(Scalars[t.of], k * s)
    <3>1. k + 1 \in 1..t.count /\ s * ((k + 1) - 1) = k * s
      BY <1>1
    <3> QED
      BY <3>1
  <2>4. UNION {of(k) : k \in 1..t.count}
          = UNION {Shift(Scalars[t.of], k * s) : k \in 0..(t.count - 1)}
    <3> HIDE DEF of, s
    <3>1. {of(k) : k \in 1..t.count} = {Shift(Scalars[t.of], k * s) : k \in 0..(t.count - 1)}
      BY <2>2, <2>3
    <3> QED
      BY <3>1
  <2>5. Scalars[t] = ScalarsBy(Scalars, t)
    BY ScalarsIs
  <2> QED
    BY <1>3, <2>4, <2>5, Zenon DEF ScalarsBy, Wrappers
<1>5. ASSUME NEW k \in 1..t.count
      PROVE  s * (k - 1) \in Nat /\ s * (k - 1) + s = s * k /\ s * k <= n /\ s * k \in Int
  <2>1. t.count \in 1..t.count /\ k - 1 \in Nat /\ k \in Int /\ k <= t.count
    BY <1>1
  <2>2. s \in Nat /\ s * t.count <= cap
    BY <1>0, <2>1
  <2>3. s * (k - 1) \in Nat /\ s * (k - 1) + s = s * k /\ s * k \in Int
    BY <2>1, <2>2
  <2>4. s * k <= s * t.count
    BY <1>1, <2>1, <2>2, Times
  <2>5. s * t.count = t.count * s /\ t.count * s \in Nat
    BY <1>1, <2>2
  <2>6. t.count * s \in Int64
    BY <2>2, <2>5, Int64Is
  <2>7. Size[t] = t.count * s
    BY <1>1, <2>5, <2>6, WrappedIs
  <2> QED
    BY <2>3, <2>4, <2>5, <2>7
<1>6. \A k \in 1..t.count : Bounded(of(k), n) /\ (Apart(d) => Apart(of(k)))
  <2>1. ASSUME NEW k \in 1..t.count PROVE Bounded(of(k), n) /\ (Apart(d) => Apart(of(k)))
    <3>1. Bounded(d, s) /\ d \subseteq Leaves /\ s \in Int
      BY <1>2 DEF Whole
    <3>2. s * (k - 1) \in Nat /\ s * (k - 1) + s <= n
      BY <1>5
    <3>3. d \subseteq Leaves /\ n \in Int
      BY <3>1
    <3> DEFINE start == s * (k - 1)
    <3> HIDE DEF s, d, start
    <3>4. start \in Nat /\ start + s <= n
      BY <3>2 DEF start
    <3>5. Bounded(Shift(d, start), n) /\ (Apart(d) => Apart(Shift(d, start)))
      BY <3>1, <3>3, <3>4, ShiftKeeps, Zenon
    <3> QED
      BY <3>5 DEF start
  <2> QED
    BY <2>1
<1>7. Bounded(leaves, n)
  BY <1>3, <1>6 DEF Bounded
<1>8. ASSUME NoUnion(t) PROVE Apart(leaves)
  <2>1. NoUnion(t.of)
    BY <1>1, <1>8, OwnParts DEF NoUnion
  <2>2. ASSUME NEW j \in 1..t.count, NEW k \in 1..t.count, j < k, NEW l \in of(j), NEW m \in of(k)
        PROVE  l.from + l.size <= m.from
    <3>1. s \in Nat /\ s \in Int /\ d \subseteq Leaves /\ Bounded(d, s)
      BY <1>2 DEF Whole
    <3>2. s * j <= s * (k - 1)
      BY <2>2, <3>1, Times
    <3>3. /\ s * (j - 1) + s <= s * (k - 1)
          /\ s * (j - 1) \in Int /\ s * (k - 1) \in Int
      BY <1>5, <3>2
    <3> QED
      <4> DEFINE x == s * (j - 1)
                 y == s * (k - 1)
      <4>1. l \in Shift(d, x) /\ m \in Shift(d, y) /\ x \in Int /\ y \in Int /\ x + s <= y
        BY <2>2, <3>3
      <4>2. d \subseteq Leaves /\ s \in Int /\ Bounded(d, s)
        BY <3>1
      <4> HIDE DEF s, d, x, y
      <4> QED
        BY <4>1, <4>2, BehindApart
  <2>3. \A k \in 1..t.count : Apart(of(k))
    BY <1>2, <1>6, <2>1 DEF Whole
  <2>4. ASSUME NEW l \in leaves, NEW m \in leaves
        PROVE  l = m \/ l.from + l.size <= m.from \/ m.from + m.size <= l.from
    <3>1. PICK j \in 1..t.count : l \in of(j)
      BY <1>3
    <3>2. PICK k \in 1..t.count : m \in of(k)
      BY <1>3
    <3>3. CASE j = k
      BY <2>3, <3>1, <3>2, <3>3 DEF Apart
    <3>4. CASE j < k
      BY <2>2, <3>1, <3>2, <3>4
    <3>5. CASE k < j
      BY <2>2, <3>1, <3>2, <3>5
    <3> QED
      BY <3>3, <3>4, <3>5
  <2> QED
    BY <2>4 DEF Apart
<1> QED
  BY <1>4, <1>7, <1>8 DEF Whole, leaves

\* What was read of a scalar is whole.
LEMMA ScalarWhole ==
    ASSUME NEW t \in Types, t.kind \in Integer_ \cup Bytes \cup Floats, NEW n \in Nat,
           NEW z \in BOOLEAN, Scalar(n, t, z).res = "ok"
    PROVE  Whole(t, n, z, Scalar(n, t, z).leaves)
<1>1. t.size \in Int /\ ~(n < t.size) /\ Fail.res # "ok"
  BY Parts DEF Scalar, Fail, Wrappers, Integer_, Bytes, Floats
<1>2. CASE z = TRUE
  <2>1. Scalar(n, t, z) = Ok({})
    BY <1>1, <1>2 DEF Scalar
  <2>2. Scalar(n, t, z).leaves = {}
    BY <2>1 DEF Ok
  <2>3. Whole(t, n, TRUE, {})
    BY NothingWhole
  <2> QED
    BY <1>2, <2>2, <2>3
<1>3. CASE z = FALSE
  <2>1. t.size \in SizesOf(t.kind) /\ Scalar(n, t, z) = Ok(LeavesOf(t))
    BY <1>1, <1>3 DEF Scalar
  <2>2. Scalar(n, t, z).leaves = LeavesOf(t)
    BY <2>1 DEF Ok
  <2>3. LeavesOf(t) = Scalars[t]
    <3>1. Scalars[t] = ScalarsBy(Scalars, t)
      BY ScalarsIs
    <3>2. LeavesOf(t) = ScalarsBy(Scalars, t)
      BY DEF LeavesOf, Leaf, ScalarsBy, Wrappers, Integer_, Bytes, Floats
    <3> QED
      BY <3>1, <3>2
  <2>4. Bounded(LeavesOf(t), n) /\ Apart(LeavesOf(t))
    <3>1. CASE t.kind = "complex"
      <4>1. t.size \in {8, 16}
        BY <2>1, <3>1 DEF SizesOf, Integer_, Bytes
      <4> DEFINE h == t.size \div 2
      <4>2. h \in Nat /\ h + h = t.size
        BY <4>1
      <4>3. LeavesOf(t) = {Leaf(0, h, "float"), Leaf(h, h, "float")}
        BY <3>1 DEF LeavesOf
      <4>4. h + h <= n
        BY <1>1, <4>2
      <4> HIDE DEF h
      <4>5. \A l \in LeavesOf(t) : l.size = h /\ (l.from = 0 \/ l.from = h)
        BY <4>3 DEF Leaf
      <4>6. Bounded(LeavesOf(t), n)
        BY <4>2, <4>4, <4>5 DEF Bounded
      <4>7. Leaf(0, h, "float").from = 0 /\ Leaf(0, h, "float").size = h
            /\ Leaf(h, h, "float").from = h /\ Leaf(h, h, "float").size = h
        BY DEF Leaf
      <4>8. Apart(LeavesOf(t))
        BY <4>2, <4>3, <4>7 DEF Apart
      <4> QED
        BY <4>6, <4>8
    <3>2. CASE t.kind # "complex"
      BY <1>1, <3>2 DEF LeavesOf, Leaf, Bounded, Apart
    <3> QED
      BY <3>1, <3>2
  <2> QED
    BY <1>3, <2>2, <2>3, <2>4 DEF Whole
<1> QED
  BY <1>2, <1>3

\* What decodeValue read, of any type, is whole.
LEMMA WholeOf ==
    \A t \in Types, n \in Nat, cap \in Nat, z \in BOOLEAN :
        n <= cap /\ cap < Half /\ Decode[Call(t, n, cap, z)].res = "ok" =>
           Whole(t, n, z, Decode[Call(t, n, cap, z)].leaves)
<1> DEFINE S == {t \in Types : \A n \in Nat, cap \in Nat, z \in BOOLEAN :
                   n <= cap /\ cap < Half /\ Decode[Call(t, n, cap, z)].res = "ok" =>
                      Whole(t, n, z, Decode[Call(t, n, cap, z)].leaves)}
<1>1. ASSUME NEW t \in Types, \A p \in MadeOf(t) : p \in S, NEW n \in Nat, NEW cap \in Nat,
             NEW z \in BOOLEAN, n <= cap, cap < Half, Decode[Call(t, n, cap, z)].res = "ok"
      PROVE  Whole(t, n, z, Decode[Call(t, n, cap, z)].leaves)
  <2>1. \A p \in MadeOf(t) : PartWhole(p)
    BY <1>1 DEF PartWhole, PartDecoded, Room
  <2>2. CASE t.kind \in Wrappers
    <3>1. t.of \in MadeOf(t) /\ t.of \in Types /\ MadeOf(t) = {t.of}
          /\ Decode[Call(t, n, cap, z)] = Decode[Call(t.of, n, cap, z)]
      BY <2>2, Parts, DecodeKind
    <3>2. Whole(t.of, n, z, Decode[Call(t, n, cap, z)].leaves)
      BY <1>1, <3>1
    <3>3. Scalars[t] = Scalars[t.of]
      <4>1. Scalars[t] = ScalarsBy(Scalars, t)
        BY ScalarsIs
      <4> QED
        BY <2>2, <4>1 DEF ScalarsBy
    <3>4. NoUnion(t) => NoUnion(t.of)
      BY <3>1, OwnParts DEF NoUnion
    <3> QED
      BY <3>2, <3>3, <3>4 DEF Whole
  <2>3. CASE t.kind = "struct"
    <3>1. ~(n < t.size)
      BY <1>1, <2>3, DecodeKind DEF Fail
    <3>2. CASE z = TRUE
      <4>1. Decode[Call(t, n, cap, z)] = Ok({})
        BY <2>3, <3>1, <3>2, DecodeKind
      <4>2. Decode[Call(t, n, cap, z)].leaves = {}
        BY <4>1 DEF Ok
      <4>3. Whole(t, n, TRUE, {})
        BY NothingWhole
      <4> QED
        BY <3>2, <4>2, <4>3
    <3>3. CASE z = FALSE
      BY <1>1, <2>1, <2>3, <3>1, <3>3, StructWhole
    <3> QED
      BY <3>2, <3>3
  <2>4. CASE t.kind = "array"
    <3>1. ~(n < Size[t])
      BY <1>1, <2>4, DecodeKind DEF Fail
    <3>2. CASE z = TRUE
      <4>1. Decode[Call(t, n, cap, z)] = Ok({})
        BY <2>4, <3>1, <3>2, DecodeKind
      <4>2. Decode[Call(t, n, cap, z)].leaves = {}
        BY <4>1 DEF Ok
      <4>3. Whole(t, n, TRUE, {})
        BY NothingWhole
      <4> QED
        BY <3>2, <4>2, <4>3
    <3>3. CASE z = FALSE
      <4>1. t.count \in 0..MaxCount
        BY <1>1, <2>4, <3>1, <3>3, DecodeKind DEF Panic
      <4>2. t.of \in MadeOf(t)
        BY <2>4, Parts
      <4> QED
        BY <1>1, <2>1, <2>4, <3>1, <3>3, <4>1, <4>2, ArrayWhole
    <3> QED
      BY <3>2, <3>3
  <2>5. CASE t.kind \in Integer_ \cup Bytes \cup Floats
    BY <1>1, <2>5, DecodeKind, ScalarWhole
  <2>6. CASE t.kind = "other"
    BY <1>1, <2>6, DecodeKind DEF Fail
  <2>7. t.kind \in Kinds
    BY TypesAssumption DEF IsType
  <2> QED
    BY <2>2, <2>3, <2>4, <2>5, <2>6, <2>7 DEF Kinds
<1>2. \A t \in Types : (\A p \in MadeOf(t) : p \in S) => t \in S
  BY <1>1
<1>3. \A t \in Types : t \in S
  <2> HIDE DEF S
  <2>1. S \in SUBSET Types
    BY DEF S
  <2> QED
    BY <1>2, <2>1, AllTypes
<1> QED
  BY <1>3

\* An entry in a compile unit.
InUnit(k) ==
    \E j \in 1..(k - 1) :
        info[j].tag = "CompileUnit" /\ \A i \in (j + 1)..k : info[i].depth > 0

\* The search stops only at units and at the children of compile units, and has passed no
\* global variable of the symbol's name.
Searched ==
    phase = "find" =>
        /\ \A k \in Globals : at <= k
        /\ at <= Len(info) => info[at].depth = 0 \/ (info[at].depth = 1 /\ InUnit(at))

\* What is shown is what decodeValue returned.
ShowsDecoded ==
    phase \in {"done", "panic"} =>
        /\ shown = Decode[Call(typ, len, len, zero)]
        /\ (phase = "panic") = (shown.res = "panic")

ViewTypes ==
    /\ info \in Infos /\ name \in Name /\ len \in 0..MaxLen /\ zero \in BOOLEAN
    /\ phase \in {"find", "decode", "nil", "empty", "done", "panic"}
    /\ at \in Nat \ {0}
    /\ phase \in {"decode", "empty", "done", "panic"} => typ \in Types

ViewInv == ViewTypes /\ ShowsDecoded /\ Searched /\ FindsGlobal

\* What the assumption says of the debug information.
LEMMA InfoIs ==
    ASSUME NEW k \in 1..Len(info), info \in Infos
    PROVE  /\ info \in Seq(Entry) /\ IsForest(info) /\ Len(info) \in Nat
           /\ info[k].depth \in Nat /\ info[k].typ \in Types \cup {NoType}
<1>1. info \in Seq(Entry) /\ IsForest(info)
  BY DwarfAssumption
<1>2. info[k] \in Entry
  BY <1>1, ElementIn
<1>3. info[k].depth \in Nat /\ info[k].typ \in Types \cup {NoType}
  BY <1>2 DEF Entry
<1> QED
  BY <1>1, <1>3

\* The entry after the children of an entry.
LEMMA SiblingIs ==
    ASSUME NEW k \in 1..Len(info), info \in Infos
    PROVE  /\ Sibling(k) \in (k + 1)..(Len(info) + 1)
           /\ Sibling(k) <= Len(info) => info[Sibling(k)].depth <= info[k].depth
           /\ \A i \in (k + 1)..(Sibling(k) - 1) : info[i].depth > info[k].depth
<1> DEFINE After == {j \in (k + 1)..(Len(info) + 1) : j <= Len(info) => info[j].depth <= info[k].depth}
<1>1. Len(info) \in Nat /\ \A i \in 1..Len(info) : info[i].depth \in Nat
  BY InfoIs
<1>2. After \in SUBSET Nat /\ Len(info) + 1 \in After
  BY <1>1
<1>3. PICK j \in After : \A i \in After : j <= i
  BY <1>2, FirstOf
<1>4. ASSUME NEW i \in (k + 1)..(j - 1) PROVE info[i].depth > info[k].depth
  <2>1. j \in Nat /\ j <= Len(info) + 1
    BY <1>1, <1>3
  <2>2. i \in (k + 1)..(Len(info) + 1) /\ i <= Len(info) /\ i \in 1..Len(info) /\ ~(j <= i)
    BY <1>1, <2>1
  <2>3. i \notin After
    BY <1>3, <2>2
  <2>4. info[i].depth \in Nat /\ info[k].depth \in Nat
    BY <1>1, <2>2
  <2> QED
    BY <2>2, <2>3, <2>4
<1>5. \E m \in (k + 1)..(Len(info) + 1) :
        /\ m <= Len(info) => info[m].depth <= info[k].depth
        /\ \A i \in (k + 1)..(m - 1) : info[i].depth > info[k].depth
  BY <1>3, <1>4
<1> QED
  BY <1>5, Zenon DEF Sibling

\* The global variables of the name are those in a unit, at its top.
LEMMA GlobalsIs ==
    Globals = {k \in 1..Len(info) : info[k].depth = 1 /\ IsVariable(info[k]) /\ InUnit(k)}
  BY DEF Globals, InUnit

\* The first of a set of numbers is the one CHOOSE finds.
LEMMA FirstIs ==
    ASSUME NEW S \in SUBSET Nat, NEW x \in S, \A y \in S : x <= y
    PROVE  (CHOOSE k \in S : \A j \in S : k <= j) = x
<1> DEFINE c == CHOOSE k \in S : \A j \in S : k <= j
<1>1. c \in S /\ \A j \in S : c <= j
  <2>1. \E k \in S : \A j \in S : k <= j
    OBVIOUS
  <2> QED
    BY <2>1, Zenon
<1>2. c <= x /\ x <= c /\ c \in Nat /\ x \in Nat
  BY <1>1
<1> QED
  BY <1>2

\* What is passed over holds no global variable, and the search stops at the entries it may.
LEMMA PassKeepsSearched == ASSUME ViewTypes, Searched, Pass PROVE Searched'
<1>1. /\ info \in Infos /\ at \in 1..Len(info) /\ at \in Nat /\ Len(info) \in Nat
      /\ info' = info /\ name' = name /\ phase = "find"
  <2>1. info \in Seq(Entry)
    BY DwarfAssumption DEF ViewTypes
  <2> QED
    BY <2>1 DEF Pass, ViewTypes
<1>2. \A i \in 1..Len(info) : info[i].depth \in Nat
  BY <1>1, InfoIs
<1>3. /\ \A i \in 1..Len(info) : info[i].tag = "CompileUnit" => info[i].depth = 0
      /\ \A i \in 1..Len(info) : i > 1 => info[i].depth = 0 \/ info[i].depth <= info[i - 1].depth + 1
  BY <1>1, DwarfAssumption DEF IsForest
<1>4. \A k \in Globals : at <= k /\ k \in 1..Len(info) /\ k # at
  <2>1. ~IsVariable(info[at])
    BY DEF Pass
  <2>2. \A k \in Globals : at <= k
    BY <1>1 DEF Searched
  <2> QED
    BY <2>1, <2>2, GlobalsIs
<1>5. info[at].depth = 0 \/ (info[at].depth = 1 /\ InUnit(at))
  BY <1>1 DEF Searched
<1>6. SUFFICES /\ \A k \in Globals : at' <= k
               /\ at' <= Len(info) => info[at'].depth = 0 \/ (info[at'].depth = 1 /\ InUnit(at'))
  <2>1. Globals' = Globals
    BY <1>1 DEF Globals, IsVariable
  <2>2. InUnit(at)' <=> InUnit(at')
    BY <1>1 DEF InUnit
  <2> QED
    BY <1>1, <2>1, <2>2 DEF Searched
<1>7. CASE info[at].tag = "CompileUnit"
  <2>1. at' = at + 1 /\ info[at].depth = 0
    BY <1>1, <1>3, <1>7 DEF Pass
  <2>2. \A k \in Globals : at' <= k
    BY <1>1, <1>4, <2>1
  <2>3. ASSUME at' <= Len(info) PROVE info[at'].depth = 0 \/ (info[at'].depth = 1 /\ InUnit(at'))
    <3>1. at' \in 1..Len(info) /\ at' > 1 /\ at' - 1 = at
      BY <1>1, <2>1, <2>3
    <3>2. info[at'].depth = 0 \/ info[at'].depth <= info[at].depth + 1
      BY <1>3, <3>1
    <3>3. info[at'].depth = 0 \/ info[at'].depth = 1
      BY <1>2, <2>1, <3>1, <3>2
    <3>4. ASSUME info[at'].depth = 1 PROVE InUnit(at')
      <4>1. at \in 1..(at' - 1) /\ \A i \in (at + 1)..at' : i = at'
        BY <1>1, <2>1
      <4> QED
        BY <1>7, <3>4, <4>1 DEF InUnit
    <3> QED
      BY <3>3, <3>4
  <2> QED
    BY <2>2, <2>3
<1>8. CASE info[at].tag # "CompileUnit"
  <2> DEFINE next == Sibling(at)
  <2>1. at' = next
    BY <1>1, <1>8 DEF Pass
  <2>2. /\ next \in (at + 1)..(Len(info) + 1)
        /\ next <= Len(info) => info[next].depth <= info[at].depth
        /\ \A i \in (at + 1)..(next - 1) : info[i].depth > info[at].depth
    BY <1>1, SiblingIs
  <2> HIDE DEF next
  <2>3. ASSUME NEW k \in Globals, k < next PROVE FALSE
    <3>1. k \in (at + 1)..(next - 1)
      BY <1>1, <1>4, <2>2, <2>3
    <3>2. info[k].depth = 1 /\ InUnit(k) /\ k \in 1..Len(info)
      BY GlobalsIs
    <3>3. info[at].depth = 0
      BY <1>5, <2>2, <3>1, <3>2
    <3>4. PICK j \in 1..(k - 1) :
            info[j].tag = "CompileUnit" /\ \A i \in (j + 1)..k : info[i].depth > 0
      BY <3>2 DEF InUnit
    <3>5. j \in 1..Len(info) /\ info[j].depth = 0
      BY <1>1, <1>3, <3>2, <3>4
    <3>6. CASE j < at
      <4>1. at \in (j + 1)..k
        BY <1>1, <3>1, <3>6
      <4> QED
        BY <3>3, <3>4, <4>1
    <3>7. CASE j = at
      BY <1>8, <3>4, <3>7
    <3>8. CASE j > at
      <4>1. j \in (at + 1)..(next - 1)
        BY <1>1, <2>2, <3>1, <3>8
      <4> QED
        BY <2>2, <3>3, <3>5, <4>1
    <3> QED
      BY <1>1, <3>6, <3>7, <3>8
  <2>4. \A k \in Globals : next <= k
    BY <1>1, <1>4, <2>2, <2>3
  <2>5. ASSUME next <= Len(info) PROVE info[next].depth = 0 \/ (info[next].depth = 1 /\ InUnit(next))
    <3>1. info[next].depth <= info[at].depth /\ next \in 1..Len(info) /\ info[next].depth \in Nat
      BY <1>1, <1>2, <2>2, <2>5
    <3>2. ASSUME info[next].depth # 0 PROVE info[next].depth = 1 /\ InUnit(next)
      <4>1. info[at].depth = 1 /\ InUnit(at) /\ info[next].depth = 1
        BY <1>5, <3>1, <3>2
      <4>2. PICK j \in 1..(at - 1) :
              info[j].tag = "CompileUnit" /\ \A i \in (j + 1)..at : info[i].depth > 0
        BY <4>1 DEF InUnit
      <4>3. ASSUME NEW i \in (j + 1)..next PROVE info[i].depth > 0
        <5>1. CASE i <= at
          BY <1>1, <4>2, <5>1
        <5>2. CASE i > at /\ i # next
          <6>1. i \in (at + 1)..(next - 1) /\ i \in 1..Len(info)
            BY <1>1, <2>2, <2>5, <5>2
          <6>2. info[i].depth \in Nat /\ info[i].depth > info[at].depth
            BY <1>2, <2>2, <6>1
          <6> QED
            BY <4>1, <6>2
        <5>3. CASE i = next
          BY <4>1, <5>3
        <5> QED
          BY <1>1, <2>2, <5>1, <5>2, <5>3
      <4>4. j \in 1..(next - 1)
        BY <1>1, <2>2
      <4> QED
        BY <4>1, <4>2, <4>3, <4>4 DEF InUnit
    <3> QED
      BY <3>2
  <2> QED
    BY <2>1, <2>4, <2>5
<1> QED
  BY <1>7, <1>8

\* The variable found is the first global one of the symbol's name.
LEMMA FoundIsFirst ==
    ASSUME ViewTypes, Searched, Found
    PROVE  /\ Globals # {} /\ (CHOOSE k \in Globals : \A j \in Globals : k <= j) = at
           /\ info[at].typ \in Types \cup {NoType}
<1>1. info \in Infos /\ at \in 1..Len(info) /\ phase = "find" /\ IsVariable(info[at])
  <2>1. info \in Seq(Entry)
    BY DwarfAssumption DEF ViewTypes
  <2> QED
    BY <2>1 DEF Found, ViewTypes
<1>2. info[at].depth # 0
  BY <1>1, DwarfAssumption DEF IsForest, IsVariable
<1>3. info[at].depth = 1 /\ InUnit(at)
  BY <1>1, <1>2 DEF Searched
<1>4. at \in Globals /\ \A k \in Globals : at <= k
  BY <1>1, <1>3, GlobalsIs DEF Searched
<1>5. Globals \in SUBSET Nat
  BY DEF Globals
<1> HIDE DEF Globals
<1>6. (CHOOSE k \in Globals : \A j \in Globals : k <= j) = at
  BY <1>4, <1>5, FirstIs
<1> QED
  BY <1>1, <1>4, <1>6, InfoIs

\* The invariant of the view.
LEMMA ViewInvariant == ViewSpec => []ViewInv
<1>1. ViewInit => ViewInv
  <2> SUFFICES ASSUME ViewInit PROVE ViewInv
    OBVIOUS
  <2>1. ViewTypes
    BY DEF ViewInit, ViewTypes
  <2>2. ShowsDecoded /\ FindsGlobal
    BY DEF ViewInit, ShowsDecoded, FindsGlobal
  <2>3. Searched
    <3>1. info \in Infos /\ at = 1
      BY DEF ViewInit
    <3>2. \A k \in Globals : at <= k
      BY <3>1 DEF Globals
    <3>3. at <= Len(info) => info[at].depth = 0
      <4>1. info \in Seq(Entry) /\ IsForest(info)
        BY <3>1, DwarfAssumption
      <4> QED
        BY <3>1, <4>1 DEF IsForest
    <3> QED
      BY <3>2, <3>3 DEF Searched
  <2> QED
    BY <2>1, <2>2, <2>3 DEF ViewInv
<1>2. ViewInv /\ [ViewNext]_viewVars => ViewInv'
  <2> SUFFICES ASSUME ViewInv, [ViewNext]_viewVars PROVE ViewInv'
    OBVIOUS
  <2> USE DEF ViewInv
  <2>0. info' = info /\ name' = name => Globals' = Globals
    BY DEF Globals, IsVariable
  <2>1. CASE Found
    <3>1. /\ Globals # {} /\ (CHOOSE k \in Globals : \A j \in Globals : k <= j) = at
          /\ info[at].typ \in Types \cup {NoType}
      BY <2>1, FoundIsFirst
    <3>2. /\ typ' = info[at].typ /\ phase' = IF typ' = NoType THEN "nil" ELSE "decode"
          /\ info' = info /\ name' = name /\ len' = len /\ zero' = zero /\ at' = at
      BY <2>1 DEF Found
    <3>3. ViewTypes'
      BY <3>1, <3>2 DEF ViewTypes
    <3>4. ShowsDecoded' /\ Searched'
      BY <3>2 DEF ShowsDecoded, Searched
    <3>5. Globals' = Globals
      BY <2>0, <3>2
    <3>6. FindsGlobal'
      BY <3>1, <3>2, <3>5, Zenon DEF FindsGlobal
    <3> QED
      BY <3>3, <3>4, <3>6
  <2>2. CASE Pass
    <3>1. /\ info' = info /\ name' = name /\ len' = len /\ zero' = zero /\ phase' = phase
          /\ phase = "find"
      BY <2>2 DEF Pass
    <3>2. at' \in Nat \ {0}
      <4>1. info \in Seq(Entry) /\ at \in 1..Len(info) /\ info \in Infos /\ at \in Nat
        BY <2>2, DwarfAssumption DEF Pass, ViewTypes
      <4>2. Sibling(at) \in (at + 1)..(Len(info) + 1)
        BY <4>1, SiblingIs
      <4>3. at' = at + 1 \/ at' = Sibling(at)
        BY <2>2 DEF Pass
      <4> QED
        BY <4>1, <4>2, <4>3
    <3>3. ViewTypes' /\ ShowsDecoded' /\ FindsGlobal'
      BY <3>1, <3>2 DEF ViewTypes, ShowsDecoded, FindsGlobal
    <3>4. Searched'
      BY <2>2, PassKeepsSearched
    <3> QED
      BY <3>3, <3>4
  <2>3. CASE NotFound
    <3>1. /\ info' = info /\ name' = name /\ len' = len /\ zero' = zero /\ at' = at
          /\ phase = "find" /\ phase' = "nil" /\ at > Len(info)
      BY <2>3 DEF NotFound
    <3>2. Globals = {}
      <4>1. info \in Seq(Entry) /\ at \in Nat
        BY DwarfAssumption DEF ViewTypes
      <4>2. \A k \in Globals : at <= k /\ k \in 1..Len(info)
        BY <3>1 DEF Searched, Globals
      <4> QED
        BY <3>1, <4>1, <4>2
    <3>3. ViewTypes' /\ ShowsDecoded' /\ Searched'
      BY <3>1 DEF ViewTypes, ShowsDecoded, Searched
    <3>4. FindsGlobal'
      BY <2>0, <3>1, <3>2, Zenon DEF FindsGlobal
    <3> QED
      BY <3>3, <3>4
  <2>4. CASE Show
    <3>1. /\ info' = info /\ name' = name /\ len' = len /\ zero' = zero /\ at' = at /\ typ' = typ
          /\ shown' = Decode[Call(typ, len, len, zero)] /\ phase = "decode"
          /\ phase' = IF shown'.res = "panic" THEN "panic" ELSE "done"
      BY <2>4 DEF Show
    <3>2. ViewTypes'
      BY <3>1 DEF ViewTypes
    <3>3. ShowsDecoded'
      BY <3>1, Zenon DEF ShowsDecoded
    <3>4. Searched'
      BY <3>1 DEF Searched
    <3>5. FindsGlobal'
      BY <2>0, <3>1, Zenon DEF FindsGlobal
    <3> QED
      BY <3>2, <3>3, <3>4, <3>5
  <2>6. CASE ShowNothing
    <3>1. /\ info' = info /\ name' = name /\ len' = len /\ zero' = zero /\ at' = at /\ typ' = typ
          /\ shown' = shown /\ phase = "decode" /\ phase' = "empty"
      BY <2>6 DEF ShowNothing
    <3>2. ViewTypes' /\ ShowsDecoded' /\ Searched'
      BY <3>1 DEF ViewTypes, ShowsDecoded, Searched
    <3>3. FindsGlobal'
      BY <2>0, <3>1, Zenon DEF FindsGlobal
    <3> QED
      BY <3>2, <3>3
  <2>5. CASE UNCHANGED viewVars
    <3>1. /\ info' = info /\ name' = name /\ len' = len /\ zero' = zero /\ phase' = phase
          /\ at' = at /\ typ' = typ /\ shown' = shown
      BY <2>5 DEF viewVars
    <3>2. ViewTypes' /\ ShowsDecoded'
      BY <3>1 DEF ViewTypes, ShowsDecoded
    <3>3. Searched' /\ FindsGlobal'
      BY <2>0, <3>1 DEF Searched, InUnit, FindsGlobal
    <3> QED
      BY <3>2, <3>3
  <2> QED
    BY <2>1, <2>2, <2>3, <2>4, <2>5, <2>6 DEF ViewNext
<1> QED
  BY <1>1, <1>2, PTL DEF ViewSpec

\* The view shows the symbol with the type of the first global variable of its name: the search
\* (newDwarfTypeSymbolModel) never takes a variable of a function for it, and misses none.
THEOREM FindsGlobalVariable == ViewSpec => []FindsGlobal
<1>1. ViewInv => FindsGlobal
  BY DEF ViewInv
<1> QED
  BY <1>1, ViewInvariant, PTL

\* Of the states in which a value is shown.
LEMMA ShownIs ==
    ASSUME ViewInv, phase \in {"done", "panic"}
    PROVE  /\ typ \in Types /\ len \in Nat /\ len < Half /\ zero \in BOOLEAN
           /\ shown = Decode[Call(typ, len, len, zero)] /\ (phase = "panic") = (shown.res = "panic")
<1>1. \A n \in 0..MaxLen : n \in Nat /\ n <= n /\ n < Half
  BY DwarfAssumption
<1> QED
  BY <1>1 DEF ViewInv, ViewTypes, ShowsDecoded

\* What decodeValue has read is exactly the scalars of the type, inside of the symbol and, but for
\* unions, no byte for two of them; of a zero-filled symbol it reads nothing.
THEOREM DecodedIsWhole == ViewSpec => []DecodesWhole
<1>1. ASSUME ViewInv PROVE DecodesWhole
  <2> SUFFICES ASSUME Decoded
               PROVE  /\ shown.leaves = IF zero THEN {} ELSE Scalars[typ]
                      /\ \A l \in shown.leaves : 0 <= l.from /\ l.from + l.size <= len
                      /\ (\A t \in PartsOf[typ] : ~IsUnion(t)) =>
                           \A l, m \in shown.leaves :
                              l = m \/ l.from + l.size <= m.from \/ m.from + m.size <= l.from
    BY DEF DecodesWhole
  <2>1. phase = "done" /\ shown.res = "ok"
    BY DEF Decoded
  <2>2. typ \in Types /\ len \in Nat /\ len <= len /\ len < Half /\ zero \in BOOLEAN /\ shown = Decode[Call(typ, len, len, zero)]
    BY <1>1, <2>1, ShownIs
  <2>3. Whole(typ, len, zero, shown.leaves)
    BY <2>1, <2>2, WholeOf
  <2> QED
    BY <2>3 DEF Whole, Bounded, NoUnion, Apart
<1> QED
  BY <1>1, ViewInvariant, PTL

\* A type of the kinds and sizes decodeValue knows is decoded exactly if the symbol has its bytes.
THEOREM WhatFitsIsDecoded == ViewSpec => []DecodesWhatFits
<1>1. ASSUME ViewInv PROVE DecodesWhatFits
  BY <1>1, ShownIs, FitsOf DEF DecodesWhatFits
<1> QED
  BY <1>1, ViewInvariant, PTL

\* decodeValue panics only on a part that no compiler describes, and on arrays of unknown length:
\* a number of elements or a size that is unknown, too large or negative, or a field that starts
\* before its structure or ends beyond the numbers.
THEOREM PanicsOnOddTypes == ViewSpec => []PanicsOnlyOnOddTypes
<1>1. ViewInv => PanicsOnlyOnOddTypes
  BY ShownIs, PanicsOf DEF PanicsOnlyOnOddTypes
<1> QED
  BY <1>1, ViewInvariant, PTL

=============================================================================
