------------------------------ MODULE SymbolCells ------------------------------
(***************************************************************************)
(* The cells of a row of the symbol table (macho_widgets/symtab_model.go). *)
(*                                                                         *)
(* What the 16 bits of a symbol's Desc mean depends on the symbol and on   *)
(* the file.  symDescString goes through the meanings block by block: a    *)
(* block prints a line for each of its flags or fields that it finds and   *)
(* flips the bits out of its copy of Desc; a last line shows what is left. *)
(*                                                                         *)
(* Numbers that are taken apart into bits are sets of bits.                *)
(***************************************************************************)
EXTENDS Integers, Sequences

CONSTANTS
    Files,  \* the files that may be open
    Syms,   \* the symbols a cell may be asked for
    NoStab  \* none of the N_STAB bits

Bits == 0..15

\* The StabTypes the code knows, and any other.
QuietStabs == {"N_SO", "N_FUN", "N_BNSYM", "N_ENSYM", "N_STSYM", "N_GSYM"}
StabTypes == QuietStabs \cup {"N_OSO", "unknown"}

SymTypes == {"N_UNDF", "N_PBUD", "N_ABS", "N_SECT", "N_INDR", "unknown"}

\* unnamed: the name is empty; sect: Sect; zero: Value is 0.
Symbol == [stab: StabTypes \cup {NoStab}, type: SymTypes, ext: BOOLEAN, pext: BOOLEAN,
           unnamed: BOOLEAN, sect: 0..255, desc: SUBSET Bits, zero: BOOLEAN]

\* obj: the type is TypeObj; twoLevel: FlagTwoLevel is set; libs: the number of
\* imported libraries.
File == [obj: BOOLEAN, twoLevel: BOOLEAN, libs: Nat]

ASSUME CellsAssumption == Files \subseteq File /\ Syms \subseteq Symbol /\ NoStab \notin StabTypes

VARIABLES
    file,  \* the File
    sym,   \* the symbol
    pc,    \* the block symDescString has reached
    desc,  \* what is left of Desc
    vals   \* the lines: a label, the bits it is printed for and the library it names, if any

vars == <<file, sym, pc, desc, vals>>

-----------------------------------------------------------------------------
(* The blocks of symDescString.                                              *)

Labels == {"?", "alignment", "REFERENCE_TYPE", "N_ARM_THUMB_DEF", "REFERENCED_DYNAMICALLY",
           "N_NO_DEAD_STRIP", "N_DESC_DISCARDED", "N_WEAK_REF", "N_WEAK_DEF", "N_REF_TO_WEAK",
           "N_SYMBOL_RESOLVER", "ordinal", "N_ALT_ENTRY", "??"}

Line(label, bits) == [label |-> label, bits |-> bits, lib |-> {}]

\* x ^= v
Xor(x, v) == (x \ v) \cup (v \ x)

Undefined == sym.type \in {"N_UNDF", "N_PBUD"}
External == sym.ext \/ sym.pext

End == 10

\* A block prints lines and is done with bits.
Done(lines, bits) ==
    /\ vals' = vals \o lines
    /\ desc' = Xor(desc, bits)
    /\ pc' = pc + 1
    /\ UNCHANGED <<file, sym>>

Skip == Done(<<>>, {})

\* if desc&flag != 0 { ...; desc ^= flag }
Flag(label, bit) ==
    IF bit \in desc THEN Done(<<Line(label, {bit})>>, {bit}) ELSE Skip

Init ==
    /\ file \in Files
    /\ sym \in Syms
    /\ pc = 1
    /\ desc = sym.desc
    /\ vals = <<>>

\* Of a stab only the whole Desc is shown, and for some types no Desc of 0.
Stab ==
    /\ pc = 1
    /\ sym.stab # NoStab
    /\ vals' = IF sym.stab \in QuietStabs /\ desc = {} THEN <<>> ELSE <<Line("?", desc)>>
    /\ desc' = {}
    /\ pc' = End
    /\ UNCHANGED <<file, sym>>

\* v = desc & mask; desc ^= v
FieldMask(label, mask) == Done(<<Line(label, desc \cap mask)>>, mask)
Field(label, mask) == Done(<<Line(label, desc \cap mask)>>, desc \cap mask)

Common == file.obj /\ sym.type = "N_UNDF" /\ ~sym.zero

ReferenceOnly ==
    /\ pc = 1
    /\ sym.stab = NoStab
    /\ IF ~Undefined THEN Skip ELSE Field("REFERENCE_TYPE", 0..2)
CommonOrReference ==
    /\ pc = 1
    /\ sym.stab = NoStab
    /\ IF ~Undefined THEN Skip
       ELSE IF Common THEN Field("alignment", 8..11)
       ELSE Field("REFERENCE_TYPE", 0..2)

Thumb == pc = 2 /\ Flag("N_ARM_THUMB_DEF", 3)

Dynamic == pc = 3 /\ IF External THEN Flag("REFERENCED_DYNAMICALLY", 4) ELSE Skip

Strip ==
    /\ pc = 4
    /\ IF file.obj THEN Flag("N_NO_DEAD_STRIP", 5) ELSE Flag("N_DESC_DISCARDED", 5)

WeakExternalFirst ==
    /\ pc = 5
    /\ IF External THEN Flag("N_WEAK_DEF", 7)
       ELSE IF Undefined THEN Flag("N_WEAK_REF", 6)
       ELSE Skip
Weak ==
    /\ pc = 5
    /\ IF Undefined THEN Flag("N_WEAK_REF", 6)
       ELSE IF External THEN Flag("N_WEAK_DEF", 7)
       ELSE Skip

RefToWeak == pc = 6 /\ IF Undefined THEN Flag("N_REF_TO_WEAK", 7) ELSE Skip

\* v>>8
Ordinal(bits) ==
    LET w(b, weight) == IF b \in bits THEN weight ELSE 0
    IN w(8, 1) + w(9, 2) + w(10, 4) + w(11, 8) + w(12, 16) + w(13, 32) + w(14, 64) + w(15, 128)

\* libs[ord-1] is read for an ordinal that is not special and not beyond the last library.
SpecialOrdinals == {0, 254, 255}
LibraryOf(ord) == IF ord \in SpecialOrdinals \/ ord > file.libs THEN {} ELSE {ord}

Library ==
    LET v == desc \cap (8..15)
    IN Done(<<[label |-> "ordinal", bits |-> v, lib |-> LibraryOf(Ordinal(v))]>>, v)

High ==
    /\ pc = 7
    /\ IF file.obj THEN Flag("N_SYMBOL_RESOLVER", 8)
       ELSE IF file.twoLevel /\ Undefined THEN Library
       ELSE Skip

AltEntry == pc = 8 /\ IF file.obj THEN Flag("N_ALT_ENTRY", 9) ELSE Skip

\* The leftover is printed; nothing reads desc after that.
Rest ==
    /\ pc = 9
    /\ IF desc = {} THEN Skip ELSE Done(<<Line("??", desc)>>, desc)

Next ==
    \/ Stab \/ CommonOrReference \/ Thumb \/ Dynamic \/ Strip
    \/ Weak \/ RefToWeak \/ High \/ AltEntry \/ Rest

Spec == Init /\ [][Next]_vars

-----------------------------------------------------------------------------
(* symValueString.                                                           *)

\* How Value is shown: not at all, as a number, with a time, with a size, or as unexpected.
ValueCell ==
    CASE sym.stab = "N_OSO" -> "mtime"
      [] sym.stab = "N_ENSYM" \/ (sym.stab = "N_FUN" /\ sym.unnamed /\ sym.sect = 0) -> "size"
      [] sym.stab \in {"N_SO", "N_GSYM"} /\ sym.zero -> ""
      [] sym.stab = NoStab /\ Undefined /\ sym.zero -> ""
      [] sym.stab = NoStab /\ sym.type = "N_UNDF" /\ ~sym.zero -> "size"
      [] sym.stab = NoStab /\ sym.type = "N_PBUD" /\ ~sym.zero -> "?"
      [] OTHER -> "number"

-----------------------------------------------------------------------------
(* What makes the cells correct.                                             *)

Lines == 1..Len(vals)

\* Type invariant of symDescString; a library has a number from 1 to MAX_LIBRARY_ORDINAL.
TypeOK ==
    /\ file \in Files
    /\ sym \in Syms
    /\ pc \in 1..End
    /\ desc \subseteq Bits
    /\ vals \in Seq([label: Labels, bits: SUBSET Bits, lib: SUBSET (1..253)])

\* No bit is lost, shown twice or made up: the lines and what is left share out Desc, and at
\* the end nothing is left.
BitsOnce ==
    /\ sym.desc = desc \cup (UNION {vals[k].bits : k \in Lines})
    /\ \A k \in Lines : vals[k].bits \cap desc = {}
    /\ \A j, k \in Lines : j # k => vals[j].bits \cap vals[k].bits = {}
    /\ pc = End => desc = {}

\* The bits of a number: the alignment of a common symbol, a reference type, an ordinal.
MaskOf(label) ==
    IF label = "alignment" THEN 8..11 ELSE IF label = "REFERENCE_TYPE" THEN 0..2 ELSE 8..15

\* A number in Desc is shown whole: no block before has taken one of its bits for a flag.
FieldsWhole ==
    \A k \in Lines : vals[k].label \in {"alignment", "REFERENCE_TYPE", "ordinal"} =>
        vals[k].bits = sym.desc \cap MaskOf(vals[k].label)

\* A flag is shown only where the comments of types.go:343-365 say it has its meaning; of the
\* two meanings of bit 7, that for undefined symbols comes first.
FlagsApply ==
    \A k \in Lines :
        LET label == vals[k].label
        IN /\ label \in {"REFERENCE_TYPE", "N_WEAK_REF", "N_REF_TO_WEAK"} => Undefined
           /\ label \in {"REFERENCED_DYNAMICALLY", "N_WEAK_DEF"} => External
           /\ label = "N_WEAK_DEF" => ~Undefined
           /\ label \in {"N_NO_DEAD_STRIP", "N_SYMBOL_RESOLVER"} => file.obj
           /\ label = "N_DESC_DISCARDED" => ~file.obj

\* No library beyond the last, or before the first, is asked for.
LibrariesExist == \A k \in Lines : vals[k].lib \subseteq 1..file.libs

\* Each line of the cell says what its bits mean, for this symbol and in this file.
LinesRight == FieldsWhole /\ FlagsApply /\ LibrariesExist

\* In an object file, the symbols that are given an alignment in the Desc column are those
\* that are given a size in the Value column.
CommonsAgree ==
    pc = End /\ file.obj /\ sym.stab = NoStab =>
        ((\E k \in Lines : vals[k].label = "alignment") <=> ValueCell = "size")

=============================================================================
