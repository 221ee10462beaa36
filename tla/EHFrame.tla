-------------------------------- MODULE EHFrame --------------------------------
(***************************************************************************)
(* The parser of an __eh_frame section (macho_widgets/eh_frame_model.go).  *)
(*                                                                         *)
(* NewEHFrameSectionModel walks the section entry by entry.  An entry is   *)
(* a CIE, which says how its FDEs are encoded, or an FDE, which points     *)
(* back to its CIE.  Every field that is read becomes a row of the entry's *)
(* item; a finished item hangs under the CFI of its CIE.  One read that    *)
(* fails makes the whole model nil.                                        *)
(*                                                                         *)
(* Numbers are little-endian.  Numbers no field of a small section can     *)
(* hold are all Huge; pointers stay the bytes they are.                    *)
(***************************************************************************)
EXTENDS Integers, Sequences, FiniteSets

CONSTANTS
    Sections,  \* the sections that may be opened
    Nil

Byte == 0..255

\* What stands for every number that is larger than a section.
Huge == 65536

\* ptr is the pointer size of the file's processor; layout is the table that the
\* section's author meant, Nil for arbitrary bytes.
ASSUME SectionsAssumption ==
    \A s \in Sections : s.bytes \in Seq(Byte) /\ Len(s.bytes) < Huge /\ s.ptr \in {4, 8}

VARIABLES
    sect,    \* the section
    pc,      \* the field to be read next; "done", "nil" or "panic" at the end
    top,     \* where the entry starts
    off,     \* how far it has been read
    end,     \* where it ends
    item,    \* its rows
    cie,     \* the CIE the entry is, or belongs to: its offset
    loc,     \* and what the entry has found out, or knows, about it
    ai,      \* the character of the augmentation string and
    augend,  \* the end of the augmentation data
    cies,    \* cieInfos: map[uint64]*cieInfo
    table    \* the finished items

vars == <<sect, pc, top, off, end, item, cie, loc, ai, augend, cies, table>>

-----------------------------------------------------------------------------
(* Reading.                                                                  *)

Size == Len(sect.bytes)
At(o) == sect.bytes[o + 1]
Slice(o, n) == SubSeq(sect.bytes, o + 1, o + n)

\* The labels of the rows, shortened.
Labels ==
    {"Length", "CIE_ID", "CIE_Pointer", "Version", "Augumentation_String", "EH_Data",
     "Code_Alignment_Factor", "Data_Alignment_Factor", "Return_Address_Register",
     "PC_Begin", "PC_Range", "Augumentation_Length", "Data_Personlity_Encoding",
     "Data_Personlity_Pointer", "Data_FDE_Encoding", "Data_LSDA_Encoding",
     "Data_LSDA_Pointer", "Data_Unknown", "Data_Remains", "Initial_Instructions"}

\* The section reader fails at its end even when nothing is asked for.
ReadAt(o, n) == o < Size /\ o + n <= Size

Word(o) ==
    LET b == Slice(o, 4)
    IN IF b[3] = 0 /\ b[4] = 0 THEN b[1] + 256 * b[2] ELSE Huge

\* The bytes a LEB128 number at o takes, at most 8; 0 when there is no such number.
LebEnd(o, k) == At(o + k - 1) < 128 /\ \A j \in 1..(k - 1) : At(o + j - 1) >= 128
LebWidthOne(o) == IF o < Size THEN 1 ELSE 0
LebWidth(o) ==
    LET ends == {k \in 1..8 : o + k <= Size /\ LebEnd(o, k)}
    IN IF ends = {} THEN 0 ELSE CHOOSE k \in ends : TRUE

\* The 7 bits its byte j gives the number; a number with a fourth byte of its own is
\* larger than any section.
Septet(o, j) == IF j <= LebWidth(o) THEN At(o + j - 1) % 128 ELSE 0
Uleb(o) ==
    IF \E j \in 4..LebWidth(o) : Septet(o, j) # 0 THEN Huge
    ELSE Septet(o, 1) + 128 * Septet(o, 2) + 16384 * Septet(o, 3)

Omit == 255

\* parser.pointer: how many bytes a pointer in encoding enc takes, Nil if it cannot be
\* read.  An omitted pointer, and one in an unknown encoding, takes none.
PointerWidth(o, enc) ==
    LET fixed(n) == IF ReadAt(o, n) THEN n ELSE Nil
        basic == enc % 16
    IN CASE basic \in {0, 8} -> fixed(sect.ptr)
         [] basic \in {1, 9} -> IF LebWidth(o) = 0 THEN Nil ELSE LebWidth(o)
         [] basic \in {2, 10} -> fixed(2)
         [] basic \in {3, 11} -> fixed(4)
         [] basic \in {4, 12} -> fixed(8)
         [] OTHER -> 0

\* The augmentation string is looked for in the next 8 bytes.
AugEnds(o) == {k \in 0..7 : o + k < Size /\ At(o + k) = 0}
AugLen(o) == CHOOSE k \in AugEnds(o) : \A j \in AugEnds(o) : k <= j

z == 122
P == 80
R == 82
L == 76
eh == <<101, 104>>

HasAugData(info) == info.aug # <<>> /\ info.aug[1] = z

-----------------------------------------------------------------------------
(* Steps.  Each reads one field and adds its row.                            *)

Row(name, n) == [name |-> name, at |-> off, bytes |-> Slice(off, n)]

Take(name, n) ==
    /\ item' = Append(item, Row(name, n))
    /\ off' = off + n

Goto(p) == pc' = p

Init ==
    /\ sect \in Sections
    /\ pc = "entry"
    /\ top = 0
    /\ off = 0
    /\ end = 0
    /\ item = <<>>
    /\ cie = 0
    /\ loc = Nil
    /\ ai = 0
    /\ augend = 0
    /\ cies = <<>>
    /\ table = <<>>

EntryEndNoLength(o) == o + Word(o)
EntryEnd(o) == o + 4 + Word(o)

IsExtended == Slice(off, 4) = <<255, 255, 255, 255>>

\* The length, for which 8 bytes must be there.  An extended length is read from the
\* same 8 bytes as its marker, so it always ends behind the section.
Length ==
    /\ pc = "entry"
    /\ off < Size
    /\ ReadAt(off, 8)
    /\ top' = off
    /\ IF IsExtended
       THEN Take("Length", 8) /\ end' = off + 8 + Huge
       ELSE Take("Length", 4) /\ end' = EntryEnd(off)
    /\ Goto("id")
    /\ UNCHANGED <<sect, cie, loc, ai, augend, cies, table>>

\* What is known of a CIE before it is parsed, the zero value of cieInfo.
NewInfo == [num |-> Cardinality({k \in 1..Len(table) : table[k].kind = "CIE"}),
            version |-> 0, aug |-> <<>>, penc |-> 0, fenc |-> 0, lenc |-> 0, fdes |-> 0]

Put(t, info) == [u \in DOMAIN cies \cup {t} |-> IF u = t THEN info ELSE cies[u]]

\* An id of 0 makes the entry a CIE, known under its offset from here on.
CieId ==
    /\ pc = "id"
    /\ ReadAt(off, 4)
    /\ Word(off) = 0
    /\ Take("CIE_ID", 4)
    /\ cie' = top
    /\ cies' = Put(top, NewInfo)
    /\ loc' = [NewInfo EXCEPT !.penc = Omit, !.lenc = Omit]
    /\ Goto("version")
    /\ UNCHANGED <<sect, top, end, ai, augend, table>>

\* Any other id is the distance back to the FDE's CIE, counted from the id itself.
CieTop(o) == o - Word(o)

CiePointer ==
    /\ pc = "id"
    /\ ReadAt(off, 4)
    /\ Word(off) # 0
    /\ CieTop(off) \in DOMAIN cies
    /\ Take("CIE_Pointer", 4)
    /\ cie' = CieTop(off)
    /\ loc' = cies[CieTop(off)]
    /\ Goto("pcbegin")
    /\ UNCHANGED <<sect, top, end, ai, augend, cies, table>>

Version ==
    /\ pc = "version"
    /\ ReadAt(off, 1)
    /\ Take("Version", 1)
    /\ loc' = [loc EXCEPT !.version = At(off)]
    /\ Goto("aug")
    /\ UNCHANGED <<sect, top, end, cie, ai, augend, cies, table>>

\* The row of the string shows its first byte only.
Augmentation ==
    /\ pc = "aug"
    /\ AugEnds(off) # {}
    /\ LET aug == Slice(off, AugLen(off)) IN
       /\ item' = Append(item, Row("Augumentation_String", 1))
       /\ off' = off + AugLen(off) + 1
       /\ loc' = [loc EXCEPT !.aug = aug]
       /\ Goto(IF aug = eh THEN "ehdata" ELSE "caf")
    /\ UNCHANGED <<sect, top, end, cie, ai, augend, cies, table>>

EhData ==
    /\ pc = "ehdata"
    /\ ReadAt(off, sect.ptr)
    /\ Take("EH_Data", sect.ptr)
    /\ Goto("caf")
    /\ UNCHANGED <<sect, top, end, cie, loc, ai, augend, cies, table>>

CodeAlignment ==
    /\ pc = "caf"
    /\ LebWidth(off) # 0
    /\ Take("Code_Alignment_Factor", LebWidth(off))
    /\ Goto("daf")
    /\ UNCHANGED <<sect, top, end, cie, loc, ai, augend, cies, table>>

AfterFixedPart(info) == IF HasAugData(info) THEN "auglen" ELSE "insts"

\* The return address register; versions other than 1 and 3 are taken to have none.
DataAlignment ==
    /\ pc = "daf"
    /\ LebWidth(off) # 0
    /\ Take("Data_Alignment_Factor", LebWidth(off))
    /\ Goto(IF loc.version \in {1, 3} THEN "rar" ELSE AfterFixedPart(loc))
    /\ UNCHANGED <<sect, top, end, cie, loc, ai, augend, cies, table>>

RarWidth == IF loc.version = 1 THEN IF ReadAt(off, 1) THEN 1 ELSE 0 ELSE LebWidth(off)

ReturnAddressRegister ==
    /\ pc = "rar"
    /\ RarWidth # 0
    /\ Take("Return_Address_Register", RarWidth)
    /\ Goto(AfterFixedPart(loc))
    /\ UNCHANGED <<sect, top, end, cie, loc, ai, augend, cies, table>>

\* The FDE's two pointers, decoded as its CIE is remembered to say.
PcBegin ==
    /\ pc = "pcbegin"
    /\ PointerWidth(off, loc.fenc) # Nil
    /\ Take("PC_Begin", PointerWidth(off, loc.fenc))
    /\ Goto("pcrange")
    /\ UNCHANGED <<sect, top, end, cie, loc, ai, augend, cies, table>>

PcRange ==
    /\ pc = "pcrange"
    /\ PointerWidth(off, loc.fenc) # Nil
    /\ Take("PC_Range", PointerWidth(off, loc.fenc))
    /\ Goto(AfterFixedPart(loc))
    /\ UNCHANGED <<sect, top, end, cie, loc, ai, augend, cies, table>>

AugmentationLength ==
    /\ pc = "auglen"
    /\ LebWidth(off) # 0
    /\ Take("Augumentation_Length", LebWidth(off))
    /\ augend' = off + LebWidth(off) + Uleb(off)
    /\ ai' = 2
    /\ Goto("augdata")
    /\ UNCHANGED <<sect, top, end, cie, loc, cies, table>>

\* The augmentation data follows the string's characters after the z.
IsCie == cie = top
AtChar(c) == pc = "augdata" /\ ai <= Len(loc.aug) /\ loc.aug[ai] = c

PersonalityEncoding ==
    /\ AtChar(P) /\ IsCie
    /\ ReadAt(off, 1)
    /\ Take("Data_Personlity_Encoding", 1)
    /\ loc' = [loc EXCEPT !.penc = At(off)]
    /\ Goto("personality")
    /\ UNCHANGED <<sect, top, end, cie, ai, augend, cies, table>>

PersonalityPointer ==
    /\ pc = "personality"
    /\ PointerWidth(off, loc.penc) # Nil
    /\ Take("Data_Personlity_Pointer", PointerWidth(off, loc.penc))
    /\ ai' = ai + 1
    /\ Goto("augdata")
    /\ UNCHANGED <<sect, top, end, cie, loc, augend, cies, table>>

FdeEncoding ==
    /\ AtChar(R) /\ IsCie
    /\ ReadAt(off, 1)
    /\ Take("Data_FDE_Encoding", 1)
    /\ loc' = [loc EXCEPT !.fenc = At(off)]
    /\ ai' = ai + 1
    /\ UNCHANGED <<sect, pc, top, end, cie, augend, cies, table>>

LsdaEncoding ==
    /\ AtChar(L) /\ IsCie
    /\ ReadAt(off, 1)
    /\ Take("Data_LSDA_Encoding", 1)
    /\ loc' = [loc EXCEPT !.lenc = At(off)]
    /\ ai' = ai + 1
    /\ UNCHANGED <<sect, pc, top, end, cie, augend, cies, table>>

LsdaPointer ==
    /\ AtChar(L) /\ ~IsCie
    /\ PointerWidth(off, loc.lenc) # Nil
    /\ Take("Data_LSDA_Pointer", PointerWidth(off, loc.lenc))
    /\ ai' = ai + 1
    /\ UNCHANGED <<sect, pc, top, end, cie, loc, augend, cies, table>>

\* An FDE has nothing for its CIE's personality and FDE encoding.
SkipChar ==
    /\ AtChar(P) \/ AtChar(R)
    /\ ~IsCie
    /\ ai' = ai + 1
    /\ UNCHANGED <<sect, pc, top, off, end, item, cie, loc, augend, cies, table>>

\* All that is left of the augmentation data, if anything is.
TakeRestUnread(name) ==
    \/ off = augend /\ UNCHANGED <<off, item>>
    \/ off < augend /\ off' = augend /\ UNCHANGED item
TakeRest(name) ==
    \/ off = augend /\ UNCHANGED <<off, item>>
    \/ off < augend /\ ReadAt(off, augend - off) /\ Take(name, augend - off)

UnknownChar ==
    /\ pc = "augdata"
    /\ ai <= Len(loc.aug)
    /\ loc.aug[ai] \notin {P, R, L}
    /\ TakeRest("Data_Unknown")
    /\ ai' = ai + 1
    /\ UNCHANGED <<sect, pc, top, end, cie, loc, augend, cies, table>>

AugmentationEnd ==
    /\ pc = "augdata"
    /\ ai > Len(loc.aug)
    /\ TakeRest("Data_Remains")
    /\ Goto("insts")
    /\ UNCHANGED <<sect, top, end, cie, loc, ai, augend, cies, table>>

\* Entries are padded to the pointer size.
RoundUp(n) == ((n + sect.ptr - 1) \div sect.ptr) * sect.ptr

\* What is kept of a parsed CIE.  The FDE encoding is not among it.
Kept(info) == [info EXCEPT !.fenc = 0]

CountedNever(info) == info
Counted(info) == [info EXCEPT !.fdes = @ + 1]

Finished ==
    [kind |-> IF IsCie THEN "CIE" ELSE "FDE",
     cfi |-> loc.num,
     num |-> IF IsCie THEN loc.num ELSE loc.fdes,
     rows |-> Append(item, Row("Initial_Instructions", end - off))]

Instructions ==
    /\ pc = "insts"
    /\ off <= end
    /\ ReadAt(off, end - off)
    /\ table' = Append(table, Finished)
    /\ cies' = Put(cie, IF IsCie THEN Kept(loc) ELSE Counted(loc))
    /\ off' = top + RoundUp(end - top)
    /\ item' = <<>>
    /\ loc' = Nil
    /\ Goto("entry")
    /\ UNCHANGED <<sect, top, end, cie, ai, augend>>

Finish ==
    /\ pc = "entry"
    /\ off >= Size
    /\ Goto("done")
    /\ UNCHANGED <<sect, top, off, end, item, cie, loc, ai, augend, cies, table>>

-----------------------------------------------------------------------------
(* The field cannot be read: every handler returns, and so does the caller.  *)

CannotTakeRest == off > augend \/ (off < augend /\ ~ReadAt(off, augend - off))

CannotReadFixed ==
    \/ pc = "entry" /\ off < Size /\ ~ReadAt(off, 8)
    \/ pc = "id" /\ ~ReadAt(off, 4)
    \/ pc = "id" /\ ReadAt(off, 4) /\ Word(off) # 0 /\ CieTop(off) \notin DOMAIN cies
    \/ pc = "version" /\ ~ReadAt(off, 1)
    \/ pc = "aug" /\ AugEnds(off) = {}
    \/ pc = "ehdata" /\ ~ReadAt(off, sect.ptr)
    \/ (AtChar(P) \/ AtChar(R) \/ AtChar(L)) /\ IsCie /\ ~ReadAt(off, 1)
    \/ pc = "augdata" /\ ai <= Len(loc.aug) /\ loc.aug[ai] \notin {P, R, L} /\ CannotTakeRest
    \/ pc = "augdata" /\ ai > Len(loc.aug) /\ CannotTakeRest
    \/ pc = "insts" /\ (off > end \/ ~ReadAt(off, end - off))

CannotReadNumber ==
    \/ pc \in {"caf", "daf", "auglen"} /\ LebWidth(off) = 0
    \/ pc = "rar" /\ RarWidth = 0
    \/ pc \in {"pcbegin", "pcrange"} /\ PointerWidth(off, loc.fenc) = Nil
    \/ pc = "personality" /\ PointerWidth(off, loc.penc) = Nil
    \/ AtChar(L) /\ ~IsCie /\ PointerWidth(off, loc.lenc) = Nil

CannotReadNoLeb == CannotReadFixed
CannotRead == CannotReadFixed \/ CannotReadNumber

\* The buffer for a rest of the entry is made before it is read, so a huge rest may
\* panic instead.
RestIsHuge ==
    \/ pc = "insts" /\ end >= Huge
    \/ pc = "augdata" /\ augend >= Huge

Reject ==
    /\ CannotRead
    /\ Goto("nil") \/ (RestIsHuge /\ Goto("panic"))
    /\ UNCHANGED <<sect, top, off, end, item, cie, loc, ai, augend, cies, table>>

Next ==
    \/ Length \/ CieId \/ CiePointer
    \/ Version \/ Augmentation \/ EhData \/ CodeAlignment \/ DataAlignment
    \/ ReturnAddressRegister
    \/ PcBegin \/ PcRange
    \/ AugmentationLength \/ PersonalityEncoding \/ PersonalityPointer
    \/ FdeEncoding \/ LsdaEncoding \/ LsdaPointer \/ SkipChar \/ UnknownChar
    \/ AugmentationEnd
    \/ Instructions \/ Finish \/ Reject

\* The parser is one uninterrupted call.
Spec == Init /\ [][Next]_vars /\ WF_vars(Next)

-----------------------------------------------------------------------------
(* What makes the table correct.                                             *)

Steps == {"entry", "id", "version", "aug", "ehdata", "caf", "daf", "rar", "pcbegin",
          "pcrange", "auglen", "augdata", "personality", "insts", "done", "nil", "panic"}

ItemRow == [name: Labels, at: Nat, bytes: Seq(Byte)]

\* Type invariant of the parser: a field is only read, and a row only made, inside
\* the section.
TypeOK ==
    /\ pc \in Steps
    /\ off \in Nat /\ top \in Nat /\ end \in Nat
    /\ pc # "entry" /\ pc # "done" => off <= Size
    /\ item \in Seq(ItemRow)
    /\ DOMAIN cies \subseteq 0..Size
    /\ \A k \in 1..Len(table) : table[k].rows \in Seq(ItemRow)

\* Where a row of section s ends: it shows its bytes; the augmentation string's shows one of
\* those up to the next 0.
RowEnd(s, row) ==
    IF row.name # "Augumentation_String" THEN row.at + Len(row.bytes)
    ELSE CHOOSE o \in (row.at + 1)..Len(s.bytes) :
            s.bytes[o] = 0 /\ \A u \in (row.at + 1)..(o - 1) : s.bytes[u] # 0

\* The rows follow each other without a gap or an overlap.
Chained(s, rows) == \A n \in 1..(Len(rows) - 1) : rows[n + 1].at = RowEnd(s, rows[n])

\* The 16 bits that a row starts with, and the end of the item whose first row it is.
Low(row) == row.bytes[1] + 256 * row.bytes[2]
LengthEnd(row) == row.at + 4 + Low(row)

\* The rows of every finished item share out its bytes, from the length field to the last
\* instruction, whatever the section holds.
RowsTile ==
    \A k \in 1..Len(table) :
        LET rows == table[k].rows
        IN Chained(sect, rows) /\ RowEnd(sect, rows[Len(rows)]) = LengthEnd(rows[1])

\* The next multiple of the pointer's size after the item that starts with row, counted
\* from its own start.
PaddedEnd(s, row) ==
    CHOOSE o \in LengthEnd(row)..(LengthEnd(row) + s.ptr - 1) : (o - row.at) % s.ptr = 0

\* Where the first n items end.
ItemsEnd(n) == IF n = 0 THEN 0 ELSE PaddedEnd(sect, table[n].rows[1])

\* No part of the section is passed over or shown in two items, whatever it holds: the
\* items start where the one before ends, and the table is complete only at the section's
\* end.
ItemsTile ==
    /\ \A k \in 1..Len(table) : table[k].rows[1].at = ItemsEnd(k - 1)
    /\ pc \in {"entry", "done"} => off = ItemsEnd(Len(table))
    /\ pc = "done" => off >= Size

\* An FDE hangs under the CIE its pointer names, and the FDEs of a CIE are numbered in
\* the order they come in.
FdesUnderTheirCie ==
    \A k \in 1..Len(table) : table[k].kind = "FDE" =>
        LET id == table[k].rows[2]
        IN /\ \E c \in 1..(k - 1) :
                /\ table[c].kind = "CIE"
                /\ table[c].num = table[k].cfi
                /\ table[c].rows[1].at = id.at - Low(id)
           /\ table[k].num = Cardinality({j \in 1..(k - 1) :
                                 table[j].kind = "FDE" /\ table[j].cfi = table[k].cfi})

\* Every byte of the section is shown once, in the entry it belongs to.
SectionTiles == RowsTile /\ ItemsTile

\* A section the parser supports is never rejected, and is read back as it was laid out.
RoundTrip ==
    sect.layout # Nil =>
        /\ pc \notin {"nil", "panic"}
        /\ pc = "done" => table = sect.layout

\* The parser stops on every section.
Terminates == <>(pc \in {"done", "nil", "panic"})

\* cieInfo.fenc is commented "FDE encoding": when an FDE's first pointer has been
\* read, it has the width of the encoding that its CIE declares.
FdeEncodingUsed ==
    pc = "pcrange" =>
        \A c \in 1..Len(table) : table[c].kind = "CIE" /\ table[c].num = loc.num =>
            \A e \in 1..Len(table[c].rows) :
                LET begin == item[Len(item)]
                    declared == table[c].rows[e]
                IN declared.name = "Data_FDE_Encoding" =>
                       Len(begin.bytes) = PointerWidth(begin.at, declared.bytes[1])

=============================================================================
