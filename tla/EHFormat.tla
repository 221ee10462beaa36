-------------------------------- MODULE EHFormat --------------------------------
(***************************************************************************)
(* What an __eh_frame section looks like that the parser supports, without *)
(* the parser: which tables of items a compiler may lay out in it.         *)
(*                                                                         *)
(* A CIE has version 1 or 3.  An augmentation string that starts with z    *)
(* lists what its data holds, P, R and L, each at most once.  The pointers *)
(* of an FDE have the size of the processor's.  Every entry has            *)
(* instructions, if only padding, and is padded to a pointer's size.       *)
(***************************************************************************)
EXTENDS EHFrame

\* The row is of the section and shows its bytes.
Shows(s, row) ==
    /\ row.at + Len(row.bytes) <= Len(s.bytes)
    /\ row.bytes = SubSeq(s.bytes, row.at + 1, row.at + Len(row.bytes))

-----------------------------------------------------------------------------
(* Fields.                                                                   *)

IsFixed(row, name, n) == row.name = name /\ Len(row.bytes) = n

\* A LEB128 number of at most 8 bytes.
IsLeb(b) ==
    /\ Len(b) \in 1..8
    /\ b[Len(b)] < 128
    /\ \A j \in 1..(Len(b) - 1) : b[j] >= 128

\* A number of at most 21 bits, which more bytes may follow that are 0.
IsLebOf(b, n) ==
    /\ IsLeb(b)
    /\ \A j \in 4..Len(b) : b[j] % 128 = 0
    /\ LET bits(j) == IF j <= Len(b) THEN b[j] % 128 ELSE 0
       IN n = bits(1) + 128 * bits(2) + 16384 * bits(3)

IsNumber(row, name) == row.name = name /\ IsLeb(row.bytes)

\* A pointer in encoding enc, of which there is nothing when it is omitted.
IsPointer(s, row, name, enc) ==
    /\ row.name = name
    /\ LET n == Len(row.bytes)
           basic == enc % 16
       IN CASE basic \in {0, 8} -> n = s.ptr
            [] basic \in {1, 9} -> IsLeb(row.bytes)
            [] basic \in {2, 10} -> n = 2
            [] basic \in {3, 11} -> n = 4
            [] basic \in {4, 12} -> n = 8
            [] OTHER -> n = 0

\* A number of four bytes that fits into two.
IsWord(row, name) == IsFixed(row, name, 4) /\ row.bytes[3] = 0 /\ row.bytes[4] = 0

\* A string whose 0 is among its first 8 bytes; the row shows the first one.
IsString(s, row, name) ==
    /\ IsFixed(row, name, 1)
    /\ \E n \in 0..7 : row.at + n < Len(s.bytes) /\ s.bytes[row.at + n + 1] = 0

-----------------------------------------------------------------------------
(* The augmentation.                                                         *)

\* The string of CIE e.
AugOf(s, e) == SubSeq(s.bytes, e.rows[4].at + 1, RowEnd(s, e.rows[4]) - 1)

HasData(aug) == aug # <<>> /\ aug[1] = z

IsAug(aug) ==
    HasData(aug) =>
        /\ \A i \in 2..Len(aug) : aug[i] \in {P, R, L}
        /\ \A i, j \in 2..Len(aug) : aug[i] = aug[j] => i = j

\* Whether c is among the characters before the ith one, as a number.
Before(aug, c, i) == IF \E j \in 2..(i - 1) : aug[j] = c THEN 1 ELSE 0

\* How many rows there are between the fixed part of an entry and the data of the ith
\* character, and that data: in a CIE every character has a row and P has two, in an FDE
\* only L has one.
RowsTo(kind, aug, i) ==
    IF kind = "CIE" THEN i - 1 + Before(aug, P, i) ELSE 1 + Before(aug, L, i)

CafAt(aug) == IF aug = eh THEN 6 ELSE 5

\* How many rows an entry has before its augmentation.
FixedRows(kind, aug) == IF kind = "CIE" THEN CafAt(aug) + 2 ELSE 4

DataAt(kind, aug, i) == FixedRows(kind, aug) + 1 + RowsTo(kind, aug, i)

\* The LSDA encoding that CIE e declares with the ith character of its string.
LsdaEnc(s, e, i) == e.rows[DataAt("CIE", AugOf(s, e), i)].bytes[1]

\* What the data of CIE e holds for the ith character.
IsCieData(s, e, i) ==
    LET aug == AugOf(s, e)
        at == DataAt("CIE", aug, i)
        row == e.rows[at]
    IN /\ aug[i] = P =>
            /\ IsFixed(row, "Data_Personlity_Encoding", 1)
            /\ IsPointer(s, e.rows[at + 1], "Data_Personlity_Pointer", row.bytes[1])
       /\ aug[i] = R => IsFixed(row, "Data_FDE_Encoding", 1)
       /\ aug[i] = L => IsFixed(row, "Data_LSDA_Encoding", 1)

\* And the data of FDE e of CIE c.
IsFdeData(s, e, c, i) ==
    LET aug == AugOf(s, c)
    IN aug[i] = L =>
           IsPointer(s, e.rows[DataAt("FDE", aug, i)], "Data_LSDA_Pointer", LsdaEnc(s, c, i))

\* The rows of e after the fixed part: with data, its length and whatever the string does
\* not tell; then the instructions.
IsTail(s, e, aug) ==
    LET rows == e.rows
        last == Len(rows)
        len == FixedRows(e.kind, aug) + 1
        data == DataAt(e.kind, aug, Len(aug) + 1)
    IN /\ IF HasData(aug)
          THEN /\ rows[len].name = "Augumentation_Length"
               /\ IsLebOf(rows[len].bytes, rows[last].at - RowEnd(s, rows[len]))
               /\ \/ data = last
                  \/ /\ data = last - 1
                     /\ rows[data].name = "Data_Remains"
                     /\ rows[data].bytes # <<>>
          ELSE len = last
       /\ rows[last].name = "Initial_Instructions"
       /\ rows[last].at < Len(s.bytes)

-----------------------------------------------------------------------------
(* Items.                                                                    *)

\* What both kinds have in common.
IsEntry(s, e) ==
    /\ Len(e.rows) > 4
    /\ \A n \in 1..Len(e.rows) : Shows(s, e.rows[n])
    /\ Chained(s, e.rows)
    /\ IsWord(e.rows[1], "Length")
    /\ RowEnd(s, e.rows[Len(e.rows)]) = LengthEnd(e.rows[1])

IsCieItem(s, e) ==
    LET rows == e.rows
        aug == AugOf(s, e)
        caf == CafAt(aug)
    IN /\ Len(rows) > FixedRows("CIE", aug)
       /\ IsWord(rows[2], "CIE_ID") /\ Low(rows[2]) = 0
       /\ IsFixed(rows[3], "Version", 1) /\ rows[3].bytes[1] \in {1, 3}
       /\ IsString(s, rows[4], "Augumentation_String") /\ IsAug(aug)
       /\ aug = eh => IsFixed(rows[5], "EH_Data", s.ptr)
       /\ IsNumber(rows[caf], "Code_Alignment_Factor")
       /\ IsNumber(rows[caf + 1], "Data_Alignment_Factor")
       /\ IF rows[3].bytes[1] = 1
          THEN IsFixed(rows[caf + 2], "Return_Address_Register", 1)
          ELSE IsNumber(rows[caf + 2], "Return_Address_Register")
       /\ HasData(aug) => \A i \in 2..Len(aug) : IsCieData(s, e, i)
       /\ IsTail(s, e, aug)

IsFdeItem(s, e, c) ==
    LET rows == e.rows
        aug == AugOf(s, c)
    IN /\ IsWord(rows[2], "CIE_Pointer") /\ Low(rows[2]) # 0
       /\ rows[2].at - Low(rows[2]) = c.rows[1].at
       /\ IsFixed(rows[3], "PC_Begin", s.ptr)
       /\ IsFixed(rows[4], "PC_Range", s.ptr)
       /\ HasData(aug) => \A i \in 2..Len(aug) : IsFdeData(s, e, c, i)
       /\ IsTail(s, e, aug)

\* CIEs are numbered, and the FDEs of each.  An FDE comes after its CIE.
IsItem(s, t, k) ==
    /\ IsEntry(s, t[k])
    /\ t[k].kind = "CIE" =>
         /\ IsCieItem(s, t[k])
         /\ t[k].num = Cardinality({j \in 1..(k - 1) : t[j].kind = "CIE"})
         /\ t[k].cfi = t[k].num
    /\ t[k].kind = "FDE" =>
         /\ \E c \in 1..(k - 1) :
              t[c].kind = "CIE" /\ t[c].num = t[k].cfi /\ IsFdeItem(s, t[k], t[c])
         /\ t[k].num = Cardinality({j \in 1..(k - 1) :
                           t[j].kind = "FDE" /\ t[j].cfi = t[k].cfi})

ItemType == [kind: {"CIE", "FDE"}, cfi: Nat, num: Nat, rows: Seq(ItemRow)]

\* Where the first n items end.
LaidEnd(s, t, n) == IF n = 0 THEN 0 ELSE PaddedEnd(s, t[n].rows[1])

\* The items fill the section; only the last one may lack padding.
IsLayout(s, t) ==
    /\ t \in Seq(ItemType)
    /\ \A k \in 1..Len(t) : IsItem(s, t, k) /\ t[k].rows[1].at = LaidEnd(s, t, k - 1)
    /\ Len(s.bytes) <= LaidEnd(s, t, Len(t))

\* What a section's author meant is laid out in it.
ASSUME LayoutsAssumption ==
    /\ Nil \notin Nat
    /\ \A s \in Sections : s.layout # Nil => IsLayout(s, s.layout)

=============================================================================
