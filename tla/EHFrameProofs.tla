----------------------------- MODULE EHFrameProofs -----------------------------
(***************************************************************************)
(* Proofs about EHFrame, for all sections of fewer than Huge bytes,        *)
(* whatever they hold: nothing is read outside, every byte is shown once,  *)
(* and FDEs hang, numbered, under the CIE they point to.  A section in     *)
(* which a table is laid out as EHFormat says is read back as that table.  *)
(***************************************************************************)
EXTENDS EHFormat, FiniteSetTheorems, SequenceTheorems, TLAPS

\* The steps inside an entry, and those that know its CIE.
Fields == {"version", "aug", "ehdata", "caf", "daf", "rar", "pcbegin", "pcrange",
           "auglen", "augdata", "personality", "insts"}
Reading == Fields \cup {"id"}

InfoType == [num: Nat, version: Byte, aug: Seq(Byte), penc: Byte, fenc: Byte, lenc: Byte, fdes: Nat]

Typed ==
    /\ sect \in Sections
    /\ pc \in Steps
    /\ off \in Nat /\ top \in Nat /\ end \in Nat /\ augend \in Nat /\ cie \in Nat
    /\ pc \notin {"entry", "done"} => off <= Size
    /\ item \in Seq(ItemRow)
    /\ cies \in [DOMAIN cies -> InfoType] /\ DOMAIN cies \subseteq 0..Size
    /\ pc \in Fields => loc \in InfoType
    /\ table \in Seq(ItemType)

\* The rows of the entry that is being read reach from its start to off.
EntryRight ==
    /\ pc = "entry" => item = <<>>
    /\ pc = "id" => Len(item) = 1
    /\ pc \in Reading =>
         /\ top = ItemsEnd(Len(table))
         /\ top + 4 <= off
         /\ item # <<>>
         /\ item[1].at = top /\ Low(item[1]) \in Nat
         /\ end = LengthEnd(item[1]) \/ end >= Huge
         /\ Chained(sect, item)
         /\ RowEnd(sect, item[Len(item)]) = off

\* What is known of the CIE the entry is or belongs to.
CieKnown ==
    pc \in Fields =>
        /\ cie \in DOMAIN cies
        /\ loc.num = cies[cie].num /\ loc.fdes = cies[cie].fdes
        /\ cie # top => Len(item) >= 2 /\ cie = item[2].at - Low(item[2])

CieItems == {k \in 1..Len(table) : table[k].kind = "CIE"}
FdeItems(num) == {k \in 1..Len(table) : table[k].kind = "FDE" /\ table[k].cfi = num}

\* The CIE at c has an item of its own, and as many FDEs as have come in.
HasItem(c) ==
    /\ c < IF pc = "entry" THEN off ELSE top
    /\ \E k \in CieItems : table[k].num = cies[c].num /\ table[k].rows[1].at = c
    /\ cies[c].num < Cardinality(CieItems)
    /\ cies[c].fdes = Cardinality(FdeItems(cies[c].num))

\* The CIE at c is the entry that is being read.
IsRead(c) ==
    /\ pc \in Fields /\ c = top /\ cie = top
    /\ cies[c].num = Cardinality(CieItems)
    /\ cies[c].fdes = 0

CiesRight ==
    /\ pc \in Reading \cup {"entry"} => \A c \in DOMAIN cies : HasItem(c) \/ IsRead(c)
    /\ \A c, d \in DOMAIN cies : cies[c].num = cies[d].num => c = d
    /\ \A k \in 1..Len(table) : table[k].kind = "FDE" => table[k].cfi < Cardinality(CieItems)

IInv == Typed /\ EntryRight /\ CieKnown /\ CiesRight /\ FdesUnderTheirCie /\ SectionTiles

-----------------------------------------------------------------------------
(* What is read out of the section.                                          *)

LEMMA SectionFacts ==
    ASSUME Typed
    PROVE  /\ sect.bytes \in Seq(Byte) /\ Size \in Nat /\ Size < Huge /\ sect.ptr \in {4, 8}
           /\ \A o \in Nat : o < Size => At(o) \in Byte
  <1>1. sect.bytes \in Seq(Byte) /\ Size \in Nat /\ Size < Huge /\ sect.ptr \in {4, 8}
    BY SectionsAssumption DEF Typed, Size
  <1>2. ASSUME NEW o \in Nat, o < Size PROVE At(o) \in Byte
    <2>1. o + 1 \in 1..Len(sect.bytes)
      BY <1>1, <1>2 DEF Size
    <2> QED
      BY <1>1, <2>1 DEF At
  <1> QED
    BY <1>1, <1>2

\* Numbers made of bytes.
LEMMA BytesMake ==
    ASSUME NEW a \in Byte, NEW b \in Byte
    PROVE  a + 256 * b \in Nat /\ a % 128 \in 0..127
  <1>1. a \in 0..255 /\ b \in 0..255
    BY DEF Byte
  <1>2. a % 128 \in 0..127
    BY <1>1
  <1>3. a + 256 * b \in Nat
    BY <1>1
  <1> QED
    BY <1>2, <1>3

\* A row shows the bytes it asked for.
LEMMA SliceFacts ==
    ASSUME Typed, NEW o \in Nat, NEW n \in Nat, o + n <= Size
    PROVE  /\ Slice(o, n) \in Seq(Byte)
           /\ Len(Slice(o, n)) = n
           /\ \A k \in 1..n : Slice(o, n)[k] = At(o + k - 1) /\ Slice(o, n)[k] \in Byte
  <1>1. sect.bytes \in Seq(Byte) /\ Size \in Nat /\ Size = Len(sect.bytes)
    BY SectionFacts DEF Size
  <1> DEFINE a == o + 1
             b == o + n
  <1>2. a \in Int /\ b \in Int /\ \A k \in a..b : sect.bytes[k] \in Byte
    BY <1>1
  <1> HIDE DEF a, b
  <1>3. /\ SubSeq(sect.bytes, a, b) \in Seq(Byte)
        /\ Len(SubSeq(sect.bytes, a, b)) = IF a <= b THEN b - a + 1 ELSE 0
        /\ \A k \in 1..(b - a + 1) : SubSeq(sect.bytes, a, b)[k] = sect.bytes[a + k - 1]
    BY <1>2, SubSeqProperties
  <1>4. /\ Slice(o, n) \in Seq(Byte)
        /\ Len(Slice(o, n)) = n
        /\ \A k \in 1..n : Slice(o, n)[k] = sect.bytes[a + k - 1]
    <2>1. b - a + 1 = n /\ (a <= b <=> n # 0)
      BY DEF a, b
    <2> QED
      BY <1>3, <2>1 DEF Slice, a, b
  <1>5. ASSUME NEW k \in 1..n
        PROVE  Slice(o, n)[k] = At(o + k - 1) /\ Slice(o, n)[k] \in Byte
    <2>1. (o + k - 1) + 1 = a + k - 1
      BY DEF a
    <2>2. Slice(o, n)[k] = At(o + k - 1)
      BY <1>4, <2>1 DEF At
    <2>3. o + k - 1 \in Nat /\ o + k - 1 < Size
      BY <1>1
    <2> QED
      BY <2>2, <2>3, SectionFacts
  <1> QED
    BY <1>4, <1>5

\* A row other than the augmentation string's ends where the next field starts.
LEMMA RowFacts ==
    ASSUME Typed, NEW name \in Labels, NEW n \in Nat, off + n <= Size
    PROVE  /\ Row(name, n) \in ItemRow /\ Row(name, n).at = off /\ Row(name, n).name = name
           /\ Row(name, n).bytes = Slice(off, n)
           /\ name # "Augumentation_String" => RowEnd(sect, Row(name, n)) = off + n
  <1>1. off \in Nat
    BY DEF Typed
  <1>2. Slice(off, n) \in Seq(Byte) /\ Len(Slice(off, n)) = n
    BY <1>1, SliceFacts
  <1> QED
    BY <1>1, <1>2 DEF Row, RowEnd, ItemRow

\* A number of any length that can be read lies in the section.
LEMMA LebFacts ==
    ASSUME Typed, NEW o \in Nat, LebWidth(o) # 0
    PROVE  /\ LebWidth(o) \in Nat /\ o + LebWidth(o) <= Size
           /\ Uleb(o) \in Nat
  <1> DEFINE ends == {k \in 1..8 : o + k <= Size /\ LebEnd(o, k)}
  <1>1. LebWidth(o) \in ends
    BY DEF LebWidth
  <1>2. LebWidth(o) \in 1..8 /\ o + LebWidth(o) <= Size
    BY <1>1
  <1>3. Size \in Nat
    BY SectionFacts
  <1>4. Uleb(o) \in Nat
    <2>1. ASSUME NEW j \in 1..3 PROVE Septet(o, j) \in 0..127
      <3>1. CASE j <= LebWidth(o)
        <4>1. o + j - 1 \in Nat /\ o + j - 1 < Size
          BY <1>2, <1>3, <3>1
        <4>2. At(o + j - 1) \in Byte
          BY <4>1, SectionFacts
        <4>3. At(o + j - 1) % 128 \in 0..127
          BY <4>2, BytesMake
        <4> QED
          BY <3>1, <4>3 DEF Septet
      <3>2. CASE ~(j <= LebWidth(o))
        BY <3>2 DEF Septet
      <3> QED
        BY <3>1, <3>2
    <2> DEFINE x == Septet(o, 1)
               y == Septet(o, 2)
               w == Septet(o, 3)
    <2>2. x \in 0..127 /\ y \in 0..127 /\ w \in 0..127
      BY <2>1
    <2>3. x + 128 * y + 16384 * w \in Nat
      <3> HIDE DEF x, y, w
      <3> QED
        BY <2>2
    <2> QED
      BY <2>3 DEF Uleb, Huge
  <1> QED
    BY <1>2, <1>4

\* So does a pointer; one that takes no bytes may stand at its end.
LEMMA PointerFacts ==
    ASSUME Typed, NEW o \in Nat, o <= Size, NEW enc, PointerWidth(o, enc) # Nil
    PROVE  PointerWidth(o, enc) \in Nat /\ o + PointerWidth(o, enc) <= Size
  <1> DEFINE fixed(n) == IF ReadAt(o, n) THEN n ELSE Nil
             leb == IF LebWidth(o) = 0 THEN Nil ELSE LebWidth(o)
             w == PointerWidth(o, enc)
  <1>1. w \in {fixed(sect.ptr), leb, fixed(2), fixed(4), fixed(8), 0}
    BY DEF PointerWidth
  <1>2. Size \in Nat /\ sect.ptr \in Nat
    BY SectionFacts
  <1>3. ASSUME NEW n \in Nat, w = fixed(n) PROVE w \in Nat /\ o + w <= Size
    BY <1>3 DEF ReadAt
  <1>4. w = leb => w \in Nat /\ o + w <= Size
    BY LebFacts
  <1>5. w = 0 => w \in Nat /\ o + w <= Size
    BY <1>2
  <1> HIDE DEF w
  <1> QED
    BY <1>1, <1>2, <1>3, <1>4, <1>5 DEF w

\* A number of four bytes is what its row's first two bytes are, or too large.
LEMMA WordFacts ==
    ASSUME Typed, NEW o \in Nat, o + 4 <= Size
    PROVE  /\ Word(o) \in Nat
           /\ \A row : row.bytes = Slice(o, 4) => Low(row) \in Nat /\ Word(o) \in {Low(row), Huge}
  <1>1. /\ Slice(o, 4)[1] \in Byte /\ Slice(o, 4)[2] \in Byte
    BY SliceFacts
  <1>2. Slice(o, 4)[1] + 256 * Slice(o, 4)[2] \in Nat
    BY <1>1, BytesMake
  <1> QED
    BY <1>2 DEF Word, Low, Huge

\* The augmentation string ends at the first 0 byte.
LEMMA AugFacts ==
    ASSUME Typed, NEW o \in Nat, AugEnds(o) # {}
    PROVE  /\ AugLen(o) \in Nat /\ o + AugLen(o) + 1 <= Size
           /\ At(o + AugLen(o)) = 0
           /\ \A u \in o..(o + AugLen(o) - 1) : At(u) # 0
  <1>1. \E k \in AugEnds(o) : \A j \in AugEnds(o) : k <= j
    <2>1. AugEnds(o) \subseteq 0..7
      BY DEF AugEnds
    <2> QED
      BY <2>1
  <1>2. AugLen(o) \in AugEnds(o) /\ \A j \in AugEnds(o) : AugLen(o) <= j
    BY <1>1 DEF AugLen
  <1>3. AugLen(o) \in 0..7 /\ o + AugLen(o) < Size /\ At(o + AugLen(o)) = 0
    BY <1>2 DEF AugEnds
  <1>4. Size \in Nat
    BY SectionFacts
  <1>5. ASSUME NEW u \in o..(o + AugLen(o) - 1) PROVE At(u) # 0
    <2>1. u - o \in 0..7 /\ o + (u - o) < Size /\ u - o < AugLen(o) /\ o + (u - o) = u
      BY <1>3, <1>4
    <2>2. u - o \notin AugEnds(o)
      BY <1>2, <1>3, <2>1
    <2> QED
      BY <2>1, <2>2 DEF AugEnds
  <1> QED
    BY <1>3, <1>4, <1>5

\* The augmentation string's row stands for all of the string.
LEMMA AugRow ==
    ASSUME Typed, AugEnds(off) # {}
    PROVE  /\ Row("Augumentation_String", 1) \in ItemRow
           /\ Row("Augumentation_String", 1).at = off
           /\ RowEnd(sect, Row("Augumentation_String", 1)) = off + AugLen(off) + 1
           /\ off + AugLen(off) + 1 \in Nat /\ off < off + AugLen(off) + 1
           /\ off + AugLen(off) + 1 <= Size
           /\ Slice(off, AugLen(off)) \in Seq(Byte)
  <1> DEFINE row == Row("Augumentation_String", 1)
             e == off + AugLen(off) + 1
             Ends(o) == /\ sect.bytes[o] = 0
                        /\ \A u \in (off + 1)..(o - 1) : sect.bytes[u] # 0
  <1>1. off \in Nat /\ Size \in Nat /\ Size = Len(sect.bytes)
    BY SectionFacts DEF Typed, Size
  <1>2. /\ AugLen(off) \in Nat /\ e <= Size /\ At(off + AugLen(off)) = 0
        /\ \A u \in off..(off + AugLen(off) - 1) : At(u) # 0
    BY <1>1, AugFacts
  <1>3. e \in Nat /\ off < e /\ off + 1 <= Size /\ off + AugLen(off) <= Size
    BY <1>1, <1>2
  <1>4. row \in ItemRow /\ row.at = off
    <2>1. "Augumentation_String" \in Labels /\ 1 \in Nat
      BY DEF Labels
    <2> QED
      BY <1>3, <2>1, RowFacts
  <1>5. row.name = "Augumentation_String"
    BY DEF Row
  <1>6. Slice(off, AugLen(off)) \in Seq(Byte)
    BY <1>1, <1>2, <1>3, SliceFacts
  <1>7. e \in (off + 1)..Size /\ Ends(e)
    <2>1. sect.bytes[e] = 0
      BY <1>2 DEF At
    <2>2. ASSUME NEW u \in (off + 1)..(e - 1) PROVE sect.bytes[u] # 0
      <3>1. u - 1 \in off..(off + AugLen(off) - 1) /\ (u - 1) + 1 = u
        BY <1>1, <1>2
      <3>2. At(u - 1) # 0
        BY <1>2, <3>1
      <3> QED
        BY <3>1, <3>2 DEF At
    <2> QED
      BY <1>1, <1>2, <1>3, <2>1, <2>2
  <1>8. ASSUME NEW o \in (off + 1)..Size, Ends(o) PROVE o = e
    <2>1. o < e => o \in (off + 1)..(e - 1)
      BY <1>1, <1>3
    <2>2. e < o => e \in (off + 1)..(o - 1)
      BY <1>1, <1>3
    <2>3. o \in Int /\ e \in Int
      BY <1>1, <1>3
    <2> HIDE DEF e
    <2> QED
      BY <1>7, <1>8, <2>1, <2>2, <2>3
  <1>9. RowEnd(sect, row) = CHOOSE o \in (off + 1)..Size : Ends(o)
    BY <1>1, <1>4, <1>5 DEF RowEnd
  <1> HIDE DEF e, Ends, row
  <1>10. RowEnd(sect, row) = e
    BY <1>7, <1>8, <1>9
  <1> QED
    BY <1>2, <1>3, <1>4, <1>6, <1>10 DEF e, row

\* A step that leaves the items alone keeps what is said of them.
LEMMA SameTable ==
    ASSUME UNCHANGED <<sect, table>>
    PROVE  /\ CieItems' = CieItems
           /\ \A n : FdeItems(n)' = FdeItems(n)
           /\ \A n : ItemsEnd(n)' = ItemsEnd(n)
           /\ RowsTile' <=> RowsTile
           /\ FdesUnderTheirCie' <=> FdesUnderTheirCie
  BY DEF CieItems, FdeItems, ItemsEnd, RowsTile, FdesUnderTheirCie

\* A row that starts where the last one ends goes on with the chain.
LEMMA ChainGrows ==
    ASSUME NEW s, NEW rows \in Seq(ItemRow), rows # <<>>, Chained(s, rows), NEW row \in ItemRow,
           row.at = RowEnd(s, rows[Len(rows)])
    PROVE  LET more == Append(rows, row)
           IN /\ more \in Seq(ItemRow) /\ more # <<>> /\ Chained(s, more)
              /\ Len(more) = Len(rows) + 1 /\ Len(rows) \in Nat
              /\ more[Len(more)] = row /\ more[1] = rows[1]
              /\ Len(rows) >= 2 => more[2] = rows[2]
  <1> DEFINE more == Append(rows, row)
             n == Len(rows)
  <1>1. /\ more \in Seq(ItemRow) /\ more # <<>> /\ Len(more) = n + 1 /\ n \in Nat /\ n # 0
        /\ more[n + 1] = row /\ \A k \in 1..n : more[k] = rows[k]
    BY AppendProperties, LenProperties, EmptySeq
  <1>2. ASSUME NEW k \in 1..(Len(more) - 1) PROVE more[k + 1].at = RowEnd(s, more[k])
    <2>1. CASE k = n
      BY <1>1, <2>1
    <2>2. CASE k # n
      <3>1. k \in 1..(n - 1) /\ k + 1 \in 1..n /\ k \in 1..n
        BY <1>1, <2>2
      <3> QED
        BY <1>1, <3>1 DEF Chained
    <2> QED
      BY <2>1, <2>2
  <1>3. 1 \in 1..n /\ (n >= 2 => 2 \in 1..n)
    BY <1>1
  <1> HIDE DEF more, n
  <1>4. Chained(s, more)
    BY <1>2 DEF Chained
  <1> QED
    BY <1>1, <1>3, <1>4 DEF more, n

-----------------------------------------------------------------------------
(* Reading an entry.                                                         *)

\* A step that adds the row of the field at off, or none.
Grows ==
    \/ UNCHANGED <<item, off>>
    \/ \E row \in ItemRow :
         /\ row.at = off /\ RowEnd(sect, row) = off'
         /\ item' = Append(item, row)
         /\ off' \in Nat /\ off <= off' /\ off' <= Size

LEMMA TakeGrows ==
    ASSUME Typed, NEW name \in Labels, name # "Augumentation_String", NEW n \in Nat,
           off + n <= Size, Take(name, n)
    PROVE  Grows
  <1>1. off \in Nat /\ off + n \in Nat /\ off <= off + n
    BY DEF Typed
  <1> QED
    BY <1>1, RowFacts DEF Take, Grows

\* Then the rows still reach from the start of the entry to off.
LEMMA GrowsKeeps ==
    ASSUME Typed, EntryRight, pc \in Reading, pc' \in Fields, Grows,
           UNCHANGED <<sect, top, end, table>>
    PROVE  /\ item' \in Seq(ItemRow) /\ item' # <<>> /\ Len(item') >= Len(item)
           /\ off' \in Nat /\ off' <= Size
           /\ EntryRight'
           /\ item'[1] = item[1] /\ (Len(item) >= 2 => item'[2] = item[2])
  <1>1. /\ item \in Seq(ItemRow) /\ item # <<>> /\ Chained(sect, item)
        /\ RowEnd(sect, item[Len(item)]) = off /\ off \in Nat /\ off <= Size /\ top \in Nat
        /\ top = ItemsEnd(Len(table)) /\ top + 4 <= off /\ Len(item) \in Nat
        /\ item[1].at = top /\ Low(item[1]) \in Nat
        /\ end = LengthEnd(item[1]) \/ end >= Huge
    BY LenProperties DEF Typed, EntryRight, Reading, Fields
  <1>2. /\ item' \in Seq(ItemRow) /\ item' # <<>> /\ Len(item') >= Len(item)
        /\ off' \in Nat /\ off' <= Size /\ off <= off'
        /\ Chained(sect, item') /\ RowEnd(sect, item'[Len(item')]) = off'
        /\ item'[1] = item[1] /\ (Len(item) >= 2 => item'[2] = item[2])
    <2>1. CASE UNCHANGED <<item, off>>
      BY <1>1, <2>1
    <2>2. CASE ~UNCHANGED <<item, off>>
      <3>1. PICK row \in ItemRow :
              /\ row.at = off /\ RowEnd(sect, row) = off'
              /\ item' = Append(item, row)
              /\ off' \in Nat /\ off <= off' /\ off' <= Size
        BY <2>2 DEF Grows
      <3> QED
        BY <1>1, <3>1, ChainGrows
    <2> QED
      BY <2>1, <2>2
  <1>3. top + 4 <= off'
    BY <1>1, <1>2
  <1>4. top' = ItemsEnd(Len(table))'
    BY <1>1, SameTable DEF ItemsEnd
  <1>5. EntryRight'
    BY <1>1, <1>2, <1>3, <1>4, pc' \in Fields DEF EntryRight, Fields
  <1> QED
    BY <1>2, <1>5

\* A step from one field of an entry to the next keeps everything.
LEMMA FieldKeeps ==
    ASSUME IInv, Grows, pc \in Fields, pc' \in Fields, UNCHANGED <<sect, top, end, cie, cies, table>>,
           loc' \in InfoType, loc'.num = loc.num, loc'.fdes = loc.fdes, augend' \in Nat
    PROVE  IInv'
  <1>1. Typed /\ EntryRight /\ CieKnown /\ CiesRight /\ FdesUnderTheirCie /\ SectionTiles
    BY DEF IInv
  <1>2. pc \in Reading /\ pc' \in Reading /\ pc' \in Steps /\ pc # "entry" /\ pc' # "entry" /\ pc' # "done"
    BY DEF Reading, Fields, Steps
  <1>3. /\ item' \in Seq(ItemRow) /\ item' # <<>> /\ Len(item') >= Len(item)
        /\ off' \in Nat /\ off' <= Size
        /\ EntryRight'
        /\ item'[1] = item[1] /\ (Len(item) >= 2 => item'[2] = item[2])
    BY <1>1, <1>2, GrowsKeeps
  <1>4. Typed'
    BY <1>1, <1>2, <1>3 DEF Typed, Size
  <1>5. CieKnown'
    <2>1. Len(item) \in Nat /\ Len(item') \in Nat
      BY <1>1, <1>3, LenProperties DEF Typed
    <2>2. Len(item) >= 2 => Len(item') >= 2
      BY <1>3, <2>1
    <2> QED
      BY <1>1, <1>3, <2>2 DEF CieKnown
  <1>6. CiesRight'
    <2>1. \A c : (HasItem(c)' <=> HasItem(c)) /\ (IsRead(c)' <=> IsRead(c))
      BY <1>2, SameTable DEF HasItem, IsRead
    <2> QED
      BY <1>1, <1>2, <2>1, SameTable DEF CiesRight
  <1>7. FdesUnderTheirCie' /\ SectionTiles'
    BY <1>1, <1>2, SameTable DEF SectionTiles, ItemsTile
  <1> QED
    BY <1>3, <1>4, <1>5, <1>6, <1>7 DEF IInv

LEMMA InFields ==
    ASSUME IInv, pc \in Fields
    PROVE  Typed /\ loc \in InfoType /\ off \in Nat /\ off <= Size /\ Size \in Nat /\ augend \in Nat
           /\ sect.ptr \in Nat
  BY SectionFacts DEF IInv, Typed, Fields

\* A field that is read as a number of fixed or any length, or as a pointer.
LEMMA TakeKeeps ==
    ASSUME IInv, pc \in Fields, pc' \in Fields, NEW name \in Labels, name # "Augumentation_String",
           NEW n \in Nat, off + n <= Size, Take(name, n),
           UNCHANGED <<sect, top, end, cie, cies, table>>,
           loc' \in InfoType, loc'.num = loc.num, loc'.fdes = loc.fdes, augend' \in Nat
    PROVE  IInv'
  <1>1. Grows
    BY InFields, TakeGrows
  <1> QED
    BY <1>1, FieldKeeps

\* The fields that every CIE has.
LEMMA FixedPartKeeps ==
    ASSUME IInv, \/ Version \/ Augmentation \/ EhData \/ CodeAlignment
                 \/ DataAlignment \/ ReturnAddressRegister
    PROVE  IInv'
  <1>1. CASE Version
    <2>1. pc \in Fields /\ pc' \in Fields /\ "Version" \in Labels
      BY <1>1 DEF Version, Goto, Fields, Labels
    <2>2. At(off) \in Byte /\ off + 1 <= Size
      BY <1>1, <2>1, InFields, SectionFacts DEF Version, ReadAt
    <2>3. loc' \in InfoType /\ loc'.num = loc.num /\ loc'.fdes = loc.fdes
      BY <1>1, <2>1, <2>2, InFields DEF Version, InfoType
    <2> QED
      BY <1>1, <2>1, <2>2, <2>3, InFields, TakeKeeps DEF Version
  <1>2. CASE Augmentation
    <2>1. pc \in Fields /\ pc' \in Fields
      BY <1>2 DEF Augmentation, Goto, Fields
    <2>2. Typed /\ loc \in InfoType /\ augend \in Nat
      BY <2>1, InFields
    <2>3. Slice(off, AugLen(off)) \in Seq(Byte) /\ Grows
      <3> DEFINE row == Row("Augumentation_String", 1)
      <3>1. item' = Append(item, row) /\ off' = off + AugLen(off) + 1 /\ AugEnds(off) # {}
        BY <1>2 DEF Augmentation
      <3>2. /\ row \in ItemRow /\ row.at = off /\ RowEnd(sect, row) = off'
            /\ off' \in Nat /\ off <= off' /\ off' <= Size
            /\ Slice(off, AugLen(off)) \in Seq(Byte)
        <4>1. off \in Nat
          BY <2>2 DEF Typed
        <4> QED
          BY <2>2, <3>1, <4>1, AugRow
      <3> HIDE DEF row
      <3> QED
        BY <3>1, <3>2 DEF Grows
    <2>4. loc' \in InfoType /\ loc'.num = loc.num /\ loc'.fdes = loc.fdes
      BY <1>2, <2>2, <2>3 DEF Augmentation, InfoType
    <2> QED
      BY <1>2, <2>1, <2>2, <2>3, <2>4, FieldKeeps DEF Augmentation
  <1>3. CASE EhData
    <2>1. pc \in Fields /\ pc' \in Fields /\ "EH_Data" \in Labels
      BY <1>3 DEF EhData, Goto, Fields, Labels
    <2> QED
      BY <1>3, <2>1, InFields, TakeKeeps DEF EhData, ReadAt
  <1>4. CASE CodeAlignment
    <2>1. pc \in Fields /\ pc' \in Fields /\ "Code_Alignment_Factor" \in Labels
      BY <1>4 DEF CodeAlignment, Goto, Fields, Labels
    <2> QED
      BY <1>4, <2>1, InFields, LebFacts, TakeKeeps DEF CodeAlignment
  <1>5. CASE DataAlignment
    <2>1. pc \in Fields /\ pc' \in Fields /\ "Data_Alignment_Factor" \in Labels
      BY <1>5 DEF DataAlignment, Goto, AfterFixedPart, Fields, Labels
    <2> QED
      BY <1>5, <2>1, InFields, LebFacts, TakeKeeps DEF DataAlignment
  <1>6. CASE ReturnAddressRegister
    <2>1. pc \in Fields /\ pc' \in Fields /\ "Return_Address_Register" \in Labels
      BY <1>6 DEF ReturnAddressRegister, Goto, AfterFixedPart, Fields, Labels
    <2>2. RarWidth \in Nat /\ off + RarWidth <= Size
      <3>1. CASE loc.version = 1
        BY <1>6, <2>1, <3>1, InFields DEF ReturnAddressRegister, RarWidth, ReadAt
      <3>2. CASE loc.version # 1
        BY <1>6, <2>1, <3>2, InFields, LebFacts DEF ReturnAddressRegister, RarWidth
      <3> QED
        BY <3>1, <3>2
    <2> QED
      BY <1>6, <2>1, <2>2, InFields, TakeKeeps DEF ReturnAddressRegister
  <1> QED
    BY <1>1, <1>2, <1>3, <1>4, <1>5, <1>6

\* The fields of FDEs, and those that describe the augmentation.
LEMMA PointersKeep ==
    ASSUME IInv, PcBegin \/ PcRange \/ PersonalityPointer \/ LsdaPointer
    PROVE  IInv'
  <1>1. CASE PcBegin
    <2>1. pc \in Fields /\ pc' \in Fields /\ "PC_Begin" \in Labels
      BY <1>1 DEF PcBegin, Goto, Fields, Labels
    <2> QED
      BY <1>1, <2>1, InFields, PointerFacts, TakeKeeps DEF PcBegin
  <1>2. CASE PcRange
    <2>1. pc \in Fields /\ pc' \in Fields /\ "PC_Range" \in Labels
      BY <1>2 DEF PcRange, Goto, AfterFixedPart, Fields, Labels
    <2> QED
      BY <1>2, <2>1, InFields, PointerFacts, TakeKeeps DEF PcRange
  <1>3. CASE PersonalityPointer
    <2>1. pc \in Fields /\ pc' \in Fields /\ "Data_Personlity_Pointer" \in Labels
      BY <1>3 DEF PersonalityPointer, Goto, Fields, Labels
    <2> QED
      BY <1>3, <2>1, InFields, PointerFacts, TakeKeeps DEF PersonalityPointer
  <1>4. CASE LsdaPointer
    <2>1. pc \in Fields /\ pc' \in Fields /\ "Data_LSDA_Pointer" \in Labels
      BY <1>4 DEF LsdaPointer, AtChar, Fields, Labels
    <2> QED
      BY <1>4, <2>1, InFields, PointerFacts, TakeKeeps DEF LsdaPointer
  <1> QED
    BY <1>1, <1>2, <1>3, <1>4

LEMMA AugmentationKeeps ==
    ASSUME IInv, \/ AugmentationLength \/ PersonalityEncoding \/ FdeEncoding \/ LsdaEncoding
                 \/ SkipChar \/ UnknownChar \/ AugmentationEnd
    PROVE  IInv'
  <1>1. CASE AugmentationLength
    <2>1. pc \in Fields /\ pc' \in Fields /\ "Augumentation_Length" \in Labels
      BY <1>1 DEF AugmentationLength, Goto, Fields, Labels
    <2>2. /\ LebWidth(off) \in Nat /\ off + LebWidth(off) <= Size
          /\ Uleb(off) \in Nat /\ off \in Nat
      BY <1>1, <2>1, InFields, LebFacts DEF AugmentationLength
    <2>3. augend' \in Nat
      BY <1>1, <2>2 DEF AugmentationLength
    <2> QED
      BY <1>1, <2>1, <2>2, <2>3, InFields, TakeKeeps DEF AugmentationLength
  <1>2. ASSUME PersonalityEncoding \/ FdeEncoding \/ LsdaEncoding
        PROVE  pc \in Fields /\ pc' \in Fields /\ At(off) \in Byte /\ off + 1 <= Size
    <2>1. pc \in Fields /\ pc' \in Fields
      BY <1>2 DEF PersonalityEncoding, FdeEncoding, LsdaEncoding, AtChar, Goto, Fields
    <2> QED
      BY <1>2, <2>1, InFields, SectionFacts
         DEF PersonalityEncoding, FdeEncoding, LsdaEncoding, ReadAt
  <1>3. CASE PersonalityEncoding
    <2>1. "Data_Personlity_Encoding" \in Labels
      BY DEF Labels
    <2>2. loc' \in InfoType /\ loc'.num = loc.num /\ loc'.fdes = loc.fdes
      BY <1>2, <1>3, InFields DEF PersonalityEncoding, InfoType
    <2> QED
      BY <1>2, <1>3, <2>1, <2>2, InFields, TakeKeeps DEF PersonalityEncoding
  <1>4. CASE FdeEncoding
    <2>1. "Data_FDE_Encoding" \in Labels
      BY DEF Labels
    <2>2. loc' \in InfoType /\ loc'.num = loc.num /\ loc'.fdes = loc.fdes
      BY <1>2, <1>4, InFields DEF FdeEncoding, InfoType
    <2> QED
      BY <1>2, <1>4, <2>1, <2>2, InFields, TakeKeeps DEF FdeEncoding
  <1>5. CASE LsdaEncoding
    <2>1. "Data_LSDA_Encoding" \in Labels
      BY DEF Labels
    <2>2. loc' \in InfoType /\ loc'.num = loc.num /\ loc'.fdes = loc.fdes
      BY <1>2, <1>5, InFields DEF LsdaEncoding, InfoType
    <2> QED
      BY <1>2, <1>5, <2>1, <2>2, InFields, TakeKeeps DEF LsdaEncoding
  <1>6. CASE SkipChar
    <2>1. pc \in Fields /\ pc' \in Fields /\ Grows
      BY <1>6 DEF SkipChar, AtChar, Fields, Grows
    <2> QED
      BY <1>6, <2>1, InFields, FieldKeeps DEF SkipChar
  <1>7. ASSUME NEW name \in Labels, name # "Augumentation_String", TakeRest(name), pc \in Fields
        PROVE  Grows
    <2>1. CASE UNCHANGED <<off, item>>
      BY <2>1 DEF Grows
    <2>2. CASE off < augend /\ ReadAt(off, augend - off) /\ Take(name, augend - off)
      <3>1. augend - off \in Nat /\ off + (augend - off) <= Size
        BY <1>7, <2>2, InFields DEF ReadAt
      <3> QED
        BY <1>7, <2>2, <3>1, InFields, TakeGrows
    <2> QED
      BY <1>7, <2>1, <2>2 DEF TakeRest
  <1>8. CASE UnknownChar
    <2>1. pc \in Fields /\ pc' \in Fields /\ "Data_Unknown" \in Labels
      BY <1>8 DEF UnknownChar, Fields, Labels
    <2>2. Grows
      BY <1>7, <1>8, <2>1 DEF UnknownChar
    <2> QED
      BY <1>8, <2>1, <2>2, InFields, FieldKeeps DEF UnknownChar
  <1>9. CASE AugmentationEnd
    <2>1. pc \in Fields /\ pc' \in Fields /\ "Data_Remains" \in Labels
      BY <1>9 DEF AugmentationEnd, Goto, Fields, Labels
    <2>2. Grows
      BY <1>7, <1>9, <2>1 DEF AugmentationEnd
    <2> QED
      BY <1>9, <2>1, <2>2, InFields, FieldKeeps DEF AugmentationEnd
  <1> QED
    BY <1>1, <1>3, <1>4, <1>5, <1>6, <1>8, <1>9

-----------------------------------------------------------------------------
(* The start of an entry.                                                    *)

LEMMA LengthKeeps == ASSUME IInv, Length PROVE IInv'
  <1> DEFINE n == IF IsExtended THEN 8 ELSE 4
             row == Row("Length", n)
  <1>1. /\ Typed /\ pc = "entry" /\ item = <<>> /\ off + 8 <= Size /\ off \in Nat /\ Size \in Nat
        /\ off = ItemsEnd(Len(table)) /\ Size < Huge
    BY SectionFacts DEF IInv, Length, ReadAt, EntryRight, SectionTiles, ItemsTile, Typed
  <1>2. /\ pc' = "id" /\ top' = off /\ item' = Append(item, row) /\ off' = off + n
        /\ UNCHANGED <<sect, cie, loc, ai, augend, cies, table>>
        /\ end' = IF IsExtended THEN off + 8 + Huge ELSE off + 4 + Word(off)
    BY DEF Length, Take, Goto, EntryEnd
  <1>3. n \in {4, 8} /\ n \in Nat /\ off + n <= Size
    BY <1>1
  <1>4. row \in ItemRow /\ row.at = off /\ row.bytes = Slice(off, n) /\ RowEnd(sect, row) = off + n
    <2>1. "Length" \in Labels /\ "Length" # "Augumentation_String"
      BY DEF Labels
    <2> QED
      BY <1>1, <1>3, <2>1, RowFacts
  <1>5. item' = <<row>> /\ item' \in Seq(ItemRow) /\ Len(item') = 1 /\ item'[1] = row
    BY <1>1, <1>2, <1>4
  <1>6. Low(row) \in Nat
    <2>1. 1 \in 1..n /\ 2 \in 1..n
      BY <1>3
    <2>2. Slice(off, n)[1] \in Byte /\ Slice(off, n)[2] \in Byte
      BY <1>1, <1>3, <2>1, SliceFacts
    <2> QED
      BY <1>4, <2>2, BytesMake DEF Low
  <1>7. end' \in Nat /\ (end' = LengthEnd(row) \/ end' >= Huge)
    <2>1. CASE IsExtended
      BY <1>1, <1>2, <2>1 DEF Huge
    <2>2. CASE ~IsExtended
      <3>1. off + 4 <= Size
        BY <1>1
      <3>2. Word(off) \in {Low(row), Huge} /\ Word(off) \in Nat
        BY <1>1, <1>4, <2>2, <3>1, WordFacts
      <3>3. LengthEnd(row) = off + 4 + Low(row)
        BY <1>4 DEF LengthEnd
      <3>4. end' = off + 4 + Word(off)
        BY <1>2, <2>2
      <3>5. Word(off) = Huge => end' >= Huge
        BY <1>1, <3>4 DEF Huge
      <3>6. Word(off) = Low(row) => end' = LengthEnd(row)
        BY <3>3, <3>4
      <3>7. end' \in Nat
        BY <1>1, <3>2, <3>4
      <3> QED
        BY <3>2, <3>5, <3>6, <3>7
    <2> QED
      BY <2>1, <2>2
  <1> HIDE DEF row, n
  <1>8. Typed'
    <2>1. off' \in Nat /\ off' <= Size /\ "id" \in Steps /\ "id" \notin Fields
      BY <1>1, <1>2, <1>3 DEF Steps, Fields
    <2> QED
      BY <1>1, <1>2, <1>5, <1>7, <2>1 DEF Typed, Size
  <1>9. EntryRight'
    <2>1. Chained(sect, item') /\ RowEnd(sect, item'[Len(item')]) = off' /\ top' + 4 <= off'
      BY <1>1, <1>2, <1>3, <1>4, <1>5 DEF Chained
    <2>2. top' = ItemsEnd(Len(table))'
      BY <1>1, <1>2 DEF ItemsEnd
    <2>3. /\ item' # <<>> /\ item'[1].at = top' /\ Low(item'[1]) \in Nat
          /\ end' = LengthEnd(item'[1]) \/ end' >= Huge
      BY <1>2, <1>4, <1>5, <1>6, <1>7
    <2> QED
      BY <1>2, <1>5, <2>1, <2>2, <2>3 DEF EntryRight
  <1>10. CieKnown' /\ FdesUnderTheirCie' /\ SectionTiles'
    BY <1>2, SameTable DEF IInv, CieKnown, Fields, SectionTiles, ItemsTile
  <1>11. CiesRight'
    <2>1. ASSUME NEW c \in DOMAIN cies PROVE HasItem(c)'
      <3>1. HasItem(c)
        BY <1>1 DEF IInv, CiesRight, IsRead, Fields
      <3> QED
        BY <1>1, <1>2, <3>1, SameTable DEF HasItem
    <2> QED
      BY <1>2, <2>1, SameTable DEF IInv, CiesRight
  <1> QED
    BY <1>8, <1>9, <1>10, <1>11 DEF IInv

\* What is known while the id is read.
LEMMA AtId ==
    ASSUME IInv, pc = "id", ReadAt(off, 4)
    PROVE  /\ Typed /\ EntryRight /\ pc \in Reading /\ Len(item) = 1
           /\ off \in Nat /\ off + 4 <= Size /\ Size \in Nat /\ Size < Huge /\ top \in Nat /\ top <= Size
           /\ DOMAIN cies \subseteq 0..Size
           /\ \A c \in DOMAIN cies : HasItem(c) /\ c < top
  <1>1. Typed /\ EntryRight /\ pc \in Reading
    BY DEF IInv, Reading
  <1>2. /\ off \in Nat /\ off + 4 <= Size /\ Size \in Nat /\ Size < Huge /\ top \in Nat
        /\ top + 4 <= off /\ Len(item) = 1 /\ DOMAIN cies \subseteq 0..Size
    BY <1>1, SectionFacts DEF Typed, EntryRight, ReadAt
  <1>3. \A c \in DOMAIN cies : HasItem(c) /\ c < top
    BY <1>1 DEF IInv, CiesRight, IsRead, Fields, HasItem
  <1> QED
    BY <1>1, <1>2, <1>3

\* What is counted is counted by numbers.
LEMMA ItemsFinite ==
    ASSUME Typed
    PROVE  /\ IsFiniteSet(CieItems) /\ Cardinality(CieItems) \in Nat
           /\ \A num : IsFiniteSet(FdeItems(num)) /\ Cardinality(FdeItems(num)) \in Nat
           /\ Len(table) \in Nat /\ Len(table) + 1 \notin CieItems
           /\ \A num : Len(table) + 1 \notin FdeItems(num)
  <1>1. Len(table) \in Nat
    BY DEF Typed
  <1>2. IsFiniteSet(1..Len(table))
    BY <1>1, FS_Interval
  <1>3. CieItems \in SUBSET (1..Len(table)) /\ \A num : FdeItems(num) \in SUBSET (1..Len(table))
    BY DEF CieItems, FdeItems
  <1>4. Len(table) + 1 \notin 1..Len(table)
    BY <1>1
  <1> QED
    BY <1>1, <1>2, <1>3, <1>4, FS_Subset, FS_CardinalityType

LEMMA CieIdKeeps == ASSUME IInv, CieId PROVE IInv'
  <1> DEFINE new == [NewInfo EXCEPT !.penc = Omit, !.lenc = Omit]
  <1>1. /\ pc = "id" /\ ReadAt(off, 4) /\ Take("CIE_ID", 4) /\ cie' = top /\ cies' = Put(top, NewInfo)
        /\ loc' = new /\ pc' = "version"
        /\ UNCHANGED <<sect, top, end, ai, augend, table>>
    BY DEF CieId, Goto
  <1>2. /\ Typed /\ EntryRight /\ pc \in Reading /\ Len(item) = 1
        /\ off \in Nat /\ off + 4 <= Size /\ top \in Nat /\ top <= Size
        /\ \A c \in DOMAIN cies : HasItem(c) /\ c < top
    BY <1>1, AtId
  <1>3. pc' \in Fields /\ "version" \in Fields /\ "version" \in Steps /\ "version" \in Reading /\ "CIE_ID" \in Labels
    BY <1>1 DEF Fields, Reading, Labels, Steps
  <1>4. Grows
    BY <1>1, <1>2, <1>3, TakeGrows
  <1>5. /\ item' \in Seq(ItemRow) /\ off' \in Nat /\ off' <= Size /\ EntryRight'
    <2>1. UNCHANGED <<sect, top, end, table>> /\ Typed /\ EntryRight /\ pc \in Reading /\ pc' \in Fields
      BY <1>1, <1>2, <1>3
    <2> QED
      BY <1>4, <2>1, GrowsKeeps
  <1>6. Cardinality(CieItems) \in Nat /\ NewInfo.num = Cardinality(CieItems) /\ NewInfo.fdes = 0
    BY <1>2, ItemsFinite DEF NewInfo, CieItems
  <1>7. NewInfo \in InfoType /\ new \in InfoType /\ new.num = NewInfo.num /\ new.fdes = NewInfo.fdes
    <2>1. 0 \in Byte /\ Omit \in Byte /\ <<>> \in Seq(Byte)
      BY DEF Byte, Omit
    <2>2. NewInfo \in InfoType
      BY <1>6, <2>1 DEF NewInfo, InfoType
    <2> QED
      BY <2>1, <2>2 DEF InfoType
  <1> HIDE DEF new
  <1>8. /\ DOMAIN cies' = DOMAIN cies \cup {top} /\ top \notin DOMAIN cies
        /\ cies'[top] = NewInfo /\ \A c \in DOMAIN cies : cies'[c] = cies[c]
        /\ cies' \in [DOMAIN cies' -> InfoType]
    <2>1. top \notin DOMAIN cies
      BY <1>2
    <2>2. cies \in [DOMAIN cies -> InfoType]
      BY <1>2 DEF Typed
    <2> QED
      BY <1>1, <1>7, <2>1, <2>2 DEF Put
  <1>9. Typed'
    <2>1. DOMAIN cies' \subseteq 0..Size
      BY <1>2, <1>8 DEF Typed
    <2> QED
      BY <1>1, <1>2, <1>3, <1>5, <1>7, <1>8, <2>1 DEF Typed, Size
  <1>10. CieKnown'
    BY <1>1, <1>7, <1>8 DEF CieKnown
  <1>11. CiesRight'
    <2>1. ASSUME NEW c \in DOMAIN cies PROVE HasItem(c)' /\ cies'[c].num < NewInfo.num
      BY <1>1, <1>2, <1>6, <1>8, SameTable DEF HasItem
    <2>2. IsRead(top)'
      BY <1>1, <1>3, <1>6, <1>8, SameTable DEF IsRead
    <2>3. ASSUME NEW c \in DOMAIN cies', NEW d \in DOMAIN cies', cies'[c].num = cies'[d].num PROVE c = d
      <3>1. \A b \in DOMAIN cies : cies'[b].num # cies'[top].num
        <4>1. \A b \in DOMAIN cies : cies'[b].num \in Int
          BY <1>8 DEF InfoType
        <4> QED
          BY <1>6, <1>8, <2>1, <4>1
      <3> QED
        BY <1>8, <2>3, <3>1 DEF IInv, CiesRight
    <2> QED
      BY <1>1, <1>8, <2>1, <2>2, <2>3, SameTable DEF IInv, CiesRight
  <1>12. FdesUnderTheirCie' /\ SectionTiles'
    BY <1>1, SameTable DEF IInv, SectionTiles, ItemsTile
  <1> QED
    BY <1>5, <1>9, <1>10, <1>11, <1>12 DEF IInv

LEMMA CiePointerKeeps == ASSUME IInv, CiePointer PROVE IInv'
  <1> DEFINE row == Row("CIE_Pointer", 4)
  <1>1. /\ pc = "id" /\ ReadAt(off, 4) /\ Take("CIE_Pointer", 4) /\ cie' = off - Word(off)
        /\ off - Word(off) \in DOMAIN cies
        /\ loc' = cies[off - Word(off)] /\ pc' = "pcbegin"
        /\ UNCHANGED <<sect, top, end, ai, augend, cies, table>>
    BY DEF CiePointer, Goto, CieTop
  <1>2. /\ Typed /\ EntryRight /\ pc \in Reading /\ Len(item) = 1
        /\ off \in Nat /\ off + 4 <= Size /\ Size \in Nat /\ Size < Huge
        /\ DOMAIN cies \subseteq 0..Size
        /\ \A c \in DOMAIN cies : HasItem(c)
    BY <1>1, AtId
  <1>3. /\ pc' \in Fields /\ "pcbegin" \in Fields /\ "pcbegin" \in Steps /\ "pcbegin" \in Reading
        /\ "CIE_Pointer" \in Labels
    BY <1>1 DEF Fields, Reading, Labels, Steps
  <1>4. Grows
    BY <1>1, <1>2, <1>3, TakeGrows
  <1>5. /\ item' \in Seq(ItemRow) /\ off' \in Nat /\ off' <= Size /\ EntryRight'
    <2>1. UNCHANGED <<sect, top, end, table>> /\ Typed /\ EntryRight /\ pc \in Reading /\ pc' \in Fields
      BY <1>1, <1>2, <1>3
    <2> QED
      BY <1>4, <2>1, GrowsKeeps
  <1>6. row \in ItemRow /\ row.at = off /\ row.bytes = Slice(off, 4)
    BY <1>2, <1>3, RowFacts
  <1>7. Len(item') = 2 /\ item'[2] = row
    <2>1. item \in Seq(ItemRow) /\ item' = Append(item, row)
      BY <1>1, <1>2 DEF Typed, Take
    <2> HIDE DEF row
    <2>2. Len(Append(item, row)) = Len(item) + 1 /\ Append(item, row)[Len(item) + 1] = row
      BY <1>6, <2>1, AppendProperties
    <2> QED
      BY <1>2, <2>1, <2>2
  <1>8. cie' \in Nat /\ cie' = off - Low(row)
    <2>1. Word(off) \in {Low(row), Huge} /\ Word(off) \in Nat
      BY <1>2, <1>6, WordFacts
    <2>2. off - Word(off) \in 0..Size
      BY <1>1, <1>2
    <2>3. Word(off) # Huge
      BY <1>2, <2>1, <2>2
    <2> QED
      BY <1>1, <2>1, <2>2, <2>3
  <1>9. loc' \in InfoType
    BY <1>1, <1>2 DEF Typed
  <1> HIDE DEF row
  <1>10. Typed'
    BY <1>1, <1>2, <1>3, <1>5, <1>8, <1>9 DEF Typed, Size
  <1>11. CieKnown'
    BY <1>1, <1>6, <1>7, <1>8 DEF CieKnown
  <1>12. CiesRight'
    <2>1. ASSUME NEW c \in DOMAIN cies PROVE HasItem(c)'
      <3>1. HasItem(c)
        BY <1>2
      <3> QED
        BY <1>1, <3>1, SameTable DEF HasItem
    <2> QED
      BY <1>1, <2>1, SameTable DEF IInv, CiesRight
  <1>13. FdesUnderTheirCie' /\ SectionTiles'
    BY <1>1, SameTable DEF IInv, SectionTiles, ItemsTile
  <1> QED
    BY <1>5, <1>10, <1>11, <1>12, <1>13 DEF IInv

-----------------------------------------------------------------------------
(* The end of an entry.                                                      *)

\* A window of 4 numbers holds one multiple of 4.
LEMMA OneMultipleOf4 ==
    ASSUME NEW n \in Nat, NEW x \in Nat, NEW y \in Nat,
           n <= x, x <= n + 3, x % 4 = 0, n <= y, y <= n + 3, y % 4 = 0
    PROVE  x = y
  <1>1. x = 4 * (x \div 4) + (x % 4) /\ x \div 4 \in Nat
    OBVIOUS
  <1>2. y = 4 * (y \div 4) + (y % 4) /\ y \div 4 \in Nat
    OBVIOUS
  <1>3. PICK a \in Nat : x = 4 * a
    BY <1>1
  <1>4. PICK b \in Nat : y = 4 * b
    BY <1>2
  <1>5. 4 * a <= 4 * b + 3 /\ 4 * b <= 4 * a + 3
    BY <1>3, <1>4
  <1>6. a = b
    BY <1>5
  <1> QED
    BY <1>3, <1>4, <1>6

\* A window of 8 numbers holds one multiple of 8.
LEMMA OneMultipleOf8 ==
    ASSUME NEW n \in Nat, NEW x \in Nat, NEW y \in Nat,
           n <= x, x <= n + 7, x % 8 = 0, n <= y, y <= n + 7, y % 8 = 0
    PROVE  x = y
  <1>1. x = 8 * (x \div 8) + (x % 8) /\ x \div 8 \in Nat
    OBVIOUS
  <1>2. y = 8 * (y \div 8) + (y % 8) /\ y \div 8 \in Nat
    OBVIOUS
  <1>3. PICK a \in Nat : x = 8 * a
    BY <1>1
  <1>4. PICK b \in Nat : y = 8 * b
    BY <1>2
  <1>5. 8 * a <= 8 * b + 7 /\ 8 * b <= 8 * a + 7
    BY <1>3, <1>4
  <1>6. a = b
    BY <1>5
  <1> QED
    BY <1>3, <1>4, <1>6

\* The padding after an entry ends at the only multiple of the pointer's size that is near.
LEMMA PadFacts ==
    ASSUME Typed, NEW row, row.at \in Nat, NEW n \in Nat, LengthEnd(row) = row.at + n
    PROVE  /\ PaddedEnd(sect, row) = row.at + RoundUp(n)
           /\ RoundUp(n) \in Nat /\ n <= RoundUp(n)
  <1> DEFINE p == sect.ptr
             a == row.at
             e == a + n
             o == a + RoundUp(n)
  <1>1. p \in {4, 8}
    BY SectionFacts
  <1>2. RoundUp(n) \in Nat /\ n <= RoundUp(n) /\ RoundUp(n) <= n + p - 1 /\ RoundUp(n) % p = 0
    <2>1. CASE p = 4
      <3>1. RoundUp(n) = ((n + 4 - 1) \div 4) * 4
        BY <2>1 DEF RoundUp
      <3> QED
        BY <2>1, <3>1
    <2>2. CASE p = 8
      <3>1. RoundUp(n) = ((n + 8 - 1) \div 8) * 8
        BY <2>2 DEF RoundUp
      <3> QED
        BY <2>2, <3>1
    <2> QED
      BY <1>1, <2>1, <2>2
  <1>3. o \in e..(e + p - 1) /\ (o - a) % p = 0
    <2>1. o - a = RoundUp(n)
      BY <1>2
    <2>2. e <= o /\ o <= e + p - 1 /\ e \in Int /\ o \in Int /\ e + p - 1 \in Int
      BY <1>1, <1>2
    <2> QED
      BY <1>2, <2>1, <2>2
  <1>4. ASSUME NEW q \in e..(e + p - 1), (q - a) % p = 0 PROVE q = o
    <2>1. q \in Int /\ a + n <= q /\ q <= a + n + p - 1
      BY <1>1, <1>4
    <2>2. PICK x \in Nat : x = q - a /\ n <= x /\ x <= n + p - 1 /\ x % p = 0
      BY <1>1, <1>4, <2>1
    <2>3. x = RoundUp(n)
      <3> DEFINE y == RoundUp(n)
      <3>1. y \in Nat /\ n <= y /\ y <= n + p - 1 /\ y % p = 0
        BY <1>2
      <3> HIDE DEF y
      <3>2. n \in Nat
        BY <1>1
      <3>3. CASE p = 4
        <4>1. x <= n + 3 /\ x % 4 = 0 /\ y <= n + 3 /\ y % 4 = 0
          BY <2>2, <3>1, <3>2, <3>3
        <4>2. x = y
          BY <2>2, <3>1, <3>2, <4>1, OneMultipleOf4
        <4> QED
          BY <4>2 DEF y
      <3>4. CASE p = 8
        <4>1. x <= n + 7 /\ x % 8 = 0 /\ y <= n + 7 /\ y % 8 = 0
          BY <2>2, <3>1, <3>2, <3>4
        <4>2. x = y
          BY <2>2, <3>1, <3>2, <4>1, OneMultipleOf8
        <4> QED
          BY <4>2 DEF y
      <3> QED
        BY <1>1, <3>3, <3>4 DEF y
    <2> QED
      BY <1>2, <2>1, <2>2, <2>3
  <1>5. PaddedEnd(sect, row) = CHOOSE q \in e..(e + p - 1) : (q - a) % p = 0
    BY DEF PaddedEnd
  <1> HIDE DEF p, e, o
  <1>6. PaddedEnd(sect, row) = o
    BY <1>3, <1>4, <1>5
  <1> QED
    BY <1>2, <1>6 DEF o

\* The finished items are the ones before and the new one, which is counted with its kind.
LEMMA NewItem ==
    ASSUME Typed, NEW new \in ItemType, table' = Append(table, new), sect' = sect
    PROVE  /\ table' \in Seq(ItemType) /\ Len(table') = Len(table) + 1 /\ Len(table) \in Nat
           /\ table'[Len(table) + 1] = new
           /\ \A k \in 1..Len(table) : k \in 1..Len(table') /\ table'[k] = table[k]
           /\ \A k \in 1..Len(table') : k \in 1..Len(table) \/ k = Len(table) + 1
           /\ CieItems' = IF new.kind = "CIE" THEN CieItems \cup {Len(table) + 1} ELSE CieItems
           /\ Cardinality(CieItems') = Cardinality(CieItems) + IF new.kind = "CIE" THEN 1 ELSE 0
           /\ \A num : Cardinality(FdeItems(num)') =
                  Cardinality(FdeItems(num)) + IF new.kind = "FDE" /\ new.cfi = num THEN 1 ELSE 0
           /\ \A k \in 0..Len(table) : ItemsEnd(k)' = ItemsEnd(k)
           /\ \A k \in 1..(Len(table) + 1) : \A num :
                {j \in 1..(k - 1) : table'[j].kind = "FDE" /\ table'[j].cfi = num}
                  = {j \in 1..(k - 1) : table[j].kind = "FDE" /\ table[j].cfi = num}
  <1> DEFINE n == Len(table)
  <1>1. /\ table' \in Seq(ItemType) /\ Len(table') = n + 1 /\ table'[n + 1] = new
        /\ \A k \in 1..n : table'[k] = table[k]
    BY AppendProperties DEF Typed
  <1>2. /\ IsFiniteSet(CieItems) /\ Cardinality(CieItems) \in Nat /\ n \in Nat
        /\ \A num : IsFiniteSet(FdeItems(num)) /\ Cardinality(FdeItems(num)) \in Nat
        /\ n + 1 \notin CieItems /\ \A num : n + 1 \notin FdeItems(num)
    BY ItemsFinite
  <1>3. 1..Len(table') = (1..n) \cup {n + 1}
    BY <1>1, <1>2
  <1>4. CieItems' = IF new.kind = "CIE" THEN CieItems \cup {n + 1} ELSE CieItems
    <2>1. ASSUME NEW k
          PROVE  k \in CieItems' <=> k \in IF new.kind = "CIE" THEN CieItems \cup {n + 1} ELSE CieItems
      BY <1>1, <1>2, <1>3 DEF CieItems
    <2> QED
      BY <2>1
  <1>5. ASSUME NEW num
        PROVE  FdeItems(num)' = IF new.kind = "FDE" /\ new.cfi = num
                                THEN FdeItems(num) \cup {n + 1} ELSE FdeItems(num)
    <2>1. ASSUME NEW k
          PROVE  k \in FdeItems(num)' <=> k \in IF new.kind = "FDE" /\ new.cfi = num
                                                THEN FdeItems(num) \cup {n + 1} ELSE FdeItems(num)
      BY <1>1, <1>2, <1>3 DEF FdeItems
    <2> QED
      BY <2>1
  <1>6. Cardinality(CieItems') = Cardinality(CieItems) + IF new.kind = "CIE" THEN 1 ELSE 0
    <2>1. Cardinality(CieItems \cup {n + 1}) = Cardinality(CieItems) + 1
      BY <1>2, FS_AddElement
    <2>2. Cardinality(CieItems) + 0 = Cardinality(CieItems)
      BY <1>2
    <2> QED
      BY <1>4, <2>1, <2>2
  <1>7. ASSUME NEW num
        PROVE  Cardinality(FdeItems(num)') =
                  Cardinality(FdeItems(num)) + IF new.kind = "FDE" /\ new.cfi = num THEN 1 ELSE 0
    <2>1. Cardinality(FdeItems(num) \cup {n + 1}) = Cardinality(FdeItems(num)) + 1
      BY <1>2, FS_AddElement
    <2>2. Cardinality(FdeItems(num)) + 0 = Cardinality(FdeItems(num))
      BY <1>2
    <2> QED
      BY <1>5, <2>1, <2>2
  <1>8. ASSUME NEW k \in 0..n PROVE ItemsEnd(k)' = ItemsEnd(k)
    <2>1. k # 0 => k \in 1..n
      BY <1>2
    <2> QED
      BY <1>1, <2>1 DEF ItemsEnd
  <1>9. ASSUME NEW k \in 1..(n + 1), NEW num
        PROVE  {j \in 1..(k - 1) : table'[j].kind = "FDE" /\ table'[j].cfi = num}
                  = {j \in 1..(k - 1) : table[j].kind = "FDE" /\ table[j].cfi = num}
    <2>1. \A j \in 1..(k - 1) : j \in 1..n
      BY <1>2
    <2> QED
      BY <1>1, <2>1
  <1>10. \A k \in 1..n : k \in 1..Len(table')
    BY <1>3
  <1> QED
    BY <1>1, <1>2, <1>3, <1>4, <1>6, <1>7, <1>8, <1>9, <1>10

\* The rows of a finished entry.
LEMMA FinishedRows ==
    ASSUME IInv, Instructions
    PROVE  /\ Typed /\ pc \in Fields /\ pc' = "entry" /\ sect' = sect /\ cie' = cie /\ item' = <<>>
           /\ table' = Append(table, Finished)
           /\ cies' = Put(cie, IF IsCie THEN Kept(loc) ELSE Counted(loc))
           /\ Finished \in ItemType
           /\ Finished.rows[1].at = top /\ top = ItemsEnd(Len(table))
           /\ Chained(sect, Finished.rows)
           /\ RowEnd(sect, Finished.rows[Len(Finished.rows)]) = LengthEnd(Finished.rows[1])
           /\ Len(item) >= 2 => Finished.rows[2] = item[2]
           /\ off' = PaddedEnd(sect, Finished.rows[1])
           /\ off' \in Nat /\ top < off' /\ UNCHANGED <<top, end, augend>>
  <1> DEFINE row == Row("Initial_Instructions", end - off)
             rows == Append(item, row)
  <1>1. /\ pc = "insts" /\ pc' = "entry" /\ sect' = sect /\ cie' = cie /\ item' = <<>>
        /\ off <= end /\ ReadAt(off, end - off)
        /\ table' = Append(table, Finished)
        /\ cies' = Put(cie, IF IsCie THEN Kept(loc) ELSE Counted(loc))
        /\ off' = top + RoundUp(end - top) /\ UNCHANGED <<top, end, augend>>
    BY DEF Instructions, Goto
  <1>2. Typed /\ EntryRight /\ pc \in Fields /\ pc \in Reading
    BY <1>1 DEF IInv, Fields, Reading
  <1>3. off \in Nat /\ end \in Nat /\ top \in Nat /\ item \in Seq(ItemRow) /\ loc \in InfoType
    BY <1>2 DEF Typed
  <1>4. Size \in Nat /\ Size < Huge
    BY <1>2, SectionFacts
  <1>5. /\ top = ItemsEnd(Len(table)) /\ top + 4 <= off /\ item # <<>> /\ item[1].at = top
        /\ end = LengthEnd(item[1]) \/ end >= Huge
        /\ Chained(sect, item) /\ RowEnd(sect, item[Len(item)]) = off
    BY <1>2 DEF EntryRight
  <1>6. end - off \in Nat /\ off + (end - off) = end /\ end <= Size
    BY <1>1, <1>3, <1>4 DEF ReadAt
  <1>7. end = LengthEnd(item[1])
    BY <1>3, <1>4, <1>5, <1>6 DEF Huge
  <1>8. row \in ItemRow /\ row.at = off /\ RowEnd(sect, row) = end
    <2>1. "Initial_Instructions" \in Labels /\ "Initial_Instructions" # "Augumentation_String"
      BY DEF Labels
    <2> QED
      BY <1>2, <1>6, <2>1, RowFacts
  <1>9. /\ rows \in Seq(ItemRow) /\ Chained(sect, rows) /\ rows[Len(rows)] = row
        /\ rows[1] = item[1] /\ (Len(item) >= 2 => rows[2] = item[2])
    <2> HIDE DEF row
    <2> QED
      BY <1>3, <1>5, <1>8, ChainGrows
  <1>10. Finished.rows = rows
    BY DEF Finished
  <1>11. Finished \in ItemType
    BY <1>3, <1>9 DEF Finished, ItemType, InfoType
  <1> HIDE DEF row, rows
  <1>12. off' = PaddedEnd(sect, rows[1]) /\ off' \in Nat /\ top < off'
    <2>1. PICK n \in Nat : n = end - top /\ n >= 4 /\ end = top + n
      BY <1>1, <1>3, <1>5
    <2>2. LengthEnd(rows[1]) = rows[1].at + n /\ rows[1].at = top
      BY <1>5, <1>7, <1>9, <2>1
    <2>3. PaddedEnd(sect, rows[1]) = top + RoundUp(n) /\ RoundUp(n) \in Nat /\ n <= RoundUp(n)
      BY <1>2, <1>3, <2>2, PadFacts
    <2>4. off' = top + RoundUp(n)
      BY <1>1, <2>1
    <2> QED
      BY <1>3, <2>1, <2>3, <2>4
  <1> QED
    BY <1>1, <1>2, <1>5, <1>7, <1>8, <1>9, <1>10, <1>11, <1>12

\* What is known of the CIEs when an entry is finished.
LEMMA FinishedCies ==
    ASSUME IInv, Instructions
    PROVE  /\ DOMAIN cies' = DOMAIN cies /\ cie \in DOMAIN cies
           /\ cies' \in [DOMAIN cies' -> InfoType]
           /\ \A c \in DOMAIN cies :
                /\ cies'[c].num = cies[c].num
                /\ cies'[c].fdes = cies[c].fdes + IF c = cie /\ ~IsCie THEN 1 ELSE 0
                /\ IF c = cie /\ IsCie THEN IsRead(c) ELSE HasItem(c)
  <1>1. /\ Typed /\ pc \in Fields /\ cies' = Put(cie, IF IsCie THEN Kept(loc) ELSE Counted(loc))
    BY FinishedRows
  <1>2. cie \in DOMAIN cies /\ loc.num = cies[cie].num /\ loc.fdes = cies[cie].fdes
    BY <1>1 DEF IInv, CieKnown
  <1>3. cies \in [DOMAIN cies -> InfoType] /\ loc \in InfoType
    BY <1>1 DEF Typed
  <1>4. /\ Kept(loc) \in InfoType /\ Kept(loc).num = loc.num /\ Kept(loc).fdes = loc.fdes
        /\ Counted(loc) \in InfoType /\ Counted(loc).num = loc.num /\ Counted(loc).fdes = loc.fdes + 1
    <2>1. 0 \in Byte /\ loc.fdes + 1 \in Nat
      BY <1>3 DEF Byte, InfoType
    <2>2. Kept(loc) \in InfoType /\ Kept(loc).num = loc.num /\ Kept(loc).fdes = loc.fdes
      BY <1>3, <2>1 DEF Kept, InfoType
    <2>3. Counted(loc) \in InfoType /\ Counted(loc).num = loc.num /\ Counted(loc).fdes = loc.fdes + 1
      BY <1>3, <2>1 DEF Counted, InfoType
    <2> QED
      BY <2>2, <2>3
  <1>5. DOMAIN cies' = DOMAIN cies /\ cies' \in [DOMAIN cies' -> InfoType]
    BY <1>1, <1>2, <1>3, <1>4 DEF Put
  <1>6. ASSUME NEW c \in DOMAIN cies
        PROVE  /\ cies'[c].num = cies[c].num
               /\ cies'[c].fdes = cies[c].fdes + IF c = cie /\ ~IsCie THEN 1 ELSE 0
    <2>1. cies[c].fdes \in Nat /\ cies[c].fdes + 0 = cies[c].fdes
      BY <1>3 DEF InfoType
    <2>2. cies'[c] = IF c = cie THEN IF IsCie THEN Kept(loc) ELSE Counted(loc) ELSE cies[c]
      BY <1>1, <1>2 DEF Put
    <2> QED
      BY <1>2, <1>4, <2>1, <2>2
  <1>7. ASSUME NEW c \in DOMAIN cies PROVE IF c = cie /\ IsCie THEN IsRead(c) ELSE HasItem(c)
    <2>1. HasItem(c) \/ IsRead(c)
      BY <1>1 DEF IInv, CiesRight, Reading
    <2>2. c \in Nat /\ pc # "entry"
      BY <1>1 DEF Typed, Fields
    <2>3. c = top => ~HasItem(c)
      BY <2>2 DEF HasItem
    <2> QED
      BY <2>1, <2>3 DEF IsRead, IsCie
  <1> QED
    BY <1>2, <1>5, <1>6, <1>7

LEMMA InstructionsKeeps == ASSUME IInv, Instructions PROVE IInv'
  <1> DEFINE n == Len(table)
             new == Finished
  <1>1. /\ Typed /\ pc \in Fields /\ pc' = "entry" /\ sect' = sect /\ cie' = cie /\ item' = <<>>
        /\ table' = Append(table, new) /\ new \in ItemType
        /\ new.rows[1].at = top /\ top = ItemsEnd(n)
        /\ Chained(sect, new.rows)
        /\ RowEnd(sect, new.rows[Len(new.rows)]) = LengthEnd(new.rows[1])
        /\ Len(item) >= 2 => new.rows[2] = item[2]
        /\ off' = PaddedEnd(sect, new.rows[1])
        /\ off' \in Nat /\ top < off' /\ UNCHANGED <<top, end, augend>>
    BY FinishedRows
  <1>2. /\ DOMAIN cies' = DOMAIN cies /\ cie \in DOMAIN cies
        /\ cies' \in [DOMAIN cies' -> InfoType]
        /\ \A c \in DOMAIN cies :
             /\ cies'[c].num = cies[c].num
             /\ cies'[c].fdes = cies[c].fdes + IF c = cie /\ ~IsCie THEN 1 ELSE 0
             /\ IF c = cie /\ IsCie THEN IsRead(c) ELSE HasItem(c)
    BY FinishedCies
  <1>3. /\ new.kind = IF IsCie THEN "CIE" ELSE "FDE"
        /\ new.cfi = cies[cie].num
        /\ new.num = IF IsCie THEN cies[cie].num ELSE cies[cie].fdes
    BY <1>1 DEF Finished, IInv, CieKnown
  <1> HIDE DEF new
  <1>4. /\ table' \in Seq(ItemType) /\ Len(table') = n + 1 /\ n \in Nat /\ table'[n + 1] = new
        /\ \A k \in 1..n : k \in 1..Len(table') /\ table'[k] = table[k]
        /\ \A k \in 1..Len(table') : k \in 1..n \/ k = n + 1
        /\ CieItems' = IF new.kind = "CIE" THEN CieItems \cup {n + 1} ELSE CieItems
        /\ Cardinality(CieItems') = Cardinality(CieItems) + IF new.kind = "CIE" THEN 1 ELSE 0
        /\ \A num : Cardinality(FdeItems(num)') =
               Cardinality(FdeItems(num)) + IF new.kind = "FDE" /\ new.cfi = num THEN 1 ELSE 0
        /\ \A k \in 0..n : ItemsEnd(k)' = ItemsEnd(k)
        /\ \A k \in 1..(n + 1) : \A num :
             {j \in 1..(k - 1) : table'[j].kind = "FDE" /\ table'[j].cfi = num}
               = {j \in 1..(k - 1) : table[j].kind = "FDE" /\ table[j].cfi = num}
    BY <1>1, NewItem
  <1>5. /\ Cardinality(CieItems) \in Nat /\ Cardinality(CieItems') \in Nat
        /\ Cardinality(CieItems) <= Cardinality(CieItems')
        /\ \A num : Cardinality(FdeItems(num)) \in Nat
    BY <1>1, <1>4, ItemsFinite
  <1>6. Typed'
    <2>1. "entry" \in Steps /\ "entry" \notin Fields /\ <<>> \in Seq(ItemRow)
      BY DEF Steps, Fields
    <2> QED
      BY <1>1, <1>2, <1>4, <2>1 DEF Typed, Size
  <1>7. EntryRight' /\ CieKnown'
    BY <1>1 DEF EntryRight, CieKnown, Reading, Fields
  <1>8. RowsTile'
    BY <1>1, <1>4 DEF IInv, SectionTiles, RowsTile
  <1>9. ItemsTile'
    <2>1. ASSUME NEW k \in 1..Len(table') PROVE table'[k].rows[1].at = ItemsEnd(k - 1)'
      <3>1. k - 1 \in 0..n
        BY <1>4
      <3>2. ItemsEnd(k - 1)' = ItemsEnd(k - 1)
        BY <1>4, <3>1
      <3>3. CASE k \in 1..n
        BY <1>4, <3>2, <3>3 DEF IInv, SectionTiles, ItemsTile
      <3>4. CASE k = n + 1
        <4>1. k - 1 = n
          BY <1>4, <3>4
        <4> QED
          BY <1>1, <1>4, <3>2, <3>4, <4>1
      <3> QED
        BY <1>4, <3>3, <3>4
    <2>2. off' = ItemsEnd(Len(table))'
      <3>1. ItemsEnd(Len(table))' = PaddedEnd(sect, table'[n + 1].rows[1])
        BY <1>1, <1>4 DEF ItemsEnd
      <3> QED
        BY <1>1, <1>4, <3>1
    <2> QED
      BY <1>1, <2>1, <2>2 DEF ItemsTile
  <1>10. ASSUME NEW c \in DOMAIN cies PROVE HasItem(c)'
    <2>1. c \in Nat /\ top \in Nat /\ cies[c].num \in Nat /\ cies[c].fdes \in Nat
      <3>1. c \in 0..Size /\ Size \in Nat /\ top \in Nat /\ cies[c] \in InfoType
        BY <1>1, SectionFacts DEF Typed
      <3> QED
        BY <3>1 DEF InfoType
    <2> PICK num \in Nat : num = cies[c].num
      BY <2>1
    <2> DEFINE fdes == {k \in 1..Len(table') : table'[k].kind = "FDE" /\ table'[k].cfi = cies'[c].num}
    <2>2. cies'[c].num = num /\ fdes = FdeItems(num)'
      BY <1>2 DEF FdeItems
    <2>3. HasItem(c)' = (/\ c < IF pc' = "entry" THEN off' ELSE top'
                        /\ \E k \in CieItems' : table'[k].num = cies'[c].num /\ table'[k].rows[1].at = c
                        /\ cies'[c].num < Cardinality(CieItems')
                        /\ cies'[c].fdes = Cardinality(fdes))
      BY DEF HasItem, FdeItems
    <2> HIDE DEF fdes
    <2>4. CASE c = cie /\ IsCie
      <3>1. IsRead(c) /\ new.kind = "CIE"
        BY <1>2, <1>3, <2>4
      <3>2. Cardinality(FdeItems(cies[c].num)) = 0
        <4>1. FdeItems(cies[c].num) = {}
          <5> SUFFICES ASSUME NEW k \in FdeItems(cies[c].num) PROVE FALSE
            OBVIOUS
          <5>1. table[k].cfi < Cardinality(CieItems) /\ table[k].cfi = cies[c].num
            BY DEF FdeItems, IInv, CiesRight
          <5> QED
            BY <1>5, <3>1, <5>1 DEF IsRead
        <4> QED
          BY <4>1, FS_EmptySet
      <3>3. c < off'
        BY <1>1, <2>1, <3>1 DEF IsRead
      <3>4. n + 1 \in CieItems' /\ table'[n + 1].num = cies'[c].num /\ table'[n + 1].rows[1].at = c
        BY <1>1, <1>2, <1>3, <1>4, <2>4, <3>1 DEF IsRead
      <3>5. Cardinality(fdes) = 0 /\ cies'[c].fdes = 0
        <4>1. cies'[c].fdes = 0
          BY <1>2, <2>4, <3>1 DEF IsRead
        <4>2. Cardinality(FdeItems(num)') = Cardinality(FdeItems(num)) + 0
          BY <1>4, <3>1
        <4>3. Cardinality(FdeItems(num)) = 0
          BY <3>2
        <4> QED
          BY <2>2, <4>1, <4>2, <4>3
      <3>6. cies'[c].num < Cardinality(CieItems')
        BY <1>2, <1>4, <1>5, <3>1 DEF IsRead
      <3> QED
        BY <1>1, <2>3, <3>3, <3>4, <3>5, <3>6
    <2>5. CASE ~(c = cie /\ IsCie)
      <3>1. HasItem(c)
        BY <1>2, <2>5
      <3>2. c < top
        BY <1>1, <3>1 DEF HasItem, Fields
      <3>3. c < off'
        BY <1>1, <2>1, <3>2
      <3>4. PICK k \in CieItems : table[k].num = cies[c].num /\ table[k].rows[1].at = c
        BY <3>1 DEF HasItem
      <3>5. k \in CieItems' /\ table'[k].num = cies'[c].num /\ table'[k].rows[1].at = c
        BY <1>2, <1>4, <3>4 DEF CieItems
      <3>6. cies'[c].num < Cardinality(CieItems')
        BY <1>2, <1>5, <2>1, <3>1 DEF HasItem
      <3>7. cies'[c].fdes = Cardinality(fdes)
        <4>1. cies[c].fdes = Cardinality(FdeItems(num))
          BY <3>1 DEF HasItem
        <4>2. new.kind = "FDE" /\ new.cfi = num <=> c = cie /\ ~IsCie
          <5>1. cies[cie].num = cies[c].num => c = cie
            BY <1>2 DEF IInv, CiesRight
          <5> QED
            BY <1>3, <2>5, <5>1
        <4>3. cies'[c].fdes = cies[c].fdes + IF new.kind = "FDE" /\ new.cfi = num THEN 1 ELSE 0
          BY <1>2, <4>2
        <4>4. Cardinality(FdeItems(num)') =
                 Cardinality(FdeItems(num)) + IF new.kind = "FDE" /\ new.cfi = num THEN 1 ELSE 0
          BY <1>4
        <4> QED
          BY <2>2, <4>1, <4>3, <4>4
      <3> QED
        BY <1>1, <2>3, <3>3, <3>5, <3>6, <3>7
    <2> QED
      BY <2>4, <2>5
  <1>11. CiesRight'
    <2>1. \A c, d \in DOMAIN cies' : cies'[c].num = cies'[d].num => c = d
      BY <1>2 DEF IInv, CiesRight
    <2>2. ASSUME NEW k \in 1..Len(table'), table'[k].kind = "FDE"
          PROVE  table'[k].cfi < Cardinality(CieItems')
      <3>1. CASE k \in 1..n
        <4>1. table[k].cfi < Cardinality(CieItems) /\ table[k].cfi \in Nat
          <5>1. table[k] \in ItemType
            BY <1>1, <3>1 DEF Typed
          <5> QED
            BY <1>4, <2>2, <3>1, <5>1 DEF IInv, CiesRight, ItemType
        <4> QED
          BY <1>4, <1>5, <3>1, <4>1
      <3>2. CASE k = n + 1
        <4>1. HasItem(cie) /\ new.cfi = cies[cie].num
          BY <1>2, <1>3, <1>4, <2>2, <3>2
        <4>2. new.cfi < Cardinality(CieItems) /\ new.cfi \in Nat
          BY <1>1, <4>1 DEF HasItem, ItemType
        <4> QED
          BY <1>4, <1>5, <3>2, <4>2
      <3> QED
        BY <1>4, <3>1, <3>2
    <2> QED
      BY <1>1, <1>2, <1>10, <2>1, <2>2 DEF CiesRight
  <1>12. FdesUnderTheirCie'
    <2> DEFINE Siblings(t, k) == {j \in 1..(k - 1) : t[j].kind = "FDE" /\ t[j].cfi = t[k].cfi}
    <2> SUFFICES ASSUME NEW k \in 1..Len(table'), table'[k].kind = "FDE"
                 PROVE  /\ \E c \in 1..(k - 1) :
                             /\ table'[c].kind = "CIE"
                             /\ table'[c].num = table'[k].cfi
                             /\ table'[c].rows[1].at = table'[k].rows[2].at - Low(table'[k].rows[2])
                        /\ table'[k].num = Cardinality(Siblings(table', k))
      BY DEF FdesUnderTheirCie, Siblings
    <2>1. Siblings(table', k) = {j \in 1..(k - 1) : table[j].kind = "FDE" /\ table[j].cfi = table'[k].cfi}
      <3>1. k \in 1..(n + 1)
        BY <1>4
      <3> QED
        BY <1>4, <3>1 DEF Siblings
    <2>2. CASE k \in 1..n
      <3>1. table'[k] = table[k] /\ \A c \in 1..(k - 1) : table'[c] = table[c]
        BY <1>4, <2>2
      <3>2. Siblings(table', k) = Siblings(table, k)
        BY <2>1, <3>1 DEF Siblings
      <3>3. /\ \E c \in 1..(k - 1) :
                 /\ table[c].kind = "CIE"
                 /\ table[c].num = table[k].cfi
                 /\ table[c].rows[1].at = table[k].rows[2].at - Low(table[k].rows[2])
            /\ table[k].num = Cardinality(Siblings(table, k))
        BY <2>2, <3>1 DEF IInv, FdesUnderTheirCie, Siblings
      <3> QED
        BY <3>1, <3>2, <3>3
    <2>3. CASE k = n + 1
      <3>1. table'[k] = new /\ new.kind = "FDE" /\ k - 1 = n
        BY <1>4, <2>3
      <3>2. ~IsCie /\ HasItem(cie) /\ cie # top
        BY <1>2, <1>3, <3>1 DEF IsCie
      <3>3. Siblings(table', k) = FdeItems(new.cfi)
        BY <2>1, <3>1 DEF FdeItems
      <3>4. new.num = Cardinality(FdeItems(new.cfi))
        BY <1>3, <3>2 DEF HasItem
      <3>5. PICK c \in CieItems : table[c].num = cies[cie].num /\ table[c].rows[1].at = cie
        BY <3>2 DEF HasItem
      <3>6. c \in 1..n /\ table'[c] = table[c] /\ table[c].kind = "CIE"
        BY <1>4, <3>5 DEF CieItems
      <3>7. cie = new.rows[2].at - Low(new.rows[2])
        BY <1>1, <3>2 DEF IInv, CieKnown
      <3> QED
        BY <1>3, <3>1, <3>3, <3>4, <3>5, <3>6, <3>7
    <2> QED
      BY <1>4, <2>2, <2>3
  <1> QED
    BY <1>6, <1>7, <1>8, <1>9, <1>11, <1>12 DEF IInv, SectionTiles

\* The parser returns.
LEMMA EndKeeps == ASSUME IInv, Finish \/ Reject PROVE IInv'
  <1>1. UNCHANGED <<sect, top, off, end, item, cie, loc, ai, augend, cies, table>>
    BY DEF Finish, Reject
  <1>2. pc' \in {"done", "nil", "panic"} /\ (pc' = "done" => pc = "entry" /\ off >= Size)
    BY DEF Finish, Reject, Goto
  <1>3. pc' \notin Reading \cup {"entry"} /\ pc' \notin Fields /\ pc' \in Steps
    BY <1>2 DEF Reading, Fields, Steps
  <1>4. pc' # "done" => off <= Size
    <2>1. ASSUME Reject PROVE off <= Size
      <3>1. pc \notin {"entry", "done"} \/ off < Size
        BY <2>1 DEF Reject, CannotRead, CannotReadFixed, CannotReadNumber, AtChar
      <3>2. off \in Nat /\ Size \in Nat /\ (pc \notin {"entry", "done"} => off <= Size)
        BY SectionFacts DEF IInv, Typed
      <3> QED
        BY <3>1, <3>2
    <2> QED
      BY <2>1 DEF Finish, Goto
  <1>5. Typed'
    BY <1>1, <1>2, <1>3, <1>4 DEF IInv, Typed, Size
  <1>6. EntryRight' /\ CieKnown'
    BY <1>2, <1>3 DEF EntryRight, CieKnown
  <1>7. CiesRight' /\ FdesUnderTheirCie'
    BY <1>1, <1>3, SameTable DEF IInv, CiesRight
  <1>8. SectionTiles'
    BY <1>1, <1>2, SameTable DEF IInv, SectionTiles, ItemsTile, Size
  <1> QED
    BY <1>5, <1>6, <1>7, <1>8 DEF IInv

-----------------------------------------------------------------------------
(* The theorems.                                                             *)

LEMMA InitInv == Init => IInv
  <1> SUFFICES ASSUME Init PROVE IInv
    OBVIOUS
  <1>1. /\ sect \in Sections /\ pc = "entry" /\ top = 0 /\ off = 0 /\ end = 0 /\ item = <<>>
        /\ cie = 0 /\ augend = 0 /\ cies = <<>> /\ table = <<>>
    BY DEF Init
  <1>2. "entry" \in Steps /\ "entry" \notin Fields /\ "entry" \notin Reading
    BY DEF Steps, Fields, Reading
  <1>3. DOMAIN cies = {} /\ Len(table) = 0 /\ table \in Seq(ItemType) /\ item \in Seq(ItemRow)
    BY <1>1
  <1>4. Typed
    BY <1>1, <1>2, <1>3 DEF Typed
  <1>5. EntryRight /\ CieKnown /\ CiesRight /\ FdesUnderTheirCie
    BY <1>1, <1>2, <1>3 DEF EntryRight, CieKnown, CiesRight, FdesUnderTheirCie
  <1>6. SectionTiles
    BY <1>1, <1>3 DEF SectionTiles, RowsTile, ItemsTile, ItemsEnd
  <1> QED
    BY <1>4, <1>5, <1>6 DEF IInv

LEMMA StepInv == IInv /\ [Next]_vars => IInv'
  <1> SUFFICES ASSUME IInv, [Next]_vars PROVE IInv'
    OBVIOUS
  <1>1. CASE UNCHANGED vars
    <2>1. UNCHANGED <<sect, pc, top, off, end, item, cie, loc, augend, cies, table>>
      BY <1>1 DEF vars
    <2>2. Typed' /\ EntryRight' /\ CieKnown'
      BY <2>1 DEF IInv, Typed, EntryRight, CieKnown, ItemsEnd, Size
    <2>3. CiesRight' /\ FdesUnderTheirCie' /\ SectionTiles'
      BY <2>1, SameTable DEF IInv, CiesRight, HasItem, IsRead, SectionTiles, ItemsTile, Size
    <2> QED
      BY <2>2, <2>3 DEF IInv
  <1>2. CASE Length \/ CieId \/ CiePointer
    BY <1>2, LengthKeeps, CieIdKeeps, CiePointerKeeps
  <1>3. CASE \/ Version \/ Augmentation \/ EhData \/ CodeAlignment \/ DataAlignment
             \/ ReturnAddressRegister
    BY <1>3, FixedPartKeeps
  <1>4. CASE PcBegin \/ PcRange \/ PersonalityPointer \/ LsdaPointer
    BY <1>4, PointersKeep
  <1>5. CASE \/ AugmentationLength \/ PersonalityEncoding \/ FdeEncoding \/ LsdaEncoding
             \/ SkipChar \/ UnknownChar \/ AugmentationEnd
    BY <1>5, AugmentationKeeps
  <1>6. CASE Instructions \/ Finish \/ Reject
    BY <1>6, InstructionsKeeps, EndKeeps
  <1> QED
    BY <1>1, <1>2, <1>3, <1>4, <1>5, <1>6 DEF Next

THEOREM Invariance == Spec => []IInv
  BY InitInv, StepInv, PTL DEF Spec

\* The parser reads no byte outside the section, and every item is made of rows.
THEOREM TypeCorrect == Spec => []TypeOK
  <1>1. IInv => TypeOK
    <2> SUFFICES ASSUME IInv PROVE TypeOK
      OBVIOUS
    <2>1. \A k \in 1..Len(table) : table[k].rows \in Seq(ItemRow)
      <3>1. \A k \in 1..Len(table) : table[k] \in ItemType
        BY DEF IInv, Typed
      <3> QED
        BY <3>1 DEF ItemType
    <2> QED
      BY <2>1 DEF IInv, Typed, TypeOK
  <1> QED
    BY <1>1, Invariance, PTL

\* Whatever a section holds, the rows of its items show each of its bytes once.
THEOREM EveryByteOnce == Spec => []SectionTiles
  BY Invariance, PTL DEF IInv

\* FDEs hang under the CIE they point to, numbered in the order they come in.
THEOREM FdesHangRight == Spec => []FdesUnderTheirCie
  BY Invariance, PTL DEF IInv

-----------------------------------------------------------------------------
(* What is laid out is read back.                                           *)
(*                                                                         *)
(* While the parser reads an item, it is on the rows of the one that is    *)
(* meant to be there, knows of its CIE what the layout says, and finds     *)
(* every field readable.                                                   *)

\* The table that is meant, and in it the item that is being read and its CIE.
Meant == sect.layout
Cur == Meant[Len(table) + 1]
CieOf(k) ==
    IF Meant[k].kind = "CIE" THEN k
    ELSE CHOOSE c \in 1..(k - 1) :
            /\ Meant[c].kind = "CIE" /\ Meant[c].num = Meant[k].cfi
            /\ IsFdeItem(sect, Meant[k], Meant[c])
CurCie == Meant[CieOf(Len(table) + 1)]
CurAug == AugOf(sect, CurCie)

\* The row that is read next.
Here == Len(item) + 1
Fixed == FixedRows(Cur.kind, CurAug)
DataHere(i) == DataAt(Cur.kind, CurAug, i)

\* The finished items are the first ones that are meant.
OnTable ==
    /\ pc \notin {"nil", "panic"}
    /\ Len(table) <= Len(Meant)
    /\ \A k \in 1..Len(table) : table[k] = Meant[k]
    /\ pc = "done" => Len(table) = Len(Meant)
    /\ pc \in Reading => Len(table) < Len(Meant)

\* The rows so far are the first ones of the item, and the next one starts at off.
OnItem ==
    pc \in Reading =>
        /\ Len(item) < Len(Cur.rows)
        /\ \A n \in 1..Len(item) : item[n] = Cur.rows[n]
        /\ off = Cur.rows[Here].at
        /\ end = LengthEnd(Cur.rows[1])

\* The row for the field that pc names is the one that the layout has there.
OnField ==
    /\ pc = "id" => Here = 2
    /\ pc = "version" => Here = 3
    /\ pc = "aug" => Here = 4
    /\ pc = "ehdata" => Here = 5 /\ CurAug = eh
    /\ pc = "caf" => Here = CafAt(CurAug)
    /\ pc = "daf" => Here = CafAt(CurAug) + 1
    /\ pc = "rar" => Here = CafAt(CurAug) + 2
    /\ pc = "pcbegin" => Here = 3
    /\ pc = "pcrange" => Here = 4
    /\ pc = "auglen" => HasData(CurAug) /\ Here = Fixed + 1
    /\ pc \in {"augdata", "personality"} =>
         /\ HasData(CurAug)
         /\ ai \in 2..(Len(CurAug) + 1)
         /\ augend = Cur.rows[Len(Cur.rows)].at
    /\ pc = "augdata" => Here = DataHere(ai)
    /\ pc = "personality" =>
         /\ ai <= Len(CurAug) /\ CurAug[ai] = P
         /\ Here = DataHere(ai) + 1
         /\ loc.penc = Cur.rows[DataHere(ai)].bytes[1]
    /\ pc = "insts" => Here = Len(Cur.rows) /\ (HasData(CurAug) => ai = Len(CurAug) + 1)

\* The fields of CIEs only.
OnlyCie == {"version", "aug", "ehdata", "caf", "daf", "rar", "personality"}

\* What is known of the CIE is what its item says, as far as that has been read.
OnCie ==
    pc \in Fields =>
        /\ IsCie <=> Cur.kind = "CIE"
        /\ pc \in OnlyCie => IsCie
        /\ pc \in {"pcbegin", "pcrange"} => ~IsCie
        /\ ~IsCie => loc = cies[cie] /\ loc.fenc = 0 /\ loc.num = CurCie.num
        /\ IsCie /\ pc # "version" => loc.version = Cur.rows[3].bytes[1]
        /\ pc \notin {"version", "aug"} => loc.aug = CurAug
        /\ HasData(CurAug) =>
             \A i \in 2..Len(CurAug) :
                CurAug[i] = L /\ (IsCie => pc \in {"augdata", "personality", "insts"} /\ i < ai)
                    => loc.lenc = LsdaEnc(sect, CurCie, i)

\* What is remembered of the finished CIE c, as far as its FDEs depend on it.
CieSeen(c) ==
    LET aug == AugOf(sect, Meant[c])
        info == cies[Meant[c].rows[1].at]
    IN /\ Meant[c].rows[1].at \in DOMAIN cies
       /\ Meant[c].rows[1].at < IF pc = "entry" THEN off ELSE top
       /\ info.num = Meant[c].num
       /\ info.aug = aug
       /\ info.fenc = 0
       /\ HasData(aug) =>
            \A i \in 2..Len(aug) : aug[i] = L => info.lenc = LsdaEnc(sect, Meant[c], i)

CiesSeen ==
    pc \in Reading \cup {"entry"} =>
        \A c \in 1..Len(table) : Meant[c].kind = "CIE" => CieSeen(c)

Follows == OnTable /\ OnItem /\ OnField /\ OnCie /\ CiesSeen

-----------------------------------------------------------------------------
(* What is laid out.                                                         *)

LEMMA MeantFacts ==
    ASSUME Typed, Meant # Nil
    PROVE  /\ Nil \notin Nat /\ Meant \in Seq(ItemType) /\ Len(Meant) \in Nat
           /\ \A k \in 1..Len(Meant) :
                /\ Meant[k] \in ItemType
                /\ IsItem(sect, Meant, k)
                /\ Meant[k].rows[1].at = LaidEnd(sect, Meant, k - 1)
           /\ Size <= LaidEnd(sect, Meant, Len(Meant))
  <1>1. sect \in Sections
    BY DEF Typed
  <1>2. IsLayout(sect, Meant) /\ Nil \notin Nat
    BY <1>1, LayoutsAssumption DEF Meant
  <1>3. Meant \in Seq(ItemType)
    BY <1>2 DEF IsLayout
  <1> QED
    BY <1>2, <1>3, LenProperties, ElementOfSeq DEF IsLayout, Size

\* A CIE is its own CIE; an FDE's is laid out before it.
LEMMA CieOfFacts ==
    ASSUME Typed, Meant # Nil, NEW k \in 1..Len(Meant)
    PROVE  /\ CieOf(k) \in 1..Len(Meant) /\ CieOf(k) <= k
           /\ Meant[CieOf(k)].kind = "CIE"
           /\ IsCieItem(sect, Meant[CieOf(k)])
           /\ Meant[k].kind = "CIE" => CieOf(k) = k
           /\ Meant[k].kind # "CIE" =>
                /\ CieOf(k) < k
                /\ Meant[k].kind = "FDE"
                /\ Meant[CieOf(k)].num = Meant[k].cfi
                /\ IsFdeItem(sect, Meant[k], Meant[CieOf(k)])
  <1>1. Len(Meant) \in Nat /\ Meant[k] \in ItemType /\ IsItem(sect, Meant, k)
    BY MeantFacts
  <1>2. CASE Meant[k].kind = "CIE"
    BY <1>1, <1>2 DEF CieOf, IsItem
  <1>3. CASE Meant[k].kind # "CIE"
    <2>1. Meant[k].kind = "FDE"
      BY <1>1, <1>3 DEF ItemType
    <2>2. \E c \in 1..(k - 1) :
            /\ Meant[c].kind = "CIE" /\ Meant[c].num = Meant[k].cfi
            /\ IsFdeItem(sect, Meant[k], Meant[c])
      BY <1>1, <2>1 DEF IsItem
    <2>3. /\ CieOf(k) \in 1..(k - 1)
          /\ Meant[CieOf(k)].kind = "CIE" /\ Meant[CieOf(k)].num = Meant[k].cfi
          /\ IsFdeItem(sect, Meant[k], Meant[CieOf(k)])
      BY <1>3, <2>2 DEF CieOf
    <2>4. CieOf(k) \in 1..Len(Meant) /\ CieOf(k) < k
      BY <1>1, <2>3
    <2>5. IsItem(sect, Meant, CieOf(k))
      BY <2>4, MeantFacts
    <2> QED
      BY <1>3, <2>1, <2>3, <2>4, <2>5 DEF IsItem
  <1> QED
    BY <1>2, <1>3

\* A row that is laid out is what the parser makes of its place.
LEMMA ShownRow ==
    ASSUME Typed, NEW e, e.rows \in Seq(ItemRow), IsEntry(sect, e), NEW n \in 1..Len(e.rows)
    PROVE  LET row == e.rows[n]
           IN /\ row \in ItemRow /\ row.at \in Nat /\ Len(row.bytes) \in Nat
              /\ row.at + Len(row.bytes) <= Size
              /\ row.bytes = Slice(row.at, Len(row.bytes))
              /\ \A j \in 1..Len(row.bytes) : row.bytes[j] = At(row.at + j - 1) /\ row.bytes[j] \in Byte
              /\ n < Len(e.rows) => e.rows[n + 1].at = RowEnd(sect, row)
              /\ row.name # "Augumentation_String" => RowEnd(sect, row) = row.at + Len(row.bytes)
  <1> DEFINE row == e.rows[n]
  <1>1. row \in ItemRow
    BY ElementOfSeq
  <1>2. row.at \in Nat /\ row.bytes \in Seq(Byte) /\ Len(row.bytes) \in Nat
    BY <1>1, LenProperties DEF ItemRow
  <1>3. row.at + Len(row.bytes) <= Size /\ row.bytes = Slice(row.at, Len(row.bytes))
    <2>1. Shows(sect, row)
      BY DEF IsEntry
    <2> QED
      BY <2>1 DEF Shows, Size, Slice
  <1>4. \A j \in 1..Len(row.bytes) : row.bytes[j] = At(row.at + j - 1) /\ row.bytes[j] \in Byte
    <2>1. \A j \in 1..Len(row.bytes) :
             /\ Slice(row.at, Len(row.bytes))[j] = At(row.at + j - 1)
             /\ Slice(row.at, Len(row.bytes))[j] \in Byte
      BY <1>2, <1>3, SliceFacts
    <2> HIDE DEF row
    <2> QED
      BY <1>3, <2>1
  <1>5. n < Len(e.rows) => e.rows[n + 1].at = RowEnd(sect, row)
    <2>1. Len(e.rows) \in Nat
      BY LenProperties
    <2> QED
      BY <2>1 DEF IsEntry, Chained
  <1>6. row.name # "Augumentation_String" => RowEnd(sect, row) = row.at + Len(row.bytes)
    BY DEF RowEnd
  <1> HIDE DEF row
  <1> QED
    BY <1>1, <1>2, <1>3, <1>4, <1>5, <1>6 DEF row

\* The row that is read next, and the item it is of.
NextRow == Cur.rows[Here]

LEMMA HereFacts ==
    ASSUME IInv, Meant # Nil, Follows, pc \in Reading
    PROVE  /\ Typed /\ EntryRight /\ Nil \notin Nat
           /\ Len(table) \in Nat /\ Len(table) + 1 \in 1..Len(Meant)
           /\ Cur \in ItemType /\ IsEntry(sect, Cur) /\ IsItem(sect, Meant, Len(table) + 1)
           /\ Len(item) \in Nat /\ Here \in 1..Len(Cur.rows) /\ Len(Cur.rows) \in Nat
           /\ NextRow \in ItemRow /\ off = NextRow.at /\ off \in Nat /\ Size \in Nat
           /\ Len(NextRow.bytes) \in Nat /\ off + Len(NextRow.bytes) <= Size
           /\ NextRow.bytes = Slice(off, Len(NextRow.bytes))
           /\ \A j \in 1..Len(NextRow.bytes) : NextRow.bytes[j] = At(off + j - 1) /\ NextRow.bytes[j] \in Byte
           /\ Here < Len(Cur.rows) => Cur.rows[Here + 1].at = RowEnd(sect, NextRow)
           /\ NextRow.name # "Augumentation_String" => RowEnd(sect, NextRow) = off + Len(NextRow.bytes)
  <1>1. Typed /\ EntryRight /\ OnTable /\ OnItem /\ off \in Nat /\ Size \in Nat
    BY SectionFacts DEF IInv, Follows, Typed
  <1>2. Len(table) \in Nat /\ Len(table) + 1 \in 1..Len(Meant) /\ Len(item) \in Nat
    BY <1>1, MeantFacts, LenProperties DEF Typed, OnTable
  <1>3. Cur \in ItemType /\ IsItem(sect, Meant, Len(table) + 1) /\ IsEntry(sect, Cur) /\ Nil \notin Nat
    BY <1>1, <1>2, MeantFacts DEF Cur, IsItem
  <1>4. Cur.rows \in Seq(ItemRow) /\ Len(Cur.rows) \in Nat
    BY <1>3, LenProperties DEF ItemType
  <1>5. Here \in 1..Len(Cur.rows) /\ off = NextRow.at
    BY <1>1, <1>2, <1>4 DEF OnItem, Here, NextRow
  <1> QED
    BY <1>1, <1>2, <1>3, <1>4, <1>5, ShownRow DEF NextRow

-----------------------------------------------------------------------------
(* What is laid out can be read.                                             *)

LEMMA ReadsBytes ==
    ASSUME IInv, Meant # Nil, Follows, pc \in Reading, Len(NextRow.bytes) # 0
    PROVE  ReadAt(off, Len(NextRow.bytes))
  BY HereFacts DEF ReadAt

LEMMA ReadsWord ==
    ASSUME IInv, Meant # Nil, Follows, pc \in Reading, NEW name, IsWord(NextRow, name)
    PROVE  ReadAt(off, 4) /\ Word(off) = Low(NextRow) /\ off + 4 <= Size
  <1>1. Len(NextRow.bytes) = 4 /\ NextRow.bytes[3] = 0 /\ NextRow.bytes[4] = 0
    BY DEF IsWord, IsFixed
  <1>2. Slice(off, 4) = NextRow.bytes /\ off + 4 <= Size
    BY <1>1, HereFacts
  <1> QED
    BY <1>1, <1>2, ReadsBytes DEF Word, Low

LEMMA ReadsLeb ==
    ASSUME IInv, Meant # Nil, Follows, pc \in Reading, IsLeb(NextRow.bytes)
    PROVE  /\ LebWidth(off) = Len(NextRow.bytes) /\ LebWidth(off) # 0
           /\ \A n : IsLebOf(NextRow.bytes, n) => Uleb(off) = n
  <1> DEFINE b == NextRow.bytes
             n == Len(b)
             ends == {k \in 1..8 : off + k <= Size /\ LebEnd(off, k)}
  <1>1. /\ off \in Nat /\ Size \in Nat /\ n \in 1..8 /\ off + n <= Size
        /\ \A j \in 1..n : b[j] = At(off + j - 1) /\ b[j] \in Byte
        /\ b[n] < 128 /\ \A j \in 1..(n - 1) : b[j] >= 128
    BY HereFacts DEF IsLeb
  <1> HIDE DEF b, n
  <1>2. n \in ends
    <2>1. \A j \in 1..(n - 1) : j \in 1..n
      BY <1>1
    <2>2. n \in 1..n
      BY <1>1
    <2>3. At(off + n - 1) < 128 /\ \A j \in 1..(n - 1) : At(off + j - 1) >= 128
      BY <1>1, <2>1, <2>2
    <2> QED
      BY <1>1, <2>3 DEF LebEnd
  <1>3. ASSUME NEW k \in ends PROVE k = n
    <2>1. k \in 1..8 /\ At(off + k - 1) < 128 /\ \A j \in 1..(k - 1) : At(off + j - 1) >= 128
      BY DEF LebEnd
    <2>2. ~(k < n)
      <3> SUFFICES ASSUME k < n PROVE FALSE
        OBVIOUS
      <3>1. k \in 1..(n - 1) /\ k \in 1..n
        BY <1>1, <2>1
      <3>2. At(off + k - 1) >= 128 /\ At(off + k - 1) \in 0..255
        BY <1>1, <3>1 DEF Byte
      <3> QED
        BY <2>1, <3>2
    <2>3. ~(n < k)
      <3> SUFFICES ASSUME n < k PROVE FALSE
        OBVIOUS
      <3>1. n \in 1..(k - 1) /\ n \in 1..n
        BY <1>1, <2>1
      <3>2. At(off + n - 1) >= 128 /\ At(off + n - 1) = b[n] /\ b[n] \in 0..255
        BY <1>1, <2>1, <3>1 DEF Byte
      <3> QED
        BY <1>1, <3>2
    <2> QED
      BY <1>1, <2>1, <2>2, <2>3
  <1>4. LebWidth(off) = n
    BY <1>2, <1>3 DEF LebWidth
  <1>5. ASSUME NEW m, IsLebOf(b, m) PROVE Uleb(off) = m
    <2> DEFINE bits(j) == IF j <= n THEN b[j] % 128 ELSE 0
    <2>1. ASSUME NEW j \in 1..8 PROVE Septet(off, j) = bits(j)
      <3>1. j <= n => j \in 1..n
        BY <1>1
      <3>2. j <= n => b[j] = At(off + j - 1)
        BY <1>1, <3>1
      <3> QED
        BY <1>4, <3>2 DEF Septet
    <2>2. m = bits(1) + 128 * bits(2) + 16384 * bits(3)
      BY <1>5 DEF IsLebOf, n
    <2>3. ASSUME NEW j \in 4..LebWidth(off) PROVE Septet(off, j) = 0
      <3>1. j \in 1..8 /\ j \in 4..n
        BY <1>1, <1>4
      <3>2. b[j] % 128 = 0 /\ j <= n
        BY <1>1, <1>5, <3>1 DEF IsLebOf, n
      <3> QED
        BY <2>1, <3>1, <3>2
    <2>4. Septet(off, 1) = bits(1) /\ Septet(off, 2) = bits(2) /\ Septet(off, 3) = bits(3)
      BY <2>1
    <2> QED
      BY <2>2, <2>3, <2>4 DEF Uleb
  <1> QED
    BY <1>1, <1>4, <1>5 DEF b, n

LEMMA ReadsPointer ==
    ASSUME IInv, Meant # Nil, Follows, pc \in Reading, NEW name, NEW enc, IsPointer(sect, NextRow, name, enc)
    PROVE  PointerWidth(off, enc) = Len(NextRow.bytes) /\ PointerWidth(off, enc) # Nil
  <1> DEFINE n == Len(NextRow.bytes)
             basic == enc % 16
             fixed(m) == IF ReadAt(off, m) THEN m ELSE Nil
  <1>1. n \in Nat /\ Nil \notin Nat /\ (n # 0 => ReadAt(off, n)) /\ sect.ptr \in {4, 8}
    BY HereFacts, ReadsBytes, SectionFacts
  <1>2. IsLeb(NextRow.bytes) => LebWidth(off) = n /\ n # 0
    BY ReadsLeb
  <1>3. CASE basic \in {0, 8}
    BY <1>1, <1>3 DEF IsPointer, PointerWidth
  <1>4. CASE basic \in {1, 9}
    BY <1>1, <1>2, <1>4 DEF IsPointer, PointerWidth
  <1>5. CASE basic \in {2, 10}
    <2>1. n = 2
      BY <1>5 DEF IsPointer
    <2>2. PointerWidth(off, enc) = fixed(2)
      BY <1>5 DEF PointerWidth
    <2> QED
      BY <1>1, <2>1, <2>2
  <1>6. CASE basic \in {3, 11}
    <2>1. n = 4
      BY <1>6 DEF IsPointer
    <2>2. PointerWidth(off, enc) = fixed(4)
      BY <1>6 DEF PointerWidth
    <2> QED
      BY <1>1, <2>1, <2>2
  <1>7. CASE basic \in {4, 12}
    <2>1. n = 8
      BY <1>7 DEF IsPointer
    <2>2. PointerWidth(off, enc) = fixed(8)
      BY <1>7 DEF PointerWidth
    <2> QED
      BY <1>1, <2>1, <2>2
  <1>8. CASE basic \notin {0, 8, 1, 9, 2, 10, 3, 11, 4, 12}
    BY <1>1, <1>8 DEF IsPointer, PointerWidth
  <1> QED
    BY <1>3, <1>4, <1>5, <1>6, <1>7, <1>8

LEMMA ReadsString ==
    ASSUME IInv, Meant # Nil, Follows, pc \in Reading,
           IsString(sect, NextRow, "Augumentation_String")
    PROVE  /\ AugEnds(off) # {}
           /\ Row("Augumentation_String", 1) = NextRow
           /\ RowEnd(sect, NextRow) = off + AugLen(off) + 1
           /\ Slice(off, AugLen(off)) = SubSeq(sect.bytes, off + 1, RowEnd(sect, NextRow) - 1)
  <1>1. /\ Typed /\ off \in Nat /\ off = NextRow.at /\ NextRow \in ItemRow /\ Len(NextRow.bytes) = 1
        /\ NextRow.bytes = Slice(off, 1) /\ NextRow.name = "Augumentation_String"
    BY HereFacts DEF IsString, IsFixed
  <1>2. AugEnds(off) # {}
    BY <1>1 DEF IsString, AugEnds, At, Size
  <1>3. Row("Augumentation_String", 1) = NextRow
    BY <1>1 DEF Row, ItemRow
  <1>4. RowEnd(sect, NextRow) = off + AugLen(off) + 1 /\ AugLen(off) \in Nat
    BY <1>1, <1>2, <1>3, AugRow, AugFacts
  <1>5. RowEnd(sect, NextRow) - 1 = off + AugLen(off)
    BY <1>1, <1>4
  <1> QED
    BY <1>2, <1>3, <1>4, <1>5 DEF Slice

-----------------------------------------------------------------------------
(* Where the data of the augmentation's characters is.                       *)

LEMMA BeforeFacts ==
    ASSUME NEW aug, Len(aug) \in Nat, HasData(aug), IsAug(aug), NEW i \in 2..Len(aug), NEW c
    PROVE  /\ Before(aug, c, i) \in 0..1 /\ Before(aug, c, i + 1) \in 0..1
           /\ aug[i] = c => Before(aug, c, i) = 0 /\ Before(aug, c, i + 1) = 1
           /\ aug[i] # c => Before(aug, c, i + 1) = Before(aug, c, i)
           /\ Before(aug, c, i) <= Before(aug, c, i + 1)
           /\ Before(aug, c, i + 1) <= Before(aug, c, Len(aug) + 1)
  <1>1. i \in Int /\ i + 1 - 1 = i /\ Len(aug) + 1 - 1 = Len(aug)
    OBVIOUS
  <1>2. 2..i = (2..(i - 1)) \cup {i} /\ i \notin 2..(i - 1)
    BY <1>1
  <1>3. 2..i \subseteq 2..Len(aug)
    BY <1>1
  <1>4. \A j \in 2..(i - 1) : aug[j] = aug[i] => FALSE
    BY <1>2, <1>3 DEF IsAug
  <1> QED
    BY <1>1, <1>2, <1>3, <1>4 DEF Before

LEMMA DataFacts ==
    ASSUME NEW aug, Len(aug) \in Nat, HasData(aug), IsAug(aug), NEW kind \in {"CIE", "FDE"},
           NEW i \in 2..Len(aug)
    PROVE  LET here == DataAt(kind, aug, i)
               next == DataAt(kind, aug, i + 1)
               step == IF kind = "CIE" THEN IF aug[i] = P THEN 2 ELSE 1
                       ELSE IF aug[i] = L THEN 1 ELSE 0
           IN /\ here \in Nat /\ next = here + step
              /\ next <= DataAt(kind, aug, Len(aug) + 1)
              /\ DataAt(kind, aug, Len(aug) + 1) \in Nat
  <1>1. FixedRows(kind, aug) \in {4, 7, 8}
    BY DEF FixedRows, CafAt
  <1>2. i \in Nat /\ i >= 2 /\ i <= Len(aug)
    OBVIOUS
  <1> DEFINE n == FixedRows(kind, aug)
  <1>3. CASE kind = "CIE"
    <2> DEFINE b == Before(aug, P, i)
               b1 == Before(aug, P, i + 1)
               b2 == Before(aug, P, Len(aug) + 1)
    <2>1. /\ b \in 0..1 /\ b1 \in 0..1 /\ b1 <= b2
          /\ b1 = b + IF aug[i] = P THEN 1 ELSE 0
          /\ b2 \in 0..1
      BY BeforeFacts DEF Before
    <2>2. /\ DataAt(kind, aug, i) = n + 1 + (i - 1 + b)
          /\ DataAt(kind, aug, i + 1) = n + 1 + (i + 1 - 1 + b1)
          /\ DataAt(kind, aug, Len(aug) + 1) = n + 1 + (Len(aug) + 1 - 1 + b2)
      BY <1>3 DEF DataAt, RowsTo
    <2>3. n \in Nat
      BY <1>1
    <2> HIDE DEF b, b1, b2, n
    <2>4. CASE aug[i] = P
      BY <1>2, <1>3, <2>1, <2>2, <2>3, <2>4
    <2>5. CASE aug[i] # P
      BY <1>2, <1>3, <2>1, <2>2, <2>3, <2>5
    <2> QED
      BY <2>4, <2>5
  <1>4. CASE kind = "FDE"
    <2> DEFINE b == Before(aug, L, i)
               b1 == Before(aug, L, i + 1)
               b2 == Before(aug, L, Len(aug) + 1)
    <2>1. /\ b \in 0..1 /\ b1 \in 0..1 /\ b1 <= b2
          /\ b1 = b + IF aug[i] = L THEN 1 ELSE 0
          /\ b2 \in 0..1
      BY BeforeFacts DEF Before
    <2>2. /\ DataAt(kind, aug, i) = n + 1 + (1 + b)
          /\ DataAt(kind, aug, i + 1) = n + 1 + (1 + b1)
          /\ DataAt(kind, aug, Len(aug) + 1) = n + 1 + (1 + b2)
      BY <1>4 DEF DataAt, RowsTo
    <2> HIDE DEF b, b1, b2, n
    <2> QED
      BY <1>1, <1>2, <1>4, <2>1, <2>2 DEF n
  <1> QED
    BY <1>3, <1>4

\* The data of the first character follows the length.
LEMMA FirstData ==
    ASSUME NEW aug, NEW kind \in {"CIE", "FDE"}
    PROVE  DataAt(kind, aug, 2) = FixedRows(kind, aug) + 2 /\ FixedRows(kind, aug) \in {4, 7, 8}
  <1>1. FixedRows(kind, aug) \in {4, 7, 8}
    BY DEF FixedRows, CafAt
  <1>2. 2..(2 - 1) = {}
    OBVIOUS
  <1>3. \A c : Before(aug, c, 2) = 0
    BY <1>2 DEF Before
  <1>4. RowsTo(kind, aug, 2) = 1
    BY <1>3 DEF RowsTo
  <1> QED
    BY <1>1, <1>4 DEF DataAt

-----------------------------------------------------------------------------
(* The CIE of the entry that is read, and its augmentation.                  *)

LEMMA CurFacts ==
    ASSUME IInv, Meant # Nil, Follows, pc \in Reading
    PROVE  /\ IsCieItem(sect, CurCie) /\ CurCie.kind = "CIE" /\ IsEntry(sect, CurCie) /\ CurCie \in ItemType
           /\ Cur.kind \in {"CIE", "FDE"}
           /\ Cur.kind = "CIE" => CurCie = Cur
           /\ Cur.kind = "FDE" => /\ IsFdeItem(sect, Cur, CurCie)
                                  /\ CurCie.num = Cur.cfi
                                  /\ CieOf(Len(table) + 1) \in 1..Len(table)
           /\ CurAug \in Seq(Byte) /\ Len(CurAug) \in Nat /\ IsAug(CurAug)
           /\ IsTail(sect, Cur, CurAug)
           /\ Fixed \in {4, 7, 8} /\ Fixed < Len(Cur.rows)
           /\ Cur.kind = "CIE" => Fixed = CafAt(CurAug) + 2
           /\ Cur.kind = "FDE" => Fixed = 4
  <1> DEFINE k == Len(table) + 1
  <1>1. Typed /\ k \in 1..Len(Meant) /\ Len(table) \in Nat /\ Cur \in ItemType /\ IsEntry(sect, Cur)
    BY HereFacts
  <1>2. /\ CieOf(k) \in 1..Len(Meant) /\ CieOf(k) <= k
        /\ CurCie.kind = "CIE" /\ IsCieItem(sect, CurCie)
        /\ Cur.kind = "CIE" => CieOf(k) = k
        /\ Cur.kind # "CIE" =>
             /\ CieOf(k) < k
             /\ Cur.kind = "FDE"
             /\ CurCie.num = Cur.cfi
             /\ IsFdeItem(sect, Cur, CurCie)
    BY <1>1, CieOfFacts DEF Cur, CurCie
  <1>3. IsEntry(sect, CurCie) /\ CurCie \in ItemType
    BY <1>1, <1>2, MeantFacts DEF IsItem, CurCie
  <1>4. CurAug \in Seq(Byte)
    <2> DEFINE r == CurCie.rows[4]
               a == r.at + 1
               b == RowEnd(sect, r) - 1
    <2>1. CurCie.rows \in Seq(ItemRow) /\ 4 \in 1..Len(CurCie.rows)
      <3>1. Len(CurCie.rows) > 4 /\ Len(CurCie.rows) \in Nat /\ CurCie.rows \in Seq(ItemRow)
        BY <1>3, LenProperties DEF IsEntry, ItemType
      <3> QED
        BY <3>1
    <2>2. r.at \in Nat /\ r.at + Len(r.bytes) <= Size /\ Len(r.bytes) = 1 /\ r.name = "Augumentation_String"
      BY <1>1, <1>2, <1>3, <2>1, ShownRow DEF IsCieItem, IsString, IsFixed
    <2>3. PICK n \in 0..7 : r.at + n < Len(sect.bytes) /\ sect.bytes[r.at + n + 1] = 0
      BY <1>2 DEF IsCieItem, IsString
    <2>4. sect.bytes \in Seq(Byte) /\ Size \in Nat /\ Size = Len(sect.bytes)
      BY <1>1, SectionFacts DEF Size
    <2>5. AugEnds(r.at) # {}
      BY <2>3, <2>4 DEF AugEnds, At
    <2>6. RowEnd(sect, r) \in (r.at + 1)..Size
      <3> DEFINE e == r.at + AugLen(r.at) + 1
                 Ends(o) == /\ sect.bytes[o] = 0
                            /\ \A u \in (r.at + 1)..(o - 1) : sect.bytes[u] # 0
      <3>1. /\ AugLen(r.at) \in Nat /\ e <= Size /\ At(r.at + AugLen(r.at)) = 0
            /\ \A u \in (r.at)..(r.at + AugLen(r.at) - 1) : At(u) # 0
        BY <1>1, <2>2, <2>5, AugFacts
      <3>2. e \in (r.at + 1)..Size
        BY <2>2, <2>4, <3>1
      <3>3. sect.bytes[e] = 0
        BY <3>1 DEF At
      <3>4. ASSUME NEW u \in (r.at + 1)..(e - 1) PROVE sect.bytes[u] # 0
        <4>1. u - 1 \in (r.at)..(r.at + AugLen(r.at) - 1) /\ (u - 1) + 1 = u
          BY <2>2, <3>1
        <4> QED
          BY <3>1, <4>1 DEF At
      <3>5. Ends(e)
        BY <3>3, <3>4
      <3>6. RowEnd(sect, r) = CHOOSE o \in (r.at + 1)..Size : Ends(o)
        BY <2>2, <2>4 DEF RowEnd
      <3> HIDE DEF e, Ends
      <3> QED
        BY <3>2, <3>5, <3>6
    <2>7. a \in Int /\ b \in Int /\ \A u \in a..b : sect.bytes[u] \in Byte
      <3>1. a \in Int /\ b \in Int /\ a >= 1 /\ b <= Size
        BY <2>2, <2>4, <2>6
      <3> HIDE DEF a, b
      <3>2. \A u \in a..b : u \in 1..Len(sect.bytes)
        BY <2>4, <3>1
      <3> QED
        BY <2>4, <3>1, <3>2
    <2> HIDE DEF a, b
    <2>8. SubSeq(sect.bytes, a, b) \in Seq(Byte)
      BY <2>7, SubSeqProperties
    <2> QED
      BY <2>8 DEF CurAug, AugOf, a, b
  <1>5. Len(CurAug) \in Nat /\ IsAug(CurAug)
    BY <1>2, <1>4, LenProperties DEF IsCieItem, CurAug
  <1>6. Fixed \in {4, 7, 8}
    BY <1>2, FirstData DEF Fixed
  <1>7. CASE Cur.kind = "CIE"
    <2>1. CurCie = Cur
      BY <1>2, <1>7 DEF CurCie, Cur
    <2> QED
      BY <1>1, <1>2, <1>3, <1>4, <1>5, <1>6, <1>7, <2>1 DEF IsCieItem, CurAug, Fixed, FixedRows
  <1>8. CASE Cur.kind = "FDE"
    <2>1. Len(Cur.rows) > 4 /\ IsTail(sect, Cur, CurAug)
      BY <1>1, <1>2, <1>8 DEF IsEntry, IsFdeItem, CurAug
    <2>2. CieOf(Len(table) + 1) \in 1..Len(table)
      BY <1>1, <1>2, <1>8
    <2> QED
      BY <1>2, <1>3, <1>4, <1>5, <1>6, <1>8, <2>1, <2>2 DEF Fixed, FixedRows
  <1> QED
    BY <1>2, <1>7, <1>8

-----------------------------------------------------------------------------
(* Reading an item that is laid out.                                         *)

\* What is meant does not change while an item is read.
LEMMA SameMeant ==
    ASSUME UNCHANGED <<sect, table>>
    PROVE  /\ Meant' = Meant /\ Cur' = Cur /\ CurCie' = CurCie /\ CurAug' = CurAug /\ Fixed' = Fixed
           /\ OnTable' <=> /\ pc' \notin {"nil", "panic"}
                           /\ Len(table) <= Len(Meant)
                           /\ \A k \in 1..Len(table) : table[k] = Meant[k]
                           /\ pc' = "done" => Len(table) = Len(Meant)
                           /\ pc' \in Reading => Len(table) < Len(Meant)
  <1>1. Meant' = Meant /\ Cur' = Cur
    BY DEF Meant, Cur
  <1>2. \A k : CieOf(k)' = CieOf(k)
    BY <1>1 DEF CieOf
  <1>3. CurCie' = CurCie
    BY <1>1, <1>2 DEF CurCie, CieOf
  <1>4. CurAug' = CurAug
    BY <1>3 DEF CurAug
  <1> QED
    BY <1>1, <1>3, <1>4 DEF Fixed, OnTable

LEMMA CiesKeep ==
    ASSUME CiesSeen, pc \in Reading, pc' \in Reading, UNCHANGED <<sect, top, cies, table>>
    PROVE  CiesSeen'
  <1>1. Meant' = Meant /\ pc # "entry" /\ pc' # "entry"
    BY SameMeant DEF Reading, Fields
  <1>2. \A c : CieSeen(c)' <=> CieSeen(c)
    BY <1>1 DEF CieSeen
  <1> QED
    BY <1>1, <1>2 DEF CiesSeen

\* The next row is read.
LEMMA TakesRow ==
    ASSUME IInv, Meant # Nil, Follows, pc \in Reading, pc' \in Reading,
           UNCHANGED <<sect, top, end, table>>, Here < Len(Cur.rows),
           item' = Append(item, NextRow), off' = RowEnd(sect, NextRow)
    PROVE  OnItem' /\ Here' = Here + 1
  <1>1. /\ Len(item) \in Nat /\ Here = Len(item) + 1 /\ item \in Seq(ItemRow) /\ NextRow \in ItemRow
        /\ Len(Cur.rows) \in Nat
        /\ Cur.rows[Here + 1].at = RowEnd(sect, NextRow)
    BY HereFacts DEF Here, Typed
  <1>2. Len(item') = Len(item) + 1 /\ item'[Here] = NextRow /\ \A n \in 1..Len(item) : item'[n] = item[n]
    BY <1>1, AppendProperties
  <1>3. Here' = Here + 1
    BY <1>1, <1>2 DEF Here
  <1>4. \A n \in 1..Len(item) : item[n] = Cur.rows[n]
    BY DEF Follows, OnItem
  <1>5. \A n \in 1..Len(item') : item'[n] = Cur.rows[n]
    <2>1. \A n \in 1..Len(item') : n \in 1..Len(item) \/ n = Here
      BY <1>1, <1>2
    <2> QED
      BY <1>2, <1>4, <2>1 DEF NextRow
  <1>6. end' = LengthEnd(Cur.rows[1])
    BY DEF Follows, OnItem
  <1>7. Len(item') < Len(Cur.rows)
    BY <1>1, <1>2
  <1> QED
    BY <1>1, <1>3, <1>5, <1>6, <1>7, SameMeant DEF OnItem

LEMMA TakesNamed ==
    ASSUME IInv, Meant # Nil, Follows, pc \in Reading, pc' \in Reading,
           UNCHANGED <<sect, top, end, table>>, Here < Len(Cur.rows),
           NEW name, name # "Augumentation_String", NextRow.name = name,
           Take(name, Len(NextRow.bytes))
    PROVE  OnItem' /\ Here' = Here + 1
  <1>1. /\ NextRow \in ItemRow /\ off = NextRow.at /\ NextRow.bytes = Slice(off, Len(NextRow.bytes))
        /\ RowEnd(sect, NextRow) = off + Len(NextRow.bytes)
    BY HereFacts
  <1>2. Row(name, Len(NextRow.bytes)) = NextRow
    BY <1>1 DEF Row, ItemRow
  <1>3. item' = Append(item, NextRow) /\ off' = RowEnd(sect, NextRow)
    BY <1>1, <1>2 DEF Take
  <1> QED
    BY <1>3, TakesRow

LEMMA FollowsOn ==
    ASSUME IInv, Meant # Nil, Follows, pc \in Fields, pc' \in Fields,
           UNCHANGED <<sect, top, end, cie, cies, table>>, OnItem', OnField', OnCie'
    PROVE  Follows'
  <1>1. pc \in Reading /\ pc' \in Reading /\ pc' \notin {"nil", "panic", "done"}
    BY DEF Reading, Fields
  <1>2. OnTable'
    BY <1>1, SameMeant DEF Follows, OnTable
  <1>3. CiesSeen'
    BY <1>1, CiesKeep DEF Follows
  <1> QED
    BY <1>2, <1>3 DEF Follows

LEMMA FieldFacts ==
    ASSUME IInv, Meant # Nil, Follows, pc \in Fields
    PROVE  /\ pc \in Reading /\ OnField /\ OnCie /\ loc \in InfoType /\ IsEntry(sect, Cur)
           /\ Here \in Nat /\ Len(Cur.rows) \in Nat /\ Len(Cur.rows) > 4
           /\ IsCie => /\ Cur.kind = "CIE" /\ CurCie = Cur /\ IsCieItem(sect, Cur)
                       /\ CurAug = AugOf(sect, Cur)
                       /\ Fixed = CafAt(CurAug) + 2
           /\ ~IsCie => /\ Cur.kind = "FDE" /\ IsFdeItem(sect, Cur, CurCie)
                        /\ CurAug = AugOf(sect, CurCie)
                        /\ Fixed = 4
  <1>1. pc \in Reading /\ OnField /\ OnCie /\ loc \in InfoType
    BY InFields DEF Reading, Follows
  <1>2. /\ Here \in 1..Len(Cur.rows) /\ Len(Cur.rows) \in Nat /\ IsEntry(sect, Cur)
        /\ IsCieItem(sect, CurCie) /\ Cur.kind \in {"CIE", "FDE"}
        /\ Cur.kind = "CIE" => CurCie = Cur /\ Fixed = CafAt(CurAug) + 2
        /\ Cur.kind = "FDE" => IsFdeItem(sect, Cur, CurCie) /\ Fixed = 4
        /\ Fixed \in {4, 7, 8} /\ Fixed < Len(Cur.rows)
    BY <1>1, HereFacts, CurFacts
  <1>3. IsCie <=> Cur.kind = "CIE"
    BY <1>1 DEF OnCie
  <1>4. Len(Cur.rows) > 4
    BY <1>2 DEF IsEntry
  <1> QED
    BY <1>1, <1>2, <1>3, <1>4 DEF CurAug

\* Where the fields of a CIE are.
LEMMA CafFacts == CafAt(CurAug) \in {5, 6} /\ (CurAug = eh <=> CafAt(CurAug) = 6)
  BY DEF CafAt

LEMMA FollowsVersion ==
    ASSUME IInv, Meant # Nil, Follows, Version
    PROVE  Follows'
  <1>1. /\ pc = "version" /\ Take("Version", 1) /\ loc' = [loc EXCEPT !.version = At(off)]
        /\ pc' = "aug" /\ UNCHANGED <<sect, top, end, cie, ai, augend, cies, table>>
        /\ pc \in Fields /\ pc' \in Fields /\ pc \in Reading /\ pc' \in Reading
    BY DEF Version, Goto, Fields, Reading
  <1>2. IsCie /\ Here = 3 /\ Here < Len(Cur.rows) /\ IsCieItem(sect, Cur) /\ loc \in InfoType /\ OnCie
    BY <1>1, FieldFacts DEF OnField, OnCie, OnlyCie
  <1>3. IsFixed(NextRow, "Version", 1)
    BY <1>2 DEF IsCieItem, NextRow
  <1>4. OnItem' /\ Here' = 4
    BY <1>1, <1>2, <1>3, TakesNamed DEF IsFixed
  <1>5. loc'.version = Cur.rows[3].bytes[1]
    <2>1. NextRow.bytes[1] = At(off)
      BY <1>1, <1>3, HereFacts DEF IsFixed
    <2> QED
      BY <1>1, <1>2, <2>1 DEF NextRow, InfoType
  <1>6. OnField'
    BY <1>1, <1>4 DEF OnField
  <1>7. OnCie'
    BY <1>1, <1>2, <1>5, SameMeant DEF OnCie, IsCie, OnlyCie
  <1> QED
    BY <1>1, <1>4, <1>6, <1>7, FollowsOn

LEMMA FollowsAugmentation ==
    ASSUME IInv, Meant # Nil, Follows, Augmentation
    PROVE  Follows'
  <1> DEFINE aug == Slice(off, AugLen(off))
  <1>1. /\ pc = "aug" /\ item' = Append(item, Row("Augumentation_String", 1))
        /\ off' = off + AugLen(off) + 1 /\ loc' = [loc EXCEPT !.aug = aug]
        /\ pc' = IF aug = eh THEN "ehdata" ELSE "caf"
        /\ UNCHANGED <<sect, top, end, cie, ai, augend, cies, table>>
        /\ pc \in Fields /\ pc' \in Fields /\ pc \in Reading /\ pc' \in Reading
    BY DEF Augmentation, Goto, Fields, Reading
  <1>2. /\ IsCie /\ Here = 4 /\ Here < Len(Cur.rows) /\ IsCieItem(sect, Cur) /\ loc \in InfoType
        /\ OnCie /\ CurAug = AugOf(sect, Cur)
    BY <1>1, FieldFacts DEF OnField, OnCie, OnlyCie
  <1>3. IsString(sect, NextRow, "Augumentation_String")
    BY <1>2 DEF IsCieItem, NextRow
  <1>4. /\ Row("Augumentation_String", 1) = NextRow /\ RowEnd(sect, NextRow) = off + AugLen(off) + 1
        /\ aug = SubSeq(sect.bytes, off + 1, RowEnd(sect, NextRow) - 1)
        /\ off = NextRow.at
    BY <1>1, <1>3, ReadsString, HereFacts
  <1>5. aug = CurAug
    BY <1>2, <1>4 DEF AugOf, NextRow
  <1> HIDE DEF aug
  <1>6. OnItem' /\ Here' = 5
    BY <1>1, <1>2, <1>4, TakesRow
  <1>7. loc'.aug = CurAug /\ loc'.version = loc.version
    BY <1>1, <1>2, <1>5 DEF InfoType
  <1>8. OnField'
    BY <1>1, <1>5, <1>6, SameMeant DEF OnField, CafAt
  <1>9. OnCie'
    BY <1>1, <1>2, <1>7, SameMeant DEF OnCie, IsCie, OnlyCie
  <1> QED
    BY <1>1, <1>6, <1>8, <1>9, FollowsOn

\* The data of an old CIE and the alignment factors.
LEMMA FollowsAlignments ==
    ASSUME IInv, Meant # Nil, Follows, EhData \/ CodeAlignment \/ DataAlignment
    PROVE  Follows'
  <1>1. /\ pc \in {"ehdata", "caf", "daf"} /\ pc \in Fields /\ pc \in Reading
        /\ UNCHANGED <<sect, top, end, cie, loc, ai, augend, cies, table>>
    BY DEF EhData, CodeAlignment, DataAlignment, Fields, Reading
  <1>2. /\ IsCie /\ IsCieItem(sect, Cur) /\ loc \in InfoType /\ OnCie /\ CurAug = AugOf(sect, Cur)
        /\ Fixed = CafAt(CurAug) + 2 /\ Fixed < Len(Cur.rows) /\ CafAt(CurAug) \in {5, 6}
        /\ Len(Cur.rows) \in Nat
        /\ loc.version = Cur.rows[3].bytes[1] /\ loc.version \in {1, 3}
        /\ OnField
    BY <1>1, FieldFacts, CurFacts, CafFacts DEF OnCie, OnlyCie, IsCieItem
  <1>3. CASE EhData
    <2>1. /\ pc = "ehdata" /\ pc' = "caf" /\ Take("EH_Data", sect.ptr)
          /\ pc' \in Fields /\ pc' \in Reading
      BY <1>3 DEF EhData, Goto, Fields, Reading
    <2>2. Here = 5 /\ CurAug = eh /\ CafAt(CurAug) = 6
      BY <1>2, <2>1 DEF OnField, CafAt
    <2>3. IsFixed(NextRow, "EH_Data", sect.ptr)
      BY <1>2, <2>2 DEF IsCieItem, NextRow
    <2>4. OnItem' /\ Here' = 6
      BY <1>1, <1>2, <2>1, <2>2, <2>3, TakesNamed DEF IsFixed
    <2>5. OnField'
      BY <2>1, <2>2, <2>4, SameMeant, <1>1 DEF OnField
    <2>6. OnCie'
      BY <1>1, <1>2, <2>1, SameMeant DEF OnCie, IsCie, OnlyCie
    <2> QED
      BY <1>1, <2>1, <2>4, <2>5, <2>6, FollowsOn
  <1>4. CASE CodeAlignment
    <2>1. /\ pc = "caf" /\ pc' = "daf" /\ Take("Code_Alignment_Factor", LebWidth(off))
          /\ pc' \in Fields /\ pc' \in Reading
      BY <1>4 DEF CodeAlignment, Goto, Fields, Reading
    <2>2. Here = CafAt(CurAug)
      BY <1>2, <2>1 DEF OnField
    <2>3. IsNumber(NextRow, "Code_Alignment_Factor")
      BY <1>2, <2>2 DEF IsCieItem, NextRow
    <2>4. OnItem' /\ Here' = CafAt(CurAug) + 1
      BY <1>1, <1>2, <2>1, <2>2, <2>3, ReadsLeb, TakesNamed DEF IsNumber
    <2>5. OnField'
      BY <2>1, <2>2, <2>4, SameMeant, <1>1 DEF OnField
    <2>6. OnCie'
      BY <1>1, <1>2, <2>1, SameMeant DEF OnCie, IsCie, OnlyCie
    <2> QED
      BY <1>1, <2>1, <2>4, <2>5, <2>6, FollowsOn
  <1>5. CASE DataAlignment
    <2>1. /\ pc = "daf" /\ pc' = "rar" /\ Take("Data_Alignment_Factor", LebWidth(off))
          /\ pc' \in Fields /\ pc' \in Reading
      BY <1>2, <1>5 DEF DataAlignment, Goto, Fields, Reading
    <2>2. Here = CafAt(CurAug) + 1
      BY <1>2, <2>1 DEF OnField
    <2>3. IsNumber(NextRow, "Data_Alignment_Factor")
      BY <1>2, <2>2 DEF IsCieItem, NextRow
    <2>4. OnItem' /\ Here' = CafAt(CurAug) + 2
      BY <1>1, <1>2, <2>1, <2>2, <2>3, ReadsLeb, TakesNamed DEF IsNumber
    <2>5. OnField'
      BY <2>1, <2>2, <2>4, SameMeant, <1>1 DEF OnField
    <2>6. OnCie'
      BY <1>1, <1>2, <2>1, SameMeant DEF OnCie, IsCie, OnlyCie
    <2> QED
      BY <1>1, <2>1, <2>4, <2>5, <2>6, FollowsOn
  <1> QED
    BY <1>3, <1>4, <1>5

\* What follows the fixed part.
LEMMA AfterFixed ==
    ASSUME IInv, Meant # Nil, Follows, pc \in Fields, UNCHANGED <<sect, table>>,
           loc.aug = CurAug, pc' = AfterFixedPart(loc), Here' = Fixed + 1
    PROVE  OnField' /\ pc' \in {"auglen", "insts"}
  <1>1. IsTail(sect, Cur, CurAug)
    BY FieldFacts, CurFacts
  <1>2. CASE HasData(CurAug)
    <2>1. pc' = "auglen"
      BY <1>2 DEF AfterFixedPart, HasAugData, HasData
    <2> QED
      BY <1>2, <2>1, SameMeant DEF OnField
  <1>3. CASE ~HasData(CurAug)
    <2>1. pc' = "insts"
      BY <1>3 DEF AfterFixedPart, HasAugData, HasData
    <2>2. Here' = Len(Cur.rows)
      BY <1>1, <1>3 DEF IsTail, Fixed
    <2> QED
      BY <1>3, <2>1, <2>2, SameMeant DEF OnField
  <1> QED
    BY <1>2, <1>3

LEMMA FollowsRegister ==
    ASSUME IInv, Meant # Nil, Follows, ReturnAddressRegister
    PROVE  Follows'
  <1>1. /\ pc = "rar" /\ pc \in Fields /\ pc \in Reading /\ RarWidth # 0
        /\ Take("Return_Address_Register", RarWidth) /\ pc' = AfterFixedPart(loc)
        /\ pc' \in {"auglen", "insts"} /\ pc' \in Fields /\ pc' \in Reading
        /\ UNCHANGED <<sect, top, end, cie, loc, ai, augend, cies, table>>
    BY DEF ReturnAddressRegister, Goto, AfterFixedPart, Fields, Reading
  <1>2. /\ IsCie /\ IsCieItem(sect, Cur) /\ loc \in InfoType /\ OnCie /\ CurAug = AugOf(sect, Cur)
        /\ Fixed = CafAt(CurAug) + 2 /\ Fixed < Len(Cur.rows) /\ Here = Fixed
        /\ Len(Cur.rows) \in Nat /\ Cur.rows[3].bytes[1] \in {1, 3}
        /\ loc.version = Cur.rows[3].bytes[1] /\ loc.aug = CurAug
    BY <1>1, FieldFacts, CurFacts DEF OnCie, OnlyCie, OnField, IsCieItem
  <1>3. NextRow.name = "Return_Address_Register" /\ RarWidth = Len(NextRow.bytes)
    <2>1. CASE loc.version = 1
      <3>1. IsFixed(NextRow, "Return_Address_Register", 1)
        BY <1>2, <2>1 DEF IsCieItem, NextRow
      <3> QED
        BY <1>1, <2>1, <3>1 DEF RarWidth, IsFixed
    <2>2. CASE loc.version = 3
      <3>1. IsNumber(NextRow, "Return_Address_Register")
        BY <1>2, <2>2 DEF IsCieItem, NextRow
      <3> QED
        BY <1>1, <2>2, <3>1, ReadsLeb DEF RarWidth, IsNumber
    <2> QED
      BY <1>2, <2>1, <2>2
  <1>4. OnItem' /\ Here' = Fixed + 1
    BY <1>1, <1>2, <1>3, TakesNamed
  <1>5. OnField'
    BY <1>1, <1>2, <1>4, AfterFixed
  <1>6. OnCie'
    <2>1. pc' = "insts" => ~HasData(CurAug)
      BY <1>1, <1>2 DEF AfterFixedPart, HasAugData, HasData
    <2> QED
      BY <1>1, <1>2, <2>1, SameMeant DEF OnCie, IsCie, OnlyCie
  <1> QED
    BY <1>1, <1>4, <1>5, <1>6, FollowsOn

\* The pointers of an FDE.
LEMMA FollowsPcs ==
    ASSUME IInv, Meant # Nil, Follows, PcBegin \/ PcRange
    PROVE  Follows'
  <1>1. /\ pc \in {"pcbegin", "pcrange"} /\ pc \in Fields /\ pc \in Reading
        /\ UNCHANGED <<sect, top, end, cie, loc, ai, augend, cies, table>>
    BY DEF PcBegin, PcRange, Fields, Reading
  <1>2. /\ ~IsCie /\ IsFdeItem(sect, Cur, CurCie) /\ loc \in InfoType /\ OnCie
        /\ Fixed = 4 /\ Fixed < Len(Cur.rows) /\ Len(Cur.rows) \in Nat
        /\ loc.fenc = 0 /\ loc.aug = CurAug /\ OnField
    BY <1>1, FieldFacts, CurFacts DEF OnCie
  <1>3. \A name : IsFixed(NextRow, name, sect.ptr) => IsPointer(sect, NextRow, name, loc.fenc)
    BY <1>2 DEF IsFixed, IsPointer
  <1>4. CASE PcBegin
    <2>1. /\ pc = "pcbegin" /\ pc' = "pcrange" /\ Take("PC_Begin", PointerWidth(off, loc.fenc))
          /\ pc' \in Fields /\ pc' \in Reading
      BY <1>4 DEF PcBegin, Goto, Fields, Reading
    <2>2. Here = 3
      BY <1>2, <2>1 DEF OnField
    <2>3. IsFixed(NextRow, "PC_Begin", sect.ptr)
      BY <1>2, <2>2 DEF IsFdeItem, NextRow
    <2>4. OnItem' /\ Here' = 4
      BY <1>1, <1>2, <1>3, <2>1, <2>2, <2>3, ReadsPointer, TakesNamed DEF IsFixed
    <2>5. OnField'
      BY <2>1, <2>4 DEF OnField
    <2>6. OnCie'
      BY <1>1, <1>2, <2>1, SameMeant DEF OnCie, IsCie, OnlyCie
    <2> QED
      BY <1>1, <2>1, <2>4, <2>5, <2>6, FollowsOn
  <1>5. CASE PcRange
    <2>1. /\ pc = "pcrange" /\ pc' = AfterFixedPart(loc) /\ Take("PC_Range", PointerWidth(off, loc.fenc))
          /\ pc' \in {"auglen", "insts"} /\ pc' \in Fields /\ pc' \in Reading
      BY <1>5 DEF PcRange, Goto, AfterFixedPart, Fields, Reading
    <2>2. Here = 4
      BY <1>2, <2>1 DEF OnField
    <2>3. IsFixed(NextRow, "PC_Range", sect.ptr)
      BY <1>2, <2>2 DEF IsFdeItem, NextRow
    <2>4. OnItem' /\ Here' = Fixed + 1
      BY <1>1, <1>2, <1>3, <2>1, <2>2, <2>3, ReadsPointer, TakesNamed DEF IsFixed
    <2>5. OnField'
      BY <1>1, <1>2, <2>1, <2>4, AfterFixed
    <2>6. OnCie'
      BY <1>1, <1>2, <2>1, SameMeant DEF OnCie, IsCie, OnlyCie
    <2> QED
      BY <1>1, <2>1, <2>4, <2>5, <2>6, FollowsOn
  <1> QED
    BY <1>4, <1>5

-----------------------------------------------------------------------------
(* The augmentation's data.                                                  *)

LEMMA FollowsAugLength ==
    ASSUME IInv, Meant # Nil, Follows, AugmentationLength
    PROVE  Follows'
  <1>1. /\ pc = "auglen" /\ pc' = "augdata" /\ Take("Augumentation_Length", LebWidth(off))
        /\ pc \in Fields /\ pc \in Reading /\ pc' \in Fields /\ pc' \in Reading
        /\ augend' = off + LebWidth(off) + Uleb(off) /\ ai' = 2
        /\ UNCHANGED <<sect, top, end, cie, loc, cies, table>>
    BY DEF AugmentationLength, Goto, Fields, Reading
  <1> DEFINE last == Len(Cur.rows)
  <1>2. /\ loc \in InfoType /\ OnCie /\ IsTail(sect, Cur, CurAug) /\ HasData(CurAug)
        /\ Fixed \in {4, 7, 8} /\ Fixed < last /\ last \in Nat /\ Here = Fixed + 1
        /\ Len(CurAug) \in Nat /\ CurAug \in Seq(Byte) /\ Cur.kind \in {"CIE", "FDE"}
        /\ IsAug(CurAug) /\ IsEntry(sect, Cur)
    BY <1>1, FieldFacts, CurFacts DEF OnField
  <1>3. /\ NextRow.name = "Augumentation_Length"
        /\ IsLebOf(NextRow.bytes, Cur.rows[last].at - RowEnd(sect, NextRow))
        /\ DataHere(Len(CurAug) + 1) \in {last, last - 1}
    BY <1>2 DEF IsTail, NextRow, Fixed, DataHere
  <1>4. LebWidth(off) = Len(NextRow.bytes) /\ Uleb(off) = Cur.rows[last].at - RowEnd(sect, NextRow)
    BY <1>1, <1>3, ReadsLeb DEF IsLebOf
  <1>5. augend' = Cur.rows[last].at
    <2>1. RowEnd(sect, NextRow) = off + Len(NextRow.bytes) /\ off \in Nat /\ Len(NextRow.bytes) \in Nat
      BY <1>1, <1>3, HereFacts
    <2>2. Cur.rows[last].at \in Nat
      <3>1. Cur.rows \in Seq(ItemRow) /\ last \in 1..last
        BY <1>1, <1>2, HereFacts DEF ItemType
      <3>2. Cur.rows[last] \in ItemRow
        BY <3>1, ElementOfSeq
      <3> QED
        BY <3>2 DEF ItemRow
    <2> HIDE DEF last
    <2> QED
      BY <1>1, <1>4, <2>1, <2>2
  <1>6. Len(CurAug) \in Nat /\ Len(CurAug) >= 1
    BY <1>2 DEF HasData
  <1>7. DataHere(2) = Fixed + 2
    BY <1>2, FirstData DEF DataHere, Fixed
  <1>8. Here < last
    <2>1. CASE Len(CurAug) = 1
      BY <1>2, <1>3, <1>7, <2>1
    <2>2. CASE Len(CurAug) >= 2
      <3>1. 2 \in 2..Len(CurAug)
        BY <1>6, <2>2
      <3>2. /\ DataHere(2 + 1) <= DataHere(Len(CurAug) + 1) /\ DataHere(2) <= DataHere(2 + 1)
            /\ DataHere(2) \in Nat /\ DataHere(2 + 1) \in Nat
        BY <1>2, <3>1, DataFacts DEF DataHere
      <3> QED
        BY <1>2, <1>3, <1>7, <3>2
    <2>3. Len(CurAug) = 1 \/ Len(CurAug) >= 2
      <3> DEFINE n == Len(CurAug)
      <3>1. n \in Nat /\ n >= 1
        BY <1>6
      <3> HIDE DEF n
      <3>2. n = 1 \/ n >= 2
        BY <3>1
      <3> QED
        BY <3>2 DEF n
    <2> QED
      BY <2>1, <2>2, <2>3
  <1>9. OnItem' /\ Here' = Fixed + 2
    BY <1>1, <1>2, <1>3, <1>4, <1>8, TakesNamed
  <1>10. OnField'
    <2>1. DataHere(ai)' = Fixed + 2
      BY <1>1, <1>7, SameMeant DEF DataHere
    <2>2. ai' \in 2..(Len(CurAug) + 1)
      BY <1>1, <1>2, <1>6
    <2> QED
      BY <1>1, <1>2, <1>5, <1>9, <2>1, <2>2, SameMeant DEF OnField
  <1>11. OnCie'
    <2>1. \A i \in 2..Len(CurAug) : ~(i < ai')
      BY <1>1, <1>2
    <2> QED
      BY <1>1, <1>2, <2>1, SameMeant DEF OnCie, IsCie, OnlyCie
  <1> QED
    BY <1>1, <1>9, <1>10, <1>11, FollowsOn

\* A character of the string whose data is read.
LEMMA CharFacts ==
    ASSUME IInv, Meant # Nil, Follows, pc \in {"augdata", "personality"}, ai <= Len(loc.aug)
    PROVE  /\ pc \in Fields /\ pc \in Reading /\ loc \in InfoType /\ OnCie /\ OnField /\ HasData(CurAug)
           /\ loc.aug = CurAug /\ Len(CurAug) \in Nat /\ ai \in 2..Len(CurAug)
           /\ CurAug[ai] \in {P, R, L} /\ \A i \in 2..Len(CurAug) : CurAug[i] = CurAug[ai] => i = ai
           /\ ai \in Nat /\ ai + 1 \in 2..(Len(CurAug) + 1) /\ \A i \in 2..Len(CurAug) : i < ai + 1 => i < ai \/ i = ai
           /\ Len(Cur.rows) \in Nat /\ DataHere(ai) \in Nat /\ DataHere(ai + 1) <= Len(Cur.rows)
           /\ IsCie => /\ IsCieData(sect, Cur, ai) /\ Cur.kind = "CIE" /\ CurCie = Cur
                       /\ DataHere(ai) = DataAt("CIE", AugOf(sect, Cur), ai)
                       /\ CurAug = AugOf(sect, Cur)
                       /\ CurAug[ai] = P => DataHere(ai + 1) = DataHere(ai) + 2
                       /\ CurAug[ai] # P => DataHere(ai + 1) = DataHere(ai) + 1
           /\ ~IsCie => /\ IsFdeData(sect, Cur, CurCie, ai) /\ Cur.kind = "FDE"
                        /\ DataHere(ai) = DataAt("FDE", AugOf(sect, CurCie), ai)
                        /\ CurAug = AugOf(sect, CurCie)
                        /\ CurAug[ai] = L => DataHere(ai + 1) = DataHere(ai) + 1
                        /\ CurAug[ai] # L => DataHere(ai + 1) = DataHere(ai)
  <1>1. /\ pc \in Fields /\ pc \in Reading /\ loc \in InfoType /\ OnCie /\ OnField /\ HasData(CurAug)
        /\ loc.aug = CurAug /\ ai \in 2..(Len(CurAug) + 1)
    <2>1. pc \in Fields /\ pc \in Reading
      BY DEF Fields, Reading
    <2> QED
      BY <2>1, FieldFacts DEF OnField, OnCie
  <1>2. /\ Len(CurAug) \in Nat /\ IsAug(CurAug) /\ IsTail(sect, Cur, CurAug) /\ Cur.kind \in {"CIE", "FDE"}
        /\ Fixed \in {4, 7, 8} /\ Len(Cur.rows) \in Nat /\ Fixed < Len(Cur.rows)
    BY <1>1, CurFacts, FieldFacts
  <1>3. /\ ai \in 2..Len(CurAug) /\ ai \in Nat /\ ai + 1 \in 2..(Len(CurAug) + 1)
        /\ \A i \in 2..Len(CurAug) : i < ai + 1 => i < ai \/ i = ai
    BY <1>1, <1>2
  <1>4. CurAug[ai] \in {P, R, L} /\ \A i \in 2..Len(CurAug) : CurAug[i] = CurAug[ai] => i = ai
    BY <1>1, <1>2, <1>3 DEF IsAug
  <1>5. /\ DataHere(ai) \in Nat
        /\ DataHere(ai + 1) = DataHere(ai) +
              IF Cur.kind = "CIE" THEN IF CurAug[ai] = P THEN 2 ELSE 1
              ELSE IF CurAug[ai] = L THEN 1 ELSE 0
        /\ DataHere(ai + 1) <= DataHere(Len(CurAug) + 1)
        /\ DataHere(Len(CurAug) + 1) \in Nat
    BY <1>1, <1>2, <1>3, DataFacts DEF DataHere
  <1>6. DataHere(Len(CurAug) + 1) \in {Len(Cur.rows), Len(Cur.rows) - 1}
    BY <1>1, <1>2 DEF IsTail, DataHere
  <1>7. DataHere(ai + 1) \in Nat
    BY <1>5
  <1>8. DataHere(ai + 1) <= Len(Cur.rows)
    BY <1>2, <1>5, <1>6, <1>7
  <1>9. CASE IsCie
    <2>1. Cur.kind = "CIE" /\ CurCie = Cur /\ IsCieItem(sect, Cur) /\ CurAug = AugOf(sect, Cur)
      BY <1>1, <1>9, FieldFacts
    <2>2. IsCieData(sect, Cur, ai)
      BY <1>1, <1>3, <2>1 DEF IsCieItem
    <2>3. DataHere(ai) = DataAt("CIE", AugOf(sect, Cur), ai)
      BY <2>1 DEF DataHere
    <2>4. /\ CurAug[ai] = P => DataHere(ai + 1) = DataHere(ai) + 2
          /\ CurAug[ai] # P => DataHere(ai + 1) = DataHere(ai) + 1
      BY <1>5, <2>1
    <2> QED
      BY <1>1, <1>2, <1>3, <1>4, <1>5, <1>8, <1>9, <2>1, <2>2, <2>3, <2>4
  <1>10. CASE ~IsCie
    <2>1. Cur.kind = "FDE" /\ IsFdeItem(sect, Cur, CurCie) /\ CurAug = AugOf(sect, CurCie)
      BY <1>1, <1>10, FieldFacts
    <2>2. IsFdeData(sect, Cur, CurCie, ai)
      BY <1>1, <1>3, <2>1 DEF IsFdeItem
    <2>3. DataHere(ai) = DataAt("FDE", AugOf(sect, CurCie), ai)
      BY <2>1 DEF DataHere
    <2>4. /\ CurAug[ai] = L => DataHere(ai + 1) = DataHere(ai) + 1
          /\ CurAug[ai] # L => DataHere(ai + 1) = DataHere(ai)
      <3>1. DataHere(ai) + 0 = DataHere(ai)
        BY <1>5
      <3> QED
        BY <1>5, <2>1, <3>1
    <2> QED
      BY <1>1, <1>2, <1>3, <1>4, <1>5, <1>8, <1>10, <2>1, <2>2, <2>3, <2>4
  <1> QED
    BY <1>9, <1>10

\* The next character's turn comes when the data of this one is read.
LEMMA NextChar ==
    ASSUME IInv, Meant # Nil, Follows, pc \in {"augdata", "personality"}, ai <= Len(loc.aug),
           pc' = "augdata", ai' = ai + 1, Here' = DataHere(ai + 1), UNCHANGED <<sect, augend, table>>
    PROVE  OnField'
  <1>1. HasData(CurAug) /\ ai + 1 \in 2..(Len(CurAug) + 1) /\ augend = Cur.rows[Len(Cur.rows)].at
    BY CharFacts DEF OnField
  <1>2. DataHere(ai)' = DataHere(ai + 1)
    BY SameMeant DEF DataHere
  <1> QED
    BY <1>1, <1>2, SameMeant DEF OnField

\* P, R and L are different characters.
LEMMA Chars == P # R /\ P # L /\ R # L /\ {P, R, L} \subseteq Nat
  BY DEF P, R, L

LEMMA FollowsPersonality ==
    ASSUME IInv, Meant # Nil, Follows, PersonalityEncoding \/ PersonalityPointer
    PROVE  Follows'
  <1>1. CASE PersonalityEncoding
    <2>1. /\ pc = "augdata" /\ ai <= Len(loc.aug) /\ loc.aug[ai] = P /\ IsCie
          /\ Take("Data_Personlity_Encoding", 1) /\ loc' = [loc EXCEPT !.penc = At(off)]
          /\ pc' = "personality" /\ pc' \in Fields /\ pc' \in Reading
          /\ UNCHANGED <<sect, top, end, cie, ai, augend, cies, table>>
      BY <1>1 DEF PersonalityEncoding, AtChar, Goto, Fields, Reading
    <2>2. /\ pc \in Fields /\ pc \in Reading /\ loc \in InfoType /\ OnCie /\ OnField /\ HasData(CurAug)
          /\ loc.aug = CurAug /\ ai \in 2..Len(CurAug) /\ CurAug[ai] = P /\ Here = DataHere(ai)
          /\ DataHere(ai) \in Nat /\ DataHere(ai) + 2 <= Len(Cur.rows) /\ Len(Cur.rows) \in Nat
          /\ IsCieData(sect, Cur, ai) /\ CurAug = AugOf(sect, Cur)
          /\ DataHere(ai) = DataAt("CIE", AugOf(sect, Cur), ai)
          /\ ai \in 2..(Len(CurAug) + 1) /\ ai <= Len(CurAug)
          /\ augend = Cur.rows[Len(Cur.rows)].at
      BY <2>1, CharFacts DEF OnField
    <2>3. IsFixed(NextRow, "Data_Personlity_Encoding", 1)
      BY <2>2 DEF IsCieData, NextRow
    <2>4. Here < Len(Cur.rows)
      BY <2>2
    <2>5. OnItem' /\ Here' = Here + 1
      BY <2>1, <2>2, <2>3, <2>4, TakesNamed DEF IsFixed
    <2>6. /\ loc'.penc = NextRow.bytes[1] /\ loc'.aug = loc.aug /\ loc'.lenc = loc.lenc
          /\ loc'.version = loc.version
      <3>1. NextRow.bytes[1] = At(off)
        BY <2>2, <2>3, HereFacts DEF IsFixed
      <3> QED
        BY <2>1, <2>2, <3>1 DEF InfoType
    <2>7. OnField'
      <3>1. DataHere(ai)' = DataHere(ai)
        BY <2>1, SameMeant DEF DataHere
      <3> QED
        BY <2>1, <2>2, <2>5, <2>6, <3>1, SameMeant DEF OnField, NextRow
    <2>8. OnCie'
      BY <2>1, <2>2, <2>6, SameMeant DEF OnCie, IsCie, OnlyCie
    <2> QED
      BY <2>1, <2>2, <2>5, <2>7, <2>8, FollowsOn
  <1>2. CASE PersonalityPointer
    <2>1. /\ pc = "personality" /\ Take("Data_Personlity_Pointer", PointerWidth(off, loc.penc))
          /\ ai' = ai + 1 /\ pc' = "augdata"
          /\ pc \in Fields /\ pc \in Reading /\ pc' \in Fields /\ pc' \in Reading
          /\ UNCHANGED <<sect, top, end, cie, loc, augend, cies, table>>
      BY <1>2 DEF PersonalityPointer, Goto, Fields, Reading
    <2>2. IsCie /\ ai <= Len(loc.aug)
      BY <2>1, FieldFacts DEF OnCie, OnlyCie, OnField
    <2>3. /\ loc \in InfoType /\ OnCie /\ OnField /\ HasData(CurAug)
          /\ loc.aug = CurAug /\ ai \in 2..Len(CurAug) /\ CurAug[ai] = P /\ Here = DataHere(ai) + 1
          /\ DataHere(ai) \in Nat /\ DataHere(ai) + 2 <= Len(Cur.rows) /\ Len(Cur.rows) \in Nat
          /\ IsCieData(sect, Cur, ai) /\ CurAug = AugOf(sect, Cur)
          /\ DataHere(ai) = DataAt("CIE", AugOf(sect, Cur), ai)
          /\ DataHere(ai + 1) = DataHere(ai) + 2
          /\ \A i \in 2..Len(CurAug) : i < ai + 1 => i < ai \/ i = ai
          /\ loc.penc = Cur.rows[DataHere(ai)].bytes[1]
      BY <2>1, <2>2, CharFacts DEF OnField
    <2>4. IsPointer(sect, NextRow, "Data_Personlity_Pointer", loc.penc)
      BY <2>3 DEF IsCieData, NextRow
    <2>5. Here < Len(Cur.rows) /\ Here + 1 = DataHere(ai + 1)
      BY <2>3
    <2>6. PointerWidth(off, loc.penc) = Len(NextRow.bytes) /\ NextRow.name = "Data_Personlity_Pointer"
      BY <2>1, <2>4, ReadsPointer DEF IsPointer
    <2>7. OnItem' /\ Here' = Here + 1
      BY <2>1, <2>5, <2>6, TakesNamed
    <2>8. OnField'
      BY <2>1, <2>2, <2>5, <2>7, NextChar
    <2>9. OnCie'
      BY <2>1, <2>2, <2>3, SameMeant, Chars DEF OnCie, IsCie, OnlyCie
    <2> QED
      BY <2>1, <2>7, <2>8, <2>9, FollowsOn
  <1> QED
    BY <1>1, <1>2

\* The encodings that a CIE declares for its FDEs.
LEMMA FollowsEncodings ==
    ASSUME IInv, Meant # Nil, Follows, FdeEncoding \/ LsdaEncoding
    PROVE  Follows'
  <1>1. /\ pc = "augdata" /\ pc' = "augdata" /\ ai <= Len(loc.aug) /\ IsCie /\ ai' = ai + 1
        /\ UNCHANGED <<sect, top, end, cie, augend, cies, table>>
        /\ pc' \in Fields /\ pc' \in Reading
    BY DEF FdeEncoding, LsdaEncoding, AtChar, Fields, Reading
  <1>2. /\ pc \in Fields /\ pc \in Reading /\ loc \in InfoType /\ OnCie /\ OnField /\ HasData(CurAug)
        /\ loc.aug = CurAug /\ ai \in 2..Len(CurAug) /\ Here = DataHere(ai)
        /\ DataHere(ai) \in Nat /\ DataHere(ai + 1) <= Len(Cur.rows) /\ Len(Cur.rows) \in Nat
        /\ IsCieData(sect, Cur, ai) /\ CurAug = AugOf(sect, Cur) /\ CurCie = Cur
        /\ DataHere(ai) = DataAt("CIE", AugOf(sect, Cur), ai)
        /\ CurAug[ai] # P => DataHere(ai + 1) = DataHere(ai) + 1
        /\ \A i \in 2..Len(CurAug) : i < ai + 1 => i < ai \/ i = ai
        /\ \A i \in 2..Len(CurAug) : CurAug[i] = CurAug[ai] => i = ai
    BY <1>1, CharFacts DEF OnField
  <1>3. CASE FdeEncoding
    <2>1. /\ CurAug[ai] = R /\ Take("Data_FDE_Encoding", 1) /\ loc' = [loc EXCEPT !.fenc = At(off)]
      BY <1>2, <1>3 DEF FdeEncoding, AtChar
    <2>2. IsFixed(NextRow, "Data_FDE_Encoding", 1)
      BY <1>2, <2>1 DEF IsCieData, NextRow
    <2>3. Here < Len(Cur.rows) /\ Here + 1 = DataHere(ai + 1)
      BY <1>2, <2>1, Chars
    <2>4. OnItem' /\ Here' = Here + 1
      BY <1>1, <1>2, <2>1, <2>2, <2>3, TakesNamed DEF IsFixed
    <2>5. OnField'
      BY <1>1, <2>3, <2>4, NextChar
    <2>6. loc'.aug = loc.aug /\ loc'.lenc = loc.lenc /\ loc'.version = loc.version
      BY <1>2, <2>1 DEF InfoType
    <2>7. OnCie'
      BY <1>1, <1>2, <2>1, <2>6, SameMeant, Chars DEF OnCie, IsCie, OnlyCie
    <2> QED
      BY <1>1, <1>2, <2>4, <2>5, <2>7, FollowsOn
  <1>4. CASE LsdaEncoding
    <2>1. /\ CurAug[ai] = L /\ Take("Data_LSDA_Encoding", 1) /\ loc' = [loc EXCEPT !.lenc = At(off)]
      BY <1>2, <1>4 DEF LsdaEncoding, AtChar
    <2>2. IsFixed(NextRow, "Data_LSDA_Encoding", 1)
      BY <1>2, <2>1 DEF IsCieData, NextRow
    <2>3. Here < Len(Cur.rows) /\ Here + 1 = DataHere(ai + 1)
      BY <1>2, <2>1, Chars
    <2>4. OnItem' /\ Here' = Here + 1
      BY <1>1, <1>2, <2>1, <2>2, <2>3, TakesNamed DEF IsFixed
    <2>5. OnField'
      BY <1>1, <2>3, <2>4, NextChar
    <2>6. /\ loc'.aug = loc.aug /\ loc'.version = loc.version
          /\ loc'.lenc = LsdaEnc(sect, CurCie, ai)
      <3>1. NextRow.bytes[1] = At(off)
        BY <1>2, <2>2, HereFacts DEF IsFixed
      <3> QED
        BY <1>2, <2>1, <3>1 DEF InfoType, LsdaEnc, NextRow
    <2>7. OnCie'
      BY <1>1, <1>2, <2>1, <2>6, SameMeant DEF OnCie, IsCie, OnlyCie
    <2> QED
      BY <1>1, <1>2, <2>4, <2>5, <2>7, FollowsOn
  <1> QED
    BY <1>3, <1>4

\* What the string means for an FDE.
LEMMA FollowsFdeData ==
    ASSUME IInv, Meant # Nil, Follows, LsdaPointer \/ SkipChar
    PROVE  Follows'
  <1>1. /\ pc = "augdata" /\ pc' = "augdata" /\ ai <= Len(loc.aug) /\ ~IsCie /\ ai' = ai + 1
        /\ UNCHANGED <<sect, top, end, cie, loc, augend, cies, table>>
        /\ pc' \in Fields /\ pc' \in Reading
    BY DEF LsdaPointer, SkipChar, AtChar, Fields, Reading
  <1>2. /\ pc \in Fields /\ pc \in Reading /\ loc \in InfoType /\ OnCie /\ OnField /\ HasData(CurAug)
        /\ loc.aug = CurAug /\ ai \in 2..Len(CurAug) /\ Here = DataHere(ai)
        /\ DataHere(ai) \in Nat /\ DataHere(ai + 1) <= Len(Cur.rows) /\ Len(Cur.rows) \in Nat
        /\ IsFdeData(sect, Cur, CurCie, ai) /\ CurAug = AugOf(sect, CurCie)
        /\ DataHere(ai) = DataAt("FDE", AugOf(sect, CurCie), ai)
        /\ CurAug[ai] = L => DataHere(ai + 1) = DataHere(ai) + 1
        /\ CurAug[ai] # L => DataHere(ai + 1) = DataHere(ai)
    BY <1>1, CharFacts DEF OnField
  <1>3. OnCie'
    BY <1>1, <1>2, SameMeant DEF OnCie, IsCie, OnlyCie
  <1>4. CASE LsdaPointer
    <2>1. CurAug[ai] = L /\ Take("Data_LSDA_Pointer", PointerWidth(off, loc.lenc))
      BY <1>2, <1>4 DEF LsdaPointer, AtChar
    <2>2. loc.lenc = LsdaEnc(sect, CurCie, ai)
      BY <1>1, <1>2, <2>1 DEF OnCie
    <2>3. IsPointer(sect, NextRow, "Data_LSDA_Pointer", loc.lenc)
      BY <1>2, <2>1, <2>2 DEF IsFdeData, NextRow
    <2>4. PointerWidth(off, loc.lenc) = Len(NextRow.bytes) /\ NextRow.name = "Data_LSDA_Pointer"
      BY <1>2, <2>3, ReadsPointer DEF IsPointer
    <2>5. Here < Len(Cur.rows) /\ Here + 1 = DataHere(ai + 1)
      BY <1>2, <2>1
    <2>6. OnItem' /\ Here' = Here + 1
      BY <1>1, <1>2, <2>1, <2>4, <2>5, TakesNamed
    <2>7. OnField'
      BY <1>1, <2>5, <2>6, NextChar
    <2> QED
      BY <1>1, <1>2, <1>3, <2>6, <2>7, FollowsOn
  <1>5. CASE SkipChar
    <2>1. CurAug[ai] # L /\ UNCHANGED <<off, item>>
      BY <1>2, <1>5, Chars DEF SkipChar, AtChar
    <2>2. Here' = Here /\ Here = DataHere(ai + 1)
      BY <1>2, <2>1 DEF Here
    <2>3. OnItem'
      BY <1>1, <1>2, <2>1, <2>2, SameMeant DEF Follows, OnItem
    <2>4. OnField'
      BY <1>1, <2>2, NextChar
    <2> QED
      BY <1>1, <1>2, <1>3, <2>3, <2>4, FollowsOn
  <1> QED
    BY <1>4, <1>5

\* The end of the string, when the rest of the data can be what it must be.
LEMMA AtAugEnd ==
    ASSUME IInv, Meant # Nil, Follows, pc = "augdata", ai > Len(loc.aug)
    PROVE  /\ pc \in Fields /\ pc \in Reading /\ OnCie /\ OnField /\ HasData(CurAug) /\ loc.aug = CurAug
           /\ ai = Len(CurAug) + 1 /\ Len(Cur.rows) \in Nat /\ loc \in InfoType
           /\ augend = Cur.rows[Len(Cur.rows)].at /\ off \in Nat /\ augend \in Nat
           /\ \/ Here = Len(Cur.rows) /\ off = augend
              \/ /\ Here = Len(Cur.rows) - 1 /\ NextRow.name = "Data_Remains"
                 /\ off < augend /\ augend - off = Len(NextRow.bytes) /\ ReadAt(off, augend - off)
  <1>1. pc \in Fields /\ pc \in Reading /\ OnField /\ OnCie /\ loc \in InfoType /\ loc.aug = CurAug
    BY FieldFacts DEF Fields, Reading, OnCie
  <1>2. /\ Len(CurAug) \in Nat /\ IsTail(sect, Cur, CurAug) /\ HasData(CurAug) /\ ai = Len(CurAug) + 1
        /\ Here = DataHere(ai) /\ augend = Cur.rows[Len(Cur.rows)].at /\ Len(Cur.rows) \in Nat
    BY <1>1, CurFacts, FieldFacts DEF OnField
  <1>3. \/ Here = Len(Cur.rows)
        \/ /\ Here = Len(Cur.rows) - 1 /\ NextRow.name = "Data_Remains" /\ NextRow.bytes # <<>>
    BY <1>2 DEF IsTail, DataHere, NextRow
  <1>4. /\ off \in Nat /\ off = NextRow.at /\ augend \in Nat /\ NextRow \in ItemRow
        /\ Len(NextRow.bytes) \in Nat
    BY <1>1, HereFacts, InFields
  <1>5. CASE Here = Len(Cur.rows)
    BY <1>1, <1>2, <1>4, <1>5 DEF NextRow
  <1>6. CASE Here = Len(Cur.rows) - 1 /\ NextRow.name = "Data_Remains" /\ NextRow.bytes # <<>>
    <2>1. Here < Len(Cur.rows) /\ Here + 1 = Len(Cur.rows)
      BY <1>2, <1>6
    <2>2. augend = off + Len(NextRow.bytes)
      BY <1>1, <1>2, <1>6, <2>1, HereFacts
    <2>3. Len(NextRow.bytes) # 0
      BY <1>4, <1>6, EmptySeq DEF ItemRow
    <2>4. off < augend /\ augend - off = Len(NextRow.bytes)
      BY <1>4, <2>2, <2>3
    <2> QED
      BY <1>1, <1>2, <1>4, <1>6, <2>3, <2>4, ReadsBytes
  <1> QED
    BY <1>3, <1>5, <1>6

LEMMA FollowsAugEnd ==
    ASSUME IInv, Meant # Nil, Follows, AugmentationEnd
    PROVE  Follows'
  <1>1. /\ pc = "augdata" /\ ai > Len(loc.aug) /\ TakeRest("Data_Remains") /\ pc' = "insts"
        /\ pc' \in Fields /\ pc' \in Reading
        /\ UNCHANGED <<sect, top, end, cie, loc, ai, augend, cies, table>>
    BY DEF AugmentationEnd, Goto, Fields, Reading
  <1>2. /\ pc \in Fields /\ pc \in Reading /\ OnCie /\ OnField /\ HasData(CurAug) /\ loc.aug = CurAug
        /\ ai = Len(CurAug) + 1 /\ Len(Cur.rows) \in Nat /\ loc \in InfoType
        /\ off \in Nat /\ augend \in Nat
        /\ \/ Here = Len(Cur.rows) /\ off = augend
           \/ /\ Here = Len(Cur.rows) - 1 /\ NextRow.name = "Data_Remains"
              /\ off < augend /\ augend - off = Len(NextRow.bytes)
    BY <1>1, AtAugEnd
  <1>3. OnItem' /\ Here' = Len(Cur.rows)
    <2>1. CASE Here = Len(Cur.rows) /\ off = augend
      <3>1. UNCHANGED <<off, item>>
        BY <1>1, <1>2, <2>1 DEF TakeRest
      <3>2. Here' = Here
        BY <3>1 DEF Here
      <3> QED
        BY <1>1, <1>2, <2>1, <3>1, <3>2, SameMeant DEF Follows, OnItem
    <2>2. CASE /\ Here = Len(Cur.rows) - 1 /\ NextRow.name = "Data_Remains"
               /\ off < augend /\ augend - off = Len(NextRow.bytes)
      <3>1. Take("Data_Remains", Len(NextRow.bytes))
        BY <1>1, <1>2, <2>2 DEF TakeRest
      <3>2. Here < Len(Cur.rows) /\ Here + 1 = Len(Cur.rows)
        BY <1>2, <2>2
      <3> QED
        BY <1>1, <1>2, <2>2, <3>1, <3>2, TakesNamed
    <2> QED
      BY <1>2, <2>1, <2>2
  <1>4. OnField'
    BY <1>1, <1>2, <1>3, SameMeant DEF OnField
  <1>5. OnCie'
    BY <1>1, <1>2, SameMeant DEF OnCie, IsCie, OnlyCie
  <1> QED
    BY <1>1, <1>2, <1>3, <1>4, <1>5, FollowsOn

-----------------------------------------------------------------------------
(* From one item to the next.                                                *)

\* Between two items the parser is where the next one starts, or at the section's end.
LEMMA AtEntry ==
    ASSUME IInv, Meant # Nil, Follows, pc = "entry"
    PROVE  /\ Len(table) \in Nat /\ Len(Meant) \in Nat /\ Len(table) <= Len(Meant)
           /\ off \in Nat /\ Size \in Nat /\ Typed /\ item = <<>>
           /\ Len(table) = Len(Meant) => off >= Size
           /\ Len(table) < Len(Meant) =>
                /\ off = Cur.rows[1].at /\ Len(Cur.rows) > 4 /\ Len(Cur.rows) \in Nat
                /\ ReadAt(off, 8) /\ ~IsExtended
                /\ Row("Length", 4) = Cur.rows[1] /\ Cur.rows[2].at = off + 4
                /\ EntryEnd(off) = LengthEnd(Cur.rows[1])
  <1>1. /\ Typed /\ OnTable /\ item = <<>> /\ off = ItemsEnd(Len(table)) /\ off \in Nat /\ Size \in Nat
    BY SectionFacts DEF IInv, Follows, Typed, EntryRight, SectionTiles, ItemsTile
  <1>2. /\ Len(table) \in Nat /\ Len(Meant) \in Nat /\ Len(table) <= Len(Meant)
        /\ Size <= LaidEnd(sect, Meant, Len(Meant))
    BY <1>1, MeantFacts, LenProperties DEF Typed, OnTable
  <1>3. off = LaidEnd(sect, Meant, Len(table))
    <2>1. Len(table) # 0 => Len(table) \in 1..Len(table)
      BY <1>2
    <2> QED
      BY <1>1, <2>1 DEF OnTable, ItemsEnd, LaidEnd
  <1>4. Len(table) = Len(Meant) => off >= Size
    <2> DEFINE e == LaidEnd(sect, Meant, Len(Meant))
    <2>1. Len(table) = Len(Meant) => off = e
      BY <1>3
    <2> HIDE DEF e
    <2> QED
      BY <1>1, <1>2, <2>1 DEF e
  <1>5. ASSUME Len(table) < Len(Meant)
        PROVE  /\ off = Cur.rows[1].at /\ Len(Cur.rows) > 4 /\ Len(Cur.rows) \in Nat
               /\ ReadAt(off, 8) /\ ~IsExtended
               /\ Row("Length", 4) = Cur.rows[1] /\ Cur.rows[2].at = off + 4
               /\ EntryEnd(off) = LengthEnd(Cur.rows[1])
    <2> DEFINE row == Cur.rows[1]
               id == Cur.rows[2]
               k == Len(table) + 1
    <2>1. k \in 1..Len(Meant) /\ k - 1 = Len(table)
      BY <1>2, <1>5
    <2>2. Cur \in ItemType /\ IsItem(sect, Meant, k) /\ row.at = LaidEnd(sect, Meant, k - 1)
      BY <1>1, <2>1, MeantFacts DEF Cur
    <2>3. off = row.at
      BY <1>3, <2>1, <2>2
    <2>4. IsEntry(sect, Cur) /\ Cur.rows \in Seq(ItemRow) /\ Len(Cur.rows) \in Nat /\ Len(Cur.rows) > 4
      BY <2>2, LenProperties DEF IsItem, ItemType, Cur, IsEntry
    <2>5. 1 \in 1..Len(Cur.rows) /\ 2 \in 1..Len(Cur.rows) /\ 1 < Len(Cur.rows) /\ 1 + 1 = 2
      BY <2>4
    <2>6. Len(row.bytes) = 4 /\ row.name = "Length" /\ row.bytes[3] = 0 /\ row.bytes[4] = 0
      BY <2>4 DEF IsEntry, IsWord, IsFixed
    <2>7. /\ row \in ItemRow /\ row.bytes = Slice(off, 4) /\ off + 4 <= Size
          /\ RowEnd(sect, row) = off + 4 /\ id.at = RowEnd(sect, row)
      <3>1. /\ row \in ItemRow /\ row.bytes = Slice(row.at, Len(row.bytes))
            /\ row.at + Len(row.bytes) <= Size
            /\ row.name # "Augumentation_String" => RowEnd(sect, row) = row.at + Len(row.bytes)
        BY <1>1, <2>4, <2>5, ShownRow
      <3>2. id.at = RowEnd(sect, row)
        BY <2>4, <2>5 DEF IsEntry, Chained
      <3> HIDE DEF row, id
      <3> QED
        BY <2>3, <2>6, <3>1, <3>2
    <2>8. Len(id.bytes) = 4
      BY <2>2 DEF IsItem, IsCieItem, IsFdeItem, IsWord, IsFixed, ItemType, Cur
    <2>9. id.at + 4 <= Size
      BY <1>1, <2>4, <2>5, <2>8, ShownRow
    <2>10. ReadAt(off, 8)
      BY <1>1, <2>7, <2>9 DEF ReadAt
    <2>11. ~IsExtended
      <3>1. <<255, 255, 255, 255>>[3] # 0
        OBVIOUS
      <3> QED
        BY <2>6, <2>7, <3>1 DEF IsExtended
    <2>12. Row("Length", 4) = row
      BY <2>3, <2>6, <2>7 DEF Row, ItemRow
    <2>13. EntryEnd(off) = LengthEnd(row)
      BY <2>3, <2>6, <2>7 DEF EntryEnd, Word, LengthEnd, Low
    <2> QED
      BY <2>3, <2>4, <2>7, <2>10, <2>11, <2>12, <2>13
  <1> QED
    BY <1>1, <1>2, <1>4, <1>5

LEMMA FollowsLength ==
    ASSUME IInv, Meant # Nil, Follows, Length
    PROVE  Follows'
  <1>1. /\ pc = "entry" /\ off < Size /\ top' = off /\ pc' = "id"
        /\ ~IsExtended => Take("Length", 4) /\ end' = EntryEnd(off)
        /\ UNCHANGED <<sect, cie, loc, ai, augend, cies, table>>
        /\ pc' \in Reading /\ pc' \notin Fields
    BY DEF Length, Goto, Fields, Reading
  <1>2. /\ Len(table) \in Nat /\ Len(Meant) \in Nat /\ Len(table) < Len(Meant) /\ OnTable
        /\ off \in Nat /\ item = <<>>
        /\ off = Cur.rows[1].at /\ Len(Cur.rows) > 4 /\ Len(Cur.rows) \in Nat /\ ~IsExtended
        /\ Row("Length", 4) = Cur.rows[1] /\ Cur.rows[2].at = off + 4
        /\ EntryEnd(off) = LengthEnd(Cur.rows[1])
    BY <1>1, AtEntry DEF Follows
  <1>3. item' = <<Cur.rows[1]>> /\ off' = off + 4 /\ end' = LengthEnd(Cur.rows[1])
    BY <1>1, <1>2 DEF Take
  <1>4. Len(item') = 1 /\ item'[1] = Cur.rows[1] /\ Here' = 2
    BY <1>3 DEF Here
  <1>5. OnTable'
    BY <1>1, <1>2, SameMeant DEF OnTable
  <1>6. OnItem'
    BY <1>1, <1>2, <1>3, <1>4, SameMeant DEF OnItem
  <1>7. OnField' /\ OnCie'
    BY <1>1, <1>4 DEF OnField, OnCie
  <1>8. CiesSeen'
    <2>1. \A c : CieSeen(c) => CieSeen(c)'
      BY <1>1, SameMeant DEF CieSeen
    <2> QED
      BY <1>1, <2>1, SameMeant DEF Follows, CiesSeen
  <1> QED
    BY <1>5, <1>6, <1>7, <1>8 DEF Follows

\* The id says what is laid out.
LEMMA AtMeantId ==
    ASSUME IInv, Meant # Nil, Follows, pc = "id"
    PROVE  /\ pc \in Reading /\ ReadAt(off, 4) /\ Len(NextRow.bytes) = 4
           /\ Here = 2 /\ Here < Len(Cur.rows)
           /\ Cur.kind = "CIE" => NextRow.name = "CIE_ID" /\ Word(off) = 0
           /\ Cur.kind = "FDE" =>
                /\ NextRow.name = "CIE_Pointer" /\ Word(off) # 0
                /\ CieTop(off) = CurCie.rows[1].at
                /\ CieOf(Len(table) + 1) \in 1..Len(table)
                /\ CieSeen(CieOf(Len(table) + 1))
           /\ Cur.kind \in {"CIE", "FDE"}
  <1>1. pc \in Reading /\ Here = 2
    BY DEF Reading, Follows, OnField
  <1>2. /\ Fixed \in {4, 7, 8} /\ Fixed < Len(Cur.rows) /\ Len(Cur.rows) \in Nat
        /\ Cur.kind \in {"CIE", "FDE"} /\ IsCieItem(sect, CurCie) /\ off = NextRow.at
        /\ Cur.kind = "CIE" => CurCie = Cur
        /\ Cur.kind = "FDE" => IsFdeItem(sect, Cur, CurCie) /\ CieOf(Len(table) + 1) \in 1..Len(table)
        /\ CurCie.kind = "CIE"
    BY <1>1, CurFacts, HereFacts
  <1>3. Cur.kind = "CIE" => IsWord(NextRow, "CIE_ID") /\ Low(NextRow) = 0
    BY <1>1, <1>2 DEF IsCieItem, NextRow
  <1>4. Cur.kind = "FDE" => /\ IsWord(NextRow, "CIE_Pointer") /\ Low(NextRow) # 0
                            /\ NextRow.at - Low(NextRow) = CurCie.rows[1].at
    BY <1>1, <1>2 DEF IsFdeItem, NextRow
  <1>5. Cur.kind = "FDE" => CieSeen(CieOf(Len(table) + 1))
    BY <1>1, <1>2 DEF Follows, CiesSeen, CurCie
  <1>6. ReadAt(off, 4) /\ Word(off) = Low(NextRow)
    BY <1>1, <1>2, <1>3, <1>4, ReadsWord
  <1> QED
    BY <1>1, <1>2, <1>3, <1>4, <1>5, <1>6 DEF IsWord, IsFixed, CieTop

LEMMA FollowsId ==
    ASSUME IInv, Meant # Nil, Follows, CieId \/ CiePointer
    PROVE  Follows'
  <1>1. /\ pc = "id" /\ pc' \in Fields /\ pc' \in Reading /\ pc \in Reading
        /\ UNCHANGED <<sect, top, end, ai, augend, table>>
    BY DEF CieId, CiePointer, Goto, Fields, Reading
  <1>2. OnTable /\ OnTable' /\ CiesSeen
    BY <1>1, SameMeant DEF Follows, OnTable, Fields
  <1>3. /\ Here = 2 /\ Here < Len(Cur.rows) /\ Len(NextRow.bytes) = 4
        /\ top \in Nat /\ \A c \in DOMAIN cies : c < top
    BY <1>1, AtMeantId, AtId
  <1>4. CASE CieId
    <2>1. /\ pc' = "version" /\ Word(off) = 0 /\ Take("CIE_ID", 4) /\ cie' = top /\ cies' = Put(top, NewInfo)
      BY <1>4 DEF CieId, Goto
    <2>2. Cur.kind = "CIE" /\ NextRow.name = "CIE_ID"
      BY <1>1, <2>1, AtMeantId
    <2>3. OnItem' /\ Here' = 3
      BY <1>1, <1>3, <2>1, <2>2, TakesNamed
    <2>4. OnField' /\ OnCie'
      BY <1>1, <2>1, <2>2, <2>3, SameMeant DEF OnField, OnCie, IsCie
    <2>5. CiesSeen'
      <3>1. \A c \in DOMAIN cies : c \in DOMAIN cies' /\ cies'[c] = cies[c]
        <4>1. \A c \in DOMAIN cies : c # top
          BY <1>3
        <4> QED
          BY <2>1, <4>1 DEF Put
      <3>2. pc # "entry" /\ pc' # "entry"
        BY <1>1, <2>1
      <3>3. \A c : CieSeen(c) => CieSeen(c)'
        BY <1>1, <3>1, <3>2, SameMeant DEF CieSeen
      <3> QED
        BY <1>1, <1>2, <3>3, SameMeant DEF CiesSeen
    <2> QED
      BY <1>2, <2>3, <2>4, <2>5 DEF Follows
  <1>5. CASE CiePointer
    <2>1. /\ pc' = "pcbegin" /\ Word(off) # 0 /\ Take("CIE_Pointer", 4) /\ cie' = CieTop(off)
          /\ loc' = cies[CieTop(off)] /\ UNCHANGED cies /\ CieTop(off) \in DOMAIN cies
      BY <1>5 DEF CiePointer, Goto
    <2>2. /\ Cur.kind = "FDE" /\ NextRow.name = "CIE_Pointer" /\ CieTop(off) = CurCie.rows[1].at
          /\ CieSeen(CieOf(Len(table) + 1))
      BY <1>1, <2>1, AtMeantId
    <2>3. OnItem' /\ Here' = 3
      BY <1>1, <1>3, <2>1, <2>2, TakesNamed
    <2>4. OnField'
      BY <2>1, <2>3 DEF OnField
    <2>5. /\ loc'.num = CurCie.num /\ loc'.aug = CurAug /\ loc'.fenc = 0
          /\ HasData(CurAug) =>
               \A i \in 2..Len(CurAug) : CurAug[i] = L => loc'.lenc = LsdaEnc(sect, CurCie, i)
      BY <2>1, <2>2 DEF CieSeen, CurCie, CurAug
    <2>6. cie' # top'
      <3>1. cie' < top /\ top' = top
        BY <1>1, <1>3, <2>1
      <3> QED
        BY <1>3, <3>1
    <2>7. OnCie'
      BY <1>1, <2>1, <2>2, <2>5, <2>6, SameMeant DEF OnCie, IsCie, OnlyCie
    <2>8. CiesSeen'
      BY <1>1, <1>2, <2>1, CiesKeep
    <2> QED
      BY <1>2, <2>3, <2>4, <2>7, <2>8 DEF Follows
  <1> QED
    BY <1>4, <1>5

\* The last row, which ends where the length says.
LEMMA AtInstructions ==
    ASSUME IInv, Meant # Nil, Follows, pc = "insts"
    PROVE  /\ pc \in Fields /\ pc \in Reading /\ loc \in InfoType /\ OnCie
           /\ off <= end /\ ReadAt(off, end - off)
           /\ Append(item, Row("Initial_Instructions", end - off)) = Cur.rows
           /\ HasData(CurAug) => ai = Len(CurAug) + 1
  <1>1. pc \in Fields /\ pc \in Reading /\ loc \in InfoType /\ OnCie /\ OnField /\ IsEntry(sect, Cur)
    BY FieldFacts DEF Fields, Reading
  <1>2. Here = Len(Cur.rows) /\ (HasData(CurAug) => ai = Len(CurAug) + 1)
    BY <1>1 DEF OnField
  <1>3. /\ NextRow.name = "Initial_Instructions" /\ NextRow.at < Size
        /\ end = RowEnd(sect, NextRow)
    <2>1. IsTail(sect, Cur, CurAug) /\ end = LengthEnd(Cur.rows[1])
      BY <1>1, CurFacts DEF Follows, OnItem
    <2> QED
      BY <1>1, <1>2, <2>1 DEF IsTail, NextRow, Size, IsEntry
  <1>4. /\ off \in Nat /\ Size \in Nat /\ off = NextRow.at /\ Len(NextRow.bytes) \in Nat /\ NextRow \in ItemRow
        /\ off + Len(NextRow.bytes) <= Size /\ NextRow.bytes = Slice(off, Len(NextRow.bytes))
        /\ end = off + Len(NextRow.bytes)
        /\ Typed /\ Cur \in ItemType /\ Len(item) \in Nat /\ Len(Cur.rows) \in Nat
    BY <1>1, <1>3, HereFacts
  <1>5. end - off = Len(NextRow.bytes) /\ off <= end
    BY <1>4
  <1>6. ReadAt(off, end - off)
    BY <1>3, <1>4, <1>5 DEF ReadAt
  <1>7. Row("Initial_Instructions", end - off) = NextRow
    BY <1>3, <1>4, <1>5 DEF Row, ItemRow
  <1>8. Append(item, NextRow) = Cur.rows
    <2>1. item \in Seq(ItemRow) /\ Cur.rows \in Seq(ItemRow) /\ Len(item) + 1 = Len(Cur.rows)
      BY <1>2, <1>4 DEF Typed, ItemType, Here
    <2>2. /\ Append(item, NextRow) \in Seq(ItemRow) /\ Len(Append(item, NextRow)) = Len(item) + 1
          /\ Append(item, NextRow)[Len(item) + 1] = NextRow
          /\ \A n \in 1..Len(item) : Append(item, NextRow)[n] = item[n]
      BY <1>4, <2>1, AppendProperties
    <2>3. \A n \in 1..Len(item) : item[n] = Cur.rows[n]
      BY <1>1 DEF Follows, OnItem
    <2>4. ASSUME NEW n \in 1..Len(Cur.rows) PROVE Append(item, NextRow)[n] = Cur.rows[n]
      <3>1. n \in 1..Len(item) \/ n = Len(item) + 1
        BY <1>4, <2>1
      <3> QED
        BY <2>2, <2>3, <3>1 DEF NextRow, Here
    <2> QED
      BY <2>1, <2>2, <2>4, SeqEqual
  <1> QED
    BY <1>1, <1>2, <1>5, <1>6, <1>7, <1>8

\* A finished item is the one that is meant.
LEMMA FinishedMeant ==
    ASSUME IInv, Meant # Nil, Follows, Instructions
    PROVE  Finished = Cur
  <1> DEFINE k == Len(table) + 1
  <1>1. pc = "insts"
    BY DEF Instructions
  <1>2. /\ Finished.rows = Cur.rows /\ Finished \in ItemType /\ Cur \in ItemType
        /\ OnCie /\ pc \in Fields /\ pc \in Reading
    BY <1>1, AtInstructions, FinishedRows, HereFacts DEF Finished
  <1>3. /\ k \in 1..Len(Meant) /\ Len(table) \in Nat /\ IsItem(sect, Meant, k) /\ k - 1 = Len(table)
        /\ \A j \in 1..Len(table) : table[j] = Meant[j]
    BY <1>2, HereFacts DEF Follows, OnTable
  <1>4. /\ Finished.kind = (IF IsCie THEN "CIE" ELSE "FDE") /\ Finished.cfi = loc.num
        /\ Finished.num = (IF IsCie THEN loc.num ELSE loc.fdes)
    BY DEF Finished
  <1>5. /\ loc.num = cies[cie].num /\ loc.fdes = cies[cie].fdes
        /\ IF IsCie THEN IsRead(cie) ELSE HasItem(cie)
    BY <1>2, FinishedCies DEF IInv, CieKnown
  <1>6. CASE IsCie
    <2>1. Cur.kind = "CIE" /\ CieItems = {j \in 1..(k - 1) : Meant[j].kind = "CIE"}
      BY <1>2, <1>3, <1>6 DEF OnCie, CieItems
    <2>2. Cur.num = Cardinality(CieItems) /\ Cur.cfi = Cur.num
      BY <1>3, <2>1 DEF IsItem, Cur
    <2> QED
      BY <1>2, <1>4, <1>5, <1>6, <2>1, <2>2 DEF IsRead, ItemType
  <1>7. CASE ~IsCie
    <2>1. Cur.kind = "FDE" /\ loc.num = CurCie.num /\ CurCie.num = Cur.cfi
      BY <1>2, <1>7, FieldFacts, CurFacts DEF OnCie
    <2>2. FdeItems(Cur.cfi) = {j \in 1..(k - 1) : Meant[j].kind = "FDE" /\ Meant[j].cfi = Meant[k].cfi}
      BY <1>3 DEF FdeItems, Cur
    <2>3. Cur.num = Cardinality(FdeItems(Cur.cfi))
      BY <1>3, <2>1, <2>2 DEF IsItem, Cur
    <2> QED
      BY <1>2, <1>4, <1>5, <1>7, <2>1, <2>3 DEF HasItem, ItemType
  <1> QED
    BY <1>6, <1>7

LEMMA FollowsInstructions ==
    ASSUME IInv, Meant # Nil, Follows, Instructions
    PROVE  Follows'
  <1> DEFINE n == Len(table)
  <1>1. /\ pc = "insts" /\ pc' = "entry" /\ sect' = sect /\ table' = Append(table, Cur)
        /\ cies' = Put(cie, IF IsCie THEN Kept(loc) ELSE Counted(loc))
        /\ top = Cur.rows[1].at /\ off' \in Nat /\ top < off' /\ top \in Nat
        /\ pc \in Reading /\ pc \in Fields /\ pc' \notin Reading /\ pc' \notin Fields
    <2>1. Finished.rows = Cur.rows /\ top \in Nat
      BY FinishedMeant DEF IInv, Typed
    <2> QED
      BY <2>1, FinishedRows, FinishedMeant DEF Instructions, Fields, Reading
  <1>2. /\ n \in Nat /\ n + 1 \in 1..Len(Meant) /\ Cur \in ItemType /\ OnTable /\ CiesSeen /\ OnCie
        /\ loc \in InfoType /\ Len(Meant) \in Nat /\ Meant[n + 1] = Cur /\ Typed
    BY <1>1, HereFacts, MeantFacts, FieldFacts DEF Follows, Cur
  <1>3. /\ Len(table') = n + 1 /\ table'[n + 1] = Cur
        /\ \A k \in 1..n : table'[k] = table[k]
    <2>1. table \in Seq(ItemType)
      BY <1>2 DEF Typed
    <2> QED
      BY <1>1, <1>2, <2>1, AppendProperties
  <1>4. Meant' = Meant
    BY <1>1 DEF Meant
  <1>5. \A k \in 1..(n + 1) : k \in 1..n \/ k = n + 1
    BY <1>2
  <1>6. OnTable'
    <2>1. \A k \in 1..(n + 1) : table'[k] = Meant[k]
      BY <1>2, <1>3, <1>5 DEF OnTable
    <2> QED
      BY <1>1, <1>2, <1>3, <1>4, <2>1 DEF OnTable
  <1>7. OnItem' /\ OnField' /\ OnCie'
    BY <1>1 DEF OnItem, OnField, OnCie
  <1>8. DOMAIN cies' = DOMAIN cies /\ cie \in DOMAIN cies
    BY FinishedCies
  <1>9. \A c \in DOMAIN cies : cies'[c] = IF c = cie THEN IF IsCie THEN Kept(loc) ELSE Counted(loc) ELSE cies[c]
    BY <1>1 DEF Put
  <1>10. ASSUME NEW c \in 1..n, Meant[c].kind = "CIE" PROVE CieSeen(c)'
    <2> DEFINE a == Meant[c].rows[1].at
    <2>1. CieSeen(c) /\ a \in DOMAIN cies /\ a < top
      BY <1>1, <1>2, <1>10 DEF CiesSeen, CieSeen
    <2>2. /\ cies'[a].num = cies[a].num /\ cies'[a].aug = cies[a].aug /\ cies'[a].fenc = cies[a].fenc
          /\ cies'[a].lenc = cies[a].lenc
      <3>1. CASE a = cie
        <4>1. ~IsCie
          BY <1>1, <2>1, <3>1 DEF IsCie
        <4>2. cies'[a] = Counted(loc) /\ loc = cies[a]
          BY <1>1, <1>2, <1>9, <2>1, <3>1, <4>1 DEF OnCie
        <4> QED
          BY <1>2, <4>2 DEF Counted, InfoType
      <3>2. CASE a # cie
        BY <1>9, <2>1, <3>2
      <3> QED
        BY <3>1, <3>2
    <2>3. a < off'
      <3>1. a \in Int
        BY <1>2, <2>1 DEF Typed
      <3> HIDE DEF a
      <3> QED
        BY <1>1, <2>1, <3>1
    <2> QED
      BY <1>1, <1>4, <1>8, <2>1, <2>2, <2>3 DEF CieSeen
  <1>11. ASSUME NEW c, c = n + 1, Cur.kind = "CIE" PROVE CieSeen(c)'
    <2>1. IsCie /\ CurCie = Cur /\ CurAug = AugOf(sect, Cur) /\ loc.aug = CurAug
      BY <1>1, <1>2, <1>11, FieldFacts DEF OnCie
    <2>2. cies'[top] = Kept(loc) /\ top \in DOMAIN cies
      BY <1>8, <1>9, <2>1 DEF IsCie
    <2>3. /\ cies'[top].num = loc.num /\ cies'[top].aug = loc.aug /\ cies'[top].fenc = 0
          /\ cies'[top].lenc = loc.lenc
      BY <1>2, <2>2 DEF Kept, InfoType
    <2>4. loc.num = Cur.num
      BY <2>1, FinishedMeant DEF Finished
    <2>5. HasData(CurAug) =>
             \A i \in 2..Len(CurAug) : CurAug[i] = L => loc.lenc = LsdaEnc(sect, Cur, i)
      <3>1. Len(CurAug) \in Nat /\ (HasData(CurAug) => ai = Len(CurAug) + 1)
        BY <1>1, CurFacts, AtInstructions
      <3>2. HasData(CurAug) => \A i \in 2..Len(CurAug) : i < ai
        BY <3>1
      <3> QED
        BY <1>1, <1>2, <2>1, <3>2 DEF OnCie
    <2> QED
      BY <1>1, <1>2, <1>4, <1>8, <1>11, <2>1, <2>2, <2>3, <2>4, <2>5 DEF CieSeen
  <1>12. CiesSeen'
    BY <1>2, <1>3, <1>4, <1>5, <1>10, <1>11 DEF CiesSeen
  <1> QED
    BY <1>6, <1>7, <1>12 DEF Follows

-----------------------------------------------------------------------------
(* Nothing that is laid out is rejected.                                     *)

LEMMA ReadsFixed ==
    ASSUME IInv, Meant # Nil, Follows, CannotReadFixed
    PROVE  FALSE
  <1>1. ASSUME pc = "entry", off < Size PROVE ReadAt(off, 8)
    BY <1>1, AtEntry
  <1>2. ASSUME pc = "id" PROVE ReadAt(off, 4) /\ (Word(off) # 0 => CieTop(off) \in DOMAIN cies)
    <2>1. CieSeen(CieOf(Len(table) + 1)) => CurCie.rows[1].at \in DOMAIN cies
      BY DEF CieSeen, CurCie
    <2> QED
      BY <1>2, <2>1, AtMeantId
  <1>3. ASSUME pc = "version" PROVE ReadAt(off, 1)
    <2>1. IsCie /\ Here = 3 /\ IsCieItem(sect, Cur) /\ pc \in Reading
      BY <1>3, FieldFacts DEF OnField, OnCie, OnlyCie, Fields
    <2>2. IsFixed(NextRow, "Version", 1)
      BY <2>1 DEF IsCieItem, NextRow
    <2> QED
      BY <2>1, <2>2, ReadsBytes DEF IsFixed
  <1>4. ASSUME pc = "aug" PROVE AugEnds(off) # {}
    <2>1. IsCie /\ Here = 4 /\ IsCieItem(sect, Cur) /\ pc \in Reading
      BY <1>4, FieldFacts DEF OnField, OnCie, OnlyCie, Fields
    <2>2. IsString(sect, NextRow, "Augumentation_String")
      BY <2>1 DEF IsCieItem, NextRow
    <2> QED
      BY <2>1, <2>2, ReadsString
  <1>5. ASSUME pc = "ehdata" PROVE ReadAt(off, sect.ptr)
    <2>1. /\ IsCie /\ Here = 5 /\ CurAug = eh /\ IsCieItem(sect, Cur) /\ pc \in Reading
          /\ CurAug = AugOf(sect, Cur)
      BY <1>5, FieldFacts DEF OnField, OnCie, OnlyCie, Fields
    <2>2. IsFixed(NextRow, "EH_Data", sect.ptr)
      BY <2>1 DEF IsCieItem, NextRow
    <2>3. sect.ptr # 0
      BY SectionFacts DEF IInv
    <2> QED
      BY <2>1, <2>2, <2>3, ReadsBytes DEF IsFixed
  <1>6. ASSUME AtChar(P) \/ AtChar(R) \/ AtChar(L), IsCie PROVE ReadAt(off, 1)
    <2>1. pc = "augdata" /\ ai <= Len(loc.aug) /\ loc.aug[ai] \in {P, R, L}
      BY <1>6 DEF AtChar
    <2>2. /\ pc \in Reading /\ Here = DataHere(ai) /\ IsCieData(sect, Cur, ai)
          /\ CurAug = AugOf(sect, Cur) /\ DataHere(ai) = DataAt("CIE", AugOf(sect, Cur), ai)
          /\ CurAug[ai] \in {P, R, L}
      BY <1>6, <2>1, CharFacts DEF OnField
    <2>3. \E name : IsFixed(NextRow, name, 1)
      BY <2>2 DEF IsCieData, NextRow
    <2> QED
      BY <2>2, <2>3, ReadsBytes DEF IsFixed
  <1>7. ASSUME pc = "augdata", ai <= Len(loc.aug) PROVE loc.aug[ai] \in {P, R, L}
    BY <1>7, CharFacts
  <1>8. ASSUME pc = "augdata", ai > Len(loc.aug) PROVE ~CannotTakeRest
    BY <1>8, AtAugEnd DEF CannotTakeRest
  <1>9. ASSUME pc = "insts" PROVE off <= end /\ ReadAt(off, end - off)
    BY <1>9, AtInstructions
  <1>10. pc = "insts" => off \in Nat /\ end \in Nat
    BY DEF IInv, Typed
  <1> QED
    BY <1>1, <1>2, <1>3, <1>4, <1>5, <1>6, <1>7, <1>8, <1>9, <1>10 DEF CannotReadFixed

LEMMA ReadsNumbers ==
    ASSUME IInv, Meant # Nil, Follows, CannotReadNumber
    PROVE  FALSE
  <1>1. ASSUME pc \in {"caf", "daf"} PROVE LebWidth(off) # 0
    <2>1. /\ IsCie /\ Here \in {CafAt(CurAug), CafAt(CurAug) + 1} /\ IsCieItem(sect, Cur)
          /\ pc \in Reading /\ CurAug = AugOf(sect, Cur)
      BY <1>1, FieldFacts DEF OnField, OnCie, OnlyCie, Fields
    <2>2. IsLeb(NextRow.bytes)
      BY <2>1 DEF IsCieItem, NextRow, IsNumber
    <2> QED
      BY <2>1, <2>2, ReadsLeb
  <1>2. ASSUME pc = "auglen" PROVE LebWidth(off) # 0
    <2>1. HasData(CurAug) /\ Here = Fixed + 1 /\ pc \in Reading /\ IsTail(sect, Cur, CurAug)
      BY <1>2, FieldFacts, CurFacts DEF OnField, Fields
    <2>2. IsLeb(NextRow.bytes)
      BY <2>1 DEF IsTail, NextRow, Fixed, IsLebOf
    <2> QED
      BY <2>1, <2>2, ReadsLeb
  <1>3. ASSUME pc = "rar" PROVE RarWidth # 0
    <2>1. /\ IsCie /\ Here = CafAt(CurAug) + 2 /\ IsCieItem(sect, Cur) /\ pc \in Reading
          /\ CurAug = AugOf(sect, Cur) /\ loc.version = Cur.rows[3].bytes[1]
      BY <1>3, FieldFacts DEF OnField, OnCie, OnlyCie, Fields
    <2>2. CASE loc.version = 1
      <3>1. IsFixed(NextRow, "Return_Address_Register", 1)
        BY <2>1, <2>2 DEF IsCieItem, NextRow
      <3> QED
        BY <2>1, <2>2, <3>1, ReadsBytes DEF IsFixed, RarWidth
    <2>3. CASE loc.version # 1
      <3>1. IsLeb(NextRow.bytes)
        BY <2>1, <2>3 DEF IsCieItem, NextRow, IsNumber
      <3> QED
        BY <2>1, <2>3, <3>1, ReadsLeb DEF RarWidth
    <2> QED
      BY <2>2, <2>3
  <1>4. ASSUME pc \in {"pcbegin", "pcrange"} PROVE PointerWidth(off, loc.fenc) # Nil
    <2>1. ~IsCie /\ Here \in {3, 4} /\ IsFdeItem(sect, Cur, CurCie) /\ pc \in Reading /\ loc.fenc = 0
      BY <1>4, FieldFacts DEF OnField, OnCie, Fields
    <2>2. \E name : IsFixed(NextRow, name, sect.ptr)
      BY <2>1 DEF IsFdeItem, NextRow
    <2>3. \E name : IsPointer(sect, NextRow, name, loc.fenc)
      BY <2>1, <2>2 DEF IsFixed, IsPointer
    <2> QED
      BY <2>1, <2>3, ReadsPointer
  <1>5. ASSUME pc = "personality" PROVE PointerWidth(off, loc.penc) # Nil
    <2>1. IsCie /\ ai <= Len(loc.aug)
      BY <1>5, FieldFacts DEF OnCie, OnlyCie, OnField, Fields
    <2>2. /\ pc \in Reading /\ Here = DataHere(ai) + 1 /\ IsCieData(sect, Cur, ai) /\ CurAug[ai] = P
          /\ CurAug = AugOf(sect, Cur) /\ DataHere(ai) = DataAt("CIE", AugOf(sect, Cur), ai)
          /\ loc.penc = Cur.rows[DataHere(ai)].bytes[1]
      BY <1>5, <2>1, CharFacts DEF OnField
    <2>3. IsPointer(sect, NextRow, "Data_Personlity_Pointer", loc.penc)
      BY <2>2 DEF IsCieData, NextRow
    <2> QED
      BY <2>2, <2>3, ReadsPointer
  <1>6. ASSUME AtChar(L), ~IsCie PROVE PointerWidth(off, loc.lenc) # Nil
    <2>1. pc = "augdata" /\ ai <= Len(loc.aug) /\ loc.aug[ai] = L
      BY <1>6 DEF AtChar
    <2>2. /\ pc \in Fields /\ pc \in Reading /\ Here = DataHere(ai) /\ IsFdeData(sect, Cur, CurCie, ai)
          /\ CurAug = AugOf(sect, CurCie) /\ DataHere(ai) = DataAt("FDE", AugOf(sect, CurCie), ai)
          /\ CurAug[ai] = L /\ ai \in 2..Len(CurAug) /\ HasData(CurAug) /\ OnCie
      BY <1>6, <2>1, CharFacts DEF OnField
    <2>3. loc.lenc = LsdaEnc(sect, CurCie, ai)
      BY <1>6, <2>2 DEF OnCie
    <2>4. IsPointer(sect, NextRow, "Data_LSDA_Pointer", loc.lenc)
      BY <2>2, <2>3 DEF IsFdeData, NextRow
    <2> QED
      BY <2>2, <2>4, ReadsPointer
  <1> QED
    BY <1>1, <1>2, <1>3, <1>4, <1>5, <1>6 DEF CannotReadNumber

LEMMA FollowsFinish ==
    ASSUME IInv, Meant # Nil, Follows, Finish
    PROVE  Follows'
  <1>1. /\ pc = "entry" /\ off >= Size /\ pc' = "done"
        /\ UNCHANGED <<sect, top, off, end, item, cie, loc, ai, augend, cies, table>>
        /\ pc' \notin Reading /\ pc' \notin Fields
    BY DEF Finish, Goto, Reading, Fields
  <1>2. Len(table) = Len(Meant)
    <2>1. /\ Len(table) \in Nat /\ Len(Meant) \in Nat /\ Len(table) <= Len(Meant)
          /\ Len(table) < Len(Meant) => off < Size
          /\ off \in Nat /\ Size \in Nat
      BY <1>1, AtEntry DEF ReadAt
    <2> QED
      BY <1>1, <2>1
  <1>3. OnTable'
    BY <1>1, <1>2, SameMeant DEF Follows, OnTable
  <1>4. OnItem' /\ OnField' /\ OnCie' /\ CiesSeen'
    BY <1>1 DEF OnItem, OnField, OnCie, CiesSeen
  <1> QED
    BY <1>3, <1>4 DEF Follows

-----------------------------------------------------------------------------

LEMMA FollowsInit == Init /\ Meant # Nil => Follows
  <1> SUFFICES ASSUME Init, Meant # Nil PROVE Follows
    OBVIOUS
  <1>1. /\ pc = "entry" /\ table = <<>> /\ pc \notin Reading /\ pc \notin Fields
    BY DEF Init, Reading, Fields
  <1>2. Len(table) = 0 /\ Len(Meant) \in Nat
    <2>1. Typed
      BY InitInv DEF IInv
    <2> QED
      BY <1>1, <2>1, MeantFacts
  <1>3. OnTable /\ OnItem /\ OnField /\ OnCie /\ CiesSeen
    BY <1>1, <1>2 DEF OnTable, OnItem, OnField, OnCie, CiesSeen
  <1> QED
    BY <1>3 DEF Follows

LEMMA FollowsStep == IInv /\ (Meant # Nil => Follows) /\ [Next]_vars => (Meant # Nil => Follows)'
  <1> SUFFICES ASSUME IInv, Meant # Nil => Follows, [Next]_vars, (Meant # Nil)' PROVE Follows'
    OBVIOUS
  <1>1. sect' = sect
    BY DEF vars, Next, Length, CieId, CiePointer, Version, Augmentation, EhData, CodeAlignment,
           DataAlignment, ReturnAddressRegister, PcBegin, PcRange, AugmentationLength,
           PersonalityEncoding, PersonalityPointer, FdeEncoding, LsdaEncoding, LsdaPointer,
           SkipChar, UnknownChar, AugmentationEnd, Instructions, Finish, Reject
  <1>2. Meant # Nil /\ Follows
    BY <1>1 DEF Meant
  <1>3. CASE UNCHANGED vars
    <2>1. UNCHANGED <<sect, pc, top, off, end, item, cie, loc, ai, augend, cies, table>>
      BY <1>3 DEF vars
    <2>2. Here' = Here /\ (\A c : CieSeen(c)' <=> CieSeen(c))
      BY <2>1, SameMeant DEF Here, CieSeen
    <2>3. OnTable' /\ OnItem' /\ CiesSeen'
      BY <1>2, <2>1, <2>2, SameMeant DEF Follows, OnTable, OnItem, CiesSeen
    <2>4. OnField'
      <3>1. OnField
        BY <1>2 DEF Follows
      <3>2. DataHere(ai)' = DataHere(ai)
        BY <2>1, SameMeant DEF DataHere
      <3> QED
        BY <2>1, <2>2, <3>1, <3>2, SameMeant DEF OnField
    <2>5. OnCie'
      BY <1>2, <2>1, SameMeant DEF Follows, OnCie, IsCie
    <2> QED
      BY <2>3, <2>4, <2>5 DEF Follows
  <1>4. CASE UnknownChar
    BY <1>2, <1>4, CharFacts DEF UnknownChar
  <1>5. CASE Reject
    BY <1>2, <1>5, ReadsFixed, ReadsNumbers DEF Reject, CannotRead
  <1>6. CASE Length \/ CieId \/ CiePointer
    BY <1>2, <1>6, FollowsLength, FollowsId
  <1>7. CASE Version \/ Augmentation \/ EhData \/ CodeAlignment \/ DataAlignment \/ ReturnAddressRegister
    BY <1>2, <1>7, FollowsVersion, FollowsAugmentation, FollowsAlignments, FollowsRegister
  <1>8. CASE PcBegin \/ PcRange \/ AugmentationLength \/ PersonalityEncoding \/ PersonalityPointer
    BY <1>2, <1>8, FollowsPcs, FollowsAugLength, FollowsPersonality
  <1>9. CASE FdeEncoding \/ LsdaEncoding \/ LsdaPointer \/ SkipChar \/ AugmentationEnd
    BY <1>2, <1>9, FollowsEncodings, FollowsFdeData, FollowsAugEnd
  <1>10. CASE Instructions \/ Finish
    BY <1>2, <1>10, FollowsInstructions, FollowsFinish
  <1> QED
    BY <1>3, <1>4, <1>5, <1>6, <1>7, <1>8, <1>9, <1>10 DEF Next

\* A section in which a table is laid out is never rejected, and the parser shows exactly
\* that table.
THEOREM ReadBackAsLaidOut == Spec => []RoundTrip
  <1>1. IInv /\ (Meant # Nil => Follows) => RoundTrip
    <2> SUFFICES ASSUME IInv, Follows, Meant # Nil
                 PROVE  pc \notin {"nil", "panic"} /\ (pc = "done" => table = Meant)
      BY DEF RoundTrip, Meant
    <2>1. OnTable
      BY DEF Follows
    <2>2. ASSUME pc = "done" PROVE table = Meant
      <3>1. Typed /\ table \in Seq(ItemType)
        BY DEF IInv, Typed
      <3>2. Meant \in Seq(ItemType)
        BY <3>1, MeantFacts
      <3>3. Len(table) = Len(Meant) /\ \A k \in 1..Len(table) : table[k] = Meant[k]
        BY <2>1, <2>2 DEF OnTable
      <3> QED
        BY <3>1, <3>2, <3>3, SeqEqual
    <2> QED
      BY <2>1, <2>2 DEF OnTable
  <1>2. Init => (Meant # Nil => Follows)
    BY FollowsInit
  <1>3. Spec => [](IInv /\ (Meant # Nil => Follows))
    BY <1>2, InitInv, StepInv, FollowsStep, PTL DEF Spec
  <1> QED
    BY <1>1, <1>3, PTL

=================================================================================
