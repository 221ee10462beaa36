--------------------------- MODULE IndexReadersProofs ---------------------------
(***************************************************************************)
(* Proofs about the two components that read the index once it is built.   *)
(*                                                                         *)
(* Part 1, DataRows, for every set of files, kind of file and width of     *)
(* addresses: views leave the index alone; a finished table shows every    *)
(* byte of the section or symbol once, and each relocation where it        *)
(* belongs; and what a panic can only come from.                           *)
(*                                                                         *)
(* Part 2, Anchors, for every set of files, relocations and field values   *)
(* and every size of a byte: a computed target is the address that the     *)
(* relocation means; its links lead to it; a click opens the symbol or the *)
(* section with it; and which links and which tables are fatal.            *)
(*                                                                         *)
(* Each part cites the assumptions of its own component only, and those of *)
(* SymbolIndex.                                                            *)
(***************************************************************************)
EXTENDS DataRows, Anchors, SymbolIndexProofs

-----------------------------------------------------------------------------
(* Part 1: the rows of a table.                                              *)

\* uint64 sums and differences wrap around at most once.
LEMMA OneWrap ==
    ASSUME NEW a \in Addr, NEW b \in Addr
    PROVE  /\ Plus(a, b) = IF a + b < W THEN a + b ELSE a + b - W
           /\ Minus(a, b) = IF b <= a THEN a - b ELSE a - b + W
  <1>1. a + b >= W => (a + b) % W = a + b - W
    BY WAssumption DEF Addr
  <1>2. b > a => (a - b) % W = a - b + W
    BY WAssumption DEF Addr
  <1>3. a \in Int /\ b \in Int
    BY AddrInt
  <1> QED
    BY <1>1, <1>2, <1>3, ArithExact, WAssumption DEF Plus, Minus

\* Offsets from an address are exact, whether or not they wrap around.
LEMMA Offsets ==
    ASSUME NEW a \in Addr, NEW x \in Nat, NEW y \in Nat, x + y < W
    PROVE  /\ Plus(a, 0) = a
           /\ Plus(a, x) \in Addr
           /\ Minus(Plus(a, x), a) = x
           /\ Plus(Plus(a, x), y) = Plus(a, x + y)
  <1>1. x \in Addr /\ y \in Addr /\ x + y \in Addr /\ 0 \in Addr
    BY WAssumption DEF Addr
  <1>2. Plus(a, x) \in Addr
    BY <1>1, ArithInAddr
  <1>3. Plus(a, x) = (IF a + x < W THEN a + x ELSE a + x - W)
    BY <1>1, OneWrap
  <1>4. Plus(a, 0) = a
    BY <1>1, OneWrap, WAssumption DEF Addr
  <1>5. Minus(Plus(a, x), a) = x
    <2>1. Minus(Plus(a, x), a) = (IF a <= Plus(a, x) THEN Plus(a, x) - a ELSE Plus(a, x) - a + W)
      BY <1>2, OneWrap
    <2> QED
      BY <1>1, <1>3, <2>1, WAssumption DEF Addr
  <1>6. Plus(Plus(a, x), y) = Plus(a, x + y)
    <2>1. Plus(Plus(a, x), y) = (IF Plus(a, x) + y < W THEN Plus(a, x) + y ELSE Plus(a, x) + y - W)
      BY <1>1, <1>2, OneWrap
    <2>2. Plus(a, x + y) = (IF a + (x + y) < W THEN a + (x + y) ELSE a + (x + y) - W)
      BY <1>1, OneWrap
    <2> QED
      BY <1>1, <1>3, <2>1, <2>2, WAssumption DEF Addr
  <1> QED
    BY <1>2, <1>4, <1>5, <1>6

-----------------------------------------------------------------------------
(* What is known of a view while it is made.                                 *)

\* A view is of a section of the file or of one of the symbols in sections.
Opened ==
    state # "none" =>
        /\ pc = "ready"
        /\ view.typ \in Types
        /\ view.sym = Nil => view.sect \in 1..Len(file.sects)
        /\ view.sym # Nil => view.sym \in Sectional(file)
        /\ Base \in Addr /\ Extent \in Addr
        /\ view.sym # Nil => Indexed(Base)

\* How many bytes the rows have so far.
Past == Extent - left

\* The bytes behind the last row, when there are any, are the end of the view.
Ahead ==
    \/ rows = {} /\ left \in {0, Extent} /\ addr = Base
    \/ rows # {} /\ left \in 0..Extent /\ addr = Plus(Base, Past)

OnlyRowAt(row, b) == {r \in rows : HasByte(r, b)} = {row}

\* The rows share out the bytes before it.
Behind ==
    /\ \A row \in rows :
         /\ row.addr \in Addr /\ row.size \in Addr /\ row.size # 0
         /\ Minus(row.addr, Base) + row.size <= Past
    /\ rows # {} => \A b \in Nat : b < Past => \E row \in rows : OnlyRowAt(row, b)

\* An entry that is in use is one of the index.
InUse(key) == key = Nil \/ (key \in Addr /\ Indexed(key))

\* Each row shows the relocations of its entry that lie in it.
RowsMade ==
    /\ InUse(info)
    /\ \A row \in rows : InUse(row.entry) /\ row.relocs = RowRelocs(row.entry, row.addr, row.size)

\* A symbol's view has the symbol's entry all along ...
EntryOfSymbol ==
    view.sym # Nil => info = Base /\ \A row \in rows : row.entry = Base

\* ... and a section's the last one whose address was that of a row.
LastBefore(key, a) ==
    /\ key # Nil => key <= a
    /\ \A row \in rows : row.addr <= a /\ Indexed(row.addr) => key # Nil /\ row.addr <= key

EntriesOfSection ==
    view.sym = Nil /\ WellFormed(file) =>
        /\ LastBefore(info, addr)
        /\ \A row \in rows : LastBefore(row.entry, row.addr)

\* Instructions of four bytes each.
RowsOfArm ==
    file \in Arm64 /\ view.typ = "Code" /\ rows # {} => Past % 4 = 0

\* The entry a section's view has in use is one of its own bytes.
Served == view.sym = Nil /\ info # Nil => Minus(info, Base) < Extent

RowsInv ==
    state \in {"rows", "table"} =>
        /\ Ahead
        /\ Behind
        /\ RowsMade
        /\ Served
        /\ EntryOfSymbol
        /\ EntriesOfSection
        /\ RowsOfArm
        /\ state = "table" => left = 0

IndexInv == IInv /\ Contents /\ AttachedExist

TableInv == IndexInv /\ Opened /\ RowsInv

\* A view's step is one of the index, or none.
LEMMA ViewSteps == [ViewNext]_viewVars => [Next]_vars
  BY DEF ViewNext, viewVars, Next, OpenSection, OpenSymbol, Loop, AddRow, RowPanics, Done

\* The value functions return sizes that are numbers, and never stop the loop from moving on.
LEMMA SizePositive ==
    ASSUME NEW typ \in Types, NEW n \in Nat, n # 0, NEW size \in RowSizes(typ, n)
    PROVE  /\ size \in Nat /\ size # 0
           /\ size <= n \/ (typ = "Code" /\ file \in Arm64)
           /\ typ = "Code" /\ file \in Arm64 => size = 4
  <1>1. \A m \in Nat \ {0} : SmallerOf(m, n) \in 1..n
    BY DEF SmallerOf
  <1>2. CASE typ = "Code"
    <2>1. RowSizes(typ, n) = IF file \in Arm64 THEN {4} ELSE 1..n
      BY <1>2 DEF RowSizes
    <2> QED
      BY <1>2, <2>1
  <1>3. CASE typ \in {"CString", "DwarfType"}
    <2>1. RowSizes(typ, n) \subseteq 1..n
      BY <1>3 DEF RowSizes
    <2> QED
      BY <1>3, <2>1
  <1>4. CASE typ \in {"Float32", "Float64", "Float128", "Pointer32", "Data", "ZeroFill"}
    <2>1. RowSizes(typ, n) \in {{SmallerOf(4, n)}, {SmallerOf(8, n)}, {SmallerOf(16, n)}}
      BY <1>4 DEF RowSizes
    <2>2. RowSizes(typ, n) \subseteq 1..n
      BY <1>1, <2>1
    <2> QED
      BY <1>4, <2>2
  <1> QED
    BY <1>2, <1>3, <1>4 DEF Types

\* A step that leaves the index and the view alone keeps what they say.
LEMMA SameView ==
    ASSUME UNCHANGED vars, view' = view
    PROVE  /\ Base' = Base /\ Extent' = Extent /\ pc' = pc /\ file' = file
           /\ (WellFormed(file) <=> WellFormed(file)')
           /\ \A v : Indexed(v)' <=> Indexed(v)
           /\ \A key : InUse(key)' <=> InUse(key)
           /\ \A key, a, n : RowRelocs(key, a, n)' = RowRelocs(key, a, n)
           /\ \A row, b : HasByte(row, b)' <=> HasByte(row, b)
           /\ (Opened /\ state # "none" => Opened')
  <1>1. Base' = Base /\ Extent' = Extent /\ pc' = pc /\ file' = file /\ infos' = infos
    BY DEF vars, Base, Extent, BaseOf, ExtentOf
  <1>2. \A v : Indexed(v)' <=> Indexed(v)
    BY <1>1 DEF Indexed
  <1>3. \A key, a, n : RowRelocs(key, a, n)' = RowRelocs(key, a, n)
    BY <1>1 DEF RowRelocs, Within, FromOf, RelocOf, RelocAddr
  <1>4. \A row, b : HasByte(row, b)' <=> HasByte(row, b)
    BY <1>1 DEF HasByte
  <1>5. WellFormed(file) <=> WellFormed(file)'
    BY <1>1
  <1>6. Opened /\ state # "none" => Opened'
    BY <1>1, <1>2 DEF Opened, Sectional
  <1> QED
    BY <1>1, <1>2, <1>3, <1>4, <1>5, <1>6 DEF InUse

\* The bytes of a symbol are those of its entry, which is indexed.
LEMMA SymNumbers ==
    ASSUME IInv, Contents, pc = "ready", NEW n \in Sectional(file)
    PROVE  /\ n \in Nat /\ n # Nil
           /\ file.syms[n].value \in Addr
           /\ Indexed(file.syms[n].value)
           /\ infos[file.syms[n].value].size \in Addr
  <1>1. PICK k \in 1..Len(ssyms) : ssyms[k] = n /\ Val(k) = file.syms[n].value
    BY PlaceOfSymbol
  <1>2. Indexed(Val(k))
    BY <1>1 DEF IInv, IndexedSoFar
  <1>3. Val(k) \in Addr /\ n \in Nat
    BY <1>1, SymFacts, FileFacts DEF IInv, TypeOK
  <1>4. infos[Val(k)] \in InfoType
    BY <1>2, <1>3 DEF IInv, TypeOK, Indexed
  <1>5. infos[Val(k)].size \in Addr
    BY <1>4 DEF InfoType
  <1> QED
    BY <1>1, <1>2, <1>3, <1>5, ViewAssumption

\* The index's own steps.
LEMMA IndexKept == IndexInv /\ [Next]_vars => IndexInv'
  BY StepInv, ContentsStep, AttachedExistStep DEF IndexInv

-----------------------------------------------------------------------------
(* Each step of a view.                                                      *)

\* A table starts with all the bytes of the view ahead of it, or with none.
LEMMA NoRows ==
    ASSUME addr' = Base', rows' = {}, left' \in {0, Extent'},
           InUse(info)', view'.sym # Nil => info' = Base', view'.sym = Nil => info' = Nil,
           state' # "table"
    PROVE  RowsInv'
  BY DEF RowsInv, Ahead, Behind, RowsMade, Served, EntryOfSymbol, EntriesOfSection, LastBefore, RowsOfArm

\* newSectionModel
LEMMA OpenSectionKeeps ==
    ASSUME TableInv, NEW n \in 1..Len(file.sects), NEW typ \in Types, OpenSection(n, typ)
    PROVE  Opened' /\ RowsInv'
  <1>1. PICK len \in {0, file.sects[n].size} :
          Start(SectView(n, typ), file.sects[n].addr, len, Nil)
    BY DEF OpenSection
  <1>2. /\ view' = [sect |-> n, sym |-> Nil, typ |-> typ] /\ info' = Nil
        /\ rows' = {} /\ addr' = file.sects[n].addr /\ left' = len
        /\ UNCHANGED vars /\ pc = "ready" /\ state' \in {"nil", "rows"}
    BY <1>1 DEF Start, OpenSection, NoModel, MayOpen, SectView
  <1>3. file' = file /\ infos' = infos /\ pc' = pc
    BY <1>2 DEF vars
  <1>4. Base' = file.sects[n].addr /\ Extent' = file.sects[n].size
    BY <1>2, <1>3 DEF Base, Extent, BaseOf, ExtentOf
  <1>5. Base' \in Addr /\ Extent' \in Addr
    BY <1>4, SectFacts DEF TableInv, IndexInv, IInv
  <1>6. RowsInv'
    BY <1>2, <1>4, <1>5, NoRows DEF InUse
  <1>7. Opened'
    BY <1>2, <1>3, <1>5 DEF Opened
  <1> QED
    BY <1>6, <1>7

\* newSymbolModel
LEMMA OpenSymbolKeeps ==
    ASSUME TableInv, NEW n \in Sectional(file), NEW typ \in Types, OpenSymbol(n, typ)
    PROVE  Opened' /\ RowsInv'
  <1> DEFINE v == file.syms[n].value
             bytes == SymbolBytes(n)
             size == IF bytes = "rows" THEN infos[v].size ELSE 0
  <1>1. /\ view' = [sect |-> Nil, sym |-> n, typ |-> typ] /\ info' = v
        /\ rows' = {} /\ addr' = v /\ left' = size
        /\ UNCHANGED vars /\ pc = "ready" /\ (state' = "nil" \/ state' = bytes)
    BY DEF Start, OpenSymbol, NoModel, MayOpen, SymView
  <1>2. file' = file /\ infos' = infos /\ pc' = pc
    BY <1>1 DEF vars
  <1>3. n # Nil /\ v \in Addr /\ Indexed(v) /\ infos[v].size \in Addr
    BY <1>1, SymNumbers DEF TableInv, IndexInv
  <1>4. Base' = v /\ Extent' = infos[v].size
    BY <1>1, <1>2, <1>3 DEF Base, Extent, BaseOf, ExtentOf
  <1>5. Sectional(file)' = Sectional(file) /\ (Indexed(v)' <=> Indexed(v))
    BY <1>2 DEF Sectional, Indexed
  <1>6. bytes \in {"panic", "nil", "rows"}
    BY DEF SymbolBytes
  <1> HIDE DEF v, bytes
  <1>7. Opened'
    BY <1>1, <1>2, <1>3, <1>4, <1>5, <1>6 DEF Opened, Indexed
  <1>8. InUse(info)'
    BY <1>1, <1>2, <1>3 DEF InUse, Indexed
  <1> QED
    BY <1>1, <1>3, <1>4, <1>6, <1>7, <1>8, NoRows

\* The entry of the row at addr is one of the index.
LEMMA EntryInUse ==
    ASSUME InUse(info), addr \in Addr
    PROVE  InUse(Entry(addr))
  BY DEF InUse, Entry

\* The row takes its bytes from those ahead.
LEMMA RowBytes ==
    ASSUME TableInv, state = "rows", left # 0
    PROVE  /\ Base \in Addr /\ Extent \in Addr /\ Extent \in Nat /\ view.typ \in Types
           /\ left \in Nat /\ left <= Extent
           /\ addr = Plus(Base, Past) /\ addr \in Addr /\ Minus(addr, Base) = Past
           /\ Past \in Nat /\ Past < W
           /\ rows = {} => Past = 0
  <1>1. Base \in Addr /\ Extent \in Addr /\ view.typ \in Types /\ Ahead
    BY DEF TableInv, Opened, RowsInv
  <1>2. Extent \in Nat /\ Extent < W
    BY <1>1, WAssumption DEF Addr
  <1>3. left \in Nat /\ left <= Extent /\ (rows = {} => left = Extent)
    BY <1>1, <1>2 DEF Ahead
  <1>4. Past \in Nat /\ Past < W /\ (rows = {} => Past = 0)
    BY <1>2, <1>3, WAssumption DEF Past
  <1>5. Past + 0 < W
    BY <1>4
  <1>6. Plus(Base, 0) = Base /\ Plus(Base, Past) \in Addr /\ Minus(Plus(Base, Past), Base) = Past
    BY <1>1, <1>4, <1>5, Offsets
  <1>7. addr = Plus(Base, Past)
    BY <1>1, <1>4, <1>6 DEF Ahead
  <1> QED
    BY <1>1, <1>2, <1>3, <1>4, <1>6, <1>7

\* The new row lies behind the others, and shares out the bytes it takes.
LEMMA AddRowBytes ==
    ASSUME TableInv, AddRow, NEW new, rows' = rows \cup {new}, new.addr = addr,
           NEW size \in RowSizes(view.typ, left), new.size = size, Fits(size), Advance(size)
    PROVE  Ahead' /\ Behind' /\ RowsOfArm'
  <1>1. state = "rows" /\ view' = view /\ UNCHANGED vars /\ left # 0 /\ Behind /\ RowsOfArm
    BY DEF AddRow, TableInv, RowsInv
  <1>2. /\ Base \in Addr /\ Extent \in Nat /\ view.typ \in Types
        /\ left \in Nat /\ left <= Extent
        /\ addr = Plus(Base, Past) /\ addr \in Addr /\ Minus(addr, Base) = Past
        /\ Past \in Nat /\ Extent < W /\ (rows = {} => Past = 0)
    BY <1>1, RowBytes, WAssumption DEF Addr
  <1>3. /\ size \in Nat /\ size # 0 /\ size <= left /\ left' = left - size
        /\ addr' = Plus(addr, size)
        /\ view.typ = "Code" /\ file \in Arm64 => size = 4
    BY <1>1, <1>2, SizePositive DEF Fits, Advance
  <1>4. Base' = Base /\ Extent' = Extent /\ file' = file /\ \A row, b : HasByte(row, b)' <=> HasByte(row, b)
    BY <1>1, SameView
  <1>5. /\ Past' = Past + size /\ Past + size \in Nat /\ Past + size <= Extent
        /\ left' \in 0..Extent /\ size \in Addr
    BY <1>2, <1>3, <1>4, WAssumption DEF Past, Addr
  <1>6. Ahead'
    <2>1. addr' = Plus(Base, Past + size)
      BY <1>2, <1>3, <1>5, Offsets, WAssumption
    <2> QED
      BY <1>4, <1>5, <2>1 DEF Ahead
  <1>7. Behind'
    <2>1. \A row \in rows : /\ row.addr \in Addr /\ row.size \in Addr /\ row.size # 0
                            /\ Minus(row.addr, Base) + row.size <= Past
      BY <1>1 DEF Behind
    <2>2. \A row \in rows : Minus(row.addr, Base) \in Int /\ row.size \in Int
      BY <1>2, <2>1, ArithInAddr, AddrInt
    <2>3. \A row \in rows' : /\ row.addr \in Addr /\ row.size \in Addr /\ row.size # 0
                             /\ Minus(row.addr, Base) + row.size <= Past + size
      BY <1>2, <1>3, <1>5, <2>1, <2>2
    <2>4. ASSUME NEW b \in 0..(Past - 1)
          PROVE  \E row \in rows' : {r \in rows' : HasByte(r, b)} = {row}
      <3>1. rows # {} /\ ~HasByte(new, b)
        BY <1>2, <1>3 DEF HasByte
      <3>2. PICK row \in rows : {r \in rows : HasByte(r, b)} = {row}
        <4>1. b \in Nat /\ b < Past
          BY <1>2
        <4> QED
          BY <1>1, <3>1, <4>1 DEF Behind, OnlyRowAt
      <3>3. {r \in rows' : HasByte(r, b)} = {r \in rows : HasByte(r, b)}
        BY <3>1
      <3> QED
        BY <3>2, <3>3
    <2>5. ASSUME NEW b \in Past..(Past + size - 1)
          PROVE  \E row \in rows' : {r \in rows' : HasByte(r, b)} = {row}
      <3>1. HasByte(new, b)
        BY <1>2, <1>3 DEF HasByte
      <3>2. \A r \in rows : ~HasByte(r, b)
        BY <1>2, <1>3, <2>1, <2>2 DEF HasByte
      <3>3. {r \in rows' : HasByte(r, b)} = {new}
        BY <3>1, <3>2
      <3> QED
        BY <3>3
    <2>6. \A b \in 0..(Past + size - 1) : b \in 0..(Past - 1) \/ b \in Past..(Past + size - 1)
      BY <1>2, <1>3
    <2>7. \A b \in 0..(Past + size - 1) : \E row \in rows' : {r \in rows' : HasByte(r, b)} = {row}
      BY <2>4, <2>5, <2>6
    <2>8. ASSUME NEW b \in 0..(Past + size - 1) PROVE \E row \in rows' : OnlyRowAt(row, b)'
      <3>1. PICK row \in rows' : {r \in rows' : HasByte(r, b)} = {row}
        BY <2>7
      <3>2. {r \in rows' : HasByte(r, b)'} = {row}
        BY <1>4, <3>1
      <3> QED
        BY <3>2 DEF OnlyRowAt
    <2>9. ASSUME NEW b \in Nat, b < Past' PROVE \E row \in rows' : OnlyRowAt(row, b)'
      <3>1. b \in 0..(Past + size - 1)
        BY <1>2, <1>3, <1>5, <2>9
      <3> QED
        BY <2>8, <3>1
    <2>10. \A row \in rows' : /\ row.addr \in Addr /\ row.size \in Addr /\ row.size # 0
                              /\ Minus(row.addr, Base') + row.size <= Past'
      BY <1>4, <1>5, <2>3
    <2> QED
      BY <2>9, <2>10 DEF Behind
  <1>8. RowsOfArm'
    <2>1. ASSUME file \in Arm64, view.typ = "Code" PROVE (Past + size) % 4 = 0
      <3>1. size = 4 /\ Past % 4 = 0
        BY <1>1, <1>2, <1>3, <2>1 DEF RowsOfArm
      <3> QED
        BY <1>2, <3>1
    <2> QED
      BY <1>1, <1>4, <1>5, <2>1 DEF RowsOfArm
  <1> QED
    BY <1>6, <1>7, <1>8

\* In a well-formed file no address of a view wraps around.
LEMMA ViewInSpace ==
    ASSUME TableInv, state \in {"rows", "table"}, WellFormed(file)
    PROVE  Base \in Nat /\ Extent \in Nat /\ Base + Extent < W
  <1>1. /\ pc = "ready" /\ Base \in Addr /\ Extent \in Addr
        /\ view.sym = Nil => view.sect \in 1..Len(file.sects)
        /\ view.sym # Nil => Indexed(Base)
    BY DEF TableInv, Opened
  <1>2. CASE view.sym = Nil
    <2>1. Base = file.sects[view.sect].addr /\ Extent = file.sects[view.sect].size
      BY <1>2 DEF Base, Extent, BaseOf, ExtentOf
    <2>2. file.sects[view.sect].addr + file.sects[view.sect].size < W
      BY <1>1, <1>2 DEF WellFormed, SectEnd
    <2> QED
      BY <1>1, <2>1, <2>2, WAssumption DEF Addr
  <1>3. CASE view.sym # Nil
    <2>1. Extent = infos[Base].size
      BY <1>3 DEF Base, Extent, ExtentOf
    <2> QED
      BY <1>1, <1>3, <2>1, EntryInSpace DEF TableInv, IndexInv
  <1> QED
    BY <1>2, <1>3

\* ... so that the rows' addresses are in order.
LEMMA RowsInSpace ==
    ASSUME TableInv, state \in {"rows", "table"}, WellFormed(file), left \in 0..Extent
    PROVE  /\ Past \in Nat
           /\ \A row \in rows :
                /\ row.addr \in Nat /\ row.size \in Nat /\ row.size # 0
                /\ Base <= row.addr /\ Minus(row.addr, Base) = row.addr - Base
                /\ row.addr + row.size <= Base + Past
  <1>1. Base \in Nat /\ Extent \in Nat /\ Base + Extent < W /\ Base \in Addr
    BY ViewInSpace DEF TableInv, Opened
  <1>2. Behind
    BY DEF TableInv, RowsInv
  <1>3. Past \in Nat /\ Past <= Extent
    BY <1>1 DEF Past
  <1>4. ASSUME NEW row \in rows
        PROVE  /\ row.addr \in Nat /\ row.size \in Nat /\ row.size # 0
               /\ Base <= row.addr /\ Minus(row.addr, Base) = row.addr - Base
               /\ row.addr + row.size <= Base + Past
    <2>1. /\ row.addr \in Addr /\ row.size \in Addr /\ row.size # 0
          /\ Minus(row.addr, Base) + row.size <= Past
      BY <1>2 DEF Behind
    <2>2. Minus(row.addr, Base) = IF Base <= row.addr THEN row.addr - Base ELSE row.addr - Base + W
      BY <1>1, <2>1, OneWrap
    <2> QED
      BY <1>1, <1>3, <2>1, <2>2, WAssumption DEF Addr
  <1> QED
    BY <1>3, <1>4

\* ... and lies in the view.
LEMMA EntryServed ==
    ASSUME TableInv, state = "rows", left # 0, view.sym = Nil, Entry(addr) # Nil
    PROVE  Minus(Entry(addr), Base) < Extent
  <1>1. Minus(addr, Base) = Past /\ Extent \in Nat /\ left \in Nat /\ left <= Extent
    BY RowBytes
  <1>2. Minus(addr, Base) < Extent
    BY <1>1 DEF Past
  <1>3. Served
    BY DEF TableInv, RowsInv
  <1> QED
    BY <1>2, <1>3 DEF Served, Entry

\* The entry of a row is the one in use, which a section's row may have changed.
LEMMA AddRowEntries ==
    ASSUME TableInv, AddRow, NEW new, rows' = rows \cup {new}, new.addr = addr,
           NEW size \in RowSizes(view.typ, left), new.size = size, Fits(size), Advance(size),
           new.entry = Entry(addr), info' = Entry(addr),
           new.relocs = RowRelocs(Entry(addr), addr, size)
    PROVE  RowsMade' /\ Served' /\ EntryOfSymbol' /\ EntriesOfSection'
  <1>1. /\ state = "rows" /\ view' = view /\ UNCHANGED vars /\ left # 0
        /\ RowsMade /\ Served /\ EntryOfSymbol /\ EntriesOfSection
    BY DEF AddRow, TableInv, RowsInv
  <1>2. addr \in Addr /\ left \in Nat /\ left <= Extent /\ Extent \in Nat /\ view.typ \in Types
    BY <1>1, RowBytes
  <1>3. /\ Base' = Base /\ Extent' = Extent /\ file' = file
        /\ (WellFormed(file) <=> WellFormed(file)')
        /\ \A v : Indexed(v)' <=> Indexed(v)
        /\ \A key : InUse(key)' <=> InUse(key)
        /\ \A key, a, n : RowRelocs(key, a, n)' = RowRelocs(key, a, n)
    BY <1>1, SameView
  <1>4. RowsMade'
    <2>1. InUse(Entry(addr))
      BY <1>1, <1>2, EntryInUse DEF RowsMade
    <2>2. \A row \in rows' : InUse(row.entry) /\ row.relocs = RowRelocs(row.entry, row.addr, row.size)
      BY <1>1, <2>1 DEF RowsMade
    <2> QED
      BY <1>3, <2>1, <2>2 DEF RowsMade
  <1>5. EntryOfSymbol'
    <2>1. view.sym # Nil => Entry(addr) = Base
      BY <1>1 DEF Entry, EntryOfSymbol
    <2> QED
      BY <1>1, <1>3, <2>1 DEF EntryOfSymbol
  <1>6. EntriesOfSection'
    <2> SUFFICES ASSUME view.sym = Nil, WellFormed(file)
                 PROVE  LastBefore(info, addr)' /\ \A row \in rows' : LastBefore(row.entry, row.addr)'
      BY <1>1, <1>3 DEF EntriesOfSection
    <2> DEFINE key == Entry(addr)
    <2>1. LastBefore(info, addr) /\ \A row \in rows : LastBefore(row.entry, row.addr)
      BY <1>1 DEF EntriesOfSection
    <2>2. (Indexed(addr) => key = addr) /\ (~Indexed(addr) => key = info)
      BY DEF Entry
    <2>3. addr \in Nat /\ (key # Nil => key \in Nat) /\ (info # Nil => info \in Nat)
      BY <1>1, <1>2, EntryInUse, AddrInt DEF RowsMade, InUse
    <2>4. \A row \in rows : row.addr < addr /\ row.addr \in Nat
      <3>1. /\ Past \in Nat
            /\ \A row \in rows : /\ row.addr \in Nat /\ row.size \in Nat /\ row.size # 0
                                 /\ row.addr + row.size <= Base + Past
        BY <1>1, <1>2, RowsInSpace
      <3>2. addr = Plus(Base, Past) /\ Base \in Addr /\ Past <= Extent
        BY <1>1, <1>2, RowBytes DEF Past
      <3>3. addr = Base + Past /\ Base \in Nat
        <4>1. Base \in Nat /\ Base + Extent < W
          BY <1>1, ViewInSpace
        <4>2. Past \in Addr /\ Base + Past < W
          BY <1>2, <3>1, <3>2, <4>1, WAssumption DEF Addr
        <4> QED
          BY <3>2, <4>1, <4>2, ArithExact
      <3> QED
        BY <3>1, <3>3
    <2>5. addr < addr' /\ addr' \in Nat
      <3>1. size \in Nat /\ size # 0 /\ size <= left
        BY <1>1, <1>2, SizePositive DEF Fits
      <3>2. addr = Plus(Base, Past) /\ addr' = Plus(addr, size) /\ Base \in Addr /\ Past \in Nat
        BY <1>1, RowBytes DEF Advance
      <3>3. Base \in Nat /\ Base + Extent < W
        BY <1>1, ViewInSpace
      <3>4. Past \in Nat /\ Past + size <= Extent
        BY <1>2, <3>1, <3>2 DEF Past
      <3>5. Past \in Addr /\ Base + Past < W /\ Past + size \in Addr /\ Base + (Past + size) < W
        BY <1>2, <3>1, <3>3, <3>4, WAssumption DEF Addr
      <3>6. addr = Base + Past
        BY <3>2, <3>5, ArithExact
      <3>7. size \in Addr /\ addr + size < W
        BY <1>2, <3>1, <3>3, <3>4, <3>5, <3>6, WAssumption DEF Addr
      <3>8. addr' = addr + size
        BY <1>2, <3>2, <3>7, ArithExact
      <3> QED
        BY <2>3, <3>1, <3>8
    <2>6. /\ key # Nil => key <= addr
          /\ \A row \in rows' : row.addr <= addr /\ Indexed(row.addr) => key # Nil /\ row.addr <= key
      <3>1. key # Nil => key <= addr
        BY <2>1, <2>2, <2>3 DEF LastBefore
      <3>2. Indexed(addr) => key # Nil
        BY <2>2, <2>3, ViewAssumption
      <3>3. ASSUME NEW row \in rows, Indexed(row.addr) PROVE key # Nil /\ row.addr <= key
        <4>1. row.addr < addr /\ row.addr \in Nat /\ info # Nil /\ row.addr <= info
          BY <2>1, <2>3, <2>4, <3>3 DEF LastBefore
        <4> QED
          BY <2>2, <2>3, <3>2, <4>1
      <3>4. Indexed(addr) => key # Nil /\ addr <= key
        BY <2>2, <2>3, <3>2
      <3> HIDE DEF key
      <3> QED
        BY <3>1, <3>3, <3>4
    <2> HIDE DEF key
    <2>7. LastBefore(info, addr)'
      <3>1. key # Nil => key <= addr'
        BY <2>3, <2>5, <2>6
      <3>2. \A row \in rows' : Indexed(row.addr) => key # Nil /\ row.addr <= key
        <4>1. \A row \in rows' : row.addr <= addr
          BY <2>3, <2>4
        <4> QED
          BY <2>6, <4>1
      <3> QED
        BY <1>3, <3>1, <3>2 DEF LastBefore, key
    <2>8. ASSUME NEW row \in rows PROVE LastBefore(row.entry, row.addr)'
      <3>1. LastBefore(row.entry, row.addr) /\ ~(addr <= row.addr)
        BY <2>1, <2>3, <2>4
      <3> QED
        BY <1>3, <3>1 DEF LastBefore
    <2>9. LastBefore(new.entry, new.addr)'
      BY <1>3, <2>6 DEF LastBefore, key
    <2> QED
      BY <2>7, <2>8, <2>9
  <1>7. Served'
    <2>1. view.sym = Nil /\ Entry(addr) # Nil => Minus(Entry(addr), Base) < Extent
      BY <1>1, EntryServed
    <2> QED
      BY <1>1, <1>3, <2>1 DEF Served
  <1> QED
    BY <1>4, <1>5, <1>6, <1>7

\* One turn of the loop.
LEMMA AddRowKeeps == ASSUME TableInv, AddRow PROVE Opened' /\ RowsInv'
  <1>1. state = "rows" /\ state' = "rows" /\ view' = view /\ UNCHANGED vars
    BY DEF AddRow
  <1>2. PICK size \in RowSizes(view.typ, left) :
          /\ Fits(size) /\ Advance(size) /\ info' = Entry(addr)
          /\ rows' = rows \cup {[addr |-> addr, size |-> size, entry |-> Entry(addr),
                                 relocs |-> RowRelocs(Entry(addr), addr, size)]}
    BY DEF AddRow
  <1> DEFINE new == [addr |-> addr, size |-> size, entry |-> Entry(addr),
                     relocs |-> RowRelocs(Entry(addr), addr, size)]
  <1>3. /\ new.addr = addr /\ new.size = size /\ new.entry = Entry(addr)
        /\ new.relocs = RowRelocs(Entry(addr), addr, size) /\ rows' = rows \cup {new}
    BY <1>2
  <1> HIDE DEF new
  <1>4. Ahead' /\ Behind' /\ RowsOfArm'
    BY <1>2, <1>3, AddRowBytes
  <1>5. RowsMade' /\ Served' /\ EntryOfSymbol' /\ EntriesOfSection'
    BY <1>2, <1>3, AddRowEntries
  <1>6. Opened'
    BY <1>1, SameView DEF TableInv
  <1> QED
    BY <1>1, <1>4, <1>5, <1>6 DEF RowsInv

\* The loop is left; the rows stay.
LEMMA EndKeeps == ASSUME TableInv, RowPanics \/ Done PROVE Opened' /\ RowsInv'
  <1>1. /\ UNCHANGED <<view, rows, addr, left, info>> /\ UNCHANGED vars /\ state = "rows"
        /\ state' = "panic" \/ (state' = "table" /\ left = 0)
    BY DEF RowPanics, Done
  <1>2. /\ Base' = Base /\ Extent' = Extent /\ file' = file /\ Opened'
        /\ (WellFormed(file) <=> WellFormed(file)')
        /\ \A v : Indexed(v)' <=> Indexed(v)
        /\ \A key : InUse(key)' <=> InUse(key)
        /\ \A key, a, n : RowRelocs(key, a, n)' = RowRelocs(key, a, n)
        /\ \A row, b : HasByte(row, b)' <=> HasByte(row, b)
    BY <1>1, SameView DEF TableInv
  <1>3. CASE state' = "table"
    <2>1. Past' = Past
      BY <1>1, <1>2 DEF Past
    <2>2. \A row, b : OnlyRowAt(row, b)' <=> OnlyRowAt(row, b)
      BY <1>1, <1>2 DEF OnlyRowAt
    <2>3. Ahead' /\ Behind'
      BY <1>1, <1>2, <2>1, <2>2 DEF TableInv, RowsInv, Ahead, Behind
    <2>4. RowsMade' /\ Served' /\ EntryOfSymbol'
      BY <1>1, <1>2 DEF TableInv, RowsInv, RowsMade, Served, EntryOfSymbol
    <2>5. EntriesOfSection'
      <3>1. \A key, a : LastBefore(key, a)' <=> LastBefore(key, a)
        BY <1>1, <1>2 DEF LastBefore
      <3>2. EntriesOfSection
        BY <1>1 DEF TableInv, RowsInv
      <3> QED
        BY <1>1, <1>2, <3>1, <3>2 DEF EntriesOfSection
    <2>6. RowsOfArm'
      BY <1>1, <1>2, <2>1 DEF TableInv, RowsInv, RowsOfArm
    <2> QED
      BY <1>1, <1>2, <1>3, <2>3, <2>4, <2>5, <2>6 DEF RowsInv
  <1>4. CASE state' = "panic"
    BY <1>2, <1>4 DEF RowsInv
  <1> QED
    BY <1>1, <1>3, <1>4

\* The index is complete before a view is opened, and does not change any more.
LEMMA BuildKeeps == ASSUME TableInv, Build, UNCHANGED tableVars PROVE Opened' /\ RowsInv'
  <1>1. state' = state /\ pc # "ready"
    BY DEF tableVars, Build, SortSymbols, GroupRun, GroupAliasesOfLast, GroupLast, AttachReloc, AtReloc,
       SkipReloc, NextSection, Finish
  <1>2. state = "none"
    BY <1>1 DEF TableInv, Opened
  <1> QED
    BY <1>1, <1>2 DEF Opened, RowsInv

\* Nothing happens.
LEMMA StutterKeeps == ASSUME TableInv, UNCHANGED viewVars PROVE Opened' /\ RowsInv'
  <1>1. UNCHANGED <<view, state, rows, addr, left, info>> /\ UNCHANGED vars
    BY DEF viewVars, tableVars
  <1>2. /\ Base' = Base /\ Extent' = Extent /\ file' = file
        /\ (WellFormed(file) <=> WellFormed(file)')
        /\ \A v : Indexed(v)' <=> Indexed(v)
        /\ \A key : InUse(key)' <=> InUse(key)
        /\ \A key, a, n : RowRelocs(key, a, n)' = RowRelocs(key, a, n)
        /\ \A row, b : HasByte(row, b)' <=> HasByte(row, b)
        /\ (Opened /\ state # "none" => Opened')
    BY <1>1, SameView
  <1>3. Past' = Past
    BY <1>1, <1>2 DEF Past
  <1>4. \A row, b : OnlyRowAt(row, b)' <=> OnlyRowAt(row, b)
    BY <1>1, <1>2 DEF OnlyRowAt
  <1>5. \A key, a : LastBefore(key, a)' <=> LastBefore(key, a)
    BY <1>1, <1>2 DEF LastBefore
  <1>6. Opened'
    BY <1>1, <1>2 DEF TableInv, Opened
  <1>7. CASE state \in {"rows", "table"}
    <2>1. Ahead' /\ Behind'
      BY <1>1, <1>2, <1>3, <1>4, <1>7 DEF TableInv, RowsInv, Ahead, Behind
    <2>2. RowsMade' /\ Served' /\ EntryOfSymbol'
      BY <1>1, <1>2, <1>7 DEF TableInv, RowsInv, RowsMade, Served, EntryOfSymbol
    <2>3. EntriesOfSection'
      <3>1. EntriesOfSection
        BY <1>7 DEF TableInv, RowsInv
      <3> QED
        BY <1>1, <1>2, <1>5, <3>1 DEF EntriesOfSection
    <2>4. RowsOfArm' /\ (state' = "table" => left' = 0)
      BY <1>1, <1>2, <1>3, <1>7 DEF TableInv, RowsInv, RowsOfArm
    <2> QED
      BY <1>6, <2>1, <2>2, <2>3, <2>4 DEF RowsInv
  <1>8. CASE state \notin {"rows", "table"}
    BY <1>1, <1>6, <1>8 DEF RowsInv
  <1> QED
    BY <1>6, <1>7, <1>8

\* The invariant that what the tables show follows from.
THEOREM TableInvariant == ViewSpec => []TableInv
  <1>1. ViewInit => TableInv
    <2>1. Init => AttachedExist
      BY DEF Init, AttachedExist, Indexed
    <2> QED
      BY <2>1, InitInv, ContentsInit DEF ViewInit, TableInv, IndexInv, RowsInv, Opened
  <1>2. TableInv /\ [ViewNext]_viewVars => TableInv'
    <2> SUFFICES ASSUME TableInv, [ViewNext]_viewVars PROVE TableInv'
      OBVIOUS
    <2>1. IndexInv'
      BY ViewSteps, IndexKept DEF TableInv
    <2>2. Opened' /\ RowsInv'
      <3>1. CASE UNCHANGED viewVars
        BY <3>1, StutterKeeps
      <3>2. CASE Build /\ UNCHANGED tableVars
        BY <3>2, BuildKeeps
      <3>3. CASE \E n \in 1..Len(file.sects), typ \in Types : OpenSection(n, typ)
        BY <3>3, OpenSectionKeeps
      <3>4. CASE \E n \in Sectional(file), typ \in Types : OpenSymbol(n, typ)
        BY <3>4, OpenSymbolKeeps
      <3>5. CASE Loop
        BY <3>5, AddRowKeeps, EndKeeps DEF Loop
      <3> QED
        BY <3>1, <3>2, <3>3, <3>4, <3>5 DEF ViewNext
    <2> QED
      BY <2>1, <2>2 DEF TableInv
  <1> QED
    BY <1>1, <1>2, PTL DEF ViewSpec

-----------------------------------------------------------------------------
(* What follows from it.                                                     *)

\* A finished table shows each byte of its section or symbol once, and no other byte.
THEOREM TablesTile == ViewSpec => []RowsTile
  <1>1. TableInv => RowsTile
    <2> SUFFICES ASSUME TableInv, state = "table", rows # {}
                 PROVE  /\ \A row \in rows : Minus(row.addr, Base) + row.size <= Extent
                        /\ \A b \in 0..(Extent - 1) : \E row \in rows : OnlyRowAt(row, b)
      BY DEF RowsTile, OnlyRowAt
    <2>1. Behind /\ left = 0 /\ Extent \in Addr
      BY DEF TableInv, RowsInv, Opened
    <2>2. Extent \in Nat /\ Past = Extent
      BY <2>1, AddrInt DEF Past
    <2>3. \A b \in 0..(Extent - 1) : b \in Nat /\ b < Past
      BY <2>2
    <2> QED
      BY <2>1, <2>2, <2>3 DEF Behind
  <1> QED
    BY <1>1, TableInvariant, PTL

\* Views read the index and leave it alone: what is proved of NewFile holds with them.
THEOREM ViewsKeepIndex == ViewSpec => []EverySymbolIndexed
  <1>1. TableInv => EverySymbolIndexed
    BY DEF TableInv, IndexInv, IInv, IndexedSoFar, EverySymbolIndexed
  <1> QED
    BY <1>1, TableInvariant, PTL

-----------------------------------------------------------------------------
\* A row is made of an address, a size, an entry and the relocations in it.
LEMMA AddRowTypes == ASSUME TableInv, ViewTypeOK, AddRow PROVE ViewTypeOK'
  <1>1. PICK size \in RowSizes(view.typ, left) :
          /\ Fits(size) /\ Advance(size) /\ info' = Entry(addr)
          /\ rows' = rows \cup {[addr |-> addr, size |-> size, entry |-> Entry(addr),
                                 relocs |-> RowRelocs(Entry(addr), addr, size)]}
    BY DEF AddRow
  <1>2. /\ state = "rows" /\ left # 0 /\ state' = state /\ view' = view
        /\ addr \in Addr /\ left \in Addr /\ left \in Nat /\ info \in Addr \cup {Nil}
        /\ InUse(info) /\ view.typ \in Types
    BY AddrInt DEF AddRow, ViewTypeOK, TableInv, Opened, RowsInv, RowsMade
  <1>3. size \in Nat /\ size <= left
    BY <1>1, <1>2, SizePositive DEF Fits
  <1>4. size \in Addr /\ left' \in Addr /\ addr' \in Addr
    <2>1. size \in Addr /\ left - size \in Addr
      BY <1>2, <1>3, WAssumption DEF Addr
    <2> QED
      BY <1>1, <1>2, <2>1, ArithInAddr DEF Advance
  <1>5. InUse(Entry(addr))
    BY <1>2, EntryInUse
  <1>6. Entry(addr) \in Addr \cup {Nil}
    BY <1>5 DEF InUse
  <1>7. RowRelocs(Entry(addr), addr, size) \subseteq Nat
    BY DEF RowRelocs
  <1>8. rows' \subseteq [addr: Addr, size: Addr, entry: Addr \cup {Nil}, relocs: SUBSET Nat]
    BY <1>1, <1>2, <1>4, <1>6, <1>7 DEF ViewTypeOK
  <1> QED
    BY <1>1, <1>2, <1>4, <1>6, <1>8 DEF ViewTypeOK

\* A section's view starts with the numbers of the section ...
LEMMA OpenSectionTypes ==
    ASSUME TableInv, ViewTypeOK, NEW n \in 1..Len(file.sects), NEW typ \in Types, OpenSection(n, typ)
    PROVE  ViewTypeOK'
  <1>1. file.sects[n].addr \in Addr /\ file.sects[n].size \in Addr /\ n \in Nat
    <2>1. Len(file.sects) \in Nat
      BY FileFacts DEF TableInv, IndexInv, IInv, TypeOK
    <2> QED
      BY <2>1, SectFacts DEF TableInv, IndexInv, IInv
  <1>2. PICK len \in {0, file.sects[n].size} :
          Start(SectView(n, typ), file.sects[n].addr, len, Nil)
    BY DEF OpenSection
  <1>3. state' \in {"nil", "rows"} /\ len \in Addr
    BY <1>1, WAssumption DEF OpenSection, NoModel, Addr
  <1> QED
    BY <1>1, <1>2, <1>3 DEF Start, SectView, ViewTypeOK

\* ... and a symbol's with those of its entry.
LEMMA OpenSymbolTypes ==
    ASSUME TableInv, ViewTypeOK, NEW n \in Sectional(file), NEW typ \in Types, OpenSymbol(n, typ)
    PROVE  ViewTypeOK'
  <1> DEFINE v == file.syms[n].value
             bytes == SymbolBytes(n)
             size == IF bytes = "rows" THEN infos[v].size ELSE 0
  <1>1. /\ view' = [sect |-> Nil, sym |-> n, typ |-> typ]
        /\ rows' = {} /\ addr' = v /\ left' = size /\ info' = v
        /\ pc = "ready" /\ (state' = "nil" \/ state' = bytes)
    BY DEF Start, OpenSymbol, NoModel, MayOpen, SymView
  <1>2. n \in Nat /\ v \in Addr /\ infos[v].size \in Addr
    BY <1>1, SymNumbers DEF TableInv, IndexInv
  <1>3. bytes \in {"panic", "nil", "rows"} /\ size \in Addr
    BY <1>2, WAssumption DEF SymbolBytes, Addr
  <1> HIDE DEF v, bytes, size
  <1> QED
    BY <1>1, <1>2, <1>3 DEF ViewTypeOK

\* The row loops keep their types: no row is longer than the view.
THEOREM ViewTypeCorrect == ViewSpec => []ViewTypeOK
  <1>1. ViewInit => ViewTypeOK
    BY WAssumption DEF ViewInit, ViewTypeOK, Addr
  <1>2. TableInv /\ ViewTypeOK /\ [ViewNext]_viewVars => ViewTypeOK'
    <2> SUFFICES ASSUME TableInv, ViewTypeOK, [ViewNext]_viewVars PROVE ViewTypeOK'
      OBVIOUS
    <2>1. CASE UNCHANGED tableVars
      BY <2>1 DEF tableVars, ViewTypeOK
    <2>2. CASE RowPanics \/ Done
      BY <2>2 DEF RowPanics, Done, ViewTypeOK
    <2>3. CASE AddRow
      BY <2>3, AddRowTypes
    <2>4. CASE \E n \in 1..Len(file.sects), typ \in Types : OpenSection(n, typ)
      BY <2>4, OpenSectionTypes
    <2>5. CASE \E n \in Sectional(file), typ \in Types : OpenSymbol(n, typ)
      BY <2>5, OpenSymbolTypes
    <2> QED
      BY <2>1, <2>2, <2>3, <2>4, <2>5 DEF ViewNext, Loop, viewVars
  <1> QED
    BY <1>1, <1>2, TableInvariant, PTL DEF ViewSpec

-----------------------------------------------------------------------------
(* The relocations under the rows.                                           *)

From(s, r) == file.sects[s].addr + file.sects[s].relocs[r].addr
Width(s, r) == file.sects[s].relocs[r].width

\* Relocation r of section s lies in row.
InRow(s, r, row) == row.addr <= From(s, r) /\ From(s, r) + Width(s, r) <= row.addr + row.size

\* A finished table of a well-formed file.
Finished == TableInv /\ state = "table" /\ WellFormed(file)

\* The rows of a finished table lie in the view, and none overlaps another.
LEMMA FinishedRows ==
    ASSUME Finished
    PROVE  /\ Base \in Nat /\ Extent \in Nat /\ Base + Extent < W
           /\ \A row \in rows :
                /\ row.addr \in Addr /\ row.addr \in Nat /\ row.size \in Nat /\ row.size # 0
                /\ Base <= row.addr /\ row.addr + row.size <= Base + Extent
                /\ Plus(row.addr, row.size) = row.addr + row.size
           /\ \A one, two \in rows : \A x \in Nat :
                /\ one.addr <= x /\ x < one.addr + one.size
                /\ two.addr <= x /\ x < two.addr + two.size
                => one = two
  <1>1. Base \in Nat /\ Extent \in Nat /\ Base + Extent < W
    BY ViewInSpace DEF Finished
  <1>2. Behind /\ left = 0
    BY DEF Finished, TableInv, RowsInv
  <1>3. Past = Extent /\ left \in 0..Extent
    BY <1>1, <1>2 DEF Past
  <1>4. \A row \in rows :
          /\ row.addr \in Nat /\ row.size \in Nat /\ row.size # 0
          /\ Base <= row.addr /\ Minus(row.addr, Base) = row.addr - Base
          /\ row.addr + row.size <= Base + Extent
    BY <1>3, RowsInSpace DEF Finished
  <1>5. ASSUME NEW row \in rows
        PROVE  row.addr \in Addr /\ Plus(row.addr, row.size) = row.addr + row.size
    <2>1. row.addr \in Addr /\ row.size \in Addr
      BY <1>2 DEF Behind
    <2>2. row.addr + row.size < W
      BY <1>1, <1>4, WAssumption
    <2> QED
      BY <2>1, <2>2, ArithExact
  <1>6. ASSUME NEW one \in rows, NEW two \in rows, NEW x \in Nat,
               one.addr <= x, x < one.addr + one.size, two.addr <= x, x < two.addr + two.size
        PROVE  one = two
    <2>1. PICK b \in Nat : b = x - Base /\ b < Past
      BY <1>1, <1>3, <1>4, <1>6
    <2>2. HasByte(one, b) /\ HasByte(two, b)
      BY <1>1, <1>4, <1>6, <2>1 DEF HasByte
    <2>3. PICK row \in rows : OnlyRowAt(row, b)
      BY <1>2, <2>1 DEF Behind
    <2> QED
      BY <2>2, <2>3 DEF OnlyRowAt
  <1> QED
    BY <1>1, <1>4, <1>5, <1>6

\* Where a relocation of a well-formed file lies.
LEMMA PlaceOfReloc ==
    ASSUME Finished, NEW s \in 1..Len(file.sects), NEW r \in 1..Len(file.sects[s].relocs)
    PROVE  /\ From(s, r) \in Nat /\ Width(s, r) \in Nat /\ Width(s, r) # 0
           /\ file.sects[s].addr \in Nat /\ SectEnd(file, s) \in Nat
           /\ file.sects[s].addr <= From(s, r) /\ From(s, r) + Width(s, r) <= SectEnd(file, s)
           /\ \A row \in rows : Within(<<s, r>>, row.addr, row.size) <=> InRow(s, r, row)
  <1>1. TypeOK /\ WellFormed(file)
    BY DEF Finished, TableInv, IndexInv, IInv
  <1>2. /\ From(s, r) \in Nat /\ Width(s, r) \in Nat /\ Width(s, r) # 0
        /\ RelocAddr(s, file.sects[s].relocs[r]) = From(s, r)
        /\ Plus(RelocAddr(s, file.sects[s].relocs[r]), Width(s, r)) = From(s, r) + Width(s, r)
    BY <1>1, RelocFacts DEF From, Width
  <1>3. /\ file.sects[s].addr \in Nat /\ file.sects[s].size \in Nat
        /\ file.sects[s].relocs[r].addr \in Nat
    <2>1. file.sects[s] \in Section
      BY <1>1, FileFacts DEF TypeOK
    <2>2. file.sects[s].relocs[r] \in Reloc
      BY <2>1 DEF Section
    <2> QED
      BY <2>1, <2>2, AddrInt DEF Section, Reloc
  <1>4. file.sects[s].relocs[r].addr + Width(s, r) <= file.sects[s].size
    BY <1>1 DEF WellFormed, Width
  <1>5. \A row \in rows : Within(<<s, r>>, row.addr, row.size) <=> InRow(s, r, row)
    <2>1. RelocOf(<<s, r>>).width = Width(s, r) /\ FromOf(<<s, r>>) = From(s, r)
      BY <1>2 DEF RelocOf, FromOf, Width
    <2>2. Plus(FromOf(<<s, r>>), RelocOf(<<s, r>>).width) = From(s, r) + Width(s, r)
      BY <1>2, <2>1
    <2>3. \A row \in rows : Plus(row.addr, row.size) = row.addr + row.size
      BY FinishedRows
    <2> QED
      BY <2>1, <2>2, <2>3 DEF Within, InRow
  <1> DEFINE a == file.sects[s].addr
             n == file.sects[s].size
             x == file.sects[s].relocs[r].addr
             w == file.sects[s].relocs[r].width
  <1>6. From(s, r) = a + x /\ SectEnd(file, s) = a + n /\ Width(s, r) = w
    BY DEF From, SectEnd, Width
  <1>7. a \in Nat /\ n \in Nat /\ x \in Nat /\ w \in Nat /\ x + w <= n
    BY <1>2, <1>3, <1>4, <1>6
  <1> HIDE DEF a, n, x, w
  <1>8. SectEnd(file, s) \in Nat /\ a <= From(s, r) /\ From(s, r) + Width(s, r) <= SectEnd(file, s)
    BY <1>6, <1>7
  <1> QED
    BY <1>2, <1>3, <1>5, <1>8 DEF a

\* A relocation of an entry is attached to it once, and lies in it.
LEMMA PlaceInEntry ==
    ASSUME Finished, NEW v \in Addr, Indexed(v),
           NEW s \in 1..Len(file.sects), NEW r \in 1..Len(file.sects[s].relocs)
    PROVE  /\ Attached(v, <<s, r>>) => Contains(v, s, r)
           /\ \A j, k \in 1..Len(infos[v].relocs) :
                infos[v].relocs[j] = <<s, r>> /\ infos[v].relocs[k] = <<s, r>> => j = k
  <1>1. AttachedRight(v, s, r)
    BY DEF Finished, TableInv, IndexInv, Opened, Contents, AttachedSoFar
  <1>2. Attached(v, <<s, r>>) => Places(v, s, r) # {}
    BY DEF Attached, Places
  <1>3. \A j, k \in Places(v, s, r) : j = k
    BY <1>1 DEF AttachedRight
  <1> QED
    BY <1>1, <1>2, <1>3 DEF AttachedRight, Places

\* What is shown under a row is attached to the row's entry and lies in the row ...
LEMMA ShownMeans ==
    ASSUME Finished, NEW s \in 1..Len(file.sects), NEW r \in 1..Len(file.sects[s].relocs),
           NEW row \in rows, NEW k \in Shows(row, <<s, r>>)
    PROVE  /\ row.entry \in Addr /\ Indexed(row.entry)
           /\ k \in 1..Len(infos[row.entry].relocs) /\ infos[row.entry].relocs[k] = <<s, r>>
           /\ Attached(row.entry, <<s, r>>)
           /\ InRow(s, r, row)
  <1>1. InUse(row.entry) /\ row.relocs = RowRelocs(row.entry, row.addr, row.size)
    BY DEF Finished, TableInv, RowsInv, RowsMade
  <1>2. k \in row.relocs /\ infos[row.entry].relocs[k] = <<s, r>>
    BY DEF Shows
  <1>3. /\ row.entry # Nil /\ k \in 1..Len(infos[row.entry].relocs)
        /\ Within(<<s, r>>, row.addr, row.size)
    BY <1>1, <1>2 DEF RowRelocs
  <1> QED
    BY <1>1, <1>2, <1>3, PlaceOfReloc DEF InUse, Attached

\* ... so that nothing is shown twice ...
LEMMA ShownAtMostOnce ==
    ASSUME Finished, NEW s \in 1..Len(file.sects), NEW r \in 1..Len(file.sects[s].relocs),
           NEW one \in rows, NEW two \in rows,
           NEW k \in Shows(one, <<s, r>>), NEW j \in Shows(two, <<s, r>>)
    PROVE  two = one /\ j = k
  <1>1. InRow(s, r, one) /\ InRow(s, r, two)
    BY ShownMeans
  <1>2. From(s, r) \in Nat /\ Width(s, r) \in Nat /\ Width(s, r) # 0
    BY PlaceOfReloc
  <1>3. \A row \in rows : row.addr \in Nat /\ row.size \in Nat
    BY FinishedRows
  <1>4. /\ one.addr <= From(s, r) /\ From(s, r) < one.addr + one.size
        /\ two.addr <= From(s, r) /\ From(s, r) < two.addr + two.size
    BY <1>1, <1>2, <1>3 DEF InRow
  <1>5. one = two
    BY <1>2, <1>4, FinishedRows
  <1>6. /\ one.entry \in Addr /\ Indexed(one.entry)
        /\ k \in 1..Len(infos[one.entry].relocs) /\ infos[one.entry].relocs[k] = <<s, r>>
    BY ShownMeans
  <1>7. j \in 1..Len(infos[one.entry].relocs) /\ infos[one.entry].relocs[j] = <<s, r>>
    BY <1>5, ShownMeans
  <1>8. j = k
    BY <1>6, <1>7, PlaceInEntry
  <1> QED
    BY <1>5, <1>8

\* ... and everything attached to the entry that lies in the row is shown.
LEMMA ShownOnceIn ==
    ASSUME Finished, IsObj, HasRel(view.typ),
           NEW s \in 1..Len(file.sects), NEW r \in 1..Len(file.sects[s].relocs),
           NEW row \in rows, row.entry # Nil, Attached(row.entry, <<s, r>>), InRow(s, r, row)
    PROVE  ShownOnce(<<s, r>>)
  <1>1. PICK k \in 1..Len(infos[row.entry].relocs) : infos[row.entry].relocs[k] = <<s, r>>
    BY DEF Attached
  <1>2. row.relocs = RowRelocs(row.entry, row.addr, row.size)
    BY DEF Finished, TableInv, RowsInv, RowsMade
  <1>3. Within(infos[row.entry].relocs[k], row.addr, row.size)
    BY <1>1, PlaceOfReloc
  <1>4. k \in Shows(row, <<s, r>>)
    BY <1>1, <1>2, <1>3 DEF RowRelocs, Shows
  <1> QED
    BY <1>4, ShownAtMostOnce DEF ShownOnce

\* A symbol's rows all have the symbol's entry.
LEMMA SymbolShows == TableInv => SymbolRelocsShown
  <1> SUFFICES ASSUME TableInv, state = "table", view.sym # Nil, IsObj, HasRel(view.typ),
                      WellFormed(file), NEW s \in 1..Len(file.sects),
                      NEW r \in 1..Len(file.sects[s].relocs)
               PROVE  IF Attached(Base, <<s, r>>) /\ InARow(<<s, r>>)
                      THEN ShownOnce(<<s, r>>) ELSE NeverShown(<<s, r>>)
    BY DEF SymbolRelocsShown
  <1>1. Finished
    BY DEF Finished
  <1>2. \A row \in rows : row.entry = Base
    BY DEF TableInv, RowsInv, EntryOfSymbol
  <1>3. Base # Nil
    BY <1>1, FinishedRows, ViewAssumption
  <1>4. InARow(<<s, r>>) <=> \E row \in rows : InRow(s, r, row)
    BY DEF InARow, InRow, From, Width
  <1>5. Attached(Base, <<s, r>>) /\ InARow(<<s, r>>) => ShownOnce(<<s, r>>)
    BY <1>1, <1>2, <1>3, <1>4, ShownOnceIn
  <1>6. ASSUME NEW row \in rows, NEW k \in Shows(row, <<s, r>>)
        PROVE  Attached(Base, <<s, r>>) /\ InARow(<<s, r>>)
    BY <1>1, <1>2, <1>4, ShownMeans
  <1> QED
    BY <1>5, <1>6 DEF NeverShown

\* A relocation starts before the end of what holds it.
LEMMA StartsBefore ==
    ASSUME NEW from \in Nat, NEW width \in Nat, width # 0, NEW end \in Int, from + width <= end
    PROVE  from < end
  OBVIOUS

\* An address lies in one section of a well-formed file.
LEMMA OneSection ==
    ASSUME Finished, NEW m \in 1..Len(file.sects), NEW n \in 1..Len(file.sects), NEW x \in Nat,
           file.sects[m].addr <= x, x < SectEnd(file, m),
           file.sects[n].addr <= x, x < SectEnd(file, n)
    PROVE  m = n
  <1>1. m # n => SectEnd(file, m) <= file.sects[n].addr \/ SectEnd(file, n) <= file.sects[m].addr
    BY DEF Finished, WellFormed
  <1>2. /\ file.sects[m].addr \in Int /\ file.sects[n].addr \in Int
        /\ SectEnd(file, m) \in Int /\ SectEnd(file, n) \in Int
    BY SectFacts, SectEndFacts, AddrInt DEF Finished, TableInv, IndexInv, IInv
  <1> QED
    BY <1>1, <1>2

\* Every symbol in the section starts a row.
SymbolsStartRows ==
    \A n \in Sectional(file) :
        Base <= file.syms[n].value /\ file.syms[n].value < Base + Extent =>
            \E row \in rows : row.addr = file.syms[n].value

\* Then the entry in use at the row of a relocation is the one that holds the relocation: no
\* other symbol starts between the two.
LEMMA HolderInUse ==
    ASSUME Finished, view.sym = Nil, SymbolsStartRows,
           NEW s \in 1..Len(file.sects), NEW r \in 1..Len(file.sects[s].relocs), s = view.sect,
           NEW v \in Addr, Indexed(v), Attached(v, <<s, r>>),
           NEW row \in rows, InRow(s, r, row)
    PROVE  row.entry = v
  <1> DEFINE z == infos[v].size
  <1>1. IInv /\ Contents /\ WellFormed(file) /\ pc = "ready" /\ RowsMade /\ EntriesOfSection
    BY DEF Finished, TableInv, IndexInv, Opened, RowsInv
  <1>2. /\ From(s, r) \in Nat /\ Width(s, r) \in Nat /\ Width(s, r) # 0
        /\ file.sects[s].addr <= From(s, r) /\ From(s, r) + Width(s, r) <= SectEnd(file, s)
        /\ file.sects[s].addr \in Nat /\ SectEnd(file, s) \in Nat
    BY PlaceOfReloc
  <1>3. v <= From(s, r) /\ From(s, r) + Width(s, r) <= v + z
    BY PlaceInEntry DEF Contains, From, Width
  <1>4. v \in Nat /\ z \in Nat
    BY <1>1, EntryInSpace
  <1>5. From(s, r) < v + z /\ From(s, r) < SectEnd(file, s) /\ z # 0
    <2>1. v + z \in Int /\ SectEnd(file, s) \in Int
      BY <1>2, <1>4
    <2>2. From(s, r) < v + z /\ From(s, r) < SectEnd(file, s)
      BY <1>2, <1>3, <2>1, StartsBefore
    <2> QED
      BY <1>2, <1>3, <1>4, <2>2
  <1>6. PICK m \in 1..Len(file.sects) : file.sects[m].addr <= v /\ v + z <= SectEnd(file, m)
    BY <1>1, <1>5, EntryInSection
  <1>7. file.sects[m].addr \in Int /\ SectEnd(file, m) \in Int
    BY <1>1, SectFacts, SectEndFacts, AddrInt DEF IInv
  <1> HIDE DEF z
  <1>8. m = s
    <2>1. file.sects[m].addr <= From(s, r)
      BY <1>2, <1>3, <1>4, <1>6, <1>7
    <2>2. From(s, r) < SectEnd(file, m)
      BY <1>2, <1>4, <1>5, <1>6, <1>7
    <2> QED
      BY <1>2, <1>5, <2>1, <2>2, OneSection
  <1>9. Base = file.sects[s].addr /\ Base + Extent = SectEnd(file, s)
    BY DEF Base, Extent, BaseOf, ExtentOf, SectEnd
  <1>10. Base <= v /\ v < Base + Extent
    BY <1>2, <1>3, <1>4, <1>6, <1>8, <1>9
  <1>11. PICK first \in rows : first.addr = v
    <2>1. PICK h \in 1..Len(ssyms) : Val(h) = v
      BY <1>1 DEF IInv, OnlySymbolsIndexed
    <2>2. ssyms[h] \in Sectional(file) /\ file.syms[ssyms[h]].value = v
      BY <1>1, <2>1, PlaceOfSymbol
    <2> QED
      BY <1>10, <2>2 DEF SymbolsStartRows
  <1>12. /\ row.addr \in Nat /\ row.size \in Nat /\ first.size \in Nat /\ first.size # 0
         /\ row.addr <= From(s, r) /\ From(s, r) < row.addr + row.size
    <2>1. /\ row.addr \in Nat /\ row.size \in Nat /\ first.size \in Nat /\ first.size # 0
          /\ row.addr <= From(s, r) /\ From(s, r) + Width(s, r) <= row.addr + row.size
      BY FinishedRows DEF InRow
    <2>2. row.addr + row.size \in Int
      BY <2>1
    <2> QED
      BY <1>2, <2>1, <2>2, StartsBefore
  <1>13. v <= row.addr
    <2> SUFFICES ASSUME row.addr < v PROVE FALSE
      BY <1>4, <1>12
    <2> DEFINE end == row.addr + row.size
    <2>1. row.addr \in Int /\ end \in Int /\ From(s, r) < end /\ From(s, r) \in Int
      BY <1>2, <1>12
    <2>2. row.addr <= v /\ v < row.addr + row.size
      <3>1. v <= From(s, r) /\ v \in Int
        BY <1>3, <1>4
      <3> HIDE DEF end
      <3>2. row.addr <= v /\ v < end
        BY <2>1, <3>1
      <3> QED
        BY <3>2 DEF end
    <2>3. first.addr <= v /\ v < first.addr + first.size
      BY <1>4, <1>11, <1>12
    <2>4. first = row
      BY <1>4, <2>2, <2>3, FinishedRows
    <2> QED
      BY <1>4, <1>11, <2>1, <2>4
  <1>14. row.entry # Nil /\ v <= row.entry /\ row.entry <= row.addr
    BY <1>1, <1>11, <1>13 DEF EntriesOfSection, LastBefore
  <1>15. row.entry \in Addr /\ Indexed(row.entry) /\ row.entry \in Int
    BY <1>1, <1>14, AddrInt DEF RowsMade, InUse
  <1>16. ~(v < row.entry)
    <2> SUFFICES ASSUME v < row.entry PROVE FALSE
      OBVIOUS
    <2>1. PICK k \in 1..Len(ssyms) : Val(k) = row.entry
      BY <1>1, <1>15 DEF IInv, OnlySymbolsIndexed
    <2>2. v + z <= row.entry
      BY <1>1, <2>1 DEF IInv, SizeBound, z
    <2> QED
      BY <1>2, <1>4, <1>5, <1>12, <1>14, <1>15, <2>2
  <1> QED
    BY <1>4, <1>14, <1>15, <1>16

\* A section's rows have the entries of the symbols in it.
LEMMA SectionShows == TableInv => SectionRelocsShown
  <1> SUFFICES ASSUME TableInv, state = "table", rows # {}, view.sym = Nil, IsObj,
                      HasRel(view.typ), WellFormed(file), SymbolsStartRows,
                      NEW s \in 1..Len(file.sects), NEW r \in 1..Len(file.sects[s].relocs)
               PROVE  IF /\ s = view.sect
                         /\ \E v \in Addr : Indexed(v) /\ Attached(v, <<s, r>>)
                         /\ InARow(<<s, r>>)
                      THEN ShownOnce(<<s, r>>) ELSE NeverShown(<<s, r>>)
    BY DEF SectionRelocsShown, SymbolsStartRows
  <1>1. Finished
    BY DEF Finished
  <1>2. InARow(<<s, r>>) <=> \E row \in rows : InRow(s, r, row)
    BY DEF InARow, InRow, From, Width
  <1>3. ASSUME s = view.sect, NEW v \in Addr, Indexed(v), Attached(v, <<s, r>>),
               NEW row \in rows, InRow(s, r, row)
        PROVE  ShownOnce(<<s, r>>)
    <2>1. row.entry = v
      BY <1>1, <1>3, HolderInUse
    <2>2. v # Nil
      BY <1>3, AddrInt, ViewAssumption
    <2> QED
      BY <1>1, <1>3, <2>1, <2>2, ShownOnceIn
  <1>4. ASSUME NEW row \in rows, NEW k \in Shows(row, <<s, r>>)
        PROVE  /\ s = view.sect /\ InRow(s, r, row)
               /\ \E v \in Addr : Indexed(v) /\ Attached(v, <<s, r>>)
    <2>1. InRow(s, r, row) /\ \E v \in Addr : Indexed(v) /\ Attached(v, <<s, r>>)
      BY <1>1, ShownMeans
    <2>2. view.sect \in 1..Len(file.sects)
      BY DEF Opened, TableInv
    <2>3. file.sects[view.sect].addr = Base /\ SectEnd(file, view.sect) = Base + Extent
      BY DEF Base, Extent, BaseOf, ExtentOf, SectEnd
    <2>4. /\ From(s, r) \in Nat /\ Width(s, r) \in Nat /\ Width(s, r) # 0
          /\ file.sects[s].addr <= From(s, r) /\ From(s, r) + Width(s, r) <= SectEnd(file, s)
          /\ SectEnd(file, s) \in Nat
      BY <1>1, PlaceOfReloc
    <2>5. /\ row.addr \in Nat /\ row.size \in Nat /\ Base \in Nat /\ Extent \in Nat
          /\ Base <= row.addr /\ row.addr + row.size <= Base + Extent
      BY <1>1, FinishedRows
    <2>6. row.addr <= From(s, r) /\ From(s, r) + Width(s, r) <= row.addr + row.size
      BY <2>1 DEF InRow
    <2>7. From(s, r) < SectEnd(file, s) /\ Base <= From(s, r) /\ From(s, r) < Base + Extent
      <3>1. row.addr + row.size \in Int /\ SectEnd(file, s) \in Int
        BY <2>4, <2>5
      <3>2. From(s, r) < SectEnd(file, s) /\ From(s, r) < row.addr + row.size
        BY <2>4, <2>6, <3>1, StartsBefore
      <3> QED
        BY <2>4, <2>5, <2>6, <3>1, <3>2
    <2>8. s = view.sect
      BY <1>1, <2>2, <2>3, <2>4, <2>7, OneSection
    <2> QED
      BY <2>1, <2>8
  <1> QED
    BY <1>2, <1>3, <1>4 DEF NeverShown

\* Whichever views are opened, in whatever order, each relocation of a well-formed file is
\* shown where it belongs, and only there.
THEOREM RelocsWhereTheyBelong == ViewSpec => []RelocsShown
  <1>1. TableInv => RelocsShown
    BY SymbolShows, SectionShows DEF RelocsShown
  <1> QED
    BY <1>1, TableInvariant, PTL

-----------------------------------------------------------------------------
(* What a panic can only come from.                                          *)

\* From a symbol in its section to the section's end there are at most as many bytes as the
\* section has.
LEMMA ToEndInSection ==
    ASSUME IInv, pc # "sort", NEW k \in 1..Len(ssyms), ~Stray(ssyms[k])
    PROVE  /\ Sym(k).sect \in 1..Len(file.sects)
           /\ ToSectEnd(k) \in Nat /\ ToSectEnd(k) <= file.sects[Sym(k).sect].size
           /\ file.sects[Sym(k).sect].addr <= Val(k) /\ Val(k) <= SectEnd(file, Sym(k).sect)
  <1> DEFINE m == Sym(k).sect
             a == file.sects[m].addr
             n == file.sects[m].size
             v == Val(k)
  <1>1. HasSect(file, Sym(k)) /\ ~(v < a) /\ ~(SectEnd(file, m) < v)
    BY DEF Stray, Sym, Val
  <1>2. Sym(k) \in Symbol /\ v \in Addr
    BY SymFacts DEF IInv
  <1>3. m \in 1..Len(file.sects)
    BY <1>1, <1>2, FileFacts DEF HasSect, Symbol, IInv, TypeOK
  <1>4. a \in Addr /\ n \in Addr
    BY <1>3, SectFacts DEF IInv
  <1>5. a <= v /\ v <= SectEnd(file, m)
    BY <1>1, <1>2, <1>3, <1>4, SectEndFacts, AddrInt DEF IInv
  <1>6. ToSectEnd(k) = Minus(Plus(a, n), v) /\ v <= a + n
    BY <1>1, <1>5 DEF ToSectEnd, SectEnd
  <1> HIDE DEF a, n, v
  <1>7. Minus(Plus(a, n), v) \in Nat /\ Minus(Plus(a, n), v) <= n
    <2>1. Plus(a, n) \in Addr /\ Plus(a, n) = IF a + n < W THEN a + n ELSE a + n - W
      BY <1>4, OneWrap, ArithInAddr
    <2>2. Minus(Plus(a, n), v) = IF v <= Plus(a, n) THEN Plus(a, n) - v ELSE Plus(a, n) - v + W
      BY <1>2, <2>1, OneWrap
    <2> QED
      BY <1>2, <1>4, <1>5, <1>6, <2>1, <2>2, WAssumption DEF Addr
  <1> QED
    BY <1>3, <1>5, <1>6, <1>7 DEF a, n, v

\* An entry has more bytes than its section only when stray symbols are in that section.
LEMMA EntryFits ==
    ASSUME IInv, Contents, pc = "ready", NEW v \in Addr, Indexed(v), ~OddSymbol(v)
    PROVE  infos[v].size <= MaxAlloc
  <1> DEFINE z == infos[v].size
  <1>1. IInv /\ Contents /\ MaxAlloc \in Int
    BY ViewAssumption, AddrInt
  <1>2. ASSUME NEW k \in 1..Len(ssyms), NEW j \in 1..Len(ssyms), Val(k) = v,
               Sym(j).sect = Sym(k).sect
        PROVE  ~Stray(ssyms[j]) /\ file.sects[Sym(j).sect].size <= MaxAlloc
    <2>1. ssyms[k] \in Sectional(file) /\ ssyms[j] \in Sectional(file)
      BY <1>1, PlaceOfSymbol
    <2>2. ~Stray(ssyms[j]) /\ ~(file.sects[Sym(j).sect].size > MaxAlloc)
      BY <1>2, <2>1 DEF OddSymbol, Sym, Val
    <2>3. Sym(j).sect \in 1..Len(file.sects)
      BY <1>1, <2>2, ToEndInSection
    <2>4. file.sects[Sym(j).sect].size \in Int
      BY <1>1, <2>3, SectFacts, AddrInt DEF IInv
    <2> QED
      BY <1>1, <2>2, <2>4
  <1>3. ASSUME NEW k \in 1..Len(ssyms), Val(k) = v PROVE ToSectEnd(k) <= MaxAlloc
    <2>1. ~Stray(ssyms[k]) /\ file.sects[Sym(k).sect].size <= MaxAlloc
      BY <1>2, <1>3
    <2>2. /\ Sym(k).sect \in 1..Len(file.sects)
          /\ ToSectEnd(k) \in Nat /\ ToSectEnd(k) <= file.sects[Sym(k).sect].size
      BY <1>1, <2>1, ToEndInSection
    <2>3. file.sects[Sym(k).sect].size \in Int
      BY <1>1, <2>2, SectFacts, AddrInt DEF IInv
    <2> QED
      BY <1>1, <2>1, <2>2, <2>3
  <1>4. PICK h \in 1..Len(ssyms) : Val(h) = v
    BY <1>1 DEF IInv, OnlySymbolsIndexed
  <1>5. CASE v = Val(Len(ssyms))
    <2>1. Len(ssyms) \in 1..Len(ssyms)
      BY <1>1, <1>4, InOrder
    <2>2. z = ToSectEnd(Len(ssyms))
      BY <1>1, <1>5, <2>1 DEF Contents, Entries, EntryOfTop
    <2> QED
      BY <1>3, <1>5, <2>1, <2>2
  <1>6. CASE v # Val(Len(ssyms))
    <2>1. PICK k, j \in 1..Len(ssyms) :
            Val(k) = v /\ NextDistinct(k, j) /\ z = SizeUpTo(k, j)
      BY <1>1, <1>6 DEF Contents, Entries, EntryOfRun
    <2>2. CASE Sym(k).sect # Sym(j).sect
      BY <1>3, <2>1, <2>2 DEF SizeUpTo
    <2>3. CASE Sym(k).sect = Sym(j).sect
      <3> DEFINE m == Sym(k).sect
                 a == file.sects[m].addr
                 n == file.sects[m].size
      <3>1. z = Minus(Val(j), Val(k)) /\ Val(k) <= Val(j)
        BY <1>1, <2>1, <2>3, InOrder DEF SizeUpTo, NextDistinct
      <3>2. Val(k) \in Addr /\ Val(j) \in Addr
        BY <1>1, SymFacts DEF IInv
      <3>3. z = Val(j) - Val(k)
        BY <3>1, <3>2, ArithExact
      <3>4. ~Stray(ssyms[k]) /\ ~Stray(ssyms[j]) /\ n <= MaxAlloc
        BY <1>2, <2>1, <2>3
      <3>5. m \in 1..Len(file.sects) /\ a <= Val(k) /\ Val(j) <= a + n
        BY <1>1, <2>3, <3>4, ToEndInSection DEF SectEnd
      <3>6. a \in Int /\ n \in Int /\ Val(k) \in Int /\ Val(j) \in Int
        BY <1>1, <3>2, <3>5, SectFacts, AddrInt DEF IInv
      <3> HIDE DEF a, n, z
      <3>7. z <= MaxAlloc
        BY <1>1, <3>3, <3>4, <3>5, <3>6
      <3> QED
        BY <3>7 DEF z
    <2> QED
      BY <2>2, <2>3
  <1> QED
    BY <1>5, <1>6

\* There is no room for a symbol's bytes, or no section, only if a symbol of its section is odd.
LEMMA BytesPanic ==
    ASSUME IInv, Contents, pc = "ready", NEW n \in Sectional(file), SymbolBytes(n) = "panic"
    PROVE  OddSymbol(file.syms[n].value)
  <1> DEFINE v == file.syms[n].value
  <1>1. v \in Addr /\ Indexed(v) /\ infos[v].size \in Addr
    BY SymNumbers
  <1>2. ~HasSect(file, file.syms[n]) \/ infos[v].size > MaxAlloc
    BY DEF SymbolBytes
  <1>3. CASE ~HasSect(file, file.syms[n])
    BY <1>3 DEF OddSymbol, Stray
  <1>4. CASE infos[v].size > MaxAlloc
    <2>1. infos[v].size \in Int /\ MaxAlloc \in Int
      BY <1>1, ViewAssumption, AddrInt
    <2>2. ~(infos[v].size <= MaxAlloc)
      BY <1>4, <2>1
    <2> QED
      BY <1>1, <2>2, EntryFits
  <1> QED
    BY <1>2, <1>3, <1>4

\* newSymbolModel panics over a symbol without a section and over one with too many bytes.
LEMMA OpenSymbolPanics ==
    ASSUME TableInv, NEW n \in Sectional(file), NEW typ \in Types, OpenSymbol(n, typ),
           state' = "panic"
    PROVE  view'.sym # Nil /\ OddSymbol(Base)'
  <1> DEFINE v == file.syms[n].value
  <1>1. view'.sym = n /\ UNCHANGED vars /\ pc = "ready" /\ SymbolBytes(n) = "panic"
    BY DEF Start, OpenSymbol, NoModel, MayOpen, SymView
  <1>2. n # Nil /\ v \in Addr /\ Indexed(v) /\ infos[v].size \in Addr
    BY <1>1, SymNumbers DEF TableInv, IndexInv
  <1>3. Base' = v /\ file' = file
    BY <1>1, <1>2 DEF Base, BaseOf, vars
  <1>4. OddSymbol(v)
    BY <1>1, BytesPanic DEF TableInv, IndexInv
  <1>5. OddSymbol(v)'
    BY <1>3, <1>4 DEF OddSymbol, Stray, Sectional, HasSect, SectEnd
  <1> QED
    BY <1>1, <1>2, <1>3, <1>5 DEF OddSymbol

\* An instruction is longer than what is left only when it is one of arm64.
LEMMA RowTooLong ==
    ASSUME TableInv, state = "rows", left # 0,
           NEW size \in RowSizes(view.typ, left), ~Fits(size)
    PROVE  OddSize(view)
  <1>1. /\ Extent \in Nat /\ view.typ \in Types /\ left \in Nat /\ left <= Extent
        /\ Past \in Nat /\ (rows = {} => Past = 0)
    BY RowBytes
  <1>2. view.typ = "Code" /\ file \in Arm64 /\ size = 4
    BY <1>1, SizePositive DEF Fits
  <1>3. Past % 4 = 0
    BY <1>1, <1>2 DEF TableInv, RowsInv, RowsOfArm
  <1>4. Extent = Past + left /\ left < 4
    BY <1>1, <1>2 DEF Past, Fits
  <1>5. Extent % 4 # 0
    BY <1>1, <1>3, <1>4
  <1> QED
    BY <1>2, <1>5 DEF OddSize, Extent

\* A relocation below a row can be decoded, unless it is a single byte or wraps around.
LEMMA RowUndecodable ==
    ASSUME TableInv, state = "rows", left # 0,
           NEW size \in RowSizes(view.typ, left), Fits(size),
           Undecodable(Entry(addr), addr, size)
    PROVE  OddReloc(view)
  <1> DEFINE key == Entry(addr)
  <1>1. /\ view.typ \in Types /\ left \in Nat /\ addr \in Addr /\ left < W
        /\ Past \in Nat /\ Past + left = Extent /\ Extent < W
        /\ Base \in Addr /\ addr = Plus(Base, Past)
    <2>1. /\ Base \in Addr /\ Extent \in Addr /\ Extent \in Nat /\ view.typ \in Types
          /\ left \in Nat /\ left <= Extent
          /\ addr = Plus(Base, Past) /\ addr \in Addr /\ Past \in Nat
      BY RowBytes
    <2> QED
      BY <2>1, WAssumption DEF Past, Addr
  <1>2. size \in Nat /\ size <= left /\ size \in Addr
    BY <1>1, SizePositive, WAssumption DEF Fits, Addr
  <1>3. PICK k \in RowRelocs(key, addr, size) : ~Decodable(infos[key].relocs[k], addr)
    BY DEF Undecodable
  <1>4. /\ IsObj /\ HasRel(view.typ) /\ key # Nil /\ k \in 1..Len(infos[key].relocs)
        /\ Within(infos[key].relocs[k], addr, size)
    BY <1>3 DEF RowRelocs
  <1>5. key \in Addr /\ Indexed(key)
    <2>1. InUse(info)
      BY DEF TableInv, RowsInv, RowsMade
    <2> QED
      BY <1>1, <1>4, <2>1, EntryInUse DEF InUse
  <1>6. PICK s \in 1..Len(file.sects) : \E r \in 1..Len(file.sects[s].relocs) :
          infos[key].relocs[k] = <<s, r>>
    BY <1>4, <1>5 DEF TableInv, IndexInv, AttachedExist
  <1>7. PICK r \in 1..Len(file.sects[s].relocs) : infos[key].relocs[k] = <<s, r>>
    BY <1>6
  <1> DEFINE rel == file.sects[s].relocs[r]
             from == RelocAddr(s, rel)
             w == rel.width
  <1>8. /\ addr <= from /\ Plus(from, w) <= Plus(addr, size)
        /\ w # 1 => ~(Minus(from, addr) + w <= left)
    BY <1>3, <1>4, <1>7 DEF Within, Decodable, FromOf, RelocOf
  <1>9. from \in Addr /\ w \in Nat /\ w <= 8
    <2>1. file.sects[s] \in Section
      BY FileFacts DEF TableInv, IndexInv, IInv, TypeOK
    <2>2. file.sects[s].addr \in Addr /\ file.sects[s].relocs \in Seq(Reloc)
      BY <2>1 DEF Section
    <2>3. rel \in Reloc
      BY <2>2
    <2>4. rel.addr \in Addr /\ w \in {1, 2, 4, 8}
      BY <2>3 DEF Reloc
    <2> QED
      BY <2>2, <2>4, ArithInAddr DEF RelocAddr
  <1> HIDE DEF key, rel, from, w
  <1>10. ASSUME ~(from + w >= W) PROVE addr <= from /\ (from - addr) + w <= left
    <2>1. w \in Addr
      BY <1>9, WAssumption DEF Addr
    <2>2. from + w < W /\ Plus(from, w) = from + w
      BY <1>9, <1>10, <2>1, OneWrap, WAssumption DEF Addr
    <2>3. Plus(addr, size) = IF addr + size < W THEN addr + size ELSE addr + size - W
      BY <1>1, <1>2, OneWrap
    <2>4. addr \in Nat /\ from \in Nat
      BY <1>1, <1>9, AddrInt
    <2>5. from + w <= addr + size
      BY <1>2, <1>8, <1>9, <2>2, <2>3, <2>4, WAssumption
    <2> QED
      BY <1>1, <1>2, <1>8, <1>9, <2>4, <2>5
  <1>11. ASSUME w # 1, ~(from + w >= W) PROVE FALSE
    <2>1. Minus(from, addr) = from - addr
      BY <1>1, <1>8, <1>9, OneWrap
    <2> QED
      BY <1>8, <1>10, <1>11, <2>1
  <1>12. ASSUME w = 1, ~(from + w >= W) PROVE InBytes(view, from)
    <2>1. addr <= from /\ (from - addr) + 1 <= left /\ addr \in Nat /\ from \in Nat
      <3>1. addr <= from /\ (from - addr) + w <= left
        BY <1>10, <1>12
      <3>2. addr \in Int /\ from \in Int
        BY <1>1, <1>9, AddrInt
      <3>3. addr \in Nat /\ from \in Nat
        BY <1>1, <1>9, WAssumption DEF Addr
      <3> QED
        BY <1>12, <3>1, <3>3
    <2> DEFINE d == from - addr
    <2>2. d \in Nat /\ from = addr + d /\ d < left
      BY <2>1, <1>1
    <2> HIDE DEF d
    <2>3. Past + d < Extent /\ Past + d < W /\ d < W /\ from < W /\ W \in Nat
      <3>1. W \in Nat /\ from < W
        BY <1>9, WAssumption DEF Addr
      <3>2. PICK m \in Nat, l \in Nat : m = Past /\ l = left /\ m + l = Extent /\ m + l < W
        BY <1>1
      <3> QED
        BY <2>2, <3>1, <3>2
    <2>4. d \in Addr
      BY <2>2, <2>3, <1>9 DEF Addr
    <2>5. from = Plus(addr, d)
      BY <1>1, <2>2, <2>3, <2>4, OneWrap
    <2>6. from = Plus(Base, Past + d)
      BY <1>1, <2>2, <2>3, <2>5, Offsets
    <2>7. Minus(from, Base) = Past + d
      <3>1. Past + d \in Nat /\ (Past + d) + 0 < W
        BY <1>1, <2>2, <2>3
      <3> QED
        BY <1>1, <2>6, <3>1, Offsets
    <2> QED
      BY <2>3, <2>7 DEF InBytes, Base, Extent
  <1>13. Serves(view, key)
    <2>1. CASE view.sym = Nil
      <3>1. Minus(key, Base) < Extent
        BY <1>4, <2>1, EntryServed DEF key
      <3> QED
        BY <2>1, <3>1 DEF Serves, InBytes, Base, Extent
    <2>2. CASE view.sym # Nil
      <3>1. key = Base
        BY <2>2 DEF TableInv, RowsInv, EntryOfSymbol, Entry, key
      <3> QED
        BY <2>2, <3>1 DEF Serves, Base
    <2> QED
      BY <2>1, <2>2
  <1>14. Attached(key, <<s, r>>)
    BY <1>4, <1>7 DEF Attached
  <1>15. (w = 1 /\ InBytes(view, from)) \/ from + w >= W
    BY <1>11, <1>12
  <1> DEFINE p == <<s, r>>
  <1>16. RelocOf(p) = rel /\ FromOf(p) = from
    BY DEF RelocOf, FromOf, rel, from
  <1>17. \/ RelocOf(p).width = 1 /\ InBytes(view, FromOf(p))
         \/ FromOf(p) + RelocOf(p).width >= W
    BY <1>15, <1>16 DEF w
  <1> HIDE DEF p
  <1>18. Attached(key, p)
    BY <1>14 DEF p
  <1> QED
    BY <1>4, <1>5, <1>13, <1>17, <1>18 DEF OddReloc, p

\* What is odd about a view is a matter of the file and the index.
LEMMA OddRowsSame ==
    ASSUME UNCHANGED <<file, infos>>
    PROVE  /\ \A v : OddRows(v)' <=> OddRows(v)
           /\ view' = view => (OddRows(view)' <=> OddRows(view))
  <1>1. \A v : BaseOf(v)' = BaseOf(v)
    BY DEF BaseOf
  <1>2. \A v : ExtentOf(v)' = ExtentOf(v)
    BY <1>1 DEF ExtentOf, BaseOf
  <1>3. \A v : OddSize(v)' <=> OddSize(v)
    BY <1>2 DEF OddSize
  <1>4. \A v, a : InBytes(v, a)' <=> InBytes(v, a)
    BY <1>1, <1>2 DEF InBytes
  <1>5. \A v, key : Serves(v, key)' <=> Serves(v, key)
    BY <1>1, <1>4 DEF Serves
  <1>6. /\ \A p : RelocOf(p)' = RelocOf(p) /\ FromOf(p)' = FromOf(p)
        /\ \A key, p : Attached(key, p)' <=> Attached(key, p)
        /\ \A key : Indexed(key)' <=> Indexed(key)
    BY DEF RelocOf, FromOf, RelocAddr, Attached, Indexed
  <1>7. \A v : OddReloc(v)' <=> OddReloc(v)
    BY <1>4, <1>5, <1>6 DEF OddReloc
  <1>8. \A v : OddRows(v)' <=> OddRows(v)
    BY <1>3, <1>7 DEF OddRows, OddType
  <1>9. view' = view => (OddRows(view)' <=> OddRows(view))
    BY <1>8
  <1> QED
    BY <1>8, <1>9

\* Whatever a file holds, opening and building views ends in a panic only on odd input.
THEOREM DiesOnOddInputOnly == ViewSpec => []PanicsOnlyOnOddInput
  <1>1. ViewInit => PanicsOnlyOnOddInput
    BY DEF ViewInit, PanicsOnlyOnOddInput
  <1>2. TableInv /\ PanicsOnlyOnOddInput /\ [ViewNext]_viewVars => PanicsOnlyOnOddInput'
    <2> SUFFICES ASSUME TableInv, PanicsOnlyOnOddInput, [ViewNext]_viewVars, state' = "panic"
                 PROVE  OddRows(view)' \/ (view'.sym # Nil /\ OddSymbol(Base)')
      BY DEF PanicsOnlyOnOddInput
    <2>1. ASSUME UNCHANGED vars, view' = view, OddRows(view) \/ (view.sym # Nil /\ OddSymbol(Base))
          PROVE  OddRows(view)' \/ (view'.sym # Nil /\ OddSymbol(Base)')
      <3>1. Base' = Base /\ file' = file /\ infos' = infos
        BY <2>1, SameView DEF vars
      <3>2. OddRows(view)' <=> OddRows(view)
        BY <2>1, OddRowsSame DEF vars
      <3>3. OddSymbol(Base) => OddSymbol(Base)'
        BY <3>1 DEF OddSymbol, Stray, Sectional, HasSect, SectEnd
      <3> QED
        BY <2>1, <3>2, <3>3
    <2>2. CASE UNCHANGED viewVars
      BY <2>1, <2>2 DEF viewVars, tableVars, PanicsOnlyOnOddInput
    <2>3. CASE Build /\ UNCHANGED tableVars
      <3>1. state = "panic"
        BY <2>3 DEF tableVars
      <3>2. pc = "ready"
        BY <3>1 DEF TableInv, Opened
      <3> QED
        BY <2>3, <3>2 DEF Build, SortSymbols, GroupRun, GroupAliasesOfLast, GroupLast,
                          AttachReloc, SkipReloc, AtReloc, NextSection, Finish
    <2>4. CASE \E n \in 1..Len(file.sects), typ \in Types : OpenSection(n, typ)
      BY <2>4 DEF OpenSection, NoModel
    <2>5. CASE \E n \in Sectional(file), typ \in Types : OpenSymbol(n, typ)
      BY <2>5, OpenSymbolPanics
    <2>6. CASE AddRow \/ Done
      BY <2>6 DEF AddRow, Done
    <2>7. CASE RowPanics
      <3>1. PICK size \in RowSizes(view.typ, left) :
              OddType(view) \/ ~Fits(size) \/ Undecodable(Entry(addr), addr, size)
        BY <2>7 DEF RowPanics
      <3>2. OddRows(view)
        BY <2>7, <3>1, RowTooLong, RowUndecodable DEF RowPanics, OddRows
      <3> QED
        BY <2>1, <2>7, <3>2 DEF RowPanics
    <2> QED
      BY <2>2, <2>3, <2>4, <2>5, <2>6, <2>7 DEF ViewNext, Loop
  <1> QED
    BY <1>1, <1>2, TableInvariant, PTL DEF ViewSpec

-----------------------------------------------------------------------------
(* Part 2: the links of a relocation.                                        *)

-----------------------------------------------------------------------------
(* Numbers modulo m.                                                         *)

\* a and b are the same modulo m; unlike %, this chains.
Congruent(a, b, m) == \E q \in Int : a = b + q * m

\* % is congruent to what it reduces.
LEMMA Remainder ==
    ASSUME NEW a \in Int, NEW m \in Nat, m # 0
    PROVE  a % m \in Int /\ Congruent(a % m, a, m)
  <1>1. a = m * (a \div m) + (a % m) /\ a \div m \in Int /\ a % m \in Int
    OBVIOUS
  <1>2. PICK q \in Int : a = m * q + (a % m)
    BY <1>1
  <1>3. -q \in Int /\ a % m = a + (-q) * m
    BY <1>1, <1>2
  <1> QED
    BY <1>1, <1>3 DEF Congruent

\* Congruences add up, ...
LEMMA CongruentSum ==
    ASSUME NEW a \in Int, NEW b \in Int, NEW c \in Int, NEW d \in Int, NEW m \in Nat,
           Congruent(a, b, m), Congruent(c, d, m)
    PROVE  Congruent(a + c, b + d, m)
  <1>1. PICK p \in Int : a = b + p * m
    BY DEF Congruent
  <1>2. PICK q \in Int : c = d + q * m
    BY DEF Congruent
  <1>3. a + c = b + d + (p + q) * m /\ p + q \in Int
    BY <1>1, <1>2
  <1> QED
    BY <1>3 DEF Congruent

\* ... chain, ...
LEMMA CongruentTrans ==
    ASSUME NEW a \in Int, NEW b \in Int, NEW c \in Int, NEW m \in Nat,
           Congruent(a, b, m), Congruent(b, c, m)
    PROVE  Congruent(a, c, m)
  <1>1. PICK p \in Int : a = b + p * m
    BY DEF Congruent
  <1>2. PICK q \in Int : b = c + q * m
    BY DEF Congruent
  <1>3. a = c + (p + q) * m /\ p + q \in Int
    BY <1>1, <1>2
  <1> QED
    BY <1>3 DEF Congruent

\* ... hold of equal numbers and of numbers m apart, ...
LEMMA CongruentSelf ==
    ASSUME NEW a \in Int, NEW m \in Nat
    PROVE  Congruent(a, a, m) /\ Congruent(a - m, a, m)
  <1>1. 0 \in Int /\ -1 \in Int /\ a = a + 0 * m /\ a - m = a + (-1) * m
    OBVIOUS
  <1> QED
    BY <1>1 DEF Congruent

\* ... and in both directions.
LEMMA CongruentSym ==
    ASSUME NEW a \in Int, NEW b \in Int, NEW m \in Nat, Congruent(a, b, m)
    PROVE  Congruent(b, a, m)
  <1>1. PICK q \in Int : a = b + q * m
    BY DEF Congruent
  <1>2. b = a + (-q) * m /\ -q \in Int
    BY <1>1
  <1> QED
    BY <1>2 DEF Congruent

\* Numbers that agree modulo n * n agree modulo n.
LEMMA CongruentRoot ==
    ASSUME NEW a \in Int, NEW b \in Int, NEW n \in Nat, Congruent(a, b, n * n)
    PROVE  Congruent(a, b, n)
  <1>1. PICK q \in Int : a = b + q * (n * n)
    BY DEF Congruent
  <1>2. a = b + (q * n) * n /\ q * n \in Int
    BY <1>1
  <1> QED
    BY <1>2 DEF Congruent

\* A congruence in the form that TargetMeant states.
LEMMA CongruentDifference ==
    ASSUME NEW a \in Int, NEW b \in Int, NEW m \in Nat, m # 0, Congruent(a, b, m)
    PROVE  (a - b) % m = 0
  <1>1. PICK q \in Int : a = b + q * m
    BY DEF Congruent
  <1>2. a - b = q * m
    BY <1>1
  <1>3. (q * m) % m = 0
    OBVIOUS
  <1> QED
    BY <1>2, <1>3

-----------------------------------------------------------------------------
(* The numbers of a target.                                                  *)

\* The widths of fields, and that an address has 8 bytes.
LEMMA FieldSizes ==
    /\ \A width \in {2, 4, 8} : Values(width) \in Nat \ {0}
    /\ Values(8) = Values(4) * Values(4) /\ W = Values(8)
  <1>1. \A n \in Nat \ {0} : n * n \in Nat \ {0}
    OBVIOUS
  <1>2. B \in Nat \ {0}
    BY BAssumption
  <1>3. Values(2) = B * B /\ Values(2) \in Nat \ {0}
    BY <1>1, <1>2 DEF Values
  <1>4. Values(4) = Values(2) * Values(2) /\ Values(4) \in Nat \ {0}
    BY <1>1, <1>3 DEF Values
  <1>5. Values(8) = Values(4) * Values(4) /\ Values(8) \in Nat \ {0}
    BY <1>1, <1>3, <1>4 DEF Values
  <1> QED
    BY <1>3, <1>4, <1>5, WordAssumption DEF U64

\* A field's signed value.
LEMMA SignedValue ==
    ASSUME NEW width \in {2, 4, 8}, NEW raw \in Nat, raw < Values(width)
    PROVE  /\ Signed(raw, width) \in Int /\ Congruent(Signed(raw, width), raw, Values(width))
           /\ Signed(raw, width) >= 0 => Signed(raw, width) = raw
           /\ -Values(width) <= 2 * Signed(raw, width) /\ 2 * Signed(raw, width) < Values(width)
  <1> DEFINE v == Values(width)
  <1>1. v \in Nat
    BY FieldSizes
  <1>2. Signed(raw, width) = IF 2 * raw >= v THEN raw - v ELSE raw
    BY DEF Signed
  <1> HIDE DEF v
  <1>3. Congruent(raw, raw, v) /\ Congruent(raw - v, raw, v)
    BY <1>1, CongruentSelf
  <1>4. raw < v
    BY DEF v
  <1>5. CASE 2 * raw >= v
    <2>1. Signed(raw, width) = raw - v
      BY <1>2, <1>5
    <2> QED
      BY <1>1, <1>3, <1>4, <1>5, <2>1 DEF v
  <1>6. CASE ~(2 * raw >= v)
    <2>1. Signed(raw, width) = raw
      BY <1>2, <1>6
    <2> QED
      BY <1>1, <1>3, <1>4, <1>6, <2>1 DEF v
  <1> QED
    BY <1>5, <1>6

\* Two's complement of 64 bits.
LEMMA Int64Value ==
    ASSUME NEW n \in Int
    PROVE  /\ Int64(n) \in Int /\ Congruent(Int64(n), n, W)
           /\ -W <= 2 * Int64(n) /\ 2 * Int64(n) < W
  <1>1. W \in Nat /\ W # 0 /\ U64 = W /\ Values(8) = W
    BY WAssumption, WordAssumption, FieldSizes
  <1>2. n % W \in Nat /\ n % W < W /\ Congruent(n % W, n, W)
    <2>1. n % W \in Nat /\ n % W < W
      BY ModInAddr, <1>1 DEF Addr
    <2>2. Congruent(n % W, n, W)
      BY <1>1, Remainder
    <2> QED
      BY <2>1, <2>2
  <1>3. Int64(n) = Signed(n % W, 8)
    BY <1>1 DEF Int64
  <1> DEFINE m == n % W
  <1>4. m \in Nat /\ m < Values(8) /\ m \in Int
    BY <1>1, <1>2
  <1>5. /\ Signed(m, 8) \in Int /\ Congruent(Signed(m, 8), m, W)
        /\ -W <= 2 * Signed(m, 8) /\ 2 * Signed(m, 8) < W
    <2> HIDE DEF m
    <2> QED
      BY <1>1, <1>4, SignedValue
  <1>6. Congruent(Signed(m, 8), n, W)
    BY <1>1, <1>2, <1>4, <1>5, CongruentTrans
  <1> QED
    BY <1>3, <1>5, <1>6

\* A *RelocTarget, as the code's types and its int64 arithmetic leave it.
TargetType == [num: Nat \cup {-1}, addr: Addr, addend: Int]

\* An addend is a signed number of 64 bits.
Fitting(t) == t \in TargetType /\ -W <= 2 * t.addend /\ 2 * t.addend < W

\* The constructors of targets cut what they are given to 64 bits.
LEMMA ToSymFits ==
    ASSUME NEW num \in Nat, NEW addend \in Int
    PROVE  /\ Fitting(ToSym(num, addend))
           /\ ToSym(num, addend).num = num /\ num # -1
           /\ Congruent(ToSym(num, addend).addend, addend, W)
  <1>1. ToSym(num, addend) = [num |-> num, addr |-> 0, addend |-> Int64(addend)]
    BY DEF ToSym
  <1>2. 0 \in Addr
    BY WAssumption DEF Addr
  <1> QED
    BY <1>1, <1>2, Int64Value DEF Fitting, TargetType

\* ... also those of addresses.
LEMMA ToAddrFits ==
    ASSUME NEW base \in Int, NEW addend \in Int
    PROVE  /\ Fitting(ToAddr(base, addend))
           /\ ToAddr(base, addend).num = -1
           /\ Congruent(ToAddr(base, addend).addr, base, W)
           /\ Congruent(ToAddr(base, addend).addend, addend, W)
  <1>1. ToAddr(base, addend) = [num |-> -1, addr |-> base % W, addend |-> Int64(addend)]
    BY WordAssumption DEF ToAddr
  <1>2. base % W \in Addr /\ Congruent(base % W, base, W)
    <2>1. W \in Nat /\ W # 0
      BY WAssumption
    <2> QED
      BY <2>1, ModInAddr, Remainder
  <1> QED
    BY <1>1, <1>2, Int64Value DEF Fitting, TargetType

-----------------------------------------------------------------------------
(* Targets.                                                                  *)

\* The fields of a relocation.
LEMMA KindFields ==
    ASSUME NEW r \in Kind
    PROVE  /\ r.type \in GenericTypes \cup Amd64Types /\ r.value \in Nat
           /\ r.pcrel \in BOOLEAN /\ r.extern \in BOOLEAN /\ r.scattered \in BOOLEAN
  BY DEF Kind

\* The targets of 386, kind by kind.
LEMMA GenericTargets ==
    ASSUME NEW r, NEW next, NEW width, NEW after, NEW raw
    PROVE  LET ival == Signed(raw, width)
               from == IF r.pcrel THEN after ELSE 0
               t == GenericTarget(r, next, width, after, raw)
           IN \/ r.type = "VANILLA" /\ r.scattered /\ t = ToAddr(r.value, ival + from)
              \/ r.type = "VANILLA" /\ r.extern /\ t = ToSym(r.value, ival + from)
              \/ r.type = "VANILLA" /\ ~r.extern /\ t = ToAddr(raw + from, 0)
              \/ /\ r.type \in {"SECTDIFF", "LOCAL_SECTDIFF"} /\ next # NoTarget
                 /\ t = ToAddr(r.value, ival + next.value - r.value)
              \/ r.type = "TLV" /\ t = ToSym(r.value, ival)
              \/ t = NoTarget
  BY DEF GenericTarget

\* ... and those of AMD64.
LEMMA Amd64Targets ==
    ASSUME NEW r, NEW width, NEW after, NEW raw
    PROVE  LET t == Amd64Target(r, width, after, raw)
           IN \/ r.extern /\ t = ToSym(r.value, Signed(raw, width) + Trailing(r.type))
              \/ ~r.extern /\ t = ToAddr(raw + after + Trailing(r.type), 0)
              \/ t = NoTarget
  BY DEF Amd64Target

\* How many bytes follow a field.
LEMMA TrailingBytes == \A type : Trailing(type) \in {0, 1, 2, 4}
  BY DEF Trailing

\* What is known of a relocation when its target is computed.
Readable(c, r, next, width, after, raw) ==
    /\ c \in Cpus /\ r \in Kind /\ next \in Kind \cup {NoTarget}
    /\ width \in {2, 4, 8} /\ after \in Addr /\ raw \in Nat /\ raw < Values(width)

\* ... and which numbers the targets are computed from.
LEMMA ReadableNumbers ==
    ASSUME NEW c, NEW r, NEW next, NEW width, NEW after, NEW raw,
           Readable(c, r, next, width, after, raw)
    PROVE  /\ r.value \in Nat /\ raw \in Int /\ after \in Int
           /\ Signed(raw, width) \in Int /\ Trailing(r.type) \in Int
           /\ next # NoTarget => next.value \in Nat
  <1>1. Signed(raw, width) \in Int
    BY SignedValue DEF Readable
  <1>2. Trailing(r.type) \in Int
    BY TrailingBytes
  <1>3. after \in Int
    BY AddrInt DEF Readable
  <1> QED
    BY <1>1, <1>2, <1>3, KindFields DEF Readable

\* Every target fits the fields of a RelocTarget.
LEMMA TargetFitting ==
    ASSUME NEW c, NEW r, NEW next, NEW width, NEW after, NEW raw,
           Readable(c, r, next, width, after, raw),
           Target(c, r, next, width, after, raw) # NoTarget
    PROVE  Fitting(Target(c, r, next, width, after, raw))
  <1> DEFINE ival == Signed(raw, width)
             from == IF r.pcrel THEN after ELSE 0
             tr == Trailing(r.type)
  <1>1. /\ r.value \in Nat /\ raw \in Int /\ after \in Int /\ ival \in Int /\ tr \in Int
        /\ next # NoTarget => next.value \in Nat
    BY ReadableNumbers
  <1>2. from \in Int
    BY <1>1
  <1> HIDE DEF ival, from, tr
  <1>3. CASE c = "386"
    <2>1. Target(c, r, next, width, after, raw) = GenericTarget(r, next, width, after, raw)
      BY <1>3 DEF Target
    <2>2. /\ Fitting(ToAddr(r.value, ival + from)) /\ Fitting(ToSym(r.value, ival + from))
          /\ Fitting(ToAddr(raw + from, 0)) /\ Fitting(ToSym(r.value, ival))
      BY <1>1, <1>2, ToSymFits, ToAddrFits
    <2>3. next # NoTarget => Fitting(ToAddr(r.value, ival + next.value - r.value))
      BY <1>1, ToAddrFits
    <2> QED
      BY <2>1, <2>2, <2>3, GenericTargets DEF ival, from
  <1>4. CASE c = "AMD64"
    <2>1. Target(c, r, next, width, after, raw) = Amd64Target(r, width, after, raw)
      BY <1>4 DEF Target
    <2>2. Fitting(ToSym(r.value, ival + tr)) /\ Fitting(ToAddr(raw + after + tr, 0))
      BY <1>1, ToSymFits, ToAddrFits
    <2> QED
      BY <2>1, <2>2, Amd64Targets DEF ival, tr
  <1>5. CASE c = "ARM"
    BY <1>5 DEF Target
  <1> QED
    BY <1>3, <1>4, <1>5 DEF Readable, Cpus

\* The address that a target stands for, before it is cut to 64 bits.
Sum(t, base) == (IF t.num = -1 THEN t.addr ELSE base) + t.addend

\* The sum of a symbol's target, ...
LEMMA SymSum ==
    ASSUME NEW num \in Nat, NEW addend \in Int, NEW base \in Int
    PROVE  LET t == ToSym(num, addend)
           IN t.num # -1 /\ Sum(t, base) \in Int /\ Congruent(Sum(t, base), base + addend, W)
  <1> DEFINE t == ToSym(num, addend)
  <1>1. t.num # -1 /\ t.addend \in Int /\ Congruent(t.addend, addend, W)
    BY ToSymFits DEF Fitting, TargetType
  <1>2. W \in Nat
    BY WAssumption
  <1> HIDE DEF t
  <1>3. Sum(t, base) = base + t.addend
    BY <1>1 DEF Sum
  <1>4. Congruent(base, base, W)
    BY <1>2, CongruentSelf
  <1>5. Congruent(base + t.addend, base + addend, W)
    BY <1>1, <1>2, <1>4, CongruentSum
  <1>6. t.num # -1 /\ Sum(t, base) \in Int /\ Congruent(Sum(t, base), base + addend, W)
    BY <1>1, <1>3, <1>5
  <1> QED
    BY <1>6 DEF t

\* ... and that of an address.
LEMMA AddrSum ==
    ASSUME NEW from \in Int, NEW addend \in Int, NEW base \in Int
    PROVE  LET t == ToAddr(from, addend)
           IN t.num = -1 /\ Sum(t, base) \in Int /\ Congruent(Sum(t, base), from + addend, W)
  <1> DEFINE t == ToAddr(from, addend)
  <1>1. /\ t.num = -1 /\ t.addr \in Addr /\ t.addend \in Int
        /\ Congruent(t.addr, from, W) /\ Congruent(t.addend, addend, W)
    BY ToAddrFits DEF Fitting, TargetType
  <1>2. W \in Nat /\ t.addr \in Int
    BY <1>1, WAssumption, AddrInt
  <1> HIDE DEF t
  <1>3. Sum(t, base) = t.addr + t.addend
    BY <1>1 DEF Sum
  <1>4. Congruent(t.addr + t.addend, from + addend, W)
    BY <1>1, <1>2, CongruentSum
  <1>5. t.num = -1 /\ Sum(t, base) \in Int /\ Congruent(Sum(t, base), from + addend, W)
    BY <1>1, <1>2, <1>3, <1>4
  <1> QED
    BY <1>5 DEF t

\* What agrees in 64 bits agrees in the address space of the processor.
LEMMA AddressSpaces ==
    ASSUME NEW c \in Cpus
    PROVE  /\ AddressSpace(c) \in Nat /\ AddressSpace(c) # 0
           /\ \A a, b \in Int : Congruent(a, b, W) => Congruent(a, b, AddressSpace(c))
  <1>1. Values(4) \in Nat \ {0} /\ Values(8) \in Nat \ {0} /\ W = Values(4) * Values(4)
        /\ W = Values(8)
    BY FieldSizes
  <1>2. AddressSpace(c) = Values(4) \/ AddressSpace(c) = Values(8)
    BY DEF AddressSpace, AddressWidth
  <1>3. \A a, b \in Int : Congruent(a, b, W) => Congruent(a, b, Values(4))
    BY <1>1, CongruentRoot
  <1> QED
    BY <1>1, <1>2, <1>3

\* Where a field that holds an address is read unsigned although it is signed, it makes no
\* difference if it is as wide as an address.
LEMMA UnsignedField ==
    ASSUME NEW c \in Cpus, NEW width \in {2, 4, 8}, NEW raw \in Nat, raw < Values(width),
           ~(width < AddressWidth(c) /\ Signed(raw, width) < 0)
    PROVE  Congruent(raw, Signed(raw, width), AddressSpace(c))
  <1> DEFINE held == Signed(raw, width)
             space == AddressSpace(c)
  <1>1. /\ held \in Int /\ Congruent(held, raw, Values(width)) /\ Values(width) \in Nat
        /\ held >= 0 => held = raw
    BY SignedValue, FieldSizes
  <1>2. space \in Nat /\ \A a, b \in Int : Congruent(a, b, W) => Congruent(a, b, space)
    BY AddressSpaces
  <1>3. held >= 0 \/ Values(width) = space \/ Values(width) = W
    <2>1. AddressWidth(c) \in {4, 8} /\ space = Values(AddressWidth(c)) /\ W = Values(8)
      BY FieldSizes DEF AddressWidth, AddressSpace
    <2>2. held < 0 => ~(width < AddressWidth(c))
      OBVIOUS
    <2> HIDE DEF held, space
    <2>3. held >= 0 \/ held < 0
      BY <1>1
    <2>4. held < 0 => width = AddressWidth(c) \/ width = 8
      BY <2>1, <2>2
    <2> QED
      BY <2>1, <2>3, <2>4
  <1> HIDE DEF held, space
  <1>4. Congruent(held, raw, space)
    <2>1. raw \in Int /\ Congruent(raw, raw, space)
      BY <1>2, CongruentSelf
    <2>2. CASE held >= 0
      BY <1>1, <2>1, <2>2
    <2>3. CASE Values(width) = space
      BY <1>1, <2>3
    <2>4. CASE Values(width) = W
      BY <1>1, <1>2, <2>1, <2>4
    <2> QED
      BY <1>3, <2>2, <2>3, <2>4
  <1>5. Congruent(raw, held, space)
    <2>1. raw \in Int
      OBVIOUS
    <2> QED
      BY <1>1, <1>2, <1>4, <2>1, CongruentSym
  <1> QED
    BY <1>5 DEF held, space

\* For each processor, a target's sum is the address the relocation means, modulo the
\* address space.
LEMMA TargetRight ==
    ASSUME NEW c, NEW r, NEW next, NEW width, NEW after, NEW raw, NEW base \in Int,
           Readable(c, r, next, width, after, raw), r.type \in TypesOf(c),
           ~KnownWrong(c, r, width, raw),
           Target(c, r, next, width, after, raw) # NoTarget,
           Target(c, r, next, width, after, raw).num = -1 => base = 0
    PROVE  LET t == Target(c, r, next, width, after, raw)
               meant == Meant(c, r, next, width, after, raw, base)
           IN Sum(t, base) \in Int /\ meant \in Int /\ Congruent(Sum(t, base), meant, AddressSpace(c))
  <1> DEFINE t == Target(c, r, next, width, after, raw)
             meant == Meant(c, r, next, width, after, raw, base)
             ival == Signed(raw, width)
             from == IF r.pcrel THEN after ELSE 0
             tr == Trailing(r.type)
             space == AddressSpace(c)
  <1>1. /\ r.value \in Nat /\ raw \in Int /\ after \in Int /\ ival \in Int /\ tr \in Int
        /\ next # NoTarget => next.value \in Nat
    BY ReadableNumbers
  <1>2. from \in Int /\ 0 \in Int
    BY <1>1
  <1>3. c \in Cpus /\ width \in {2, 4, 8} /\ raw \in Nat /\ raw < Values(width)
    BY DEF Readable
  <1>4. space \in Nat /\ \A a, b \in Int : Congruent(a, b, W) => Congruent(a, b, space)
    BY <1>3, AddressSpaces
  <1>5. t # NoTarget /\ (t.num = -1 => base = 0)
    OBVIOUS
  <1>6. CASE c = "386"
    <2>1. t = GenericTarget(r, next, width, after, raw)
      BY <1>6 DEF Target
    <2>2. r.type \in GenericTypes
      BY <1>6 DEF TypesOf
    <2>3. tr = 0
      BY <2>2 DEF GenericTypes, Trailing
    <2>4. CASE r.type = "VANILLA" /\ r.extern /\ t = ToSym(r.value, ival + from)
      <3>1. meant = base + from + ival + tr
        BY <1>6, <2>4 DEF Meant
      <3> HIDE DEF t, meant, ival, from, tr, space
      <3>2. meant = base + (ival + from)
        BY <1>1, <1>2, <2>3, <3>1
      <3>3. ival + from \in Int /\ base + (ival + from) \in Int
        BY <1>1, <1>2
      <3>4. Sum(t, base) \in Int /\ Congruent(Sum(t, base), base + (ival + from), W)
        BY <1>1, <2>4, <3>3, SymSum
      <3> QED
        BY <1>4, <3>2, <3>3, <3>4 DEF t, meant, space
    <2>5. CASE r.type = "VANILLA" /\ ~r.extern /\ t = ToAddr(raw + from, 0)
      <3>1. meant = 0 + from + ival + tr
        BY <1>6, <2>5 DEF Meant
      <3>2. Congruent(raw, ival, space)
        BY <1>3, <2>5, UnsignedField DEF KnownWrong
      <3> HIDE DEF t, meant, ival, from, tr, space
      <3>3. meant = ival + from
        BY <1>1, <1>2, <2>3, <3>1
      <3>4. (raw + from) + 0 = raw + from /\ raw + from \in Int /\ ival + from \in Int
        BY <1>1, <1>2
      <3>5. Sum(t, base) \in Int /\ Congruent(Sum(t, base), (raw + from) + 0, W)
        BY <1>2, <2>5, <3>4, AddrSum
      <3>6. Congruent(Sum(t, base), raw + from, space)
        BY <1>4, <3>4, <3>5
      <3>7. Congruent(raw + from, ival + from, space)
        BY <1>1, <1>2, <1>4, <3>2, CongruentSelf, CongruentSum
      <3>8. Congruent(Sum(t, base), ival + from, space)
        BY <1>4, <3>4, <3>5, <3>6, <3>7, CongruentTrans
      <3> QED
        BY <3>3, <3>4, <3>5, <3>8 DEF t, meant, space
    <2>6. CASE /\ r.type \in {"SECTDIFF", "LOCAL_SECTDIFF"} /\ next # NoTarget
               /\ t = ToAddr(r.value, ival + next.value - r.value)
      <3>1. meant = ival + next.value
        BY <2>6 DEF Meant
      <3> DEFINE v == r.value
                 w == next.value
      <3>2. v \in Nat /\ w \in Nat /\ t = ToAddr(v, ival + w - v)
        BY <1>1, <2>6
      <3> HIDE DEF t, meant, ival, from, tr, space, v, w
      <3>3. ival + w - v \in Int /\ v + (ival + w - v) = ival + w /\ ival + w \in Int
        BY <1>1, <3>2
      <3>4. Sum(t, base) \in Int /\ Congruent(Sum(t, base), v + (ival + w - v), W)
        <4>1. v \in Int
          BY <3>2
        <4> QED
          BY <3>2, <3>3, <4>1, AddrSum
      <3> QED
        BY <1>4, <3>1, <3>3, <3>4 DEF t, meant, space, w
    <2>7. CASE r.type = "TLV" /\ t = ToSym(r.value, ival)
      <3>1. ~r.pcrel
        BY <1>6, <2>7 DEF KnownWrong
      <3>2. meant = base + 0 + ival + tr
        BY <1>6, <2>7, <3>1 DEF Meant
      <3> HIDE DEF t, meant, ival, from, tr, space
      <3>3. meant = base + ival
        BY <1>1, <2>3, <3>2
      <3>4. Sum(t, base) \in Int /\ Congruent(Sum(t, base), base + ival, W) /\ base + ival \in Int
        <4>1. base + ival \in Int
          BY <1>1
        <4> QED
          BY <1>1, <2>7, <4>1, SymSum
      <3> QED
        BY <1>4, <3>3, <3>4 DEF t, meant, space
    <2>8. ~(r.type = "VANILLA" /\ r.scattered)
      BY <1>6 DEF KnownWrong
    <2> QED
      BY <1>5, <2>1, <2>4, <2>5, <2>6, <2>7, <2>8, GenericTargets
  <1>7. CASE c = "AMD64"
    <2>1. t = Amd64Target(r, width, after, raw)
      BY <1>7 DEF Target
    <2>2. r.type \notin {"TLV", "SECTDIFF", "LOCAL_SECTDIFF"}
      BY <1>7 DEF TypesOf, Amd64Types, KnownWrong, SlotTypes
    <2>3. CASE r.extern /\ t = ToSym(r.value, ival + tr)
      <3>1. meant = base + 0 + ival + tr
        BY <1>7, <2>2, <2>3 DEF Meant
      <3> HIDE DEF t, meant, ival, from, tr, space
      <3>2. meant = base + (ival + tr) /\ ival + tr \in Int /\ base + (ival + tr) \in Int
        BY <1>1, <3>1
      <3>3. Sum(t, base) \in Int /\ Congruent(Sum(t, base), base + (ival + tr), W)
        BY <1>1, <2>3, <3>2, SymSum
      <3> QED
        BY <1>4, <3>2, <3>3 DEF t, meant, space
    <2>4. CASE ~r.extern /\ t = ToAddr(raw + after + tr, 0)
      <3>1. r.pcrel
        BY <1>7, <2>4 DEF KnownWrong
      <3>2. meant = 0 + after + ival + tr
        BY <1>7, <2>2, <2>4, <3>1 DEF Meant
      <3>3. Congruent(raw, ival, space)
        BY <1>3, <2>2, <2>4, UnsignedField DEF KnownWrong
      <3> HIDE DEF t, meant, ival, from, tr, space
      <3>4. /\ meant = ival + (after + tr) /\ raw + after + tr = raw + (after + tr)
            /\ after + tr \in Int /\ raw + (after + tr) \in Int /\ ival + (after + tr) \in Int
            /\ (raw + after + tr) + 0 = raw + (after + tr)
        BY <1>1, <3>2
      <3>5. Sum(t, base) \in Int /\ Congruent(Sum(t, base), raw + (after + tr), W)
        BY <1>2, <2>4, <3>4, AddrSum
      <3>6. Congruent(Sum(t, base), raw + (after + tr), space)
        BY <1>4, <3>4, <3>5
      <3>7. Congruent(after + tr, after + tr, space)
        BY <1>4, <3>4, CongruentSelf
      <3>8. Congruent(raw + (after + tr), ival + (after + tr), space)
        BY <1>1, <1>4, <3>3, <3>4, <3>7, CongruentSum
      <3>9. Congruent(Sum(t, base), ival + (after + tr), space)
        BY <1>4, <3>4, <3>5, <3>6, <3>8, CongruentTrans
      <3> QED
        BY <3>4, <3>5, <3>9 DEF t, meant, space
    <2> QED
      BY <1>5, <2>1, <2>3, <2>4, Amd64Targets
  <1>8. CASE c = "ARM"
    BY <1>5, <1>8 DEF Target
  <1> QED
    BY <1>3, <1>6, <1>7, <1>8 DEF Cpus

-----------------------------------------------------------------------------
(* Links.                                                                    *)

\* The names in an entry are those of symbols at its address, and there is one at least.
LEMMA EntryNames ==
    ASSUME IInv, Contents, pc = "ready", NEW v \in Addr, Indexed(v)
    PROVE  /\ Listed(infos[v].indices) # {}
           /\ \A n \in Listed(infos[v].indices) :
                n \in Nat /\ n \in 1..Len(file.syms) /\ file.syms[n].value = v
  <1> DEFINE names == infos[v].indices
             at == {n \in Sectional(file) : file.syms[n].value = v}
             last == Val(Len(ssyms))
  <1>1. at # {}
    <2>1. PICK k \in 1..Len(ssyms) : Val(k) = v
      BY DEF IInv, OnlySymbolsIndexed
    <2> QED
      BY <2>1, PlaceOfSymbol
  <1>2. \A n \in at : n \in Nat /\ n \in 1..Len(file.syms) /\ file.syms[n].value = v
    <2>1. Sectional(file) \subseteq Nat /\ Sectional(file) \subseteq 1..Len(file.syms)
      BY FileFacts DEF IInv, TypeOK, Sectional
    <2> QED
      BY <2>1
  <1>3. IF v = last THEN Len(names) = 1 /\ Listed(names) \subseteq at ELSE Listed(names) = at
    BY ListsRight DEF AliasesListedBelowTop
  <1> HIDE DEF at, last
  <1>4. CASE v = last
    <2>1. names[1] \in Listed(names)
      BY <1>3, <1>4 DEF Listed
    <2> QED
      BY <1>2, <1>3, <1>4, <2>1
  <1>5. CASE v # last
    BY <1>1, <1>2, <1>3, <1>5
  <1> QED
    BY <1>4, <1>5

\* The entry that SymLookup finds holds the address.
LEMMA HitEntry ==
    ASSUME IInv, pc = "ready", NEW a \in Addr, NEW k \in 1..Len(ssyms), Hits(k, a)
    PROVE  /\ Val(k) \in Addr \ {0} /\ Indexed(Val(k)) /\ infos[Val(k)].size \in Nat
           /\ Val(k) \in Int /\ Val(k) <= a /\ a - Val(k) < infos[Val(k)].size
  <1> DEFINE v == Val(k)
             z == infos[v].size
  <1>1. v \in Addr /\ Indexed(v) /\ v # 0 /\ v <= a /\ a < Plus(v, z)
    BY InOrder DEF IInv, IndexedSoFar, Hits, Found
  <1>2. z \in Addr
    <2>1. infos[v] \in InfoType
      BY <1>1 DEF IInv, TypeOK, Indexed
    <2> QED
      BY <2>1 DEF InfoType
  <1> HIDE DEF v, z
  <1>3. v \in Nat /\ z \in Nat /\ a \in Nat
    BY <1>1, <1>2, WAssumption DEF Addr
  <1>4. Plus(v, z) \in Nat /\ Plus(v, z) <= v + z
    BY <1>3, WAssumption DEF Plus
  <1>5. a - v < z
    BY <1>1, <1>3, <1>4
  <1>6. v \in Addr \ {0} /\ Indexed(v) /\ z \in Nat /\ v \in Int /\ v <= a /\ a - v < z
    BY <1>1, <1>3, <1>5
  <1> QED
    BY <1>6 DEF v, z

\* The relocation of the cell, as it was read.
CellRead ==
    /\ pc = "ready"
    /\ Readable(cpu, cell.kind, cell.next, cell.width, cell.after, cell.raw)
    /\ cell.kind.type \in TypesOf(cpu)
    /\ cell.target = Target(cpu, cell.kind, cell.next, cell.width, cell.after, cell.raw)
    /\ cell.links = Links(cell.target, cell.width)

\* A link that leads to symbol n of the entry at v.
AliasLink(v, n, a, width) ==
    SymbolLink(n - 1, a - v, IF a = v THEN NotANumber ELSE width)

\* The three ways a link is made.
LEMMA LinkOrigin ==
    ASSUME NEW t, NEW width, NEW link \in Links(t, width)
    PROVE  /\ t # NoTarget
           /\ \/ t.num # -1 /\ t.num < Len(file.syms) /\ link = SymbolLink(t.num, t.addend, width)
              \/ t.num = -1 /\ link = AddressLink(TargetAddr(t), width)
              \/ /\ t.num = -1
                 /\ \E k \in 1..Len(ssyms) :
                      /\ Hits(k, TargetAddr(t))
                      /\ \E n \in Listed(infos[Val(k)].indices) :
                           link = AliasLink(Val(k), n, TargetAddr(t), width)
  <1>1. t # NoTarget
    BY DEF Links
  <1>2. CASE t.num # -1
    BY <1>1, <1>2 DEF Links, NumLinks
  <1>3. CASE t.num = -1
    <2> DEFINE a == TargetAddr(t)
               hits == {k \in 1..Len(ssyms) : Hits(k, a)}
    <2>1. link \in AddrLinks(a, width)
      BY <1>1, <1>3 DEF Links
    <2>2. CASE hits = {}
      BY <1>1, <1>3, <2>1, <2>2 DEF AddrLinks
    <2>3. CASE hits # {}
      <3>1. PICK k \in hits : link \in AliasLinks(Val(k), a, width)
        BY <2>1, <2>3 DEF AddrLinks
      <3>2. \E n \in Listed(infos[Val(k)].indices) : link = AliasLink(Val(k), n, a, width)
        BY <3>1 DEF AliasLinks, AliasLink
      <3> QED
        BY <1>1, <1>3, <3>1, <3>2
    <2> QED
      BY <2>2, <2>3
  <1> QED
    BY <1>2, <1>3

\* What the cell holds.
LEMMA CellFacts ==
    ASSUME CellRead
    PROVE  /\ cell.width \in {2, 4, 8}
           /\ cell.target # NoTarget =>
                /\ Fitting(cell.target) /\ cell.target.addend \in Int /\ cell.target.num \in Int
                /\ TargetAddr(cell.target) \in Addr
  <1> DEFINE t == cell.target
  <1>1. cell.width \in {2, 4, 8} /\ (t # NoTarget => Fitting(t))
    BY TargetFitting DEF CellRead, Readable
  <1>2. ASSUME Fitting(t) PROVE t.addend \in Int /\ t.num \in Int /\ TargetAddr(t) \in Addr
    <2>1. t.addr \in Addr /\ t.addend \in Int /\ t.num \in Int
      BY <1>2 DEF Fitting, TargetType
    <2>2. t.addr + t.addend \in Int
      BY <2>1, AddrInt
    <2> QED
      BY <2>1, <2>2, ModInAddr DEF TargetAddr, Plus
  <1> QED
    BY <1>1, <1>2

\* Every link leads to the address of the target.
LEMMA LinkRight ==
    ASSUME IInv, Contents, CellRead, NEW link \in cell.links
    PROVE  /\ cell.target # NoTarget /\ (cell.target.num = -1 \/ cell.target.num < Len(file.syms))
           /\ LinkAddr(link) = CellAddr
           /\ link.path \in {"symbol", "address"} /\ link.num \in Int
  <1> DEFINE t == cell.target
             a == TargetAddr(t)
  <1>1. link \in Links(t, cell.width) /\ pc = "ready"
    BY DEF CellRead
  <1>2. t # NoTarget /\ t.addend \in Int /\ t.num \in Int /\ a \in Addr
    BY <1>1, LinkOrigin, CellFacts
  <1>3. CASE t.num # -1 /\ t.num < Len(file.syms) /\ link = SymbolLink(t.num, t.addend, cell.width)
    BY <1>2, <1>3 DEF SymbolLink, LinkAddr, CellAddr
  <1>4. CASE t.num = -1 /\ link = AddressLink(a, cell.width)
    BY <1>2, <1>4, AddrInt DEF AddressLink, LinkAddr, CellAddr
  <1>5. ASSUME t.num = -1, NEW k \in 1..Len(ssyms), Hits(k, a),
               NEW n \in Listed(infos[Val(k)].indices), link = AliasLink(Val(k), n, a, cell.width)
        PROVE  LinkAddr(link) = CellAddr /\ link.path = "symbol" /\ link.num \in Int
    <2> DEFINE v == Val(k)
    <2>1. v \in Addr /\ Indexed(v)
      BY <1>1, <1>2, <1>5, HitEntry
    <2>2. n \in Nat /\ file.syms[n].value = v
      BY <1>1, <1>5, <2>1, EntryNames
    <2>3. link.path = "symbol" /\ link.num = n - 1 /\ link.addend = a - v
      BY <1>5 DEF AliasLink, SymbolLink
    <2> HIDE DEF v, a
    <2>4. v \in Int /\ a \in Int /\ n - 1 \in Int /\ n - 1 + 1 = n
      BY <1>2, <2>1, <2>2, AddrInt
    <2>5. SymAddr(link.num) = v
      BY <2>2, <2>3, <2>4 DEF SymAddr
    <2>6. v + (a - v) = a
      BY <2>4
    <2>7. Plus(v, a - v) = a
      BY <1>2, <2>6, NoWrap DEF Plus
    <2>8. LinkAddr(link) = a
      BY <2>3, <2>5, <2>7 DEF LinkAddr
    <2>9. CellAddr = a
      BY <1>5 DEF CellAddr, a
    <2> QED
      BY <2>3, <2>4, <2>8, <2>9
  <1> QED
    BY <1>1, <1>2, <1>3, <1>4, <1>5, LinkOrigin

\* The search finds one entry at most.
LEMMA OneFound ==
    ASSUME IInv, NEW a \in Addr, NEW j \in 1..Len(ssyms), NEW k \in 1..Len(ssyms),
           Found(j, a), Found(k, a)
    PROVE  j = k
  <1>1. pc # "sort"
    BY DEF IInv, SortedSoFar
  <1>2. Len(ssyms) \in Nat /\ Val(j) \in Int /\ Val(k) \in Int /\ a \in Int
    BY <1>1, InOrder, AddrInt
  <1>3. ~(j < k)
    <2> SUFFICES ASSUME j < k PROVE FALSE
      OBVIOUS
    <2>1. a < Val(k)
      BY <1>2 DEF Found
    <2>2. Val(k) <= a
      BY DEF Found
    <2> QED
      BY <1>2, <2>1, <2>2
  <1>4. ~(k < j)
    <2> SUFFICES ASSUME k < j PROVE FALSE
      OBVIOUS
    <2>1. a < Val(j)
      BY <1>2 DEF Found
    <2>2. Val(j) <= a
      BY DEF Found
    <2> QED
      BY <1>2, <2>1, <2>2
  <1> QED
    BY <1>2, <1>3, <1>4

\* An address that entry v holds is found there, and has a link for each of its names.
LEMMA LinksNameAll ==
    ASSUME IInv, Contents, pc = "ready", WellFormed(file), NEW a \in Addr,
           NEW v \in Addr \ {0}, Indexed(v), v <= a, a < Plus(v, infos[v].size), NEW width
    PROVE  {link.num + 1 : link \in AddrLinks(a, width)} = Listed(infos[v].indices)
  <1> DEFINE names == Listed(infos[v].indices)
             hits == {k \in 1..Len(ssyms) : Hits(k, a)}
  <1>1. /\ infos[v].size \in Nat /\ v \in Nat /\ a \in Int /\ a < v + infos[v].size
        /\ Plus(v, infos[v].size) = v + infos[v].size
    BY EntryInSpace, AddrInt
  <1>2. PICK k \in 1..Len(ssyms) : Found(k, a)
    <2>1. PICK h \in 1..Len(ssyms) : Val(h) = v
      BY DEF IInv, OnlySymbolsIndexed
    <2> QED
      BY <1>1, <2>1, SearchFinds
  <1>3. Val(k) = v
    BY <1>1, <1>2, SearchFindsHolder
  <1>4. Hits(k, a)
    BY <1>2, <1>3 DEF Hits
  <1>5. hits = {k}
    BY <1>2, <1>4, OneFound DEF Hits
  <1>6. AddrLinks(a, width) = AliasLinks(v, a, width)
    BY <1>3, <1>5 DEF AddrLinks
  <1>7. \A n \in names : n \in Nat
    BY EntryNames
  <1>8. AliasLinks(v, a, width) = {AliasLink(v, n, a, width) : n \in names}
    BY DEF AliasLinks, AliasLink
  <1>9. \A n \in names : AliasLink(v, n, a, width).num + 1 = n
    <2>1. \A n \in Nat : n - 1 + 1 = n
      OBVIOUS
    <2> QED
      BY <1>7, <2>1 DEF AliasLink, SymbolLink
  <1> HIDE DEF names, hits
  <1>10. {link.num + 1 : link \in {AliasLink(v, n, a, width) : n \in names}} = names
    BY <1>9
  <1> QED
    BY <1>6, <1>8, <1>10 DEF names

\* The links of a row are right.
LEMMA LinksLead ==
    ASSUME IInv, Contents, CellRead
    PROVE  LinksLeadToTarget
  <1> SUFFICES ASSUME HasTarget
               PROVE  /\ cell.links # {}
                      /\ \A link \in cell.links : LinkAddr(link) = CellAddr
                      /\ cell.target.num = -1 =>
                           \A v \in Addr \ {0} :
                               /\ Indexed(v) /\ v <= CellAddr /\ CellAddr < Plus(v, infos[v].size)
                               /\ WellFormed(file)
                               => {link.num + 1 : link \in cell.links} = Listed(infos[v].indices)
    BY DEF LinksLeadToTarget
  <1> DEFINE t == cell.target
             a == TargetAddr(t)
  <1>1. /\ pc = "ready" /\ cell.links = Links(t, cell.width)
        /\ t # NoTarget /\ (t.num = -1 \/ t.num < Len(file.syms)) /\ a \in Addr
    BY CellFacts DEF CellRead, HasTarget
  <1>2. cell.links # {}
    <2>1. CASE t.num # -1
      BY <1>1, <2>1 DEF Links, NumLinks
    <2>2. CASE t.num = -1
      <3> DEFINE hits == {k \in 1..Len(ssyms) : Hits(k, a)}
      <3>1. cell.links = AddrLinks(a, cell.width)
        BY <1>1, <2>2 DEF Links
      <3>2. CASE hits = {}
        BY <3>1, <3>2 DEF AddrLinks
      <3>3. CASE hits # {}
        <4>1. PICK k \in hits : TRUE
          BY <3>3
        <4>2. Val(k) \in Addr /\ Indexed(Val(k))
          BY <1>1, <4>1, HitEntry
        <4>3. PICK n \in Listed(infos[Val(k)].indices) : TRUE
          BY <1>1, <4>2, EntryNames
        <4>4. AliasLink(Val(k), n, a, cell.width) \in AliasLinks(Val(k), a, cell.width)
          BY <4>3 DEF AliasLinks, AliasLink
        <4> QED
          BY <3>1, <3>3, <4>1, <4>4 DEF AddrLinks
      <3> QED
        BY <3>2, <3>3
    <2> QED
      BY <2>1, <2>2
  <1>3. \A link \in cell.links : LinkAddr(link) = CellAddr
    BY LinkRight
  <1>4. ASSUME t.num = -1, NEW v \in Addr \ {0}, Indexed(v), v <= CellAddr,
               CellAddr < Plus(v, infos[v].size), WellFormed(file)
        PROVE  {link.num + 1 : link \in cell.links} = Listed(infos[v].indices)
    <2>1. CellAddr = a /\ cell.links = AddrLinks(a, cell.width)
      BY <1>1, <1>4 DEF CellAddr, Links
    <2> HIDE DEF a
    <2> QED
      BY <1>1, <1>4, <2>1, LinksNameAll
  <1> QED
    BY <1>2, <1>3, <1>4

\* The target's address is the one the relocation means.
LEMMA MeaningRight ==
    ASSUME IInv, CellRead
    PROVE  TargetMeant
  <1> DEFINE t == cell.target
             base == IF t.num = -1 THEN 0 ELSE SymAddr(t.num)
  <1>1. TargetFits
    <2>1. t # NoTarget => Fitting(t)
      BY TargetFitting DEF CellRead
    <2> QED
      BY <2>1 DEF TargetFits, Fitting, TargetType
  <1>2. ASSUME HasTarget, ~KnownWrong(cpu, cell.kind, cell.width, cell.raw)
        PROVE  LET meant == Meant(cpu, cell.kind, cell.next, cell.width, cell.after, cell.raw, base)
               IN (CellAddr - meant) % AddressSpace(cpu) = 0
    <2> DEFINE meant == Meant(cpu, cell.kind, cell.next, cell.width, cell.after, cell.raw, base)
               space == AddressSpace(cpu)
    <2>1. t # NoTarget /\ (t.num = -1 \/ t.num < Len(file.syms)) /\ Fitting(t)
      BY <1>2, TargetFitting DEF HasTarget, CellRead
    <2>2. base \in Int /\ t.num \in Nat \cup {-1} /\ t.addend \in Int /\ t.addr \in Addr
      <3>1. t.num \in Nat \cup {-1} /\ t.addend \in Int /\ t.addr \in Addr
        BY <2>1 DEF Fitting, TargetType
      <3>2. CASE t.num = -1
        BY <3>1, <3>2
      <3>3. CASE t.num # -1
        <4>1. file.syms \in Seq(Symbol)
          BY FileFacts DEF IInv, TypeOK
        <4>2. t.num + 1 \in 1..Len(file.syms)
          BY <2>1, <3>1, <3>3, <4>1
        <4>3. file.syms[t.num + 1] \in Symbol
          BY <4>1, <4>2
        <4>4. SymAddr(t.num) \in Addr
          BY <4>3 DEF SymAddr, Symbol
        <4> QED
          BY <3>1, <3>3, <4>4, AddrInt
      <3> QED
        BY <3>2, <3>3
    <2>3. cpu \in Cpus
      BY DEF CellRead, Readable
    <2>4. Sum(t, base) \in Int /\ meant \in Int /\ Congruent(Sum(t, base), meant, space)
      <3>1. t.num = -1 => base = 0
        OBVIOUS
      <3> HIDE DEF base
      <3> QED
        BY <1>2, <2>1, <2>2, <3>1, TargetRight DEF CellRead
    <2>5. CellAddr = Sum(t, base) % W
      BY DEF CellAddr, TargetAddr, Plus, Sum
    <2>6. space \in Nat /\ space # 0 /\ \A x, y \in Int : Congruent(x, y, W) => Congruent(x, y, space)
      BY <2>3, AddressSpaces
    <2> HIDE DEF t, base, meant, space
    <2>7. CellAddr \in Int /\ Congruent(CellAddr, Sum(t, base), W)
      <3>1. W \in Nat /\ W # 0
        BY WAssumption
      <3> QED
        BY <2>4, <2>5, <3>1, Remainder
    <2>8. Congruent(CellAddr, meant, space)
      BY <2>4, <2>6, <2>7, CongruentTrans
    <2>9. (CellAddr - meant) % space = 0
      BY <2>4, <2>6, <2>7, <2>8, CongruentDifference
    <2> QED
      BY <2>9 DEF meant, space
  <1> QED
    BY <1>1, <1>2 DEF TargetMeant

-----------------------------------------------------------------------------
(* The steps.                                                                *)

\* The two kinds of windows, as NewAnchorWidget and the buttons leave them.
SectWin(n, a, checked, m) ==
    [kind |-> "section", sect |-> n, addr |-> a, checked |-> checked, shown |-> m]
SymWin(n, checked, m) == [kind |-> "symbol", sym |-> n, checked |-> checked, shown |-> m]

WindowMade ==
    \/ window \in {NoWindow, Blank}
    \/ /\ window.kind = "section"
       /\ window = SectWin(window.sect, window.addr, window.checked, window.shown)
    \/ /\ window.kind = "symbol"
       /\ window = SymWin(window.sym, window.checked, window.shown)
       /\ window.sym \in 1..Len(file.syms)
       /\ window.shown # Nil => window.shown.sym = window.sym

\* What makes the links' properties inductive: the index is complete, and the cell
\* holds what was read and computed for one relocation of it.
CellInv ==
    /\ IInv /\ Contents
    /\ cpu \in Cpus
    /\ cell # Nil => CellRead
    /\ crashed \/ window # NoWindow => cell # Nil

\* What holds of a window.
WindowInv == WindowMade /\ SectionWindowRight

\* The inductive invariant.
AnchorInv == CellInv /\ WindowInv /\ DiesOnlyOfBadLinks

\* The index is built before a relocation is shown, and queries leave it alone.
LEMMA IndexSteps == [AnchorNext]_anchorVars => [Next]_vars
  BY DEF AnchorNext, anchorVars, Next, ShowReloc, Click, ClickView, Close

\* No view runs before the index is ready.
LEMMA BuildsFirst == Build => pc # "ready"
  BY DEF Build, SortSymbols, GroupRun, GroupAliasesOfLast, GroupLast, AttachReloc, AtReloc,
     SkipReloc, NextSection, Finish

\* The file stays the one that was opened.
LEMMA FileKept == [Next]_vars => file' = file
  BY DEF Next, vars, Build, SortSymbols, GroupRun, GroupAliasesOfLast, GroupLast, AttachReloc, AtReloc,
     SkipReloc, NextSection, Finish, SymLookup

\* The row of a relocation is read as a whole.
LEMMA ShowKeeps ==
    ASSUME CellInv, NEW s \in 1..Len(file.sects), NEW k \in 1..Len(file.sects[s].relocs),
           ShowReloc(s, k)
    PROVE  cell' # Nil => CellRead'
  <1> DEFINE reloc == file.sects[s].relocs[k]
             width == reloc.width
             after == Plus(RelocAddr(s, reloc), width)
  <1>1. PICK r \in Kinds, next \in Kinds \cup {NoTarget}, raw \in Raws :
          LET t == Target(cpu, r, next, width, after, raw)
          IN /\ width # 1 /\ raw < Values(width) /\ r.type \in TypesOf(cpu)
             /\ cell' = [kind |-> r, next |-> next, width |-> width, after |-> after,
                         raw |-> raw, target |-> t, links |-> Links(t, width)]
    BY DEF ShowReloc
  <1>2. pc = "ready" /\ UNCHANGED <<vars, cpu>>
    BY DEF ShowReloc
  <1>3. width \in {2, 4, 8} /\ after \in Addr
    <2>1. file.sects[s] \in Section
      BY FileFacts DEF CellInv, IInv, TypeOK
    <2>2. reloc \in Reloc /\ file.sects[s].addr \in Addr
      BY <2>1 DEF Section
    <2>3. width \in {1, 2, 4, 8} /\ reloc.addr \in Addr
      BY <2>2 DEF Reloc
    <2>4. width \in Addr
      BY <2>3, WAssumption DEF Addr
    <2>5. after \in Addr
      BY <2>2, <2>3, <2>4, ArithInAddr DEF RelocAddr
    <2> QED
      BY <1>1, <2>3, <2>5
  <1> HIDE DEF reloc, width, after
  <1>4. Readable(cpu, r, next, width, after, raw)
    <2>1. r \in Kind /\ next \in Kind \cup {NoTarget} /\ raw \in Nat
      BY AnchorAssumption
    <2> QED
      BY <1>1, <1>3, <2>1 DEF Readable, CellInv
  <1>5. PICK t : t = Target(cpu, r, next, width, after, raw)
    OBVIOUS
  <1>6. cell'.kind = r /\ cell'.next = next /\ cell'.width = width /\ cell'.after = after
        /\ cell'.raw = raw /\ cell'.target = t /\ cell'.links = Links(t, width)
    BY <1>1, <1>5
  <1>7. pc' = "ready" /\ cpu' = cpu /\ UNCHANGED <<file, ssyms, infos>>
    BY <1>2 DEF vars
  <1>8. Readable(cpu', cell'.kind, cell'.next, cell'.width, cell'.after, cell'.raw)
        /\ cell'.kind.type \in TypesOf(cpu')
        /\ cell'.target = Target(cpu', cell'.kind, cell'.next, cell'.width, cell'.after, cell'.raw)
    BY <1>1, <1>4, <1>5, <1>6, <1>7
  <1>9. cell'.links = Links(cell.target, cell.width)'
    <2>1. Links(cell.target, cell.width)' = Links(cell'.target, cell'.width)
      BY <1>7 DEF Links, NumLinks, AddrLinks, AliasLinks, Hits, Found, Val, Sym
    <2> QED
      BY <1>6, <2>1
  <1> QED
    BY <1>7, <1>8, <1>9 DEF CellRead

\* What the cell means depends on the index and the file alone.
LEMMA CellSame ==
    ASSUME UNCHANGED <<vars, cpu, cell>>
    PROVE  /\ CellRead' <=> CellRead
           /\ (CellAddr' = CellAddr) /\ \A v : Indexed(v)' <=> Indexed(v)
  <1>1. pc' = pc /\ cpu' = cpu /\ cell' = cell /\ UNCHANGED <<file, ssyms, infos>>
    BY DEF vars
  <1>2. CellRead' <=> CellRead
    BY <1>1 DEF CellRead, Links, NumLinks, AddrLinks, AliasLinks, Hits, Found, Val, Sym
  <1> QED
    BY <1>1, <1>2 DEF CellAddr, SymAddr, Indexed

\* Every step keeps the index right, and the cell what was read.
LEMMA CellStep == CellInv /\ [AnchorNext]_anchorVars => CellInv'
  <1> SUFFICES ASSUME CellInv, [AnchorNext]_anchorVars PROVE CellInv'
    OBVIOUS
  <1>1. IInv' /\ Contents'
    BY IndexSteps, StepInv, ContentsStep DEF CellInv
  <1>2. cpu' = cpu
    BY DEF AnchorNext, anchorVars, ShowReloc, Click, ClickView, Close
  <1>3. (cell' # Nil => CellRead') /\ (crashed' \/ window' # NoWindow => cell' # Nil)
    <2>1. CASE Build /\ UNCHANGED <<cpu, cell, window, crashed>>
      BY <2>1, BuildsFirst DEF CellInv, CellRead
    <2>2. ASSUME NEW s \in 1..Len(file.sects), NEW k \in 1..Len(file.sects[s].relocs),
                 ShowReloc(s, k)
          PROVE  (cell' # Nil => CellRead') /\ (crashed' \/ window' # NoWindow => cell' # Nil)
      <3>1. cell = Nil /\ crashed' = crashed /\ window' = window
        BY <2>2 DEF ShowReloc
      <3> QED
        BY <2>2, <3>1, ShowKeeps DEF CellInv
    <2>3. ASSUME cell # Nil, NEW link \in cell.links, Click(link)
          PROVE  (cell' # Nil => CellRead') /\ (crashed' \/ window' # NoWindow => cell' # Nil)
      <3>1. UNCHANGED <<vars, cpu, cell>>
        BY <2>3 DEF Click
      <3> QED
        BY <2>3, <3>1, CellSame DEF CellInv
    <2>4. ASSUME NEW typ \in SymLabels, ClickView(typ)
          PROVE  (cell' # Nil => CellRead') /\ (crashed' \/ window' # NoWindow => cell' # Nil)
      <3>1. UNCHANGED <<vars, cpu, cell>> /\ window # NoWindow
        BY <2>4 DEF ClickView, NoWindow
      <3> QED
        BY <3>1, CellSame DEF CellInv
    <2>5. CASE Close
      BY <2>5 DEF Close
    <2>6. CASE UNCHANGED anchorVars
      <3>1. UNCHANGED <<vars, cpu, cell>> /\ crashed' = crashed /\ window' = window
        BY <2>6 DEF anchorVars
      <3> QED
        BY <3>1, CellSame DEF CellInv
    <2> QED
      BY <2>1, <2>2, <2>3, <2>4, <2>5, <2>6 DEF AnchorNext
  <1> QED
    BY <1>1, <1>2, <1>3 DEF CellInv

-----------------------------------------------------------------------------
(* Windows.                                                                  *)

\* A section's bounds are numbers, and what the code compares is within them.
LEMMA Bounds ==
    ASSUME TypeOK, NEW n \in 1..Len(file.sects), NEW a \in Int
    PROVE  /\ InSect(n, a) => SectionHolds(n, a)
           /\ SectsInSpace /\ SectionHolds(n, a) => InSect(n, a)
  <1> DEFINE from == file.sects[n].addr
             size == file.sects[n].size
             wrapped == Plus(from, size)
  <1>1. from \in Addr /\ size \in Addr
    BY SectFacts
  <1>2. from + size \in Nat /\ wrapped \in Nat /\ wrapped <= from + size
    <2>1. from \in Nat /\ size \in Nat
      BY <1>1, WAssumption DEF Addr
    <2> HIDE DEF from, size
    <2> QED
      BY <2>1, WAssumption DEF Plus
  <1>3. SectsInSpace => wrapped = from + size
    <2>1. from + size < W => wrapped = from + size
      BY <1>1, ArithExact
    <2> QED
      BY <2>1 DEF SectsInSpace, SectEnd
  <1>4. (InSect(n, a) <=> from <= a /\ a < wrapped) /\ (SectionHolds(n, a) <=> from <= a /\ a < from + size)
    BY DEF InSect, SectionHolds, SectEnd
  <1> HIDE DEF from, size, wrapped
  <1> QED
    BY <1>2, <1>3, <1>4

\* Before the first section that is found, and if none is, no section holds the address.
LEMMA NoneBefore ==
    ASSUME TypeOK, NEW a \in Int, NEW last \in 1..(Len(file.sects) + 1),
           \A m \in Holding(a) : last <= m
    PROVE  NoneHolds(last, a)
  <1> SUFFICES ASSUME SectsInSpace, NEW n \in 1..(last - 1), SectionHolds(n, a) PROVE FALSE
    BY DEF NoneHolds
  <1>1. Len(file.sects) \in Nat
    BY FileFacts DEF TypeOK
  <1>2. n \in 1..Len(file.sects) /\ ~(last <= n)
    BY <1>1
  <1>3. InSect(n, a)
    BY <1>2, Bounds
  <1> QED
    BY <1>2, <1>3 DEF Holding

\* What NewSectionModel may have made of a window.
LEMMA SectionModel ==
    ASSUME NEW w, NEW typ, NewSectionModel(w, typ)
    PROVE  \E m \in {Nil, SectView(w.sect, typ)} :
             /\ window' = [w EXCEPT !.shown = m]
             /\ \/ crashed' = crashed
                \/ crashed' = TRUE /\ (typ = "EHFrame" \/ OddRows(SectView(w.sect, typ)))
  BY DEF NewSectionModel, Show, DieIn

\* ... and NewSymbolModel.
LEMMA SymbolModel ==
    ASSUME NEW w, NEW typ, NewSymbolModel(w, typ)
    PROVE  \E m \in {Nil, SymView(w.sym, typ)} :
             /\ window' = [w EXCEPT !.shown = m]
             /\ \/ crashed' = crashed
                \/ /\ crashed' = TRUE
                   /\ \/ typ = "EHFrame"
                      \/ OddRows(SymView(w.sym, typ))
                      \/ SymbolBytes(w.sym) = "panic"
  BY DEF NewSymbolModel, Show, DieIn

\* What a table may be fatal of is a matter of the file and the index, which stay.
LEMMA OddTableKept ==
    ASSUME UNCHANGED vars, NEW w, w = window', OddTable(w)
    PROVE  OddTable(window)'
  <1>1. file' = file /\ infos' = infos
    BY DEF vars
  <1>2. \A v : OddRows(v)' <=> OddRows(v)
    BY <1>1, OddRowsSame
  <1>3. \A a : OddSymbol(a)' <=> OddSymbol(a)
    BY <1>1 DEF OddSymbol, Stray, Sectional, HasSect, SectEnd
  <1>4. OddTable(w)' <=> OddTable(w)
    BY <1>1, <1>2, <1>3 DEF OddTable, SectView, SymView
  <1> QED
    BY <1>4 DEF OddTable

\* Only symbols whose sections are odd have bytes there is no room for, or no section.
LEMMA OddBytes ==
    ASSUME CellInv, cell # Nil, NEW n \in Sectional(file), SymbolBytes(n) = "panic"
    PROVE  OddSymbol(file.syms[n].value)
  BY BytesPanic DEF CellInv, CellRead

\* The window that a link to an address opens.
LEMMA SectionOpened ==
    ASSUME TypeOK, NEW a \in Int, NEW n \in Holding(a), \A m \in Holding(a) : n <= m,
           SectionWindow(n, a), UNCHANGED vars
    PROVE  /\ WindowInv'
           /\ window'.kind = "section" /\ window'.addr = a
           /\ crashed' => crashed \/ OddTable(window)'
  <1> DEFINE typ == SectType[n]
             checked == CheckedFor(typ)
             w == SectWin(n, a, checked, Nil)
  <1>1. n \in 1..Len(file.sects) /\ InSect(n, a) /\ file' = file
    BY DEF Holding, vars
  <1>2. typ \in Labels \cup {"EHFrame"} /\ Nil \notin SymLabels
    BY <1>1, AnchorAssumption DEF TypeOK
  <1>3. checked = IF typ = "EHFrame" THEN Nil ELSE typ
    BY <1>2 DEF CheckedFor, Labels
  <1>4. PICK m \in {Nil, SectView(n, typ)} :
          /\ window' = SectWin(n, a, checked, m)
          /\ \/ crashed' = crashed
             \/ crashed' = TRUE /\ (typ = "EHFrame" \/ OddRows(SectView(n, typ)))
    <2>1. NewSectionModel(w, typ) /\ w.sect = n
      BY DEF SectionWindow, SectWin
    <2>2. PICK m \in {Nil, SectView(w.sect, typ)} :
            /\ window' = [w EXCEPT !.shown = m]
            /\ \/ crashed' = crashed
               \/ crashed' = TRUE /\ (typ = "EHFrame" \/ OddRows(SectView(w.sect, typ)))
      BY <2>1, SectionModel
    <2>3. [w EXCEPT !.shown = m] = SectWin(n, a, checked, m)
      BY DEF SectWin
    <2> QED
      BY <2>1, <2>2, <2>3
  <1> HIDE DEF typ, checked, w
  <1>5. /\ window'.kind = "section" /\ window'.sect = n /\ window'.addr = a
        /\ window'.checked = checked /\ window'.shown = m
    BY <1>4 DEF SectWin
  <1>6. SectionHolds(n, a) /\ NoneHolds(n, a)
    <2>1. Len(file.sects) \in Nat
      BY FileFacts DEF TypeOK
    <2>2. n \in 1..(Len(file.sects) + 1)
      BY <1>1, <2>1
    <2> QED
      BY <1>1, <2>2, Bounds, NoneBefore
  <1>7. WindowMade'
    BY <1>4, <1>5 DEF WindowMade
  <1>8. SectionHolds(window.sect, window.addr)' /\ NoneHolds(window.sect, window.addr)'
    BY <1>1, <1>5, <1>6 DEF SectionHolds, NoneHolds, SectsInSpace, SectEnd
  <1>9. /\ m # Nil => m.sect = n /\ m.typ = typ
        /\ checked # Nil => typ = checked
        /\ checked = Nil => m \in {Nil, SectView(n, "EHFrame")}
    <2>1. m # Nil => m.sect = n /\ m.typ = typ
      BY <1>4 DEF SectView
    <2>2. checked # Nil => typ = checked
      BY <1>3
    <2>3. checked = Nil => typ = "EHFrame"
      BY <1>2, <1>3 DEF SymLabels
    <2> QED
      BY <1>4, <2>1, <2>2, <2>3
  <1>10. SectionWindowRight'
    BY <1>5, <1>8, <1>9 DEF SectionWindowRight, SectView
  <1>11. ASSUME crashed' # crashed PROVE OddTable(window)'
    <2>1. PICK win : win = window'
      OBVIOUS
    <2>2. typ = "EHFrame" \/ (checked = typ /\ checked # Nil /\ OddRows(SectView(n, typ)))
      BY <1>2, <1>3, <1>4, <1>11 DEF SymLabels
    <2>3. win.kind = "section" /\ win.sect = n /\ win.checked = checked
      BY <1>5, <2>1
    <2>4. CASE typ = "EHFrame"
      <3>1. checked = Nil /\ SectType[n] = "EHFrame"
        BY <1>3, <2>4 DEF typ
      <3> QED
        BY <1>1, <2>1, <2>3, <3>1, OddTableKept DEF OddTable
    <2>5. CASE checked = typ /\ checked # Nil /\ OddRows(SectView(n, typ))
      BY <2>1, <2>3, <2>5, OddTableKept DEF OddTable
    <2> QED
      BY <2>2, <2>4, <2>5
  <1> QED
    BY <1>5, <1>7, <1>10, <1>11 DEF WindowInv

\* The window that a link to a symbol opens.
LEMMA SymbolOpened ==
    ASSUME CellInv, cell # Nil, UNCHANGED vars, NEW n \in 1..Len(file.syms), SymbolWindow(n)
    PROVE  /\ WindowInv'
           /\ window'.kind = "symbol" /\ window'.sym = n
           /\ window'.shown # Nil => window'.shown.sym = n
           /\ crashed' => crashed \/ OddTable(window)'
  <1> DEFINE typ == GuessSymType(n)
             checked == CheckedFor(typ)
             w == SymWin(n, checked, Nil)
             odd == \/ typ = "EHFrame"
                    \/ OddRows(SymView(n, typ))
                    \/ SymbolBytes(n) = "panic"
  <1>1. w.sym = n /\ \A m : [w EXCEPT !.shown = m] = SymWin(n, checked, m)
    BY DEF SymWin
  <1>2. \/ typ = "" /\ Show(w, Nil)
        \/ typ # "" /\ NewSymbolModel(w, typ)
    BY DEF SymbolWindow, SymWin
  <1>3. PICK m \in {Nil, SymView(n, typ)} :
          /\ window' = SymWin(n, checked, m)
          /\ crashed' = crashed \/ (crashed' = TRUE /\ typ # "" /\ odd)
    <2>1. CASE typ = "" /\ Show(w, Nil)
      <3>1. window' = SymWin(n, checked, Nil) /\ crashed' = crashed
        BY <1>1, <2>1 DEF Show
      <3> QED
        BY <3>1
    <2>2. CASE typ # "" /\ NewSymbolModel(w, typ)
      <3>1. PICK m \in {Nil, SymView(w.sym, typ)} :
              /\ window' = [w EXCEPT !.shown = m]
              /\ \/ crashed' = crashed
                 \/ /\ crashed' = TRUE
                    /\ \/ typ = "EHFrame"
                       \/ OddRows(SymView(w.sym, typ))
                       \/ SymbolBytes(w.sym) = "panic"
        BY <2>2, SymbolModel
      <3>2. m \in {Nil, SymView(n, typ)} /\ window' = SymWin(n, checked, m)
        BY <1>1, <3>1
      <3> QED
        BY <1>1, <2>2, <3>1, <3>2
    <2> QED
      BY <1>2, <2>1, <2>2
  <1>4. /\ window'.kind = "symbol" /\ window'.sym = n /\ window'.checked = checked
        /\ window'.shown = m /\ (m # Nil => m.sym = n) /\ file' = file
    <2>1. m # Nil => m.sym = n
      <3>1. \A x : SymView(n, x).sym = n
        BY DEF SymView
      <3> HIDE DEF typ
      <3> QED
        BY <1>3, <3>1
    <2> HIDE DEF typ, checked, odd
    <2> QED
      BY <1>3, <2>1 DEF SymWin, vars
  <1>5. WindowInv'
    <2>1. WindowMade'
      BY <1>3, <1>4 DEF WindowMade
    <2> QED
      BY <1>4, <2>1 DEF WindowInv, SectionWindowRight
  <1>6. ASSUME crashed' # crashed PROVE OddTable(window)'
    <2>1. PICK win : win = window'
      OBVIOUS
    <2>2. win.kind = "symbol" /\ win.sym = n /\ win.checked = checked
      BY <1>4, <2>1
    <2>3. n \in Sectional(file) /\ HasSect(file, file.syms[n]) /\ typ = SectType[file.syms[n].sect]
      BY <1>3, <1>6 DEF GuessSymType, Sectional
    <2>4. file.syms[n].sect \in 1..Len(file.sects) /\ file \in Files
      <3>1. file.syms[n] \in Symbol
        BY FileFacts DEF CellInv, IInv, TypeOK
      <3> QED
        BY <2>3, <3>1, FileFacts DEF HasSect, Symbol, CellInv, IInv, TypeOK
    <2>5. typ \in Labels \cup {"EHFrame"} /\ Nil \notin SymLabels
      BY <2>3, <2>4, AnchorAssumption
    <2> HIDE DEF typ
    <2>6. CASE typ = "EHFrame"
      <3>1. checked = Nil
        BY <2>6 DEF CheckedFor, Labels
      <3>2. SectType[file.syms[n].sect] = "EHFrame"
        BY <2>3, <2>6
      <3> QED
        BY <2>1, <2>2, <2>4, <3>1, <3>2, OddTableKept DEF OddTable
    <2>7. CASE typ # "EHFrame"
      <3>1. checked = typ /\ checked # Nil
        BY <2>5, <2>7 DEF CheckedFor, SymLabels
      <3>2. OddRows(SymView(n, typ)) \/ OddSymbol(file.syms[n].value)
        BY <1>3, <1>6, <2>3, <2>7, OddBytes
      <3> QED
        BY <2>1, <2>2, <3>1, <3>2, OddTableKept DEF OddTable
    <2> QED
      BY <2>6, <2>7
  <1> QED
    BY <1>4, <1>5, <1>6

\* A window of another kind, or none, has nothing to be right about.
LEMMA NoSection == ASSUME window' \in {NoWindow, Blank} PROVE WindowInv'
  BY DEF WindowInv, WindowMade, SectionWindowRight, NoWindow, Blank

\* A window that is left alone stays right.
LEMMA WindowSame == ASSUME WindowInv, window' = window, file' = file PROVE WindowInv'
  BY DEF WindowInv, WindowMade, SectionWindowRight, SectionHolds, NoneHolds, SectsInSpace, SectEnd

\* A window with another button and view.
WithView(w, t, m) == [w EXCEPT !.checked = t, !.shown = m]

\* The button and the view of a section's window are set one after the other.
LEMMA SectionButtonAndView ==
    ASSUME NEW n, NEW a, NEW checked, NEW shown, NEW t, NEW m, window = SectWin(n, a, checked, shown)
    PROVE  WithView(window, t, m) = SectWin(n, a, t, m)
  <1>1. [window EXCEPT !.checked = t] = SectWin(n, a, t, shown)
    BY DEF SectWin
  <1>2. \A w : w = SectWin(n, a, t, shown) => [w EXCEPT !.shown = m] = SectWin(n, a, t, m)
    BY DEF SectWin
  <1>3. PICK v : v = [window EXCEPT !.checked = t]
    OBVIOUS
  <1>4. WithView(window, t, m) = [[window EXCEPT !.checked = t] EXCEPT !.shown = m]
    BY DEF WithView
  <1>5. [[window EXCEPT !.checked = t] EXCEPT !.shown = m] = [v EXCEPT !.shown = m]
    BY <1>3
  <1> QED
    BY <1>1, <1>2, <1>3, <1>4, <1>5

\* The button and the view of a symbol's window are set one after the other.
LEMMA SymbolButtonAndView ==
    ASSUME NEW n, NEW checked, NEW shown, NEW t, NEW m, window = SymWin(n, checked, shown)
    PROVE  WithView(window, t, m) = SymWin(n, t, m)
  <1>1. [window EXCEPT !.checked = t] = SymWin(n, t, shown)
    BY DEF SymWin
  <1>2. \A w : w = SymWin(n, t, shown) => [w EXCEPT !.shown = m] = SymWin(n, t, m)
    BY DEF SymWin
  <1>3. PICK v : v = [window EXCEPT !.checked = t]
    OBVIOUS
  <1>4. WithView(window, t, m) = [[window EXCEPT !.checked = t] EXCEPT !.shown = m]
    BY DEF WithView
  <1>5. [[window EXCEPT !.checked = t] EXCEPT !.shown = m] = [v EXCEPT !.shown = m]
    BY <1>3
  <1> QED
    BY <1>1, <1>2, <1>3, <1>4, <1>5

\* A button changes the view and its name together, and nothing else.
ViewKept ==
    /\ window # NoWindow
    /\ window' = WithView(window, window'.checked, window'.shown)
    /\ window'.kind = "symbol" /\ window'.shown # Nil => window'.shown.sym = window.sym

\* ... in the window of a section,
LEMMA SectionViewKeeps ==
    ASSUME WindowInv, UNCHANGED vars, window.kind = "section", NEW typ \in Labels,
           NewSectionModel([window EXCEPT !.checked = typ], typ)
    PROVE  /\ WindowInv' /\ ViewKept /\ window'.kind = "section"
           /\ crashed' => crashed \/ OddTable(window)'
  <1>1. file' = file /\ typ # Nil /\ typ # "EHFrame"
    BY AnchorAssumption DEF vars, Labels, SymLabels
  <1>2. PICK n, a, checked, shown : window = SectWin(n, a, checked, shown)
    BY DEF WindowInv, WindowMade, NoWindow, Blank
  <1> DEFINE w == SectWin(n, a, typ, shown)
  <1>3. [window EXCEPT !.checked = typ] = w
    BY <1>2 DEF SectWin
  <1>4. /\ w.sect = n /\ (\A m : [w EXCEPT !.shown = m] = SectWin(n, a, typ, m))
        /\ NewSectionModel(w, typ)
    BY <1>3 DEF SectWin
  <1> HIDE DEF w
  <1>5. PICK m \in {Nil, SectView(w.sect, typ)} :
          /\ window' = [w EXCEPT !.shown = m]
          /\ \/ crashed' = crashed
             \/ crashed' = TRUE /\ (typ = "EHFrame" \/ OddRows(SectView(w.sect, typ)))
    BY <1>4, SectionModel
  <1>6. window' = SectWin(n, a, typ, m) /\ (m # Nil => m.sect = n /\ m.typ = typ)
    BY <1>4, <1>5 DEF SectView
  <1>7. /\ window'.kind = "section" /\ window'.sect = n /\ window'.addr = a
        /\ window'.checked = typ /\ window'.shown = m
    BY <1>6 DEF SectWin
  <1>8. window.sect = n /\ window.addr = a
    BY <1>2 DEF SectWin
  <1>9. SectionHolds(n, a) /\ NoneHolds(n, a)
    BY <1>8 DEF WindowInv, SectionWindowRight
  <1>10. SectionWindowRight'
    <2>1. SectionHolds(window.sect, window.addr)' /\ NoneHolds(window.sect, window.addr)'
      BY <1>1, <1>7, <1>9 DEF SectionHolds, NoneHolds, SectsInSpace, SectEnd
    <2> QED
      BY <1>1, <1>6, <1>7, <2>1 DEF SectionWindowRight
  <1>11. WindowMade'
    BY <1>6, <1>7 DEF WindowMade
  <1>12. ViewKept
    <2>1. WithView(window, typ, m) = SectWin(n, a, typ, m)
      BY <1>2, SectionButtonAndView
    <2> QED
      BY <1>6, <1>7, <2>1 DEF ViewKept, NoWindow
  <1>13. ASSUME crashed' # crashed PROVE OddTable(window)'
    <2>1. PICK win : win = window'
      OBVIOUS
    <2>2. win.kind = "section" /\ win.sect = n /\ win.checked = typ
      BY <1>7, <2>1
    <2>3. OddRows(SectView(n, typ))
      BY <1>1, <1>4, <1>5, <1>13
    <2> QED
      BY <1>1, <2>1, <2>2, <2>3, OddTableKept DEF OddTable
  <1> QED
    BY <1>7, <1>10, <1>11, <1>12, <1>13 DEF WindowInv

\* ... in that of a symbol,
LEMMA SymbolViewKeeps ==
    ASSUME CellInv, cell # Nil, WindowInv, UNCHANGED vars, window.kind = "symbol",
           NEW typ \in SymLabels,
           LET w == [window EXCEPT !.checked = typ]
           IN \/ file.syms[w.sym].inSect /\ NewSymbolModel(w, typ)
              \/ Show(w, w.shown)
    PROVE  /\ WindowInv' /\ ViewKept
           /\ crashed' => crashed \/ (window'.kind = "symbol" /\ OddTable(window)')
  <1>1. file' = file /\ typ # Nil /\ typ # "EHFrame"
    BY AnchorAssumption DEF vars, Labels, SymLabels
  <1>2. PICK n, checked, shown :
          /\ window = SymWin(n, checked, shown)
          /\ n \in 1..Len(file.syms) /\ (shown # Nil => shown.sym = n)
    <2>1. /\ window = SymWin(window.sym, window.checked, window.shown)
          /\ window.sym \in 1..Len(file.syms)
          /\ window.shown # Nil => window.shown.sym = window.sym
      BY DEF WindowInv, WindowMade, NoWindow, Blank
    <2> QED
      BY <2>1
  <1> DEFINE w == SymWin(n, typ, shown)
             odd == OddRows(SymView(n, typ)) \/ (n \in Sectional(file) /\ SymbolBytes(n) = "panic")
  <1>3. [window EXCEPT !.checked = typ] = w
    BY <1>2 DEF SymWin
  <1>4. w.sym = n /\ w.shown = shown /\ \A m : [w EXCEPT !.shown = m] = SymWin(n, typ, m)
    BY DEF SymWin
  <1>5. PICK m : /\ window' = SymWin(n, typ, m) /\ (m # Nil => m.sym = n)
                 /\ crashed' = crashed \/ (crashed' = TRUE /\ odd)
    <2>1. CASE file.syms[n].inSect /\ NewSymbolModel(w, typ)
      <3>1. PICK m \in {Nil, SymView(w.sym, typ)} :
              /\ window' = [w EXCEPT !.shown = m]
              /\ \/ crashed' = crashed
                 \/ /\ crashed' = TRUE
                    /\ \/ typ = "EHFrame"
                       \/ OddRows(SymView(w.sym, typ))
                       \/ SymbolBytes(w.sym) = "panic"
        BY <2>1, SymbolModel
      <3>2. m # Nil => m.sym = n
        BY <1>4, <3>1 DEF SymView
      <3>3. n \in Sectional(file)
        BY <1>2, <2>1 DEF Sectional
      <3> QED
        BY <1>1, <1>4, <3>1, <3>2, <3>3
    <2>2. CASE Show(w, shown)
      BY <1>2, <1>4, <2>2 DEF Show
    <2> QED
      BY <1>3, <1>4, <2>1, <2>2
  <1>6. /\ window'.kind = "symbol" /\ window'.sym = n /\ window'.checked = typ
        /\ window'.shown = m /\ window.sym = n
    BY <1>2, <1>5 DEF SymWin
  <1>7. WindowInv'
    <2>1. WindowMade'
      BY <1>1, <1>2, <1>5, <1>6 DEF WindowMade
    <2> QED
      BY <1>6, <2>1 DEF WindowInv, SectionWindowRight
  <1>8. ViewKept
    <2>1. WithView(window, typ, m) = SymWin(n, typ, m)
      BY <1>2, SymbolButtonAndView
    <2> QED
      BY <1>5, <1>6, <2>1 DEF ViewKept, NoWindow
  <1>9. ASSUME crashed' # crashed PROVE OddTable(window)'
    <2>1. PICK win : win = window'
      OBVIOUS
    <2>2. win.kind = "symbol" /\ win.sym = n /\ win.checked = typ
      BY <1>6, <2>1
    <2>3. OddRows(SymView(n, typ)) \/ OddSymbol(file.syms[n].value)
      BY <1>5, <1>9, OddBytes
    <2> QED
      BY <1>1, <2>1, <2>2, <2>3, OddTableKept DEF OddTable
  <1> QED
    BY <1>6, <1>7, <1>8, <1>9

\* ... and in both.
LEMMA ViewKeeps ==
    ASSUME CellInv, WindowInv, NEW typ \in SymLabels, ClickView(typ)
    PROVE  /\ WindowInv' /\ ViewKept /\ UNCHANGED <<vars, cpu, cell>>
           /\ crashed' => window'.kind \in {"section", "symbol"} /\ OddTable(window)'
  <1>1. /\ ~crashed /\ window.kind \in {"section", "symbol"} /\ UNCHANGED <<vars, cpu, cell>>
    BY DEF ClickView
  <1>2. cell # Nil
    BY <1>1 DEF CellInv, NoWindow
  <1>3. \A t : [window EXCEPT !.checked = t].kind = window.kind
    <2>1. \/ \E n, a, checked, shown : window = SectWin(n, a, checked, shown)
          \/ \E n, checked, shown : window = SymWin(n, checked, shown)
      BY <1>1 DEF WindowInv, WindowMade, NoWindow, Blank
    <2> QED
      BY <2>1 DEF SectWin, SymWin
  <1>4. CASE window.kind = "section"
    <2>1. typ \in Labels /\ NewSectionModel([window EXCEPT !.checked = typ], typ)
      BY <1>3, <1>4 DEF ClickView
    <2> QED
      BY <1>1, <1>4, <2>1, SectionViewKeeps
  <1>5. CASE window.kind = "symbol"
    <2>1. LET w == [window EXCEPT !.checked = typ]
          IN \/ file.syms[w.sym].inSect /\ NewSymbolModel(w, typ)
             \/ Show(w, w.shown)
      BY <1>3, <1>5 DEF ClickView
    <2> QED
      BY <1>1, <1>2, <1>5, <2>1, SymbolViewKeeps
  <1> QED
    BY <1>1, <1>4, <1>5

\* The symbol a link leads to is the target's, or holds the target.
LEMMA LinkSymbol ==
    ASSUME IInv, Contents, CellRead, NEW link \in cell.links, link.path = "symbol"
    PROVE  link.num + 1 \in 1..Len(file.syms) /\ HoldsTarget(link.num + 1)
  <1> DEFINE t == cell.target
             a == TargetAddr(t)
             width == cell.width
  <1>1. link \in Links(t, width) /\ pc = "ready" /\ Len(file.syms) \in Nat
    BY FileFacts DEF CellRead, IInv, TypeOK
  <1>2. t # NoTarget /\ t.num \in Nat \cup {-1} /\ a \in Addr
    BY <1>1, LinkOrigin, CellFacts DEF Fitting, TargetType
  <1>3. CASE t.num # -1 /\ t.num < Len(file.syms) /\ link = SymbolLink(t.num, t.addend, width)
    <2>1. link.num = t.num
      BY <1>3 DEF SymbolLink
    <2> QED
      BY <1>1, <1>2, <1>3, <2>1 DEF HoldsTarget
  <1>4. ~(link = AddressLink(a, width))
    BY DEF AddressLink
  <1>5. ASSUME t.num = -1, NEW k \in 1..Len(ssyms), Hits(k, a),
               NEW n \in Listed(infos[Val(k)].indices), link = AliasLink(Val(k), n, a, width)
        PROVE  link.num + 1 \in 1..Len(file.syms) /\ HoldsTarget(link.num + 1)
    <2>1. Val(k) \in Addr /\ Indexed(Val(k)) /\ Val(k) <= a /\ a - Val(k) < infos[Val(k)].size
      BY <1>1, <1>2, <1>5, HitEntry
    <2>2. n \in 1..Len(file.syms) /\ file.syms[n].value = Val(k)
      BY <1>1, <1>5, <2>1, EntryNames
    <2>3. link.num + 1 = n
      BY <1>1, <1>5, <2>2 DEF AliasLink, SymbolLink
    <2>4. CellAddr = a
      BY <1>5 DEF CellAddr
    <2> QED
      BY <1>5, <2>1, <2>2, <2>3, <2>4 DEF HoldsTarget
  <1> QED
    BY <1>1, <1>3, <1>4, <1>5, LinkOrigin

\* A click opens a window on the target, and is fatal for the reasons that are known.
LEMMA ClickLeads ==
    ASSUME CellInv, WindowInv, cell # Nil, NEW link \in cell.links, Click(link)
    PROVE  /\ WindowInv'
           /\ \/ window' = window
              \/ /\ window'.kind = "symbol" /\ HoldsTarget(window'.sym)
                 /\ window'.shown # Nil => window'.shown.sym = window'.sym
              \/ window'.kind = "section" /\ window'.addr = CellAddr
              \/ window' = Blank /\ NoneHolds(Len(file.sects) + 1, CellAddr)
           /\ crashed' =>
                \/ window'.kind \in {"section", "symbol"} /\ OddTable(window)'
                \/ window' = NoWindow /\ link.path = "symbol"
                   /\ ~(ParsesInt8(link.addend) /\ ParsesInt8(link.size))
  <1>1. /\ file' = file /\ ~crashed /\ window = NoWindow /\ UNCHANGED vars
        /\ FollowSymbol(link) \/ FollowAddress(link)
    BY DEF Click, MayClick, vars
  <1>2. TypeOK /\ CellRead /\ IInv /\ Contents
    BY DEF CellInv, IInv
  <1>3. LinkAddr(link) = CellAddr /\ link.num \in Int
    BY <1>2, LinkRight
  <1>4. CASE FollowSymbol(link)
    <2>1. link.path = "symbol"
      BY <1>4 DEF FollowSymbol
    <2>2. CASE SymbolWindow(link.num + 1)
      <3>1. PICK n : n = link.num + 1
        OBVIOUS
      <3>2. n \in 1..Len(file.syms) /\ HoldsTarget(n)
        BY <1>2, <2>1, <3>1, LinkSymbol
      <3>3. SymbolWindow(n)
        BY <2>2, <3>1
      <3>4. /\ WindowInv'
            /\ window'.kind = "symbol" /\ window'.sym = n
            /\ window'.shown # Nil => window'.shown.sym = n
            /\ crashed' => crashed \/ OddTable(window)'
        BY <1>1, <3>2, <3>3, SymbolOpened
      <3> QED
        BY <1>1, <3>2, <3>4
    <2>3. CASE ~(ParsesInt8(link.addend) /\ ParsesInt8(link.size)) /\ UNCHANGED window
      BY <1>1, <2>1, <2>3, WindowSame
    <2> QED
      BY <1>4, <2>2, <2>3 DEF FollowSymbol
  <1>5. CASE FollowAddress(link)
    <2>1. link.num = CellAddr
      BY <1>3, <1>5 DEF FollowAddress, LinkAddr
    <2>2. CASE Holding(link.num) = {}
      <3>1. window' = Blank /\ crashed' = crashed
        BY <1>5, <2>2 DEF FollowAddress
      <3>2. NoneHolds(Len(file.sects) + 1, link.num)
        <4>1. Len(file.sects) \in Nat
          BY <1>2, FileFacts DEF TypeOK
        <4>2. Len(file.sects) + 1 \in 1..(Len(file.sects) + 1)
          BY <4>1
        <4> QED
          BY <1>2, <1>3, <2>2, <4>2, NoneBefore
      <3> QED
        BY <1>1, <2>1, <3>1, <3>2, NoSection
    <2>3. CASE Holding(link.num) # {}
      <3>1. PICK n \in Holding(link.num) :
              (\A m \in Holding(link.num) : n <= m) /\ SectionWindow(n, link.num)
        BY <1>5, <2>3 DEF FollowAddress
      <3>2. /\ WindowInv'
            /\ window'.kind = "section" /\ window'.addr = link.num
            /\ crashed' => crashed \/ OddTable(window)'
        BY <1>1, <1>2, <1>3, <3>1, SectionOpened
      <3> QED
        BY <1>1, <2>1, <3>2
    <2> QED
      BY <2>2, <2>3
  <1> QED
    BY <1>1, <1>4, <1>5

\* Every step leaves the window right.
LEMMA WindowStep == CellInv /\ WindowInv /\ [AnchorNext]_anchorVars => WindowInv'
  <1> SUFFICES ASSUME CellInv, WindowInv, [AnchorNext]_anchorVars PROVE WindowInv'
    OBVIOUS
  <1>1. file' = file
    BY IndexSteps, FileKept
  <1>2. ASSUME window' = window PROVE WindowInv'
    BY <1>1, <1>2, WindowSame
  <1>3. ASSUME cell # Nil, NEW link \in cell.links, Click(link) PROVE WindowInv'
    BY <1>3, ClickLeads
  <1>4. ASSUME NEW typ \in SymLabels, ClickView(typ) PROVE WindowInv'
    BY <1>4, ViewKeeps
  <1>5. CASE Close
    BY <1>5, NoSection DEF Close
  <1> QED
    BY <1>2, <1>3, <1>4, <1>5 DEF AnchorNext, anchorVars, ShowReloc


-----------------------------------------------------------------------------
(* Panics.                                                                   *)

\* What the sizes and addends of links are compared with.
LEMMA LinkNumbers == LinkMax \in Nat /\ LinkMax >= 8 /\ NotANumber \notin Int
  BY AnchorAssumption

\* The size of a link is a number, unless the lookup put a name there.
LEMMA SizeParses == \A width \in {2, 4, 8} : ParsesInt8(width)
  BY LinkNumbers DEF ParsesInt8

\* A link that NewAnchorWidget cannot parse is one of the two known kinds.
LEMMA CrashIsKnown ==
    ASSUME CellInv, NEW link \in cell.links, cell # Nil, link.path = "symbol",
           ~(ParsesInt8(link.addend) /\ ParsesInt8(link.size))
    PROVE  \/ cell.target.num # -1 /\ cell.target.addend \notin (-LinkMax - 1)..LinkMax
           \/ /\ cell.target.num = -1
              /\ \E v \in Addr \ {0} :
                   Indexed(v) /\ (CellAddr = v \/ (v + LinkMax < CellAddr /\ CellAddr - v < infos[v].size))
  <1> DEFINE t == cell.target
             a == TargetAddr(t)
             width == cell.width
  <1>1. IInv /\ CellRead /\ pc = "ready" /\ link \in Links(t, width)
    BY DEF CellInv, CellRead
  <1>2. t # NoTarget /\ t.addend \in Int /\ t.num \in Int /\ a \in Addr /\ ParsesInt8(width)
    BY <1>1, LinkOrigin, CellFacts, SizeParses
  <1>3. \A n \in Int : ~ParsesInt8(n) => n < -LinkMax - 1 \/ n > LinkMax
    BY LinkNumbers DEF ParsesInt8
  <1>4. CASE t.num # -1 /\ link = SymbolLink(t.num, t.addend, width)
    <2>1. link.addend = t.addend /\ link.size = width
      BY <1>4 DEF SymbolLink
    <2>2. t.addend < -LinkMax - 1 \/ t.addend > LinkMax
      BY <1>2, <1>3, <2>1
    <2>3. t.addend \notin (-LinkMax - 1)..LinkMax
      BY <1>2, <2>2, LinkNumbers
    <2> QED
      BY <1>4, <2>3
  <1>5. ~(link = AddressLink(a, width))
    BY DEF AddressLink
  <1>6. ASSUME t.num = -1, NEW k \in 1..Len(ssyms), Hits(k, a),
               NEW n \in Listed(infos[Val(k)].indices), link = AliasLink(Val(k), n, a, width)
        PROVE  \E v \in Addr \ {0} :
                   Indexed(v) /\ (CellAddr = v \/ (v + LinkMax < CellAddr /\ CellAddr - v < infos[v].size))
    <2> DEFINE v == Val(k)
               z == infos[v].size
    <2>1. /\ v \in Addr \ {0} /\ Indexed(v) /\ z \in Nat /\ v \in Int /\ v <= a /\ a - v < z
      BY <1>1, <1>2, <1>6, HitEntry
    <2>2. link.addend = a - v /\ link.size = (IF a = v THEN NotANumber ELSE width)
      BY <1>6 DEF AliasLink, SymbolLink
    <2>3. CellAddr = a
      BY <1>6 DEF CellAddr
    <2>4. a \in Int /\ LinkMax \in Nat
      BY <1>2, AddrInt, LinkNumbers
    <2> HIDE DEF v, z, a
    <2>5. ASSUME a # v PROVE v + LinkMax < a
      <3>1. ~ParsesInt8(a - v)
        BY <1>2, <2>2, <2>5
      <3>2. a - v \in Int /\ a - v >= 0
        BY <2>1, <2>4
      <3>3. a - v > LinkMax
        BY <1>3, <2>4, <3>1, <3>2
      <3> QED
        BY <2>1, <2>4, <3>3
    <2>6. Indexed(v) /\ (CellAddr = v \/ (v + LinkMax < CellAddr /\ CellAddr - v < z))
      BY <2>1, <2>3, <2>5
    <2> QED
      BY <2>1, <2>6 DEF v, z
  <1> QED
    BY <1>1, <1>4, <1>5, <1>6, LinkOrigin

\* Why the program is dead does not change any more.
LEMMA CrashStays ==
    ASSUME DiesOnlyOfBadLinks, crashed, UNCHANGED <<vars, cpu, cell, window>>
    PROVE  DiesOnlyOfBadLinks'
  <1>1. cell' = cell /\ infos' = infos /\ CellAddr' = CellAddr /\ window' = window
    BY CellSame DEF vars
  <1>2. CASE window = NoWindow
    <2>1. window.kind = "none"
      BY <1>2 DEF NoWindow
    <2> QED
      BY <1>1, <1>2, <2>1 DEF DiesOnlyOfBadLinks, Indexed
  <1>3. CASE window.kind \in {"section", "symbol"} /\ OddTable(window)
    <2>1. PICK win : win = window
      OBVIOUS
    <2>2. OddTable(window)'
      BY <1>1, <1>3, <2>1, OddTableKept
    <2> QED
      BY <1>1, <1>3, <2>2 DEF DiesOnlyOfBadLinks
  <1> QED
    BY <1>2, <1>3 DEF DiesOnlyOfBadLinks

\* A panic is the last step.
LEMMA CrashStep ==
    CellInv /\ WindowInv /\ DiesOnlyOfBadLinks /\ [AnchorNext]_anchorVars => DiesOnlyOfBadLinks'
  <1> SUFFICES ASSUME CellInv, WindowInv, DiesOnlyOfBadLinks, [AnchorNext]_anchorVars, crashed'
               PROVE  DiesOnlyOfBadLinks'
    BY DEF DiesOnlyOfBadLinks
  <1>1. ASSUME crashed, UNCHANGED <<vars, cpu, cell, window>> PROVE DiesOnlyOfBadLinks'
    BY <1>1, CrashStays
  <1>2. ASSUME window'.kind \in {"section", "symbol"}, OddTable(window)' PROVE DiesOnlyOfBadLinks'
    BY <1>2 DEF DiesOnlyOfBadLinks
  <1>3. CASE Build /\ UNCHANGED <<cpu, cell, window, crashed>>
    BY <1>3, BuildsFirst DEF CellInv, CellRead
  <1>4. ASSUME NEW s \in 1..Len(file.sects), NEW k \in 1..Len(file.sects[s].relocs), ShowReloc(s, k)
        PROVE  FALSE
    BY <1>4 DEF ShowReloc, CellInv
  <1>5. ASSUME cell # Nil, NEW link \in cell.links, Click(link) PROVE DiesOnlyOfBadLinks'
    <2>1. UNCHANGED <<vars, cpu, cell>>
      BY <1>5 DEF Click
    <2>2. cell' = cell /\ infos' = infos /\ CellAddr' = CellAddr
      BY <2>1, CellSame DEF vars
    <2>3. CASE /\ window' = NoWindow /\ link.path = "symbol"
               /\ ~(ParsesInt8(link.addend) /\ ParsesInt8(link.size))
      BY <1>5, <2>2, <2>3, CrashIsKnown DEF DiesOnlyOfBadLinks, Indexed
    <2> QED
      BY <1>2, <1>5, <2>3, ClickLeads
  <1>6. ASSUME NEW typ \in SymLabels, ClickView(typ) PROVE DiesOnlyOfBadLinks'
    BY <1>2, <1>6, ViewKeeps
  <1>7. CASE Close
    BY <1>7 DEF Close
  <1>8. CASE UNCHANGED anchorVars
    BY <1>1, <1>8 DEF anchorVars
  <1> QED
    BY <1>3, <1>4, <1>5, <1>6, <1>7, <1>8 DEF AnchorNext

-----------------------------------------------------------------------------
(* What the links do, whatever file is open.                                 *)

\* The invariant that the properties below follow from.
THEOREM AnchorInvariant == AnchorSpec => []AnchorInv
  <1>1. AnchorInit => AnchorInv
    BY InitInv, ContentsInit
       DEF AnchorInit, AnchorInv, CellInv, WindowInv, WindowMade, NoWindow, SectionWindowRight,
           DiesOnlyOfBadLinks
  <1>2. AnchorInv /\ [AnchorNext]_anchorVars => AnchorInv'
    BY CellStep, WindowStep, CrashStep DEF AnchorInv
  <1> QED
    BY <1>1, <1>2, PTL DEF AnchorSpec

\* The target that is computed from the patched bytes is the address the relocation
\* refers to once the file is linked, but for the five known exceptions.
THEOREM TargetsAreMeant == AnchorSpec => []TargetMeant
  <1>1. AnchorInv => TargetMeant
    <2>1. cell = Nil => TargetMeant
      BY DEF TargetMeant, TargetFits, HasTarget
    <2> QED
      BY <2>1, MeaningRight DEF AnchorInv, CellInv
  <1> QED
    BY <1>1, AnchorInvariant, PTL

\* Every target has links, they all lead to it, and an address within a symbol is
\* offered under each of the symbol's names.
THEOREM LinksAreRight == AnchorSpec => []LinksLeadToTarget
  <1>1. AnchorInv => LinksLeadToTarget
    <2>1. cell = Nil => LinksLeadToTarget
      BY DEF LinksLeadToTarget, HasTarget
    <2> QED
      BY <2>1, LinksLead DEF AnchorInv, CellInv
  <1> QED
    BY <1>1, AnchorInvariant, PTL

\* The window of a section is on the first section that holds the address, and the
\* checked button is that of the view.
THEOREM SectionWindowsAreRight == AnchorSpec => []SectionWindowRight
  <1>1. AnchorInv => SectionWindowRight
    BY DEF AnchorInv, WindowInv
  <1> QED
    BY <1>1, AnchorInvariant, PTL

\* A click is fatal only if its link cannot be parsed, or for what is odd about the table that
\* it opens.
THEOREM DiesOfBadLinksOnly == AnchorSpec => []DiesOnlyOfBadLinks
  <1>1. AnchorInv => DiesOnlyOfBadLinks
    BY DEF AnchorInv
  <1> QED
    BY <1>1, AnchorInvariant, PTL

\* A click opens the target's symbol, one that holds its address, or the section of that
\* address, and the buttons of the window stay there.
THEOREM ClicksLeadThere == AnchorSpec => ClicksLeadToTarget
  <1> DEFINE Leads ==
        window' \notin {window, NoWindow} =>
         \/ /\ window = NoWindow /\ window'.kind = "symbol" /\ HoldsTarget(window'.sym)
            /\ window'.shown # Nil => window'.shown.sym = window'.sym
         \/ window = NoWindow /\ window'.kind = "section" /\ window'.addr = CellAddr
         \/ window = NoWindow /\ window' = Blank /\ NoneHolds(Len(file.sects) + 1, CellAddr)
         \/ /\ window # NoWindow /\ window' = [window EXCEPT !.checked = window'.checked, !.shown = window'.shown]
            /\ window'.kind = "symbol" /\ window'.shown # Nil => window'.shown.sym = window.sym
  <1>1. AnchorInv /\ [AnchorNext]_anchorVars => [Leads]_anchorVars
    <2> SUFFICES ASSUME AnchorInv, AnchorNext PROVE Leads
      OBVIOUS
    <2>1. CASE cell # Nil /\ \E link \in cell.links : Click(link)
      BY <2>1, ClickLeads DEF AnchorInv, Click, MayClick
    <2>2. CASE \E typ \in SymLabels : ClickView(typ)
      BY <2>2, ViewKeeps DEF AnchorInv, ViewKept, WithView
    <2> QED
      BY <2>1, <2>2 DEF AnchorNext, ShowReloc, Close
  <1> QED
    BY <1>1, AnchorInvariant, PTL DEF AnchorSpec, ClicksLeadToTarget

=============================================================================
