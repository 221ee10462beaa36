------------------------------- MODULE DataRows -------------------------------
(***************************************************************************)
(* The table of bytes of a section or of a symbol: newSectionModel         *)
(* (macho_widgets/sectdata_model.go) and newSymbolModel                    *)
(* (macho_widgets/symdata_model.go).                                       *)
(*                                                                         *)
(* Both cut data into rows.  A view type's value function says how long    *)
(* the next row is; under the row hang the relocations that lie inside     *)
(* it.  A section view picks up the symbol entry at the address of a row   *)
(* and keeps it until it meets another one; a symbol view has one entry.   *)
(* What both read of the file and of its index is in ViewInput.            *)
(*                                                                         *)
(* How long an instruction or a string is depends on bytes this module     *)
(* does not hold: those sizes are chosen.                                  *)
(***************************************************************************)
EXTENDS ViewInput

VARIABLES
    view,   \* what is being shown, Nil before the first view
    state,  \* "none", "rows" in the loop, "table", "nil" (no model) or "panic"
    rows,   \* the rows of the table so far, a set: their addresses order them
    addr,   \* where the next row starts
    left,   \* len(data)
    info    \* the key of the *SymInfo whose relocations are shown, or Nil

tableVars == <<view, state, rows, addr, left, info>>
viewVars == <<vars, tableVars>>

SmallerOf(a, b) == IF a < b THEN a ELSE b

Types == {"Code", "CString", "Float32", "Float64", "Float128", "Pointer32",
          "Data", "ZeroFill", "DwarfType"}

\* The sizes a value function may return when n bytes are left.
RowSizesWhole(typ, n) ==
    CASE typ = "Code" -> IF file \in Arm64 THEN {4} ELSE 1..n
      [] typ \in {"CString", "DwarfType"} -> {n}
      [] OTHER -> {IF n < 8 THEN 0 ELSE 8}
RowSizesUnclipped(typ, n) ==
    CASE typ = "Code" -> IF file \in Arm64 THEN {4} ELSE 1..n
      [] typ \in {"CString", "DwarfType"} -> {n}
      [] typ = "Float128" -> {16}
      [] typ \in {"Float32", "Pointer32"} -> {4}
      [] OTHER -> {8}
RowSizes(typ, n) ==
    CASE typ = "Code" -> IF file \in Arm64 THEN {4} ELSE 1..n
      [] typ = "CString" -> 1..n
      [] typ \in {"Float32", "Pointer32"} -> {SmallerOf(4, n)}
      [] typ = "Float128" -> {SmallerOf(16, n)}
      [] typ \in {"Float64", "Data", "ZeroFill"} -> {SmallerOf(8, n)}
      [] typ = "DwarfType" -> {n}

-----------------------------------------------------------------------------
(* Opening a view.                                                           *)

ViewInit ==
    /\ Init
    /\ view = Nil
    /\ state = "none"
    /\ rows = {}
    /\ addr = 0
    /\ left = 0
    /\ info = Nil

\* A view is built in one uninterrupted call, after NewFile has returned.
MayOpen == pc = "ready" /\ state \notin {"rows", "panic"}

Start(v, a, n, key) ==
    /\ view' = v
    /\ rows' = {}
    /\ addr' = a
    /\ left' = n
    /\ info' = key

\* disasmFunc knows no disassembler for some processors, and a file may hold no
\* debug information: these two view types may end without a model.
NoModel(typ) ==
    /\ typ \in {"Code", "DwarfType"}
    /\ state' = "nil"

\* newSectionModel: the table is empty when the section's bytes cannot be read.
OpenSection(n, typ) ==
    /\ MayOpen
    /\ typ # "DwarfType"
    /\ \E len \in {0, file.sects[n].size} :
         Start(SectView(n, typ), file.sects[n].addr, len, Nil)
    /\ NoModel(typ) \/ state' = "rows"
    /\ UNCHANGED vars

\* newSymbolModel.
OpenSymbol(n, typ) ==
    /\ MayOpen
    /\ LET v == file.syms[n].value
           size == IF SymbolBytes(n) = "rows" THEN infos[v].size ELSE 0
       IN Start(SymView(n, typ), v, size, v)
    /\ NoModel(typ) \/ state' = SymbolBytes(n)
    /\ UNCHANGED vars

-----------------------------------------------------------------------------
(* One turn of the row loop.                                                 *)

\* A section view takes over the entry at the row's address, if there is one.
EntryForget(a) == IF view.sym = Nil THEN IF Indexed(a) THEN a ELSE Nil ELSE info
Entry(a) == IF view.sym = Nil /\ Indexed(a) THEN a ELSE info

\* The relocation p lies within the n bytes at a.
Within(p, a, n) == a <= FromOf(p) /\ Plus(FromOf(p), RelocOf(p).width) <= Plus(a, n)

\* The relocations shown under a row, as positions in the entry's list, whose order they
\* are shown in.
RowRelocs(key, a, n) ==
    IF IsObj /\ HasRel(view.typ) /\ key # Nil
    THEN {k \in 1..Len(infos[key].relocs) : Within(infos[key].relocs[k], a, n)}
    ELSE {}

\* The bytes of a relocation below the row at a are cut out of the data that is left.
\* relocDataHtmlString decodes 2, 4 and 8 bytes and panics on the one byte of r.Len 0.
Decodable(p, a) ==
    /\ Minus(FromOf(p), a) + RelocOf(p).width <= left
    /\ RelocOf(p).width # 1

Undecodable(key, a, n) ==
    \E k \in RowRelocs(key, a, n) : ~Decodable(infos[key].relocs[k], a)

\* data[:size]; the capacity of data is its length.
Fits(size) == size <= left

AdvanceData(size) ==
    /\ addr' = addr
    /\ left' = left - size
Advance(size) ==
    /\ addr' = Plus(addr, size)
    /\ left' = left - size

AddRow ==
    /\ state = "rows"
    /\ left # 0
    /\ \E size \in RowSizes(view.typ, left) :
         LET key == Entry(addr)
         IN /\ Fits(size)
            /\ ~Undecodable(key, addr, size)
            /\ rows' = rows \cup {[addr |-> addr, size |-> size, entry |-> key,
                                  relocs |-> RowRelocs(key, addr, size)]}
            /\ Advance(size)
            /\ info' = key
    /\ UNCHANGED <<vars, view, state>>

\* The value function panics, data[:size] is out of range, or a relocation cannot be decoded.
RowPanics ==
    /\ state = "rows"
    /\ left # 0
    /\ \E size \in RowSizes(view.typ, left) :
         OddType(view) \/ ~Fits(size) \/ Undecodable(Entry(addr), addr, size)
    /\ state' = "panic"
    /\ UNCHANGED <<vars, view, rows, addr, left, info>>

Done ==
    /\ state = "rows"
    /\ left = 0
    /\ state' = "table"
    /\ UNCHANGED <<vars, view, rows, addr, left, info>>

Loop == AddRow \/ RowPanics \/ Done

ViewNext ==
    \/ Build /\ UNCHANGED tableVars
    \/ \E n \in 1..Len(file.sects), typ \in Types : OpenSection(n, typ)
    \/ \E n \in Sectional(file), typ \in Types : OpenSymbol(n, typ)
    \/ Loop

\* A view is built in one uninterrupted call.
ViewSpec == ViewInit /\ [][ViewNext]_viewVars /\ WF_viewVars(Loop)

-----------------------------------------------------------------------------
(* What makes the tables correct.                                            *)

\* Type invariant of the two row loops.
ViewTypeOK ==
    /\ view \in [sect: Nat \cup {Nil}, sym: Nat \cup {Nil}, typ: Types] \cup {Nil}
    /\ state \in {"none", "rows", "table", "nil", "panic"}
    /\ rows \subseteq [addr: Addr, size: Addr, entry: Addr \cup {Nil}, relocs: SUBSET Nat]
    /\ addr \in Addr
    /\ left \in Addr
    /\ info \in Addr \cup {Nil}

Base == BaseOf(view)
Extent == ExtentOf(view)

\* The row of the view's byte b, counted from its base.
HasByte(row, b) ==
    LET from == Minus(row.addr, Base) IN from <= b /\ b < from + row.size

\* A finished table shows every byte of the view exactly once, and no other byte, also when
\* the section wraps around the end of the address space.
RowsTile ==
    state = "table" /\ rows # {} =>
        /\ \A row \in rows : Minus(row.addr, Base) + row.size <= Extent
        /\ \A b \in 0..(Extent - 1) :
             \E row \in rows : {r \in rows : HasByte(r, b)} = {row}

\* The places in the table where row shows relocation p.
Shows(row, p) == {k \in row.relocs : infos[row.entry].relocs[k] = p}

NeverShown(p) == \A row \in rows : Shows(row, p) = {}
ShownOnce(p) ==
    \E row \in rows : \E k \in Shows(row, p) :
        \A other \in rows : \A j \in Shows(other, p) : other = row /\ j = k

\* p lies inside one row of the table.
InARow(p) == \E row \in rows :
    LET r == file.sects[p[1]].relocs[p[2]]
        from == file.sects[p[1]].addr + r.addr
    IN row.addr <= from /\ from + r.width <= row.addr + row.size

\* A symbol's table shows each relocation attached to the symbol exactly once,
\* except those that straddle two of its rows, and no other relocation.
SymbolRelocsShown ==
    state = "table" /\ view.sym # Nil /\ IsObj /\ HasRel(view.typ) /\ WellFormed(file) =>
        \A s \in 1..Len(file.sects) : \A r \in 1..Len(file.sects[s].relocs) :
            LET p == <<s, r>> IN
            IF Attached(Base, p) /\ InARow(p) THEN ShownOnce(p) ELSE NeverShown(p)

\* A section's table finds a symbol only at the start of a row.  When every symbol
\* in it starts one, the table shows each of its relocations that a symbol holds
\* and one row contains, exactly once, although the entry in use outlives its symbol.
SectionRelocsShown ==
    /\ state = "table" /\ rows # {} /\ view.sym = Nil
    /\ IsObj /\ HasRel(view.typ) /\ WellFormed(file)
    /\ \A n \in Sectional(file) :
         Base <= file.syms[n].value /\ file.syms[n].value < Base + Extent =>
             \E row \in rows : row.addr = file.syms[n].value
    =>
    \A s \in 1..Len(file.sects) : \A r \in 1..Len(file.sects[s].relocs) :
        LET p == <<s, r>>
            held == \E v \in Addr : Indexed(v) /\ Attached(v, p)
        IN IF s = view.sect /\ held /\ InARow(p) THEN ShownOnce(p) ELSE NeverShown(p)

\* Whatever is viewed, each relocation is shown where it belongs, and only there.
RelocsShown == SymbolRelocsShown /\ SectionRelocsShown

\* The program dies only of what is odd about the view itself: its size, a relocation among
\* its own, the type of its symbol, or the size of the symbol's entry.
PanicsOnlyOnOddInput ==
    state = "panic" => OddRows(view) \/ (view.sym # Nil /\ OddSymbol(Base))

\* The loop of a view ends, so opening one never hangs the window.
ViewEnds == (state = "rows") ~> (state # "rows")

=============================================================================
