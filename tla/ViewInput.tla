------------------------------- MODULE ViewInput -------------------------------
(***************************************************************************)
(* What a table of bytes is made from (macho_widgets/sectdata_model.go,    *)
(* symdata_model.go): the bytes of a section or of a symbol's entry, and   *)
(* the relocations the index has attached there.                           *)
(*                                                                         *)
(* DataRows builds such a table row by row; Anchors opens one in a window. *)
(* A table may kill the program: the oddities below are what of, for       *)
(* DataRows to show and for Anchors to reckon with.                        *)
(***************************************************************************)
EXTENDS SymbolIndex

CONSTANTS
    IsObj,     \* f.Type == macho.TypeObj: relocations are shown
    Arm64,     \* the files whose f.Cpu is arm64: every instruction is taken to be 4 bytes long
    MaxAlloc,  \* make([]byte, n) panics when n is larger
    OddTypes   \* the symbols of a type decodeValue may panic on, see DwarfValue

ASSUME ViewAssumption ==
    /\ IsObj \in BOOLEAN /\ Arm64 \subseteq Files /\ MaxAlloc \in Addr /\ OddTypes \subseteq Nat
    /\ Nil \notin Nat

\* A section or a symbol, and how its bytes are to be read.
SectView(n, typ) == [sect |-> n, sym |-> Nil, typ |-> typ]
SymView(n, typ) == [sect |-> Nil, sym |-> n, typ |-> typ]

\* hasRel: the view types that show relocations.
HasRel(typ) == typ \in {"Code", "Data", "DwarfType"}

\* Where the bytes of a view start, and how many it has.
BaseOf(v) == IF v.sym = Nil THEN file.sects[v.sect].addr ELSE file.syms[v.sym].value
ExtentOf(v) == IF v.sym = Nil THEN file.sects[v.sect].size ELSE infos[BaseOf(v)].size

\* The address a lies in the view.
InBytes(v, a) == Minus(a, BaseOf(v)) < ExtentOf(v)

\* newSymbolModel reads the bytes of sym's SymInfo out of sym's section.  Its index
\* into f.Sections is not checked, room is made for any size, and a section that does not
\* hold all the bytes yields no model.
SymbolBytes(n) ==
    LET s == file.syms[n]
        size == infos[s.value].size
        off == Minus(s.value, file.sects[s.sect].addr)
    IN IF ~HasSect(file, s) \/ size > MaxAlloc THEN "panic"
       ELSE IF off >= file.sects[s.sect].size \/ off + size > file.sects[s.sect].size
            THEN "nil"
            ELSE "rows"

\* The relocation p = <<section, position>> and the address it patches.
RelocOf(p) == file.sects[p[1]].relocs[p[2]]
FromOf(p) == RelocAddr(p[1], RelocOf(p))

Attached(key, p) == \E k \in 1..Len(infos[key].relocs) : infos[key].relocs[k] = p

-----------------------------------------------------------------------------
(* What a table may die of.                                                  *)

\* An arm64 section or symbol whose size is not a multiple of 4.
OddSize(v) == file \in Arm64 /\ v.typ = "Code" /\ ExtentOf(v) % 4 # 0

\* The entries whose relocations the view may show.
Serves(v, key) == IF v.sym = Nil THEN InBytes(v, key) ELSE key = BaseOf(v)

\* Such a relocation of one byte, or one at the end of the address space.
OddReloc(v) ==
    /\ IsObj /\ HasRel(v.typ)
    /\ \E key \in Addr : Indexed(key) /\ Serves(v, key) /\
         \E s \in 1..Len(file.sects) : \E r \in 1..Len(file.sects[s].relocs) :
            LET p == <<s, r>>
            IN /\ Attached(key, p)
               /\ \/ RelocOf(p).width = 1 /\ InBytes(v, FromOf(p))
                  \/ FromOf(p) + RelocOf(p).width >= W

\* A symbol whose type cannot be decoded.
OddType(v) == v.typ = "DwarfType" /\ v.sym \in OddTypes

OddRows(v) == OddSize(v) \/ OddReloc(v) \/ OddType(v)

\* Symbol n lies neither in its section nor at its end.
Stray(n) ==
    LET s == file.syms[n] IN
    ~HasSect(file, s) \/ s.value < file.sects[s.sect].addr \/ SectEnd(file, s.sect) < s.value

\* A symbol at a whose section holds stray symbols, or more than memory does: the
\* difference of two addresses is its size then.
OddSymbol(a) ==
    \E m, n \in Sectional(file) :
        /\ file.syms[n].value = a
        /\ file.syms[m].sect = file.syms[n].sect
        /\ Stray(m) \/ file.sects[file.syms[m].sect].size > MaxAlloc

=============================================================================
