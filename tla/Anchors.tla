------------------------------- MODULE Anchors -------------------------------
(***************************************************************************)
(* From a relocation to the window its link opens: relocTargetHtmlString   *)
(* (macho_widgets/reltab_model.go) turns a target into links, one for each *)
(* symbol at the address it looks up; a click on one (data_view.go) makes  *)
(* NewAnchorWidget (anchor_widget.go) parse it and open the symbol in a    *)
(* SymdataWidget, or the section in a SectdataWidget.                      *)
(*                                                                         *)
(* The link is text: what one function formats the other has to accept.    *)
(* The window's table is made before the window is shown, and the program  *)
(* may die of either; of which tables, is in ViewInput.                    *)
(*                                                                         *)
(* The bytes of the field, and a relocation's kind, are chosen; its place  *)
(* is the one SymbolIndex has.                                             *)
(***************************************************************************)
EXTENDS ViewInput, RelocTarget

CONSTANTS
    Kinds,     \* the kinds of relocations a file may hold
    Raws,      \* the values a field may hold
    LinkMax,   \* the largest int8, which ParseInt(s, 10, 8) accepts
    SectType,  \* what guessSectType says of each section
    NoModels,  \* the view types that have no model in this file: there is no disassembler
    NotANumber \* text that ParseInt rejects: a symbol's name

\* The buttons of a SectdataWidget; a SymdataWidget has one more.
Labels == {"Code", "CString", "Float32", "Float64", "Float128", "Pointer32", "Data"}
SymLabels == Labels \cup {"DwarfType"}

ASSUME WordAssumption == W = U64
ASSUME AnchorAssumption ==
    /\ Kinds \subseteq Kind /\ Raws \subseteq Nat /\ LinkMax \in Nat /\ LinkMax >= 8
    /\ \A f \in Files : \A n \in 1..Len(f.sects) : SectType[n] \in Labels \cup {"EHFrame"}
    /\ NotANumber \notin Int /\ NoModels \subseteq {"Code"}
    /\ Nil \notin SymLabels \cup {"EHFrame", ""}

VARIABLES
    cpu,     \* f.Cpu
    cell,    \* the relocation whose row is clicked, its target and its links
    window,  \* the window opened last, or about to be when the program died of its table
    crashed  \* a panic has ended the program

anchorVars == <<vars, cpu, cell, window, crashed>>

-----------------------------------------------------------------------------
(* Formatting.                                                               *)

\* Positions count from 1, the numbers in links from 0.
SymbolLink(num, addend, size) == [path |-> "symbol", num |-> num, addend |-> addend, size |-> size]
AddressLink(addr, size) == [path |-> "address", num |-> addr, addend |-> 0, size |-> size]

TargetAddr(t) == Plus(t.addr, t.addend)

\* A symbol's own link.  A number out of range is shown without one.
NumLinks(t, width) ==
    IF t.num < Len(file.syms) THEN {SymbolLink(t.num, t.addend, width)} ELSE {}

\* SymLookup finds the entry at v: a link for each of its symbols.  At its first byte the
\* format's arguments are swapped, so the size is a name.
AliasLinksOfOne(v, a, width) ==
    {SymbolLink(infos[v].indices[1] - 1, a - v, IF a = v THEN NotANumber ELSE width)}
AliasLinks(v, a, width) ==
    {SymbolLink(n - 1, a - v, IF a = v THEN NotANumber ELSE width) : n \in Listed(infos[v].indices)}

\* The symbols of the entry that ends at a would be taken too.
AddrLinksAtEnd(a, width) ==
    LET hits == {k \in 1..Len(ssyms) : Val(k) <= a /\ a - Val(k) <= infos[Val(k)].size}
    IN IF hits = {} THEN {AddressLink(a, width)}
       ELSE UNION {AliasLinks(Val(k), a, width) : k \in hits}

AddrLinks(a, width) ==
    LET hits == {k \in 1..Len(ssyms) : Hits(k, a)}
    IN IF hits = {} THEN {AddressLink(a, width)}
       ELSE UNION {AliasLinks(Val(k), a, width) : k \in hits}

\* relocTargetHtmlString
Links(t, width) ==
    IF t = NoTarget THEN {}
    ELSE IF t.num # -1 THEN NumLinks(t, width)
    ELSE AddrLinks(TargetAddr(t), width)

-----------------------------------------------------------------------------
(* Following.                                                                *)

ParsesInt8Short(n) == n # NotANumber /\ -LinkMax <= n /\ n < LinkMax
ParsesInt8(n) == n # NotANumber /\ -LinkMax - 1 <= n /\ n <= LinkMax

\* The first section that holds the address is taken.
InSect(n, a) ==
    /\ file.sects[n].addr <= a
    /\ a < Plus(file.sects[n].addr, file.sects[n].size)
HoldingClosed(a) == {n \in 1..Len(file.sects) : InSect(n, a) \/ a = SectEnd(file, n)}
Holding(a) == {n \in 1..Len(file.sects) : InSect(n, a)}

Show(w, m) == window' = [w EXCEPT !.shown = m] /\ UNCHANGED crashed
DieIn(w) == window' = [w EXCEPT !.shown = Nil] /\ crashed' = TRUE

\* NewSectionModel; the parser of unwind tables may find no end of one, or die, see EHFrame.
NewSectionModel(w, typ) ==
    LET v == SectView(w.sect, typ)
    IN \/ typ \in NoModels \cup {"EHFrame"} /\ Show(w, Nil)
       \/ typ \notin NoModels /\ Show(w, v)
       \/ typ \notin NoModels /\ (typ = "EHFrame" \/ OddRows(v)) /\ DieIn(w)

\* NewSymbolModel has no case for unwind tables.  What the link says of the place in the
\* symbol is handed down to here, and not used.
NewSymbolModel(w, typ) ==
    LET v == SymView(w.sym, typ)
        bytes == SymbolBytes(w.sym)
    IN \/ typ \in NoModels \cup {"DwarfType"} /\ Show(w, Nil)
       \/ typ = "EHFrame" /\ DieIn(w)
       \/ /\ typ \notin NoModels \cup {"EHFrame"}
          /\ \/ bytes = "nil" /\ Show(w, Nil)
             \/ bytes = "rows" /\ Show(w, v)
             \/ (bytes = "panic" \/ (bytes = "rows" /\ OddRows(v))) /\ DieIn(w)

\* The button of the type is checked, if there is one.
CheckedFor(typ) == IF typ \in Labels THEN typ ELSE Nil

\* SetSection
SectionWindow(n, addr) ==
    NewSectionModel([kind |-> "section", sect |-> n, addr |-> addr,
                     checked |-> CheckedFor(SectType[n]), shown |-> Nil], SectType[n])

\* guessSymType; "" for a symbol without a section.
GuessSymType(n) ==
    LET s == file.syms[n] IN IF s.inSect /\ HasSect(file, s) THEN SectType[s.sect] ELSE ""

\* SetSymbol
SymbolWindow(n) ==
    LET typ == GuessSymType(n)
        w == [kind |-> "symbol", sym |-> n, checked |-> CheckedFor(typ), shown |-> Nil]
    IN \/ typ = "" /\ Show(w, Nil)
       \/ typ # "" /\ NewSymbolModel(w, typ)

\* Without a widget the window stays blank.
Blank == [kind |-> "blank"]
NoWindow == [kind |-> "none"]

-----------------------------------------------------------------------------
(* Showing a relocation's row and clicking on it.                            *)

AnchorInit ==
    /\ Init
    /\ cpu \in Cpus /\ (file \in Arm64 => cpu = "ARM")
    /\ cell = Nil
    /\ window = NoWindow
    /\ crashed = FALSE

\* The row of relocation k of section s, below the row of bytes that holds it.  One-byte
\* fields panic before they get here (see DataRows).
ShowReloc(s, k) ==
    /\ pc = "ready" /\ cell = Nil /\ IsObj /\ ~crashed
    /\ \E r \in Kinds, next \in Kinds \cup {NoTarget}, raw \in Raws :
         LET width == file.sects[s].relocs[k].width
             after == Plus(RelocAddr(s, file.sects[s].relocs[k]), width)
             t == Target(cpu, r, next, width, after, raw)
         IN /\ width # 1 /\ raw < Values(width) /\ r.type \in TypesOf(cpu)
            /\ k = Len(file.sects[s].relocs) => next = NoTarget
            /\ cell' = [kind |-> r, next |-> next, width |-> width, after |-> after,
                        raw |-> raw, target |-> t, links |-> Links(t, width)]
    /\ UNCHANGED <<vars, cpu, window, crashed>>

\* A click opens a window of its own.  Windows do not affect each other, so one is enough.
MayClick == ~crashed /\ cell # Nil /\ window = NoWindow

FollowSymbol(link) ==
    /\ link.path = "symbol"
    /\ \/ ParsesInt8(link.addend) /\ ParsesInt8(link.size) /\ SymbolWindow(link.num + 1)
       \/ ~(ParsesInt8(link.addend) /\ ParsesInt8(link.size)) /\ crashed' = TRUE /\ UNCHANGED window

FollowAddress(link) ==
    /\ link.path = "address"
    /\ \/ Holding(link.num) = {} /\ window' = Blank /\ UNCHANGED crashed
       \/ \E n \in Holding(link.num) :
             /\ \A m \in Holding(link.num) : n <= m
             /\ SectionWindow(n, link.num)

Click(link) ==
    /\ MayClick
    /\ FollowSymbol(link) \/ FollowAddress(link)
    /\ UNCHANGED <<vars, cpu, cell>>

\* A click on a button of a window; SetModel leaves a symbol without a section alone.
ClickView(typ) ==
    /\ ~crashed
    /\ window.kind \in {"section", "symbol"}
    /\ window.checked # typ
    /\ LET w == [window EXCEPT !.checked = typ]
       IN \/ w.kind = "section" /\ typ \in Labels /\ NewSectionModel(w, typ)
          \/ w.kind = "symbol" /\ file.syms[w.sym].inSect /\ NewSymbolModel(w, typ)
          \/ w.kind = "symbol" /\ ~file.syms[w.sym].inSect /\ Show(w, w.shown)
    /\ UNCHANGED <<vars, cpu, cell>>

Close ==
    /\ ~crashed
    /\ cell # Nil
    /\ cell' = Nil
    /\ window' = NoWindow
    /\ UNCHANGED <<vars, cpu, crashed>>

AnchorNext ==
    \/ Build /\ UNCHANGED <<cpu, cell, window, crashed>>
    \/ \E s \in 1..Len(file.sects) : \E k \in 1..Len(file.sects[s].relocs) : ShowReloc(s, k)
    \/ cell # Nil /\ \E link \in cell.links : Click(link)
    \/ \E typ \in SymLabels : ClickView(typ)
    \/ Close

AnchorSpec == AnchorInit /\ [][AnchorNext]_anchorVars

-----------------------------------------------------------------------------
(* What makes links correct.                                                 *)

SymAddr(num) == file.syms[num + 1].value

\* The address a target means; the code never adds up that of a symbol.
CellAddr ==
    LET t == cell.target
    IN IF t.num = -1 THEN TargetAddr(t) ELSE Plus(SymAddr(t.num), t.addend)

HasTarget ==
    cell # Nil /\ cell.target # NoTarget /\ (cell.target.num = -1 \/ cell.target.num < Len(file.syms))

\* A target's numbers fit the fields of RelocTarget.
TargetFits ==
    cell # Nil /\ cell.target # NoTarget =>
        /\ cell.target.num \in Nat \cup {-1}
        /\ cell.target.addr \in Addr
        /\ -W <= 2 * cell.target.addend /\ 2 * cell.target.addend < W

\* The target computed from the patched bytes is where the linked program would refer
\* to, for every processor and named kind of relocation, but for the five known exceptions.
TargetMeant ==
    /\ TargetFits
    /\ HasTarget /\ ~KnownWrong(cpu, cell.kind, cell.width, cell.raw) =>
        LET base == IF cell.target.num = -1 THEN 0 ELSE SymAddr(cell.target.num)
            meant == Meant(cpu, cell.kind, cell.next, cell.width, cell.after, cell.raw, base)
        IN (CellAddr - meant) % AddressSpace(cpu) = 0

\* The address a link leads to.
LinkAddr(link) == IF link.path = "symbol" THEN Plus(SymAddr(link.num), link.addend) ELSE link.num

\* Whatever the lookup finds, every link of a row leads to the target's address, every
\* target has a link, and an address within a symbol has one for each of its names.
LinksLeadToTarget ==
    HasTarget =>
        /\ cell.links # {}
        /\ \A link \in cell.links : LinkAddr(link) = CellAddr
        /\ cell.target.num = -1 =>
             \A v \in Addr \ {0} :
                 Indexed(v) /\ v <= CellAddr /\ CellAddr < Plus(v, infos[v].size) /\ WellFormed(file) =>
                     {link.num + 1 : link \in cell.links} = Listed(infos[v].indices)

SectionHolds(n, a) == file.sects[n].addr <= a /\ a < SectEnd(file, n)

\* No section reaches the end of the address space, where the sum wraps around.
SectsInSpace == \A n \in 1..Len(file.sects) : SectEnd(file, n) < W

\* No section before the one at last holds the address.
NoneHolds(last, a) == SectsInSpace => \A n \in 1..(last - 1) : ~SectionHolds(n, a)

\* The symbol n is the target's, or its bytes hold the target's address.
HoldsTarget(n) ==
    \/ n = cell.target.num + 1
    \/ LET v == file.syms[n].value
       IN cell.target.num = -1 /\ Indexed(v) /\ v <= CellAddr /\ CellAddr - v < infos[v].size

\* A click opens the target's symbol from its first byte, a symbol whose bytes hold the
\* target's address, the section with that address, or a blank window if there is none; the
\* table in it is of that symbol or section, and the buttons never take it elsewhere.
ClicksLeadToTarget ==
    [][window' \notin {window, NoWindow} =>
         \/ /\ window = NoWindow /\ window'.kind = "symbol" /\ HoldsTarget(window'.sym)
            /\ window'.shown # Nil => window'.shown.sym = window'.sym
         \/ window = NoWindow /\ window'.kind = "section" /\ window'.addr = CellAddr
         \/ window = NoWindow /\ window' = Blank /\ NoneHolds(Len(file.sects) + 1, CellAddr)
         \/ /\ window # NoWindow /\ window' = [window EXCEPT !.checked = window'.checked, !.shown = window'.shown]
            /\ window'.kind = "symbol" /\ window'.shown # Nil => window'.shown.sym = window.sym]_anchorVars

\* A section's window is on the first section that holds the address it was opened for,
\* and the checked button names what is shown; only unwind tables have no button.
SectionWindowRight ==
    window.kind = "section" =>
        /\ SectionHolds(window.sect, window.addr)
        /\ NoneHolds(window.sect, window.addr)
        /\ window.shown # Nil => window.shown.sect = window.sect
        /\ window.shown # Nil /\ window.checked # Nil => window.shown.typ = window.checked
        /\ window.checked = Nil => window.shown \in {Nil, SectView(window.sect, "EHFrame")}

\* What the table of a window may be fatal of.
OddTable(w) ==
    CASE w.checked = Nil ->
             \E n \in 1..Len(file.sects) :
                 SectType[n] = "EHFrame" /\ IF w.kind = "section" THEN n = w.sect
                                           ELSE n = file.syms[w.sym].sect
      [] w.checked # Nil /\ w.kind = "section" -> OddRows(SectView(w.sect, w.checked))
      [] OTHER -> OddRows(SymView(w.sym, w.checked)) \/ OddSymbol(file.syms[w.sym].value)

\* The program dies of a click only if the link leads to the first byte of a symbol's
\* entry, or further into it (or around it) than a signed byte can say, or of the table of
\* the view that is checked: of what is odd about its own bytes, or of unwind tables.
DiesOnlyOfBadLinks ==
    crashed =>
        \/ window = NoWindow /\ cell.target.num # -1 /\ cell.target.addend \notin (-LinkMax - 1)..LinkMax
        \/ /\ window = NoWindow /\ cell.target.num = -1
           /\ \E v \in Addr \ {0} :
                Indexed(v) /\ (CellAddr = v \/ (v + LinkMax < CellAddr /\ CellAddr - v < infos[v].size))
        \/ window.kind \in {"section", "symbol"} /\ OddTable(window)

\* NewAnchorWidget takes it for granted that size is a number: panic(err).
SizesParse == cell # Nil => \A link \in cell.links : ParsesInt8(link.size)

=============================================================================
