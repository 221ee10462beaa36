----------------------------- MODULE StructModel -----------------------------
(***************************************************************************)
(* The "Structure" tab: NewStructModel (macho_widgets/struct_model.go)     *)
(* walks the load commands and makes a tree of items, with the sections    *)
(* below the segments that hold them; selecting an item shows its table of *)
(* attributes (struct_widget.go).                                          *)
(*                                                                         *)
(* A table is made when it is first asked for.  An item carries a number,  *)
(* counting from 1, into a list of functions that make tables and into the *)
(* cache of tables that were made.                                         *)
(*                                                                         *)
(* An item is <<0, 0>> for the file, <<l, 0>> for load command l and       *)
(* <<l, n>> for section n below it; a table is what it describes.  Flags   *)
(* are sets of bits.                                                       *)
(***************************************************************************)
EXTENDS Integers, Sequences, FiniteSets

CONSTANTS
    W,             \* the number of values of a uint64
    Files,         \* the files that may be open
    FileFlags,     \* the number of flags fileFlagStrings names
    SegmentFlags,  \* the number of flags segmentFlagStrings names
    Nil            \* no item, no table

Addr == 0 .. (W - 1)

Load == [kind: {"segment", "other"}, addr: Addr, size: Addr, flags: SUBSET Nat]
Section == [addr: Addr, size: Addr]
Item == Nat \X Nat

ASSUME StructAssumption ==
    /\ W \in Nat /\ W > 0 /\ FileFlags \in Nat /\ SegmentFlags \in Nat
    /\ \A f \in Files : f.flags \subseteq Nat /\ f.loads \in Seq(Load) /\ f.sects \in Seq(Section)
    /\ Nil \notin Nat /\ Nil \notin Item

VARIABLES
    file,     \* the File
    pc,       \* "file", "loads", "sections", "ready" or "panic"
    li,       \* the load command and
    si,       \* the section the loops have reached
    items,    \* the tree's items: what they stand for, and their StructItemRole
    funcs,    \* attrTabFuncs: what the table each function makes describes
    cache,    \* attrTabCache: the tables made, as positions in tables, or Nil
    tables,   \* every table that was made: what it describes
    current,  \* the selected item of items, or Nil
    shown     \* the table the attribute view shows, or Nil

treeVars == <<pc, li, si, items, funcs>>
viewVars == <<cache, tables, current, shown>>
vars == <<file, treeVars, viewVars>>

-----------------------------------------------------------------------------
(* Building the tree.                                                        *)

\* setItemModel hands out the length of attrTabFuncs after appending to it.
Role == Len(funcs) + 1

AddItem(at) ==
    /\ items' = Append(items, [at |-> at, role |-> Role])
    /\ funcs' = Append(funcs, at)

\* flagsString indexes a table of names with the number of each bit that is set.
NamedButLast(flags, n) == \A bit \in flags : bit < n - 1
Named(flags, n) == \A bit \in flags : bit < n

Panic ==
    /\ pc' = "panic"
    /\ UNCHANGED <<file, li, si, items, funcs, viewVars>>

Init ==
    /\ file \in Files
    /\ pc = "file"
    /\ li = 1
    /\ si = 1
    /\ items = <<>>
    /\ funcs = <<>>
    /\ cache = <<>>
    /\ tables = <<>>
    /\ current = Nil
    /\ shown = Nil

AddFile ==
    /\ pc = "file"
    /\ Named(file.flags, FileFlags)
    /\ AddItem(<<0, 0>>)
    /\ pc' = "loads"
    /\ UNCHANGED <<file, li, si, viewVars>>

FilePanics ==
    /\ pc = "file"
    /\ ~Named(file.flags, FileFlags)
    /\ Panic

AtLoad(kind) == pc = "loads" /\ li <= Len(file.loads) /\ file.loads[li].kind = kind

\* LC_RPATH, LC_LOAD_DYLIB, LC_SYMTAB, LC_DYSYMTAB and those of no type of their own.
AddCommand ==
    /\ AtLoad("other")
    /\ AddItem(<<li, 0>>)
    /\ li' = li + 1
    /\ UNCHANGED <<file, pc, si, viewVars>>

AddSegment ==
    /\ AtLoad("segment")
    /\ Named(file.loads[li].flags, SegmentFlags)
    /\ AddItem(<<li, 0>>)
    /\ pc' = "sections"
    /\ si' = 1
    /\ UNCHANGED <<file, li, viewVars>>

SegmentPanics ==
    /\ AtLoad("segment")
    /\ ~Named(file.loads[li].flags, SegmentFlags)
    /\ Panic

\* Section n lies within segment l; the sums wrap around.
HoldsTouching(l, n) ==
    /\ file.loads[l].addr <= file.sects[n].addr
    /\ file.sects[n].addr <= (file.loads[l].addr + file.loads[l].size) % W
Holds(l, n) ==
    /\ file.loads[l].addr <= file.sects[n].addr
    /\ (file.sects[n].addr + file.sects[n].size) % W <= (file.loads[l].addr + file.loads[l].size) % W

AddSection ==
    /\ pc = "sections"
    /\ si <= Len(file.sects)
    /\ Holds(li, si)
    /\ AddItem(<<li, si>>)
    /\ si' = si + 1
    /\ UNCHANGED <<file, pc, li, viewVars>>

PassSection ==
    /\ pc = "sections"
    /\ si <= Len(file.sects)
    /\ ~Holds(li, si)
    /\ si' = si + 1
    /\ UNCHANGED <<file, pc, li, items, funcs, viewVars>>

EndSegment ==
    /\ pc = "sections"
    /\ si > Len(file.sects)
    /\ pc' = "loads"
    /\ li' = li + 1
    /\ UNCHANGED <<file, si, items, funcs, viewVars>>

\* The cache is made when the number of functions is known.
Finish ==
    /\ pc = "loads"
    /\ li > Len(file.loads)
    /\ pc' = "ready"
    /\ cache' = [k \in 1..Len(funcs) |-> Nil]
    /\ UNCHANGED <<file, li, si, items, funcs, tables, current, shown>>

Build ==
    \/ AddFile
    \/ FilePanics
    \/ AddCommand
    \/ AddSegment
    \/ SegmentPanics
    \/ AddSection
    \/ PassSection
    \/ EndSegment
    \/ Finish

-----------------------------------------------------------------------------
(* Selecting an item: AttrTab.                                               *)

Cached(role) == cache[role] # Nil

UseCached(role) ==
    /\ Cached(role)
    /\ shown' = cache[role]
    /\ UNCHANGED <<cache, tables>>

\* A new table is the last of tables; the cache keeps it.
MakeTableUncached(role) ==
    /\ ~Cached(role)
    /\ tables' = Append(tables, funcs[role])
    /\ shown' = Len(tables) + 1
    /\ UNCHANGED cache
MakeTable(role) ==
    /\ ~Cached(role)
    /\ tables' = Append(tables, funcs[role])
    /\ shown' = Len(tables) + 1
    /\ cache' = [cache EXCEPT ![role] = Len(tables) + 1]

\* A role that is out of range gets no table.
AttrTabButLast(role) ==
    IF 0 < role /\ role < Len(funcs) THEN UseCached(role) \/ MakeTable(role)
    ELSE shown' = Nil /\ UNCHANGED <<cache, tables>>
AttrTab(role) ==
    IF 0 < role /\ role <= Len(funcs) THEN UseCached(role) \/ MakeTable(role)
    ELSE shown' = Nil /\ UNCHANGED <<cache, tables>>

Select(k) ==
    /\ pc = "ready"
    /\ k # current
    /\ current' = k
    /\ AttrTab(items[k].role)
    /\ UNCHANGED <<file, treeVars>>

\* Nothing is selected, or "Load Commands", an item without a role.
SelectNothing ==
    /\ pc = "ready"
    /\ current' = Nil
    /\ shown' = Nil
    /\ UNCHANGED <<file, treeVars, cache, tables>>

Next ==
    \/ Build
    \/ \E k \in 1..Len(items) : Select(k)
    \/ SelectNothing

Spec == Init /\ [][Next]_vars

-----------------------------------------------------------------------------
(* What makes the tab correct.                                               *)

\* Type invariant of NewStructModel's loops and of the tab.
TypeOK ==
    /\ file \in Files
    /\ pc \in {"file", "loads", "sections", "ready", "panic"}
    /\ li \in Nat /\ si \in Nat
    /\ items \in Seq([at: Item, role: Nat])
    /\ funcs \in Seq(Item)
    /\ tables \in Seq(Item)
    /\ pc = "ready" => cache \in [1..Len(funcs) -> (1..Len(tables)) \cup {Nil}]
    /\ current \in 1..Len(items) \cup {Nil}
    /\ shown \in 1..Len(tables) \cup {Nil}

\* The attributes on display are those of the selected item, and no item is without.
ShownIsCurrent ==
    IF current = Nil THEN shown = Nil
    ELSE shown # Nil /\ tables[shown] = items[current].at

\* No item's table is ever made twice.
MadeOnce == \A j, k \in 1..Len(tables) : tables[j] = tables[k] => j = k

\* No two items stand for the same thing, and each item's number leads to its own function.
RolesRight ==
    /\ Len(items) = Len(funcs)
    /\ \A k \in 1..Len(items) : items[k].role = k /\ items[k].at = funcs[k]
    /\ \A j, k \in 1..Len(items) : items[j].at = items[k].at => j = k

\* A file as linkers write it: segments and sections end before the address space does,
\* segments do not overlap, and a section has bytes and lies in some segment.
WellFormed(f) ==
    LET segments == {l \in 1..Len(f.loads) : f.loads[l].kind = "segment"}
        end(x) == x.addr + x.size
    IN /\ \A l \in segments : end(f.loads[l]) < W
       /\ \A l, m \in segments :
            l # m => end(f.loads[l]) <= f.loads[m].addr \/ end(f.loads[m]) <= f.loads[l].addr
       /\ \A n \in 1..Len(f.sects) :
            /\ f.sects[n].size > 0
            /\ \E l \in segments : f.loads[l].addr <= f.sects[n].addr /\ end(f.sects[n]) <= end(f.loads[l])

\* Every load command has one item; in a well-formed file every section has one too, below
\* the segment that holds its bytes.
EverythingOnce ==
    pc = "ready" =>
        LET places(at) == {k \in 1..Len(items) : items[k].at = at}
            below(n) == {l \in 1..Len(file.loads) : places(<<l, n>>) # {}}
        IN /\ \A l \in 1..Len(file.loads) : Cardinality(places(<<l, 0>>)) = 1
           /\ WellFormed(file) =>
                \A n \in 1..Len(file.sects) : \E l \in below(n) :
                    /\ below(n) = {l} /\ Cardinality(places(<<l, n>>)) = 1
                    /\ file.loads[l].addr <= file.sects[n].addr
                    /\ file.sects[n].addr < file.loads[l].addr + file.loads[l].size

\* Opening a file fails here only if a flag has no name, in its header or a segment.
PanicsOnlyOnUnnamedFlags ==
    pc = "panic" =>
        \/ \E bit \in file.flags : bit >= FileFlags
        \/ \E l \in 1..Len(file.loads) : \E bit \in file.loads[l].flags :
             file.loads[l].kind = "segment" /\ bit >= SegmentFlags

\* The tab seen as AttrTables.
Abstract == INSTANCE AttrTables WITH
    Items <- Item,
    shown <- IF shown = Nil THEN Nil ELSE tables[shown],
    made <- {tables[k] : k \in 1..Len(tables)},
    count <- Len(tables)

\* The functions, the cache and the numbers the items carry implement a table per item.
ImplementsAttrTables == Abstract!Spec

=============================================================================
