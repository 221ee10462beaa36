--------------------------- MODULE StructModelProofs ---------------------------
(***************************************************************************)
(* Proofs about StructModel: the tree's items carry the right numbers, a   *)
(* table is made once for each item that is ever selected, what is shown   *)
(* belongs to the selected item, and the tab implements AttrTables.        *)
(***************************************************************************)
EXTENDS StructModel, FiniteSetTheorems, TLAPS

\* Before the tree is finished nothing has been selected.
NothingYet ==
    pc # "ready" => tables = <<>> /\ current = Nil /\ shown = Nil

\* The loops go forward: they have not come to the load command and section that are next.
Ahead ==
    /\ li >= 1 /\ si >= 1
    /\ pc = "file" => items = <<>>
    /\ \A k \in 1..Len(items) :
        /\ pc = "loads" => items[k].at[1] < li
        /\ pc = "sections" =>
             items[k].at[1] < li \/ (items[k].at[1] = li /\ items[k].at[2] < si)

\* The cache leads to the table of the item with its number, and to every table.
CacheRight ==
    pc = "ready" =>
        /\ \A k \in 1..Len(funcs) : cache[k] # Nil => tables[cache[k]] = funcs[k]
        /\ \A j \in 1..Len(tables) : \E k \in 1..Len(funcs) : cache[k] = j

TreeInv == TypeOK /\ NothingYet /\ Ahead /\ RolesRight

StructInv == TreeInv /\ CacheRight /\ ShownIsCurrent

-----------------------------------------------------------------------------
(* The tree.                                                                 *)

\* Adding an item that the loops have not reached keeps the items and the functions apart
\* and in step (setItemModel).
LEMMA AddItemRight ==
    ASSUME TypeOK, RolesRight, NEW at \in Item, AddItem(at),
           \A k \in 1..Len(items) : items[k].at # at
    PROVE  /\ items' \in Seq([at: Item, role: Nat])
           /\ funcs' \in Seq(Item)
           /\ RolesRight'
           /\ Len(items') = Len(items) + 1
           /\ items'[Len(items')].at = at
           /\ \A k \in 1..Len(items) : items'[k] = items[k]
<1> DEFINE new == [at |-> at, role |-> Len(funcs) + 1]
<1>1. /\ items \in Seq([at: Item, role: Nat])
      /\ funcs \in Seq(Item)
      /\ Len(items) = Len(funcs)
      /\ items' = Append(items, new)
      /\ funcs' = Append(funcs, at)
  BY DEF TypeOK, RolesRight, AddItem, Role
<1>2. new \in [at: Item, role: Nat]
  BY <1>1
<1>3. /\ items' \in Seq([at: Item, role: Nat])
      /\ funcs' \in Seq(Item)
      /\ Len(items') = Len(items) + 1
      /\ Len(funcs') = Len(items) + 1
      /\ items'[Len(items) + 1] = new
      /\ funcs'[Len(items) + 1] = at
      /\ \A k \in 1..Len(items) : items'[k] = items[k] /\ funcs'[k] = funcs[k]
  BY <1>1, <1>2
<1>4. new.at = at /\ new.role = Len(items) + 1
  BY <1>1
<1> HIDE DEF new
<1>5. RolesRight'
  BY <1>1, <1>3, <1>4 DEF RolesRight
<1> QED
  BY <1>3, <1>4, <1>5

\* The invariant of the tree holds at the start.
LEMMA InitTree == Init => TreeInv
  BY StructAssumption DEF Init, TreeInv, TypeOK, NothingYet, Ahead, RolesRight

\* Elements of a sequence are of its kind.
LEMMA ElementOf == ASSUME NEW S, NEW s \in Seq(S), NEW k \in 1..Len(s) PROVE s[k] \in S
  OBVIOUS

\* The numbers the loops count with, and an item's two parts.
LEMMA ItemFacts ==
    /\ \A l, n \in Nat : <<l, n>> \in Item /\ <<l, n>>[1] = l /\ <<l, n>>[2] = n
    /\ \A at \in Item : at[1] \in Nat /\ at[2] \in Nat
    /\ TypeOK => \A k \in 1..Len(items) : items[k].at \in Item
<1>1. TypeOK => \A k \in 1..Len(items) : items[k].at \in Item
  <2> SUFFICES ASSUME TypeOK, NEW k \in 1..Len(items) PROVE items[k].at \in Item
    OBVIOUS
  <2>1. items \in Seq([at: Item, role: Nat])
    BY DEF TypeOK
  <2>2. items[k] \in [at: Item, role: Nat]
    BY <2>1, ElementOf
  <2> QED
    BY <2>2
<1> QED
  BY <1>1 DEF Item

\* An item that is added lies ahead of those there are, and behind the next one.
LEMMA AddFileTree == TreeInv /\ AddFile => TreeInv'
<1> SUFFICES ASSUME TreeInv, AddFile PROVE TreeInv'
  OBVIOUS
<1>1. TypeOK /\ NothingYet /\ Ahead /\ RolesRight
  BY DEF TreeInv
<1>2. items = <<>> /\ Len(items) = 0
  BY <1>1 DEF Ahead, AddFile
<1>3. AddItem(<<0, 0>>) /\ <<0, 0>> \in Item
  BY ItemFacts DEF AddFile
<1>4. /\ items' \in Seq([at: Item, role: Nat]) /\ funcs' \in Seq(Item)
      /\ RolesRight' /\ Len(items') = 1 /\ items'[1].at = <<0, 0>>
  <2>1. \A k \in 1..Len(items) : items[k].at # <<0, 0>>
    BY <1>2
  <2>2. /\ items' \in Seq([at: Item, role: Nat]) /\ funcs' \in Seq(Item) /\ RolesRight'
        /\ Len(items') = Len(items) + 1 /\ items'[Len(items')].at = <<0, 0>>
    BY <1>1, <1>3, <2>1, AddItemRight
  <2>3. Len(items') = 1
    BY <1>2, <2>2
  <2> QED
    BY <2>2, <2>3
<1>5. TypeOK' /\ NothingYet'
  BY <1>1, <1>4 DEF TypeOK, NothingYet, AddFile, viewVars
<1>6. Ahead'
  <2>1. pc' = "loads" /\ li' = li /\ si' = si /\ li >= 1 /\ si >= 1 /\ li \in Nat
    BY <1>1 DEF AddFile, Ahead, TypeOK
  <2>2. \A k \in 1..Len(items') : items'[k].at[1] = 0
    BY <1>4
  <2> QED
    BY <2>1, <2>2 DEF Ahead
<1> QED
  BY <1>4, <1>5, <1>6 DEF TreeInv

\* A load command's item lies behind those of the load commands before it.
LEMMA AddCommandTree == TreeInv /\ AddCommand => TreeInv'
<1> SUFFICES ASSUME TreeInv, AddCommand PROVE TreeInv'
  OBVIOUS
<1>1. /\ TypeOK /\ NothingYet /\ Ahead /\ RolesRight
      /\ li \in Nat /\ li >= 1 /\ si \in Nat /\ si >= 1 /\ pc = "loads"
  BY DEF TreeInv, Ahead, TypeOK, AddCommand, AtLoad
<1>2. \A k \in 1..Len(items) : items[k].at \in Item /\ items[k].at[1] \in Nat /\ items[k].at[1] < li
  BY <1>1, ItemFacts DEF Ahead
<1>3. <<li, 0>> \in Item /\ <<li, 0>>[1] = li
  BY <1>1, ItemFacts
<1>4. \A k \in 1..Len(items) : items[k].at # <<li, 0>>
  BY <1>1, <1>2, <1>3
<1>5. AddItem(<<li, 0>>)
  BY DEF AddCommand
<1>6. /\ items' \in Seq([at: Item, role: Nat]) /\ funcs' \in Seq(Item)
      /\ RolesRight' /\ Len(items') = Len(items) + 1 /\ items'[Len(items')].at = <<li, 0>>
      /\ \A k \in 1..Len(items) : items'[k] = items[k]
  BY <1>1, <1>3, <1>4, <1>5, AddItemRight
<1>7. TypeOK' /\ NothingYet'
  BY <1>1, <1>6 DEF TypeOK, NothingYet, AddCommand, viewVars
<1>8. Ahead'
  <2>1. pc' = "loads" /\ li' = li + 1 /\ si' = si
    BY <1>1 DEF AddCommand, AtLoad
  <2>2. Len(items) \in Nat
    BY <1>1 DEF TypeOK
  <2>3. \A k \in 1..Len(items') : items'[k].at[1] < li + 1
    <3> SUFFICES ASSUME NEW k \in 1..Len(items') PROVE items'[k].at[1] < li + 1
      OBVIOUS
    <3>1. CASE k = Len(items')
      BY <3>1, <1>1, <1>3, <1>6
    <3>2. CASE k # Len(items')
      <4>1. k \in 1..Len(items)
        BY <3>2, <1>6, <2>2
      <4> QED
        BY <4>1, <1>1, <1>2, <1>6
    <3> QED
      BY <3>1, <3>2
  <2> QED
    BY <1>1, <2>1, <2>3 DEF Ahead
<1> QED
  BY <1>6, <1>7, <1>8 DEF TreeInv

\* ... and so does a segment's, ahead of its sections.
LEMMA AddSegmentTree == TreeInv /\ AddSegment => TreeInv'
<1> SUFFICES ASSUME TreeInv, AddSegment PROVE TreeInv'
  OBVIOUS
<1>1. /\ TypeOK /\ NothingYet /\ Ahead /\ RolesRight
      /\ li \in Nat /\ li >= 1 /\ si \in Nat /\ pc = "loads"
  BY DEF TreeInv, Ahead, TypeOK, AddSegment, AtLoad
<1>2. \A k \in 1..Len(items) : items[k].at \in Item /\ items[k].at[1] \in Nat /\ items[k].at[1] < li
  BY <1>1, ItemFacts DEF Ahead
<1>3. <<li, 0>> \in Item /\ <<li, 0>>[1] = li /\ <<li, 0>>[2] = 0
  BY <1>1, ItemFacts
<1>4. \A k \in 1..Len(items) : items[k].at # <<li, 0>>
  BY <1>1, <1>2, <1>3
<1>5. AddItem(<<li, 0>>)
  BY DEF AddSegment
<1>6. /\ items' \in Seq([at: Item, role: Nat]) /\ funcs' \in Seq(Item)
      /\ RolesRight' /\ Len(items') = Len(items) + 1 /\ items'[Len(items')].at = <<li, 0>>
      /\ \A k \in 1..Len(items) : items'[k] = items[k]
  BY <1>1, <1>3, <1>4, <1>5, AddItemRight
<1>7. TypeOK' /\ NothingYet'
  BY <1>1, <1>6 DEF TypeOK, NothingYet, AddSegment, viewVars
<1>8. Ahead'
  <2>1. pc' = "sections" /\ li' = li /\ si' = 1
    BY DEF AddSegment
  <2>2. Len(items) \in Nat
    BY <1>1 DEF TypeOK
  <2>3. \A k \in 1..Len(items') :
            items'[k].at[1] < li \/ (items'[k].at[1] = li /\ items'[k].at[2] < 1)
    <3> SUFFICES ASSUME NEW k \in 1..Len(items')
                 PROVE  items'[k].at[1] < li \/ (items'[k].at[1] = li /\ items'[k].at[2] < 1)
      OBVIOUS
    <3>1. CASE k = Len(items')
      BY <3>1, <1>3, <1>6
    <3>2. CASE k # Len(items')
      <4>1. k \in 1..Len(items)
        BY <3>2, <1>6, <2>2
      <4> QED
        BY <4>1, <1>2, <1>6
    <3> QED
      BY <3>1, <3>2
  <2> QED
    BY <1>1, <2>1, <2>3 DEF Ahead
<1> QED
  BY <1>6, <1>7, <1>8 DEF TreeInv

\* A section's item lies behind its segment's and those of the sections before it.
LEMMA AddSectionTree == TreeInv /\ AddSection => TreeInv'
<1> SUFFICES ASSUME TreeInv, AddSection PROVE TreeInv'
  OBVIOUS
<1>1. /\ TypeOK /\ NothingYet /\ Ahead /\ RolesRight
      /\ li \in Nat /\ li >= 1 /\ si \in Nat /\ si >= 1 /\ pc = "sections"
  BY DEF TreeInv, Ahead, TypeOK, AddSection
<1>2. \A k \in 1..Len(items) :
         /\ items[k].at \in Item /\ items[k].at[1] \in Nat /\ items[k].at[2] \in Nat
         /\ items[k].at[1] < li \/ (items[k].at[1] = li /\ items[k].at[2] < si)
  BY <1>1, ItemFacts DEF Ahead
<1>3. <<li, si>> \in Item /\ <<li, si>>[1] = li /\ <<li, si>>[2] = si
  BY <1>1, ItemFacts
<1>4. \A k \in 1..Len(items) : items[k].at # <<li, si>>
  BY <1>1, <1>2, <1>3
<1>5. AddItem(<<li, si>>)
  BY DEF AddSection
<1>6. /\ items' \in Seq([at: Item, role: Nat]) /\ funcs' \in Seq(Item)
      /\ RolesRight' /\ Len(items') = Len(items) + 1 /\ items'[Len(items')].at = <<li, si>>
      /\ \A k \in 1..Len(items) : items'[k] = items[k]
  BY <1>1, <1>3, <1>4, <1>5, AddItemRight
<1>7. TypeOK' /\ NothingYet'
  BY <1>1, <1>6 DEF TypeOK, NothingYet, AddSection, viewVars
<1>8. Ahead'
  <2>1. pc' = "sections" /\ li' = li /\ si' = si + 1
    BY <1>1 DEF AddSection
  <2>2. Len(items) \in Nat
    BY <1>1 DEF TypeOK
  <2>3. \A k \in 1..Len(items') :
            items'[k].at[1] < li \/ (items'[k].at[1] = li /\ items'[k].at[2] < si + 1)
    <3> SUFFICES ASSUME NEW k \in 1..Len(items')
                 PROVE  items'[k].at[1] < li \/ (items'[k].at[1] = li /\ items'[k].at[2] < si + 1)
      OBVIOUS
    <3>1. CASE k = Len(items')
      BY <3>1, <1>1, <1>3, <1>6
    <3>2. CASE k # Len(items')
      <4>1. k \in 1..Len(items)
        BY <3>2, <1>6, <2>2
      <4>2. items'[k] = items[k] /\ items[k].at[1] \in Nat /\ items[k].at[2] \in Nat
        BY <4>1, <1>2, <1>6
      <4>3. items[k].at[1] < li \/ (items[k].at[1] = li /\ items[k].at[2] < si)
        BY <4>1, <1>2
      <4>4. items[k].at[2] < si => items[k].at[2] < si + 1
        BY <4>2, <1>1
      <4> QED
        BY <4>2, <4>3, <4>4
    <3> QED
      BY <3>1, <3>2
  <2> QED
    BY <1>1, <2>1, <2>3 DEF Ahead
<1> QED
  BY <1>6, <1>7, <1>8 DEF TreeInv

\* The steps that add no item.
LEMMA OtherTree ==
    TreeInv /\ (FilePanics \/ SegmentPanics \/ PassSection \/ EndSegment \/ Finish) => TreeInv'
<1> SUFFICES ASSUME TreeInv, FilePanics \/ SegmentPanics \/ PassSection \/ EndSegment \/ Finish
             PROVE  TreeInv'
  OBVIOUS
<1>1. /\ TypeOK /\ NothingYet /\ Ahead /\ RolesRight
      /\ li \in Nat /\ li >= 1 /\ si \in Nat /\ si >= 1
      /\ \A k \in 1..Len(items) : items[k].at[1] \in Nat /\ items[k].at[2] \in Nat
  BY ItemFacts DEF TreeInv, Ahead, TypeOK
<1>2. items' = items /\ funcs' = funcs /\ tables' = tables /\ current' = current /\ shown' = shown /\ file' = file
  BY DEF FilePanics, SegmentPanics, PassSection, EndSegment, Finish, Panic, viewVars
<1>3. RolesRight'
  BY <1>1, <1>2 DEF RolesRight
<1>4. CASE FilePanics \/ SegmentPanics
  <2>1. pc' = "panic" /\ pc # "ready" /\ li' = li /\ si' = si /\ cache' = cache
    BY <1>4 DEF FilePanics, SegmentPanics, Panic, AtLoad, viewVars
  <2>2. TypeOK' /\ NothingYet' /\ Ahead'
    BY <1>1, <1>2, <2>1 DEF TypeOK, NothingYet, Ahead
  <2> QED
    BY <1>3, <2>2 DEF TreeInv
<1>5. CASE PassSection
  <2>1. pc = "sections" /\ pc' = "sections" /\ li' = li /\ si' = si + 1
    BY <1>5 DEF PassSection
  <2>2. TypeOK' /\ NothingYet'
    BY <1>1, <1>2, <2>1 DEF TypeOK, NothingYet
  <2>3. Ahead'
    BY <1>1, <1>2, <2>1 DEF Ahead
  <2> QED
    BY <1>3, <2>2, <2>3 DEF TreeInv
<1>6. CASE EndSegment
  <2>1. pc = "sections" /\ pc' = "loads" /\ li' = li + 1 /\ si' = si
    BY <1>6 DEF EndSegment
  <2>2. TypeOK' /\ NothingYet'
    BY <1>1, <1>2, <2>1 DEF TypeOK, NothingYet
  <2>3. Ahead'
    BY <1>1, <1>2, <2>1 DEF Ahead
  <2> QED
    BY <1>3, <2>2, <2>3 DEF TreeInv
<1>7. CASE Finish
  <2>1. pc = "loads" /\ pc' = "ready" /\ li' = li /\ si' = si /\ cache' = [k \in 1..Len(funcs) |-> Nil]
    BY <1>7 DEF Finish
  <2>2. TypeOK' /\ NothingYet' /\ Ahead'
    BY <1>1, <1>2, <2>1 DEF TypeOK, NothingYet, Ahead
  <2> QED
    BY <1>3, <2>2 DEF TreeInv
<1> QED
  BY <1>4, <1>5, <1>6, <1>7

-----------------------------------------------------------------------------
(* Selecting.                                                                *)

\* What AttrTab finds: the item's number is its own and in range.
LEMMA SelectedFacts ==
    ASSUME TreeInv, NEW k \in 1..Len(items), Select(k)
    PROVE  /\ pc = "ready" /\ pc' = pc
           /\ file' = file /\ li' = li /\ si' = si /\ items' = items /\ funcs' = funcs
           /\ current' = k /\ k \in 1..Len(funcs) /\ Len(funcs) = Len(items)
           /\ items[k].at = funcs[k] /\ funcs[k] \in Item
           /\ funcs \in Seq(Item) /\ tables \in Seq(Item) /\ Len(tables) \in Nat
           /\ cache \in [1..Len(funcs) -> (1..Len(tables)) \cup {Nil}]
           /\ UseCached(k) \/ MakeTable(k)
<1>1. /\ TypeOK /\ RolesRight
      /\ pc = "ready" /\ current' = k /\ AttrTab(items[k].role)
      /\ UNCHANGED <<file, treeVars>>
  BY DEF TreeInv, Select
<1>2. /\ items[k].role = k /\ items[k].at = funcs[k] /\ Len(items) = Len(funcs)
  BY <1>1 DEF RolesRight
<1>3. /\ funcs \in Seq(Item) /\ tables \in Seq(Item) /\ items \in Seq([at: Item, role: Nat])
      /\ cache \in [1..Len(funcs) -> (1..Len(tables)) \cup {Nil}]
  BY <1>1 DEF TypeOK
<1>4. k \in 1..Len(funcs) /\ 0 < k /\ k <= Len(funcs)
  BY <1>2, <1>3
<1>5. funcs[k] \in Item
  BY <1>3, <1>4, ElementOf
<1>6. UseCached(k) \/ MakeTable(k)
  BY <1>1, <1>2, <1>4 DEF AttrTab
<1>7. Len(tables) \in Nat
  BY <1>3
<1> QED
  BY <1>1, <1>2, <1>3, <1>4, <1>5, <1>6, <1>7 DEF treeVars

\* A table that is made is a new one, the cache's entry for it is the only change.
LEMMA MadeFacts ==
    ASSUME TreeInv, NEW k \in 1..Len(items), Select(k), MakeTable(k)
    PROVE  /\ tables' \in Seq(Item) /\ Len(tables') = Len(tables) + 1
           /\ tables'[Len(tables) + 1] = funcs[k]
           /\ \A j \in 1..Len(tables) : tables'[j] = tables[j]
           /\ cache[k] = Nil /\ shown' = Len(tables) + 1
           /\ cache' \in [1..Len(funcs) -> (1..Len(tables')) \cup {Nil}]
           /\ cache'[k] = Len(tables) + 1
           /\ \A m \in 1..Len(funcs) : m # k => cache'[m] = cache[m]
<1>1. /\ tables \in Seq(Item) /\ funcs[k] \in Item /\ k \in 1..Len(funcs) /\ Len(tables) \in Nat
      /\ cache \in [1..Len(funcs) -> (1..Len(tables)) \cup {Nil}]
  BY SelectedFacts
<1>2. /\ cache[k] = Nil /\ shown' = Len(tables) + 1
      /\ tables' = Append(tables, funcs[k])
      /\ cache' = [cache EXCEPT ![k] = Len(tables) + 1]
  BY DEF MakeTable, Cached
<1>3. /\ tables' \in Seq(Item) /\ Len(tables') = Len(tables) + 1
      /\ tables'[Len(tables) + 1] = funcs[k]
      /\ \A j \in 1..Len(tables) : tables'[j] = tables[j]
  BY <1>1, <1>2
<1>4. 1..Len(tables) \subseteq 1..Len(tables') /\ Len(tables) + 1 \in 1..Len(tables')
  BY <1>1, <1>3
<1>5. /\ cache'[k] = Len(tables) + 1
      /\ \A m \in 1..Len(funcs) : m # k => cache'[m] = cache[m]
  BY <1>1, <1>2
<1>6. cache' \in [1..Len(funcs) -> (1..Len(tables')) \cup {Nil}]
  BY <1>1, <1>2, <1>4
<1> QED
  BY <1>2, <1>3, <1>5, <1>6

\* Selecting an item uses the cached table or makes one and caches it.
LEMMA SelectInv ==
    ASSUME StructInv, NEW k \in 1..Len(items), Select(k)
    PROVE  StructInv'
<1>1. TreeInv /\ TypeOK /\ RolesRight /\ CacheRight
  BY DEF StructInv, TreeInv
<1>2. /\ pc = "ready" /\ pc' = "ready"
      /\ file' = file /\ li' = li /\ si' = si /\ items' = items /\ funcs' = funcs
      /\ current' = k /\ k \in 1..Len(funcs) /\ items[k].at = funcs[k]
      /\ tables \in Seq(Item) /\ Len(tables) \in Nat
      /\ cache \in [1..Len(funcs) -> (1..Len(tables)) \cup {Nil}]
      /\ UseCached(k) \/ MakeTable(k)
  BY <1>1, SelectedFacts
<1>3. /\ \A m \in 1..Len(funcs) : cache[m] # Nil => tables[cache[m]] = funcs[m]
      /\ \A j \in 1..Len(tables) : \E m \in 1..Len(funcs) : cache[m] = j
  BY <1>1, <1>2 DEF CacheRight
<1>4. RolesRight' /\ Ahead' /\ NothingYet'
  <2>1. Ahead
    BY <1>1 DEF TreeInv
  <2> QED
    BY <1>1, <1>2, <2>1 DEF RolesRight, Ahead, NothingYet
<1>5. Nil \notin Nat
  BY StructAssumption
<1>6. CASE UseCached(k)
  <2>1. tables' = tables /\ cache' = cache /\ shown' = cache[k] /\ cache[k] # Nil
    BY <1>6 DEF UseCached, Cached
  <2>2. shown' \in 1..Len(tables) /\ tables[shown'] = funcs[k]
    BY <1>2, <1>3, <2>1
  <2>3. TypeOK'
    BY <1>1, <1>2, <2>1, <2>2 DEF TypeOK
  <2>4. CacheRight'
    BY <1>2, <1>3, <2>1 DEF CacheRight
  <2>5. ShownIsCurrent'
    BY <1>2, <1>5, <2>1, <2>2 DEF ShownIsCurrent
  <2> QED
    BY <1>4, <2>3, <2>4, <2>5 DEF StructInv, TreeInv
<1>7. CASE MakeTable(k)
  <2>1. /\ tables' \in Seq(Item) /\ Len(tables') = Len(tables) + 1
        /\ tables'[Len(tables) + 1] = funcs[k]
        /\ \A j \in 1..Len(tables) : tables'[j] = tables[j]
        /\ cache[k] = Nil /\ shown' = Len(tables) + 1
        /\ cache' \in [1..Len(funcs) -> (1..Len(tables')) \cup {Nil}]
        /\ cache'[k] = Len(tables) + 1
        /\ \A m \in 1..Len(funcs) : m # k => cache'[m] = cache[m]
    BY <1>1, <1>7, MadeFacts
  <2>2. shown' \in 1..Len(tables') /\ shown' # Nil /\ tables'[shown'] = funcs[k]
    BY <1>2, <1>5, <2>1
  <2>3. TypeOK'
    BY <1>1, <1>2, <2>1, <2>2 DEF TypeOK
  <2>4. \A m \in 1..Len(funcs) : cache'[m] # Nil => tables'[cache'[m]] = funcs[m]
    <3> SUFFICES ASSUME NEW m \in 1..Len(funcs), cache'[m] # Nil
                 PROVE  tables'[cache'[m]] = funcs[m]
      OBVIOUS
    <3>1. CASE m = k
      BY <3>1, <2>1
    <3>2. CASE m # k
      <4>1. cache'[m] = cache[m] /\ cache[m] \in 1..Len(tables)
        BY <3>2, <1>2, <2>1
      <4> QED
        BY <4>1, <1>3, <2>1
    <3> QED
      BY <3>1, <3>2
  <2>5. \A j \in 1..Len(tables') : \E m \in 1..Len(funcs) : cache'[m] = j
    <3> SUFFICES ASSUME NEW j \in 1..Len(tables')
                 PROVE  \E m \in 1..Len(funcs) : cache'[m] = j
      OBVIOUS
    <3>1. CASE j = Len(tables) + 1
      BY <3>1, <1>2, <2>1
    <3>2. CASE j # Len(tables) + 1
      <4>1. j \in 1..Len(tables)
        BY <3>2, <1>2, <2>1
      <4>2. PICK m \in 1..Len(funcs) : cache[m] = j
        BY <4>1, <1>3
      <4>3. m # k
        BY <4>1, <4>2, <1>5, <2>1
      <4> QED
        BY <4>2, <4>3, <2>1
    <3> QED
      BY <3>1, <3>2
  <2>6. CacheRight'
    BY <1>2, <2>4, <2>5 DEF CacheRight
  <2>7. ShownIsCurrent'
    <3>1. k # Nil
      BY <1>2, <1>5
    <3> QED
      BY <1>2, <2>2, <3>1 DEF ShownIsCurrent
  <2> QED
    BY <1>4, <2>3, <2>6, <2>7 DEF StructInv, TreeInv
<1> QED
  BY <1>2, <1>6, <1>7

\* Emptying the view changes no table.
LEMMA SelectNothingInv == StructInv /\ SelectNothing => StructInv'
<1> SUFFICES ASSUME StructInv, SelectNothing PROVE StructInv'
  OBVIOUS
<1>1. /\ TypeOK /\ NothingYet /\ Ahead /\ RolesRight /\ CacheRight
      /\ pc = "ready" /\ pc' = "ready" /\ current' = Nil /\ shown' = Nil
      /\ file' = file /\ li' = li /\ si' = si /\ items' = items /\ funcs' = funcs
      /\ cache' = cache /\ tables' = tables
  BY DEF StructInv, TreeInv, SelectNothing, treeVars
<1>2. TypeOK' /\ NothingYet' /\ Ahead' /\ RolesRight'
  BY <1>1 DEF TypeOK, NothingYet, Ahead, RolesRight
<1>3. CacheRight' /\ ShownIsCurrent'
  BY <1>1 DEF CacheRight, ShownIsCurrent
<1> QED
  BY <1>2, <1>3 DEF StructInv, TreeInv

\* While the tree is built nothing is selected; at the end the cache is empty.
LEMMA BuildInv == StructInv /\ Build => StructInv'
<1> SUFFICES ASSUME StructInv, Build PROVE StructInv'
  OBVIOUS
<1>1. TreeInv
  BY DEF StructInv
<1>2. TreeInv'
  BY <1>1, AddFileTree, AddCommandTree, AddSegmentTree, AddSectionTree, OtherTree DEF Build
<1>3. /\ pc # "ready" /\ tables' = tables /\ current' = current /\ shown' = shown
      /\ pc' = "ready" => cache' = [k \in 1..Len(funcs) |-> Nil] /\ funcs' = funcs
  BY DEF Build, AddFile, FilePanics, AddCommand, AddSegment, SegmentPanics, AddSection,
         PassSection, EndSegment, Finish, Panic, AtLoad, viewVars
<1>4. tables = <<>> /\ current = Nil /\ shown = Nil /\ Len(tables) = 0
  BY <1>1, <1>3 DEF TreeInv, NothingYet
<1>5. CacheRight' /\ ShownIsCurrent'
  BY <1>3, <1>4 DEF CacheRight, ShownIsCurrent
<1> QED
  BY <1>2, <1>5 DEF StructInv

\* The invariant is about vars only.
LEMMA StutterInv == StructInv /\ UNCHANGED vars => StructInv'
<1> SUFFICES ASSUME StructInv, UNCHANGED vars PROVE StructInv'
  OBVIOUS
<1>1. TreeInv'
  BY DEF StructInv, TreeInv, TypeOK, NothingYet, Ahead, RolesRight, vars, treeVars, viewVars
<1>2. CacheRight' /\ ShownIsCurrent'
  BY DEF StructInv, CacheRight, ShownIsCurrent, vars, treeVars, viewVars
<1> QED
  BY <1>1, <1>2 DEF StructInv

\* The invariant holds at the start.
LEMMA InitInv == Init => StructInv
<1>1. Init => CacheRight /\ ShownIsCurrent
  BY DEF Init, CacheRight, ShownIsCurrent
<1> QED
  BY <1>1, InitTree DEF StructInv

\* Every step keeps the invariant.
LEMMA StepInv == StructInv /\ [Next]_vars => StructInv'
  BY BuildInv, SelectInv, SelectNothingInv, StutterInv DEF Next

\* The inductive invariant of the tab, for every file.
THEOREM StructInvariant == Spec => []StructInv
<1>1. Init => StructInv
  BY InitInv
<1>2. StructInv /\ [Next]_vars => StructInv'
  BY StepInv
<1> QED
  BY <1>1, <1>2, PTL DEF Spec

\* NewStructModel and the tab are type correct: the cache has an entry for each function,
\* what is in it is a table, and what is on display is one.
THEOREM TypeCorrect == Spec => []TypeOK
<1>1. StructInv => TypeOK
  BY DEF StructInv, TreeInv
<1> QED
  BY <1>1, StructInvariant, PTL

\* The attributes on display are those of the selected item, whatever was selected before.
THEOREM SelectedIsOnDisplay == Spec => []ShownIsCurrent
<1>1. StructInv => ShownIsCurrent
  BY DEF StructInv
<1> QED
  BY <1>1, StructInvariant, PTL

\* Each item has a number of its own that leads to its own function.
THEOREM NumbersRight == Spec => []RolesRight
<1>1. StructInv => RolesRight
  BY DEF StructInv, TreeInv
<1> QED
  BY <1>1, StructInvariant, PTL

\* The invariant says of two tables of the same item that they are one.
LEMMA OneTable == StructInv => MadeOnce
<1> SUFFICES ASSUME StructInv, NEW i \in 1..Len(tables), NEW j \in 1..Len(tables),
                    tables[i] = tables[j]
             PROVE  i = j
  BY DEF MadeOnce
<1>1. TypeOK /\ NothingYet /\ RolesRight /\ CacheRight /\ Nil \notin Nat
  BY StructAssumption DEF StructInv, TreeInv
<1>2. pc = "ready"
  <2>1. tables # <<>>
    OBVIOUS
  <2> QED
    BY <1>1, <2>1 DEF NothingYet
<1>3. PICK k \in 1..Len(funcs) : cache[k] = i
  BY <1>1, <1>2 DEF CacheRight
<1>4. PICK m \in 1..Len(funcs) : cache[m] = j
  BY <1>1, <1>2 DEF CacheRight
<1>5. tables[i] = funcs[k] /\ tables[j] = funcs[m]
  <2>1. i # Nil /\ j # Nil
    BY <1>1
  <2>2. \A n \in 1..Len(funcs) : cache[n] # Nil => tables[cache[n]] = funcs[n]
    BY <1>1, <1>2 DEF CacheRight
  <2> QED
    BY <1>3, <1>4, <2>1, <2>2
<1>6. k = m
  <2>1. items[k].at = funcs[k] /\ items[m].at = funcs[m] /\ k \in 1..Len(items) /\ m \in 1..Len(items)
    BY <1>1 DEF RolesRight
  <2>2. items[k].at = items[m].at
    BY <1>5, <2>1
  <2> QED
    BY <1>1, <2>1, <2>2 DEF RolesRight
<1> QED
  BY <1>3, <1>4, <1>6

\* No item's table is made twice.
THEOREM TablesMadeOnce == Spec => []MadeOnce
  BY OneTable, StructInvariant, PTL

-----------------------------------------------------------------------------
(* The tab implements AttrTables.                                            *)

\* The tab starts where AttrTables does.
LEMMA AbstractInit == Init => Abstract!Init
<1> SUFFICES ASSUME Init PROVE Abstract!Init
  OBVIOUS
<1>1. tables = <<>> /\ shown = Nil /\ Len(tables) = 0
  BY DEF Init
<1>2. {tables[k] : k \in 1..Len(tables)} = {}
  BY <1>1
<1> QED
  BY <1>1, <1>2 DEF Abstract!Init

\* Selecting an item shows its table, a new one only if there is none yet.
LEMMA AbstractSelect ==
    ASSUME StructInv, NEW k \in 1..Len(items), Select(k)
    PROVE  Abstract!Show
<1> DEFINE made == {tables[j] : j \in 1..Len(tables)}
           on == IF shown = Nil THEN Nil ELSE tables[shown]
<1>1. TreeInv /\ CacheRight /\ RolesRight /\ Nil \notin Nat
  BY StructAssumption DEF StructInv, TreeInv
<1>2. /\ pc = "ready" /\ k \in 1..Len(funcs) /\ items[k].at = funcs[k] /\ funcs[k] \in Item
      /\ tables \in Seq(Item) /\ Len(tables) \in Nat
      /\ cache \in [1..Len(funcs) -> (1..Len(tables)) \cup {Nil}]
      /\ UseCached(k) \/ MakeTable(k)
  BY <1>1, SelectedFacts
<1>3. CASE UseCached(k)
  <2>1. tables' = tables /\ shown' = cache[k] /\ cache[k] # Nil
    BY <1>3 DEF UseCached, Cached
  <2>2. shown' \in 1..Len(tables) /\ tables[shown'] = funcs[k]
    BY <1>1, <1>2, <2>1 DEF CacheRight
  <2>3. on' = funcs[k] /\ on' \in made /\ made' = made
    BY <2>1, <2>2
  <2>4. on' \in Item /\ made' = made \cup {on'} /\ Len(tables') = Len(tables)
    BY <1>2, <2>1, <2>3
  <2> QED
    BY <2>3, <2>4 DEF Abstract!Show
<1>4. CASE MakeTable(k)
  <2>1. /\ Len(tables') = Len(tables) + 1
        /\ tables'[Len(tables) + 1] = funcs[k]
        /\ \A j \in 1..Len(tables) : tables'[j] = tables[j]
        /\ cache[k] = Nil /\ shown' = Len(tables) + 1
    BY <1>1, <1>4, MadeFacts
  <2>2. on' = funcs[k]
    BY <1>1, <1>2, <2>1
  <2>3. funcs[k] \notin made
    <3> SUFFICES ASSUME NEW j \in 1..Len(tables), tables[j] = funcs[k] PROVE FALSE
      OBVIOUS
    <3>1. PICK m \in 1..Len(funcs) : cache[m] = j
      BY <1>1, <1>2 DEF CacheRight
    <3>2. funcs[m] = funcs[k]
      BY <1>1, <1>2, <3>1 DEF CacheRight
    <3>3. m = k
      BY <1>1, <1>2, <3>2 DEF RolesRight
    <3> QED
      BY <1>1, <2>1, <3>1, <3>3
  <2>4. made' = made \cup {funcs[k]}
    <3>1. 1..Len(tables') = 1..Len(tables) \cup {Len(tables) + 1}
      BY <1>2, <2>1
    <3>2. made' = {tables'[j] : j \in 1..Len(tables)} \cup {tables'[Len(tables) + 1]}
      BY <3>1
    <3>3. {tables'[j] : j \in 1..Len(tables)} = made
      BY <2>1
    <3> QED
      BY <2>1, <3>2, <3>3
  <2> QED
    BY <1>2, <2>1, <2>2, <2>3, <2>4 DEF Abstract!Show
<1> QED
  BY <1>2, <1>3, <1>4

\* Nothing else the tab does is seen, but for emptying it.
LEMMA AbstractOther ==
    StructInv /\ (Build \/ SelectNothing \/ UNCHANGED vars) => [Abstract!Next]_Abstract!vars
<1>1. ASSUME Build \/ UNCHANGED vars PROVE UNCHANGED Abstract!vars
  <2>1. tables' = tables /\ shown' = shown
    BY <1>1 DEF Build, AddFile, FilePanics, AddCommand, AddSegment, SegmentPanics, AddSection,
                PassSection, EndSegment, Finish, Panic, vars, viewVars
  <2> QED
    BY <2>1 DEF Abstract!vars
<1>2. ASSUME SelectNothing PROVE Abstract!Clear
  <2>1. tables' = tables /\ shown' = Nil
    BY <1>2 DEF SelectNothing
  <2> QED
    BY <2>1 DEF Abstract!Clear
<1> QED
  BY <1>1, <1>2 DEF Abstract!Next

\* The functions, the cache and the items' numbers implement one table per item: every
\* behaviour of the tab is one of AttrTables.
THEOREM ImplementsTables == Spec => ImplementsAttrTables
<1>1. Init => Abstract!Init
  BY AbstractInit
<1>2. StructInv /\ [Next]_vars => [Abstract!Next]_Abstract!vars
  BY AbstractSelect, AbstractOther DEF Next, Abstract!Next
<1> QED
  BY <1>1, <1>2, StructInvariant, PTL DEF Spec, ImplementsAttrTables, Abstract!Spec

-----------------------------------------------------------------------------
(* The tree has everything in it, once.                                      *)

\* There is an item for section n below load command l (for the command itself if n is 0).
Has(l, n) == \E k \in 1..Len(items) : items[k].at = <<l, n>>

IsSegment(l) == file.loads[l].kind = "segment"

\* The loops have made the items of load command l and of section n below it.
Begun(l) == l < li \/ (l = li /\ pc = "sections")
Done(l, n) == l < li \/ (l = li /\ pc = "sections" /\ n < si)

\* What has been passed has its item, and nothing else has one.
ItemsSoFar ==
    /\ pc = "file" => li = 1
    /\ pc = "sections" => li \in 1..Len(file.loads) /\ IsSegment(li)
    /\ pc = "ready" => li > Len(file.loads)
    /\ \A l \in 1..Len(file.loads) :
        /\ Has(l, 0) <=> Begun(l)
        /\ \A n \in 1..Len(file.sects) : Has(l, n) <=> IsSegment(l) /\ Holds(l, n) /\ Done(l, n)

\* A step of the loops that adds no item.
LEMMA NoItemAdded == ASSUME items' = items, NEW l, NEW n PROVE Has(l, n)' <=> Has(l, n)
  BY DEF Has

\* A step that adds the item of section m below load command c.
LEMMA ItemAdded ==
    ASSUME TreeInv, NEW c \in Nat, NEW m \in Nat, AddItem(<<c, m>>), NEW l \in Nat, NEW n \in Nat
    PROVE  Has(l, n)' <=> Has(l, n) \/ (l = c /\ n = m)
<1>1. items \in Seq([at: Item, role: Nat]) /\ funcs \in Seq(Item)
  BY DEF TreeInv, TypeOK
<1> DEFINE new == [at |-> <<c, m>>, role |-> Len(funcs) + 1]
<1>2. items' = Append(items, new) /\ new.at = <<c, m>>
  BY DEF AddItem, Role
<1> HIDE DEF new
<1>3. /\ Len(items') = Len(items) + 1 /\ Len(items) \in Nat
      /\ items'[Len(items) + 1] = new
      /\ \A k \in 1..Len(items) : items'[k] = items[k]
  BY <1>1, <1>2
<1>4. 1..Len(items') = 1..Len(items) \cup {Len(items) + 1}
  BY <1>3
<1>5. <<l, n>> = <<c, m>> <=> l = c /\ n = m
  OBVIOUS
<1> DEFINE x == <<l, n>>
           y == <<c, m>>
<1>6. Has(l, n)' <=> \E k \in 1..Len(items') : items'[k].at = x
  BY DEF Has
<1>7. Has(l, n) <=> \E k \in 1..Len(items) : items[k].at = x
  BY DEF Has
<1>8. new.at = y /\ (x = y <=> l = c /\ n = m)
  BY <1>2, <1>5
<1> HIDE DEF x, y
<1>9. (\E k \in 1..Len(items') : items'[k].at = x)
        <=> (\E k \in 1..Len(items) : items[k].at = x) \/ x = y
  BY <1>3, <1>4, <1>8
<1> QED
  BY <1>6, <1>7, <1>8, <1>9

\* While the loops run, nothing but their position and the items changes.
LEMMA BuildFacts ==
    ASSUME TreeInv, ItemsSoFar, Build
    PROVE  /\ file' = file /\ li \in Nat /\ si \in Nat /\ li >= 1
           /\ Len(file.loads) \in Nat /\ Len(file.sects) \in Nat
           /\ \A l : IsSegment(l)' <=> IsSegment(l)
           /\ \A l, n : Holds(l, n)' <=> Holds(l, n)
<1>1. file' = file /\ li \in Nat /\ si \in Nat /\ li >= 1 /\ file \in Files
  BY DEF TreeInv, TypeOK, Ahead, Build, AddFile, FilePanics, AddCommand, AddSegment, SegmentPanics,
         AddSection, PassSection, EndSegment, Finish, Panic
<1>2. Len(file.loads) \in Nat /\ Len(file.sects) \in Nat
  BY <1>1, StructAssumption
<1> QED
  BY <1>1, <1>2 DEF IsSegment, Holds

\* Each step of the loops adds the item it has come to.
LEMMA BuildItems == ASSUME TreeInv, ItemsSoFar, Build, pc' # "panic" PROVE ItemsSoFar'
<1> DEFINE Loads == 1..Len(file.loads)
           Sects == 1..Len(file.sects)
<1>1. /\ file' = file /\ li \in Nat /\ si \in Nat /\ li >= 1
      /\ Len(file.loads) \in Nat /\ Len(file.sects) \in Nat
      /\ \A l : IsSegment(l)' <=> IsSegment(l)
      /\ \A l, n : Holds(l, n)' <=> Holds(l, n)
  BY BuildFacts
<1>2. \A l \in Loads :
        /\ Has(l, 0) <=> Begun(l)
        /\ \A n \in Sects : Has(l, n) <=> IsSegment(l) /\ Holds(l, n) /\ Done(l, n)
  BY DEF ItemsSoFar
<1>3. Loads \subseteq Nat \ {0} /\ Sects \subseteq Nat \ {0} /\ 0 \in Nat
  BY <1>1
<1>4. SUFFICES
        /\ pc' # "file"
        /\ pc' = "sections" => li' \in Loads /\ IsSegment(li')
        /\ pc' = "ready" => li' > Len(file.loads)
        /\ \A l \in Loads :
            /\ Has(l, 0)' <=> Begun(l)'
            /\ \A n \in Sects : Has(l, n)' <=> IsSegment(l) /\ Holds(l, n) /\ Done(l, n)'
  BY <1>1 DEF ItemsSoFar, IsSegment
<1>5. CASE AddFile
  <2>1. pc = "file" /\ li = 1 /\ pc' = "loads" /\ li' = li /\ AddItem(<<0, 0>>)
    BY <1>5 DEF AddFile, ItemsSoFar
  <2>2. \A l \in Loads : \A n \in Nat : Has(l, n)' <=> Has(l, n)
    BY <1>3, <2>1, ItemAdded
  <2>3. \A l \in Loads : ~Begun(l)' /\ ~Begun(l) /\ \A n \in Sects : ~Done(l, n)' /\ ~Done(l, n)
    BY <1>1, <2>1 DEF Begun, Done
  <2> QED
    BY <1>2, <1>3, <2>1, <2>2, <2>3
<1>6. CASE AddCommand
  <2>1. /\ pc = "loads" /\ pc' = "loads" /\ li \in Loads /\ li' = li + 1 /\ AddItem(<<li, 0>>)
        /\ ~IsSegment(li)
    BY <1>1, <1>6 DEF AddCommand, AtLoad, IsSegment
  <2>2. \A l \in Loads : \A n \in Nat : Has(l, n)' <=> Has(l, n) \/ (l = li /\ n = 0)
    BY <1>1, <1>3, <2>1, ItemAdded
  <2>3. \A l \in Loads : /\ Begun(l)' <=> Begun(l) \/ l = li
                         /\ \A n \in Sects : Done(l, n)' <=> Done(l, n) \/ l = li
    BY <1>1, <2>1 DEF Begun, Done
  <2> QED
    BY <1>2, <1>3, <2>1, <2>2, <2>3
<1>7. CASE AddSegment
  <2>1. /\ pc = "loads" /\ pc' = "sections" /\ li \in Loads /\ li' = li /\ si' = 1
        /\ AddItem(<<li, 0>>) /\ IsSegment(li)
    BY <1>1, <1>7 DEF AddSegment, AtLoad, IsSegment
  <2>2. \A l \in Loads : \A n \in Nat : Has(l, n)' <=> Has(l, n) \/ (l = li /\ n = 0)
    BY <1>1, <1>3, <2>1, ItemAdded
  <2>3. \A l \in Loads : /\ Begun(l)' <=> Begun(l) \/ l = li
                         /\ \A n \in Sects : Done(l, n)' <=> Done(l, n)
    BY <1>1, <2>1 DEF Begun, Done
  <2> QED
    BY <1>2, <1>3, <2>1, <2>2, <2>3
<1>8. CASE AddSection
  <2>1. /\ pc = "sections" /\ pc' = "sections" /\ li' = li /\ si' = si + 1
        /\ AddItem(<<li, si>>) /\ Holds(li, si) /\ li \in Loads /\ IsSegment(li) /\ si >= 1
    BY <1>8 DEF AddSection, ItemsSoFar, TreeInv, Ahead
  <2>2. \A l \in Loads : \A n \in Nat : Has(l, n)' <=> Has(l, n) \/ (l = li /\ n = si)
    BY <1>1, <1>3, <2>1, ItemAdded
  <2>3. \A l \in Loads : /\ Begun(l)' <=> Begun(l)
                         /\ \A n \in Sects : Done(l, n)' <=> Done(l, n) \/ (l = li /\ n = si)
    BY <1>1, <2>1 DEF Begun, Done
  <2>4. si # 0
    BY <1>1, <2>1
  <2> QED
    BY <1>2, <1>3, <2>1, <2>2, <2>3, <2>4
<1>9. CASE PassSection
  <2>1. /\ pc = "sections" /\ pc' = "sections" /\ li' = li /\ si' = si + 1 /\ items' = items
        /\ ~Holds(li, si) /\ li \in Loads /\ IsSegment(li)
    BY <1>9 DEF PassSection, ItemsSoFar
  <2>2. \A l \in Loads : \A n \in Nat : Has(l, n)' <=> Has(l, n)
    BY <2>1, NoItemAdded
  <2>3. \A l \in Loads : /\ Begun(l)' <=> Begun(l)
                         /\ \A n \in Sects : Done(l, n)' <=> Done(l, n) \/ (l = li /\ n = si)
    BY <1>1, <2>1 DEF Begun, Done
  <2> QED
    BY <1>2, <1>3, <2>1, <2>2, <2>3
<1>10. CASE EndSegment
  <2>1. /\ pc = "sections" /\ pc' = "loads" /\ li' = li + 1 /\ items' = items
        /\ si > Len(file.sects)
    BY <1>10 DEF EndSegment
  <2>2. \A l \in Loads : \A n \in Nat : Has(l, n)' <=> Has(l, n)
    BY <2>1, NoItemAdded
  <2>3. \A l \in Loads : /\ Begun(l)' <=> Begun(l)
                         /\ \A n \in Sects : Done(l, n)' <=> Done(l, n)
    BY <1>1, <2>1 DEF Begun, Done
  <2> QED
    BY <1>2, <1>3, <2>1, <2>2, <2>3
<1>11. CASE Finish
  <2>1. /\ pc = "loads" /\ pc' = "ready" /\ li' = li /\ items' = items /\ li > Len(file.loads)
    BY <1>11 DEF Finish
  <2>2. \A l \in Loads : \A n \in Nat : Has(l, n)' <=> Has(l, n)
    BY <2>1, NoItemAdded
  <2>3. \A l \in Loads : /\ Begun(l)' <=> Begun(l)
                         /\ \A n \in Sects : Done(l, n)' <=> Done(l, n)
    BY <1>1, <2>1 DEF Begun, Done
  <2> QED
    BY <1>2, <1>3, <2>1, <2>2, <2>3
<1> QED
  BY <1>5, <1>6, <1>7, <1>8, <1>9, <1>10, <1>11 DEF Build, FilePanics, SegmentPanics, Panic

\* Nothing is asked of the tree of a file that was not opened.
ItemsInv == pc # "panic" => ItemsSoFar

\* A position of something that has an item is its only one.
LEMMA OnePlace ==
    ASSUME TreeInv, NEW l, NEW n, Has(l, n)
    PROVE  Cardinality({k \in 1..Len(items) : items[k].at = <<l, n>>}) = 1
<1> DEFINE x == <<l, n>>
<1>1. \E k \in 1..Len(items) : items[k].at = x
  BY DEF Has
<1>2. \A j, k \in 1..Len(items) : items[j].at = items[k].at => j = k
  BY DEF TreeInv, RolesRight
<1> HIDE DEF x
<1>3. PICK k \in 1..Len(items) : items[k].at = x
  BY <1>1
<1>4. {j \in 1..Len(items) : items[j].at = x} = {k}
  BY <1>2, <1>3
<1>5. Cardinality({k}) = 1
  BY FS_Singleton
<1> QED
  BY <1>4, <1>5 DEF x

\* In a well-formed file the test of NewStructModel finds the one segment with a section's bytes.
LEMMA OneSegment ==
    ASSUME file \in Files, WellFormed(file), NEW n \in 1..Len(file.sects)
    PROVE  \E l \in 1..Len(file.loads) :
             /\ IsSegment(l) /\ Holds(l, n)
             /\ file.loads[l].addr <= file.sects[n].addr
             /\ file.sects[n].addr < file.loads[l].addr + file.loads[l].size
             /\ \A m \in 1..Len(file.loads) : IsSegment(m) /\ Holds(m, n) => m = l
<1> DEFINE Loads == 1..Len(file.loads)
           addr(l) == file.loads[l].addr
           end(l) == file.loads[l].addr + file.loads[l].size
           from == file.sects[n].addr
           to == file.sects[n].addr + file.sects[n].size
<1>1. W \in Nat /\ W > 0 /\ file.loads \in Seq(Load) /\ file.sects \in Seq(Section)
  BY StructAssumption
<1>2. \A l \in Loads : addr(l) \in Nat /\ end(l) \in Nat
  <2> SUFFICES ASSUME NEW l \in Loads PROVE addr(l) \in Nat /\ end(l) \in Nat
    OBVIOUS
  <2>1. file.loads[l] \in Load
    BY <1>1, ElementOf
  <2>2. file.loads[l].addr \in Addr /\ file.loads[l].size \in Addr
    BY <2>1 DEF Load
  <2>3. \A x \in Addr : x \in Nat
    BY <1>1 DEF Addr
  <2>4. file.loads[l].addr \in Nat /\ file.loads[l].size \in Nat
    BY <2>2, <2>3
  <2>5. addr(l) + file.loads[l].size \in Nat
    BY <2>4
  <2> QED
    BY <2>4, <2>5
<1>3. from \in Nat /\ to \in Nat /\ from < to
  <2>1. file.sects[n] \in Section /\ file.sects[n].size > 0
    BY <1>1, ElementOf DEF WellFormed
  <2>2. from \in Addr /\ file.sects[n].size \in Addr
    BY <2>1 DEF Section
  <2>3. \A x \in Addr : x \in Nat
    BY <1>1 DEF Addr
  <2>4. from \in Nat /\ file.sects[n].size \in Nat
    BY <2>2, <2>3
  <2> DEFINE z == file.sects[n].size
  <2>5. z \in Nat /\ z > 0 /\ to = from + z
    BY <2>1, <2>4
  <2> HIDE DEF from, to, z
  <2> QED
    BY <2>4, <2>5 DEF from
<1>4. /\ \A l \in Loads : IsSegment(l) => end(l) < W
      /\ \A l, m \in Loads : IsSegment(l) /\ IsSegment(m) /\ l # m =>
           end(l) <= addr(m) \/ end(m) <= addr(l)
      /\ \E l \in Loads : IsSegment(l) /\ addr(l) <= from /\ to <= end(l)
  BY DEF WellFormed, IsSegment
<1>5. \A l : Holds(l, n) <=> addr(l) <= from /\ to % W <= end(l) % W
  BY DEF Holds
<1> HIDE DEF addr, end, from, to, Loads
<1>6. \A x \in Nat : x < W => x % W = x
  BY <1>1
<1>7. to < W
  <2>1. PICK l \in Loads : IsSegment(l) /\ to <= end(l)
    BY <1>4
  <2> QED
    BY <1>1, <1>2, <1>3, <1>4, <2>1
<1>8. to % W = to /\ \A l \in Loads : IsSegment(l) => end(l) % W = end(l)
  BY <1>2, <1>3, <1>4, <1>6, <1>7
<1>9. \A l \in Loads : IsSegment(l) => (Holds(l, n) <=> addr(l) <= from /\ to <= end(l))
  BY <1>5, <1>8
<1>10. PICK l \in Loads : IsSegment(l) /\ addr(l) <= from /\ to <= end(l)
  BY <1>4
<1>11. ASSUME NEW m \in Loads, IsSegment(m), Holds(m, n) PROVE m = l
  <2>1. addr(m) <= from /\ to <= end(m)
    BY <1>9, <1>11
  <2>2. ~(end(l) <= addr(m)) /\ ~(end(m) <= addr(l))
    BY <1>2, <1>3, <1>10, <2>1
  <2> QED
    BY <1>4, <1>10, <1>11, <2>2
<1>12. from < end(l)
  BY <1>2, <1>3, <1>10
<1> QED
  BY <1>9, <1>10, <1>11, <1>12 DEF addr, end, from, Loads

\* When the tree is ready every load command has one item, and in a well-formed file every
\* section has one, below the segment that holds its bytes.
LEMMA TreeComplete == TreeInv /\ ItemsInv => EverythingOnce
<1> SUFFICES ASSUME TreeInv, ItemsInv, pc = "ready" PROVE EverythingOnce
  BY DEF EverythingOnce
<1> DEFINE places(at) == {k \in 1..Len(items) : items[k].at = at}
           below(n) == {l \in 1..Len(file.loads) : places(<<l, n>>) # {}}
<1> SUFFICES
      /\ \A l \in 1..Len(file.loads) : Cardinality(places(<<l, 0>>)) = 1
      /\ WellFormed(file) =>
           \A n \in 1..Len(file.sects) : \E l \in below(n) :
               /\ below(n) = {l} /\ Cardinality(places(<<l, n>>)) = 1
               /\ file.loads[l].addr <= file.sects[n].addr
               /\ file.sects[n].addr < file.loads[l].addr + file.loads[l].size
  BY DEF EverythingOnce
<1>1. /\ file \in Files /\ li \in Nat /\ Len(file.loads) \in Nat /\ Len(file.sects) \in Nat
      /\ ItemsSoFar /\ li > Len(file.loads)
  <2>1. ItemsSoFar
    BY DEF ItemsInv
  <2>2. li > Len(file.loads)
    BY <2>1 DEF ItemsSoFar
  <2>3. file \in Files /\ li \in Nat
    BY DEF TreeInv, TypeOK
  <2>4. Len(file.loads) \in Nat /\ Len(file.sects) \in Nat
    BY <2>3, StructAssumption
  <2> QED
    BY <2>1, <2>2, <2>3, <2>4
<1>2. \A l, n : Has(l, n) <=> places(<<l, n>>) # {}
  <2> SUFFICES ASSUME NEW l, NEW n PROVE Has(l, n) <=> places(<<l, n>>) # {}
    OBVIOUS
  <2> DEFINE x == <<l, n>>
  <2>1. Has(l, n) <=> \E k \in 1..Len(items) : items[k].at = x
    BY DEF Has
  <2> HIDE DEF x
  <2>2. (\E k \in 1..Len(items) : items[k].at = x) <=> {k \in 1..Len(items) : items[k].at = x} # {}
    OBVIOUS
  <2> QED
    BY <2>1, <2>2 DEF x
<1>3. \A l, n : Has(l, n) => Cardinality(places(<<l, n>>)) = 1
  BY OnePlace
<1>4. \A l \in 1..Len(file.loads) :
        /\ Has(l, 0)
        /\ \A n \in 1..Len(file.sects) : Has(l, n) <=> IsSegment(l) /\ Holds(l, n)
  <2>1. \A l \in 1..Len(file.loads) : Begun(l) /\ \A n : Done(l, n)
    BY <1>1 DEF Begun, Done
  <2> QED
    BY <1>1, <2>1 DEF ItemsSoFar
<1> HIDE DEF places
<1>5. ASSUME WellFormed(file), NEW n \in 1..Len(file.sects)
      PROVE  \E l \in below(n) :
               /\ below(n) = {l} /\ Cardinality(places(<<l, n>>)) = 1
               /\ file.loads[l].addr <= file.sects[n].addr
               /\ file.sects[n].addr < file.loads[l].addr + file.loads[l].size
  <2>1. PICK l \in 1..Len(file.loads) :
             /\ IsSegment(l) /\ Holds(l, n)
             /\ file.loads[l].addr <= file.sects[n].addr
             /\ file.sects[n].addr < file.loads[l].addr + file.loads[l].size
             /\ \A m \in 1..Len(file.loads) : IsSegment(m) /\ Holds(m, n) => m = l
    BY <1>1, <1>5, OneSegment
  <2>2. Has(l, n) /\ \A m \in 1..Len(file.loads) : Has(m, n) => m = l
    BY <1>4, <2>1
  <2>3. below(n) = {l}
    BY <1>2, <2>1, <2>2
  <2> QED
    BY <1>3, <2>1, <2>2, <2>3
<1> QED
  BY <1>3, <1>4, <1>5

\* The tree leaves out no load command and, in a well-formed file, no section, and shows
\* none twice; a section hangs below the segment its bytes are in.
THEOREM NothingLeftOut == Spec => []EverythingOnce
<1>1. StructInv => TreeInv
  BY DEF StructInv
<1>2. Init /\ TreeInv => ItemsInv
  <2> SUFFICES ASSUME Init, TreeInv PROVE ItemsSoFar
    BY DEF ItemsInv
  <2>1. \A l, n : ~Has(l, n)
    BY DEF Init, Has
  <2>2. pc = "file" /\ li = 1 /\ \A l \in 1..Len(file.loads) : ~Begun(l) /\ \A n : ~Done(l, n)
    <3>1. Len(file.loads) \in Nat
      BY StructAssumption DEF TreeInv, TypeOK
    <3> QED
      BY <3>1 DEF Init, Begun, Done
  <2> QED
    BY <2>1, <2>2 DEF ItemsSoFar
<1>3. TreeInv /\ ItemsInv /\ [Next]_vars => ItemsInv'
  <2> SUFFICES ASSUME TreeInv, ItemsInv, [Next]_vars, pc' # "panic" PROVE ItemsSoFar'
    BY DEF ItemsInv
  <2>1. CASE Build
    <3>1. pc # "panic"
      BY <2>1 DEF Build, AddFile, FilePanics, AddCommand, AddSegment, SegmentPanics, AddSection,
                  PassSection, EndSegment, Finish, AtLoad
    <3> QED
      BY <2>1, <3>1, BuildItems DEF ItemsInv
  <2>2. CASE UNCHANGED <<file, treeVars>>
    <3>1. file' = file /\ pc' = pc /\ li' = li /\ si' = si /\ items' = items
      BY <2>2 DEF treeVars
    <3>2. ItemsSoFar
      BY <3>1 DEF ItemsInv
    <3>3. /\ \A l : (IsSegment(l)' <=> IsSegment(l)) /\ (Begun(l)' <=> Begun(l))
          /\ \A l, n : /\ Has(l, n)' <=> Has(l, n)
                       /\ Holds(l, n)' <=> Holds(l, n)
                       /\ Done(l, n)' <=> Done(l, n)
      BY <3>1 DEF IsSegment, Begun, Done, Has, Holds
    <3>4. IsSegment(li)' <=> IsSegment(li)
      BY <3>1 DEF IsSegment
    <3> QED
      BY <3>1, <3>2, <3>3, <3>4 DEF ItemsSoFar
  <2> QED
    BY <2>1, <2>2 DEF Next, Select, SelectNothing, vars
<1> QED
  BY <1>1, <1>2, <1>3, TreeComplete, StructInvariant, PTL DEF Spec

-----------------------------------------------------------------------------
\* A flag without a name is one past the names.
LEMMA Unnamed ==
    ASSUME NEW flags \in SUBSET Nat, NEW n \in Nat, ~Named(flags, n)
    PROVE  \E bit \in flags : bit >= n
  BY DEF Named

\* Building the tree fails of nothing but a flag without a name, in the file's header or in
\* a segment's.
THEOREM FailsOfFlagsOnly == Spec => []PanicsOnlyOnUnnamedFlags
<1>1. StructInv => file \in Files /\ li \in Nat /\ (pc = "loads" => li >= 1)
  BY DEF StructInv, TreeInv, TypeOK, Ahead
<1>2. Init => PanicsOnlyOnUnnamedFlags
  BY DEF Init, PanicsOnlyOnUnnamedFlags
<1>3. StructInv /\ PanicsOnlyOnUnnamedFlags /\ [Next]_vars => PanicsOnlyOnUnnamedFlags'
  <2> SUFFICES ASSUME StructInv, PanicsOnlyOnUnnamedFlags, [Next]_vars, pc' = "panic"
               PROVE  PanicsOnlyOnUnnamedFlags'
    BY DEF PanicsOnlyOnUnnamedFlags
  <2>1. CASE FilePanics
    <3>1. file.flags \subseteq Nat /\ ~Named(file.flags, FileFlags) /\ file' = file
      BY <1>1, <2>1, StructAssumption DEF FilePanics, Panic
    <3> QED
      BY <3>1, Unnamed, StructAssumption DEF PanicsOnlyOnUnnamedFlags
  <2>2. CASE SegmentPanics
    <3>1. /\ li \in 1..Len(file.loads) /\ file.loads[li].kind = "segment"
          /\ ~Named(file.loads[li].flags, SegmentFlags) /\ file' = file
          /\ file.loads \in Seq(Load)
      BY <1>1, <2>2, StructAssumption DEF SegmentPanics, AtLoad, Panic
    <3>2. file.loads[li] \in Load
      BY <3>1, ElementOf
    <3>3. file.loads[li].flags \subseteq Nat
      BY <3>2 DEF Load
    <3>4. \E bit \in file.loads[li].flags : bit >= SegmentFlags
      BY <3>1, <3>3, Unnamed, StructAssumption
    <3> QED
      BY <3>1, <3>4 DEF PanicsOnlyOnUnnamedFlags
  <2>3. CASE ~FilePanics /\ ~SegmentPanics
    <3>1. pc' = pc /\ file' = file
      BY <2>3 DEF Next, Build, AddFile, AddCommand, AddSegment, AddSection, PassSection,
         EndSegment, Finish, AtLoad, Select, SelectNothing, vars, treeVars
    <3> QED
      BY <3>1 DEF PanicsOnlyOnUnnamedFlags
  <2> QED
    BY <2>1, <2>2, <2>3
<1> QED
  BY <1>2, <1>3, StructInvariant, PTL DEF Spec

=============================================================================
