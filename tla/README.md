# A specification of GoView

GoView is a viewer for Mach-O files: `src/goview.go` opens a file with Go's
`debug/macho`, and the widgets under `src/macho_widgets/` show its load commands,
symbols, relocations and the bytes of sections and symbols. This directory holds TLA+
modules that model the parts of it in which something can go wrong, TLC runs that check
them on small instances, and proofs that TLAPS checks for every instance.

The program is sequential. Everything happens in callbacks of Qt's one thread, nothing
is written to disk, nothing is sent or received. What makes it hard to test is
elsewhere: its input is an arbitrary binary file; an unstable sort leaves the order of
aliases open; the index and the parser are loops with state carried from one turn to the
next, boundaries and wrapping arithmetic; the widgets keep state that callbacks change in
an order that Qt decides. The repository has no tests.

## The system's parts

| Part (source) | State | Operations | Correct when |
|---|---|---|---|
| Symbol index (`common.go`) | the sorted symbols, the map from addresses to `SymInfo`s | `NewFile`: sort, group, attach relocations; `SymLookup` | every symbol has an entry; entries do not overlap; sizes reach the next symbol or the section's end; each relocation is attached once |
| Section and symbol tables (`sectdata_model.go`, `symdata_model.go`) | rest of the data, address, current `SymInfo`, the rows made | `newSectionModel`, `newSymbolModel` for each view type | the rows tile the bytes; relocations hang under the row that holds them; no panic; the loop ends |
| `__eh_frame` parser (`eh_frame_model.go`) | offsets, what is known of each CIE, the rows made | one step per field of a CIE or FDE | what a compiler wrote is read back; nothing is read outside the section; FDEs hang under their CIE |
| Symbols tab (`symtab_widget.go`, `symtab_model.go`, `symdata_widget.go`, `button_bar_widget.go`) | filters, current row, the data widget's symbol, the checked buttons, the model on display | click a filter, search, select, click a view type; Qt moves the selection | the data and the checked button are those of the selected symbol; filters mean what they say |
| Relocations tab (`reltab_widget.go`, `reltab_model.go`) | the section shown, the check box, the hidden columns | select a section, click the box | one of the two address columns is visible, the one the box asks for, and shows the places of that section's relocations; values name an existing symbol or section |
| Relocation targets (`relocDataHtmlString`) | none | computes what the patched bytes refer to, per processor | the target is where the linked program would refer to |
| Anchors (`relocTargetHtmlString`, `anchor_widget.go`, `data_view.go`) | the links of a row, the window opened last | format a link, follow it | every link of a row leads to the target; a click opens the symbol or the section with it; what is fatal is known |
| Section data widget (`sectdata_widget.go`) | section, checked button, model | `SetSection`, click a view type | the address is one of the window's |
| Structure tab (`struct_widget.go`, `struct_model.go`) | the tree, the functions that make attribute tables, the cache of those made | build the tree, select an item | every load command and section has one item; the table shown is the selected item's, and is made once |
| Cells of the symbol table (`symtab_model.go`) | what is left of Desc, the lines printed | one block per meaning of a bit | the lines share out the bits; a flag is shown only where it has its meaning; no library out of range |
| DWARF values (`symdata_model.go`) | the reader's position in the debug information | find the variable, decode its bytes along its type | the global variable is found; each byte is decoded once, as its type says; nothing is read past the symbol's bytes |
| Main window (`goview.go`, `central_widget.go`, `data_view.go`) | open windows, those of followed links, dialog, messages | open a file, cancel, follow a link, close | the program lives as long as its windows; opening a file leaves the other windows alone |
| `types*.go`, `eh_frame_model_string.go`, `register_mapping.go` | none | names of constants | - |

They interact by calls: the main window gives the file to `NewFile`; the tabs share the
`File` it returns and never change it; the tables read `SymInfos`; disassembly and
relocation targets call `SymLookup`; widgets call back into each other through Qt's
signals (a button checked by `SetSymbol` calls `SetModel` before `SetSymbol` does).

## Modules

**AddressMap** is the abstract specification of the symbol index: a set of disjoint,
named extents, published once, and queries that answer with the extent that holds an
address or with none.

**SymbolIndex** is `NewFile`. `pc` is the loop it is in. `SortSymbols` is
`makeSortedSymbols`, with any order among symbols of equal value, since `sort.Sort` is
not stable. One turn of the grouping loop of `makeSymInfos` is `GroupRun` (the inner loop
breaks at a symbol of another address), `GroupAliasesOfLast` (it runs off the end) or
`GroupLast`. One turn of the relocation loop is `AttachReloc`, `SkipReloc`, `NextSection`
or `Finish`. `SymLookup` is the closure. `sort.Search` is modelled by what it finds
(`Found`). `uint64` arithmetic is modulo `W`. A symbol is its value, its section number
and whether it is defined in a section; names never matter to the index. Positions in
sequences count from 1.

**ViewInput** extends SymbolIndex with what a table of bytes is made from: where the bytes of
a section or of a symbol are (`BaseOf`, `ExtentOf`, `SymbolBytes`), which relocations are shown
with them, and what a table may die of. A difference of addresses that underflowed is a size
like any other: `make` panics when it is more than `MaxAlloc`. An arm64 instruction is taken to
be 4 bytes long, whatever is left (`OddSize`); relocations of one byte, or at the end of the
address space, are not decoded (`OddReloc`); a symbol's type may be one that `decodeValue`
panics on (`OddTypes`, what these are is DwarfValue's business); and a symbol that is not where
its section is makes its neighbours' sizes wrong (`OddSymbol`). Each of these is said of one
view: its own bytes, and the relocations of entries whose bytes it shows. DataRows shows
that they are all, and Anchors reckons with them in the windows it opens.

**DataRows** extends ViewInput with the two row loops. `OpenSection` and `OpenSymbol`
are the code before the loop, `AddRow`, `RowPanics` and `Done` its turns. The value
functions are represented by the sizes they may return (`RowSizes`): an instruction or a
string has any length that fits, since that depends on bytes the model does not hold.
`Undecodable` is the switch over the length in `relocDataHtmlString`. A panic ends the
program. A row is its address, its size, the entry in use (`entry`, which a section's loop
keeps until it meets another one) and the positions in that entry's list of the relocations
below it. Addresses wrap around as in the code, so a row's place in its view is a difference
modulo `W`.

**EHFrame** is the `__eh_frame` parser, with one action per field. `item` holds the rows
of the current entry (name, address, bytes shown), `table` the finished entries, `cies`
is `cieInfos`, and `loc` the local variables `penc`, `fenc`, `lenc`, `aug` while a CIE is
parsed, or the `cieInfo` an FDE uses. `Reject` is every `return false`, which makes the
whole model nil. Files are little-endian. A number that no field of a section under 64 KB
can hold is `Huge` (LEB128 numbers are read up to 21 bits), and `SectionsAssumption` says that sections are smaller; `Labels` are the
names a row may have. `SectionTiles` puts the rows of an item end to end (`Chained`,
`RowEnd`), the last of them at the end the length field announces (`LengthEnd`), and the
next item at the next multiple of the pointer's size (`PaddedEnd`, `ItemsEnd`). The steps that CIEs and FDEs share (augmentation data, instructions)
are one action for the two places in the code.

**EHFormat** says what a section looks like that the parser supports, without the parser: which
tables of items are laid out in it (`IsLayout`). The items fill the section one after another,
padded to a pointer's size; each shows its own bytes (`Shows`), and its rows are what its
augmentation calls for, one field after another (`IsCieItem`, `IsFdeItem`). It asks for what the
code silently relies on: versions 1 and 3; strings `z` with P, R and L at most once each; FDE
pointers as wide as the processor's, whatever encoding the CIE declares (see `EHFrameNarrow`);
LEB128 numbers of at most 8 bytes; a string's 0 within the 8 bytes the parser looks at;
an FDE behind its CIE; lengths and pointers that fit into 16 bits, as in every section under
64 KB; and instructions, if only padding, that start inside the section. EHFormat has no code
of its own; `LayoutsAssumption` says that what a section's author meant (`layout`, which the
runs take from the encoder) is such a layout.

**SymtabWidget** is the Symbols tab. An action is one user event with all the callbacks
it triggers; after a change of filters that hides the current row, `MoveCurrent` is Qt
choosing another row, possibly one that is about to go as well, until the selection is
visible (`Settled`). Sections are reduced to the view type `guessSectType` gives them and
the letter `toSymChar` gives their symbols, and a symbol's bytes to what reading them and
making rows of them comes to: all are there, some are missing, or the size is one that `make`
refuses (`bytes`); in which views a row panics (`odd`); and whether a type is found (`typed`).

**SymbolCells** is the Desc and Value cells of a symbol's row. `symDescString` goes through
the meanings block by block; each block is one step that may append a line to `vals` and
flips the bits it has shown out of its copy `desc`. Sets of bits stand for the 16-bit number.

**ReltabWidget** is the Relocations tab. Hidden columns belong to Qt's header and not to
the model: whether the header forgets them or keeps them when it is given another model is
chosen, since that is Qt's business and the code must be right either way.

**RelocTarget** holds no state: it is what `relocDataHtmlString` computes from the patched
bytes, per processor and type of relocation, as operators (`GenericTarget`, `Amd64Target`).
A byte has `B` values and a field of 1, 2, 4 or 8 bytes `Values(width)`, so that widths, signs
and wrapping can be told apart with small ones. `Meant` is the reference, in terms of what the
relocation asks the linker for; `KnownWrong` lists the five exceptions, for which the code does
something else. On AMD64 every type without a case of its own (BRANCH, GOT_LOAD, GOT, TLV) goes
through the default; for the last three, the linker is asked for a slot (`SlotTypes`), and the
code leads to the symbol that the slot is of.

**Anchors** extends ViewInput and RelocTarget with `relocTargetHtmlString` (`ShowReloc`:
a row's target and its links), `NewAnchorWidget` (`FollowSymbol`, `FollowAddress`: parse the
link and open a window), and the view buttons and closing of that window. A link is what was
formatted; `ParsesInt8` is what `strconv.ParseInt(s, 10, 8)` accepts of it. A window holds what
it is of, the checked button and the table on display, which is made before the window is
shown: `SetSymbol` and `SetSection` choose the view type, and `NewSymbolModel` and
`NewSectionModel` end with a table, without one, or with a panic (`DieIn`), as ViewInput says.
The place and the size in a link are parsed and then handed down to `newSymbolModel`, which
does not use them (`symdata_model.go:466`): a symbol is shown from its first byte. The code
compares with the end of a section modulo 2^64, so that one that wraps around holds nothing:
that no section holds an address is only claimed when none of them wraps (`SectsInSpace`).

**AttrTables** is the abstract specification of the Structure tab: an item shows its table,
which is made when it is first selected and never again. **StructModel** is the code: the
loops of `NewStructModel` over load commands and sections make `items` (with the number each
carries) and `funcs`; `Select` looks that number up in `cache`, or calls the function and
stores what it makes.

**DwarfValue** is `newDwarfTypeSymbolModel`: `Pass` and `Found` walk the debug information
until the symbol's variable is found; `Show` decodes it. `decodeValue` calls itself for the
types its type is made of: it is a recursive function `Decode` of a call (a type, the number of
bytes there are, zero-filled or not), and its result is the set of the scalars read, each with
the offset of its bytes. Sizes, offsets and numbers of elements are `int64` (`Int64`,
`-Half..Half - 1`) and may be negative; products and sums wrap (`Wrapped`), and `Part` is Go's
slicing, which panics unless its bounds are in order and within the slice's capacity: that is
passed down as `cap`, since a part may be cut longer than its parent as long as the symbol's
bytes last. `make([]string, n)` panics for a negative `n` and beyond `MaxCount`. A symbol of
length 0 has no row, and nothing is decoded (`ShowNothing`). Text is left out, so the argument
`label` is. What `debug/dwarf` gives is assumed of the constants: the entries are trees in preorder with a unit at each root
(`IsForest`), types have the fields the code uses (`IsType`), and no type is part of itself
(`Nesting`: a type comes back to itself only through a pointer, which is a scalar here; of a
type that contained itself the code would never be done).

**MainWindow** is `goview.go`: the start with a path or a dialog, "Open..." of any window,
cancelling, error messages, closing. `dialog.Exec` runs an event loop of its own, so a
handler is suspended between `TriggerOpen` and `Choose` or `Cancel`; what a path holds is
found out only then. Following a link opens one more window without a parent
(`data_view.go:50`), which counts as one of the program's windows: `app.Exec` returns when the
last of all of them is closed. Links and tables that are fatal are those of Anchors; here
`FollowLink` just may crash. A panic in a callback of Qt ends the program.

**MCSymbolIndex**, **MCDataRows**, **MCEHFrame**, **MCSymtabWidget**, **MCSymbolCells**,
**MCReltabWidget**, **MCAnchors**, **MCStructModel**, **MCDwarfValue** and **MCMainWindow**
define the files, symbols, relocations, types and paths TLC uses. MCEHFrame contains an
encoder: it lays out CIEs and FDEs with the rows that should be seen, in terms of the format
and not of the parser. TLC checks every layout it makes against EHFormat.

**SymbolIndexProofs**, **IndexReadersProofs** (DataRows and Anchors, the two components that
read the finished index), **EHFrameProofs**, **SymtabWidgetProofs**, **SymbolProofs**
(SymbolCells and DwarfValue, the row and the value of one symbol), **ReltabWidgetProofs**,
**StructModelProofs** and **MainWindowProofs** hold the theorems.

Operators named after another one with a suffix (`SizeUpToAnySect`, `CoversStrictly`,
`ResumeBefore`...) are the plausible mistakes each property was seen to catch; they
are not used by the specifications.

## Runs

| Run | Question | Bounds |
|---|---|---|
| `SymbolIndexWellFormed` | Are sizes, aliases and relocations right, whatever order the sort leaves, does the index implement `AddressMap`, and does `NewFile` end? | up to 3 symbols at 6 addresses in 2 sections, 3 layouts (adjacent, apart, empty section), `W = 10` |
| `DataRows` | Is every symbol indexed in any file? Does each table show each byte once and each relocation where it belongs? What can panic, and does the loop end? | files in order with a section of 10 bytes (more than one 8-byte row) and relocations inside, across and at the end of rows; sets of files that are odd in one way each: up to 3 symbols with section numbers 0 and out of range, or outside their section, with a relocation behind it; arm64 sections and symbols that end within an instruction; a relocation of one byte below one symbol and none below the other; a section that wraps around the end of the addresses; one larger than `MaxAlloc = 10`; a type that cannot be decoded; `W = 16` |
| `EHFrame` | Is what a compiler writes read back? Is nothing read or shown wrongly in a broken section, and does the parser end? | one CIE of any kind (augmentations none, `eh`, `zR`, `zPLR`, `zL`; versions 1 and 3) with up to two FDEs, or two CIEs with three FDEs in mixed order; 4- and 8-byte pointers; two CIEs with an FDE each, cut at every byte, extended, or with every byte overwritten by each of 4 values or counted down |
| `EHFrameNarrow` | Is the declared FDE encoding used? No: see below. | `sdata4` on 64 bits |
| `Symtab` | Do the data and the button follow the selection? Do the filters mean what they say; what can panic? | every pair of 6 kinds of symbols, and of 11 further ones with section numbers 0 and out of range, a section of unwind tables, a size that underflowed and views of fatal rows; 2 names; any sequence of clicks |
| `SymbolCells` | Do the lines of a Desc cell share out its bits and mean what they say? | 64 combinations of the low bits with 8 of the high ones, 24 kinds of symbols; stabs of every kind; object, flat and two-level files with 0 and 3 libraries |
| `ReltabTab` | Is the right address column visible, with the right addresses and names? | 3 sections, one without relocations; values below, at and beyond the number of symbols and sections; `M = 16` |
| `AnchorsLinks` | Is the target the right one, and do all links of a row and the window of a click lead to it? What can panic? | three processors, 26 kinds of relocations, 10 field values; aliases, a section without symbols, a hole, overlapping sections, one that wraps around, and a file whose symbols are fatal: in unwind tables, behind their section, without one, above a one-byte relocation; `B = 2`, `W = 256`, `LinkMax = 12`, `MaxAlloc = 100` |
| `AnchorsSize` | Can every link be parsed? No: see below. | the same |
| `StructTab` | Is the table shown the selected item's, made once; does the cache implement `AttrTables`; is every section shown once? | up to 3 load commands with adjacent, overlapping, empty and wrapping segments, 2 sections of 6 kinds, `W = 10`; at most 3 tables made (`FewTables`) |
| `DwarfValue` | Is the right variable found and decoded as its type says? | 40 types of variables of up to three levels, among them unions, bit fields, unknown, negative and huge lengths, sizes and offsets, and products and sums that wrap (`Half = 32`, `MaxCount = 20`); symbols of up to 9 bytes, zero-filled or not; local variables before the global one, underscores, several units, one of them not a compile unit |
| `MainWindows` | Does the program live as long as its windows? | 2 paths that may hold anything whenever they are opened, 3 windows (`MaxWindows`), 2 of links (`MaxLinks`) |

Why the bounds are enough: a size or an alias run is decided by two neighbouring symbols
and a section end, so a third symbol gives every position of a run (below, between, at the
top). `W` is small enough that subtraction wraps. Rows interact with their neighbours
only, and two symbols make an entry outlive its symbol. An FDE depends on its own CIE and
entry numbers, for which two CIEs and three FDEs are needed. The tab's widgets hold one
symbol each, so two rows and none are all the selections that differ. A byte of two values
has fields of 2, 4 and 8 bits, enough for a negative displacement of each width, and
`LinkMax = 12` stands for the 127 of an int8: the longest section is longer. Three tables
made in any order and a fourth on its way distinguish a number, a position in the cache and
the order of making; `FewTables` bounds the selections only, the tree is complete by then.
A dialog knows one window, and messages one each, so of three windows one is
neither the dialog's nor the last; of two windows of links, one is not. `Half` is small enough
that a product of a number and a size below it wraps back to one that fits into the symbol.

Deadlock is checked in `SymbolIndexWellFormed` and `ReltabTab`. The other configurations say
`CHECK_DEADLOCK FALSE`: a parser and a cell stop when they have returned, and a program that
has panicked or exited is over.

### What the violated properties show

Two runs check a statement of the source that the code does not keep.

* `FdeEncodingUsed`: the encoding parsed for `'R'` never reaches `cieInfo.fenc`
  (`eh_frame_model.go:484`), so FDEs are always read with pointer-wide addresses.
* `SizesParse`: the arguments of the format of a symbol's link are swapped
  (`reltab_model.go:411`), so that its size is a name. Following the link ends the program.

Other disagreements are part of the models as they are, and a property that holds says
exactly how far they reach:

* `relocDataHtmlString` has `case 0` where it means one byte (`reltab_model.go:187`), and
  `relocLenString` lists `0 (byte)` among the lengths; any view of such a relocation ends in
  `panic("unreachable")` (`PanicsOnlyOnOddInput`).
* `guessSymType` may return `EHFrame`, for which `NewSymbolModel` has no case
  (`symdata_model.go:35`); selecting the symbol is enough (`CrashesOnlyOnOddSymbols`), and so is
  following a link to it (`DiesOnlyOfBadLinks`).
* A symbol outside its section makes a size underflow (`common.go:134`), and `make` panics when
  its bytes, or its neighbour's, are asked for (`OddSymbol`); an arm64 section or symbol that
  ends within an instruction is sliced past its end (`common.go:256`, `OddSize`).
* Addends are parsed with 8 bits (`anchor_widget.go:26`): a link 128 bytes or more into a
  symbol panics (`DiesOnlyOfBadLinks`).
* For five kinds of relocations the sums differ from what they refer to: a scattered address is
  counted twice, a local relocation of AMD64 is taken to be relative to the pc even if it is
  not, a negative displacement narrower than an address is not sign-extended, the pc of a
  thread-local one is left out, and a GOT or TLV slot of AMD64 is taken for its symbol. They are `KnownWrong`, and `TargetMeant` holds of all others,
  for every value of a field.
* A flag beyond the last name ends the program (`PanicsOnlyOnUnnamedFlags`), and so do
  an array of unknown or huge length, a field before its structure and sizes beyond `int64`
  (`PanicsOnlyOnOddTypes`).
* The window of a link opens a symbol at its first byte, whatever the link says of the place in
  it (`ClicksLeadToTarget`), and keeps the program running when the last file's window is
  closed (`WindowsAlive`).
* `f.Close()` is called on the nil of a failed `macho.Open` (`goview.go:84`), before the
  message that is meant to be shown: an outcome of `Choose`.
* The highest address keeps only one of its aliases (`AliasesListedBelowTop`), and the
  augmentation string's row shows its first byte only (the encoder and `SectionTiles` allow for it).

Met while reading, and outside of what the models tell apart: `vmprotString` has `r` and `x`
swapped (`struct_model.go:334-352`); the row `nmodtab` prints `Modtaboff` (`struct_model.go:107`);
a common symbol's alignment is not shifted all the way down (`symtab_model.go:224`); the comment on
`Symaddr` says the opposite of the code (`reltab_model.go:178`); `N_ARM_THUMB_DEF` is shown
for every processor (`symtab_model.go:232`), although `types.go:363` says "for arm";
`sectionFlagsString` leaves unknown bits out; a one-byte enumeration is read unsigned
(`symdata_model.go:372`).

### Fairness

`NewFile`, the row loops and the parser are uninterrupted calls, hence weak fairness of
`Build`, `Loop` and the parser's `Next`, for `Completes`, `ViewEnds` and `Terminates`.
`NewStructModel` and the search for a variable go through finite lists whose positions only
grow, and nothing else is stated about their end.
Nothing obliges a user to click, so queries, openings, the tabs and the windows have none.

## Proofs

Each proof module EXTENDS the module it is about and holds one inductive invariant for it,
whose preservation is shown action by action; the theorems about single properties follow
from it. Each theorem holds for every value of the constants that satisfies the ASSUMEs of
its component, which TLC evaluates in the runs. IndexReadersProofs and SymbolProofs have two
parts each, about one module and from that module's assumptions only; those of the former rest
on the lemmas of SymbolIndexProofs about the finished index.

* **SymbolIndexProofs**, for every `W > 8` and every set of files: `TypeCorrect`, `AllIndexed`
  (`EverySymbolIndexed`), `NoOverlap` (`RangesDisjoint`), from `IInv`. `EverySymbolIndexed`
  speaks of the end of the grouping loop, so `IndexedSoFar` says that everything before
  position `i` is indexed; a run that ends at `j` has the same address throughout, so its
  first element's entry serves all of it. `RangesDisjoint` needs that an entry reaches no
  further than the next symbol, also when that symbol's own entry is still to be made:
  `SizeBound` compares entries with symbols, and `OnlySymbolsIndexed` leads back to entries.
  Both need the order of `ssyms` (`SortedSoFar`). If the next symbol is in another section,
  sections not overlapping puts it at or behind the end of this one (`RunBound`). Well-formed
  files do not wrap around, which makes the modular arithmetic exact (`ArithExact`).

  Its second part says what the index holds, from `Contents`: sorting lost and repeated
  no symbol (`Collected`), each entry is that of a whole run or of the last symbol
  (`Entries`), and the relocations passed so far are attached where they are contained
  (`AttachedSoFar`). For every file it gives `ListsAreComplete` (`AliasesListedBelowTop`), and
  for every well-formed one `SizesAreExact` (`SizesReachNextSymbol`), `AttachedWhereContained`
  (`RelocsAttachedOnce`) and the refinement `IndexImplementsMap` (`ImplementsAddressMap`). The
  last two need that the search leads to the one entry that holds an address
  (`SearchFindsHolder`): were it another, `SizeBound` would end the holder before it.
* **IndexReadersProofs**, first part: DataRows, for every file, view and choice of row sizes.
  `TablesTile` (`RowsTile`), `RelocsWhereTheyBelong` (`RelocsShown`), `DiesOnOddInputOnly`
  (`PanicsOnlyOnOddInput`), `ViewsKeepIndex` (`EverySymbolIndexed` in a program that opens
  views) and `ViewTypeCorrect`. `TableInv` adds to the invariants of the index that a view is
  of something the file has (`Opened`) and, of a view in its loop: what is left of the data
  ends where the view does (`Ahead`); the rows share out the bytes behind (`Behind`); each row
  shows those of its entry's relocations that lie in it (`RowsMade`); a symbol's rows have the
  symbol's entry (`EntryOfSymbol`), and a section's the last entry that began at a row
  (`EntriesOfSection`). The last one is what makes `RelocsShown` true although an entry
  outlives its symbol: a relocation of a symbol that begins a row is behind that row, and
  before the next symbol's (`HolderInUse`).
* **IndexReadersProofs**, second part: Anchors, for every file, every kind of relocation of
  every processor, every value of its field and every `B`. `TargetsAreMeant` (`TargetMeant`),
  `LinksAreRight` (`LinksLeadToTarget`), `SectionWindowsAreRight` (`SectionWindowRight`),
  `DiesOfBadLinksOnly` (`DiesOnlyOfBadLinks`) and the action property `ClicksLeadThere`
  (`ClicksLeadToTarget`). That a sum cut to 64 bits is the address meant is a matter of
  congruences: `Congruent` adds up, chains and descends from an address space of 64 bits to
  one of 32 (`CongruentRoot`), so each case of the code is compared with `Meant` without `%`
  (`TargetRight`). The links need the contents of the index: an entry lists symbols of its
  address only, and at least one (`EntryNames`), and an address within an entry is found
  there (`LinksNameAll`). `AnchorInv` says that a row's cell is what was read and computed for
  one relocation once the index was ready (`CellRead`), and that a window is what the click and
  the buttons made of it (`WindowMade`). A table on display, or one that was fatal, is the one
  the checked button asks for of the window's symbol or section (`SectionOpened`,
  `SymbolOpened`, `SectionButtonAndView`, `SymbolButtonAndView`), so what it died of is an
  oddity of those bytes; links that cannot be parsed are of two kinds only (`CrashIsKnown`).
* **EHFrameProofs**, for every section of fewer than `Huge` bytes, whatever they are, and both
  pointer sizes: `TypeCorrect` (`TypeOK`: nothing is read or shown from outside the section),
  `EveryByteOnce` (`SectionTiles`) and `FdesHangRight` (`FdesUnderTheirCie`). The invariant has
  four parts beside them: the variables' types (`Typed`); the rows of the entry that is being
  read reach from its start to `off`, and its end is the one its length says (`EntryRight`);
  the CIE in use is a known one, the one the FDE's pointer row leads to (`CieKnown`); and a CIE
  in `cieInfos` has one item, or is being read, and counts the FDEs that have come in
  (`CiesRight`), so that their numbers go up one by one.

  `ReadBackAsLaidOut` (`RoundTrip`) is about the sections in which a table is laid out, with any
  number of CIEs and FDEs in any mixture of kinds. Its invariant `Follows` says that the parser
  is where the layout is: the finished items are the layout's (`OnTable`), the rows of the
  entry being read are the first rows of its next item (`OnItem`), the step to come is the one
  that reads the next row, in the augmentation the one for the character it has reached
  (`OnField`), and `loc` and `cieInfos` hold what the CIEs' rows declare (`OnCie`, `CiesSeen`).
  Each action then reads the row that is meant and not more: a field is as long as its row
  shows, and what `uleb128` makes of the augmentation's length is the distance that the layout
  has there. That no action rejects, and that the loop leaves exactly at the end of the last
  item, is part of it. `LayoutsAssumption` is not a restriction on the files
  that the parser gets, only on which of them `RoundTrip` speaks of: the other three theorems
  hold of all.
* **SymtabWidgetProofs**, for every file and any sequence of events: `TypeCorrect`,
  `DataFollowsSelection` (`ShowsSelection`: the selected symbol's bytes are shown, and no
  other's), `ButtonFollowsView` (`ButtonMatchesView`), `FiltersMeanLetters` (`FilterMeaning`)
  and `DiesOnlyOfOddSymbols` (`CrashesOnlyOnOddSymbols`). `TabInv` adds `SelectedIsHeld`: the
  data widget holds the selected symbol, also between a change of the filters and Qt's new
  selection.
* **SymbolProofs**, first part: SymbolCells, for every file and symbol: `TypeCorrect`, `EachBitOnce` (`BitsOnce`),
  `AllLinesRight` (`LinesRight`: numbers are shown whole, flags where they have their meaning,
  and libraries exist) and `ColumnsAgree` (`CommonsAgree`). `CellsInv` says which bits are still
  there when a block is reached (`StillThere`), that lines and the rest share out the bits
  (`SharedOut`), and that each line made so far is right (`LineRight`); `AlignmentOfCommons`
  that there is a line with an alignment as soon as the block for it has run, for common
  symbols only.
* **SymbolProofs**, second part: DwarfValue, for every debug information, all types, however deep
  they are nested, and symbols of any length. `FindsGlobalVariable` (`FindsGlobal`) needs that the
  search stops only at units and at the children of compile units, and that no global variable
  of the name is behind it (`Searched`): `Pass` jumps over what is deeper, and a global variable
  is deeper than the entry jumped over only if that entry is a compile unit
  (`PassKeepsSearched`). `DecodedIsWhole` (`DecodesWhole`), `WhatFitsIsDecoded`
  (`DecodesWhatFits`) and `PanicsOnOddTypes` (`PanicsOnlyOnOddTypes`) are about `decodeValue`, for
  every width of `int64`.
  First, that `Size`, `PartsOf`, `Scalars` and `Decode` are what their recursive definitions
  say: a recursion that goes down in some number has a fixed point (`Recursion`, shown of the
  least number for which it would not), and all four go down in `Nesting`. Then each fact is
  shown of a type from the same fact of those it is made of (`AllTypes`, of a least deep
  counterexample): parts are within the bytes they are cut from (`StructIs`, `ArrayIs`,
  `FieldIs`, `ElementIs`), moving scalars to their place keeps them within and apart
  (`ShiftKeeps`), and fields of a structure that is no union, and elements of an array, lie
  behind one another (`BehindApart`). `Whole` is what is right about a result.
* **ReltabWidgetProofs**, for every file: `OneColumn` (`ColumnsFollowBox`) and
  `CellsOfSelected` (`CellsRight`), whatever Qt's header remembers. The names need that
  `0 - 1` is a number no section has (`SectNumMeans`).
* **StructModelProofs**, for every file: `TypeCorrect`, `SelectedIsOnDisplay`
  (`ShownIsCurrent`), `NumbersRight` (`RolesRight`), `TablesMadeOnce` (`MadeOnce`),
  `NothingLeftOut` (`EverythingOnce`), `FailsOfFlagsOnly` (`PanicsOnlyOnUnnamedFlags`) and the
  refinement `ImplementsTables` (`ImplementsAttrTables`). `StructInv` is `TreeInv`, about the
  tree, and two parts about the tab. In `TreeInv`, `NothingYet` says that there is no table
  before the tree is complete, `Ahead` that no item yet stands for what the loops have still
  to reach, so that items are distinct, and `RolesRight` that numbers lead to the right
  functions. `CacheRight`: a number's place in the cache is empty or holds the one table that
  describes what its function makes. The last part is `ShownIsCurrent` itself.
  `EverythingOnce` follows from a second invariant, `ItemsInv`: the items made so far are those
  of the load commands and sections that the loops have passed.
* **MainWindowProofs**, for any number of windows: `TypeCorrect`, `LivesWithWindows`
  (`WindowsAlive`) and the action property `OpeningLeavesOthers` (`OthersLeftAlone`).
  `WindowInv` adds `Phases`: which dialogs and windows, also of links, there can be in each phase.

The type invariants that no run lists are proved (`ViewTypeOK` of DataRows among them);
EHFrame's is proved and run. Anchors has none: `TargetFits`, a part of `TargetMeant`, says that
a target's numbers fit their fields, and `AnchorInv` the rest.

Only model-checked: liveness (`Completes`, `ViewEnds`, `Terminates`), and with it fairness,
which the prover does not reach.

## Not modelled

The text of cells: names of constants, flags, values, disassembly. Layout and painting.
Big-endian files in the parser. The decoding done by `debug/macho` and `debug/dwarf`, which
are libraries: the models begin with what they return. Reading errors of the file after it
has been opened, except for a section whose bytes cannot be had. Sorting by a column, which
is Qt's. Targets of ARM relocations, a TODO in the code. What the bytes of a scalar mean in
DwarfValue. `types.go`, `types_string.go`, `eh_frame_model_string.go` and
`register_mapping.go` are constants and tables of names, without state or control; the bits
of `Desc` and the library ordinals are all of them that a model uses.

## Plan

Every invariant, action property and refinement that a passing run checks has a theorem; only
liveness is model-checked alone.
