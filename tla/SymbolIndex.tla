------------------------------ MODULE SymbolIndex ------------------------------
(***************************************************************************)
(* NewFile (macho_widgets/common.go): the index from addresses to symbols  *)
(* that every view of a Mach-O file uses.                                  *)
(*                                                                         *)
(* The index is built once, in three loops: the symbols defined in a       *)
(* section are collected and sorted by address; runs of symbols with the   *)
(* same address become one SymInfo with a size; every relocation is        *)
(* attached to the symbol whose bytes it patches.  Afterwards SymLookup    *)
(* answers queries from it.                                                *)
(*                                                                         *)
(* sort.Sort is not stable, so symbols of equal address come out in any    *)
(* order: SortSymbols chooses it.  Positions count from 1 here and from 0  *)
(* in the code.  uint64 arithmetic is modulo W.                            *)
(***************************************************************************)
EXTENDS Integers, Sequences

CONSTANTS
    W,      \* the number of values of a uint64
    Files,  \* the files that may be opened
    Nil     \* Go's nil: an absent map entry, no answer yet

Addr == 0 .. (W - 1)

\* A symbol, reduced to what the index reads of it: inSect stands for
\* "not N_STAB and N_TYPE = N_SECT", sect is the 1-based section number.
Symbol == [value: Addr, sect: Nat, inSect: BOOLEAN]

\* A relocation: its offset in the section and the 1 << r.Len bytes it patches.
Reloc == [addr: Addr, width: {1, 2, 4, 8}]

Section == [addr: Addr, size: Addr, relocs: Seq(Reloc)]

File == [syms: Seq(Symbol), sects: Seq(Section)]

\* A *SymInfo: its size, the symbols at its address, and its relocations as
\* <<section, position>>.
InfoType == [size: Addr, indices: Seq(Nat), relocs: Seq(Nat \X Nat)]

\* A query with the name and the base that the closure returns for it.
AnswerType == [addr: Addr, base: Addr, names: Seq(Nat)]

ASSUME WAssumption == W \in Nat /\ W > 8
ASSUME FilesAssumption == Files \subseteq File
ASSUME NilAssumption == Nil \notin InfoType /\ Nil \notin AnswerType

VARIABLES
    file,    \* the *macho.File
    pc,      \* which loop NewFile is in
    ssyms,   \* SortedSymbols, as positions in file.syms
    i,       \* the outer loop's position in ssyms
    infos,   \* symInfos: map[uint64]*SymInfo
    si,      \* the section and
    ri,      \* the relocation the last loop has reached
    answer   \* the last SymLookup and its result

vars == <<file, pc, ssyms, i, infos, si, ri, answer>>

-----------------------------------------------------------------------------
(* The data the loops read.                                                  *)

Plus(a, b) == (a + b) % W
Minus(a, b) == (a - b) % W

Sym(k) == file.syms[ssyms[k]]
Val(k) == Sym(k).value

HasSect(f, s) == 0 < s.sect /\ s.sect <= Len(f.sects)
SectEnd(f, n) == f.sects[n].addr + f.sects[n].size

\* The symbols makeSortedSymbols keeps.
Sectional(f) == {n \in 1..Len(f.syms) : f.syms[n].inSect}

IsSortedSymbols(f, ss) ==
    /\ \A n \in Sectional(f) : \E k \in DOMAIN ss : ss[k] = n
    /\ \A j, k \in DOMAIN ss : ss[j] = ss[k] => j = k
    /\ \A j, k \in DOMAIN ss :
         j < k => f.syms[ss[j]].value <= f.syms[ss[k]].value

\* sort.Search over ssyms finds the first value above a: k is the position before it.
\* There is none when every value is above a (the code's k == 0).
Found(k, a) ==
    /\ k \in 1..Len(ssyms)
    /\ Val(k) <= a
    /\ \A j \in (k + 1)..Len(ssyms) : a < Val(j)

\* j is the first position after k whose symbol has another address.
NextDistinctNoBreak(k, j) ==
    /\ j \in (k + 1)..Len(ssyms)
    /\ Val(j) # Val(k)
NextDistinct(k, j) ==
    /\ j \in (k + 1)..Len(ssyms)
    /\ Val(j) # Val(k)
    /\ \A h \in (k + 1)..(j - 1) : Val(h) = Val(k)

\* The bytes from symbol k to the end of its section.
ToSectEnd(k) ==
    IF HasSect(file, Sym(k))
    THEN Minus(Plus(file.sects[Sym(k).sect].addr, file.sects[Sym(k).sect].size), Val(k))
    ELSE 0

\* The size of a run that starts at k and is followed by symbol j.
SizeUpToSectEnd(k, j) == ToSectEnd(k)
SizeUpToAnySect(k, j) == Minus(Val(j), Val(k))
SizeUpTo(k, j) ==
    IF Sym(k).sect = Sym(j).sect THEN Minus(Val(j), Val(k)) ELSE ToSectEnd(k)

Info(size, indices) == [size |-> size, indices |-> indices, relocs |-> <<>>]

\* The symbols of the run k..j-1, and where the outer loop goes on after it.
AliasesFirstOnly(k, j) == <<ssyms[k]>>
Aliases(k, j) == SubSeq(ssyms, k, j - 1)

ResumeBefore(j) == j - 1
Resume(j) == j

\* symInfos[Val(k)] = info
SetInfo(k, info) == infos' = [infos EXCEPT ![Val(k)] = info]

-----------------------------------------------------------------------------
(* Building the index.                                                       *)

Init ==
    /\ file \in Files
    /\ pc = "sort"
    /\ ssyms = <<>>
    /\ i = 1
    /\ infos = [a \in Addr |-> Nil]
    /\ si = 1
    /\ ri = 1
    /\ answer = Nil

\* makeSortedSymbols; a file without sectional symbols skips both other loops.
SortSymbols ==
    /\ pc = "sort"
    /\ \E n \in 0..Len(file.syms) : \E ss \in [1..n -> Sectional(file)] :
         /\ IsSortedSymbols(file, ss)
         /\ ssyms' = ss
         /\ pc' = IF n = 0 THEN "ready" ELSE "group"
    /\ UNCHANGED <<file, i, infos, si, ri, answer>>

\* The inner loop stops at a symbol of another address; the outer one resumes there.
GroupRun ==
    /\ pc = "group"
    /\ i < Len(ssyms)
    /\ \E j \in (i + 1)..Len(ssyms) :
         /\ NextDistinct(i, j)
         /\ SetInfo(i, Info(SizeUpTo(i, j), Aliases(i, j)))
         /\ i' = Resume(j)
    /\ UNCHANGED <<file, pc, ssyms, si, ri, answer>>

\* The inner loop runs off the end: every remaining symbol has this address.  The
\* entry is stored without a size and the outer loop goes on with the next alias.
GroupAliasesOfLast ==
    /\ pc = "group"
    /\ i < Len(ssyms)
    /\ \A j \in (i + 1)..Len(ssyms) : ~NextDistinct(i, j)
    /\ SetInfo(i, Info(0, Aliases(i, Len(ssyms) + 1)))
    /\ i' = i + 1
    /\ UNCHANGED <<file, pc, ssyms, si, ri, answer>>

\* The last symbol reaches to the end of its section.
GroupLast ==
    /\ pc = "group"
    /\ i = Len(ssyms)
    /\ SetInfo(i, Info(ToSectEnd(i), <<ssyms[i]>>))
    /\ i' = i + 1
    /\ pc' = "reloc"
    /\ UNCHANGED <<file, ssyms, si, ri, answer>>

AtReloc ==
    /\ pc = "reloc"
    /\ si <= Len(file.sects)
    /\ ri <= Len(file.sects[si].relocs)

CurReloc == file.sects[si].relocs[ri]
RelocAddr(s, r) == Plus(file.sects[s].addr, r.addr)

\* symInfos[v] holds every byte the relocation r of section s patches.
CoversStrictly(v, s, r) ==
    /\ v <= RelocAddr(s, r)
    /\ Plus(RelocAddr(s, r), r.width) < Plus(v, infos[v].size)
Covers(v, s, r) ==
    /\ v <= RelocAddr(s, r)
    /\ Plus(RelocAddr(s, r), r.width) <= Plus(v, infos[v].size)

AttachReloc ==
    /\ AtReloc
    /\ \E k \in 1..Len(ssyms) :
         /\ Found(k, RelocAddr(si, CurReloc))
         /\ Covers(Val(k), si, CurReloc)
         /\ infos' = [infos EXCEPT ![Val(k)].relocs = Append(@, <<si, ri>>)]
    /\ ri' = ri + 1
    /\ UNCHANGED <<file, pc, ssyms, i, si, answer>>

SkipReloc ==
    /\ AtReloc
    /\ \A k \in 1..Len(ssyms) :
         Found(k, RelocAddr(si, CurReloc)) => ~Covers(Val(k), si, CurReloc)
    /\ ri' = ri + 1
    /\ UNCHANGED <<file, pc, ssyms, i, infos, si, answer>>

NextSection ==
    /\ pc = "reloc"
    /\ si <= Len(file.sects)
    /\ ri > Len(file.sects[si].relocs)
    /\ si' = si + 1
    /\ ri' = 1
    /\ UNCHANGED <<file, pc, ssyms, i, infos, answer>>

Finish ==
    /\ pc = "reloc"
    /\ si > Len(file.sects)
    /\ pc' = "ready"
    /\ UNCHANGED <<file, ssyms, i, infos, si, ri, answer>>

-----------------------------------------------------------------------------
(* Using it.                                                                 *)

\* The closure tests j > 0, then sym.Value != 0 && sym.Value <= addr &&
\* addr < sym.Value + info.Size.
HitsEnd(k, a) ==
    /\ Found(k, a)
    /\ Val(k) # 0
    /\ a <= Plus(Val(k), infos[Val(k)].size)
Hits(k, a) ==
    /\ Found(k, a)
    /\ Val(k) # 0
    /\ a < Plus(Val(k), infos[Val(k)].size)

SymLookup(a) ==
    /\ pc = "ready"
    /\ \/ \E k \in 1..Len(ssyms) :
            /\ Hits(k, a)
            /\ answer' = [addr |-> a, base |-> Val(k), names |-> infos[Val(k)].indices]
       \/ /\ \A k \in 1..Len(ssyms) : ~Hits(k, a)
          /\ answer' = [addr |-> a, base |-> 0, names |-> <<>>]
    /\ UNCHANGED <<file, pc, ssyms, i, infos, si, ri>>

Build ==
    \/ SortSymbols
    \/ GroupRun
    \/ GroupAliasesOfLast
    \/ GroupLast
    \/ AttachReloc
    \/ SkipReloc
    \/ NextSection
    \/ Finish

Next == Build \/ \E a \in Addr : SymLookup(a)

Spec == Init /\ [][Next]_vars

\* NewFile is one uninterrupted call: its loops do not stop half-way.
FairSpec == Spec /\ WF_vars(Build)

-----------------------------------------------------------------------------
(* What makes the index correct.                                             *)

\* A file as linkers write it: sections do not overlap or wrap around, a
\* sectional symbol lies in its section or at its end, a relocation inside its own.
WellFormed(f) ==
    /\ \A n \in 1..Len(f.sects) : SectEnd(f, n) < W
    /\ \A m, n \in 1..Len(f.sects) :
         m # n => SectEnd(f, m) <= f.sects[n].addr \/ SectEnd(f, n) <= f.sects[m].addr
    /\ \A k \in Sectional(f) :
         LET s == f.syms[k] IN
         /\ HasSect(f, s)
         /\ f.sects[s.sect].addr <= s.value
         /\ s.value <= SectEnd(f, s.sect)
    /\ \A n \in 1..Len(f.sects) : \A r \in 1..Len(f.sects[n].relocs) :
         f.sects[n].relocs[r].addr + f.sects[n].relocs[r].width <= f.sects[n].size

Indexed(v) == infos[v] # Nil

\* Type invariant of NewFile's locals and of the File it returns.
TypeOK ==
    /\ file \in Files
    /\ pc \in {"sort", "group", "reloc", "ready"}
    /\ ssyms \in Seq(Nat)
    /\ i \in Nat
    /\ infos \in [Addr -> InfoType \cup {Nil}]
    /\ si \in Nat
    /\ ri \in Nat
    /\ answer \in AnswerType \cup {Nil}

\* Once grouping is over every collected symbol's address is a key of symInfos,
\* although the outer loop skips positions: the relocation loop, SymLookup and
\* newSymbolModel dereference symInfos[sym.Value] without a nil test.
EverySymbolIndexed ==
    pc \in {"reloc", "ready"} => \A k \in 1..Len(ssyms) : Indexed(Val(k))

\* symInfos has no key that is not a collected symbol's address.
OnlySymbolsIndexed ==
    \A v \in Addr : Indexed(v) => \E k \in 1..Len(ssyms) : Val(k) = v

\* In a well-formed file no two entries claim the same byte, whatever order the
\* unstable sort left aliases in and whichever section the first alias names.
RangesDisjoint ==
    WellFormed(file) =>
        \A u, v \in Addr :
            u < v /\ Indexed(u) /\ Indexed(v) => u + infos[u].size <= v

\* The reference definition of a size: from v to the next symbol, or to the end of
\* the section.  It holds for addresses whose aliases are all in one section.
SizesReachNextSymbol ==
    pc = "ready" /\ WellFormed(file) =>
        \A v \in Addr :
            LET at == {n \in Sectional(file) : file.syms[n].value = v}
                ends == {SectEnd(file, file.syms[n].sect) : n \in at}
                above == {file.syms[n].value : n \in Sectional(file)} \cap (v + 1)..W
                stops == ends \cup above
            IN at # {} /\ (\A d, e \in ends : d = e) =>
                \E stop \in stops :
                    /\ \A e \in stops : stop <= e
                    /\ infos[v].size = stop - v

Listed(seq) == {seq[k] : k \in 1..Len(seq)}

\* Every entry below the highest address lists all symbols of that address, each once; at
\* the highest one the outer loop overwrites the entry until one alias is left.
AliasesListedBelowTop ==
    pc = "ready" =>
        \A v \in Addr : Indexed(v) =>
            LET names == infos[v].indices
                at == {n \in Sectional(file) : file.syms[n].value = v}
            IN IF v = Val(Len(ssyms)) THEN Len(names) = 1 /\ Listed(names) \subseteq at
               ELSE /\ Listed(names) = at
                    /\ \A j, k \in 1..Len(names) : names[j] = names[k] => j = k

\* The bytes of v's entry are all that relocation r of section s patches, and maybe more.
Contains(v, s, r) ==
    LET from == file.sects[s].addr + file.sects[s].relocs[r].addr
    IN v <= from /\ from + file.sects[s].relocs[r].width <= v + infos[v].size

\* A relocation is attached to the symbol that contains all the bytes it patches,
\* once, and to no other; only one that straddles symbols is left out.
RelocsAttachedOnce ==
    pc = "ready" /\ WellFormed(file) =>
        \A v \in Addr : Indexed(v) =>
            \A s \in 1..Len(file.sects) : \A r \in 1..Len(file.sects[s].relocs) :
                LET here == {k \in 1..Len(infos[v].relocs) : infos[v].relocs[k] = <<s, r>>}
                IN /\ here # {} <=> Contains(v, s, r)
                   /\ \A j, k \in here : j = k

\* What makes EverySymbolIndexed and RangesDisjoint inductive: what each phase has
\* done so far, and that no entry reaches beyond the next symbol.
SortedSoFar ==
    IF pc = "sort" THEN ssyms = <<>> /\ \A v \in Addr : ~Indexed(v)
    ELSE /\ ssyms \in Seq(Sectional(file))
         /\ \A j, k \in 1..Len(ssyms) : j < k => Val(j) <= Val(k)

IndexedSoFar ==
    /\ pc = "sort" => i = 1
    /\ pc = "group" => /\ i \in 1..Len(ssyms)
                       /\ \A k \in 1..(i - 1) : Indexed(Val(k))
    /\ pc \in {"reloc", "ready"} => \A k \in 1..Len(ssyms) : Indexed(Val(k))

SizeBound ==
    WellFormed(file) =>
        \A v \in Addr : \A k \in 1..Len(ssyms) :
            Indexed(v) /\ v < Val(k) => v + infos[v].size <= Val(k)

IInv ==
    /\ TypeOK
    /\ SortedSoFar
    /\ IndexedSoFar
    /\ OnlySymbolsIndexed
    /\ SizeBound

\* Opening a file ends: NewFile returns an index, whatever the file holds.
Completes == <>(pc = "ready")

\* The index seen as an AddressMap.  An entry at address 0 or without a size is
\* never returned, so it is not part of the map.
Extents ==
    IF pc # "ready" THEN {}
    ELSE {[base |-> v, size |-> infos[v].size, names |-> Listed(infos[v].indices)] :
             v \in {a \in Addr \ {0} : Indexed(a) /\ infos[a].size # 0}}

Abstract == INSTANCE AddressMap WITH
    Names <- Nat,
    published <- (pc = "ready"),
    extents <- Extents,
    answer <- IF answer = Nil THEN Nil
              ELSE [addr |-> answer.addr, base |-> answer.base,
                    names |-> Listed(answer.names)]

\* On well-formed files the loops, the binary search and the closure together
\* implement a map of disjoint extents.
ImplementsAddressMap == Abstract!Spec

=============================================================================
