--------------------------- MODULE SymbolIndexProofs ---------------------------
(***************************************************************************)
(* Proofs about SymbolIndex for every W and every set of files.            *)
(***************************************************************************)
EXTENDS SymbolIndex, SequenceTheorems, WellFoundedInduction, TLAPS

\* uint64 arithmetic stays within uint64.
LEMMA ModInAddr == \A x \in Int : x % W \in Addr
  BY WAssumption DEF Addr

\* ... and is exact when the true result fits.
LEMMA NoWrap == \A x \in Addr : x % W = x
  BY WAssumption DEF Addr

\* Addresses are numbers.
LEMMA AddrInt == \A a \in Addr : a \in Int /\ 0 <= a
  BY WAssumption DEF Addr

\* Sums and differences are addresses.
LEMMA ArithInAddr ==
  ASSUME NEW a \in Addr, NEW b \in Addr
  PROVE  Plus(a, b) \in Addr /\ Minus(a, b) \in Addr
  <1>1. a + b \in Int /\ a - b \in Int
    BY AddrInt
  <1>2. (a + b) % W \in Addr /\ (a - b) % W \in Addr
    BY <1>1, ModInAddr
  <1> QED
    BY <1>2 DEF Plus, Minus

\* ... and are exact when they do not wrap around.
LEMMA ArithExact ==
  ASSUME NEW a \in Addr, NEW b \in Addr
  PROVE  /\ a + b < W => Plus(a, b) = a + b
         /\ b <= a => Minus(a, b) = a - b
  <1>1. ASSUME a + b < W PROVE Plus(a, b) = a + b
    <2>1. a + b \in Addr
      BY <1>1, WAssumption DEF Addr
    <2> QED
      BY <2>1, NoWrap DEF Plus
  <1>2. ASSUME b <= a PROVE Minus(a, b) = a - b
    <2>1. a - b \in Addr
      BY <1>2, WAssumption DEF Addr
    <2> QED
      BY <2>1, NoWrap DEF Minus
  <1> QED
    BY <1>1, <1>2

\* What the types say of a file that may be opened.
LEMMA FileFacts ==
  ASSUME NEW f \in Files
  PROVE  /\ f.syms \in Seq(Symbol)
         /\ f.sects \in Seq(Section)
         /\ Sectional(f) \subseteq 1..Len(f.syms)
         /\ Sectional(f) \subseteq Nat
  <1>1. f \in File
    BY FilesAssumption
  <1>2. f.syms \in Seq(Symbol) /\ f.sects \in Seq(Section)
    BY <1>1 DEF File
  <1> QED
    BY <1>2 DEF Sectional

\* Every position of ssyms is that of a symbol in the file.
LEMMA SymFacts ==
  ASSUME TypeOK, SortedSoFar,
         NEW k \in 1..Len(ssyms)
  PROVE  /\ ssyms[k] \in Sectional(file)
         /\ ssyms[k] \in 1..Len(file.syms)
         /\ Sym(k) \in Symbol
         /\ Val(k) \in Addr
  <1>1. pc # "sort"
    BY DEF SortedSoFar
  <1>2. ssyms \in Seq(Sectional(file))
    BY <1>1 DEF SortedSoFar
  <1>3. ssyms[k] \in Sectional(file)
    BY <1>2
  <1>4. file \in Files
    BY DEF TypeOK
  <1>5. ssyms[k] \in 1..Len(file.syms)
    BY <1>3, <1>4, FileFacts
  <1>6. Sym(k) \in Symbol
    BY <1>4, <1>5, FileFacts DEF Sym
  <1>7. Val(k) \in Addr
    BY <1>6 DEF Val, Symbol
  <1> QED
    BY <1>3, <1>5, <1>6, <1>7

\* A section's fields are addresses.
LEMMA SectFacts ==
  ASSUME TypeOK, NEW n \in 1..Len(file.sects)
  PROVE  file.sects[n].addr \in Addr /\ file.sects[n].size \in Addr
  <1>1. file.sects \in Seq(Section)
    BY FileFacts DEF TypeOK
  <1>2. file.sects[n] \in Section
    BY <1>1
  <1> QED
    BY <1>2 DEF Section

\* A section's end is an address, and exact in a well-formed file.
LEMMA SectEndFacts ==
  ASSUME TypeOK, NEW n \in 1..Len(file.sects)
  PROVE  /\ SectEnd(file, n) \in Int
         /\ SectEnd(file, n) < W => SectEnd(file, n) \in Addr
  <1> DEFINE a == file.sects[n].addr
             z == file.sects[n].size
  <1>1. a \in Addr /\ z \in Addr
    BY SectFacts
  <1>2. a \in Int /\ 0 <= a /\ z \in Int /\ 0 <= z
    BY <1>1, AddrInt
  <1>3. SectEnd(file, n) = a + z
    BY DEF SectEnd
  <1> HIDE DEF a, z
  <1> QED
    BY <1>2, <1>3, WAssumption DEF Addr

\* Every size that is stored is a uint64, whatever the file says.
LEMMA SizeTypes ==
  ASSUME TypeOK, SortedSoFar,
         NEW k \in 1..Len(ssyms), NEW j \in 1..Len(ssyms)
  PROVE  ToSectEnd(k) \in Addr /\ SizeUpTo(k, j) \in Addr
  <1>1. Val(k) \in Addr /\ Val(j) \in Addr /\ Sym(k).sect \in Nat
    BY SymFacts DEF Symbol
  <1>2. ToSectEnd(k) \in Addr
    <2>1. CASE HasSect(file, Sym(k))
      <3>1. Sym(k).sect \in 1..Len(file.sects)
        BY <2>1, <1>1, FileFacts DEF HasSect, TypeOK
      <3> DEFINE s == file.sects[Sym(k).sect]
      <3>2. s.addr \in Addr /\ s.size \in Addr
        BY <3>1, SectFacts
      <3>3. Plus(s.addr, s.size) \in Addr
        BY <3>2, ArithInAddr
      <3>4. Minus(Plus(s.addr, s.size), Val(k)) \in Addr
        BY <3>3, <1>1, ArithInAddr
      <3> QED
        BY <3>4, <2>1 DEF ToSectEnd
    <2>2. CASE ~HasSect(file, Sym(k))
      BY <2>2, WAssumption DEF ToSectEnd, Addr
    <2> QED
      BY <2>1, <2>2
  <1>3. Minus(Val(j), Val(k)) \in Addr
    BY <1>1, ArithInAddr
  <1> QED
    BY <1>2, <1>3 DEF SizeUpTo

-----------------------------------------------------------------------------
(* The bound on sizes.                                                       *)

\* In a well-formed file a run's size never reaches beyond the next symbol: up to
\* it when both name the same section, and otherwise up to the end of the run's
\* section, which the next symbol's section lies above.
LEMMA RunBound ==
  ASSUME TypeOK, SortedSoFar, WellFormed(file),
         NEW k \in 1..Len(ssyms), NEW j \in 1..Len(ssyms), NextDistinct(k, j),
         NEW h \in 1..Len(ssyms), Val(k) < Val(h)
  PROVE  Val(k) + SizeUpTo(k, j) <= Val(h)
  <1>1. /\ Val(k) \in Addr /\ Val(j) \in Addr /\ Val(h) \in Addr
        /\ Sym(k).sect \in Nat /\ Sym(j).sect \in Nat
    BY SymFacts DEF Symbol
  <1>2. pc # "sort"
    <2>1. SUFFICES ASSUME pc = "sort" PROVE FALSE
      OBVIOUS
    <2> QED
      BY <2>1 DEF SortedSoFar
  <1>3. \A a, b \in 1..Len(ssyms) : a < b => Val(a) <= Val(b)
    BY <1>2 DEF SortedSoFar
  <1>4. Len(ssyms) \in Nat
    BY DEF TypeOK
  <1>5. j > k /\ Val(j) # Val(k) /\ \A g \in (k + 1)..(j - 1) : Val(g) = Val(k)
    BY DEF NextDistinct
  <1>6. h > k
    BY <1>1, <1>3, <1>4, AddrInt
  <1>7. j <= h
    BY <1>1, <1>4, <1>5, <1>6, AddrInt
  <1>8. Val(j) <= Val(h)
    BY <1>1, <1>3, <1>4, <1>7, AddrInt
  <1>9. Val(k) < Val(j)
    BY <1>1, <1>3, <1>4, <1>5, AddrInt
  <1>10. CASE Sym(k).sect = Sym(j).sect
    <2>1. Minus(Val(j), Val(k)) = Val(j) - Val(k)
      BY <1>1, <1>9, AddrInt, ArithExact
    <2> QED
      BY <1>1, <1>8, <1>10, <2>1, AddrInt DEF SizeUpTo
  <1>11. CASE Sym(k).sect # Sym(j).sect
    <2> DEFINE m == Sym(k).sect
               n == Sym(j).sect
    <2>1. ssyms[k] \in Sectional(file) /\ ssyms[j] \in Sectional(file)
      BY SymFacts
    <2>2. /\ HasSect(file, Sym(k)) /\ HasSect(file, Sym(j))
          /\ file.sects[m].addr <= Val(k) /\ Val(k) <= SectEnd(file, m)
          /\ file.sects[n].addr <= Val(j) /\ Val(j) <= SectEnd(file, n)
      BY <2>1 DEF WellFormed, Sym, Val
    <2>3. m \in 1..Len(file.sects) /\ n \in 1..Len(file.sects)
      BY <2>2, <1>1, FileFacts DEF HasSect, TypeOK
    <2>4. /\ file.sects[m].addr \in Addr /\ file.sects[m].size \in Addr
          /\ file.sects[n].addr \in Addr /\ file.sects[n].size \in Addr
      BY <2>3, SectFacts
    <2>5. SectEnd(file, m) <= file.sects[n].addr \/ SectEnd(file, n) <= file.sects[m].addr
      BY <2>3, <1>11 DEF WellFormed
    <2>6. SectEnd(file, m) < W
      BY <2>3 DEF WellFormed
    <2>7. SectEnd(file, m) \in Addr /\ SectEnd(file, n) \in Int
      BY <2>3, <2>6, SectEndFacts
    <2>8. Plus(file.sects[m].addr, file.sects[m].size) = SectEnd(file, m)
      BY <2>4, <2>6, ArithExact DEF SectEnd
    <2>9. ToSectEnd(k) = SectEnd(file, m) - Val(k)
      BY <2>2, <2>7, <2>8, <1>1, ArithExact DEF ToSectEnd
    <2>10. SectEnd(file, m) <= Val(j)
      <3>1. /\ file.sects[m].addr \in Int /\ file.sects[n].addr \in Int
            /\ SectEnd(file, m) \in Int /\ SectEnd(file, n) \in Int
            /\ Val(k) \in Int /\ Val(j) \in Int
        BY <2>4, <2>7, <1>1, AddrInt
      <3> QED
        BY <2>2, <2>5, <3>1, <1>9
    <2>11. SizeUpTo(k, j) = ToSectEnd(k)
      BY <1>11 DEF SizeUpTo
    <2> QED
      BY <2>7, <2>9, <2>10, <2>11, <1>1, <1>8, AddrInt
  <1> QED
    BY <1>10, <1>11

-----------------------------------------------------------------------------
(* One lemma per kind of step.                                               *)

\* Storing an entry for the run at position i.
LEMMA SetInfoStep ==
  ASSUME IInv, pc = "group",
         NEW info \in InfoType, SetInfo(i, info), UNCHANGED <<file, ssyms>>,
         WellFormed(file) => \A h \in 1..Len(ssyms) :
                                 Val(i) < Val(h) => Val(i) + info.size <= Val(h)
  PROVE  /\ infos' \in [Addr -> InfoType \cup {Nil}]
         /\ \A v \in Addr : Indexed(v)' <=> Indexed(v) \/ v = Val(i)
         /\ OnlySymbolsIndexed'
         /\ SizeBound'
  <1>1. i \in 1..Len(ssyms) /\ Val(i) \in Addr
    BY SymFacts DEF IInv, IndexedSoFar
  <1>2. infos \in [Addr -> InfoType \cup {Nil}]
    BY DEF IInv, TypeOK
  <1>3. /\ infos' = [infos EXCEPT ![Val(i)] = info]
        /\ infos' \in [Addr -> InfoType \cup {Nil}]
    BY <1>1, <1>2 DEF SetInfo
  <1>4. /\ infos'[Val(i)] = info
        /\ \A v \in Addr : v # Val(i) => infos'[v] = infos[v]
    BY <1>1, <1>2, <1>3
  <1>5. \A v \in Addr : Indexed(v)' <=> Indexed(v) \/ v = Val(i)
    BY <1>4, NilAssumption DEF Indexed
  <1>6. \A k : Val(k)' = Val(k)
    BY DEF Val, Sym
  <1>7. OnlySymbolsIndexed'
    BY <1>1, <1>5, <1>6 DEF IInv, OnlySymbolsIndexed
  <1>8. SizeBound'
    <2>1. WellFormed(file)' <=> WellFormed(file)
      BY DEF WellFormed, Sectional, HasSect, SectEnd
    <2>2. SUFFICES ASSUME WellFormed(file),
                          NEW v \in Addr, NEW k \in 1..Len(ssyms),
                          Indexed(v)', v < Val(k)
                   PROVE  v + infos'[v].size <= Val(k)
      BY <1>6, <2>1 DEF SizeBound
    <2>3. CASE v = Val(i)
      BY <1>4, <2>2, <2>3
    <2>4. CASE v # Val(i)
      BY <1>4, <1>5, <2>2, <2>4 DEF IInv, SizeBound
    <2> QED
      BY <2>3, <2>4
  <1> QED
    BY <1>3, <1>5, <1>7, <1>8

\* Steps that change neither the file, nor the sorted symbols, nor the map.
LEMMA IndexUnchanged ==
  ASSUME IInv, pc # "sort", pc' # "sort", UNCHANGED <<file, ssyms, infos>>
  PROVE  SortedSoFar' /\ OnlySymbolsIndexed' /\ SizeBound'
  <1>1. \A k : Val(k)' = Val(k)
    BY DEF Val, Sym
  <1>2. SortedSoFar'
    BY <1>1 DEF IInv, SortedSoFar, Sectional
  <1>3. OnlySymbolsIndexed'
    BY <1>1 DEF IInv, OnlySymbolsIndexed, Indexed
  <1>4. SizeBound'
    BY <1>1 DEF IInv, SizeBound, Indexed, WellFormed, Sectional, HasSect, SectEnd
  <1> QED
    BY <1>2, <1>3, <1>4

\* The invariant holds before the symbols are sorted.
LEMMA InitInv == Init => IInv
  <1> SUFFICES ASSUME Init PROVE IInv
    OBVIOUS
  <1> USE DEF Init
  <1>1. TypeOK
    BY DEF TypeOK
  <1>2. SortedSoFar
    BY DEF SortedSoFar, Indexed
  <1>3. IndexedSoFar
    BY DEF IndexedSoFar
  <1>4. OnlySymbolsIndexed
    BY DEF OnlySymbolsIndexed, Indexed
  <1>5. SizeBound
    BY DEF SizeBound, Indexed
  <1> QED
    BY <1>1, <1>2, <1>3, <1>4, <1>5 DEF IInv

\* Sorting collects the symbols in order and indexes none.
LEMMA SortSymbolsStep == IInv /\ SortSymbols => IInv'
  <1> SUFFICES ASSUME IInv, SortSymbols PROVE IInv'
    OBVIOUS
  <1>1. PICK n \in 0..Len(file.syms) : \E ss \in [1..n -> Sectional(file)] :
          /\ IsSortedSymbols(file, ss)
          /\ ssyms' = ss
          /\ pc' = IF n = 0 THEN "ready" ELSE "group"
    BY DEF SortSymbols
  <1>2. /\ ssyms' \in [1..n -> Sectional(file)]
        /\ IsSortedSymbols(file, ssyms')
        /\ pc' = IF n = 0 THEN "ready" ELSE "group"
    BY <1>1
  <1>3. file \in Files /\ n \in Nat
    BY FileFacts DEF IInv, TypeOK
  <1>4. ssyms' \in Seq(Sectional(file)) /\ Len(ssyms') = n
    BY <1>2, <1>3
  <1>5. UNCHANGED <<file, i, infos, si, ri, answer>> /\ pc = "sort"
    BY DEF SortSymbols
  <1>6. \A v \in Addr : ~Indexed(v)
    BY <1>5 DEF IInv, SortedSoFar
  <1>7. ssyms' \in Seq(Nat)
    BY <1>3, <1>4, FileFacts
  <1>8. TypeOK'
    BY <1>2, <1>5, <1>7 DEF IInv, TypeOK
  <1>9. SortedSoFar'
    <2>1. \A j, k \in 1..Len(ssyms') : j < k => Val(j)' <= Val(k)'
      BY <1>2, <1>4, <1>5 DEF IsSortedSymbols, Val, Sym
    <2> QED
      BY <1>2, <1>4, <1>5, <2>1 DEF SortedSoFar, Sectional
  <1>10. \A v \in Addr : ~Indexed(v)'
    BY <1>5, <1>6 DEF Indexed
  <1>11. IndexedSoFar'
    BY <1>2, <1>3, <1>4, <1>5 DEF IInv, IndexedSoFar
  <1>12. OnlySymbolsIndexed' /\ SizeBound'
    BY <1>10 DEF OnlySymbolsIndexed, SizeBound
  <1> QED
    BY <1>8, <1>9, <1>11, <1>12 DEF IInv

\* GroupRun: the positions between i and j are skipped, but they are aliases of i.
LEMMA GroupRunStep == IInv /\ GroupRun => IInv'
  <1> SUFFICES ASSUME IInv, GroupRun PROVE IInv'
    OBVIOUS
  <1>1. /\ pc = "group" /\ pc' = "group"
        /\ UNCHANGED <<file, ssyms, si, ri, answer>>
    BY DEF GroupRun
  <1>2. PICK j \in (i + 1)..Len(ssyms) :
          /\ NextDistinct(i, j)
          /\ SetInfo(i, Info(SizeUpTo(i, j), Aliases(i, j)))
          /\ i' = Resume(j)
    BY DEF GroupRun
  <1>3. /\ i \in 1..Len(ssyms) /\ j \in 1..Len(ssyms) /\ i < j
        /\ \A k \in 1..(i - 1) : Indexed(Val(k))
    BY <1>1 DEF IInv, IndexedSoFar
  <1>4. i' = j
    BY <1>2 DEF Resume
  <1>5. Info(SizeUpTo(i, j), Aliases(i, j)) \in InfoType
    <2>1. SizeUpTo(i, j) \in Addr
      BY <1>3, SizeTypes DEF IInv
    <2>2. Aliases(i, j) \in Seq(Nat)
      BY <1>3, SubSeqProperties DEF IInv, TypeOK, Aliases
    <2> QED
      BY <2>1, <2>2 DEF Info, InfoType
  <1> DEFINE info == Info(SizeUpTo(i, j), Aliases(i, j))
  <1>6. ASSUME WellFormed(file), NEW h \in 1..Len(ssyms), Val(i) < Val(h)
        PROVE  Val(i) + info.size <= Val(h)
    BY <1>2, <1>3, <1>6, RunBound DEF IInv, Info
  <1>7. /\ infos' \in [Addr -> InfoType \cup {Nil}]
        /\ \A v \in Addr : Indexed(v)' <=> Indexed(v) \/ v = Val(i)
        /\ OnlySymbolsIndexed'
        /\ SizeBound'
    BY <1>1, <1>2, <1>5, <1>6, SetInfoStep
  <1>8. \A k : Val(k)' = Val(k)
    BY <1>1 DEF Val, Sym
  <1>9. TypeOK'
    BY <1>1, <1>3, <1>4, <1>7 DEF IInv, TypeOK
  <1>10. SortedSoFar'
    BY <1>1, <1>8 DEF IInv, SortedSoFar, Sectional
  <1>11. IndexedSoFar'
    <2>1. ASSUME NEW k \in 1..(j - 1) PROVE Indexed(Val(k))'
      <3>1. k \in 1..Len(ssyms) /\ Val(k) \in Addr
        BY <1>3, SymFacts DEF IInv
      <3>2. CASE k < i
        BY <3>1, <3>2, <1>3, <1>7, <1>8
      <3>3. CASE k >= i
        <4>1. Val(k) = Val(i)
          BY <1>2, <1>3, <3>3 DEF NextDistinct
        <4> QED
          BY <4>1, <3>1, <1>7, <1>8
      <3> QED
        BY <3>2, <3>3, <1>3
    <2> QED
      BY <2>1, <1>1, <1>3, <1>4 DEF IndexedSoFar
  <1> QED
    BY <1>7, <1>9, <1>10, <1>11 DEF IInv

\* The run reaches the top: the entry is made, and made again for the next alias.
LEMMA GroupAliasesOfLastStep == IInv /\ GroupAliasesOfLast => IInv'
  <1> SUFFICES ASSUME IInv, GroupAliasesOfLast PROVE IInv'
    OBVIOUS
  <1> DEFINE info == Info(0, Aliases(i, Len(ssyms) + 1))
  <1>1. /\ pc = "group" /\ pc' = "group"
        /\ UNCHANGED <<file, ssyms, si, ri, answer>>
        /\ SetInfo(i, info)
        /\ i' = i + 1
        /\ i < Len(ssyms)
    BY DEF GroupAliasesOfLast
  <1>2. /\ i \in 1..Len(ssyms)
        /\ \A k \in 1..(i - 1) : Indexed(Val(k))
    BY <1>1 DEF IInv, IndexedSoFar
  <1>3. info \in InfoType /\ info.size = 0
    <2>1. Aliases(i, Len(ssyms) + 1) \in Seq(Nat)
      BY <1>2, SubSeqProperties DEF IInv, TypeOK, Aliases
    <2>2. 0 \in Addr
      BY WAssumption DEF Addr
    <2> QED
      BY <2>1, <2>2 DEF Info, InfoType
  <1> HIDE DEF info
  <1>4. ASSUME NEW h \in 1..Len(ssyms), Val(i) < Val(h)
        PROVE  Val(i) + info.size <= Val(h)
    <2>1. Val(i) \in Int /\ Val(h) \in Int
      BY <1>2, SymFacts, AddrInt DEF IInv
    <2> QED
      BY <2>1, <1>3, <1>4
  <1>5. /\ infos' \in [Addr -> InfoType \cup {Nil}]
        /\ \A v \in Addr : Indexed(v)' <=> Indexed(v) \/ v = Val(i)
        /\ OnlySymbolsIndexed'
        /\ SizeBound'
    BY <1>1, <1>3, <1>4, SetInfoStep
  <1>6. \A k : Val(k)' = Val(k)
    BY <1>1 DEF Val, Sym
  <1>7. TypeOK'
    BY <1>1, <1>2, <1>5 DEF IInv, TypeOK
  <1>8. SortedSoFar'
    BY <1>1, <1>6 DEF IInv, SortedSoFar, Sectional
  <1>9. IndexedSoFar'
    <2>1. ASSUME NEW k \in 1..i PROVE Indexed(Val(k))'
      <3>1. k \in 1..Len(ssyms) /\ Val(k) \in Addr
        BY <1>2, SymFacts DEF IInv
      <3> QED
        BY <3>1, <1>2, <1>5, <1>6
    <2> QED
      BY <2>1, <1>1, <1>2, <1>6 DEF IndexedSoFar
  <1> QED
    BY <1>5, <1>7, <1>8, <1>9 DEF IInv

\* The last symbol's entry reaches to the end of its section.
LEMMA GroupLastStep == IInv /\ GroupLast => IInv'
  <1> SUFFICES ASSUME IInv, GroupLast PROVE IInv'
    OBVIOUS
  <1> DEFINE info == Info(ToSectEnd(i), <<ssyms[i]>>)
  <1>1. /\ pc = "group" /\ pc' = "reloc"
        /\ UNCHANGED <<file, ssyms, si, ri, answer>>
        /\ SetInfo(i, info)
        /\ i' = i + 1
        /\ i = Len(ssyms)
    BY DEF GroupLast
  <1>2. /\ i \in 1..Len(ssyms)
        /\ \A k \in 1..(i - 1) : Indexed(Val(k))
    BY <1>1 DEF IInv, IndexedSoFar
  <1>3. info \in InfoType
    <2>1. ToSectEnd(i) \in Addr
      BY <1>2, SizeTypes DEF IInv
    <2>2. ssyms[i] \in Nat
      BY <1>2 DEF IInv, TypeOK
    <2> QED
      BY <2>1, <2>2 DEF Info, InfoType
  <1> HIDE DEF info
  <1>4. \A h \in 1..Len(ssyms) : ~(Val(i) < Val(h))
    <2>1. SUFFICES ASSUME NEW h \in 1..Len(ssyms) PROVE ~(Val(i) < Val(h))
      OBVIOUS
    <2>2. Val(i) \in Int /\ Val(h) \in Int
      BY <1>2, SymFacts, AddrInt DEF IInv
    <2>3. Val(h) <= Val(i)
      BY <1>1, <1>2, <2>2 DEF IInv, SortedSoFar
    <2> QED
      BY <2>2, <2>3
  <1>5. /\ infos' \in [Addr -> InfoType \cup {Nil}]
        /\ \A v \in Addr : Indexed(v)' <=> Indexed(v) \/ v = Val(i)
        /\ OnlySymbolsIndexed'
        /\ SizeBound'
    BY <1>1, <1>3, <1>4, SetInfoStep
  <1>6. \A k : Val(k)' = Val(k)
    BY <1>1 DEF Val, Sym
  <1>7. TypeOK'
    BY <1>1, <1>2, <1>5 DEF IInv, TypeOK
  <1>8. SortedSoFar'
    BY <1>1, <1>6 DEF IInv, SortedSoFar, Sectional
  <1>9. IndexedSoFar'
    <2>1. ASSUME NEW k \in 1..Len(ssyms) PROVE Indexed(Val(k))'
      <3>1. Val(k) \in Addr
        BY SymFacts DEF IInv
      <3> QED
        BY <3>1, <1>1, <1>2, <1>5, <1>6
    <2> QED
      BY <2>1, <1>1 DEF IndexedSoFar
  <1> QED
    BY <1>5, <1>7, <1>8, <1>9 DEF IInv

\* Attaching a relocation dereferences an entry that exists and keeps its size.
LEMMA AttachRelocStep == IInv /\ AttachReloc => IInv'
  <1> SUFFICES ASSUME IInv, AttachReloc PROVE IInv'
    OBVIOUS
  <1>1. /\ pc = "reloc" /\ ri' = ri + 1
        /\ UNCHANGED <<file, pc, ssyms, i, si, answer>>
    BY DEF AttachReloc, AtReloc
  <1>2. PICK k \in 1..Len(ssyms) :
          infos' = [infos EXCEPT ![Val(k)].relocs = Append(@, <<si, ri>>)]
    BY DEF AttachReloc
  <1>3. Val(k) \in Addr /\ Indexed(Val(k))
    BY <1>1, SymFacts DEF IInv, IndexedSoFar
  <1>4. infos \in [Addr -> InfoType \cup {Nil}] /\ si \in Nat /\ ri \in Nat
    BY DEF IInv, TypeOK
  <1>5. infos[Val(k)] \in InfoType
    BY <1>3, <1>4 DEF Indexed
  <1> DEFINE old == infos[Val(k)]
             new == [old EXCEPT !.relocs = Append(@, <<si, ri>>)]
  <1>6. new \in InfoType /\ new.size = old.size
    <2>1. Append(old.relocs, <<si, ri>>) \in Seq(Nat \X Nat)
      BY <1>4, <1>5, AppendProperties DEF InfoType
    <2> QED
      BY <1>5, <2>1 DEF InfoType
  <1>7. infos' = [infos EXCEPT ![Val(k)] = new]
    BY <1>2
  <1>8. /\ infos' \in [Addr -> InfoType \cup {Nil}]
        /\ infos'[Val(k)] = new
        /\ \A v \in Addr : v # Val(k) => infos'[v] = infos[v]
    BY <1>3, <1>4, <1>6, <1>7
  <1> HIDE DEF new
  <1>9. \A v \in Addr : /\ Indexed(v)' <=> Indexed(v)
                        /\ Indexed(v) => infos'[v].size = infos[v].size
    BY <1>3, <1>6, <1>8, NilAssumption DEF Indexed
  <1>10. \A h : Val(h)' = Val(h)
    BY <1>1 DEF Val, Sym
  <1>11. TypeOK'
    BY <1>1, <1>4, <1>8 DEF IInv, TypeOK
  <1>12. SortedSoFar'
    BY <1>1, <1>10 DEF IInv, SortedSoFar, Sectional
  <1>13. IndexedSoFar'
    <2>1. ASSUME NEW h \in 1..Len(ssyms) PROVE Indexed(Val(h))'
      <3>1. Val(h) \in Addr /\ Indexed(Val(h))
        BY <1>1, SymFacts DEF IInv, IndexedSoFar
      <3> QED
        BY <3>1, <1>9, <1>10
    <2> QED
      BY <2>1, <1>1 DEF IndexedSoFar
  <1>14. OnlySymbolsIndexed'
    BY <1>1, <1>9, <1>10 DEF IInv, OnlySymbolsIndexed
  <1>15. SizeBound'
    <2>1. WellFormed(file)' <=> WellFormed(file)
      BY <1>1 DEF WellFormed, Sectional, HasSect, SectEnd
    <2>2. SUFFICES ASSUME WellFormed(file),
                          NEW v \in Addr, NEW h \in 1..Len(ssyms),
                          Indexed(v)', v < Val(h)
                   PROVE  v + infos'[v].size <= Val(h)
      BY <1>1, <1>10, <2>1 DEF SizeBound
    <2> QED
      BY <1>9, <2>2 DEF IInv, SizeBound
  <1> QED
    BY <1>11, <1>12, <1>13, <1>14, <1>15 DEF IInv

\* The steps that only move on through the relocations.
LEMMA RelocLoopStep == IInv /\ (SkipReloc \/ NextSection \/ Finish) => IInv'
  <1> SUFFICES ASSUME IInv, SkipReloc \/ NextSection \/ Finish PROVE IInv'
    OBVIOUS
  <1>1. /\ pc = "reloc" /\ pc' \in {"reloc", "ready"}
        /\ si' \in Nat /\ ri' \in Nat
        /\ UNCHANGED <<file, ssyms, i, infos, answer>>
    BY DEF IInv, TypeOK, SkipReloc, NextSection, Finish, AtReloc
  <1>2. TypeOK'
    BY <1>1 DEF IInv, TypeOK
  <1>3. IndexedSoFar'
    BY <1>1 DEF IInv, IndexedSoFar, Indexed, Val, Sym
  <1> QED
    BY <1>1, <1>2, <1>3, IndexUnchanged DEF IInv

\* A query finds an entry for the symbol it looks at.
LEMMA SymLookupStep == ASSUME NEW a \in Addr PROVE IInv /\ SymLookup(a) => IInv'
  <1> SUFFICES ASSUME IInv, SymLookup(a) PROVE IInv'
    OBVIOUS
  <1>1. /\ pc = "ready"
        /\ UNCHANGED <<file, pc, ssyms, i, infos, si, ri>>
    BY DEF SymLookup
  <1>2. answer' \in AnswerType
    <2>1. CASE answer' = [addr |-> a, base |-> 0, names |-> <<>>]
      BY <2>1, WAssumption DEF Addr, AnswerType
    <2>2. CASE \E k \in 1..Len(ssyms) :
                  answer' = [addr |-> a, base |-> Val(k), names |-> infos[Val(k)].indices]
      <3>1. PICK k \in 1..Len(ssyms) :
                  answer' = [addr |-> a, base |-> Val(k), names |-> infos[Val(k)].indices]
        BY <2>2
      <3>2. Val(k) \in Addr /\ Indexed(Val(k))
        BY <1>1, SymFacts DEF IInv, IndexedSoFar
      <3>3. infos[Val(k)] \in InfoType
        BY <3>2 DEF IInv, TypeOK, Indexed
      <3>4. infos[Val(k)].indices \in Seq(Nat)
        BY <3>3 DEF InfoType
      <3> QED
        BY <3>1, <3>2, <3>4 DEF AnswerType
    <2> QED
      BY <2>1, <2>2 DEF SymLookup
  <1>3. TypeOK'
    BY <1>1, <1>2 DEF IInv, TypeOK
  <1>4. IndexedSoFar'
    BY <1>1 DEF IInv, IndexedSoFar, Indexed, Val, Sym
  <1> QED
    BY <1>1, <1>3, <1>4, IndexUnchanged DEF IInv

-----------------------------------------------------------------------------
(* The invariant and what follows from it.                                   *)

\* Every step keeps the invariant.
LEMMA StepInv == IInv /\ [Next]_vars => IInv'
  <1> SUFFICES ASSUME IInv, [Next]_vars PROVE IInv'
    OBVIOUS
  <1>1. CASE SortSymbols
    BY <1>1, SortSymbolsStep
  <1>2. CASE GroupRun
    BY <1>2, GroupRunStep
  <1>3. CASE GroupAliasesOfLast
    BY <1>3, GroupAliasesOfLastStep
  <1>4. CASE GroupLast
    BY <1>4, GroupLastStep
  <1>5. CASE AttachReloc
    BY <1>5, AttachRelocStep
  <1>6. CASE SkipReloc \/ NextSection \/ Finish
    BY <1>6, RelocLoopStep
  <1>7. CASE \E a \in Addr : SymLookup(a)
    BY <1>7, SymLookupStep
  <1>8. CASE UNCHANGED vars
    BY <1>8 DEF vars, IInv, TypeOK, SortedSoFar, IndexedSoFar, OnlySymbolsIndexed,
                SizeBound, Indexed, Val, Sym, WellFormed, Sectional, HasSect, SectEnd
  <1> QED
    BY <1>1, <1>2, <1>3, <1>4, <1>5, <1>6, <1>7, <1>8 DEF Next, Build

\* The inductive invariant of NewFile.
THEOREM Invariance == Spec => []IInv
  BY InitInv, StepInv, PTL DEF Spec

\* NewFile's locals and the File it returns keep their types: in particular every
\* size stays a uint64, also for symbols beyond the end of their section.
THEOREM TypeCorrect == Spec => []TypeOK
  <1>1. IInv => TypeOK
    BY DEF IInv
  <1> QED
    BY <1>1, Invariance, PTL

\* symInfos[sym.Value] is never nil once the index is built, for any file.
THEOREM AllIndexed == Spec => []EverySymbolIndexed
  <1>1. IInv => EverySymbolIndexed
    BY DEF IInv, IndexedSoFar, EverySymbolIndexed
  <1> QED
    BY <1>1, Invariance, PTL

\* In a well-formed file no two entries claim the same byte, in any order the
\* unstable sort may leave the symbols in.
THEOREM NoOverlap == Spec => []RangesDisjoint
  <1>1. IInv => RangesDisjoint
    BY DEF IInv, OnlySymbolsIndexed, SizeBound, RangesDisjoint
  <1> QED
    BY <1>1, Invariance, PTL

-----------------------------------------------------------------------------
(* What the finished index says of each address, where each relocation is     *)
(* attached, and that the index implements AddressMap.                        *)

\* A set of positions has a first one
LEMMA FirstOf == ASSUME NEW S \in SUBSET Nat, S # {} PROVE \E x \in S : \A y \in S : x <= y
  <1>1. PICK x \in S : \A y \in S : ~(<<y, x>> \in OpToRel(<, Nat))
    BY NatLessThanWellFounded, WFMin
  <1>2. \A y \in S : ~(y < x)
    BY <1>1 DEF OpToRel
  <1> QED
    BY <1>2

\* ... and a last one.
LEMMA LastOf ==
    ASSUME NEW n \in Nat, NEW S \in SUBSET (1..n), S # {}
    PROVE  \E x \in S : \A y \in S : y <= x
  <1> DEFINE T == {m \in Nat : n - m \in S}
  <1>1. T # {}
    <2>1. PICK x \in S : TRUE
      OBVIOUS
    <2>2. n - x \in Nat /\ n - (n - x) = x
      BY <2>1
    <2> QED
      BY <2>2
  <1>2. PICK m \in T : \A y \in T : m <= y
    BY <1>1, FirstOf
  <1>3. \A y \in S : y <= n - m
    <2>1. SUFFICES ASSUME NEW y \in S PROVE y <= n - m
      OBVIOUS
    <2>2. n - y \in Nat /\ n - (n - y) = y
      OBVIOUS
    <2>3. n - y \in T
      BY <2>2
    <2>4. m \in Nat /\ y \in Int /\ m <= n - y
      BY <2>3, <1>2
    <2> HIDE DEF T
    <2> QED
      BY <2>4
  <1> QED
    BY <1>2, <1>3

-----------------------------------------------------------------------------
(* What is known of the index while it is made.                              *)

\* makeSortedSymbols leaves no symbol of a section out and takes none twice.
Collected ==
    pc # "sort" =>
        /\ \A n \in Sectional(file) : \E k \in 1..Len(ssyms) : ssyms[k] = n
        /\ \A j, k \in 1..Len(ssyms) : ssyms[j] = ssyms[k] => j = k

FirstOfRun(k) == \A h \in 1..(k - 1) : Val(h) # Val(k)

\* The entry of v is that of the whole run of symbols at v.
EntryOfRun(v) ==
    \E k, j \in 1..Len(ssyms) :
        /\ Val(k) = v /\ FirstOfRun(k) /\ NextDistinct(k, j)
        /\ infos[v].size = SizeUpTo(k, j)
        /\ infos[v].indices = Aliases(k, j)

\* The entry of the highest address is that of the last symbol.
EntryOfTop(n) ==
    /\ infos[Val(n)].size = ToSectEnd(n)
    /\ infos[Val(n)].indices = <<ssyms[n]>>

Entries ==
    /\ pc = "group" => FirstOfRun(i) \/ Val(i) = Val(Len(ssyms))
    /\ \A v \in Addr : Indexed(v) => v = Val(Len(ssyms)) \/ EntryOfRun(v)
    /\ pc \in {"reloc", "ready"} /\ Len(ssyms) > 0 => EntryOfTop(Len(ssyms))

\* The last loop is past relocation r of section s.
Reached(s, r) == pc = "ready" \/ s < si \/ (s = si /\ r < ri)

Places(v, s, r) == {k \in 1..Len(infos[v].relocs) : infos[v].relocs[k] = <<s, r>>}

AttachedRight(v, s, r) ==
    /\ Places(v, s, r) # {} <=> Reached(s, r) /\ Contains(v, s, r)
    /\ \A j, k \in Places(v, s, r) : j = k

AttachedSoFar ==
    /\ pc \in {"sort", "group"} =>
         /\ si = 1 /\ ri = 1
         /\ \A v \in Addr : Indexed(v) => infos[v].relocs = <<>>
    /\ si >= 1 /\ ri >= 1
    /\ pc \in {"reloc", "ready"} /\ WellFormed(file) =>
         \A v \in Addr : Indexed(v) =>
             \A s \in 1..Len(file.sects) : \A r \in 1..Len(file.sects[s].relocs) :
                 AttachedRight(v, s, r)

Contents == Collected /\ Entries /\ AttachedSoFar

\* What a step does not change.
LEMMA SameSymbols ==
    ASSUME UNCHANGED <<file, ssyms>>
    PROVE  /\ \A k : Val(k)' = Val(k)
           /\ \A k : Sym(k)' = Sym(k) /\ ToSectEnd(k)' = ToSectEnd(k)
           /\ \A k, j : NextDistinct(k, j)' <=> NextDistinct(k, j)
           /\ \A k, j : SizeUpTo(k, j)' = SizeUpTo(k, j) /\ Aliases(k, j)' = Aliases(k, j)
           /\ \A k : FirstOfRun(k)' <=> FirstOfRun(k)
           /\ WellFormed(file)' <=> WellFormed(file)
           /\ Sectional(file)' = Sectional(file)
  <1>1. (\A k : Val(k)' = Val(k)) /\ (\A k : Sym(k)' = Sym(k))
    BY DEF Val, Sym
  <1>2. \A k : ToSectEnd(k)' = ToSectEnd(k)
    BY <1>1 DEF ToSectEnd, HasSect
  <1>3. \A k, j : NextDistinct(k, j)' <=> NextDistinct(k, j)
    BY <1>1 DEF NextDistinct
  <1>4. \A k, j : SizeUpTo(k, j)' = SizeUpTo(k, j) /\ Aliases(k, j)' = Aliases(k, j)
    BY <1>1, <1>2 DEF SizeUpTo, Aliases
  <1>5. \A k : FirstOfRun(k)' <=> FirstOfRun(k)
    BY <1>1 DEF FirstOfRun
  <1>6. WellFormed(file)' <=> WellFormed(file)
    BY DEF WellFormed, Sectional, HasSect, SectEnd
  <1>7. Sectional(file)' = Sectional(file)
    BY DEF Sectional
  <1> QED
    BY <1>1, <1>2, <1>3, <1>4, <1>5, <1>6, <1>7

\* The symbols are in order, once they are sorted.
LEMMA InOrder ==
    ASSUME IInv, pc # "sort"
    PROVE  /\ Len(ssyms) \in Nat
           /\ \A k \in 1..Len(ssyms) : Val(k) \in Addr /\ Val(k) \in Int /\ 0 <= Val(k) /\ Val(k) < W
           /\ \A j, k \in 1..Len(ssyms) : j <= k => Val(j) <= Val(k)
  <1>1. Len(ssyms) \in Nat
    BY DEF IInv, TypeOK
  <1>2. ASSUME NEW k \in 1..Len(ssyms)
        PROVE  Val(k) \in Addr /\ Val(k) \in Int /\ 0 <= Val(k) /\ Val(k) < W
    <2>1. Val(k) \in Addr
      BY SymFacts DEF IInv
    <2> QED
      BY <2>1, WAssumption DEF Addr
  <1>3. ASSUME NEW j \in 1..Len(ssyms), NEW k \in 1..Len(ssyms), j <= k
        PROVE  Val(j) <= Val(k)
    <2>1. CASE j = k
      BY <1>2, <2>1
    <2>2. CASE j < k
      BY <2>2 DEF IInv, SortedSoFar
    <2> QED
      BY <1>3, <2>1, <2>2
  <1> QED
    BY <1>1, <1>2, <1>3

-----------------------------------------------------------------------------
(* The loops keep it.                                                        *)

\* Sorting: nothing is indexed, and the first symbol begins a run.
LEMMA SortKeeps == ASSUME IInv, IInv', Contents, SortSymbols PROVE Contents'
  <1>1. PICK n \in 0..Len(file.syms) : \E ss \in [1..n -> Sectional(file)] :
          IsSortedSymbols(file, ss) /\ ssyms' = ss /\ pc' = IF n = 0 THEN "ready" ELSE "group"
    BY DEF SortSymbols
  <1>2. PICK ss \in [1..n -> Sectional(file)] :
          IsSortedSymbols(file, ss) /\ ssyms' = ss /\ pc' = IF n = 0 THEN "ready" ELSE "group"
    BY <1>1
  <1>3. n \in Nat
    <2>1. file.syms \in Seq(Symbol)
      BY FileFacts DEF IInv, TypeOK
    <2>2. Len(file.syms) \in Nat
      BY <2>1
    <2> QED
      BY <2>2
  <1>4. Len(ssyms') = n /\ DOMAIN ssyms' = 1..n
    BY <1>2, <1>3
  <1>5. pc = "sort" /\ UNCHANGED <<file, i, infos, si, ri, answer>>
    BY DEF SortSymbols
  <1>6. \A v \in Addr : ~Indexed(v) /\ ~Indexed(v)'
    BY <1>5 DEF IInv, SortedSoFar, Indexed
  <1>7. i' = 1 /\ si' = 1 /\ ri' = 1
    BY <1>5 DEF IInv, IndexedSoFar, Contents, AttachedSoFar
  <1>8. Collected'
    <2>1. Sectional(file)' = Sectional(file)
      BY <1>5 DEF Sectional
    <2> QED
      BY <1>2, <1>4, <1>5, <2>1 DEF Collected, IsSortedSymbols
  <1>9. Entries'
    <2>1. FirstOfRun(i)'
      BY <1>7 DEF FirstOfRun
    <2>2. pc' \in {"reloc", "ready"} => Len(ssyms') = 0
      BY <1>2, <1>4
    <2> QED
      BY <1>6, <2>1, <2>2 DEF Entries
  <1>10. AttachedSoFar'
    BY <1>6, <1>7 DEF AttachedSoFar
  <1> QED
    BY <1>8, <1>9, <1>10 DEF Contents

\* An entry is stored for position i: the highest address may have any, another one has the
\* one of its run.
LEMMA StoreKeeps ==
    ASSUME IInv, Contents, pc = "group", NEW info \in InfoType, SetInfo(i, info),
           UNCHANGED <<file, ssyms>>, info.relocs = <<>>,
           \/ Val(i) = Val(Len(ssyms))
           \/ /\ FirstOfRun(i)
              /\ \E j \in 1..Len(ssyms) :
                   NextDistinct(i, j) /\ info.size = SizeUpTo(i, j) /\ info.indices = Aliases(i, j)
    PROVE  /\ infos'[Val(i)] = info
           /\ (\A v \in Addr : Indexed(v) => v = Val(Len(ssyms)) \/ EntryOfRun(v))'
           /\ (\A v \in Addr : Indexed(v) => infos[v].relocs = <<>>)'
  <1>1. i \in 1..Len(ssyms) /\ Val(i) \in Addr
    BY SymFacts DEF IInv, IndexedSoFar
  <1>2. infos \in [Addr -> InfoType \cup {Nil}] /\ infos' = [infos EXCEPT ![Val(i)] = info]
    BY DEF IInv, TypeOK, SetInfo
  <1>3. infos'[Val(i)] = info /\ \A v \in Addr : v # Val(i) => infos'[v] = infos[v]
    BY <1>1, <1>2
  <1>4. ASSUME NEW v \in Addr, Indexed(v)', v # Val(Len(ssyms))' PROVE EntryOfRun(v)'
    <2>1. v # Val(Len(ssyms))
      BY <1>4, SameSymbols
    <2>2. CASE v = Val(i)
      <3>1. PICK k \in 1..Len(ssyms) : k = i
        BY <1>1
      <3>2. PICK j \in 1..Len(ssyms) :
              /\ FirstOfRun(k) /\ NextDistinct(k, j)
              /\ info.size = SizeUpTo(k, j) /\ info.indices = Aliases(k, j)
        BY <2>1, <2>2, <3>1
      <3>3. /\ Val(k)' = Val(k) /\ NextDistinct(k, j)' /\ FirstOfRun(k)'
            /\ SizeUpTo(k, j)' = SizeUpTo(k, j) /\ Aliases(k, j)' = Aliases(k, j)
        BY <3>2, SameSymbols
      <3>4. infos'[v] = info /\ v = Val(k)
        BY <1>3, <2>2, <3>1
      <3>5. (1..Len(ssyms))' = 1..Len(ssyms)
        OBVIOUS
      <3> QED
        BY <3>2, <3>3, <3>4, <3>5 DEF EntryOfRun
    <2>3. CASE v # Val(i)
      <3>1. Indexed(v) /\ infos'[v] = infos[v]
        BY <1>3, <1>4, <2>3 DEF Indexed
      <3>2. EntryOfRun(v)
        BY <2>1, <3>1 DEF Contents, Entries
      <3> QED
        BY <3>1, <3>2, SameSymbols DEF EntryOfRun
    <2> QED
      BY <2>2, <2>3
  <1>5. ASSUME NEW v \in Addr, Indexed(v)' PROVE infos'[v].relocs = <<>>
    BY <1>3, <1>5 DEF Contents, AttachedSoFar, Indexed
  <1> QED
    BY <1>3, <1>4, <1>5

\* One run, and the next one begins where it ends.
LEMMA GroupRunKeeps == ASSUME IInv, IInv', Contents, GroupRun PROVE Contents'
  <1>1. pc = "group" /\ pc' = "group" /\ UNCHANGED <<file, ssyms, si, ri>>
    BY DEF GroupRun
  <1>2. PICK j \in (i + 1)..Len(ssyms) :
          NextDistinct(i, j) /\ SetInfo(i, Info(SizeUpTo(i, j), Aliases(i, j))) /\ i' = j
    BY DEF GroupRun, Resume
  <1>3. i \in 1..Len(ssyms) /\ j \in 1..Len(ssyms) /\ i < j /\ Len(ssyms) \in Nat
    BY <1>1, InOrder DEF IInv, IndexedSoFar
  <1>4. Val(i) < Val(j) /\ Val(i) # Val(Len(ssyms))
    <2>1. /\ Val(i) <= Val(j) /\ Val(j) <= Val(Len(ssyms)) /\ Val(i) # Val(j)
          /\ Val(i) \in Int /\ Val(j) \in Int /\ Val(Len(ssyms)) \in Int
      BY <1>1, <1>2, <1>3, InOrder DEF NextDistinct
    <2> QED
      BY <2>1
  <1>5. FirstOfRun(i)
    BY <1>1, <1>4 DEF Contents, Entries
  <1> DEFINE info == Info(SizeUpTo(i, j), Aliases(i, j))
  <1>6. /\ info \in InfoType /\ info.relocs = <<>>
        /\ info.size = SizeUpTo(i, j) /\ info.indices = Aliases(i, j)
    <2>1. SizeUpTo(i, j) \in Addr
      BY <1>3, SizeTypes DEF IInv
    <2>2. Aliases(i, j) \in Seq(Nat)
      BY <1>3, SubSeqProperties DEF IInv, TypeOK, Aliases
    <2> QED
      BY <2>1, <2>2 DEF Info, InfoType
  <1> HIDE DEF info
  <1>7. /\ (\A v \in Addr : Indexed(v) => v = Val(Len(ssyms)) \/ EntryOfRun(v))'
        /\ (\A v \in Addr : Indexed(v) => infos[v].relocs = <<>>)'
    BY <1>1, <1>2, <1>3, <1>5, <1>6, StoreKeeps DEF info
  <1>8. FirstOfRun(i)'
    <2>1. ASSUME NEW h \in 1..(j - 1) PROVE Val(h) # Val(j)
      <3>1. CASE h <= i
        <4>1. Val(h) <= Val(i) /\ Val(h) \in Int /\ Val(i) \in Int /\ Val(j) \in Int
          BY <1>1, <1>3, <3>1, InOrder
        <4> QED
          BY <4>1, <1>4
      <3>2. CASE h > i
        <4>1. Val(h) = Val(i)
          BY <1>2, <1>3, <3>2 DEF NextDistinct
        <4>2. Val(i) \in Int /\ Val(j) \in Int
          BY <1>1, <1>3, InOrder
        <4> QED
          BY <4>1, <4>2, <1>4
      <3> QED
        BY <3>1, <3>2, <1>3
    <2>2. FirstOfRun(j)
      BY <2>1 DEF FirstOfRun
    <2>3. FirstOfRun(i)' <=> \A h \in 1..(j - 1) : Val(h)' # Val(i)'
      BY <1>2 DEF FirstOfRun
    <2>4. Val(i)' = Val(j)
      BY <1>1, <1>2 DEF Val, Sym
    <2> QED
      BY <1>1, <2>1, <2>3, <2>4, SameSymbols
  <1>9. Collected'
    BY <1>1, SameSymbols DEF Contents, Collected
  <1>10. Entries'
    BY <1>1, <1>7, <1>8 DEF Entries
  <1>11. AttachedSoFar'
    BY <1>1, <1>7 DEF Contents, AttachedSoFar
  <1> QED
    BY <1>9, <1>10, <1>11 DEF Contents

\* A run without an end is that of the highest address.
LEMMA NoNextIsTop ==
    ASSUME IInv, pc = "group", \A j \in (i + 1)..Len(ssyms) : ~NextDistinct(i, j)
    PROVE  \A j \in i..Len(ssyms) : Val(j) = Val(i)
  <1>1. i \in 1..Len(ssyms) /\ Len(ssyms) \in Nat
    BY InOrder DEF IInv, IndexedSoFar
  <1> DEFINE S == {j \in (i + 1)..Len(ssyms) : Val(j) # Val(i)}
  <1>2. S = {}
    <2> SUFFICES ASSUME S # {} PROVE FALSE
      OBVIOUS
    <2>1. S \in SUBSET Nat
      BY <1>1
    <2>2. PICK j \in S : \A h \in S : j <= h
      BY <2>1, FirstOf
    <2>3. \A h \in (i + 1)..(j - 1) : Val(h) = Val(i)
      <3> SUFFICES ASSUME NEW h \in (i + 1)..(j - 1), Val(h) # Val(i) PROVE FALSE
        OBVIOUS
      <3>1. j \in Nat /\ j <= Len(ssyms)
        BY <1>1
      <3>2. h \in S /\ h < j /\ h \in Nat
        BY <1>1, <3>1
      <3>3. j <= h
        BY <2>2, <3>2
      <3> HIDE DEF S
      <3> QED
        BY <3>1, <3>2, <3>3
    <2>4. NextDistinct(i, j)
      BY <2>2, <2>3 DEF NextDistinct
    <2> QED
      BY <2>2, <2>4
  <1> QED
    BY <1>1, <1>2

\* The entry of the highest address, still without a size.
LEMMA GroupAliasesOfLastKeeps ==
    ASSUME IInv, IInv', Contents, GroupAliasesOfLast PROVE Contents'
  <1> DEFINE info == Info(0, Aliases(i, Len(ssyms) + 1))
  <1>1. /\ pc = "group" /\ pc' = "group" /\ UNCHANGED <<file, ssyms, si, ri>>
        /\ SetInfo(i, info) /\ i' = i + 1 /\ i < Len(ssyms)
    BY DEF GroupAliasesOfLast
  <1>2. i \in 1..Len(ssyms) /\ Len(ssyms) \in Nat
    BY <1>1, InOrder DEF IInv, IndexedSoFar
  <1>3. \A j \in i..Len(ssyms) : Val(j) = Val(i)
    BY <1>1, NoNextIsTop DEF GroupAliasesOfLast
  <1>4. Val(i) = Val(Len(ssyms)) /\ Val(i + 1) = Val(Len(ssyms))
    BY <1>1, <1>2, <1>3
  <1>5. info \in InfoType /\ info.relocs = <<>>
    <2>1. Aliases(i, Len(ssyms) + 1) \in Seq(Nat)
      BY <1>2, SubSeqProperties DEF IInv, TypeOK, Aliases
    <2>2. 0 \in Addr
      BY WAssumption DEF Addr
    <2> QED
      BY <2>1, <2>2 DEF Info, InfoType
  <1> HIDE DEF info
  <1>6. /\ (\A v \in Addr : Indexed(v) => v = Val(Len(ssyms)) \/ EntryOfRun(v))'
        /\ (\A v \in Addr : Indexed(v) => infos[v].relocs = <<>>)'
    BY <1>1, <1>4, <1>5, StoreKeeps
  <1>7. (Val(i) = Val(Len(ssyms)))'
    BY <1>1, <1>4 DEF Val, Sym
  <1>8. Collected'
    BY <1>1, SameSymbols DEF Contents, Collected
  <1>9. Entries'
    BY <1>1, <1>6, <1>7 DEF Entries
  <1>10. AttachedSoFar'
    BY <1>1, <1>6 DEF Contents, AttachedSoFar
  <1> QED
    BY <1>8, <1>9, <1>10 DEF Contents

\* The last entry gets its size; no relocation has been looked at.
LEMMA GroupLastKeeps == ASSUME IInv, IInv', Contents, GroupLast PROVE Contents'
  <1> DEFINE info == Info(ToSectEnd(i), <<ssyms[i]>>)
  <1>1. /\ pc = "group" /\ pc' = "reloc" /\ UNCHANGED <<file, ssyms, si, ri>>
        /\ SetInfo(i, info) /\ i = Len(ssyms)
    BY DEF GroupLast
  <1>2. PICK n \in 1..Len(ssyms) : n = i /\ n = Len(ssyms)
    BY <1>1 DEF IInv, IndexedSoFar
  <1>3. /\ info \in InfoType /\ info.relocs = <<>>
        /\ info.size = ToSectEnd(n) /\ info.indices = <<ssyms[n]>>
    <2>1. ToSectEnd(n) \in Addr
      BY SizeTypes DEF IInv
    <2>2. ssyms[n] \in Nat
      BY DEF IInv, TypeOK
    <2> QED
      BY <1>2, <2>1, <2>2 DEF Info, InfoType
  <1> HIDE DEF info
  <1>4. /\ infos'[Val(n)] = info
        /\ (\A v \in Addr : Indexed(v) => v = Val(Len(ssyms)) \/ EntryOfRun(v))'
        /\ (\A v \in Addr : Indexed(v) => infos[v].relocs = <<>>)'
    BY <1>1, <1>2, <1>3, StoreKeeps
  <1>5. EntryOfTop(Len(ssyms))'
    <2>1. Val(n)' = Val(n) /\ ToSectEnd(n)' = ToSectEnd(n)
      BY <1>1, SameSymbols
    <2>2. EntryOfTop(n)'
      BY <1>1, <1>3, <1>4, <2>1 DEF EntryOfTop
    <2>3. Len(ssyms)' = n
      BY <1>1, <1>2
    <2> QED
      BY <2>2, <2>3
  <1>6. Collected'
    BY <1>1, SameSymbols DEF Contents, Collected
  <1>7. Entries'
    BY <1>1, <1>4, <1>5 DEF Entries
  <1>8. AttachedSoFar'
    <2>1. si' = 1 /\ ri' = 1
      BY <1>1 DEF Contents, AttachedSoFar
    <2>2. ASSUME NEW v \in Addr, Indexed(v)', NEW s \in Nat \ {0}, NEW r \in Nat \ {0}
          PROVE  AttachedRight(v, s, r)'
      <3>1. Places(v, s, r)' = {}
        BY <1>4, <2>2 DEF Places
      <3>2. ~Reached(s, r)'
        BY <1>1, <2>1 DEF Reached
      <3> QED
        BY <3>1, <3>2 DEF AttachedRight
    <2>3. \A s \in (1..Len(file.sects))' : \A r \in (1..Len(file.sects[s].relocs))' :
            s \in Nat \ {0} /\ r \in Nat \ {0}
      OBVIOUS
    <2> QED
      BY <1>1, <2>1, <2>2, <2>3 DEF AttachedSoFar
  <1> QED
    BY <1>6, <1>7, <1>8 DEF Contents

-----------------------------------------------------------------------------
(* The relocations.                                                          *)

\* A symbol of a well-formed file lies in its section or at its end.
LEMMA ToSectEndExact ==
    ASSUME TypeOK, SortedSoFar, WellFormed(file), NEW k \in 1..Len(ssyms)
    PROVE  /\ Sym(k).sect \in 1..Len(file.sects)
           /\ SectEnd(file, Sym(k).sect) \in Addr
           /\ Val(k) <= SectEnd(file, Sym(k).sect)
           /\ ToSectEnd(k) = SectEnd(file, Sym(k).sect) - Val(k)
  <1> DEFINE m == Sym(k).sect
  <1>1. Val(k) \in Addr /\ m \in Nat /\ ssyms[k] \in Sectional(file)
    BY SymFacts DEF Symbol
  <1>2. HasSect(file, Sym(k)) /\ Val(k) <= SectEnd(file, m)
    BY <1>1 DEF WellFormed, Sym, Val
  <1>3. m \in 1..Len(file.sects)
    BY <1>1, <1>2, FileFacts DEF HasSect, TypeOK
  <1>4. file.sects[m].addr \in Addr /\ file.sects[m].size \in Addr
    BY <1>3, SectFacts
  <1>5. SectEnd(file, m) < W
    BY <1>3 DEF WellFormed
  <1>6. SectEnd(file, m) \in Addr
    BY <1>3, <1>5, SectEndFacts
  <1>7. Plus(file.sects[m].addr, file.sects[m].size) = SectEnd(file, m)
    BY <1>4, <1>5, ArithExact DEF SectEnd
  <1>8. ToSectEnd(k) = SectEnd(file, m) - Val(k)
    BY <1>1, <1>2, <1>6, <1>7, ArithExact DEF ToSectEnd
  <1> QED
    BY <1>2, <1>3, <1>6, <1>8

\* In a finished index of a well-formed file no entry reaches the end of the address space.
LEMMA EntryInSpace ==
    ASSUME IInv, Contents, pc \in {"reloc", "ready"}, WellFormed(file),
           NEW v \in Addr, Indexed(v)
    PROVE  /\ infos[v].size \in Addr /\ infos[v].size \in Nat /\ v \in Nat
           /\ v + infos[v].size < W
           /\ Plus(v, infos[v].size) = v + infos[v].size
  <1> DEFINE n == Len(ssyms)
             z == infos[v].size
  <1>1. PICK k \in 1..n : Val(k) = v
    BY DEF IInv, OnlySymbolsIndexed
  <1>2. n \in Nat /\ n \in 1..n /\ Val(n) \in Addr /\ Val(n) < W /\ v <= Val(n)
    BY <1>1, InOrder
  <1>3. z \in Addr
    <2>1. infos[v] \in InfoType
      BY DEF IInv, TypeOK, Indexed
    <2> QED
      BY <2>1 DEF InfoType
  <1>4. v \in Nat /\ z \in Nat /\ Val(n) \in Nat
    BY <1>2, <1>3, WAssumption DEF Addr
  <1>5. v + z < W
    <2>1. CASE v = Val(n)
      <3>1. z = ToSectEnd(n)
        BY <1>2, <2>1 DEF Contents, Entries, EntryOfTop
      <3>2. SectEnd(file, Sym(n).sect) \in Addr /\ z = SectEnd(file, Sym(n).sect) - v
        BY <1>2, <2>1, <3>1, ToSectEndExact DEF IInv
      <3> HIDE DEF z, n
      <3> QED
        BY <1>4, <3>2, WAssumption DEF Addr
    <2>2. CASE v # Val(n)
      <3>1. v < Val(n)
        BY <1>2, <1>4, <2>2
      <3>2. v + z <= Val(n)
        BY <1>2, <3>1 DEF IInv, SizeBound
      <3> QED
        BY <1>2, <1>4, <3>2, WAssumption
    <2> QED
      BY <2>1, <2>2
  <1>6. Plus(v, z) = v + z
    BY <1>3, <1>5, ArithExact
  <1> QED
    BY <1>3, <1>4, <1>5, <1>6

\* sort.Search finds a symbol if there is one that is low enough.
LEMMA SearchFinds ==
    ASSUME IInv, pc # "sort", NEW a \in Int, NEW k \in 1..Len(ssyms), Val(k) <= a
    PROVE  \E h \in 1..Len(ssyms) : Found(h, a)
  <1> DEFINE S == {h \in 1..Len(ssyms) : Val(h) <= a}
  <1>1. Len(ssyms) \in Nat /\ S \in SUBSET (1..Len(ssyms)) /\ S # {}
    BY InOrder
  <1>2. PICK h \in S : \A g \in S : g <= h
    BY <1>1, LastOf
  <1>3. \A g \in (h + 1)..Len(ssyms) : a < Val(g)
    <2> SUFFICES ASSUME NEW g \in (h + 1)..Len(ssyms), ~(a < Val(g)) PROVE FALSE
      OBVIOUS
    <2>1. h \in 1..Len(ssyms) /\ g \in 1..Len(ssyms) /\ g > h
      BY <1>1
    <2>2. Val(g) \in Int
      BY <2>1, InOrder
    <2>3. g \in S
      BY <2>1, <2>2
    <2>4. g <= h
      BY <1>2, <2>3
    <2> HIDE DEF S
    <2> QED
      BY <2>1, <2>4
  <1> QED
    BY <1>2, <1>3 DEF Found

\* What it finds is the entry that holds the address, if one does.
LEMMA SearchFindsHolder ==
    ASSUME IInv, pc # "sort", WellFormed(file), NEW a \in Int,
           NEW k \in 1..Len(ssyms), Found(k, a),
           NEW v \in Addr, Indexed(v), infos[v].size \in Nat, v <= a, a < v + infos[v].size
    PROVE  v = Val(k)
  <1>1. PICK h \in 1..Len(ssyms) : Val(h) = v
    BY DEF IInv, OnlySymbolsIndexed
  <1>2. Len(ssyms) \in Nat /\ v \in Int /\ Val(k) \in Int /\ Val(k) <= a
    BY <1>1, InOrder DEF Found
  <1>3. h <= k
    <2> SUFFICES ASSUME h > k PROVE FALSE
      BY <1>2
    <2>1. h \in (k + 1)..Len(ssyms)
      BY <1>2
    <2>2. a < v
      BY <1>1, <2>1 DEF Found
    <2> QED
      BY <1>2, <2>2
  <1>4. v <= Val(k)
    BY <1>1, <1>3, InOrder
  <1>5. ~(v < Val(k))
    <2> SUFFICES ASSUME v < Val(k) PROVE FALSE
      OBVIOUS
    <2>1. v + infos[v].size <= Val(k)
      BY DEF IInv, SizeBound
    <2> QED
      BY <1>2, <2>1
  <1> QED
    BY <1>2, <1>4, <1>5

\* A relocation of a well-formed file lies in its section, so its sums do not wrap around.
LEMMA RelocFacts ==
    ASSUME TypeOK, WellFormed(file), NEW s \in 1..Len(file.sects),
           NEW r \in 1..Len(file.sects[s].relocs)
    PROVE  /\ file.sects[s].addr + file.sects[s].relocs[r].addr \in Nat
           /\ file.sects[s].relocs[r].width \in Nat \ {0}
           /\ RelocAddr(s, file.sects[s].relocs[r])
                = file.sects[s].addr + file.sects[s].relocs[r].addr
           /\ Plus(RelocAddr(s, file.sects[s].relocs[r]), file.sects[s].relocs[r].width)
                = file.sects[s].addr + file.sects[s].relocs[r].addr + file.sects[s].relocs[r].width
  <1> DEFINE base == file.sects[s].addr
             size == file.sects[s].size
             rel == file.sects[s].relocs[r]
  <1>1. file.sects[s] \in Section
    <2>1. file.sects \in Seq(Section)
      BY FileFacts DEF TypeOK
    <2> QED
      BY <2>1
  <1>2. base \in Addr /\ size \in Addr /\ file.sects[s].relocs \in Seq(Reloc)
    BY <1>1 DEF Section
  <1>3. rel \in Reloc
    BY <1>2
  <1>4. rel.addr \in Addr /\ rel.width \in {1, 2, 4, 8}
    BY <1>3 DEF Reloc
  <1>5. base + size < W /\ rel.addr + rel.width <= size
    BY DEF WellFormed, SectEnd
  <1> HIDE DEF base, size, rel
  <1>6. /\ base \in Nat /\ size \in Nat /\ rel.addr \in Nat /\ rel.width \in Nat \ {0}
        /\ rel.width \in Addr
    BY <1>2, <1>4, WAssumption DEF Addr
  <1>7. base + rel.addr < W /\ base + rel.addr \in Addr /\ base + rel.addr + rel.width < W
    <2> DEFINE a == rel.addr
               w == rel.width
    <2>1. /\ base \in Nat /\ size \in Nat /\ a \in Nat /\ w \in Nat /\ w # 0
          /\ base + size < W /\ a + w <= size /\ W \in Nat
      BY <1>5, <1>6, WAssumption
    <2> HIDE DEF a, w
    <2>2. base + a < W /\ base + a + w < W /\ base + a \in Nat
      BY <2>1
    <2>3. base + a \in Addr
      BY <2>1, <2>2 DEF Addr
    <2> QED
      BY <2>2, <2>3 DEF a, w
  <1>8. Plus(base, rel.addr) = base + rel.addr
    BY <1>2, <1>4, <1>7, ArithExact
  <1>9. Plus(base + rel.addr, rel.width) = base + rel.addr + rel.width
    BY <1>6, <1>7, ArithExact
  <1> QED
    BY <1>6, <1>8, <1>9 DEF RelocAddr, base, rel

\* So the loop's test says what it means.
LEMMA CoversMeans ==
    ASSUME IInv, Contents, pc \in {"reloc", "ready"}, WellFormed(file),
           NEW s \in 1..Len(file.sects), NEW r \in 1..Len(file.sects[s].relocs),
           NEW v \in Addr, Indexed(v)
    PROVE  Covers(v, s, file.sects[s].relocs[r]) <=> Contains(v, s, r)
  <1>1. Plus(v, infos[v].size) = v + infos[v].size
    BY EntryInSpace
  <1>2. TypeOK
    BY DEF IInv
  <1> QED
    BY <1>1, <1>2, RelocFacts DEF Covers, Contains

\* The entry that contains a relocation is the one the search finds for it.
LEMMA ContainerIsFound ==
    ASSUME IInv, Contents, pc \in {"reloc", "ready"}, WellFormed(file),
           NEW s \in 1..Len(file.sects), NEW r \in 1..Len(file.sects[s].relocs),
           NEW v \in Addr, Indexed(v), Contains(v, s, r)
    PROVE  /\ \E k \in 1..Len(ssyms) : Found(k, RelocAddr(s, file.sects[s].relocs[r]))
           /\ \A k \in 1..Len(ssyms) :
                Found(k, RelocAddr(s, file.sects[s].relocs[r])) => v = Val(k)
  <1> DEFINE from == file.sects[s].addr + file.sects[s].relocs[r].addr
             width == file.sects[s].relocs[r].width
  <1>1. from \in Nat /\ width \in Nat \ {0} /\ RelocAddr(s, file.sects[s].relocs[r]) = from
    BY RelocFacts DEF IInv
  <1>2. infos[v].size \in Nat /\ v \in Nat
    BY EntryInSpace
  <1>3. v <= from /\ from + width <= v + infos[v].size
    BY DEF Contains
  <1> HIDE DEF from, width
  <1>4. v <= from /\ from < v + infos[v].size
    BY <1>1, <1>2, <1>3
  <1>5. PICK h \in 1..Len(ssyms) : Val(h) = v
    BY DEF IInv, OnlySymbolsIndexed
  <1>6. \E k \in 1..Len(ssyms) : Found(k, from)
    BY <1>1, <1>4, <1>5, SearchFinds
  <1>7. \A k \in 1..Len(ssyms) : Found(k, from) => v = Val(k)
    BY <1>1, <1>2, <1>4, SearchFindsHolder
  <1> QED
    BY <1>1, <1>6, <1>7

\* The last loop changes no size and no list of aliases.
LEMMA RelocLoopKeepsEntries ==
    ASSUME Contents, pc \in {"reloc", "ready"}, pc' \in {"reloc", "ready"},
           UNCHANGED <<file, ssyms>>,
           Len(ssyms) > 0 => Val(Len(ssyms)) \in Addr /\ Indexed(Val(Len(ssyms))),
           \A v \in Addr : /\ Indexed(v)' <=> Indexed(v)
                           /\ Indexed(v) => /\ infos'[v].size = infos[v].size
                                            /\ infos'[v].indices = infos[v].indices
    PROVE  Collected' /\ Entries'
  <1>1. Collected'
    BY SameSymbols DEF Contents, Collected
  <1> DEFINE n == Len(ssyms)
  <1>2. Len(ssyms)' = n /\ Val(n)' = Val(n) /\ ToSectEnd(n)' = ToSectEnd(n)
    BY SameSymbols
  <1>3. n > 0 => EntryOfTop(n)'
    BY <1>2 DEF Contents, Entries, EntryOfTop
  <1>4. ASSUME NEW v \in Addr, Indexed(v)', v # Val(n) PROVE EntryOfRun(v)'
    <2>1. Indexed(v) /\ EntryOfRun(v)
      BY <1>4 DEF Contents, Entries
    <2> QED
      BY <2>1, SameSymbols DEF EntryOfRun
  <1>5. Entries'
    <2>1. (Val(Len(ssyms)))' = Val(n)
      BY <1>2 DEF Val, Sym
    <2>2. n > 0 => EntryOfTop(Len(ssyms))'
      BY <1>2, <1>3
    <2> QED
      BY <1>4, <2>1, <2>2 DEF Entries
  <1> QED
    BY <1>1, <1>5

\* The last loop dereferences entries that exist.
LEMMA TopIndexed ==
    ASSUME IInv, pc \in {"reloc", "ready"}
    PROVE  Len(ssyms) > 0 => Val(Len(ssyms)) \in Addr /\ Indexed(Val(Len(ssyms)))
  BY InOrder DEF IInv, IndexedSoFar

\* A step that changes no entry keeps what is known if it passes no relocation that an
\* entry contains.
LEMMA MoveOnKeeps ==
    ASSUME IInv, Contents, pc \in {"reloc", "ready"}, pc' \in {"reloc", "ready"},
           UNCHANGED <<file, ssyms, infos>>, si' >= 1, ri' >= 1,
           WellFormed(file) =>
             \A v \in Addr : Indexed(v) =>
               \A s \in 1..Len(file.sects) : \A r \in 1..Len(file.sects[s].relocs) :
                 Contains(v, s, r) => (Reached(s, r)' <=> Reached(s, r))
    PROVE  Contents'
  <1>1. Collected' /\ Entries'
    BY TopIndexed, RelocLoopKeepsEntries DEF Indexed
  <1>2. WellFormed(file)' <=> WellFormed(file)
    BY SameSymbols
  <1>3. ASSUME WellFormed(file), NEW v \in Addr, Indexed(v)', NEW s \in 1..Len(file.sects),
               NEW r \in 1..Len(file.sects[s].relocs)
        PROVE  AttachedRight(v, s, r)'
    <2>1. Indexed(v)
      BY <1>3 DEF Indexed
    <2>2. AttachedRight(v, s, r)
      BY <1>3, <2>1 DEF Contents, AttachedSoFar
    <2>3. Contains(v, s, r)' = Contains(v, s, r) /\ Places(v, s, r)' = Places(v, s, r)
      BY DEF Contains, Places
    <2>4. Contains(v, s, r) => (Reached(s, r)' <=> Reached(s, r))
      BY <1>3, <2>1
    <2> QED
      BY <2>2, <2>3, <2>4 DEF AttachedRight
  <1>4. AttachedSoFar'
    BY <1>2, <1>3 DEF AttachedSoFar
  <1> QED
    BY <1>1, <1>4 DEF Contents

\* The position of the last loop.
LEMMA AtRelocFacts ==
    ASSUME IInv, Contents, AtReloc
    PROVE  /\ pc = "reloc" /\ si \in 1..Len(file.sects) /\ ri \in 1..Len(file.sects[si].relocs)
           /\ ~Reached(si, ri)
  <1>1. si \in Nat /\ ri \in Nat
    BY DEF IInv, TypeOK
  <1>2. pc = "reloc" /\ si >= 1 /\ ri >= 1
    BY DEF Contents, AttachedSoFar, AtReloc
  <1>3. Len(file.sects) \in Nat /\ si \in 1..Len(file.sects)
    <2>1. file.sects \in Seq(Section)
      BY FileFacts DEF IInv, TypeOK
    <2> QED
      BY <1>1, <1>2, <2>1 DEF AtReloc
  <1>4. Len(file.sects[si].relocs) \in Nat
    <2>1. file.sects[si] \in Section
      BY <1>3, FileFacts DEF IInv, TypeOK
    <2> QED
      BY <2>1 DEF Section
  <1> QED
    BY <1>1, <1>2, <1>3, <1>4 DEF AtReloc, Reached

\* Passing one relocation.
LEMMA ReachedNext ==
    ASSUME pc = "reloc", pc' = "reloc", si' = si, ri' = ri + 1, ri \in Nat, si \in Nat,
           NEW s \in Nat, NEW r \in Nat
    PROVE  Reached(s, r)' <=> Reached(s, r) \/ (s = si /\ r = ri)
  BY DEF Reached

\* A relocation that is left out lies in no entry.
LEMMA SkipRelocKeeps == ASSUME IInv, IInv', Contents, SkipReloc PROVE Contents'
  <1>1. /\ AtReloc /\ pc = "reloc" /\ pc' = "reloc" /\ UNCHANGED <<file, ssyms, infos>>
        /\ si' = si /\ ri' = ri + 1
    BY DEF SkipReloc, AtReloc
  <1>2. /\ si \in 1..Len(file.sects) /\ ri \in 1..Len(file.sects[si].relocs)
        /\ si \in Nat /\ ri \in Nat /\ si >= 1 /\ ri >= 1
    BY <1>1, AtRelocFacts DEF IInv, TypeOK
  <1>3. ASSUME WellFormed(file), NEW v \in Addr, Indexed(v), NEW s \in 1..Len(file.sects),
               NEW r \in 1..Len(file.sects[s].relocs), Contains(v, s, r)
        PROVE  Reached(s, r)' <=> Reached(s, r)
    <2>1. ~(s = si /\ r = ri)
      <3> SUFFICES ASSUME s = si, r = ri PROVE FALSE
        OBVIOUS
      <3>1. /\ \E k \in 1..Len(ssyms) : Found(k, RelocAddr(s, file.sects[s].relocs[r]))
            /\ \A k \in 1..Len(ssyms) :
                 Found(k, RelocAddr(s, file.sects[s].relocs[r])) => v = Val(k)
        BY <1>1, <1>3, ContainerIsFound
      <3>2. PICK k \in 1..Len(ssyms) : Found(k, RelocAddr(si, CurReloc)) /\ v = Val(k)
        BY <3>1 DEF CurReloc
      <3>3. Covers(v, si, CurReloc)
        BY <1>1, <1>3, CoversMeans DEF CurReloc
      <3> QED
        BY <3>2, <3>3 DEF SkipReloc
    <2>2. s \in Nat /\ r \in Nat
      OBVIOUS
    <2> QED
      BY <1>1, <1>2, <2>1, <2>2, ReachedNext
  <1>4. si' >= 1 /\ ri' >= 1
    BY <1>1, <1>2
  <1> QED
    BY <1>1, <1>3, <1>4, MoveOnKeeps

\* The next section begins where the relocations of this one end.
LEMMA NextSectionKeeps == ASSUME IInv, IInv', Contents, NextSection PROVE Contents'
  <1>1. /\ pc = "reloc" /\ pc' = "reloc" /\ UNCHANGED <<file, ssyms, infos>>
        /\ si' = si + 1 /\ ri' = 1 /\ ri > Len(file.sects[si].relocs)
    BY DEF NextSection
  <1>2. si \in Nat /\ ri \in Nat /\ si >= 1
    BY <1>1 DEF IInv, TypeOK, Contents, AttachedSoFar
  <1>3. ASSUME NEW s \in 1..Len(file.sects), NEW r \in 1..Len(file.sects[s].relocs)
        PROVE  Reached(s, r)' <=> Reached(s, r)
    <2>1. s \in Nat /\ r \in Nat /\ r >= 1 /\ (s = si => r < ri)
      <3>1. file.sects[s] \in Section
        BY FileFacts DEF IInv, TypeOK
      <3>2. Len(file.sects[s].relocs) \in Nat
        BY <3>1 DEF Section
      <3> QED
        BY <1>1, <1>2, <3>2
    <2> QED
      BY <1>1, <1>2, <2>1 DEF Reached
  <1>4. si' >= 1 /\ ri' >= 1
    BY <1>1, <1>2
  <1> QED
    BY <1>1, <1>3, <1>4, MoveOnKeeps

\* When the loop ends it has been past every relocation.
LEMMA FinishKeeps == ASSUME IInv, IInv', Contents, Finish PROVE Contents'
  <1>1. /\ pc = "reloc" /\ pc' = "ready" /\ UNCHANGED <<file, ssyms, infos, si, ri>>
        /\ si > Len(file.sects)
    BY DEF Finish
  <1>2. si \in Nat /\ si >= 1 /\ ri >= 1
    BY <1>1 DEF IInv, TypeOK, Contents, AttachedSoFar
  <1>3. ASSUME NEW s \in 1..Len(file.sects), NEW r \in 1..Len(file.sects[s].relocs)
        PROVE  Reached(s, r)' <=> Reached(s, r)
    <2>1. Len(file.sects) \in Nat
      BY FileFacts DEF IInv, TypeOK
    <2>2. s < si
      BY <1>1, <1>2, <2>1
    <2> QED
      BY <1>1, <2>2 DEF Reached
  <1>4. si' >= 1 /\ ri' >= 1
    BY <1>1, <1>2
  <1> QED
    BY <1>1, <1>3, <1>4, MoveOnKeeps

\* A query changes nothing.
LEMMA QueryKeeps ==
    ASSUME IInv, Contents, UNCHANGED <<file, pc, ssyms, i, infos, si, ri>>
    PROVE  Contents'
  <1>1. Collected'
    BY SameSymbols DEF Contents, Collected
  <1>2. Entries'
    <2>1. \A v : Indexed(v)' = Indexed(v) /\ EntryOfRun(v)' = EntryOfRun(v)
      BY SameSymbols DEF Indexed, EntryOfRun
    <2>2. Val(Len(ssyms))' = Val(Len(ssyms)) /\ EntryOfTop(Len(ssyms))' = EntryOfTop(Len(ssyms))
      BY DEF EntryOfTop, Val, Sym, ToSectEnd, HasSect
    <2>3. FirstOfRun(i)' = FirstOfRun(i) /\ Val(i)' = Val(i)
      BY DEF FirstOfRun, Val, Sym
    <2> QED
      BY <2>1, <2>2, <2>3 DEF Contents, Entries
  <1>3. AttachedSoFar'
    <2>1. \A v, s, r : AttachedRight(v, s, r)' = AttachedRight(v, s, r)
      BY DEF AttachedRight, Places, Reached, Contains
    <2>2. (WellFormed(file)' <=> WellFormed(file)) /\ \A v : Indexed(v)' = Indexed(v)
      BY SameSymbols DEF Indexed
    <2> QED
      BY <2>1, <2>2 DEF Contents, AttachedSoFar
  <1> QED
    BY <1>1, <1>2, <1>3 DEF Contents

\* One more element makes one more place, if it is the one looked for.
LEMMA PlacesOfAppend ==
    ASSUME NEW S, NEW q \in Seq(S), NEW x \in S, NEW y
    PROVE  {k \in 1..Len(Append(q, x)) : Append(q, x)[k] = y}
             = {k \in 1..Len(q) : q[k] = y} \cup (IF x = y THEN {Len(q) + 1} ELSE {})
  <1>1. Len(q) \in Nat /\ Len(Append(q, x)) = Len(q) + 1 /\ Append(q, x)[Len(q) + 1] = x
    BY AppendProperties
  <1>2. \A k \in 1..Len(q) : Append(q, x)[k] = q[k]
    BY AppendProperties
  <1>3. 1..(Len(q) + 1) = 1..Len(q) \cup {Len(q) + 1}
    BY <1>1
  <1> QED
    BY <1>1, <1>2, <1>3

\* The relocation's position is added to the entry that contains it, and to no other.
LEMMA AttachRelocKeeps == ASSUME IInv, IInv', Contents, AttachReloc PROVE Contents'
  <1>1. /\ AtReloc /\ pc = "reloc" /\ pc' = "reloc" /\ UNCHANGED <<file, ssyms>>
        /\ si' = si /\ ri' = ri + 1
    BY DEF AttachReloc, AtReloc
  <1>2. /\ si \in 1..Len(file.sects) /\ ri \in 1..Len(file.sects[si].relocs)
        /\ si \in Nat /\ ri \in Nat /\ si >= 1 /\ ri >= 1 /\ ~Reached(si, ri)
    BY <1>1, AtRelocFacts DEF IInv, TypeOK
  <1>3. PICK m \in 1..Len(ssyms) :
          /\ Found(m, RelocAddr(si, CurReloc)) /\ Covers(Val(m), si, CurReloc)
          /\ infos' = [infos EXCEPT ![Val(m)].relocs = Append(@, <<si, ri>>)]
    BY DEF AttachReloc
  <1>4. Val(m) \in Addr /\ Indexed(Val(m))
    BY <1>1, InOrder DEF IInv, IndexedSoFar
  <1>5. infos[Val(m)] \in InfoType /\ infos \in [Addr -> InfoType \cup {Nil}]
    BY <1>4 DEF IInv, TypeOK, Indexed
  <1>6. infos[Val(m)].relocs \in Seq(Nat \X Nat) /\ <<si, ri>> \in Nat \X Nat
    BY <1>2, <1>5 DEF InfoType
  <1>7. /\ infos'[Val(m)].relocs = Append(infos[Val(m)].relocs, <<si, ri>>)
        /\ infos'[Val(m)].size = infos[Val(m)].size
        /\ infos'[Val(m)].indices = infos[Val(m)].indices
        /\ infos'[Val(m)] # Nil
        /\ \A v \in Addr : v # Val(m) => infos'[v] = infos[v]
    <2> DEFINE new == [infos[Val(m)] EXCEPT !.relocs = Append(@, <<si, ri>>)]
    <2>1. new \in InfoType
      <3>1. Append(infos[Val(m)].relocs, <<si, ri>>) \in Seq(Nat \X Nat)
        BY <1>6, AppendProperties
      <3> QED
        BY <1>5, <3>1 DEF InfoType
    <2>2. /\ new.relocs = Append(infos[Val(m)].relocs, <<si, ri>>)
          /\ new.size = infos[Val(m)].size /\ new.indices = infos[Val(m)].indices
      BY <1>5 DEF InfoType
    <2>3. infos' = [infos EXCEPT ![Val(m)] = new]
      BY <1>3
    <2> HIDE DEF new
    <2>4. infos'[Val(m)] = new /\ \A v \in Addr : v # Val(m) => infos'[v] = infos[v]
      BY <1>4, <1>5, <2>3
    <2> QED
      BY <2>1, <2>2, <2>4, NilAssumption
  <1>8. \A v \in Addr : /\ Indexed(v)' <=> Indexed(v)
                        /\ Indexed(v) => /\ infos'[v].size = infos[v].size
                                         /\ infos'[v].indices = infos[v].indices
    BY <1>4, <1>7 DEF Indexed
  <1>9. Collected' /\ Entries'
    BY <1>1, <1>8, TopIndexed, RelocLoopKeepsEntries
  <1>10. ASSUME WellFormed(file), NEW v \in Addr, Indexed(v), NEW s \in 1..Len(file.sects),
                NEW r \in 1..Len(file.sects[s].relocs)
         PROVE  AttachedRight(v, s, r)'
    <2>1. AttachedRight(v, s, r)
      BY <1>1, <1>10 DEF Contents, AttachedSoFar
    <2>2. Contains(v, s, r)' <=> Contains(v, s, r)
      BY <1>1, <1>8, <1>10 DEF Contains
    <2>3. Reached(s, r)' <=> Reached(s, r) \/ (s = si /\ r = ri)
      <3>1. s \in Nat /\ r \in Nat
        OBVIOUS
      <3> QED
        BY <1>1, <1>2, <3>1, ReachedNext
    <2>4. CASE v = Val(m)
      <3>1. Places(v, s, r)' = Places(v, s, r) \cup
              (IF <<si, ri>> = <<s, r>> THEN {Len(infos[v].relocs) + 1} ELSE {})
        <4> DEFINE q == infos[v].relocs
                   x == <<si, ri>>
                   y == <<s, r>>
                   T == Nat \X Nat
        <4>1. q \in Seq(T) /\ infos'[v].relocs = Append(q, x) /\ x \in T
          BY <1>6, <1>7, <2>4
        <4>2. Places(v, s, r)' = {k \in 1..Len(infos'[v].relocs) : infos'[v].relocs[k] = y}
          BY DEF Places
        <4>3. Places(v, s, r) = {k \in 1..Len(q) : q[k] = y}
          BY DEF Places
        <4> HIDE DEF q, x, y, T
        <4>4. {k \in 1..Len(Append(q, x)) : Append(q, x)[k] = y}
                = {k \in 1..Len(q) : q[k] = y} \cup (IF x = y THEN {Len(q) + 1} ELSE {})
          BY <4>1, PlacesOfAppend
        <4>5. Places(v, s, r)' = Places(v, s, r) \cup (IF x = y THEN {Len(q) + 1} ELSE {})
          BY <4>1, <4>2, <4>3, <4>4
        <4> QED
          BY <4>5 DEF q, x, y
      <3>2. CASE s = si /\ r = ri
        <4>1. Contains(v, s, r)
          BY <1>1, <1>3, <1>10, <2>4, <3>2, CoversMeans DEF CurReloc
        <4>2. Places(v, s, r) = {}
          BY <1>2, <2>1, <3>2 DEF AttachedRight
        <4>3. Places(v, s, r)' = {Len(infos[v].relocs) + 1}
          BY <3>1, <3>2, <4>2
        <4> QED
          BY <2>2, <2>3, <3>2, <4>1, <4>3 DEF AttachedRight
      <3>3. CASE ~(s = si /\ r = ri)
        <4>1. Places(v, s, r)' = Places(v, s, r)
          BY <3>1, <3>3
        <4> QED
          BY <2>1, <2>2, <2>3, <3>3, <4>1 DEF AttachedRight
      <3> QED
        BY <3>2, <3>3
    <2>5. CASE v # Val(m)
      <3>1. Places(v, s, r)' = Places(v, s, r)
        BY <1>7, <2>5 DEF Places
      <3>2. s = si /\ r = ri => ~Contains(v, s, r)
        BY <1>1, <1>3, <1>10, <2>5, ContainerIsFound DEF CurReloc
      <3> QED
        BY <2>1, <2>2, <2>3, <3>1, <3>2 DEF AttachedRight
    <2> QED
      BY <2>4, <2>5
  <1>11. AttachedSoFar'
    <2>1. WellFormed(file)' <=> WellFormed(file)
      BY <1>1, SameSymbols
    <2>2. si' >= 1 /\ ri' >= 1
      BY <1>1, <1>2
    <2>3. file' = file /\ \A v \in Addr : Indexed(v)' <=> Indexed(v)
      BY <1>1, <1>8
    <2> QED
      BY <1>1, <1>10, <2>1, <2>2, <2>3 DEF AttachedSoFar
  <1> QED
    BY <1>9, <1>11 DEF Contents

-----------------------------------------------------------------------------
(* The invariant and what follows from it.                                   *)

\* Before the loops there is nothing to be known.
LEMMA ContentsInit == Init => Contents
  <1> SUFFICES ASSUME Init PROVE Contents
    OBVIOUS
  <1>1. \A v \in Addr : ~Indexed(v)
    BY DEF Init, Indexed
  <1> QED
    BY <1>1 DEF Init, Contents, Collected, Entries, AttachedSoFar

\* Each of the loops' steps keeps what is known of the index.
LEMMA ContentsStep == IInv /\ Contents /\ [Next]_vars => Contents'
  <1> SUFFICES ASSUME IInv, Contents, [Next]_vars PROVE Contents'
    OBVIOUS
  <1>1. IInv'
    BY StepInv
  <1>2. CASE SortSymbols
    BY <1>1, <1>2, SortKeeps
  <1>3. CASE GroupRun
    BY <1>1, <1>3, GroupRunKeeps
  <1>4. CASE GroupAliasesOfLast
    BY <1>1, <1>4, GroupAliasesOfLastKeeps
  <1>5. CASE GroupLast
    BY <1>1, <1>5, GroupLastKeeps
  <1>6. CASE AttachReloc
    BY <1>1, <1>6, AttachRelocKeeps
  <1>7. CASE SkipReloc
    BY <1>1, <1>7, SkipRelocKeeps
  <1>8. CASE NextSection
    BY <1>1, <1>8, NextSectionKeeps
  <1>9. CASE Finish
    BY <1>1, <1>9, FinishKeeps
  <1>10. CASE \E a \in Addr : SymLookup(a)
    BY <1>1, <1>10, QueryKeeps DEF SymLookup
  <1>11. CASE UNCHANGED vars
    BY <1>1, <1>11, QueryKeeps DEF vars
  <1> QED
    BY <1>1, <1>2, <1>3, <1>4, <1>5, <1>6, <1>7, <1>8, <1>9, <1>10, <1>11 DEF Next, Build

\* All of this together is an invariant.
THEOREM ContentsInvariant == Spec => [](IInv /\ Contents)
  BY InitInv, StepInv, ContentsInit, ContentsStep, PTL DEF Spec

\* What a list of relocations names are relocations of the file.
AttachedExist ==
    \A v \in Addr : Indexed(v) =>
        \A k \in 1..Len(infos[v].relocs) :
            \E s \in 1..Len(file.sects) : \E r \in 1..Len(file.sects[s].relocs) :
                infos[v].relocs[k] = <<s, r>>

\* An entry that is stored while grouping has no relocations yet.
LEMMA StoredHasNone ==
    ASSUME IInv, Contents, NEW info, info.relocs = <<>>, SetInfo(i, info), pc = "group",
           file' = file
    PROVE  AttachedExist'
  <1>1. Val(i) \in Addr /\ infos \in [Addr -> InfoType \cup {Nil}]
    BY SymFacts DEF IInv, IndexedSoFar, TypeOK
  <1>2. ASSUME NEW v \in Addr, Indexed(v)' PROVE infos'[v].relocs = <<>>
    <2>1. CASE v = Val(i)
      BY <1>1, <2>1 DEF SetInfo
    <2>2. CASE v # Val(i)
      <3>1. infos'[v] = infos[v]
        BY <1>1, <2>2 DEF SetInfo
      <3> QED
        BY <1>2, <3>1 DEF Contents, AttachedSoFar, Indexed
    <2> QED
      BY <2>1, <2>2
  <1> QED
    BY <1>2 DEF AttachedExist

\* The relocation loop walks over the relocations of the file.
LEMMA AttachedExistStep ==
    ASSUME IInv, Contents, AttachedExist, [Next]_vars
    PROVE  AttachedExist'
  <1>1. CASE UNCHANGED <<file, infos>>
    BY <1>1 DEF AttachedExist, Indexed
  <1>2. CASE GroupRun \/ GroupAliasesOfLast \/ GroupLast
    <2>1. PICK size, indices : SetInfo(i, Info(size, indices))
      BY <1>2 DEF GroupRun, GroupAliasesOfLast, GroupLast
    <2>2. pc = "group" /\ file' = file
      BY <1>2 DEF GroupRun, GroupAliasesOfLast, GroupLast
    <2> QED
      BY <2>1, <2>2, StoredHasNone DEF Info
  <1>3. CASE AttachReloc
    <2>1. PICK m \in 1..Len(ssyms) :
            infos' = [infos EXCEPT ![Val(m)].relocs = Append(@, <<si, ri>>)]
      BY <1>3 DEF AttachReloc
    <2>2. si \in 1..Len(file.sects) /\ ri \in 1..Len(file.sects[si].relocs) /\ file' = file
      BY <1>3, AtRelocFacts DEF AttachReloc
    <2>3. Val(m) \in Addr /\ Indexed(Val(m)) /\ infos \in [Addr -> InfoType \cup {Nil}]
      BY <1>3, SymFacts DEF IInv, IndexedSoFar, TypeOK, AttachReloc, AtReloc
    <2>4. infos[Val(m)] \in InfoType
      BY <2>3 DEF Indexed
    <2> DEFINE u == Val(m)
               old == infos[u].relocs
    <2>5. old \in Seq(Nat \X Nat)
      BY <2>4 DEF InfoType
    <2>6. infos'[u].relocs = Append(old, <<si, ri>>)
      BY <2>1, <2>3, <2>4 DEF InfoType
    <2>7. \A v \in Addr : v # u => infos'[v] = infos[v]
      BY <2>1, <2>3
    <2>11. \A k \in 1..Len(old) : \E s \in 1..Len(file.sects) :
             \E r \in 1..Len(file.sects[s].relocs) : old[k] = <<s, r>>
      BY <2>3 DEF AttachedExist
    <2> HIDE DEF u, old
    <2>8. ASSUME NEW k \in 1..Len(infos'[u].relocs)
          PROVE  \E s \in 1..Len(file.sects) : \E r \in 1..Len(file.sects[s].relocs) :
                     infos'[u].relocs[k] = <<s, r>>
      <3>1. Len(old) \in Nat /\ k \in 1..(Len(old) + 1)
        BY <2>5, <2>6, <2>8
      <3>2. CASE k = Len(old) + 1
        <4>1. infos'[u].relocs[k] = <<si, ri>>
          BY <2>5, <2>6, <3>2
        <4> QED
          BY <2>2, <4>1
      <3>3. CASE k \in 1..Len(old)
        <4>1. infos'[u].relocs[k] = old[k]
          BY <2>5, <2>6, <3>3
        <4> QED
          BY <2>11, <3>3, <4>1
      <3> QED
        BY <3>1, <3>2, <3>3
    <2>9. ASSUME NEW v \in Addr, Indexed(v)', v # u PROVE infos'[v] = infos[v] /\ Indexed(v)
      BY <2>7, <2>9 DEF Indexed
    <2>10. ASSUME NEW v \in Addr, Indexed(v)', NEW k \in 1..Len(infos'[v].relocs)
           PROVE  \E s \in 1..Len(file.sects) : \E r \in 1..Len(file.sects[s].relocs) :
                      infos'[v].relocs[k] = <<s, r>>
      <3>1. CASE v = u
        BY <2>8, <2>10, <3>1
      <3>2. CASE v # u
        BY <2>9, <2>10, <3>2 DEF AttachedExist
      <3> QED
        BY <3>1, <3>2
    <2> QED
      BY <2>2, <2>10 DEF AttachedExist
  <1>4. CASE SortSymbols \/ SkipReloc \/ NextSection \/ Finish \/ UNCHANGED vars
               \/ \E a \in Addr : SymLookup(a)
    BY <1>1, <1>4 DEF SortSymbols, SkipReloc, NextSection, Finish, SymLookup, vars
  <1> QED
    BY <1>2, <1>3, <1>4 DEF Next, Build

\* In a finished index of a well-formed file an entry with bytes lies in one section.
LEMMA EntryInSection ==
    ASSUME IInv, Contents, pc = "ready", WellFormed(file),
           NEW v \in Addr, Indexed(v), infos[v].size # 0
    PROVE  \E m \in 1..Len(file.sects) :
               file.sects[m].addr <= v /\ v + infos[v].size <= SectEnd(file, m)
  <1> DEFINE n == Len(ssyms)
             z == infos[v].size
  <1>1. PICK h \in 1..n : Val(h) = v
    BY DEF IInv, OnlySymbolsIndexed
  <1>2. n \in Nat /\ n \in 1..n
    BY <1>1, InOrder
  <1>3. z \in Nat /\ v \in Nat
    BY EntryInSpace
  <1>4. ASSUME NEW k \in 1..n
        PROVE  /\ Sym(k).sect \in 1..Len(file.sects)
               /\ file.sects[Sym(k).sect].addr <= Val(k)
               /\ Val(k) <= SectEnd(file, Sym(k).sect)
               /\ SectEnd(file, Sym(k).sect) \in Nat /\ Val(k) \in Nat
               /\ ToSectEnd(k) = SectEnd(file, Sym(k).sect) - Val(k)
    <2>1. /\ Sym(k).sect \in 1..Len(file.sects) /\ Val(k) <= SectEnd(file, Sym(k).sect)
          /\ SectEnd(file, Sym(k).sect) \in Addr
          /\ ToSectEnd(k) = SectEnd(file, Sym(k).sect) - Val(k)
      BY ToSectEndExact DEF IInv
    <2>2. file.sects[Sym(k).sect].addr <= Val(k) /\ Val(k) \in Addr
      BY SymFacts DEF IInv, WellFormed, Sym, Val
    <2> QED
      BY <2>1, <2>2, AddrInt
  <1>5. CASE v = Val(n)
    <2>1. z = ToSectEnd(n)
      BY <1>2, <1>5 DEF Contents, Entries, EntryOfTop
    <2> HIDE DEF z, n
    <2>2. v + z = SectEnd(file, Sym(n).sect)
      BY <1>2, <1>3, <1>4, <1>5, <2>1
    <2> DEFINE m == Sym(n).sect
    <2>3. m \in 1..Len(file.sects) /\ file.sects[m].addr <= v
      BY <1>2, <1>4, <1>5
    <2>4. v + z <= SectEnd(file, m)
      BY <1>2, <1>4, <2>2
    <2> HIDE DEF m
    <2> QED
      BY <2>3, <2>4 DEF z
  <1>6. CASE v # Val(n)
    <2>1. PICK k, j \in 1..n : Val(k) = v /\ z = SizeUpTo(k, j) /\ NextDistinct(k, j)
      BY <1>6 DEF Contents, Entries, EntryOfRun
    <2>2. Val(k) < Val(j)
      BY <2>1, InOrder DEF NextDistinct
    <2>3. Val(k) \in Addr /\ Val(j) \in Addr
      BY SymFacts DEF IInv
    <2> HIDE DEF z, n
    <2>4. v + z <= SectEnd(file, Sym(k).sect)
      <3>1. CASE Sym(k).sect = Sym(j).sect
        <4>1. z = Val(j) - Val(k)
          BY <2>1, <2>2, <2>3, <3>1, ArithExact, AddrInt DEF SizeUpTo
        <4> QED
          BY <1>4, <2>1, <3>1, <4>1
      <3>2. CASE Sym(k).sect # Sym(j).sect
        <4>1. z = ToSectEnd(k)
          BY <2>1, <3>2 DEF SizeUpTo
        <4> QED
          BY <1>4, <2>1, <4>1
      <3> QED
        BY <3>1, <3>2
    <2> DEFINE m == Sym(k).sect
    <2>5. m \in 1..Len(file.sects) /\ file.sects[m].addr <= v
      BY <1>4, <2>1
    <2> HIDE DEF m
    <2> QED
      BY <2>4, <2>5 DEF m, z
  <1> QED
    BY <1>5, <1>6

\* A run is all the symbols of its address.
LEMMA RunSpans ==
    ASSUME IInv, pc # "sort", NEW k \in 1..Len(ssyms), NEW j \in 1..Len(ssyms),
           FirstOfRun(k), NextDistinct(k, j)
    PROVE  /\ k < j /\ Val(k) < Val(j)
           /\ \A h \in 1..Len(ssyms) : Val(h) = Val(k) <=> h \in k..(j - 1)
           /\ \A h \in 1..Len(ssyms) : Val(k) < Val(h) => Val(j) <= Val(h)
  <1>1. k < j /\ Val(j) # Val(k) /\ \A h \in (k + 1)..(j - 1) : Val(h) = Val(k)
    BY InOrder DEF NextDistinct
  <1>2. Val(k) \in Int /\ Val(j) \in Int /\ Val(k) <= Val(j)
    BY <1>1, InOrder
  <1>3. Val(k) < Val(j)
    BY <1>1, <1>2
  <1>4. ASSUME NEW h \in 1..Len(ssyms) PROVE Val(h) = Val(k) <=> h \in k..(j - 1)
    <2>1. CASE h < k
      BY <2>1, <1>1 DEF FirstOfRun
    <2>2. CASE h \in k..(j - 1)
      BY <2>2, <1>1
    <2>3. CASE h >= j
      <3>1. Val(j) <= Val(h) /\ Val(h) \in Int
        BY <2>3, InOrder
      <3> QED
        BY <1>2, <1>3, <2>3, <3>1
    <2> QED
      BY <2>1, <2>2, <2>3
  <1>5. ASSUME NEW h \in 1..Len(ssyms), Val(k) < Val(h) PROVE Val(j) <= Val(h)
    <2>1. Val(h) \in Int
      BY InOrder
    <2>2. CASE h >= j
      BY <2>2, InOrder
    <2>3. CASE h < k
      <3>1. Val(h) <= Val(k)
        BY <2>3, InOrder
      <3> QED
        BY <1>2, <1>5, <2>1, <3>1
    <2>4. CASE h \in k..(j - 1)
      BY <2>4, <1>2, <1>4, <1>5
    <2> QED
      BY <2>2, <2>3, <2>4
  <1> QED
    BY <1>1, <1>3, <1>4, <1>5

\* Every sectional symbol has its place among the sorted ones.
LEMMA PlaceOfSymbol ==
    ASSUME IInv, Contents, pc # "sort"
    PROVE  /\ \A n \in Sectional(file) : \E k \in 1..Len(ssyms) :
                ssyms[k] = n /\ Val(k) = file.syms[n].value
           /\ \A k \in 1..Len(ssyms) : ssyms[k] \in Sectional(file) /\ Val(k) = file.syms[ssyms[k]].value
  BY SymFacts DEF IInv, Contents, Collected, Val, Sym

\* An entry lists the symbols of its run, the last one the last symbol.
LEMMA ListsRight == IInv /\ Contents => AliasesListedBelowTop
  <1> SUFFICES ASSUME IInv, Contents, pc = "ready", NEW v \in Addr, Indexed(v)
               PROVE  LET names == infos[v].indices
                          at == {n \in Sectional(file) : file.syms[n].value = v}
                      IN IF v = Val(Len(ssyms)) THEN Len(names) = 1 /\ Listed(names) \subseteq at
                         ELSE /\ Listed(names) = at
                              /\ \A j, k \in 1..Len(names) : names[j] = names[k] => j = k
    BY DEF AliasesListedBelowTop
  <1> DEFINE names == infos[v].indices
             at == {n \in Sectional(file) : file.syms[n].value = v}
             n == Len(ssyms)
  <1>1. n \in Nat /\ n > 0
    <2>1. PICK k \in 1..n : Val(k) = v
      BY DEF IInv, OnlySymbolsIndexed
    <2> QED
      BY <2>1, InOrder
  <1>2. CASE v = Val(n)
    <2>1. names = <<ssyms[n]>>
      BY <1>1, <1>2 DEF Contents, Entries, EntryOfTop
    <2>2. ssyms[n] \in at
      BY <1>1, <1>2, PlaceOfSymbol
    <2> HIDE DEF at
    <2>3. Len(names) = 1 /\ Listed(names) = {ssyms[n]}
      BY <2>1 DEF Listed
    <2> QED
      BY <1>2, <2>2, <2>3 DEF at
  <1>3. CASE v # Val(n)
    <2>1. PICK k \in 1..n, j \in 1..n :
            /\ Val(k) = v /\ FirstOfRun(k) /\ NextDistinct(k, j) /\ names = Aliases(k, j)
      BY <1>3 DEF Contents, Entries, EntryOfRun
    <2>2. k < j /\ \A h \in 1..n : Val(h) = v <=> h \in k..(j - 1)
      BY <2>1, RunSpans
    <2>3. ssyms \in Seq(Nat)
      BY DEF IInv, TypeOK
    <2> HIDE DEF names, at, n
    <2>4. /\ Len(names) = j - k
          /\ \A h \in 1..(j - k) : names[h] = ssyms[k + h - 1]
      BY <1>1, <2>1, <2>2, <2>3, SubSeqProperties DEF Aliases, n
    <2>5. Listed(names) \subseteq at
      <3> SUFFICES ASSUME NEW h \in 1..Len(names) PROVE names[h] \in at
        BY DEF Listed
      <3>1. k + h - 1 \in 1..n /\ k + h - 1 \in k..(j - 1) /\ names[h] = ssyms[k + h - 1]
        BY <1>1, <2>2, <2>4
      <3>2. Val(k + h - 1) = v
        BY <2>2, <3>1
      <3> QED
        BY <3>1, <3>2, PlaceOfSymbol DEF at, n
    <2>6. at \subseteq Listed(names)
      <3> SUFFICES ASSUME NEW m \in at PROVE m \in Listed(names)
        OBVIOUS
      <3>1. PICK h \in 1..n : ssyms[h] = m /\ Val(h) = v
        BY PlaceOfSymbol DEF at, n
      <3>2. h \in k..(j - 1)
        BY <2>2, <3>1
      <3>3. h - k + 1 \in 1..Len(names) /\ names[h - k + 1] = m
        BY <1>1, <2>4, <3>1, <3>2
      <3> QED
        BY <3>3 DEF Listed
    <2>7. ASSUME NEW g \in 1..Len(names), NEW h \in 1..Len(names), names[g] = names[h]
          PROVE  g = h
      <3>1. k + g - 1 \in 1..n /\ k + h - 1 \in 1..n /\ ssyms[k + g - 1] = ssyms[k + h - 1]
        BY <1>1, <2>2, <2>4, <2>7
      <3>2. k + g - 1 = k + h - 1
        BY <3>1 DEF Contents, Collected, n
      <3>3. k \in Int /\ g \in Int /\ h \in Int
        BY <1>1, <2>4
      <3> QED
        BY <3>2, <3>3
    <2>8. v # Val(Len(ssyms))
      BY <1>3 DEF n
    <2>9. /\ Listed(names) = at
          /\ \A g, h \in 1..Len(names) : names[g] = names[h] => g = h
      BY <2>5, <2>6, <2>7
    <2> QED
      BY <2>8, <2>9 DEF names, at
  <1> QED
    BY <1>2, <1>3

\* A finished entry below the highest address lists all the symbols there; sort.Sort may have
\* left them in any order.
THEOREM ListsAreComplete == Spec => []AliasesListedBelowTop
  BY ListsRight, ContentsInvariant, PTL

\* Sizes are those of the reference definition: to the next symbol or to the end of the section.
THEOREM SizesAreExact == Spec => []SizesReachNextSymbol
  <1>1. IInv /\ Contents => SizesReachNextSymbol
    <2> SUFFICES ASSUME IInv, Contents, pc = "ready", WellFormed(file), NEW v \in Addr
                 PROVE  LET at == {n \in Sectional(file) : file.syms[n].value = v}
                            ends == {SectEnd(file, file.syms[n].sect) : n \in at}
                            above == {file.syms[n].value : n \in Sectional(file)} \cap (v + 1)..W
                            stops == ends \cup above
                        IN at # {} /\ (\A d, e \in ends : d = e) =>
                            \E stop \in stops :
                                /\ \A e \in stops : stop <= e
                                /\ infos[v].size = stop - v
      BY DEF SizesReachNextSymbol
    <2> DEFINE at == {n \in Sectional(file) : file.syms[n].value = v}
               ends == {SectEnd(file, file.syms[n].sect) : n \in at}
               above == {file.syms[n].value : n \in Sectional(file)} \cap (v + 1)..W
               stops == ends \cup above
               n == Len(ssyms)
    <2> SUFFICES ASSUME at # {}, \A d, e \in ends : d = e
                 PROVE  \E stop \in stops : (\A e \in stops : stop <= e) /\ infos[v].size = stop - v
      OBVIOUS
    <2>1. TypeOK /\ SortedSoFar /\ n \in Nat /\ v \in Nat
      BY InOrder, WAssumption DEF IInv, Addr
    <2>2. PICK h \in 1..n : Val(h) = v
      BY PlaceOfSymbol
    <2>3. Indexed(v) /\ n \in 1..n
      BY <2>1, <2>2 DEF IInv, IndexedSoFar
    <2>4. ASSUME NEW k \in 1..n, Val(k) = v
          PROVE  /\ SectEnd(file, Sym(k).sect) \in ends
                 /\ \A e \in ends : e = SectEnd(file, Sym(k).sect)
                 /\ ToSectEnd(k) = SectEnd(file, Sym(k).sect) - v
                 /\ SectEnd(file, Sym(k).sect) \in Int /\ v <= SectEnd(file, Sym(k).sect)
      <3>1. ssyms[k] \in at /\ Sym(k) = file.syms[ssyms[k]]
        BY <2>4, PlaceOfSymbol DEF Sym
      <3>2. SectEnd(file, Sym(k).sect) \in ends
        BY <3>1
      <3>3. /\ ToSectEnd(k) = SectEnd(file, Sym(k).sect) - v
            /\ SectEnd(file, Sym(k).sect) \in Addr /\ v <= SectEnd(file, Sym(k).sect)
        BY <2>1, <2>4, ToSectEndExact
      <3> QED
        BY <3>2, <3>3, AddrInt
    <2>5. ASSUME NEW e \in above PROVE \E g \in 1..n : Val(g) = e /\ v < Val(g) /\ e \in Int
      BY <2>1, PlaceOfSymbol
    <2>6. ASSUME NEW g \in 1..n, v < Val(g) PROVE Val(g) \in above
      <3>1. ssyms[g] \in Sectional(file) /\ Val(g) = file.syms[ssyms[g]].value
        BY PlaceOfSymbol
      <3>2. Val(g) \in (v + 1)..W
        BY <2>1, <2>6, InOrder, WAssumption
      <3> QED
        BY <3>1, <3>2
    <2> HIDE DEF at, ends, above
    <2>7. CASE v = Val(n)
      <3> DEFINE stop == SectEnd(file, Sym(n).sect)
      <3>1. infos[v].size = stop - v /\ stop \in ends /\ \A e \in ends : e = stop
        BY <2>3, <2>4, <2>7 DEF Contents, Entries, EntryOfTop
      <3>2. above = {}
        <4> SUFFICES ASSUME NEW e \in above PROVE FALSE
          OBVIOUS
        <4>1. PICK g \in 1..n : v < Val(g)
          BY <2>5
        <4>2. Val(g) <= Val(n) /\ Val(g) \in Int /\ Val(n) \in Int
          BY <2>1, <2>3, InOrder
        <4> QED
          BY <2>1, <2>7, <4>1, <4>2
      <3>3. stop \in Int
        BY <2>3, <2>4, <2>7
      <3> HIDE DEF stop
      <3> QED
        BY <3>1, <3>2, <3>3
    <2>8. CASE v # Val(n)
      <3>1. PICK k \in 1..n, j \in 1..n :
              /\ Val(k) = v /\ FirstOfRun(k) /\ NextDistinct(k, j)
              /\ infos[v].size = SizeUpTo(k, j)
        BY <2>3, <2>8 DEF Contents, Entries, EntryOfRun
      <3>2. /\ v < Val(j) /\ \A g \in 1..n : v < Val(g) => Val(j) <= Val(g)
            /\ Val(j) \in Int
        BY <3>1, RunSpans, InOrder
      <3>3. Val(j) \in above /\ \A e \in above : Val(j) <= e
        BY <2>5, <2>6, <3>2
      <3> DEFINE end == SectEnd(file, Sym(k).sect)
      <3>4. end \in ends /\ (\A e \in ends : e = end) /\ ToSectEnd(k) = end - v /\ end \in Int
        BY <2>4, <3>1
      <3>5. CASE Sym(k).sect = Sym(j).sect
        <4>1. Val(j) <= end
          BY <2>1, <3>5, ToSectEndExact
        <4>2. infos[v].size = Val(j) - v
          <5>1. v \in Addr /\ Val(j) \in Addr /\ v <= Val(j)
            BY <2>1, <3>2, InOrder
          <5>2. Minus(Val(j), v) = Val(j) - v
            BY <5>1, ArithExact
          <5> QED
            BY <3>1, <3>5, <5>2 DEF SizeUpTo
        <4> HIDE DEF end
        <4>3. \A e \in stops : Val(j) <= e
          BY <3>3, <3>4, <4>1
        <4> QED
          BY <3>3, <4>2, <4>3
      <3>6. CASE Sym(k).sect # Sym(j).sect
        <4>1. infos[v].size = end - v
          BY <3>1, <3>4, <3>6 DEF SizeUpTo
        <4>2. v + infos[v].size <= Val(j)
          BY <2>1, <3>1, <3>2, RunBound
        <4> HIDE DEF end
        <4>3. end <= Val(j)
          BY <2>1, <3>2, <3>4, <4>1, <4>2
        <4>4. \A e \in stops : end <= e
          <5> SUFFICES ASSUME NEW e \in stops PROVE end <= e
            OBVIOUS
          <5>1. CASE e \in ends
            BY <3>4, <5>1
          <5>2. CASE e \in above
            <6>1. Val(j) <= e /\ e \in Int
              BY <2>5, <3>3, <5>2
            <6> QED
              BY <3>2, <3>4, <4>3, <6>1
          <5> QED
            BY <5>1, <5>2
        <4> QED
          BY <3>4, <4>1, <4>4
      <3> QED
        BY <3>5, <3>6
    <2> QED
      BY <2>7, <2>8
  <1> QED
    BY <1>1, ContentsInvariant, PTL

\* Every relocation hangs on the one entry that contains it.
THEOREM AttachedWhereContained == Spec => []RelocsAttachedOnce
  <1>1. IInv /\ Contents => RelocsAttachedOnce
    <2> SUFFICES ASSUME IInv, Contents, pc = "ready", WellFormed(file),
                        NEW v \in Addr, Indexed(v), NEW s \in 1..Len(file.sects),
                        NEW r \in 1..Len(file.sects[s].relocs)
                 PROVE  /\ Places(v, s, r) # {} <=> Contains(v, s, r)
                        /\ \A j, k \in Places(v, s, r) : j = k
      BY DEF RelocsAttachedOnce, Places
    <2>1. AttachedRight(v, s, r)
      BY DEF Contents, AttachedSoFar
    <2> QED
      BY <2>1 DEF AttachedRight, Reached
  <1> QED
    BY <1>1, ContentsInvariant, PTL

-----------------------------------------------------------------------------
(* The index implements AddressMap.                                          *)

\* What Publish asks of the extents.
ExtentsRight ==
    WellFormed(file) => Extents \subseteq Abstract!Extent /\ Abstract!Disjoint(Extents)

\* The extents of a finished index are named and disjoint.
LEMMA ExtentsAreRight == IInv /\ Contents => ExtentsRight
  <1> SUFFICES ASSUME IInv, Contents, WellFormed(file)
               PROVE  Extents \subseteq Abstract!Extent /\ Abstract!Disjoint(Extents)
    BY DEF ExtentsRight
  <1>1. CASE pc # "ready"
    BY <1>1 DEF Extents, Abstract!Disjoint
  <1>2. CASE pc = "ready"
    <2>1. ASSUME NEW e \in Extents
          PROVE  \E v \in Addr : /\ v # 0 /\ Indexed(v) /\ infos[v].size # 0
                                 /\ e = [base |-> v, size |-> infos[v].size,
                                         names |-> Listed(infos[v].indices)]
      BY <1>2 DEF Extents
    <2>2. ASSUME NEW v \in Addr, Indexed(v)
          PROVE  infos[v].size \in Addr /\ infos[v].indices \in Seq(Nat)
      <3>1. infos[v] \in InfoType
        BY <2>2 DEF IInv, TypeOK, Indexed
      <3> QED
        BY <3>1 DEF InfoType
    <2>3. ASSUME NEW v \in Addr, Indexed(v)
          PROVE  Listed(infos[v].indices) \subseteq Nat /\ Listed(infos[v].indices) # {}
      <3>1. Listed(infos[v].indices) \subseteq Nat
        BY <2>2, <2>3 DEF Listed
      <3>2. Len(infos[v].indices) >= 1
        <4>1. CASE v = Val(Len(ssyms))
          <5>1. PICK k \in 1..Len(ssyms) : Val(k) = v
            BY <2>3 DEF IInv, OnlySymbolsIndexed
          <5>2. Len(ssyms) > 0
            BY <5>1, <1>2, InOrder
          <5>3. infos[v].indices = <<ssyms[Len(ssyms)]>>
            BY <1>2, <4>1, <5>2 DEF Contents, Entries, EntryOfTop
          <5> QED
            BY <5>3
        <4>2. CASE v # Val(Len(ssyms))
          <5>1. PICK k \in 1..Len(ssyms), j \in 1..Len(ssyms) :
                  FirstOfRun(k) /\ NextDistinct(k, j) /\ infos[v].indices = Aliases(k, j)
            BY <2>3, <4>2 DEF Contents, Entries, EntryOfRun
          <5>2. k < j /\ ssyms \in Seq(Nat)
            BY <1>2, <5>1, RunSpans DEF IInv, TypeOK
          <5>3. Len(Aliases(k, j)) = j - k
            BY <5>2, SubSeqProperties DEF Aliases
          <5> QED
            BY <1>2, <5>1, <5>2, <5>3, InOrder
        <4> QED
          BY <4>1, <4>2
      <3>3. infos[v].indices[1] \in Listed(infos[v].indices)
        BY <2>2, <2>3, <3>2 DEF Listed
      <3> QED
        BY <3>1, <3>3
    <2>4. Extents \subseteq Abstract!Extent
      <3> SUFFICES ASSUME NEW e \in Extents PROVE e \in Abstract!Extent
        OBVIOUS
      <3> QED
        BY <2>1, <2>2, <2>3 DEF Abstract!Extent
    <2>5. ASSUME NEW e \in Extents PROVE e.names # {}
      BY <2>1, <2>3
    <2>6. ASSUME NEW e \in Extents, NEW f \in Extents, NEW a \in Addr,
                 Abstract!Holds(e, a), Abstract!Holds(f, a)
          PROVE  e = f
      <3>1. PICK u \in Addr : /\ Indexed(u)
                              /\ e = [base |-> u, size |-> infos[u].size,
                                      names |-> Listed(infos[u].indices)]
        BY <2>1
      <3>2. PICK v \in Addr : /\ Indexed(v)
                              /\ f = [base |-> v, size |-> infos[v].size,
                                      names |-> Listed(infos[v].indices)]
        BY <2>1
      <3>3. /\ u \in Int /\ v \in Int /\ a \in Int
            /\ infos[u].size \in Int /\ infos[v].size \in Int
        BY <2>2, <3>1, <3>2, AddrInt
      <3>4. u <= a /\ a < u + infos[u].size /\ v <= a /\ a < v + infos[v].size
        BY <2>6, <3>1, <3>2 DEF Abstract!Holds
      <3>5. /\ u < v => u + infos[u].size <= v
            /\ v < u => v + infos[v].size <= u
        BY <3>1, <3>2 DEF IInv, OnlySymbolsIndexed, SizeBound
      <3>6. u = v
        BY <3>3, <3>4, <3>5
      <3> QED
        BY <3>1, <3>2, <3>6
    <2> QED
      BY <2>4, <2>5, <2>6 DEF Abstract!Disjoint
  <1> QED
    BY <1>1, <1>2

\* SymLookup answers as the map does: the search and the closure's test find the one extent
\* that holds the address.
LEMMA LookupIsQuery ==
    ASSUME IInv, Contents, WellFormed(file), NEW a \in Addr, SymLookup(a)
    PROVE  Abstract!Query(a)
  <1> DEFINE seen == IF answer = Nil THEN Nil
                     ELSE [addr |-> answer.addr, base |-> answer.base,
                           names |-> Listed(answer.names)]
  <1>1. pc = "ready" /\ pc' = "ready" /\ UNCHANGED <<file, ssyms, infos>>
    BY DEF SymLookup
  <1>2. Extents' = Extents
    BY <1>1 DEF Extents, Indexed, Listed
  <1>3. a \in Int /\ a \in Nat
    BY AddrInt
  <1>4. CASE \E k \in 1..Len(ssyms) :
               /\ Hits(k, a)
               /\ answer' = [addr |-> a, base |-> Val(k), names |-> infos[Val(k)].indices]
    <2>1. PICK k \in 1..Len(ssyms) :
               /\ Hits(k, a)
               /\ answer' = [addr |-> a, base |-> Val(k), names |-> infos[Val(k)].indices]
      BY <1>4
    <2> DEFINE v == Val(k)
               e == [base |-> v, size |-> infos[v].size, names |-> Listed(infos[v].indices)]
    <2>2. v \in Addr /\ Indexed(v)
      BY <1>1, InOrder DEF IInv, IndexedSoFar
    <2>3. /\ infos[v].size \in Nat /\ v \in Nat
          /\ Plus(v, infos[v].size) = v + infos[v].size
      BY <1>1, <2>2, EntryInSpace
    <2>4. v <= a /\ a < v + infos[v].size /\ v # 0
      BY <2>1, <2>3 DEF Hits, Found
    <2>5. infos[v].size # 0
      BY <1>3, <2>3, <2>4
    <2>6. e \in Extents
      BY <1>1, <2>2, <2>4, <2>5 DEF Extents
    <2>7. Abstract!Holds(e, a)
      BY <2>4 DEF Abstract!Holds
    <2>8. infos[v].indices \in Seq(Nat)
      <3>1. infos[v] \in InfoType
        BY <2>2 DEF IInv, TypeOK, Indexed
      <3> QED
        BY <3>1 DEF InfoType
    <2>9. answer' \in AnswerType
      BY <2>1, <2>2, <2>8 DEF AnswerType
    <2>10. seen' = [addr |-> a, base |-> e.base, names |-> e.names]
      <3>1. answer' # Nil
        BY <2>9, NilAssumption
      <3>2. Listed(answer.names)' = Listed(infos[v].indices)
        BY <2>1 DEF Listed
      <3> QED
        BY <2>1, <3>1, <3>2
    <2> HIDE DEF e
    <2> QED
      BY <1>1, <1>2, <2>6, <2>7, <2>10 DEF Abstract!Query
  <1>5. CASE /\ \A k \in 1..Len(ssyms) : ~Hits(k, a)
             /\ answer' = [addr |-> a, base |-> 0, names |-> <<>>]
    <2>1. \A e \in Extents : ~Abstract!Holds(e, a)
      <3> SUFFICES ASSUME NEW e \in Extents, Abstract!Holds(e, a) PROVE FALSE
        OBVIOUS
      <3>1. PICK v \in Addr : /\ v # 0 /\ Indexed(v)
                              /\ e = [base |-> v, size |-> infos[v].size,
                                      names |-> Listed(infos[v].indices)]
        BY <1>1 DEF Extents
      <3>2. infos[v].size \in Nat /\ Plus(v, infos[v].size) = v + infos[v].size
        BY <1>1, <3>1, EntryInSpace
      <3>3. v <= a /\ a < v + infos[v].size
        BY <3>1 DEF Abstract!Holds
      <3>4. PICK h \in 1..Len(ssyms) : Val(h) = v
        BY <3>1 DEF IInv, OnlySymbolsIndexed
      <3>5. PICK k \in 1..Len(ssyms) : Found(k, a)
        BY <1>1, <1>3, <3>3, <3>4, SearchFinds
      <3>6. v = Val(k)
        BY <1>1, <1>3, <3>1, <3>2, <3>3, <3>5, SearchFindsHolder
      <3>7. Hits(k, a)
        BY <3>1, <3>2, <3>3, <3>5, <3>6 DEF Hits
      <3> QED
        BY <1>5, <3>7
    <2>2. seen' = [addr |-> a, base |-> 0, names |-> {}]
      <3>1. answer' \in AnswerType
        BY <1>5, WAssumption DEF AnswerType, Addr
      <3>2. answer' # Nil
        BY <3>1, NilAssumption
      <3>3. Listed(answer.names)' = {}
        BY <1>5 DEF Listed
      <3> QED
        BY <1>5, <3>2, <3>3
    <2> QED
      BY <1>1, <1>2, <2>1, <2>2 DEF Abstract!Query
  <1> QED
    BY <1>4, <1>5 DEF SymLookup

\* A step of the loops publishes the extents or is not seen.
LEMMA BuildIsPublish ==
    ASSUME IInv, WellFormed(file), ExtentsRight', Build
    PROVE  Abstract!Publish \/ UNCHANGED Abstract!vars
  <1>1. pc # "ready" /\ UNCHANGED <<file, answer>>
    BY DEF Build, SortSymbols, GroupRun, GroupAliasesOfLast, GroupLast, AttachReloc, SkipReloc,
           NextSection, Finish, AtReloc
  <1>2. Extents = {}
    BY <1>1 DEF Extents
  <1>3. WellFormed(file)'
    BY <1>1 DEF WellFormed, Sectional, HasSect, SectEnd
  <1>4. CASE pc' # "ready"
    <2>1. Extents' = {}
      BY <1>4 DEF Extents
    <2> QED
      BY <1>1, <1>2, <1>4, <2>1 DEF Abstract!vars
  <1>5. CASE pc' = "ready"
    <2>1. Extents' \subseteq Abstract!Extent /\ Abstract!Disjoint(Extents')
      BY <1>3 DEF ExtentsRight, Abstract!Extent, Abstract!Disjoint, Abstract!Holds
    <2> QED
      BY <1>1, <1>5, <2>1 DEF Abstract!Publish
  <1> QED
    BY <1>4, <1>5

\* For a well-formed file the loops, the unstable sort, the search and the closure together are
\* a map of disjoint, named extents.
THEOREM IndexImplementsMap == Spec /\ WellFormed(file) => ImplementsAddressMap
  <1>1. Init => Abstract!Init
    BY DEF Init, Extents, Abstract!Init
  <1>2. IInv /\ Contents /\ WellFormed(file) /\ ExtentsRight' /\ [Next]_vars
          => [Abstract!Next]_Abstract!vars
    <2> SUFFICES ASSUME IInv, Contents, WellFormed(file), ExtentsRight', [Next]_vars
                 PROVE  [Abstract!Next]_Abstract!vars
      OBVIOUS
    <2>1. CASE Build
      BY <2>1, BuildIsPublish DEF Abstract!Next
    <2>2. CASE \E a \in Addr : SymLookup(a)
      <3>1. PICK a \in Addr : SymLookup(a)
        BY <2>2
      <3>2. Abstract!Query(a)
        BY <3>1, LookupIsQuery
      <3> QED
        BY <3>2 DEF Abstract!Next
    <2>3. CASE UNCHANGED vars
      BY <2>3 DEF vars, Abstract!vars, Extents, Indexed, Listed
    <2> QED
      BY <2>1, <2>2, <2>3 DEF Next
  <1>3. WellFormed(file) /\ [Next]_vars => WellFormed(file)'
    <2>1. [Next]_vars => file' = file
      BY DEF Next, Build, SortSymbols, GroupRun, GroupAliasesOfLast, GroupLast, AttachReloc,
             SkipReloc, NextSection, Finish, SymLookup, vars
    <2>2. file' = file => (WellFormed(file)' <=> WellFormed(file))
      BY DEF WellFormed, Sectional, HasSect, SectEnd
    <2> QED
      BY <2>1, <2>2
  <1> QED
    BY <1>1, <1>2, <1>3, ContentsInvariant, ExtentsAreRight, PTL
       DEF Spec, ImplementsAddressMap, Abstract!Spec

=================================================================================
