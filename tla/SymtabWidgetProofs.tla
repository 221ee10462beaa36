--------------------------- MODULE SymtabWidgetProofs ---------------------------
(***************************************************************************)
(* Proofs about SymtabWidget, for every set of files and names: whatever   *)
(* is clicked, filtered and selected, and whichever rows Qt moves the      *)
(* selection to, the bytes on display are those of the selected symbol in  *)
(* the view that the checked button names.                                 *)
(***************************************************************************)
EXTENDS SymtabWidget, TLAPS

\* A selected row is the data widget's symbol, also when the view stays empty.
SelectedIsHeld == current # None => sym = current

TabInv ==
    /\ file \in Files
    /\ TypeOK
    /\ SelectedIsHeld
    /\ SelectedIsShown
    /\ NothingElseShown
    /\ ButtonMatchesView

\* An element of a sequence is of the sequence's kind.
LEMMA ElementOf == ASSUME NEW S, NEW s \in Seq(S), NEW k \in 1..Len(s) PROVE s[k] \in S
  OBVIOUS

\* A section number is valid when there is such a section.
LEMMA ValidSectFacts ==
    ASSUME file \in Files, NEW s \in Symbol
    PROVE  ValidSect(s) <=> s.sect \in 1..Len(file.sects)
<1>1. s.sect \in 0..255 /\ Len(file.sects) \in Nat
  BY TabAssumption DEF Symbol
<1>2. \A n \in 0..255 : \A l \in Nat : 0 < n /\ n <= l <=> n \in 1..l
  OBVIOUS
<1> QED
  BY <1>1, <1>2, Zenon DEF ValidSect

\* A row is a number and its symbol a Symbol; the view of a section that exists has a name.
LEMMA RowFacts ==
    ASSUME file \in Files
    PROVE  /\ \A r \in Rows : r # None /\ file.syms[r] \in Symbol
           /\ \A s \in Symbol : ValidSect(s) => file.sects[s.sect].view \in (Labels \ {"DwarfType"}) \cup {"EHFrame"}
           /\ "" \notin Labels \cup {"EHFrame"}
           /\ None \notin Labels
<1>1. file.syms \in Seq(Symbol) /\ file.sects \in Seq(Section)
  BY TabAssumption
<1>2. \A r \in Rows : r # None
  BY <1>1, NoneAssumption DEF Rows
<1>3. \A r \in Rows : file.syms[r] \in Symbol
  BY <1>1, ElementOf DEF Rows
<1>4. ASSUME NEW s \in Symbol, ValidSect(s)
      PROVE  file.sects[s.sect].view \in (Labels \ {"DwarfType"}) \cup {"EHFrame"}
  <2>1. s.sect \in 1..Len(file.sects)
    BY <1>4, ValidSectFacts
  <2>2. file.sects[s.sect] \in Section
    BY <1>1, <2>1, ElementOf
  <2> QED
    BY <2>2 DEF Section
<1>5. "" \notin Labels \cup {"EHFrame"} /\ None \notin Labels
  BY NoneAssumption DEF Labels
<1> QED
  BY <1>2, <1>3, <1>4, <1>5

\* guessSymType finds a type exactly for the symbols of a section that exists.
LEMMA GuessFacts ==
    ASSUME file \in Files, NEW r \in Rows
    PROVE  /\ GuessSymType(r) \in Labels \cup {"EHFrame", ""}
           /\ GuessSymType(r) = "" <=> ~(InSection(file.syms[r]) /\ ValidSect(file.syms[r]))
<1>1. file.syms[r] \in Symbol
  BY RowFacts
<1>2. ValidSect(file.syms[r]) => file.sects[file.syms[r].sect].view \in Labels \cup {"EHFrame"}
  BY <1>1, RowFacts
<1> QED
  BY <1>2, RowFacts DEF GuessSymType

\* A model, once made, is of the symbol and view type asked for.
LEMMA ModelFacts ==
    ASSUME file \in Files, NEW r \in Rows, NEW typ \in Labels, HasBytes(r)
    PROVE  /\ NewSymbolModel(r, typ) # None <=> (~NoModel(file.syms[r], typ) /\ file.syms[r].bytes = "all")
           /\ NewSymbolModel(r, typ) # None =>
                NewSymbolModel(r, typ) \in [sym: {q \in Rows : InSection(file.syms[q])}, typ: Labels]
           /\ NewSymbolModel(r, typ) # None =>
                NewSymbolModel(r, typ).sym = r /\ NewSymbolModel(r, typ).typ = typ
<1>1. InSection(file.syms[r]) /\ r \in Nat
  BY DEF HasBytes, Rows
<1>2. [sym |-> r, typ |-> typ] \in [sym: {q \in Rows : InSection(file.syms[q])}, typ: Labels]
  BY <1>1
<1>3. [sym |-> r, typ |-> typ] # None
  <2>1. [sym |-> r, typ |-> typ] \in [sym: Nat, typ: Labels]
    BY <1>1
  <2> QED
    BY <2>1, NoneAssumption
<1>4. [sym |-> r, typ |-> typ].sym = r /\ [sym |-> r, typ |-> typ].typ = typ
  OBVIOUS
<1> QED
  BY <1>2, <1>3, <1>4 DEF NewSymbolModel

-----------------------------------------------------------------------------
\* A change of a filter touches neither the selection nor the data.
LEMMA FiltersKeep ==
    ASSUME TabInv,
           \/ \E c \in SymChars : ClickChar(c)
           \/ ClickExtern
           \/ \E names \in SUBSET Names : EditName(names)
    PROVE  TabInv'
<1>1. UNCHANGED <<file, current, sym, checked, shown, crashed>>
  BY DEF ClickChar, ClickExtern, EditName, data
<1>2. /\ charButton' \in SymChars /\ filterChar' \in SymChars \cup {None}
      /\ (filterChar' = None \/ filterChar' = charButton')
      /\ externOnly' \in BOOLEAN /\ nameFilter' \subseteq Names
  BY DEF ClickChar, ClickExtern, EditName, TabInv, TypeOK
<1>3. TypeOK'
  BY <1>1, <1>2 DEF TabInv, TypeOK, Rows, InSection
<1>4. SelectedIsHeld' /\ SelectedIsShown' /\ NothingElseShown' /\ ButtonMatchesView'
  BY <1>1 DEF TabInv, SelectedIsHeld, SelectedIsShown, NothingElseShown, ButtonMatchesView,
     InSection, ValidSect, NoModel
<1> QED
  BY <1>1, <1>3, <1>4 DEF TabInv

\* The selection moves to a row: the callbacks leave the data of that row.
LEMMA SelectKeeps ==
    ASSUME TabInv, NEW r \in Rows, CurrentChanged(r), UNCHANGED <<file, filters>>
    PROVE  TabInv'
<1> DEFINE typ == GuessSymType(r)
<1>1. /\ file \in Files /\ r # None /\ None \notin Labels
      /\ current' = r /\ sym' = r /\ file' = file
      /\ checked' = IF typ \in Labels THEN typ ELSE checked
      /\ SetModel(r, typ)
  BY RowFacts DEF TabInv, CurrentChanged, SetSymbol, CheckButton
<1>2. /\ typ \in Labels \cup {"EHFrame", ""} /\ "" \notin Labels
      /\ typ = "" <=> ~(InSection(file.syms[r]) /\ ValidSect(file.syms[r]))
  BY <1>1, GuessFacts, RowFacts
<1> HIDE DEF typ
<1>3. CASE typ = ""
  <2>1. shown' = None /\ crashed' = crashed /\ checked' = checked
    BY <1>1, <1>2, <1>3 DEF SetModel
  <2>2. TypeOK'
    BY <1>1, <2>1 DEF TabInv, TypeOK, Rows, InSection, filters
  <2>3. SelectedIsShown'
    BY <1>1, <1>2, <1>3, <2>1 DEF SelectedIsShown, InSection, ValidSect
  <2> QED
    BY <1>1, <2>1, <2>2, <2>3 DEF TabInv, SelectedIsHeld, NothingElseShown, ButtonMatchesView
<1>4. CASE typ # "" /\ Panics(r, typ)
  <2>1. shown' = shown /\ crashed' = TRUE
    BY <1>1, <1>2, <1>4 DEF SetModel, Display, HasBytes
  <2>2. TypeOK'
    BY <1>1, <2>1 DEF TabInv, TypeOK, Rows, InSection, filters
  <2> QED
    BY <1>1, <2>1, <2>2 DEF TabInv, SelectedIsHeld, SelectedIsShown, NothingElseShown, ButtonMatchesView
<1>5. CASE typ # "" /\ ~Panics(r, typ)
  <2>1. typ \in Labels /\ HasBytes(r)
    BY <1>1, <1>2, <1>5 DEF Panics, HasBytes
  <2>2. shown' = NewSymbolModel(r, typ) /\ crashed' = crashed /\ checked' = typ
    BY <1>1, <1>5, <2>1 DEF SetModel, Display
  <2>3. /\ shown' # None <=> (~NoModel(file.syms[r], typ) /\ file.syms[r].bytes = "all")
        /\ shown' # None => shown' \in [sym: {q \in Rows : InSection(file.syms[q])}, typ: Labels]
        /\ shown' # None => shown'.sym = r /\ shown'.typ = typ
    BY <1>1, <2>1, <2>2, ModelFacts
  <2>4. TypeOK'
    BY <1>1, <2>1, <2>2, <2>3 DEF TabInv, TypeOK, Rows, InSection, filters
  <2>5. SelectedIsShown'
    BY <1>1, <2>2, <2>3 DEF SelectedIsShown, InSection, ValidSect, NoModel
  <2> QED
    BY <1>1, <2>2, <2>3, <2>4, <2>5 DEF TabInv, SelectedIsHeld, NothingElseShown, ButtonMatchesView
<1> QED
  BY <1>3, <1>4, <1>5

\* Nothing is selected any more: the view is emptied.
LEMMA DeselectKeeps ==
    ASSUME TabInv, CurrentChanged(None), UNCHANGED <<file, filters>>
    PROVE  TabInv'
<1>1. current' = None /\ sym' = sym /\ checked' = checked /\ file' = file
  BY DEF CurrentChanged
<1>2. shown' = None /\ crashed' = crashed
  BY DEF CurrentChanged, SetModel
<1>3. TypeOK'
  BY <1>1, <1>2 DEF TabInv, TypeOK, Rows, InSection, filters
<1> QED
  BY <1>1, <1>2, <1>3 DEF TabInv, SelectedIsHeld, SelectedIsShown, NothingElseShown, ButtonMatchesView

\* A click on a view button acts on the symbol the data widget holds.
LEMMA ClickViewKeeps == ASSUME TabInv, NEW typ \in Labels, ClickView(typ) PROVE TabInv'
<1>1. /\ file \in Files /\ file' = file /\ current' = current /\ sym' = sym /\ checked' = typ
      /\ UNCHANGED filters /\ SetModel(sym, typ) /\ typ # ""
      /\ sym \in Rows \cup {None} /\ (current # None => sym = current)
  BY RowFacts DEF TabInv, ClickView, TypeOK, SelectedIsHeld
<1>2. CASE ~HasBytes(sym)
  <2>1. shown' = shown /\ crashed' = crashed
    BY <1>1, <1>2 DEF SetModel
  <2>2. ~crashed => shown = None
    <3>1. ASSUME ~crashed, shown # None PROVE FALSE
      <4>1. shown.sym = sym /\ shown.sym \in Rows /\ InSection(file.syms[shown.sym])
        BY <3>1 DEF TabInv, TypeOK, NothingElseShown
      <4>2. sym # None
        BY <1>1, <4>1, RowFacts
      <4> QED
        BY <1>2, <4>1, <4>2 DEF HasBytes
    <3> QED
      BY <3>1
  <2>3. TypeOK'
    BY <1>1, <2>1 DEF TabInv, TypeOK, Rows, InSection, filters
  <2>4. SelectedIsShown'
    BY <1>1, <1>2, <2>1, <2>2 DEF SelectedIsShown, HasBytes, InSection
  <2> QED
    BY <1>1, <2>1, <2>2, <2>3, <2>4 DEF TabInv, SelectedIsHeld, NothingElseShown, ButtonMatchesView
<1>3. CASE HasBytes(sym) /\ Panics(sym, typ)
  <2>1. shown' = shown /\ crashed' = TRUE
    BY <1>1, <1>3 DEF SetModel, Display
  <2>2. TypeOK'
    BY <1>1, <2>1 DEF TabInv, TypeOK, Rows, InSection, filters
  <2> QED
    BY <1>1, <2>1, <2>2 DEF TabInv, SelectedIsHeld, SelectedIsShown, NothingElseShown, ButtonMatchesView
<1>4. CASE HasBytes(sym) /\ ~Panics(sym, typ)
  <2>1. sym \in Rows /\ sym # None
    BY <1>1, <1>4 DEF HasBytes
  <2>2. shown' = NewSymbolModel(sym, typ) /\ crashed' = crashed
    BY <1>1, <1>4 DEF SetModel, Display
  <2>3. /\ shown' # None <=> (~NoModel(file.syms[sym], typ) /\ file.syms[sym].bytes = "all")
        /\ shown' # None => shown' \in [sym: {q \in Rows : InSection(file.syms[q])}, typ: Labels]
        /\ shown' # None => shown'.sym = sym /\ shown'.typ = typ
    BY <1>1, <1>4, <2>1, <2>2, ModelFacts
  <2>4. TypeOK'
    BY <1>1, <2>2, <2>3 DEF TabInv, TypeOK, Rows, InSection, filters
  <2>5. SelectedIsShown'
    BY <1>1, <2>2, <2>3 DEF SelectedIsShown, InSection, ValidSect, NoModel
  <2> QED
    BY <1>1, <2>2, <2>3, <2>4, <2>5 DEF TabInv, SelectedIsHeld, NothingElseShown, ButtonMatchesView
<1> QED
  BY <1>2, <1>3, <1>4

\* The invariant that the theorems of this module follow from.
THEOREM TabInvariant == Spec => []TabInv
<1>1. Init => TabInv
  <2> SUFFICES ASSUME Init PROVE TabInv
    OBVIOUS
  <2>1. TypeOK
    BY DEF Init, TypeOK, SymChars
  <2> QED
    BY <2>1 DEF Init, TabInv, SelectedIsHeld, SelectedIsShown, NothingElseShown, ButtonMatchesView
<1>2. TabInv /\ [Next]_vars => TabInv'
  <2> SUFFICES ASSUME TabInv, [Next]_vars PROVE TabInv'
    OBVIOUS
  <2>1. ASSUME NEW r \in Visible, Select(r) PROVE TabInv'
    BY <2>1, SelectKeeps DEF Select, Visible
  <2>2. CASE MoveCurrent
    <3>1. PICK r \in Rows \cup {None} : CurrentChanged(r)
      BY <2>2 DEF MoveCurrent
    <3> QED
      BY <2>2, <3>1, SelectKeeps, DeselectKeeps DEF MoveCurrent
  <2>3. CASE UNCHANGED vars
    <3>1. /\ UNCHANGED <<file, current, sym, checked, shown, crashed>>
          /\ UNCHANGED <<charButton, filterChar, externOnly, nameFilter>>
      BY <2>3 DEF vars, filters, data
    <3>2. TypeOK'
      BY <3>1 DEF TabInv, TypeOK, Rows, InSection
    <3>3. SelectedIsHeld' /\ SelectedIsShown' /\ NothingElseShown' /\ ButtonMatchesView'
      BY <3>1 DEF TabInv, SelectedIsHeld, SelectedIsShown, NothingElseShown, ButtonMatchesView,
         InSection, ValidSect, NoModel
    <3> QED
      BY <3>1, <3>2, <3>3 DEF TabInv
  <2> QED
    BY <2>1, <2>2, <2>3, FiltersKeep, ClickViewKeeps DEF Next
<1> QED
  BY <1>1, <1>2, PTL DEF Spec

\* The tab's widgets hold what they are made for; a model is only of a symbol with bytes.
THEOREM TypeCorrect == Spec => []TypeOK
<1>1. TabInv => TypeOK
  BY DEF TabInv
<1> QED
  BY <1>1, TabInvariant, PTL

\* The bytes below the table are those of the selected symbol, and never those of a symbol
\* that is not the one the buttons act on.
THEOREM DataFollowsSelection == Spec => []ShowsSelection
<1>1. TabInv => ShowsSelection
  BY DEF TabInv, ShowsSelection
<1> QED
  BY <1>1, TabInvariant, PTL

\* The checked button and the view on display agree after every click and selection.
THEOREM ButtonFollowsView == Spec => []ButtonMatchesView
<1>1. TabInv => ButtonMatchesView
  BY DEF TabInv
<1> QED
  BY <1>1, TabInvariant, PTL

-----------------------------------------------------------------------------
\* A section has one of three letters.
LEMMA SectionLetter ==
    ASSUME file \in Files, NEW s \in Symbol, ValidSect(s)
    PROVE  file.sects[s.sect].letter \in {"T", "D", "S"}
<1>1. file.sects \in Seq(Section) /\ s.sect \in 1..Len(file.sects)
  BY ValidSectFacts, TabAssumption
<1>2. file.sects[s.sect] \in Section
  BY <1>1, ElementOf
<1> QED
  BY <1>2 DEF Section

\* The letters of toSymChar, each by the condition its symbols satisfy.
LEMMA LetterFacts ==
    ASSUME file \in Files, NEW s \in Symbol
    PROVE  LET sectLetter == file.sects[s.sect].letter
               in == ~s.stab /\ s.type = "N_SECT"
           IN /\ Letter(s) \in {"-", "?", "U", "C", "A", "I", "B", "T", "D", "S"}
              /\ Letter(s) = "-" <=> s.stab
              /\ Letter(s) = "?" <=> ~s.stab /\ s.type = "unknown"
              /\ Letter(s) = "U" <=> ~s.stab /\ (s.type = "N_PBUD" \/ (s.type = "N_UNDF" /\ s.zero))
              /\ Letter(s) = "C" <=> ~s.stab /\ s.type = "N_UNDF" /\ ~s.zero
              /\ Letter(s) = "A" <=> ~s.stab /\ s.type = "N_ABS"
              /\ Letter(s) = "I" <=> ~s.stab /\ s.type = "N_INDR"
              /\ Letter(s) = "B" <=> in /\ s.sect = 0
              /\ Letter(s) = "T" <=> in /\ ValidSect(s) /\ sectLetter = "T"
              /\ Letter(s) = "D" <=> in /\ ValidSect(s) /\ sectLetter = "D"
              /\ Letter(s) = "S" <=> in /\ s.sect # 0 /\ (ValidSect(s) => sectLetter = "S")
<1>1. s.type \in SymTypes /\ s.stab \in BOOLEAN /\ s.zero \in BOOLEAN /\ s.sect \in 0..255
  BY DEF Symbol
<1>2. ValidSect(s) => s.sect # 0 /\ file.sects[s.sect].letter \in {"T", "D", "S"}
  BY <1>1, SectionLetter DEF ValidSect
<1> QED
  BY <1>1, <1>2 DEF Letter, SymTypes

\* The filters accept exactly the symbols that the letter on the button stands for, and
\* "Extern Only" leaves exactly the external ones among those that have a letter.
THEOREM FiltersMeanLetters == Spec => []FilterMeaning
<1>1. TabInv => FilterMeaning
  <2> SUFFICES ASSUME TabInv PROVE FilterMeaning
    OBVIOUS
  <2> DEFINE in(s) == ~s.stab /\ s.type = "N_SECT"
             section(s, l) == s.sect \in 1..Len(file.sects) /\ file.sects[s.sect].letter = l
             class(s) ==
               [ U |-> ~s.stab /\ (s.type = "N_PBUD" \/ (s.type = "N_UNDF" /\ s.zero)),
                 C |-> ~s.stab /\ s.type = "N_UNDF" /\ ~s.zero,
                 A |-> ~s.stab /\ s.type = "N_ABS",
                 I |-> ~s.stab /\ s.type = "N_INDR",
                 B |-> in(s) /\ s.sect = 0,
                 T |-> in(s) /\ section(s, "T"),
                 D |-> in(s) /\ section(s, "D"),
                 S |-> in(s) /\ s.sect # 0 /\ ~section(s, "T") /\ ~section(s, "D") ]
             any(s) == \E l \in DOMAIN class(s) : class(s)[l]
             Class == {"U", "C", "A", "I", "B", "T", "D", "S"}
  <2>1. file \in Files /\ filterChar \in SymChars \cup {None}
    BY DEF TabInv, TypeOK
  <2>2. ASSUME NEW s \in Symbol, NEW l \in Class PROVE class(s)[l] <=> Letter(s) = l
    <3>1. ValidSect(s) <=> s.sect \in 1..Len(file.sects)
      BY <2>1, ValidSectFacts
    <3>2. ValidSect(s) => file.sects[s.sect].letter \in {"T", "D", "S"}
      BY <2>1, SectionLetter
    <3>3. /\ class(s).U <=> Letter(s) = "U"
          /\ class(s).C <=> Letter(s) = "C"
          /\ class(s).A <=> Letter(s) = "A"
          /\ class(s).I <=> Letter(s) = "I"
          /\ class(s).B <=> Letter(s) = "B"
      BY <2>1, LetterFacts
    <3>4. /\ class(s).T <=> Letter(s) = "T"
          /\ class(s).D <=> Letter(s) = "D"
          /\ class(s).S <=> Letter(s) = "S"
      BY <2>1, <3>1, <3>2, LetterFacts
    <3> HIDE DEF class
    <3> QED
      BY <3>3, <3>4
  <2>3. ASSUME NEW s \in Symbol PROVE any(s) <=> Letter(s) \notin {"-", "?"}
    <3>1. DOMAIN class(s) = Class
      OBVIOUS
    <3>2. Letter(s) \in Class \cup {"-", "?"} /\ Class \cap {"-", "?"} = {}
      BY <2>1, LetterFacts
    <3> HIDE DEF class, Class
    <3> QED
      BY <2>2, <3>1, <3>2
  <2> HIDE DEF class
  <2>4. ASSUME NEW r \in Rows
        PROVE  LET s == file.syms[r] IN
               r \in Visible <=>
                 /\ s.name \in nameFilter
                 /\ externOnly => s.ext /\ any(s)
                 /\ CASE filterChar \in {None, "*"} -> ~s.stab
                      [] filterChar = "-" -> s.stab
                      [] OTHER -> class(s)[filterChar]
    <3> DEFINE s == file.syms[r]
    <3>1. s \in Symbol
      BY <2>1, RowFacts
    <3>2. (Letter(s) = "-" <=> s.stab) /\ s.stab \in BOOLEAN
      BY <2>1, <3>1, LetterFacts DEF Symbol
    <3>3. r \in Visible <=>
            /\ externOnly => s.ext /\ Letter(s) \notin {"-", "?"}
            /\ IF filterChar \in {None, "*"} THEN Letter(s) # "-" ELSE Letter(s) = filterChar
            /\ s.name \in nameFilter
      BY DEF Visible, Accepts, IsUpper
    <3>4. filterChar \in {None, "*", "-"} \cup Class
      BY <2>1 DEF SymChars
    <3>5. any(s) <=> Letter(s) \notin {"-", "?"}
      BY <2>3, <3>1
    <3>6. filterChar \in Class => (class(s)[filterChar] <=> Letter(s) = filterChar)
      BY <2>2, <3>1
    <3> HIDE DEF s, any
    <3>7. "-" \notin {None, "*"} /\ Class \cap {None, "*", "-"} = {}
      BY NoneAssumption DEF SymChars
    <3>8. CASE filterChar \in {None, "*"}
      <4>1. (CASE filterChar \in {None, "*"} -> ~s.stab
               [] filterChar = "-" -> s.stab
               [] OTHER -> class(s)[filterChar]) = ~s.stab
        BY <3>7, <3>8
      <4>2. r \in Visible <=> (externOnly => s.ext /\ any(s)) /\ ~s.stab /\ s.name \in nameFilter
        BY <3>2, <3>3, <3>5, <3>8
      <4> QED
        BY <4>1, <4>2 DEF s
    <3>9. CASE filterChar = "-"
      <4>1. (CASE filterChar \in {None, "*"} -> ~s.stab
               [] filterChar = "-" -> s.stab
               [] OTHER -> class(s)[filterChar]) = s.stab
        BY <3>7, <3>9
      <4>2. filterChar \notin {None, "*"}
        BY <3>7, <3>9
      <4>3. r \in Visible <=> (externOnly => s.ext /\ any(s)) /\ s.stab /\ s.name \in nameFilter
        BY <3>2, <3>3, <3>5, <3>9, <4>2
      <4> QED
        BY <4>1, <4>3 DEF s
    <3>10. CASE filterChar \in Class
      BY <3>3, <3>5, <3>6, <3>7, <3>10 DEF s
    <3> QED
      BY <3>4, <3>8, <3>9, <3>10
  <2> QED
    BY <2>4 DEF FilterMeaning, class
<1> QED
  BY <1>1, TabInvariant, PTL

-----------------------------------------------------------------------------
\* A callback that asks for a view dies only of an __eh_frame symbol, or of the table.
LEMMA DeathOfView ==
    ASSUME file \in Files, NEW r \in Rows, NEW typ \in Labels \cup {"EHFrame", ""},
           SetModel(r, typ), ~crashed, crashed'
    PROVE  /\ InSection(file.syms[r]) /\ typ # ""
           /\ typ \in Labels => TableDies(file.syms[r], typ)
<1>1. typ # "" /\ HasBytes(r) /\ Display(r, typ)
  BY DEF SetModel
<1>2. Panics(r, typ)
  BY <1>1 DEF Display
<1> QED
  BY <1>1, <1>2 DEF HasBytes, Panics

\* The program dies only of the symbol the view buttons act on, of its being in an
\* __eh_frame section or of the table of the checked view; no filter, no other symbol
\* and no other view kills it.
THEOREM DiesOnlyOfOddSymbols == Spec => []CrashesOnlyOnOddSymbols
<1>1. Init => CrashesOnlyOnOddSymbols
  BY DEF Init, CrashesOnlyOnOddSymbols
<1>2. TabInv /\ CrashesOnlyOnOddSymbols /\ [Next]_vars => CrashesOnlyOnOddSymbols'
  <2> SUFFICES ASSUME TabInv, CrashesOnlyOnOddSymbols, [Next]_vars
               PROVE  CrashesOnlyOnOddSymbols'
    OBVIOUS
  <2>1. /\ file \in Files /\ sym \in Rows \cup {None} /\ crashed \in BOOLEAN
        /\ current # None => sym = current
    BY DEF TabInv, TypeOK, SelectedIsHeld
  <2>2. ASSUME UNCHANGED <<file, current, sym, checked, crashed>>
        PROVE  CrashesOnlyOnOddSymbols'
    BY <2>2 DEF CrashesOnlyOnOddSymbols, GuessSymType, InSection, ValidSect, TableDies, NoModel
  <2>3. ASSUME ~crashed, ~crashed' PROVE CrashesOnlyOnOddSymbols'
    BY <2>3 DEF CrashesOnlyOnOddSymbols
  <2>4. ASSUME NEW r \in Rows, CurrentChanged(r), file' = file, ~crashed, crashed'
        PROVE  CrashesOnlyOnOddSymbols'
    <3> DEFINE typ == GuessSymType(r)
    <3>1. r # None /\ current' = r /\ SetSymbol(r)
      BY <2>1, <2>4, RowFacts DEF CurrentChanged
    <3>2. /\ sym' = r /\ SetModel(r, typ)
          /\ checked' = IF typ \in Labels THEN typ ELSE checked
      BY <3>1 DEF SetSymbol, CheckButton
    <3>3. typ \in Labels \cup {"EHFrame", ""} /\ None \notin Labels
      BY <2>1, GuessFacts, RowFacts
    <3>4. typ' = typ
      BY <2>4 DEF GuessSymType, InSection, ValidSect
    <3> HIDE DEF typ
    <3>5. /\ InSection(file.syms[r]) /\ typ # ""
          /\ typ \in Labels => TableDies(file.syms[r], typ)
      BY <2>1, <2>4, <3>2, <3>3, DeathOfView
    <3>6. typ # "EHFrame" => checked' # None /\ TableDies(file.syms[r], checked')
      BY <3>2, <3>3, <3>5
    <3>7. /\ InSection(file.syms[r])' /\ GuessSymType(r)' = typ
          /\ TableDies(file.syms[r], checked)' <=> TableDies(file.syms[r], checked')
      BY <2>4, <3>4, <3>5 DEF InSection, TableDies, NoModel, ValidSect, typ
    <3> QED
      BY <3>1, <3>2, <3>6, <3>7 DEF CrashesOnlyOnOddSymbols
  <2>5. ASSUME NEW r \in Rows \cup {None}, CurrentChanged(r), file' = file, ~crashed
        PROVE  CrashesOnlyOnOddSymbols'
    <3>1. CASE r = None
      <4>1. crashed' = crashed
        BY <2>5, <3>1 DEF CurrentChanged, SetModel
      <4> QED
        BY <2>3, <2>5, <4>1
    <3>2. CASE r \in Rows
      BY <2>3, <2>4, <2>5, <3>2
    <3> QED
      BY <3>1, <3>2
  <2>6. ASSUME NEW typ \in Labels, ClickView(typ), ~crashed, crashed'
        PROVE  CrashesOnlyOnOddSymbols'
    <3>1. /\ UNCHANGED <<file, current, sym>> /\ checked' = typ /\ SetModel(sym, typ)
          /\ typ # "" /\ typ # None
      BY <2>1, <2>6, RowFacts DEF ClickView, Labels
    <3>2. sym # None /\ sym \in Rows
      BY <2>1, <2>6, <3>1 DEF SetModel, HasBytes
    <3>3. InSection(file.syms[sym]) /\ TableDies(file.syms[sym], typ)
      BY <2>1, <2>6, <3>1, <3>2, DeathOfView
    <3>4. InSection(file.syms[sym])' /\ TableDies(file.syms[sym], checked)'
      BY <3>1, <3>3 DEF InSection, TableDies, NoModel, ValidSect
    <3> QED
      BY <2>1, <3>1, <3>2, <3>4 DEF CrashesOnlyOnOddSymbols
  <2>7. ASSUME NEW r \in Visible, Select(r) PROVE CrashesOnlyOnOddSymbols'
    BY <2>5, <2>7 DEF Select, Visible, Settled
  <2>8. CASE MoveCurrent
    BY <2>5, <2>8 DEF MoveCurrent
  <2>9. ASSUME NEW typ \in Labels, ClickView(typ) PROVE CrashesOnlyOnOddSymbols'
    <3>1. ~crashed
      BY <2>9 DEF ClickView, Settled
    <3> QED
      BY <2>3, <2>6, <2>9, <3>1
  <2>10. CASE \/ \E c \in SymChars : ClickChar(c)
              \/ ClickExtern
              \/ \E names \in SUBSET Names : EditName(names)
    BY <2>2, <2>10 DEF ClickChar, ClickExtern, EditName, data
  <2>11. CASE UNCHANGED vars
    BY <2>2, <2>11 DEF vars, data
  <2> QED
    BY <2>7, <2>8, <2>9, <2>10, <2>11 DEF Next
<1> QED
  BY <1>1, <1>2, TabInvariant, PTL DEF Spec

=================================================================================
