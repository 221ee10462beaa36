------------------------------ MODULE MCEHFrame ------------------------------
(***************************************************************************)
(* Small instances of EHFrame for TLC: what a compiler writes into an      *)
(* __eh_frame section, laid out row by row, and what is left when such a   *)
(* section is damaged.                                                     *)
(***************************************************************************)
EXTENDS EHFormat, SequencesExt, FiniteSets

\* Recognisable bytes of a pointer.
PointerBytes(n) == [k \in 1..n |-> 16 + k]

Width(enc, ptr) ==
    CASE enc = Omit -> 0
      [] enc % 16 = 0 -> ptr
      [] enc % 16 \in {1, 9} -> 1
      [] enc % 16 \in {2, 10} -> 2
      [] enc % 16 \in {3, 11} -> 4
      [] enc % 16 \in {4, 12} -> 8

Field(name, bytes) == [name |-> name, bytes |-> bytes]
Opt(b, fields) == IF b THEN fields ELSE <<>>

AugData(c, ptr) ==
    FlattenSeq([k \in 1..Len(c.aug) |->
        CASE c.aug[k] = P -> <<Field("Data_Personlity_Encoding", <<c.penc>>),
                               Field("Data_Personlity_Pointer",
                                     PointerBytes(Width(c.penc, ptr)))>>
          [] c.aug[k] = R -> <<Field("Data_FDE_Encoding", <<c.fenc>>)>>
          [] c.aug[k] = L -> <<Field("Data_LSDA_Encoding", <<c.lenc>>)>>
          [] OTHER -> <<>>])

LsdaData(c, ptr) ==
    Opt(Contains(c.aug, L), <<Field("Data_LSDA_Pointer",
                                    PointerBytes(Width(c.lenc, ptr)))>>)

FieldBytes(fields) == FlattenSeq([k \in 1..Len(fields) |-> fields[k].bytes])
Bytes(fields) == Len(FieldBytes(fields))

\* An entry is padded to the pointer size with nops, its instructions.
Padded(fields, ptr) ==
    LET n == Bytes(fields) + 4
        pad == IF n % ptr = 0 THEN ptr ELSE ptr - (n % ptr)
    IN <<Field("Length", <<n + pad - 4, 0, 0, 0>>)>> \o fields
          \o <<Field("Initial_Instructions", [k \in 1..pad |-> 0])>>

Z(c) == c.aug # <<>> /\ c.aug[1] = z

Augmented(c, data) ==
    Opt(Z(c), <<Field("Augumentation_Length", <<Bytes(data) + c.slack>>)>> \o data
              \o Opt(c.slack > 0, <<Field("Data_Remains",
                                          PointerBytes(c.slack))>>))

CieFields(c, ptr) ==
    Padded(<<Field("CIE_ID", <<0, 0, 0, 0>>), Field("Version", <<c.version>>),
             Field("Augumentation_String", Append(c.aug, 0))>>
           \o Opt(c.aug = eh, <<Field("EH_Data", PointerBytes(ptr))>>)
           \o <<Field("Code_Alignment_Factor", <<1>>),
                Field("Data_Alignment_Factor", <<248, 127>>),
                Field("Return_Address_Register", <<16>>)>>
           \o Augmented(c, AugData(c, ptr)), ptr)

FdeFields(c, back, ptr) ==
    LET enc == IF Contains(c.aug, R) THEN c.fenc ELSE 0
    IN Padded(<<Field("CIE_Pointer", <<back, 0, 0, 0>>),
                Field("PC_Begin", PointerBytes(Width(enc, ptr))),
                Field("PC_Range", PointerBytes(Width(enc, ptr)))>>
              \o Augmented(c, LsdaData(c, ptr)), ptr)

-----------------------------------------------------------------------------
(* A section is CIEs cs followed by FDEs, fs[k] being the CIE of the kth one.  *)

Entries(cs, fs, ptr) ==
    LET cieAt(n) == Bytes(FlattenSeq([k \in 1..(n - 1) |-> CieFields(cs[k], ptr)]))
        sizeOf(k) == Bytes(FdeFields(cs[fs[k]], 0, ptr))
        fdeAt(n) == cieAt(Len(cs) + 1) + FoldLeft(LAMBDA a, k : a + sizeOf(k), 0,
                                                  [k \in 1..(n - 1) |-> k])
    IN [k \in 1..Len(cs) |->
           [kind |-> "CIE", cfi |-> k - 1, num |-> k - 1, at |-> cieAt(k),
            fields |-> CieFields(cs[k], ptr)]]
       \o [k \in 1..Len(fs) |->
           [kind |-> "FDE", cfi |-> fs[k] - 1,
            num |-> Cardinality({j \in 1..(k - 1) : fs[j] = fs[k]}), at |-> fdeAt(k),
            fields |-> FdeFields(cs[fs[k]], fdeAt(k) + 4 - cieAt(fs[k]), ptr)]]

Rows(e) == [k \in 1..Len(e.fields) |->
    [name |-> e.fields[k].name,
     at |-> e.at + Bytes(SubSeq(e.fields, 1, k - 1)),
     bytes |-> IF e.fields[k].name = "Augumentation_String" THEN <<e.fields[k].bytes[1]>>
               ELSE e.fields[k].bytes]]

LaidOut(cs, fs, ptr) ==
    LET es == Entries(cs, fs, ptr)
    IN [ptr |-> ptr,
        bytes |-> FlattenSeq([k \in 1..Len(es) |-> FieldBytes(es[k].fields)]),
        layout |-> [k \in 1..Len(es) |->
            [kind |-> es[k].kind, cfi |-> es[k].cfi, num |-> es[k].num, rows |-> Rows(es[k])]]]

Shapes == {<<>>, eh, <<z, R>>, <<z, P, L, R>>, <<z, L>>}

Cie(shapes, fencs) ==
    [version: {1, 3}, aug: shapes, penc: {0, 27, Omit}, fenc: fencs, lenc: {16, 3}, slack: {0, 2}]

\* CIEs whose fields are all relevant, so that no two sections are the same.
Canonical(c) ==
    /\ ~Contains(c.aug, P) => c.penc = 0
    /\ ~Contains(c.aug, R) => c.fenc = 0
    /\ ~Contains(c.aug, L) => c.lenc = 16
    /\ ~Z(c) => c.slack = 0

Cies(fencs) == {c \in Cie(Shapes, fencs) : Canonical(c)}

\* One CIE of any kind with two FDEs; and two CIEs, of which the first one is of any
\* kind, whose FDEs come in any order.
Second == [version |-> 1, aug |-> <<z, R>>, penc |-> 0, fenc |-> 16, lenc |-> 16, slack |-> 0]

SectionsOf(fencs, ptrs) ==
    {LaidOut(<<c>>, fs, p) : c \in Cies(fencs), fs \in {<<>>, <<1>>, <<1, 1>>}, p \in ptrs}
    \cup
    {LaidOut(<<c, Second>>, fs, p) :
        c \in Cies(fencs), fs \in {<<2, 1, 2>>, <<1, 2, 1>>}, p \in ptrs}

\* FDE encodings with the width of a pointer are those the parser supports.
MCLaidOutSections == SectionsOf({0, 16}, {4, 8})

\* The same sections with a piece cut off, zeros appended or one byte overwritten or
\* counted down: a length, so that padding follows the entry.
Damaged(s) ==
    {[s EXCEPT !.bytes = SubSeq(@, 1, n), !.layout = Nil] : n \in 0..(Len(s.bytes) - 1)}
    \cup {[s EXCEPT !.bytes = @ \o [k \in 1..n |-> 0], !.layout = Nil] : n \in {4, 8, 16}}
    \cup {[s EXCEPT !.bytes[k] = b, !.layout = Nil] : k \in 1..Len(s.bytes), b \in {0, 88, 129, 255}}
    \cup {[s EXCEPT !.bytes[k] = @ - 1, !.layout = Nil] : k \in {j \in 1..Len(s.bytes) : s.bytes[j] > 0}}
    \cup {[s EXCEPT !.bytes = <<255, 255, 255, 255>> \o @, !.layout = Nil]}

MCDamagedSections ==
    UNION {Damaged(LaidOut(<<c, Second>>, <<2, 1>>, 4)) :
              c \in {d \in Cies({16}) : d.version = 3 /\ d.slack = 2 /\ d.penc # Omit}
                    \cup {d \in Cies({16}) : d.version = 1 /\ d.aug = eh}}

MCSections == MCLaidOutSections \cup MCDamagedSections

\* FDE encodings of another width, which the parser does not support: 4-byte values on a
\* 64-bit processor.
MCNarrowSections == {[s EXCEPT !.layout = Nil] : s \in SectionsOf({27}, {8})}

=============================================================================
