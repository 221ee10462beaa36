------------------------------ MODULE DwarfValue ------------------------------
(***************************************************************************)
(* The "DwarfType" view of a symbol (macho_widgets/symdata_model.go):      *)
(* newDwarfTypeSymbolModel looks for the variable the symbol is in the     *)
(* debug information and decodeValue takes the symbol's bytes apart along  *)
(* the variable's type.                                                    *)
(*                                                                         *)
(* A type is a record: what decodeValue switches over (kind), its size,    *)
(* and, where it has them, the type it is made of, its number of elements  *)
(* or its fields.  What is decoded is the set of the scalars that were     *)
(* read, each with the offset of its bytes in the data.  decodeValue calls *)
(* itself for the types a type is made of: it is a recursive function, of  *)
(* what it is called with.                                                 *)
(*                                                                         *)
(* Sizes, offsets and numbers of elements are what the file says, as       *)
(* int64: they may be negative, and what is computed of them wraps.        *)
(***************************************************************************)
EXTENDS Integers, Sequences

CONSTANTS
    Infos,    \* the debug informations a file may have
    Types,    \* the types in them
    Nesting,  \* how deep each type is made of others
    Names,    \* the names of variables, without leading underscores
    MaxLen,   \* the most bytes a symbol has
    Half,     \* int64 is -Half..(Half - 1)
    MaxCount, \* the most strings that make makes
    NoType    \* no type

Wrappers == {"typedef", "qual"}
Integer_ == {"ptr", "int", "uint", "enum"}
Bytes == {"bool", "char", "uchar"}
Floats == {"float", "complex"}

Kinds == Wrappers \cup Integer_ \cup Bytes \cup Floats \cup {"struct", "array", "other"}

\* The types a type is made of.
MadeOf(t) ==
    IF t.kind \in Wrappers \cup {"array"} THEN {t.of}
    ELSE IF t.kind = "struct" THEN {t.fields[k].type : k \in 1..Len(t.fields)}
    ELSE {}

Int64 == (-Half)..(Half - 1)
Wrapped(n) == ((n + Half) % (2 * Half)) - Half

\* A dwarf.Type: a number of elements or a size that the debug information does not give is -1.
IsType(t) ==
    /\ t.kind \in Kinds
    /\ t.kind \in Wrappers \cup {"array"} => t.of \in Types
    /\ t.kind = "array" => t.count \in Int64
    /\ t.kind = "struct" => t.fields \in Seq([offset: Int64, type: Types, bits: Nat])
    /\ t.kind \notin Wrappers \cup {"array"} => t.size \in Int64

\* A name of debug/dwarf or of the symbol table, and how many underscores it starts with.
Name == [base: Names, under: 0..2]

\* An entry of the debug information, with its depth in the tree.
Entry == [depth: Nat, tag: {"CompileUnit", "Variable", "other"}, name: Name,
          typ: Types \cup {NoType}]

\* The entries are those of trees in preorder, one of each unit; a compile unit is not in
\* another unit, and a variable is in one.
IsForest(entries) ==
    \A k \in 1..Len(entries) :
        /\ entries[k].depth = 0 \/ (k > 1 /\ entries[k].depth <= entries[k - 1].depth + 1)
        /\ entries[k].tag = "CompileUnit" => entries[k].depth = 0
        /\ entries[k].tag = "Variable" => entries[k].depth # 0

ASSUME DwarfAssumption ==
    /\ Half \in Nat \ {0} /\ MaxLen \in 0..(Half - 1) /\ MaxCount \in 0..(Half - 1)
    /\ NoType \notin Types
    /\ \A entries \in Infos : entries \in Seq(Entry) /\ IsForest(entries)

\* No type is part of itself.
ASSUME TypesAssumption ==
    /\ Nesting \in [Types -> Nat]
    /\ \A t \in Types : IsType(t) /\ \A p \in MadeOf(t) : Nesting[p] < Nesting[t]

VARIABLES
    info,   \* the entries, in the reader's order
    name,   \* sym.Name
    len,    \* len(data)
    zero,   \* isZeroSym: the symbol is in a zero-filled section
    phase,  \* "find", "decode", "nil" (no view), "empty" (no row), "done" or "panic"
    at,     \* the next entry the reader returns
    typ,    \* the variable's type
    shown   \* what the view shows: the scalars decoded, or the bytes as they are

viewVars == <<info, name, len, zero, phase, at, typ, shown>>

-----------------------------------------------------------------------------
(* decodeValue.                                                              *)

Ok(leaves) == [res |-> "ok", leaves |-> leaves]
Fail == [res |-> "fail", leaves |-> {}]
Panic == [res |-> "panic", leaves |-> {}]

\* dwarf.Type's Size.
Size[t \in Types] ==
    IF t.kind \in Wrappers THEN Size[t.of]
    ELSE IF t.kind = "array" THEN Wrapped(t.count * Size[t.of])
    ELSE t.size

\* The sizes each switch knows.
SizesOf(kind) ==
    IF kind \in Integer_ THEN {1, 2, 4, 8}
    ELSE IF kind \in Bytes THEN {1}
    ELSE IF kind = "float" THEN {4, 8, 16}
    ELSE IF kind = "complex" THEN {8, 16}
    ELSE {}

Leaf(from, size, kind) == [from |-> from, size |-> size, kind |-> kind]

LeavesOf(t) ==
    IF t.kind = "complex" THEN {Leaf(k, t.size \div 2, "float") : k \in {0, t.size \div 2}}
    ELSE {Leaf(0, t.size, t.kind)}

\* A type that is not made of others: of a zero-filled symbol nothing is read, and only the
\* kinds of one byte look at the size.
ScalarPanics(n, t, z) ==
    IF n < t.size THEN Panic
    ELSE IF z /\ t.kind \in Integer_ \cup Floats THEN Ok({})
    ELSE IF t.size \notin SizesOf(t.kind) THEN Fail
    ELSE Ok(IF z THEN {} ELSE LeavesOf(t))
Scalar(n, t, z) ==
    IF n < t.size THEN Fail
    ELSE IF z /\ t.kind \in Integer_ \cup Floats THEN Ok({})
    ELSE IF t.size \notin SizesOf(t.kind) THEN Fail
    ELSE Ok(IF z THEN {} ELSE LeavesOf(t))

\* The scalars of data[offset:...] are those of data, further on.
Shift(leaves, offset) == {[l EXCEPT !.from = @ + offset] : l \in leaves}
Placed(result, offset) == [result EXCEPT !.leaves = Shift(@, offset)]

\* Parts are decoded in turn until one fails; what comes after that has no effect.
InTurn(parts) ==
    LET bad == {k \in DOMAIN parts : parts[k].res # "ok"}
    IN IF bad = {} THEN Ok(UNION {parts[k].leaves : k \in DOMAIN parts})
       ELSE parts[CHOOSE k \in bad : \A j \in bad : k <= j]

\* What decodeValue is called with: a type and the n bytes there are for it, in a slice that
\* could be longer, up to cap.
Calls == [type: Types, n: Nat, cap: Nat, zero: BOOLEAN]
Call(t, n, cap, z) == [type |-> t, n |-> n, cap |-> cap, zero |-> z]

\* In the following, decode is what decodeValue returns for each call.

\* data[from:to], decoded.
Part(decode, t, from, to, cap) ==
    IF 0 <= from /\ from <= to /\ to <= cap
    THEN Placed(decode[Call(t, to - from, cap - from, FALSE)], from)
    ELSE Panic

FieldUpTo(decode, n, cap, field) ==
    LET end == Wrapped(field.offset + Size[field.type])
    IN IF n <= end \/ field.bits # 0 THEN Fail
       ELSE Part(decode, field.type, field.offset, end, cap)
FieldValue(decode, n, cap, field) ==
    LET end == Wrapped(field.offset + Size[field.type])
    IN IF n < end \/ field.bits # 0 THEN Fail
       ELSE Part(decode, field.type, field.offset, end, cap)

Struct(decode, n, cap, t, z) ==
    IF n < t.size THEN Fail
    ELSE IF z THEN Ok({})
    ELSE InTurn([k \in 1..Len(t.fields) |-> FieldValue(decode, n, cap, t.fields[k])])

ElementFromOne(decode, cap, k, t) ==
    LET from == Wrapped(Size[t.of] * k)
    IN Part(decode, t.of, from, Wrapped(from + Size[t.of]), cap)
Element(decode, cap, k, t) ==
    LET from == Wrapped(Size[t.of] * (k - 1))
    IN Part(decode, t.of, from, Wrapped(from + Size[t.of]), cap)

\* make panics if the number of elements is not known, -1, or too large.
Array(decode, n, cap, t, z) ==
    IF n < Size[t] THEN Fail
    ELSE IF z THEN Ok({})
    ELSE IF t.count \notin 0..MaxCount THEN Panic
    ELSE InTurn([k \in 1..t.count |-> Element(decode, cap, k, t)])

DecodeBy(decode, t, n, cap, z) ==
    IF t.kind \in Wrappers THEN decode[Call(t.of, n, cap, z)]
    ELSE IF t.kind = "struct" THEN Struct(decode, n, cap, t, z)
    ELSE IF t.kind = "array" THEN Array(decode, n, cap, t, z)
    ELSE IF t.kind \in Integer_ \cup Bytes \cup Floats THEN Scalar(n, t, z)
    ELSE Fail

Decode[c \in Calls] == DecodeBy(Decode, c.type, c.n, c.cap, c.zero)

-----------------------------------------------------------------------------
(* newDwarfTypeSymbolModel.                                                  *)

ViewInit ==
    /\ info \in Infos
    /\ name \in Name
    /\ len \in 0..MaxLen
    /\ zero \in BOOLEAN
    /\ phase = "find"
    /\ at = 1
    /\ typ = NoType
    /\ shown = Fail

\* A symbol's name is the variable's, or has an underscore before it.
IsVariable(e) ==
    /\ e.tag = "Variable"
    /\ \/ name.under > 0 /\ e.name = [name EXCEPT !.under = @ - 1]
       \/ e.name = name

Found ==
    /\ phase = "find"
    /\ at <= Len(info)
    /\ IsVariable(info[at])
    /\ typ' = info[at].typ
    /\ phase' = IF typ' = NoType THEN "nil" ELSE "decode"
    /\ UNCHANGED <<info, name, len, zero, at, shown>>

\* The entry after an entry's children.
Sibling(k) == CHOOSE j \in (k + 1)..(Len(info) + 1) :
    /\ j <= Len(info) => info[j].depth <= info[k].depth
    /\ \A i \in (k + 1)..(j - 1) : info[i].depth > info[k].depth

\* Only a compile unit's children are looked at.
PassAll ==
    /\ phase = "find"
    /\ at <= Len(info)
    /\ ~IsVariable(info[at])
    /\ at' = at + 1
    /\ UNCHANGED <<info, name, len, zero, phase, typ, shown>>
Pass ==
    /\ phase = "find"
    /\ at <= Len(info)
    /\ ~IsVariable(info[at])
    /\ at' = IF info[at].tag = "CompileUnit" THEN at + 1 ELSE Sibling(at)
    /\ UNCHANGED <<info, name, len, zero, phase, typ, shown>>

NotFound ==
    /\ phase = "find"
    /\ at > Len(info)
    /\ phase' = "nil"
    /\ UNCHANGED <<info, name, len, zero, at, typ, shown>>

\* A symbol of no bytes has no row.
ShowNothing ==
    /\ phase = "decode"
    /\ len = 0
    /\ phase' = "empty"
    /\ UNCHANGED <<info, name, len, zero, at, typ, shown>>

\* The one row of the view; bytes that cannot be decoded are shown as they are.
Show ==
    /\ phase = "decode"
    /\ len # 0
    /\ shown' = Decode[Call(typ, len, len, zero)]
    /\ phase' = IF shown'.res = "panic" THEN "panic" ELSE "done"
    /\ UNCHANGED <<info, name, len, zero, at, typ>>

ViewNext == Found \/ Pass \/ NotFound \/ ShowNothing \/ Show

ViewSpec == ViewInit /\ [][ViewNext]_viewVars

-----------------------------------------------------------------------------
(* What makes the view correct.                                              *)

\* The variables that may be the symbol: in a compile unit, and outside of its functions.
Globals == {k \in 1..Len(info) :
    /\ info[k].depth = 1 /\ IsVariable(info[k])
    /\ \E j \in 1..(k - 1) :
         info[j].tag = "CompileUnit" /\ \A i \in (j + 1)..k : info[i].depth > 0}

\* The symbol is shown with the type of the first global variable of its name, never with
\* that of a variable inside of a function.
FindsGlobal ==
    LET first == CHOOSE k \in Globals : \A j \in Globals : k <= j
    IN /\ phase = "nil" => Globals = {} \/ info[first].typ = NoType
       /\ phase \in {"decode", "empty", "done", "panic"} => Globals # {} /\ typ = info[first].typ

\* The types that make up a type.
PartsOf[t \in Types] == {t} \cup UNION {PartsOf[p] : p \in MadeOf(t)}

\* The scalars a value of the type consists of.
Scalars[t \in Types] ==
    IF t.kind \in Wrappers THEN Scalars[t.of]
    ELSE IF t.kind = "struct" THEN
        UNION {Shift(Scalars[t.fields[k].type], t.fields[k].offset) : k \in 1..Len(t.fields)}
    ELSE IF t.kind = "array" THEN
        UNION {Shift(Scalars[t.of], k * Size[t.of]) : k \in 0..(t.count - 1)}
    ELSE IF t.kind = "complex" THEN
        {[from |-> k, size |-> t.size \div 2, kind |-> "float"] : k \in {0, t.size \div 2}}
    ELSE {[from |-> 0, size |-> t.size, kind |-> t.kind]}

IsUnion(t) == t.kind = "struct" /\ \E j, k \in 1..Len(t.fields) :
    j < k /\ t.fields[k].offset < t.fields[j].offset + Size[t.fields[j].type]

Decoded == phase = "done" /\ shown.res = "ok"

\* The bytes of the type are decoded completely, and nothing is read that is not part of
\* it: no byte outside of the symbol, outside of unions none for two parts, and none at
\* all of a symbol in a zero-filled section, whose data is nil in the file.
DecodesWhole ==
    Decoded =>
        /\ shown.leaves = IF zero THEN {} ELSE Scalars[typ]
        /\ \A l \in shown.leaves : 0 <= l.from /\ l.from + l.size <= len
        /\ (\A t \in PartsOf[typ] : ~IsUnion(t)) =>
             \A l, m \in shown.leaves :
                l = m \/ l.from + l.size <= m.from \/ m.from + m.size <= l.from

\* A type as compilers describe them, of the kinds and sizes there are switches for.
Sound(t) ==
    \A p \in PartsOf[t] :
        /\ p.kind \in Integer_ \cup Bytes \cup Floats => p.size \in SizesOf(p.kind)
        /\ p.kind = "array" => p.count \in 0..MaxCount /\ p.count * Size[p.of] \in Int64
        /\ p.kind = "struct" =>
             /\ p.size >= 0
             /\ \A k \in 1..Len(p.fields) :
                  /\ p.fields[k].bits = 0 /\ p.fields[k].offset >= 0
                  /\ p.fields[k].offset + Size[p.fields[k].type] <= p.size
        /\ p.kind # "other"

\* A sound type is decoded exactly if the symbol has all its bytes.
DecodesWhatFits ==
    phase \in {"done", "panic"} /\ Sound(typ) =>
        shown.res = IF Size[typ] <= len THEN "ok" ELSE "fail"

\* A type no compiler describes, but for the first, a flexible array member: an array of a
\* number of elements that is not known or too large, a field before its structure, a size
\* that is not known, or a size or a field's end beyond int64.
Odd(t) ==
    \/ t.kind = "array" /\ (t.count \notin 0..MaxCount \/ t.count * Size[t.of] \notin Int64)
    \/ t.kind = "struct" /\ \E k \in 1..Len(t.fields) :
         \/ t.fields[k].offset < 0
         \/ t.fields[k].offset + Size[t.fields[k].type] \notin Int64
    \/ t.kind \notin Wrappers \cup {"array"} /\ t.size < 0

\* Showing a symbol panics only if a part of its type is odd.
PanicsOnlyOnOddTypes == phase = "panic" => \E t \in PartsOf[typ] : Odd(t)

=============================================================================
