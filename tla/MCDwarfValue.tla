---------------------------- MODULE MCDwarfValue ----------------------------
(***************************************************************************)
(* Small instances of DwarfValue for TLC.                                  *)
(***************************************************************************)
EXTENDS DwarfValue

Basic(kind, size) == [kind |-> kind, size |-> size]
Array_(count, of) == [kind |-> "array", count |-> count, of |-> of]
Of(kind, of) == [kind |-> kind, of |-> of]
Struct_(size, fields) == [kind |-> "struct", size |-> size, fields |-> fields]
At(offset, type) == [offset |-> offset, type |-> type, bits |-> 0]

Char == Basic("char", 1)
Short == Basic("int", 2)
Pair == Struct_(4, <<At(0, Char), At(2, Short)>>)

\* Scalars of sizes with and without a case of their own; arrays of them, of arrays and of
\* none; structures with padding, nested, with bit fields, unions, and larger than they say;
\* arrays of unknown length, alone and last in a structure; types of unknown size, alone and
\* in others; as many elements of no size as make makes, and one more; fields before their
\* structure and beyond int64; arrays whose size wraps to less than the symbol has, the last
\* one to what its field has.
Variables == {
    Char, Short, Pair,
    Basic("int", 3), Basic("ptr", 8), Basic("enum", 1), Basic("bool", 2), Basic("uchar", 1),
    Basic("float", 4), Basic("float", 2), Basic("complex", 8), Basic("other", 0),
    Basic("enum", -1), Struct_(4, <<At(0, Basic("enum", -1))>>),
    Array_(3, Short), Array_(0, Pair), Array_(2, Array_(2, Of("typedef", Char))),
    Array_(2, Of("qual", Pair)), Array_(-1, Short), Array_(-1, Struct_(0, <<>>)),
    Of("typedef", Of("qual", Pair)),
    Struct_(8, <<At(0, Pair), At(4, Array_(2, Short))>>),
    Struct_(4, <<At(0, Basic("uint", 4)), At(0, Array_(4, Char))>>),
    Struct_(2, <<At(0, Char), [offset |-> 1, type |-> Char, bits |-> 3]>>),
    Struct_(2, <<At(0, Pair)>>),
    Struct_(2, <<At(0, Short), At(2, Array_(-1, Char))>>),
    Struct_(-1, <<>>), Array_(1, Struct_(-1, <<>>)),
    Array_(20, Struct_(0, <<>>)), Array_(21, Struct_(0, <<>>)),
    Struct_(4, <<At(-2, Short)>>), Struct_(4, <<At(0, Short), At(-4, Short)>>),
    Struct_(4, <<At(31, Short)>>), Array_(16, Pair), Array_(16, Basic("int", 3)),
    Array_(9, Basic("ptr", 8)), Struct_(8, <<At(0, Array_(17, Pair)), At(4, Pair)>>),
    Array_(-2, Basic("enum", -1)), Array_(0, Basic("enum", -1)), Array_(2, Basic("enum", -1))
}

\* The types the variables have, and those they are made of, with how deep.
RECURSIVE Within(_)
Within(t) == {t} \cup UNION {Within(p) : p \in MadeOf(t)}
RECURSIVE Levels(_)
Levels(t) ==
    LET below == {Levels(p) : p \in MadeOf(t)}
    IN IF below = {} THEN 0 ELSE 1 + CHOOSE n \in below : \A m \in below : m <= n

MCTypes == UNION {Within(t) : t \in Variables}
MCNesting == [t \in MCTypes |-> Levels(t)]

Plain(base) == [base |-> base, under |-> 0]
Unit == [depth |-> 0, tag |-> "CompileUnit", name |-> Plain("u"), typ |-> NoType]
Partial == [depth |-> 0, tag |-> "other", name |-> Plain("u"), typ |-> NoType]
Sub == [depth |-> 1, tag |-> "other", name |-> Plain("x"), typ |-> NoType]
Var(depth, base, under, t) ==
    [depth |-> depth, tag |-> "Variable", name |-> [base |-> base, under |-> under], typ |-> t]

\* A local variable of a function before the global one, in the same unit or in one before,
\* a unit that is not a compile unit, and variables whose names differ in their underscores,
\* one of them without a type.
MCInfos ==
    {<<Unit, Sub, Var(2, "x", 0, Char), Var(1, "x", 0, t)>> : t \in Variables}
    \cup {<<Unit, Sub, Var(2, "x", 1, Char), Var(3, "x", 0, Char), Unit, Var(1, "y", 0, Char), Var(1, "x", 1, Pair)>>,
          <<Partial, Var(1, "x", 0, Char), Unit, Var(1, "x", 0, Short), Partial>>,
          <<Unit, Var(1, "x", 1, Short), Var(1, "x", 0, Pair)>>,
          <<Unit, Var(1, "x", 0, NoType), Unit, Var(1, "x", 0, Pair)>>}

=============================================================================
