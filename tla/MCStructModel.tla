---------------------------- MODULE MCStructModel ----------------------------
(***************************************************************************)
(* Small instances of StructModel for TLC.                                 *)
(***************************************************************************)
EXTENDS StructModel

Seg(addr, size, flags) == [kind |-> "segment", addr |-> addr, size |-> size, flags |-> flags]
Other == [kind |-> "other", addr |-> 0, size |-> 0, flags |-> {}]

\* Segments adjacent, overlapping, empty and wrapping around, and flags up to and beyond the
\* last one that has a name.
MCLoads == {
    <<Seg(0, 4, {0, 1}), Seg(4, 4, {})>>,
    <<Other, Seg(1, 5, {}), Seg(4, 5, {1})>>,
    <<Seg(2, 0, {}), Seg(6, 8, {})>>,
    <<Other, Seg(0, 6, {2})>>
}

\* Sections at the start of a segment, at its end, across its end, across the end of the
\* address space, and empty where two segments meet.
MCSections == {[addr |-> a[1], size |-> a[2]] : a \in {<<0, 3>>, <<3, 1>>, <<3, 3>>, <<4, 0>>, <<4, 1>>, <<8, 3>>}}

MCFiles ==
    {[flags |-> {0}, loads |-> loads, sects |-> <<s, t>>] : loads \in MCLoads, s, t \in MCSections}
    \cup {[flags |-> {0, 2, 3}, loads |-> <<Other>>, sects |-> <<>>]}

\* Items are selected until three have their tables and a fourth is being made.
FewTables == Len(tables) <= 3

=============================================================================
