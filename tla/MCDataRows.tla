------------------------------ MODULE MCDataRows ------------------------------
(***************************************************************************)
(* Small instances of DataRows for TLC.                                    *)
(***************************************************************************)
EXTENDS DataRows

Rel(a, w) == [addr |-> a, width |-> w]

\* A section longer than a Data row with relocations inside, across and at the end
\* of the 8-byte rows, followed by another section; and one with two short ones.
MCLongSects == {
    <<[addr |-> 1, size |-> 10, relocs |-> <<Rel(2, 2), Rel(6, 4)>>],
      [addr |-> 11, size |-> 3, relocs |-> <<Rel(1, 2)>>]>>,
    <<[addr |-> 9, size |-> 4, relocs |-> <<Rel(2, 2), Rel(0, 2)>>],
      [addr |-> 0, size |-> 9, relocs |-> <<Rel(1, 8)>>]>>
}

\* The symbol tables of up to N symbols.  Neither the index nor the tables depend on their
\* order.
InOrder(syms) == \A k \in 1..(Len(syms) - 1) : syms[k].value <= syms[k + 1].value
SymTab(S, N) == {syms \in UNION {[1..n -> S] : n \in 0..N} : InOrder(syms)}

MCLinkedFiles ==
    {f \in [syms: SymTab([value: {0, 1, 3, 9, 11}, sect: 1..2, inSect: {TRUE}], 2),
            sects: MCLongSects] : WellFormed(f)}

\* Each of the other sets of files is odd in one way.  Symbols with the section numbers 0
\* and out of range, or outside their section, and a relocation behind it; the third symbol
\* gives runs that the grouping loop has to stop in.
OneSect == <<[addr |-> 1, size |-> 4, relocs |-> <<Rel(2, 2), Rel(7, 4)>>]>>
TwoSects == <<[addr |-> 1, size |-> 6, relocs |-> <<Rel(3, 2)>>],
              [addr |-> 9, size |-> 4, relocs |-> <<Rel(1, 2)>>]>>

MCStrayFiles ==
    [syms: SymTab([value: {1, 4, 9}, sect: 0..2, inSect: {TRUE}], 2),
     sects: {OneSect, TwoSects}]
    \cup [syms: SymTab([value: {1, 4, 9}, sect: {1}, inSect: {TRUE}], 3), sects: {OneSect}]

\* arm64 sections and symbols that end within an instruction.
MCArmFiles ==
    [syms: SymTab([value: {1, 5, 6}, sect: {1}, inSect: {TRUE}], 2), sects: {TwoSects}]

\* A relocation of one byte below one symbol, and none below the other.
MCByteFiles ==
    {f \in [syms: SymTab([value: {1, 3, 9}, sect: {1, 2}, inSect: {TRUE}], 2),
            sects: {<<[addr |-> 1, size |-> 6, relocs |-> <<Rel(3, 1), Rel(0, 2)>>],
                      [addr |-> 9, size |-> 2, relocs |-> <<Rel(0, 2)>>]>>}] : WellFormed(f)}

\* A section that goes on behind the last address, and a relocation that ends there.
MCWrappedFiles ==
    [syms: SymTab([value: {1, 13}, sect: {1}, inSect: {TRUE}], 2),
     sects: {<<[addr |-> 13, size |-> 8, relocs |-> <<Rel(1, 2)>>]>>}]

\* A section that memory cannot hold.
MCHugeFiles ==
    [syms: SymTab([value: {1, 8}, sect: {1}, inSect: {TRUE}], 1),
     sects: {<<[addr |-> 1, size |-> 11, relocs |-> <<Rel(7, 2)>>]>>}]

MCFiles ==
    MCLinkedFiles \cup MCStrayFiles \cup MCArmFiles \cup MCByteFiles \cup MCWrappedFiles
    \cup MCHugeFiles

=============================================================================
