---------------------------- MODULE MCSymbolIndex ----------------------------
(***************************************************************************)
(* Small instances of SymbolIndex for TLC.                                 *)
(***************************************************************************)
EXTENDS SymbolIndex

\* Three symbols are enough for an alias run below, at and above another symbol
\* and at the top; sections adjacent, apart and empty give every neighbour case.
MCSects == {
    <<[addr |-> 0, size |-> 3, relocs |-> <<[addr |-> 1, width |-> 1]>>],
      [addr |-> 3, size |-> 2, relocs |-> <<>>]>>,
    <<[addr |-> 4, size |-> 2, relocs |-> <<>>],
      [addr |-> 1, size |-> 2, relocs |-> <<[addr |-> 0, width |-> 2], [addr |-> 1, width |-> 1]>>]>>,
    <<[addr |-> 1, size |-> 0, relocs |-> <<>>],
      [addr |-> 1, size |-> 4, relocs |-> <<[addr |-> 2, width |-> 2], [addr |-> 0, width |-> 2]>>]>>
}

MCSymbols ==
    [value: 0..5, sect: 1..2, inSect: {TRUE}] \cup {[value |-> 2, sect |-> 0, inSect |-> FALSE]}

SymTabs(S) == UNION {[1..n -> S] : n \in 0..3}

MCWellFormedFiles ==
    {f \in [syms: SymTabs(MCSymbols), sects: MCSects] : WellFormed(f)}

=============================================================================
