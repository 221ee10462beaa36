---------------------------- MODULE MCSymbolCells ----------------------------
(***************************************************************************)
(* Small instances of SymbolCells for TLC.                                 *)
(***************************************************************************)
EXTENDS SymbolCells

MCFiles ==
    [obj: {TRUE}, twoLevel: {FALSE}, libs: {0}]
    \cup [obj: {FALSE}, twoLevel: BOOLEAN, libs: {0, 3}]

\* Every combination of the flags below bit 8 with one bit of the reference type, and
\* of these with the ordinals 0 to 4, 254, 255 and one with the alignment's last bit.
MCDesc ==
    {low \cup high : low \in SUBSET {0, 3, 4, 5, 6, 7},
                     high \in {{}, {8}, {9}, {8, 9}, {10}, {11, 12}, 9..15, 8..15}}

MCSyms ==
    [stab: {NoStab}, type: {"N_UNDF", "N_PBUD", "N_SECT"}, ext: BOOLEAN, pext: {FALSE},
     unnamed: {FALSE}, sect: {0}, desc: MCDesc, zero: BOOLEAN]
    \cup
    [stab: StabTypes \cup {NoStab}, type: {"N_UNDF", "N_ABS"}, ext: {FALSE}, pext: BOOLEAN,
     unnamed: BOOLEAN, sect: {0, 1}, desc: {{}, {4, 7}}, zero: BOOLEAN]

=============================================================================
