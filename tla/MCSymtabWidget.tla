---------------------------- MODULE MCSymtabWidget ----------------------------
(***************************************************************************)
(* Small instances of SymtabWidget for TLC.                                *)
(***************************************************************************)
EXTENDS SymtabWidget

Sym(name, stab, type, ext, zero, sect) ==
    [name |-> name, stab |-> stab, type |-> type, ext |-> ext, zero |-> zero, sect |-> sect,
     bytes |-> IF zero /\ type = "N_SECT" THEN "some" ELSE "all", typed |-> ext, odd |-> {}]

MCNames == {"f", "g"}

Text == [view |-> "Code", letter |-> "T"]
Data == [view |-> "Data", letter |-> "D"]
Lits == [view |-> "CString", letter |-> "S"]
Eh == [view |-> "EHFrame", letter |-> "S"]

\* Symbols of every letter, local and external; section numbers that exist.
MCSymbols ==
    {Sym("f", FALSE, "N_SECT", FALSE, FALSE, 1), Sym("g", FALSE, "N_SECT", TRUE, FALSE, 2),
     Sym("g", FALSE, "N_SECT", TRUE, TRUE, 3), Sym("f", FALSE, "N_UNDF", TRUE, TRUE, 0),
     Sym("g", FALSE, "N_UNDF", TRUE, FALSE, 0), Sym("f", TRUE, "N_SECT", TRUE, FALSE, 1)}

MCOrderlyFiles == [syms: [1..2 -> MCSymbols], sects: {<<Text, Data, Lits>>}, disasm: BOOLEAN]

\* Symbols of the other letters, section numbers that do not exist, a section
\* __eh_frame, at whose start old compilers put a symbol, one behind its section's end,
\* one with a byte relocation and one of a type with a flexible array.
MCOddSymbols ==
    {Sym("f", FALSE, "N_SECT", FALSE, FALSE, 1), Sym("f", FALSE, "N_SECT", TRUE, FALSE, 0),
     Sym("f", FALSE, "N_SECT", FALSE, FALSE, 3), Sym("f", FALSE, "N_SECT", FALSE, TRUE, 2),
     Sym("g", FALSE, "N_ABS", TRUE, FALSE, 0), Sym("g", FALSE, "N_INDR", FALSE, TRUE, 0),
     Sym("g", FALSE, "N_PBUD", TRUE, TRUE, 0), Sym("g", FALSE, "unknown", TRUE, TRUE, 0),
     [Sym("f", FALSE, "N_SECT", FALSE, FALSE, 1) EXCEPT !.bytes = "huge"],
     [Sym("g", FALSE, "N_SECT", FALSE, FALSE, 1) EXCEPT !.odd = {"Code", "Data"}],
     [Sym("g", FALSE, "N_SECT", TRUE, FALSE, 1) EXCEPT !.odd = {"DwarfType"}]}

MCOddFiles == [syms: [1..2 -> MCOddSymbols], sects: {<<Text, Eh>>}, disasm: {TRUE}]

MCFiles == MCOrderlyFiles \cup MCOddFiles

=============================================================================
