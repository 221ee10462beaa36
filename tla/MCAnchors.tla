------------------------------ MODULE MCAnchors ------------------------------
(***************************************************************************)
(* Small instances of Anchors for TLC: a byte is one bit, an address has   *)
(* eight.                                                                  *)
(***************************************************************************)
EXTENDS Anchors

\* Code with two names for one address, data longer than LinkMax, a section without
\* symbols and a hole before it.
MCFile(relocs) ==
    [syms |-> <<[value |-> 4, sect |-> 1, inSect |-> TRUE],
                [value |-> 10, sect |-> 1, inSect |-> TRUE],
                [value |-> 10, sect |-> 1, inSect |-> TRUE],
                [value |-> 20, sect |-> 2, inSect |-> TRUE],
                [value |-> 0, sect |-> 0, inSect |-> FALSE]>>,
     sects |-> <<[addr |-> 4, size |-> 16, relocs |-> relocs],
                 [addr |-> 20, size |-> 20, relocs |-> <<>>],
                 [addr |-> 48, size |-> 6, relocs |-> <<>>]>>]

R(addr, width) == [addr |-> addr, width |-> width]

\* Sections that overlap, as in a kernel: the first one is taken.
MCOverlap ==
    {[syms |-> <<[value |-> 30, sect |-> 1, inSect |-> TRUE]>>,
      sects |-> <<[addr |-> 4, size |-> 30, relocs |-> <<R(2, 8)>>],
                  [addr |-> 8, size |-> 40, relocs |-> <<>>]>>]}

\* A section that wraps around the end of the address space.
MCWrapped ==
    {[syms |-> <<[value |-> 250, sect |-> 1, inSect |-> TRUE]>>,
      sects |-> <<[addr |-> 248, size |-> 16, relocs |-> <<R(2, 4), R(6, 8)>>],
                  [addr |-> 2, size |-> 20, relocs |-> <<>>]>>]}

\* Symbols whose tables are fatal: one in unwind tables, one behind its section, one with a
\* relocation of one byte, and one without a section of the file.
MCFatal ==
    {[syms |-> <<[value |-> 4, sect |-> 1, inSect |-> TRUE],
                 [value |-> 50, sect |-> 3, inSect |-> TRUE],
                 [value |-> 12, sect |-> 7, inSect |-> TRUE],
                 [value |-> 45, sect |-> 2, inSect |-> TRUE]>>,
      sects |-> <<[addr |-> 4, size |-> 16, relocs |-> <<R(2, 4), R(7, 1)>>],
                  [addr |-> 20, size |-> 20, relocs |-> <<>>],
                  [addr |-> 48, size |-> 6, relocs |-> <<>>]>>]}

MCFiles ==
    {MCFile(<<R(2, 4), R(8, 8)>>), MCFile(<<R(0, 2), R(6, 4)>>)}
    \cup MCOverlap \cup MCWrapped \cup MCFatal

K(type, pcrel, extern, scattered, value) ==
    [type |-> type, pcrel |-> pcrel, extern |-> extern, scattered |-> scattered, value |-> value]

MCKinds ==
    {K("VANILLA", p, e, FALSE, 1) : p, e \in BOOLEAN}
    \cup {K("VANILLA", p, FALSE, TRUE, 10) : p \in BOOLEAN}
    \cup {K("TLV", TRUE, FALSE, FALSE, 3), K("SECTDIFF", FALSE, FALSE, TRUE, 10), K("LOCAL_SECTDIFF", FALSE, FALSE, TRUE, 20),
          K("PAIR", FALSE, FALSE, TRUE, 4), K("TLV", FALSE, FALSE, FALSE, 3),
          K("PB_LA_PTR", FALSE, FALSE, TRUE, 4)}
    \cup {K(t, FALSE, TRUE, FALSE, 3) : t \in {"UNSIGNED", "SUBTRACTOR"}}
    \cup {K(t, TRUE, TRUE, FALSE, v) : t \in {"SIGNED_2", "BRANCH"}, v \in {1, 9}}
    \cup {K(t, TRUE, TRUE, FALSE, 2) : t \in {"GOT", "GOT_LOAD", "TLV"}}
    \cup {K(t, TRUE, FALSE, FALSE, 1) : t \in {"SIGNED", "SIGNED_1", "SIGNED_4", "BRANCH"}}
    \cup {K("UNSIGNED", FALSE, FALSE, FALSE, 1)}

\* A small displacement, negative ones of each width, and values far away.
MCRaws == {0, 2, 3, 5, 12, 15, 34, 50, 120, 250}

MCSectType == <<"Code", "Data", "EHFrame">>

=============================================================================
