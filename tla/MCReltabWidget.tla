--------------------------- MODULE MCReltabWidget ---------------------------
(***************************************************************************)
(* Small instances of ReltabWidget for TLC.                                *)
(***************************************************************************)
EXTENDS ReltabWidget

R(addr, value, scattered, extern) ==
    [addr |-> addr, value |-> value, scattered |-> scattered, extern |-> extern]

\* Values below, at and beyond the number of symbols and sections.
MCRelocs == {R(a, v, s, e) : a \in {0, 2}, v \in {0, 1, 3, 4, 15}, s, e \in BOOLEAN}

\* A first section without relocations, and two with one of any kind.
MCFiles ==
    {[nsyms |-> 4, named |-> {1, 15},
      sects |-> <<[addr |-> 1, relocs |-> <<>>], [addr |-> 3, relocs |-> <<r, q>>], [addr |-> 9, relocs |-> <<q>>]>>] :
        r \in MCRelocs, q \in {R(1, 3, FALSE, FALSE), R(2, 2, FALSE, TRUE)}}

=============================================================================
