------------------------------ MODULE AddressMap ------------------------------
(***************************************************************************)
(* What NewFile's symbol index promises to the code that formats           *)
(* addresses: once published it is a fixed set of pairwise disjoint        *)
(* extents, each named by at least one symbol, and a query answers with    *)
(* the one extent that holds the address, or with none.                    *)
(*                                                                         *)
(* SymbolIndex implements this specification (see SymbolIndex!Abstract).   *)
(***************************************************************************)
EXTENDS Integers

CONSTANTS
    Addr,    \* addresses
    Names,   \* what an extent is named by: positions in the symbol table
    Nil      \* "no answer"

VARIABLES
    published,  \* the index has been built
    extents,    \* the disjoint extents it is made of
    answer      \* the last query and what it returned

vars == <<published, extents, answer>>

Extent == [base: Addr, size: Addr \ {0}, names: SUBSET Names]

Holds(e, a) == e.base <= a /\ a < e.base + e.size

\* No address lies in two extents, and no extent is anonymous.
Disjoint(E) ==
    /\ \A e \in E : e.names # {}
    /\ \A e, f \in E : \A a \in Addr : Holds(e, a) /\ Holds(f, a) => e = f

Init ==
    /\ published = FALSE
    /\ extents = {}
    /\ answer = Nil

Publish ==
    /\ ~published
    /\ published' = TRUE
    /\ extents' \in SUBSET Extent
    /\ Disjoint(extents')
    /\ UNCHANGED answer

Query(a) ==
    /\ published
    /\ \/ \E e \in extents :
            /\ Holds(e, a)
            /\ answer' = [addr |-> a, base |-> e.base, names |-> e.names]
       \/ /\ \A e \in extents : ~Holds(e, a)
          /\ answer' = [addr |-> a, base |-> 0, names |-> {}]
    /\ UNCHANGED <<published, extents>>

Next == Publish \/ \E a \in Addr : Query(a)

Spec == Init /\ [][Next]_vars

===============================================================================
