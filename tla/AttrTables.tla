------------------------------ MODULE AttrTables ------------------------------
(***************************************************************************)
(* What the "Structure" tab promises: selecting an item of the tree shows  *)
(* the table of that item, the same one every time it is selected, and     *)
(* nothing when an item without attributes or no item is selected.         *)
(*                                                                         *)
(* StructModel implements this specification (see StructModel!Abstract).   *)
(***************************************************************************)
EXTENDS Integers

CONSTANTS
    Items,  \* the items that may have a table
    Nil     \* no table

VARIABLES
    shown,  \* the item whose table is on display
    made,   \* the items that have been given a table
    count   \* the number of tables there are

vars == <<shown, made, count>>

Init ==
    /\ shown = Nil
    /\ made = {}
    /\ count = 0

Show ==
    /\ shown' \in Items
    /\ made' = made \cup {shown'}
    /\ count' = IF shown' \in made THEN count ELSE count + 1

Clear ==
    /\ shown' = Nil
    /\ UNCHANGED <<made, count>>

Next == Show \/ Clear

Spec == Init /\ [][Next]_vars

===============================================================================
