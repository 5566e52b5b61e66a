--------------------------- MODULE MCSystemManager --------------------------
(***************************************************************************)
(* SystemManager for TLC, with the real page.  Of the four tables that     *)
(* CREATE TABLE asks for two have records of an acceptable size, 511 and   *)
(* 512 bytes; the others are too long by one byte, and empty.  Clients,    *)
(* tables and descriptors are only compared, so their permutations are     *)
(* symmetries of the invariants.                                           *)
(***************************************************************************)
EXTENDS SystemManager, TLC

Int4(x) == [name |-> x, type |-> "TYPE_INT", len |-> 4]
Char(x, n) == [name |-> x, type |-> "TYPE_STRING", len |-> n]

MC_Schemas == {<<Char("a", 511)>>, <<Int4("a"), Char("b", 508)>>,
               <<Int4("a"), Char("b", 509)>>, <<Char("a", 0)>>}

Symmetry ==
    Permutations(Clients) \union Permutations(Tables) \union Permutations(Fds)
=============================================================================
