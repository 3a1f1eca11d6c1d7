----------------------------- MODULE MCCopyTable -----------------------------
(***************************************************************************)
(* Small instances of CopyTable: two tables of one and three rows.         *)
(***************************************************************************)
EXTENDS CopyTable

CONSTANTS orders, items

TwoTables == {orders, items}
TheirRows == orders :> 1 @@ items :> 3

Symmetry == Permutations(Triggers)
=============================================================================
