------------------------------ MODULE MCRBTree ------------------------------
(***************************************************************************)
(* One tree over six keys.  Six keys make trees of black height two with  *)
(* a red inner node whose children are black, which the red-sibling case *)
(* of rb_delete_fixup needs (five never do); the heap has a node          *)
(* per key, and the stack indices reach past any size the code allocates *)
(* for such trees, so an overrun is seen rather than cut off.             *)
(***************************************************************************)
EXTENDS RBTree

MCKeys == 1 .. 6

=============================================================================
