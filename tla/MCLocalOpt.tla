----------------------------- MODULE MCLocalOpt -----------------------------
(***************************************************************************)
(* Blocks of up to three quadruples over two variables and the constant 1, *)
(* started from every valuation of the variables in 0 .. 2.                *)
(***************************************************************************)
EXTENDS LocalOpt

MCConsts == {1}
MCInputValues == 0 .. 2

=============================================================================
