---------------------------- MODULE MCLocTracker ----------------------------
(***************************************************************************)
(* The location tracker instantiated for TLC: three integer variables, one *)
(* of them a parameter, two registers so that allocation evicts, one      *)
(* constant, and two distance profiles mixing a distance that favours a   *)
(* register (used in the next quadruple) with one that favours memory    *)
(* (not used for many quadruples): 4 + n*n/2 separates 1 from 9.         *)
(***************************************************************************)
EXTENDS LocTracker, TLC

CONSTANTS a, b, c

MCVars == {a, b, c}
MCParams == {a}
MCConsts == {0}
MCDists == {(a :> 1 @@ b :> 9 @@ c :> 1), (a :> 9 @@ b :> 1 @@ c :> 9)}

\* The end of a block, where save_live reconciles every live variable, is
\* checked with the parameter and one more variable.
MCVars2 == {a, b}
MCDists2 == {[v \in MCVars2 |-> d[v]] : d \in MCDists}
=============================================================================
