--------------------------- MODULE MCBlockBuilder ---------------------------
(***************************************************************************)
(* Functions of two variables assigned 0 or 1, with conditions that use   *)
(* every shape the lowering distinguishes: a comparison jumped on when    *)
(* true and when false, a negation, && and || (each lowered both ways),   *)
(* a boolean variable, and the literal true.                              *)
(***************************************************************************)
EXTENDS BlockBuilder

MCConsts == {0, 1}
MCConds == {Cmp("lt", 1, 2), Not(Cmp("eq", 1, 2)), And(Not(Cmp("lt", 1, 2)), Not(Cmp("eq", 1, 2))),
            Or(Cmp("lt", 1, 2), Cmp("eq", 1, 2)), BoolLit(TRUE)}

\* a boolean variable and the compound conditions, without the literal: `if (true)`
\* emits no quadruple, so with it a while body may emit none whatever
\* EmptyLoops says.  x2 < x1 && x1 jumps on x2 < x1 being false.
MCCmpConds == {BoolVar(1), And(Cmp("lt", 2, 1), BoolVar(1)),
               Or(Cmp("lt", 1, 2), Cmp("eq", 1, 2))}

\* the condition whose value `x = (...)` assigns: && lowered to jump when true
MCAssignConds == {And(Not(Cmp("lt", 1, 2)), Not(Cmp("eq", 1, 2)))}

=============================================================================
