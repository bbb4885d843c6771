----------------------------- MODULE MCLiveness -----------------------------
(***************************************************************************)
(* Functions of three blocks over two variables x and y.  A block holds at *)
(* most one computing quadruple and at most one jump; the last block      *)
(* returns, as every function the IR builder ends does.  The jumps may   *)
(* target any block, so the graphs include branches, joins, loops and     *)
(* self-loops, and blocks no path reaches.                                *)
(***************************************************************************)
EXTENDS Liveness

CONSTANTS x, y, none

MCVars == {x, y}

Q(op, r, a1, a2, l) == [op |-> op, result |-> r, arg1 |-> a1, arg2 |-> a2, label |-> l]

\* x := constant and y := x: a definition, and a read that defines
Body == {Q("copy", x, none, none, 0), Q("copy", y, x, none, 0)}

Jump == {Q("return", none, v, none, 0) : v \in MCVars} \cup
        {Q("goto", none, none, none, l) : l \in 1 .. 3} \cup
        {Q("if", none, x, x, l) : l \in 1 .. 3}

Returns == {Q("return", none, v, none, 0) : v \in MCVars}

AnyBlock == {<<>>} \cup {<<q>> : q \in Body \cup Jump} \cup {<<q, j>> : q \in Body, j \in Jump}

LastBlock == {<<j>> : j \in Returns} \cup {<<q, j>> : q \in Body, j \in Returns}

MCPrograms == {<<b1, b2, b3>> : b1, b2 \in AnyBlock, b3 \in LastBlock}

=============================================================================
