------------------------------ MODULE Liveness ------------------------------
(***************************************************************************)
(* The block graph and the liveness analysis of src/flow.c.                *)
(*                                                                         *)
(* A function is a sequence of basic blocks 1..N, each a sequence of      *)
(* quadruples; block 0 stands for NULL.  create_block_graph gives every   *)
(* block its children from its last quadruple; compute_live_def_use scans *)
(* each block backwards for the variables it defines (def) and those it   *)
(* reads before defining them, with the index of the first read (use,    *)
(* the initial live_in); analyze_liveness then repeats a depth-first      *)
(* traversal whose compute_in_out calls widen live_in and live_out until  *)
(* a traversal changes nothing; finish_liveness_computation publishes    *)
(* live_in as vars_at_start and live_out as live_at_end.                 *)
(*                                                                         *)
(* The red-black trees are sets here (a variable is its own key) and the  *)
(* var_descr_t maps of live_in are functions from variables to the        *)
(* nearest_use_dist.  The order in which compute_in_out walks the         *)
(* successor's tree does not matter: every step it takes on one variable *)
(* is independent of the others, and when the successor is the block     *)
(* itself every variable of its tree is already present.                 *)
(***************************************************************************)
EXTENDS Integers, Sequences, FiniteSets

CONSTANTS
    Vars,       \* the variables of the function (model values)
    None,       \* the tag QA_NONE of an unused argument
    N,          \* the number of basic blocks
    Programs    \* the functions analysed: [1..N -> Seq(quadruple)]

Blocks == 1 .. N

\* A quadruple: op, result, arg1, arg2 and the label of a jump.
Ops == {"arith", "copy", "write_ptr", "if", "goto", "return", "other"}
Quadrs == [op : Ops, result : Vars \cup {None}, arg1 : Vars \cup {None},
           arg2 : Vars \cup {None}, label : 0 .. N]

ASSUME /\ N \in Nat \ {0}
       /\ None \notin Vars
       /\ Programs \subseteq [Blocks -> Seq(Quadrs)]

\* is_block_end (quadr.c): the jumps and the return close a block; the
\* computing opcodes, the write through a pointer, param and call do not.
is_block_end(op) == op \in {"if", "goto", "return"}

\* add_quadr (quadr.c) asserts that no quadruple is appended after one
\* that ends the block, so a block-end opcode can only come last.
add_quadr_ok(qs) == \A k \in 1 .. Len(qs) - 1 : ~is_block_end(qs[k].op)

ASSUME \A P \in Programs : \A b \in Blocks : add_quadr_ok(P[b])

\* used_in_quadr and assigned_in_quadr (quadr.h).
used_in_quadr(q, v) ==
    q.arg1 = v \/ q.arg2 = v \/ (q.op = "write_ptr" /\ q.result = v)

assigned_in_quadr(q, v) == q.op # "write_ptr" /\ q.result = v

\* block->next, 0 for the last block.
NextBlock(b) == IF b < N THEN b + 1 ELSE 0

\* create_block_graph: the children a block's last quadruple gives it.
child1(P, b) ==
    IF P[b] = <<>> THEN NextBlock(b)
    ELSE LET last == P[b][Len(P[b])]
         IN  CASE last.op = "return"          -> 0
               [] is_block_end(last.op)       -> last.label
               [] OTHER                       -> NextBlock(b)

child2(P, b) ==
    IF P[b] # <<>> /\ P[b][Len(P[b])].op = "if" THEN NextBlock(b) ELSE 0

-----------------------------------------------------------------------------
(* compute_live_def_use                                                    *)

\* update_live(use, def, var, nud): var leaves def and enters use with
\* distance nud, replacing a later read's distance.
update_live(du, v, nud) ==
    [def |-> du.def \ {v},
     use |-> [w \in DOMAIN du.use \cup {v} |-> IF w = v THEN nud ELSE du.use[w]]]

\* One quadruple, at index i (counted from 0), of the backward scan.
ScanQuadr(du, q, i) ==
    LET du1 == CASE q.result \in Vars /\ assigned_in_quadr(q, q.result) ->
                      [def |-> du.def \cup {q.result},
                       use |-> [w \in DOMAIN du.use \ {q.result} |-> du.use[w]]]
                 [] q.result \in Vars /\ used_in_quadr(q, q.result) ->
                      update_live(du, q.result, i)
                 [] OTHER -> du
        du2 == IF q.arg1 \in Vars THEN update_live(du1, q.arg1, i) ELSE du1
    IN  IF q.arg2 \in Vars THEN update_live(du2, q.arg2, i) ELSE du2

\* Mutant: the backward scan counts its indices from qsize instead of qsize - 1.
compute_live_def_use_from_qsize(qs) ==
    LET scan[k \in 0 .. Len(qs)] ==
            IF k = 0 THEN [def |-> {}, use |-> [w \in {} |-> 0]]
            ELSE ScanQuadr(scan[k - 1], qs[Len(qs) - k + 1], Len(qs) - k - 1)
    IN  scan[Len(qs)]

compute_live_def_use(qs) ==
    LET scan[k \in 0 .. Len(qs)] ==
            IF k = 0 THEN [def |-> {}, use |-> [w \in {} |-> 0]]
            ELSE ScanQuadr(scan[k - 1], qs[Len(qs) - k + 1], Len(qs) - k)
    IN  scan[Len(qs)]

-----------------------------------------------------------------------------
(* do_liveness: the compute_in_out calls of one traversal, in the order    *)
(* the recursion makes them (children first, then the block's own calls). *)

RECURSIVE do_liveness(_, _, _)
do_liveness(P, b, acc) ==
    LET c1 == child1(P, b)
        c2 == child2(P, b)
        Own(a) == [a EXCEPT !.calls = @ \o (IF c1 # 0 THEN <<<<b, c1>>>> ELSE <<>>)
                                        \o (IF c2 # 0 THEN <<<<b, c2>>>> ELSE <<>>)]
        Down(a, c) == IF c # 0 /\ c \notin a.vis THEN do_liveness(P, c, a) ELSE a
    IN  Own(Down(Down([acc EXCEPT !.vis = @ \cup {b}], c1), c2))

Traversal(P) == do_liveness(P, 1, [vis |-> {}, calls |-> <<>>]).calls

-----------------------------------------------------------------------------

VARIABLES
    prog,       \* the function being analysed
    cursor,     \* the next block of the def/use loop; N + 1 once it is done
    def,        \* live_def of every block
    instr,      \* instr_num of every block
    live_in,    \* live_in of every block: variable -> nearest_use_dist
    live_out,   \* live_out of every block
    changed,    \* the static flag changed
    calls,      \* the compute_in_out calls left in this traversal
    phase,      \* "defuse", "iterate" or "done"
    vars_at_start, live_at_end

vars == <<prog, cursor, def, instr, live_in, live_out, changed, calls, phase,
          vars_at_start, live_at_end>>

NoVars == [w \in {} |-> 0]

\* analyze_flow gives every block empty flow data.
Init ==
    /\ prog \in Programs
    /\ cursor = 1
    /\ def = [b \in Blocks |-> {}]
    /\ instr = [b \in Blocks |-> 0]
    /\ live_in = [b \in Blocks |-> NoVars]
    /\ live_out = [b \in Blocks |-> {}]
    /\ changed = TRUE
    /\ calls = <<>>
    /\ phase = "defuse"
    /\ vars_at_start = [b \in Blocks |-> NoVars]
    /\ live_at_end = [b \in Blocks |-> {}]

\* The first loop of analyze_liveness: def and use of the next block.
ComputeLiveDefUse ==
    /\ phase = "defuse"
    /\ LET du == compute_live_def_use(prog[cursor])
       IN  /\ def' = [def EXCEPT ![cursor] = du.def]
           /\ live_in' = [live_in EXCEPT ![cursor] = du.use]
           /\ instr' = [instr EXCEPT ![cursor] = Len(prog[cursor])]
    /\ cursor' = cursor + 1
    /\ phase' = IF cursor = N THEN "iterate" ELSE "defuse"
    /\ UNCHANGED <<prog, live_out, changed, calls, vars_at_start, live_at_end>>

\* while (changed): changed = false; begin_traversal(); do_liveness(root).
BeginTraversal ==
    /\ phase = "iterate"
    /\ calls = <<>>
    /\ changed
    /\ changed' = FALSE
    /\ calls' = Traversal(prog)
    /\ UNCHANGED <<prog, cursor, def, instr, live_in, live_out, phase,
                   vars_at_start, live_at_end>>

\* compute_in_out(block, child->live_in): every variable live into the
\* child is live out of the block and, unless the block defines it, live
\* into the block at the child's distance plus the block's length.  A
\* variable already live into the block keeps its distance; the code's
\* attempt to lower it writes the child's descriptor instead, and only
\* when the child's distance exceeds itself plus the block's length.
\* Mutant: the rb_search of the block's def set is left out.
compute_in_out_ignoring_def(b, c) ==
    LET src == live_in[c]
        new == DOMAIN src \ DOMAIN live_in[b]
        inB == [v \in DOMAIN live_in[b] \cup new |->
                   IF v \in new THEN src[v] + instr[b] ELSE live_in[b][v]]
    IN  /\ live_in' = [live_in EXCEPT ![b] = inB, ![c] = IF c = b THEN inB ELSE src]
        /\ live_out' = [live_out EXCEPT ![b] = @ \cup DOMAIN src]
        /\ changed' = (changed \/ new # {})

\* Mutant: changed is raised for every variable passed on, present or not.
compute_in_out_always_changed(b, c) ==
    LET src == live_in[c]
        gen == {v \in DOMAIN src : v \notin def[b]}
        new == gen \ DOMAIN live_in[b]
        inB == [v \in DOMAIN live_in[b] \cup new |->
                   IF v \in new THEN src[v] + instr[b] ELSE live_in[b][v]]
    IN  /\ live_in' = [live_in EXCEPT ![b] = inB, ![c] = IF c = b THEN inB ELSE src]
        /\ live_out' = [live_out EXCEPT ![b] = @ \cup DOMAIN src]
        /\ changed' = (changed \/ gen # {})

compute_in_out(b, c) ==
    LET src == live_in[c]
        gen == {v \in DOMAIN src : v \notin def[b]}
        new == gen \ DOMAIN live_in[b]
        inB == [v \in DOMAIN live_in[b] \cup new |->
                   IF v \in new THEN src[v] + instr[b] ELSE live_in[b][v]]
        lowered == [v \in DOMAIN src |->
                       IF v \in gen \ new /\ src[v] > src[v] + instr[b]
                       THEN src[v] + instr[b] ELSE src[v]]
    IN  /\ live_in' = [live_in EXCEPT ![b] = inB, ![c] = IF c = b THEN inB ELSE lowered]
        /\ live_out' = [live_out EXCEPT ![b] = @ \cup DOMAIN src]
        /\ changed' = (changed \/ new # {})

ComputeInOut ==
    /\ phase = "iterate"
    /\ calls # <<>>
    /\ compute_in_out(Head(calls)[1], Head(calls)[2])
    /\ calls' = Tail(calls)
    /\ UNCHANGED <<prog, cursor, def, instr, phase, vars_at_start, live_at_end>>

\* A traversal changed nothing: finish_liveness_computation on every block.
finish_liveness_computation ==
    /\ phase = "iterate"
    /\ calls = <<>>
    /\ ~changed
    /\ vars_at_start' = live_in
    /\ live_at_end' = live_out
    /\ phase' = "done"
    /\ UNCHANGED <<prog, cursor, def, instr, live_in, live_out, changed, calls>>

Next ==
    \/ ComputeLiveDefUse
    \/ BeginTraversal
    \/ ComputeInOut
    \/ finish_liveness_computation

\* analyze_liveness runs to completion on the one thread of the compiler.
Spec == Init /\ [][Next]_vars /\ WF_vars(Next)

-----------------------------------------------------------------------------
(* The query the code generator makes of the result (src/quadr.c and     *)
(* nearest_use_distance in src/gencode.c): how far from the k-th          *)
(* quadruple of block b is the next read of v.  It scans the rest of the  *)
(* block, then looks v up in the successors' vars_at_start -- child1's   *)
(* tree both times -- and takes the larger distance found.                *)
INT_MAX == 2147483647

\* mutant: the distance is not counted past the quadruples scanned
nearest_use_distance_from_quadr_uncounted(P, vs, b, k, v) ==
    LET rest == SubSeq(P[b], k, Len(P[b]))
        uses == {j \in 1 .. Len(rest) : used_in_quadr(rest[j], v)}
        c1 == child1(P, b)
        bd1 == IF c1 # 0 /\ v \in DOMAIN vs[c1] THEN vs[c1][v] ELSE -1
    IN  IF uses # {} THEN (CHOOSE j \in uses : \A i \in uses : j <= i) - 1
        ELSE IF bd1 = -1 THEN INT_MAX \div 64 ELSE bd1

nearest_use_distance_from_quadr(P, vs, b, k, v) ==
    LET rest == SubSeq(P[b], k, Len(P[b]))
        uses == {j \in 1 .. Len(rest) : used_in_quadr(rest[j], v)}
        dist == Len(rest)
        c1 == child1(P, b)
        c2 == child2(P, b)
        bd1 == IF c1 # 0 /\ v \in DOMAIN vs[c1] THEN vs[c1][v] ELSE -1
        bd2 == IF c2 # 0 /\ v \in DOMAIN vs[c1] THEN vs[c1][v] ELSE -1
    IN  CASE uses # {}              -> (CHOOSE j \in uses : \A i \in uses : j <= i) - 1
          [] bd1 = -1 /\ bd2 = -1   -> dist + INT_MAX \div 64
          [] bd1 # -1 /\ bd2 # -1   -> dist + (IF bd1 < bd2 THEN bd2 ELSE bd1)
          [] bd1 # -1               -> dist + bd1
          [] OTHER                  -> dist + bd2

-----------------------------------------------------------------------------
(* The reference: liveness as the least solution of its equations.        *)

\* A variable read in the block before any write to it, with the index of
\* its first such read.
ReadFirst(qs, v, k) ==
    /\ used_in_quadr(qs[k], v)
    /\ \A j \in 1 .. k - 1 : ~used_in_quadr(qs[j], v) /\ ~assigned_in_quadr(qs[j], v)

UpwardExposed(qs) == {v \in Vars : \E k \in 1 .. Len(qs) : ReadFirst(qs, v, k)}

Defined(qs) == {v \in Vars : \E k \in 1 .. Len(qs) : assigned_in_quadr(qs[k], v)}

Children(P, b) == {child1(P, b), child2(P, b)} \ {0}

\* The blocks the traversal from the first block reaches.
Reachable(P) ==
    LET R[k \in 0 .. N] == IF k = 0 THEN {1}
                           ELSE R[k - 1] \cup UNION {Children(P, b) : b \in R[k - 1]}
    IN  R[N]

\* Iterating in[b] = use[b] \cup (out[b] \ def[b]) from the empty sets:
\* after N * |Vars| rounds nothing more can be added.
RefLiveIn(P) ==
    LET L[k \in 0 .. N * Cardinality(Vars)] ==
            IF k = 0 THEN [b \in Blocks |-> {}]
            ELSE [b \in Blocks |->
                    UpwardExposed(P[b]) \cup
                    (UNION {L[k - 1][c] : c \in Children(P, b)} \ Defined(P[b]))]
    IN  L[N * Cardinality(Vars)]

\* The shortest distance from the start of b to a read of v on any path:
\* the number of quadruples passed over before the read; Infinity if none.
Infinity == 1000

RefDistance(P) ==
    LET Step(D, b, v) ==
            LET here == {k - 1 : k \in {k \in 1 .. Len(P[b]) : ReadFirst(P[b], v, k)}}
                later == {D[c][v] + Len(P[b]) : c \in Children(P, b)}
            IN  CASE here # {}            -> CHOOSE k \in here : \A j \in here : k <= j
                  [] v \in Defined(P[b]) -> Infinity
                  [] OTHER               -> CHOOSE d \in later \cup {Infinity} :
                                               \A e \in later \cup {Infinity} : d <= e
        D[k \in 0 .. N * Cardinality(Vars)] ==
            IF k = 0 THEN [b \in Blocks |-> [v \in Vars |-> Infinity]]
            ELSE [b \in Blocks |-> [v \in Vars |-> Step(D[k - 1], b, v)]]
    IN  D[N * Cardinality(Vars)]

\* v's value at the k-th quadruple of b is read later, and the shortest
\* distance to that read
LiveAt(P, L, b, k, v) ==
    LET rest == SubSeq(P[b], k, Len(P[b]))
    IN  v \in UpwardExposed(rest) \/
        (v \notin Defined(rest) /\ \E c \in Children(P, b) : v \in L[c])

RefDistanceAt(P, D, b, k, v) ==
    LET rest == SubSeq(P[b], k, Len(P[b]))
        here == {j - 1 : j \in {j \in 1 .. Len(rest) : ReadFirst(rest, v, j)}}
        later == {D[c][v] + Len(rest) : c \in Children(P, b)}
    IN  IF here # {} THEN CHOOSE j \in here : \A i \in here : j <= i
        ELSE CHOOSE d \in later : \A e \in later : d <= e

-----------------------------------------------------------------------------
(* Properties.                                                             *)

TypeOK ==
    /\ prog \in Programs
    /\ cursor \in 1 .. N + 1
    /\ def \in [Blocks -> SUBSET Vars]
    /\ instr \in [Blocks -> Nat]
    /\ \A b \in Blocks : live_in[b] \in [DOMAIN live_in[b] -> Nat]
                       /\ DOMAIN live_in[b] \subseteq Vars
    /\ live_out \in [Blocks -> SUBSET Vars]
    /\ changed \in BOOLEAN
    /\ calls \in Seq(Blocks \X Blocks)
    /\ phase \in {"defuse", "iterate", "done"}

\* P2 and P6: when the analysis stops, vars_at_start and live_at_end of
\* every block the function can reach are exactly the variables live at its
\* start and end, whatever order the traversals visited the blocks in and
\* however the changed flag was raised and cleared along the way.
LiveSetsExact ==
    phase = "done" =>
        \A b \in Reachable(prog) :
            /\ DOMAIN vars_at_start[b] = RefLiveIn(prog)[b]
            /\ live_at_end[b] = UNION {RefLiveIn(prog)[c] : c \in Children(prog, b)}

\* The recorded nearest-use distance of a live-in variable is the shortest
\* distance to its next read, the minimum over the successors the spec
\* (4.5) prescribes and compute_in_out means to keep.
NearestUseIsMinimal ==
    phase = "done" =>
        \A b \in Reachable(prog) : \A v \in DOMAIN vars_at_start[b] :
            vars_at_start[b][v] = RefDistance(prog)[b][v]

\* The distance the code generator reads for a live variable, at any
\* quadruple of a reachable block, is never shorter than the real distance
\* to its next read: whatever successor compute_in_out took a distance
\* from, and whichever tree nearest_use_distance_from_quadr searches, it
\* never makes a variable look needed sooner than it is.
NearestUseNotUnderestimated ==
    phase = "done" =>
        LET L == RefLiveIn(prog)
            D == RefDistance(prog)
        IN  \A b \in Reachable(prog) : \A k \in 1 .. Len(prog[b]) + 1 : \A v \in Vars :
                LiveAt(prog, L, b, k, v) =>
                    nearest_use_distance_from_quadr(prog, vars_at_start, b, k, v)
                        >= RefDistanceAt(prog, D, b, k, v)

\* analyze_liveness terminates: the traversals stop once one adds nothing.
Terminates == <>(phase = "done")

=============================================================================
