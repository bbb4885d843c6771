------------------------------ MODULE LocalOpt ------------------------------
(***************************************************************************)
(* The local optimiser of src/opt.cpp, run on one basic block by          *)
(* perform_local_optimizations: first optimize_local, which rebuilds the  *)
(* block through a value-numbering DAG, then optimize_local_2, which      *)
(* removes copies and dead assignments from the result.                   *)
(*                                                                         *)
(* The block is built one quadruple at a time as optimize_local walks it  *)
(* (the code never looks ahead), so orig is the block read so far and    *)
(* code the list the loop has rebuilt so far.  Variables are numbered:    *)
(* 1..NVars are the function's variables, the numbers above are the      *)
(* variables declare_var adds.  Q_ADD and Q_SUB stand for the arithmetic  *)
(* operators (one commutative, one not), Q_PARAM for every other opcode, *)
(* all of which end a DAG segment the same way.                           *)
(***************************************************************************)
EXTENDS Integers, Sequences, SequencesExt, Pool

CONSTANTS NVars,        \* the function's variables are 1 .. NVars
          Consts,       \* integer constants the block copies into variables
          InputValues,  \* values the variables may hold when the block starts
          MaxLen,       \* longest block
          MaxTemps,     \* most variables declare_var adds in one block
          PoolInit,     \* elements of graph_node_pool's first chunk (512)
          NodeSize,     \* sizeof(graph_node_t)
          MaxChunks     \* address ranks a new chunk of the pool may take

\* the graph stays an rbtree of at most four nodes, whose shape is known
ASSUME NVars \in Nat /\ MaxLen \in 0 .. 4 /\ MaxTemps \in Nat

ProgVars == 1 .. NVars
AllVars == 1 .. NVars + MaxTemps
Temps == AllVars \ ProgVars
NULL == 0

\* quadr_arg_t, restricted to the tags a local block uses
NoArg == [tag |-> "none", val |-> 0]
VarArg(v) == [tag |-> "var", val |-> v]
IntArg(c) == [tag |-> "int", val |-> c]

Quadr(op, r, a1, a2) == [op |-> op, result |-> r, arg1 |-> a1, arg2 |-> a2]
NullQ == Quadr("null", NULL, NoArg, NoArg)      \* a NULL entry of qtab

ArithOps == {"add", "sub"}
OpCode == [add |-> 0, sub |-> 1]                \* Q_ADD, Q_SUB in quadr_op_t

is_commutative(op) == op = "add"

\* The quadruples the IR builder hands the optimiser: arithmetic on
\* variables, copies of a variable or a constant, and any other opcode.
ArithQuadrs == {Quadr(op, r, VarArg(a), VarArg(b)) : op \in ArithOps, r, a, b \in ProgVars}
CopyQuadrs == {Quadr("copy", r, a, NoArg) :
                 r \in ProgVars, a \in {VarArg(v) : v \in ProgVars} \cup {IntArg(c) : c \in Consts}}
OtherQuadrs == {Quadr("param", NULL, VarArg(v), NoArg) : v \in ProgVars}

used_in_quadr(q, v) == q.arg1 = VarArg(v) \/ q.arg2 = VarArg(v)
assigned_in_quadr(q, v) == q.result = v

-----------------------------------------------------------------------------
(* The DAG.  A node is a record of graph_node_t; its id is its index less *)
(* one, as next_id counts allocations and the one node ever freed is the  *)
(* last allocated.  A node's addr is where graph_node_pool put it, and   *)
(* dag.pool is that pool.  dag.graph lists the nodes in the rbtree in     *)
(* insertion order; loc is var_t.loc.  Operations that allocate take pos, *)
(* the address rank malloc gives a chunk the pool adds meanwhile.          *)
(***************************************************************************)
\* reset_graph: free_pool(graph_node_pool), then a fresh pool
EmptyDag == [nodes |-> <<>>, graph |-> <<>>, int_leaves |-> {},
             var_leaves |-> <<>>, loc |-> [v \in AllVars |-> NULL],
             pool |-> new_pool(PoolInit, NodeSize)]

get_id(n) == IF n = NULL THEN 0 ELSE n - 1

make_key(nodes, n) ==
    get_id(nodes[n].left) * 2^19 + get_id(nodes[n].right) * 2^6 + OpCode[nodes[n].op]

new_graph_leaf(d, arg, pos) ==
    LET pa == palloc(d.pool, pos)
    IN [d EXCEPT !.nodes = Append(@, [tag |-> "leaf", arg |-> arg, op |-> "none", left |-> NULL,
                                      right |-> NULL, vars |-> <<>>, result |-> NULL, addr |-> pa.addr]),
                 !.pool = pa.pool]

vl_erase(vl, v) == RemoveFirst(vl, v)

add_var(d, n, v) == [d EXCEPT !.nodes[n].vars = <<v>> \o @, !.loc[v] = n]

remove_var(d, n, v) ==
    IF d.nodes[n].tag = "leaf" THEN d ELSE [d EXCEPT !.nodes[n].vars = vl_erase(@, v)]

\* [dag |-> the graph after the lookup, node |-> the node of argument a]
get_node(d, a, pos) ==
    LET n == Len(d.nodes) + 1
        known == {m \in d.int_leaves : d.nodes[m].arg = a}
    IN CASE a.tag = "int" /\ known # {} -> [dag |-> d, node |-> CHOOSE m \in known : TRUE]
         [] a.tag = "int" ->
              [dag |-> [new_graph_leaf(d, a, pos) EXCEPT !.int_leaves = @ \cup {n}], node |-> n]
         [] d.loc[a.val] # NULL -> [dag |-> d, node |-> d.loc[a.val]]
         [] OTHER ->
              [dag |-> add_var([new_graph_leaf(d, a, pos) EXCEPT !.var_leaves = Append(@, n)], n, a.val),
               node |-> n]

\* the node just allocated goes back to the pool and next_id steps back
free_graph_node(d) ==
    [d EXCEPT !.nodes = SubSeq(@, 1, Len(@) - 1), !.pool = pfree(@, d.nodes[Len(d.nodes)].addr)]

Internal(tag) == IF tag = "root" THEN "internal" ELSE tag

\* a commutative node has its children in address order
new_graph_root(d, op, left, right, pos) ==
    LET swap == is_commutative(op) /\ AddrGreater(d.pool, d.nodes[left].addr, d.nodes[right].addr)
        l == IF swap THEN right ELSE left
        r == IF swap THEN left ELSE right
        pa == palloc(d.pool, pos)
        node == [tag |-> "root", arg |-> NoArg, op |-> op, left |-> l, right |-> r,
                 vars |-> <<>>, result |-> NULL, addr |-> pa.addr]
    IN [d EXCEPT !.nodes = [Append(@, node) EXCEPT ![l].tag = Internal(@), ![r].tag = Internal(@)],
                 !.pool = pa.pool]

-----------------------------------------------------------------------------
(* Flushing the DAG: gencode_from_graph.  st is [nodes, code, ntemps],    *)
(* ntemps counting the variables declare_var has added to the function.  *)
(***************************************************************************)
declare_var(st) == NVars + st.ntemps + 1

lst_append_quadr(lst, q) == Append(lst, q)

lst_append(lst1, lst2) == lst1 \o lst2

\* The quadruple constructors of src/quadr.c: a NULL variable is no argument.
VarOrNone(v) == IF v = NULL THEN NoArg ELSE VarArg(v)

new_quadr(op, result, left, right) == Quadr(op, result, VarOrNone(left), VarOrNone(right))

new_copy_quadr(result, arg) == Quadr("copy", result, arg, NoArg)

\* mutant: the input copy is never emitted
gencode_for_leaf_without_copy(st, n) ==
    [st EXCEPT !.nodes[n].result = declare_var(st), !.ntemps = @ + 1]

gencode_for_leaf(st, n) ==
    [st EXCEPT !.nodes[n].result = declare_var(st), !.ntemps = @ + 1,
               !.code = lst_append_quadr(@, new_copy_quadr(declare_var(st), st.nodes[n].arg))]

update_node_vars(st, n) ==
    LET nd == st.nodes[n]
        bad_var == IF nd.tag = "leaf" /\ nd.arg.tag = "var" THEN nd.arg.val ELSE NULL
        vs == SelectSeq(nd.vars, LAMBDA v : v # bad_var)
    IN [st EXCEPT !.code = lst_append(@, [i \in 1 .. Len(vs) |-> new_copy_quadr(vs[i], VarArg(nd.result))]),
                  !.nodes[n].vars = <<>>]

DO_CONSTANT_OP(op, val1, val2) == IF op = "add" THEN val1 + val2 ELSE val1 - val2

RECURSIVE gencode_for_node(_, _)
gencode_for_node(st, n) ==
    IF st.nodes[n].result # NULL THEN st
    ELSE IF st.nodes[n].tag = "leaf" THEN update_node_vars(gencode_for_leaf(st, n), n)
    ELSE LET l == st.nodes[n].left
             r == st.nodes[n].right
             s1 == IF st.nodes[l].result = NULL THEN gencode_for_node(st, l) ELSE st
             s2 == IF s1.nodes[r].result = NULL THEN gencode_for_node(s1, r) ELSE s1
             L == s2.nodes[l]
             R == s2.nodes[r]
             op == st.nodes[n].op
             var0 == declare_var(s2)
             fold == L.tag = "leaf" /\ R.tag = "leaf" /\ L.arg.tag = "int" /\ R.arg.tag = "int"
             val == IntArg(DO_CONSTANT_OP(op, L.arg.val, R.arg.val))
         IN update_node_vars(
              [s2 EXCEPT !.ntemps = @ + 1, !.nodes[n].result = var0,
                         !.nodes[n].tag = IF fold THEN "leaf" ELSE @,
                         !.nodes[n].arg = IF fold THEN val ELSE @,
                         !.code = lst_append_quadr(@, IF fold THEN new_copy_quadr(var0, val)
                                            ELSE new_quadr(op, var0, L.result, R.result))],
              n)

\* The rbtree holding graph (at most four nodes, compared by key): three
\* insertions always end balanced about the median, a fourth only recolours.
RECURSIVE PostOrder(_, _)
PostOrder(nodes, s) ==
    IF s = <<>> THEN <<>>
    ELSE LET k(m) == make_key(nodes, m)
         IN PostOrder(nodes, SelectSeq(Tail(s), LAMBDA m : k(m) < k(Head(s))))
            \o PostOrder(nodes, SelectSeq(Tail(s), LAMBDA m : k(m) > k(Head(s))))
            \o <<Head(s)>>

RbShape(nodes, s) ==
    IF Len(s) < 3 THEN s
    ELSE LET t == SortSeq(SubSeq(s, 1, 3), LAMBDA a, b : make_key(nodes, a) < make_key(nodes, b))
         IN <<t[2], t[1], t[3]>> \o SubSeq(s, 4, Len(s))

\* find_roots walks node, right subtree, left subtree and prepends: post-order
find_roots(d) == SelectSeq(PostOrder(d.nodes, RbShape(d.nodes, d.graph)),
                           LAMBDA m : d.nodes[m].tag = "root")

gencode_from_graph(d, ntemps) ==
    LET roots == find_roots(d)
        s0 == [nodes |-> d.nodes, code |-> <<>>, ntemps |-> ntemps]
        s1 == FoldLeft(gencode_for_leaf, s0, d.var_leaves)
        s2 == FoldLeft(gencode_for_node, s1, roots)
        s3 == FoldLeft(gencode_for_node, s2,
                       SetToSortSeq(d.int_leaves, LAMBDA a, b : d.nodes[a].arg.val < d.nodes[b].arg.val))
        s4 == FoldLeft(update_node_vars, s3, d.var_leaves)
    IN [code |-> s4.code, ntemps |-> s4.ntemps]

-----------------------------------------------------------------------------
(* optimize_local_2 on qtab, the block copied into an array; a removed    *)
(* quadruple is a NULL entry until the array is linked back into a list.  *)
(***************************************************************************)
Indices(t) == [k \in 1 .. Len(t) |-> k]

remove_redundant_copy(t, i) ==
    IF t[i].op = "copy" /\ t[i].arg1.tag = "var" /\ t[i].result = t[i].arg1.val
    THEN [t EXCEPT ![i] = NullQ] ELSE t

remove_redundant_copies(t) == FoldLeft(remove_redundant_copy, t, Indices(t))

\* the next quadruple after i that reads or writes v writes it without reading it
dead_at(t, i) ==
    /\ t[i] # NullQ
    /\ t[i].result # NULL
    /\ LET v == t[i].result
           js == {j \in i + 1 .. Len(t) : t[j] # NullQ /\ (used_in_quadr(t[j], v) \/ assigned_in_quadr(t[j], v))}
       IN js # {} /\ ~used_in_quadr(t[Min(js)], v)

remove_dead_assignment(t, i) == IF dead_at(t, i) THEN [t EXCEPT ![i] = NullQ] ELSE t

\* repeat the pass while it changes something
RECURSIVE remove_dead_assignments(_)
remove_dead_assignments(t) ==
    LET t2 == FoldLeft(remove_dead_assignment, t, Indices(t))
    IN IF t2 = t THEN t ELSE remove_dead_assignments(t2)

\* mutant: a read of var0 before the copy does not stop the renaming
can_backpropagate_ignoring_uses(t, i, var0, var1) ==
    LET js == {j \in 1 .. i : t[j] # NullQ /\ (assigned_in_quadr(t[j], var1) \/ assigned_in_quadr(t[j], var0))}
    IN js # {} /\ assigned_in_quadr(t[Max(js)], var1)

can_backpropagate(t, i, var0, var1) ==
    LET js == {j \in 1 .. i : t[j] # NullQ /\ (assigned_in_quadr(t[j], var1) \/
                                               used_in_quadr(t[j], var0) \/ assigned_in_quadr(t[j], var0))}
    IN js # {} /\ assigned_in_quadr(t[Max(js)], var1)

rename_args(q, from, to) ==
    [q EXCEPT !.arg1 = IF @ = VarArg(from) THEN VarArg(to) ELSE @,
              !.arg2 = IF @ = VarArg(from) THEN VarArg(to) ELSE @]

RECURSIVE propagate_backwards(_, _, _, _)
propagate_backwards(t, i, var0, var1) ==
    IF i < 1 THEN t
    ELSE IF t[i] = NullQ THEN propagate_backwards(t, i - 1, var0, var1)
    ELSE LET q == IF t[i].result = var1 THEN [t[i] EXCEPT !.result = var0] ELSE t[i]
         IN IF assigned_in_quadr(q, var0) THEN [t EXCEPT ![i] = q]
            ELSE propagate_backwards(remove_redundant_copy([t EXCEPT ![i] = rename_args(q, var1, var0)], i),
                                     i - 1, var0, var1)

RECURSIVE propagate_forwards(_, _, _, _)
propagate_forwards(t, i, var0, var1) ==
    IF i > Len(t) THEN t
    ELSE IF t[i] = NullQ THEN propagate_forwards(t, i + 1, var0, var1)
    ELSE LET q == rename_args(t[i], var0, var1)
             copies_them == q.op = "copy" /\ q.arg1 \in {VarArg(var1), VarArg(var0)}
         IN IF (assigned_in_quadr(q, var0) \/ assigned_in_quadr(q, var1)) /\ ~copies_them
            THEN [t EXCEPT ![i] = q]
            ELSE propagate_forwards(
                   remove_redundant_copy([t EXCEPT ![i] = IF q.result = var0 THEN [q EXCEPT !.result = var1]
                                                          ELSE q], i),
                   i + 1, var0, var1)

is_var_copy(q) == q.op = "copy" /\ q.arg1.tag = "var"

copy_backpropagation_step(t, i) ==
    LET t1 == remove_redundant_copy(t, i)
        q == t1[i]
    IN IF is_var_copy(q) /\ can_backpropagate(t1, i - 1, q.result, q.arg1.val)
       THEN [propagate_forwards(propagate_backwards(t1, i - 1, q.result, q.arg1.val),
                                i + 1, q.arg1.val, q.result)
             EXCEPT ![i] = [q EXCEPT !.result = q.arg1.val, !.arg1 = VarArg(q.result)]]
       ELSE t1

copy_backpropagation(t) == FoldLeft(copy_backpropagation_step, t, Reverse(Indices(t)))

copy_propagation_step(t, i) ==
    LET t1 == remove_redundant_copy(t, i)
    IN IF is_var_copy(t1[i]) THEN propagate_forwards(t1, i + 1, t1[i].result, t1[i].arg1.val)
       ELSE t1

copy_propagation(t) == FoldLeft(copy_propagation_step, t, Indices(t))

optimize_local_2(lst) ==
    SelectSeq(copy_propagation(copy_backpropagation(remove_dead_assignments(remove_redundant_copies(lst)))),
              LAMBDA q : q # NullQ)

-----------------------------------------------------------------------------
(* The meaning of a block: what it passes on (Q_PARAM) and what the       *)
(* function's variables hold at its end.  The variables declare_var adds  *)
(* start at 0: reading one before it is written is checked apart.         *)
(***************************************************************************)
Val(a, env) == IF a.tag = "int" THEN a.val ELSE env[a.val]

ExecQuadr(s, q) ==
    CASE q.op = "add"   -> [s EXCEPT !.env[q.result] = Val(q.arg1, s.env) + Val(q.arg2, s.env)]
      [] q.op = "sub"   -> [s EXCEPT !.env[q.result] = Val(q.arg1, s.env) - Val(q.arg2, s.env)]
      [] q.op = "copy"  -> [s EXCEPT !.env[q.result] = Val(q.arg1, s.env)]
      [] q.op = "param" -> [s EXCEPT !.out = Append(@, Val(q.arg1, s.env))]

Observable(qs, env) ==
    LET s == FoldLeft(ExecQuadr, [env |-> env, out |-> <<>>], qs)
    IN [vars |-> [v \in ProgVars |-> s.env[v]], out |-> s.out]

Inputs == {[v \in AllVars |-> IF v \in ProgVars THEN f[v] ELSE 0] : f \in [ProgVars -> InputValues]}

SameBehaviour(qs1, qs2) == \A env \in Inputs : Observable(qs1, env) = Observable(qs2, env)

-----------------------------------------------------------------------------
VARIABLES orig,     \* the quadruples of the block optimize_local has read
          code,     \* block->lst as optimize_local has rebuilt it
          dag,      \* the graph and the statics of opt.cpp
          ntemps,   \* variables declare_var has added
          phase,    \* "local", "local_2" (optimize_local_2 to run), "done"
          final     \* block->lst after optimize_local_2

vars == <<orig, code, dag, ntemps, phase, final>>

Init ==
    /\ orig = <<>>
    /\ code = <<>>
    /\ dag = EmptyDag
    /\ ntemps = 0
    /\ phase = "local"
    /\ final = <<>>

\* optimize_local reads the next quadruple of the block
Read(q) ==
    /\ phase = "local"
    /\ Len(orig) < MaxLen
    /\ orig' = Append(orig, q)

\* mutant: the node freed as a duplicate is the one the result names
Arith_keeping_freed_node(q, pos) ==
    /\ Read(q)
    /\ LET var == q.result
           res == dag.loc[var]
           g1 == get_node(dag, q.arg1, pos)
           g2 == get_node(g1.dag, q.arg2, pos)
           g3 == new_graph_root(g2.dag, q.op, g1.node, g2.node, pos)
           n == Len(g3.nodes)
           same == {m \in Range(g3.graph) : make_key(g3.nodes, m) = make_key(g3.nodes, n)}
           g4 == IF same = {} THEN [g3 EXCEPT !.graph = Append(@, n)]
                 ELSE free_graph_node(g3)
           g5 == IF res # NULL THEN remove_var(g4, res, var) ELSE g4
       IN dag' = [g5 EXCEPT !.loc[var] = n]
    /\ UNCHANGED <<code, ntemps, phase, final>>

\* case Q_ADD ... Q_MOD: value-number the result
Arith(q, pos) ==
    /\ Read(q)
    /\ LET var == q.result
           res == dag.loc[var]
           g1 == get_node(dag, q.arg1, pos)
           g2 == get_node(g1.dag, q.arg2, pos)
           g3 == new_graph_root(g2.dag, q.op, g1.node, g2.node, pos)
           n == Len(g3.nodes)
           same == {m \in Range(g3.graph) : make_key(g3.nodes, m) = make_key(g3.nodes, n)}
           g4 == IF same = {} THEN [g3 EXCEPT !.graph = Append(@, n)]
                 ELSE free_graph_node(g3)
           node == IF same = {} THEN n ELSE CHOOSE m \in same : TRUE
           g5 == IF res # NULL THEN remove_var(g4, res, var) ELSE g4
       IN dag' = add_var(g5, node, var)
    /\ UNCHANGED <<code, ntemps, phase, final>>

\* case Q_COPY: the result now names the node of the argument
Copy(q, pos) ==
    /\ Read(q)
    /\ LET var == q.result
           g1 == get_node(dag, q.arg1, pos)
           node2 == g1.dag.loc[var]
           g2 == IF node2 # NULL THEN remove_var(g1.dag, node2, var) ELSE g1.dag
       IN dag' = add_var(g2, g1.node, var)
    /\ UNCHANGED <<code, ntemps, phase, final>>

\* default: flush the graph in front of the quadruple, which stays
Other(q) ==
    /\ Read(q)
    /\ LET fl == gencode_from_graph(dag, ntemps)
       IN /\ code' = code \o fl.code \o <<q>>
          /\ ntemps' = fl.ntemps
    /\ dag' = EmptyDag
    /\ UNCHANGED <<phase, final>>

\* end of the block: the last flush
EndOfBlock ==
    /\ phase = "local"
    /\ LET fl == gencode_from_graph(dag, ntemps)
       IN /\ code' = code \o fl.code
          /\ ntemps' = fl.ntemps
    /\ dag' = EmptyDag
    /\ phase' = "local_2"
    /\ UNCHANGED <<orig, final>>

OptimizeLocal2 ==
    /\ phase = "local_2"
    /\ final' = optimize_local_2(code)
    /\ phase' = "done"
    /\ UNCHANGED <<orig, code, dag, ntemps>>

Next ==
    \/ \E q \in ArithQuadrs, pos \in 1 .. MaxChunks : Arith(q, pos)
    \/ \E q \in CopyQuadrs, pos \in 1 .. MaxChunks : Copy(q, pos)
    \/ \E q \in OtherQuadrs : Other(q)
    \/ EndOfBlock
    \/ OptimizeLocal2

Spec == Init /\ [][Next]_vars

-----------------------------------------------------------------------------
ArgOK(a) == a = NoArg \/ (a.tag = "var" /\ a.val \in AllVars) \/ (a.tag = "int" /\ a.val \in Int)

QuadrOK(q) ==
    /\ DOMAIN q = {"op", "result", "arg1", "arg2"}
    /\ q.op \in ArithOps \cup {"copy", "param", "null"}
    /\ q.result \in AllVars \cup {NULL}
    /\ ArgOK(q.arg1) /\ ArgOK(q.arg2)

TypeOK ==
    /\ orig \in Seq(ArithQuadrs \cup CopyQuadrs \cup OtherQuadrs)
    /\ \A i \in 1 .. Len(code) : QuadrOK(code[i])
    /\ \A i \in 1 .. Len(final) : QuadrOK(final[i])
    /\ ntemps \in 0 .. MaxTemps
    /\ phase \in {"local", "local_2", "done"}
    /\ dag.loc \in [AllVars -> 0 .. Len(dag.nodes)]
    /\ Len(dag.graph) <= 4
    /\ Len(dag.pool.nodes) <= MaxChunks /\ Len(dag.pool.layout) = Len(dag.pool.nodes)

\* Every variable the optimiser declares is written before the rebuilt
\* block reads it: gencode_from_graph copies the input leaves first and
\* emits a node after its children, and the copy passes of
\* optimize_local_2 rename reads only where a write precedes them.
DefinedBeforeUse(qs) ==
    \A i \in 1 .. Len(qs) : \A v \in Temps :
        used_in_quadr(qs[i], v) => \E j \in 1 .. i - 1 : assigned_in_quadr(qs[j], v)

TempsWrittenBeforeRead == DefinedBeforeUse(code) /\ DefinedBeforeUse(final)

\* optimize_local_2 (redundant copies, dead assignments, copy back- and
\* forward propagation) passes on the same values and leaves the function's
\* variables with the same values as the list optimize_local built.
Local2PreservesMeaning == phase = "done" => SameBehaviour(code, final)

\* graph_node_pool keeps track of the DAG's nodes exactly: no two nodes of
\* the graph share an address, and the pool's free lists and free-chunk
\* list (palloc in new_graph_leaf and new_graph_root, pfree of a duplicate
\* root in free_graph_node, chunks added as the pool grows) hold every
\* other element of the pool once, with no cycle and no chunk left out.
GraphPoolSound ==
    /\ \A m, n \in 1 .. Len(dag.nodes) : dag.nodes[m].addr = dag.nodes[n].addr => m = n
    /\ PoolConsistent(dag.pool, {dag.nodes[n].addr : n \in 1 .. Len(dag.nodes)})

\* (P4) The whole local optimisation of a block (optimize_local then
\* optimize_local_2) is semantics-preserving on integer arithmetic.
LocalOptPreservesMeaning == phase = "done" => SameBehaviour(orig, final)

=============================================================================
