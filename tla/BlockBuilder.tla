---------------------------- MODULE BlockBuilder ----------------------------
(***************************************************************************)
(* The IR builder's control flow: how do_semantic_check (src/src/tree.c)  *)
(* lowers if, if-else, while and for statements with short-circuit        *)
(* conditions into basic blocks through gen_quadr_bool_expr, gen_goto,    *)
(* quadr_arg_label, add_quadr and add_basic_blocks (src/src/quadr.c).     *)
(* Blocks come from basic_block_pool, a pool_t of module Pool: a block    *)
(* add_basic_blocks drops is pfree'd, and the next new_basic_block gets   *)
(* its memory back.                                                        *)
(*                                                                         *)
(* Statements arrive in the order the tree walk generates code for them:  *)
(* a compound statement is split at its nested bodies into a Begin, an    *)
(* Else and an End step, each the code of the handler between two        *)
(* recursive calls.  Program variables are 1 .. NVars; the temporaries    *)
(* quadr_arg declares for constants are numbered above them.              *)
(***************************************************************************)
EXTENDS Integers, Sequences, SequencesExt, Pool

CONSTANTS NVars,      \* the function's variables are 1 .. NVars
          Consts,     \* integer constants assigned to them
          Conds,      \* the boolean conditions statements test
          MaxStmts,   \* statements in the function
          MaxDepth,   \* nesting depth of compound statements
          PoolInit,   \* elements of basic_block_pool's first chunk (1024)
          BlockSize,  \* sizeof(basic_block_t)
          EmptyLoops, \* whether a while body may be empty (see EndLoop)
          AssignConds \* the conditions whose value is assigned to a variable

NoBlock == Addr(0, 0)

\* expressions: a comparison of two variables, a boolean literal, a boolean
\* variable, !, &&, ||
Cmp(op, l, r) == [kind |-> "cmp", op |-> op, left |-> l, right |-> r]
BoolLit(v) == [kind |-> "bool", val |-> v]
BoolVar(v) == [kind |-> "var", var |-> v]
Not(e) == [kind |-> "not", arg |-> e]
And(l, r) == [kind |-> "and", left |-> l, right |-> r]
Or(l, r) == [kind |-> "or", left |-> l, right |-> r]

\* quadr_arg_t and quadr_t for the opcodes this lowering emits
NoArg == [tag |-> "none", val |-> 0]
VarArg(v) == [tag |-> "var", val |-> v]
IntArg(c) == [tag |-> "int", val |-> c]
LabelArg(b) == [tag |-> "label", val |-> b]

Quadr(op, cmp, result, a1, a2) == [op |-> op, cmp |-> cmp, result |-> result, arg1 |-> a1, arg2 |-> a2]

\* quadr_if_op: the Q_IF_* that jumps when the comparison is jmp_if_true
Negated == [eq |-> "ne", ne |-> "eq", gt |-> "le", lt |-> "ge", ge |-> "lt", le |-> "gt"]
\* mutant: NODE_LT negated to Q_IF_GT, losing the equal case
quadr_if_op_lt_to_gt(op, jmp_if_true) ==
    IF jmp_if_true THEN op ELSE [Negated EXCEPT !.lt = "gt"][op]
quadr_if_op(op, jmp_if_true) == IF jmp_if_true THEN op ELSE Negated[op]

is_if_op(op) == op = "if"
is_block_end(op) == op \notin {"copy"}

-----------------------------------------------------------------------------
(* The builder's state B: the pool, the memory of every block the pool    *)
(* has handed out (mem), cur_func->blocks, cur_block, prev_block, the     *)
(* temporaries declared and whether an assert has failed.  A block is     *)
(* [lst, pnext, next, referenced]: pnext records that pfree wrote the     *)
(* pool's free link over lst.head, so the head reads as non-NULL.         *)
(* basic_block_pool's chunks are never compared, so where malloc puts a   *)
(* new chunk does not matter and palloc is given rank 1.                  *)
(***************************************************************************)
EmptyBlock == [lst |-> <<>>, pnext |-> FALSE, next |-> NoBlock, referenced |-> FALSE]

NewBlockAddr(B) == palloc(B.pool, 1).addr

new_basic_block(B) ==
    LET pa == palloc(B.pool, 1)
    IN [B EXCEPT !.pool = pa.pool, !.mem = (pa.addr :> EmptyBlock) @@ @]

\* mutant: the block's own data is released, the block is not pfree'd
free_basic_block_without_pfree(B, b) == B

\* PNEXT(ptr) = the chunk's free-list head, NULL when the chunk was full
free_basic_block(B, b) ==
    [B EXCEPT !.pool = pfree(@, b), !.mem[b].pnext = B.pool.nodes[b.chunk].free # <<>>]

HeadIsNull(B, b) == B.mem[b].lst = <<>> /\ ~B.mem[b].pnext

\* [b |-> the builder after, label |-> the block the jump names]
quadr_arg_label(B, label) ==
    LET nb == NewBlockAddr(B)
        B1 == new_basic_block(B)
    IN CASE ~HeadIsNull(B, label) -> [b |-> B, label |-> label]
         [] B.mem[label].referenced ->
              [b |-> [B1 EXCEPT !.mem[nb].next = B.mem[label].next, !.mem[label].next = nb,
                                !.mem[nb].referenced = TRUE],
               label |-> nb]
         [] OTHER -> [b |-> [B EXCEPT !.mem[label].referenced = TRUE], label |-> label]

add_quadr(B, blk, q) ==
    LET lst == B.mem[blk].lst
    IN [B EXCEPT !.mem[blk].lst = Append(@, q),
                 !.failed = @ \/ (lst # <<>> /\ is_block_end(Last(lst).op))]

\* the loop of add_basic_blocks that walks to the last block of the chain
RECURSIVE WalkToEnd(_, _, _)
WalkToEnd(mem, prev, b) ==
    IF mem[b].next = NoBlock THEN [prev |-> prev, cur |-> b] ELSE WalkToEnd(mem, b, mem[b].next)

\* mutant: an empty block is merged away although a jump names it
add_basic_blocks_keeps_ignoring_mark(B) == B.prev = NoBlock \/ B.mem[B.cur].lst # <<>>

\* whether add_basic_blocks leaves cur_block in the list: not an empty block
\* after another that no jump names
add_basic_blocks_keeps(B) ==
    B.prev = NoBlock \/ B.mem[B.cur].lst # <<>> \/ B.mem[B.cur].referenced

\* cur_block and prev_block set to the last two blocks the walk passed
add_basic_blocks_at_end(B2, w) == [B2 EXCEPT !.prev = w.prev, !.cur = w.cur]

add_basic_blocks_walk(B2, bl) == add_basic_blocks_at_end(B2, WalkToEnd(B2.mem, B2.prev, bl))

\* bl linked in after cur_block (or as the list when there is none, or in
\* place of an empty cur_block, which is freed), then the walk to the end;
\* B is the builder before, B1 the one after the dummy block was made
add_basic_blocks_link(B, B1, bl) ==
    LET cur == B.cur
        B2 == CASE cur = NoBlock -> [B1 EXCEPT !.blocks = bl, !.prev = NoBlock]
                [] add_basic_blocks_keeps(B) -> [B1 EXCEPT !.mem[cur].next = bl, !.prev = cur]
                [] OTHER -> [free_basic_block([B1 EXCEPT !.failed = @ \/ B1.mem[B1.prev].next # cur], cur)
                                 EXCEPT !.mem[B1.prev].next = bl]
    IN add_basic_blocks_walk(B2, bl)

\* a block ending in a conditional jump gets an empty dummy block after it
add_basic_blocks(B, blocks) ==
    LET dummy == NewBlockAddr(B)
        withDummy == B.cur # NoBlock /\ B.mem[B.cur].lst # <<>> /\ is_if_op(Last(B.mem[B.cur].lst).op)
    IN add_basic_blocks_link(B,
         IF withDummy
         THEN [new_basic_block(B) EXCEPT !.mem[dummy].next = blocks, !.mem[dummy].referenced = TRUE]
         ELSE B,
         IF withDummy THEN dummy ELSE blocks)

\* mutant: the code after a jump goes on in the jump's block
add_new_block_omitted(B) == B

\* add_basic_blocks(new_basic_block()): the argument is allocated first
add_new_block(B) == add_basic_blocks(new_basic_block(B), NewBlockAddr(B))

\* the jump quadr with quadr_arg_label's label as its result, added to the
\* block quadr_arg_label left current, then add_basic_blocks(new_basic_block());
\* L is quadr_arg_label's [b, label]
emit_jump(L, op, cmp, a1, a2) ==
    add_new_block(add_quadr(L.b, L.b.cur, Quadr(op, cmp, LabelArg(L.label), a1, a2)))

gen_goto(B, to) == emit_jump(quadr_arg_label(B, to), "goto", "none", NoArg, NoArg)

gen_copy(B, var, arg) == add_quadr(B, B.cur, Quadr("copy", "none", VarArg(var), arg, NoArg))

\* mutant: the temporary is numbered one past the one declared
quadr_arg_int_skipping(B, c) ==
    LET t == NVars + B.ntemps + 2
    IN [b |-> gen_copy([B EXCEPT !.ntemps = @ + 1], t, IntArg(c)), arg |-> VarArg(t)]

\* quadr_arg(TYPE_INT, c): a new temporary, copied the constant
quadr_arg_int(B, c) ==
    LET t == NVars + B.ntemps + 1
    IN [b |-> gen_copy([B EXCEPT !.ntemps = @ + 1], t, IntArg(c)), arg |-> VarArg(t)]

\* gen_quadr_bool_expr's NODE_IDENT case: the label first, then the constant
\* 0 in a temporary, then the jump when var != 0 is jmp_if_true
emit_if_nonzero(L, var, jmp_if_true) ==
    LET Z == quadr_arg_int(L.b, 0)
    IN emit_jump([b |-> Z.b, label |-> L.label], "if", quadr_if_op("ne", jmp_if_true), VarArg(var), Z.arg)

RECURSIVE gen_quadr_bool_expr(_, _, _, _)
gen_quadr_bool_expr(B, e, jmp_dest, jmp_if_true) ==
    CASE e.kind = "cmp" ->
           emit_jump(quadr_arg_label(B, jmp_dest), "if", quadr_if_op(e.op, jmp_if_true),
                     VarArg(e.left), VarArg(e.right))
      [] e.kind \in {"and", "or"} /\ jmp_if_true = (e.kind = "and") ->
           LET end == NewBlockAddr(B)
               B1 == new_basic_block(B)
               B2 == gen_quadr_bool_expr(B1, e.left, end, ~jmp_if_true)
               B3 == gen_quadr_bool_expr(B2, e.right, end, ~jmp_if_true)
           IN add_basic_blocks(gen_goto(B3, jmp_dest), end)
      [] e.kind \in {"and", "or"} ->
           gen_quadr_bool_expr(gen_quadr_bool_expr(B, e.left, jmp_dest, jmp_if_true),
                               e.right, jmp_dest, jmp_if_true)
      [] e.kind = "not" -> gen_quadr_bool_expr(B, e.arg, jmp_dest, ~jmp_if_true)
      [] e.kind = "bool" -> IF e.val = jmp_if_true THEN gen_goto(B, jmp_dest) ELSE B
      [] e.kind = "var" -> emit_if_nonzero(quadr_arg_label(B, jmp_dest), e.var, jmp_if_true)

\* the rest of gen_quadr_expr's boolean case, from the builder B1 after the
\* condition's jumps: var = false; goto end; if_true: var = true; end:
gen_bool_value_join(B1, t, if_true) ==
    LET end == NewBlockAddr(B1)
        B2 == gen_goto(gen_copy(new_basic_block(B1), t, IntArg(0)), end)
    IN [b |-> add_basic_blocks(gen_copy(add_basic_blocks(B2, if_true), t, IntArg(1)), end),
        arg |-> VarArg(t)]

\* gen_quadr_expr of a boolean expression that is not a variable:
\* [b |-> the builder after, arg |-> the temporary holding 0 or 1]
gen_bool_value(B, e) ==
    LET t == NVars + B.ntemps + 1
        B0 == [B EXCEPT !.ntemps = @ + 1]
        if_true == NewBlockAddr(B0)
    IN gen_bool_value_join(add_new_block(gen_quadr_bool_expr(new_basic_block(B0), e, if_true, TRUE)),
                           t, if_true)

-----------------------------------------------------------------------------
VARIABLES bld,      \* the builder: basic_block_pool, block memory, cur_func->blocks,
                    \* cur_block, prev_block, temporaries, failed assertions
          stack,    \* the statements under construction, innermost last, with
                    \* the blocks their handlers keep in locals
          nstmts,   \* statements begun
          phase     \* "gen", then "done" once end_function has run

vars == <<bld, stack, nstmts, phase>>

\* a frame: the statement's kind, its condition, its blocks (if_false,
\* if_end, b_cond, b_while / b_body), for's step, and the source of its
\* bodies so far
Frame(kind, cond, l1, l2, step) ==
    [kind |-> kind, cond |-> cond, l1 |-> l1, l2 |-> l2, step |-> step, body |-> <<>>, then |-> <<>>]

Top == stack[Len(stack)]

AddStmt(st, s) == [st EXCEPT ![Len(st)].body = Append(@, s)]

Pop(s) == AddStmt(SubSeq(stack, 1, Len(stack) - 1), s)

Assigns == {[kind |-> "assign", var |-> v, val |-> c] : v \in 1 .. NVars, c \in Consts}

BoolAssigns == {[kind |-> "boolassign", var |-> v, cond |-> c] : v \in 1 .. NVars, c \in AssignConds}

\* mutant: an if counts as returning when its then branch returns
RECURSIVE was_return_then_only(_)
was_return_then_only(ss) ==
    \E i \in 1 .. Len(ss) :
        \/ ss[i].kind = "return"
        \/ ss[i].kind = "if" /\ was_return_then_only(ss[i].then)

\* do_semantic_check's was_return: a return, or an if-else whose branches
\* both return, among the statements
RECURSIVE was_return(_)
was_return(ss) ==
    \E i \in 1 .. Len(ss) :
        \/ ss[i].kind = "return"
        \/ ss[i].kind = "if" /\ was_return(ss[i].then) /\ was_return(ss[i].else)

\* quadr_init's new_pool, then start_function: the first block is current
Init ==
    /\ LET B0 == [pool |-> new_pool(PoolInit, BlockSize), mem |-> <<>>, blocks |-> NoBlock,
                  cur |-> NoBlock, prev |-> NoBlock, ntemps |-> 0, failed |-> FALSE]
           first == NewBlockAddr(B0)
       IN bld = [new_basic_block(B0) EXCEPT !.blocks = first, !.cur = first]
    /\ stack = <<Frame("func", BoolLit(TRUE), NoBlock, NoBlock, NoArg)>>
    /\ nstmts = 0
    /\ phase = "gen"

CanBegin == phase = "gen" /\ nstmts < MaxStmts

\* gen_assign: gen_copy(var, gen_quadr_expr(expr)) of a constant or a condition
gen_assign(B, s) ==
    LET r == IF s.kind = "assign" THEN quadr_arg_int(B, s.val) ELSE gen_bool_value(B, s.cond)
    IN gen_copy(r.b, s.var, r.arg)

Assign(s) ==
    /\ CanBegin
    /\ bld' = gen_assign(bld, s)
    /\ stack' = AddStmt(stack, s)
    /\ nstmts' = nstmts + 1
    /\ UNCHANGED phase

Push(B, f) ==
    /\ CanBegin /\ Len(stack) <= MaxDepth
    /\ bld' = B
    /\ stack' = Append(stack, f)
    /\ nstmts' = nstmts + 1
    /\ UNCHANGED phase

\* NODE_IF and NODE_IF_ELSE up to the then branch
BeginIf(c, kind) ==
    LET if_false == NewBlockAddr(bld)
    IN Push(add_new_block(gen_quadr_bool_expr(new_basic_block(bld), c, if_false, FALSE)),
            Frame(kind, c, if_false, NoBlock, NoArg))

EndIf ==
    /\ phase = "gen" /\ Top.kind = "if"
    /\ bld' = add_basic_blocks(bld, Top.l1)
    /\ stack' = Pop([kind |-> "if", cond |-> Top.cond, then |-> Top.body, else |-> <<>>])
    /\ UNCHANGED <<nstmts, phase>>

\* NODE_IF_ELSE between the branches
Else ==
    /\ phase = "gen" /\ Top.kind = "ifelse"
    /\ LET if_end == NewBlockAddr(bld)
       IN /\ bld' = add_basic_blocks(gen_goto(new_basic_block(bld), if_end), Top.l1)
          /\ stack' = [stack EXCEPT ![Len(stack)] = [Top EXCEPT !.kind = "else", !.l2 = if_end,
                                                              !.then = Top.body, !.body = <<>>]]
    /\ UNCHANGED <<nstmts, phase>>

EndIfElse ==
    /\ phase = "gen" /\ Top.kind = "else"
    /\ bld' = add_basic_blocks(bld, Top.l2)
    /\ stack' = Pop([kind |-> "if", cond |-> Top.cond, then |-> Top.then, else |-> Top.body])
    /\ UNCHANGED <<nstmts, phase>>

\* NODE_WHILE and NODE_FOR up to the body (for's instr1 is the statement
\* before): jump to the condition block, start the body block
BeginLoop(c, kind, step) ==
    LET b_cond == NewBlockAddr(bld)
        B1 == gen_goto(new_basic_block(bld), b_cond)
        b_body == NewBlockAddr(B1)
    IN Push(add_basic_blocks(new_basic_block(B1), b_body), Frame(kind, c, b_cond, b_body, step))

\* after the body (and for's instr3).  A while whose body is empty is
\* miscompiled (the emptyloop run); with EmptyLoops FALSE the other
\* properties are checked on functions without one.  The condition jumps
\* back to the body.
EndLoop ==
    /\ phase = "gen" /\ Top.kind \in {"while", "for"}
    /\ EmptyLoops \/ Top.kind = "for" \/ Top.body # <<>>
    /\ LET B1 == IF Top.kind = "for" THEN gen_assign(bld, Top.step) ELSE bld
           body == IF Top.kind = "for" THEN Append(Top.body, Top.step) ELSE Top.body
       IN /\ bld' = add_new_block(gen_quadr_bool_expr(add_basic_blocks(B1, Top.l1), Top.cond, Top.l2, TRUE))
          /\ stack' = Pop([kind |-> "while", cond |-> Top.cond, body |-> body])
    /\ UNCHANGED <<nstmts, phase>>

\* the end of a void function without return: a new block and Q_RETURN
gen_quadr_return(B) == add_quadr(B, B.cur, Quadr("return", "none", NoArg, NoArg, NoArg))

\* NODE_RETURN of gen_quadr, without a value: Q_RETURN, then a new block
return_stmt(B) == add_new_block(add_quadr(B, B.cur, Quadr("return", "none", NoArg, NoArg, NoArg)))

\* NODE_RETURN of do_semantic_check in a void function
Return ==
    /\ CanBegin
    /\ bld' = return_stmt(bld)
    /\ stack' = AddStmt(stack, [kind |-> "return"])
    /\ nstmts' = nstmts + 1
    /\ UNCHANGED phase

\* unless the body was_return, a new block and Q_RETURN
EndFunction ==
    /\ phase = "gen" /\ Len(stack) = 1
    /\ bld' = IF was_return(stack[1].body) THEN bld ELSE gen_quadr_return(add_new_block(bld))
    /\ phase' = "done"
    /\ UNCHANGED <<stack, nstmts>>

Next ==
    \/ \E s \in Assigns \cup BoolAssigns : Assign(s)
    \/ Return
    \/ \E c \in Conds, kind \in {"if", "ifelse"} : BeginIf(c, kind)
    \/ EndIf
    \/ Else
    \/ EndIfElse
    \/ \E c \in Conds : BeginLoop(c, "while", NoArg)
    \/ \E c \in Conds, s \in Assigns : BeginLoop(c, "for", s)
    \/ EndLoop
    \/ EndFunction

Spec == Init /\ [][Next]_vars

-----------------------------------------------------------------------------
(* The block list the function ends with, and what running it does.  A    *)
(* block runs its copies, then its last quadruple decides: Q_GOTO and a    *)
(* Q_IF_* that holds jump to the label, Q_RETURN ends the function, and    *)
(* anything else falls through to block->next (the edges flow.c gives).   *)
(* A run that reaches a block and valuation it has seen never ends.  The   *)
(* last block falls through to the "ret" end_func writes after it, when   *)
(* it writes one, and otherwise off the end of the function's text.       *)
(***************************************************************************)
RECURSIVE ListFrom(_, _, _)
ListFrom(mem, blk, acc) ==
    IF blk = NoBlock \/ blk \in Range(acc) THEN acc ELSE ListFrom(mem, mem[blk].next, Append(acc, blk))

BlockList(B) == ListFrom(B.mem, B.blocks, <<>>)

Ok(env) == [kind |-> "ok", env |-> env]
Diverges == [kind |-> "diverges", env |-> <<>>]
Dangling == [kind |-> "dangling", env |-> <<>>]
FallsOff == [kind |-> "falls off", env |-> <<>>]

EndsWithReturn(B, b) == B.mem[b].lst # <<>> /\ Last(B.mem[b].lst).op = "return"

\* end_func of the x86 backend writes a "ret" after the last block unless
\* that block ends with Q_RETURN, or is empty after a block that does
end_func_adds_return(B, L) ==
    LET last == Last(L)
    IN ~(\/ EndsWithReturn(B, last)
         \/ B.mem[last].lst = <<>> /\ Len(L) > 1 /\ EndsWithReturn(B, L[Len(L) - 1]))

Val(a, env) == IF a.tag = "int" THEN a.val ELSE env[a.val]

Holds(op, x, y) ==
    CASE op = "eq" -> x = y [] op = "ne" -> x # y [] op = "lt" -> x < y
      [] op = "gt" -> x > y [] op = "le" -> x <= y [] op = "ge" -> x >= y

RunCopy(env, q) == IF q.op = "copy" THEN [env EXCEPT ![q.result.val] = Val(q.arg1, env)] ELSE env

RECURSIVE Run(_, _, _, _, _, _)
Run(B, listed, ret, blk, env, seen) ==
    LET lst == B.mem[blk].lst
        env1 == FoldLeft(RunCopy, env, lst)
        q == IF lst = <<>> THEN Quadr("none", "none", NoArg, NoArg, NoArg) ELSE Last(lst)
        jumps == q.op = "goto" \/ (q.op = "if" /\ Holds(q.cmp, Val(q.arg1, env1), Val(q.arg2, env1)))
        to == IF jumps THEN q.result.val ELSE B.mem[blk].next
    IN CASE blk \notin listed -> Dangling
         [] <<blk, env>> \in seen -> Diverges
         [] q.op = "return" -> Ok(env1)
         [] to = NoBlock -> IF ret THEN Ok(env1) ELSE FallsOff
         [] OTHER -> Run(B, listed, ret, to, env1, seen \cup {<<blk, env>>})

\* the function run from a valuation of its variables, temporaries at 0
Compiled(B, in) ==
    LET L == BlockList(B)
        r == Run(B, Range(L), end_func_adds_return(B, L), B.blocks, [v \in 1 .. NVars + B.ntemps |-> IF v <= NVars THEN in[v] ELSE 0], {})
    IN IF r.kind = "ok" THEN Ok([v \in 1 .. NVars |-> r.env[v]]) ELSE r

\* the source's meaning, statement by statement
RECURSIVE Eval(_, _)
Eval(e, env) ==
    CASE e.kind = "cmp" -> Holds(e.op, env[e.left], env[e.right])
      [] e.kind = "var" -> env[e.var] # 0
      [] e.kind = "bool" -> e.val
      [] e.kind = "not" -> ~Eval(e.arg, env)
      [] e.kind = "and" -> Eval(e.left, env) /\ Eval(e.right, env)
      [] e.kind = "or" -> Eval(e.left, env) \/ Eval(e.right, env)

RECURSIVE ExecStmts(_, _), ExecStmt(_, _), Loop(_, _, _, _)
ExecStmts(ss, env) ==
    IF ss = <<>> THEN Ok(env)
    ELSE LET r == ExecStmt(Head(ss), env) IN IF r.kind = "ok" THEN ExecStmts(Tail(ss), r.env) ELSE r

ExecStmt(s, env) ==
    CASE s.kind = "assign" -> Ok([env EXCEPT ![s.var] = s.val])
      [] s.kind = "boolassign" -> Ok([env EXCEPT ![s.var] = IF Eval(s.cond, env) THEN 1 ELSE 0])
      [] s.kind = "return" -> [kind |-> "ret", env |-> env]
      [] s.kind = "if" -> ExecStmts(IF Eval(s.cond, env) THEN s.then ELSE s.else, env)
      [] s.kind = "while" -> Loop(s.cond, s.body, env, {})

Loop(c, body, env, seen) ==
    CASE ~Eval(c, env) -> Ok(env)
      [] env \in seen -> Diverges
      [] OTHER -> LET r == ExecStmts(body, env)
                  IN IF r.kind = "ok" THEN Loop(c, body, r.env, seen \cup {env}) ELSE r

Inputs == [1 .. NVars -> Consts]

-----------------------------------------------------------------------------
TypeOK ==
    /\ phase \in {"gen", "done"}
    /\ nstmts \in 0 .. MaxStmts
    /\ Len(stack) \in 1 .. MaxDepth + 1
    /\ bld.failed \in BOOLEAN
    /\ {bld.cur, bld.blocks} \subseteq DOMAIN bld.mem
    /\ \A blk \in DOMAIN bld.mem : \A i \in 1 .. Len(bld.mem[blk].lst) :
          LET r == bld.mem[blk].lst[i].result
          IN \/ r.tag = "none"
             \/ r.tag = "label" /\ r.val \in DOMAIN bld.mem
             \/ r.tag = "var" /\ r.val \in 1 .. NVars + bld.ntemps

\* No assert of the builder fails: add_quadr never appends after a jump or
\* return (every Q_IF_*, Q_GOTO and Q_RETURN is followed by a new block),
\* and a block add_basic_blocks merges away is the one prev_block links to.
NoAssertionFailure == ~bld.failed

\* When the function is done every block basic_block_pool handed out is on
\* the function's block list, once, or back in the pool: add_basic_blocks
\* frees exactly the blocks it unlinks, and the list ends at NULL.
BlocksAccounted ==
    phase = "done" =>
        LET L == BlockList(bld)
        IN /\ bld.mem[Last(L)].next = NoBlock
           /\ PoolConsistent(bld.pool, Range(L))

\* Every jump of the finished function names a block on its list, never
\* one add_basic_blocks merged away and pfree'd: the MARK_REFERENCED that
\* quadr_arg_label sets keeps a forward target from being merged, and a
\* second jump to it goes to a new block behind it.
JumpTargetsOnList ==
    phase = "done" =>
        LET L == Range(BlockList(bld))
        IN \A blk \in L : \A i \in 1 .. Len(bld.mem[blk].lst) :
              bld.mem[blk].lst[i].result.tag = "label" => bld.mem[blk].lst[i].result.val \in L

\* The lowered function does what the source does: from every valuation of
\* its variables it ends with the same values, or runs forever as the
\* source does, and never jumps to a block that is not on its list.  A
\* return ends the source's function, wherever it stands; a function whose
\* body was_return gets no Q_RETURN of its own at the end.
GeneratedCodeMatchesSource ==
    phase = "done" =>
        \A in \in Inputs :
            LET r == ExecStmts(stack[1].body, in)
            IN Compiled(bld, in) = IF r.kind = "ret" THEN Ok(r.env) ELSE r

=============================================================================
