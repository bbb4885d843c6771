# TLA+ models of the javalette compiler

This directory holds TLA+ models of parts of the javalette compiler in `src/`, with the TLC
configurations that check them. `PROJECT.json` lists the components, the runs, the mutants, the
findings and the hazards, and maps every modelling definition to the source lines it translates.

## The system

The compiler is a single-threaded C/C++ program. It runs these passes over each function:

1. **Parser, AST and type checker** (`src/src/tree.c`, `src/src/types.c`, `src/symtab.c`) build
   and check the syntax tree.
2. **IR builder** (`src/src/quadr.c`) lowers the tree to quadruples (`result := arg1 op arg2`),
   grouped into basic blocks.
3. **CFG builder and liveness analyser** (`src/flow.c`) do two things:
   - they give every block its successors (`child1`, `child2`);
   - they compute `vars_at_start`, the live-in variables with their nearest-use distance, and
     `live_at_end`, to a fixpoint.

   The ordered sets use the red-black tree of `src/rbtree.c`.
4. **Local optimiser** (`src/opt.cpp`) is on at -O1 and above. It builds a value-numbering DAG per
   block, then removes copies and propagates them.
5. **Code generator** (`src/gencode.c`) has two parts:
   - The *driver* walks the blocks and quadruples and hands each quadruple to the backend.
   - The *location tracker* records where each variable currently lives. Each variable has a
     location list (`var->loc`), and each register and stack element has a resident list
     (`regs[]`, `stack`). The tracker saves, spills and moves variables on the backend's behalf.
     At the end of a block it reconciles every live variable with the layout its successors
     expect (`save_live`, `update_child_vars`).
6. **Backends** (`src/src/i386_backend.c`, `src/quadr_backend.c`) emit text.
   - The x86 backend drives the tracker: `move_to_reg` on operands, `update_locations` for
     results, `free_reg` before a division, `save_var_to_loc` for register arguments.
   - The tracker drives the x86 backend back: `gen_mov`.
7. **Output buffer** (`src/outbuf.c`) holds the text. `fix_stack` patches frame offsets into it
   once the frame size is known.

Nothing runs concurrently, and nothing persists between compilations. The hard behaviours are
deep chains of nested calls inside the tracker, for example:

> `save_var` → `alloc_reg` → `free_reg` → `save_var` → `gen_mov` → `alloc_reg` …

Each step of such a chain mutates the shared location and resident lists that the caller read
before the call. They are also long sequences of legal tracker calls that together reach an
inconsistent state.

## Inventory and plan

| Component | Sources | Modules | Status |
|---|---|---|---|
| Location tracker | `src/gencode.c`, `src/gencode.h` | `LocTracker` | partly: integers, registers, stack, constants |
| Code generator driver, one block | `src/gencode.c` | `LocTracker` | partly |
| Cross-block reconciliation | `src/gencode.c` | `LocTracker` | partly: one successor |
| x86 backend's tracker calls and `gen_mov` | `src/src/i386_backend.c` | `LocTracker` | partly |
| CFG builder and liveness | `src/flow.c` | `Liveness`, `MCLiveness` | modelled |
| Red-black tree | `src/rbtree.c`, `src/src/rbtree.h` | `KeySet`, `RBTree`, `MCRBTree` | partly: no `rb_copy`, `rb_join`, `rb_for_each` |
| Local optimiser | `src/opt.cpp` | `LocalOpt`, `MCLocalOpt` | partly: integers, `+` and `-` |
| IR builder | `src/src/quadr.c` | `BlockBuilder`, `MCBlockBuilder`; `Liveness`, `LocalOpt`, `LocTracker` | partly: control-flow lowering, constant assignments, the helpers the other passes use |
| Memory pools | `src/mem.c`, `src/mem.h` | `Pool`, composed into `LocalOpt` and `BlockBuilder` | partly: `pool_t` as `graph_node_pool` and `basic_block_pool`; no `alloc_t`, no `strtab_t` |
| AST walk | `src/src/tree.c` | `BlockBuilder` | partly: the code-generating handlers of `do_semantic_check`; no type checking |
| Output buffer | `src/outbuf.c`, `src/outbuf.h` | `OutBufText`, `OutBufLines`, `OutBuf`, `MCOutBuf` | modelled |
| Backends' use of the output buffer | `src/quadr_backend.c`, `src/src/i386_backend.c` | `OutBuf` | partly: `start_func`, `gen_return`, `end_func` |
| Types, peephole optimiser, CLI | see `PROJECT.json` | — | not modelled (text, trees and I/O) |

The plan, in order:

1. **Tracker core.** Done: `LocTracker`.
2. **Liveness analyser.** Done: `Liveness` checks the fixpoint of `analyze_liveness` against a
   reference least fixpoint, and the nearest-use distances against a reference shortest distance.
3. **Red-black tree.** Done: `RBTree` checks every intermediate tree and shows that the tree
   implements the key set `KeySet`.
4. **Local optimiser.** Done for integer `+`/`-` blocks: `LocalOpt` checks spec P4 on the DAG pass
   and on `optimize_local_2`.
5. **Memory pools.** Done for `pool_t`: `Pool` is composed into `LocalOpt` as the pool the DAG's
   nodes come from, and the node addresses it hands out decide the commutative swap.
6. **IR builder.** Done for control flow: `BlockBuilder` lowers functions of assignments, ifs
   and loops into blocks drawn from `basic_block_pool` and checks the code against the source.
7. **Output buffer.** Done: `OutBuf` models the line list on a heap and the backends' calls, and
   refines `OutBufLines`, the buffer `outbuf.h` describes.
8. **Next.** Carry a `vars_at_start` location from one block's `update_child_vars` to the next
   block's `init_descr`, so stale residencies become observable across blocks. Extend `LocalOpt`
   to `*`, `/` and `%` with the folding overflow and division by zero of `DO_CONSTANT_OP`.

## Module `LocTracker` (with `MCLocTracker`)

### State

The state is one record `t`. Its fields are the tracker's globals and lists:

| Field | Code |
|---|---|
| `loc[v]` | `var->loc`, most recent first |
| `regs[r]` | `regs[r]` |
| `slots[j]` | the resident lists of the stack elements |
| `ffree` | `first_stack_free` |
| `deny` | `blacklist_reg` |
| `live` | `var->live` |
| `dist` | `nearest_use_distance` |

Three more fields follow the machine and the program:
- `phys` holds what each register and slot physically contains.
- `val` holds each variable's value in the program.
- `ndef` counts the values computed.

The remaining fields are:
- `err` collects failed assertions and undefined behaviour.
- `ending` marks that `save_live` has begun.
- `ovf` marks that a frame has outgrown `MaxSlots`. The steps that set it are cut off.

### Operations

Each tracker function is an operator from a tracker state to the state it leaves. The mutually
recursive group (`save_var_not_to_loc`, `save_var_to_loc`, `flush_loc`, `free_reg`, `alloc_reg`,
`gen_mov`) is a `RECURSIVE` block. Nested C calls become nested applications, so a step sees
everything the nested calls did, in the order the code does it. The recursion ends because
every nested `free_reg` denies one more register, as the code does.

### Actions

The actions are the calls that `gencode_for_quadr` and the x86 backend make inside a block,
under the contracts of `src/gencode.h`:

| Action | Code |
|---|---|
| `Kill` | C1, discard after the last use |
| `CopyVar`, `CopyConst` | `Q_COPY` |
| `MoveToRegIfSensible` | the driver's operand heuristic |
| `MoveToReg` | the backend's operand loads |
| `Define` | `update_locations` for a result computed into an allocated register |
| `SaveVarToReg` | register arguments of `gen_call` |
| `FreeReg` | `gen_div_mod_32` |
| `SaveAtBlockEnd` | `save_live` → `save_var_at_block_end` for one successor |

`SaveAtBlockEnd` covers both cases of the successor:
- it expects the variable at a given location;
- it is not generated yet (`NoLoc`), which runs `discard_const`.

Each action that can allocate a register takes a set `o` of at most two operands of the
current quadruple (`cur_quadr`, the field `ops`). `do_bellady_ra` skips a register that holds
the only register copy of one of them (`used_in_quadr`). Between quadruples `ops` is empty,
as `cur_quadr` is NULL. `gen_call`'s `deny_reg`/`free_reg` of the argument registers runs
only at -O2 and is left out of `SaveVarToReg`.

Which instruction causes which call is not modelled. The backend is an environment that may
make any legal call in any order. This is exactly what the tracker must withstand.

### Initial states

`Init` is `gencode` and `start_func`. With the default flags (below -O2, `f_args_in_reg_num` is
0), the parameters sit in their stack slots and the registers are empty.

### Properties

`TypeOK` is the type invariant. The others are:

| Property | What it states |
|---|---|
| `ResidentsListed` | Spec I1, which `gencode_invariant` asserts: every location of a variable lists it as a resident. |
| `ResidentsExact` | Spec I2: residents are exactly the variables listing the location. |
| `LiveHasLocation` | A live variable can always be read. |
| `Coherence` | Every recorded location of a live variable physically holds its current value. This is the property the whole tracker exists for; a lost or clobbered value breaks it. |
| `FirstFreeSlot` | `first_stack_free` is the lowest empty element, as `stack_insert_new` assumes. |
| `NoAssertionFailure` | No assertion of the tracker or of `do_bellady_ra` fails, except `assert (min_refs < 100000)` when every allowed register holds the only register copy of an operand. That case depends on the register count: x86 has 7 registers and denies at most 2 while a quadruple's 2 operands are in use, so it cannot fail there; with 2 registers it can, and the model stops at that point. |
| `NoUninitialisedRead` | `discard_const` never reads its uninitialised `prev`. No run checks it (see "Known issues without a run"). |

## Module `Liveness` (with `MCLiveness`)

`Liveness` models `analyze_flow` and `analyze_liveness` of `src/flow.c` on one function of `N`
blocks. A block is a sequence of quadruples; block 0 stands for `NULL`. The red-black trees of the
code are sets here, and a `live_in` tree of `var_descr_t` is a function from variables to their
`nearest_use_dist`.

| Variable | Code |
|---|---|
| `def[b]`, `live_in[b]`, `live_out[b]`, `instr[b]` | the fields of `flow_data_t` |
| `changed` | the static flag of `flow.c` |
| `calls` | the `compute_in_out` calls the current `do_liveness` traversal makes, in order |
| `cursor`, `phase` | the position in `analyze_liveness` |
| `vars_at_start`, `live_at_end` | what `finish_liveness_computation` publishes |

The actions are `ComputeLiveDefUse` (one block of the first loop), `BeginTraversal` (one round of
`while (changed)`), `ComputeInOut` (one `compute_in_out` call) and `finish_liveness_computation`.
`child1` and `child2` are `create_block_graph`. The traversal order is computed by `do_liveness`
as a `RECURSIVE` operator. Each `compute_in_out` call is its own step, so the model passes through
every intermediate state of a round.

`nearest_use_distance_from_quadr` (`src/src/quadr.c`) is the query the code generator makes of the
result. It is an operator, checked at every quadruple of every reachable block.

The reference is the least solution of the data-flow equations (`RefLiveIn`) and the shortest
distance to a read along any path (`RefDistance`). Both are computed by bounded iteration.

| Property | What it states |
|---|---|
| `LiveSetsExact` | Spec P2/P6: when the analysis stops, `vars_at_start` and `live_at_end` of every reachable block are exactly the reference sets. |
| `NearestUseIsMinimal` | Spec 4.5: the recorded distance is the shortest over the successors. Violated, see the findings. |
| `NearestUseNotUnderestimated` | The distance the code generator reads is never shorter than the real one. |
| `Terminates` | `analyze_liveness` stops. |

## Modules `KeySet`, `RBTree` (with `MCRBTree`)

`KeySet` is what `src/src/rbtree.h` promises: a set of keys with `rb_search`,
`rb_insert_if_absent`, `rb_delete` and `rb_clear`.

`RBTree` is `src/rbtree.c` with an explicit heap. `Nodes` are the addresses `malloc` can return,
and `nil` is `the_nil`, the one static sentinel every tree shares. The record `tr` holds the key,
left, right and colour of every node, the root, `bh`, and `tree->stack` with its `stack_size`.
The remaining variables are the locals of the running call (`node`, `p`, `w`, `y`, `depth`). Every
loop iteration of the code is one step (`SearchStep`, `DescendStep`, `InsertFixupStep`,
`DeleteFixupStep`, `SuccessorStep`, `Splice`, ...), so every intermediate tree is checked.

| Property | What it states |
|---|---|
| `NoAssertionFailure` | No assertion fails and no write goes past `tree->stack`. |
| `SearchTree` | After every step, in the middle of a fixup too, the tree is a search tree of exactly the allocated nodes. |
| `RedBlack` | Between operations the tree is red-black with black height `tree->bh`. |
| `Implements` | Refinement: `RBTree` implements `KeySet` under `contents <- Contents(tr)`. |
| `Terminates` | Every call returns. |

## Module `LocalOpt` (with `MCLocalOpt`)

`LocalOpt` models `optimize_local` and `optimize_local_2` of `src/opt.cpp` on one block. Variables
are numbers: `1..NVars` are the function's, the ones above are those `declare_var` adds. The
operators are `Q_ADD` (commutative) and `Q_SUB`; `Q_PARAM` stands for every other opcode, all of
which end a DAG segment the same way.

| Variable | Code |
|---|---|
| `orig` | the quadruples `optimize_local` has read so far |
| `code` | `block->lst` as `optimize_local` rebuilds it |
| `dag` | the graph nodes, the `graph` rbtree, `int_leaves`, `var_leaves`, and `var->loc` |
| `ntemps` | the variables `declare_var` has added |
| `final` | `block->lst` after `optimize_local_2` |

A node's id is its index less one; `next_id` counts the allocations, and the one node ever freed is
the last one allocated. The actions are one per case of the loop of `optimize_local` (`Arith`,
`Copy`, `Other`), `EndOfBlock` (the final flush), and `OptimizeLocal2`.
`gencode_from_graph`, `gencode_for_node` with constant folding, and every pass of
`optimize_local_2` are operators, so a step runs the whole handler.

### The node pool (module `Pool`)

`Pool` models `pool_t` of `src/mem.c` as operators on a record, and `LocalOpt` keeps
`graph_node_pool` in `dag.pool`:

| Field | Code |
|---|---|
| `elem_size` | `pool->elem_size`, after `new_pool` raises it to a pointer and rounds it to `ALIGN` |
| `nodes` | the chunk list `pool->nodes`; a chunk is `[size, free, next_free]`, `size` in bytes, `free` its free list head first |
| `first_free` | `pool->first_free`, the head of the list of chunks with a free element |
| `layout` | the chunks in address order, as `malloc` placed them |

An element's address is `[chunk, idx]`. `new_graph_leaf` and `new_graph_root` call `palloc`,
`free_graph_node` calls `pfree`, and `reset_graph` (every reset to `EmptyDag`) is `free_pool`
followed by `new_pool`. `palloc` takes an extra input `pos`: when it has to add a chunk,
`malloc` may put it below, between or above the existing ones, and the model tries each. This
matters because `new_graph_root` orders the operands of `+` by comparing node pointers
(`AddrGreater`), and pointers into different chunks compare by where the chunks lie.

The meaning of a block is computed by `Observable`: the final values of the function's variables
and the values passed to `param`, for every input in `[ProgVars -> 0..2]`.

| Property | What it states |
|---|---|
| `TempsWrittenBeforeRead` | Every variable the optimiser declares is written before the rebuilt block reads it. |
| `Local2PreservesMeaning` | `optimize_local_2` keeps the meaning of the list `optimize_local` built. |
| `GraphPoolSound` | No two DAG nodes share an address; the pool's free lists hold every other element exactly once; the free-chunk list from `first_free` has no cycle and holds exactly the chunks with a free element. |
| `LocalOptPreservesMeaning` | Spec P4: the whole local optimisation keeps the block's meaning. Violated, see the findings. |

## Module `BlockBuilder` (with `MCBlockBuilder`)

`BlockBuilder` models how `do_semantic_check` (`src/src/tree.c`) lowers a function body to basic
blocks through `src/src/quadr.c`. The blocks come from `basic_block_pool`, an instance of `Pool`.

**State.** `bld` is the builder:
- `pool` is `basic_block_pool`;
- `mem` holds every block the pool has handed out, as `[lst, pnext, next, referenced]`;
- `blocks`, `cur` and `prev` are `cur_func->blocks`, `cur_block` and `prev_block`;
- `ntemps` counts the temporaries `quadr_arg` declared;
- `failed` records a failed assert.

`pnext` records that `pfree` wrote the pool's free link over the block's first word
(`lst.head`): the head of a freed block then reads as non-NULL. `stack` holds the compound
statements still open, with the blocks their handlers keep in locals (`if_false`, `if_end`,
`b_cond`, `b_while`/`b_body`). The statements closed so far are kept as source, so the source's
meaning can be compared with the code's. `phase` becomes `"done"` after the function's end.

**Actions.** A handler is split at its recursive calls, and each stretch between two calls is one
action:
- `Assign`: `x = c`, through `quadr_arg` (a new temporary) and `gen_copy`. Also `x = cond`,
  through the control-flow branch of `gen_quadr_expr` (`gen_bool_value`): a temporary is set
  to 0 or 1 in two blocks joined by a goto;
- `Return`: `return;` in a void function, which is `Q_RETURN` followed by a new block;
- `BeginIf`, `EndIf`; `BeginIf`, `Else`, `EndIfElse` for if-else;
- `BeginLoop` and `EndLoop` for `while` and `for`, where `for` emits its step (`instr3`)
  before the condition block;
- `EndFunction`: the end of the function. A new block and `gen_quadr_return` follow,
  unless `was_return` holds. `was_return` holds when the body has a `return`, or an if-else
  whose branches both return.

`gen_quadr_bool_expr`, `quadr_arg_label`, `add_basic_blocks` and `gen_goto` are operators, so
every action runs the handler's whole stretch, and every `palloc` and `pfree` inside it.
`add_basic_blocks` is written as four steps:
- `add_basic_blocks_keeps`: the test whether `cur_block` stays;
- `add_basic_blocks_link`: the linking, or the freeing;
- `add_basic_blocks_walk` and `add_basic_blocks_at_end`: the walk to the end.

The jump that `gen_goto` and the comparison cases of `gen_quadr_bool_expr` add is
`emit_jump`. Each step takes the builder the previous one produced as a parameter. The
meaning is the same as one long LET, but TLC's profiler expands a LET definition once per
use, and with one long LET it runs out of memory.

**Meaning.** `Run` executes the finished block list:
- copies update the variables;
- `Q_GOTO` and a `Q_IF_*` that holds jump to their label;
- `Q_RETURN` ends the function;
- anything else falls through to `next`, which is the edge `flow.c` gives;
- the last block falls through to the `ret` that the x86 backend's `end_func` writes after
  it (`end_func_adds_return`). `end_func` writes none when the last block is empty and follows
  a `Q_RETURN`. Reaching that block runs off the function's end (`FallsOff`).

A jump to a block not on the list is `Dangling`. A block reached twice with the same
variables means the run diverges. `ExecStmts` is the source's meaning.

| Property | What it states |
|---|---|
| `NoAssertionFailure` | Neither assert of the lowering fails: `add_quadr` never appends after a jump or return, and a merged tail is the block `prev_block` links to. |
| `BlocksAccounted` | At the end, every block the pool handed out is on the list once, or free, and the pool's lists are exact. |
| `JumpTargetsOnList` | Every jump names a block on the list, never one that was merged away and freed. |
| `GeneratedCodeMatchesSource` | For every input, the lowered function ends with the source's values, or diverges where the source does. |

## Modules `OutBufText`, `OutBufLines`, `OutBuf` (with `MCOutBuf`)

Both backends write a function into the output buffer and patch it once the frame size is
known. `outbuf_t` is a doubly linked list of lines, each `xmalloc`'d on its own, plus a fixed
`tmpbuf` that `write` fills until `writeln` or `flushbuf` turns it into lines.

**Text (`OutBufText`).** A character is a record `[c, v]`. The kinds are:
- the newline, at which `FOR_ALL_LINES` cuts a text;
- the markers `"@P@"` and `"@E@"`;
- a frame reference `"@FP@v@"`;
- the number `sp_format` prints for `stack_size - v`;
- plain text.

`Lines(s)` is how a text splits into lines.

**Abstract buffer (`OutBufLines`).** This is what `outbuf.h` promises. It has a sequence of
`lines`, the `pending` text of partial writes, and `out`, what has been printed. `fix_stack`
replaces a `"@P@"` line by the prologue's lines and an `"@E@"` line by the epilogue's. It
prints every frame reference as `stack_size - off`.

**Detailed buffer (`OutBuf`).** The state is `buf`, holding `head`, `tail`, `tmpbuf`, the heap
`mem` and the set `used` of allocated lines. It also has `out` and `pc`. The heap gives each
address `prev`, `next` and `str`. `xmalloc` returns the lowest free address, and `free` forgets
a line's fields. Every outbuf function is an operator over `buf`, written as the C code is:
- `do_appendln`, `do_insertln` and `removeln` rewire the pointers;
- `for_all_lines` is the `FOR_ALL_LINES` macro, which steps `line` to its `next`, or to the
  head when it is NULL;
- `changeln` reads `prev` before `removeln` frees the line;
- `fix_stack` walks from the head with `next` saved before `fix_line` calls `changeln`.

The actions are the calls, in the order both backends make them (`pc`):
1. `StartFunc`: `start_func`'s `clearbuf`.
2. `Header`: the quadr backend's partial `write`s and the header `writeln`s, then
   `writeln("@P@")` on an empty `tmpbuf`.
3. `Body`: `writeln` of code lines (some with a frame reference) and `gen_return`'s `"@E@"`,
   then `end_func`'s `fix_stack`.
4. `EndFunc`: data lines, `writeout`, `clearbuf`.

When `tmpbuf` would fill, `write` and `writeln` `xabort` (`Overflow`), and the compiler stops.

| Property | What it states |
|---|---|
| `TypeOK` | Every pointer the buffer holds (head, tail, each `prev` and `next`) names an allocated line. |
| `ListWellFormed` | Every allocated line is reached from the head exactly once, the walk ends at `tail`, and every `prev` mirrors a `next`. |
| `NoMarkerPrinted` | No line `writeout` prints is a marker or holds a frame reference. |
| `Implements` | Read from the head, the list is `OutBufLines`' `lines`, and every call is the abstract call (`Abs == INSTANCE OutBufLines WITH lines <- ListText(buf), ...`). |

## Runs

| Run | Cfg | Expect | What it shows |
|---|---|---|---|
| inblock | `LocTracker.cfg` | pass | 3 variables, 1 parameter, 2 registers, 3 slots, one computed value. Every interleaving of in-block calls keeps all seven invariants. About 180k distinct states in under two minutes. |
| blockend | `LocTrackerBlockEnd.cfg` | pass | 2 variables, 1 register, and `x := x` allowed (as at -O0). Reconciliation at block end keeps the lists consistent. |
| evict | `LocTrackerEvict.cfg` | violation | `ensure_unique_for_var` erases the only location of a co-resident it judged saved (`gencode.c:1901`). |
| joinmove | `LocTrackerJoinMove.cfg` | violation | A stack-to-stack `gen_mov` at a join spills into the destination slot and overwrites the spilled value (`i386_backend.c:1455`). |
| liveness | `Liveness.cfg` | pass | Every function of three blocks over two variables (branches, joins, loops, unreachable blocks): the analysis terminates with the exact live sets, and no distance is underestimated. About 37k states in 40 s. |
| nearestuse | `LivenessDistance.cfg` | violation | `compute_in_out` keeps the distance through the first successor handled (`flow.c:120`). |
| rbtree | `RBTree.cfg` | pass | Every sequence of operations over six keys keeps the tree sound, red-black and within its stack, refines `KeySet`, and every call returns. About 39k states in two minutes. |
| localopt | `LocalOpt.cfg` | pass | Every block of up to three quadruples over two variables: for every placement of the pool's chunks: declared variables are written before they are read, `optimize_local_2` keeps the meaning, and `graph_node_pool` stays exact through `palloc`, `pfree` and growth. About 80k states in 30 s. |
| localopt_p4 | `LocalOptP4.cfg` | violation | `x := y; x := x + x` comes out leaving `y` in `x` (`opt.cpp:445`). |
| blockbuilder | `BlockBuilder.cfg` | pass | Every function of up to three statements nested two deep. The statements are constant and condition assignments, ifs, loops and returns. Conditions are built from boolean variables and comparisons with `!`, `&&` and `\|\|`. No assert fails, every block is accounted for, and jumps name listed blocks. With `end_func`'s `ret`, the code computes what the source does on every input. About 242k states in 90 s. |
| emptyloop | `BlockBuilderEmptyLoop.cfg` | violation | `while (true) {}` compiles to code that returns (`quadr.c:879`). |
| outbuf | `OutBuf.cfg` | pass | Every sequence of functions the backends write, on five heap lines, with frames of size 0 and 4. The list stays well formed through `fix_stack`'s `changeln`s, nothing `writeout` prints holds a marker, and the list refines `OutBufLines`. About 41k states in 30 s. |

The block-end runs check deadlock off. After `save_live` the model deliberately stops, because
the next block is not modelled: the code moves on to the next block, and the model has no
action for that. The in-block run checks deadlock. `liveness` and `localopt` also stop on
purpose: the analysis of one function, and the optimisation of one block, end. So do the
`BlockBuilder` runs, once the function ends. `outbuf` checks deadlock. Its `Terminating` step
stutters once the last function is printed, or after `xabort`, because the compiler ends
there.

Every property of a passing run has a mutant in `PROJECT.json`: a plausible bug in a mapped
definition that TLC must catch. The mutants are:
- an off-by-one or a missing reset of `first_stack_free`;
- a dropped `n > 0` guard;
- sharing locations without residents;
- `discard_var` that forgets the resident lists;
- `FREE_VL` without saving;
- `compute_live_def_use` counting the wrong length, `compute_in_out` ignoring the block's
  definitions or always raising `changed`, and a nearest-use distance that is not counted past
  the block;
- a node allocated without its key, a stack grown one short, a rotation that keeps the moved
  child, an insert fixup that keeps `bh`, a search that returns the sentinel, and a search
  without the sentinel key;
- `Arith` keeping the freed node, an input leaf without its copy, and back-propagation that
  ignores later reads;
- `pfree` that does not put a chunk that was full back on the free-chunk list;
- a temporary numbered one past the one declared, code after a jump left in the jump's block,
  a freed block not returned to the pool, an empty tail merged although a jump names it, and
  `NODE_LT` negated to `Q_IF_GT`, and `was_return` that ignores the else branch;
- `removeln` that keeps `tail` on the freed line, `do_insertln` that leaves the next line's
  `prev`, `fix_stack` reading `next` after `changeln` has freed the line, and `end_func`
  skipping `fix_stack` for an empty frame.

## Bounds

**Registers and variables.** Two registers and three variables give:
- spills of a variable whose only copy is in a register;
- a register shared by copies;
- nested spills inside `gen_mov`.

The block-end run uses one register and two variables, because `ensure_unique` with a single
register already forces eviction.

**Slots.** Three slots let a parameter's slot, a spill slot and a freed slot coexist, which is
what `first_stack_free` must track.

**Computed values.** One computed value (`MaxDefs = 1`) is enough to tell a clobbered location
from a correct one. Constants and inputs supply the other values.

**Distances.** The two distance profiles `MCDists` put variables on either side of the
`4 + n*n/2` threshold, so both register and memory saves happen.

**Liveness.** Three blocks over two variables, each block holding at most one computing quadruple
and one jump, with the last block returning. The jumps may target any block, which gives
branches, joins, self-loops, loops through two blocks and unreachable blocks. Two successors with
different distances, and a variable defined on one path only, both occur. That is what the
fixpoint and the distance have to get right.

**Red-black tree.** Six keys is the smallest count that reaches trees of black height two with a
red inner node and black children. The red-sibling case of `rb_delete_fixup` needs such a tree.
`MaxStack = 7` reaches past any stack size the code allocates for such trees, so an overrun
shows up rather than being cut off.

**Local optimiser.** Blocks of up to three quadruples over two variables, one constant, and inputs
`0..2`. This reaches common subexpressions, the commutative swap, constant folding, a variable
copied and then overwritten, and a `param` in the middle of a block. The `graph` rbtree then has
at most four nodes, whose shape `RbShape` gives exactly.

**Node pool.** The code starts `graph_node_pool` with 512 elements. The model starts it with
`PoolInit = 1` element of `NodeSize = 1` byte, and `ALIGN = 2` rounds that to 2 bytes. Growth
then has the code's factor (`pn->size << 1` bytes, times `elem_size` again), so the chunks hold
1, 4 and 16 elements. A block of three quadruples allocates up to nine nodes, so it fills the
first two chunks, adds the third, and frees a duplicate root into a chunk that was full.
`MaxChunks = 3` ranks cover every placement of three chunks. Two chunks are never added in
one step with these sizes, so one `pos` per step is enough.

**IR builder.** Two variables, constants 0 and 1, and up to three statements nested two deep.
That reaches an if-else inside a loop, a loop inside an if, and two loops in sequence. The
conditions are the boolean variable `x1`, `x2 < x1 && x1` and
`x1 < x2 || x1 == x2`. In `x2 < x1 && x1` a jump-if-false `if` lowers `<` to its negation
`>=`, and `x1` does not mask the equal case, so a wrong negation changes the result. An
assignment may store the value of `!(x1 < x2) && !(x1 == x2)`. A function
may `return` anywhere. Both
compound conditions are lowered in both jump senses, with their inner `end` block, so
`quadr_arg_label` meets a second jump to a referenced empty block. All four inputs are run.
The pool starts with 4 blocks (the code uses 1024) of `BlockSize = 1`, so it grows within a
function, and freed blocks are handed out again.

The passing run leaves out `while` bodies that emit no quadruple: an empty body, and the
literal `true` (`if (true) {}` emits nothing). Those are exactly the inputs `emptyloop` shows
miscompiled. `EmptyLoops = FALSE` and `MCCmpConds` exclude them. `emptyloop` uses the full
`MCConds`, literal included, with `EmptyLoops = TRUE`.

**Output buffer.** The model has five heap lines, and a function's header is at most
`MaxHeader = 2` lines, as the backends write. So a function holds a header line, `"@P@"`, a
few code lines, `"@E@"` and a data line, in any order the body allows. `fix_stack` then
meets:
- a marker as the first changed line, whose `prev` is a header line;
- an `"@E@"` at the tail;
- a frame reference line before or after a marker.

The head is always a header line, which `fix_stack` leaves alone. So, as in the code,
`changeln` never runs with a NULL `prev`.

Frame size 0 makes the prologue and epilogue empty, so `changeln` only removes the marker
line. Size 4 replaces it. With `TMPBUF_SIZE = 3`, two partial `write`s fill `tmpbuf`, so the
quadr header's overflow is reached. Writing stops once four lines are printed (`MaxOut`), so
a second function is written into the freed and reallocated lines.

## Fairness

The tracker runs assume no fairness. All their properties are safety properties: the tracker has
no waiting and no retries, and every call returns after a bounded recursion.

`Liveness` and `RBTree` assume weak fairness of `Next`. The compiler is single-threaded and runs
each analysis or tree operation to its end without waiting on anything, so a step that is enabled
is taken. `Terminates` in both modules relies on exactly that.

`OutBuf` assumes no fairness: all its properties are safety properties.

## Not modelled

- FPU registers and the x87 stack allocator.
- Doubles and slot sizes (`stack_insert_new`'s size assertion).
- Permanent array locations and the dirty bit.
- `gen_swap`.
- The per-quadruple liveness flags.
- The walk over several blocks.
- Registers for parameters at -O2.
- Instruction text.
- In `Liveness`: the order inside a red-black tree, which no step depends on, and the
  wrap-around of `cur_visited_mark` in `begin_traversal`.
- In `RBTree`: `rb_copy`, `rb_join`, `rb_size`, `rb_for_each` and `rb_minimum`. None of them
  changes a tree that the compiler keeps.
- In `Pool`: the other pools (quadruples, blocks, `var_descr_t`, `var_list_t`, `decl_t`) run
  the same code and are not instantiated. `alloc_t` is a bump allocator whose users (`tree.c`)
  are not modelled. `strtab_t` (`add_str`) is never called by the compiler. Its
  `new_hash_node` reallocates `hashtab` while `prev` and every chain's `next` point into the old
  array, and it takes a hash of 0 for an empty bucket. Both would bite only if a caller existed.
- `src/mem.h` declares `pool_node_t` without the `next_free` field that `mem.c` uses at lines
  33, 72 and 104, so `mem.c` as given does not compile. The model follows `mem.c`.
- In `BlockBuilder`: arithmetic and calls, returned values, arrays and doubles. Arithmetic is
  left out because a loop that increments a variable makes the set of values unbounded. At
  32 bits, a loop that wraps around is out of TLC's reach. Each function starts with a fresh pool; the code keeps one `basic_block_pool` for
  the whole compilation. A `for` loop's `instr1` is the statement before it. Type checking
  and scopes are not modelled.
- In `LocalOpt`: doubles, `*`, `/` and `%`, pointer operations and calls. These are the cases
  where constant folding can overflow or divide by zero.
- In `OutBuf`: `MAX_LINE_LEN` and the lengths of real texts (a character of the model
  stands for a word). Text with more than one frame reference per line: the backends never
  write it, and `fix_stack` would patch only the first. The instruction selection of the
  quadr backend, which formats text.
- The other passes listed as not modelled in `PROJECT.json`: they transform text or trees and
  have no state machine worth checking.

## Findings

| Run | Where | What |
|---|---|---|
| evict | `gencode.c:1901` | `FREE_VL_COND` judges a co-resident saved by the slot being made unique, then erases its only location. |
| joinmove | `i386_backend.c:1455` | A stack-to-stack `gen_mov` spills into its own still-empty destination slot. |
| nearestuse | `flow.c:120` | `compute_in_out` lowers the successor's own descriptor, not the block's, so the distance is through the first successor handled, not the shortest. |
| localopt_p4 | `opt.cpp:445` | `remove_var` returns early on leaves. After `x := y; x := x + x`, the leaf of `y` still lists `x`, and `gencode_from_graph` copies `y` into `x` after the sum. |
| emptyloop | `quadr.c:879` | A `while` body that emits nothing leaves `b_while` empty and unreferenced, because `MARK_REFERENCED` is set only for forward jumps. `add_basic_blocks(b_cond)` frees it, and `pfree` writes its free link over `lst.head`. The back edge then sees a non-NULL head and jumps to the freed block, which the next `new_basic_block` hands out again. `while (true) {}` compiles to `goto B1; B1: goto B3; B3: return`, so the function returns. |

### Known issues without a run

- `copy_to_var` (`gencode.c:1373`) discards `x` before it reads `x`'s locations. So `x := x`
  leaves live `x` with none; that statement exists only at -O0, where
  `remove_redundant_copy` does not run. The spec's COPY rule (R1) says `v` takes the
  source's locations. `LocTracker` models this with `SelfCopies`. With `SelfCopies = TRUE`,
  `LiveHasLocation` is violated. The passing `inblock` run leaves it out.

- `ensure_unique_for_var` (`gencode.c:1893`) replaces `var->loc` without erasing the variable
  from the resident lists of the locations it drops. This breaks the spec's I2
  (`ResidentsExact`). The `blockend` run therefore checks only the invariants this code keeps.
- `discard_const` (`gencode.c:1089`) tests an uninitialised `prev` when a constant heads the
  list. The spec's design notes record it. `LocTracker` models `prev` as any location, and
  `NoUninitialisedRead` states the property.
