------------------------------- MODULE RBTree -------------------------------
(***************************************************************************)
(* The red-black tree of src/rbtree.c, as the compiler uses it:           *)
(* rb_new, rb_search, rb_insert_if_absent, rb_delete and rb_clear on one  *)
(* tree.                                                                   *)
(*                                                                         *)
(* The heap is explicit: Nodes are the addresses malloc can return and   *)
(* nil (0) is the_nil, the one static sentinel every tree shares: its key *)
(* is written by every lookup, and a rotation at the root writes its left *)
(* or right field.  Addresses are not observable across calls: free nodes *)
(* hold nothing, and no caller keeps a node from one call to the next    *)
(* (flow.c, gencode.c, quadr.c and opt.cpp read the node a call returns   *)
(* before they make another).  So malloc returns the lowest free node,    *)
(* and a returning call renames the nodes in the order of their keys.     *)
(* The parent path lives, as in the code, in tree->stack, indexed by      *)
(* depth, whose size stack_size is grown by rb_reallocate_stack.  Every  *)
(* iteration of a loop of the code is one step, so the model passes      *)
(* through every intermediate tree; between operations pc = "idle".      *)
(***************************************************************************)
EXTENDS Integers, FiniteSets

CONSTANTS
    Keys,       \* the keys: addresses, ordered as integers
    MaxNodes,   \* the heap: at most this many nodes exist at once
    MaxStack    \* the highest stack index the model represents

ASSUME /\ Keys \subseteq Nat \ {0}
       /\ MaxNodes >= Cardinality(Keys)
       /\ MaxStack \in Nat

nil == 0
Nodes == 1 .. MaxNodes
Nodes0 == Nodes \cup {nil}
StackIdx == 0 .. MaxStack
red == "red"
black == "black"

VARIABLES
    tr,         \* the heap and the rbtree_t: key, left, right, color,
                \* root, bh, stack, stack_size, and the allocated nodes
    pc,         \* where the operation in progress is
    x,          \* its key
    node, p, w, y, depth,   \* its locals
    result,     \* what the last rb_search or rb_insert_if_absent answered
    err         \* failed assertions and out-of-bounds stack writes

vars == <<tr, pc, x, node, p, w, y, depth, result, err>>

\* The assertions of a step: the names of those that fail.
Failing(A) == {a \in DOMAIN A : ~A[a]}

\* stack[i] = n, or a write past the end of the allocated stack.
Push(t, i, n) == [t EXCEPT !.stack[i] = n]
PushFails(t, i) == IF i < t.stack_size THEN {} ELSE {"stack_overflow"}

\* Mutant: the stack is sized to twice the black height, one short.
reallocate_stack_short(t) ==
    IF t.bh * 2 >= t.stack_size
    THEN [t EXCEPT !.stack_size = IF 2 * @ > t.bh * 2 THEN 2 * @ ELSE t.bh * 2]
    ELSE t

\* rb_reallocate_stack as rb_insert_if_absent and rb_delete call it.
reallocate_stack(t) ==
    IF t.bh * 2 >= t.stack_size
    THEN [t EXCEPT !.stack_size = IF 2 * @ > t.bh * 2 + 1 THEN 2 * @ ELSE t.bh * 2 + 1]
    ELSE t

\* Mutant: node->right = b is left out.
rb_left_rotate_keeping_right(t, n, parent) ==
    LET r == t.right[n]
        lft == [t.left EXCEPT ![r] = n]
    IN  [t EXCEPT !.left  = IF lft[parent] = n THEN [lft EXCEPT ![parent] = r] ELSE lft,
                  !.right = IF lft[parent] = n THEN t.right ELSE [t.right EXCEPT ![parent] = r],
                  !.root  = IF n = t.root THEN r ELSE @]

rb_left_rotate(t, n, parent) ==
    LET r == t.right[n]
        lft == [t.left EXCEPT ![r] = n]
        rgt == [t.right EXCEPT ![n] = t.left[r]]
    IN  [t EXCEPT !.left  = IF lft[parent] = n THEN [lft EXCEPT ![parent] = r] ELSE lft,
                  !.right = IF lft[parent] = n THEN rgt ELSE [rgt EXCEPT ![parent] = r],
                  !.root  = IF n = t.root THEN r ELSE @]

rb_right_rotate(t, n, parent) ==
    LET l == t.left[n]
        rgt == [t.right EXCEPT ![l] = n]
        lft == [t.left EXCEPT ![n] = t.right[l]]
    IN  [t EXCEPT !.left  = IF lft[parent] = n THEN [lft EXCEPT ![parent] = l] ELSE lft,
                  !.right = IF lft[parent] = n THEN rgt ELSE [rgt EXCEPT ![parent] = l],
                  !.root  = IF n = t.root THEN l ELSE @]

Paint(t, n, c) == [t EXCEPT !.color[n] = c]

\* free(n).  What a freed node held is never read again: malloc'ed nodes
\* are initialised in full by rb_do_insert, so the model forgets it.
Free(t, n) == [t EXCEPT !.alloc = @ \ {n}, !.key[n] = 0, !.left[n] = nil,
                        !.right[n] = nil, !.color[n] = black]

\* rb_new
Init ==
    /\ tr = [key |-> [n \in Nodes0 |-> 0],
             left |-> [n \in Nodes0 |-> nil], right |-> [n \in Nodes0 |-> nil],
             color |-> [n \in Nodes0 |-> black],
             root |-> nil, bh |-> 0,
             stack |-> [i \in StackIdx |-> nil], stack_size |-> 0,
             alloc |-> {}]
    /\ pc = "idle"
    /\ x = 0 /\ node = nil /\ p = nil /\ w = nil /\ y = nil /\ depth = 0
    /\ result = FALSE
    /\ err = {}

-----------------------------------------------------------------------------
(* Lookup                                                                  *)

\* Mutant: rb_search without tree->nil->key = x.
SearchWithoutSentinel(k) ==
    /\ pc = "idle" /\ err = {}
    /\ x' = k /\ node' = tr.root
    /\ pc' = "search"
    /\ UNCHANGED <<tr, p, w, y, depth, result, err>>

\* rb_search: the sentinel takes the key, so the walk stops at it.
Search(k) ==
    /\ pc = "idle" /\ err = {}
    /\ tr' = [tr EXCEPT !.key[nil] = k]
    /\ x' = k /\ node' = tr.root
    /\ pc' = "search"
    /\ UNCHANGED <<p, w, y, depth, result, err>>

\* Mutant: the node the walk stopped at is returned, the sentinel too.
SearchStepReturningNil ==
    /\ pc = "search" /\ err = {}
    /\ IF x = tr.key[node]
       THEN result' = TRUE /\ pc' = "return" /\ UNCHANGED node
       ELSE node' = (IF x < tr.key[node] THEN tr.left[node] ELSE tr.right[node])
            /\ UNCHANGED <<pc, result>>
    /\ UNCHANGED <<tr, x, p, w, y, depth, err>>

SearchStep ==
    /\ pc = "search" /\ err = {}
    /\ IF x = tr.key[node]
       THEN result' = (node # nil) /\ pc' = "return" /\ UNCHANGED node
       ELSE node' = (IF x < tr.key[node] THEN tr.left[node] ELSE tr.right[node])
            /\ UNCHANGED <<pc, result>>
    /\ UNCHANGED <<tr, x, p, w, y, depth, err>>

\* The common start of rb_insert_if_absent and rb_delete.
Begin(k, op) ==
    /\ pc = "idle" /\ err = {}
    /\ LET t == reallocate_stack(tr)
       IN  /\ tr' = [Push(t, 0, nil) EXCEPT !.key[nil] = k]
           /\ err' = PushFails(t, 0)
    /\ x' = k /\ node' = tr.root /\ depth' = 0
    /\ pc' = op
    /\ UNCHANGED <<p, w, y, result>>

\* One iteration of the descent loop, recording the path on the stack.
DescendStep(op) ==
    /\ pc = op /\ err = {}
    /\ x # tr.key[node]
    /\ tr' = Push(tr, depth + 1, node)
    /\ err' = PushFails(tr, depth + 1) \cup Failing([depth_bound |-> depth + 1 <= tr.bh * 2])
    /\ depth' = depth + 1
    /\ node' = (IF x < tr.key[node] THEN tr.left[node] ELSE tr.right[node])
    /\ UNCHANGED <<pc, x, p, w, y, result>>

-----------------------------------------------------------------------------
(* Insertion                                                               *)

\* Mutant: the new node's key is left as malloc returned it.
NewNodeWithoutKey(t, n, k) ==
    [t EXCEPT !.alloc = @ \cup {n}, !.left[n] = nil, !.right[n] = nil, !.color[n] = red]

\* NEW_RBNODE and the initialisation in rb_do_insert.
NewNode(t, n, k) ==
    [t EXCEPT !.alloc = @ \cup {n}, !.key[n] = k, !.left[n] = nil, !.right[n] = nil,
              !.color[n] = red]

\* rb_insert_if_absent after its loop: the key found, or rb_do_insert.
InsertFound ==
    /\ pc = "insert" /\ err = {}
    /\ x = tr.key[node]
    /\ IF node # nil
       THEN /\ result' = TRUE /\ pc' = "return"
            /\ UNCHANGED <<tr, node, p, err>>
       ELSE LET n == CHOOSE m \in Nodes : m \notin tr.alloc
                parent == tr.stack[depth]
                t == NewNode(tr, n, x)
            IN  /\ tr.alloc # Nodes
                /\ result' = FALSE
                /\ IF parent # nil
                   THEN /\ tr' = IF x < t.key[parent] THEN [t EXCEPT !.left[parent] = n]
                                                      ELSE [t EXCEPT !.right[parent] = n]
                        /\ node' = n /\ p' = parent
                        /\ pc' = "insert_fixup"
                        /\ UNCHANGED err
                   ELSE /\ tr' = [t EXCEPT !.root = n, !.color[n] = black, !.bh = @ + 1]
                        /\ err' = Failing([bh_is_1 |-> tr.bh + 1 = 1])
                        /\ pc' = "return"
                        /\ UNCHANGED <<node, p>>
    /\ UNCHANGED <<x, w, y, depth>>

\* One iteration of the loop of rb_insert_fixup (p is the parent of node).
InsertFixupStep ==
    /\ pc = "insert_fixup" /\ err = {}
    /\ tr.color[p] = red
    /\ LET pp == tr.stack[depth - 1]
           left == (p = tr.left[pp])
           uncle == IF left THEN tr.right[pp] ELSE tr.left[pp]
           inner == IF left THEN node = tr.right[p] ELSE node = tr.left[p]
           \* the inner case first rotates node above p
           t1 == CASE ~inner -> tr
                   [] left   -> rb_left_rotate(tr, p, pp)
                   []  OTHER -> rb_right_rotate(tr, p, pp)
           p1 == IF inner THEN node ELSE p
           n1 == IF ~inner THEN node ELSE IF left THEN t1.left[p1] ELSE t1.right[p1]
           t2 == IF left THEN rb_right_rotate(t1, pp, tr.stack[depth - 2])
                         ELSE rb_left_rotate(t1, pp, tr.stack[depth - 2])
           Checks == Failing([depth_ge_2 |-> depth >= 2, node_red |-> tr.color[node] = red,
                              p_not_root |-> p # tr.root, pp_not_nil |-> pp # nil,
                              pp_black |-> tr.color[pp] = black,
                              p_child_of_pp |-> left \/ p = tr.right[pp]])
       IN  /\ IF tr.color[uncle] = red
              THEN /\ tr' = Paint(Paint(Paint(tr, uncle, black), p, black), pp, red)
                   /\ depth' = depth - 2
                   /\ node' = pp
                   /\ p' = tr.stack[depth - 2]
                   /\ err' = Checks
                   /\ UNCHANGED pc
              ELSE /\ tr' = Paint(Paint(t2, p1, black), pp, red)
                   /\ err' = Checks \cup Failing([node_below_p |-> n1 = (IF left THEN t1.left[p1] ELSE t1.right[p1]),
                                      sibling_black |->
                                          t1.color[IF left THEN t1.right[p1] ELSE t1.left[p1]] = black])
                   /\ node' = n1 /\ p' = p1
                   /\ pc' = "return"
                   /\ UNCHANGED depth
    /\ UNCHANGED <<x, w, y, result>>

\* Mutant: the root turns black without ++tree->bh.
InsertFixupEndKeepingBh ==
    /\ pc = "insert_fixup" /\ err = {}
    /\ tr.color[p] = black
    /\ tr' = IF node = tr.root THEN Paint(tr, node, black) ELSE tr
    /\ err' = Failing([node_red |-> tr.color[node] = red])
    /\ pc' = "return"
    /\ UNCHANGED <<x, node, p, w, y, depth, result>>

\* The end of rb_insert_fixup: a red root turns black, one level higher.
InsertFixupEnd ==
    /\ pc = "insert_fixup" /\ err = {}
    /\ tr.color[p] = black
    /\ IF node = tr.root
       THEN /\ tr' = [Paint(tr, node, black) EXCEPT !.bh = @ + 1]
            /\ err' = Failing([node_red |-> tr.color[node] = red,
                               depth_0 |-> depth = 0, p_nil |-> p = nil])
       ELSE /\ err' = Failing([node_red |-> tr.color[node] = red])
            /\ UNCHANGED tr
    /\ pc' = "return"
    /\ UNCHANGED <<x, node, p, w, y, depth, result>>

-----------------------------------------------------------------------------
(* Deletion                                                                *)

\* rb_delete after its loop: nothing to do if the walk reached the sentinel.
DeleteFound ==
    /\ pc = "delete" /\ err = {}
    /\ x = tr.key[node]
    /\ pc' = IF node # nil THEN "delete_node" ELSE "return"
    /\ UNCHANGED <<tr, x, node, p, w, y, depth, result, err>>

\* rb_delete_node: the node itself is removed if it lacks a child,
\* otherwise its successor, whose path is pushed as the walk goes.
DeleteNode ==
    /\ pc = "delete_node" /\ err = {}
    /\ IF tr.right[node] = nil \/ tr.left[node] = nil
       THEN y' = node /\ pc' = "splice" /\ UNCHANGED <<tr, depth, err>>
       ELSE /\ tr' = Push(tr, depth + 1, node)
            /\ err' = PushFails(tr, depth + 1)
            /\ depth' = depth + 1
            /\ y' = tr.right[node]
            /\ pc' = "successor"
    /\ UNCHANGED <<x, node, p, w, result>>

SuccessorStep ==
    /\ pc = "successor" /\ err = {}
    /\ IF tr.left[y] # nil
       THEN /\ tr' = Push(tr, depth + 1, y)
            /\ err' = PushFails(tr, depth + 1) \cup
                      Failing([depth_bound |-> depth + 1 <= tr.bh * 2])
            /\ depth' = depth + 1
            /\ y' = tr.left[y]
            /\ UNCHANGED pc
       ELSE pc' = "splice" /\ UNCHANGED <<tr, depth, y, err>>
    /\ UNCHANGED <<x, node, p, w, result>>

\* y leaves the tree, its only child taking its place; the removed key
\* moves into node.  A black y leaves that child, now node, with an
\* extra black for
\* rb_delete_fixup.  The node is freed (free(y) comes after the fixup in
\* the code, which neither reads y nor allocates).
Splice ==
    /\ pc = "splice" /\ err = {}
    /\ LET c == IF tr.right[y] # nil THEN tr.right[y] ELSE tr.left[y]
           t1 == IF node # y THEN [tr EXCEPT !.key[node] = tr.key[y]] ELSE tr
           par == tr.stack[depth]
           t2 == CASE depth = 0           -> [t1 EXCEPT !.root = c]
                   [] t1.left[par] = y    -> [t1 EXCEPT !.left[par] = c]
                   [] OTHER               -> [t1 EXCEPT !.right[par] = c]
       IN  /\ tr' = Free(t2, y)
           /\ err' = Failing([root_is_y |-> depth = 0 => tr.root = y,
                              y_child_of_p |-> depth # 0 => tr.left[par] = y \/ tr.right[par] = y])
           /\ node' = c
           /\ pc' = IF tr.color[y] = black THEN "delete_fixup" ELSE "return"
    /\ UNCHANGED <<x, p, w, y, depth, result>>

\* One iteration of the loop of rb_delete_fixup on node, which carries an
\* extra black, with p its parent and w its sibling.  Near and Far, and
\* the rotations toward and away from node, cover the code's left-hand
\* cases and their mirror images.
DeleteFixupStep ==
    /\ pc = "delete_fixup" /\ err = {}
    /\ tr.color[node] = black
    /\ IF node = tr.root
       THEN tr' = [tr EXCEPT !.bh = @ - 1] /\ pc' = "return" /\ UNCHANGED <<node, p, w, depth, err>>
       ELSE LET par == tr.stack[depth]
                gp == tr.stack[depth - 1]
                isL == (tr.left[par] = node)
                Near(t, n) == IF isL THEN t.left[n] ELSE t.right[n]
                Far(t, n) == IF isL THEN t.right[n] ELSE t.left[n]
                RotToward(t, n, q) == IF isL THEN rb_left_rotate(t, n, q) ELSE rb_right_rotate(t, n, q)
                RotAway(t, n, q) == IF isL THEN rb_right_rotate(t, n, q) ELSE rb_left_rotate(t, n, q)
                s == Far(tr, par)
                \* cases 3 and 4: the sibling's far child is made red, then rotated up
                t3 == IF tr.color[Far(tr, s)] = black
                      THEN LET r == RotAway(tr, s, par)
                           IN  Paint(Paint(r, s, red), Far(r, par), black)
                      ELSE tr
                s3 == Far(t3, par)
                t4 == RotToward(t3, par, gp)
                Checks == Failing([depth_ge_1 |-> depth >= 1,
                                   node_child_of_p |-> isL \/ node = tr.right[par],
                                   sibling_not_nil |-> isL => s # nil])
            IN  /\ p' = par /\ w' = s
                /\ CASE tr.color[Near(tr, s)] = black /\ tr.color[Far(tr, s)] = black
                         /\ tr.color[s] = black ->
                            \* case 1: the sibling turns red, the extra black moves up
                            /\ tr' = Paint(tr, s, red)
                            /\ node' = par /\ depth' = depth - 1
                            /\ err' = Checks
                            /\ UNCHANGED pc
                     [] tr.color[Near(tr, s)] = black /\ tr.color[Far(tr, s)] = black ->
                            \* case 2: a red sibling is rotated above par, and the
                            \* stack is patched to the new path
                            LET r == Paint(Paint(RotToward(tr, par, gp), s, black), par, red)
                            IN  /\ tr' = [r EXCEPT !.stack[depth + 1] = par, !.stack[depth] = s]
                                /\ depth' = depth + 1
                                /\ err' = Checks \cup PushFails(tr, depth + 1) \cup
                                          Failing([p_black |-> tr.color[par] = black])
                                /\ UNCHANGED <<pc, node>>
                     [] OTHER ->
                            /\ tr' = Paint(Paint(Paint(t4, s3, t3.color[par]), par, black),
                                           Far(t4, s3), black)
                            /\ err' = Checks \cup
                                      Failing([s_black |-> tr.color[s] = black,
                                               far_red |-> t3.color[Far(t3, s3)] = red,
                                               w_black |-> t3.color[s3] = black,
                                               p_below_gp |-> t3.left[gp] = par \/ t3.right[gp] = par
                                                              \/ par = t3.root])
                            /\ pc' = "return"
                            /\ UNCHANGED <<node, depth>>
    /\ UNCHANGED <<x, y, result>>

\* The end of rb_delete_fixup: a red node absorbs the extra black.
DeleteFixupEnd ==
    /\ pc = "delete_fixup" /\ err = {}
    /\ tr.color[node] = red
    /\ tr' = Paint(tr, node, black)
    /\ pc' = "return"
    /\ UNCHANGED <<x, node, p, w, y, depth, result, err>>

\* The nodes of t renamed 1, 2, ... in the order of their keys.
Rename(t) ==
    LET rank(n) == IF n = nil THEN nil ELSE Cardinality({m \in t.alloc : t.key[m] < t.key[n]}) + 1
        old(i) == CHOOSE n \in t.alloc : rank(n) = i
        used == 1 .. Cardinality(t.alloc)
    IN  [t EXCEPT !.key   = [i \in Nodes0 |-> IF i \in used THEN t.key[old(i)] ELSE 0],
                  !.left  = [i \in Nodes0 |-> IF i \in used THEN rank(t.left[old(i)]) ELSE nil],
                  !.right = [i \in Nodes0 |-> IF i \in used THEN rank(t.right[old(i)]) ELSE nil],
                  !.color = [i \in Nodes0 |-> IF i \in used THEN t.color[old(i)] ELSE black],
                  !.root  = rank(t.root),
                  !.alloc = used]

\* A call returns.  Its locals go, and so does the scratch no later call
\* reads before writing it: the stack entries (each call writes the path
\* it reads) and the sentinel's key (every lookup sets it first) and
\* children (written only as the parent of a rotated root, and read only
\* to choose which of the two to overwrite).
Return ==
    /\ pc = "return" /\ err = {}
    /\ tr' = Rename([tr EXCEPT !.stack = [i \in StackIdx |-> nil], !.key[nil] = 0,
                               !.left[nil] = nil, !.right[nil] = nil])
    /\ node' = nil /\ p' = nil /\ w' = nil /\ y' = nil /\ depth' = 0
    /\ pc' = "idle"
    /\ UNCHANGED <<x, result, err>>

\* rb_free_subtree from the root: every node of the tree is freed.
rb_free_subtree(t) ==
    [t EXCEPT !.alloc = {}, !.key = [n \in Nodes0 |-> 0],
              !.left = [n \in Nodes0 |-> nil], !.right = [n \in Nodes0 |-> nil],
              !.color = [n \in Nodes0 |-> black]]

\* rb_clear: the nodes are freed and the tree is empty again.
Clear ==
    /\ pc = "idle" /\ err = {}
    /\ tr' = [rb_free_subtree(tr) EXCEPT !.root = nil, !.bh = 0]
    /\ UNCHANGED <<pc, x, node, p, w, y, depth, result, err>>

Next ==
    \/ \E k \in Keys : Search(k) \/ Begin(k, "insert") \/ Begin(k, "delete")
    \/ SearchStep
    \/ DescendStep("insert") \/ DescendStep("delete")
    \/ InsertFound \/ InsertFixupStep \/ InsertFixupEnd
    \/ DeleteFound \/ DeleteNode \/ SuccessorStep \/ Splice
    \/ DeleteFixupStep \/ DeleteFixupEnd
    \/ Return \/ Clear

\* Every operation runs to its end on the compiler's one thread.
Spec == Init /\ [][Next]_vars /\ WF_vars(Next)

-----------------------------------------------------------------------------
(* Properties                                                              *)

\* The nodes a walk from n reaches (n included unless it is the sentinel).
Below(t, n) ==
    LET R[d \in 0 .. MaxNodes] ==
            IF d = 0 THEN {n} \ {nil}
            ELSE LET prev == R[d - 1]
                 IN  prev \cup (({t.left[m] : m \in prev} \cup {t.right[m] : m \in prev}) \ {nil})
    IN  R[MaxNodes]

Contents(t) == {t.key[n] : n \in Below(t, t.root)}

\* The numbers of black nodes on the paths from n down to the sentinel.
BlackHeights(t, n) ==
    LET H[d \in 0 .. MaxNodes] ==
            LET prev == IF d = 0 THEN [m \in Nodes0 |-> {}] ELSE H[d - 1]
            IN  [m \in Nodes0 |->
                    IF m = nil THEN {0}
                    ELSE {h + (IF t.color[m] = black THEN 1 ELSE 0) :
                            h \in prev[t.left[m]] \cup prev[t.right[m]]}]
    IN  H[MaxNodes][n]

TypeOK ==
    /\ tr.key \in [Nodes0 -> Keys \cup {0}]
    /\ tr.left \in [Nodes0 -> Nodes0] /\ tr.right \in [Nodes0 -> Nodes0]
    /\ tr.color \in [Nodes0 -> {red, black}]
    /\ tr.root \in Nodes0 /\ tr.bh \in Nat
    /\ tr.stack \in [StackIdx -> Nodes0] /\ tr.stack_size \in Nat
    /\ tr.alloc \subseteq Nodes
    /\ \A n \in tr.alloc : tr.key[n] \in Keys
    /\ pc \in {"idle", "return", "search", "insert", "insert_fixup", "delete", "delete_node",
               "successor", "splice", "delete_fixup"}
    /\ x \in Keys \cup {0} /\ {node, p, w, y} \subseteq Nodes0 /\ depth \in Nat
    /\ result \in BOOLEAN

\* No assertion of rbtree.c fails, and no write goes past tree->stack.
NoAssertionFailure == err = {}

\* After every step, in the middle of a fixup too, the tree the root
\* reaches is a binary search tree on distinct keys, every node reached
\* once, and exactly the allocated nodes: the rotations and the splice of
\* rb_delete_node relink without losing, duplicating or leaking a node.
SearchTree ==
    /\ Below(tr, tr.root) = tr.alloc
    /\ \A n \in tr.alloc :
          /\ n \notin Below(tr, tr.left[n]) \cup Below(tr, tr.right[n])
          /\ Below(tr, tr.left[n]) \cap Below(tr, tr.right[n]) = {}
          /\ \A m \in Below(tr, tr.left[n]) : tr.key[m] < tr.key[n]
          /\ \A m \in Below(tr, tr.right[n]) : tr.key[n] < tr.key[m]

\* Between operations the tree is red-black: the root and the shared
\* sentinel are black, no red node has a red child, and every path from
\* the root to the sentinel passes tree->bh black nodes -- the count that
\* rb_insert_fixup and rb_delete_fixup keep and the stack bound relies on.
RedBlack ==
    pc = "idle" =>
        /\ tr.color[tr.root] = black
        /\ tr.color[nil] = black
        /\ \A n \in tr.alloc : tr.color[n] = red =>
              tr.color[tr.left[n]] = black /\ tr.color[tr.right[n]] = black
        /\ BlackHeights(tr, tr.root) = {tr.bh}

\* The tree implements the key set of rbtree.h: each call completes on the
\* key passed, with the answer the set gives, and no step in between
\* changes the keys the tree holds.
KS == INSTANCE KeySet WITH contents <- Contents(tr), found <- result, arg <- x
Implements == KS!Spec

\* Every call returns: the descents and the fixup loops end.
Terminates == pc # "idle" ~> pc = "idle"

=============================================================================
