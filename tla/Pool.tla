-------------------------------- MODULE Pool --------------------------------
(***************************************************************************)
(* pool_t of src/mem.c: a pool of fixed-size elements kept in chunks      *)
(* (pool_node_t).  Each chunk threads its free elements into a list       *)
(* through their first word; the chunks that still have a free element    *)
(* are threaded through next_free, headed by pool->first_free.            *)
(*                                                                         *)
(* A pool is a record: elem_size after new_pool's rounding; nodes, the    *)
(* chunk list pool->nodes in creation order, each chunk [size (bytes),    *)
(* free (the element indices on its free list, head first), next_free];   *)
(* first_free, a chunk index; layout, the chunk indices in address order, *)
(* as malloc placed them.  An element's address is [chunk, idx], idx its  *)
(* index within the chunk.  0 is NULL.                                     *)
(***************************************************************************)
EXTENDS Integers, Sequences, SequencesExt

CONSTANT ALIGN  \* sizeof(void*), the alignment new_pool rounds elem_size to

Addr(c, i) == [chunk |-> c, idx |-> i]

\* new_pool_node(size, elem_size) with make_free_list: size elements, all
\* free, listed in ascending address order
new_pool_node(size, elem_size) ==
    [size |-> size * elem_size, free |-> [k \in 1 .. size |-> k - 1], next_free |-> 0]

Capacity(pn, elem_size) == pn.size \div elem_size

\* elem_size raised to a pointer and rounded up to a multiple of ALIGN
RoundElemSize(e) ==
    LET e1 == IF e < ALIGN THEN ALIGN ELSE e
    IN (e1 + ALIGN - 1) - ((e1 + ALIGN - 1) % ALIGN)

new_pool(size, elem_size) ==
    [elem_size |-> RoundElemSize(elem_size),
     nodes |-> <<new_pool_node(size, RoundElemSize(elem_size))>>,
     first_free |-> 1, layout |-> <<1>>]

\* [pool |-> the pool after the call, addr |-> the element handed out].
\* The element comes from the head of the first chunk on the free-chunk
\* list; when that chunk runs out the list moves on, and when it is empty
\* a chunk of twice the last chunk's bytes, in elements, is appended.  The
\* new chunk goes to address rank pos among the chunks malloc has placed.
palloc(P, pos) ==
    LET pn == P.first_free
        P1 == [P EXCEPT !.nodes[pn].free = Tail(@)]
        last == Len(P.nodes)
        grown == [P1 EXCEPT !.nodes = Append(@, new_pool_node(P.nodes[last].size * 2, P.elem_size)),
                            !.first_free = last + 1,
                            !.layout = InsertAt(@, IF pos > Len(@) + 1 THEN Len(@) + 1 ELSE pos, last + 1)]
        P2 == CASE P1.nodes[pn].free # <<>> -> P1
                [] P.nodes[pn].next_free # 0 -> [P1 EXCEPT !.first_free = P.nodes[pn].next_free]
                [] OTHER -> grown
    IN [pool |-> P2, addr |-> Addr(pn, Head(P.nodes[pn].free))]

\* mutant: a chunk that was full is not put back on the free-chunk list
pfree_without_relink(P, a) == [P EXCEPT !.nodes[a.chunk].free = <<a.idx>> \o @]

\* pfree: the element goes to the head of its chunk's free list; a chunk
\* that was full goes to the head of the free-chunk list.
pfree(P, a) ==
    IF P.nodes[a.chunk].free = <<>>
    THEN [P EXCEPT !.nodes[a.chunk].free = <<a.idx>>,
                   !.nodes[a.chunk].next_free = P.first_free,
                   !.first_free = a.chunk]
    ELSE [P EXCEPT !.nodes[a.chunk].free = <<a.idx>> \o @]

\* (char*)a > (char*)b: chunks compare by where malloc put them, elements
\* of one chunk by index
AddrGreater(P, a, b) ==
    LET rank(c) == CHOOSE k \in 1 .. Len(P.layout) : P.layout[k] = c
    IN \/ rank(a.chunk) > rank(b.chunk)
       \/ a.chunk = b.chunk /\ a.idx > b.idx

-----------------------------------------------------------------------------
(* What a pool must keep true.                                             *)
(***************************************************************************)
Elements(P) ==
    UNION {{Addr(c, i) : i \in 0 .. Capacity(P.nodes[c], P.elem_size) - 1} : c \in 1 .. Len(P.nodes)}

FreeElements(P) == UNION {{Addr(c, i) : i \in Range(P.nodes[c].free)} : c \in 1 .. Len(P.nodes)}

\* the chunks reached from first_free through next_free, in order, stopping
\* at NULL or at the first chunk seen twice
FreeChain(P) ==
    LET chain[k \in 0 .. Len(P.nodes)] ==
            IF k = 0 THEN <<P.first_free>>
            ELSE LET prev == chain[k - 1]
                     nxt == P.nodes[Last(prev)].next_free
                 IN IF nxt = 0 \/ nxt \in Range(prev) THEN prev ELSE Append(prev, nxt)
    IN chain[Len(P.nodes)]

\* The free lists and the free-chunk list describe the pool exactly: no
\* element is free twice or both free and in use, none is lost, the chunk
\* palloc takes from has a free element, and the free-chunk list is
\* acyclic and holds exactly the chunks with a free element.
PoolConsistent(P, inUse) ==
    /\ \A c \in 1 .. Len(P.nodes) : IsInjective(P.nodes[c].free)
    /\ inUse \cap FreeElements(P) = {}
    /\ inUse \cup FreeElements(P) = Elements(P)
    /\ P.first_free \in 1 .. Len(P.nodes)
    /\ LET ch == FreeChain(P)
       IN /\ P.nodes[Last(ch)].next_free = 0
          /\ Range(ch) = {c \in 1 .. Len(P.nodes) : P.nodes[c].free # <<>>}

=============================================================================
