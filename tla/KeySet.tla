------------------------------- MODULE KeySet -------------------------------
(***************************************************************************)
(* What src/rbtree.h promises of a tree: a set of keys, compared by the   *)
(* address in their first field (rb_cmp_eq).  A caller passes a key (arg) *)
(* and then the operation completes on it:                                 *)
(*   rb_search           -- answers whether the key is present;            *)
(*   rb_insert_if_absent -- answers whether it was present, then adds it;  *)
(*   rb_delete           -- removes the key if present;                    *)
(*   rb_clear            -- empties the set.                               *)
(* found is the answer of the last search or insertion.                   *)
(***************************************************************************)
CONSTANT Keys

VARIABLES contents, found, arg

TypeOK == contents \subseteq Keys /\ found \in BOOLEAN /\ arg \in Keys \cup {0}

Init == contents = {} /\ found = FALSE /\ arg = 0

Call(k) == arg' = k /\ UNCHANGED <<contents, found>>

Search == found' = (arg \in contents) /\ UNCHANGED <<contents, arg>>

InsertIfAbsent ==
    /\ found' = (arg \in contents)
    /\ contents' = contents \cup {arg}
    /\ UNCHANGED arg

Delete == contents' = contents \ {arg} /\ UNCHANGED <<found, arg>>

Clear == contents' = {} /\ UNCHANGED <<found, arg>>

Next == (\E k \in Keys : Call(k)) \/ Search \/ InsertIfAbsent \/ Delete \/ Clear

Spec == Init /\ [][Next]_<<contents, found, arg>>

=============================================================================
