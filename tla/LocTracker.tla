----------------------------- MODULE LocTracker -----------------------------
(***************************************************************************)
(* The location tracker of the code generator (src/gencode.c), restricted *)
(* to integer variables, general-purpose registers, stack slots and        *)
(* integer constants, together with the integer move of the x86 backend   *)
(* (gen_mov in src/src/i386_backend.c) that the tracker drives.           *)
(*                                                                         *)
(* The tracker's globals and the variables' location lists are one record *)
(* (the tracker state).  Every tracker function is an operator from a     *)
(* tracker state to the state it leaves, so that the nested calls of the  *)
(* C code (save_var -> alloc_reg -> free_reg -> save_var ...) are nested  *)
(* operator applications, bounded by the number of registers.            *)
(*                                                                         *)
(*   loc[v]    the location list var->loc, most recent first              *)
(*   regs[r]   the resident list regs[r]                                  *)
(*   slots[j]  the resident list of the j-th stack element; the sentinel  *)
(*             element is implicit at index Len(slots)+1                  *)
(*   ffree     the index of first_stack_free                              *)
(*   deny      the registers set in blacklist_reg                         *)
(*   live      the variables whose var->live flag is set                  *)
(*   dist      nearest_use_distance of each variable at this point        *)
(*   phys      what each register and stack slot physically holds         *)
(*   val       the value each variable has in the IR program              *)
(*   err       the assertions of the C code that have failed              *)
(*   ndef      how many values the program has computed so far            *)
(*   ending    set once save_live has begun at the end of the block       *)
(*   ovf       set when a frame needs more than MaxSlots slots            *)
(*                                                                         *)
(* Locations never carry the permanent or dirty bit here: only arrays get *)
(* permanent locations (gencode), and arrays are not modelled.            *)
(***************************************************************************)
EXTENDS Integers, SequencesExt

CONSTANTS
    Vars,       \* the variables of the function (model values)
    Params,     \* the parameters, in stack slots when the function starts
    NumRegs,    \* backend->reg_num
    MaxSlots,   \* the most stack slots a frame may use in the model
    Consts,     \* the integer constants that occur as operands
    Dists       \* the nearest_use_distance of every variable a run may start
                \* from: a set of functions from Vars

ASSUME /\ Params \subseteq Vars
       /\ NumRegs \in Nat \ {0}
       /\ MaxSlots \in Nat \ {0}
       /\ Consts \subseteq Int
       /\ Dists \subseteq [Vars -> Nat \ {0}]

Regs == 0 .. NumRegs - 1

RegLoc(i) == [tag |-> "reg", n |-> i]
StkLoc(j) == [tag |-> "stack", n |-> j]
IntLoc(c) == [tag |-> "int", n |-> c]
NoLoc == [tag |-> "none", n |-> 0]

PhysLocs == {RegLoc(i) : i \in Regs} \cup {StkLoc(j) : j \in 1 .. MaxSlots}
Locs == PhysLocs \cup {IntLoc(c) : c \in Consts}

\* Values are symbolic: a parameter's input, a constant, a computed value.
Input(p) == <<"input", p>>
Const(c) == <<"const", c>>
Garbage == <<"garbage", 0>>

ParamSeq == SetToSeq(Params)

\* eq_loc: two locations are equal when their tags and their register,
\* slot or constant are.
eq_loc(l1, l2) == l1.tag = l2.tag /\ l1.n = l2.n

\* find_loc(ls, l) != NULL: some location of the list equals l.
find_loc(ls, l) == \E i \in 1 .. Len(ls) : eq_loc(ls[i], l)

-----------------------------------------------------------------------------
(* The var_list_t operations of src/quadr.c on resident lists: a list is a *)
(* sequence, its head first.                                               *)
var_list_len(vl) == Len(vl)

vl_find(vl, v) == Contains(vl, v)

\* a new entry goes to the front, and only if v is not listed yet
vl_insert_if_absent(vl, v) == IF vl_find(vl, v) THEN vl ELSE Cons(v, vl)

-----------------------------------------------------------------------------
(* Queries on a tracker state s.                                           *)

\* The resident list of a location (empty for a constant).
Residents(s, l) ==
    CASE l.tag = "reg"   -> s.regs[l.n]
      [] l.tag = "stack" -> s.slots[l.n]
      [] OTHER           -> <<>>

\* What the generated code finds at location l.
ValueAt(s, l) == IF l.tag = "int" THEN Const(l.n) ELSE s.phys[l]

Write(s, l, x) == [s EXCEPT !.phys[l] = x]

HasTag(s, v, tag) == \E i \in 1 .. Len(s.loc[v]) : s.loc[v][i].tag = tag

\* var_loc_count_tags(v, LOC_REG)
RegCount(s, v) == Len(SelectSeq(s.loc[v], LAMBDA l : l.tag = "reg"))

loc_is_allowed(s, l) == l.tag # "reg" \/ l.n \notin s.deny

\* should_save_var: v is live and l2 is its only allowed location.
should_save_var(s, v, l2) ==
    /\ v \in s.live
    /\ \A i \in 1 .. Len(s.loc[v]) :
          eq_loc(s.loc[v][i], l2) \/ ~loc_is_allowed(s, s.loc[v][i])

\* ref_num: the residents of l that have no other location.
ref_num(s, l) ==
    IF l.tag = "int" THEN 1
    ELSE Cardinality({i \in 1 .. Len(Residents(s, l)) :
                          Len(s.loc[Residents(s, l)[i]]) = 1})

\* The first location of the list whose tag is in tags.
FirstOfTags(ls, tags) ==
    LET idx == {i \in 1 .. Len(ls) : ls[i].tag \in tags}
    IN  IF idx = {} THEN NoLoc ELSE ls[Min(idx)]

std_find_best_src_loc(s, v) ==
    LET r == FirstOfTags(s.loc[v], {"reg"})
        c == FirstOfTags(s.loc[v], {"int"})
    IN  CASE r # NoLoc       -> r
          [] c # NoLoc       -> c
          [] s.loc[v] # <<>> -> Head(s.loc[v])
          [] OTHER           -> NoLoc

FreeRegs(s) == {i \in Regs : s.regs[i] = <<>> /\ i \notin s.deny}

available_regs_num(s) == Cardinality(FreeRegs(s))

\* Mutation: the test without the n > 0 conjunct.
RegisterIsWorthItAnyCount(s, v) ==
    4 + (available_regs_num(s) * available_regs_num(s)) \div 2 >= s.dist[v]

\* The test of save_var_not_to_loc and move_to_reg_if_sensible.
RegisterIsWorthIt(s, v) ==
    LET n == available_regs_num(s)
    IN  n > 0 /\ 4 + (n * n) \div 2 >= s.dist[v]

\* do_bellady_ra: a free allowed register, else the allowed register whose
\* single-register residents have the largest average distance; a register
\* none of whose residents depends on it wins at once.  -1 if none allowed.
do_bellady_ra(s) ==
    LET allowed == Regs \ s.deny
        single(i) == {k \in 1 .. Len(s.regs[i]) : RegCount(s, s.regs[i][k]) = 1}
        total(i) == MapThenSumSet(LAMBDA k : s.dist[s.regs[i][k]], single(i))
        \* the average distance of i exceeds that of j
        above(i, j) == total(i) * Cardinality(single(j)) > total(j) * Cardinality(single(i))
        spare == {i \in allowed : single(i) = {}}
    IN  CASE FreeRegs(s) # {} -> Min(FreeRegs(s))
          [] allowed = {}     -> -1
          [] spare # {}       -> Min(spare)
          [] OTHER            -> CHOOSE i \in allowed :
                                    /\ \A j \in allowed : ~above(j, i)
                                    /\ \A j \in allowed : j < i => above(i, j)

\* do_bellady_ra's first loop stops at the k-th resident of register i
\* when it is an operand of the current quadruple (s.ops, used_in_quadr
\* of cur_quadr) whose only register is this one: i is skipped.
SkipsAt(s, i, k) == s.regs[i][k] \in s.ops /\ RegCount(s, s.regs[i][k]) = 1

\* The loop checks count >= 1 for each resident it reaches before the skip.
CountsHold(s, i) ==
    \A k \in 1 .. Len(s.regs[i]) :
        RegCount(s, s.regs[i][k]) >= 1 \/ \E j \in 1 .. k - 1 : SkipsAt(s, i, j)

\* The assertions of do_bellady_ra's first loop when no register is free:
\* some register is allowed (else min_refs keeps its initial value), and
\* every count the loop reads is at least 1.
BelladyAssertsHold(s) ==
    \/ FreeRegs(s) # {}
    \/ Regs \ s.deny # {} /\ \A i \in Regs \ s.deny : CountsHold(s, i)

\* assert (min_refs < 100000) when registers are allowed: some allowed
\* register is not skipped.  With every allowed register holding the last
\* register copy of an operand, min_refs keeps its initial value.
MinRefsAssertHolds(s) ==
    FreeRegs(s) # {} \/ \E i \in Regs \ s.deny : \A k \in 1 .. Len(s.regs[i]) : ~SkipsAt(s, i, k)

Fail(s, what) == [s EXCEPT !.err = @ \cup {what}]

-----------------------------------------------------------------------------
(* The stack allocator.                                                    *)

\* The first empty element at or after j; the sentinel if none.
NextFree(s, j) ==
    Min({k \in j .. Len(s.slots) : s.slots[k] = <<>>} \cup {Len(s.slots) + 1})

\* first_stack_free advanced past occupied elements.
AdvanceFree(s) == [s EXCEPT !.ffree = NextFree(s, s.ffree)]

\* Mutations: first_stack_free left alone, or moved one element too low.
StackEraseKeepsFirstFree(s, j, v) == [s EXCEPT !.slots[j] = RemoveFirst(@, v)]

StackEraseOffByOne(s, j, v) ==
    LET s1 == [s EXCEPT !.slots[j] = RemoveFirst(@, v)]
    IN  IF s1.slots[j] = <<>> /\ s1.ffree > j THEN [s1 EXCEPT !.ffree = j - 1] ELSE s1

stack_erase(s, j, v) ==
    LET s1 == [s EXCEPT !.slots[j] = RemoveFirst(@, v)]
    IN  IF s1.slots[j] = <<>> /\ s1.ffree > j THEN [s1 EXCEPT !.ffree = j] ELSE s1

\* The element stack_insert_new(v) takes: first fit from first_stack_free.
NewSlot(s) == NextFree(s, s.ffree)

stack_insert_new(s, v) ==
    LET j == NewSlot(s)
    IN  IF j > MaxSlots THEN [s EXCEPT !.ovf = TRUE]
        ELSE LET s1 == IF j > Len(s.slots)
                       THEN [s EXCEPT !.slots = Append(@, <<v>>)]
                       ELSE [s EXCEPT !.slots[j] = <<v>>]
             IN  IF s1.ffree = j THEN AdvanceFree(s1) ELSE s1

stack_insert(s, j, v) ==
    IF Contains(s.slots[j], v) THEN s
    ELSE LET s1 == [s EXCEPT !.slots[j] = Cons(v, @)]
         IN  IF s1.ffree = j THEN AdvanceFree(s1) ELSE s1

-----------------------------------------------------------------------------
(* Location-list and resident-list updates.                                *)

\* LOC_ERASE on a non-permanent location: drop l from v's list.
loc_erase(s, v, l) == [s EXCEPT !.loc[v] = Remove(@, l)]

\* Whether update_var_loc(v, l) adds v to the resident list of l.
Updates(s, v, l) ==
    CASE l.tag = "stack" -> ~vl_find(s.slots[l.n], v)
      [] l.tag = "reg"   -> ~vl_find(s.regs[l.n], v)
      [] OTHER           -> TRUE

update_var_loc(s, v, l) ==
    IF l.tag = "stack" /\ l.n > Len(s.slots) THEN Fail(s, "slot out of range") ELSE
    LET s1 == CASE l.tag = "stack" -> stack_insert(s, l.n, v)
                [] l.tag = "reg"   -> [s EXCEPT !.regs[l.n] = vl_insert_if_absent(@, v)]
                [] OTHER           -> s
    IN  CASE ~Updates(s, v, l) /\ ~find_loc(s.loc[v], l) -> Fail(s1, "update_var_loc")
          [] ~Updates(s, v, l)                           -> s1
          \* an equal non-permanent location is already listed
          [] find_loc(s.loc[v], l)                       -> Fail(s1, "update_var_loc")
          [] OTHER                                       -> [s1 EXCEPT !.loc[v] = Cons(l, @)]

\* Erase v from the resident list of one of its locations.
EraseResidency(s, v, l) ==
    CASE l.tag = "reg"   -> [s EXCEPT !.regs[l.n] = RemoveFirst(@, v)]
      [] l.tag = "stack" -> stack_erase(s, l.n, v)
      [] OTHER           -> s

\* Mutation: the location list is dropped without erasing v from the
\* resident lists.
DiscardVarKeepsResidents(s, v) == [s EXCEPT !.loc[v] = <<>>]

discard_var(s, v) ==
    [FoldLeft(LAMBDA acc, l : EraseResidency(acc, v, l), s, s.loc[v])
        EXCEPT !.loc[v] = <<>>]

discard_var_loc(s, v, l) == EraseResidency(loc_erase(s, v, l), v, l)

\* Mutation of FREE_VL: the residents are erased without being saved.
FreeVLWithoutSave(s, r, vl) ==
    FoldLeft(LAMBDA acc, v : loc_erase(acc, v, RegLoc(r)), s, vl)

-----------------------------------------------------------------------------
(* Saving, flushing and register allocation call one another; their       *)
(* recursion ends because every nested free_reg denies one more register. *)
(* Every call of the group, from inside or outside it, goes through the   *)
(* single recursive entry Call, named after the C function it stands for. *)

RECURSIVE Call(_, _, _, _)

\* save_var_not_to_loc(v, d): give v an allowed location other than d.
save_var_not_to_loc(s, v, d) ==
    CASE s.loc[v] = <<>> -> Fail(s, "save_var_not_to_loc")
      [] RegisterIsWorthIt(s, v) ->
            Call("save_var_to_loc", Call("alloc_reg", s, 0, 0), v, RegLoc(do_bellady_ra(s)))
      [] \E i \in 1 .. Len(s.loc[v]) : s.loc[v][i].tag = "stack" /\ s.loc[v][i] # d ->
            s
      [] OTHER ->
            LET j == NewSlot(s)
                s1 == Call("gen_mov", stack_insert_new(s, v), StkLoc(j), v)
            IN  IF s1.ovf THEN s1 ELSE [s1 EXCEPT !.loc[v] = Cons(StkLoc(j), @)]

save_var_to_loc(s, v, l) ==
    CASE s.loc[v] = <<>>                -> Fail(s, "save_var_to_loc")
      [] l = RegLoc(-1)                -> s  \* alloc_reg has failed already
      [] vl_find(Residents(s, l), v)   -> s
      [] l.tag = "int"                 -> s
      [] OTHER ->
            LET s1 == Call("flush_loc", s, l, 0)
            IN  IF find_loc(s1.loc[v], l) THEN s1
                ELSE update_var_loc(Call("gen_mov", s1, l, v), v, l)

flush_loc(s, l) ==
    CASE l.tag = "reg"   -> Call("free_reg", s, l.n, 0)
      [] l.tag = "stack" -> [Call("FlushStackVL", s, l, s.slots[l.n]) EXCEPT !.slots[l.n] = <<>>]
      [] OTHER           -> Fail(s, "flush_loc")

FlushStackVL(s, l, vl) ==
    IF vl = <<>> THEN s
    ELSE LET v == Head(vl)
             s1 == IF should_save_var(s, v, l) THEN Call("save_var_not_to_loc", s, v, l) ELSE s
         IN  Call("FlushStackVL", loc_erase(s1, v, l), l, Tail(vl))

\* free_reg denies r while its residents are saved elsewhere.
free_reg(s, r) ==
    LET s1 == Call("FreeVL", [s EXCEPT !.deny = @ \cup {r}], r, s.regs[r])
        s2 == [s1 EXCEPT !.regs[r] = <<>>]
    IN  IF r \notin s.deny THEN [s2 EXCEPT !.deny = @ \ {r}] ELSE s2

\* FREE_VL over the residents of register r.
FreeVL(s, r, vl) ==
    IF vl = <<>> THEN s
    ELSE LET v == Head(vl)
             s1 == IF should_save_var(s, v, RegLoc(r))
                   THEN Call("save_var_not_to_loc", s, v, NoLoc) ELSE s
         IN  Call("FreeVL", loc_erase(s1, v, RegLoc(r)), r, Tail(vl))

\* bellady_ra: the state once the register do_bellady_ra(s) picks is freed.
bellady_ra(s) ==
    LET r == do_bellady_ra(s)
        s0 == IF BelladyAssertsHold(s) THEN s ELSE Fail(s, "do_bellady_ra")
        s1 == IF MinRefsAssertHolds(s) THEN s0 ELSE Fail(s0, "min_refs")
    IN  IF r = -1 THEN s1 ELSE Call("free_reg", s1, r, 0)

\* alloc_reg(LOC_REG): the backend's allocator for the integer registers,
\* which the x86 backend sets to bellady_ra.
alloc_reg(s) == bellady_ra(s)

\* gen_mov of the x86 backend for an integer variable: a memory-to-memory
\* move goes through a register, which the backend records as a location.
gen_mov(s, dest, v) ==
    LET src == std_find_best_src_loc(s, v)
    IN  IF src = NoLoc THEN Fail(s, "gen_mov")
        ELSE IF dest.tag = "stack" /\ src.tag = "stack"
        THEN LET r == do_bellady_ra(s)
                 s1 == Call("alloc_reg", s, 0, 0)
                 s2 == Write(s1, RegLoc(r), ValueAt(s1, src))
             IN  IF r = -1 THEN s1
                 ELSE update_var_loc(Write(s2, dest, ValueAt(s2, RegLoc(r))), v, RegLoc(r))
        ELSE Write(s, dest, ValueAt(s, src))

Call(f, s, x, y) ==
    CASE f = "save_var_not_to_loc" -> save_var_not_to_loc(s, x, y)
      [] f = "save_var_to_loc"     -> save_var_to_loc(s, x, y)
      [] f = "flush_loc"           -> flush_loc(s, x)
      [] f = "FlushStackVL"        -> FlushStackVL(s, x, y)
      [] f = "free_reg"            -> free_reg(s, x)
      [] f = "FreeVL"              -> FreeVL(s, x, y)
      [] f = "alloc_reg"           -> alloc_reg(s)
      [] f = "gen_mov"             -> gen_mov(s, x, y)

save_var(s, v) == Call("save_var_not_to_loc", s, v, NoLoc)

-----------------------------------------------------------------------------
(* The remaining tracker operations.                                       *)

move_to_reg(s, v) ==
    CASE s.loc[v] = <<>>       -> Fail(s, "move_to_loc")
      [] HasTag(s, v, "reg")   -> s
      [] OTHER                 -> Call("save_var_to_loc", Call("alloc_reg", s, 0, 0), v,
                                       RegLoc(do_bellady_ra(s)))

\* Mutations: the locations shared without entering the resident lists,
\* or without discarding v's old locations first.
CopyToVarWithoutResidents(s, v, x) == [discard_var(s, v) EXCEPT !.loc[v] = s.loc[x]]

CopyToVarWithoutDiscard(s, v, x) ==
    FoldLeft(LAMBDA acc, l : update_var_loc(acc, v, l), s, s.loc[x])

\* copy_to_var(v, x): v shares every location of x.
copy_to_var(s, v, x) ==
    LET s1 == discard_var(s, v)
    IN  FoldLeft(LAMBDA acc, l : update_var_loc(acc, v, l), s1, s1.loc[x])

copy_const_to_var(s, v, c) == [discard_var(s, v) EXCEPT !.loc[v] = <<IntLoc(c)>>]

\* FREE_VL_COND with the condition vl->var != v, over the residents vl of
\* l: each other resident is saved if should_save_var says l holds what
\* would be lost, then erased from l.
FREE_VL_COND(s, v, l, vl) ==
    LET Evict(acc, w) ==
            IF w = v THEN acc
            ELSE loc_erase(IF should_save_var(acc, w, l) THEN save_var(acc, w) ELSE acc, w, l)
    IN  FoldLeft(Evict, s, vl)

\* ensure_unique_for_var(v, l): l becomes v's only location and v its only
\* resident; the residents it evicts are saved elsewhere first.
ensure_unique_for_var(s, v, l) ==
    LET s1 == [s EXCEPT !.loc[v] = <<l>>]
        s2 == FREE_VL_COND(s1, v, l, Residents(s, l))
    IN  CASE l.tag = "reg"   -> [s2 EXCEPT !.regs[l.n] = <<v>>]
          [] l.tag = "stack" -> [s2 EXCEPT !.slots[l.n] = <<v>>]
          [] OTHER           -> s1

\* The number of co-residents ensure_unique counts for a location.
Refs(s, l) == IF l.tag = "int" THEN 1 ELSE var_list_len(Residents(s, l))

\* The location ensure_unique picks: the first constant, else the first
\* with fewest residents, a later tie replacing a stack location.
UniqueCandidate(s, v) ==
    LET ls == s.loc[v]
        Pick(best, l) ==
            IF best = NoLoc \/ Refs(s, l) < Refs(s, best) \/
               (Refs(s, l) = Refs(s, best) /\ best.tag = "stack")
            THEN l ELSE best
    IN  IF HasTag(s, v, "int") THEN FirstOfTags(ls, {"int"})
        ELSE FoldLeft(Pick, NoLoc, ls)

ensure_unique(s, v) ==
    LET m == UniqueCandidate(s, v)
        Drop(acc, l) == IF Refs(acc, l) > 1 THEN discard_var_loc(acc, v, l) ELSE acc
    IN  CASE m = NoLoc      -> Fail(s, "ensure_unique")
          [] Refs(s, m) = 1 -> FoldLeft(Drop, s, s.loc[v])
          [] OTHER          -> ensure_unique_for_var(s, v, m)

-----------------------------------------------------------------------------
(* The tracker driven through its interface by a backend that respects    *)
(* the contracts of src/gencode.h: it discards a variable when it dies    *)
(* (C1), it only asks to save, move or unify live variables, and it only  *)
(* defines a variable by computing it into a register it has allocated.  *)

CONSTANTS
    MaxDefs,    \* how many values the program computes
    SelfCopies  \* whether the IR may hold x := x: local optimisation
                \* (remove_redundant_copy in src/opt.cpp) is off, as with -O0

VARIABLE t

\* The slot of the i-th parameter (stack_param).
ParamSlot(p) == CHOOSE i \in 1 .. Len(ParamSeq) : ParamSeq[i] = p

\* gencode and start_func: empty registers, parameters in their slots.
InitState(d) ==
    [loc   |-> [v \in Vars |-> IF v \in Params THEN <<StkLoc(ParamSlot(v))>> ELSE <<>>],
     regs  |-> [r \in Regs |-> <<>>],
     slots |-> [i \in 1 .. Len(ParamSeq) |-> <<ParamSeq[i]>>],
     ffree |-> Len(ParamSeq) + 1,
     deny  |-> {},
     live  |-> Params,
     dist  |-> d,
     phys  |-> [l \in PhysLocs |-> IF l.tag = "stack" /\ l.n <= Len(ParamSeq)
                                     THEN Input(ParamSeq[l.n]) ELSE Garbage],
     val   |-> [v \in Vars |-> IF v \in Params THEN Input(v) ELSE Garbage],
     ndef  |-> 0,
     err   |-> {},
     ending |-> FALSE,
     ovf   |-> FALSE,
     ops   |-> {}]

Init == \E d \in Dists : t = InitState(d)

\* A step inside the block leaves the tracker in s, unless the frame outgrew
\* the bound.
\* The min_refs assertion has failed: the compiler has stopped.
Aborted == "min_refs" \in t.err

\* cur_quadr is NULL again once gencode_for_quadr returns.
Step(s) == ~t.ending /\ ~Aborted /\ ~s.ovf /\ t' = [s EXCEPT !.ops = {}]

\* The variables a quadruple uses (arg1 and arg2, used_in_quadr) that can
\* make do_bellady_ra skip a register: those with one register location.
\* Any other operand changes nothing, so it is not enumerated.
Operands == {o \in SUBSET {x \in Vars : RegCount(t, x) = 1} : Cardinality(o) <= 2}

\* t while gen_code handles a quadruple with operands o (cur_quadr).
In(o) == [t EXCEPT !.ops = o]

\* The variable dies after its last use: C1 makes the backend discard it.
Kill(v) ==
    /\ v \in t.live
    /\ Step(discard_var([t EXCEPT !.live = @ \ {v}, !.val[v] = Garbage], v))

\* COPY v := x (gencode_for_quadr), x live before the copy.
CopyVar(v, x) ==
    /\ x \in t.live
    /\ v # x \/ SelfCopies
    /\ Step([copy_to_var(In({x}), v, x) EXCEPT !.live = @ \cup {v}, !.val[v] = t.val[x]])

\* COPY v := c.
CopyConst(v, c) ==
    Step([copy_const_to_var(t, v, c) EXCEPT !.live = @ \cup {v}, !.val[v] = Const(c)])

\* v := a fresh value computed into a register the backend allocates, as
\* in update_locations: discard v, flush the register, record v there.
Define(v, o) ==
    /\ t.ndef < MaxDefs
    /\ LET r == do_bellady_ra(In(o))
           x == <<"def", t.ndef + 1>>
           \* gen_code sees v's liveness after the quadruple: v is live
           s1 == Call("alloc_reg", [In(o) EXCEPT !.live = @ \cup {v}], 0, 0)
           s2 == update_var_loc(Call("flush_loc", discard_var(s1, v), RegLoc(r), 0), v, RegLoc(r))
       IN  Step([Write(s2, RegLoc(r), x) EXCEPT !.val[v] = x, !.ndef = @ + 1])

\* The backend wants an operand in a register (gen_ptr_op, gen_cmp, ...).
MoveToReg(v, o) ==
    /\ v \in t.live /\ Cardinality(o \cup {v}) <= 2
    /\ Step(move_to_reg(In(o \cup {v}), v))

\* move_to_reg_if_sensible, which gencode_for_quadr applies to the operands
\* before gen_code: a live operand with neither a register nor a constant
\* location goes to a register when one is free and its next use is near.
\* A register is free, so do_bellady_ra never reaches the operands of
\* cur_quadr (then the next quadruple).
MoveToRegIfSensible(v) ==
    /\ v \in t.live
    /\ ~HasTag(t, v, "reg") /\ ~HasTag(t, v, "int")
    /\ RegisterIsWorthIt(t, v)
    /\ Step(move_to_reg(t, v))

\* discard_const: drop v's constant locations.  prev is read before it is
\* set when the first location is a constant: undefined behaviour, recorded
\* as a failure.
discard_const(s, v) ==
    LET s1 == [s EXCEPT !.loc[v] = SelectSeq(@, LAMBDA l : l.tag # "int")]
    IN  IF s.loc[v] # <<>> /\ Head(s.loc[v]).tag = "int"
        THEN Fail(s1, "discard_const") ELSE s1

\* update_child_vars for one successor that expects v at l, or NoLoc when
\* that successor is not generated yet: it either records v's location for
\* the successor (keeping a constant only once it is saved) or moves v to
\* where the successor's other predecessor left it.
update_child_vars(s1, v, l) ==
    LET OnlyConst == Len(s1.loc[v]) = 1 /\ s1.loc[v][1].tag = "int"
    IN  IF l = NoLoc
        THEN discard_const(IF OnlyConst THEN save_var(s1, v) ELSE s1, v)
        ELSE IF Contains(s1.loc[v], l) THEN s1 ELSE Call("save_var_to_loc", s1, v, l)

\* save_var_at_block_end: ensure_unique, then update_child_vars.
save_var_at_block_end(s, v, l) == update_child_vars(ensure_unique(s, v), v, l)

\* The backend passes a variable in a fixed register (gen_call, RETURN).
\* gen_call's cur_quadr uses no variable; RETURN's uses v.
SaveVarToReg(v, r, o) ==
    /\ v \in t.live /\ o \subseteq {v}
    /\ Step(Call("save_var_to_loc", In(o), v, RegLoc(r)))

\* The block ends with v live into a successor (save_live).
\* After it only the reconciliation of the other live variables follows.
EndStep(s) == ~s.ovf /\ t' = [s EXCEPT !.ending = TRUE]

SaveAtBlockEnd(v, l) == v \in t.live /\ EndStep(save_var_at_block_end(t, v, l))

\* The backend frees a fixed register (before a division or a call).
FreeReg(r, o) == Step(Call("free_reg", In(o), r, 0))

\* The locations a backend may name: registers and the slots in use.
TargetLocs == {RegLoc(r) : r \in Regs} \cup {StkLoc(j) : j \in 1 .. Len(t.slots)}

\* The calls gencode_for_quadr and the backends make inside a basic block.
InBlockNext ==
    \/ \E v \in Vars : Kill(v) \/ MoveToRegIfSensible(v)
    \/ \E v \in Vars, o \in Operands : Define(v, o) \/ MoveToReg(v, o)
    \/ \E v, x \in Vars : CopyVar(v, x)
    \/ \E v \in Vars, c \in Consts : CopyConst(v, c)
    \/ \E v \in Vars, r \in Regs, o \in Operands : SaveVarToReg(v, r, o)
    \/ \E r \in Regs, o \in Operands : FreeReg(r, o)
    \/ Aborted /\ UNCHANGED t

\* ... and the reconciliation save_live makes at the end of a block.
Next == InBlockNext \/ \E v \in Vars, l \in TargetLocs \cup {NoLoc} : SaveAtBlockEnd(v, l)

InBlockSpec == Init /\ [][InBlockNext]_t

Spec == Init /\ [][Next]_t

-----------------------------------------------------------------------------
(* Properties.                                                             *)

Values == {Input(p) : p \in Params} \cup {Const(c) : c \in Consts}
          \cup {<<"def", k>> : k \in 1 .. MaxDefs} \cup {Garbage}

TypeOK ==
    t \in [loc : [Vars -> Seq(Locs)], regs : [Regs -> Seq(Vars)],
           slots : Seq(Seq(Vars)), ffree : 1 .. MaxSlots + 1,
           deny : SUBSET Regs, live : SUBSET Vars, dist : Dists,
           phys : [PhysLocs -> Values],
           val : [Vars -> Values], ndef : 0 .. MaxDefs,
           err : SUBSET STRING, ending : BOOLEAN, ovf : BOOLEAN,
           ops : SUBSET Vars]

\* I1, the assertion gencode_invariant checks at every tracker entry and
\* exit: every location of a variable lists the variable as a resident.
ResidentsListed ==
    \A v \in Vars : \A i \in 1 .. Len(t.loc[v]) :
        t.loc[v][i].tag # "int" => Contains(Residents(t, t.loc[v][i]), v)

\* I2, the converse the specification states: a register or slot lists
\* exactly the variables that have it as a location.
ResidentsExact ==
    \A l \in TargetLocs : \A k \in 1 .. Len(Residents(t, l)) :
        Contains(t.loc[Residents(t, l)[k]], l)

\* I4: after any sequence of tracker calls every live variable still has
\* a location to be read from.
LiveHasLocation == \A v \in t.live : t.loc[v] # <<>>

\* The tracker's bookkeeping agrees with the machine: every location the
\* tracker records for a live variable physically holds the variable's
\* current value, whatever saves, spills, copies and evictions ran before.
Coherence ==
    \A v \in t.live : \A i \in 1 .. Len(t.loc[v]) : ValueAt(t, t.loc[v][i]) = t.val[v]

\* first_stack_free is the lowest free stack element, as stack_insert_new
\* assumes (it asserts the element is empty and scans upward from it).
FirstFreeSlot == t.ffree = NextFree(t, 1)

\* No assertion of the tracker or of do_bellady_ra fails, except the
\* min_refs assertion: that one depends on the register count.  It fails
\* when every allowed register holds the only register copy of an operand.
\* The x86 backend has 7 registers, denies at most 2 while an operand is
\* in use (division) and a quadruple has 2 operands, so it cannot fail
\* there, while with NumRegs = 2 two operands fill the register file.
NoAssertionFailure == t.err \subseteq {"min_refs"}

\* discard_const never reads its uninitialised prev pointer: the constant
\* location of a variable is never the head of its list when save_live
\* reconciles it with a successor generated for the first time.
NoUninitialisedRead == "discard_const" \notin t.err

=============================================================================
