------------------------------ MODULE CapTable ------------------------------
(***************************************************************************)
(* The capability table of a task, kernel/src/proc/capabilities.c: an      *)
(* array of slots that grows by doubling, a singly linked free list        *)
(* threaded through it, a generation per slot that makes old identifiers   *)
(* stale, and reference-counted objects.  Every operation runs under the   *)
(* table's lock, so each is one action.                                    *)
(***************************************************************************)
EXTENDS Naturals, FiniteSets

CONSTANTS Objs,      \* capability objects
          Rights,    \* single rights; the code's masks are sets of these
          MaxCap,    \* 0xFFFF: the largest capacity, and CAP_INVALID_INDEX
          InitCap,   \* the capacity given to cap_table_init
          GenMax,    \* 0xFFFF: the largest generation
          MaxGot,    \* bound on the references lookups hand out, per object
          NULL       \* no object

ASSUME CapAssumption ==
  /\ MaxCap \in Nat \ {0} /\ InitCap \in 0..MaxCap /\ GenMax \in Nat \ {0}
  /\ MaxGot \in Nat /\ NULL \notin Objs

VARIABLES obj, rights, gen, next_free,       \* slots[]; beyond capacity, as
                                             \* growth will initialise them
          capacity, next_unused, free_head,
          refcount,                          \* cap_obj.refcount
          made,                              \* objects whose creator holds its reference
          got,                               \* references handed out by cap_table_get
          mode                               \* "ok", "deinit", or the assertion that failed

slotVars  == <<obj, rights, gen, next_free>>
tableVars == <<slotVars, capacity, next_unused, free_head>>
vars      == <<tableVars, refcount, made, got, mode>>

Indices == 0..(MaxCap - 1)
CAP_INVALID_INDEX == MaxCap
Ids == [index : Indices, gen : 1..GenMax]
Modes == {"ok", "deinit", "full", "slot_in_use", "empty_span"}

TypeOK ==
  /\ obj \in [Indices -> Objs \cup {NULL}]
  /\ rights \in [Indices -> SUBSET Rights]
  /\ gen \in [Indices -> 1..GenMax]
  /\ next_free \in [Indices -> 0..MaxCap]
  /\ capacity \in 0..MaxCap
  /\ next_unused \in 0..capacity
  /\ free_head \in 0..MaxCap
  /\ refcount \in [Objs -> Nat]
  /\ made \in SUBSET Objs
  /\ got \in [Objs -> 0..MaxGot]
  /\ mode \in Modes

\* cap_table_init.
Init ==
  /\ obj         = [i \in Indices |-> NULL]
  /\ rights      = [i \in Indices |-> {}]
  /\ gen         = [i \in Indices |-> 1]
  /\ next_free   = [i \in Indices |-> CAP_INVALID_INDEX]
  /\ capacity    = InitCap
  /\ next_unused = 0
  /\ free_head   = CAP_INVALID_INDEX
  /\ refcount    = [o \in Objs |-> 0]
  /\ made        = {}
  /\ got         = [o \in Objs |-> 0]
  /\ mode        = "ok"

\* cap_table__ensure_capacity: the capacity the table has afterwards.
ensure_capacity(cap) ==
  IF next_unused < cap \/ cap = MaxCap THEN cap
  ELSE LET grown == IF cap = 0 THEN 1 ELSE 2 * cap
       IN  IF grown > MaxCap THEN MaxCap ELSE grown

\* The free list as the code walks it: its k-th slot, CAP_INVALID_INDEX past
\* the end, and its length (a walk longer than the table is a cycle).
FreeSlot[k \in 1..(MaxCap + 1)] ==
  LET from == IF k = 1 THEN free_head ELSE FreeSlot[k - 1]
  IN  IF k = 1 \/ from = CAP_INVALID_INDEX THEN from ELSE next_free[from]

FreeLen == Cardinality({ k \in 1..(MaxCap + 1) : FreeSlot[k] # CAP_INVALID_INDEX })

\* cap_table__free_list_remove on a listed slot; the caller then clears the
\* slot's own link.
free_list_remove(idx) ==
  \/ /\ free_head = idx
     /\ free_head' = next_free[idx]
     /\ next_free' = [next_free EXCEPT ![idx] = CAP_INVALID_INDEX]
  \/ /\ free_head # idx
     /\ \E k \in 2..FreeLen :
          /\ FreeSlot[k] = idx
          /\ next_free' = [next_free EXCEPT ![FreeSlot[k - 1]] = next_free[idx],
                                            ![idx] = CAP_INVALID_INDEX]
     /\ UNCHANGED free_head

\* Storing an object in a slot, with the reference the slot holds.
fill(i, o, r) ==
  /\ obj'      = [obj EXCEPT ![i] = o]
  /\ rights'   = [rights EXCEPT ![i] = r]
  /\ refcount' = [refcount EXCEPT ![o] = @ + 1]

-----------------------------------------------------------------------------
\* cap_obj_init: the creator holds the first reference.
cap_obj_init(o) ==
  /\ mode = "ok" /\ refcount[o] = 0
  /\ refcount' = [refcount EXCEPT ![o] = 1]
  /\ made' = made \cup {o}
  /\ UNCHANGED <<tableVars, got, mode>>

\* cap_obj_decref by the creator.
creator_drops(o) ==
  /\ mode \in {"ok", "deinit"} /\ o \in made
  /\ refcount' = [refcount EXCEPT ![o] = @ - 1]
  /\ made' = made \ {o}
  /\ UNCHANGED <<tableVars, got, mode>>

\* cap_table_add from the free list ...
cap_table_add_free(o, r) ==
  /\ mode = "ok" /\ o \in made /\ free_head # CAP_INVALID_INDEX
  /\ IF obj[free_head] # NULL
       THEN mode' = "slot_in_use" /\ UNCHANGED <<tableVars, refcount>>
       ELSE /\ fill(free_head, o, r)
            /\ free_head' = next_free[free_head]
            /\ next_free' = [next_free EXCEPT ![free_head] = CAP_INVALID_INDEX]
            /\ UNCHANGED <<gen, capacity, next_unused, mode>>
  /\ UNCHANGED <<made, got>>

\* ... and from the slots never used, growing the table when there is none.
cap_table_add_unused(o, r) ==
  LET cap == ensure_capacity(capacity)
  IN  /\ mode = "ok" /\ o \in made /\ free_head = CAP_INVALID_INDEX
      /\ \/ /\ next_unused >= cap
            /\ mode' = "full"
            /\ UNCHANGED <<tableVars, refcount>>
         \/ /\ next_unused < cap /\ obj[next_unused] # NULL
            /\ mode' = "slot_in_use"
            /\ UNCHANGED <<tableVars, refcount>>
         \/ /\ next_unused < cap /\ obj[next_unused] = NULL
            /\ fill(next_unused, o, r)
            /\ capacity' = cap
            /\ next_unused' = next_unused + 1
            /\ next_free' = [next_free EXCEPT ![next_unused] = CAP_INVALID_INDEX]
            /\ UNCHANGED <<gen, free_head, mode>>
      /\ UNCHANGED <<made, got>>

\* Mutant of set_unused: the slots skipped over are not put on the free list.
set_unused_skips(idx) ==
  /\ next_unused' = idx + 1
  /\ next_free' = [next_free EXCEPT ![idx] = CAP_INVALID_INDEX]
  /\ UNCHANGED free_head

\* cap_table_set beyond next_unused: the slots it skips go on the free list,
\* the lowest first.
set_unused(idx) ==
  /\ next_unused' = idx + 1
  /\ free_head' = IF next_unused < idx THEN next_unused ELSE free_head
  /\ next_free' = [i \in Indices |->
                     IF i = idx THEN CAP_INVALID_INDEX
                     ELSE IF i \in next_unused..(idx - 1)
                       THEN IF i = idx - 1 THEN free_head ELSE i + 1
                     ELSE next_free[i]]

\* cap_table_set: an object at a chosen identifier.  The table grows at most
\* once, even when the request then fails.
cap_table_set(id, o, r) ==
  LET cap == IF id.index < capacity THEN capacity ELSE ensure_capacity(capacity)
      idx == id.index
      onList == \E k \in 1..FreeLen : FreeSlot[k] = idx
      ok  == /\ idx < cap /\ obj[idx] = NULL /\ gen[idx] = id.gen
             /\ idx < next_unused => onList
  IN  /\ mode = "ok" /\ o \in made
      /\ capacity' = cap
      /\ \/ /\ ok /\ fill(idx, o, r)
            /\ IF idx < next_unused
                 THEN free_list_remove(idx) /\ UNCHANGED next_unused
                 ELSE set_unused(idx)
            /\ UNCHANGED gen
         \/ /\ ~ok
            /\ UNCHANGED <<slotVars, next_unused, free_head, refcount>>
      /\ UNCHANGED <<made, got, mode>>

\* The slot that cap_table_get finds for an identifier: in the table, in use,
\* of the same generation and with the right asked for.
resolves(id, right) ==
  /\ id.index < capacity /\ obj[id.index] # NULL /\ gen[id.index] = id.gen
  /\ right \in rights[id.index]

\* cap_table_get: the caller gets a reference of its own.
cap_table_get(id, right) ==
  /\ resolves(id, right)
  /\ got[obj[id.index]] < MaxGot
  /\ refcount' = [refcount EXCEPT ![obj[id.index]] = @ + 1]
  /\ got' = [got EXCEPT ![obj[id.index]] = @ + 1]
  /\ UNCHANGED <<tableVars, made, mode>>

\* sysc_capread, capwrite, capinvoke, capmap and capctl: the ranges the task
\* passes are checked, then the identifier.  A bad range is EFAULT (an empty one
\* EINVAL for capmap, and capctl has none); an empty range passes, and stops a
\* debug build in make_span.  The reference that the lookup gave is not returned,
\* whether or not the object has the operation.
sysc_cap(id, right, range) ==
  /\ mode = "ok"
  /\ \/ range = "bad" /\ UNCHANGED vars
     \/ range = "empty" /\ mode' = "empty_span" /\ UNCHANGED <<tableVars, refcount, made, got>>
     \/ range # "bad" /\ cap_table_get(id, right)
     \/ range # "bad" /\ ~resolves(id, right) /\ UNCHANGED vars

\* Mutant of next_gen: the generation stays.
next_gen_same(g) == g

\* u16 increment that skips zero.
next_gen(g) == IF g = GenMax THEN 1 ELSE g + 1

\* Mutant of cap_table_del: the slot's reference is not given back.
cap_table_del_leaks(id) ==
  LET idx == id.index
  IN  /\ mode = "ok"
      /\ idx < capacity /\ obj[idx] # NULL /\ gen[idx] = id.gen
      /\ obj'       = [obj EXCEPT ![idx] = NULL]
      /\ rights'    = [rights EXCEPT ![idx] = {}]
      /\ gen'       = [gen EXCEPT ![idx] = next_gen(@)]
      /\ next_free' = [next_free EXCEPT ![idx] = free_head]
      /\ free_head' = idx
      /\ UNCHANGED <<capacity, next_unused, refcount, made, got, mode>>

\* cap_table_del.
cap_table_del(id) ==
  LET idx == id.index
  IN  /\ mode = "ok"
      /\ idx < capacity /\ obj[idx] # NULL /\ gen[idx] = id.gen
      /\ obj'       = [obj EXCEPT ![idx] = NULL]
      /\ rights'    = [rights EXCEPT ![idx] = {}]
      /\ gen'       = [gen EXCEPT ![idx] = next_gen(@)]
      /\ next_free' = [next_free EXCEPT ![idx] = free_head]
      /\ free_head' = idx
      /\ refcount'  = [refcount EXCEPT ![obj[idx]] = @ - 1]
      /\ UNCHANGED <<capacity, next_unused, made, got, mode>>

\* cap_table_deinit gives back what the slots hold and zeroes the table.
cap_table_deinit ==
  /\ mode = "ok"
  /\ refcount' = [o \in Objs |-> refcount[o] - Cardinality({ i \in Indices : obj[i] = o })]
  /\ obj' = [i \in Indices |-> NULL]
  /\ capacity' = 0 /\ next_unused' = 0 /\ free_head' = 0
  /\ mode' = "deinit"
  /\ UNCHANGED <<rights, gen, next_free, made, got>>

Next ==
  \/ \E o \in Objs : cap_obj_init(o) \/ creator_drops(o)
  \/ \E o \in Objs, r \in SUBSET Rights :
       \/ cap_table_add_free(o, r)
       \/ cap_table_add_unused(o, r)
       \/ \E id \in Ids : cap_table_set(id, o, r)
  \/ \E id \in Ids, right \in Rights, range \in {"user", "empty", "bad"} : sysc_cap(id, right, range)
  \/ \E id \in Ids : cap_table_del(id)
  \/ cap_table_deinit

Spec == Init /\ [][Next]_vars
-----------------------------------------------------------------------------
\* The free list ends, passes no slot twice, and links exactly the empty
\* slots below next_unused; the slots from there on are empty.  So
\* cap_table_add never finds its slot in use (capabilities.c:171), and its
\* assertion that the table has room (capabilities.c:164) fails only when all
\* 0xFFFF slots hold an object: no slot is ever lost.
FreeListExact ==
  /\ TypeOK
  /\ mode = "full" => \A i \in Indices : obj[i] # NULL
  /\ mode = "ok" =>
       /\ { i \in Indices : i < next_unused /\ obj[i] = NULL }
            = { FreeSlot[k] : k \in 1..FreeLen }
       /\ \A j, k \in 1..FreeLen : j # k => FreeSlot[j] # FreeSlot[k]
       /\ \A i \in Indices : i >= next_unused => obj[i] = NULL
  /\ mode # "slot_in_use"

\* cap_obj.refcount counts exactly the creator's reference, one per slot that
\* holds the object and one per lookup: an object in a slot is never released.
RefcountExact ==
  \A o \in Objs :
    refcount[o] = Cardinality({ i \in Indices : obj[i] = o })
                  + (IF o \in made THEN 1 ELSE 0) + got[o]

\* The table implements CapSpec: identifiers in use are the filled slots with
\* their generation, and the earlier generations of a slot are retired.
Abs == INSTANCE CapSpec WITH
  table   <- [id \in { x \in Ids : obj[x.index] # NULL /\ gen[x.index] = x.gen } |->
                [obj |-> obj[id.index], rights |-> rights[id.index]]],
  retired <- IF mode = "deinit" THEN Ids ELSE { x \in Ids : x.gen < gen[x.index] }

\* A capability identifier behaves as CapSpec promises: no step of the table
\* lets a deleted identifier resolve again before its generation wraps, or
\* changes what a granted one names.
ImplementsCapSpec == Abs!Spec
=============================================================================
