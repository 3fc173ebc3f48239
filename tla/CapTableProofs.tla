--------------------------- MODULE CapTableProofs ---------------------------
(* Reference counts, free list and identifiers of the capability table,    *)
(* for every capacity, number of generations and number of objects.        *)
EXTENDS CapTable, ListFacts, FiniteSetTheorems, TLAPS

\* The slots that hold o.
Slots(o) == { i \in Indices : obj[i] = o }

\* What the counts owe to the creator.
Made(o) == IF o \in made THEN 1 ELSE 0

\* The slots are finitely many, so they can be counted.
LEMMA SlotsCount ==
  ASSUME NEW o
  PROVE  /\ IsFiniteSet(Slots(o)) /\ Cardinality(Slots(o)) \in Nat
         /\ Cardinality(Slots(o)) = 0 <=> Slots(o) = {}
<1>1. IsFiniteSet(Indices)
  BY CapAssumption, FS_Interval DEF Indices
<1>2. IsFiniteSet(Slots(o))
  BY <1>1, FS_Subset DEF Slots
<1>3. QED
  BY <1>2, FS_CardinalityType, FS_EmptySet

\* RefcountExact in these terms.
LEMMA CountOf ==
  RefcountExact <=> \A o \in Objs : refcount[o] = Cardinality(Slots(o)) + Made(o) + got[o]
  BY DEF RefcountExact, Slots, Made

\* The table after growth is no larger than it may be and has the slots it had.
LEMMA EnsureCapacity ==
  ASSUME NEW cap \in 0..MaxCap
  PROVE  ensure_capacity(cap) \in cap..MaxCap
<1>1. MaxCap \in Nat
  BY CapAssumption
<1>2. QED
  BY <1>1 DEF ensure_capacity

\* An object stored in an empty slot has one holder more, and one reference.
LEMMA Fill ==
  ASSUME TypeOK, RefcountExact,
         NEW i \in Indices, NEW o \in Objs, NEW r \in SUBSET Rights,
         obj[i] = NULL, fill(i, o, r), UNCHANGED <<made, got>>
  PROVE  /\ obj' \in [Indices -> Objs \cup {NULL}]
         /\ rights' \in [Indices -> SUBSET Rights]
         /\ refcount' \in [Objs -> Nat]
         /\ RefcountExact'
<1>0. NULL \notin Objs
  BY CapAssumption
<1>1. obj' = [obj EXCEPT ![i] = o] /\ refcount' = [refcount EXCEPT ![o] = refcount[o] + 1]
  BY DEF fill
<1>2. obj' \in [Indices -> Objs \cup {NULL}] /\ rights' \in [Indices -> SUBSET Rights]
  BY DEF fill, TypeOK
<1>3. refcount' \in [Objs -> Nat] /\ \A x \in Objs : refcount'[x] = IF x = o THEN refcount[x] + 1 ELSE refcount[x]
  BY <1>1 DEF TypeOK
<1>4. ASSUME NEW x \in Objs
      PROVE  Cardinality(Slots(x)') = IF x = o THEN Cardinality(Slots(x)) + 1 ELSE Cardinality(Slots(x))
  <2>1. Slots(x)' = IF x = o THEN Slots(x) \cup {i} ELSE Slots(x)
    BY <1>0, <1>1 DEF Slots, TypeOK
  <2>2. i \notin Slots(x)
    BY <1>0 DEF Slots
  <2>3. QED
    BY <2>1, <2>2, SlotsCount, FS_AddElement
<1>5. ASSUME NEW x \in Objs
      PROVE  refcount'[x] = Cardinality(Slots(x)') + Made(x)' + got'[x]
  <2>1. /\ refcount[x] = Cardinality(Slots(x)) + Made(x) + got[x]
        /\ Cardinality(Slots(x)) \in Nat /\ Made(x) \in Nat /\ got[x] \in Nat
    BY CountOf, SlotsCount DEF Made, TypeOK
  <2>2. Made(x)' = Made(x) /\ got'[x] = got[x]
    BY DEF Made
  <2>3. QED
    BY <1>3, <1>4, <2>1, <2>2
<1>6. RefcountExact'
  BY <1>5 DEF RefcountExact, Slots, Made
<1>7. QED
  BY <1>2, <1>3, <1>6

-----------------------------------------------------------------------------
(* Types and counts.                                                       *)

Inv == TypeOK /\ RefcountExact

\* The creator's reference comes first and goes once.
LEMMA ObjInit ==
  ASSUME Inv, NEW o \in Objs, cap_obj_init(o)
  PROVE  Inv'
<1>0. UNCHANGED <<obj, got>> /\ made' = made \cup {o} /\ refcount[o] = 0
  BY DEF cap_obj_init, tableVars, slotVars
<1>1. TypeOK'
  BY DEF Inv, TypeOK, cap_obj_init, tableVars, slotVars
<1>2. ASSUME NEW x \in Objs PROVE refcount'[x] = Cardinality(Slots(x)') + Made(x)' + got'[x]
  <2>1. /\ refcount[x] = Cardinality(Slots(x)) + Made(x) + got[x]
        /\ Cardinality(Slots(x)) \in Nat /\ Made(x) \in Nat /\ got[x] \in Nat
    BY CountOf, SlotsCount DEF Made, TypeOK, Inv
  <2>2. Slots(x)' = Slots(x) /\ refcount'[x] = IF x = o THEN 1 ELSE refcount[x]
    BY <1>0 DEF Slots, cap_obj_init, Inv, TypeOK
  <2>3. CASE x = o
    BY <1>0, <2>1, <2>2, <2>3 DEF Made
  <2>4. CASE x # o
    BY <1>0, <2>1, <2>2, <2>4 DEF Made
  <2>5. QED
    BY <2>3, <2>4
<1>3. QED
  BY <1>1, <1>2 DEF Inv, RefcountExact, Slots, Made

LEMMA CreatorDrops ==
  ASSUME Inv, NEW o \in Objs, creator_drops(o)
  PROVE  Inv'
<1>0. UNCHANGED <<obj, got>> /\ made' = made \ {o} /\ o \in made
  BY DEF creator_drops, tableVars, slotVars
<1>1. ASSUME NEW x \in Objs
      PROVE  /\ refcount'[x] = Cardinality(Slots(x)') + Made(x)' + got'[x]
             /\ refcount'[x] \in Nat
  <2>1. /\ refcount[x] = Cardinality(Slots(x)) + Made(x) + got[x]
        /\ Cardinality(Slots(x)) \in Nat /\ Made(x) \in Nat /\ got[x] \in Nat
    BY CountOf, SlotsCount DEF Made, TypeOK, Inv
  <2>2. Slots(x)' = Slots(x) /\ refcount'[x] = IF x = o THEN refcount[x] - 1 ELSE refcount[x]
    BY <1>0 DEF Slots, creator_drops, Inv, TypeOK
  <2>3. QED
    BY <1>0, <2>1, <2>2 DEF Made
<1>2. refcount' \in [Objs -> Nat]
  <2>1. refcount' = [refcount EXCEPT ![o] = refcount[o] - 1]
    BY DEF creator_drops
  <2>2. QED
    BY <1>1, <2>1 DEF Inv, TypeOK
<1>3. TypeOK'
  BY <1>2 DEF Inv, TypeOK, creator_drops, tableVars, slotVars
<1>4. QED
  BY <1>1, <1>3 DEF Inv, RefcountExact, Slots, Made

\* A step that leaves the slots and the counts alone.
LEMMA CountsKept ==
  ASSUME RefcountExact, UNCHANGED <<obj, refcount, made, got>>
  PROVE  RefcountExact'
  BY DEF RefcountExact

LEMMA AddFree ==
  ASSUME Inv, NEW o \in Objs, NEW r \in SUBSET Rights, cap_table_add_free(o, r)
  PROVE  Inv'
<1>0. TypeOK /\ RefcountExact /\ UNCHANGED <<made, got>>
  BY DEF Inv, cap_table_add_free
<1>1. free_head \in Indices /\ MaxCap \in Nat
  BY CapAssumption DEF Inv, TypeOK, cap_table_add_free, CAP_INVALID_INDEX, Indices
<1>2. CASE obj[free_head] # NULL
  <2>1. mode' = "slot_in_use" /\ UNCHANGED <<tableVars, refcount>>
    BY <1>2 DEF cap_table_add_free
  <2>2. QED
    BY <1>0, <2>1, CountsKept DEF Inv, TypeOK, tableVars, slotVars, Modes
<1>3. CASE obj[free_head] = NULL
  <2>1. /\ fill(free_head, o, r) /\ free_head' = next_free[free_head]
        /\ next_free' = [next_free EXCEPT ![free_head] = CAP_INVALID_INDEX]
        /\ UNCHANGED <<gen, capacity, next_unused, mode>>
    BY <1>3 DEF cap_table_add_free
  <2>2. /\ obj' \in [Indices -> Objs \cup {NULL}] /\ rights' \in [Indices -> SUBSET Rights]
        /\ refcount' \in [Objs -> Nat] /\ RefcountExact'
    BY <1>0, <1>1, <1>3, <2>1, Fill
  <2>3. next_free' \in [Indices -> 0..MaxCap] /\ free_head' \in 0..MaxCap
    BY <1>0, <1>1, <2>1 DEF TypeOK, CAP_INVALID_INDEX
  <2>4. QED
    BY <1>0, <2>1, <2>2, <2>3 DEF Inv, TypeOK
<1>4. QED
  BY <1>2, <1>3

LEMMA AddUnused ==
  ASSUME Inv, NEW o \in Objs, NEW r \in SUBSET Rights, cap_table_add_unused(o, r)
  PROVE  Inv'
<1> DEFINE cap == ensure_capacity(capacity)
<1>0. TypeOK /\ RefcountExact /\ UNCHANGED <<made, got>> /\ MaxCap \in Nat
  BY CapAssumption DEF Inv, cap_table_add_unused
<1>1. cap \in capacity..MaxCap
  BY <1>0, EnsureCapacity DEF TypeOK
<1>2. CASE mode' \in {"full", "slot_in_use"} /\ UNCHANGED <<tableVars, refcount>>
  BY <1>0, <1>2, CountsKept DEF Inv, TypeOK, tableVars, slotVars, Modes
<1>3. CASE /\ next_unused < cap /\ obj[next_unused] = NULL
           /\ fill(next_unused, o, r)
           /\ capacity' = cap
           /\ next_unused' = next_unused + 1
           /\ next_free' = [next_free EXCEPT ![next_unused] = CAP_INVALID_INDEX]
           /\ UNCHANGED <<gen, free_head, mode>>
  <2>1. next_unused \in Indices
    BY <1>0, <1>1, <1>3 DEF TypeOK, Indices
  <2>2. /\ obj' \in [Indices -> Objs \cup {NULL}] /\ rights' \in [Indices -> SUBSET Rights]
        /\ refcount' \in [Objs -> Nat] /\ RefcountExact'
    BY <1>0, <1>3, <2>1, Fill
  <2>3. next_free' \in [Indices -> 0..MaxCap]
    <3>1. next_free \in [Indices -> 0..MaxCap] /\ MaxCap \in 0..MaxCap
      BY <1>0 DEF TypeOK
    <3>2. next_free' = [next_free EXCEPT ![next_unused] = MaxCap]
      BY <1>3 DEF CAP_INVALID_INDEX
    <3>3. QED
      BY <3>1, <3>2
  <2>4. capacity' \in 0..MaxCap /\ next_unused' \in 0..capacity'
    BY <1>0, <1>1, <1>3 DEF TypeOK
  <2>5. QED
    BY <1>0, <1>3, <2>2, <2>3, <2>4 DEF Inv, TypeOK
<1>4. QED
  BY <1>2, <1>3 DEF cap_table_add_unused

LEMMA TableSet ==
  ASSUME Inv, NEW id \in Ids, NEW o \in Objs, NEW r \in SUBSET Rights, cap_table_set(id, o, r)
  PROVE  Inv'
<1> DEFINE cap == IF id.index < capacity THEN capacity ELSE ensure_capacity(capacity)
           idx == id.index
<1>0. TypeOK /\ RefcountExact /\ UNCHANGED <<made, got, mode>> /\ capacity' = cap /\ MaxCap \in Nat
  BY CapAssumption DEF Inv, cap_table_set
<1>1. cap \in capacity..MaxCap /\ idx \in Indices
  BY <1>0, EnsureCapacity DEF TypeOK, Ids
<1>2. CASE UNCHANGED <<slotVars, next_unused, free_head, refcount>>
  <2>1. capacity' \in 0..MaxCap /\ next_unused' \in 0..capacity'
    BY <1>0, <1>1, <1>2 DEF TypeOK
  <2>2. QED
    BY <1>0, <1>2, <2>1, CountsKept DEF Inv, TypeOK, slotVars
<1>3. CASE /\ idx < cap /\ obj[idx] = NULL /\ fill(idx, o, r)
           /\ IF idx < next_unused THEN free_list_remove(idx) /\ UNCHANGED next_unused
              ELSE set_unused(idx)
           /\ UNCHANGED gen
  <2>2. /\ obj' \in [Indices -> Objs \cup {NULL}] /\ rights' \in [Indices -> SUBSET Rights]
        /\ refcount' \in [Objs -> Nat] /\ RefcountExact'
    BY <1>0, <1>1, <1>3, Fill
  <2>3. capacity' \in 0..MaxCap /\ next_unused' \in 0..capacity'
    <3>1. next_unused' = next_unused \/ next_unused' = idx + 1
      BY <1>3 DEF set_unused
    <3>2. next_unused \in 0..capacity /\ capacity \in 0..MaxCap /\ idx \in Nat /\ idx < cap
      BY <1>0, <1>1, <1>3 DEF TypeOK, Indices
    <3>3. QED
      BY <1>0, <1>1, <3>1, <3>2
  <2>4. next_free' \in [Indices -> 0..MaxCap] /\ free_head' \in 0..MaxCap
    <3>1. CASE idx < next_unused
      BY <1>0, <1>1, <1>3, <3>1 DEF TypeOK, free_list_remove, CAP_INVALID_INDEX
    <3>2. CASE ~(idx < next_unused)
      <4>1. set_unused(idx) /\ free_head \in 0..MaxCap /\ next_unused \in Nat /\ idx \in 0..(MaxCap - 1)
        BY <1>0, <1>1, <1>3, <3>2 DEF TypeOK, Indices
      <4>2. free_head' \in 0..MaxCap
        BY <1>0, <4>1 DEF set_unused
      <4>3. \A i \in Indices : /\ next_free[i] \in 0..MaxCap /\ i + 1 \in 0..MaxCap
        BY <1>0 DEF TypeOK, Indices
      <4>4. next_free' \in [Indices -> 0..MaxCap]
        BY <1>0, <4>1, <4>3 DEF set_unused, CAP_INVALID_INDEX
      <4>5. QED
        BY <4>2, <4>4
    <3>3. QED
      BY <3>1, <3>2
  <2>5. QED
    BY <1>0, <1>3, <2>2, <2>3, <2>4 DEF Inv, TypeOK
<1>4. QED
  BY <1>2, <1>3 DEF cap_table_set

\* A lookup that resolves gives its caller a reference.
LEMMA TableGet ==
  ASSUME Inv, NEW id \in Ids, NEW right \in Rights, cap_table_get(id, right)
  PROVE  Inv'
<1> DEFINE o == obj[id.index]
<1>0. TypeOK /\ RefcountExact /\ UNCHANGED <<tableVars, made, mode>> /\ MaxGot \in Nat
  BY CapAssumption DEF Inv, cap_table_get
<1>1. o \in Objs /\ got[o] < MaxGot
  BY <1>0 DEF cap_table_get, resolves, TypeOK, Ids
<1>2. \A x \in Objs : /\ refcount'[x] = IF x = o THEN refcount[x] + 1 ELSE refcount[x]
                      /\ got'[x] = IF x = o THEN got[x] + 1 ELSE got[x]
  BY <1>0, <1>1 DEF cap_table_get, TypeOK
<1>3. TypeOK'
  <2>1. refcount' = [refcount EXCEPT ![o] = refcount[o] + 1] /\ refcount[o] + 1 \in Nat
    BY <1>0, <1>1 DEF cap_table_get, TypeOK
  <2>2. got' = [got EXCEPT ![o] = got[o] + 1] /\ got[o] + 1 \in 0..MaxGot
    BY <1>0, <1>1 DEF cap_table_get, TypeOK
  <2>3. QED
    BY <1>0, <2>1, <2>2 DEF TypeOK, tableVars, slotVars
<1>4. ASSUME NEW x \in Objs PROVE refcount'[x] = Cardinality(Slots(x)') + Made(x)' + got'[x]
  <2>1. /\ refcount[x] = Cardinality(Slots(x)) + Made(x) + got[x]
        /\ Cardinality(Slots(x)) \in Nat /\ Made(x) \in Nat /\ got[x] \in Nat
    BY <1>0, CountOf, SlotsCount DEF Made, TypeOK
  <2>2. Slots(x)' = Slots(x) /\ Made(x)' = Made(x)
    BY <1>0 DEF Slots, Made, tableVars, slotVars
  <2>3. QED
    BY <1>2, <2>1, <2>2
<1>5. QED
  BY <1>3, <1>4 DEF Inv, RefcountExact, Slots, Made

LEMMA SyscCap ==
  ASSUME Inv, NEW id \in Ids, NEW right \in Rights, NEW range, sysc_cap(id, right, range)
  PROVE  Inv'
<1>1. CASE UNCHANGED vars
  BY <1>1, CountsKept DEF Inv, TypeOK, vars, tableVars, slotVars
<1>2. CASE mode' = "empty_span" /\ UNCHANGED <<tableVars, refcount, made, got>>
  BY <1>2, CountsKept DEF Inv, TypeOK, tableVars, slotVars, Modes
<1>3. CASE cap_table_get(id, right)
  BY <1>3, TableGet
<1>4. QED
  BY <1>1, <1>2, <1>3 DEF sysc_cap

\* A deleted slot gives its reference back: there is one.
LEMMA TableDel ==
  ASSUME Inv, NEW id \in Ids, cap_table_del(id)
  PROVE  Inv'
<1> DEFINE idx == id.index
           o   == obj[idx]
<1>0. TypeOK /\ RefcountExact /\ UNCHANGED <<capacity, next_unused, made, got, mode>> /\ NULL \notin Objs
  BY CapAssumption DEF Inv, cap_table_del
<1>1. idx \in Indices /\ o \in Objs
  BY <1>0 DEF cap_table_del, TypeOK, Ids
<1>2. obj' = [obj EXCEPT ![idx] = NULL] /\ refcount' = [refcount EXCEPT ![o] = refcount[o] - 1]
  BY DEF cap_table_del
<1>3. ASSUME NEW x \in Objs
      PROVE  Cardinality(Slots(x)') = IF x = o THEN Cardinality(Slots(x)) - 1 ELSE Cardinality(Slots(x))
  <2>1. Slots(x)' = IF x = o THEN Slots(x) \ {idx} ELSE Slots(x)
    BY <1>0, <1>1, <1>2 DEF Slots, TypeOK
  <2>2. x = o => idx \in Slots(x)
    BY <1>1 DEF Slots
  <2>3. QED
    BY <2>1, <2>2, SlotsCount, FS_RemoveElement
<1>4. ASSUME NEW x \in Objs
      PROVE  refcount'[x] = Cardinality(Slots(x)') + Made(x)' + got'[x] /\ refcount'[x] \in Nat
  <2>1. /\ refcount[x] = Cardinality(Slots(x)) + Made(x) + got[x]
        /\ Cardinality(Slots(x)) \in Nat /\ Made(x) \in Nat /\ got[x] \in Nat
    BY <1>0, CountOf, SlotsCount DEF Made, TypeOK
  <2>2. Made(x)' = Made(x) /\ got'[x] = got[x]
    BY <1>0 DEF Made
  <2>3. x = o => Cardinality(Slots(x)) # 0
    BY <1>1, SlotsCount DEF Slots
  <2>4. refcount'[x] = IF x = o THEN refcount[x] - 1 ELSE refcount[x]
    BY <1>0, <1>1, <1>2 DEF TypeOK
  <2>5. QED
    BY <1>3, <2>1, <2>2, <2>3, <2>4
<1>5. TypeOK'
  <2>1. obj' \in [Indices -> Objs \cup {NULL}] /\ refcount' \in [Objs -> Nat]
    BY <1>0, <1>1, <1>2, <1>4 DEF TypeOK
  <2>2. gen' \in [Indices -> 1..GenMax]
    <3>1. gen' = [gen EXCEPT ![idx] = next_gen(gen[idx])] /\ gen[idx] \in 1..GenMax
      BY <1>0, <1>1 DEF cap_table_del, TypeOK
    <3>2. next_gen(gen[idx]) \in 1..GenMax
      BY <3>1, CapAssumption DEF next_gen
    <3>3. QED
      BY <1>0, <3>1, <3>2 DEF TypeOK
  <2>3. rights' \in [Indices -> SUBSET Rights] /\ next_free' \in [Indices -> 0..MaxCap]
    BY <1>0, <1>1 DEF cap_table_del, TypeOK
  <2>4. free_head' \in 0..MaxCap
    BY <1>0, <1>1, CapAssumption DEF cap_table_del, Indices
  <2>5. QED
    BY <1>0, <2>1, <2>2, <2>3, <2>4 DEF TypeOK
<1>6. QED
  BY <1>4, <1>5 DEF Inv, RefcountExact, Slots, Made

\* The end of the table gives back the reference of every slot.
LEMMA TableDeinit ==
  ASSUME Inv, cap_table_deinit
  PROVE  Inv'
<1>0. TypeOK /\ RefcountExact /\ UNCHANGED <<rights, gen, next_free, made, got>> /\ NULL \notin Objs /\ MaxCap \in Nat
  BY CapAssumption DEF Inv, cap_table_deinit
<1>1. /\ \A x \in Objs : refcount'[x] = refcount[x] - Cardinality(Slots(x))
      /\ DOMAIN refcount' = Objs /\ obj' = [i \in Indices |-> NULL]
      /\ refcount' = [x \in Objs |-> refcount'[x]]
  BY DEF cap_table_deinit, Slots
<1>2. ASSUME NEW x \in Objs
      PROVE  refcount'[x] = Cardinality(Slots(x)') + Made(x)' + got'[x] /\ refcount'[x] \in Nat
  <2>1. /\ refcount[x] = Cardinality(Slots(x)) + Made(x) + got[x]
        /\ Cardinality(Slots(x)) \in Nat /\ Made(x) \in Nat /\ got[x] \in Nat
    BY <1>0, CountOf, SlotsCount DEF Made, TypeOK
  <2>2. Made(x)' = Made(x) /\ got'[x] = got[x]
    BY <1>0 DEF Made
  <2>3. Cardinality(Slots(x)') = 0
    <3>1. Slots(x)' = {}
      BY <1>0, <1>1 DEF Slots
    <3>2. QED
      BY <3>1, FS_EmptySet
  <2>4. QED
    BY <1>1, <2>1, <2>2, <2>3
<1>3. TypeOK'
  <2>1. refcount' \in [Objs -> Nat]
    BY <1>1, <1>2
  <2>2. capacity' = 0 /\ next_unused' = 0 /\ free_head' = 0 /\ mode' = "deinit"
    BY DEF cap_table_deinit
  <2>3. QED
    BY <1>0, <1>1, <2>1, <2>2 DEF TypeOK, Modes
<1>4. QED
  BY <1>2, <1>3 DEF Inv, RefcountExact, Slots, Made

\* cap_table_init.
LEMMA InitInv ==
  ASSUME Init
  PROVE  Inv
<1>1. TypeOK
  BY CapAssumption DEF Init, TypeOK, CAP_INVALID_INDEX, Modes
<1>2. ASSUME NEW x \in Objs PROVE refcount[x] = Cardinality(Slots(x)) + Made(x) + got[x]
  <2>1. Slots(x) = {}
    BY CapAssumption DEF Init, Slots
  <2>2. Cardinality(Slots(x)) = 0
    BY <2>1, FS_EmptySet
  <2>3. QED
    BY <2>2 DEF Init, Made
<1>3. QED
  BY <1>1, <1>2 DEF Inv, RefcountExact, Slots, Made

\* Every operation keeps types and counts.
LEMMA NextInv ==
  ASSUME Inv, [Next]_vars
  PROVE  Inv'
<1>1. CASE UNCHANGED vars
  BY <1>1, CountsKept DEF Inv, TypeOK, vars, tableVars, slotVars
<1>2. CASE Next
  BY <1>2, ObjInit, CreatorDrops, AddFree, AddUnused, TableSet, SyscCap, TableDel, TableDeinit DEF Next
<1>3. QED
  BY <1>1, <1>2

\* The table's indices, links and counts stay in range: no count drops below
\* zero and no link points outside the table.
THEOREM TypeCorrect == Spec => []TypeOK
<1>1. Init => Inv
  BY InitInv
<1>2. Inv /\ [Next]_vars => Inv'
  BY NextInv
<1>3. Inv => TypeOK
  BY DEF Inv
<1>4. QED
  BY <1>1, <1>2, <1>3, PTL DEF Spec

\* cap_obj.refcount is the creator's reference, one per slot and one per lookup,
\* for every size of the table, so no object in a slot is ever released.
THEOREM RefcountsExact == Spec => []RefcountExact
<1>1. Init => Inv
  BY InitInv
<1>2. Inv /\ [Next]_vars => Inv'
  BY NextInv
<1>3. Inv => RefcountExact
  BY DEF Inv
<1>4. QED
  BY <1>1, <1>2, <1>3, PTL DEF Spec

-----------------------------------------------------------------------------
(* The free list.                                                          *)

\* s names the n slots of a list, as the links lead from the head to the end.
Linked(n, s, head, link) ==
  /\ s \in [1..n -> Indices]
  /\ head = IF n = 0 THEN CAP_INVALID_INDEX ELSE s[1]
  /\ \A k \in 1..n : link[s[k]] = IF k = n THEN CAP_INVALID_INDEX ELSE s[k + 1]
  /\ \A j, k \in 1..n : s[j] = s[k] => j = k

\* The slots on it; they are the empty ones below next_unused.
On(n, s)    == { i \in Indices : \E k \in 1..n : s[k] = i }
Lists(n, s) == \A i \in Indices : i < next_unused /\ obj[i] = NULL <=> i \in On(n, s)

\* The slots never used are empty.
Unused == \A i \in Indices : i >= next_unused => obj[i] = NULL

\* The free list is there while the table works, and its two assertions say
\* what they mean.
Free ==
  /\ mode = "ok" => Unused /\ \E n \in Nat : \E s \in [1..n -> Indices] : Linked(n, s, free_head, next_free) /\ Lists(n, s)
  /\ mode = "full" => \A i \in Indices : obj[i] # NULL
  /\ mode # "slot_in_use"

\* The equation of the walk along the links.
Walk(f) ==
  [k \in 1..(MaxCap + 1) |->
     LET from == IF k = 1 THEN free_head ELSE f[k - 1]
     IN  IF k = 1 \/ from = CAP_INVALID_INDEX THEN from ELSE next_free[from]]

\* The slots are no more than the table has.
LEMMA LinkedLength ==
  ASSUME NEW n \in Nat, NEW s \in [1..n -> Indices], Linked(n, s, free_head, next_free)
  PROVE  n <= MaxCap
<1>1. s \in Injection(1..n, Indices)
  BY DEF Linked, Injection, IsInjective
<1>2. IsFiniteSet(Indices) /\ Cardinality(Indices) = MaxCap
  BY CapAssumption, FS_Interval DEF Indices
<1>3. Cardinality(1..n) = n
  BY FS_Interval
<1> QED BY <1>1, <1>2, <1>3, FS_Injection

\* A walk visits the slots in order and then stays at the end ...
LEMMA WalkEnds ==
  ASSUME NEW n \in Nat, NEW s \in [1..n -> Indices], Linked(n, s, free_head, next_free),
         NEW f, f = Walk(f)
  PROVE  \A k \in 1..(MaxCap + 1) : f[k] = IF k <= n THEN s[k] ELSE CAP_INVALID_INDEX
<1>0. MaxCap \in Nat /\ n <= MaxCap
  BY CapAssumption, LinkedLength
<1> DEFINE N == { k \in Nat : k <= MaxCap => f[k + 1] = IF k + 1 <= n THEN s[k + 1] ELSE CAP_INVALID_INDEX }
<1>1. \A k \in 1..(MaxCap + 1) :
        f[k] = IF k = 1 THEN free_head
               ELSE IF f[k - 1] = CAP_INVALID_INDEX THEN f[k - 1] ELSE next_free[f[k - 1]]
  BY DEF Walk
<1>2. 0 \in N
  BY <1>0, <1>1 DEF Linked
<1>3. ASSUME NEW k \in Nat, k \in N PROVE k + 1 \in N
  <2>1. SUFFICES ASSUME k + 1 <= MaxCap
                 PROVE  f[k + 2] = IF k + 2 <= n THEN s[k + 2] ELSE CAP_INVALID_INDEX
    BY <1>0
  <2>2. f[k + 1] = IF k + 1 <= n THEN s[k + 1] ELSE CAP_INVALID_INDEX
    BY <1>0, <1>3, <2>1
  <2>3. f[k + 2] = IF f[k + 1] = CAP_INVALID_INDEX THEN f[k + 1] ELSE next_free[f[k + 1]]
    BY <1>0, <1>1, <2>1
  <2>4. CASE k + 1 <= n
    <3>1. s[k + 1] \in Indices /\ s[k + 1] # CAP_INVALID_INDEX
      BY <2>4, <1>0 DEF Indices, CAP_INVALID_INDEX
    <3>2. next_free[s[k + 1]] = IF k + 1 = n THEN CAP_INVALID_INDEX ELSE s[k + 2]
      BY <2>4 DEF Linked
    <3> QED BY <2>2, <2>3, <2>4, <3>1, <3>2
  <2>5. CASE ~(k + 1 <= n)
    BY <2>2, <2>3, <2>5
  <2> QED BY <2>4, <2>5
<1> HIDE DEF N
<1>4. Nat \subseteq N
  BY <1>2, <1>3, SetInduction
<1>5. ASSUME NEW k \in 1..(MaxCap + 1)
      PROVE  f[k] = IF k <= n THEN s[k] ELSE CAP_INVALID_INDEX
  <2>1. k - 1 \in Nat /\ k - 1 <= MaxCap /\ k - 1 + 1 = k
    BY <1>0
  <2>2. k - 1 \in N
    BY <1>4, <2>1
  <2> QED BY <2>1, <2>2 DEF N
<1> QED BY <1>5

\* ... so the code's walk does.
LEMMA WalkExact ==
  ASSUME NEW n \in Nat, NEW s \in [1..n -> Indices], Linked(n, s, free_head, next_free)
  PROVE  FreeLen = n /\ \A k \in 1..n : FreeSlot[k] = s[k]
<1>0. MaxCap \in Nat /\ n <= MaxCap
  BY CapAssumption, LinkedLength
<1> DEFINE g == [k \in 1..(MaxCap + 1) |-> IF k <= n THEN s[k] ELSE CAP_INVALID_INDEX]
<1>1. g = Walk(g)
  <2>1. ASSUME NEW k \in 1..(MaxCap + 1), k # 1
        PROVE  g[k] = IF g[k - 1] = CAP_INVALID_INDEX THEN g[k - 1] ELSE next_free[g[k - 1]]
    <3>1. k - 1 \in 1..(MaxCap + 1) /\ g[k - 1] = IF k - 1 <= n THEN s[k - 1] ELSE CAP_INVALID_INDEX
      BY <1>0, <2>1
    <3>2. CASE k - 1 <= n
      <4>1. k - 1 \in 1..n /\ s[k - 1] \in Indices /\ s[k - 1] # CAP_INVALID_INDEX
        BY <1>0, <2>1, <3>2 DEF Indices, CAP_INVALID_INDEX
      <4>2. next_free[s[k - 1]] = IF k - 1 = n THEN CAP_INVALID_INDEX ELSE s[k]
        BY <4>1, <2>1 DEF Linked
      <4> QED BY <1>0, <3>1, <3>2, <4>1, <4>2
    <3>3. CASE ~(k - 1 <= n)
      BY <1>0, <3>1, <3>3
    <3> QED BY <3>2, <3>3
  <2>2. g[1] = free_head
    BY <1>0 DEF Linked
  <2> HIDE DEF g
  <2>3. \A k \in 1..(MaxCap + 1) : g[k] = Walk(g)[k]
    BY <2>1, <2>2 DEF Walk
  <2>4. g = [k \in 1..(MaxCap + 1) |-> g[k]] /\ Walk(g) = [k \in 1..(MaxCap + 1) |-> Walk(g)[k]]
    BY DEF Walk, g
  <2> QED BY <2>3, <2>4
<1> HIDE DEF g
<1>2. FreeSlot = Walk(FreeSlot)
  <2>1. FreeSlot = CHOOSE f : f = Walk(f)
    BY Zenon DEF FreeSlot, Walk
  <2> DEFINE h == CHOOSE f : f = Walk(f)
  <2>2. h = Walk(h)
    <3>1. \E f : f = Walk(f)
      BY <1>1, Zenon
    <3> QED BY <3>1, Zenon
  <2> QED BY <2>1, <2>2, Zenon
<1>3. \A k \in 1..(MaxCap + 1) : FreeSlot[k] = IF k <= n THEN s[k] ELSE CAP_INVALID_INDEX
  BY <1>2, WalkEnds
<1>4. { k \in 1..(MaxCap + 1) : FreeSlot[k] # CAP_INVALID_INDEX } = 1..n
  <2>1. \A k \in 1..n : s[k] # CAP_INVALID_INDEX
    BY <1>0 DEF Indices, CAP_INVALID_INDEX
  <2> QED BY <1>0, <1>3, <2>1
<1>5. FreeLen = n
  <2>1. Cardinality(1..n) = n
    BY FS_Interval
  <2> QED BY <1>4, <2>1 DEF FreeLen
<1> QED BY <1>0, <1>3, <1>5

\* The invariant says what FreeListExact says.
LEMMA FreeFollows == TypeOK /\ Free => FreeListExact
<1> SUFFICES ASSUME TypeOK, Free, mode = "ok"
             PROVE  /\ { i \in Indices : i < next_unused /\ obj[i] = NULL } = { FreeSlot[k] : k \in 1..FreeLen }
                    /\ \A j, k \in 1..FreeLen : j # k => FreeSlot[j] # FreeSlot[k]
                    /\ \A i \in Indices : i >= next_unused => obj[i] = NULL
  BY DEF FreeListExact, Free
<1>1. PICK n \in Nat : \E s \in [1..n -> Indices] : Linked(n, s, free_head, next_free) /\ Lists(n, s)
  BY DEF Free
<1>2. PICK s \in [1..n -> Indices] : Linked(n, s, free_head, next_free) /\ Lists(n, s)
  BY <1>1
<1>3. FreeLen = n /\ \A k \in 1..n : FreeSlot[k] = s[k]
  BY <1>2, WalkExact
<1>4. { i \in Indices : i < next_unused /\ obj[i] = NULL } = { FreeSlot[k] : k \in 1..FreeLen }
  BY <1>2, <1>3 DEF Lists, On
<1>5. \A j, k \in 1..FreeLen : j # k => FreeSlot[j] # FreeSlot[k]
  BY <1>2, <1>3 DEF Linked
<1> QED BY <1>4, <1>5 DEF Free, Unused

\* A slot is taken out of the middle of the list, or off its head.
Unlinking(n, s, k, head, link) ==
  /\ n \in Nat /\ s \in [1..n -> Indices] /\ Linked(n, s, free_head, next_free) /\ k \in 1..n
  /\ head = IF k = 1 THEN next_free[s[k]] ELSE free_head
  /\ \A j \in 1..n : j # k => link[s[j]] = IF j = k - 1 THEN next_free[s[k]] ELSE next_free[s[j]]

\* The list without its k-th slot.
Without(n, s, k) == [j \in 1..(n - 1) |-> s[IF j < k THEN j ELSE j + 1]]

\* The links then lead along the other slots.
LEMMA Unlinks ==
  ASSUME NEW n, NEW s, NEW k, NEW head, NEW link, Unlinking(n, s, k, head, link)
  PROVE  /\ n - 1 \in Nat /\ Without(n, s, k) \in [1..(n - 1) -> Indices]
         /\ Linked(n - 1, Without(n, s, k), head, link)
         /\ On(n - 1, Without(n, s, k)) = On(n, s) \ {s[k]}
<1> SUFFICES ASSUME n \in Nat /\ s \in [1..n -> Indices] /\ Linked(n, s, free_head, next_free) /\ k \in 1..n,
                    head = IF k = 1 THEN next_free[s[k]] ELSE free_head,
                    \A j \in 1..n : j # k => link[s[j]] = IF j = k - 1 THEN next_free[s[k]] ELSE next_free[s[j]]
             PROVE  /\ n - 1 \in Nat /\ Without(n, s, k) \in [1..(n - 1) -> Indices]
                    /\ Linked(n - 1, Without(n, s, k), head, link)
                    /\ On(n - 1, Without(n, s, k)) = On(n, s) \ {s[k]}
  BY DEF Unlinking
<1> DEFINE at(j) == IF j < k THEN j ELSE j + 1
           t == [j \in 1..(n - 1) |-> s[at(j)]]
<1>0. Without(n, s, k) = t /\ n - 1 \in Nat
  BY DEF Without
<1>1. \A j \in 1..(n - 1) : at(j) \in 1..n /\ at(j) # k
  OBVIOUS
<1>2. t \in [1..(n - 1) -> Indices]
  BY <1>1
<1>3. \A i, j \in 1..(n - 1) : t[i] = t[j] => i = j
  BY <1>1 DEF Linked
<1>4. ASSUME NEW j \in 1..(n - 1)
      PROVE  link[t[j]] = IF j = n - 1 THEN CAP_INVALID_INDEX ELSE t[j + 1]
  <2>1. \A m \in 1..n : next_free[s[m]] = IF m = n THEN CAP_INVALID_INDEX ELSE s[m + 1]
    BY DEF Linked
  <2>2. CASE j < k - 1
    <3>1. t[j] = s[j] /\ j \in 1..n /\ t[j + 1] = s[j + 1] /\ j # n - 1 /\ j # n /\ j # k /\ j # k - 1
      BY <2>2
    <3> QED BY <2>1, <3>1
  <2>3. CASE j = k - 1
    <3>1. t[j] = s[j] /\ j \in 1..n /\ j # k /\ (j # n - 1 => t[j + 1] = s[k + 1]) /\ (j = n - 1 <=> k = n)
      BY <2>3
    <3> QED BY <2>1, <2>3, <3>1
  <2>4. CASE j >= k
    <3>1. t[j] = s[j + 1] /\ j + 1 \in 1..n /\ j + 1 # k /\ j + 1 # k - 1 /\ (j # n - 1 => t[j + 1] = s[j + 2])
      BY <2>4
    <3>2. j + 1 + 1 = j + 2 /\ (j = n - 1 <=> j + 1 = n)
      OBVIOUS
    <3> QED BY <2>1, <3>1, <3>2
  <2> QED BY <2>2, <2>3, <2>4
<1>5. head = IF n - 1 = 0 THEN CAP_INVALID_INDEX ELSE t[1]
  <2>1. free_head = s[1] /\ next_free[s[k]] = IF k = n THEN CAP_INVALID_INDEX ELSE s[k + 1]
    BY DEF Linked
  <2>2. CASE k = 1
    BY <2>1, <2>2
  <2>3. CASE k # 1
    BY <2>1, <2>3
  <2> QED BY <2>2, <2>3
<1>6. Linked(n - 1, t, head, link)
  <2> HIDE DEF t
  <2> QED BY <1>2, <1>3, <1>4, <1>5 DEF Linked, Indices, CAP_INVALID_INDEX
<1>7. ASSUME NEW i \in Indices
      PROVE  (\E j \in 1..(n - 1) : t[j] = i) <=> i # s[k] /\ \E j \in 1..n : s[j] = i
  <2>1. ASSUME NEW j \in 1..(n - 1), t[j] = i PROVE i # s[k] /\ \E m \in 1..n : s[m] = i
    BY <1>1, <2>1 DEF Linked
  <2>2. ASSUME NEW j \in 1..n, s[j] = i, i # s[k] PROVE \E m \in 1..(n - 1) : t[m] = i
    <3>1. CASE j < k
      <4>1. j \in 1..(n - 1) /\ t[j] = i
        BY <2>2, <3>1
      <4> QED BY <4>1
    <3>2. CASE j > k
      <4>1. j - 1 \in 1..(n - 1) /\ t[j - 1] = s[j - 1 + 1] /\ j - 1 + 1 = j
        BY <3>2
      <4> QED BY <2>2, <4>1
    <3> QED BY <2>2, <3>1, <3>2
  <2> HIDE DEF t
  <2> QED BY <2>1, <2>2
<1> HIDE DEF t
<1>8. On(n - 1, t) = On(n, s) \ {s[k]}
  BY <1>7 DEF On
<1> QED BY <1>0, <1>2, <1>6, <1>8

\* m slots from the slot `from` on are put in front of the list, in order.
Prepending(n, s, m, from, head, link) ==
  /\ n \in Nat /\ s \in [1..n -> Indices] /\ Linked(n, s, free_head, next_free)
  /\ m \in Nat /\ from \in Nat /\ from + m <= MaxCap
  /\ \A i \in from..(from + m - 1), k \in 1..n : s[k] # i
  /\ head = IF m = 0 THEN free_head ELSE from
  /\ \A i \in from..(from + m - 1) : link[i] = IF i = from + m - 1 THEN free_head ELSE i + 1
  /\ \A k \in 1..n : link[s[k]] = next_free[s[k]]

\* The list with these slots.
Before(n, s, m, from) == [j \in 1..(n + m) |-> IF j <= m THEN from + j - 1 ELSE s[j - m]]

\* The links then lead along them to the others.
LEMMA Prepends ==
  ASSUME NEW n, NEW s, NEW m, NEW from, NEW head, NEW link, Prepending(n, s, m, from, head, link)
  PROVE  /\ n + m \in Nat /\ Before(n, s, m, from) \in [1..(n + m) -> Indices]
         /\ Linked(n + m, Before(n, s, m, from), head, link)
         /\ On(n + m, Before(n, s, m, from)) = On(n, s) \cup from..(from + m - 1)
<1> SUFFICES ASSUME n \in Nat /\ s \in [1..n -> Indices] /\ Linked(n, s, free_head, next_free),
                    m \in Nat /\ from \in Nat /\ from + m <= MaxCap,
                    \A i \in from..(from + m - 1), k \in 1..n : s[k] # i,
                    head = IF m = 0 THEN free_head ELSE from,
                    \A i \in from..(from + m - 1) : link[i] = IF i = from + m - 1 THEN free_head ELSE i + 1,
                    \A k \in 1..n : link[s[k]] = next_free[s[k]]
             PROVE  /\ n + m \in Nat /\ Before(n, s, m, from) \in [1..(n + m) -> Indices]
                    /\ Linked(n + m, Before(n, s, m, from), head, link)
                    /\ On(n + m, Before(n, s, m, from)) = On(n, s) \cup from..(from + m - 1)
  BY DEF Prepending
<1> DEFINE t == [j \in 1..(n + m) |-> IF j <= m THEN from + j - 1 ELSE s[j - m]]
<1>0. MaxCap \in Nat
  BY CapAssumption
<1>8. Before(n, s, m, from) = t
  BY DEF Before
<1>1. \A j \in 1..(n + m) : \/ j <= m /\ t[j] = from + j - 1 /\ t[j] \in from..(from + m - 1) /\ t[j] \in Indices
                            \/ j > m /\ t[j] = s[j - m] /\ j - m \in 1..n /\ t[j] \in Indices
  BY <1>0 DEF Indices
<1>2. t \in [1..(n + m) -> Indices]
  BY <1>1
<1>3. ASSUME NEW i \in 1..(n + m), NEW j \in 1..(n + m), t[i] = t[j] PROVE i = j
  <2>1. CASE i <= m /\ j <= m
    <3>1. t[i] = from + i - 1 /\ t[j] = from + j - 1 /\ i \in Int /\ j \in Int
      BY <2>1
    <3> HIDE DEF t
    <3>2. from + i - 1 = from + j - 1
      BY <1>3, <3>1
    <3> QED BY <3>1, <3>2
  <2>2. CASE i > m /\ j > m
    <3>1. t[i] = s[i - m] /\ t[j] = s[j - m] /\ i - m \in 1..n /\ j - m \in 1..n
      BY <2>2
    <3> HIDE DEF t
    <3>2. i - m = j - m
      BY <1>3, <3>1 DEF Linked
    <3> QED BY <3>2
  <2>3. CASE i <= m /\ j > m
    <3>1. t[i] \in from..(from + m - 1) /\ t[j] = s[j - m] /\ j - m \in 1..n
      BY <2>3
    <3> HIDE DEF t
    <3> QED BY <1>3, <3>1
  <2>4. CASE i > m /\ j <= m
    <3>1. t[j] \in from..(from + m - 1) /\ t[i] = s[i - m] /\ i - m \in 1..n
      BY <2>4
    <3> HIDE DEF t
    <3> QED BY <1>3, <3>1
  <2> QED BY <2>1, <2>2, <2>3, <2>4
<1>4. ASSUME NEW j \in 1..(n + m)
      PROVE  link[t[j]] = IF j = n + m THEN CAP_INVALID_INDEX ELSE t[j + 1]
  <2>0. \A k \in 1..n : next_free[s[k]] = IF k = n THEN CAP_INVALID_INDEX ELSE s[k + 1]
    BY DEF Linked
  <2>1. CASE j < m
    <3>1. t[j] = from + j - 1 /\ t[j + 1] = from + j /\ j # n + m /\ from + j - 1 \in from..(from + m - 1)
          /\ from + j - 1 # from + m - 1 /\ from + j - 1 + 1 = from + j
      BY <2>1
    <3> HIDE DEF t
    <3> QED BY <3>1
  <2>2. CASE j = m
    <3>1. t[j] = from + m - 1 /\ from + m - 1 \in from..(from + m - 1) /\ (n # 0 => t[j + 1] = s[1])
          /\ (n = 0 <=> j = n + m)
      BY <2>2
    <3>2. free_head = IF n = 0 THEN CAP_INVALID_INDEX ELSE s[1]
      BY DEF Linked
    <3> HIDE DEF t
    <3> QED BY <3>1, <3>2
  <2>3. CASE j > m
    <3>1. t[j] = s[j - m] /\ j - m \in 1..n /\ (j # n + m => t[j + 1] = s[j - m + 1]) /\ (j = n + m <=> j - m = n)
      BY <2>3
    <3> HIDE DEF t
    <3> QED BY <2>0, <3>1
  <2> QED BY <2>1, <2>2, <2>3
<1>5. head = IF n + m = 0 THEN CAP_INVALID_INDEX ELSE t[1]
  <2>1. free_head = IF n = 0 THEN CAP_INVALID_INDEX ELSE s[1]
    BY DEF Linked
  <2>2. CASE m = 0
    BY <2>1, <2>2
  <2>3. CASE m # 0
    BY <2>3
  <2> QED BY <2>2, <2>3
<1>6. ASSUME NEW i \in Indices
      PROVE  (\E j \in 1..(n + m) : t[j] = i) <=> i \in from..(from + m - 1) \/ \E j \in 1..n : s[j] = i
  <2>1. ASSUME NEW j \in 1..(n + m), t[j] = i PROVE i \in from..(from + m - 1) \/ \E k \in 1..n : s[k] = i
    <3> HIDE DEF t
    <3> QED BY <1>1, <2>1
  <2>2. ASSUME i \in from..(from + m - 1) PROVE \E j \in 1..(n + m) : t[j] = i
    <3>1. i - from + 1 \in 1..(n + m) /\ i - from + 1 <= m /\ from + (i - from + 1) - 1 = i
      BY <2>2
    <3>2. t[i - from + 1] = i
      BY <3>1
    <3> QED BY <3>1, <3>2
  <2>3. ASSUME NEW k \in 1..n, s[k] = i PROVE \E j \in 1..(n + m) : t[j] = i
    <3>1. k + m \in 1..(n + m) /\ t[k + m] = s[k]
      BY <2>3
    <3> QED BY <2>3, <3>1
  <2> HIDE DEF t
  <2> QED BY <2>1, <2>2, <2>3
<1> HIDE DEF t
<1>7. Linked(n + m, t, head, link)
  BY <1>2, <1>3, <1>4, <1>5 DEF Linked, Indices, CAP_INVALID_INDEX
<1>9. from..(from + m - 1) \subseteq Indices
  BY <1>0 DEF Indices
<1>10. On(n + m, t) = On(n, s) \cup from..(from + m - 1)
  BY <1>6, <1>9 DEF On
<1> QED BY <1>2, <1>7, <1>8, <1>10

\* The free list of a table that works.
LEMMA FreeList ==
  ASSUME Free, mode = "ok"
  PROVE  \E n \in Nat : \E s \in [1..n -> Indices] : Linked(n, s, free_head, next_free) /\ Lists(n, s)
BY DEF Free

\* Steps that leave the slots and the list alone.
LEMMA FreeKept ==
  ASSUME Free, UNCHANGED <<obj, next_free, next_unused, free_head, mode>>
  PROVE  Free'
BY DEF Free, Unused, Linked, Lists, On, Indices, CAP_INVALID_INDEX

\* A list again, after a step of a table that works.
LEMMA FreeAgain ==
  ASSUME mode' = "ok", Unused', NEW n \in Nat, NEW s \in [1..n -> Indices], Linked(n, s, free_head', next_free'), Lists(n, s)'
  PROVE  Free'
<1>1. \E k \in Nat : \E t \in [1..k -> Indices] : Linked(k, t, free_head', next_free') /\ Lists(k, t)'
  OBVIOUS
<1>2. (\E k \in Nat : \E t \in [1..k -> Indices] : Linked(k, t, free_head, next_free) /\ Lists(k, t))'
  BY <1>1 DEF Indices
<1> QED BY <1>2 DEF Free

\* What filling the slot i leaves empty.
LEMMA Filled ==
  ASSUME TypeOK, NEW i \in Indices, NEW o \in Objs, NEW r, fill(i, o, r)
  PROVE  \A j \in Indices : obj'[j] = NULL <=> j # i /\ obj[j] = NULL
BY CapAssumption DEF fill, TypeOK

\* cap_table_add takes the head of the list, which is empty.
LEMMA FreeAddFree ==
  ASSUME TypeOK, Free, NEW o \in Objs, NEW r \in SUBSET Rights, cap_table_add_free(o, r)
  PROVE  Free'
<1>1. mode = "ok" /\ free_head # CAP_INVALID_INDEX /\ Unused
  BY DEF cap_table_add_free, Free
<1>2. PICK n \in Nat : \E s \in [1..n -> Indices] : Linked(n, s, free_head, next_free) /\ Lists(n, s)
  BY <1>1, FreeList
<1>3. PICK s \in [1..n -> Indices] : Linked(n, s, free_head, next_free) /\ Lists(n, s)
  BY <1>2
<1>4. n # 0 /\ 1 \in 1..n /\ s[1] = free_head /\ free_head \in Indices
  BY <1>1, <1>3 DEF Linked
<1>5. obj[free_head] = NULL /\ free_head < next_unused
  BY <1>3, <1>4 DEF Lists, On
<1>6. /\ fill(free_head, o, r) /\ free_head' = next_free[free_head] /\ UNCHANGED <<next_unused, mode>>
      /\ next_free' = [next_free EXCEPT ![free_head] = CAP_INVALID_INDEX]
  BY <1>5 DEF cap_table_add_free
<1>7. \A j \in Indices : obj'[j] = NULL <=> j # free_head /\ obj[j] = NULL
  BY <1>4, <1>6, Filled
<1>8. Unlinking(n, s, 1, free_head', next_free')
  <2>1. \A j \in 1..n : j # 1 => s[j] # s[1] /\ j # 0
    BY <1>3, <1>4 DEF Linked
  <2> QED BY <1>3, <1>4, <1>6, <2>1 DEF Unlinking, TypeOK
<1> DEFINE t == Without(n, s, 1)
<1> HIDE DEF t
<1>9. n - 1 \in Nat /\ t \in [1..(n - 1) -> Indices] /\ Linked(n - 1, t, free_head', next_free')
      /\ On(n - 1, t) = On(n, s) \ {s[1]}
  BY <1>8, Unlinks DEF t
<1>10. Lists(n - 1, t)'
  BY <1>3, <1>4, <1>6, <1>7, <1>9 DEF Lists, On, Indices
<1>11. Unused'
  <2>1. next_unused \in Nat /\ \A i \in Indices : i \in Nat
    BY CapAssumption DEF TypeOK, Indices
  <2>2. \A i \in Indices : i >= next_unused => i # free_head
    BY <1>4, <1>5, <2>1
  <2> QED BY <1>1, <1>6, <1>7, <2>2 DEF Unused, Indices
<1> QED BY <1>1, <1>6, <1>9, <1>10, <1>11, FreeAgain

\* With an empty list the next unused slot is empty; when there is none, every
\* slot holds an object.
LEMMA FreeAddUnused ==
  ASSUME TypeOK, Free, NEW o \in Objs, NEW r \in SUBSET Rights, cap_table_add_unused(o, r)
  PROVE  Free'
<1>1. mode = "ok" /\ free_head = CAP_INVALID_INDEX /\ Unused
  BY DEF cap_table_add_unused, Free
<1>2. PICK n \in Nat : \E s \in [1..n -> Indices] : Linked(n, s, free_head, next_free) /\ Lists(n, s)
  BY <1>1, FreeList
<1>3. PICK s \in [1..n -> Indices] : Linked(n, s, free_head, next_free) /\ Lists(n, s)
  BY <1>2
<1>4. MaxCap \in Nat /\ next_unused \in Nat /\ capacity \in 0..MaxCap /\ next_unused <= capacity
  BY CapAssumption DEF TypeOK
<1>5. n = 0
  <2>1. SUFFICES ASSUME n # 0 PROVE FALSE
    OBVIOUS
  <2>2. s[1] = free_head /\ s[1] \in Indices
    BY <1>3, <2>1 DEF Linked
  <2> QED BY <1>1, <1>4, <2>2 DEF Indices, CAP_INVALID_INDEX
<1>6. \A i \in Indices : i < next_unused => obj[i] # NULL
  BY <1>3, <1>5 DEF Lists, On
<1>7. CASE next_unused >= ensure_capacity(capacity)
  <2>1. next_unused = MaxCap
    BY <1>4, <1>7 DEF ensure_capacity
  <2>2. mode' = "full" /\ UNCHANGED obj
    BY <1>4, <1>7, EnsureCapacity DEF cap_table_add_unused, tableVars, slotVars
  <2> QED BY <1>4, <1>6, <2>1, <2>2 DEF Free, Indices
<1>8. CASE next_unused < ensure_capacity(capacity)
  <2>1. next_unused \in Indices /\ obj[next_unused] = NULL
    BY <1>1, <1>4, <1>8, EnsureCapacity DEF Indices, Unused
  <2>2. /\ fill(next_unused, o, r) /\ next_unused' = next_unused + 1 /\ UNCHANGED <<free_head, mode>>
    BY <1>4, <1>8, <2>1, EnsureCapacity DEF cap_table_add_unused
  <2>3. \A j \in Indices : obj'[j] = NULL <=> j # next_unused /\ obj[j] = NULL
    BY <2>1, <2>2, Filled
  <2>4. Unused'
    BY <1>1, <1>4, <2>2, <2>3 DEF Unused, Indices
  <2>5. Linked(0, s, free_head', next_free') /\ s \in [1..0 -> Indices]
    BY <1>3, <1>5, <1>1, <2>2 DEF Linked, Indices, CAP_INVALID_INDEX
  <2>6. Lists(0, s)'
    BY <1>4, <1>6, <2>2, <2>3 DEF Lists, On, Indices
  <2> QED BY <1>1, <2>2, <2>4, <2>5, <2>6, FreeAgain
<1> QED BY <1>4, <1>7, <1>8, EnsureCapacity

\* cap_table_del puts its slot in front.
LEMMA FreeDel ==
  ASSUME TypeOK, Free, NEW id \in Ids, cap_table_del(id)
  PROVE  Free'
<1> DEFINE idx == id.index
<1>0. idx \in Indices /\ MaxCap \in Nat /\ next_unused \in Nat
  BY CapAssumption DEF Ids, TypeOK
<1>1. /\ mode = "ok" /\ obj[idx] # NULL /\ UNCHANGED <<next_unused, mode>> /\ free_head' = idx
      /\ obj' = [obj EXCEPT ![idx] = NULL] /\ next_free' = [next_free EXCEPT ![idx] = free_head]
  BY DEF cap_table_del
<1>2. Unused /\ idx < next_unused
  BY <1>0, <1>1 DEF Free, Unused, Indices
<1>3. PICK n \in Nat : \E s \in [1..n -> Indices] : Linked(n, s, free_head, next_free) /\ Lists(n, s)
  BY <1>1, FreeList
<1>4. PICK s \in [1..n -> Indices] : Linked(n, s, free_head, next_free) /\ Lists(n, s)
  BY <1>3
<1> HIDE DEF idx
<1>5. \A k \in 1..n : s[k] # idx
  BY <1>0, <1>1, <1>4 DEF Lists, On
<1>6. idx \in Nat /\ idx + 1 <= MaxCap /\ idx..(idx + 1 - 1) = {idx} /\ idx = idx + 1 - 1
  BY <1>0 DEF Indices
<1>7. next_free'[idx] = free_head /\ \A k \in 1..n : next_free'[s[k]] = next_free[s[k]]
  BY <1>0, <1>1, <1>4, <1>5 DEF TypeOK, Linked
<1>8. Prepending(n, s, 1, idx, free_head', next_free')
  BY <1>1, <1>4, <1>5, <1>6, <1>7 DEF Prepending
<1> DEFINE t == Before(n, s, 1, idx)
<1> HIDE DEF t
<1>12. n + 1 \in Nat /\ t \in [1..(n + 1) -> Indices] /\ Linked(n + 1, t, free_head', next_free')
       /\ On(n + 1, t) = On(n, s) \cup {idx}
  BY <1>6, <1>8, Prepends DEF t
<1>9. \A j \in Indices : obj'[j] = NULL <=> j = idx \/ obj[j] = NULL
  BY <1>0, <1>1 DEF TypeOK
<1>10. Lists(n + 1, t)'
  BY <1>0, <1>1, <1>2, <1>4, <1>9, <1>12 DEF Lists, On, Indices
<1>11. Unused'
  BY <1>1, <1>2, <1>9 DEF Unused, Indices
<1> QED BY <1>1, <1>10, <1>11, <1>12, FreeAgain

\* cap_table_set takes its slot off the list, wherever the walk finds it ...
LEMMA FreeSetListed ==
  ASSUME TypeOK, Free, mode = "ok", NEW idx \in Indices, NEW o \in Objs, NEW r,
         idx < next_unused, \E k \in 1..FreeLen : FreeSlot[k] = idx,
         fill(idx, o, r), free_list_remove(idx), UNCHANGED <<next_unused, mode>>
  PROVE  Free'
<1>1. PICK n \in Nat : \E s \in [1..n -> Indices] : Linked(n, s, free_head, next_free) /\ Lists(n, s)
  BY FreeList
<1>2. PICK s \in [1..n -> Indices] : Linked(n, s, free_head, next_free) /\ Lists(n, s)
  BY <1>1
<1>3. FreeLen = n /\ \A k \in 1..n : FreeSlot[k] = s[k]
  BY <1>2, WalkExact
<1>4. \A j, k \in 1..n : s[j] = s[k] => j = k
  BY <1>2 DEF Linked
<1>5. \E k \in 1..n : s[k] = idx /\ Unlinking(n, s, k, free_head', next_free')
  <2>1. CASE free_head = idx
    <3>1. free_head' = next_free[idx] /\ next_free' = [next_free EXCEPT ![idx] = CAP_INVALID_INDEX]
      BY <2>1 DEF free_list_remove
    <3>2. 1 \in 1..n /\ s[1] = idx
      BY <1>2, <1>3, <2>1 DEF Linked
    <3>3. \A j \in 1..n : j # 1 => s[j] # idx /\ j # 0
      BY <1>4, <3>2
    <3>4. Unlinking(n, s, 1, free_head', next_free')
      BY <1>2, <3>1, <3>2, <3>3 DEF Unlinking, TypeOK
    <3> QED BY <3>2, <3>4
  <2>2. CASE free_head # idx
    <3>1. PICK k \in 2..n : /\ FreeSlot[k] = idx
                           /\ next_free' = [next_free EXCEPT ![FreeSlot[k - 1]] = next_free[idx],
                                                             ![idx] = CAP_INVALID_INDEX]
      BY <1>3, <2>2 DEF free_list_remove
    <3>2. free_head' = free_head
      BY <2>2 DEF free_list_remove
    <3>3. k \in 1..n /\ k # 1 /\ k - 1 \in 1..n /\ s[k] = idx /\ FreeSlot[k - 1] = s[k - 1] /\ s[k - 1] \in Indices
      BY <1>3, <3>1
    <3>4. \A j \in 1..n : j # k => s[j] # idx /\ s[j] \in Indices /\ (s[j] = s[k - 1] <=> j = k - 1)
      BY <1>4, <3>3
    <3>5. next_free' = [next_free EXCEPT ![s[k - 1]] = next_free[idx], ![idx] = CAP_INVALID_INDEX]
      BY <3>1, <3>3
    <3>6. \A j \in 1..n : j # k => next_free'[s[j]] = IF j = k - 1 THEN next_free[s[k]] ELSE next_free[s[j]]
      BY <3>3, <3>4, <3>5 DEF TypeOK
    <3>7. Unlinking(n, s, k, free_head', next_free')
      BY <1>2, <3>2, <3>3, <3>6 DEF Unlinking
    <3> QED BY <3>3, <3>7
  <2> QED BY <2>1, <2>2
<1>6. PICK k \in 1..n : s[k] = idx /\ Unlinking(n, s, k, free_head', next_free')
  BY <1>5
<1> DEFINE t == Without(n, s, k)
<1> HIDE DEF t
<1>7. n - 1 \in Nat /\ t \in [1..(n - 1) -> Indices] /\ Linked(n - 1, t, free_head', next_free')
      /\ On(n - 1, t) = On(n, s) \ {idx}
  BY <1>6, Unlinks DEF t
<1>8. \A j \in Indices : obj'[j] = NULL <=> j # idx /\ obj[j] = NULL
  BY Filled
<1>9. Lists(n - 1, t)'
  BY <1>2, <1>7, <1>8 DEF Lists, On, Indices
<1>10. Unused'
  <2>1. next_unused \in Nat /\ \A i \in Indices : i \in Nat
    BY CapAssumption DEF TypeOK, Indices
  <2>2. \A i \in Indices : i >= next_unused => i # idx
    BY <2>1
  <2> QED BY <1>8, <2>2 DEF Free, Unused, Indices
<1> QED BY <1>7, <1>9, <1>10, FreeAgain

\* ... or one never used, and lists the slots it passes over.
LEMMA FreeSetUnused ==
  ASSUME TypeOK, Free, mode = "ok", NEW idx \in Indices, NEW o \in Objs, NEW r,
         ~(idx < next_unused), fill(idx, o, r), set_unused(idx), UNCHANGED mode
  PROVE  Free'
<1>1. PICK n \in Nat : \E s \in [1..n -> Indices] : Linked(n, s, free_head, next_free) /\ Lists(n, s)
  BY FreeList
<1>2. PICK s \in [1..n -> Indices] : Linked(n, s, free_head, next_free) /\ Lists(n, s)
  BY <1>1
<1>3. MaxCap \in Nat /\ next_unused \in Nat /\ idx \in Nat /\ idx < MaxCap /\ Unused
  BY CapAssumption DEF TypeOK, Indices, Free
<1>4. \A k \in 1..n : s[k] < next_unused /\ s[k] \in Indices /\ s[k] \in Nat
  BY <1>2 DEF Lists, On, Indices
<1>5. PICK m \in Nat : m = idx - next_unused
  BY <1>3
<1>13. m \in Nat /\ next_unused + m = idx /\ next_unused + m - 1 = idx - 1 /\ (m = 0 <=> ~(next_unused < idx))
  BY <1>3, <1>5
<1>6. /\ next_unused' = idx + 1
      /\ free_head' = IF next_unused < idx THEN next_unused ELSE free_head
      /\ \A i \in next_unused..(idx - 1) : next_free'[i] = IF i = idx - 1 THEN free_head ELSE i + 1
      /\ \A i \in Indices : i < next_unused => next_free'[i] = next_free[i]
  BY <1>3 DEF set_unused, Indices
<1>7. Prepending(n, s, m, next_unused, free_head', next_free')
  <2>1. \A i \in next_unused..(next_unused + m - 1), k \in 1..n : s[k] # i
    BY <1>3, <1>4, <1>13
  <2>2. \A i \in next_unused..(next_unused + m - 1) :
          next_free'[i] = IF i = next_unused + m - 1 THEN free_head ELSE i + 1
    BY <1>13, <1>6
  <2>3. \A k \in 1..n : next_free'[s[k]] = next_free[s[k]]
    BY <1>4, <1>6
  <2>4. next_unused + m <= MaxCap
    BY <1>3, <1>13
  <2>5. free_head' = IF m = 0 THEN free_head ELSE next_unused
    BY <1>13, <1>6
  <2> QED BY <1>2, <1>3, <1>13, <2>1, <2>2, <2>3, <2>4, <2>5 DEF Prepending
<1> DEFINE T == Before(n, s, m, next_unused)
<1> HIDE DEF T
<1>8. n + m \in Nat /\ T \in [1..(n + m) -> Indices] /\ Linked(n + m, T, free_head', next_free')
      /\ On(n + m, T) = On(n, s) \cup next_unused..(next_unused + m - 1)
  BY <1>7, Prepends DEF T
<1>14. PICK t \in [1..(n + m) -> Indices] : t = T
  BY <1>8
<1>9. \A j \in Indices : obj'[j] = NULL <=> j # idx /\ obj[j] = NULL
  BY Filled
<1>10. ASSUME NEW i \in Indices
       PROVE  i < next_unused' /\ obj'[i] = NULL <=> i \in On(n + m, t)
  <2>1. i \in Nat
    BY <1>3 DEF Indices
  <2>2. i < next_unused /\ obj[i] = NULL <=> i \in On(n, s)
    BY <1>2 DEF Lists
  <2>3. i >= next_unused => obj[i] = NULL
    BY <1>3 DEF Unused
  <2>4. i < next_unused' <=> i = idx \/ i \in next_unused..(idx - 1) \/ i < next_unused
    BY <1>3, <1>6, <2>1
  <2>5. i \in next_unused..(idx - 1) => i >= next_unused /\ i # idx
    BY <1>3, <2>1
  <2>6. i < next_unused => i # idx
    BY <1>3
  <2>7. i \in On(n + m, t) <=> i \in On(n, s) \/ i \in next_unused..(idx - 1)
    BY <1>8, <1>13, <1>14
  <2> QED BY <1>9, <2>2, <2>3, <2>4, <2>5, <2>6, <2>7
<1>11. Lists(n + m, t)'
  BY <1>10 DEF Lists, On, Indices
<1>12. Unused'
  <2>1. \A i \in Indices : i \in Nat
    BY <1>3 DEF Indices
  <2> QED BY <1>3, <1>6, <1>9, <2>1 DEF Unused, Indices
<1> QED BY <1>8, <1>11, <1>12, <1>14, FreeAgain

\* cap_table_set, whatever it finds.
LEMMA FreeSet ==
  ASSUME TypeOK, Free, NEW id \in Ids, NEW o \in Objs, NEW r \in SUBSET Rights, cap_table_set(id, o, r)
  PROVE  Free'
<1>1. id.index \in Indices /\ mode = "ok" /\ UNCHANGED mode
  BY DEF Ids, cap_table_set
<1>2. CASE UNCHANGED <<slotVars, next_unused, free_head, refcount>>
  BY <1>1, <1>2, FreeKept DEF slotVars
<1>3. CASE /\ id.index < next_unused => \E k \in 1..FreeLen : FreeSlot[k] = id.index
           /\ fill(id.index, o, r)
           /\ IF id.index < next_unused
              THEN free_list_remove(id.index) /\ UNCHANGED next_unused
              ELSE set_unused(id.index)
  <2>1. CASE id.index < next_unused
    BY <1>1, <1>3, <2>1, FreeSetListed
  <2>2. CASE ~(id.index < next_unused)
    BY <1>1, <1>3, <2>2, FreeSetUnused
  <2> QED BY <2>1, <2>2
<1> QED BY <1>2, <1>3 DEF cap_table_set

\* Every step keeps the free list right.
LEMMA FreeNext ==
  ASSUME TypeOK, Free, [Next]_vars
  PROVE  Free'
<1>1. CASE UNCHANGED vars
  BY <1>1, FreeKept DEF vars, tableVars, slotVars
<1>2. ASSUME NEW o \in Objs, cap_obj_init(o) \/ creator_drops(o) PROVE Free'
  BY <1>2, FreeKept DEF cap_obj_init, creator_drops, tableVars, slotVars
<1>3. ASSUME NEW id \in Ids, NEW right \in Rights, NEW range \in {"user", "empty", "bad"}, sysc_cap(id, right, range)
      PROVE  Free'
  <2>1. CASE mode' = "empty_span"
    BY <2>1 DEF Free
  <2>2. CASE UNCHANGED <<tableVars, mode>>
    BY <2>2, FreeKept DEF tableVars, slotVars
  <2> QED BY <1>3, <2>1, <2>2 DEF sysc_cap, cap_table_get, vars
<1>4. CASE cap_table_deinit
  BY <1>4 DEF cap_table_deinit, Free
<1> QED BY <1>1, <1>2, <1>3, <1>4, FreeAddFree, FreeAddUnused, FreeSet, FreeDel DEF Next

\* An empty table has an empty list.
LEMMA FreeInit == Init => Free
<1> SUFFICES ASSUME Init PROVE Free
  OBVIOUS
<1>1. Unused
  BY DEF Init, Unused
<1> DEFINE s == [k \in 1..0 |-> 0]
<1>2. 0 \in Nat /\ s \in [1..0 -> Indices]
  OBVIOUS
<1>3. Linked(0, s, free_head, next_free)
  BY DEF Init, Linked
<1>4. Lists(0, s)
  BY DEF Init, Lists, On, Indices
<1> HIDE DEF s
<1>5. \E n \in Nat : \E t \in [1..n -> Indices] : Linked(n, t, free_head, next_free) /\ Lists(n, t)
  BY <1>2, <1>3, <1>4
<1> QED BY <1>1, <1>5 DEF Init, Free

\* The free list ends, passes no slot twice and links exactly the empty slots
\* below next_unused, for every capacity and every sequence of calls: cap_table_add
\* never finds its slot in use, and panics only when every slot holds an object.
THEOREM FreeListStaysExact == Spec => []FreeListExact
<1>1. Init => Inv /\ Free
  BY InitInv, FreeInit
<1>2. Inv /\ Free /\ [Next]_vars => (Inv /\ Free)'
  BY NextInv, FreeNext DEF Inv
<1>3. Inv /\ Free => FreeListExact
  BY FreeFollows DEF Inv
<1>4. QED
  BY <1>1, <1>2, <1>3, PTL DEF Spec

-----------------------------------------------------------------------------
(* Identifiers: the table implements CapSpec.                              *)

\* The identifiers that name something, and what they name.
Named == { x \in Ids : obj[x.index] # NULL /\ gen[x.index] = x.gen }
Table == [id \in Named |-> [obj |-> obj[id.index], rights |-> rights[id.index]]]
Retired == IF mode = "deinit" THEN Ids ELSE { x \in Ids : x.gen < gen[x.index] }

\* An identifier is determined by its slot and generation.
LEMMA IdOf ==
  ASSUME NEW x \in Ids, NEW y \in Ids, x.index = y.index, x.gen = y.gen
  PROVE  x = y
  BY DEF Ids

\* Storing an object in an empty slot grants the identifier with the slot's
\* generation, which no retired identifier has.
LEMMA FillGrants ==
  ASSUME TypeOK, mode = "ok", NEW i \in Indices, NEW o \in Objs, NEW r \in SUBSET Rights,
         obj[i] = NULL, fill(i, o, r), UNCHANGED <<gen, got, mode>>
  PROVE  Abs!Next
<1> DEFINE id == [index |-> i, gen |-> gen[i]]
<1>0. NULL \notin Objs /\ id \in Ids /\ id.index = i /\ id.gen = gen[i]
  BY CapAssumption DEF Ids, TypeOK
<1> HIDE DEF id
<1>1. /\ \A j \in Indices : obj'[j] = IF j = i THEN o ELSE obj[j]
      /\ \A j \in Indices : rights'[j] = IF j = i THEN r ELSE rights[j]
  BY DEF fill, TypeOK
<1>2. \A x \in Ids : x.index \in Indices /\ gen[x.index] \in Nat
  BY DEF Ids, TypeOK
<1>3. Named' = Named \cup {id} /\ id \notin Named
  <2>1. ASSUME NEW x \in Ids PROVE x \in Named' <=> x \in Named \/ x = id
    <3>1. CASE x.index = i
      BY <1>0, <1>1, <1>2, <3>1, IdOf DEF Named
    <3>2. CASE x.index # i
      BY <1>0, <1>1, <1>2, <3>2 DEF Named
    <3>3. QED
      BY <3>1, <3>2
  <2>2. QED
    BY <1>0, <2>1 DEF Named
<1>4. \A x \in Named : x \in Ids /\ x.index # id.index
  BY <1>0 DEF Named
<1>5. id \notin Retired /\ Retired' = Retired
  BY <1>0, <1>2 DEF Retired
<1>6. Table' = [x \in Named \cup {id} |-> IF x = id THEN [obj |-> o, rights |-> r] ELSE Table[x]]
  <2>1. ASSUME NEW x \in Named \cup {id}
        PROVE  [obj |-> obj'[x.index], rights |-> rights'[x.index]]
                 = IF x = id THEN [obj |-> o, rights |-> r] ELSE Table[x]
    <3>1. CASE x = id
      BY <1>0, <1>1, <3>1
    <3>2. CASE x # id
      <4>1. x \in Named /\ x.index \in Indices /\ x.index # i
        BY <1>0, <1>2, <1>4, <3>2
      <4>2. QED
        BY <1>1, <3>2, <4>1 DEF Table
    <3>3. QED
      BY <3>1, <3>2
  <2>2. Table' = [x \in Named' |-> [obj |-> obj'[x.index], rights |-> rights'[x.index]]]
    BY DEF Table
  <2>3. QED
    BY <1>3, <2>1, <2>2
<1>7. DOMAIN Table = Named
  BY DEF Table
<1>8. Abs!Grant(id, o, r)
  BY <1>3, <1>4, <1>5, <1>6, <1>7 DEF Abs!Grant, Table, Named, Retired
<1>9. id \in Abs!Ids
  BY <1>0 DEF Ids, Abs!Ids
<1>10. QED
  BY <1>8, <1>9 DEF Abs!Next

\* What changes no slot and hands out no reference changes no identifier.
LEMMA SlotsKept ==
  ASSUME UNCHANGED <<obj, rights, gen, got>>, mode' = "deinit" <=> mode = "deinit"
  PROVE  UNCHANGED Abs!absVars
<1>1. Named' = Named /\ Retired' = Retired
  BY DEF Named, Retired
<1>2. Table' = Table
  BY <1>1 DEF Table
<1>3. QED
  BY <1>1, <1>2 DEF Abs!absVars, Table, Named, Retired

\* A lookup finds what its identifier was granted for.
LEMMA GetLooksUp ==
  ASSUME TypeOK, mode = "ok", NEW id \in Ids, NEW right \in Rights, cap_table_get(id, right)
  PROVE  Abs!Next
<1>1. UNCHANGED <<obj, rights, gen, mode>>
  BY DEF cap_table_get, tableVars, slotVars
<1>2. Named' = Named /\ Retired' = Retired
  BY <1>1 DEF Named, Retired
<1>3. Table' = Table
  BY <1>1, <1>2 DEF Table
<1>4. id \in Named /\ DOMAIN Table = Named /\ Table[id] = [obj |-> obj[id.index], rights |-> rights[id.index]]
  BY DEF cap_table_get, resolves, Named, Table
<1>5. {right} \subseteq Table[id].rights /\ {right} \in SUBSET Rights
  BY <1>4 DEF cap_table_get, resolves
<1>6. got' = [got EXCEPT ![Table[id].obj] = got[Table[id].obj] + 1]
  BY <1>4 DEF cap_table_get
<1>7. Abs!Lookup(id, {right})
  BY <1>2, <1>3, <1>4, <1>5, <1>6 DEF Abs!Lookup, Table, Named, Retired
<1>8. id \in Abs!Ids
  BY DEF Ids, Abs!Ids
<1>9. QED
  BY <1>5, <1>7, <1>8 DEF Abs!Next

\* Deleting a slot revokes the one identifier that named it, and takes the
\* generations of the slot that have come round out of retirement.
LEMMA DelRevokes ==
  ASSUME TypeOK, mode = "ok", NEW id \in Ids, cap_table_del(id)
  PROVE  Abs!Next
<1> DEFINE i == id.index
<1>0. UNCHANGED <<got, mode>> /\ i \in Indices /\ id.gen = gen[i] /\ obj[i] # NULL /\ GenMax \in Nat
  BY CapAssumption DEF cap_table_del, Ids
<1>1. /\ \A j \in Indices : obj'[j] = IF j = i THEN NULL ELSE obj[j]
      /\ \A j \in Indices : rights'[j] = IF j = i THEN {} ELSE rights[j]
      /\ \A j \in Indices : gen'[j] = IF j = i THEN next_gen(gen[j]) ELSE gen[j]
  BY <1>0 DEF cap_table_del, TypeOK
<1>2. \A x \in Ids : x.index \in Indices /\ gen[x.index] \in 1..GenMax /\ x.gen \in 1..GenMax
  BY DEF Ids, TypeOK
<1>3. Named' = Named \ {id} /\ id \in Named
  <2>1. ASSUME NEW x \in Ids PROVE x \in Named' <=> x \in Named /\ x # id
    <3>1. CASE x.index = i
      BY <1>0, <1>1, <1>2, <3>1, IdOf DEF Named
    <3>2. CASE x.index # i
      BY <1>0, <1>1, <1>2, <3>2 DEF Named
    <3>3. QED
      BY <3>1, <3>2
  <2>2. QED
    BY <1>0, <2>1 DEF Named
<1>4. Retired' = IF id.gen = GenMax THEN { x \in Retired : x.index # i } ELSE Retired \cup {id}
  <2>1. ASSUME NEW x \in Ids, x.index # i PROVE x \in Retired' <=> x \in Retired
    BY <1>0, <1>1, <1>2, <2>1 DEF Retired
  <2>2. ASSUME NEW x \in Ids, x.index = i, id.gen = GenMax PROVE x \notin Retired'
    <3>1. gen'[i] = 1 /\ x.gen \in 1..GenMax
      BY <1>0, <1>1, <1>2, <2>2 DEF next_gen
    <3>2. QED
      BY <1>0, <2>2, <3>1 DEF Retired
  <2>3. ASSUME NEW x \in Ids, x.index = i, id.gen # GenMax PROVE x \in Retired' <=> x \in Retired \/ x = id
    <3>1. gen'[i] = gen[i] + 1 /\ gen[i] \in Nat /\ x.gen \in Nat
      BY <1>0, <1>1, <1>2, <2>3 DEF next_gen
    <3>2. x.gen = gen[i] <=> x = id
      BY <1>0, <2>3, IdOf
    <3>3. QED
      BY <1>0, <2>3, <3>1, <3>2 DEF Retired
  <2>4. Retired \subseteq Ids /\ Retired' \subseteq Ids
    BY DEF Retired
  <2>5. QED
    BY <2>1, <2>2, <2>3, <2>4
<1>5. Table' = [x \in Named \ {id} |-> Table[x]]
  <2>1. ASSUME NEW x \in Named \ {id}
        PROVE  [obj |-> obj'[x.index], rights |-> rights'[x.index]] = Table[x]
    <3>1. x.index # i /\ x.index \in Indices
      BY <1>0, <1>2, IdOf DEF Named
    <3>2. QED
      BY <1>1, <3>1 DEF Table
  <2>2. Table' = [x \in Named' |-> [obj |-> obj'[x.index], rights |-> rights'[x.index]]]
    BY DEF Table
  <2>3. QED
    BY <1>3, <2>1, <2>2
<1>6. DOMAIN Table = Named
  BY DEF Table
<1>7. Abs!Revoke(id)
  BY <1>0, <1>3, <1>4, <1>5, <1>6 DEF Abs!Revoke, Table, Named, Retired
<1>8. id \in Abs!Ids
  BY DEF Ids, Abs!Ids
<1>9. QED
  BY <1>7, <1>8 DEF Abs!Next

\* The end of the table revokes everything.
LEMMA DeinitDestroys ==
  ASSUME cap_table_deinit
  PROVE  Abs!Next
<1>1. obj' = [j \in Indices |-> NULL] /\ mode' = "deinit" /\ UNCHANGED got
  BY DEF cap_table_deinit
<1>2. Named' = {} /\ Retired' = Ids
  BY <1>1 DEF Named, Retired, Ids
<1>3. Table' = << >>
  BY <1>2 DEF Table
<1>4. Abs!Ids = Ids
  BY DEF Ids, Abs!Ids
<1>5. Abs!Destroy
  BY <1>1, <1>2, <1>3, <1>4 DEF Abs!Destroy, Table, Named, Retired
<1>6. QED
  BY <1>5 DEF Abs!Next

\* A capability identifier behaves as CapSpec promises, for every capacity and
\* number of generations: no operation lets a deleted identifier resolve again
\* before its generation wraps, or changes what a granted one names.
THEOREM TableImplementsCapSpec == Spec => ImplementsCapSpec
<1>1. Init => Abs!Init
  <2>1. SUFFICES ASSUME Init PROVE Abs!Init
    OBVIOUS
  <2>2. Named = {}
    BY <2>1 DEF Init, Named, Ids
  <2>3. Table = << >>
    BY <2>2 DEF Table
  <2>4. Retired = {}
    BY <2>1 DEF Init, Retired, Ids
  <2>5. QED
    BY <2>1, <2>3, <2>4 DEF Init, Abs!Init, Table, Named, Retired
<1>2. ASSUME TypeOK, [Next]_vars PROVE [Abs!Next]_Abs!absVars
  <2>1. CASE UNCHANGED vars
    BY <2>1, SlotsKept DEF vars, tableVars, slotVars
  <2>2. ASSUME NEW o \in Objs, cap_obj_init(o) \/ creator_drops(o) PROVE UNCHANGED Abs!absVars
    BY <2>2, SlotsKept DEF cap_obj_init, creator_drops, tableVars, slotVars
  <2>3. ASSUME NEW o \in Objs, NEW r \in SUBSET Rights, cap_table_add_free(o, r)
        PROVE  [Abs!Next]_Abs!absVars
    <3>1. CASE obj[free_head] # NULL
      BY <2>3, <3>1, SlotsKept DEF cap_table_add_free, tableVars, slotVars
    <3>2. CASE obj[free_head] = NULL
      <4>1. free_head \in Indices
        BY <1>2, <2>3, CapAssumption DEF TypeOK, cap_table_add_free, CAP_INVALID_INDEX, Indices
      <4>2. mode = "ok" /\ fill(free_head, o, r) /\ UNCHANGED <<gen, got, mode>>
        BY <2>3, <3>2 DEF cap_table_add_free
      <4>3. QED
        BY <1>2, <3>2, <4>1, <4>2, FillGrants
    <3>3. QED
      BY <3>1, <3>2
  <2>4. ASSUME NEW o \in Objs, NEW r \in SUBSET Rights, cap_table_add_unused(o, r)
        PROVE  [Abs!Next]_Abs!absVars
    <3>1. CASE mode' \in {"full", "slot_in_use"} /\ UNCHANGED <<tableVars, refcount>>
      BY <2>4, <3>1, SlotsKept DEF cap_table_add_unused, tableVars, slotVars
    <3>2. CASE /\ next_unused < ensure_capacity(capacity) /\ obj[next_unused] = NULL
               /\ fill(next_unused, o, r) /\ UNCHANGED <<gen, free_head, mode>>
      <4>1. capacity \in 0..MaxCap /\ next_unused \in Nat /\ ensure_capacity(capacity) \in capacity..MaxCap
        BY <1>2, EnsureCapacity DEF TypeOK
      <4>2. next_unused \in Indices
        BY <3>2, <4>1, CapAssumption DEF Indices
      <4>3. mode = "ok" /\ UNCHANGED <<gen, got, mode>>
        BY <2>4, <3>2 DEF cap_table_add_unused
      <4>4. QED
        BY <1>2, <3>2, <4>2, <4>3, FillGrants
    <3>3. QED
      BY <2>4, <3>1, <3>2 DEF cap_table_add_unused
  <2>5. ASSUME NEW o \in Objs, NEW r \in SUBSET Rights, NEW id \in Ids, cap_table_set(id, o, r)
        PROVE  [Abs!Next]_Abs!absVars
    <3>1. CASE UNCHANGED <<slotVars, next_unused, free_head, refcount>>
      BY <2>5, <3>1, SlotsKept DEF cap_table_set, slotVars
    <3>2. CASE obj[id.index] = NULL /\ fill(id.index, o, r) /\ UNCHANGED gen
      <4>1. id.index \in Indices /\ mode = "ok" /\ UNCHANGED <<gen, got, mode>>
        BY <2>5, <3>2 DEF cap_table_set, Ids
      <4>2. QED
        BY <1>2, <3>2, <4>1, FillGrants
    <3>3. QED
      BY <2>5, <3>1, <3>2 DEF cap_table_set
  <2>6. ASSUME NEW id \in Ids, NEW right \in Rights, NEW range, sysc_cap(id, right, range)
        PROVE  [Abs!Next]_Abs!absVars
    <3>1. CASE cap_table_get(id, right)
      BY <1>2, <2>6, <3>1, GetLooksUp DEF sysc_cap
    <3>2. CASE ~cap_table_get(id, right)
      BY <2>6, <3>2, SlotsKept DEF sysc_cap, vars, tableVars, slotVars
    <3>3. QED
      BY <3>1, <3>2
  <2>7. ASSUME NEW id \in Ids, cap_table_del(id) PROVE Abs!Next
    BY <1>2, <2>7, DelRevokes DEF cap_table_del
  <2>8. ASSUME cap_table_deinit PROVE Abs!Next
    BY <2>8, DeinitDestroys
  <2>9. QED
    BY <1>2, <2>1, <2>2, <2>3, <2>4, <2>5, <2>6, <2>7, <2>8 DEF Next
<1>3. QED
  BY <1>1, <1>2, TypeCorrect, PTL DEF Spec, ImplementsCapSpec, Abs!Spec
=============================================================================
