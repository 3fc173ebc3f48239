---------------------------- MODULE TaskMemProofs ----------------------------
(***************************************************************************)
(* A task's mappings and page map agree, and no frame is lost or used      *)
(* twice while it lives, for any layout, page size, number of table        *)
(* levels, frames and arguments of the calls.                              *)
(*                                                                         *)
(* A space is a page map, its tables and pmm's frames; in a sound one      *)
(* every frame is at one place (Sound).  The first half follows a space    *)
(* through a call: one table, the tables of a page, a page, a run of pages *)
(* with given frames (Ran), a run with fresh ones and its roll-back        *)
(* (Backed), pages given back (Released).  Runs are recursive functions,   *)
(* so each is shown to exist and to go step by step before it is used.     *)
(* The second half turns bytes into pages, shows that what FixedAt and     *)
(* Anywhere grant is apart from everything else (Room), and takes the      *)
(* invariant through the calls.                                            *)
(***************************************************************************)
EXTENDS TaskMem, ListFacts, TLAPS

-----------------------------------------------------------------------------
(* Spaces, and what the operations on them keep.                            *)

UserPages == 0..(USER_VA_END \div PageSize)
PMaps     == UNION { [D -> Frames \cup {StackFrame}] : D \in SUBSET UserPages }
TMaps     == UNION { [D -> Frames] : D \in SUBSET (Nat \X Nat) }
Spaces    == [pmap : PMaps, tables : TMaps, free : SUBSET Frames, ok : BOOLEAN]

\* Every frame is free, a table, or mapped, and at one place.
Sound(s) ==
  /\ s \in Spaces
  /\ \A p \in DOMAIN s.pmap : p \in Stack <=> s.pmap[p] = StackFrame
  /\ \A p, q \in DOMAIN s.pmap : p \notin Stack /\ q \notin Stack /\ s.pmap[p] = s.pmap[q] => p = q
  /\ \A p \in DOMAIN s.pmap : s.pmap[p] \notin s.free
  /\ \A t \in DOMAIN s.tables : s.tables[t] \notin s.free
  /\ \A t \in DOMAIN s.tables, p \in DOMAIN s.pmap : s.pmap[p] # s.tables[t]
  /\ \A t, u \in DOMAIN s.tables : s.tables[t] = s.tables[u] => t = u

\* The frames pmm has, and those of the tables.
Stock(s) == s.free \cup Range(s.tables)

\* What the constants are.
LEMMA Facts ==
  /\ Frames \subseteq Nat /\ StackFrame \notin Frames
  /\ PageSize \in Nat /\ PageSize > 0 /\ Word \in Nat
  /\ Spans \in Seq(Nat \ {0}) /\ Len(Spans) \in Nat /\ \A l \in 1..Len(Spans) : Spans[l] \in Nat \ {0}
<1>1. Frames \subseteq Nat
  BY LayoutAssumption, Zenon
<1>2. PageSize \in Nat \ {0} /\ Word \in Nat
  BY LayoutAssumption, Zenon
<1>3. Spans \in Seq(Nat \ {0})
  BY LayoutAssumption, Zenon
<1>4. StackFrame \notin Frames
  BY <1>1 DEF StackFrame
<1>5. Len(Spans) \in Nat /\ \A l \in 1..Len(Spans) : Spans[l] \in Nat \ {0}
  BY <1>3
<1> QED BY <1>1, <1>2, <1>3, <1>4, <1>5

\* A page map is its entries ...
LEMMA PMapsAre ==
  ASSUME NEW f
  PROVE  f \in PMaps <=> /\ f = [p \in DOMAIN f |-> f[p]] /\ DOMAIN f \subseteq UserPages
                         /\ \A p \in DOMAIN f : f[p] \in Frames \cup {StackFrame}
<1>1. ASSUME f \in PMaps
      PROVE  /\ f = [p \in DOMAIN f |-> f[p]] /\ DOMAIN f \subseteq UserPages
             /\ \A p \in DOMAIN f : f[p] \in Frames \cup {StackFrame}
  <2>1. PICK D \in SUBSET UserPages : f \in [D -> Frames \cup {StackFrame}]
    BY <1>1 DEF PMaps
  <2> QED BY <2>1
<1>2. ASSUME f = [p \in DOMAIN f |-> f[p]] /\ DOMAIN f \subseteq UserPages,
             \A p \in DOMAIN f : f[p] \in Frames \cup {StackFrame}
      PROVE  f \in PMaps
  <2>1. f \in [DOMAIN f -> Frames \cup {StackFrame}] /\ DOMAIN f \in SUBSET UserPages
    BY <1>2
  <2> QED BY <2>1 DEF PMaps
<1> QED BY <1>1, <1>2

\* ... and so are the tables.
LEMMA TMapsAre ==
  ASSUME NEW f
  PROVE  f \in TMaps <=> /\ f = [t \in DOMAIN f |-> f[t]] /\ DOMAIN f \subseteq Nat \X Nat
                         /\ \A t \in DOMAIN f : f[t] \in Frames
<1>1. ASSUME f \in TMaps
      PROVE  /\ f = [t \in DOMAIN f |-> f[t]] /\ DOMAIN f \subseteq Nat \X Nat
             /\ \A t \in DOMAIN f : f[t] \in Frames
  <2>1. PICK D \in SUBSET (Nat \X Nat) : f \in [D -> Frames]
    BY <1>1 DEF TMaps
  <2> QED BY <2>1
<1>2. ASSUME f = [t \in DOMAIN f |-> f[t]] /\ DOMAIN f \subseteq Nat \X Nat,
             \A t \in DOMAIN f : f[t] \in Frames
      PROVE  f \in TMaps
  <2>1. f \in [DOMAIN f -> Frames] /\ DOMAIN f \in SUBSET (Nat \X Nat)
    BY <1>2
  <2> QED BY <2>1 DEF TMaps
<1> QED BY <1>1, <1>2

\* Setting an entry.
LEMMA PutIs ==
  ASSUME NEW g, NEW x, NEW v, NEW h, h = Put(g, x, v)
  PROVE  /\ h = [y \in DOMAIN h |-> h[y]] /\ DOMAIN h = DOMAIN g \cup {x}
         /\ \A y \in DOMAIN g : y # x => h[y] = g[y]
         /\ h[x] = v
BY DEF Put

\* A space is its four parts.
LEMMA SpacesAre ==
  ASSUME NEW s \in Spaces
  PROVE  /\ s.pmap \in PMaps /\ s.tables \in TMaps /\ s.free \subseteq Frames /\ s.ok \in BOOLEAN
         /\ s = [pmap |-> s.pmap, tables |-> s.tables, free |-> s.free, ok |-> s.ok]
BY DEF Spaces

\* pmm gives a frame it has.
LEMMA Given ==
  ASSUME NEW F \in SUBSET Frames, F # {}
  PROVE  Min(F) \in F /\ Min(F) \in Frames
BY Facts, MinOf

\* A space with one more table.
WithTable(s, t, f) == [pmap |-> s.pmap, tables |-> Put(s.tables, t, f), free |-> s.free \ {f}, ok |-> s.ok]
Failed(s) == [pmap |-> s.pmap, tables |-> s.tables, free |-> s.free, ok |-> FALSE]

\* AddTable in plain records.
LEMMA AddTableIs ==
  ASSUME NEW s \in Spaces, NEW t
  PROVE  AddTable(s, t) = IF t \in DOMAIN s.tables \/ ~s.ok THEN s
                          ELSE IF s.free = {} THEN Failed(s) ELSE WithTable(s, t, Min(s.free))
<1>1. s = [pmap |-> s.pmap, tables |-> s.tables, free |-> s.free, ok |-> s.ok]
  BY SpacesAre
<1> DEFINE r == AddTable(s, t)
<1>2. CASE t \in DOMAIN s.tables \/ ~s.ok
  BY <1>2 DEF AddTable
<1>3. CASE ~(t \in DOMAIN s.tables \/ ~s.ok) /\ s.free = {}
  <2>1. r = [s EXCEPT !.ok = FALSE]
    BY <1>3 DEF AddTable
  <2> HIDE DEF r
  <2>2. r = Failed(s)
    BY <1>1, <2>1 DEF Failed
  <2> QED BY <1>3, <2>2 DEF r
<1>4. CASE ~(t \in DOMAIN s.tables \/ ~s.ok) /\ s.free # {}
  <2> DEFINE f == Min(s.free)
             T == Put(s.tables, t, f)
             F == s.free \ {f}
  <2>1. r = [s EXCEPT !.tables = Put(@, t, Min(s.free)), !.free = @ \ {Min(s.free)}]
    BY <1>4 DEF AddTable
  <2>2. r = [s EXCEPT !.tables = T, !.free = F]
    BY <2>1
  <2> HIDE DEF r, T, F
  <2>3. r = [pmap |-> s.pmap, tables |-> T, free |-> F, ok |-> s.ok]
    BY <1>1, <2>2
  <2>4. r = WithTable(s, t, f)
    BY <2>3 DEF WithTable, T, F
  <2> HIDE DEF f
  <2> QED BY <1>4, <2>4 DEF r, f
<1> QED BY <1>2, <1>3, <1>4

\* A table that takes a free frame leaves every frame at one place.
LEMMA WithTableSound ==
  ASSUME NEW s, Sound(s), NEW t \in Nat \X Nat, t \notin DOMAIN s.tables, NEW f \in s.free
  PROVE  /\ Sound(WithTable(s, t, f)) /\ Stock(WithTable(s, t, f)) = Stock(s)
<1> DEFINE T == Put(s.tables, t, f)
           r == WithTable(s, t, f)
<1>1. /\ s \in Spaces /\ s.pmap \in PMaps /\ s.tables \in TMaps /\ s.free \subseteq Frames /\ s.ok \in BOOLEAN
  BY SpacesAre DEF Sound
<1>2. /\ T = [y \in DOMAIN T |-> T[y]] /\ DOMAIN T = DOMAIN s.tables \cup {t}
      /\ \A y \in DOMAIN s.tables : T[y] = s.tables[y]
      /\ T[t] = f
  BY DEF Put
<1>3. r.pmap = s.pmap /\ r.tables = T /\ r.free = s.free \ {f} /\ r.ok = s.ok
  BY DEF WithTable
<1> HIDE DEF T
<1>4. T \in TMaps
  BY <1>1, <1>2, TMapsAre
<1>5. r \in Spaces
  BY <1>1, <1>4 DEF WithTable, Spaces, T
<1> HIDE DEF r
<1>6. Sound(r)
  BY <1>1, <1>2, <1>3, <1>5 DEF Sound
<1>7. Range(T) = Range(s.tables) \cup {f}
  BY <1>2 DEF Range
<1>8. Stock(r) = Stock(s)
  BY <1>3, <1>7 DEF Stock
<1> QED BY <1>6, <1>8 DEF r

\* AddTable makes a space.
LEMMA AddTableType ==
  ASSUME NEW s \in Spaces, NEW t \in Nat \X Nat
  PROVE  AddTable(s, t) \in Spaces
<1>1. s.pmap \in PMaps /\ s.tables \in TMaps /\ s.free \subseteq Frames /\ s.ok \in BOOLEAN
  BY SpacesAre
<1>2. Failed(s) \in Spaces
  BY <1>1 DEF Failed, Spaces
<1>3. ASSUME s.free # {} PROVE WithTable(s, t, Min(s.free)) \in Spaces
  <2> DEFINE f == Min(s.free)
             T == Put(s.tables, t, f)
  <2>1. f \in Frames
    BY <1>1, <1>3, Given
  <2> HIDE DEF f
  <2>2. /\ T = [y \in DOMAIN T |-> T[y]] /\ DOMAIN T = DOMAIN s.tables \cup {t}
        /\ \A y \in DOMAIN T : T[y] = f \/ (y \in DOMAIN s.tables /\ T[y] = s.tables[y])
    BY DEF Put
  <2> HIDE DEF T
  <2>3. T \in TMaps
    BY <1>1, <2>1, <2>2, TMapsAre
  <2>4. WithTable(s, t, f) \in Spaces
    BY <1>1, <2>3 DEF WithTable, Spaces, T
  <2> QED BY <2>4 DEF f
<1> QED BY <1>2, <1>3, AddTableIs

\* What making tables keeps.
Stocked(s, r) ==
  /\ Sound(r) /\ r.pmap = s.pmap /\ Stock(r) = Stock(s) /\ r.free \subseteq s.free
  /\ (r.ok => s.ok)

\* AddTable keeps a space sound, with or without a frame for the table.
LEMMA AddTableSound ==
  ASSUME NEW s, Sound(s), NEW t \in Nat \X Nat
  PROVE  Stocked(s, AddTable(s, t))
<1>1. s \in Spaces /\ s.free \subseteq Frames
  BY SpacesAre DEF Sound
<1>2. Stocked(s, s)
  BY DEF Stocked
<1>3. Stocked(s, Failed(s))
  <2>1. Failed(s) \in Spaces
    BY <1>1, SpacesAre DEF Failed, Spaces
  <2>2. /\ Failed(s).pmap = s.pmap /\ Failed(s).tables = s.tables /\ Failed(s).free = s.free
        /\ Failed(s).ok = FALSE
    BY DEF Failed
  <2> QED BY <2>1, <2>2 DEF Stocked, Sound, Stock
<1>4. ASSUME t \notin DOMAIN s.tables, s.free # {} PROVE Stocked(s, WithTable(s, t, Min(s.free)))
  <2> DEFINE f == Min(s.free)
  <2>1. f \in s.free
    BY <1>1, <1>4, Given
  <2> HIDE DEF f
  <2>2. Sound(WithTable(s, t, f)) /\ Stock(WithTable(s, t, f)) = Stock(s)
    BY <1>4, <2>1, WithTableSound
  <2>3. /\ WithTable(s, t, f).pmap = s.pmap /\ WithTable(s, t, f).free = s.free \ {f}
        /\ WithTable(s, t, f).ok = s.ok
    BY DEF WithTable
  <2>4. Stocked(s, WithTable(s, t, f))
    BY <2>2, <2>3 DEF Stocked
  <2> QED BY <2>4 DEF f
<1> QED BY <1>1, <1>2, <1>3, <1>4, AddTableIs

\* The tables of a page, made from the root down.
TableOf(page, l) == <<Spans[l], page \div Spans[l]>>
MadeBy(f, s, page) ==
  [l \in 0..Len(Spans) |-> IF l = 0 THEN s ELSE AddTable(f[l - 1], TableOf(page, l))]
Made(s, page) == CHOOSE f : f = MadeBy(f, s, page)

\* The key of a table.
LEMMA TableOfType ==
  ASSUME NEW page \in Nat, NEW l \in 1..Len(Spans)
  PROVE  TableOf(page, l) \in Nat \X Nat
<1>1. Spans[l] \in Nat /\ Spans[l] > 0
  BY Facts
<1> DEFINE n == Spans[l]
<1> HIDE DEF n
<1>2. n \in Nat /\ n > 0
  BY <1>1 DEF n
<1>3. page \div n \in Nat
  BY <1>2
<1> QED BY <1>2, <1>3 DEF TableOf, n

\* vmm_map makes the tables level by level.
LEMMA MadeExact ==
  ASSUME NEW s \in Spaces, NEW page \in Nat
  PROVE  /\ Made(s, page) = MadeBy(Made(s, page), s, page)
         /\ Made(s, page)[Len(Spans)] \in Spaces
<1> DEFINE n == Len(Spans)
           t == [x \in Spaces \X Nat |-> IF x[2] \in 1..n THEN AddTable(x[1], TableOf(page, x[2])) ELSE x[1]]
<1>0. n \in Nat
  BY Facts
<1>1. t \in [Spaces \X Nat -> Spaces]
  BY AddTableType, TableOfType
<1>2. \A y \in Spaces, i \in 1..n : t[<<y, i>>] = AddTable(y, TableOf(page, i))
  BY <1>0
<1> HIDE DEF t, n
<1>s. PICK f : Stepwise(f, Spaces, s, t, n)
  BY <1>0, <1>1, StepsExist
<1>3. f \in [0..n -> Spaces] /\ f[0] = s /\ \A i \in 1..n : f[i] = t[<<f[i - 1], i>>]
  BY <1>s DEF Stepwise
<1>4. ASSUME NEW i \in 1..n PROVE f[i] = AddTable(f[i - 1], TableOf(page, i))
  <2>1. f[i - 1] \in Spaces /\ f[i] = t[<<f[i - 1], i>>]
    BY <1>0, <1>3
  <2> QED BY <1>2, <2>1
<1>5. f = MadeBy(f, s, page)
  <2>1. f = [i \in 0..n |-> f[i]]
    BY <1>3
  <2>2. \A i \in 0..n : f[i] = IF i = 0 THEN s ELSE AddTable(f[i - 1], TableOf(page, i))
    BY <1>0, <1>3, <1>4
  <2> QED BY <2>1, <2>2 DEF MadeBy, n
<1>6. Made(s, page) = MadeBy(Made(s, page), s, page)
  BY <1>5, Zenon DEF Made
<1> DEFINE g == Made(s, page)
<1> HIDE DEF g
<1>7. DOMAIN g = 0..n /\ g[0] = s /\ \A i \in 1..n : g[i] = AddTable(g[i - 1], TableOf(page, i))
  BY <1>0, <1>6 DEF MadeBy, g, n
<1> DEFINE P == { k \in 0..n : g[k] \in Spaces }
<1>8. 0 \in P
  BY <1>0, <1>7
<1>9. ASSUME NEW i \in 1..n, i - 1 \in P PROVE i \in P
  <2>1. TableOf(page, i) \in Nat \X Nat
    BY TableOfType DEF n
  <2> QED BY <1>7, <1>9, <2>1, AddTableType
<1> HIDE DEF P
<1>10. n \in P
  BY <1>0, <1>8, <1>9, StepsKeep
<1> QED BY <1>0, <1>6, <1>10 DEF g, n, P

\* The tables of a page are made without losing a frame.
LEMMA MadeSound ==
  ASSUME NEW s, Sound(s), NEW page \in Nat
  PROVE  Stocked(s, Made(s, page)[Len(Spans)])
<1> DEFINE n == Len(Spans)
           g == Made(s, page)
           P == { k \in 0..n : Stocked(s, g[k]) }
<1>0. n \in Nat
  BY Facts
<1>1. g = MadeBy(g, s, page)
  BY MadeExact DEF Sound
<1> HIDE DEF g, n
<1>2. g[0] = s /\ \A i \in 1..n : g[i] = AddTable(g[i - 1], TableOf(page, i))
  BY <1>0, <1>1 DEF MadeBy, n
<1>3. 0 \in P
  BY <1>0, <1>2 DEF Stocked
<1>4. ASSUME NEW i \in 1..n, i - 1 \in P PROVE i \in P
  <2>1. Stocked(s, g[i - 1]) /\ Sound(g[i - 1])
    BY <1>4 DEF Stocked
  <2>2. Stocked(g[i - 1], g[i])
    BY <1>2, <2>1, AddTableSound, TableOfType DEF n
  <2>3. Stocked(s, g[i])
    BY <2>1, <2>2 DEF Stocked
  <2> QED BY <1>0, <2>3
<1> HIDE DEF P
<1>5. n \in P
  BY <1>0, <1>3, <1>4, StepsKeep
<1> QED BY <1>5 DEF P, g, n

\* A space with one more page.
WithPage(s, page, f) ==
  [pmap |-> Put(s.pmap, page, f), tables |-> s.tables, free |-> s.free, ok |-> s.ok]

\* vmm_map sets the entry if it got its tables.
LEMMA vmm_mapIs ==
  ASSUME NEW s \in Spaces, NEW page \in Nat, NEW f
  PROVE  vmm_map(s, page, f) = LET t == Made(s, page)[Len(Spans)]
                               IN  IF t.ok THEN WithPage(t, page, f) ELSE t
<1> DEFINE t == Made(s, page)[Len(Spans)]
           z == [t EXCEPT !.pmap = Put(@, page, f)]
<1>1. vmm_map(s, page, f) = IF t.ok THEN z ELSE t
  BY Zenon DEF vmm_map, Made, MadeBy, TableOf
<1>2. t \in Spaces
  BY MadeExact
<1> HIDE DEF t
<1>3. t = [pmap |-> t.pmap, tables |-> t.tables, free |-> t.free, ok |-> t.ok]
  BY <1>2, SpacesAre
<1>4. z = WithPage(t, page, f)
  <2> DEFINE T == Put(t.pmap, page, f)
  <2>1. z = [t EXCEPT !.pmap = T]
    OBVIOUS
  <2> HIDE DEF z, T
  <2>2. z = [pmap |-> T, tables |-> t.tables, free |-> t.free, ok |-> t.ok]
    BY <1>3, <2>1
  <2> QED BY <2>2 DEF WithPage, T
<1> HIDE DEF z
<1> QED BY <1>1, <1>4 DEF t

\* Setting a user page's entry makes a space.
LEMMA WithPageType ==
  ASSUME NEW s \in Spaces, NEW page \in UserPages, NEW f \in Frames \cup {StackFrame}
  PROVE  WithPage(s, page, f) \in Spaces
<1> DEFINE T == Put(s.pmap, page, f)
<1>1. s.pmap \in PMaps /\ s.tables \in TMaps /\ s.free \subseteq Frames /\ s.ok \in BOOLEAN
  BY SpacesAre
<1>2. /\ T = [y \in DOMAIN T |-> T[y]] /\ DOMAIN T = DOMAIN s.pmap \cup {page}
      /\ \A y \in DOMAIN T : T[y] = f \/ (y \in DOMAIN s.pmap /\ T[y] = s.pmap[y])
  BY DEF Put
<1> HIDE DEF T
<1>3. T \in PMaps
  BY <1>1, <1>2, PMapsAre
<1> QED BY <1>1, <1>3 DEF WithPage, Spaces, T

\* Pages of the user half are numbers.
LEMMA UserPagesType == UserPages \subseteq Nat
BY DEF UserPages

\* vmm_map makes a space.
LEMMA vmm_mapType ==
  ASSUME NEW s \in Spaces, NEW page \in UserPages, NEW f \in Frames \cup {StackFrame}
  PROVE  vmm_map(s, page, f) \in Spaces
<1>1. page \in Nat
  BY UserPagesType
<1>2. Made(s, page)[Len(Spans)] \in Spaces
  BY <1>1, MadeExact
<1> QED BY <1>1, <1>2, vmm_mapIs, WithPageType

\* What a page may be mapped to in a space.
Fits(s, page, f) ==
  /\ page \in UserPages
  /\ \/ page \in Stack /\ f = StackFrame
     \/ /\ page \notin Stack /\ f \in Frames /\ f \notin Stock(s)
        /\ \A p \in DOMAIN s.pmap : s.pmap[p] # f

\* What vmm_map does to a space.
Entered(s, r, page, f) ==
  /\ Sound(r) /\ Stock(r) = Stock(s) /\ r.free \subseteq s.free /\ (r.ok => s.ok)
  /\ \A p \in DOMAIN s.pmap : p # page => p \in DOMAIN r.pmap /\ r.pmap[p] = s.pmap[p]
  /\ IF r.ok THEN page \in DOMAIN r.pmap /\ r.pmap[page] = f /\ DOMAIN r.pmap = DOMAIN s.pmap \cup {page}
     ELSE r.pmap = s.pmap

\* Setting an entry to a frame that is nowhere else keeps a space sound.
LEMMA WithPageSound ==
  ASSUME NEW s, Sound(s), NEW page, NEW f, Fits(s, page, f), s.ok
  PROVE  Entered(s, WithPage(s, page, f), page, f)
<1> DEFINE T == Put(s.pmap, page, f)
           r == WithPage(s, page, f)
<1>1. s \in Spaces /\ s.pmap \in PMaps
  BY SpacesAre DEF Sound
<1>2. /\ DOMAIN T = DOMAIN s.pmap \cup {page}
      /\ \A y \in DOMAIN s.pmap : y # page => T[y] = s.pmap[y]
      /\ T[page] = f
  BY DEF Put
<1>3. r.pmap = T /\ r.tables = s.tables /\ r.free = s.free /\ r.ok = s.ok
  BY DEF WithPage
<1>4. r \in Spaces
  BY <1>1, WithPageType DEF Fits
<1> HIDE DEF T, r
<1>5. /\ page \in Stack <=> f = StackFrame
      /\ f \notin s.free /\ \A t \in DOMAIN s.tables : f # s.tables[t]
      /\ page \notin Stack => \A p \in DOMAIN s.pmap : s.pmap[p] # f
  <2>1. CASE page \in Stack /\ f = StackFrame
    <3>1. s.free \subseteq Frames /\ \A t \in DOMAIN s.tables : s.tables[t] \in Frames
      BY <1>1, SpacesAre, TMapsAre
    <3> QED BY <2>1, <3>1, Facts
  <2>2. CASE page \notin Stack /\ f \in Frames /\ f \notin Stock(s) /\ \A p \in DOMAIN s.pmap : s.pmap[p] # f
    BY <2>2, Facts DEF Stock, Range
  <2> QED BY <2>1, <2>2 DEF Fits
<1>6. Sound(r)
  <2>1. \A p \in DOMAIN T : p \in Stack <=> T[p] = StackFrame
    BY <1>2, <1>5 DEF Sound
  <2>2. \A p, q \in DOMAIN T : p \notin Stack /\ q \notin Stack /\ T[p] = T[q] => p = q
    BY <1>2, <1>5 DEF Sound
  <2>3. \A p \in DOMAIN T : T[p] \notin s.free
    BY <1>2, <1>5 DEF Sound
  <2>4. \A t \in DOMAIN s.tables, p \in DOMAIN T : T[p] # s.tables[t]
    BY <1>2, <1>5 DEF Sound
  <2> QED BY <1>3, <1>4, <2>1, <2>2, <2>3, <2>4 DEF Sound
<1>7. Stock(r) = Stock(s)
  BY <1>3 DEF Stock
<1> QED BY <1>2, <1>3, <1>6, <1>7 DEF Entered, r

\* vmm_map of such a frame keeps a space sound, also when a table is refused.
LEMMA vmm_mapSound ==
  ASSUME NEW s, Sound(s), NEW page, NEW f, Fits(s, page, f)
  PROVE  Entered(s, vmm_map(s, page, f), page, f)
<1> DEFINE t == Made(s, page)[Len(Spans)]
<1>1. page \in Nat /\ s \in Spaces
  BY UserPagesType DEF Fits, Sound
<1>2. Stocked(s, t)
  BY <1>1, MadeSound
<1>3. vmm_map(s, page, f) = IF t.ok THEN WithPage(t, page, f) ELSE t
  BY <1>1, vmm_mapIs
<1> HIDE DEF t
<1>4. CASE ~t.ok
  BY <1>2, <1>3, <1>4 DEF Stocked, Entered
<1>5. CASE t.ok
  <2>1. Fits(t, page, f) /\ Sound(t)
    BY <1>2 DEF Fits, Stocked
  <2>2. Entered(t, WithPage(t, page, f), page, f)
    BY <1>5, <2>1, WithPageSound
  <2>3. Entered(s, WithPage(t, page, f), page, f)
    BY <1>2, <2>2, <1>5 DEF Stocked, Entered
  <2> QED BY <1>3, <1>5, <2>3
<1> QED BY <1>4, <1>5

\* A run of pages mapped one after the other.
RunBy(g, s, from, frames) ==
  [i \in 0..Len(frames) |-> IF i = 0 THEN s ELSE vmm_map(g[i - 1], from + i - 1, frames[i])]
RunOf(s, from, frames) == CHOOSE g : g = RunBy(g, s, from, frames)

IsRun(g, s, from, frames, n) ==
  /\ Len(frames) = n /\ g[0] = s
  /\ \A i \in 1..n : g[i] = vmm_map(g[i - 1], from + i - 1, frames[i])
UserRun(from, n) == \A i \in 1..n : from + i - 1 \in UserPages

\* A run is mapped page by page.
LEMMA RunExact ==
  ASSUME NEW s \in Spaces, NEW from \in Nat, NEW n \in Nat,
         NEW frames \in [1..n -> Frames \cup {StackFrame}],
         UserRun(from, n)
  PROVE  IsRun(RunOf(s, from, frames), s, from, frames, n)
<1> DEFINE t == [x \in Spaces \X Nat |->
                   IF x[2] \in 1..n THEN vmm_map(x[1], from + x[2] - 1, frames[x[2]]) ELSE x[1]]
<1>0. Len(frames) = n
  OBVIOUS
<1>1. t \in [Spaces \X Nat -> Spaces]
  <2>1. ASSUME NEW x \in Spaces \X Nat, x[2] \in 1..n PROVE vmm_map(x[1], from + x[2] - 1, frames[x[2]]) \in Spaces
    BY <2>1, vmm_mapType DEF UserRun
  <2> QED BY <2>1
<1>2. \A y \in Spaces, i \in 1..n : t[<<y, i>>] = vmm_map(y, from + i - 1, frames[i])
  OBVIOUS
<1> HIDE DEF t
<1>3. PICK f : Stepwise(f, Spaces, s, t, n)
  BY <1>1, StepsExist
<1>4. f \in [0..n -> Spaces] /\ f[0] = s /\ \A i \in 1..n : f[i] = t[<<f[i - 1], i>>]
  BY <1>3 DEF Stepwise
<1>5. ASSUME NEW i \in 1..n PROVE f[i] = vmm_map(f[i - 1], from + i - 1, frames[i])
  <2>1. f[i - 1] \in Spaces /\ f[i] = t[<<f[i - 1], i>>]
    BY <1>4
  <2> QED BY <1>2, <2>1
<1>6. f = RunBy(f, s, from, frames)
  <2>1. f = [i \in 0..n |-> f[i]]
    BY <1>4
  <2>2. ASSUME NEW i \in 0..n
        PROVE  f[i] = IF i = 0 THEN s ELSE vmm_map(f[i - 1], from + i - 1, frames[i])
    <3>1. CASE i = 0
      BY <1>4, <3>1
    <3>2. CASE i # 0
      <4>1. i \in 1..n
        BY <3>2
      <4> QED BY <1>5, <3>2, <4>1
    <3> QED BY <3>1, <3>2
  <2> QED BY <1>0, <2>1, <2>2 DEF RunBy
<1>7. RunOf(s, from, frames) = RunBy(RunOf(s, from, frames), s, from, frames)
  BY <1>6, Zenon DEF RunOf
<1> DEFINE g == RunOf(s, from, frames)
<1> HIDE DEF g
<1>8. DOMAIN g = 0..n /\ g[0] = s /\ \A i \in 1..n : g[i] = vmm_map(g[i - 1], from + i - 1, frames[i])
  BY <1>0, <1>7 DEF RunBy, g
<1> QED BY <1>0, <1>8 DEF g, IsRun

\* What a run of pages does to a space; the first k of them.
Ran(s, r, from, frames, k) ==
  /\ Sound(r) /\ Stock(r) = Stock(s) /\ r.free \subseteq s.free /\ (r.ok => s.ok)
  /\ \A p \in DOMAIN r.pmap : \/ p \in DOMAIN s.pmap /\ r.pmap[p] = s.pmap[p]
                              \/ \E i \in 1..k : p = from + i - 1 /\ r.pmap[p] = frames[i]
  /\ r.ok => DOMAIN r.pmap = DOMAIN s.pmap \cup (from..(from + k - 1))

\* Mapping a run to frames that are nowhere else keeps a space sound.
LEMMA MapRunSound ==
  ASSUME NEW s, Sound(s), NEW from \in Nat, NEW n \in Nat,
         NEW frames \in [1..n -> Frames \cup {StackFrame}],
         \A i \in 1..n : Fits(s, from + i - 1, frames[i]),
         \A i, j \in 1..n : i # j /\ frames[i] = frames[j] => frames[i] = StackFrame
  PROVE  Ran(s, MapRun(s, from, frames), from, frames, n)
<1> DEFINE g == RunOf(s, from, frames)
           P == { k \in 0..n : Ran(s, g[k], from, frames, k) }
<1>1. Len(frames) = n /\ g[0] = s /\ \A i \in 1..n : g[i] = vmm_map(g[i - 1], from + i - 1, frames[i])
  <2>1. s \in Spaces /\ UserRun(from, n)
    BY DEF Sound, Fits, UserRun
  <2>2. IsRun(g, s, from, frames, n)
    BY <2>1, RunExact
  <2> HIDE DEF g
  <2> QED BY <2>2 DEF IsRun
<1>2. MapRun(s, from, frames) = g[Len(frames)]
  BY Zenon DEF MapRun, RunOf, RunBy
<1> HIDE DEF g
<1>3. 0 \in P
  BY <1>1 DEF Ran
<1>4. ASSUME NEW k \in 1..n, k - 1 \in P PROVE k \in P
  <2> DEFINE q == from + k - 1
  <2>1. Ran(s, g[k - 1], from, frames, k - 1)
    BY <1>4
  <2>2. Fits(s, q, frames[k])
    OBVIOUS
  <2>3. Fits(g[k - 1], q, frames[k])
    <3>1. ASSUME NEW p \in DOMAIN g[k - 1].pmap, q \notin Stack PROVE g[k - 1].pmap[p] # frames[k]
      <4>1. CASE p \in DOMAIN s.pmap /\ g[k - 1].pmap[p] = s.pmap[p]
        BY <2>2, <3>1, <4>1, Facts DEF Fits
      <4>2. CASE \E i \in 1..(k - 1) : p = from + i - 1 /\ g[k - 1].pmap[p] = frames[i]
        <5>1. PICK i \in 1..(k - 1) : g[k - 1].pmap[p] = frames[i]
          BY <4>2
        <5>2. frames[k] # StackFrame
          BY <2>2, <3>1, Facts DEF Fits
        <5>3. i \in 1..n /\ i # k
          OBVIOUS
        <5> QED BY <5>1, <5>2, <5>3
      <4> QED BY <2>1, <4>1, <4>2 DEF Ran
    <3> QED BY <2>1, <2>2, <3>1 DEF Fits, Ran
  <2>4. Entered(g[k - 1], g[k], q, frames[k])
    BY <1>1, <2>1, <2>3, vmm_mapSound DEF Ran
  <2>5. ASSUME NEW p \in DOMAIN g[k].pmap
        PROVE  \/ p \in DOMAIN s.pmap /\ g[k].pmap[p] = s.pmap[p]
               \/ \E i \in 1..k : p = from + i - 1 /\ g[k].pmap[p] = frames[i]
    <3>1. CASE p = q /\ g[k].pmap[p] = frames[k]
      BY <3>1
    <3>2. CASE p \in DOMAIN g[k - 1].pmap /\ g[k].pmap[p] = g[k - 1].pmap[p]
      <4>1. \/ p \in DOMAIN s.pmap /\ g[k].pmap[p] = s.pmap[p]
            \/ \E i \in 1..(k - 1) : p = from + i - 1 /\ g[k].pmap[p] = frames[i]
        BY <2>1, <3>2 DEF Ran
      <4>2. \A i \in 1..(k - 1) : i \in 1..k
        OBVIOUS
      <4> QED BY <4>1, <4>2
    <3> HIDE DEF q
    <3> QED BY <2>4, <3>1, <3>2 DEF Entered
  <2>6. g[k].ok => DOMAIN g[k].pmap = DOMAIN s.pmap \cup (from..(from + k - 1))
    <3>1. from..(from + k - 1) = (from..(from + (k - 1) - 1)) \cup {q}
      OBVIOUS
    <3> HIDE DEF q
    <3> QED BY <2>1, <2>4, <3>1 DEF Entered, Ran
  <2> HIDE DEF q
  <2>7. Ran(s, g[k], from, frames, k)
    BY <2>1, <2>4, <2>5, <2>6 DEF Entered, Ran
  <2> QED BY <2>7
<1> HIDE DEF P
<1>5. \A i \in 0..n : i \in P
  <2>1. \A i \in 1..n : i - 1 \in P => i \in P
    BY <1>4
  <2> QED BY <1>3, <2>1, StepsKeep
<1> QED BY <1>1, <1>2, <1>5 DEF P

\* All the frames of a space.
All(s) == Stock(s) \cup Range(s.pmap)

\* What giving mapped pages back does.
Released(s, r, pages) ==
  /\ Sound(r) /\ r.ok = s.ok /\ All(r) = All(s)
  /\ DOMAIN r.pmap = DOMAIN s.pmap \ pages /\ \A p \in DOMAIN r.pmap : r.pmap[p] = s.pmap[p]

\* Giving mapped pages back keeps a space sound and loses no frame.
LEMMA ReleaseSound ==
  ASSUME NEW s, Sound(s), NEW pages, pages \subseteq DOMAIN s.pmap, pages \cap Stack = {}
  PROVE  Released(s, Release(s, pages), pages)
<1> DEFINE r == Release(s, pages)
           T == Restrict(s.pmap, DOMAIN s.pmap \ pages)
           F == s.free \cup { s.pmap[p] : p \in pages }
<1>1. /\ s \in Spaces /\ s.pmap \in PMaps /\ s.tables \in TMaps /\ s.free \subseteq Frames /\ s.ok \in BOOLEAN
      /\ s = [pmap |-> s.pmap, tables |-> s.tables, free |-> s.free, ok |-> s.ok]
  BY SpacesAre DEF Sound
<1>2. r = [s EXCEPT !.free = F, !.pmap = T]
  BY <1>1 DEF Release
<1>3. /\ DOMAIN T = DOMAIN s.pmap \ pages /\ T = [p \in DOMAIN T |-> T[p]]
      /\ \A p \in DOMAIN T : p \in DOMAIN s.pmap /\ T[p] = s.pmap[p]
  BY DEF Restrict
<1>4. \A p \in DOMAIN s.pmap : p \in UserPages /\ (p \notin Stack => s.pmap[p] \in Frames)
  BY <1>1, PMapsAre DEF Sound
<1>5. F \subseteq Frames
  BY <1>1, <1>4
<1>6. \A x \in F : x \in s.free \/ \E p \in pages : x = s.pmap[p]
  OBVIOUS
<1>7. Range(T) \cup F = Range(s.pmap) \cup s.free
  <2>1. \A p \in DOMAIN s.pmap : p \in pages \/ p \in DOMAIN T
    BY <1>3
  <2>2. \A p \in pages : p \in DOMAIN s.pmap
    OBVIOUS
  <2> QED BY <1>3, <2>1, <2>2 DEF Range
<1> HIDE DEF r, T, F
<1>8. r = [pmap |-> T, tables |-> s.tables, free |-> F, ok |-> s.ok]
  BY <1>1, <1>2
<1>9. T \in PMaps
  BY <1>1, <1>3, <1>4, PMapsAre
<1>10. r \in Spaces
  BY <1>1, <1>5, <1>8, <1>9 DEF Spaces
<1>11. r.pmap = T /\ r.tables = s.tables /\ r.free = F /\ r.ok = s.ok
  BY <1>8
<1>12. Sound(r)
  <2>1. \A p \in DOMAIN T : p \in Stack <=> T[p] = StackFrame
    BY <1>3 DEF Sound
  <2>2. \A p, q \in DOMAIN T : p \notin Stack /\ q \notin Stack /\ T[p] = T[q] => p = q
    BY <1>3 DEF Sound
  <2>3. ASSUME NEW p \in DOMAIN T PROVE T[p] \notin F
    <3>1. p \notin pages /\ p \in DOMAIN s.pmap /\ T[p] = s.pmap[p]
      BY <1>3
    <3>2. CASE p \in Stack
      BY <1>5, <2>1, <3>2, Facts
    <3>3. CASE p \notin Stack
      <4>1. \A q \in pages : q \in DOMAIN s.pmap /\ q \notin Stack /\ q # p
        BY <3>1
      <4>2. \A q \in pages : s.pmap[q] # s.pmap[p]
        BY <3>1, <3>3, <4>1 DEF Sound
      <4> QED BY <1>6, <3>1, <4>2 DEF Sound
    <3> QED BY <3>2, <3>3
  <2>4. ASSUME NEW t \in DOMAIN s.tables PROVE s.tables[t] \notin F
    <3>1. \A q \in pages : s.pmap[q] # s.tables[t]
      BY DEF Sound
    <3> QED BY <1>6, <3>1 DEF Sound
  <2>5. \A t \in DOMAIN s.tables, p \in DOMAIN T : T[p] # s.tables[t]
    BY <1>3 DEF Sound
  <2> QED BY <1>10, <1>11, <2>1, <2>2, <2>3, <2>4, <2>5 DEF Sound
<1>13. All(r) = All(s)
  BY <1>7, <1>11 DEF All, Stock
<1> QED BY <1>3, <1>11, <1>12, <1>13 DEF Released, r

\* A run of fresh pages under way.
Records == [s : Spaces, refused : BOOLEAN, mapped : Nat]

\* A run under way is its three parts.
LEMMA RecordsAre ==
  ASSUME NEW r \in Records
  PROVE  /\ r.s \in Spaces /\ r.refused \in BOOLEAN /\ r.mapped \in Nat
         /\ r = [s |-> r.s, refused |-> r.refused, mapped |-> r.mapped]
BY DEF Records

\* A space without a frame that pmm has just given.
Without(s, f) == [pmap |-> s.pmap, tables |-> s.tables, free |-> s.free \ {f}, ok |-> s.ok]

\* MapNext in plain records.
LEMMA MapNextIs ==
  ASSUME NEW r \in Records, NEW page
  PROVE  LET f == Min(r.s.free)
         IN  MapNext(r, page) =
               IF r.refused \/ ~r.s.ok THEN r
               ELSE IF r.s.free = {} THEN [s |-> r.s, refused |-> TRUE, mapped |-> r.mapped]
               ELSE [s |-> vmm_map(Without(r.s, f), page, f), refused |-> FALSE, mapped |-> r.mapped + 1]
<1> DEFINE f == Min(r.s.free)
           w == [r.s EXCEPT !.free = @ \ {f}]
           z == [r EXCEPT !.refused = TRUE]
<1>1. MapNext(r, page) =
        IF r.refused \/ ~r.s.ok THEN r
        ELSE IF r.s.free = {} THEN z
        ELSE [s |-> vmm_map(w, page, f), refused |-> FALSE, mapped |-> r.mapped + 1]
  BY Zenon DEF MapNext
<1>2. w = Without(r.s, f)
  <2> DEFINE s == r.s
             F == s.free \ {f}
  <2>1. s = [pmap |-> s.pmap, tables |-> s.tables, free |-> s.free, ok |-> s.ok]
    BY RecordsAre, SpacesAre
  <2> HIDE DEF s
  <2>2. w = [s EXCEPT !.free = F]
    BY <2>1 DEF s
  <2> HIDE DEF w, F
  <2>3. w = [pmap |-> s.pmap, tables |-> s.tables, free |-> F, ok |-> s.ok]
    BY <2>1, <2>2
  <2> QED BY <2>3 DEF Without, F, s
<1>3. z = [s |-> r.s, refused |-> TRUE, mapped |-> r.mapped]
  <2>1. r = [s |-> r.s, refused |-> r.refused, mapped |-> r.mapped]
    BY RecordsAre
  <2>2. z = [r EXCEPT !.refused = TRUE]
    OBVIOUS
  <2> HIDE DEF z
  <2> QED BY <2>1, <2>2
<1> HIDE DEF w, z, f
<1> QED BY <1>1, <1>2, <1>3 DEF f

\* Taking a frame leaves a space.
LEMMA WithoutType ==
  ASSUME NEW s \in Spaces, NEW f
  PROVE  Without(s, f) \in Spaces
BY SpacesAre DEF Without, Spaces

\* MapNext makes a run under way.
LEMMA MapNextType ==
  ASSUME NEW r \in Records, NEW page \in UserPages
  PROVE  MapNext(r, page) \in Records
<1> DEFINE f == Min(r.s.free)
<1>1. r.s \in Spaces /\ r.s.free \subseteq Frames /\ r.mapped \in Nat
  BY RecordsAre, SpacesAre
<1>2. ASSUME r.s.free # {} PROVE vmm_map(Without(r.s, f), page, f) \in Spaces
  <2>1. f \in Frames
    BY <1>1, <1>2, Given
  <2> HIDE DEF f
  <2> QED BY <1>1, <2>1, WithoutType, vmm_mapType
<1> HIDE DEF f
<1>3. /\ [s |-> r.s, refused |-> TRUE, mapped |-> r.mapped] \in Records
      /\ r.s.free # {} => [s |-> vmm_map(Without(r.s, f), page, f), refused |-> FALSE, mapped |-> r.mapped + 1] \in Records
  BY <1>1, <1>2 DEF Records
<1> QED BY <1>3, MapNextIs DEF f

\* pmm_alloc's frame belongs to nothing else, and the rest stays as it was.
LEMMA WithoutSound ==
  ASSUME NEW s, Sound(s), NEW f \in s.free, NEW page \in UserPages, page \notin Stack
  PROVE  /\ Sound(Without(s, f)) /\ Stock(s) = Stock(Without(s, f)) \cup {f}
         /\ Fits(Without(s, f), page, f)
<1> DEFINE w == Without(s, f)
<1>1. w.pmap = s.pmap /\ w.tables = s.tables /\ w.free = s.free \ {f} /\ w.ok = s.ok
  BY DEF Without
<1>2. w \in Spaces /\ f \in Frames
  BY WithoutType, SpacesAre DEF Sound
<1> HIDE DEF w
<1>3. Sound(w)
  BY <1>1, <1>2 DEF Sound
<1>4. Stock(s) = Stock(w) \cup {f}
  BY <1>1 DEF Stock
<1>5. f \notin Stock(w) /\ \A p \in DOMAIN w.pmap : w.pmap[p] # f
  BY <1>1 DEF Sound, Stock, Range
<1> QED BY <1>2, <1>3, <1>4, <1>5 DEF w, Fits

\* What the first k pages of a run of fresh pages have done.
Freshened(s, r, from, k) ==
  /\ r \in Records /\ Sound(r.s) /\ r.mapped <= k
  /\ All(r.s) \subseteq All(s)
  /\ r.s.ok => s.ok
  /\ r.refused => r.s.ok
  /\ ~r.refused /\ r.s.ok => r.mapped = k
  /\ \A p \in DOMAIN s.pmap : p \notin from..(from + r.mapped - 1) =>
       p \in DOMAIN r.s.pmap /\ r.s.pmap[p] = s.pmap[p]
  /\ r.s.ok => /\ DOMAIN r.s.pmap = DOMAIN s.pmap \cup (from..(from + r.mapped - 1))
               /\ Stock(s) \subseteq All(r.s)

\* The next page of a run gets a frame that is nowhere else, or is refused.
LEMMA MapNextSound ==
  ASSUME NEW s, Sound(s), NEW from \in Nat, NEW k \in Nat, NEW r, Freshened(s, r, from, k),
         from + k \in UserPages, from + k \notin Stack
  PROVE  Freshened(s, MapNext(r, from + k), from, k + 1)
<1> DEFINE q == from + k
           f == Min(r.s.free)
           w == Without(r.s, f)
           v == vmm_map(w, q, f)
           z == MapNext(r, q)
<1>1. /\ r.s \in Spaces /\ r.refused \in BOOLEAN /\ r.mapped \in Nat /\ r \in Records
      /\ r.s.free \subseteq Frames
      /\ z = IF r.refused \/ ~r.s.ok THEN r
             ELSE IF r.s.free = {} THEN [s |-> r.s, refused |-> TRUE, mapped |-> r.mapped]
             ELSE [s |-> v, refused |-> FALSE, mapped |-> r.mapped + 1]
  BY RecordsAre, SpacesAre, MapNextIs DEF Freshened
<1>2. z \in Records
  BY <1>1, MapNextType
<1> HIDE DEF z, v
<1>3. CASE r.refused \/ ~r.s.ok
  <2>1. z = r
    BY <1>1, <1>3
  <2> QED BY <1>1, <1>3, <2>1 DEF Freshened, z
<1>4. CASE ~(r.refused \/ ~r.s.ok) /\ r.s.free = {}
  <2>1. z.s = r.s /\ z.refused = TRUE /\ z.mapped = r.mapped
    BY <1>1, <1>4
  <2> QED BY <1>1, <1>2, <1>4, <2>1 DEF Freshened, z
<1>5. CASE ~(r.refused \/ ~r.s.ok) /\ r.s.free # {}
  <2>1. z.s = v /\ z.refused = FALSE /\ z.mapped = r.mapped + 1 /\ r.mapped = k
    BY <1>1, <1>5 DEF Freshened
  <2>2. f \in r.s.free /\ f \in Frames
    BY <1>1, <1>5, Given
  <2> HIDE DEF f
  <2>3. /\ Sound(w) /\ Stock(r.s) = Stock(w) \cup {f} /\ Fits(w, q, f)
    BY <2>2, WithoutSound DEF Freshened
  <2>4. w.pmap = r.s.pmap /\ w.ok = r.s.ok
    BY DEF Without
  <2> HIDE DEF w, q
  <2>5. Entered(w, v, q, f)
    BY <2>3, vmm_mapSound DEF v
  <2>6. /\ Sound(v) /\ Stock(v) = Stock(w) /\ (v.ok => r.s.ok)
        /\ \A p \in DOMAIN r.s.pmap : p # q => p \in DOMAIN v.pmap /\ v.pmap[p] = r.s.pmap[p]
        /\ v.ok => q \in DOMAIN v.pmap /\ v.pmap[q] = f /\ DOMAIN v.pmap = DOMAIN r.s.pmap \cup {q}
        /\ ~v.ok => v.pmap = r.s.pmap
    BY <2>4, <2>5 DEF Entered
  <2>7. All(v) \subseteq All(r.s)
    <3>1. \A p \in DOMAIN v.pmap : v.pmap[p] = f \/ (p \in DOMAIN r.s.pmap /\ v.pmap[p] = r.s.pmap[p])
      BY <2>6
    <3>2. Range(v.pmap) \subseteq Range(r.s.pmap) \cup {f}
      BY <3>1 DEF Range
    <3> QED BY <2>3, <2>6, <3>2 DEF All
  <2>8. /\ from..(from + (k + 1) - 1) = (from..(from + k - 1)) \cup {q}
        /\ q \notin from..(from + k - 1)
    BY DEF q
  <2>9. ASSUME NEW p \in DOMAIN s.pmap, p \notin from..(from + (k + 1) - 1)
        PROVE  p \in DOMAIN v.pmap /\ v.pmap[p] = s.pmap[p]
    <3>1. p \in DOMAIN r.s.pmap /\ r.s.pmap[p] = s.pmap[p] /\ p # q
      BY <2>1, <2>8, <2>9 DEF Freshened
    <3> QED BY <2>6, <3>1
  <2>10. ASSUME v.ok
         PROVE  /\ DOMAIN v.pmap = DOMAIN s.pmap \cup (from..(from + (k + 1) - 1))
                /\ Stock(s) \subseteq All(v)
    <3>1. DOMAIN r.s.pmap = DOMAIN s.pmap \cup (from..(from + k - 1)) /\ Stock(s) \subseteq All(r.s)
      BY <1>5, <2>1 DEF Freshened
    <3>2. ASSUME NEW x \in Stock(s) PROVE x \in All(v)
      <4>1. CASE x = f
        BY <2>6, <2>10, <4>1 DEF All, Range
      <4>2. CASE x # f /\ x \in Stock(r.s)
        BY <2>3, <2>6, <4>2 DEF All
      <4>3. CASE x \in Range(r.s.pmap)
        <5>1. PICK p \in DOMAIN r.s.pmap : x = r.s.pmap[p]
          BY <4>3 DEF Range
        <5>2. CASE p = q
          <6>1. p \in DOMAIN s.pmap /\ r.s.pmap[p] = s.pmap[p]
            BY <2>1, <2>8, <3>1, <5>2 DEF Freshened
          <6> QED BY <5>1, <6>1 DEF Sound, Stock, Range
        <5>3. CASE p # q
          <6>1. p \in DOMAIN v.pmap /\ v.pmap[p] = x
            BY <2>6, <5>1, <5>3
          <6> QED BY <6>1 DEF All, Range
        <5> QED BY <5>2, <5>3
      <4> QED BY <3>1, <4>1, <4>2, <4>3 DEF All
    <3> QED BY <2>6, <2>8, <2>10, <3>1, <3>2
  <2>11. Freshened(s, z, from, k + 1)
    BY <1>2, <2>1, <2>6, <2>7, <2>9, <2>10 DEF Freshened
  <2> QED BY <2>11 DEF z, q
<1> QED BY <1>3, <1>4, <1>5

\* The run as it goes.
Fresh0(s) == [s |-> s, refused |-> FALSE, mapped |-> 0]
FreshBy(g, s, from, n) ==
  [i \in 0..n |-> IF i = 0 THEN Fresh0(s) ELSE MapNext(g[i - 1], from + i - 1)]
FreshOf(s, from, n) == CHOOSE g : g = FreshBy(g, s, from, n)
IsFresh(g, s, from, n) == g[0] = Fresh0(s) /\ \A i \in 1..n : g[i] = MapNext(g[i - 1], from + i - 1)

\* A run of fresh pages is mapped page by page.
LEMMA FreshExact ==
  ASSUME NEW s \in Spaces, NEW from \in Nat, NEW n \in Nat, UserRun(from, n)
  PROVE  IsFresh(FreshOf(s, from, n), s, from, n)
<1> DEFINE b == Fresh0(s)
           t == [x \in Records \X Nat |->
                   IF x[2] \in 1..n THEN MapNext(x[1], from + x[2] - 1) ELSE x[1]]
<1>0. b \in Records
  BY DEF Records, Fresh0
<1> HIDE DEF b
<1>1. t \in [Records \X Nat -> Records]
  <2>1. ASSUME NEW x \in Records \X Nat, x[2] \in 1..n PROVE MapNext(x[1], from + x[2] - 1) \in Records
    BY <2>1, MapNextType DEF UserRun
  <2> QED BY <2>1
<1>2. \A y \in Records, i \in 1..n : t[<<y, i>>] = MapNext(y, from + i - 1)
  OBVIOUS
<1> HIDE DEF t
<1>3. PICK f : Stepwise(f, Records, b, t, n)
  BY <1>0, <1>1, StepsExist
<1>4. f \in [0..n -> Records] /\ f[0] = b /\ \A i \in 1..n : f[i] = t[<<f[i - 1], i>>]
  BY <1>3 DEF Stepwise
<1>5. ASSUME NEW i \in 1..n PROVE f[i] = MapNext(f[i - 1], from + i - 1)
  <2>1. f[i - 1] \in Records /\ f[i] = t[<<f[i - 1], i>>]
    BY <1>4
  <2> QED BY <1>2, <2>1
<1>6. f = FreshBy(f, s, from, n)
  <2>1. f = [i \in 0..n |-> f[i]]
    BY <1>4
  <2>2. ASSUME NEW i \in 0..n
        PROVE  f[i] = IF i = 0 THEN Fresh0(s) ELSE MapNext(f[i - 1], from + i - 1)
    <3>1. CASE i = 0
      BY <1>4, <3>1 DEF b
    <3>2. CASE i # 0
      <4>1. i \in 1..n
        BY <3>2
      <4> QED BY <1>5, <3>2, <4>1
    <3> QED BY <3>1, <3>2
  <2> QED BY <2>1, <2>2 DEF FreshBy
<1>7. FreshOf(s, from, n) = FreshBy(FreshOf(s, from, n), s, from, n)
  BY <1>6, Zenon DEF FreshOf
<1> DEFINE g == FreshOf(s, from, n)
<1> HIDE DEF g
<1>8. g[0] = Fresh0(s) /\ \A i \in 1..n : g[i] = MapNext(g[i - 1], from + i - 1)
  BY <1>7 DEF FreshBy, g
<1> QED BY <1>8 DEF g, IsFresh

\* What MapFresh does to a space.
Backed(s, r, from, n) ==
  /\ Sound(r.s) /\ All(r.s) \subseteq All(s) /\ r.refused \in BOOLEAN
  /\ r.refused => r.s.ok
  /\ r.s.ok => s.ok /\ Stock(s) \subseteq All(r.s)
  /\ r.s.ok => \A p \in DOMAIN s.pmap : p \notin from..(from + n - 1) =>
                 p \in DOMAIN r.s.pmap /\ r.s.pmap[p] = s.pmap[p]
  /\ r.s.ok /\ ~r.refused => DOMAIN r.s.pmap = DOMAIN s.pmap \cup (from..(from + n - 1))
  /\ r.refused => \A p \in DOMAIN r.s.pmap : p \in DOMAIN s.pmap /\ r.s.pmap[p] = s.pmap[p]

\* A run of fresh pages keeps a space sound and loses no frame of pmm's; when a page is
\* refused, what was mapped is given back.
LEMMA MapFreshSound ==
  ASSUME NEW s, Sound(s), NEW from \in Nat, NEW n \in Nat, UserRun(from, n),
         (from..(from + n - 1)) \cap Stack = {}
  PROVE  Backed(s, MapFresh(s, from, n), from, n)
<1> DEFINE g == FreshOf(s, from, n)
           P == { k \in 0..n : Freshened(s, g[k], from, k) }
           r == g[n]
           pages == from..(from + r.mapped - 1)
<1>1. g[0] = Fresh0(s) /\ \A i \in 1..n : g[i] = MapNext(g[i - 1], from + i - 1)
  <2>1. IsFresh(g, s, from, n)
    BY FreshExact DEF Sound
  <2> HIDE DEF g
  <2> QED BY <2>1 DEF IsFresh
<1>2. MapFresh(s, from, n) = IF r.refused THEN [r EXCEPT !.s = Release(@, pages)] ELSE r
  BY Zenon DEF MapFresh, FreshOf, FreshBy, Fresh0
<1> HIDE DEF g
<1>3. 0 \in P
  <2>1. Fresh0(s).s = s /\ Fresh0(s).refused = FALSE /\ Fresh0(s).mapped = 0 /\ Fresh0(s) \in Records
    BY DEF Sound, Fresh0, Records
  <2>2. from..(from + 0 - 1) = {}
    OBVIOUS
  <2>3. Freshened(s, Fresh0(s), from, 0)
    BY <2>1, <2>2 DEF Freshened, All
  <2> QED BY <1>1, <2>3
<1>4. \A i \in 1..n : i - 1 \in P => i \in P
  <2> SUFFICES ASSUME NEW i \in 1..n, i - 1 \in P PROVE i \in P
    OBVIOUS
  <2> DEFINE k == i - 1
  <2>1. k \in Nat /\ k + 1 = i /\ from + i - 1 = from + k /\ Freshened(s, g[k], from, k)
    OBVIOUS
  <2>2. from + i - 1 \in UserPages /\ from + i - 1 \notin Stack
    <3>1. from + i - 1 \in from..(from + n - 1)
      OBVIOUS
    <3> QED BY <3>1 DEF UserRun
  <2>3. g[i] = MapNext(g[k], from + k)
    BY <1>1, <2>1
  <2> HIDE DEF k
  <2>4. Freshened(s, g[i], from, i)
    BY <2>1, <2>2, <2>3, MapNextSound
  <2> QED BY <2>4
<1> HIDE DEF P
<1>5. \A i \in 0..n : i \in P
  BY <1>3, <1>4, StepsKeep
<1>6. Freshened(s, r, from, n)
  BY <1>5 DEF P
<1> HIDE DEF r
<1>7. r.mapped \in Nat /\ r.mapped <= n /\ r.s \in Spaces /\ r.refused \in BOOLEAN
      /\ r = [s |-> r.s, refused |-> r.refused, mapped |-> r.mapped]
  BY <1>6, RecordsAre DEF Freshened
<1>8. CASE ~r.refused
  <2>1. MapFresh(s, from, n) = r
    BY <1>2, <1>8
  <2>2. r.s.ok => pages = from..(from + n - 1)
    BY <1>6, <1>8 DEF Freshened
  <2>3. \A p \in pages : p \in from..(from + n - 1)
    BY <1>7
  <2> HIDE DEF pages
  <2>4. Backed(s, r, from, n)
    <3>1. r.s.ok => \A p \in DOMAIN s.pmap : p \notin pages =>
                      p \in DOMAIN r.s.pmap /\ r.s.pmap[p] = s.pmap[p]
      BY <1>6 DEF Freshened, pages
    <3>2. r.s.ok => DOMAIN r.s.pmap = DOMAIN s.pmap \cup pages /\ Stock(s) \subseteq All(r.s)
      BY <1>6 DEF Freshened, pages
    <3>3. Sound(r.s) /\ All(r.s) \subseteq All(s) /\ (r.s.ok => s.ok)
      BY <1>6 DEF Freshened
    <3> QED BY <1>7, <1>8, <2>2, <2>3, <3>1, <3>2, <3>3 DEF Backed
  <2> QED BY <2>1, <2>4
<1>9. CASE r.refused
  <2> DEFINE v == Release(r.s, pages)
             z == [r EXCEPT !.s = Release(@, pages)]
  <2>0. \A p \in pages : p \in from..(from + n - 1)
    BY <1>7
  <2> HIDE DEF pages
  <2>1. /\ Sound(r.s) /\ All(r.s) \subseteq All(s) /\ Stock(s) \subseteq All(r.s) /\ r.s.ok /\ s.ok
        /\ DOMAIN r.s.pmap = DOMAIN s.pmap \cup pages
        /\ \A p \in DOMAIN s.pmap : p \notin pages => p \in DOMAIN r.s.pmap /\ r.s.pmap[p] = s.pmap[p]
    BY <1>6, <1>9 DEF Freshened, pages
  <2>2. Released(r.s, v, pages)
    BY <2>0, <2>1, ReleaseSound
  <2>3. z = [r EXCEPT !.s = v]
    BY <1>7
  <2> HIDE DEF v, z
  <2>4. z.s = v /\ z.refused = TRUE
    BY <1>7, <1>9, <2>3
  <2>5. MapFresh(s, from, n) = z
    BY <1>2, <1>9 DEF z
  <2>6. /\ Sound(v) /\ v.ok = r.s.ok /\ All(v) = All(r.s) /\ DOMAIN v.pmap = DOMAIN r.s.pmap \ pages
        /\ \A p \in DOMAIN v.pmap : v.pmap[p] = r.s.pmap[p]
    BY <2>2 DEF Released
  <2>7. \A p \in DOMAIN v.pmap : p \in DOMAIN s.pmap /\ v.pmap[p] = s.pmap[p]
    BY <2>1, <2>6
  <2>8. \A p \in DOMAIN s.pmap : p \notin from..(from + n - 1) => p \in DOMAIN v.pmap /\ v.pmap[p] = s.pmap[p]
    BY <2>0, <2>1, <2>6
  <2>9. Backed(s, z, from, n)
    BY <2>1, <2>4, <2>6, <2>7, <2>8 DEF Backed
  <2> QED BY <2>5, <2>9
<1> QED BY <1>7, <1>8, <1>9

\* A multiple of the page size is its page number many pages.
LEMMA Whole ==
  ASSUME NEW a \in Nat, a % PageSize = 0
  PROVE  a \div PageSize \in Nat /\ a = PageSize * (a \div PageSize)
BY Facts, DivMod

\* A number of whole pages.
LEMMA WholeIs ==
  ASSUME NEW k \in Nat
  PROVE  /\ k * PageSize \in Nat /\ (k * PageSize) % PageSize = 0 /\ (k * PageSize) \div PageSize = k
         /\ k * PageSize = PageSize * k
<1> DEFINE p == PageSize
           m == k * p
<1>0. p \in Nat /\ p > 0
  BY Facts
<1> HIDE DEF p
<1>1. m = p * k + 0 /\ m = p * k /\ m \in Nat
  BY <1>0
<1>2. 0 \in 0..(p - 1) /\ k \in Int
  BY <1>0
<1> HIDE DEF m
<1>3. (p * k + 0) \div p = k /\ (p * k + 0) % p = 0
  BY <1>0, <1>2, DivUnique
<1>4. m \in Nat /\ m % p = 0 /\ m \div p = k /\ m = p * k
  BY <1>1, <1>3
<1> QED BY <1>4 DEF m, p

\* Runs of whole pages that follow each other in bytes do so in pages.
LEMMA After ==
  ASSUME NEW a \in Nat, a % PageSize = 0, NEW b \in Nat, b % PageSize = 0, NEW n \in Nat,
         a + n * PageSize <= b
  PROVE  a \div PageSize + n <= b \div PageSize
<1> DEFINE p == PageSize
           x == a \div PageSize
           y == b \div PageSize
<1>1. p \in Nat /\ p > 0
  BY Facts
<1>2. x \in Nat /\ a = p * x /\ y \in Nat /\ b = p * y
  BY Whole
<1> HIDE DEF p, x, y
<1>3. p * (x + n) <= p * y
  <2>1. p * (x + n) = p * x + p * n
    BY <1>1, <1>2
  <2>2. a + n * p <= b
    BY DEF p
  <2>3. n * p = p * n
    BY <1>1
  <2> QED BY <1>2, <2>1, <2>2, <2>3
<1>4. x + n <= y
  BY <1>1, <1>2, <1>3, Grows
<1> QED BY <1>4 DEF x, y

\* A length is rounded up to a positive number of whole pages.
LEMMA Rounded ==
  ASSUME NEW length \in Nat, length # 0
  PROVE  LET n == RoundUp(length) \div PageSize
         IN  n \in Nat \ {0} /\ RoundUp(length) = n * PageSize /\ RoundUp(length) \in Nat
<1> DEFINE p == PageSize
           k == (length + p - 1) \div p
<1>1. p \in Nat /\ p > 0
  BY Facts
<1> HIDE DEF p
<1>2. length + p - 1 \in Nat /\ length + p - 1 >= p
  BY <1>1
<1>3. k \in Nat /\ (length + p - 1) % p \in 0..(p - 1) /\ length + p - 1 = p * k + ((length + p - 1) % p)
  BY <1>1, <1>2, DivMod
<1>4. k # 0
  <2>1. ASSUME k = 0 PROVE FALSE
    <3>1. p * k = 0
      BY <1>1, <2>1
    <3> HIDE DEF k
    <3> QED BY <1>1, <1>2, <1>3, <3>1
  <2> QED BY <2>1
<1>5. RoundUp(length) = k * PageSize
  BY DEF RoundUp, p
<1> HIDE DEF k
<1>6. k * PageSize \in Nat /\ (k * PageSize) \div PageSize = k
  BY <1>3, WholeIs
<1> QED BY <1>3, <1>4, <1>5, <1>6

\* The fixed parts of the address space, in pages.
CodeAt  == USER_CODE_BASE \div PageSize
StartAt == USER_STARTUP_BASE \div PageSize
StackAt == USER_STACK_TOP \div PageSize - StackPages

\* What LayoutAssumption says of the layout.
LEMMA LayoutFacts ==
  /\ {ProgramPages, StartupPages, StackPages} \subseteq Nat
  /\ \A a \in {USER_CODE_BASE, SearchBase, USER_STARTUP_BASE, USER_STACK_TOP, USER_VA_END} :
       a \in Nat /\ a % PageSize = 0
  /\ 0 < USER_CODE_BASE /\ USER_CODE_BASE + ProgramPages * PageSize <= SearchBase
  /\ SearchBase < USER_STARTUP_BASE
  /\ USER_STARTUP_BASE + (StartupPages + StackPages) * PageSize <= USER_STACK_TOP
  /\ USER_STACK_TOP < USER_VA_END /\ 2 * USER_VA_END <= Word
  /\ Addrs \subseteq 0..(Word - 1) /\ Lengths \subseteq 0..(Word - 1)
BY LayoutAssumption, Zenon

\* The program, the startup block and the stack follow each other, in pages.
LEMMA Layout ==
  /\ ProgramPages \in Nat /\ StartupPages \in Nat /\ StackPages \in Nat
  /\ CodeAt \in Nat /\ StartAt \in Nat /\ StackAt \in Nat
  /\ CodeAt + ProgramPages <= StartAt /\ StartAt + StartupPages <= StackAt
  /\ Program = CodeAt..(CodeAt + ProgramPages - 1)
  /\ Startup = StartAt..(StartAt + StartupPages - 1)
  /\ Stack = StackAt..(StackAt + StackPages - 1)
  /\ \A p \in Reserved : p \in Int /\ StartAt <= p
  /\ StackAt + StackPages <= USER_VA_END \div PageSize
  /\ USER_VA_END \div PageSize \in Nat
<1> DEFINE ps == PageSize
           st == USER_STACK_TOP
           sk == StackPages
           C == USER_CODE_BASE \div ps
           S == USER_STARTUP_BASE \div ps
           T == st \div ps
           V == USER_VA_END \div ps
<1>1. ProgramPages \in Nat /\ StartupPages \in Nat /\ sk \in Nat /\ StartupPages + sk \in Nat
  BY LayoutFacts
<1>2. /\ USER_CODE_BASE \in Nat /\ USER_CODE_BASE % ps = 0
      /\ USER_STARTUP_BASE \in Nat /\ USER_STARTUP_BASE % ps = 0
      /\ st \in Nat /\ st % ps = 0
      /\ USER_VA_END \in Nat /\ USER_VA_END % ps = 0 /\ SearchBase \in Nat
  BY LayoutFacts
<1>3. C \in Nat /\ S \in Nat /\ T \in Nat /\ V \in Nat /\ st = ps * T
  BY <1>2, Whole
<1>4. C + ProgramPages <= S
  <2>1. USER_CODE_BASE + ProgramPages * ps <= USER_STARTUP_BASE
    <3> DEFINE w == USER_CODE_BASE + ProgramPages * ps
    <3>1. w \in Int
      BY <1>1, <1>2, Facts
    <3>2. w <= SearchBase /\ SearchBase < USER_STARTUP_BASE
      BY LayoutFacts
    <3> HIDE DEF w
    <3>3. w <= USER_STARTUP_BASE
      BY <1>2, <3>1, <3>2
    <3> QED BY <3>3 DEF w
  <2> QED BY <1>1, <1>2, <2>1, After
<1>5. S + (StartupPages + sk) <= T
  <2>1. USER_STARTUP_BASE + (StartupPages + sk) * ps <= st
    BY LayoutFacts
  <2> QED BY <1>1, <1>2, <2>1, After
<1>6. T <= V
  <2>1. st + 0 * ps <= USER_VA_END
    <3>1. 0 * ps = 0
      BY Facts
    <3> QED BY <1>2, <3>1, LayoutFacts
  <2>2. T + 0 <= V
    BY <1>2, <2>1, After
  <2> QED BY <1>3, <2>2
<1>7. (st - sk * ps) \div ps = T - sk
  <2>0. ps \in Nat /\ ps > 0
    BY Facts
  <2> HIDE DEF ps, T, st, sk
  <2>1. st - sk * ps = ps * (T - sk) + 0
    BY <1>1, <1>3, <2>0
  <2>2. T - sk \in Int /\ 0 \in 0..(ps - 1)
    BY <1>1, <1>3, <2>0
  <2> QED BY <2>0, <2>1, <2>2, DivUnique
<1>8. \A p \in Reserved : p \in Int /\ StartAt <= p
  <2>1. (USER_STACK_TOP - USER_STARTUP_BASE) \div PageSize \in Int
    BY <1>2, Facts
  <2>2. ASSUME NEW n \in Int, NEW p \in S..(S + n - 1) PROVE p \in Int /\ S <= p
    BY <1>3
  <2> HIDE DEF S
  <2> QED BY <2>1, <2>2 DEF Reserved, PagesAt, StartAt, S
<1>9. /\ Program = C..(C + ProgramPages - 1) /\ Startup = S..(S + StartupPages - 1)
      /\ Stack = (T - sk)..(T - sk + sk - 1)
  <2> HIDE DEF T, C, S
  <2>1. Program = C..(C + ProgramPages - 1) /\ Startup = S..(S + StartupPages - 1)
    BY DEF Program, Startup, PagesAt, C, S
  <2>2. Stack = ((st - sk * ps) \div ps)..((st - sk * ps) \div ps + sk - 1)
    BY DEF Stack, PagesAt
  <2> QED BY <1>7, <2>1, <2>2
<1>10. CodeAt = C /\ StartAt = S /\ StackAt = T - sk
  BY DEF CodeAt, StartAt, StackAt
<1> HIDE DEF C, S, T, V
<1> QED BY <1>1, <1>3, <1>4, <1>5, <1>6, <1>8, <1>9, <1>10 DEF V

\* Where a mapping may lie, and how two lie to each other.
Held(m)     == m \in Mapping /\ m.base > 0 /\ m.base % PageSize = 0 /\ EndOf(m) <= USER_STARTUP_BASE
Apart(m, n) == EndOf(m) <= n.base \/ EndOf(n) <= m.base
Readable(M) == UNION { PagesOf(m) : m \in { x \in M : x.read } }
Placed(M)   == /\ \A m \in M : Held(m)
               /\ \A m, n \in M : m # n => Apart(m, n)

\* The pages that a program may read and that no mapping may take.
Kept(M) == Startup \cup Stack \cup Readable(M)

\* A space that backs the mappings M, for a task whose program came in the frames I
\* and that was spawned when pmm had the frames P.
Backs(s, M, I, P) ==
  /\ Sound(s)
  /\ Kept(M) \subseteq DOMAIN s.pmap
  /\ DOMAIN s.pmap \subseteq Kept(M) \cup Program
  /\ \A p \in DOMAIN s.pmap : p \notin Kept(M) => s.pmap[p] \in I
  /\ P \subseteq All(s) \cup I

Typed ==
  /\ alive \in BOOLEAN /\ mappings \subseteq Mapping
  /\ pmap \in PMaps /\ tables \in TMaps
  /\ {free, image, pool} \subseteq SUBSET Frames
  /\ mode \in {"ok", "no_frames"}
Empty   == mappings = {} /\ pmap = << >> /\ tables = << >>

\* The inductive invariant.
IInv ==
  /\ Typed
  /\ ~alive /\ mode = "ok" => Empty
  /\ Live => Placed(mappings) /\ Backs(Space, mappings, image, pool)

-----------------------------------------------------------------------------
(* The pages of mappings.                                                    *)

\* A mapping is its three parts.
LEMMA MappingsAre ==
  ASSUME NEW m \in Mapping
  PROVE  /\ m.base \in Nat /\ m.count \in Nat \ {0} /\ m.read \in BOOLEAN
         /\ m = [base |-> m.base, count |-> m.count, read |-> m.read]
BY DEF Mapping

\* A mapping ends above its base.
LEMMA EndType ==
  ASSUME NEW m \in Mapping
  PROVE  EndOf(m) \in Nat /\ m.base < EndOf(m)
<1> DEFINE p == PageSize
           c == m.count
<1>1. p \in Nat /\ p > 0 /\ c \in Nat /\ c > 0 /\ m.base \in Nat
  BY Facts, MappingsAre
<1> HIDE DEF p, c
<1>2. c * p \in Nat /\ c * p > 0
  BY <1>1
<1>3. m.base + c * p \in Nat /\ m.base < m.base + c * p
  BY <1>1, <1>2
<1> QED BY <1>3 DEF EndOf, p, c

\* A mapping's pages are below the startup block's.
LEMMA HeldPages ==
  ASSUME NEW m, Held(m)
  PROVE  LET a == m.base \div PageSize
         IN  /\ a \in Nat /\ PagesOf(m) = a..(a + m.count - 1) /\ a + m.count <= StartAt
             /\ m.count \in Nat \ {0} /\ UserRun(a, m.count)
             /\ PagesOf(m) \cap (Startup \cup Stack \cup Reserved) = {}
<1> DEFINE a == m.base \div PageSize
           c == m.count
<1>1. m \in Mapping /\ m.base \in Nat /\ c \in Nat \ {0} /\ m.base % PageSize = 0
  BY MappingsAre DEF Held
<1>2. a \in Nat
  BY <1>1, Whole
<1>3. a + c <= StartAt
  <2>1. m.base + c * PageSize <= USER_STARTUP_BASE
    BY DEF Held, EndOf
  <2>2. USER_STARTUP_BASE \in Nat /\ USER_STARTUP_BASE % PageSize = 0
    BY LayoutFacts
  <2> QED BY <1>1, <2>1, <2>2, After DEF StartAt
<1>4. PagesOf(m) = a..(a + c - 1)
  BY DEF PagesOf, PagesAt
<1> HIDE DEF a, c
<1>5. UserRun(a, c)
  BY <1>1, <1>2, <1>3, Layout DEF UserRun, UserPages
<1>6. PagesOf(m) \cap (Startup \cup Stack \cup Reserved) = {}
  <2>1. ASSUME NEW p \in PagesOf(m) PROVE p \notin Startup /\ p \notin Stack /\ p \notin Reserved
    <3>1. p \in Int /\ p < StartAt
      BY <1>1, <1>2, <1>3, <1>4, Layout
    <3>2. p \notin Startup /\ p \notin Stack
      BY <3>1, Layout
    <3>3. p \notin Reserved
      BY <3>1, Layout
    <3> QED BY <3>2, <3>3
  <2> QED BY <2>1
<1> QED BY <1>1, <1>2, <1>3, <1>4, <1>5, <1>6 DEF a, c

\* Mappings that are apart share no page.
LEMMA ApartPages ==
  ASSUME NEW m, Held(m), NEW n, Held(n), Apart(m, n)
  PROVE  PagesOf(m) \cap PagesOf(n) = {}
<1>1. ASSUME NEW x, Held(x), NEW y, Held(y), EndOf(x) <= y.base PROVE PagesOf(x) \cap PagesOf(y) = {}
  <2> DEFINE a == x.base \div PageSize
             b == y.base \div PageSize
  <2>1. /\ x.base \in Nat /\ x.count \in Nat /\ y.base \in Nat /\ y.count \in Nat
        /\ x.base % PageSize = 0 /\ y.base % PageSize = 0
    BY <1>1, MappingsAre DEF Held
  <2>2. x.base + x.count * PageSize <= y.base
    BY <1>1 DEF EndOf
  <2>3. a + x.count <= b
    BY <2>1, <2>2, After
  <2>4. a \in Nat /\ b \in Nat
    BY <2>1, Whole
  <2>5. PagesOf(x) = a..(a + x.count - 1) /\ PagesOf(y) = b..(b + y.count - 1)
    BY DEF PagesOf, PagesAt
  <2> HIDE DEF a, b
  <2> QED BY <2>1, <2>3, <2>4, <2>5
<1>2. CASE EndOf(m) <= n.base
  BY <1>1, <1>2
<1>3. CASE EndOf(n) <= m.base
  BY <1>1, <1>3
<1> QED BY <1>2, <1>3 DEF Apart

\* A place for n pages.
Room(base, n) ==
  /\ base \in Nat /\ base > 0 /\ base % PageSize = 0
  /\ base + n * PageSize <= USER_STARTUP_BASE
  /\ \A m \in mappings : base + n * PageSize <= m.base \/ EndOf(m) <= base

\* No request wraps.
LEMMA NoWrap ==
  ASSUME NEW x \in Nat, x <= USER_STACK_TOP
  PROVE  x % Word = x
<1> DEFINE w == Word
           t == USER_STACK_TOP
           v == USER_VA_END
<1>1. w \in Nat /\ t \in Nat /\ v \in Nat /\ t < v /\ 2 * v <= w
  BY LayoutFacts, Facts
<1> HIDE DEF w, t, v
<1>2. x <= t
  BY DEF t
<1>3. w > 0 /\ x \in 0..(w - 1)
  BY <1>1, <1>2
<1>4. (w * 0 + x) % w = x
  BY <1>1, <1>3, DivUnique
<1>5. w * 0 + x = x
  BY <1>1
<1> QED BY <1>4, <1>5 DEF w

\* A fixed request that is granted has room: below the startup block, apart from the others.
LEMMA RoomFixed ==
  ASSUME mappings \subseteq Mapping, NEW addr \in Nat, NEW n \in Nat \ {0}, NEW len \in Nat, len = n * PageSize,
         FixedAt(addr, len) # 0
  PROVE  FixedAt(addr, len) = addr /\ Room(addr, n)
<1>1. /\ addr # 0 /\ addr % PageSize = 0 /\ addr <= USER_STACK_TOP
      /\ ~(len > USER_STACK_TOP - addr)
      /\ ~task__range_hits_reserved(addr, len) /\ ~task__mapping_overlaps(addr, len)
      /\ FixedAt(addr, len) = addr
  <2> DEFINE bad == \/ addr = 0 \/ addr % PageSize # 0
                    \/ addr > USER_STACK_TOP \/ len > USER_STACK_TOP - addr
                    \/ task__range_hits_reserved(addr, len)
                    \/ task__mapping_overlaps(addr, len)
  <2>1. FixedAt(addr, len) = IF bad THEN 0 ELSE addr
    BY DEF FixedAt
  <2>2. ~bad /\ FixedAt(addr, len) = addr
    BY <2>1
  <2>3. USER_STACK_TOP \in Nat
    BY LayoutFacts
  <2> QED BY <2>2, <2>3
<1>2. USER_STACK_TOP \in Nat /\ USER_STARTUP_BASE \in Nat /\ len > 0
  <2>1. len # 0
    <3> DEFINE p == PageSize
    <3>1. p \in Nat /\ p > 0
      BY Facts
    <3> HIDE DEF p
    <3>2. n * p > 0
      BY <3>1
    <3> QED BY <3>2 DEF p
  <2> QED BY <2>1, LayoutFacts
<1>3. addr + len \in Nat /\ addr + len <= USER_STACK_TOP /\ addr < USER_STACK_TOP
  BY <1>1, <1>2
<1>4. (addr + len) % Word = addr + len
  BY <1>3, NoWrap
<1>5. addr + len <= USER_STARTUP_BASE
  BY <1>1, <1>2, <1>3, <1>4 DEF task__range_hits_reserved
<1>6. ASSUME NEW m \in mappings PROVE addr + len <= m.base \/ EndOf(m) <= addr
  <2>1. m.base \in Nat /\ EndOf(m) \in Nat
    BY MappingsAre, EndType
  <2>2. (addr + len) % Word <= m.base \/ addr >= EndOf(m)
    BY <1>1 DEF task__mapping_overlaps
  <2> QED BY <1>4, <2>1, <2>2
<1> QED BY <1>1, <1>5, <1>6 DEF Room

\* The search starts above address 0, and the startup block ends below the stack.
LEMMA StartupBelow ==
  /\ SearchBase \in Nat /\ USER_STARTUP_BASE \in Nat /\ SearchBase % PageSize = 0 /\ USER_STACK_TOP \in Nat
  /\ USER_STARTUP_BASE <= USER_STACK_TOP /\ SearchBase > 0
<1> DEFINE p == PageSize
           k == ProgramPages
           j == StartupPages + StackPages
<1>0. StartupPages \in Nat /\ StackPages \in Nat /\ ProgramPages \in Nat
  BY Layout
<1>1. p \in Nat /\ p > 0 /\ k \in Nat /\ j \in Nat
  BY <1>0, Facts
<1> HIDE DEF p, k, j
<1>2. k * p \in Nat /\ j * p \in Nat
  BY <1>1
<1>3. /\ SearchBase \in Nat /\ USER_STARTUP_BASE \in Nat /\ SearchBase % PageSize = 0
      /\ USER_CODE_BASE \in Nat /\ USER_STACK_TOP \in Nat /\ 0 < USER_CODE_BASE
  BY LayoutFacts
<1>4. USER_CODE_BASE + k * p <= SearchBase /\ USER_STARTUP_BASE + j * p <= USER_STACK_TOP
  BY LayoutFacts DEF p, k, j
<1> QED BY <1>1, <1>2, <1>3, <1>4 DEF p

\* So has the first gap that is found.
LEMMA RoomAnywhere ==
  ASSUME mappings \subseteq Mapping, NEW n \in Nat \ {0}, NEW len \in Nat, len = n * PageSize,
         Anywhere(len) # 0
  PROVE  Room(Anywhere(len), n)
<1> DEFINE gaps == { c \in SearchBase..(USER_STARTUP_BASE - len) :
                       (c - SearchBase) % PageSize = 0 /\ ~task__mapping_overlaps(c, len) }
           base == Anywhere(len)
<1>1. /\ SearchBase \in Nat /\ USER_STARTUP_BASE \in Nat /\ SearchBase % PageSize = 0
      /\ USER_STARTUP_BASE <= USER_STACK_TOP /\ SearchBase > 0
  BY StartupBelow
<1>2. gaps # {} /\ base = Min(gaps)
  BY DEF Anywhere
<1>3. gaps \subseteq Nat
  BY <1>1
<1>4. base \in gaps
  BY <1>2, <1>3, MinOf
<1> HIDE DEF base
<1>5. /\ base \in Nat /\ SearchBase <= base /\ base + len <= USER_STARTUP_BASE
      /\ (base - SearchBase) % PageSize = 0 /\ ~task__mapping_overlaps(base, len)
  BY <1>1, <1>3, <1>4
<1>6. base % PageSize = 0
  <2> DEFINE p == PageSize
             d == base - SearchBase
             x == SearchBase \div p
             y == d \div p
  <2>1. d \in Nat /\ d % p = 0
    BY <1>1, <1>5
  <2>2. x \in Nat /\ SearchBase = p * x /\ y \in Nat /\ d = p * y
    BY <1>1, <2>1, Whole
  <2>3. base = SearchBase + d
    BY <1>1, <1>5
  <2>4. p \in Nat /\ p > 0
    BY Facts
  <2> HIDE DEF p, d, x, y
  <2>5. base = p * (x + y) + 0 /\ x + y \in Int /\ 0 \in 0..(p - 1)
    BY <2>2, <2>3, <2>4
  <2>6. (p * (x + y) + 0) % p = 0
    BY <2>4, <2>5, DivUnique
  <2> QED BY <2>5, <2>6 DEF p
<1>7. (base + len) % Word = base + len
  <2>1. base + len \in Nat /\ base + len <= USER_STACK_TOP
    <3>1. USER_STACK_TOP \in Nat
      BY LayoutFacts
    <3> QED BY <1>1, <1>5, <3>1
  <2> QED BY <2>1, NoWrap
<1>8. ASSUME NEW m \in mappings PROVE base + len <= m.base \/ EndOf(m) <= base
  <2>1. m.base \in Nat /\ EndOf(m) \in Nat
    BY MappingsAre, EndType
  <2>2. (base + len) % Word <= m.base \/ base >= EndOf(m)
    BY <1>5 DEF task__mapping_overlaps
  <2> QED BY <1>5, <1>7, <2>1, <2>2
<1>9. base > 0
  BY <1>1, <1>5
<1> QED BY <1>5, <1>6, <1>8, <1>9 DEF Room, base

\* The mapping that a request makes, and that it is apart from the others.
LEMMA RoomHeld ==
  ASSUME mappings \subseteq Mapping, Placed(mappings), NEW base, NEW n \in Nat \ {0}, NEW read \in BOOLEAN,
         Room(base, n)
  PROVE  LET m == [base |-> base, count |-> n, read |-> read]
         IN  /\ Held(m) /\ Placed(mappings \cup {m})
             /\ PagesOf(m) = PagesAt(base, n)
             /\ \A x \in mappings : PagesOf(x) \cap PagesOf(m) = {}
<1> DEFINE m == [base |-> base, count |-> n, read |-> read]
<1>1. /\ base \in Nat /\ base > 0 /\ base % PageSize = 0
      /\ base + n * PageSize <= USER_STARTUP_BASE
      /\ \A x \in mappings : base + n * PageSize <= x.base \/ EndOf(x) <= base
  BY DEF Room
<1>2. m \in Mapping /\ m.base = base /\ m.count = n /\ m.read = read
  BY <1>1 DEF Mapping
<1> HIDE DEF m
<1>3. EndOf(m) = base + n * PageSize
  BY <1>2 DEF EndOf
<1>4. Held(m)
  BY <1>1, <1>2, <1>3 DEF Held
<1>5. \A x \in mappings : Apart(x, m) /\ Apart(m, x)
  BY <1>1, <1>2, <1>3 DEF Apart
<1>6. Placed(mappings \cup {m})
  BY <1>4, <1>5 DEF Placed
<1>7. PagesOf(m) = PagesAt(base, n)
  BY <1>2 DEF PagesOf
<1>8. \A x \in mappings : PagesOf(x) \cap PagesOf(m) = {}
  BY <1>4, <1>5, ApartPages DEF Placed
<1> QED BY <1>4, <1>6, <1>7, <1>8 DEF m

\* A run of fresh pages, taken back or not, where no page is kept.
LEMMA BackedBacks ==
  ASSUME NEW s, NEW M, NEW I, NEW P, Backs(s, M, I, P), s.ok, NEW r, NEW from, NEW n, Backed(s, r, from, n),
         r.s.ok, (from..(from + n - 1)) \cap Kept(M) = {}, NEW N,
         Readable(N) = IF r.refused THEN Readable(M) ELSE Readable(M) \cup (from..(from + n - 1))
  PROVE  Backs(r.s, N, I, P)
<1> DEFINE pages == from..(from + n - 1)
           t == r.s
<1>1. /\ Sound(s) /\ Kept(M) \subseteq DOMAIN s.pmap /\ DOMAIN s.pmap \subseteq Kept(M) \cup Program
      /\ \A p \in DOMAIN s.pmap : p \notin Kept(M) => s.pmap[p] \in I
      /\ P \subseteq All(s) \cup I
  BY DEF Backs
<1>2. pages \cap Kept(M) = {}
  OBVIOUS
<1>3. /\ Sound(t) /\ Stock(s) \subseteq All(t)
      /\ \A p \in DOMAIN s.pmap : p \notin pages => p \in DOMAIN t.pmap /\ t.pmap[p] = s.pmap[p]
      /\ ~r.refused => DOMAIN t.pmap = DOMAIN s.pmap \cup pages
      /\ r.refused => \A p \in DOMAIN t.pmap : p \in DOMAIN s.pmap /\ t.pmap[p] = s.pmap[p]
      /\ r.refused \in BOOLEAN
  BY DEF Backed
<1> HIDE DEF pages, t
<1>4. Kept(N) = IF r.refused THEN Kept(M) ELSE Kept(M) \cup pages
  BY DEF Kept, pages
<1>5. Kept(N) \subseteq DOMAIN t.pmap
  BY <1>1, <1>2, <1>3, <1>4
<1>6. DOMAIN t.pmap \subseteq Kept(N) \cup Program
  BY <1>1, <1>3, <1>4
<1>7. \A p \in DOMAIN t.pmap : p \notin Kept(N) => t.pmap[p] \in I
  BY <1>1, <1>3, <1>4
<1>8. ASSUME NEW x \in P PROVE x \in All(t) \cup I
  <2>1. CASE x \in I
    BY <2>1
  <2>2. CASE x \in Stock(s)
    BY <1>3, <2>2
  <2>3. CASE x \in Range(s.pmap) /\ x \notin I
    <3>1. PICK p \in DOMAIN s.pmap : s.pmap[p] = x
      BY <2>3 DEF Range
    <3>2. p \notin pages
      BY <1>1, <1>2, <2>3, <3>1
    <3>3. x \in Range(t.pmap)
      BY <1>3, <3>1, <3>2 DEF Range
    <3> QED BY <3>3 DEF All
  <2> QED BY <1>1, <2>1, <2>2, <2>3 DEF All
<1>9. Backs(t, N, I, P)
  BY <1>3, <1>5, <1>6, <1>7, <1>8 DEF Backs
<1> QED BY <1>9 DEF t

\* The readable pages with one more mapping.
LEMMA ReadableMore ==
  ASSUME NEW M, NEW m
  PROVE  Readable(M \cup {m}) = IF m.read THEN Readable(M) \cup PagesOf(m) ELSE Readable(M)
<1>1. CASE m.read
  BY <1>1 DEF Readable
<1>2. CASE ~m.read
  BY <1>2 DEF Readable
<1> QED BY <1>1, <1>2

\* The task's space.
LEMMA SpaceType ==
  ASSUME Typed
  PROVE  /\ Space \in Spaces /\ Space.ok /\ Space.pmap = pmap /\ Space.tables = tables /\ Space.free = free
BY DEF Typed, Spaces, Space

\* Committing a space.
LEMMA Committed ==
  ASSUME NEW s \in Spaces, Commit(s)
  PROVE  /\ pmap' = s.pmap /\ tables' = s.tables /\ free' = s.free
         /\ pmap' \in PMaps /\ tables' \in TMaps /\ free' \subseteq Frames
         /\ s.ok => Space' = s
<1>1. s.pmap \in PMaps /\ s.tables \in TMaps /\ s.free \subseteq Frames /\ s.ok \in BOOLEAN
      /\ s = [pmap |-> s.pmap, tables |-> s.tables, free |-> s.free, ok |-> s.ok]
  BY SpacesAre
<1>2. pmap' = s.pmap /\ tables' = s.tables /\ free' = s.free
  BY DEF Commit
<1>3. ASSUME s.ok PROVE Space' = s
  <2>1. Space' = [pmap |-> pmap', tables |-> tables', free |-> free', ok |-> TRUE]
    BY DEF Space
  <2>2. s.ok = TRUE
    BY <1>1, <1>3
  <2> QED BY <1>1, <1>2, <2>1, <2>2
<1> QED BY <1>1, <1>2, <1>3

\* The state after task_deinit.
LEMMA Restarted ==
  ASSUME mappings' = {}, pmap' = << >>, tables' = << >>
  PROVE  Empty' /\ mappings' \subseteq Mapping /\ pmap' \in PMaps /\ tables' \in TMaps
<1>1. << >> = [p \in {} |-> StackFrame] /\ << >> = [p \in {} |-> 0]
  OBVIOUS
<1>2. DOMAIN << >> = {}
  OBVIOUS
<1>3. << >> \in PMaps /\ << >> \in TMaps
  BY <1>1, <1>2, PMapsAre, TMapsAre
<1> QED BY <1>3 DEF Empty

\* The invariant holds at the start.
LEMMA InitInv == Init => IInv
<1> SUFFICES ASSUME Init PROVE IInv
  OBVIOUS
<1>1. << >> = [p \in {} |-> StackFrame] /\ << >> = [p \in {} |-> 0]
  OBVIOUS
<1>2. DOMAIN << >> = {}
  OBVIOUS
<1>3. << >> \in PMaps /\ << >> \in TMaps
  BY <1>1, <1>2, PMapsAre, TMapsAre
<1> QED BY <1>3 DEF Init, IInv, Typed, Empty, Live

\* The tables' frames go back when a task ends.
LEMMA DeinitKeeps == IInv /\ task_deinit => IInv'
<1> SUFFICES ASSUME IInv, task_deinit PROVE IInv'
  OBVIOUS
<1>1. /\ alive' = FALSE /\ mappings' = {} /\ pmap' = << >> /\ tables' = << >>
      /\ free' = free \cup Range(tables) /\ image' = {} /\ pool' = {} /\ mode' = mode
  BY DEF task_deinit
<1>2. Empty' /\ mappings' \subseteq Mapping /\ pmap' \in PMaps /\ tables' \in TMaps
  BY <1>1, Restarted
<1>3. free' \subseteq Frames
  BY <1>1, TMapsAre DEF IInv, Typed, Range
<1>4. Typed'
  BY <1>1, <1>2, <1>3 DEF IInv, Typed
<1> QED BY <1>1, <1>2, <1>4 DEF IInv, Live

\* What the arguments are.
LEMMA Arguments ==
  /\ \A addr \in Addrs : addr \in Nat
  /\ \A length \in Lengths : length \in Nat
<1>1. Addrs \subseteq 0..(Word - 1) /\ Lengths \subseteq 0..(Word - 1) /\ Word \in Nat
  BY LayoutFacts, Facts, Zenon
<1> QED BY <1>1

\* sysc_mmap keeps the invariant, whether it is granted, refused, rolled back or stopped.
LEMMA MmapKeeps ==
  ASSUME IInv, NEW addr \in Addrs, NEW length \in Lengths, NEW fixed \in BOOLEAN, NEW read \in BOOLEAN,
         sysc_mmap(addr, length, fixed, read)
  PROVE  IInv'
<1> DEFINE len  == RoundUp(length)
           base == IF ~Rounds(length) THEN 0
                   ELSE IF fixed THEN FixedAt(addr, len) ELSE Anywhere(len)
           n    == len \div PageSize
           b    == base \div PageSize
           run  == IF read THEN MapFresh(Space, b, n)
                   ELSE [s |-> Space, refused |-> FALSE]
           m    == [base |-> base, count |-> n, read |-> read]
           s    == run.s
           M    == IF run.refused \/ ~s.ok THEN mappings ELSE mappings \cup {m}
<1>1. /\ alive /\ mode = "ok" /\ length # 0 /\ alive' = alive /\ image' = image /\ pool' = pool
      /\ task_mmap(addr, length, fixed, read)
  BY DEF sysc_mmap
<1>2. IF base = 0 THEN UNCHANGED <<mappings, pmap, tables, free, mode>>
      ELSE /\ Commit(s)
           /\ mode' = IF s.ok THEN "ok" ELSE "no_frames"
           /\ mappings' = M
  BY <1>1, Zenon DEF task_mmap
<1>3. /\ Typed /\ Live /\ Placed(mappings) /\ Backs(Space, mappings, image, pool)
      /\ Sound(Space) /\ mappings \subseteq Mapping
  BY <1>1 DEF IInv, Live, Backs, Typed
<1>4. CASE base = 0
  <2>1. UNCHANGED vars
    BY <1>1, <1>2, <1>4 DEF vars
  <2> HIDE DEF base, run, s, M, m, b
  <2>2. UNCHANGED <<alive, mappings, pmap, tables, free, image, pool, mode>>
    BY <2>1 DEF vars
  <2> QED BY <2>2 DEF IInv, Typed, Empty, Live, Space
<1>5. CASE base # 0
  <2>1. Room(base, n) /\ n \in Nat \ {0}
    <3>1. n \in Nat \ {0} /\ len = n * PageSize /\ len \in Nat
      BY <1>1, Arguments, Rounded
    <3>2. addr \in Nat
      BY Arguments
    <3> HIDE DEF len, n
    <3>3. CASE fixed
      <4>1. base = FixedAt(addr, len)
        BY <1>5, <3>3
      <4> HIDE DEF base
      <4>2. Room(addr, n) /\ FixedAt(addr, len) = addr
        BY <1>3, <1>5, <3>1, <3>2, <4>1, RoomFixed
      <4> QED BY <3>1, <4>1, <4>2
    <3>4. CASE ~fixed
      <4>1. base = Anywhere(len)
        BY <1>5, <3>4
      <4> HIDE DEF base
      <4>2. Room(Anywhere(len), n)
        BY <1>3, <1>5, <3>1, <4>1, RoomAnywhere
      <4> QED BY <3>1, <4>1, <4>2
    <3> QED BY <3>3, <3>4
  <2> HIDE DEF base, n, len
  <2>2. /\ Held(m) /\ Placed(mappings \cup {m}) /\ PagesOf(m) = PagesAt(base, n)
        /\ \A x \in mappings : PagesOf(x) \cap PagesOf(m) = {}
    BY <1>3, <2>1, RoomHeld
  <2>3. m.base = base /\ m.count = n /\ m.read = read /\ m \in Mapping
    BY <2>2 DEF Held
  <2> DEFINE pages == b..(b + n - 1)
  <2>4. /\ b \in Nat /\ PagesOf(m) = pages /\ UserRun(b, n)
        /\ pages \cap (Startup \cup Stack) = {}
    <3> HIDE DEF m
    <3>1. m.base \div PageSize = b /\ m.count = n
      BY <2>3
    <3> HIDE DEF b
    <3> QED BY <2>2, <3>1, HeldPages
  <2> HIDE DEF b
  <2>5. pages \cap Kept(mappings) = {}
    <3>1. pages \cap Readable(mappings) = {}
      BY <2>2, <2>4 DEF Readable
    <3> QED BY <2>4, <3>1 DEF Kept
  <2>6. Space.ok /\ Space \in Spaces
    BY <1>3, SpaceType
  <2>7. Readable(mappings \cup {m}) = IF read THEN Readable(mappings) \cup pages ELSE Readable(mappings)
    BY <2>3, <2>4, ReadableMore
  <2>8. /\ Commit(s) /\ mode' = (IF s.ok THEN "ok" ELSE "no_frames") /\ mappings' = M
    BY <1>2, <1>5
  <2>9. s \in Spaces /\ run.refused \in BOOLEAN
        /\ (s.ok => Backs(s, M, image, pool))
    <3>1. CASE read
      <4>1. run = MapFresh(Space, b, n)
        BY <3>1
      <4>2. pages \cap Stack = {}
        BY <2>4
      <4>3. Backed(Space, run, b, n)
        BY <1>3, <2>1, <2>4, <4>1, <4>2, MapFreshSound
      <4> HIDE DEF run, m
      <4>4. Sound(s) /\ run.refused \in BOOLEAN
        BY <4>3 DEF Backed
      <4>5. ASSUME s.ok PROVE Backs(s, M, image, pool)
        <5>1. M = IF run.refused THEN mappings ELSE mappings \cup {m}
          BY <4>4, <4>5
        <5> HIDE DEF M
        <5>2. Readable(M) = IF run.refused THEN Readable(mappings) ELSE Readable(mappings) \cup pages
          BY <2>7, <3>1, <5>1
        <5> QED BY <1>3, <2>5, <2>6, <4>3, <4>5, <5>2, BackedBacks
      <4> QED BY <4>4, <4>5 DEF Sound
    <3>2. CASE ~read
      <4>1. s = Space /\ run.refused = FALSE
        BY <3>2
      <4> HIDE DEF run, m
      <4>2. M = mappings \cup {m}
        BY <2>6, <4>1
      <4>3. Readable(M) = Readable(mappings)
        BY <2>7, <3>2, <4>2
      <4>4. Backs(Space, M, image, pool)
        BY <1>3, <4>3 DEF Backs, Kept
      <4> QED BY <2>6, <4>1, <4>4
    <3> QED BY <3>1, <3>2
  <2> HIDE DEF run, m
  <2> HIDE DEF s
  <2>10. s.ok \in BOOLEAN
    BY <2>9, SpacesAre
  <2>11. /\ pmap' \in PMaps /\ tables' \in TMaps /\ free' \subseteq Frames /\ (s.ok => Space' = s)
    BY <2>8, <2>9, Committed
  <2>12. M \subseteq Mapping /\ Placed(M)
    BY <1>3, <2>2, <2>3
  <2> HIDE DEF M
  <2>13. Typed'
    BY <1>1, <1>3, <2>8, <2>11, <2>12 DEF Typed
  <2>14. ASSUME Live' PROVE Placed(mappings') /\ Backs(Space', mappings', image', pool')
    <3>1. s.ok
      BY <2>8, <2>10, <2>14 DEF Live
    <3> QED BY <1>1, <2>8, <2>9, <2>11, <2>12, <3>1
  <2>15. alive'
    BY <1>1
  <2>16. Placed(mappings)' = Placed(mappings') /\ Backs(Space, mappings, image, pool)' = Backs(Space', mappings', image', pool')
    BY DEF Placed, Backs
  <2> QED BY <2>13, <2>14, <2>15, <2>16 DEF IInv
<1> QED BY <1>4, <1>5

\* Taking a mapping's pages out.
LEMMA ReleasedBacks ==
  ASSUME NEW s, NEW M, NEW I, NEW P, Backs(s, M, I, P), NEW m \in M, M \subseteq Mapping, Placed(M), m.read,
         NEW t, Released(s, t, PagesOf(m))
  PROVE  Backs(t, M \ {m}, I, P)
<1> DEFINE pages == PagesOf(m)
           N == M \ {m}
<1>1. /\ Sound(s) /\ Kept(M) \subseteq DOMAIN s.pmap /\ DOMAIN s.pmap \subseteq Kept(M) \cup Program
      /\ \A p \in DOMAIN s.pmap : p \notin Kept(M) => s.pmap[p] \in I
      /\ P \subseteq All(s) \cup I
  BY DEF Backs
<1>2. /\ Sound(t) /\ All(t) = All(s) /\ DOMAIN t.pmap = DOMAIN s.pmap \ pages
      /\ \A p \in DOMAIN t.pmap : t.pmap[p] = s.pmap[p]
  BY DEF Released
<1>3. Held(m)
  BY DEF Placed
<1>4. pages \cap (Startup \cup Stack) = {}
  BY <1>3, HeldPages
<1>5. \A x \in N : PagesOf(x) \cap pages = {}
  BY <1>3, ApartPages DEF Placed
<1> HIDE DEF pages
<1>6. Readable(M) = Readable(N) \cup pages
  <2>1. M = N \cup {m}
    OBVIOUS
  <2> HIDE DEF N
  <2>2. Readable(N \cup {m}) = Readable(N) \cup pages
    BY ReadableMore DEF pages
  <2> QED BY <2>1, <2>2
<1>7. Readable(N) \cap pages = {}
  BY <1>5 DEF Readable
<1> HIDE DEF N
<1>8. Kept(M) = Kept(N) \cup pages /\ Kept(N) \cap pages = {}
  BY <1>4, <1>6, <1>7 DEF Kept
<1>9. Backs(t, N, I, P)
  BY <1>1, <1>2, <1>8 DEF Backs
<1> QED BY <1>9 DEF N

\* sysc_munmap keeps the invariant: it finds every page of the mapping.
LEMMA MunmapKeeps ==
  ASSUME IInv, NEW addr \in Addrs, NEW length \in Lengths, sysc_munmap(addr, length)
  PROVE  IInv'
<1> DEFINE len    == RoundUp(length)
           exact  == { m \in mappings : addr = m.base /\ addr + len = EndOf(m) }
           m      == CHOOSE x \in exact : TRUE
           pages  == PagesAt(m.base, m.count)
           none   == \/ addr = 0 \/ ~Rounds(length) \/ addr > USER_STACK_TOP
                     \/ len > USER_STACK_TOP - addr \/ exact = {}
           s      == IF m.read THEN Release(Space, pages) ELSE Space
<1>1. /\ alive /\ mode = "ok" /\ alive' = alive /\ image' = image /\ pool' = pool
      /\ task_munmap(addr, length)
  BY DEF sysc_munmap
<1>2. IF none THEN UNCHANGED <<mappings, pmap, tables, free, mode>>
      ELSE IF m.read /\ ~(pages \subseteq DOMAIN pmap)
      THEN mode' = "translate" /\ UNCHANGED <<mappings, pmap, tables, free>>
      ELSE mappings' = mappings \ {m} /\ Commit(s) /\ UNCHANGED mode
  BY <1>1, Zenon DEF task_munmap
<1>3. /\ Typed /\ Live /\ Placed(mappings) /\ Backs(Space, mappings, image, pool)
      /\ Sound(Space) /\ mappings \subseteq Mapping
  BY <1>1 DEF IInv, Live, Backs, Typed
<1>4. CASE none
  <2>1. UNCHANGED <<alive, mappings, pmap, tables, free, image, pool, mode>>
    BY <1>1, <1>2, <1>4
  <2> HIDE DEF none, s, pages
  <2> QED BY <2>1 DEF IInv, Typed, Empty, Live, Space
<1>5. CASE ~none
  <2>1. exact # {}
    BY <1>5
  <2>2. m \in exact
    BY <2>1
  <2>3. m \in mappings /\ m \in Mapping /\ m.read \in BOOLEAN
    BY <1>3, <2>2, MappingsAre
  <2> HIDE DEF none, exact
  <2> HIDE DEF m
  <2>4. pages = PagesOf(m)
    BY DEF PagesOf
  <2>5. Space.ok /\ Space \in Spaces /\ Space.pmap = pmap
    BY <1>3, SpaceType
  <2>6. pages \cap Stack = {}
    BY <1>3, <2>3, <2>4, HeldPages DEF Placed
  <2>7. m.read => pages \subseteq DOMAIN pmap
    <3>1. m.read => pages \subseteq Readable(mappings)
      BY <2>3, <2>4 DEF Readable
    <3> QED BY <1>3, <2>5, <3>1 DEF Backs, Kept
  <2>8. mappings' = mappings \ {m} /\ Commit(s) /\ mode' = mode
    BY <1>2, <1>5, <2>7
  <2> HIDE DEF pages
  <2>9. s \in Spaces /\ s.ok /\ Backs(s, mappings \ {m}, image, pool)
    <3>1. CASE m.read
      <4>1. s = Release(Space, pages)
        BY <3>1
      <4> HIDE DEF s
      <4>2. Released(Space, s, pages)
        BY <1>3, <2>5, <2>6, <2>7, <3>1, <4>1, ReleaseSound
      <4>3. Backs(s, mappings \ {m}, image, pool)
        BY <1>3, <2>3, <2>4, <3>1, <4>2, ReleasedBacks
      <4> QED BY <2>5, <4>2, <4>3 DEF Released, Sound
    <3>2. CASE ~m.read
      <4>1. s = Space
        BY <3>2
      <4>2. mappings = (mappings \ {m}) \cup {m}
        BY <2>3
      <4>3. Readable(mappings) = Readable(mappings \ {m})
        <5> DEFINE N == mappings \ {m}
        <5> HIDE DEF N
        <5>1. Readable(N \cup {m}) = Readable(N)
          BY <3>2, ReadableMore
        <5>2. mappings = N \cup {m}
          BY <4>2 DEF N
        <5> QED BY <5>1, <5>2 DEF N
      <4>4. Backs(Space, mappings \ {m}, image, pool)
        BY <1>3, <4>3 DEF Backs, Kept
      <4> QED BY <2>5, <4>1, <4>4
    <3> QED BY <2>3, <3>1, <3>2
  <2> HIDE DEF s
  <2>10. pmap' \in PMaps /\ tables' \in TMaps /\ free' \subseteq Frames /\ Space' = s
    BY <2>8, <2>9, Committed
  <2>11. Placed(mappings')
    BY <1>3, <2>8 DEF Placed
  <2>12. Typed'
    BY <1>1, <1>3, <2>8, <2>10 DEF Typed
  <2>13. Placed(mappings)' = Placed(mappings') /\ Backs(Space, mappings, image, pool)' = Backs(Space', mappings', image', pool')
    BY DEF Placed, Backs
  <2> QED BY <1>1, <2>8, <2>9, <2>10, <2>11, <2>12, <2>13 DEF IInv
<1> QED BY <1>4, <1>5

\* The frames that the image came in.
LEMMA ImagesAre ==
  ASSUME NEW f \in Images, free \subseteq Frames
  PROVE  /\ f \in [1..ProgramPages -> free]
         /\ \A i, j \in 1..ProgramPages : i # j => f[i] # f[j]
<1>1. f \in [1..ProgramPages -> free] /\ \A i, j \in 1..ProgramPages : i < j => f[i] < f[j]
  BY Zenon DEF Images
<1>2. ProgramPages \in Nat /\ free \subseteq Nat
  BY LayoutAssumption
<1>3. ASSUME NEW i \in 1..ProgramPages, NEW j \in 1..ProgramPages, i # j
      PROVE  f[i] # f[j]
  <2>1. f[i] \in Nat /\ f[j] \in Nat
    BY <1>1, <1>2
  <2>2. i < j \/ j < i
    BY <1>2, <1>3
  <2>3. f[i] < f[j] \/ f[j] < f[i]
    BY <1>1, <2>2
  <2> QED BY <2>1, <2>3
<1> QED BY <1>1, <1>3

\* What laying a task's memory out gives.
LEMMA SpawnKeeps == IInv /\ spawn_user_task => IInv'
<1> SUFFICES ASSUME IInv, spawn_user_task PROVE IInv'
  OBVIOUS
<1> DEFINE img   == CHOOSE f \in Images : TRUE
           s0    == [Space EXCEPT !.free = @ \ Range(img)]
           root  == AddTable(s0, <<0, 0>>)
           stack == MapRun(root, StackAt, [i \in 1..StackPages |-> StackFrame])
           start == MapFresh(stack, StartAt, StartupPages)
           done  == MapRun(start.s, CodeAt, img)
           fails == Images = {} \/ start.refused \/ ~done.ok
<1>1. /\ ~alive /\ mode = "ok"
      /\ IF fails
         THEN mode' = "no_frames" /\ UNCHANGED <<alive, pmap, tables, free, image, pool>>
         ELSE /\ alive' = TRUE /\ image' = Range(img) /\ pool' = free
              /\ Commit(done) /\ UNCHANGED mode
      /\ UNCHANGED mappings
  BY Zenon DEF spawn_user_task, StackAt, StartAt, CodeAt
<1>2. Typed /\ mappings = {} /\ pmap = << >> /\ tables = << >> /\ free \subseteq Frames
  BY <1>1 DEF IInv, Empty, Typed
<1>3. CASE fails
  <2>1. /\ mode' = "no_frames" /\ alive' = alive /\ pmap' = pmap /\ tables' = tables /\ free' = free
        /\ image' = image /\ pool' = pool /\ mappings' = mappings
    BY <1>1, <1>3
  <2> HIDE DEF fails
  <2> QED BY <1>2, <2>1 DEF IInv, Typed, Live
<1>4. CASE ~fails
  <2> DEFINE k == ProgramPages
             I == Range(img)
  <2>1. /\ img \in [1..k -> free] /\ \A i, j \in 1..k : i # j => img[i] # img[j]
    <3>1. img \in Images
      BY <1>4
    <3> HIDE DEF img
    <3> QED BY <1>2, <3>1, ImagesAre
  <2>2. ~start.refused /\ done.ok
    BY <1>4
  <2>3. alive' = TRUE /\ image' = I /\ pool' = free /\ Commit(done) /\ mode' = mode /\ mappings' = mappings
    BY <1>1, <1>4
  <2> HIDE DEF fails, img
  <2>4. /\ I \subseteq free /\ I \subseteq Frames /\ \A i \in 1..k : img[i] \in I
        /\ img \in [1..k -> Frames \cup {StackFrame}]
    BY <1>2, <2>1 DEF Range
  <2>5. /\ s0 = [pmap |-> << >>, tables |-> << >>, free |-> free \ I, ok |-> TRUE] /\ s0 \in Spaces
    <3>1. Space \in Spaces /\ Space = [pmap |-> << >>, tables |-> << >>, free |-> free, ok |-> TRUE]
      BY <1>2, SpaceType DEF Space
    <3> DEFINE F == free \ I
    <3>2. s0 = [Space EXCEPT !.free = F]
      BY <3>1
    <3>3. F \subseteq Frames
      BY <1>2
    <3> HIDE DEF F, s0
    <3>4. s0 = [pmap |-> << >>, tables |-> << >>, free |-> F, ok |-> TRUE]
      BY <3>1, <3>2
    <3>5. << >> \in PMaps /\ << >> \in TMaps
      BY <1>2 DEF Typed
    <3> QED BY <3>3, <3>4, <3>5 DEF F, Spaces
  <2>6. Sound(s0) /\ Stock(s0) = free \ I /\ Range(s0.pmap) = {}
    <3> HIDE DEF s0
    <3>1. DOMAIN s0.pmap = {} /\ DOMAIN s0.tables = {}
      BY <2>5
    <3> QED BY <2>5, <3>1 DEF Sound, Stock, Range
  <2>7. Stocked(s0, root)
    <3> HIDE DEF s0
    <3>1. <<0, 0>> \in Nat \X Nat
      OBVIOUS
    <3> QED BY <2>6, <3>1, AddTableSound
  <2>8. Sound(root) /\ root.pmap = << >> /\ Stock(root) = free \ I
    <3> HIDE DEF root
    <3>1. s0.pmap = << >>
      BY <2>5
    <3> HIDE DEF s0
    <3> QED BY <2>6, <2>7, <3>1 DEF Stocked
  <2> HIDE DEF s0, root
  <2> DEFINE sf == [i \in 1..StackPages |-> StackFrame]
  <2>9. /\ StackPages \in Nat /\ StackAt \in Nat /\ StartAt \in Nat /\ StartupPages \in Nat
        /\ CodeAt \in Nat /\ k \in Nat
    BY Layout
  <2>10. Ran(root, stack, StackAt, sf, StackPages)
    <3>1. sf \in [1..StackPages -> Frames \cup {StackFrame}] /\ \A i \in 1..StackPages : sf[i] = StackFrame
      OBVIOUS
    <3>2. ASSUME NEW i \in 1..StackPages PROVE Fits(root, StackAt + i - 1, sf[i])
      <4>1. StackAt + i - 1 \in Stack /\ StackAt + i - 1 \in UserPages
        BY <2>9, Layout DEF UserPages
      <4> QED BY <3>1, <4>1 DEF Fits
    <3> HIDE DEF sf
    <3>3. \A i, j \in 1..StackPages : i # j /\ sf[i] = sf[j] => sf[i] = StackFrame
      BY <3>1
    <3>4. Ran(root, MapRun(root, StackAt, sf), StackAt, sf, StackPages)
      BY <2>8, <2>9, <3>1, <3>2, <3>3, MapRunSound
    <3> QED BY <3>4 DEF sf
  <2> HIDE DEF stack
  <2>11. /\ Sound(stack) /\ Stock(stack) = free \ I
         /\ \A p \in DOMAIN stack.pmap : stack.pmap[p] = StackFrame
         /\ stack.ok => DOMAIN stack.pmap = Stack
    <3>1. DOMAIN root.pmap = {}
      BY <2>8
    <3>2. \A i \in 1..StackPages : sf[i] = StackFrame
      OBVIOUS
    <3> HIDE DEF sf
    <3>3. Stack = StackAt..(StackAt + StackPages - 1)
      BY Layout
    <3> QED BY <2>8, <2>10, <3>1, <3>2, <3>3 DEF Ran
  <2> HIDE DEF sf
  <2>12. Startup = StartAt..(StartAt + StartupPages - 1) /\ Startup \cap Stack = {}
         /\ UserRun(StartAt, StartupPages)
    BY <2>9, Layout DEF UserRun, UserPages
  <2>13. Backed(stack, start, StartAt, StartupPages)
    BY <2>9, <2>11, <2>12, MapFreshSound
  <2> HIDE DEF start
  <2> DEFINE t == start.s
  <2>14. /\ Sound(t) /\ All(t) \subseteq (free \ I) \cup {StackFrame}
         /\ t.ok => /\ stack.ok /\ free \ I \subseteq All(t) /\ DOMAIN t.pmap = Startup \cup Stack
    <3>1. All(stack) \subseteq (free \ I) \cup {StackFrame}
      BY <2>11 DEF All, Range
    <3>2. ~start.refused
      BY <2>2
    <3> QED BY <2>11, <2>12, <2>13, <3>1, <3>2 DEF Backed
  <2> HIDE DEF t
  <2>15. Ran(t, done, CodeAt, img, k)
    <3>1. ASSUME NEW i \in 1..k PROVE Fits(t, CodeAt + i - 1, img[i])
      <4>1. CodeAt + i - 1 \in UserPages /\ CodeAt + i - 1 \notin Stack
        BY <2>9, Layout DEF UserPages
      <4>2. img[i] \in I /\ img[i] \in Frames /\ img[i] # StackFrame
        BY <2>4, Facts
      <4>3. img[i] \notin All(t)
        BY <2>14, <4>2
      <4>4. img[i] \notin Stock(t) /\ \A p \in DOMAIN t.pmap : t.pmap[p] # img[i]
        BY <4>3 DEF All, Range
      <4> QED BY <4>1, <4>2, <4>4 DEF Fits
    <3>2. \A i, j \in 1..k : i # j /\ img[i] = img[j] => img[i] = StackFrame
      BY <2>1
    <3> HIDE DEF k, I, done
    <3>4. Sound(t) /\ CodeAt \in Nat /\ k \in Nat /\ img \in [1..k -> Frames \cup {StackFrame}]
      <4>1. Sound(t)
        BY <2>14
      <4>2. CodeAt \in Nat /\ k \in Nat
        BY <2>9
      <4>3. img \in [1..k -> Frames \cup {StackFrame}]
        BY <2>4
      <4> QED BY <4>1, <4>2, <4>3
    <3>3. Ran(t, MapRun(t, CodeAt, img), CodeAt, img, k)
      BY <3>1, <3>2, <3>4, MapRunSound
    <3> QED BY <3>3 DEF t, done
  <2> HIDE DEF done
  <2>16. /\ Sound(done) /\ Stock(done) = Stock(t) /\ t.ok
         /\ \A p \in DOMAIN done.pmap : \/ p \in DOMAIN t.pmap /\ done.pmap[p] = t.pmap[p]
                                        \/ \E i \in 1..k : p = CodeAt + i - 1 /\ done.pmap[p] = img[i]
         /\ DOMAIN done.pmap = DOMAIN t.pmap \cup Program
    <3>1. Program = CodeAt..(CodeAt + k - 1)
      BY Layout
    <3> QED BY <2>2, <2>15, <3>1 DEF Ran
  <2>17. Readable({}) = {} /\ Kept({}) = Startup \cup Stack
    BY DEF Readable, Kept
  <2>18. Backs(done, {}, I, free)
    <3>1. \A p \in DOMAIN done.pmap : p \notin Startup \cup Stack => done.pmap[p] \in I
      BY <2>4, <2>14, <2>16
    <3>2. ASSUME NEW p \in DOMAIN t.pmap PROVE p \in DOMAIN done.pmap /\ done.pmap[p] = t.pmap[p]
      <4>1. p \in Startup \cup Stack
        BY <2>14, <2>16
      <4>2. p \in Int /\ StartAt <= p
        BY <2>9, <4>1, Layout
      <4>3. \A i \in 1..k : CodeAt + i - 1 < StartAt
        BY <2>9, Layout
      <4>4. \A i \in 1..k : p # CodeAt + i - 1
        BY <2>9, <4>2, <4>3
      <4> QED BY <2>16, <4>4
    <3>3. All(t) \subseteq All(done)
      BY <2>16, <3>2 DEF All, Range
    <3>4. free \subseteq All(done) \cup I
      BY <2>14, <2>16, <3>3
    <3> QED BY <2>14, <2>16, <2>17, <3>1, <3>4 DEF Backs
  <2>19. done \in Spaces /\ done.ok
    BY <2>2, <2>16 DEF Sound
  <2>20. pmap' \in PMaps /\ tables' \in TMaps /\ free' \subseteq Frames /\ Space' = done
    BY <2>3, <2>19, Committed
  <2>21. Typed'
    BY <1>1, <1>2, <2>3, <2>4, <2>20 DEF Typed
  <2>22. Placed(mappings')
    BY <1>2, <2>3 DEF Placed
  <2>23. Placed(mappings)' = Placed(mappings') /\ Backs(Space, mappings, image, pool)' = Backs(Space', mappings', image', pool')
    BY DEF Placed, Backs
  <2> QED BY <1>2, <2>3, <2>18, <2>20, <2>21, <2>22, <2>23 DEF IInv
<1> QED BY <1>3, <1>4

\* Every step keeps the invariant.
LEMMA NextKeeps == IInv /\ [Next]_vars => IInv'
<1> SUFFICES ASSUME IInv, [Next]_vars PROVE IInv'
  OBVIOUS
<1>1. CASE spawn_user_task
  BY <1>1, SpawnKeeps
<1>2. CASE task_deinit
  BY <1>2, DeinitKeeps
<1>3. ASSUME NEW addr \in Addrs, NEW length \in Lengths, sysc_munmap(addr, length) PROVE IInv'
  BY <1>3, MunmapKeeps
<1>4. ASSUME NEW addr \in Addrs, NEW length \in Lengths, NEW fixed \in BOOLEAN, NEW read \in BOOLEAN,
             sysc_mmap(addr, length, fixed, read)
      PROVE  IInv'
  BY <1>4, MmapKeeps
<1>5. CASE UNCHANGED vars
  <2>1. UNCHANGED <<alive, mappings, pmap, tables, free, image, pool, mode>>
    BY <1>5 DEF vars
  <2> QED BY <2>1 DEF IInv, Typed, Empty, Live, Space
<1> QED BY <1>1, <1>2, <1>3, <1>4, <1>5, Zenon DEF Next

\* It holds always.
LEMMA Invariance == Spec => []IInv
BY InitInv, NextKeeps, PTL DEF Spec

\* What it says of the mappings ...
LEMMA IInvMappings == IInv => MappingsExact
<1> SUFFICES ASSUME IInv PROVE MappingsExact
  OBVIOUS
<1>1. TypeOK
  <2>1. pmap \in PMaps /\ tables \in TMaps
    BY DEF IInv, Typed
  <2>2. DOMAIN pmap \subseteq 0..(USER_VA_END \div PageSize) /\ Range(pmap) \subseteq Frames \cup {StackFrame}
    BY <2>1, PMapsAre DEF UserPages, Range
  <2>3. Range(tables) \subseteq Frames
    BY <2>1, TMapsAre DEF Range
  <2> QED BY <2>2, <2>3 DEF IInv, Typed, TypeOK
<1>2. ASSUME Live
      PROVE  /\ \A m \in mappings : /\ m.base > 0 /\ m.base % PageSize = 0
                                    /\ EndOf(m) <= USER_STACK_TOP
                                    /\ PagesOf(m) \cap Reserved = {}
             /\ \A m, n \in mappings : m # n => PagesOf(m) \cap PagesOf(n) = {}
             /\ Startup \cup Stack \cup UNION { PagesOf(m) : m \in { x \in mappings : x.read } }
                  \subseteq DOMAIN pmap
             /\ DOMAIN pmap \subseteq Startup \cup Stack \cup Program
                  \cup UNION { PagesOf(m) : m \in { x \in mappings : x.read } }
             /\ \A p, q \in DOMAIN pmap \ Stack : p # q => pmap[p] # pmap[q]
  <2>1. Placed(mappings) /\ Backs(Space, mappings, image, pool) /\ Typed
    BY <1>2 DEF IInv
  <2>2. Space.pmap = pmap
    BY <2>1, SpaceType
  <2>3. ASSUME NEW m \in mappings
        PROVE  m.base > 0 /\ m.base % PageSize = 0 /\ EndOf(m) <= USER_STACK_TOP /\ PagesOf(m) \cap Reserved = {}
    <3>1. Held(m)
      BY <2>1 DEF Placed
    <3>2. USER_STARTUP_BASE <= USER_STACK_TOP /\ USER_STARTUP_BASE \in Nat /\ USER_STACK_TOP \in Nat
      BY StartupBelow
    <3>3. EndOf(m) \in Nat
      BY <3>1, EndType DEF Held
    <3>4. EndOf(m) <= USER_STACK_TOP
      BY <3>1, <3>2, <3>3 DEF Held
    <3> QED BY <3>1, <3>4, HeldPages DEF Held
  <2>4. \A m, n \in mappings : m # n => PagesOf(m) \cap PagesOf(n) = {}
    BY <2>1, ApartPages DEF Placed
  <2>5. Kept(mappings) \subseteq DOMAIN pmap /\ DOMAIN pmap \subseteq Kept(mappings) \cup Program
    BY <2>1, <2>2 DEF Backs
  <2>6. \A p, q \in DOMAIN pmap \ Stack : p # q => pmap[p] # pmap[q]
    BY <2>1, <2>2 DEF Backs, Sound
  <2> QED BY <2>3, <2>4, <2>5, <2>6 DEF Kept, Readable
<1> QED BY <1>1, <1>2 DEF MappingsExact

\* ... and of the frames.
LEMMA IInvFrames == IInv => FramesAccounted
<1> SUFFICES ASSUME IInv PROVE FramesAccounted
  OBVIOUS
<1>1. mode # "translate" /\ Typed
  BY DEF IInv, Typed
<1>2. ASSUME Live
      PROVE  LET mapped == Range(pmap) \ {StackFrame}
             IN  /\ free \cap (mapped \cup Range(tables)) = {}
                 /\ mapped \cap Range(tables) = {}
                 /\ IsInjective(tables)
                 /\ pool \ (free \cup mapped \cup Range(tables)) \subseteq image
  <2>1. Backs(Space, mappings, image, pool)
    BY <1>2 DEF IInv
  <2>2. Space.pmap = pmap /\ Space.tables = tables /\ Space.free = free
    BY <1>1, SpaceType
  <2>3. /\ \A p \in DOMAIN pmap : pmap[p] \notin free
        /\ \A t \in DOMAIN tables : tables[t] \notin free
        /\ \A t \in DOMAIN tables, p \in DOMAIN pmap : pmap[p] # tables[t]
        /\ \A t, u \in DOMAIN tables : tables[t] = tables[u] => t = u
    BY <2>1, <2>2 DEF Backs, Sound
  <2>4. IsInjective(tables)
    BY <2>3 DEF IsInjective
  <2>5. pool \subseteq free \cup Range(tables) \cup Range(pmap) \cup image
    BY <2>1, <2>2 DEF Backs, All, Stock
  <2>6. StackFrame \notin pool
    BY <1>1, Facts DEF Typed
  <2> QED BY <2>3, <2>4, <2>5, <2>6 DEF Range
<1> QED BY <1>1, <1>2 DEF FramesAccounted

\* Whatever system calls a task makes, with whatever arguments, its mappings are aligned,
\* disjoint and clear of the startup block and the stack, and its page map holds exactly the
\* readable ones and what the kernel put there (task_mmap, task_munmap).
THEOREM MappingsStayExact == Spec => []MappingsExact
BY Invariance, IInvMappings, PTL

\* While a task lives no frame is lost or used twice, task_mmap's roll-back included, and
\* task_munmap can translate every page it unmaps.
THEOREM FramesStayAccounted == Spec => []FramesAccounted
BY Invariance, IInvFrames, PTL
=============================================================================
