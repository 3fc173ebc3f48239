------------------------------ MODULE VmmProofs ------------------------------
(***************************************************************************)
(* The page tables of any width: every frame taken for a table hangs in    *)
(* its tree, the translations are those the code promises, and the calls   *)
(* do to the address spaces what AddrSpec says.  And the shootdown, for    *)
(* any number of processors.                                               *)
(*                                                                         *)
(* The invariant gives every table its place: whose map it belongs to, its *)
(* level, and the part of the address space that goes through it.  No two  *)
(* tables have the same place, an entry leads to the place below it, and   *)
(* every table is led to (Placed).  So the walk of a page passes one table *)
(* per level and a change to an entry is seen by the pages of its block    *)
(* alone.  Each operation of the code is then shown to keep the places     *)
(* (the ...Placed lemmas) and to move, remove or keep pages (Moved, Gone,  *)
(* Same): first one change to an entry, then pd_get_or_create, the mapping *)
(* of a block, vmm_map and vmm_unmap, and the steps of the specification.  *)
(***************************************************************************)
EXTENDS Vmm, Shootdown, ListFacts, FiniteSetTheorems, TLAPS
------------------------------------------------------------------------------
(* Arithmetic of addresses: a page's number is read level by level.         *)

\* Pages under a table of level l, and which of them a page belongs to.
Span(l)    == Fan * PageSize(l)
Part(x, l) == x \div Span(l)

\* The sizes of the pages under the entries of each level.
LEMMA Sizes ==
  /\ PageSize(1) = 1 /\ PageSize(2) = Fan /\ PageSize(3) = Fan * Fan /\ PageSize(4) = Fan * Fan * Fan
  /\ \A l \in 1..4 : PageSize(l) \in Nat /\ PageSize(l) > 0 /\ Span(l) \in Nat /\ Span(l) > 0
  /\ \A l \in 2..4 : PageSize(l) = Span(l - 1)
  /\ Fan \in Nat /\ Fan > 1
<1>1. Fan \in Nat /\ Fan > 1
  BY VmmAssumption
<1>2. /\ PageSize(1) = 1 /\ PageSize(2) = Fan /\ PageSize(3) = Fan * Fan /\ PageSize(4) = Fan * Fan * Fan
  BY DEF PageSize, PML1, PML2, PML3, PML4
<1>3. Fan * Fan \in Nat /\ Fan * Fan > 0
  BY <1>1
<1>4. Fan * Fan * Fan \in Nat /\ Fan * Fan * Fan > 0
  BY <1>1, <1>3
<1>5. \A l \in 1..4 : PageSize(l) \in Nat /\ PageSize(l) > 0
  BY <1>1, <1>2, <1>3, <1>4
<1>6. ASSUME NEW l \in 1..4 PROVE Span(l) \in Nat /\ Span(l) > 0
  <2> DEFINE p == PageSize(l)
  <2>1. p \in Nat /\ p > 0
    BY <1>5
  <2> HIDE DEF p
  <2>2. Fan * p \in Nat /\ Fan * p > 0
    BY <1>1, <2>1
  <2> QED BY <2>2 DEF Span, p
<1>7. \A l \in 2..4 : PageSize(l) = Span(l - 1)
  BY <1>1, <1>2 DEF Span
<1> QED BY <1>1, <1>2, <1>5, <1>6, <1>7

\* Dividing twice is dividing by the product.
LEMMA DivDiv ==
  ASSUME NEW x \in Nat, NEW n \in Nat, NEW m \in Nat, n > 0, m > 0
  PROVE  (x \div n) \div m = x \div (m * n)
OBVIOUS

\* A page's index at a level is a slot, and with its part of that level it tells the block.
LEMMA Indices ==
  ASSUME NEW x \in Pages, NEW l \in 1..4
  PROVE  /\ x \in Nat /\ Index(x, l) \in Slots /\ Part(x, l) \in Nat
         /\ x \div PageSize(l) = Fan * Part(x, l) + Index(x, l)
<1> DEFINE p == PageSize(l)
           q == x \div p
<1>0. x \in Nat
  BY Sizes, VmmAssumption DEF Pages
<1>1. p \in Nat /\ p > 0 /\ Fan \in Nat /\ Fan > 0
  BY Sizes
<1>p. Index(x, l) = q % Fan /\ Part(x, l) = x \div (Fan * p)
  BY DEF Index, Part, Span
<1> HIDE DEF p
<1>2. q \in Nat
  BY <1>0, <1>1, DivMod
<1> HIDE DEF q
<1>3. q = Fan * (q \div Fan) + (q % Fan) /\ q \div Fan \in Nat /\ q % Fan \in 0..(Fan - 1)
  BY <1>1, <1>2, DivMod
<1>4. (x \div p) \div Fan = x \div (Fan * p)
  BY <1>0, <1>1, DivDiv
<1> QED BY <1>0, <1>p, <1>3, <1>4 DEF q, p, Slots

\* The whole directory is one part; below, an entry's part is the table's and its index.
LEMMA Parts ==
  ASSUME NEW x \in Pages
  PROVE  /\ Part(x, 4) = 0 /\ x % PageSize(1) = 0
         /\ \A l \in 2..4 : Part(x, l - 1) = Part(x, l) * Fan + Index(x, l)
<1>0. x \in Nat /\ Fan \in Nat /\ Fan > 1
  BY 1 \in 1..4, Indices, Sizes
<1>1. Part(x, 4) = 0
  <2>1. x < Span(4) /\ Span(4) \in Nat
    BY <1>0, Sizes DEF Pages, Span, PML4
  <2> QED BY <1>0, <2>1 DEF Part
<1>2. x % 1 = 0
  BY <1>0
<1>3. ASSUME NEW l \in 2..4 PROVE Part(x, l - 1) = Part(x, l) * Fan + Index(x, l)
  <2>1. PageSize(l) = Span(l - 1)
    BY Sizes
  <2>2. x \div PageSize(l) = Fan * Part(x, l) + Index(x, l) /\ Part(x, l) \in Nat /\ Index(x, l) \in Slots
    BY Indices
  <2>3. Fan * Part(x, l) = Part(x, l) * Fan
    BY <1>0, <2>2
  <2> QED BY <2>1, <2>2, <2>3 DEF Part
<1> QED BY <1>1, <1>2, <1>3, Sizes

\* The offset in a large page is the offset in one of its parts.
LEMMA Offsets ==
  ASSUME NEW x \in Pages, NEW l \in 2..4
  PROVE  /\ x % PageSize(l) = Index(x, l - 1) * PageSize(l - 1) + (x % PageSize(l - 1))
         /\ x % PageSize(l) \in Nat /\ x % PageSize(l - 1) \in Nat
         /\ Index(x, l - 1) * PageSize(l - 1) \in Nat
<1> DEFINE p == PageSize(l - 1)
           i == Index(x, l - 1)
           t == Part(x, l - 1)
           r == x % p
<1>1. /\ x \in Nat /\ i \in 0..(Fan - 1) /\ t \in Nat /\ x \div p = Fan * t + i
  BY Indices, l - 1 \in 1..4 DEF Slots
<1>2. p \in Nat /\ p > 0 /\ Fan \in Nat /\ Fan > 1
  BY Sizes, l - 1 \in 1..4
<1>3. PageSize(l) = Fan * p
  BY Sizes DEF Span
<1> HIDE DEF p, i, t
<1>4. r \in 0..(p - 1) /\ x = p * (x \div p) + r
  BY <1>1, <1>2, DivMod
<1> HIDE DEF r
<1>5. x = p * (Fan * t + i) + r
  BY <1>1, <1>4
<1>6. p * (Fan * t + i) = (Fan * p) * t + i * p
  BY <1>1, <1>2
<1>7. Fan * p \in Nat /\ Fan * p > 0 /\ i * p \in Nat
  BY <1>1, <1>2
<1>8. i * p + r \in 0..(Fan * p - 1)
  <2>1. i * p <= (Fan - 1) * p
    BY <1>1, <1>2
  <2>2. (Fan - 1) * p = Fan * p - p
    BY <1>2
  <2> QED BY <1>2, <1>4, <1>7, <2>1, <2>2
<1>9. x = (Fan * p) * t + (i * p + r)
  <2>1. (Fan * p) * t \in Nat
    BY <1>1, <1>7
  <2> QED BY <1>5, <1>6, <2>1, <1>7, <1>4, <1>2
<1>10. x % (Fan * p) = i * p + r
  <2> DEFINE n == Fan * p
             d == i * p + r
  <2>1. n \in Nat /\ n > 0 /\ d \in 0..(n - 1) /\ x = n * t + d
    BY <1>7, <1>8, <1>9
  <2> HIDE DEF n, d
  <2>2. x % n = d
    BY <1>1, <2>1, DivUnique
  <2> QED BY <2>2 DEF n, d
<1> QED BY <1>3, <1>4, <1>7, <1>10, <1>2 DEF p, i, r

\* Pages of one block share an entry, and are offset from an aligned first one.
LEMMA Blocks ==
  ASSUME NEW x \in Pages, NEW y \in Pages, NEW l \in 1..4
  PROVE  /\ x \div PageSize(l) = y \div PageSize(l)
              <=> Part(x, l) = Part(y, l) /\ Index(x, l) = Index(y, l)
         /\ y % PageSize(l) = 0 /\ x \div PageSize(l) = y \div PageSize(l)
              => x - y = x % PageSize(l)
<1>1. /\ Index(x, l) \in Slots /\ Part(x, l) \in Nat /\ Index(y, l) \in Slots /\ Part(y, l) \in Nat
      /\ x \div PageSize(l) = Fan * Part(x, l) + Index(x, l)
      /\ y \div PageSize(l) = Fan * Part(y, l) + Index(y, l)
      /\ x \in Nat /\ y \in Nat
  BY Indices
<1>2. Fan \in Nat /\ Fan > 1 /\ PageSize(l) \in Nat /\ PageSize(l) > 0
  BY Sizes
<1>3. ASSUME NEW a \in Nat, NEW b \in Nat, NEW i \in Slots, NEW j \in Slots, Fan * a + i = Fan * b + j
      PROVE  a = b /\ i = j
  <2>1. i \in 0..(Fan - 1) /\ j \in 0..(Fan - 1)
    BY DEF Slots
  <2>2. (Fan * a + i) \div Fan = a /\ (Fan * b + j) \div Fan = b
    BY <1>2, <2>1, DivUnique
  <2>3. (Fan * a + i) % Fan = i /\ (Fan * b + j) % Fan = j
    BY <1>2, <2>1, DivUnique
  <2> QED BY <1>3, <2>2, <2>3
<1>4. ASSUME y % PageSize(l) = 0, x \div PageSize(l) = y \div PageSize(l) PROVE x - y = x % PageSize(l)
  <2> DEFINE p == PageSize(l)
             q == x \div p
             a == p * q
  <2>0. p \in Nat /\ p > 0 /\ x \in Nat /\ y \in Nat /\ x \div p = y \div p
    BY <1>1, <1>2, <1>4
  <2>1. x = p * q + (x % p) /\ y = p * q + (y % p) /\ q \in Nat /\ (x % p) \in Nat /\ p \in Nat
    <3> HIDE DEF p
    <3> QED BY <2>0, DivMod
  <2>2. y % p = 0
    BY <1>4
  <2>3. a \in Nat
    BY <2>1
  <2> HIDE DEF p, q
  <2>4. x = a + (x % p) /\ y = a
    BY <2>1, <2>2, <2>3
  <2> HIDE DEF a
  <2>5. x - y = x % p
    BY <2>1, <2>3, <2>4
  <2> QED BY <2>5 DEF p
<1> QED BY <1>1, <1>3, <1>4
------------------------------------------------------------------------------
(* The shape of the tables.                                                  *)

IsLink(e)      == e.present /\ ~e.large
Place          == [own : {"k", "t"}, lev : 1..4, pre : Nat]
Child(p, i)    == [own |-> p.own, lev |-> p.lev - 1, pre |-> p.pre * Fan + i]
OwnSlots(f, r) == IF f = r THEN UserSlots ELSE Slots
KSlot          == Fan \div 2

\* Where each table hangs: whose it is, its level, and the part of the address
\* space that goes through it.  r is the task's directory.
Roots(m, r, pl) ==
  /\ KRoot \in DOMAIN m /\ pl[KRoot] = [own |-> "k", lev |-> 4, pre |-> 0]
  /\ r # 0 => r \in DOMAIN m /\ pl[r] = [own |-> "t", lev |-> 4, pre |-> 0]
  /\ \A f \in DOMAIN m : pl[f].lev = 4 => f \in {KRoot, r}
  /\ r = 0 => \A f \in DOMAIN m : pl[f].own = "k"

Linked(m, r, pl) ==
  \A f \in DOMAIN m, i \in Slots :
    i \in OwnSlots(f, r) /\ pl[f].lev > 1 /\ IsLink(m[f][i])
      => m[f][i].addr \in DOMAIN m /\ pl[m[f][i].addr] = Child(pl[f], i)

Reached(m, r, pl) ==
  \A f \in DOMAIN m : pl[f].lev < 4 =>
    \E g \in DOMAIN m : \E i \in OwnSlots(g, r) :
      pl[g].lev > 1 /\ IsLink(m[g][i]) /\ m[g][i].addr = f

\* A directory has no pages, and a task's map no large ones.
NoLarge(p) == p.lev = 4 \/ (p.own = "t" /\ p.lev > 1)

\* What the entries may be: the kernel's directory never changes and a task's
\* has a copy of its upper half; the last entry of a kernel page is not for
\* user mode, and every table of the task is.
Contents(m, r, pl) ==
  /\ m[KRoot] = [i \in Slots |-> IF i = KSlot THEN Table(KRoot + 1, TRUE) ELSE Absent]
  /\ r # 0 => \A i \in Slots \ UserSlots : m[r][i] = m[KRoot][i]
  /\ \A f \in DOMAIN m, i \in Slots : i \in OwnSlots(f, r) =>
       /\ NoLarge(pl[f]) => ~m[f][i].large
       /\ pl[f].own = "k" /\ (pl[f].lev = 1 \/ ~IsLink(m[f][i])) => ~m[f][i].user
       /\ pl[f].own = "t" /\ pl[f].lev > 1 /\ IsLink(m[f][i]) => m[f][i].user

Typed(m, r) ==
  /\ IsFiniteSet(DOMAIN m) /\ DOMAIN m \subseteq Frames \cup KRoot..(KRoot + 2)
  /\ m = [f \in DOMAIN m |-> m[f]]
  /\ \A f \in DOMAIN m : m[f] \in [Slots -> Entries]
  /\ r \in Frames \cup {0}

Placed(m, r, pl) ==
  /\ Typed(m, r)
  /\ pl \in [DOMAIN m -> Place]
  /\ \A f, g \in DOMAIN m : pl[f] = pl[g] => f = g
  /\ Roots(m, r, pl) /\ Linked(m, r, pl) /\ Reached(m, r, pl) /\ Contents(m, r, pl)

\* The walk of page x in o's map: the tables it passes, and the one it stops at.
Root(o, r)             == IF o = "k" THEN KRoot ELSE r
Space(o, r)            == { x \in Pages : o = "t" => r # 0 /\ Index(x, 4) \in UserSlots }
Passes(pl, o, x, f)    == pl[f].own = o /\ pl[f].pre = Part(x, pl[f].lev)
Slot(pl, x, f)         == Index(x, pl[f].lev)
Stops(m, pl, o, x, f)  ==
  f \in DOMAIN m /\ Passes(pl, o, x, f) /\ (pl[f].lev = 1 \/ ~IsLink(m[f][Slot(pl, x, f)]))
Result(e, x, l)        == IF e.present THEN <<TRUE, e.addr + (x % PageSize(l))>> ELSE <<FALSE, 0>>
Outcome(m, pl, x, f)   == Result(m[f][Slot(pl, x, f)], x, pl[f].lev)

\* The task's directory is not the kernel's, and no frame is frame 0.
LEMMA NotKRoot ==
  ASSUME NEW r \in Frames \cup {0}
  PROVE  r # KRoot /\ 0 \notin Frames /\ KRoot # 0
BY VmmAssumption

\* The kernel's slot of a directory is the first of its upper half.
LEMMA Half == KSlot \in Slots /\ KSlot \notin UserSlots /\ UserSlots \subseteq Slots
<1>1. Fan \in Nat /\ Fan > 1
  BY VmmAssumption
<1>2. Fan \div 2 \in 0..(Fan - 1)
  BY <1>1
<1> QED BY <1>1, <1>2 DEF KSlot, Slots, UserSlots

\* One step of a walk.
LEMMA DownOne ==
  ASSUME NEW m, NEW w, NEW x
  PROVE  Down(m, {w}, x) = {IF w.level = PML1 \/ ~w.entry.present \/ w.entry.large THEN w
                            ELSE At(m, w.entry.addr, w.level - 1, x)}
BY DEF Down

\* A walk is at a table it passes; it stays where it stops and goes on elsewhere.
LEMMA DownStep ==
  ASSUME NEW m, NEW r, NEW pl, Placed(m, r, pl), NEW o \in {"k", "t"}, NEW x \in Space(o, r),
         NEW f \in DOMAIN m, Passes(pl, o, x, f)
  PROVE  \E g \in DOMAIN m :
           /\ Passes(pl, o, x, g)
           /\ Down(m, {At(m, f, pl[f].lev, x)}, x) = {At(m, g, pl[g].lev, x)}
           /\ \/ g = f /\ Stops(m, pl, o, x, f)
              \/ pl[g].lev = pl[f].lev - 1 /\ pl[f].lev > 1
<1> DEFINE l == pl[f].lev
           i == Index(x, l)
           e == m[f][i]
           w == At(m, f, l, x)
<1>1. pl[f] \in Place /\ l \in 1..4 /\ pl[f].own = o /\ pl[f].pre = Part(x, l)
  BY DEF Placed, Place, Passes
<1>2. x \in Pages /\ i \in Slots
  BY <1>1, Indices DEF Space
<1>3. w.table = f /\ w.level = l /\ w.entry = e
  BY DEF At
<1>4. CASE l = 1 \/ ~IsLink(e)
  <2>1. Down(m, {w}, x) = {w}
    BY <1>3, <1>4, DownOne DEF PML1, IsLink
  <2>2. Stops(m, pl, o, x, f)
    BY <1>4 DEF Stops, Slot
  <2> QED BY <2>1, <2>2
<1>5. CASE l > 1 /\ IsLink(e)
  <2> DEFINE g == e.addr
  <2>1. i \in OwnSlots(f, r)
    <3>1. CASE f # r
      BY <3>1, <1>2 DEF OwnSlots
    <3>2. CASE f = r
      <4>1. r # 0
        <5>1. DOMAIN m \subseteq Frames \cup KRoot..(KRoot + 2) /\ r \in Frames \cup {0}
          BY DEF Placed, Typed
        <5> QED BY <5>1, <3>2, VmmAssumption
      <4>2. pl[f] = [own |-> "t", lev |-> 4, pre |-> 0]
        BY <3>2, <4>1 DEF Placed, Roots
      <4>3. o = "t" /\ l = 4
        BY <1>1, <4>2
      <4> QED BY <3>2, <4>3 DEF OwnSlots, Space
    <3> QED BY <3>1, <3>2
  <2>2. g \in DOMAIN m /\ pl[g] = Child(pl[f], i)
    BY <1>2, <1>5, <2>1 DEF Placed, Linked
  <2>3. pl[g].own = o /\ pl[g].lev = l - 1 /\ pl[g].pre = Part(x, l) * Fan + Index(x, l)
    BY <1>1, <2>2 DEF Child
  <2>4. Passes(pl, o, x, g)
    <3>1. l \in 2..4
      BY <1>1, <1>5
    <3> QED BY <1>2, <2>3, <3>1, Parts DEF Passes
  <2>5. Down(m, {w}, x) = {At(m, g, l - 1, x)}
    <3>1. e.present /\ ~e.large /\ l # 1
      BY <1>1, <1>5 DEF IsLink
    <3> HIDE DEF w, e, l
    <3>2. ~(w.level = PML1 \/ ~w.entry.present \/ w.entry.large)
      BY <1>3, <3>1 DEF PML1
    <3>3. Down(m, {w}, x) = {At(m, w.entry.addr, w.level - 1, x)}
      BY <3>2, DownOne
    <3> QED BY <1>3, <3>3
  <2> QED BY <2>2, <2>3, <2>4, <2>5, <1>5
<1>6. (l = 1 \/ ~IsLink(e)) \/ (l > 1 /\ IsLink(e))
  BY <1>1 DEF IsLink
<1> QED BY <1>4, <1>5, <1>6, Zenon

\* The walk of a page starts at the directory of its map.
LEMMA RootPasses ==
  ASSUME NEW m, NEW r, NEW pl, Placed(m, r, pl), NEW o \in {"k", "t"}, NEW x \in Space(o, r)
  PROVE  Root(o, r) \in DOMAIN m /\ Passes(pl, o, x, Root(o, r)) /\ pl[Root(o, r)].lev = 4
<1>1. x \in Pages /\ (o = "t" => r # 0)
  BY DEF Space
<1> QED BY <1>1, Parts DEF Placed, Roots, Root, Passes

\* The walk ends at the table where it stops.
LEMMA WalkStops ==
  ASSUME NEW m, NEW r, NEW pl, Placed(m, r, pl), NEW o \in {"k", "t"}, NEW x \in Space(o, r)
  PROVE  \E f \in DOMAIN m : Stops(m, pl, o, x, f) /\ WalkIn(m, Root(o, r), x) = At(m, f, pl[f].lev, x)
<1> DEFINE f4 == Root(o, r)
<1>1. f4 \in DOMAIN m /\ Passes(pl, o, x, f4) /\ pl[f4].lev = 4
  BY RootPasses
<1> HIDE DEF f4
<1>2. PICK f3 \in DOMAIN m :
           /\ Passes(pl, o, x, f3)
           /\ Down(m, {At(m, f4, 4, x)}, x) = {At(m, f3, pl[f3].lev, x)}
           /\ \/ Stops(m, pl, o, x, f3)
              \/ pl[f3].lev = 3
  BY <1>1, DownStep
<1>3. PICK f2 \in DOMAIN m :
           /\ Passes(pl, o, x, f2)
           /\ Down(m, {At(m, f3, pl[f3].lev, x)}, x) = {At(m, f2, pl[f2].lev, x)}
           /\ \/ f2 = f3 /\ Stops(m, pl, o, x, f3)
              \/ pl[f2].lev = pl[f3].lev - 1 /\ pl[f3].lev > 1
  BY <1>2, DownStep
<1>4. PICK f1 \in DOMAIN m :
           /\ Passes(pl, o, x, f1)
           /\ Down(m, {At(m, f2, pl[f2].lev, x)}, x) = {At(m, f1, pl[f1].lev, x)}
           /\ \/ f1 = f2 /\ Stops(m, pl, o, x, f2)
              \/ pl[f1].lev = pl[f2].lev - 1 /\ pl[f2].lev > 1
  BY <1>3, DownStep
<1>5. WalkIn(m, Root(o, r), x) = At(m, f1, pl[f1].lev, x)
  BY <1>2, <1>3, <1>4 DEF WalkIn, PML4, f4
<1>6. Stops(m, pl, o, x, f1)
  <2>1. \A g, h \in DOMAIN m : Stops(m, pl, o, x, g) /\ pl[g].lev > 1 => ~IsLink(m[g][Slot(pl, x, g)])
    BY DEF Stops
  <2>2. ASSUME NEW g \in DOMAIN m, NEW h \in DOMAIN m, Stops(m, pl, o, x, g), pl[g].lev > 1,
               Down(m, {At(m, g, pl[g].lev, x)}, x) = {At(m, h, pl[h].lev, x)},
               pl[h].lev = pl[g].lev - 1
        PROVE  FALSE
    <3>1. ~IsLink(m[g][Index(x, pl[g].lev)])
      BY <2>2 DEF Stops, Slot
    <3>2. Down(m, {At(m, g, pl[g].lev, x)}, x) = {At(m, g, pl[g].lev, x)}
      BY <3>1, DownOne DEF At, IsLink
    <3>3. At(m, g, pl[g].lev, x) = At(m, h, pl[h].lev, x)
      BY <2>2, <3>2, Zenon
    <3>5. pl[g].lev = pl[h].lev
      <4>1. At(m, g, pl[g].lev, x).level = pl[g].lev /\ At(m, h, pl[h].lev, x).level = pl[h].lev
        BY DEF At
      <4> QED BY <3>3, <4>1
    <3>4. pl[g] \in Place
      BY DEF Placed
    <3> QED BY <2>2, <3>5, <3>4 DEF Place
  <2>3. CASE Stops(m, pl, o, x, f3)
    BY <2>3, <1>3, <1>4, <2>2
  <2>4. CASE pl[f3].lev = 3
    BY <2>4, <1>3, <1>4, <2>2 DEF Stops
  <2> QED BY <1>2, <2>3, <2>4
<1> QED BY <1>5, <1>6

\* A table that is passed was led to by the entry for the page.
LEMMA Parent ==
  ASSUME NEW m, NEW r, NEW pl, Placed(m, r, pl), NEW o \in {"k", "t"}, NEW x \in Space(o, r),
         NEW f \in DOMAIN m, Passes(pl, o, x, f), pl[f].lev < 4
  PROVE  \E g \in DOMAIN m : /\ Passes(pl, o, x, g) /\ pl[g].lev = pl[f].lev + 1
                             /\ IsLink(m[g][Slot(pl, x, g)]) /\ m[g][Slot(pl, x, g)].addr = f
<1>0. PICK g \in DOMAIN m : \E i \in OwnSlots(g, r) :
        pl[g].lev > 1 /\ IsLink(m[g][i]) /\ m[g][i].addr = f
  BY DEF Placed, Reached
<1>1. PICK i \in OwnSlots(g, r) : pl[g].lev > 1 /\ IsLink(m[g][i]) /\ m[g][i].addr = f
  BY <1>0
<1>2. i \in Slots
  BY Half DEF OwnSlots
<1>3. pl[f] = Child(pl[g], i) /\ pl[f] \in Place /\ pl[g] \in Place
  BY <1>1, <1>2 DEF Placed, Linked
<1> DEFINE l == pl[g].lev
<1>4. l \in 2..4 /\ pl[f].lev = l - 1 /\ pl[g].own = o /\ pl[f].pre = pl[g].pre * Fan + i
  BY <1>1, <1>3 DEF Child, Place, Passes
<1>5. x \in Pages /\ pl[f].pre = Part(x, l - 1)
  BY <1>4 DEF Passes, Space
<1>6. Part(x, l - 1) = Part(x, l) * Fan + Index(x, l) /\ Index(x, l) \in Slots /\ Part(x, l) \in Nat
  BY <1>4, <1>5, Parts, Indices
<1>7. pl[g].pre = Part(x, l) /\ i = Index(x, l)
  <2> DEFINE a == pl[g].pre
             b == Part(x, l)
             j == Index(x, l)
  <2>1. a \in Nat /\ b \in Nat /\ i \in 0..(Fan - 1) /\ j \in 0..(Fan - 1) /\ Fan \in Nat /\ Fan > 1
    BY <1>2, <1>3, <1>6, Sizes DEF Place, Slots
  <2>2. a * Fan + i = b * Fan + j
    BY <1>4, <1>5, <1>6
  <2> HIDE DEF a, b, j
  <2>3. Fan * a + i = Fan * b + j
    BY <2>1, <2>2
  <2>4. (Fan * a + i) \div Fan = a /\ (Fan * b + j) \div Fan = b
    BY <2>1, DivUnique
  <2>5. (Fan * a + i) % Fan = i /\ (Fan * b + j) % Fan = j
    BY <2>1, DivUnique
  <2> QED BY <2>3, <2>4, <2>5 DEF a, b, j
<1> QED BY <1>1, <1>4, <1>7 DEF Passes, Slot

\* Two tables a page passes at the same level are the same.
LEMMA SameLevel ==
  ASSUME NEW m, NEW r, NEW pl, Placed(m, r, pl), NEW o, NEW x,
         NEW f \in DOMAIN m, NEW g \in DOMAIN m, Passes(pl, o, x, f), Passes(pl, o, x, g),
         pl[f].lev = pl[g].lev
  PROVE  f = g
<1>1. pl[f] \in Place /\ pl[g] \in Place
  BY DEF Placed
<1>2. pl[f] = pl[g]
  BY <1>1 DEF Place, Passes
<1> QED BY <1>2 DEF Placed

\* A walk passes no table below the one it stops at.
LEMMA StopsLowest ==
  ASSUME NEW m, NEW r, NEW pl, Placed(m, r, pl), NEW o \in {"k", "t"}, NEW x \in Space(o, r),
         NEW f \in DOMAIN m, Passes(pl, o, x, f), NEW g, Stops(m, pl, o, x, g)
  PROVE  pl[g].lev <= pl[f].lev
<1> SUFFICES ASSUME pl[f].lev < pl[g].lev PROVE FALSE
  <2>1. pl[f] \in Place /\ pl[g] \in Place
    BY DEF Placed, Stops
  <2> QED BY <2>1 DEF Place
<1>1. g \in DOMAIN m /\ Passes(pl, o, x, g) /\ pl[g] \in Place /\ pl[f] \in Place
  BY DEF Stops, Placed
<1>2. ASSUME NEW h \in DOMAIN m, Passes(pl, o, x, h), pl[h].lev + 1 = pl[g].lev PROVE FALSE
  <2>1. pl[h] \in Place /\ pl[h].lev < 4
    BY <1>1, <1>2 DEF Placed, Place
  <2>2. PICK a \in DOMAIN m : /\ Passes(pl, o, x, a) /\ pl[a].lev = pl[h].lev + 1
                              /\ IsLink(m[a][Slot(pl, x, a)])
    BY <1>2, <2>1, Parent
  <2>3. a = g
    BY <1>1, <1>2, <2>2, SameLevel
  <2> QED BY <1>1, <1>2, <2>1, <2>2, <2>3 DEF Stops, Place
<1>3. ASSUME NEW h \in DOMAIN m, Passes(pl, o, x, h), pl[h].lev + 2 = pl[g].lev PROVE FALSE
  <2>1. pl[h] \in Place /\ pl[h].lev < 4
    BY <1>1, <1>3 DEF Placed, Place
  <2>2. PICK a \in DOMAIN m : Passes(pl, o, x, a) /\ pl[a].lev = pl[h].lev + 1
    BY <1>3, <2>1, Parent
  <2> QED BY <1>1, <1>2, <1>3, <2>1, <2>2 DEF Place
<1>4. ASSUME NEW h \in DOMAIN m, Passes(pl, o, x, h), pl[h].lev + 3 = pl[g].lev PROVE FALSE
  <2>1. pl[h] \in Place /\ pl[h].lev < 4
    BY <1>1, <1>4 DEF Placed, Place
  <2>2. PICK a \in DOMAIN m : Passes(pl, o, x, a) /\ pl[a].lev = pl[h].lev + 1
    BY <1>4, <2>1, Parent
  <2> QED BY <1>1, <1>3, <1>4, <2>1, <2>2 DEF Place
<1>5. pl[f].lev + 1 = pl[g].lev \/ pl[f].lev + 2 = pl[g].lev \/ pl[f].lev + 3 = pl[g].lev
  BY <1>1 DEF Place
<1> QED BY <1>2, <1>3, <1>4, <1>5

\* A walk stops at one table.
LEMMA StopsOnce ==
  ASSUME NEW m, NEW r, NEW pl, Placed(m, r, pl), NEW o \in {"k", "t"}, NEW x \in Space(o, r),
         NEW f, NEW g, Stops(m, pl, o, x, f), Stops(m, pl, o, x, g)
  PROVE  f = g
<1>1. /\ f \in DOMAIN m /\ g \in DOMAIN m /\ Passes(pl, o, x, f) /\ Passes(pl, o, x, g)
      /\ pl[f] \in Place /\ pl[g] \in Place
  BY DEF Stops, Placed
<1>2. pl[f].lev <= pl[g].lev /\ pl[g].lev <= pl[f].lev
  BY <1>1, StopsLowest
<1>3. pl[f].lev = pl[g].lev
  BY <1>1, <1>2 DEF Place
<1> QED BY <1>1, <1>3, SameLevel

\* So the walk is known from the table it stops at.
LEMMA WalkIs ==
  ASSUME NEW m, NEW r, NEW pl, Placed(m, r, pl), NEW o \in {"k", "t"}, NEW x \in Space(o, r),
         NEW f, Stops(m, pl, o, x, f)
  PROVE  /\ WalkIn(m, Root(o, r), x) = At(m, f, pl[f].lev, x)
         /\ WalkIn(m, Root(o, r), x).table = f
         /\ WalkIn(m, Root(o, r), x).level = pl[f].lev
         /\ WalkIn(m, Root(o, r), x).entry = m[f][Slot(pl, x, f)]
<1>1. WalkIn(m, Root(o, r), x) = At(m, f, pl[f].lev, x)
  BY WalkStops, StopsOnce
<1> QED BY <1>1 DEF At, Slot
------------------------------------------------------------------------------
(* The changes a call makes to the tables, one at a time.                    *)

\* A table n with entries T is hung into entry i of table t.
Hung(m, t, i, n, T, user) ==
  [f \in DOMAIN m \cup {n} |->
     IF f = n THEN T ELSE IF f = t THEN [m[t] EXCEPT ![i] = Table(n, user)] ELSE m[f]]
PlaceAt(pl, t, i, n) == [f \in DOMAIN pl \cup {n} |-> IF f = n THEN Child(pl[t], i) ELSE pl[f]]

\* No table of the task, and not the kernel's directory, is entered by mistake.
LEMMA OwnRoot ==
  ASSUME NEW m, NEW r, NEW pl, Placed(m, r, pl)
  PROVE  /\ r # KRoot /\ 0 \notin DOMAIN m /\ r \in Frames \cup {0}
         /\ \A f \in DOMAIN m : pl[f] \in Place /\ m[f] \in [Slots -> Entries]
         /\ \A f, i : i \in OwnSlots(f, r) => i \in Slots
         /\ \A f \in DOMAIN m : f # r => OwnSlots(f, r) = Slots
<1>1. r \in Frames \cup {0} /\ DOMAIN m \subseteq Frames \cup KRoot..(KRoot + 2)
  BY DEF Placed, Typed
<1>2. r # KRoot /\ 0 \notin Frames /\ 0 \notin KRoot..(KRoot + 2)
  BY <1>1, VmmAssumption
<1> QED BY <1>1, <1>2, Half DEF Placed, Typed, OwnSlots

\* A new table, empty or with the parts of a large page, keeps the places: pd_get_or_create and pd_split.
LEMMA HangPlaced ==
  ASSUME NEW m, NEW r, NEW pl, Placed(m, r, pl),
         NEW t \in DOMAIN m, t # KRoot, NEW i \in OwnSlots(t, r), pl[t].lev > 1, ~IsLink(m[t][i]),
         NEW n \in Frames, n \notin DOMAIN m,
         NEW user \in BOOLEAN, pl[t].own = "t" => user,
         NEW T \in [Slots -> Entries],
         \A j \in Slots : /\ pl[t].lev > 2 => ~IsLink(T[j])
                          /\ pl[t].own = "k" => ~T[j].user
                          /\ NoLarge(Child(pl[t], i)) => ~T[j].large
  PROVE  Placed(Hung(m, t, i, n, T, user), r, PlaceAt(pl, t, i, n))
<1> DEFINE m2  == Hung(m, t, i, n, T, user)
           pl2 == PlaceAt(pl, t, i, n)
           D2  == DOMAIN m \cup {n}
<1>1. /\ DOMAIN m2 = D2 /\ m2[n] = T /\ m2 = [f \in DOMAIN m2 |-> m2[f]]
      /\ \A f \in DOMAIN m : f # t => m2[f] = m[f]
      /\ m2[t] = [m[t] EXCEPT ![i] = Table(n, user)]
  BY DEF Hung
<1>2. DOMAIN pl = DOMAIN m
  BY DEF Placed
<1>3. pl2[n] = Child(pl[t], i) /\ (\A f \in DOMAIN m : pl2[f] = pl[f]) /\ DOMAIN pl2 = D2
      /\ pl2 = [f \in D2 |-> pl2[f]]
  BY <1>2 DEF PlaceAt
<1>4. /\ r # KRoot /\ 0 \notin DOMAIN m /\ r \in Frames \cup {0}
      /\ \A f \in DOMAIN m : pl[f] \in Place /\ m[f] \in [Slots -> Entries]
      /\ i \in Slots
      /\ \A f, j : j \in OwnSlots(f, r) => j \in Slots
  BY OwnRoot
<1>5. n # r /\ n # KRoot /\ n # t /\ n \in Nat
  BY <1>4, VmmAssumption DEF Placed, Roots
<1>6. \A j \in Slots : m2[t][j] = IF j = i THEN Table(n, user) ELSE m[t][j]
  BY <1>1, <1>4
<1>7. Table(n, user) \in Entries /\ IsLink(Table(n, user)) /\ Table(n, user).addr = n /\ Table(n, user).user = user
  BY <1>5 DEF Table, Entries, IsLink
<1>8. Child(pl[t], i) \in Place /\ Child(pl[t], i).lev = pl[t].lev - 1 /\ Child(pl[t], i).own = pl[t].own
      /\ pl[t].lev \in 2..4
  <2>1. pl[t] \in Place /\ pl[t].lev \in 2..4 /\ pl[t].pre \in Nat /\ i \in Nat /\ Fan \in Nat
    BY <1>4, Sizes DEF Place, Slots
  <2>2. pl[t].pre * Fan + i \in Nat
    BY <2>1
  <2> QED BY <2>1, <2>2 DEF Child, Place
<1> HIDE DEF m2, pl2
<1>9. Typed(m2, r)
  <2>1. IsFiniteSet(D2)
    BY FS_AddElement DEF Placed, Typed
  <2>2. D2 \subseteq Frames \cup KRoot..(KRoot + 2)
    BY DEF Placed, Typed
  <2>3. ASSUME NEW f \in D2 PROVE m2[f] \in [Slots -> Entries]
    BY <1>1, <1>4, <1>7
  <2> QED BY <1>1, <1>4, <2>1, <2>2, <2>3 DEF Typed
<1>10. pl2 \in [D2 -> Place]
  BY <1>3, <1>4, <1>8
<1>11. ASSUME NEW f \in DOMAIN m PROVE pl[f] # Child(pl[t], i)
  <2> SUFFICES ASSUME pl[f] = Child(pl[t], i) PROVE FALSE
    OBVIOUS
  <2>1. pl[f].lev < 4
    BY <1>8
  <2>2. PICK g \in DOMAIN m : \E j \in OwnSlots(g, r) :
          pl[g].lev > 1 /\ IsLink(m[g][j]) /\ m[g][j].addr = f
    BY <2>1 DEF Placed, Reached
  <2>3. PICK j \in OwnSlots(g, r) : pl[g].lev > 1 /\ IsLink(m[g][j]) /\ m[g][j].addr = f
    BY <2>2
  <2>4. j \in Slots /\ pl[f] = Child(pl[g], j) /\ pl[g] \in Place /\ pl[t] \in Place
    BY <1>4, <2>3 DEF Placed, Linked
  <2>5. pl[g].own = pl[t].own /\ pl[g].lev - 1 = pl[t].lev - 1 /\ pl[g].pre * Fan + j = pl[t].pre * Fan + i
    <3>1. /\ Child(pl[g], j).own = Child(pl[t], i).own /\ Child(pl[g], j).lev = Child(pl[t], i).lev
          /\ Child(pl[g], j).pre = Child(pl[t], i).pre
      BY <2>4
    <3> QED BY <3>1 DEF Child
  <2>6. pl[g].pre = pl[t].pre /\ j = i
    <3> DEFINE a == pl[g].pre
               b == pl[t].pre
    <3>1. a \in Nat /\ b \in Nat /\ i \in 0..(Fan - 1) /\ j \in 0..(Fan - 1) /\ Fan \in Nat /\ Fan > 1
      BY <1>4, <2>4, Sizes DEF Place, Slots
    <3>2. a * Fan + j = b * Fan + i
      BY <2>5
    <3> HIDE DEF a, b
    <3>3. Fan * a + j = Fan * b + i
      BY <3>1, <3>2
    <3>4. (Fan * a + j) \div Fan = a /\ (Fan * b + i) \div Fan = b
      BY <3>1, DivUnique
    <3>5. (Fan * a + j) % Fan = j /\ (Fan * b + i) % Fan = i
      BY <3>1, DivUnique
    <3> QED BY <3>3, <3>4, <3>5 DEF a, b
  <2>7. pl[g] = pl[t]
    BY <2>4, <2>5, <2>6 DEF Place
  <2>8. g = t
    BY <2>7 DEF Placed
  <2> QED BY <2>3, <2>6, <2>8
<1>12. \A f, g \in D2 : pl2[f] = pl2[g] => f = g
  BY <1>3, <1>11 DEF Placed
<1>13. Roots(m2, r, pl2)
  <2>1. Roots(m, r, pl)
    BY DEF Placed
  <2>2. pl2[n].lev < 4 /\ pl2[n].own = pl[t].own
    BY <1>3, <1>8
  <2>3. \A f \in D2 : pl2[f].lev = 4 => f \in {KRoot, r}
    BY <2>1, <2>2, <1>3 DEF Roots
  <2>4. r = 0 => \A f \in D2 : pl2[f].own = "k"
    BY <2>1, <2>2, <1>3 DEF Roots
  <2> QED BY <1>1, <1>3, <2>1, <2>3, <2>4 DEF Roots
<1>14. Linked(m2, r, pl2)
  <2> SUFFICES ASSUME NEW f \in D2, NEW j \in Slots, j \in OwnSlots(f, r), pl2[f].lev > 1, IsLink(m2[f][j])
               PROVE  m2[f][j].addr \in D2 /\ pl2[m2[f][j].addr] = Child(pl2[f], j)
    BY <1>1 DEF Linked
  <2>1. CASE f = n
    BY <2>1, <1>1, <1>3, <1>8
  <2>2. CASE f = t /\ j = i
    BY <2>2, <1>3, <1>6, <1>7
  <2>3. CASE f # n /\ ~(f = t /\ j = i)
    <3>1. m2[f][j] = m[f][j] /\ f \in DOMAIN m /\ pl2[f] = pl[f]
      BY <2>3, <1>1, <1>3, <1>6
    <3>2. m[f][j].addr \in DOMAIN m /\ pl[m[f][j].addr] = Child(pl[f], j)
      BY <3>1 DEF Placed, Linked
    <3> QED BY <3>1, <3>2, <1>3
  <2> QED BY <2>1, <2>2, <2>3
<1>15. Reached(m2, r, pl2)
  <2> SUFFICES ASSUME NEW f \in D2, pl2[f].lev < 4
               PROVE  \E g \in D2 : \E j \in OwnSlots(g, r) :
                        pl2[g].lev > 1 /\ IsLink(m2[g][j]) /\ m2[g][j].addr = f
    BY <1>1 DEF Reached
  <2>1. CASE f = n
    <3>1. pl2[t].lev > 1 /\ IsLink(m2[t][i]) /\ m2[t][i].addr = n /\ t \in D2
      BY <1>3, <1>4, <1>6, <1>7
    <3> QED BY <2>1, <3>1
  <2>2. CASE f # n
    <3>1. f \in DOMAIN m /\ pl[f].lev < 4
      BY <2>2, <1>3
    <3>2. PICK g \in DOMAIN m : \E j \in OwnSlots(g, r) :
            pl[g].lev > 1 /\ IsLink(m[g][j]) /\ m[g][j].addr = f
      BY <3>1 DEF Placed, Reached
    <3>3. PICK j \in OwnSlots(g, r) : pl[g].lev > 1 /\ IsLink(m[g][j]) /\ m[g][j].addr = f
      BY <3>2
    <3>4. j \in Slots /\ ~(g = t /\ j = i)
      BY <3>3, <1>4
    <3>5. m2[g][j] = m[g][j] /\ pl2[g] = pl[g] /\ g \in D2
      BY <3>4, <1>1, <1>3, <1>6
    <3> QED BY <3>3, <3>5
  <2> QED BY <2>1, <2>2
<1>16. Contents(m2, r, pl2)
  <2>0. Contents(m, r, pl)
    BY DEF Placed
  <2>1. KRoot \in DOMAIN m
    BY DEF Placed, Roots
  <2>2. m2[KRoot] = m[KRoot]
    BY <2>1, <1>1
  <2>3. r # 0 => \A j \in Slots \ UserSlots : m2[r][j] = m2[KRoot][j]
    <3> SUFFICES ASSUME r # 0, NEW j \in Slots \ UserSlots PROVE m2[r][j] = m2[KRoot][j]
      OBVIOUS
    <3>1. m[r][j] = m[KRoot][j] /\ r \in DOMAIN m
      BY <2>0 DEF Contents, Placed, Roots
    <3>2. ~(r = t /\ j = i)
      BY DEF OwnSlots
    <3> QED BY <3>1, <3>2, <2>2, <1>1, <1>6
  <2>4. ASSUME NEW f \in D2, NEW j \in Slots, j \in OwnSlots(f, r)
        PROVE  /\ NoLarge(pl2[f]) => ~m2[f][j].large
               /\ pl2[f].own = "k" /\ (pl2[f].lev = 1 \/ ~IsLink(m2[f][j])) => ~m2[f][j].user
               /\ pl2[f].own = "t" /\ pl2[f].lev > 1 /\ IsLink(m2[f][j]) => m2[f][j].user
    <3>1. CASE f = n
      BY <3>1, <1>1, <1>3, <1>8
    <3>2. CASE f = t /\ j = i
      <4>1. m2[f][j] = Table(n, user) /\ pl2[f] = pl[t]
        BY <3>2, <1>3, <1>6
      <4>2. ~Table(n, user).large
        BY DEF Table
      <4> QED BY <4>1, <4>2, <3>2, <1>7, <1>8
    <3>3. CASE f # n /\ ~(f = t /\ j = i)
      <4>1. m2[f][j] = m[f][j] /\ f \in DOMAIN m /\ pl2[f] = pl[f]
        BY <3>3, <1>1, <1>3, <1>6
      <4> QED BY <4>1, <2>0, <2>4 DEF Contents
    <3> QED BY <3>1, <3>2, <3>3
  <2> QED BY <2>0, <2>2, <2>3, <2>4, <1>1 DEF Contents
<1> QED BY <1>1, <1>9, <1>10, <1>12, <1>13, <1>14, <1>15, <1>16 DEF Placed, m2, pl2

\* Page x of o's map is where it was.
Same(m, pl, m2, pl2, o, x) ==
  \A f : Stops(m, pl, o, x, f) =>
    \E g : Stops(m2, pl2, o, x, g) /\ Outcome(m2, pl2, x, g) = Outcome(m, pl, x, f)

\* A page whose entry is left alone stays where it is.
LEMMA StopKept ==
  ASSUME NEW m, NEW pl, NEW m2, NEW pl2, NEW o, NEW x, NEW f,
         Stops(m, pl, o, x, f), f \in DOMAIN m2, pl2[f] = pl[f],
         m2[f][Slot(pl, x, f)] = m[f][Slot(pl, x, f)]
  PROVE  Stops(m2, pl2, o, x, f) /\ Outcome(m2, pl2, x, f) = Outcome(m, pl, x, f)
<1>1. Slot(pl2, x, f) = Slot(pl, x, f)
  BY DEF Slot
<1> QED BY <1>1 DEF Stops, Passes, Outcome

\* What a new table holds: nothing, or the parts of the large page it replaces.
Filling(e, l) ==
  [j \in Slots |-> IF e.present THEN Leaf(e.addr + j * PageSize(l), l = 2, FALSE) ELSE Absent]

\* A new table has entries, none of which leads to a table.
LEMMA FillingTyped ==
  ASSUME NEW e \in Entries, NEW l \in 1..4
  PROVE  /\ Filling(e, l) \in [Slots -> Entries]
         /\ \A j \in Slots : /\ l = 2 \/ ~e.present => ~IsLink(Filling(e, l)[j])
                             /\ ~Filling(e, l)[j].user
                             /\ Filling(e, l)[j].present = e.present
                             /\ ~e.present => ~Filling(e, l)[j].large
                             /\ e.present => Filling(e, l)[j].addr = e.addr + j * PageSize(l)
<1>1. ASSUME NEW j \in Slots PROVE e.addr + j * PageSize(l) \in Nat
  <2> DEFINE p == PageSize(l)
  <2>1. j \in Nat /\ p \in Nat /\ e.addr \in Nat
    BY Sizes DEF Slots, Entries
  <2> HIDE DEF p
  <2>2. j * p \in Nat
    BY <2>1
  <2> QED BY <2>1, <2>2 DEF p
<1>2. e.present \in BOOLEAN
  BY DEF Entries
<1>3. ASSUME NEW j \in Slots PROVE Filling(e, l)[j] \in Entries
  BY <1>1 DEF Filling, Leaf, Absent, Entries
<1> QED BY <1>2, <1>3 DEF Filling, Leaf, Absent, IsLink

\* Hanging such a table in leaves every page where it was; the pages of the
\* entry now stop at the new table.
LEMMA HangSame ==
  ASSUME NEW m, NEW r, NEW pl, Placed(m, r, pl), NEW o \in {"k", "t"}, NEW x \in Space(o, r),
         NEW t \in DOMAIN m, NEW i \in Slots, pl[t].lev > 1, ~IsLink(m[t][i]),
         pl[t].lev = 4 => ~m[t][i].present,
         NEW n, n \notin DOMAIN m, NEW user \in BOOLEAN
  PROVE  LET T   == Filling(m[t][i], pl[t].lev - 1)
             m2  == Hung(m, t, i, n, T, user)
             pl2 == PlaceAt(pl, t, i, n)
         IN  /\ Same(m, pl, m2, pl2, o, x)
             /\ Stops(m, pl, o, x, t) /\ Slot(pl, x, t) = i => Stops(m2, pl2, o, x, n)
             /\ \A f : Stops(m, pl, o, x, f) /\ ~(f = t /\ Slot(pl, x, f) = i) => Stops(m2, pl2, o, x, f)
<1> DEFINE e   == m[t][i]
           l   == pl[t].lev
           T   == Filling(e, l - 1)
           m2  == Hung(m, t, i, n, T, user)
           pl2 == PlaceAt(pl, t, i, n)
<1>0. DOMAIN pl = DOMAIN m /\ l \in 2..4 /\ l - 1 \in 1..4 /\ e \in Entries /\ x \in Pages /\ m[t] \in [Slots -> Entries]
      /\ pl[t] \in Place
  BY OwnRoot DEF Placed, Place, Space
<1>1. /\ DOMAIN m2 = DOMAIN m \cup {n} /\ m2[n] = T
      /\ \A f \in DOMAIN m : f # t => m2[f] = m[f]
      /\ \A j : j # i => m2[t][j] = m[t][j]
  BY <1>0 DEF Hung
<1>2. pl2[n] = Child(pl[t], i) /\ \A f \in DOMAIN m : pl2[f] = pl[f]
  BY <1>0 DEF PlaceAt
<1> HIDE DEF m2, pl2
<1>3. ASSUME NEW f, Stops(m, pl, o, x, f), ~(f = t /\ Slot(pl, x, f) = i)
      PROVE  Stops(m2, pl2, o, x, f) /\ Outcome(m2, pl2, x, f) = Outcome(m, pl, x, f)
  <2>1. f \in DOMAIN m /\ f \in DOMAIN m2 /\ pl2[f] = pl[f]
    BY <1>1, <1>2, <1>3 DEF Stops
  <2>2. m2[f][Slot(pl, x, f)] = m[f][Slot(pl, x, f)]
    BY <1>1, <1>3, <2>1
  <2> QED BY <1>3, <2>1, <2>2, StopKept
<1>4. ASSUME Stops(m, pl, o, x, t), Slot(pl, x, t) = i
      PROVE  Stops(m2, pl2, o, x, n) /\ Outcome(m2, pl2, x, n) = Outcome(m, pl, x, t)
  <2> DEFINE j == Index(x, l - 1)
  <2>1. pl2[n].own = o /\ pl2[n].lev = l - 1 /\ pl2[n].pre = Part(x, l) * Fan + Index(x, l)
    BY <1>2, <1>4 DEF Child, Stops, Passes, Slot
  <2>2. Passes(pl2, o, x, n) /\ j \in Slots /\ Slot(pl2, x, n) = j
    BY <1>0, <2>1, Parts, Indices DEF Passes, Slot
  <2>3. l - 1 = 2 \/ l - 1 = 1 \/ ~e.present
    BY <1>0
  <2>4. Stops(m2, pl2, o, x, n)
    BY <1>0, <1>1, <2>1, <2>2, <2>3, FillingTyped DEF Stops
  <2>5. Outcome(m2, pl2, x, n) = Outcome(m, pl, x, t)
    <3> DEFINE a == e.addr
               p == PageSize(l - 1)
               b == x % p
               d == j * p
    <3>1. CASE ~e.present
      <4>1. T[j].present = e.present
        BY <1>0, <2>2, FillingTyped
      <4> HIDE DEF T, j, e
      <4>2. Outcome(m2, pl2, x, n) = <<FALSE, 0>>
        BY <3>1, <4>1, <1>1, <2>2 DEF Outcome, Result
      <4>3. Outcome(m, pl, x, t) = <<FALSE, 0>>
        BY <3>1, <1>4 DEF Outcome, Result, e
      <4> QED BY <4>2, <4>3
    <3>2. CASE e.present
      <4>1. T[j].present /\ T[j].addr = a + d
        BY <3>2, <1>0, <2>2, FillingTyped
      <4>2. x % PageSize(l) = d + b /\ d \in Nat /\ b \in Nat /\ a \in Nat
        BY <1>0, Offsets DEF Entries
      <4>3. Outcome(m2, pl2, x, n) = <<TRUE, (a + d) + b>>
        BY <4>1, <1>1, <2>1, <2>2 DEF Outcome, Result
      <4>4. Outcome(m, pl, x, t) = <<TRUE, a + (d + b)>>
        BY <3>2, <4>2, <1>4 DEF Outcome, Result
      <4> HIDE DEF a, d, b
      <4>5. (a + d) + b = a + (d + b)
        BY <4>2
      <4> QED BY <4>3, <4>4, <4>5
    <3>3. e.present \in BOOLEAN
      BY <1>0 DEF Entries
    <3> QED BY <3>1, <3>2, <3>3
  <2> QED BY <2>4, <2>5
<1>5. Same(m, pl, m2, pl2, o, x)
  BY <1>3, <1>4 DEF Same
<1> QED BY <1>3, <1>4, <1>5 DEF m2, pl2

Written(m, t, i, e) == [m EXCEPT ![t][i] = e]

\* An entry that leads to no table is written with one that leads to none.
LEMMA WritePlaced ==
  ASSUME NEW m, NEW r, NEW pl, Placed(m, r, pl),
         NEW t \in DOMAIN m, t # KRoot, NEW i \in OwnSlots(t, r), pl[t].lev = 1 \/ ~IsLink(m[t][i]),
         NEW e \in Entries, pl[t].lev = 1 \/ ~IsLink(e), pl[t].own = "k" => ~e.user, NoLarge(pl[t]) => ~e.large
  PROVE  Placed(Written(m, t, i, e), r, pl)
<1> DEFINE m2 == Written(m, t, i, e)
<1>1. /\ r # KRoot /\ 0 \notin DOMAIN m /\ r \in Frames \cup {0}
      /\ \A f \in DOMAIN m : pl[f] \in Place /\ m[f] \in [Slots -> Entries]
      /\ i \in Slots
      /\ \A f, j : j \in OwnSlots(f, r) => j \in Slots
  BY OwnRoot
<1>2. /\ DOMAIN m2 = DOMAIN m /\ m2 = [f \in DOMAIN m2 |-> m2[f]]
      /\ \A f \in DOMAIN m : f # t => m2[f] = m[f]
      /\ m2[t] = [m[t] EXCEPT ![i] = e]
      /\ \A j \in Slots : m2[t][j] = IF j = i THEN e ELSE m[t][j]
  BY <1>1 DEF Written
<1> HIDE DEF m2
<1>3. Typed(m2, r)
  <2>1. ASSUME NEW f \in DOMAIN m PROVE m2[f] \in [Slots -> Entries]
    BY <1>1, <1>2
  <2> QED BY <1>2, <2>1 DEF Placed, Typed
<1>4. Roots(m2, r, pl)
  BY <1>2 DEF Placed, Roots
<1>5. Linked(m2, r, pl)
  <2> SUFFICES ASSUME NEW f \in DOMAIN m, NEW j \in Slots, j \in OwnSlots(f, r), pl[f].lev > 1, IsLink(m2[f][j])
               PROVE  m2[f][j].addr \in DOMAIN m /\ pl[m2[f][j].addr] = Child(pl[f], j)
    BY <1>2 DEF Linked
  <2>1. ~(f = t /\ j = i)
    BY <1>1, <1>2 DEF Place
  <2>2. m2[f][j] = m[f][j]
    BY <1>2, <2>1
  <2> QED BY <2>2 DEF Placed, Linked
<1>6. Reached(m2, r, pl)
  <2> SUFFICES ASSUME NEW f \in DOMAIN m, pl[f].lev < 4
               PROVE  \E g \in DOMAIN m : \E j \in OwnSlots(g, r) :
                        pl[g].lev > 1 /\ IsLink(m2[g][j]) /\ m2[g][j].addr = f
    BY <1>2 DEF Reached
  <2>1. PICK g \in DOMAIN m : \E j \in OwnSlots(g, r) :
          pl[g].lev > 1 /\ IsLink(m[g][j]) /\ m[g][j].addr = f
    BY DEF Placed, Reached
  <2>2. PICK j \in OwnSlots(g, r) : pl[g].lev > 1 /\ IsLink(m[g][j]) /\ m[g][j].addr = f
    BY <2>1
  <2>3. j \in Slots /\ ~(g = t /\ j = i)
    BY <2>2, <1>1 DEF Place
  <2>4. m2[g][j] = m[g][j]
    BY <1>2, <2>3
  <2> QED BY <2>2, <2>4
<1>7. Contents(m2, r, pl)
  <2>0. Contents(m, r, pl) /\ KRoot \in DOMAIN m
    BY DEF Placed, Roots
  <2>1. m2[KRoot] = m[KRoot]
    BY <1>2, <2>0
  <2>2. r # 0 => \A j \in Slots \ UserSlots : m2[r][j] = m2[KRoot][j]
    <3> SUFFICES ASSUME r # 0, NEW j \in Slots \ UserSlots PROVE m2[r][j] = m2[KRoot][j]
      OBVIOUS
    <3>1. m[r][j] = m[KRoot][j] /\ r \in DOMAIN m
      BY <2>0 DEF Contents, Placed, Roots
    <3>2. ~(r = t /\ j = i)
      BY DEF OwnSlots
    <3> QED BY <3>1, <3>2, <2>1, <1>2
  <2>3. ASSUME NEW f \in DOMAIN m, NEW j \in Slots, j \in OwnSlots(f, r)
        PROVE  /\ NoLarge(pl[f]) => ~m2[f][j].large
               /\ pl[f].own = "k" /\ (pl[f].lev = 1 \/ ~IsLink(m2[f][j])) => ~m2[f][j].user
               /\ pl[f].own = "t" /\ pl[f].lev > 1 /\ IsLink(m2[f][j]) => m2[f][j].user
    <3>1. CASE f = t /\ j = i
      <4>1. m2[f][j] = e
        BY <3>1, <1>2
      <4> QED BY <3>1, <4>1, <1>1 DEF Place
    <3>2. CASE ~(f = t /\ j = i)
      <4>1. m2[f][j] = m[f][j]
        BY <3>2, <1>2
      <4> QED BY <4>1, <2>0, <2>3 DEF Contents
    <3> QED BY <3>1, <3>2
  <2> QED BY <2>0, <2>1, <2>2, <2>3, <1>2 DEF Contents
<1> QED BY <1>2, <1>3, <1>4, <1>5, <1>6, <1>7 DEF Placed, m2

\* Only the pages of that entry change.
LEMMA WriteStops ==
  ASSUME NEW m, NEW r, NEW pl, Placed(m, r, pl), NEW o \in {"k", "t"}, NEW x \in Space(o, r),
         NEW t \in DOMAIN m, NEW i \in Slots, NEW e \in Entries, pl[t].lev = 1 \/ ~IsLink(e),
         NEW m2, m2 = Written(m, t, i, e)
  PROVE  /\ ~(Passes(pl, o, x, t) /\ Slot(pl, x, t) = i) => Same(m, pl, m2, pl, o, x)
         /\ Passes(pl, o, x, t) /\ Slot(pl, x, t) = i =>
              Stops(m2, pl, o, x, t) /\ Outcome(m2, pl, x, t) = Result(e, x, pl[t].lev)
<1>1. /\ DOMAIN m2 = DOMAIN m
      /\ \A f \in DOMAIN m : f # t => m2[f] = m[f]
      /\ \A j : j # i => m2[t][j] = m[t][j]
      /\ m2[t][i] = e
  BY OwnRoot DEF Written
<1>2. ASSUME ~(Passes(pl, o, x, t) /\ Slot(pl, x, t) = i), NEW f, Stops(m, pl, o, x, f)
      PROVE  Stops(m2, pl, o, x, f) /\ Outcome(m2, pl, x, f) = Outcome(m, pl, x, f)
  <2>1. f \in DOMAIN m2 /\ ~(f = t /\ Slot(pl, x, f) = i)
    BY <1>1, <1>2 DEF Stops
  <2>2. m2[f][Slot(pl, x, f)] = m[f][Slot(pl, x, f)]
    BY <1>1, <2>1
  <2> QED BY <1>2, <2>1, <2>2, StopKept
<1>3. ASSUME Passes(pl, o, x, t), Slot(pl, x, t) = i
      PROVE  Stops(m2, pl, o, x, t) /\ Outcome(m2, pl, x, t) = Result(e, x, pl[t].lev)
  BY <1>1, <1>3 DEF Stops, Outcome
<1> QED BY <1>2, <1>3 DEF Same
------------------------------------------------------------------------------
(* The code's operations, on the record they work on.                        *)

\* The record holds well-formed tables and is at the table of level l on the
\* way to page x.
Held(s, r, pl, o, l, x) ==
  /\ s = [mem |-> s.mem, ok |-> TRUE, at |-> s.at]
  /\ Placed(s.mem, r, pl) /\ s.at \in DOMAIN s.mem
  /\ Passes(pl, o, x, s.at) /\ pl[s.at].lev = l

\* The walk of x stops at level k or above.
High(m, pl, o, x, k) == \E f : Stops(m, pl, o, x, f) /\ pl[f].lev >= k

AllSame(m, pl, m2, pl2, r) == \A p \in {"k", "t"} : \A y \in Space(p, r) : Same(m, pl, m2, pl2, p, y)

\* What two calls in a row keep stays ...
LEMMA SameSteps ==
  ASSUME NEW m1, NEW p1, NEW m2, NEW p2, NEW m3, NEW p3, NEW r,
         AllSame(m1, p1, m2, p2, r), AllSame(m2, p2, m3, p3, r)
  PROVE  AllSame(m1, p1, m3, p3, r)
<1> SUFFICES ASSUME NEW p \in {"k", "t"}, NEW y \in Space(p, r), NEW f, Stops(m1, p1, p, y, f)
             PROVE  \E g : Stops(m3, p3, p, y, g) /\ Outcome(m3, p3, y, g) = Outcome(m1, p1, y, f)
  BY DEF AllSame, Same
<1>1. PICK g : Stops(m2, p2, p, y, g) /\ Outcome(m2, p2, y, g) = Outcome(m1, p1, y, f)
  BY DEF AllSame, Same
<1>2. PICK h : Stops(m3, p3, p, y, h) /\ Outcome(m3, p3, y, h) = Outcome(m2, p2, y, g)
  BY <1>1 DEF AllSame, Same
<1> QED BY <1>1, <1>2

\* ... and so does what no call touches.
LEMMA SameRefl ==
  ASSUME NEW m, NEW pl, NEW r PROVE AllSame(m, pl, m, pl, r)
BY DEF AllSame, Same

\* A walk that stops no lower than a table it passes stops there.
LEMMA HighHere ==
  ASSUME NEW m, NEW r, NEW pl, Placed(m, r, pl), NEW o \in {"k", "t"}, NEW x \in Space(o, r),
         NEW t \in DOMAIN m, Passes(pl, o, x, t), High(m, pl, o, x, pl[t].lev)
  PROVE  Stops(m, pl, o, x, t) /\ (pl[t].lev > 1 => ~IsLink(m[t][Slot(pl, x, t)]))
<1>1. PICK g : Stops(m, pl, o, x, g) /\ pl[g].lev >= pl[t].lev
  BY DEF High
<1>2. pl[g].lev <= pl[t].lev /\ g \in DOMAIN m /\ Passes(pl, o, x, g)
  BY <1>1, StopsLowest DEF Stops
<1>3. pl[g] \in Place /\ pl[t] \in Place
  BY <1>2, OwnRoot
<1>4. pl[g].lev = pl[t].lev
  BY <1>1, <1>2, <1>3 DEF Place
<1>5. g = t
  BY <1>2, <1>4, SameLevel
<1> QED BY <1>1, <1>3, <1>5 DEF Stops, Place

\* Every walk stops at the first level or above.
LEMMA HighLowest ==
  ASSUME NEW m, NEW r, NEW pl, Placed(m, r, pl), NEW o \in {"k", "t"}, NEW x \in Space(o, r)
  PROVE  High(m, pl, o, x, 1)
<1>1. PICK f \in DOMAIN m : Stops(m, pl, o, x, f)
  BY WalkStops
<1>2. pl[f] \in Place
  BY OwnRoot
<1> QED BY <1>1, <1>2 DEF High, Place

\* pmm_alloc has a frame that is no table, or none.
LEMMA Alloc ==
  ASSUME NEW s, s = [mem |-> s.mem, ok |-> TRUE, at |-> s.at]
  PROVE  LET n == Min(Frames \ DOMAIN s.mem)
         IN  \/ ~pmm_alloc(s).ok
             \/ /\ n \in Frames /\ n \notin DOMAIN s.mem
                /\ pmm_alloc(s) = [mem |-> [f \in DOMAIN s.mem \cup {n} |-> IF f = n THEN Empty ELSE s.mem[f]],
                                   ok |-> TRUE, at |-> n]
<1> DEFINE free == Frames \ DOMAIN s.mem
<1>1. free \in SUBSET Nat
  BY VmmAssumption
<1>2. CASE free = {}
  <2>1. pmm_alloc(s) = [s EXCEPT !.ok = FALSE]
    BY <1>2 DEF pmm_alloc
  <2>2. pmm_alloc(s).ok = FALSE
    BY <2>1
  <2> QED BY <2>2
<1>3. CASE free # {}
  <2>1. Min(free) \in free
    BY <1>1, <1>3, MinOf
  <2> QED BY <1>3, <2>1 DEF pmm_alloc
<1> QED BY <1>2, <1>3

\* No table is moved.
Kept(m, pl, m2, pl2) == \A f \in DOMAIN m : f \in DOMAIN m2 /\ pl2[f] = pl[f]

\* pd_get_or_create either is refused a frame or steps down, changing no page.
Stepped(s, s2, r, pl, o, x, l) ==
  \/ ~s2.ok
  \/ \E pl2 : /\ Held(s2, r, pl2, o, l - 1, x) /\ Kept(s.mem, pl, s2.mem, pl2)
              /\ AllSame(s.mem, pl, s2.mem, pl2, r)
              /\ \A k \in 1..(l - 1) : High(s.mem, pl, o, x, k) => High(s2.mem, pl2, o, x, k)
              /\ High(s.mem, pl, o, x, l) /\ l > 2 => \A j \in Slots : ~IsLink(s2.mem[s2.at][j])

\* pd_get_or_create and pd_split do that.
LEMMA GetOrCreate ==
  ASSUME NEW s, NEW r, NEW pl, NEW o \in {"k", "t"}, NEW x \in Space(o, r), NEW l \in 2..4,
         Held(s, r, pl, o, l, x), NEW user \in BOOLEAN, user <=> o = "t",
         o = "k" /\ l = 4 => Index(x, 4) = KSlot
  PROVE  Stepped(s, pd_get_or_create(s, Index(x, l), l, user), r, pl, o, x, l)
<1> DEFINE m   == s.mem
           t   == s.at
           i   == Index(x, l)
           e   == m[t][i]
           n   == Min(Frames \ DOMAIN m)
           T   == Filling(e, l - 1)
           res == pd_get_or_create(s, i, l, user)
<1> SUFFICES Stepped(s, res, r, pl, o, x, l)
  OBVIOUS
<1>1. /\ s = [mem |-> m, ok |-> TRUE, at |-> t] /\ s.ok = TRUE
      /\ Placed(m, r, pl) /\ t \in DOMAIN m /\ Passes(pl, o, x, t) /\ pl[t].lev = l /\ pl[t].own = o
  BY DEF Held, Passes
<1>2. x \in Pages /\ i \in Slots
  BY Indices DEF Space
<1>3. i \in OwnSlots(t, r)
  <2>1. CASE t # r
    BY <2>1, <1>2 DEF OwnSlots
  <2>2. CASE t = r
    <3>1. r # 0
      BY <1>1, <2>2, OwnRoot
    <3>2. pl[t] = [own |-> "t", lev |-> 4, pre |-> 0]
      BY <1>1, <2>2, <3>1 DEF Placed, Roots
    <3>3. o = "t" /\ l = 4
      BY <1>1, <3>2
    <3> QED BY <2>2, <3>3 DEF OwnSlots, Space
  <2> QED BY <2>1, <2>2
<1>4. e \in Entries /\ e.present \in BOOLEAN /\ e.large \in BOOLEAN
  BY <1>1, <1>2, OwnRoot DEF Entries
<1>5. (NoLarge(pl[t]) => ~e.large) /\ (l = 4 => ~e.large)
  <2>1. NoLarge(pl[t]) => ~e.large
    BY <1>1, <1>2, <1>3 DEF Placed, Contents
  <2> QED BY <1>1, <2>1 DEF NoLarge
<1>6. t = KRoot => IsLink(e)
  <2> SUFFICES ASSUME t = KRoot PROVE IsLink(e)
    OBVIOUS
  <2>1. pl[t] = [own |-> "k", lev |-> 4, pre |-> 0]
    BY <1>1 DEF Placed, Roots
  <2>2. i = KSlot
    BY <1>1, <2>1
  <2>3. e = Table(KRoot + 1, TRUE)
    BY <1>1, <1>2, <2>2 DEF Placed, Contents
  <2> QED BY <2>3 DEF Table, IsLink
<1>7. CASE IsLink(e)
  <2>1. e.user \/ user <=> e.user
    BY <1>1, <1>2, <1>3, <1>7 DEF Placed, Contents
  <2>2. res = [s EXCEPT !.mem[t][i].user = @ \/ user, !.at = e.addr]
    BY <1>1, <1>7 DEF pd_get_or_create, IsLink
  <2>3. [m EXCEPT ![t][i].user = @ \/ user] = m
    <3>1. [e EXCEPT !.user = @ \/ user] = e
      BY <1>4, <2>1 DEF Entries
    <3>2. [m[t] EXCEPT ![i].user = @ \/ user] = m[t]
      BY <3>1, <1>1, <1>2, OwnRoot
    <3>3. m = [f \in DOMAIN m |-> m[f]]
      BY <1>1 DEF Placed, Typed
    <3> QED BY <3>2, <3>3, <1>1
  <2>4. res = [mem |-> m, ok |-> TRUE, at |-> e.addr]
    <3>1. s.mem = m /\ s.ok = TRUE
      BY <1>1
    <3>2. res = [mem |-> [m EXCEPT ![t][i].user = @ \/ user], ok |-> TRUE, at |-> e.addr]
      BY <1>1, <2>2
    <3> QED BY <2>3, <3>2
  <2>5. e.addr \in DOMAIN m /\ pl[e.addr] = Child(pl[t], i)
    BY <1>1, <1>2, <1>3, <1>7 DEF Placed, Linked
  <2>6. pl[e.addr].own = o /\ pl[e.addr].lev = l - 1 /\ pl[e.addr].pre = Part(x, l) * Fan + Index(x, l)
    BY <1>1, <2>5 DEF Child, Passes
  <2>7. Passes(pl, o, x, e.addr)
    BY <1>2, <2>6, Parts DEF Passes
  <2>8. Held(res, r, pl, o, l - 1, x)
    BY <1>1, <2>4, <2>5, <2>6, <2>7 DEF Held
  <2>9. ~High(m, pl, o, x, l)
    BY <1>1, <1>7, HighHere DEF Slot
  <2>10. res.mem = m /\ AllSame(m, pl, res.mem, pl, r) /\ Kept(m, pl, res.mem, pl)
    BY <2>4, SameRefl DEF Kept
  <2> HIDE DEF res
  <2> QED BY <2>8, <2>9, <2>10 DEF Stepped
<1>8. CASE ~IsLink(e)
  <2> DEFINE m2  == Hung(m, t, i, n, T, user)
             pl2 == PlaceAt(pl, t, i, n)
  <2>1. t # KRoot /\ (l = 4 => ~e.present)
    BY <1>5, <1>6, <1>8 DEF IsLink
  <2>2. \/ ~res.ok
        \/ n \in Frames /\ n \notin DOMAIN m /\ res = [mem |-> m2, ok |-> TRUE, at |-> n]
    <3> DEFINE new == pmm_alloc(s)
               mm  == [f \in DOMAIN m \cup {n} |-> IF f = n THEN Empty ELSE m[f]]
    <3>1. \/ ~new.ok
          \/ n \in Frames /\ n \notin DOMAIN m /\ new = [mem |-> mm, ok |-> TRUE, at |-> n]
      BY <1>1, Alloc
    <3>2. CASE ~e.present
      <4>1. res = IF new.ok THEN [new EXCEPT !.mem[t][i] = Table(new.at, user)] ELSE new
        BY <3>2, <1>1 DEF pd_get_or_create
      <4>2. T = Empty
        BY <3>2 DEF Filling, Empty
      <4>3. ASSUME n \in Frames, n \notin DOMAIN m, new = [mem |-> mm, ok |-> TRUE, at |-> n]
            PROVE  res = [mem |-> m2, ok |-> TRUE, at |-> n]
        <5>1. new.ok /\ new.at = n /\ new.mem = mm
          BY <4>3
        <5>2. res = [mem |-> [mm EXCEPT ![t][i] = Table(n, user)], ok |-> TRUE, at |-> n]
          BY <4>1, <4>3, <5>1
        <5>3. [mm EXCEPT ![t][i] = Table(n, user)] = m2
          BY <4>2, <4>3, <1>1 DEF Hung
        <5> QED BY <5>2, <5>3
      <4>4. CASE ~new.ok
        BY <4>1, <4>4
      <4> QED BY <3>1, <4>3, <4>4
    <3>3. CASE e.present
      <4> DEFINE p == PageSize(l - 1)
      <4>0. e.large
        BY <1>4, <1>8, <3>3 DEF IsLink
      <4>1. res = pd_split(s, i, p, user)
        BY <3>3, <4>0, <1>1 DEF pd_get_or_create
      <4>2. (p = MM_PAGE_2MB) = (l - 1 = 2)
        <5>1. l - 1 = 1 \/ l - 1 = 2 \/ l - 1 = 3
          OBVIOUS
        <5>2. Fan # 1 /\ Fan * Fan # Fan
          BY Sizes
        <5> QED BY <5>1, <5>2, Sizes DEF MM_PAGE_2MB, PML2
      <4>3. T = [j \in Slots |-> Leaf(e.addr + j * p, p = MM_PAGE_2MB, FALSE)]
        BY <3>3, <4>2 DEF Filling
      <4>4. res = IF ~new.ok THEN new
                  ELSE [new EXCEPT !.mem[new.at] = T, !.mem[t][i] = Table(new.at, user)]
        BY <4>1, <4>3 DEF pd_split
      <4>5. ASSUME n \in Frames, n \notin DOMAIN m, new = [mem |-> mm, ok |-> TRUE, at |-> n]
            PROVE  res = [mem |-> m2, ok |-> TRUE, at |-> n]
        <5> HIDE DEF T
        <5>1. new.ok /\ new.at = n /\ new.mem = mm
          BY <4>5
        <5>2. res = [mem |-> [[mm EXCEPT ![n] = T] EXCEPT ![t][i] = Table(n, user)], ok |-> TRUE, at |-> n]
          BY <4>4, <4>5, <5>1
        <5>3. [[mm EXCEPT ![n] = T] EXCEPT ![t][i] = Table(n, user)] = m2
          BY <4>5, <1>1 DEF Hung
        <5> QED BY <5>2, <5>3
      <4>6. CASE ~new.ok
        BY <4>4, <4>6
      <4> QED BY <3>1, <4>5, <4>6
    <3> QED BY <3>2, <3>3, <1>4
  <2>3. ASSUME n \in Frames, n \notin DOMAIN m, res = [mem |-> m2, ok |-> TRUE, at |-> n]
        PROVE  /\ Held(res, r, pl2, o, l - 1, x) /\ Kept(m, pl, res.mem, pl2)
               /\ AllSame(m, pl, res.mem, pl2, r)
               /\ \A k \in 1..(l - 1) : High(m, pl, o, x, k) => High(res.mem, pl2, o, x, k)
               /\ High(m, pl, o, x, l) /\ l > 2 => \A j \in Slots : ~IsLink(res.mem[res.at][j])
    <3>0. l > 1 /\ l - 1 \in 1..4 /\ DOMAIN pl = DOMAIN m
      BY <1>1 DEF Placed
    <3>1. T \in [Slots -> Entries] /\ \A j \in Slots : /\ pl[t].lev > 2 => ~IsLink(T[j])
                                                       /\ pl[t].own = "k" => ~T[j].user
                                                       /\ NoLarge(Child(pl[t], i)) => ~T[j].large
      <4>1. pl[t].lev > 2 => l - 1 = 2 \/ ~e.present
        BY <1>1, <2>1
      <4>2. NoLarge(Child(pl[t], i)) => ~e.present
        <5>1. Child(pl[t], i).lev = l - 1 /\ Child(pl[t], i).own = pl[t].own
          BY <1>1 DEF Child
        <5>2. NoLarge(Child(pl[t], i)) => NoLarge(pl[t])
          BY <1>1, <5>1 DEF NoLarge
        <5> QED BY <1>5, <1>8, <5>2 DEF IsLink
      <4> QED BY <4>1, <4>2, <1>4, <3>0, FillingTyped
    <3>2. Placed(m2, r, pl2)
      <4> HIDE DEF T, m, t, i, n, e
      <4> QED BY <1>1, <1>3, <1>8, <2>1, <2>3, <3>0, <3>1, HangPlaced DEF e
    <3>3. \A p \in {"k", "t"} : \A y \in Space(p, r) :
              /\ Same(m, pl, m2, pl2, p, y)
              /\ Stops(m, pl, p, y, t) /\ Slot(pl, y, t) = i => Stops(m2, pl2, p, y, n)
              /\ \A f : Stops(m, pl, p, y, f) /\ ~(f = t /\ Slot(pl, y, f) = i) => Stops(m2, pl2, p, y, f)
      <4> SUFFICES ASSUME NEW p \in {"k", "t"}, NEW y \in Space(p, r)
                   PROVE  /\ Same(m, pl, m2, pl2, p, y)
                          /\ Stops(m, pl, p, y, t) /\ Slot(pl, y, t) = i => Stops(m2, pl2, p, y, n)
                          /\ \A f : Stops(m, pl, p, y, f) /\ ~(f = t /\ Slot(pl, y, f) = i)
                                     => Stops(m2, pl2, p, y, f)
        OBVIOUS
      <4>1. pl[t].lev > 1 /\ (pl[t].lev = 4 => ~m[t][i].present) /\ ~IsLink(m[t][i])
        BY <1>1, <1>8, <2>1, <3>0
      <4>2. T = Filling(m[t][i], pl[t].lev - 1)
        BY <1>1
      <4> HIDE DEF T, m, t, i, n, e
      <4> QED BY <1>1, <1>2, <2>3, <4>1, <4>2, HangSame
    <3>4. res.mem = m2 /\ res.at = n /\ res.ok = TRUE
      BY <2>3
    <3>5. Slot(pl, x, t) = i /\ Stops(m, pl, o, x, t)
      BY <1>1, <1>8 DEF Slot, Stops
    <3>6. Stops(m2, pl2, o, x, n)
      BY <3>3, <3>5
    <3>7. pl2[n].lev = l - 1 /\ n \in DOMAIN m2 /\ Passes(pl2, o, x, n)
      BY <1>1, <3>0, <3>6 DEF PlaceAt, Child, Stops
    <3>8. Held(res, r, pl2, o, l - 1, x)
      BY <2>3, <3>2, <3>4, <3>7 DEF Held
    <3>9. \A k \in 1..(l - 1) : High(res.mem, pl2, o, x, k)
      BY <3>4, <3>6, <3>7 DEF High
    <3>10. l > 2 => \A j \in Slots : ~IsLink(res.mem[res.at][j])
      <4>1. m2[n] = T
        BY DEF Hung
      <4> QED BY <3>1, <3>4, <4>1, <1>1
    <3>11. Kept(m, pl, res.mem, pl2)
      <4>1. \A f \in DOMAIN m : f \in DOMAIN m2 /\ pl2[f] = pl[f]
        BY <2>3, <3>0 DEF Hung, PlaceAt
      <4> QED BY <3>4, <4>1 DEF Kept
    <3> QED BY <3>3, <3>4, <3>8, <3>9, <3>10, <3>11 DEF AllSame
  <2>5. CASE n \in Frames /\ n \notin DOMAIN m /\ res = [mem |-> m2, ok |-> TRUE, at |-> n]
    <3>1. /\ Held(res, r, pl2, o, l - 1, x) /\ Kept(m, pl, res.mem, pl2)
          /\ AllSame(m, pl, res.mem, pl2, r)
          /\ \A k \in 1..(l - 1) : High(m, pl, o, x, k) => High(res.mem, pl2, o, x, k)
          /\ High(m, pl, o, x, l) /\ l > 2 => \A j \in Slots : ~IsLink(res.mem[res.at][j])
      BY <2>3, <2>5
    <3> HIDE DEF m2, pl2, T, n, res
    <3> QED BY <3>1 DEF Stepped
  <2>6. CASE ~res.ok
    <3> HIDE DEF res
    <3> QED BY <2>6 DEF Stepped
  <2> QED BY <2>2, <2>5, <2>6
<1> QED BY <1>7, <1>8

\* Afterwards the block of page x at level l is mapped in o's map from pa on,
\* and every other page of both maps is where it was.
Blk(y, x, l) == y \div PageSize(l) = x \div PageSize(l)
Moved(m, pl, m2, pl2, r, o, x, l, pa) ==
  \A p \in {"k", "t"} : \A y \in Space(p, r) :
    /\ p = o /\ Blk(y, x, l) =>
         \E g : Stops(m2, pl2, p, y, g) /\ Outcome(m2, pl2, y, g) = <<TRUE, pa + (y - x)>>
    /\ ~(p = o /\ Blk(y, x, l)) => Same(m, pl, m2, pl2, p, y)

\* A block is moved after a call that kept every page.
LEMMA SameMoved ==
  ASSUME NEW m1, NEW p1, NEW m2, NEW p2, NEW m3, NEW p3, NEW r, NEW o, NEW x, NEW l, NEW pa,
         AllSame(m1, p1, m2, p2, r), Moved(m2, p2, m3, p3, r, o, x, l, pa)
  PROVE  Moved(m1, p1, m3, p3, r, o, x, l, pa)
<1> SUFFICES ASSUME NEW p \in {"k", "t"}, NEW y \in Space(p, r)
             PROVE  /\ p = o /\ Blk(y, x, l) =>
                         \E g : Stops(m3, p3, p, y, g) /\ Outcome(m3, p3, y, g) = <<TRUE, pa + (y - x)>>
                    /\ ~(p = o /\ Blk(y, x, l)) => Same(m1, p1, m3, p3, p, y)
  BY DEF Moved
<1>1. CASE p = o /\ Blk(y, x, l)
  BY <1>1 DEF Moved
<1>2. CASE ~(p = o /\ Blk(y, x, l))
  <2>1. Same(m1, p1, m2, p2, p, y) /\ Same(m2, p2, m3, p3, p, y)
    BY <1>2 DEF AllSame, Moved
  <2> QED BY <1>2, <2>1 DEF Same
<1> QED BY <1>1, <1>2

\* A smaller block at the start, mapped again to the same place.
LEMMA MovedAgain ==
  ASSUME NEW m1, NEW p1, NEW m2, NEW p2, NEW m3, NEW p3, NEW r, NEW o, NEW x \in Pages, NEW pa,
         Moved(m1, p1, m2, p2, r, o, x, 3, pa), Moved(m2, p2, m3, p3, r, o, x, 2, pa)
  PROVE  Moved(m1, p1, m3, p3, r, o, x, 3, pa)
<1> SUFFICES ASSUME NEW p \in {"k", "t"}, NEW y \in Space(p, r)
             PROVE  /\ p = o /\ Blk(y, x, 3) =>
                         \E g : Stops(m3, p3, p, y, g) /\ Outcome(m3, p3, y, g) = <<TRUE, pa + (y - x)>>
                    /\ ~(p = o /\ Blk(y, x, 3)) => Same(m1, p1, m3, p3, p, y)
  BY DEF Moved
<1>0. Blk(y, x, 2) => Blk(y, x, 3)
  <2>1. y \in Pages
    BY DEF Space
  <2>2. Blk(y, x, 2) => Part(y, 2) = Part(x, 2)
    BY <2>1, Blocks DEF Blk
  <2>3. PageSize(3) = Span(2)
    BY Sizes
  <2> QED BY <2>2, <2>3 DEF Part, Blk
<1>1. CASE p = o /\ Blk(y, x, 2)
  BY <1>0, <1>1 DEF Moved
<1>2. CASE p = o /\ Blk(y, x, 3) /\ ~Blk(y, x, 2)
  <2>1. PICK g : Stops(m2, p2, p, y, g) /\ Outcome(m2, p2, y, g) = <<TRUE, pa + (y - x)>>
    BY <1>2 DEF Moved
  <2>2. Same(m2, p2, m3, p3, p, y)
    BY <1>2 DEF Moved
  <2> QED BY <1>2, <2>1, <2>2 DEF Same
<1>3. CASE ~(p = o /\ Blk(y, x, 3))
  <2>1. Same(m1, p1, m2, p2, p, y) /\ Same(m2, p2, m3, p3, p, y)
    BY <1>0, <1>3 DEF Moved
  <2> QED BY <1>3, <2>1 DEF Same
<1> QED BY <1>1, <1>2, <1>3

\* Writing a page entry where the walk of an aligned page stops maps its block.
LEMMA WriteMoved ==
  ASSUME NEW m, NEW r, NEW pl, Placed(m, r, pl), NEW o \in {"k", "t"}, NEW x \in Space(o, r), NEW l \in 1..3,
         NEW t \in DOMAIN m, Passes(pl, o, x, t), pl[t].lev = l, High(m, pl, o, x, l), x % PageSize(l) = 0,
         NEW e \in Entries, e.present, l = 1 \/ ~IsLink(e), e.user <=> o = "t", o = "t" => l = 1,
         NEW m2, m2 = Written(m, t, Index(x, l), e)
  PROVE  /\ Placed(m2, r, pl) /\ High(m2, pl, o, x, l)
         /\ Moved(m, pl, m2, pl, r, o, x, l, e.addr)
<1> DEFINE i == Index(x, l)
<1>2. x \in Pages /\ i \in Slots /\ pl[t].own = o
  BY Indices DEF Space, Passes
<1>3. pl[t].lev # 4 /\ t # r /\ t # KRoot
  BY OwnRoot DEF Placed, Roots
<1>4. i \in OwnSlots(t, r) /\ Slot(pl, x, t) = i
  BY <1>2, <1>3 DEF OwnSlots, Slot
<1>5. l = 1 \/ ~IsLink(m[t][i])
  <2>1. Slot(pl, x, t) = i
    BY <1>4
  <2>2. pl[t].lev > 1 => ~IsLink(m[t][Slot(pl, x, t)])
    BY HighHere
  <2> QED BY <2>1, <2>2
<1> HIDE DEF i
<1>8. Placed(m2, r, pl)
  <2>1. ~NoLarge(pl[t])
    BY <1>2 DEF NoLarge
  <2> QED BY <1>2, <1>3, <1>4, <1>5, <2>1, WritePlaced DEF i
<1>9. ASSUME NEW p \in {"k", "t"}, NEW y \in Space(p, r)
      PROVE  /\ ~(Passes(pl, p, y, t) /\ Slot(pl, y, t) = i) => Same(m, pl, m2, pl, p, y)
             /\ Passes(pl, p, y, t) /\ Slot(pl, y, t) = i =>
                  Stops(m2, pl, p, y, t) /\ Outcome(m2, pl, y, t) = <<TRUE, e.addr + (y % PageSize(l))>>
  <2>0. i \in Slots /\ (pl[t].lev = 1 \/ ~IsLink(e)) /\ m2 = Written(m, t, i, e)
    BY <1>2 DEF i
  <2>1. Passes(pl, p, y, t) /\ Slot(pl, y, t) = i =>
          Stops(m2, pl, p, y, t) /\ Outcome(m2, pl, y, t) = Result(e, y, pl[t].lev)
    BY <2>0, WriteStops
  <2>3. Result(e, y, pl[t].lev) = <<TRUE, e.addr + (y % PageSize(l))>>
    BY DEF Result
  <2>2. ~(Passes(pl, p, y, t) /\ Slot(pl, y, t) = i) => Same(m, pl, m2, pl, p, y)
    BY <2>0, WriteStops
  <2> QED BY <2>1, <2>2, <2>3
<1>10. High(m2, pl, o, x, l)
  <2>1. Stops(m2, pl, o, x, t)
    BY <1>4, <1>9
  <2> QED BY <2>1 DEF High
<1>11. Moved(m, pl, m2, pl, r, o, x, l, e.addr)
  <2> SUFFICES ASSUME NEW p \in {"k", "t"}, NEW y \in Space(p, r)
               PROVE  /\ p = o /\ Blk(y, x, l) =>
                         \E g : Stops(m2, pl, p, y, g) /\ Outcome(m2, pl, y, g) = <<TRUE, e.addr + (y - x)>>
                      /\ ~(p = o /\ Blk(y, x, l)) => Same(m, pl, m2, pl, p, y)
    BY DEF Moved
  <2>0. y \in Pages
    BY DEF Space
  <2>1. Passes(pl, p, y, t) /\ Slot(pl, y, t) = i <=> p = o /\ Blk(y, x, l)
    <3>1. Blk(y, x, l) <=> Part(y, l) = Part(x, l) /\ Index(y, l) = Index(x, l)
      BY <1>2, <2>0, Blocks DEF Blk
    <3> QED BY <1>2, <3>1 DEF Passes, Slot, i
  <2>2. Blk(y, x, l) => y - x = y % PageSize(l)
    BY <1>2, <2>0, Blocks DEF Blk
  <2> QED BY <1>9, <2>1, <2>2
<1> QED BY <1>8, <1>10, <1>11

\* s2 is s with page x's block of level l mapped to pa.
Did(s, s2, r, pl, o, x, l, pa) ==
  \E pl2 : /\ s2.ok = TRUE /\ Placed(s2.mem, r, pl2)
           /\ Moved(s.mem, pl, s2.mem, pl2, r, o, x, l, pa)

\* Writing the entry of a block moves it, when no smaller pages were mapped in it.
LEMMA Put ==
  ASSUME NEW s, NEW r, NEW pl, NEW o \in {"k", "t"}, NEW x \in Space(o, r), NEW l \in 1..3,
         Held(s, r, pl, o, l, x), High(s.mem, pl, o, x, l), x % PageSize(l) = 0,
         NEW e \in Entries, e.present, l = 1 \/ ~IsLink(e), e.user <=> o = "t", o = "t" => l = 1
  PROVE  /\ Held(put(s, Index(x, l), e), r, pl, o, l, x)
         /\ High(put(s, Index(x, l), e).mem, pl, o, x, l)
         /\ Moved(s.mem, pl, put(s, Index(x, l), e).mem, pl, r, o, x, l, e.addr)
<1> DEFINE m   == s.mem
           t   == s.at
           i   == Index(x, l)
           m2  == Written(m, t, i, e)
           res == put(s, i, e)
<1>1. /\ s = [mem |-> m, ok |-> TRUE, at |-> t] /\ s.ok = TRUE
      /\ Placed(m, r, pl) /\ t \in DOMAIN m /\ Passes(pl, o, x, t) /\ pl[t].lev = l
  BY DEF Held
<1>2. res = [mem |-> m2, ok |-> TRUE, at |-> t]
  <2>1. res = [s EXCEPT !.mem[t][i] = e]
    BY <1>1 DEF put
  <2> QED BY <1>1, <2>1 DEF Written
<1>3. /\ Placed(m2, r, pl) /\ High(m2, pl, o, x, l)
      /\ Moved(m, pl, m2, pl, r, o, x, l, e.addr)
  <2> HIDE DEF m2
  <2>1. m2 = Written(m, t, Index(x, l), e)
    BY DEF m2
  <2> HIDE DEF i
  <2> QED BY <1>1, <2>1, WriteMoved DEF m, t
<1>4. DOMAIN m2 = DOMAIN m
  BY DEF Written
<1> HIDE DEF m2, m, t, i, res
<1>5. res.mem = m2 /\ res.at = t
  BY <1>2
<1>6. Held(res, r, pl, o, l, x)
  BY <1>1, <1>2, <1>3, <1>4, <1>5 DEF Held
<1> QED BY <1>3, <1>5, <1>6 DEF m, t, i, res

\* ... or pmm_alloc found no frame.
Maps(s, s2, r, pl, o, x, l, pa) == ~s2.ok \/ Did(s, s2, r, pl, o, x, l, pa)

\* The entry of a page.
LEMMA LeafIs ==
  ASSUME NEW pa \in Nat, NEW user \in BOOLEAN
  PROVE  /\ Leaf(pa, TRUE, user) \in Entries /\ Leaf(pa, FALSE, user) \in Entries
         /\ Leaf(pa, TRUE, user).present /\ Leaf(pa, FALSE, user).present
         /\ Leaf(pa, TRUE, user).addr = pa /\ Leaf(pa, FALSE, user).addr = pa
         /\ (Leaf(pa, TRUE, user).user <=> user) /\ (Leaf(pa, FALSE, user).user <=> user)
         /\ ~IsLink(Leaf(pa, TRUE, user))
BY DEF Leaf, Entries, IsLink

\* A table of the second level is filled with the parts of a 1GB page.
Row(pa, user)     == [k \in Slots |-> Leaf(pa + k * PageSize(2), TRUE, user)]
Filled(m, t, row) == [m EXCEPT ![t] = row]

\* The entries of the parts of a 1GB page.
LEMMA RowTyped ==
  ASSUME NEW pa \in Nat, NEW user \in BOOLEAN
  PROVE  /\ Row(pa, user) \in [Slots -> Entries]
         /\ \A k \in Slots : LET e == Row(pa, user)[k]
                             IN  e.present /\ ~IsLink(e) /\ e.user = user /\ e.addr = pa + k * PageSize(2)
<1>1. ASSUME NEW k \in Slots PROVE pa + k * PageSize(2) \in Nat
  <2> DEFINE p == PageSize(2)
  <2>1. k \in Nat /\ p \in Nat
    BY Sizes DEF Slots
  <2> HIDE DEF p
  <2>2. k * p \in Nat
    BY <2>1
  <2> QED BY <2>2 DEF p
<1> QED BY <1>1 DEF Row, Leaf, Entries, IsLink

\* Filling a table with them keeps the places ...
LEMMA FilledPlaced ==
  ASSUME NEW m, NEW r, NEW pl, Placed(m, r, pl), NEW t \in DOMAIN m, pl[t].lev = 2,
         \A j \in Slots : ~IsLink(m[t][j]),
         pl[t].own = "k",
         NEW row \in [Slots -> Entries],
         \A j \in Slots : ~IsLink(row[j]) /\ ~row[j].user
  PROVE  Placed(Filled(m, t, row), r, pl)
<1> DEFINE m2 == Filled(m, t, row)
<1>1. t # KRoot /\ t # r
  BY OwnRoot DEF Placed, Roots
<1>2. /\ DOMAIN m2 = DOMAIN m /\ m2 = [f \in DOMAIN m2 |-> m2[f]] /\ m2[t] = row
      /\ \A f \in DOMAIN m : f # t => m2[f] = m[f]
  BY DEF Filled
<1> HIDE DEF m2
<1>3. Typed(m2, r)
  <2>1. ASSUME NEW f \in DOMAIN m PROVE m2[f] \in [Slots -> Entries]
    BY <1>2, OwnRoot
  <2> QED BY <1>2, <2>1 DEF Placed, Typed
<1>4. Roots(m2, r, pl)
  BY <1>2 DEF Placed, Roots
<1>5. Linked(m2, r, pl)
  <2> SUFFICES ASSUME NEW f \in DOMAIN m, NEW j \in Slots, j \in OwnSlots(f, r), pl[f].lev > 1, IsLink(m2[f][j])
               PROVE  m2[f][j].addr \in DOMAIN m /\ pl[m2[f][j].addr] = Child(pl[f], j)
    BY <1>2 DEF Linked
  <2>1. f # t
    BY <1>2
  <2>2. m2[f][j] = m[f][j]
    BY <1>2, <2>1
  <2> QED BY <2>2 DEF Placed, Linked
<1>6. Reached(m2, r, pl)
  <2> SUFFICES ASSUME NEW f \in DOMAIN m, pl[f].lev < 4
               PROVE  \E g \in DOMAIN m : \E j \in OwnSlots(g, r) :
                        pl[g].lev > 1 /\ IsLink(m2[g][j]) /\ m2[g][j].addr = f
    BY <1>2 DEF Reached
  <2>1. PICK g \in DOMAIN m : \E j \in OwnSlots(g, r) :
          pl[g].lev > 1 /\ IsLink(m[g][j]) /\ m[g][j].addr = f
    BY DEF Placed, Reached
  <2>2. PICK j \in OwnSlots(g, r) : pl[g].lev > 1 /\ IsLink(m[g][j]) /\ m[g][j].addr = f
    BY <2>1
  <2>3. j \in Slots
    BY OwnRoot
  <2>4. m2[g][j] = m[g][j]
    BY <1>2, <2>2, <2>3
  <2> QED BY <2>2, <2>4
<1>7. Contents(m2, r, pl)
  <2>0. Contents(m, r, pl) /\ KRoot \in DOMAIN m /\ (r # 0 => r \in DOMAIN m)
    BY DEF Placed, Roots
  <2>1. m2[KRoot] = m[KRoot] /\ (r # 0 => m2[r] = m[r])
    BY <1>1, <1>2, <2>0
  <2>2. ASSUME NEW f \in DOMAIN m, NEW j \in Slots, j \in OwnSlots(f, r)
        PROVE  /\ NoLarge(pl[f]) => ~m2[f][j].large
               /\ pl[f].own = "k" /\ (pl[f].lev = 1 \/ ~IsLink(m2[f][j])) => ~m2[f][j].user
               /\ pl[f].own = "t" /\ pl[f].lev > 1 /\ IsLink(m2[f][j]) => m2[f][j].user
    <3>1. CASE f = t
      <4>1. ~NoLarge(pl[t]) /\ pl[t].own # "t"
        BY DEF NoLarge
      <4> QED BY <3>1, <4>1, <1>2
    <3>2. CASE f # t
      <4>1. m2[f][j] = m[f][j]
        BY <3>2, <1>2
      <4> QED BY <4>1, <2>0, <2>2 DEF Contents
    <3> QED BY <3>1, <3>2
  <2> QED BY <2>0, <2>1, <2>2, <1>2 DEF Contents
<1> QED BY <1>2, <1>3, <1>4, <1>5, <1>6, <1>7 DEF Placed, m2

\* ... and maps the 1GB page.
LEMMA FilledMoved ==
  ASSUME NEW m, NEW r, NEW pl, Placed(m, r, pl), NEW o \in {"k", "t"}, NEW x \in Space(o, r),
         NEW t \in DOMAIN m, Passes(pl, o, x, t), pl[t].lev = 2, x % PageSize(3) = 0,
         \A j \in Slots : ~IsLink(m[t][j]),
         NEW pa \in Nat, NEW user \in BOOLEAN, user <=> o = "t", o = "k"
  PROVE  LET m2 == Filled(m, t, Row(pa, user))
         IN  Placed(m2, r, pl) /\ High(m2, pl, o, x, 2) /\ Moved(m, pl, m2, pl, r, o, x, 3, pa)
<1> DEFINE row == Row(pa, user)
           m2  == Filled(m, t, row)
<1>1. /\ row \in [Slots -> Entries]
      /\ \A k \in Slots : /\ row[k].present /\ ~IsLink(row[k]) /\ row[k].user = user
                          /\ row[k].addr = pa + k * PageSize(2)
  BY RowTyped
<1>2. x \in Pages /\ pl[t].own = o /\ pl[t].pre = Part(x, 2)
  BY DEF Passes, Space
<1> HIDE DEF row
<1>3. Placed(m2, r, pl)
  BY <1>1, <1>2, FilledPlaced
<1>4. DOMAIN m2 = DOMAIN m /\ m2[t] = row /\ \A f \in DOMAIN m : f # t => m2[f] = m[f]
  BY DEF Filled
<1> HIDE DEF m2
<1>5. ASSUME NEW p \in {"k", "t"}, NEW y \in Space(p, r)
      PROVE  /\ p = o /\ Blk(y, x, 3) =>
                  Stops(m2, pl, p, y, t) /\ Outcome(m2, pl, y, t) = <<TRUE, pa + (y - x)>>
             /\ ~(p = o /\ Blk(y, x, 3)) => Same(m, pl, m2, pl, p, y)
  <2>0. y \in Pages
    BY DEF Space
  <2>1. Blk(y, x, 3) <=> Part(y, 2) = Part(x, 2)
    <3>1. PageSize(3) = Span(2)
      BY Sizes
    <3> QED BY <3>1 DEF Blk, Part
  <2>2. Passes(pl, p, y, t) <=> p = o /\ Blk(y, x, 3)
    BY <1>2, <2>1 DEF Passes
  <2>3. ASSUME p = o, Blk(y, x, 3)
        PROVE  Stops(m2, pl, p, y, t) /\ Outcome(m2, pl, y, t) = <<TRUE, pa + (y - x)>>
    <3> DEFINE k == Index(y, 2)
               d == k * PageSize(2)
               b == y % PageSize(2)
    <3>1. k \in Slots /\ Slot(pl, y, t) = k
      BY <2>0, Indices DEF Slot
    <3>2. Stops(m2, pl, p, y, t)
      BY <1>1, <1>4, <2>2, <2>3, <3>1 DEF Stops
    <3>3. y % PageSize(3) = d + b /\ d \in Nat /\ b \in Nat
      BY <2>0, Offsets
    <3>4. y - x = y % PageSize(3)
      BY <1>2, <2>0, <2>3, Blocks DEF Blk
    <3>5. row[k].present /\ row[k].addr = pa + d
      BY <1>1, <3>1
    <3> HIDE DEF k, d, b
    <3>6. Outcome(m2, pl, y, t) = <<TRUE, (pa + d) + b>>
      <4>1. Outcome(m2, pl, y, t) = Result(row[k], y, 2)
        BY <1>4, <3>1 DEF Outcome
      <4>2. Result(row[k], y, 2) = <<TRUE, (pa + d) + b>>
        BY <3>5 DEF Result, b
      <4> QED BY <4>1, <4>2
    <3>7. (pa + d) + b = pa + (d + b)
      BY <3>3
    <3> QED BY <3>2, <3>3, <3>4, <3>6, <3>7
  <2>4. ASSUME ~(p = o /\ Blk(y, x, 3)) PROVE Same(m, pl, m2, pl, p, y)
    <3> SUFFICES ASSUME NEW f, Stops(m, pl, p, y, f)
                 PROVE  Stops(m2, pl, p, y, f) /\ Outcome(m2, pl, y, f) = Outcome(m, pl, y, f)
      BY DEF Same
    <3>1. f \in DOMAIN m /\ f # t
      BY <2>2, <2>4 DEF Stops
    <3>2. f \in DOMAIN m2 /\ m2[f] = m[f]
      BY <1>4, <3>1
    <3> QED BY <3>2, StopKept
  <2> QED BY <2>3, <2>4
<1>6. Moved(m, pl, m2, pl, r, o, x, 3, pa)
  BY <1>5 DEF Moved
<1>7. High(m2, pl, o, x, 2)
  <2>1. Stops(m2, pl, o, x, t)
    BY <1>5 DEF Blk
  <2> QED BY <2>1 DEF High
<1> QED BY <1>3, <1>6, <1>7 DEF m2, row

\* A refusal passes through.
LEMMA RefusedStep ==
  ASSUME NEW s, ~s.ok, NEW i, NEW l, NEW user \in BOOLEAN
  PROVE  pd_get_or_create(s, i, l, user) = s
BY DEF pd_get_or_create

\* The same of the last write.
LEMMA RefusedPut ==
  ASSUME NEW s, ~s.ok, NEW i, NEW e
  PROVE  put(s, i, e) = s
BY DEF put

\* vmm_map_impl for the smaller sizes maps the block, once its way to the third level is made.
LEMMA MapBelow ==
  ASSUME NEW s, NEW r, NEW pl, NEW o \in {"k", "t"}, NEW x \in Space(o, r), NEW l \in 1..2,
         Held(s, r, pl, o, 3, x), High(s.mem, pl, o, x, l), x % PageSize(l) = 0,
         NEW pa \in Nat, NEW user \in BOOLEAN, user <=> o = "t", o = "t" => l = 1,
         NEW size, size = MM_PAGE_4KB <=> l = 1
  PROVE  Maps(s, map_below(s, x, pa, user, size), r, pl, o, x, l, pa)
<1> DEFINE el  == Leaf(pa, TRUE, user)
           es  == Leaf(pa, FALSE, user)
           s2  == pd_get_or_create(s, Index(x, PML3), PML3, user)
           s1  == pd_get_or_create(s2, Index(x, PML2), PML2, user)
           r2  == put(s2, Index(x, 2), el)
           r1  == put(s1, Index(x, 1), es)
           res == map_below(s, x, pa, user, size)
<1> SUFFICES ~res.ok \/ Did(s, res, r, pl, o, x, l, pa)
  BY DEF Maps
<1>1. res = IF size # MM_PAGE_4KB THEN r2 ELSE r1
  BY DEF map_below, PML1, PML2, PML3
<1>2. Stepped(s, s2, r, pl, o, x, 3)
  BY GetOrCreate DEF PML3
<1>3. ASSUME NEW p2, Held(s2, r, p2, o, 2, x) PROVE Stepped(s2, s1, r, p2, o, x, 2)
  <2> HIDE DEF s2
  <2>1. 2 \in 2..4 /\ ~(o = "k" /\ 2 = 4)
    OBVIOUS
  <2>2. s1 = pd_get_or_create(s2, Index(x, 2), 2, user)
    BY DEF PML2
  <2> HIDE DEF s1
  <2>3. Stepped(s2, pd_get_or_create(s2, Index(x, 2), 2, user), r, p2, o, x, 2)
    BY <1>3, <2>1, GetOrCreate
  <2> QED BY <2>2, <2>3
<1>7. /\ el \in Entries /\ el.present /\ ~IsLink(el) /\ (el.user <=> o = "t") /\ el.addr = pa
      /\ es \in Entries /\ es.present /\ (es.user <=> o = "t") /\ es.addr = pa
  BY LeafIs
<1> HIDE DEF s1, s2, el, es
<1>4. CASE ~s2.ok
  <2>1. s1 = s2 /\ r2 = s2
    BY <1>4, RefusedStep, RefusedPut DEF s1
  <2>2. r1 = s1
    BY <1>4, <2>1, RefusedPut
  <2> HIDE DEF r1, r2, res
  <2> QED BY <1>1, <1>4, <2>1, <2>2
<1>5. ASSUME NEW p2, Held(s2, r, p2, o, 2, x), AllSame(s.mem, pl, s2.mem, p2, r),
             \A k \in 1..2 : High(s.mem, pl, o, x, k) => High(s2.mem, p2, o, x, k)
      PROVE  ~res.ok \/ Did(s, res, r, pl, o, x, l, pa)
  <2>1. CASE l = 2
    <3>1. res = r2
      BY <1>1, <2>1
    <3>2. High(s2.mem, p2, o, x, 2)
      BY <1>5, <2>1
    <3>3. Held(r2, r, p2, o, 2, x) /\ Moved(s2.mem, p2, r2.mem, p2, r, o, x, 2, pa)
      <4>1. Held(s2, r, p2, o, l, x) /\ High(s2.mem, p2, o, x, l) /\ r2 = put(s2, Index(x, l), el) /\ l \in 1..3
        BY <1>5, <2>1, <3>2
      <4>2. /\ Held(put(s2, Index(x, l), el), r, p2, o, l, x)
            /\ Moved(s2.mem, p2, put(s2, Index(x, l), el).mem, p2, r, o, x, l, el.addr)
        <5> HIDE DEF r2
        <5>1. el \in Entries /\ el.present /\ (l = 1 \/ ~IsLink(el)) /\ (el.user <=> o = "t")
          BY <1>7
        <5>2. Held(put(s2, Index(x, l), el), r, p2, o, l, x)
          BY <4>1, <5>1, Put
        <5>3. Moved(s2.mem, p2, put(s2, Index(x, l), el).mem, p2, r, o, x, l, el.addr)
          BY <4>1, <5>1, Put
        <5> QED BY <5>2, <5>3
      <4> HIDE DEF r2
      <4> QED BY <1>7, <2>1, <4>1, <4>2
    <3> HIDE DEF r2, res
    <3>4. Moved(s.mem, pl, r2.mem, p2, r, o, x, 2, pa)
      BY <1>5, <3>3, SameMoved
    <3>5. r2.ok = TRUE /\ Placed(r2.mem, r, p2)
      BY <3>3 DEF Held
    <3> QED BY <2>1, <3>1, <3>4, <3>5 DEF Did
  <2>2. CASE l = 1
    <3>1. res = r1
      BY <1>1, <2>2
    <3>2. CASE ~s1.ok
      BY <3>1, <3>2, RefusedPut
    <3>3. ASSUME NEW p1, Held(s1, r, p1, o, 1, x), AllSame(s2.mem, p2, s1.mem, p1, r)
          PROVE  Did(s, res, r, pl, o, x, l, pa)
      <4>1. High(s1.mem, p1, o, x, 1)
        BY <3>3, HighLowest DEF Held
      <4>2. Held(r1, r, p1, o, 1, x) /\ Moved(s1.mem, p1, r1.mem, p1, r, o, x, 1, pa)
        <5>1. Held(s1, r, p1, o, l, x) /\ High(s1.mem, p1, o, x, l) /\ r1 = put(s1, Index(x, l), es) /\ l \in 1..3
          BY <2>2, <3>3, <4>1
        <5>2. /\ Held(put(s1, Index(x, l), es), r, p1, o, l, x)
              /\ Moved(s1.mem, p1, put(s1, Index(x, l), es).mem, p1, r, o, x, l, es.addr)
          <6> HIDE DEF r1
          <6>1. es \in Entries /\ es.present /\ (l = 1 \/ ~IsLink(es)) /\ (es.user <=> o = "t")
            BY <1>7, <2>2
          <6>2. Held(put(s1, Index(x, l), es), r, p1, o, l, x)
            BY <5>1, <6>1, Put
          <6>3. Moved(s1.mem, p1, put(s1, Index(x, l), es).mem, p1, r, o, x, l, es.addr)
            BY <5>1, <6>1, Put
          <6> QED BY <6>2, <6>3
        <5> HIDE DEF r1
        <5> QED BY <1>7, <2>2, <5>1, <5>2
      <4> HIDE DEF r1, res
      <4>3. AllSame(s.mem, pl, s1.mem, p1, r)
        BY <1>5, <3>3, SameSteps
      <4>4. Moved(s.mem, pl, r1.mem, p1, r, o, x, 1, pa)
        BY <4>2, <4>3, SameMoved
      <4>5. r1.ok = TRUE /\ Placed(r1.mem, r, p1)
        BY <4>2 DEF Held
      <4> QED BY <2>2, <3>1, <4>4, <4>5 DEF Did
    <3> HIDE DEF res
    <3> QED BY <1>3, <1>5, <3>2, <3>3 DEF Stepped
  <2> QED BY <2>1, <2>2
<1> HIDE DEF res, r1, r2
<1> QED BY <1>2, <1>4, <1>5 DEF Stepped

\* vmm_map maps the block and nothing else, or pmm_alloc finds no frame.
LEMMA MapDoes ==
  ASSUME NEW pl, Placed(mem, troot, pl), pages1G \in BOOLEAN,
         NEW o \in {"k", "t"}, NEW x \in Space(o, troot), NEW l \in 1..3,
         o = "k" => Index(x, 4) = KSlot,
         High(mem, pl, o, x, l), x % PageSize(l) = 0,
         NEW pa \in Nat, NEW user \in BOOLEAN, user <=> o = "t", o = "t" => l = 1
  PROVE  Maps(Begin(Root(o, troot)), vmm_map(Root(o, troot), x, pa, user, PageSize(l)), troot, pl, o, x, l, pa)
<1> DEFINE el  == Leaf(pa, TRUE, user)
           r   == troot
           s   == Begin(Root(o, r))
           s3  == pd_get_or_create(s, Index(x, PML4), PML4, user)
           s2  == pd_get_or_create(s3, Index(x, PML3), PML3, user)
           g1  == put(s3, Index(x, 3), el)
           g2  == [s2 EXCEPT !.at = s3.at, !.mem[s2.at] = Row(pa, user)]
           big == IF pages1G THEN g1 ELSE IF ~s2.ok THEN s2 ELSE g2
           res == vmm_map(Root(o, r), x, pa, user, PageSize(l))
<1> SUFFICES ~res.ok \/ Did(s, res, r, pl, o, x, l, pa)
  BY DEF Maps
<1>1. res = map_below(IF l = 3 THEN big ELSE s3, x, pa, user, PageSize(l))
  <2>1. PageSize(l) = MM_PAGE_1GB <=> l = 3
    <3>1. l = 1 \/ l = 2 \/ l = 3
      OBVIOUS
    <3>2. Fan \in Nat /\ Fan > 1
      BY Sizes
    <3>3. Fan * Fan # Fan /\ Fan * Fan # 1
      BY <3>2
    <3> QED BY <3>1, <3>3, Sizes DEF MM_PAGE_1GB, PML3
  <2> QED BY <2>1 DEF vmm_map, PML3, MM_PAGE_2MB, PML2, Row
<1>2. PageSize(l) = MM_PAGE_4KB <=> l = 1
  <2>1. l = 1 \/ l = 2 \/ l = 3
    OBVIOUS
  <2>2. Fan * Fan # 1 /\ Fan # 1
    BY Sizes
  <2> QED BY <2>1, <2>2, Sizes DEF MM_PAGE_4KB, PML1
<1>3. Held(s, r, pl, o, 4, x) /\ s.mem = mem
  BY RootPasses DEF Begin, Held
<1> HIDE DEF s
<1>4. Stepped(s, s3, r, pl, o, x, 4)
  <2>1. \A k \in 2..4 : (o = "k" /\ k = 4 => Index(x, 4) = KSlot) /\ Held(s, r, pl, o, k, x)
          => Stepped(s, pd_get_or_create(s, Index(x, k), k, user), r, pl, o, x, k)
    BY GetOrCreate
  <2>2. Stepped(s, pd_get_or_create(s, Index(x, 4), 4, user), r, pl, o, x, 4)
    BY <1>3, <2>1
  <2> QED BY <2>2 DEF PML4
<1>5. ASSUME NEW p3, Held(s3, r, p3, o, 3, x) PROVE Stepped(s3, s2, r, p3, o, x, 3)
  <2> HIDE DEF s3
  <2> QED BY <1>5, GetOrCreate DEF PML3
<1>10. el \in Entries /\ el.present /\ ~IsLink(el) /\ (el.user <=> o = "t") /\ el.addr = pa
  BY LeafIs
<1> HIDE DEF s3, el
<1>6. ASSUME NEW q, ~q.ok PROVE ~map_below(q, x, pa, user, PageSize(l)).ok
  <2> DEFINE q2 == pd_get_or_create(q, Index(x, PML3), PML3, user)
             q1 == pd_get_or_create(q2, Index(x, PML2), PML2, user)
  <2>1. q2 = q
    BY <1>6, RefusedStep
  <2>2. q1 = q
    BY <1>6, <2>1, RefusedStep
  <2> HIDE DEF q1, q2
  <2>3. put(q2, Index(x, PML2), Leaf(pa, TRUE, user)) = q
    BY <1>6, <2>1 DEF put
  <2>4. put(q1, Index(x, PML1), Leaf(pa, FALSE, user)) = q
    BY <1>6, <2>2 DEF put
  <2>5. map_below(q, x, pa, user, PageSize(l)) \in {q}
    BY <2>3, <2>4 DEF map_below, q1, q2
  <2> QED BY <1>6, <2>5
<1>7. CASE ~s3.ok
  <2>1. s2 = s3 /\ g1 = s3
    BY <1>7, RefusedStep, RefusedPut DEF s2
  <2>2. big = s3
    BY <1>7, <2>1
  <2> QED BY <1>1, <1>6, <1>7, <2>2
<1>8. ASSUME NEW p3, Held(s3, r, p3, o, 3, x), AllSame(mem, pl, s3.mem, p3, r),
             \A k \in 1..3 : High(mem, pl, o, x, k) => High(s3.mem, p3, o, x, k)
      PROVE  ~res.ok \/ Did(s, res, r, pl, o, x, l, pa)
  <2>1. CASE l # 3
    <3> HIDE DEF res
    <3>1. res = map_below(s3, x, pa, user, PageSize(l)) /\ l \in 1..2 /\ High(s3.mem, p3, o, x, l)
      BY <1>1, <1>8, <2>1
    <3>2. ~res.ok \/ Did(s3, res, r, p3, o, x, l, pa)
      <4> DEFINE n == PageSize(l)
                 b == map_below(s3, x, pa, user, n)
      <4>1. n = MM_PAGE_4KB <=> l = 1
        BY <1>2
      <4>2. Held(s3, r, p3, o, 3, x) /\ High(s3.mem, p3, o, x, l) /\ l \in 1..2
        BY <1>8, <3>1
      <4> HIDE DEF n
      <4>3. Maps(s3, b, r, p3, o, x, l, pa)
        BY <4>1, <4>2, MapBelow
      <4> QED BY <3>1, <4>3 DEF n, Maps
    <3>3. ASSUME NEW p2, res.ok = TRUE, Placed(res.mem, r, p2), Moved(s3.mem, p3, res.mem, p2, r, o, x, l, pa)
          PROVE  Did(s, res, r, pl, o, x, l, pa)
      <4>1. Moved(mem, pl, res.mem, p2, r, o, x, l, pa)
        BY <1>8, <3>3, SameMoved
      <4> QED BY <1>3, <3>3, <4>1 DEF Did
    <3> QED BY <3>2, <3>3 DEF Did
  <2>2. CASE l = 3
    <3>0. x \in Pages /\ x % PageSize(2) = 0
      <4>1. x \in Pages /\ 3 \in 2..4
        BY DEF Space
      <4> DEFINE d == Index(x, 2) * PageSize(2)
                 b == x % PageSize(2)
      <4>2. x % PageSize(3) = d + b /\ d \in Nat /\ b \in Nat
        BY <4>1, Offsets
      <4> HIDE DEF d, b
      <4>3. b = 0
        BY <2>2, <4>2
      <4> QED BY <4>1, <4>3 DEF b
    <3>1. res = map_below(big, x, pa, user, PageSize(3))
      BY <1>1, <2>2
    <3>2. High(s3.mem, p3, o, x, 3) /\ s3.ok = TRUE /\ Placed(s3.mem, r, p3)
      BY <1>8, <2>2 DEF Held
    <3>3. \/ ~big.ok
          \/ \E p2 : Held(big, r, p2, o, 3, x) /\ High(big.mem, p2, o, x, 2)
                       /\ Moved(mem, pl, big.mem, p2, r, o, x, 3, pa)
      <4>1. CASE pages1G
        <5>1. big = g1
          BY <4>1
        <5>2. Held(g1, r, p3, o, 3, x) /\ High(g1.mem, p3, o, x, 3) /\ Moved(s3.mem, p3, g1.mem, p3, r, o, x, 3, pa)
          BY <1>8, <1>10, <2>2, <3>2, Put
        <5> HIDE DEF g1, big
        <5>3. Moved(mem, pl, g1.mem, p3, r, o, x, 3, pa)
          BY <1>8, <5>2, SameMoved
        <5>4. High(g1.mem, p3, o, x, 2)
          <6>1. PICK f : Stops(g1.mem, p3, o, x, f) /\ p3[f].lev >= 3
            BY <5>2 DEF High
          <6>2. p3[f].lev \in 1..4
            BY <5>2, <6>1 DEF Stops, Held, Placed, Place
          <6> QED BY <6>1, <6>2 DEF High
        <5> QED BY <5>1, <5>2, <5>3, <5>4
      <4>2. CASE ~pages1G /\ ~s2.ok
        BY <4>2
      <4>3. CASE ~pages1G /\ s2.ok
        <5> HIDE DEF s2
        <5>1. PICK p2 : /\ Held(s2, r, p2, o, 2, x)
                        /\ AllSame(s3.mem, p3, s2.mem, p2, r) /\ Kept(s3.mem, p3, s2.mem, p2)
                        /\ \A j \in Slots : ~IsLink(s2.mem[s2.at][j])
          BY <1>5, <1>8, <3>2, <4>3 DEF Stepped
        <5>2. /\ s2 = [mem |-> s2.mem, ok |-> TRUE, at |-> s2.at]
              /\ Placed(s2.mem, r, p2) /\ s2.at \in DOMAIN s2.mem
              /\ Passes(p2, o, x, s2.at) /\ p2[s2.at].lev = 2
          BY <5>1 DEF Held
        <5> DEFINE m2 == Filled(s2.mem, s2.at, Row(pa, user))
        <5>3. Placed(m2, r, p2) /\ High(m2, p2, o, x, 2) /\ Moved(s2.mem, p2, m2, p2, r, o, x, 3, pa)
          BY <2>2, <5>1, <5>2, FilledMoved
        <5>4. big = [mem |-> m2, ok |-> TRUE, at |-> s3.at]
          BY <4>3, <5>2 DEF Filled
        <5>d. DOMAIN m2 = DOMAIN s2.mem
          BY DEF Filled
        <5> HIDE DEF m2, big
        <5>5. AllSame(mem, pl, s2.mem, p2, r)
          BY <1>8, <5>1, SameSteps
        <5>6. Moved(mem, pl, m2, p2, r, o, x, 3, pa)
          BY <5>3, <5>5, SameMoved
        <5>7. s3.at \in DOMAIN m2 /\ Passes(p2, o, x, s3.at) /\ p2[s3.at].lev = 3
          <6>1. s3.at \in DOMAIN s3.mem /\ Passes(p3, o, x, s3.at) /\ p3[s3.at].lev = 3
            BY <1>8 DEF Held
          <6>2. s3.at \in DOMAIN s2.mem /\ p2[s3.at] = p3[s3.at]
            BY <5>1, <6>1 DEF Kept
          <6> QED BY <5>d, <6>1, <6>2 DEF Passes
        <5>8. Held(big, r, p2, o, 3, x) /\ big.mem = m2
          BY <5>3, <5>4, <5>7 DEF Held
        <5> QED BY <5>3, <5>6, <5>8
      <4> QED BY <4>1, <4>2, <4>3
    <3> HIDE DEF big, res
    <3>4. CASE ~big.ok
      BY <1>6, <2>2, <3>1, <3>4
    <3>5. ASSUME NEW p2, Held(big, r, p2, o, 3, x), High(big.mem, p2, o, x, 2),
                 Moved(mem, pl, big.mem, p2, r, o, x, 3, pa)
          PROVE  ~res.ok \/ Did(s, res, r, pl, o, x, 3, pa)
      <4>1. ~res.ok \/ Did(big, res, r, p2, o, x, 2, pa)
        <5> DEFINE n == PageSize(3)
                   b == map_below(big, x, pa, user, n)
        <5>1. n = MM_PAGE_4KB <=> 2 = 1
          BY <1>2, <2>2
        <5> HIDE DEF n
        <5>2. ASSUME NEW k \in 1..2, High(big.mem, p2, o, x, k), x % PageSize(k) = 0, n = MM_PAGE_4KB <=> k = 1
              PROVE  Maps(big, b, r, p2, o, x, k, pa)
          <6>1. Held(big, r, p2, o, 3, x)
            BY <3>5
          <6>2. o = "t" => k = 1
            BY <2>2
          <6> HIDE DEF big
          <6> QED BY <5>2, <6>1, <6>2, MapBelow
        <5>3. Maps(big, b, r, p2, o, x, 2, pa)
          BY <3>0, <3>5, <5>1, <5>2
        <5> QED BY <3>1, <5>3 DEF n, Maps
      <4>2. ASSUME NEW p1, res.ok = TRUE, Placed(res.mem, r, p1), Moved(big.mem, p2, res.mem, p1, r, o, x, 2, pa)
            PROVE  Did(s, res, r, pl, o, x, 3, pa)
        <5>1. Moved(mem, pl, res.mem, p1, r, o, x, 3, pa)
          BY <3>0, <3>5, <4>2, MovedAgain
        <5> QED BY <1>3, <4>2, <5>1 DEF Did
      <4> QED BY <4>1, <4>2 DEF Did
    <3> QED BY <2>2, <3>3, <3>4, <3>5
  <2> QED BY <2>1, <2>2
<1> HIDE DEF res
<1> QED BY <1>3, <1>4, <1>7, <1>8 DEF Stepped

\* Afterwards the block of page x at level l is not mapped, and the rest is as it was.
Gone(m, pl, m2, pl2, r, o, x, l) ==
  \A p \in {"k", "t"} : \A y \in Space(p, r) :
    /\ p = o /\ Blk(y, x, l) => \E g : Stops(m2, pl2, p, y, g) /\ Outcome(m2, pl2, y, g) = <<FALSE, 0>>
    /\ ~(p = o /\ Blk(y, x, l)) => Same(m, pl, m2, pl2, p, y)

\* vmm_unmap clears the entry where the walk stops, which is the entry of the
\* page's whole block.
LEMMA UnmapDoes ==
  ASSUME NEW pl, Placed(mem, troot, pl), NEW o \in {"k", "t"}, NEW x \in Space(o, troot),
         o = "k" => Index(x, 4) = KSlot,
         NEW f, Stops(mem, pl, o, x, f)
  PROVE  /\ Placed(vmm_unmap(Root(o, troot), x), troot, pl)
         /\ Gone(mem, pl, vmm_unmap(Root(o, troot), x), pl, troot, o, x, pl[f].lev)
         /\ \A y \in Space(o, troot) : Blk(y, x, pl[f].lev) =>
              Stops(mem, pl, o, y, f) /\ mem[f][Slot(pl, y, f)] = mem[f][Slot(pl, x, f)]
<1> DEFINE m  == mem
           r  == troot
           l  == pl[f].lev
           i  == Index(x, l)
           m2 == Written(m, f, i, Absent)
<1>1. f \in DOMAIN m /\ Passes(pl, o, x, f) /\ pl[f].own = o /\ pl[f].pre = Part(x, l) /\ (l = 1 \/ ~IsLink(m[f][i]))
  BY DEF Stops, Passes, Slot
<1>2. pl[f] \in Place /\ l \in 1..4
  BY <1>1, OwnRoot DEF Place
<1>3. x \in Pages /\ i \in Slots
  BY <1>2, Indices DEF Space
<1>4. vmm_unmap(Root(o, r), x) = m2
  <2>1. Walk(Root(o, r), x).table = f /\ Walk(Root(o, r), x).level = l
    BY WalkIs DEF Walk
  <2> QED BY <2>1 DEF vmm_unmap, Written
<1>5. f # KRoot
  <2> SUFFICES ASSUME f = KRoot PROVE FALSE
    OBVIOUS
  <2>1. pl[f] = [own |-> "k", lev |-> 4, pre |-> 0]
    BY DEF Placed, Roots
  <2>2. o = "k" /\ l = 4 /\ i = KSlot
    BY <1>1, <2>1
  <2>3. m[f][i] = Table(KRoot + 1, TRUE)
    BY <1>3, <2>2 DEF Placed, Contents
  <2> QED BY <1>1, <2>2, <2>3 DEF Table, IsLink
<1>6. i \in OwnSlots(f, r)
  <2>1. CASE f # r
    BY <2>1, <1>3 DEF OwnSlots
  <2>2. CASE f = r
    <3>1. r # 0
      BY <1>1, <2>2, OwnRoot
    <3>2. pl[f] = [own |-> "t", lev |-> 4, pre |-> 0]
      BY <2>2, <3>1 DEF Placed, Roots
    <3>3. o = "t" /\ l = 4
      BY <1>1, <3>2
    <3> QED BY <2>2, <3>3 DEF OwnSlots, Space
  <2> QED BY <2>1, <2>2
<1>7. Absent \in Entries /\ ~IsLink(Absent) /\ ~Absent.user /\ ~Absent.large /\ ~Absent.present
  BY DEF Absent, Entries, IsLink
<1>8. Placed(m2, r, pl)
  BY <1>1, <1>5, <1>6, <1>7, WritePlaced
<1>9. ASSUME NEW p \in {"k", "t"}, NEW y \in Space(p, r)
      PROVE  Passes(pl, p, y, f) /\ Slot(pl, y, f) = i <=> p = o /\ Blk(y, x, l)
  <2>1. y \in Pages
    BY DEF Space
  <2>2. Blk(y, x, l) <=> Part(y, l) = Part(x, l) /\ Index(y, l) = Index(x, l)
    BY <1>2, <1>3, <2>1, Blocks DEF Blk
  <2> QED BY <1>1, <2>2 DEF Passes, Slot
<1>10. Gone(m, pl, m2, pl, r, o, x, l)
  <2> SUFFICES ASSUME NEW p \in {"k", "t"}, NEW y \in Space(p, r)
               PROVE  /\ p = o /\ Blk(y, x, l) =>
                           \E g : Stops(m2, pl, p, y, g) /\ Outcome(m2, pl, y, g) = <<FALSE, 0>>
                      /\ ~(p = o /\ Blk(y, x, l)) => Same(m, pl, m2, pl, p, y)
    BY DEF Gone
  <2> HIDE DEF i, l, m2
  <2>0. m2 = Written(m, f, i, Absent) /\ (pl[f].lev = 1 \/ ~IsLink(Absent))
    BY <1>7 DEF m2
  <2>1. ~(Passes(pl, p, y, f) /\ Slot(pl, y, f) = i) => Same(m, pl, m2, pl, p, y)
    BY <1>1, <1>3, <1>7, <2>0, WriteStops
  <2>2. Passes(pl, p, y, f) /\ Slot(pl, y, f) = i =>
          Stops(m2, pl, p, y, f) /\ Outcome(m2, pl, y, f) = Result(Absent, y, pl[f].lev)
    BY <1>1, <1>3, <1>7, <2>0, WriteStops
  <2>3. Result(Absent, y, pl[f].lev) = <<FALSE, 0>>
    BY <1>7 DEF Result
  <2> QED BY <1>9, <2>1, <2>2, <2>3
<1>11. ASSUME NEW y \in Space(o, r), Blk(y, x, l)
       PROVE  Stops(m, pl, o, y, f) /\ m[f][Slot(pl, y, f)] = m[f][Slot(pl, x, f)]
  <2>1. Passes(pl, o, y, f) /\ Slot(pl, y, f) = i /\ Slot(pl, x, f) = i
    BY <1>9, <1>11 DEF Slot
  <2> QED BY <1>1, <2>1 DEF Stops
<1> QED BY <1>4, <1>8, <1>10, <1>11
------------------------------------------------------------------------------
(* A task's map is made and destroyed.                                       *)

Directory(m)    == [i \in Slots |-> IF i \in UserSlots THEN Absent ELSE m[KRoot][i]]
Added(m, n)     == [f \in DOMAIN m \cup {n} |-> IF f = n THEN Directory(m) ELSE m[f]]
RootAdded(pl, n) ==
  [f \in DOMAIN pl \cup {n} |-> IF f = n THEN [own |-> "t", lev |-> 4, pre |-> 0] ELSE pl[f]]

\* The kernel's pages are where they were, and no page of the task is mapped.
LEMMA MakePlaced ==
  ASSUME NEW m, NEW pl, Placed(m, 0, pl), NEW n \in Frames, n \notin DOMAIN m
  PROVE  /\ Placed(Added(m, n), n, RootAdded(pl, n))
         /\ \A y \in Pages : Same(m, pl, Added(m, n), RootAdded(pl, n), "k", y)
         /\ \A y \in Space("t", n) : /\ Stops(Added(m, n), RootAdded(pl, n), "t", y, n)
                                     /\ Outcome(Added(m, n), RootAdded(pl, n), y, n) = <<FALSE, 0>>
<1> DEFINE m2  == Added(m, n)
           pl2 == RootAdded(pl, n)
           D2  == DOMAIN m \cup {n}
<1>1. /\ DOMAIN m2 = D2 /\ m2[n] = Directory(m) /\ m2 = [f \in DOMAIN m2 |-> m2[f]]
      /\ \A f \in DOMAIN m : m2[f] = m[f]
  BY DEF Added
<1>2. DOMAIN pl = DOMAIN m /\ KRoot \in DOMAIN m
  BY DEF Placed, Roots
<1>3. /\ DOMAIN pl2 = D2 /\ pl2[n] = [own |-> "t", lev |-> 4, pre |-> 0] /\ pl2 = [f \in D2 |-> pl2[f]]
      /\ \A f \in DOMAIN m : pl2[f] = pl[f]
  BY <1>2 DEF RootAdded
<1>4. /\ 0 \notin DOMAIN m /\ n # 0 /\ n # KRoot
      /\ \A f \in DOMAIN m : pl[f] \in Place /\ m[f] \in [Slots -> Entries] /\ pl[f].own = "k"
  BY <1>2, OwnRoot, VmmAssumption DEF Placed, Roots
<1>5. /\ \A f \in DOMAIN m : OwnSlots(f, n) = Slots /\ OwnSlots(f, 0) = Slots
      /\ OwnSlots(n, n) = UserSlots /\ UserSlots \subseteq Slots
  BY <1>4, Half DEF OwnSlots
<1>6. /\ Directory(m) \in [Slots -> Entries]
      /\ \A i \in UserSlots : Directory(m)[i] = Absent
      /\ \A i \in Slots \ UserSlots : Directory(m)[i] = m[KRoot][i]
  <2>1. Absent \in Entries
    BY DEF Absent, Entries
  <2> QED BY <1>2, <1>4, <1>5, <2>1 DEF Directory
<1>7. ~Absent.present /\ ~Absent.large /\ ~Absent.user /\ ~IsLink(Absent)
  BY DEF Absent, IsLink
<1> HIDE DEF m2, pl2
<1>8. Typed(m2, n)
  <2>1. IsFiniteSet(D2) /\ D2 \subseteq Frames \cup KRoot..(KRoot + 2)
    BY FS_AddElement DEF Placed, Typed
  <2>2. ASSUME NEW f \in D2 PROVE m2[f] \in [Slots -> Entries]
    BY <1>1, <1>4, <1>6
  <2> QED BY <1>1, <2>1, <2>2 DEF Typed
<1>9. pl2 \in [D2 -> Place] /\ \A f, g \in D2 : pl2[f] = pl2[g] => f = g
  <2>1. pl2[n] \in Place
    BY <1>3 DEF Place
  <2>2. \A f \in DOMAIN m : pl2[f] # pl2[n]
    BY <1>3, <1>4
  <2>3. pl2 \in [D2 -> Place]
    BY <1>3, <1>4, <2>1
  <2>4. \A f, g \in DOMAIN m : pl[f] = pl[g] => f = g
    BY DEF Placed
  <2> QED BY <1>3, <2>2, <2>3, <2>4
<1>10. Roots(m2, n, pl2)
  <2>1. Roots(m, 0, pl)
    BY DEF Placed
  <2>2. \A f \in D2 : pl2[f].lev = 4 => f \in {KRoot, n}
    BY <1>3, <1>4, <2>1 DEF Roots
  <2> QED BY <1>1, <1>2, <1>3, <1>4, <2>1, <2>2 DEF Roots
<1>11. Linked(m2, n, pl2)
  <2> SUFFICES ASSUME NEW f \in D2, NEW j \in Slots, j \in OwnSlots(f, n), pl2[f].lev > 1, IsLink(m2[f][j])
               PROVE  m2[f][j].addr \in D2 /\ pl2[m2[f][j].addr] = Child(pl2[f], j)
    BY <1>1 DEF Linked
  <2>1. f \in DOMAIN m
    BY <1>1, <1>5, <1>6, <1>7
  <2>2. m[f][j].addr \in DOMAIN m /\ pl[m[f][j].addr] = Child(pl[f], j)
    BY <1>1, <1>3, <1>5, <2>1 DEF Placed, Linked
  <2> QED BY <1>1, <1>3, <2>1, <2>2
<1>12. Reached(m2, n, pl2)
  <2> SUFFICES ASSUME NEW f \in D2, pl2[f].lev < 4
               PROVE  \E g \in D2 : \E j \in OwnSlots(g, n) :
                        pl2[g].lev > 1 /\ IsLink(m2[g][j]) /\ m2[g][j].addr = f
    BY <1>1 DEF Reached
  <2>1. f \in DOMAIN m /\ pl[f].lev < 4
    BY <1>3
  <2>2. PICK g \in DOMAIN m : \E j \in OwnSlots(g, 0) :
          pl[g].lev > 1 /\ IsLink(m[g][j]) /\ m[g][j].addr = f
    BY <2>1 DEF Placed, Reached
  <2> QED BY <1>1, <1>3, <1>5, <2>2
<1>13. Contents(m2, n, pl2)
  <2>0. Contents(m, 0, pl)
    BY DEF Placed
  <2>1. m2[KRoot] = m[KRoot]
    BY <1>1, <1>2
  <2>2. \A j \in Slots \ UserSlots : m2[n][j] = m2[KRoot][j]
    BY <1>1, <1>6, <2>1
  <2>3. ASSUME NEW f \in D2, NEW j \in Slots, j \in OwnSlots(f, n)
        PROVE  /\ NoLarge(pl2[f]) => ~m2[f][j].large
               /\ pl2[f].own = "k" /\ (pl2[f].lev = 1 \/ ~IsLink(m2[f][j])) => ~m2[f][j].user
               /\ pl2[f].own = "t" /\ pl2[f].lev > 1 /\ IsLink(m2[f][j]) => m2[f][j].user
    <3>1. CASE f = n
      <4>1. m2[f][j] = Absent
        BY <2>3, <3>1, <1>1, <1>5, <1>6
      <4> QED BY <4>1, <1>7
    <3>2. CASE f \in DOMAIN m
      <4>1. m2[f] = m[f] /\ pl2[f] = pl[f] /\ j \in OwnSlots(f, 0)
        BY <3>2, <1>1, <1>3, <1>5
      <4> QED BY <3>2, <4>1, <2>0 DEF Contents
    <3> QED BY <3>1, <3>2
  <2> QED BY <1>1, <2>0, <2>1, <2>2, <2>3 DEF Contents
<1>14. Placed(m2, n, pl2)
  BY <1>1, <1>8, <1>9, <1>10, <1>11, <1>12, <1>13 DEF Placed
<1>15. ASSUME NEW y \in Pages PROVE Same(m, pl, m2, pl2, "k", y)
  <2> SUFFICES ASSUME NEW f, Stops(m, pl, "k", y, f)
               PROVE  Stops(m2, pl2, "k", y, f) /\ Outcome(m2, pl2, y, f) = Outcome(m, pl, y, f)
    BY DEF Same
  <2>1. f \in DOMAIN m /\ f \in DOMAIN m2 /\ pl2[f] = pl[f] /\ m2[f] = m[f]
    BY <1>1, <1>3 DEF Stops
  <2> QED BY <2>1, StopKept
<1>16. ASSUME NEW y \in Space("t", n)
       PROVE  Stops(m2, pl2, "t", y, n) /\ Outcome(m2, pl2, y, n) = <<FALSE, 0>>
  <2>1. y \in Pages /\ Index(y, 4) \in UserSlots
    BY DEF Space
  <2>2. Passes(pl2, "t", y, n) /\ Slot(pl2, y, n) = Index(y, 4)
    BY <1>3, <2>1, Parts DEF Passes, Slot
  <2>3. m2[n][Slot(pl2, y, n)] = Absent
    BY <1>1, <1>6, <2>1, <2>2
  <2> QED BY <1>1, <1>7, <2>2, <2>3 DEF Stops, Outcome, Result
<1> QED BY <1>14, <1>15, <1>16 DEF m2, pl2

\* The kernel's tables alone.
Kernels(m, pl)     == { f \in DOMAIN m : pl[f].own = "k" }
Restricted(fn, S)  == [f \in S |-> fn[f]]

\* vmm_destroy_page_map keeps the kernel's tables and pages.
LEMMA DestroyPlaced ==
  ASSUME NEW m, NEW r, NEW pl, Placed(m, r, pl)
  PROVE  LET K   == Kernels(m, pl)
             m2  == Restricted(m, K)
             pl2 == Restricted(pl, K)
         IN  Placed(m2, 0, pl2) /\ \A y \in Pages : Same(m, pl, m2, pl2, "k", y)
<1> DEFINE K   == Kernels(m, pl)
           m2  == Restricted(m, K)
           pl2 == Restricted(pl, K)
<1>1. /\ DOMAIN m2 = K /\ m2 = [f \in DOMAIN m2 |-> m2[f]] /\ \A f \in K : m2[f] = m[f]
      /\ DOMAIN pl2 = K /\ pl2 = [f \in K |-> pl2[f]] /\ \A f \in K : pl2[f] = pl[f]
  BY DEF Restricted
<1>2. K \subseteq DOMAIN m /\ \A f \in K : pl[f].own = "k"
  BY DEF Kernels
<1>3. /\ 0 \notin DOMAIN m /\ r # KRoot /\ r \notin K /\ KRoot \in K
      /\ \A f \in DOMAIN m : pl[f] \in Place /\ m[f] \in [Slots -> Entries]
  <2>1. KRoot \in K
    BY DEF Placed, Roots, Kernels
  <2>2. 0 \notin DOMAIN m /\ r # KRoot /\ \A f \in DOMAIN m : pl[f] \in Place /\ m[f] \in [Slots -> Entries]
    BY OwnRoot
  <2>3. r \notin K
    <3>1. CASE r = 0
      BY <1>2, <2>2, <3>1
    <3>2. CASE r # 0
      <4>1. pl[r] = [own |-> "t", lev |-> 4, pre |-> 0]
        BY <3>2 DEF Placed, Roots
      <4> QED BY <1>2, <4>1
    <3> QED BY <3>1, <3>2
  <2> QED BY <2>1, <2>2, <2>3
<1>4. \A f \in K : OwnSlots(f, r) = Slots /\ OwnSlots(f, 0) = Slots
  BY <1>2, <1>3 DEF OwnSlots
<1>5. \A f \in DOMAIN m : f \in K <=> pl[f].own = "k"
  BY DEF Kernels
<1> HIDE DEF m2, pl2, K
<1>6. Typed(m2, 0)
  <2>1. IsFiniteSet(K) /\ K \subseteq Frames \cup KRoot..(KRoot + 2)
    BY <1>2, FS_Subset DEF Placed, Typed
  <2>2. \A f \in K : m2[f] \in [Slots -> Entries]
    BY <1>1, <1>2, <1>3
  <2> QED BY <1>1, <2>1, <2>2 DEF Typed
<1>7. pl2 \in [K -> Place] /\ \A f, g \in K : pl2[f] = pl2[g] => f = g
  <2>1. \A f, g \in DOMAIN m : pl[f] = pl[g] => f = g
    BY DEF Placed
  <2> QED BY <1>1, <1>2, <1>3, <2>1
<1>8. Roots(m2, 0, pl2)
  <2>1. Roots(m, r, pl)
    BY DEF Placed
  <2>2. \A f \in K : pl2[f].lev = 4 => f \in {KRoot, 0}
    BY <1>1, <1>2, <1>3, <2>1 DEF Roots
  <2> QED BY <1>1, <1>2, <1>3, <2>1, <2>2 DEF Roots
<1>9. Linked(m2, 0, pl2)
  <2> SUFFICES ASSUME NEW f \in K, NEW j \in Slots, pl2[f].lev > 1, IsLink(m2[f][j])
               PROVE  m2[f][j].addr \in K /\ pl2[m2[f][j].addr] = Child(pl2[f], j)
    BY <1>1 DEF Linked
  <2>1. m[f][j].addr \in DOMAIN m /\ pl[m[f][j].addr] = Child(pl[f], j)
    BY <1>1, <1>2, <1>4 DEF Placed, Linked
  <2>2. Child(pl[f], j).own = "k"
    BY <1>2 DEF Child
  <2>3. m[f][j].addr \in K
    BY <1>5, <2>1, <2>2
  <2> QED BY <1>1, <2>1, <2>3
<1>10. Reached(m2, 0, pl2)
  <2> SUFFICES ASSUME NEW f \in K, pl2[f].lev < 4
               PROVE  \E g \in K : \E j \in OwnSlots(g, 0) :
                        pl2[g].lev > 1 /\ IsLink(m2[g][j]) /\ m2[g][j].addr = f
    BY <1>1 DEF Reached
  <2>1. PICK g \in DOMAIN m : \E j \in OwnSlots(g, r) :
          pl[g].lev > 1 /\ IsLink(m[g][j]) /\ m[g][j].addr = f
    BY <1>1, <1>2 DEF Placed, Reached
  <2>2. PICK j \in OwnSlots(g, r) : pl[g].lev > 1 /\ IsLink(m[g][j]) /\ m[g][j].addr = f
    BY <2>1
  <2>3. j \in Slots
    BY OwnRoot
  <2>4. pl[f] = Child(pl[g], j)
    BY <2>2, <2>3 DEF Placed, Linked
  <2>5. pl[g].own = "k"
    <3>1. pl[f].own = pl[g].own
      BY <2>4 DEF Child
    <3> QED BY <1>2, <3>1
  <2>6. g \in K
    BY <1>5, <2>5
  <2> QED BY <1>1, <1>4, <2>2, <2>3, <2>6
<1>11. Contents(m2, 0, pl2)
  <2>0. Contents(m, r, pl)
    BY DEF Placed
  <2>1. m2[KRoot] = m[KRoot]
    BY <1>1, <1>3
  <2>2. ASSUME NEW f \in K, NEW j \in Slots
        PROVE  /\ NoLarge(pl2[f]) => ~m2[f][j].large
               /\ pl2[f].own = "k" /\ (pl2[f].lev = 1 \/ ~IsLink(m2[f][j])) => ~m2[f][j].user
               /\ pl2[f].own = "t" /\ pl2[f].lev > 1 /\ IsLink(m2[f][j]) => m2[f][j].user
    BY <1>1, <1>2, <1>4, <2>0 DEF Contents
  <2> QED BY <1>1, <2>0, <2>1, <2>2 DEF Contents
<1>12. Placed(m2, 0, pl2)
  BY <1>1, <1>6, <1>7, <1>8, <1>9, <1>10, <1>11 DEF Placed
<1>13. ASSUME NEW y \in Pages PROVE Same(m, pl, m2, pl2, "k", y)
  <2> SUFFICES ASSUME NEW f, Stops(m, pl, "k", y, f)
               PROVE  Stops(m2, pl2, "k", y, f) /\ Outcome(m2, pl2, y, f) = Outcome(m, pl, y, f)
    BY DEF Same
  <2>1. f \in K
    BY <1>5 DEF Stops, Passes
  <2>2. f \in DOMAIN m2 /\ pl2[f] = pl[f] /\ m2[f] = m[f]
    BY <1>1, <2>1
  <2> QED BY <2>2, StopKept
<1> QED BY <1>12, <1>13 DEF m2, pl2, K

\* The boot loader's tables hang one below the other.
LoaderPlace(by1G) ==
  [f \in KRoot..(IF by1G THEN KRoot + 1 ELSE KRoot + 2) |->
     [own |-> "k", lev |-> 4 - (f - KRoot),
      pre |-> IF f = KRoot THEN 0 ELSE IF f = KRoot + 1 THEN KSlot ELSE KSlot * Fan]]

\* The boot loader's map is placed.
LEMMA LoaderPlaced ==
  ASSUME NEW by1G \in BOOLEAN
  PROVE  Placed(LoaderMap(by1G), 0, LoaderPlace(by1G))
<1> DEFINE m  == LoaderMap(by1G)
           pl == LoaderPlace(by1G)
           t3 == KRoot + 1
           t2 == KRoot + 2
           D  == KRoot..(IF by1G THEN t3 ELSE t2)
<1>0. /\ KRoot \in Nat /\ KRoot # 0 /\ Fan \in Nat /\ Fan > 1 /\ KSlot \in Slots /\ 0 \in Slots /\ KSlot \in Nat
      /\ PageSize(2) \in Nat
  BY VmmAssumption, Half, Sizes DEF Slots
<1>1. /\ KRoot \in D /\ t3 \in D /\ (t2 \in D <=> ~by1G) /\ D \subseteq {KRoot, t3, t2}
      /\ KRoot # t3 /\ KRoot # t2 /\ t3 # t2 /\ 0 \notin D
  BY <1>0
<1>2. DOMAIN m = D /\ m = [f \in DOMAIN m |-> m[f]] /\ DOMAIN pl = D /\ pl = [f \in D |-> pl[f]]
  BY DEF LoaderMap, LoaderPlace
<1>a. \A f \in D, i \in Slots : m[f][i] =
        CASE f = KRoot /\ i = Fan \div 2 -> Table(t3, TRUE)
          [] f = t3 /\ i = 0 -> IF by1G THEN Leaf(0, TRUE, FALSE) ELSE Table(t2, TRUE)
          [] f = t2 -> Leaf(i * PageSize(2), TRUE, FALSE)
          [] OTHER -> Absent
  BY DEF LoaderMap, MM_PAGE_2MB, PML2
<1>b. \A f \in D : m[f] = [i \in Slots |-> m[f][i]]
  BY DEF LoaderMap
<1>c. /\ pl[KRoot] = [own |-> "k", lev |-> 4, pre |-> 0]
      /\ pl[t3] = [own |-> "k", lev |-> 3, pre |-> KSlot]
      /\ t2 \in D => pl[t2] = [own |-> "k", lev |-> 2, pre |-> KSlot * Fan]
  BY <1>0, <1>1 DEF LoaderPlace
<1>d. IsFiniteSet(D) /\ D \subseteq KRoot..(KRoot + 2) /\ t3 = KRoot + 1 /\ t3 \in Nat /\ t2 \in Nat
  <2>1. IsFiniteSet(KRoot..(KRoot + 2))
    BY <1>0, FS_Interval
  <2>2. D \subseteq KRoot..(KRoot + 2)
    BY <1>0
  <2> QED BY <1>0, <2>1, <2>2, FS_Subset
<1> HIDE DEF m, pl, D, t3, t2
<1>3. ASSUME NEW i \in Slots
      PROVE  /\ m[KRoot][i] = IF i = KSlot THEN Table(t3, TRUE) ELSE Absent
             /\ m[t3][i] = IF i # 0 THEN Absent ELSE IF by1G THEN Leaf(0, TRUE, FALSE) ELSE Table(t2, TRUE)
             /\ t2 \in D => m[t2][i] = Leaf(i * PageSize(2), TRUE, FALSE)
  <2>1. m[KRoot][i] = IF i = KSlot THEN Table(t3, TRUE) ELSE Absent
    BY <1>1, <1>a DEF KSlot
  <2>2. m[t3][i] = IF i # 0 THEN Absent ELSE IF by1G THEN Leaf(0, TRUE, FALSE) ELSE Table(t2, TRUE)
    BY <1>1, <1>a
  <2>3. t2 \in D => m[t2][i] = Leaf(i * PageSize(2), TRUE, FALSE)
    BY <1>1, <1>a
  <2> QED BY <2>1, <2>2, <2>3
<1>5. /\ Absent \in Entries /\ ~IsLink(Absent) /\ ~Absent.large /\ ~Absent.user
      /\ Table(t3, TRUE) \in Entries /\ Table(t3, TRUE).addr = t3 /\ ~Table(t3, TRUE).large /\ IsLink(Table(t3, TRUE))
      /\ Table(t2, TRUE) \in Entries /\ Table(t2, TRUE).addr = t2 /\ IsLink(Table(t2, TRUE))
      /\ Leaf(0, TRUE, FALSE) \in Entries /\ ~IsLink(Leaf(0, TRUE, FALSE)) /\ ~Leaf(0, TRUE, FALSE).user
  BY <1>0, <1>d DEF Absent, Table, Leaf, Entries, IsLink
<1>6. ASSUME NEW i \in Slots
      PROVE  /\ Leaf(i * PageSize(2), TRUE, FALSE) \in Entries /\ ~IsLink(Leaf(i * PageSize(2), TRUE, FALSE))
             /\ ~Leaf(i * PageSize(2), TRUE, FALSE).user
  <2> DEFINE p == PageSize(2)
  <2>1. i \in Nat /\ p \in Nat
    BY <1>0 DEF Slots
  <2> HIDE DEF p
  <2>2. i * p \in Nat
    BY <2>1
  <2> QED BY <2>2 DEF p, Leaf, Entries, IsLink
<1>7. \A f \in D : m[f] \in [Slots -> Entries]
  <2>1. m[KRoot] \in [Slots -> Entries]
    BY <1>1, <1>b, <1>3, <1>5
  <2>2. m[t3] \in [Slots -> Entries]
    BY <1>1, <1>b, <1>3, <1>5
  <2>3. t2 \in D => m[t2] \in [Slots -> Entries]
    BY <1>1, <1>b, <1>3, <1>6
  <2> QED BY <1>1, <2>1, <2>2, <2>3
<1>8. Typed(m, 0)
  BY <1>2, <1>7, <1>d DEF Typed
<1>9. pl \in [D -> Place] /\ \A f, g \in D : pl[f] = pl[g] => f = g
  <2>1. KSlot * Fan \in Nat
    BY <1>0
  <2>2. \A f \in D : pl[f] \in Place
    BY <1>0, <1>1, <1>c, <2>1 DEF Place
  <2> QED BY <1>1, <1>2, <1>c, <2>2
<1>10. Roots(m, 0, pl)
  BY <1>1, <1>2, <1>c DEF Roots
<1>11. \A f \in D : OwnSlots(f, 0) = Slots
  BY <1>1 DEF OwnSlots
<1>12. Linked(m, 0, pl)
  <2> SUFFICES ASSUME NEW f \in D, NEW j \in Slots, IsLink(m[f][j])
               PROVE  m[f][j].addr \in D /\ pl[m[f][j].addr] = Child(pl[f], j)
    BY <1>2 DEF Linked
  <2>1. CASE f = KRoot
    <3>1. j = KSlot /\ m[f][j] = Table(t3, TRUE)
      BY <2>1, <1>3, <1>5
    <3>2. Child(pl[KRoot], KSlot) = pl[t3]
      BY <1>0, <1>c DEF Child
    <3> QED BY <2>1, <1>1, <1>5, <3>1, <3>2
  <2>2. CASE f = t3
    <3>1. j = 0 /\ m[f][j] = Table(t2, TRUE) /\ ~by1G
      BY <2>2, <1>3, <1>5
    <3>2. Child(pl[t3], 0) = [own |-> "k", lev |-> 2, pre |-> KSlot * Fan + 0]
      BY <1>c DEF Child
    <3>3. KSlot * Fan + 0 = KSlot * Fan
      BY <1>0
    <3>4. Child(pl[t3], 0) = pl[t2]
      BY <1>1, <1>c, <3>1, <3>2, <3>3
    <3> QED BY <2>2, <1>1, <1>5, <3>1, <3>4
  <2>3. CASE f = t2
    BY <2>3, <1>3, <1>6
  <2> QED BY <1>1, <2>1, <2>2, <2>3
<1>13. Reached(m, 0, pl)
  <2> SUFFICES ASSUME NEW f \in D, pl[f].lev < 4
               PROVE  \E g \in D : \E j \in OwnSlots(g, 0) :
                        pl[g].lev > 1 /\ IsLink(m[g][j]) /\ m[g][j].addr = f
    BY <1>2 DEF Reached
  <2>1. CASE f = KRoot
    BY <2>1, <1>c
  <2>2. CASE f = t3
    <3>1. IsLink(m[KRoot][KSlot]) /\ m[KRoot][KSlot].addr = t3 /\ pl[KRoot].lev > 1
      <4>1. m[KRoot][KSlot] = Table(t3, TRUE)
        BY <1>0, <1>3
      <4>2. pl[KRoot].lev = 4
        BY <1>c
      <4>3. IsLink(m[KRoot][KSlot])
        BY <4>1, <1>5
      <4>4. m[KRoot][KSlot].addr = t3
        BY <4>1, <1>5
      <4> QED BY <4>2, <4>3, <4>4
    <3> QED BY <2>2, <1>0, <1>1, <1>11, <3>1
  <2>3. CASE f = t2
    <3>1. IsLink(m[t3][0]) /\ m[t3][0].addr = t2 /\ pl[t3].lev > 1
      <4>1. m[t3][0] = Table(t2, TRUE)
        BY <2>3, <1>0, <1>1, <1>3
      <4>2. pl[t3].lev = 3
        BY <1>c
      <4>3. IsLink(m[t3][0])
        BY <4>1, <1>5
      <4>4. m[t3][0].addr = t2
        BY <4>1, <1>5
      <4> QED BY <4>2, <4>3, <4>4
    <3> QED BY <2>3, <1>0, <1>1, <1>11, <3>1
  <2> QED BY <1>1, <2>1, <2>2, <2>3
<1>14. Contents(m, 0, pl)
  <2>1. ASSUME NEW f \in D, NEW j \in Slots
        PROVE  /\ NoLarge(pl[f]) => ~m[f][j].large
               /\ pl[f].own = "k" /\ (pl[f].lev = 1 \/ ~IsLink(m[f][j])) => ~m[f][j].user
               /\ pl[f].own = "t" /\ pl[f].lev > 1 /\ IsLink(m[f][j]) => m[f][j].user
    <3>1. CASE f = KRoot
      <4>1. m[f][j] = Table(t3, TRUE) \/ m[f][j] = Absent
        BY <3>1, <1>3
      <4>2. pl[f].own = "k" /\ pl[f].lev = 4
        BY <3>1, <1>c
      <4>3. CASE m[f][j] = Table(t3, TRUE)
        <5>1. IsLink(m[f][j]) /\ ~m[f][j].large
          BY <4>3, <1>5
        <5> QED BY <4>2, <5>1
      <4>4. CASE m[f][j] = Absent
        BY <4>2, <4>4, <1>5
      <4> QED BY <4>1, <4>3, <4>4
    <3>2. CASE f = t3
      <4>1. m[f][j] = Table(t2, TRUE) \/ m[f][j] = Absent \/ m[f][j] = Leaf(0, TRUE, FALSE)
        BY <3>2, <1>3
      <4>2. ~NoLarge(pl[f]) /\ pl[f].own = "k" /\ pl[f].lev # 1
        BY <3>2, <1>c DEF NoLarge
      <4> QED BY <4>1, <4>2, <1>5
    <3>3. CASE f = t2
      <4>1. m[f][j] = Leaf(j * PageSize(2), TRUE, FALSE)
        BY <3>3, <1>3
      <4>2. ~NoLarge(pl[f]) /\ pl[f].own = "k" /\ pl[f].lev # 1
        BY <3>3, <1>c DEF NoLarge
      <4> QED BY <4>1, <4>2, <1>6
    <3> QED BY <1>1, <3>1, <3>2, <3>3
  <2>2. m[KRoot] = [i \in Slots |-> IF i = KSlot THEN Table(KRoot + 1, TRUE) ELSE Absent]
    BY <1>1, <1>b, <1>3, <1>d
  <2> QED BY <1>2, <2>1, <2>2 DEF Contents
<1> QED BY <1>2, <1>8, <1>9, <1>10, <1>12, <1>13, <1>14 DEF Placed, m, pl
------------------------------------------------------------------------------
(* The levels of the two trees, as the code walks them.                      *)

\* The tables of o's map at level l, and the slots of them that are o's.
Level(m, pl, o, l) == { f \in DOMAIN m : pl[f].own = o /\ pl[f].lev = l }
Inside(o, l)       == IF o = "t" /\ l = 4 THEN UserSlots ELSE Slots

\* No two entries lead to the same place.
LEMMA ChildOnce ==
  ASSUME NEW p \in Place, NEW q \in Place, NEW i \in Slots, NEW j \in Slots, Child(p, i) = Child(q, j)
  PROVE  p = q /\ i = j
<1> DEFINE a == p.pre
           b == q.pre
<1>1. a \in Nat /\ b \in Nat /\ i \in 0..(Fan - 1) /\ j \in 0..(Fan - 1) /\ Fan \in Nat /\ Fan > 1
  BY Sizes DEF Place, Slots
<1>2. p.own = q.own /\ p.lev - 1 = q.lev - 1 /\ a * Fan + i = b * Fan + j
  BY DEF Child
<1>3. p.lev = q.lev
  BY <1>2 DEF Place
<1> HIDE DEF a, b
<1>4. Fan * a + i = Fan * b + j
  BY <1>1, <1>2
<1>5. (Fan * a + i) \div Fan = a /\ (Fan * b + j) \div Fan = b
  BY <1>1, DivUnique
<1>6. (Fan * a + i) % Fan = i /\ (Fan * b + j) % Fan = j
  BY <1>1, DivUnique
<1>7. a = b /\ i = j
  BY <1>4, <1>5, <1>6
<1> QED BY <1>2, <1>3, <1>7 DEF Place, a, b

\* The entries of one level lead to all tables of the next, one each, and a
\* task's entries are all marked USER.
LEMMA LinksLevel ==
  ASSUME NEW pl, Placed(mem, troot, pl), NEW o \in {"k", "t"}, NEW l \in 2..4
  PROVE  LET L == Links(Level(mem, pl, o, l), Inside(o, l))
             B == Level(mem, pl, o, l - 1)
         IN  /\ Below(L) = B
             /\ o = "t" => UserTablesBelow(Level(mem, pl, o, l), Inside(o, l)) = B
             /\ IsFiniteSet(B) /\ IsFiniteSet(L) /\ Cardinality(L) = Cardinality(B)
<1> DEFINE S == Level(mem, pl, o, l)
           I == Inside(o, l)
           B == Level(mem, pl, o, l - 1)
           L == Links(S, I)
           Led(x) == mem[x[1]][x[2]].addr
<1>1. /\ \A f \in DOMAIN mem : pl[f] \in Place /\ mem[f] \in [Slots -> Entries]
      /\ I \subseteq Slots /\ troot # KRoot /\ 0 \notin DOMAIN mem
  BY OwnRoot, Half DEF Inside
<1>2. \A f \in S : f \in DOMAIN mem /\ pl[f].own = o /\ pl[f].lev = l
  BY DEF Level
<1>3. ASSUME NEW f \in S PROVE OwnSlots(f, troot) = I
  <2>1. CASE f = troot
    <3>1. pl[f] = [own |-> "t", lev |-> 4, pre |-> 0]
      BY <2>1, <1>1, <1>2 DEF Placed, Roots
    <3> QED BY <2>1, <3>1, <1>2 DEF OwnSlots, Inside
  <2>2. CASE f # troot
    <3>1. ~(o = "t" /\ l = 4)
      <4> SUFFICES ASSUME o = "t", l = 4 PROVE FALSE
        OBVIOUS
      <4>1. f = KRoot
        BY <2>2, <1>2 DEF Placed, Roots
      <4>2. pl[f].own = "k"
        BY <4>1 DEF Placed, Roots
      <4> QED BY <4>2, <1>2
    <3> QED BY <2>2, <3>1 DEF OwnSlots, Inside
  <2> QED BY <2>1, <2>2
<1>4. ASSUME NEW x \in L
      PROVE  /\ x[1] \in S /\ x[2] \in I /\ x = <<x[1], x[2]>> /\ IsLink(mem[x[1]][x[2]])
             /\ Led(x) \in B /\ pl[Led(x)] = Child(pl[x[1]], x[2])
             /\ o = "t" => mem[x[1]][x[2]].user
  <2>1. x[1] \in S /\ x[2] \in I /\ x = <<x[1], x[2]>> /\ IsLink(mem[x[1]][x[2]])
    BY DEF Links, IsLink
  <2>2. x[1] \in DOMAIN mem /\ x[2] \in Slots /\ x[2] \in OwnSlots(x[1], troot) /\ pl[x[1]].lev = l /\ pl[x[1]].own = o
    BY <2>1, <1>1, <1>2, <1>3
  <2>3. Led(x) \in DOMAIN mem /\ pl[Led(x)] = Child(pl[x[1]], x[2])
    BY <2>1, <2>2 DEF Placed, Linked
  <2>4. Led(x) \in B
    BY <2>2, <2>3 DEF Level, Child
  <2>5. o = "t" => mem[x[1]][x[2]].user
    BY <2>1, <2>2 DEF Placed, Contents
  <2> QED BY <2>1, <2>3, <2>4, <2>5
<1>5. ASSUME NEW f \in B PROVE \E x \in L : Led(x) = f
  <2>1. f \in DOMAIN mem /\ pl[f].own = o /\ pl[f].lev = l - 1
    BY DEF Level
  <2>2. PICK g \in DOMAIN mem : \E i \in OwnSlots(g, troot) :
          pl[g].lev > 1 /\ IsLink(mem[g][i]) /\ mem[g][i].addr = f
    BY <2>1 DEF Placed, Reached
  <2>3. PICK i \in OwnSlots(g, troot) : pl[g].lev > 1 /\ IsLink(mem[g][i]) /\ mem[g][i].addr = f
    BY <2>2
  <2>4. i \in Slots
    BY OwnRoot
  <2>5. pl[f] = Child(pl[g], i)
    BY <2>3, <2>4 DEF Placed, Linked
  <2>6. pl[g].own = o /\ pl[g].lev = l
    BY <1>1, <2>1, <2>5 DEF Child, Place
  <2>7. g \in S
    BY <2>6 DEF Level
  <2>8. i \in I
    BY <2>3, <2>7, <1>3
  <2>9. <<g, i>> \in L /\ Led(<<g, i>>) = f
    BY <2>3, <2>7, <2>8 DEF Links, IsLink
  <2> QED BY <2>9
<1>6. ASSUME NEW x \in L, NEW y \in L, Led(x) = Led(y) PROVE x = y
  <2>1. Child(pl[x[1]], x[2]) = Child(pl[y[1]], y[2])
    BY <1>4, <1>6
  <2>2. x[1] \in DOMAIN mem /\ y[1] \in DOMAIN mem /\ x[2] \in Slots /\ y[2] \in Slots
    BY <1>1, <1>2, <1>4
  <2>3. pl[x[1]] = pl[y[1]] /\ x[2] = y[2]
    BY <1>1, <2>1, <2>2, ChildOnce
  <2>4. x[1] = y[1]
    BY <2>2, <2>3 DEF Placed
  <2> QED BY <1>4, <2>3, <2>4
<1>7. Below(L) = B
  BY <1>4, <1>5 DEF Below
<1>8. ASSUME o = "t" PROVE UserTablesBelow(S, I) = B
  <2>1. {x \in L : mem[x[1]][x[2]].user} = L
    BY <1>4, <1>8
  <2> QED BY <1>7, <2>1 DEF UserTablesBelow
<1>9. IsFiniteSet(B) /\ IsFiniteSet(L) /\ Cardinality(L) = Cardinality(B)
  <2> DEFINE F == [x \in L |-> Led(x)]
  <2>1. B \subseteq DOMAIN mem /\ IsFiniteSet(DOMAIN mem)
    BY DEF Level, Placed, Typed
  <2>2. IsFiniteSet(B)
    BY <2>1, FS_Subset
  <2> HIDE DEF B, L
  <2>3. F \in [L -> B]
    BY <1>4
  <2>4. F \in Injection(L, B)
    BY <2>3, <1>6 DEF Injection, IsInjective
  <2>5. F \in Surjection(L, B)
    BY <2>3, <1>5 DEF Surjection
  <2> HIDE DEF F
  <2> QED BY <2>2, <2>4, <2>5, FS_Injection
<1> QED BY <1>7, <1>8, <1>9

\* The first level of each tree is its directory.
LEMMA Directories ==
  ASSUME NEW pl, Placed(mem, troot, pl)
  PROVE  /\ Level(mem, pl, "k", 4) = {KRoot} /\ Inside("k", 4) = Slots
         /\ Level(mem, pl, "t", 4) = {troot} \ {0} /\ Inside("t", 4) = UserSlots
         /\ \A o \in {"k", "t"}, l \in 1..3 : Inside(o, l) = Slots
         /\ \A f \in DOMAIN mem : \E o \in {"k", "t"}, l \in 1..4 : f \in Level(mem, pl, o, l)
<1>1. /\ \A f \in DOMAIN mem : pl[f] \in Place
      /\ troot # KRoot /\ 0 \notin DOMAIN mem
  BY OwnRoot
<1>2. Roots(mem, troot, pl)
  BY DEF Placed
<1>3. Level(mem, pl, "k", 4) = {KRoot}
  BY <1>1, <1>2 DEF Level, Roots
<1>4. Level(mem, pl, "t", 4) = {troot} \ {0}
  BY <1>1, <1>2 DEF Level, Roots
<1>5. \A f \in DOMAIN mem : \E o \in {"k", "t"}, l \in 1..4 : f \in Level(mem, pl, o, l)
  BY <1>1 DEF Level, Place
<1> QED BY <1>3, <1>4, <1>5 DEF Inside

\* vmm_destroy_page_map frees the task's tables and only them.
LEMMA DestroysTask ==
  ASSUME NEW pl, Placed(mem, troot, pl), troot # 0
  PROVE  DOMAIN mem \ (vmm_destroy_tables(troot) \cup {troot}) = Kernels(mem, pl)
<1> DEFINE T(l) == Level(mem, pl, "t", l)
<1>1. T(4) = {troot} /\ Inside("t", 4) = UserSlots /\ Inside("t", 3) = Slots /\ Inside("t", 2) = Slots
  BY Directories
<1>2. UserTablesBelow({troot}, UserSlots) = T(3)
  <2>1. UserTablesBelow(T(4), Inside("t", 4)) = Level(mem, pl, "t", 4 - 1)
    BY LinksLevel, 4 \in 2..4
  <2> QED BY <1>1, <2>1
<1>3. UserTablesBelow(T(3), Slots) = T(2)
  <2>1. UserTablesBelow(T(3), Inside("t", 3)) = Level(mem, pl, "t", 3 - 1)
    BY LinksLevel, 3 \in 2..4
  <2> QED BY <1>1, <2>1
<1>4. UserTablesBelow(T(2), Slots) = T(1)
  <2>1. UserTablesBelow(T(2), Inside("t", 2)) = Level(mem, pl, "t", 2 - 1)
    BY LinksLevel, 2 \in 2..4
  <2> QED BY <1>1, <2>1
<1>5. vmm_destroy_tables(troot) \cup {troot} = T(1) \cup T(2) \cup T(3) \cup T(4)
  BY <1>1, <1>2, <1>3, <1>4 DEF vmm_destroy_tables
<1>6. \A f \in DOMAIN mem : pl[f] \in Place
  BY OwnRoot
<1> QED BY <1>5, <1>6 DEF Level, Kernels, Place
------------------------------------------------------------------------------
(* What the maps translate, as AddrSpec sees them.                           *)

On(m, root, x) == WalkIn(m, root, x).entry.present
To(m, root, x) == WalkIn(m, root, x).entry.addr + (x % PageSize(WalkIn(m, root, x).level))
View(m, r, o)  == [x \in { y \in Space(o, r) : On(m, Root(o, r), y) } |-> To(m, Root(o, r), x)]

Seen(m, root, x) == Result(WalkIn(m, root, x).entry, x, WalkIn(m, root, x).level)

\* The view is known from where the walks stop.
LEMMA Sees ==
  ASSUME NEW m, NEW r, NEW pl, Placed(m, r, pl), NEW o \in {"k", "t"}, NEW x \in Space(o, r),
         NEW f, Stops(m, pl, o, x, f)
  PROVE  /\ Outcome(m, pl, x, f) = Seen(m, Root(o, r), x)
         /\ On(m, Root(o, r), x) <=> m[f][Slot(pl, x, f)].present
<1>1. /\ WalkIn(m, Root(o, r), x).level = pl[f].lev
      /\ WalkIn(m, Root(o, r), x).entry = m[f][Slot(pl, x, f)]
  BY WalkIs
<1> QED BY <1>1 DEF Outcome, Seen, On

\* What is seen of a page says whether it is mapped, and where.
LEMMA Unpack ==
  ASSUME NEW m, NEW root, NEW x
  PROVE  /\ \A v : Seen(m, root, x) = <<TRUE, v>> => On(m, root, x) /\ To(m, root, x) = v
         /\ Seen(m, root, x) = <<FALSE, 0>> => ~On(m, root, x)
         /\ On(m, root, x) => Seen(m, root, x) = <<TRUE, To(m, root, x)>>
         /\ ~On(m, root, x) => Seen(m, root, x) = <<FALSE, 0>>
<1> DEFINE e == WalkIn(m, root, x).entry
           v == e.addr + (x % PageSize(WalkIn(m, root, x).level))
<1>1. Seen(m, root, x) = IF e.present THEN <<TRUE, v>> ELSE <<FALSE, 0>>
  BY DEF Seen, Result
<1>2. (On(m, root, x) <=> e.present) /\ To(m, root, x) = v
  BY DEF On, To
<1> HIDE DEF e, v
<1>3. CASE e.present
  <2>1. Seen(m, root, x) = <<TRUE, v>> /\ On(m, root, x)
    BY <1>1, <1>2, <1>3
  <2>2. <<TRUE, v>> # <<FALSE, 0>>
    OBVIOUS
  <2>3. ASSUME NEW w, <<TRUE, v>> = <<TRUE, w>> PROVE v = w
    BY <2>3
  <2> QED BY <1>2, <2>1, <2>2, <2>3
<1>4. CASE ~e.present
  <2>1. Seen(m, root, x) = <<FALSE, 0>> /\ ~On(m, root, x)
    BY <1>1, <1>2, <1>4
  <2>2. ASSUME NEW w PROVE <<TRUE, w>> # <<FALSE, 0>>
    OBVIOUS
  <2> QED BY <2>1, <2>2
<1> QED BY <1>3, <1>4

\* So it is known from the entry a walk stops at ...
LEMMA SeesOutcome ==
  ASSUME NEW m, NEW r, NEW pl, Placed(m, r, pl), NEW o \in {"k", "t"}, NEW x \in Space(o, r)
  PROVE  /\ \A v : (\E f : Stops(m, pl, o, x, f) /\ Outcome(m, pl, x, f) = <<TRUE, v>>)
                   => On(m, Root(o, r), x) /\ To(m, Root(o, r), x) = v
         /\ (\E f : Stops(m, pl, o, x, f) /\ Outcome(m, pl, x, f) = <<FALSE, 0>>)
              => ~On(m, Root(o, r), x)
<1>0. ASSUME NEW f, Stops(m, pl, o, x, f) PROVE Seen(m, Root(o, r), x) = Outcome(m, pl, x, f)
  BY <1>0, Sees
<1>1. ASSUME NEW v, NEW f, Stops(m, pl, o, x, f), Outcome(m, pl, x, f) = <<TRUE, v>>
      PROVE  On(m, Root(o, r), x) /\ To(m, Root(o, r), x) = v
  <2>1. Seen(m, Root(o, r), x) = Outcome(m, pl, x, f)
    BY <1>0, <1>1
  <2>2. Seen(m, Root(o, r), x) = <<TRUE, v>>
    BY <2>1, <1>1
  <2> QED BY <2>2, Unpack
<1>2. ASSUME NEW f, Stops(m, pl, o, x, f), Outcome(m, pl, x, f) = <<FALSE, 0>>
      PROVE  ~On(m, Root(o, r), x)
  <2>1. Seen(m, Root(o, r), x) = Outcome(m, pl, x, f)
    BY <1>0, <1>2
  <2>2. Seen(m, Root(o, r), x) = <<FALSE, 0>>
    BY <2>1, <1>2
  <2> QED BY <2>2, Unpack
<1> QED BY <1>1, <1>2

\* ... and kept when the page is.
LEMMA SeesSame ==
  ASSUME NEW m, NEW r, NEW pl, Placed(m, r, pl), NEW m2, NEW r2, NEW pl2, Placed(m2, r2, pl2),
         NEW o \in {"k", "t"}, NEW x \in Space(o, r), x \in Space(o, r2), Same(m, pl, m2, pl2, o, x)
  PROVE  /\ On(m, Root(o, r), x) <=> On(m2, Root(o, r2), x)
         /\ On(m, Root(o, r), x) => To(m2, Root(o, r2), x) = To(m, Root(o, r), x)
<1> DEFINE R  == Root(o, r)
           R2 == Root(o, r2)
<1>1. PICK f \in DOMAIN m : Stops(m, pl, o, x, f)
  BY WalkStops
<1>2. PICK g : Stops(m2, pl2, o, x, g) /\ Outcome(m2, pl2, x, g) = Outcome(m, pl, x, f)
  BY <1>1 DEF Same
<1>3. Outcome(m, pl, x, f) = Seen(m, R, x)
  BY <1>1, Sees
<1>4. Outcome(m2, pl2, x, g) = Seen(m2, R2, x)
  BY <1>2, Sees
<1> HIDE DEF R, R2
<1>5. Seen(m, R, x) = Seen(m2, R2, x)
  BY <1>2, <1>3, <1>4
<1>6. ASSUME On(m, R, x) PROVE On(m2, R2, x) /\ To(m2, R2, x) = To(m, R, x)
  <2>1. Seen(m, R, x) = <<TRUE, To(m, R, x)>>
    BY <1>6, Unpack
  <2>2. Seen(m2, R2, x) = <<TRUE, To(m, R, x)>>
    BY <1>5, <2>1
  <2> QED BY <2>2, Unpack
<1>7. ASSUME ~On(m, R, x) PROVE ~On(m2, R2, x)
  <2>1. Seen(m, R, x) = <<FALSE, 0>>
    BY <1>7, Unpack
  <2>2. Seen(m2, R2, x) = <<FALSE, 0>>
    BY <1>5, <2>1
  <2> QED BY <2>2, Unpack
<1> QED BY <1>6, <1>7 DEF R, R2

\* A call that keeps every page keeps the view.
LEMMA ViewSame ==
  ASSUME NEW m, NEW r, NEW pl, Placed(m, r, pl), NEW m2, NEW r2, NEW pl2, Placed(m2, r2, pl2),
         NEW o \in {"k", "t"}, Space(o, r) = Space(o, r2), \A x \in Space(o, r) : Same(m, pl, m2, pl2, o, x)
  PROVE  View(m2, r2, o) = View(m, r, o)
<1>1. ASSUME NEW x \in Space(o, r)
      PROVE  /\ On(m, Root(o, r), x) <=> On(m2, Root(o, r2), x)
             /\ On(m, Root(o, r), x) => To(m2, Root(o, r2), x) = To(m, Root(o, r), x)
  BY SeesSame
<1>2. { y \in Space(o, r2) : On(m2, Root(o, r2), y) } = { y \in Space(o, r) : On(m, Root(o, r), y) }
  BY <1>1
<1> QED BY <1>1, <1>2 DEF View

\* Moving a block extends the view, and the other map's view stays.
LEMMA ViewMoved ==
  ASSUME NEW m, NEW r, NEW pl, Placed(m, r, pl), NEW m2, NEW pl2, Placed(m2, r, pl2),
         NEW o \in {"k", "t"}, NEW x \in Space(o, r), NEW l \in 1..3, NEW pa \in Nat,
         Moved(m, pl, m2, pl2, r, o, x, l, pa), o = "t" => l = 1
  PROVE  /\ View(m2, r, o) = Abs!Extended(View(m, r, o), x, pa, PageSize(l))
         /\ x \in DOMAIN View(m2, r, o) /\ View(m2, r, o)[x] = pa
         /\ \A p \in {"k", "t"} : p # o => View(m2, r, p) = View(m, r, p)
<1> DEFINE n  == PageSize(l)
           R  == Root(o, r)
           W  == View(m, r, o)
           W2 == View(m2, r, o)
           B  == Abs!Block(x, n)
<1>1. /\ W = [y \in DOMAIN W |-> To(m, R, y)] /\ DOMAIN W = { y \in Space(o, r) : On(m, R, y) }
      /\ W2 = [y \in DOMAIN W2 |-> To(m2, R, y)] /\ DOMAIN W2 = { y \in Space(o, r) : On(m2, R, y) }
      /\ \A y \in DOMAIN W : W[y] = To(m, R, y)
      /\ \A y \in DOMAIN W2 : W2[y] = To(m2, R, y)
  BY DEF View
<1>2. x \in Pages /\ x \in Nat /\ Space(o, r) \subseteq Pages
  <2>1. x \in Pages /\ Space(o, r) \subseteq Pages
    BY DEF Space
  <2> QED BY <2>1, Indices, 1 \in 1..4
<1>3. \A y : y \in B <=> y \in Pages /\ Blk(y, x, l)
  BY DEF Abs!Block, Blk
<1>4. B \subseteq Space(o, r)
  <2>1. CASE o = "k"
    BY <2>1, <1>3 DEF Space
  <2>2. CASE o = "t"
    <3> SUFFICES ASSUME NEW y \in B PROVE y = x
      OBVIOUS
    <3>1. y \div 1 = x \div 1 /\ y \in Nat
      BY <2>2, <1>3, Sizes, Indices, 1 \in 1..4 DEF Blk
    <3> QED BY <3>1, <1>2
  <2> QED BY <2>1, <2>2
<1>5. ASSUME NEW y \in Space(o, r), Blk(y, x, l) PROVE On(m2, R, y) /\ To(m2, R, y) = pa + (y - x)
  <2>1. \E g : Stops(m2, pl2, o, y, g) /\ Outcome(m2, pl2, y, g) = <<TRUE, pa + (y - x)>>
    BY <1>5 DEF Moved
  <2> QED BY <2>1, SeesOutcome
<1>6. ASSUME NEW y \in Space(o, r), ~Blk(y, x, l)
      PROVE  (On(m, R, y) <=> On(m2, R, y)) /\ (On(m, R, y) => To(m2, R, y) = To(m, R, y))
  <2>1. Same(m, pl, m2, pl2, o, y)
    BY <1>6 DEF Moved
  <2> QED BY <2>1, SeesSame
<1> HIDE DEF W, W2, B, R
<1>7. DOMAIN W2 = DOMAIN W \cup B
  BY <1>1, <1>2, <1>3, <1>4, <1>5, <1>6
<1>8. ASSUME NEW y \in DOMAIN W2
      PROVE  W2[y] = IF y \div n = x \div n THEN pa + (y - x) ELSE W[y]
  BY <1>1, <1>5, <1>6 DEF Blk
<1>9. W2 = Abs!Extended(W, x, pa, n)
  BY <1>1, <1>7, <1>8 DEF Abs!Extended, B
<1>10. x \in DOMAIN W2 /\ W2[x] = pa
  <2>1. Blk(x, x, l) /\ pa + (x - x) = pa
    BY <1>2 DEF Blk
  <2> QED BY <1>1, <1>5, <2>1
<1>11. ASSUME NEW p \in {"k", "t"}, p # o PROVE View(m2, r, p) = View(m, r, p)
  <2>1. \A y \in Space(p, r) : Same(m, pl, m2, pl2, p, y)
    BY <1>11 DEF Moved
  <2> QED BY <2>1, ViewSame
<1> QED BY <1>9, <1>10, <1>11 DEF W, W2

\* Removing one takes it out of the view.
LEMMA ViewGone ==
  ASSUME NEW m, NEW r, NEW pl, Placed(m, r, pl), NEW m2, NEW pl2, Placed(m2, r, pl2),
         NEW o \in {"k", "t"}, NEW x \in Space(o, r), NEW l \in 1..4, NEW v \in Pages, Blk(v, x, l),
         Gone(m, pl, m2, pl2, r, o, x, l)
  PROVE  /\ View(m2, r, o) = Abs!Without(View(m, r, o), Abs!Block(v, PageSize(l)))
         /\ \A p \in {"k", "t"} : p # o => View(m2, r, p) = View(m, r, p)
<1> DEFINE n  == PageSize(l)
           R  == Root(o, r)
           W  == View(m, r, o)
           W2 == View(m2, r, o)
           B  == Abs!Block(v, n)
<1>1. /\ W = [y \in DOMAIN W |-> To(m, R, y)] /\ DOMAIN W = { y \in Space(o, r) : On(m, R, y) }
      /\ W2 = [y \in DOMAIN W2 |-> To(m2, R, y)] /\ DOMAIN W2 = { y \in Space(o, r) : On(m2, R, y) }
      /\ \A y \in DOMAIN W : W[y] = To(m, R, y)
      /\ \A y \in DOMAIN W2 : W2[y] = To(m2, R, y)
  BY DEF View
<1>2. \A y : y \in B <=> y \in Pages /\ Blk(y, x, l)
  BY DEF Abs!Block, Blk
<1>3. Space(o, r) \subseteq Pages
  BY DEF Space
<1>5. ASSUME NEW y \in Space(o, r), Blk(y, x, l) PROVE ~On(m2, R, y)
  <2>1. \E g : Stops(m2, pl2, o, y, g) /\ Outcome(m2, pl2, y, g) = <<FALSE, 0>>
    BY <1>5 DEF Gone
  <2> QED BY <2>1, SeesOutcome
<1>6. ASSUME NEW y \in Space(o, r), ~Blk(y, x, l)
      PROVE  (On(m, R, y) <=> On(m2, R, y)) /\ (On(m, R, y) => To(m2, R, y) = To(m, R, y))
  <2>1. Same(m, pl, m2, pl2, o, y)
    BY <1>6 DEF Gone
  <2> QED BY <2>1, SeesSame
<1> HIDE DEF W, W2, B, R
<1>7. DOMAIN W2 = DOMAIN W \ B
  BY <1>1, <1>2, <1>3, <1>5, <1>6
<1>8. ASSUME NEW y \in DOMAIN W2 PROVE W2[y] = W[y]
  BY <1>1, <1>5, <1>6
<1>9. W2 = Abs!Without(W, B)
  BY <1>1, <1>7, <1>8 DEF Abs!Without
<1>11. ASSUME NEW p \in {"k", "t"}, p # o PROVE View(m2, r, p) = View(m, r, p)
  <2>1. \A y \in Space(p, r) : Same(m, pl, m2, pl2, p, y)
    BY <1>11 DEF Gone
  <2> QED BY <2>1, ViewSame
<1> QED BY <1>9, <1>11 DEF W, W2, B

\* The views are the model's address spaces.
LEMMA Views ==
  /\ KernelSpace = View(mem, troot, "k")
  /\ troot # 0 => TaskSpace = View(mem, troot, "t")
  /\ \A r : Space("k", r) = Pages
<1>1. \A r : Space("k", r) = Pages
  BY DEF Space
<1>2. troot # 0 => Space("t", troot) = Pages \ Upper
  BY DEF Space, Upper, PML4
<1> QED BY <1>1, <1>2 DEF View, KernelSpace, TaskSpace, vmm_is_mapped, Hardware, Walk, On, To, Root

------------------------------------------------------------------------------
(* The steps of the specification.                                           *)

\* The tables are placed somehow.
IInv ==
  /\ pages1G \in BOOLEAN /\ mode \in {"ok", "oom"}
  /\ \E pl : Placed(mem, troot, pl)

\* ... and so are those of the next state.
LEMMA ViewsNext ==
  /\ KernelSpace' = View(mem', troot', "k")
  /\ troot' # 0 => TaskSpace' = View(mem', troot', "t")
<1>1. \A r : Space("k", r) = Pages
  BY DEF Space
<1>2. troot' # 0 => Space("t", troot') = Pages \ Upper
  BY DEF Space, Upper, PML4
<1> QED BY <1>1, <1>2 DEF View, KernelSpace, TaskSpace, vmm_is_mapped, Hardware, Walk, On, To, Root

\* Higher entries have more pages under them; the kernel maps blocks of the first three levels.
LEMMA SizeOrder ==
  /\ \A a, b \in 1..4 : PageSize(a) >= PageSize(b) => a >= b
  /\ \A s \in KSizes : \E l \in 1..3 : s = PageSize(l)
  /\ \A l \in 1..3 : PageSize(l) \in {MM_PAGE_4KB, MM_PAGE_2MB, MM_PAGE_1GB}
<1> DEFINE q == Fan * Fan
           c == q * Fan
<1>1. Fan \in Nat /\ Fan > 1
  BY Sizes
<1>2. q \in Nat /\ q > Fan
  BY <1>1
<1>3. c \in Nat /\ c > q
  <2> HIDE DEF q
  <2> QED BY <1>1, <1>2
<1>4. PageSize(1) = 1 /\ PageSize(2) = Fan /\ PageSize(3) = q /\ PageSize(4) = c
  BY Sizes
<1> HIDE DEF q, c
<1>5. ASSUME NEW a \in 1..4, NEW b \in 1..4, PageSize(a) >= PageSize(b) PROVE a >= b
  BY <1>1, <1>2, <1>3, <1>4, <1>5
<1>6. \A s \in KSizes : \E l \in 1..3 : s = PageSize(l)
  BY VmmAssumption DEF MM_PAGE_4KB, MM_PAGE_2MB, MM_PAGE_1GB, PML1, PML2, PML3
<1>7. \A l \in 1..3 : PageSize(l) \in {MM_PAGE_4KB, MM_PAGE_2MB, MM_PAGE_1GB}
  BY DEF MM_PAGE_4KB, MM_PAGE_2MB, MM_PAGE_1GB, PML1, PML2, PML3
<1> QED BY <1>5, <1>6, <1>7

\* A call that maps or removes one block of one map is a step of AddrSpec.
Changes(o, v, l) ==
  \/ View(mem', troot, o) = View(mem, troot, o)
  \/ Abs!Mapped(View(mem, troot, o), View(mem', troot, o), v, PageSize(l))
  \/ Abs!Removed(View(mem, troot, o), View(mem', troot, o), v, PageSize(l))

\* So a call that does that to one map and keeps the other is a step of AddrSpec, or none.
LEMMA StepUp ==
  ASSUME NEW o \in {"k", "t"}, troot' = troot, o = "t" => troot # 0,
         \A p \in {"k", "t"} : p # o => View(mem', troot, p) = View(mem, troot, p),
         NEW v \in Pages, NEW l \in 1..3, v % PageSize(l) = 0, o = "t" => l = 1,
         Changes(o, v, l)
  PROVE  [Abs!Next]_(Abs!absVars)
<1>1. /\ KernelSpace = View(mem, troot, "k") /\ KernelSpace' = View(mem', troot, "k")
      /\ troot # 0 => TaskSpace = View(mem, troot, "t") /\ TaskSpace' = View(mem', troot, "t")
  BY Views, ViewsNext
<1>2. troot = 0 => TaskSpace' = TaskSpace
  BY DEF TaskSpace
<1>3. CASE View(mem', troot, o) = View(mem, troot, o)
  <2>1. View(mem', troot, "k") = View(mem, troot, "k") /\ View(mem', troot, "t") = View(mem, troot, "t")
    BY <1>3
  <2>2. KernelSpace' = KernelSpace /\ TaskSpace' = TaskSpace
    BY <1>1, <1>2, <2>1
  <2> QED BY <2>2 DEF Abs!absVars
<1>4. CASE View(mem', troot, o) # View(mem, troot, o) /\ o = "k"
  <2>1. View(mem', troot, "t") = View(mem, troot, "t")
    BY <1>4
  <2>2. TaskSpace' = TaskSpace /\ KernelSpace' # KernelSpace
    BY <1>1, <1>2, <1>4, <2>1
  <2>3. /\ PageSize(l) \in {MM_PAGE_4KB, MM_PAGE_2MB, MM_PAGE_1GB} /\ v \in { y \in Pages : y % PageSize(l) = 0 }
        /\ \/ Abs!Mapped(KernelSpace, KernelSpace', v, PageSize(l))
           \/ Abs!Removed(KernelSpace, KernelSpace', v, PageSize(l))
    BY <1>1, <1>4, SizeOrder DEF Changes
  <2>4. Abs!KernelStep
    BY <2>2, <2>3 DEF Abs!KernelStep
  <2> QED BY <2>4 DEF Abs!Next
<1>5. CASE View(mem', troot, o) # View(mem, troot, o) /\ o = "t"
  <2>1. View(mem', troot, "k") = View(mem, troot, "k")
    BY <1>5
  <2>2. KernelSpace' = KernelSpace /\ TaskSpace' # TaskSpace /\ troot # 0
    BY <1>1, <1>5, <2>1
  <2>3. \/ Abs!Mapped(TaskSpace, TaskSpace', v, 1)
        \/ Abs!Removed(TaskSpace, TaskSpace', v, 1)
    BY <1>1, <1>5, Sizes DEF Changes
  <2>4. Abs!TaskStep
    BY <2>2, <2>3 DEF Abs!TaskStep
  <2> QED BY <2>4 DEF Abs!Next
<1> QED BY <1>3, <1>4, <1>5

\* A step that only reports that memory ran out changes no map.
LEMMA StepOut ==
  ASSUME mem' = mem, troot' = troot PROVE [Abs!Next]_(Abs!absVars)
BY DEF Abs!absVars, KernelSpace, TaskSpace, vmm_is_mapped, Hardware, Walk

\* vmm_map of a block under no smaller pages: the tables stay placed and AddrSpec moves or stutters.
LEMMA MapStep ==
  ASSUME NEW pl, Placed(mem, troot, pl), pages1G \in BOOLEAN, mode \in {"ok", "oom"},
         NEW o \in {"k", "t"}, NEW x \in Space(o, troot), NEW l \in 1..3,
         o = "k" => Index(x, 4) = KSlot,
         High(mem, pl, o, x, l), x % PageSize(l) = 0,
         NEW pa \in Nat, NEW user \in BOOLEAN, user <=> o = "t", o = "t" => l = 1,
         Settle(vmm_map(Root(o, troot), x, pa, user, PageSize(l))), troot' = troot
  PROVE  IInv' /\ [Abs!Next]_(Abs!absVars)
<1> DEFINE s == vmm_map(Root(o, troot), x, pa, user, PageSize(l))
<1>1. Maps(Begin(Root(o, troot)), s, troot, pl, o, x, l, pa)
  BY MapDoes
<1>2. /\ pages1G' = pages1G
      /\ s.ok => mem' = s.mem /\ mode' = mode
      /\ ~s.ok => mem' = mem /\ mode' = "oom"
  BY DEF Settle
<1> HIDE DEF s
<1>3. CASE ~s.ok
  BY <1>2, <1>3, StepOut DEF IInv
<1>4. CASE s.ok
  <2>1. Did(Begin(Root(o, troot)), s, troot, pl, o, x, l, pa)
    BY <1>1, <1>4 DEF Maps
  <2>2. Begin(Root(o, troot)).mem = mem /\ mem' = s.mem
    BY <1>2, <1>4 DEF Begin
  <2>3. PICK pl2 : Placed(mem', troot, pl2) /\ Moved(mem, pl, mem', pl2, troot, o, x, l, pa)
    BY <2>1, <2>2 DEF Did
  <2>4. IInv'
    BY <1>2, <1>4, <2>3 DEF IInv
  <2>5. /\ View(mem', troot, o) = Abs!Extended(View(mem, troot, o), x, pa, PageSize(l))
        /\ x \in DOMAIN View(mem', troot, o) /\ View(mem', troot, o)[x] = pa
        /\ \A p \in {"k", "t"} : p # o => View(mem', troot, p) = View(mem, troot, p)
    BY <2>3, ViewMoved
  <2>6. Changes(o, x, l)
    BY <2>5 DEF Changes, Abs!Mapped
  <2>7. x \in Pages /\ (o = "t" => troot # 0)
    BY DEF Space
  <2>8. [Abs!Next]_(Abs!absVars)
    BY <2>5, <2>6, <2>7, StepUp
  <2> QED BY <2>4, <2>8
<1> QED BY <1>3, <1>4

\* The aligned first page of a block.
LEMMA BlockStart ==
  ASSUME NEW x \in Pages, NEW l \in 1..4
  PROVE  \E v \in Pages : v % PageSize(l) = 0 /\ Blk(v, x, l)
<1> DEFINE n == PageSize(l)
           q == x \div n
           a == n * q
<1>1. n \in Nat /\ n > 0 /\ x \in Nat
  BY Sizes, Indices
<1>b. Blk(a, x, l) <=> a \div n = x \div n
  BY DEF Blk
<1> HIDE DEF n
<1>2. q \in Nat /\ x % n \in 0..(n - 1) /\ x = n * q + (x % n)
  BY <1>1, DivMod
<1>c. q = x \div n
  OBVIOUS
<1> HIDE DEF q
<1>3. a \in Nat
  BY <1>1, <1>2
<1>4. a <= x
  BY <1>1, <1>2, <1>3
<1>d. q \in Int /\ 0 \in 0..(n - 1)
  BY <1>1, <1>2
<1>6. n * q + 0 = a
  BY <1>3
<1> HIDE DEF a
<1>5. (n * q + 0) \div n = q /\ (n * q + 0) % n = 0
  BY <1>1, <1>d, DivUnique
<1>7. a \div n = x \div n /\ a % n = 0
  BY <1>5, <1>6, <1>c
<1>8. a \in Pages
  <2>1. Fan * PageSize(4) \in Nat
    BY Sizes, 4 \in 1..4 DEF Span
  <2> HIDE DEF a
  <2> QED BY <2>1, <1>1, <1>3, <1>4 DEF Pages, PML4
<1> QED BY <1>7, <1>8, <1>b DEF n

\* vmm_unmap of a page: its whole block goes, or nothing when it was not mapped.
LEMMA UnmapStep ==
  ASSUME NEW pl, Placed(mem, troot, pl), pages1G \in BOOLEAN, mode \in {"ok", "oom"},
         NEW o \in {"k", "t"}, NEW x \in Space(o, troot), o = "k" => Index(x, 4) = KSlot,
         mem' = vmm_unmap(Root(o, troot), x), UNCHANGED <<pages1G, troot, mode>>
  PROVE  IInv' /\ [Abs!Next]_(Abs!absVars)
<1>1. PICK f \in DOMAIN mem : Stops(mem, pl, o, x, f)
  BY WalkStops
<1> DEFINE l == pl[f].lev
           e == mem[f][Slot(pl, x, f)]
<1>2. /\ Placed(mem', troot, pl) /\ Gone(mem, pl, mem', pl, troot, o, x, l)
      /\ \A y \in Space(o, troot) : Blk(y, x, l) =>
           Stops(mem, pl, o, y, f) /\ mem[f][Slot(pl, y, f)] = e
  BY <1>1, UnmapDoes
<1>3. IInv'
  BY <1>2 DEF IInv
<1>4. x \in Pages /\ (o = "t" => troot # 0) /\ pl[f] \in Place /\ l \in 1..4
  BY OwnRoot DEF Space, Place
<1>5. PICK v \in Pages : v % PageSize(l) = 0 /\ Blk(v, x, l)
  BY <1>4, BlockStart
<1>6. /\ View(mem', troot, o) = Abs!Without(View(mem, troot, o), Abs!Block(v, PageSize(l)))
      /\ \A p \in {"k", "t"} : p # o => View(mem', troot, p) = View(mem, troot, p)
  BY <1>2, <1>4, <1>5, ViewGone
<1>7. \A y \in Space(o, troot) : Blk(y, x, l) => (On(mem, Root(o, troot), y) <=> e.present)
  BY <1>2, Sees
<1>8. \A y : y \in Abs!Block(v, PageSize(l)) <=> y \in Pages /\ Blk(y, x, l)
  BY <1>5 DEF Abs!Block, Blk
<1>9. DOMAIN View(mem, troot, o) = { y \in Space(o, troot) : On(mem, Root(o, troot), y) }
      /\ View(mem, troot, o) = [y \in DOMAIN View(mem, troot, o) |-> View(mem, troot, o)[y]]
  BY DEF View
<1>10. Space(o, troot) \subseteq Pages
  BY DEF Space
<1> HIDE DEF e, l
<1>11. CASE ~e.present
  <2>1. DOMAIN View(mem, troot, o) \ Abs!Block(v, PageSize(l)) = DOMAIN View(mem, troot, o)
    BY <1>7, <1>8, <1>9, <1>11
  <2>2. View(mem', troot, o) = View(mem, troot, o)
    BY <1>6, <1>9, <2>1 DEF Abs!Without
  <2>3. Changes(o, x, 1)
    BY <2>2 DEF Changes
  <2>4. x % PageSize(1) = 0
    BY <1>4, Parts
  <2> QED BY <1>3, <1>4, <1>6, <2>3, <2>4, StepUp, 1 \in 1..3
<1>12. CASE e.present
  <2>1. l \in 1..3 /\ (o = "t" => l = 1)
    <3>1. Slot(pl, x, f) \in OwnSlots(f, troot) /\ Slot(pl, x, f) \in Slots
      <4>1. Slot(pl, x, f) \in Slots
        BY <1>4, Indices DEF Slot, l
      <4>2. CASE f = troot
        <5>1. pl[f] = [own |-> "t", lev |-> 4, pre |-> 0]
          BY <4>2, OwnRoot DEF Placed, Roots
        <5>2. o = "t" /\ pl[f].lev = 4
          BY <1>1, <5>1 DEF Stops, Passes
        <5> QED BY <4>1, <4>2, <5>2 DEF OwnSlots, Space, Slot
      <4>3. CASE f # troot
        BY <4>1, <4>3 DEF OwnSlots
      <4> QED BY <4>1, <4>2, <4>3
    <3>2. NoLarge(pl[f]) => ~e.large
      BY <3>1 DEF Placed, Contents, e
    <3>3. pl[f].lev = 1 \/ e.large
      BY <1>1, <1>12 DEF Stops, IsLink, e
    <3>4. pl[f].own = o
      BY <1>1 DEF Stops, Passes
    <3>5. pl[f].lev = 1 \/ ~NoLarge(pl[f])
      BY <3>2, <3>3
    <3> QED BY <1>4, <3>4, <3>5 DEF NoLarge, Place, l
  <2>2. Abs!Block(v, PageSize(l)) \subseteq Space(o, troot)
    <3>1. CASE o = "k"
      BY <3>1, <1>8 DEF Space
    <3>2. CASE o = "t"
      <4> SUFFICES ASSUME NEW y \in Abs!Block(v, PageSize(l)) PROVE y = x
        OBVIOUS
      <4>1. y \in Pages /\ y \div 1 = x \div 1
        BY <3>2, <2>1, <1>8, Sizes DEF Blk
      <4>2. y \in Nat /\ x \in Nat
        BY <4>1, <1>4, Indices, 1 \in 1..4
      <4> QED BY <4>1, <4>2
    <3> QED BY <3>1, <3>2
  <2>3. Abs!Block(v, PageSize(l)) \subseteq DOMAIN View(mem, troot, o)
    BY <1>7, <1>8, <1>9, <1>12, <2>2
  <2>4. Changes(o, v, l)
    BY <1>6, <2>3 DEF Changes, Abs!Removed
  <2> QED BY <1>3, <1>4, <1>5, <1>6, <2>1, <2>4, StepUp
<1> QED BY <1>11, <1>12

\* vmm_map on the kernel's map.
LEMMA KernelMaps ==
  ASSUME IInv, NEW va \in KVas, NEW pa \in Targets, NEW size \in KSizes, kernel_map(va, pa, size)
  PROVE  IInv' /\ [Abs!Next]_(Abs!absVars)
<1>1. PICK pl : Placed(mem, troot, pl)
  BY DEF IInv
<1>2. PICK l \in 1..3 : size = PageSize(l)
  BY SizeOrder
<1>3. va \in Pages /\ Index(va, 4) = KSlot /\ pa \in Nat
  BY VmmAssumption DEF KSlot, PML4
<1>4. va \in Space("k", troot) /\ Root("k", troot) = KRoot
  BY <1>3 DEF Space, Root
<1>5. PICK f \in DOMAIN mem : Stops(mem, pl, "k", va, f)
  BY <1>1, <1>4, WalkStops
<1>6. Walk(KRoot, va).level = pl[f].lev
  BY <1>1, <1>4, <1>5, WalkIs DEF Walk
<1>7. pl[f].lev \in 1..4
  BY <1>1, OwnRoot DEF Place
<1>8. pl[f].lev >= l
  BY <1>2, <1>6, <1>7, SizeOrder DEF kernel_map
<1>9. High(mem, pl, "k", va, l)
  BY <1>5, <1>8 DEF High
<1>10. /\ Settle(vmm_map(Root("k", troot), va, pa, FALSE, PageSize(l))) /\ troot' = troot
       /\ va % PageSize(l) = 0
  BY <1>2, <1>4 DEF kernel_map
<1>11. pages1G \in BOOLEAN /\ mode \in {"ok", "oom"}
  BY DEF IInv
<1> QED BY <1>1, <1>3, <1>4, <1>9, <1>10, <1>11, MapStep

\* vmm_unmap on the kernel's map.
LEMMA KernelUnmaps ==
  ASSUME IInv, NEW va \in KVas, kernel_unmap(va)
  PROVE  IInv' /\ [Abs!Next]_(Abs!absVars)
<1>1. PICK pl : Placed(mem, troot, pl)
  BY DEF IInv
<1>2. va \in Pages /\ Index(va, 4) = KSlot
  BY VmmAssumption DEF KSlot, PML4
<1>3. va \in Space("k", troot) /\ Root("k", troot) = KRoot
  BY <1>2 DEF Space, Root
<1>4. mem' = vmm_unmap(Root("k", troot), va) /\ UNCHANGED <<pages1G, troot, mode>>
  BY <1>3 DEF kernel_unmap
<1>5. pages1G \in BOOLEAN /\ mode \in {"ok", "oom"}
  BY DEF IInv
<1> QED BY <1>1, <1>2, <1>3, <1>4, <1>5, UnmapStep

\* vmm_map on a task's map, a small page in the lower half.
LEMMA TaskMaps ==
  ASSUME IInv, NEW va \in TVas, NEW pa \in Targets, task_map(va, pa)
  PROVE  IInv' /\ [Abs!Next]_(Abs!absVars)
<1>1. PICK pl : Placed(mem, troot, pl)
  BY DEF IInv
<1>2. va \in Pages /\ Index(va, 4) \in UserSlots /\ pa \in Nat /\ troot # 0
  BY VmmAssumption DEF PML4, task_map
<1>3. va \in Space("t", troot) /\ Root("t", troot) = troot
  BY <1>2 DEF Space, Root
<1>4. High(mem, pl, "t", va, 1)
  BY <1>1, <1>3, HighLowest
<1>5. /\ Settle(vmm_map(Root("t", troot), va, pa, TRUE, PageSize(1))) /\ troot' = troot
      /\ va % PageSize(1) = 0
  BY <1>2, <1>3, Parts DEF task_map, MM_PAGE_4KB, PML1
<1>6. pages1G \in BOOLEAN /\ mode \in {"ok", "oom"}
  BY DEF IInv
<1> QED BY <1>1, <1>2, <1>3, <1>4, <1>5, <1>6, MapStep, 1 \in 1..3

\* vmm_unmap on a task's map.
LEMMA TaskUnmaps ==
  ASSUME IInv, NEW va \in TVas, task_unmap(va)
  PROVE  IInv' /\ [Abs!Next]_(Abs!absVars)
<1>1. PICK pl : Placed(mem, troot, pl)
  BY DEF IInv
<1>2. va \in Pages /\ Index(va, 4) \in UserSlots /\ troot # 0
  BY VmmAssumption DEF PML4, task_unmap
<1>3. va \in Space("t", troot) /\ Root("t", troot) = troot
  BY <1>2 DEF Space, Root
<1>4. mem' = vmm_unmap(Root("t", troot), va) /\ UNCHANGED <<pages1G, troot, mode>>
  BY <1>3 DEF task_unmap
<1>5. pages1G \in BOOLEAN /\ mode \in {"ok", "oom"}
  BY DEF IInv
<1> QED BY <1>1, <1>2, <1>3, <1>4, <1>5, UnmapStep

\* vmm_make_page_map: a directory with the kernel's upper half, and nothing mapped for the task.
LEMMA Makes ==
  ASSUME IInv, vmm_make_page_map
  PROVE  IInv' /\ [Abs!Next]_(Abs!absVars)
<1> DEFINE s == Begin(KRoot)
           n == pmm_alloc(s)
           c == Min(Frames \ DOMAIN mem)
           S == IF n.ok THEN [n EXCEPT !.mem[n.at] = [i \in Slots |-> IF i \in UserSlots THEN Absent ELSE mem[KRoot][i]]]
                ELSE n
<1>1. PICK pl : Placed(mem, troot, pl)
  BY DEF IInv
<1>2. /\ troot = 0 /\ troot' = (IF n.ok THEN n.at ELSE 0)
      /\ pages1G' = pages1G
      /\ S.ok => mem' = S.mem /\ mode' = mode
      /\ ~S.ok => mem' = mem /\ mode' = "oom"
  BY DEF vmm_make_page_map, Settle
<1>3. s = [mem |-> mem, ok |-> TRUE, at |-> KRoot] /\ s.mem = mem /\ s = [mem |-> s.mem, ok |-> TRUE, at |-> s.at]
  BY DEF Begin
<1>4. \/ ~n.ok
      \/ /\ c \in Frames /\ c \notin DOMAIN mem
         /\ n = [mem |-> [f \in DOMAIN mem \cup {c} |-> IF f = c THEN Empty ELSE mem[f]], ok |-> TRUE, at |-> c]
  BY <1>3, Alloc
<1> HIDE DEF s, n, c
<1>5. CASE ~n.ok
  <2>1. mem' = mem /\ troot' = troot /\ mode' = "oom"
    BY <1>2, <1>5
  <2> QED BY <1>2, <2>1, StepOut DEF IInv
<1>6. CASE n.ok
  <2>1. /\ c \in Frames /\ c \notin DOMAIN mem /\ n.at = c
        /\ n = [mem |-> [f \in DOMAIN mem \cup {c} |-> IF f = c THEN Empty ELSE mem[f]], ok |-> TRUE, at |-> c]
    BY <1>4, <1>6
  <2>2. S = [mem |-> [f \in DOMAIN mem \cup {c} |-> IF f = c THEN Directory(mem) ELSE mem[f]], ok |-> TRUE, at |-> c]
    <3> DEFINE d == Directory(mem)
               M == [f \in DOMAIN mem \cup {c} |-> IF f = c THEN Empty ELSE mem[f]]
    <3>1. S = [n EXCEPT !.mem[c] = d]
      BY <1>6, <2>1 DEF Directory
    <3> HIDE DEF d, S
    <3>2. n = [mem |-> M, ok |-> TRUE, at |-> c]
      BY <2>1
    <3>4. S = [mem |-> [M EXCEPT ![c] = d], ok |-> TRUE, at |-> c]
      <4> HIDE DEF M
      <4> QED BY <3>1, <3>2
    <3>3. [M EXCEPT ![c] = d] = [f \in DOMAIN mem \cup {c} |-> IF f = c THEN d ELSE mem[f]]
      OBVIOUS
    <3> QED BY <3>4, <3>3 DEF d
  <2>3. mem' = Added(mem, c) /\ mode' = mode /\ troot' = c
    <3> HIDE DEF S
    <3> QED BY <1>2, <1>6, <2>1, <2>2 DEF Added
  <2>4. /\ Placed(mem', troot', RootAdded(pl, c))
        /\ \A y \in Pages : Same(mem, pl, mem', RootAdded(pl, c), "k", y)
        /\ \A y \in Space("t", troot') : /\ Stops(mem', RootAdded(pl, c), "t", y, c)
                                         /\ Outcome(mem', RootAdded(pl, c), y, c) = <<FALSE, 0>>
    BY <1>1, <1>2, <2>1, <2>3, MakePlaced
  <2>5. IInv'
    BY <1>2, <2>3, <2>4 DEF IInv
  <2>6. troot' # 0
    BY <2>1, <2>3, VmmAssumption
  <2>7. KernelSpace' = KernelSpace
    <3>1. View(mem', troot', "k") = View(mem, troot, "k")
      BY <1>1, <2>4, Views, ViewSame
    <3> QED BY <3>1, Views, ViewsNext
  <2>8. TaskSpace' = TaskSpace
    <3>1. TaskSpace = << >>
      BY <1>2 DEF TaskSpace
    <3>2. ASSUME NEW y \in Space("t", troot') PROVE ~On(mem', Root("t", troot'), y)
      BY <2>4, SeesOutcome
    <3>3. { y \in Space("t", troot') : On(mem', Root("t", troot'), y) } = {}
      BY <3>2
    <3>4. View(mem', troot', "t") = [y \in {} |-> To(mem', Root("t", troot'), y)]
      BY <3>3 DEF View
    <3>5. View(mem', troot', "t") = << >>
      BY <3>4
    <3> QED BY <2>6, <3>1, <3>5, ViewsNext
  <2>9. Abs!Make
    BY <1>2, <2>6, <2>7, <2>8 DEF Abs!Make
  <2> QED BY <2>5, <2>9 DEF Abs!Next
<1> QED BY <1>5, <1>6

\* vmm_destroy_page_map: the task's tables go, the kernel's stay.
LEMMA Destroys ==
  ASSUME IInv, vmm_destroy_page_map
  PROVE  IInv' /\ [Abs!Next]_(Abs!absVars)
<1>1. PICK pl : Placed(mem, troot, pl)
  BY DEF IInv
<1> DEFINE K == Kernels(mem, pl)
<1>2. troot # 0 /\ troot' = 0 /\ pages1G' = pages1G /\ mode' = mode
  BY DEF vmm_destroy_page_map
<1>3. mem' = Restricted(mem, K)
  BY <1>1, <1>2, DestroysTask DEF vmm_destroy_page_map, Restricted
<1>4. /\ Placed(mem', troot', Restricted(pl, K))
      /\ \A y \in Pages : Same(mem, pl, mem', Restricted(pl, K), "k", y)
  BY <1>1, <1>2, <1>3, DestroyPlaced
<1>5. IInv'
  BY <1>2, <1>4 DEF IInv
<1>6. KernelSpace' = KernelSpace
  <2>1. View(mem', troot', "k") = View(mem, troot, "k")
    BY <1>1, <1>4, Views, ViewSame
  <2> QED BY <2>1, Views, ViewsNext
<1>7. TaskSpace' = << >>
  BY <1>2 DEF TaskSpace
<1>8. Abs!Destroy
  BY <1>2, <1>6, <1>7 DEF Abs!Destroy
<1> QED BY <1>5, <1>8 DEF Abs!Next

\* Every step keeps the tables placed and is a step of AddrSpec or a stutter.
LEMMA Steps ==
  ASSUME IInv, [Next]_vars
  PROVE  IInv' /\ [Abs!Next]_(Abs!absVars)
<1>1. ASSUME NEW va \in KVas, NEW pa \in Targets, NEW size \in KSizes, kernel_map(va, pa, size)
      PROVE  IInv' /\ [Abs!Next]_(Abs!absVars)
  BY <1>1, KernelMaps
<1>2. ASSUME NEW va \in KVas, kernel_unmap(va)
      PROVE  IInv' /\ [Abs!Next]_(Abs!absVars)
  BY <1>2, KernelUnmaps
<1>3. ASSUME NEW va \in TVas, NEW pa \in Targets, task_map(va, pa)
      PROVE  IInv' /\ [Abs!Next]_(Abs!absVars)
  BY <1>3, TaskMaps
<1>4. ASSUME NEW va \in TVas, task_unmap(va)
      PROVE  IInv' /\ [Abs!Next]_(Abs!absVars)
  BY <1>4, TaskUnmaps
<1>5. ASSUME vmm_make_page_map PROVE IInv' /\ [Abs!Next]_(Abs!absVars)
  BY <1>5, Makes
<1>6. ASSUME vmm_destroy_page_map PROVE IInv' /\ [Abs!Next]_(Abs!absVars)
  BY <1>6, Destroys
<1>7. ASSUME UNCHANGED vars PROVE IInv' /\ [Abs!Next]_(Abs!absVars)
  <2>1. mem' = mem /\ troot' = troot /\ pages1G' = pages1G /\ mode' = mode
    BY <1>7 DEF vars
  <2> QED BY <2>1, StepOut DEF IInv
<1> QED BY <1>1, <1>2, <1>3, <1>4, <1>5, <1>6, <1>7 DEF Next

\* The boot loader's map is a first state of AddrSpec.
LEMMA Starts ==
  ASSUME Init PROVE IInv /\ Abs!Init
<1>1. /\ pages1G \in BOOLEAN /\ mem = LoaderMap(pages1G) /\ troot = 0 /\ mode = "ok"
  BY DEF Init
<1>2. Placed(mem, troot, LoaderPlace(pages1G))
  BY <1>1, LoaderPlaced
<1>3. IInv
  BY <1>1, <1>2 DEF IInv
<1>4. KernelSpace = View(mem, troot, "k") /\ Space("k", troot) = Pages
  BY Views
<1>5. DOMAIN KernelSpace \subseteq Pages
  BY <1>4 DEF View
<1>6. ASSUME NEW x \in DOMAIN KernelSpace PROVE KernelSpace[x] \in Nat
  <2>1. x \in Pages /\ KernelSpace[x] = To(mem, KRoot, x)
    BY <1>4 DEF View, Root
  <2>2. PICK f \in DOMAIN mem : Stops(mem, LoaderPlace(pages1G), "k", x, f)
    BY <1>2, <1>4, <2>1, WalkStops
  <2> DEFINE w == WalkIn(mem, KRoot, x)
             l == LoaderPlace(pages1G)[f].lev
  <2>3. w.level = l /\ w.entry = mem[f][Slot(LoaderPlace(pages1G), x, f)]
    BY <1>2, <1>4, <2>1, <2>2, WalkIs DEF Root
  <2>4. l \in 1..4
    BY <1>2, OwnRoot DEF Place
  <2>5. w.entry \in Entries
    BY <1>2, <2>1, <2>3, <2>4, OwnRoot, Indices DEF Slot
  <2>6. (x % PageSize(l)) \in Nat
    <3>1. x \in Nat /\ PageSize(l) \in Nat /\ PageSize(l) > 0
      BY <2>1, <2>4, Indices, Sizes
    <3> HIDE DEF l
    <3> QED BY <3>1, DivMod
  <2>7. w.entry.addr \in Nat
    BY <2>5 DEF Entries
  <2> HIDE DEF w, l
  <2>8. w.entry.addr + (x % PageSize(w.level)) \in Nat
    BY <2>3, <2>6, <2>7
  <2> QED BY <2>1, <2>8 DEF To, w
<1>7. TaskSpace = << >> /\ ~(troot # 0)
  BY <1>1 DEF TaskSpace
<1>8. Abs!Init
  BY <1>5, <1>6, <1>7 DEF Abs!Init
<1> QED BY <1>3, <1>8

\* Mapping a page, with all the tables vmm_map makes and the large pages it splits,
\* changes that page's translation and no other, and vmm_unmap removes a block alone,
\* in every address space: the page tables implement AddrSpec.
THEOREM Refines == Spec => ImplementsAddrSpec
<1>1. Init => IInv /\ Abs!Init
  BY Starts
<1>2. IInv /\ [Next]_vars => IInv' /\ [Abs!Next]_(Abs!absVars)
  BY Steps
<1> QED BY <1>1, <1>2, PTL DEF Spec, ImplementsAddrSpec, Abs!Spec

------------------------------------------------------------------------------
(* The invariants of the tables.                                             *)

\* Disjoint sets are counted one after the other.
LEMMA Two ==
  ASSUME NEW S, NEW T, IsFiniteSet(S), IsFiniteSet(T), S \cap T = {}
  PROVE  /\ IsFiniteSet(S \cup T) /\ Cardinality(S) \in Nat /\ Cardinality(T) \in Nat
         /\ Cardinality(S \cup T) = Cardinality(S) + Cardinality(T)
<1>1. Cardinality(S \cap T) = 0
  BY FS_EmptySet
<1>2. Cardinality(S) \in Nat /\ Cardinality(T) \in Nat
  BY FS_CardinalityType
<1>3. /\ IsFiniteSet(S \cup T)
      /\ Cardinality(S \cup T) = Cardinality(S) + Cardinality(T) - Cardinality(S \cap T)
  BY FS_Union
<1> QED BY <1>1, <1>2, <1>3

\* A map's tables are counted level by level.
Owned(m, pl, o) == { f \in DOMAIN m : pl[f].own = o }

\* A map has the tables of its four levels, and as many.
LEMMA Counted ==
  ASSUME NEW pl, Placed(mem, troot, pl), NEW o \in {"k", "t"}
  PROVE  /\ Owned(mem, pl, o) = Level(mem, pl, o, 3) \cup Level(mem, pl, o, 2) \cup Level(mem, pl, o, 1)
                                  \cup Level(mem, pl, o, 4)
         /\ IsFiniteSet(Owned(mem, pl, o))
         /\ \A l \in 1..4 : Cardinality(Level(mem, pl, o, l)) \in Nat
         /\ Cardinality(Owned(mem, pl, o))
              = Cardinality(Level(mem, pl, o, 3)) + Cardinality(Level(mem, pl, o, 2))
                + Cardinality(Level(mem, pl, o, 1)) + Cardinality(Level(mem, pl, o, 4))
<1> DEFINE V(l) == Level(mem, pl, o, l)
           a == V(3) \cup V(2)
           b == a \cup V(1)
           c == b \cup V(4)
<1>1. \A f \in DOMAIN mem : pl[f] \in Place
  BY OwnRoot
<1>2. Owned(mem, pl, o) = c
  BY <1>1 DEF Owned, Level, Place
<1>3. ASSUME NEW l \in 1..4 PROVE IsFiniteSet(V(l)) /\ Cardinality(V(l)) \in Nat
  <2>1. V(l) \subseteq DOMAIN mem /\ IsFiniteSet(DOMAIN mem)
    BY DEF Level, Placed, Typed
  <2>2. IsFiniteSet(V(l))
    BY <2>1, FS_Subset
  <2> QED BY <2>2, FS_CardinalityType
<1>4. V(3) \cap V(2) = {} /\ a \cap V(1) = {} /\ b \cap V(4) = {}
  BY DEF Level
<1> HIDE DEF V
<1>5. IsFiniteSet(V(1)) /\ IsFiniteSet(V(2)) /\ IsFiniteSet(V(3)) /\ IsFiniteSet(V(4))
  BY <1>3
<1>6. IsFiniteSet(a) /\ Cardinality(a) = Cardinality(V(3)) + Cardinality(V(2))
  BY <1>4, <1>5, Two
<1>7. IsFiniteSet(b) /\ Cardinality(b) = Cardinality(a) + Cardinality(V(1))
  <2> HIDE DEF a
  <2> QED BY <1>4, <1>5, <1>6, Two
<1>8. IsFiniteSet(c) /\ Cardinality(c) = Cardinality(b) + Cardinality(V(4))
  <2> HIDE DEF b
  <2> QED BY <1>4, <1>5, <1>7, Two
<1> HIDE DEF c
<1>9. Cardinality(c) = Cardinality(V(3)) + Cardinality(V(2)) + Cardinality(V(1)) + Cardinality(V(4))
  BY <1>6, <1>7, <1>8
<1> QED BY <1>2, <1>3, <1>8, <1>9 DEF V, c

\* The code's walk of a tree finds the tables of its three lower levels.
LEMMA Trees ==
  ASSUME NEW pl, Placed(mem, troot, pl), NEW o \in {"k", "t"}, o = "t" => troot # 0
  PROVE  LET tree == Tree(Root(o, troot), Inside(o, 4))
         IN  /\ Tables(tree) = Level(mem, pl, o, 3) \cup Level(mem, pl, o, 2) \cup Level(mem, pl, o, 1)
             /\ Cardinality(tree[1]) = Cardinality(Level(mem, pl, o, 3))
             /\ Cardinality(tree[2]) = Cardinality(Level(mem, pl, o, 2))
             /\ Cardinality(tree[3]) = Cardinality(Level(mem, pl, o, 1))
<1> DEFINE tree == Tree(Root(o, troot), Inside(o, 4))
           V(l) == Level(mem, pl, o, l)
           L3   == Links(V(4), Inside(o, 4))
           L2   == Links(V(3), Slots)
           L1   == Links(V(2), Slots)
<1>1. V(4) = {Root(o, troot)} /\ Inside(o, 3) = Slots /\ Inside(o, 2) = Slots
  BY Directories DEF Root
<1>2. Below(L3) = V(3) /\ Cardinality(L3) = Cardinality(V(3))
  <2>1. /\ Below(Links(V(4), Inside(o, 4))) = Level(mem, pl, o, 4 - 1)
        /\ Cardinality(Links(V(4), Inside(o, 4))) = Cardinality(Level(mem, pl, o, 4 - 1))
    BY LinksLevel, 4 \in 2..4
  <2> QED BY <2>1
<1>3. Below(L2) = V(2) /\ Cardinality(L2) = Cardinality(V(2))
  <2>1. /\ Below(Links(V(3), Inside(o, 3))) = Level(mem, pl, o, 3 - 1)
        /\ Cardinality(Links(V(3), Inside(o, 3))) = Cardinality(Level(mem, pl, o, 3 - 1))
    BY LinksLevel, 3 \in 2..4
  <2> QED BY <1>1, <2>1
<1>4. Below(L1) = V(1) /\ Cardinality(L1) = Cardinality(V(1))
  <2>1. /\ Below(Links(V(2), Inside(o, 2))) = Level(mem, pl, o, 2 - 1)
        /\ Cardinality(Links(V(2), Inside(o, 2))) = Cardinality(Level(mem, pl, o, 2 - 1))
    BY LinksLevel, 2 \in 2..4
  <2> QED BY <1>1, <2>1
<1>5. tree = <<L3, L2, L1>>
  <2>1. L3 = Links({Root(o, troot)}, Inside(o, 4))
    BY <1>1
  <2> HIDE DEF V
  <2> QED BY <2>1, <1>2, <1>3 DEF Tree
<1> HIDE DEF tree, L3, L2, L1, V
<1>6. Tables(tree) = V(3) \cup V(2) \cup V(1)
  <2>1. /\ tree[1] = L3 /\ tree[2] = L2 /\ tree[3] = L1
        /\ \A k \in 1..3 : k = 1 \/ k = 2 \/ k = 3
    BY <1>5
  <2>2. Below(tree[1]) = V(3) /\ Below(tree[2]) = V(2) /\ Below(tree[3]) = V(1)
    BY <2>1, <1>2, <1>3, <1>4
  <2> QED BY <2>1, <2>2 DEF Tables
<1>7. /\ Cardinality(tree[1]) = Cardinality(V(3)) /\ Cardinality(tree[2]) = Cardinality(V(2))
      /\ Cardinality(tree[3]) = Cardinality(V(1))
  BY <1>2, <1>3, <1>4, <1>5
<1> QED BY <1>6, <1>7 DEF tree, V

\* Placed tables are reached once each and are all accounted for.
LEMMA TablesAre ==
  ASSUME IInv PROVE TablesExact
<1>0. PICK pl : Placed(mem, troot, pl)
  BY DEF IInv
<1> DEFINE k == Tree(KRoot, Slots)
           t == IF troot = 0 THEN <<{}, {}, {}>> ELSE Tree(troot, UserSlots)
           V(o, l) == Level(mem, pl, o, l)
           K == Owned(mem, pl, "k")
           T == Owned(mem, pl, "t")
<1>1. TypeOK
  <2>1. \A f \in DOMAIN mem : mem[f] \in [Slots -> Entries]
    BY <1>0, OwnRoot
  <2> QED BY <1>0, <2>1 DEF TypeOK, IInv, Placed, Typed
<1>2. /\ Tables(k) = V("k", 3) \cup V("k", 2) \cup V("k", 1)
      /\ Cardinality(k[1]) = Cardinality(V("k", 3)) /\ Cardinality(k[2]) = Cardinality(V("k", 2))
      /\ Cardinality(k[3]) = Cardinality(V("k", 1))
  <2> DEFINE kk == Tree(Root("k", troot), Inside("k", 4))
  <2>1. kk = k
    BY <1>0, Directories DEF Root
  <2>2. /\ Tables(kk) = V("k", 3) \cup V("k", 2) \cup V("k", 1)
        /\ Cardinality(kk[1]) = Cardinality(V("k", 3)) /\ Cardinality(kk[2]) = Cardinality(V("k", 2))
        /\ Cardinality(kk[3]) = Cardinality(V("k", 1))
    BY <1>0, Trees
  <2> QED BY <2>1, <2>2
<1>3. /\ V("k", 4) = {KRoot} /\ V("t", 4) = {troot} \ {0}
      /\ Cardinality(V("k", 4)) = 1 /\ Cardinality(V("t", 4)) = IF troot = 0 THEN 0 ELSE 1
  <2>1. V("k", 4) = {KRoot} /\ V("t", 4) = {troot} \ {0}
    BY <1>0, Directories
  <2>2. troot = 0 => V("t", 4) = {}
    BY <2>1
  <2>3. troot # 0 => V("t", 4) = {troot}
    BY <2>1
  <2> HIDE DEF V
  <2> QED BY <2>1, <2>2, <2>3, FS_EmptySet, FS_Singleton
<1>4. /\ Tables(t) = V("t", 3) \cup V("t", 2) \cup V("t", 1)
      /\ Cardinality(t[1]) = Cardinality(V("t", 3)) /\ Cardinality(t[2]) = Cardinality(V("t", 2))
      /\ Cardinality(t[3]) = Cardinality(V("t", 1))
  <2>1. CASE troot # 0
    <3> DEFINE tt == Tree(Root("t", troot), Inside("t", 4))
    <3>1. tt = t
      BY <1>0, <2>1, Directories DEF Root
    <3>2. /\ Tables(tt) = V("t", 3) \cup V("t", 2) \cup V("t", 1)
          /\ Cardinality(tt[1]) = Cardinality(V("t", 3)) /\ Cardinality(tt[2]) = Cardinality(V("t", 2))
          /\ Cardinality(tt[3]) = Cardinality(V("t", 1))
      BY <1>0, <2>1, Trees
    <3> QED BY <3>1, <3>2
  <2>2. CASE troot = 0
    <3>1. V("t", 3) = {} /\ V("t", 2) = {} /\ V("t", 1) = {}
      BY <1>0, <2>2 DEF Level, Placed, Roots
    <3>2. t = <<{}, {}, {}>>
      BY <2>2
    <3> HIDE DEF t, V
    <3>3. t[1] = {} /\ t[2] = {} /\ t[3] = {} /\ \A j \in 1..3 : t[j] = {}
      BY <3>2
    <3>4. Tables(t) = {}
      BY <3>3 DEF Tables, Below
    <3> QED BY <3>1, <3>3, <3>4
  <2> QED BY <2>1, <2>2
<1>5. /\ DOMAIN mem = K \cup T /\ K \cap T = {}
  <2>1. \A f \in DOMAIN mem : pl[f] \in Place
    BY <1>0, OwnRoot
  <2> QED BY <2>1 DEF Owned, Place
<1>6. /\ K = V("k", 3) \cup V("k", 2) \cup V("k", 1) \cup V("k", 4)
      /\ IsFiniteSet(K) /\ \A l \in 1..4 : Cardinality(V("k", l)) \in Nat
      /\ Cardinality(K) = Cardinality(V("k", 3)) + Cardinality(V("k", 2)) + Cardinality(V("k", 1)) + Cardinality(V("k", 4))
  BY <1>0, Counted
<1>7. /\ T = V("t", 3) \cup V("t", 2) \cup V("t", 1) \cup V("t", 4)
      /\ IsFiniteSet(T) /\ \A l \in 1..4 : Cardinality(V("t", l)) \in Nat
      /\ Cardinality(T) = Cardinality(V("t", 3)) + Cardinality(V("t", 2)) + Cardinality(V("t", 1)) + Cardinality(V("t", 4))
  BY <1>0, Counted
<1> HIDE DEF V, K, T
<1>8. Cardinality(DOMAIN mem) = Cardinality(K) + Cardinality(T)
  BY <1>5, <1>6, <1>7, Two
<1> HIDE DEF k, t
<1>9. DOMAIN mem = Tables(k) \cup Tables(t) \cup {KRoot} \cup ({troot} \ {0})
  BY <1>2, <1>3, <1>4, <1>5, <1>6, <1>7
<1>10. Cardinality(DOMAIN mem)
           = Cardinality(k[1]) + Cardinality(k[2]) + Cardinality(k[3])
             + Cardinality(t[1]) + Cardinality(t[2]) + Cardinality(t[3])
             + (IF troot = 0 THEN 1 ELSE 2)
  <2>1. /\ Cardinality(V("k", 3)) \in Nat /\ Cardinality(V("k", 2)) \in Nat /\ Cardinality(V("k", 1)) \in Nat
        /\ Cardinality(V("t", 3)) \in Nat /\ Cardinality(V("t", 2)) \in Nat /\ Cardinality(V("t", 1)) \in Nat
    BY <1>6, <1>7
  <2>2. CASE troot = 0
    <3>1. Cardinality(V("t", 4)) = 0
      BY <1>3, <2>2
    <3> QED BY <1>2, <1>3, <1>4, <1>6, <1>7, <1>8, <2>1, <2>2, <3>1
  <2>3. CASE troot # 0
    <3>1. Cardinality(V("t", 4)) = 1
      BY <1>3, <2>3
    <3> QED BY <1>2, <1>3, <1>4, <1>6, <1>7, <1>8, <2>1, <2>3, <3>1
  <2> QED BY <2>2, <2>3
<1> QED BY <1>1, <1>9, <1>10 DEF TablesExact, k, t

\* Both directories lead the walk of an upper page to the same place.
LEMMA UpperWalk ==
  ASSUME NEW pl, Placed(mem, troot, pl), troot # 0, NEW x \in Pages, Index(x, 4) \notin UserSlots
  PROVE  LET k == WalkIn(mem, KRoot, x)
             t == WalkIn(mem, troot, x)
         IN  t.level = k.level /\ t.entry = k.entry
<1> DEFINE i  == Index(x, 4)
           ak == At(mem, KRoot, 4, x)
           at == At(mem, troot, 4, x)
           e  == mem[KRoot][i]
<1>1. i \in Slots /\ mem[troot][i] = e
  BY Indices, 4 \in 1..4 DEF Placed, Contents
<1>2. /\ ak.level = 4 /\ ak.entry = e /\ at.level = 4 /\ at.entry = e
      /\ WalkIn(mem, KRoot, x) = CHOOSE w \in Down(mem, Down(mem, Down(mem, {ak}, x), x), x) : TRUE
      /\ WalkIn(mem, troot, x) = CHOOSE w \in Down(mem, Down(mem, Down(mem, {at}, x), x), x) : TRUE
  BY <1>1 DEF At, WalkIn, PML4
<1> HIDE DEF ak, at
<1>3. CASE IsLink(e)
  <2>1. Down(mem, {ak}, x) = {At(mem, e.addr, 3, x)} /\ Down(mem, {at}, x) = {At(mem, e.addr, 3, x)}
    BY <1>2, <1>3, DownOne DEF IsLink, PML1
  <2>2. WalkIn(mem, KRoot, x) = WalkIn(mem, troot, x)
    BY <1>2, <2>1
  <2> QED BY <2>2
<1>4. CASE ~IsLink(e)
  <2>1. Down(mem, {ak}, x) = {ak} /\ Down(mem, {at}, x) = {at}
    BY <1>2, <1>4, DownOne DEF IsLink
  <2>2. WalkIn(mem, KRoot, x) = ak /\ WalkIn(mem, troot, x) = at
    BY <1>2, <2>1
  <2> QED BY <1>2, <2>2
<1> QED BY <1>3, <1>4

\* A directory has no pages, and the kernel's entries are not for user mode.
LEMMA WalkEnds ==
  ASSUME NEW pl, Placed(mem, troot, pl), NEW o \in {"k", "t"}, NEW x \in Space(o, troot)
  PROVE  LET w == WalkIn(mem, Root(o, troot), x)
         IN  /\ w.level \in 1..4 /\ (w.level = 4 => ~w.entry.present)
             /\ o = "k" => ~w.entry.user
<1>1. PICK f \in DOMAIN mem : Stops(mem, pl, o, x, f)
  BY WalkStops
<1> DEFINE w == WalkIn(mem, Root(o, troot), x)
           i == Slot(pl, x, f)
           e == mem[f][i]
<1>2. w.level = pl[f].lev /\ w.entry = e
  BY <1>1, WalkIs
<1>3. x \in Pages /\ pl[f] \in Place /\ pl[f].lev \in 1..4 /\ pl[f].own = o
  BY <1>1, OwnRoot DEF Space, Place, Stops, Passes
<1>4. i \in OwnSlots(f, troot) /\ i \in Slots
  <2>1. i \in Slots
    BY <1>3, Indices DEF Slot
  <2>2. CASE f = troot
    <3>1. pl[f] = [own |-> "t", lev |-> 4, pre |-> 0]
      BY <2>2, OwnRoot DEF Placed, Roots
    <3>2. o = "t" /\ pl[f].lev = 4
      BY <1>3, <3>1
    <3> QED BY <2>1, <2>2, <3>2 DEF OwnSlots, Space, Slot
  <2>3. CASE f # troot
    BY <2>1, <2>3 DEF OwnSlots
  <2> QED BY <2>1, <2>2, <2>3
<1>5. /\ NoLarge(pl[f]) => ~e.large
      /\ pl[f].own = "k" /\ (pl[f].lev = 1 \/ ~IsLink(e)) => ~e.user
  BY <1>4 DEF Placed, Contents
<1>6. pl[f].lev = 1 \/ ~IsLink(e)
  BY <1>1 DEF Stops
<1> HIDE DEF w, e, i
<1>7. pl[f].lev = 4 => ~e.present
  BY <1>5, <1>6 DEF NoLarge, IsLink
<1>8. o = "k" => ~e.user
  BY <1>3, <1>5, <1>6
<1> QED BY <1>2, <1>3, <1>7, <1>8 DEF w

\* Placed tables translate as the code and the processor agree on.
LEMMA TranslationsAre ==
  ASSUME IInv PROVE TranslationsExact
<1>0. PICK pl : Placed(mem, troot, pl)
  BY DEF IInv
<1>1. \A x \in Pages : x \in Space("k", troot)
  BY DEF Space
<1>2. ASSUME NEW x \in Pages
      PROVE  LET w == WalkIn(mem, KRoot, x)
             IN  w.level \in 1..4 /\ (w.level = 4 => ~w.entry.present) /\ ~w.entry.user
  <2>1. x \in Space("k", troot) /\ Root("k", troot) = KRoot
    BY <1>1 DEF Root
  <2> QED BY <1>0, <2>1, WalkEnds
<1>3. ASSUME troot # 0, NEW x \in Upper
      PROVE  LET k == Walk(KRoot, x)
                 t == Walk(troot, x)
             IN  t.level = k.level /\ t.entry = k.entry /\ ~t.entry.user
  <2>1. x \in Pages /\ Index(x, 4) \notin UserSlots
    BY DEF Upper, PML4
  <2>2. LET k == WalkIn(mem, KRoot, x)
            t == WalkIn(mem, troot, x)
        IN  t.level = k.level /\ t.entry = k.entry
    BY <1>0, <1>3, <2>1, UpperWalk
  <2> QED BY <1>2, <2>1, <2>2 DEF Walk
<1>4. ASSUME NEW root \in {KRoot, troot} \ {0}, NEW x \in Pages
      PROVE  Walk(root, x).level \in 1..4 /\ (Walk(root, x).level = 4 => ~Walk(root, x).entry.present)
  <2>1. CASE root = KRoot
    BY <1>2, <2>1 DEF Walk
  <2>2. CASE root = troot /\ x \in Upper
    <3>1. Walk(troot, x).level = Walk(KRoot, x).level /\ Walk(troot, x).entry = Walk(KRoot, x).entry
      BY <1>3, <2>2
    <3> QED BY <1>2, <2>2, <3>1 DEF Walk
  <2>3. CASE root = troot /\ x \notin Upper
    <3>1. x \in Space("t", troot) /\ Root("t", troot) = troot
      BY <2>3 DEF Space, Root, Upper, PML4
    <3>2. LET w == WalkIn(mem, Root("t", troot), x)
          IN  w.level \in 1..4 /\ (w.level = 4 => ~w.entry.present)
      BY <1>0, <3>1, WalkEnds
    <3> QED BY <2>3, <3>1, <3>2 DEF Walk
  <2> QED BY <2>1, <2>2, <2>3
<1>5. ASSUME NEW root \in {KRoot, troot} \ {0}, NEW x \in Pages,
             Walk(root, x).entry.present, Walk(root, x).level # PML3
      PROVE  vmm_translate(root, x) = Hardware(root, x)
  <2> DEFINE w == Walk(root, x)
  <2>1. w.level = 1 \/ w.level = 2
    BY <1>4, <1>5 DEF PML3
  <2>2. x % PageSize(1) = 0
    BY Parts
  <2> HIDE DEF w
  <2>3. w.entry.addr + (IF w.level = PML1 THEN 0 ELSE x % MM_PAGE_2MB) = w.entry.addr + (x % PageSize(w.level))
    BY <2>1, <2>2 DEF PML1, MM_PAGE_2MB, PML2
  <2> QED BY <2>3 DEF vmm_translate, Hardware, w
<1> QED BY <1>3, <1>5 DEF TranslationsExact

\* The tables form trees that own their frames: every frame pmm_alloc gave for a table
\* is reached by one entry of one table, at one level, the task's lower half and the
\* kernel share none, and vmm_destroy_tables gives back what mapping took.
THEOREM TablesAreExact == Spec => []TablesExact
<1>1. Init => IInv
  BY Starts
<1>2. IInv /\ [Next]_vars => IInv'
  BY Steps
<1>3. IInv => TablesExact
  BY TablesAre
<1> QED BY <1>1, <1>2, <1>3, PTL DEF Spec

\* The kernel is mapped the same in a task's map as in its own and never for user mode,
\* whatever it maps and unmaps after the task's map was made; and vmm_translate gives
\* what the processor does, in both maps, on every page not in a 1GB page.
THEOREM TranslationsAreExact == Spec => []TranslationsExact
<1>1. Init => IInv
  BY Starts
<1>2. IInv /\ [Next]_vars => IInv'
  BY Steps
<1>3. IInv => TranslationsExact
  BY TranslationsAre
<1> QED BY <1>1, <1>2, <1>3, PTL DEF Spec

------------------------------------------------------------------------------
(* The shootdown.  The acknowledgement counter counts the processors that  *)
(* have finished their handler since the request was sent (Answers);       *)
(* together with the fact that nobody handles anything between requests    *)
(* (Quiet), a full count means that every other processor has dropped the  *)
(* range.                                                                  *)

Owning == {"store", "reset", "send", "local", "wait"}

Shapes ==
  /\ mapped \subseteq Cached /\ tlb \in [Procs -> SUBSET Cached]
  /\ pc \in [Procs -> {"idle", "acquire"} \cup Owning]
  /\ range \in [Procs -> SUBSET Cached]
  /\ lock \in Procs \cup {None}
  /\ request \subseteq Cached /\ ack \in Nat /\ pending \subseteq Procs
  /\ handler \in [Procs -> {"none", "flush", "ack"}]
  /\ seen \in [Procs -> SUBSET Cached] /\ masked \subseteq Procs

\* The lock is held from acquire to finish, by one processor.
LockHeld == \A p \in Procs : lock = p <=> pc[p] \in Owning

\* A processor's range is unmapped, and it has no translation of it itself.
Ranges ==
  \A p \in Procs : /\ pc[p] = "idle" => range[p] = {}
                   /\ range[p] \cap mapped = {}
                   /\ tlb[p] \cap range[p] = {}

\* Processors that have not finished with an interrupt, and those that have.
Handling == { q \in Procs : handler[q] # "none" }
Busy     == pending \cup Handling
Done     == Procs \ ({lock} \cup Busy)
Sent     == lock # None /\ pc[lock] \in {"local", "wait"}

\* Interrupts are under way only between the request and its return.
Quiet == ~Sent => Busy = {}

\* What has been stored when the request is about to be sent.
Stored ==
  \A p \in Procs : /\ pc[p] \in {"reset", "send"} => request = range[p]
                   /\ pc[p] = "send" => ack = 0

\* What the count and the handlers mean while a request is out.
Answers ==
  Sent => /\ lock \notin Busy /\ pending \cap Handling = {}
          /\ request = range[lock]
          /\ \A q \in Handling : seen[q] = request
          /\ ack = Cardinality(Done)
          /\ \A q \in Procs : q \in Done \/ handler[q] = "ack" => tlb[q] \cap range[lock] = {}

ShootInv == Shapes /\ LockHeld /\ Ranges /\ Quiet /\ Stored /\ Answers /\ Flushed
-----------------------------------------------------------------------------
\* No call is under way and nothing is cached when the processors start.
LEMMA ShootStarts ==
  ASSUME ShootInit PROVE ShootInv
<1>1. Shapes /\ LockHeld /\ Ranges /\ Flushed
  BY ShootdownAssumption DEF ShootInit, Shapes, LockHeld, Ranges, Flushed, Owning
<1>2. Quiet /\ Stored /\ Answers
  BY DEF ShootInit, Quiet, Stored, Answers, Sent, Busy, Handling
<1> QED
  BY <1>1, <1>2 DEF ShootInv

\* Steps that change neither the calls nor the handlers keep Sent, Busy and Done.
LEMMA SameRequest ==
  ASSUME UNCHANGED <<pc, lock, pending, handler>>
  PROVE  Sent' = Sent /\ Busy' = Busy /\ Done' = Done /\ Handling' = Handling
BY DEF Sent, Busy, Done, Handling

\* A step that changes nothing keeps the invariant.
LEMMA StutterInv ==
  ASSUME ShootInv, UNCHANGED shootVars
  PROVE  ShootInv'
BY DEF ShootInv, shootVars, memory, calls, shared, irq, Shapes, LockHeld, Ranges, Quiet, Stored, Answers,
       Flushed, Sent, Busy, Done, Handling

\* The hardware caches only what the page table maps.
LEMMA FillInv ==
  ASSUME ShootInv, NEW p \in Procs, NEW page \in Cached, tlb_fill(p, page)
  PROVE  ShootInv'
<1> USE DEF ShootInv, tlb_fill, calls, shared, irq
<1>1. Sent' = Sent /\ Busy' = Busy /\ Done' = Done /\ Handling' = Handling
  BY SameRequest
<1>2. Shapes'
  BY DEF Shapes
<1>3. LockHeld' /\ Quiet' /\ Stored'
  BY <1>1 DEF LockHeld, Quiet, Stored
<1>4. Ranges'
  BY DEF Ranges, Shapes
<1>5. Answers'
  BY <1>1 DEF Answers, Ranges, Shapes, Sent
<1>6. Flushed'
  BY DEF Flushed, Shapes
<1> QED
  BY <1>2, <1>3, <1>4, <1>5, <1>6

\* Mapping a page drops nothing and adds no translation.
LEMMA MapInv ==
  ASSUME ShootInv, NEW page \in Cached, map_page(page)
  PROVE  ShootInv'
<1> USE DEF ShootInv, map_page, calls, shared, irq
<1>1. Sent' = Sent /\ Busy' = Busy /\ Done' = Done /\ Handling' = Handling
  BY SameRequest
<1>2. Shapes' /\ Ranges' /\ LockHeld' /\ Quiet' /\ Stored'
  BY <1>1 DEF Shapes, Ranges, LockHeld, Quiet, Stored
<1>3. Answers' /\ Flushed'
  BY <1>1 DEF Answers, Flushed
<1> QED
  BY <1>2, <1>3

\* Masking interrupts touches neither the request nor the translations.
LEMMA MaskInv ==
  ASSUME ShootInv, NEW p \in Procs, cli(p) \/ sti(p)
  PROVE  ShootInv'
<1> USE DEF ShootInv, cli, sti, memory, calls, shared
<1>1. Sent' = Sent /\ Busy' = Busy /\ Done' = Done /\ Handling' = Handling
  BY SameRequest
<1>2. Shapes' /\ Ranges' /\ LockHeld' /\ Quiet' /\ Stored'
  BY <1>1 DEF Shapes, Ranges, LockHeld, Quiet, Stored
<1>3. Answers' /\ Flushed'
  BY <1>1 DEF Answers, Flushed
<1> QED
  BY <1>2, <1>3

\* The processor holds no lock, so the request that may be out is another's.
LEMMA UnmapInv ==
  ASSUME ShootInv, NEW p \in Procs, NEW R \in SUBSET mapped, unmap(p, R)
  PROVE  ShootInv'
<1> USE DEF ShootInv, unmap, InCall, Goto, shared, irq
<1>1. lock # p /\ lock' = lock
  BY DEF LockHeld, Owning
<1>2. Shapes'
  BY DEF Shapes
<1>3. LockHeld'
  BY <1>1 DEF LockHeld, Shapes, Owning
<1>4. Sent' = Sent /\ Busy' = Busy /\ Done' = Done /\ Handling' = Handling
  BY <1>1 DEF Sent, Busy, Done, Handling, Shapes
<1>5. Quiet' /\ Stored'
  BY <1>4 DEF Quiet, Stored, Shapes
<1>6. Ranges'
  BY DEF Ranges, Shapes
<1>7. Answers'
  <2> SUFFICES ASSUME Sent PROVE Answers'
    BY <1>4 DEF Answers
  <2>1. lock \in Procs /\ range'[lock] = range[lock]
    BY <1>1 DEF Sent, Shapes
  <2>2. \A q \in Procs : tlb'[q] \subseteq tlb[q]
    BY DEF Shapes
  <2> QED
    BY <1>1, <1>4, <2>1, <2>2 DEF Answers
<1>8. Flushed'
  BY DEF Flushed, Shapes, Ranges
<1> QED
  BY <1>2, <1>3, <1>5, <1>6, <1>7, <1>8

\* Until the request is sent nobody is busy.
LEMMA PrepareInv ==
  ASSUME ShootInv, NEW p \in Procs, acquire(p) \/ store_range(p) \/ reset_ack(p)
  PROVE  ShootInv'
<1> USE DEF ShootInv, acquire, store_range, reset_ack, InCall, Goto, memory, irq
<1>1. ~Sent /\ ~Sent'
  <2>1. CASE acquire(p)
    BY <2>1, ShootdownAssumption DEF Sent, Shapes, acquire
  <2>2. CASE store_range(p) \/ reset_ack(p)
    <3>1. lock = p /\ lock' = p
      BY <2>2, ShootdownAssumption DEF LockHeld, Owning, shared
    <3> QED
      BY <2>2, <3>1 DEF Sent, Shapes
  <2> QED
    BY <2>1, <2>2
<1>2. Shapes'
  BY ShootdownAssumption DEF Shapes, Owning, shared
<1>3. LockHeld'
  BY ShootdownAssumption DEF LockHeld, Shapes, Owning
<1>4. Ranges' /\ Flushed'
  BY DEF Ranges, Flushed, Shapes
<1>5. Quiet' /\ Answers'
  BY <1>1 DEF Quiet, Answers, Busy, Handling, shared
<1>6. Stored'
  BY ShootdownAssumption DEF Stored, LockHeld, Shapes, Owning, shared
<1> QED
  BY <1>2, <1>3, <1>4, <1>5, <1>6

\* The interrupt goes to all others, none of whom has answered yet.
LEMMA SendInv ==
  ASSUME ShootInv, NEW p \in Procs, lapic_send_tlb_flush_ipi(p)
  PROVE  ShootInv'
<1> USE DEF ShootInv, lapic_send_tlb_flush_ipi, InCall, Goto, memory, irq
<1>1. lock = p /\ lock' = p /\ ~Sent /\ Busy = {}
  BY ShootdownAssumption DEF LockHeld, Owning, Sent, Quiet
<1>2. Shapes' /\ LockHeld'
  BY <1>1 DEF Shapes, LockHeld, Owning
<1>3. Ranges' /\ Flushed' /\ Stored'
  BY <1>1 DEF Ranges, Flushed, Stored, Shapes, LockHeld, Owning
<1>4. Sent' /\ pending' = Procs \ {p} /\ Handling' = {} /\ Done' = {}
  BY <1>1, ShootdownAssumption DEF Sent, Busy, Handling, Done, Shapes
<1>5. Quiet' /\ p \notin Busy'
  BY <1>4 DEF Quiet, Busy
<1>6. Cardinality(Done') = 0
  BY <1>4, FS_EmptySet
<1>7. ack' = 0 /\ request' = range'[p]
  BY DEF Stored
<1>8. \A q \in Procs : handler'[q] # "ack"
  BY <1>4 DEF Handling
<1>9. Answers'
  BY <1>1, <1>4, <1>5, <1>6, <1>7, <1>8 DEF Answers
<1> QED
  BY <1>2, <1>3, <1>5, <1>9

\* The caller drops the range on its own processor.
LEMMA InvalidateInv ==
  ASSUME ShootInv, NEW p \in Procs, invalidate(p)
  PROVE  ShootInv'
<1> USE DEF ShootInv, invalidate, InCall, Goto, shared, irq
<1>1. lock = p /\ lock' = p
  BY ShootdownAssumption DEF LockHeld, Owning
<1>2. Shapes' /\ LockHeld'
  BY <1>1 DEF Shapes, LockHeld, Owning
<1>3. Ranges' /\ Flushed' /\ Stored'
  BY <1>1 DEF Ranges, Flushed, Stored, Shapes, LockHeld, Owning
<1>4. Sent /\ Sent' /\ Busy' = Busy /\ Done' = Done /\ Handling' = Handling
  BY <1>1, ShootdownAssumption DEF Sent, Busy, Handling, Done, Shapes
<1>5. \A q \in Procs : tlb'[q] \subseteq tlb[q]
  BY DEF Shapes
<1>6. Quiet' /\ Answers'
  BY <1>1, <1>4, <1>5 DEF Quiet, Answers
<1> QED
  BY <1>2, <1>3, <1>6

\* A full count means that all others are done.
LEMMA AllDone ==
  ASSUME ShootInv, Sent, Acked
  PROVE  Done = Procs \ {lock}
<1>1. lock \in Procs /\ IsFiniteSet(Procs \ {lock})
  BY ShootdownAssumption, FS_RemoveElement DEF ShootInv, Shapes, Sent
<1>2. Cardinality(Procs \ {lock}) = Cardinality(Procs) - 1
  BY <1>1, ShootdownAssumption, FS_RemoveElement
<1>3. Done \subseteq Procs \ {lock}
  BY DEF Done
<1>4. /\ IsFiniteSet(Done) /\ Cardinality(Done) <= Cardinality(Procs \ {lock})
      /\ Cardinality(Done) = Cardinality(Procs \ {lock}) => Done = Procs \ {lock}
  BY <1>1, <1>3, FS_Subset
<1>5. ack = Cardinality(Done)
  BY DEF ShootInv, Answers
<1>6. Cardinality(Done) \in Nat /\ Cardinality(Procs) \in Nat
  BY <1>4, ShootdownAssumption, FS_CardinalityType
<1>7. Cardinality(Done) = Cardinality(Procs \ {lock})
  BY <1>2, <1>4, <1>5, <1>6 DEF Acked
<1> QED
  BY <1>4, <1>7

\* The caller returns on a full count, when all others have dropped the range.
LEMMA FinishInv ==
  ASSUME ShootInv, NEW p \in Procs, finish(p)
  PROVE  ShootInv'
<1> USE DEF ShootInv, finish, InCall, Goto, memory, shared, irq
<1>1. lock = p /\ lock' = None /\ Sent /\ ~Sent'
  BY ShootdownAssumption DEF LockHeld, Owning, Sent
<1>2. Done = Procs \ {p}
  BY <1>1, AllDone
<1>3. Shapes' /\ LockHeld'
  BY <1>1, ShootdownAssumption DEF Shapes, LockHeld, Owning
<1>4. Ranges' /\ Stored'
  BY <1>1 DEF Ranges, Stored, Shapes, LockHeld, Owning
<1>5. Busy' = {}
  <2>1. Busy = {}
    BY <1>1, <1>2 DEF Answers, Done, Busy, Handling, Shapes
  <2> QED
    BY <2>1 DEF Busy, Handling
<1>6. Quiet' /\ Answers'
  BY <1>1, <1>5 DEF Quiet, Answers
<1>7. \A q \in Procs : tlb[q] \cap range[p] = {}
  BY <1>1, <1>2 DEF Answers, Ranges
<1>8. Flushed'
  <2> SUFFICES ASSUME NEW q \in Procs, NEW x \in tlb[q]
               PROVE  x \in mapped \cup UNION { range'[r] : r \in Procs }
    BY DEF Flushed
  <2>1. CASE x \in mapped
    BY <2>1
  <2>2. CASE x \notin mapped
    <3>1. PICK r \in Procs : x \in range[r]
      BY <2>2 DEF Flushed
    <3>2. r # p /\ range'[r] = range[r]
      BY <1>7, <3>1 DEF Shapes
    <3> QED
      BY <3>1, <3>2
  <2> QED
    BY <2>1, <2>2
<1> QED
  BY <1>3, <1>4, <1>6, <1>8
-----------------------------------------------------------------------------
\* A handler runs only while a request is out, and on another processor.
LEMMA HandlerContext ==
  ASSUME ShootInv, NEW p \in Procs, p \in Busy
  PROVE  Sent /\ lock \in Procs /\ lock # p
BY ShootdownAssumption DEF ShootInv, Quiet, Answers, Sent, Shapes

\* A handler reads the range of the request that is out.
LEMMA ReadInv ==
  ASSUME ShootInv, NEW p \in Procs, handle_read(p)
  PROVE  ShootInv'
<1> USE DEF ShootInv, handle_read, memory, calls
<1>1. Sent /\ lock \in Procs /\ lock # p
  BY HandlerContext DEF Busy
<1>2. Shapes' /\ LockHeld' /\ Ranges' /\ Flushed' /\ Stored'
  BY DEF Shapes, LockHeld, Ranges, Flushed, Stored
<1>3. Sent' /\ Handling' = Handling \cup {p} /\ Busy' = Busy /\ Done' = Done
  BY <1>1 DEF Sent, Handling, Busy, Done, Shapes
<1>4. Quiet'
  BY <1>3 DEF Quiet
<1>5. \A q \in Handling' : seen'[q] = request
  BY <1>1, <1>3 DEF Answers, Shapes
<1>6. pending' \cap Handling' = {}
  BY <1>1, <1>3 DEF Answers
<1>7. \A q \in Procs : handler'[q] = "ack" => handler[q] = "ack"
  BY DEF Shapes
<1>8. Answers'
  BY <1>1, <1>3, <1>5, <1>6, <1>7 DEF Answers
<1> QED
  BY <1>2, <1>4, <1>8

\* A handler drops the range it has read.
LEMMA FlushInv ==
  ASSUME ShootInv, NEW p \in Procs, handle_flush(p)
  PROVE  ShootInv'
<1> USE DEF ShootInv, handle_flush, calls, shared
<1>1. Sent /\ lock \in Procs /\ lock # p
  BY HandlerContext DEF Busy, Handling
<1>2. Shapes' /\ LockHeld' /\ Stored'
  BY DEF Shapes, LockHeld, Stored
<1>3. Ranges' /\ Flushed'
  BY DEF Ranges, Flushed, Shapes
<1>4. Sent' /\ Handling' = Handling /\ Busy' = Busy /\ Done' = Done
  BY <1>1 DEF Sent, Handling, Busy, Done, Shapes
<1>5. tlb'[p] \cap range[lock] = {}
  BY <1>1 DEF Answers, Handling, Shapes
<1>6. \A q \in Procs \ {p} : tlb'[q] = tlb[q] /\ handler'[q] = handler[q]
  BY DEF Shapes
<1>7. Quiet' /\ Answers'
  BY <1>1, <1>4, <1>5, <1>6 DEF Quiet, Answers
<1> QED
  BY <1>2, <1>3, <1>7

\* One more processor is done, and the count says so.
LEMMA AckInv ==
  ASSUME ShootInv, NEW p \in Procs, handle_ack(p)
  PROVE  ShootInv'
<1> USE DEF ShootInv, handle_ack, memory, calls
<1>1. Sent /\ lock \in Procs /\ lock # p /\ p \in Handling
  BY HandlerContext DEF Busy, Handling
<1>2. Shapes' /\ LockHeld' /\ Ranges' /\ Flushed'
  BY DEF Shapes, LockHeld, Ranges, Flushed
<1>3. Stored'
  BY <1>1 DEF Stored, Sent, LockHeld, Owning
<1>4. /\ Sent' /\ Handling' = Handling \ {p} /\ p \notin pending
      /\ Busy' = Busy \ {p} /\ Done' = Done \cup {p} /\ p \notin Done
  BY <1>1 DEF Sent, Handling, Busy, Done, Shapes, Answers
<1>5. IsFiniteSet(Done)
  BY ShootdownAssumption, FS_Subset DEF Done
<1>6. Cardinality(Done') = Cardinality(Done) + 1
  BY <1>4, <1>5, FS_AddElement
<1>7. ack' = Cardinality(Done')
  BY <1>1, <1>6 DEF Answers
<1>8. \A q \in Handling' : seen'[q] = request
  BY <1>1, <1>4 DEF Answers, Shapes, Handling
<1>9. \A q \in Procs : q \in Done' \/ handler'[q] = "ack" => tlb[q] \cap range[lock] = {}
  BY <1>1, <1>4 DEF Answers, Shapes
<1>10. Quiet' /\ Answers'
  BY <1>1, <1>4, <1>7, <1>8, <1>9 DEF Quiet, Answers
<1> QED
  BY <1>2, <1>3, <1>10
-----------------------------------------------------------------------------
\* The invariant is inductive: one case per action.
LEMMA NextInv == ShootInv /\ [ShootNext]_shootVars => ShootInv'
<1> SUFFICES ASSUME ShootInv, [ShootNext]_shootVars PROVE ShootInv'
  OBVIOUS
<1>1. CASE UNCHANGED shootVars
  BY <1>1, StutterInv
<1>2. CASE \E page \in Cached : map_page(page)
  BY <1>2, MapInv
<1>3. ASSUME NEW p \in Procs, \E page \in Cached : tlb_fill(p, page) PROVE ShootInv'
  BY <1>3, FillInv
<1>4. ASSUME NEW p \in Procs, \E R \in SUBSET mapped \ {{}} : unmap(p, R) PROVE ShootInv'
  BY <1>4, UnmapInv
<1>5. ASSUME NEW p \in Procs, cli(p) \/ sti(p) PROVE ShootInv'
  BY <1>5, MaskInv
<1>6. ASSUME NEW p \in Procs, Handle(p) PROVE ShootInv'
  BY <1>6, ReadInv, FlushInv, AckInv DEF Handle
<1>7. ASSUME NEW p \in Procs, Call(p) PROVE ShootInv'
  BY <1>7, PrepareInv, SendInv, InvalidateInv, FinishInv DEF Call
<1> QED
  BY <1>1, <1>2, <1>3, <1>4, <1>5, <1>6, <1>7 DEF ShootNext

\* After vmm_shootdown_range has returned no processor, of any number, uses a
\* translation it was called to remove.
THEOREM NoStaleTranslation == ShootSpec => []Flushed
<1>1. ShootInit => ShootInv
  BY ShootStarts
<1>2. ShootInv /\ [ShootNext]_shootVars => ShootInv'
  BY NextInv
<1>3. ShootInv => Flushed
  BY DEF ShootInv
<1> QED
  BY <1>1, <1>2, <1>3, PTL DEF ShootSpec
==============================================================================
