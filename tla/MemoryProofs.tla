----------------------------- MODULE MemoryProofs -----------------------------
(***************************************************************************)
(* On any machine, every page frame the allocator has handed out belongs   *)
(* to one holder, and the heap's bitmap agrees with what is mapped and     *)
(* with the runs liballoc has.                                             *)
(*                                                                         *)
(* The invariant follows the frames through the boot (which of them the    *)
(* scan left available) and through the calls that run concurrently: a     *)
(* frame is in the bitmap, in a heap page, in a page table, in the hand    *)
(* of a call under way or held for something else, and in one of these     *)
(* only.  For the heap it says where a call is in its run of pages.        *)
(***************************************************************************)
EXTENDS Memory, Blocks, ListFacts, TLAPS, FiniteSetTheorems

\* The frames below the top that the scan marks, and the others.
Unavailable == { b \in 0..(top - 1) : ~pmm__is_page_available(b) }
Usable      == (0..(top - 1)) \ Unavailable

\* What the state's parts are taken from.
Calls == [op : {"idle", "alloc", "free"}, base : Nat, count : Nat, done : Nat, frame : Nat \cup {None}]
Stages == {"find", "reserve", "scan", "heap", "run"}
Modes  == {"ok", "no_memory", "bitmap_assert", "no_frames", "heap_no_frames"}

\* The state's types.  The frames of the heap's bitmap are only numbers: the
\* search for several frames is not stopped at the top (see FramesStayExact).
Shape ==
  /\ stage \in Stages /\ mode \in Modes
  /\ memmap \in Seq(Entries) /\ top \in Nat
  /\ buffer \subseteq Nat /\ allocated \subseteq Nat
  /\ pages \in Nat /\ heap_map \subseteq 0..(pages - 1) /\ heapbuf \subseteq Nat
  /\ DOMAIN kmap \subseteq 0..(pages - 1) /\ Range(kmap) \subseteq 0..(top - 1)
  /\ Range(tables) \subseteq 0..(top - 1)
  /\ held \in [Procs -> SUBSET (0..(top - 1))]
  /\ blocks \subseteq Nat \X Nat
  /\ lock \in Procs \cup {None} /\ call \in Calls

\* Until heap_load is through there is no heap, and nobody has a frame.
Fresh ==
  stage # "run" =>
    /\ pages = 0 /\ heap_map = {} /\ heapbuf = {} /\ kmap = << >> /\ tables = << >>
    /\ held = [p \in Procs |-> {}] /\ blocks = {} /\ lock = None /\ call = Idle

\* What each stage of the boot leaves to the next: the usable entries end below
\* the top, the allocator's bitmap lies in frames that are not available, and
\* the scan marks exactly those that are not.
Scanned ==
  /\ stage \in {"find", "reserve"} => memmap \in MemMaps /\ buffer = {}
  /\ stage = "reserve" =>
       \A i \in DOMAIN memmap : memmap[i].type = "usable" => memmap[i].base + memmap[i].length <= top
  /\ stage \in {"scan", "heap", "run"} => buffer \subseteq Unavailable
  /\ stage = "heap" /\ mode = "ok" => allocated = Unavailable

\* The holders: a call under way, heap pages, page tables, everybody else.
InHand == {call.frame} \ {None}
Mapped == Range(kmap)
Walked == Range(tables)
Elsewhere == { b \in 0..(top - 1) : \E p \in Procs : b \in held[p] }

\* No two holders share a frame ...
Apart ==
  /\ heapbuf \cap Mapped = {} /\ heapbuf \cap Walked = {} /\ heapbuf \cap InHand = {}
  /\ Mapped \cap Walked = {} /\ Mapped \cap InHand = {} /\ Walked \cap InHand = {}
  /\ \A p \in Procs : held[p] \cap (heapbuf \cup Mapped \cup Walked \cup InHand) = {}
  /\ \A p, q \in Procs : p # q => held[p] \cap held[q] = {}

\* ... they hold available frames, and these are the bits that are set.
Bits ==
  /\ heapbuf \cap Unavailable = {}
  /\ Mapped \cup Walked \cup InHand \cup Elsewhere \subseteq Usable
  /\ allocated = Unavailable \cup heapbuf \cup Mapped \cup Walked \cup InHand \cup Elsewhere

\* The two together; no frame is in two heap pages or two tables either.
Frames == Ran => IsInjective(kmap) /\ IsInjective(tables) /\ Apart /\ Bits

\* The pages a call works on, and those of liballoc's runs.
Working == Run(call.base, call.count)
Owned   == { k \in 0..(pages - 1) : \E b \in blocks : k \in Run(b[1], b[2]) }

\* The heap's lock covers a call from its first page to its last; its pages are
\* nobody else's and lie between the guard pages.
Calling ==
  /\ lock = None <=> call.op = "idle"
  /\ call.op = "idle" => call = Idle
  /\ call.op # "idle" => /\ call.done < call.count
                         /\ Working \subseteq 1..(pages - 2) /\ Working \cap Owned = {}

\* The runs are apart and between the guard pages, and the pages mapped are
\* theirs and the call's, as far as it has come.
Pages ==
  /\ pages > 0
  /\ \A a, b \in blocks : a # b => Run(a[1], a[2]) \cap Run(b[1], b[2]) = {}
  /\ \A b \in blocks : b[2] > 0 /\ Run(b[1], b[2]) \subseteq 1..(pages - 2)
  /\ DOMAIN kmap = Owned \cup InCall
  /\ heap_map = {0, pages - 1} \cup DOMAIN kmap
                  \cup (IF call.op = "free" /\ call.frame # None THEN {call.base + call.done} ELSE {})

\* The heap's part of the invariant.
Heap == Ran => Calling /\ Pages

\* The inductive invariant.
Inv == Shape /\ Fresh /\ Scanned /\ Frames /\ Heap

-------------------------------------------------------------------------------
(* Greatest and lowest numbers                                               *)

\* A finite set of naturals has a greatest member ...
LEMMA Greatest ==
  ASSUME NEW S \in SUBSET Nat, IsFiniteSet(S), S # {}
  PROVE  \E x \in S : \A y \in S : x >= y
<1> DEFINE Has(X) == \E x \in X : \A y \in X : x >= y
           N == { n \in Nat : \A X \in SUBSET Nat : IsFiniteSet(X) /\ Cardinality(X) = n + 1 => Has(X) }
<1>1. 0 \in N
  <2> SUFFICES ASSUME NEW X \in SUBSET Nat, IsFiniteSet(X), Cardinality(X) = 1 PROVE Has(X)
    OBVIOUS
  <2>1. PICK x : X = {x}
    BY FS_Singleton
  <2> QED BY <2>1
<1>2. ASSUME NEW n \in Nat, n \in N PROVE n + 1 \in N
  <2> SUFFICES ASSUME NEW X \in SUBSET Nat, IsFiniteSet(X), Cardinality(X) = n + 2 PROVE Has(X)
    OBVIOUS
  <2>1. PICK z : z \in X
    BY FS_EmptySet
  <2>2. /\ X \ {z} \in SUBSET Nat /\ IsFiniteSet(X \ {z})
        /\ Cardinality(X \ {z}) = n + 1
    BY <2>1, FS_RemoveElement
  <2>3. PICK x \in X \ {z} : \A y \in X \ {z} : x >= y
    BY <1>2, <2>2
  <2>4. CASE x >= z
    BY <2>1, <2>3, <2>4
  <2>5. CASE z >= x
    BY <2>1, <2>3, <2>5
  <2> QED BY <2>1, <2>3, <2>4, <2>5
<1>3. Nat \subseteq N
  <2> HIDE DEF N
  <2> QED BY <1>1, <1>2, SetInduction
<1>4. Cardinality(S) \in Nat /\ Cardinality(S) # 0
  BY FS_CardinalityType, FS_EmptySet
<1>5. Cardinality(S) - 1 \in N
  BY <1>3, <1>4
<1> QED BY <1>4, <1>5

\* ... which is the one Max chooses.
LEMMA MaxOf ==
  ASSUME NEW S \in SUBSET Nat, IsFiniteSet(S), S # {}
  PROVE  Max(S) \in S /\ \A y \in S : Max(S) >= y
BY Greatest DEF Max

\* A finite set of naturals has, for each n up to its size, n lowest members.
LEMMA Smallest ==
  ASSUME NEW S \in SUBSET Nat, IsFiniteSet(S), NEW k \in 0..Cardinality(S)
  PROVE  \E F \in kSubset(k, S) : \A x \in F, y \in S \ F : x < y
<1> DEFINE N == { n \in Nat : n <= Cardinality(S) => \E F \in kSubset(n, S) : \A x \in F, y \in S \ F : x < y }
<1>0. Cardinality(S) \in Nat
  BY FS_CardinalityType
<1>1. 0 \in N
  BY FS_EmptySet DEF kSubset
<1>2. ASSUME NEW n \in Nat, n \in N PROVE n + 1 \in N
  <2> SUFFICES ASSUME n + 1 <= Cardinality(S)
               PROVE  \E F \in kSubset(n + 1, S) : \A x \in F, y \in S \ F : x < y
    OBVIOUS
  <2>1. PICK F \in kSubset(n, S) : \A x \in F, y \in S \ F : x < y
    BY <1>0, <1>2
  <2>2. F \subseteq S /\ Cardinality(F) = n /\ IsFiniteSet(F)
    BY <2>1, FS_Subset DEF kSubset
  <2>3. S \ F # {}
    <3>1. SUFFICES ASSUME S \ F = {} PROVE FALSE
      OBVIOUS
    <3>2. S = F
      BY <2>2, <3>1
    <3> QED BY <1>0, <2>2, <3>2
  <2>4. PICK z \in S \ F : \A y \in S \ F : z <= y
    BY <2>3, Least
  <2>5. F \cup {z} \in kSubset(n + 1, S)
    BY <2>2, <2>4, FS_AddElement DEF kSubset
  <2>6. \A x \in F \cup {z}, y \in S \ (F \cup {z}) : x < y
    BY <2>1, <2>2, <2>4
  <2> QED BY <2>5, <2>6
<1>3. Nat \subseteq N
  <2> HIDE DEF N
  <2> QED BY <1>1, <1>2, SetInduction
<1>4. k \in N /\ k <= Cardinality(S)
  BY <1>0, <1>3
<1> QED BY <1>4

-------------------------------------------------------------------------------
(* The heap's first-fit search                                               *)

\* Where n pages fit, from page s on, and the first of these.
Room(n)     == { b \in 0..(pages - n) : Run(b, n) \cap heap_map = {} }
RoomAt(s, n) == { b \in Room(n) : b >= s }
First(s, n) == IF RoomAt(s, n) = {} THEN None ELSE Min(RoomAt(s, n))

\* Nothing is in the way at s exactly when n pages fit there.
LEMMA BlockedFree ==
  ASSUME pages \in Nat, NEW n \in Nat \ {0}, NEW s \in 0..(pages - 1)
  PROVE  Blocked(s, n) = {} <=> s \in Room(n)
<1>1. ASSUME Blocked(s, n) = {} PROVE s \in Room(n)
  <2>1. \A k \in s..(s + n - 1) : k < pages /\ k \notin heap_map
    BY <1>1 DEF Blocked, Run
  <2>2. s + n - 1 < pages
    BY <2>1
  <2> QED BY <2>1, <2>2 DEF Room, Run
<1>2. ASSUME s \in Room(n) PROVE Blocked(s, n) = {}
  BY <1>2 DEF Blocked, Room, Run
<1> QED BY <1>1, <1>2

\* The search may go on behind the first page that is in the way.
LEMMA FirstSkips ==
  ASSUME pages \in Nat, NEW n \in Nat \ {0}, NEW s \in 0..(pages - 1), Blocked(s, n) # {}
  PROVE  /\ Min(Blocked(s, n)) \in s..pages
         /\ First(s, n) = First(Min(Blocked(s, n)) + 1, n)
<1> DEFINE m == Min(Blocked(s, n))
<1>1. Blocked(s, n) \in SUBSET Nat
  BY DEF Blocked, Run
<1>2. m \in Blocked(s, n) /\ \A y \in Blocked(s, n) : m <= y
  BY <1>1, MinOf
<1>3. m \in s..(s + n - 1) /\ (m >= pages \/ m \in heap_map)
  BY <1>2 DEF Blocked, Run
<1>4. m <= pages
  <2>1. SUFFICES ASSUME m > pages PROVE FALSE
    BY <1>3
  <2>2. pages \in Blocked(s, n)
    BY <1>3, <2>1 DEF Blocked, Run
  <2> QED BY <1>2, <1>3, <2>1, <2>2
<1>5. RoomAt(s, n) = RoomAt(m + 1, n)
  <2> HIDE DEF m
  <2>1. ASSUME NEW b \in Room(n), b >= s PROVE b >= m + 1
    <3>1. SUFFICES ASSUME b <= m PROVE FALSE
      BY <1>3, <2>1 DEF Room
    <3>2. b \in 0..(pages - n) /\ Run(b, n) \cap heap_map = {}
      BY DEF Room
    <3>3. m \in Run(b, n) /\ m < pages
      BY <1>3, <2>1, <3>1, <3>2 DEF Run
    <3> QED BY <1>3, <3>2, <3>3
  <2>2. \A b \in Room(n) : b \in Int
    BY DEF Room
  <2> QED BY <1>3, <2>1, <2>2 DEF RoomAt
<1> QED BY <1>3, <1>4, <1>5 DEF First

\* The equation heap_search's loop satisfies, from each page on.
Loop(f, n) ==
  [s \in 0..(pages + 1) |->
     IF s >= pages THEN None
     ELSE IF Blocked(s, n) = {} THEN s ELSE f[Min(Blocked(s, n)) + 1]]

\* First satisfies it ...
LEMMA FirstLoops ==
  ASSUME pages \in Nat, NEW n \in Nat \ {0}, NEW s \in 0..(pages + 1)
  PROVE  First(s, n) = IF s >= pages THEN None
                       ELSE IF Blocked(s, n) = {} THEN s ELSE First(Min(Blocked(s, n)) + 1, n)
<1>1. CASE s >= pages
  <2>1. RoomAt(s, n) = {}
    BY <1>1 DEF RoomAt, Room
  <2> QED BY <1>1, <2>1 DEF First
<1>2. CASE s < pages /\ Blocked(s, n) = {}
  <2>1. s \in RoomAt(s, n) /\ RoomAt(s, n) \in SUBSET Nat /\ \A b \in RoomAt(s, n) : s <= b
    BY <1>2, BlockedFree DEF RoomAt, Room
  <2>2. Min(RoomAt(s, n)) \in RoomAt(s, n) /\ Min(RoomAt(s, n)) <= s
    BY <2>1, MinOf
  <2>3. Min(RoomAt(s, n)) = s
    BY <2>1, <2>2
  <2> QED BY <1>2, <2>1, <2>3 DEF First
<1>3. CASE s < pages /\ Blocked(s, n) # {}
  BY <1>3, FirstSkips
<1> QED BY <1>1, <1>2, <1>3

\* ... and nothing else does: otherwise take the last page on which the two
\* differ; the loop moves on from it to a later one.
LEMMA LoopUnique ==
  ASSUME pages \in Nat, NEW n \in Nat \ {0}, NEW f, f = Loop(f, n)
  PROVE  \A s \in 0..(pages + 1) : f[s] = First(s, n)
<1> DEFINE Bad == { k \in 0..(pages + 1) : f[pages + 1 - k] # First(pages + 1 - k, n) }
<1>1. ASSUME Bad # {} PROVE FALSE
  <2>1. PICK k \in Bad : \A y \in Bad : k <= y
    <3>1. Bad \in SUBSET Nat
      OBVIOUS
    <3> HIDE DEF Bad
    <3> QED BY <1>1, <3>1, Least
  <2> DEFINE s == pages + 1 - k
  <2>2. s \in 0..(pages + 1) /\ f[s] # First(s, n)
    BY <2>1
  <2>3. \A t \in (s + 1)..(pages + 1) : f[t] = First(t, n)
    <3> TAKE t \in (s + 1)..(pages + 1)
    <3>1. pages + 1 - t \in 0..(pages + 1) /\ pages + 1 - t < k /\ pages + 1 - (pages + 1 - t) = t
      BY <2>1
    <3>2. pages + 1 - t \notin Bad
      <4>1. pages + 1 - t \in Int /\ k \in Int
        BY <2>1, <3>1
      <4> HIDE DEF Bad
      <4> QED BY <2>1, <3>1, <4>1
    <3> QED BY <3>1, <3>2
  <2> HIDE DEF s
  <2>4. f[s] = IF s >= pages THEN None
               ELSE IF Blocked(s, n) = {} THEN s ELSE f[Min(Blocked(s, n)) + 1]
    BY <2>2 DEF Loop
  <2>5. CASE s >= pages \/ Blocked(s, n) = {}
    BY <2>2, <2>4, <2>5, FirstLoops
  <2>6. CASE s < pages /\ Blocked(s, n) # {}
    <3>1. Min(Blocked(s, n)) \in s..pages
      BY <2>2, <2>6, FirstSkips
    <3>2. f[Min(Blocked(s, n)) + 1] = First(Min(Blocked(s, n)) + 1, n)
      BY <2>2, <2>3, <3>1
    <3> QED BY <2>2, <2>4, <2>6, <3>2, FirstLoops
  <2> QED BY <2>2, <2>5, <2>6
<1>2. ASSUME NEW s \in 0..(pages + 1) PROVE f[s] = First(s, n)
  <2>1. pages + 1 - s \in 0..(pages + 1) /\ pages + 1 - (pages + 1 - s) = s
    OBVIOUS
  <2> QED BY <1>1, <2>1
<1> QED BY <1>2

\* The first-fit search of liballoc_alloc finds a run exactly when there is one,
\* and then the lowest.
LEMMA SearchExact ==
  ASSUME pages \in Nat, NEW n \in Nat \ {0}
  PROVE  heap_search(n) = IF Room(n) = {} THEN None ELSE Min(Room(n))
<1> DEFINE g == [s \in 0..(pages + 1) |-> First(s, n)]
           h == CHOOSE f : f = Loop(f, n)
<1>1. g = Loop(g, n)
  <2>1. ASSUME NEW s \in 0..(pages + 1)
        PROVE  First(s, n) = IF s >= pages THEN None
                             ELSE IF Blocked(s, n) = {} THEN s ELSE g[Min(Blocked(s, n)) + 1]
    <3>1. CASE s >= pages \/ Blocked(s, n) = {}
      BY <3>1, FirstLoops
    <3>2. CASE s < pages /\ Blocked(s, n) # {}
      <4>1. Min(Blocked(s, n)) + 1 \in 0..(pages + 1)
        BY <3>2, FirstSkips
      <4> QED BY <3>2, <4>1, FirstLoops
    <3> QED BY <3>1, <3>2
  <2> QED BY <2>1 DEF Loop
<1>2. h = Loop(h, n)
  <2> HIDE DEF g
  <2> QED BY <1>1, Zenon
<1>3. heap_search(n) = h[0]
  BY Zenon DEF heap_search, Loop
<1>4. h[0] = First(0, n)
  <2> HIDE DEF h
  <2> QED BY <1>2, LoopUnique
<1>5. RoomAt(0, n) = Room(n)
  BY DEF RoomAt, Room
<1> QED BY <1>3, <1>4, <1>5 DEF First

-------------------------------------------------------------------------------
(* The frame allocator's search, and steps in general                        *)

\* Rounding up gives a number, and not a smaller one ...
LEMMA Aligned ==
  ASSUME NEW n \in Nat, NEW a \in Nat \ {0}
  PROVE  align_size_up(n, a) \in Nat /\ align_size_up(n, a) >= n
<1>1. n % a \in 0..(a - 1)
  OBVIOUS
<1> QED BY <1>1 DEF align_size_up

\* ... so a bitmap takes a number of pages.
LEMMA BitmapRoom == ASSUME NEW n \in Nat PROVE BitmapPages(n) \in Nat
<1>1. n \div ByteBits \in Nat
  BY MemoryAssumption
<1>2. BitmapBytes(n) \in Nat
  BY <1>1, Aligned, MemoryAssumption DEF BitmapBytes
<1> QED BY <1>2, MemoryAssumption DEF BitmapPages

\* What pmm_search finds, if it has not run off the bitmap, is free.
LEMMA SearchFinds ==
  ASSUME top \in Nat, NEW n \in Nat, pmm_search(n) # None, ~Overruns(pmm_search(n), n)
  PROVE  /\ pmm_search(n) \in 0..(top - 1)
         /\ Run(pmm_search(n), n) \cap allocated = {}
<1> DEFINE stops == { b \in 0..(top - 1) : Fits(b, n) \/ Overruns(b, n) }
<1>1. stops # {} /\ pmm_search(n) = Min(stops)
  BY DEF pmm_search
<1>2. stops \in SUBSET Nat
  OBVIOUS
<1>3. Min(stops) \in stops
  <2> HIDE DEF stops
  <2> QED BY <1>1, <1>2, MinOf
<1>4. pmm_search(n) \in 0..(top - 1) /\ Fits(pmm_search(n), n)
  BY <1>1, <1>3
<1> QED BY <1>4 DEF Fits

\* The same for one frame.
LEMMA SearchOne ==
  ASSUME top \in Nat, pmm_search(1) # None, ~Overruns(pmm_search(1), 1)
  PROVE  /\ pmm_search(1) \in 0..(top - 1) /\ pmm_search(1) \notin allocated
         /\ Run(pmm_search(1), 1) = {pmm_search(1)}
<1>1. pmm_search(1) \in 0..(top - 1) /\ Run(pmm_search(1), 1) \cap allocated = {}
  BY SearchFinds
<1>2. Run(pmm_search(1), 1) = {pmm_search(1)}
  BY <1>1 DEF Run
<1> QED BY <1>1, <1>2

\* What the scan marks depends on the memory map alone.
LEMMA Unmoved ==
  ASSUME UNCHANGED <<memmap, top>>
  PROVE  Unavailable' = Unavailable /\ Usable' = Usable
BY DEF Unavailable, Usable, pmm__is_page_available

\* The parts of the invariant that matter once the machine runs.
LEMMA Runs ==
  ASSUME Inv, Ran, UNCHANGED <<stage, memmap, top, buffer>>, Shape', Frames', Heap'
  PROVE  Inv'
<1>1. stage = "run" /\ stage' = "run"
  BY DEF Ran
<1>2. Fresh'
  BY <1>1 DEF Fresh
<1>3. Scanned'
  BY <1>1, Unmoved DEF Inv, Scanned
<1> QED BY <1>2, <1>3 DEF Inv

\* A panic or a failed assertion: nothing but the mode changes.
LEMMA Stops ==
  ASSUME Inv, NEW why \in Modes \ {"ok"}, Stop(why), UNCHANGED <<memmap, top, buffer>>,
         stage \in {"heap", "run"}, stage' = "run"
  PROVE  Inv'
<1>1. UNCHANGED <<allocated, pages, heap_map, heapbuf, kmap, tables, blocks, lock, call, held>> /\ mode' = why
  BY DEF Stop, heap
<1>2. Shape'
  BY <1>1 DEF Inv, Shape, Stages
<1>3. Fresh'
  BY <1>1 DEF Inv, Fresh
<1>4. Scanned'
  BY <1>1, Unmoved DEF Inv, Scanned
<1>5. Frames' /\ Heap'
  BY <1>1 DEF Frames, Heap, Ran
<1> QED BY <1>2, <1>3, <1>4, <1>5 DEF Inv

-------------------------------------------------------------------------------
(* Boot                                                                      *)

\* What the types and holders are while there is no heap.
LEMMA NoHeap ==
  ASSUME pages = 0, heap_map = {}, heapbuf = {}, kmap = << >>, tables = << >>,
         held = [p \in Procs |-> {}], blocks = {}, lock = None, call = Idle
  PROVE  /\ pages \in Nat /\ heap_map \subseteq 0..(pages - 1) /\ heapbuf \subseteq Nat
         /\ DOMAIN kmap = {} /\ Range(kmap) = {} /\ DOMAIN tables = {} /\ Range(tables) = {}
         /\ held \in [Procs -> SUBSET (0..(top - 1))]
         /\ blocks \subseteq Nat \X Nat
         /\ lock \in Procs \cup {None} /\ call \in Calls
<1>1. DOMAIN kmap = {} /\ DOMAIN tables = {}
  OBVIOUS
<1>2. Range(kmap) = {} /\ Range(tables) = {}
  BY <1>1 DEF Range
<1>3. call \in Calls
  BY DEF Idle, Calls, None
<1> QED BY <1>1, <1>2, <1>3

\* Before pmm_load.
LEMMA Begin == Init => Inv
<1> SUFFICES ASSUME Init PROVE Inv
  OBVIOUS
<1>1. pages = 0 /\ heap_map = {} /\ heapbuf = {} /\ kmap = << >> /\ tables = << >>
      /\ held = [p \in Procs |-> {}] /\ blocks = {} /\ lock = None /\ call = Idle
  BY DEF Init
<1>2. Shape
  BY <1>1, NoHeap, MemoryAssumption DEF Init, Shape, Stages, Modes
<1>3. Fresh /\ Scanned /\ Frames /\ Heap
  BY <1>1 DEF Init, Fresh, Scanned, Frames, Heap, Ran
<1> QED BY <1>2, <1>3 DEF Inv

\* pmm__find_highest_page: every usable entry ends at or below the top.
LEMMA FindHighest == ASSUME Inv, find_highest PROVE Inv'
<1> DEFINE counted == { i \in DOMAIN memmap : memmap[i].type # "reserved" }
           f == [i \in counted |-> memmap[i].base + memmap[i].length]
           ends == { memmap[i].base + memmap[i].length : i \in counted }
<1>1. stage = "find" /\ stage' = "reserve" /\ top' = Max({0} \cup ends)
      /\ UNCHANGED <<memmap, buffer, allocated, pages, heap_map, heapbuf, kmap, tables, blocks, lock, call, held, mode>>
  BY DEF find_highest, pmm__find_highest_page, heap
<1>2. memmap \in Seq(Entries) /\ memmap \in MemMaps
  BY <1>1, MemoryAssumption DEF Inv, Scanned
<1>3. \A i \in DOMAIN memmap : memmap[i] \in Entries /\ memmap[i].base \in Nat /\ memmap[i].length \in Nat
  <2>1. \A i \in DOMAIN memmap : memmap[i] \in Entries
    BY <1>2
  <2> QED BY <2>1 DEF Entries
<1>4. {0} \cup ends \in SUBSET Nat /\ IsFiniteSet({0} \cup ends)
  <2>1. IsFiniteSet(counted)
    <3>1. counted \in SUBSET (1..Len(memmap)) /\ Len(memmap) \in Int
      BY <1>2
    <3>2. IsFiniteSet(1..Len(memmap))
      BY <3>1, FS_Interval
    <3> HIDE DEF counted
    <3> QED BY <3>1, <3>2, FS_Subset
  <2>2. f \in Surjection(counted, ends)
    BY DEF Surjection
  <2>3. IsFiniteSet(ends)
    <3> HIDE DEF f, ends, counted
    <3> QED BY <2>1, <2>2, FS_Surjection
  <2>4. ends \in SUBSET Nat
    BY <1>3
  <2>5. IsFiniteSet(ends \cup {0}) /\ ends \cup {0} = {0} \cup ends
    <3> HIDE DEF ends
    <3> QED BY <2>3, FS_AddElement
  <2> HIDE DEF ends
  <2> QED BY <2>4, <2>5
<1>5. top' \in {0} \cup ends /\ \A e \in {0} \cup ends : top' >= e
  <2> HIDE DEF ends
  <2> QED BY <1>1, <1>4, MaxOf
<1>6. top' \in Nat
  BY <1>4, <1>5
<1>7. \A i \in DOMAIN memmap : memmap[i].type = "usable" => memmap[i].base + memmap[i].length <= top'
  <2> TAKE i \in DOMAIN memmap
  <2> HAVE memmap[i].type = "usable"
  <2>1. memmap[i].base + memmap[i].length \in ends
    OBVIOUS
  <2>2. memmap[i].base + memmap[i].length \in Nat
    BY <1>3
  <2> HIDE DEF ends
  <2> QED BY <1>5, <1>6, <2>1, <2>2
<1>8. /\ pages = 0 /\ heap_map = {} /\ heapbuf = {} /\ kmap = << >> /\ tables = << >>
      /\ held = [p \in Procs |-> {}] /\ blocks = {} /\ lock = None /\ call = Idle
  BY <1>1 DEF Inv, Fresh
<1>9. Fresh'
  BY <1>1, <1>8 DEF Fresh
<1>10. Shape'
  <2>1. /\ Range(kmap) = {} /\ Range(tables) = {} /\ held \in [Procs -> SUBSET (0..(top' - 1))]
    BY <1>8, NoHeap
  <2> QED BY <1>1, <1>6, <2>1 DEF Inv, Shape, Stages, Range
<1>11. Scanned'
  BY <1>1, <1>2, <1>7 DEF Inv, Scanned
<1>12. Frames' /\ Heap'
  BY <1>1 DEF Frames, Heap, Ran
<1> QED BY <1>9, <1>10, <1>11, <1>12 DEF Inv

\* pmm__reserve_bitmap: the entry loses the bitmap's frames, so that they are
\* not available any more.
LEMMA ReserveBitmap == ASSUME Inv, reserve_bitmap PROVE Inv'
<1> DEFINE size == BitmapPages(top)
           room == { i \in DOMAIN memmap : memmap[i].type = "usable" /\ memmap[i].length >= size }
           i == Min(room)
           e == [base |-> memmap[i].base + size, length |-> memmap[i].length - size, type |-> "usable"]
<1>1. /\ stage = "reserve" /\ stage' = "scan"
      /\ UNCHANGED <<top, allocated, pages, heap_map, heapbuf, kmap, tables, blocks, lock, call, held>>
      /\ memmap \in MemMaps /\ memmap \in Seq(Entries) /\ top \in Nat /\ size \in Nat
  BY BitmapRoom, MemoryAssumption DEF reserve_bitmap, heap, Inv, Scanned, Shape
<1>2. IF room = {} THEN mode' = "no_memory" /\ UNCHANGED <<memmap, buffer>>
      ELSE /\ memmap' = [memmap EXCEPT ![i] = e] /\ buffer' = Run(memmap[i].base, size) /\ UNCHANGED mode
  BY DEF reserve_bitmap, pmm__reserve_bitmap
<1>3. Fresh' /\ Frames' /\ Heap'
  BY <1>1 DEF Inv, Fresh, Frames, Heap, Ran
<1>4. CASE room = {}
  <2> HIDE DEF room
  <2>1. mode' = "no_memory" /\ UNCHANGED <<memmap, buffer>>
    BY <1>2, <1>4
  <2>2. Shape'
    BY <1>1, <2>1 DEF Inv, Shape, Stages, Modes
  <2>3. Scanned'
    BY <1>1, <2>1 DEF Inv, Scanned
  <2> QED BY <1>3, <2>2, <2>3 DEF Inv
<1>5. CASE room # {}
  <2>1. memmap' = [memmap EXCEPT ![i] = e] /\ buffer' = Run(memmap[i].base, size) /\ UNCHANGED mode
    BY <1>2, <1>5
  <2>2. i \in DOMAIN memmap /\ memmap[i].type = "usable" /\ memmap[i].length >= size
    <3>1. room \in SUBSET Nat
      BY <1>1
    <3>2. i \in room
      <4> HIDE DEF room
      <4> QED BY <1>5, <3>1, MinOf
    <3> QED BY <3>2
  <2> HIDE DEF i, room, size
  <2>3. /\ memmap[i] \in Entries /\ memmap[i].base \in Nat /\ memmap[i].length \in Nat
        /\ memmap[i].base + memmap[i].length <= top /\ e \in Entries
    <3>1. memmap[i] \in Entries
      BY <1>1, <2>2
    <3>2. memmap[i].base \in Nat /\ memmap[i].length \in Nat
      BY <3>1 DEF Entries
    <3>3. memmap[i].base + memmap[i].length <= top
      BY <1>1, <2>2 DEF Inv, Scanned
    <3>4. memmap[i].base + size \in Nat /\ memmap[i].length - size \in Nat
      BY <1>1, <2>2, <3>2
    <3>5. e \in Entries
      BY <3>4 DEF Entries, Types
    <3> QED BY <3>1, <3>2, <3>3, <3>5
  <2>4. memmap' \in Seq(Entries) /\ DOMAIN memmap' = DOMAIN memmap /\ memmap'[i] = e
        /\ \A j \in DOMAIN memmap : j # i => memmap'[j] = memmap[j]
    <3> HIDE DEF e
    <3> QED BY <1>1, <2>1, <2>2, <2>3
  <2>5. ASSUME NEW b \in Run(memmap[i].base, size) PROVE b \in 0..(top - 1) /\ ~pmm__is_page_available(b)'
    <3>1. b \in Nat /\ b >= memmap[i].base /\ b < memmap[i].base + size /\ b < top /\ b \in RunOf(memmap[i])
      BY <1>1, <2>2, <2>3 DEF Run, RunOf
    <3>2. b \notin RunOf(e)
      BY <1>1, <2>3, <3>1 DEF Run, RunOf
    <3>3. \A j \in DOMAIN memmap : j # i => b \notin RunOf(memmap[j])
      BY <1>1, <2>2, <3>1, MemoryAssumption
    <3>4. \A j \in DOMAIN memmap' : b \notin RunOf(memmap'[j])
      <4> HIDE DEF e
      <4> QED BY <2>4, <3>2, <3>3
    <3>5. ~pmm__is_page_available(b)'
      BY <3>4 DEF pmm__is_page_available
    <3> QED BY <1>1, <3>1, <3>5
  <2>6. buffer' \subseteq Unavailable'
    BY <1>1, <2>1, <2>5 DEF Unavailable
  <2>7. Scanned'
    BY <1>1, <2>6 DEF Scanned
  <2>8. buffer' \subseteq Nat
    BY <2>1, <2>5
  <2>9. Shape'
    BY <1>1, <2>1, <2>4, <2>8 DEF Inv, Shape, Stages
  <2> QED BY <1>3, <2>7, <2>9 DEF Inv
<1> QED BY <1>4, <1>5

\* pmm__scan_bitmap: the bits set are the frames that are not available.
LEMMA ScanBitmap == ASSUME Inv, scan_bitmap PROVE Inv'
<1>1. /\ stage = "scan" /\ stage' = "heap"
      /\ UNCHANGED <<memmap, top, buffer, pages, heap_map, heapbuf, kmap, tables, blocks, lock, call, held>>
  BY DEF scan_bitmap, heap
<1>2. \/ allocated' = Unavailable /\ UNCHANGED mode
      \/ mode' = "bitmap_assert" /\ UNCHANGED allocated
  BY DEF scan_bitmap, pmm__scan_bitmap, Unavailable
<1>3. Fresh' /\ Frames' /\ Heap'
  BY <1>1 DEF Inv, Fresh, Frames, Heap, Ran
<1>4. Unavailable' = Unavailable /\ Unavailable \subseteq Nat
  BY <1>1, Unmoved DEF Unavailable
<1>5. Scanned'
  BY <1>1, <1>2, <1>4 DEF Inv, Scanned
<1>6. Shape'
  BY <1>1, <1>2, <1>4 DEF Inv, Shape, Stages, Modes
<1> QED BY <1>3, <1>5, <1>6 DEF Inv

\* heap_load: the heap's bitmap gets free frames, and only its guard pages are
\* set.
LEMMA HeapLoad == ASSUME Inv, heap_load PROVE Inv'
<1> DEFINE count == align_size_up(top, LargePages)
           size  == BitmapPages(count)
           b     == pmm_search(size)
<1>1. /\ stage = "heap" /\ mode = "ok" /\ stage' = "run" /\ UNCHANGED <<memmap, top, buffer>> /\ top \in Nat
      /\ pages = 0 /\ heap_map = {} /\ heapbuf = {} /\ kmap = << >> /\ tables = << >>
      /\ held = [p \in Procs |-> {}] /\ blocks = {} /\ lock = None /\ call = Idle
      /\ allocated = Unavailable
  BY DEF heap_load, Inv, Fresh, Scanned, Shape
<1>2. count \in Nat /\ count >= top /\ size \in Nat
  BY <1>1, Aligned, BitmapRoom, MemoryAssumption
<1>3. CASE Stop("no_frames")
  BY <1>1, <1>3, Stops DEF Modes
<1>4. CASE Stop("bitmap_assert")
  BY <1>1, <1>4, Stops DEF Modes
<1>5. CASE /\ b # None /\ ~Overruns(b, size)
           /\ heapbuf' = Run(b, size) /\ pages' = count /\ heap_map' = {0, count - 1}
           /\ UNCHANGED <<kmap, tables, held, blocks, lock, call, mode>>
           /\ allocated' = allocated \cup Run(b, size)
  <2>1. b \in 0..(top - 1) /\ Run(b, size) \cap allocated = {}
    BY <1>1, <1>2, <1>5, SearchFinds
  <2>2. Run(b, size) \subseteq Nat /\ count > 0
    BY <1>1, <1>2, <2>1 DEF Run
  <2> HIDE DEF b, size, count
  <2>3. /\ DOMAIN kmap = {} /\ Range(kmap) = {} /\ DOMAIN tables = {} /\ Range(tables) = {}
        /\ held \in [Procs -> SUBSET (0..(top - 1))]
        /\ lock \in Procs \cup {None} /\ call \in Calls
    BY <1>1, NoHeap
  <2>4. Shape'
    <3>1. Range(kmap)' = {} /\ Range(tables)' = {} /\ DOMAIN kmap' = {}
      BY <1>5, <2>3
    <3>2. heap_map' \subseteq 0..(pages' - 1) /\ heapbuf' \subseteq Nat /\ pages' \in Nat /\ allocated' \subseteq Nat
      <4>1. allocated \subseteq Nat
        BY DEF Inv, Shape
      <4>2. heap_map' \subseteq 0..(pages' - 1) /\ pages' \in Nat
        BY <1>2, <1>5, <2>2
      <4> QED BY <1>5, <2>2, <4>1, <4>2
    <3>3. held' \in [Procs -> SUBSET (0..(top' - 1))] /\ blocks' \subseteq Nat \X Nat
          /\ lock' \in Procs \cup {None} /\ call' \in Calls
      BY <1>1, <1>5, <2>3
    <3> QED BY <1>1, <1>5, <3>1, <3>2, <3>3 DEF Inv, Shape, Stages
  <2>5. Fresh'
    BY <1>1 DEF Fresh
  <2>6. Unavailable' = Unavailable /\ Usable' = Usable
    BY <1>1, Unmoved
  <2>7. Scanned'
    BY <1>1, <2>6 DEF Inv, Scanned
  <2>8. Mapped' = {} /\ Walked' = {} /\ InHand' = {} /\ Elsewhere' = {}
        /\ \A p \in Procs : held'[p] = {}
    BY <1>1, <1>5, <2>3 DEF Mapped, Walked, InHand, Idle, Range, Elsewhere
  <2>9. Apart'
    BY <2>8 DEF Apart
  <2>10. Bits'
    BY <1>1, <1>5, <2>1, <2>6, <2>8 DEF Bits
  <2>11. IsInjective(kmap') /\ IsInjective(tables')
    BY <1>5, <2>3 DEF IsInjective
  <2>12. Owned' = {} /\ InCall' = {} /\ DOMAIN kmap' = {} /\ call' = Idle /\ lock' = None /\ blocks' = {}
    BY <1>1, <1>5, <2>3 DEF Owned, InCall, Idle, Run
  <2>13. Calling'
    BY <2>12 DEF Calling, Idle
  <2>14. Pages'
    BY <1>5, <1>2, <2>2, <2>12 DEF Pages, Idle
  <2> QED BY <2>4, <2>5, <2>7, <2>9, <2>10, <2>11, <2>13, <2>14 DEF Inv, Frames, Heap
<1> QED BY <1>3, <1>4, <1>5 DEF heap_load, pmm_alloc, pmm_try_alloc

-------------------------------------------------------------------------------
(* Frames taken and given back                                               *)

\* A step that leaves the heap alone.
LEMMA HeapStill ==
  ASSUME Inv, Ran, UNCHANGED <<stage, pages, heap_map, heapbuf, kmap, tables, blocks, lock, call>>
  PROVE  Heap'
BY DEF Inv, Heap, Calling, Pages, Working, Owned, InCall, Run

\* What a processor holds.
LEMMA Members ==
  ASSUME Inv
  PROVE  held \in [Procs -> SUBSET (0..(top - 1))] /\ \A p \in Procs : held[p] \subseteq 0..(top - 1)
BY DEF Inv, Shape

\* pmm_alloc and pmm_try_alloc of one frame: it was nobody's, and now is the
\* caller's.
LEMMA FrameAlloc == ASSUME Inv, NEW p \in Procs, NEW panics \in BOOLEAN, frame_alloc(p, panics) PROVE Inv'
<1> DEFINE b == pmm_search(1)
<1>1. Ran /\ UNCHANGED <<stage, memmap, top, buffer>> /\ top \in Nat /\ stage = "run" /\ mode = "ok"
  BY DEF frame_alloc, Inv, Shape, Ran
<1>2. CASE Stop("no_frames") \/ Stop("bitmap_assert")
  <2>1. \E why \in Modes \ {"ok"} : Stop(why)
    BY <1>2 DEF Modes
  <2> QED BY <1>1, <2>1, Stops
<1>3. CASE UNCHANGED <<allocated, heap, held, mode>>
  <2>1. UNCHANGED <<stage, memmap, top, buffer, allocated, pages, heap_map, heapbuf, kmap, tables, blocks, lock, call, held, mode>>
    BY <1>1, <1>3 DEF heap
  <2>2. Heap'
    BY <1>1, <2>1, HeapStill
  <2>3. Frames'
    BY <2>1, Unmoved DEF Inv, Frames, Ran, Apart, Bits, Mapped, Walked, InHand, Elsewhere
  <2>4. Shape'
    BY <2>1 DEF Inv, Shape
  <2> QED BY <1>1, <2>2, <2>3, <2>4, Runs
<1>4. CASE /\ b # None /\ ~Overruns(b, 1)
           /\ held' = [held EXCEPT ![p] = @ \cup {b}] /\ UNCHANGED heap
           /\ allocated' = allocated \cup Run(b, 1) /\ UNCHANGED mode
  <2>1. b \in 0..(top - 1) /\ b \notin allocated /\ allocated' = allocated \cup {b}
    BY <1>1, <1>4, SearchOne
  <2>2. UNCHANGED <<stage, memmap, top, buffer, pages, heap_map, heapbuf, kmap, tables, blocks, lock, call, mode>>
        /\ held' = [held EXCEPT ![p] = @ \cup {b}]
    BY <1>1, <1>4 DEF heap
  <2> HIDE DEF b
  <2>3. Heap'
    BY <1>1, <2>2, HeapStill
  <2>4. held' \in [Procs -> SUBSET (0..(top - 1))] /\ held'[p] = held[p] \cup {b}
        /\ \A q \in Procs \ {p} : held'[q] = held[q]
    BY <2>1, <2>2, Members
  <2>5. Shape'
    BY <2>1, <2>2, <2>4 DEF Inv, Shape
  <2>6. Frames'
    <3>1. Mapped' = Mapped /\ Walked' = Walked /\ InHand' = InHand
      BY <2>2 DEF Mapped, Walked, InHand, Range
    <3>2. Unavailable' = Unavailable /\ Usable' = Usable /\ b \in Usable
      <4>1. b \notin Unavailable
        BY <1>1, <2>1 DEF Inv, Frames, Bits
      <4> QED BY <2>1, <2>2, <4>1, Unmoved DEF Usable
    <3>3. Apart'
      <4>1. b \notin heapbuf \cup Mapped \cup Walked \cup InHand /\ \A q \in Procs : b \notin held[q]
        BY <1>1, <2>1 DEF Inv, Frames, Bits, Elsewhere
      <4> QED BY <1>1, <2>2, <2>4, <3>1, <4>1 DEF Inv, Frames, Apart
    <3>4. Elsewhere' = Elsewhere \cup {b}
      BY <2>1, <2>2, <2>4 DEF Elsewhere
    <3>5. Bits'
      BY <1>1, <2>1, <2>2, <3>1, <3>2, <3>4 DEF Inv, Frames, Bits
    <3> QED BY <1>1, <2>2, <3>3, <3>5 DEF Inv, Frames, IsInjective
  <2> QED BY <1>1, <2>2, <2>3, <2>5, <2>6, Runs
<1> QED BY <1>2, <1>3, <1>4 DEF frame_alloc, pmm_alloc, pmm_try_alloc

\* pmm_free of one frame: its holder had it alone, so the bit may be cleared.
LEMMA FrameFree == ASSUME Inv, NEW p \in Procs, NEW b \in held[p], frame_free(p, b) PROVE Inv'
<1>1. /\ Ran /\ UNCHANGED <<stage, memmap, top, buffer, pages, heap_map, heapbuf, kmap, tables, blocks, lock, call, mode>>
      /\ held' = [held EXCEPT ![p] = @ \ {b}] /\ allocated' = allocated \ Run(b, 1)
  BY DEF frame_free, heap, pmm_free
<1>2. b \in 0..(top - 1) /\ top \in Nat
  BY Members DEF Inv, Shape
<1>3. allocated' = allocated \ {b}
  <2>1. Run(b, 1) = {b}
    BY <1>2 DEF Run
  <2> QED BY <1>1, <2>1
<1>4. held' \in [Procs -> SUBSET (0..(top - 1))] /\ held'[p] = held[p] \ {b}
      /\ \A q \in Procs \ {p} : held'[q] = held[q]
  BY <1>1, Members
<1>5. Heap'
  BY <1>1, HeapStill
<1>6. Shape'
  BY <1>1, <1>3, <1>4 DEF Inv, Shape
<1>7. Frames'
  <2>1. Mapped' = Mapped /\ Walked' = Walked /\ InHand' = InHand
    BY <1>1 DEF Mapped, Walked, InHand, Range
  <2>2. Unavailable' = Unavailable /\ Usable' = Usable
    BY <1>1, Unmoved
  <2>3. Apart'
    BY <1>1, <1>4, <2>1 DEF Inv, Frames, Apart
  <2>4. b \notin heapbuf \cup Mapped \cup Walked \cup InHand \cup Unavailable
    BY <1>1, <1>2 DEF Inv, Frames, Apart, Bits, Usable, Elsewhere
  <2>5. Elsewhere' = Elsewhere \ {b}
    <3>1. \A q \in Procs : q # p => b \notin held[q]
      BY <1>1 DEF Inv, Frames, Apart
    <3> QED BY <1>1, <1>4, <3>1 DEF Elsewhere
  <2>6. Bits'
    BY <1>1, <1>3, <2>1, <2>2, <2>4, <2>5 DEF Inv, Frames, Bits
  <2> QED BY <1>1, <2>3, <2>6 DEF Inv, Frames, IsInjective
<1> QED BY <1>1, <1>5, <1>6, <1>7, Runs

-------------------------------------------------------------------------------
(* Calls of the heap                                                         *)

\* The fields of the call under way.
LEMMA CallFields ==
  ASSUME Inv
  PROVE  /\ call.op \in {"idle", "alloc", "free"} /\ call.base \in Nat /\ call.count \in Nat
         /\ call.done \in Nat /\ call.frame \in Nat \cup {None} /\ call \in Calls
         /\ pages \in Nat /\ top \in Nat
BY DEF Inv, Shape, Calls

\* While the heap's lock is free there is no call.
LEMMA NoCall ==
  ASSUME Inv, Ran, lock = None
  PROVE  call = Idle /\ InHand = {} /\ InCall = {}
<1>1. call = Idle
  BY DEF Inv, Heap, Calling
<1> QED BY <1>1 DEF InHand, InCall, Idle, Run

\* A step that leaves the frames with their holders.
LEMMA FramesStill ==
  ASSUME Inv, Ran, UNCHANGED <<stage, memmap, top, heapbuf, kmap, tables, held, allocated, mode>>, InHand' = InHand
  PROVE  Frames'
<1>1. Mapped' = Mapped /\ Walked' = Walked /\ Elsewhere' = Elsewhere
  BY DEF Mapped, Walked, Range, Elsewhere
<1>2. Unavailable' = Unavailable /\ Usable' = Usable
  BY Unmoved
<1>3. Apart /\ Bits /\ IsInjective(kmap) /\ IsInjective(tables)
  BY DEF Inv, Frames
<1>4. Apart'
  BY <1>1, <1>3 DEF Apart
<1>5. Bits'
  BY <1>1, <1>2, <1>3 DEF Bits
<1> QED BY <1>3, <1>4, <1>5 DEF Frames

\* liballoc_alloc takes the lock: the run it has found is nobody's, because
\* every page in use has its bit set.
LEMMA LiballocAlloc ==
  ASSUME Inv, NEW p \in Procs, NEW n \in Requests, liballoc_alloc(p, n)
  PROVE  Inv'
<1> DEFINE b == heap_search(n)
<1>1. /\ Ran /\ lock = None /\ b # None /\ lock' = p /\ n \in Nat \ {0} /\ p # None
      /\ call' = [Idle EXCEPT !.op = "alloc", !.base = b, !.count = n]
      /\ UNCHANGED <<stage, memmap, top, buffer, allocated, pages, heap_map, heapbuf, kmap, tables, held, blocks, mode>>
  BY MemoryAssumption DEF liballoc_alloc
<1>2. b \in 0..(pages - n) /\ Run(b, n) \cap heap_map = {}
  <2>1. Room(n) # {} /\ b = Min(Room(n))
    BY <1>1, SearchExact, CallFields
  <2>2. Room(n) \in SUBSET Nat
    BY DEF Room
  <2>3. b \in Room(n)
    BY <2>1, <2>2, MinOf
  <2> QED BY <2>3 DEF Room
<1> HIDE DEF b
<1>3. /\ call'.op = "alloc" /\ call'.base = b /\ call'.count = n /\ call'.done = 0 /\ call'.frame = None /\ call' \in Calls
  <2>1. b \in Nat /\ n \in Nat
    BY <1>1, <1>2, CallFields
  <2> QED BY <1>1, <2>1 DEF Idle, Calls
<1>4. call = Idle /\ InHand = {} /\ InCall = {}
  BY <1>1, NoCall
<1>5. Shape'
  BY <1>1, <1>3 DEF Inv, Shape
<1>6. Frames'
  <2>1. InHand' = InHand
    BY <1>3, <1>4 DEF InHand
  <2> QED BY <1>1, <2>1, FramesStill
<1>7. /\ Pages /\ pages \in Nat
  BY <1>1, CallFields DEF Inv, Heap
<1>8. heap_map = {0, pages - 1} \cup DOMAIN kmap /\ DOMAIN kmap = Owned
  BY <1>4, <1>7 DEF Pages, Idle
<1>9. Owned' = Owned
  BY <1>1 DEF Owned
<1>10. Calling'
  <2>1. Run(b, n) \subseteq 1..(pages - 2)
    <3>1. \A k \in Run(b, n) : k \in 0..(pages - 1) /\ k # 0 /\ k # pages - 1
      BY <1>1, <1>2, <1>7, <1>8 DEF Run
    <3> QED BY <1>7, <3>1
  <2>2. Run(b, n) \cap Owned = {}
    BY <1>2, <1>8
  <2> QED BY <1>1, <1>3, <1>9, <2>1, <2>2 DEF Calling, Working
<1>11. Pages'
  <2>1. InCall' = {}
    BY <1>2, <1>3 DEF InCall, Run
  <2> QED BY <1>1, <1>3, <1>7, <1>8, <1>9, <2>1 DEF Pages
<1> QED BY <1>1, <1>5, <1>6, <1>10, <1>11, Runs DEF Heap

\* A frame for the next page is taken, and is in the call's hand.
LEMMA HeapTake == ASSUME Inv, NEW p \in Procs, heap_take(p) PROVE Inv'
<1> DEFINE b == pmm_search(1)
<1>1. /\ Ran /\ lock = p /\ call.op = "alloc" /\ call.frame = None
      /\ UNCHANGED <<stage, memmap, top, buffer>> /\ top \in Nat /\ stage = "run"
  BY CallFields DEF heap_take, Ran
<1>2. CASE Stop("heap_no_frames") \/ Stop("bitmap_assert")
  <2>1. \E why \in Modes \ {"ok"} : Stop(why)
    BY <1>2 DEF Modes
  <2> QED BY <1>1, <2>1, Stops
<1>3. CASE /\ b # None /\ ~Overruns(b, 1)
           /\ call' = [call EXCEPT !.frame = b]
           /\ UNCHANGED <<pages, heap_map, heapbuf, kmap, tables, held, blocks, lock>>
           /\ allocated' = allocated \cup Run(b, 1) /\ UNCHANGED mode
  <2>1. b \in 0..(top - 1) /\ b \notin allocated /\ allocated' = allocated \cup {b}
    BY <1>1, <1>3, SearchOne
  <2> HIDE DEF b
  <2>2. /\ call'.op = "alloc" /\ call'.base = call.base /\ call'.count = call.count /\ call'.done = call.done
        /\ call'.frame = b /\ call' \in Calls
    BY <1>1, <1>3, <2>1, CallFields DEF Calls
  <2>3. Shape'
    BY <1>1, <1>3, <2>1, <2>2 DEF Inv, Shape
  <2>4. Frames'
    <3>1. Mapped' = Mapped /\ Walked' = Walked /\ Elsewhere' = Elsewhere /\ InHand = {} /\ InHand' = {b}
      BY <1>1, <1>3, <2>1, <2>2 DEF Mapped, Walked, Range, Elsewhere, InHand, None
    <3>2. Unavailable' = Unavailable /\ Usable' = Usable
      BY <1>1, Unmoved
    <3>3. Apart /\ Bits /\ IsInjective(kmap) /\ IsInjective(tables)
      BY <1>1 DEF Inv, Frames
    <3>4. b \notin heapbuf \cup Mapped \cup Walked /\ (\A q \in Procs : b \notin held[q]) /\ b \in Usable
      BY <2>1, <3>3 DEF Bits, Elsewhere, Usable
    <3>5. Apart'
      BY <1>3, <3>1, <3>3, <3>4 DEF Apart
    <3>6. Bits'
      BY <1>3, <2>1, <3>1, <3>2, <3>3, <3>4 DEF Bits
    <3> QED BY <1>3, <3>3, <3>5, <3>6 DEF Frames
  <2>5. Heap'
    <3>1. InCall' = InCall /\ Working' = Working /\ Owned' = Owned
      BY <1>1, <1>3, <2>2 DEF InCall, Working, Owned
    <3>2. Calling /\ Pages
      BY <1>1 DEF Inv, Heap
    <3>3. Calling'
      BY <1>1, <1>3, <2>2, <3>1, <3>2 DEF Calling
    <3>4. Pages'
      BY <1>1, <1>3, <2>2, <3>1, <3>2 DEF Pages
    <3> QED BY <3>3, <3>4 DEF Heap
  <2> QED BY <1>1, <2>3, <2>4, <2>5, Runs
<1> QED BY <1>2, <1>3 DEF heap_take, pmm_try_alloc

\* liballoc_free takes the lock, and the run is the call's.
LEMMA LiballocFree ==
  ASSUME Inv, NEW p \in Procs, NEW b \in blocks, liballoc_free(p, b)
  PROVE  Inv'
<1>1. /\ Ran /\ lock = None /\ lock' = p /\ blocks' = blocks \ {b} /\ p # None
      /\ call' = [Idle EXCEPT !.op = "free", !.base = b[1], !.count = b[2]]
      /\ UNCHANGED <<stage, memmap, top, buffer, allocated, pages, heap_map, heapbuf, kmap, tables, held, mode>>
  BY MemoryAssumption DEF liballoc_free
<1>2. /\ b \in Nat \X Nat /\ b[1] \in Nat /\ b[2] \in Nat
  BY DEF Inv, Shape
<1>3. /\ call'.op = "free" /\ call'.base = b[1] /\ call'.count = b[2] /\ call'.done = 0 /\ call'.frame = None /\ call' \in Calls
  BY <1>1, <1>2 DEF Idle, Calls
<1>4. call = Idle /\ InHand = {} /\ InCall = {}
  BY <1>1, NoCall
<1>5. Shape'
  BY <1>1, <1>3 DEF Inv, Shape
<1>6. Frames'
  <2>1. InHand' = InHand
    BY <1>3, <1>4 DEF InHand
  <2> QED BY <1>1, <2>1, FramesStill
<1>7. Pages /\ pages \in Nat
  BY <1>1, CallFields DEF Inv, Heap
<1>8. heap_map = {0, pages - 1} \cup DOMAIN kmap /\ DOMAIN kmap = Owned
  BY <1>4, <1>7 DEF Pages, Idle
<1> DEFINE R == Run(b[1], b[2])
<1>9. b[2] > 0 /\ R \subseteq 1..(pages - 2) /\ \A a \in blocks : a # b => Run(a[1], a[2]) \cap R = {}
  BY <1>7 DEF Pages
<1>10. Working' = R /\ InCall' = R
  <2>1. b[1] + 0 = b[1] /\ b[2] - 0 = b[2]
    BY <1>2
  <2> QED BY <1>3, <2>1 DEF Working, InCall
<1> HIDE DEF R
<1>11. Owned = Owned' \cup R /\ Owned' \cap R = {}
  <2>1. R \subseteq 0..(pages - 1)
    BY <1>7, <1>9
  <2> QED BY <1>1, <1>9, <2>1 DEF Owned, R
<1>12. Calling'
  BY <1>1, <1>3, <1>9, <1>10, <1>11 DEF Calling
<1>13. Pages'
  BY <1>1, <1>3, <1>7, <1>8, <1>10, <1>11 DEF Pages
<1> QED BY <1>1, <1>5, <1>6, <1>12, <1>13, Runs DEF Heap

-------------------------------------------------------------------------------
(* A run is given back, page by page                                         *)

\* vmm_unmap: the page's frame comes into the call's hand.
LEMMA HeapUnmap == ASSUME Inv, NEW p \in Procs, heap_unmap(p) PROVE Inv'
<1> DEFINE page == call.base + call.done
           f == kmap[page]
<1>1. /\ Ran /\ lock = p /\ call.op = "free" /\ call.frame = None
      /\ call' = [call EXCEPT !.frame = f]
      /\ kmap' = Restrict(kmap, DOMAIN kmap \ {page})
      /\ UNCHANGED <<stage, memmap, top, buffer, allocated, pages, heap_map, heapbuf, tables, held, blocks, lock, mode>>
  BY DEF heap_unmap
<1>2. Calling /\ Pages /\ Apart /\ Bits /\ IsInjective(kmap) /\ IsInjective(tables)
  BY <1>1 DEF Inv, Heap, Frames
<1>3. /\ call.base \in Nat /\ call.count \in Nat /\ call.done \in Nat /\ call.done < call.count
      /\ pages \in Nat /\ page \in Nat
  BY <1>1, <1>2, CallFields DEF Calling
<1>4. page \in InCall /\ page \in DOMAIN kmap /\ page \notin Owned
  <2>1. page \in InCall
    BY <1>1, <1>3 DEF InCall, Run
  <2>2. page \in Working
    BY <1>3 DEF Working, Run
  <2> QED BY <1>1, <1>2, <2>1, <2>2 DEF Calling, Pages
<1>5. f \in Mapped /\ f \in 0..(top - 1) /\ f \in Nat
  <2>1. f \in Mapped
    BY <1>4 DEF Mapped, Range
  <2>2. Mapped \subseteq 0..(top - 1)
    BY DEF Inv, Shape, Mapped
  <2> HIDE DEF f
  <2>3. f \in 0..(top - 1)
    BY <2>1, <2>2
  <2>4. top \in Nat
    BY CallFields
  <2> QED BY <2>1, <2>3, <2>4
<1>6. DOMAIN kmap' = DOMAIN kmap \ {page} /\ \A x \in DOMAIN kmap' : kmap'[x] = kmap[x]
  BY <1>1 DEF Restrict
<1>7. Mapped' = Mapped \ {f} /\ IsInjective(kmap')
  BY <1>2, <1>4, <1>6 DEF Mapped, Range, IsInjective
<1>8. /\ call'.op = "free" /\ call'.base = call.base /\ call'.count = call.count /\ call'.done = call.done
      /\ call'.frame = f /\ call' \in Calls
  BY <1>1, <1>5, CallFields DEF Calls
<1>9. InCall' = InCall \ {page} /\ Working' = Working /\ Owned' = Owned
  <2>1. InCall' = Run(call.base + call.done + 1, call.count - call.done - 1)
    <3>1. call'.frame # None
      BY <1>5, <1>8 DEF None
    <3> QED BY <1>8, <3>1 DEF InCall
  <2>2. InCall = Run(call.base + call.done, call.count - call.done)
    BY <1>1 DEF InCall
  <2>3. InCall' = InCall \ {page}
    BY <1>3, <2>1, <2>2 DEF Run
  <2> QED BY <1>1, <1>8, <2>3 DEF Working, Owned
<1> HIDE DEF f, page
<1>10. Shape'
  <2>1. Range(kmap') \subseteq 0..(top - 1)
    <3>1. Mapped \subseteq 0..(top - 1)
      BY DEF Inv, Shape, Mapped
    <3> QED BY <1>7, <3>1 DEF Mapped
  <2> QED BY <1>1, <1>6, <1>8, <2>1 DEF Inv, Shape
<1>11. Frames'
  <2>1. Walked' = Walked /\ Elsewhere' = Elsewhere /\ InHand = {} /\ InHand' = {f}
    BY <1>1, <1>5, <1>8 DEF Walked, Range, Elsewhere, InHand, None
  <2>2. Unavailable' = Unavailable /\ Usable' = Usable
    BY <1>1, Unmoved
  <2>3. Apart'
    BY <1>1, <1>2, <1>5, <1>7, <2>1 DEF Apart
  <2>4. Bits'
    BY <1>1, <1>2, <1>5, <1>7, <2>1, <2>2 DEF Bits
  <2>5. IsInjective(tables')
    BY <1>1, <1>2
  <2> QED BY <1>7, <2>3, <2>4, <2>5 DEF Frames
<1>12. Calling'
  BY <1>1, <1>2, <1>8, <1>9 DEF Calling
<1>13. Pages'
  <2>1. DOMAIN kmap' = Owned' \cup InCall'
    BY <1>2, <1>4, <1>6, <1>9 DEF Pages
  <2>2. heap_map' = {0, pages' - 1} \cup DOMAIN kmap' \cup {page}
    BY <1>1, <1>2, <1>4, <1>6 DEF Pages
  <2>3. call'.frame # None /\ page = call'.base + call'.done
    BY <1>5, <1>8 DEF None, page
  <2> QED BY <1>1, <1>2, <1>8, <2>1, <2>2, <2>3 DEF Pages
<1> QED BY <1>1, <1>10, <1>11, <1>12, <1>13, Runs DEF Heap

\* A call goes on to its next page, or ends and gives the lock back.
LEMMA Advances ==
  ASSUME Inv, Ran, lock \in Procs, Advance
  PROVE  /\ call' \in Calls /\ InHand' = {} /\ lock' \in Procs \cup {None} /\ call'.frame = None
         /\ call.done + 1 = call.count => call' = Idle /\ lock' = None
         /\ call.done + 1 # call.count =>
              /\ call'.op = call.op /\ call'.base = call.base /\ call'.count = call.count
              /\ call'.done = call.done + 1 /\ lock' = lock
<1>1. CASE call.done + 1 = call.count
  BY <1>1 DEF Advance, Idle, Calls, InHand, None
<1>2. CASE call.done + 1 # call.count
  <2>1. call' = [call EXCEPT !.done = @ + 1, !.frame = None] /\ lock' = lock
    BY <1>2 DEF Advance
  <2>2. call.done + 1 \in Nat /\ call \in Calls
    BY CallFields
  <2>3. call' \in Calls
    BY <2>1, <2>2 DEF Calls
  <2>4. /\ call'.op = call.op /\ call'.base = call.base /\ call'.count = call.count
        /\ call'.done = call.done + 1 /\ call'.frame = None
    BY <2>1, <2>2 DEF Calls
  <2> QED BY <1>2, <2>1, <2>3, <2>4 DEF InHand
<1> QED BY <1>1, <1>2

\* The unmapped page's frame and bit are cleared.
LEMMA HeapRelease == ASSUME Inv, NEW p \in Procs, heap_release(p) PROVE Inv'
<1> DEFINE page == call.base + call.done
           f == call.frame
<1>1. /\ Ran /\ lock = p /\ call.op = "free" /\ f # None /\ Advance /\ p # None
      /\ allocated' = allocated \ Run(f, 1) /\ heap_map' = heap_map \ {page}
      /\ UNCHANGED <<stage, memmap, top, buffer, pages, heapbuf, kmap, tables, held, blocks, mode>>
  BY MemoryAssumption DEF heap_release, pmm_free
<1>2. Calling /\ Pages /\ Apart /\ Bits /\ IsInjective(kmap) /\ IsInjective(tables)
  BY <1>1 DEF Inv, Heap, Frames
<1>3. /\ call.base \in Nat /\ call.count \in Nat /\ call.done \in Nat /\ call.done < call.count
      /\ pages \in Nat /\ page \in Nat /\ f \in Nat
  BY <1>1, <1>2, CallFields DEF Calling
<1>4. /\ call' \in Calls /\ InHand' = {} /\ lock' \in Procs \cup {None} /\ call'.frame = None
      /\ call.done + 1 = call.count => call' = Idle /\ lock' = None
      /\ call.done + 1 # call.count =>
           /\ call'.op = "free" /\ call'.base = call.base /\ call'.count = call.count
           /\ call'.done = call.done + 1 /\ lock' = p
  BY <1>1, Advances
<1>5. page \in Working /\ page \notin DOMAIN kmap /\ page \notin {0, pages - 1}
  <2>1. page \in Working
    BY <1>3 DEF Working, Run
  <2>2. page \notin InCall
    BY <1>1, <1>3 DEF InCall, Run
  <2>3. page \in 1..(pages - 2)
    BY <1>1, <1>2, <2>1 DEF Calling
  <2> QED BY <1>1, <1>2, <1>3, <2>1, <2>2, <2>3 DEF Calling, Pages
<1>6. InCall' = InCall /\ Owned' = Owned
  <2>1. InCall = Run(call.base + call.done + 1, call.count - call.done - 1)
    BY <1>1 DEF InCall
  <2>2. CASE call.done + 1 = call.count
    <3>1. InCall = {}
      BY <1>3, <2>1, <2>2 DEF Run
    <3>2. InCall' = {}
      BY <1>4, <2>2 DEF InCall, Idle, Run
    <3> QED BY <1>1, <3>1, <3>2 DEF Owned
  <2>3. CASE call.done + 1 # call.count
    <3>1. InCall' = Run(call.base + (call.done + 1), call.count - (call.done + 1))
      BY <1>4, <2>3 DEF InCall
    <3>2. call.base + (call.done + 1) = call.base + call.done + 1 /\ call.count - (call.done + 1) = call.count - call.done - 1
      BY <1>3
    <3> QED BY <1>1, <2>1, <3>1, <3>2 DEF Owned
  <2> QED BY <2>2, <2>3
<1>7. allocated' = allocated \ {f}
  <2>1. Run(f, 1) = {f}
    BY <1>3 DEF Run
  <2> QED BY <1>1, <2>1
<1> HIDE DEF page
<1>8. Shape'
  BY <1>1, <1>4, <1>7 DEF Inv, Shape
<1>9. Frames'
  <2>1. Mapped' = Mapped /\ Walked' = Walked /\ Elsewhere' = Elsewhere /\ InHand = {f}
    BY <1>1 DEF Mapped, Walked, Range, Elsewhere, InHand
  <2>2. Unavailable' = Unavailable /\ Usable' = Usable
    BY <1>1, Unmoved
  <2>3. f \notin Unavailable \cup heapbuf \cup Mapped \cup Walked \cup Elsewhere
    BY <1>2, <2>1 DEF Apart, Bits, Usable, Elsewhere
  <2> HIDE DEF f
  <2>4. Apart'
    BY <1>1, <1>2, <1>4, <2>1 DEF Apart
  <2>5. Bits'
    BY <1>1, <1>2, <1>4, <1>7, <2>1, <2>2, <2>3 DEF Bits
  <2> QED BY <1>1, <1>2, <2>4, <2>5 DEF Frames
<1>10. Calling'
  <2>1. CASE call.done + 1 = call.count
    BY <1>4, <2>1 DEF Calling, Idle
  <2>2. CASE call.done + 1 # call.count
    <3>1. Working' = Working
      BY <1>4, <2>2 DEF Working
    <3> QED BY <1>1, <1>2, <1>3, <1>4, <1>6, <2>2, <3>1 DEF Calling
  <2> QED BY <2>1, <2>2
<1>11. Pages'
  <2>1. heap_map = {0, pages - 1} \cup DOMAIN kmap \cup {page}
    BY <1>1, <1>2 DEF Pages, page
  <2>2. heap_map' = {0, pages - 1} \cup DOMAIN kmap
    BY <1>1, <1>5, <2>1
  <2> QED BY <1>1, <1>2, <1>4, <1>6, <2>2 DEF Pages
<1> QED BY <1>1, <1>8, <1>9, <1>10, <1>11, Runs DEF Heap

-------------------------------------------------------------------------------
(* A run is mapped, page by page                                             *)

\* A run grows by its next page.
LEMMA RunNext == ASSUME NEW a \in Nat, NEW d \in Nat PROVE Run(a, d) \cup {a + d} = Run(a, d + 1)
BY DEF Run

\* A surjection takes every value.
LEMMA OntoRange == ASSUME NEW S, NEW T, NEW f \in Surjection(S, T) PROVE Range(f) = T
BY DEF Surjection, Range

\* The frames vmm_map is given for the tables it lacks are free, one for each
\* table if there are enough.
LEMMA NewTables ==
  ASSUME NEW free \in SUBSET Nat, IsFiniteSet(free), NEW missing, IsFiniteSet(missing)
  PROVE  LET given == Lowest(Cardinality(missing), free)
             g     == Assigned(missing, given)
         IN  /\ given \subseteq free
             /\ ~(Cardinality(given) < Cardinality(missing)) =>
                  g \in [missing -> given] /\ IsInjective(g) /\ Range(g) = given
<1> DEFINE n     == Cardinality(missing)
           c     == Cardinality(free)
           k     == Min({n, c})
           given == Lowest(n, free)
           g     == Assigned(missing, given)
<1>1. n \in Nat /\ c \in Nat
  BY FS_CardinalityType
<1>2. k \in {n, c} /\ k <= n /\ k <= c
  <2>1. {n, c} \in SUBSET Nat /\ {n, c} # {}
    BY <1>1
  <2> HIDE DEF n, c
  <2> QED BY <2>1, MinOf
<1>3. k \in 0..c
  BY <1>1, <1>2
<1>4. \E F \in kSubset(k, free) : \A x \in F, y \in free \ F : x < y
  <2> HIDE DEF k
  <2> QED BY <1>3, Smallest
<1>5. given \in kSubset(k, free)
  <2>1. given = CHOOSE F \in kSubset(k, free) : \A x \in F, y \in free \ F : x < y
    BY DEF Lowest
  <2> HIDE DEF k, given
  <2> QED BY <1>4, <2>1, Zenon
<1>6. given \subseteq free /\ Cardinality(given) = k /\ IsFiniteSet(given)
  <2> HIDE DEF given, k
  <2>1. given \subseteq free /\ Cardinality(given) = k
    BY <1>5 DEF kSubset
  <2> QED BY <2>1, FS_Subset
<1>7. ASSUME ~(Cardinality(given) < n)
      PROVE  g \in [missing -> given] /\ IsInjective(g) /\ Range(g) = given
  <2> HIDE DEF given, k
  <2>1. Cardinality(given) = Cardinality(missing)
    BY <1>1, <1>2, <1>6, <1>7
  <2>2. ExistsBijection(missing, given)
    BY <1>6, <2>1, FS_SameCardinalityBij
  <2>3. \E f \in [missing -> given] : IsInjective(f)
    BY <2>2 DEF ExistsBijection, Bijection, Injection
  <2>4. g \in [missing -> given] /\ IsInjective(g)
    BY <2>3, Zenon DEF Assigned
  <2> HIDE DEF g
  <2>5. g \in Injection(missing, given)
    BY <2>4 DEF Injection
  <2>6. g \in Surjection(missing, given)
    BY <1>6, <2>1, <2>5, FS_Injection
  <2>7. Range(g) = given
    BY <2>6, OntoRange
  <2> QED BY <2>4, <2>7
<1> QED BY <1>6, <1>7

\* Functions with separate domains and values, put together.
LEMMA JoinedFacts ==
  ASSUME NEW f, NEW g, DOMAIN f \cap DOMAIN g = {}
  PROVE  /\ DOMAIN Joined(f, g) = DOMAIN f \cup DOMAIN g
         /\ Range(Joined(f, g)) = Range(f) \cup Range(g)
         /\ IsInjective(f) /\ IsInjective(g) /\ Range(f) \cap Range(g) = {} => IsInjective(Joined(f, g))
<1> DEFINE j == Joined(f, g)
<1>1. /\ DOMAIN j = DOMAIN f \cup DOMAIN g
      /\ \A x \in DOMAIN f : j[x] = f[x]
      /\ \A x \in DOMAIN g : j[x] = g[x]
  BY DEF Joined
<1> HIDE DEF j
<1>2. Range(j) = Range(f) \cup Range(g)
  BY <1>1 DEF Range
<1>3. IsInjective(f) /\ IsInjective(g) /\ Range(f) \cap Range(g) = {} => IsInjective(j)
  BY <1>1 DEF Range, IsInjective
<1> QED BY <1>1, <1>2, <1>3 DEF j

\* vmm_map: the page gets its frame, and the tables it lacks get free ones.
LEMMA HeapMapPage == ASSUME Inv, NEW p \in Procs, heap_map_page(p) PROVE Inv'
<1> DEFINE page    == call.base + call.done
           missing == { <<s, page \div s>> : s \in Spans } \ DOMAIN tables
           free    == { b \in 0..(top - 1) : b \notin allocated }
           n       == Cardinality(missing)
           given   == Lowest(n, free)
           g       == Assigned(missing, given)
           h       == [x \in {page} |-> call.frame]
           last    == call.done + 1 = call.count
<1>1. /\ Ran /\ lock = p /\ call.op = "alloc" /\ call.frame # None /\ p # None
      /\ allocated' = allocated \cup given
      /\ UNCHANGED <<stage, memmap, top, buffer, pages, heapbuf, held>>
  BY MemoryAssumption DEF heap_map_page
<1>2. IF Cardinality(given) < n
      THEN mode' = "no_frames" /\ UNCHANGED <<kmap, tables, heap_map, blocks, lock, call>>
      ELSE /\ tables' = Joined(tables, g) /\ kmap' = Joined(kmap, h)
           /\ heap_map' = heap_map \cup {page}
           /\ blocks' = IF last THEN blocks \cup {<<call.base, call.count>>} ELSE blocks
           /\ Advance /\ UNCHANGED mode
  BY DEF heap_map_page
<1>3. Calling /\ Pages /\ Apart /\ Bits /\ IsInjective(kmap) /\ IsInjective(tables)
  BY <1>1 DEF Inv, Heap, Frames
<1>4. /\ call.base \in Nat /\ call.count \in Nat /\ call.done \in Nat /\ call.done < call.count
      /\ pages \in Nat /\ page \in Nat /\ call.frame \in Nat /\ top \in Nat
  BY <1>1, <1>3, CallFields DEF Calling
<1>5. /\ given \subseteq free
      /\ ~(Cardinality(given) < n) => g \in [missing -> given] /\ IsInjective(g) /\ Range(g) = given
  <2>1. free \in SUBSET Nat /\ IsFiniteSet(free)
    <3>1. IsFiniteSet(0..(top - 1))
      BY <1>4, FS_Interval
    <3>2. free \in SUBSET (0..(top - 1)) /\ free \in SUBSET Nat
      BY <1>4
    <3> HIDE DEF free
    <3> QED BY <3>1, <3>2, FS_Subset
  <2>2. IsFiniteSet(missing)
    <3> DEFINE all == { <<s, page \div s>> : s \in Spans }
               at  == [s \in Spans |-> <<s, page \div s>>]
    <3>1. at \in Surjection(Spans, all)
      BY DEF Surjection
    <3>2. IsFiniteSet(all)
      <4> HIDE DEF all, at
      <4> QED BY <3>1, MemoryAssumption, FS_Surjection
    <3>3. missing \in SUBSET all
      OBVIOUS
    <3> HIDE DEF all, missing
    <3> QED BY <3>2, <3>3, FS_Subset
  <2> HIDE DEF free, missing
  <2> QED BY <2>1, <2>2, NewTables, Zenon
<1>6. given \cap allocated = {} /\ given \subseteq 0..(top - 1) /\ allocated' \subseteq Nat
  <2>1. given \cap allocated = {} /\ given \subseteq 0..(top - 1)
    <3> HIDE DEF given
    <3> QED BY <1>5
  <2> HIDE DEF given
  <2>2. given \subseteq Nat /\ allocated \subseteq Nat
    BY <1>4, <2>1 DEF Inv, Shape
  <2> QED BY <1>1, <2>1, <2>2
<1>7. (DOMAIN g = missing /\ missing \cap DOMAIN tables = {}) \/ Cardinality(given) < n
  <2> HIDE DEF g, given
  <2> QED BY <1>5
<1>8. CASE Cardinality(given) < n
  <2> HIDE DEF given, n
  <2>1. mode' = "no_frames" /\ UNCHANGED <<kmap, tables, heap_map, blocks, lock, call>>
    BY <1>2, <1>8
  <2>2. Shape'
    BY <1>1, <1>6, <2>1 DEF Inv, Shape, Modes
  <2>3. Frames' /\ Heap'
    BY <2>1 DEF Frames, Heap, Ran
  <2> QED BY <1>1, <2>2, <2>3, Runs
<1>9. CASE ~(Cardinality(given) < n)
  <2>1. /\ tables' = Joined(tables, g) /\ kmap' = Joined(kmap, h)
        /\ heap_map' = heap_map \cup {page}
        /\ blocks' = IF last THEN blocks \cup {<<call.base, call.count>>} ELSE blocks
        /\ Advance /\ UNCHANGED mode
    <3> HIDE DEF given, n, g, h, page, last
    <3> QED BY <1>2, <1>9
  <2>2. DOMAIN g \cap DOMAIN tables = {} /\ IsInjective(g) /\ Range(g) = given
    <3> HIDE DEF given, n, g, missing
    <3> QED BY <1>5, <1>7, <1>9
  <2> HIDE DEF given, n, g, missing, free
  <2>3. /\ call' \in Calls /\ InHand' = {} /\ lock' \in Procs \cup {None} /\ call'.frame = None
        /\ last => call' = Idle /\ lock' = None
        /\ ~last => /\ call'.op = "alloc" /\ call'.base = call.base /\ call'.count = call.count
                    /\ call'.done = call.done + 1 /\ lock' = p
    BY <1>1, <2>1, Advances
  <2>4. page \in Working /\ page \notin DOMAIN kmap /\ page \in 1..(pages - 2)
    <3>1. page \in Working
      BY <1>4 DEF Working, Run
    <3>2. page \notin InCall
      BY <1>1, <1>4 DEF InCall, Run
    <3> QED BY <1>1, <1>3, <3>1, <3>2 DEF Calling, Pages
  <2>5. DOMAIN h = {page} /\ Range(h) = {call.frame} /\ IsInjective(h)
    BY DEF Range, IsInjective
  <2>6. call.frame \in Usable /\ InHand = {call.frame} /\ call.frame \notin Mapped /\ call.frame \in 0..(top - 1)
    BY <1>1, <1>3 DEF InHand, Bits, Apart, Usable
  <2> HIDE DEF h, page
  <2>7. DOMAIN kmap' = DOMAIN kmap \cup {page} /\ Mapped' = Mapped \cup {call.frame} /\ IsInjective(kmap')
    <3>1. DOMAIN kmap \cap DOMAIN h = {} /\ Range(kmap) \cap Range(h) = {}
      BY <2>4, <2>5, <2>6 DEF Mapped
    <3> QED BY <1>3, <2>1, <2>5, <3>1, JoinedFacts DEF Mapped
  <2>8. Walked' = Walked \cup given /\ IsInjective(tables')
    <3>1. Walked \cap given = {}
      BY <1>3, <1>6 DEF Bits
    <3> QED BY <1>3, <2>1, <2>2, <3>1, JoinedFacts DEF Walked
  <2>9. Frames'
    <3>1. Elsewhere' = Elsewhere /\ Unavailable' = Unavailable /\ Usable' = Usable
      BY <1>1, Unmoved DEF Elsewhere
    <3>2. /\ given \cap Unavailable = {} /\ given \cap heapbuf = {} /\ given \cap Mapped = {} /\ given \cap Walked = {}
          /\ given \cap InHand = {} /\ given \cap Elsewhere = {} /\ given \subseteq Usable
      BY <1>3, <1>6 DEF Bits, Usable
    <3>3. Apart'
      <4>1. \A q \in Procs : held[q] \cap given = {}
        BY <1>6, <3>2 DEF Elsewhere
      <4> QED BY <1>1, <1>3, <2>3, <2>6, <2>7, <2>8, <3>2, <4>1 DEF Apart
    <3>4. Bits'
      BY <1>1, <1>3, <2>3, <2>6, <2>7, <2>8, <3>1, <3>2 DEF Bits
    <3> QED BY <2>7, <2>8, <3>3, <3>4 DEF Frames
  <2>10. /\ InCall = Run(call.base, call.done) /\ InCall \cup {page} = Run(call.base, call.done + 1)
    <3>1. InCall = Run(call.base, call.done)
      BY <1>1 DEF InCall
    <3>2. Run(call.base, call.done) \cup {call.base + call.done} = Run(call.base, call.done + 1)
      BY <1>4, RunNext
    <3> QED BY <3>1, <3>2 DEF page
  <2>11. /\ blocks' \subseteq Nat \X Nat
         /\ \A b \in blocks' : b[2] > 0 /\ Run(b[1], b[2]) \subseteq 1..(pages - 2)
         /\ \A a, b \in blocks' : a # b => Run(a[1], a[2]) \cap Run(b[1], b[2]) = {}
         /\ Owned' = IF last THEN Owned \cup Working ELSE Owned
         /\ Working \subseteq 1..(pages - 2) /\ Working \cap Owned = {}
    <3>1. /\ Working \subseteq 1..(pages - 2) /\ Working \cap Owned = {} /\ blocks \subseteq Nat \X Nat
          /\ \A b \in blocks : b[2] > 0 /\ Run(b[1], b[2]) \subseteq 1..(pages - 2)
          /\ \A a, b \in blocks : a # b => Run(a[1], a[2]) \cap Run(b[1], b[2]) = {}
      BY <1>1, <1>3 DEF Calling, Pages, Inv, Shape
    <3>2. CASE ~last
      BY <1>1, <2>1, <3>1, <3>2 DEF Owned
    <3>3. CASE last
      <4> DEFINE c == <<call.base, call.count>>
      <4>1. c \in Nat \X Nat /\ c[1] = call.base /\ c[2] = call.count /\ c[2] > 0 /\ Run(c[1], c[2]) = Working
        BY <1>4 DEF Working
      <4>2. blocks' = blocks \cup {c}
        BY <2>1, <3>3
      <4> HIDE DEF c
      <4>3. \A b \in blocks : Run(b[1], b[2]) \cap Working = {}
        BY <1>4, <3>1 DEF Owned
      <4>4. Owned' = Owned \cup Working
        <5>1. Working \subseteq 0..(pages - 1)
          BY <1>4, <3>1
        <5> QED BY <1>1, <4>1, <4>2, <5>1 DEF Owned
      <4> QED BY <3>1, <3>3, <4>1, <4>2, <4>3, <4>4
    <3> QED BY <3>2, <3>3
  <2>12. Shape'
    <3>1. Range(kmap)' \subseteq 0..(top' - 1) /\ Range(tables)' \subseteq 0..(top' - 1)
      BY <1>1, <1>6, <2>6, <2>7, <2>8 DEF Mapped, Walked, Inv, Shape
    <3>2. heap_map' \subseteq 0..(pages' - 1) /\ DOMAIN kmap' \subseteq 0..(pages' - 1)
      BY <1>1, <1>4, <2>1, <2>4, <2>7 DEF Inv, Shape
    <3> QED BY <1>1, <1>6, <2>1, <2>3, <2>11, <3>1, <3>2 DEF Inv, Shape
  <2>13. heap_map' = {0, pages - 1} \cup DOMAIN kmap'
    BY <1>1, <1>3, <2>1, <2>7 DEF Pages
  <2>14. CASE last
    <3>1. InCall' = {} /\ Owned' = Owned \cup Working
      BY <2>3, <2>11, <2>14 DEF InCall, Idle, Run
    <3>2. Working = InCall \cup {page}
      BY <2>10, <2>14 DEF Working
    <3>3. DOMAIN kmap' = Owned' \cup InCall'
      BY <1>3, <2>7, <3>1, <3>2 DEF Pages
    <3>4. Pages'
      BY <1>1, <1>3, <2>3, <2>11, <2>13, <2>14, <3>3 DEF Pages, Idle
    <3>5. Calling'
      BY <2>3, <2>14 DEF Calling, Idle
    <3> QED BY <1>1, <2>9, <2>12, <3>4, <3>5, Runs DEF Heap
  <2>15. CASE ~last
    <3>1. InCall' = InCall \cup {page} /\ Owned' = Owned /\ Working' = Working
      <4>1. InCall' = Run(call.base, call.done + 1)
        BY <2>3, <2>15 DEF InCall
      <4> QED BY <2>3, <2>10, <2>11, <2>15, <4>1 DEF Working
    <3>2. DOMAIN kmap' = Owned' \cup InCall'
      BY <1>3, <2>7, <3>1 DEF Pages
    <3>3. Pages'
      BY <1>1, <1>3, <2>3, <2>11, <2>13, <2>15, <3>2 DEF Pages
    <3>4. Calling'
      BY <1>1, <1>4, <2>3, <2>11, <2>15, <3>1 DEF Calling
    <3> QED BY <1>1, <2>9, <2>12, <3>3, <3>4, Runs DEF Heap
  <2> QED BY <2>14, <2>15
<1> QED BY <1>8, <1>9

-------------------------------------------------------------------------------
(* The invariant and the theorems                                            *)

\* Every step keeps the invariant.
LEMMA NextInv == Inv /\ [Next]_vars => Inv'
<1> SUFFICES ASSUME Inv, [Next]_vars PROVE Inv'
  OBVIOUS
<1>1. CASE find_highest \/ reserve_bitmap \/ scan_bitmap \/ heap_load
  BY <1>1, FindHighest, ReserveBitmap, ScanBitmap, HeapLoad
<1>2. ASSUME NEW p \in Procs,
             \/ \E panics \in BOOLEAN : frame_alloc(p, panics)
             \/ \E b \in held[p] : frame_free(p, b)
             \/ \E n \in Requests : liballoc_alloc(p, n)
             \/ heap_take(p) \/ heap_map_page(p)
             \/ \E b \in blocks : liballoc_free(p, b)
             \/ heap_unmap(p) \/ heap_release(p)
      PROVE  Inv'
  BY <1>2, FrameAlloc, FrameFree, LiballocAlloc, HeapTake, HeapMapPage, LiballocFree, HeapUnmap, HeapRelease
<1>3. CASE UNCHANGED vars
  <2>1. UNCHANGED <<stage, memmap, top, buffer, allocated, pages, heap_map, heapbuf, kmap, tables, blocks, lock, call, held, mode>>
    BY <1>3 DEF vars, heap
  <2>2. Unavailable' = Unavailable /\ Usable' = Usable
    BY <2>1, Unmoved
  <2>3. Shape' /\ Fresh' /\ Scanned'
    BY <2>1, <2>2 DEF Inv, Shape, Fresh, Scanned
  <2>4. Frames' /\ Heap'
    <3>1. CASE Ran
      <4>1. InHand' = InHand
        BY <2>1 DEF InHand
      <4> QED BY <2>1, <3>1, <4>1, FramesStill, HeapStill
    <3>2. CASE ~Ran
      BY <2>1, <3>2 DEF Frames, Heap, Ran
    <3> QED BY <3>1, <3>2
  <2> QED BY <2>3, <2>4 DEF Inv
<1> QED BY <1>1, <1>2, <1>3 DEF Next

\* The invariant holds in every state of the memory managers, for any memory
\* map, any number of processors and any interleaving of their calls.
THEOREM Invariant == Spec => []Inv
BY Begin, NextInv, PTL DEF Spec

\* The holders FramesExact speaks of, by name ...
LEMMA HolderSets ==
  ASSUME NEW h \in Holders
  PROVE  \/ h = <<"bitmap", None, buffer>> \/ h = <<"heap_map", None, heapbuf>>
         \/ h = <<"heap", None, Mapped>> \/ h = <<"tables", None, Walked>> \/ h = <<"call", None, InHand>>
         \/ \E p \in Procs : h = <<"proc", p, held[p]>>
BY DEF Holders, Mapped, Walked, InHand

\* ... the frames they have together ...
LEMMA InUseSets ==
  ASSUME Inv
  PROVE  InUse = buffer \cup heapbuf \cup Mapped \cup Walked \cup InHand \cup Elsewhere
<1>1. ASSUME NEW b \in InUse PROVE b \in buffer \cup heapbuf \cup Mapped \cup Walked \cup InHand \cup Elsewhere
  <2>1. PICK h \in Holders : b \in h[3]
    BY DEF InUse
  <2>2. \A p \in Procs : held[p] \subseteq Elsewhere
    BY Members DEF Elsewhere
  <2>3. CASE \E p \in Procs : h = <<"proc", p, held[p]>>
    BY <2>1, <2>2, <2>3
  <2> QED BY <2>1, <2>3, HolderSets
<1>2. ASSUME NEW b \in buffer \cup heapbuf \cup Mapped \cup Walked \cup InHand PROVE b \in InUse
  <2>1. <<"bitmap", None, buffer>> \in Holders /\ <<"heap_map", None, heapbuf>> \in Holders
        /\ <<"heap", None, Mapped>> \in Holders /\ <<"tables", None, Walked>> \in Holders
        /\ <<"call", None, InHand>> \in Holders
    BY DEF Holders, Mapped, Walked, InHand
  <2>2. \E h \in Holders : b \in h[3]
    BY <2>1
  <2> QED BY <2>2 DEF InUse
<1>3. ASSUME NEW b \in Elsewhere PROVE b \in InUse
  <2>1. PICK p \in Procs : b \in held[p]
    BY DEF Elsewhere
  <2>2. <<"proc", p, held[p]>> \in Holders
    BY DEF Holders
  <2> QED BY <2>1, <2>2 DEF InUse
<1> QED BY <1>1, <1>2, <1>3

\* ... and that no two share one.
LEMMA HoldersApart ==
  ASSUME Inv, Ran, NEW g \in Holders, NEW h \in Holders, g # h
  PROVE  g[3] \cap h[3] = {}
<1>1. Apart /\ Bits
  BY DEF Inv, Frames
<1>2. /\ buffer \cap heapbuf = {} /\ buffer \cap Mapped = {} /\ buffer \cap Walked = {} /\ buffer \cap InHand = {}
      /\ \A p \in Procs : buffer \cap held[p] = {}
  <2>1. buffer \subseteq Unavailable
    BY DEF Inv, Scanned, Ran
  <2>2. \A p \in Procs : held[p] \subseteq Elsewhere
    BY Members DEF Elsewhere
  <2> QED BY <1>1, <2>1, <2>2 DEF Bits, Usable
<1> DEFINE Fixed == {buffer, heapbuf, Mapped, Walked, InHand}
<1>3. CASE \E p \in Procs : g = <<"proc", p, held[p]>>
  <2>1. PICK p \in Procs : g = <<"proc", p, held[p]>>
    BY <1>3
  <2>2. CASE \E q \in Procs : h = <<"proc", q, held[q]>>
    BY <1>1, <2>1, <2>2 DEF Apart
  <2>3. CASE h[3] \in Fixed
    BY <1>1, <1>2, <2>1, <2>3 DEF Apart
  <2> QED BY <2>2, <2>3, HolderSets
<1>4. CASE g[3] \in Fixed /\ \E q \in Procs : h = <<"proc", q, held[q]>>
  BY <1>1, <1>2, <1>4 DEF Apart
<1>5. CASE /\ \/ g = <<"bitmap", None, buffer>> \/ g = <<"heap_map", None, heapbuf>>
              \/ g = <<"heap", None, Mapped>> \/ g = <<"tables", None, Walked>> \/ g = <<"call", None, InHand>>
           /\ \/ h = <<"bitmap", None, buffer>> \/ h = <<"heap_map", None, heapbuf>>
              \/ h = <<"heap", None, Mapped>> \/ h = <<"tables", None, Walked>> \/ h = <<"call", None, InHand>>
  BY <1>1, <1>2, <1>5 DEF Apart
<1> QED BY <1>3, <1>4, <1>5, HolderSets

\* The invariant implies FramesExact where the heap's bitmap has real frames ...
LEMMA FramesFollow == Inv => (heapbuf \subseteq 0..(top - 1) => FramesExact)
<1> SUFFICES ASSUME Inv, heapbuf \subseteq 0..(top - 1) PROVE FramesExact
  OBVIOUS
<1>1. TypeOK
  <2>1. call.op \in {"idle", "alloc", "free"} /\ call.frame \in Nat \cup {None}
    BY CallFields
  <2> QED BY <2>1 DEF Inv, Shape, TypeOK, Stages, Modes
<1>2. ASSUME Ran
      PROVE  /\ IsInjective(kmap) /\ IsInjective(tables)
             /\ \A g, h \in Holders : g # h => g[3] \cap h[3] = {}
             /\ InUse \subseteq 0..(top - 1)
             /\ allocated = InUse \cup Unavailable
             /\ \A b \in InUse \ buffer : pmm__is_page_available(b)
  <2>1. IsInjective(kmap) /\ IsInjective(tables) /\ Bits /\ buffer \subseteq Unavailable
    BY <1>2 DEF Inv, Frames, Scanned, Ran
  <2>2. InUse = buffer \cup heapbuf \cup Mapped \cup Walked \cup InHand \cup Elsewhere
    BY InUseSets
  <2>3. Unavailable \subseteq 0..(top - 1) /\ Usable \subseteq 0..(top - 1)
    BY DEF Unavailable, Usable
  <2>4. InUse \subseteq 0..(top - 1) /\ allocated = InUse \cup Unavailable
    BY <2>1, <2>2, <2>3 DEF Bits
  <2>5. InUse \ buffer \subseteq Usable
    BY <2>1, <2>2 DEF Bits, Usable
  <2>6. \A b \in Usable : pmm__is_page_available(b)
    BY DEF Usable, Unavailable
  <2> QED BY <1>2, <2>1, <2>4, <2>5, <2>6, HoldersApart
<1> QED BY <1>1, <1>2 DEF FramesExact, Unavailable

\* ... and HeapExact.
LEMMA HeapFollows == Inv => HeapExact
<1> SUFFICES ASSUME Inv, Ran
             PROVE /\ \A n \in 1..pages :
                        heap_search(n) = IF Room(n) = {} THEN None ELSE Min(Room(n))
                   /\ \A a, b \in blocks : a # b => Run(a[1], a[2]) \cap Run(b[1], b[2]) = {}
                   /\ DOMAIN kmap = (UNION { Run(b[1], b[2]) : b \in blocks }) \cup InCall
                   /\ DOMAIN kmap \cap {0, pages - 1} = {}
                   /\ heap_map = {0, pages - 1} \cup DOMAIN kmap
                        \cup (IF call.op = "free" /\ call.frame # None THEN {call.base + call.done} ELSE {})
  BY DEF HeapExact, Room
<1>1. Calling /\ Pages /\ pages \in Nat
  BY CallFields DEF Inv, Heap
<1>2. ASSUME NEW n \in 1..pages PROVE heap_search(n) = IF Room(n) = {} THEN None ELSE Min(Room(n))
  BY <1>1, SearchExact
<1>3. Owned = UNION { Run(b[1], b[2]) : b \in blocks }
  <2>1. \A b \in blocks : Run(b[1], b[2]) \subseteq 0..(pages - 1)
    BY <1>1 DEF Pages
  <2>2. ASSUME NEW k \in Owned PROVE k \in UNION { Run(b[1], b[2]) : b \in blocks }
    BY DEF Owned
  <2>3. ASSUME NEW k \in UNION { Run(b[1], b[2]) : b \in blocks } PROVE k \in Owned
    BY <2>1 DEF Owned
  <2> QED BY <2>2, <2>3
<1>4. InCall \subseteq 1..(pages - 2)
  <2>1. CASE call.op = "idle"
    BY <1>1, <2>1 DEF Calling, InCall, Idle, Run
  <2>2. CASE call.op # "idle"
    <3>1. InCall \subseteq Working
      BY <1>1, <2>2, CallFields DEF Calling, InCall, Working, Run
    <3> QED BY <1>1, <2>2, <3>1 DEF Calling
  <2> QED BY <2>1, <2>2
<1>5. DOMAIN kmap \cap {0, pages - 1} = {}
  <2>1. Owned \subseteq 1..(pages - 2)
    BY <1>1 DEF Pages, Owned
  <2> QED BY <1>1, <1>4, <2>1 DEF Pages
<1>6. DOMAIN kmap = (UNION { Run(b[1], b[2]) : b \in blocks }) \cup InCall
  <2>1. DOMAIN kmap = Owned \cup InCall
    BY <1>1 DEF Pages
  <2> QED BY <1>3, <2>1
<1>7. /\ \A a, b \in blocks : a # b => Run(a[1], a[2]) \cap Run(b[1], b[2]) = {}
      /\ heap_map = {0, pages - 1} \cup DOMAIN kmap
           \cup (IF call.op = "free" /\ call.frame # None THEN {call.base + call.done} ELSE {})
  BY <1>1 DEF Pages
<1> QED BY <1>2, <1>5, <1>6, <1>7

\* Once pmm_load and heap_load are through, no frame has two holders, everything
\* held is usable memory, and the allocator's bits are exactly the frames held
\* and those that are not usable: nothing is lost and nothing is given away
\* twice.  The hypothesis is about one allocation only: pmm_try_alloc does not
\* end its search for the frames of the heap's bitmap at the top page, so with
\* spare bits behind the top and too short a free run below it those frames need
\* not exist.
THEOREM FramesStayExact == Spec => [](heapbuf \subseteq 0..(top - 1) => FramesExact)
BY Invariant, FramesFollow, PTL

\* The heap's bitmap marks its guard pages, the pages that are mapped and the
\* one being unmapped; the pages mapped are those of liballoc's runs and of the
\* call under way, the runs are apart, and the first-fit search finds a run
\* whenever there is one.
THEOREM HeapStaysExact == Spec => []HeapExact
BY Invariant, HeapFollows, PTL

-------------------------------------------------------------------------------
(* Machines with room for both bitmaps                                       *)

\* What pmm__find_highest_page makes of a memory map, and the frames that the
\* heap's bitmap takes.
TopPage(m)      == Max({0} \cup { m[i].base + m[i].length : i \in { j \in DOMAIN m : m[j].type # "reserved" } })
HeapMapPages(t) == BitmapPages(align_size_up(t, LargePages))

\* A usable entry of n pages.
WideEntry(n) == \E i \in DOMAIN memmap : memmap[i].type = "usable" /\ memmap[i].length >= n

\* The memory map has a usable entry for the allocator's bitmap and the heap's
\* together: about 2 pages for every 32768 of the machine.
Roomy == WideEntry(BitmapPages(TopPage(memmap)) + HeapMapPages(TopPage(memmap)))

\* n available frames below the top in a row.
Vacant(n) == \E b \in 0..top : b + n <= top /\ Run(b, n) \cap Unavailable = {}

\* What is left of that entry when the heap's bitmap is allocated.
Provided ==
  /\ stage = "find" => Roomy
  /\ stage = "reserve" => WideEntry(BitmapPages(top) + HeapMapPages(top))
  /\ stage \in {"scan", "heap"} /\ mode = "ok" => Vacant(HeapMapPages(top))
  /\ heapbuf \subseteq 0..(top - 1)

LEMMA ProvidedFirst == Init /\ Roomy => Provided
BY DEF Init, Provided

\* The search for the heap's bitmap ends at the row of frames at the latest.
LEMMA SearchBefore ==
  ASSUME top \in Nat, allocated = Unavailable, NEW n \in Nat, Vacant(n),
         pmm_search(n) # None
  PROVE  Run(pmm_search(n), n) \subseteq 0..(top - 1)
<1> DEFINE stops == { b \in 0..(top - 1) : Fits(b, n) \/ Overruns(b, n) }
<1>1. PICK b \in 0..top : b + n <= top /\ Run(b, n) \cap allocated = {}
  BY DEF Vacant
<1>2. stops # {} /\ pmm_search(n) = Min(stops) /\ stops \in SUBSET Nat
  BY DEF pmm_search
<1>3. Min(stops) \in stops /\ \A s \in stops : Min(stops) <= s
  <2> HIDE DEF stops
  <2> QED BY <1>2, MinOf
<1>4. pmm_search(n) \in 0..(top - 1)
  BY <1>2, <1>3
<1>5. CASE n = 0
  BY <1>4, <1>5 DEF Run
<1>6. CASE n # 0
  <2>1. b \in 0..(top - 1)
    BY <1>1, <1>6
  <2>2. Fits(b, n) \/ Overruns(b, n)
    <3>1. CASE \A k \in Run(b, n) : InBitmap(k)
      BY <1>1, <3>1 DEF Fits
    <3>2. CASE \E k \in Run(b, n) : ~InBitmap(k)
      <4>1. PICK k \in Run(b, n) : ~InBitmap(k)
        BY <3>2
      <4>2. Run(b, k - b) \subseteq Run(b, n)
        BY <2>1, <4>1 DEF Run
      <4> QED BY <1>1, <4>1, <4>2 DEF Overruns
    <3> QED BY <3>1, <3>2
  <2>3. pmm_search(n) <= b
    BY <1>2, <1>3, <2>1, <2>2
  <2> QED BY <1>1, <1>4, <2>1, <2>3 DEF Run
<1> QED BY <1>5, <1>6

\* Reserving the allocator's bitmap leaves a row of frames: in the entry's rest
\* if it came from the same entry, in the whole entry otherwise.
LEMMA ReserveLeaves ==
  ASSUME Inv, Provided, reserve_bitmap
  PROVE  Vacant(HeapMapPages(top))'
<1> DEFINE size == BitmapPages(top)
           h    == HeapMapPages(top)
           room == { i \in DOMAIN memmap : memmap[i].type = "usable" /\ memmap[i].length >= size }
           i == Min(room)
           e == [base |-> memmap[i].base + size, length |-> memmap[i].length - size, type |-> "usable"]
<1>1. /\ stage = "reserve" /\ UNCHANGED top
      /\ memmap \in MemMaps /\ memmap \in Seq(Entries) /\ top \in Nat /\ size \in Nat /\ h \in Nat
  <2>1. stage = "reserve" /\ UNCHANGED top
    BY DEF reserve_bitmap
  <2>2. memmap \in MemMaps /\ memmap \in Seq(Entries) /\ top \in Nat
    BY <2>1 DEF Inv, Scanned, Shape
  <2>3. align_size_up(top, LargePages) \in Nat
    BY <2>2, Aligned, MemoryAssumption
  <2> QED BY <2>1, <2>2, <2>3, BitmapRoom DEF HeapMapPages
<1>2. \A j \in DOMAIN memmap : memmap[j].base \in Nat /\ memmap[j].length \in Nat
  <2>1. \A j \in DOMAIN memmap : memmap[j] \in Entries
    BY <1>1
  <2> QED BY <2>1 DEF Entries
<1>3. PICK j \in DOMAIN memmap : memmap[j].type = "usable" /\ memmap[j].length >= size + h
  BY <1>1 DEF Provided, WideEntry
<1>4. memmap[j].base + memmap[j].length <= top /\ j \in Nat
  BY <1>1, <1>3 DEF Inv, Scanned
<1>5. j \in room
  BY <1>1, <1>2, <1>3
<1>6. memmap' = [memmap EXCEPT ![i] = e] /\ i \in DOMAIN memmap
  <2>1. memmap' = [memmap EXCEPT ![i] = e]
    BY <1>5 DEF reserve_bitmap, pmm__reserve_bitmap
  <2>2. room \in SUBSET Nat /\ room # {}
    BY <1>1, <1>5
  <2>3. i \in room
    <3> HIDE DEF room
    <3> QED BY <2>2, MinOf
  <2> QED BY <2>1, <2>3
<1> HIDE DEF room, i
<1>7. /\ DOMAIN memmap' = DOMAIN memmap /\ memmap'[i] = e
      /\ \A k \in DOMAIN memmap : k # i => memmap'[k] = memmap[k]
  <2> HIDE DEF e
  <2> QED BY <1>6, <1>1
<1> DEFINE b == IF j = i THEN memmap[j].base + size ELSE memmap[j].base
<1>8. /\ b \in Nat /\ b + h <= top /\ b >= memmap[j].base /\ b + h <= memmap[j].base + memmap[j].length
      /\ memmap[j].base \in Nat /\ memmap[j].length \in Nat
  <2>1. memmap[j].base \in Nat /\ memmap[j].length \in Nat
    BY <1>2, <1>3
  <2> HIDE DEF size, h, e
  <2>2. CASE j = i
    BY <1>1, <1>3, <1>4, <2>1, <2>2
  <2>3. CASE j # i
    BY <1>1, <1>3, <1>4, <2>1, <2>3
  <2> QED BY <2>2, <2>3
<1>9. ASSUME NEW x \in Run(b, h) PROVE pmm__is_page_available(x)'
  <2>1. x \in Nat /\ x >= b /\ x < b + h
    <3> HIDE DEF b, h
    <3> QED BY <1>1, <1>8 DEF Run
  <2>2. x \in RunOf(memmap'[j]) /\ memmap'[j].type = "usable"
    <3>1. CASE j = i
      <4>1. memmap'[j].base = b /\ memmap'[j].length = memmap[j].length - size /\ memmap'[j].type = "usable"
        BY <1>7, <3>1
      <4>2. memmap[j].length - size >= h /\ memmap[j].length - size \in Nat
        <5> HIDE DEF size, h
        <5> QED BY <1>1, <1>3, <1>8
      <4> HIDE DEF b, h, size
      <4> QED BY <1>1, <1>8, <2>1, <4>1, <4>2 DEF RunOf, Run
    <3>2. CASE j # i
      <4>1. memmap'[j] = memmap[j] /\ b = memmap[j].base
        BY <1>7, <3>2
      <4>2. memmap[j].length >= h
        <5> HIDE DEF size, h, b
        <5> QED BY <1>1, <1>3, <1>8
      <4> HIDE DEF b, h, size
      <4>3. x \in RunOf(memmap[j])
        BY <1>1, <1>8, <2>1, <4>1, <4>2 DEF RunOf, Run
      <4> QED BY <1>3, <4>1, <4>3
    <3> QED BY <3>1, <3>2
  <2>3. x \in RunOf(memmap[j])
    <3> HIDE DEF b, h
    <3> QED BY <1>1, <1>8, <2>1 DEF RunOf, Run
  <2>4. ASSUME NEW k \in 1..(j - 1) PROVE x \notin RunOf(memmap'[k])
    <3>1. k \in DOMAIN memmap /\ k # j
      BY <1>1, <1>3
    <3>2. x \notin RunOf(memmap[k])
      BY <1>1, <2>3, <3>1, MemoryAssumption
    <3>3. RunOf(memmap'[k]) \subseteq RunOf(memmap[k])
      <4>1. CASE k = i
        <5>1. memmap'[k].base = memmap[k].base + size /\ memmap'[k].length = memmap[k].length - size
          BY <1>7, <4>1
        <5>2. memmap[k].base \in Nat /\ memmap[k].length \in Nat
          BY <1>2, <3>1
        <5> HIDE DEF size, h, e, b
        <5>3. memmap'[k].base + memmap'[k].length = memmap[k].base + memmap[k].length /\ memmap'[k].base >= memmap[k].base
          BY <1>1, <5>1, <5>2
        <5>4. memmap'[k].base \in Nat /\ memmap'[k].length \in Int
          BY <1>1, <5>1, <5>2
        <5> QED BY <5>2, <5>3, <5>4 DEF RunOf, Run
      <4>2. CASE k # i
        BY <1>7, <3>1, <4>2
      <4> QED BY <4>1, <4>2
    <3> QED BY <3>2, <3>3
  <2> QED BY <1>7, <2>2, <2>4 DEF pmm__is_page_available
<1>10. Run(b, h) \cap Unavailable' = {}
  BY <1>9 DEF Unavailable
<1>11. HeapMapPages(top)' = h
  BY <1>1 DEF HeapMapPages, BitmapPages, BitmapBytes
<1>12. b \in 0..top
  <2> HIDE DEF b, h
  <2> QED BY <1>1, <1>8
<1> HIDE DEF b, h
<1> QED BY <1>1, <1>8, <1>10, <1>11, <1>12 DEF Vacant

\* Each step keeps the room that the heap's bitmap needs, and gives it frames
\* that exist.
LEMMA ProvidedNext == Inv /\ Provided /\ [Next]_vars => Provided'
<1> SUFFICES ASSUME Inv, Provided, [Next]_vars PROVE Provided'
  OBVIOUS
<1>1. CASE find_highest
  <2>1. stage = "find" /\ stage' = "reserve" /\ UNCHANGED <<memmap, heapbuf>> /\ heapbuf = {}
    BY <1>1 DEF find_highest, heap, Inv, Fresh
  <2>2. top' = TopPage(memmap)
    BY <1>1 DEF find_highest, pmm__find_highest_page, TopPage
  <2>3. WideEntry(BitmapPages(top') + HeapMapPages(top'))
    BY <2>1, <2>2 DEF Provided, Roomy
  <2> QED BY <2>1, <2>3 DEF Provided, WideEntry
<1>2. CASE reserve_bitmap
  <2>1. stage = "reserve" /\ stage' = "scan" /\ UNCHANGED heapbuf /\ heapbuf = {}
    BY <1>2 DEF reserve_bitmap, heap, Inv, Fresh
  <2>2. Vacant(HeapMapPages(top))'
    BY <1>2, ReserveLeaves
  <2> QED BY <2>1, <2>2 DEF Provided
<1>3. CASE scan_bitmap
  <2>1. stage = "scan" /\ mode = "ok" /\ stage' = "heap" /\ UNCHANGED <<memmap, top, heapbuf>>
    BY <1>3 DEF scan_bitmap, heap
  <2>2. Vacant(HeapMapPages(top))
    BY <2>1 DEF Provided
  <2>3. Vacant(HeapMapPages(top))'
    BY <2>1, <2>2, Unmoved DEF Vacant
  <2> QED BY <2>1, <2>3 DEF Provided
<1>4. CASE heap_load
  <2> DEFINE size == HeapMapPages(top)
             b    == pmm_search(size)
  <2>1. /\ stage = "heap" /\ mode = "ok" /\ stage' = "run" /\ UNCHANGED top /\ top \in Nat
        /\ allocated = Unavailable
    BY <1>4 DEF heap_load, Inv, Scanned, Shape
  <2>2. size \in Nat
    BY <2>1, Aligned, BitmapRoom, MemoryAssumption DEF HeapMapPages
  <2>3. \/ UNCHANGED heapbuf
        \/ b # None /\ heapbuf' = Run(b, size)
    BY <1>4 DEF heap_load, pmm_alloc, pmm_try_alloc, Stop, heap, HeapMapPages
  <2>4. Vacant(size)
    BY <2>1 DEF Provided
  <2>5. heapbuf' \subseteq 0..(top' - 1)
    <3>1. CASE UNCHANGED heapbuf
      BY <2>1, <3>1 DEF Provided
    <3>2. CASE b # None /\ heapbuf' = Run(b, size)
      <4> HIDE DEF size
      <4> QED BY <2>1, <2>2, <2>4, <3>2, SearchBefore
    <3> QED BY <2>3, <3>1, <3>2
  <2> QED BY <2>1, <2>5 DEF Provided
<1>5. ASSUME Ran, UNCHANGED <<stage, top, heapbuf>> PROVE Provided'
  BY <1>5 DEF Provided, Ran
<1>6. CASE \E p \in Procs :
             \/ \E panics \in BOOLEAN : frame_alloc(p, panics)
             \/ \E b \in held[p] : frame_free(p, b)
  <2>1. Ran /\ UNCHANGED <<stage, top, heapbuf>>
    BY <1>6 DEF frame_alloc, frame_free, pmm_alloc, pmm_try_alloc, Stop, heap
  <2> QED BY <1>5, <2>1
<1>7. CASE \E p \in Procs :
             \/ \E n \in Requests : liballoc_alloc(p, n)
             \/ heap_take(p) \/ heap_map_page(p)
             \/ \E b \in blocks : liballoc_free(p, b)
             \/ heap_unmap(p) \/ heap_release(p)
  <2>1. PICK p \in Procs :
             \/ \E n \in Requests : liballoc_alloc(p, n)
             \/ heap_take(p) \/ heap_map_page(p)
             \/ \E b \in blocks : liballoc_free(p, b)
             \/ heap_unmap(p) \/ heap_release(p)
    BY <1>7
  <2>2. CASE heap_take(p)
    BY <1>5, <2>2 DEF heap_take, pmm_try_alloc, Stop, heap
  <2>3. CASE heap_map_page(p)
    BY <1>5, <2>3 DEF heap_map_page
  <2>4. CASE heap_unmap(p) \/ heap_release(p)
    BY <1>5, <2>4 DEF heap_unmap, heap_release
  <2>5. CASE \E n \in Requests : liballoc_alloc(p, n)
    BY <1>5, <2>5 DEF liballoc_alloc
  <2>6. CASE \E b \in blocks : liballoc_free(p, b)
    BY <1>5, <2>6 DEF liballoc_free
  <2> QED BY <2>1, <2>2, <2>3, <2>4, <2>5, <2>6
<1>8. CASE UNCHANGED vars
  <2>1. UNCHANGED <<stage, memmap, top, heapbuf, mode>>
    BY <1>8 DEF vars, heap
  <2> QED BY <2>1, Unmoved DEF Provided, Roomy, WideEntry, Vacant
<1> QED BY <1>1, <1>2, <1>3, <1>4, <1>6, <1>7, <1>8 DEF Next

\* On every machine that has a usable entry for both bitmaps, the heap's bitmap
\* has frames that exist, and the frames are exact with no other hypothesis.
THEOREM RoomyFramesExact == Spec /\ Roomy => []FramesExact
<1>1. Inv /\ Provided => FramesExact
  BY FramesFollow DEF Provided
<1> QED BY <1>1, Invariant, ProvidedFirst, ProvidedNext, PTL DEF Spec

-------------------------------------------------------------------------------
(***************************************************************************)
(* The blocks the heap hands out: on a heap of any size, for any number of *)
(* callers, what a caller stored stays where its pointer finds it.  The    *)
(* invariant says that every block lies in a region of its own behind a    *)
(* header that adds up; a step builds or empties one region, and the       *)
(* blocks in the other regions do not change (Untouched, Replaced).        *)
(***************************************************************************)

\* The heap's cells, what they hold, and the headers.
Addrs    == 0..(Cells - 1)
Headers  == [base : Nat, size : Nat, align : Nat \ {0}, offset : Nat]
Contents == {Junk, Zero} \cup { Byte(x[1], x[2]) : x \in Owners \X Nat }
              \cup { HdrCell(x[1], x[2]) : x \in Headers \X Nat }

\* The owners that hold a block, and a block's header and region.
Holding  == { o \in Owners : ptr[o] # Null }
HdrOf(o) == mem[ptr[o] - HDR].hdr
Taken(o) == Region(HdrOf(o).base, HdrOf(o).size)

\* A header that adds up.
Sealed(h) ==
  /\ h \in Headers
  /\ is_alignment_valid(h.align) /\ h.align >= MaxAlign
  /\ h.offset < h.align /\ payload(h) % h.align = 0

\* An owner's block: header, payload and region.
Block(o) ==
  /\ Sealed(HdrOf(o)) /\ payload(HdrOf(o)) = ptr[o]
  /\ Len(want[o]) > 0 /\ HdrOf(o).size = total(Len(want[o]), HdrOf(o).align)
  /\ \A j \in 0..(HDR - 1) : mem[ptr[o] - HDR + j] = HdrCell(HdrOf(o), j)
  /\ \A i \in 1..Len(want[o]) : mem[ptr[o] + i - 1] = want[o][i]
  /\ Taken(o) \in regions

\* The regions lie in the heap and apart from each other.
Within(r) == r \in [base : Nat, size : Nat \ {0}] /\ r.base + r.size <= Cells
Clear(r, s) == Span(r.base, r.size) \cap Span(s.base, s.size) = {}
Regions ==
  /\ \A r \in regions : Within(r)
  /\ \A r, s \in regions : r # s => Clear(r, s)

\* Every block has a region of its own, and every region a block.
Kept ==
  /\ \A o, q \in Holding : o # q => Taken(o) # Taken(q)
  /\ \A r \in regions : \E o \in Holding : r = Taken(o)

Typed ==
  /\ mem \in [Addrs -> Contents] /\ ptr \in [Owners -> Nat \cup {Null}]
  /\ want \in [Owners -> Seq(Contents)]

\* The inductive invariant.
BInv == Typed /\ Regions /\ Kept /\ \A o \in Holding : Block(o)

-------------------------------------------------------------------------------
(* Headers                                                                   *)

\* The next multiple.
LEMMA AlignUp ==
  ASSUME NEW p \in Nat, NEW a \in Nat \ {0}
  PROVE  /\ align_ptr_up(p, a) \in p..(p + a - 1)
         /\ align_ptr_up(p, a) % a = 0
<1> DEFINE q == p \div a
           r == p % a
<1>1. q \in Nat /\ r \in 0..(a - 1) /\ p = a * q + r
  BY DivMod
<1>2. CASE r = 0
  BY <1>1, <1>2 DEF align_ptr_up
<1>3. CASE r # 0
  <2>1. align_ptr_up(p, a) = p + a - r
    BY <1>3 DEF align_ptr_up
  <2> HIDE DEF q, r
  <2>2. p + a - r = a * (q + 1) + 0
    <3>1. a * (q + 1) = a * q + a
      BY <1>1
    <3>2. a * q \in Int /\ a * (q + 1) \in Int
      BY <1>1
    <3> QED BY <1>1, <3>1, <3>2
  <2>3. (p + a - r) % a = 0
    <3>1. (a * (q + 1) + 0) % a = 0
      BY <1>1, DivUnique
    <3> QED BY <2>2, <3>1
  <2> QED BY <1>1, <1>3, <2>1, <2>3
<1> QED BY <1>2, <1>3

\* The header that a block of sz cells gets adds up, and the block lies in its
\* region.
LEMMA HeaderIs ==
  ASSUME NEW base \in Nat, NEW sz \in Nat \ {0}, NEW align \in Nat \ {0},
         is_alignment_valid(align), align >= MaxAlign
  PROVE  LET h == header(base, sz, align)
         IN  /\ Sealed(h) /\ h \in Headers
             /\ h.base = base /\ h.size = total(sz, align) /\ h.align = align
             /\ payload(h) \in Nat /\ payload(h) >= base + HDR
             /\ payload(h) + sz <= base + h.size
             /\ total(sz, align) \in Nat \ {0}
<1> DEFINE h == header(base, sz, align)
           raw == base + HDR
           up == align_ptr_up(raw, align)
<1>1. HDR \in Nat \ {0} /\ raw \in Nat
  BY BlocksAssumption
<1>2. up \in raw..(raw + align - 1) /\ up % align = 0
  BY <1>1, AlignUp
<1>3. h = [base |-> base, size |-> total(sz, align), align |-> align, offset |-> up - raw]
  BY DEF header
<1>4. total(sz, align) = sz + HDR + (align - 1)
  BY DEF total
<1> HIDE DEF up, h
<1>5. up - raw \in Nat /\ up - raw < align /\ total(sz, align) \in Nat \ {0}
  BY <1>1, <1>2, <1>4
<1>6. h.base = base /\ h.size = total(sz, align) /\ h.align = align /\ h.offset = up - raw /\ h \in Headers
  BY <1>3, <1>5 DEF Headers
<1>7. payload(h) = up
  BY <1>1, <1>2, <1>6 DEF payload
<1>8. Sealed(h)
  BY <1>2, <1>5, <1>6, <1>7 DEF Sealed
<1> QED BY <1>1, <1>2, <1>4, <1>5, <1>6, <1>7, <1>8 DEF h

\* Where a block's header and payload lie in its region.
LEMMA BlockIn ==
  ASSUME Typed, NEW o \in Holding, Block(o), Within(Taken(o))
  PROVE  LET h == HdrOf(o)
             n == Len(want[o])
         IN  /\ h.base \in Nat /\ h.offset \in Nat /\ h.align \in Nat \ {0} /\ h.size \in Nat \ {0}
             /\ n \in Nat \ {0} /\ ptr[o] \in Nat /\ ptr[o] = h.base + HDR + h.offset
             /\ h.offset < h.align /\ h.size = n + HDR + (h.align - 1)
             /\ h.base + h.size <= Cells
             /\ Taken(o).base = h.base /\ Taken(o).size = h.size
             /\ HDR \in Nat \ {0} /\ Cells \in Nat
             /\ \A j \in 0..(HDR - 1) : ptr[o] - HDR + j \in Span(h.base, h.size)
             /\ \A i \in 1..n : ptr[o] + i - 1 \in Span(h.base, h.size)
             /\ Span(h.base, h.size) \subseteq Addrs
<1> DEFINE h == HdrOf(o)
           n == Len(want[o])
<1>1. HDR \in Nat \ {0} /\ Cells \in Nat
  BY BlocksAssumption
<1>2. h \in Headers /\ h.offset < h.align /\ payload(h) = ptr[o] /\ n > 0
      /\ h.size = total(n, h.align)
  BY DEF Block, Sealed
<1>3. h.base \in Nat /\ h.offset \in Nat /\ h.align \in Nat \ {0} /\ h.size \in Nat
  BY <1>2 DEF Headers
<1>4. Taken(o).base = h.base /\ Taken(o).size = h.size
  BY DEF Taken, Region
<1>5. h.size # 0 /\ h.base + h.size <= Cells
  BY <1>4 DEF Within
<1>6. n \in Nat
  BY DEF Typed, Holding
<1>7. ptr[o] = h.base + HDR + h.offset /\ h.size = n + HDR + (h.align - 1)
  BY <1>2 DEF payload, total
<1> HIDE DEF h, n
<1>8. /\ \A j \in 0..(HDR - 1) : ptr[o] - HDR + j \in Span(h.base, h.size)
      /\ \A i \in 1..n : ptr[o] + i - 1 \in Span(h.base, h.size)
  BY <1>1, <1>2, <1>3, <1>6, <1>7 DEF Span
<1>9. Span(h.base, h.size) \subseteq Addrs
  BY <1>1, <1>3, <1>5 DEF Span, Addrs
<1>10. h.size \in Nat \ {0} /\ n \in Nat \ {0} /\ ptr[o] \in Nat /\ h.offset < h.align
  BY <1>1, <1>2, <1>3, <1>5, <1>6, <1>7
<1> QED BY <1>1, <1>3, <1>4, <1>5, <1>7, <1>8, <1>9, <1>10 DEF h, n

\* What the cells of a header hold.
LEMMA HdrCellIs == ASSUME NEW h, NEW j PROVE HdrCell(h, j).kind = "hdr" /\ HdrCell(h, j).hdr = h
BY DEF HdrCell

\* heap__hdr_for finds a block's header.
LEMMA Found ==
  ASSUME Typed, NEW o \in Holding, Block(o), Within(Taken(o))
  PROVE  heap__hdr_for(ptr[o]) = HdrOf(o) /\ HdrOf(o) # NoHdr
<1> DEFINE h == HdrOf(o)
           p == ptr[o]
           n == Len(want[o])
<1>1. /\ h.base \in Nat /\ h.offset \in Nat /\ h.align \in Nat \ {0} /\ h.size \in Nat \ {0}
      /\ n \in Nat \ {0} /\ p \in Nat /\ p = h.base + HDR + h.offset
      /\ h.offset < h.align /\ h.size = n + HDR + (h.align - 1)
      /\ h.base + h.size <= Cells /\ HDR \in Nat \ {0} /\ Cells \in Nat
  BY BlockIn
<1>2. \A j \in 0..(HDR - 1) : mem[p - HDR + j] = HdrCell(h, j)
  BY DEF Block
<1>3. is_alignment_valid(h.align) /\ h.align >= MaxAlign /\ p % h.align = 0
  BY DEF Block, Sealed
<1>4. \A j \in 0..(HDR - 1) : mem[p - HDR + j].kind = "hdr"
  BY <1>2, HdrCellIs
<1>5. mem[p - HDR].hdr = h
  BY DEF HdrOf
<1> HIDE DEF h, p, n
<1>6. /\ p >= HDR /\ p < Cells /\ h.size >= HDR + h.align - 1 /\ h.base \in 0..(Cells - 1)
      /\ h.size <= Cells - h.base /\ h.base + HDR + h.offset = p
  BY <1>1
<1>7. heap__hdr_for(p) = h
  BY <1>1, <1>2, <1>3, <1>4, <1>5, <1>6 DEF heap__hdr_for
<1>8. h # NoHdr
  <2>1. NoHdr.base = Null
    BY DEF NoHdr
  <2> QED BY <1>1, <2>1 DEF Null
<1> QED BY <1>7, <1>8 DEF h, p
-------------------------------------------------------------------------------
(* Moving cells                                                              *)

\* What a loop that copies n cells gives after k rounds, if they were apart.
CopyBy(f, m, dst, src, n) ==
  [i \in 0..n |->
     IF i = 0 THEN m
     ELSE [f[i - 1] EXCEPT ![dst + (IF dst < src THEN i - 1 ELSE n - i)]
                             = f[i - 1][src + (IF dst < src THEN i - 1 ELSE n - i)]]]
Copies(m, dst, src, n) == CHOOSE f : f = CopyBy(f, m, dst, src, n)

\* memmove is its loop, run to its end.
LEMMA MemmoveLoop ==
  ASSUME NEW m, NEW dst, NEW src, NEW n
  PROVE  memmove(m, dst, src, n) = Copies(m, dst, src, n)[n]
BY Zenon DEF memmove, Copies, CopyBy

\* memmove gives each cell of the target what its cell of the source held before,
\* however the two overlap, and changes no other cell.
LEMMA MemmoveIs ==
  ASSUME NEW D \in SUBSET Int, NEW V, NEW m \in [D -> V], NEW dst \in Int, NEW src \in Int, NEW n \in Nat,
         Span(dst, n) \subseteq D, Span(src, n) \subseteq D
  PROVE  memmove(m, dst, src, n) = [a \in D |-> IF a \in Span(dst, n) THEN m[src + (a - dst)] ELSE m[a]]
<1> DEFINE S == [D -> V]
           at(i) == IF dst < src THEN i - 1 ELSE n - i
           t == [x \in S \X Nat |-> IF x[2] \in 1..n THEN [x[1] EXCEPT ![dst + at(x[2])] = x[1][src + at(x[2])]]
                                    ELSE x[1]]
<1>1. \A i \in 1..n : at(i) \in 0..(n - 1) /\ dst + at(i) \in D /\ src + at(i) \in D
  BY DEF Span
<1>2. t \in [S \X Nat -> S]
  <2> SUFFICES ASSUME NEW x \in S \X Nat PROVE (IF x[2] \in 1..n THEN [x[1] EXCEPT ![dst + at(x[2])] = x[1][src + at(x[2])]] ELSE x[1]) \in S
    OBVIOUS
  <2>1. CASE x[2] \in 1..n
    <3>1. x[1] \in S /\ dst + at(x[2]) \in D /\ src + at(x[2]) \in D
      BY <1>1, <2>1
    <3> HIDE DEF at
    <3> QED BY <2>1, <3>1
  <2>2. CASE x[2] \notin 1..n
    BY <2>2
  <2> QED BY <2>1, <2>2
<1>3. \A g \in S, i \in 1..n : t[<<g, i>>] = [g EXCEPT ![dst + at(i)] = g[src + at(i)]]
  <2> SUFFICES ASSUME NEW g \in S, NEW i \in 1..n PROVE t[<<g, i>>] = [g EXCEPT ![dst + at(i)] = g[src + at(i)]]
    OBVIOUS
  <2>1. <<g, i>> \in S \X Nat /\ <<g, i>>[1] = g /\ <<g, i>>[2] = i
    OBVIOUS
  <2> HIDE DEF at, S
  <2> QED BY <2>1
<1> HIDE DEF t
<1>4. PICK f : Stepwise(f, S, m, t, n)
  BY <1>2, StepsExist
<1>5. f \in [0..n -> S] /\ f[0] = m
  BY <1>4 DEF Stepwise
<1>6. ASSUME NEW i \in 1..n
      PROVE  /\ f[i - 1] \in S
             /\ f[i] = [f[i - 1] EXCEPT ![dst + at(i)] = f[i - 1][src + at(i)]]
  <2>1. f[i - 1] \in S
    BY <1>5
  <2>2. f[i] = t[<<f[i - 1], i>>]
    BY <1>4 DEF Stepwise
  <2> HIDE DEF at, S
  <2> QED BY <1>3, <2>1, <2>2
<1>7. f = CopyBy(f, m, dst, src, n)
  <2>1. f = [i \in 0..n |-> f[i]]
    BY <1>5
  <2>2. ASSUME NEW i \in 0..n
        PROVE  f[i] = IF i = 0 THEN m ELSE [f[i - 1] EXCEPT ![dst + at(i)] = f[i - 1][src + at(i)]]
    <3>1. i = 0 \/ i \in 1..n
      OBVIOUS
    <3> HIDE DEF at, S
    <3> QED BY <1>5, <1>6, <3>1
  <2> QED BY <2>1, <2>2 DEF CopyBy
<1> DEFINE g == Copies(m, dst, src, n)
<1>8. g = CopyBy(g, m, dst, src, n)
  BY <1>7, Zenon DEF Copies
<1> HIDE DEF g
<1>9. /\ g[0] = m
      /\ \A i \in 1..n : g[i] = [g[i - 1] EXCEPT ![dst + at(i)] = g[i - 1][src + at(i)]]
  <2>1. \A i \in 0..n : g[i] = IF i = 0 THEN m ELSE [g[i - 1] EXCEPT ![dst + at(i)] = g[i - 1][src + at(i)]]
    BY <1>8, Zenon DEF CopyBy
  <2>2. \A i \in 1..n : i \in 0..n /\ i # 0
    OBVIOUS
  <2>3. 0 \in 0..n
    OBVIOUS
  <2> HIDE DEF at
  <2> QED BY <2>1, <2>2, <2>3
\* The cells moved after k rounds.
<1> DEFINE first(k) == IF dst < src THEN dst ELSE dst + n - k
           part(k)  == [a \in D |-> IF a \in Span(first(k), k) THEN m[src + (a - dst)] ELSE m[a]]
           P == { k \in 0..n : g[k] = part(k) }
<1>10. 0 \in P
  <2>1. Span(first(0), 0) = {}
    BY DEF Span
  <2> HIDE DEF first
  <2>2. part(0) = m
    <3>1. m = [a \in D |-> m[a]]
      OBVIOUS
    <3> QED BY <2>1, <3>1
  <2> HIDE DEF part
  <2> QED BY <1>9, <2>2
<1>11. ASSUME NEW i \in 1..n, i - 1 \in P PROVE i \in P
  <2> DEFINE x == dst + at(i)
             y == src + at(i)
  <2>1. x \in D /\ y \in D /\ x \in Int /\ y \in Int /\ y = src + (x - dst)
    BY <1>1
  <2>2. g[i - 1] = part(i - 1) /\ g[i] = [g[i - 1] EXCEPT ![x] = g[i - 1][y]]
    BY <1>9, <1>11
  <2>3. /\ y \notin Span(first(i - 1), i - 1) /\ x \notin Span(first(i - 1), i - 1)
        /\ \A a \in D : a \in Span(first(i), i) <=> a = x \/ a \in Span(first(i - 1), i - 1)
    BY DEF Span
  <2> HIDE DEF x, y, at, first
  <2>4. g[i - 1][y] = m[y] /\ DOMAIN g[i - 1] = D
    BY <2>1, <2>2, <2>3
  <2>5. \A a \in D : g[i][a] = IF a = x THEN m[y] ELSE part(i - 1)[a]
    BY <2>1, <2>2, <2>4
  <2>6. \A a \in D : g[i][a] = IF a \in Span(first(i), i) THEN m[src + (a - dst)] ELSE m[a]
    BY <2>1, <2>3, <2>5
  <2>7. g[i] = [a \in D |-> g[i][a]]
    BY <2>2, <2>4
  <2>8. g[i] = part(i)
    BY <2>6, <2>7
  <2> HIDE DEF part
  <2> QED BY <2>8
<1> HIDE DEF P
<1>12. n \in P
  BY <1>10, <1>11, StepsKeep
<1>13. g[n] = part(n)
  BY <1>12 DEF P
<1>14. first(n) = dst
  OBVIOUS
<1> HIDE DEF first
<1>15. g[n] = [a \in D |-> IF a \in Span(dst, n) THEN m[src + (a - dst)] ELSE m[a]]
  BY <1>13, <1>14
<1> QED BY <1>15, MemmoveLoop DEF g

\* A move within the heap.
LEMMA Moved ==
  ASSUME NEW m \in [Addrs -> Contents], NEW dst \in Nat, NEW src \in Nat, NEW n \in Nat,
         Span(dst, n) \subseteq Addrs, Span(src, n) \subseteq Addrs
  PROVE  /\ memmove(m, dst, src, n) \in [Addrs -> Contents]
         /\ \A a \in Addrs : memmove(m, dst, src, n)[a] = IF a \in Span(dst, n) THEN m[src + (a - dst)] ELSE m[a]
<1>1. Addrs \in SUBSET Int
  BY DEF Addrs
<1>2. memmove(m, dst, src, n) = [a \in Addrs |-> IF a \in Span(dst, n) THEN m[src + (a - dst)] ELSE m[a]]
  <2> HIDE DEF Addrs
  <2> QED BY <1>1, MemmoveIs
<1>3. \A a \in Span(dst, n) : src + (a - dst) \in Addrs
  <2> SUFFICES ASSUME NEW a \in Span(dst, n) PROVE src + (a - dst) \in Addrs
    OBVIOUS
  <2>1. src + (a - dst) \in Span(src, n)
    BY DEF Span
  <2> QED BY <2>1
<1> QED BY <1>2, <1>3

-------------------------------------------------------------------------------
(* Blocks that a step leaves alone, and the one it does not                  *)

\* A block whose region no step has touched.
LEMMA Untouched ==
  ASSUME Typed, NEW q \in Holding, Block(q), Within(Taken(q)),
         \A a \in Span(Taken(q).base, Taken(q).size) : mem'[a] = mem[a],
         ptr'[q] = ptr[q], want'[q] = want[q], Taken(q) \in regions'
  PROVE  HdrOf(q)' = HdrOf(q) /\ Taken(q)' = Taken(q) /\ Block(q)'
<1> DEFINE h == HdrOf(q)
           n == Len(want[q])
<1>1. /\ n \in Nat \ {0} /\ ptr[q] \in Nat /\ HDR \in Nat \ {0}
      /\ Taken(q).base = h.base /\ Taken(q).size = h.size
      /\ \A j \in 0..(HDR - 1) : ptr[q] - HDR + j \in Span(h.base, h.size)
      /\ \A i \in 1..n : ptr[q] + i - 1 \in Span(h.base, h.size)
  BY BlockIn
<1>2. \A a \in Span(h.base, h.size) : mem'[a] = mem[a]
  BY <1>1
<1>3. mem[ptr[q] - HDR].hdr = h
  BY DEF HdrOf
<1>4. ptr[q] - HDR \in Span(h.base, h.size)
  <2> HIDE DEF h
  <2> QED BY <1>1
<1>5. HdrOf(q)' = h
  <2> HIDE DEF h
  <2> QED BY <1>2, <1>3, <1>4 DEF HdrOf
<1>6. Taken(q)' = Taken(q)
  BY <1>5 DEF Taken
<1>7. /\ Sealed(h) /\ payload(h) = ptr[q] /\ n > 0 /\ h.size = total(n, h.align)
      /\ \A j \in 0..(HDR - 1) : mem[ptr[q] - HDR + j] = HdrCell(h, j)
      /\ \A i \in 1..n : mem[ptr[q] + i - 1] = want[q][i]
  BY DEF Block
<1> HIDE DEF h, n
<1>8. /\ \A j \in 0..(HDR - 1) : mem'[ptr[q] - HDR + j] = HdrCell(h, j)
      /\ \A i \in 1..n : mem'[ptr[q] + i - 1] = want[q][i]
  BY <1>1, <1>2, <1>7
<1>9. n = Len(want'[q])
  BY DEF n
<1>10. Block(q)'
  BY <1>5, <1>6, <1>7, <1>8, <1>9 DEF Block
<1> QED BY <1>5, <1>6, <1>10 DEF h

\* A step for one owner: its region, if it has one, goes, another one may come,
\* and no cell outside of the two changes.
LEMMA Replaced ==
  ASSUME BInv, NEW o \in Owners, Typed',
         NEW G \in SUBSET regions, NEW N, \A r \in N : Within(r),
         \A r, s \in N : r = s, \A r \in N : \A s \in regions \ G : Clear(r, s),
         o \in Holding => G = {Taken(o)}, o \notin Holding => G = {},
         regions' = (regions \ G) \cup N,
         \A a \in Addrs : mem'[a] # mem[a] => \E r \in G \cup N : a \in Span(r.base, r.size),
         \A q \in Owners \ {o} : ptr'[q] = ptr[q] /\ want'[q] = want[q],
         o \in Holding' => Block(o)' /\ N = {Taken(o)'},
         o \notin Holding' => N = {}
  PROVE  BInv'
<1>1. ASSUME NEW q \in Holding, q # o
      PROVE  Taken(q) \in regions \ G /\ Taken(q)' = Taken(q) /\ Block(q)' /\ q \in Holding'
  <2>1. Block(q) /\ Taken(q) \in regions /\ Within(Taken(q)) /\ Typed
    BY DEF BInv, Block, Regions
  <2>2. Taken(q) \notin G
    <3>1. CASE o \in Holding
      BY <1>1, <3>1 DEF BInv, Kept
    <3>2. CASE o \notin Holding
      BY <3>2
    <3> QED BY <3>1, <3>2
  <2>3. \A r \in G \cup N : Clear(r, Taken(q))
    <3>1. \A r \in G : Clear(r, Taken(q))
      BY <2>1, <2>2 DEF BInv, Regions
    <3>2. \A r \in N : Clear(r, Taken(q))
      BY <2>1, <2>2
    <3> QED BY <3>1, <3>2
  <2>4. Span(Taken(q).base, Taken(q).size) \subseteq Addrs
    BY <2>1, BlockIn
  <2>5. \A a \in Span(Taken(q).base, Taken(q).size) : mem'[a] = mem[a]
    BY <2>3, <2>4 DEF Clear
  <2>6. q \in Owners \ {o}
    BY <1>1 DEF Holding
  <2>7. Taken(q)' = Taken(q) /\ Block(q)'
    BY <2>1, <2>2, <2>5, <2>6, Untouched
  <2> QED BY <2>1, <2>2, <2>6, <2>7 DEF Holding
<1>2. ASSUME NEW q \in Holding', q # o PROVE q \in Holding
  BY <1>2 DEF Holding
<1>3. Regions'
  <2>1. \A r \in regions' : Within(r)
    BY DEF BInv, Regions
  <2>2. ASSUME NEW r \in regions', NEW s \in regions', r # s PROVE Clear(r, s)
    <3>1. Clear(r, s) <=> Clear(s, r)
      BY DEF Clear
    <3>2. CASE r \in N
      <4>1. s \in regions \ G
        BY <2>2, <3>2
      <4> QED BY <3>2, <4>1
    <3>3. CASE s \in N
      <4>1. r \in regions \ G
        BY <2>2, <3>3
      <4> QED BY <3>1, <3>3, <4>1
    <3>4. CASE r \in regions /\ s \in regions
      BY <2>2, <3>4 DEF BInv, Regions
    <3> QED BY <3>2, <3>3, <3>4
  <2>3. \A r : Within(r)' <=> Within(r)
    BY DEF Within
  <2>4. \A r, s : Clear(r, s)' <=> Clear(r, s)
    BY DEF Clear, Span
  <2> QED BY <2>1, <2>2 DEF Regions, Within, Clear, Span
<1>4. Kept'
  <2>1. ASSUME NEW p \in Holding', NEW q \in Holding', p # q PROVE Taken(p)' # Taken(q)'
    <3>1. ASSUME NEW u \in Holding', u # o, o \in Holding' PROVE Taken(u)' # Taken(o)'
      <4>1. u \in Holding
        BY <1>2, <3>1
      <4>2. Taken(u) \in regions \ G /\ Taken(u)' = Taken(u) /\ Within(Taken(u))
        BY <1>1, <3>1, <4>1 DEF BInv, Regions
      <4>3. Taken(o)' \in N
        BY <3>1
      <4>4. Clear(Taken(o)', Taken(u)) /\ Within(Taken(o)')
        BY <4>2, <4>3
      <4>5. Taken(u).base \in Span(Taken(u).base, Taken(u).size)
        BY <4>2 DEF Within, Span
      <4> QED BY <4>2, <4>4, <4>5 DEF Clear
    <3>2. CASE p # o /\ q # o
      <4>1. p \in Holding /\ q \in Holding
        BY <1>2, <3>2
      <4> QED BY <1>1, <2>1, <3>2, <4>1 DEF BInv, Kept
    <3>3. CASE p = o
      BY <2>1, <3>1, <3>3
    <3>4. CASE q = o
      BY <2>1, <3>1, <3>4
    <3> QED BY <3>2, <3>3, <3>4
  <2>2. ASSUME NEW r \in regions' PROVE \E q \in Holding' : r = Taken(q)'
    <3>1. CASE r \in N
      BY <3>1 DEF Holding
    <3>2. CASE r \in regions \ G
      <4>1. PICK q \in Holding : r = Taken(q)
        BY <3>2 DEF BInv, Kept
      <4>2. q # o
        BY <3>2, <4>1
      <4> QED BY <1>1, <4>1, <4>2
    <3> QED BY <3>1, <3>2
  <2> QED BY <2>1, <2>2 DEF Kept
<1>5. \A q \in Holding' : Block(q)'
  BY <1>1, <1>2
<1> QED BY <1>3, <1>4, <1>5 DEF BInv
-------------------------------------------------------------------------------
(* Steps                                                                     *)

\* Nothing but the machine stops.
LEMMA Same == ASSUME BInv, UNCHANGED <<mem, regions, ptr, want>> PROVE BInv'
<1>1. \A o : HdrOf(o)' = HdrOf(o) /\ Taken(o)' = Taken(o)
  BY DEF HdrOf, Taken
<1>2. Holding' = Holding
  BY DEF Holding
<1>3. \A o : Block(o)' <=> Block(o)
  BY <1>1 DEF Block
<1>4. Typed' /\ Regions'
  BY DEF BInv, Typed, Regions, Within, Clear, Span
<1>5. Kept'
  BY <1>1, <1>2 DEF BInv, Kept
<1> QED BY <1>2, <1>3, <1>4, <1>5 DEF BInv

\* What is stored in cells.
LEMMA StoredType ==
  /\ \A h \in Headers, j \in Nat : HdrCell(h, j) \in Contents
  /\ \A o \in Owners, i \in Nat : Byte(o, i) \in Contents
<1>1. ASSUME NEW h \in Headers, NEW j \in Nat PROVE HdrCell(h, j) \in Contents
  <2> DEFINE x == <<h, j>>
  <2>1. x \in Headers \X Nat /\ x[1] = h /\ x[2] = j
    OBVIOUS
  <2> HIDE DEF x
  <2>2. HdrCell(h, j) = HdrCell(x[1], x[2])
    BY <2>1
  <2> QED BY <2>1, <2>2, Zenon DEF Contents
<1>2. ASSUME NEW o \in Owners, NEW i \in Nat PROVE Byte(o, i) \in Contents
  <2> DEFINE x == <<o, i>>
  <2>1. x \in Owners \X Nat /\ x[1] = o /\ x[2] = i
    OBVIOUS
  <2> HIDE DEF x
  <2>2. Byte(o, i) = Byte(x[1], x[2])
    BY <2>1
  <2> QED BY <2>1, <2>2, Zenon DEF Contents
<1> QED BY <1>1, <1>2

\* A header written and cells cleared leave the heap's cells with contents.
LEMMA Written ==
  ASSUME NEW m \in [Addrs -> Contents], NEW h \in Headers, NEW p \in Nat, NEW q \in Nat, NEW k \in Int, HDR \in Nat
  PROVE  memset(put_hdr(m, p, h), q, Zero, k) \in [Addrs -> Contents]
<1> DEFINE v == put_hdr(m, p, h)
<1>1. v = [a \in Addrs |-> IF a \in Span(p - HDR, HDR) THEN HdrCell(h, a - (p - HDR)) ELSE m[a]]
  BY DEF put_hdr
<1>2. \A a \in Span(p - HDR, HDR) : HdrCell(h, a - (p - HDR)) \in Contents
  <2> SUFFICES ASSUME NEW a \in Span(p - HDR, HDR) PROVE HdrCell(h, a - (p - HDR)) \in Contents
    OBVIOUS
  <2>1. a - (p - HDR) \in Nat
    BY DEF Span
  <2> QED BY <2>1, StoredType
<1>3. v \in [Addrs -> Contents]
  BY <1>1, <1>2
<1> HIDE DEF v
<1>4. memset(v, q, Zero, k) = [a \in Addrs |-> IF a \in Span(q, k) THEN Zero ELSE v[a]]
  BY <1>3 DEF memset
<1>5. Zero \in Contents
  BY DEF Contents
<1> QED BY <1>3, <1>4, <1>5 DEF v

\* What makes an owner's block.
LEMMA Built ==
  ASSUME NEW o \in Owners, NEW h, Sealed(h), ptr'[o] = payload(h), Len(want'[o]) > 0,
         h.size = total(Len(want'[o]), h.align), HDR \in Nat \ {0},
         \A j \in 0..(HDR - 1) : mem'[payload(h) - HDR + j] = HdrCell(h, j),
         \A i \in 1..Len(want'[o]) : mem'[payload(h) + i - 1] = want'[o][i],
         Region(h.base, h.size) \in regions'
  PROVE  o \in Holding' /\ HdrOf(o)' = h /\ Taken(o)' = Region(h.base, h.size) /\ Block(o)'
<1>1. payload(h) \in Nat
  <2>1. h.base \in Nat /\ h.offset \in Nat
    BY DEF Sealed, Headers
  <2> QED BY <2>1 DEF payload
<1>2. o \in Holding'
  BY <1>1 DEF Holding, Null
<1>3. mem'[payload(h) - HDR] = HdrCell(h, 0)
  <2>1. 0 \in 0..(HDR - 1) /\ payload(h) - HDR + 0 = payload(h) - HDR
    BY <1>1
  <2> QED BY <2>1
<1>4. HdrOf(o)' = h
  BY <1>3, HdrCellIs DEF HdrOf
<1>5. Taken(o)' = Region(h.base, h.size)
  BY <1>4 DEF Taken
<1>6. Block(o)'
  BY <1>4, <1>5 DEF Block
<1> QED BY <1>2, <1>4, <1>5, <1>6

\* A place for n cells.
LEMMA PlaceIs ==
  ASSUME NEW R, NEW n \in Nat \ {0}, NEW base \in places(R, n)
  PROVE  /\ base \in Nat /\ base + n <= Cells /\ Within(Region(base, n))
         /\ Region(base, n).base = base /\ Region(base, n).size = n
         /\ \A r \in R : Clear(Region(base, n), r)
         /\ Span(base, n) \subseteq Addrs
<1>1. Cells \in Nat
  BY BlocksAssumption
<1>2. base \in 0..(Cells - n) /\ \A r \in R : Span(base, n) \cap Span(r.base, r.size) = {}
  BY DEF places
<1>3. Region(base, n) = [base |-> base, size |-> n]
  BY DEF Region
<1>4. base \in Nat /\ base + n <= Cells
  BY <1>1, <1>2
<1>5. Span(base, n) \subseteq Addrs
  BY <1>1, <1>4 DEF Span, Addrs
<1> QED BY <1>2, <1>3, <1>4, <1>5 DEF Within, Clear

\* heap_allocate_aligned: a block in a region of its own.
LEMMA CarveKeeps ==
  ASSUME BInv, NEW o \in Owners, ptr[o] = Null, NEW sz \in Nat \ {0}, NEW align \in Nat \ {0},
         is_alignment_valid(align), align >= MaxAlign,
         NEW base \in places(regions, total(sz, align)), Carve(o, base, sz, align)
  PROVE  BInv'
<1> DEFINE h == header(base, sz, align)
           n == total(sz, align)
           p == payload(h)
           r == Region(base, n)
<1>0. HDR \in Nat \ {0} /\ n \in Nat \ {0}
  BY BlocksAssumption DEF total
<1>1. /\ base \in Nat /\ base + n <= Cells /\ Within(r) /\ r.base = base /\ r.size = n
      /\ \A s \in regions : Clear(r, s)
      /\ Span(base, n) \subseteq Addrs
  BY <1>0, PlaceIs
<1>2. /\ Sealed(h) /\ h \in Headers /\ h.base = base /\ h.size = n /\ h.align = align
      /\ p \in Nat /\ p >= base + HDR /\ p + sz <= base + h.size
  BY <1>1, HeaderIs
<1>3. /\ mem' = memset(put_hdr(mem, p, h), p, Zero, sz)
      /\ regions' = regions \cup {Region(base, h.size)}
      /\ ptr' = [ptr EXCEPT ![o] = p] /\ want' = [want EXCEPT ![o] = [i \in 1..sz |-> Zero]]
  BY DEF Carve
<1> HIDE DEF h, p, n, r
<1>4. Typed
  BY DEF BInv
<1>5. /\ mem' \in [Addrs -> Contents]
      /\ \A a \in Addrs : mem'[a] = IF a \in Span(p, sz) THEN Zero
                                    ELSE IF a \in Span(p - HDR, HDR) THEN HdrCell(h, a - (p - HDR))
                                    ELSE mem[a]
  <2>1. PICK at \in Nat : at = p
    BY <1>2
  <2> DEFINE u == put_hdr(mem, at, h)
             v == memset(u, at, Zero, sz)
  <2>2. mem \in [Addrs -> Contents]
    BY <1>4 DEF Typed
  <2>3. v \in [Addrs -> Contents]
    BY <1>0, <1>2, <2>2, Written
  <2>4. DOMAIN u = Addrs
    BY <2>2 DEF put_hdr
  <2>5. \A a \in Addrs : u[a] = IF a \in Span(at - HDR, HDR) THEN HdrCell(h, a - (at - HDR)) ELSE mem[a]
    BY <2>2 DEF put_hdr
  <2>6. v = mem'
    BY <1>3, <2>1
  <2> HIDE DEF u
  <2>7. \A a \in Addrs : v[a] = IF a \in Span(at, sz) THEN Zero ELSE u[a]
    BY <2>4 DEF memset
  <2> HIDE DEF v
  <2> QED BY <2>1, <2>3, <2>5, <2>6, <2>7
<1>6. [i \in 1..sz |-> Zero] \in Seq(Contents) /\ Len([i \in 1..sz |-> Zero]) = sz
  <2>1. Zero \in Contents
    BY DEF Contents
  <2> HIDE DEF Zero
  <2> QED BY <2>1
<1>7. Typed' /\ ptr'[o] = p /\ want'[o] = [i \in 1..sz |-> Zero] /\ Len(want'[o]) = sz
      /\ \A q \in Owners \ {o} : ptr'[q] = ptr[q] /\ want'[q] = want[q]
  BY <1>2, <1>3, <1>4, <1>5, <1>6 DEF Typed
<1>8. ASSUME NEW a \in Addrs, mem'[a] # mem[a] PROVE a \in Span(base, n)
  BY <1>0, <1>1, <1>2, <1>5, <1>8 DEF Span, Addrs
<1>9. ASSUME NEW j \in 0..(HDR - 1) PROVE mem'[p - HDR + j] = HdrCell(h, j)
  <2>1. p - HDR + j \in Span(base, n) /\ p - HDR + j \in Span(p - HDR, HDR) /\ p - HDR + j \notin Span(p, sz)
        /\ (p - HDR + j) - (p - HDR) = j
    BY <1>0, <1>1, <1>2 DEF Span
  <2> QED BY <1>1, <1>5, <2>1
<1>10. ASSUME NEW i \in 1..sz PROVE mem'[p + i - 1] = want'[o][i]
  <2>1. p + i - 1 \in Span(base, n) /\ p + i - 1 \in Span(p, sz)
    BY <1>0, <1>1, <1>2 DEF Span
  <2>2. mem'[p + i - 1] = Zero
    BY <1>1, <1>5, <2>1
  <2> QED BY <1>7, <2>2
<1>11. r \in regions' /\ r = Region(h.base, h.size) /\ regions' = (regions \ {}) \cup {r}
  BY <1>2, <1>3 DEF r
<1>12. o \in Holding' /\ Taken(o)' = r /\ Block(o)'
  <2>1. h.size = total(Len(want'[o]), h.align) /\ Len(want'[o]) > 0 /\ ptr'[o] = payload(h)
        /\ Region(h.base, h.size) \in regions'
    BY <1>2, <1>7, <1>11 DEF n, p
  <2>2. /\ \A j \in 0..(HDR - 1) : mem'[payload(h) - HDR + j] = HdrCell(h, j)
        /\ \A i \in 1..Len(want'[o]) : mem'[payload(h) + i - 1] = want'[o][i]
    BY <1>7, <1>9, <1>10 DEF p
  <2> QED BY <1>0, <1>2, <1>11, <2>1, <2>2, Built
<1>13. o \notin Holding
  BY DEF Holding
<1>14. \A a \in Addrs : mem'[a] # mem[a] => \E s \in {} \cup {r} : a \in Span(s.base, s.size)
  BY <1>1, <1>8
<1> DEFINE G == {}
           N == {r}
<1>20. /\ G \in SUBSET regions /\ regions' = (regions \ G) \cup N
       /\ (\A s \in N : Within(s)) /\ (\A s, t \in N : s = t)
       /\ (\A s \in N : \A t \in regions \ G : Clear(s, t))
       /\ (o \in Holding => G = {Taken(o)}) /\ (o \notin Holding => G = {})
       /\ (\A a \in Addrs : mem'[a] # mem[a] => \E s \in G \cup N : a \in Span(s.base, s.size))
       /\ (o \in Holding' => Block(o)' /\ N = {Taken(o)'}) /\ (o \notin Holding' => N = {})
  BY <1>1, <1>11, <1>12, <1>13, <1>14
<1> HIDE DEF G, N
<1> QED BY <1>7, <1>20, Replaced

\* allocate_aligned
LEMMA AllocateKeeps ==
  ASSUME BInv, NEW o \in Owners, NEW sz \in Sizes, NEW align \in Aligns, allocate_aligned(o, sz, align)
  PROVE  BInv'
<1>1. sz \in Nat \ {0} /\ align \in Nat \ {0}
  BY BlocksAssumption
<1>2. CASE Halt
  BY <1>2, Same DEF Halt
<1>3. CASE /\ ptr[o] = Null /\ align >= MaxAlign /\ is_alignment_valid(align)
           /\ \E base \in places(regions, total(sz, align)) : Carve(o, base, sz, align)
  BY <1>1, <1>3, CarveKeeps
<1> QED BY <1>2, <1>3 DEF allocate_aligned

\* reallocate of NULL
LEMMA ReallocateNullKeeps ==
  ASSUME BInv, NEW o \in Owners, NEW newsz \in Sizes, reallocate_null(o, newsz)
  PROVE  BInv'
<1>1. newsz \in Nat \ {0} /\ MaxAlign \in Nat \ {0} /\ is_alignment_valid(MaxAlign) /\ MaxAlign >= MaxAlign
  BY BlocksAssumption DEF is_alignment_valid
<1>2. PICK base \in places(regions, total(newsz, MaxAlign)) : Carve(o, base, newsz, MaxAlign)
  BY DEF reallocate_null
<1>3. ptr[o] = Null
  BY DEF reallocate_null
<1> QED BY <1>1, <1>2, <1>3, CarveKeeps

\* What the steps on a held block start from.
LEMMA Held ==
  ASSUME BInv, NEW o \in Owners, ptr[o] # Null
  PROVE  /\ o \in Holding /\ Typed /\ Block(o) /\ Within(Taken(o)) /\ Taken(o) \in regions
         /\ heap__hdr_for(ptr[o]) = HdrOf(o) /\ HdrOf(o) # NoHdr
<1>1. o \in Holding
  BY DEF Holding
<1>2. Typed /\ Block(o) /\ Taken(o) \in regions /\ Within(Taken(o))
  BY <1>1 DEF BInv, Block, Regions
<1> QED BY <1>1, <1>2, Found

\* The owner's store changes its payload only.
LEMMA StoreKeeps == ASSUME BInv, NEW o \in Owners, store(o) PROVE BInv'
<1> DEFINE h == HdrOf(o)
           n == Len(want[o])
           p == ptr[o]
           w == [i \in DOMAIN want[o] |-> Byte(o, i)]
<1>1. /\ p # Null /\ want' = [want EXCEPT ![o] = w] /\ UNCHANGED <<regions, ptr>>
      /\ mem' = [a \in DOMAIN mem |-> IF a \in Span(p, n) THEN Byte(o, a - p + 1) ELSE mem[a]]
  BY DEF store
<1>2. o \in Holding /\ Typed /\ Block(o) /\ Within(Taken(o)) /\ Taken(o) \in regions
  BY <1>1, Held
<1>3. /\ n \in Nat \ {0} /\ p \in Nat /\ HDR \in Nat \ {0}
      /\ Taken(o).base = h.base /\ Taken(o).size = h.size
      /\ \A j \in 0..(HDR - 1) : p - HDR + j \in Span(h.base, h.size)
      /\ \A i \in 1..n : p + i - 1 \in Span(h.base, h.size)
      /\ Span(h.base, h.size) \subseteq Addrs
  BY <1>2, BlockIn
<1>4. \A i \in Nat : Byte(o, i) \in Contents
  BY StoredType
<1>5. w \in Seq(Contents) /\ Len(w) = n /\ \A i \in 1..n : w[i] = Byte(o, i)
  <2>1. DOMAIN want[o] = 1..n
    BY <1>2 DEF Typed
  <2> QED BY <1>3, <1>4, <2>1
<1>6. /\ Sealed(h) /\ payload(h) = p /\ h.size = total(n, h.align) /\ Taken(o) = Region(h.base, h.size)
      /\ \A j \in 0..(HDR - 1) : mem[p - HDR + j] = HdrCell(h, j)
  BY <1>2 DEF Block, Taken
<1> HIDE DEF h, n, p, w
<1>7. /\ mem' \in [Addrs -> Contents]
      /\ \A a \in Addrs : mem'[a] = IF a \in Span(p, n) THEN Byte(o, a - p + 1) ELSE mem[a]
  <2>1. \A a \in Span(p, n) : a - p + 1 \in Nat
    BY <1>3 DEF Span
  <2> QED BY <1>1, <1>2, <1>4, <2>1 DEF Typed
<1>8. Typed' /\ ptr'[o] = p /\ want'[o] = w
      /\ \A q \in Owners \ {o} : ptr'[q] = ptr[q] /\ want'[q] = want[q]
  BY <1>1, <1>2, <1>5, <1>7 DEF Typed, p
<1>9. \A j \in 0..(HDR - 1) : mem'[p - HDR + j] = HdrCell(h, j)
  <2> SUFFICES ASSUME NEW j \in 0..(HDR - 1) PROVE mem'[p - HDR + j] = HdrCell(h, j)
    OBVIOUS
  <2>1. p - HDR + j \notin Span(p, n)
    BY <1>3 DEF Span
  <2> QED BY <1>3, <1>6, <1>7, <2>1
<1>10. \A i \in 1..n : mem'[p + i - 1] = w[i]
  <2> SUFFICES ASSUME NEW i \in 1..n PROVE mem'[p + i - 1] = w[i]
    OBVIOUS
  <2>1. p + i - 1 \in Span(p, n) /\ (p + i - 1) - p + 1 = i
    BY <1>3 DEF Span
  <2> QED BY <1>3, <1>5, <1>7, <2>1
<1>11. o \in Holding' /\ Taken(o)' = Taken(o) /\ Block(o)'
  <2>1. Region(h.base, h.size) \in regions' /\ Len(want'[o]) = n /\ n > 0
    BY <1>1, <1>2, <1>3, <1>5, <1>6, <1>8
  <2> QED BY <1>3, <1>6, <1>8, <1>9, <1>10, <2>1, Built
<1>12. \A a \in Addrs : mem'[a] # mem[a] => \E s \in {Taken(o)} \cup {Taken(o)} : a \in Span(s.base, s.size)
  <2> SUFFICES ASSUME NEW a \in Addrs, mem'[a] # mem[a] PROVE a \in Span(h.base, h.size)
    BY <1>3
  <2>1. a \in Span(p, n)
    BY <1>7
  <2>2. a - p + 1 \in 1..n /\ p + (a - p + 1) - 1 = a
    BY <1>3, <2>1 DEF Span
  <2> QED BY <1>3, <2>2
<1>13. regions' = (regions \ {Taken(o)}) \cup {Taken(o)} /\ \A s \in regions \ {Taken(o)} : Clear(Taken(o), s)
  BY <1>1, <1>2 DEF BInv, Regions
<1> DEFINE G == {Taken(o)}
           N == {Taken(o)}
<1>20. /\ G \in SUBSET regions /\ regions' = (regions \ G) \cup N
       /\ (\A s \in N : Within(s)) /\ (\A s, t \in N : s = t)
       /\ (\A s \in N : \A t \in regions \ G : Clear(s, t))
       /\ (o \in Holding => G = {Taken(o)}) /\ (o \notin Holding => G = {})
       /\ (\A a \in Addrs : mem'[a] # mem[a] => \E s \in G \cup N : a \in Span(s.base, s.size))
       /\ (o \in Holding' => Block(o)' /\ N = {Taken(o)'}) /\ (o \notin Holding' => N = {})
  BY <1>2, <1>11, <1>12, <1>13
<1> HIDE DEF G, N
<1> QED BY <1>8, <1>20, Replaced

\* heap_deallocate gives the region back.
LEMMA DeallocateKeeps == ASSUME BInv, NEW o \in Owners, deallocate(o) PROVE BInv'
<1> DEFINE h == HdrOf(o)
<1>1. /\ o \in Holding /\ Typed /\ Block(o) /\ Within(Taken(o)) /\ Taken(o) \in regions
      /\ heap__hdr_for(ptr[o]) = h /\ h # NoHdr
  BY Held DEF deallocate
<1>2. /\ mem' = memset(mem, h.base, Junk, h.size) /\ regions' = regions \ {Region(h.base, h.size)}
      /\ ptr' = [ptr EXCEPT ![o] = Null] /\ want' = [want EXCEPT ![o] = << >>]
  BY <1>1 DEF deallocate
<1>3. Taken(o) = Region(h.base, h.size) /\ Taken(o).base = h.base /\ Taken(o).size = h.size
  BY DEF Taken, Region
<1> HIDE DEF h
<1>4. /\ mem' \in [Addrs -> Contents]
      /\ \A a \in Addrs : mem'[a] = IF a \in Span(h.base, h.size) THEN Junk ELSE mem[a]
  BY <1>1, <1>2 DEF memset, Typed, Contents
<1>5. Typed' /\ ptr'[o] = Null /\ \A q \in Owners \ {o} : ptr'[q] = ptr[q] /\ want'[q] = want[q]
  BY <1>1, <1>2, <1>4 DEF Typed
<1>6. o \notin Holding'
  BY <1>5 DEF Holding
<1>7. \A a \in Addrs : mem'[a] # mem[a] => \E s \in {Taken(o)} \cup {} : a \in Span(s.base, s.size)
  BY <1>3, <1>4
<1>8. regions' = (regions \ {Taken(o)}) \cup {} /\ {Taken(o)} \in SUBSET regions
  BY <1>1, <1>2, <1>3
<1> DEFINE G == {Taken(o)}
           N == {}
<1>20. /\ G \in SUBSET regions /\ regions' = (regions \ G) \cup N
       /\ (\A s \in N : Within(s)) /\ (\A s, t \in N : s = t)
       /\ (\A s \in N : \A t \in regions \ G : Clear(s, t))
       /\ (o \in Holding => G = {Taken(o)}) /\ (o \notin Holding => G = {})
       /\ (\A a \in Addrs : mem'[a] # mem[a] => \E s \in G \cup N : a \in Span(s.base, s.size))
       /\ (o \in Holding' => Block(o)' /\ N = {Taken(o)'}) /\ (o \notin Holding' => N = {})
  BY <1>1, <1>6, <1>7, <1>8
<1> HIDE DEF G, N
<1> QED BY <1>5, <1>20, Replaced
\* The moved or resized region, as heap_reallocate fills it: the old cells at
\* the same offsets, the payload moved to where the new header puts it, the
\* header, and the rest of a longer block cleared.
Refilled(old, base, h, copy, oldsz, newsz) ==
  memset(put_hdr(memmove(realloc_mem(Region(old.base, old.size), base, h.size),
                         payload(h), base + HDR + old.offset, copy),
                 payload(h), h),
         payload(h) + oldsz, Zero, newsz - oldsz)

\* The payload is as it was, up to the shorter of the two sizes.
LEMMA RefilledIs ==
  ASSUME Typed, NEW old \in Headers, Sealed(old), NEW oldsz \in Nat \ {0}, NEW newsz \in Nat \ {0},
         old.size = total(oldsz, old.align), Span(old.base, old.size) \subseteq Addrs,
         NEW base \in Nat, Span(base, total(newsz, old.align)) \subseteq Addrs,
         NEW copy, copy = IF oldsz < newsz THEN oldsz ELSE newsz
  PROVE  LET h == header(base, newsz, old.align)
             p == payload(h)
             w == Refilled(old, base, h, copy, oldsz, newsz)
         IN  /\ w \in [Addrs -> Contents]
             /\ \A a \in Addrs : w[a] # mem[a] => a \in Span(old.base, old.size) \/ a \in Span(base, h.size)
             /\ \A j \in 0..(HDR - 1) : w[p - HDR + j] = HdrCell(h, j)
             /\ \A i \in 1..newsz : w[p + i - 1] = IF i <= oldsz THEN mem[payload(old) + i - 1] ELSE Zero
<1> DEFINE al == old.align
           h == header(base, newsz, al)
           n == h.size
           p == payload(h)
           r == Region(old.base, old.size)
           m1 == realloc_mem(r, base, n)
           src == base + HDR + old.offset
           m2 == memmove(m1, p, src, copy)
           w == Refilled(old, base, h, copy, oldsz, newsz)
<1>0. HDR \in Nat \ {0} /\ Cells \in Nat
  BY BlocksAssumption
<1>1. /\ old.base \in Nat /\ old.size \in Nat /\ al \in Nat \ {0} /\ old.offset \in Nat
      /\ is_alignment_valid(al) /\ al >= MaxAlign /\ old.offset < al
  BY DEF Sealed, Headers
<1>2. /\ h \in Headers /\ h.base = base /\ n = total(newsz, al) /\ n \in Nat \ {0}
      /\ p \in Nat /\ p >= base + HDR /\ p + newsz <= base + n
  <2>1. PICK a \in Nat \ {0} : a = al
    BY <1>1
  <2> HIDE DEF al
  <2>2. is_alignment_valid(a) /\ a >= MaxAlign
    BY <1>1, <2>1
  <2> DEFINE g == header(base, newsz, a)
  <2>3. g \in Headers /\ g.base = base /\ g.size = total(newsz, a)
    BY <2>2, HeaderIs
  <2>4. total(newsz, a) \in Nat \ {0} /\ payload(g) \in Nat
    BY <2>2, HeaderIs
  <2>5. payload(g) >= base + HDR
    BY <2>2, HeaderIs
  <2>6. payload(g) + newsz <= base + g.size
    BY <2>2, HeaderIs
  <2> HIDE DEF g
  <2>7. h = g /\ n = g.size /\ p = payload(g) /\ n = total(newsz, al)
    BY <2>1, <2>3 DEF g
  <2> HIDE DEF h, n, p
  <2> QED BY <2>1, <2>3, <2>4, <2>5, <2>6, <2>7
<1>3. /\ old.size = oldsz + HDR + (al - 1) /\ n = newsz + HDR + (al - 1)
      /\ payload(old) = old.base + HDR + old.offset
  BY <1>2 DEF total, payload
<1>4. r.base = old.base /\ r.size = old.size
  BY DEF Region
<1>5. Span(base, n) \subseteq Addrs
  BY <1>2
<1>6. /\ m1 \in [Addrs -> Contents]
      /\ \A a \in Addrs : /\ a \in Span(base, n) /\ a - base < old.size => m1[a] = mem[old.base + (a - base)]
                          /\ a \notin Span(base, n) /\ m1[a] # mem[a] => a \in Span(old.base, old.size)
  <2>1. m1 = [a \in Addrs |-> IF a \in Span(base, n) /\ a - base < old.size THEN mem[old.base + (a - base)]
                              ELSE IF a \in Span(base, n) THEN mem[a]
                              ELSE IF a \in Span(old.base, old.size) THEN Junk
                              ELSE mem[a]]
    <3> HIDE DEF n, r
    <3>1. DOMAIN mem = Addrs
      BY DEF Typed
    <3> QED BY <1>4, <3>1 DEF realloc_mem
  <2> HIDE DEF n, m1
  <2>2. \A a \in Span(base, n) : a - base < old.size => old.base + (a - base) \in Addrs
    <3> SUFFICES ASSUME NEW a \in Span(base, n), a - base < old.size PROVE old.base + (a - base) \in Addrs
      OBVIOUS
    <3>1. old.base + (a - base) \in Span(old.base, old.size)
      BY <1>1, <1>2 DEF Span
    <3> QED BY <3>1
  <2>3. Junk \in Contents
    BY DEF Contents
  <2>4. m1 \in [Addrs -> Contents]
    BY <2>1, <2>2, <2>3 DEF Typed
  <2> QED BY <2>1, <2>4
<1> HIDE DEF al, h, n, p, r, m1
<1>7. copy \in Nat /\ copy <= oldsz /\ copy <= newsz /\ src \in Nat
  BY <1>0, <1>1
<1>8. Span(p, copy) \subseteq Span(base, n) /\ Span(src, copy) \subseteq Span(base, n)
  BY <1>0, <1>1, <1>2, <1>3, <1>7 DEF Span
<1> HIDE DEF src
<1>9. \A a \in Addrs : m2[a] = IF a \in Span(p, copy) THEN m1[src + (a - p)] ELSE m1[a]
  <2>1. Span(p, copy) \subseteq Addrs /\ Span(src, copy) \subseteq Addrs
    BY <1>5, <1>8
  <2> QED BY <1>2, <1>6, <1>7, <2>1, Moved
<1>10. m2 \in [Addrs -> Contents]
  BY <1>2, <1>5, <1>6, <1>7, <1>8, Moved
<1>11. w = memset(put_hdr(m2, p, h), p + oldsz, Zero, newsz - oldsz)
  BY DEF Refilled, m1, r, n, p, src
<1> HIDE DEF m2, w
<1>12. /\ w \in [Addrs -> Contents]
       /\ \A a \in Addrs : w[a] = IF a \in Span(p + oldsz, newsz - oldsz) THEN Zero
                                  ELSE IF a \in Span(p - HDR, HDR) THEN HdrCell(h, a - (p - HDR))
                                  ELSE m2[a]
  <2>1. PICK at \in Nat : at = p
    BY <1>2
  <2>2. at + oldsz \in Nat /\ newsz - oldsz \in Int /\ HDR \in Nat
    BY <1>0
  <2> DEFINE u == put_hdr(m2, at, h)
             v == memset(u, at + oldsz, Zero, newsz - oldsz)
  <2>3. v \in [Addrs -> Contents]
    BY <1>2, <1>10, <2>2, Written
  <2>4. DOMAIN u = Addrs
    BY <1>10 DEF put_hdr
  <2>5. \A a \in Addrs : u[a] = IF a \in Span(at - HDR, HDR) THEN HdrCell(h, a - (at - HDR)) ELSE m2[a]
    BY <1>10 DEF put_hdr
  <2>6. v = w
    BY <1>11, <2>1
  <2> HIDE DEF u
  <2>7. \A a \in Addrs : v[a] = IF a \in Span(at + oldsz, newsz - oldsz) THEN Zero ELSE u[a]
    BY <2>4 DEF memset
  <2> HIDE DEF v
  <2> QED BY <2>1, <2>3, <2>5, <2>6, <2>7
<1>13. ASSUME NEW a \in Addrs, w[a] # mem[a] PROVE a \in Span(old.base, old.size) \/ a \in Span(base, n)
  <2>1. ASSUME a \notin Span(base, n) PROVE a \in Span(old.base, old.size)
    <3>1. a \notin Span(p + oldsz, newsz - oldsz) /\ a \notin Span(p - HDR, HDR) /\ a \notin Span(p, copy)
      BY <1>0, <1>2, <1>7, <2>1 DEF Span, Addrs
    <3>2. w[a] = m2[a] /\ m2[a] = m1[a]
      BY <1>9, <1>12, <3>1
    <3> QED BY <1>6, <1>13, <2>1, <3>2
  <2> QED BY <2>1
<1>14. ASSUME NEW j \in 0..(HDR - 1) PROVE w[p - HDR + j] = HdrCell(h, j)
  <2>1. /\ p - HDR + j \in Span(base, n) /\ p - HDR + j \notin Span(p + oldsz, newsz - oldsz)
        /\ p - HDR + j \in Span(p - HDR, HDR) /\ (p - HDR + j) - (p - HDR) = j
    BY <1>0, <1>2 DEF Span
  <2> QED BY <1>5, <1>12, <2>1
<1>15. ASSUME NEW i \in 1..newsz PROVE w[p + i - 1] = IF i <= oldsz THEN mem[payload(old) + i - 1] ELSE Zero
  <2> DEFINE a == p + i - 1
  <2>1. a \in Span(base, n) /\ a \notin Span(p - HDR, HDR) /\ a \in Addrs
        /\ (a \in Span(p + oldsz, newsz - oldsz) <=> i > oldsz)
    <3>1. a \in Span(base, n) /\ a \notin Span(p - HDR, HDR)
          /\ (a \in Span(p + oldsz, newsz - oldsz) <=> i > oldsz)
      BY <1>0, <1>2 DEF Span
    <3> HIDE DEF a
    <3> QED BY <1>5, <3>1
  <2>2. CASE i > oldsz
    <3> HIDE DEF a
    <3>1. w[a] = Zero
      BY <1>12, <2>1, <2>2
    <3> QED BY <2>2, <3>1 DEF a
  <2>3. CASE i <= oldsz
    <3>1. a \in Span(p, copy) /\ src + (a - p) = src + i - 1
      BY <1>2, <1>7, <2>3 DEF Span
    <3>2. src + i - 1 \in Span(base, n) /\ (src + i - 1) - base = HDR + old.offset + i - 1
          /\ (src + i - 1) - base < old.size
      BY <1>0, <1>1, <1>2, <1>3, <2>3 DEF src, Span
    <3>3. old.base + (HDR + old.offset + i - 1) = payload(old) + i - 1
      BY <1>0, <1>1, <1>3
    <3> HIDE DEF a
    <3>4. w[a] = m2[a]
      BY <1>12, <2>1, <2>3
    <3>5. m2[a] = m1[src + i - 1]
      BY <1>9, <2>1, <3>1
    <3>6. m1[src + i - 1] = mem[old.base + (HDR + old.offset + i - 1)]
      BY <1>5, <1>6, <3>2
    <3> QED BY <2>3, <3>3, <3>4, <3>5, <3>6 DEF a
  <2> QED BY <2>2, <2>3
<1> QED BY <1>12, <1>13, <1>14, <1>15 DEF w, h, p, al, n

\* heap_reallocate: the block keeps what fits of its contents, wherever the
\* region goes.
LEMMA ReallocateKeeps ==
  ASSUME BInv, NEW o \in Owners, NEW newsz \in Sizes, reallocate(o, newsz)
  PROVE  BInv'
<1> DEFINE old == HdrOf(o)
           oldsz == Len(want[o])
           al == old.align
           r == Taken(o)
           n == total(newsz, al)
           least == IF oldsz < newsz THEN oldsz ELSE newsz
           fits == old.size - HDR - old.offset
           copy == IF least > fits THEN fits ELSE least
           room == in_place(r, n) \cup places(regions, n)
<1>1. /\ o \in Holding /\ Typed /\ Block(o) /\ Within(r) /\ r \in regions
      /\ heap__hdr_for(ptr[o]) = old /\ old # NoHdr /\ ptr[o] # Null
  BY Held DEF reallocate
<1>2. r = Region(old.base, old.size)
  BY DEF Taken
<1>3. \/ UNCHANGED bvars
      \/ \E base \in room :
           LET h == header(base, newsz, al)
           IN  /\ mem' = Refilled(old, base, h, copy, oldsz, newsz)
               /\ regions' = (regions \ {r}) \cup {Region(base, n)}
               /\ ptr' = [ptr EXCEPT ![o] = payload(h)]
               /\ want' = [want EXCEPT ![o] = [i \in 1..newsz |-> IF i <= oldsz THEN want[o][i] ELSE Zero]]
  <2>1. \A base : header(base, newsz, al).size = n
    BY DEF header
  <2> QED BY <1>1, <1>2, <2>1 DEF reallocate, Refilled
<1>4. /\ old.base \in Nat /\ old.offset \in Nat /\ al \in Nat \ {0} /\ old.size \in Nat \ {0}
      /\ oldsz \in Nat \ {0} /\ old.offset < al /\ old.size = oldsz + HDR + (al - 1)
      /\ r.base = old.base /\ r.size = old.size
      /\ HDR \in Nat \ {0} /\ Span(old.base, old.size) \subseteq Addrs
      /\ newsz \in Nat \ {0}
  BY <1>1, BlockIn, BlocksAssumption
<1>5. /\ Sealed(old) /\ old \in Headers /\ payload(old) = ptr[o] /\ old.size = total(oldsz, al)
      /\ is_alignment_valid(al) /\ al >= MaxAlign
      /\ \A i \in 1..oldsz : mem[ptr[o] + i - 1] = want[o][i]
  BY <1>1 DEF Block, Sealed
<1>6. CASE UNCHANGED bvars
  BY <1>6, Same DEF bvars
<1>7. ASSUME NEW base \in room,
             LET h == header(base, newsz, al)
             IN  /\ mem' = Refilled(old, base, h, copy, oldsz, newsz)
                 /\ regions' = (regions \ {r}) \cup {Region(base, n)}
                 /\ ptr' = [ptr EXCEPT ![o] = payload(h)]
                 /\ want' = [want EXCEPT ![o] = [i \in 1..newsz |-> IF i <= oldsz THEN want[o][i] ELSE Zero]]
      PROVE  BInv'
  <2> DEFINE h == header(base, newsz, al)
             p == payload(h)
             v == [i \in 1..newsz |-> IF i <= oldsz THEN want[o][i] ELSE Zero]
             new == Region(base, n)
  <2>1. /\ mem' = Refilled(old, base, h, copy, oldsz, newsz) /\ regions' = (regions \ {r}) \cup {new}
        /\ ptr' = [ptr EXCEPT ![o] = p] /\ want' = [want EXCEPT ![o] = v]
    BY <1>7
  <2>2. copy = IF oldsz < newsz THEN oldsz ELSE newsz
    <3> HIDE DEF old, oldsz, al
    <3> QED BY <1>4
  <2>3. n \in Nat \ {0}
    <3> HIDE DEF al
    <3> QED BY <1>4 DEF total
  <2>4. base \in places(regions \ {r}, n)
    <3> HIDE DEF n, r
    <3> QED BY <1>7 DEF in_place, places
  <2> HIDE DEF old, oldsz, al, r, n, room, copy
  <2>5. /\ base \in Nat /\ Within(new) /\ new.base = base /\ new.size = n /\ Span(base, n) \subseteq Addrs
        /\ \A s \in regions \ {r} : Clear(new, s)
    BY <2>3, <2>4, PlaceIs
  <2>6. /\ Sealed(h) /\ h \in Headers /\ h.base = base /\ h.size = n /\ h.align = al /\ p \in Nat
    <3>1. PICK a \in Nat \ {0} : a = al
      BY <1>4
    <3> QED BY <1>4, <1>5, <2>5, <3>1, HeaderIs DEF n
  <2>7. /\ mem' \in [Addrs -> Contents]
        /\ \A a \in Addrs : mem'[a] # mem[a] => a \in Span(old.base, old.size) \/ a \in Span(base, n)
        /\ \A j \in 0..(HDR - 1) : mem'[p - HDR + j] = HdrCell(h, j)
        /\ \A i \in 1..newsz : mem'[p + i - 1] = IF i <= oldsz THEN mem[payload(old) + i - 1] ELSE Zero
    <3>1. PICK k \in Nat \ {0} : k = oldsz
      BY <1>4
    <3>2. /\ old.size = total(k, old.align) /\ Span(base, total(newsz, old.align)) \subseteq Addrs
          /\ copy = IF k < newsz THEN k ELSE newsz
      BY <1>5, <2>2, <2>5, <3>1 DEF al, n
    <3> DEFINE g == header(base, newsz, old.align)
               x == Refilled(old, base, g, copy, k, newsz)
    <3>3. x \in [Addrs -> Contents]
      BY <1>1, <1>4, <1>5, <2>5, <3>2, RefilledIs
    <3>4. \A a \in Addrs : x[a] # mem[a] => a \in Span(old.base, old.size) \/ a \in Span(base, g.size)
      BY <1>1, <1>4, <1>5, <2>5, <3>2, RefilledIs
    <3>5. \A j \in 0..(HDR - 1) : x[payload(g) - HDR + j] = HdrCell(g, j)
      BY <1>1, <1>4, <1>5, <2>5, <3>2, RefilledIs
    <3>6. \A i \in 1..newsz : x[payload(g) + i - 1] = IF i <= k THEN mem[payload(old) + i - 1] ELSE Zero
      BY <1>1, <1>4, <1>5, <2>5, <3>2, RefilledIs
    <3>7. g = h /\ payload(g) = p /\ x = mem'
      BY <2>1, <3>1 DEF al
    <3> HIDE DEF g, x, h, p
    <3> QED BY <2>6, <3>1, <3>3, <3>4, <3>5, <3>6, <3>7
  <2> HIDE DEF h, p, new
  <2>8. v \in Seq(Contents) /\ Len(v) = newsz /\ \A i \in 1..newsz : v[i] = IF i <= oldsz THEN want[o][i] ELSE Zero
    <3>1. Zero \in Contents
      BY DEF Contents
    <3>2. want[o] \in Seq(Contents)
      BY <1>1 DEF Typed
    <3>3. \A i \in 1..newsz : i <= oldsz => want[o][i] \in Contents
      <4>1. \A i \in 1..oldsz : want[o][i] \in Contents
        BY <3>2 DEF oldsz
      <4> QED BY <1>4, <4>1
    <3> HIDE DEF Zero
    <3> QED BY <1>4, <3>1, <3>3
  <2>9. \A i \in 1..newsz : mem'[p + i - 1] = v[i]
    <3> SUFFICES ASSUME NEW i \in 1..newsz PROVE mem'[p + i - 1] = v[i]
      OBVIOUS
    <3>1. i <= oldsz => i \in 1..oldsz
      BY <1>4
    <3> HIDE DEF v
    <3> QED BY <1>5, <2>7, <2>8, <3>1
  <2> HIDE DEF v
  <2>10. Typed' /\ ptr'[o] = p /\ want'[o] = v
         /\ \A q \in Owners \ {o} : ptr'[q] = ptr[q] /\ want'[q] = want[q]
    BY <1>1, <2>1, <2>6, <2>7, <2>8 DEF Typed
  <2>11. new = Region(h.base, h.size) /\ new \in regions'
    BY <2>1, <2>6 DEF new
  <2>12. o \in Holding' /\ Taken(o)' = new /\ Block(o)'
    <3>1. ptr'[o] = payload(h) /\ Len(want'[o]) > 0 /\ h.size = total(Len(want'[o]), h.align)
      BY <1>4, <2>6, <2>8, <2>10 DEF n, p
    <3>2. /\ \A j \in 0..(HDR - 1) : mem'[payload(h) - HDR + j] = HdrCell(h, j)
          /\ \A i \in 1..Len(want'[o]) : mem'[payload(h) + i - 1] = want'[o][i]
      BY <2>7, <2>8, <2>9, <2>10 DEF p
    <3> QED BY <1>4, <2>6, <2>11, <3>1, <3>2, Built
  <2> DEFINE G == {r}
             N == {new}
  <2>20. /\ G \in SUBSET regions /\ regions' = (regions \ G) \cup N
         /\ (\A s \in N : Within(s)) /\ (\A s, t \in N : s = t)
         /\ (\A s \in N : \A t \in regions \ G : Clear(s, t))
         /\ (o \in Holding => G = {Taken(o)}) /\ (o \notin Holding => G = {})
         /\ (\A a \in Addrs : mem'[a] # mem[a] => \E s \in G \cup N : a \in Span(s.base, s.size))
         /\ (o \in Holding' => Block(o)' /\ N = {Taken(o)'}) /\ (o \notin Holding' => N = {})
    <3>1. \A a \in Addrs : mem'[a] # mem[a] => \E s \in G \cup N : a \in Span(s.base, s.size)
      BY <1>4, <2>5, <2>7
    <3> QED BY <1>1, <2>1, <2>5, <2>12, <3>1 DEF r
  <2> HIDE DEF G, N
  <2> QED BY <2>10, <2>20, Replaced
<1> QED BY <1>3, <1>6, <1>7

\* Before the first block.
LEMMA BFirst == BInit => BInv
<1> SUFFICES ASSUME BInit PROVE BInv
  OBVIOUS
<1>1. mem = [a \in Addrs |-> Junk] /\ regions = {} /\ ptr = [o \in Owners |-> Null]
      /\ want = [o \in Owners |-> << >>]
  BY DEF BInit, Addrs
<1>2. Holding = {}
  BY <1>1 DEF Holding
<1>3. Typed
  BY <1>1 DEF Typed, Contents
<1> QED BY <1>1, <1>2, <1>3 DEF BInv, Regions, Kept

LEMMA BStep == BInv /\ [BNext]_bvars => BInv'
<1> SUFFICES ASSUME BInv, [BNext]_bvars PROVE BInv'
  OBVIOUS
<1>1. CASE UNCHANGED bvars
  BY <1>1, Same DEF bvars
<1>2. CASE BNext
  <2>1. PICK o \in Owners :
          \/ \E sz \in Sizes, align \in Aligns : allocate_aligned(o, sz, align)
          \/ \E sz \in Sizes : reallocate(o, sz) \/ reallocate_null(o, sz)
          \/ store(o) \/ deallocate(o)
    BY <1>2 DEF BNext
  <2> QED BY <2>1, AllocateKeeps, ReallocateKeeps, ReallocateNullKeeps, StoreKeeps, DeallocateKeeps
<1> QED BY <1>1, <1>2

\* The invariant says what BlocksKept does.
LEMMA BlocksFollow == BInv => BlocksKept
<1> SUFFICES ASSUME BInv PROVE BlocksKept
  OBVIOUS
<1>1. ASSUME NEW o \in Owners, ptr[o] # Null
      PROVE  LET h == heap__hdr_for(ptr[o])
             IN  /\ h # NoHdr
                 /\ Region(h.base, h.size) \in regions
                 /\ Span(ptr[o], Len(want[o])) \subseteq Span(h.base + HDR, h.size - HDR)
                 /\ \A i \in DOMAIN want[o] : mem[ptr[o] + i - 1] = want[o][i]
  <2> DEFINE h == HdrOf(o)
             n == Len(want[o])
  <2>1. /\ o \in Holding /\ Typed /\ Block(o) /\ Within(Taken(o)) /\ Taken(o) \in regions
        /\ heap__hdr_for(ptr[o]) = h /\ h # NoHdr
    BY <1>1, Held
  <2>2. /\ h.base \in Nat /\ h.offset \in Nat /\ h.align \in Nat \ {0} /\ h.size \in Nat \ {0}
        /\ n \in Nat \ {0} /\ ptr[o] \in Nat /\ ptr[o] = h.base + HDR + h.offset
        /\ h.offset < h.align /\ h.size = n + HDR + (h.align - 1) /\ HDR \in Nat \ {0}
    BY <2>1, BlockIn
  <2>3. Region(h.base, h.size) \in regions
    BY <2>1 DEF Taken
  <2>4. \A i \in DOMAIN want[o] : mem[ptr[o] + i - 1] = want[o][i]
    <3>1. DOMAIN want[o] = 1..n
      BY <2>1 DEF Typed
    <3> QED BY <2>1, <3>1 DEF Block
  <2> HIDE DEF h, n
  <2>5. Span(ptr[o], n) \subseteq Span(h.base + HDR, h.size - HDR)
    BY <2>2 DEF Span
  <2> QED BY <2>1, <2>3, <2>4, <2>5 DEF n
<1>2. ASSUME NEW r \in regions PROVE \E o \in Owners : ptr[o] # Null /\ heap__hdr_for(ptr[o]).base = r.base
  <2>1. PICK o \in Holding : r = Taken(o)
    BY DEF BInv, Kept
  <2>2. o \in Owners /\ ptr[o] # Null
    BY DEF Holding
  <2>3. heap__hdr_for(ptr[o]) = HdrOf(o)
    BY <2>2, Held
  <2> QED BY <2>1, <2>2, <2>3 DEF Taken, Region
<1> QED BY <1>1, <1>2 DEF BlocksKept

\* For a heap of any size, any number of owners, any sizes and any alignments
\* that are powers of two, every block keeps its header, its alignment and its
\* contents through any sequence of allocations, moves and frees of all blocks.
THEOREM BlocksStayKept == BSpec => []BlocksKept
BY BFirst, BStep, BlocksFollow, PTL DEF BSpec
===============================================================================
