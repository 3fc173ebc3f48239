-------------------------------- MODULE Memory --------------------------------
(***************************************************************************)
(* Physical frames and heap pages: the bitmap of kernel/src/mem/pmm.c with *)
(* its sizing and scan at boot, and the page runs kernel/src/mem/heap.c    *)
(* gives to liballoc.  Addresses count pages.  A bitmap byte has ByteBits  *)
(* bits (8 in the machine) and a page PageBytes bytes (4096).              *)
(*                                                                         *)
(* pmm calls hold pmm's lock and are atomic.  liballoc holds heap_lock     *)
(* around liballoc_alloc and liballoc_free, which take or return frames    *)
(* page by page while other processors use pmm.                            *)
(***************************************************************************)
EXTENDS Integers, FiniteSetsExt, SequencesExt

CONSTANTS Procs,      \* processors (the started ones build their idle tasks at once)
          ByteBits, PageBytes,
          LargePages, \* pages of a 2MB block
          Spans,      \* pages that one page table of each level covers
          MemMaps,    \* memory maps the boot loader may hand over
          Requests    \* page counts liballoc asks for

Types   == {"usable", "reclaimable", "executable", "reserved"}
Entries == [base : Nat, length : Nat, type : Types]
Run(b, n)  == b..(b + n - 1)
RunOf(e)   == Run(e.base, e.length)
None       == -1

\* Limine promises entries that do not overlap, and never offers page 0.
ASSUME MemoryAssumption ==
  /\ ByteBits \in Nat \ {0} /\ PageBytes \in Nat \ {0}
  /\ LargePages \in Nat \ {0} /\ LargePages % ByteBits = 0
  /\ Spans \subseteq Nat \ {0} /\ IsFiniteSet(Spans) /\ Requests \subseteq Nat \ {0}
  /\ None \notin Procs
  /\ \A m \in MemMaps :
       /\ m \in Seq(Entries)
       /\ \A i, j \in DOMAIN m : i # j => RunOf(m[i]) \cap RunOf(m[j]) = {}
       /\ \A i \in DOMAIN m : m[i].type = "usable" => 0 \notin RunOf(m[i])

VARIABLES
  stage,      \* how far bootstrap has come
  memmap,     \* the memory map's entries, which pmm_load edits
  top,        \* pmm.highest_page
  buffer,     \* the frames the bitmap is stored in
  allocated,  \* the bits that are set in allocated_pages
  pages,      \* heap_page_count(), 0 before heap_load
  heap_map,   \* the bits that are set in heap_map
  heapbuf,    \* the frames heap_map is stored in
  kmap,       \* heap pages that are mapped, with their frames
  tables,     \* tables made for the heap: <<span, index>> with its frame
  held,       \* frames a processor holds for anything else
  blocks,     \* page runs liballoc has: <<first page, count>>
  lock,       \* the holder of heap_lock, or None
  call,       \* what the holder is doing
  mode        \* "ok", or how the machine stopped

heap  == <<pages, heap_map, heapbuf, kmap, tables, blocks, lock, call>>
vars  == <<stage, memmap, top, buffer, allocated, heap, held, mode>>

Idle  == [op |-> "idle", base |-> 0, count |-> 0, done |-> 0, frame |-> None]
Ran   == stage = "run" /\ mode = "ok"

TypeOK ==
  /\ stage \in {"find", "reserve", "scan", "heap", "run"}
  /\ memmap \in Seq(Entries) /\ top \in Nat
  /\ buffer \subseteq Nat /\ allocated \subseteq Nat
  /\ pages \in Nat /\ heap_map \subseteq 0..(pages - 1) /\ heapbuf \subseteq 0..(top - 1)
  /\ DOMAIN kmap \subseteq 0..(pages - 1) /\ Range(kmap) \subseteq 0..(top - 1)
  /\ Range(tables) \subseteq 0..(top - 1)
  /\ held \in [Procs -> SUBSET (0..(top - 1))]
  /\ \A b \in blocks : b \in Nat \X Nat
  /\ lock \in Procs \cup {None}
  /\ call.op \in {"idle", "alloc", "free"} /\ call.frame \in Nat \cup {None}
  /\ mode \in {"ok", "no_memory", "bitmap_assert", "no_frames", "heap_no_frames"}

Init ==
  /\ stage = "find" /\ memmap \in MemMaps /\ top = 0
  /\ buffer = {} /\ allocated = {}
  /\ pages = 0 /\ heap_map = {} /\ heapbuf = {} /\ kmap = << >> /\ tables = << >>
  /\ held = [p \in Procs |-> {}] /\ blocks = {}
  /\ lock = None /\ call = Idle /\ mode = "ok"
-----------------------------------------------------------------------------
align_size_up(n, a) == IF n % a # 0 THEN n + (a - (n % a)) ELSE n

\* The bytes a bitmap of n pages is given, and the frames they fill.
BitmapBytes(n) == align_size_up(n \div ByteBits, PageBytes)
BitmapPages(n) == BitmapBytes(n) \div PageBytes

\* bitmap_isset, bitmap_set and bitmap_clear assert that the bit's byte exists.
InBitmap(bit) == bit \div ByteBits < Cardinality(buffer) * PageBytes

pmm__find_highest_page ==
  LET counted == { i \in DOMAIN memmap : memmap[i].type # "reserved" }
  IN  top' = Max({0} \cup { memmap[i].base + memmap[i].length : i \in counted })

find_highest ==
  /\ stage = "find" /\ pmm__find_highest_page /\ stage' = "reserve"
  /\ UNCHANGED <<memmap, buffer, allocated, heap, held, mode>>

\* Mutant: the entry keeps the pages the bitmap is stored in.
pmm__reserve_bitmap_kept ==
  LET size == BitmapPages(top)
      room == { i \in DOMAIN memmap : memmap[i].type = "usable" /\ memmap[i].length >= size }
  IN  IF room = {}
      THEN mode' = "no_memory" /\ UNCHANGED <<memmap, buffer>>
      ELSE /\ buffer' = Run(memmap[Min(room)].base, size)
           /\ UNCHANGED <<memmap, mode>>

\* The first usable entry that is large enough gives up its first pages.
pmm__reserve_bitmap ==
  LET size == BitmapPages(top)
      room == { i \in DOMAIN memmap : memmap[i].type = "usable" /\ memmap[i].length >= size }
      i    == Min(room)
  IN  IF room = {}
      THEN mode' = "no_memory" /\ UNCHANGED <<memmap, buffer>>
      ELSE /\ memmap' = [memmap EXCEPT ![i] = [base |-> @.base + size, length |-> @.length - size,
                                             type |-> "usable"]]
           /\ buffer' = Run(memmap[i].base, size)
           /\ UNCHANGED mode

reserve_bitmap ==
  /\ stage = "reserve" /\ mode = "ok"
  /\ pmm__reserve_bitmap /\ stage' = "scan"
  /\ UNCHANGED <<top, allocated, heap, held>>

pmm__is_page_available(page) ==
  \E i \in DOMAIN memmap :
    /\ page \in RunOf(memmap[i]) /\ memmap[i].type = "usable"
    /\ \A j \in 1..(i - 1) : page \notin RunOf(memmap[j])

pmm__scan_bitmap ==
  LET taken == { page \in 0..(top - 1) : ~pmm__is_page_available(page) }
  IN  IF \A page \in taken : InBitmap(page)
      THEN allocated' = taken /\ UNCHANGED mode
      ELSE mode' = "bitmap_assert" /\ UNCHANGED allocated

scan_bitmap ==
  /\ stage = "scan" /\ mode = "ok"
  /\ pmm__scan_bitmap /\ stage' = "heap"
  /\ UNCHANGED <<memmap, top, buffer, heap, held>>
-----------------------------------------------------------------------------
\* The search of pmm_try_alloc from page b: it takes n clear bits, or reads one
\* the bitmap does not have.  Nothing stops it at the top.
Fits(b, n)     == \A k \in Run(b, n) : InBitmap(k) /\ k \notin allocated
Overruns(b, n) == \E k \in Run(b, n) : ~InBitmap(k) /\ Run(b, k - b) \cap allocated = {}

pmm_search(n) ==
  LET stops == { b \in 0..(top - 1) : Fits(b, n) \/ Overruns(b, n) }
  IN  IF stops = {} THEN None ELSE Min(stops)

Stop(why) == mode' = why /\ UNCHANGED <<allocated, heap, held>>

\* given is what the caller does with the frames from pmm_search(n) on, refused
\* what becomes of one that is told there are none.
pmm_try_alloc(n, given, refused) ==
  LET b == pmm_search(n)
  IN  IF b = None THEN refused
      ELSE IF Overruns(b, n) THEN Stop("bitmap_assert")
      ELSE given /\ allocated' = allocated \cup Run(b, n) /\ UNCHANGED mode

\* pmm_alloc panics when there is no frame.
pmm_alloc(n, given) == pmm_try_alloc(n, given, Stop("no_frames"))

pmm_free(b, n) == allocated' = allocated \ Run(b, n)

heap_load ==
  LET count == align_size_up(top, LargePages)
      size  == BitmapPages(count)
      given == /\ heapbuf' = Run(pmm_search(size), size)
               /\ pages' = count
               /\ heap_map' = {0, count - 1}     \* guard pages
               /\ UNCHANGED <<kmap, tables, held, blocks, lock, call>>
  IN  /\ stage = "heap" /\ mode = "ok" /\ stage' = "run"
      /\ pmm_alloc(size, given)
      /\ UNCHANGED <<memmap, top, buffer>>

\* Page tables, stacks, program images and mappings take frames one by one;
\* all but task_mmap go through pmm_alloc, which panics.
frame_alloc(p, panics) ==
  LET given == held' = [held EXCEPT ![p] = @ \cup {pmm_search(1)}] /\ UNCHANGED heap
  IN  /\ Ran
      /\ IF panics THEN pmm_alloc(1, given)
         ELSE pmm_try_alloc(1, given, UNCHANGED <<allocated, heap, held, mode>>)
      /\ UNCHANGED <<stage, memmap, top, buffer>>

frame_free(p, b) ==
  /\ Ran /\ b \in held[p]
  /\ held' = [held EXCEPT ![p] = @ \ {b}]
  /\ pmm_free(b, 1)
  /\ UNCHANGED <<stage, memmap, top, buffer, heap, mode>>
-----------------------------------------------------------------------------
\* What keeps a run of n pages from starting at s.
Blocked(s, n) == { k \in Run(s, n) : k >= pages \/ k \in heap_map }

\* Mutant: the search steps over the page behind a set bit as well.
heap_search_skip(n) ==
  LET from[s \in 0..(pages + 2)] ==
        IF s >= pages THEN None
        ELSE IF Blocked(s, n) = {} THEN s ELSE from[Min(Blocked(s, n)) + 2]
  IN  from[0]

\* liballoc_alloc's search: after a set bit it goes on behind that bit.
heap_search(n) ==
  LET from[s \in 0..(pages + 1)] ==
        IF s >= pages THEN None
        ELSE IF Blocked(s, n) = {} THEN s ELSE from[Min(Blocked(s, n)) + 1]
  IN  from[0]

\* liballoc_lock and the search; a request without room returns NULL.
liballoc_alloc(p, n) ==
  LET b == heap_search(n)
  IN  /\ Ran /\ lock = None /\ b # None
      /\ lock' = p
      /\ call' = [Idle EXCEPT !.op = "alloc", !.base = b, !.count = n]
      /\ UNCHANGED <<stage, memmap, top, buffer, allocated, pages, heap_map, heapbuf,
                     kmap, tables, held, blocks, mode>>

\* A frame for the next page.  The code is ready for pmm_alloc to return NULL
\* and would give the pages back, but pmm_alloc panics instead.
heap_take(p) ==
  LET given == /\ call' = [call EXCEPT !.frame = pmm_search(1)]
               /\ UNCHANGED <<pages, heap_map, heapbuf, kmap, tables, held, blocks, lock>>
  IN  /\ Ran /\ lock = p /\ call.op = "alloc" /\ call.frame = None
      /\ pmm_try_alloc(1, given, Stop("heap_no_frames"))
      /\ UNCHANGED <<stage, memmap, top, buffer>>

\* After the last page the run is liballoc's and heap_lock is released.
Advance ==
  IF call.done + 1 = call.count
  THEN call' = Idle /\ lock' = None
  ELSE call' = [call EXCEPT !.done = @ + 1, !.frame = None] /\ UNCHANGED lock

\* The n lowest members of S, or all it has, and one of them for each t in T.
Lowest(n, S)   == CHOOSE F \in kSubset(Min({n, Cardinality(S)}), S) : \A x \in F, y \in S \ F : x < y
Assigned(T, F) == CHOOSE f \in [T -> F] : IsInjective(f)

Joined(f, g) == [x \in DOMAIN f \cup DOMAIN g |-> IF x \in DOMAIN f THEN f[x] ELSE g[x]]

\* vmm_map makes the tables that the page lacks, each in a frame of pmm_alloc,
\* then the page's bit is set and the page cleared.
heap_map_page(p) ==
  LET page    == call.base + call.done
      missing == { <<s, page \div s>> : s \in Spans } \ DOMAIN tables
      free    == { b \in 0..(top - 1) : b \notin allocated }
      n       == Cardinality(missing)
      given   == Lowest(n, free)
  IN  /\ Ran /\ lock = p /\ call.op = "alloc" /\ call.frame # None
      /\ allocated' = allocated \cup given
      /\ IF Cardinality(given) < n
         THEN /\ mode' = "no_frames"
              /\ UNCHANGED <<kmap, tables, heap_map, blocks, lock, call>>
         ELSE /\ tables' = Joined(tables, Assigned(missing, given))
              /\ kmap' = Joined(kmap, [x \in {page} |-> call.frame])
              /\ heap_map' = heap_map \cup {page}
              /\ blocks' = IF call.done + 1 = call.count
                           THEN blocks \cup {<<call.base, call.count>>} ELSE blocks
              /\ Advance
              /\ UNCHANGED mode
      /\ UNCHANGED <<stage, memmap, top, buffer, pages, heapbuf, held>>

\* liballoc returns whole runs.
liballoc_free(p, b) ==
  /\ Ran /\ lock = None /\ b \in blocks
  /\ lock' = p /\ blocks' = blocks \ {b}
  /\ call' = [Idle EXCEPT !.op = "free", !.base = b[1], !.count = b[2]]
  /\ UNCHANGED <<stage, memmap, top, buffer, allocated, pages, heap_map, heapbuf, kmap,
                 tables, held, mode>>

\* vmm_translate and vmm_unmap of the next page.
heap_unmap(p) ==
  LET page == call.base + call.done
  IN  /\ Ran /\ lock = p /\ call.op = "free" /\ call.frame = None
      /\ call' = [call EXCEPT !.frame = kmap[page]]
      /\ kmap' = Restrict(kmap, DOMAIN kmap \ {page})
      /\ UNCHANGED <<stage, memmap, top, buffer, allocated, pages, heap_map, heapbuf,
                     tables, held, blocks, lock, mode>>

\* pmm_free, then bitmap_clear.
heap_release(p) ==
  /\ Ran /\ lock = p /\ call.op = "free" /\ call.frame # None
  /\ pmm_free(call.frame, 1)
  /\ heap_map' = heap_map \ {call.base + call.done}
  /\ Advance
  /\ UNCHANGED <<stage, memmap, top, buffer, pages, heapbuf, kmap, tables, held, blocks,
                 mode>>

Next ==
  \/ find_highest \/ reserve_bitmap \/ scan_bitmap \/ heap_load
  \/ \E p \in Procs :
       \/ \E panics \in BOOLEAN : frame_alloc(p, panics)
       \/ \E b \in held[p] : frame_free(p, b)
       \/ \E n \in Requests : liballoc_alloc(p, n)
       \/ heap_take(p) \/ heap_map_page(p)
       \/ \E b \in blocks : liballoc_free(p, b)
       \/ heap_unmap(p) \/ heap_release(p)

Spec == Init /\ [][Next]_vars
-----------------------------------------------------------------------------
\* Everyone who holds frames, each with the frames it holds.
Holders ==
  { <<"bitmap", None, buffer>>, <<"heap_map", None, heapbuf>>,
    <<"heap", None, Range(kmap)>>, <<"tables", None, Range(tables)>>,
    <<"call", None, {call.frame} \ {None}>> } \cup { <<"proc", p, held[p]>> : p \in Procs }
InUse == UNION { h[3] : h \in Holders }

\* A frame has one holder, and a frame's bit is set exactly when it is held or
\* not usable: over any interleaving of pmm_try_alloc and pmm_free with the
\* heap's page by page calls no frame is given out twice, none is lost, and
\* none outside the usable memory or inside the bitmap is given out at all.
FramesExact ==
  /\ TypeOK
  /\ Ran =>
       /\ IsInjective(kmap) /\ IsInjective(tables)
       /\ \A g, h \in Holders : g # h => g[3] \cap h[3] = {}
       /\ InUse \subseteq 0..(top - 1)
       /\ allocated = InUse \cup { b \in 0..(top - 1) : ~pmm__is_page_available(b) }
       /\ \A b \in InUse \ buffer : pmm__is_page_available(b)

\* Pages of the run the holder of heap_lock works on that are (still) mapped.
InCall ==
  IF call.op = "alloc" THEN Run(call.base, call.done)
  ELSE IF call.op = "free" /\ call.frame = None
       THEN Run(call.base + call.done, call.count - call.done)
  ELSE Run(call.base + call.done + 1, call.count - call.done - 1)

\* The runs liballoc has are disjoint, mapped from end to end and clear of the
\* guard pages, and no other heap page is mapped; a page's bit in heap_map is
\* set exactly for guard pages, mapped pages and the one being returned.
\* liballoc_alloc skips ahead over set bits (heap.c:82) and still finds the
\* first run that fits whenever there is one, and only such a run.
HeapExact ==
  Ran => /\ \A n \in 1..pages :
              LET free == { b \in 0..(pages - n) : Run(b, n) \cap heap_map = {} }
              IN  heap_search(n) = IF free = {} THEN None ELSE Min(free)
         /\ \A a, b \in blocks : a # b => Run(a[1], a[2]) \cap Run(b[1], b[2]) = {}
         /\ DOMAIN kmap = (UNION { Run(b[1], b[2]) : b \in blocks }) \cup InCall
         /\ DOMAIN kmap \cap {0, pages - 1} = {}
         /\ heap_map = {0, pages - 1} \cup DOMAIN kmap
              \cup (IF call.op = "free" /\ call.frame # None
                    THEN {call.base + call.done} ELSE {})

\* bitmap_set and bitmap_isset never fail
\* `assert_release(byte_index < self->buffer.size)` (bitmap.c:26, 41).
BitmapAssertHolds == mode # "bitmap_assert"
=============================================================================
