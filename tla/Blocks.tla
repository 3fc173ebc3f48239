-------------------------------- MODULE Blocks --------------------------------
(***************************************************************************)
(* The blocks the kernel heap hands out (kernel/src/mem/heap.c, "allocator") *)
(* behind the wrappers of klibc/src/mem/alloc.c: a block is carved out of a *)
(* region of the underlying malloc, its header lies just before the pointer *)
(* the caller gets, and every later operation finds the region through it.  *)
(* Memory is a row of cells; a header fills HDR of them.                    *)
(***************************************************************************)
EXTENDS Integers, Sequences

CONSTANTS Owners,      \* callers that each hold at most one block
          Cells,       \* cells of the heap, addresses 0..Cells-1
          HDR,         \* sizeof(heap_block_hdr)
          MaxAlign,    \* alignof(max_align_t)
          Aligns,      \* alignments callers ask for
          Sizes        \* sizes callers ask for

ASSUME BlocksAssumption ==
  /\ Cells \in Nat /\ HDR \in Nat \ {0} /\ MaxAlign \in Nat \ {0}
  /\ \E k \in 0..MaxAlign : MaxAlign = 2^k
  /\ Aligns \subseteq Nat \ {0} /\ Sizes \subseteq Nat \ {0}

VARIABLES mem,       \* what each cell holds
          regions,   \* regions malloc has handed out
          ptr,       \* the pointer each owner holds, Null for none
          want,      \* what each owner last stored in its block
          halted     \* a release assertion failed or NULL was dereferenced

bvars == <<mem, regions, ptr, want, halted>>

Null  == -1
Junk  == [kind |-> "junk"]
Zero  == [kind |-> "zero"]
Byte(o, i)    == [kind |-> "byte", owner |-> o, at |-> i]
HdrCell(h, j) == [kind |-> "hdr", hdr |-> h, part |-> j]
NoHdr == [base |-> Null, size |-> 0, align |-> MaxAlign, offset |-> 0]

Region(b, n) == [base |-> b, size |-> n]
Span(b, n)   == b..(b + n - 1)
-----------------------------------------------------------------------------
(* klibc: byte and alignment helpers                                       *)

align_ptr_up(p, align) == IF p % align = 0 THEN p ELSE p + align - (p % align)

is_alignment_valid(align) == align = 0 \/ \E k \in 0..align : align = 2^k

memset(m, dst, cell, n) == [a \in DOMAIN m |-> IF a \in Span(dst, n) THEN cell ELSE m[a]]

\* Mutant: the copy always runs upwards.
memmove_up(m, dst, src, n) ==
  LET copy[i \in 0..n] ==
        IF i = 0 THEN m ELSE [copy[i - 1] EXCEPT ![dst + i - 1] = copy[i - 1][src + i - 1]]
  IN  copy[n]

\* Cell by cell, upwards or downwards so that the source is read before it is
\* overwritten.
memmove(m, dst, src, n) ==
  LET at(i)           == IF dst < src THEN i - 1 ELSE n - i
      copy[i \in 0..n] ==
        IF i = 0 THEN m ELSE [copy[i - 1] EXCEPT ![dst + at(i)] = copy[i - 1][src + at(i)]]
  IN  copy[n]
-----------------------------------------------------------------------------
(* The underlying malloc, realloc and free: a region anywhere there is     *)
(* room, whose cells keep what they held; free leaves junk.                *)

places(rs, n) ==
  { b \in 0..(Cells - n) : \A r \in rs : Span(b, n) \cap Span(r.base, r.size) = {} }

\* Where realloc may put a region, and what it leaves in memory: in place when
\* it fits, or moved with the old contents copied and the old region freed.
in_place(r, n) == { b \in {r.base} : b \in places(regions \ {r}, n) }

realloc_mem(r, b, n) ==
  [a \in DOMAIN mem |->
     IF a \in Span(b, n) /\ a - b < r.size THEN mem[r.base + (a - b)]
     ELSE IF a \in Span(b, n) THEN mem[a]
     ELSE IF a \in Span(r.base, r.size) THEN Junk
     ELSE mem[a]]
-----------------------------------------------------------------------------
(* The block header                                                        *)

put_hdr(m, p, h) == [a \in DOMAIN m |-> IF a \in Span(p - HDR, HDR) THEN HdrCell(h, a - (p - HDR)) ELSE m[a]]

\* heap__hdr_for: the header before p when everything in it is consistent.  Its
\* callers never look whether they got one.
heap__hdr_for(p) ==
  LET h == mem[p - HDR].hdr
  IN  IF /\ p >= HDR /\ p < Cells
         /\ \A j \in 0..(HDR - 1) : mem[p - HDR + j].kind = "hdr" /\ mem[p - HDR + j] = HdrCell(h, j)
         /\ is_alignment_valid(h.align) /\ h.align >= MaxAlign
         /\ h.offset < h.align
         /\ h.size >= HDR + h.align - 1
         /\ h.base \in 0..(Cells - 1)
         /\ h.size <= Cells - h.base
         /\ h.base + HDR + h.offset = p
         /\ p % h.align = 0
      THEN h ELSE NoHdr

total(sz, align) == sz + HDR + (align - 1)

\* The header of a block of sz cells at the region's base, and its pointer.
header(base, sz, align) ==
  LET raw == base + HDR
  IN  [base |-> base, size |-> total(sz, align), align |-> align, offset |-> align_ptr_up(raw, align) - raw]

payload(h) == h.base + HDR + h.offset
-----------------------------------------------------------------------------
BInit ==
  /\ mem = [a \in 0..(Cells - 1) |-> Junk]
  /\ regions = {}
  /\ ptr = [o \in Owners |-> Null]
  /\ want = [o \in Owners |-> << >>]
  /\ halted = FALSE

Halt == halted' = TRUE /\ UNCHANGED <<mem, regions, ptr, want>>

\* A block out of a fresh region at base, its header written and its cells
\* cleared by the wrapper.
Carve(o, base, sz, align) ==
  LET h == header(base, sz, align)
  IN  /\ mem' = memset(put_hdr(mem, payload(h), h), payload(h), Zero, sz)
      /\ regions' = regions \cup {Region(base, h.size)}
      /\ ptr' = [ptr EXCEPT ![o] = payload(h)]
      /\ want' = [want EXCEPT ![o] = [i \in 1..sz |-> Zero]]
      /\ UNCHANGED halted

\* allocate_aligned (and allocate, which is allocate_aligned at MaxAlign): an
\* alignment that is odd, too small or no power of two, and a NULL from malloc,
\* fail an assertion of the wrapper.
allocate_aligned(o, sz, align) ==
  /\ ~halted /\ ptr[o] = Null
  /\ LET sound == align % 2 = 0 /\ align >= MaxAlign /\ is_alignment_valid(align)
         room  == places(regions, total(sz, align))
     IN  \/ sound /\ \E base \in room : Carve(o, base, sz, align)
         \/ (~sound \/ room = {}) /\ Halt

\* The owner stores into its block.
store(o) ==
  /\ ~halted /\ ptr[o] # Null
  /\ want' = [want EXCEPT ![o] = [i \in DOMAIN want[o] |-> Byte(o, i)]]
  /\ mem' = [a \in DOMAIN mem |-> IF a \in Span(ptr[o], Len(want[o])) THEN Byte(o, a - ptr[o] + 1) ELSE mem[a]]
  /\ UNCHANGED <<regions, ptr, halted>>

\* reallocate of a held block: the region is moved or resized with what it
\* holds, and the payload moved to where the new base needs it.  NULL, when
\* there is no room, leaves the block as it was.
reallocate(o, newsz) ==
  /\ ~halted /\ ptr[o] # Null
  /\ LET old   == heap__hdr_for(ptr[o])
         oldsz == Len(want[o])
         r     == Region(old.base, old.size)
         copy  == LET least == IF oldsz < newsz THEN oldsz ELSE newsz
                      fits  == old.size - HDR - old.offset
                  IN  IF least > fits THEN fits ELSE least
         n     == total(newsz, old.align)
         room  == in_place(r, n) \cup places(regions, n)
     IN  IF old = NoHdr THEN Halt
         ELSE IF room = {} THEN UNCHANGED bvars
         ELSE \E base \in room :
                LET h     == header(base, newsz, old.align)
                    moved == memmove(realloc_mem(r, base, n), payload(h), base + HDR + old.offset, copy)
                    kept  == put_hdr(moved, payload(h), h)
                IN  /\ mem' = memset(kept, payload(h) + oldsz, Zero, newsz - oldsz)
                    /\ regions' = (regions \ {r}) \cup {Region(base, n)}
                    /\ ptr' = [ptr EXCEPT ![o] = payload(h)]
                    /\ want' = [want EXCEPT ![o] = [i \in 1..newsz |-> IF i <= oldsz THEN want[o][i] ELSE Zero]]
                    /\ UNCHANGED halted

\* reallocate of a NULL pointer: allocate without the assertion on NULL, and
\* the wrapper clears what lies past the old size, 0.
reallocate_null(o, newsz) ==
  /\ ~halted /\ ptr[o] = Null
  /\ \E base \in places(regions, total(newsz, MaxAlign)) : Carve(o, base, newsz, MaxAlign)

\* deallocate, and reallocate to size 0.
deallocate(o) ==
  /\ ~halted /\ ptr[o] # Null
  /\ LET h == heap__hdr_for(ptr[o])
     IN  IF h = NoHdr THEN Halt
         ELSE /\ mem' = memset(mem, h.base, Junk, h.size)
              /\ regions' = regions \ {Region(h.base, h.size)}
              /\ ptr' = [ptr EXCEPT ![o] = Null]
              /\ want' = [want EXCEPT ![o] = << >>]
              /\ UNCHANGED halted

BNext ==
  \E o \in Owners :
    \/ \E sz \in Sizes, align \in Aligns : allocate_aligned(o, sz, align)
    \/ \E sz \in Sizes : reallocate(o, sz) \/ reallocate_null(o, sz)
    \/ store(o) \/ deallocate(o)

BSpec == BInit /\ [][BNext]_bvars
-----------------------------------------------------------------------------
\* Every block an owner holds is found again through the header before it, lies
\* aligned inside the one region it was carved from, and holds what its owner
\* last stored, whatever was allocated, moved, resized or freed since by any
\* owner; no region is left without an owner (heap_allocate_aligned,
\* heap_reallocate, heap_deallocate and the zeroing of reallocate).
BlocksKept ==
  /\ \A o \in Owners :
       ptr[o] # Null =>
         LET h == heap__hdr_for(ptr[o])
         IN  /\ h # NoHdr
             /\ Region(h.base, h.size) \in regions
             /\ Span(ptr[o], Len(want[o])) \subseteq Span(h.base + HDR, h.size - HDR)
             /\ \A i \in DOMAIN want[o] : mem[ptr[o] + i - 1] = want[o][i]
  /\ \A r \in regions : \E o \in Owners : ptr[o] # Null /\ heap__hdr_for(ptr[o]).base = r.base
=============================================================================
