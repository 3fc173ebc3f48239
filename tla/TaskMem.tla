------------------------------- MODULE TaskMem -------------------------------
(***************************************************************************)
(* A user task's memory: its address space as spawn_user_task and          *)
(* task_init lay it out, the mmap and munmap system calls with their       *)
(* checks, and task_deinit (kernel/src/proc/task.c, spawn.c, syscall.c).   *)
(* Addresses and lengths are bytes in words of Word values; a page has     *)
(* PageSize bytes.  The task alone changes its map and nothing else runs   *)
(* in its system calls but the timer, so each call is one action.          *)
(***************************************************************************)
EXTENDS Integers, FiniteSetsExt, SequencesExt

CONSTANTS Word, PageSize,
          USER_CODE_BASE, SearchBase, USER_STARTUP_BASE, USER_STACK_TOP, USER_VA_END,
          ProgramPages, StartupPages, StackPages,  \* how many of each a task has
          Spans,      \* pages a page table covers, level by level from the root down
          Frames,     \* frames pmm can give
          Addrs, Lengths   \* system call arguments

ASSUME LayoutAssumption ==
  /\ PageSize \in Nat \ {0} /\ Word \in Nat
  /\ {ProgramPages, StartupPages, StackPages} \subseteq Nat
  /\ \A a \in {USER_CODE_BASE, SearchBase, USER_STARTUP_BASE, USER_STACK_TOP, USER_VA_END} :
       a \in Nat /\ a % PageSize = 0
  /\ 0 < USER_CODE_BASE /\ USER_CODE_BASE + ProgramPages * PageSize <= SearchBase
  /\ SearchBase < USER_STARTUP_BASE
  /\ USER_STARTUP_BASE + (StartupPages + StackPages) * PageSize <= USER_STACK_TOP
  /\ USER_STACK_TOP < USER_VA_END /\ 2 * USER_VA_END <= Word
  /\ Frames \subseteq Nat /\ Spans \in Seq(Nat \ {0})
  /\ Addrs \subseteq 0..(Word - 1) /\ Lengths \subseteq 0..(Word - 1)

PagesAt(base, n) == (base \div PageSize)..(base \div PageSize + n - 1)
Program  == PagesAt(USER_CODE_BASE, ProgramPages)
Startup  == PagesAt(USER_STARTUP_BASE, StartupPages)
Stack    == PagesAt(USER_STACK_TOP - StackPages * PageSize, StackPages)
Reserved == PagesAt(USER_STARTUP_BASE, (USER_STACK_TOP - USER_STARTUP_BASE) \div PageSize)
\* The user stack's frames are heap pages; pmm does not get them back from here.
StackFrame == -1

VARIABLES alive,     \* between spawn_user_task and task_deinit
          mappings,  \* task.mappings, a list whose order nothing depends on
          pmap,      \* the lower half of the page map: page to frame
          tables,    \* its tables: <<span, index>> with the frame
          free,      \* frames pmm has
          image,     \* the frames the program was loaded into
          pool,      \* history: the frames pmm had when the task was spawned
          mode       \* "ok", or how the machine stopped

vars == <<alive, mappings, pmap, tables, free, image, pool, mode>>

Mapping == [base : Nat, count : Nat \ {0}, read : BOOLEAN]

TypeOK ==
  /\ alive \in BOOLEAN /\ mappings \subseteq Mapping
  /\ DOMAIN pmap \subseteq 0..(USER_VA_END \div PageSize) /\ Range(pmap) \subseteq Frames \cup {StackFrame}
  /\ Range(tables) \subseteq Frames /\ {free, image, pool} \subseteq SUBSET Frames
  /\ mode \in {"ok", "no_frames", "translate"}

Init ==
  /\ alive = FALSE /\ mappings = {} /\ pmap = << >> /\ tables = << >>
  /\ free = Frames /\ image = {} /\ pool = {} /\ mode = "ok"
-----------------------------------------------------------------------------
\* An address space while a call works on it.
Space == [pmap |-> pmap, tables |-> tables, free |-> free, ok |-> TRUE]

\* An entry set.
Put(fn, x, v) == [y \in DOMAIN fn \cup {x} |-> IF y = x THEN v ELSE fn[y]]

\* pmm_alloc for the table t: panics without a frame.
AddTable(s, t) ==
  IF t \in DOMAIN s.tables \/ ~s.ok THEN s
  ELSE IF s.free = {} THEN [s EXCEPT !.ok = FALSE]
  ELSE [s EXCEPT !.tables = Put(@, t, Min(s.free)), !.free = @ \ {Min(s.free)}]

\* vmm_map of one page: the tables it lacks, from the root down, then the entry.
vmm_map(s, page, frame) ==
  LET made[l \in 0..Len(Spans)] ==
        IF l = 0 THEN s ELSE AddTable(made[l - 1], <<Spans[l], page \div Spans[l]>>)
      t == made[Len(Spans)]
  IN  IF t.ok THEN [t EXCEPT !.pmap = Put(@, page, frame)] ELSE t

\* Pages mapped one after the other to the given frames.
MapRun(s, from, frames) ==
  LET run[i \in 0..Len(frames)] ==
        IF i = 0 THEN s ELSE vmm_map(run[i - 1], from + i - 1, frames[i])
  IN  run[Len(frames)]

\* Mutant: the frames are not given back.
Release_unfreed(s, pages) == [s EXCEPT !.pmap = Restrict(@, DOMAIN @ \ pages)]

\* vmm_unmap and pmm_free of mapped pages, each of which is translated first.
Release(s, pages) ==
  [s EXCEPT !.free = @ \cup { s.pmap[p] : p \in pages },
            !.pmap = Restrict(@, DOMAIN @ \ pages)]

\* The next page of a run with a frame of its own; `refused` when pmm_try_alloc
\* finds none.
MapNext(r, page) ==
  LET f == Min(r.s.free)
  IN  IF r.refused \/ ~r.s.ok THEN r
      ELSE IF r.s.free = {} THEN [r EXCEPT !.refused = TRUE]
      ELSE [s |-> vmm_map([r.s EXCEPT !.free = @ \ {f}], page, f),
            refused |-> FALSE, mapped |-> r.mapped + 1]

\* Fresh frames for a run of pages, in order; when one is refused the pages
\* mapped so far are given back.
MapFresh(s, from, n) ==
  LET run[i \in 0..n] ==
        IF i = 0 THEN [s |-> s, refused |-> FALSE, mapped |-> 0]
        ELSE MapNext(run[i - 1], from + i - 1)
      r == run[n]
  IN  IF r.refused THEN [r EXCEPT !.s = Release(@, from..(from + r.mapped - 1))] ELSE r

Commit(s) == pmap' = s.pmap /\ tables' = s.tables /\ free' = s.free

\* The frames of the program's pages: the lowest there are, in order; none if
\* there are too few.
Images ==
  { f \in [1..ProgramPages -> free] :
      /\ \A i, j \in 1..ProgramPages : i < j => f[i] < f[j]
      /\ \A x \in Range(f), y \in free \ Range(f) : x < y }

\* spawn_user_task: the image's frames first, then task_init with the directory
\* (in tables as the whole space), the stack and the startup block.
spawn_user_task ==
  LET img   == CHOOSE f \in Images : TRUE
      root  == AddTable([Space EXCEPT !.free = @ \ Range(img)], <<0, 0>>)
      stack == MapRun(root, USER_STACK_TOP \div PageSize - StackPages,
                      [i \in 1..StackPages |-> StackFrame])
      start == MapFresh(stack, USER_STARTUP_BASE \div PageSize, StartupPages)
      done  == MapRun(start.s, USER_CODE_BASE \div PageSize, img)
  IN  /\ ~alive /\ mode = "ok"
      /\ IF Images = {} \/ start.refused \/ ~done.ok
         THEN mode' = "no_frames" /\ UNCHANGED <<alive, pmap, tables, free, image, pool>>
         ELSE /\ alive' = TRUE /\ image' = Range(img) /\ pool' = free
              /\ Commit(done) /\ UNCHANGED mode
      /\ UNCHANGED mappings
-----------------------------------------------------------------------------
\* Sums wrap as machine words do.
is_user_range_ok(addr, len) ==
  \/ len = 0
  \/ (addr + len) % Word >= addr /\ (addr + len) % Word <= USER_VA_END

\* task__round_to_page, for lengths it accepts.
Rounds(len)     == len # 0 /\ len <= (Word - 1) - (PageSize - 1)
RoundUp(len)    == ((len + PageSize - 1) \div PageSize) * PageSize

EndOf(m) == m.base + m.count * PageSize

\* Mutant: only the first byte of the range is looked up.
task__mapping_overlaps_start(base, len) ==
  \E m \in mappings : base >= m.base /\ base < EndOf(m)

task__mapping_overlaps(base, len) ==
  \E m \in mappings : ~((base + len) % Word <= m.base \/ base >= EndOf(m))

task__range_hits_reserved(base, len) ==
  ~((base + len) % Word <= USER_STARTUP_BASE \/ base >= USER_STACK_TOP)

\* The address a request gets, or 0 for NULL.
FixedAt(addr, len) ==
  IF \/ addr = 0 \/ addr % PageSize # 0
     \/ addr > USER_STACK_TOP \/ len > USER_STACK_TOP - addr
     \/ task__range_hits_reserved(addr, len)
     \/ task__mapping_overlaps(addr, len)
  THEN 0 ELSE addr

Anywhere(len) ==
  LET gaps == { c \in SearchBase..(USER_STARTUP_BASE - len) :
                  (c - SearchBase) % PageSize = 0 /\ ~task__mapping_overlaps(c, len) }
  IN  IF len > USER_STARTUP_BASE - SearchBase \/ gaps = {} THEN 0 ELSE Min(gaps)

\* Frames back the mapping only if it is to be readable.
task_mmap(addr, length, fixed, read) ==
  LET len  == RoundUp(length)
      base == IF ~Rounds(length) THEN 0
              ELSE IF fixed THEN FixedAt(addr, len) ELSE Anywhere(len)
      n    == len \div PageSize
      run  == IF read THEN MapFresh(Space, base \div PageSize, n)
              ELSE [s |-> Space, refused |-> FALSE]
  IN  IF base = 0 THEN UNCHANGED <<mappings, pmap, tables, free, mode>>
      ELSE /\ Commit(run.s)
           /\ mode' = IF run.s.ok THEN "ok" ELSE "no_frames"
           /\ mappings' = IF run.refused \/ ~run.s.ok THEN mappings
                          ELSE mappings \cup {[base |-> base, count |-> n, read |-> read]}

sysc_mmap(addr, length, fixed, read) ==
  /\ alive /\ mode = "ok"
  /\ length # 0 /\ (addr # 0 => is_user_range_ok(addr, length))
  /\ task_mmap(addr, length, fixed, read)
  /\ UNCHANGED <<alive, image, pool>>

\* Only a range that is exactly one mapping is unmapped.
task_munmap(addr, length) ==
  LET len    == RoundUp(length)
      exact  == { m \in mappings : addr = m.base /\ addr + len = EndOf(m) }
      m      == CHOOSE x \in exact : TRUE
      pages  == PagesAt(m.base, m.count)
  IN  IF addr = 0 \/ ~Rounds(length) \/ addr > USER_STACK_TOP
         \/ len > USER_STACK_TOP - addr \/ exact = {}
      THEN UNCHANGED <<mappings, pmap, tables, free, mode>>
      ELSE IF m.read /\ ~(pages \subseteq DOMAIN pmap)
      THEN mode' = "translate" /\ UNCHANGED <<mappings, pmap, tables, free>>
      ELSE /\ mappings' = mappings \ {m}
           /\ Commit(IF m.read THEN Release(Space, pages) ELSE Space)
           /\ UNCHANGED mode

sysc_munmap(addr, length) ==
  /\ alive /\ mode = "ok"
  /\ length # 0 /\ is_user_range_ok(addr, length)
  /\ task_munmap(addr, length)
  /\ UNCHANGED <<alive, image, pool>>

\* The mappings' records and the tables are freed; the frames that were still
\* mapped are not.
task_deinit ==
  /\ alive /\ mode = "ok" /\ alive' = FALSE
  /\ mappings' = {} /\ pmap' = << >> /\ tables' = << >>
  /\ free' = free \cup Range(tables)
  /\ image' = {} /\ pool' = {}
  /\ UNCHANGED mode

Next ==
  \/ spawn_user_task \/ task_deinit
  \/ \E addr \in Addrs, length \in Lengths :
       \/ sysc_munmap(addr, length)
       \/ \E fixed, read \in BOOLEAN : sysc_mmap(addr, length, fixed, read)

Spec == Init /\ [][Next]_vars
-----------------------------------------------------------------------------
PagesOf(m) == PagesAt(m.base, m.count)
Live       == alive /\ mode = "ok"

\* "must be page-aligned, non-NULL, and base+length must not wrap nor cross out
\* of the user-accessible range, nor land in any kernel-reserved sub-range"
\* (task.c:429-431): whatever sequence of calls the task makes, its mappings are
\* aligned, disjoint and clear of the startup block and the stack, both of which
\* stay mapped, and the page map holds exactly the readable mappings' pages and
\* what the kernel put there, each page with a frame of its own.
MappingsExact ==
  /\ TypeOK
  /\ Live =>
    /\ \A m \in mappings : /\ m.base > 0 /\ m.base % PageSize = 0
                       /\ EndOf(m) <= USER_STACK_TOP
                       /\ PagesOf(m) \cap Reserved = {}
    /\ \A m, n \in mappings : m # n => PagesOf(m) \cap PagesOf(n) = {}
    /\ Startup \cup Stack \cup UNION { PagesOf(m) : m \in { x \in mappings : x.read } }
         \subseteq DOMAIN pmap
    /\ DOMAIN pmap \subseteq Startup \cup Stack \cup Program
         \cup UNION { PagesOf(m) : m \in { x \in mappings : x.read } }
    /\ \A p, q \in DOMAIN pmap \ Stack : p # q => pmap[p] # pmap[q]

\* While a task lives no frame is lost or used twice, also when task_mmap runs
\* out half way and rolls back: a frame is free, a table, or mapped, and the one
\* exception is a page of the program that a fixed mapping was laid over.  The
\* pages of a mapping can always be translated when it is unmapped.
FramesAccounted ==
  /\ mode # "translate"
  /\ Live =>
       LET mapped == Range(pmap) \ {StackFrame}
       IN  /\ free \cap (mapped \cup Range(tables)) = {}
           /\ mapped \cap Range(tables) = {}
           /\ IsInjective(tables)
           /\ pool \ (free \cup mapped \cup Range(tables)) \subseteq image
=============================================================================
