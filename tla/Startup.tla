-------------------------------- MODULE Startup -------------------------------
(***************************************************************************)
(* The start-up information task_init copies into a new user task          *)
(* (kernel/src/proc/task.c): its size is computed first, that many pages   *)
(* are allocated one by one and mapped, an arena (klibc/src/mem/arena.c)   *)
(* lays the objects out in the task's addresses, and each object is written *)
(* through the kernel's direct map, translated once, at its first address. *)
(* Addresses are cells; the block starts at address 0 of the task.         *)
(***************************************************************************)
EXTENDS Integers, Sequences, SequencesExt

CONSTANTS ALIGN,    \* alignof(max_align_t)
          INFO,     \* sizeof(task_user_startup_info)
          STR,      \* sizeof(str)
          PAGE,     \* MM_VIRT_PAGE_SIZE
          MaxArgs,  \* arguments, or environment strings, of a new task
          MaxText,  \* length of such a string
          Frames    \* frames the start-up pages may get

ASSUME StartupAssumption ==
  /\ ALIGN \in Nat \ {0} /\ INFO \in Nat /\ STR \in Nat /\ PAGE \in Nat \ {0}
  /\ MaxArgs \in Nat /\ MaxText \in Nat /\ Frames \subseteq Nat

VARIABLE started    \* the task that was made, with its start-up block

align_size_up(n, align) == IF n % align = 0 THEN n ELSE n + align - (n % align)

\* The sizes the arena is asked for, in order, for arguments and environment
\* strings of the given lengths.
requests(args, envs) == <<INFO, Len(args) * STR, Len(envs) * STR>> \o args \o envs

\* The sum of the first k sizes, for every k.
sums(sizes) ==
  LET sum[k \in 0..Len(sizes)] == IF k = 0 THEN 0 ELSE sum[k - 1] + sizes[k]
  IN  sum

rounded(sizes) == [k \in 1..Len(sizes) |-> align_size_up(sizes[k], ALIGN)]

\* Mutant: the lengths are added up without their alignment.
get_size_unaligned(args, envs) == LET r == requests(args, envs) IN sums(r)[Len(r)]

\* task_user_startup_info__get_size
get_size(args, envs) == LET r == requests(args, envs) IN sums(rounded(r))[Len(r)]

page_count(args, envs) == align_size_up(get_size(args, envs), PAGE) \div PAGE

\* arena_allocate for each request in turn: where each object lies, and whether
\* the arena's assertion on the space left held for all of them.
layout(args, envs) ==
  LET sizes  == rounded(requests(args, envs))
      offset == sums(sizes)
  IN  [at   |-> [k \in 1..Len(sizes) |-> offset[k - 1]],
       fits |-> \A k \in 1..Len(sizes) : get_size(args, envs) - offset[k - 1] >= sizes[k]]

\* task_vaddr_to_kernel_vaddr: a direct-map address, or a panic when the page is
\* not mapped.  frames[k] is the frame of the k-th page.
translatable(frames, va) == va \div PAGE < Len(frames)
kernel_vaddr(frames, va) == frames[va \div PAGE + 1] * PAGE + (va % PAGE)

\* Cells an object of sz cells at va is written to, in order.
written(frames, va, sz) == [i \in 1..sz |-> kernel_vaddr(frames, va) + i - 1]

\* task_init's copy of the start-up information.
copy_startup_info(args, envs, frames) ==
  LET l == layout(args, envs)
      r == requests(args, envs)
  IN  IF ~l.fits THEN [result |-> "assertion", cells |-> << >>]
      ELSE IF \E k \in 1..Len(r) : ~translatable(frames, l.at[k]) THEN [result |-> "panic", cells |-> << >>]
      ELSE [result |-> "copied", cells |-> [k \in 1..Len(r) |-> written(frames, l.at[k], r[k])]]

\* Texts by their lengths, frames for n pages in any order.
Lengths       == UNION { [1..k -> 0..MaxText] : k \in 0..MaxArgs }
Placements(n) == { f \in [1..n -> Frames] : \A i, j \in 1..n : i # j => f[i] # f[j] }

NotYet == [result |-> "none"]

SInit == started = NotYet

startup ==
  /\ started = NotYet
  /\ \E args \in Lengths, envs \in Lengths : \E frames \in Placements(page_count(args, envs)) :
       LET made == copy_startup_info(args, envs, frames)
       IN  started' = [result |-> made.result, cells |-> made.cells, args |-> args, envs |-> envs, frames |-> frames]

SSpec == SInit /\ [][startup]_started
-----------------------------------------------------------------------------
(* Reference                                                               *)

\* Where the task finds the i-th cell of the object at va.
reads(frames, va, i) == kernel_vaddr(frames, va + i - 1)

\* The pages an object covers have consecutive frames.
Consecutive(frames, va, sz) ==
  \A i \in 1..sz : frames[(va + i - 1) \div PAGE + 1] = frames[va \div PAGE + 1] + (va + i - 1) \div PAGE - va \div PAGE

\* An empty object lies just past the last page.
EndsOnPage(args, envs) ==
  /\ get_size(args, envs) % PAGE = 0
  /\ Last(requests(args, envs)) = 0

\* The size task_init computes is exactly what the arena lays out, so the copy
\* never runs into the arena's assertion; it panics only when an empty string
\* ends exactly on a page; and whenever the pages each object covers got
\* consecutive frames, the task reads every object where it was written.
StartupIntact ==
  started # NotYet =>
    LET l == layout(started.args, started.envs)
        r == requests(started.args, started.envs)
    IN  /\ started.result = IF EndsOnPage(started.args, started.envs) THEN "panic" ELSE "copied"
        /\ (/\ started.result = "copied"
            /\ \A k \in 1..Len(r) : Consecutive(started.frames, l.at[k], r[k])) =>
             \A k \in 1..Len(r) : \A i \in 1..r[k] : started.cells[k][i] = reads(started.frames, l.at[k], i)
=============================================================================
