# A TLA+ development for slightx

slightx is a small x86-64 SMP kernel in C (`src/sources/kernel`), with its
freestanding library (`klibc`), a user library (`ulibc`), a path library for a
future VFS (`libs/vfs`) and one demonstration program. There is no text
documentation and no test suite in the repository: the source, its comments and
its assertions are the reference. `assert` and `assert_release` are both active
in the default build, so a failed assertion stops the machine.

## Inventory

| Part | State it keeps | Operations | Interacts with | What makes it correct |
|---|---|---|---|---|
| Scheduler (`proc/scheduler/*`) | per processor: run queue, cleanup list, sleeper list, current task | enqueue, dequeue, find by id, yield, idle loop, tick, cleanup | called by tasks (system calls) and by the timer interrupt | a task is on the one list its state says; nobody ready starves; nobody freed is reachable |
| Task lifecycle (`proc/task.c`, `proc/spawn.c`) | state, reference count, joiners of every task | spawn, sleep, join, exit, fault, acquire, release | scheduler lists, wait queues, heap | no wakeup is lost, counts are exact, an exited task stays dead and is reaped |
| Capability table (`proc/capabilities.c`) | slots with generations, a free list, object reference counts | init, add, set, get, del, deinit | system calls, task init and deinit | an identifier names what it was granted for until released, then nothing; no slot is lost |
| Synchronisation (`klibc/sync`) | spin locks, wait queues, mutex, semaphore, condition variable, sync point | lock, try, unlock, acquire, release, wait, signal, broadcast | wait queue items owned by the caller | mutual exclusion, permits conserved, no lost wakeup |
| Physical memory (`mem/pmm.c`, `klibc/collections/bitmap.c`) | a bitmap of frames | load, try_alloc, alloc, free | memory map from the boot loader, all allocators | a frame has one owner; only usable frames are handed out |
| Heap pages (`mem/heap.c`) | a bitmap of heap pages, guard pages | liballoc_alloc, liballoc_free, the allocator interface | pmm, vmm, vendored liballoc | blocks are disjoint, mapped, and never on a guard page |
| Page tables (`mem/vmm.c`) | trees of tables in physical frames | map, unmap, translate, is_mapped, make, destroy, clone, fault | pmm, heap, tasks | a map changes one page, splitting preserves the others, destroy frees the user half only |
| TLB shootdown (`mem/vmm.c:430`) | base, count, acknowledgements, one lock | shootdown, handler | inter-processor interrupts | when it returns no processor uses the old translation |
| Task mappings (`proc/task.c:40-545`) | list of mappings of a task | mmap, munmap | vmm, pmm, shootdown | mappings are disjoint and match the page table |
| System calls (`proc/syscall.c`) | none | dispatch, validation | all of the above | no user range reaches the kernel half |
| Kernel entry (`proc/*.asm`, `boot/isr-stubs.asm`, `boot/interrupts`) | gs and its shadow, stacks, page map, registers, interrupt flag, saved frames | system call, interrupt, fault, trampolines, context switch | scheduler, handlers | every entry finds the processor's data and the task's own stack, every return restores the task's own state |
| Boot and processors (`main.c`, `cpu/mp.c`, `boot/*`) | goto address and argument of every processor, sync point, legacy interrupt controllers | start-up, ap jump, controller programming | scheduler_load on every processor | tasks start when every processor is set up; legacy lines end up masked |
| Linked lists (`runqueue.c`, `sleeperlist.c`, `waitqueue.c`, `scratch.c`) | head, tail, count, prev and next | add, take, remove, sweep, detach | scheduler, wait queues | the links hold the sequence of nodes the calls give, in both directions |
| Libraries (`klibc`, `ulibc`, `vfs`) | heap blocks with headers, buffers | allocate, reallocate, free, arena, split, format, conversions, paths | everything | blocks keep their contents; results as their reference definitions give |

What is hard: the timer interrupt runs between any two instructions of kernel
code that has interrupts enabled (system calls run with `sti`), and takes the
same spin locks; a joiner keeps a pointer to a task that the timer frees;
wait queues are walked without their lock; boot and TLB flush run on several
processors at once; every allocator has a limit and panics or fails there.

## Modules

### Scheduler

`Scheduler.tla` is one processor. In the booted system only the boot processor
ever has tasks (`kmain` spawns there, `spawn_*` enqueues on the current
processor, a woken task returns to `last_processor_id`, and the others run
`scheduler_idle_loop`), so this is the whole scheduler as it runs.

Scheduling is cooperative. A section between `cli` and the context switch is
one action. Kernel code running with interrupts enabled is cut where the timer
can see or disturb it: task_join in five steps (`join_begin`, `find_in_tasks`,
`find_in_cleanup`, `join_check`, `join_block`, and `join_return` after the
wakeup), spawn in three, exit in `exit_begin`, one `wake_ready`/`wake_enqueue`
pair per joiner, and `exit_finish`. `inside` names the structure the code is
working on, which decides what a tick does there: `tick_hangs` when the handler
would spin on a lock its own processor holds, and a search whose node is freed
under it becomes `stale`. `mode` leaves `"ok"` when the machine stops, with the
assertion that failed.

State: `state` is `task_state.type` plus `unborn` and `freed`; `refcount`,
`tasks`, `cleanup`, `sleepers`, `joiners` and `current` are the fields of those
names, linked lists as sequences; `left` is the number of ticks until
`timer_elapsed_ns >= duration_ns`; `waking` is the chain waitqueue_wake_all has
detached; `kind` is the DETACHED flag. Left out: memory (running out of it
panics), register contents, a task calling scheduler_yield while running (no
code does).

Fairness: weak fairness of the timer, of the idle loop and of kernel steps is
what a running processor gives. Tasks are assumed to give up the processor
again and again (strong fairness of `GiveUp`): the kernel does not enforce it.

### CapTable and CapSpec

`CapTable.tla` is the slot array with its growth, free list and generations;
every operation holds the table's lock, so each is one action. `CapSpec.tla`
is what the table promises: identifiers are granted, looked up and revoked, and
a revoked one stays dead until its slot's generation has wrapped.
`ImplementsCapSpec` is the refinement. The 16-bit limits are the constants
`MaxCap` and `GenMax`. The system calls that use a capability are in the model
as `sysc_cap`: the check of the user's range, the lookup, and the operation. A
reference that cap_table_get hands to such a call is never given back, so the
object's count only grows (`MaxGot` bounds it), and an empty range stops the
kernel on the debug assertion of the span (`mode = "empty_span"`).

### Sync

`Sync.tla` is the mutex, the semaphore and the condition variable of
`klibc/sync` with their wait queues. The primitives never block: they answer
that the caller should wait, and a later call wakes the caller's item. The
model adds threads that obey those answers; nothing in the kernel uses the
three yet. What a spin lock covers is one step; `mutex_unlock` and
`semaphore_release` are two or three (the count under the lock, the item off
the queue under the queue's lock, the call of the waiter after it), and
`condvar_broadcast` detaches the queue and then wakes item by item (`wake`),
while woken threads may come back. State: `owner`, `count` and the queues are
the structures' fields; `inside` and `held` are the threads that were told they
have the mutex or a permit; `chain` is what a waking thread has detached.

Fairness: a call that has begun is finished and a woken thread retries (weak);
a thread that holds something gives it back (strong: with others on the queue
its turn may come and go).

### Vmm and AddrSpec

`Vmm.tla` is the page tables: tables in frames, four levels, large pages at the
second and third level that `pd_split` breaks up, the kernel's map (inherited
from the boot loader, whose large pages the kernel's heap lies in) and a task's
map that copies the kernel's upper-half entries. Each call is one action: calls
on the kernel's map hold `vmm_lock`, a task's map is used by that task alone.
Frames come from `pmm_alloc`, which panics when there is none (`mode = "oom"`).
`AddrSpec.tla` is what page tables are for: two partial functions from pages to
pages. The refinement mapping walks the tables as the processor does; it shows
that mapping a page, whatever it splits and allocates, changes that block and
no other, and that unmapping removes one block.

Scaled: a table may have any even number of entries instead of 512. It has 2 in
the run, so the address space has 16 pages, 8 of them the kernel's; 2MB and 1GB
pages are 2 and 4 pages. Left out:
five-level tables, `vmm_clone_page_map` (no caller), flags other than LARGE and
USER, and the TLB, which has its own module.

### Memory

`Memory.tla` is the frame bitmap (`pmm.c`) and the page runs the heap gives to
liballoc (`heap.c`). Boot is four actions (find the top, reserve the bitmap,
scan the memory map, `heap_load`), each of which may stop the machine. After it,
processors take and return frames (one action each: pmm's lock), and the holder
of `heap_lock` takes or returns a run page by page (`heap_take`,
`heap_map_page`; `heap_unmap`, `heap_release`) while others use pmm. The first
processors to allocate at the same time are the started ones, in
`scheduler_load`. State: `allocated` and `heap_map` are the bitmaps as sets of
bits, `buffer` and `heapbuf` where they are stored, `kmap` the heap's part of
the page map, `tables` the page tables it took, `call` the run being worked on.
Left out: the clearing of frames and the limit `kernel_region_end`. A heap run
for which there are no frames stops the machine in `pmm_alloc`
(`mode = "heap_no_frames"`): the roll back written for that case is never
reached. The block headers above liballoc are in `Blocks.tla`.

### TaskMem

`TaskMem.tla` is a user task's memory: spawning (program, stack, startup block),
the mmap and munmap system calls with their range checks in machine words that
wrap, and `task_deinit`. The page map is a function from pages to frames plus
the tables it needs; `pool`, the frames free at the spawn, is a history variable
the frame property compares with. `task_deinit` does not return the frames of
the program, the startup block and mappings that were left, and the model's next
task starts with fewer.

### Shootdown

`Shootdown.tla` is `vmm_shootdown_range` and its interrupt handler on any number
of processors. Each store to the shared request is a step, and so are the
handler's reading, flushing and acknowledging. Only the boot processor calls it
in the booted system; the model lets any processor call it, as its lock does.
Fairness: code under way goes on, masked sections end (weak), and a pending
interrupt is taken when they do (strong).

### Entry

`Entry.tla` is one processor going in and out of the kernel: the system call
stub, the interrupt and exception stubs with the gates' masking and stacks, the
two trampolines a task begins on, `task_context_switch`, and what the handlers
do to the processor. A step is a run of instructions between two points where
an interrupt matters; registers are reduced to whose they are. State: `gs` and
`kgs` are the two base registers, `rsp0` and `krsp` the owners of the stacks in
`tss.rsp0` and `syscall_kernel_rsp`, `ursp` the per-processor word the stub
parks the user's stack pointer in, `frame`, `iframe` and `context` what is
saved on which stack. Scheduling is reduced to a run queue; which waits end and
when is Scheduler's matter, here any may.

Two things the properties name as exceptions. The user trampoline executes
`swapgs` and then `iretq` with interrupts enabled, so an interrupt between the
two finds the user's gs in kernel mode and uses it as the per-processor data.
And a fault in kernel mode halts the processor, although the system calls that
read a user's buffer count on a fault killing the task (`syscall.c:21-23`).

Fairness: weak fairness of `Kernel`, the steps of code the processor is in.
Programs, interrupts and waits owe nothing.

### Boot

`Boot.tla` runs `bootstrap` and `ap_start`: `todo` is what each processor still
has to execute, one entry per call that matters to another one or to a later
step. The legacy controllers are programmed write by write, since every
processor programs the same pair without a lock and their initialisation words
interleave. `mp_ap_jump` stores the jump address before the argument, in two
steps; a processor that jumps in between has no argument to start on (`lost`),
which `BootCompletes` names. Missing firmware tables panic, and a panic before
`madt` has been parsed asks for the processor's data and panics again
(`outcome = "recursing"`). Fairness: weak, per processor.

### Links and ListSpec

`Links.tla` has the linked lists pointer by pointer. `use` says, from the first
call on, which of them a behaviour is about: run queue and cleanup list (which share the links
in the task), a wait queue, the sleepers, or the blocks of the user library's
scratch allocator. `m` is the memory: head, tail and count of lists, prev and
next of nodes. The links of freed nodes are `Dangling`, and no operation may
follow them. `waitqueue_wake_all` detaches in one step and then walks without the
lock (`cursor`) while items it has woken are added again and a second thread
wakes what has been added. `ListSpec.tla` is the abstraction Scheduler and Sync
are written in, sequences; the refinement mapping walks the links, and maps to
no sequence at all where the two directions, the tail or the count disagree.

`runqueue_remove` has no caller. `waitqueue_del` is called by `task_join` after
its second look at the target; it must not be passed an item that a wake_all has
detached and not reached yet (the guard in the model), because the item's links
say it is on a list and its successor would become the head of the queue.

### Text, Blocks, Startup and Library

`Text.tla` has the pure algorithms with their reference definitions: conversion
of numbers, the formatter with its two passes, splitting, path normalisation. A
string that `%s` prints may have no data at all (`str_null`): it adds nothing to
the length, and `memcpy`'s assertion on its source (`bytes.c:8`) stops the copy.

`vfs_path_normalize` compares a component with ".." through
`vfs_path_as_str(path)` (`path.c:51`), which takes the path by value and answers
a pointer into that parameter (`path.c:6-13`). The parameter is dead when the
comparison reads it, so what is read is undefined. In the model every component
of two characters may be taken for ".." or not: an input of the call, `parents`,
is the set of those that are. `NormalizeExact` is relative to it: with whatever
outcome of the comparisons, the result is a normal form within the room, in which
the components in `parents` have removed their parents and the others are kept.

`Startup.tla` is what task_init does to lay out and copy a task's arguments:
computed size, arena offsets, and one translation per object; its one action
leaves what it made in `started`. Two exceptions
are named in the property: an object that crosses into a page whose frame is
not the next one is written elsewhere, and an empty last string that ends
exactly on a page is translated beyond the block and panics. Empty strings have
data here; one without would stop at `memcpy`'s assertion, as above.

`Blocks.tla` is the heap's allocator interface. Memory is a row of cells and a
block's header occupies cells before its payload, so that a header written over
a payload, or a payload moved after its header, is visible. The malloc
underneath is external: it places regions anywhere they fit, `realloc` moves or
extends as it likes, and freed cells hold junk. `Library.tla` puts these
together, and with Links: one call of an algorithm with enumerated inputs, or
any sequence of heap operations, or of list operations. Each is begun from the
fresh state only, so that they add to the states instead of multiplying them.

## Runs

| Run | Bounds | Shows |
|---|---|---|
| `sched` | 3 tasks, 2 at boot in any mix of kernel and user, delays of 1 and 2 ticks | all invariants and liveness of the scheduler |
| `sched_join_blocked` | same | joining a sleeping or joining task fails `assert(target_task != NULL)` |
| `captable` | 1 object, 4 slots grown from 3 (clamped as 0x8000 to 0xFFFF is), 2 generations | free list, counts, limit, the capability system calls, refinement |
| `sync` | 4 threads, 1 permit | exclusion, permits, wait queues, and that waiters are served |
| `vmm` | 6 frames for tables, 2 kernel and 3 task pages, all page sizes, both forms of boot map | tables own their frames, the kernel's half is shared, translation, refinement of AddrSpec |
| `memory` | 2 processors, 6 memory maps of 12 to 16 pages, runs of 1 to 3 pages | frames have one holder, heap runs are disjoint and mapped, the search misses nothing |
| `memory_bitmap_short` | 2 of those maps | boot fails `assert_release(byte_index < self->buffer.size)` |
| `taskmem` | 10 frames, 6 user pages besides the reserved ones, 13 addresses, 9 lengths | mappings match the page map, frames are conserved, also when a mapping fails half way |
| `shootdown` | 3 processors, 2 pages | no stale translation after a return; every shootdown returns |
| `entry` | 2 user tasks and 1 kernel task, any of them there at boot | gs, stacks, page map and registers are right wherever they are used; masked interrupts come back |
| `boot` | 3 processors, the boot processor second in the loader's list | tasks start only when all are set up; legacy lines are masked at the end; start-up finishes |
| `lib` | heap of 15 cells, 2 owners, sizes 1 and 3, alignments 2 and 4; 4-bit numbers, formats of 2 pieces; strings of 5 to split; paths of 7 with every outcome of their comparisons with ".."; 2 arguments and 2 environment strings of up to 3 characters; lists of 3 nodes, 2 threads in waitqueue_wake_all | blocks keep their contents and headers; the linked lists implement ListSpec; strings, formats, paths and start-up blocks are as their reference definitions say |

The memory maps put the top on and off a bitmap page's boundary, let the bitmap
use up an entry, leave holes, spare bits, reserved memory above the top and too
little memory; bytes have 2 bits and pages 2 bytes, so that each bitmap takes
several frames. One kind of map is left out: where the last free run is shorter
than the heap's bitmap and the frame bitmap has spare bits, `pmm_try_alloc`
hands out pages behind the end of memory (`pmm.c:54`). The task's arguments
include unaligned, reserved, kernel-half and wrapping ones. With three
processors one sender waits for two others while one of them waits for the lock.

Two user tasks can each be inside a system call, blocked or freed while the
other enters on the same per-processor words; the kernel task begins on the
other trampoline and is interrupted in kernel mode. Two started processors are
what it takes for their controller writes to interleave, and the third, whose
place in the list is not the first, has the loop of `mp_ap_jump`, which stores
for every processor, store its own jump address between theirs; nothing polls it.

In `lib`, fifteen cells hold two blocks with headers and one region to move to,
with bases on both sides of an alignment; four bits include the lowest number;
paths reach the limit (`VFS_PATH_MAX` is 7 there) with three components, or two
of two characters, each compared with ".."; the start-up strings, on pages of 16
cells, end before, on and behind a page's end, and the frames offered (1, 2, 3,
5) are consecutive or not; three nodes let one leave from the middle of a list
and two detached chains coexist. Deadlock is not checked there, because a call
ends its behaviour and a failed assertion stops the machine; in `captable` for
the second reason.

Four threads are a holder, two waiters and a third party that can barge in
between an unlock and its wakeup; with one permit the count goes below zero.
The two kernel pages are one inside a large page of the boot map (mapping it
splits once or twice) and one outside, the task's three share all, some and
none of their tables, and six frames run out on some paths.

Three tasks allow a spawner, a target and a joiner, or two joiners of one
target; two delays let sleepers wake in and out of order. One object suffices
for the table because slots are told apart by index; four slots let the free
list be walked in its middle.

## Proofs

Every theorem holds for all values of the constants that satisfy the module's
named assumptions; each invariant was checked by TLC on the run's instance
before it was proved. Proofs go action by action, one lemma per action or kind
of step.

| Module | Theorem | States | Assumes |
|---|---|---|---|
| `SchedulerProofs` | `StartupStaysIntact` | `StartupIntact` | a page and an alignment of one cell or more |
| `SchedulerProofs` | `TypeCorrect`, `QueuesDisciplined`, `WakeupsKept`, `RefcountsExact`, `DeadStayDead`, `JoinsAcyclic` | `TypeOK`, `QueueDiscipline`, `NoLostWakeup`, `RefcountExact`, `DeadStaysDead`, `NoJoinCycle` | finitely many tasks; a boot list without repetition; positive delays |
| `CapTableProofs` | `TypeCorrect`, `RefcountsExact`, `FreeListStaysExact`, `TableImplementsCapSpec` | `TypeOK`, `RefcountExact`, `FreeListExact`, `ImplementsCapSpec` | a capacity and a number of generations above zero |
| `SyncProofs` | `MutexSafe`, `MutexNotForgotten`, `WaitersSafe`, `PermitsSafe`, `WaitersCountSafe` | the five safety properties of `Sync` | finitely many threads |
| `SyncProofs` | `LinksImplementListSpec` | `ImplementsListSpec` | finitely many nodes, which are neither NULL nor freed memory's contents |
| `VmmProofs` | `Refines`, `TablesAreExact`, `TranslationsAreExact` | `ImplementsAddrSpec`, `TablesExact`, `TranslationsExact` | tables of any even number of entries; the heap's pages behind the directory's middle entry, a task's in its lower half; frames other than 0 and the three of the boot map |
| `VmmProofs` | `NoStaleTranslation` | `Flushed` | two or more processors, finitely many |
| `TaskMemProofs` | `MappingsStayExact`, `FramesStayAccounted` | `MappingsExact`, `FramesAccounted` | the layout's parts page-aligned, in their order, in the lower half of the words; any page size, depth of tables, frames and arguments |
| `ProcessorProofs` | `PerCpuAlwaysReached`, `AlwaysReturnsHome`, `AlwaysOnOwnStack` | `PerCpuReached`, `ReturnsHome`, `OnOwnStack` | finitely many tasks, users apart from kernel tasks |
| `ProcessorProofs` | `LoadedBeforeAnyTask`, `LinesMasked` | `LoadedBeforeTasks`, `PicMasked` | the boot loader lists every processor once |
| `MemoryProofs` | `FramesStayExact`, `RoomyFramesExact`, `HeapStaysExact` | `FramesExact`, `HeapExact` | memory maps as `MemoryAssumption` says; requests of one page or more |
| `MemoryProofs` | `BlocksStayKept` | `BlocksKept` | the header, sizes and alignments are of one cell or more; the highest alignment is a power of two |

`ListFacts.tla` holds what they share: what the queue operations do to the set
of the items on a list, that a set of naturals has a least member, induction
over a set of naturals (`SetInduction`), that a function defined step by step
exists (`StepsExist`) and what its steps keep holds of it (`StepsKeep`), and
division. `VmmProofs` has both models of `vmm.c`, `ProcessorProofs` both of a processor's
own code, its start-up and its entries, `MemoryProofs` both of `heap.c`,
`SchedulerProofs` the start-up block with the life of tasks, and `SyncProofs` the
linked lists that wait queues are; `Shootdown`, `Boot`, `Blocks`, `Startup` and
`Links` have names of their own for their specifications, so that
they can be extended beside another module.

### Scheduler

Types are inductive on their own, except that counts stay natural because
`task_release` stops at zero, by its assertion. The rest needs one invariant:
`Unique` (no list holds a task twice), `Queued` and `Waits` (what QueueDiscipline
and NoLostWakeup say, task by task), `Placed` (where a task is in the kernel, its
state and its target agree; a search returns a task that is ready or has exited,
and that stays so until the searcher blocks, since only the timer runs in
between), `Sections` (whoever gives up the processor is inside no structure, and
only an exiting task has joiners to wake) and `Counted` (the count is exact, and
only an object that exists is referenced). `scheduler_yield` ends five of the actions;
`Parked` says what its callers have arranged, so that it is proved once.
`DeadStaysDead` follows step by step, as states only move as the invariant lets
them. For `NoJoinCycle` a step that blocks is the only one that can close a
cycle, and the task it blocks on is in no join.

### CapTable

The count of an object is followed through the set of the slots that hold it.
For the free list the invariant names the list: there is a sequence of slots
without repetition along which the links lead from `free_head` to the end, and
its slots are the empty ones below `next_unused`; the slots from there on are
empty. The operations take one slot out of it (`Unlinks`) or put a run in front
of it (`Prepends`). That the code's walk, a recursive function, visits that
sequence is shown by induction (`WalkEnds`), and that such a function exists by
exhibiting it (`WalkExact`).

`TableImplementsCapSpec` is the refinement of `CapSpec` under the mapping in
`CapTable.tla`: every step of the table is a step of the abstract store on the
identifiers in use, or a stutter.

### Sync

The invariant is
`TypeOK /\ Listed /\ Holding /\ MutualExclusion /\ Pending /\ Counts`.
`Listed` is `WaitersListed` put thread by thread; nothing else could be proved
without it, because a wakeup under way changes the state of a thread that some
queue once held. `Holding` (a holder is not waiting, and holds one thing) is
what makes a granted permit a new member of `held`, so that the cardinalities
add up. `Pending` is `MutexWakeupPending` with its witness named. Each kind of
step has a lemma: a move, joining a queue, detaching items, waking one.

### Page tables

`TablesExact` and `TranslationsExact` are about walks, and a change to one entry
is seen by every walk that passes it. The invariant of `VmmProofs` therefore
gives every table a place (`Placed`): whose it is, the kernel's or the task's, its
level, and the part of the address space that goes through it. No two tables have
the same place, an entry leads to the place below it, and every table is led to.
Then the walk of a page passes exactly the tables whose place contains it, so an
entry that is set moves the pages of its block and no other (`Moved`), one that is
cleared removes them (`Gone`), and splitting a large page or making an empty table
changes no page (`Same`). The operations are put together from these:
`pd_get_or_create` level by level, `vmm_map` of each size, the 1GB page that a
processor without such pages gets as a table of 2MB pages, `vmm_unmap`, making a
task's map and destroying it.

`Refines` says what each call does to the two address spaces. `TablesAreExact`
adds that the places are counted: the tables that a walk over all prefixes finds
and the tables there are correspond one to one. `TranslationsAreExact` adds that
the task's copy of the directory's upper half shows what the kernel's own shows,
because the one slot the heap lies behind is filled before the first task is made.

### Task mappings

A call works on a space: a page map, its tables, and pmm's frames. `Sound` says
that every frame is at one place in it. Each operation keeps it: a table, the
tables of a page, a page, a run of pages with given frames (`Ran`), a run with
fresh frames (`Backed`, with what the roll-back leaves), pages given back
(`Released`); runs are recursive functions of the number of pages done. The
invariant `IInv` says of a living task that its space is sound and backs its
mappings (`Backs`): the pages of the startup block, the stack and the readable
mappings are mapped, only the program's own pages are mapped besides, with frames
the program came in, and no frame that pmm had at the spawn is missing, unless
it was the program's. The mappings lie below the startup block and apart from each other
(`Placed`); that a request that is granted has such room (`Room`), where no sum
has wrapped, is arithmetic of multiples of the page size.

### Shootdown

A stale translation is ruled out when the caller returns, so the invariant has
to say what the acknowledgement counter means. `LockHeld`: one caller at a time
is between taking the lock and returning. `Ranges`: a caller's range is unmapped
and its own processor has no translation of it. `Quiet`: no handler runs unless
a request has been sent, so none can answer a later one. `Stored`: when the
request is sent it is the caller's range, and the counter is zero. `Answers`:
handlers have read that range, the counter is the number of processors that are
done, and those have dropped it. A full count then means that all the others are
done (`AllDone`).

### Entries and exits

The invariant speaks of the code outside the interrupt stubs. While an
interrupt is handled that code stands still, and the frame says at which label,
on which stack and with which flag, so an interrupt and its return change
nothing the invariant sees. By label it says whose gs, stack, registers and page
map are in place, whether interrupts are masked, and what a task that is not
running has been switched away with. The one exception, an interrupt inside the
user trampoline, is named in the property.

### Start-up

Every processor is at a position of its program, 30 steps for the boot processor
and 23 for the others, so what it has loaded is what lies behind it
(`Furnished`). `Reported`: once it is set, the sync point counts the processors
that have not reported. `Masking`: a legacy controller is silent, or some
processor has more bytes left to write to it than the controller takes as
initialisation words; hence whoever writes last writes the mask, in whatever
order the processors' writes fall.

### Memory

A frame is in a bitmap, in a heap page, in a page table, in the hand of a call
under way or held for something else, and in one of these only (`Apart`); the
bits set are these frames and those the boot's scan left unavailable (`Bits`,
with `Scanned` for what each stage of the boot leaves to the next). For the heap,
`Calling` and `Pages` say how far the one call under way has come in its run.
`SearchExact` shows that `liballoc_alloc`'s search, which skips ahead inside its
loop, returns the first run that fits: the first run satisfies the loop's
equation, and two solutions would differ at some last page, from which the loop
goes on to a later one.

`FramesStayExact` has a hypothesis, `heapbuf \subseteq 0..(top - 1)`. The proof
does not go through without it: `pmm_try_alloc` (pmm.c:54-58) ends a search for
several pages at the bitmap's end and not at the top page, so with spare bits
behind the top and no free run long enough below it `heap_load` is given frames
that do not exist. It is the only caller that asks for more than one page.
`RoomyFramesExact` replaces the hypothesis by one on the machine: `Roomy`, one
usable entry of the memory map is long enough for both bitmaps, about 2 pages of
every 32768. `Provided` follows what is left of that entry through the boot: a
row of free frames below the top (`Vacant`), which the first-fit search cannot
pass. Two of the run's machines are roomy; on the others `FramesExact` is checked
without either hypothesis.

### Heap blocks

`BInv` says of every block an owner holds that its header lies right before its
payload and adds up, that header and payload are inside one region, that no two
blocks share a region, and that the payload holds what was stored. A step that
writes cells leaves alone every block whose region those cells are not in
(`Untouched`), and a step that frees or moves a region replaces one block
(`Replaced`). `MemmoveIs` shows that the overlapping move, forwards or backwards
cell by cell, ends with each cell of the target holding what its source held
first; `RefilledIs` puts it together with the header that is written afterwards,
for a block that realloc moved to a base of another alignment. Malloc is
external, so wherever it places a region is a case of the proof. `BSpec` is the
heap's own specification; `Library` interleaves its steps with others that leave
the heap alone.

### Start-up block

The sum of the rounded sizes (`SumsAre`, `SumsGrow`) is what both the size and
the arena's offsets are made of, so the arena's assertion holds for every object
and only an empty one can lie at the very end. `PagesHold` says that an object
that is not empty lies on the pages that were allocated, and `SameDistance` that
with consecutive frames a cell is as far from the object's first one in the
direct map as it is in the task.

### Linked lists

The invariant `Stands` gives for every list, and for what every detached walk has
still to visit, the sequence its pointers spell out: `next` and `prev` of each
node name its neighbours, head, tail and count are those of the sequence, no node
is twice in one or in two of them, and a node in none has both links NULL or both
`Dangling`. The links themselves bound nothing, so that the refinement mapping
really finds these sequences (`ReadIs`) needs `WalkIs`, which follows a chain
with one step per node, and `NotLonger`, which has the finitely many nodes stop
it. Every operation then cuts a node out of one sequence, puts one in or swaps
one (`CutsOut`, `PutsIn`, `SwapsIn`, each with the reasoning about ends and
neighbours done once), moves a whole sequence to a walk (`DetachedIn`), or drops
one (`DroppedOut`). The loop of a sweep is an induction over its rounds
(`SweptOn`): behind the loop's place the list is what was kept, before it what
it was. `Meant` says that only lists of the kind a behaviour is about hold
anything, which `waitqueue_del` needs: an item it finds off every list is on no
task list either. `LSpec` is the lists' own specification; `Library` interleaves
its steps with others that leave them alone.

### What is only model-checked

- Liveness under fairness (`ReadyRuns`, `JoinReturns`, `ZombieReaped`,
  `MutexTaken`, `PermitServed`, `BroadcastWakes`, `ShootdownReturns`,
  `EnabledAgain`, `BootCompletes`): the prover has no rules for fairness and
  ENABLED.
- `Text` (`StringsExact`, `NormalizeExact`) and `Library`, which extends it:
  RECURSIVE operators over texts, whose results for every input are inductions
  over data.
- `LiveTargetFound` and `BitmapAssertHolds`, which do not hold (next section).

## What the checks disagree with

`sched_join_blocked`: `task_join` asserts that its target is found
(`task.c:580`), but a task that sleeps or is itself joining is on none of the
lists that are searched. `memory_bitmap_short`: `bitmap_set` asserts that a
frame has a bit (`bitmap.c:41`), but the bitmap's size is rounded down
(`pmm.c:137`), and a page count just above a multiple of 32768 has frames
without one.

`vfs_path_normalize` disagrees with its own comment: `path.c:49` says that a ".."
pops the parent, but the comparison that decides it reads a dead copy of the
path, so a ".." may be kept as a name and another name of two characters may pop.
The model assumes no more than that (see Text), which is why there is no run
against the comment. Nothing in the repository calls the function yet.

Some hazards in `PROJECT.json` are behaviours the code has and no line of the
repository denies. The models reach them, the property next to them names them
as its exception or counts them as given, and so no property catches them: the
spin locks that the timer handler takes (`lock.c:17`, `mode = "hung"`), the
references that the capability system calls keep (`syscall.c:135`), the
interrupt in the user trampoline (`task-trampoline.asm:49`), the halt on a
kernel-mode fault (`vmm.c:178`), the early jump of a started processor
(`mp.c:67`), the panic before `madt` (`panic.c:12`), start-up objects on frames
that are not consecutive (`task.c:279`), the program frames that a fixed mapping
hides (`task.c:432`), and the frames lost when a task ends (`task.c:339`).

## Not modelled

- Drivers, logging, panics' output, port and register access: I/O and text.
- The user library's system call wrappers and its copies of the kernel library
  (strings, formats, arena, byte moves are the same text and are modelled once).
- The undefined-behaviour reporters: printing, called by instrumented code. That
  `%d` of the lowest number is itself such an event is listed as a hazard.
- liballoc and Limine's header (vendored), the demonstration program, and the
  message headers of `libs/vfs` (declarations without code).
- Five-level page tables (the same walk, one level longer), `vmm_clone_page_map`,
  `pic_irq_set_mask` and `pic_irq_clear_mask`, registering callbacks of legacy
  lines: nothing calls them.
- `sysc_spawn`'s checks of the pointers inside the start-up information it is
  given; encodings of descriptors, page flags other than LARGE and USER.

## Plan

What is left unproved is the library's algorithms on texts and liveness, which
are beyond the provers.
