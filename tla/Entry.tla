-------------------------------- MODULE Entry --------------------------------
(***************************************************************************)
(* How one processor enters and leaves the kernel: the system call stub,   *)
(* the interrupt and exception stubs, the two trampolines a task starts    *)
(* on, and the switch from one task's stack to another's                   *)
(* (kernel/src/proc/*.asm, kernel/src/boot/isr-stubs.asm), with what the   *)
(* handlers they call do to the processor.                                 *)
(*                                                                         *)
(* A step is a run of instructions between two points where an interrupt   *)
(* matters.  Registers are reduced to whose they are.  Scheduler says      *)
(* which waits end and when; here any of them may.                         *)
(***************************************************************************)
EXTENDS Sequences, FiniteSets, SequencesExt

CONSTANTS Users, Kernels, Idle, None

Tasks == Users \cup Kernels

ASSUME EntryAssumption ==
  /\ IsFiniteSet(Tasks) /\ Users \cap Kernels = {}
  /\ Idle \notin Tasks /\ None \notin Tasks \cup {Idle}

VARIABLES
  current,   \* scheduler.current
  state,     \* task_state of every task
  tasks,     \* the run queue
  cleanup,   \* the zombies the timer may free
  pc,        \* the instructions the processor is at
  cpl,       \* its privilege level
  intr,      \* the interrupt flag
  gs,        \* IA32_GS_BASE: the per-processor data, or what user code left there
  kgs,       \* IA32_KERNEL_GS_BASE
  cr3,       \* whose page map is loaded
  rsp,       \* the stack in use
  regs,      \* the task whose user registers are loaded
  rsp0,      \* owner of the stack tss.rsp0 points to
  krsp,      \* owner of the stack syscall_kernel_rsp points to
  ursp,      \* syscall_user_rsp
  frame,     \* the syscall_frame on each task's kernel stack
  iframe,    \* the interrupt_frame of the interrupt being handled
  context    \* the task_context each task was switched away with

sched == <<current, state, tasks, cleanup>>
mode  == <<cpl, intr>>
gsb   == <<gs, kgs>>
stubs == <<ursp, frame>>
tss   == <<rsp0, krsp>>
cpu   == <<cr3, rsp, regs>>
vars  == <<sched, pc, mode, gsb, cpu, tss, stubs, iframe, context>>

Owners    == Tasks \cup {Idle, None}
Stacks    == {"kernel", "user", "ist1", "boot"} \X Owners
KStack(t) == <<"kernel", t>>
UStack(t) == <<"user", t>>
IST1      == <<"ist1", None>>
Boot      == <<"boot", None>>

\* Where a processor can be outside the interrupt stubs.
Labels ==
  {"user", "entry_swapgs", "entry_stack", "entry_push", "entry_sti", "exit_cli", "exit_pop",
   "exit_swapgs", "sysret", "running", "resumed", "kill", "kill_cli", "yield", "switch",
   "tramp_user", "tramp_iretq", "tramp_kernel", "idle", "hlt"}

\* task_init: a user task begins on the user trampoline, a kernel task on the
\* other, with interrupts enabled (rflags 0x202).
task_init(t) ==
  [pc |-> IF t \in Users THEN "tramp_user" ELSE "tramp_kernel", intr |-> TRUE, rsp |-> KStack(t)]

\* kmain has spawned some tasks and yields, on the stack it was booted on.
Init ==
  /\ current = Idle
  /\ \E B \in SUBSET Tasks : /\ B # {}
                             /\ tasks \in SetToSeqs(B)
                             /\ state = [t \in Tasks |-> IF t \in B THEN "ready" ELSE "unborn"]
  /\ cleanup = {}
  /\ pc = "yield" /\ cpl = 0 /\ intr = TRUE
  /\ gs = "percpu" /\ kgs = "percpu"
  /\ cr3 = None /\ rsp = Boot /\ regs = None
  /\ rsp0 = None /\ krsp = None /\ ursp = None
  /\ frame = [t \in Tasks |-> None] /\ iframe = None
  /\ context = [t \in Tasks \cup {Idle} |-> task_init(t)]
-----------------------------------------------------------------------------
(* User mode.                                                              *)

\* A program may load its gs selector, which sets the base.
load_gs ==
  /\ pc = "user" /\ gs' = "user"
  /\ UNCHANGED <<sched, pc, mode, kgs, cpu, tss, stubs, iframe, context>>

\* syscall: FMASK masks interrupts, the stack stays the user's.
syscall ==
  /\ pc = "user" /\ pc' = "entry_swapgs" /\ cpl' = 0 /\ intr' = FALSE
  /\ UNCHANGED <<sched, gsb, cpu, tss, stubs, iframe, context>>
-----------------------------------------------------------------------------
(* syscall_entry_stub                                                      *)

entry_swapgs ==
  /\ pc = "entry_swapgs" /\ pc' = "entry_stack" /\ gs' = kgs /\ kgs' = gs
  /\ UNCHANGED <<sched, mode, cpu, tss, stubs, iframe, context>>

\* The user's rsp goes through the per-processor data onto the kernel stack,
\* with the other registers.
entry_stack ==
  /\ pc = "entry_stack" /\ gs = "percpu" /\ pc' = "entry_push"
  /\ ursp' = rsp /\ rsp' = KStack(krsp)
  /\ UNCHANGED <<sched, mode, gsb, cr3, regs, tss, frame, iframe, context>>

entry_push ==
  /\ pc = "entry_push" /\ gs = "percpu" /\ pc' = "entry_sti"
  /\ frame' = [frame EXCEPT ![rsp[2]] = [rsp |-> ursp, regs |-> regs]]
  /\ UNCHANGED <<sched, mode, gsb, cpu, tss, ursp, iframe, context>>

entry_sti ==
  /\ pc = "entry_sti" /\ pc' = "running" /\ intr' = TRUE
  /\ UNCHANGED <<sched, cpl, gsb, cpu, tss, stubs, iframe, context>>

\* Mutant: the registers are restored with interrupts on.
exit_cli_none ==
  /\ pc = "exit_cli" /\ pc' = "exit_pop"
  /\ UNCHANGED <<sched, mode, gsb, cpu, tss, stubs, iframe, context>>

exit_cli ==
  /\ pc = "exit_cli" /\ pc' = "exit_pop" /\ intr' = FALSE
  /\ UNCHANGED <<sched, cpl, gsb, cpu, tss, stubs, iframe, context>>

exit_pop ==
  /\ pc = "exit_pop" /\ pc' = "exit_swapgs"
  /\ rsp' = frame[rsp[2]].rsp /\ regs' = frame[rsp[2]].regs
  /\ frame' = [frame EXCEPT ![rsp[2]] = None]
  /\ UNCHANGED <<sched, mode, gsb, cr3, tss, ursp, iframe, context>>

exit_swapgs ==
  /\ pc = "exit_swapgs" /\ pc' = "sysret" /\ gs' = kgs /\ kgs' = gs
  /\ UNCHANGED <<sched, mode, cpu, tss, stubs, iframe, context>>

\* r11 holds the user's flags, interrupts on.
sysret ==
  /\ pc = "sysret" /\ pc' = "user" /\ cpl' = 3 /\ intr' = TRUE
  /\ UNCHANGED <<sched, gsb, cpu, tss, stubs, iframe, context>>
-----------------------------------------------------------------------------
(* What a task does in the kernel, in a system call or as a kernel task.   *)

\* syscall_handler returns to the stub.
syscall_return ==
  /\ pc = "running" /\ current \in Users /\ pc' = "exit_cli"
  /\ UNCHANGED <<sched, mode, gsb, cpu, tss, stubs, iframe, context>>

spawn(t) ==
  /\ pc = "running" /\ state[t] = "unborn"
  /\ state' = [state EXCEPT ![t] = "ready"] /\ tasks' = Append(tasks, t)
  /\ UNCHANGED <<current, cleanup, pc, mode, gsb, cpu, tss, stubs, iframe, context>>

\* task_join and task_sleep: cli, task_set_blocked, scheduler_yield.
wait ==
  /\ pc = "running" /\ gs = "percpu"
  /\ pc' = "yield" /\ intr' = FALSE
  /\ state' = [state EXCEPT ![current] = "blocked"]
  /\ UNCHANGED <<current, tasks, cleanup, cpl, gsb, cpu, tss, stubs, iframe, context>>

\* Mutant: the task goes on with interrupts masked.
wait_return_masked ==
  /\ pc = "resumed" /\ pc' = "running"
  /\ UNCHANGED <<sched, mode, gsb, cpu, tss, stubs, iframe, context>>

\* ... and the sti after it, when the task has been switched back to.
wait_return ==
  /\ pc = "resumed" /\ pc' = "running" /\ intr' = TRUE
  /\ UNCHANGED <<sched, cpl, gsb, cpu, tss, stubs, iframe, context>>

\* task_exit, from a system call or at the end of a kernel task's function.
task_exit ==
  /\ pc = "running" /\ pc' = "kill"
  /\ UNCHANGED <<sched, mode, gsb, cpu, tss, stubs, iframe, context>>

Wakes(W) == [t \in Tasks |-> IF t \in W THEN "ready" ELSE state[t]]
Blocked  == { t \in Tasks : state[t] = "blocked" }

\* scheduler_kill_current_task: the task becomes a zombie and wakes its
\* joiners, with interrupts as they are ...
kill(W) ==
  /\ pc = "kill" /\ gs = "percpu" /\ pc' = "kill_cli" /\ W \subseteq Blocked
  /\ state' = [Wakes(W) EXCEPT ![current] = "zombie"]
  /\ tasks' = tasks \o SetToSeq(W)
  /\ UNCHANGED <<current, cleanup, mode, gsb, cpu, tss, stubs, iframe, context>>

\* Mutant: interrupts stay on while the running task is put up for freeing.
kill_cli_none ==
  /\ pc = "kill_cli" /\ pc' = "yield"
  /\ cleanup' = cleanup \cup {current}
  /\ UNCHANGED <<current, state, tasks, mode, gsb, cpu, tss, stubs, iframe, context>>

\* ... then masks them, puts itself up for freeing and yields for good.
kill_cli ==
  /\ pc = "kill_cli" /\ pc' = "yield" /\ intr' = FALSE
  /\ cleanup' = cleanup \cup {current}
  /\ UNCHANGED <<current, state, tasks, cpl, gsb, cpu, tss, stubs, iframe, context>>
-----------------------------------------------------------------------------
(* scheduler_yield and task_context_switch                                 *)

yield ==
  /\ pc = "yield" /\ pc' = "switch" /\ intr' = FALSE
  /\ UNCHANGED <<sched, cpl, gsb, cpu, tss, stubs, iframe, context>>

\* Mutant: only the stack for interrupts follows the task.
stacks_rsp0(new) == rsp0' = new /\ UNCHANGED krsp

\* tss.rsp0 and syscall_kernel_rsp point to the new task's kernel stack.
stacks(new) == rsp0' = new /\ krsp' = new

Resume == IF current = Idle THEN "idle" ELSE "resumed"

\* The next task, or the idle one, gets the page map, the stacks and the
\* registers.
switch ==
  LET queue == IF current # Idle /\ state[current] = "running" THEN Append(tasks, current) ELSE tasks
      new   == IF queue = << >> THEN Idle ELSE Head(queue)
  IN  /\ pc = "switch" /\ gs = "percpu"
      /\ current' = new
      /\ tasks' = IF queue = << >> THEN queue ELSE Tail(queue)
      /\ state' = [t \in Tasks |-> IF t = new THEN "running"
                                   ELSE IF t \in Range(queue) THEN "ready" ELSE state[t]]
      /\ IF new = current
         THEN /\ pc' = Resume
              /\ UNCHANGED <<intr, cr3, rsp, tss, context>>
         ELSE /\ cr3' = new /\ stacks(new)
              /\ context' = [context EXCEPT ![current] = [pc |-> Resume, intr |-> intr, rsp |-> rsp]]
              /\ pc' = context[new].pc /\ intr' = context[new].intr /\ rsp' = context[new].rsp
      /\ regs' = None /\ iframe' = None
      /\ UNCHANGED <<cleanup, cpl, gsb, stubs>>

\* scheduler_idle_loop: sti; hlt.  The cli that follows the interrupt is also
\* the first thing scheduler_yield does.
idle ==
  /\ pc = "idle" /\ pc' = "hlt" /\ intr' = TRUE
  /\ UNCHANGED <<sched, cpl, gsb, cpu, tss, stubs, iframe, context>>
-----------------------------------------------------------------------------
(* The trampolines                                                         *)

task_kernelmode_trampoline ==
  /\ pc = "tramp_kernel" /\ pc' = "running"
  /\ UNCHANGED <<sched, mode, gsb, cpu, tss, stubs, iframe, context>>

\* Interrupts are enabled here and stay so through swapgs ...
task_usermode_trampoline ==
  /\ pc = "tramp_user" /\ pc' = "tramp_iretq" /\ gs' = kgs /\ kgs' = gs
  /\ UNCHANGED <<sched, mode, cpu, tss, stubs, iframe, context>>

\* ... until iretq.
tramp_iretq ==
  /\ pc = "tramp_iretq" /\ pc' = "user" /\ cpl' = 3 /\ intr' = TRUE
  /\ rsp' = UStack(current) /\ regs' = current
  /\ UNCHANGED <<sched, gsb, cr3, tss, stubs, iframe, context>>
-----------------------------------------------------------------------------
(* Interrupts and exceptions                                               *)

Lapic      == {"timer", "panic", "tlb_flush", "spurious"}
Legacy     == {"irq"}
Exceptions == {"page_fault", "other"}

\* The gates of idt_init and lapic_configure_timer: every one masks
\* interrupts; the local controller's and page faults use the first
\* interrupt stack, the others the task's, or rsp0 when they come from a user.
gate_stack(vector) ==
  IF vector \in Lapic \cup {"page_fault"} THEN IST1
  ELSE IF cpl = 3 THEN KStack(rsp0)
  ELSE rsp

\* An interrupt_frame: what the processor pushes, and the general and control
\* registers the stub pushes after it.
Frames == [vector : Lapic \cup Legacy \cup Exceptions, pc : Labels, cpl : {0, 3}, intr : BOOLEAN,
           rsp : Stacks, regs : Owners, cr3 : Owners]

ASSUME FrameAssumption == None \notin Frames

deliver(vector) ==
  /\ iframe' = [vector |-> vector, pc |-> IF pc = "hlt" THEN "yield" ELSE pc,
                cpl |-> cpl, intr |-> intr, rsp |-> rsp, regs |-> None, cr3 |-> None]
  /\ pc' = "stub" /\ cpl' = 0 /\ intr' = FALSE /\ rsp' = gate_stack(vector)
  /\ UNCHANGED <<sched, gsb, cr3, regs, tss, stubs, context>>

\* An interrupt comes whenever they are enabled.  (All legacy lines are masked;
\* their controller can still raise a spurious one.)
interrupt(vector) == vector \in Lapic \cup Legacy /\ intr /\ deliver(vector)

\* An exception is raised by a user's instruction, or by the kernel's use of a
\* pointer a system call gave it.
exception(vector) ==
  /\ vector \in Exceptions /\ (pc = "user" \/ (pc = "running" /\ current \in Users))
  /\ deliver(vector)

from_user == iframe.cpl = 3

\* What the stubs push and pop: general and control registers.
Registers(f) == [f EXCEPT !.regs = regs, !.cr3 = cr3]

\* common_stub: swapgs when a user was interrupted, then the registers.
stub ==
  /\ pc = "stub" /\ pc' = "handler" /\ regs' = None
  /\ IF from_user THEN gs' = kgs /\ kgs' = gs ELSE UNCHANGED gsb
  /\ iframe' = Registers(iframe)
  /\ UNCHANGED <<sched, mode, cr3, rsp, tss, stubs, context>>

stub_return == pc' = "stub_exit"

\* lapic_timer_handler: scheduler_tick wakes sleepers and frees zombies.
timer(W, Z) ==
  /\ pc = "handler" /\ iframe.vector = "timer" /\ gs = "percpu" /\ stub_return
  /\ W \subseteq Blocked /\ Z \subseteq cleanup
  /\ state' = [t \in Tasks |-> IF t \in Z THEN "freed" ELSE Wakes(W)[t]]
  /\ tasks' = tasks \o SetToSeq(W) /\ cleanup' = cleanup \ Z
  /\ UNCHANGED <<current, mode, gsb, cpu, tss, stubs, iframe, context>>

\* The other controller interrupts and the legacy lines, which have no
\* callback, leave all this alone.
acknowledge ==
  /\ pc = "handler" /\ iframe.vector \in {"tlb_flush", "spurious", "irq"} /\ stub_return
  /\ UNCHANGED <<sched, mode, gsb, cpu, tss, stubs, iframe, context>>

\* pagefault_handler kills the task when the fault came from user mode.
kills == iframe.vector = "page_fault" /\ iframe.cpl = 3

\* scheduler_kill_current_task, on the interrupt stack; the switch to another
\* task abandons the frame there.
segfault ==
  /\ pc = "handler" /\ kills /\ gs = "percpu"
  /\ pc' = "kill"
  /\ UNCHANGED <<sched, mode, gsb, cpu, tss, stubs, iframe, context>>

\* lapic_panic_handler; exc_handler for any other exception.
stop ==
  /\ pc = "handler" /\ iframe.vector \in {"panic"} \cup Exceptions /\ ~kills
  /\ pc' = "halt"
  /\ UNCHANGED <<sched, mode, gsb, cpu, tss, stubs, iframe, context>>

\* The end of common_stub restores the registers, cr3 too, and gs.
stub_exit ==
  /\ pc = "stub_exit" /\ pc' = "iretq"
  /\ regs' = iframe.regs /\ cr3' = iframe.cr3
  /\ IF from_user THEN gs' = kgs /\ kgs' = gs ELSE UNCHANGED gsb
  /\ UNCHANGED <<sched, mode, rsp, tss, stubs, iframe, context>>

iretq ==
  /\ pc = "iretq"
  /\ pc' = iframe.pc /\ cpl' = iframe.cpl /\ intr' = iframe.intr /\ rsp' = iframe.rsp
  /\ iframe' = None
  /\ UNCHANGED <<sched, gsb, cr3, regs, tss, stubs, context>>

\* Kernel code that takes whatever gs holds for the per-processor data.
PerCpuCode ==
  \/ pc \in {"entry_stack", "entry_push", "kill", "switch"}
  \/ pc = "handler" /\ iframe.vector \in {"timer", "page_fault"}

\* It does not get any further when that is something else.
stray ==
  /\ PerCpuCode /\ gs # "percpu" /\ ~(pc = "handler" /\ iframe.vector = "page_fault" /\ ~kills)
  /\ pc' = "halt"
  /\ UNCHANGED <<sched, mode, gsb, cpu, tss, stubs, iframe, context>>

\* halt: hlt, again and again.
halt == pc = "halt" /\ UNCHANGED vars
-----------------------------------------------------------------------------
Stub == \/ entry_swapgs \/ entry_stack \/ entry_push \/ entry_sti
        \/ exit_cli \/ exit_pop \/ exit_swapgs \/ sysret

Switching == \/ \E W \in SUBSET Blocked : kill(W)
             \/ kill_cli \/ yield \/ switch \/ idle \/ wait_return
             \/ task_kernelmode_trampoline \/ task_usermode_trampoline \/ tramp_iretq

Handler == \/ stub \/ acknowledge \/ segfault \/ stop \/ stub_exit \/ iretq \/ stray
           \/ \E W \in SUBSET Blocked, Z \in SUBSET cleanup : timer(W, Z)

\* What the processor does by itself, against what programs and devices choose.
Kernel == Stub \/ Switching \/ Handler

Next ==
  \/ Kernel \/ halt
  \/ load_gs \/ syscall \/ syscall_return \/ wait \/ task_exit
  \/ \E t \in Tasks : spawn(t)
  \/ \E v \in Lapic \cup Legacy : interrupt(v)
  \/ \E v \in Exceptions : exception(v)

Fairness == WF_vars(Kernel)

Spec == Init /\ [][Next]_vars /\ Fairness
-----------------------------------------------------------------------------
(* Properties                                                              *)

\* Every place where the kernel takes gs for its per-processor data
\* (mp_get_percpu_data, the gs: accesses of the system call stub) is reached
\* with that data in gs, whatever user code has put there and whatever was
\* interrupted.  The exception is an interrupt between the swapgs and the
\* iretq of task_usermode_trampoline, which run with interrupts enabled.
PerCpuReached ==
  PerCpuCode => gs = "percpu" \/ (iframe # None /\ iframe.pc = "tramp_iretq")

\* A task in user mode runs with its own registers, stack and page map, with
\* interrupts enabled; its next system call and its next interrupt will run on
\* its own kernel stack, which holds nothing.
ReturnsHome ==
  cpl = 3 =>
    /\ current \in Users /\ state[current] = "running" /\ intr
    /\ regs = current /\ rsp = UStack(current) /\ cr3 = current
    /\ rsp0 = current /\ krsp = current
    /\ frame[current] = None /\ iframe = None

\* The kernel runs on the current task's stack, or on the interrupt stack, and
\* never on the stack or the page map of a task that has been freed; on a user's
\* stack it takes no interrupt; the stack of a task that has been switched away
\* still holds what it needs to go on.
OnOwnStack ==
  /\ \/ rsp = KStack(current)
     \/ rsp = UStack(current) /\ (cpl = 3 \/ ~intr)
     \/ rsp = Boot /\ current = Idle
     \/ rsp = IST1 /\ iframe # None
  /\ current # Idle => state[current] # "freed"
  /\ cr3 \in {current, None}
  /\ \A t \in Tasks \ {current} : state[t] \in {"ready", "blocked"} =>
       /\ context[t].rsp = KStack(t)
       /\ t \in Users /\ context[t].pc = "resumed" => frame[t] = [rsp |-> UStack(t), regs |-> t]

\* Interrupts, once masked, are enabled again, unless the processor has been
\* stopped: no path through the stubs, the waits, the exits or the first run of
\* a task leaves them off.
EnabledAgain == ~intr ~> (intr \/ pc = "halt")
=============================================================================
