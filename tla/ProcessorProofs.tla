--------------------------- MODULE ProcessorProofs ---------------------------
(***************************************************************************)
(* A processor's start-up, for any number of processors, and its entries   *)
(* to the kernel and exits from it, for any number of programs and kernel  *)
(* tasks.                                                                  *)
(*                                                                         *)
(* Entries and exits: gs, the stacks, the page map and the registers stay  *)
(* straight.  The invariant speaks of the code that runs outside the       *)
(* interrupt stubs.  While an interrupt is handled that code stands still  *)
(* and the frame says where: label, stack, flag and user are those of the  *)
(* interrupted code then, so that an interrupt and its return change none  *)
(* of them.                                                                *)
(*                                                                         *)
(* Start-up: however it is interleaved, no task is started before every    *)
(* processor is set up, and the legacy controllers end up silent.  The     *)
(* invariant puts every processor at a position of its program, so that    *)
(* what it has done and what it has still to do can be counted: the tables *)
(* it has loaded, the bytes it still writes to a controller, and whether   *)
(* it has reported to the sync point.                                      *)
(***************************************************************************)
EXTENDS Entry, Boot, ListFacts, TLAPS, FiniteSetTheorems

-----------------------------------------------------------------------------
(* The inductive invariant                                                 *)

\* The processor is in the interrupt stub or the handler it calls, on behalf of
\* nobody: the code it interrupted is described by the frame.
Interrupted == pc \in {"stub", "handler", "stub_exit", "iretq", "halt"}

\* Where the interrupted code is, on which stack, with which interrupt flag and
\* whose registers; without an interrupt, where the processor itself is.
label == IF Interrupted THEN iframe.pc ELSE pc
stack == IF Interrupted THEN iframe.rsp ELSE rsp
flag  == IF Interrupted THEN iframe.intr ELSE intr
user  == IF pc \in {"handler", "stub_exit", "halt"} THEN iframe.regs ELSE regs

States == {"unborn", "ready", "running", "blocked", "zombie", "freed"}

\* The state's types.
Types ==
  /\ current \in Tasks \cup {Idle}
  /\ state \in [Tasks -> States]
  /\ tasks \in Seq(Tasks) /\ cleanup \in SUBSET Tasks
  /\ cpl \in {0, 3} /\ intr \in BOOLEAN
  /\ rsp \in Stacks /\ cr3 \in Owners /\ regs \in Owners
  /\ ursp \in Stacks \cup {None}
  /\ frame \in [Tasks -> {None} \cup [rsp : Stacks, regs : Owners]]
  /\ iframe \in Frames \cup {None}
  /\ context \in [Tasks \cup {Idle} -> [pc : Labels, intr : BOOLEAN, rsp : Stacks]]

\* The labels, by what holds at them.
Outside  == {"user", "entry_swapgs", "entry_stack", "exit_swapgs", "sysret"}
Within   == {"entry_sti", "running", "exit_cli", "exit_pop", "resumed"}
Starting == {"tramp_user", "tramp_iretq", "tramp_kernel"}
Leaving  == {"kill", "kill_cli", "yield", "switch"}
Waiting  == {"idle", "hlt"}

OfUsers  == Outside \cup {"entry_push", "entry_sti", "exit_cli", "exit_pop", "tramp_user", "tramp_iretq"}
OfTasks  == Outside \cup Within \cup Starting \cup {"entry_push", "kill"}
Open     == Starting \cup {"user", "running", "exit_cli", "hlt"}
Masked   == (Outside \ {"user"}) \cup {"entry_push", "entry_sti", "exit_pop", "resumed", "switch", "idle"}

\* What the system call stub keeps on the task's stack; what a task that has
\* not run begins with; what one that waits has been switched away with.
Saved(t)  == [rsp |-> UStack(t), regs |-> t]
Fresh(t)  == context[t] = task_init(t) /\ frame[t] = None
Parked(t) == /\ context[t] = [pc |-> "resumed", intr |-> FALSE, rsp |-> KStack(t)]
             /\ t \in Users => frame[t] = Saved(t)

\* An interrupt is only taken with interrupts enabled and comes back where it
\* left.  Only the way out of a fatal fault leaves a frame behind.
Taken ==
  IF Interrupted
  THEN /\ iframe \in Frames /\ cpl = 0 /\ ~intr /\ iframe.intr
       /\ iframe.cpl = 3 <=> iframe.pc = "user"
       /\ rsp \in {IST1, KStack(current)} \/ (rsp = Boot /\ current = Idle)
       /\ pc \in {"handler", "stub_exit"} => iframe.cr3 = cr3
  ELSE /\ cpl = 3 <=> pc = "user"
       /\ iframe # None => pc \in Leaving /\ ~intr

\* Which of the two bases is the kernel's.  Within the handler a user's swapgs
\* has been undone, but not that of the user trampoline.
GsKept ==
  LET swapped == IF pc \in {"handler", "stub_exit", "halt"} THEN {"tramp_iretq"}
                 ELSE {"user", "entry_swapgs", "sysret", "tramp_iretq"}
  IN  IF label \in swapped THEN kgs = "percpu" ELSE gs = "percpu"

\* Which tasks can be where, and in which state.
Whose ==
  /\ label \in Labels
  /\ label \in OfUsers => current \in Users
  /\ label = "tramp_kernel" => current \in Kernels
  /\ label \in Waiting => current = Idle
  /\ label \in OfTasks => current \in Tasks /\ state[current] = "running"
  /\ label = "kill_cli" => current \in Tasks /\ state[current] = "zombie"
  /\ label \in {"yield", "switch"} => current = Idle \/ state[current] \in {"blocked", "zombie"}
  /\ current \in cleanup => label \in {"yield", "switch"}

\* Where interrupts are enabled and where they are masked.
Flags ==
  /\ label \in Open => flag
  /\ label \in Masked => ~flag
  /\ label = "yield" /\ current # Idle => ~flag

\* Which stack each point of the code runs on, and what it has saved there.
Stack ==
  /\ label \in Outside => stack = UStack(current) /\ user = current /\ frame[current] = None
  /\ label = "entry_push" => stack = KStack(current) /\ ursp = UStack(current) /\ user = current
  /\ label \in Starting => stack = KStack(current) /\ (current \in Users => frame[current] = None)
  /\ label \in Within \/ (label \in {"yield", "switch"} /\ current # Idle /\ state[current] = "blocked")
       => stack = KStack(current) /\ (current \in Users => frame[current] = Saved(current))
  /\ label \in Leaving /\ current # Idle
       => stack = KStack(current) \/ (stack = IST1 /\ ~Interrupted /\ iframe # None)
  /\ current = Idle => stack = Boot

\* The page map and the two stack pointers follow the current task.
Loaded ==
  IF current = Idle THEN cr3 \in {None, Idle} ELSE cr3 = current /\ rsp0 = current /\ krsp = current

\* The run queue holds tasks that are ready, once; the cleanup list zombies.
Queued ==
  /\ IsInjective(tasks) /\ \A t \in Range(tasks) : state[t] = "ready"
  /\ \A t \in cleanup : state[t] = "zombie"

\* What every task that is not running will find when it is switched to.
Away ==
  /\ current # Idle => context[Idle] = [pc |-> "idle", intr |-> FALSE, rsp |-> Boot]
  /\ \A t \in Tasks : state[t] = "unborn" => Fresh(t)
  /\ \A t \in Tasks \ {current} : state[t] \in {"ready", "blocked"} => Fresh(t) \/ Parked(t)

\* The inductive invariant.
Inv == Types /\ Taken /\ GsKept /\ Whose /\ Flags /\ Stack /\ Loaded /\ Queued /\ Away
-----------------------------------------------------------------------------
(* What a step leaves alone                                                *)

\* The task that has the processor has been started and not been freed.
LEMMA CurrentState ==
  ASSUME Inv PROVE current = Idle \/ (current \in Tasks /\ state[current] \in {"running", "blocked", "zombie"})
BY DEF Inv, Types, Whose, Labels, OfTasks, Outside, Within, Starting, Leaving, Waiting

\* A step of the current task that leaves the scheduler and the other tasks'
\* stacks alone changes nothing for the others.
LEMMA OthersStay ==
  ASSUME Inv, UNCHANGED <<sched, context>>, \A t \in Tasks \ {current} : frame'[t] = frame[t]
  PROVE  Queued' /\ Away'
<1>1. Queued'
  BY DEF Inv, Queued, sched
<1>2. Away'
  <2>1. current' = current /\ state' = state /\ context' = context
    BY DEF sched
  <2>2. \A t \in Tasks : state[t] = "unborn" => t # current
    BY CurrentState, EntryAssumption
  <2>3. \A t \in Tasks \ {current} : (Fresh(t) => Fresh(t)') /\ (Parked(t) => Parked(t)')
    BY <2>1 DEF Fresh, Parked, task_init
  <2> QED BY <2>1, <2>2, <2>3 DEF Inv, Away
<1> QED BY <1>1, <1>2

-----------------------------------------------------------------------------
(* System calls, trampolines, waiting                                      *)

\* load_gs: a program sets its own base; the kernel's is the other one.
LEMMA LoadGs == ASSUME Inv, load_gs PROVE Inv'
<1> USE DEF load_gs, sched, mode, cpu, tss, stubs
<1>1. ~Interrupted /\ label = "user" /\ stack = rsp /\ flag = intr /\ user = regs
  BY DEF Interrupted, label, stack, flag, user
<1>2. ~Interrupted' /\ label' = "user" /\ stack' = rsp' /\ flag' = intr' /\ user' = regs'
  BY DEF Interrupted, label, stack, flag, user
<1>3. Types'
  BY <1>1 DEF Inv, Types, Whose, Stack
<1>4. Queued' /\ Away'
  BY OthersStay DEF Inv
<1>5. Loaded'
  BY DEF Inv, Loaded
<1>6. Taken' /\ GsKept' /\ Whose' /\ Flags' /\ Stack'
  BY <1>1, <1>2 DEF Inv, Taken, GsKept, Whose, Flags, Stack, Labels, OfUsers, OfTasks, Open, Masked,
                    Outside, Within, Starting, Leaving, Waiting
<1> QED BY <1>3, <1>4, <1>5, <1>6 DEF Inv

\* syscall: nothing but the privilege level and the flag changes.
LEMMA Syscall == ASSUME Inv, syscall PROVE Inv'
<1> USE DEF syscall, sched, gsb, cpu, tss, stubs
<1>1. ~Interrupted /\ label = "user" /\ stack = rsp /\ flag = intr /\ user = regs
  BY DEF Interrupted, label, stack, flag, user
<1>2. ~Interrupted' /\ label' = "entry_swapgs" /\ stack' = rsp' /\ flag' = intr' /\ user' = regs'
  BY DEF Interrupted, label, stack, flag, user
<1>3. Types'
  BY <1>1 DEF Inv, Types, Whose, Stack
<1>4. Queued' /\ Away'
  BY OthersStay DEF Inv
<1>5. Loaded'
  BY DEF Inv, Loaded
<1>6. Taken' /\ GsKept' /\ Whose' /\ Flags' /\ Stack'
  BY <1>1, <1>2 DEF Inv, Taken, GsKept, Whose, Flags, Stack, Labels, OfUsers, OfTasks, Open, Masked,
                    Outside, Within, Starting, Leaving, Waiting
<1> QED BY <1>3, <1>4, <1>5, <1>6 DEF Inv

\* entry_swapgs: the two bases change places.
LEMMA EntrySwapgs == ASSUME Inv, entry_swapgs PROVE Inv'
<1> USE DEF entry_swapgs, sched, mode, cpu, tss, stubs
<1>1. ~Interrupted /\ label = "entry_swapgs" /\ stack = rsp /\ flag = intr /\ user = regs
  BY DEF Interrupted, label, stack, flag, user
<1>2. ~Interrupted' /\ label' = "entry_stack" /\ stack' = rsp' /\ flag' = intr' /\ user' = regs'
  BY DEF Interrupted, label, stack, flag, user
<1>3. Types'
  BY <1>1 DEF Inv, Types, Whose, Stack
<1>4. Queued' /\ Away'
  BY OthersStay DEF Inv
<1>5. Loaded'
  BY DEF Inv, Loaded
<1>6. Taken' /\ GsKept' /\ Whose' /\ Flags' /\ Stack'
  BY <1>1, <1>2 DEF Inv, Taken, GsKept, Whose, Flags, Stack, Labels, OfUsers, OfTasks, Open, Masked,
                    Outside, Within, Starting, Leaving, Waiting
<1> QED BY <1>3, <1>4, <1>5, <1>6 DEF Inv

\* entry_stack: the task's own kernel stack, which syscall_kernel_rsp follows.
LEMMA EntryStack == ASSUME Inv, entry_stack PROVE Inv'
<1> USE DEF entry_stack, sched, mode, gsb, tss
<1>1. ~Interrupted /\ label = "entry_stack" /\ stack = rsp /\ flag = intr /\ user = regs
  BY DEF Interrupted, label, stack, flag, user
<1>2. ~Interrupted' /\ label' = "entry_push" /\ stack' = rsp' /\ flag' = intr' /\ user' = regs'
  BY DEF Interrupted, label, stack, flag, user
<1>a. current \in Users /\ current # Idle /\ krsp = current /\ rsp = UStack(current) /\ regs = current /\ frame[current] = None
  BY <1>1, EntryAssumption DEF Inv, Whose, Stack, Loaded, OfUsers, Outside, Tasks
<1>3. Types'
  BY <1>1, <1>a DEF Inv, Types, Whose, Stack, KStack, Stacks, Owners, Tasks
<1>4. Queued' /\ Away'
  BY OthersStay, <1>a DEF Inv
<1>5. Loaded'
  BY DEF Inv, Loaded
<1>6. Taken' /\ GsKept' /\ Whose' /\ Flags' /\ Stack'
  BY <1>1, <1>2, <1>a DEF Inv, Taken, GsKept, Whose, Flags, Stack, Labels, OfUsers, OfTasks, Open, Masked,
                    Outside, Within, Starting, Leaving, Waiting
<1> QED BY <1>3, <1>4, <1>5, <1>6 DEF Inv

\* entry_push: the user's stack and registers reach the kernel stack.
LEMMA EntryPush == ASSUME Inv, entry_push PROVE Inv'
<1> USE DEF entry_push, sched, mode, gsb, cpu, tss
<1>1. ~Interrupted /\ label = "entry_push" /\ stack = rsp /\ flag = intr /\ user = regs
  BY DEF Interrupted, label, stack, flag, user
<1>2. ~Interrupted' /\ label' = "entry_sti" /\ stack' = rsp' /\ flag' = intr' /\ user' = regs'
  BY DEF Interrupted, label, stack, flag, user
<1>a. current \in Users /\ current # Idle /\ rsp = KStack(current) /\ rsp[2] = current /\ ursp = UStack(current) /\ regs = current
  BY <1>1, EntryAssumption DEF Inv, Whose, Stack, OfUsers, Tasks, KStack
<1>b. frame'[current] = Saved(current)
  BY <1>a DEF Inv, Types, Tasks, Saved
<1>3. Types'
  BY <1>1, <1>a DEF Inv, Types, Whose, Stack, KStack, UStack, Stacks, Owners, Tasks, Saved
<1>4. Queued' /\ Away'
  BY OthersStay, <1>a DEF Inv, Types
<1>5. Loaded'
  BY DEF Inv, Loaded
<1>6. Taken' /\ GsKept' /\ Whose' /\ Flags' /\ Stack'
  BY <1>1, <1>2, <1>a, <1>b DEF Inv, Taken, GsKept, Whose, Flags, Stack, Labels, OfUsers, OfTasks, Open, Masked,
                    Outside, Within, Starting, Leaving, Waiting, Tasks
<1> QED BY <1>3, <1>4, <1>5, <1>6 DEF Inv

\* entry_sti: interrupts are enabled only now.
LEMMA EntrySti == ASSUME Inv, entry_sti PROVE Inv'
<1> USE DEF entry_sti, sched, gsb, cpu, tss, stubs
<1>1. ~Interrupted /\ label = "entry_sti" /\ stack = rsp /\ flag = intr /\ user = regs
  BY DEF Interrupted, label, stack, flag, user
<1>2. ~Interrupted' /\ label' = "running" /\ stack' = rsp' /\ flag' = intr' /\ user' = regs'
  BY DEF Interrupted, label, stack, flag, user
<1>3. Types'
  BY <1>1 DEF Inv, Types, Whose, Stack
<1>4. Queued' /\ Away'
  BY OthersStay DEF Inv
<1>5. Loaded'
  BY DEF Inv, Loaded
<1>6. Taken' /\ GsKept' /\ Whose' /\ Flags' /\ Stack'
  BY <1>1, <1>2 DEF Inv, Taken, GsKept, Whose, Flags, Stack, Labels, OfUsers, OfTasks, Open, Masked,
                    Outside, Within, Starting, Leaving, Waiting
<1> QED BY <1>3, <1>4, <1>5, <1>6 DEF Inv

\* syscall_return: syscall_handler returns to the stub.
LEMMA SyscallReturn == ASSUME Inv, syscall_return PROVE Inv'
<1> USE DEF syscall_return, sched, mode, gsb, cpu, tss, stubs
<1>1. ~Interrupted /\ label = "running" /\ stack = rsp /\ flag = intr /\ user = regs
  BY DEF Interrupted, label, stack, flag, user
<1>2. ~Interrupted' /\ label' = "exit_cli" /\ stack' = rsp' /\ flag' = intr' /\ user' = regs'
  BY DEF Interrupted, label, stack, flag, user
<1>3. Types'
  BY <1>1 DEF Inv, Types, Whose, Stack
<1>4. Queued' /\ Away'
  BY OthersStay DEF Inv
<1>5. Loaded'
  BY DEF Inv, Loaded
<1>6. Taken' /\ GsKept' /\ Whose' /\ Flags' /\ Stack'
  BY <1>1, <1>2 DEF Inv, Taken, GsKept, Whose, Flags, Stack, Labels, OfUsers, OfTasks, Open, Masked,
                    Outside, Within, Starting, Leaving, Waiting
<1> QED BY <1>3, <1>4, <1>5, <1>6 DEF Inv

\* exit_cli: interrupts are masked before the stack is left.
LEMMA ExitCli == ASSUME Inv, exit_cli PROVE Inv'
<1> USE DEF exit_cli, sched, gsb, cpu, tss, stubs
<1>1. ~Interrupted /\ label = "exit_cli" /\ stack = rsp /\ flag = intr /\ user = regs
  BY DEF Interrupted, label, stack, flag, user
<1>2. ~Interrupted' /\ label' = "exit_pop" /\ stack' = rsp' /\ flag' = intr' /\ user' = regs'
  BY DEF Interrupted, label, stack, flag, user
<1>3. Types'
  BY <1>1 DEF Inv, Types, Whose, Stack
<1>4. Queued' /\ Away'
  BY OthersStay DEF Inv
<1>5. Loaded'
  BY DEF Inv, Loaded
<1>6. Taken' /\ GsKept' /\ Whose' /\ Flags' /\ Stack'
  BY <1>1, <1>2 DEF Inv, Taken, GsKept, Whose, Flags, Stack, Labels, OfUsers, OfTasks, Open, Masked,
                    Outside, Within, Starting, Leaving, Waiting
<1> QED BY <1>3, <1>4, <1>5, <1>6 DEF Inv

\* exit_pop: what entry_push saved comes back.
LEMMA ExitPop == ASSUME Inv, exit_pop PROVE Inv'
<1> USE DEF exit_pop, sched, mode, gsb, tss
<1>1. ~Interrupted /\ label = "exit_pop" /\ stack = rsp /\ flag = intr /\ user = regs
  BY DEF Interrupted, label, stack, flag, user
<1>2. ~Interrupted' /\ label' = "exit_swapgs" /\ stack' = rsp' /\ flag' = intr' /\ user' = regs'
  BY DEF Interrupted, label, stack, flag, user
<1>a. current \in Users /\ current # Idle /\ rsp = KStack(current) /\ rsp[2] = current /\ frame[current] = Saved(current)
  BY <1>1, EntryAssumption DEF Inv, Whose, Stack, OfUsers, Within, Tasks, KStack
<1>b. frame'[current] = None /\ rsp' = UStack(current) /\ regs' = current
  BY <1>a DEF Inv, Types, Tasks, Saved
<1>3. Types'
  BY <1>1, <1>a DEF Inv, Types, Whose, Stack, KStack, UStack, Stacks, Owners, Tasks, Saved
<1>4. Queued' /\ Away'
  BY OthersStay, <1>a DEF Inv, Types
<1>5. Loaded'
  BY DEF Inv, Loaded
<1>6. Taken' /\ GsKept' /\ Whose' /\ Flags' /\ Stack'
  BY <1>1, <1>2, <1>a, <1>b DEF Inv, Taken, GsKept, Whose, Flags, Stack, Labels, OfUsers, OfTasks, Open, Masked,
                    Outside, Within, Starting, Leaving, Waiting, Tasks
<1> QED BY <1>3, <1>4, <1>5, <1>6 DEF Inv

\* exit_swapgs: the bases change places again.
LEMMA ExitSwapgs == ASSUME Inv, exit_swapgs PROVE Inv'
<1> USE DEF exit_swapgs, sched, mode, cpu, tss, stubs
<1>1. ~Interrupted /\ label = "exit_swapgs" /\ stack = rsp /\ flag = intr /\ user = regs
  BY DEF Interrupted, label, stack, flag, user
<1>2. ~Interrupted' /\ label' = "sysret" /\ stack' = rsp' /\ flag' = intr' /\ user' = regs'
  BY DEF Interrupted, label, stack, flag, user
<1>3. Types'
  BY <1>1 DEF Inv, Types, Whose, Stack
<1>4. Queued' /\ Away'
  BY OthersStay DEF Inv
<1>5. Loaded'
  BY DEF Inv, Loaded
<1>6. Taken' /\ GsKept' /\ Whose' /\ Flags' /\ Stack'
  BY <1>1, <1>2 DEF Inv, Taken, GsKept, Whose, Flags, Stack, Labels, OfUsers, OfTasks, Open, Masked,
                    Outside, Within, Starting, Leaving, Waiting
<1> QED BY <1>3, <1>4, <1>5, <1>6 DEF Inv

\* sysret: the user goes on.
LEMMA Sysret == ASSUME Inv, sysret PROVE Inv'
<1> USE DEF sysret, sched, gsb, cpu, tss, stubs
<1>1. ~Interrupted /\ label = "sysret" /\ stack = rsp /\ flag = intr /\ user = regs
  BY DEF Interrupted, label, stack, flag, user
<1>2. ~Interrupted' /\ label' = "user" /\ stack' = rsp' /\ flag' = intr' /\ user' = regs'
  BY DEF Interrupted, label, stack, flag, user
<1>3. Types'
  BY <1>1 DEF Inv, Types, Whose, Stack
<1>4. Queued' /\ Away'
  BY OthersStay DEF Inv
<1>5. Loaded'
  BY DEF Inv, Loaded
<1>6. Taken' /\ GsKept' /\ Whose' /\ Flags' /\ Stack'
  BY <1>1, <1>2 DEF Inv, Taken, GsKept, Whose, Flags, Stack, Labels, OfUsers, OfTasks, Open, Masked,
                    Outside, Within, Starting, Leaving, Waiting
<1> QED BY <1>3, <1>4, <1>5, <1>6 DEF Inv

\* wait_return: a task that waited goes on.
LEMMA WaitReturn == ASSUME Inv, wait_return PROVE Inv'
<1> USE DEF wait_return, sched, gsb, cpu, tss, stubs
<1>1. ~Interrupted /\ label = "resumed" /\ stack = rsp /\ flag = intr /\ user = regs
  BY DEF Interrupted, label, stack, flag, user
<1>2. ~Interrupted' /\ label' = "running" /\ stack' = rsp' /\ flag' = intr' /\ user' = regs'
  BY DEF Interrupted, label, stack, flag, user
<1>3. Types'
  BY <1>1 DEF Inv, Types, Whose, Stack
<1>4. Queued' /\ Away'
  BY OthersStay DEF Inv
<1>5. Loaded'
  BY DEF Inv, Loaded
<1>6. Taken' /\ GsKept' /\ Whose' /\ Flags' /\ Stack'
  BY <1>1, <1>2 DEF Inv, Taken, GsKept, Whose, Flags, Stack, Labels, OfUsers, OfTasks, Open, Masked,
                    Outside, Within, Starting, Leaving, Waiting
<1> QED BY <1>3, <1>4, <1>5, <1>6 DEF Inv

\* task_exit: a task begins to end.
LEMMA TaskExit == ASSUME Inv, task_exit PROVE Inv'
<1> USE DEF task_exit, sched, mode, gsb, cpu, tss, stubs
<1>1. ~Interrupted /\ label = "running" /\ stack = rsp /\ flag = intr /\ user = regs
  BY DEF Interrupted, label, stack, flag, user
<1>2. ~Interrupted' /\ label' = "kill" /\ stack' = rsp' /\ flag' = intr' /\ user' = regs'
  BY DEF Interrupted, label, stack, flag, user
<1>3. Types'
  BY <1>1 DEF Inv, Types, Whose, Stack
<1>4. Queued' /\ Away'
  BY OthersStay DEF Inv
<1>5. Loaded'
  BY DEF Inv, Loaded
<1>6. Taken' /\ GsKept' /\ Whose' /\ Flags' /\ Stack'
  BY <1>1, <1>2 DEF Inv, Taken, GsKept, Whose, Flags, Stack, Labels, OfUsers, OfTasks, Open, Masked,
                    Outside, Within, Starting, Leaving, Waiting
<1> QED BY <1>3, <1>4, <1>5, <1>6 DEF Inv

\* yield: scheduler_yield masks interrupts.
LEMMA Yield == ASSUME Inv, yield PROVE Inv'
<1> USE DEF yield, sched, gsb, cpu, tss, stubs
<1>1. ~Interrupted /\ label = "yield" /\ stack = rsp /\ flag = intr /\ user = regs
  BY DEF Interrupted, label, stack, flag, user
<1>2. ~Interrupted' /\ label' = "switch" /\ stack' = rsp' /\ flag' = intr' /\ user' = regs'
  BY DEF Interrupted, label, stack, flag, user
<1>3. Types'
  BY <1>1 DEF Inv, Types, Whose, Stack
<1>4. Queued' /\ Away'
  BY OthersStay DEF Inv
<1>5. Loaded'
  BY DEF Inv, Loaded
<1>6. Taken' /\ GsKept' /\ Whose' /\ Flags' /\ Stack'
  BY <1>1, <1>2 DEF Inv, Taken, GsKept, Whose, Flags, Stack, Labels, OfUsers, OfTasks, Open, Masked,
                    Outside, Within, Starting, Leaving, Waiting
<1> QED BY <1>3, <1>4, <1>5, <1>6 DEF Inv

\* idle: the idle loop enables interrupts and halts.
LEMMA IdleLoop == ASSUME Inv, idle PROVE Inv'
<1> USE DEF idle, sched, gsb, cpu, tss, stubs
<1>1. ~Interrupted /\ label = "idle" /\ stack = rsp /\ flag = intr /\ user = regs
  BY DEF Interrupted, label, stack, flag, user
<1>2. ~Interrupted' /\ label' = "hlt" /\ stack' = rsp' /\ flag' = intr' /\ user' = regs'
  BY DEF Interrupted, label, stack, flag, user
<1>3. Types'
  BY <1>1 DEF Inv, Types, Whose, Stack
<1>4. Queued' /\ Away'
  BY OthersStay DEF Inv
<1>5. Loaded'
  BY DEF Inv, Loaded
<1>6. Taken' /\ GsKept' /\ Whose' /\ Flags' /\ Stack'
  BY <1>1, <1>2 DEF Inv, Taken, GsKept, Whose, Flags, Stack, Labels, OfUsers, OfTasks, Open, Masked,
                    Outside, Within, Starting, Leaving, Waiting
<1> QED BY <1>3, <1>4, <1>5, <1>6 DEF Inv

\* task_kernelmode_trampoline: a kernel task starts.
LEMMA KernelTrampoline == ASSUME Inv, task_kernelmode_trampoline PROVE Inv'
<1> USE DEF task_kernelmode_trampoline, sched, mode, gsb, cpu, tss, stubs
<1>1. ~Interrupted /\ label = "tramp_kernel" /\ stack = rsp /\ flag = intr /\ user = regs
  BY DEF Interrupted, label, stack, flag, user
<1>2. ~Interrupted' /\ label' = "running" /\ stack' = rsp' /\ flag' = intr' /\ user' = regs'
  BY DEF Interrupted, label, stack, flag, user
<1>a. current \notin Users /\ current # Idle
  BY <1>1, EntryAssumption DEF Inv, Whose, Tasks
<1>3. Types'
  BY <1>1, <1>a DEF Inv, Types, Whose, Stack
<1>4. Queued' /\ Away'
  BY OthersStay, <1>a DEF Inv
<1>5. Loaded'
  BY DEF Inv, Loaded
<1>6. Taken' /\ GsKept' /\ Whose' /\ Flags' /\ Stack'
  BY <1>1, <1>2, <1>a DEF Inv, Taken, GsKept, Whose, Flags, Stack, Labels, OfUsers, OfTasks, Open, Masked,
                    Outside, Within, Starting, Leaving, Waiting
<1> QED BY <1>3, <1>4, <1>5, <1>6 DEF Inv

\* task_usermode_trampoline: swapgs with interrupts enabled.
LEMMA UserTrampoline == ASSUME Inv, task_usermode_trampoline PROVE Inv'
<1> USE DEF task_usermode_trampoline, sched, mode, cpu, tss, stubs
<1>1. ~Interrupted /\ label = "tramp_user" /\ stack = rsp /\ flag = intr /\ user = regs
  BY DEF Interrupted, label, stack, flag, user
<1>2. ~Interrupted' /\ label' = "tramp_iretq" /\ stack' = rsp' /\ flag' = intr' /\ user' = regs'
  BY DEF Interrupted, label, stack, flag, user
<1>3. Types'
  BY <1>1 DEF Inv, Types, Whose, Stack
<1>4. Queued' /\ Away'
  BY OthersStay DEF Inv
<1>5. Loaded'
  BY DEF Inv, Loaded
<1>6. Taken' /\ GsKept' /\ Whose' /\ Flags' /\ Stack'
  BY <1>1, <1>2 DEF Inv, Taken, GsKept, Whose, Flags, Stack, Labels, OfUsers, OfTasks, Open, Masked,
                    Outside, Within, Starting, Leaving, Waiting
<1> QED BY <1>3, <1>4, <1>5, <1>6 DEF Inv

\* tramp_iretq: a user task starts.
LEMMA TrampIretq == ASSUME Inv, tramp_iretq PROVE Inv'
<1> USE DEF tramp_iretq, sched, gsb, tss, stubs
<1>1. ~Interrupted /\ label = "tramp_iretq" /\ stack = rsp /\ flag = intr /\ user = regs
  BY DEF Interrupted, label, stack, flag, user
<1>2. ~Interrupted' /\ label' = "user" /\ stack' = rsp' /\ flag' = intr' /\ user' = regs'
  BY DEF Interrupted, label, stack, flag, user
<1>a. current \in Users /\ current # Idle /\ frame[current] = None
  BY <1>1, EntryAssumption DEF Inv, Whose, Stack, OfUsers, Starting, Tasks
<1>3. Types'
  BY <1>1, <1>a DEF Inv, Types, Whose, Stack, UStack, Stacks, Owners, Tasks
<1>4. Queued' /\ Away'
  BY OthersStay, <1>a DEF Inv
<1>5. Loaded'
  BY DEF Inv, Loaded
<1>6. Taken' /\ GsKept' /\ Whose' /\ Flags' /\ Stack'
  BY <1>1, <1>2, <1>a DEF Inv, Taken, GsKept, Whose, Flags, Stack, Labels, OfUsers, OfTasks, Open, Masked,
                    Outside, Within, Starting, Leaving, Waiting, Tasks
<1> QED BY <1>3, <1>4, <1>5, <1>6 DEF Inv
-----------------------------------------------------------------------------
(* The scheduler                                                           *)

\* A list made of a finite set has its members, each once.
LEMMA SetToSeqItems ==
  ASSUME NEW S, IsFiniteSet(S)
  PROVE  SetToSeq(S) \in Seq(S) /\ IsInjective(SetToSeq(S)) /\ Range(SetToSeq(S)) \subseteq S
<1> DEFINE n == Cardinality(S)
<1>1. n \in Nat /\ ExistsBijection(1..n, S)
  BY FS_CardinalityType
<1>2. \E f \in [1..n -> S] : IsInjective(f)
  BY <1>1 DEF ExistsBijection, Bijection, Injection, IsInjective
<1>3. SetToSeq(S) \in [1..n -> S] /\ IsInjective(SetToSeq(S))
  BY <1>2 DEF SetToSeq
<1>4. SetToSeq(S) \in Seq(S)
  BY <1>1, <1>3
<1>5. Range(SetToSeq(S)) \subseteq S
  BY <1>3 DEF Range
<1> QED BY <1>3, <1>4, <1>5

\* Putting tasks that wait on the run queue keeps it free of duplicates.
LEMMA Woken ==
  ASSUME Inv, NEW W, W \subseteq Blocked
  PROVE  /\ tasks \o SetToSeq(W) \in Seq(Tasks) /\ IsInjective(tasks \o SetToSeq(W))
         /\ Range(tasks \o SetToSeq(W)) \subseteq Range(tasks) \cup W
<1>1. W \subseteq Tasks /\ IsFiniteSet(W)
  BY EntryAssumption, FS_Subset DEF Blocked
<1>2. SetToSeq(W) \in Seq(W) /\ IsInjective(SetToSeq(W)) /\ Range(SetToSeq(W)) \subseteq W
  BY <1>1, SetToSeqItems
<1>3. SetToSeq(W) \in Seq(Tasks)
  BY <1>1, <1>2
<1>4. tasks \in Seq(Tasks) /\ IsInjective(tasks) /\ Range(tasks) \cap W = {}
  BY <1>1 DEF Inv, Types, Queued, Blocked
<1> HIDE DEF Tasks
<1> QED BY <1>2, <1>3, <1>4, ConcatItems

\* spawn: a new task is queued, with the context it was created with.
LEMMA Spawn == ASSUME Inv, NEW t \in Tasks, spawn(t) PROVE Inv'
<1> USE DEF spawn, mode, gsb, cpu, tss, stubs
<1>1. ~Interrupted /\ label = "running" /\ stack = rsp /\ flag = intr /\ user = regs
  BY DEF Interrupted, label, stack, flag, user
<1>2. ~Interrupted' /\ label' = "running" /\ stack' = rsp' /\ flag' = intr' /\ user' = regs'
  BY DEF Interrupted, label, stack, flag, user
<1>3. t # current /\ t \notin Range(tasks) /\ t \notin cleanup /\ state'[t] = "ready" /\ Fresh(t)
      /\ \A s \in Tasks \ {t} : state'[s] = state[s]
  BY <1>1 DEF Inv, Types, Whose, OfTasks, Within, Queued, Away
<1>4. /\ tasks' \in Seq(Tasks) /\ IsInjective(tasks') /\ Range(tasks') = Range(tasks) \cup {t}
  BY <1>3, AppendItem DEF Inv, Types, Queued
<1>5. Types'
  BY <1>4 DEF Inv, Types, States
<1>6. Queued'
  BY <1>3, <1>4 DEF Inv, Types, Queued
<1>7. Away'
  <2>1. \A s \in Tasks : (Fresh(s) => Fresh(s)') /\ (Parked(s) => Parked(s)')
    BY DEF Fresh, Parked, task_init
  <2> QED BY <1>3, <2>1 DEF Inv, Away
<1>8. Loaded'
  BY DEF Inv, Loaded
<1>9. Taken' /\ GsKept' /\ Whose' /\ Flags' /\ Stack'
  BY <1>1, <1>2, <1>3 DEF Inv, Taken, GsKept, Whose, Flags, Stack, Labels, OfUsers, OfTasks, Open, Masked,
                    Outside, Within, Starting, Leaving, Waiting
<1> QED BY <1>5, <1>6, <1>7, <1>8, <1>9 DEF Inv

\* wait: the task blocks, with its frame on its own stack.
LEMMA Wait == ASSUME Inv, wait PROVE Inv'
<1> USE DEF wait, gsb, cpu, tss, stubs
<1>1. ~Interrupted /\ label = "running" /\ stack = rsp /\ flag = intr /\ user = regs
  BY DEF Interrupted, label, stack, flag, user
<1>2. ~Interrupted' /\ label' = "yield" /\ stack' = rsp' /\ flag' = intr' /\ user' = regs'
  BY DEF Interrupted, label, stack, flag, user
<1>3. current \in Tasks /\ current # Idle /\ state[current] = "running" /\ state'[current] = "blocked"
      /\ \A s \in Tasks \ {current} : state'[s] = state[s]
  BY <1>1, EntryAssumption DEF Inv, Types, Whose, OfTasks, Within
<1>5. Types'
  BY DEF Inv, Types, States
<1>6. Queued'
  BY <1>3 DEF Inv, Types, Queued
<1>7. Away'
  <2>1. \A s \in Tasks : (Fresh(s) => Fresh(s)') /\ (Parked(s) => Parked(s)')
    BY DEF Fresh, Parked, task_init
  <2> QED BY <1>3, <2>1 DEF Inv, Away
<1>8. Loaded'
  BY DEF Inv, Loaded
<1>9. Taken' /\ GsKept' /\ Whose' /\ Flags' /\ Stack'
  BY <1>1, <1>2, <1>3 DEF Inv, Taken, GsKept, Whose, Flags, Stack, Labels, OfUsers, OfTasks, Open, Masked,
                    Outside, Within, Starting, Leaving, Waiting
<1> QED BY <1>5, <1>6, <1>7, <1>8, <1>9 DEF Inv

\* kill: the task is a zombie, and those that waited for it are queued.
LEMMA Kill == ASSUME Inv, NEW W, kill(W) PROVE Inv'
<1> USE DEF kill, mode, gsb, cpu, tss, stubs
<1>1. ~Interrupted /\ label = "kill" /\ stack = rsp /\ flag = intr /\ user = regs
  BY DEF Interrupted, label, stack, flag, user
<1>2. ~Interrupted' /\ label' = "kill_cli" /\ stack' = rsp' /\ flag' = intr' /\ user' = regs'
  BY DEF Interrupted, label, stack, flag, user
<1>3. current \in Tasks /\ current # Idle /\ state[current] = "running" /\ state'[current] = "zombie"
      /\ current \notin W
      /\ \A s \in Tasks \ {current} : state'[s] = IF s \in W THEN "ready" ELSE state[s]
  BY <1>1, EntryAssumption DEF Inv, Types, Whose, OfTasks, Wakes, Blocked
<1>4. /\ tasks' \in Seq(Tasks) /\ IsInjective(tasks') /\ Range(tasks') \subseteq Range(tasks) \cup W
  BY Woken
<1>5. Types'
  <2>1. state' \in [Tasks -> States]
    BY DEF Inv, Types, States, Wakes
  <2> QED BY <1>4, <2>1 DEF Inv, Types
<1>6. Queued'
  <2>1. \A s \in Range(tasks) \cup W : s # current /\ s \in Tasks /\ (s \in W \/ state[s] = "ready")
    BY <1>3 DEF Inv, Types, Queued, Blocked, Range
  <2>2. \A s \in cleanup : s # current /\ s \in Tasks /\ s \notin W /\ state[s] = "zombie"
    BY <1>3 DEF Inv, Types, Queued, Blocked
  <2> QED BY <1>3, <1>4, <2>1, <2>2 DEF Queued
<1>7. Away'
  <2>1. \A s \in Tasks : (Fresh(s) => Fresh(s)') /\ (Parked(s) => Parked(s)')
    BY DEF Fresh, Parked, task_init
  <2> QED BY <1>3, <2>1 DEF Inv, Away, Blocked
<1>8. Loaded'
  BY DEF Inv, Loaded
<1>9. Taken' /\ GsKept' /\ Whose' /\ Flags' /\ Stack'
  BY <1>1, <1>2, <1>3 DEF Inv, Taken, GsKept, Whose, Flags, Stack, Labels, OfUsers, OfTasks, Open, Masked,
                    Outside, Within, Starting, Leaving, Waiting
<1> QED BY <1>5, <1>6, <1>7, <1>8, <1>9 DEF Inv

\* kill_cli: the zombie is put up for freeing with interrupts masked.
LEMMA KillCli == ASSUME Inv, kill_cli PROVE Inv'
<1> USE DEF kill_cli, gsb, cpu, tss, stubs
<1>1. ~Interrupted /\ label = "kill_cli" /\ stack = rsp /\ flag = intr /\ user = regs
  BY DEF Interrupted, label, stack, flag, user
<1>2. ~Interrupted' /\ label' = "yield" /\ stack' = rsp' /\ flag' = intr' /\ user' = regs'
  BY DEF Interrupted, label, stack, flag, user
<1>3. current \in Tasks /\ current # Idle /\ state[current] = "zombie"
  BY <1>1, EntryAssumption DEF Inv, Whose
<1>5. Types'
  BY <1>3 DEF Inv, Types
<1>6. Queued'
  BY <1>3 DEF Inv, Types, Queued
<1>7. Away'
  <2>1. \A s \in Tasks : (Fresh(s) => Fresh(s)') /\ (Parked(s) => Parked(s)')
    BY DEF Fresh, Parked, task_init
  <2> QED BY <1>3, <2>1 DEF Inv, Away
<1>8. Loaded'
  BY DEF Inv, Loaded
<1>9. Taken' /\ GsKept' /\ Whose' /\ Flags' /\ Stack'
  BY <1>1, <1>2, <1>3 DEF Inv, Taken, GsKept, Whose, Flags, Stack, Labels, OfUsers, OfTasks, Open, Masked,
                    Outside, Within, Starting, Leaving, Waiting
<1> QED BY <1>5, <1>6, <1>7, <1>8, <1>9 DEF Inv

\* switch: the task that is left can be resumed, the one that is resumed finds
\* what it left, and the page map and the stack pointers are its own.
LEMMA Switch == ASSUME Inv, switch PROVE Inv'
<1> USE DEF gsb, stubs
<1>1. ~Interrupted /\ label = "switch" /\ stack = rsp /\ flag = intr /\ user = regs
  BY DEF Interrupted, label, stack, flag, user, switch
<1>2. intr = FALSE /\ cpl = 0 /\ gs = "percpu"
  BY <1>1 DEF Inv, Types, Flags, Masked, Taken, switch
<1>3. current = Idle \/ (current \in Tasks /\ current # Idle /\ state[current] \in {"blocked", "zombie"})
  BY <1>1, EntryAssumption DEF Inv, Types, Whose
<1> DEFINE new == IF tasks = << >> THEN Idle ELSE Head(tasks)
<1>4. /\ current' = new
      /\ tasks' = IF tasks = << >> THEN tasks ELSE Tail(tasks)
      /\ state' = [t \in Tasks |-> IF t = new THEN "running" ELSE IF t \in Range(tasks) THEN "ready" ELSE state[t]]
      /\ IF new = current
         THEN /\ pc' = Resume
              /\ UNCHANGED <<intr, cr3, rsp, tss, context>>
         ELSE /\ cr3' = new /\ stacks(new)
              /\ context' = [context EXCEPT ![current] = [pc |-> Resume, intr |-> intr, rsp |-> rsp]]
              /\ pc' = context[new].pc /\ intr' = context[new].intr /\ rsp' = context[new].rsp
      /\ regs' = None /\ iframe' = None
      /\ UNCHANGED <<cleanup, cpl, gsb, stubs>>
  BY <1>3 DEF switch
<1>5. tasks = << >> => Range(tasks) = {}
  BY DEF Range
<1>6. tasks # << >> => /\ Head(tasks) \in Tasks /\ Tail(tasks) \in Seq(Tasks) /\ IsInjective(Tail(tasks))
                       /\ Range(tasks) = Range(Tail(tasks)) \cup {Head(tasks)} /\ Head(tasks) \notin Range(Tail(tasks))
  BY TakeItem DEF Inv, Types, Queued
<1>7. /\ new = Idle \/ (new \in Tasks /\ new # Idle /\ new # current /\ state[new] = "ready")
      /\ tasks' \in Seq(Tasks) /\ IsInjective(tasks') /\ Range(tasks') = Range(tasks) \ {new}
      /\ Range(tasks) \subseteq Tasks
  <2>1. Range(tasks) \subseteq Tasks
    BY DEF Inv, Types, Range
  <2>2. CASE tasks = << >>
    BY <1>4, <1>5, <2>1, <2>2 DEF Inv, Types, Queued
  <2>3. CASE tasks # << >>
    <3>1. new = Head(tasks) /\ new \in Range(tasks) /\ tasks' = Tail(tasks)
      BY <1>4, <1>6, <2>3
    <3>2. new \in Tasks /\ state[new] = "ready"
      BY <2>1, <3>1 DEF Inv, Queued
    <3> QED BY <1>3, <1>6, <2>1, <2>3, <3>1, <3>2, EntryAssumption
  <2> QED BY <2>2, <2>3
<1> HIDE DEF new
<1>8. /\ state' \in [Tasks -> States]
      /\ \A t \in Tasks \ {new} : state'[t] = state[t]
      /\ new \in Tasks => state'[new] = "running"
  BY <1>4, <1>7 DEF Inv, Types, States, Queued
<1>9. Queued'
  <2>1. \A t \in Range(tasks') : t \in Tasks /\ t # new /\ state[t] = "ready"
    BY <1>7 DEF Inv, Queued
  <2>2. \A t \in cleanup : t \in Tasks /\ t # new /\ state[t] = "zombie"
    BY <1>7, EntryAssumption DEF Inv, Types, Queued
  <2> QED BY <1>4, <1>7, <1>8, <2>1, <2>2 DEF Queued
<1>10. /\ context' \in [Tasks \cup {Idle} -> [pc : Labels, intr : BOOLEAN, rsp : Stacks]]
       /\ \A t \in (Tasks \cup {Idle}) \ {current} : context'[t] = context[t]
       /\ current # new => context'[current] = [pc |-> Resume, intr |-> FALSE, rsp |-> rsp]
  <2>1. context \in [Tasks \cup {Idle} -> [pc : Labels, intr : BOOLEAN, rsp : Stacks]] /\ current \in Tasks \cup {Idle}
    BY DEF Inv, Types
  <2>2. [pc |-> Resume, intr |-> intr, rsp |-> rsp] \in [pc : Labels, intr : BOOLEAN, rsp : Stacks]
    BY DEF Inv, Types, Resume, Labels
  <2> HIDE DEF Resume
  <2>3. CASE new = current
    BY <1>4, <2>1, <2>3
  <2>4. CASE new # current
    BY <1>2, <1>4, <2>1, <2>2, <2>4
  <2> QED BY <2>3, <2>4
<1>11. Away'
  <2> DEFINE ParkedNext(t) == /\ context'[t] = [pc |-> "resumed", intr |-> FALSE, rsp |-> KStack(t)]
                              /\ t \in Users => frame'[t] = Saved(t)
             FreshNext(t)  == context'[t] = task_init(t) /\ frame'[t] = None
  <2>1. current = Idle \/ state[current] = "zombie" \/ (state[current] = "blocked" /\ ParkedNext(current))
    <3> SUFFICES ASSUME current \in Tasks, current # Idle, state[current] = "blocked"
                 PROVE  ParkedNext(current)
      BY <1>3
    <3>1. new # current /\ rsp = KStack(current) /\ (current \in Users => frame[current] = Saved(current))
      BY <1>1, <1>7 DEF Inv, Stack
    <3> QED BY <1>4, <1>10, <3>1 DEF Resume
  <2>2. \A t \in Tasks \ {current} : (Fresh(t) => FreshNext(t)) /\ (Parked(t) => ParkedNext(t))
    BY <1>4, <1>10 DEF Fresh, Parked
  <2>3. current' # Idle => context'[Idle] = [pc |-> "idle", intr |-> FALSE, rsp |-> Boot]
    BY <1>1, <1>3, <1>4, <1>7, <1>10, EntryAssumption DEF Inv, Away, Stack, Resume
  <2>4. \A t \in Tasks : state'[t] = "unborn" => FreshNext(t)
    <3> HIDE DEF FreshNext, ParkedNext
    <3>1. \A t \in Tasks : state'[t] = "unborn" => state[t] = "unborn" /\ t # current
      BY <1>3, <1>8, EntryAssumption
    <3> QED BY <3>1, <2>2 DEF Inv, Away
  <2>5. \A t \in Tasks \ {current'} : state'[t] \in {"ready", "blocked"} => FreshNext(t) \/ ParkedNext(t)
    <3> HIDE DEF FreshNext, ParkedNext
    <3>1. \A t \in Tasks \ {current'} : state'[t] = state[t]
      BY <1>4, <1>8
    <3>2. \A t \in Tasks \ {current} : state[t] \in {"ready", "blocked"} => FreshNext(t) \/ ParkedNext(t)
      BY <2>2 DEF Inv, Away
    <3>3. current \in Tasks /\ state[current] \in {"ready", "blocked"} => ParkedNext(current)
      BY <1>3, <2>1, EntryAssumption
    <3> QED BY <3>1, <3>2, <3>3
  <2> QED BY <2>3, <2>4, <2>5 DEF Away, Fresh, Parked, task_init
<1>12. Loaded'
  BY <1>4, <1>7 DEF Inv, Loaded, stacks, tss
<1>13. CASE new = Idle
  <2>1. pc' = "idle" /\ intr' = FALSE /\ rsp' = Boot /\ current' = Idle
    BY <1>2, <1>3, <1>4, <1>1, <1>13, EntryAssumption DEF Inv, Resume, Stack, Away
  <2>2. ~Interrupted' /\ label' = "idle" /\ stack' = rsp' /\ flag' = intr' /\ user' = regs'
    BY <2>1 DEF Interrupted, label, stack, flag, user
  <2>3. Types'
    BY <1>4, <1>7, <1>8, <1>10, <1>13, <2>1 DEF Inv, Types, Owners, Stacks, Boot
  <2>4. Taken' /\ GsKept' /\ Whose' /\ Flags' /\ Stack'
    BY <1>2, <1>4, <2>1, <2>2, EntryAssumption DEF Inv, Types, Taken, GsKept, Whose, Flags, Stack, Labels, OfUsers, OfTasks, Open, Masked,
                    Outside, Within, Starting, Leaving, Waiting
  <2> QED BY <1>9, <1>11, <1>12, <2>3, <2>4 DEF Inv
<1>14. CASE new # Idle
  <2>1. /\ current' = new /\ new \in Tasks /\ new # current /\ rsp' = KStack(new)
        /\ \/ pc' = "resumed" /\ intr' = FALSE /\ (new \in Users => frame[new] = Saved(new))
           \/ pc' = "tramp_user" /\ intr' = TRUE /\ new \in Users /\ frame[new] = None
           \/ pc' = "tramp_kernel" /\ intr' = TRUE /\ new \in Kernels /\ new \notin Users
    <3>1. new \in Tasks /\ new # current /\ state[new] = "ready"
      BY <1>7, <1>14
    <3>2. current' = new /\ pc' = context[new].pc /\ intr' = context[new].intr /\ rsp' = context[new].rsp
      BY <1>4, <3>1
    <3>3. Fresh(new) \/ Parked(new)
      BY <3>1 DEF Inv, Away
    <3>4. CASE Parked(new)
      BY <3>1, <3>2, <3>4 DEF Parked
    <3>5. CASE Fresh(new)
      BY <3>1, <3>2, <3>5, EntryAssumption DEF Fresh, task_init, Tasks
    <3> QED BY <3>3, <3>4, <3>5
  <2>2. ~Interrupted' /\ label' = pc' /\ stack' = rsp' /\ flag' = intr' /\ user' = regs'
    BY <2>1 DEF Interrupted, label, stack, flag, user
  <2>3. Types'
    BY <1>4, <1>7, <1>8, <1>10, <1>14, <2>1 DEF Inv, Types, Owners, Stacks, KStack
  <2>5. new \notin cleanup
    BY <1>7, <1>14 DEF Inv, Queued
  <2>4. Taken' /\ GsKept' /\ Whose' /\ Flags' /\ Stack'
    BY <1>2, <1>4, <1>8, <1>14, <2>1, <2>2, <2>5 DEF Inv, Taken, GsKept, Whose, Flags, Stack, Labels, OfUsers, OfTasks, Open, Masked,
                    Outside, Within, Starting, Leaving, Waiting, Saved
  <2> QED BY <1>9, <1>11, <1>12, <2>3, <2>4 DEF Inv
<1> QED BY <1>13, <1>14
-----------------------------------------------------------------------------
(* Interrupts and exceptions                                               *)

\* Handling an interrupt does not move the code it interrupted.
LEMMA Undisturbed ==
  ASSUME Inv, Interrupted, UNCHANGED <<sched, cr3, tss, stubs, context>>,
         label' = label, stack' = stack, flag' = flag, user' = user
  PROVE  Whose' /\ Flags' /\ Stack' /\ Loaded' /\ Queued' /\ Away'
<1> USE DEF sched, tss, stubs
<1>1. Queued' /\ Away'
  BY OthersStay DEF Inv
<1>2. Whose' /\ Flags' /\ Loaded'
  BY DEF Inv, Whose, Flags, Loaded
<1>3. Stack'
  BY DEF Inv, Stack
<1> QED BY <1>1, <1>2, <1>3

\* The task that was interrupted neither waits nor is up for freeing.
LEMMA NoBlocking ==
  ASSUME Inv, Interrupted PROVE flag /\ current \notin Blocked /\ current \notin cleanup
<1>1. flag
  BY DEF Inv, Taken, flag
<1>2. label # "switch" /\ (label = "yield" => current = Idle)
  BY <1>1 DEF Inv, Flags, Masked
<1>3. current = Idle \/ (current \in Tasks /\ state[current] = "running")
        \/ (current \in Tasks /\ state[current] = "zombie" /\ label = "kill_cli")
  BY <1>2 DEF Inv, Whose, Labels, OfTasks, Outside, Within, Starting, Waiting
<1> QED BY <1>1, <1>2, <1>3, EntryAssumption DEF Inv, Types, Whose, Blocked

\* deliver: an interrupt or exception leaves a frame of the code it interrupts.
LEMMA Delivered == ASSUME Inv, NEW v \in Lapic \cup Legacy \cup Exceptions, intr, deliver(v) PROVE Inv'
<1> USE DEF gsb, tss, stubs
<1>1. ~Interrupted /\ label = pc /\ stack = rsp /\ flag = intr /\ user = regs /\ pc \in Labels
  <2>1. ~Interrupted
    BY DEF Inv, Taken
  <2> QED BY <2>1 DEF Interrupted, Inv, Whose, label, stack, flag, user
<1>2. Interrupted' /\ label' = (IF pc = "hlt" THEN "yield" ELSE pc) /\ stack' = rsp /\ flag' = intr /\ user' = regs
  BY DEF deliver, Interrupted, label, stack, flag, user
<1>3. /\ iframe' \in Frames /\ iframe'.pc = (IF pc = "hlt" THEN "yield" ELSE pc)
      /\ iframe'.cpl = cpl /\ iframe'.intr = intr
  BY <1>1 DEF deliver, Frames, Inv, Types, Owners, Labels
<1>4. UNCHANGED <<sched, cr3, tss, stubs, context>>
  BY DEF deliver, cpu
<1>5. Queued' /\ Away' /\ Loaded'
  <2>1. Queued' /\ Away'
    BY <1>4, OthersStay
  <2>2. Loaded'
    BY <1>4 DEF Inv, Loaded, sched
  <2> QED BY <2>1, <2>2
<1>6. iframe = None /\ (cpl = 3 <=> pc = "user")
  BY <1>1 DEF Inv, Taken
<1>7. gate_stack(v) \in {IST1, KStack(current)} \/ (gate_stack(v) = Boot /\ current = Idle)
  <2>1. CASE pc = "user"
    BY <1>1, <1>6, <2>1, EntryAssumption DEF gate_stack, Inv, Whose, Loaded, OfUsers, Outside, Tasks
  <2>2. CASE pc # "user"
    BY <1>1, <1>6, <2>2 DEF gate_stack, Inv, Flags, Stack, Labels, Masked, Outside, Within, Starting, Leaving, Waiting, Whose
  <2> QED BY <2>1, <2>2
<1>8. Types'
  <2>1. rsp' \in Stacks
    BY <1>7 DEF deliver, Inv, Types, Stacks, IST1, KStack, Boot, Owners
  <2> QED BY <1>3, <1>4, <2>1 DEF deliver, Inv, Types, sched
<1>9. Taken'
  BY <1>2, <1>3, <1>4, <1>6, <1>7 DEF deliver, Taken, Interrupted, sched
<1>10. GsKept'
  BY <1>1, <1>2 DEF deliver, Inv, GsKept
<1>11. Whose' /\ Flags' /\ Stack'
  <2>1. CASE pc = "hlt"
    BY <1>1, <1>2, <1>4, <1>6, <2>1, EntryAssumption DEF sched, Inv, Types, Whose, Flags, Stack, Labels, OfUsers, OfTasks, Open, Masked,
                    Outside, Within, Starting, Leaving, Waiting
  <2>2. CASE pc # "hlt"
    <3>1. Whose' /\ Flags'
      BY <1>1, <1>2, <1>4, <2>2 DEF sched, Inv, Whose, Flags
    <3>2. Stack'
      BY <1>1, <1>2, <1>4, <1>6, <2>2 DEF sched, Inv, Stack
    <3> QED BY <3>1, <3>2
  <2> QED BY <2>1, <2>2
<1> QED BY <1>5, <1>8, <1>9, <1>10, <1>11 DEF Inv

\* interrupt: one comes only where they are enabled.
LEMMA Interrupt == ASSUME Inv, NEW v \in Lapic \cup Legacy, interrupt(v) PROVE Inv'
BY Delivered DEF interrupt

\* exception: user code and system calls run with interrupts enabled.
LEMMA Exception == ASSUME Inv, NEW v \in Exceptions, exception(v) PROVE Inv'
<1>1. intr
  BY DEF exception, Inv, Flags, Open, flag, label, Interrupted
<1> QED BY <1>1, Delivered DEF exception

\* stub: the registers join the frame, and a user's base is swapped out.
LEMMA StubEntered == ASSUME Inv, stub PROVE Inv'
<1> USE DEF sched, mode, gsb, tss, stubs
<1>1. Interrupted /\ Interrupted' /\ iframe \in Frames
  BY DEF stub, Interrupted, Inv, Taken
<1>2. /\ iframe' \in Frames /\ iframe'.pc = iframe.pc /\ iframe'.cpl = iframe.cpl /\ iframe'.intr = iframe.intr
      /\ iframe'.rsp = iframe.rsp /\ iframe'.regs = regs /\ iframe'.cr3 = cr3
  BY <1>1 DEF stub, Registers, Frames, Inv, Types
<1>3. label' = label /\ stack' = stack /\ flag' = flag /\ user' = user
  BY <1>1, <1>2 DEF stub, label, stack, flag, user
<1>4. Whose' /\ Flags' /\ Stack' /\ Loaded' /\ Queued' /\ Away'
  BY <1>1, <1>3, Undisturbed DEF stub
<1>5. Types'
  BY <1>2 DEF stub, Inv, Types, Owners
<1>6. Taken'
  BY <1>1, <1>2 DEF stub, Inv, Taken
<1>7. GsKept'
  <2>1. label \notin {"entry_swapgs", "sysret"}
    BY <1>1, NoBlocking DEF Inv, Flags, Masked, Outside
  <2>2. iframe.cpl = 3 <=> label = "user"
    BY <1>1 DEF Inv, Taken, label
  <2> QED BY <1>3, <2>1, <2>2 DEF stub, from_user, Inv, GsKept
<1> QED BY <1>4, <1>5, <1>6, <1>7 DEF Inv

\* timer: the tick wakes others and frees others, never whom it interrupted.
LEMMA Timer == ASSUME Inv, NEW W, NEW Z, timer(W, Z) PROVE Inv'
<1> USE DEF mode, gsb, cpu, tss, stubs
<1>1. Interrupted /\ Interrupted' /\ W \subseteq Blocked /\ Z \subseteq cleanup
  BY DEF timer, Interrupted, stub_return
<1>2. label' = label /\ stack' = stack /\ flag' = flag /\ user' = user
  BY <1>1 DEF timer, label, stack, flag, user, stub_return
<1>3. current \notin W /\ current \notin Z /\ current \notin cleanup
  BY <1>1, NoBlocking
<1>4. /\ tasks' \in Seq(Tasks) /\ IsInjective(tasks') /\ Range(tasks') \subseteq Range(tasks) \cup W
  BY <1>1, Woken DEF timer
<1>5. /\ state' \in [Tasks -> States]
      /\ \A t \in Tasks : state'[t] = IF t \in Z THEN "freed" ELSE IF t \in W THEN "ready" ELSE state[t]
  BY DEF timer, Wakes, Inv, Types, States
<1>6. Types'
  BY <1>4, <1>5 DEF timer, Inv, Types
<1>7. Queued'
  <2>1. \A s \in Range(tasks) \cup W : s \in Tasks /\ s \notin Z /\ (s \in W \/ state[s] = "ready")
    BY <1>1 DEF Inv, Types, Queued, Blocked, Range
  <2>2. \A s \in cleanup : s \in Tasks /\ s \notin W /\ state[s] = "zombie"
    BY <1>1 DEF Inv, Types, Queued, Blocked
  <2> QED BY <1>4, <1>5, <2>1, <2>2 DEF Queued, timer
<1>8. Away'
  <2>1. \A s \in Tasks : (Fresh(s) => Fresh(s)') /\ (Parked(s) => Parked(s)')
    BY DEF timer, Fresh, Parked, task_init
  <2>2. \A s \in Tasks : /\ state'[s] = "unborn" => state[s] = "unborn"
                         /\ state'[s] \in {"ready", "blocked"} => state[s] \in {"ready", "blocked"}
    BY <1>1, <1>5 DEF Blocked
  <2> QED BY <2>1, <2>2 DEF timer, Inv, Away
<1>9. Loaded' /\ Flags' /\ Taken'
  BY <1>1, <1>2 DEF timer, Inv, Loaded, Flags, Taken, stub_return
<1>10. GsKept'
  BY <1>2 DEF timer, Inv, GsKept, stub_return
<1>11. current = Idle \/ (current \in Tasks /\ state'[current] = state[current])
  BY <1>3, <1>5 DEF Inv, Types
<1>12. Whose'
  BY <1>2, <1>3, <1>11, EntryAssumption DEF timer, Inv, Whose
<1>13. Stack'
  BY <1>1, <1>2, <1>11 DEF timer, Inv, Stack
<1> QED BY <1>6, <1>7, <1>8, <1>9, <1>10, <1>12, <1>13 DEF Inv

\* acknowledge: the other handlers leave everything alone.
LEMMA Acknowledge == ASSUME Inv, acknowledge PROVE Inv'
<1> USE DEF acknowledge, stub_return, sched, mode, gsb, cpu, tss, stubs
<1>1. Interrupted /\ Interrupted' /\ label' = label /\ stack' = stack /\ flag' = flag /\ user' = user
  BY DEF Interrupted, label, stack, flag, user
<1>2. Whose' /\ Flags' /\ Stack' /\ Loaded' /\ Queued' /\ Away'
  BY <1>1, Undisturbed
<1>3. Types' /\ Taken' /\ GsKept'
  BY <1>1 DEF Inv, Types, Taken, GsKept
<1> QED BY <1>2, <1>3 DEF Inv

\* segfault: the task is killed on the interrupt stack, interrupts masked.
LEMMA Segfault == ASSUME Inv, segfault PROVE Inv'
<1> USE DEF segfault, sched, mode, gsb, cpu, tss, stubs
<1>1. Interrupted /\ label = "user" /\ iframe \in Frames /\ ~intr /\ cpl = 0
  BY DEF kills, Interrupted, label, Inv, Taken
<1>2. ~Interrupted' /\ label' = "kill" /\ stack' = rsp /\ flag' = intr /\ user' = regs
  BY DEF Interrupted, label, stack, flag, user
<1>3. current \in Users /\ current # Idle /\ current \in Tasks /\ state[current] = "running" /\ current \notin cleanup
  BY <1>1, EntryAssumption DEF Inv, Whose, OfUsers, OfTasks, Outside, Tasks
<1>4. iframe # None /\ ~intr /\ cpl = 0 /\ rsp \in {IST1, KStack(current)}
  BY <1>1, <1>3, FrameAssumption DEF Inv, Taken
<1>5. Types'
  BY DEF Inv, Types
<1>6. Queued' /\ Away'
  BY OthersStay
<1>7. Loaded'
  BY DEF Inv, Loaded
<1>8. Taken' /\ GsKept' /\ Whose' /\ Flags' /\ Stack'
  BY <1>2, <1>3, <1>4 DEF Taken, GsKept, Whose, Flags, Stack, Labels, OfUsers, OfTasks, Open, Masked,
                    Outside, Within, Starting, Leaving, Waiting
<1> QED BY <1>5, <1>6, <1>7, <1>8 DEF Inv

\* stop and stray: a handler that does not return.
LEMMA Halted ==
  ASSUME Inv, pc = "handler", pc' = "halt",
         UNCHANGED <<sched, mode, gsb, cpu, tss, stubs, iframe, context>>
  PROVE  Inv'
<1> USE DEF sched, mode, gsb, cpu, tss, stubs
<1>1. Interrupted /\ Interrupted' /\ label' = label /\ stack' = stack /\ flag' = flag /\ user' = user
  BY DEF Interrupted, label, stack, flag, user
<1>2. Whose' /\ Flags' /\ Stack' /\ Loaded' /\ Queued' /\ Away'
  BY <1>1, Undisturbed
<1>3. Types' /\ Taken' /\ GsKept'
  BY <1>1 DEF Inv, Types, Taken, GsKept
<1> QED BY <1>2, <1>3 DEF Inv

\* stray: only the handler can meet a wrong base.
LEMMA Stray == ASSUME Inv, stray PROVE Inv'
<1>1. pc = "handler"
  <2> SUFFICES ASSUME pc \in {"entry_stack", "entry_push", "kill", "switch"} PROVE gs = "percpu"
    BY DEF stray, PerCpuCode
  <2> QED BY DEF Inv, GsKept, label, Interrupted
<1> QED BY <1>1, Halted DEF stray

\* stub_exit: registers, page map and base are the interrupted code's again.
LEMMA StubExit == ASSUME Inv, stub_exit PROVE Inv'
<1> USE DEF stub_exit, sched, mode, gsb, tss, stubs
<1>1. Interrupted /\ Interrupted' /\ label' = label /\ stack' = stack /\ flag' = flag /\ user' = user /\ iframe \in Frames
  BY DEF Interrupted, label, stack, flag, user, Inv, Taken
<1>2. cr3' = cr3 /\ regs' \in Owners
  BY <1>1 DEF Inv, Taken, Frames
<1>3. Whose' /\ Flags' /\ Stack' /\ Loaded' /\ Queued' /\ Away'
  BY <1>1, <1>2, Undisturbed
<1>4. Types'
  BY <1>2 DEF Inv, Types
<1>5. Taken'
  BY <1>1, <1>2 DEF Inv, Taken
<1>6. GsKept'
  BY <1>1 DEF from_user, Inv, Taken, GsKept, label, Flags, Masked, Outside, flag
<1> QED BY <1>3, <1>4, <1>5, <1>6 DEF Inv

\* iretq: the interrupted code goes on where it was.
LEMMA Iretq == ASSUME Inv, iretq PROVE Inv'
<1> USE DEF iretq, sched, gsb, tss, stubs
<1>1. Interrupted /\ iframe \in Frames /\ label = iframe.pc /\ label \in Labels /\ flag
  BY DEF Interrupted, label, flag, Inv, Taken, Whose
<1>2. ~Interrupted' /\ label' = label /\ stack' = stack /\ flag' = flag /\ user' = user
  BY <1>1 DEF Interrupted, label, stack, flag, user, Labels
<1>3. Whose' /\ Flags' /\ Stack' /\ Loaded' /\ Queued' /\ Away'
  BY <1>1, <1>2, Undisturbed
<1>4. Types'
  BY <1>1 DEF Inv, Types, Frames
<1>5. Taken'
  BY <1>1, <1>2 DEF Inv, Taken
<1>6. GsKept'
  BY <1>1, <1>2 DEF Inv, GsKept, label, Interrupted
<1> QED BY <1>3, <1>4, <1>5, <1>6 DEF Inv

\* Nothing happens.
LEMMA Stutter == ASSUME Inv, UNCHANGED vars PROVE Inv'
<1> USE DEF vars, sched, mode, gsb, cpu, tss, stubs
<1>1. Interrupted' = Interrupted /\ label' = label /\ stack' = stack /\ flag' = flag /\ user' = user
  BY DEF Interrupted, label, stack, flag, user
<1>2. Queued' /\ Away'
  BY OthersStay
<1>3. Types' /\ Taken' /\ GsKept' /\ Loaded'
  BY <1>1 DEF Inv, Types, Taken, GsKept, Loaded
<1>4. Whose' /\ Flags' /\ Stack'
  BY <1>1 DEF Inv, Whose, Flags, Stack
<1> QED BY <1>2, <1>3, <1>4 DEF Inv
-----------------------------------------------------------------------------
(* The theorems                                                            *)

\* Init: kmain yields on the boot stack.
LEMMA InitInv == Init => Inv
<1> SUFFICES ASSUME Init PROVE Inv
  OBVIOUS
<1>1. ~Interrupted /\ label = "yield" /\ stack = rsp /\ flag = intr /\ user = regs
  BY DEF Init, Interrupted, label, stack, flag, user
<1>2. PICK B \in SUBSET Tasks : /\ tasks \in SetToSeqs(B)
                                /\ state = [t \in Tasks |-> IF t \in B THEN "ready" ELSE "unborn"]
  BY DEF Init
<1>3. tasks \in Seq(Tasks) /\ IsInjective(tasks) /\ Range(tasks) \subseteq B
  <2>1. Cardinality(B) \in Nat
    BY EntryAssumption, FS_Subset, FS_CardinalityType
  <2>2. tasks \in [1..Cardinality(B) -> B] /\ \A i, j \in 1..Cardinality(B) : i # j => tasks[i] # tasks[j]
    BY <1>2 DEF SetToSeqs
  <2>3. IsInjective(tasks) /\ Range(tasks) \subseteq B
    BY <2>2 DEF IsInjective, Range
  <2> QED BY <2>1, <2>2, <2>3
<1>4. Types
  <2>1. context \in [Tasks \cup {Idle} -> [pc : Labels, intr : BOOLEAN, rsp : Stacks]]
    BY DEF Init, task_init, Labels, Stacks, KStack, Owners
  <2>2. state \in [Tasks -> States]
    BY <1>2 DEF States
  <2> QED BY <1>3, <2>1, <2>2 DEF Init, Types, Stacks, Boot, Owners
<1>5. Queued
  BY <1>2, <1>3 DEF Init, Queued
<1>6. Away
  BY <1>2 DEF Init, Away, Fresh
<1>7. Loaded
  BY DEF Init, Loaded
<1>8. Taken /\ GsKept /\ Whose /\ Flags /\ Stack
  BY <1>1, EntryAssumption DEF Init, Taken, GsKept, Whose, Flags, Stack, Labels, OfUsers, OfTasks, Open, Masked,
                    Outside, Within, Starting, Leaving, Waiting
<1> QED BY <1>4, <1>5, <1>6, <1>7, <1>8 DEF Inv

\* Every step keeps the invariant.
LEMMA NextInv == Inv /\ [Next]_vars => Inv'
<1> SUFFICES ASSUME Inv, [Next]_vars PROVE Inv'
  OBVIOUS
<1>1. CASE Stub
  BY <1>1, EntrySwapgs, EntryStack, EntryPush, EntrySti, ExitCli, ExitPop, ExitSwapgs, Sysret DEF Stub
<1>2. CASE Switching
  BY <1>2, Kill, KillCli, Yield, Switch, IdleLoop, WaitReturn, KernelTrampoline, UserTrampoline, TrampIretq DEF Switching
<1>3. CASE Handler
  <2>1. ASSUME stop PROVE Inv'
    BY <2>1, Halted DEF stop
  <2> QED BY <1>3, <2>1, StubEntered, Acknowledge, Segfault, StubExit, Iretq, Stray, Timer DEF Handler
<1>4. CASE halt
  BY <1>4, Stutter DEF halt
<1>5. CASE load_gs \/ syscall \/ syscall_return \/ wait \/ task_exit
  BY <1>5, LoadGs, Syscall, SyscallReturn, Wait, TaskExit
<1>6. CASE \E t \in Tasks : spawn(t)
  BY <1>6, Spawn
<1>7. CASE \E v \in Lapic \cup Legacy : interrupt(v)
  BY <1>7, Interrupt
<1>8. CASE \E v \in Exceptions : exception(v)
  BY <1>8, Exception
<1>9. CASE UNCHANGED vars
  BY <1>9, Stutter
<1> QED BY <1>1, <1>2, <1>3, <1>4, <1>5, <1>6, <1>7, <1>8, <1>9 DEF Next, Kernel

\* The invariant holds throughout.
LEMMA Invariant == Spec => []Inv
BY InitInv, NextInv, PTL DEF Spec

\* Every place where the kernel takes gs for its per-processor data is reached
\* with that data in gs, except from an interrupt inside the user trampoline
\* (the stubs' swapgs, mp_get_percpu_data).
THEOREM PerCpuAlwaysReached == Spec => []PerCpuReached
<1>1. Inv => PerCpuReached
  <2> SUFFICES ASSUME Inv, PerCpuCode, gs # "percpu" PROVE iframe # None /\ iframe.pc = "tramp_iretq"
    BY DEF PerCpuReached
  <2>1. CASE pc = "handler"
    BY <2>1, FrameAssumption DEF Inv, GsKept, Taken, label, Interrupted
  <2>2. CASE pc # "handler"
    BY <2>2 DEF Inv, GsKept, label, Interrupted, PerCpuCode
  <2> QED BY <2>1, <2>2
<1> QED BY <1>1, Invariant, PTL

\* User code runs with its own registers, stack and page map, and its next
\* entry will find its own, empty kernel stack (sysret, iretq, scheduler_yield).
THEOREM AlwaysReturnsHome == Spec => []ReturnsHome
<1>1. Inv => ReturnsHome
  <2> SUFFICES ASSUME Inv, cpl = 3 PROVE ReturnsHome
    BY DEF ReturnsHome
  <2>1. pc = "user" /\ ~Interrupted /\ label = "user" /\ stack = rsp /\ flag = intr /\ user = regs
    BY DEF Inv, Taken, Interrupted, label, stack, flag, user
  <2>2. current \in Users /\ current # Idle /\ state[current] = "running" /\ intr /\ iframe = None
    BY <2>1, EntryAssumption DEF Inv, Whose, Taken, Flags, Open, OfUsers, OfTasks, Outside, Leaving, Tasks
  <2>3. regs = current /\ rsp = UStack(current) /\ frame[current] = None
    BY <2>1 DEF Inv, Stack, Outside
  <2>4. cr3 = current /\ rsp0 = current /\ krsp = current
    BY <2>2 DEF Inv, Loaded
  <2> QED BY <2>2, <2>3, <2>4 DEF ReturnsHome
<1> QED BY <1>1, Invariant, PTL

\* The kernel never runs on the stack or the page map of a freed task, and every
\* task that waits finds its frame where it left it (task_context_switch,
\* scheduler_kill_current_task, scheduler_tick).
THEOREM AlwaysOnOwnStack == Spec => []OnOwnStack
<1>1. Inv => OnOwnStack
  <2> SUFFICES ASSUME Inv PROVE OnOwnStack
    OBVIOUS
  <2>1. \/ rsp = KStack(current)
        \/ rsp = UStack(current) /\ (cpl = 3 \/ ~intr)
        \/ rsp = Boot /\ current = Idle
        \/ rsp = IST1 /\ iframe # None
    <3>1. CASE Interrupted
      BY <3>1, FrameAssumption DEF Inv, Taken
    <3>2. CASE ~Interrupted
      <4>1. label = pc /\ stack = rsp /\ flag = intr
        BY <3>2 DEF label, stack, flag
      <4>2. CASE current = Idle
        BY <4>1, <4>2 DEF Inv, Stack
      <4>3. CASE current # Idle /\ pc \in Outside
        BY <3>2, <4>1, <4>3 DEF Inv, Stack, Flags, Masked, Taken
      <4>4. CASE current # Idle /\ pc \notin Outside
        BY <4>1, <4>4 DEF Inv, Stack, Whose, Labels, Outside, Within, Starting, Leaving, Waiting
      <4> QED BY <4>2, <4>3, <4>4
    <3> QED BY <3>1, <3>2
  <2>2. current # Idle => state[current] # "freed"
    BY CurrentState
  <2>3. cr3 \in {current, None}
    BY DEF Inv, Loaded
  <2>4. \A t \in Tasks \ {current} : state[t] \in {"ready", "blocked"} =>
          /\ context[t].rsp = KStack(t)
          /\ t \in Users /\ context[t].pc = "resumed" => frame[t] = [rsp |-> UStack(t), regs |-> t]
    <3> TAKE t \in Tasks \ {current}
    <3> HAVE state[t] \in {"ready", "blocked"}
    <3>1. Fresh(t) \/ Parked(t)
      BY DEF Inv, Away
    <3>2. CASE Fresh(t)
      BY <3>2 DEF Fresh, task_init
    <3>3. CASE Parked(t)
      BY <3>3 DEF Parked, Saved
    <3> QED BY <3>1, <3>2, <3>3
  <2> QED BY <2>1, <2>2, <2>3, <2>4 DEF OnOwnStack
<1> QED BY <1>1, Invariant, PTL

-----------------------------------------------------------------------------
(* Start-up.                                                               *)

\* The program of a processor, and whether it has begun it.
Prog(p)    == IF p = BSP THEN bootstrap ELSE ap_start
Started(p) == todo[p] \notin {<< <<"park">> >>, << <<"lost">> >>}

\* A step of a program, rather than of a processor that is parked or lost.
Real(step) == step \notin {<<"park">>, <<"lost">>}

\* The step a processor is at, as an index of its program.
Pos(p) == Len(Prog(p)) - Len(todo[p]) + 1

\* The steps that program a controller, the same in both programs.
ChipSteps(op, c) ==
  CASE op = "read"    -> {2, 3}
    [] op = "init"    -> IF c = "master" THEN {4} ELSE {5}
    [] op = "icw"     -> IF c = "master" THEN {6, 8, 10} ELSE {7, 9, 11}
    [] op = "restore" -> IF c = "master" THEN {12} ELSE {13}
    [] op = "disable" -> IF c = "master" THEN {15} ELSE {14}

\* How many of a controller's five data bytes lie ahead at step n.
Left(n, a, b, c, d, e) ==
  IF n <= a THEN 5 ELSE IF n <= b THEN 4 ELSE IF n <= c THEN 3 ELSE IF n <= d THEN 2 ELSE IF n <= e THEN 1 ELSE 0
Ahead(n, chip) == IF chip = "master" THEN Left(n, 6, 8, 10, 12, 15) ELSE Left(n, 7, 9, 11, 13, 14)

\* The state's types.
BootTypes ==
  /\ DOMAIN todo = Procs
  /\ loaded \in [Procs -> SUBSET (Tables \cup {"memory", "acpi", "madt", "calibrate"})]
  /\ pic \in [Chips -> [due : 0..3, mask : {"firmware", "none", "word", "all"}]]
  /\ read \in [Procs -> [Chips -> {"firmware", "none", "word", "all"}]]
  /\ remaining \in Nat

\* What a processor has to run is the rest of its program; only the others
\* are ever parked or lost.
Placed(p) ==
  IF Started(p)
  THEN Pos(p) \in 1..Len(Prog(p)) /\ todo[p] = SubSeq(Prog(p), Pos(p), Len(Prog(p)))
  ELSE p # BSP

\* The tables of the boot processor and of the others, and the steps after
\* which they are there.
BootAfter == [idt |-> 1, gdt |-> 18, tss |-> 19, timer |-> 23, scheduler |-> 24, syscall |-> 25, sti |-> 26]
ApAfter   == [idt |-> 1, gdt |-> 16, tss |-> 17, timer |-> 18, scheduler |-> 19, syscall |-> 20, sti |-> 21]
After(p)  == IF p = BSP THEN BootAfter ELSE ApAfter

\* A processor has loaded what lies behind it, and has its per-processor data
\* before gdt_load needs it.
Furnished(p) ==
  Started(p) => /\ \A t \in Tables : Pos(p) > After(p)[t] => t \in loaded[p]
                /\ p # BSP \/ Pos(p) > 17 => p \in segment

\* The processors that have reported to the sync point and idle.
Notified == { p \in APs : Started(p) /\ Pos(p) = 23 }

\* Nobody else runs before the sync point is set; from then on it counts the
\* processors that have not reported.
Reported ==
  /\ Pos(BSP) <= 27 => jump = {} /\ \A p \in APs : todo[p] = << <<"park">> >>
  /\ Pos(BSP) > 27 => remaining = Cardinality(APs \ Notified)
  /\ Pos(BSP) > 29 => Notified = APs

\* A controller is silent, or some processor has more bytes to write to it than
\* it takes as initialisation words: its last byte will be the mask.
Masking(c) ==
  \/ pic[c] = [due |-> 0, mask |-> "all"]
  \/ \E p \in Procs : Started(p) /\ Ahead(Pos(p), c) > pic[c].due

\* The inductive invariant.
BootInv ==
  /\ BootTypes /\ Reported
  /\ \A p \in Procs : Placed(p) /\ Furnished(p)
  /\ \A c \in Chips : Masking(c)
-----------------------------------------------------------------------------
(* The programs                                                            *)

\* The rest of a program from its n-th step, and what is left after that step.
LEMMA Suffix ==
  ASSUME NEW S, NEW s \in Seq(S), NEW n \in 1..Len(s)
  PROVE  /\ Head(SubSeq(s, n, Len(s))) = s[n]
         /\ Len(SubSeq(s, n, Len(s))) = Len(s) - n + 1
         /\ n < Len(s) => Tail(SubSeq(s, n, Len(s))) = SubSeq(s, n + 1, Len(s))
<1> DEFINE r == SubSeq(s, n, Len(s))
           t == SubSeq(s, n + 1, Len(s))
<1>1. /\ r \in Seq(S) /\ Len(r) = Len(s) - n + 1
      /\ \A i \in 1..Len(r) : r[i] = s[n + i - 1]
  <2>1. Len(s) \in Nat /\ n \in Nat /\ n <= Len(s) /\ 1 <= n
    OBVIOUS
  <2>2. r \in Seq(S)
    BY <2>1
  <2>3. Len(r) = Len(s) - n + 1
    BY <2>1
  <2>4. \A i \in 1..Len(r) : r[i] = s[n + i - 1]
    BY <2>1, <2>3
  <2> QED BY <2>2, <2>3, <2>4
<1>2. r # << >>
  <2>1. Len(r) > 0
    BY <1>1
  <2> HIDE DEF r
  <2> QED BY <2>1
<1>3. ASSUME n < Len(s) PROVE Tail(r) = t
  <2>1. /\ t \in Seq(S) /\ Len(t) = Len(s) - n
        /\ \A i \in 1..Len(t) : t[i] = s[n + i]
    BY <1>3
  <2>2. /\ Tail(r) \in Seq(S) /\ Len(Tail(r)) = Len(r) - 1
        /\ \A i \in 1..Len(Tail(r)) : Tail(r)[i] = r[i + 1]
    <3> HIDE DEF r
    <3> QED BY <1>1, <1>2
  <2>3. Len(Tail(r)) = Len(t) /\ \A i \in 1..Len(t) : Tail(r)[i] = t[i]
    BY <1>1, <2>1, <2>2
  <2> HIDE DEF r, t
  <2> QED BY <2>1, <2>2, <2>3
<1> QED BY <1>1, <1>2, <1>3

\* The two programs are sequences of steps.
LEMMA ProgramSeq ==
  ap_start \in Seq(Range(ap_start)) /\ bootstrap \in Seq(Range(bootstrap))
BY DEF ap_start, bootstrap, pic_load, pic_remap, pic_disable, Both, Range

\* The steps of ap_start, pic_load spelled out ...
LEMMA ApSteps ==
  /\ Len(ap_start) = 23
  /\ ap_start[1] = <<"idt">> /\ ap_start[2] = <<"read", "master">> /\ ap_start[3] = <<"read", "slave">>
  /\ ap_start[4] = <<"init", "master">> /\ ap_start[5] = <<"init", "slave">> /\ ap_start[6] = <<"icw", "master">>
  /\ ap_start[7] = <<"icw", "slave">> /\ ap_start[8] = <<"icw", "master">> /\ ap_start[9] = <<"icw", "slave">>
  /\ ap_start[10] = <<"icw", "master">> /\ ap_start[11] = <<"icw", "slave">> /\ ap_start[12] = <<"restore", "master">>
  /\ ap_start[13] = <<"restore", "slave">> /\ ap_start[14] = <<"disable", "slave">> /\ ap_start[15] = <<"disable", "master">>
  /\ ap_start[16] = <<"gdt">> /\ ap_start[17] = <<"tss">> /\ ap_start[18] = <<"timer">>
  /\ ap_start[19] = <<"scheduler">> /\ ap_start[20] = <<"syscall">> /\ ap_start[21] = <<"sti">>
  /\ ap_start[22] = <<"notify">> /\ ap_start[23] = <<"idle">>
BY DEF ap_start, pic_load, pic_remap, pic_disable, Both

\* ... and those of bootstrap.
LEMMA BootSteps ==
  /\ Len(bootstrap) = 30
  /\ bootstrap[1] = <<"idt">> /\ bootstrap[2] = <<"read", "master">> /\ bootstrap[3] = <<"read", "slave">>
  /\ bootstrap[4] = <<"init", "master">> /\ bootstrap[5] = <<"init", "slave">> /\ bootstrap[6] = <<"icw", "master">>
  /\ bootstrap[7] = <<"icw", "slave">> /\ bootstrap[8] = <<"icw", "master">> /\ bootstrap[9] = <<"icw", "slave">>
  /\ bootstrap[10] = <<"icw", "master">> /\ bootstrap[11] = <<"icw", "slave">> /\ bootstrap[12] = <<"restore", "master">>
  /\ bootstrap[13] = <<"restore", "slave">> /\ bootstrap[14] = <<"disable", "slave">> /\ bootstrap[15] = <<"disable", "master">>
  /\ bootstrap[16] = <<"memory">> /\ bootstrap[17] = <<"mp">> /\ bootstrap[18] = <<"gdt">>
  /\ bootstrap[19] = <<"tss">> /\ bootstrap[20] = <<"acpi">> /\ bootstrap[21] = <<"madt">>
  /\ bootstrap[22] = <<"calibrate">> /\ bootstrap[23] = <<"timer">> /\ bootstrap[24] = <<"scheduler">>
  /\ bootstrap[25] = <<"syscall">> /\ bootstrap[26] = <<"sti">> /\ bootstrap[27] = <<"set">>
  /\ bootstrap[28] = <<"jump">> /\ bootstrap[29] = <<"wait">> /\ bootstrap[30] = <<"tasks">>
BY DEF bootstrap, pic_load, pic_remap, pic_disable, Both

\* Where in ap_start each step is found ...
LEMMA ApWhere ==
  ASSUME NEW n \in 1..23
  PROVE  /\ \A t \in Tables : ap_start[n] = <<t>> => n = ApAfter[t]
         /\ ap_start[n] = <<"notify">> => n = 22
         /\ \A c \in Chips, op \in {"read", "init", "icw", "restore", "disable"} :
              ap_start[n] = <<op, c>> => n \in ChipSteps(op, c)
         /\ ap_start[n] = <<"idle">> => n = 23
         /\ ap_start[n] \notin {<<"park">>, <<"lost">>, <<"wait">>, <<"tasks">>}
<1>1. n = 1 \/ n = 2 \/ n = 3 \/ n = 4 \/ n = 5 \/ n = 6 \/ n = 7 \/ n = 8 \/ n = 9 \/ n = 10 \/ n = 11 \/ n = 12
      \/ n = 13 \/ n = 14 \/ n = 15 \/ n = 16 \/ n = 17 \/ n = 18 \/ n = 19 \/ n = 20 \/ n = 21 \/ n = 22 \/ n = 23
  OBVIOUS
<1>2. \A t \in Tables : ap_start[n] = <<t>> => n = ApAfter[t]
  BY <1>1, ApSteps DEF ApAfter, Tables
<1>3. ap_start[n] = <<"notify">> => n = 22
  BY <1>1, ApSteps
<1>4. (ap_start[n] = <<"idle">> => n = 23) /\ ap_start[n] \notin {<<"park">>, <<"lost">>, <<"wait">>, <<"tasks">>}
  BY <1>1, ApSteps
<1>5. \A c \in Chips, op \in {"read", "init", "icw", "restore", "disable"} :
        ap_start[n] = <<op, c>> => n \in ChipSteps(op, c)
  BY <1>1, ApSteps DEF Chips, ChipSteps
<1> QED BY <1>2, <1>3, <1>4, <1>5

\* ... and where in bootstrap.
LEMMA BootWhere ==
  ASSUME NEW n \in 1..30
  PROVE  /\ \A t \in Tables : bootstrap[n] = <<t>> => n = BootAfter[t]
         /\ bootstrap[n] # <<"notify">>
         /\ bootstrap[n] = <<"memory">> => n = 16
         /\ bootstrap[n] = <<"mp">> => n = 17
         /\ bootstrap[n] = <<"acpi">> => n = 20
         /\ bootstrap[n] = <<"madt">> => n = 21
         /\ bootstrap[n] = <<"calibrate">> => n = 22
         /\ bootstrap[n] = <<"set">> => n = 27
         /\ bootstrap[n] = <<"jump">> => n = 28
         /\ bootstrap[n] = <<"wait">> => n = 29
         /\ bootstrap[n] = <<"tasks">> => n = 30
         /\ \A c \in Chips, op \in {"read", "init", "icw", "restore", "disable"} :
              bootstrap[n] = <<op, c>> => n \in ChipSteps(op, c)
         /\ bootstrap[n] \notin {<<"park">>, <<"lost">>, <<"idle">>}
<1>1. n = 1 \/ n = 2 \/ n = 3 \/ n = 4 \/ n = 5 \/ n = 6 \/ n = 7 \/ n = 8 \/ n = 9 \/ n = 10 \/ n = 11 \/ n = 12
      \/ n = 13 \/ n = 14 \/ n = 15 \/ n = 16 \/ n = 17 \/ n = 18 \/ n = 19 \/ n = 20 \/ n = 21 \/ n = 22 \/ n = 23
      \/ n = 24 \/ n = 25 \/ n = 26 \/ n = 27 \/ n = 28 \/ n = 29 \/ n = 30
  OBVIOUS
<1>2. \A t \in Tables : bootstrap[n] = <<t>> => n = BootAfter[t]
  BY <1>1, BootSteps DEF BootAfter, Tables
<1>3. /\ bootstrap[n] # <<"notify">>
      /\ bootstrap[n] = <<"memory">> => n = 16
      /\ bootstrap[n] = <<"mp">> => n = 17
      /\ bootstrap[n] = <<"acpi">> => n = 20
      /\ bootstrap[n] = <<"madt">> => n = 21
      /\ bootstrap[n] = <<"calibrate">> => n = 22
      /\ bootstrap[n] = <<"set">> => n = 27
      /\ bootstrap[n] = <<"jump">> => n = 28
      /\ bootstrap[n] = <<"wait">> => n = 29
      /\ bootstrap[n] = <<"tasks">> => n = 30
  BY <1>1, BootSteps
<1>4. bootstrap[n] \notin {<<"park">>, <<"lost">>, <<"idle">>}
  BY <1>1, BootSteps
<1>5. \A c \in Chips, op \in {"read", "init", "icw", "restore", "disable"} :
        bootstrap[n] = <<op, c>> => n \in ChipSteps(op, c)
  BY <1>1, BootSteps DEF Chips, ChipSteps
<1> QED BY <1>2, <1>3, <1>4, <1>5

-----------------------------------------------------------------------------
(* Positions and what they imply                                           *)

\* A processor that has begun is at one of its program's 30 or 23 steps.
LEMMA Position ==
  ASSUME BootInv, NEW p \in Procs, Started(p)
  PROVE  /\ Len(Prog(p)) = IF p = BSP THEN 30 ELSE 23
         /\ Pos(p) \in Nat /\ Pos(p) \in 1..Len(Prog(p))
<1>1. Len(Prog(p)) = IF p = BSP THEN 30 ELSE 23
  BY ApSteps, BootSteps DEF Prog
<1>2. Pos(p) \in 1..Len(Prog(p))
  BY DEF BootInv, Placed
<1> QED BY <1>1, <1>2

\* A processor about to take a step of the program is at that step's position.
LEMMA Where ==
  ASSUME BootInv, NEW p \in Procs, NEW step, Real(step), At(p, step)
  PROVE  /\ Started(p) /\ Pos(p) \in 1..Len(Prog(p)) /\ Prog(p)[Pos(p)] = step
         /\ Len(Prog(p)) = IF p = BSP THEN 30 ELSE 23
<1>1. Started(p)
  <2>1. Head(<< <<"park">> >>) = <<"park">> /\ Head(<< <<"lost">> >>) = <<"lost">>
    OBVIOUS
  <2> QED BY <2>1 DEF Started, At, Real
<1>2. Pos(p) \in 1..Len(Prog(p)) /\ todo[p] = SubSeq(Prog(p), Pos(p), Len(Prog(p)))
  BY <1>1 DEF BootInv, Placed
<1>3. Prog(p) \in Seq(Range(Prog(p))) /\ Len(Prog(p)) = IF p = BSP THEN 30 ELSE 23
  BY ProgramSeq, ApSteps, BootSteps DEF Prog
<1>4. Head(todo[p]) = Prog(p)[Pos(p)]
  <2> DEFINE n == Pos(p)
             s == Prog(p)
  <2>1. s \in Seq(Range(s)) /\ n \in 1..Len(s) /\ todo[p] = SubSeq(s, n, Len(s))
    BY <1>2, <1>3
  <2> HIDE DEF n, s
  <2>2. Head(todo[p]) = s[n]
    BY <2>1, Suffix
  <2> QED BY <2>2 DEF n, s
<1> QED BY <1>1, <1>2, <1>3, <1>4 DEF At

\* The step that loads a table is the one After names.
LEMMA AtTable ==
  ASSUME NEW p \in Procs, NEW n \in 1..Len(Prog(p)), NEW t \in Tables, Prog(p)[n] = <<t>>
  PROVE  n = After(p)[t]
<1>1. CASE p = BSP
  <2>1. Prog(p) = bootstrap /\ After(p) = BootAfter /\ n \in 1..30
    BY <1>1, BootSteps DEF Prog, After
  <2> QED BY <2>1, BootWhere
<1>2. CASE p # BSP
  <2>1. Prog(p) = ap_start /\ After(p) = ApAfter /\ n \in 1..23
    BY <1>2, ApSteps DEF Prog, After
  <2> QED BY <1>2, <2>1, ApWhere
<1> QED BY <1>1, <1>2

\* The steps that program a controller are the ones ChipSteps names.
LEMMA AtChip ==
  ASSUME NEW p \in Procs, NEW n \in 1..Len(Prog(p)), NEW c \in Chips,
         NEW op \in {"read", "init", "icw", "restore", "disable"}, Prog(p)[n] = <<op, c>>
  PROVE  n \in ChipSteps(op, c)
<1>1. CASE p = BSP
  <2>1. Prog(p) = bootstrap /\ n \in 1..30
    BY <1>1, BootSteps DEF Prog
  <2> QED BY <2>1, BootWhere
<1>2. CASE p # BSP
  <2>1. Prog(p) = ap_start /\ n \in 1..23
    BY <1>2, ApSteps DEF Prog
  <2> QED BY <2>1, ApWhere
<1> QED BY <1>1, <1>2

\* A finished step moves its processor, and nobody else, one position on.
LEMMA Advance ==
  ASSUME BootInv, NEW p \in Procs, Started(p), Pos(p) < Len(Prog(p)), Done(p)
  PROVE  /\ Started(p)' /\ Pos(p)' = Pos(p) + 1 /\ Placed(p)'
         /\ \A q \in Procs \ {p} : todo'[q] = todo[q]
         /\ DOMAIN todo' = Procs
<1> DEFINE n == Pos(p)
           s == Prog(p)
<1>1. s \in Seq(Range(s)) /\ n \in 1..Len(s) /\ n < Len(s) /\ todo[p] = SubSeq(s, n, Len(s))
  BY ProgramSeq DEF BootInv, Placed, Prog
<1>2. s[n + 1] \notin {<<"park">>, <<"lost">>}
  <2>1. n + 1 \in 1..Len(s)
    BY <1>1
  <2> QED BY <2>1, ApWhere, BootWhere, ApSteps, BootSteps DEF Prog
<1>3. todo'[p] = Tail(todo[p]) /\ (\A q \in Procs \ {p} : todo'[q] = todo[q]) /\ DOMAIN todo' = Procs
  BY DEF Done, BootInv, BootTypes
<1>4. s' = s
  BY DEF Prog
<1> HIDE DEF s
<1>5. todo'[p] = SubSeq(s, n + 1, Len(s)) /\ Len(todo'[p]) = Len(s) - n /\ Head(todo'[p]) = s[n + 1]
  <2> HIDE DEF n
  <2>1. todo'[p] = SubSeq(s, n + 1, Len(s))
    BY <1>1, <1>3, Suffix
  <2>2. n + 1 \in 1..Len(s)
    BY <1>1
  <2>3. Head(SubSeq(s, n + 1, Len(s))) = s[n + 1] /\ Len(SubSeq(s, n + 1, Len(s))) = Len(s) - (n + 1) + 1
    BY <1>1, <2>2, Suffix
  <2> QED BY <1>1, <2>1, <2>3
<1>6. Started(p)'
  <2>1. Head(<< <<"park">> >>) = <<"park">> /\ Head(<< <<"lost">> >>) = <<"lost">>
    OBVIOUS
  <2> QED BY <1>2, <1>5, <2>1 DEF Started
<1>7. Pos(p)' = n + 1
  <2>1. Pos(p)' = Len(s) - Len(todo'[p]) + 1
    BY <1>4 DEF Pos, s
  <2> QED BY <1>1, <1>5, <2>1
<1>8. Placed(p)'
  <2>1. n + 1 \in 1..Len(s) /\ todo'[p] = SubSeq(s, n + 1, Len(s))
    BY <1>1, <1>5
  <2> QED BY <1>4, <1>6, <1>7, <2>1 DEF Placed, s
<1> QED BY <1>3, <1>6, <1>7, <1>8

\* A processor that takes no step stays where it is.
LEMMA Others ==
  ASSUME NEW q, todo'[q] = todo[q]
  PROVE  (Started(q)' <=> Started(q)) /\ Pos(q)' = Pos(q) /\ (Placed(q)' <=> Placed(q))
BY DEF Started, Pos, Placed, Prog

\* What a step must have loaded for Furnished to hold after it.
LEMMA Furnishes ==
  ASSUME BootInv, NEW p \in Procs, Started(p), Pos(p) < Len(Prog(p)), Done(p),
         \A q \in Procs \ {p} : loaded'[q] = loaded[q],
         segment \subseteq segment',
         \A t \in Tables : Pos(p) >= After(p)[t] => t \in loaded'[p],
         p = BSP /\ Pos(p) = 17 => p \in segment'
  PROVE  \A q \in Procs : Placed(q)' /\ Furnished(q)'
<1>1. /\ Started(p)' /\ Pos(p)' = Pos(p) + 1 /\ Placed(p)'
      /\ \A q \in Procs \ {p} : todo'[q] = todo[q]
  BY Advance
<1>2. Pos(p) \in Nat /\ \A t \in Tables : After(p)[t] \in Nat
  BY Position DEF After, ApAfter, BootAfter, Tables
<1>3. Furnished(p)'
  <2>1. \A t \in Tables : Pos(p)' > After(p)[t] => t \in loaded'[p]
    BY <1>1, <1>2
  <2>2. p # BSP \/ Pos(p)' > 17 => p \in segment'
    BY <1>1, <1>2 DEF BootInv, Furnished
  <2>3. After(p)' = After(p)
    BY DEF After
  <2> QED BY <2>1, <2>2, <2>3 DEF Furnished
<1>4. ASSUME NEW q \in Procs \ {p} PROVE Placed(q)' /\ Furnished(q)'
  <2>1. (Started(q)' <=> Started(q)) /\ Pos(q)' = Pos(q) /\ (Placed(q)' <=> Placed(q)) /\ After(q)' = After(q)
    BY <1>1, Others DEF After
  <2> QED BY <2>1 DEF BootInv, Furnished
<1> QED BY <1>1, <1>3, <1>4

\* A step other than the sync point's three leaves the count right.
LEMMA Reports ==
  ASSUME BootInv, NEW p \in Procs, Started(p), Pos(p) < Len(Prog(p)), Done(p), UNCHANGED <<jump, remaining>>,
         IF p = BSP THEN Pos(p) \notin {27, 29} ELSE Pos(p) # 22
  PROVE  Reported'
<1>1. /\ Started(p)' /\ Pos(p)' = Pos(p) + 1
      /\ \A q \in Procs \ {p} : todo'[q] = todo[q]
  BY Advance
<1>2. \A q \in Procs \ {p} : (Started(q)' <=> Started(q)) /\ Pos(q)' = Pos(q)
  BY <1>1, Others
<1>3. Pos(p) \in Nat /\ (p # BSP => Pos(p) < 23)
  BY Position
<1>4. Notified' = Notified
  BY <1>1, <1>2, <1>3 DEF Notified, APs
<1>5. CASE p = BSP
  <2>1. (Pos(BSP)' <= 27 => Pos(BSP) <= 27) /\ (Pos(BSP)' > 27 => Pos(BSP) > 27) /\ (Pos(BSP)' > 29 => Pos(BSP) > 29)
    BY <1>1, <1>3, <1>5
  <2>2. \A q \in APs : todo'[q] = todo[q]
    BY <1>1, <1>5 DEF APs
  <2> QED BY <1>4, <2>1, <2>2 DEF BootInv, Reported
<1>6. CASE p # BSP
  <2>1. Pos(BSP)' = Pos(BSP)
    BY <1>2, <1>6, BootAssumption
  <2>2. ~(Pos(BSP) <= 27)
    BY <1>6 DEF BootInv, Reported, APs, Started
  <2> QED BY <1>4, <2>1, <2>2 DEF BootInv, Reported
<1> QED BY <1>5, <1>6

\* A step outside pic_load leaves the controllers as they were.
LEMMA Masks ==
  ASSUME BootInv, NEW p \in Procs, Started(p), Pos(p) < Len(Prog(p)), Done(p), UNCHANGED pic, Pos(p) \notin 6..15
  PROVE  \A c \in Chips : Masking(c)'
<1>1. /\ Started(p)' /\ Pos(p)' = Pos(p) + 1
      /\ \A q \in Procs \ {p} : todo'[q] = todo[q]
  BY Advance
<1>2. \A q \in Procs \ {p} : (Started(q)' <=> Started(q)) /\ Pos(q)' = Pos(q)
  BY <1>1, Others
<1>3. Pos(p) \in Nat
  BY Position
<1>4. \A c : Ahead(Pos(p) + 1, c) = Ahead(Pos(p), c)
  BY <1>3 DEF Ahead, Left
<1>5. \A q \in Procs, c \in Chips : Started(q) => Started(q)' /\ Ahead(Pos(q)', c) = Ahead(Pos(q), c)
  BY <1>1, <1>2, <1>4
<1> QED BY <1>5 DEF BootInv, Masking, Ahead, Left

\* The four parts together: a step that touches neither a controller nor the
\* sync point.
LEMMA PlainStep ==
  ASSUME BootInv, NEW p \in Procs, Started(p), Pos(p) < Len(Prog(p)), Done(p), UNCHANGED <<jump, remaining, pic>>,
         loaded' \in [Procs -> SUBSET (Tables \cup {"memory", "acpi", "madt", "calibrate"})],
         read' \in [Procs -> [Chips -> {"firmware", "none", "word", "all"}]],
         \A q \in Procs \ {p} : loaded'[q] = loaded[q],
         segment \subseteq segment',
         \A t \in Tables : Pos(p) >= After(p)[t] => t \in loaded'[p],
         p = BSP /\ Pos(p) = 17 => p \in segment',
         IF p = BSP THEN Pos(p) \notin {27, 29} ELSE Pos(p) # 22,
         Pos(p) \notin 6..15
  PROVE  BootInv'
<1>1. BootTypes'
  BY Advance DEF BootInv, BootTypes
<1>2. \A q \in Procs : Placed(q)' /\ Furnished(q)'
  BY Furnishes
<1>3. Reported'
  BY Reports
<1>4. \A c \in Chips : Masking(c)'
  BY Masks
<1> QED BY <1>1, <1>2, <1>3, <1>4 DEF BootInv

-----------------------------------------------------------------------------
(* Processors, and the steps every processor takes                         *)

\* There are as many processors as entries of the boot loader's list.
LEMMA Processors ==
  /\ IsFiniteSet(Procs) /\ IsFiniteSet(APs)
  /\ Len(Cpus) \in Nat /\ Cardinality(APs) = Len(Cpus) - 1
<1>1. Cpus \in [1..Len(Cpus) -> Procs] /\ Len(Cpus) \in Nat
  BY BootAssumption
<1>2. Cpus \in Bijection(1..Len(Cpus), Procs)
  BY <1>1, BootAssumption DEF Bijection, Injection, Surjection, IsInjective, Procs, Range
<1>3. ExistsBijection(1..Len(Cpus), Procs)
  BY <1>2 DEF ExistsBijection
<1>4. IsFiniteSet(Procs) /\ Cardinality(Procs) = Len(Cpus)
  BY <1>1, <1>3, FS_NatBijection, FS_CountingElements
<1>5. IsFiniteSet(APs) /\ Cardinality(APs) = Cardinality(Procs) - 1
  BY <1>4, BootAssumption, FS_RemoveElement DEF APs
<1> QED BY <1>1, <1>4, <1>5

\* A table whose step lies behind is loaded, or is being loaded now.
LEMMA Kept ==
  ASSUME BootInv, NEW p \in Procs, Started(p)
  PROVE  \A t \in Tables : Pos(p) >= After(p)[t] => t \in loaded[p] \/ Pos(p) = After(p)[t]
<1>1. Pos(p) \in Nat /\ \A t \in Tables : After(p)[t] \in Nat
  BY Position DEF After, ApAfter, BootAfter, Tables
<1> QED BY <1>1 DEF BootInv, Furnished

\* Steps that move no processor, as a panic and the hand-over's writes.
LEMMA Still ==
  ASSUME BootInv, UNCHANGED <<todo, loaded, segment, remaining, pic, read>>, jump' = jump \/ Pos(BSP) > 27
  PROVE  BootInv'
<1>1. \A q : (Started(q)' <=> Started(q)) /\ Pos(q)' = Pos(q) /\ (Placed(q)' <=> Placed(q))
  BY Others
<1>2. Notified' = Notified
  BY <1>1 DEF Notified
<1>3. BootTypes'
  BY DEF BootInv, BootTypes
<1>4. Started(BSP) /\ Pos(BSP) \in Nat
  BY Position, BootAssumption DEF BootInv, Placed
<1>5. Reported'
  BY <1>1, <1>2, <1>4 DEF BootInv, Reported
<1>6. \A q \in Procs : Placed(q)' /\ Furnished(q)'
  BY <1>1 DEF BootInv, Furnished, After
<1>7. \A c \in Chips : Masking(c)'
  <2>1. \A q, c : Ahead(Pos(q)', c) = Ahead(Pos(q), c)
    BY <1>1
  <2> QED BY <1>1, <2>1 DEF BootInv, Masking, Ahead, Left
<1> QED BY <1>3, <1>5, <1>6, <1>7 DEF BootInv

\* No table is loaded at the steps that program a controller or synchronise,
\* and no two at the same step.
LEMMA AfterSteps ==
  ASSUME NEW p, NEW table \in Tables
  PROVE  /\ After(p)[table] \in Nat /\ After(p)[table] \notin 2..15
         /\ p = BSP => After(p)[table] \notin {17, 27, 29} /\ After(p)[table] < 30
         /\ p # BSP => After(p)[table] < 22
         /\ \A t \in Tables : After(p)[t] = After(p)[table] => t = table
<1>1. CASE p = BSP
  <2>1. After(p) = BootAfter
    BY <1>1 DEF After
  <2>2. /\ BootAfter["idt"] = 1 /\ BootAfter["gdt"] = 18 /\ BootAfter["tss"] = 19 /\ BootAfter["timer"] = 23
        /\ BootAfter["scheduler"] = 24 /\ BootAfter["syscall"] = 25 /\ BootAfter["sti"] = 26
    BY DEF BootAfter
  <2> QED BY <1>1, <2>1, <2>2 DEF Tables
<1>2. CASE p # BSP
  <2>1. After(p) = ApAfter
    BY <1>2 DEF After
  <2>2. /\ ApAfter["idt"] = 1 /\ ApAfter["gdt"] = 16 /\ ApAfter["tss"] = 17 /\ ApAfter["timer"] = 18
        /\ ApAfter["scheduler"] = 19 /\ ApAfter["syscall"] = 20 /\ ApAfter["sti"] = 21
    BY DEF ApAfter
  <2> QED BY <1>2, <2>1, <2>2 DEF Tables
<1> QED BY <1>1, <1>2

\* pic_read: the masks are read, in any state the controllers are in.
LEMMA PicRead == ASSUME BootInv, NEW p \in Procs, NEW c \in Chips, pic_read(p, c) PROVE BootInv'
<1>1. /\ Started(p) /\ Pos(p) \in 1..Len(Prog(p)) /\ Prog(p)[Pos(p)] = <<"read", c>>
      /\ Len(Prog(p)) = IF p = BSP THEN 30 ELSE 23
  <2>1. Real(<<"read", c>>) /\ At(p, <<"read", c>>)
    BY DEF Real, pic_read
  <2> QED BY <2>1, Where, Zenon
<1>2. Pos(p) \in {2, 3} /\ Pos(p) < Len(Prog(p))
  <2>1. Pos(p) \in ChipSteps("read", c)
    BY <1>1, AtChip, Zenon
  <2> QED BY <1>1, <2>1 DEF ChipSteps
<1>3. \A t \in Tables : Pos(p) >= After(p)[t] => t \in loaded[p]
  BY <1>1, <1>2, AfterSteps, Kept
<1>4. read' \in [Procs -> [Chips -> {"firmware", "none", "word", "all"}]]
  BY DEF pic_read, BootInv, BootTypes
<1>5. UNCHANGED <<loaded, segment, handover, remaining, pic>> /\ Done(p)
  BY DEF pic_read
<1>6. /\ Started(p) /\ Pos(p) \notin 6..15
      /\ p = BSP => Pos(p) \notin {17, 27, 29}
      /\ p # BSP => Pos(p) # 22
  BY <1>1, <1>2
<1> QED BY <1>2, <1>3, <1>4, <1>5, <1>6, PlainStep DEF handover, BootInv, BootTypes

\* idt_load, lapic_configure_timer, scheduler_load, syscall_load and sti.
LEMMA Load == ASSUME BootInv, NEW p \in Procs, NEW table \in Tables, load(p, table) PROVE BootInv'
<1>1. /\ Started(p) /\ Pos(p) \in 1..Len(Prog(p)) /\ Prog(p)[Pos(p)] = <<table>>
      /\ Len(Prog(p)) = IF p = BSP THEN 30 ELSE 23
  <2>1. Real(<<table>>) /\ At(p, <<table>>)
    BY DEF Real, Tables, load
  <2> QED BY <2>1, Where, Zenon
<1>2. Pos(p) = After(p)[table]
  BY <1>1, AtTable, Zenon
<1>3. /\ Pos(p) \notin 6..15 /\ Pos(p) < Len(Prog(p))
      /\ p = BSP => Pos(p) \notin {17, 27, 29}
      /\ p # BSP => Pos(p) # 22
  BY <1>1, <1>2, AfterSteps
<1>4. \A t \in Tables : Pos(p) >= After(p)[t] => t \in loaded'[p]
  <2>1. \A t \in Tables : Pos(p) >= After(p)[t] => t \in loaded[p] \/ t = table
    BY <1>1, <1>2, AfterSteps, Kept
  <2> QED BY <2>1 DEF load, BootInv, BootTypes
<1>5. /\ loaded' \in [Procs -> SUBSET (Tables \cup {"memory", "acpi", "madt", "calibrate"})]
      /\ \A q \in Procs \ {p} : loaded'[q] = loaded[q]
  BY DEF load, BootInv, BootTypes
<1> QED BY <1>1, <1>3, <1>4, <1>5, PlainStep DEF load, handover, BootInv, BootTypes

\* gdt_load and tss_load, which need the per-processor data.
LEMMA GdtTss == ASSUME BootInv, NEW p \in Procs, gdt_load(p) \/ tss_load(p) PROVE BootInv'
<1> DEFINE table == IF gdt_load(p) THEN "gdt" ELSE "tss"
<1>0. table \in Tables
  BY DEF Tables
<1>1. /\ Started(p) /\ Pos(p) \in 1..Len(Prog(p)) /\ Prog(p)[Pos(p)] = <<table>>
      /\ Len(Prog(p)) = IF p = BSP THEN 30 ELSE 23
  <2>1. Real(<<table>>) /\ At(p, <<table>>)
    BY DEF Real, gdt_load, tss_load
  <2> HIDE DEF table
  <2> QED BY <2>1, Where, Zenon
<1>2. Pos(p) = After(p)[table]
  <2> HIDE DEF table
  <2> QED BY <1>0, <1>1, AtTable, Zenon
<1>3. /\ Pos(p) \notin 6..15 /\ Pos(p) < Len(Prog(p))
      /\ p = BSP => Pos(p) \notin {17, 27, 29}
      /\ p # BSP => Pos(p) # 22
  <2> HIDE DEF table
  <2> QED BY <1>0, <1>1, <1>2, AfterSteps
<1>4. p \in segment
  <2>1. p = BSP => Pos(p) > 17
    BY <1>2 DEF After, BootAfter
  <2> QED BY <1>1, <2>1 DEF BootInv, Furnished
<1>5. /\ loaded' \in [Procs -> SUBSET (Tables \cup {"memory", "acpi", "madt", "calibrate"})]
      /\ \A q \in Procs \ {p} : loaded'[q] = loaded[q]
  BY DEF gdt_load, tss_load, BootInv, BootTypes, Tables
<1>6. loaded'[p] = (IF table = "gdt" THEN loaded[p] \ {"tss"} ELSE loaded[p]) \cup {table}
  BY <1>4 DEF gdt_load, tss_load, BootInv, BootTypes
<1>7. \A t \in Tables : Pos(p) >= After(p)[t] => t \in loaded'[p]
  <2>2. table = "gdt" => ~(Pos(p) >= After(p)["tss"])
    BY <1>2 DEF After, ApAfter, BootAfter
  <2> HIDE DEF table
  <2>1. \A t \in Tables : Pos(p) >= After(p)[t] => t \in loaded[p] \/ t = table
    BY <1>0, <1>1, <1>2, AfterSteps, Kept
  <2> QED BY <1>6, <2>1, <2>2
<1>8. UNCHANGED <<segment, handover, remaining, pic, read>> /\ Done(p)
  BY DEF gdt_load, tss_load
<1> HIDE DEF table
<1> QED BY <1>1, <1>3, <1>5, <1>7, <1>8, PlainStep DEF handover, BootInv, BootTypes

-----------------------------------------------------------------------------
(* Programming the legacy controllers                                      *)

\* A step that writes to one controller leaves the other one's promise alone.
LEMMA MaskKept ==
  ASSUME BootInv, NEW p \in Procs, Started(p), Pos(p) < Len(Prog(p)), Done(p),
         NEW d \in Chips, pic'[d] = pic[d], Ahead(Pos(p) + 1, d) = Ahead(Pos(p), d)
  PROVE  Masking(d)'
<1>1. /\ Started(p)' /\ Pos(p)' = Pos(p) + 1
      /\ \A q \in Procs \ {p} : todo'[q] = todo[q]
  BY Advance
<1>2. \A q \in Procs \ {p} : (Started(q)' <=> Started(q)) /\ Pos(q)' = Pos(q)
  BY <1>1, Others
<1>3. \A q \in Procs : Started(q) => Started(q)' /\ Ahead(Pos(q)', d) = Ahead(Pos(q), d)
  BY <1>1, <1>2
<1> QED BY <1>3 DEF BootInv, Masking, Ahead, Left

\* pic_init: three words become due, and this processor has five bytes to write.
LEMMA PicInit == ASSUME BootInv, NEW p \in Procs, NEW c \in Chips, pic_init(p, c) PROVE BootInv'
<1> DEFINE n == Pos(p)
<1>1. /\ Started(p) /\ n \in 1..Len(Prog(p)) /\ Prog(p)[n] = <<"init", c>>
      /\ Len(Prog(p)) = IF p = BSP THEN 30 ELSE 23
  <2>1. Real(<<"init", c>>) /\ At(p, <<"init", c>>)
    BY DEF Real, pic_init
  <2> QED BY <2>1, Where, Zenon
<1>2. n = IF c = "master" THEN 4 ELSE 5
  <2>1. n \in ChipSteps("init", c)
    BY <1>1, AtChip, Zenon
  <2> QED BY <2>1 DEF ChipSteps
<1>3. Started(p) /\ n \in {4, 5} /\ n < Len(Prog(p)) /\ Done(p)
  BY <1>1, <1>2 DEF pic_init
<1>4. UNCHANGED <<loaded, segment, jump, remaining, read>>
      /\ pic' = [pic EXCEPT ![c] = [due |-> 3, mask |-> "none"]]
  BY DEF pic_init, handover
<1>5. \A t \in Tables : n >= After(p)[t] => t \in loaded[p]
  BY <1>3, AfterSteps, Kept
<1>6. \A q \in Procs : Placed(q)' /\ Furnished(q)'
  BY <1>3, <1>4, <1>5, Furnishes
<1>7. Reported'
  BY <1>3, <1>4, Reports
<1>8. BootTypes'
  <2>1. pic' \in [Chips -> [due : 0..3, mask : {"firmware", "none", "word", "all"}]]
    BY <1>4 DEF BootInv, BootTypes
  <2> QED BY <1>3, <1>4, <2>1, Advance DEF BootInv, BootTypes
<1>9. Masking(c)'
  <2>1. Started(p)' /\ Pos(p)' = n + 1
    BY <1>3, Advance
  <2>2. Ahead(n + 1, c) = 5 /\ pic'[c].due = 3
    BY <1>2, <1>4 DEF Ahead, Left, BootInv, BootTypes
  <2>3. Ahead(Pos(p)', c) > pic'[c].due
    BY <2>1, <2>2
  <2> QED BY <2>1, <2>3 DEF Masking, Ahead, Left
<1>10. \A d \in Chips \ {c} : Masking(d)'
  <2> TAKE d \in Chips \ {c}
  <2>1. pic'[d] = pic[d] /\ Ahead(n + 1, d) = Ahead(n, d)
    BY <1>3, <1>4 DEF Ahead, Left, BootInv, BootTypes
  <2> QED BY <1>3, <2>1, MaskKept
<1> QED BY <1>6, <1>7, <1>8, <1>9, <1>10 DEF BootInv

\* pic_write: a due word is taken and both counts fall, or the mask is set, and
\* the last byte of a processor sets it to "all".
LEMMA PicWrite == ASSUME BootInv, NEW p \in Procs, NEW c \in Chips, pic_write(p, c) PROVE BootInv'
<1> DEFINE n == Pos(p)
<1>1. PICK op \in {"icw", "restore", "disable"}, value \in {"firmware", "none", "word", "all"} :
        At(p, <<op, c>>) /\ write_data(c, value) /\ (op = "disable" => value = "all")
  BY DEF pic_write, BootInv, BootTypes
<1>2. /\ Started(p) /\ n \in 1..Len(Prog(p)) /\ Prog(p)[n] = <<op, c>>
      /\ Len(Prog(p)) = IF p = BSP THEN 30 ELSE 23
  <2>1. Real(<<op, c>>) /\ At(p, <<op, c>>)
    BY <1>1 DEF Real
  <2> QED BY <2>1, Where, Zenon
<1>3. n \in (IF c = "master" THEN {6, 8, 10, 12, 15} ELSE {7, 9, 11, 13, 14}) /\ (n \in {14, 15} => op = "disable")
  <2>1. n \in ChipSteps(op, c)
    BY <1>1, <1>2, AtChip, Zenon
  <2> QED BY <1>1, <2>1 DEF ChipSteps
<1>4. Started(p) /\ n \in 6..15 /\ n < Len(Prog(p)) /\ Done(p)
  BY <1>2, <1>3 DEF pic_write
<1>5. UNCHANGED <<loaded, segment, jump, remaining, read>>
  BY DEF pic_write, handover
<1>6. \A t \in Tables : n >= After(p)[t] => t \in loaded[p]
  BY <1>4, AfterSteps, Kept
<1>7. \A q \in Procs : Placed(q)' /\ Furnished(q)'
  BY <1>4, <1>5, <1>6, Furnishes
<1>8. Reported'
  BY <1>4, <1>5, Reports
<1>9. /\ pic[c] \in [due : 0..3, mask : {"firmware", "none", "word", "all"}]
      /\ pic[c].due > 0 => pic'[c].due = pic[c].due - 1 /\ pic'[c].mask = pic[c].mask
      /\ pic[c].due = 0 => pic'[c] = [due |-> 0, mask |-> value]
      /\ \A d \in Chips \ {c} : pic'[d] = pic[d]
      /\ pic' \in [Chips -> [due : 0..3, mask : {"firmware", "none", "word", "all"}]]
  <2>1. pic \in [Chips -> [due : 0..3, mask : {"firmware", "none", "word", "all"}]]
    BY DEF BootInv, BootTypes
  <2>2. write_data(c, value)
    BY <1>1
  <2>3. CASE pic[c].due > 0
    BY <2>1, <2>2, <2>3 DEF write_data
  <2>4. CASE ~(pic[c].due > 0)
    BY <2>1, <2>2, <2>4 DEF write_data
  <2> QED BY <2>3, <2>4
<1>10. BootTypes'
  BY <1>4, <1>5, <1>9, Advance DEF BootInv, BootTypes
<1>11. Masking(c)'
  <2>1. Started(p)' /\ Pos(p)' = n + 1 /\ \A q \in Procs \ {p} : todo'[q] = todo[q]
    BY <1>4, Advance
  <2>2. \A q \in Procs \ {p} : (Started(q)' <=> Started(q)) /\ Pos(q)' = Pos(q)
    BY <2>1, Others
  <2>3. Ahead(n + 1, c) = Ahead(n, c) - 1 /\ Ahead(n, c) \in 1..5 /\ (op # "disable" => Ahead(n, c) > 1)
    BY <1>3 DEF Ahead, Left
  <2>4. \A q : Ahead(Pos(q), c) \in 0..5
    BY DEF Ahead, Left
  <2>5. CASE pic[c].due > 0
    <3>1. PICK q \in Procs : Started(q) /\ Ahead(Pos(q), c) > pic[c].due
      BY <2>5 DEF BootInv, Masking
    <3>2. Started(q)' /\ Ahead(Pos(q)', c) > pic'[c].due
      <4>1. CASE q = p
        BY <1>9, <2>1, <2>3, <2>5, <3>1, <4>1
      <4>2. CASE q # p
        BY <1>9, <2>2, <2>4, <2>5, <3>1, <4>2
      <4> QED BY <4>1, <4>2
    <3> QED BY <3>2 DEF Masking, Ahead, Left
  <2>6. CASE pic[c].due = 0 /\ op = "disable"
    BY <1>1, <1>9, <2>6 DEF Masking
  <2>7. CASE pic[c].due = 0 /\ op # "disable"
    <3>1. pic'[c].due = 0 /\ Ahead(Pos(p)', c) > 0
      BY <1>9, <2>1, <2>3, <2>7
    <3> QED BY <2>1, <3>1 DEF Masking, Ahead, Left
  <2> QED BY <1>9, <2>5, <2>6, <2>7
<1>12. \A d \in Chips \ {c} : Masking(d)'
  <2> TAKE d \in Chips \ {c}
  <2>1. Ahead(n + 1, d) = Ahead(n, d)
    BY <1>3 DEF Ahead, Left, Chips
  <2> QED BY <1>4, <1>9, <2>1, MaskKept
<1> QED BY <1>7, <1>8, <1>10, <1>11, <1>12 DEF BootInv

-----------------------------------------------------------------------------
(* Reporting and being released                                            *)

\* syncpoint_notify: the processor reports once, and the count falls by one.
LEMMA Notify == ASSUME BootInv, NEW p \in Procs, syncpoint_notify(p) PROVE BootInv'
<1> DEFINE n == Pos(p)
<1>1. /\ Started(p) /\ n \in 1..Len(Prog(p)) /\ Prog(p)[n] = <<"notify">>
      /\ Len(Prog(p)) = IF p = BSP THEN 30 ELSE 23
  <2>1. Real(<<"notify">>) /\ At(p, <<"notify">>)
    BY DEF Real, syncpoint_notify
  <2> QED BY <2>1, Where, Zenon
<1>2. p # BSP /\ p \in APs /\ n = 22
  <2> HIDE DEF n
  <2>1. p # BSP
    BY <1>1, BootWhere DEF Prog
  <2>2. n = 22
    BY <1>1, <2>1, ApWhere DEF Prog
  <2> QED BY <2>1, <2>2 DEF APs
<1>3. Started(p) /\ n < Len(Prog(p)) /\ Done(p)
  BY <1>1, <1>2 DEF syncpoint_notify
<1>4. UNCHANGED <<loaded, segment, jump, read, pic>>
  BY DEF syncpoint_notify, handover
<1>5. \A t \in Tables : n >= After(p)[t] => t \in loaded[p]
  BY <1>1, <1>2, AfterSteps, Kept
<1>6. \A q \in Procs : Placed(q)' /\ Furnished(q)'
  BY <1>2, <1>3, <1>4, <1>5, Furnishes
<1>7. \A c \in Chips : Masking(c)'
  BY <1>2, <1>3, <1>4, Masks
<1>8. /\ Started(p)' /\ Pos(p)' = 23
      /\ \A q \in Procs \ {p} : todo'[q] = todo[q] /\ (Started(q)' <=> Started(q)) /\ Pos(q)' = Pos(q)
  BY <1>2, <1>3, Advance, Others
<1>9. p \notin Notified /\ Notified' = Notified \cup {p} /\ Pos(BSP)' = Pos(BSP)
  BY <1>2, <1>8, BootAssumption DEF Notified, APs
<1>10. Pos(BSP) > 27 /\ ~(Pos(BSP) > 29) /\ Pos(BSP) \in Nat
  <2>1. Pos(BSP) \in Nat
    BY Position, BootAssumption DEF BootInv, Placed
  <2>2. ~(Pos(BSP) <= 27)
    BY <1>1, <1>2 DEF BootInv, Reported, Started
  <2>3. ~(Pos(BSP) > 29)
    BY <1>2, <1>9 DEF BootInv, Reported
  <2> QED BY <2>1, <2>2, <2>3
<1>11. remaining' = Cardinality(APs \ Notified') /\ remaining' \in Nat
  <2>1. IsFiniteSet(APs \ Notified) /\ p \in APs \ Notified /\ remaining = Cardinality(APs \ Notified)
    BY <1>2, <1>9, <1>10, Processors, FS_Subset DEF BootInv, Reported
  <2>2. APs \ Notified' = (APs \ Notified) \ {p}
    BY <1>9
  <2>3. Cardinality(APs \ Notified') = remaining - 1
    BY <2>1, <2>2, FS_RemoveElement
  <2>4. IsFiniteSet(APs \ Notified') /\ Cardinality(APs \ Notified') \in Nat
    BY <2>1, <2>2, FS_RemoveElement, FS_CardinalityType
  <2>5. remaining \in Nat /\ remaining > 0
    BY <2>3, <2>4 DEF BootInv, BootTypes
  <2> QED BY <2>3, <2>4, <2>5 DEF syncpoint_notify
<1>12. Reported'
  BY <1>9, <1>10, <1>11 DEF Reported
<1>13. BootTypes'
  BY <1>3, <1>4, <1>11, Advance DEF BootInv, BootTypes
<1> QED BY <1>6, <1>7, <1>12, <1>13 DEF BootInv

\* ap_jump and ap_jump_early: a parked processor begins ap_start, or is lost.
LEMMA Jumps ==
  ASSUME BootInv, NEW p \in Procs, ap_jump(p) \/ ap_jump_early(p)
  PROVE  BootInv'
<1>1. p # BSP /\ p \in APs /\ p \in jump
  BY DEF ap_jump, ap_jump_early, APs
<1>2. ~Started(p)
  <2>1. SUFFICES ASSUME Started(p) PROVE FALSE
    OBVIOUS
  <2>2. Pos(p) \in 1..23 /\ todo[p] = SubSeq(ap_start, Pos(p), Len(ap_start))
    BY <1>1, <2>1, ApSteps DEF BootInv, Placed, Prog
  <2>3. Head(todo[p]) = ap_start[Pos(p)]
    <3> DEFINE n == Pos(p)
    <3>1. n \in 1..Len(ap_start) /\ todo[p] = SubSeq(ap_start, n, Len(ap_start))
      BY <2>2, ApSteps
    <3> HIDE DEF n
    <3>2. Head(todo[p]) = ap_start[n]
      BY <3>1, Suffix, ProgramSeq
    <3> QED BY <3>2 DEF n
  <2>4. Head(todo[p]) = <<"park">>
    BY DEF ap_jump, ap_jump_early, At
  <2> QED BY <2>2, <2>3, <2>4, ApWhere
<1>3. /\ \A q \in Procs \ {p} : todo'[q] = todo[q] /\ (Started(q)' <=> Started(q)) /\ Pos(q)' = Pos(q) /\ (Placed(q)' <=> Placed(q))
      /\ DOMAIN todo' = Procs
  <2>1. \A q \in Procs \ {p} : todo'[q] = todo[q]
    BY DEF ap_jump, ap_jump_early, BootInv, BootTypes
  <2>2. DOMAIN todo' = Procs
    BY DEF ap_jump, ap_jump_early, BootInv, BootTypes
  <2> QED BY <2>1, <2>2, Others
<1>4. ap_jump(p) => /\ Started(p)' /\ Pos(p)' = 1 /\ Placed(p)' /\ p \in segment'
  <2> SUFFICES ASSUME ap_jump(p) PROVE Started(p)' /\ Pos(p)' = 1 /\ Placed(p)' /\ p \in segment'
    OBVIOUS
  <2>1. todo'[p] = ap_start /\ p \in segment'
    BY DEF ap_jump, BootInv, BootTypes
  <2>2. Started(p)'
    <3>1. Len(<< <<"park">> >>) = 1 /\ Len(<< <<"lost">> >>) = 1
      OBVIOUS
    <3> QED BY <2>1, <3>1, ApSteps DEF Started
  <2>3. Pos(p)' = 1
    BY <1>1, <2>1, ApSteps DEF Pos, Prog
  <2>4. ap_start = SubSeq(ap_start, 1, Len(ap_start))
    <3> DEFINE s == ap_start
    <3>1. s \in Seq(Range(s))
      BY ProgramSeq
    <3> HIDE DEF s
    <3>2. s = SubSeq(s, 1, Len(s))
      BY <3>1
    <3> QED BY <3>2 DEF s
  <2>5. Placed(p)'
    <3>1. Prog(p) = ap_start /\ Prog(p)' = ap_start /\ 1 \in 1..Len(ap_start)
      BY <1>1, ApSteps DEF Prog
    <3> QED BY <2>1, <2>2, <2>3, <2>4, <3>1 DEF Placed
  <2> QED BY <2>1, <2>2, <2>3, <2>5
<1>5. ap_jump_early(p) => ~Started(p)' /\ Placed(p)'
  BY <1>1, BootAssumption DEF ap_jump_early, Started, Placed, BootInv, BootTypes
<1>6. /\ UNCHANGED <<loaded, jump, remaining, pic, read>> /\ segment \subseteq segment'
  BY DEF ap_jump, ap_jump_early, handover
<1>7. \A q \in Procs : Placed(q)' /\ Furnished(q)'
  <2>1. \A q \in Procs \ {p} : Placed(q)' /\ Furnished(q)'
    BY <1>3, <1>6 DEF BootInv, Furnished, After
  <2>2. \A t \in Tables : ~(1 > After(p)[t])
    BY DEF After, ApAfter, BootAfter, Tables
  <2>3. Placed(p)' /\ Furnished(p)'
    BY <1>1, <1>4, <1>5, <2>2 DEF Furnished, After
  <2> QED BY <2>1, <2>3
<1>8. Pos(BSP) > 27 /\ Pos(BSP)' = Pos(BSP) /\ Pos(BSP) \in Nat
  <2>1. Pos(BSP) \in Nat
    BY Position, BootAssumption DEF BootInv, Placed
  <2>2. ~(Pos(BSP) <= 27)
    BY <1>1 DEF BootInv, Reported
  <2> QED BY <1>1, <1>3, <2>1, <2>2, BootAssumption
<1>9. Notified' = Notified
  BY <1>2, <1>3, <1>4, <1>5 DEF Notified, APs
<1>10. Reported'
  BY <1>6, <1>8, <1>9 DEF BootInv, Reported
<1>11. \A c \in Chips : Masking(c)'
  <2>1. \A q \in Procs : Started(q) => Started(q)' /\ \A c \in Chips : Ahead(Pos(q)', c) = Ahead(Pos(q), c)
    BY <1>2, <1>3
  <2> QED BY <1>6, <2>1 DEF BootInv, Masking, Ahead, Left
<1>12. BootTypes'
  BY <1>3, <1>6 DEF BootInv, BootTypes
<1> QED BY <1>7, <1>10, <1>11, <1>12 DEF BootInv

-----------------------------------------------------------------------------
(* The boot processor's own steps                                          *)

\* Where the boot processor is when it takes a step of bootstrap.
LEMMA BootAt ==
  ASSUME BootInv, NEW step, Real(step), At(BSP, step)
  PROVE  Started(BSP) /\ Pos(BSP) \in 1..30 /\ bootstrap[Pos(BSP)] = step /\ Prog(BSP) = bootstrap /\ Len(Prog(BSP)) = 30
<1>1. /\ Started(BSP) /\ Pos(BSP) \in 1..Len(Prog(BSP)) /\ Prog(BSP)[Pos(BSP)] = step
      /\ Len(Prog(BSP)) = IF BSP = BSP THEN 30 ELSE 23
  BY Where, BootAssumption, Zenon
<1>2. Prog(BSP) = bootstrap
  BY DEF Prog
<1> QED BY <1>1, <1>2

\* memory_load, acpi_load, madt_mmio_load and lapic_calibrate, or their panic.
LEMMA Needs == ASSUME BootInv, NEW step \in {"memory", "acpi", "madt", "calibrate"}, needs(step) PROVE BootInv'
<1>1. CASE load(BSP, step)
  <2> DEFINE n == Pos(BSP)
  <2>1. Started(BSP) /\ n \in 1..30 /\ bootstrap[n] = <<step>> /\ Len(Prog(BSP)) = 30
    <3>1. Real(<<step>>) /\ At(BSP, <<step>>)
      BY <1>1 DEF Real, load
    <3> QED BY <3>1, BootAt, Zenon
  <2>2. n \in {16, 20, 21, 22}
    <3> HIDE DEF n
    <3>1. step = "memory" \/ step = "acpi" \/ step = "madt" \/ step = "calibrate"
      OBVIOUS
    <3>2. CASE step = "memory"
      BY <2>1, <3>2, BootWhere
    <3>3. CASE step = "acpi"
      BY <2>1, <3>3, BootWhere
    <3>4. CASE step = "madt"
      BY <2>1, <3>4, BootWhere
    <3>5. CASE step = "calibrate"
      BY <2>1, <3>5, BootWhere
    <3> QED BY <3>1, <3>2, <3>3, <3>4, <3>5
  <2>3. \A t \in Tables : n >= After(BSP)[t] => t \in loaded[BSP]
    <3>1. \A t \in Tables : After(BSP)[t] \notin {16, 20, 21, 22}
      BY DEF After, BootAfter, Tables
    <3> QED BY <2>1, <2>2, <3>1, BootAssumption, Kept
  <2>4. /\ loaded' \in [Procs -> SUBSET (Tables \cup {"memory", "acpi", "madt", "calibrate"})]
        /\ \A q \in Procs \ {BSP} : loaded'[q] = loaded[q]
        /\ loaded[BSP] \subseteq loaded'[BSP]
        /\ Done(BSP) /\ UNCHANGED <<segment, jump, remaining, pic, read>>
    BY <1>1, BootAssumption DEF load, handover, BootInv, BootTypes
  <2>5. Started(BSP) /\ n < Len(Prog(BSP)) /\ n \notin 6..15 /\ n \notin {17, 27, 29}
    BY <2>1, <2>2
  <2>6. \A t \in Tables : n >= After(BSP)[t] => t \in loaded'[BSP]
    BY <2>3, <2>4
  <2>7. read' \in [Procs -> [Chips -> {"firmware", "none", "word", "all"}]]
    BY <2>4 DEF BootInv, BootTypes
  <2> QED BY <2>4, <2>5, <2>6, <2>7, PlainStep, BootAssumption
<1>2. CASE At(BSP, <<step>>) /\ panic
  BY <1>2, Still DEF panic, handover
<1> QED BY <1>1, <1>2 DEF needs

\* mp_load: the boot processor's own per-processor data.
LEMMA MpLoad == ASSUME BootInv, mp_load PROVE BootInv'
<1> DEFINE n == Pos(BSP)
<1>1. Started(BSP) /\ n \in 1..30 /\ bootstrap[n] = <<"mp">> /\ Len(Prog(BSP)) = 30
  <2>1. Real(<<"mp">>) /\ At(BSP, <<"mp">>)
    BY DEF Real, mp_load
  <2> QED BY <2>1, BootAt, Zenon
<1>2. n = 17
  <2> HIDE DEF n
  <2> QED BY <1>1, BootWhere
<1>3. \A t \in Tables : n >= After(BSP)[t] => t \in loaded[BSP]
  <2>1. \A t \in Tables : After(BSP)[t] # 17
    BY DEF After, BootAfter, Tables
  <2> QED BY <1>1, <1>2, <2>1, BootAssumption, Kept
<1>4. /\ Done(BSP) /\ segment' = segment \cup {BSP} /\ UNCHANGED <<loaded, jump, remaining, pic, read>>
  BY DEF mp_load, handover
<1>5. Started(BSP) /\ n < Len(Prog(BSP)) /\ n \notin 6..15 /\ n \notin {27, 29}
  BY <1>1, <1>2
<1>6. /\ read' \in [Procs -> [Chips -> {"firmware", "none", "word", "all"}]]
      /\ loaded' \in [Procs -> SUBSET (Tables \cup {"memory", "acpi", "madt", "calibrate"})]
  BY <1>4 DEF BootInv, BootTypes
<1> QED BY <1>3, <1>4, <1>5, <1>6, PlainStep, BootAssumption

\* The boot processor takes a step at which it loads nothing.
LEMMA BootMoves ==
  ASSUME BootInv, Started(BSP), Pos(BSP) \in 27..29, Done(BSP), UNCHANGED <<loaded, segment, pic, read>>, remaining' \in Nat
  PROVE  /\ BootTypes' /\ (\A q \in Procs : Placed(q)' /\ Furnished(q)') /\ (\A c \in Chips : Masking(c)')
         /\ Pos(BSP)' = Pos(BSP) + 1 /\ (\A q \in APs : todo'[q] = todo[q]) /\ Notified' = Notified
<1>1. Pos(BSP) < Len(Prog(BSP)) /\ BSP \in Procs
  <2>1. Len(Prog(BSP)) = 30
    BY BootSteps DEF Prog
  <2> QED BY <2>1, BootAssumption
<1>2. \A t \in Tables : Pos(BSP) >= After(BSP)[t] => t \in loaded[BSP]
  <2>1. \A t \in Tables : After(BSP)[t] < 27
    BY DEF After, BootAfter, Tables
  <2>2. \A t \in Tables : After(BSP)[t] \in Nat
    BY AfterSteps
  <2> QED BY <1>1, <2>1, <2>2, Kept
<1>3. \A q \in Procs : Placed(q)' /\ Furnished(q)'
  BY <1>1, <1>2, Furnishes
<1>4. \A c \in Chips : Masking(c)'
  BY <1>1, Masks
<1>5. Pos(BSP)' = Pos(BSP) + 1 /\ (\A q \in Procs \ {BSP} : todo'[q] = todo[q]) /\ DOMAIN todo' = Procs
  BY <1>1, Advance
<1>6. Notified' = Notified
  BY <1>5, Others DEF Notified, APs
<1>7. BootTypes'
  BY <1>5 DEF BootInv, BootTypes
<1> QED BY <1>3, <1>4, <1>5, <1>6, <1>7 DEF APs

\* syncpoint_set: the count starts at the number of the other processors.
LEMMA SyncSet == ASSUME BootInv, syncpoint_set PROVE BootInv'
<1> DEFINE n == Pos(BSP)
<1>1. Started(BSP) /\ n \in 1..30 /\ bootstrap[n] = <<"set">>
  <2>1. Real(<<"set">>) /\ At(BSP, <<"set">>)
    BY DEF Real, syncpoint_set
  <2> QED BY <2>1, BootAt, Zenon
<1>2. n = 27
  <2> HIDE DEF n
  <2> QED BY <1>1, BootWhere
<1>3. remaining' = Cardinality(APs) /\ Cardinality(APs) \in Nat
  BY Processors, FS_CardinalityType DEF syncpoint_set, others
<1>4. Done(BSP) /\ UNCHANGED <<loaded, segment, pic, read>>
  BY DEF syncpoint_set
<1>5. Notified = {}
  BY <1>2 DEF BootInv, Reported, Notified, Started
<1>6. /\ BootTypes' /\ (\A q \in Procs : Placed(q)' /\ Furnished(q)') /\ (\A c \in Chips : Masking(c)')
      /\ Pos(BSP)' = Pos(BSP) + 1 /\ Notified' = Notified
  BY <1>1, <1>2, <1>3, <1>4, BootMoves
<1>7. Reported'
  <2>1. APs \ Notified' = APs
    BY <1>5, <1>6
  <2> QED BY <1>2, <1>3, <1>6, <2>1 DEF Reported
<1> QED BY <1>6, <1>7 DEF BootInv

\* mp_ap_jump's loop: nobody is released before the count is set.
LEMMA JumpSteps == ASSUME BootInv, jump_address \/ jump_argument \/ jump_done PROVE BootInv'
<1> DEFINE n == Pos(BSP)
<1>1. Started(BSP) /\ n \in 1..30 /\ bootstrap[n] = <<"jump">>
  <2>1. Real(<<"jump">>) /\ At(BSP, <<"jump">>)
    BY DEF Real, jump_address, jump_argument, jump_done
  <2> QED BY <2>1, BootAt, Zenon
<1>2. n = 28
  <2> HIDE DEF n
  <2> QED BY <1>1, BootWhere
<1>3. CASE jump_address \/ jump_argument
  <2>1. UNCHANGED <<todo, loaded, segment, remaining, pic, read>>
    BY <1>3 DEF jump_address, jump_argument
  <2> QED BY <1>2, <2>1, Still
<1>4. CASE jump_done
  <2>1. Done(BSP) /\ UNCHANGED <<loaded, segment, jump, remaining, pic, read>>
    BY <1>4 DEF jump_done, handover
  <2>2. /\ BootTypes' /\ (\A q \in Procs : Placed(q)' /\ Furnished(q)') /\ (\A c \in Chips : Masking(c)')
        /\ Pos(BSP)' = Pos(BSP) + 1 /\ Notified' = Notified
    BY <1>1, <1>2, <2>1, BootMoves DEF BootInv, BootTypes
  <2>3. Reported'
    BY <1>2, <2>1, <2>2 DEF BootInv, Reported
  <2> QED BY <2>2, <2>3 DEF BootInv
<1> QED BY <1>3, <1>4

\* syncpoint_wait: the count is zero only when everybody has reported.
LEMMA SyncWait == ASSUME BootInv, syncpoint_wait PROVE BootInv'
<1> DEFINE n == Pos(BSP)
<1>1. Started(BSP) /\ n \in 1..30 /\ bootstrap[n] = <<"wait">>
  <2>1. Real(<<"wait">>) /\ At(BSP, <<"wait">>)
    BY DEF Real, syncpoint_wait
  <2> QED BY <2>1, BootAt, Zenon
<1>2. n = 29
  <2> HIDE DEF n
  <2> QED BY <1>1, BootWhere
<1>3. Done(BSP) /\ UNCHANGED <<loaded, segment, jump, remaining, pic, read>> /\ remaining = 0
  BY DEF syncpoint_wait, handover
<1>4. /\ BootTypes' /\ (\A q \in Procs : Placed(q)' /\ Furnished(q)') /\ (\A c \in Chips : Masking(c)')
      /\ Pos(BSP)' = Pos(BSP) + 1 /\ Notified' = Notified
  BY <1>1, <1>2, <1>3, BootMoves DEF BootInv, BootTypes
<1>5. Notified = APs
  <2>1. Cardinality(APs \ Notified) = 0 /\ IsFiniteSet(APs \ Notified)
    BY <1>2, <1>3, Processors, FS_Subset DEF BootInv, Reported
  <2>2. APs \ Notified = {}
    BY <2>1, FS_EmptySet
  <2> QED BY <2>2 DEF Notified
<1>6. Reported'
  BY <1>2, <1>3, <1>4, <1>5 DEF BootInv, Reported
<1> QED BY <1>4, <1>6 DEF BootInv

-----------------------------------------------------------------------------
(* The invariant and the theorems                                          *)

\* Only the boot processor runs at first, with all of bootstrap ahead.
LEMMA BootInitInv == BootInit => BootInv
<1> SUFFICES ASSUME BootInit PROVE BootInv
  OBVIOUS
<1>1. todo[BSP] = bootstrap /\ Prog(BSP) = bootstrap /\ Len(bootstrap) = 30
  BY BootSteps, BootAssumption DEF Prog, BootInit
<1>0. \A p \in APs : todo[p] = << <<"park">> >>
  BY DEF BootInit, APs
<1>2. Started(BSP) /\ Pos(BSP) = 1
  <2>1. Len(<< <<"park">> >>) = 1 /\ Len(<< <<"lost">> >>) = 1
    OBVIOUS
  <2>2. Started(BSP)
    <3>1. bootstrap # << <<"park">> >> /\ bootstrap # << <<"lost">> >>
      BY <1>1, <2>1
    <3> QED BY <1>1, <3>1 DEF Started
  <2> QED BY <1>1, <2>2 DEF Pos
<1>3. \A p \in APs : ~Started(p)
  BY <1>0 DEF Started
<1>4. \A p \in Procs : Placed(p)
  <2>1. \A p \in APs : Placed(p)
    BY <1>3 DEF Placed, APs
  <2>2. SubSeq(bootstrap, 1, Len(bootstrap)) = bootstrap
    <3> DEFINE s == bootstrap
               t == SubSeq(s, 1, Len(s))
    <3>1. s \in Seq(Range(s))
      BY ProgramSeq
    <3> HIDE DEF s
    <3>2. t \in Seq(Range(s)) /\ Len(t) = Len(s) /\ \A i \in 1..Len(s) : t[i] = s[i]
      BY <3>1
    <3>3. t = s
      <4> HIDE DEF t
      <4> QED BY <3>1, <3>2
    <3> QED BY <3>3 DEF s
  <2>3. Placed(BSP)
    <3>1. 1 \in 1..Len(Prog(BSP))
      BY <1>1
    <3>2. todo[BSP] = SubSeq(Prog(BSP), 1, Len(Prog(BSP)))
      BY <1>1, <2>2, Zenon
    <3> QED BY <1>2, <3>1, <3>2 DEF Placed
  <2> QED BY <2>1, <2>3 DEF APs
<1>5. \A p \in Procs : Furnished(p)
  <2>1. \A t \in Tables : ~(1 > After(BSP)[t])
    BY DEF After, BootAfter, Tables
  <2>2. Furnished(BSP)
    BY <1>2, <2>1 DEF Furnished
  <2>3. \A p \in APs : Furnished(p)
    BY <1>3 DEF Furnished
  <2> QED BY <2>2, <2>3 DEF APs
<1>6. BootTypes
  BY DEF BootInit, BootTypes
<1>7. Reported
  <2>1. jump = {}
    BY DEF BootInit
  <2> QED BY <1>0, <1>2, <2>1 DEF Reported
<1>8. ASSUME NEW c \in Chips PROVE Masking(c)
  <2>1. Ahead(1, c) = 5 /\ pic[c].due = 0
    BY DEF Ahead, Left, BootInit
  <2> QED BY <1>2, <2>1, BootAssumption DEF Masking
<1> QED BY <1>4, <1>5, <1>6, <1>7, <1>8 DEF BootInv

\* Every step keeps the invariant.
LEMMA BootNextInv == BootInv /\ [BootNext]_bootVars => BootInv'
<1> SUFFICES ASSUME BootInv, [BootNext]_bootVars PROVE BootInv'
  OBVIOUS
<1>1. ASSUME NEW p \in Procs, Step(p) PROVE BootInv'
  <2>1. CASE \E c \in Chips : pic_read(p, c) \/ pic_init(p, c) \/ pic_write(p, c)
    BY <2>1, PicRead, PicInit, PicWrite
  <2>2. CASE idt_load(p) \/ lapic_configure_timer(p) \/ scheduler_load(p) \/ syscall_load(p) \/ sti(p)
    <3>1. \E table \in Tables : load(p, table)
      BY <2>2 DEF Tables, idt_load, lapic_configure_timer, scheduler_load, syscall_load, sti
    <3> QED BY <3>1, Load
  <2>3. CASE gdt_load(p) \/ tss_load(p)
    BY <2>3, GdtTss
  <2>4. CASE syncpoint_notify(p)
    BY <2>4, Notify
  <2>5. CASE ap_jump(p) \/ ap_jump_early(p)
    BY <2>5, Jumps
  <2> QED BY <1>1, <2>1, <2>2, <2>3, <2>4, <2>5 DEF Step
<1>2. CASE Bootstrap
  <2>1. CASE memory_load \/ acpi_load \/ madt_mmio_load \/ lapic_calibrate
    <3>1. \E step \in {"memory", "acpi", "madt", "calibrate"} : needs(step)
      BY <2>1 DEF memory_load, acpi_load, madt_mmio_load, lapic_calibrate
    <3> QED BY <3>1, Needs
  <2>2. CASE mp_load
    BY <2>2, MpLoad
  <2>3. CASE syncpoint_set
    BY <2>3, SyncSet
  <2>4. CASE jump_address \/ jump_argument \/ jump_done
    BY <2>4, JumpSteps
  <2>5. CASE syncpoint_wait
    BY <2>5, SyncWait
  <2> QED BY <1>2, <2>1, <2>2, <2>3, <2>4, <2>5 DEF Bootstrap
<1>3. CASE run \/ UNCHANGED bootVars
  BY <1>3, Still DEF run, bootVars, handover
<1> QED BY <1>1, <1>2, <1>3 DEF BootNext

\* The invariant holds in every state of the boot.
THEOREM BootInvariant == BootSpec => []BootInv
BY BootInitInv, BootNextInv, PTL DEF BootSpec

\* At "tasks" every processor is past all of its loads.
LEMMA TasksLoaded == BootInv => LoadedBeforeTasks
<1> SUFFICES ASSUME BootInv, At(BSP, <<"tasks">>) PROVE \A p \in Procs : Tables \subseteq loaded[p]
  BY DEF LoadedBeforeTasks
<1> DEFINE n == Pos(BSP)
<1>1. Started(BSP) /\ n \in 1..30 /\ bootstrap[n] = <<"tasks">>
  <2>1. Real(<<"tasks">>)
    BY DEF Real
  <2> QED BY <2>1, BootAt, Zenon
<1>2. n = 30
  <2> HIDE DEF n
  <2> QED BY <1>1, BootWhere
<1>3. Tables \subseteq loaded[BSP]
  <2>1. \A t \in Tables : After(BSP)[t] < 30
    BY AfterSteps
  <2> QED BY <1>1, <1>2, <2>1, BootAssumption DEF BootInv, Furnished
<1>4. ASSUME NEW p \in APs PROVE Tables \subseteq loaded[p]
  <2>1. Started(p) /\ Pos(p) = 23
    BY <1>2 DEF BootInv, Reported, Notified
  <2>2. \A t \in Tables : 23 > After(p)[t]
    BY AfterSteps DEF APs
  <2> QED BY <2>1, <2>2 DEF BootInv, Furnished, APs
<1> QED BY <1>3, <1>4 DEF APs

\* A processor that is up is past pic_load.
LEMMA UpLate ==
  ASSUME BootInv, outcome = "booting", NEW p \in Procs, Up(p)
  PROVE  Started(p) => Pos(p) > 15
<1>1. PICK step \in {<<"wait">>, <<"tasks">>, <<"idle">>} : Head(todo[p]) = step
  BY DEF Up
<1>2. Real(step) /\ At(p, step)
  BY <1>1 DEF Real, At
<1> DEFINE n == Pos(p)
<1>3. /\ Started(p) /\ n \in 1..Len(Prog(p)) /\ Prog(p)[n] = step
      /\ Len(Prog(p)) = IF p = BSP THEN 30 ELSE 23
  BY <1>2, Where, Zenon
<1> HIDE DEF n
<1>4. n > 15
  <2>1. CASE p = BSP
    <3>1. n \in 1..30 /\ bootstrap[n] = step
      BY <1>3, <2>1 DEF Prog
    <3>2. CASE step = <<"wait">>
      <4>1. n = 29
        BY <3>1, <3>2, BootWhere
      <4> QED BY <4>1
    <3>3. CASE step = <<"tasks">>
      <4>1. n = 30
        BY <3>1, <3>3, BootWhere
      <4> QED BY <4>1
    <3>4. step # <<"idle">>
      BY <3>1, BootWhere
    <3> QED BY <3>2, <3>3, <3>4
  <2>2. CASE p # BSP
    <3>1. n \in 1..23 /\ ap_start[n] = step
      BY <1>3, <2>2 DEF Prog
    <3> QED BY <3>1, ApWhere
  <2> QED BY <2>1, <2>2
<1> QED BY <1>4 DEF n

\* With nobody left to write, only the silent controller is possible.
LEMMA UpMasked == BootInv => PicMasked
<1> SUFFICES ASSUME BootInv, outcome = "booting", \A p \in Procs : Up(p), NEW c \in Chips
             PROVE  pic[c] = [due |-> 0, mask |-> "all"]
  BY DEF PicMasked
<1>1. ASSUME NEW p \in Procs, Started(p) PROVE ~(Ahead(Pos(p), c) > pic[c].due)
  <2>1. Pos(p) > 15 /\ Pos(p) \in Nat
    BY <1>1, UpLate, Position
  <2>2. Ahead(Pos(p), c) = 0
    BY <2>1 DEF Ahead, Left
  <2> QED BY <2>2 DEF BootInv, BootTypes
<1> QED BY <1>1 DEF BootInv, Masking

\* Tasks are started only when every processor has its tables, descriptors,
\* timer, scheduler and system call entry and has interrupts enabled: for any
\* number of processors and any interleaving of bootstrap and ap_start.
THEOREM LoadedBeforeAnyTask == BootSpec => []LoadedBeforeTasks
BY BootInvariant, TasksLoaded, PTL

\* When all processors are up both legacy controllers are out of their
\* initialisation with every line masked, although every processor programs
\* them in pic_load at its own time and without a lock.
THEOREM LinesMasked == BootSpec => []PicMasked
BY BootInvariant, UpMasked, PTL
=============================================================================
