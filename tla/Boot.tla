--------------------------------- MODULE Boot ---------------------------------
(***************************************************************************)
(* How the machine comes up: bootstrap and ap_start of kernel/src/main.c,  *)
(* the hand-over to the other processors in kernel/src/cpu/mp.c, the sync  *)
(* point they report to, and what each of them loads.  The started         *)
(* processors run the same code at the same time and program the one pair  *)
(* of legacy interrupt controllers (kernel/src/boot/pic.c) without a lock. *)
(***************************************************************************)
EXTENDS Naturals, Sequences, FiniteSets, SequencesExt

CONSTANTS Cpus,      \* the processors, in the boot loader's order
          BSP        \* the one that boots

Procs == Range(Cpus)
APs   == Procs \ {BSP}

ASSUME BootAssumption == Cpus \in Seq(Procs) /\ IsInjective(Cpus) /\ BSP \in Procs

VARIABLES
  todo,       \* what each processor still has to run, first step first
  loaded,     \* what each has set up for itself
  segment,    \* processors whose gs points to their per-processor data
  jump,       \* processors whose goto_address is set
  argument,   \* processors whose extra_argument is set
  jumping,    \* the rest of mp_ap_jump's loop
  remaining,  \* the sync point
  pic,        \* the legacy controllers: initialisation words due, mask
  read,       \* the masks a processor has read in pic_remap
  outcome     \* "booting", "panic" (reported) or "recursing"

handover == <<jump, argument, jumping>>
bootVars == <<todo, loaded, segment, handover, remaining, pic, read, outcome>>
-----------------------------------------------------------------------------
(* The programs                                                            *)

Chips == {"master", "slave"}
Both(op) == << <<op, "master">>, <<op, "slave">> >>

\* pic_remap: read the masks, four initialisation words each, the masks again.
pic_remap == Both("read") \o Both("init") \o Both("icw") \o Both("icw") \o Both("icw") \o Both("restore")

pic_disable == << <<"disable", "slave">>, <<"disable", "master">> >>

\* Mutant: the masks read before are the last thing written.
pic_load_reversed == pic_disable \o pic_remap

pic_load == pic_remap \o pic_disable

bootstrap ==
  << <<"idt">> >> \o pic_load
  \o << <<"memory">>, <<"mp">>, <<"gdt">>, <<"tss">>, <<"acpi">>, <<"madt">>, <<"calibrate">>,
        <<"timer">>, <<"scheduler">>, <<"syscall">>, <<"sti">>,
        <<"set">>, <<"jump">>, <<"wait">>, <<"tasks">> >>

\* Mutant: the processor reports before it has a scheduler.
ap_start_early ==
  << <<"idt">> >> \o pic_load
  \o << <<"gdt">>, <<"tss">>, <<"timer">>, <<"notify">>, <<"scheduler">>, <<"syscall">>, <<"sti">>, <<"idle">> >>

ap_start ==
  << <<"idt">> >> \o pic_load
  \o << <<"gdt">>, <<"tss">>, <<"timer">>, <<"scheduler">>, <<"syscall">>, <<"sti">>, <<"notify">>, <<"idle">> >>

Tables == {"idt", "gdt", "tss", "timer", "scheduler", "syscall", "sti"}

BootInit ==
  /\ todo = [p \in Procs |-> IF p = BSP THEN bootstrap ELSE << <<"park">> >>]
  /\ loaded = [p \in Procs |-> {}] /\ segment = {}
  /\ jump = {} /\ argument = {} /\ jumping = << >>
  /\ remaining = 0
  /\ pic = [c \in Chips |-> [due |-> 0, mask |-> "firmware"]]
  /\ read = [p \in Procs |-> [c \in Chips |-> "firmware"]]
  /\ outcome = "booting"

At(p, step) == outcome = "booting" /\ Head(todo[p]) = step
Done(p)     == todo' = [todo EXCEPT ![p] = Tail(@)]
-----------------------------------------------------------------------------
(* The legacy controllers                                                  *)

\* A byte on the data port is the next initialisation word when one is due,
\* and the mask otherwise.
write_data(c, value) ==
  pic' = IF pic[c].due > 0 THEN [pic EXCEPT ![c].due = @ - 1] ELSE [pic EXCEPT ![c].mask = value]

pic_read(p, c) ==
  /\ At(p, <<"read", c>>) /\ Done(p)
  /\ read' = [read EXCEPT ![p][c] = pic[c].mask]
  /\ UNCHANGED <<loaded, segment, handover, remaining, pic, outcome>>

\* The first word clears the mask and asks for three more.
pic_init(p, c) ==
  /\ At(p, <<"init", c>>) /\ Done(p)
  /\ pic' = [pic EXCEPT ![c] = [due |-> 3, mask |-> "none"]]
  /\ UNCHANGED <<loaded, segment, handover, remaining, read, outcome>>

pic_write(p, c) ==
  /\ \/ At(p, <<"icw", c>>)     /\ write_data(c, "word")
     \/ At(p, <<"restore", c>>) /\ write_data(c, read[p][c])
     \/ At(p, <<"disable", c>>) /\ write_data(c, "all")
  /\ Done(p)
  /\ UNCHANGED <<loaded, segment, handover, remaining, read, outcome>>
-----------------------------------------------------------------------------
(* What a processor loads for itself                                       *)

load(p, table) ==
  /\ At(p, <<table>>) /\ Done(p)
  /\ loaded' = [loaded EXCEPT ![p] = @ \cup {table}]
  /\ UNCHANGED <<segment, handover, remaining, pic, read, outcome>>

idt_load(p)              == load(p, "idt")
lapic_configure_timer(p) == load(p, "timer")
scheduler_load(p)        == load(p, "scheduler")
syscall_load(p)          == load(p, "syscall")
sti(p)                   == load(p, "sti")

\* gdt_load copies the descriptors, without a task state segment, into the
\* per-processor data, if there is any.
gdt_load(p) ==
  /\ At(p, <<"gdt">>) /\ Done(p)
  /\ loaded' = [loaded EXCEPT ![p] = IF p \in segment THEN (@ \ {"tss"}) \cup {"gdt"} ELSE @]
  /\ UNCHANGED <<segment, handover, remaining, pic, read, outcome>>

\* tss_load writes its descriptor into that copy.
tss_load(p) ==
  /\ At(p, <<"tss">>) /\ Done(p)
  /\ loaded' = [loaded EXCEPT ![p] = IF p \in segment THEN @ \cup {"tss"} ELSE @]
  /\ UNCHANGED <<segment, handover, remaining, pic, read, outcome>>
-----------------------------------------------------------------------------
(* bootstrap                                                               *)

\* panic first interrupts the others, through a controller whose address
\* madt_mmio_load finds: before that the lookup's own assertion panics in turn.
panic ==
  /\ outcome' = IF "madt" \in loaded[BSP] THEN "panic" ELSE "recursing"
  /\ UNCHANGED <<todo, loaded, segment, handover, remaining, pic, read>>

\* Each of these panics when the machine is not as it needs it: no memory for
\* the tables, no valid ACPI tables, no usable timer.
needs(step) == load(BSP, step) \/ (At(BSP, <<step>>) /\ panic)

memory_load     == needs("memory")
acpi_load       == needs("acpi")
madt_mmio_load  == needs("madt")
lapic_calibrate == needs("calibrate")

\* mp_load sets up every processor's data and the boot processor's segment.
mp_load ==
  /\ At(BSP, <<"mp">>) /\ Done(BSP)
  /\ segment' = segment \cup {BSP}
  /\ UNCHANGED <<loaded, handover, remaining, pic, read, outcome>>

\* Mutant: the boot processor waits for itself too.
others_all == Len(Cpus)

others == Len(Cpus) - 1

syncpoint_set ==
  /\ At(BSP, <<"set">>) /\ Done(BSP)
  /\ remaining' = others /\ jumping' = Cpus
  /\ UNCHANGED <<loaded, segment, jump, argument, pic, read, outcome>>

\* mp_ap_jump, for each processor, the boot processor's own entry included:
\* the address first, then the argument.
jump_address ==
  /\ At(BSP, <<"jump">>) /\ jumping # << >> /\ Head(jumping) \notin jump
  /\ jump' = jump \cup {Head(jumping)}
  /\ UNCHANGED <<todo, loaded, segment, argument, jumping, remaining, pic, read, outcome>>

jump_argument ==
  /\ At(BSP, <<"jump">>) /\ jumping # << >> /\ Head(jumping) \in jump
  /\ argument' = argument \cup {Head(jumping)} /\ jumping' = Tail(jumping)
  /\ UNCHANGED <<todo, loaded, segment, jump, remaining, pic, read, outcome>>

jump_done ==
  /\ At(BSP, <<"jump">>) /\ jumping = << >> /\ Done(BSP)
  /\ UNCHANGED <<loaded, segment, handover, remaining, pic, read, outcome>>

syncpoint_wait ==
  /\ At(BSP, <<"wait">>) /\ remaining = 0 /\ Done(BSP)
  /\ UNCHANGED <<loaded, segment, handover, remaining, pic, read, outcome>>
-----------------------------------------------------------------------------
(* The other processors                                                    *)

\* mp_ap_fn_wrapper: the parked processor sees the address and takes the
\* argument for its per-processor data ...
ap_jump(p) ==
  /\ p # BSP /\ At(p, <<"park">>) /\ p \in jump /\ p \in argument
  /\ segment' = segment \cup {p}
  /\ todo' = [todo EXCEPT ![p] = ap_start]
  /\ UNCHANGED <<loaded, handover, remaining, pic, read, outcome>>

\* ... which it must find there: it calls through it.
ap_jump_early(p) ==
  /\ p # BSP /\ At(p, <<"park">>) /\ p \in jump /\ p \notin argument
  /\ todo' = [todo EXCEPT ![p] = << <<"lost">> >>]
  /\ UNCHANGED <<loaded, segment, handover, remaining, pic, read, outcome>>

syncpoint_notify(p) ==
  /\ At(p, <<"notify">>) /\ Done(p)
  /\ remaining' = IF remaining > 0 THEN remaining - 1 ELSE remaining
  /\ UNCHANGED <<loaded, segment, handover, pic, read, outcome>>

\* kmain starts tasks or polls the sync point; the others idle; a panic halts.
run == (At(BSP, <<"tasks">>) \/ At(BSP, <<"wait">>) \/ outcome # "booting") /\ UNCHANGED bootVars
-----------------------------------------------------------------------------
Step(p) ==
  \/ \E c \in Chips : pic_read(p, c) \/ pic_init(p, c) \/ pic_write(p, c)
  \/ idt_load(p) \/ lapic_configure_timer(p) \/ scheduler_load(p) \/ syscall_load(p) \/ sti(p)
  \/ gdt_load(p) \/ tss_load(p) \/ syncpoint_notify(p)
  \/ ap_jump(p) \/ ap_jump_early(p)

Bootstrap ==
  \/ memory_load \/ acpi_load \/ madt_mmio_load \/ lapic_calibrate
  \/ mp_load \/ syncpoint_set \/ jump_address \/ jump_argument \/ jump_done \/ syncpoint_wait

BootNext == (\E p \in Procs : Step(p)) \/ Bootstrap \/ run

\* Every processor runs by itself; a parked one keeps polling.
BootFairness == WF_bootVars(Bootstrap) /\ \A p \in Procs : WF_bootVars(Step(p))

BootSpec == BootInit /\ [][BootNext]_bootVars /\ BootFairness
-----------------------------------------------------------------------------
(* Properties                                                              *)

Up(p) == Head(todo[p]) \in {<<"wait">>, <<"tasks">>, <<"idle">>}

\* When the boot processor goes on to start tasks, which may be put on any
\* processor's queue, every processor has its tables, its own descriptors with
\* its task state segment, its timer, its scheduler and its system call entry,
\* and has interrupts enabled.
LoadedBeforeTasks ==
  At(BSP, <<"tasks">>) => \A p \in Procs : Tables \subseteq loaded[p]

\* Once all processors are up, no legacy line can interrupt: both controllers
\* are out of their initialisation with every line masked, in whatever order
\* the processors' writes to them came.
PicMasked ==
  (outcome = "booting" /\ \A p \in Procs : Up(p)) =>
     \A c \in Chips : pic[c] = [due |-> 0, mask |-> "all"]

\* The boot processor gets to start tasks, unless it panics or a processor
\* jumps before its argument is there.
BootCompletes ==
  <>(At(BSP, <<"tasks">>) \/ outcome # "booting" \/ \E p \in APs : todo[p] = << <<"lost">> >>)
=============================================================================
