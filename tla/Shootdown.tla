------------------------------ MODULE Shootdown ------------------------------
(***************************************************************************)
(* TLB shootdown: vmm_shootdown_range and vmm_tlb_flush_handle of          *)
(* kernel/src/mem/vmm.c, with the flush interrupt of kernel/src/boot/      *)
(* lapic.c.  A processor that has unmapped pages interrupts all others and *)
(* waits until each has dropped its cached translations.  Any processor    *)
(* may call it; the interrupt runs on top of whatever the processor does,  *)
(* the waiting for the lock and for the acknowledgements included, unless  *)
(* interrupts are masked.  (With one processor the local invalidation is   *)
(* all there is.)                                                          *)
(***************************************************************************)
EXTENDS Naturals, FiniteSets

CONSTANTS Procs,
          Cached,    \* the pages of the shared map that are unmapped and cached
          None

ASSUME ShootdownAssumption ==
  /\ IsFiniteSet(Procs) /\ Cardinality(Procs) > 1 /\ None \notin Procs

VARIABLES
  mapped,    \* pages of the shared page map that are present
  tlb,       \* pages each processor has cached
  pc,        \* where a processor is in vmm_shootdown_range
  range,     \* the pages it has unmapped and is shooting down
  lock,      \* holder of tlb_shootdown_lock
  request,   \* tlb_shootdown_base and tlb_shootdown_count
  ack,       \* tlb_shootdown_ack
  pending,   \* processors whose flush interrupt has not been taken
  handler,   \* where a processor is in vmm_tlb_flush_handle
  seen,      \* the range its handler has read
  masked     \* processors with interrupts off

memory  == <<mapped, tlb>>
calls   == <<pc, range, lock>>
shared  == <<request, ack, pending>>
irq     == <<handler, seen, masked>>
shootVars == <<memory, calls, shared, irq>>

ShootInit ==
  /\ mapped = Cached /\ tlb = [p \in Procs |-> {}]
  /\ pc = [p \in Procs |-> "idle"] /\ range = [p \in Procs |-> {}] /\ lock = None
  /\ request = {} /\ ack = 0 /\ pending = {}
  /\ handler = [p \in Procs |-> "none"] /\ seen = [p \in Procs |-> {}] /\ masked = {}

\* A processor's own code does not run while its handler does.
InCall(p, where) == pc[p] = where /\ handler[p] = "none"
Goto(p, where) == pc' = [pc EXCEPT ![p] = where]
-----------------------------------------------------------------------------
\* The processor caches a translation it finds in the page map.
tlb_fill(p, page) ==
  /\ page \in mapped
  /\ tlb' = [tlb EXCEPT ![p] = @ \cup {page}]
  /\ UNCHANGED <<mapped, calls, shared, irq>>

\* task_mmap puts a page back that nobody is shooting down.
map_page(page) ==
  /\ page \notin mapped /\ \A p \in Procs : page \notin range[p]
  /\ mapped' = mapped \cup {page}
  /\ UNCHANGED <<tlb, calls, shared, irq>>

\* cli and sti around short sections of other code.
cli(p) ==
  /\ InCall(p, "idle") /\ p \notin masked /\ masked' = masked \cup {p}
  /\ UNCHANGED <<memory, calls, shared, handler, seen>>

sti(p) ==
  /\ p \in masked /\ masked' = masked \ {p}
  /\ UNCHANGED <<memory, calls, shared, handler, seen>>

\* task_munmap, in a system call (interrupts on): vmm_unmap drops the entries
\* and this processor's cached ones, then calls vmm_shootdown_range.
unmap(p, R) ==
  /\ InCall(p, "idle") /\ p \notin masked
  /\ mapped' = mapped \ R
  /\ tlb' = [tlb EXCEPT ![p] = @ \ R]
  /\ range' = [range EXCEPT ![p] = R]
  /\ Goto(p, "acquire")
  /\ UNCHANGED <<lock, shared, irq>>

acquire(p) ==
  /\ InCall(p, "acquire") /\ lock = None
  /\ lock' = p /\ Goto(p, "store")
  /\ UNCHANGED <<memory, range, shared, irq>>

store_range(p) ==
  /\ InCall(p, "store") /\ request' = range[p] /\ Goto(p, "reset")
  /\ UNCHANGED <<memory, range, lock, ack, pending, irq>>

reset_ack(p) ==
  /\ InCall(p, "reset") /\ ack' = 0 /\ Goto(p, "send")
  /\ UNCHANGED <<memory, range, lock, request, pending, irq>>

\* All processors but the sender; a second request of the same vector is held
\* by the receiving controller until the first is taken.
lapic_send_tlb_flush_ipi(p) ==
  /\ InCall(p, "send") /\ pending' = pending \cup (Procs \ {p}) /\ Goto(p, "local")
  /\ UNCHANGED <<memory, range, lock, request, ack, irq>>

invalidate(p) ==
  /\ InCall(p, "local") /\ tlb' = [tlb EXCEPT ![p] = @ \ range[p]] /\ Goto(p, "wait")
  /\ UNCHANGED <<mapped, range, lock, shared, irq>>

\* Mutant: one acknowledgement too few.
Acked_short == ack + 1 >= Cardinality(Procs) - 1
\* Mutant: the sender expects an acknowledgement of its own.
Acked_self  == ack >= Cardinality(Procs)

Acked == ack >= Cardinality(Procs) - 1

finish(p) ==
  /\ InCall(p, "wait") /\ Acked
  /\ lock' = None /\ range' = [range EXCEPT ![p] = {}] /\ Goto(p, "idle")
  /\ UNCHANGED <<memory, shared, irq>>
-----------------------------------------------------------------------------
\* vmm_tlb_flush_handle: read the range, drop its pages, acknowledge.
handle_read(p) ==
  /\ p \in pending /\ p \notin masked /\ handler[p] = "none"
  /\ pending' = pending \ {p}
  /\ handler' = [handler EXCEPT ![p] = "flush"]
  /\ seen' = [seen EXCEPT ![p] = request]
  /\ UNCHANGED <<memory, calls, request, ack, masked>>

handle_flush(p) ==
  /\ handler[p] = "flush"
  /\ tlb' = [tlb EXCEPT ![p] = @ \ seen[p]]
  /\ handler' = [handler EXCEPT ![p] = "ack"]
  /\ UNCHANGED <<mapped, calls, shared, seen, masked>>

handle_ack(p) ==
  /\ handler[p] = "ack"
  /\ ack' = ack + 1
  /\ handler' = [handler EXCEPT ![p] = "none"]
  /\ seen' = [seen EXCEPT ![p] = {}]
  /\ UNCHANGED <<memory, calls, request, pending, masked>>

Handle(p) == handle_read(p) \/ handle_flush(p) \/ handle_ack(p)
Call(p) ==
  \/ acquire(p) \/ store_range(p) \/ reset_ack(p) \/ lapic_send_tlb_flush_ipi(p)
  \/ invalidate(p) \/ finish(p)

ShootNext ==
  \/ \E page \in Cached : map_page(page)
  \/ \E p \in Procs :
       \/ \E page \in Cached : tlb_fill(p, page)
       \/ \E R \in SUBSET mapped \ {{}} : unmap(p, R)
       \/ cli(p) \/ sti(p) \/ Handle(p) \/ Call(p)

\* Processors run: code under way goes on, masked sections end, and a pending
\* interrupt is taken when they do, before the next section can begin (strong,
\* as sections come and go).
Fairness ==
  \A p \in Procs : /\ SF_shootVars(Handle(p))
                   /\ WF_shootVars(Call(p))
                   /\ WF_shootVars(sti(p))

ShootSpec == ShootInit /\ [][ShootNext]_shootVars /\ Fairness
-----------------------------------------------------------------------------
\* Once vmm_shootdown_range has returned no processor uses the translations it
\* was called for, whatever was cached, masked or under way elsewhere: a cached
\* page is mapped or its shootdown has not returned yet.
Flushed ==
  \A q \in Procs : tlb[q] \subseteq mapped \cup UNION { range[p] : p \in Procs }

\* A shootdown that has the lock returns: the others answer although they may
\* be waiting for the lock themselves or have had interrupts masked.
ShootdownReturns == \A p \in Procs : lock = p ~> lock # p
=============================================================================
