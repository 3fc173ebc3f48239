-------------------------------- MODULE Sync --------------------------------
(***************************************************************************)
(* The blocking primitives of klibc/src/sync: a mutex, a semaphore and a   *)
(* condition variable, each a spin lock and a wait queue.  None of them    *)
(* blocks its caller: it answers that the caller should wait, having put   *)
(* the caller's item on the queue, and a later call wakes the item.  The   *)
(* callers here are threads on any processor that obey those answers; a    *)
(* thread holds or waits for one thing at a time.                          *)
(*                                                                         *)
(* What a spin lock covers is one step.  Every wakeup is at least two: an  *)
(* item leaves its queue under the queue's lock, and its waiter is called  *)
(* after that lock is released.                                            *)
(***************************************************************************)
EXTENDS Integers, FiniteSets, SequencesExt

CONSTANTS Threads, NULL, Permits

ASSUME ThreadsAssumption == IsFiniteSet(Threads) /\ NULL \notin Threads
ASSUME PermitsAssumption == Permits \in Nat   \* initial_count of the semaphore

VARIABLES owner,   \* mutex.owner
          mwq,     \* mutex.wq
          count,   \* semaphore.count
          swq,     \* semaphore.wq
          cwq,     \* condvar.wq
          pc,      \* what each thread is doing
          inside,  \* threads told they have the mutex and not yet unlocking it
          held,    \* threads told they have a permit and not yet releasing it
          chain    \* per thread, items it has taken off a queue and not woken

vars == <<owner, mwq, count, swq, cwq, pc, inside, held, chain>>

Places == {"run", "mutex_wait", "mutex_retry", "mutex_wake",
           "sem_wait", "sem_wake", "cond_wait", "waking"}

TypeOK ==
  /\ owner \in Threads \cup {NULL}
  /\ mwq \in Seq(Threads) /\ swq \in Seq(Threads) /\ cwq \in Seq(Threads)
  /\ count \in Int
  /\ pc \in [Threads -> Places]
  /\ inside \in SUBSET Threads /\ held \in SUBSET Threads
  /\ chain \in [Threads -> Seq(Threads)]

\* mutex_init, semaphore_init, condvar_init.
Init ==
  /\ owner = NULL
  /\ mwq = << >> /\ swq = << >> /\ cwq = << >>
  /\ count = Permits
  /\ pc = [t \in Threads |-> "run"]
  /\ inside = {} /\ held = {}
  /\ chain = [t \in Threads |-> << >>]

\* A thread that holds nothing and waits for nothing.
Free(t) == pc[t] = "run" /\ t \notin inside \cup held

-----------------------------------------------------------------------------
\* waitqueue_wake_one up to the release of the queue's lock: the first item of
\* q, if there is one, is t's to wake.
waitqueue_wake_one(q, t) ==
  \/ q = << >> /\ UNCHANGED chain /\ pc' = [pc EXCEPT ![t] = "run"]
  \/ /\ q # << >>
     /\ chain' = [chain EXCEPT ![t] = <<Head(q)>>]
     /\ pc' = [pc EXCEPT ![t] = "waking"]

\* Mutant of rest: the item is woken and left on the queue.
rest_keeps(q) == q

\* What waitqueue_wake_one leaves of the queue.
rest(q) == IF q = << >> THEN q ELSE Tail(q)

\* Mutant of woken: a thread woken from the mutex takes it for its own.
woken_owns(u, t) ==
  LET done == Len(chain[t]) = 1
  IN  /\ pc' = [pc EXCEPT ![u] = "run", ![t] = IF done THEN "run" ELSE "waking"]
      /\ inside' = IF pc[u] = "mutex_wait" THEN inside \cup {u} ELSE inside
      /\ held' = IF pc[u] = "sem_wait" THEN held \cup {u} ELSE held

\* Mutant of woken: the walk ends after the first waiter.
woken_stops(u, t) ==
  /\ pc' = [pc EXCEPT ![u] = IF @ = "mutex_wait" THEN "mutex_retry" ELSE "run", ![t] = "run"]
  /\ held' = IF pc[u] = "sem_wait" THEN held \cup {u} ELSE held
  /\ UNCHANGED inside

\* The waiter of u is called by t.  A thread woken from the mutex must ask
\* again; one woken from the semaphore has its permit.
woken(u, t) ==
  LET done == Len(chain[t]) = 1
      next == IF pc[u] = "mutex_wait" THEN "mutex_retry" ELSE "run"
  IN  /\ pc' = [pc EXCEPT ![u] = next, ![t] = IF done THEN "run" ELSE "waking"]
      /\ held' = IF pc[u] = "sem_wait" THEN held \cup {u} ELSE held
      /\ UNCHANGED inside

\* The end of waitqueue_wake_one, and one round of waitqueue_wake_all: the next
\* link is read before the waiter is called.
wake(t) ==
  /\ pc[t] = "waking"
  /\ woken(Head(chain[t]), t)
  /\ chain' = [chain EXCEPT ![t] = Tail(@)]
  /\ UNCHANGED <<owner, mwq, count, swq, cwq>>

-----------------------------------------------------------------------------
mutex_lock(t) ==
  /\ Free(t) \/ pc[t] = "mutex_retry"
  /\ \/ /\ owner = NULL
        /\ owner' = t
        /\ inside' = inside \cup {t}
        /\ pc' = [pc EXCEPT ![t] = "run"]
        /\ UNCHANGED mwq
     \/ /\ owner # NULL
        /\ mwq' = Append(mwq, t)
        /\ pc' = [pc EXCEPT ![t] = "mutex_wait"]
        /\ UNCHANGED <<owner, inside>>
  /\ UNCHANGED <<count, swq, cwq, held, chain>>

\* mutex_try_lock, when it succeeds.
mutex_try_lock(t) ==
  /\ Free(t) /\ owner = NULL
  /\ owner' = t
  /\ inside' = inside \cup {t}
  /\ UNCHANGED <<mwq, count, swq, cwq, pc, held, chain>>

\* Mutant of mutex_unlock: nobody is woken.
mutex_unlock_silent(t) ==
  /\ pc[t] = "run" /\ t \in inside
  /\ owner' = NULL
  /\ inside' = inside \ {t}
  /\ UNCHANGED <<mwq, count, swq, cwq, pc, held, chain>>

\* mutex_unlock gives the mutex up under its lock ...
mutex_unlock(t) ==
  /\ pc[t] = "run" /\ t \in inside
  /\ owner' = NULL
  /\ inside' = inside \ {t}
  /\ pc' = [pc EXCEPT ![t] = "mutex_wake"]
  /\ UNCHANGED <<mwq, count, swq, cwq, held, chain>>

\* ... and then wakes one waiter: anybody may take the mutex in between.
mutex_unlock_wake(t) ==
  /\ pc[t] = "mutex_wake"
  /\ waitqueue_wake_one(mwq, t)
  /\ mwq' = rest(mwq)
  /\ UNCHANGED <<owner, count, swq, cwq, inside, held>>

-----------------------------------------------------------------------------
\* semaphore_acquire: a negative count is the number of those who wait.
semaphore_acquire(t) ==
  /\ Free(t)
  /\ count' = count - 1
  /\ \/ /\ count - 1 >= 0
        /\ held' = held \cup {t}
        /\ UNCHANGED <<swq, pc>>
     \/ /\ count - 1 < 0
        /\ swq' = Append(swq, t)
        /\ pc' = [pc EXCEPT ![t] = "sem_wait"]
        /\ UNCHANGED held
  /\ UNCHANGED <<owner, mwq, cwq, inside, chain>>

\* Mutant of semaphore_try_acquire: a count of zero is enough.
semaphore_try_acquire_zero(t) ==
  /\ Free(t) /\ count >= 0
  /\ count' = count - 1
  /\ held' = held \cup {t}
  /\ UNCHANGED <<owner, mwq, swq, cwq, pc, inside, chain>>

\* semaphore_try_acquire, when it succeeds.
semaphore_try_acquire(t) ==
  /\ Free(t) /\ count > 0
  /\ count' = count - 1
  /\ held' = held \cup {t}
  /\ UNCHANGED <<owner, mwq, swq, cwq, pc, inside, chain>>

\* Mutant of semaphore_release: the waiter that brings the count to zero is
\* not woken.
semaphore_release_strict(t) ==
  /\ pc[t] = "run" /\ t \in held
  /\ count' = count + 1
  /\ held' = held \ {t}
  /\ pc' = [pc EXCEPT ![t] = IF count + 1 < 0 THEN "sem_wake" ELSE "run"]
  /\ UNCHANGED <<owner, mwq, swq, cwq, inside, chain>>

\* semaphore_release gives the permit back under the lock ...
semaphore_release(t) ==
  /\ pc[t] = "run" /\ t \in held
  /\ count' = count + 1
  /\ held' = held \ {t}
  /\ pc' = [pc EXCEPT ![t] = IF count + 1 <= 0 THEN "sem_wake" ELSE "run"]
  /\ UNCHANGED <<owner, mwq, swq, cwq, inside, chain>>

\* ... and wakes the first waiter after releasing it.
semaphore_release_wake(t) ==
  /\ pc[t] = "sem_wake"
  /\ waitqueue_wake_one(swq, t)
  /\ swq' = rest(swq)
  /\ UNCHANGED <<owner, mwq, count, cwq, inside, held>>

-----------------------------------------------------------------------------
condvar_wait(t) ==
  /\ Free(t)
  /\ cwq' = Append(cwq, t)
  /\ pc' = [pc EXCEPT ![t] = "cond_wait"]
  /\ UNCHANGED <<owner, mwq, count, swq, inside, held, chain>>

condvar_signal(t) ==
  /\ pc[t] = "run" /\ cwq # << >>
  /\ waitqueue_wake_one(cwq, t)
  /\ cwq' = rest(cwq)
  /\ UNCHANGED <<owner, mwq, count, swq, inside, held>>

\* condvar_broadcast: waitqueue_wake_all detaches the whole queue at once.
condvar_broadcast(t) ==
  /\ pc[t] = "run" /\ cwq # << >>
  /\ chain' = [chain EXCEPT ![t] = cwq]
  /\ cwq' = << >>
  /\ pc' = [pc EXCEPT ![t] = "waking"]
  /\ UNCHANGED <<owner, mwq, count, swq, inside, held>>

-----------------------------------------------------------------------------
Next ==
  \E t \in Threads :
    \/ wake(t)
    \/ mutex_lock(t) \/ mutex_try_lock(t) \/ mutex_unlock(t) \/ mutex_unlock_wake(t)
    \/ semaphore_acquire(t) \/ semaphore_try_acquire(t)
    \/ semaphore_release(t) \/ semaphore_release_wake(t)
    \/ condvar_wait(t) \/ condvar_signal(t) \/ condvar_broadcast(t)

\* A call that has begun is finished, a thread told to retry does, and who
\* holds something gives it back.
Fairness ==
  \A t \in Threads :
    /\ WF_vars(wake(t) \/ mutex_unlock_wake(t) \/ semaphore_release_wake(t))
    /\ WF_vars(pc[t] = "mutex_retry" /\ mutex_lock(t))
    /\ SF_vars(mutex_unlock(t)) /\ SF_vars(semaphore_release(t))

Spec == Init /\ [][Next]_vars /\ Fairness
-----------------------------------------------------------------------------
Woken(w) == { u \in Threads : \E t \in Threads : u \in Range(chain[t]) /\ pc[u] = w }
At(w) == { t \in Threads : pc[t] = w }

\* Only the owner believes it has the mutex, and nobody else does: the calls
\* are mutually exclusive even though a woken thread does not own the mutex it
\* was woken from (mutex.c:53-62 clears owner and never hands it over).
MutualExclusion ==
  inside = IF owner = NULL THEN {} ELSE {owner}

\* While somebody waits for a free mutex, somebody is about to ask for it: an
\* unlock that has still to wake a waiter, a waiter about to be woken, or a
\* woken one that has still to retry.
MutexWakeupPending ==
  mwq # << >> /\ owner = NULL =>
    At("mutex_wake") \cup At("mutex_retry") \cup Woken("mutex_wait") # {}

\* Every waiting thread is on one queue or in one wakeup in progress, once,
\* and nobody else is: no item is lost or woken twice.
WaitersListed ==
  /\ \A q \in {mwq, swq, cwq} \cup Range(chain) : IsInjective(q)
  /\ \A t, u \in Threads :
       t # u => Range(chain[t]) \cap Range(chain[u]) = {}
  /\ \A t \in Threads :
       /\ chain[t] # << >> <=> pc[t] = "waking"
       /\ pc[t] = "mutex_wait" <=> t \in Range(mwq) \cup Woken("mutex_wait")
       /\ pc[t] = "sem_wait"   <=> t \in Range(swq) \cup Woken("sem_wait")
       /\ pc[t] = "cond_wait"  <=> t \in Range(cwq) \cup Woken("cond_wait")
       /\ \A u \in Threads : u \in Range(chain[t]) =>
            /\ pc[u] \in {"mutex_wait", "sem_wait", "cond_wait"}
            /\ u \notin Range(mwq) \cup Range(swq) \cup Range(cwq)

\* Permits are conserved: those held, those on their way to a woken waiter and
\* those left add up to the initial count.
PermitsConserved ==
  Cardinality(held) + Cardinality(At("sem_wake")) + Cardinality(Woken("sem_wait"))
    + (IF count > 0 THEN count ELSE 0) = Permits

\* The queue holds as many items as the negative count says, plus one for
\* every release that has still to take its item: semaphore_release never
\* finds the queue empty (semaphore.c:60-61 ignores that case).
WaitersCounted ==
  Len(swq) = Cardinality(At("sem_wake")) + (IF count < 0 THEN 0 - count ELSE 0)

\* A mutex that is wanted gets locked.
MutexTaken ==
  (mwq # << >> /\ owner = NULL) ~> (owner # NULL)

\* Whoever waits for the semaphore gets a permit: waiters are served in order.
PermitServed ==
  \A t \in Threads : pc[t] = "sem_wait" ~> t \in held

\* A broadcast wakes everybody who waited when it was called, including those
\* behind a thread that waits again while it runs.
BroadcastWakes ==
  \A t \in Threads : t \in Woken("cond_wait") ~> pc[t] # "cond_wait"
=============================================================================
