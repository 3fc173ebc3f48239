------------------------------ MODULE Scheduler ------------------------------
(***************************************************************************)
(* The task scheduler of one processor, with the task lifecycle built on   *)
(* it: kernel/src/proc/scheduler/{controller,runqueue,sleeperlist}.c, the  *)
(* lifecycle, API and reference-counting parts of kernel/src/proc/task.c,  *)
(* kernel/src/proc/spawn.c and the user half of the page fault handler.    *)
(*                                                                         *)
(* Scheduling is cooperative: a task leaves the processor only by exiting, *)
(* faulting, sleeping or blocking in a join.  What interleaves with it is  *)
(* the timer interrupt, which wakes sleepers and reaps zombies.  A stretch *)
(* of code between `cli` and the context switch is one action; kernel code *)
(* that runs with interrupts enabled is cut at every point where the timer *)
(* can observe or disturb it, and `inside` says which shared structure the *)
(* interrupted code is working on.                                         *)
(***************************************************************************)
EXTENDS Integers, FiniteSets, SequencesExt

CONSTANTS Tasks,    \* task identifiers; a tid is never reused
          Idle,     \* the idle task of the processor
          Boot,     \* the tasks spawned before the first yield, in order
          Delays    \* sleep durations, in timer ticks rounded up

ASSUME TasksAssumption  == IsFiniteSet(Tasks) /\ Idle \notin Tasks
ASSUME BootAssumption   == Boot \in Seq(Tasks) /\ IsInjective(Boot)
ASSUME DelaysAssumption == Delays \subseteq Nat \ {0}

VARIABLES state,     \* task_state.type; "unborn" and "freed" bracket the object's life
          kind,      \* "kernel" (joinable) or "user" (TH_TASK_FLAG_DETACHED)
          refcount,  \* task.refcount
          pc,        \* where the task is; "own" is its own code
          target,    \* the task it is spawning or joining
          tasks,     \* scheduler.tasks, the run queue
          cleanup,   \* scheduler.cleanup, exited tasks not yet freed
          sleepers,  \* scheduler.sleepers
          left,      \* ticks until a sleeper's duration has elapsed
          joiners,   \* task.lifecycle.joiners
          waking,    \* what waitqueue_wake_all still has to walk
          current,   \* scheduler.current
          woken,     \* an interrupt ended the idle loop's hlt
          inside,    \* the shared structure the running kernel code is inside
          mode       \* "ok", or how the machine stopped

lists == <<tasks, cleanup, sleepers, left, joiners, waking>>
vars  == <<state, kind, refcount, pc, target, lists, current, woken, inside, mode>>

States  == {"unborn", "ready", "running", "blocked", "zombie", "freed"}
Kinds   == {"kernel", "user"}
Places  == {"own", "spawn_init", "spawn_enqueue", "find", "found", "added",
            "join_wait", "exit", "dead"}
\* "stale": inside the cleanup list while the timer has freed one of its nodes.
Regions == {"none", "heap", "tasks", "cleanup", "stale"}
\* "hung": the timer handler spins on a lock its own processor holds; the
\* others name the assertion of task.c that failed.
Modes   == {"ok", "hung", "null_target", "detached", "acquire_dead", "release_dead"}

TypeOK ==
  /\ state    \in [Tasks -> States]
  /\ kind     \in [Tasks -> Kinds]
  /\ refcount \in [Tasks -> Nat]
  /\ pc       \in [Tasks -> Places]
  /\ target   \in [Tasks -> Tasks]
  /\ tasks    \in Seq(Tasks)
  /\ cleanup  \in Seq(Tasks)
  /\ sleepers \in Seq(Tasks)
  /\ left     \in [Tasks -> Nat]
  /\ joiners  \in [Tasks -> Seq(Tasks)]
  /\ waking   \in Seq(Tasks)
  /\ current  \in Tasks \cup {Idle}
  /\ woken    \in BOOLEAN
  /\ inside   \in Regions
  /\ mode     \in Modes

-----------------------------------------------------------------------------
\* kmain up to its first scheduler_yield: the boot thread, which is the idle
\* task, has spawned the boot tasks.
Init ==
  /\ state    = [t \in Tasks |-> IF t \in Range(Boot) THEN "ready" ELSE "unborn"]
  /\ kind     \in [Tasks -> Kinds]
  /\ \A t \in Tasks \ Range(Boot) : kind[t] = "user"
  /\ refcount = [t \in Tasks |-> IF t \in Range(Boot) THEN 1 ELSE 0]
  /\ pc       = [t \in Tasks |-> "own"]
  /\ target   = [t \in Tasks |-> t]
  /\ tasks    = Boot
  /\ cleanup  = << >>
  /\ sleepers = << >>
  /\ left     = [t \in Tasks |-> 0]
  /\ joiners  = [t \in Tasks |-> << >>]
  /\ waking   = << >>
  /\ current  = Idle
  /\ woken    = TRUE
  /\ inside   = "none"
  /\ mode     = "ok"

\* The sequences that list, in the order of s, the elements of s that are in S
\* (there is one when s has no duplicates).
Selections(s, S) ==
  { w \in SeqOf(S, Len(s)) :
      /\ Range(w) = Range(s) \cap S
      /\ \A i, j \in DOMAIN w :
           i < j => \E a, b \in DOMAIN s : a < b /\ w[i] = s[a] /\ w[j] = s[b] }

Runs(t) == mode = "ok" /\ current = t

\* Mutant of runqueue_has: the search also returns blocked tasks.
runqueue_has_blocked(q, t) == t \in Range(q) \/ state[t] = "blocked"

\* runqueue_enqueue and runqueue_find_by_id on the sequence the links form.
runqueue_enqueue(q, t) == Append(q, t)
runqueue_has(q, t) == t \in Range(q)

\* Mutant of scheduler_yield: the caller is requeued whatever its state.
scheduler_yield_requeues(st, q) ==
  LET st1 == IF current # Idle THEN [st EXCEPT ![current] = "ready"] ELSE st
      q1  == IF current # Idle THEN Append(q, current) ELSE q
  IN  /\ woken' = FALSE
      /\ current' = IF q1 = << >> THEN Idle ELSE Head(q1)
      /\ state' = IF q1 = << >> THEN st1 ELSE [st1 EXCEPT ![Head(q1)] = "running"]
      /\ tasks' = IF q1 = << >> THEN q1 ELSE Tail(q1)

\* scheduler_yield, after its caller has left the task states st and run queue
\* q: a caller still running goes to the back of its queue, the head of the
\* queue runs, and the idle task runs when there is none.
scheduler_yield(st, q) ==
  LET again == current # Idle /\ st[current] = "running"
      st1   == IF again THEN [st EXCEPT ![current] = "ready"] ELSE st
      q1    == IF again THEN runqueue_enqueue(q, current) ELSE q
  IN  /\ woken' = FALSE
      /\ \/ /\ q1 = << >>
            /\ current' = Idle
            /\ state' = st1
            /\ tasks' = q1
         \/ /\ q1 # << >>
            /\ current' = Head(q1)
            /\ state' = [st1 EXCEPT ![Head(q1)] = "running"]
            /\ tasks' = Tail(q1)

\* task_release: the count drops; releasing a task nobody references panics.
task_release(x) ==
  /\ refcount' = [refcount EXCEPT ![x] = IF @ = 0 THEN 0 ELSE @ - 1]
  /\ mode' = IF refcount[x] = 0 THEN "release_dead" ELSE mode

\* task_acquire by t of its join target x, as a hit of the search: acquiring
\* a task nobody references panics.
task_acquire(t, x) ==
  IF refcount[x] = 0
    THEN mode' = "acquire_dead" /\ UNCHANGED <<refcount, pc, inside>>
    ELSE /\ refcount' = [refcount EXCEPT ![x] = @ + 1]
         /\ pc' = [pc EXCEPT ![t] = "found"]
         /\ inside' = "none"
         /\ UNCHANGED mode

-----------------------------------------------------------------------------
\* spawn_kernel_task and spawn_user_task (the only one a user task can reach):
\* a tid is drawn and the task object is built, inside the allocators' locks.
spawn_begin(t, n, k) ==
  /\ Runs(t) /\ pc[t] = "own" /\ state[n] = "unborn"
  /\ k = "kernel" => kind[t] = "kernel"
  /\ kind'   = [kind EXCEPT ![n] = k]
  /\ target' = [target EXCEPT ![t] = n]
  /\ pc'     = [pc EXCEPT ![t] = "spawn_init"]
  /\ inside' = "heap"
  /\ UNCHANGED <<state, refcount, lists, current, woken, mode>>

\* Mutant of spawn_init: task_set_ready is forgotten.
spawn_init_stays_new(t) ==
  /\ Runs(t) /\ pc[t] = "spawn_init"
  /\ state'    = [state EXCEPT ![target[t]] = "new"]
  /\ refcount' = [refcount EXCEPT ![target[t]] = 1]
  /\ pc'       = [pc EXCEPT ![t] = "spawn_enqueue"]
  /\ inside'   = "tasks"
  /\ UNCHANGED <<kind, target, lists, current, woken, mode>>

\* The end of task_init (the task starts with the one reference that its own
\* exit gives up), task_set_ready, and the lock of the run queue is taken.
spawn_init(t) ==
  /\ Runs(t) /\ pc[t] = "spawn_init"
  /\ state'    = [state EXCEPT ![target[t]] = "ready"]
  /\ refcount' = [refcount EXCEPT ![target[t]] = 1]
  /\ pc'       = [pc EXCEPT ![t] = "spawn_enqueue"]
  /\ inside'   = "tasks"
  /\ UNCHANGED <<kind, target, lists, current, woken, mode>>

spawn_enqueue(t) ==
  /\ Runs(t) /\ pc[t] = "spawn_enqueue"
  /\ tasks'  = runqueue_enqueue(tasks, target[t])
  /\ pc'     = [pc EXCEPT ![t] = "own"]
  /\ inside' = "none"
  /\ UNCHANGED <<state, kind, refcount, target, cleanup, sleepers, left,
                 joiners, waking, current, woken, mode>>

-----------------------------------------------------------------------------
\* task_sleep: under cli, the caller goes on the sleeper list and yields.
task_sleep(t, d) ==
  /\ Runs(t) /\ pc[t] = "own" /\ kind[t] = "kernel"
  /\ sleepers' = Append(sleepers, t)
  /\ left'     = [left EXCEPT ![t] = d]
  /\ scheduler_yield([state EXCEPT ![t] = "blocked"], tasks)
  /\ UNCHANGED <<kind, refcount, pc, target, cleanup, joiners, waking, inside, mode>>

-----------------------------------------------------------------------------
\* task_join(x) starts scheduler_get_task_by_id with the run queue's lock.
join_begin(t, x) ==
  /\ Runs(t) /\ pc[t] = "own"
  /\ target' = [target EXCEPT ![t] = x]
  /\ pc'     = [pc EXCEPT ![t] = "find"]
  /\ inside' = "tasks"
  /\ UNCHANGED <<state, kind, refcount, lists, current, woken, mode>>

\* The first search, of the run queue.
find_in_tasks(t) ==
  /\ Runs(t) /\ pc[t] = "find" /\ inside = "tasks"
  /\ \/ runqueue_has(tasks, target[t]) /\ task_acquire(t, target[t])
     \/ /\ ~runqueue_has(tasks, target[t])
        /\ inside' = "cleanup"
        /\ UNCHANGED <<refcount, pc, mode>>
  /\ UNCHANGED <<state, kind, target, lists, current, woken>>

\* The second search, of the cleanup list, then the test of scheduler.current
\* (a task that joins itself).  A task found nowhere fails the assertion of
\* task_join.  If the timer freed a node under the search, the walk may also
\* end there: the freed object is zeroed, so its link is NULL.
find_in_cleanup(t) ==
  /\ Runs(t) /\ pc[t] = "find" /\ inside \in {"cleanup", "stale"}
  /\ \/ /\ runqueue_has(cleanup, target[t]) \/ target[t] = t
        /\ task_acquire(t, target[t])
     \/ /\ ~runqueue_has(cleanup, target[t]) \/ inside = "stale"
        /\ target[t] # t
        /\ mode' = "null_target"
        /\ UNCHANGED <<refcount, pc, inside>>
  /\ UNCHANGED <<state, kind, target, lists, current, woken>>

\* task_join with the target referenced: a detached target fails an
\* assertion, a zombie is let go at once, otherwise the caller's blocker is
\* added to the target's joiners.
join_check(t) ==
  LET x == target[t]
  IN  /\ Runs(t) /\ pc[t] = "found"
      /\ \/ /\ kind[x] = "user"
            /\ mode' = "detached"
            /\ UNCHANGED <<refcount, pc, joiners>>
         \/ /\ kind[x] # "user" /\ state[x] = "zombie"
            /\ task_release(x)
            /\ pc' = [pc EXCEPT ![t] = "own"]
            /\ UNCHANGED joiners
         \/ /\ kind[x] # "user" /\ state[x] # "zombie"
            /\ joiners' = [joiners EXCEPT ![x] = Append(@, t)]
            /\ pc' = [pc EXCEPT ![t] = "added"]
            /\ UNCHANGED <<refcount, mode>>
      /\ UNCHANGED <<state, kind, target, tasks, cleanup, sleepers, left,
                     waking, current, woken, inside>>

\* The second look at the target's state: a target that exited meanwhile is
\* let go after waitqueue_del, otherwise cli, task_set_blocked and the yield.
\* (On one processor nothing can run in between: it has not.)
join_block(t) ==
  LET x == target[t]
  IN  /\ Runs(t) /\ pc[t] = "added"
      /\ IF state[x] = "zombie"
           THEN /\ \E w \in Selections(joiners[x], Tasks \ {t}) :
                     joiners' = [joiners EXCEPT ![x] = w]
                /\ task_release(x)
                /\ pc' = [pc EXCEPT ![t] = "own"]
                /\ UNCHANGED <<state, tasks, current, woken>>
           ELSE /\ pc' = [pc EXCEPT ![t] = "join_wait"]
                /\ scheduler_yield([state EXCEPT ![t] = "blocked"], tasks)
                /\ UNCHANGED <<refcount, joiners, mode>>
      /\ UNCHANGED <<kind, target, cleanup, sleepers, left, waking, inside>>

\* Mutant of join_return: the reference is leaked.
join_return_leaks(t) ==
  /\ Runs(t) /\ pc[t] = "join_wait"
  /\ pc' = [pc EXCEPT ![t] = "own"]
  /\ UNCHANGED <<state, kind, refcount, target, lists, current, woken, inside, mode>>

\* task_join after the yield returned.
join_return(t) ==
  /\ Runs(t) /\ pc[t] = "join_wait"
  /\ task_release(target[t])
  /\ pc' = [pc EXCEPT ![t] = "own"]
  /\ UNCHANGED <<state, kind, target, lists, current, woken, inside>>

-----------------------------------------------------------------------------
\* Mutant of exit_begin: the joiners are dropped, not walked.
exit_begin_drops_joiners(t) ==
  /\ Runs(t) /\ pc[t] = "own"
  /\ state'   = [state EXCEPT ![t] = "zombie"]
  /\ joiners' = [joiners EXCEPT ![t] = << >>]
  /\ pc'      = [pc EXCEPT ![t] = "exit"]
  /\ UNCHANGED <<kind, refcount, target, tasks, cleanup, sleepers, left, waking,
                 current, woken, inside, mode>>

\* task_exit, scheduler_kill_current_task: the task is a zombie and
\* waitqueue_wake_all has detached its joiners.
exit_begin(t) ==
  /\ Runs(t) /\ pc[t] = "own"
  /\ state'   = [state EXCEPT ![t] = "zombie"]
  /\ waking'  = joiners[t]
  /\ joiners' = [joiners EXCEPT ![t] = << >>]
  /\ pc'      = [pc EXCEPT ![t] = "exit"]
  /\ UNCHANGED <<kind, refcount, target, tasks, cleanup, sleepers, left,
                 current, woken, inside, mode>>

\* One round of the wake_all loop, scheduler_wake_task: the joiner is made
\* ready and the run queue's lock is taken ...
wake_ready(t) ==
  /\ Runs(t) /\ pc[t] = "exit" /\ waking # << >> /\ inside = "none"
  /\ state'  = [state EXCEPT ![Head(waking)] = "ready"]
  /\ inside' = "tasks"
  /\ UNCHANGED <<kind, refcount, pc, target, lists, current, woken, mode>>

\* ... and the joiner is enqueued.
wake_enqueue(t) ==
  /\ Runs(t) /\ pc[t] = "exit" /\ waking # << >> /\ inside = "tasks"
  /\ tasks'  = runqueue_enqueue(tasks, Head(waking))
  /\ waking' = Tail(waking)
  /\ inside' = "none"
  /\ UNCHANGED <<state, kind, refcount, pc, target, cleanup, sleepers, left,
                 joiners, current, woken, mode>>

\* From cli on: the zombie goes on the cleanup list, gives up its own
\* reference and yields for the last time.
exit_finish(t) ==
  /\ Runs(t) /\ pc[t] = "exit" /\ waking = << >> /\ inside = "none"
  /\ cleanup' = runqueue_enqueue(cleanup, t)
  /\ task_release(t)
  /\ pc' = [pc EXCEPT ![t] = "dead"]
  /\ scheduler_yield(state, tasks)
  /\ UNCHANGED <<kind, target, sleepers, left, joiners, waking, inside>>

\* pagefault_handler for a fault in user mode: the same kill, all of it with
\* interrupts masked.
pagefault(t) ==
  /\ Runs(t) /\ pc[t] = "own" /\ kind[t] = "user"
  /\ joiners' = [joiners EXCEPT ![t] = << >>]
  /\ cleanup' = runqueue_enqueue(cleanup, t)
  /\ task_release(t)
  /\ pc' = [pc EXCEPT ![t] = "dead"]
  /\ scheduler_yield([x \in Tasks |-> IF x = t THEN "zombie"
                                      ELSE IF x \in Range(joiners[t]) THEN "ready"
                                      ELSE state[x]],
                     tasks \o joiners[t])
  /\ UNCHANGED <<kind, target, sleepers, left, waking, inside>>

-----------------------------------------------------------------------------
\* Mutant of idle_loop: no yield after hlt.
idle_loop_no_yield ==
  /\ Runs(Idle) /\ woken
  /\ woken' = FALSE
  /\ UNCHANGED <<state, kind, refcount, pc, target, lists, current, inside, mode>>

\* scheduler_idle_loop: hlt returns after an interrupt, then cli and yield.
idle_loop ==
  /\ Runs(Idle) /\ woken
  /\ scheduler_yield(state, tasks)
  /\ UNCHANGED <<kind, refcount, pc, target, cleanup, sleepers, left, joiners,
                 waking, inside, mode>>

\* Mutant of Dead: references are not looked at.
Dead_any == Range(cleanup)

\* uptime_ns += ns, seen by the sleepers' timers.
elapse == [t \in Tasks |-> IF left[t] = 0 THEN 0 ELSE left[t] - 1]

\* sleeperlist_tick wakes who has slept long enough; scheduler_cleanup frees
\* the exited tasks that nobody references.
Due  == { t \in Range(sleepers) : left[t] <= 1 }
Dead == { t \in Range(cleanup) : refcount[t] = 0 }

\* Waking a sleeper takes the run queue's lock and frees its list node, and
\* reaping frees a task: the handler spins forever if the code it interrupted
\* holds the lock it needs.
tick_spins ==
  \/ inside = "tasks" /\ Due # {}
  \/ inside = "heap" /\ (Due # {} \/ Dead # {})

\* lapic_timer_handler, scheduler_tick.
scheduler_tick ==
  /\ mode = "ok" /\ ~tick_spins
  /\ \E w \in Selections(sleepers, Due) :
       tasks' = tasks \o w
  /\ sleepers' \in Selections(sleepers, Tasks \ Due)
  /\ cleanup'  \in Selections(cleanup, Tasks \ Dead)
  /\ state' = [t \in Tasks |-> IF t \in Due THEN "ready"
                               ELSE IF t \in Dead THEN "freed"
                               ELSE state[t]]
  /\ left' = elapse
  /\ woken' = (current = Idle)
  /\ inside' = IF inside = "cleanup" /\ Dead # {} THEN "stale" ELSE inside
  /\ UNCHANGED <<kind, refcount, pc, target, joiners, waking, current, mode>>

tick_hangs ==
  /\ mode = "ok" /\ tick_spins
  /\ mode' = "hung"
  /\ UNCHANGED <<state, kind, refcount, pc, target, lists, current, woken, inside>>

Tick == scheduler_tick \/ tick_hangs
-----------------------------------------------------------------------------
\* A step of t inside the kernel, and an operation t may start.
KernelStep(t) ==
  \/ spawn_init(t) \/ spawn_enqueue(t)
  \/ find_in_tasks(t) \/ find_in_cleanup(t)
  \/ join_check(t) \/ join_block(t) \/ join_return(t)
  \/ wake_ready(t) \/ wake_enqueue(t) \/ exit_finish(t)

GiveUp(t) ==
  \/ exit_begin(t)
  \/ pagefault(t)
  \/ \E d \in Delays : task_sleep(t, d)

Call(t) ==
  \/ \E n \in Tasks, k \in Kinds : spawn_begin(t, n, k)
  \/ \E x \in Tasks : join_begin(t, x)
  \/ GiveUp(t)

Next == (\E t \in Tasks : KernelStep(t) \/ Call(t)) \/ idle_loop \/ Tick

\* The processor executes kernel code and the timer keeps firing.  Scheduling
\* is cooperative: every task is assumed to give up the processor again and
\* again, which the kernel does not enforce.
Fairness ==
  /\ WF_vars(Tick)
  /\ WF_vars(idle_loop)
  /\ \A t \in Tasks : WF_vars(KernelStep(t)) /\ SF_vars(GiveUp(t))

Spec == Init /\ [][Next]_vars /\ Fairness
-----------------------------------------------------------------------------
\* The task the running code has made ready but not yet put on the run queue:
\* the one it spawns, or the joiner it is waking.
InFlight ==
  { x \in Tasks : /\ current # Idle
                  /\ \/ pc[current] = "spawn_enqueue" /\ x = target[current]
                     \/ /\ pc[current] = "exit" /\ inside = "tasks"
                        /\ waking # << >> /\ x = Head(waking) }

\* Who holds a counted reference to x besides x itself: the tasks between the
\* search and the release of task_join(x).
Holders(x) ==
  { t \in Tasks : pc[t] \in {"found", "added", "join_wait"} /\ target[t] = x }

\* A task's state and the list that links it agree: siblings.prev/next can
\* serve one list only (runqueue.c), so a ready task is on the run queue once,
\* a zombie that has left the processor is on the cleanup list once, and no
\* other task is on either.
QueueDiscipline ==
  /\ TypeOK
  /\ IsInjective(tasks) /\ IsInjective(cleanup)
  /\ InFlight \cap Range(tasks) = {}
  /\ \A t \in Tasks :
       /\ state[t] = "ready"   <=> t \in Range(tasks) \cup InFlight
       /\ state[t] = "running" => current = t
       /\ current = t => state[t] \in {"running", "zombie"}
       /\ t \in Range(cleanup) <=> state[t] = "zombie" /\ pc[t] = "dead"

\* No wakeup is lost: every blocked task is on exactly one list that something
\* will still walk, once: the sleeper list, the joiners of a task that has not
\* exited, or the list the exiting task is waking right now; and only blocked
\* tasks (or the joiner about to block) are on these lists.
NoLostWakeup ==
  /\ IsInjective(sleepers) /\ IsInjective(waking)
  /\ \A t \in Tasks :
       LET asleep  == t \in Range(sleepers)
           joining == t \in Range(joiners[target[t]])
           leaving == t \in Range(waking) \ InFlight
       IN  /\ IsInjective(joiners[t])
           /\ state[t] = "blocked" <=>
                asleep \/ (joining /\ pc[t] = "join_wait") \/ leaving
           /\ asleep  => ~joining /\ ~leaving /\ pc[t] = "own"
           /\ joining => /\ ~leaving
                         /\ pc[t] \in {"added", "join_wait"}
                         /\ state[target[t]] \notin {"unborn", "zombie", "freed"}
           /\ leaving => pc[t] = "join_wait" /\ target[t] = current
           /\ \A x \in Tasks : t \in Range(joiners[x]) => x = target[t]

\* task.refcount counts exactly the task's own reference, which it gives up
\* when it leaves the processor for the last time, and one per task inside
\* task_join on it; so no release ever finds a count of zero, and a task whose
\* object the timer has freed is not running, on no list and in nobody's join.
RefcountExact ==
  /\ \A x \in Tasks :
       refcount[x] = Cardinality(Holders(x))
                     + (IF state[x] \in {"unborn", "freed"} \/ pc[x] = "dead" THEN 0 ELSE 1)
  /\ mode # "release_dead"
  /\ \A x \in Tasks : state[x] = "freed" =>
       /\ current # x
       /\ x \notin Range(tasks) \cup Range(cleanup) \cup Range(sleepers) \cup Range(waking)
       /\ joiners[x] = << >> /\ Holders(x) = {}

\* Joins cannot deadlock on each other: no set of two or more tasks waits in a
\* cycle of joins.  (A task can still join itself.)  It rests on task lookup
\* never returning a blocked task.
NoJoinCycle ==
  ~ \E S \in SUBSET Tasks :
      /\ S # {}
      /\ \A t \in S : /\ state[t] = "blocked" /\ pc[t] = "join_wait"
                       /\ target[t] \in S \ {t}

\* scheduler_kill_current_task does not return (unreachable() in task_exit):
\* an exited task is never made ready, run or given a new life.
DeadStaysDead ==
  [][\A t \in Tasks :
       /\ state[t] \in {"zombie", "freed"} => state'[t] \in {"zombie", "freed"}
       /\ state[t] = "freed" => state'[t] = "freed"
       /\ pc[t] = "dead" => current' # t]_vars

\* A ready task gets the processor (FIFO run queue, cooperative tasks), and a
\* sleeper does once the timer has seen its duration elapse.
ReadyRuns ==
  \A t \in Tasks : (state[t] = "ready" \/ t \in Range(sleepers)) ~> (current = t \/ mode # "ok")

\* A task blocked in task_join returns from it once its target has exited.
JoinReturns ==
  \A t \in Tasks :
    (pc[t] = "join_wait" /\ state[target[t]] = "zombie")
      ~> (pc[t] = "own" \/ mode # "ok")

\* An exited task is reaped: its last joiner lets go and the timer frees it.
ZombieReaped ==
  \A t \in Tasks : state[t] = "zombie" ~> (state[t] = "freed" \/ mode # "ok")

\* task_join asserts that its target was found (task.c:580): it should be,
\* for every task that has been spawned and not yet freed.
LiveTargetFound ==
  mode = "null_target" => state[target[current]] \in {"unborn", "freed"}
=============================================================================
