--------------------------- MODULE SchedulerProofs ---------------------------
(* Safety of the one-processor scheduler for any number of tasks, and the    *)
(* start-up block of a new task.                                           *)
EXTENDS Scheduler, Startup, ListFacts, TLAPS, FiniteSetTheorems, SequenceTheorems

-----------------------------------------------------------------------------
\* What sleeperlist_tick, scheduler_cleanup and waitqueue_del leave of a list
\* is a list of its elements.
LEMMA SelectionsType ==
  ASSUME NEW s \in Seq(Tasks), NEW S \in SUBSET Tasks, NEW w \in Selections(s, S)
  PROVE  w \in Seq(Tasks) /\ Range(w) = Range(s) \cap S
  BY DEF Selections, SeqOf

\* scheduler_yield keeps the types of what it changes.
LEMMA YieldType ==
  ASSUME TypeOK, NEW st \in [Tasks -> States], NEW q \in Seq(Tasks),
         scheduler_yield(st, q)
  PROVE  /\ state' \in [Tasks -> States]
         /\ tasks' \in Seq(Tasks)
         /\ current' \in Tasks \cup {Idle}
         /\ woken' \in BOOLEAN
<1> DEFINE again == current # Idle /\ st[current] = "running"
           st1   == IF again THEN [st EXCEPT ![current] = "ready"] ELSE st
           q1    == IF again THEN Append(q, current) ELSE q
<1>1. st1 \in [Tasks -> States] /\ q1 \in Seq(Tasks)
  BY DEF TypeOK, States
<1>2. /\ woken' = FALSE
      /\ \/ q1 = << >> /\ current' = Idle /\ state' = st1 /\ tasks' = q1
         \/ /\ q1 # << >> /\ current' = Head(q1)
            /\ state' = [st1 EXCEPT ![Head(q1)] = "running"]
            /\ tasks' = Tail(q1)
  BY DEF scheduler_yield, runqueue_enqueue
<1> HIDE DEF st1, q1
<1>3. CASE q1 = << >>
  BY <1>1, <1>2, <1>3
<1>4. CASE q1 # << >>
  <2>1. Head(q1) \in Tasks /\ Tail(q1) \in Seq(Tasks)
    BY <1>1, <1>4
  <2>2. QED
    BY <2>1, <1>1, <1>2, <1>4 DEF States
<1>5. QED
  BY <1>3, <1>4

\* task_release and task_acquire keep the types of what they change.
LEMMA ReleaseType ==
  ASSUME TypeOK, NEW x \in Tasks, task_release(x)
  PROVE  refcount' \in [Tasks -> Nat] /\ mode' \in Modes
<1>1. CASE refcount[x] = 0
  BY <1>1 DEF TypeOK, task_release, Modes
<1>2. CASE refcount[x] # 0
  <2>1. refcount[x] - 1 \in Nat
    BY <1>2 DEF TypeOK
  <2>2. QED
    BY <1>2, <2>1 DEF TypeOK, task_release, Modes
<1>3. QED
  BY <1>1, <1>2

LEMMA AcquireType ==
  ASSUME TypeOK, NEW t \in Tasks, NEW x \in Tasks, task_acquire(t, x)
  PROVE  /\ refcount' \in [Tasks -> Nat]
         /\ pc' \in [Tasks -> Places]
         /\ inside' \in Regions
         /\ mode' \in Modes
<1>1. CASE refcount[x] = 0
  BY <1>1 DEF TypeOK, task_acquire, Modes
<1>2. CASE refcount[x] # 0
  <2>1. refcount' \in [Tasks -> Nat]
    <3>1. refcount' = [refcount EXCEPT ![x] = refcount[x] + 1] /\ refcount[x] + 1 \in Nat
      BY <1>2 DEF TypeOK, task_acquire
    <3>2. QED
      BY <3>1 DEF TypeOK
  <2>2. pc' \in [Tasks -> Places] /\ inside' \in Regions /\ mode' \in Modes
    BY <1>2 DEF TypeOK, task_acquire, Places, Regions
  <2>3. QED
    BY <2>1, <2>2
<1>3. QED
  BY <1>1, <1>2

-----------------------------------------------------------------------------
\* A step of the scheduler is a step of one of its actions.
LEMMA NextCases ==
  ASSUME Next, NEW P,
         \A t, n \in Tasks : \A k \in Kinds : spawn_begin(t, n, k) => P,
         \A t \in Tasks : spawn_init(t) => P,
         \A t \in Tasks : spawn_enqueue(t) => P,
         \A t \in Tasks : \A d \in Delays : task_sleep(t, d) => P,
         \A t, x \in Tasks : join_begin(t, x) => P,
         \A t \in Tasks : find_in_tasks(t) => P,
         \A t \in Tasks : find_in_cleanup(t) => P,
         \A t \in Tasks : join_check(t) => P,
         \A t \in Tasks : join_block(t) => P,
         \A t \in Tasks : join_return(t) => P,
         \A t \in Tasks : exit_begin(t) => P,
         \A t \in Tasks : wake_ready(t) => P,
         \A t \in Tasks : wake_enqueue(t) => P,
         \A t \in Tasks : exit_finish(t) => P,
         \A t \in Tasks : pagefault(t) => P,
         idle_loop => P,
         scheduler_tick => P,
         tick_hangs => P
  PROVE  P
  BY DEF Next, KernelStep, Call, GiveUp, Tick

\* The first state is well typed.
LEMMA InitType ==
  ASSUME Init
  PROVE  TypeOK
  BY BootAssumption DEF Init, TypeOK, States, Kinds, Places, Regions, Modes

\* Every action keeps the types.
LEMMA NextType ==
  ASSUME TypeOK, [Next]_vars
  PROVE  TypeOK'
<1>1. CASE UNCHANGED vars
  BY <1>1 DEF TypeOK, vars, lists
<1>2. CASE Next
  <2>1. ASSUME NEW t \in Tasks, NEW n \in Tasks, NEW k \in Kinds, spawn_begin(t, n, k) PROVE TypeOK'
    BY <2>1 DEF spawn_begin, TypeOK, Runs, lists, States, Places, Regions, Modes
  <2>2. ASSUME NEW t \in Tasks, spawn_init(t) PROVE TypeOK'
    BY <2>2 DEF spawn_init, TypeOK, Runs, lists, States, Places, Regions, Modes
  <2>3. ASSUME NEW t \in Tasks, spawn_enqueue(t) PROVE TypeOK'
    BY <2>3 DEF spawn_enqueue, runqueue_enqueue, TypeOK, Runs, lists, States, Places, Regions, Modes
  <2>4. ASSUME NEW t \in Tasks, NEW d \in Delays, task_sleep(t, d) PROVE TypeOK'
    <3>1. [state EXCEPT ![t] = "blocked"] \in [Tasks -> States]
      BY DEF TypeOK, States
    <3>2. scheduler_yield([state EXCEPT ![t] = "blocked"], tasks)
      BY <2>4 DEF task_sleep
    <3>3. /\ state' \in [Tasks -> States] /\ tasks' \in Seq(Tasks)
          /\ current' \in Tasks \cup {Idle} /\ woken' \in BOOLEAN
      BY <3>1, <3>2, YieldType DEF TypeOK
    <3>4. QED
      <4>1. sleepers' \in Seq(Tasks)
        BY <2>4 DEF task_sleep, TypeOK
      <4>2. left' \in [Tasks -> Nat]
        BY <2>4, DelaysAssumption DEF task_sleep, TypeOK
      <4>3. UNCHANGED <<kind, refcount, pc, target, cleanup, joiners, waking, inside, mode>>
        BY <2>4 DEF task_sleep
      <4>4. QED
        BY <3>3, <4>1, <4>2, <4>3 DEF TypeOK
  <2>5. ASSUME NEW t \in Tasks, NEW x \in Tasks, join_begin(t, x) PROVE TypeOK'
    BY <2>5 DEF join_begin, TypeOK, Runs, lists, States, Places, Regions, Modes
  <2>6. ASSUME NEW t \in Tasks, find_in_tasks(t) PROVE TypeOK'
    <3>1. CASE task_acquire(t, target[t])
      BY <2>6, <3>1, AcquireType DEF find_in_tasks, TypeOK, lists
    <3>2. CASE ~task_acquire(t, target[t])
      BY <2>6, <3>2 DEF find_in_tasks, TypeOK, lists, Regions, Modes
    <3>3. QED
      BY <3>1, <3>2
  <2>7. ASSUME NEW t \in Tasks, find_in_cleanup(t) PROVE TypeOK'
    <3>1. CASE task_acquire(t, target[t])
      BY <2>7, <3>1, AcquireType DEF find_in_cleanup, TypeOK, lists
    <3>2. CASE ~task_acquire(t, target[t])
      BY <2>7, <3>2 DEF find_in_cleanup, TypeOK, lists, Regions, Modes
    <3>3. QED
      BY <3>1, <3>2
  <2>8. ASSUME NEW t \in Tasks, join_check(t) PROVE TypeOK'
    <3>1. UNCHANGED <<state, kind, target, tasks, cleanup, sleepers, left,
                      waking, current, woken, inside>>
      BY <2>8 DEF join_check
    <3>2. pc' \in [Tasks -> Places]
      BY <2>8 DEF join_check, TypeOK, Places
    <3>3. joiners' \in [Tasks -> Seq(Tasks)]
      <4>1. Append(joiners[target[t]], t) \in Seq(Tasks)
        BY DEF TypeOK
      <4>2. QED
        BY <2>8, <4>1 DEF join_check, TypeOK
    <3>4. refcount' \in [Tasks -> Nat] /\ mode' \in Modes
      <4>1. target[t] \in Tasks
        BY DEF TypeOK
      <4>2. CASE task_release(target[t])
        BY <4>1, <4>2, ReleaseType
      <4>3. CASE ~task_release(target[t])
        BY <2>8, <4>3 DEF join_check, TypeOK, Modes
      <4>4. QED
        BY <4>2, <4>3
    <3>5. QED
      BY <3>1, <3>2, <3>3, <3>4 DEF TypeOK
  <2>9. ASSUME NEW t \in Tasks, join_block(t) PROVE TypeOK'
    <3>1. CASE state[target[t]] = "zombie"
      <4>1. PICK w \in Selections(joiners[target[t]], Tasks \ {t}) :
              joiners' = [joiners EXCEPT ![target[t]] = w]
        BY <2>9, <3>1 DEF join_block
      <4>2. w \in Seq(Tasks)
        BY <4>1, SelectionsType DEF TypeOK
      <4>3. QED
        BY <2>9, <3>1, <4>1, <4>2, ReleaseType DEF join_block, TypeOK, Places
    <3>2. CASE state[target[t]] # "zombie"
      <4>1. [state EXCEPT ![t] = "blocked"] \in [Tasks -> States]
        BY DEF TypeOK, States
      <4>2. scheduler_yield([state EXCEPT ![t] = "blocked"], tasks)
        BY <2>9, <3>2 DEF join_block
      <4>3. /\ state' \in [Tasks -> States] /\ tasks' \in Seq(Tasks)
            /\ current' \in Tasks \cup {Idle} /\ woken' \in BOOLEAN
        BY <4>1, <4>2, YieldType DEF TypeOK
      <4>4. QED
        BY <2>9, <3>2, <4>3 DEF join_block, TypeOK, Places
    <3>3. QED
      BY <3>1, <3>2
  <2>10. ASSUME NEW t \in Tasks, join_return(t) PROVE TypeOK'
    BY <2>10, ReleaseType DEF join_return, TypeOK, lists, Places
  <2>11. ASSUME NEW t \in Tasks, exit_begin(t) PROVE TypeOK'
    BY <2>11 DEF exit_begin, TypeOK, Runs, lists, States, Places, Regions, Modes
  <2>12. ASSUME NEW t \in Tasks, wake_ready(t) PROVE TypeOK'
    BY <2>12 DEF wake_ready, TypeOK, Runs, lists, States, Places, Regions, Modes
  <2>13. ASSUME NEW t \in Tasks, wake_enqueue(t) PROVE TypeOK'
    <3>1. /\ tasks' = Append(tasks, Head(waking)) /\ waking' = Tail(waking) /\ waking # << >> /\ inside' = "none"
          /\ UNCHANGED <<state, kind, refcount, pc, target, cleanup, sleepers, left, joiners, current, woken, mode>>
      BY <2>13 DEF wake_enqueue, runqueue_enqueue
    <3>2. tasks' \in Seq(Tasks) /\ waking' \in Seq(Tasks)
      BY <3>1 DEF TypeOK
    <3>3. QED
      BY <3>1, <3>2 DEF TypeOK, Regions
  <2>14. ASSUME NEW t \in Tasks, exit_finish(t) PROVE TypeOK'
    <3>1. state \in [Tasks -> States] /\ tasks \in Seq(Tasks)
      BY DEF TypeOK, States
    <3>2. scheduler_yield(state, tasks)
      BY <2>14 DEF exit_finish
    <3>3. /\ state' \in [Tasks -> States] /\ tasks' \in Seq(Tasks)
          /\ current' \in Tasks \cup {Idle} /\ woken' \in BOOLEAN
      BY <3>1, <3>2, YieldType DEF TypeOK
    <3>4. cleanup' \in Seq(Tasks)
      BY <2>14 DEF exit_finish, runqueue_enqueue, TypeOK
    <3>5. pc' \in [Tasks -> Places]
      BY <2>14 DEF exit_finish, TypeOK, Places
    <3>6. refcount' \in [Tasks -> Nat] /\ mode' \in Modes
      BY <2>14, ReleaseType DEF exit_finish
    <3>7. UNCHANGED <<kind, target, sleepers, left, joiners, waking, inside>>
      BY <2>14 DEF exit_finish
    <3>8. QED
      BY <3>3, <3>4, <3>5, <3>6, <3>7 DEF TypeOK
  <2>15. ASSUME NEW t \in Tasks, pagefault(t) PROVE TypeOK'
    <3> DEFINE st == [x \in Tasks |-> IF x = t THEN "zombie"
                                      ELSE IF x \in Range(joiners[t]) THEN "ready"
                                      ELSE state[x]]
    <3>1. st \in [Tasks -> States] /\ (tasks \o joiners[t]) \in Seq(Tasks)
      BY DEF TypeOK, States
    <3>2. scheduler_yield(st, (tasks \o joiners[t]))
      BY <2>15 DEF pagefault
    <3>3. /\ state' \in [Tasks -> States] /\ tasks' \in Seq(Tasks)
          /\ current' \in Tasks \cup {Idle} /\ woken' \in BOOLEAN
      BY <3>1, <3>2, YieldType DEF TypeOK
    <3>4. cleanup' \in Seq(Tasks) /\ joiners' \in [Tasks -> Seq(Tasks)]
      BY <2>15 DEF pagefault, runqueue_enqueue, TypeOK
    <3>5. pc' \in [Tasks -> Places]
      BY <2>15 DEF pagefault, TypeOK, Places
    <3>6. refcount' \in [Tasks -> Nat] /\ mode' \in Modes
      BY <2>15, ReleaseType DEF pagefault
    <3>7. UNCHANGED <<kind, target, sleepers, left, waking, inside>>
      BY <2>15 DEF pagefault
    <3>8. QED
      BY <3>3, <3>4, <3>5, <3>6, <3>7 DEF TypeOK
  <2>16. ASSUME idle_loop PROVE TypeOK'
    <3>1. state \in [Tasks -> States] /\ tasks \in Seq(Tasks)
      BY DEF TypeOK, States
    <3>2. scheduler_yield(state, tasks)
      BY <2>16 DEF idle_loop
    <3>3. /\ state' \in [Tasks -> States] /\ tasks' \in Seq(Tasks)
          /\ current' \in Tasks \cup {Idle} /\ woken' \in BOOLEAN
      BY <3>1, <3>2, YieldType DEF TypeOK
    <3>4. QED
      BY <2>16, <3>3 DEF idle_loop, TypeOK
  <2>17. ASSUME scheduler_tick PROVE TypeOK'
    <3>1. Due \in SUBSET Tasks /\ Dead \in SUBSET Tasks
      BY DEF TypeOK, Due, Dead, Range
    <3>2. PICK w \in Selections(sleepers, Due) : tasks' = tasks \o w
      BY <2>17 DEF scheduler_tick
    <3>3. w \in Seq(Tasks)
      BY <3>1, <3>2, SelectionsType DEF TypeOK
    <3>4. sleepers' \in Seq(Tasks) /\ cleanup' \in Seq(Tasks)
      BY <2>17, SelectionsType DEF scheduler_tick, TypeOK
    <3>5. QED
      BY <2>17, <3>2, <3>3, <3>4 DEF scheduler_tick, elapse, TypeOK, States, Regions
  <2>18. ASSUME tick_hangs PROVE TypeOK'
    BY <2>18 DEF tick_hangs, TypeOK, Runs, lists, States, Places, Regions, Modes
  <2>19. QED
    BY <1>2, <2>1, <2>2, <2>3, <2>4, <2>5, <2>6, <2>7, <2>8, <2>9, <2>10, <2>11,
       <2>12, <2>13, <2>14, <2>15, <2>16, <2>17, <2>18, NextCases
<1>3. QED
  BY <1>1, <1>2

\* Every reachable state is well typed, whatever the number of tasks: the
\* reference counts never go below zero and the queues hold tasks only.
THEOREM TypeCorrect == Spec => []TypeOK
<1>1. Init => TypeOK
  BY InitType
<1>2. TypeOK /\ [Next]_vars => TypeOK'
  BY NextType
<1>3. QED
  BY <1>1, <1>2, PTL DEF Spec
-----------------------------------------------------------------------------
(* The inductive invariant.                                                *)

\* No list holds a task twice, and the task in flight is not yet queued.
Unique ==
  /\ IsInjective(tasks) /\ IsInjective(cleanup)
  /\ IsInjective(sleepers) /\ IsInjective(waking)
  /\ \A t \in Tasks : IsInjective(joiners[t])
  /\ InFlight \cap Range(tasks) = {}

\* What QueueDiscipline says of one task.
Queued(t) ==
  /\ state[t] = "ready"   <=> t \in Range(tasks) \cup InFlight
  /\ state[t] = "running" => current = t
  /\ current = t => state[t] \in {"running", "zombie"}
  /\ t \in Range(cleanup) <=> state[t] = "zombie" /\ pc[t] = "dead"

\* What NoLostWakeup says of one task.
Joining(t) == t \in Range(joiners[target[t]])
Leaving(t) == t \in Range(waking) \ InFlight
Waits(t) ==
  /\ state[t] = "blocked" <=>
       t \in Range(sleepers) \/ (Joining(t) /\ pc[t] = "join_wait") \/ Leaving(t)
  /\ t \in Range(sleepers) => ~Joining(t) /\ ~Leaving(t) /\ pc[t] = "own"
  /\ Joining(t) => /\ ~Leaving(t)
                   /\ pc[t] \in {"added", "join_wait"}
                   /\ state[target[t]] \notin {"unborn", "zombie", "freed"}
  /\ Leaving(t) => pc[t] = "join_wait" /\ target[t] = current
  /\ \A x \in Tasks : t \in Range(joiners[x]) => x = target[t]

\* Places where a task is only while it has the processor.
Active == {"spawn_init", "spawn_enqueue", "find", "found", "added", "exit"}

\* Where a task is in the kernel, its state and its target agree.  A search
\* returns a task that is ready or has exited, or the searcher itself, and it
\* stays so until the searcher blocks: only the timer runs in between.
Placed(t) ==
  /\ pc[t] \in Active => current = t
  /\ current = t => pc[t] # "dead"
  /\ state[t] \in {"zombie", "freed"} <=> pc[t] \in {"exit", "dead"}
  /\ state[t] = "freed" => pc[t] = "dead"
  /\ state[t] = "unborn" => pc[t] = "own"
  /\ pc[t] = "spawn_init" => state[target[t]] = "unborn"
  /\ pc[t] = "added" => Joining(t)
  /\ pc[t] \in {"found", "added"} => target[t] = t \/ state[target[t]] \in {"ready", "zombie"}

\* Whoever gives up the processor is inside none of the structures, and only an
\* exiting task has joiners to wake.
Sections ==
  /\ current = Idle => inside = "none"
  /\ \A t \in Tasks : current = t /\ pc[t] \in {"own", "found", "added", "join_wait"} => inside = "none"
  /\ waking # << >> => current # Idle /\ pc[current] = "exit"

\* The reference a task holds to itself.
Own(x) == IF state[x] \in {"unborn", "freed"} \/ pc[x] = "dead" THEN 0 ELSE 1

\* The count is exact, and only an object that exists is referenced.
Counted(x) ==
  /\ refcount[x] = Cardinality(Holders(x)) + Own(x)
  /\ Holders(x) # {} => state[x] \notin {"unborn", "freed"}

IInv ==
  /\ TypeOK /\ Unique /\ Sections
  /\ \A t \in Tasks : Queued(t) /\ Waits(t) /\ Placed(t) /\ Counted(t)
  /\ mode # "release_dead"

\* The running task is running until it exits, it is on no list unless it is
\* about to block, and nobody else is in the middle of an operation.
LEMMA Current ==
  ASSUME IInv, NEW t \in Tasks, Runs(t)
  PROVE  /\ TypeOK /\ t # Idle /\ current = t
         /\ state[t] = (IF pc[t] = "exit" THEN "zombie" ELSE "running")
         /\ pc[t] # "dead"
         /\ \A u \in Tasks : pc[u] \in Active => u = t
         /\ t \notin Range(tasks) /\ t \notin Range(cleanup)
         /\ t \notin Range(sleepers) /\ t \notin Range(waking)
         /\ pc[t] # "added" => \A x \in Tasks : t \notin Range(joiners[x])
         /\ pc[t] # "exit" => waking = << >>
<1>1. /\ TypeOK /\ t # Idle /\ current = t /\ Queued(t) /\ Waits(t) /\ Placed(t) /\ Sections
      /\ \A u \in Tasks : Placed(u)
  BY TasksAssumption DEF IInv, Runs
<1>2. state[t] = (IF pc[t] = "exit" THEN "zombie" ELSE "running") /\ pc[t] # "dead"
  BY <1>1 DEF Queued, Placed
<1>3. \A u \in Tasks : pc[u] \in Active => u = t
  BY <1>1 DEF Placed
<1>4. t \notin Range(tasks) \cup InFlight /\ t \notin Range(cleanup)
  BY <1>1, <1>2 DEF Queued
<1>5. t \notin Range(sleepers) /\ t \notin Range(waking) /\ ~(Joining(t) /\ pc[t] = "join_wait")
  BY <1>1, <1>2, <1>4 DEF Waits, Leaving
<1>6. pc[t] # "added" => \A x \in Tasks : t \notin Range(joiners[x])
  BY <1>1, <1>5 DEF Waits, Joining
<1>7. pc[t] # "exit" => waking = << >>
  BY <1>1 DEF Sections
<1>8. QED
  BY <1>1, <1>2, <1>3, <1>4, <1>5, <1>6, <1>7


-----------------------------------------------------------------------------
(* References.                                                             *)

\* A search that hits has one more holder of its target, which exists.
LEMMA Acquired ==
  ASSUME IInv, NEW t \in Tasks, Runs(t), pc[t] = "find", task_acquire(t, target[t]),
         UNCHANGED <<state, target>>
  PROVE  \A u \in Tasks : Counted(u)'
<1> DEFINE x == target[t]
<1>1. TypeOK /\ x \in Tasks /\ \A u \in Tasks : Counted(u)
  BY DEF IInv, TypeOK
<1>2. SUFFICES ASSUME NEW u \in Tasks PROVE Counted(u)'
  OBVIOUS
<1>3. IsFiniteSet(Holders(u)) /\ Cardinality(Holders(u)) \in Nat
  BY TasksAssumption, FS_Subset, FS_CardinalityType DEF Holders
<1>4. CASE refcount[x] = 0
  <2>1. pc' = pc /\ refcount' = refcount
    BY <1>4 DEF task_acquire
  <2>2. Holders(u)' = Holders(u)
    BY <2>1 DEF Holders
  <2>3. QED
    BY <1>1, <2>1, <2>2 DEF Counted, Own
<1>5. CASE refcount[x] # 0
  <2>1. /\ refcount' = [refcount EXCEPT ![x] = refcount[x] + 1]
        /\ pc' = [pc EXCEPT ![t] = "found"]
    BY <1>5 DEF task_acquire
  <2>2. Own(u)' = Own(u)
    BY <1>1, <2>1 DEF Own, TypeOK
  <2>3. CASE u # x
    <3>1. Holders(u)' = Holders(u)
      BY <1>1, <2>1, <2>3 DEF Holders, TypeOK
    <3>2. refcount'[u] = refcount[u]
      BY <1>1, <2>1, <2>3 DEF TypeOK
    <3>3. QED
      BY <1>1, <2>2, <3>1, <3>2 DEF Counted
  <2>4. CASE u = x
    <3>1. Holders(u)' = Holders(u) \cup {t} /\ t \notin Holders(u)
      BY <1>1, <2>1, <2>4 DEF Holders, TypeOK
    <3>2. Cardinality(Holders(u)') = Cardinality(Holders(u)) + 1
      BY <1>3, <3>1, FS_AddElement
    <3>3. refcount'[u] = refcount[u] + 1
      BY <1>1, <2>1, <2>4 DEF TypeOK
    <3>4. refcount'[u] = Cardinality(Holders(u)') + Own(u)'
      BY <1>1, <1>3, <2>2, <3>2, <3>3 DEF Counted, Own
    <3>5. state[u] \notin {"unborn", "freed"}
      <4>1. Holders(u) = {} => Cardinality(Holders(u)) = 0
        BY FS_EmptySet
      <4>2. QED
        BY <1>1, <1>3, <1>5, <2>4, <4>1 DEF Counted, Own
    <3>6. QED
      BY <3>4, <3>5 DEF Counted
  <2>5. QED
    BY <2>3, <2>4
<1>6. QED
  BY <1>4, <1>5

\* A joiner that lets go of its target finds a reference to give up.
LEMMA Released ==
  ASSUME IInv, NEW t \in Tasks, pc[t] \in {"found", "added", "join_wait"},
         task_release(target[t]), pc' = [pc EXCEPT ![t] = "own"],
         UNCHANGED <<state, target>>
  PROVE  mode' # "release_dead" /\ \A u \in Tasks : Counted(u)'
<1> DEFINE x == target[t]
<1>1. TypeOK /\ x \in Tasks /\ \A u \in Tasks : Counted(u)
  BY DEF IInv, TypeOK
<1>2. ASSUME NEW u \in Tasks
      PROVE  IsFiniteSet(Holders(u)) /\ Cardinality(Holders(u)) \in Nat
  BY TasksAssumption, FS_Subset, FS_CardinalityType DEF Holders
<1>3. t \in Holders(x) /\ Cardinality(Holders(x)) # 0
  <2>1. t \in Holders(x)
    BY DEF Holders
  <2>2. QED
    BY <1>1, <1>2, <2>1, FS_EmptySet
<1>4. refcount[x] # 0
  BY <1>1, <1>2, <1>3 DEF Counted, Own
<1>5. mode' # "release_dead" /\ refcount' = [refcount EXCEPT ![x] = refcount[x] - 1]
  BY <1>1, <1>4 DEF task_release, IInv, TypeOK
<1>6. ASSUME NEW u \in Tasks PROVE Counted(u)'
  <2>1. Own(u)' = Own(u)
    BY <1>1 DEF Own, TypeOK
  <2>2. CASE u # x
    <3>1. Holders(u)' = Holders(u)
      BY <1>1, <2>2 DEF Holders, TypeOK
    <3>2. refcount'[u] = refcount[u]
      BY <1>1, <1>5, <2>2 DEF TypeOK
    <3>3. QED
      BY <1>1, <2>1, <3>1, <3>2 DEF Counted
  <2>3. CASE u = x
    <3>1. Holders(u)' = Holders(u) \ {t}
      BY <1>1, <2>3 DEF Holders, TypeOK
    <3>2. Cardinality(Holders(u)') = Cardinality(Holders(u)) - 1
      BY <1>2, <1>3, <2>3, <3>1, FS_RemoveElement
    <3>3. refcount'[u] = refcount[u] - 1
      BY <1>1, <1>5, <2>3 DEF TypeOK
    <3>4. refcount'[u] = Cardinality(Holders(u)') + Own(u)'
      BY <1>1, <1>2, <2>1, <3>2, <3>3 DEF Counted, Own
    <3>5. QED
      BY <1>1, <1>3, <2>3, <3>4 DEF Counted
  <2>4. QED
    BY <2>2, <2>3
<1>7. QED
  BY <1>5, <1>6

-----------------------------------------------------------------------------
(* Steps of the running task that touch no list.                           *)

\* Moving on inside task_spawn or task_join, the running task leaves what the
\* lists say of every task as it is.
LEMMA OwnStep ==
  ASSUME IInv, NEW t \in Tasks, Runs(t),
         pc[t] \notin {"spawn_enqueue", "added", "exit"},
         pc'[t] \in Places \ {"spawn_enqueue", "added", "exit", "dead"},
         \A u \in Tasks \ {t} : pc'[u] = pc[u] /\ target'[u] = target[u],
         target'[t] \in Tasks,
         UNCHANGED <<state, lists, current>>
  PROVE  /\ Unique'
         /\ \A u \in Tasks : Queued(u)' /\ Waits(u)' /\ ~Leaving(u)' /\ (Joining(u)' <=> Joining(u))
<1>0. /\ TypeOK /\ t # Idle /\ current = t /\ state[t] = "running" /\ pc[t] # "dead"
      /\ \A x \in Tasks : t \notin Range(joiners[x])
      /\ t \notin Range(sleepers) /\ t \notin Range(waking) /\ waking = << >>
  BY Current
<1>1. UNCHANGED <<state, tasks, cleanup, sleepers, joiners, waking, current>>
  BY DEF lists
<1>3. InFlight = {} /\ InFlight' = {}
  BY <1>0 DEF InFlight
<1>4. ASSUME NEW u \in Tasks PROVE (Joining(u)' <=> Joining(u)) /\ ~Leaving(u) /\ ~Leaving(u)'
  <2>1. ~Leaving(u) /\ ~Leaving(u)'
    BY <1>0, <1>1, <1>3 DEF Leaving, Range
  <2>2. CASE u = t
    BY <1>0, <1>1, <2>1, <2>2 DEF Joining, TypeOK
  <2>3. CASE u # t
    BY <1>1, <2>1, <2>3 DEF Joining
  <2>4. QED
    BY <2>2, <2>3
<1>5. Unique'
  BY <1>0, <1>1, <1>3 DEF IInv, Unique
<1>7. ASSUME NEW u \in Tasks PROVE Queued(u)' /\ Waits(u)'
  <2>0. Queued(u) /\ Waits(u)
    BY DEF IInv
  <2>1. Queued(u)'
    BY <1>0, <1>1, <1>3, <2>0 DEF Queued
  <2>2. Waits(u)'
    BY <1>0, <1>1, <1>4, <2>0 DEF Waits
  <2>3. QED
    BY <2>1, <2>2
<1>8. QED
  BY <1>4, <1>5, <1>7

\* Drawing a task identifier: its task is unborn, so nobody refers to it.
LEMMA SpawnBegin ==
  ASSUME IInv, NEW t \in Tasks, NEW n \in Tasks, NEW k \in Kinds, spawn_begin(t, n, k), TypeOK'
  PROVE  IInv'
<1>0. TypeOK /\ current = t /\ t # Idle /\ state[t] = "running" /\ waking = << >>
  BY Current DEF spawn_begin
<1>1. UNCHANGED <<state, refcount, lists, current, mode>> /\ state[n] = "unborn" /\ inside' = "heap"
  BY DEF spawn_begin
<1>2. \A u \in Tasks : /\ pc'[u] = IF u = t THEN "spawn_init" ELSE pc[u]
                       /\ target'[u] = IF u = t THEN n ELSE target[u]
  BY <1>0 DEF spawn_begin, TypeOK
<1>3. Unique' /\ \A u \in Tasks : Queued(u)' /\ Waits(u)' /\ (Joining(u)' <=> Joining(u))
  BY <1>1, <1>2, OwnStep DEF spawn_begin, Places
<1>4. Sections'
  BY <1>0, <1>1, <1>2 DEF Sections, lists
<1>5. ASSUME NEW u \in Tasks PROVE Placed(u)' /\ Counted(u)'
  <2>0. Placed(u) /\ Counted(u)
    BY DEF IInv
  <2>1. Placed(u)'
    BY <1>0, <1>1, <1>2, <1>3, <2>0 DEF Placed, Active
  <2>2. Holders(u)' = Holders(u)
    BY <1>2 DEF Holders, spawn_begin
  <2>3. Counted(u)'
    BY <1>0, <1>1, <1>2, <2>0, <2>2 DEF Counted, Own, spawn_begin
  <2>4. QED
    BY <2>1, <2>3
<1>6. QED
  BY <1>1, <1>3, <1>4, <1>5 DEF IInv

\* A search starts.
LEMMA JoinBegin ==
  ASSUME IInv, NEW t \in Tasks, NEW x \in Tasks, join_begin(t, x), TypeOK'
  PROVE  IInv'
<1>0. TypeOK /\ current = t /\ t # Idle /\ state[t] = "running" /\ waking = << >>
  BY Current DEF join_begin
<1>1. UNCHANGED <<state, refcount, lists, current, mode>> /\ inside' = "tasks"
  BY DEF join_begin
<1>2. \A u \in Tasks : /\ pc'[u] = IF u = t THEN "find" ELSE pc[u]
                       /\ target'[u] = IF u = t THEN x ELSE target[u]
  BY <1>0 DEF join_begin, TypeOK
<1>3. Unique' /\ \A u \in Tasks : Queued(u)' /\ Waits(u)' /\ (Joining(u)' <=> Joining(u))
  BY <1>1, <1>2, OwnStep DEF join_begin, Places
<1>4. Sections'
  BY <1>0, <1>1, <1>2 DEF Sections, lists
<1>5. ASSUME NEW u \in Tasks PROVE Placed(u)' /\ Counted(u)'
  <2>0. Placed(u) /\ Counted(u)
    BY DEF IInv
  <2>1. Placed(u)'
    BY <1>0, <1>1, <1>2, <1>3, <2>0 DEF Placed, Active
  <2>2. Holders(u)' = Holders(u)
    BY <1>2 DEF Holders, join_begin
  <2>3. Counted(u)'
    BY <1>0, <1>1, <1>2, <2>0, <2>2 DEF Counted, Own, join_begin
  <2>4. QED
    BY <2>1, <2>3
<1>6. QED
  BY <1>1, <1>3, <1>4, <1>5 DEF IInv

\* A hit of either search: the target is ready, has exited, or is the searcher.
LEMMA SearchHits ==
  ASSUME IInv, NEW t \in Tasks, Runs(t), pc[t] = "find", task_acquire(t, target[t]),
         UNCHANGED <<state, kind, target, lists, current, woken>>, TypeOK',
         target[t] = t \/ state[target[t]] \in {"ready", "zombie"}
  PROVE  IInv'
<1>0. TypeOK /\ current = t /\ t # Idle /\ state[t] = "running" /\ waking = << >> /\ mode = "ok"
  BY Current DEF Runs
<1>1. CASE refcount[target[t]] = 0
  <2>1. UNCHANGED <<refcount, pc, inside>> /\ mode' = "acquire_dead"
    BY <1>1 DEF task_acquire
  <2>2. Unique' /\ \A u \in Tasks : Queued(u)' /\ Waits(u)' /\ (Joining(u)' <=> Joining(u))
    BY <2>1, OwnStep DEF TypeOK, Places
  <2>3. Sections' /\ \A u \in Tasks : Counted(u)'
    BY <2>1, Acquired DEF Sections, lists, IInv
  <2>4. ASSUME NEW u \in Tasks PROVE Placed(u)'
    BY <2>1, <2>2 DEF Placed, IInv
  <2>5. QED
    BY <2>1, <2>2, <2>3, <2>4 DEF IInv
<1>2. CASE refcount[target[t]] # 0
  <2>1. inside' = "none" /\ mode' = "ok" /\ \A u \in Tasks : pc'[u] = IF u = t THEN "found" ELSE pc[u]
    BY <1>0, <1>2 DEF task_acquire, TypeOK
  <2>2. Unique' /\ \A u \in Tasks : Queued(u)' /\ Waits(u)' /\ (Joining(u)' <=> Joining(u))
    BY <1>0, <2>1, OwnStep DEF TypeOK, Places
  <2>3. Sections' /\ \A u \in Tasks : Counted(u)'
    BY <1>0, <2>1, Acquired DEF Sections, lists
  <2>4. ASSUME NEW u \in Tasks PROVE Placed(u)'
    <3>1. Placed(u)
      BY DEF IInv
    <3>2. QED
      BY <1>0, <2>1, <2>2, <3>1 DEF Placed, Active
  <2>5. QED
    BY <2>1, <2>2, <2>3, <2>4 DEF IInv
<1>3. QED
  BY <1>1, <1>2

\* A search that goes on to the next list, or fails.
LEMMA SearchMisses ==
  ASSUME IInv, NEW t \in Tasks, Runs(t), pc[t] = "find", mode' # "release_dead",
         UNCHANGED <<state, kind, refcount, pc, target, lists, current, woken>>, TypeOK'
  PROVE  IInv'
<1>0. TypeOK /\ current = t /\ t # Idle
  BY Current
<1>1. Unique' /\ \A u \in Tasks : Queued(u)' /\ Waits(u)' /\ (Joining(u)' <=> Joining(u))
  BY <1>0, OwnStep DEF TypeOK, Places
<1>2. Sections'
  BY <1>0 DEF Sections, lists, IInv
<1>3. ASSUME NEW u \in Tasks PROVE Placed(u)' /\ Counted(u)'
  <2>1. Placed(u)'
    BY <1>1 DEF Placed, IInv
  <2>2. Holders(u)' = Holders(u)
    BY DEF Holders
  <2>3. QED
    BY <2>1, <2>2 DEF Counted, Own, IInv
<1>4. QED
  BY <1>1, <1>2, <1>3 DEF IInv

\* A hit on the run queue is a ready task.
LEMMA FindInTasks ==
  ASSUME IInv, NEW t \in Tasks, find_in_tasks(t), TypeOK'
  PROVE  IInv'
<1>1. CASE runqueue_has(tasks, target[t])
  <2>1. state[target[t]] = "ready"
    BY <1>1 DEF runqueue_has, IInv, Queued, TypeOK
  <2>2. QED
    BY <1>1, <2>1, SearchHits DEF find_in_tasks
<1>2. CASE ~runqueue_has(tasks, target[t])
  BY <1>2, SearchMisses DEF find_in_tasks, IInv
<1>3. QED
  BY <1>1, <1>2

\* A hit on the cleanup list is a zombie, and the last test finds the searcher.
LEMMA FindInCleanup ==
  ASSUME IInv, NEW t \in Tasks, find_in_cleanup(t), TypeOK'
  PROVE  IInv'
<1>1. CASE task_acquire(t, target[t]) /\ (runqueue_has(cleanup, target[t]) \/ target[t] = t)
  <2>1. target[t] = t \/ state[target[t]] = "zombie"
    BY <1>1 DEF runqueue_has, IInv, Queued, TypeOK
  <2>2. QED
    BY <1>1, <2>1, SearchHits DEF find_in_cleanup
<1>2. CASE mode' = "null_target" /\ UNCHANGED <<refcount, pc, inside>>
  BY <1>2, SearchMisses DEF find_in_cleanup
<1>3. QED
  BY <1>1, <1>2 DEF find_in_cleanup

\* A joiner that runs again lets its target go.
LEMMA JoinReturn ==
  ASSUME IInv, NEW t \in Tasks, join_return(t), TypeOK'
  PROVE  IInv'
<1>0. TypeOK /\ current = t /\ t # Idle /\ state[t] = "running" /\ waking = << >> /\ inside = "none"
  BY Current DEF join_return, IInv, Sections
<1>1. UNCHANGED <<state, target, lists, current, inside>>
  BY DEF join_return
<1>2. \A u \in Tasks : pc'[u] = IF u = t THEN "own" ELSE pc[u]
  BY <1>0 DEF join_return, TypeOK
<1>3. Unique' /\ \A u \in Tasks : Queued(u)' /\ Waits(u)' /\ (Joining(u)' <=> Joining(u))
  BY <1>0, <1>1, <1>2, OwnStep DEF join_return, Places, TypeOK
<1>4. Sections'
  BY <1>0, <1>1, <1>2 DEF Sections, lists
<1>5. mode' # "release_dead" /\ \A u \in Tasks : Counted(u)'
  BY <1>1, Released DEF join_return
<1>6. ASSUME NEW u \in Tasks PROVE Placed(u)'
  BY <1>0, <1>1, <1>2, <1>3 DEF Placed, Active, IInv
<1>7. QED
  BY <1>3, <1>4, <1>5, <1>6 DEF IInv

\* Only a target that has not exited gets the joiner on its list.
LEMMA JoinCheck ==
  ASSUME IInv, NEW t \in Tasks, join_check(t), TypeOK'
  PROVE  IInv'
<1> DEFINE x == target[t]
<1>0. /\ TypeOK /\ current = t /\ t # Idle /\ state[t] = "running" /\ waking = << >>
      /\ x \in Tasks /\ inside = "none" /\ pc[t] = "found"
      /\ t \notin Range(sleepers) /\ \A y \in Tasks : t \notin Range(joiners[y])
  BY Current DEF join_check, IInv, Sections, TypeOK
<1>1. UNCHANGED <<state, kind, target, tasks, cleanup, sleepers, left, waking, current, woken, inside>>
  BY DEF join_check
<1>2. CASE mode' = "detached" /\ UNCHANGED <<refcount, pc, joiners>>
  <2>1. Unique' /\ \A u \in Tasks : Queued(u)' /\ Waits(u)' /\ (Joining(u)' <=> Joining(u))
    BY <1>0, <1>1, <1>2, OwnStep DEF join_check, TypeOK, Places, lists
  <2>2. Sections'
    BY <1>0, <1>1, <1>2 DEF Sections
  <2>3. ASSUME NEW u \in Tasks PROVE Placed(u)' /\ Counted(u)'
    <3>1. Placed(u)'
      BY <1>1, <1>2, <2>1 DEF Placed, IInv
    <3>2. Holders(u)' = Holders(u)
      BY <1>1, <1>2 DEF Holders
    <3>3. QED
      BY <1>1, <1>2, <3>1, <3>2 DEF Counted, Own, IInv
  <2>4. QED
    BY <1>2, <2>1, <2>2, <2>3 DEF IInv
<1>3. CASE task_release(x) /\ pc' = [pc EXCEPT ![t] = "own"] /\ UNCHANGED joiners
  <2>1. \A u \in Tasks : pc'[u] = IF u = t THEN "own" ELSE pc[u]
    BY <1>0, <1>3 DEF TypeOK
  <2>2. Unique' /\ \A u \in Tasks : Queued(u)' /\ Waits(u)' /\ (Joining(u)' <=> Joining(u))
    <3>1. Runs(t) /\ target'[t] \in Tasks /\ UNCHANGED <<state, lists, current>>
      BY <1>0, <1>1, <1>3 DEF join_check, lists
    <3>2. \A u \in Tasks \ {t} : pc'[u] = pc[u] /\ target'[u] = target[u]
      BY <1>1, <2>1
    <3>3. QED
      BY <1>0, <2>1, <3>1, <3>2, OwnStep DEF Places
  <2>3. Sections'
    BY <1>0, <1>1, <2>1 DEF Sections
  <2>4. mode' # "release_dead" /\ \A u \in Tasks : Counted(u)'
    BY <1>0, <1>1, <1>3, Released
  <2>5. ASSUME NEW u \in Tasks PROVE Placed(u)'
    BY <1>0, <1>1, <2>1, <2>2 DEF Placed, Active, IInv
  <2>6. QED
    BY <2>2, <2>3, <2>4, <2>5 DEF IInv
<1>4. CASE /\ state[x] # "zombie"
           /\ joiners' = [joiners EXCEPT ![x] = Append(@, t)]
           /\ pc' = [pc EXCEPT ![t] = "added"]
           /\ UNCHANGED <<refcount, mode>>
  <2>0. x = t \/ state[x] = "ready"
    BY <1>0, <1>4 DEF IInv, Placed
  <2>1. \A u \in Tasks : pc'[u] = IF u = t THEN "added" ELSE pc[u]
    BY <1>0, <1>4 DEF TypeOK
  <2>2. /\ joiners[x] \in Seq(Tasks) /\ IsInjective(joiners[x]) /\ t \notin Range(joiners[x])
    BY <1>0 DEF TypeOK, IInv, Unique
  <2>3. Range(Append(joiners[x], t)) = Range(joiners[x]) \cup {t} /\ IsInjective(Append(joiners[x], t))
    BY <2>2, AppendItem
  <2>4. \A y \in Tasks : Range(joiners'[y]) = IF y = x THEN Range(joiners[y]) \cup {t} ELSE Range(joiners[y])
    BY <1>0, <1>4, <2>3 DEF TypeOK
  <2>5. InFlight = {} /\ InFlight' = {}
    BY <1>0, <1>1, <2>1 DEF InFlight
  <2>6. Unique'
    BY <1>0, <1>1, <1>4, <2>3, <2>5 DEF IInv, Unique, TypeOK
  <2>7. Sections'
    BY <1>0, <1>1, <2>1 DEF Sections
  <2>8. ASSUME NEW u \in Tasks
        PROVE  ~Leaving(u) /\ ~Leaving(u)' /\ (Joining(u)' <=> Joining(u) \/ u = t)
    <3>1. ~Leaving(u) /\ ~Leaving(u)'
      BY <1>0, <1>1, <2>5 DEF Leaving, Range
    <3>2. target[u] \in Tasks
      BY <1>0 DEF TypeOK
    <3>3. u \in Range(joiners[x]) => x = target[u]
      BY <1>0 DEF IInv, Waits
    <3>4. QED
      BY <1>0, <1>1, <2>4, <3>1, <3>2, <3>3 DEF Joining
  <2>9. ASSUME NEW u \in Tasks PROVE Queued(u)' /\ Waits(u)' /\ Placed(u)' /\ Counted(u)'
    <3>0. Queued(u) /\ Waits(u) /\ Placed(u) /\ Counted(u)
      BY DEF IInv
    <3>1. Queued(u)'
      BY <1>0, <1>1, <2>1, <2>5, <3>0 DEF Queued
    <3>2. Waits(u)'
      BY <1>0, <1>1, <2>0, <2>1, <2>4, <2>8, <3>0 DEF Waits
    <3>3. Placed(u)'
      BY <1>0, <1>1, <2>0, <2>1, <2>8, <3>0 DEF Placed, Active
    <3>4. Holders(u)' = Holders(u)
      BY <1>0, <1>1, <2>1 DEF Holders
    <3>5. Counted(u)'
      BY <1>0, <1>1, <1>4, <2>1, <3>0, <3>4 DEF Counted, Own
    <3>6. QED
      BY <3>1, <3>2, <3>3, <3>5
  <2>10. QED
    BY <1>4, <2>6, <2>7, <2>9 DEF IInv
<1>5. QED
  BY <1>2, <1>3, <1>4 DEF join_check

\* A step that leaves the tasks and the lists alone keeps the invariant.
LEMMA Frozen ==
  ASSUME IInv, TypeOK', mode' # "release_dead",
         UNCHANGED <<state, refcount, pc, target, lists, current, inside>>
  PROVE  IInv'
<1>1. UNCHANGED <<tasks, cleanup, sleepers, joiners, waking>>
  BY DEF lists
<1>2. InFlight' = InFlight
  BY <1>1 DEF InFlight
<1>3. Unique' /\ Sections'
  BY <1>1, <1>2 DEF IInv, Unique, Sections
<1>4. ASSUME NEW u \in Tasks PROVE Queued(u)' /\ Waits(u)' /\ Placed(u)' /\ Counted(u)'
  <2>1. (Joining(u)' <=> Joining(u)) /\ (Leaving(u)' <=> Leaving(u)) /\ Holders(u)' = Holders(u)
    BY <1>1, <1>2 DEF Joining, Leaving, Holders
  <2>2. QED
    BY <1>1, <1>2, <2>1 DEF IInv, Queued, Waits, Placed, Counted, Own
<1>5. QED
  BY <1>3, <1>4 DEF IInv

\* The timer that spins changes nothing.
LEMMA TickHangs ==
  ASSUME IInv, tick_hangs, TypeOK'
  PROVE  IInv'
  BY Frozen DEF tick_hangs

-----------------------------------------------------------------------------
(* Spawning.                                                               *)

\* The new task is in flight: ready, and not yet on the run queue.
LEMMA SpawnInit ==
  ASSUME IInv, NEW t \in Tasks, spawn_init(t), TypeOK'
  PROVE  IInv'
<1> DEFINE n == target[t]
<1>0. /\ TypeOK /\ current = t /\ t # Idle /\ state[t] = "running" /\ waking = << >>
      /\ n \in Tasks /\ pc[t] = "spawn_init" /\ state[n] = "unborn" /\ n # t
      /\ \A u \in Tasks : pc[u] \in Active => u = t
  BY Current DEF spawn_init, IInv, Placed, TypeOK
<1>1. UNCHANGED <<kind, target, tasks, cleanup, sleepers, joiners, waking, current, mode>> /\ inside' = "tasks"
  BY DEF spawn_init, lists
<1>2. \A u \in Tasks : /\ pc'[u] = IF u = t THEN "spawn_enqueue" ELSE pc[u]
                       /\ state'[u] = IF u = n THEN "ready" ELSE state[u]
                       /\ refcount'[u] = IF u = n THEN 1 ELSE refcount[u]
  BY <1>0 DEF spawn_init, TypeOK
<1>3. InFlight = {} /\ InFlight' = {n}
  BY <1>0, <1>1, <1>2 DEF InFlight
<1>4. n \notin Range(tasks) /\ n \notin Range(cleanup) /\ n \notin Range(sleepers) /\ pc[n] = "own"
  BY <1>0 DEF IInv, Queued, Waits, Placed
<1>5. Unique'
  BY <1>1, <1>3, <1>4 DEF IInv, Unique
<1>6. Sections'
  BY <1>0, <1>1, <1>2 DEF Sections
<1>7. Holders(n) = {}
  BY <1>0 DEF IInv, Counted
<1>8. ASSUME NEW u \in Tasks PROVE Queued(u)' /\ Waits(u)' /\ Placed(u)' /\ Counted(u)'
  <2>0. Queued(u) /\ Waits(u) /\ Placed(u) /\ Counted(u)
    BY DEF IInv
  <2>1. (Joining(u)' <=> Joining(u)) /\ ~Leaving(u)' /\ ~Leaving(u)
    BY <1>0, <1>1 DEF Joining, Leaving, Range
  <2>2. Queued(u)'
    BY <1>0, <1>1, <1>2, <1>3, <1>4, <2>0 DEF Queued
  <2>3. Waits(u)'
    BY <1>0, <1>1, <1>2, <1>4, <2>0, <2>1 DEF Waits, TypeOK
  <2>4. Placed(u)'
    BY <1>0, <1>1, <1>2, <1>4, <2>0, <2>1 DEF Placed, Active
  <2>5. Holders(u)' = Holders(u)
    BY <1>0, <1>1, <1>2 DEF Holders
  <2>6. Counted(u)'
    <3>1. CASE u = n
      <4>1. Holders(u)' = {} /\ Cardinality(Holders(u)') = 0
        BY <1>7, <2>5, <3>1, FS_EmptySet
      <4>2. Own(u)' = 1 /\ refcount'[u] = 1 /\ state'[u] = "ready"
        BY <1>0, <1>2, <1>4, <3>1 DEF Own
      <4>3. QED
        BY <4>1, <4>2 DEF Counted
    <3>2. CASE u # n
      BY <1>0, <1>2, <2>0, <2>5, <3>2 DEF Counted, Own
    <3>3. QED
      BY <3>1, <3>2
  <2>7. QED
    BY <2>2, <2>3, <2>4, <2>6
<1>9. QED
  BY <1>1, <1>5, <1>6, <1>8 DEF IInv

\* The new task lands on the run queue.
LEMMA SpawnEnqueue ==
  ASSUME IInv, NEW t \in Tasks, spawn_enqueue(t), TypeOK'
  PROVE  IInv'
<1> DEFINE n == target[t]
<1>0. /\ TypeOK /\ current = t /\ t # Idle /\ state[t] = "running" /\ waking = << >>
      /\ n \in Tasks /\ pc[t] = "spawn_enqueue"
  BY Current DEF spawn_enqueue, TypeOK
<1>1. UNCHANGED <<state, refcount, target, cleanup, sleepers, joiners, waking, current, mode>> /\ inside' = "none"
  BY DEF spawn_enqueue
<1>2. \A u \in Tasks : pc'[u] = IF u = t THEN "own" ELSE pc[u]
  BY <1>0 DEF spawn_enqueue, TypeOK
<1>3. InFlight = {n} /\ InFlight' = {}
  BY <1>0, <1>1, <1>2 DEF InFlight
<1>4. Range(tasks') = Range(tasks) \cup {n} /\ IsInjective(tasks')
  BY <1>0, <1>3, AppendItem DEF spawn_enqueue, runqueue_enqueue, IInv, Unique, TypeOK
<1>5. Unique'
  BY <1>1, <1>3, <1>4 DEF IInv, Unique
<1>6. Sections'
  BY <1>0, <1>1, <1>2 DEF Sections
<1>7. ASSUME NEW u \in Tasks PROVE Queued(u)' /\ Waits(u)' /\ Placed(u)' /\ Counted(u)'
  <2>0. Queued(u) /\ Waits(u) /\ Placed(u) /\ Counted(u)
    BY DEF IInv
  <2>1. (Joining(u)' <=> Joining(u)) /\ ~Leaving(u)' /\ ~Leaving(u)
    BY <1>0, <1>1 DEF Joining, Leaving, Range
  <2>2. Queued(u)'
    BY <1>0, <1>1, <1>2, <1>3, <1>4, <2>0 DEF Queued
  <2>3. Waits(u)'
    BY <1>0, <1>1, <1>2, <2>0, <2>1 DEF Waits
  <2>4. Placed(u)'
    BY <1>0, <1>1, <1>2, <2>0, <2>1 DEF Placed, Active
  <2>5. Holders(u)' = Holders(u)
    BY <1>0, <1>1, <1>2 DEF Holders
  <2>6. Counted(u)'
    BY <1>0, <1>1, <1>2, <2>0, <2>5 DEF Counted, Own
  <2>7. QED
    BY <2>2, <2>3, <2>4, <2>6
<1>8. QED
  BY <1>1, <1>5, <1>6, <1>7 DEF IInv

-----------------------------------------------------------------------------
(* Exiting.                                                                *)

\* The joiners of the exiting task are all blocked in their join, and move to
\* the list it is about to walk.
LEMMA ExitBegin ==
  ASSUME IInv, NEW t \in Tasks, exit_begin(t), TypeOK'
  PROVE  IInv'
<1>0. /\ TypeOK /\ current = t /\ t # Idle /\ state[t] = "running" /\ waking = << >>
      /\ pc[t] = "own" /\ inside = "none"
      /\ t \notin Range(tasks) /\ t \notin Range(cleanup) /\ t \notin Range(sleepers)
      /\ \A x \in Tasks : t \notin Range(joiners[x])
      /\ \A u \in Tasks : pc[u] \in Active => u = t
  BY Current DEF exit_begin, IInv, Sections
<1>1. /\ UNCHANGED <<refcount, target, tasks, cleanup, sleepers, current, inside, mode>>
      /\ waking' = joiners[t]
  BY DEF exit_begin
<1>2. \A u \in Tasks : /\ pc'[u] = IF u = t THEN "exit" ELSE pc[u]
                       /\ state'[u] = IF u = t THEN "zombie" ELSE state[u]
                       /\ joiners'[u] = IF u = t THEN << >> ELSE joiners[u]
  BY <1>0 DEF exit_begin, TypeOK
<1>3. InFlight = {} /\ InFlight' = {}
  BY <1>0, <1>1, <1>2 DEF InFlight
<1>4. \A u \in Tasks : u \in Range(joiners[t]) => target[u] = t /\ pc[u] = "join_wait" /\ u # t
  BY <1>0 DEF IInv, Waits, Joining, Active
<1>5. ASSUME NEW u \in Tasks
      PROVE  /\ Leaving(u)' <=> Joining(u) /\ target[u] = t
             /\ Joining(u)' <=> Joining(u) /\ target[u] # t
             /\ ~Leaving(u)
             /\ \A x \in Tasks : u \in Range(joiners'[x]) => u \in Range(joiners[x])
  <2>1. Range(<< >>) = {}
    BY DEF Range
  <2>2. target[u] \in Tasks
    BY <1>0 DEF TypeOK
  <2>3. QED
    BY <1>0, <1>1, <1>2, <1>3, <1>4, <2>1, <2>2 DEF Joining, Leaving
<1>6. Unique'
  <2>1. IsInjective(<< >>)
    BY DEF IsInjective
  <2>2. QED
    BY <1>1, <1>2, <1>3, <2>1 DEF IInv, Unique
<1>7. Sections'
  BY <1>0, <1>1, <1>2 DEF Sections
<1>8. ASSUME NEW u \in Tasks PROVE Queued(u)' /\ Waits(u)' /\ Placed(u)' /\ Counted(u)'
  <2>0. Queued(u) /\ Waits(u) /\ Placed(u) /\ Counted(u)
    BY DEF IInv
  <2>2. Queued(u)'
    BY <1>0, <1>1, <1>2, <1>3, <2>0 DEF Queued
  <2>3. Waits(u)'
    <3>1. CASE u = t
      BY <1>0, <1>1, <1>2, <1>5, <2>0, <3>1 DEF Waits, Joining, TypeOK
    <3>2. CASE u # t
      <4>1. pc[u] # "added" /\ target[u] \in Tasks
        BY <1>0, <3>2 DEF Active, TypeOK
      <4>2. QED
        BY <1>0, <1>1, <1>2, <1>5, <2>0, <3>2, <4>1 DEF Waits
    <3>3. QED
      BY <3>1, <3>2
  <2>4. Placed(u)'
    BY <1>0, <1>1, <1>2, <2>0 DEF Placed, Active
  <2>5. Holders(u)' = Holders(u)
    BY <1>0, <1>1, <1>2 DEF Holders
  <2>6. Counted(u)'
    BY <1>0, <1>1, <1>2, <2>0, <2>5 DEF Counted, Own
  <2>7. QED
    BY <2>2, <2>3, <2>4, <2>6
<1>9. QED
  BY <1>1, <1>6, <1>7, <1>8, <1>0 DEF IInv

\* A joiner is in flight from the moment it is made ready ...
LEMMA WakeReady ==
  ASSUME IInv, NEW t \in Tasks, wake_ready(t), TypeOK'
  PROVE  IInv'
<1> DEFINE h == Head(waking)
<1>0. /\ TypeOK /\ current = t /\ t # Idle /\ state[t] = "zombie" /\ pc[t] = "exit"
      /\ waking # << >> /\ inside = "none" /\ t \notin Range(waking)
      /\ \A u \in Tasks : pc[u] \in Active => u = t
  BY Current DEF wake_ready
<1>1. h \in Tasks /\ h \in Range(waking) /\ h # t
  <2>1. h \in Tasks /\ Range(waking) = Range(Tail(waking)) \cup {h}
    BY <1>0, TakeItem DEF TypeOK
  <2>2. QED
    BY <1>0, <2>1
<1>2. /\ UNCHANGED <<refcount, pc, target, tasks, cleanup, sleepers, joiners, waking, current, mode>>
      /\ inside' = "tasks"
  BY DEF wake_ready, lists
<1>3. \A u \in Tasks : state'[u] = IF u = h THEN "ready" ELSE state[u]
  BY <1>0 DEF wake_ready, TypeOK
<1>4. InFlight = {} /\ InFlight' = {h}
  BY <1>0, <1>1, <1>2 DEF InFlight
<1>5. /\ state[h] = "blocked" /\ pc[h] = "join_wait" /\ h \notin Range(sleepers) /\ ~Joining(h)
      /\ h \notin Range(tasks) /\ h \notin Range(cleanup)
  BY <1>1, <1>4 DEF IInv, Waits, Queued, Leaving
<1>6. ASSUME NEW u \in Tasks
      PROVE  (Leaving(u)' <=> Leaving(u) /\ u # h) /\ (Joining(u)' <=> Joining(u))
  BY <1>2, <1>4 DEF Leaving, Joining
<1>7. Unique'
  BY <1>2, <1>4, <1>5 DEF IInv, Unique
<1>8. Sections'
  BY <1>0, <1>2 DEF Sections, IInv
<1>9. ASSUME NEW u \in Tasks PROVE Queued(u)' /\ Waits(u)' /\ Placed(u)' /\ Counted(u)'
  <2>0. Queued(u) /\ Waits(u) /\ Placed(u) /\ Counted(u)
    BY DEF IInv
  <2>2. Queued(u)'
    BY <1>0, <1>1, <1>2, <1>3, <1>4, <1>5, <2>0 DEF Queued
  <2>3. Waits(u)'
    BY <1>0, <1>2, <1>3, <1>5, <1>6, <2>0 DEF Waits, TypeOK
  <2>4. Placed(u)'
    BY <1>0, <1>1, <1>2, <1>3, <1>5, <1>6, <2>0 DEF Placed, Active
  <2>5. Holders(u)' = Holders(u)
    BY <1>2 DEF Holders
  <2>6. Counted(u)'
    BY <1>2, <1>3, <1>5, <2>0, <2>5 DEF Counted, Own
  <2>7. QED
    BY <2>2, <2>3, <2>4, <2>6
<1>10. QED
  BY <1>2, <1>7, <1>8, <1>9 DEF IInv

\* ... until it is on the run queue.
LEMMA WakeEnqueue ==
  ASSUME IInv, NEW t \in Tasks, wake_enqueue(t), TypeOK'
  PROVE  IInv'
<1> DEFINE h == Head(waking)
<1>0. /\ TypeOK /\ current = t /\ t # Idle /\ pc[t] = "exit"
      /\ waking # << >> /\ inside = "tasks"
  BY Current DEF wake_enqueue
<1>1. /\ h \in Tasks /\ IsInjective(Tail(waking)) /\ Range(waking) = Range(Tail(waking)) \cup {h}
      /\ h \notin Range(Tail(waking))
  BY <1>0, TakeItem DEF TypeOK, IInv, Unique
<1>2. /\ UNCHANGED <<state, refcount, pc, target, cleanup, sleepers, joiners, current, mode>>
      /\ inside' = "none" /\ waking' = Tail(waking)
  BY DEF wake_enqueue
<1>3. InFlight = {h} /\ InFlight' = {}
  BY <1>0, <1>1, <1>2 DEF InFlight
<1>4. Range(tasks') = Range(tasks) \cup {h} /\ IsInjective(tasks')
  BY <1>0, <1>1, <1>3, AppendItem DEF wake_enqueue, runqueue_enqueue, IInv, Unique, TypeOK
<1>5. ASSUME NEW u \in Tasks
      PROVE  (Leaving(u)' <=> Leaving(u)) /\ (Joining(u)' <=> Joining(u))
  BY <1>1, <1>2, <1>3 DEF Leaving, Joining
<1>6. Unique'
  BY <1>1, <1>2, <1>3, <1>4 DEF IInv, Unique
<1>7. Sections'
  BY <1>0, <1>2 DEF Sections
<1>8. ASSUME NEW u \in Tasks PROVE Queued(u)' /\ Waits(u)' /\ Placed(u)' /\ Counted(u)'
  <2>0. Queued(u) /\ Waits(u) /\ Placed(u) /\ Counted(u)
    BY DEF IInv
  <2>2. Queued(u)'
    BY <1>2, <1>3, <1>4, <2>0 DEF Queued
  <2>3. Waits(u)'
    BY <1>2, <1>5, <2>0 DEF Waits
  <2>4. Placed(u)'
    BY <1>2, <1>5, <2>0 DEF Placed
  <2>5. Holders(u)' = Holders(u)
    BY <1>2 DEF Holders
  <2>6. Counted(u)'
    BY <1>2, <2>0, <2>5 DEF Counted, Own
  <2>7. QED
    BY <2>2, <2>3, <2>4, <2>6
<1>9. QED
  BY <1>2, <1>6, <1>7, <1>8 DEF IInv

-----------------------------------------------------------------------------
(* Leaving the processor.                                                  *)

\* What the caller of scheduler_yield has arranged for task u, with the states
\* st and the run queue q: nobody runs or is in the middle of an operation, and
\* u's state, its place and the list it is on agree.
Parked(st, q, u) ==
  /\ st[u] # "running"
  /\ st[u] = "ready" <=> u \in Range(q)
  /\ u \in Range(cleanup') <=> st[u] = "zombie"
  /\ st[u] = "blocked" <=> u \in Range(sleepers') \/ Joining(u)'
  /\ u \in Range(sleepers') => ~Joining(u)' /\ pc'[u] = "own"
  /\ Joining(u)' => pc'[u] = "join_wait" /\ st[target'[u]] \notin {"unborn", "zombie", "freed"}
  /\ \A x \in Tasks : u \in Range(joiners'[x]) => x = target'[u]
  /\ pc'[u] \in {"own", "join_wait", "dead"}
  /\ st[u] \in {"zombie", "freed"} <=> pc'[u] = "dead"
  /\ st[u] = "unborn" => pc'[u] = "own"

\* scheduler_yield takes the first task of the queue, if there is one.
LEMMA YieldTakes ==
  ASSUME TypeOK, NEW st \in [Tasks -> States], NEW q \in Seq(Tasks),
         \A u \in Tasks : st[u] # "running",
         IsInjective(q), scheduler_yield(st, q)
  PROVE  /\ IsInjective(tasks')
         /\ \/ Range(q) = {} /\ current' = Idle /\ state' = st /\ Range(tasks') = {}
            \/ /\ current' \in Range(q) /\ current' \in Tasks
               /\ \A u \in Tasks : state'[u] = IF u = current' THEN "running" ELSE st[u]
               /\ Range(tasks') = Range(q) \ {current'}
<1>1. \/ q = << >> /\ current' = Idle /\ state' = st /\ tasks' = q
      \/ /\ q # << >> /\ current' = Head(q)
         /\ state' = [st EXCEPT ![Head(q)] = "running"]
         /\ tasks' = Tail(q)
  BY DEF scheduler_yield, TypeOK
<1>2. CASE q = << >>
  BY <1>1, <1>2 DEF Range
<1>3. CASE q # << >>
  <2>1. /\ Head(q) \in Tasks /\ Range(q) = Range(Tail(q)) \cup {Head(q)}
        /\ Head(q) \notin Range(Tail(q)) /\ IsInjective(Tail(q))
    BY <1>3, TakeItem
  <2>2. QED
    BY <1>1, <1>3, <2>1
<1>4. QED
  BY <1>2, <1>3

\* A yield after which the lists are right leaves everything else right.
LEMMA Yields ==
  ASSUME TypeOK, NEW st \in [Tasks -> States], NEW q \in Seq(Tasks), scheduler_yield(st, q),
         IsInjective(q), IsInjective(cleanup'), IsInjective(sleepers'),
         \A x \in Tasks : IsInjective(joiners'[x]),
         waking' = << >>, inside' = "none", target' \in [Tasks -> Tasks],
         \A u \in Tasks : Parked(st, q, u)
  PROVE  /\ Unique' /\ Sections'
         /\ \A u \in Tasks : Queued(u)' /\ Waits(u)' /\ Placed(u)'
         /\ \A u \in Tasks : state'[u] \in {"unborn", "freed"} <=> st[u] \in {"unborn", "freed"}
<1>0. Idle \notin Tasks /\ Range(<< >>) = {} /\ IsInjective(<< >>)
  BY TasksAssumption DEF Range, IsInjective
<1>1. /\ IsInjective(tasks')
      /\ \/ Range(q) = {} /\ current' = Idle /\ state' = st /\ Range(tasks') = {}
         \/ /\ current' \in Range(q) /\ current' \in Tasks
            /\ \A u \in Tasks : state'[u] = IF u = current' THEN "running" ELSE st[u]
            /\ Range(tasks') = Range(q) \ {current'}
  BY YieldTakes DEF Parked
<1>2. \A u \in Tasks : current' = u => st[u] = "ready" /\ pc'[u] \in {"own", "join_wait"}
  BY <1>0, <1>1 DEF Parked
<1>3. InFlight' = {}
  BY <1>0, <1>1, <1>2 DEF InFlight
<1>4. Unique'
  BY <1>0, <1>1, <1>3 DEF Unique
<1>5. Sections'
  BY <1>0, <1>1 DEF Sections
<1>6. ASSUME NEW u \in Tasks
      PROVE  state'[u] = IF current' = u THEN "running" ELSE st[u]
  BY <1>0, <1>1
<1>7. ASSUME NEW u \in Tasks PROVE Queued(u)' /\ Waits(u)' /\ Placed(u)'
  <2>0. Parked(st, q, u) /\ ~Leaving(u)'
    BY <1>0 DEF Leaving
  <2>1. u \in Range(tasks') <=> u \in Range(q) /\ current' # u
    BY <1>0, <1>1
  <2>2. Queued(u)'
    BY <1>2, <1>3, <1>6, <2>0, <2>1 DEF Queued, Parked
  <2>3. Waits(u)'
    <3>1. target'[u] \in Tasks
      OBVIOUS
    <3>2. QED
      BY <1>2, <1>6, <2>0, <3>1 DEF Waits, Parked
  <2>4. Placed(u)'
    BY <1>2, <1>6, <2>0 DEF Placed, Parked, Active
  <2>5. QED
    BY <2>2, <2>3, <2>4
<1>8. QED
  BY <1>2, <1>4, <1>5, <1>6, <1>7

\* The sleeper is blocked and on the sleeper list before anybody else runs.
LEMMA TaskSleep ==
  ASSUME IInv, NEW t \in Tasks, NEW d \in Delays, task_sleep(t, d), TypeOK'
  PROVE  IInv'
<1> DEFINE st == [state EXCEPT ![t] = "blocked"]
<1>0. /\ TypeOK /\ current = t /\ state[t] = "running" /\ pc[t] = "own" /\ inside = "none"
      /\ waking = << >> /\ t \notin Range(sleepers) /\ \A x \in Tasks : t \notin Range(joiners[x])
      /\ t \notin Range(tasks) /\ t \notin Range(cleanup)
      /\ \A u \in Tasks : pc[u] \in Active => u = t
  BY Current DEF task_sleep, IInv, Sections
<1>1. /\ UNCHANGED <<refcount, pc, target, cleanup, joiners, waking, inside, mode>>
      /\ sleepers' = Append(sleepers, t)
      /\ scheduler_yield(st, tasks)
  BY DEF task_sleep
<1>2. Range(sleepers') = Range(sleepers) \cup {t} /\ IsInjective(sleepers')
  BY <1>0, <1>1, AppendItem DEF TypeOK, IInv, Unique
<1>3. st \in [Tasks -> States] /\ \A u \in Tasks : st[u] = IF u = t THEN "blocked" ELSE state[u]
  BY <1>0 DEF TypeOK, States
<1> HIDE DEF st
<1>4. InFlight = {}
  BY <1>0 DEF InFlight
<1>5. ASSUME NEW u \in Tasks PROVE Parked(st, tasks, u)
  <2>0. Queued(u) /\ Waits(u) /\ Placed(u) /\ ~Leaving(u)
    BY <1>0 DEF IInv, Leaving, Range
  <2>1. (Joining(u)' <=> Joining(u)) /\ ~Joining(t) /\ pc[u] \in Places /\ target[u] \in Tasks
    BY <1>0, <1>1 DEF Joining, TypeOK
  <2>2. u # t => pc[u] \in {"own", "join_wait", "dead"}
    BY <1>0, <2>1 DEF Places, Active
  <2>3. CASE u = t
    BY <1>0, <1>1, <1>2, <1>3, <2>1, <2>3 DEF Parked
  <2>4. CASE u # t
    BY <1>0, <1>1, <1>2, <1>3, <1>4, <2>0, <2>1, <2>2, <2>4 DEF Parked, Queued, Waits, Placed
  <2>5. QED
    BY <2>3, <2>4
<1>6. /\ Unique' /\ Sections'
      /\ \A u \in Tasks : Queued(u)' /\ Waits(u)' /\ Placed(u)'
      /\ \A u \in Tasks : state'[u] \in {"unborn", "freed"} <=> st[u] \in {"unborn", "freed"}
  BY <1>0, <1>1, <1>2, <1>3, <1>5, Yields DEF IInv, Unique, TypeOK
<1>7. ASSUME NEW u \in Tasks PROVE Counted(u)'
  <2>1. Holders(u)' = Holders(u)
    BY <1>1 DEF Holders
  <2>2. Counted(u) /\ (state'[u] \in {"unborn", "freed"} <=> state[u] \in {"unborn", "freed"})
    BY <1>0, <1>3, <1>6 DEF IInv
  <2>3. QED
    BY <1>1, <2>1, <2>2 DEF Counted, Own
<1>8. QED
  BY <1>1, <1>6, <1>7 DEF IInv

\* So is the joiner on the list of its target, which has not exited meanwhile.
LEMMA JoinBlock ==
  ASSUME IInv, NEW t \in Tasks, join_block(t), TypeOK'
  PROVE  IInv'
<1> DEFINE st == [state EXCEPT ![t] = "blocked"]
<1>0. /\ TypeOK /\ current = t /\ state[t] = "running" /\ pc[t] = "added" /\ inside = "none"
      /\ waking = << >> /\ t \notin Range(sleepers)
      /\ t \notin Range(tasks) /\ t \notin Range(cleanup)
      /\ \A u \in Tasks : pc[u] \in Active => u = t
  BY Current DEF join_block, IInv, Sections
<1>a. Joining(t) /\ target[t] \in Tasks /\ state[target[t]] \notin {"unborn", "zombie", "freed"}
  BY <1>0 DEF IInv, Placed, Waits, TypeOK
<1>1. /\ UNCHANGED <<refcount, target, cleanup, sleepers, joiners, waking, inside, mode>>
      /\ pc' = [pc EXCEPT ![t] = "join_wait"]
      /\ scheduler_yield(st, tasks)
  BY <1>a DEF join_block
<1>2. \A u \in Tasks : pc'[u] = IF u = t THEN "join_wait" ELSE pc[u]
  BY <1>0, <1>1 DEF TypeOK
<1>3. st \in [Tasks -> States] /\ \A u \in Tasks : st[u] = IF u = t THEN "blocked" ELSE state[u]
  BY <1>0 DEF TypeOK, States
<1> HIDE DEF st
<1>4. InFlight = {}
  BY <1>0 DEF InFlight
<1>5. ASSUME NEW u \in Tasks PROVE Parked(st, tasks, u)
  <2>0. Queued(u) /\ Waits(u) /\ Placed(u) /\ ~Leaving(u)
    BY <1>0 DEF IInv, Leaving, Range
  <2>1. (Joining(u)' <=> Joining(u)) /\ pc[u] \in Places /\ target[u] \in Tasks
    BY <1>0, <1>1 DEF Joining, TypeOK
  <2>2. u # t => pc[u] \in {"own", "join_wait", "dead"}
    BY <1>0, <2>1 DEF Places, Active
  <2>3. CASE u = t
    BY <1>0, <1>a, <1>1, <1>2, <1>3, <2>0, <2>1, <2>3 DEF Parked, Waits
  <2>4. CASE u # t
    BY <1>0, <1>1, <1>2, <1>3, <1>4, <2>0, <2>1, <2>2, <2>4 DEF Parked, Queued, Waits, Placed
  <2>5. QED
    BY <2>3, <2>4
<1>6. /\ Unique' /\ Sections'
      /\ \A u \in Tasks : Queued(u)' /\ Waits(u)' /\ Placed(u)'
      /\ \A u \in Tasks : state'[u] \in {"unborn", "freed"} <=> st[u] \in {"unborn", "freed"}
  BY <1>0, <1>1, <1>3, <1>5, Yields DEF IInv, Unique, TypeOK
<1>7. ASSUME NEW u \in Tasks PROVE Counted(u)'
  <2>1. Holders(u)' = Holders(u)
    BY <1>0, <1>1, <1>2 DEF Holders
  <2>2. Counted(u) /\ (state'[u] \in {"unborn", "freed"} <=> state[u] \in {"unborn", "freed"})
    BY <1>0, <1>3, <1>6 DEF IInv
  <2>3. QED
    BY <1>0, <1>1, <1>2, <2>1, <2>2 DEF Counted, Own
<1>8. QED
  BY <1>1, <1>6, <1>7 DEF IInv

\* The idle task is on no list.
LEMMA IdleLoop ==
  ASSUME IInv, idle_loop, TypeOK'
  PROVE  IInv'
<1>0. /\ TypeOK /\ current = Idle /\ inside = "none" /\ waking = << >> /\ Idle \notin Tasks
      /\ \A u \in Tasks : pc[u] \notin Active
  BY TasksAssumption DEF idle_loop, Runs, IInv, Sections, Placed
<1>1. /\ UNCHANGED <<refcount, pc, target, cleanup, sleepers, joiners, waking, inside, mode>>
      /\ scheduler_yield(state, tasks)
  BY DEF idle_loop
<1>4. InFlight = {}
  BY <1>0 DEF InFlight
<1>5. ASSUME NEW u \in Tasks PROVE Parked(state, tasks, u)
  <2>0. Queued(u) /\ Waits(u) /\ Placed(u) /\ ~Leaving(u)
    BY <1>0 DEF IInv, Leaving, Range
  <2>1. (Joining(u)' <=> Joining(u)) /\ pc[u] \in Places
    BY <1>0, <1>1 DEF Joining, TypeOK
  <2>2. pc[u] \in {"own", "join_wait", "dead"}
    BY <1>0, <2>1 DEF Places, Active
  <2>3. QED
    BY <1>0, <1>1, <1>4, <2>0, <2>1, <2>2 DEF Parked, Queued, Waits, Placed
<1>6. /\ Unique' /\ Sections'
      /\ \A u \in Tasks : Queued(u)' /\ Waits(u)' /\ Placed(u)'
      /\ \A u \in Tasks : state'[u] \in {"unborn", "freed"} <=> state[u] \in {"unborn", "freed"}
  BY <1>0, <1>1, <1>5, Yields DEF IInv, Unique, TypeOK
<1>7. ASSUME NEW u \in Tasks PROVE Counted(u)'
  <2>1. Holders(u)' = Holders(u)
    BY <1>1 DEF Holders
  <2>2. Counted(u)
    BY DEF IInv
  <2>3. QED
    BY <1>1, <1>6, <2>1, <2>2 DEF Counted, Own
<1>8. QED
  BY <1>1, <1>6, <1>7 DEF IInv

\* A task that leaves for good finds its own reference to give up.
LEMMA Exited ==
  ASSUME IInv, NEW t \in Tasks, Runs(t), pc[t] \in {"own", "exit"}, task_release(t),
         pc' = [pc EXCEPT ![t] = "dead"], UNCHANGED target,
         \A u \in Tasks : state'[u] \in {"unborn", "freed"} <=> state[u] \in {"unborn", "freed"}
  PROVE  mode' # "release_dead" /\ \A u \in Tasks : Counted(u)'
<1>0. TypeOK /\ state[t] \notin {"unborn", "freed"} /\ \A u \in Tasks : Counted(u)
  BY Current DEF IInv
<1>1. ASSUME NEW u \in Tasks
      PROVE  Cardinality(Holders(u)) \in Nat /\ Holders(u)' = Holders(u)
  <2>1. Cardinality(Holders(u)) \in Nat
    BY TasksAssumption, FS_Subset, FS_CardinalityType DEF Holders
  <2>2. Holders(u)' = Holders(u)
    BY <1>0 DEF Holders, TypeOK
  <2>3. QED
    BY <2>1, <2>2
<1>2. refcount[t] # 0
  BY <1>0, <1>1 DEF Counted, Own
<1>3. mode' # "release_dead" /\ \A u \in Tasks : refcount'[u] = IF u = t THEN refcount[u] - 1 ELSE refcount[u]
  BY <1>0, <1>2 DEF task_release, IInv, TypeOK
<1>4. ASSUME NEW u \in Tasks PROVE Counted(u)'
  <2>1. Own(u)' = IF u = t THEN Own(u) - 1 ELSE Own(u)
    BY <1>0 DEF Own, TypeOK
  <2>2. QED
    BY <1>0, <1>1, <1>3, <2>1 DEF Counted, Own
<1>5. QED
  BY <1>3, <1>4

\* The exiting task is on the cleanup list and nowhere else.
LEMMA ExitFinish ==
  ASSUME IInv, NEW t \in Tasks, exit_finish(t), TypeOK'
  PROVE  IInv'
<1>0. /\ TypeOK /\ current = t /\ state[t] = "zombie" /\ pc[t] = "exit" /\ inside = "none"
      /\ waking = << >> /\ t \notin Range(sleepers) /\ \A x \in Tasks : t \notin Range(joiners[x])
      /\ t \notin Range(tasks) /\ t \notin Range(cleanup)
      /\ \A u \in Tasks : pc[u] \in Active => u = t
  BY Current DEF exit_finish
<1>1. /\ UNCHANGED <<target, sleepers, joiners, waking, inside>>
      /\ pc' = [pc EXCEPT ![t] = "dead"]
      /\ cleanup' = Append(cleanup, t)
      /\ task_release(t)
      /\ scheduler_yield(state, tasks)
  BY DEF exit_finish, runqueue_enqueue
<1>2. \A u \in Tasks : pc'[u] = IF u = t THEN "dead" ELSE pc[u]
  BY <1>0, <1>1 DEF TypeOK
<1>3. Range(cleanup') = Range(cleanup) \cup {t} /\ IsInjective(cleanup')
  BY <1>0, <1>1, AppendItem DEF TypeOK, IInv, Unique
<1>4. InFlight = {}
  BY <1>0 DEF InFlight
<1>5. ASSUME NEW u \in Tasks PROVE Parked(state, tasks, u)
  <2>0. Queued(u) /\ Waits(u) /\ Placed(u) /\ ~Leaving(u)
    BY <1>0 DEF IInv, Leaving, Range
  <2>1. (Joining(u)' <=> Joining(u)) /\ ~Joining(t) /\ pc[u] \in Places /\ target[u] \in Tasks
    BY <1>0, <1>1 DEF Joining, TypeOK
  <2>2. u # t => pc[u] \in {"own", "join_wait", "dead"}
    BY <1>0, <2>1 DEF Places, Active
  <2>3. CASE u = t
    BY <1>0, <1>1, <1>2, <1>3, <2>1, <2>3 DEF Parked
  <2>4. CASE u # t
    BY <1>0, <1>1, <1>2, <1>3, <1>4, <2>0, <2>1, <2>2, <2>4 DEF Parked, Queued, Waits, Placed
  <2>5. QED
    BY <2>3, <2>4
<1>6. /\ Unique' /\ Sections'
      /\ \A u \in Tasks : Queued(u)' /\ Waits(u)' /\ Placed(u)'
      /\ \A u \in Tasks : state'[u] \in {"unborn", "freed"} <=> state[u] \in {"unborn", "freed"}
  BY <1>0, <1>1, <1>3, <1>5, Yields DEF IInv, Unique, TypeOK
<1>7. mode' # "release_dead" /\ \A u \in Tasks : Counted(u)'
  BY <1>0, <1>1, <1>6, Exited DEF exit_finish
<1>8. QED
  BY <1>6, <1>7 DEF IInv

\* The same for a task killed by a fault, whose joiners wake with it.
LEMMA Pagefault ==
  ASSUME IInv, NEW t \in Tasks, pagefault(t), TypeOK'
  PROVE  IInv'
<1> DEFINE st == [x \in Tasks |-> IF x = t THEN "zombie"
                                  ELSE IF x \in Range(joiners[t]) THEN "ready"
                                  ELSE state[x]]
           q  == tasks \o joiners[t]
<1>0. /\ TypeOK /\ current = t /\ state[t] = "running" /\ pc[t] = "own" /\ inside = "none"
      /\ waking = << >> /\ t \notin Range(sleepers) /\ \A x \in Tasks : t \notin Range(joiners[x])
      /\ t \notin Range(tasks) /\ t \notin Range(cleanup)
      /\ \A u \in Tasks : pc[u] \in Active => u = t
  BY Current DEF pagefault, IInv, Sections
<1>1. /\ UNCHANGED <<target, sleepers, waking, inside>>
      /\ pc' = [pc EXCEPT ![t] = "dead"]
      /\ joiners' = [joiners EXCEPT ![t] = << >>]
      /\ cleanup' = Append(cleanup, t)
      /\ task_release(t)
      /\ scheduler_yield(st, q)
  BY DEF pagefault, runqueue_enqueue
<1>2. \A u \in Tasks : /\ pc'[u] = IF u = t THEN "dead" ELSE pc[u]
                       /\ joiners'[u] = IF u = t THEN << >> ELSE joiners[u]
  BY <1>0, <1>1 DEF TypeOK
<1>3. Range(cleanup') = Range(cleanup) \cup {t} /\ IsInjective(cleanup')
  BY <1>0, <1>1, AppendItem DEF TypeOK, IInv, Unique
<1>4. InFlight = {}
  BY <1>0 DEF InFlight
<1>5. ASSUME NEW u \in Tasks, u \in Range(joiners[t])
      PROVE  u # t /\ target[u] = t /\ state[u] = "blocked" /\ pc[u] = "join_wait"
  <2>1. Waits(u) /\ u # t /\ pc[u] # "added"
    BY <1>0, <1>5 DEF IInv, Active
  <2>2. QED
    BY <1>5, <2>1 DEF Waits, Joining
<1>6. /\ st \in [Tasks -> States] /\ q \in Seq(Tasks)
      /\ \A u \in Tasks : st[u] = IF u = t THEN "zombie"
                                  ELSE IF u \in Range(joiners[t]) THEN "ready" ELSE state[u]
  BY <1>0 DEF TypeOK, States
<1>7. Range(q) = Range(tasks) \cup Range(joiners[t]) /\ IsInjective(q)
  <2>1. tasks \in Seq(Tasks) /\ joiners[t] \in Seq(Tasks) /\ IsInjective(tasks) /\ IsInjective(joiners[t])
    BY <1>0 DEF IInv, Unique, TypeOK
  <2>2. ASSUME NEW u \in Range(tasks) PROVE u \notin Range(joiners[t])
    <3>1. u \in Tasks
      BY <2>1 DEF Range
    <3>2. state[u] = "ready"
      BY <3>1, <2>2 DEF IInv, Queued
    <3>3. QED
      BY <1>5, <3>1, <3>2
  <2>3. QED
    BY <2>1, <2>2, ConcatItems
<1> HIDE DEF st, q
<1>8. ASSUME NEW u \in Tasks PROVE Parked(st, q, u)
  <2>0. Queued(u) /\ Waits(u) /\ Placed(u) /\ ~Leaving(u)
    BY <1>0 DEF IInv, Leaving, Range
  <2>1. /\ Joining(u)' <=> Joining(u) /\ target[u] # t
        /\ ~Joining(t) /\ pc[u] \in Places /\ target[u] \in Tasks
        /\ \A x \in Tasks : u \in Range(joiners'[x]) => u \in Range(joiners[x])
    <3>1. Range(<< >>) = {}
      BY DEF Range
    <3>2. pc[u] \in Places /\ target[u] \in Tasks /\ target[t] \in Tasks
      BY <1>0 DEF TypeOK
    <3>3. QED
      BY <1>0, <1>1, <1>2, <3>1, <3>2 DEF Joining
  <2>2. u # t => pc[u] \in {"own", "join_wait", "dead"}
    BY <1>0, <2>1 DEF Places, Active
  <2>3. CASE u = t
    BY <1>0, <1>1, <1>2, <1>3, <1>6, <1>7, <2>1, <2>3 DEF Parked
  <2>4. CASE u # t /\ u \in Range(joiners[t])
    BY <1>1, <1>2, <1>3, <1>5, <1>6, <1>7, <2>0, <2>1, <2>4 DEF Parked, Queued, Waits, Joining
  <2>5. CASE u # t /\ u \notin Range(joiners[t])
    <3>1. Joining(u) => target[u] # t
      BY <2>5 DEF Joining
    <3>2. QED
      BY <1>0, <1>1, <1>2, <1>3, <1>4, <1>6, <1>7, <2>0, <2>1, <2>2, <2>5, <3>1
         DEF Parked, Queued, Waits, Placed
  <2>6. QED
    BY <2>3, <2>4, <2>5
<1>9. /\ Unique' /\ Sections'
      /\ \A u \in Tasks : Queued(u)' /\ Waits(u)' /\ Placed(u)'
      /\ \A u \in Tasks : state'[u] \in {"unborn", "freed"} <=> st[u] \in {"unborn", "freed"}
  <2>1. \A x \in Tasks : IsInjective(joiners'[x])
    BY <1>2 DEF IInv, Unique, IsInjective
  <2>2. QED
    BY <1>0, <1>1, <1>3, <1>6, <1>7, <1>8, <2>1, Yields DEF IInv, Unique, TypeOK
<1>10. \A u \in Tasks : state'[u] \in {"unborn", "freed"} <=> state[u] \in {"unborn", "freed"}
  BY <1>0, <1>5, <1>6, <1>9
<1>11. mode' # "release_dead" /\ \A u \in Tasks : Counted(u)'
  BY <1>0, <1>1, <1>10, Exited DEF pagefault
<1>12. QED
  BY <1>9, <1>11 DEF IInv

-----------------------------------------------------------------------------
(* The timer.                                                              *)

\* What sleeperlist_tick and scheduler_cleanup leave of a list without
\* repetition has none.
LEMMA SelectionsItems ==
  ASSUME NEW s \in Seq(Tasks), IsInjective(s), NEW S \in SUBSET Tasks, NEW w \in Selections(s, S)
  PROVE  w \in Seq(Tasks) /\ Range(w) = Range(s) \cap S /\ IsInjective(w)
<1>1. w \in Seq(Tasks) /\ Range(w) = Range(s) \cap S
  BY SelectionsType
<1>2. ASSUME NEW i \in DOMAIN w, NEW j \in DOMAIN w, i < j PROVE w[i] # w[j]
  <2>1. PICK a, b \in DOMAIN s : a < b /\ w[i] = s[a] /\ w[j] = s[b]
    BY <1>2 DEF Selections
  <2>2. a # b
    BY <2>1
  <2>3. QED
    BY <2>1, <2>2 DEF IsInjective
<1>3. \A i, j \in DOMAIN w : i = j \/ i < j \/ j < i
  BY <1>1
<1>4. QED
  BY <1>1, <1>2, <1>3 DEF IsInjective

\* The timer makes sleepers ready and frees zombies without a holder, in the
\* middle of whatever it interrupts.
LEMMA SchedulerTick ==
  ASSUME IInv, scheduler_tick, TypeOK'
  PROVE  IInv'
<1>0. /\ TypeOK /\ Unique /\ Sections
      /\ \A u \in Tasks : Queued(u) /\ Waits(u) /\ Placed(u) /\ Counted(u)
  BY DEF IInv
<1>1. UNCHANGED <<refcount, pc, target, joiners, waking, current, mode>>
  BY DEF scheduler_tick
<1>2. /\ inside' = "tasks" <=> inside = "tasks"
      /\ inside = "none" => inside' = "none"
  BY DEF scheduler_tick
<1>3. InFlight' = InFlight
  BY <1>1, <1>2 DEF InFlight
<1>4. Due \in SUBSET Tasks /\ Dead \in SUBSET Tasks
  <2>1. sleepers \in Seq(Tasks) /\ cleanup \in Seq(Tasks)
    BY <1>0 DEF TypeOK
  <2>2. QED
    BY <2>1 DEF Due, Dead, Range
<1>5. ASSUME NEW u \in Tasks, u \in Due
      PROVE  /\ u \in Range(sleepers) /\ state[u] = "blocked" /\ pc[u] = "own"
             /\ ~Joining(u) /\ ~Leaving(u) /\ u \notin Range(tasks)
  BY <1>0, <1>5 DEF Due, Waits, Queued
<1>6. ASSUME NEW u \in Tasks, u \in Dead
      PROVE  u \in Range(cleanup) /\ state[u] = "zombie" /\ pc[u] = "dead" /\ Holders(u) = {}
  <2>1. u \in Range(cleanup) /\ state[u] = "zombie" /\ pc[u] = "dead" /\ refcount[u] = 0
    BY <1>0, <1>6 DEF Dead, Queued
  <2>2. IsFiniteSet(Holders(u)) /\ Cardinality(Holders(u)) \in Nat
    BY TasksAssumption, FS_Subset, FS_CardinalityType DEF Holders
  <2>3. Cardinality(Holders(u)) = 0
    BY <1>0, <2>1, <2>2 DEF Counted, Own
  <2>4. QED
    BY <2>1, <2>2, <2>3, FS_EmptySet
<1>7. Range(tasks') = Range(tasks) \cup Due /\ IsInjective(tasks')
  <2>1. PICK w \in Selections(sleepers, Due) : tasks' = tasks \o w
    BY DEF scheduler_tick
  <2>2. w \in Seq(Tasks) /\ Range(w) = Range(sleepers) \cap Due /\ IsInjective(w)
    BY <1>0, <1>4, SelectionsItems DEF TypeOK, Unique
  <2>3. Range(w) = Due
    BY <2>2 DEF Due
  <2>4. Range(tasks) \cap Range(w) = {}
    BY <1>4, <1>5, <2>3
  <2>5. QED
    <3>1. tasks \in Seq(Tasks) /\ IsInjective(tasks)
      BY <1>0 DEF TypeOK, Unique
    <3>2. Range(tasks \o w) = Range(tasks) \cup Range(w) /\ IsInjective(tasks \o w)
      BY <2>2, <2>4, <3>1, ConcatItems
    <3>3. QED
      BY <2>1, <2>3, <3>2
<1>8. /\ Range(sleepers') = Range(sleepers) \cap (Tasks \ Due) /\ IsInjective(sleepers')
      /\ Range(cleanup') = Range(cleanup) \cap (Tasks \ Dead) /\ IsInjective(cleanup')
  <2>1. sleepers' \in Selections(sleepers, Tasks \ Due) /\ cleanup' \in Selections(cleanup, Tasks \ Dead)
    BY DEF scheduler_tick
  <2>2. Tasks \ Due \in SUBSET Tasks /\ Tasks \ Dead \in SUBSET Tasks
    OBVIOUS
  <2>3. sleepers \in Seq(Tasks) /\ cleanup \in Seq(Tasks) /\ IsInjective(sleepers) /\ IsInjective(cleanup)
    BY <1>0 DEF TypeOK, Unique
  <2>4. QED
    BY <2>1, <2>2, <2>3, SelectionsItems
<1>9. \A u \in Tasks : state'[u] = IF u \in Due THEN "ready" ELSE IF u \in Dead THEN "freed" ELSE state[u]
  BY DEF scheduler_tick
<1>10. Unique'
  <2>1. InFlight \cap Due = {}
    <3>1. \A u \in InFlight : u \in Tasks
      BY DEF InFlight
    <3>2. \A u \in InFlight : state[u] = "ready"
      BY <1>0, <3>1 DEF Queued
    <3>3. QED
      BY <1>5, <3>1, <3>2
  <2>2. QED
    BY <1>0, <1>1, <1>3, <1>7, <1>8, <2>1 DEF Unique
<1>11. Sections'
  BY <1>0, <1>1, <1>2 DEF Sections
<1>12. ASSUME NEW u \in Tasks PROVE Queued(u)' /\ Waits(u)' /\ Placed(u)' /\ Counted(u)'
  <2>0. Queued(u) /\ Waits(u) /\ Placed(u) /\ Counted(u) /\ target[u] \in Tasks
    BY <1>0 DEF TypeOK
  <2>1. (Joining(u)' <=> Joining(u)) /\ (Leaving(u)' <=> Leaving(u)) /\ Holders(u)' = Holders(u)
    BY <1>1, <1>3 DEF Joining, Leaving, Holders
  <2>2. Queued(u)'
    BY <1>1, <1>3, <1>5, <1>6, <1>7, <1>8, <1>9, <2>0 DEF Queued, Placed
  <2>3. Waits(u)'
    <3>1. state'[u] = "blocked" <=> state[u] = "blocked" /\ u \notin Due
      BY <1>6, <1>9
    <3>2. Joining(u) => state'[target[u]] \notin {"unborn", "zombie", "freed"}
      BY <1>6, <1>9, <2>0 DEF Waits
    <3>3. u \in Range(sleepers') <=> u \in Range(sleepers) /\ u \notin Due
      BY <1>8
    <3>4. QED
      BY <1>1, <1>5, <2>0, <2>1, <3>1, <3>2, <3>3 DEF Waits
  <2>4. Placed(u)'
    <3>1. pc[u] = "spawn_init" => state'[target[u]] = "unborn"
      BY <1>5, <1>6, <1>9, <2>0 DEF Placed
    <3>2. pc[u] \in {"found", "added"} => target[u] = u \/ state'[target[u]] \in {"ready", "zombie"}
      <4>1. pc[u] \in {"found", "added"} => u \in Holders(target[u])
        BY DEF Holders
      <4>2. QED
        BY <1>5, <1>6, <1>9, <2>0, <4>1 DEF Placed
    <3>3. QED
      BY <1>1, <1>5, <1>6, <1>9, <2>0, <2>1, <3>1, <3>2 DEF Placed
  <2>5. Counted(u)'
    BY <1>1, <1>5, <1>6, <1>9, <2>0, <2>1 DEF Counted, Own
  <2>6. QED
    BY <2>2, <2>3, <2>4, <2>5
<1>13. QED
  BY <1>1, <1>10, <1>11, <1>12 DEF IInv

-----------------------------------------------------------------------------
(* The invariant holds.                                                    *)

\* The boot tasks are ready and queued once.
LEMMA InitIInv ==
  ASSUME Init
  PROVE  IInv
<1>1. TypeOK
  BY InitType
<1>2. Range(<< >>) = {} /\ IsInjective(<< >>)
  BY DEF Range, IsInjective
<1>3. InFlight = {}
  BY DEF Init, InFlight
<1>4. Unique /\ Sections
  BY <1>2, <1>3, BootAssumption DEF Init, Unique, Sections
<1>5. ASSUME NEW u \in Tasks PROVE Queued(u) /\ Waits(u) /\ Placed(u) /\ Counted(u)
  <2>1. ~Joining(u) /\ ~Leaving(u)
    BY <1>2 DEF Init, Joining, Leaving
  <2>2. Queued(u)
    BY <1>2, <1>3, TasksAssumption DEF Init, Queued
  <2>3. Waits(u) /\ Placed(u)
    BY <1>2, <2>1, TasksAssumption DEF Init, Waits, Placed, Active
  <2>4. Holders(u) = {} /\ Cardinality(Holders(u)) = 0
    <3>1. Holders(u) = {}
      BY DEF Init, Holders
    <3>2. QED
      BY <3>1, FS_EmptySet
  <2>5. Counted(u)
    BY <2>4 DEF Init, Counted, Own
  <2>6. QED
    BY <2>2, <2>3, <2>5
<1>6. QED
  BY <1>1, <1>4, <1>5 DEF Init, IInv

\* Every step keeps the invariant.
LEMMA NextIInv ==
  ASSUME IInv, [Next]_vars
  PROVE  IInv'
<1>1. TypeOK'
  BY NextType DEF IInv
<1>2. CASE UNCHANGED vars
  BY <1>1, <1>2, Frozen DEF vars, IInv
<1>3. CASE Next
  BY <1>1, <1>3, NextCases, SpawnBegin, SpawnInit, SpawnEnqueue, TaskSleep, JoinBegin, FindInTasks,
     FindInCleanup, JoinCheck, JoinBlock, JoinReturn, ExitBegin, WakeReady, WakeEnqueue,
     ExitFinish, Pagefault, IdleLoop, SchedulerTick, TickHangs
<1>4. QED
  BY <1>2, <1>3

\* The invariant holds in every reachable state.
LEMMA Invariant == Spec => []IInv
<1>1. Init => IInv
  BY InitIInv
<1>2. IInv /\ [Next]_vars => IInv'
  BY NextIInv
<1>3. QED
  BY <1>1, <1>2, PTL DEF Spec

\* A task's state and the list that links it agree in every reachable state: a
\* ready task is on the run queue once, an exited one on the cleanup list once,
\* so that the one pair of links of a task (runqueue.c) serves one list.
THEOREM QueuesDisciplined == Spec => []QueueDiscipline
<1>1. IInv => QueueDiscipline
  BY DEF IInv, Unique, Queued, QueueDiscipline
<1>2. QED
  BY <1>1, Invariant, PTL

\* Every blocked task is on exactly one list that something will still walk, at
\* every interleaving of the timer with task_sleep, task_join and task_exit.
THEOREM WakeupsKept == Spec => []NoLostWakeup
<1>1. IInv => NoLostWakeup
  BY DEF IInv, Unique, Waits, Joining, Leaving, NoLostWakeup
<1>2. QED
  BY <1>1, Invariant, PTL

\* The reference count of a task counts its own reference and one per join on
\* it, and the timer frees only what nobody can reach any more.
THEOREM RefcountsExact == Spec => []RefcountExact
<1>1. ASSUME IInv PROVE RefcountExact
  <2>0. /\ TypeOK /\ mode # "release_dead"
        /\ \A u \in Tasks : Queued(u) /\ Waits(u) /\ Placed(u) /\ Counted(u)
    BY <1>1 DEF IInv
  <2>1. \A x \in Tasks : refcount[x] = Cardinality(Holders(x))
            + (IF state[x] \in {"unborn", "freed"} \/ pc[x] = "dead" THEN 0 ELSE 1)
    BY <2>0 DEF Counted, Own
  <2>2. ASSUME NEW x \in Tasks, state[x] = "freed"
        PROVE  /\ current # x
               /\ x \notin Range(tasks) \cup Range(cleanup) \cup Range(sleepers) \cup Range(waking)
               /\ joiners[x] = << >> /\ Holders(x) = {}
    <3>1. current # x /\ x \notin Range(tasks) \cup InFlight /\ x \notin Range(cleanup)
      BY <2>0, <2>2 DEF Queued
    <3>2. x \notin Range(sleepers) /\ x \notin Range(waking)
      BY <2>0, <2>2, <3>1 DEF Waits, Leaving
    <3>3. joiners[x] = << >>
      <4>1. joiners[x] \in Seq(Tasks)
        BY <2>0 DEF TypeOK
      <4>2. ASSUME NEW u \in Tasks PROVE u \notin Range(joiners[x])
        BY <2>0, <2>2 DEF Waits, Joining
      <4>3. SUFFICES ASSUME joiners[x] # << >> PROVE FALSE
        OBVIOUS
      <4>4. Head(joiners[x]) \in Tasks /\ Range(joiners[x]) = Range(Tail(joiners[x])) \cup {Head(joiners[x])}
        BY <4>1, <4>3, TakeItem
      <4>5. QED
        BY <4>2, <4>4
    <3>4. Holders(x) = {}
      BY <2>0, <2>2 DEF Counted
    <3>5. QED
      BY <3>1, <3>2, <3>3, <3>4
  <2>3. QED
    BY <2>0, <2>1, <2>2 DEF RefcountExact
<1>2. QED
  BY <1>1, Invariant, PTL

\* What a step that keeps the invariant does to the dead: they stay dead, and
\* only the task that runs joins the cleanup list.
LEMMA DeadStep ==
  ASSUME IInv, Next, NEW u \in Tasks
  PROVE  /\ pc[u] = "dead" => pc'[u] = "dead"
         /\ pc[u] = "exit" => pc'[u] \in {"exit", "dead"}
         /\ u \in Range(cleanup') => u \in Range(cleanup) \/ current = u
<1> DEFINE P == /\ pc[u] = "dead" => pc'[u] = "dead"
                /\ pc[u] = "exit" => pc'[u] \in {"exit", "dead"}
                /\ u \in Range(cleanup') => u \in Range(cleanup) \/ current = u
<1>0. TypeOK
  BY DEF IInv
<1>1. ASSUME NEW t \in Tasks, NEW n \in Tasks, NEW k \in Kinds, spawn_begin(t, n, k) PROVE P
  BY <1>0, <1>1 DEF spawn_begin, lists, TypeOK
<1>2. ASSUME NEW t \in Tasks, spawn_init(t) PROVE P
  BY <1>0, <1>2 DEF spawn_init, lists, TypeOK
<1>3. ASSUME NEW t \in Tasks, spawn_enqueue(t) PROVE P
  BY <1>0, <1>3 DEF spawn_enqueue, lists, TypeOK
<1>4. ASSUME NEW t \in Tasks, NEW d \in Delays, task_sleep(t, d) PROVE P
  BY <1>0, <1>4 DEF task_sleep
<1>5. ASSUME NEW t \in Tasks, NEW x \in Tasks, join_begin(t, x) PROVE P
  BY <1>0, <1>5 DEF join_begin, lists, TypeOK
<1>6. ASSUME NEW t \in Tasks, find_in_tasks(t) PROVE P
  BY <1>0, <1>6 DEF find_in_tasks, task_acquire, lists, TypeOK
<1>7. ASSUME NEW t \in Tasks, find_in_cleanup(t) PROVE P
  BY <1>0, <1>7 DEF find_in_cleanup, task_acquire, lists, TypeOK
<1>8. ASSUME NEW t \in Tasks, join_check(t) PROVE P
  BY <1>0, <1>8 DEF join_check, TypeOK
<1>9. ASSUME NEW t \in Tasks, join_block(t) PROVE P
  BY <1>0, <1>9 DEF join_block, TypeOK
<1>10. ASSUME NEW t \in Tasks, join_return(t) PROVE P
  BY <1>0, <1>10 DEF join_return, lists, TypeOK
<1>11. ASSUME NEW t \in Tasks, exit_begin(t) PROVE P
  BY <1>0, <1>11 DEF exit_begin, TypeOK
<1>12. ASSUME NEW t \in Tasks, wake_ready(t) PROVE P
  BY <1>0, <1>12 DEF wake_ready, lists
<1>13. ASSUME NEW t \in Tasks, wake_enqueue(t) PROVE P
  BY <1>0, <1>13 DEF wake_enqueue
<1>14. ASSUME NEW t \in Tasks, exit_finish(t) PROVE P
  <2>1. Range(cleanup') = Range(cleanup) \cup {t} /\ current = t
    BY <1>0, <1>14, AppendItem DEF exit_finish, runqueue_enqueue, Runs, TypeOK
  <2>2. QED
    BY <1>0, <1>14, <2>1 DEF exit_finish, TypeOK
<1>15. ASSUME NEW t \in Tasks, pagefault(t) PROVE P
  <2>1. Range(cleanup') = Range(cleanup) \cup {t} /\ current = t
    BY <1>0, <1>15, AppendItem DEF pagefault, runqueue_enqueue, Runs, TypeOK
  <2>2. QED
    BY <1>0, <1>15, <2>1 DEF pagefault, TypeOK
<1>16. ASSUME idle_loop PROVE P
  BY <1>0, <1>16 DEF idle_loop
<1>17. ASSUME scheduler_tick PROVE P
  <2>1. Tasks \ Dead \in SUBSET Tasks /\ cleanup \in Seq(Tasks)
    BY <1>0 DEF TypeOK
  <2>2. Range(cleanup') = Range(cleanup) \cap (Tasks \ Dead)
    BY <1>17, <2>1, SelectionsType DEF scheduler_tick
  <2>3. QED
    BY <1>17, <2>2 DEF scheduler_tick
<1>18. ASSUME tick_hangs PROVE P
  BY <1>0, <1>18 DEF tick_hangs, lists
<1> HIDE DEF P
<1>19. P
  BY <1>1, <1>2, <1>3, <1>4, <1>5, <1>6, <1>7, <1>8, <1>9, <1>10, <1>11, <1>12, <1>13,
     <1>14, <1>15, <1>16, <1>17, <1>18, NextCases
<1>20. QED
  BY <1>19 DEF P

\* An exited task is never made ready, run or given a new life: task_exit does
\* not return.
THEOREM DeadStayDead == Spec => DeadStaysDead
<1> DEFINE A == \A t \in Tasks :
                  /\ state[t] \in {"zombie", "freed"} => state'[t] \in {"zombie", "freed"}
                  /\ state[t] = "freed" => state'[t] = "freed"
                  /\ pc[t] = "dead" => current' # t
<1>1. ASSUME IInv, [Next]_vars PROVE [A]_vars
  <2>1. CASE UNCHANGED vars
    BY <2>1
  <2>2. CASE Next
    <3>0. IInv'
      BY <1>1, NextIInv
    <3>1. ASSUME NEW t \in Tasks
          PROVE  /\ state[t] \in {"zombie", "freed"} => state'[t] \in {"zombie", "freed"}
                 /\ state[t] = "freed" => state'[t] = "freed"
                 /\ pc[t] = "dead" => current' # t
      <4>1. /\ pc[t] = "dead" => pc'[t] = "dead"
            /\ pc[t] = "exit" => pc'[t] \in {"exit", "dead"}
            /\ t \in Range(cleanup') => t \in Range(cleanup) \/ current = t
        BY <1>1, <2>2, DeadStep
      <4>2. Queued(t) /\ Placed(t)
        BY <1>1 DEF IInv
      <4>3. Queued(t)' /\ Placed(t)'
        BY <3>0 DEF IInv
      <4>4. state[t] \in {"zombie", "freed"} => state'[t] \in {"zombie", "freed"}
        BY <4>1, <4>2, <4>3 DEF Placed
      <4>5. state[t] = "freed" => state'[t] = "freed"
        BY <4>1, <4>2, <4>3 DEF Placed, Queued
      <4>6. pc[t] = "dead" => current' # t
        BY <4>1, <4>3 DEF Placed
      <4>7. QED
        BY <4>4, <4>5, <4>6
    <3>2. QED
      BY <3>1
  <2>3. QED
    BY <1>1, <2>1, <2>2
<1>2. QED
  BY <1>1, Invariant, PTL DEF Spec, DeadStaysDead

-----------------------------------------------------------------------------
(* Joins.                                                                  *)

\* Blocked in task_join.
InJoin(u) == state[u] = "blocked" /\ pc[u] = "join_wait"

\* A yield blocks nobody its caller has not blocked.
LEMMA YieldBlocks ==
  ASSUME TypeOK, NEW st \in [Tasks -> States], NEW q \in Seq(Tasks), scheduler_yield(st, q),
         NEW u \in Tasks, state'[u] = "blocked"
  PROVE  st[u] = "blocked"
<1> DEFINE again == current # Idle /\ st[current] = "running"
           st1   == IF again THEN [st EXCEPT ![current] = "ready"] ELSE st
           q1    == IF again THEN Append(q, current) ELSE q
<1>1. st1 \in [Tasks -> States] /\ (st1[u] = "blocked" => st[u] = "blocked")
  BY DEF TypeOK, States
<1>2. state' = st1 \/ state' = [st1 EXCEPT ![Head(q1)] = "running"]
  BY DEF scheduler_yield, runqueue_enqueue
<1> HIDE DEF st1, q1
<1>3. QED
  BY <1>1, <1>2

\* A task that gets into a join waits for a task that is not in one: the search
\* returns tasks of the run queue or the cleanup list only, and nothing but the
\* timer runs between the search and the yield.
LEMMA JoinEdge ==
  ASSUME IInv, Next, NEW u \in Tasks, NEW v \in Tasks \ {u},
         InJoin(u)', InJoin(v)', target'[u] = v
  PROVE  InJoin(u) /\ target[u] = v
<1> DEFINE P == InJoin(u) /\ target[u] = v
<1>0. TypeOK /\ Queued(u) /\ Waits(u) /\ Placed(u)
  BY DEF IInv
<1>1. ASSUME NEW t \in Tasks, NEW n \in Tasks, NEW k \in Kinds, spawn_begin(t, n, k) PROVE P
  BY <1>0, <1>1 DEF spawn_begin, InJoin, TypeOK
<1>2. ASSUME NEW t \in Tasks, spawn_init(t) PROVE P
  BY <1>0, <1>2 DEF spawn_init, InJoin, TypeOK
<1>3. ASSUME NEW t \in Tasks, spawn_enqueue(t) PROVE P
  BY <1>0, <1>3 DEF spawn_enqueue, InJoin, TypeOK
<1>4. ASSUME NEW t \in Tasks, NEW d \in Delays, task_sleep(t, d) PROVE P
  <2>1. [state EXCEPT ![t] = "blocked"] \in [Tasks -> States] /\ tasks \in Seq(Tasks)
    BY <1>0 DEF TypeOK, States
  <2>2. [state EXCEPT ![t] = "blocked"][u] = "blocked"
    BY <1>0, <1>4, <2>1, YieldBlocks DEF task_sleep, InJoin
  <2>3. QED
    BY <1>0, <1>4, <2>2 DEF task_sleep, InJoin, TypeOK
<1>5. ASSUME NEW t \in Tasks, NEW x \in Tasks, join_begin(t, x) PROVE P
  BY <1>0, <1>5 DEF join_begin, InJoin, TypeOK
<1>6. ASSUME NEW t \in Tasks, find_in_tasks(t) PROVE P
  BY <1>0, <1>6 DEF find_in_tasks, task_acquire, InJoin, TypeOK
<1>7. ASSUME NEW t \in Tasks, find_in_cleanup(t) PROVE P
  BY <1>0, <1>7 DEF find_in_cleanup, task_acquire, InJoin, TypeOK
<1>8. ASSUME NEW t \in Tasks, join_check(t) PROVE P
  BY <1>0, <1>8 DEF join_check, InJoin, TypeOK
<1>9. ASSUME NEW t \in Tasks, join_block(t) PROVE P
  <2> DEFINE st == [state EXCEPT ![t] = "blocked"]
             x  == target[t]
  <2>1. Placed(t) /\ Waits(t) /\ x \in Tasks /\ pc[t] = "added" /\ pc \in [Tasks -> Places]
    BY <1>0, <1>9 DEF IInv, TypeOK, join_block
  <2>2. state[x] # "zombie" /\ (x = t \/ state[x] = "ready")
    BY <2>1 DEF Placed, Waits
  <2>3. scheduler_yield(st, tasks) /\ target' = target /\ pc' = [pc EXCEPT ![t] = "join_wait"]
    BY <1>9, <2>2 DEF join_block
  <2>4. st \in [Tasks -> States] /\ tasks \in Seq(Tasks) /\ \A y \in Tasks : y # t => st[y] = state[y]
    BY <1>0 DEF TypeOK, States
  <2> HIDE DEF st
  <2>5. \A y \in Tasks : state'[y] = "blocked" => st[y] = "blocked"
    BY <1>0, <2>3, <2>4, YieldBlocks
  <2>6. CASE u = t
    <3>1. x # t => state'[x] # "blocked"
      BY <2>1, <2>2, <2>4, <2>5
    <3>2. x = v
      BY <2>3, <2>6
    <3>3. QED
      BY <2>6, <3>1, <3>2 DEF InJoin
  <2>7. CASE u # t
    <3>1. state[u] = "blocked" /\ pc'[u] = pc[u]
      BY <2>1, <2>3, <2>4, <2>5, <2>7 DEF InJoin
    <3>2. QED
      BY <2>3, <3>1 DEF InJoin
  <2>8. QED
    BY <2>6, <2>7
<1>10. ASSUME NEW t \in Tasks, join_return(t) PROVE P
  BY <1>0, <1>10 DEF join_return, InJoin, TypeOK
<1>11. ASSUME NEW t \in Tasks, exit_begin(t) PROVE P
  BY <1>0, <1>11 DEF exit_begin, InJoin, TypeOK
<1>12. ASSUME NEW t \in Tasks, wake_ready(t) PROVE P
  BY <1>0, <1>12 DEF wake_ready, InJoin, TypeOK
<1>13. ASSUME NEW t \in Tasks, wake_enqueue(t) PROVE P
  BY <1>0, <1>13 DEF wake_enqueue, InJoin
<1>14. ASSUME NEW t \in Tasks, exit_finish(t) PROVE P
  <2>1. state[u] = "blocked"
    BY <1>0, <1>14, YieldBlocks DEF exit_finish, InJoin, TypeOK
  <2>2. QED
    BY <1>0, <1>14, <2>1 DEF exit_finish, InJoin, TypeOK
<1>15. ASSUME NEW t \in Tasks, pagefault(t) PROVE P
  <2> DEFINE st == [x \in Tasks |-> IF x = t THEN "zombie"
                                    ELSE IF x \in Range(joiners[t]) THEN "ready"
                                    ELSE state[x]]
  <2>1. st \in [Tasks -> States] /\ tasks \o joiners[t] \in Seq(Tasks)
    BY <1>0 DEF TypeOK, States
  <2>2. scheduler_yield(st, tasks \o joiners[t])
    BY <1>15 DEF pagefault
  <2>3. st[u] = "blocked"
    BY <1>0, <2>1, <2>2, YieldBlocks DEF InJoin
  <2>4. QED
    BY <1>0, <1>15, <2>3 DEF pagefault, InJoin, TypeOK
<1>16. ASSUME idle_loop PROVE P
  <2>1. state[u] = "blocked"
    BY <1>0, <1>16, YieldBlocks DEF idle_loop, InJoin, TypeOK
  <2>2. QED
    BY <1>0, <1>16, <2>1 DEF idle_loop, InJoin, TypeOK
<1>17. ASSUME scheduler_tick PROVE P
  BY <1>0, <1>17 DEF scheduler_tick, InJoin
<1>18. ASSUME tick_hangs PROVE P
  BY <1>0, <1>18 DEF tick_hangs, InJoin
<1> HIDE DEF P
<1>19. P
  BY <1>1, <1>2, <1>3, <1>4, <1>5, <1>6, <1>7, <1>8, <1>9, <1>10, <1>11, <1>12, <1>13,
     <1>14, <1>15, <1>16, <1>17, <1>18, NextCases
<1>20. QED
  BY <1>19 DEF P

\* No set of tasks waits in a cycle of joins, for any number of tasks: a task
\* that would close a cycle blocks on a task that is itself in no join.
THEOREM JoinsAcyclic == Spec => []NoJoinCycle
<1>1. Init => NoJoinCycle
  BY DEF Init, NoJoinCycle
<1>2. ASSUME IInv, NoJoinCycle, [Next]_vars PROVE NoJoinCycle'
  <2>1. SUFFICES ASSUME NEW S \in SUBSET Tasks, S # {},
                        \A t \in S : InJoin(t)' /\ target'[t] \in S \ {t}
                 PROVE  FALSE
    BY DEF NoJoinCycle, InJoin
  <2>2. \A t \in S : InJoin(t) /\ target'[t] = target[t]
    <3>1. CASE Next
      <4>1. SUFFICES ASSUME NEW t \in S PROVE InJoin(t) /\ target'[t] = target[t]
        OBVIOUS
      <4>2. PICK v \in S \ {t} : target'[t] = v
        BY <2>1
      <4>3. t \in Tasks /\ v \in Tasks \ {t} /\ InJoin(t)' /\ InJoin(v)'
        BY <2>1
      <4>4. QED
        BY <1>2, <3>1, <4>2, <4>3, JoinEdge
    <3>2. CASE UNCHANGED vars
      BY <2>1, <3>2 DEF vars, InJoin
    <3>3. QED
      BY <1>2, <3>1, <3>2
  <2>3. QED
    BY <1>2, <2>1, <2>2 DEF NoJoinCycle, InJoin
<1>3. QED
  BY <1>1, <1>2, Invariant, PTL DEF Spec

-------------------------------------------------------------------------------
(***************************************************************************)
(* The start-up block of a task that is spawned: what the arena lays out   *)
(* is what was counted, and what is written is what the task reads.        *)
(***************************************************************************)

\* The recursion that sums is.
SumBy(f, s) == [k \in 0..Len(s) |-> IF k = 0 THEN 0 ELSE f[k - 1] + s[k]]
SumOf(s)    == CHOOSE f : f = SumBy(f, s)

LEMMA SumsLoop == ASSUME NEW s PROVE sums(s) = SumOf(s)
BY Zenon DEF sums, SumOf, SumBy

\* A sum of sizes is the one before it and one size more.
LEMMA SumsAre ==
  ASSUME NEW s \in Seq(Nat)
  PROVE  /\ sums(s)[0] = 0
         /\ \A k \in 1..Len(s) : sums(s)[k] = sums(s)[k - 1] + s[k]
         /\ \A k \in 0..Len(s) : sums(s)[k] \in Nat
<1> DEFINE n == Len(s)
           t == [x \in Nat \X Nat |-> IF x[2] \in 1..n THEN x[1] + s[x[2]] ELSE x[1]]
<1>1. n \in Nat /\ \A k \in 1..n : s[k] \in Nat
  OBVIOUS
<1> HIDE DEF n
<1>2. t \in [Nat \X Nat -> Nat]
  BY <1>1
<1>3. \A a \in Nat, k \in 1..n : t[<<a, k>>] = a + s[k]
  BY <1>1
<1> HIDE DEF t
<1>4. PICK f : Stepwise(f, Nat, 0, t, n)
  BY <1>1, <1>2, StepsExist
<1>5. f \in [0..n -> Nat] /\ f[0] = 0 /\ \A k \in 1..n : f[k] = t[<<f[k - 1], k>>]
  BY <1>4 DEF Stepwise
<1>6. ASSUME NEW k \in 1..n PROVE f[k] = f[k - 1] + s[k]
  <2>1. f[k - 1] \in Nat
    BY <1>1, <1>5
  <2>2. f[k] = t[<<f[k - 1], k>>]
    BY <1>5
  <2> QED BY <1>3, <2>1, <2>2
<1>7. f = SumBy(f, s)
  <2>1. f = [k \in 0..n |-> f[k]]
    BY <1>5
  <2>2. \A k \in 0..n : f[k] = IF k = 0 THEN 0 ELSE f[k - 1] + s[k]
    BY <1>1, <1>5, <1>6
  <2> QED BY <2>1, <2>2 DEF SumBy, n
<1> DEFINE g == SumOf(s)
<1>8. g = SumBy(g, s)
  BY <1>7, Zenon DEF SumOf
<1> HIDE DEF g
<1>9. /\ g[0] = 0
      /\ \A k \in 1..n : g[k] = g[k - 1] + s[k]
  BY <1>1, <1>8 DEF SumBy, n
<1>10. \A k \in 0..n : g[k] \in Nat
  <2> DEFINE P == { k \in Nat : g[k] \in Nat }
  <2>1. 0 \in P
    BY <1>9
  <2>2. ASSUME NEW i \in 1..n, i - 1 \in P PROVE i \in P
    BY <1>1, <1>9, <2>2
  <2> HIDE DEF P
  <2>3. \A i \in 0..n : i \in P
    BY <1>1, <2>1, <2>2, StepsKeep
  <2> QED BY <2>3 DEF P
<1> QED BY <1>9, <1>10, SumsLoop DEF g, n

\* Sums of sizes grow.
LEMMA SumsGrow ==
  ASSUME NEW s \in Seq(Nat), NEW i \in 0..Len(s), NEW j \in i..Len(s)
  PROVE  sums(s)[i] <= sums(s)[j]
<1> DEFINE n == Len(s)
           g == sums(s)
           P == { k \in Nat : k >= i => g[i] <= g[k] }
<1>1. n \in Nat /\ i \in 0..n /\ j \in 0..n /\ i <= j /\ \A k \in 1..n : s[k] \in Nat
  OBVIOUS
<1>2. /\ \A k \in 1..n : g[k] = g[k - 1] + s[k]
      /\ \A k \in 0..n : g[k] \in Nat
  BY SumsAre
<1> HIDE DEF n, g
<1>3. 0 \in P
  BY <1>1, <1>2
<1>4. ASSUME NEW k \in 1..n, k - 1 \in P PROVE k \in P
  <2>1. CASE k >= i + 1
    <3>1. g[i] <= g[k - 1] /\ k - 1 \in 0..n
      BY <1>1, <1>4, <2>1
    <3>2. g[k] = g[k - 1] + s[k] /\ s[k] \in Nat /\ g[k - 1] \in Nat /\ g[i] \in Nat
      BY <1>1, <1>2, <3>1
    <3> QED BY <3>1, <3>2
  <2>2. CASE k <= i
    BY <1>1, <1>2, <2>2
  <2> QED BY <1>1, <2>1, <2>2
<1> HIDE DEF P
<1>5. j \in P
  BY <1>1, <1>3, <1>4, StepsKeep
<1> QED BY <1>1, <1>5 DEF P, g

\* Rounding up to a multiple.
LEMMA RoundUp ==
  ASSUME NEW x \in Nat, NEW a \in Nat \ {0}
  PROVE  /\ align_size_up(x, a) \in Nat /\ align_size_up(x, a) >= x
         /\ align_size_up(x, a) < x + a /\ align_size_up(x, a) % a = 0
<1> DEFINE q == x \div a
           r == x % a
<1>1. q \in Nat /\ r \in 0..(a - 1) /\ x = a * q + r
  BY DivMod
<1>2. CASE r = 0
  BY <1>1, <1>2 DEF align_size_up
<1>3. CASE r # 0
  <2>1. align_size_up(x, a) = x + a - r
    BY <1>3 DEF align_size_up
  <2> HIDE DEF q, r
  <2>2. a * (q + 1) = a * q + a /\ a * q \in Int /\ a * (q + 1) \in Int
    BY <1>1
  <2>3. x + a - r = a * (q + 1) + 0
    BY <1>1, <2>2
  <2>4. (a * (q + 1) + 0) % a = 0
    BY <1>1, DivUnique
  <2> QED BY <1>1, <1>3, <2>1, <2>3, <2>4
<1> QED BY <1>2, <1>3

\* The sizes the arena is asked for, and where each object starts: a size from
\* the sum of those before it, and with an empty rest at the end of the block.
LEMMA LaidOut ==
  ASSUME NEW args \in Seq(Nat), NEW envs \in Seq(Nat)
  PROVE  LET r == requests(args, envs)
             l == layout(args, envs)
             n == Len(r)
             size == get_size(args, envs)
         IN  /\ r \in Seq(Nat) /\ n \in Nat /\ n >= 3 /\ size \in Nat
             /\ l.fits
             /\ \A k \in 1..n : l.at[k] \in Nat /\ l.at[k] + r[k] <= size
             /\ r[n] = 0 => l.at[n] = size
             /\ \A k \in 1..n : l.at[k] = size => r[n] = 0
<1> DEFINE r == requests(args, envs)
           n == Len(r)
           s == rounded(r)
           g == sums(s)
           l == layout(args, envs)
           size == get_size(args, envs)
<1>1. r \in Seq(Nat) /\ n \in Nat /\ n >= 3
  <2>1. Len(args) * STR \in Nat /\ Len(envs) * STR \in Nat /\ INFO \in Nat
    BY StartupAssumption
  <2> DEFINE h == <<INFO, Len(args) * STR, Len(envs) * STR>>
  <2>2. h \in Seq(Nat) /\ Len(h) = 3
    BY <2>1
  <2> HIDE DEF h
  <2> DEFINE b == h \o args
  <2>5. b \in Seq(Nat) /\ Len(b) = 3 + Len(args)
    <3>1. h \in Seq(Nat) /\ args \in Seq(Nat)
      BY <2>2
    <3>2. h \o args \in Seq(Nat) /\ Len(h \o args) = Len(h) + Len(args)
      BY ONLY <3>1, ConcatProperties
    <3> QED BY <2>2, <3>2
  <2> HIDE DEF b
  <2>3. b \o envs \in Seq(Nat) /\ Len(b \o envs) = 3 + Len(args) + Len(envs)
    BY <2>5, ConcatProperties
  <2>4. Len(args) \in Nat /\ Len(envs) \in Nat
    OBVIOUS
  <2> QED BY <2>3, <2>4 DEF requests, b, h
<1> HIDE DEF r, n
<1>2. \A k \in 1..n : r[k] \in Nat
  BY <1>1 DEF n
<1>3. /\ s \in Seq(Nat) /\ Len(s) = n
      /\ \A k \in 1..n : s[k] = align_size_up(r[k], ALIGN) /\ s[k] >= r[k]
  <2>1. \A k \in 1..n : align_size_up(r[k], ALIGN) \in Nat /\ align_size_up(r[k], ALIGN) >= r[k]
    BY <1>2, RoundUp, StartupAssumption
  <2>2. s = [k \in 1..n |-> align_size_up(r[k], ALIGN)]
    BY DEF rounded, n
  <2> HIDE DEF s
  <2> QED BY <1>1, <2>1, <2>2
<1>4. /\ g[0] = 0 /\ \A k \in 1..n : g[k] = g[k - 1] + s[k]
      /\ \A k \in 0..n : g[k] \in Nat
  BY <1>3, SumsAre
<1>5. \A i \in 0..n : \A j \in i..n : g[i] <= g[j]
  BY <1>3, SumsGrow
<1>6. size = g[n]
  BY DEF get_size, n, r
<1>7. l = [at |-> [k \in 1..n |-> g[k - 1]], fits |-> \A k \in 1..n : size - g[k - 1] >= s[k]]
  BY <1>3 DEF layout, r
<1> HIDE DEF s, g, l, size
<1>8. /\ l.at = [k \in 1..n |-> g[k - 1]]
      /\ l.fits = \A k \in 1..n : size - g[k - 1] >= s[k]
  BY <1>7
<1>9. ASSUME NEW k \in 1..n
      PROVE  /\ g[k - 1] \in Nat /\ g[k] \in Nat /\ g[k] = g[k - 1] + s[k] /\ g[k] <= size /\ size \in Nat
             /\ s[k] \in Nat /\ r[k] \in Nat /\ s[k] >= r[k]
  <2>1. k \in 0..n /\ n \in k..n /\ k - 1 \in 0..n /\ n \in 0..n
    BY <1>1
  <2> QED BY <1>2, <1>3, <1>4, <1>5, <1>6, <2>1
<1>10. l.fits
  <2>1. ASSUME NEW k \in 1..n PROVE size - g[k - 1] >= s[k]
    <3>1. g[k - 1] + s[k] <= size /\ g[k - 1] \in Nat /\ s[k] \in Nat /\ size \in Nat
      BY <1>9
    <3> QED BY <3>1
  <2> QED BY <1>8, <2>1, Zenon
<1>11. ASSUME NEW k \in 1..n PROVE l.at[k] \in Nat /\ l.at[k] + r[k] <= size
  <2>1. g[k - 1] + s[k] <= size /\ g[k - 1] \in Nat /\ s[k] \in Nat /\ size \in Nat /\ s[k] >= r[k] /\ r[k] \in Nat
    BY <1>9
  <2>2. l.at[k] = g[k - 1]
    BY <1>8
  <2> HIDE DEF g
  <2> QED BY <2>1, <2>2
<1>12. n \in 1..n
  BY <1>1
<1>13. ASSUME r[n] = 0 PROVE l.at[n] = size
  <2>1. s[n] = 0
    <3>1. align_size_up(0, ALIGN) = 0
      BY StartupAssumption DEF align_size_up
    <3> QED BY <1>3, <1>12, <1>13, <3>1
  <2> QED BY <1>6, <1>8, <1>9, <1>12, <2>1
<1>14. ASSUME NEW k \in 1..n, l.at[k] = size PROVE r[n] = 0
  <2>1. g[k - 1] = size /\ k - 1 \in 0..n /\ n - 1 \in (k - 1)..n
    BY <1>1, <1>8, <1>14
  <2>2. g[k - 1] <= g[n - 1]
    BY <1>5, <2>1
  <2>3. g[n] = g[n - 1] + s[n] /\ g[n] = size /\ s[n] >= r[n]
    BY <1>6, <1>9, <1>12
  <2>4. s[n] \in Nat /\ r[n] \in Nat /\ g[n - 1] \in Nat /\ size \in Nat
    BY <1>9, <1>12
  <2> QED BY <2>1, <2>2, <2>3, <2>4
<1> QED BY <1>1, <1>9, <1>10, <1>11, <1>12, <1>13, <1>14 DEF r, n, l, size

\* An address below the pages' end is in one of the pages.
LEMMA InPages ==
  ASSUME NEW p \in Nat \ {0}, NEW c \in Nat, NEW va \in Nat
  PROVE  va \div p \in Nat /\ (va \div p < c <=> va < p * c)
<1> DEFINE q == va \div p
           r == va % p
<1>1. q \in Nat /\ r \in 0..(p - 1) /\ va = p * q + r
  BY DivMod
<1> HIDE DEF q, r
<1>2. p * q \in Int /\ p * c \in Int /\ p * (q + 1) \in Int /\ p * (q + 1) = p * q + p
  BY <1>1
<1>3. (p * (q + 1) <= p * c <=> q + 1 <= c) /\ (p * c <= p * q <=> c <= q)
  BY <1>1, Grows
<1> QED BY <1>1, <1>2, <1>3 DEF q

\* The pages task_init allocates hold the block, and not a page more.
LEMMA PagesHold ==
  ASSUME NEW args \in Seq(Nat), NEW envs \in Seq(Nat)
  PROVE  LET size == get_size(args, envs)
             c    == page_count(args, envs)
         IN  /\ c \in Nat /\ size \in Nat /\ size <= PAGE * c /\ PAGE * c \in Nat
             /\ size = PAGE * c <=> size % PAGE = 0
<1> DEFINE size == get_size(args, envs)
           up   == align_size_up(size, PAGE)
           c    == up \div PAGE
<1>1. size \in Nat /\ PAGE \in Nat \ {0}
  BY LaidOut, StartupAssumption
<1>2. page_count(args, envs) = c
  BY DEF page_count
<1> HIDE DEF size
<1>3. up \in Nat /\ up >= size /\ up % PAGE = 0
  BY <1>1, RoundUp
<1>4. up = size <=> size % PAGE = 0
  <2>1. CASE size % PAGE = 0
    BY <2>1 DEF align_size_up
  <2>2. CASE size % PAGE # 0
    <3>1. up # size
      BY <1>3, <2>2
    <3> QED BY <2>2, <3>1
  <2> QED BY <2>1, <2>2
<1> HIDE DEF up
<1>5. up \div PAGE \in Nat /\ up = PAGE * (up \div PAGE) + (up % PAGE)
  BY <1>1, <1>3, DivMod
<1>6. c \in Nat /\ up = PAGE * c
  BY <1>1, <1>3, <1>5
<1> HIDE DEF c
<1> QED BY <1>1, <1>2, <1>3, <1>4, <1>6 DEF size

\* Where two addresses are apart as their frames are, so are their images.
LEMMA SameDistance ==
  ASSUME NEW p \in Nat \ {0}, NEW va \in Nat, NEW d \in Nat, NEW f \in Nat
  PROVE  (f + (va + d) \div p - va \div p) * p + ((va + d) % p) = f * p + (va % p) + d
<1> DEFINE q1 == va \div p
           r1 == va % p
           q2 == (va + d) \div p
           r2 == (va + d) % p
<1>1. q1 \in Nat /\ r1 \in 0..(p - 1) /\ va = p * q1 + r1
  BY DivMod
<1>2. q2 \in Nat /\ r2 \in 0..(p - 1) /\ va + d = p * q2 + r2
  BY DivMod
<1> HIDE DEF q1, r1, q2, r2
<1>3. (f + q2 - q1) * p = f * p + p * q2 - p * q1
  BY <1>1, <1>2
<1>4. f * p \in Int /\ p * q1 \in Int /\ p * q2 \in Int
  BY <1>1, <1>2
<1>5. (f + q2 - q1) * p + r2 = f * p + r1 + d
  BY <1>1, <1>2, <1>3, <1>4
<1> QED BY <1>5 DEF q1, r1, q2, r2

\* What task_init makes of a start-up block.
LEMMA CopyIs ==
  ASSUME NEW args \in Seq(Nat), NEW envs \in Seq(Nat), NEW frames \in [1..page_count(args, envs) -> Nat]
  PROVE  LET l == layout(args, envs)
             r == requests(args, envs)
             made == copy_startup_info(args, envs, frames)
         IN  /\ made.result = IF EndsOnPage(args, envs) THEN "panic" ELSE "copied"
             /\ (/\ made.result = "copied"
                 /\ \A k \in 1..Len(r) : Consecutive(frames, l.at[k], r[k])) =>
                  \A k \in 1..Len(r) : \A i \in 1..r[k] : made.cells[k][i] = reads(frames, l.at[k], i)
<1> DEFINE l == layout(args, envs)
           r == requests(args, envs)
           n == Len(r)
           size == get_size(args, envs)
           c == page_count(args, envs)
           made == copy_startup_info(args, envs, frames)
<1>1. /\ r \in Seq(Nat) /\ n \in Nat /\ n >= 3 /\ size \in Nat
      /\ \A k \in 1..n : l.at[k] \in Nat /\ l.at[k] + r[k] <= size
      /\ r[n] = 0 => l.at[n] = size
      /\ \A k \in 1..n : l.at[k] = size => r[n] = 0
  BY LaidOut
<1>2. l.fits
  BY LaidOut
<1>3. /\ c \in Nat /\ size <= PAGE * c /\ PAGE * c \in Nat
      /\ size = PAGE * c <=> size % PAGE = 0
  BY PagesHold
<1>4. PAGE \in Nat \ {0}
  BY StartupAssumption
<1>5. Len(frames) = c /\ frames \in [1..c -> Nat]
  <2> HIDE DEF c
  <2> QED BY <1>3 DEF c
<1>6. EndsOnPage(args, envs) <=> size % PAGE = 0 /\ r[n] = 0
  BY DEF EndsOnPage, Last
<1>7. made = IF \E k \in 1..n : ~translatable(frames, l.at[k])
               THEN [result |-> "panic", cells |-> << >>]
               ELSE [result |-> "copied", cells |-> [k \in 1..n |-> written(frames, l.at[k], r[k])]]
  BY <1>2 DEF copy_startup_info
<1> HIDE DEF l, r, n, size, c, made
<1>8. \A k \in 1..n : r[k] \in Nat
  BY <1>1 DEF n
<1>9. ASSUME NEW k \in 1..n
      PROVE  translatable(frames, l.at[k]) <=> l.at[k] < PAGE * c
  BY <1>1, <1>3, <1>4, <1>5, InPages DEF translatable
<1>10. (\E k \in 1..n : ~translatable(frames, l.at[k])) <=> EndsOnPage(args, envs)
  <2>1. ASSUME NEW k \in 1..n, ~translatable(frames, l.at[k]) PROVE EndsOnPage(args, envs)
    <3>1. l.at[k] = size /\ size = PAGE * c
      <4>1. l.at[k] \in Nat /\ r[k] \in Nat /\ l.at[k] + r[k] <= size
        BY <1>1, <1>8
      <4>2. ~(l.at[k] < PAGE * c)
        BY <1>9, <2>1
      <4> DEFINE v == l.at[k]
                 q == PAGE * c
                 z == r[k]
      <4>3. v \in Nat /\ z \in Nat /\ v + z <= size /\ ~(v < q) /\ size \in Nat /\ size <= q /\ q \in Nat
        BY <1>1, <1>3, <4>1, <4>2
      <4> HIDE DEF v, q, z
      <4>4. v = size /\ size = q
        BY <4>3
      <4> QED BY <4>4 DEF v, q
    <3> QED BY <1>1, <1>3, <1>6, <3>1
  <2>2. ASSUME EndsOnPage(args, envs) PROVE ~translatable(frames, l.at[n])
    <3>1. l.at[n] = PAGE * c /\ n \in 1..n
      BY <1>1, <1>3, <1>6, <2>2
    <3> QED BY <1>3, <1>9, <3>1
  <2>3. n \in 1..n
    BY <1>1
  <2> QED BY <2>1, <2>2, <2>3
<1>11. made.result = IF EndsOnPage(args, envs) THEN "panic" ELSE "copied"
  BY <1>7, <1>10
<1>12. ASSUME made.result = "copied", \A k \in 1..n : Consecutive(frames, l.at[k], r[k]),
              NEW k \in 1..n, NEW i \in 1..r[k]
       PROVE  made.cells[k][i] = reads(frames, l.at[k], i)
  <2> DEFINE va == l.at[k]
             d == i - 1
             f == frames[va \div PAGE + 1]
  <2>1. ~EndsOnPage(args, envs)
    BY <1>11, <1>12
  <2>2. translatable(frames, va)
    BY <1>10, <2>1
  <2>3. made.cells[k][i] = kernel_vaddr(frames, va) + i - 1
    <3>1. made.cells = [j \in 1..n |-> written(frames, l.at[j], r[j])]
      BY <1>7, <1>10, <2>1
    <3> QED BY <3>1 DEF written
  <2>4. Consecutive(frames, va, r[k])
    BY <1>12
  <2>5. va \in Nat /\ d \in Nat /\ va \div PAGE \in Nat /\ va \div PAGE < c
    <3>1. va \in Nat /\ d \in Nat
      BY <1>1
    <3> HIDE DEF va, d
    <3> QED BY <1>3, <1>4, <1>5, <2>2, <3>1, InPages DEF translatable
  <2>6. frames[(va + i - 1) \div PAGE + 1] = f + (va + i - 1) \div PAGE - va \div PAGE
    BY <2>4 DEF Consecutive
  <2>7. va + i - 1 = va + d
    BY <2>5
  <2>8. f \in Nat
    <3>1. va \div PAGE + 1 \in 1..c
      BY <1>3, <2>5
    <3> HIDE DEF va
    <3> QED BY <1>5, <3>1
  <2>9. reads(frames, va, i) = (f + (va + d) \div PAGE - va \div PAGE) * PAGE + ((va + d) % PAGE)
    BY <2>6, <2>7 DEF reads, kernel_vaddr
  <2>10. kernel_vaddr(frames, va) = f * PAGE + (va % PAGE)
    BY DEF kernel_vaddr
  <2> HIDE DEF va, f
  <2>11. (f + (va + d) \div PAGE - va \div PAGE) * PAGE + ((va + d) % PAGE) = f * PAGE + (va % PAGE) + d
    <3> HIDE DEF d
    <3> QED BY <1>4, <2>5, <2>8, SameDistance
  <2>12. f * PAGE + (va % PAGE) \in Int
    BY <1>4, <2>5, <2>8
  <2> QED BY <2>3, <2>9, <2>10, <2>11, <2>12 DEF va
<1> QED BY <1>11, <1>12 DEF l, r, n, made

\* What has been made.
SInv ==
  \/ started = NotYet
  \/ \E args \in Seq(Nat), envs \in Seq(Nat) : \E frames \in [1..page_count(args, envs) -> Nat] :
       LET made == copy_startup_info(args, envs, frames)
       IN  started = [result |-> made.result, cells |-> made.cells, args |-> args, envs |-> envs, frames |-> frames]

LEMMA SStep == SInv /\ [startup]_started => SInv'
<1> SUFFICES ASSUME SInv, startup PROVE SInv'
  BY DEF SInv
<1>1. PICK args \in Lengths, envs \in Lengths : \E frames \in Placements(page_count(args, envs)) :
       LET made == copy_startup_info(args, envs, frames)
       IN  started' = [result |-> made.result, cells |-> made.cells, args |-> args, envs |-> envs, frames |-> frames]
  BY DEF startup
<1>2. args \in Seq(Nat) /\ envs \in Seq(Nat)
  <2>1. ASSUME NEW a \in Lengths PROVE a \in Seq(Nat)
    <3>1. PICK k \in 0..MaxArgs : a \in [1..k -> 0..MaxText]
      BY DEF Lengths
    <3>2. k \in Nat /\ MaxText \in Nat
      BY StartupAssumption
    <3> QED BY <3>1, <3>2
  <2> QED BY <2>1
<1>3. PICK frames \in Placements(page_count(args, envs)) :
       LET made == copy_startup_info(args, envs, frames)
       IN  started' = [result |-> made.result, cells |-> made.cells, args |-> args, envs |-> envs, frames |-> frames]
  BY <1>1
<1>4. frames \in [1..page_count(args, envs) -> Nat]
  BY StartupAssumption DEF Placements
<1> QED BY <1>2, <1>3, <1>4 DEF SInv

LEMMA StartupFollows == SInv => StartupIntact
<1> SUFFICES ASSUME SInv, started # NotYet PROVE StartupIntact
  BY DEF StartupIntact
<1>1. PICK args \in Seq(Nat), envs \in Seq(Nat) : \E frames \in [1..page_count(args, envs) -> Nat] :
       LET made == copy_startup_info(args, envs, frames)
       IN  started = [result |-> made.result, cells |-> made.cells, args |-> args, envs |-> envs, frames |-> frames]
  BY DEF SInv
<1>2. PICK frames \in [1..page_count(args, envs) -> Nat] :
       LET made == copy_startup_info(args, envs, frames)
       IN  started = [result |-> made.result, cells |-> made.cells, args |-> args, envs |-> envs, frames |-> frames]
  BY <1>1
<1> DEFINE made == copy_startup_info(args, envs, frames)
<1>3. /\ started.result = made.result /\ started.cells = made.cells
      /\ started.args = args /\ started.envs = envs /\ started.frames = frames
  BY <1>2
<1> DEFINE l == layout(args, envs)
           r == requests(args, envs)
<1>4. /\ made.result = IF EndsOnPage(args, envs) THEN "panic" ELSE "copied"
      /\ (/\ made.result = "copied"
          /\ \A k \in 1..Len(r) : Consecutive(frames, l.at[k], r[k])) =>
           \A k \in 1..Len(r) : \A i \in 1..r[k] : made.cells[k][i] = reads(frames, l.at[k], i)
  BY CopyIs
<1> HIDE DEF made
<1> QED BY <1>3, <1>4 DEF StartupIntact

\* For any arguments and environment strings, any alignment, object and page
\* sizes and whatever frames the pages get, the start-up block fits the pages
\* allocated for it, the copy stops only where an empty last string lies past
\* them, and the task reads what was written unless an object crosses into a
\* page whose frame is not the next one.
THEOREM StartupStaysIntact == SSpec => []StartupIntact
<1>1. SInit => SInv
  BY DEF SInit, SInv
<1> QED BY <1>1, SStep, StartupFollows, PTL DEF SSpec
===============================================================================
