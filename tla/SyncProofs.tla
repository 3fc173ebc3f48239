----------------------------- MODULE SyncProofs -----------------------------
(* Safety of the blocking primitives for any number of threads and permits,  *)
(* and the linked lists that wait queues and the scheduler are made of.      *)
EXTENDS Sync, Links, ListFacts, TLAPS, FiniteSetTheorems, SequenceTheorems

-----------------------------------------------------------------------------
\* Types.  waitqueue_wake_one hands its caller an item of the queue.
LEMMA WakeOneType ==
  ASSUME TypeOK, NEW t \in Threads, NEW q \in Seq(Threads), waitqueue_wake_one(q, t)
  PROVE  /\ chain' \in [Threads -> Seq(Threads)]
         /\ pc' \in [Threads -> Places]
         /\ rest(q) \in Seq(Threads)
<1>1. CASE q = << >>
  BY <1>1 DEF TypeOK, waitqueue_wake_one, rest, Places
<1>2. CASE q # << >>
  <2>1. Head(q) \in Threads /\ Tail(q) \in Seq(Threads)
    BY <1>2
  <2>2. <<Head(q)>> \in Seq(Threads)
    BY <2>1
  <2>3. chain' = [chain EXCEPT ![t] = <<Head(q)>>] /\ pc' = [pc EXCEPT ![t] = "waking"]
    BY <1>2 DEF waitqueue_wake_one
  <2>4. QED
    BY <1>2, <2>1, <2>2, <2>3 DEF TypeOK, rest, Places
<1>3. QED
  BY <1>1, <1>2

LEMMA InitType == Init => TypeOK
  BY ThreadsAssumption, PermitsAssumption DEF Init, TypeOK, Places

\* A thread that wakes has something to wake (from WaitersListed), so every
\* step keeps the types.
WakersBusy == \A t \in Threads : pc[t] = "waking" => chain[t] # << >>

LEMMA NextType ==
  ASSUME TypeOK, WakersBusy, [Next]_vars
  PROVE  TypeOK'
<1> USE DEF TypeOK
<1>1. CASE UNCHANGED vars
  BY <1>1 DEF vars
<1>2. ASSUME NEW t \in Threads, wake(t)
      PROVE  TypeOK'
  <2>1. chain[t] \in Seq(Threads) /\ chain[t] # << >>
    BY <1>2 DEF wake, WakersBusy
  <2>2. Head(chain[t]) \in Threads /\ Tail(chain[t]) \in Seq(Threads)
    BY <2>1
  <2>3. QED
    BY <1>2, <2>2 DEF wake, woken, Places
<1>3. ASSUME NEW t \in Threads, mutex_unlock_wake(t)
      PROVE  TypeOK'
  BY <1>3, WakeOneType DEF mutex_unlock_wake
<1>4. ASSUME NEW t \in Threads, semaphore_release_wake(t)
      PROVE  TypeOK'
  BY <1>4, WakeOneType DEF semaphore_release_wake
<1>5. ASSUME NEW t \in Threads, condvar_signal(t)
      PROVE  TypeOK'
  BY <1>5, WakeOneType DEF condvar_signal
<1>6. ASSUME NEW t \in Threads, mutex_lock(t)
      PROVE  TypeOK'
  <2>1. Append(mwq, t) \in Seq(Threads)
    OBVIOUS
  <2>2. CASE owner = NULL
    BY <1>6, <2>2 DEF mutex_lock, Places
  <2>3. CASE owner # NULL
    BY <1>6, <2>1, <2>3 DEF mutex_lock, Places
  <2>4. QED
    BY <2>2, <2>3
<1>7. ASSUME NEW t \in Threads, mutex_try_lock(t) \/ mutex_unlock(t)
      PROVE  TypeOK'
  BY <1>7 DEF mutex_try_lock, mutex_unlock, Places
<1>8. ASSUME NEW t \in Threads, semaphore_acquire(t)
      PROVE  TypeOK'
  <2>1. Append(swq, t) \in Seq(Threads) /\ count - 1 \in Int
    OBVIOUS
  <2>2. CASE count - 1 >= 0
    BY <1>8, <2>1, <2>2 DEF semaphore_acquire
  <2>3. CASE count - 1 < 0
    BY <1>8, <2>1, <2>3 DEF semaphore_acquire, Places
  <2>4. QED
    BY <2>1, <2>2, <2>3
<1>9. ASSUME NEW t \in Threads, semaphore_try_acquire(t) \/ semaphore_release(t)
      PROVE  TypeOK'
  <2>1. count - 1 \in Int /\ count + 1 \in Int
    OBVIOUS
  <2>2. CASE semaphore_try_acquire(t)
    BY <2>1, <2>2 DEF semaphore_try_acquire
  <2>3. CASE semaphore_release(t)
    <3>1. (IF count + 1 <= 0 THEN "sem_wake" ELSE "run") \in Places
      BY DEF Places
    <3>2. QED
      BY <2>1, <2>3, <3>1 DEF semaphore_release
  <2>4. QED
    BY <1>9, <2>2, <2>3
<1>10. ASSUME NEW t \in Threads, condvar_wait(t)
       PROVE  TypeOK'
  BY <1>10 DEF condvar_wait, Places
<1>11. ASSUME NEW t \in Threads, condvar_broadcast(t)
       PROVE  TypeOK'
  BY <1>11 DEF condvar_broadcast, Places
<1>12. QED
  BY <1>1, <1>2, <1>3, <1>4, <1>5, <1>6, <1>7, <1>8, <1>9, <1>10, <1>11 DEF Next

-----------------------------------------------------------------------------
\* WaitersListed, written thread by thread.
Waits == {"mutex_wait", "sem_wait", "cond_wait"}
Taken(u) == \E t \in Threads : u \in Range(chain[t])

Exclusive ==
  /\ IsInjective(mwq) /\ IsInjective(swq) /\ IsInjective(cwq)
  /\ \A t \in Threads : IsInjective(chain[t])
  /\ \A t, u \in Threads : t # u => Range(chain[t]) \cap Range(chain[u]) = {}
Walking == \A t \in Threads : chain[t] # << >> <=> pc[t] = "waking"
Queued ==
  \A u \in Threads : /\ u \in Range(mwq) => pc[u] = "mutex_wait" /\ ~Taken(u)
                     /\ u \in Range(swq) => pc[u] = "sem_wait" /\ ~Taken(u)
                     /\ u \in Range(cwq) => pc[u] = "cond_wait" /\ ~Taken(u)
                     /\ Taken(u) => pc[u] \in Waits
Found ==
  \A u \in Threads : /\ pc[u] = "mutex_wait" => u \in Range(mwq) \/ Taken(u)
                     /\ pc[u] = "sem_wait" => u \in Range(swq) \/ Taken(u)
                     /\ pc[u] = "cond_wait" => u \in Range(cwq) \/ Taken(u)
Listed == Exclusive /\ Walking /\ Queued /\ Found

LEMMA ListedIsWaitersListed ==
  ASSUME TypeOK
  PROVE  Listed <=> WaitersListed
<1>1. Exclusive <=> /\ \A q \in {mwq, swq, cwq} \cup Range(chain) : IsInjective(q)
                    /\ \A t, u \in Threads :
                         t # u => Range(chain[t]) \cap Range(chain[u]) = {}
  <2>1. Range(chain) = { chain[t] : t \in Threads }
    BY DEF TypeOK, Range
  <2>2. QED
    BY <2>1, Zenon DEF Exclusive
<1>2. \A u \in Threads, w \in Places : u \in Woken(w) <=> Taken(u) /\ pc[u] = w
  BY DEF Woken, Taken
<1>3. Queued /\ Found => \A t \in Threads :
        /\ pc[t] = "mutex_wait" <=> t \in Range(mwq) \cup Woken("mutex_wait")
        /\ pc[t] = "sem_wait"   <=> t \in Range(swq) \cup Woken("sem_wait")
        /\ pc[t] = "cond_wait"  <=> t \in Range(cwq) \cup Woken("cond_wait")
        /\ \A u \in Threads : u \in Range(chain[t]) =>
             /\ pc[u] \in {"mutex_wait", "sem_wait", "cond_wait"}
             /\ u \notin Range(mwq) \cup Range(swq) \cup Range(cwq)
  BY <1>2, Zenon DEF Queued, Found, Taken, Waits, Places
<1>4. WaitersListed => Queued /\ Found
  BY <1>2, Zenon DEF WaitersListed, Queued, Found, Taken, Waits, Places
<1>5. QED
  BY <1>1, <1>3, <1>4, Zenon DEF Listed, Walking, WaitersListed

\* A thread that moves between places where it neither waits nor wakes.
LEMMA MoveListed ==
  ASSUME TypeOK, Listed, NEW t \in Threads, NEW p \in Places,
         pc[t] \notin Waits \cup {"waking"}, p \notin Waits \cup {"waking"},
         pc' = [pc EXCEPT ![t] = p],
         UNCHANGED <<mwq, swq, cwq, chain>>
  PROVE  Listed'
<1>1. \A u \in Threads : u # t => pc'[u] = pc[u]
  BY DEF TypeOK
<1>2. pc'[t] = p
  BY DEF TypeOK
<1>3. Exclusive'
  BY DEF Listed, Exclusive
<1>4. Walking'
  BY <1>1, <1>2, Zenon DEF Listed, Walking
<1>5. \A u \in Threads : Taken(u)' <=> Taken(u)
  BY DEF Taken
<1>6. Queued'
  BY <1>1, <1>2, <1>5, Zenon DEF Listed, Queued, Waits
<1>7. Found'
  BY <1>1, <1>2, <1>5, Zenon DEF Listed, Found, Waits
<1>8. QED
  BY <1>3, <1>4, <1>6, <1>7 DEF Listed

\* A thread that begins to wait is on no list and goes on one.
LEMMA WaitListed ==
  ASSUME TypeOK, Listed, NEW t \in Threads,
         pc[t] \notin Waits \cup {"waking"},
         UNCHANGED chain,
         \/ /\ pc' = [pc EXCEPT ![t] = "mutex_wait"]
            /\ mwq' = Append(mwq, t) /\ UNCHANGED <<swq, cwq>>
         \/ /\ pc' = [pc EXCEPT ![t] = "sem_wait"]
            /\ swq' = Append(swq, t) /\ UNCHANGED <<mwq, cwq>>
         \/ /\ pc' = [pc EXCEPT ![t] = "cond_wait"]
            /\ cwq' = Append(cwq, t) /\ UNCHANGED <<mwq, swq>>
  PROVE  Listed'
<1>1. \A u \in Threads : u # t => pc'[u] = pc[u]
  BY DEF TypeOK
<1>2. /\ t \notin Range(mwq) /\ t \notin Range(swq) /\ t \notin Range(cwq)
      /\ ~Taken(t)
  BY Zenon DEF Listed, Queued, Waits
<1>3. \A u \in Threads : Taken(u)' <=> Taken(u)
  BY DEF Taken
<1>4. /\ Range(Append(mwq, t)) = Range(mwq) \cup {t} /\ IsInjective(Append(mwq, t))
      /\ Range(Append(swq, t)) = Range(swq) \cup {t} /\ IsInjective(Append(swq, t))
      /\ Range(Append(cwq, t)) = Range(cwq) \cup {t} /\ IsInjective(Append(cwq, t))
  <2>1. ASSUME NEW q \in Seq(Threads), t \notin Range(q), IsInjective(q)
        PROVE  Range(Append(q, t)) = Range(q) \cup {t} /\ IsInjective(Append(q, t))
    BY <2>1, AppendItem
  <2>2. QED
    BY <1>2, <2>1, Zenon DEF TypeOK, Listed, Exclusive
<1>5. Exclusive'
  <2>1. mwq' \in {mwq, Append(mwq, t)} /\ swq' \in {swq, Append(swq, t)}
        /\ cwq' \in {cwq, Append(cwq, t)}
    OBVIOUS
  <2>2. IsInjective(mwq') /\ IsInjective(swq') /\ IsInjective(cwq')
    BY <2>1, <1>4, Zenon DEF Listed, Exclusive
  <2>3. QED
    BY <2>2, Zenon DEF Listed, Exclusive
<1>6. pc'[t] \in Waits
  BY DEF TypeOK, Waits
<1>7. Walking'
  BY <1>1, <1>6, Zenon DEF Listed, Walking, Waits
<1>8. CASE pc' = [pc EXCEPT ![t] = "mutex_wait"] /\ mwq' = Append(mwq, t) /\ UNCHANGED <<swq, cwq>>
  <2>1. pc'[t] = "mutex_wait" /\ Range(mwq)' = Range(mwq) \cup {t}
        /\ Range(swq)' = Range(swq) /\ Range(cwq)' = Range(cwq)
    BY <1>8, <1>4 DEF TypeOK
  <2>2. Queued' /\ Found'
    BY <2>1, <1>1, <1>2, <1>3, <1>6, Zenon DEF Listed, Queued, Found, Waits
  <2>3. QED
    BY <2>2, <1>5, <1>7 DEF Listed
<1>9. CASE pc' = [pc EXCEPT ![t] = "sem_wait"] /\ swq' = Append(swq, t) /\ UNCHANGED <<mwq, cwq>>
  <2>1. pc'[t] = "sem_wait" /\ Range(swq)' = Range(swq) \cup {t}
        /\ Range(mwq)' = Range(mwq) /\ Range(cwq)' = Range(cwq)
    BY <1>9, <1>4 DEF TypeOK
  <2>2. Queued' /\ Found'
    BY <2>1, <1>1, <1>2, <1>3, <1>6, Zenon DEF Listed, Queued, Found, Waits
  <2>3. QED
    BY <2>2, <1>5, <1>7 DEF Listed
<1>10. CASE pc' = [pc EXCEPT ![t] = "cond_wait"] /\ cwq' = Append(cwq, t) /\ UNCHANGED <<mwq, swq>>
  <2>1. pc'[t] = "cond_wait" /\ Range(cwq)' = Range(cwq) \cup {t}
        /\ Range(mwq)' = Range(mwq) /\ Range(swq)' = Range(swq)
    BY <1>10, <1>4 DEF TypeOK
  <2>2. Queued' /\ Found'
    BY <2>1, <1>1, <1>2, <1>3, <1>6, Zenon DEF Listed, Queued, Found, Waits
  <2>3. QED
    BY <2>2, <1>5, <1>7 DEF Listed
<1>11. QED
  BY <1>8, <1>9, <1>10

\* A thread that takes the items d off the queues it finds them on.
LEMMA DetachListed ==
  ASSUME TypeOK, Listed, NEW t \in Threads, NEW d \in Seq(Threads),
         pc[t] \notin Waits \cup {"waking"},
         d # << >>, IsInjective(d),
         pc' = [pc EXCEPT ![t] = "waking"],
         chain' = [chain EXCEPT ![t] = d],
         Range(d) \subseteq Range(mwq) \cup Range(swq) \cup Range(cwq),
         Range(mwq') = Range(mwq) \ Range(d), IsInjective(mwq'),
         Range(swq') = Range(swq) \ Range(d), IsInjective(swq'),
         Range(cwq') = Range(cwq) \ Range(d), IsInjective(cwq')
  PROVE  Listed'
<1>1. /\ \A u \in Threads : u # t => pc'[u] = pc[u] /\ chain'[u] = chain[u]
      /\ pc'[t] = "waking" /\ chain'[t] = d
  BY DEF TypeOK
<1>2. chain[t] = << >> /\ Range(chain[t]) = {}
  <2>1. chain[t] = << >>
    BY Zenon DEF Listed, Walking
  <2>2. QED
    BY <2>1 DEF Range
<1>3. \A u \in Threads : Taken(u)' <=> Taken(u) \/ u \in Range(d)
  BY <1>1, <1>2, Zenon DEF Taken
<1>4. \A u \in Range(d) : u \in Threads /\ ~Taken(u) /\ pc[u] \in Waits
  <2>1. Range(d) \subseteq Threads
    BY DEF Range
  <2>2. QED
    BY <2>1, Zenon DEF Listed, Queued, Waits
<1>5. Exclusive'
  <2>1. \A u \in Threads : IsInjective(chain'[u])
    BY <1>1, Zenon DEF Listed, Exclusive
  <2>2. \A u \in Threads : u # t => Range(chain'[t]) \cap Range(chain'[u]) = {}
    <3> SUFFICES ASSUME NEW u \in Threads, u # t, NEW x \in Range(d), x \in Range(chain[u])
                 PROVE  FALSE
      BY <1>1
    <3>1. QED
      BY <1>4 DEF Taken
  <2>3. \A u, v \in Threads : u # v => Range(chain'[u]) \cap Range(chain'[v]) = {}
    <3> SUFFICES ASSUME NEW u \in Threads, NEW v \in Threads, u # v
                 PROVE  Range(chain'[u]) \cap Range(chain'[v]) = {}
      OBVIOUS
    <3>1. CASE u = t \/ v = t
      BY <3>1, <2>2
    <3>2. CASE u # t /\ v # t
      BY <3>2, <1>1 DEF Listed, Exclusive
    <3>3. QED
      BY <3>1, <3>2
  <2>4. QED
    BY <2>1, <2>3, Zenon DEF Exclusive
<1>6. Walking'
  BY <1>1, Zenon DEF Listed, Walking
<1>7. Queued'
  BY <1>1, <1>3, <1>4, Zenon DEF Listed, Queued, Waits
<1>8. Found'
  BY <1>1, <1>3, Zenon DEF Listed, Found
<1>9. QED
  BY <1>5, <1>6, <1>7, <1>8 DEF Listed

\* waitqueue_wake_one on one of the queues, by a thread busy with nothing else.
LEMMA WakeOneListed ==
  ASSUME TypeOK, Listed, NEW t \in Threads, pc[t] \notin Waits \cup {"waking"},
         \/ waitqueue_wake_one(mwq, t) /\ mwq' = rest(mwq) /\ UNCHANGED <<swq, cwq>>
         \/ waitqueue_wake_one(swq, t) /\ swq' = rest(swq) /\ UNCHANGED <<mwq, cwq>>
         \/ waitqueue_wake_one(cwq, t) /\ cwq' = rest(cwq) /\ UNCHANGED <<mwq, swq>>
  PROVE  Listed'
<1>1. \A x \in Threads : /\ x \in Range(mwq) => x \notin Range(swq) \cup Range(cwq)
                         /\ x \in Range(swq) => x \notin Range(mwq) \cup Range(cwq)
                         /\ x \in Range(cwq) => x \notin Range(mwq) \cup Range(swq)
  BY DEF Listed, Queued
<1>2. ASSUME NEW q \in Seq(Threads), q = << >>, waitqueue_wake_one(q, t),
             UNCHANGED <<mwq, swq, cwq>>
      PROVE  Listed'
  <2>1. UNCHANGED chain /\ pc' = [pc EXCEPT ![t] = "run"]
    BY <1>2 DEF waitqueue_wake_one
  <2>2. "run" \in Places /\ "run" \notin Waits \cup {"waking"}
    BY DEF Places, Waits
  <2>3. QED
    BY <1>2, <2>1, <2>2, MoveListed
<1>3. ASSUME NEW q \in Seq(Threads), q # << >>, waitqueue_wake_one(q, t)
      PROVE  /\ chain' = [chain EXCEPT ![t] = <<Head(q)>>]
             /\ pc' = [pc EXCEPT ![t] = "waking"]
             /\ <<Head(q)>> \in Seq(Threads) /\ <<Head(q)>> # << >>
             /\ IsInjective(<<Head(q)>>) /\ Range(<<Head(q)>>) = {Head(q)}
             /\ Head(q) \in Range(q) /\ rest(q) = Tail(q)
             /\ IsInjective(q) => IsInjective(Tail(q)) /\ Range(Tail(q)) = Range(q) \ {Head(q)}
  <2>1. Head(q) \in Threads /\ Head(q) \in Range(q)
    BY <1>3, TakeItem
  <2>2. IsInjective(q) => IsInjective(Tail(q)) /\ Range(Tail(q)) = Range(q) \ {Head(q)}
    BY <1>3, TakeItem
  <2>3. IsInjective(<<Head(q)>>) /\ Range(<<Head(q)>>) = {Head(q)}
    BY DEF IsInjective, Range
  <2>4. QED
    BY <1>3, <2>1, <2>2, <2>3 DEF waitqueue_wake_one, rest
<1>4. CASE waitqueue_wake_one(mwq, t) /\ mwq' = rest(mwq) /\ UNCHANGED <<swq, cwq>>
  <2>1. CASE mwq = << >>
    BY <1>2, <1>4, <2>1 DEF TypeOK, rest
  <2>2. CASE mwq # << >>
    <3>1. Head(mwq) \in Threads /\ Head(mwq) \in Range(mwq)
      BY <2>2, TakeItem DEF TypeOK
    <3>2. Range(swq) \ {Head(mwq)} = Range(swq) /\ Range(cwq) \ {Head(mwq)} = Range(cwq)
      BY <1>1, <3>1
    <3> DEFINE d == <<Head(mwq)>>
    <3>3. /\ chain' = [chain EXCEPT ![t] = d] /\ pc' = [pc EXCEPT ![t] = "waking"]
          /\ d \in Seq(Threads) /\ d # << >> /\ IsInjective(d) /\ Range(d) = {Head(mwq)}
          /\ mwq' = Tail(mwq) /\ IsInjective(Tail(mwq))
          /\ Range(Tail(mwq)) = Range(mwq) \ {Head(mwq)}
      BY <1>3, <1>4, <2>2 DEF TypeOK, Listed, Exclusive
    <3>4. /\ swq' = swq /\ cwq' = cwq /\ IsInjective(swq) /\ IsInjective(cwq)
      BY <1>4 DEF Listed, Exclusive
    <3> HIDE DEF d
    <3>5. Range(d) \subseteq Range(mwq) \cup Range(swq) \cup Range(cwq)
      BY <3>1, <3>3
    <3>6. QED
      BY <3>1, <3>2, <3>3, <3>4, <3>5, DetachListed
  <2>3. QED
    BY <2>1, <2>2
<1>5. CASE waitqueue_wake_one(swq, t) /\ swq' = rest(swq) /\ UNCHANGED <<mwq, cwq>>
  <2>1. CASE swq = << >>
    BY <1>2, <1>5, <2>1 DEF TypeOK, rest
  <2>2. CASE swq # << >>
    <3>1. Head(swq) \in Threads /\ Head(swq) \in Range(swq)
      BY <2>2, TakeItem DEF TypeOK
    <3>2. Range(mwq) \ {Head(swq)} = Range(mwq) /\ Range(cwq) \ {Head(swq)} = Range(cwq)
      BY <1>1, <3>1
    <3> DEFINE d == <<Head(swq)>>
    <3>3. /\ chain' = [chain EXCEPT ![t] = d] /\ pc' = [pc EXCEPT ![t] = "waking"]
          /\ d \in Seq(Threads) /\ d # << >> /\ IsInjective(d) /\ Range(d) = {Head(swq)}
          /\ swq' = Tail(swq) /\ IsInjective(Tail(swq))
          /\ Range(Tail(swq)) = Range(swq) \ {Head(swq)}
      BY <1>3, <1>5, <2>2 DEF TypeOK, Listed, Exclusive
    <3>4. /\ mwq' = mwq /\ cwq' = cwq /\ IsInjective(mwq) /\ IsInjective(cwq)
      BY <1>5 DEF Listed, Exclusive
    <3> HIDE DEF d
    <3>5. Range(d) \subseteq Range(mwq) \cup Range(swq) \cup Range(cwq)
      BY <3>1, <3>3
    <3>6. QED
      BY <3>1, <3>2, <3>3, <3>4, <3>5, DetachListed
  <2>3. QED
    BY <2>1, <2>2
<1>6. CASE waitqueue_wake_one(cwq, t) /\ cwq' = rest(cwq) /\ UNCHANGED <<mwq, swq>>
  <2>1. CASE cwq = << >>
    BY <1>2, <1>6, <2>1 DEF TypeOK, rest
  <2>2. CASE cwq # << >>
    <3>1. Head(cwq) \in Threads /\ Head(cwq) \in Range(cwq)
      BY <2>2, TakeItem DEF TypeOK
    <3>2. Range(mwq) \ {Head(cwq)} = Range(mwq) /\ Range(swq) \ {Head(cwq)} = Range(swq)
      BY <1>1, <3>1
    <3> DEFINE d == <<Head(cwq)>>
    <3>3. /\ chain' = [chain EXCEPT ![t] = d] /\ pc' = [pc EXCEPT ![t] = "waking"]
          /\ d \in Seq(Threads) /\ d # << >> /\ IsInjective(d) /\ Range(d) = {Head(cwq)}
          /\ cwq' = Tail(cwq) /\ IsInjective(Tail(cwq))
          /\ Range(Tail(cwq)) = Range(cwq) \ {Head(cwq)}
      BY <1>3, <1>6, <2>2 DEF TypeOK, Listed, Exclusive
    <3>4. /\ mwq' = mwq /\ swq' = swq /\ IsInjective(mwq) /\ IsInjective(swq)
      BY <1>6 DEF Listed, Exclusive
    <3> HIDE DEF d
    <3>5. Range(d) \subseteq Range(mwq) \cup Range(swq) \cup Range(cwq)
      BY <3>1, <3>3
    <3>6. QED
      BY <3>1, <3>2, <3>3, <3>4, <3>5, DetachListed
  <2>3. QED
    BY <2>1, <2>2
<1>7. QED
  BY <1>4, <1>5, <1>6

\* waitqueue_wake_all detaches the condition variable's whole queue.
LEMMA BroadcastListed ==
  ASSUME TypeOK, Listed, NEW t \in Threads, condvar_broadcast(t)
  PROVE  Listed'
<1>1. pc[t] \notin Waits \cup {"waking"}
  BY DEF condvar_broadcast, Waits
<1>2. \A x \in Threads : x \in Range(cwq) => x \notin Range(mwq) \cup Range(swq)
  BY DEF Listed, Queued
<1>3. Range(cwq) \subseteq Threads
  BY DEF TypeOK, Range
<1>4. Range(mwq) = Range(mwq) \ Range(cwq) /\ Range(swq) = Range(swq) \ Range(cwq)
  BY <1>2, <1>3
<1>5. Range(<< >>) = {} /\ IsInjective(<< >>)
  BY DEF Range, IsInjective
<1>6. /\ cwq # << >> /\ cwq' = << >> /\ mwq' = mwq /\ swq' = swq
      /\ chain' = [chain EXCEPT ![t] = cwq] /\ pc' = [pc EXCEPT ![t] = "waking"]
      /\ IsInjective(mwq) /\ IsInjective(swq) /\ IsInjective(cwq) /\ cwq \in Seq(Threads)
  BY DEF TypeOK, Listed, Exclusive, condvar_broadcast
<1>7. Range(cwq') = Range(cwq) \ Range(cwq) /\ IsInjective(cwq')
  BY <1>5, <1>6
<1>8. QED
  BY <1>1, <1>4, <1>6, <1>7, DetachListed

\* The waiter of the first item is called: it leaves the last list it was on.
LEMMA WakeListed ==
  ASSUME TypeOK, Listed, NEW t \in Threads, wake(t)
  PROVE  Listed'
<1> DEFINE u == Head(chain[t])
<1>1. chain[t] \in Seq(Threads) /\ chain[t] # << >> /\ IsInjective(chain[t]) /\ pc[t] = "waking"
  BY Zenon DEF TypeOK, Listed, Walking, Exclusive, wake
<1>2. /\ u \in Threads /\ Tail(chain[t]) \in Seq(Threads)
      /\ Range(chain[t]) = Range(Tail(chain[t])) \cup {u}
      /\ u \notin Range(Tail(chain[t])) /\ IsInjective(Tail(chain[t]))
  BY <1>1, TakeItem
<1>3. Taken(u) /\ pc[u] \in Waits /\ u # t
  <2>1. Taken(u)
    BY <1>2, Zenon DEF Taken
  <2>2. QED
    BY <1>1, <1>2, <2>1, Zenon DEF Listed, Queued, Waits
<1>4. Len(chain[t]) = 1 <=> Tail(chain[t]) = << >>
  <2>1. ASSUME NEW q \in Seq(Threads), q # << >>
        PROVE  Len(q) = 1 <=> Tail(q) = << >>
    <3>1. Tail(q) \in Seq(Threads) /\ Len(Tail(q)) = Len(q) - 1 /\ Len(q) \in Nat
      BY <2>1, TakeItem
    <3>2. Tail(q) = << >> <=> Len(Tail(q)) = 0
      BY <3>1, EmptySeq
    <3>3. QED
      BY <3>1, <3>2
  <2>2. QED
    BY <1>1, <2>1
<1> HIDE DEF u
<1>5. /\ mwq' = mwq /\ swq' = swq /\ cwq' = cwq
      /\ chain' = [chain EXCEPT ![t] = Tail(chain[t])]
      /\ pc' = [pc EXCEPT ![u] = IF pc[u] = "mutex_wait" THEN "mutex_retry" ELSE "run",
                          ![t] = IF Len(chain[t]) = 1 THEN "run" ELSE "waking"]
  BY DEF wake, woken, u
<1>6. /\ pc'[u] \in {"mutex_retry", "run"}
      /\ pc'[t] = "waking" <=> Tail(chain[t]) # << >>
      /\ pc'[t] \in {"run", "waking"}
      /\ \A v \in Threads : v # u /\ v # t => pc'[v] = pc[v]
  <2>1. pc'[u] = IF pc[u] = "mutex_wait" THEN "mutex_retry" ELSE "run"
    BY <1>2, <1>3, <1>5 DEF TypeOK
  <2>2. pc'[t] = IF Len(chain[t]) = 1 THEN "run" ELSE "waking"
    BY <1>2, <1>3, <1>5 DEF TypeOK
  <2>3. \A v \in Threads : v # u /\ v # t => pc'[v] = pc[v]
    BY <1>2, <1>5 DEF TypeOK
  <2>4. QED
    BY <1>4, <2>1, <2>2, <2>3
<1>7. chain'[t] = Tail(chain[t]) /\ \A v \in Threads : v # t => chain'[v] = chain[v]
  BY <1>5 DEF TypeOK
<1>8. \A v \in Threads : Taken(v)' <=> Taken(v) /\ v # u
  <2>1. \A v \in Threads : v # t => u \notin Range(chain[v])
    BY <1>2, Zenon DEF Listed, Exclusive
  <2>2. \A v, w \in Threads : v \in Range(chain'[w]) <=> v \in Range(chain[w]) /\ v # u
    <3> SUFFICES ASSUME NEW v \in Threads, NEW w \in Threads
                 PROVE  v \in Range(chain'[w]) <=> v \in Range(chain[w]) /\ v # u
      OBVIOUS
    <3>1. CASE w = t
      BY <3>1, <1>2, <1>7
    <3>2. CASE w # t
      BY <3>2, <1>7, <2>1
    <3>3. QED
      BY <3>1, <3>2
  <2>3. QED
    BY <2>2, Zenon DEF Taken
<1>9. Exclusive'
  <2>1. \A v \in Threads : IsInjective(chain'[v])
    BY <1>2, <1>7, Zenon DEF Listed, Exclusive
  <2>2. \A v \in Threads : Range(chain'[v]) \subseteq Range(chain[v])
    BY <1>2, <1>7
  <2>3. \A v, w \in Threads : v # w => Range(chain'[v]) \cap Range(chain'[w]) = {}
    BY <2>2 DEF Listed, Exclusive
  <2>4. QED
    BY <1>5, <2>1, <2>3, Zenon DEF Listed, Exclusive
<1>10. Walking'
  <2> SUFFICES ASSUME NEW v \in Threads PROVE chain'[v] # << >> <=> pc'[v] = "waking"
    BY DEF Walking
  <2>1. CASE v = t
    BY <2>1, <1>6, <1>7, Zenon
  <2>2. CASE v = u
    <3>1. chain[u] = << >>
      BY <1>2, <1>3, Zenon DEF Listed, Walking, Waits
    <3>2. QED
      BY <2>2, <3>1, <1>2, <1>3, <1>6, <1>7, Zenon
  <2>3. CASE v # t /\ v # u
    BY <2>3, <1>6, <1>7, Zenon DEF Listed, Walking
  <2>4. QED
    BY <2>1, <2>2, <2>3
<1>11. ~Taken(t) /\ t \notin Range(mwq) /\ t \notin Range(swq) /\ t \notin Range(cwq)
  BY <1>1, Zenon DEF Listed, Queued, Waits
<1>12. u \notin Range(mwq) /\ u \notin Range(swq) /\ u \notin Range(cwq)
  BY <1>2, <1>3, Zenon DEF Listed, Queued
<1>13. Queued'
  <2> SUFFICES ASSUME NEW v \in Threads
               PROVE  /\ v \in Range(mwq) => pc'[v] = "mutex_wait" /\ ~Taken(v)'
                      /\ v \in Range(swq) => pc'[v] = "sem_wait" /\ ~Taken(v)'
                      /\ v \in Range(cwq) => pc'[v] = "cond_wait" /\ ~Taken(v)'
                      /\ Taken(v)' => pc'[v] \in Waits
    BY <1>5 DEF Queued
  <2>1. CASE v = t \/ v = u
    BY <2>1, <1>8, <1>11, <1>12, Zenon
  <2>2. CASE v # t /\ v # u
    BY <2>2, <1>6, <1>8, Zenon DEF Listed, Queued
  <2>3. QED
    BY <2>1, <2>2
<1>14. Found'
  <2> SUFFICES ASSUME NEW v \in Threads
               PROVE  /\ pc'[v] = "mutex_wait" => v \in Range(mwq) \/ Taken(v)'
                      /\ pc'[v] = "sem_wait" => v \in Range(swq) \/ Taken(v)'
                      /\ pc'[v] = "cond_wait" => v \in Range(cwq) \/ Taken(v)'
    BY <1>5 DEF Found
  <2>1. CASE v = t \/ v = u
    BY <2>1, <1>6
  <2>2. CASE v # t /\ v # u
    BY <2>2, <1>6, <1>8, Zenon DEF Listed, Found
  <2>3. QED
    BY <2>1, <2>2
<1>15. QED
  BY <1>9, <1>10, <1>13, <1>14 DEF Listed

LEMMA InitListed == Init => Listed
<1> SUFFICES ASSUME Init PROVE Listed
  OBVIOUS
<1>1. Range(<< >>) = {} /\ IsInjective(<< >>)
  BY DEF Range, IsInjective
<1>2. \A t \in Threads : chain[t] = << >> /\ pc[t] = "run"
  BY DEF Init
<1>3. \A u \in Threads : ~Taken(u)
  BY <1>1, <1>2 DEF Taken
<1>4. Exclusive
  BY <1>1, <1>2 DEF Exclusive, Init
<1>5. Walking /\ Queued /\ Found
  BY <1>1, <1>2, <1>3 DEF Walking, Queued, Found, Init
<1>6. QED
  BY <1>4, <1>5 DEF Listed

LEMMA NextListed ==
  ASSUME TypeOK, Listed, [Next]_vars
  PROVE  Listed'
<1>p. /\ \A p \in {"run", "mutex_retry", "mutex_wake", "sem_wake"} :
           p \in Places /\ p \notin Waits \cup {"waking"}
  BY DEF Places, Waits
<1>1. CASE UNCHANGED vars
  <2>1. UNCHANGED <<mwq, swq, cwq, pc, chain>>
    BY <1>1 DEF vars
  <2>2. QED
    BY <2>1 DEF Listed, Exclusive, Walking, Queued, Found, Taken
<1>2. ASSUME NEW t \in Threads, wake(t)
      PROVE  Listed'
  BY <1>2, WakeListed
<1>3. ASSUME NEW t \in Threads, mutex_unlock_wake(t) \/ semaphore_release_wake(t) \/ condvar_signal(t)
      PROVE  Listed'
  <2>1. pc[t] \notin Waits \cup {"waking"}
    BY <1>3 DEF mutex_unlock_wake, semaphore_release_wake, condvar_signal, Waits
  <2>2. QED
    BY <1>3, <2>1, WakeOneListed DEF mutex_unlock_wake, semaphore_release_wake, condvar_signal
<1>4. ASSUME NEW t \in Threads, mutex_lock(t)
      PROVE  Listed'
  <2>1. pc[t] \in {"run", "mutex_retry"}
    BY <1>4 DEF mutex_lock, Free
  <2>2. CASE owner = NULL
    <3>1. pc' = [pc EXCEPT ![t] = "run"] /\ UNCHANGED <<mwq, swq, cwq, chain>>
      BY <1>4, <2>2 DEF mutex_lock
    <3>2. QED
      BY <1>p, <2>1, <3>1, MoveListed
  <2>3. CASE owner # NULL
    <3>1. pc' = [pc EXCEPT ![t] = "mutex_wait"] /\ mwq' = Append(mwq, t)
          /\ UNCHANGED <<swq, cwq, chain>>
      BY <1>4, <2>3 DEF mutex_lock
    <3>2. QED
      BY <1>p, <2>1, <3>1, WaitListed
  <2>4. QED
    BY <2>2, <2>3
<1>5. ASSUME NEW t \in Threads, mutex_try_lock(t) \/ mutex_unlock(t)
      PROVE  Listed'
  <2>1. pc[t] = "run" /\ UNCHANGED <<mwq, swq, cwq, chain>>
    BY <1>5 DEF mutex_try_lock, mutex_unlock, Free
  <2>2. pc' = [pc EXCEPT ![t] = "run"] \/ pc' = [pc EXCEPT ![t] = "mutex_wake"]
    BY <1>5, <2>1 DEF mutex_try_lock, mutex_unlock, TypeOK
  <2>3. QED
    BY <1>p, <2>1, <2>2, MoveListed
<1>6. ASSUME NEW t \in Threads, semaphore_acquire(t)
      PROVE  Listed'
  <2>1. pc[t] = "run" /\ UNCHANGED <<mwq, cwq, chain>>
    BY <1>6 DEF semaphore_acquire, Free
  <2>2. CASE count - 1 >= 0
    <3>1. pc' = [pc EXCEPT ![t] = "run"] /\ UNCHANGED swq
      BY <1>6, <2>1, <2>2 DEF semaphore_acquire, TypeOK
    <3>2. QED
      BY <1>p, <2>1, <3>1, MoveListed
  <2>3. CASE count - 1 < 0
    <3>1. pc' = [pc EXCEPT ![t] = "sem_wait"] /\ swq' = Append(swq, t)
      BY <1>6, <2>3 DEF semaphore_acquire, TypeOK
    <3>2. QED
      BY <1>p, <2>1, <3>1, WaitListed
  <2>4. QED
    BY <2>2, <2>3 DEF TypeOK
<1>7. ASSUME NEW t \in Threads, semaphore_try_acquire(t) \/ semaphore_release(t)
      PROVE  Listed'
  <2>1. pc[t] = "run" /\ UNCHANGED <<mwq, swq, cwq, chain>>
    BY <1>7 DEF semaphore_try_acquire, semaphore_release, Free
  <2>2. pc' = [pc EXCEPT ![t] = "run"] \/ pc' = [pc EXCEPT ![t] = "sem_wake"]
    BY <1>7, <2>1 DEF semaphore_try_acquire, semaphore_release, TypeOK
  <2>3. QED
    BY <1>p, <2>1, <2>2, MoveListed
<1>8. ASSUME NEW t \in Threads, condvar_wait(t)
      PROVE  Listed'
  <2>1. pc[t] = "run"
    BY <1>8 DEF condvar_wait, Free
  <2>2. QED
    BY <1>8, <1>p, <2>1, WaitListed DEF condvar_wait
<1>9. ASSUME NEW t \in Threads, condvar_broadcast(t)
      PROVE  Listed'
  BY <1>9, BroadcastListed
<1>10. QED
  BY <1>1, <1>2, <1>3, <1>4, <1>5, <1>6, <1>7, <1>8, <1>9 DEF Next

-----------------------------------------------------------------------------
\* Who holds something runs, or wakes others, and holds one thing.
Holding ==
  /\ \A t \in inside \cup held : pc[t] \in {"run", "waking"}
  /\ inside \cap held = {}

LEMMA NextHolding ==
  ASSUME TypeOK, Listed, Holding, [Next]_vars
  PROVE  Holding'
<1> USE DEF Holding, TypeOK
<1>1. CASE UNCHANGED vars
  BY <1>1 DEF vars
<1>2. ASSUME NEW t \in Threads, wake(t)
      PROVE  Holding'
  <2> DEFINE u == Head(chain[t])
  <2>1. u \in Threads /\ u \in Range(chain[t])
    <3>1. chain[t] \in Seq(Threads) /\ chain[t] # << >>
      BY <1>2, Zenon DEF wake, Listed, Walking
    <3>2. QED
      BY <3>1, TakeItem
  <2>2. pc[u] \in Waits /\ pc[t] = "waking"
    BY <1>2, <2>1, Zenon DEF wake, Listed, Queued, Taken
  <2>3. u # t /\ u \notin inside \cup held
    BY <2>1, <2>2 DEF Waits
  <2> HIDE DEF u
  <2>4. /\ pc' = [pc EXCEPT ![u] = IF pc[u] = "mutex_wait" THEN "mutex_retry" ELSE "run",
                            ![t] = IF Len(chain[t]) = 1 THEN "run" ELSE "waking"]
        /\ held' = IF pc[u] = "sem_wait" THEN held \cup {u} ELSE held
        /\ inside' = inside
    BY <1>2 DEF wake, woken, u
  <2>5. pc'[t] \in {"run", "waking"} /\ (pc[u] # "mutex_wait" => pc'[u] = "run")
    BY <2>1, <2>3, <2>4
  <2>6. \A v \in Threads : v # u /\ v # t => pc'[v] = pc[v]
    BY <2>1, <2>4
  <2>7. QED
    BY <2>3, <2>4, <2>5, <2>6
<1>3. ASSUME NEW t \in Threads,
             mutex_unlock_wake(t) \/ semaphore_release_wake(t) \/ condvar_signal(t)
      PROVE  Holding'
  <2>1. inside' = inside /\ held' = held
    BY <1>3 DEF mutex_unlock_wake, semaphore_release_wake, condvar_signal
  <2>2. pc' = [pc EXCEPT ![t] = "run"] \/ pc' = [pc EXCEPT ![t] = "waking"]
    BY <1>3 DEF mutex_unlock_wake, semaphore_release_wake, condvar_signal, waitqueue_wake_one
  <2>3. QED
    BY <2>1, <2>2
<1>4. ASSUME NEW t \in Threads, mutex_lock(t)
      PROVE  Holding'
  <2>1. t \notin held
    BY <1>4 DEF mutex_lock, Free
  <2>2. t \in inside => pc[t] = "run"
    BY <1>4 DEF mutex_lock, Free
  <2>3. CASE owner = NULL
    BY <1>4, <2>1, <2>3 DEF mutex_lock
  <2>4. CASE owner # NULL
    <3>1. t \notin inside
      BY <1>4 DEF mutex_lock, Free
    <3>2. QED
      BY <1>4, <2>1, <2>4, <3>1 DEF mutex_lock
  <2>5. QED
    BY <2>3, <2>4
<1>5. ASSUME NEW t \in Threads, mutex_try_lock(t) \/ mutex_unlock(t)
      PROVE  Holding'
  <2>1. CASE mutex_try_lock(t)
    BY <2>1 DEF mutex_try_lock, Free
  <2>2. CASE mutex_unlock(t)
    BY <2>2 DEF mutex_unlock
  <2>3. QED
    BY <1>5, <2>1, <2>2
<1>6. ASSUME NEW t \in Threads, semaphore_acquire(t)
      PROVE  Holding'
  <2>1. pc[t] = "run" /\ t \notin inside /\ t \notin held
    BY <1>6 DEF semaphore_acquire, Free
  <2>2. \/ held' = held \cup {t} /\ pc' = pc
        \/ held' = held /\ pc' = [pc EXCEPT ![t] = "sem_wait"]
    BY <1>6 DEF semaphore_acquire
  <2>3. inside' = inside
    BY <1>6 DEF semaphore_acquire
  <2>4. QED
    BY <2>1, <2>2, <2>3
<1>7. ASSUME NEW t \in Threads, semaphore_try_acquire(t) \/ semaphore_release(t)
      PROVE  Holding'
  <2>1. CASE semaphore_try_acquire(t)
    BY <2>1 DEF semaphore_try_acquire, Free
  <2>2. CASE semaphore_release(t)
    <3>1. /\ t \in held /\ held' = held \ {t} /\ inside' = inside
          /\ \A u \in Threads : u # t => pc'[u] = pc[u]
      BY <2>2 DEF semaphore_release
    <3>2. QED
      BY <3>1
  <2>3. QED
    BY <1>7, <2>1, <2>2
<1>8. ASSUME NEW t \in Threads, condvar_wait(t)
      PROVE  Holding'
  BY <1>8 DEF condvar_wait, Free
<1>9. ASSUME NEW t \in Threads, condvar_broadcast(t)
      PROVE  Holding'
  BY <1>9 DEF condvar_broadcast
<1>10. QED
  BY <1>1, <1>2, <1>3, <1>4, <1>5, <1>6, <1>7, <1>8, <1>9 DEF Next

LEMMA NextExclusion ==
  ASSUME TypeOK, MutualExclusion, [Next]_vars
  PROVE  MutualExclusion'
<1> USE DEF MutualExclusion
<1>1. CASE UNCHANGED vars
  BY <1>1 DEF vars
<1>2. ASSUME NEW t \in Threads, mutex_lock(t) \/ mutex_try_lock(t)
      PROVE  MutualExclusion'
  BY <1>2, ThreadsAssumption DEF mutex_lock, mutex_try_lock
<1>3. ASSUME NEW t \in Threads, mutex_unlock(t)
      PROVE  MutualExclusion'
  BY <1>3 DEF mutex_unlock
<1>4. ASSUME NEW t \in Threads,
             \/ wake(t) \/ mutex_unlock_wake(t)
             \/ semaphore_acquire(t) \/ semaphore_try_acquire(t)
             \/ semaphore_release(t) \/ semaphore_release_wake(t)
             \/ condvar_wait(t) \/ condvar_signal(t) \/ condvar_broadcast(t)
      PROVE  MutualExclusion'
  <2>1. UNCHANGED <<owner, inside>>
    BY <1>4 DEF wake, woken, mutex_unlock_wake, semaphore_acquire, semaphore_try_acquire,
                semaphore_release, semaphore_release_wake, condvar_wait, condvar_signal,
                condvar_broadcast
  <2>2. QED
    BY <2>1
<1>5. QED
  BY <1>1, <1>2, <1>3, <1>4 DEF Next

-----------------------------------------------------------------------------
\* Permits.  The three sets they are counted in.
Releasing == At("sem_wake")
Granted   == Woken("sem_wait")
Counts    == PermitsConserved /\ WaitersCounted

LEMMA CountedSets ==
  ASSUME TypeOK
  PROVE  /\ Releasing \subseteq Threads /\ Granted \subseteq Threads
         /\ IsFiniteSet(held) /\ IsFiniteSet(Releasing) /\ IsFiniteSet(Granted)
         /\ Cardinality(held) \in Nat /\ Cardinality(Releasing) \in Nat
         /\ Cardinality(Granted) \in Nat
         /\ \A u \in Threads : /\ u \in Releasing <=> pc[u] = "sem_wake"
                               /\ u \in Granted <=> Taken(u) /\ pc[u] = "sem_wait"
<1>1. Releasing \subseteq Threads /\ Granted \subseteq Threads /\ held \subseteq Threads
  BY DEF Releasing, Granted, At, Woken, TypeOK
<1>2. IsFiniteSet(held) /\ IsFiniteSet(Releasing) /\ IsFiniteSet(Granted)
  BY <1>1, ThreadsAssumption, FS_Subset
<1>3. Cardinality(held) \in Nat /\ Cardinality(Releasing) \in Nat /\ Cardinality(Granted) \in Nat
  BY <1>2, FS_CardinalityType
<1>4. QED
  BY <1>1, <1>2, <1>3 DEF Releasing, Granted, At, Woken, Taken

\* A step that leaves the three sets, the count and the queue alone.
LEMMA SameCounts ==
  ASSUME Counts, held' = held, Releasing' = Releasing, Granted' = Granted,
         count' = count, swq' = swq
  PROVE  Counts'
  BY DEF Counts, PermitsConserved, WaitersCounted, Releasing, Granted

\* A thread that moves elsewhere than the semaphore's places.
LEMMA MoveSets ==
  ASSUME TypeOK, NEW t \in Threads, NEW p \in Places,
         pc[t] \notin {"sem_wait", "sem_wake"}, p \notin {"sem_wait", "sem_wake"},
         pc' = [pc EXCEPT ![t] = p], chain' = chain
  PROVE  Releasing' = Releasing /\ Granted' = Granted
<1>1. \A u \in Threads, w \in {"sem_wait", "sem_wake"} : pc'[u] = w <=> pc[u] = w
  BY DEF TypeOK
<1>2. QED
  BY <1>1 DEF Releasing, Granted, At, Woken

\* A thread that takes the items d to wake them.
LEMMA DetachSets ==
  ASSUME TypeOK, NEW t \in Threads, NEW d \in Seq(Threads),
         pc[t] # "sem_wait", chain[t] = << >>,
         pc' = [pc EXCEPT ![t] = "waking"], chain' = [chain EXCEPT ![t] = d]
  PROVE  /\ Releasing' = Releasing \ {t}
         /\ Granted' = Granted \cup { u \in Range(d) : pc[u] = "sem_wait" }
<1>1. /\ \A u \in Threads : u # t => pc'[u] = pc[u] /\ chain'[u] = chain[u]
      /\ pc'[t] = "waking" /\ chain'[t] = d
  BY DEF TypeOK
<1>2. Releasing' = Releasing \ {t}
  BY <1>1 DEF Releasing, At
<1>3. Range(d) \subseteq Threads /\ Range(<< >>) = {}
  BY DEF Range
<1>4. \A u \in Threads : Taken(u)' <=> Taken(u) \/ u \in Range(d)
  BY <1>1, <1>3, Zenon DEF Taken
<1>5. \A u \in Threads : u \in Granted' <=> Taken(u)' /\ pc'[u] = "sem_wait"
  BY DEF Granted, Woken, Taken
<1>6. \A u \in Threads : u \in Granted <=> Taken(u) /\ pc[u] = "sem_wait"
  BY DEF Granted, Woken, Taken
<1>7. Granted \subseteq Threads /\ Granted' \subseteq Threads
  BY DEF Granted, Woken
<1>8. \A u \in Threads : pc'[u] = "sem_wait" <=> pc[u] = "sem_wait"
  BY <1>1
<1>9. QED
  BY <1>2, <1>3, <1>4, <1>5, <1>6, <1>7, <1>8

\* semaphore_acquire takes a permit, or the count goes further below zero as
\* the queue grows.
LEMMA AcquireCounts ==
  ASSUME TypeOK, Listed, Counts, NEW t \in Threads, semaphore_acquire(t)
  PROVE  Counts'
<1>1. pc[t] = "run" /\ t \notin held /\ chain' = chain /\ count \in Int /\ count' = count - 1
  BY DEF semaphore_acquire, Free, TypeOK
<1>2. IsFiniteSet(held) /\ Cardinality(held) \in Nat /\ Cardinality(Releasing) \in Nat
      /\ Cardinality(Granted) \in Nat
  BY CountedSets
<1>3. CASE count - 1 >= 0
  <2>1. held' = held \cup {t} /\ swq' = swq /\ pc' = pc
    BY <1>3 DEF semaphore_acquire, TypeOK
  <2>2. Releasing' = Releasing /\ Granted' = Granted
    BY <1>1, <2>1 DEF Releasing, Granted, At, Woken
  <2>3. Cardinality(held') = Cardinality(held) + 1
    BY <1>1, <1>2, <2>1, FS_AddElement
  <2>4. QED
    BY <1>1, <1>2, <1>3, <2>1, <2>2, <2>3, PermitsAssumption
       DEF Counts, PermitsConserved, WaitersCounted, Releasing, Granted
<1>4. CASE count - 1 < 0
  <2>1. held' = held /\ swq' = Append(swq, t) /\ pc' = [pc EXCEPT ![t] = "sem_wait"]
    BY <1>4 DEF semaphore_acquire, TypeOK
  <2>2. Len(swq') = Len(swq) + 1 /\ Len(swq) \in Nat
    BY <2>1 DEF TypeOK
  <2>3. ~Taken(t)
    BY <1>1, Zenon DEF Listed, Queued, Waits
  <2>4. Releasing' = Releasing
    BY <1>1, <2>1 DEF Releasing, At, TypeOK
  <2>5. Granted' = Granted
    <3>1. \A u \in Threads : u # t => pc'[u] = pc[u]
      BY <2>1 DEF TypeOK
    <3>2. \A u \in Threads : (u \in Granted <=> Taken(u) /\ pc[u] = "sem_wait")
                             /\ (u \in Granted' <=> Taken(u) /\ pc'[u] = "sem_wait")
      BY <1>1 DEF Granted, Woken, Taken
    <3>3. Granted \subseteq Threads /\ Granted' \subseteq Threads
      BY DEF Granted, Woken
    <3>4. \A u \in Threads : u \in Granted' <=> u \in Granted
      BY <2>3, <3>1, <3>2, Zenon
    <3>5. QED
      BY <3>3, <3>4
  <2>6. QED
    BY <1>1, <1>2, <1>4, <2>1, <2>2, <2>4, <2>5, PermitsAssumption
       DEF Counts, PermitsConserved, WaitersCounted, Releasing, Granted
<1>5. QED
  BY <1>1, <1>3, <1>4

LEMMA TryAcquireCounts ==
  ASSUME TypeOK, Counts, NEW t \in Threads, semaphore_try_acquire(t)
  PROVE  Counts'
<1>1. /\ t \notin held /\ held' = held \cup {t} /\ chain' = chain /\ pc' = pc /\ swq' = swq
      /\ count \in Int /\ count > 0 /\ count' = count - 1
  BY DEF semaphore_try_acquire, Free, TypeOK
<1>2. Releasing' = Releasing /\ Granted' = Granted
  BY <1>1 DEF Releasing, Granted, At, Woken
<1>3. Cardinality(held') = Cardinality(held) + 1 /\ Cardinality(held) \in Nat
      /\ Cardinality(Releasing) \in Nat /\ Cardinality(Granted) \in Nat
  BY <1>1, CountedSets, FS_AddElement
<1>4. QED
  BY <1>1, <1>2, <1>3, PermitsAssumption
     DEF Counts, PermitsConserved, WaitersCounted, Releasing, Granted

\* semaphore_release gives the permit to the count, or to a waiter it will wake.
LEMMA ReleaseCounts ==
  ASSUME TypeOK, Counts, NEW t \in Threads, semaphore_release(t)
  PROVE  Counts'
<1>1. /\ pc[t] = "run" /\ t \in held /\ held' = held \ {t} /\ chain' = chain /\ swq' = swq
      /\ pc' = [pc EXCEPT ![t] = IF count + 1 <= 0 THEN "sem_wake" ELSE "run"]
  BY DEF semaphore_release, TypeOK
<1>n. count \in Int /\ count' = count + 1 /\ swq' = swq
  BY DEF semaphore_release, TypeOK
<1>2. /\ IsFiniteSet(held) /\ Cardinality(held) \in Nat /\ IsFiniteSet(Releasing)
      /\ Cardinality(Releasing) \in Nat /\ Cardinality(Granted) \in Nat
      /\ t \notin Releasing
  BY <1>1, CountedSets
<1>3. Cardinality(held') = Cardinality(held) - 1
  BY <1>1, <1>2, FS_RemoveElement
<1>4. CASE count + 1 <= 0
  <2>1. pc' = [pc EXCEPT ![t] = "sem_wake"]
    BY <1>1, <1>4
  <2>2. Releasing' = Releasing \cup {t}
    BY <1>1, <2>1 DEF Releasing, At, TypeOK
  <2>3. Granted' = Granted
    BY <1>1, <2>1 DEF Granted, Woken, TypeOK
  <2>4. Cardinality(Releasing') = Cardinality(Releasing) + 1
    BY <1>2, <2>2, FS_AddElement
  <2>5. QED
    BY <1>n, <1>2, <1>3, <1>4, <2>3, <2>4, PermitsAssumption
       DEF Counts, PermitsConserved, WaitersCounted, Releasing, Granted
<1>5. CASE count + 1 > 0
  <2>1. pc' = [pc EXCEPT ![t] = "run"]
    <3>1. ~(count + 1 <= 0)
      BY <1>n, <1>5
    <3>2. QED
      BY <1>1, <3>1, Zenon
  <2>2. Releasing' = Releasing /\ Granted' = Granted
    BY <1>1, <2>1 DEF Releasing, Granted, At, Woken, TypeOK
  <2>3. QED
    BY <1>n, <1>2, <1>3, <1>5, <2>2, PermitsAssumption
       DEF Counts, PermitsConserved, WaitersCounted, Releasing, Granted
<1>6. QED
  BY <1>n, <1>4, <1>5

\* The second half of semaphore_release finds an item: the queue is as long as
\* the releases under way require.
LEMMA ReleaseWakeCounts ==
  ASSUME TypeOK, Listed, Counts, NEW t \in Threads, semaphore_release_wake(t)
  PROVE  Counts'
<1>1. pc[t] = "sem_wake" /\ held' = held /\ count' = count /\ count \in Int
  BY DEF semaphore_release_wake, TypeOK
<1>2. /\ IsFiniteSet(Releasing) /\ IsFiniteSet(Granted) /\ t \in Releasing
      /\ Cardinality(held) \in Nat /\ Cardinality(Releasing) \in Nat /\ Cardinality(Granted) \in Nat
  BY <1>1, CountedSets
<1>3. Cardinality(Releasing) # 0
  BY <1>2, FS_EmptySet
<1>4. swq # << >>
  <2>1. Len(swq) > 0
    BY <1>1, <1>2, <1>3 DEF Counts, WaitersCounted, Releasing
  <2>2. QED
    BY <2>1
<1> DEFINE h == Head(swq)
<1>5. h \in Threads /\ h \in Range(swq) /\ Len(Tail(swq)) = Len(swq) - 1 /\ Len(swq) \in Nat
  BY <1>4, TakeItem DEF TypeOK
<1>6. pc[h] = "sem_wait" /\ ~Taken(h)
  BY <1>5, Zenon DEF Listed, Queued
<1>7. chain[t] = << >>
  BY <1>1, Zenon DEF Listed, Walking
<1>8. /\ chain' = [chain EXCEPT ![t] = <<h>>] /\ pc' = [pc EXCEPT ![t] = "waking"]
      /\ swq' = Tail(swq) /\ <<h>> \in Seq(Threads) /\ Range(<<h>>) = {h}
  <2>1. <<h>> \in Seq(Threads)
    BY <1>5
  <2>2. Range(<<h>>) = {h}
    BY DEF Range
  <2>3. QED
    BY <1>4, <2>1, <2>2 DEF semaphore_release_wake, waitqueue_wake_one, rest
<1> HIDE DEF h
<1>9. Releasing' = Releasing \ {t} /\ Granted' = Granted \cup { u \in Range(<<h>>) : pc[u] = "sem_wait" }
  BY <1>1, <1>7, <1>8, DetachSets
<1>10. Granted' = Granted \cup {h} /\ h \notin Granted
  BY <1>5, <1>6, <1>8, <1>9, CountedSets
<1>11. Cardinality(Releasing') = Cardinality(Releasing) - 1
  BY <1>2, <1>9, FS_RemoveElement
<1>12. Cardinality(Granted') = Cardinality(Granted) + 1
  BY <1>2, <1>10, FS_AddElement
<1>13. Len(swq') = Len(swq) - 1
  BY <1>5, <1>8
<1>n. held' = held /\ count' = count /\ count \in Int /\ Len(swq) \in Nat
      /\ Cardinality(held) \in Nat /\ Cardinality(Releasing) \in Nat /\ Cardinality(Granted) \in Nat
  BY <1>1, <1>2, <1>5
<1>14. PermitsConserved'
  BY <1>n, <1>11, <1>12, PermitsAssumption DEF Counts, PermitsConserved, Releasing, Granted
<1>15. WaitersCounted'
  BY <1>n, <1>11, <1>13 DEF Counts, WaitersCounted, Releasing
<1>16. QED
  BY <1>14, <1>15 DEF Counts

\* Waking somebody from the semaphore hands over the permit.
LEMMA WakeCounts ==
  ASSUME TypeOK, Listed, Holding, Counts, NEW t \in Threads, wake(t)
  PROVE  Counts'
<1> DEFINE u == Head(chain[t])
<1>1. chain[t] \in Seq(Threads) /\ chain[t] # << >> /\ pc[t] = "waking" /\ IsInjective(chain[t])
  BY Zenon DEF TypeOK, Listed, Walking, Exclusive, wake
<1>2. /\ u \in Threads /\ u \notin Range(Tail(chain[t]))
      /\ Range(chain[t]) = Range(Tail(chain[t])) \cup {u}
  BY <1>1, TakeItem
<1>3. Taken(u) /\ pc[u] \in Waits /\ u # t
  <2>1. Taken(u)
    BY <1>2, Zenon DEF Taken
  <2>2. QED
    BY <1>1, <1>2, <2>1, Zenon DEF Listed, Queued, Waits
<1> HIDE DEF u
<1>4. /\ count' = count /\ swq' = swq /\ chain' = [chain EXCEPT ![t] = Tail(chain[t])]
      /\ held' = IF pc[u] = "sem_wait" THEN held \cup {u} ELSE held
      /\ pc' = [pc EXCEPT ![u] = IF pc[u] = "mutex_wait" THEN "mutex_retry" ELSE "run",
                          ![t] = IF Len(chain[t]) = 1 THEN "run" ELSE "waking"]
  BY DEF wake, woken, u
<1>5. /\ pc'[u] \in {"mutex_retry", "run"} /\ pc'[t] \in {"run", "waking"}
      /\ \A v \in Threads : v # u /\ v # t => pc'[v] = pc[v]
  BY <1>2, <1>3, <1>4 DEF TypeOK
<1>6. chain'[t] = Tail(chain[t]) /\ \A v \in Threads : v # t => chain'[v] = chain[v]
  BY <1>4 DEF TypeOK
<1>7. \A v, w \in Threads : v # u => (v \in Range(chain'[w]) <=> v \in Range(chain[w]))
  BY <1>2, <1>6
<1>8. \A v \in Threads : v # u => (Taken(v)' <=> Taken(v))
  BY <1>7, Zenon DEF Taken
<1>9. Releasing' = Releasing
  BY <1>1, <1>3, <1>5 DEF Releasing, At, Waits
<1>10. Granted' = Granted \ {u}
  <2>1. \A v \in Threads : (v \in Granted <=> Taken(v) /\ pc[v] = "sem_wait")
                           /\ (v \in Granted' <=> Taken(v)' /\ pc'[v] = "sem_wait")
    BY DEF Granted, Woken, Taken
  <2>2. Granted \subseteq Threads /\ Granted' \subseteq Threads
    BY DEF Granted, Woken
  <2>3. \A v \in Threads : v # u => (pc'[v] = "sem_wait" <=> pc[v] = "sem_wait")
    BY <1>1, <1>5
  <2>4. u \notin Granted'
    BY <1>2, <1>5, <2>1
  <2>5. QED
    BY <2>1, <2>2, <2>3, <2>4, <1>8
<1>11. CASE pc[u] = "sem_wait"
  <2>1. u \in Granted /\ u \notin held
    BY <1>2, <1>3, <1>11, CountedSets DEF Holding
  <2>2. /\ IsFiniteSet(held) /\ IsFiniteSet(Granted)
        /\ Cardinality(held) \in Nat /\ Cardinality(Granted) \in Nat /\ Cardinality(Releasing) \in Nat
    BY CountedSets
  <2>3. Cardinality(held') = Cardinality(held) + 1
    BY <1>4, <1>11, <2>1, <2>2, FS_AddElement
  <2>4. Cardinality(Granted') = Cardinality(Granted) - 1
    BY <1>10, <2>1, <2>2, FS_RemoveElement
  <2>5. QED
    BY <1>4, <1>9, <2>2, <2>3, <2>4, PermitsAssumption
       DEF Counts, PermitsConserved, WaitersCounted, Releasing, Granted
<1>12. CASE pc[u] # "sem_wait"
  <2>1. u \notin Granted
    BY <1>2, <1>12, CountedSets
  <2>2. Granted' = Granted /\ held' = held
    BY <1>4, <1>10, <1>12, <2>1
  <2>3. QED
    BY <1>4, <1>9, <2>2, SameCounts
<1>13. QED
  BY <1>11, <1>12

\* waitqueue_wake_one on the mutex's or the condition variable's queue, and
\* the broadcast, take no semaphore waiter.
LEMMA OtherWakeCounts ==
  ASSUME TypeOK, Listed, Counts, NEW t \in Threads,
         mutex_unlock_wake(t) \/ condvar_signal(t) \/ condvar_broadcast(t)
  PROVE  Counts'
<1>1. /\ pc[t] \in {"run", "mutex_wake"} /\ held' = held /\ count' = count /\ swq' = swq
  BY DEF mutex_unlock_wake, condvar_signal, condvar_broadcast
<1>2. chain[t] = << >>
  BY <1>1, Zenon DEF Listed, Walking
<1>3. ASSUME NEW d \in Seq(Threads), pc' = [pc EXCEPT ![t] = "waking"],
             chain' = [chain EXCEPT ![t] = d],
             \A u \in Range(d) : pc[u] # "sem_wait"
      PROVE  Counts'
  <2>1. /\ Releasing' = Releasing \ {t}
        /\ Granted' = Granted \cup { u \in Range(d) : pc[u] = "sem_wait" }
    BY <1>1, <1>2, <1>3, DetachSets
  <2>2. t \notin Releasing
    BY <1>1, CountedSets
  <2>3. Releasing' = Releasing /\ Granted' = Granted
    BY <1>3, <2>1, <2>2
  <2>4. QED
    BY <1>1, <2>3, SameCounts
<1>4. ASSUME NEW q \in {mwq, cwq}, waitqueue_wake_one(q, t)
      PROVE  Counts'
  <2>1. CASE q = << >>
    <3>1. chain' = chain /\ pc' = [pc EXCEPT ![t] = "run"]
      BY <1>4, <2>1 DEF waitqueue_wake_one
    <3>2. "run" \in Places
      BY DEF Places
    <3>3. Releasing' = Releasing /\ Granted' = Granted
      BY <1>1, <3>1, <3>2, MoveSets
    <3>4. QED
      BY <1>1, <3>3, SameCounts
  <2>2. CASE q # << >>
    <3>1. q \in Seq(Threads)
      BY DEF TypeOK
    <3>2. Head(q) \in Threads /\ Head(q) \in Range(q)
      BY <2>2, <3>1, TakeItem
    <3>3. pc[Head(q)] # "sem_wait"
      BY <3>2, Zenon DEF Listed, Queued
    <3>4. <<Head(q)>> \in Seq(Threads) /\ Range(<<Head(q)>>) = {Head(q)}
      BY <3>2 DEF Range
    <3>5. pc' = [pc EXCEPT ![t] = "waking"] /\ chain' = [chain EXCEPT ![t] = <<Head(q)>>]
      BY <1>4, <2>2 DEF waitqueue_wake_one
    <3>6. QED
      BY <1>3, <3>3, <3>4, <3>5
  <2>3. QED
    BY <2>1, <2>2
<1>5. CASE condvar_broadcast(t)
  <2>1. cwq \in Seq(Threads) /\ Range(cwq) \subseteq Threads
    BY DEF TypeOK, Range
  <2>2. \A u \in Range(cwq) : pc[u] # "sem_wait"
    BY <2>1, Zenon DEF Listed, Queued
  <2>3. QED
    BY <1>3, <1>5, <2>1, <2>2 DEF condvar_broadcast
<1>6. QED
  BY <1>4, <1>5 DEF mutex_unlock_wake, condvar_signal

LEMMA NextCounts ==
  ASSUME TypeOK, Listed, Holding, Counts, [Next]_vars
  PROVE  Counts'
<1>p. \A p \in {"run", "mutex_wait", "mutex_retry", "mutex_wake", "cond_wait"} :
        p \in Places /\ p \notin {"sem_wait", "sem_wake"}
  BY DEF Places
<1>1. CASE UNCHANGED vars
  <2>1. UNCHANGED <<held, count, swq, pc, chain>>
    BY <1>1 DEF vars
  <2>2. Releasing' = Releasing /\ Granted' = Granted
    BY <2>1 DEF Releasing, Granted, At, Woken
  <2>3. QED
    BY <2>1, <2>2, SameCounts
<1>2. ASSUME NEW t \in Threads, wake(t)
      PROVE  Counts'
  BY <1>2, WakeCounts
<1>3. ASSUME NEW t \in Threads,
             mutex_unlock_wake(t) \/ condvar_signal(t) \/ condvar_broadcast(t)
      PROVE  Counts'
  BY <1>3, OtherWakeCounts
<1>4. ASSUME NEW t \in Threads,
             mutex_lock(t) \/ mutex_try_lock(t) \/ mutex_unlock(t) \/ condvar_wait(t)
      PROVE  Counts'
  <2>1. pc[t] \in {"run", "mutex_retry"} /\ UNCHANGED <<held, count, swq, chain>>
    BY <1>4 DEF mutex_lock, mutex_try_lock, mutex_unlock, condvar_wait, Free
  <2>2. \E p \in {"run", "mutex_wait", "mutex_wake", "cond_wait"} : pc' = [pc EXCEPT ![t] = p]
    <3>1. mutex_try_lock(t) => pc' = [pc EXCEPT ![t] = "run"]
      BY DEF mutex_try_lock, Free, TypeOK
    <3>2. QED
      BY <1>4, <3>1 DEF mutex_lock, mutex_unlock, condvar_wait
  <2>3. Releasing' = Releasing /\ Granted' = Granted
    BY <1>p, <2>1, <2>2, MoveSets
  <2>4. QED
    BY <2>1, <2>3, SameCounts
<1>5. ASSUME NEW t \in Threads, semaphore_acquire(t)
      PROVE  Counts'
  BY <1>5, AcquireCounts
<1>6. ASSUME NEW t \in Threads, semaphore_try_acquire(t)
      PROVE  Counts'
  BY <1>6, TryAcquireCounts
<1>7. ASSUME NEW t \in Threads, semaphore_release(t)
      PROVE  Counts'
  BY <1>7, ReleaseCounts
<1>8. ASSUME NEW t \in Threads, semaphore_release_wake(t)
      PROVE  Counts'
  BY <1>8, ReleaseWakeCounts
<1>9. QED
  BY <1>1, <1>2, <1>3, <1>4, <1>5, <1>6, <1>7, <1>8 DEF Next

LEMMA InitCounts == Init => Holding /\ Counts
<1> SUFFICES ASSUME Init PROVE Holding /\ Counts
  OBVIOUS
<1>1. Holding /\ MutualExclusion
  BY DEF Init, Holding, MutualExclusion
<1>2. held = {} /\ Releasing = {} /\ Granted = {} /\ count = Permits /\ Len(swq) = 0
  BY DEF Init, Releasing, Granted, At, Woken
<1>3. Counts
  BY <1>2, FS_EmptySet, PermitsAssumption
     DEF Counts, PermitsConserved, WaitersCounted, Releasing, Granted
<1>4. QED
  BY <1>1, <1>3

-----------------------------------------------------------------------------
\* Who keeps MutexWakeupPending true.
Asking(x) == pc[x] \in {"mutex_wake", "mutex_retry"} \/ (Taken(x) /\ pc[x] = "mutex_wait")
Pending == mwq # << >> /\ owner = NULL => \E x \in Threads : Asking(x)

LEMMA PendingIsWakeupPending == Pending <=> MutexWakeupPending
<1>1. (\E x \in Threads : Asking(x))
        <=> At("mutex_wake") \cup At("mutex_retry") \cup Woken("mutex_wait") # {}
  BY Zenon DEF Asking, At, Woken, Taken
<1>2. QED
  BY <1>1, Zenon DEF Pending, MutexWakeupPending

\* A step of a thread that asks for nothing and leaves the mutex alone.
LEMMA BystanderPending ==
  ASSUME Pending, NEW t \in Threads, mwq' = mwq, owner' = owner, ~Asking(t),
         \A x \in Threads : x # t => pc'[x] = pc[x],
         \A x \in Threads : Taken(x) => Taken(x)'
  PROVE  Pending'
  BY Zenon DEF Pending, Asking

LEMMA NextPending ==
  ASSUME TypeOK, Listed, Pending, [Next]_vars
  PROVE  Pending'
<1>1. CASE UNCHANGED vars
  BY <1>1 DEF vars, Pending, Asking, Taken
<1>2. ASSUME NEW t \in Threads, wake(t)
      PROVE  Pending'
  <2>1. chain[t] \in Seq(Threads) /\ chain[t] # << >> /\ pc[t] = "waking"
    BY <1>2, Zenon DEF TypeOK, Listed, Walking, wake
  <2>2. PICK u \in Threads : /\ u = Head(chain[t])
                            /\ Range(chain[t]) = Range(Tail(chain[t])) \cup {u}
    BY <2>1, TakeItem
  <2>3. pc[u] \in Waits /\ u # t /\ ~Taken(t)
    <3>1. Taken(u)
      BY <2>2, Zenon DEF Taken
    <3>2. QED
      BY <2>1, <2>2, <3>1, Zenon DEF Listed, Queued, Waits
  <2>4. /\ mwq' = mwq /\ owner' = owner /\ chain' = [chain EXCEPT ![t] = Tail(chain[t])]
        /\ pc' = [pc EXCEPT ![u] = IF pc[u] = "mutex_wait" THEN "mutex_retry" ELSE "run",
                            ![t] = IF Len(chain[t]) = 1 THEN "run" ELSE "waking"]
    BY <1>2, <2>2 DEF wake, woken
  <2>5. /\ pc[u] = "mutex_wait" => pc'[u] = "mutex_retry"
        /\ \A v \in Threads : v # u /\ v # t => pc'[v] = pc[v]
    BY <2>2, <2>3, <2>4 DEF TypeOK
  <2>6. \A v, w \in Threads : v # u /\ v \in Range(chain[w]) => v \in Range(chain'[w])
    BY <2>2, <2>4 DEF TypeOK
  <2>7. \A v \in Threads : v # u /\ Taken(v) => Taken(v)'
    BY <2>6, Zenon DEF Taken
  <2>8. ~Asking(t)
    BY <2>1, Zenon DEF Asking
  <2>9. Asking(u) => Asking(u)'
    <3>1. pc[u] # "mutex_wake" /\ pc[u] # "mutex_retry"
      BY <2>3 DEF Waits
    <3>2. QED
      BY <2>5, <3>1, Zenon DEF Asking
  <2>10. \A v \in Threads : Asking(v) => Asking(v)'
    BY <2>5, <2>7, <2>8, <2>9, Zenon DEF Asking
  <2>11. QED
    BY <2>4, <2>10, Zenon DEF Pending
<1>3. ASSUME NEW t \in Threads, mutex_lock(t) \/ mutex_try_lock(t)
      PROVE  Pending'
  <2>1. owner' # NULL
    BY <1>3, ThreadsAssumption DEF mutex_lock, mutex_try_lock
  <2>2. QED
    BY <2>1 DEF Pending
<1>4. ASSUME NEW t \in Threads, mutex_unlock(t)
      PROVE  Pending'
  <2>1. pc'[t] = "mutex_wake"
    BY <1>4 DEF mutex_unlock, TypeOK
  <2>2. QED
    BY <2>1 DEF Pending, Asking
<1>5. ASSUME NEW t \in Threads, mutex_unlock_wake(t)
      PROVE  Pending'
  <2>1. CASE mwq = << >>
    BY <1>5, <2>1 DEF mutex_unlock_wake, rest, Pending
  <2>2. CASE mwq # << >>
    <3>1. Head(mwq) \in Threads /\ Head(mwq) \in Range(mwq)
      BY <2>2, TakeItem DEF TypeOK
    <3>2. pc[Head(mwq)] = "mutex_wait" /\ pc[t] = "mutex_wake"
      BY <1>5, <3>1, Zenon DEF mutex_unlock_wake, Listed, Queued
    <3>3. chain' = [chain EXCEPT ![t] = <<Head(mwq)>>] /\ pc' = [pc EXCEPT ![t] = "waking"]
      BY <1>5, <2>2 DEF mutex_unlock_wake, waitqueue_wake_one
    <3>4. chain'[t] = <<Head(mwq)>> /\ pc'[Head(mwq)] = "mutex_wait"
      BY <3>1, <3>2, <3>3 DEF TypeOK
    <3>5. Head(mwq) \in Range(<<Head(mwq)>>)
      BY DEF Range
    <3>6. QED
      BY <3>1, <3>4, <3>5, Zenon DEF Pending, Asking, Taken
  <2>3. QED
    BY <2>1, <2>2
<1>6. ASSUME NEW t \in Threads,
             \/ semaphore_acquire(t) \/ semaphore_try_acquire(t) \/ semaphore_release(t)
             \/ semaphore_release_wake(t)
             \/ condvar_wait(t) \/ condvar_signal(t) \/ condvar_broadcast(t)
      PROVE  Pending'
  <2>1. pc[t] \in {"run", "sem_wake"} /\ mwq' = mwq /\ owner' = owner
    BY <1>6 DEF semaphore_acquire, semaphore_try_acquire, semaphore_release,
                semaphore_release_wake, condvar_wait, condvar_signal, condvar_broadcast, Free
  <2>2. chain[t] = << >> /\ ~Asking(t)
    BY <2>1, Zenon DEF Listed, Walking, Asking
  <2>3. \A x \in Threads : x # t => pc'[x] = pc[x] /\ chain'[x] = chain[x]
    <3>1. \/ pc' = pc \/ \E p \in Places : pc' = [pc EXCEPT ![t] = p]
      BY <1>6 DEF semaphore_acquire, semaphore_try_acquire, semaphore_release, Places,
                  semaphore_release_wake, condvar_wait, condvar_signal, condvar_broadcast,
                  waitqueue_wake_one
    <3>2. \/ chain' = chain \/ \E d \in {<<Head(swq)>>, <<Head(cwq)>>, cwq} :
                                  chain' = [chain EXCEPT ![t] = d]
      BY <1>6 DEF semaphore_acquire, semaphore_try_acquire, semaphore_release,
                  semaphore_release_wake, condvar_wait, condvar_signal, condvar_broadcast,
                  waitqueue_wake_one
    <3>3. QED
      BY <3>1, <3>2 DEF TypeOK
  <2>4. Range(chain[t]) = {}
    BY <2>2 DEF Range
  <2>5. \A x \in Threads : Taken(x) => Taken(x)'
    BY <2>3, <2>4, Zenon DEF Taken
  <2>6. QED
    BY <2>1, <2>2, <2>3, <2>5, BystanderPending
<1>7. QED
  BY <1>1, <1>2, <1>3, <1>4, <1>5, <1>6 DEF Next

-----------------------------------------------------------------------------
\* The inductive invariant: who waits is listed, who holds runs, and the counts
\* agree with both.
IInv == TypeOK /\ Listed /\ Holding /\ MutualExclusion /\ Pending /\ Counts

LEMMA Inductive ==
  /\ Init => IInv
  /\ IInv /\ [Next]_vars => IInv'
<1>1. Init => MutualExclusion
  BY DEF Init, MutualExclusion
<1>i. Init => Pending
  BY DEF Init, Pending
<1>2. Init => IInv
  BY <1>1, <1>i, InitType, InitListed, InitCounts DEF IInv
<1>3. Listed => WakersBusy
  BY DEF Listed, Walking, WakersBusy
<1>4. IInv /\ [Next]_vars => IInv'
  BY <1>3, NextType, NextListed, NextHolding, NextExclusion, NextPending, NextCounts
     DEF IInv
<1>5. QED
  BY <1>2, <1>4

LEMMA InvariantHolds == Spec => []IInv
<1>1. Init => IInv
  BY Inductive
<1>2. IInv /\ [Next]_vars => IInv'
  BY Inductive
<1>3. QED
  BY <1>1, <1>2, PTL DEF Spec

\* mutex_lock and mutex_try_lock admit one thread at a time, for any number of
\* threads: a woken thread owns nothing until it has asked again.
THEOREM MutexSafe == Spec => []MutualExclusion
<1>1. IInv => MutualExclusion
  BY DEF IInv
<1>2. QED
  BY <1>1, InvariantHolds, PTL

\* mutex_unlock clears the owner and wakes in two steps, yet somebody is always
\* about to ask for a free mutex that others sleep on.
THEOREM MutexNotForgotten == Spec => []MutexWakeupPending
<1>1. IInv => MutexWakeupPending
  BY PendingIsWakeupPending DEF IInv
<1>2. QED
  BY <1>1, InvariantHolds, PTL

\* No waiter is lost or woken twice by mutex, semaphore and condition variable
\* together, and every state is well typed.
THEOREM WaitersSafe == Spec => [](TypeOK /\ WaitersListed)
<1>1. IInv => TypeOK /\ WaitersListed
  BY ListedIsWaitersListed DEF IInv
<1>2. QED
  BY <1>1, InvariantHolds, PTL

\* semaphore_acquire, semaphore_try_acquire and semaphore_release conserve the
\* permits, for any initial count.
THEOREM PermitsSafe == Spec => []PermitsConserved
<1>1. IInv => PermitsConserved
  BY DEF IInv, Counts
<1>2. QED
  BY <1>1, InvariantHolds, PTL

\* A negative count is the length of the queue less the releases under way, so
\* semaphore_release finds the waiter it has to wake.
THEOREM WaitersCountSafe == Spec => []WaitersCounted
<1>1. IInv => WaitersCounted
  BY DEF IInv, Counts
<1>2. QED
  BY <1>1, InvariantHolds, PTL

-------------------------------------------------------------------------------
(***************************************************************************)
(* The linked lists (Links): pointers, tail and count of the run queue,    *)
(* the cleanup list, a wait queue, the sleepers and the scratch behave as  *)
(* the sequences of ListSpec, which is how Scheduler and Sync use them.    *)
(* Stands says which sequences the pointers spell out; every operation is  *)
(* shown to cut a node out of one of them, put one in or swap one (Cut,    *)
(* Put, Swap), and those to be the steps of ListSpec.                      *)
(***************************************************************************)

Ptrs  == Nodes \cup {Nil, Dangling}
Lists == Queues \cup Wakers

Mem == [head  : [Queues -> Nodes \cup {Nil}], tail : [Queues -> Nodes \cup {Nil}],
        count : [Queues -> Int], prev : [Nodes -> Ptrs], next : [Nodes -> Ptrs]]

\* The node at a place of a list, Nil before its first and behind its last.
Place(s, i) == IF i \in 1..Len(s) THEN s[i] ELSE Nil
Els(s)   == { s[i] : i \in 1..Len(s) }

\* The list from p on along `next`.
Chain(next, p, s) ==
  /\ s \in Seq(Nodes) /\ \A i, j \in 1..Len(s) : s[i] = s[j] => i = j
  /\ p = Place(s, 1)
  /\ \A i \in 1..Len(s) : next[s[i]] = Place(s, i + 1)

\* A list with its links in both directions, its tail and its count.
Whole(mem, l, s) ==
  /\ Chain(mem.next, mem.head[l], s)
  /\ \A i \in 1..Len(s) : mem.prev[s[i]] = Place(s, i - 1)
  /\ l # "scratch" => mem.tail[l] = Place(s, Len(s))
  /\ l \notin {"scratch", "items"} => mem.count[l] = Len(s)

\* The links of a node that is on no list.
Loose(mem, t) ==
  \/ mem.prev[t] = Nil /\ mem.next[t] = Nil
  \/ mem.prev[t] = Dangling /\ mem.next[t] = Dangling

\* The lists are S, and apart.
Stands(mem, cur, S) ==
  /\ mem \in Mem /\ cur \in [Wakers -> Nodes \cup {Nil}] /\ S \in [Lists -> Seq(Nodes)]
  /\ \A l \in Queues : Whole(mem, l, S[l])
  /\ \A w \in Wakers : Chain(mem.next, cur[w], S[w])
  /\ \A k, l \in Lists : k # l => Els(S[k]) \cap Els(S[l]) = {}
  /\ \A t \in Nodes : (\A l \in Lists : t \notin Els(S[l])) => Loose(mem, t)

-------------------------------------------------------------------------------
(* Walking a list                                                            *)

AlongBy(f, link, n) ==
  [k \in 0..n |->
     [q \in Nodes \cup {Nil, Dangling} |->
        IF q = Nil \/ k = 0 THEN << >>
        ELSE IF q = Dangling THEN <<Dangling>>
        ELSE <<q>> \o f[k - 1][link[q]]]]
AlongOf(link, n) == CHOOSE f : f = AlongBy(f, link, n)

LEMMA WalkLoop ==
  ASSUME NEW link, NEW p
  PROVE  Walk(link, p) = AlongOf(link, Cardinality(Nodes) + 1)[Cardinality(Nodes) + 1][p]
BY Zenon DEF Walk, AlongOf, AlongBy

\* The recursion of Walk has a solution, and its rows are what they say.
LEMMA AlongIs ==
  ASSUME NEW link \in [Nodes -> Ptrs], NEW n \in Nat
  PROVE  LET g == AlongOf(link, n)
         IN  /\ \A k \in 0..n : g[k][Nil] = << >>
             /\ \A q \in Ptrs : g[0][q] = << >>
             /\ \A k \in 1..n : \A q \in Nodes : g[k][q] = <<q>> \o g[k - 1][link[q]]
<1> DEFINE W == Nodes \cup {Dangling}
           R == [Ptrs -> Seq(W)]
           b == [q \in Ptrs |-> << >>]
           row(r) == [q \in Ptrs |-> IF q = Nil THEN << >> ELSE IF q = Dangling THEN <<Dangling>>
                                     ELSE <<q>> \o r[link[q]]]
           t == [x \in R \X Nat |-> row(x[1])]
<1>1. b \in R
  OBVIOUS
<1>2. ASSUME NEW r \in R PROVE row(r) \in R
  <2>1. ASSUME NEW q \in Ptrs, q # Nil, q # Dangling PROVE <<q>> \o r[link[q]] \in Seq(W)
    <3>1. q \in Nodes
      BY <2>1 DEF Ptrs
    <3>2. r[link[q]] \in Seq(W) /\ <<q>> \in Seq(W)
      BY <3>1
    <3> HIDE DEF R, W
    <3> QED BY <3>2, ConcatProperties
  <2>2. <<Dangling>> \in Seq(W) /\ << >> \in Seq(W)
    OBVIOUS
  <2> HIDE DEF W
  <2> QED BY <2>1, <2>2
<1> HIDE DEF row
<1>3. t \in [R \X Nat -> R]
  BY <1>2
<1>4. \A r \in R, i \in Nat : t[<<r, i>>] = row(r)
  OBVIOUS
<1> HIDE DEF R, t, b
<1>5. PICK f : Stepwise(f, R, b, t, n)
  BY <1>1, <1>3, StepsExist
<1>6. f \in [0..n -> R] /\ f[0] = b
  BY <1>5 DEF Stepwise
<1>7. ASSUME NEW k \in 1..n PROVE f[k] = row(f[k - 1])
  <2>1. f[k - 1] \in R /\ k \in Nat
    BY <1>6
  <2>2. f[k] = t[<<f[k - 1], k>>]
    BY <1>5 DEF Stepwise
  <2> QED BY <1>4, <2>1, <2>2
<1>8. f = AlongBy(f, link, n)
  <2> DEFINE c(k) == [q \in Nodes \cup {Nil, Dangling} |->
                        IF q = Nil \/ k = 0 THEN << >>
                        ELSE IF q = Dangling THEN <<Dangling>>
                        ELSE <<q>> \o f[k - 1][link[q]]]
  <2>1. f = [k \in 0..n |-> f[k]]
    BY <1>6
  <2>2. ASSUME NEW k \in 0..n PROVE f[k] = c(k)
    <3>1. CASE k = 0
      BY <1>6, <3>1 DEF b, Ptrs
    <3>2. CASE k # 0
      <4>1. f[k] = row(f[k - 1])
        BY <1>7, <3>2
      <4> QED BY <3>2, <4>1 DEF row, Ptrs
    <3> QED BY <3>1, <3>2
  <2> HIDE DEF c
  <2>3. f = [k \in 0..n |-> c(k)]
    BY <2>1, <2>2
  <2> QED BY <2>3 DEF c, AlongBy
<1> DEFINE g == AlongOf(link, n)
<1>9. g = AlongBy(g, link, n)
  BY <1>8, Zenon DEF AlongOf
<1> HIDE DEF g
<1>10. ASSUME NEW k \in 0..n, NEW q \in Ptrs
       PROVE  g[k][q] = IF q = Nil \/ k = 0 THEN << >>
                        ELSE IF q = Dangling THEN <<Dangling>>
                        ELSE <<q>> \o g[k - 1][link[q]]
  <2>1. g[k] = [p \in Nodes \cup {Nil, Dangling} |->
                  IF p = Nil \/ k = 0 THEN << >>
                  ELSE IF p = Dangling THEN <<Dangling>>
                  ELSE <<p>> \o g[k - 1][link[p]]]
    BY <1>9, Zenon DEF AlongBy
  <2> QED BY <2>1 DEF Ptrs
<1>11. ASSUME NEW k \in 0..n PROVE g[k][Nil] = << >>
  <2>1. Nil \in Ptrs
    BY DEF Ptrs
  <2> QED BY <1>10, <2>1
<1>12. ASSUME NEW q \in Ptrs PROVE g[0][q] = << >>
  <2>1. 0 \in 0..n
    OBVIOUS
  <2> QED BY <1>10, <2>1
<1>13. ASSUME NEW k \in 1..n, NEW q \in Nodes PROVE g[k][q] = <<q>> \o g[k - 1][link[q]]
  <2>1. k \in 0..n /\ k # 0 /\ q \in Ptrs /\ q # Nil /\ q # Dangling
    BY LinksAssumption DEF Ptrs
  <2> QED BY <1>10, <2>1
<1> QED BY <1>11, <1>12, <1>13 DEF g

\* A list has no more nodes than there are.
LEMMA NotLonger ==
  ASSUME NEW s \in Seq(Nodes), \A i, j \in 1..Len(s) : s[i] = s[j] => i = j
  PROVE  Cardinality(Nodes) \in Nat /\ Len(s) <= Cardinality(Nodes)
<1>1. IsFiniteSet(Nodes) /\ Cardinality(Nodes) \in Nat
  BY LinksAssumption, FS_CardinalityType
<1>2. Len(s) \in Nat /\ s \in [1..Len(s) -> Nodes]
  OBVIOUS
<1>3. IsFiniteSet(1..Len(s)) /\ Cardinality(1..Len(s)) = Len(s)
  BY <1>2, FS_Interval
<1>4. ASSUME Cardinality(Nodes) < Len(s) PROVE FALSE
  BY <1>1, <1>2, <1>3, <1>4, FS_PigeonHole
<1> QED BY <1>1, <1>2, <1>4

\* Walking along the links finds the list.
LEMMA WalkIs ==
  ASSUME NEW link \in [Nodes -> Ptrs], NEW p, NEW s, Chain(link, p, s)
  PROVE  Walk(link, p) = s
<1> DEFINE N == Cardinality(Nodes) + 1
           g == AlongOf(link, N)
           n == Len(s)
           following(i) == [j \in 1..(n - i + 1) |-> s[i + j - 1]]
           P == { k \in Nat : \A i \in 1..(n + 1) : n - i + 1 <= k => g[k][Place(s, i)] = following(i) }
<1>1. s \in Seq(Nodes) /\ n \in Nat /\ \A i \in 1..n : s[i] \in Nodes
  BY DEF Chain
<1>2. N \in Nat /\ n <= N
  BY NotLonger DEF Chain
<1>3. \A i \in 1..(n + 1) : Place(s, i) \in Ptrs
  BY <1>1 DEF Place, Ptrs
<1> HIDE DEF N, n
<1>4. /\ \A k \in 0..N : g[k][Nil] = << >>
      /\ \A q \in Ptrs : g[0][q] = << >>
      /\ \A k \in 1..N : \A q \in Nodes : g[k][q] = <<q>> \o g[k - 1][link[q]]
  BY <1>2, AlongIs
<1> HIDE DEF g
<1>5. following(n + 1) = << >>
  BY <1>1
<1>6. 0 \in P
  <2>1. ASSUME NEW i \in 1..(n + 1), n - i + 1 <= 0 PROVE g[0][Place(s, i)] = following(i)
    <3>1. i = n + 1
      BY <1>1, <2>1
    <3>2. g[0][Place(s, i)] = << >>
      BY <1>2, <1>3, <1>4
    <3> QED BY <1>5, <3>1, <3>2
  <2> QED BY <2>1
<1>7. ASSUME NEW k \in 1..N, k - 1 \in P PROVE k \in P
  <2> SUFFICES ASSUME NEW i \in 1..(n + 1), n - i + 1 <= k PROVE g[k][Place(s, i)] = following(i)
    OBVIOUS
  <2>1. CASE i = n + 1
    <3>1. Place(s, i) = Nil
      BY <1>1, <2>1 DEF Place, n
    <3>2. g[k][Nil] = << >>
      BY <1>4
    <3> QED BY <1>5, <2>1, <3>1, <3>2
  <2>2. CASE i # n + 1
    <3>1. i \in 1..n /\ i + 1 \in 1..(n + 1) /\ n - (i + 1) + 1 <= k - 1
      BY <1>1, <1>2, <2>2
    <3>2. Place(s, i) = s[i] /\ s[i] \in Nodes /\ s[i] # Nil /\ s[i] # Dangling /\ s[i] \in Ptrs
      BY <1>1, <3>1, LinksAssumption DEF Place, n, Ptrs
    <3>3. link[s[i]] = Place(s, i + 1)
      BY <3>1 DEF Chain, n
    <3>4. g[k][s[i]] = <<s[i]>> \o g[k - 1][Place(s, i + 1)]
      BY <1>4, <3>2, <3>3
    <3>5. g[k - 1][Place(s, i + 1)] = following(i + 1)
      BY <1>7, <3>1
    <3>6. <<s[i]>> \o following(i + 1) = following(i)
      <4> DEFINE a == <<s[i]>>
                 r == following(i + 1)
      <4>1. a \in Seq(Nodes) /\ Len(a) = 1 /\ a[1] = s[i]
        BY <3>2
      <4>2. r \in Seq(Nodes) /\ Len(r) = n - i /\ \A j \in 1..(n - i) : r[j] = s[i + j]
        BY <1>1, <3>1
      <4> HIDE DEF a, r
      <4>3. /\ a \o r \in Seq(Nodes) /\ Len(a \o r) = 1 + (n - i)
            /\ \A j \in 1..(1 + (n - i)) : (a \o r)[j] = IF j <= 1 THEN a[j] ELSE r[j - 1]
        <5>1. /\ a \o r \in Seq(Nodes) /\ Len(a \o r) = Len(a) + Len(r)
              /\ \A j \in 1..(Len(a) + Len(r)) : (a \o r)[j] = IF j <= Len(a) THEN a[j] ELSE r[j - Len(a)]
          BY <4>1, <4>2, ConcatProperties
        <5> HIDE DEF Place
        <5> QED BY <4>1, <4>2, <5>1
      <4>4. \A j \in 1..(n - i + 1) : (a \o r)[j] = s[i + j - 1]
        BY <1>1, <3>1, <4>1, <4>2, <4>3
      <4> DEFINE c == a \o r
      <4>6. c \in Seq(Nodes) /\ Len(c) = n - i + 1 /\ \A j \in 1..(n - i + 1) : c[j] = s[i + j - 1]
        BY <1>1, <3>1, <4>3, <4>4
      <4> HIDE DEF c
      <4>7. c = [j \in 1..(n - i + 1) |-> s[i + j - 1]]
        BY <4>6
      <4>5. a \o r = [j \in 1..(n - i + 1) |-> s[i + j - 1]]
        BY <4>7 DEF c
      <4> QED BY <4>5 DEF a, r
    <3> QED BY <3>2, <3>4, <3>5, <3>6
  <2> QED BY <2>1, <2>2
<1> HIDE DEF P
<1>8. N \in P
  BY <1>2, <1>6, <1>7, StepsKeep
<1>9. g[N][Place(s, 1)] = following(1)
  BY <1>1, <1>2, <1>8 DEF P
<1>10. following(1) = s
  BY <1>1 DEF n
<1>11. p = Place(s, 1)
  BY DEF Chain
<1> HIDE DEF following
<1> QED BY <1>9, <1>10, <1>11, WalkLoop DEF g, N

\* The lists as Links reads them off the memory, and with nothing primed.
ForwardOf(mem, l) == Walk(mem.next, mem.head[l])
AgreesOf(mem, l) ==
  LET all == ForwardOf(mem, l)
      end == IF all = << >> THEN Nil ELSE Last(all)
  IN  /\ Walk(mem.prev, end) = Reverse(all)
      /\ l # "scratch" => mem.tail[l] = end
      /\ l \notin {"scratch", "items"} => mem.count[l] = Len(all)
ContentsOf(mem, cur) ==
  [l \in Queues \cup Wakers |->
     IF l \in Wakers THEN Walk(mem.next, cur[l])
     ELSE IF AgreesOf(mem, l) THEN ForwardOf(mem, l) ELSE <<Dangling>>]

\* The other direction finds the list from its last node to its first.
LEMMA BackIs ==
  ASSUME NEW link \in [Nodes -> Ptrs], NEW s \in Seq(Nodes),
         \A i, j \in 1..Len(s) : s[i] = s[j] => i = j,
         \A i \in 1..Len(s) : link[s[i]] = Place(s, i - 1)
  PROVE  Walk(link, Place(s, Len(s))) = Reverse(s)
<1> DEFINE n == Len(s)
           r == Reverse(s)
<1>1. n \in Nat /\ \A i \in 1..n : s[i] \in Nodes
  OBVIOUS
<1>2. r = [i \in 1..n |-> s[(n - i) + 1]]
  BY DEF Reverse
<1> HIDE DEF r
<1>3. r \in Seq(Nodes) /\ Len(r) = n /\ \A i \in 1..n : r[i] = s[n - i + 1]
  BY <1>1, <1>2
<1>4. \A i, j \in 1..n : r[i] = r[j] => i = j
  <2> SUFFICES ASSUME NEW i \in 1..n, NEW j \in 1..n, r[i] = r[j] PROVE i = j
    OBVIOUS
  <2>1. n - i + 1 \in 1..n /\ n - j + 1 \in 1..n /\ s[n - i + 1] = s[n - j + 1]
    BY <1>1, <1>3
  <2>2. n - i + 1 = n - j + 1
    BY <2>1
  <2> QED BY <1>1, <2>2
<1>5. Place(s, n) = Place(r, 1)
  <2>1. CASE n = 0
    BY <1>3, <2>1 DEF Place
  <2>2. CASE n # 0
    <3>1. 1 \in 1..n /\ n \in 1..n /\ r[1] = s[n]
      BY <1>1, <1>3, <2>2
    <3> QED BY <1>3, <3>1 DEF Place
  <2> QED BY <2>1, <2>2
<1>6. ASSUME NEW i \in 1..n PROVE link[r[i]] = Place(r, i + 1)
  <2> DEFINE j == n - i + 1
  <2>1. j \in 1..n /\ r[i] = s[j]
    BY <1>1, <1>3
  <2>2. link[s[j]] = Place(s, j - 1)
    BY <2>1
  <2>3. CASE i = n
    BY <1>1, <1>3, <2>1, <2>2, <2>3 DEF Place
  <2>4. CASE i # n
    <3>2. j - 1 \in 1..n /\ i + 1 \in 1..n /\ n - (i + 1) + 1 = j - 1
      BY <1>1, <2>4
    <3>3. r[i + 1] = s[n - (i + 1) + 1]
      BY <1>3, <3>2
    <3>1. j - 1 \in 1..n /\ i + 1 \in 1..n /\ r[i + 1] = s[j - 1]
      BY <3>2, <3>3
    <3> HIDE DEF j
    <3> QED BY <1>3, <2>1, <2>2, <3>1 DEF Place
  <2> QED BY <2>3, <2>4
<1> HIDE DEF n
<1>7. Chain(link, Place(s, n), r)
  BY <1>3, <1>4, <1>5, <1>6 DEF Chain
<1> QED BY <1>7, WalkIs DEF n, r

\* The lists are what Links reads.
LEMMA ReadIs ==
  ASSUME NEW mem, NEW cur, NEW S, Stands(mem, cur, S)
  PROVE  /\ ContentsOf(mem, cur) = S
         /\ \A l \in Queues : ForwardOf(mem, l) = S[l]
         /\ \A w \in Wakers : Walk(mem.next, cur[w]) = S[w]
<1>1. /\ mem.next \in [Nodes -> Ptrs] /\ mem.prev \in [Nodes -> Ptrs] /\ S \in [Lists -> Seq(Nodes)]
  BY DEF Stands, Mem
<1>2. ASSUME NEW l \in Queues PROVE ForwardOf(mem, l) = S[l] /\ AgreesOf(mem, l)
  <2> DEFINE s == S[l]
             end == IF s = << >> THEN Nil ELSE Last(s)
  <2>1. Whole(mem, l, s)
    BY DEF Stands
  <2> HIDE DEF s
  <2>2. /\ Chain(mem.next, mem.head[l], s) /\ s \in Seq(Nodes)
        /\ \A i, j \in 1..Len(s) : s[i] = s[j] => i = j
        /\ \A i \in 1..Len(s) : mem.prev[s[i]] = Place(s, i - 1)
        /\ l # "scratch" => mem.tail[l] = Place(s, Len(s))
        /\ l \notin {"scratch", "items"} => mem.count[l] = Len(s)
    BY <2>1 DEF Whole, Chain
  <2>3. ForwardOf(mem, l) = s
    BY <1>1, <2>2, WalkIs DEF ForwardOf
  <2>4. Walk(mem.prev, Place(s, Len(s))) = Reverse(s)
    BY <1>1, <2>2, BackIs
  <2>5. end = Place(s, Len(s))
    <3>1. CASE s = << >>
      BY <3>1 DEF Place
    <3>2. CASE s # << >>
      <4>1. Len(s) \in 1..Len(s)
        BY <2>2, <3>2
      <4> QED BY <3>2, <4>1 DEF Place, Last
    <3> QED BY <3>1, <3>2
  <2> HIDE DEF end
  <2>6. /\ Walk(mem.prev, end) = Reverse(s)
        /\ l # "scratch" => mem.tail[l] = end
        /\ l \notin {"scratch", "items"} => mem.count[l] = Len(s)
    BY <2>2, <2>4, <2>5
  <2>7. AgreesOf(mem, l)
    BY <2>3, <2>6, Zenon DEF AgreesOf, end
  <2> QED BY <2>3, <2>7 DEF s
<1>3. ASSUME NEW w \in Wakers PROVE Walk(mem.next, cur[w]) = S[w]
  BY <1>1, WalkIs DEF Stands
<1>4. ASSUME NEW l \in Lists
      PROVE  S[l] = IF l \in Wakers THEN Walk(mem.next, cur[l])
                    ELSE IF AgreesOf(mem, l) THEN ForwardOf(mem, l) ELSE <<Dangling>>
  BY <1>2, <1>3 DEF Lists
<1>5. S = [l \in Lists |-> S[l]]
  BY <1>1
<1>6. ContentsOf(mem, cur) = S
  BY <1>4, <1>5 DEF ContentsOf, Lists
<1> QED BY <1>2, <1>3, <1>6

\* What Links says, of this state and the next.
LEMMA Read == Contents = ContentsOf(m, cursor) /\ Contents' = ContentsOf(m', cursor')
BY DEF Contents, ContentsOf, Agrees, AgreesOf, Forward, ForwardOf, Ahead

-------------------------------------------------------------------------------
(* Sequences without repetition, and the places beside an item              *)

Distinct(s) == \A i, j \in 1..Len(s) : s[i] = s[j] => i = j

\* Without the i-th item; with t behind the i-th; with t in the i-th place.
Cut(s, i)     == [j \in 1..(Len(s) - 1) |-> IF j < i THEN s[j] ELSE s[j + 1]]
Put(s, i, t)  == [j \in 1..(Len(s) + 1) |-> IF j <= i THEN s[j] ELSE IF j = i + 1 THEN t ELSE s[j - 1]]
Swap(s, i, t) == [j \in 1..Len(s) |-> IF j = i THEN t ELSE s[j]]

LEMMA AtType ==
  ASSUME NEW s \in Seq(Nodes), NEW i \in Int
  PROVE  /\ Place(s, i) \in Nodes \cup {Nil}
         /\ Place(s, i) = Nil <=> i \notin 1..Len(s)
         /\ i \in 1..Len(s) => Place(s, i) = s[i] /\ s[i] \in Nodes /\ s[i] \in Els(s)
BY LinksAssumption DEF Place, Els

\* In a list an item is at one place.
LEMMA AtOnce ==
  ASSUME NEW s \in Seq(Nodes), Distinct(s), NEW j \in 1..Len(s), NEW i \in Int, s[j] = Place(s, i)
  PROVE  i = j
<1>1. s[j] \in Nodes /\ s[j] # Nil
  BY LinksAssumption
<1>2. i \in 1..Len(s)
  BY <1>1 DEF Place
<1> QED BY <1>2 DEF Place, Distinct

LEMMA CutIs ==
  ASSUME NEW s \in Seq(Nodes), Distinct(s), NEW i \in 1..Len(s)
  PROVE  /\ Cut(s, i) \in Seq(Nodes) /\ Len(Cut(s, i)) = Len(s) - 1 /\ Distinct(Cut(s, i))
         /\ \A j \in 0..Len(s) : Place(Cut(s, i), j) = IF j < i THEN Place(s, j) ELSE Place(s, j + 1)
         /\ Els(Cut(s, i)) = Els(s) \ {s[i]}
<1> DEFINE u == Cut(s, i)
           n == Len(s)
<1>1. n \in Nat /\ i \in Nat /\ \A j \in 1..n : s[j] \in Nodes
  OBVIOUS
<1>2. u = [j \in 1..(n - 1) |-> IF j < i THEN s[j] ELSE s[j + 1]]
  BY DEF Cut
<1> HIDE DEF u
<1>3. u \in Seq(Nodes) /\ Len(u) = n - 1 /\ \A j \in 1..(n - 1) : u[j] = IF j < i THEN s[j] ELSE s[j + 1]
  BY <1>1, <1>2
<1>4. Distinct(u)
  <2> DEFINE g(j) == IF j < i THEN j ELSE j + 1
  <2> SUFFICES ASSUME NEW j \in 1..(n - 1), NEW k \in 1..(n - 1), u[j] = u[k] PROVE j = k
    BY <1>3 DEF Distinct
  <2>1. g(j) \in 1..n /\ g(k) \in 1..n /\ (g(j) = g(k) => j = k)
    BY <1>1
  <2>2. u[j] = s[g(j)] /\ u[k] = s[g(k)]
    BY <1>3
  <2> HIDE DEF g
  <2> QED BY <2>1, <2>2 DEF Distinct
<1>5. \A j \in 0..n : Place(u, j) = IF j < i THEN Place(s, j) ELSE Place(s, j + 1)
  BY <1>1, <1>3 DEF Place
<1>6. ASSUME NEW x \in Els(u) PROVE x \in Els(s) \ {s[i]}
  <2>1. PICK j \in 1..(n - 1) : x = u[j]
    BY <1>3 DEF Els
  <2>2. CASE j < i
    BY <1>1, <1>3, <2>1, <2>2 DEF Els, Distinct
  <2>3. CASE ~(j < i)
    <3>1. j + 1 \in 1..n /\ x = s[j + 1] /\ j + 1 # i
      BY <1>1, <1>3, <2>1, <2>3
    <3> QED BY <3>1 DEF Els, Distinct
  <2> QED BY <2>2, <2>3
<1>7. ASSUME NEW x \in Els(s) \ {s[i]} PROVE x \in Els(u)
  <2>1. PICK j \in 1..n : x = s[j]
    BY DEF Els
  <2>2. CASE j < i
    <3>1. j \in 1..(n - 1) /\ u[j] = x
      BY <1>1, <1>3, <2>1, <2>2
    <3> QED BY <1>3, <3>1 DEF Els
  <2>3. CASE i < j
    <3>1. j - 1 \in 1..(n - 1) /\ ~(j - 1 < i) /\ (j - 1) + 1 = j
      BY <1>1, <2>3
    <3>2. u[j - 1] = x
      BY <1>3, <2>1, <3>1
    <3> QED BY <1>3, <3>1, <3>2 DEF Els
  <2> QED BY <1>1, <2>1, <2>2, <2>3
<1> QED BY <1>3, <1>4, <1>5, <1>6, <1>7 DEF u

LEMMA PutIs ==
  ASSUME NEW s \in Seq(Nodes), Distinct(s), NEW i \in 0..Len(s), NEW t \in Nodes \ Els(s)
  PROVE  /\ Put(s, i, t) \in Seq(Nodes) /\ Len(Put(s, i, t)) = Len(s) + 1 /\ Distinct(Put(s, i, t))
         /\ \A j \in 0..(Len(s) + 2) : Place(Put(s, i, t), j) = IF j <= i THEN Place(s, j) ELSE IF j = i + 1 THEN t ELSE Place(s, j - 1)
         /\ Els(Put(s, i, t)) = Els(s) \cup {t}
<1> DEFINE u == Put(s, i, t)
           n == Len(s)
<1>1. n \in Nat /\ i \in Nat /\ \A j \in 1..n : s[j] \in Nodes /\ s[j] # t
  BY DEF Els
<1>2. u = [j \in 1..(n + 1) |-> IF j <= i THEN s[j] ELSE IF j = i + 1 THEN t ELSE s[j - 1]]
  BY DEF Put
<1> HIDE DEF u
<1>3. /\ u \in Seq(Nodes) /\ Len(u) = n + 1
      /\ \A j \in 1..(n + 1) : u[j] = IF j <= i THEN s[j] ELSE IF j = i + 1 THEN t ELSE s[j - 1]
  BY <1>1, <1>2
<1>4. Distinct(u)
  <2> DEFINE g(j) == IF j <= i THEN j ELSE j - 1
  <2> SUFFICES ASSUME NEW j \in 1..(n + 1), NEW k \in 1..(n + 1), u[j] = u[k] PROVE j = k
    BY <1>3 DEF Distinct
  <2>1. CASE j = i + 1
    <3>1. CASE k = i + 1
      BY <2>1, <3>1
    <3>2. CASE k # i + 1
      <4>1. u[j] = t /\ g(k) \in 1..n /\ u[k] = s[g(k)]
        BY <1>1, <1>3, <2>1, <3>2
      <4> HIDE DEF g
      <4> QED BY <1>1, <4>1
    <3> QED BY <3>1, <3>2
  <2>2. CASE k = i + 1 /\ j # i + 1
    <3>1. u[k] = t /\ g(j) \in 1..n /\ u[j] = s[g(j)]
      BY <1>1, <1>3, <2>2
    <3> HIDE DEF g
    <3> QED BY <1>1, <3>1
  <2>3. CASE k # i + 1 /\ j # i + 1
    <3>1. /\ g(j) \in 1..n /\ u[j] = s[g(j)]
          /\ g(k) \in 1..n /\ u[k] = s[g(k)]
          /\ (g(j) = g(k) => j = k)
      BY <1>1, <1>3, <2>3
    <3> HIDE DEF g
    <3> QED BY <3>1 DEF Distinct
  <2> QED BY <2>1, <2>2, <2>3
<1>5. \A j \in 0..(n + 2) : Place(u, j) = IF j <= i THEN Place(s, j) ELSE IF j = i + 1 THEN t ELSE Place(s, j - 1)
  BY <1>1, <1>3 DEF Place
<1>6. ASSUME NEW x \in Els(u) PROVE x \in Els(s) \cup {t}
  <2>1. PICK j \in 1..(n + 1) : x = u[j]
    BY <1>3 DEF Els
  <2>2. CASE j <= i
    BY <1>1, <1>3, <2>1, <2>2 DEF Els
  <2>3. CASE j = i + 1
    BY <1>1, <1>3, <2>1, <2>3
  <2>4. CASE j > i + 1
    <3>1. j - 1 \in 1..n /\ x = s[j - 1]
      BY <1>1, <1>3, <2>1, <2>4
    <3> QED BY <3>1 DEF Els
  <2> QED BY <1>1, <2>2, <2>3, <2>4
<1>7. ASSUME NEW x \in Els(s) PROVE x \in Els(u)
  <2>1. PICK j \in 1..n : x = s[j]
    BY DEF Els
  <2>2. CASE j <= i
    <3>1. j \in 1..(n + 1) /\ u[j] = x
      BY <1>1, <1>3, <2>1, <2>2
    <3> QED BY <1>3, <3>1 DEF Els
  <2>3. CASE i < j
    <3>1. j + 1 \in 1..(n + 1) /\ ~(j + 1 <= i) /\ j + 1 # i + 1 /\ (j + 1) - 1 = j
      BY <1>1, <2>3
    <3>2. u[j + 1] = x
      BY <1>3, <2>1, <3>1
    <3> QED BY <1>3, <3>1, <3>2 DEF Els
  <2> QED BY <1>1, <2>1, <2>2, <2>3
<1>8. t \in Els(u)
  <2>1. i + 1 \in 1..(n + 1) /\ u[i + 1] = t
    BY <1>1, <1>3
  <2> QED BY <1>3, <2>1 DEF Els
<1> QED BY <1>3, <1>4, <1>5, <1>6, <1>7, <1>8 DEF u

LEMMA SwapIs ==
  ASSUME NEW s \in Seq(Nodes), Distinct(s), NEW i \in 1..Len(s), NEW t \in Nodes, t \notin Els(s) \/ t = s[i]
  PROVE  /\ Swap(s, i, t) \in Seq(Nodes) /\ Len(Swap(s, i, t)) = Len(s) /\ Distinct(Swap(s, i, t))
         /\ \A j \in Int : Place(Swap(s, i, t), j) = IF j = i THEN t ELSE Place(s, j)
         /\ Els(Swap(s, i, t)) = (Els(s) \ {s[i]}) \cup {t}
<1> DEFINE u == Swap(s, i, t)
           n == Len(s)
<1>1. n \in Nat /\ i \in Nat /\ \A j \in 1..n : s[j] \in Nodes /\ (s[j] = t => j = i)
  BY DEF Els, Distinct
<1>2. u = [j \in 1..n |-> IF j = i THEN t ELSE s[j]]
  BY DEF Swap
<1> HIDE DEF u
<1>3. u \in Seq(Nodes) /\ Len(u) = n /\ \A j \in 1..n : u[j] = IF j = i THEN t ELSE s[j]
  BY <1>1, <1>2
<1>4. Distinct(u)
  BY <1>1, <1>3 DEF Distinct
<1>5. \A j \in Int : Place(u, j) = IF j = i THEN t ELSE Place(s, j)
  BY <1>1, <1>3 DEF Place
<1>6. ASSUME NEW x \in Els(u) PROVE x \in (Els(s) \ {s[i]}) \cup {t}
  BY <1>1, <1>3 DEF Els, Distinct
<1>7. ASSUME NEW x \in (Els(s) \ {s[i]}) \cup {t} PROVE x \in Els(u)
  <2>1. u[i] = t /\ i \in 1..n
    BY <1>3
  <2>2. CASE x = t
    BY <1>3, <2>1, <2>2 DEF Els
  <2>3. CASE x # t
    <3>1. PICK j \in 1..n : x = s[j] /\ j # i
      BY <2>3 DEF Els
    <3>2. u[j] = x
      BY <1>3, <3>1
    <3> QED BY <1>3, <3>2 DEF Els
  <2> QED BY <2>2, <2>3
<1> QED BY <1>3, <1>4, <1>5, <1>6, <1>7 DEF u

-------------------------------------------------------------------------------
(* What a step changes                                                       *)

\* The lists a and b become those of T; the nodes on the others keep their links.
Changes(mem, cur, S, mem2, cur2, T, a, b) ==
  /\ mem2 \in Mem /\ cur2 \in [Wakers -> Nodes \cup {Nil}] /\ T \in [Lists -> Seq(Nodes)]
  /\ a \in Lists /\ b \in Lists
  /\ \A k \in Lists \ {a, b} : T[k] = S[k]
  /\ \A l \in Queues \cap {a, b} : Whole(mem2, l, T[l])
  /\ \A w \in Wakers \cap {a, b} : Chain(mem2.next, cur2[w], T[w])
  /\ \A k \in Queues \ {a, b} : mem2.head[k] = mem.head[k] /\ mem2.tail[k] = mem.tail[k] /\ mem2.count[k] = mem.count[k]
  /\ \A w \in Wakers \ {a, b} : cur2[w] = cur[w]
  /\ \A k \in Lists \ {a, b} : \A t \in Els(S[k]) : mem2.next[t] = mem.next[t] /\ mem2.prev[t] = mem.prev[t]
  /\ \A k, l \in Lists : k # l => Els(T[k]) \cap Els(T[l]) = {}
  /\ \A t \in Nodes : (\A l \in Lists : t \notin Els(T[l])) => Loose(mem2, t)

LEMMA StandsAfter ==
  ASSUME NEW mem, NEW cur, NEW S, Stands(mem, cur, S), NEW mem2, NEW cur2, NEW T, NEW a, NEW b,
         Changes(mem, cur, S, mem2, cur2, T, a, b)
  PROVE  Stands(mem2, cur2, T)
<1> DEFINE C == {a, b}
<1> USE DEF Changes
<1>1. ASSUME NEW k \in Lists \ C, NEW i \in 1..Len(S[k])
      PROVE  mem2.next[S[k][i]] = mem.next[S[k][i]] /\ mem2.prev[S[k][i]] = mem.prev[S[k][i]]
  <2>1. \A t \in Els(S[k]) : mem2.next[t] = mem.next[t] /\ mem2.prev[t] = mem.prev[t]
    OBVIOUS
  <2>2. S[k][i] \in Els(S[k])
    BY DEF Els
  <2> QED BY <2>1, <2>2
<1>2. ASSUME NEW l \in Queues PROVE Whole(mem2, l, T[l])
  <2>1. CASE l \notin C
    <3>1. Whole(mem, l, S[l]) /\ T[l] = S[l] /\ l \in Lists
      BY <2>1 DEF Stands, Lists
    <3>2. mem2.head[l] = mem.head[l] /\ mem2.tail[l] = mem.tail[l] /\ mem2.count[l] = mem.count[l]
      BY <2>1
    <3> QED BY <1>1, <2>1, <3>1, <3>2 DEF Whole, Chain
  <2> QED BY <2>1
<1>3. ASSUME NEW w \in Wakers PROVE Chain(mem2.next, cur2[w], T[w])
  <2>1. CASE w \notin C
    <3>1. Chain(mem.next, cur[w], S[w]) /\ T[w] = S[w] /\ w \in Lists /\ cur2[w] = cur[w]
      BY <2>1 DEF Stands, Lists
    <3> QED BY <1>1, <2>1, <3>1 DEF Chain
  <2> QED BY <2>1
<1> QED BY <1>2, <1>3 DEF Stands

\* Only list l has another head, tail or count.
Elsewhere(mem, mem2, l) ==
  \A k \in Queues \ {l} :
    mem2.head[k] = mem.head[k] /\ mem2.tail[k] = mem.tail[k] /\ mem2.count[k] = mem.count[k]

\* The i-th node of list s leaves l.
CutsOut(mem, mem2, l, s, i) ==
  /\ mem2 \in Mem
  /\ mem2.head[l] = IF i = 1 THEN Place(s, 2) ELSE mem.head[l]
  /\ l # "scratch" => mem2.tail[l] = IF i = Len(s) THEN Place(s, i - 1) ELSE mem.tail[l]
  /\ l \notin {"scratch", "items"} => mem2.count[l] = mem.count[l] - 1
  /\ \A q \in Nodes \ {s[i]} :
       /\ mem2.next[q] = IF q = Place(s, i - 1) THEN Place(s, i + 1) ELSE mem.next[q]
       /\ mem2.prev[q] = IF q = Place(s, i + 1) THEN Place(s, i - 1) ELSE mem.prev[q]
  /\ Loose(mem2, s[i])
  /\ Elsewhere(mem, mem2, l)

LEMMA WholeCut ==
  ASSUME NEW mem, NEW mem2, NEW l \in Queues, NEW s, NEW i \in 1..Len(s),
         Whole(mem, l, s), CutsOut(mem, mem2, l, s, i)
  PROVE  Whole(mem2, l, Cut(s, i))
<1> DEFINE n == Len(s)
           u == Cut(s, i)
<1>1. s \in Seq(Nodes) /\ Distinct(s) /\ n \in Nat /\ i \in Nat
  BY DEF Whole, Chain, Distinct
<1>2. /\ u \in Seq(Nodes) /\ Len(u) = n - 1 /\ Distinct(u)
      /\ \A j \in 0..n : Place(u, j) = IF j < i THEN Place(s, j) ELSE Place(s, j + 1)
  BY <1>1, CutIs
<1>3. /\ mem.head[l] = Place(s, 1) /\ \A j \in 1..n : mem.next[s[j]] = Place(s, j + 1) /\ mem.prev[s[j]] = Place(s, j - 1)
      /\ l # "scratch" => mem.tail[l] = Place(s, n)
      /\ l \notin {"scratch", "items"} => mem.count[l] = n
  BY DEF Whole, Chain
<1> HIDE DEF u, n
<1>4. mem2.head[l] = Place(u, 1)
  <2>1. 1 \in 0..n /\ 1 \in 0..Len(s)
    BY <1>1 DEF n
  <2>2. Place(u, 1) = IF 1 < i THEN Place(s, 1) ELSE Place(s, 2)
    BY <1>2, <2>1
  <2> QED BY <1>1, <1>3, <2>2 DEF CutsOut
<1>5. l # "scratch" => mem2.tail[l] = Place(u, Len(u))
  <2>1. n - 1 \in 0..n
    BY <1>1 DEF n
  <2>2. Place(u, n - 1) = IF n - 1 < i THEN Place(s, n - 1) ELSE Place(s, n)
    BY <1>1, <1>2, <2>1
  <2> QED BY <1>1, <1>2, <1>3, <2>2 DEF CutsOut, n
<1>6. l \notin {"scratch", "items"} => mem2.count[l] = Len(u)
  BY <1>2, <1>3 DEF CutsOut
<1>7. ASSUME NEW j \in 1..(n - 1)
      PROVE  mem2.next[u[j]] = Place(u, j + 1) /\ mem2.prev[u[j]] = Place(u, j - 1)
  <2> DEFINE g == IF j < i THEN j ELSE j + 1
  <2>1. g \in 1..n /\ g # i /\ g \in 1..Len(s) /\ j \in 0..n /\ j + 1 \in 0..n /\ j - 1 \in 0..n
    BY <1>1 DEF n
  <2>2. u[j] = s[g] /\ s[g] \in Nodes /\ s[g] # s[i]
    <3>1. Place(u, j) = u[j] /\ Place(s, g) = s[g]
      BY <1>1, <1>2, <2>1 DEF Place
    <3> QED BY <1>1, <1>2, <2>1, <3>1 DEF Distinct
  <2>3. s[g] = Place(s, i - 1) <=> g = i - 1
    <3>1. ASSUME s[g] = Place(s, i - 1) PROVE g = i - 1
      BY <1>1, <2>1, <3>1, AtOnce
    <3> QED BY <1>1, <2>1, <3>1 DEF Place
  <2>4. s[g] = Place(s, i + 1) <=> g = i + 1
    <3>1. ASSUME s[g] = Place(s, i + 1) PROVE g = i + 1
      BY <1>1, <2>1, <3>1, AtOnce
    <3> QED BY <1>1, <2>1, <3>1 DEF Place
  <2>5. /\ mem2.next[s[g]] = IF g = i - 1 THEN Place(s, i + 1) ELSE Place(s, g + 1)
        /\ mem2.prev[s[g]] = IF g = i + 1 THEN Place(s, i - 1) ELSE Place(s, g - 1)
    BY <1>3, <2>1, <2>2, <2>3, <2>4 DEF CutsOut
  <2>6. /\ Place(u, j + 1) = IF j + 1 < i THEN Place(s, j + 1) ELSE Place(s, j + 2)
        /\ Place(u, j - 1) = IF j - 1 < i THEN Place(s, j - 1) ELSE Place(s, j)
    <3>1. (j + 1) + 1 = j + 2 /\ (j - 1) + 1 = j
      OBVIOUS
    <3> QED BY <1>2, <2>1, <3>1
  <2>7. CASE j < i
    BY <1>1, <2>2, <2>5, <2>6, <2>7
  <2>8. CASE ~(j < i)
    BY <1>1, <2>2, <2>5, <2>6, <2>8
  <2> QED BY <2>7, <2>8
<1> QED BY <1>2, <1>4, <1>5, <1>6, <1>7 DEF Whole, Chain, Distinct, u

\* Node t joins list l behind the i-th of s.
PutsIn(mem, mem2, l, s, i, t) ==
  /\ mem2 \in Mem
  /\ mem2.head[l] = IF i = 0 THEN t ELSE mem.head[l]
  /\ l # "scratch" => mem2.tail[l] = IF i = Len(s) THEN t ELSE mem.tail[l]
  /\ l \notin {"scratch", "items"} => mem2.count[l] = mem.count[l] + 1
  /\ mem2.next[t] = Place(s, i + 1) /\ mem2.prev[t] = Place(s, i)
  /\ \A q \in Nodes \ {t} :
       /\ mem2.next[q] = IF q = Place(s, i) THEN t ELSE mem.next[q]
       /\ mem2.prev[q] = IF q = Place(s, i + 1) THEN t ELSE mem.prev[q]
  /\ Elsewhere(mem, mem2, l)

LEMMA WholePut ==
  ASSUME NEW mem, NEW mem2, NEW l \in Queues, NEW s, NEW i \in 0..Len(s), NEW t \in Nodes \ Els(s),
         Whole(mem, l, s), PutsIn(mem, mem2, l, s, i, t)
  PROVE  Whole(mem2, l, Put(s, i, t))
<1> DEFINE n == Len(s)
           u == Put(s, i, t)
<1>1. s \in Seq(Nodes) /\ Distinct(s) /\ n \in Nat /\ i \in Nat
  BY DEF Whole, Chain, Distinct
<1>2. /\ u \in Seq(Nodes) /\ Len(u) = n + 1 /\ Distinct(u)
      /\ \A j \in 0..(n + 2) : Place(u, j) = IF j <= i THEN Place(s, j) ELSE IF j = i + 1 THEN t ELSE Place(s, j - 1)
  BY <1>1, PutIs
<1>3. /\ mem.head[l] = Place(s, 1) /\ \A j \in 1..n : mem.next[s[j]] = Place(s, j + 1) /\ mem.prev[s[j]] = Place(s, j - 1)
      /\ l # "scratch" => mem.tail[l] = Place(s, n)
      /\ l \notin {"scratch", "items"} => mem.count[l] = n
  BY DEF Whole, Chain
<1> HIDE DEF u, n
<1>4. mem2.head[l] = Place(u, 1)
  <2>1. 1 \in 0..(n + 2)
    BY <1>1
  <2>2. Place(u, 1) = IF 1 <= i THEN Place(s, 1) ELSE IF 1 = i + 1 THEN t ELSE Place(s, 1 - 1)
    BY <1>2, <2>1
  <2> QED BY <1>1, <1>3, <2>2 DEF PutsIn
<1>5. l # "scratch" => mem2.tail[l] = Place(u, Len(u))
  <2>1. n + 1 \in 0..(n + 2)
    BY <1>1
  <2>2. Place(u, n + 1) = IF n + 1 <= i THEN Place(s, n + 1) ELSE IF n + 1 = i + 1 THEN t ELSE Place(s, (n + 1) - 1)
    BY <1>2, <2>1
  <2> QED BY <1>1, <1>2, <1>3, <2>2 DEF PutsIn, n
<1>6. l \notin {"scratch", "items"} => mem2.count[l] = Len(u)
  BY <1>2, <1>3 DEF PutsIn
<1>7. ASSUME NEW j \in 1..(n + 1)
      PROVE  mem2.next[u[j]] = Place(u, j + 1) /\ mem2.prev[u[j]] = Place(u, j - 1)
  <2>1. j \in 0..(n + 2) /\ j + 1 \in 0..(n + 2) /\ j - 1 \in 0..(n + 2) /\ (j + 1) - 1 = j /\ (j - 1) - 1 = j - 2
    BY <1>1
  <2>2. /\ Place(u, j + 1) = IF j + 1 <= i THEN Place(s, j + 1) ELSE IF j + 1 = i + 1 THEN t ELSE Place(s, j)
        /\ Place(u, j - 1) = IF j - 1 <= i THEN Place(s, j - 1) ELSE IF j - 1 = i + 1 THEN t ELSE Place(s, j - 2)
        /\ Place(u, j) = IF j <= i THEN Place(s, j) ELSE IF j = i + 1 THEN t ELSE Place(s, j - 1)
    BY <1>2, <2>1
  <2>3. u[j] = Place(u, j)
    BY <1>2 DEF Place
  <2>4. CASE j = i + 1
    <3>1. u[j] = t
      BY <1>1, <2>2, <2>3, <2>4
    <3> QED BY <1>1, <2>2, <2>4, <3>1 DEF PutsIn
  <2>5. CASE j # i + 1
    <3> DEFINE g == IF j <= i THEN j ELSE j - 1
    <3>1. g \in 1..n /\ g \in 1..Len(s) /\ u[j] = Place(s, g)
      BY <1>1, <2>2, <2>3, <2>5 DEF n
    <3> HIDE DEF g
    <3>2. u[j] = s[g] /\ s[g] \in Nodes /\ s[g] # t
      BY <1>1, <3>1 DEF Place, Els
    <3>3. s[g] = Place(s, i) <=> g = i
      <4>1. ASSUME s[g] = Place(s, i) PROVE g = i
        BY <1>1, <3>1, <4>1, AtOnce
      <4> QED BY <1>1, <3>1, <4>1 DEF Place
    <3>4. s[g] = Place(s, i + 1) <=> g = i + 1
      <4>1. ASSUME s[g] = Place(s, i + 1) PROVE g = i + 1
        BY <1>1, <3>1, <4>1, AtOnce
      <4> QED BY <1>1, <3>1, <4>1 DEF Place
    <3>5. /\ mem2.next[s[g]] = IF g = i THEN t ELSE Place(s, g + 1)
          /\ mem2.prev[s[g]] = IF g = i + 1 THEN t ELSE Place(s, g - 1)
      BY <1>3, <3>1, <3>2, <3>3, <3>4 DEF PutsIn
    <3>6. CASE j <= i
      BY <1>1, <2>2, <3>1, <3>2, <3>5, <3>6 DEF g
    <3>7. CASE ~(j <= i)
      BY <1>1, <2>2, <2>5, <3>1, <3>2, <3>5, <3>7 DEF g
    <3> QED BY <3>6, <3>7
  <2> QED BY <2>4, <2>5
<1> QED BY <1>2, <1>4, <1>5, <1>6, <1>7 DEF Whole, Chain, Distinct, u

\* The i-th block of the scratch list s becomes t, or is t and stays.
SwapsIn(mem, mem2, s, i, t) ==
  /\ mem2 \in Mem
  /\ mem2.head["scratch"] = IF i = 1 THEN t ELSE mem.head["scratch"]
  /\ mem2.next[t] = Place(s, i + 1) /\ mem2.prev[t] = Place(s, i - 1)
  /\ \A q \in Nodes \ {t, s[i]} :
       /\ mem2.next[q] = IF q = Place(s, i - 1) THEN t ELSE mem.next[q]
       /\ mem2.prev[q] = IF q = Place(s, i + 1) THEN t ELSE mem.prev[q]
  /\ t # s[i] => Loose(mem2, s[i])
  /\ Elsewhere(mem, mem2, "scratch")

LEMMA WholeSwap ==
  ASSUME NEW mem, NEW mem2, NEW s, NEW i \in 1..Len(s), NEW t \in Nodes, t \notin Els(s) \/ t = s[i],
         Whole(mem, "scratch", s), SwapsIn(mem, mem2, s, i, t)
  PROVE  Whole(mem2, "scratch", Swap(s, i, t))
<1> DEFINE n == Len(s)
           u == Swap(s, i, t)
<1>1. s \in Seq(Nodes) /\ Distinct(s) /\ n \in Nat /\ i \in Nat
  BY DEF Whole, Chain, Distinct
<1>2. /\ u \in Seq(Nodes) /\ Len(u) = n /\ Distinct(u)
      /\ \A j \in Int : Place(u, j) = IF j = i THEN t ELSE Place(s, j)
  BY <1>1, SwapIs
<1>3. mem.head["scratch"] = Place(s, 1) /\ \A j \in 1..n : mem.next[s[j]] = Place(s, j + 1) /\ mem.prev[s[j]] = Place(s, j - 1)
  BY DEF Whole, Chain
<1> HIDE DEF u, n
<1>4. mem2.head["scratch"] = Place(u, 1)
  BY <1>1, <1>2, <1>3 DEF SwapsIn
<1>5. ASSUME NEW j \in 1..n
      PROVE  mem2.next[u[j]] = Place(u, j + 1) /\ mem2.prev[u[j]] = Place(u, j - 1)
  <2>1. /\ Place(u, j) = IF j = i THEN t ELSE Place(s, j)
        /\ Place(u, j + 1) = IF j + 1 = i THEN t ELSE Place(s, j + 1)
        /\ Place(u, j - 1) = IF j - 1 = i THEN t ELSE Place(s, j - 1)
    BY <1>1, <1>2
  <2>2. u[j] = Place(u, j)
    BY <1>2 DEF Place
  <2>3. CASE j = i
    <3>1. u[j] = t
      BY <2>1, <2>2, <2>3
    <3> QED BY <1>1, <2>1, <2>3, <3>1 DEF SwapsIn
  <2>4. CASE j # i
    <3>1. j \in 1..Len(s) /\ u[j] = Place(s, j)
      BY <1>1, <2>1, <2>2, <2>4 DEF n
    <3>2. u[j] = s[j] /\ s[j] \in Nodes /\ s[j] # t /\ s[j] # s[i]
      BY <1>1, <2>4, <3>1 DEF Place, Els, Distinct
    <3>3. s[j] = Place(s, i - 1) <=> j = i - 1
      <4>1. ASSUME s[j] = Place(s, i - 1) PROVE j = i - 1
        BY <1>1, <3>1, <4>1, AtOnce
      <4> QED BY <1>1, <3>1, <4>1 DEF Place
    <3>4. s[j] = Place(s, i + 1) <=> j = i + 1
      <4>1. ASSUME s[j] = Place(s, i + 1) PROVE j = i + 1
        BY <1>1, <3>1, <4>1, AtOnce
      <4> QED BY <1>1, <3>1, <4>1 DEF Place
    <3>5. /\ mem2.next[s[j]] = IF j = i - 1 THEN t ELSE Place(s, j + 1)
          /\ mem2.prev[s[j]] = IF j = i + 1 THEN t ELSE Place(s, j - 1)
      BY <1>3, <3>1, <3>2, <3>3, <3>4 DEF SwapsIn
    <3> QED BY <1>1, <2>1, <3>2, <3>5
  <2> QED BY <2>3, <2>4
<1> QED BY <1>2, <1>4, <1>5 DEF Whole, Chain, Distinct, u

\* Nothing else refers to a node of another list.
LEMMA Apart ==
  ASSUME NEW mem, NEW cur, NEW S, Stands(mem, cur, S), NEW l \in Queues, NEW k \in Lists \ {l}, NEW q \in Els(S[k])
  PROVE  q \in Nodes /\ q \notin Els(S[l]) /\ \A i \in Int : q # Place(S[l], i)
<1>1. l \in Lists /\ S[k] \in Seq(Nodes) /\ S[l] \in Seq(Nodes)
  BY DEF Stands, Lists
<1>2. q \in Nodes
  BY <1>1 DEF Els
<1>3. q \notin Els(S[l])
  BY <1>1 DEF Stands
<1>4. ASSUME NEW i \in Int PROVE q # Place(S[l], i)
  BY <1>1, <1>2, <1>3, AtType, LinksAssumption
<1> QED BY <1>2, <1>3, <1>4

\* One list becomes u, which takes no node of another one.
LEMMA OneList ==
  ASSUME NEW mem, NEW cur, NEW S, Stands(mem, cur, S), NEW l \in Queues, NEW u \in Seq(Nodes),
         NEW mem2 \in Mem, Whole(mem2, l, u), Elsewhere(mem, mem2, l),
         \A k \in Lists \ {l} : \A q \in Els(S[k]) : q \notin Els(u) /\ mem2.next[q] = mem.next[q] /\ mem2.prev[q] = mem.prev[q],
         \A q \in Nodes : q \notin Els(u) /\ (\A k \in Lists \ {l} : q \notin Els(S[k])) => Loose(mem2, q)
  PROVE  Stands(mem2, cur, [S EXCEPT ![l] = u])
<1>1. S \in [Lists -> Seq(Nodes)] /\ l \in Lists /\ l \notin Wakers /\ cur \in [Wakers -> Nodes \cup {Nil}]
  BY LinksAssumption DEF Stands, Lists
<1> SUFFICES ASSUME NEW T \in [Lists -> Seq(Nodes)], T = [S EXCEPT ![l] = u],
                    NEW a \in Lists, NEW b \in Lists, a = l, b = l
             PROVE  Stands(mem2, cur, T)
  <2>1. [S EXCEPT ![l] = u] \in [Lists -> Seq(Nodes)]
    BY <1>1
  <2> QED BY <1>1, <2>1
<1> DEFINE C == {a, b}
<1>2. T[l] = u /\ \A k \in Lists \ C : T[k] = S[k]
  BY <1>1
<1>3. \A k, j \in Lists : k # j => Els(T[k]) \cap Els(T[j]) = {}
  <2>1. \A k, j \in Lists : k # j => Els(S[k]) \cap Els(S[j]) = {}
    BY DEF Stands
  <2>2. \A k \in Lists \ {l} : Els(S[k]) \cap Els(u) = {}
    OBVIOUS
  <2> SUFFICES ASSUME NEW k \in Lists, NEW j \in Lists, k # j PROVE Els(T[k]) \cap Els(T[j]) = {}
    OBVIOUS
  <2>3. CASE k = l
    <3>1. T[k] = u /\ T[j] = S[j] /\ Els(S[j]) \cap Els(u) = {}
      BY <1>2, <2>2, <2>3
    <3> QED BY <3>1
  <2>4. CASE j = l
    <3>1. T[j] = u /\ T[k] = S[k] /\ Els(S[k]) \cap Els(u) = {}
      BY <1>2, <2>2, <2>4
    <3> QED BY <3>1
  <2>5. CASE k # l /\ j # l
    <3>1. T[j] = S[j] /\ T[k] = S[k]
      BY <1>2, <2>5
    <3> QED BY <2>1, <3>1
  <2> QED BY <2>3, <2>4, <2>5
<1>4. \A t \in Nodes : (\A k \in Lists : t \notin Els(T[k])) => Loose(mem2, t)
  BY <1>1, <1>2
<1>5. \A w \in Wakers \cap C : Chain(mem2.next, cur[w], T[w])
  BY <1>1
<1>6. \A k \in Queues \cap C : Whole(mem2, k, T[k])
  BY <1>2
<1>7. \A k \in Queues \ C : mem2.head[k] = mem.head[k] /\ mem2.tail[k] = mem.tail[k] /\ mem2.count[k] = mem.count[k]
  BY DEF Elsewhere
<1>8. \A k \in Lists \ C : \A t \in Els(S[k]) : mem2.next[t] = mem.next[t] /\ mem2.prev[t] = mem.prev[t]
  OBVIOUS
<1>10. Changes(mem, cur, S, mem2, cur, T, a, b)
  BY <1>1, <1>2, <1>3, <1>4, <1>5, <1>6, <1>7, <1>8 DEF Changes
<1> QED BY <1>10, StandsAfter

LEMMA StandsCut ==
  ASSUME NEW mem, NEW cur, NEW S, NEW mem2, NEW l \in Queues, NEW i \in 1..Len(S[l]),
         Stands(mem, cur, S), CutsOut(mem, mem2, l, S[l], i)
  PROVE  Stands(mem2, cur, [S EXCEPT ![l] = Cut(S[l], i)])
<1> DEFINE s == S[l]
           u == Cut(s, i)
<1>1. Whole(mem, l, s) /\ l \in Lists
  BY DEF Stands, Lists
<1>2. s \in Seq(Nodes) /\ Distinct(s) /\ i \in 1..Len(s) /\ Len(s) \in Nat
  BY <1>1 DEF Whole, Chain, Distinct
<1>3. u \in Seq(Nodes) /\ Els(u) = Els(s) \ {s[i]} /\ s[i] \in Els(s)
  <2>1. u \in Seq(Nodes) /\ Els(u) = Els(s) \ {s[i]}
    BY <1>2, CutIs
  <2>2. s[i] \in Els(s)
    BY <1>2 DEF Els
  <2> QED BY <2>1, <2>2
<1>4. Whole(mem2, l, u)
  BY <1>1, <1>2, WholeCut
<1>5. mem2 \in Mem /\ Elsewhere(mem, mem2, l) /\ Loose(mem2, s[i])
  BY DEF CutsOut
<1>6. ASSUME NEW q \in Nodes \ {s[i]}, q # Place(s, i - 1), q # Place(s, i + 1)
      PROVE  mem2.next[q] = mem.next[q] /\ mem2.prev[q] = mem.prev[q]
  BY <1>6 DEF CutsOut
<1>7. ASSUME NEW k \in Lists \ {l}, NEW q \in Els(S[k])
      PROVE  q \notin Els(u) /\ mem2.next[q] = mem.next[q] /\ mem2.prev[q] = mem.prev[q]
  <2>1. q \in Nodes /\ q \notin Els(s) /\ \A j \in Int : q # Place(s, j)
    BY Apart
  <2> HIDE DEF s, u
  <2> QED BY <1>2, <1>3, <1>6, <2>1
<1>8. ASSUME NEW q \in Nodes, q \notin Els(u), \A k \in Lists \ {l} : q \notin Els(S[k])
      PROVE  Loose(mem2, q)
  <2>1. CASE q = s[i]
    BY <1>5, <2>1
  <2>2. CASE q # s[i]
    <3>1. q \notin Els(s)
      BY <1>3, <1>8, <2>2
    <3>2. Loose(mem, q)
      BY <1>8, <3>1 DEF Stands
    <3>3. q # Place(s, i - 1) /\ q # Place(s, i + 1)
      BY <1>2, <3>1, AtType, LinksAssumption
    <3> QED BY <1>6, <2>2, <3>2, <3>3 DEF Loose
  <2> QED BY <2>1, <2>2
<1> HIDE DEF u
<1>9. Stands(mem2, cur, [S EXCEPT ![l] = u])
  BY <1>3, <1>4, <1>5, <1>7, <1>8, OneList
<1> QED BY <1>9 DEF u

LEMMA StandsPut ==
  ASSUME NEW mem, NEW cur, NEW S, NEW mem2, NEW l \in Queues, NEW i \in 0..Len(S[l]), NEW t \in Nodes,
         \A k \in Lists : t \notin Els(S[k]),
         Stands(mem, cur, S), PutsIn(mem, mem2, l, S[l], i, t)
  PROVE  Stands(mem2, cur, [S EXCEPT ![l] = Put(S[l], i, t)])
<1> DEFINE s == S[l]
           u == Put(s, i, t)
<1>1. Whole(mem, l, s) /\ l \in Lists
  BY DEF Stands, Lists
<1>2. s \in Seq(Nodes) /\ Distinct(s) /\ i \in 0..Len(s) /\ Len(s) \in Nat /\ t \in Nodes \ Els(s)
  BY <1>1 DEF Whole, Chain, Distinct
<1>3. u \in Seq(Nodes) /\ Els(u) = Els(s) \cup {t}
  BY <1>2, PutIs
<1>4. Whole(mem2, l, u)
  BY <1>1, <1>2, WholePut
<1>5. mem2 \in Mem /\ Elsewhere(mem, mem2, l)
  BY DEF PutsIn
<1>6. ASSUME NEW q \in Nodes \ {t}, q # Place(s, i), q # Place(s, i + 1)
      PROVE  mem2.next[q] = mem.next[q] /\ mem2.prev[q] = mem.prev[q]
  BY <1>6 DEF PutsIn
<1>7. ASSUME NEW k \in Lists \ {l}, NEW q \in Els(S[k])
      PROVE  q \notin Els(u) /\ mem2.next[q] = mem.next[q] /\ mem2.prev[q] = mem.prev[q]
  <2>1. q \in Nodes /\ q \notin Els(s) /\ \A j \in Int : q # Place(s, j)
    BY Apart
  <2>2. q # t
    OBVIOUS
  <2> HIDE DEF s, u
  <2> QED BY <1>2, <1>3, <1>6, <2>1, <2>2
<1>8. ASSUME NEW q \in Nodes, q \notin Els(u), \A k \in Lists \ {l} : q \notin Els(S[k])
      PROVE  Loose(mem2, q)
  <2>1. q \notin Els(s) /\ q # t
    BY <1>3, <1>8
  <2>2. Loose(mem, q)
    BY <1>8, <2>1 DEF Stands
  <2>3. q # Place(s, i) /\ q # Place(s, i + 1)
    BY <1>2, <2>1, AtType, LinksAssumption
  <2> QED BY <1>6, <2>1, <2>2, <2>3 DEF Loose
<1> HIDE DEF u
<1>9. Stands(mem2, cur, [S EXCEPT ![l] = u])
  BY <1>3, <1>4, <1>5, <1>7, <1>8, OneList
<1> QED BY <1>9 DEF u

LEMMA StandsSwap ==
  ASSUME NEW mem, NEW cur, NEW S, NEW mem2, NEW i \in 1..Len(S["scratch"]), NEW t \in Nodes,
         t = S["scratch"][i] \/ \A k \in Lists : t \notin Els(S[k]),
         Stands(mem, cur, S), SwapsIn(mem, mem2, S["scratch"], i, t)
  PROVE  Stands(mem2, cur, [S EXCEPT !["scratch"] = Swap(S["scratch"], i, t)])
<1> DEFINE l == "scratch"
           s == S[l]
           u == Swap(s, i, t)
<1>1. Whole(mem, l, s) /\ l \in Lists /\ l \in Queues
  BY DEF Stands, Lists, Queues
<1>2. s \in Seq(Nodes) /\ Distinct(s) /\ i \in 1..Len(s) /\ Len(s) \in Nat /\ (t \notin Els(s) \/ t = s[i])
  BY <1>1 DEF Whole, Chain, Distinct
<1>3. u \in Seq(Nodes) /\ Els(u) = (Els(s) \ {s[i]}) \cup {t} /\ s[i] \in Els(s)
  BY <1>2, SwapIs, AtType
<1>4. Whole(mem2, l, u)
  BY <1>1, <1>2, WholeSwap
<1>5. mem2 \in Mem /\ Elsewhere(mem, mem2, l) /\ (t # s[i] => Loose(mem2, s[i]))
  BY DEF SwapsIn
<1>6. ASSUME NEW q \in Nodes \ {t, s[i]}, q # Place(s, i - 1), q # Place(s, i + 1)
      PROVE  mem2.next[q] = mem.next[q] /\ mem2.prev[q] = mem.prev[q]
  BY <1>6 DEF SwapsIn
<1>7. ASSUME NEW k \in Lists \ {l}, NEW q \in Els(S[k])
      PROVE  q \notin Els(u) /\ mem2.next[q] = mem.next[q] /\ mem2.prev[q] = mem.prev[q]
  <2>1. q \in Nodes /\ q \notin Els(s) /\ \A j \in Int : q # Place(s, j)
    BY <1>1, Apart
  <2>2. q # t
    BY <1>3, <2>1
  <2> HIDE DEF s, u, l
  <2> QED BY <1>2, <1>3, <1>6, <2>1, <2>2
<1>8. ASSUME NEW q \in Nodes, q \notin Els(u), \A k \in Lists \ {l} : q \notin Els(S[k])
      PROVE  Loose(mem2, q)
  <2>0. q # t
    BY <1>3, <1>8
  <2>1. CASE q = s[i]
    BY <1>5, <2>0, <2>1
  <2>2. CASE q # s[i]
    <3>1. q \notin Els(s)
      BY <1>3, <1>8, <2>2
    <3>2. Loose(mem, q)
      BY <1>8, <3>1 DEF Stands
    <3>3. q # Place(s, i - 1) /\ q # Place(s, i + 1)
      BY <1>2, <3>1, AtType, LinksAssumption
    <3> QED BY <1>6, <2>0, <2>2, <3>2, <3>3 DEF Loose
  <2> QED BY <2>1, <2>2
<1> HIDE DEF u, l
<1>9. Stands(mem2, cur, [S EXCEPT ![l] = u])
  BY <1>1, <1>3, <1>4, <1>5, <1>7, <1>8, OneList
<1> QED BY <1>9 DEF u, l

-------------------------------------------------------------------------------
(* The operations of the code                                                *)

LEMMA ClearedIs ==
  ASSUME NEW mem \in Mem, NEW t \in Nodes
  PROVE  LET c == cleared(mem, t)
         IN  /\ c \in Mem /\ c.head = mem.head /\ c.tail = mem.tail /\ c.count = mem.count
             /\ c.prev = [mem.prev EXCEPT ![t] = Nil] /\ c.next = [mem.next EXCEPT ![t] = Nil]
BY DEF cleared, Mem, Ptrs

LEMMA FreedIs ==
  ASSUME NEW mem \in Mem, NEW t \in Nodes
  PROVE  LET c == freed(mem, t)
         IN  /\ c \in Mem /\ c.head = mem.head /\ c.tail = mem.tail /\ c.count = mem.count
             /\ c.prev = [mem.prev EXCEPT ![t] = Dangling] /\ c.next = [mem.next EXCEPT ![t] = Dangling]
BY DEF freed, Mem, Ptrs

LEMMA CountedIs ==
  ASSUME NEW mem \in Mem, NEW l \in Queues, NEW d, d = 1 \/ d = -1
  PROVE  LET c == counted(mem, l, d)
         IN  /\ c \in Mem /\ c.head = mem.head /\ c.tail = mem.tail /\ c.prev = mem.prev /\ c.next = mem.next
             /\ c.count = [mem.count EXCEPT ![l] = @ + d]
BY DEF counted, Mem

Ends == Nodes \cup {Nil}

LEMMA JoinedIs ==
  ASSUME NEW mem \in Mem, NEW l \in Queues, NEW p \in Ends, NEW n \in Ends, NEW x \in Ends, NEW y \in Ends
  PROVE  LET c == joined(mem, l, p, n, x, y)
         IN  /\ c \in Mem /\ c.tail = mem.tail /\ c.count = mem.count
             /\ c.head = [mem.head EXCEPT ![l] = IF p = Nil THEN x ELSE @]
             /\ \A q \in Nodes : c.next[q] = IF q = p THEN x ELSE mem.next[q]
             /\ \A q \in Nodes : c.prev[q] = IF q = n THEN y ELSE mem.prev[q]
<1> DEFINE c == joined(mem, l, p, n, x, y)
<1>1. /\ mem.head \in [Queues -> Nodes \cup {Nil}] /\ mem.tail \in [Queues -> Nodes \cup {Nil}]
      /\ mem.count \in [Queues -> Int] /\ mem.prev \in [Nodes -> Ptrs] /\ mem.next \in [Nodes -> Ptrs]
  BY DEF Mem
<1>2. /\ set_link(mem.next, p, x) \in [Nodes -> Ptrs]
      /\ \A q \in Nodes : set_link(mem.next, p, x)[q] = IF q = p THEN x ELSE mem.next[q]
  BY <1>1, LinksAssumption DEF set_link, Ptrs, Ends
<1>3. /\ set_link(mem.prev, n, y) \in [Nodes -> Ptrs]
      /\ \A q \in Nodes : set_link(mem.prev, n, y)[q] = IF q = n THEN y ELSE mem.prev[q]
  BY <1>1, LinksAssumption DEF set_link, Ptrs, Ends
<1>4. /\ c.next = set_link(mem.next, p, x) /\ c.prev = set_link(mem.prev, n, y)
      /\ c.head = [mem.head EXCEPT ![l] = IF p = Nil THEN x ELSE @] /\ c.tail = mem.tail /\ c.count = mem.count
      /\ c = [head |-> c.head, tail |-> c.tail, count |-> c.count, prev |-> c.prev, next |-> c.next]
  <2> DEFINE nx == set_link(mem.next, p, x)
             pv == set_link(mem.prev, n, y)
             hd == [mem.head EXCEPT ![l] = IF p = Nil THEN x ELSE @]
  <2>1. mem = [head |-> mem.head, tail |-> mem.tail, count |-> mem.count, prev |-> mem.prev, next |-> mem.next]
    BY DEF Mem
  <2>2. c = [mem EXCEPT !.next = nx, !.head = hd, !.prev = pv]
    <3>1. c = [mem EXCEPT !.next = nx, !.head[l] = IF p = Nil THEN x ELSE @, !.prev = pv]
      BY DEF joined
    <3> HIDE DEF nx, pv, c
    <3> QED BY <2>1, <3>1
  <2> HIDE DEF nx, pv, hd, c
  <2>3. c = [head |-> hd, tail |-> mem.tail, count |-> mem.count, prev |-> pv, next |-> nx]
    BY <2>1, <2>2
  <2> QED BY <2>3 DEF nx, pv, hd
<1> HIDE DEF c
<1>5. c.head \in [Queues -> Nodes \cup {Nil}]
  BY <1>1, <1>4 DEF Ends
<1>6. c \in Mem
  BY <1>1, <1>2, <1>3, <1>4, <1>5 DEF Mem
<1> QED BY <1>2, <1>3, <1>4, <1>6 DEF c

\* What the links of the i-th node of a list are.
LEMMA LinksOf ==
  ASSUME NEW mem, NEW cur, NEW S, Stands(mem, cur, S), NEW l \in Queues, NEW i \in 1..Len(S[l])
  PROVE  LET s == S[l]
             t == S[l][i]
         IN  /\ s \in Seq(Nodes) /\ Distinct(s) /\ Len(s) \in Nat /\ i \in Nat /\ t \in Nodes /\ t \in Els(s) /\ t = Place(s, i)
             /\ mem.prev[t] = Place(s, i - 1) /\ mem.next[t] = Place(s, i + 1)
             /\ Place(s, i - 1) \in Nodes \cup {Nil} /\ Place(s, i + 1) \in Nodes \cup {Nil}
             /\ Place(s, i - 1) # t /\ Place(s, i + 1) # t
             /\ (Place(s, i - 1) = Nil <=> i = 1) /\ (Place(s, i + 1) = Nil <=> i = Len(s))
             /\ mem.head[l] = Place(s, 1)
             /\ mem \in Mem
<1> DEFINE s == S[l]
           t == s[i]
<1>1. Whole(mem, l, s) /\ mem \in Mem
  BY DEF Stands
<1> HIDE DEF s
<1>2. s \in Seq(Nodes) /\ Distinct(s) /\ Len(s) \in Nat /\ i \in 1..Len(s)
  BY <1>1 DEF Whole, Chain, Distinct, s
<1>3. t \in Nodes /\ t \in Els(s) /\ t = Place(s, i) /\ i \in Nat
  BY <1>2 DEF Place, Els
<1>4. mem.prev[t] = Place(s, i - 1) /\ mem.next[t] = Place(s, i + 1) /\ mem.head[l] = Place(s, 1)
  BY <1>1, <1>2 DEF Whole, Chain
<1>5. Place(s, i - 1) \in Nodes \cup {Nil} /\ Place(s, i + 1) \in Nodes \cup {Nil}
  BY <1>2, AtType
<1>6. (Place(s, i - 1) = Nil <=> i = 1) /\ (Place(s, i + 1) = Nil <=> i = Len(s))
  <2>1. i - 1 \in Int /\ i + 1 \in Int /\ (i - 1 \in 1..Len(s) <=> i # 1) /\ (i + 1 \in 1..Len(s) <=> i # Len(s))
    BY <1>2
  <2> QED BY <1>2, <2>1, AtType
<1>7. Place(s, i - 1) # t /\ Place(s, i + 1) # t
  <2>1. ASSUME t = Place(s, i - 1) PROVE FALSE
    <3>1. i - 1 \in Int /\ i - 1 # i
      BY <1>2
    <3> QED BY <1>2, <2>1, <3>1, AtOnce
  <2>2. ASSUME t = Place(s, i + 1) PROVE FALSE
    <3>1. i + 1 \in Int /\ i + 1 # i
      BY <1>2
    <3> QED BY <1>2, <2>2, <3>1, AtOnce
  <2> QED BY <2>1, <2>2
<1> QED BY <1>1, <1>2, <1>3, <1>4, <1>5, <1>6, <1>7 DEF s

\* Unlinking the i-th node, before its own links are reset.
LEMMA UnlinkIs ==
  ASSUME NEW mem, NEW cur, NEW S, Stands(mem, cur, S), NEW l \in Queues, NEW i \in 1..Len(S[l])
  PROVE  LET s == S[l]
             c == unlink(mem, l, S[l][i])
         IN  /\ c \in Mem /\ c.count = mem.count
             /\ c.head = [mem.head EXCEPT ![l] = IF i = 1 THEN Place(s, 2) ELSE @]
             /\ c.tail = [mem.tail EXCEPT ![l] = IF i = Len(s) THEN Place(s, i - 1) ELSE @]
             /\ \A q \in Nodes : c.next[q] = IF q = Place(s, i - 1) THEN Place(s, i + 1) ELSE mem.next[q]
             /\ \A q \in Nodes : c.prev[q] = IF q = Place(s, i + 1) THEN Place(s, i - 1) ELSE mem.prev[q]
<1> DEFINE s == S[l]
           t == s[i]
           p == Place(s, i - 1)
           n == Place(s, i + 1)
           j == joined(mem, l, p, n, n, p)
           c == unlink(mem, l, t)
<1>1. /\ mem \in Mem /\ mem.prev[t] = p /\ mem.next[t] = n /\ p \in Nodes \cup {Nil} /\ n \in Nodes \cup {Nil}
      /\ (p = Nil <=> i = 1) /\ (n = Nil <=> i = Len(s)) /\ i \in Nat
  BY LinksOf
<1>8. i = 1 => n = Place(s, 2)
  OBVIOUS
<1> HIDE DEF s, t, p, n
<1>2. /\ j \in Mem /\ j.tail = mem.tail /\ j.count = mem.count
      /\ j.head = [mem.head EXCEPT ![l] = IF p = Nil THEN n ELSE @]
      /\ \A q \in Nodes : j.next[q] = IF q = p THEN n ELSE mem.next[q]
      /\ \A q \in Nodes : j.prev[q] = IF q = n THEN p ELSE mem.prev[q]
  <2>1. mem \in Mem /\ p \in Ends /\ n \in Ends
    BY <1>1 DEF Ends
  <2> QED BY ONLY <2>1, l \in Queues, JoinedIs
<1>3. c = [j EXCEPT !.tail[l] = IF n = Nil THEN p ELSE @]
  BY <1>1 DEF unlink
<1> HIDE DEF j, c
<1>4. /\ c.head = j.head /\ c.tail = [j.tail EXCEPT ![l] = IF n = Nil THEN p ELSE @] /\ c.count = j.count
      /\ c.next = j.next /\ c.prev = j.prev
      /\ c = [head |-> c.head, tail |-> c.tail, count |-> c.count, prev |-> c.prev, next |-> c.next]
  BY <1>2, <1>3 DEF Mem
<1>5. c \in Mem
  <2>1. c.tail \in [Queues -> Nodes \cup {Nil}]
    BY <1>1, <1>2, <1>4 DEF Mem
  <2> QED BY <1>2, <1>4, <2>1 DEF Mem
<1>6. c.head = [mem.head EXCEPT ![l] = IF i = 1 THEN Place(s, 2) ELSE @]
  BY <1>1, <1>2, <1>4, <1>8
<1>7. c.tail = [mem.tail EXCEPT ![l] = IF i = Len(s) THEN p ELSE @]
  BY <1>1, <1>2, <1>4
<1> QED BY <1>2, <1>4, <1>5, <1>6, <1>7 DEF c, s, t, p, n

\* A node that was unlinked, whatever its own links are reset to.
LEMMA CutsBy ==
  ASSUME NEW mem, NEW cur, NEW S, Stands(mem, cur, S), NEW l \in Queues, NEW i \in 1..Len(S[l]),
         NEW c, c = unlink(mem, l, S[l][i]), NEW mem2 \in Mem,
         mem2.head = c.head, mem2.tail = c.tail,
         l \notin {"scratch", "items"} => mem2.count[l] = c.count[l] - 1,
         \A k \in Queues \ {l} : mem2.count[k] = c.count[k],
         Loose(mem2, S[l][i]),
         \A q \in Nodes \ {S[l][i]} : mem2.next[q] = c.next[q] /\ mem2.prev[q] = c.prev[q]
  PROVE  Stands(mem2, cur, [S EXCEPT ![l] = Cut(S[l], i)])
<1> DEFINE s == S[l]
<1>1. /\ c.count = mem.count
      /\ c.head = [mem.head EXCEPT ![l] = IF i = 1 THEN Place(s, 2) ELSE @]
      /\ c.tail = [mem.tail EXCEPT ![l] = IF i = Len(s) THEN Place(s, i - 1) ELSE @]
      /\ \A q \in Nodes : c.next[q] = IF q = Place(s, i - 1) THEN Place(s, i + 1) ELSE mem.next[q]
      /\ \A q \in Nodes : c.prev[q] = IF q = Place(s, i + 1) THEN Place(s, i - 1) ELSE mem.prev[q]
  BY UnlinkIs
<1>2. mem.head \in [Queues -> Nodes \cup {Nil}] /\ mem.tail \in [Queues -> Nodes \cup {Nil}]
  BY DEF Stands, Mem
<1> HIDE DEF s
<1>3. /\ mem2.head[l] = IF i = 1 THEN Place(s, 2) ELSE mem.head[l]
      /\ mem2.tail[l] = IF i = Len(s) THEN Place(s, i - 1) ELSE mem.tail[l]
  BY <1>1, <1>2
<1>4. Elsewhere(mem, mem2, l)
  BY <1>1, <1>2 DEF Elsewhere
<1>5. CutsOut(mem, mem2, l, s, i)
  BY <1>1, <1>3, <1>4 DEF CutsOut, s
<1> QED BY <1>5, StandsCut DEF s

\* ... cleared, on a list that counts and on one that does not.
LEMMA ClearedOut ==
  ASSUME NEW mem, NEW cur, NEW S, Stands(mem, cur, S), NEW l \in Queues, NEW i \in 1..Len(S[l]),
         NEW mem2, mem2 = IF l \in {"scratch", "items"} THEN cleared(unlink(mem, l, S[l][i]), S[l][i])
                          ELSE counted(cleared(unlink(mem, l, S[l][i]), S[l][i]), l, -1)
  PROVE  Stands(mem2, cur, [S EXCEPT ![l] = Cut(S[l], i)])
<1>1. PICK t \in Nodes : t = S[l][i]
  BY LinksOf
<1>2. PICK c \in Mem : c = unlink(mem, l, t)
  BY <1>1, UnlinkIs
<1>3. PICK d \in Mem : d = cleared(c, t)
  BY ClearedIs
<1>4. /\ d.head = c.head /\ d.tail = c.tail /\ d.count = c.count
      /\ d.prev = [c.prev EXCEPT ![t] = Nil] /\ d.next = [c.next EXCEPT ![t] = Nil]
  BY <1>3, ClearedIs
<1>5. c.prev \in [Nodes -> Ptrs] /\ c.next \in [Nodes -> Ptrs] /\ c.count \in [Queues -> Int]
  BY DEF Mem
<1>6. PICK e \in Mem : e = counted(d, l, -1)
  BY CountedIs
<1>7. /\ e.head = d.head /\ e.tail = d.tail /\ e.prev = d.prev /\ e.next = d.next
      /\ e.count = [d.count EXCEPT ![l] = @ + (-1)]
  BY <1>6, CountedIs
<1>8. /\ mem2 \in Mem /\ mem2.head = c.head /\ mem2.tail = c.tail
      /\ mem2.prev = [c.prev EXCEPT ![t] = Nil] /\ mem2.next = [c.next EXCEPT ![t] = Nil]
      /\ mem2.count = IF l \in {"scratch", "items"} THEN c.count ELSE [c.count EXCEPT ![l] = @ + (-1)]
  BY <1>1, <1>2, <1>3, <1>4, <1>6, <1>7
<1>9. Loose(mem2, t) /\ \A q \in Nodes \ {t} : mem2.next[q] = c.next[q] /\ mem2.prev[q] = c.prev[q]
  BY <1>5, <1>8 DEF Loose
<1>10. /\ l \notin {"scratch", "items"} => mem2.count[l] = c.count[l] - 1
       /\ \A k \in Queues \ {l} : mem2.count[k] = c.count[k]
  BY <1>5, <1>8
<1>11. /\ c = unlink(mem, l, S[l][i]) /\ mem2 \in Mem /\ mem2.head = c.head /\ mem2.tail = c.tail
       /\ Loose(mem2, S[l][i])
       /\ \A q \in Nodes \ {S[l][i]} : mem2.next[q] = c.next[q] /\ mem2.prev[q] = c.prev[q]
  BY <1>1, <1>2, <1>8, <1>9
<1> QED BY <1>10, <1>11, CutsBy

\* ... freed, as the sweeps do.
LEMMA FreedOut ==
  ASSUME NEW mem, NEW cur, NEW S, Stands(mem, cur, S), NEW l \in {"cleanup", "sleepers"}, NEW i \in 1..Len(S[l]),
         NEW mem2, mem2 = freed(counted(unlink(mem, l, S[l][i]), l, -1), S[l][i])
  PROVE  Stands(mem2, cur, [S EXCEPT ![l] = Cut(S[l], i)])
<1>0. l \in Queues /\ l \notin {"scratch", "items"}
  BY DEF Queues
<1>1. PICK t \in Nodes : t = S[l][i]
  BY <1>0, LinksOf
<1>2. PICK c \in Mem : c = unlink(mem, l, t)
  BY <1>0, <1>1, UnlinkIs
<1>3. PICK d \in Mem : d = counted(c, l, -1)
  BY <1>0, CountedIs
<1>4. /\ d.head = c.head /\ d.tail = c.tail /\ d.prev = c.prev /\ d.next = c.next
      /\ d.count = [c.count EXCEPT ![l] = @ + (-1)]
  BY <1>0, <1>3, CountedIs
<1>5. c.prev \in [Nodes -> Ptrs] /\ c.next \in [Nodes -> Ptrs] /\ c.count \in [Queues -> Int]
  BY DEF Mem
<1>6. mem2 = freed(d, t)
  BY <1>1, <1>2, <1>3
<1>7. /\ mem2 \in Mem /\ mem2.head = d.head /\ mem2.tail = d.tail /\ mem2.count = d.count
      /\ mem2.prev = [d.prev EXCEPT ![t] = Dangling] /\ mem2.next = [d.next EXCEPT ![t] = Dangling]
  BY <1>6, FreedIs
<1>9. Loose(mem2, t) /\ \A q \in Nodes \ {t} : mem2.next[q] = c.next[q] /\ mem2.prev[q] = c.prev[q]
  BY <1>4, <1>5, <1>7 DEF Loose
<1>10. mem2.count[l] = c.count[l] - 1 /\ \A k \in Queues \ {l} : mem2.count[k] = c.count[k]
  BY <1>0, <1>4, <1>5, <1>7
<1>11. mem2.head = c.head /\ mem2.tail = c.tail
  BY <1>4, <1>7
<1> QED BY <1>0, <1>1, <1>2, <1>7, <1>9, <1>10, <1>11, CutsBy

\* The first node taken off is one unlinked.
LEMMA FirstIs ==
  ASSUME NEW mem, NEW cur, NEW S, Stands(mem, cur, S), NEW l \in Queues, S[l] # << >>
  PROVE  /\ 1 \in 1..Len(S[l]) /\ mem.head[l] = S[l][1]
         /\ unlink_first(mem, l) = cleared(unlink(mem, l, S[l][1]), S[l][1])
<1>1. S[l] \in Seq(Nodes)
  BY DEF Stands, Whole, Chain
<1>2. 1 \in 1..Len(S[l])
  BY <1>1
<1>3. PICK t \in Nodes : t = S[l][1]
  BY <1>1, <1>2
<1>4. mem \in Mem /\ mem.prev[t] = Nil /\ mem.head[l] = t
  <2>1. mem.prev[t] = Place(S[l], 1 - 1) /\ mem.head[l] = Place(S[l], 1) /\ Place(S[l], 1) = t
    BY <1>2, <1>3, LinksOf
  <2>2. Place(S[l], 1 - 1) = Nil
    BY DEF Place
  <2> QED BY <2>1, <2>2 DEF Stands
<1> DEFINE n == mem.next[t]
           a == [mem EXCEPT !.head[l] = n, !.prev = set_link(@, n, Nil), !.tail[l] = IF n = Nil THEN Nil ELSE @]
           b == unlink(mem, l, t)
<1>8. mem = [head |-> mem.head, tail |-> mem.tail, count |-> mem.count, prev |-> mem.prev, next |-> mem.next]
  BY <1>4 DEF Mem
<1>5. a = [head |-> [mem.head EXCEPT ![l] = n], tail |-> [mem.tail EXCEPT ![l] = IF n = Nil THEN Nil ELSE @],
           count |-> mem.count, prev |-> set_link(mem.prev, n, Nil), next |-> mem.next]
  <2> DEFINE pv == set_link(mem.prev, n, Nil)
             nn == IF n = Nil THEN Nil ELSE mem.tail[l]
  <2>1. a = [mem EXCEPT !.head[l] = n, !.prev = pv, !.tail[l] = nn]
    OBVIOUS
  <2> HIDE DEF a, n, pv, nn
  <2>2. a = [head |-> [mem.head EXCEPT ![l] = n], tail |-> [mem.tail EXCEPT ![l] = nn],
             count |-> mem.count, prev |-> pv, next |-> mem.next]
    BY <1>8, <2>1
  <2> QED BY <2>2 DEF pv, nn
<1>6. b = [head |-> [mem.head EXCEPT ![l] = n], tail |-> [mem.tail EXCEPT ![l] = IF n = Nil THEN Nil ELSE @],
           count |-> mem.count, prev |-> set_link(mem.prev, n, Nil), next |-> mem.next]
  <2>1. b = [joined(mem, l, Nil, n, n, Nil) EXCEPT !.tail[l] = IF n = Nil THEN Nil ELSE @]
    BY <1>4 DEF unlink
  <2>2. joined(mem, l, Nil, n, n, Nil) = [mem EXCEPT !.next = @, !.head[l] = n, !.prev = set_link(@, n, Nil)]
    BY DEF joined, set_link
  <2> HIDE DEF b, n
  <2> QED BY <1>4, <2>1, <2>2 DEF Mem
<1>7. unlink_first(mem, l) = cleared(a, t)
  BY <1>4 DEF unlink_first
<1> QED BY <1>2, <1>3, <1>4, <1>5, <1>6, <1>7

\* A scratch block that is freed before its neighbours are joined.
LEMMA DeallocatedOut ==
  ASSUME NEW mem, NEW cur, NEW S, Stands(mem, cur, S), NEW i \in 1..Len(S["scratch"]), NEW t, t = S["scratch"][i],
         NEW mem2, mem2 = joined(freed(mem, t), "scratch", mem.prev[t], mem.next[t], mem.next[t], mem.prev[t])
  PROVE  Stands(mem2, cur, [S EXCEPT !["scratch"] = Cut(S["scratch"], i)])
<1> DEFINE s == S["scratch"]
<1>1. "scratch" \in Queues
  BY DEF Queues
<1>2. /\ mem \in Mem /\ t \in Nodes /\ s \in Seq(Nodes) /\ i \in Nat
      /\ mem.prev[t] = Place(s, i - 1) /\ mem.next[t] = Place(s, i + 1)
      /\ Place(s, i - 1) # t /\ Place(s, i + 1) # t
      /\ (Place(s, i - 1) = Nil <=> i = 1) /\ (Place(s, i + 1) = Nil <=> i = Len(s))
  BY <1>1, LinksOf
<1>3. Place(s, i - 1) \in Ends /\ Place(s, i + 1) \in Ends
  BY <1>1, LinksOf DEF Ends
<1>4. PICK p \in Ends : p = Place(s, i - 1)
  BY <1>3
<1>5. PICK n \in Ends : n = Place(s, i + 1)
  BY <1>3
<1>6. PICK f \in Mem : f = freed(mem, t)
  BY <1>2, FreedIs
<1>7. /\ f.head = mem.head /\ f.tail = mem.tail /\ f.count = mem.count
      /\ f.prev = [mem.prev EXCEPT ![t] = Dangling] /\ f.next = [mem.next EXCEPT ![t] = Dangling]
  BY <1>2, <1>6, FreedIs
<1>8. mem2 = joined(f, "scratch", p, n, n, p)
  BY <1>2, <1>4, <1>5, <1>6
<1>9. /\ mem2 \in Mem /\ mem2.tail = f.tail /\ mem2.count = f.count
      /\ mem2.head = [f.head EXCEPT !["scratch"] = IF p = Nil THEN n ELSE @]
      /\ \A q \in Nodes : mem2.next[q] = IF q = p THEN n ELSE f.next[q]
      /\ \A q \in Nodes : mem2.prev[q] = IF q = n THEN p ELSE f.prev[q]
  <2>1. "scratch" \in Queues /\ f \in Mem /\ p \in Ends /\ n \in Ends
    BY <1>1
  <2> QED BY ONLY <1>8, <2>1, JoinedIs
<1>10. mem.head \in [Queues -> Nodes \cup {Nil}] /\ mem.prev \in [Nodes -> Ptrs] /\ mem.next \in [Nodes -> Ptrs]
  BY <1>2 DEF Mem
<1>11. mem2.head["scratch"] = IF i = 1 THEN Place(s, 2) ELSE mem.head["scratch"]
  BY <1>1, <1>2, <1>4, <1>5, <1>7, <1>9, <1>10
<1>12. Elsewhere(mem, mem2, "scratch")
  <2>1. mem2.head = [mem.head EXCEPT !["scratch"] = IF p = Nil THEN n ELSE @] /\ mem2.tail = mem.tail /\ mem2.count = mem.count
    BY <1>7, <1>9
  <2> QED BY ONLY <1>1, <1>10, <2>1 DEF Elsewhere
<1>13. Loose(mem2, t)
  BY <1>2, <1>4, <1>5, <1>7, <1>9, <1>10 DEF Loose
<1>14. ASSUME NEW q \in Nodes \ {t}
       PROVE  /\ mem2.next[q] = IF q = Place(s, i - 1) THEN Place(s, i + 1) ELSE mem.next[q]
              /\ mem2.prev[q] = IF q = Place(s, i + 1) THEN Place(s, i - 1) ELSE mem.prev[q]
  BY ONLY <1>4, <1>5, <1>7, <1>9, <1>10
<1>15. CutsOut(mem, mem2, "scratch", s, i)
  BY <1>9, <1>11, <1>12, <1>13, <1>14 DEF CutsOut
<1> QED BY <1>1, <1>15, StandsCut

\* A scratch block that realloc left or moved.
Resized(mem, t, x) ==
  IF x = t THEN mem ELSE freed([mem EXCEPT !.prev[x] = mem.prev[t], !.next[x] = mem.next[t]], t)

LEMMA ReallocatedIn ==
  ASSUME NEW mem, NEW cur, NEW S, Stands(mem, cur, S), NEW i \in 1..Len(S["scratch"]), NEW t, t = S["scratch"][i],
         NEW x \in Nodes, x = t \/ \A k \in Lists : x \notin Els(S[k]),
         NEW f, f = Resized(mem, t, x),
         NEW mem2, mem2 = joined(f, "scratch", mem.prev[t], mem.next[t], x, x)
  PROVE  Stands(mem2, cur, [S EXCEPT !["scratch"] = Swap(S["scratch"], i, x)])
<1> f = IF x = t THEN mem ELSE freed([mem EXCEPT !.prev[x] = mem.prev[t], !.next[x] = mem.next[t]], t)
  BY DEF Resized
<1> DEFINE s == S["scratch"]
<1>1. "scratch" \in Queues /\ "scratch" \in Lists
  BY DEF Queues, Lists
<1>2. /\ mem \in Mem /\ t \in Nodes /\ s \in Seq(Nodes) /\ i \in Nat
      /\ mem.prev[t] = Place(s, i - 1) /\ mem.next[t] = Place(s, i + 1)
      /\ Place(s, i - 1) # t /\ Place(s, i + 1) # t
      /\ (Place(s, i - 1) = Nil <=> i = 1) /\ (Place(s, i + 1) = Nil <=> i = Len(s))
  BY <1>1, LinksOf
<1>3. Place(s, i - 1) \in Ends /\ Place(s, i + 1) \in Ends
  BY <1>1, LinksOf DEF Ends
<1>4. PICK p \in Ends : p = Place(s, i - 1)
  BY <1>3
<1>5. PICK n \in Ends : n = Place(s, i + 1)
  BY <1>3
<1>6. x # p /\ x # n
  <2>1. CASE x = t
    BY <1>2, <1>4, <1>5, <2>1
  <2>2. CASE x # t
    <3>1. x \notin Els(s)
      BY <1>1, <2>2
    <3>2. \A j \in Int : Place(s, j) = x => FALSE
      BY <1>2, <3>1, AtType, LinksAssumption
    <3>3. i - 1 \in Int /\ i + 1 \in Int
      BY <1>2
    <3> QED BY <1>4, <1>5, <3>2, <3>3
  <2> QED BY <2>1, <2>2
<1>7. mem.head \in [Queues -> Nodes \cup {Nil}] /\ mem.prev \in [Nodes -> Ptrs] /\ mem.next \in [Nodes -> Ptrs]
  BY <1>2 DEF Mem
<1>8. /\ f \in Mem /\ f.head = mem.head /\ f.tail = mem.tail /\ f.count = mem.count
      /\ f.next[x] = n /\ f.prev[x] = p
      /\ \A q \in Nodes \ {t, x} : f.next[q] = mem.next[q] /\ f.prev[q] = mem.prev[q]
      /\ x # t => f.prev[t] = Dangling /\ f.next[t] = Dangling
  <2>1. CASE x = t
    BY <1>2, <1>4, <1>5, <2>1
  <2>2. CASE x # t
    <3> DEFINE g == [mem EXCEPT !.prev[x] = p, !.next[x] = n]
    <3>1. /\ g \in Mem /\ g.head = mem.head /\ g.tail = mem.tail /\ g.count = mem.count
          /\ g.prev = [mem.prev EXCEPT ![x] = p] /\ g.next = [mem.next EXCEPT ![x] = n]
      BY <1>2 DEF Mem, Ends, Ptrs
    <3>2. f = freed(g, t)
      BY <1>2, <1>4, <1>5, <2>2
    <3> HIDE DEF g
    <3>3. /\ f \in Mem /\ f.head = g.head /\ f.tail = g.tail /\ f.count = g.count
          /\ f.prev = [g.prev EXCEPT ![t] = Dangling] /\ f.next = [g.next EXCEPT ![t] = Dangling]
      <4>1. g \in Mem /\ t \in Nodes
        BY <1>2, <3>1
      <4> QED BY ONLY <3>2, <4>1, FreedIs
    <3>4. f.next[x] = n /\ f.prev[x] = p
      BY <1>7, <2>2, <3>1, <3>3
    <3>5. \A q \in Nodes \ {t, x} : f.next[q] = mem.next[q] /\ f.prev[q] = mem.prev[q]
      BY <1>7, <3>1, <3>3
    <3>6. f.prev[t] = Dangling /\ f.next[t] = Dangling
      BY ONLY <1>2, <1>7, <3>1, <3>3
    <3> QED BY <3>1, <3>3, <3>4, <3>5, <3>6
  <2> QED BY <2>1, <2>2
<1>9. PICK y \in Ends : y = x
  BY DEF Ends
<1>10. mem2 = joined(f, "scratch", p, n, y, y)
  BY <1>2, <1>4, <1>5, <1>9
<1>11. /\ mem2 \in Mem /\ mem2.tail = f.tail /\ mem2.count = f.count
       /\ mem2.head = [f.head EXCEPT !["scratch"] = IF p = Nil THEN y ELSE @]
       /\ \A q \in Nodes : mem2.next[q] = IF q = p THEN y ELSE f.next[q]
       /\ \A q \in Nodes : mem2.prev[q] = IF q = n THEN y ELSE f.prev[q]
  <2>1. "scratch" \in Queues /\ f \in Mem /\ p \in Ends /\ n \in Ends /\ y \in Ends
    BY <1>1, <1>8
  <2> QED BY ONLY <1>10, <2>1, JoinedIs
<1>12. mem2.head["scratch"] = IF i = 1 THEN x ELSE mem.head["scratch"]
  BY ONLY <1>1, <1>2, <1>4, <1>7, <1>8, <1>9, <1>11
<1>13. Elsewhere(mem, mem2, "scratch")
  <2>1. mem2.head = [mem.head EXCEPT !["scratch"] = IF p = Nil THEN y ELSE @] /\ mem2.tail = mem.tail /\ mem2.count = mem.count
    BY ONLY <1>8, <1>11
  <2> QED BY ONLY <1>1, <1>7, <2>1 DEF Elsewhere
<1>14. x # t => Loose(mem2, t)
  BY ONLY <1>2, <1>4, <1>5, <1>8, <1>11 DEF Loose
<1>15. mem2.next[x] = Place(s, i + 1) /\ mem2.prev[x] = Place(s, i - 1)
  BY ONLY <1>4, <1>5, <1>6, <1>8, <1>11
<1>16. ASSUME NEW q \in Nodes \ {x, t}
       PROVE  /\ mem2.next[q] = IF q = Place(s, i - 1) THEN x ELSE mem.next[q]
              /\ mem2.prev[q] = IF q = Place(s, i + 1) THEN x ELSE mem.prev[q]
  BY ONLY <1>4, <1>5, <1>8, <1>9, <1>11
<1>17. SwapsIn(mem, mem2, s, i, x)
  BY <1>11, <1>12, <1>13, <1>14, <1>15, <1>16 DEF SwapsIn
<1> QED BY <1>17, StandsSwap

\* A node that is on no list may be cleared.
LEMMA ClearedStands ==
  ASSUME NEW mem, NEW cur, NEW S, Stands(mem, cur, S), NEW t \in Nodes, \A k \in Lists : t \notin Els(S[k])
  PROVE  Stands(cleared(mem, t), cur, S)
<1> DEFINE c == cleared(mem, t)
           a == "tasks"
<1>1. mem \in Mem
  BY DEF Stands
<1>2. /\ c \in Mem /\ c.head = mem.head /\ c.tail = mem.tail /\ c.count = mem.count
      /\ c.prev = [mem.prev EXCEPT ![t] = Nil] /\ c.next = [mem.next EXCEPT ![t] = Nil]
  BY <1>1, ClearedIs
<1> HIDE DEF c
<1>3. mem.prev \in [Nodes -> Ptrs] /\ mem.next \in [Nodes -> Ptrs] /\ S \in [Lists -> Seq(Nodes)]
  BY <1>1 DEF Mem, Stands
<1>4. \A k \in Lists : \A q \in Els(S[k]) : c.next[q] = mem.next[q] /\ c.prev[q] = mem.prev[q]
  <2>1. ASSUME NEW k \in Lists, NEW q \in Els(S[k]) PROVE q \in Nodes /\ q # t
    BY <1>3 DEF Els
  <2> QED BY <1>2, <1>3, <2>1
<1>5. \A k \in Lists : \A j \in 1..Len(S[k]) : c.next[S[k][j]] = mem.next[S[k][j]] /\ c.prev[S[k][j]] = mem.prev[S[k][j]]
  BY <1>4 DEF Els
<1>6. ASSUME NEW l \in Queues PROVE Whole(c, l, S[l])
  <2>1. Whole(mem, l, S[l]) /\ l \in Lists
    BY DEF Stands, Lists
  <2> QED BY <1>2, <1>5, <2>1 DEF Whole, Chain
<1>7. ASSUME NEW w \in Wakers PROVE Chain(c.next, cur[w], S[w])
  <2>1. Chain(mem.next, cur[w], S[w]) /\ w \in Lists
    BY DEF Stands, Lists
  <2> QED BY <1>5, <2>1 DEF Chain
<1>8. ASSUME NEW q \in Nodes, \A k \in Lists : q \notin Els(S[k]) PROVE Loose(c, q)
  <2>1. Loose(mem, q)
    BY <1>8 DEF Stands
  <2> QED BY <1>2, <1>3, <2>1 DEF Loose
<1>9. /\ cur \in [Wakers -> Nodes \cup {Nil}]
      /\ \A k, l \in Lists : k # l => Els(S[k]) \cap Els(S[l]) = {}
  BY DEF Stands
<1>10. Stands(c, cur, S)
  BY <1>2, <1>3, <1>6, <1>7, <1>8, <1>9 DEF Stands
<1> QED BY <1>10 DEF c

\* A node joins at the end.
LEMMA LastIn ==
  ASSUME NEW mem, NEW cur, NEW S, Stands(mem, cur, S), NEW l \in Queues \ {"scratch"},
         NEW t \in Nodes, \A k \in Lists : t \notin Els(S[k]),
         NEW mem2, mem2 = IF l = "items" THEN link_last(mem, l, t) ELSE counted(link_last(mem, l, t), l, 1)
  PROVE  Stands(mem2, cur, [S EXCEPT ![l] = Put(S[l], Len(S[l]), t)])
<1> DEFINE s == S[l]
           n == Len(s)
<1>1. Whole(mem, l, s) /\ mem \in Mem /\ l \in Lists /\ t \notin Els(s)
  BY DEF Stands, Lists
<1> HIDE DEF s
<1>2. s \in Seq(Nodes) /\ Distinct(s) /\ n \in Nat
  BY <1>1 DEF Whole, Chain, Distinct
<1>3. mem.tail[l] = Place(s, n) /\ mem.head[l] = Place(s, 1)
  BY <1>1 DEF Whole, Chain
<1>4. PICK e \in Ends : e = Place(s, n)
  BY <1>2, AtType DEF Ends
<1>5. (e = Nil <=> n = 0) /\ (Place(s, 1) = Nil <=> n = 0) /\ e # t
  <2>1. n = 0 \/ n \in 1..n
    BY <1>2
  <2> QED BY <1>1, <1>2, <1>4, <2>1, LinksAssumption DEF Place, Els
<1>6. /\ mem.head \in [Queues -> Nodes \cup {Nil}] /\ mem.tail \in [Queues -> Nodes \cup {Nil}]
      /\ mem.count \in [Queues -> Int] /\ mem.prev \in [Nodes -> Ptrs] /\ mem.next \in [Nodes -> Ptrs]
  BY <1>1 DEF Mem
<1> DEFINE c == link_last(mem, l, t)
           nx == set_link([mem.next EXCEPT ![t] = Nil], e, t)
           hd == IF mem.head[l] = Nil THEN t ELSE mem.head[l]
<1>7. /\ nx \in [Nodes -> Ptrs] /\ nx[t] = Nil
      /\ \A q \in Nodes \ {t} : nx[q] = IF q = e THEN t ELSE mem.next[q]
  <2> DEFINE b == [mem.next EXCEPT ![t] = Nil]
  <2>1. b \in [Nodes -> Ptrs] /\ b[t] = Nil /\ \A q \in Nodes \ {t} : b[q] = mem.next[q]
    BY ONLY <1>6, t \in Nodes DEF Ptrs
  <2>2. t \in Nodes /\ t \in Ptrs /\ (e \in Nodes \/ e = Nil)
    BY <1>4 DEF Ends, Ptrs
  <2> HIDE DEF b
  <2>3. nx = set_link(b, e, t)
    BY DEF b
  <2>4. CASE e = Nil
    <3>1. nx = b
      BY ONLY <2>3, <2>4 DEF set_link
    <3> QED BY ONLY <2>1, <2>4, <3>1, LinksAssumption
  <2>5. CASE e # Nil
    <3>1. nx = [b EXCEPT ![e] = t]
      BY ONLY <2>3, <2>5 DEF set_link
    <3>2. e # t
      BY <1>5
    <3> QED BY ONLY <2>1, <2>2, <2>5, <3>1, <3>2
  <2> QED BY <2>4, <2>5
<1>8. c = [head |-> [mem.head EXCEPT ![l] = hd], tail |-> [mem.tail EXCEPT ![l] = t], count |-> mem.count,
           prev |-> [mem.prev EXCEPT ![t] = e], next |-> nx]
  <2>1. mem = [head |-> mem.head, tail |-> mem.tail, count |-> mem.count, prev |-> mem.prev, next |-> mem.next]
    BY <1>1 DEF Mem
  <2>2. c = [mem EXCEPT !.prev[t] = e, !.next = nx, !.tail[l] = t, !.head[l] = hd]
    BY <1>3, <1>4 DEF link_last
  <2> HIDE DEF c, nx, hd
  <2> QED BY <2>1, <2>2
<1> HIDE DEF c, nx
<1>9. c \in Mem
  <2>1. hd \in Nodes \cup {Nil} /\ e \in Ptrs
    BY <1>6 DEF Ends, Ptrs
  <2> HIDE DEF hd
  <2> QED BY <1>6, <1>7, <1>8, <2>1 DEF Mem
<1> HIDE DEF hd
<1>10. /\ c.head = [mem.head EXCEPT ![l] = hd] /\ c.tail = [mem.tail EXCEPT ![l] = t] /\ c.count = mem.count
       /\ c.prev = [mem.prev EXCEPT ![t] = e] /\ c.next = nx
  BY <1>8
<1>11. /\ mem2 \in Mem /\ mem2.head = c.head /\ mem2.tail = c.tail /\ mem2.prev = c.prev /\ mem2.next = c.next
       /\ mem2.count = IF l = "items" THEN c.count ELSE [c.count EXCEPT ![l] = @ + 1]
  BY <1>9, CountedIs DEF c
<1>12. mem2.head[l] = IF n = 0 THEN t ELSE mem.head[l]
  BY <1>3, <1>5, <1>6, <1>10, <1>11 DEF hd
<1>13. mem2.tail[l] = t
  BY <1>6, <1>10, <1>11
<1>14. l # "items" => mem2.count[l] = mem.count[l] + 1
  BY <1>6, <1>10, <1>11
<1>15. Elsewhere(mem, mem2, l)
  BY <1>6, <1>10, <1>11 DEF Elsewhere
<1>16. Place(s, n + 1) = Nil
  BY <1>2 DEF Place
<1>17. mem2.next[t] = Place(s, n + 1) /\ mem2.prev[t] = Place(s, n)
  BY <1>4, <1>6, <1>7, <1>10, <1>11, <1>16
<1>18. ASSUME NEW q \in Nodes \ {t}
       PROVE  /\ mem2.next[q] = IF q = Place(s, n) THEN t ELSE mem.next[q]
              /\ mem2.prev[q] = IF q = Place(s, n + 1) THEN t ELSE mem.prev[q]
  BY <1>4, <1>6, <1>7, <1>10, <1>11, <1>16, LinksAssumption
<1> HIDE DEF n
<1>19. PutsIn(mem, mem2, l, s, n, t)
  BY <1>11, <1>12, <1>13, <1>14, <1>15, <1>17, <1>18 DEF PutsIn, n
<1>20. n \in 0..Len(s)
  BY <1>2 DEF n
<1> QED BY <1>19, <1>20, StandsPut DEF n, s

\* A block goes to the front.
Fronted(mem, h, t) ==
  IF h = Nil THEN [mem EXCEPT !.head["scratch"] = t]
  ELSE [mem EXCEPT !.next[t] = h, !.prev[h] = t, !.head["scratch"] = t]

LEMMA FrontIn ==
  ASSUME NEW mem, NEW cur, NEW S, Stands(mem, cur, S), NEW t \in Nodes, \A k \in Lists : t \notin Els(S[k]),
         mem.prev[t] = Nil, mem.next[t] = Nil,
         NEW h, h = mem.head["scratch"],
         NEW mem2, mem2 = Fronted(mem, h, t)
  PROVE  Stands(mem2, cur, [S EXCEPT !["scratch"] = Put(S["scratch"], 0, t)])
<1> mem2 = IF h = Nil THEN [mem EXCEPT !.head["scratch"] = t]
           ELSE [mem EXCEPT !.next[t] = h, !.prev[h] = t, !.head["scratch"] = t]
  BY DEF Fronted
<1> DEFINE s == S["scratch"]
<1>1. "scratch" \in Queues /\ "scratch" \in Lists
  BY DEF Queues, Lists
<1>2. Whole(mem, "scratch", s) /\ mem \in Mem /\ t \notin Els(s)
  BY <1>1 DEF Stands
<1> HIDE DEF s
<1>3. s \in Seq(Nodes) /\ Len(s) \in Nat
  BY <1>2 DEF Whole, Chain
<1>4. h = Place(s, 1)
  BY <1>2 DEF Whole, Chain
<1>5. (h \in Nodes \/ h = Nil) /\ h # t
  BY <1>2, <1>3, <1>4, LinksAssumption DEF Place, Els
<1>6. /\ mem.head \in [Queues -> Nodes \cup {Nil}] /\ mem.tail \in [Queues -> Nodes \cup {Nil}]
      /\ mem.count \in [Queues -> Int] /\ mem.prev \in [Nodes -> Ptrs] /\ mem.next \in [Nodes -> Ptrs]
      /\ mem = [head |-> mem.head, tail |-> mem.tail, count |-> mem.count, prev |-> mem.prev, next |-> mem.next]
  BY <1>2 DEF Mem
<1>7. /\ mem2 \in Mem /\ mem2.head = [mem.head EXCEPT !["scratch"] = t] /\ mem2.tail = mem.tail /\ mem2.count = mem.count
      /\ mem2.next[t] = h /\ mem2.prev[t] = Nil
      /\ \A q \in Nodes \ {t} : mem2.next[q] = mem.next[q] /\ mem2.prev[q] = IF q = h THEN t ELSE mem.prev[q]
  <2>0. [mem.head EXCEPT !["scratch"] = t] \in [Queues -> Nodes \cup {Nil}]
    BY ONLY <1>6, t \in Nodes
  <2>1. CASE h = Nil
    <3>1. mem2 = [mem EXCEPT !.head = [mem.head EXCEPT !["scratch"] = t]]
      BY <2>1
    <3>2. mem2 = [head |-> [mem.head EXCEPT !["scratch"] = t], tail |-> mem.tail, count |-> mem.count, prev |-> mem.prev, next |-> mem.next]
      BY ONLY <1>6, <3>1
    <3>3. mem2 \in Mem
      BY ONLY <1>6, <2>0, <3>2 DEF Mem
    <3>4. \A q \in Nodes : q # h
      BY ONLY <2>1, LinksAssumption
    <3> QED BY <2>1, <3>2, <3>3, <3>4
  <2>2. CASE h # Nil
    <3> DEFINE nx == [mem.next EXCEPT ![t] = h]
               pv == [mem.prev EXCEPT ![h] = t]
    <3>0. h \in Nodes /\ h \in Ptrs /\ t \in Ptrs
      BY <1>5, <2>2 DEF Ptrs
    <3>1. mem2 = [mem EXCEPT !.next = nx, !.prev = pv, !.head = [mem.head EXCEPT !["scratch"] = t]]
      BY <2>2
    <3>2. nx \in [Nodes -> Ptrs] /\ pv \in [Nodes -> Ptrs]
      BY ONLY <1>6, <3>0, t \in Nodes
    <3>3. nx[t] = h /\ pv[t] = Nil
      BY ONLY <1>5, <1>6, <3>0, t \in Nodes, mem.prev[t] = Nil
    <3>4. \A q \in Nodes \ {t} : nx[q] = mem.next[q] /\ pv[q] = IF q = h THEN t ELSE mem.prev[q]
      BY ONLY <1>6, <3>0, t \in Nodes
    <3> HIDE DEF nx, pv
    <3>5. mem2 = [head |-> [mem.head EXCEPT !["scratch"] = t], tail |-> mem.tail, count |-> mem.count, prev |-> pv, next |-> nx]
      BY ONLY <1>6, <3>1
    <3>6. mem2 \in Mem
      BY ONLY <1>6, <2>0, <3>2, <3>5 DEF Mem
    <3> QED BY ONLY <3>3, <3>4, <3>5, <3>6
  <2> QED BY <2>1, <2>2
<1>8. mem2.head["scratch"] = t /\ Elsewhere(mem, mem2, "scratch")
  BY ONLY <1>1, <1>6, <1>7 DEF Elsewhere
<1>9. Place(s, 0) = Nil /\ t # Nil
  BY LinksAssumption DEF Place
<1>10. PutsIn(mem, mem2, "scratch", s, 0, t)
  <2>1. 0 + 1 = 1
    OBVIOUS
  <2> QED BY ONLY <1>4, <1>7, <1>8, <1>9, <2>1, LinksAssumption DEF PutsIn
<1>11. 0 \in 0..Len(s)
  BY <1>3
<1> QED BY <1>1, <1>10, <1>11, StandsPut DEF s

\* wake_all empties the queue and keeps its items for the walk.
Emptied(mem) == [mem EXCEPT !.head["items"] = Nil, !.tail["items"] = Nil]
Moved(S, w)  == [S EXCEPT ![w] = S["items"], !["items"] = << >>]

LEMMA DetachedIn ==
  ASSUME NEW mem, NEW cur, NEW S, Stands(mem, cur, S), NEW w \in Wakers, cur[w] = Nil
  PROVE  /\ S[w] = << >>
         /\ Stands(Emptied(mem), [cur EXCEPT ![w] = mem.head["items"]], Moved(S, w))
<1> DEFINE s == S["items"]
           mem2 == Emptied(mem)
<1>1. "items" \in Queues /\ "items" \in Lists /\ w \in Lists /\ w # "items" /\ w \notin Queues
  BY LinksAssumption DEF Queues, Lists
<1>2. Whole(mem, "items", s) /\ Chain(mem.next, cur[w], S[w]) /\ mem \in Mem /\ S \in [Lists -> Seq(Nodes)]
      /\ cur \in [Wakers -> Nodes \cup {Nil}]
  BY <1>1 DEF Stands
<1>3. S[w] = << >>
  <2>1. S[w] \in Seq(Nodes) /\ Place(S[w], 1) = Nil
    BY <1>2 DEF Chain
  <2> QED BY <2>1, LinksAssumption DEF Place
<1>4. /\ mem.head \in [Queues -> Nodes \cup {Nil}] /\ mem.tail \in [Queues -> Nodes \cup {Nil}]
      /\ mem = [head |-> mem.head, tail |-> mem.tail, count |-> mem.count, prev |-> mem.prev, next |-> mem.next]
  BY <1>2 DEF Mem
<1>5. mem2 = [head |-> [mem.head EXCEPT !["items"] = Nil], tail |-> [mem.tail EXCEPT !["items"] = Nil],
              count |-> mem.count, prev |-> mem.prev, next |-> mem.next]
  <2>1. mem2 = [mem EXCEPT !.head = [mem.head EXCEPT !["items"] = Nil], !.tail = [mem.tail EXCEPT !["items"] = Nil]]
    BY DEF Emptied
  <2> HIDE DEF mem2
  <2> QED BY ONLY <1>4, <2>1
<1> HIDE DEF mem2
<1>6. /\ mem2 \in Mem /\ mem2.head = [mem.head EXCEPT !["items"] = Nil] /\ mem2.tail = [mem.tail EXCEPT !["items"] = Nil]
      /\ mem2.count = mem.count /\ mem2.prev = mem.prev /\ mem2.next = mem.next
  <2>1. /\ [mem.head EXCEPT !["items"] = Nil] \in [Queues -> Nodes \cup {Nil}]
        /\ [mem.tail EXCEPT !["items"] = Nil] \in [Queues -> Nodes \cup {Nil}]
    BY ONLY <1>4
  <2>2. mem2 \in Mem
    BY ONLY <1>2, <1>5, <2>1 DEF Mem
  <2> QED BY ONLY <1>5, <2>2
<1> HIDE DEF s
<1>7. s \in Seq(Nodes) /\ mem.head["items"] \in Nodes \cup {Nil} /\ Chain(mem.next, mem.head["items"], s)
  BY <1>1, <1>2, <1>4 DEF Whole, Chain
<1> SUFFICES ASSUME NEW T, T = [S EXCEPT ![w] = s, !["items"] = << >>],
                    NEW cur2, cur2 = [cur EXCEPT ![w] = mem.head["items"]]
             PROVE  Stands(mem2, cur2, T)
  BY <1>3 DEF s, mem2, Moved
<1>8. T \in [Lists -> Seq(Nodes)] /\ T[w] = s /\ T["items"] = << >> /\ \A k \in Lists \ {w, "items"} : T[k] = S[k]
  <2>1. << >> \in Seq(Nodes)
    OBVIOUS
  <2> QED BY ONLY <1>1, <1>2, <1>7, <2>1, T = [S EXCEPT ![w] = s, !["items"] = << >>]
<1>9. cur2 \in [Wakers -> Nodes \cup {Nil}] /\ cur2[w] = mem.head["items"] /\ \A x \in Wakers \ {w} : cur2[x] = cur[x]
  BY ONLY <1>2, <1>7, w \in Wakers, cur2 = [cur EXCEPT ![w] = mem.head["items"]]
<1>10. Els(<< >>) = {}
  BY DEF Els
<1>11. \A k, l \in Lists : k # l => Els(S[k]) \cap Els(S[l]) = {}
  BY DEF Stands
<1>12. ASSUME NEW k \in Lists, NEW l \in Lists, k # l PROVE Els(T[k]) \cap Els(T[l]) = {}
  <2>1. CASE k = "items" \/ l = "items"
    BY ONLY <1>8, <1>10, <2>1
  <2>2. CASE k = w /\ l # "items"
    BY ONLY <1>1, <1>8, <1>11, <1>12, <2>2 DEF s
  <2>3. CASE l = w /\ k # "items"
    BY ONLY <1>1, <1>8, <1>11, <1>12, <2>3 DEF s
  <2>4. CASE k \notin {w, "items"} /\ l \notin {w, "items"}
    BY ONLY <1>8, <1>11, <1>12, <2>4
  <2> QED BY <2>1, <2>2, <2>3, <2>4
<1>13. ASSUME NEW t \in Nodes, \A k \in Lists : t \notin Els(T[k]) PROVE Loose(mem2, t)
  <2>1. \A k \in Lists : t \notin Els(S[k])
    <3>1. ASSUME NEW k \in Lists PROVE t \notin Els(S[k])
      <4>1. CASE k = "items"
        BY ONLY <1>1, <1>8, <1>13, <4>1 DEF s
      <4>2. CASE k = w
        BY ONLY <1>3, <1>10, <4>2
      <4>3. CASE k \notin {w, "items"}
        BY ONLY <1>8, <1>13, <4>3, k \in Lists
      <4> QED BY <4>1, <4>2, <4>3
    <3> QED BY <3>1
  <2>2. Loose(mem, t)
    BY <2>1 DEF Stands
  <2> QED BY <1>6, <2>2 DEF Loose
<1>14. Whole(mem2, "items", T["items"])
  <2>1. Place(<< >>, 1) = Nil /\ Place(<< >>, Len(<< >>)) = Nil /\ Len(<< >>) = 0 /\ << >> \in Seq(Nodes)
    BY DEF Place
  <2>2. mem2.head["items"] = Nil /\ mem2.tail["items"] = Nil
    BY ONLY <1>1, <1>4, <1>6
  <2> QED BY ONLY <1>8, <2>1, <2>2 DEF Whole, Chain
<1>15. Chain(mem2.next, cur2[w], T[w])
  BY <1>6, <1>7, <1>8, <1>9
<1>16. \A k \in Queues \ {w, "items"} : mem2.head[k] = mem.head[k] /\ mem2.tail[k] = mem.tail[k] /\ mem2.count[k] = mem.count[k]
  BY ONLY <1>4, <1>6
<1>17. Changes(mem, cur, S, mem2, cur2, T, w, "items")
  <2>1. \A l \in Queues \cap {w, "items"} : Whole(mem2, l, T[l])
    BY <1>1, <1>14
  <2>2. \A x \in Wakers \cap {w, "items"} : Chain(mem2.next, cur2[x], T[x])
    BY <1>15, LinksAssumption DEF Queues
  <2>3. mem2.prev = mem.prev /\ mem2.next = mem.next /\ mem2 \in Mem /\ w \in Lists /\ "items" \in Lists
    BY <1>1, <1>6
  <2> QED BY ONLY <1>8, <1>9, <1>12, <1>13, <1>16, <2>1, <2>2, <2>3 DEF Changes
<1> QED BY <1>17, StandsAfter

\* One round of wake_all: the first node of the walk is cleared and let go.
LEMMA WokenOut ==
  ASSUME NEW mem, NEW cur, NEW S, Stands(mem, cur, S), NEW w \in Wakers, cur[w] # Nil
  PROVE  /\ S[w] # << >> /\ Head(S[w]) = cur[w]
         /\ Stands(cleared(mem, cur[w]), [cur EXCEPT ![w] = mem.next[cur[w]]], [S EXCEPT ![w] = Tail(@)])
<1> DEFINE s == S[w]
           n == Len(s)
           u == Tail(s)
<1>1. w \in Lists /\ w \notin Queues
  BY LinksAssumption DEF Lists
<1>2. Chain(mem.next, cur[w], s) /\ mem \in Mem /\ S \in [Lists -> Seq(Nodes)] /\ cur \in [Wakers -> Nodes \cup {Nil}]
  BY DEF Stands
<1> HIDE DEF s
<1>3. s \in Seq(Nodes) /\ n \in Nat /\ Distinct(s) /\ cur[w] = Place(s, 1)
      /\ \A i \in 1..n : mem.next[s[i]] = Place(s, i + 1)
  BY <1>2 DEF Chain, Distinct
<1>4. n > 0
  BY <1>3 DEF Place
<1>5. PICK t \in Nodes : t = s[1] /\ t = cur[w] /\ mem.next[t] = Place(s, 2)
  <2>1. 1 \in 1..n
    BY <1>3, <1>4
  <2> QED BY <1>3, <2>1 DEF Place
<1>6. s # << >> /\ Head(s) = t
  <2>1. s \in Seq(Nodes) /\ Len(s) > 0
    BY <1>3, <1>4
  <2>2. s # << >> /\ Head(s) = s[1]
    BY ONLY <2>1
  <2> QED BY <1>5, <2>2
<1>7. u \in Seq(Nodes) /\ Len(u) = n - 1 /\ \A i \in 1..(n - 1) : u[i] = s[i + 1]
  BY <1>3, <1>4
<1> HIDE DEF u, n
<1>8. \A i \in Nat : i >= 1 => Place(u, i) = Place(s, i + 1)
  BY <1>3, <1>4, <1>7 DEF Place, n
<1>9. Distinct(u)
  <2> SUFFICES ASSUME NEW i \in 1..(n - 1), NEW j \in 1..(n - 1), u[i] = u[j] PROVE i = j
    BY <1>7 DEF Distinct
  <2>1. i + 1 \in 1..Len(s) /\ j + 1 \in 1..Len(s) /\ s[i + 1] = s[j + 1]
    BY <1>3, <1>7 DEF n
  <2>2. i + 1 = j + 1
    BY <1>3, <2>1 DEF Distinct
  <2> QED BY <2>2
<1>10. Els(u) = Els(s) \ {t} /\ t \in Els(s)
  <2>1. ASSUME NEW x \in Els(u) PROVE x \in Els(s) \ {t}
    <3>1. PICK i \in 1..(n - 1) : x = u[i]
      BY <1>7 DEF Els
    <3>2. x = s[i + 1] /\ i + 1 \in 1..Len(s) /\ i + 1 # 1 /\ 1 \in 1..Len(s)
      BY <1>3, <1>4, <1>7, <3>1 DEF n
    <3> QED BY <1>3, <1>5, <3>2 DEF Els, Distinct
  <2>2. ASSUME NEW x \in Els(s) \ {t} PROVE x \in Els(u)
    <3>1. PICK i \in 1..n : x = s[i] /\ i # 1
      BY <1>5 DEF Els, n
    <3>2. i - 1 \in 1..(n - 1) /\ (i - 1) + 1 = i
      BY <1>3, <3>1
    <3>3. u[i - 1] = x
      BY <1>7, <3>1, <3>2
    <3> QED BY <1>7, <3>2, <3>3 DEF Els
  <2>3. t \in Els(s)
    <3>1. 1 \in 1..Len(s)
      BY <1>3, <1>4 DEF n
    <3> QED BY ONLY <1>5, <3>1 DEF Els
  <2> QED BY <2>1, <2>2, <2>3
<1>11. PICK c \in Mem : c = cleared(mem, t)
  BY <1>2, ClearedIs
<1>12. /\ c.head = mem.head /\ c.tail = mem.tail /\ c.count = mem.count
       /\ c.prev = [mem.prev EXCEPT ![t] = Nil] /\ c.next = [mem.next EXCEPT ![t] = Nil]
  BY <1>2, <1>11, ClearedIs
<1>13. mem.prev \in [Nodes -> Ptrs] /\ mem.next \in [Nodes -> Ptrs]
  BY <1>2 DEF Mem
<1>14. \A q \in Nodes \ {t} : c.next[q] = mem.next[q] /\ c.prev[q] = mem.prev[q]
  BY ONLY <1>12, <1>13
<1> SUFFICES ASSUME NEW T, T = [S EXCEPT ![w] = u],
                    NEW cur2, cur2 = [cur EXCEPT ![w] = mem.next[t]]
             PROVE  Stands(c, cur2, T)
  BY <1>5, <1>6, <1>11 DEF s, u
<1>15. T \in [Lists -> Seq(Nodes)] /\ T[w] = u /\ \A k \in Lists \ {w} : T[k] = S[k]
  BY ONLY <1>1, <1>2, <1>7, T = [S EXCEPT ![w] = u]
<1>16. cur2 \in [Wakers -> Nodes \cup {Nil}] /\ cur2[w] = Place(s, 2) /\ \A x \in Wakers \ {w} : cur2[x] = cur[x]
  <2>1. Place(s, 2) \in Nodes \cup {Nil}
    BY <1>3, AtType
  <2> QED BY ONLY <1>2, <1>5, <2>1, w \in Wakers, cur2 = [cur EXCEPT ![w] = mem.next[t]]
<1>17. \A k, l \in Lists : k # l => Els(S[k]) \cap Els(S[l]) = {}
  BY DEF Stands
<1>18. ASSUME NEW k \in Lists, NEW l \in Lists, k # l PROVE Els(T[k]) \cap Els(T[l]) = {}
  <2>1. Els(T[k]) \subseteq Els(S[k])
    BY ONLY <1>10, <1>15, k \in Lists DEF s
  <2>2. Els(T[l]) \subseteq Els(S[l])
    BY ONLY <1>10, <1>15, l \in Lists DEF s
  <2>3. Els(S[k]) \cap Els(S[l]) = {}
    BY <1>17, <1>18
  <2> QED BY <2>1, <2>2, <2>3
<1>19. ASSUME NEW q \in Nodes, \A k \in Lists : q \notin Els(T[k]) PROVE Loose(c, q)
  <2>1. CASE q = t
    BY ONLY <1>12, <1>13, <2>1, t \in Nodes DEF Loose
  <2>2. CASE q # t
    <3>1. ASSUME NEW k \in Lists PROVE q \notin Els(S[k])
      BY ONLY <1>1, <1>10, <1>15, <1>19, <2>2, k \in Lists DEF s
    <3>2. Loose(mem, q)
      BY <3>1 DEF Stands
    <3> QED BY <1>14, <2>2, <3>2 DEF Loose
  <2> QED BY <2>1, <2>2
<1>20. Chain(c.next, cur2[w], T[w])
  <2>1. ASSUME NEW i \in 1..Len(u) PROVE c.next[u[i]] = Place(u, i + 1)
    <3>1. i \in 1..(n - 1) /\ i + 1 \in 1..n /\ i + 1 \in 1..Len(s) /\ (i + 1) + 1 = i + 2 /\ i + 1 \in Nat /\ i + 1 >= 1 /\ 1 \in 1..Len(s)
      BY <1>3, <1>4, <1>7 DEF n
    <3>2. u[i] = s[i + 1] /\ s[i + 1] \in Nodes
      BY <1>3, <1>7, <3>1
    <3>3. s[i + 1] # t
      <4>1. i + 1 # 1
        BY <3>1
      <4> QED BY <1>3, <1>5, <3>1, <4>1 DEF Distinct
    <3>4. mem.next[s[i + 1]] = Place(s, i + 2)
      BY <1>3, <3>1
    <3>5. Place(u, i + 1) = Place(s, i + 2)
      BY <1>8, <3>1
    <3> QED BY <1>14, <3>2, <3>3, <3>4, <3>5
  <2>2. Place(s, 2) = Place(u, 1)
    BY <1>8
  <2>3. u \in Seq(Nodes) /\ \A i, j \in 1..Len(u) : u[i] = u[j] => i = j
    BY ONLY <1>7, <1>9 DEF Distinct
  <2>4. \A i \in 1..Len(u) : c.next[u[i]] = Place(u, i + 1)
    BY ONLY <1>7, <2>1
  <2>5. cur2[w] = Place(u, 1) /\ T[w] = u
    BY ONLY <1>15, <1>16, <2>2
  <2> QED BY ONLY <2>3, <2>4, <2>5 DEF Chain
<1>21. ASSUME NEW k \in Lists \ {w}, NEW q \in Els(S[k]) PROVE c.next[q] = mem.next[q] /\ c.prev[q] = mem.prev[q]
  <2>1. q \in Nodes
    BY <1>2 DEF Els
  <2>2. q # t
    BY <1>1, <1>10, <1>17 DEF s
  <2> QED BY <1>14, <2>1, <2>2
<1>22. Changes(mem, cur, S, c, cur2, T, w, w)
  <2>1. \A l \in Queues \cap {w, w} : Whole(c, l, T[l])
    BY <1>1
  <2>2. \A x \in Wakers \cap {w, w} : Chain(c.next, cur2[x], T[x])
    BY <1>20
  <2> QED BY ONLY <1>1, <1>12, <1>15, <1>16, <1>18, <1>19, <1>21, <2>1, <2>2, c \in Mem DEF Changes
<1> QED BY <1>22, StandsAfter

-------------------------------------------------------------------------------
(* Sweeps                                                                    *)

ChosenBy(f, s, P) ==
  [k \in 0..Len(s) |-> IF k = 0 THEN << >> ELSE IF s[k] \in P THEN Append(f[k - 1], s[k]) ELSE f[k - 1]]
ChosenOf(s, P) == CHOOSE f : f = ChosenBy(f, s, P)

LEMMA ChosenIs ==
  ASSUME NEW s \in Seq(Nodes), NEW P
  PROVE  LET g == ChosenOf(s, P)
         IN  /\ Abstract!Chosen(s, P) = g[Len(s)]
             /\ g \in [0..Len(s) -> Seq(Nodes)] /\ g[0] = << >>
             /\ \A k \in 1..Len(s) : g[k] = IF s[k] \in P THEN Append(g[k - 1], s[k]) ELSE g[k - 1]
<1> DEFINE n == Len(s)
           R == Seq(Nodes)
           b == << >>
           z(i) == IF i \in 1..n THEN s[i] ELSE s[1]
           row(r, i) == IF i \in 1..n /\ s[i] \in P THEN Append(r, s[i]) ELSE r
           t == [x \in R \X Nat |-> row(x[1], x[2])]
<1>1. n \in Nat /\ b \in R /\ \A i \in 1..n : s[i] \in Nodes
  OBVIOUS
<1>2. ASSUME NEW r \in R, NEW i \in Nat PROVE row(r, i) \in R
  BY <1>1
<1> HIDE DEF row, n
<1>3. t \in [R \X Nat -> R]
  BY <1>2
<1>4. \A r \in R, i \in Nat : t[<<r, i>>] = row(r, i)
  OBVIOUS
<1> HIDE DEF R, t, b
<1>5. PICK f : Stepwise(f, R, b, t, n)
  BY <1>1, <1>3, StepsExist
<1>6. f \in [0..n -> R] /\ f[0] = b
  BY <1>5 DEF Stepwise
<1>7. ASSUME NEW k \in 1..n PROVE f[k] = IF s[k] \in P THEN Append(f[k - 1], s[k]) ELSE f[k - 1]
  <2>1. f[k - 1] \in R /\ k \in Nat
    BY <1>1, <1>6
  <2>2. f[k] = t[<<f[k - 1], k>>]
    BY <1>5 DEF Stepwise
  <2>3. f[k] = row(f[k - 1], k)
    BY <1>4, <2>1, <2>2
  <2> QED BY <2>3 DEF row
<1>8. f = ChosenBy(f, s, P)
  <2> DEFINE c(k) == IF k = 0 THEN << >> ELSE IF s[k] \in P THEN Append(f[k - 1], s[k]) ELSE f[k - 1]
  <2>1. f = [k \in 0..n |-> f[k]]
    BY <1>6
  <2>2. ASSUME NEW k \in 0..n PROVE f[k] = c(k)
    <3>1. CASE k = 0
      BY <1>6, <3>1 DEF b
    <3>2. CASE k # 0
      <4>1. k \in 1..n
        BY <1>1, <3>2
      <4> QED BY <1>7, <3>2, <4>1
    <3> QED BY <3>1, <3>2
  <2> HIDE DEF c
  <2>3. f = [k \in 0..n |-> c(k)]
    BY <2>1, <2>2
  <2> QED BY <2>3 DEF c, ChosenBy, n
<1> DEFINE g == ChosenOf(s, P)
<1>9. g = ChosenBy(g, s, P)
  BY <1>8, Zenon DEF ChosenOf
<1>10. Abstract!Chosen(s, P) = g[n]
  BY Zenon DEF Abstract!Chosen, ChosenOf, ChosenBy, n
<1> HIDE DEF g
<1>11. \A k \in 0..n : g[k] = IF k = 0 THEN << >> ELSE IF s[k] \in P THEN Append(g[k - 1], s[k]) ELSE g[k - 1]
  BY <1>9, Zenon DEF ChosenBy, n
<1>12. g[0] = << >>
  BY <1>1, <1>11
<1>13. \A k \in 1..n : g[k] = IF s[k] \in P THEN Append(g[k - 1], s[k]) ELSE g[k - 1]
  BY <1>1, <1>11
<1>14. \A k \in 0..n : g[k] \in Seq(Nodes)
  <2> DEFINE Q == { k \in Nat : g[k] \in Seq(Nodes) }
  <2>1. 0 \in Q
    <3>1. g[0] \in Seq(Nodes) /\ 0 \in Nat
      BY ONLY <1>12
    <3> QED BY ONLY <3>1
  <2>2. ASSUME NEW k \in 1..n, k - 1 \in Q PROVE k \in Q
    <3>1. g[k - 1] \in Seq(Nodes) /\ s[k] \in Nodes /\ k \in Nat
      BY <1>1, <2>2
    <3>2. Append(g[k - 1], s[k]) \in Seq(Nodes)
      BY ONLY <3>1
    <3>3. g[k] \in Seq(Nodes)
      BY ONLY <1>13, <3>1, <3>2, k \in 1..n
    <3> QED BY ONLY <3>1, <3>3
  <2> HIDE DEF Q
  <2>3. \A k \in 0..n : k \in Q
    BY <1>1, <2>1, <2>2, StepsKeep
  <2> QED BY <2>3 DEF Q
<1>15. g \in [0..n -> Seq(Nodes)]
  <2> DEFINE c(k) == IF k = 0 THEN << >> ELSE IF s[k] \in P THEN Append(g[k - 1], s[k]) ELSE g[k - 1]
  <2>1. g = [k \in 0..n |-> c(k)]
    BY <1>9, Zenon DEF ChosenBy, n
  <2> HIDE DEF c
  <2>2. DOMAIN g = 0..n /\ g = [k \in DOMAIN g |-> g[k]]
    BY <2>1
  <2> QED BY <1>14, <2>2
<1> QED BY <1>10, <1>12, <1>13, <1>15 DEF g, n

\* A list swept as far as its j-th node: what it kept, and the nodes not reached.
Rest(a, s, j) == [x \in 1..(Len(a) + Len(s) - j) |-> IF x <= Len(a) THEN a[x] ELSE s[x - Len(a) + j]]

\* One round of the loop.
Rounded(b, l, gone) ==
  LET t == b.next
  IN  IF t = Nil THEN b
      ELSE IF t \in gone
        THEN [mem |-> freed(counted(unlink(b.mem, l, t), l, -1), t), next |-> b.mem.next[t], out |-> Append(b.out, t)]
        ELSE [mem |-> b.mem, next |-> b.mem.next[t], out |-> b.out]

\* The sweep of l has passed j nodes.
Swept(cur, S, l, gone, b, j) ==
  /\ Stands(b.mem, cur, [S EXCEPT ![l] = Rest(ChosenOf(S[l], Nodes \ gone)[j], S[l], j)])
  /\ b.next = Place(S[l], j + 1)
  /\ b.out = ChosenOf(S[l], gone)[j]

LEMMA RestIs ==
  ASSUME NEW a \in Seq(Nodes), NEW s \in Seq(Nodes), NEW j \in 0..(Len(s) - 1)
  PROVE  LET u == Rest(a, s, j)
             i == Len(a) + 1
         IN  /\ u \in Seq(Nodes) /\ i \in 1..Len(u) /\ u[i] = s[j + 1] /\ s[j + 1] \in Nodes
             /\ Place(u, i + 1) = Place(s, j + 2)
             /\ Cut(u, i) = Rest(a, s, j + 1)
             /\ u = Rest(Append(a, s[j + 1]), s, j + 1)
<1> DEFINE u == Rest(a, s, j)
           i == Len(a) + 1
           n == Len(a) + Len(s) - j
<1>1. Len(a) \in Nat /\ Len(s) \in Nat /\ n \in Nat /\ n >= i /\ i \in Nat /\ j \in Nat /\ j + 1 \in 1..Len(s)
  OBVIOUS
<1>2. \A x \in 1..n : (x <= Len(a) => a[x] \in Nodes) /\ (~(x <= Len(a)) => s[x - Len(a) + j] \in Nodes)
  BY <1>1
<1>3. u = [x \in 1..n |-> IF x <= Len(a) THEN a[x] ELSE s[x - Len(a) + j]]
  BY DEF Rest
<1> HIDE DEF u
<1>4. u \in Seq(Nodes) /\ Len(u) = n /\ \A x \in 1..n : u[x] = IF x <= Len(a) THEN a[x] ELSE s[x - Len(a) + j]
  BY <1>1, <1>2, <1>3
<1>5. i \in 1..Len(u) /\ u[i] = s[j + 1] /\ s[j + 1] \in Nodes
  BY <1>1, <1>4
<1>6. Place(u, i + 1) = Place(s, j + 2)
  <2>1. CASE j + 2 <= Len(s)
    <3>1. i + 1 \in 1..n /\ j + 2 \in 1..Len(s) /\ ~(i + 1 <= Len(a)) /\ i + 1 - Len(a) + j = j + 2
      BY <1>1, <2>1
    <3>2. u[i + 1] = s[j + 2]
      BY <1>4, <3>1
    <3> QED BY ONLY <1>4, <3>1, <3>2 DEF Place
  <2>2. CASE ~(j + 2 <= Len(s))
    <3>1. i + 1 \notin 1..n /\ j + 2 \notin 1..Len(s)
      BY <1>1, <2>2
    <3> QED BY ONLY <1>4, <3>1 DEF Place
  <2> QED BY <2>1, <2>2
<1>7. Cut(u, i) = Rest(a, s, j + 1)
  <2> DEFINE c(x) == IF x < i THEN u[x] ELSE u[x + 1]
             d(x) == IF x <= Len(a) THEN a[x] ELSE s[x - Len(a) + (j + 1)]
  <2>1. Cut(u, i) = [x \in 1..(n - 1) |-> c(x)]
    BY <1>4 DEF Cut
  <2>2. Rest(a, s, j + 1) = [x \in 1..(n - 1) |-> d(x)]
    <3>1. Len(a) + Len(s) - (j + 1) = n - 1
      BY <1>1
    <3> QED BY <3>1 DEF Rest
  <2>3. ASSUME NEW x \in 1..(n - 1) PROVE c(x) = d(x)
    <3>1. CASE x < i
      BY <1>1, <1>4, <3>1
    <3>2. CASE ~(x < i)
      <4>1. x + 1 \in 1..n /\ ~(x + 1 <= Len(a)) /\ x + 1 - Len(a) + j = x - Len(a) + (j + 1) /\ ~(x <= Len(a))
        BY <1>1, <3>2
      <4>2. u[x + 1] = s[x + 1 - Len(a) + j]
        BY <1>4, <4>1
      <4> QED BY ONLY <3>2, <4>1, <4>2
    <3> QED BY <3>1, <3>2
  <2> HIDE DEF c, d
  <2> QED BY <2>1, <2>2, <2>3
<1>8. u = Rest(Append(a, s[j + 1]), s, j + 1)
  <2>1. PICK e \in Seq(Nodes) : e = Append(a, s[j + 1]) /\ Len(e) = Len(a) + 1 /\ e[Len(a) + 1] = s[j + 1] /\ \A x \in 1..Len(a) : e[x] = a[x]
    <3> DEFINE e == Append(a, s[j + 1])
    <3>1. e \in Seq(Nodes) /\ Len(e) = Len(a) + 1 /\ e[Len(a) + 1] = s[j + 1]
      BY ONLY <1>1, <1>5, a \in Seq(Nodes)
    <3>2. \A x \in 1..Len(a) : e[x] = a[x]
      BY ONLY <1>1, <1>5, a \in Seq(Nodes)
    <3> HIDE DEF e
    <3>3. \E d \in Seq(Nodes) : d = e
      BY ONLY <3>1
    <3> QED BY <3>1, <3>2, <3>3 DEF e
  <2> DEFINE c(x) == IF x <= Len(a) THEN a[x] ELSE s[x - Len(a) + j]
             d(x) == IF x <= Len(e) THEN e[x] ELSE s[x - Len(e) + (j + 1)]
  <2>2. u = [x \in 1..n |-> c(x)]
    BY <1>3
  <2>3. Rest(e, s, j + 1) = [x \in 1..n |-> d(x)]
    <3>1. Len(e) + Len(s) - (j + 1) = n
      BY <1>1, <2>1
    <3> QED BY <3>1 DEF Rest
  <2>4. ASSUME NEW x \in 1..n PROVE c(x) = d(x)
    <3>1. CASE x <= Len(a)
      BY ONLY <1>1, <2>1, <3>1, x \in 1..n
    <3>2. CASE x = Len(a) + 1
      BY ONLY <1>1, <2>1, <3>2, x \in 1..n
    <3>3. CASE x > Len(a) + 1
      <4>1. ~(x <= Len(a)) /\ ~(x <= Len(e)) /\ x - Len(e) + (j + 1) = x - Len(a) + j
        BY ONLY <1>1, <2>1, <3>3, x \in 1..n
      <4> QED BY ONLY <4>1
    <3> QED BY <1>1, <3>1, <3>2, <3>3
  <2> HIDE DEF c, d
  <2>5. u = Rest(e, s, j + 1)
    BY ONLY <2>2, <2>3, <2>4
  <2> QED BY <2>1, <2>5
<1> QED BY <1>4, <1>5, <1>6, <1>7, <1>8 DEF u

\* Nothing is left after the last node, and everything before the first.
LEMMA RestEnds ==
  ASSUME NEW a \in Seq(Nodes), NEW s \in Seq(Nodes)
  PROVE  Rest(a, s, Len(s)) = a /\ Rest(<< >>, s, 0) = s
<1>1. Len(a) \in Nat /\ Len(s) \in Nat /\ Len(<< >>) = 0
  OBVIOUS
<1>2. Rest(a, s, Len(s)) = a
  <2> DEFINE c(x) == IF x <= Len(a) THEN a[x] ELSE s[x - Len(a) + Len(s)]
  <2>1. Rest(a, s, Len(s)) = [x \in 1..Len(a) |-> c(x)]
    <3>1. Len(a) + Len(s) - Len(s) = Len(a)
      BY <1>1
    <3> QED BY <3>1 DEF Rest
  <2>2. \A x \in 1..Len(a) : c(x) = a[x]
    BY <1>1
  <2>3. a = [x \in 1..Len(a) |-> a[x]]
    BY <1>1
  <2> HIDE DEF c
  <2> QED BY <2>1, <2>2, <2>3
<1>3. Rest(<< >>, s, 0) = s
  <2> DEFINE b == << >>
             c(x) == IF x <= Len(b) THEN b[x] ELSE s[x - Len(b) + 0]
  <2>1. Rest(b, s, 0) = [x \in 1..Len(s) |-> c(x)]
    <3>1. Len(b) + Len(s) - 0 = Len(s)
      BY <1>1
    <3> QED BY <3>1 DEF Rest
  <2>2. \A x \in 1..Len(s) : c(x) = s[x]
    BY <1>1
  <2>3. s = [x \in 1..Len(s) |-> s[x]]
    BY <1>1
  <2> HIDE DEF c
  <2> QED BY <2>1, <2>2, <2>3
<1> QED BY <1>2, <1>3

\* A round passes one node more.
LEMMA SweptOn ==
  ASSUME NEW cur, NEW S \in [Lists -> Seq(Nodes)], NEW l \in {"cleanup", "sleepers"}, NEW gone \in SUBSET Nodes,
         NEW b, NEW j \in 0..(Len(S[l]) - 1), Swept(cur, S, l, gone, b, j)
  PROVE  Swept(cur, S, l, gone, Rounded(b, l, gone), j + 1)
<1> DEFINE s == S[l]
           K == ChosenOf(s, Nodes \ gone)
           O == ChosenOf(s, gone)
           a == K[j]
           u == Rest(a, s, j)
           i == Len(a) + 1
           U == [S EXCEPT ![l] = u]
           c == Rounded(b, l, gone)
<1>1. l \in Queues /\ l \in Lists /\ s \in Seq(Nodes) /\ Len(s) \in Nat /\ j \in Nat /\ j + 1 \in 1..Len(s) /\ (j + 1) - 1 = j
  BY DEF Queues, Lists
<1>2. K[j + 1] = (IF s[j + 1] \in Nodes \ gone THEN Append(K[j], s[j + 1]) ELSE K[j]) /\ K[j] \in Seq(Nodes)
  <2>1. K \in [0..Len(s) -> Seq(Nodes)] /\ \A k \in 1..Len(s) : K[k] = IF s[k] \in Nodes \ gone THEN Append(K[k - 1], s[k]) ELSE K[k - 1]
    BY <1>1, ChosenIs
  <2> HIDE DEF K, s
  <2>2. j \in 0..Len(s)
    BY ONLY <1>1
  <2>3. K[j] \in Seq(Nodes)
    BY ONLY <2>1, <2>2
  <2>4. K[j + 1] = IF s[j + 1] \in Nodes \ gone THEN Append(K[(j + 1) - 1], s[j + 1]) ELSE K[(j + 1) - 1]
    BY ONLY <1>1, <2>1
  <2> QED BY ONLY <1>1, <2>3, <2>4
<1>3. O[j + 1] = IF s[j + 1] \in gone THEN Append(O[j], s[j + 1]) ELSE O[j]
  <2>1. \A k \in 1..Len(s) : O[k] = IF s[k] \in gone THEN Append(O[k - 1], s[k]) ELSE O[k - 1]
    BY <1>1, ChosenIs
  <2> HIDE DEF O, s
  <2> QED BY <1>1, <2>1
<1> HIDE DEF K, O, s
<1>4. /\ u \in Seq(Nodes) /\ i \in 1..Len(u) /\ u[i] = s[j + 1] /\ s[j + 1] \in Nodes
      /\ Place(u, i + 1) = Place(s, j + 2)
      /\ Cut(u, i) = Rest(a, s, j + 1)
      /\ u = Rest(Append(a, s[j + 1]), s, j + 1)
  <2>1. a \in Seq(Nodes) /\ s \in Seq(Nodes) /\ j \in 0..(Len(s) - 1)
    BY <1>1, <1>2
  <2> HIDE DEF a
  <2> QED BY ONLY <2>1, RestIs
<1>5. Stands(b.mem, cur, U) /\ b.next = Place(s, j + 1) /\ b.out = O[j]
  BY DEF Swept, s, K, O
<1> HIDE DEF a, u
<1>6. U[l] = u /\ U \in [Lists -> Seq(Nodes)]
  BY ONLY <1>1, <1>4, S \in [Lists -> Seq(Nodes)]
<1>7. \A v \in Seq(Nodes) : [U EXCEPT ![l] = v] = [S EXCEPT ![l] = v]
  BY ONLY <1>1, S \in [Lists -> Seq(Nodes)]
<1>8. PICK t \in Nodes : t = s[j + 1] /\ b.next = t /\ t # Nil
  BY <1>1, <1>4, <1>5, LinksAssumption DEF Place
<1> HIDE DEF U
<1>9. b.mem.next[t] = Place(s, (j + 1) + 1)
  <2>1. i \in 1..Len(U[l]) /\ U[l][i] = t /\ j + 2 = (j + 1) + 1
    BY <1>1, <1>4, <1>6, <1>8
  <2> HIDE DEF i
  <2>2. b.mem.next[U[l][i]] = Place(U[l], i + 1)
    BY ONLY <1>1, <1>5, <2>1, LinksOf
  <2> QED BY ONLY <1>4, <1>6, <2>1, <2>2 DEF i
<1>10. CASE t \in gone
  <2>1. K[j + 1] = a /\ O[j + 1] = Append(O[j], t)
    BY <1>2, <1>3, <1>8, <1>10 DEF a
  <2> DEFINE mm == freed(counted(unlink(b.mem, l, t), l, -1), t)
  <2>2. c = [mem |-> mm, next |-> b.mem.next[t], out |-> Append(b.out, t)]
    BY <1>8, <1>10 DEF Rounded
  <2>3. Stands(mm, cur, [U EXCEPT ![l] = Cut(U[l], i)])
    <3>1. i \in 1..Len(U[l]) /\ U[l][i] = t
      BY <1>4, <1>6, <1>8
    <3>2. mm = freed(counted(unlink(b.mem, l, U[l][i]), l, -1), U[l][i])
      BY <3>1
    <3> HIDE DEF i, mm
    <3> QED BY ONLY <1>5, <3>1, <3>2, l \in {"cleanup", "sleepers"}, FreedOut
  <2>4. [U EXCEPT ![l] = Cut(U[l], i)] = [S EXCEPT ![l] = Rest(K[j + 1], s, j + 1)]
    <3>1. Cut(U[l], i) = Rest(K[j + 1], s, j + 1)
      BY <1>4, <1>6, <2>1
    <3> HIDE DEF i
    <3> QED BY ONLY <1>1, <3>1, S \in [Lists -> Seq(Nodes)] DEF U
  <2> HIDE DEF c, mm
  <2>5. c.mem = mm /\ c.next = Place(s, (j + 1) + 1) /\ c.out = O[j + 1]
    BY <1>5, <1>9, <2>1, <2>2
  <2>6. Swept(cur, S, l, gone, c, j + 1)
    BY <2>3, <2>4, <2>5 DEF Swept, s, K, O
  <2> QED BY <2>6 DEF c
<1>11. CASE t \notin gone
  <2>1. K[j + 1] = Append(a, s[j + 1]) /\ O[j + 1] = O[j]
    BY <1>2, <1>3, <1>8, <1>11 DEF a
  <2>2. c = [mem |-> b.mem, next |-> b.mem.next[t], out |-> b.out]
    BY <1>8, <1>11 DEF Rounded
  <2>3. U = [S EXCEPT ![l] = Rest(K[j + 1], s, j + 1)]
    BY <1>4, <2>1 DEF U
  <2> HIDE DEF c
  <2>5. c.mem = b.mem /\ c.next = Place(s, (j + 1) + 1) /\ c.out = O[j + 1]
    BY <1>5, <1>9, <2>1, <2>2
  <2>6. Swept(cur, S, l, gone, c, j + 1)
    BY <1>5, <2>3, <2>5 DEF Swept, s, K, O
  <2> QED BY <2>6 DEF c
<1> QED BY <1>10, <1>11

RoundBy(f, mem, l, gone, n) ==
  [k \in 0..n |->
     IF k = 0 THEN [mem |-> mem, next |-> mem.head[l], out |-> << >>]
     ELSE LET b == f[k - 1]
              t == b.next
          IN  IF t = Nil THEN b
              ELSE IF t \in gone
                THEN [mem  |-> freed(counted(unlink(b.mem, l, t), l, -1), t),
                      next |-> b.mem.next[t],
                      out  |-> Append(b.out, t)]
                ELSE [mem |-> b.mem, next |-> b.mem.next[t], out |-> b.out]]
RoundOf(mem, l, gone, n) == CHOOSE f : f = RoundBy(f, mem, l, gone, n)

\* The sweep as a whole.
Sweeps(l, gone)     == l \in {"cleanup", "sleepers"} /\ gone \in SUBSET Nodes
Without(S, l, gone) == [S EXCEPT ![l] = Abstract!Chosen(S[l], Nodes \ gone)]

LEMMA SweepIs ==
  ASSUME NEW mem, NEW cur, NEW S, Stands(mem, cur, S), NEW l, NEW gone, Sweeps(l, gone)
  PROVE  /\ Stands(sweep(mem, l, gone).mem, cur, Without(S, l, gone))
         /\ sweep(mem, l, gone).out = Abstract!Chosen(S[l], gone)
<1> l \in {"cleanup", "sleepers"} /\ gone \in SUBSET Nodes
  BY DEF Sweeps
<1> DEFINE s == S[l]
           n == Len(s)
           N == Cardinality(Nodes)
           b == [mem |-> mem, next |-> mem.head[l], out |-> << >>]
           Q(x, j) == Swept(cur, S, l, gone, x, j)
           row(x) == Rounded(x, l, gone)
<1>1. S \in [Lists -> Seq(Nodes)] /\ l \in Lists /\ l \in Queues /\ Whole(mem, l, s)
  BY DEF Stands, Queues, Lists
<1>2. s \in Seq(Nodes) /\ Distinct(s) /\ n \in Nat /\ mem.head[l] = Place(s, 1)
  BY <1>1 DEF Whole, Chain, Distinct
<1>3. N \in Nat /\ n <= N
  BY <1>2, NotLonger DEF Distinct
<1>4. /\ Abstract!Chosen(s, Nodes \ gone) = ChosenOf(s, Nodes \ gone)[n] /\ ChosenOf(s, Nodes \ gone)[0] = << >>
      /\ ChosenOf(s, Nodes \ gone)[n] \in Seq(Nodes)
  <2>1. /\ Abstract!Chosen(s, Nodes \ gone) = ChosenOf(s, Nodes \ gone)[n] /\ ChosenOf(s, Nodes \ gone)[0] = << >>
        /\ ChosenOf(s, Nodes \ gone) \in [0..n -> Seq(Nodes)]
    BY <1>2, ChosenIs
  <2> HIDE DEF n, s
  <2>2. n \in 0..n
    BY <1>2
  <2> QED BY ONLY <2>1, <2>2
<1>5. Abstract!Chosen(s, gone) = ChosenOf(s, gone)[n] /\ ChosenOf(s, gone)[0] = << >>
  BY <1>2, ChosenIs
<1>6. Q(b, 0)
  <2>1. Rest(<< >>, s, 0) = s
    BY <1>2, RestEnds
  <2>2. [S EXCEPT ![l] = s] = S
    BY <1>1
  <2>3. 0 + 1 = 1
    OBVIOUS
  <2> HIDE DEF s
  <2>4. b.mem = mem /\ b.next = Place(s, 0 + 1) /\ b.out = << >>
    BY <1>2, <2>3
  <2> HIDE DEF b
  <2>5. Stands(b.mem, cur, [S EXCEPT ![l] = Rest(ChosenOf(s, Nodes \ gone)[0], s, 0)])
    BY <1>4, <2>1, <2>2, <2>4
  <2> QED BY <1>5, <2>4, <2>5 DEF Swept, s
<1>7. ASSUME NEW x, NEW j \in 0..n, Q(x, j) PROVE Q(row(x), IF j < n THEN j + 1 ELSE n)
  <2>1. CASE j < n
    <3>1. j \in 0..(Len(S[l]) - 1)
      BY <1>2, <2>1
    <3> QED BY <1>1, <1>7, <2>1, <3>1, SweptOn
  <2>2. CASE ~(j < n)
    <3>1. j = n
      BY <1>2, <2>2
    <3>2. x.next = Place(s, n + 1)
      BY <1>7, <3>1 DEF Swept
    <3>3. x.next = Nil
      BY <1>2, <3>2 DEF Place
    <3>4. row(x) = x
      BY <3>3 DEF Rounded
    <3> QED BY <1>7, <2>2, <3>1, <3>4
  <2> QED BY <2>1, <2>2
<1> DEFINE All == [mem : Mem, next : Nodes \cup {Nil}, out : Seq(Nodes)]
           R == { x \in All : \E j \in 0..n : Q(x, j) }
           t == [y \in R \X Nat |-> row(y[1])]
<1>8. ASSUME NEW x, NEW j \in 0..n, Q(x, j), x = [mem |-> x.mem, next |-> x.next, out |-> x.out] PROVE x \in All
  <2>1. x.mem \in Mem
    BY <1>8 DEF Swept, Stands
  <2>2. x.next \in Nodes \cup {Nil}
    <3>1. x.next = Place(s, j + 1) /\ j + 1 \in Int
      BY <1>8 DEF Swept
    <3> QED BY <1>2, <3>1, AtType
  <2>3. x.out \in Seq(Nodes)
    <3>1. ChosenOf(s, gone) \in [0..n -> Seq(Nodes)] /\ x.out = ChosenOf(s, gone)[j]
      BY <1>2, <1>8, ChosenIs DEF Swept
    <3> HIDE DEF s, n
    <3> QED BY <3>1
  <2> QED BY ONLY <1>8, <2>1, <2>2, <2>3
<1>9. ASSUME NEW x, x = [mem |-> x.mem, next |-> x.next, out |-> x.out]
      PROVE  row(x) = [mem |-> row(x).mem, next |-> row(x).next, out |-> row(x).out]
  BY <1>9 DEF Rounded
<1> HIDE DEF Q, row, n, N
<1>10. b \in R
  <2>1. b \in All /\ 0 \in 0..n
    BY <1>2, <1>6, <1>8
  <2> HIDE DEF b, All
  <2> QED BY <1>6, <2>1
<1>11. ASSUME NEW x \in R PROVE row(x) \in R
  <2>1. PICK j \in 0..n : Q(x, j)
    OBVIOUS
  <2>2. PICK k \in 0..n : Q(row(x), k)
    <3>1. Q(row(x), IF j < n THEN j + 1 ELSE n) /\ (IF j < n THEN j + 1 ELSE n) \in 0..n
      BY <1>2, <1>7, <2>1
    <3> QED BY <3>1
  <2>3. x = [mem |-> x.mem, next |-> x.next, out |-> x.out]
    OBVIOUS
  <2>4. row(x) \in All
    BY <1>8, <1>9, <2>2, <2>3
  <2> HIDE DEF All
  <2> QED BY <2>2, <2>4
<1> HIDE DEF R, b
<1>12. t \in [R \X Nat -> R]
  BY <1>11
<1>13. \A x \in R, i \in Nat : t[<<x, i>>] = row(x)
  OBVIOUS
<1> HIDE DEF t
<1>14. PICK f : Stepwise(f, R, b, t, N)
  BY <1>3, <1>10, <1>12, StepsExist
<1>15. f \in [0..N -> R] /\ f[0] = b
  BY <1>14 DEF Stepwise
<1>16. ASSUME NEW k \in 1..N PROVE f[k] = row(f[k - 1])
  <2>1. f[k - 1] \in R /\ k \in Nat
    BY <1>3, <1>15
  <2>2. f[k] = t[<<f[k - 1], k>>]
    BY <1>14 DEF Stepwise
  <2> QED BY <1>13, <2>1, <2>2
<1> DEFINE step(g, k) == IF k = 0 THEN b ELSE row(g[k - 1])
<1>17. ASSUME NEW g PROVE RoundBy(g, mem, l, gone, N) = [k \in 0..N |-> step(g, k)]
  BY Zenon DEF RoundBy, Rounded, row, b
<1>18. f = RoundBy(f, mem, l, gone, N)
  <2>1. f = [k \in 0..N |-> f[k]]
    BY <1>15
  <2>2. ASSUME NEW k \in 0..N PROVE f[k] = step(f, k)
    <3>1. CASE k = 0
      BY <1>15, <3>1
    <3>2. CASE k # 0
      <4>1. k \in 1..N
        BY <1>3, <3>2
      <4> QED BY <1>16, <3>2, <4>1
    <3> QED BY <3>1, <3>2
  <2> HIDE DEF step
  <2>3. f = [k \in 0..N |-> step(f, k)]
    BY <2>1, <2>2
  <2> QED BY <1>17, <2>3
<1> DEFINE g == RoundOf(mem, l, gone, N)
<1>19. g = RoundBy(g, mem, l, gone, N)
  BY <1>18, Zenon DEF RoundOf
<1>20. sweep(mem, l, gone) = g[N]
  BY Zenon DEF sweep, RoundOf, RoundBy, N
<1> HIDE DEF g
<1>21. g = [k \in 0..N |-> step(g, k)]
  BY <1>17, <1>19
<1>22. \A k \in 0..N : g[k] = step(g, k)
  <2> HIDE DEF step
  <2> QED BY <1>21
<1> DEFINE P == { k \in Nat : Q(g[k], IF k < n THEN k ELSE n) }
<1>23. 0 \in P
  <2>1. g[0] = b
    BY <1>3, <1>22
  <2>2. (IF 0 < n THEN 0 ELSE n) = 0
    BY <1>2
  <2> QED BY <1>6, <2>1, <2>2
<1>24. ASSUME NEW k \in 1..N, k - 1 \in P PROVE k \in P
  <2> DEFINE j == IF k - 1 < n THEN k - 1 ELSE n
  <2>1. j \in 0..n /\ k \in Nat /\ (IF j < n THEN j + 1 ELSE n) = (IF k < n THEN k ELSE n)
    BY <1>2, <1>3
  <2>2. Q(g[k - 1], j)
    BY <1>24
  <2>3. g[k] = row(g[k - 1])
    BY <1>3, <1>22
  <2> HIDE DEF j
  <2>4. Q(g[k], IF j < n THEN j + 1 ELSE n)
    BY <1>7, <2>1, <2>2, <2>3
  <2> QED BY <2>1, <2>4
<1> HIDE DEF P
<1>25. N \in P
  <2>1. \A k \in 0..N : k \in P
    BY <1>3, <1>23, <1>24, StepsKeep
  <2> QED BY <1>3, <2>1
<1>26. Q(g[N], n)
  <2>1. (IF N < n THEN N ELSE n) = n
    BY <1>2, <1>3
  <2> QED BY <1>25, <2>1 DEF P
<1>27. Rest(ChosenOf(s, Nodes \ gone)[n], s, n) = ChosenOf(s, Nodes \ gone)[n]
  BY <1>2, <1>4, RestEnds DEF n
<1>28. Stands(g[N].mem, cur, [S EXCEPT ![l] = ChosenOf(s, Nodes \ gone)[n]]) /\ g[N].out = ChosenOf(s, gone)[n]
  BY <1>26, <1>27 DEF Q, Swept, n
<1> QED BY <1>4, <1>5, <1>20, <1>28 DEF Without

\* Choosing everything, and nothing.
LEMMA ChosenAll ==
  ASSUME NEW s \in Seq(Nodes)
  PROVE  Abstract!Chosen(s, Nodes) = s /\ Abstract!Chosen(s, Nodes \ Nodes) = << >>
<1> DEFINE n == Len(s)
           g == ChosenOf(s, Nodes)
           h == ChosenOf(s, Nodes \ Nodes)
           b(k) == [x \in 1..k |-> s[x]]
           P == { k \in Nat : k <= n => g[k] = b(k) /\ h[k] = << >> }
<1>1. n \in Nat /\ \A k \in 1..n : s[k] \in Nodes
  OBVIOUS
<1>2. /\ Abstract!Chosen(s, Nodes) = g[n] /\ g[0] = << >>
      /\ \A k \in 1..n : g[k] = IF s[k] \in Nodes THEN Append(g[k - 1], s[k]) ELSE g[k - 1]
  BY ChosenIs
<1>3. /\ Abstract!Chosen(s, Nodes \ Nodes) = h[n] /\ h[0] = << >>
      /\ \A k \in 1..n : h[k] = IF s[k] \in Nodes \ Nodes THEN Append(h[k - 1], s[k]) ELSE h[k - 1]
  BY ChosenIs
<1> HIDE DEF g, h, n
<1>4. 0 \in P
  <2>1. b(0) = << >>
    OBVIOUS
  <2> QED BY <1>2, <1>3, <2>1
<1>5. ASSUME NEW k \in 1..n, k - 1 \in P PROVE k \in P
  <2>1. g[k - 1] = b(k - 1) /\ h[k - 1] = << >> /\ k \in Nat /\ k - 1 \in Nat /\ s[k] \in Nodes
    BY <1>1, <1>5
  <2>2. Append(b(k - 1), s[k]) = b(k)
    <3>1. \A x \in 1..(k - 1) : s[x] \in Nodes
      BY <1>1, <2>1
    <3>2. PICK c \in Seq(Nodes) : c = b(k - 1) /\ Len(c) = k - 1 /\ \A x \in 1..(k - 1) : c[x] = s[x]
      BY <2>1, <3>1
    <3> DEFINE e == Append(c, s[k])
    <3>6. e \in Seq(Nodes) /\ Len(e) = k /\ e[k] = s[k] /\ \A x \in 1..(k - 1) : e[x] = c[x]
      <4>1. Len(c) = k - 1 /\ c \in Seq(Nodes) /\ k \in Nat /\ s[k] \in Nodes
        BY <2>1, <3>2
      <4> QED BY ONLY <4>1
    <3> HIDE DEF e
    <3>3. PICK d \in Seq(Nodes) : d = e /\ Len(d) = k /\ d[k] = s[k] /\ \A x \in 1..(k - 1) : d[x] = c[x]
      BY ONLY <3>6
    <3>4. \A x \in 1..k : d[x] = s[x]
      BY ONLY <2>1, <3>2, <3>3
    <3>5. d = [x \in 1..k |-> s[x]]
      BY ONLY <2>1, <3>3, <3>4
    <3> QED BY <3>2, <3>3, <3>5 DEF e
  <2> HIDE DEF b
  <2>3. g[k] = b(k) /\ h[k] = << >>
    BY ONLY <1>2, <1>3, <2>1, <2>2, k \in 1..n
  <2> QED BY <2>1, <2>3
<1> HIDE DEF P
<1>6. n \in P
  <2>1. \A k \in 0..n : k \in P
    BY <1>1, <1>4, <1>5, StepsKeep
  <2> QED BY <1>1, <2>1
<1>7. b(n) = s
  BY DEF n
<1> HIDE DEF b
<1> QED BY <1>1, <1>2, <1>3, <1>6, <1>7 DEF P

\* The scratch is given up as a whole.
LEMMA DroppedOut ==
  ASSUME NEW mem, NEW cur, NEW S, Stands(mem, cur, S),
         NEW prev, prev = [t \in Nodes |-> IF t \in Els(S["scratch"]) THEN Dangling ELSE mem.prev[t]],
         NEW next, next = [t \in Nodes |-> IF t \in Els(S["scratch"]) THEN Dangling ELSE mem.next[t]],
         NEW mem2, mem2 = [mem EXCEPT !.head["scratch"] = Nil, !.prev = prev, !.next = next]
  PROVE  Stands(mem2, cur, [S EXCEPT !["scratch"] = << >>])
<1> DEFINE s == S["scratch"]
           u == << >>
<1>1. "scratch" \in Queues /\ "scratch" \in Lists
  BY DEF Queues, Lists
<1>2. Whole(mem, "scratch", s) /\ mem \in Mem
  BY <1>1 DEF Stands
<1> HIDE DEF s
<1>3. /\ mem.head \in [Queues -> Nodes \cup {Nil}] /\ mem.prev \in [Nodes -> Ptrs] /\ mem.next \in [Nodes -> Ptrs]
      /\ mem = [head |-> mem.head, tail |-> mem.tail, count |-> mem.count, prev |-> mem.prev, next |-> mem.next]
  BY <1>2 DEF Mem
<1>4. /\ prev \in [Nodes -> Ptrs] /\ next \in [Nodes -> Ptrs]
      /\ \A q \in Els(s) \cap Nodes : prev[q] = Dangling /\ next[q] = Dangling
      /\ \A q \in Nodes \ Els(s) : prev[q] = mem.prev[q] /\ next[q] = mem.next[q]
  BY <1>3 DEF Ptrs, s
<1>5. mem2 = [head |-> [mem.head EXCEPT !["scratch"] = Nil], tail |-> mem.tail, count |-> mem.count, prev |-> prev, next |-> next]
  <2>1. mem2 = [mem EXCEPT !.head = [mem.head EXCEPT !["scratch"] = Nil], !.prev = prev, !.next = next]
    OBVIOUS
  <2> QED BY ONLY <1>3, <2>1
<1>6. /\ mem2 \in Mem /\ mem2.head = [mem.head EXCEPT !["scratch"] = Nil] /\ mem2.tail = mem.tail /\ mem2.count = mem.count
      /\ mem2.prev = prev /\ mem2.next = next
  <2>1. [mem.head EXCEPT !["scratch"] = Nil] \in [Queues -> Nodes \cup {Nil}]
    BY ONLY <1>3
  <2>2. mem2 \in Mem
    BY ONLY <1>2, <1>4, <1>5, <2>1 DEF Mem
  <2> QED BY ONLY <1>5, <2>2
<1>7. mem2.head["scratch"] = Nil /\ Elsewhere(mem, mem2, "scratch")
  BY ONLY <1>1, <1>3, <1>6 DEF Elsewhere
<1>8. u \in Seq(Nodes) /\ Els(u) = {} /\ Whole(mem2, "scratch", u)
  <2>1. Place(u, 1) = Nil /\ Len(u) = 0 /\ u \in Seq(Nodes) /\ Els(u) = {}
    BY DEF Place, Els
  <2> HIDE DEF u
  <2> QED BY ONLY <1>7, <2>1 DEF Whole, Chain
<1>9. ASSUME NEW k \in Lists \ {"scratch"}, NEW q \in Els(S[k])
      PROVE  q \notin Els(u) /\ mem2.next[q] = mem.next[q] /\ mem2.prev[q] = mem.prev[q]
  <2>1. q \in Nodes /\ q \notin Els(s)
    BY <1>1, Apart DEF s
  <2> QED BY ONLY <1>4, <1>6, <1>8, <2>1
<1>10. ASSUME NEW q \in Nodes, q \notin Els(u), \A k \in Lists \ {"scratch"} : q \notin Els(S[k])
       PROVE  Loose(mem2, q)
  <2>1. CASE q \in Els(s)
    BY ONLY <1>4, <1>6, <2>1, q \in Nodes DEF Loose
  <2>2. CASE q \notin Els(s)
    <3>1. Loose(mem, q)
      BY <1>10, <2>2 DEF Stands, s
    <3> QED BY ONLY <1>4, <1>6, <2>2, <3>1, q \in Nodes DEF Loose
  <2> QED BY <2>1, <2>2
<1> HIDE DEF u
<1>11. Stands(mem2, cur, [S EXCEPT !["scratch"] = u])
  <2>1. PICK l \in Queues : l = "scratch"
    BY ONLY <1>1
  <2>2. Whole(mem2, l, u) /\ Elsewhere(mem, mem2, l)
    BY ONLY <1>7, <1>8, <2>1
  <2>3. \A k \in Lists \ {l} : \A q \in Els(S[k]) : q \notin Els(u) /\ mem2.next[q] = mem.next[q] /\ mem2.prev[q] = mem.prev[q]
    BY ONLY <1>9, <2>1
  <2>4. \A q \in Nodes : q \notin Els(u) /\ (\A k \in Lists \ {l} : q \notin Els(S[k])) => Loose(mem2, q)
    BY ONLY <1>10, <2>1
  <2>5. mem2 \in Mem /\ u \in Seq(Nodes)
    BY ONLY <1>6, <1>8
  <2>6. Stands(mem2, cur, [S EXCEPT ![l] = u])
    BY ONLY OneList, Stands(mem, cur, S), <2>2, <2>3, <2>4, <2>5, l \in Queues
  <2> QED BY ONLY <2>1, <2>6
<1> QED BY <1>11 DEF u

-------------------------------------------------------------------------------
(* The same changes in the words of ListSpec                                 *)

LEMMA RemoveAtIs ==
  ASSUME NEW s \in Seq(Nodes), NEW i \in 1..Len(s)
  PROVE  RemoveAt(s, i) = Cut(s, i)
<1> DEFINE a == SubSeq(s, 1, i - 1)
           c == SubSeq(s, i + 1, Len(s))
           n == Len(s)
<1>1. n \in Nat /\ i \in Nat /\ \A k \in 1..n : s[k] \in Nodes
  OBVIOUS
<1>2. a \in Seq(Nodes) /\ Len(a) = i - 1 /\ \A x \in 1..(i - 1) : a[x] = s[x]
  BY <1>1
<1>3. c \in Seq(Nodes) /\ Len(c) = n - i /\ \A x \in 1..(n - i) : c[x] = s[x + i]
  BY <1>1
<1> HIDE DEF a, c
<1>4. /\ a \o c \in Seq(Nodes) /\ Len(a \o c) = Len(a) + Len(c)
      /\ \A x \in 1..(Len(a) + Len(c)) : (a \o c)[x] = IF x <= Len(a) THEN a[x] ELSE c[x - Len(a)]
  BY ONLY <1>2, <1>3, ConcatProperties
<1> DEFINE e == a \o c
<1>5. e \in Seq(Nodes) /\ Len(e) = n - 1
  BY ONLY <1>1, <1>2, <1>3, <1>4
<1>6. ASSUME NEW x \in 1..(n - 1) PROVE e[x] = IF x < i THEN s[x] ELSE s[x + 1]
  <2>1. x \in 1..(Len(a) + Len(c)) /\ x \in Nat
    BY ONLY <1>1, <1>2, <1>3, x \in 1..(n - 1), i \in 1..Len(s)
  <2>2. e[x] = IF x <= Len(a) THEN a[x] ELSE c[x - Len(a)]
    BY ONLY <1>4, <2>1
  <2>3. CASE x < i
    BY ONLY <1>1, <1>2, <2>1, <2>2, <2>3
  <2>4. CASE ~(x < i)
    <3>1. x - Len(a) \in 1..(n - i) /\ (x - Len(a)) + i = x + 1 /\ ~(x <= Len(a))
      BY ONLY <1>1, <1>2, <2>1, <2>4, x \in 1..(n - 1)
    <3> QED BY ONLY <1>3, <2>2, <2>4, <3>1
  <2> QED BY <2>3, <2>4
<1> HIDE DEF e
<1>7. e = [x \in 1..(n - 1) |-> IF x < i THEN s[x] ELSE s[x + 1]]
  BY ONLY <1>5, <1>6
<1> QED BY <1>7 DEF RemoveAt, Cut, e, a, c

LEMMA AppendIs == ASSUME NEW s \in Seq(Nodes), NEW t \in Nodes PROVE Append(s, t) = Put(s, Len(s), t)
<1> DEFINE e == Append(s, t)
           n == Len(s)
<1>1. n \in Nat /\ e \in Seq(Nodes) /\ Len(e) = n + 1 /\ \A x \in 1..(n + 1) : e[x] = IF x = n + 1 THEN t ELSE s[x]
  OBVIOUS
<1> HIDE DEF e
<1>2. \A x \in 1..(n + 1) : e[x] = IF x <= n THEN s[x] ELSE IF x = n + 1 THEN t ELSE s[x - 1]
  BY ONLY <1>1
<1>3. e = [x \in 1..(n + 1) |-> IF x <= n THEN s[x] ELSE IF x = n + 1 THEN t ELSE s[x - 1]]
  BY ONLY <1>1, <1>2
<1> QED BY <1>3 DEF Put, e

LEMMA PrependIs == ASSUME NEW s \in Seq(Nodes), NEW t \in Nodes PROVE <<t>> \o s = Put(s, 0, t)
<1> DEFINE a == <<t>>
           n == Len(s)
           e == a \o s
<1>1. n \in Nat /\ a \in Seq(Nodes) /\ Len(a) = 1 /\ a[1] = t
  OBVIOUS
<1> HIDE DEF a
<1>2. /\ e \in Seq(Nodes) /\ Len(e) = Len(a) + Len(s)
      /\ \A x \in 1..(Len(a) + Len(s)) : e[x] = IF x <= Len(a) THEN a[x] ELSE s[x - Len(a)]
  BY ONLY <1>1, s \in Seq(Nodes), ConcatProperties
<1> HIDE DEF e
<1>3. e \in Seq(Nodes) /\ Len(e) = n + 1 /\ \A x \in 1..(n + 1) : e[x] = IF x <= 0 THEN s[x] ELSE IF x = 0 + 1 THEN t ELSE s[x - 1]
  BY ONLY <1>1, <1>2
<1>4. e = [x \in 1..(n + 1) |-> IF x <= 0 THEN s[x] ELSE IF x = 0 + 1 THEN t ELSE s[x - 1]]
  BY ONLY <1>3
<1> QED BY <1>4 DEF Put, e, a

LEMMA TailIs == ASSUME NEW s \in Seq(Nodes), s # << >> PROVE Tail(s) = Cut(s, 1) /\ Head(s) = s[1] /\ 1 \in 1..Len(s)
<1> DEFINE e == Tail(s)
           n == Len(s)
<1>1. n \in Nat /\ n >= 1 /\ e \in Seq(Nodes) /\ Len(e) = n - 1 /\ \A x \in 1..(n - 1) : e[x] = s[x + 1]
  OBVIOUS
<1> HIDE DEF e
<1>2. e = [x \in 1..(n - 1) |-> IF x < 1 THEN s[x] ELSE s[x + 1]]
  BY ONLY <1>1
<1> QED BY <1>1, <1>2 DEF Cut, e

LEMMA ReplaceIs ==
  ASSUME NEW s \in Seq(Nodes), Distinct(s), NEW i \in 1..Len(s), NEW t \in Nodes
  PROVE  [x \in DOMAIN s |-> IF s[x] = s[i] THEN t ELSE s[x]] = Swap(s, i, t)
<1>1. DOMAIN s = 1..Len(s)
  OBVIOUS
<1>2. \A x \in 1..Len(s) : s[x] = s[i] <=> x = i
  BY DEF Distinct
<1> QED BY ONLY <1>1, <1>2 DEF Swap
-------------------------------------------------------------------------------
(* The invariant: the lists stand as they are read, and only those of the    *)
(* structures this behaviour is about hold anything                          *)

Kind(l) ==
  IF l \in Wakers THEN "items" ELSE IF l \in {"tasks", "cleanup"} THEN "tasks" ELSE l

Meant(u, S) == \A l \in Lists : S[l] # << >> => u = Kind(l)

Stood == Stands(m, cursor, Contents) /\ Meant(use, Contents)

LEMMA Held ==
  ASSUME Stood
  PROVE  /\ m \in Mem /\ cursor \in [Wakers -> Nodes \cup {Nil}] /\ Contents \in [Lists -> Seq(Nodes)]
         /\ \A l \in Queues : Forward(l) = Contents[l] /\ m.head[l] = Place(Contents[l], 1)
         /\ \A l \in Lists : Distinct(Contents[l]) /\ Abstract!On(l) = Els(Contents[l])
         /\ \A l \in Queues : ToSet(Forward(l)) = Els(Contents[l])
         /\ \A w \in Wakers : ToSet(Ahead(w)) = Els(Contents[w])
<1>1. Stands(m, cursor, Contents)
  BY DEF Stood
<1>2. /\ m \in Mem /\ cursor \in [Wakers -> Nodes \cup {Nil}] /\ Contents \in [Lists -> Seq(Nodes)]
      /\ \A l \in Queues : m.head[l] = Place(Contents[l], 1) /\ Distinct(Contents[l])
      /\ \A w \in Wakers : Distinct(Contents[w])
  BY <1>1 DEF Stands, Whole, Chain, Distinct
<1>3. /\ \A l \in Queues : Forward(l) = Contents[l]
      /\ \A w \in Wakers : Ahead(w) = Contents[w]
  BY <1>1, ReadIs DEF Forward, ForwardOf, Ahead
<1>4. ASSUME NEW s \in Seq(Nodes) PROVE ToSet(s) = Els(s) /\ { s[i] : i \in DOMAIN s } = Els(s)
  BY DEF ToSet, Els
<1>5. ASSUME NEW l \in Lists PROVE Contents[l] \in Seq(Nodes) /\ Abstract!On(l) = Els(Contents[l])
  BY <1>2, <1>4 DEF Abstract!On
<1>6. Queues \subseteq Lists /\ Wakers \subseteq Lists /\ Lists = Queues \cup Wakers
  BY DEF Lists
<1> QED BY <1>2, <1>3, <1>4, <1>5, <1>6

LEMMA OffLists ==
  ASSUME Stood, NEW t \in Nodes
  PROVE  /\ ~Linked(t) <=> \A k \in Lists : t \notin Els(Contents[k])
         /\ Abstract!Free(t) <=> \A k \in Lists : t \notin Els(Contents[k])
<1>1. Lists = Queues \cup Wakers
  BY DEF Lists
<1> QED BY <1>1, Held DEF Linked, Abstract!Free

\* A step that makes the lists T keeps the invariant.
LEMMA StoodAfter ==
  ASSUME Stood, NEW x, Using(x), NEW T, Stands(m', cursor', T), \A l \in Lists : T[l] # Contents[l] => x = Kind(l)
  PROVE  Contents' = T /\ Stood'
<1>1. Contents' = T
  BY ReadIs, Read
<1>2. Meant(use', T)
  <2>1. ASSUME NEW l \in Lists, T[l] # << >> PROVE use' = Kind(l)
    <3>1. CASE T[l] = Contents[l]
      <4>1. use = Kind(l) /\ use # "none"
        BY <2>1, <3>1 DEF Stood, Meant, Kind, Lists, Queues
      <4> QED BY <4>1 DEF Using
    <3>2. CASE T[l] # Contents[l]
      BY <3>2 DEF Using
    <3> QED BY <3>1, <3>2
  <2> QED BY <2>1 DEF Meant
<1> QED BY <1>1, <1>2 DEF Stood

LEMMA StoodOne ==
  ASSUME Stood, NEW l \in Lists, Using(Kind(l)), NEW s, Stands(m', cursor', [Contents EXCEPT ![l] = s])
  PROVE  Contents' = [Contents EXCEPT ![l] = s] /\ Stood'
<1>1. \A k \in Lists : [Contents EXCEPT ![l] = s][k] # Contents[k] => Kind(l) = Kind(k)
  BY Held
<1> QED BY <1>1, StoodAfter

LEMMA StoodStill ==
  ASSUME Stood, NEW x, Using(x), UNCHANGED <<m, cursor>>
  PROVE  Contents' = Contents /\ Stood'
<1>1. Stands(m', cursor', Contents)
  BY DEF Stood
<1> QED BY <1>1, StoodAfter

LEMMA KindsOf ==
  /\ \A l \in Queues \cup Wakers : l \in Lists
  /\ "tasks" \in Queues /\ "cleanup" \in Queues /\ "items" \in Queues /\ "sleepers" \in Queues /\ "scratch" \in Queues
  /\ Kind("tasks") = "tasks" /\ Kind("cleanup") = "tasks" /\ Kind("items") = "items"
  /\ Kind("sleepers") = "sleepers" /\ Kind("scratch") = "scratch"
  /\ \A w \in Wakers : w \notin Queues /\ Kind(w) = "items"
BY LinksAssumption DEF Lists, Queues, Kind

-------------------------------------------------------------------------------
(* Steps of ListSpec that leave with one sequence changed                    *)

LEMMA AbsAdd ==
  ASSUME Stood, NEW l \in Queues, NEW t \in Nodes, ~Linked(t), answer' = << >>,
         Contents' = [Contents EXCEPT ![l] = Put(@, IF l = "scratch" THEN 0 ELSE Len(@), t)]
  PROVE  Abstract!Next
<1>1. Contents[l] \in Seq(Nodes)
  BY Held, KindsOf
<1>2. Abstract!Free(t)
  BY OffLists
<1>3. Put(Contents[l], IF l = "scratch" THEN 0 ELSE Len(Contents[l]), t)
        = IF l \in {"scratch"} THEN <<t>> \o Contents[l] ELSE Append(Contents[l], t)
  BY <1>1, AppendIs, PrependIs
<1>4. Contents' = [Contents EXCEPT ![l] = IF l \in {"scratch"} THEN <<t>> \o @ ELSE Append(@, t)]
  BY ONLY <1>3, Contents' = [Contents EXCEPT ![l] = Put(@, IF l = "scratch" THEN 0 ELSE Len(@), t)]
<1>5. Abstract!Add(l, t)
  BY <1>2, <1>4 DEF Abstract!Add
<1> QED BY <1>5 DEF Abstract!Next

LEMMA AbsLeave ==
  ASSUME Stood, NEW l \in Queues, NEW i \in 1..Len(Contents[l]), answer' = << >>,
         Contents' = [Contents EXCEPT ![l] = Cut(@, i)]
  PROVE  Abstract!Next
<1>1. Contents[l] \in Seq(Nodes)
  BY Held, KindsOf
<1>2. i \in DOMAIN Contents[l] /\ Contents[l][i] \in Nodes /\ RemoveAt(Contents[l], i) = Cut(Contents[l], i)
  BY <1>1, RemoveAtIs
<1>3. Contents' = [Contents EXCEPT ![l] = RemoveAt(@, i)]
  BY ONLY <1>2, Contents' = [Contents EXCEPT ![l] = Cut(@, i)]
<1>4. \E k \in DOMAIN Contents[l] :
        Contents[l][k] = Contents[l][i] /\ Contents' = [Contents EXCEPT ![l] = RemoveAt(@, k)]
  BY ONLY <1>2, <1>3
<1>5. Abstract!Leave(l, Contents[l][i])
  BY ONLY <1>4, answer' = << >> DEF Abstract!Leave, RemoveAt, Abstract!RemoveAt
<1> QED BY <1>2, <1>5 DEF Abstract!Next

\* A node that is not on the list, or takes its own place.
LEMMA AbsStill ==
  ASSUME Stood, NEW l \in Queues, NEW t \in Nodes \ Els(Contents[l]), answer' = << >>, Contents' = Contents
  PROVE  Abstract!Next
<1>1. t \notin Abstract!On(l)
  BY Held, KindsOf
<1>2. Abstract!Leave(l, t)
  BY <1>1 DEF Abstract!Leave
<1> QED BY <1>2 DEF Abstract!Next

LEMMA AbsTake ==
  ASSUME Stood, NEW l \in {"tasks", "items"} \cup Wakers, Contents[l] # << >>,
         answer' = <<Contents[l][1]>>, Contents' = [Contents EXCEPT ![l] = Cut(@, 1)]
  PROVE  Abstract!Next
<1>1. Contents[l] \in Seq(Nodes) /\ l \in (Queues \cup Wakers) \ {"cleanup", "sleepers", "scratch"}
  BY Held, KindsOf
<1>2. Tail(Contents[l]) = Cut(Contents[l], 1) /\ Head(Contents[l]) = Contents[l][1]
  BY <1>1, TailIs
<1>3. Contents' = [Contents EXCEPT ![l] = Tail(@)] /\ answer' = <<Head(Contents[l])>>
  BY ONLY <1>2, Contents' = [Contents EXCEPT ![l] = Cut(@, 1)], answer' = <<Contents[l][1]>>
<1>4. Abstract!Take(l)
  BY <1>3 DEF Abstract!Take
<1> QED BY <1>1, <1>4 DEF Abstract!Next

LEMMA AbsTakeNone ==
  ASSUME Stood, NEW l \in {"tasks", "items"}, Contents[l] = << >>, answer' = << >>, Contents' = Contents
  PROVE  Abstract!Next
<1>1. l \in (Queues \cup Wakers) \ {"cleanup", "sleepers", "scratch"}
  BY KindsOf
<1>2. Abstract!Take(l)
  BY DEF Abstract!Take
<1> QED BY <1>1, <1>2 DEF Abstract!Next

LEMMA AbsSweep ==
  ASSUME Stood, NEW l \in {"cleanup", "sleepers", "scratch"}, NEW gone \in SUBSET Nodes,
         answer' = Abstract!Chosen(Contents[l], gone),
         Contents' = [Contents EXCEPT ![l] = Abstract!Chosen(Contents[l], Nodes \ gone)]
  PROVE  Abstract!Next
<1>1. Abstract!Sweep(l, gone)
  BY DEF Abstract!Sweep
<1> QED BY <1>1 DEF Abstract!Next

LEMMA AbsReplace ==
  ASSUME Stood, NEW i \in 1..Len(Contents["scratch"]), NEW n \in Nodes, ~Linked(n), answer' = << >>,
         Contents' = [Contents EXCEPT !["scratch"] = Swap(@, i, n)]
  PROVE  Abstract!Next
<1> DEFINE s == Contents["scratch"]
<1>1. s \in Seq(Nodes) /\ Distinct(s) /\ Abstract!On("scratch") = Els(s)
  BY Held, KindsOf
<1>2. s[i] \in Nodes /\ s[i] \in Els(s)
  BY <1>1 DEF Els
<1>3. [x \in DOMAIN s |-> IF s[x] = s[i] THEN n ELSE s[x]] = Swap(s, i, n)
  BY <1>1, ReplaceIs
<1>4. Contents' = [Contents EXCEPT !["scratch"] = [x \in DOMAIN @ |-> IF @[x] = s[i] THEN n ELSE @[x]]]
  BY ONLY <1>3, Contents' = [Contents EXCEPT !["scratch"] = Swap(@, i, n)]
<1>5. Abstract!Free(n)
  BY OffLists
<1>6. Abstract!Replace("scratch", s[i], n)
  BY <1>1, <1>2, <1>4, <1>5 DEF Abstract!Replace
<1> QED BY <1>2, <1>6 DEF Abstract!Next

LEMMA AbsDetach ==
  ASSUME Stood, NEW w \in Wakers, Contents[w] = << >>, answer' = << >>,
         Contents' = [Contents EXCEPT ![w] = Contents["items"], !["items"] = << >>]
  PROVE  Abstract!Next
<1>1. Abstract!Detach("items", w)
  BY DEF Abstract!Detach
<1> QED BY <1>1, KindsOf DEF Abstract!Next

-------------------------------------------------------------------------------
(* Every operation keeps the invariant and is a step of ListSpec             *)

LEMMA LastStep ==
  ASSUME Stood, NEW l \in Queues \ {"scratch"}, NEW t \in Nodes, ~Linked(t), Using(Kind(l)), UNCHANGED cursor, answer' = << >>,
         NEW mem, Stands(mem, cursor, Contents),
         m' = IF l = "items" THEN link_last(mem, l, t) ELSE counted(link_last(mem, l, t), l, 1)
  PROVE  Stood' /\ Abstract!Next
<1>1. \A k \in Lists : t \notin Els(Contents[k])
  BY OffLists
<1>2. Stands(m', cursor, [Contents EXCEPT ![l] = Put(Contents[l], Len(Contents[l]), t)])
  BY <1>1, LastIn
<1>3. Stands(m', cursor', [Contents EXCEPT ![l] = Put(Contents[l], Len(Contents[l]), t)])
  BY ONLY <1>2, UNCHANGED cursor
<1>4. Stood' /\ Contents' = [Contents EXCEPT ![l] = Put(Contents[l], Len(Contents[l]), t)]
  BY <1>3, KindsOf, StoodOne
<1>5. Contents' = [Contents EXCEPT ![l] = Put(@, IF l = "scratch" THEN 0 ELSE Len(@), t)]
  BY ONLY <1>4, l \in Queues \ {"scratch"}
<1>6. Abstract!Next
  BY <1>5, AbsAdd
<1> QED BY <1>4, <1>6

LEMMA StepEnqueue ==
  ASSUME Stood, NEW l \in {"tasks", "cleanup"}, NEW t \in Nodes, enqueue(l, t)
  PROVE  Stood' /\ Abstract!Next
<1>1. l \in Queues \ {"scratch"} /\ l # "items" /\ Kind(l) = "tasks"
  BY KindsOf
<1>2. Using(Kind(l)) /\ ~Linked(t) /\ m' = counted(link_last(m, l, t), l, 1) /\ answer' = << >> /\ UNCHANGED cursor
  BY <1>1 DEF enqueue
<1>3. Stands(m, cursor, Contents)
  BY DEF Stood
<1> QED BY <1>1, <1>2, <1>3, LastStep

LEMMA StepSleeper ==
  ASSUME Stood, NEW t \in Nodes, sleeperlist_add(t)
  PROVE  Stood' /\ Abstract!Next
<1> DEFINE l == "sleepers"
<1>1. l \in Queues \ {"scratch"} /\ l # "items" /\ Kind(l) = "sleepers"
  BY KindsOf
<1>2. Using(Kind(l)) /\ ~Linked(t) /\ m' = counted(link_last(m, l, t), l, 1) /\ answer' = << >> /\ UNCHANGED cursor
  BY <1>1 DEF sleeperlist_add
<1>3. Stands(m, cursor, Contents)
  BY DEF Stood
<1> HIDE DEF l
<1> QED BY <1>1, <1>2, <1>3, LastStep

LEMMA StepWait ==
  ASSUME Stood, NEW t \in Nodes, waitqueue_add(t)
  PROVE  Stood' /\ Abstract!Next
<1> DEFINE l == "items"
           mem == cleared(m, t)
<1>1. l \in Queues \ {"scratch"} /\ l = "items" /\ Kind(l) = "items"
  BY KindsOf
<1>2. Using(Kind(l)) /\ ~Linked(t) /\ m' = link_last(mem, l, t) /\ answer' = << >> /\ UNCHANGED cursor
  BY <1>1 DEF waitqueue_add
<1>3. Stands(mem, cursor, Contents)
  BY <1>2, OffLists, ClearedStands DEF Stood
<1> HIDE DEF l, mem
<1> QED BY <1>1, <1>2, <1>3, LastStep

\* What a node on a list is there.
LEMMA PlaceOf ==
  ASSUME Stood, NEW l \in Queues, NEW t \in ToSet(Forward(l))
  PROVE  /\ \E i \in 1..Len(Contents[l]) : t = Contents[l][i]
         /\ Stands(m, cursor, Contents)
BY Held DEF Els, Stood

\* A node leaves a list and is not freed.
LEMMA ClearedStep ==
  ASSUME Stood, NEW l \in Queues, NEW i \in 1..Len(Contents[l]), NEW t, t = Contents[l][i], Using(Kind(l)), UNCHANGED cursor,
         m' = IF l \in {"scratch", "items"} THEN cleared(unlink(m, l, t), t) ELSE counted(cleared(unlink(m, l, t), t), l, -1)
  PROVE  Stood' /\ Contents' = [Contents EXCEPT ![l] = Cut(@, i)]
<1>1. Stands(m', cursor, [Contents EXCEPT ![l] = Cut(Contents[l], i)])
  BY ClearedOut DEF Stood
<1>2. Stands(m', cursor', [Contents EXCEPT ![l] = Cut(Contents[l], i)])
  BY ONLY <1>1, UNCHANGED cursor
<1> QED BY <1>2, KindsOf, StoodOne

LEMMA StepRemove ==
  ASSUME Stood, NEW t \in Nodes, runqueue_remove(t)
  PROVE  Stood' /\ Abstract!Next
<1> DEFINE l == "tasks"
<1>1. l \in Queues /\ l \notin {"scratch", "items"} /\ Kind(l) = "tasks"
  BY KindsOf
<1>2. /\ Using(Kind(l)) /\ t \in ToSet(Forward(l)) /\ answer' = << >> /\ UNCHANGED cursor
      /\ m' = counted(cleared(unlink(m, l, t), t), l, -1)
  BY <1>1 DEF runqueue_remove
<1> HIDE DEF l
<1>3. PICK i \in 1..Len(Contents[l]) : t = Contents[l][i]
  BY <1>1, <1>2, PlaceOf
<1>4. Stood' /\ Contents' = [Contents EXCEPT ![l] = Cut(@, i)]
  BY <1>1, <1>2, <1>3, ClearedStep
<1>5. Abstract!Next
  BY <1>1, <1>2, <1>4, AbsLeave
<1> QED BY <1>4, <1>5

\* The first of a list, if any, is taken off.
LEMMA FirstStep ==
  ASSUME Stood, NEW l \in {"tasks", "items"}, Using(Kind(l)), UNCHANGED cursor,
         IF m.head[l] = Nil
           THEN answer' = << >> /\ UNCHANGED m
           ELSE /\ m' = IF l = "items" THEN unlink_first(m, l) ELSE counted(unlink_first(m, l), l, -1)
                /\ answer' = <<m.head[l]>>
  PROVE  Stood' /\ Abstract!Next
<1>1. l \in Queues /\ (l \in {"scratch", "items"} <=> l = "items") /\ Contents[l] \in Seq(Nodes) /\ m.head[l] = Place(Contents[l], 1)
  BY Held, KindsOf
<1>2. m.head[l] = Nil <=> Contents[l] = << >>
  BY <1>1, AtType
<1>3. CASE Contents[l] = << >>
  <2>1. answer' = << >> /\ UNCHANGED <<m, cursor>>
    BY <1>2, <1>3
  <2>2. Contents' = Contents /\ Stood'
    BY <2>1, StoodStill
  <2> QED BY <1>3, <2>1, <2>2, AbsTakeNone
<1>4. CASE Contents[l] # << >>
  <2>1. 1 \in 1..Len(Contents[l]) /\ m.head[l] = Contents[l][1]
        /\ unlink_first(m, l) = cleared(unlink(m, l, Contents[l][1]), Contents[l][1])
    BY <1>1, <1>4, FirstIs DEF Stood
  <2>2. /\ m' = IF l \in {"scratch", "items"} THEN cleared(unlink(m, l, Contents[l][1]), Contents[l][1])
                 ELSE counted(cleared(unlink(m, l, Contents[l][1]), Contents[l][1]), l, -1)
        /\ answer' = <<Contents[l][1]>>
    BY <1>1, <1>2, <1>4, <2>1
  <2>3. Stood' /\ Contents' = [Contents EXCEPT ![l] = Cut(@, 1)]
    BY <1>1, <2>1, <2>2, ClearedStep
  <2> QED BY <1>4, <2>2, <2>3, AbsTake
<1> QED BY <1>3, <1>4

LEMMA StepDequeue ==
  ASSUME Stood, runqueue_dequeue
  PROVE  Stood' /\ Abstract!Next
<1> DEFINE l == "tasks"
<1>1. l \in {"tasks", "items"} /\ Using(Kind(l)) /\ UNCHANGED cursor
      /\ IF m.head[l] = Nil
           THEN answer' = << >> /\ UNCHANGED m
           ELSE /\ m' = IF l = "items" THEN unlink_first(m, l) ELSE counted(unlink_first(m, l), l, -1)
                /\ answer' = <<m.head[l]>>
  BY KindsOf DEF runqueue_dequeue
<1> HIDE DEF l
<1> QED BY <1>1, FirstStep

LEMMA StepWakeOne ==
  ASSUME Stood, wake_one
  PROVE  Stood' /\ Abstract!Next
<1> DEFINE l == "items"
<1>1. l \in {"tasks", "items"} /\ Using(Kind(l)) /\ UNCHANGED cursor
      /\ IF m.head[l] = Nil
           THEN answer' = << >> /\ UNCHANGED m
           ELSE /\ m' = IF l = "items" THEN unlink_first(m, l) ELSE counted(unlink_first(m, l), l, -1)
                /\ answer' = <<m.head[l]>>
  BY KindsOf DEF wake_one
<1> HIDE DEF l
<1> QED BY <1>1, FirstStep

\* A sweep takes a set of nodes off.
LEMMA SweepStep ==
  ASSUME Stood, NEW l \in {"cleanup", "sleepers"}, NEW gone \in SUBSET Nodes, Using(Kind(l)), UNCHANGED cursor,
         m' = sweep(m, l, gone).mem, answer' = sweep(m, l, gone).out
  PROVE  Stood' /\ Abstract!Next
<1>0. Stands(m, cursor, Contents)
  BY DEF Stood
<1>1. /\ Stands(sweep(m, l, gone).mem, cursor, Without(Contents, l, gone))
      /\ sweep(m, l, gone).out = Abstract!Chosen(Contents[l], gone)
  <2>1. Sweeps(l, gone)
    BY DEF Sweeps
  <2> QED BY ONLY <1>0, <2>1, SweepIs
<1>2. Stands(m', cursor', [Contents EXCEPT ![l] = Abstract!Chosen(Contents[l], Nodes \ gone)])
  BY ONLY <1>1, UNCHANGED cursor, m' = sweep(m, l, gone).mem DEF Without
<1>3. Stood' /\ Contents' = [Contents EXCEPT ![l] = Abstract!Chosen(Contents[l], Nodes \ gone)]
  BY <1>2, KindsOf, StoodOne
<1>4. l \in {"cleanup", "sleepers", "scratch"} /\ answer' = Abstract!Chosen(Contents[l], gone)
  BY <1>1
<1>5. Abstract!Next
  BY <1>3, <1>4, AbsSweep
<1> QED BY <1>3, <1>5

LEMMA StepCleanup ==
  ASSUME Stood, NEW gone \in SUBSET Nodes, scheduler_cleanup(gone)
  PROVE  Stood' /\ Abstract!Next
<1> DEFINE l == "cleanup"
<1>1. l \in {"cleanup", "sleepers"} /\ Using(Kind(l)) /\ UNCHANGED cursor
      /\ m' = sweep(m, l, gone).mem /\ answer' = sweep(m, l, gone).out
  BY KindsOf DEF scheduler_cleanup
<1> HIDE DEF l
<1> QED BY <1>1, SweepStep

LEMMA StepTick ==
  ASSUME Stood, NEW due \in SUBSET Nodes, sleeperlist_tick(due)
  PROVE  Stood' /\ Abstract!Next
<1> DEFINE l == "sleepers"
<1>1. l \in {"cleanup", "sleepers"} /\ Using(Kind(l)) /\ UNCHANGED cursor
      /\ m' = sweep(m, l, due).mem /\ answer' = sweep(m, l, due).out
  BY KindsOf DEF sleeperlist_tick
<1> HIDE DEF l
<1> QED BY <1>1, SweepStep

\* An item that is on no list has links that say so, and is left alone.
LEMMA StepDel ==
  ASSUME Stood, NEW t \in Nodes, waitqueue_del(t)
  PROVE  Stood' /\ Abstract!Next
<1> DEFINE l == "items"
<1>1. l \in Queues /\ l \in {"scratch", "items"} /\ Kind(l) = "items"
  BY KindsOf
<1>2. /\ Using(Kind(l)) /\ m.prev[t] # Dangling /\ answer' = << >> /\ UNCHANGED cursor
      /\ \A w \in Wakers : t \notin Els(Contents[w])
      /\ m' = IF m.prev[t] = Nil /\ m.next[t] = Nil /\ m.head[l] # t
                THEN m ELSE cleared(unlink(m, l, t), t)
  BY <1>1, Held DEF waitqueue_del
<1>3. \A k \in Queues \ {l} : Contents[k] = << >>
  <2>1. \A k \in Queues \ {l} : k \in Lists /\ Kind(k) # "items" /\ Kind(k) # "none"
    BY LinksAssumption DEF Kind, Queues, Lists
  <2> QED BY <1>1, <1>2, <2>1 DEF Stood, Meant, Using
<1>4. Contents[l] \in Seq(Nodes) /\ Distinct(Contents[l]) /\ m.head[l] = Place(Contents[l], 1) /\ m \in Mem
  BY <1>1, Held, KindsOf
<1>5. \A k \in Queues \ {l} : t \notin Els(Contents[k])
  BY <1>3 DEF Els
<1> HIDE DEF l
<1>6. CASE t \in Els(Contents[l])
  <2>1. PICK i \in 1..Len(Contents[l]) : t = Contents[l][i]
    BY <1>6 DEF Els
  <2>2. /\ m.prev[t] = Place(Contents[l], i - 1) /\ m.next[t] = Place(Contents[l], i + 1)
        /\ (Place(Contents[l], i - 1) = Nil <=> i = 1) /\ m.head[l] = Place(Contents[l], 1) /\ t = Place(Contents[l], i)
    BY <1>1, <2>1, LinksOf DEF Stood
  <2>3. m' = cleared(unlink(m, l, t), t)
    BY <1>2, <2>2
  <2>4. Stood' /\ Contents' = [Contents EXCEPT ![l] = Cut(@, i)]
    BY <1>1, <1>2, <2>1, <2>3, ClearedStep
  <2> QED BY <1>1, <1>2, <2>4, AbsLeave
<1>7. CASE t \notin Els(Contents[l])
  <2>1. \A k \in Lists : t \notin Els(Contents[k])
    BY <1>2, <1>5, <1>7 DEF Lists
  <2>2. Loose(m, t)
    BY <2>1 DEF Stood, Stands
  <2>3. m.prev[t] = Nil /\ m.next[t] = Nil
    BY <1>2, <2>2 DEF Loose
  <2>4. m.head[l] # t
    <3>1. \/ Place(Contents[l], 1) = Nil
          \/ Place(Contents[l], 1) \in Els(Contents[l])
      BY <1>4, AtType
    <3> QED BY <1>4, <1>7, <3>1, LinksAssumption
  <2>5. UNCHANGED <<m, cursor>>
    BY <1>2, <2>3, <2>4
  <2>6. Contents' = Contents /\ Stood'
    BY <1>2, <2>5, StoodStill
  <2> QED BY <1>1, <1>2, <1>7, <2>6, AbsStill
<1> QED BY <1>6, <1>7

LEMMA StepWakeAll ==
  ASSUME Stood, NEW w \in Wakers, waitqueue_wake_all(w)
  PROVE  Stood' /\ Abstract!Next
<1> DEFINE T == Moved(Contents, w)
<1>1. /\ Using("items") /\ cursor[w] = Nil /\ answer' = << >>
      /\ cursor' = [cursor EXCEPT ![w] = m.head["items"]]
      /\ m' = [m EXCEPT !.head["items"] = Nil, !.tail["items"] = Nil]
  BY DEF waitqueue_wake_all
<1>2. Contents[w] = << >> /\ Stands(m', cursor', T)
  <2>1. Stands(m, cursor, Contents)
    BY DEF Stood
  <2>2. Contents[w] = << >> /\ Stands(Emptied(m), [cursor EXCEPT ![w] = m.head["items"]], T)
    BY ONLY <1>1, <2>1, DetachedIn, w \in Wakers
  <2>3. m' = Emptied(m)
    BY ONLY <1>1 DEF Emptied
  <2> HIDE DEF T
  <2> QED BY ONLY <1>1, <2>2, <2>3
<1>3. \A k \in Lists : T[k] # Contents[k] => "items" = Kind(k)
  BY Held, KindsOf DEF Moved
<1> HIDE DEF T
<1>4. Contents' = T /\ Stood'
  <2>1. PICK x : x = "items"
    OBVIOUS
  <2>2. Using(x) /\ \A k \in Lists : T[k] # Contents[k] => x = Kind(k)
    BY ONLY <1>1, <1>3, <2>1
  <2> QED BY ONLY <1>2, <2>2, StoodAfter, Stood
<1>5. Contents' = [Contents EXCEPT ![w] = Contents["items"], !["items"] = << >>]
  BY ONLY <1>4 DEF T, Moved
<1>6. Abstract!Next
  BY ONLY <1>1, <1>2, <1>5, AbsDetach, Stood, w \in Wakers
<1> QED BY <1>4, <1>6

LEMMA StepWake ==
  ASSUME Stood, NEW w \in Wakers, wake_detached(w)
  PROVE  Stood' /\ Abstract!Next
<1>1. /\ Using(Kind(w)) /\ cursor[w] # Nil /\ answer' = <<cursor[w]>>
      /\ cursor' = [cursor EXCEPT ![w] = m.next[cursor[w]]] /\ m' = cleared(m, cursor[w])
  BY KindsOf DEF wake_detached
<1>2. /\ Contents[w] # << >> /\ Head(Contents[w]) = cursor[w]
      /\ Stands(m', cursor', [Contents EXCEPT ![w] = Tail(@)])
  <2>1. Stands(m, cursor, Contents)
    BY DEF Stood
  <2>2. /\ Contents[w] # << >> /\ Head(Contents[w]) = cursor[w]
        /\ Stands(cleared(m, cursor[w]), [cursor EXCEPT ![w] = m.next[cursor[w]]], [Contents EXCEPT ![w] = Tail(@)])
    BY ONLY <1>1, <2>1, WokenOut, w \in Wakers
  <2> QED BY ONLY <1>1, <2>2
<1>3. Stood' /\ Contents' = [Contents EXCEPT ![w] = Tail(@)]
  BY <1>1, <1>2, KindsOf, StoodOne
<1>4. Contents[w] \in Seq(Nodes)
  BY Held, KindsOf
<1>5. Tail(Contents[w]) = Cut(Contents[w], 1) /\ Head(Contents[w]) = Contents[w][1]
  BY <1>2, <1>4, TailIs
<1>6. answer' = <<Contents[w][1]>> /\ Contents' = [Contents EXCEPT ![w] = Cut(@, 1)]
  BY ONLY <1>1, <1>2, <1>3, <1>5
<1>7. Abstract!Next
  BY <1>2, <1>6, AbsTake
<1> QED BY <1>3, <1>7

LEMMA StepAllocate ==
  ASSUME Stood, NEW t \in Nodes, scratch_allocate(t)
  PROVE  Stood' /\ Abstract!Next
<1> DEFINE l == "scratch"
           mem == cleared(m, t)
           h == m.head["scratch"]
           s == Contents[l]
<1>1. /\ Using("scratch") /\ ~Linked(t) /\ answer' = << >> /\ UNCHANGED cursor
      /\ m' = IF h = Nil THEN [mem EXCEPT !.head["scratch"] = t]
              ELSE [mem EXCEPT !.next[t] = h, !.prev[h] = t, !.head["scratch"] = t]
  BY DEF scratch_allocate
<1>2. \A k \in Lists : t \notin Els(Contents[k])
  BY <1>1, OffLists
<1>3. Stands(mem, cursor, Contents)
  BY <1>2, ClearedStands DEF Stood
<1>4. m \in Mem
  BY Held
<1>5. /\ mem.prev[t] = Nil /\ mem.next[t] = Nil /\ mem.head = m.head
  <2>1. m.prev \in [Nodes -> Ptrs] /\ m.next \in [Nodes -> Ptrs]
    BY ONLY <1>4 DEF Mem
  <2>2. /\ mem.prev = [m.prev EXCEPT ![t] = Nil] /\ mem.next = [m.next EXCEPT ![t] = Nil] /\ mem.head = m.head
    BY ONLY <1>4, ClearedIs, t \in Nodes
  <2> HIDE DEF mem
  <2> QED BY ONLY <2>1, <2>2, t \in Nodes
<1>6. h = mem.head["scratch"]
  BY <1>5
<1> HIDE DEF mem, h
<1>7. PICK mem2 : mem2 = Fronted(mem, h, t)
  OBVIOUS
<1>8. Stands(mem2, cursor, [Contents EXCEPT !["scratch"] = Put(Contents["scratch"], 0, t)])
  BY ONLY <1>2, <1>3, <1>5, <1>6, <1>7, t \in Nodes, FrontIn
<1>9. m' = mem2
  BY ONLY <1>1, <1>7 DEF Fronted
<1>10. l \in Queues /\ l = "scratch" /\ Using(Kind(l))
  BY <1>1, KindsOf
<1>11. Stands(m', cursor', [Contents EXCEPT ![l] = Put(s, 0, t)])
  BY ONLY <1>1, <1>8, <1>9 DEF l, s
<1> HIDE DEF l
<1>12. Stood' /\ Contents' = [Contents EXCEPT ![l] = Put(s, 0, t)]
  BY <1>10, <1>11, KindsOf, StoodOne
<1>13. Contents' = [Contents EXCEPT ![l] = Put(@, IF l = "scratch" THEN 0 ELSE Len(@), t)]
  BY ONLY <1>10, <1>12 DEF s
<1>14. Abstract!Next
  BY <1>1, <1>10, <1>13, AbsAdd
<1> QED BY <1>12, <1>14

LEMMA StepDeallocate ==
  ASSUME Stood, NEW t \in Nodes, scratch_deallocate(t)
  PROVE  Stood' /\ Abstract!Next
<1> DEFINE l == "scratch"
<1>1. /\ Using("scratch") /\ t \in ToSet(Forward("scratch")) /\ answer' = << >> /\ UNCHANGED cursor
      /\ m' = joined(freed(m, t), "scratch", m.prev[t], m.next[t], m.next[t], m.prev[t])
  BY DEF scratch_deallocate
<1>2. PICK i \in 1..Len(Contents["scratch"]) : t = Contents["scratch"][i]
  BY <1>1, KindsOf, PlaceOf
<1>3. Stands(m, cursor, Contents)
  BY DEF Stood
<1>4. PICK mem2 : mem2 = joined(freed(m, t), "scratch", m.prev[t], m.next[t], m.next[t], m.prev[t])
  OBVIOUS
<1>5. Stands(mem2, cursor, [Contents EXCEPT !["scratch"] = Cut(Contents["scratch"], i)])
  BY ONLY <1>2, <1>3, <1>4, DeallocatedOut
<1>6. l \in Queues /\ l = "scratch" /\ Using(Kind(l))
  BY <1>1, KindsOf
<1>7. Stands(m', cursor', [Contents EXCEPT ![l] = Cut(Contents[l], i)])
  BY ONLY <1>1, <1>4, <1>5 DEF l
<1>8. i \in 1..Len(Contents[l])
  BY ONLY <1>2 DEF l
<1> HIDE DEF l
<1>9. Stood' /\ Contents' = [Contents EXCEPT ![l] = Cut(@, i)]
  BY <1>6, <1>7, KindsOf, StoodOne
<1>10. Abstract!Next
  BY <1>1, <1>6, <1>8, <1>9, AbsLeave
<1> QED BY <1>9, <1>10

\* A block that keeps its place is a step in which nothing changes.
LEMMA SwapSame ==
  ASSUME NEW s \in Seq(Nodes), NEW i \in 1..Len(s)
  PROVE  Swap(s, i, s[i]) = s
BY DEF Swap

LEMMA StepReallocate ==
  ASSUME Stood, NEW t \in Nodes, NEW n \in Nodes, scratch_reallocate(t, n)
  PROVE  Stood' /\ Abstract!Next
<1> DEFINE l == "scratch"
           f == IF n = t THEN m ELSE freed([m EXCEPT !.prev[n] = m.prev[t], !.next[n] = m.next[t]], t)
<1>1. /\ Using("scratch") /\ t \in ToSet(Forward("scratch")) /\ (n = t \/ ~Linked(n)) /\ answer' = << >> /\ UNCHANGED cursor
      /\ m' = joined(f, "scratch", m.prev[t], m.next[t], n, n)
  BY DEF scratch_reallocate
<1>2. PICK i \in 1..Len(Contents["scratch"]) : t = Contents["scratch"][i]
  BY <1>1, KindsOf, PlaceOf
<1>3. Stands(m, cursor, Contents)
  BY DEF Stood
<1>4. n = t \/ \A k \in Lists : n \notin Els(Contents[k])
  BY <1>1, OffLists
<1>5. PICK g : g = f
  OBVIOUS
<1>6. PICK mem2 : mem2 = joined(g, "scratch", m.prev[t], m.next[t], n, n)
  OBVIOUS
<1>7. g = Resized(m, t, n)
  BY ONLY <1>5 DEF f, Resized
<1>8. Stands(mem2, cursor, [Contents EXCEPT !["scratch"] = Swap(Contents["scratch"], i, n)])
  BY ONLY <1>2, <1>3, <1>4, <1>6, <1>7, n \in Nodes, ReallocatedIn
<1> HIDE DEF f
<1>9. l \in Queues /\ l = "scratch" /\ Using(Kind(l))
  BY <1>1, KindsOf
<1>10. Stands(m', cursor', [Contents EXCEPT ![l] = Swap(Contents[l], i, n)])
  BY ONLY <1>1, <1>5, <1>6, <1>8 DEF l
<1>11. i \in 1..Len(Contents[l]) /\ t = Contents[l][i] /\ Contents[l] \in Seq(Nodes) /\ Contents \in [Lists -> Seq(Nodes)]
  BY <1>2, Held, KindsOf
<1> HIDE DEF l
<1>12. Stood' /\ Contents' = [Contents EXCEPT ![l] = Swap(@, i, n)]
  BY <1>9, <1>10, KindsOf, StoodOne
<1>13. CASE n = t
  <2>1. Contents' = Contents
    BY <1>11, <1>12, <1>13, SwapSame
  <2>2. t \notin Els(Contents["tasks"])
    <3>1. l \in Lists /\ "tasks" \in Lists /\ l # "tasks" /\ t \in Els(Contents[l])
      BY <1>9, <1>11, KindsOf DEF Els
    <3>2. Els(Contents[l]) \cap Els(Contents["tasks"]) = {}
      BY ONLY <1>3, <3>1 DEF Stands
    <3> QED BY ONLY <3>1, <3>2
  <2> QED BY <1>1, <1>12, <2>1, <2>2, KindsOf, AbsStill
<1>14. CASE n # t
  <2>1. ~Linked(n)
    BY <1>1, <1>14
  <2>2. Contents' = [Contents EXCEPT !["scratch"] = Swap(@, i, n)]
    BY ONLY <1>9, <1>12
  <2>3. Abstract!Next
    BY <1>1, <1>2, <2>1, <2>2, AbsReplace
  <2> QED BY <1>12, <2>3
<1> QED BY <1>13, <1>14

LEMMA StepDeinit ==
  ASSUME Stood, scratch_deinit
  PROVE  Stood' /\ Abstract!Next
<1> DEFINE all == Forward("scratch")
           dropped(link) == [t \in Nodes |-> IF t \in ToSet(all) THEN Dangling ELSE link[t]]
           l == "scratch"
<1>1. /\ Using("scratch") /\ answer' = all /\ UNCHANGED cursor
      /\ m' = [m EXCEPT !.head["scratch"] = Nil, !.prev = dropped(m.prev), !.next = dropped(m.next)]
  <2>1. m \in Mem
    BY Held
  <2> QED BY <2>1 DEF scratch_deinit, Mem
<1>2. all = Contents["scratch"] /\ ToSet(all) = Els(Contents["scratch"]) /\ Contents["scratch"] \in Seq(Nodes)
  BY Held, KindsOf
<1>3. Stands(m, cursor, Contents)
  BY DEF Stood
<1> HIDE DEF all
<1>4. PICK prev : prev = dropped(m.prev)
  OBVIOUS
<1>5. PICK next : next = dropped(m.next)
  OBVIOUS
<1>6. PICK mem2 : mem2 = [m EXCEPT !.head["scratch"] = Nil, !.prev = prev, !.next = next]
  OBVIOUS
<1>7. /\ prev = [t \in Nodes |-> IF t \in Els(Contents["scratch"]) THEN Dangling ELSE m.prev[t]]
      /\ next = [t \in Nodes |-> IF t \in Els(Contents["scratch"]) THEN Dangling ELSE m.next[t]]
  BY ONLY <1>2, <1>4, <1>5
<1>8. Stands(mem2, cursor, [Contents EXCEPT !["scratch"] = << >>])
  BY ONLY <1>3, <1>6, <1>7, DroppedOut
<1>9. m' = mem2
  BY ONLY <1>1, <1>4, <1>5, <1>6
<1>10. l \in Queues /\ l \in {"cleanup", "sleepers", "scratch"} /\ Using(Kind(l)) /\ Contents[l] \in Seq(Nodes) /\ all = Contents[l]
  BY <1>1, <1>2, KindsOf
<1>11. Stands(m', cursor', [Contents EXCEPT ![l] = << >>])
  BY ONLY <1>1, <1>8, <1>9 DEF l
<1> HIDE DEF l
<1>12. Stood' /\ Contents' = [Contents EXCEPT ![l] = << >>]
  BY <1>10, <1>11, KindsOf, StoodOne
<1>13. Abstract!Chosen(Contents[l], Nodes) = Contents[l] /\ Abstract!Chosen(Contents[l], Nodes \ Nodes) = << >>
  BY <1>10, ChosenAll
<1>14. /\ answer' = Abstract!Chosen(Contents[l], Nodes)
       /\ Contents' = [Contents EXCEPT ![l] = Abstract!Chosen(Contents[l], Nodes \ Nodes)]
  BY ONLY <1>1, <1>10, <1>12, <1>13
<1>15. Nodes \in SUBSET Nodes
  OBVIOUS
<1>16. Abstract!Next
  BY <1>10, <1>14, <1>15, AbsSweep
<1> QED BY <1>12, <1>16

-------------------------------------------------------------------------------
(* The refinement                                                            *)

LEMMA StoodInit ==
  ASSUME LInit
  PROVE  Stood /\ Abstract!Init
<1> DEFINE S == [l \in Lists |-> << >>]
<1>1. m \in Mem /\ cursor \in [Wakers -> Nodes \cup {Nil}] /\ S \in [Lists -> Seq(Nodes)]
  BY DEF LInit, Mem, Ptrs
<1>2. /\ \A l \in Queues : m.head[l] = Nil /\ m.tail[l] = Nil /\ m.count[l] = 0
      /\ \A t \in Nodes : m.prev[t] = Dangling /\ m.next[t] = Dangling
      /\ \A w \in Wakers : cursor[w] = Nil
  BY DEF LInit
<1>3. \A l \in Lists : S[l] = << >>
  OBVIOUS
<1>4. << >> \in Seq(Nodes) /\ Len(<< >>) = 0 /\ Els(<< >>) = {} /\ \A i \in Int : Place(<< >>, i) = Nil
  BY DEF Els, Place
<1> HIDE DEF S
<1>5. Stands(m, cursor, S)
  <2>1. \A l \in Queues : l \in Lists
    BY DEF Lists
  <2>2. \A w \in Wakers : w \in Lists
    BY DEF Lists
  <2>5. PICK e \in Seq(Nodes) : e = << >> /\ Len(e) = 0 /\ Place(e, 1) = Nil /\ Place(e, 0) = Nil
    <3>1. Place(<< >>, 1) = Nil /\ Place(<< >>, 0) = Nil
      BY DEF Place
    <3> QED BY ONLY <1>4, <3>1
  <2>6. 1..Len(e) = {}
    BY ONLY <2>5
  <2>3. ASSUME NEW l \in Queues PROVE Whole(m, l, S[l])
    <3>1. S[l] = e
      BY ONLY <1>3, <2>1, <2>5, l \in Queues
    <3> QED BY ONLY <1>2, <2>5, <2>6, <3>1, l \in Queues DEF Whole, Chain
  <2>4. ASSUME NEW w \in Wakers PROVE Chain(m.next, cursor[w], S[w])
    <3>1. S[w] = e
      BY ONLY <1>3, <2>2, <2>5, w \in Wakers
    <3> QED BY ONLY <1>2, <2>5, <2>6, <3>1, w \in Wakers DEF Chain
  <2> QED BY ONLY <1>1, <1>2, <1>3, <1>4, <2>3, <2>4 DEF Stands, Loose
<1>6. Contents = S
  BY <1>5, ReadIs, Read
<1>7. Meant(use, Contents)
  BY <1>3, <1>6 DEF Meant
<1>8. Abstract!Init
  <2>1. Contents = [l \in Queues \cup Wakers |-> << >>]
    BY <1>6 DEF S, Lists
  <2> QED BY <2>1 DEF Abstract!Init, LInit
<1> QED BY <1>5, <1>6, <1>7, <1>8 DEF Stood

LEMMA StoodNext ==
  ASSUME Stood, LNext
  PROVE  Stood' /\ Abstract!Next
<1>1. ASSUME NEW t \in Nodes, NEW l \in {"tasks", "cleanup"}, enqueue(l, t) PROVE Stood' /\ Abstract!Next
  BY <1>1, StepEnqueue
<1>2. CASE runqueue_dequeue
  BY <1>2, StepDequeue
<1>3. ASSUME NEW t \in Nodes, runqueue_remove(t) \/ sleeperlist_add(t) \/ waitqueue_add(t) \/ waitqueue_del(t)
      PROVE  Stood' /\ Abstract!Next
  BY <1>3, StepRemove, StepSleeper, StepWait, StepDel
<1>4. ASSUME NEW gone \in SUBSET Nodes, scheduler_cleanup(gone) \/ sleeperlist_tick(gone) PROVE Stood' /\ Abstract!Next
  BY <1>4, StepCleanup, StepTick
<1>5. CASE wake_one
  BY <1>5, StepWakeOne
<1>6. ASSUME NEW w \in Wakers, waitqueue_wake_all(w) \/ wake_detached(w) PROVE Stood' /\ Abstract!Next
  BY <1>6, StepWakeAll, StepWake
<1>7. ASSUME NEW t \in Nodes, scratch_allocate(t) \/ scratch_deallocate(t) PROVE Stood' /\ Abstract!Next
  BY <1>7, StepAllocate, StepDeallocate
<1>8. ASSUME NEW t \in Nodes, NEW n \in Nodes, scratch_reallocate(t, n) PROVE Stood' /\ Abstract!Next
  BY <1>8, StepReallocate
<1>9. CASE scratch_deinit
  BY <1>9, StepDeinit
<1> QED BY <1>1, <1>2, <1>3, <1>4, <1>5, <1>6, <1>7, <1>8, <1>9 DEF LNext

\* The pointers behave as sequences: however nodes are enqueued, taken, removed,
\* swept, detached, moved and freed, head, tail, count and both directions of
\* links of every list agree on one sequence of nodes, no node is on two lists,
\* a detached walk visits what was detached, and every call changes that
\* sequence and returns from it as ListSpec says.
THEOREM LinksImplementListSpec == LSpec => ImplementsListSpec
<1>1. LInit => Stood /\ Abstract!Init
  BY StoodInit
<1>2. Stood /\ [LNext]_lvars => Stood' /\ [Abstract!Next]_(Abstract!listVars)
  <2> SUFFICES ASSUME Stood, [LNext]_lvars PROVE Stood' /\ [Abstract!Next]_(Abstract!listVars)
    OBVIOUS
  <2>1. CASE LNext
    BY <2>1, StoodNext
  <2>2. CASE UNCHANGED lvars
    <3>1. UNCHANGED <<m, cursor>> /\ use' = use /\ answer' = answer
      BY <2>2 DEF lvars
    <3>2. Contents' = Contents
      BY <3>1, Read
    <3>3. Stood'
      BY <3>1, <3>2 DEF Stood
    <3> QED BY <3>1, <3>2, <3>3 DEF Abstract!listVars
  <2> QED BY <2>1, <2>2
<1> QED BY <1>1, <1>2, PTL DEF LSpec, ImplementsListSpec, Abstract!Spec
=============================================================================
