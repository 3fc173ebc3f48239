--------------------------------- MODULE Links ---------------------------------
(***************************************************************************)
(* The doubly linked lists, pointer by pointer: run queue and cleanup list *)
(* of a processor (which share the links inside a task), a wait queue, the *)
(* list of sleepers, and the blocks of the user library's scratch          *)
(* allocator.  What a lock or masked interrupts cover is one step;         *)
(* waitqueue_wake_all walks the items it has detached one step at a time,  *)
(* without the lock.                                                       *)
(***************************************************************************)
EXTENDS Integers, FiniteSets, SequencesExt

CONSTANTS Nodes,    \* tasks, items, sleepers or blocks, as `use` says
          Wakers,   \* threads inside waitqueue_wake_all
          Nil,      \* the null pointer
          Dangling  \* what the links of memory that is not in use hold

Queues == {"tasks", "cleanup", "items", "sleepers", "scratch"}

ASSUME LinksAssumption ==
  /\ Nil \notin Nodes /\ Dangling \notin Nodes /\ Nil # Dangling
  /\ IsFiniteSet(Nodes) /\ Wakers \cap Queues = {}

VARIABLES use,      \* the structures this behaviour is about, once it has chosen
          m,        \* head, tail and count of the lists, prev and next of the nodes
          cursor,   \* `entry` of every waitqueue_wake_all under way, else NULL
          answer    \* what the last call returned, woke or freed, in order

lvars == <<use, m, cursor, answer>>

\* The lists are apart in memory, so a behaviour is about one kind of them.
Using(x) == use \in {"none", x} /\ use' = x

\* The nodes from p on along one kind of link; more than there are nodes when
\* the links form a cycle.
Walk(link, p) ==
  LET along[k \in 0..(Cardinality(Nodes) + 1)] ==
        [q \in Nodes \cup {Nil, Dangling} |->
           IF q = Nil \/ k = 0 THEN << >>
           ELSE IF q = Dangling THEN <<Dangling>>
           ELSE <<q>> \o along[k - 1][link[q]]]
  IN  along[Cardinality(Nodes) + 1][p]

Forward(l)  == Walk(m.next, m.head[l])
Ahead(w)    == Walk(m.next, cursor[w])
Linked(t)   == (\E l \in Queues : t \in ToSet(Forward(l))) \/ \E w \in Wakers : t \in ToSet(Ahead(w))

LInit ==
  /\ use = "none"
  /\ m = [head  |-> [l \in Queues |-> Nil], tail |-> [l \in Queues |-> Nil],
          count |-> [l \in Queues |-> 0],
          prev  |-> [t \in Nodes |-> Dangling], next |-> [t \in Nodes |-> Dangling]]
  /\ cursor = [w \in Wakers |-> Nil]
  /\ answer = << >>

-----------------------------------------------------------------------------
\* if (p != NULL) p->link = v
set_link(link, p, v) == IF p = Nil THEN link ELSE [link EXCEPT ![p] = v]

\* A node's own links after it was taken off, and after it was freed.
cleared(mem, t) == [mem EXCEPT !.prev[t] = Nil, !.next[t] = Nil]
freed(mem, t)   == [mem EXCEPT !.prev[t] = Dangling, !.next[t] = Dangling]

\* Put t behind the last node.
link_last(mem, l, t) ==
  [mem EXCEPT !.prev[t] = mem.tail[l],
              !.next    = set_link([@ EXCEPT ![t] = Nil], mem.tail[l], t),
              !.tail[l] = t,
              !.head[l] = IF @ = Nil THEN t ELSE @]

\* Take the first node, which there is, off.
unlink_first(mem, l) ==
  LET t == mem.head[l]
      n == mem.next[t]
  IN  cleared([mem EXCEPT !.head[l] = n, !.prev = set_link(@, n, Nil),
                          !.tail[l] = IF n = Nil THEN Nil ELSE @], t)

\* The neighbours p and n of a place get `after` and `before` as theirs.
joined(mem, l, p, n, after, before) ==
  [mem EXCEPT !.next    = set_link(@, p, after),
              !.head[l] = IF p = Nil THEN after ELSE @,
              !.prev    = set_link(@, n, before)]

\* Mutant of unlink: a last node that leaves stays the tail.
unlink_keeps_tail(mem, l, t) == joined(mem, l, mem.prev[t], mem.next[t], mem.next[t], mem.prev[t])

\* Join the neighbours of t, wherever it stands.
unlink(mem, l, t) ==
  [joined(mem, l, mem.prev[t], mem.next[t], mem.next[t], mem.prev[t])
     EXCEPT !.tail[l] = IF mem.next[t] = Nil THEN mem.prev[t] ELSE @]

counted(mem, l, d) == [mem EXCEPT !.count[l] = @ + d]

\* The loop over a list, with `next` read before the node is freed, that takes
\* out and frees the nodes of a set; `out` is those it has freed.  It makes no
\* more rounds than there are nodes.
sweep(mem, l, gone) ==
  LET round[k \in 0..Cardinality(Nodes)] ==
        IF k = 0 THEN [mem |-> mem, next |-> mem.head[l], out |-> << >>]
        ELSE LET b == round[k - 1]
                 t == b.next
             IN  IF t = Nil THEN b
                 ELSE IF t \in gone
                   THEN [mem  |-> freed(counted(unlink(b.mem, l, t), l, -1), t),
                         next |-> b.mem.next[t],
                         out  |-> Append(b.out, t)]
                   ELSE [mem |-> b.mem, next |-> b.mem.next[t], out |-> b.out]
  IN  round[Cardinality(Nodes)]

-----------------------------------------------------------------------------
\* runqueue_enqueue: a task that is on no list joins one, a new, woken or
\* yielding one the run queue, an exiting one the cleanup list.
enqueue(l, t) ==
  /\ Using("tasks") /\ ~Linked(t)
  /\ m' = counted(link_last(m, l, t), l, 1)
  /\ answer' = << >>
  /\ UNCHANGED cursor

runqueue_dequeue ==
  /\ Using("tasks")
  /\ IF m.head["tasks"] = Nil
       THEN answer' = << >> /\ UNCHANGED m
       ELSE /\ m' = counted(unlink_first(m, "tasks"), "tasks", -1)
            /\ answer' = <<m.head["tasks"]>>
  /\ UNCHANGED cursor

\* The caller names a task of that queue: the code does not look.
runqueue_remove(t) ==
  /\ Using("tasks") /\ t \in ToSet(Forward("tasks"))
  /\ m' = counted(cleared(unlink(m, "tasks", t), t), "tasks", -1)
  /\ answer' = << >>
  /\ UNCHANGED cursor

\* In the tick: the tasks nobody refers to any more are freed.
scheduler_cleanup(gone) ==
  /\ Using("tasks")
  /\ LET swept == sweep(m, "cleanup", gone)
     IN  m' = swept.mem /\ answer' = swept.out
  /\ UNCHANGED cursor

sleeperlist_add(t) ==
  /\ Using("sleepers") /\ ~Linked(t)
  /\ m' = counted(link_last(m, "sleepers", t), "sleepers", 1)
  /\ answer' = << >>
  /\ UNCHANGED cursor

\* In the tick: the sleepers whose time has come are woken and freed.
sleeperlist_tick(due) ==
  /\ Using("sleepers")
  /\ LET swept == sweep(m, "sleepers", due)
     IN  m' = swept.mem /\ answer' = swept.out
  /\ UNCHANGED cursor

\* waitqueue_item_init, then waitqueue_add, whose two cases put the item last.
waitqueue_add(t) ==
  /\ Using("items") /\ ~Linked(t)
  /\ m' = link_last(cleared(m, t), "items", t)
  /\ answer' = << >>
  /\ UNCHANGED cursor

\* The item is on the queue, or has been woken already and is left alone.  An
\* item that a walk has detached and not reached must not be passed: its links
\* say it is on a list, and its successor would become the head of this queue.
waitqueue_del(t) ==
  /\ Using("items") /\ m.prev[t] # Dangling
  /\ \A w \in Wakers : t \notin ToSet(Ahead(w))
  /\ m' = IF m.prev[t] = Nil /\ m.next[t] = Nil /\ m.head["items"] # t
            THEN m ELSE cleared(unlink(m, "items", t), t)
  /\ answer' = << >>
  /\ UNCHANGED cursor

\* waitqueue_wake_one
wake_one ==
  /\ Using("items")
  /\ IF m.head["items"] = Nil
       THEN answer' = << >> /\ UNCHANGED m
       ELSE /\ m' = unlink_first(m, "items")
            /\ answer' = <<m.head["items"]>>
  /\ UNCHANGED cursor

\* waitqueue_wake_all under the lock: the queue is emptied, the items keep their links.
waitqueue_wake_all(w) ==
  /\ Using("items") /\ cursor[w] = Nil
  /\ cursor' = [cursor EXCEPT ![w] = m.head["items"]]
  /\ m' = [m EXCEPT !.head["items"] = Nil, !.tail["items"] = Nil]
  /\ answer' = << >>

\* One round of its loop: `next` is read, the links are cleared, the waiter is
\* called, after which the item may be put on a queue again.
wake_detached(w) ==
  /\ Using("items") /\ cursor[w] # Nil
  /\ cursor' = [cursor EXCEPT ![w] = m.next[cursor[w]]]
  /\ m' = cleared(m, cursor[w])
  /\ answer' = <<cursor[w]>>

\* The block comes zeroed from allocate and goes to the front.
scratch_allocate(t) ==
  /\ Using("scratch") /\ ~Linked(t)
  /\ LET mem == cleared(m, t)
         old == m.head["scratch"]
     IN  m' = IF old = Nil THEN [mem EXCEPT !.head["scratch"] = t]
              ELSE [mem EXCEPT !.next[t] = old, !.prev[old] = t, !.head["scratch"] = t]
  /\ answer' = << >>
  /\ UNCHANGED cursor

\* realloc leaves the block where it is or moves it, links included, and frees
\* the old place; the neighbours, read before, are pointed to the new one.
\* A realloc that fails is followed by a store through NULL, which ends the task.
scratch_reallocate(t, n) ==
  /\ Using("scratch") /\ t \in ToSet(Forward("scratch")) /\ (n = t \/ ~Linked(n))
  /\ LET moved == [m EXCEPT !.prev[n] = m.prev[t], !.next[n] = m.next[t]]
     IN  m' = joined(IF n = t THEN m ELSE freed(moved, t), "scratch", m.prev[t], m.next[t], n, n)
  /\ answer' = << >>
  /\ UNCHANGED cursor

\* The block is freed first; its neighbours were read before.
scratch_deallocate(t) ==
  /\ Using("scratch") /\ t \in ToSet(Forward("scratch"))
  /\ m' = joined(freed(m, t), "scratch", m.prev[t], m.next[t], m.next[t], m.prev[t])
  /\ answer' = << >>
  /\ UNCHANGED cursor

\* Every block is freed, its `next` read before, and the structure is zeroed.
scratch_deinit ==
  /\ Using("scratch")
  /\ LET all == Forward("scratch")
         dropped(link) == [t \in Nodes |-> IF t \in ToSet(all) THEN Dangling ELSE link[t]]
     IN  /\ m' = [m EXCEPT !.head["scratch"] = Nil, !.prev = dropped(@), !.next = dropped(@)]
         /\ answer' = all
  /\ UNCHANGED cursor

LNext ==
  \/ \E t \in Nodes, l \in {"tasks", "cleanup"} : enqueue(l, t)
  \/ runqueue_dequeue
  \/ \E t \in Nodes : runqueue_remove(t) \/ sleeperlist_add(t) \/ waitqueue_add(t) \/ waitqueue_del(t)
  \/ \E gone \in SUBSET Nodes : scheduler_cleanup(gone) \/ sleeperlist_tick(gone)
  \/ wake_one
  \/ \E w \in Wakers : waitqueue_wake_all(w) \/ wake_detached(w)
  \/ \E t \in Nodes : scratch_allocate(t) \/ scratch_deallocate(t)
  \/ \E t, n \in Nodes : scratch_reallocate(t, n)
  \/ scratch_deinit

LSpec == LInit /\ [][LNext]_lvars

-----------------------------------------------------------------------------
\* Both directions hold the same nodes, and so do the tail and the count, where
\* there are any: a scratch has neither, a wait queue no count.
Agrees(l) ==
  LET all == Forward(l)
      end == IF all = << >> THEN Nil ELSE Last(all)
  IN  /\ Walk(m.prev, end) = Reverse(all)
      /\ l # "scratch" => m.tail[l] = end
      /\ l \notin {"scratch", "items"} => m.count[l] = Len(all)

\* What a list holds; no sequence of nodes when its links disagree.
Contents == [l \in Queues \cup Wakers |->
               IF l \in Wakers THEN Ahead(l) ELSE IF Agrees(l) THEN Forward(l) ELSE <<Dangling>>]

Abstract == INSTANCE ListSpec WITH lists <- Contents, taken <- answer,
                                   Stacks <- {"scratch"},
                                   Swept <- {"cleanup", "sleepers", "scratch"}, Walks <- Wakers

\* The links of run queue, cleanup list, wait queue, sleepers and scratch behave as
\* the sequences the other modules use: nodes join at the end and are handed out
\* from the front, a node or a set of nodes leaves from any place, detached items
\* are woken once each in order while woken ones queue again, a scratch block
\* that moved keeps its place, and no link of a freed node is followed.
ImplementsListSpec == Abstract!Spec
=============================================================================
