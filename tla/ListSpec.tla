------------------------------- MODULE ListSpec --------------------------------
(***************************************************************************)
(* What the linked lists promise: sequences that nodes join at either end, *)
(* leave from the front, are taken out of one by one or replaced, swept of *)
(* a set of nodes, or move to a walk as a whole.  Scheduler and Sync use   *)
(* lists in this form.                                                     *)
(***************************************************************************)
EXTENDS Integers, SequencesExt

CONSTANTS Nodes, Queues, Stacks, Swept, Walks

VARIABLES lists,    \* the nodes of every queue, and those a walk still has to visit
          taken     \* what the last call handed out, in order

listVars == <<lists, taken>>

On(l) == { lists[l][i] : i \in DOMAIN lists[l] }

Init ==
  /\ lists = [l \in Queues \cup Walks |-> << >>]
  /\ taken = << >>

Free(t) == \A q \in Queues \cup Walks : t \notin On(q)

\* A node that is on no list joins a queue at its end, a stack at its front.
Add(l, t) ==
  /\ Free(t)
  /\ lists' = [lists EXCEPT ![l] = IF l \in Stacks THEN <<t>> \o @ ELSE Append(@, t)]
  /\ taken' = << >>

\* A node gives its place to another one, which is on no list.
Replace(l, t, n) ==
  /\ t \in On(l) /\ Free(n)
  /\ lists' = [lists EXCEPT ![l] = [i \in DOMAIN @ |-> IF @[i] = t THEN n ELSE @[i]]]
  /\ taken' = << >>

\* The first node is handed out; on an empty list, nothing is.
Take(l) ==
  \/ /\ lists[l] # << >>
     /\ lists' = [lists EXCEPT ![l] = Tail(@)]
     /\ taken' = <<Head(lists[l])>>
  \/ lists[l] = << >> /\ taken' = << >> /\ UNCHANGED lists

\* One node leaves from anywhere; a node that is not there changes nothing.
Leave(l, t) ==
  /\ \/ \E i \in DOMAIN lists[l] : lists[l][i] = t /\ lists' = [lists EXCEPT ![l] = RemoveAt(@, i)]
     \/ t \notin On(l) /\ UNCHANGED lists
  /\ taken' = << >>

\* The nodes of a sequence that are in a set, in order.
Chosen(s, S) ==
  LET first[k \in 0..Len(s)] ==
        IF k = 0 THEN << >> ELSE IF s[k] \in S THEN Append(first[k - 1], s[k]) ELSE first[k - 1]
  IN  first[Len(s)]

\* Every node of a set leaves in one go, in the order of the list.
Sweep(l, gone) ==
  /\ lists' = [lists EXCEPT ![l] = Chosen(@, Nodes \ gone)]
  /\ taken' = Chosen(lists[l], gone)

\* A walk that has nothing left takes over a whole queue.
Detach(l, w) ==
  /\ lists[w] = << >>
  /\ lists' = [lists EXCEPT ![w] = lists[l], ![l] = << >>]
  /\ taken' = << >>

Next ==
  \/ \E l \in Queues, t \in Nodes : Leave(l, t) \/ Add(l, t)
  \/ \E l \in Stacks, t, n \in Nodes : Replace(l, t, n)
  \/ \E l \in (Queues \cup Walks) \ Swept : Take(l)
  \/ \E l \in Swept, gone \in SUBSET Nodes : Sweep(l, gone)
  \/ \E l \in Queues, w \in Walks : Detach(l, w)

Spec == Init /\ [][Next]_listVars
=============================================================================
