------------------------------ MODULE AddrSpec ------------------------------
(***************************************************************************)
(* What page tables are for: the kernel's address space and, while it      *)
(* exists, a task's, each a partial function from virtual to physical      *)
(* pages.  Mapping changes the pages it names and no other; unmapping      *)
(* removes the block that was mapped as one.                               *)
(***************************************************************************)
EXTENDS Naturals

CONSTANTS Pages,     \* virtual page numbers
          Sizes      \* block sizes, in pages

VARIABLES kmap,      \* the kernel's map
          tmap,      \* the task's map of the lower half
          live       \* the task's map exists

absVars == <<kmap, tmap, live>>

Block(va, n) == { x \in Pages : x \div n = va \div n }

\* m with the n pages from va on mapped to those from pa on, and m without S.
Extended(m, va, pa, n) ==
  [x \in DOMAIN m \cup Block(va, n) |-> IF x \div n = va \div n THEN pa + (x - va) ELSE m[x]]
Without(m, S) == [x \in DOMAIN m \ S |-> m[x]]

Init ==
  /\ DOMAIN kmap \subseteq Pages /\ \A va \in DOMAIN kmap : kmap[va] \in Nat
  /\ tmap = << >>
  /\ live = FALSE

\* One block of the map is (re)mapped, or one that was mapped is removed.  The
\* physical page is free: it is known from the new map.
Mapped(old, new, va, n) ==
  va \in DOMAIN new /\ new = Extended(old, va, new[va], n)
Removed(old, new, va, n) ==
  Block(va, n) \subseteq DOMAIN old /\ new = Without(old, Block(va, n))

KernelStep ==
  /\ UNCHANGED <<tmap, live>>
  /\ \E old \in {kmap}, new \in {kmap'} :
       /\ old # new
       /\ \E n \in Sizes : \E va \in { x \in Pages : x % n = 0 } :
            Mapped(old, new, va, n) \/ Removed(old, new, va, n)

TaskStep ==
  /\ live /\ UNCHANGED <<kmap, live>>
  /\ \E old \in {tmap}, new \in {tmap'} :
       /\ old # new
       /\ \E va \in Pages : Mapped(old, new, va, 1) \/ Removed(old, new, va, 1)

Make    == ~live /\ live' = TRUE /\ UNCHANGED <<kmap, tmap>>
Destroy == live /\ live' = FALSE /\ tmap' = << >> /\ UNCHANGED kmap

Next == KernelStep \/ TaskStep \/ Make \/ Destroy

Spec == Init /\ [][Next]_absVars
=============================================================================
