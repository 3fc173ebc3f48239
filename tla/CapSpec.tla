------------------------------- MODULE CapSpec -------------------------------
(***************************************************************************)
(* What a capability table promises its task: an identifier that was       *)
(* granted names one object with its rights until it is revoked, and a     *)
(* revoked identifier names nothing until the generation counter of its    *)
(* slot has gone all the way round.                                        *)
(***************************************************************************)
EXTENDS Naturals

CONSTANTS Objs, Rights, Indices, GenMax

VARIABLES table,    \* the identifiers in use, each with its object and rights
          retired,  \* revoked identifiers whose generation has not come round
          got       \* references handed out by lookups, per object

absVars == <<table, retired, got>>

Ids == [index : Indices, gen : 1..GenMax]

Init ==
  /\ table = << >>
  /\ retired = {}
  /\ got = [o \in Objs |-> 0]

Grant(id, o, r) ==
  /\ id \notin DOMAIN table \cup retired
  /\ \A x \in DOMAIN table : x.index # id.index
  /\ table' = [x \in DOMAIN table \cup {id} |->
                 IF x = id THEN [obj |-> o, rights |-> r] ELSE table[x]]
  /\ UNCHANGED <<retired, got>>

Lookup(id, need) ==
  /\ id \in DOMAIN table
  /\ need \subseteq table[id].rights
  /\ got' = [got EXCEPT ![table[id].obj] = @ + 1]
  /\ UNCHANGED <<table, retired>>

Revoke(id) ==
  /\ id \in DOMAIN table
  /\ table' = [x \in DOMAIN table \ {id} |-> table[x]]
  /\ retired' = IF id.gen = GenMax THEN { x \in retired : x.index # id.index }
                ELSE retired \cup {id}
  /\ UNCHANGED got

\* The task is gone and its table with it.
Destroy ==
  /\ table' = << >>
  /\ retired' = Ids
  /\ UNCHANGED got

Next ==
  \/ \E id \in Ids, o \in Objs, r \in SUBSET Rights : Grant(id, o, r)
  \/ \E id \in Ids, need \in SUBSET Rights : Lookup(id, need)
  \/ \E id \in Ids : Revoke(id)
  \/ Destroy

Spec == Init /\ [][Next]_absVars
=============================================================================
