--------------------------------- MODULE MCLib --------------------------------
(* The library on small inputs: a heap of fifteen cells and two owners,      *)
(* four-bit numbers, paths of up to seven characters, and lists of up to     *)
(* three nodes with two threads waking the same wait queue.                  *)
EXTENDS Library

\* The owners are interchangeable.
OwnerSymmetry == Permutations(Owners)
=============================================================================
