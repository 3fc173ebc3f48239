------------------------------- MODULE MCBoot -------------------------------
(* Three processors; the one that boots is the second of the list.         *)
EXTENDS Boot

CONSTANTS p1, p2, p3

MCCpus == <<p1, p2, p3>>
=============================================================================
