----------------------------- MODULE MCShootdown -----------------------------
(* Three processors, so that a sender waits for two others, one of which may *)
(* itself be waiting for the lock; two pages, unmapped one by one or both.   *)
EXTENDS Shootdown
=============================================================================
