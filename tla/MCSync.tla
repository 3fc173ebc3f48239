------------------------------- MODULE MCSync -------------------------------
(* Four threads, one mutex, a semaphore with one permit, one condition variable. *)
EXTENDS Sync

CONSTANTS a, b, c, d

MCThreads == {a, b, c, d}
=============================================================================
