------------------------------- MODULE MCVmm -------------------------------
(* Tables of two entries: 16 pages, 8 of them the kernel's. *)
EXTENDS Vmm

MCFrames == 1..6
=============================================================================
