------------------------------ MODULE MCEntry ------------------------------
(* Two programs and a kernel task on one processor.                        *)
EXTENDS Entry

=============================================================================
