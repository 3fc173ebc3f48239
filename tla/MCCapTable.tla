----------------------------- MODULE MCCapTable -----------------------------
(* A table that grows from three slots to four (clamped, as 0x8000 to 0xFFFF is), with generations that wrap. *)
EXTENDS CapTable

CONSTANT o1

MCObjs == {o1}
=============================================================================
