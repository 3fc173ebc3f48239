------------------------------ MODULE MCMemory ------------------------------
(* Bytes of 2 bits, pages of 2 bytes and large pages of 4: machines of 11 to *)
(* 16 pages whose bitmaps take 3 or 4 of them each.                          *)
EXTENDS Memory

E(b, n, t) == [base |-> b, length |-> n, type |-> t]

\* Where boot stops on the bitmap's assertion: a page more than the bitmap's
\* whole bytes have bits for, and a tail too short for the heap's bitmap that
\* ends where the bitmap ends.
MCShortMaps == {
  << E(0, 1, "reserved"), E(1, 11, "usable"), E(12, 1, "executable") >>,
  << E(0, 1, "reserved"), E(1, 3, "usable"), E(10, 2, "usable") >> }

\* A top that is a multiple of a bitmap page; a first entry that the bitmap uses
\* up, a hole and spare bits behind the top; a small entry first, and reserved
\* memory above the top; too little memory for the bitmap.
MCMemMaps == MCShortMaps \cup {
  << E(0, 1, "reserved"), E(1, 13, "usable"), E(14, 2, "executable") >>,
  << E(0, 1, "reserved"), E(1, 4, "usable"), E(6, 8, "usable") >>,
  << E(0, 1, "reclaimable"), E(1, 2, "usable"), E(3, 1, "reclaimable"),
     E(4, 8, "usable"), E(12, 4, "reserved") >>,
  << E(0, 12, "reclaimable"), E(12, 2, "usable") >> }
=============================================================================
