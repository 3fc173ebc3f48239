------------------------------ MODULE MCTaskMem ------------------------------
(* Pages of two bytes; the whole user half is 11 pages: one of program, four *)
(* to search for room in, three reserved, one above the stack.                *)
EXTENDS TaskMem

MCSpans  == <<16, 2>>
MCFrames == 1..10
MCAddrs  == {0, 1, 2, 4, 8, 10, 14, 18, 20, 22, 30, 54, 63}
MCLengths == {0, 1, 2, 3, 4, 8, 10, 34, 63}
=============================================================================
