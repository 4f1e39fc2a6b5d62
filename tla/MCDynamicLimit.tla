--------------------------- MODULE MCDynamicLimit ---------------------------
(* DynamicLimit for TLC: with four tasks and limits up to three one waits, *)
(* a second waits behind it, and the limit drops below the slots in use.   *)
EXTENDS DynamicLimit

CONSTANTS t1, t2, t3, t4

MCTasks == {t1, t2, t3, t4}
=============================================================================
