--------------------------- MODULE MCPthreadSync ---------------------------
(* An instance of PthreadSync for TLC: one thread, of a higher priority,   *)
(* also uses the timed forms.                                              *)
EXTENDS PthreadSync, TLC

CONSTANTS t1, t2, t3, t4

FourThreads == {t1, t2, t3, t4}
OneTimer == {t1}
TwoLevels == [t \in Threads |-> IF t = t1 THEN 2 ELSE 1]
=============================================================================
