----------------------------- MODULE MCIoLock -------------------------------
(* Three threads of two processes: t1 and t2 share one, t3 is alone. *)
EXTENDS IoLock

CONSTANTS t1, t2, t3, p1, p2

MCThreads == {t1, t2, t3}
MCProcs == {p1, p2}
MCProcOf == [t \in MCThreads |-> IF t = t3 THEN p2 ELSE p1]
MCTimeouts == {-1, 1}
=============================================================================
