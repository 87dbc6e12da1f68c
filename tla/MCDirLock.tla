------------------------------ MODULE MCDirLock ------------------------------
(* Two threads of one process and one thread each of two others. *)
EXTENDS DirLock
CONSTANTS t1, t2, t3, t4, p1, p2, p3
MCThreads == {t1, t2, t3, t4}
MCProcesses == {p1, p2, p3}
MCProcOf == [t \in MCThreads |-> CASE t \in {t1, t2} -> p1 [] t = t3 -> p2 [] t = t4 -> p3]
=============================================================================
