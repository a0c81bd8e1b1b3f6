------------------------ MODULE MCPrioritySemaphore ------------------------
(* Small instances of the priority semaphore.                                *)
EXTENDS PrioritySemaphore

CONSTANTS t1, t2, t3, t4

MCTarefas == {t1, t2, t3, t4}
=============================================================================
