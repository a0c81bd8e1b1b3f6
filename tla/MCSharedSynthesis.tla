------------------------- MODULE MCSharedSynthesis -------------------------
(* Small instances of the shared synthesis. *)
EXTENDS SharedSynthesis

CONSTANTS f1, a1    \* a stream consumer and a file consumer
=============================================================================
