--------------------------- MODULE MCEdgeSources ---------------------------
(* Small instances of the Edge sources. *)
EXTENDS EdgeSources

CONSTANTS principal, t1, t2, t3
=============================================================================
