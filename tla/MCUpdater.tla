----------------------------- MODULE MCUpdater -----------------------------
(* Two candidates, the second one waiting for confirmation and the first one *)
(* without a patch, and one commit of somebody else.                         *)
EXTENDS Updater

CONSTANT x
MCExternos == {x}
MCPorConfirmar == {2}
MCSemPatch == {1}
=============================================================================
