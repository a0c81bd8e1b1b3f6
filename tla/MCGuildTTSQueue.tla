-------------------------- MODULE MCGuildTTSQueue --------------------------
(* Small instances of a guild's speech queue.                                *)
EXTENDS GuildTTSQueue

\* A message in three parts that fills the queue, and one that repeats two of
\* them, dropped or accepted as they are or are no longer pending.
MCMensagens == {1, 2}
MCTexto == << <<"x", "y", "z">>, <<"z", "x">> >>
=============================================================================
