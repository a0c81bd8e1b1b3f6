--------------------------- MODULE MCFluxoDeAudio ---------------------------
(* A small instance of the audio stream for TLC: four bytes of buffer, blocks *)
(* of one, three and five bytes, counters that saturate at two.               *)
EXTENDS FluxoDeAudio

CONSTANTS e1, e2, l1, l2, c1, curto, longo, enorme

MCEscritores == {e1, e2}
MCLeitores == {l1, l2}
MCControladores == {c1}
MCBlocos == {curto, longo, enorme}
MCTamanho == [b \in Blocos |->
                CASE b = curto -> 1 [] b = longo -> 3 [] b = enorme -> 5]

\* Calls made by each thread: three blocks by two writers, two reads, one close.
MCChamadas == [t \in Threads |-> IF t = e1 THEN 2 ELSE 1]
=============================================================================
