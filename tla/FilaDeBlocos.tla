---------------------------- MODULE FilaDeBlocos ----------------------------
(* What the audio stream of src/src/fluxo.rs promises its callers: a FIFO of *)
(* blocks with a bounded number outstanding, every accepted block delivered  *)
(* at most once and in order, an end-of-stream answer only after a normal    *)
(* finish has been drained, and a cancellation that silences everything.     *)
EXTENDS Naturals, Sequences

CONSTANTS Blocos, maximo_blocos

VARIABLES
    estado,     \* "Aberto", "Finalizado" or "Cancelado"
    aceitos,    \* every block a writer was told is in the stream, in order
    entregues,  \* every block handed to a reader, in order of removal
    fim         \* has some reader been told Ok(None)?

vars == <<estado, aceitos, entregues, fim>>

Init ==
    /\ estado = "Aberto"
    /\ aceitos = <<>>
    /\ entregues = <<>>
    /\ fim = FALSE

Aceitar ==
    /\ estado = "Aberto"
    /\ Len(aceitos) - Len(entregues) < maximo_blocos
    /\ \E b \in Blocos : aceitos' = Append(aceitos, b)
    /\ UNCHANGED <<estado, entregues, fim>>

Entregar ==
    /\ estado # "Cancelado"
    /\ Len(entregues) < Len(aceitos)
    /\ entregues' = Append(entregues, aceitos[Len(entregues) + 1])
    /\ UNCHANGED <<estado, aceitos, fim>>

EntregarFim ==
    /\ estado = "Finalizado"
    /\ entregues = aceitos
    /\ fim' = TRUE
    /\ UNCHANGED <<estado, aceitos, entregues>>

Finalizar ==
    /\ estado = "Aberto"
    /\ estado' = "Finalizado"
    /\ UNCHANGED <<aceitos, entregues, fim>>

Cancelar ==
    /\ estado # "Cancelado"
    /\ estado' = "Cancelado"
    /\ UNCHANGED <<aceitos, entregues, fim>>

Next == Aceitar \/ Entregar \/ EntregarFim \/ Finalizar \/ Cancelar

Spec == Init /\ [][Next]_vars

=============================================================================
