---------------------------- MODULE PlanoDeAcoes ----------------------------
(* What the chatbot promises of a plan of actions, whatever crashes, is      *)
(* cancelled or expires: a step starts at most once and only after the step  *)
(* before it succeeded, its effect happens at most once and never before it  *)
(* started, success is reported of effects that happened, and what is        *)
(* decided stays decided.                                                    *)
EXTENDS Naturals

CONSTANTS
    Pedidos,        \* the steps of all plans
    Anteriores      \* [Pedidos -> SUBSET Pedidos]: the step before, if any

VARIABLES
    fase,           \* [Pedidos -> {"aberto", "executando", "sucesso", "encerrado"}]
    iniciada,       \* [Pedidos -> BOOLEAN]: was it ever started?
    efeitos         \* [Pedidos -> Nat]: how many times its effect happened

vars == <<fase, iniciada, efeitos>>

Init ==
    /\ fase = [p \in Pedidos |-> "aberto"]
    /\ iniciada = [p \in Pedidos |-> FALSE]
    /\ efeitos = [p \in Pedidos |-> 0]

Iniciar(p) ==
    /\ fase[p] = "aberto"
    /\ \A q \in Anteriores[p] : fase[q] = "sucesso"
    /\ fase' = [fase EXCEPT ![p] = "executando"]
    /\ iniciada' = [iniciada EXCEPT ![p] = TRUE]
    /\ UNCHANGED efeitos

\* It may come after the plan gave up on an answer.
Efetuar(p) ==
    /\ iniciada[p] /\ efeitos[p] = 0
    /\ efeitos' = [efeitos EXCEPT ![p] = 1]
    /\ UNCHANGED <<fase, iniciada>>

Concluir(p) ==
    /\ fase[p] = "executando" /\ efeitos[p] = 1
    /\ fase' = [fase EXCEPT ![p] = "sucesso"]
    /\ UNCHANGED <<iniciada, efeitos>>

\* Rejected, expired, cancelled, failed or uncertain.
Encerrar(p) ==
    /\ fase[p] \in {"aberto", "executando"}
    /\ fase' = [fase EXCEPT ![p] = "encerrado"]
    /\ UNCHANGED <<iniciada, efeitos>>

Next ==
    \E p \in Pedidos : Iniciar(p) \/ Efetuar(p) \/ Concluir(p) \/ Encerrar(p)

Spec == Init /\ [][Next]_vars

=============================================================================
