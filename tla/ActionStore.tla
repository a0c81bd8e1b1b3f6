---------------------------- MODULE ActionStore ----------------------------
(* The durable requests of the chatbot, src/cogs/chatbot/action_store.py.    *)
(*                                                                           *)
(* A plan is a chain of steps, one document each. Every operation below is   *)
(* one find_one_and_update: it looks at the document it changes and at no    *)
(* other. What the code reads of other documents first (the plan is whole,   *)
(* the predecessor succeeded) never becomes false again, so that reading it  *)
(* at the update is the same. Times are two flags of a document: its         *)
(* expires_at passed, and it has been executing or publishing for too long.  *)
(* The removal of old documents by their TTL (seven days) is left out.       *)
EXTENDS Naturals, Sequences, FiniteSets

CONSTANTS
    Etapas      \* [plans -> sequence of "auto" or "staff"]: kinds of its steps

ASSUME EtapasAssumption ==
    \A a \in DOMAIN Etapas : Etapas[a] \in Seq({"auto", "staff"})

VARIABLES
    docs        \* [Pedidos -> document]

Planos == DOMAIN Etapas
Pedidos == UNION {{<<a, i>> : i \in DOMAIN Etapas[a]} : a \in Planos}

Tipo(p) == Etapas[p[1]][p[2]]
DoPlano(a) == {p \in Pedidos : p[1] = a}

\* predecessor_id: none for the first step.
Anteriores == [p \in Pedidos |-> {q \in DoPlano(p[1]) : q[2] = p[2] - 1}]

TERMINAL_STATES == {"succeeded", "failed", "uncertain", "rejected", "expired", "cancelled"}
Cancelaveis == {"blocked", "created", "publishing", "pending"}

\* What a step that is not stored yet looks like, and one just inserted.
Ausente == [state |-> "ausente", vencido |-> FALSE, velho |-> FALSE,
            message |-> FALSE, removed |-> FALSE, claims |-> 0]

Em(p, estados) == docs[p].state \in estados
Valido(p) == ~docs[p].vencido

Passar(p, estado) == docs' = [docs EXCEPT ![p].state = estado, ![p].velho = FALSE]

\* _complete_plan: every step was inserted.
Completo(a) == \A p \in DoPlano(a) : docs[p].state # "ausente"

\* Faulty variant: nobody checks that the plan is whole.
AtivavelParcial(p) ==
    /\ Em(p, {"blocked"})
    /\ \A q \in Anteriores[p] : Em(q, {"succeeded"})

\* _activate: the step is next, and the plan whole.
Ativavel(p) ==
    /\ Em(p, {"blocked"}) /\ Completo(p[1])
    /\ \A q \in Anteriores[p] : Em(q, {"succeeded"})

Activate(p) ==
    docs' = [docs EXCEPT ![p].state = "created", ![p].vencido = FALSE]

\* What _cancel_descendants finds: the later steps nobody claimed.
Descendentes(p) == {q \in DoPlano(p[1]) : q[2] > p[2] /\ Em(q, Cancelaveis)}

\* What recover_ready returns: steps to publish, and automatic ones already armed.
Prontos ==
    {p \in Pedidos : Valido(p) /\ (\/ Em(p, {"created"})
                                   \/ Em(p, {"pending"}) /\ ~docs[p].message)}

\* arm_automatic, claim_publication, bind, claim and claim_automatic: the
\* documents they accept.
Armavel(p) == Em(p, {"created"}) /\ Valido(p)
Publicavel(p) == Em(p, {"created"}) /\ Valido(p)
Vinculavel(p) == Em(p, {"created", "publishing"}) /\ Valido(p)
Reclamavel(p) == Em(p, {"pending"}) /\ Valido(p)

Bind(p) == docs' = [docs EXCEPT ![p].state = "pending", ![p].message = TRUE]

Claim(p) == docs' = [docs EXCEPT ![p].state = "executing", ![p].velho = FALSE,
                                 ![p].claims = @ + 1]

\* The queries of expire_pending, its incomplete plans, the two recoveries of
\* stale documents, and cards_to_remove.
Vencidos == {p \in Pedidos : Em(p, {"created", "publishing", "pending"}) /\ ~Valido(p)}
Parciais == {p \in Pedidos : Em(p, {"blocked"}) /\ ~Valido(p) /\ ~Completo(p[1])}
Executando == {p \in Pedidos : Em(p, {"executing"}) /\ docs[p].velho}
Publicando == {p \in Pedidos : Em(p, {"publishing"}) /\ docs[p].velho}
Cartoes == {p \in Pedidos : /\ Em(p, TERMINAL_STATES \cup {"executing"})
                            /\ docs[p].message /\ ~docs[p].removed}

\* Time passes for a document. A publication is old only after it expired.
Vencer(p) ==
    /\ Em(p, Cancelaveis) /\ Valido(p)
    /\ docs' = [docs EXCEPT ![p].vencido = TRUE]

Envelhecer(p) ==
    /\ Em(p, {"executing"}) \/ (Em(p, {"publishing"}) /\ ~Valido(p))
    /\ ~docs[p].velho
    /\ docs' = [docs EXCEPT ![p].velho = TRUE]

=============================================================================
