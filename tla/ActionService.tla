--------------------------- MODULE ActionService ---------------------------
(* The actions of the chatbot, src/cogs/chatbot/actions.py, over its durable *)
(* requests (module ActionStore).                                            *)
(*                                                                           *)
(* Each stored write, each use of _active_users and each call to Discord is  *)
(* a step; tasks of the event loop interleave between them. A crash drops    *)
(* every task and what they hold, and keeps the documents, the cards in the  *)
(* chat and the effects. The initialisation after it is a cleanup without    *)
(* scheduling, and then a scheduling.                                        *)
(*                                                                           *)
(* What a validation answers, what an execution comes to and what Discord    *)
(* does with a card are choices. An orderly shutdown is a crash at a moment  *)
(* after the tasks' last write. The cleanups a click or a cancellation start *)
(* themselves are turns of the cleanup loop.                                 *)
EXTENDS ActionStore

CONSTANTS
    Membro,         \* [plans -> members]: who asked
    MaxAcoes,       \* MAX_CONCURRENT_ACTIONS
    Cliques,        \* clicks on cards
    MaxQuedas       \* bound: crashes

ASSUME ServicoAssumption ==
    /\ MaxAcoes \in Nat \ {0} /\ MaxQuedas \in Nat
    /\ DOMAIN Membro = Planos
    /\ Cliques \cap Pedidos = {}     \* a click is no request

VARIABLES
    ready,          \* ActionService.ready
    reservas,       \* _active_users
    criador,        \* [Planos -> the turn that stores it], where it is
    ativacao,       \* [Pedidos -> the task of _schedule], "fora" without one
    execucao,       \* [Pedidos -> _execute]
    clique,         \* [Cliques -> handle_interaction]
    limpeza,        \* the cleanup: where it is
    lote,           \* [Varredores -> documents a cursor has still to give]
    cauda,          \* [Donos -> descendants still to be cancelled]
    chat,           \* [Pedidos -> cards sent for it, and is one still there?]
    efeitos,        \* [Pedidos -> Nat]: effects on Discord
    quedas

tarefas == <<criador, ativacao, execucao, clique, limpeza, lote, cauda, reservas>>
mundo == <<chat, efeitos, quedas>>
vars == <<docs, ready, tarefas, mundo>>

\* Who runs _cancel_descendants, and who runs recover_ready or another query.
Donos == ({"exec", "ativ"} \X Pedidos) \cup ({"clique"} \X Cliques)
            \cup {<<"limpeza", 0>>, <<"usuario", 0>>}
Limpeza == <<"limpeza", 0>>
Usuario == <<"usuario", 0>>
Varredores == ({"exec"} \X Pedidos) \cup {Limpeza}

Dono(p) == Membro[p[1]]
Parada == [pc |-> "fora", res |-> "", token |-> 0]

Init ==
    /\ docs = [p \in Pedidos |-> Ausente]
    /\ ready = TRUE
    /\ reservas = {}
    /\ criador = [a \in Planos |-> "fora"]
    /\ ativacao = [p \in Pedidos |-> "fora"]
    /\ execucao = [p \in Pedidos |-> Parada]
    /\ clique = [k \in Cliques |-> [pc |-> "fora", p |-> <<>>]]
    /\ limpeza = "fora"
    /\ lote = [o \in Varredores |-> {}]
    /\ cauda = [o \in Donos |-> {}]
    /\ chat = [p \in Pedidos |-> [enviados |-> 0, vivo |-> FALSE]]
    /\ efeitos = [p \in Pedidos |-> 0]
    /\ quedas = 0

\* Shorthands: a task moves on, and who else does not.
Ativ(p, pc) == ativacao' = [ativacao EXCEPT ![p] = pc]
Exec(p, pc) == execucao' = [execucao EXCEPT ![p].pc = pc]
Click(k, pc) == clique' = [clique EXCEPT ![k].pc = pc]

-----------------------------------------------------------------------------
\* Pieces shared by the tasks.

\* _reserve: one action of a member at a time, MaxAcoes in all.
Cabe(p) == Dono(p) \notin reservas /\ Cardinality(reservas) < MaxAcoes

Reserve(p) == reservas' = reservas \cup {Dono(p)}
Release(p) == reservas' = reservas \ {Dono(p)}

\* An update to a terminal state, and the descendants to cancel next.
Encerrar(o, p, estado) ==
    /\ Passar(p, estado)
    /\ cauda' = [cauda EXCEPT ![o] = Descendentes(p)]

\* One turn of _cancel_descendants.
CancelDescendants(o) ==
    /\ \E q \in cauda[o] :
          /\ cauda' = [cauda EXCEPT ![o] = @ \ {q}]
          /\ IF Em(q, Cancelaveis) THEN Passar(q, "cancelled") ELSE UNCHANGED docs
    /\ UNCHANGED <<ready, criador, ativacao, execucao, clique, limpeza, lote,
                   reservas, mundo>>

\* _delete_card: the card goes and is marked, or goes and the mark is lost, or
\* Discord refuses.
DeleteCard(p) ==
    \/ /\ docs[p].message /\ ~docs[p].removed
       /\ chat' = [chat EXCEPT ![p].vivo = FALSE]
       /\ \/ docs' = [docs EXCEPT ![p].removed = TRUE]
          \/ UNCHANGED docs
    \/ UNCHANGED <<docs, chat>>

\* _schedule: a task for each ready step that has none.
Schedule(ativ, ps) ==
    [p \in Pedidos |-> IF ready /\ p \in ps /\ ativ[p] = "fora" THEN "lendo" ELSE ativ[p]]

-----------------------------------------------------------------------------
\* create_plan and bind_and_start.

\* The turn inserts the steps one by one, activates the first and schedules it.
CreatePlan(a) ==
    /\ criador[a] = "fora" /\ ready
    /\ criador' = [criador EXCEPT ![a] = "inserindo"]
    /\ UNCHANGED <<docs, ready, ativacao, execucao, clique, limpeza, lote,
                   cauda, reservas, mundo>>

Inserir(a) ==
    /\ criador[a] = "inserindo"
    /\ \E p \in DoPlano(a) :
          /\ docs[p].state = "ausente"
          /\ \A q \in Anteriores[p] : docs[q].state # "ausente"
          /\ Passar(p, "blocked")
    /\ UNCHANGED <<ready, tarefas, mundo>>

AtivarPrimeira(a) ==
    /\ criador[a] = "inserindo" /\ Completo(a)
    /\ IF Ativavel(<<a, 1>>) THEN Activate(<<a, 1>>) ELSE UNCHANGED docs
    /\ criador' = [criador EXCEPT ![a] = "ligando"]
    /\ UNCHANGED <<ready, ativacao, execucao, clique, limpeza, lote, cauda,
                   reservas, mundo>>

BindAndStart(a) ==
    /\ criador[a] = "ligando"
    /\ criador' = [criador EXCEPT ![a] = "fim"]
    /\ ativacao' = Schedule(ativacao, {<<a, 1>>})
    /\ UNCHANGED <<docs, ready, execucao, clique, limpeza, lote, cauda,
                   reservas, mundo>>

\* A write of the turn fails: it ends, whatever is stored.
FalharCriacao(a) ==
    /\ criador[a] \in {"inserindo", "ligando"}
    /\ criador' = [criador EXCEPT ![a] = "fim"]
    /\ UNCHANGED <<docs, ready, ativacao, execucao, clique, limpeza, lote,
                   cauda, reservas, mundo>>

-----------------------------------------------------------------------------
\* _activate: automatic steps are armed and claimed, the others get a card.

\* The reservation of an automatic step: a busy member leaves it pending.
Tentar(p) ==
    IF Cabe(p) THEN Reserve(p) /\ Ativ(p, "reclamando")
               ELSE UNCHANGED reservas /\ Ativ(p, "fora")

Ler(p) ==
    /\ ativacao[p] = "lendo"
    /\ \/ /\ Tipo(p) = "auto" /\ Em(p, {"pending"})
          /\ Tentar(p)
       \/ /\ ~(Tipo(p) = "auto" /\ Em(p, {"pending"}))
          /\ Ativ(p, IF ~Em(p, {"created"}) THEN "fora"
                     ELSE IF Tipo(p) = "auto" THEN "armando" ELSE "publicando")
          /\ UNCHANGED reservas
    /\ UNCHANGED <<docs, ready, criador, execucao, clique, limpeza, lote,
                   cauda, mundo>>

ArmAutomatic(p) ==
    /\ ativacao[p] = "armando"
    /\ IF Armavel(p) THEN Passar(p, "pending") /\ Ativ(p, "relendo")
                     ELSE UNCHANGED docs /\ Ativ(p, "fora")
    /\ UNCHANGED <<ready, criador, execucao, clique, limpeza, lote, cauda,
                   reservas, mundo>>

\* The document is read again, and _start_automatic.
Reler(p) ==
    /\ ativacao[p] = "relendo"
    /\ IF Em(p, {"pending"}) THEN Tentar(p)
                             ELSE UNCHANGED reservas /\ Ativ(p, "fora")
    /\ UNCHANGED <<docs, ready, criador, execucao, clique, limpeza, lote,
                   cauda, mundo>>

Iniciada(p, n) == execucao' = [execucao EXCEPT ![p] =
                      [pc |-> "preparando", res |-> "", token |-> n]]

\* claim_automatic; the task goes on with the execution.
ClaimAutomatic(p) ==
    /\ ativacao[p] = "reclamando"
    /\ \/ /\ Reclamavel(p) /\ ~docs[p].message
          /\ Claim(p)
          /\ Iniciada(p, docs[p].claims + 1)
          /\ Ativ(p, "executando")
          /\ UNCHANGED reservas
       \/ /\ ~(Reclamavel(p) /\ ~docs[p].message)
          /\ Release(p) /\ Ativ(p, "fora")
          /\ UNCHANGED <<docs, execucao>>
    /\ UNCHANGED <<ready, criador, clique, limpeza, lote, cauda, mundo>>

ClaimPublication(p) ==
    /\ ativacao[p] = "publicando"
    /\ IF Publicavel(p) THEN Passar(p, "publishing") /\ Ativ(p, "conferindo")
                        ELSE UNCHANGED docs /\ Ativ(p, "fora")
    /\ UNCHANGED <<ready, criador, execucao, clique, limpeza, lote, cauda,
                   reservas, mundo>>

\* The checks and channel.send: denied, sent, or nobody knows.
Enviar(p) ==
    /\ ativacao[p] = "conferindo"
    /\ \/ Ativ(p, "negada") /\ UNCHANGED chat
       \/ Ativ(p, "incerta") /\ UNCHANGED chat
       \/ /\ chat' = [chat EXCEPT ![p] = [enviados |-> @.enviados + 1, vivo |-> TRUE]]
          /\ Ativ(p, "vinculando") \/ Ativ(p, "incerta")
    /\ UNCHANGED <<docs, ready, criador, execucao, clique, limpeza, lote, cauda,
                   reservas, efeitos, quedas>>

\* bind: the card now decides for the request, unless this ended meanwhile. A
\* failure of the write may come before or after it.
Vincular(p) ==
    /\ ativacao[p] = "vinculando"
    /\ \/ Vinculavel(p) /\ Bind(p) /\ (Ativ(p, "fora") \/ Ativ(p, "perdida"))
       \/ ~Vinculavel(p) /\ UNCHANGED docs /\ Ativ(p, "recolhendo")
       \/ UNCHANGED docs /\ Ativ(p, "perdida")
    /\ UNCHANGED <<ready, criador, execucao, clique, limpeza, lote, cauda,
                   reservas, mundo>>

\* Faulty variant: a publication nobody confirmed is offered again.
FailUnpublishedRefeita(p) ==
    /\ ativacao[p] \in {"negada", "incerta", "perdida"}
    /\ IF Em(p, {"created", "publishing"})
       THEN IF ativacao[p] = "incerta"
            THEN Passar(p, "created") /\ UNCHANGED cauda
            ELSE Encerrar(<<"ativ", p>>, p, "failed")
       ELSE UNCHANGED <<docs, cauda>>
    /\ Ativ(p, IF ativacao[p] = "perdida" THEN "recolhendo" ELSE "saindo")
    /\ UNCHANGED <<ready, criador, execucao, clique, limpeza, lote, reservas, mundo>>

\* fail_unpublished, and the card that nobody will bind is taken back.
FailUnpublished(p) ==
    /\ ativacao[p] \in {"negada", "incerta", "perdida"}
    /\ IF Em(p, {"created", "publishing"})
       THEN Encerrar(<<"ativ", p>>, p, IF ativacao[p] = "negada" THEN "failed" ELSE "uncertain")
       ELSE UNCHANGED <<docs, cauda>>
    /\ Ativ(p, IF ativacao[p] = "perdida" THEN "recolhendo" ELSE "saindo")
    /\ UNCHANGED <<ready, criador, execucao, clique, limpeza, lote, reservas, mundo>>

Recolher(p) ==
    /\ ativacao[p] = "recolhendo" /\ cauda[<<"ativ", p>>] = {}
    /\ chat' = [chat EXCEPT ![p].vivo = FALSE] \/ UNCHANGED chat
    /\ Ativ(p, "fora")
    /\ UNCHANGED <<docs, ready, criador, execucao, clique, limpeza, lote, cauda,
                   reservas, efeitos, quedas>>

Sair(p) ==
    /\ ativacao[p] = "saindo" /\ cauda[<<"ativ", p>>] = {}
    /\ Ativ(p, "fora")
    /\ UNCHANGED <<docs, ready, criador, execucao, clique, limpeza, lote, cauda,
                   reservas, mundo>>

-----------------------------------------------------------------------------
\* _execute, after a claim.

\* The checks: refused, failing in an unknown way, or the action starts.
Preparar(p) ==
    /\ execucao[p].pc = "preparando"
    /\ \/ Exec(p, "efeito")
       \/ \E r \in {"failed", "uncertain"} :
             execucao' = [execucao EXCEPT ![p].pc = "finalizando", ![p].res = r]
    /\ UNCHANGED <<docs, ready, criador, ativacao, clique, limpeza, lote, cauda,
                   reservas, mundo>>

\* The action takes effect: Discord bans, speaks, connects.
Efetuar(p) ==
    /\ execucao[p].pc = "efeito" /\ execucao[p].res = ""
    /\ efeitos' = [efeitos EXCEPT ![p] = @ + 1]
    /\ execucao' = [execucao EXCEPT ![p].res = "feito"]
    /\ UNCHANGED <<docs, ready, criador, ativacao, clique, limpeza, lote, cauda,
                   reservas, chat, quedas>>

\* Its outcome: a receipt, a refusal (speak_voice may also end in one after the
\* audio was sent), or a time limit and other errors that tell nothing.
Resultado(p) ==
    /\ execucao[p].pc = "efeito"
    /\ \E r \in {"failed", "uncertain"} \cup
                IF execucao[p].res = "feito" THEN {"succeeded"} ELSE {} :
          execucao' = [execucao EXCEPT ![p].pc = "finalizando", ![p].res = r]
    /\ UNCHANGED <<docs, ready, criador, ativacao, clique, limpeza, lote, cauda,
                   reservas, mundo>>

\* finish: only the claim that is executing. The write may fail, before or after
\* it: the task ends there, without its scheduling.
Finish(p) ==
    LET e == execucao[p]
    IN  /\ e.pc = "finalizando"
        /\ \/ /\ Em(p, {"executing"}) /\ docs[p].claims = e.token
              /\ IF e.res = "succeeded" THEN Passar(p, e.res) /\ UNCHANGED cauda
                                        ELSE Encerrar(<<"exec", p>>, p, e.res)
              /\ Exec(p, IF e.res = "succeeded" THEN "avancando" ELSE "cortando")
           \/ /\ ~(Em(p, {"executing"}) /\ docs[p].claims = e.token)
              /\ UNCHANGED <<docs, cauda>>
              /\ Exec(p, "apagando")
           \/ /\ \/ UNCHANGED docs
                 \/ Em(p, {"executing"}) /\ docs[p].claims = e.token /\ Passar(p, e.res)
              /\ UNCHANGED cauda
              /\ Exec(p, "falhou")
    /\ UNCHANGED <<ready, criador, ativacao, clique, limpeza, lote, reservas, mundo>>

\* _advance: the next step becomes ready.
Advance(p) ==
    /\ execucao[p].pc = "avancando"
    /\ LET prox == {q \in Pedidos : p \in Anteriores[q] /\ Ativavel(q)}
       IN  IF prox = {} THEN UNCHANGED docs ELSE \E q \in prox : Activate(q)
    /\ Exec(p, "apagando")
    /\ UNCHANGED <<ready, criador, ativacao, clique, limpeza, lote, cauda,
                   reservas, mundo>>

\* The execution is over, and with it the task of an automatic step.
Terminada(p, ativ) ==
    /\ execucao' = [execucao EXCEPT ![p] = Parada]
    /\ ativacao' = [ativ EXCEPT ![p] = IF @ = "executando" THEN "fora" ELSE @]

ApagarCartao(p) ==
    /\ \/ execucao[p].pc = "apagando"
       \/ execucao[p].pc = "cortando" /\ cauda[<<"exec", p>>] = {}
    /\ DeleteCard(p)
    /\ Exec(p, "soltando")
    /\ UNCHANGED <<ready, criador, ativacao, clique, limpeza, lote, cauda,
                   reservas, efeitos, quedas>>

Soltar(p) ==
    /\ Release(p)
    /\ \/ /\ execucao[p].pc = "soltando"
          /\ Exec(p, "consultando") /\ UNCHANGED ativacao
       \/ /\ execucao[p].pc = "falhou"
          /\ Terminada(p, ativacao)
    /\ UNCHANGED <<docs, ready, criador, clique, limpeza, lote, cauda, mundo>>

-----------------------------------------------------------------------------
\* recover_ready and _schedule_ready, at the end of an execution or a cleanup.

Bloqueados == {p \in Pedidos : Em(p, {"blocked"})}

Consultar(p) ==
    /\ execucao[p].pc = "consultando"
    /\ lote' = [lote EXCEPT ![<<"exec", p>>] = Bloqueados]
    /\ Exec(p, "agendando")
    /\ UNCHANGED <<docs, ready, criador, ativacao, clique, limpeza, cauda,
                   reservas, mundo>>

\* Faulty variant: what waits for a step that failed keeps waiting.
RecoverReadySemCorte(o) ==
    /\ cauda[o] = {}
    /\ \E p \in lote[o] :
          /\ lote' = [lote EXCEPT ![o] = @ \ {p}]
          /\ IF Ativavel(p) THEN Activate(p) ELSE UNCHANGED docs
    /\ UNCHANGED <<ready, criador, ativacao, execucao, clique, limpeza, cauda,
                   reservas, mundo>>

\* A blocked step: it goes on, or its plan has ended, or it has to wait.
RecoverReady(o) ==
    /\ cauda[o] = {}
    /\ \E p \in lote[o] :
          /\ lote' = [lote EXCEPT ![o] = @ \ {p}]
          /\ IF Ativavel(p) THEN Activate(p) /\ UNCHANGED cauda
             ELSE /\ UNCHANGED docs
                  /\ cauda' = [cauda EXCEPT ![o] =
                        UNION {Descendentes(q) : q \in
                          {q \in Anteriores[p] : Em(q, TERMINAL_STATES \ {"succeeded"})}}]
    /\ UNCHANGED <<ready, criador, ativacao, execucao, clique, limpeza,
                   reservas, mundo>>

\* The ready steps get a task each, and the execution is over.
ScheduleReady(p) ==
    /\ execucao[p].pc = "agendando"
    /\ lote[<<"exec", p>>] = {} /\ cauda[<<"exec", p>>] = {}
    /\ Terminada(p, Schedule(ativacao, Prontos))
    /\ UNCHANGED <<docs, ready, criador, clique, limpeza, lote, cauda, reservas, mundo>>

-----------------------------------------------------------------------------
\* handle_interaction: a click on the card of a request.

Clicar(k, p) ==
    /\ clique[k].pc = "fora" /\ ready
    /\ chat[p].vivo /\ docs[p].message /\ Em(p, {"pending"})
    /\ clique' = [clique EXCEPT ![k] = [pc |-> "validando", p |-> p]]
    /\ UNCHANGED <<docs, ready, criador, ativacao, execucao, limpeza, lote, cauda,
                   reservas, mundo>>

Negar(k) ==
    /\ clique[k].pc = "validando"
    /\ Click(k, "fim")
    /\ UNCHANGED <<docs, ready, criador, ativacao, execucao, limpeza, lote, cauda,
                   reservas, mundo>>

Reject(k) ==
    LET p == clique[k].p
    IN  /\ clique[k].pc = "validando"
        /\ \/ Reclamavel(p) /\ Encerrar(<<"clique", k>>, p, "rejected") /\ Click(k, "rejeitado")
           \/ ~Reclamavel(p) /\ UNCHANGED <<docs, cauda>> /\ Click(k, "fim")
        /\ UNCHANGED <<ready, criador, ativacao, execucao, limpeza, lote, reservas, mundo>>

ApagarRejeitado(k) ==
    /\ clique[k].pc = "rejeitado" /\ cauda[<<"clique", k>>] = {}
    /\ DeleteCard(clique[k].p)
    /\ Click(k, "fim")
    /\ UNCHANGED <<ready, criador, ativacao, execucao, limpeza, lote, cauda,
                   reservas, efeitos, quedas>>

\* Faulty variant: a click that found the member busy releases all the same.
ReservarSoltando(k) ==
    LET p == clique[k].p
    IN  /\ clique[k].pc = "validando"
        /\ IF Cabe(p) THEN Reserve(p) /\ Click(k, "reservado")
                      ELSE Release(p) /\ Click(k, "fim")
        /\ UNCHANGED <<docs, ready, criador, ativacao, execucao, limpeza, lote,
                       cauda, mundo>>

Reservar(k) ==
    LET p == clique[k].p
    IN  /\ clique[k].pc = "validando"
        /\ IF Cabe(p) THEN Reserve(p) /\ Click(k, "reservado")
                      ELSE UNCHANGED reservas /\ Click(k, "fim")
        /\ UNCHANGED <<docs, ready, criador, ativacao, execucao, limpeza, lote,
                       cauda, mundo>>

Aprovar(k) ==
    LET p == clique[k].p
    IN  /\ clique[k].pc = "reservado"
        /\ \/ Reclamavel(p) /\ Claim(p) /\ UNCHANGED reservas /\ Click(k, "aprovado")
           \/ ~Reclamavel(p) /\ UNCHANGED docs /\ Release(p) /\ Click(k, "fim")
        /\ UNCHANGED <<ready, criador, ativacao, execucao, limpeza, lote, cauda, mundo>>

\* The card goes and the execution starts. A write that fails on the way ends
\* the click: the request stays executing, and nobody executes it.
Executar(k) ==
    LET p == clique[k].p
    IN  /\ clique[k].pc = "aprovado"
        /\ Click(k, "fim")
        /\ \/ DeleteCard(p) /\ Iniciada(p, docs[p].claims) /\ UNCHANGED reservas
           \/ DeleteCard(p) /\ Release(p) /\ UNCHANGED execucao
        /\ UNCHANGED <<ready, criador, ativacao, limpeza, lote, cauda, efeitos, quedas>>

-----------------------------------------------------------------------------
\* The cleanup, every two minutes and when the bot starts.

Depois == [fora |-> "expirar", inicio |-> "expirar", expirar |-> "parciais",
           parciais |-> "executando", executando |-> "publicando",
           publicando |-> "cartoes", cartoes |-> "prontos", prontos |-> "fora"]

\* Faulty variant: a stale execution is offered again.
EstadoFinalRefeito == [expirar |-> "expired", parciais |-> "expired",
                executando |-> "created", publicando |-> "uncertain"]

EstadoFinal == [expirar |-> "expired", parciais |-> "expired",
                executando |-> "uncertain", publicando |-> "uncertain"]

Consulta(fase) ==
    CASE fase = "expirar" -> Vencidos   [] fase = "parciais" -> Parciais
      [] fase = "executando" -> Executando [] fase = "publicando" -> Publicando
      [] fase = "cartoes" -> Cartoes    [] fase = "prontos" -> Bloqueados
      [] OTHER -> {}

\* The next query of the cleanup. The start of the bot sets ready before it
\* schedules.
ProximaFase ==
    /\ lote[Limpeza] = {} /\ cauda[Limpeza] = {} /\ limpeza # "prontos"
    /\ limpeza' = Depois[limpeza]
    /\ lote' = [lote EXCEPT ![Limpeza] = Consulta(limpeza')]
    /\ ready' = (ready \/ limpeza = "cartoes")
    /\ UNCHANGED <<docs, criador, ativacao, execucao, clique, cauda, reservas, mundo>>

\* A document of the query, if it still matches: it ends, with its tail. That a
\* plan is incomplete was read before, and may no longer be so.
Varrer ==
    /\ limpeza \in DOMAIN EstadoFinal /\ cauda[Limpeza] = {}
    /\ \E p \in lote[Limpeza] :
          /\ lote' = [lote EXCEPT ![Limpeza] = @ \ {p}]
          /\ \/ /\ p \in Consulta(limpeza) \/ (limpeza = "parciais" /\ Em(p, {"blocked"}))
                /\ Encerrar(Limpeza, p, EstadoFinal[limpeza])
             \/ p \notin Consulta(limpeza) /\ UNCHANGED <<docs, cauda>>
    /\ UNCHANGED <<ready, criador, ativacao, execucao, clique, limpeza, reservas, mundo>>

VarrerCartao ==
    /\ limpeza = "cartoes"
    /\ \E p \in lote[Limpeza] :
          /\ lote' = [lote EXCEPT ![Limpeza] = @ \ {p}]
          /\ DeleteCard(p)
    /\ UNCHANGED <<ready, criador, ativacao, execucao, clique, limpeza, cauda,
                   reservas, efeitos, quedas>>

Agendar ==
    /\ limpeza = "prontos" /\ lote[Limpeza] = {} /\ cauda[Limpeza] = {}
    /\ limpeza' = "fora"
    /\ ativacao' = Schedule(ativacao, Prontos)
    /\ UNCHANGED <<docs, ready, criador, execucao, clique, lote, cauda, reservas, mundo>>

-----------------------------------------------------------------------------
\* The member cancels a request, time passes, the process dies.

CancelOwnPending(p) ==
    /\ Em(p, Cancelaveis) /\ cauda[Usuario] = {}
    /\ Encerrar(Usuario, p, "cancelled")
    /\ UNCHANGED <<ready, criador, ativacao, execucao, clique, limpeza, lote,
                   reservas, mundo>>

Passa(p) ==
    /\ Vencer(p) \/ Envelhecer(p)
    /\ UNCHANGED <<ready, tarefas, mundo>>

Cair ==
    /\ quedas < MaxQuedas /\ quedas' = quedas + 1
    /\ ready' = FALSE
    /\ reservas' = {}
    /\ criador' = [a \in Planos |-> IF criador[a] = "fora" THEN "fora" ELSE "fim"]
    /\ ativacao' = [p \in Pedidos |-> "fora"]
    /\ execucao' = [p \in Pedidos |-> Parada]
    /\ clique' = [k \in Cliques |-> IF clique[k].pc = "fora" THEN clique[k]
                                    ELSE [clique[k] EXCEPT !.pc = "fim"]]
    /\ limpeza' = "inicio"
    /\ lote' = [o \in Varredores |-> {}]
    /\ cauda' = [o \in Donos |-> {}]
    /\ UNCHANGED <<docs, chat, efeitos>>

-----------------------------------------------------------------------------
Criacao(a) == Inserir(a) \/ AtivarPrimeira(a) \/ BindAndStart(a)

Ativacao(p) ==
    \/ Ler(p) \/ ArmAutomatic(p) \/ Reler(p) \/ ClaimAutomatic(p)
    \/ ClaimPublication(p) \/ Enviar(p) \/ Vincular(p) \/ FailUnpublished(p)
    \/ Recolher(p) \/ Sair(p) \/ CancelDescendants(<<"ativ", p>>)

\* What an execution does on its own; the effect itself is Discord's.
Execucao(p) ==
    \/ Preparar(p) \/ Resultado(p) \/ Finish(p) \/ Advance(p) \/ ApagarCartao(p)
    \/ Soltar(p) \/ Consultar(p) \/ ScheduleReady(p)
    \/ RecoverReady(<<"exec", p>>) \/ CancelDescendants(<<"exec", p>>)

Decisao(k) ==
    \/ Negar(k) \/ Reject(k) \/ ApagarRejeitado(k) \/ Reservar(k) \/ Aprovar(k)
    \/ Executar(k) \/ CancelDescendants(<<"clique", k>>)

Cleanup ==
    \/ ProximaFase \/ Varrer \/ VarrerCartao \/ Agendar
    \/ limpeza = "prontos" /\ RecoverReady(Limpeza)
    \/ CancelDescendants(Limpeza)

Next ==
    \/ \E a \in Planos : CreatePlan(a) \/ Criacao(a) \/ FalharCriacao(a)
    \/ \E p \in Pedidos :
          Ativacao(p) \/ Execucao(p) \/ Efetuar(p) \/ CancelOwnPending(p) \/ Passa(p)
    \/ \E k \in Cliques : Decisao(k) \/ \E p \in Pedidos : Clicar(k, p)
    \/ Cleanup \/ CancelDescendants(Usuario) \/ Cair

Spec == Init /\ [][Next]_vars

\* The loop runs tasks that can go on, every await ends (executions have a time
\* limit), the cleanup comes round again, and time passes.
Justica ==
    /\ \A a \in Planos : WF_vars(Criacao(a))
    /\ \A p \in Pedidos : WF_vars(Ativacao(p)) /\ WF_vars(Execucao(p)) /\ WF_vars(Passa(p))
    /\ \A k \in Cliques : WF_vars(Decisao(k))
    /\ WF_vars(Cleanup) /\ WF_vars(CancelDescendants(Usuario))

FairSpec == Spec /\ Justica

-----------------------------------------------------------------------------
\* Properties.

TypeOK ==
    /\ reservas \subseteq {Membro[a] : a \in Planos}
    /\ Cardinality(reservas) <= MaxAcoes
    /\ \A p \in Pedidos :
          /\ Em(p, TERMINAL_STATES \cup Cancelaveis \cup {"ausente", "executing"})
          /\ docs[p].claims \in Nat /\ efeitos[p] \in Nat
          /\ ativacao[p] \in {"fora", "lendo", "armando", "relendo", "reclamando",
                              "executando", "publicando", "conferindo", "vinculando",
                              "negada", "incerta", "perdida", "recolhendo", "saindo"}
          /\ execucao[p].pc \in {"fora", "preparando", "efeito", "finalizando",
                                 "avancando", "cortando", "apagando", "soltando", "falhou",
                                 "consultando", "agendando"}
    /\ \A k \in Cliques : clique[k].p \in Pedidos \cup {<<>>}
    /\ limpeza \in DOMAIN Depois

\* The service keeps the promise of PlanoDeAcoes: across crashes, expiries,
\* cancellations and recoveries, a step starts once and after its predecessor
\* succeeded, its effect happens at most once, and decisions are final.
Fase(p) ==
    CASE Em(p, {"executing"}) -> "executando"
      [] Em(p, {"succeeded"}) -> "sucesso"
      [] Em(p, TERMINAL_STATES \ {"succeeded"}) -> "encerrado"
      [] OTHER -> "aberto"

Plano == INSTANCE PlanoDeAcoes
            WITH fase <- [p \in Pedidos |-> Fase(p)],
                 iniciada <- [p \in Pedidos |-> docs[p].claims > 0]
EPlano == Plano!Spec

\* A plan interrupted while it was stored never offers a step: no card, no
\* arming, no execution.
PlanoInteiro ==
    \A p \in Pedidos : ~Completo(p[1]) =>
        Em(p, {"ausente", "blocked", "expired", "cancelled"})

\* The tasks that act for a member: a reserved click, a claim, an execution.
Ocupados(m) ==
    {k \in Cliques : clique[k].pc \in {"reservado", "aprovado"} /\ Dono(clique[k].p) = m}
    \cup {p \in Pedidos :
            /\ Dono(p) = m
            /\ \/ ativacao[p] = "reclamando"
               \/ execucao[p].pc \notin {"fora", "consultando", "agendando"}}

\* _active_users names the members somebody acts for, one task each: nobody
\* gives back the place of another, and none is lost.
ReservaExata ==
    /\ TypeOK
    /\ \A a \in Planos :
          Cardinality(Ocupados(Membro[a])) = IF Membro[a] \in reservas THEN 1 ELSE 0

\* A request gets one card at most, however often it is recovered.
UmCartao == \A p \in Pedidos : chat[p].enviados <= 1

\* Every step that was stored is decided in the end: a step whose turn came is
\* offered, one that lost its plan is closed, and none waits forever. As plans
\* are finitely many, there is always a time when nothing is left undecided.
TudoTermina == []<>(\A p \in Pedidos : Em(p, TERMINAL_STATES \cup {"ausente"}))

=============================================================================
