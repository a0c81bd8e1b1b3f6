--------------------------- MODULE GuildTTSQueue ---------------------------
(* The speech queue of one guild in src/cogs/tts: admission of messages,     *)
(* the worker task with its prefetch, and what clears, disables or shuts it  *)
(* down. One event loop: a piece of code between two awaits is a step, and a *)
(* cancellation is delivered at the await the task is suspended in (Python   *)
(* 3.11, the version of the Dockerfile). What a speech goes through between  *)
(* its connection and its end is one suspended step of the worker.           *)
EXTENDS Naturals, Sequences, FiniteSets, SequencesExt, FiniteSetsExt

CONSTANTS
    Mensagens,    \* messages that may be sent, each once
    Texto,        \* Texto[m]: the dedup signatures of the parts of m
    Capacidade,   \* TTS_QUEUE_MAXSIZE
    Limpadores,   \* calls of _clear_queue_only
    MaxPainel,    \* bound on the changes of the dashboard switch
    Ambiente      \* "encerrar": shutdown; "sair": the guild goes away;
                  \* "vazia": the bot may be left alone in the call

Textos == UNION {Range(Texto[m]) : m \in Mensagens}

ASSUME FilaAssumption ==
    /\ IsFiniteSet(Mensagens) /\ IsFiniteSet(Limpadores)
    /\ Capacidade \in Nat \ {0} /\ MaxPainel \in Nat
    /\ \A m \in Mensagens : Texto[m] \in Seq(Textos) \ {<<>>}

\* Item i of the n-th accepted message; generation it was stamped with.
Nada == [n |-> 0, i |-> 0, ger |-> 0]

VARIABLES
    estado,      \* the GuildTTSState of the guild, Fresco while there is none
    w,           \* the worker task and its locals
    limpador,    \* where each _clear_queue_only is
    msg,         \* where the task of each message is
    encerrando,  \* _tts_shutting_down
    naGuilda,    \* bot.get_guild(guild_id) is not None
    sozinho,     \* the call has no humans, or the bot is out of it
    mudancas,    \* dashboard changes so far
    aceitas,     \* history: messages accepted, in order
    tocada,      \* history: the last item whose speech started
    tirada,      \* history: the last item taken from the queue to be spoken
    corte,       \* history: Len(aceitas) when the last clear began
    abandonadas, \* history: items a worker left without task_done
    deixada      \* history: the last worker ended beside a message that had
                 \* arrived while it was ending

ambiente == <<limpador, msg, encerrando, naGuilda, sozinho, mudancas, corte>>
vars == <<estado, w, ambiente, aceitas, tocada, tirada, abandonadas,
          deixada>>

\* orfa: an arrival prefetch task that nobody collects waits on the queue.
Fresco == [existe |-> FALSE, queue |-> <<>>, unfinished |-> 0,
           pending |-> [s \in Textos |-> 0], accepting |-> TRUE,
           dashboard |-> TRUE, generation |-> 0, orfa |-> FALSE]

\* esperando, trazida: the arrival prefetch task waits, or brought an item.
SemWorker == [pc |-> "nenhum", ger |-> 0, item |-> Nada, adiantado |-> Nada,
              esperando |-> FALSE, trazida |-> Nada, cancelado |-> FALSE,
              pedido |-> FALSE, propaga |-> FALSE]

Init ==
    /\ estado = Fresco
    /\ w = SemWorker
    /\ limpador = [c \in Limpadores |-> "fora"]
    /\ msg = [m \in Mensagens |-> "fora"]
    /\ encerrando = FALSE
    /\ naGuilda = TRUE
    /\ sozinho = FALSE
    /\ mudancas = 0
    /\ aceitas = <<>>
    /\ tocada = Nada
    /\ tirada = Nada
    /\ corte = 0
    /\ abandonadas = 0
    /\ deixada = FALSE

Sig(it) == Texto[aceitas[it.n]][it.i]

\* _decrement_pending_signature, once for each item of its.
SemContar(p, its) ==
    [s \in Textos |->
        LET c == Cardinality({k \in DOMAIN its : Sig(its[k]) = s})
        IN  IF p[s] > c THEN p[s] - c ELSE 0]

\* The first k items are taken out for good: signatures and task_done.
Descartar(e, k) ==
    [e EXCEPT !.queue = SubSeq(@, k + 1, Len(@)),
              !.pending = SemContar(@, SubSeq(e.queue, 1, k)),
              !.unfinished = @ - k]

\* Faulty variant: a prefetch does not count its signature out.
TirarSemContar(e) == [e EXCEPT !.queue = Tail(@)]

\* get_nowait by a prefetch, with its signature, as one step.
Tirar(e) ==
    [e EXCEPT !.queue = Tail(@), !.pending = SemContar(@, <<Head(e.queue)>>)]

-----------------------------------------------------------------------------
\* Admission.

\* Faulty variant: the oldest items go, whatever message they are part of.
CorteParcial(k) == IF Len(estado.queue) + k > Capacidade
                   THEN Len(estado.queue) + k - Capacidade ELSE 0

\* How many of the oldest items leave for k new ones: whole messages, as few
\* as make room.
Corte(k) ==
    LET q == estado.queue
    IN  Min({j \in 0..Len(q) : /\ Len(q) - j + k <= Capacidade
                               /\ j \in {0, Len(q)} \/ q[j].n # q[j + 1].n})

\* Faulty variant: only the message that creates the state starts a worker.
ComWorkerSoNovo(e) ==
    IF e.accepting /\ ~encerrando /\ w.pc = "nenhum" /\ ~estado.existe
    THEN [SemWorker EXCEPT !.pc = "criado"] ELSE w

\* _ensure_worker, on the state e.
ComWorker(e) ==
    IF e.accepting /\ ~encerrando /\ w.pc = "nenhum"
    THEN [SemWorker EXCEPT !.pc = "criado"] ELSE w

PodeAceitar(m) ==
    /\ estado.accepting /\ estado.dashboard
    /\ \E k \in DOMAIN Texto[m] : estado.pending[Texto[m][k]] = 0
    /\ Len(Texto[m]) <= Capacidade

\* _enqueue_tts_items, then _ensure_worker: the whole message gets in.
Aceitar(m) ==
    /\ msg[m] = "fora" /\ PodeAceitar(m)
    /\ LET novos == [k \in DOMAIN Texto[m] |->
                       [n |-> Len(aceitas) + 1, i |-> k,
                        ger |-> estado.generation]]
           livre == Descartar(estado, Corte(Len(novos)))
           e == [livre EXCEPT !.existe = TRUE, !.queue = @ \o novos,
                   !.unfinished = @ + Len(novos),
                   !.pending = [s \in Textos |-> @[s] +
                      Cardinality({k \in DOMAIN novos : Texto[m][k] = s})]]
       IN  estado' = e /\ w' = ComWorker(e)
    /\ aceitas' = Append(aceitas, m)
    /\ msg' = [msg EXCEPT ![m] = "feita"]
    /\ UNCHANGED <<limpador, encerrando, naGuilda, sozinho, mudancas, corte,
                   tocada, tirada, abandonadas, deixada>>

\* All its signatures are pending: a duplicate, dropped without a notice.
Repetir(m) ==
    /\ msg[m] = "fora" /\ estado.accepting /\ estado.dashboard
    /\ \A k \in DOMAIN Texto[m] : estado.pending[Texto[m][k]] > 0
    /\ w' = ComWorker(estado)
    /\ msg' = [msg EXCEPT ![m] = "feita"]
    /\ UNCHANGED <<estado, limpador, encerrando, naGuilda, sozinho, mudancas,
                   corte, aceitas, tocada, tirada, abandonadas, deixada>>

\* The queue is closed or the message does not fit: its author is told.
Recusar(m) ==
    /\ msg[m] = "fora"
    /\ \/ ~estado.accepting \/ ~estado.dashboard
       \/ /\ Len(Texto[m]) > Capacidade
          /\ \E k \in DOMAIN Texto[m] : estado.pending[Texto[m][k]] = 0
    /\ estado' = [estado EXCEPT !.existe = TRUE]
    /\ msg' = [msg EXCEPT ![m] = "avisando"]
    /\ UNCHANGED <<w, limpador, encerrando, naGuilda, sozinho, mudancas, corte,
                   aceitas, tocada, tirada, abandonadas, deixada>>

\* After that notice, _ensure_worker all the same.
Avisar(m) ==
    /\ msg[m] = "avisando"
    /\ LET e == [estado EXCEPT !.existe = TRUE]
       IN  estado' = e /\ w' = ComWorker(e)
    /\ msg' = [msg EXCEPT ![m] = "feita"]
    /\ UNCHANGED <<limpador, encerrando, naGuilda, sozinho, mudancas, corte,
                   aceitas, tocada, tirada, abandonadas, deixada>>

-----------------------------------------------------------------------------
\* The worker's ways on and out. e is the state its step leaves.

Suspenso == <<limpador, abandonadas, deixada>>

Avisados(destino) ==
    limpador' = [c \in Limpadores |->
                    IF limpador[c] = "espera" THEN destino ELSE limpador[c]]

\* Faulty variant: the state outlives its worker.
FimSemRemover(e) ==
    /\ w' = SemWorker
    /\ abandonadas' = abandonadas + (e.unfinished - Len(e.queue))
    /\ deixada' = FALSE
    /\ estado' = e /\ Avisados("pronta")

\* The worker awaits the disconnection of an idle call, or the discard of what it
\* prefetched, the switch being off; it may end next, but is not a done task, so
\* that a message that arrives now finds a worker.
Terminando == w.pc \in {"ocioso", "descartando"} /\ ~w.cancelado

\* The last lines of the outer finally: an idle state is dropped, together
\* with whatever still waits on its queue.
Fim(e) ==
    /\ w' = SemWorker
    /\ abandonadas' = abandonadas + (e.unfinished - Len(e.queue))
    /\ deixada' = (Terminando /\ e.queue # <<>>)
    /\ IF e.queue = <<>>
       THEN estado' = Fresco /\ Avisados("orfao")
       ELSE estado' = e /\ Avisados("pronta")

\* A task that ends without those lines.
FimInterrompido(e) ==
    /\ w' = SemWorker
    /\ abandonadas' = abandonadas + (e.unfinished - Len(e.queue))
    /\ deixada' = FALSE
    /\ estado' = e /\ Avisados("pronta")

\* Out of the loop at once, with task_done for a prefetched speech.
Largar(v, e) ==
    Fim(IF v.adiantado = Nada THEN e ELSE [e EXCEPT !.unfinished = @ - 1])

\* Leaving the loop; discarding a prefetched speech may have to wait.
Sair(v, e) ==
    \/ Largar(v, e)
    \/ /\ v.adiantado # Nada
       /\ w' = [v EXCEPT !.pc = "saindo"]
       /\ estado' = e
       /\ UNCHANGED Suspenso

Parar(v) == v.ger # estado.generation \/ ~estado.accepting \/ ~naGuilda

\* The top of the loop.
Continuar(v, e) ==
    \/ Parar(v) /\ Sair(v, e)
    \/ /\ ~Parar(v) /\ ~e.dashboard
       /\ \/ Largar(v, e)
          \/ /\ v.adiantado # Nada
             /\ w' = [v EXCEPT !.pc = "descartando"]
             /\ estado' = e
             /\ UNCHANGED Suspenso
    \/ /\ ~Parar(v) /\ e.dashboard
       /\ w' = IF v.adiantado = Nada THEN [v EXCEPT !.pc = "pegando"]
               ELSE [v EXCEPT !.adiantado = Nada, !.item = v.adiantado,
                       !.pc = IF v.adiantado.ger = v.ger
                              THEN "preparando" ELSE "limpando"]
       /\ estado' = e
       /\ UNCHANGED Suspenso

Restante == <<msg, encerrando, naGuilda, sozinho, mudancas, corte, aceitas>>
Calado == <<Restante, tocada, tirada>>

\* First step of the task.
Iniciar ==
    /\ w.pc = "criado" /\ ~w.cancelado
    /\ Continuar([w EXCEPT !.ger = estado.generation], estado)
    /\ UNCHANGED Calado

\* queue.get() runs in a task of wait_for: it takes the item first.
PegarDaFila ==
    /\ w.pc = "pegando" /\ ~w.cancelado /\ estado.queue # <<>>
    /\ w' = [w EXCEPT !.pc = "pegou", !.item = Head(estado.queue)]
    /\ estado' = [estado EXCEPT !.queue = Tail(@)]
    /\ tirada' = Head(estado.queue)
    /\ UNCHANGED <<Suspenso, Restante, tocada>>

\* The worker gets it, even cancelled meanwhile: wait_for returns a result
\* that is ready and the cancellation is gone.
ReceberItem ==
    /\ w.pc = "pegou"
    /\ LET e == [estado EXCEPT !.pending = SemContar(@, <<w.item>>)]
           v == [w EXCEPT !.cancelado = FALSE]
       IN  \/ /\ w.item.ger = w.ger /\ e.generation = w.ger
              /\ w' = [v EXCEPT !.pc = "preparando"]
              /\ estado' = e
              /\ UNCHANGED Suspenso
           \/ /\ w.item.ger # w.ger \/ e.generation # w.ger
              /\ Continuar([v EXCEPT !.item = Nada],
                           [e EXCEPT !.unfinished = @ - 1])
    /\ UNCHANGED Calado

\* The idle timeout. An item that races it is found in "ocioso" too.
EsperaVencida ==
    /\ w.pc = "pegando" /\ ~w.cancelado /\ estado.queue = <<>>
    /\ \/ w' = [w EXCEPT !.pc = "ocioso"] /\ UNCHANGED <<estado, Suspenso>>
       \/ Continuar(w, estado)    \* warmed_until not reached
    /\ UNCHANGED Calado

\* _disconnect_idle comes back; auto_leave and music may keep the bot there.
DesconectarOcioso ==
    /\ w.pc = "ocioso" /\ ~w.cancelado
    /\ \/ sozinho /\ Sair(w, estado)
       \/ Continuar(w, estado)
    /\ UNCHANGED Calado

\* Speech that needs no connection of this worker: a copy of an attachment,
\* the music player, the remote worker.
TocarDireto ==
    /\ w.pc = "preparando" /\ ~w.cancelado
    /\ w' = [w EXCEPT !.pc = "tocando"]
    /\ tocada' = w.item
    /\ UNCHANGED <<estado, Suspenso, Restante, tirada>>

\* Connection and synthesis begin, and the next item is prefetched or awaited.
IniciarFala ==
    /\ w.pc = "preparando" /\ ~w.cancelado
    /\ \/ /\ estado.queue # <<>>
          /\ w' = [w EXCEPT !.pc = "conectando", !.adiantado = Head(estado.queue)]
          /\ estado' = Tirar(estado)
          /\ tirada' = Head(estado.queue)
       \/ /\ estado.queue = <<>>
          /\ w' = [w EXCEPT !.pc = "conectando", !.esperando = TRUE]
          /\ UNCHANGED <<estado, tirada>>
    /\ UNCHANGED <<Suspenso, Restante, tocada>>

\* _wait_and_prefetch_next finds an item.
ChegadaAdiantada ==
    /\ w.esperando /\ estado.queue # <<>>
    /\ w' = [w EXCEPT !.esperando = FALSE, !.trazida = Head(estado.queue)]
    /\ estado' = Tirar(estado)
    /\ tirada' = Head(estado.queue)
    /\ UNCHANGED <<Suspenso, Restante, tocada>>

\* The same in a task left behind by an interrupted finally.
ChegadaOrfa ==
    /\ estado.orfa /\ estado.queue # <<>>
    /\ estado' = [Tirar(estado) EXCEPT !.orfa = FALSE]
    /\ tirada' = Head(estado.queue)
    /\ UNCHANGED <<w, Suspenso, Restante, tocada>>

\* Faulty variant: the state is not looked at again before the speech.
TocarSemConferir ==
    /\ w.pc = "conectando"
    /\ w' = [w EXCEPT !.pc = "tocando"]
    /\ tocada' = w.item
    /\ UNCHANGED <<estado, Suspenso, Restante, tirada>>

\* Connected, audio ready, same generation: the speech starts.
Tocar ==
    /\ w.pc = "conectando" /\ ~w.cancelado
    /\ estado.generation = w.ger /\ estado.accepting
    /\ w' = [w EXCEPT !.pc = "tocando"]
    /\ tocada' = w.item
    /\ UNCHANGED <<estado, Suspenso, Restante, tirada>>

\* The speech ends, fails on its way or was overtaken: on to the finally.
Concluir ==
    /\ w.pc \in {"preparando", "conectando", "tocando"} /\ ~w.cancelado
    /\ w' = [w EXCEPT !.pc = "limpando"]
    /\ UNCHANGED <<estado, Suspenso, Calado>>

\* Faulty variant: what the arrival prefetch brought goes back to the queue.
LimparItemDevolvendo ==
    /\ w.pc = "limpando" /\ ~w.cancelado
    /\ LET v == [w EXCEPT !.item = Nada, !.esperando = FALSE,
                          !.trazida = Nada, !.propaga = FALSE]
           e == [estado EXCEPT !.unfinished = @ - 1,
                   !.queue = IF w.trazida = Nada THEN @ ELSE Append(@, w.trazida)]
       IN  IF w.propaga THEN Sair(v, e) ELSE Continuar(v, e)
    /\ UNCHANGED Calado

\* Faulty variant: task_done also for what the arrival prefetch brought.
LimparItemDemais ==
    /\ w.pc = "limpando" /\ ~w.cancelado
    /\ LET v == [w EXCEPT !.item = Nada, !.esperando = FALSE,
                   !.trazida = Nada, !.propaga = FALSE,
                   !.adiantado = IF @ = Nada THEN w.trazida ELSE @]
           e == [estado EXCEPT !.unfinished =
                   IF w.trazida = Nada THEN @ - 1 ELSE @ - 2]
       IN  IF w.propaga THEN Sair(v, e) ELSE Continuar(v, e)
    /\ UNCHANGED Calado

\* The item's finally to its end: the arrival prefetch is cancelled or its
\* item kept as the next one, and task_done.
LimparItem ==
    /\ w.pc = "limpando" /\ ~w.cancelado
    /\ LET v == [w EXCEPT !.item = Nada, !.esperando = FALSE,
                   !.trazida = Nada, !.propaga = FALSE,
                   !.adiantado = IF @ = Nada THEN w.trazida ELSE @]
           e == [estado EXCEPT !.unfinished =
                   IF w.trazida # Nada /\ w.adiantado # Nada
                   THEN @ - 2 ELSE @ - 1]
       IN  IF w.propaga THEN Sair(v, e) ELSE Continuar(v, e)
    /\ UNCHANGED Calado

\* The prefetched speech is discarded on the way out.
DescartarAdiantado ==
    /\ w.pc \in {"descartando", "saindo"} /\ ~w.cancelado
    /\ Fim([estado EXCEPT !.unfinished = @ - 1])
    /\ UNCHANGED Calado

\* The pending cancellation reaches the await the worker is in.
Interromper ==
    /\ w.cancelado
    /\ LET v == [w EXCEPT !.cancelado = FALSE]
       IN  \/ w.pc = "criado" /\ FimInterrompido(estado)
           \/ w.pc \in {"pegando", "ocioso"} /\ Fim(estado)
           \/ /\ w.pc \in {"preparando", "conectando", "tocando"}
              /\ w' = [v EXCEPT !.pc = "limpando", !.propaga = TRUE]
              /\ UNCHANGED <<estado, Suspenso>>
           \/ /\ w.pc \in {"limpando", "descartando"}
              /\ w' = v              \* an await under suppress(BaseException)
              /\ UNCHANGED <<estado, Suspenso>>
           \/ /\ w.pc = "limpando"   \* the rest of the finally is skipped
              /\ Sair([v EXCEPT !.item = Nada, !.esperando = FALSE,
                                !.trazida = Nada, !.propaga = FALSE],
                      [estado EXCEPT !.orfa = w.esperando])
           \/ w.pc = "descartando" /\ Sair(v, estado)
           \/ w.pc = "saindo" /\ FimInterrompido(estado)
    /\ UNCHANGED Calado
-----------------------------------------------------------------------------
\* What happens to the queue from outside.

ComCancelamento == [w EXCEPT !.cancelado = TRUE, !.pedido = TRUE]

Esvaziada == Descartar(estado, Len(estado.queue))

\* Faulty variant: the worker is waited for and never cancelled.
LimparFilaSemCancelar(c) ==
    /\ limpador[c] = "fora" /\ w.pc # "nenhum"
    /\ estado' = [Esvaziada EXCEPT !.existe = TRUE, !.accepting = FALSE,
                                   !.generation = @ + 1]
    /\ limpador' = [limpador EXCEPT ![c] = "espera"]
    /\ corte' = Len(aceitas)
    /\ UNCHANGED <<w, msg, encerrando, naGuilda, sozinho, mudancas, aceitas, tocada,
                   tirada, abandonadas, deixada>>

\* _clear_queue_only up to the cancellation of the worker.
LimparFila(c) ==
    /\ limpador[c] = "fora" /\ w.pc # "nenhum"
    /\ estado' = [Esvaziada EXCEPT !.existe = TRUE, !.accepting = FALSE,
                                   !.generation = @ + 1]
    /\ w' = ComCancelamento
    /\ limpador' = [limpador EXCEPT ![c] = "espera"]
    /\ corte' = Len(aceitas)
    /\ UNCHANGED <<msg, encerrando, naGuilda, sozinho, mudancas, aceitas, tocada,
                   tirada, abandonadas, deixada>>

Reaberta(e) == [e EXCEPT !.accepting = ~encerrando,
                         !.pending = [s \in Textos |-> 0]]

\* The same with no worker to wait for: a single step.
LimparFilaParada(c) ==
    /\ limpador[c] = "fora" /\ w.pc = "nenhum"
    /\ estado' = Reaberta([Esvaziada EXCEPT !.existe = TRUE,
                                            !.generation = @ + 1])
    /\ limpador' = [limpador EXCEPT ![c] = "feita"]
    /\ corte' = Len(aceitas)
    /\ UNCHANGED <<w, msg, encerrando, naGuilda, sozinho, mudancas, aceitas, tocada,
                   tirada, abandonadas, deixada>>

\* Faulty variant: the state is looked up again by its guild.
ConcluirLimpezaPeloServidor(c) ==
    /\ limpador[c] \in {"pronta", "orfao"}
    /\ estado' = Reaberta(estado)
    /\ limpador' = [limpador EXCEPT ![c] = "feita"]
    /\ UNCHANGED <<w, msg, encerrando, naGuilda, sozinho, mudancas, corte, aceitas,
                   tocada, tirada, abandonadas, deixada>>

\* The worker is done: the queue reopens, unless the worker dropped the state
\* and this call holds the only reference to it.
ConcluirLimpeza(c) ==
    /\ limpador[c] \in {"pronta", "orfao"}
    /\ estado' = IF limpador[c] = "pronta" THEN Reaberta(estado) ELSE estado
    /\ limpador' = [limpador EXCEPT ![c] = "feita"]
    /\ UNCHANGED <<w, msg, encerrando, naGuilda, sozinho, mudancas, corte, aceitas,
                   tocada, tirada, abandonadas, deixada>>

\* _apply_dashboard_enabled_state; without a state there is nothing to tell.
MudarPainel ==
    /\ mudancas < MaxPainel /\ estado.existe
    /\ estado' = IF estado.dashboard THEN [Esvaziada EXCEPT !.dashboard = FALSE]
                 ELSE [estado EXCEPT !.dashboard = TRUE]
    /\ mudancas' = mudancas + 1
    /\ UNCHANGED <<w, limpador, msg, encerrando, naGuilda, sozinho, corte, aceitas,
                   tocada, tirada, abandonadas, deixada>>

\* _shutdown_tts_runtime; cancel_task_once does not repeat a cancellation.
Encerrar ==
    /\ "encerrar" \in Ambiente /\ ~encerrando
    /\ encerrando' = TRUE
    /\ estado' = IF estado.existe
                 THEN [estado EXCEPT !.accepting = FALSE, !.generation = @ + 1]
                 ELSE estado
    /\ w' = IF w.pc = "nenhum" \/ w.pedido THEN w ELSE ComCancelamento
    /\ UNCHANGED <<limpador, msg, naGuilda, sozinho, mudancas, corte, aceitas,
                   tocada, tirada, abandonadas, deixada>>

\* The bot leaves the guild.
SairDaGuilda ==
    /\ "sair" \in Ambiente /\ naGuilda
    /\ naGuilda' = FALSE
    /\ UNCHANGED <<estado, w, limpador, msg, encerrando, sozinho, mudancas, corte,
                   aceitas, tocada, tirada, abandonadas, deixada>>

\* The humans leave the call, or the bot is disconnected.
FicarSozinho ==
    /\ "vazia" \in Ambiente /\ ~sozinho
    /\ sozinho' = TRUE
    /\ UNCHANGED <<estado, w, limpador, msg, encerrando, naGuilda, mudancas,
                   corte, aceitas, tocada, tirada, abandonadas, deixada>>

-----------------------------------------------------------------------------
Admissao == \E m \in Mensagens :
                Aceitar(m) \/ Repetir(m) \/ Recusar(m) \/ Avisar(m)

\* The worker's steps other than the idle timeout.
Trabalho ==
    \/ Iniciar \/ PegarDaFila \/ ReceberItem \/ DesconectarOcioso
    \/ TocarDireto \/ IniciarFala \/ Tocar \/ Concluir
    \/ LimparItem \/ DescartarAdiantado \/ Interromper

Limpeza == \E c \in Limpadores :
               LimparFila(c) \/ LimparFilaParada(c) \/ ConcluirLimpeza(c)

Next ==
    \/ Admissao \/ Limpeza \/ Trabalho
    \/ EsperaVencida \/ ChegadaAdiantada \/ ChegadaOrfa
    \/ MudarPainel \/ Encerrar \/ SairDaGuilda \/ FicarSozinho

Spec == Init /\ [][Next]_vars

\* Every await of the worker ends (connections, synthesis and playback have
\* timeouts), and a task whose wait is over runs.
Justica ==
    /\ WF_vars(Trabalho)
    /\ WF_vars(ChegadaAdiantada)
    /\ \A c \in Limpadores : WF_vars(ConcluirLimpeza(c))

FairSpec == Spec /\ Justica

-----------------------------------------------------------------------------
\* Properties.

Item == [n : 0..Cardinality(Mensagens), i : 0..Capacidade,
         ger : 0..(Cardinality(Limpadores) + 1)]

\* In particular the queue never outgrows TTS_QUEUE_MAXSIZE, where put_nowait
\* would raise.
TypeOK ==
    /\ Len(estado.queue) <= Capacidade /\ Range(estado.queue) \subseteq Item
    /\ estado.unfinished \in Nat
    /\ \A s \in Textos : estado.pending[s] \in Nat
    /\ estado.generation \in 0..(Cardinality(Limpadores) + 1)
    /\ w.pc \in {"nenhum", "criado", "pegando", "pegou", "ocioso", "preparando",
                 "conectando", "tocando", "limpando", "descartando", "saindo"}
    /\ {w.item, w.adiantado, w.trazida, tocada, tirada} \subseteq Item
    /\ limpador \in [Limpadores -> {"fora", "espera", "pronta", "orfao", "feita"}]
    /\ msg \in [Mensagens -> {"fora", "avisando", "feita"}]
    /\ abandonadas \in Nat

\* The items on which a signature is counted: queued, or taken by the worker's
\* queue.get() and not yet seen by the worker.
Contadas(s) ==
    Cardinality({k \in DOMAIN estado.queue : Sig(estado.queue[k]) = s})
    + IF w.pc = "pegou" /\ Sig(w.item) = s THEN 1 ELSE 0

\* A signature is never counted without its item, which would refuse a message
\* for good; and, with a single clear, never forgotten, which would let a
\* duplicate in (two clears that overlap may forget one).
AssinaturasExatas ==
    \A s \in Textos :
        /\ estado.pending[s] <= Contadas(s)
        /\ Cardinality({c \in Limpadores : limpador[c] # "fora"}) <= 1 =>
              estado.pending[s] = Contadas(s)

\* Messages stay whole in the queue: a part is followed by the next one, and
\* the parts missing before the first were taken to be spoken, the part just
\* before it last. No eviction, clear or prefetch leaves a part on its own.
MensagensInteiras ==
    \A k \in DOMAIN estado.queue :
        LET it == estado.queue[k]
            antes == IF k = 1 THEN tirada ELSE estado.queue[k - 1]
        IN  /\ it.i < Len(Texto[aceitas[it.n]]) =>
                 /\ k < Len(estado.queue)
                 /\ estado.queue[k + 1] = [it EXCEPT !.i = @ + 1]
            /\ it.i > 1 => antes = [it EXCEPT !.i = @ - 1]

\* The items a live worker has taken and not finished.
NaMao == Cardinality({it \in {w.item, w.adiantado, w.trazida} : it # Nada})

\* task_done is never called more often than items were taken: it would raise
\* in the worker's finally.
TarefasExatas == TypeOK /\ estado.unfinished >= Len(estado.queue) + NaMao

\* The queue is closed while a clear waits for the worker it cancelled, and while
\* a prefetch task that the worker left behind, its finally interrupted, still
\* waits on it: what that one took from a queue in use would vanish. It happens
\* only in a shutdown. So with two clears at most; a third may begin over the
\* worker of a message let in by the second, and the first then reopens the queue.
FechadaEnquantoEspera ==
    Cardinality({c \in Limpadores : limpador[c] # "fora"}) <= 2 =>
        /\ (\E c \in Limpadores : limpador[c] = "espera") \/ estado.orfa => ~estado.accepting
        /\ estado.orfa => encerrando

\* Speech starts in the order its messages were accepted, each part once.
EmOrdem ==
    [][tocada' # tocada =>
          \/ tocada.n < tocada'.n
          \/ tocada.n = tocada'.n /\ tocada.i < tocada'.i]_vars

\* Once a clear began, nothing accepted before it starts to be spoken.
NaoTocaApagada == [][tocada' # tocada => tocada'.n > corte]_vars

\* Messages come to an end, so there is always a time when no clear waits for the
\* worker, no worker is left after a shutdown and, while the bot is in the guild,
\* every accepted item was taken or discarded. The one exception: a message that
\* arrives while the worker is ending (Terminando: the call was idle, or the switch
\* was turned off and on again) waits until another one starts a worker.
FilaRepousa ==
    []<>(/\ \A c \in Limpadores : limpador[c] # "espera"
         /\ encerrando => w.pc = "nenhum"
         /\ \/ encerrando \/ ~naGuilda \/ estado.queue = <<>>
            \/ w.pc = "nenhum" /\ deixada)

\* A worker leaves nothing it took without task_done (and its audio released).
NadaAbandonado == abandonadas = 0

=============================================================================
