-------------------------- MODULE SharedSynthesis --------------------------
(* Shared synthesis jobs of src/cogs/tts/streaming.py with their replay       *)
(* buffer and memory budget (runtime.py). Consumers of the same key share one *)
(* producer task; the buffer keeps what it received in memory, under a budget *)
(* common to all jobs, or in a spool file written and read by threads. One    *)
(* chunk is the unit of every size.                                           *)
EXTENDS Naturals, Sequences, FiniteSets

CONSTANTS
    Chaves,         \* synthesis keys
    Edge,           \* the keys of engine edge; the others are gtts
    Fluxos,         \* consumers that play the stream, each once
    Arquivos,       \* consumers that want the complete file, each once
    Guardam,        \* the consumers with store_in_cache
    MaxBlocos,      \* bound: chunks a provider sends to a job
    Orcamento,      \* TTS_STREAM_MEMORY_BUDGET_BYTES
    LimiteMemoria,  \* memory_limit of one buffer
    Ambiente        \* "encerrar": shutdown; "disco": writes to the spool fail

Consumidores == Fluxos \cup Arquivos

ASSUME ConstantesAssumption ==
    /\ Edge \subseteq Chaves /\ Guardam \subseteq Consumidores
    /\ Fluxos \cap Arquivos = {} /\ IsFiniteSet(Consumidores)
    /\ {MaxBlocos, Orcamento, LimiteMemoria} \subseteq Nat

VARIABLES
    jobs,       \* every StreamJob created, in order
    tabela,     \* _tts_shared_jobs: the index of the job of a key, or 0
    cons,       \* where each consumer is
    usado,      \* MemoryBudget.used
    encerrado   \* _shutdown_shared_synthesis ran

vars == <<jobs, tabela, cons, usado, encerrado>>

\* prod: job.task; io: the append in progress; cache: job.cache_task.
\* recebidos: history, chunks of the attempt; ruim: history, a write failed.
NovoJob(k, g) ==
    [chave |-> k, refs |-> 1, guarda |-> g, stop |-> FALSE, prod |-> "vaga",
     cancelado |-> FALSE, pedido |-> FALSE, slot |-> FALSE, rota |-> "local",
     io |-> "nada", ioCancelado |-> FALSE, recebidos |-> 0, tamanho |-> 0,
     memoria |-> 0, spool |-> FALSE, arquivo |-> 0, lixo |-> FALSE,
     ruim |-> FALSE, ended |-> FALSE, erro |-> FALSE, closed |-> FALSE,
     agendada |-> "nada", cache |-> "nada"]

\* off: the offset of the reader; lendo: its read is running in a thread.
Fora == [pc |-> "fora", job |-> 0, off |-> 0, lendo |-> FALSE]

Init ==
    /\ jobs = <<>>
    /\ tabela = [k \in Chaves |-> 0]
    /\ cons = [c \in Consumidores |-> Fora]
    /\ usado = 0
    /\ encerrado = FALSE

\* The producer appends by itself; a local gtts does it from its request thread.
Direto(b) == b.chave \in Edge \/ b.rota = "worker"

\* The last of [job.task, job.cache_task, *job.pending_io] still running.
UltimoPendente(b) ==
    IF b.io # "nada" /\ ~Direto(b) THEN "io"
    ELSE IF b.cache = "copiando" THEN "cache"
    ELSE IF b.prod # "feito" THEN "prod" ELSE "nada"

\* Faulty variant: only the producer is waited for.
FecharSemEsperar(b) ==
    IF b.refs > 0 \/ b.agendada # "nada" \/ b.closed THEN b
    ELSE IF b.prod # "feito" THEN [b EXCEPT !.agendada = "prod"]
    ELSE [b EXCEPT !.closed = TRUE, !.memoria = 0]

\* _close_shared_job_when_idle: now, or when that last task is done.
Fechar(b) ==
    IF b.refs > 0 \/ b.agendada # "nada" \/ b.closed THEN b
    ELSE IF UltimoPendente(b) # "nada"
         THEN [b EXCEPT !.agendada = UltimoPendente(b)]
    ELSE [b EXCEPT !.closed = TRUE, !.memoria = 0]

\* stop, and cancel_task_once on the producer.
Cortar(b) ==
    [b EXCEPT !.stop = TRUE, !.pedido = TRUE, !.cancelado = @ \/ ~b.pedido]

\* Faulty variant: any release of an unfinished job stops it.
LiberarCortando(b) ==
    LET r == [b EXCEPT !.refs = IF @ = 0 THEN 0 ELSE @ - 1]
    IN  Fechar(IF ~r.ended /\ r.prod # "feito" THEN Cortar(r) ELSE r)

\* _release_shared_job.
Liberar(b) ==
    LET r == [b EXCEPT !.refs = IF @ = 0 THEN 0 ELSE @ - 1]
    IN  IF r.refs > 0 THEN r
        ELSE Fechar(IF ~r.ended /\ r.prod # "feito" THEN Cortar(r) ELSE r)

\* Faulty variant: the entry goes whatever job the key has by now.
TabelaPelaChave(j, b) ==
    [k \in Chaves |-> IF b.closed /\ ~jobs[j].closed /\ b.chave = k
                      THEN 0 ELSE tabela[k]]

\* A closed job leaves the table if it is still the one of its key.
TabelaSem(j, b) ==
    [k \in Chaves |-> IF b.closed /\ tabela[k] = j THEN 0 ELSE tabela[k]]

\* buffer.close gives its memory back to the budget.
Devolver(j, b) ==
    IF ~b.closed \/ jobs[j].closed THEN usado
    ELSE IF usado > jobs[j].memoria THEN usado - jobs[j].memoria ELSE 0

\* The chunks that the buffers of the jobs S of js keep in memory.
Retidos(js, S) == {p \in S \X (1..LimiteMemoria) : p[2] <= js[p[1]].memoria}

\* Job j becomes b, which may have been closed on the way.
Trocar(j, b) ==
    /\ jobs' = [jobs EXCEPT ![j] = b]
    /\ tabela' = TabelaSem(j, b)
    /\ usado' = Devolver(j, b)

\* Job j becomes b, with the budget untouched.
Mudar(j, b) ==
    /\ jobs' = [jobs EXCEPT ![j] = b]
    /\ UNCHANGED <<tabela, usado, cons, encerrado>>

-----------------------------------------------------------------------------
\* Consumers.

\* A job of the table that a new consumer may join.
Vivo(b) == ~b.stop /\ ~b.closed

\* _acquire_shared_job, then the first wait of the consumer.
Adquirir(c, k) ==
    /\ cons[c].pc = "fora"
    /\ LET j == tabela[k]
           junta == j # 0 /\ Vivo(jobs[j])
       IN  /\ jobs' = IF junta
                      THEN [jobs EXCEPT ![j].refs = @ + 1,
                                        ![j].guarda = @ \/ c \in Guardam]
                      ELSE Append(jobs, NovoJob(k, c \in Guardam))
           /\ tabela' = IF junta THEN tabela
                        ELSE [tabela EXCEPT ![k] = Len(jobs) + 1]
           /\ cons' = [cons EXCEPT ![c] =
                 [Fora EXCEPT !.pc = IF c \in Fluxos THEN "vaga" ELSE "produz",
                              !.job = IF junta THEN j ELSE Len(jobs) + 1]]
    /\ UNCHANGED <<usado, encerrado>>

Job(c) == jobs[cons[c].job]

\* The consumer is done with its job.
Soltar(c) ==
    /\ cons' = [cons EXCEPT ![c].pc = "fim"]
    /\ Trocar(cons[c].job, Liberar(Job(c)))
    /\ UNCHANGED encerrado

Ir(c, pc) ==
    /\ cons' = [cons EXCEPT ![c].pc = pc]
    /\ UNCHANGED <<jobs, tabela, usado, encerrado>>

\* _prepare_shared_stream after slot_ready: a failed job, or a handle.
Preparar(c) ==
    /\ cons[c].pc = "vaga" /\ Job(c).slot
    /\ IF Job(c).erro THEN Soltar(c) ELSE Ir(c, "ouvindo")

\* chunks(): one more chunk, from memory or with a read in a thread.
Ler(c) ==
    /\ cons[c].pc = "ouvindo" /\ ~cons[c].lendo /\ cons[c].off < Job(c).tamanho
    /\ cons' = IF Job(c).spool THEN [cons EXCEPT ![c].lendo = TRUE]
               ELSE [cons EXCEPT ![c].off = @ + 1]
    /\ UNCHANGED <<jobs, tabela, usado, encerrado>>

\* The thread of that read gets the lock; too short a spool is an error.
\* After close the file is closed too.
LerSpool(c) ==
    /\ cons[c].lendo /\ Job(c).io # "despejando"
    /\ LET leu == ~Job(c).closed /\ cons[c].off < Job(c).arquivo
       IN  cons' = [cons EXCEPT
              ![c].lendo = FALSE, ![c].off = IF leu THEN @ + 1 ELSE @,
              ![c].pc = IF ~leu /\ @ = "ouvindo" THEN "terminando" ELSE @]
    /\ UNCHANGED <<jobs, tabela, usado, encerrado>>

\* The end of the stream, or of the audio that came before an error.
OuvirFim(c) ==
    /\ cons[c].pc = "ouvindo" /\ ~cons[c].lendo
    /\ Job(c).ended /\ cons[c].off >= Job(c).tamanho
    /\ Ir(c, "terminando")

\* Faulty variant: a stream that is given up is released twice.
DesistirEmDobro(c) ==
    /\ \/ cons[c].pc \in {"vaga", "produz", "copia"} /\ Soltar(c)
       \/ /\ cons[c].pc = "ouvindo"
          /\ cons' = [cons EXCEPT ![c].pc = "terminando"]
          /\ Trocar(cons[c].job, Liberar(Job(c)))
          /\ UNCHANGED encerrado

\* The consumer gives up, by a timeout or a cancellation.
Desistir(c) ==
    /\ \/ cons[c].pc \in {"vaga", "produz", "copia"} /\ Soltar(c)
       \/ cons[c].pc = "ouvindo" /\ Ir(c, "terminando")

\* _finalize_edge_stream: the reader task has ended, with its thread. Its second
\* call of _close_shared_job_when_idle finds the job closed or scheduled.
Terminar(c) ==
    /\ cons[c].pc = "terminando" /\ ~cons[c].lendo
    /\ Soltar(c)

\* _shared_job_file after job.task: the file is being made, or made now.
PedirArquivo(c) ==
    /\ cons[c].pc = "produz" /\ Job(c).prod = "feito"
    /\ IF Job(c).erro \/ ~Job(c).ended THEN Soltar(c)
       ELSE /\ cons' = [cons EXCEPT ![c].pc = "copia"]
            /\ jobs' = [jobs EXCEPT ![cons[c].job].cache =
                           IF @ = "nada" THEN "copiando" ELSE @]
            /\ UNCHANGED <<tabela, usado, encerrado>>

ReceberArquivo(c) ==
    /\ cons[c].pc = "copia" /\ Job(c).cache \in {"feita", "falhou"}
    /\ Soltar(c)

-----------------------------------------------------------------------------
\* The producer task. Its cancellation is delivered at its next await.

\* Faulty variant: a failed producer does not finish its buffer.
FracassoMudo(b) == [b EXCEPT !.stop = TRUE, !.erro = TRUE, !.slot = TRUE,
                             !.prod = "feito", !.cancelado = FALSE]

\* buffer.finish with an error: the end of the task and of its audio.
Fracasso(b) == [b EXCEPT !.stop = TRUE, !.ended = TRUE, !.erro = TRUE,
                         !.slot = TRUE, !.prod = "feito", !.cancelado = FALSE]

\* A synthesis slot, after what _PrioritySemaphore makes it wait.
TomarVaga(j) ==
    /\ jobs[j].prod = "vaga" /\ ~jobs[j].cancelado
    /\ \E r \in {"local", "worker"} :
          Mudar(j, [jobs[j] EXCEPT !.prod = "gerando", !.slot = TRUE, !.rota = r])

\* Faulty variant: only the limit of this buffer is looked at.
CabeSemOrcamento(b) == ~b.spool /\ b.memoria < LimiteMemoria

\* memory_limit and MemoryBudget.reserve.
Cabe(b) == /\ ~b.spool /\ b.memoria < LimiteMemoria /\ usado < Orcamento


\* Faulty variant: the memory is emptied before it is in the file.
ReceberEsvaziando(j) ==
    LET b == [jobs[j] EXCEPT !.recebidos = @ + 1]
    IN  /\ b.prod = "gerando" /\ b.io = "nada" /\ ~b.cancelado /\ ~b.stop
        /\ jobs[j].recebidos < MaxBlocos
        /\ IF Cabe(b)
           THEN /\ jobs' = [jobs EXCEPT ![j] =
                      [b EXCEPT !.memoria = @ + 1, !.tamanho = @ + 1]]
                /\ usado' = usado + 1
           ELSE /\ jobs' = [jobs EXCEPT ![j] = [b EXCEPT !.spool = TRUE,
                      !.memoria = 0, !.io = IF @ = "nada" /\ ~jobs[j].spool
                                            THEN "despejando" ELSE "gravando"]]
                /\ usado' = usado - b.memoria
        /\ UNCHANGED <<tabela, cons, encerrado>>

\* A chunk arrives: into memory, or to the spool through a thread. Until the
\* thread of _spill has the lock and its file, readers read memory: the step
\* is taken then.
Receber(j) ==
    LET b == [jobs[j] EXCEPT !.recebidos = @ + 1]
    IN  /\ b.prod = "gerando" /\ b.io = "nada" /\ ~b.cancelado /\ ~b.stop
        /\ jobs[j].recebidos < MaxBlocos
        /\ \/ /\ Cabe(b)
              /\ jobs' = [jobs EXCEPT ![j] =
                    [b EXCEPT !.memoria = @ + 1, !.tamanho = @ + 1]]
              /\ usado' = usado + 1
              /\ UNCHANGED <<tabela, cons, encerrado>>
           \/ /\ ~Cabe(b)
              /\ Mudar(j, [b EXCEPT !.spool = TRUE,
                      !.io = IF b.spool THEN "gravando" ELSE "despejando"])

\* The task of this append was cancelled during its thread: the cancellation
\* is raised once the thread is done, before anything else is updated.
Cancelada(b) == IF Direto(b) THEN b.cancelado ELSE b.ioCancelado

\* _spill ends and lets go of its lock: the memory is given up, and the new
\* chunk written by another thread.
Despejar(j) ==
    /\ jobs[j].io = "despejando" /\ ~Cancelada(jobs[j])
    /\ jobs' = [jobs EXCEPT ![j] = [@ EXCEPT !.io = "gravando", !.memoria = 0,
                                             !.arquivo = jobs[j].memoria]]
    /\ usado' = usado - jobs[j].memoria
    /\ UNCHANGED <<tabela, cons, encerrado>>

\* _write ends, and the chunk counts.
Gravar(j) ==
    /\ jobs[j].io = "gravando" /\ ~Cancelada(jobs[j])
    /\ Mudar(j, [jobs[j] EXCEPT !.io = "nada", !.arquivo = @ + 1, !.tamanho = @ + 1])

\* The thread ends and the append with it, by its cancellation; so does a
\* producer that appends by itself.
LargarBloco(j) ==
    LET b == [jobs[j] EXCEPT !.io = "nada", !.ioCancelado = FALSE,
                 !.arquivo = CASE jobs[j].io = "despejando" -> jobs[j].memoria
                               [] jobs[j].io = "gravando" -> @ + 1
                               [] OTHER -> @]
    IN  /\ jobs[j].io # "nada" /\ Cancelada(jobs[j])
        /\ Mudar(j, IF Direto(b) THEN Fracasso(b) ELSE b)

\* A write fails; part of what it had to write may be in the file.
FalharDisco(j) ==
    /\ "disco" \in Ambiente /\ jobs[j].io \in {"despejando", "gravando"}
    /\ \E parte \in BOOLEAN :
          Mudar(j, [jobs[j] EXCEPT !.io = "falhou", !.ruim = TRUE,
                       !.lixo = @ \/ (parte /\ jobs[j].io = "gravando")])

\* Faulty variant: what came before the failure does not keep the fallback away.
FalharSempreLocal(j) ==
    /\ jobs[j].prod = "gerando" /\ jobs[j].io \in {"nada", "falhou"}
    /\ ~jobs[j].cancelado
    /\ LET b == [jobs[j] EXCEPT !.io = "nada"]
       IN  IF b.rota = "worker"
           THEN Mudar(j, [b EXCEPT !.rota = "local", !.recebidos = 0])
           ELSE Mudar(j, Fracasso(b))

\* The provider or the spool fails, or nothing was sent. A worker that failed
\* before any audio is followed by the local engine.
Falhar(j) ==
    /\ jobs[j].prod = "gerando" /\ jobs[j].io \in {"nada", "falhou"}
    /\ ~jobs[j].cancelado
    /\ LET b == [jobs[j] EXCEPT !.io = "nada"]
       IN  IF b.rota = "worker" /\ b.tamanho = 0
           THEN Mudar(j, [b EXCEPT !.rota = "local", !.recebidos = 0])
           ELSE Mudar(j, Fracasso(b))

\* All the audio came: buffer.finish, and the cache task if anybody wants it.
Concluir(j) ==
    /\ jobs[j].prod = "gerando" /\ jobs[j].io = "nada" /\ ~jobs[j].cancelado
    /\ jobs[j].tamanho > 0
    /\ Mudar(j, [jobs[j] EXCEPT !.ended = TRUE, !.prod = "feito",
                    !.cache = IF jobs[j].guarda THEN "copiando" ELSE @])

\* The total timeout of gtts: its blocking request is still running.
Vencer(j) ==
    /\ ~Direto(jobs[j]) /\ jobs[j].prod = "gerando" /\ ~jobs[j].cancelado
    /\ Mudar(j, [jobs[j] EXCEPT !.stop = TRUE, !.prod = "parando"])

\* The request sees stop, cancels the append it waits for and returns.
FimFisico(j) ==
    /\ jobs[j].prod = "parando"
    /\ Mudar(j, [Fracasso(jobs[j]) EXCEPT !.ioCancelado = jobs[j].io # "nada"])

\* The cancellation reaches the producer where it waits: for its slot (before
\* its first step, which only a shutdown is in time for, no handler runs), for
\* the provider, or for the blocking request of gtts.
Interromper(j) ==
    LET b == jobs[j]
    IN  /\ b.cancelado
        /\ \/ /\ b.prod = "vaga" /\ encerrado
              /\ Mudar(j, [b EXCEPT !.prod = "feito", !.cancelado = FALSE])
           \/ b.prod = "vaga" /\ Mudar(j, Fracasso(b))
           \/ b.prod = "gerando" /\ Direto(b) /\ b.io = "nada" /\ Mudar(j, Fracasso(b))
           \/ /\ b.prod = "gerando" /\ ~Direto(b)
              /\ Mudar(j, [b EXCEPT !.prod = "parando", !.cancelado = FALSE])
           \/ /\ b.prod = "parando" /\ Mudar(j, [b EXCEPT !.cancelado = FALSE])

\* wait_for drops a cancellation when the chunk it waited for is there: stop
\* is found by the next append, or the audio was complete.
EngolirCancelamento(j) ==
    /\ jobs[j].cancelado /\ jobs[j].prod = "gerando" /\ jobs[j].io = "nada"
    /\ jobs[j].chave \in Edge /\ jobs[j].rota = "local"
    /\ Mudar(j, [jobs[j] EXCEPT !.cancelado = FALSE])

RecusarBloco(j) ==
    /\ jobs[j].prod = "gerando" /\ Direto(jobs[j]) /\ jobs[j].io = "nada"
    /\ jobs[j].stop /\ ~jobs[j].cancelado
    /\ Mudar(j, Fracasso(jobs[j]))

-----------------------------------------------------------------------------
\* The copy to a file, the deferred close and the shutdown.

\* _materialize_shared_job, whose copy may fail.
Copiar(j) ==
    /\ jobs[j].cache = "copiando"
    /\ \E fim \in {"feita", "falhou"} : Mudar(j, [jobs[j] EXCEPT !.cache = fim])

\* Faulty variant: the retry leaves cleanup_scheduled set, so that no other
\* close is ever tried.
RefazerUmaVez(j) ==
    LET b == jobs[j]
    IN  /\ \/ b.agendada = "prod" /\ b.prod = "feito"
           \/ b.agendada = "cache" /\ b.cache # "copiando"
           \/ b.agendada = "io" /\ b.io = "nada"
        /\ Trocar(j, IF b.refs = 0 /\ UltimoPendente(b) = "nada"
                     THEN [b EXCEPT !.closed = TRUE, !.memoria = 0]
                     ELSE [b EXCEPT !.agendada = "gasta"])
        /\ UNCHANGED <<cons, encerrado>>

\* The task the close was waiting for is done: retry.
Refazer(j) ==
    LET b == jobs[j]
    IN  /\ \/ b.agendada = "prod" /\ b.prod = "feito"
           \/ b.agendada = "cache" /\ b.cache # "copiando"
           \/ b.agendada = "io" /\ b.io = "nada"
        /\ Trocar(j, Fechar([b EXCEPT !.agendada = "nada"]))
        /\ UNCHANGED <<cons, encerrado>>

Alcas(j) == {c \in Fluxos : /\ cons[c].job = j
                            /\ cons[c].pc \in {"ouvindo", "terminando"}}

\* What a shutdown leaves of a job: every handle lets go of it at once, and the
\* jobs of the table lose every reference.
AoEncerrar(j) ==
    LET resto == IF tabela[jobs[j].chave] = j THEN 0
                 ELSE jobs[j].refs - Cardinality(Alcas(j))
        tocado == tabela[jobs[j].chave] = j \/ Alcas(j) # {}
    IN  IF tocado /\ resto = 0 THEN Liberar([jobs[j] EXCEPT !.refs = 0])
        ELSE [jobs[j] EXCEPT !.refs = resto]

\* _cancel_edge_streams and _shutdown_shared_synthesis.
Encerrar ==
    /\ "encerrar" \in Ambiente /\ ~encerrado
    /\ encerrado' = TRUE
    /\ jobs' = [j \in DOMAIN jobs |-> AoEncerrar(j)]
    /\ LET fechados == {j \in DOMAIN jobs : jobs'[j].closed /\ ~jobs[j].closed}
       IN  /\ tabela' = [k \in Chaves |->
                            IF tabela[k] \in fechados THEN 0 ELSE tabela[k]]
           /\ usado' = usado - Cardinality(Retidos(jobs, fechados))
    /\ cons' = [c \in Consumidores |->
                   IF c \in Fluxos /\ cons[c].pc \in {"ouvindo", "terminando"}
                   THEN [cons[c] EXCEPT !.pc = "solto"] ELSE cons[c]]

\* The reader of such a handle ends with its thread.
TerminarSolto(c) ==
    /\ cons[c].pc = "solto" /\ ~cons[c].lendo
    /\ Ir(c, "fim")

-----------------------------------------------------------------------------
Consumo(c) ==
    \/ Preparar(c) \/ Ler(c) \/ LerSpool(c) \/ OuvirFim(c) \/ Terminar(c)
    \/ PedirArquivo(c) \/ ReceberArquivo(c) \/ TerminarSolto(c)

Fio(j) == Despejar(j) \/ Gravar(j) \/ LargarBloco(j) \/ Copiar(j)

Producao(j) ==
    TomarVaga(j) \/ FimFisico(j) \/ Interromper(j) \/ Refazer(j)

Next ==
    \/ \E c \in Consumidores :
          \/ Consumo(c) \/ Desistir(c)
          \/ \E k \in Chaves : Adquirir(c, k)
    \/ \E j \in DOMAIN jobs :
          \/ Fio(j) \/ Producao(j) \/ Receber(j) \/ Falhar(j) \/ Concluir(j)
          \/ Vencer(j) \/ FalharDisco(j) \/ EngolirCancelamento(j)
          \/ RecusarBloco(j)
    \/ Encerrar

Spec == Init /\ [][Next]_vars

Trabalhos == 1..Cardinality(Consumidores)

\* Threads end, tasks that can run do, and job.deadline ends a provider that
\* neither sends nor fails. Nothing makes a consumer give up.
Justica ==
    /\ \A c \in Consumidores : WF_vars(Consumo(c))
    /\ \A j \in Trabalhos :
          /\ WF_vars(j \in DOMAIN jobs /\ Fio(j))
          /\ WF_vars(j \in DOMAIN jobs /\ Producao(j))
          /\ WF_vars(j \in DOMAIN jobs /\ (Falhar(j) \/ Concluir(j) \/ RecusarBloco(j)))

FairSpec == Spec /\ Justica

-----------------------------------------------------------------------------
\* Properties.

Ativos == {c \in Consumidores :
              cons[c].pc \in {"vaga", "ouvindo", "terminando", "produz", "copia"}}

\* In particular the buffers never hold more than the budget, nor one of them
\* more than its own limit.
TypeOK ==
    /\ usado \in 0..Orcamento
    /\ tabela \in [Chaves -> 0..Len(jobs)]
    /\ \A j \in DOMAIN jobs :
          LET b == jobs[j]
          IN  /\ b.chave \in Chaves /\ b.refs \in Nat
              /\ b.prod \in {"vaga", "gerando", "parando", "feito"}
              /\ b.io \in {"nada", "despejando", "gravando", "falhou"}
              /\ b.memoria \in 0..LimiteMemoria
              /\ b.cache \in {"nada", "copiando", "feita", "falhou"}
              /\ b.agendada \in {"nada", "prod", "cache", "io"}
    /\ \A c \in Consumidores :
          /\ cons[c].pc \in {"fora", "vaga", "ouvindo", "terminando", "produz",
                             "copia", "solto", "fim"}
          /\ cons[c].job \in 0..Len(jobs)

\* A job counts the consumers that will release it, each once.
RefsExatas ==
    ~encerrado => \A j \in DOMAIN jobs :
        jobs[j].refs = Cardinality({c \in Ativos : cons[c].job = j})

\* What the budget counts is what the open buffers hold in memory, whatever
\* spill, cancellation or close came in between.
OrcamentoExato ==
    usado = Cardinality(Retidos(jobs, DOMAIN jobs))

\* The accounts on which sharing depends are exact.
ContasExatas == TypeOK /\ RefsExatas /\ OrcamentoExato

\* The owner closes the buffer only after its producer and consumers have
\* ended: no task, no thread and, but for a shutdown, no copy and no consumer of
\* a closed one.
FechadoSemUso ==
    \A j \in DOMAIN jobs : jobs[j].closed =>
        /\ jobs[j].prod = "feito" /\ jobs[j].io = "nada"
        /\ ~encerrado =>
              /\ jobs[j].cache # "copiando"
              /\ \A c \in Consumidores :
                    cons[c].job = j => c \notin Ativos /\ ~cons[c].lendo

\* What a reader may ask for is there when it gets the lock: the spill moves
\* the audio under the readers without a moment where part of it is nowhere.
Legivel ==
    \A j \in DOMAIN jobs :
        LET b == jobs[j]
        IN  ~b.closed /\ ~b.ruim /\ b.io # "despejando" =>
              b.tamanho <= IF b.spool THEN b.arquivo ELSE b.memoria

\* Concurrent requests for a key share a single synthesis: a job that is neither
\* stopped nor closed is the one that requests for its key find.
UmaPorChave == \A j \in DOMAIN jobs : Vivo(jobs[j]) => tabela[jobs[j].chave] = j

\* And cancelling one consumer does not interrupt the others: nobody is attached
\* to a job whose producer was cancelled.
Compartilhada ==
    /\ UmaPorChave
    /\ ~encerrado => \A c \in Ativos : ~Job(c).pedido

\* Only complete audio is copied: all that one provider sent, and nothing of
\* a provider that failed.
CopiaCompleta ==
    \A j \in DOMAIN jobs : jobs[j].cache = "copiando" =>
        LET b == jobs[j]
        IN  /\ b.ended /\ ~b.erro /\ ~b.lixo
            /\ b.tamanho = b.recebidos
            /\ b.recebidos = IF b.spool THEN b.arquivo ELSE b.memoria

\* Consumers are finite in number and, while the bot runs, each gets its audio
\* or an error; and a job nobody uses is closed, its memory and spool given back.
TudoDevolvido ==
    []<>(/\ encerrado \/ Ativos = {}
         /\ \A j \in DOMAIN jobs : jobs[j].refs = 0 => jobs[j].closed)

=============================================================================
