# Verification of the TTS bot

TLA+ specifications of the concurrent core of this repository: a Discord bot
that speaks messages in voice calls, with a chatbot that performs actions for
its members and an updater that deploys it. Each module is a translation of the source it names at its top;
paths below are relative to the repository, and `PROJECT.json` gives the lines
behind each definition (`map`), the hazards, the runs and, for every checked
property, one plausible bug that breaks it (`mutants`).

Identifiers follow the code. Where the code names things in Portuguese the
modules do too, and the history variables keep that language.

| module | what it is |
|---|---|
| `FilaDeBlocos` | abstract: the FIFO that the audio stream promises |
| `FluxoDeAudio` | the blocking audio stream of the Rust core |
| `FluxoDeAudioProvas` | its proofs: type, occupancy, counters, refinement, no lost wake-up |
| `PrioritySemaphore` | the synthesis slots with two priorities |
| `PrioritySemaphoreProofs` | its proofs: slots conserved, none idle, prefetch not starved |
| `GuildTTSQueue` | the speech queue of a guild, its worker, its clears |
| `GuildTTSQueueProofs` | its proofs: the counts, whole messages, order of speech, nothing cleared is spoken |
| `SharedSynthesis` | shared synthesis jobs, replay buffer, memory budget |
| `SharedSynthesisProofs` | its proofs: exact references and budget, nothing closed in use, shared and readable, whole copies |
| `PlanoDeAcoes` | abstract: what the chatbot promises of a plan of actions |
| `ActionStore` | the durable requests: documents and their compare-and-set |
| `ActionService` | the tasks over them: activation, cards, execution, cleanup |
| `ActionServiceProofs` | their proofs: the plan is implemented, whole plans only, one card, exact reservations |
| `EdgeSources` | the egress addresses of the Edge engine: cooldown, probe, circuit |
| `EdgeSourcesProofs` | its proofs: one probe, nothing starts in a cooldown, no late result counts |
| `PathLeases` | the audio files in use, and the deletions that wait for them |
| `PathLeasesProofs` | its proofs: deferred deletions happen, nothing in use is deleted |
| `Updater` | the transactional updater: its queue, the checkout, GitHub |
| `UpdaterProofs` | its proofs: order of the queue, only what was validated is pushed, delivered stays, what is done is on GitHub |
| `MC*` | the instances that TLC checks, with the `.cfg` files of the runs |


## 1. Inventory

### The system

A message in a voice-enabled channel travels through the bot like this:

    Discord message -> routing, dedup, admission     cogs/tts/cog.py
      -> GuildTTSState.queue (one per guild)          cogs/tts/audio.py
        -> _worker_loop: prefetch | connect | play    cogs/tts/audio.py
          -> synthesis slots (_PrioritySemaphore)     cogs/tts/audio.py
          -> StreamJob shared by equal requests       cogs/tts/streaming.py
              -> ReplayBuffer, MemoryBudget, spool    cogs/tts/runtime.py
              -> Edge (through _EdgeSources) | gTTS | remote worker
          -> cached and temporary files (PathLeases)  cogs/tts/runtime.py
          -> FluxoDeAudio, bounded PCM/Opus stream    src/fluxo.rs (Rust)
            -> Discord voice player thread

Next to it the chatbot stores *plans* of actions in MongoDB, publishes approval
cards, executes what was approved and recovers after a restart
(`cogs/chatbot/actions.py`, `action_store.py`). Beside both, a oneshot service
updates the checkout the bot runs from (`updater/core`), with candidates that the
bot queued as files and with commits of GitHub.

The Python side is one asyncio event loop: code between two awaits is atomic,
and what interleaves is tasks, cancellations, threads of `to_thread` and
network answers. The Rust side is preemptive: threads under one mutex and two
condition variables. The updater is a shell program, one execution at a time,
that may be killed at any command.

### Components with state

**Bounded audio stream** (`src/src/fluxo.rs`). State: open/finished/cancelled, a
deque of blocks, its byte count, saturating statistics. Operations:
`escrever_bloco` and `ler_bloco` (blocking, with a deadline), `finalizar`,
`cancelar`, `estatisticas`. Hard: wake-ups sent after the mutex is dropped,
blocks of different sizes, spurious wake-ups, deadlines that race them, two
limits at once. Correct when: it is a FIFO that never exceeds either limit,
end-of-stream comes only after the last block, nobody sleeps beside what they
wait for, and closing frees everybody.

**Synthesis slots** (`_PrioritySemaphore`, audio.py:306-399). State: free slots,
two queues of futures, a streak of foreground grants, the recorded priority of
each waiting task. Operations: `acquire`, `promote`, `release`. Hard: a task
cancelled after its future was resolved and before it runs. Correct when: slots
are conserved, none idles with somebody queued, background prefetch is not
starved, every wait ends.

**Guild queue and worker** (audio.py, cog.py). State: queue, unfinished count,
`pending_signatures`, `accepting`, dashboard switch, `generation`, the worker
task and its locals (item, prefetched item, arrival prefetch). Operations:
admission with dedup and eviction, the worker loop with two prefetches,
`_clear_queue_only`, the switch, shutdown, the guild leaving. Hard: a
cancellation at each await of the worker, two overlapping clears, state read
before an await and used after it. Correct when: counts match the queue,
messages are whole and in order, cleared speech is not spoken, and an accepted
message finds a worker.

**Shared synthesis** (streaming.py, runtime.py). State: table of jobs by key,
references of each job, its producer task, buffer (memory chunks, spool, size,
end, error), memory budget, cache copy task, deferred close. Operations:
acquire, produce with fallback, read from an offset, release, cache, close,
shutdown. Hard: readers in threads while memory spills, the last consumer
leaving as another one arrives, partial writes, deferred close. Correct when:
references and budget are exact, nothing is closed under a user, no partial
audio reaches the cache, everyone who waits is woken.

**Action requests** (action_store.py, actions.py). State: documents with a state
machine (`blocked`, `created`, `publishing`, `pending`, `executing`, and the
final states), the members busy in this process, tasks, cards in the chat.
Operations: create and activate a plan, arm an automatic step, publish and bind
a card, approve or reject, execute and finish, advance or cancel successors,
cancel own, expire, recover, clean up. Hard: a crash between any two writes,
lost answers, competing deciders. Correct when: no step happens twice or before
its predecessor, no half-stored plan is offered, every step ends.

**Edge sources** (edge_sources.py, edge_rate_limit.py, and the life of a lease in
audio.py and streaming.py). State of each source: level of cooldown and the time
it ends, whether a probe is out and which lease it is, consecutive failures and
when the last one was. Operations: `reserve`, `start`, `success`, `failure`,
`release`. Hard: results recorded late and out of order, a probe that is cancelled
before its task ever ran, a source that cools down between reservation and
start. Correct when: a source closed for a probe has one, nothing starts while
it cools down, only a result newer than the last failure ends an escalation, and
no sequence of failures closes a source for good.

**Path leases** (runtime.py, with the prune thread, the publication of cache
entries and the readers of audio.py). State: references by path and inode, each
with a shared `flock`; deletions deferred until the last one goes; what each
path names. Operations: `acquire`, `release`, `remove`, `close`, and
`unlink_if_unlocked`, which opens, locks, compares and only then removes. Hard: the
path may name another file at each of these steps. Correct when: no file in use
is deleted, and a deferred deletion happens.

**Updater** (updater/core: fila.sh, candidato.sh, recuperacao.sh, reversao.sh,
orquestracao.sh). State: the directory each candidate's file is in, its resume
count, its base; the live checkout and its uncommitted changes; the branch on
GitHub and the tracking ref; rejected and dirty markers; the request for a
reversal; the variables of the running execution. Operations: claim or resume,
recognition of what an earlier execution did, synchronisation, preparation,
promotion, deploy, push, delivery, archive, rollback, reversal, a commit of
GitHub. Hard: an execution may be killed between any two of them, and a push
whose answer is lost happened or did not. Correct when: candidates are applied in order
and once, done means published, what was delivered is not rolled back, only
deployed versions are published, and the queue moves.

**Others with state, not modelled yet**: the PCM buffer of CD streams, the prepared Opus
cache, action drafts, chatbot memory epochs, the music player and its phone
bridge, the registry of remote workers.
**With little or no concurrent state**: panels, forms, tickets, games and small
commands, dashboard, deployment scripts, singing engines, scores. Every one is
in `PROJECT.json` with its sources and the reason.

### How the modelled components interact

The guild worker asks for a slot of the semaphore before a synthesis, attaches
to a job of shared synthesis, and feeds the player. Each of these modules sees
the others through that interface only:

- for `GuildTTSQueue`, what a speech goes through between connection and end is
  one suspended step of the worker, which may be interrupted;
- for `SharedSynthesis`, consumers arrive, read, and give up at any point, which
  includes what a cancelled worker does; providers are a sequence of chunks
  and an outcome;
- for `PrioritySemaphore`, tasks arrive with either priority and may be
  cancelled or promoted at any point;
- `FluxoDeAudio` is called by any number of threads in any order;
- for `EdgeSources`, a synthesis is reserved, waits for its slot, asks the service
  and may be cancelled in each of these places, as the producers of
  `SharedSynthesis` and the file syntheses of the worker are;
- for `PathLeases`, an owner is an item being spoken, and owners, readers,
  publishers and removers act in any order;
- `Updater` sees the bot as who queues candidates and asks for reversals.

So each component is checked against every behaviour of its neighbours, and more.
`ActionService` EXTENDS `ActionStore`: the store is its state and its guards, the
service the order in which tasks use them.


## 2. Modules and how they correspond to the code

### FluxoDeAudio, FilaDeBlocos

A thread runs from taking the mutex to releasing it in one step (`pc = "trava"`),
sleeps on a condition variable (`"espera"`), and sends its signals after the
mutex is dropped as separate steps (`"avisar_..."`), as the code does. The
order of the tests in `ler_bloco` and `escrever_bloco` is kept: size, state,
block available, deadline. `Vencer` lets the deadline of a sleeping or running
call pass at any moment; `DespertarEspurio` is a spurious wake-up.
`tamanho` maps blocks to lengths, empty and oversized ones included.
`bytes_em_fila` is a plain subtraction whose range `TypeOK` checks; counters
saturate at `LimiteU64`.
`FilaDeBlocos` is what callers may rely on; `EFila` says the stream implements
it, with what callers were told as the mapping (`aceitos`, `entregues`, `fim`).

### PrioritySemaphore

One step per piece of code between two awaits. A future is named by the task
that waits on it. `Cancelar` on a pending future cancels it (the task leaves
the queue at its next turn, `SairDaFila`, and until then a dead future is
queued); on a granted one it leaves the mark `cancelar`, and `Repassar` is the
`except CancelledError` that returns the slot. `_foreground_streak` is kept up
to the value it is compared with.

### GuildTTSQueue

`w.pc` is the await the worker is suspended in. An action runs the code from
there to the next await, loops included: `Continuar` is the top of the loop
with its conditions, `Sair` an exit through `finally`, `Interromper` the delivery
of a cancellation at the current await, with the behaviour of each `except` and
`finally` around it. `ComWorker` is `_ensure_worker`. The arrival prefetch (a
task waiting on `queue.get()` during a speech) is `ChegadaAdiantada`, or
`ChegadaOrfa` when the worker ended without collecting it. `FicarSozinho` is the call
being left by everybody, the condition of `_disconnect_idle`. Items carry the
generation they were accepted in, messages the signatures of their parts.

### SharedSynthesis

A job is a record; `Trocar` replaces one together with what depends on it:
the close of a job whose last user left (`Fechar`), its entry in the table and
its share of the budget. Appends are a decision under the event loop
(`Receber`), a thread (`Despejar` spills memory, `Gravar` appends) and a result;
a cancellation may arrive while the thread runs (`Interromper`,
`EngolirCancelamento`). `Falhar` decides the local fallback from `tamanho`,
as streaming.py:284 does. `lixo` marks bytes left by a partial write that the
code cannot see. `Retidos` is the chunks that open buffers keep in memory, as a set, so
that the budget is compared with how many they are.

### ActionStore, ActionService, PlanoDeAcoes

Each document update is one atomic compare-and-set, as `find_one_and_update` is;
each step of `ActionService` is one such write, one use of `_active_users` or one
call to Discord. `Cair` drops every task and keeps documents, cards and effects;
the start that follows is a cleanup without scheduling, then a scheduling.
Results of a validation, an execution or a card delivery are choices, answers
may be lost, and a write may fail before an execution starts. Time is two flags
of a document: expired, and stale in `executing` or `publishing`. A recovery of
stale executions may race the live execution it presumes dead, so an effect may
come after the request was closed as uncertain; `PlanoDeAcoes` allows that and no
more.


### EdgeSources

A lease goes from `Reservar` to its end through the places where its task is
suspended: created and not run yet, waiting for a slot, on the network, and with
an answer that an await still separates from its recording. `Liberar` is
`release`, reached by an `except`, a `finally` or the done callback that
streaming.py:125-127 adds for a producer that never ran. `velha` says that a failure was
recorded since the request started (`started_failure_count`); the times
`retry_at` and `failed_at + circuit_cooldown` are flags that `Tempo` ends.

### PathLeases

A path names an inode, and an open descriptor keeps an inode alive under no name.
The event loop is in at most one operation (`loop`), while the threads run; opening a
file and locking it are two steps, and `unlink_if_unlocked` is four
(`AbrirParaApagar`, `Trancar`, `Conferir`, `Apagar`), for the loop and for the prune
thread. `flock` is the condition that shared holders and an exclusive one
exclude each other, and never blocks (`LOCK_NB`). An inode without name or
descriptor may be given to a new file.

### Updater

A commit is named by the history that ends in it, so an ancestor is a prefix, and
the commit of a candidate is its number. One action is what an execution
does between two changes of durable state (queue file, checkout, GitHub, markers,
request); `ex` holds the shell variables, which `Queda` loses. `AoFalhar` is
the decision of `on_error` with its order: what was delivered is kept, what was
applied is undone, the rest is archived. `Reconhecer` is
`local_live_head_candidate_state`; `Perguntar` the `ls-remote` after a failed push.
Validation, deploy, push and delivery succeed or fail by choice. A candidate with
a patch is applied by a merge that may conflict; one without (`SemPatch`) is
copied over, and conflicts where its base was abandoned.


## 3. What the runs check

| run | instance | shows |
|---|---|---|
| `fluxo` | 2 writers (3 blocks of 1, 3 or 5 bytes), 2 readers, 1 closer, 4 bytes, 2 blocks, counters saturate at 2 | `TypeOK`, `OcupacaoExata`, `ContadoresExatos`; `NinguemEsquecido`: nobody sleeps, with no signal on its way, beside a block or space it could use; `EFila` (refinement); `ChamadasVoltam`: closing, or a deadline, ends every call |
| `prioridade` | 4 tasks, 2 slots | `VagasConservadas`, `SemVagaOciosa`, `FundoNaoPreterido` (at most four foreground grants in a row over a live prefetch), `EsperaTermina` |
| `fila` | messages of 3 and 2 parts, capacity 3, 2 clears, 2 switch changes (off, on), shutdown, guild leaving, empty call | `TarefasExatas`, `AssinaturasExatas`, `MensagensInteiras`, `FechadaEnquantoEspera`, `EmOrdem`, `NaoTocaApagada`, `FilaRepousa` |
| `fila_abandonada` | the same messages, 1 clear | **violated**: `NadaAbandonado` (section 6) |
| `sintese_segura` | 1 stream and 1 file consumer, an edge and a gtts key, 2 chunks, 1 chunk of memory | `ContasExatas`, `FechadoSemUso`, `Legivel`, `Compartilhada`, `CopiaCompleta` |
| `sintese_encerra` | the same consumers, 1 key, 1 chunk, disk failures, shutdown | `TudoDevolvido` |
| `sintese_mistura` | 1 key, 2 chunks, no memory, disk failures | **violated**: `CopiaCompleta` (section 6) |
| `acoes_seguras` | one plan of an automatic step and one with a card, 2 clicks, 1 crash | `PlanoInteiro`, `ReservaExata`, `UmCartao`, `EPlano` (refinement) |
| `acoes_terminam` | the same plan, 1 click, 1 crash; one member, so nobody is busy with another plan | `TudoTermina` |
| `edge_fontes` | 1 source, 3 syntheses, circuit of 2 failures, 2 levels of delay | `SondaComDono`, `NadaNaEspera`, `TardiaNaoFecha`, `FonteVolta` |
| `arquivos_seguros` | 1 path, 3 inodes, 2 owners, 1 reader, 2 publishers, loop and prune thread | `DeferidaAcontece`, `NaoApagaEmUso` |
| `atualizador` | 2 candidates (one to be confirmed, one without patch), 1 commit of others, 1 resume allowed, 1 reversal, 2 kills | `FilaEmOrdem`, `FeitaPublicada`, `PublicadaFica`, `PublicaSoValidada`, `TudoAssenta` |

`CHECK_DEADLOCK FALSE` is set where the system may stop: all messages were sent,
all consumers are done, all calls made, every step final, every candidate sent and
archived. `prioridade`, `edge_fontes` and `arquivos_seguros` keep the check: there
a task may always ask again.

### Bounds, and why they are enough

- *Stream.* Capacity 4, two blocks at most, and blocks of 1, 3 and 5 bytes reach
  both limits, a block that can never fit, and a read that makes room for one
  waiting writer and not for the other. Two threads a side are what a lost
  `notify_one` needs; the writer with two calls follows another writer's block with
  its own. Counters saturate within a run. `MaxChamadas` bounds the calls of a
  thread; an empty block, refused at the door, is left to the proofs, which
  cover every length.
- *Semaphore.* Four tasks over two slots give a holder, waiters of both
  priorities and a cancelled future at once. Tasks ask again without bound, so
  the streak of four is reached.
- *Guild queue.* Capacity 3, a message that fills it and one that repeats two of
  its parts reach eviction of a whole message, a duplicate of a queued one
  and refusal, with items in hand, prefetched and queued at once. The two clears
  overlap each other and the shutdown. The switch may go off and on again, which is
  what a worker that saw it off, and a message that saw it on, need to meet.
- *Synthesis.* One chunk of memory makes the second one spill; the same key
  requested again after its job was cut gives a second job. With the consumers
  giving up and asking at any point, a job has every number of users from two to
  none.
- *Actions.* A plan of two steps has a predecessor and a dependent, one of
  each kind. A crash may come at each step; after it a whole recovery runs
  against tasks of the new process. More crashes only repeat the recovery from
  states that it already starts from. With one plan, `reservas` never refuses anybody:
  a busy member and `MaxAcoes` are left to the proof of `ReservaExata`, and what they do
  to `TudoTermina` is not checked (two plans with a crash take too long).
- *Edge sources.* Sources share nothing. Three requests are a probe, an older one whose
  answer arrives meanwhile, and one that waits for its slot; two failures
  open the circuit and pass both levels. Syntheses ask again without bound.
- *Files.* Paths share nothing either. Three inodes are the leased one, its
  replacement and the replacement of that; publishers and references come again
  without bound.
- *Updater.* Two candidates have an order to keep; with one external commit GitHub
  can be ahead, behind and diverged. `MaxQuedas` of 2 over `MaxRetomadas` of 1
  exceeds the limit of resumes. Executions and looks at GitHub are not bounded.

`acoes_seguras` takes the two clicks as symmetric, and `arquivos_seguros` inodes,
owners and publishers: no definition tells them apart. `ChamadasVoltam`, `FilaRepousa`,
`TudoDevolvido` and `TudoTermina` say that the work is all done infinitely often. With
finitely many calls, clears, messages, consumers and plans, and none of them undone
once done, this says that each comes to its end. `FilaRepousa` has an exception
in its formula: an item left by a worker that ended while it arrived (`deixada`; section 6, 13).

### Fairness and why the code justifies it

`Spec` has none; only liveness uses `FairSpec`.

- *Stream*: weak fairness of each running call and of a sleeping call whose
  deadline passed: the scheduler runs threads, and `wait_timeout` returns.
  Nothing is assumed about when a deadline passes or about a new call; in
  `ChamadasVoltam` the deadline's passing is the premise.
- *Semaphore*: the event loop runs each task that is ready, and who holds a slot
  gives it back (a synthesis has a timeout, and `release` is in a `finally`).
- *Guild queue*: the worker's awaits end (`Trabalho`: playback and connection
  have time limits), `queue.get()` returns when an item is there
  (`ChegadaAdiantada`), and a clear resumes when its worker is done. Nothing about
  messages, clears, the switch or shutdown, which may never come.
- *Synthesis*: consumers that are ready run, threads end, a producer runs, and a
  provider answers or fails at its deadline. Nothing about a consumer's wish
  to give up.
- *Actions*: each task takes its next step, time passes (`Passa`), the cleanup loop
  keeps running. Nothing about clicks, cancellations or crashes, which
  `MaxQuedas` bounds: with crashes for ever nothing can be promised.
- *Edge sources*: a synthesis gets its slot, its request ends by an answer or its
  timeout, and clocks advance. Nobody has to speak or to cancel.
- *Updater*: one weak fairness, of `Passo`: the timer starts an execution a minute
  after the last one ended, and every command of one ends. Nobody has to send,
  confirm, ask for a reversal or clean a checkout; kills are bounded by
  `MaxQuedas`. `TudoAssenta` supposes that from some time on no reversal is active and
  the checkout is clean (`Emperrado`), and asks nothing of a VPS that a kill left
diverged from GitHub (`Divergiu`), while candidates must be archived there too:
section 6 says why the code needs that.


## 4. What is proved

TLAPS checks these for every value of the constants, under the named assumptions
of the modules. TLC checks the properties they state on the instances above;
the auxiliary parts of the inductive invariants (`Historia`, `FilaExata`,
`FuturosCoerentes`, `EsperandoNaFila`, `SondaAposEspera`, and those of
`GuildTTSQueueProofs`, `SharedSynthesisProofs`, `PathLeasesProofs`,
`ActionServiceProofs` and `UpdaterProofs`) are in no run, the proofs establish them.

### The audio stream (`FluxoDeAudioProvas`)

From `ThreadsDisjuntas` (a thread is of one kind), `ThreadsFinitas` (there are
finitely many), `TamanhoNat` (lengths are naturals), `ConfiguracaoValida` (both limits positive, what `validar` enforces)
and `LimitesNat`: for any threads, blocks and limits,

- `Tipo`: `Spec => []TypeOK`; the unsigned occupancy never underflows;
- `Ocupacao`: `Spec => []OcupacaoExata`; occupancy is exactly what was accepted and
  not removed, within both limits;
- `Contadores`: `Spec => []ContadoresExatos`; counters are the saturated totals;
- `Refinamento`: `Spec => EFila`; the stream implements the FIFO;
- `SemEsquecidos`: `Spec => []NinguemEsquecido`; nobody sleeps, with no signal on its
  way, beside a block or the room it waits for.

The inductive invariant is `IInv = TypeOK /\ Historia /\ FilaExata /\
OcupacaoExata /\ ContadoresExatos`. None of the three results is inductive alone:
that a removal subtracts the right amount needs the queue to be what was accepted
after what was delivered (`FilaExata`), in bytes as well, which `Historia` keeps by
prefix totals (`ate[i]` is the bytes of the first i accepted blocks; a
prefix total and not a recursive sum, so that no induction over data is needed).
Most steps touch neither queue nor history: `Quieto` collects them, one lemma
says that they keep the invariant, and one lemma for each of the others
(insert, remove, end, finish, cancel) follows. The refinement uses the same
invariant: each step is a step of the FIFO or a stutter.

`SemEsquecidos` has two halves. While a reader sleeps, the blocks are at most as many
as the writers that still have to signal and the readers already on their way to the
mutex (`LeitorLembrado`): each insertion adds a block and a signaller, each signal turns one
into a reader on its way, each removal takes a block and such a reader. While a writer
sleeps beside room for its block, a reader is about to signal to all
(`EscritorLembrado`): only a removal makes room. Both count threads by the cardinality of
sets of them, hence `ThreadsFinitas`.

### The priority semaphore (`PrioritySemaphoreProofs`)

From `TarefasFinitas` and `VagasNat`, for any tasks and slots:

- `Conservacao`: `Spec => []VagasConservadas`; free slots and occupied ones (held,
  or granted to a task that has not run yet) add up, across every cancellation;
- `NaoOciosa`: `Spec => []SemVagaOciosa`; nobody is queued while a slot is free;
- `NaoPreterido`: `Spec => []FundoNaoPreterido`; prefetch is overtaken by at most
  four foreground grants in a row;
- `Tipo`: `Spec => []TypeOK`.

The invariant is `TypeOK /\ FuturosCoerentes /\ EsperandoNaFila /\
VagasConservadas /\ SemVagaOciosa`: conservation needs that a resolved future is
one of a waiting task, and that a live future stands in the queue its record names, so
that a grant moves exactly one task into `Ocupantes`. Counting is done with the
cardinality facts of FiniteSetTheorems on one added or removed element.

`NaoPreterido` rests on one more fact, `preteridas <= sequencia`: a grant that
overtakes prefetch happens below the limit and is counted by the streak.

### The speech queue of a guild (`GuildTTSQueueProofs`)

From `FilaAssumption` (finitely many messages and clears; a capacity of at least one,
the `max(1, ...)` of audio.py:88; no message without a part, since the code returns
before it touches the queue for an empty one, audio.py:813-815), for any texts, lengths, capacity,
number of clears and of changes of the dashboard:

- `TarefasCertas`: `Spec => []TarefasExatas`, with the type; `task_done` is owed for each
  item in the queue or in the worker's hands, and the queue never outgrows its capacity;
- `AssinaturasCertas`: `Spec => []AssinaturasExatas`; no signature is counted without its
  item and, with one clear at most, none is forgotten;
- `Inteireza`: `Spec => []MensagensInteiras`; no part of a message is left on its own;
- `Fechamento`: `Spec => []FechadaEnquantoEspera`; with two clears at most the queue is
  closed while its worker is waited for;
- `Ordenada`: `Spec => EmOrdem`; speech starts in the order of acceptance, each part once;
- `ApagadaCalada`: `Spec => NaoTocaApagada`; what a clear erased is never spoken.

The parts of the invariant take the state of the queue and the one of the worker as
arguments, because the code changes both on its way between two awaits and the
proofs follow it: `Entre` is the invariant of the top of the loop, `Solta` the one of the last
lines of the outer `finally`, and `ContinuarVale`, `SairVale` and `FimVale` prove the ways on and
out once for the seven actions that take them. `WorkerBom` says what the worker may have in hand at
each await, `Devidas` that each of these items has its `task_done`. Order needs that
`tirada`, the last item taken by anybody, is after what was spoken and what is in hand
and before what is queued (`Ordem`): the two prefetches and the one that an interrupted
worker left behind all take from the same head. That a cleared item is silent is not a matter of
the queue, which the clear empties, but of the hands of the worker: an item from before
the clear is in the hands of a worker of a generation before (`Depois`), and both
ways to a speech find that out. Signatures are counted by the indices of the queue that have them,
and the lemmas on sequences (`MarcasSoma`, `MarcasPartes`, `MarcasCabeca`) say how the count
follows a concatenation, a split and a head. `Fechada` is the part about clears: that two of them at most are needed
shows in its proof, where a clear in a third place would break it (section 6, 3).

### The shared synthesis jobs (`SharedSynthesisProofs`)

From `ConstantesAssumption` (finitely many consumers, a consumer is of one kind, the
bounds are naturals), for any keys, consumers, chunks, memory limit and budget, with
disk failures and a shutdown where nothing else is said:

- `Contas`: `Spec => []ContasExatas`; until a shutdown, `references` is the number of
  consumers that will still release the job; `MemoryBudget.used` is what open buffers
  keep in memory, within its limit;
- `Fechados`: `Spec => []FechadoSemUso`; a closed buffer has no producer and no append
  left and, but for a shutdown, no consumer and no copy;
- `Leitura`: `Spec => []Legivel`; what a reader may ask for is stored whenever the lock
  of the buffer is free;
- `Compartilhamento`: `Spec => []Compartilhada`; requests for a key share its live job,
  and nobody is attached to a job whose producer was cancelled;
- `Copia`: with `"disco" \notin Ambiente`, `Spec => [](~encerrado => CopiaCompleta)`.

The invariant is `IInv = Tipos /\ Jobs /\ Tabela /\ Leitores /\ Referencias /\
OrcamentoExato /\ Copias /\ SemDisco`. `Jobs` says of each record what its
producer, its append and its end leave in it: who appends and where (`EscritaBoa`), that a
closed or a cut job has neither users nor, if closed, memory (`FimBom`), that the
audio offered is stored (`AudioBom`) and, without errors, is what was received but for
the append in progress (`AudioExato`). `Referencias` counts the places of the consumers,
and is what makes the last release the last: `Cortar` and `Fechar` both wait for
zero. An action replaces one job, so the lemmas on single records tell the step
no account notices (`Conserva`, `Muda`) from the one that may close (`Larga`,
`Solta`), and each action is one of the two. The budget would be a sum over jobs; as
the cardinality of `Retidos` it follows a chunk that is added and a buffer that is
emptied by the library's facts on finite sets.

`Copia` stops where the code does. With a disk that fails, a partial write leaves bytes that
no field of the buffer shows, and the run `sintese_mistura` refutes it (section 6). After a
shutdown the model lets a file consumer go on that the code cancels in the same step
(audio.py:3411-3444), so it could ask for a copy of a buffer already closed: an
over-approximation, of no use for this property.

### The egress sources (`EdgeSourcesProofs`)

From `FontesAssumption` (the marker of nobody is no source and no synthesis; at
least one failure opens the circuit; at least one delay), for any sources, syntheses
and thresholds:

- `UmaSonda`: `Spec => []SondaComDono`; a source closed for a probe has one, a lease
  that was reserved there as a probe and has not ended;
- `Espera`: `Spec => NadaNaEspera`; no request starts at a source that cools down;
- `Tardia`: `Spec => TardiaNaoFecha`; a source is taken for recovered only by a
  request that started after the last failure recorded there.

The invariant is `IInv = SondaComDono /\ SondaAposEspera`. The second part, that a
probe is out only at a level whose wait is over, is what lets `start` of a probe skip
the look at the clock; it needs the first, since each result has to know whether it
is the probe's. For `Tardia`, one lemma says that level and failure count fall by
`RegistrarSucesso` only, another what such a success was.

### The audio files (`PathLeasesProofs`)

From `LeasesAssumption` (the loop is not the prune thread, no item is a reader, the
marker of nothing is no inode and no path), for any paths, inodes, items, readers and
publishers:

- `Deferida`: `Spec => []DeferidaAcontece`; a deferred deletion is neither forgotten
  nor kept past the last reference;
- `SoApagaSemUso`: `Spec => NaoApagaEmUso`; no file in use is deleted, with the
  exception the property names.

The invariant follows names: an inode has one, and while an entry, a descriptor of
the loop or a remover keeps it, only the path it was opened by can name it
(`NomeUnico`). With it, what a remover locked is free of users (`SemUso`), the key
of the deletion in progress has no owner (`AlvoSolto`), and a deletion asked for is
pending, in the hands of the loop, or its file is locked by the other remover
(`PedidoVivo`), of which `DeferidaAcontece` is the case of an idle loop. Two lemmas
carry the steps of a remover, one that gives up and one that goes on.

### The chatbot's actions (`ActionServiceProofs`)

From `ServicoAssumption` (at least one concurrent action; every plan has a member; a
click is no request, so that a task is one or the other), for any plans, members,
clicks, limit and number of crashes:

- `RefinaPlano`: `Spec => EPlano`; the service implements `PlanoDeAcoes`: a step is
  offered only after the ones before it succeeded, decided once, and its effect is
  claimed once at most, with lost replies, crashes and recoveries in between;
- `PlanosInteiros`: `Spec => []PlanoInteiro`; a plan whose storing was interrupted
  offers no step;
- `UmCartaoSempre`: `Spec => []UmCartao`; one card per request;
- `ReservasExatas`: `Spec => []ReservaExata`; a reserved member has one task that acts
  for them and the others have none, so a release never gives back the place of another.

The argument goes in layers, `IInv = Tipos /\ DocInv /\ ExecInv /\ ResInv /\
CartaoInv`. The documents come first (`DocInv`): an offered step follows succeeded
ones (`Precedidas`) and was claimed at most once (`Contas`), which needs the plan to
be whole, since the recovery completes a plan from what it finds. The executions say whether
their effect happened (`Sabe`), which is what makes a conclusion after a lost reply right;
a claim leads to one execution, by the click that won it or by one task (`Exclusiva`);
the reservations count tasks, and stay exact because a claim passes from click to
execution in one step. Each step does to the documents one of the moves the proof
names (inserted, activated, offered, claimed, concluded, closed) or none
the phases see: one lemma per action says which (`Fiel`) and that `IInv` goes on, and the
refinement maps each move to an action of `PlanoDeAcoes`.

### The updater (`UpdaterProofs`)

From `UpdaterAssumption` (bounds are naturals; the candidates that wait or have no patch
are candidates; commits of other people are none of ours), for any number of
candidates, foreign commits, reversals asked for and executions killed:

- `FilaServidaEmOrdem`: `Spec => []FilaEmOrdem`; candidates are taken in order, and live
  and GitHub hold them in that order, each once or again over its reversal; a
  candidate is resumed at most `MaxQuedas + MaxRetomadas + 1` times;
- `SoValidadaSai`: `Spec => PublicaSoValidada`; what the updater pushes passed its deploy;
- `EntregueFica`: `Spec => PublicadaFica`; nothing delivered leaves live;
- `FeitasPublicadas`: `Spec => []FeitaPublicada`; what was archived as done is in live
  and on GitHub, but for the exception the property names.

The invariant follows the histories. Live, GitHub, the tracking ref and what the
execution holds (`remoto`, `anterior`) are each a *good* history (`Boa`): commits of
candidates already taken, in order. Being good is inherited by prefixes (a pull, the parent of
a promoted commit) and kept by a commit on top, provided that a candidate is promoted
over a history in which it is not, or only reverted (`Ausencia`). A rollback goes back to
`anterior`, so `Entregues` says that what was archived as done is there too, and that
live ends in the candidate from its promotion on; `Compativel` says which steps each kind
of execution takes, and that one which delivered never reaches the rollback.
`Retomadas` bounds the resumptions: one per kill, and one more that stopped at a dirty
checkout for each of the first ones. Three lemmas carry a step (an execution begins, goes
on, ends), one more the archive.

`FeitasPublicadas` needs a second invariant, `PInv`, on top of the first. Each history
that live may be in, now or after a rollback, is *sound* (`Sadia`): what was archived as
done is on GitHub, or the history holds another commit that GitHub does not have; if it
is ahead of GitHub, then GitHub was seen where it is; and it holds no commit of
others that GitHub lost. The last two are what a push of somebody else leaves true: GitHub's
new commit is in no history here, so none is ahead any more. `Vistas` says how
far the tracking ref may lag, `Recente` that a commit is made over a GitHub
seen where it is, unless GitHub is ahead. The candidate that changes nothing
(`NadaMuda`) is the hard case: with live ahead of GitHub and the candidate in it, either
its commit is the only one ahead, which `JaPromovida` recognizes, or another one is
(`AFrente`). A commit is the history that ends in it and never its label: after a second
reversal a candidate's label comes back, and a leftover commit could be taken for one
that GitHub has.

### Only model-checked

All liveness: the prover does not reason about fairness and ENABLED here. Of the
safety properties that the passing runs check none is left, but `CopiaCompleta` after a
shutdown is neither proved nor checked, as said above.

Also out of its reach are inductions over data and operators declared RECURSIVE;
the modules use neither.


## 5. What the models leave out

- *Stream*: time itself (a deadline is passed or not), the bytes of a block,
  mutex poisoning, and the Python binding, which converts arguments.
- *Guild queue*: synthesis, voice connection and playback inside a speech;
  several guilds (they share nothing but slots and jobs); the text of items; the
  timers of idle disconnection (only whether somebody is in the call). `deixada` is a
  history variable and stands for nothing in the code.
- *Synthesis*: provider protocols; the audio queue between a handle and the
  player; the prefetch slot; names and permissions of spool files; several
  consumers of one kind at a time beyond one stream and one file.
- *Actions*: approvals of older versions of the format, removal of documents by
  their TTL of seven days, a start that fails, writes that fail inside an
  `except` clause, wording of answers. An orderly shutdown is a crash after the
  last write. A card sent just before a crash and not bound stays in the chat:
  its clicks are refused because no document names it.
- *Edge sources*: which source a request prefers (a hash) and the notices that a
  change of state sends; both decide nothing about availability. The circuit is
  taken as enabled, which is the default.
- *Files*: the cache index in memory, sizes and ages (which files the prune thread
  chooses), errors of the file system other than a path that is gone.
- *Updater*: the cancellation of a queued candidate by the bot, expiry apart from the
  rejection it causes, the outboxes of messages, runtime releases (virtual
  environments, builds of the dashboard), which version the bot process runs
  between a reset and its restart, and content conflicts between candidates. The
  `git reset` of a rollback succeeds, unless the execution is killed before it; the
  branch for one that fails (recuperacao.sh:77-81) is not modelled.
- Components listed `not_modelled` in `PROJECT.json`, with reasons there.


## 6. Disagreements between the code and what it says of itself

1. **A clear may abandon the item being cleaned up** (`fila_abandonada`). The
   worker's per-item `finally` (audio.py:8452-8468) awaits before it releases the
   item's audio and calls `task_done`. A clear that cancels the worker at that
   await skips both; the clear test requires no unfinished tasks afterwards, and
   has a worker whose `finally` cooperates.
2. **A partial spool write may be mixed into the cache** (`sintese_mistura`). The
   local fallback is chosen when the buffer's size is zero, and a write that
   fails half way leaves bytes with size zero. The two engines then share one
   spool, and the mixture is cached, against docs/tts-performance-patch.md:20.

The next observations are behaviours the models have and the properties are stated
around; they contradict no test, and no run is built to show one.

3. **Overlapping clears.** A clear that comes between the end of the worker and the
   resumption of the clear that waited for it finds no worker and reopens the queue at once; a message
   may be accepted, and the first clear then erases its signature (cog.py:4804). A
   duplicate of that message is accepted. `AssinaturasExatas` therefore asks for
   exact counts while at most one clear was issued. A third clear that begins
   over the worker of that message waits for it with the queue that the first one
   reopened: `FechadaEnquantoEspera` is stated for at most two.
4. **A deferred deletion may take the replacement.** `release` compares the path with
   its inode and then `unlink_if_unlocked` opens the path again (runtime.py:330-332).
   A publication (`os.replace`, audio.py:3979-3991) in a thread between the two gives the
   path another file, unused and so removed, though the docstring says that
   "replacing a cache entry cannot delete it when an older consumer releases the
   previous file at the same pathname" (runtime.py:285-286). The cost is one more
   synthesis. `NaoApagaEmUso` speaks of files in use, and excepts one published between
   the comparison of a remover and its `os.remove`, which goes by the path.
5. **A candidate over its limits is rejected before it is recognized.** The limits and
   the expiry (candidato.sh:2641-2661) come before
   `local_live_head_candidate_state`: a commit that was promoted and not pushed stays in
   live while its candidate is archived as failed, with the text "Nenhuma alteração foi
   aplicada" (2659), and the next push publishes it. A reversal killed between its
   commit and its push leaves the same. `FeitaPublicada` has the exception `Sobra` for
   what a later candidate finds there. Until then an unpushed commit in live
   makes each look at GitHub validate and deploy again, and never pushes it.
6. **A kill after the promotion and an external push** leave live and GitHub diverged,
   and `pull --ff-only` fails for each later candidate. The ticks fare no better: each
   one tests GitHub's commit in isolation, `merge --ff-only` fails
   (orquestracao.sh:128) before anything is applied, and so the commit is neither
   taken nor marked as rejected, and the next tick does all of it again until somebody
   repairs the checkout. This is the exception `Divergiu` of `TudoAssenta`, which
   the run reaches: without it the property is violated.
7. **The pull of a candidate brings what GitHub has**, commits that were rejected
   here included, into live without validation of their own.
8. **A kill between the reset of a rollback (recuperacao.sh:57) and the archive (308)**
   leaves the candidate active, and the next execution applies it again;
   updater/README.md:128-130 wants that restarts "não transformem uma falha
   conhecida em um novo update".
9. **A push whose answer and whose `ls-remote` both fail** is rolled back although
   GitHub has it; the next look at GitHub applies it again. The push of a reversal
   has no `ls-remote` (reversao.sh:269).
10. **A reversal that fails is never archived**: `rollback_after_failure` archives
    candidates only (recuperacao.sh:304-309), so each tick tries it again, and the queue,
    served after it, waits. A kill after `git revert --no-commit` leaves a dirty
    checkout, which stops each execution until somebody cleans it. Both are
    `Emperrado`.
11. **A candidate killed between its card and its archive may return over its
    reversal**: the button works, the reversal is served first, and the resumed
    candidate is applied again. `NaOrdem` allows that order.
12. **A cancellation may race a claim** (controles.py:127-148): its two renames run in
    the process of the bot while the updater moves the same file. Not modelled.
13. **A message accepted while the worker is ending may wait.** The worker ends after
   `_disconnect_idle` (audio.py:8224-8226), or after it discarded its prefetch because
   the switch was off (8188-8203), without a look at the queue after that await. A
   message accepted meanwhile finds a task that is not done (`_ensure_worker`, 857)
   and starts none. It is spoken once another message starts a worker. This is the
   exception of `FilaRepousa`: without it the property is violated, by a
   switch turned on again or by a member who comes back.


## 7. Plan

Order of the work, most important first; done so far: 1 to 8.

1. `FilaDeBlocos`, `FluxoDeAudio`, run, `FluxoDeAudioProvas`.
2. `PrioritySemaphore`, run, `PrioritySemaphoreProofs`.
3. `GuildTTSQueue`: composed of admission, worker and clears over one state.
4. `SharedSynthesis`: jobs, buffer, budget, cache copy, close.
5. `PlanoDeAcoes`, `ActionStore`, `ActionService` with crash and recovery.
6. `PathLeases`: references by inode, a replaced file at the same path, deferred
   deletion.
7. `EdgeSources`: cooldown, exclusive probe, results that arrive late.
8. `Updater`: candidate, promotion, push, rollback, reversal, a kill anywhere.
9. `PCMStreamBuffer` (cd_stream.py): a second blocking buffer, compared with
   `FilaDeBlocos` as its abstract specification.
10. The cancellation of queued candidates; then action drafts, memory epochs, the
    worker registry, the music bridge.

Every safety and action property of the passing runs is stated by a theorem. Theorems
worth proving next come with the modules of items 9 and 10, above all that the
second blocking buffer implements `FilaDeBlocos`.


## 8. Running

    tlc -config FluxoDeAudio.cfg MCFluxoDeAudio
    tlapm FluxoDeAudioProvas.tla

Each run's module and configuration are in `PROJECT.json`. The largest ones take
one to four minutes.
