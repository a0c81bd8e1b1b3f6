------------------------- MODULE PrioritySemaphore -------------------------
(* _PrioritySemaphore of src/cogs/tts/audio.py: the slots of a synthesis     *)
(* engine, asked for by speech that is being heard (foreground) and by       *)
(* speculative prefetch (background). One event loop: each piece of code     *)
(* between two awaits is a step. A task waits on at most one future, so the  *)
(* future is named by its task.                                              *)
EXTENDS Naturals, Sequences, FiniteSets, SequencesExt

CONSTANTS Tarefas, Vagas

ASSUME TarefasFinitas == IsFiniteSet(Tarefas)
ASSUME VagasNat == Vagas \in Nat

Limite == 4   \* foreground grants in a row before a background one goes first

VARIABLES
    valor,        \* _value
    sequencia,    \* _foreground_streak, of which only ">= 4" is ever read
    frente,       \* _foreground_waiters
    fundo,        \* _background_waiters
    futuro,       \* state of the future each task waits on
    emFrente,     \* the priority recorded in _task_waiters
    cancelar,     \* task.cancel() came after the future was resolved
    pc,           \* "fora", "espera" inside acquire, "dentro" holding a slot
    preteridas    \* history: foreground grants in a row over a live background

vars == <<valor, sequencia, frente, fundo, futuro, emFrente, cancelar, pc,
          preteridas>>

Init ==
    /\ valor = Vagas
    /\ sequencia = 0
    /\ frente = <<>>
    /\ fundo = <<>>
    /\ futuro = [t \in Tarefas |-> "nenhum"]
    /\ emFrente = [t \in Tarefas |-> FALSE]
    /\ cancelar = [t \in Tarefas |-> FALSE]
    /\ pc = [t \in Tarefas |-> "fora"]
    /\ preteridas = 0

\* Positions of a queue whose future is not done yet, and the first of them.
Vivos(fila) == {i \in 1..Len(fila) : futuro[fila[i]] = "pendente"}
PrimeiroVivo(fila, i) == i \in Vivos(fila) /\ \A j \in Vivos(fila) : i <= j

\* What popleft leaves behind position i: the futures before it were done.
Depois(fila, i) == SubSeq(fila, i + 1, Len(fila))

\* deque.remove, which changes nothing when t is not there.
Remover(fila, t) ==
    IF \E i \in 1..Len(fila) : fila[i] = t
    THEN RemoveAt(fila, CHOOSE i \in 1..Len(fila) : fila[i] = t)
    ELSE fila

\* Faulty variant: the queues are never reversed.
FundoNuncaPrimeiro == FALSE

\* Has background waited through enough foreground grants to go first?
FundoPrimeiro == sequencia >= Limite /\ fundo # <<>>

\* release(): hand the slot to the first live waiter, or put it back. f is
\* futuro without the future of the task that calls, if that one is over.
ConcederFrente(f) ==
    /\ FundoPrimeiro => Vivos(fundo) = {}
    /\ \E i \in 1..Len(frente) :
         /\ PrimeiroVivo(frente, i)
         /\ futuro' = [f EXCEPT ![frente[i]] = "concedido"]
         /\ frente' = Depois(frente, i)
    /\ fundo' = IF FundoPrimeiro THEN <<>> ELSE fundo
    /\ sequencia' = IF sequencia < Limite THEN sequencia + 1 ELSE Limite
    /\ preteridas' = IF Vivos(fundo) # {} THEN preteridas + 1 ELSE 0
    /\ UNCHANGED valor

ConcederFundo(f) ==
    /\ ~FundoPrimeiro => Vivos(frente) = {}
    /\ \E i \in 1..Len(fundo) :
         /\ PrimeiroVivo(fundo, i)
         /\ futuro' = [f EXCEPT ![fundo[i]] = "concedido"]
         /\ fundo' = Depois(fundo, i)
    /\ frente' = IF FundoPrimeiro THEN frente ELSE <<>>
    /\ sequencia' = 0
    /\ preteridas' = 0
    /\ UNCHANGED valor

Devolver(f) ==
    /\ Vivos(frente) = {} /\ Vivos(fundo) = {}
    /\ futuro' = f
    /\ frente' = <<>>
    /\ fundo' = <<>>
    /\ valor' = valor + 1
    /\ preteridas' = 0
    /\ UNCHANGED sequencia

Release(f) == ConcederFrente(f) \/ ConcederFundo(f) \/ Devolver(f)

-----------------------------------------------------------------------------
\* Faulty variant: acquire() always queues, even with a slot free.
AcquireEsperaComVaga(t, naFrente) ==
    /\ pc[t] = "fora"
    /\ frente' = IF naFrente THEN Append(frente, t) ELSE frente
    /\ fundo' = IF naFrente THEN fundo ELSE Append(fundo, t)
    /\ futuro' = [futuro EXCEPT ![t] = "pendente"]
    /\ emFrente' = [emFrente EXCEPT ![t] = naFrente]
    /\ pc' = [pc EXCEPT ![t] = "espera"]
    /\ UNCHANGED <<valor, sequencia, cancelar, preteridas>>

\* acquire() with a slot free and nobody queued.
AcquireImediato(t) ==
    /\ pc[t] = "fora"
    /\ valor > 0 /\ frente = <<>> /\ fundo = <<>>
    /\ valor' = valor - 1
    /\ pc' = [pc EXCEPT ![t] = "dentro"]
    /\ UNCHANGED <<sequencia, frente, fundo, futuro, emFrente, cancelar,
                   preteridas>>

\* acquire() otherwise: a new future at the end of its queue.
AcquireEspera(t, naFrente) ==
    /\ pc[t] = "fora"
    /\ ~(valor > 0 /\ frente = <<>> /\ fundo = <<>>)
    /\ frente' = IF naFrente THEN Append(frente, t) ELSE frente
    /\ fundo' = IF naFrente THEN fundo ELSE Append(fundo, t)
    /\ futuro' = [futuro EXCEPT ![t] = "pendente"]
    /\ emFrente' = [emFrente EXCEPT ![t] = naFrente]
    /\ pc' = [pc EXCEPT ![t] = "espera"]
    /\ UNCHANGED <<valor, sequencia, cancelar, preteridas>>

\* promote(): a queued prefetch became the current speech.
Promote(t) ==
    /\ pc[t] = "espera" /\ ~emFrente[t] /\ futuro[t] = "pendente"
    /\ fundo' = Remover(fundo, t)
    /\ frente' = Append(frente, t)
    /\ emFrente' = [emFrente EXCEPT ![t] = TRUE]
    /\ UNCHANGED <<valor, sequencia, futuro, cancelar, pc, preteridas>>

\* task.cancel(): asyncio cancels the future the task waits on, or, when it is
\* already resolved, throws into the task at its next turn.
Cancelar(t) ==
    /\ pc[t] = "espera"
    /\ \/ /\ futuro[t] = "pendente"
          /\ futuro' = [futuro EXCEPT ![t] = "cancelado"]
          /\ UNCHANGED cancelar
       \/ /\ futuro[t] = "concedido" /\ ~cancelar[t]
          /\ cancelar' = [cancelar EXCEPT ![t] = TRUE]
          /\ UNCHANGED futuro
    /\ UNCHANGED <<valor, sequencia, frente, fundo, emFrente, pc, preteridas>>

\* The task's turn: acquire() returns True.
Entrar(t) ==
    /\ pc[t] = "espera" /\ futuro[t] = "concedido" /\ ~cancelar[t]
    /\ futuro' = [futuro EXCEPT ![t] = "nenhum"]
    /\ pc' = [pc EXCEPT ![t] = "dentro"]
    /\ UNCHANGED <<valor, sequencia, frente, fundo, emFrente, cancelar,
                   preteridas>>

\* The task's turn: its future was cancelled while it was queued.
SairDaFila(t) ==
    /\ pc[t] = "espera" /\ futuro[t] = "cancelado"
    /\ frente' = Remover(frente, t)
    /\ fundo' = Remover(fundo, t)
    /\ futuro' = [futuro EXCEPT ![t] = "nenhum"]
    /\ pc' = [pc EXCEPT ![t] = "fora"]
    /\ UNCHANGED <<valor, sequencia, emFrente, cancelar, preteridas>>

\* Faulty variant: the slot handed over just before the cancellation is lost.
RepassarPerdendo(t) ==
    /\ pc[t] = "espera" /\ futuro[t] = "concedido" /\ cancelar[t]
    /\ futuro' = [futuro EXCEPT ![t] = "nenhum"]
    /\ cancelar' = [cancelar EXCEPT ![t] = FALSE]
    /\ pc' = [pc EXCEPT ![t] = "fora"]
    /\ UNCHANGED <<valor, sequencia, frente, fundo, emFrente, preteridas>>

\* The task's turn: cancelled after release() had handed it a slot, which it
\* passes on. Its own future is done, so release() never picks it again.
Repassar(t) ==
    /\ pc[t] = "espera" /\ futuro[t] = "concedido" /\ cancelar[t]
    /\ Release([futuro EXCEPT ![t] = "nenhum"])
    /\ cancelar' = [cancelar EXCEPT ![t] = FALSE]
    /\ pc' = [pc EXCEPT ![t] = "fora"]
    /\ UNCHANGED emFrente

\* Faulty variant: a holder that releases more than once.
LiberarRepetido(t) ==
    /\ pc[t] = "dentro"
    /\ Release(futuro)
    /\ UNCHANGED <<emFrente, cancelar, pc>>

\* A holder releases its slot.
Liberar(t) ==
    /\ pc[t] = "dentro"
    /\ Release(futuro)
    /\ pc' = [pc EXCEPT ![t] = "fora"]
    /\ UNCHANGED <<emFrente, cancelar>>

Next ==
    \E t \in Tarefas :
        \/ AcquireImediato(t)
        \/ \E naFrente \in BOOLEAN : AcquireEspera(t, naFrente)
        \/ Promote(t) \/ Cancelar(t)
        \/ Entrar(t) \/ SairDaFila(t) \/ Repassar(t) \/ Liberar(t)

Spec == Init /\ [][Next]_vars

\* Ready tasks get their turn and a holder's work comes to an end.
Justica ==
    \A t \in Tarefas :
        /\ WF_vars(Entrar(t) \/ SairDaFila(t) \/ Repassar(t))
        /\ WF_vars(Liberar(t))

FairSpec == Spec /\ Justica

-----------------------------------------------------------------------------
\* Properties.

TypeOK ==
    /\ valor \in 0..Vagas
    /\ sequencia \in 0..Limite
    /\ frente \in Seq(Tarefas)
    /\ fundo \in Seq(Tarefas)
    /\ futuro \in [Tarefas -> {"nenhum", "pendente", "concedido", "cancelado"}]
    /\ emFrente \in [Tarefas -> BOOLEAN]
    /\ cancelar \in [Tarefas -> BOOLEAN]
    /\ pc \in [Tarefas -> {"fora", "espera", "dentro"}]
    /\ preteridas \in Nat

\* The tasks a slot is spent on: holders, and those it was just handed to.
Ocupantes == {t \in Tarefas : pc[t] = "dentro" \/ futuro[t] = "concedido"}

\* No slot is lost or invented, whatever is cancelled between the moment a
\* slot is handed over and the moment the task runs.
VagasConservadas == valor + Cardinality(Ocupantes) = Vagas

\* Where a task is and what became of its future agree.
FuturosCoerentes ==
    \A t \in Tarefas :
        /\ pc[t] # "espera" => futuro[t] = "nenhum"
        /\ pc[t] = "espera" => futuro[t] # "nenhum"
        /\ cancelar[t] => futuro[t] = "concedido"

\* A live waiter is in the queue its record names.
Na(fila, t) == \E i \in 1..Len(fila) : fila[i] = t

EsperandoNaFila ==
    \A t \in Tarefas : futuro[t] = "pendente" =>
        IF emFrente[t] THEN Na(frente, t) ELSE Na(fundo, t)

\* A free slot and a queue never coexist, so that nobody waits for nothing.
SemVagaOciosa == valor > 0 => frente = <<>> /\ fundo = <<>>

\* The inductive invariant of the proofs (module PrioritySemaphoreProofs).
IInv == /\ TypeOK /\ FuturosCoerentes /\ EsperandoNaFila
        /\ VagasConservadas /\ SemVagaOciosa

\* Prefetch is overtaken by at most four foreground grants in a row.
FundoNaoPreterido == preteridas <= Limite

\* Every queued task leaves the queue: it gets a slot or is cancelled. The
\* stream of foreground speech cannot starve a prefetch.
EsperaTermina == \A t \in Tarefas : (pc[t] = "espera") ~> (pc[t] # "espera")

=============================================================================
