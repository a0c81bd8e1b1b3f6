---------------------------- MODULE FluxoDeAudio ----------------------------
(* The bounded, blocking audio stream of src/src/fluxo.rs.                   *)
(*                                                                           *)
(* A call is a thread walking through pc: it takes the mutex and runs to the *)
(* next release of it in one step ("trava"), may sleep on a condition        *)
(* variable ("espera"), and signals the condition variables only after the   *)
(* mutex is dropped, so every signal is a step of its own ("avisar_...").    *)
(* The wait set of ha_dados is the readers asleep, that of ha_espaco the     *)
(* writers asleep. A block is a model value; only its length matters.        *)
EXTENDS Integers, Sequences, FiniteSets

CONSTANTS
    Escritores, Leitores, Controladores,  \* threads, by what they call
    Blocos, tamanho,                      \* blocks and their length in bytes
    capacidade_bytes, maximo_blocos,      \* ConfiguracaoDoFluxo
    LimiteU64,                            \* where the u64 counters saturate
    MaxChamadas                           \* bound: calls each thread makes

Threads == Escritores \cup Leitores \cup Controladores

ASSUME ThreadsDisjuntas ==
    /\ Escritores \cap Leitores = {}
    /\ Escritores \cap Controladores = {}
    /\ Leitores \cap Controladores = {}
ASSUME ThreadsFinitas == IsFiniteSet(Threads)
ASSUME TamanhoNat == tamanho \in [Blocos -> Nat]
ASSUME ConfiguracaoValida ==
    /\ capacidade_bytes \in Nat \ {0}
    /\ maximo_blocos \in Nat \ {0}
ASSUME LimitesNat == LimiteU64 \in Nat /\ MaxChamadas \in [Threads -> Nat]

VARIABLES
    estado, blocos, bytes_em_fila, maior_ocupacao_bytes,
    bytes_escritos, bytes_lidos, bytes_descartados,
    aguardaram,    \* escritas_que_aguardaram and leituras_que_aguardaram
    esgotados,     \* prazos_escrita_esgotados and prazos_leitura_esgotados
    pc,            \* where each thread is
    bloco,         \* the block of each writer's call
    prazo,         \* "corre" until tempo_maximo has elapsed, then "venceu"
    aguardou,      \* the local of escrever_bloco and ler_bloco
    chamadas,      \* calls made, for the bound
    aceitos, entregues, fim,  \* history: what the callers have been told
    ate            \* history: ate[i] = bytes accepted up to aceitos[i]

interior == <<estado, blocos, bytes_em_fila, maior_ocupacao_bytes,
              bytes_escritos, bytes_lidos, bytes_descartados>>
historia == <<aceitos, entregues, fim, ate>>
locais   == <<bloco, prazo, aguardou, chamadas>>
vars == <<interior, aguardaram, esgotados, pc, locais, historia>>

Operacoes == {"escrita", "leitura"}

\* Faulty variant: a plain addition.
SatSemLimite(n) == n

\* What u64::saturating_add keeps of a sum.
Sat(n) == IF n > LimiteU64 THEN LimiteU64 ELSE n

Maior(m, n) == IF m > n THEN m ELSE n
Total(a, k) == IF k = 0 THEN 0 ELSE a[k]

Init ==
    /\ estado = "Aberto"
    /\ blocos = <<>>
    /\ bytes_em_fila = 0
    /\ maior_ocupacao_bytes = 0
    /\ bytes_escritos = 0
    /\ bytes_lidos = 0
    /\ bytes_descartados = 0
    /\ aguardaram = [o \in Operacoes |-> 0]
    /\ esgotados = [o \in Operacoes |-> 0]
    /\ pc = [t \in Threads |-> "fora"]
    /\ bloco \in [Escritores -> Blocos]
    /\ prazo = [t \in Threads |-> "venceu"]
    /\ aguardou = [t \in Threads |-> FALSE]
    /\ chamadas = [t \in Threads |-> 0]
    /\ aceitos = <<>>
    /\ entregues = <<>>
    /\ fim = FALSE
    /\ ate = <<>>

-----------------------------------------------------------------------------
\* Steps shared by the calls.

Vai(t, lugar) == pc' = [pc EXCEPT ![t] = lugar]

\* A call begins.
Chamar(t, lugar) ==
    /\ pc[t] = "fora"
    /\ chamadas[t] < MaxChamadas[t]
    /\ chamadas' = [chamadas EXCEPT ![t] = @ + 1]
    /\ Vai(t, lugar)

\* Its tempo_maximo: a zero one has already elapsed.
ComPrazo(t) ==
    \E p \in {"corre", "venceu"} : prazo' = [prazo EXCEPT ![t] = p]

\* A call leaves its loop; its locals die with it.
Sair(t, lugar) ==
    /\ Vai(t, lugar)
    /\ prazo' = [prazo EXCEPT ![t] = "venceu"]
    /\ aguardou' = [aguardou EXCEPT ![t] = FALSE]

\* The deadline of a call in progress passes.
Vencer(t) ==
    /\ pc[t] \in {"trava", "espera"}
    /\ prazo[t] = "corre"
    /\ prazo' = [prazo EXCEPT ![t] = "venceu"]
    /\ UNCHANGED <<interior, aguardaram, esgotados, pc, bloco, aguardou,
                   chamadas, historia>>

\* The first pass that finds nothing to do counts the call as having waited;
\* a call whose time is over is counted and returns, another one sleeps.
EsperarOuDesistir(t, o) ==
    /\ aguardaram' = IF aguardou[t] THEN aguardaram
                     ELSE [aguardaram EXCEPT ![o] = Sat(@ + 1)]
    /\ \/ /\ prazo[t] = "venceu"
          /\ esgotados' = [esgotados EXCEPT ![o] = Sat(@ + 1)]
          /\ Sair(t, "fora")
       \/ /\ prazo[t] = "corre"
          /\ aguardou' = [aguardou EXCEPT ![t] = TRUE]
          /\ Vai(t, "espera")
          /\ UNCHANGED <<prazo, esgotados>>
    /\ UNCHANGED <<interior, bloco, chamadas, historia>>

\* Faulty variant: a wait that ignores its timeout.
EsperaVencidaNunca(t) ==
    /\ pc[t] = "espera"
    /\ prazo[t] = "corre"
    /\ Vai(t, "trava")
    /\ UNCHANGED <<interior, aguardaram, esgotados, locais, historia>>

\* wait_timeout returns because its time is over.
EsperaVencida(t) ==
    /\ pc[t] = "espera"
    /\ prazo[t] = "venceu"
    /\ Vai(t, "trava")
    /\ UNCHANGED <<interior, aguardaram, esgotados, locais, historia>>

\* wait_timeout may also return for no reason.
DespertarEspurio(t) ==
    /\ pc[t] = "espera"
    /\ prazo[t] = "corre"
    /\ Vai(t, "trava")
    /\ UNCHANGED <<interior, aguardaram, esgotados, locais, historia>>

\* Condvar::notify_one and notify_all, by thread t, which then goes to lugar.
NotificarUm(t, grupo, lugar) ==
    \/ \E d \in grupo : /\ pc[d] = "espera"
                        /\ pc' = [pc EXCEPT ![d] = "trava", ![t] = lugar]
    \/ /\ \A d \in grupo : pc[d] # "espera"
       /\ Vai(t, lugar)

NotificarTodos(t, grupo, lugar) ==
    pc' = [d \in Threads |->
             IF d = t THEN lugar
             ELSE IF d \in grupo /\ pc[d] = "espera" THEN "trava" ELSE pc[d]]

-----------------------------------------------------------------------------
\* escrever_bloco

\* A block larger than the whole buffer is refused before the mutex is taken.
EscreverGrandeDemais(t) ==
    /\ \E b \in Blocos : tamanho[b] > capacidade_bytes
    /\ Chamar(t, "fora")
    /\ UNCHANGED <<interior, aguardaram, esgotados, aguardou, bloco, prazo, historia>>

EscreverBloco(t) ==
    /\ \E b \in Blocos : /\ tamanho[b] <= capacidade_bytes
                         /\ bloco' = [bloco EXCEPT ![t] = b]
    /\ Chamar(t, "trava")
    /\ ComPrazo(t)
    /\ UNCHANGED <<interior, aguardaram, esgotados, aguardou, historia>>

\* Err(Cancelado), Err(Finalizado), or Ok(()) for an empty block.
EscritaSemEfeito(t) ==
    /\ pc[t] = "trava"
    /\ estado # "Aberto" \/ tamanho[bloco[t]] = 0
    /\ Sair(t, "fora")
    /\ UNCHANGED <<interior, aguardaram, esgotados, bloco, chamadas, historia>>

\* Faulty variant: the block is compared with the whole buffer.
CabeSemOcupacao(b) ==
    /\ tamanho[b] <= capacidade_bytes
    /\ Len(blocos) < maximo_blocos

Cabe(b) ==
    /\ tamanho[b] <= capacidade_bytes - bytes_em_fila
    /\ Len(blocos) < maximo_blocos

Inserir(t) ==
    LET b == bloco[t]
        ocupacao == bytes_em_fila + tamanho[b]
    IN /\ pc[t] = "trava"
       /\ estado = "Aberto"
       /\ tamanho[b] > 0
       /\ Cabe(b)
       /\ bytes_em_fila' = ocupacao
       /\ maior_ocupacao_bytes' = Maior(maior_ocupacao_bytes, ocupacao)
       /\ bytes_escritos' = Sat(bytes_escritos + tamanho[b])
       /\ blocos' = Append(blocos, b)
       /\ aceitos' = Append(aceitos, b)
       /\ ate' = Append(ate, Total(ate, Len(aceitos)) + tamanho[b])
       /\ Sair(t, "avisar_dados")
       /\ UNCHANGED <<estado, bytes_lidos, bytes_descartados, aguardaram,
                      esgotados, bloco, chamadas, entregues, fim>>

EscritaSemEspaco(t) ==
    /\ pc[t] = "trava"
    /\ estado = "Aberto"
    /\ tamanho[bloco[t]] > 0
    /\ ~Cabe(bloco[t])
    /\ EsperarOuDesistir(t, "escrita")

AvisarDados(t) ==
    /\ pc[t] = "avisar_dados"
    /\ NotificarUm(t, Leitores, "fora")
    /\ UNCHANGED <<interior, aguardaram, esgotados, locais, historia>>

-----------------------------------------------------------------------------
\* ler_bloco

LerBloco(t) ==
    /\ Chamar(t, "trava")
    /\ ComPrazo(t)
    /\ UNCHANGED <<interior, aguardaram, esgotados, aguardou, bloco, historia>>

LeituraCancelada(t) ==
    /\ pc[t] = "trava"
    /\ estado = "Cancelado"
    /\ Sair(t, "fora")
    /\ UNCHANGED <<interior, aguardaram, esgotados, bloco, chamadas, historia>>

\* Faulty variant: pop_back.
RetirarDoFim(t) ==
    LET b == blocos[Len(blocos)]
    IN /\ pc[t] = "trava"
       /\ estado # "Cancelado"
       /\ blocos # <<>>
       /\ bytes_em_fila' = bytes_em_fila - tamanho[b]
       /\ bytes_lidos' = Sat(bytes_lidos + tamanho[b])
       /\ blocos' = SubSeq(blocos, 1, Len(blocos) - 1)
       /\ entregues' = Append(entregues, b)
       /\ Sair(t, "avisar_espaco")
       /\ UNCHANGED <<estado, maior_ocupacao_bytes, bytes_escritos,
                      bytes_descartados, aguardaram, esgotados, bloco, chamadas,
                      aceitos, fim, ate>>

\* The subtraction of a usize: the proof shows that it never underflows.
Retirar(t) ==
    /\ pc[t] = "trava"
    /\ estado # "Cancelado"
    /\ blocos # <<>>
    /\ bytes_em_fila' = bytes_em_fila - tamanho[Head(blocos)]
    /\ bytes_lidos' = Sat(bytes_lidos + tamanho[Head(blocos)])
    /\ blocos' = Tail(blocos)
    /\ entregues' = Append(entregues, Head(blocos))
    /\ Sair(t, "avisar_espaco")
    /\ UNCHANGED <<estado, maior_ocupacao_bytes, bytes_escritos,
                   bytes_descartados, aguardaram, esgotados, bloco, chamadas,
                   aceitos, fim, ate>>

FimDoFluxo(t) ==
    /\ pc[t] = "trava"
    /\ estado = "Finalizado"
    /\ blocos = <<>>
    /\ fim' = TRUE
    /\ Sair(t, "fora")
    /\ UNCHANGED <<interior, aguardaram, esgotados, bloco, chamadas, aceitos,
                   entregues, ate>>

\* Faulty variant: the deadline is looked at before the queue.
LeituraPrazoPrimeiro(t) ==
    /\ pc[t] = "trava"
    /\ estado = "Aberto"
    /\ blocos = <<>> \/ prazo[t] = "venceu"
    /\ EsperarOuDesistir(t, "leitura")

LeituraSemDados(t) ==
    /\ pc[t] = "trava"
    /\ estado = "Aberto"
    /\ blocos = <<>>
    /\ EsperarOuDesistir(t, "leitura")

\* Faulty variant: notify_one where several writers may fit.
AvisarUmEspaco(t) ==
    /\ pc[t] = "avisar_espaco"
    /\ NotificarUm(t, Escritores, "fora")
    /\ UNCHANGED <<interior, aguardaram, esgotados, locais, historia>>

AvisarEspaco(t) ==
    /\ pc[t] = "avisar_espaco"
    /\ NotificarTodos(t, Escritores, "fora")
    /\ UNCHANGED <<interior, aguardaram, esgotados, locais, historia>>

-----------------------------------------------------------------------------
\* finalizar and cancelar; a repeated finalizar returns without a signal,
\* a repeated cancelar signals again.

Finalizar(t) ==
    /\ estado' = IF estado = "Aberto" THEN "Finalizado" ELSE estado
    /\ Chamar(t, IF estado = "Aberto" THEN "avisar_leitores" ELSE "fora")
    /\ UNCHANGED <<blocos, bytes_em_fila, maior_ocupacao_bytes,
                   bytes_escritos, bytes_lidos, bytes_descartados,
                   aguardaram, esgotados, aguardou, bloco, prazo, historia>>

\* Faulty variant: the discarded bytes are counted after the queue is emptied.
CancelarSemContar(t) ==
    /\ estado' = "Cancelado"
    /\ blocos' = <<>>
    /\ bytes_em_fila' = 0
    /\ Chamar(t, "avisar_leitores")
    /\ UNCHANGED <<maior_ocupacao_bytes, bytes_escritos, bytes_lidos,
                   bytes_descartados, aguardaram, esgotados, aguardou, bloco,
                   prazo, historia>>

Cancelar(t) ==
    /\ estado' = "Cancelado"
    /\ bytes_descartados' = Sat(bytes_descartados + bytes_em_fila)
    /\ blocos' = <<>>
    /\ bytes_em_fila' = 0
    /\ Chamar(t, "avisar_leitores")
    /\ UNCHANGED <<maior_ocupacao_bytes, bytes_escritos, bytes_lidos,
                   aguardaram, esgotados, aguardou, bloco, prazo, historia>>

\* Faulty variant: the closing thread wakes the readers only.
AvisarSoLeitores(t) ==
    /\ pc[t] = "avisar_leitores"
    /\ NotificarTodos(t, Leitores, "fora")
    /\ UNCHANGED <<interior, aguardaram, esgotados, locais, historia>>

AvisarLeitores(t) ==
    /\ pc[t] = "avisar_leitores"
    /\ NotificarTodos(t, Leitores, "avisar_escritores")
    /\ UNCHANGED <<interior, aguardaram, esgotados, locais, historia>>

AvisarEscritores(t) ==
    /\ pc[t] = "avisar_escritores"
    /\ NotificarTodos(t, Escritores, "fora")
    /\ UNCHANGED <<interior, aguardaram, esgotados, locais, historia>>

-----------------------------------------------------------------------------
Escrita(t) ==
    \/ EscreverGrandeDemais(t) \/ EscreverBloco(t) \/ EscritaSemEfeito(t)
    \/ Inserir(t) \/ EscritaSemEspaco(t) \/ AvisarDados(t)

Leitura(t) ==
    \/ LerBloco(t) \/ LeituraCancelada(t) \/ Retirar(t) \/ FimDoFluxo(t)
    \/ LeituraSemDados(t) \/ AvisarEspaco(t)

Controle(t) ==
    \/ Finalizar(t) \/ Cancelar(t) \/ AvisarLeitores(t) \/ AvisarEscritores(t)

Espera(t) == Vencer(t) \/ EsperaVencida(t) \/ DespertarEspurio(t)

Next ==
    \/ \E t \in Escritores : Escrita(t)
    \/ \E t \in Leitores : Leitura(t)
    \/ \E t \in Controladores : Controle(t)
    \/ \E t \in Escritores \cup Leitores : Espera(t)

Spec == Init /\ [][Next]_vars
\* A thread inside a call keeps going whenever it can take the mutex, and a
\* wait whose time is over returns. Nothing makes a deadline pass or a call
\* begin, and a condition variable owes nobody a spurious wake-up.
EmCurso(t) ==
    \/ EscritaSemEfeito(t) \/ Inserir(t) \/ EscritaSemEspaco(t)
    \/ AvisarDados(t)

EmCursoLeitura(t) ==
    \/ LeituraCancelada(t) \/ Retirar(t) \/ FimDoFluxo(t)
    \/ LeituraSemDados(t) \/ AvisarEspaco(t)

Justica ==
    /\ \A t \in Escritores : WF_vars(EmCurso(t) \/ EsperaVencida(t))
    /\ \A t \in Leitores : WF_vars(EmCursoLeitura(t) \/ EsperaVencida(t))
    /\ \A t \in Controladores : WF_vars(AvisarLeitores(t) \/ AvisarEscritores(t))

FairSpec == Spec /\ Justica

-----------------------------------------------------------------------------
\* Properties.

Lugares == {"fora", "trava", "espera", "avisar_dados", "avisar_espaco",
            "avisar_leitores", "avisar_escritores"}

\* Every variable keeps its type; a usize is never negative.
TypeOK ==
    /\ estado \in {"Aberto", "Finalizado", "Cancelado"}
    /\ blocos \in Seq(Blocos)
    /\ bytes_em_fila \in Nat /\ maior_ocupacao_bytes \in Nat
    /\ bytes_escritos \in 0..LimiteU64
    /\ bytes_lidos \in 0..LimiteU64
    /\ bytes_descartados \in 0..LimiteU64
    /\ aguardaram \in [Operacoes -> 0..LimiteU64]
    /\ esgotados \in [Operacoes -> 0..LimiteU64]
    /\ pc \in [Threads -> Lugares]
    /\ bloco \in [Escritores -> Blocos]
    /\ prazo \in [Threads -> {"corre", "venceu"}]
    /\ aguardou \in [Threads -> BOOLEAN]
    /\ chamadas \in [Threads -> Nat]
    /\ aceitos \in Seq(Blocos) /\ entregues \in Seq(Blocos)
    /\ fim \in BOOLEAN
    /\ ate \in Seq(Nat)

\* The history is coherent: ate[i] is the end of block i in the byte stream, and
\* what was handed out is a prefix of what was accepted.
Historia ==
    /\ Len(ate) = Len(aceitos)
    /\ \A i \in 1..Len(ate) : ate[i] = Total(ate, i - 1) + tamanho[aceitos[i]]
    /\ \A i, j \in 0..Len(ate) : i <= j => Total(ate, i) <= Total(ate, j)
    /\ Len(entregues) <= Len(aceitos)
    /\ \A i \in 1..Len(entregues) : entregues[i] = aceitos[i]

\* While the stream is not cancelled its queue is exactly what was accepted and
\* not yet handed out; an announced end means there is nothing left to hand out.
FilaExata ==
    /\ estado = "Cancelado" => blocos = <<>>
    /\ estado # "Cancelado" =>
         /\ Len(blocos) = Len(aceitos) - Len(entregues)
         /\ \A i \in 1..Len(blocos) : blocos[i] = aceitos[Len(entregues) + i]
    /\ fim /\ estado # "Cancelado" => estado = "Finalizado" /\ blocos = <<>>

\* The occupancy the limits are compared with is the number of bytes accepted
\* and not yet removed, in every interleaving, and neither it nor its recorded
\* high-water mark nor the number of blocks exceeds the configuration.
OcupacaoExata ==
    /\ bytes_em_fila = IF estado = "Cancelado" THEN 0
                       ELSE Total(ate, Len(aceitos)) - Total(ate, Len(entregues))
    /\ bytes_em_fila <= maior_ocupacao_bytes
    /\ maior_ocupacao_bytes <= capacidade_bytes
    /\ Len(blocos) <= maximo_blocos

\* Each counter of estatisticas() is the saturated true total: no byte is
\* counted twice or lost between written, read and discarded.
ContadoresExatos ==
    /\ bytes_escritos = Sat(Total(ate, Len(aceitos)))
    /\ bytes_lidos = Sat(Total(ate, Len(entregues)))
    /\ bytes_descartados =
         Sat(IF estado = "Cancelado"
             THEN Total(ate, Len(aceitos)) - Total(ate, Len(entregues)) ELSE 0)

\* The inductive invariant of the safety proofs (module FluxoDeAudioProvas).
IInv == TypeOK /\ Historia /\ FilaExata /\ OcupacaoExata /\ ContadoresExatos

Em(grupo, lugar) == {t \in grupo : pc[t] = lugar}

\* notify_one loses no wake-up: while a reader sleeps, each block in the queue
\* has a signal still to be sent or a reader on its way to the mutex (it needs
\* ler_bloco to look for a block before its deadline); and a writer asleep whose
\* block would fit now has a signal still to come.
NinguemEsquecido ==
    /\ Em(Leitores, "espera") # {} =>
          Len(blocos) <= Cardinality(Em(Escritores, "avisar_dados"))
                           + Cardinality(Em(Leitores, "trava"))
    /\ \A w \in Em(Escritores, "espera") :
          estado = "Aberto" /\ Cabe(bloco[w]) => Em(Leitores, "avisar_espaco") # {}

\* The stream is a FIFO: what readers got is what writers put, in order and
\* once, and the end is announced only after all of it (module FilaDeBlocos).
Fila == INSTANCE FilaDeBlocos
EFila == Fila!Spec

\* finalizar and cancelar free everyone, and a deadline that has passed ends its
\* call whatever the others do: calls are finite in number, so there is always a
\* time when none is left inside that was closed upon or has run out of time.
ChamadasVoltam ==
    []<>(\A t \in Escritores \cup Leitores :
             estado # "Aberto" \/ prazo[t] = "venceu" => pc[t] = "fora")

=============================================================================
