----------------------------- MODULE EdgeSources -----------------------------
(* The local egress addresses of the Edge engine (src/cogs/tts/               *)
(* edge_sources.py and edge_rate_limit.py) and the life of the lease a        *)
(* synthesis takes on one of them (audio.py, streaming.py). A source that     *)
(* answered 429 cools down and comes back through one probe; one that fails   *)
(* too often in a row is skipped for a while. The clock is a flag per delay.  *)
EXTENDS Naturals

CONSTANTS
    Fontes,          \* the source addresses
    Tentativas,      \* syntheses under way at once, each with one lease
    Ninguem,         \* no source, no lease
    CircuitFailures, \* circuit_failures
    Niveis           \* the number of delays of a policy

ASSUME FontesAssumption ==
    /\ Ninguem \notin Fontes /\ Ninguem \notin Tentativas
    /\ CircuitFailures \in Nat \ {0} /\ Niveis \in Nat \ {0}

VARIABLES
    policy,  \* of each source: level, espera (now < retry_at) and probing
    estado,  \* of each source: active_probe and the circuit's two conditions
    lease    \* of each synthesis: its lease and where it is

vars == <<policy, estado, lease>>

\* velha: a failure of the source was recorded since this request started,
\* that is, state.failures # lease.started_failure_count.
Livre == [fase |-> "livre", fonte |-> Ninguem, probe |-> FALSE, velha |-> FALSE]

\* The answer is known, but an await lies between it and its recording.
Respostas == {"ok", "429", "erro"}

Init ==
    /\ policy = [s \in Fontes |->
                    [level |-> 0, espera |-> FALSE, probing |-> FALSE]]
    /\ estado = [s \in Fontes |-> [active_probe |-> Ninguem,
                    consecutive_failures |-> 0, recente |-> FALSE]]
    /\ lease = [t \in Tentativas |-> Livre]

CircuitOpen(s) ==
    estado[s].consecutive_failures >= CircuitFailures /\ estado[s].recente

EmEspera(s) == policy[s].level > 0 /\ policy[s].espera

available(s) == ~CircuitOpen(s) /\ ~policy[s].probing /\ ~EmEspera(s)

\* The probe of the source, still the one its policy waits for.
SondaPropria(t) ==
    LET s == lease[t].fonte
    IN  lease[t].probe /\ estado[s].active_probe = t /\ policy[s].probing

\* state.active_probe, once lease t is finished.
SemSonda(s, t) == IF estado[s].active_probe = t THEN Ninguem
                                               ELSE estado[s].active_probe

\* release: a lease that ends with no result unlocks the policy it was probing.
Liberar(t) ==
    LET s == lease[t].fonte
    IN  /\ policy' = [policy EXCEPT ![s].probing =
                                        @ /\ estado[s].active_probe # t]
        /\ estado' = [estado EXCEPT ![s].active_probe = SemSonda(s, t)]
        /\ lease' = [lease EXCEPT ![t] = Livre]

-----------------------------------------------------------------------------
\* A synthesis.

\* Faulty variant: availability was looked at before, by the caller.
ReservarSemOlhar(t, s) ==
    /\ lease[t].fase = "livre" /\ ~CircuitOpen(s) /\ ~EmEspera(s)
    /\ lease' = [lease EXCEPT ![t] = [fase |-> "vaga", fonte |-> s,
                       probe |-> policy[s].level > 0, velha |-> FALSE]]
    /\ policy' = [policy EXCEPT ![s].probing = policy[s].level > 0]
    /\ estado' = [estado EXCEPT ![s].active_probe =
                                    IF policy[s].level > 0 THEN t ELSE @]

\* reserve: the first request after the cooldown becomes the probe. A stream
\* hands its lease to the producer it creates; a file waits for a slot itself.
Reservar(t, s) ==
    /\ lease[t].fase = "livre" /\ available(s)
    /\ \E fase \in {"criada", "vaga"} :
          lease' = [lease EXCEPT ![t] = [fase |-> fase, fonte |-> s,
                       probe |-> policy[s].level > 0, velha |-> FALSE]]
    /\ policy' = [policy EXCEPT ![s].probing = policy[s].level > 0]
    /\ estado' = [estado EXCEPT ![s].active_probe =
                                    IF policy[s].level > 0 THEN t ELSE @]

\* The producer task runs for the first time and queues for its slot.
PrimeiroPasso(t) ==
    /\ lease[t].fase = "criada"
    /\ lease' = [lease EXCEPT ![t].fase = "vaga"]
    /\ UNCHANGED <<policy, estado>>

\* Faulty variant: what was available at the reservation is taken for granted.
IniciarSemOlhar(t) ==
    /\ lease[t].fase = "vaga"
    /\ lease' = [lease EXCEPT ![t].fase = "rede", ![t].velha = FALSE]
    /\ UNCHANGED <<policy, estado>>

\* start, when the slot is obtained: the source may have cooled down meanwhile.
Iniciar(t) ==
    /\ lease[t].fase = "vaga"
    /\ \/ /\ SondaPropria(t) \/ available(lease[t].fonte)
          /\ lease' = [lease EXCEPT ![t].fase = "rede", ![t].velha = FALSE]
          /\ UNCHANGED <<policy, estado>>
       \/ /\ ~SondaPropria(t) /\ ~available(lease[t].fonte)
          /\ Liberar(t)

\* The service answers, refuses, or fails otherwise.
Responder(t) ==
    /\ lease[t].fase = "rede"
    /\ \E r \in Respostas : lease' = [lease EXCEPT ![t].fase = r]
    /\ UNCHANGED <<policy, estado>>

\* The task is cancelled where it waits, an unrecorded answer included.
Cancelar(t) ==
    /\ lease[t].fase \in {"vaga", "rede"} \cup Respostas
    /\ lease' = [lease EXCEPT ![t].fase = "cancelada"]
    /\ UNCHANGED <<policy, estado>>

\* Faulty variant: no done callback, and the finally of a task that never ran
\* does not run either.
CancelarCriadaSemCallback(t) ==
    /\ lease[t].fase = "criada"
    /\ lease' = [lease EXCEPT ![t] = Livre]
    /\ UNCHANGED <<policy, estado>>

\* The producer is cancelled before its first step.
CancelarCriada(t) ==
    /\ lease[t].fase = "criada"
    /\ lease' = [lease EXCEPT ![t].fase = "cancelada"]
    /\ UNCHANGED <<policy, estado>>

\* The release of a cancelled synthesis: an except, a finally or the callback.
RegistrarCancelada(t) == lease[t].fase = "cancelada" /\ Liberar(t)

\* Faulty variant: every success counts as current.
SempreAtual(t) == TRUE

\* No failure of the source was recorded since the request started.
Atual(t) == ~lease[t].velha

\* policy.success, which only a probe's result reaches.
Recuperar(p) == IF p.level > 0 /\ p.probing
                THEN [level |-> 0, espera |-> FALSE, probing |-> FALSE] ELSE p

\* success: an old success neither closes the circuit nor ends the escalation.
RegistrarSucesso(t) ==
    LET s == lease[t].fonte
    IN  /\ lease[t].fase = "ok"
        /\ policy' = [policy EXCEPT ![s] =
              IF estado[s].active_probe # t THEN @
              ELSE IF Atual(t) THEN Recuperar(@) ELSE [@ EXCEPT !.probing = FALSE]]
        /\ estado' = [estado EXCEPT
              ![s].active_probe = SemSonda(s, t),
              ![s].consecutive_failures = IF Atual(t) THEN 0 ELSE @]
        /\ lease' = [lease EXCEPT ![t] = Livre]

\* failed_429: during the cooldown, and with no probe out, it changes nothing.
Falhou429(p) ==
    IF p.level > 0 /\ p.espera /\ ~p.probing THEN p
    ELSE [level |-> IF p.level < Niveis THEN p.level + 1 ELSE p.level,
          espera |-> TRUE, probing |-> FALSE]

\* failure: whatever else is in flight at the source is an old request now.
RegistrarFalha(t) ==
    LET s == lease[t].fonte
    IN  /\ lease[t].fase \in {"429", "erro"}
        /\ policy' = [policy EXCEPT ![s] =
              IF lease[t].fase = "429" THEN Falhou429(@)
              ELSE [policy[s] EXCEPT !.probing = @ /\ estado[s].active_probe # t]]
        /\ estado' = [estado EXCEPT ![s] =
              [active_probe |-> SemSonda(s, t),
               consecutive_failures |->
                  IF @.consecutive_failures < CircuitFailures
                  THEN @.consecutive_failures + 1 ELSE @.consecutive_failures,
               recente |-> TRUE]]
        /\ lease' = [u \in Tentativas |->
              IF u = t THEN Livre
              ELSE [lease[u] EXCEPT !.velha = @ \/ lease[u].fonte = s]]

-----------------------------------------------------------------------------
\* Time.

\* retry_at is reached.
EsperaAcaba(s) ==
    /\ EmEspera(s)
    /\ policy' = [policy EXCEPT ![s].espera = FALSE]
    /\ UNCHANGED <<estado, lease>>

\* circuit_cooldown passes since failed_at.
CircuitoEsfria(s) ==
    /\ estado[s].recente
    /\ estado' = [estado EXCEPT ![s].recente = FALSE]
    /\ UNCHANGED <<policy, lease>>

Passo(t) ==
    \/ PrimeiroPasso(t) \/ Iniciar(t) \/ Responder(t)
    \/ RegistrarSucesso(t) \/ RegistrarFalha(t) \/ RegistrarCancelada(t)

Tempo(s) == EsperaAcaba(s) \/ CircuitoEsfria(s)

Next ==
    \/ \E t \in Tentativas : Passo(t) \/ Cancelar(t) \/ CancelarCriada(t)
    \/ \E t \in Tentativas, s \in Fontes : Reservar(t, s)
    \/ \E s \in Fontes : Tempo(s)

Spec == Init /\ [][Next]_vars

\* Slots are granted, requests have timeouts, clocks advance; nobody has to
\* speak and nobody has to cancel.
Justica ==
    /\ \A t \in Tentativas : WF_vars(Passo(t))
    /\ \A s \in Fontes : WF_vars(EsperaAcaba(s)) /\ WF_vars(CircuitoEsfria(s))

FairSpec == Spec /\ Justica

-----------------------------------------------------------------------------
Fases == {"livre", "criada", "vaga", "rede", "cancelada"} \cup Respostas

\* The variables keep their types; a lease has a source while it is held.
TypeOK ==
    /\ policy \in [Fontes ->
          [level : 0..Niveis, espera : BOOLEAN, probing : BOOLEAN]]
    /\ estado \in [Fontes -> [active_probe : Tentativas \cup {Ninguem},
          consecutive_failures : 0..CircuitFailures, recente : BOOLEAN]]
    /\ lease \in [Tentativas -> [fase : Fases, fonte : Fontes \cup {Ninguem},
                                 probe : BOOLEAN, velha : BOOLEAN]]
    /\ \A t \in Tentativas : lease[t].fase = "livre" <=> lease[t].fonte = Ninguem

\* A source closed for a probe has one: the lease in active_probe was reserved
\* as a probe there and has not ended, whichever late answers, refusals and
\* cancellations of other requests came in between.
SondaComDono ==
    /\ TypeOK
    /\ \A s \in Fontes :
       /\ policy[s].probing => estado[s].active_probe # Ninguem
       /\ estado[s].active_probe # Ninguem =>
             /\ lease[estado[s].active_probe].probe
             /\ lease[estado[s].active_probe].fonte = s

\* A probe is out only at a level whose wait is over.
SondaAposEspera ==
    \A s \in Fontes : policy[s].probing => policy[s].level > 0 /\ ~policy[s].espera

\* The inductive invariant of the proofs (module EdgeSourcesProofs).
IInv == SondaComDono /\ SondaAposEspera

\* No request starts at a source that is cooling down, not even one that
\* reserved it before the refusal and waited for its slot since, or a probe
\* that an older refusal deposed.
NadaNaEspera ==
    [][\A t \in Tentativas :
          lease[t].fase = "vaga" /\ lease'[t].fase = "rede"
             => ~EmEspera(lease[t].fonte)]_vars

\* A source is taken for recovered (the escalation ends, the failure count
\* restarts) by the result of a request that started after the last failure
\* recorded there, and the escalation ends by its probe only.
TardiaNaoFecha ==
    [][\A s \in Fontes :
          /\ policy'[s].level < policy[s].level =>
                \E t \in Tentativas : /\ estado[s].active_probe = t
                                      /\ lease[t].fase = "ok" /\ ~lease[t].velha
                                      /\ lease'[t].fase = "livre"
          /\ estado'[s].consecutive_failures < estado[s].consecutive_failures =>
                \E t \in Tentativas : /\ lease[t].fonte = s /\ lease[t].fase = "ok"
                                      /\ ~lease[t].velha
                                      /\ lease'[t].fase = "livre"]_vars

\* Whatever happens to its requests and to its probe, a source can be reserved
\* again: a refusal, an open circuit or a lost probe never closes it for good.
FonteVolta == \A s \in Fontes : []<>available(s)
=============================================================================
