------------------------- MODULE EdgeSourcesProofs -------------------------
(* A source of the Edge engine and its probe, for any number of sources and   *)
(* of syntheses: every step keeps the account of who probes what.             *)
EXTENDS EdgeSources, TLAPS

FontesTipo == [level : 0..Niveis, espera : BOOLEAN, probing : BOOLEAN]
EstadosTipo == [active_probe : Tentativas \cup {Ninguem},
                consecutive_failures : 0..CircuitFailures, recente : BOOLEAN]
LeasesTipo == [fase : Fases, fonte : Fontes \cup {Ninguem},
               probe : BOOLEAN, velha : BOOLEAN]

\* The parts of TypeOK, named.
Tipos == /\ policy \in [Fontes -> FontesTipo]
         /\ estado \in [Fontes -> EstadosTipo]
         /\ lease \in [Tentativas -> LeasesTipo]
Coerente == \A t \in Tentativas : lease[t].fase = "livre" <=> lease[t].fonte = Ninguem

LEMMA TipoPorPartes == TypeOK <=> Tipos /\ Coerente
  BY DEF TypeOK, Tipos, Coerente, FontesTipo, EstadosTipo, LeasesTipo

\* What SondaComDono says of source s, with its probing p, its active_probe a and
\* the leases l.
Sonda(p, a, l, s) == /\ p => a # Ninguem
                     /\ a # Ninguem => l[a].probe /\ l[a].fonte = s

LEMMA InvPorPartes ==
    IInv <=> /\ Tipos /\ Coerente
             /\ \A s \in Fontes : Sonda(policy[s].probing, estado[s].active_probe, lease, s)
             /\ SondaAposEspera
  BY TipoPorPartes DEF IInv, SondaComDono, Sonda

LEMMA InvPorPartesDepois ==
    ASSUME Tipos', Coerente', \A s \in Fontes : Sonda(policy'[s].probing, estado'[s].active_probe, lease', s), SondaAposEspera'
    PROVE  IInv'
  BY DEF IInv, SondaComDono, Sonda, TypeOK, Tipos, Coerente,
     FontesTipo, EstadosTipo, LeasesTipo

\* A lease in use has a source.
LEMMA TemFonte ==
    ASSUME IInv, NEW t \in Tentativas, lease[t].fase # "livre"
    PROVE  lease[t].fonte \in Fontes /\ t # Ninguem
  BY InvPorPartes, FontesAssumption DEF Tipos, Coerente, LeasesTipo

-----------------------------------------------------------------------------
LEMMA InitSeguro == Init => IInv
<1>1. SUFFICES ASSUME Init PROVE IInv
  OBVIOUS
<1>2. Tipos
  BY <1>1, FontesAssumption DEF Init, Tipos, FontesTipo, EstadosTipo, LeasesTipo,
     Livre, Fases, Respostas
<1>3. Coerente
  BY <1>1 DEF Init, Coerente, Livre
<1>4. \A s \in Fontes : Sonda(policy[s].probing, estado[s].active_probe, lease, s)
  BY <1>1 DEF Init, Sonda
<1>5. SondaAposEspera
  BY <1>1 DEF Init, SondaAposEspera
<1>6. QED
  BY <1>2, <1>3, <1>4, <1>5, InvPorPartes

\* A step that moves one lease to another phase of its life.
LEMMA MudarDeFase ==
    ASSUME IInv, NEW t \in Tentativas, lease[t].fase # "livre",
           NEW f \in Fases \ {"livre"}, NEW v \in BOOLEAN,
           lease' = [lease EXCEPT ![t].fase = f, ![t].velha = v],
           UNCHANGED <<policy, estado>>
    PROVE  IInv'
<1>1. Tipos'
  BY InvPorPartes DEF Tipos, LeasesTipo
<1>2. Coerente'
  BY InvPorPartes DEF Coerente, Tipos, LeasesTipo
<1>3. \A u \in Tentativas : lease'[u].probe = lease[u].probe
                            /\ lease'[u].fonte = lease[u].fonte
  BY InvPorPartes DEF Tipos, LeasesTipo
<1>4. \A s \in Fontes : Sonda(policy'[s].probing, estado'[s].active_probe, lease', s)
  BY <1>3, InvPorPartes DEF Sonda, Tipos, EstadosTipo
<1>5. SondaAposEspera'
  BY InvPorPartes DEF SondaAposEspera
<1>6. QED
  BY <1>1, <1>2, <1>4, <1>5, InvPorPartesDepois

\* Lease t ends; the others may only grow old.
OutraLivre(t) ==
    /\ lease' \in [Tentativas -> LeasesTipo]
    /\ lease'[t] = Livre
    /\ \A u \in Tentativas \ {t} : /\ lease'[u].fase = lease[u].fase
                                   /\ lease'[u].probe = lease[u].probe
                                   /\ lease'[u].fonte = lease[u].fonte

\* A step that ends lease t with policy p and estado e at its source, neither
\* of which keeps the source closed for a probe that ended.
LEMMA TerminarLease ==
    ASSUME IInv, NEW t \in Tentativas, lease[t].fase # "livre",
           NEW p \in FontesTipo, NEW e \in EstadosTipo,
           policy' = [policy EXCEPT ![lease[t].fonte] = p],
           estado' = [estado EXCEPT ![lease[t].fonte] = e],
           OutraLivre(t),
           e.active_probe = SemSonda(lease[t].fonte, t),
           p.probing => /\ policy[lease[t].fonte].probing
                        /\ estado[lease[t].fonte].active_probe # t
                        /\ p.level > 0 /\ ~p.espera
    PROVE  IInv'
<1> DEFINE f == lease[t].fonte
<1>1. f \in Fontes /\ t # Ninguem
  BY TemFonte
<1>2. Tipos'
  <2>1. policy' \in [Fontes -> FontesTipo] /\ estado' \in [Fontes -> EstadosTipo]
    BY InvPorPartes DEF Tipos
  <2>2. lease' \in [Tentativas -> LeasesTipo]
    BY DEF OutraLivre
  <2>3. QED
    BY <2>1, <2>2 DEF Tipos
<1>3. Coerente'
  BY InvPorPartes DEF Coerente, OutraLivre, Livre
<1>4. \A u \in Tentativas \ {t} : lease'[u].probe = lease[u].probe
                                  /\ lease'[u].fonte = lease[u].fonte
  BY DEF OutraLivre
<1>5. ASSUME NEW s \in Fontes, s # f
      PROVE  Sonda(policy'[s].probing, estado'[s].active_probe, lease', s) /\ estado[s].active_probe # t
  <2>1. estado'[s] = estado[s] /\ policy'[s] = policy[s]
    BY <1>5, InvPorPartes DEF Tipos
  <2>2. estado[s].active_probe \in Tentativas \cup {Ninguem}
    BY InvPorPartes DEF Tipos, EstadosTipo
  <2>3. estado[s].active_probe # t
    BY <1>1, <1>5, InvPorPartes DEF Sonda
  <2>4. QED
    BY <1>4, <2>1, <2>2, <2>3, InvPorPartes DEF Sonda
<1>6. Sonda(policy'[f].probing, estado'[f].active_probe, lease', f)
  <2>1. estado'[f] = e /\ policy'[f] = p
    BY <1>1, InvPorPartes DEF Tipos
  <2>2. estado[f].active_probe \in Tentativas \cup {Ninguem}
    BY <1>1, InvPorPartes DEF Tipos, EstadosTipo
  <2>3. CASE estado[f].active_probe = t
    <3>1. e.active_probe = Ninguem /\ ~p.probing
      BY <2>3 DEF SemSonda
    <3>2. QED
      BY <2>1, <3>1 DEF Sonda
  <2>4. CASE estado[f].active_probe # t
    <3>1. e.active_probe = estado[f].active_probe
      BY <2>4 DEF SemSonda
    <3>2. QED
      BY <1>1, <1>4, <2>1, <2>2, <2>4, <3>1, InvPorPartes DEF Sonda
  <2>5. QED
    BY <2>3, <2>4
<1>7. SondaAposEspera'
  BY <1>1, InvPorPartes DEF SondaAposEspera, Tipos
<1>8. QED
  BY <1>2, <1>3, <1>5, <1>6, <1>7, InvPorPartesDepois

LEMMA FaseSegura ==
    ASSUME IInv, NEW t \in Tentativas,
           PrimeiroPasso(t) \/ Responder(t) \/ Cancelar(t) \/ CancelarCriada(t)
    PROVE  IInv'
<1>1. PICK f \in Fases \ {"livre"} :
         lease' = [lease EXCEPT ![t].fase = f] /\ lease[t].fase # "livre"
  BY DEF PrimeiroPasso, Responder, Cancelar, CancelarCriada, Fases, Respostas
<1>2. lease[t].velha \in BOOLEAN
  BY InvPorPartes DEF Tipos, LeasesTipo
<1>3. lease' = [lease EXCEPT ![t].fase = f, ![t].velha = lease[t].velha]
  BY <1>1, InvPorPartes DEF Tipos, LeasesTipo
<1>4. UNCHANGED <<policy, estado>>
  BY DEF PrimeiroPasso, Responder, Cancelar, CancelarCriada
<1>5. QED
  BY <1>1, <1>2, <1>3, <1>4, MudarDeFase

LEMMA LiberarSegura ==
    ASSUME IInv, NEW t \in Tentativas, lease[t].fase # "livre", Liberar(t)
    PROVE  IInv'
<1> DEFINE f == lease[t].fonte
           p == [policy[f] EXCEPT !.probing = @ /\ estado[f].active_probe # t]
           e == [estado[f] EXCEPT !.active_probe = SemSonda(f, t)]
<1>1. f \in Fontes /\ policy[f] \in FontesTipo /\ estado[f] \in EstadosTipo
  BY TemFonte, InvPorPartes DEF Tipos
<1>2. p \in FontesTipo /\ e \in EstadosTipo
  BY <1>1 DEF FontesTipo, EstadosTipo, SemSonda
<1>3. /\ policy' = [policy EXCEPT ![f] = p]
      /\ estado' = [estado EXCEPT ![f] = e]
  BY <1>1, InvPorPartes DEF Liberar, Tipos
<1>4. OutraLivre(t)
  BY <1>1, InvPorPartes DEF Liberar, Tipos, LeasesTipo, Livre, OutraLivre, Fases
<1>5. e.active_probe = SemSonda(f, t)
  BY <1>1 DEF EstadosTipo
<1>6. p.probing => /\ policy[f].probing /\ estado[f].active_probe # t
                   /\ p.level > 0 /\ ~p.espera
  BY <1>1, InvPorPartes DEF FontesTipo, SondaAposEspera
<1>7. QED
  BY <1>2, <1>3, <1>4, <1>5, <1>6, TerminarLease

LEMMA ReservarSegura ==
    ASSUME IInv, NEW t \in Tentativas, NEW s \in Fontes, Reservar(t, s)
    PROVE  IInv'
<1>1. PICK fase \in {"criada", "vaga"} :
         lease' = [lease EXCEPT ![t] = [fase |-> fase, fonte |-> s,
                      probe |-> policy[s].level > 0, velha |-> FALSE]]
  BY DEF Reservar
<1>2. /\ policy' = [policy EXCEPT ![s].probing = policy[s].level > 0]
      /\ estado' = [estado EXCEPT ![s].active_probe =
                                    IF policy[s].level > 0 THEN t ELSE @]
      /\ lease[t].fase = "livre" /\ ~policy[s].probing
      /\ ~(policy[s].level > 0 /\ policy[s].espera)
  BY DEF Reservar, available, EmEspera
<1>3. Tipos'
  <2>1. policy' \in [Fontes -> FontesTipo]
    <3>1. \A b \in BOOLEAN : [policy[s] EXCEPT !.probing = b] \in FontesTipo
      BY InvPorPartes DEF Tipos, FontesTipo
    <3>2. CASE policy[s].level > 0
      <4>1. policy' = [policy EXCEPT ![s].probing = TRUE]
        BY <1>2, <3>2
      <4>2. QED
        BY <3>1, <4>1, InvPorPartes DEF Tipos
    <3>3. CASE ~(policy[s].level > 0)
      <4>1. (policy[s].level > 0) = FALSE
        BY <3>3
      <4>2. policy' = [policy EXCEPT ![s].probing = FALSE]
        BY <1>2, <4>1, Zenon
      <4>3. QED
        BY <3>1, <4>2, InvPorPartes DEF Tipos
    <3>4. QED
      BY <3>2, <3>3
  <2>2. estado' \in [Fontes -> EstadosTipo]
    BY <1>2, InvPorPartes DEF Tipos, EstadosTipo
  <2>3. lease' \in [Tentativas -> LeasesTipo]
    BY <1>1, InvPorPartes DEF Tipos, LeasesTipo, Fases
  <2>4. QED
    BY <2>1, <2>2, <2>3 DEF Tipos
<1>4. Coerente'
  BY <1>1, InvPorPartes, FontesAssumption DEF Coerente, Tipos, LeasesTipo
<1>5. \A r \in Fontes : estado[r].active_probe # t
  BY <1>2, InvPorPartes, FontesAssumption DEF Coerente, Sonda
<1>6. ASSUME NEW r \in Fontes PROVE Sonda(policy'[r].probing, estado'[r].active_probe, lease', r)
  <2>1. \A u \in Tentativas \ {t} : lease'[u] = lease[u]
    BY <1>1, InvPorPartes DEF Tipos
  <2>2. estado[r].active_probe \in Tentativas \cup {Ninguem}
    BY InvPorPartes DEF Tipos, EstadosTipo
  <2>3. CASE r = s /\ policy[s].level > 0
    <3>1. estado'[r].active_probe = t /\ lease'[t].probe /\ lease'[t].fonte = r
      BY <1>1, <1>2, <2>3, InvPorPartes DEF Tipos, EstadosTipo, LeasesTipo
    <3>2. QED
      BY <3>1, FontesAssumption DEF Sonda
  <2>4. CASE ~(r = s /\ policy[s].level > 0)
    <3>1. /\ estado'[r].active_probe = estado[r].active_probe
          /\ policy'[r].probing => policy[r].probing
      BY <1>2, <2>4, InvPorPartes DEF Tipos, EstadosTipo, FontesTipo
    <3>2. QED
      BY <1>5, <2>1, <2>2, <3>1, InvPorPartes DEF Sonda
  <2>5. QED
    BY <2>3, <2>4
<1>7. SondaAposEspera'
  BY <1>2, InvPorPartes DEF SondaAposEspera, Tipos, FontesTipo
<1>8. QED
  BY <1>3, <1>4, <1>6, <1>7, InvPorPartesDepois

LEMMA IniciarSegura ==
    ASSUME IInv, NEW t \in Tentativas, Iniciar(t)
    PROVE  IInv'
<1>1. lease[t].fase # "livre" /\ "rede" \in Fases \ {"livre"}
  BY DEF Iniciar, Fases
<1>2. CASE Liberar(t)
  BY <1>1, <1>2, LiberarSegura
<1>3. CASE ~Liberar(t)
  <2>1. /\ lease' = [lease EXCEPT ![t].fase = "rede", ![t].velha = FALSE]
        /\ UNCHANGED <<policy, estado>>
    BY <1>3 DEF Iniciar
  <2>2. QED
    BY <1>1, <2>1, MudarDeFase
<1>4. QED
  BY <1>2, <1>3

\* What a success and a failure do to the policy of the source.
LEMMA PoliticaDoResultado ==
    ASSUME NEW p \in FontesTipo, p.probing => p.level > 0 /\ ~p.espera
    PROVE  /\ Recuperar(p) \in FontesTipo /\ ~Recuperar(p).probing
           /\ Falhou429(p) \in FontesTipo /\ ~Falhou429(p).probing
<1>1. Recuperar(p) \in FontesTipo /\ ~Recuperar(p).probing
  BY FontesAssumption DEF Recuperar, FontesTipo
<1>2. Falhou429(p) \in FontesTipo /\ ~Falhou429(p).probing
  BY FontesAssumption DEF Falhou429, FontesTipo
<1>3. QED
  BY <1>1, <1>2

LEMMA EstadoPorCampos ==
    ASSUME NEW e \in EstadosTipo, NEW a, NEW n
    PROVE  [e EXCEPT !.active_probe = a, !.consecutive_failures = n] =
           [active_probe |-> a, consecutive_failures |-> n, recente |-> e.recente]
<1>1. PICK x \in Tentativas \cup {Ninguem}, y \in 0..CircuitFailures, z \in BOOLEAN :
         e = [active_probe |-> x, consecutive_failures |-> y, recente |-> z]
  <2>1. e = [active_probe |-> e.active_probe,
             consecutive_failures |-> e.consecutive_failures, recente |-> e.recente]
    BY DEF EstadosTipo
  <2>2. QED
    BY <2>1 DEF EstadosTipo
<1>2. e.recente = z
  BY <1>1
<1>3. [e EXCEPT !.active_probe = a] =
      [active_probe |-> a, consecutive_failures |-> y, recente |-> z]
  BY <1>1
<1>4. [[active_probe |-> a, consecutive_failures |-> y, recente |-> z]
          EXCEPT !.consecutive_failures = n] =
      [active_probe |-> a, consecutive_failures |-> n, recente |-> z]
  OBVIOUS
<1>5. QED
  BY <1>2, <1>3, <1>4, Zenon

LEMMA SucessoSeguro ==
    ASSUME IInv, NEW t \in Tentativas, RegistrarSucesso(t)
    PROVE  IInv'
<1> DEFINE f == lease[t].fonte
           p == IF estado[f].active_probe # t THEN policy[f]
                ELSE IF Atual(t) THEN Recuperar(policy[f])
                ELSE [policy[f] EXCEPT !.probing = FALSE]
           e == [estado[f] EXCEPT !.active_probe = SemSonda(f, t),
                                  !.consecutive_failures = IF Atual(t) THEN 0 ELSE @]
<1>1. /\ f \in Fontes /\ policy[f] \in FontesTipo /\ estado[f] \in EstadosTipo
      /\ lease[t].fase # "livre"
  BY TemFonte, InvPorPartes DEF Tipos, RegistrarSucesso
<1>2. policy[f].probing => policy[f].level > 0 /\ ~policy[f].espera
  BY <1>1, InvPorPartes DEF SondaAposEspera
<1>3. p \in FontesTipo
  <2>1. [policy[f] EXCEPT !.probing = FALSE] \in FontesTipo
    BY <1>1 DEF FontesTipo
  <2>2. QED
    BY <1>1, <1>2, <2>1, PoliticaDoResultado
<1>4. e \in EstadosTipo /\ e.active_probe = SemSonda(f, t)
  <2> DEFINE n == IF Atual(t) THEN 0 ELSE estado[f].consecutive_failures
  <2>1. /\ SemSonda(f, t) \in Tentativas \cup {Ninguem}
        /\ n \in 0..CircuitFailures
    BY <1>1, FontesAssumption DEF EstadosTipo, SemSonda
  <2>2. e = [active_probe |-> SemSonda(f, t), consecutive_failures |-> n,
             recente |-> estado[f].recente]
    BY <1>1, EstadoPorCampos, Zenon
  <2>3. estado[f].recente \in BOOLEAN
    BY <1>1 DEF EstadosTipo
  <2> HIDE DEF e, n, f
  <2>4. QED
    BY <2>1, <2>2, <2>3 DEF EstadosTipo
<1>5. p.probing => /\ policy[f].probing /\ estado[f].active_probe # t
                   /\ p.level > 0 /\ ~p.espera
  <2>1. ~[policy[f] EXCEPT !.probing = FALSE].probing
    BY <1>1 DEF FontesTipo
  <2>2. QED
    BY <1>1, <1>2, <2>1, PoliticaDoResultado
<1>6. policy' = [policy EXCEPT ![f] = p]
  BY <1>1, InvPorPartes DEF RegistrarSucesso, Tipos
<1>7. estado' = [estado EXCEPT ![f] = e]
  BY <1>1, InvPorPartes DEF RegistrarSucesso, Tipos
<1>8. OutraLivre(t)
  BY <1>1, InvPorPartes DEF RegistrarSucesso, Tipos, LeasesTipo, Livre, OutraLivre, Fases
<1>9. QED
  BY <1>1, <1>3, <1>4, <1>5, <1>6, <1>7, <1>8, TerminarLease

LEMMA FalhaSegura ==
    ASSUME IInv, NEW t \in Tentativas, RegistrarFalha(t)
    PROVE  IInv'
<1> DEFINE f == lease[t].fonte
           p == IF lease[t].fase = "429" THEN Falhou429(policy[f])
                ELSE [policy[f] EXCEPT !.probing = @ /\ estado[f].active_probe # t]
           n == IF estado[f].consecutive_failures < CircuitFailures
                THEN estado[f].consecutive_failures + 1
                ELSE estado[f].consecutive_failures
           e == [active_probe |-> SemSonda(f, t), consecutive_failures |-> n,
                 recente |-> TRUE]
<1>1. /\ f \in Fontes /\ policy[f] \in FontesTipo /\ estado[f] \in EstadosTipo
      /\ lease[t].fase # "livre"
  BY TemFonte, InvPorPartes DEF Tipos, RegistrarFalha
<1>2. policy[f].probing => policy[f].level > 0 /\ ~policy[f].espera
  BY <1>1, InvPorPartes DEF SondaAposEspera
<1>3. /\ p \in FontesTipo
      /\ p.probing => /\ policy[f].probing /\ estado[f].active_probe # t
                      /\ p.level > 0 /\ ~p.espera
  <2>1. CASE lease[t].fase = "429"
    BY <1>1, <1>2, <2>1, PoliticaDoResultado
  <2>2. CASE lease[t].fase # "429"
    <3>1. p = [policy[f] EXCEPT !.probing = @ /\ estado[f].active_probe # t]
      BY <2>2
    <3>2. QED
      BY <1>1, <1>2, <3>1 DEF FontesTipo
  <2>3. QED
    BY <2>1, <2>2
<1>4. e \in EstadosTipo /\ e.active_probe = SemSonda(f, t)
  <2>1. /\ SemSonda(f, t) \in Tentativas \cup {Ninguem}
        /\ n \in 0..CircuitFailures
    BY <1>1, FontesAssumption DEF EstadosTipo, SemSonda
  <2> HIDE DEF n
  <2>2. QED
    BY <2>1 DEF EstadosTipo
<1>5. policy' = [policy EXCEPT ![f] = p]
  <2>1. CASE lease[t].fase = "429"
    BY <2>1 DEF RegistrarFalha
  <2>2. CASE lease[t].fase # "429"
    BY <2>2, Zenon DEF RegistrarFalha
  <2>3. QED
    BY <2>1, <2>2
<1>6. estado' = [estado EXCEPT ![f] = e]
  BY <1>1, InvPorPartes DEF RegistrarFalha, Tipos
<1>7. OutraLivre(t)
  <2>1. ASSUME NEW r \in LeasesTipo, NEW v \in BOOLEAN
        PROVE  LET depois == [r EXCEPT !.velha = v]
               IN  /\ depois \in LeasesTipo /\ depois.fase = r.fase
                   /\ depois.probe = r.probe /\ depois.fonte = r.fonte
    BY DEF LeasesTipo
  <2>2. Livre \in LeasesTipo
    BY DEF Livre, LeasesTipo, Fases
  <2>3. \A u \in Tentativas : lease'[u] = IF u = t THEN Livre ELSE
           [lease[u] EXCEPT !.velha = lease[u].velha \/ lease[u].fonte = f]
    BY InvPorPartes DEF RegistrarFalha, Tipos, LeasesTipo
  <2>4. \A u \in Tentativas : (lease[u].velha \/ lease[u].fonte = f) \in BOOLEAN
    OBVIOUS
  <2>5. lease' = [u \in Tentativas |-> lease'[u]]
    BY DEF RegistrarFalha
  <2>6. \A u \in Tentativas : lease[u] \in LeasesTipo
    BY InvPorPartes DEF Tipos
  <2>7. lease'[t] = Livre
    BY <2>3
  <2>8. ASSUME NEW u \in Tentativas \ {t}
        PROVE  /\ lease'[u] \in LeasesTipo /\ lease'[u].fase = lease[u].fase
               /\ lease'[u].probe = lease[u].probe /\ lease'[u].fonte = lease[u].fonte
    <3>1. PICK v \in BOOLEAN : v = (lease[u].velha \/ lease[u].fonte = f)
      BY <2>4
    <3>2. lease'[u] = [lease[u] EXCEPT !.velha = v]
      BY <2>3, <3>1
    <3>3. QED
      BY <2>1, <2>6, <3>2
  <2>9. lease' \in [Tentativas -> LeasesTipo]
    <3>1. \A u \in Tentativas : lease'[u] \in LeasesTipo
      BY <2>2, <2>7, <2>8
    <3>2. QED
      BY <2>5, <3>1
  <2>10. QED
    BY <2>7, <2>8, <2>9 DEF OutraLivre
<1>8. QED
  BY <1>1, <1>3, <1>4, <1>5, <1>6, <1>7, TerminarLease

LEMMA TempoSeguro ==
    ASSUME IInv, NEW s \in Fontes, Tempo(s)
    PROVE  IInv'
<1>1. /\ lease' = lease
      /\ \A r \in Fontes : /\ policy'[r].probing = policy[r].probing
                           /\ policy'[r].level = policy[r].level
                           /\ policy'[r].espera => policy[r].espera
                           /\ estado'[r].active_probe = estado[r].active_probe
  BY InvPorPartes DEF Tempo, EsperaAcaba, CircuitoEsfria, Tipos, FontesTipo, EstadosTipo
<1>2. Tipos'
  <2>1. CASE EsperaAcaba(s)
    BY <2>1, InvPorPartes DEF EsperaAcaba, Tipos, FontesTipo
  <2>2. CASE CircuitoEsfria(s)
    BY <2>2, InvPorPartes DEF CircuitoEsfria, Tipos, EstadosTipo
  <2>3. QED
    BY <2>1, <2>2 DEF Tempo
<1>3. Coerente'
  BY <1>1, InvPorPartes DEF Coerente
<1>4. \A r \in Fontes : Sonda(policy'[r].probing, estado'[r].active_probe, lease', r)
  BY <1>1, InvPorPartes DEF Sonda
<1>5. SondaAposEspera'
  BY <1>1, InvPorPartes DEF SondaAposEspera
<1>6. QED
  BY <1>2, <1>3, <1>4, <1>5, InvPorPartesDepois

LEMMA PassoSeguro == IInv /\ [Next]_vars => IInv'
<1> SUFFICES ASSUME IInv, [Next]_vars PROVE IInv'
  OBVIOUS
<1>1. ASSUME NEW t \in Tentativas, Passo(t) \/ Cancelar(t) \/ CancelarCriada(t)
      PROVE  IInv'
  <2>1. CASE Iniciar(t)
    BY <2>1, IniciarSegura
  <2>2. CASE RegistrarSucesso(t)
    BY <2>2, SucessoSeguro
  <2>3. CASE RegistrarFalha(t)
    BY <2>3, FalhaSegura
  <2>4. CASE RegistrarCancelada(t)
    BY <2>4, LiberarSegura DEF RegistrarCancelada
  <2>5. CASE PrimeiroPasso(t) \/ Responder(t) \/ Cancelar(t) \/ CancelarCriada(t)
    BY <2>5, FaseSegura
  <2>6. QED
    BY <1>1, <2>1, <2>2, <2>3, <2>4, <2>5 DEF Passo
<1>2. ASSUME NEW t \in Tentativas, NEW s \in Fontes, Reservar(t, s)
      PROVE  IInv'
  BY <1>2, ReservarSegura
<1>3. ASSUME NEW s \in Fontes, Tempo(s)
      PROVE  IInv'
  BY <1>3, TempoSeguro
<1>4. CASE UNCHANGED vars
  BY <1>4 DEF vars, IInv, SondaComDono, SondaAposEspera, TypeOK
<1>5. QED
  BY <1>1, <1>2, <1>3, <1>4 DEF Next

-----------------------------------------------------------------------------
\* The inductive invariant holds in every reachable state: a probe has a lease that
\* has not ended, and its source is past its wait.
THEOREM Invariante == Spec => []IInv
<1>1. Init => IInv
  BY InitSeguro
<1>2. IInv /\ [Next]_vars => IInv'
  BY PassoSeguro
<1>3. QED
  BY <1>1, <1>2, PTL DEF Spec

\* A source closed for a probe has one, of a lease that has not ended, in every
\* reachable state and for any number of syntheses.
THEOREM UmaSonda == Spec => []SondaComDono
<1>1. IInv => SondaComDono
  BY DEF IInv
<1>2. QED
  BY <1>1, Invariante, PTL

-----------------------------------------------------------------------------
\* A step from the invariant starts nothing at a source that cools down: start
\* looks again, and a probe that is still out is past its wait.
LEMMA IniciaSemEspera ==
    ASSUME IInv, [Next]_vars, NEW t \in Tentativas,
           lease[t].fase = "vaga", lease'[t].fase = "rede"
    PROVE  ~EmEspera(lease[t].fonte)
<1>1. lease[t].fonte \in Fontes
  BY TemFonte
<1>2. CASE Iniciar(t)
  <2>1. ~Liberar(t)
    <3>1. Liberar(t) => lease'[t] = Livre
      BY InvPorPartes DEF Liberar, Tipos
    <3>2. QED
      BY <3>1 DEF Livre
  <2>2. SondaPropria(t) \/ available(lease[t].fonte)
    BY <1>2, <2>1 DEF Iniciar
  <2>3. QED
    BY <1>1, <2>2, InvPorPartes DEF SondaPropria, available, EmEspera, SondaAposEspera
<1>3. CASE ~Iniciar(t)
  <2>1. ASSUME NEW u \in Tentativas \ {t}, Passo(u) \/ Cancelar(u) \/ CancelarCriada(u)
        PROVE  lease'[t].fase = lease[t].fase
    <3>1. CASE RegistrarFalha(u)
      <4>1. lease'[t] = [lease[t] EXCEPT !.velha = @ \/ lease[t].fonte = lease[u].fonte]
        BY <2>1, <3>1 DEF RegistrarFalha
      <4>2. lease[t] \in LeasesTipo
        BY InvPorPartes DEF Tipos
      <4>3. QED
        BY <4>1, <4>2 DEF LeasesTipo
    <3>2. CASE ~RegistrarFalha(u)
      BY <2>1, <3>2, InvPorPartes DEF Passo, PrimeiroPasso, Iniciar, Responder, Cancelar,
         CancelarCriada, RegistrarSucesso, RegistrarCancelada, Liberar, Tipos
    <3>3. QED
      BY <3>1, <3>2
  <2>2. ~(Passo(t) \/ Cancelar(t) \/ CancelarCriada(t))
    BY <1>3, InvPorPartes DEF Passo, PrimeiroPasso, Responder, Cancelar, CancelarCriada,
       RegistrarSucesso, RegistrarFalha, RegistrarCancelada, Tipos, LeasesTipo, Respostas
  <2>3. ASSUME NEW u \in Tentativas, NEW s \in Fontes, Reservar(u, s)
        PROVE  lease'[t].fase # "rede"
    BY <2>3, InvPorPartes DEF Reservar, Tipos
  <2>4. ASSUME NEW s \in Fontes, Tempo(s)
        PROVE  lease' = lease
    BY <2>4 DEF Tempo, EsperaAcaba, CircuitoEsfria
  <2>5. QED
    BY <2>1, <2>2, <2>3, <2>4 DEF Next, vars
<1>4. QED
  BY <1>2, <1>3

\* No request starts at a source that is cooling down, for any number of
\* sources and syntheses.
THEOREM Espera == Spec => NadaNaEspera
<1>1. IInv /\ [Next]_vars => [\A t \in Tentativas :
          lease[t].fase = "vaga" /\ lease'[t].fase = "rede"
             => ~EmEspera(lease[t].fonte)]_vars
  BY IniciaSemEspera
<1>2. QED
  BY <1>1, Invariante, PTL DEF Spec, NadaNaEspera

-----------------------------------------------------------------------------
\* Level and failure count of a source only fall by a success that is current, of
\* its probe if it is the level.
LEMMA SoSucessoDesce ==
    ASSUME IInv, [Next]_vars, NEW s \in Fontes
    PROVE  \/ /\ policy'[s].level >= policy[s].level
              /\ estado'[s].consecutive_failures >= estado[s].consecutive_failures
           \/ \E t \in Tentativas : RegistrarSucesso(t) /\ lease[t].fonte = s
<1>1. /\ policy[s] \in FontesTipo /\ estado[s] \in EstadosTipo
      /\ policy[s].level \in Nat /\ estado[s].consecutive_failures \in Nat
  BY InvPorPartes, FontesAssumption DEF Tipos, FontesTipo, EstadosTipo
<1>2. ASSUME /\ policy'[s].level = policy[s].level
             /\ estado'[s].consecutive_failures = estado[s].consecutive_failures
      PROVE  /\ policy'[s].level >= policy[s].level
             /\ estado'[s].consecutive_failures >= estado[s].consecutive_failures
  BY <1>1, <1>2
<1>3. ASSUME NEW t \in Tentativas, Liberar(t)
      PROVE  /\ policy'[s].level = policy[s].level
             /\ estado'[s].consecutive_failures = estado[s].consecutive_failures
  BY <1>1, <1>3, InvPorPartes DEF Liberar, Tipos, FontesTipo, EstadosTipo
<1>4. ASSUME NEW t \in Tentativas, RegistrarFalha(t)
      PROVE  /\ policy'[s].level >= policy[s].level
             /\ estado'[s].consecutive_failures >= estado[s].consecutive_failures
  <2> DEFINE f == lease[t].fonte
             q == [policy[f] EXCEPT !.probing = @ /\ estado[f].active_probe # t]
  <2>1. f \in Fontes /\ policy[f] \in FontesTipo
    BY <1>4, TemFonte, InvPorPartes DEF RegistrarFalha, Tipos
  <2>2. CASE s = f
    <3>1. policy'[s] = Falhou429(policy[s]) \/ policy'[s] = q
      BY <1>4, <2>1, <2>2, InvPorPartes, Zenon DEF RegistrarFalha, Tipos
    <3>2. Falhou429(policy[s]).level >= policy[s].level
      BY <1>1 DEF Falhou429
    <3>3. q.level = policy[s].level
      BY <2>1, <2>2 DEF FontesTipo
    <3>4. estado'[s].consecutive_failures >= estado[s].consecutive_failures
      BY <1>1, <1>4, <2>2, InvPorPartes DEF RegistrarFalha, Tipos
    <3> HIDE DEF q
    <3>5. QED
      BY <1>1, <3>1, <3>2, <3>3, <3>4
  <2>3. CASE s # f
    BY <1>1, <1>4, <2>3, InvPorPartes DEF RegistrarFalha, Tipos
  <2>4. QED
    BY <2>2, <2>3
<1>5. ASSUME NEW t \in Tentativas, RegistrarSucesso(t), lease[t].fonte # s
      PROVE  policy'[s] = policy[s] /\ estado'[s] = estado[s]
  BY <1>5, InvPorPartes DEF RegistrarSucesso, Tipos
<1>6. ASSUME NEW t \in Tentativas, NEW r \in Fontes, Reservar(t, r)
      PROVE  /\ policy'[s].level = policy[s].level
             /\ estado'[s].consecutive_failures = estado[s].consecutive_failures
  <2>1. estado'[s].consecutive_failures = estado[s].consecutive_failures
    BY <1>1, <1>6, InvPorPartes DEF Reservar, Tipos, EstadosTipo
  <2>2. \A b : [policy[s] EXCEPT !.probing = b].level = policy[s].level
    BY <1>1 DEF FontesTipo
  <2>3. \/ policy'[s] = policy[s]
        \/ policy'[s] = [policy[s] EXCEPT !.probing = (policy[s].level > 0)]
    BY <1>6, InvPorPartes, Zenon DEF Reservar, Tipos
  <2>4. QED
    BY <2>1, <2>2, <2>3, Zenon
<1>7. ASSUME NEW r \in Fontes, Tempo(r)
      PROVE  /\ policy'[s].level = policy[s].level
             /\ estado'[s].consecutive_failures = estado[s].consecutive_failures
  <2>1. CASE EsperaAcaba(r)
    BY <1>1, <2>1, InvPorPartes DEF EsperaAcaba, Tipos, FontesTipo
  <2>2. CASE CircuitoEsfria(r)
    BY <1>1, <2>2, InvPorPartes DEF CircuitoEsfria, Tipos, EstadosTipo
  <2>3. QED
    BY <1>7, <2>1, <2>2 DEF Tempo
<1>8. ASSUME NEW t \in Tentativas, Passo(t) \/ Cancelar(t) \/ CancelarCriada(t)
      PROVE  \/ UNCHANGED <<policy, estado>> \/ Liberar(t)
             \/ RegistrarFalha(t) \/ RegistrarSucesso(t)
  BY <1>8 DEF Passo, PrimeiroPasso, Iniciar, Responder, Cancelar, CancelarCriada,
     RegistrarCancelada
<1>9. QED
  BY <1>2, <1>3, <1>4, <1>5, <1>6, <1>7, <1>8 DEF Next, vars

LEMMA SucessoRecente ==
    ASSUME IInv, NEW t \in Tentativas, RegistrarSucesso(t), NEW s \in Fontes,
           lease[t].fonte = s
    PROVE  /\ lease[t].fase = "ok" /\ lease'[t].fase = "livre"
           /\ policy'[s].level < policy[s].level =>
                 estado[s].active_probe = t /\ ~lease[t].velha
           /\ estado'[s].consecutive_failures < estado[s].consecutive_failures =>
                 ~lease[t].velha
<1>1. /\ policy[s] \in FontesTipo /\ estado[s] \in EstadosTipo
      /\ policy[s].level \in Nat /\ estado[s].consecutive_failures \in Nat
  BY InvPorPartes, FontesAssumption DEF Tipos, FontesTipo, EstadosTipo
<1>2. lease[t].fase = "ok" /\ lease'[t].fase = "livre"
  BY InvPorPartes DEF RegistrarSucesso, Tipos, Livre
<1>3. ASSUME lease[t].velha \/ estado[s].active_probe # t
      PROVE  policy'[s].level = policy[s].level
  <2>1. [policy[s] EXCEPT !.probing = FALSE].level = policy[s].level
    BY <1>1 DEF FontesTipo
  <2>2. policy'[s] \in {policy[s], [policy[s] EXCEPT !.probing = FALSE]}
    BY <1>3, InvPorPartes DEF RegistrarSucesso, Atual, Tipos
  <2>3. QED
    BY <2>1, <2>2
<1>4. ASSUME lease[t].velha
      PROVE  estado'[s].consecutive_failures = estado[s].consecutive_failures
  <2>1. estado'[s] = [estado[s] EXCEPT !.active_probe = SemSonda(s, t),
                             !.consecutive_failures = estado[s].consecutive_failures]
    BY <1>4, InvPorPartes DEF RegistrarSucesso, Atual, Tipos, EstadosTipo
  <2>2. QED
    BY <1>1, <2>1 DEF EstadosTipo
<1>5. QED
  BY <1>1, <1>2, <1>3, <1>4

\* A source is only taken for recovered by a request that started after the last
\* failure recorded there, for any number of sources and syntheses.
THEOREM Tardia == Spec => TardiaNaoFecha
<1> DEFINE A == \A s \in Fontes :
          /\ policy'[s].level < policy[s].level =>
                \E t \in Tentativas : /\ estado[s].active_probe = t
                                      /\ lease[t].fase = "ok" /\ ~lease[t].velha
                                      /\ lease'[t].fase = "livre"
          /\ estado'[s].consecutive_failures < estado[s].consecutive_failures =>
                \E t \in Tentativas : /\ lease[t].fonte = s /\ lease[t].fase = "ok"
                                      /\ ~lease[t].velha
                                      /\ lease'[t].fase = "livre"
<1>1. ASSUME IInv, [Next]_vars, NEW s \in Fontes
      PROVE  /\ policy[s].level \in Nat /\ estado[s].consecutive_failures \in Nat
             /\ policy'[s].level \in Nat /\ estado'[s].consecutive_failures \in Nat
  <2>1. IInv'
    BY <1>1, PassoSeguro
  <2>2. QED
    BY <1>1, <2>1, FontesAssumption DEF IInv, SondaComDono, TypeOK
<1>2. IInv /\ [Next]_vars => A
  <2> SUFFICES ASSUME IInv, [Next]_vars, NEW s \in Fontes
               PROVE  A!(s)
    OBVIOUS
  <2>1. CASE \E t \in Tentativas : RegistrarSucesso(t) /\ lease[t].fonte = s
    BY <2>1, SucessoRecente
  <2>2. CASE /\ policy'[s].level >= policy[s].level
             /\ estado'[s].consecutive_failures >= estado[s].consecutive_failures
    BY <1>1, <2>2
  <2>3. QED
    BY <2>1, <2>2, SoSucessoDesce
<1>3. IInv /\ [Next]_vars => [A]_vars
  BY <1>2
<1>4. QED
  BY <1>3, Invariante, PTL DEF Spec, TardiaNaoFecha
=============================================================================
