------------------------ MODULE ActionServiceProofs ------------------------
(* The chatbot's actions, for any plans, members, clicks, limit of actions    *)
(* and crashes: the service implements PlanoDeAcoes, and its reservations are *)
(* exact. The argument goes in layers: what a step does to the documents,     *)
(* then to the executions, the reservations and the cards.                    *)
EXTENDS ActionService, FiniteSetTheorems, TLAPS

Encerrados == TERMINAL_STATES \ {"succeeded"}
Estados == TERMINAL_STATES \cup Cancelaveis \cup {"ausente", "executing"}

DocTipo == [state : Estados, vencido : BOOLEAN, velho : BOOLEAN,
            message : BOOLEAN, removed : BOOLEAN, claims : Nat]
Ativacoes == {"fora", "lendo", "armando", "relendo", "reclamando", "executando",
              "publicando", "conferindo", "vinculando", "negada", "incerta",
              "perdida", "recolhendo", "saindo"}
Posteriores == {"fora", "avancando", "cortando", "apagando", "soltando", "falhou",
                "consultando", "agendando"}
ExecTipo == [pc : {"preparando", "efeito", "finalizando"} \cup Posteriores,
             res : {"", "feito", "failed", "uncertain", "succeeded"}, token : Nat]
CliqueTipo == [pc : {"fora", "validando", "rejeitado", "reservado", "aprovado", "fim"},
               p : Pedidos \cup {<<>>}]
ChatTipo == [enviados : Nat, vivo : BOOLEAN]
Fases == {"fora", "inicio", "expirar", "parciais", "executando", "publicando",
          "cartoes", "prontos"}
Membros == {Membro[a] : a \in Planos}

\* The parts of TypeOK, and the ones of the cards and the effects.
Tipos ==
    /\ ativacao \in [Pedidos -> Ativacoes]
    /\ execucao \in [Pedidos -> ExecTipo]
    /\ clique \in [Cliques -> CliqueTipo]
    /\ \A k \in Cliques : clique[k].pc # "fora" => clique[k].p \in Pedidos
    /\ chat \in [Pedidos -> ChatTipo]
    /\ efeitos \in [Pedidos -> Nat]
    /\ limpeza \in Fases

-----------------------------------------------------------------------------
\* The documents.

DocsTipo == docs \in [Pedidos -> DocTipo]

\* What was offered follows steps that succeeded.
Precedidas ==
    \A p \in Pedidos : docs[p].state \in {"created", "publishing", "pending", "executing", "succeeded"}
        => \A q \in Anteriores[p] : docs[q].state = "succeeded"

\* A step is claimed once at most, and what nobody claimed was not started.
Contas ==
    \A p \in Pedidos :
       /\ docs[p].claims \in {0, 1}
       /\ docs[p].state \in Cancelaveis \cup {"ausente"} => docs[p].claims = 0
       /\ docs[p].state \in {"executing", "succeeded"} => docs[p].claims = 1

DocInv == DocsTipo /\ PlanoInteiro /\ Precedidas /\ Contas

-----------------------------------------------------------------------------
\* The executions, the reservations and the cards.

\* An execution knows whether its effect happened.
Sabe(e, n) ==
    /\ e.pc = "preparando" => e.res = "" /\ n = 0
    /\ e.pc = "efeito" => (e.res = "" /\ n = 0) \/ (e.res = "feito" /\ n = 1)
    /\ e.pc = "finalizando" => \/ e.res \in {"failed", "uncertain"}
                               \/ e.res = "succeeded" /\ n = 1

\* A claim leads to one execution: by the click that won it, or by one task.
Exclusiva ==
    /\ \A p \in Pedidos : docs[p].claims = 0 => efeitos[p] = 0 /\ execucao[p].pc = "fora"
    /\ \A k \in Cliques : clique[k].pc = "aprovado" =>
          /\ docs[clique[k].p].claims = 1 /\ efeitos[clique[k].p] = 0
          /\ execucao[clique[k].p].pc = "fora"
    /\ \A j, k \in Cliques : clique[j].pc = "aprovado" /\ clique[k].pc = "aprovado"
                             /\ clique[j].p = clique[k].p => j = k

Efetiva ==
    \A p \in Pedidos : Sabe(execucao[p], efeitos[p])

ExecInv == Exclusiva /\ Efetiva

\* A reserved member has one task that acts for it; the others have none.
ResInv ==
    /\ reservas \subseteq Membros /\ IsFiniteSet(reservas)
    /\ Cardinality(reservas) <= MaxAcoes
    /\ \A p \in Pedidos : ativacao[p] = "reclamando" =>
                             execucao[p].pc \in {"fora", "consultando", "agendando"}
    /\ \A m \in Membros \ reservas : Ocupados(m) = {}
    /\ \A m \in reservas : \E x : Ocupados(m) = {x}

\* A card is sent once the publication was claimed, which happens once.
CartaoInv ==
    \A p \in Pedidos :
       /\ chat[p].enviados <= 1
       /\ docs[p].state \in {"ausente", "blocked", "created"} => chat[p].enviados = 0
       /\ ativacao[p] = "conferindo" =>
             chat[p].enviados = 0 /\ docs[p].state \notin {"ausente", "blocked", "created"}

IInv == Tipos /\ DocInv /\ ExecInv /\ ResInv /\ CartaoInv

-----------------------------------------------------------------------------
(* What a step does to the documents: nothing the phases see, or one of the   *)
(* moves below for one document.                                             *)

Mesmo(q) == docs'[q].state = docs[q].state /\ docs'[q].claims = docs[q].claims
SoMuda(p) == \A q \in Pedidos \ {p} : Mesmo(q)

Inserida(p) == docs[p].state = "ausente" /\ docs'[p].state = "blocked"
Ativada(p) == Ativavel(p) /\ docs'[p].state = "created"
Oferecida(p) == /\ docs[p].state \in {"created", "publishing"}
                /\ docs'[p].state \in {"publishing", "pending"}
Concluida(p) == docs[p].state = "executing" /\ docs'[p].state = "succeeded"
Encerrada(p) == /\ docs[p].state \in Cancelaveis \cup {"executing"}
                /\ docs'[p].state \in Encerrados
                /\ docs[p].state = "blocked" => docs'[p].state \in {"expired", "cancelled"}

Sereno == docs' \in [Pedidos -> DocTipo] /\ \A q \in Pedidos : Mesmo(q)
Avanca(p) == /\ docs' \in [Pedidos -> DocTipo] /\ SoMuda(p)
             /\ docs'[p].claims = docs[p].claims
             /\ Inserida(p) \/ Ativada(p) \/ Oferecida(p) \/ Encerrada(p)
Conclui(p) == /\ docs' \in [Pedidos -> DocTipo] /\ SoMuda(p)
              /\ docs'[p].claims = docs[p].claims /\ Concluida(p)
Reclama(p) == /\ docs' \in [Pedidos -> DocTipo] /\ SoMuda(p)
              /\ docs[p].state = "pending" /\ docs'[p].state = "executing"
              /\ docs'[p].claims = docs[p].claims + 1

\* A step that claims nothing and completes nothing.
Neutro == Sereno \/ \E p \in Pedidos : Avanca(p)

-----------------------------------------------------------------------------
\* The operators of the store.

LEMMA AnterioresTipo ==
    ASSUME NEW p \in Pedidos
    PROVE  /\ p[1] \in Planos
           /\ \A q \in Anteriores[p] : q \in Pedidos /\ q[1] = p[1] /\ q # p
<1>0. PICK a \in Planos : \E i \in DOMAIN Etapas[a] : p = <<a, i>>
  BY DEF Pedidos
<1>1. PICK i \in DOMAIN Etapas[a] : p = <<a, i>>
  BY <1>0
<1>2. i \in Nat
  BY EtapasAssumption DEF Planos
<1>3. p[1] = a /\ p[2] = i
  BY <1>1
<1>4. ASSUME NEW q \in Anteriores[p] PROVE q \in Pedidos /\ q[1] = p[1] /\ q[2] = p[2] - 1
  BY <1>4 DEF Anteriores, DoPlano
<1> QED
  BY <1>2, <1>3, <1>4

LEMMA PassarMuda ==
    ASSUME DocsTipo, NEW p, NEW s \in Estados, Passar(p, s)
    PROVE  /\ docs' \in [Pedidos -> DocTipo] /\ SoMuda(p)
           /\ p \in Pedidos => docs'[p].state = s /\ docs'[p].claims = docs[p].claims
  BY DEF DocsTipo, DocTipo, Passar, SoMuda, Mesmo

LEMMA ActivateMuda ==
    ASSUME DocsTipo, NEW p, Ativavel(p), Activate(p)
    PROVE  Neutro
<1>1. docs' \in [Pedidos -> DocTipo] /\ SoMuda(p)
  BY DEF DocsTipo, DocTipo, Activate, SoMuda, Mesmo, Estados, Cancelaveis
<1>2. CASE p \in Pedidos
  <2>1. docs'[p].claims = docs[p].claims /\ docs'[p].state = "created"
    BY <1>2 DEF DocsTipo, DocTipo, Activate
  <2> QED
    BY <1>1, <1>2, <2>1 DEF Neutro, Avanca, Ativada
<1>3. CASE p \notin Pedidos
  BY <1>1, <1>3 DEF Neutro, Sereno, SoMuda
<1> QED
  BY <1>2, <1>3

LEMMA BindMuda ==
    ASSUME DocsTipo, NEW p \in Pedidos, Vinculavel(p), Bind(p)
    PROVE  Neutro
<1>1. docs' \in [Pedidos -> DocTipo] /\ SoMuda(p)
  BY DEF DocsTipo, DocTipo, Bind, SoMuda, Mesmo, Estados, Cancelaveis
<1>2. docs'[p].claims = docs[p].claims /\ docs'[p].state = "pending"
  BY DEF DocsTipo, DocTipo, Bind
<1> QED
  BY <1>1, <1>2 DEF Neutro, Avanca, Oferecida, Vinculavel, Em

LEMMA ClaimMuda ==
    ASSUME DocsTipo, NEW p \in Pedidos, Reclamavel(p), Claim(p)
    PROVE  Reclama(p)
<1>1. docs' \in [Pedidos -> DocTipo] /\ SoMuda(p)
  BY DEF DocsTipo, DocTipo, Claim, SoMuda, Mesmo, Estados
<1>2. docs'[p].claims = docs[p].claims + 1 /\ docs'[p].state = "executing"
  BY DEF DocsTipo, DocTipo, Claim
<1> QED
  BY <1>1, <1>2 DEF Reclama, Reclamavel, Em

LEMMA EncerrarMuda ==
    ASSUME DocsTipo, NEW p, NEW s \in Encerrados, Passar(p, s),
           p \in Pedidos => docs[p].state \in Cancelaveis \cup {"executing"},
           p \in Pedidos => (docs[p].state = "blocked" => s \in {"expired", "cancelled"})
    PROVE  Neutro
<1>1. /\ docs' \in [Pedidos -> DocTipo] /\ SoMuda(p)
      /\ p \in Pedidos => docs'[p].state = s /\ docs'[p].claims = docs[p].claims
  BY PassarMuda DEF Encerrados, Estados
<1>2. CASE p \in Pedidos
  BY <1>1, <1>2 DEF Neutro, Avanca, Encerrada
<1>3. CASE p \notin Pedidos
  BY <1>1, <1>3 DEF Neutro, Sereno, SoMuda
<1> QED
  BY <1>2, <1>3

LEMMA ParadoNeutro ==
    ASSUME DocsTipo, UNCHANGED docs
    PROVE  Neutro
  BY DEF DocsTipo, Neutro, Sereno, Mesmo

LEMMA DeleteCardNeutro ==
    ASSUME DocsTipo, NEW p \in Pedidos, DeleteCard(p)
    PROVE  Neutro
<1>1. CASE docs' = [docs EXCEPT ![p].removed = TRUE]
  BY <1>1 DEF DocsTipo, DocTipo, Neutro, Sereno, Mesmo
<1>2. CASE docs' = docs
  BY <1>2, ParadoNeutro
<1> QED
  BY <1>1, <1>2 DEF DeleteCard

-----------------------------------------------------------------------------
\* The invariant of the documents, move by move.

LEMMA CompletoCresce ==
    ASSUME NEW a, Completo(a), \A q \in Pedidos : docs[q].state # "ausente" => docs'[q].state # "ausente"
    PROVE  Completo(a)'
  BY DEF Completo, DoPlano

LEMMA DocInvSereno ==
    ASSUME DocInv, Sereno
    PROVE  DocInv'
<1> USE DEF DocInv, Sereno, Mesmo
<1>1. DocsTipo'
  BY DEF DocsTipo
<1>2. PlanoInteiro'
  BY DEF PlanoInteiro, Completo, DoPlano, Em
<1>3. Precedidas'
  BY AnterioresTipo DEF Precedidas
<1>4. Contas'
  BY DEF Contas
<1> QED
  BY <1>1, <1>2, <1>3, <1>4

\* Success is final: a move elsewhere leaves what precedes a step as it was.
LEMMA DocInvMove ==
    ASSUME DocInv, NEW p \in Pedidos, docs' \in [Pedidos -> DocTipo], SoMuda(p),
           docs[p].state # "succeeded", docs'[p].state # "ausente",
           docs'[p].state \in {"created", "publishing", "pending", "executing", "succeeded"}
              => \A q \in Anteriores[p] : docs[q].state = "succeeded",
           ~Completo(p[1]) => docs'[p].state \in {"blocked", "expired", "cancelled"},
           docs'[p].claims \in {0, 1},
           docs'[p].state \in Cancelaveis => docs'[p].claims = 0,
           docs'[p].state \in {"executing", "succeeded"} => docs'[p].claims = 1
    PROVE  DocInv'
<1> USE DEF DocInv, SoMuda, Mesmo
<1>1. DocsTipo'
  BY DEF DocsTipo
<1>2. PlanoInteiro'
  <2> SUFFICES ASSUME NEW r \in Pedidos, ~Completo(r[1])'
               PROVE  docs'[r].state \in {"ausente", "blocked", "expired", "cancelled"}
    BY DEF PlanoInteiro, Em
  <2>1. ~Completo(r[1])
    BY CompletoCresce
  <2> QED
    BY <2>1 DEF PlanoInteiro, Em
<1>3. Precedidas'
  <2> SUFFICES ASSUME NEW r \in Pedidos, NEW q \in Anteriores[r],
                      docs'[r].state \in {"created", "publishing", "pending", "executing", "succeeded"}
               PROVE  docs'[q].state = "succeeded"
    BY DEF Precedidas
  <2>1. q \in Pedidos
    BY AnterioresTipo
  <2>2. docs[q].state = "succeeded"
    BY DEF Precedidas
  <2> QED
    BY <2>1, <2>2
<1>4. Contas'
  BY DEF Contas, Cancelaveis
<1> QED
  BY <1>1, <1>2, <1>3, <1>4

LEMMA DocInvAvanca ==
    ASSUME DocInv, NEW p \in Pedidos, Avanca(p) \/ Conclui(p) \/ Reclama(p)
    PROVE  DocInv'
<1> USE DEF Cancelaveis, TERMINAL_STATES, Encerrados
<1>1. docs' \in [Pedidos -> DocTipo] /\ SoMuda(p)
  BY DEF Avanca, Conclui, Reclama
<1>2. docs[p].state # "succeeded" /\ docs'[p].state # "ausente"
  BY DEF Avanca, Conclui, Reclama, Inserida, Ativada, Ativavel, Em, Oferecida, Encerrada, Concluida
<1>3. docs'[p].state \in {"created", "publishing", "pending", "executing", "succeeded"}
              => \A q \in Anteriores[p] : docs[q].state = "succeeded"
  BY DEF DocInv, Precedidas, Avanca, Conclui, Reclama, Inserida, Ativada, Ativavel, Em,
         Oferecida, Encerrada, Concluida
<1>4. ~Completo(p[1]) => docs'[p].state \in {"blocked", "expired", "cancelled"}
  BY DEF DocInv, PlanoInteiro, Avanca, Conclui, Reclama, Inserida, Ativada, Ativavel, Em,
         Oferecida, Encerrada, Concluida
<1>5. /\ docs'[p].claims \in {0, 1}
      /\ docs'[p].state \in Cancelaveis => docs'[p].claims = 0
      /\ docs'[p].state \in {"executing", "succeeded"} => docs'[p].claims = 1
  BY DEF DocInv, Contas, Avanca, Conclui, Reclama, Inserida, Ativada, Ativavel, Em,
         Oferecida, Encerrada, Concluida
<1> QED
  BY <1>1, <1>2, <1>3, <1>4, <1>5, DocInvMove

LEMMA DocInvNeutro ==
    ASSUME DocInv, Neutro
    PROVE  DocInv'
  BY DocInvSereno, DocInvAvanca DEF Neutro

\* Nobody returns to the states before publication, and claims stay.
LEMMA NeutroMantem ==
    ASSUME Neutro \/ \E p \in Pedidos : Conclui(p)
    PROVE  \A q \in Pedidos :
              /\ docs'[q].claims = docs[q].claims
              /\ docs'[q].state \in {"ausente", "blocked", "created"}
                    => docs[q].state \in {"ausente", "blocked", "created"}
<1> USE DEF Cancelaveis, TERMINAL_STATES, Encerrados, Mesmo, SoMuda
<1>1. CASE Sereno
  BY <1>1 DEF Sereno
<1>2. ASSUME NEW p \in Pedidos, Avanca(p) \/ Conclui(p)
      PROVE  \A q \in Pedidos :
              /\ docs'[q].claims = docs[q].claims
              /\ docs'[q].state \in {"ausente", "blocked", "created"}
                    => docs[q].state \in {"ausente", "blocked", "created"}
  BY <1>2 DEF Avanca, Conclui, Inserida, Ativada, Ativavel, Em, Oferecida, Encerrada, Concluida
<1> QED
  BY <1>1, <1>2 DEF Neutro

-----------------------------------------------------------------------------
\* The executions.

ClaimsIguais == \A q \in Pedidos : docs'[q].claims = docs[q].claims
SemAprovar == \A k \in Cliques : clique'[k].pc = "aprovado" => clique'[k] = clique[k]
SoExecuta(p) == /\ execucao' \in [Pedidos -> ExecTipo]
                /\ \A q \in Pedidos \ {p} : execucao'[q] = execucao[q]

LEMMA ExecParada ==
    ASSUME ExecInv, Tipos, ClaimsIguais, SemAprovar, UNCHANGED <<execucao, efeitos>>
    PROVE  ExecInv'
<1>1. \A k \in Cliques : clique[k].pc = "aprovado" => clique[k].p \in Pedidos
  BY DEF Tipos
<1>2. Exclusiva'
  BY <1>1 DEF ExecInv, Exclusiva, ClaimsIguais, SemAprovar
<1>3. Efetiva'
  BY DEF ExecInv, Efetiva
<1> QED
  BY <1>2, <1>3 DEF ExecInv

\* An execution goes on: it was claimed, and by no click that waits.
LEMMA ExecAnda ==
    ASSUME ExecInv, Tipos, ClaimsIguais, UNCHANGED <<clique, efeitos>>,
           NEW p \in Pedidos, SoExecuta(p), execucao[p].pc # "fora",
           Sabe(execucao'[p], efeitos[p])
    PROVE  ExecInv'
<1>1. \A k \in Cliques : clique[k].pc = "aprovado" => clique[k].p \in Pedidos
  BY DEF Tipos
<1>2. Exclusiva'
  BY <1>1 DEF ExecInv, Exclusiva, ClaimsIguais, SoExecuta
<1>3. Efetiva'
  BY DEF ExecInv, Efetiva, SoExecuta
<1> QED
  BY <1>2, <1>3 DEF ExecInv

-----------------------------------------------------------------------------
\* The reservations: who acts for a member stays, begins, ends, or hands over.

Livres == {"fora", "consultando", "agendando"}
Disputa(p) == ativacao[p] = "reclamando" \/ execucao[p].pc \notin Livres
Segura(k) == clique[k].pc \in {"reservado", "aprovado"}

SemDisputar ==
    \A p \in Pedidos : /\ ativacao'[p] = "reclamando" <=> ativacao[p] = "reclamando"
                       /\ execucao'[p].pc \in Livres <=> execucao[p].pc \in Livres
SemSegurar ==
    \A k \in Cliques : \/ clique'[k] = clique[k]
                       \/ /\ clique[k].pc \notin {"reservado", "aprovado"}
                          /\ clique'[k].pc \notin {"reservado", "aprovado"}

\* The exclusion of a claim in progress and an execution.
UmPapel == \A p \in Pedidos : ativacao[p] = "reclamando" => execucao[p].pc \in Livres

LEMMA OcupadosIguais ==
    ASSUME SemDisputar, SemSegurar
    PROVE  \A m \in Membros : Ocupados(m)' = Ocupados(m)
<1> SUFFICES ASSUME NEW m \in Membros PROVE Ocupados(m)' = Ocupados(m)
  OBVIOUS
<1>1. \A k \in Cliques :
        (clique'[k].pc \in {"reservado", "aprovado"} /\ Dono(clique'[k].p) = m)
        <=> (clique[k].pc \in {"reservado", "aprovado"} /\ Dono(clique[k].p) = m)
  BY DEF SemSegurar
<1>2. \A p \in Pedidos :
        (ativacao'[p] = "reclamando" \/ execucao'[p].pc \notin {"fora", "consultando", "agendando"})
        <=> (ativacao[p] = "reclamando" \/ execucao[p].pc \notin {"fora", "consultando", "agendando"})
  BY DEF SemDisputar, Livres
<1> QED
  BY <1>1, <1>2 DEF Ocupados, Dono

LEMMA ResIgual ==
    ASSUME ResInv, SemDisputar, SemSegurar, UNCHANGED reservas
    PROVE  ResInv'
<1>1. \A m \in Membros : Ocupados(m)' = Ocupados(m)
  BY OcupadosIguais
<1>2. \A m \in Membros' : Ocupados(m)' = Ocupados(m)
  BY <1>1 DEF Membros
<1>3. (/\ reservas \subseteq Membros /\ IsFiniteSet(reservas)
       /\ Cardinality(reservas) <= MaxAcoes)'
  BY DEF ResInv, Membros
<1>4. UmPapel'
  BY DEF ResInv, SemDisputar, UmPapel, Livres
<1>5. (\A m \in Membros \ reservas : Ocupados(m) = {})'
  BY <1>2 DEF ResInv, Membros
<1>6. (\A m \in reservas : \E x : Ocupados(m) = {x})'
  <2> SUFFICES ASSUME NEW m \in reservas PROVE (\E x : Ocupados(m) = {x})'
    OBVIOUS
  <2>1. m \in Membros /\ \E x : Ocupados(m) = {x}
    BY DEF ResInv
  <2> QED
    BY <2>1, <1>1
<1> QED
  BY <1>3, <1>4, <1>5, <1>6 DEF ResInv, UmPapel, Livres

LEMMA Unico ==
    ASSUME ResInv, NEW m \in Membros, NEW x \in Ocupados(m)
    PROVE  m \in reservas /\ Ocupados(m) = {x}
<1>1. m \in reservas
  BY DEF ResInv
<1>2. PICK y : Ocupados(m) = {y}
  BY <1>1 DEF ResInv
<1> QED
  BY <1>1, <1>2

\* The occupation of one member changes, with or without his reservation.
LEMMA ResMuda ==
    ASSUME ResInv, UmPapel', NEW m0 \in Membros,
           \A m \in Membros \ {m0} : Ocupados(m)' = Ocupados(m),
           \/ /\ m0 \notin reservas /\ Cardinality(reservas) < MaxAcoes
              /\ reservas' = reservas \cup {m0} /\ \E x : Ocupados(m0)' = {x}
           \/ reservas' = reservas \ {m0} /\ Ocupados(m0)' = {}
           \/ m0 \in reservas /\ reservas' = reservas /\ \E x : Ocupados(m0)' = {x}
    PROVE  ResInv'
<1>1. reservas' \subseteq Membros /\ IsFiniteSet(reservas') /\ Cardinality(reservas') <= MaxAcoes
  <2>1. reservas \subseteq Membros /\ IsFiniteSet(reservas) /\ Cardinality(reservas) <= MaxAcoes
    BY DEF ResInv
  <2>2. Cardinality(reservas) \in Nat /\ MaxAcoes \in Nat
    BY <2>1, FS_CardinalityType, ServicoAssumption
  <2>3. CASE m0 \notin reservas /\ Cardinality(reservas) < MaxAcoes /\ reservas' = reservas \cup {m0}
    <3>1. IsFiniteSet(reservas') /\ Cardinality(reservas') = Cardinality(reservas) + 1
      BY <2>1, <2>3, FS_AddElement
    <3> QED
      BY <2>1, <2>2, <2>3, <3>1
  <2>4. CASE reservas' = reservas \ {m0}
    <3>1. /\ IsFiniteSet(reservas')
          /\ Cardinality(reservas') = Cardinality(reservas) \/ Cardinality(reservas') = Cardinality(reservas) - 1
      BY <2>1, <2>4, FS_RemoveElement
    <3> QED
      BY <2>1, <2>2, <2>4, <3>1
  <2>5. CASE reservas' = reservas
    BY <2>1, <2>5
  <2> QED
    BY <2>3, <2>4, <2>5
<1>2. (\A m \in Membros \ reservas : Ocupados(m) = {})'
  <2> SUFFICES ASSUME NEW m \in Membros, m \notin reservas' PROVE Ocupados(m)' = {}
    BY DEF Membros
  <2>1. CASE m = m0
    BY <2>1
  <2>2. CASE m # m0
    BY <2>2 DEF ResInv
  <2> QED
    BY <2>1, <2>2
<1>3. (\A m \in reservas : \E x : Ocupados(m) = {x})'
  <2> SUFFICES ASSUME NEW m \in reservas' PROVE (\E x : Ocupados(m) = {x})'
    OBVIOUS
  <2>0. m \in Membros
    BY <1>1
  <2>1. CASE m = m0
    BY <2>1
  <2>2. CASE m # m0
    BY <2>0, <2>2 DEF ResInv
  <2> QED
    BY <2>1, <2>2
<1>4. (reservas \subseteq Membros)'
  BY <1>1 DEF Membros
<1> QED
  BY <1>1, <1>2, <1>3, <1>4 DEF ResInv, UmPapel, Livres

LEMMA DonoMembro ==
    ASSUME NEW p \in Pedidos
    PROVE  Dono(p) \in Membros
  BY AnterioresTipo DEF Dono, Membros

\* Only the task of p changes: the others of its member are who they were.
LEMMA PedidoMuda ==
    ASSUME NEW p \in Pedidos, SemSegurar,
           \A q \in Pedidos \ {p} : Disputa(q)' <=> Disputa(q)
    PROVE  /\ \A m \in Membros \ {Dono(p)} : Ocupados(m)' = Ocupados(m)
           /\ \A x : x # p => (x \in Ocupados(Dono(p))' <=> x \in Ocupados(Dono(p)))
           /\ p \in Ocupados(Dono(p)) <=> Disputa(p)
           /\ p \in Ocupados(Dono(p))' <=> Disputa(p)'
<1> USE DEF Ocupados, Disputa, Livres, Dono
<1>1. \A m : \A k \in Cliques :
        (clique'[k].pc \in {"reservado", "aprovado"} /\ Dono(clique'[k].p) = m)
        <=> (clique[k].pc \in {"reservado", "aprovado"} /\ Dono(clique[k].p) = m)
  BY DEF SemSegurar
<1>2. p \notin Cliques
  BY ServicoAssumption
<1>3. \A m \in Membros \ {Dono(p)} : Ocupados(m)' = Ocupados(m)
  BY <1>1
<1>4. \A x : x # p => (x \in Ocupados(Dono(p))' <=> x \in Ocupados(Dono(p)))
  BY <1>1
<1>5. p \in Ocupados(Dono(p)) <=> Disputa(p)
  BY <1>2
<1>6. p \in Ocupados(Dono(p))' <=> Disputa(p)'
  BY <1>2
<1> QED
  BY <1>3, <1>4, <1>5, <1>6

LEMMA ResEntra ==
    ASSUME ResInv, UmPapel', NEW p \in Pedidos, SemSegurar,
           \A q \in Pedidos \ {p} : Disputa(q)' <=> Disputa(q),
           Cabe(p), Reserve(p), Disputa(p)'
    PROVE  ResInv'
<1>1. Dono(p) \in Membros /\ Dono(p) \notin reservas /\ Cardinality(reservas) < MaxAcoes
  BY DonoMembro DEF Cabe
<1>2. Ocupados(Dono(p)) = {}
  BY <1>1 DEF ResInv
<1>3. Ocupados(Dono(p))' = {p}
  BY <1>2, PedidoMuda
<1>4. \A m \in Membros \ {Dono(p)} : Ocupados(m)' = Ocupados(m)
  BY PedidoMuda
<1> QED
  BY <1>1, <1>3, <1>4, ResMuda DEF Reserve

LEMMA ResSai ==
    ASSUME ResInv, UmPapel', NEW p \in Pedidos, SemSegurar,
           \A q \in Pedidos \ {p} : Disputa(q)' <=> Disputa(q),
           Disputa(p), Release(p), ~Disputa(p)'
    PROVE  ResInv'
<1>1. Dono(p) \in Membros
  BY DonoMembro
<1>2. Ocupados(Dono(p)) = {p}
  BY <1>1, PedidoMuda, Unico
<1>3. Ocupados(Dono(p))' = {}
  BY <1>2, PedidoMuda
<1>4. \A m \in Membros \ {Dono(p)} : Ocupados(m)' = Ocupados(m)
  BY PedidoMuda
<1> QED
  BY <1>1, <1>3, <1>4, ResMuda DEF Release

\* The task that claimed becomes the execution: the same request acts.
LEMMA ResFica ==
    ASSUME ResInv, UmPapel', NEW p \in Pedidos, SemSegurar,
           \A q \in Pedidos \ {p} : Disputa(q)' <=> Disputa(q),
           Disputa(p), UNCHANGED reservas, Disputa(p)'
    PROVE  ResInv'
<1>1. Dono(p) \in Membros
  BY DonoMembro
<1>2. Ocupados(Dono(p)) = {p} /\ Dono(p) \in reservas
  BY <1>1, PedidoMuda, Unico
<1>3. Ocupados(Dono(p))' = {p}
  BY <1>2, PedidoMuda
<1>4. \A m \in Membros \ {Dono(p)} : Ocupados(m)' = Ocupados(m)
  BY PedidoMuda
<1> QED
  BY <1>1, <1>2, <1>3, <1>4, ResMuda

\* The same of a click.
LEMMA CliqueMuda ==
    ASSUME NEW k \in Cliques, clique[k].p \in Pedidos, SemDisputar,
           \A j \in Cliques \ {k} : clique'[j] = clique[j], clique'[k].p = clique[k].p,
           NEW m0, m0 = Dono(clique[k].p)
    PROVE  /\ \A m \in Membros \ {m0} : Ocupados(m)' = Ocupados(m)
           /\ \A x : x # k => (x \in Ocupados(m0)' <=> x \in Ocupados(m0))
           /\ k \in Ocupados(m0) <=> Segura(k)
           /\ k \in Ocupados(m0)' <=> Segura(k)'
<1> USE DEF Ocupados, Segura, Dono
<1>1. \A q \in Pedidos :
        (ativacao'[q] = "reclamando" \/ execucao'[q].pc \notin {"fora", "consultando", "agendando"})
        <=> (ativacao[q] = "reclamando" \/ execucao[q].pc \notin {"fora", "consultando", "agendando"})
  BY DEF SemDisputar, Livres
<1>2. k \notin Pedidos
  BY ServicoAssumption
<1>3. \A m \in Membros \ {m0} : Ocupados(m)' = Ocupados(m)
  BY <1>1
<1>4. \A x : x # k => (x \in Ocupados(m0)' <=> x \in Ocupados(m0))
  BY <1>1
<1>5. k \in Ocupados(m0) <=> Segura(k)
  BY <1>2
<1>6. k \in Ocupados(m0)' <=> Segura(k)'
  BY <1>2
<1> QED
  BY <1>3, <1>4, <1>5, <1>6

LEMMA UmPapelDe ==
    ASSUME ResInv, SemDisputar
    PROVE  UmPapel'
  BY DEF ResInv, SemDisputar, UmPapel, Livres

LEMMA ResClica ==
    ASSUME ResInv, NEW k \in Cliques, NEW p \in Pedidos, clique[k].p = p, SemDisputar,
           \A j \in Cliques \ {k} : clique'[j] = clique[j], clique'[k].p = p,
           Cabe(p), Reserve(p), Segura(k)'
    PROVE  ResInv'
<1> DEFINE m0 == Dono(p)
<1>1. m0 \in Membros /\ m0 \notin reservas /\ Cardinality(reservas) < MaxAcoes
  BY DonoMembro DEF Cabe
<1>2. Ocupados(m0) = {}
  BY <1>1 DEF ResInv
<1>3. /\ \A m \in Membros \ {m0} : Ocupados(m)' = Ocupados(m)
      /\ \A x : x # k => (x \in Ocupados(m0)' <=> x \in Ocupados(m0))
      /\ k \in Ocupados(m0)' <=> Segura(k)'
  BY CliqueMuda
<1>4. Ocupados(m0)' = {k}
  BY <1>2, <1>3
<1>5. UmPapel'
  BY UmPapelDe
<1>6. reservas' = reservas \cup {m0}
  BY DEF Reserve
<1> HIDE DEF m0
<1> QED
  BY <1>1, <1>3, <1>4, <1>5, <1>6, ResMuda

LEMMA ResDesiste ==
    ASSUME ResInv, NEW k \in Cliques, NEW p \in Pedidos, clique[k].p = p, SemDisputar,
           \A j \in Cliques \ {k} : clique'[j] = clique[j], clique'[k].p = p,
           Segura(k), Release(p), ~Segura(k)'
    PROVE  ResInv'
<1> DEFINE m0 == Dono(p)
<1>1. m0 \in Membros
  BY DonoMembro
<1>2. /\ \A m \in Membros \ {m0} : Ocupados(m)' = Ocupados(m)
      /\ \A x : x # k => (x \in Ocupados(m0)' <=> x \in Ocupados(m0))
      /\ k \in Ocupados(m0) <=> Segura(k)
      /\ k \in Ocupados(m0)' <=> Segura(k)'
  BY CliqueMuda
<1>3. Ocupados(m0) = {k}
  BY <1>1, <1>2, Unico
<1>4. Ocupados(m0)' = {}
  BY <1>2, <1>3
<1>5. UmPapel'
  BY UmPapelDe
<1>6. reservas' = reservas \ {m0}
  BY DEF Release
<1> HIDE DEF m0
<1> QED
  BY <1>1, <1>2, <1>4, <1>5, <1>6, ResMuda

\* The click that claimed becomes the execution.
LEMMA ResPassa ==
    ASSUME ResInv, NEW k \in Cliques, NEW p \in Pedidos, clique[k].p = p, Segura(k),
           \A j \in Cliques \ {k} : clique'[j] = clique[j], ~Segura(k)',
           execucao' \in [Pedidos -> ExecTipo],
           \A q \in Pedidos \ {p} : execucao'[q] = execucao[q],
           execucao'[p].pc = "preparando", UNCHANGED <<ativacao, reservas>>
    PROVE  ResInv'
<1> DEFINE m0 == Dono(p)
<1> USE DEF Ocupados, Segura, Dono
<1>1. m0 \in Membros
  BY DonoMembro
<1>2. k \in Ocupados(m0)
  OBVIOUS
<1>3. Ocupados(m0) = {k} /\ m0 \in reservas
  BY <1>1, <1>2, Unico
<1>4. k \notin Pedidos /\ p \notin Cliques
  BY ServicoAssumption
<1>5. ativacao[p] # "reclamando"
  BY <1>3, <1>4
<1>6. UmPapel'
  BY <1>5 DEF UmPapel, Livres, ResInv
<1>7. \A m \in Membros \ {m0} : Ocupados(m)' = Ocupados(m)
  <2> SUFFICES ASSUME NEW m \in Membros \ {m0} PROVE Ocupados(m)' = Ocupados(m)
    OBVIOUS
  <2>1. \A j \in Cliques :
          (clique'[j].pc \in {"reservado", "aprovado"} /\ Dono(clique'[j].p) = m)
          <=> (clique[j].pc \in {"reservado", "aprovado"} /\ Dono(clique[j].p) = m)
    OBVIOUS
  <2> QED
    BY <2>1
<1>8. Ocupados(m0)' = {p}
  <2>1. \A j \in Cliques : ~(clique'[j].pc \in {"reservado", "aprovado"} /\ Dono(clique'[j].p) = m0)
    BY <1>3
  <2>2. \A q \in Pedidos \ {p} : ~(/\ Dono(q) = m0
                                   /\ \/ ativacao[q] = "reclamando"
                                      \/ execucao[q].pc \notin {"fora", "consultando", "agendando"})
    BY <1>3, <1>4
  <2> QED
    BY <2>1, <2>2
<1> HIDE DEF m0, Ocupados
<1>9. reservas' = reservas
  OBVIOUS
<1> QED
  BY <1>1, <1>3, <1>6, <1>7, <1>8, <1>9, ResMuda

-----------------------------------------------------------------------------
\* The cards.

Novos == {"ausente", "blocked", "created"}
DocsSegue == \A q \in Pedidos : docs'[q].state \in Novos => docs[q].state \in Novos
ChatIgual == \A p \in Pedidos : chat'[p].enviados = chat[p].enviados
SemConferir == \A p \in Pedidos : ativacao'[p] = "conferindo" => ativacao[p] = "conferindo"

LEMMA CartaoFica ==
    ASSUME CartaoInv, DocsSegue, ChatIgual, SemConferir
    PROVE  CartaoInv'
  BY DEF CartaoInv, DocsSegue, ChatIgual, SemConferir, Novos

LEMMA NeutroSegue ==
    ASSUME Neutro \/ \E p \in Pedidos : Conclui(p)
    PROVE  ClaimsIguais /\ DocsSegue
  BY NeutroMantem DEF ClaimsIguais, DocsSegue, Novos

LEMMA ReclamaSegue ==
    ASSUME NEW p \in Pedidos, Reclama(p)
    PROVE  DocsSegue
  BY DEF Reclama, DocsSegue, Novos, SoMuda, Mesmo

-----------------------------------------------------------------------------
(* What every step is shown to do: keep the invariant, and be to the plan a  *)
(* start, an effect, a success, or an end or nothing.                        *)

Efeito(p) == /\ Sereno /\ efeitos' = [efeitos EXCEPT ![p] = 1]
             /\ docs[p].claims # 0 /\ efeitos[p] = 0
Fiel ==
    \/ Neutro /\ UNCHANGED efeitos
    \/ \E p \in Pedidos : Reclama(p) /\ UNCHANGED efeitos
    \/ \E p \in Pedidos : Conclui(p) /\ efeitos[p] = 1 /\ UNCHANGED efeitos
    \/ \E p \in Pedidos : Efeito(p)

Segue == IInv' /\ Fiel

-----------------------------------------------------------------------------
(* Steps that claim, reserve, execute and send nothing.                      *)

AtivCalma == \A p \in Pedidos : /\ ativacao'[p] = "reclamando" <=> ativacao[p] = "reclamando"
                                /\ ativacao'[p] = "conferindo" => ativacao[p] = "conferindo"

LEMMA PassoCalmo ==
    ASSUME IInv, Tipos', Neutro, UNCHANGED <<execucao, efeitos, reservas>>,
           SemSegurar, AtivCalma, ChatIgual
    PROVE  Segue
<1> USE DEF IInv
<1>1. DocInv'
  BY DocInvNeutro
<1>2. ExecInv'
  <2>1. SemAprovar
    BY DEF SemSegurar, SemAprovar
  <2> QED
    BY <2>1, NeutroSegue, ExecParada
<1>3. ResInv'
  <2>1. SemDisputar
    BY DEF SemDisputar, AtivCalma
  <2> QED
    BY <2>1, ResIgual
<1>4. CartaoInv'
  BY NeutroSegue, CartaoFica DEF AtivCalma, SemConferir
<1> QED
  BY <1>1, <1>2, <1>3, <1>4 DEF Fiel, Segue

\* Only documents change, and what no invariant is about.
LEMMA PassoDosDocumentos ==
    ASSUME IInv, Neutro, UNCHANGED <<ativacao, execucao, clique, limpeza, chat, efeitos, reservas>>
    PROVE  Segue
<1>1. Tipos'
  BY DEF IInv, Tipos
<1>2. SemSegurar /\ AtivCalma /\ ChatIgual
  BY DEF SemSegurar, AtivCalma, ChatIgual
<1> QED
  BY <1>1, <1>2, PassoCalmo

\* An activation goes on, without reserving and without sending.
LEMMA PassoDaAtivacao ==
    ASSUME IInv, Neutro, UNCHANGED <<execucao, clique, limpeza, efeitos, reservas>>,
           ativacao' \in [Pedidos -> Ativacoes], chat' \in [Pedidos -> ChatTipo],
           AtivCalma, ChatIgual
    PROVE  Segue
<1>1. Tipos'
  BY DEF IInv, Tipos
<1>2. SemSegurar
  BY DEF SemSegurar
<1> QED
  BY <1>1, <1>2, PassoCalmo

\* A click goes on, without reserving and without claiming.
LEMMA PassoDoClique ==
    ASSUME IInv, Neutro, UNCHANGED <<ativacao, execucao, limpeza, efeitos, reservas>>,
           chat' \in [Pedidos -> ChatTipo], ChatIgual,
           NEW k \in Cliques, clique' \in [Cliques -> CliqueTipo],
           \A j \in Cliques \ {k} : clique'[j] = clique[j],
           clique'[k].pc # "fora" => clique'[k].p \in Pedidos,
           ~Segura(k), ~Segura(k)'
    PROVE  Segue
<1>1. Tipos'
  BY DEF IInv, Tipos
<1>2. SemSegurar /\ AtivCalma
  BY DEF SemSegurar, AtivCalma, Segura
<1> QED
  BY <1>1, <1>2, PassoCalmo

\* An execution goes on, and keeps its place or the lack of one.
LEMMA PassoDaExecucao ==
    ASSUME IInv, NEW p \in Pedidos, Neutro \/ (Conclui(p) /\ efeitos[p] = 1),
           UNCHANGED <<clique, limpeza, efeitos, reservas>>,
           ativacao' \in [Pedidos -> Ativacoes], AtivCalma,
           chat' \in [Pedidos -> ChatTipo], ChatIgual,
           SoExecuta(p), execucao[p].pc # "fora", Sabe(execucao'[p], efeitos[p]),
           execucao'[p].pc \in Livres <=> execucao[p].pc \in Livres
    PROVE  Segue
<1> USE DEF IInv
<1>1. DocInv'
  BY DocInvNeutro, DocInvAvanca
<1>2. ClaimsIguais /\ DocsSegue
  BY NeutroSegue
<1>3. ExecInv'
  BY <1>2, ExecAnda
<1>4. ResInv'
  <2>1. SemDisputar /\ SemSegurar
    BY DEF SemDisputar, AtivCalma, SemSegurar, SoExecuta
  <2> QED
    BY <2>1, ResIgual
<1>5. CartaoInv'
  BY <1>2, CartaoFica DEF AtivCalma, SemConferir
<1>6. Tipos'
  BY DEF Tipos, SoExecuta
<1> QED
  BY <1>1, <1>3, <1>4, <1>5, <1>6 DEF Fiel, Segue

-----------------------------------------------------------------------------
\* The actions, one by one: the creation of a plan.

LEMMA AcoesDaCriacao ==
    ASSUME IInv, NEW a \in Planos, CreatePlan(a) \/ Criacao(a) \/ FalharCriacao(a)
    PROVE  Segue
<1> USE DEF IInv, DocInv, mundo, tarefas
<1>1. CASE CreatePlan(a) \/ FalharCriacao(a)
  BY <1>1, ParadoNeutro, PassoDosDocumentos DEF CreatePlan, FalharCriacao
<1>2. CASE Inserir(a)
  <2>1. PICK p \in DoPlano(a) : docs[p].state = "ausente" /\ Passar(p, "blocked")
    BY <1>2 DEF Inserir
  <2>2. p \in Pedidos
    BY DEF DoPlano
  <2>3. Avanca(p)
    BY <2>1, <2>2, PassarMuda DEF Avanca, Inserida, Estados, Cancelaveis
  <2> QED
    BY <1>2, <2>2, <2>3, PassoDosDocumentos DEF Neutro, Inserir
<1>3. CASE AtivarPrimeira(a)
  <2>1. Neutro
    BY <1>3, ParadoNeutro, ActivateMuda DEF AtivarPrimeira
  <2> QED
    BY <1>3, <2>1, PassoDosDocumentos DEF AtivarPrimeira
<1>4. CASE BindAndStart(a)
  <2>1. ativacao' \in [Pedidos -> Ativacoes] /\ AtivCalma
    BY <1>4 DEF BindAndStart, Schedule, AtivCalma, Tipos, Ativacoes
  <2>2. chat' \in [Pedidos -> ChatTipo] /\ ChatIgual
    BY <1>4 DEF BindAndStart, Tipos, ChatIgual
  <2> QED
    BY <1>4, <2>1, <2>2, ParadoNeutro, PassoDaAtivacao DEF BindAndStart
<1> QED
  BY <1>1, <1>2, <1>3, <1>4 DEF Criacao

-----------------------------------------------------------------------------
\* The activation of a step.

LEMMA AtivEm ==
    ASSUME Tipos, NEW p \in Pedidos, NEW pc \in Ativacoes \ {"reclamando", "conferindo"},
           Ativ(p, pc), ativacao[p] # "reclamando"
    PROVE  ativacao' \in [Pedidos -> Ativacoes] /\ AtivCalma
  BY DEF Tipos, Ativ, AtivCalma

\* The first reservation of an automatic step.
LEMMA TentarSeguro ==
    ASSUME IInv, NEW p \in Pedidos, Tentar(p), ativacao[p] \in {"lendo", "relendo"},
           UNCHANGED <<docs, execucao, clique, limpeza, chat, efeitos>>
    PROVE  Segue
<1> USE DEF IInv, DocInv
<1>1. CASE Cabe(p)
  <2>1. Reserve(p) /\ Ativ(p, "reclamando")
    BY <1>1 DEF Tentar
  <2>2. Tipos'
    BY <2>1 DEF Tipos, Ativ, Ativacoes
  <2>3. DocInv'
    BY ParadoNeutro, DocInvNeutro
  <2>4. ExecInv'
    BY ParadoNeutro, NeutroSegue, ExecParada DEF SemAprovar
  <2>5. CartaoInv'
    <3>1. SemConferir /\ ChatIgual
      BY <2>1 DEF Tipos, Ativ, SemConferir, ChatIgual
    <3> QED
      BY <3>1, ParadoNeutro, NeutroSegue, CartaoFica
  <2>6. ResInv'
    <3>1. SemSegurar
      BY DEF SemSegurar
    <3>2. \A q \in Pedidos \ {p} : Disputa(q)' <=> Disputa(q)
      BY <2>1 DEF Tipos, Ativ, Disputa
    <3>3. Disputa(p)'
      BY <2>1 DEF Tipos, Ativ, Disputa
    <3>4. ~Disputa(p)
      BY <1>1, DonoMembro, PedidoMuda, <3>1, <3>2 DEF Cabe, ResInv
    <3>5. UmPapel'
      BY <2>1, <3>4 DEF Tipos, Ativ, Disputa, UmPapel, ResInv, Livres
    <3> QED
      BY <1>1, <2>1, <3>1, <3>2, <3>3, <3>5, ResEntra
  <2> QED
    BY <2>2, <2>3, <2>4, <2>5, <2>6, ParadoNeutro DEF Fiel, Segue
<1>2. CASE ~Cabe(p)
  <2>1. Ativ(p, "fora") /\ UNCHANGED reservas
    BY <1>2 DEF Tentar
  <2>2. ativacao' \in [Pedidos -> Ativacoes] /\ AtivCalma
    BY <2>1, AtivEm DEF Ativacoes
  <2>3. chat' \in [Pedidos -> ChatTipo] /\ ChatIgual
    BY DEF Tipos, ChatIgual
  <2> QED
    BY <2>1, <2>2, <2>3, ParadoNeutro, PassoDaAtivacao
<1> QED
  BY <1>1, <1>2

LEMMA LerSeguro ==
    ASSUME IInv, NEW p \in Pedidos, Ler(p) \/ Reler(p)
    PROVE  Segue
<1> USE DEF IInv, DocInv, mundo
<1>1. UNCHANGED <<docs, execucao, clique, limpeza, chat, efeitos>>
  BY DEF Ler, Reler
<1>2. ativacao[p] \in {"lendo", "relendo"}
  BY DEF Ler, Reler
<1>3. CASE Tentar(p)
  BY <1>1, <1>2, <1>3, TentarSeguro
<1>4. ASSUME NEW pc \in {"fora", "armando", "publicando"}, Ativ(p, pc), UNCHANGED reservas
      PROVE  Segue
  <2>1. ativacao' \in [Pedidos -> Ativacoes] /\ AtivCalma
    BY <1>2, <1>4, AtivEm DEF Ativacoes
  <2>2. chat' \in [Pedidos -> ChatTipo] /\ ChatIgual
    BY <1>1 DEF Tipos, ChatIgual
  <2> QED
    BY <1>1, <1>4, <2>1, <2>2, ParadoNeutro, PassoDaAtivacao
<1>5. Tentar(p) \/ \E pc \in {"fora", "armando", "publicando"} : Ativ(p, pc) /\ UNCHANGED reservas
  <2>1. CASE Ler(p)
    BY <2>1 DEF Ler
  <2>2. CASE Reler(p)
    BY <2>2 DEF Reler
  <2> QED
    BY <2>1, <2>2
<1> QED
  BY <1>3, <1>4, <1>5

LEMMA ArmarSeguro ==
    ASSUME IInv, NEW p \in Pedidos, ArmAutomatic(p)
    PROVE  Segue
<1> USE DEF IInv, DocInv, mundo
<1>1. Neutro
  <2>1. CASE Armavel(p)
    <3>1. Passar(p, "pending") /\ docs[p].state = "created"
      BY <2>1 DEF ArmAutomatic, Armavel, Em
    <3>2. Avanca(p)
      BY <3>1, PassarMuda DEF Avanca, Oferecida, Estados, Cancelaveis
    <3> QED
      BY <3>2 DEF Neutro
  <2>2. CASE ~Armavel(p)
    BY <2>2, ParadoNeutro DEF ArmAutomatic
  <2> QED
    BY <2>1, <2>2
<1>2. ativacao' \in [Pedidos -> Ativacoes] /\ AtivCalma
  BY AtivEm DEF ArmAutomatic, Ativacoes
<1>3. chat' \in [Pedidos -> ChatTipo] /\ ChatIgual
  BY DEF ArmAutomatic, Tipos, ChatIgual
<1> QED
  BY <1>1, <1>2, <1>3, PassoDaAtivacao DEF ArmAutomatic

\* The claim of an automatic step: it had not been claimed, so that nothing
\* executes it and no click holds it.
LEMMA ReclamarSeguro ==
    ASSUME IInv, NEW p \in Pedidos, ClaimAutomatic(p)
    PROVE  Segue
<1> USE DEF IInv, DocInv, mundo
<1>1. ativacao[p] = "reclamando" /\ UNCHANGED <<clique, limpeza, chat, efeitos>>
  BY DEF ClaimAutomatic
<1>2. CASE /\ Reclamavel(p) /\ Claim(p) /\ Iniciada(p, docs[p].claims + 1)
           /\ Ativ(p, "executando") /\ UNCHANGED reservas
  <2>1. Reclama(p)
    BY <1>2, ClaimMuda
  <2>2. /\ docs[p].claims = 0 /\ docs'[p].claims = 1
        /\ \A q \in Pedidos \ {p} : docs'[q].claims = docs[q].claims
    BY <2>1 DEF Contas, Reclama, Cancelaveis, SoMuda, Mesmo
  <2>3. /\ execucao' \in [Pedidos -> ExecTipo]
        /\ \A q \in Pedidos \ {p} : execucao'[q] = execucao[q]
        /\ execucao'[p].pc = "preparando" /\ execucao'[p].res = ""
    <3>1. docs[p].claims + 1 \in Nat
      BY <2>2
    <3> QED
      BY <1>2, <3>1 DEF Iniciada, Tipos, ExecTipo
  <2>4. Tipos'
    BY <1>1, <1>2, <2>3 DEF Tipos, Ativ, Ativacoes
  <2>5. DocInv'
    BY <2>1, DocInvAvanca
  <2>6. ExecInv'
    <3>1. efeitos[p] = 0 /\ execucao[p].pc = "fora"
      BY <2>2 DEF ExecInv, Exclusiva
    <3>2. \A k \in Cliques : clique[k].pc = "aprovado" => clique[k].p \in Pedidos /\ clique[k].p # p
      BY <2>2 DEF ExecInv, Exclusiva, Tipos
    <3>3. Exclusiva'
      <4>1. \A q \in Pedidos : docs'[q].claims = 0 => efeitos'[q] = 0 /\ execucao'[q].pc = "fora"
        <5>1. \A q \in Pedidos : docs[q].claims = 0 => efeitos[q] = 0 /\ execucao[q].pc = "fora"
          BY DEF ExecInv, Exclusiva
        <5> SUFFICES ASSUME NEW q \in Pedidos, docs'[q].claims = 0
                     PROVE  efeitos'[q] = 0 /\ execucao'[q].pc = "fora"
          OBVIOUS
        <5>2. q # p
          BY <2>2
        <5>3. docs[q].claims = 0 /\ execucao'[q] = execucao[q] /\ efeitos' = efeitos
          BY <1>1, <2>2, <2>3, <5>2
        <5> QED
          BY <5>1, <5>3
      <4>2. \A k \in Cliques : clique'[k].pc = "aprovado" =>
               /\ docs'[clique'[k].p].claims = 1 /\ efeitos'[clique'[k].p] = 0
               /\ execucao'[clique'[k].p].pc = "fora"
        BY <1>1, <2>2, <2>3, <3>2 DEF ExecInv, Exclusiva
      <4> QED
        BY <1>1, <4>1, <4>2 DEF ExecInv, Exclusiva
    <3>4. Efetiva'
      BY <1>1, <2>3, <3>1 DEF ExecInv, Efetiva, Sabe
    <3> QED
      BY <3>3, <3>4 DEF ExecInv
  <2>7. ResInv'
    <3>1. SemSegurar
      BY <1>1 DEF SemSegurar
    <3>2. \A q \in Pedidos \ {p} : Disputa(q)' <=> Disputa(q)
      BY <1>2, <2>3 DEF Tipos, Ativ, Disputa
    <3>3. Disputa(p) /\ Disputa(p)'
      BY <1>1, <2>3 DEF Disputa, Livres
    <3>4. UmPapel'
      BY <1>2, <2>3 DEF Tipos, Ativ, UmPapel, ResInv, Livres
    <3> QED
      BY <1>2, <3>1, <3>2, <3>3, <3>4, ResFica
  <2>8. CartaoInv'
    <3>1. SemConferir /\ ChatIgual
      BY <1>1, <1>2 DEF Tipos, Ativ, SemConferir, ChatIgual
    <3> QED
      BY <2>1, <3>1, ReclamaSegue, CartaoFica
  <2> QED
    BY <1>1, <2>1, <2>4, <2>5, <2>6, <2>7, <2>8 DEF Fiel, Segue
<1>3. CASE Release(p) /\ Ativ(p, "fora") /\ UNCHANGED <<docs, execucao>>
  <2>1. Tipos'
    BY <1>1, <1>3 DEF Tipos, Ativ, Ativacoes
  <2>2. DocInv'
    BY <1>3, ParadoNeutro, DocInvNeutro
  <2>3. ExecInv'
    BY <1>1, <1>3, ParadoNeutro, NeutroSegue, ExecParada DEF SemAprovar
  <2>4. CartaoInv'
    <3>1. SemConferir /\ ChatIgual
      BY <1>1, <1>3 DEF Tipos, Ativ, SemConferir, ChatIgual
    <3> QED
      BY <1>3, <3>1, ParadoNeutro, NeutroSegue, CartaoFica
  <2>5. ResInv'
    <3>1. SemSegurar
      BY <1>1 DEF SemSegurar
    <3>2. \A q \in Pedidos \ {p} : Disputa(q)' <=> Disputa(q)
      BY <1>3 DEF Tipos, Ativ, Disputa
    <3>3. Disputa(p) /\ ~Disputa(p)'
      BY <1>1, <1>3 DEF Tipos, Ativ, Disputa, ResInv, Livres
    <3>4. UmPapel'
      BY <1>3 DEF Tipos, Ativ, UmPapel, ResInv, Livres
    <3> QED
      BY <1>3, <3>1, <3>2, <3>3, <3>4, ResSai
  <2> QED
    BY <1>1, <1>3, <2>1, <2>2, <2>3, <2>4, <2>5, ParadoNeutro DEF Fiel, Segue
<1> QED
  BY <1>2, <1>3 DEF ClaimAutomatic

\* A publication claims the step, which leaves the states before a card.
LEMMA PublicarSeguro ==
    ASSUME IInv, NEW p \in Pedidos, ClaimPublication(p)
    PROVE  Segue
<1> USE DEF IInv, DocInv, mundo
<1>1. CASE Publicavel(p)
  <2>1. /\ Passar(p, "publishing") /\ docs[p].state = "created" /\ Ativ(p, "conferindo")
        /\ ativacao[p] = "publicando"
        /\ UNCHANGED <<execucao, clique, limpeza, chat, efeitos, reservas>>
    BY <1>1 DEF ClaimPublication, Publicavel, Em
  <2>2. Avanca(p)
    BY <2>1, PassarMuda DEF Avanca, Oferecida, Estados, Cancelaveis
  <2>3. Tipos'
    BY <2>1 DEF Tipos, Ativ, Ativacoes
  <2>4. DocInv'
    BY <2>2, DocInvAvanca
  <2>5. ClaimsIguais /\ DocsSegue
    BY <2>2, NeutroSegue DEF Neutro
  <2>6. ExecInv'
    BY <2>1, <2>5, ExecParada DEF SemAprovar
  <2>7. ResInv'
    <3>1. SemSegurar /\ SemDisputar
      BY <2>1 DEF SemSegurar, SemDisputar, Ativ, Tipos
    <3> QED
      BY <2>1, <3>1, ResIgual
  <2>8. CartaoInv'
    <3>1. chat[p].enviados = 0 /\ docs'[p].state = "publishing"
      BY <2>1, PassarMuda DEF CartaoInv, Estados, Cancelaveis
    <3>2. \A q \in Pedidos \ {p} : ativacao'[q] = ativacao[q]
      BY <2>1 DEF Ativ, Tipos
    <3> QED
      BY <2>1, <2>5, <3>1, <3>2 DEF CartaoInv, DocsSegue, Novos
  <2> QED
    BY <2>1, <2>2, <2>3, <2>4, <2>6, <2>7, <2>8 DEF Neutro, Fiel, Segue
<1>2. CASE ~Publicavel(p)
  <2>1. /\ Ativ(p, "fora") /\ ativacao[p] = "publicando"
        /\ UNCHANGED <<docs, execucao, clique, limpeza, chat, efeitos, reservas>>
    BY <1>2 DEF ClaimPublication
  <2>2. ativacao' \in [Pedidos -> Ativacoes] /\ AtivCalma
    BY <2>1, AtivEm DEF Ativacoes
  <2>3. chat' \in [Pedidos -> ChatTipo] /\ ChatIgual
    BY <2>1 DEF Tipos, ChatIgual
  <2> QED
    BY <2>1, <2>2, <2>3, ParadoNeutro, PassoDaAtivacao
<1> QED
  BY <1>1, <1>2

\* The one step that sends a card: none was sent before.
LEMMA EnviarSeguro ==
    ASSUME IInv, NEW p \in Pedidos, Enviar(p)
    PROVE  Segue
<1> USE DEF IInv, DocInv
<1>1. /\ ativacao[p] = "conferindo"
      /\ UNCHANGED <<docs, execucao, clique, limpeza, efeitos, reservas>>
  BY DEF Enviar
<1>2. PICK pc \in {"negada", "incerta", "vinculando"} : Ativ(p, pc)
  BY DEF Enviar
<1>3. ativacao' \in [Pedidos -> Ativacoes] /\ AtivCalma
  BY <1>1, <1>2, AtivEm DEF Ativacoes
<1>4. CASE UNCHANGED chat
  <2>1. chat' \in [Pedidos -> ChatTipo] /\ ChatIgual
    BY <1>4 DEF Tipos, ChatIgual
  <2> QED
    BY <1>1, <1>3, <2>1, ParadoNeutro, PassoDaAtivacao
<1>5. CASE chat' = [chat EXCEPT ![p] = [enviados |-> @.enviados + 1, vivo |-> TRUE]]
  <2>1. /\ chat' \in [Pedidos -> ChatTipo] /\ chat'[p].enviados = chat[p].enviados + 1
        /\ \A q \in Pedidos \ {p} : chat'[q] = chat[q]
    BY <1>5 DEF Tipos, ChatTipo
  <2>2. Tipos'
    BY <1>1, <1>3, <2>1 DEF Tipos
  <2>3. DocInv'
    BY <1>1, ParadoNeutro, DocInvNeutro
  <2>4. ExecInv'
    BY <1>1, ParadoNeutro, NeutroSegue, ExecParada DEF SemAprovar
  <2>5. ResInv'
    <3>1. SemSegurar /\ SemDisputar
      BY <1>1, <1>3 DEF SemSegurar, SemDisputar, AtivCalma
    <3> QED
      BY <1>1, <3>1, ResIgual
  <2>6. CartaoInv'
    <3>1. chat[p].enviados = 0 /\ docs[p].state \notin {"ausente", "blocked", "created"}
      BY <1>1 DEF CartaoInv
    <3>2. ativacao'[p] # "conferindo"
      BY <1>2 DEF Ativ, Tipos
    <3> QED
      BY <1>1, <1>3, <2>1, <3>1, <3>2 DEF CartaoInv, AtivCalma
  <2> QED
    BY <1>1, <2>2, <2>3, <2>4, <2>5, <2>6, ParadoNeutro DEF Fiel, Segue
<1> QED
  BY <1>4, <1>5 DEF Enviar

LEMMA VincularSeguro ==
    ASSUME IInv, NEW p \in Pedidos, Vincular(p)
    PROVE  Segue
<1> USE DEF IInv, DocInv, mundo
<1>1. /\ ativacao[p] = "vinculando"
      /\ UNCHANGED <<execucao, clique, limpeza, chat, efeitos, reservas>>
  BY DEF Vincular
<1>2. Neutro
  BY ParadoNeutro, BindMuda DEF Vincular
<1>3. ativacao' \in [Pedidos -> Ativacoes] /\ AtivCalma
  <2>1. PICK pc \in {"fora", "perdida", "recolhendo"} : Ativ(p, pc)
    BY DEF Vincular
  <2> QED
    BY <1>1, <2>1, AtivEm DEF Ativacoes
<1>4. chat' \in [Pedidos -> ChatTipo] /\ ChatIgual
  BY <1>1 DEF Tipos, ChatIgual
<1> QED
  BY <1>1, <1>2, <1>3, <1>4, PassoDaAtivacao

LEMMA FalharSeguro ==
    ASSUME IInv, NEW p \in Pedidos, FailUnpublished(p)
    PROVE  Segue
<1> USE DEF IInv, DocInv, mundo
<1>1. /\ ativacao[p] \in {"negada", "incerta", "perdida"}
      /\ UNCHANGED <<execucao, clique, limpeza, chat, efeitos, reservas>>
  BY DEF FailUnpublished
<1>2. Neutro
  <2>1. CASE Em(p, {"created", "publishing"})
    <3>1. PICK s \in {"failed", "uncertain"} : Passar(p, s)
      BY <2>1 DEF FailUnpublished, Encerrar
    <3> QED
      BY <2>1, <3>1, EncerrarMuda DEF Em, Encerrados, TERMINAL_STATES, Cancelaveis
  <2>2. CASE ~Em(p, {"created", "publishing"})
    BY <2>2, ParadoNeutro DEF FailUnpublished
  <2> QED
    BY <2>1, <2>2
<1>3. ativacao' \in [Pedidos -> Ativacoes] /\ AtivCalma
  <2>1. PICK pc \in {"recolhendo", "saindo"} : Ativ(p, pc)
    BY DEF FailUnpublished
  <2> QED
    BY <1>1, <2>1, AtivEm DEF Ativacoes
<1>4. chat' \in [Pedidos -> ChatTipo] /\ ChatIgual
  BY <1>1 DEF Tipos, ChatIgual
<1> QED
  BY <1>1, <1>2, <1>3, <1>4, PassoDaAtivacao

LEMMA VivoMuda ==
    ASSUME Tipos, NEW p \in Pedidos,
           chat' = [chat EXCEPT ![p].vivo = FALSE] \/ UNCHANGED chat
    PROVE  chat' \in [Pedidos -> ChatTipo] /\ ChatIgual
<1>1. CASE chat' = [chat EXCEPT ![p].vivo = FALSE]
  BY <1>1 DEF Tipos, ChatTipo, ChatIgual
<1>2. CASE UNCHANGED chat
  BY <1>2 DEF Tipos, ChatIgual
<1> QED
  BY <1>1, <1>2

LEMMA RecolherSeguro ==
    ASSUME IInv, NEW p \in Pedidos, Recolher(p) \/ Sair(p)
    PROVE  Segue
<1> USE DEF IInv, DocInv, mundo
<1>1. /\ ativacao[p] \in {"recolhendo", "saindo"} /\ Ativ(p, "fora")
      /\ UNCHANGED <<docs, execucao, clique, limpeza, efeitos, reservas>>
  BY DEF Recolher, Sair
<1>2. ativacao' \in [Pedidos -> Ativacoes] /\ AtivCalma
  BY <1>1, AtivEm DEF Ativacoes
<1>3. chat' \in [Pedidos -> ChatTipo] /\ ChatIgual
  BY VivoMuda DEF Recolher, Sair
<1> QED
  BY <1>1, <1>2, <1>3, ParadoNeutro, PassoDaAtivacao

LEMMA CancelarDescendentes ==
    ASSUME IInv, NEW o, CancelDescendants(o)
    PROVE  Segue
<1> USE DEF IInv, DocInv, mundo
<1>1. PICK q : IF Em(q, Cancelaveis) THEN Passar(q, "cancelled") ELSE UNCHANGED docs
  BY DEF CancelDescendants
<1>2. Neutro
  <2>1. CASE Em(q, Cancelaveis)
    BY <1>1, <2>1, EncerrarMuda DEF Em, Encerrados, TERMINAL_STATES
  <2>2. CASE ~Em(q, Cancelaveis)
    BY <1>1, <2>2, ParadoNeutro
  <2> QED
    BY <2>1, <2>2
<1> QED
  BY <1>2, PassoDosDocumentos DEF CancelDescendants

LEMMA RecuperarProntos ==
    ASSUME IInv, NEW o, RecoverReady(o)
    PROVE  Segue
<1> USE DEF IInv, DocInv, mundo
<1>1. Neutro
  BY ParadoNeutro, ActivateMuda DEF RecoverReady
<1> QED
  BY <1>1, PassoDosDocumentos DEF RecoverReady

LEMMA AcoesDaAtivacao ==
    ASSUME IInv, NEW p \in Pedidos, Ativacao(p)
    PROVE  Segue
  BY LerSeguro, ArmarSeguro, ReclamarSeguro, PublicarSeguro, EnviarSeguro, VincularSeguro,
     FalharSeguro, RecolherSeguro, CancelarDescendentes DEF Ativacao

-----------------------------------------------------------------------------
\* The execution of a claim.

LEMMA DeleteCardChat ==
    ASSUME Tipos, NEW p \in Pedidos, DeleteCard(p)
    PROVE  chat' \in [Pedidos -> ChatTipo] /\ ChatIgual
  BY VivoMuda DEF DeleteCard

LEMMA ExecMuda ==
    ASSUME Tipos, NEW p \in Pedidos, NEW pc \in {"preparando", "efeito", "finalizando"} \cup Posteriores,
           Exec(p, pc)
    PROVE  SoExecuta(p) /\ execucao'[p].pc = pc /\ execucao'[p].res = execucao[p].res
  BY DEF Tipos, Exec, SoExecuta, ExecTipo

LEMMA ParadasAtiv ==
    ASSUME Tipos, UNCHANGED <<ativacao, chat>>
    PROVE  /\ ativacao' \in [Pedidos -> Ativacoes] /\ AtivCalma
           /\ chat' \in [Pedidos -> ChatTipo] /\ ChatIgual
  BY DEF Tipos, AtivCalma, ChatIgual

\* A turn of the execution after the effect, that keeps its place or the lack
\* of one.
LEMMA PassoPosterior ==
    ASSUME IInv, NEW p \in Pedidos, NEW pc \in Posteriores, Exec(p, pc),
           Neutro \/ (Conclui(p) /\ efeitos[p] = 1), UNCHANGED <<ativacao, clique, limpeza, efeitos, reservas>>,
           chat' \in [Pedidos -> ChatTipo], ChatIgual,
           execucao[p].pc # "fora", pc \in Livres <=> execucao[p].pc \in Livres
    PROVE  Segue
<1>1. Tipos
  BY DEF IInv
<1>2. SoExecuta(p) /\ execucao'[p].pc = pc
  BY <1>1, ExecMuda
<1>3. Sabe(execucao'[p], efeitos[p])
  BY <1>2 DEF Sabe, Posteriores
<1>4. ativacao' \in [Pedidos -> Ativacoes] /\ AtivCalma
  BY <1>1 DEF Tipos, AtivCalma
<1> QED
  BY <1>2, <1>3, <1>4, PassoDaExecucao

\* Before the effect, and its outcome.
LEMMA PrepararSeguro ==
    ASSUME IInv, NEW p \in Pedidos, Preparar(p) \/ Resultado(p)
    PROVE  Segue
<1> USE DEF IInv, DocInv, mundo
<1>1. /\ execucao[p].pc \in {"preparando", "efeito"}
      /\ UNCHANGED <<docs, ativacao, clique, limpeza, chat, efeitos, reservas>>
  BY DEF Preparar, Resultado
<1>2. Sabe(execucao[p], efeitos[p])
  BY DEF ExecInv, Efetiva
<1>3. /\ SoExecuta(p) /\ execucao'[p].pc \in {"efeito", "finalizando"}
      /\ Sabe(execucao'[p], efeitos[p])
  <2>1. CASE execucao[p].pc = "preparando" /\ Exec(p, "efeito")
    <3>1. SoExecuta(p) /\ execucao'[p].pc = "efeito" /\ execucao'[p].res = execucao[p].res
      BY <2>1, ExecMuda
    <3> QED
      BY <1>2, <2>1, <3>1 DEF Sabe
  <2>2. ASSUME NEW r \in {"failed", "uncertain", "succeeded"},
               r = "succeeded" => execucao[p].pc = "efeito" /\ execucao[p].res = "feito",
               execucao' = [execucao EXCEPT ![p].pc = "finalizando", ![p].res = r]
        PROVE  /\ SoExecuta(p) /\ execucao'[p].pc = "finalizando"
               /\ Sabe(execucao'[p], efeitos[p])
    <3>1. SoExecuta(p) /\ execucao'[p].pc = "finalizando" /\ execucao'[p].res = r
      BY <2>2 DEF Tipos, SoExecuta, ExecTipo
    <3> QED
      BY <1>2, <2>2, <3>1 DEF Sabe
  <2>3. CASE Preparar(p)
    BY <2>1, <2>2, <2>3 DEF Preparar
  <2>4. CASE Resultado(p)
    BY <2>2, <2>4 DEF Resultado
  <2> QED
    BY <2>3, <2>4
<1>4. /\ ativacao' \in [Pedidos -> Ativacoes] /\ AtivCalma
      /\ chat' \in [Pedidos -> ChatTipo] /\ ChatIgual
  BY <1>1, ParadasAtiv
<1>5. execucao[p].pc # "fora" /\ (execucao'[p].pc \in Livres <=> execucao[p].pc \in Livres)
  BY <1>1, <1>3 DEF Livres
<1> QED
  BY <1>1, <1>3, <1>4, <1>5, ParadoNeutro, PassoDaExecucao

\* The effect happens: it had not, and the execution knows it did.
LEMMA EfetuarSeguro ==
    ASSUME IInv, NEW p \in Pedidos, Efetuar(p)
    PROVE  Segue
<1> USE DEF IInv, DocInv
<1>1. /\ execucao[p].pc = "efeito" /\ execucao[p].res = ""
      /\ efeitos' = [efeitos EXCEPT ![p] = @ + 1]
      /\ execucao' = [execucao EXCEPT ![p].res = "feito"]
      /\ UNCHANGED <<docs, ativacao, clique, limpeza, chat, reservas>>
  BY DEF Efetuar
<1>2. /\ SoExecuta(p) /\ execucao'[p].pc = "efeito" /\ execucao'[p].res = "feito"
      /\ efeitos[p] = 0
  BY <1>1 DEF Tipos, ExecTipo, SoExecuta, ExecInv, Efetiva, Sabe
<1>3. /\ efeitos' \in [Pedidos -> Nat] /\ efeitos'[p] = 1
      /\ \A q \in Pedidos \ {p} : efeitos'[q] = efeitos[q]
  <2>1. efeitos \in [Pedidos -> Nat] /\ efeitos' = [efeitos EXCEPT ![p] = efeitos[p] + 1]
    BY <1>1 DEF Tipos
  <2>2. efeitos[p] + 1 = 1
    BY <1>2
  <2> QED
    BY <2>1, <2>2
<1>4. Tipos'
  BY <1>1, <1>2, <1>3 DEF Tipos, SoExecuta
<1>5. DocInv'
  BY <1>1, ParadoNeutro, DocInvNeutro
<1>6. ExecInv'
  <2>1. \A k \in Cliques : clique[k].pc = "aprovado" => clique[k].p \in Pedidos /\ clique[k].p # p
    BY <1>1 DEF Tipos, ExecInv, Exclusiva
  <2>2. docs[p].claims # 0
    BY <1>1 DEF ExecInv, Exclusiva
  <2>3. Exclusiva'
    BY <1>1, <1>2, <1>3, <2>1, <2>2 DEF ExecInv, Exclusiva, SoExecuta
  <2>4. Efetiva'
    BY <1>2, <1>3 DEF ExecInv, Efetiva, Sabe, SoExecuta
  <2> QED
    BY <2>3, <2>4 DEF ExecInv
<1>7. ResInv'
  <2>1. SemSegurar /\ SemDisputar
    BY <1>1, <1>2 DEF SemSegurar, SemDisputar, SoExecuta
  <2> QED
    BY <1>1, <2>1, ResIgual
<1>8. CartaoInv'
  BY <1>1, ParadoNeutro, NeutroSegue, CartaoFica DEF ChatIgual, SemConferir
<1>9. Efeito(p)
  <2>1. Sereno
    BY <1>1 DEF Sereno, Mesmo, DocsTipo
  <2>2. docs[p].claims # 0
    BY <1>1 DEF ExecInv, Exclusiva
  <2>3. efeitos[p] + 1 = 1
    BY <1>2
  <2> QED
    BY <1>1, <1>2, <2>1, <2>2, <2>3 DEF Efeito
<1> QED
  BY <1>4, <1>5, <1>6, <1>7, <1>8, <1>9 DEF Fiel, Segue

LEMMA FinishSeguro ==
    ASSUME IInv, NEW p \in Pedidos, Finish(p)
    PROVE  Segue
<1> USE DEF IInv, DocInv, mundo
<1>1. /\ execucao[p].pc = "finalizando"
      /\ UNCHANGED <<ativacao, clique, limpeza, chat, efeitos, reservas>>
  BY DEF Finish
<1>2. execucao[p].res \in {"failed", "uncertain", "succeeded"}
  BY <1>1 DEF ExecInv, Efetiva, Sabe
<1>3. Neutro \/ (Conclui(p) /\ efeitos[p] = 1)
  <2>1. CASE Em(p, {"executing"}) /\ Passar(p, execucao[p].res)
    <3>1. CASE execucao[p].res = "succeeded"
      <4>1. Conclui(p)
        BY <2>1, <3>1, PassarMuda DEF Conclui, Concluida, Em, Estados, TERMINAL_STATES
      <4>2. efeitos[p] = 1
        BY <1>1, <3>1 DEF ExecInv, Efetiva, Sabe
      <4> QED
        BY <4>1, <4>2
    <3>2. CASE execucao[p].res # "succeeded"
      BY <1>2, <2>1, <3>2, EncerrarMuda DEF Em, Encerrados, TERMINAL_STATES
    <3> QED
      BY <3>1, <3>2
  <2>2. CASE UNCHANGED docs
    BY <2>2, ParadoNeutro
  <2> QED
    BY <2>1, <2>2 DEF Finish, Encerrar
<1>4. PICK pc \in {"avancando", "cortando", "apagando", "falhou"} : Exec(p, pc)
  BY DEF Finish
<1>5. pc \in Posteriores /\ pc \notin Livres /\ execucao[p].pc \notin Livres /\ execucao[p].pc # "fora"
  BY <1>1 DEF Posteriores, Livres
<1>6. chat' \in [Pedidos -> ChatTipo] /\ ChatIgual
  BY <1>1, ParadasAtiv
<1> QED
  BY <1>1, <1>3, <1>4, <1>5, <1>6, PassoPosterior

LEMMA PosterioresSeguro ==
    ASSUME IInv, NEW p \in Pedidos, Advance(p) \/ ApagarCartao(p) \/ Consultar(p)
    PROVE  Segue
<1> USE DEF IInv, DocInv, mundo
<1>1. CASE Advance(p)
  <2>1. Neutro
    BY <1>1, ParadoNeutro, ActivateMuda DEF Advance
  <2>2. chat' \in [Pedidos -> ChatTipo] /\ ChatIgual
    BY <1>1, ParadasAtiv DEF Advance
  <2> QED
    BY <1>1, <2>1, <2>2, PassoPosterior DEF Advance, Posteriores, Livres
<1>2. CASE ApagarCartao(p)
  <2>1. Neutro /\ chat' \in [Pedidos -> ChatTipo] /\ ChatIgual
    BY <1>2, DeleteCardNeutro, DeleteCardChat DEF ApagarCartao
  <2> QED
    BY <1>2, <2>1, PassoPosterior DEF ApagarCartao, Posteriores, Livres
<1>3. CASE Consultar(p)
  <2>1. chat' \in [Pedidos -> ChatTipo] /\ ChatIgual
    BY <1>3, ParadasAtiv DEF Consultar
  <2> QED
    BY <1>3, <2>1, ParadoNeutro, PassoPosterior DEF Consultar, Posteriores, Livres
<1> QED
  BY <1>1, <1>2, <1>3

LEMMA TerminadaMuda ==
    ASSUME Tipos, NEW p \in Pedidos, NEW ativ, ativ \in [Pedidos -> Ativacoes], Terminada(p, ativ)
    PROVE  /\ SoExecuta(p) /\ execucao'[p].pc = "fora"
           /\ ativacao' \in [Pedidos -> Ativacoes]
           /\ \A q \in Pedidos : ativacao'[q] \in {ativ[q], "fora"}
           /\ \A q \in Pedidos : ativ[q] \in {"reclamando", "conferindo"} => ativacao'[q] = ativ[q]
<1>1. SoExecuta(p) /\ execucao'[p].pc = "fora"
  BY DEF Terminada, Parada, Tipos, SoExecuta, ExecTipo, Posteriores
<1>2. CASE ativ[p] = "executando"
  <2>1. ativacao' = [ativ EXCEPT ![p] = "fora"]
    BY <1>2 DEF Terminada
  <2> QED
    BY <1>1, <1>2, <2>1 DEF Ativacoes
<1>3. CASE ativ[p] # "executando"
  <2>1. ativacao' = [ativ EXCEPT ![p] = ativ[p]]
    BY <1>3 DEF Terminada
  <2> QED
    BY <1>1, <2>1
<1> QED
  BY <1>2, <1>3

LEMMA ScheduleTipo ==
    ASSUME Tipos, NEW ps
    PROVE  /\ Schedule(ativacao, ps) \in [Pedidos -> Ativacoes]
           /\ \A q \in Pedidos : Schedule(ativacao, ps)[q] \in {ativacao[q], "lendo"}
           /\ \A q \in Pedidos : ativacao[q] # "fora" => Schedule(ativacao, ps)[q] = ativacao[q]
  BY DEF Tipos, Schedule, Ativacoes

\* The end of an execution, with the tasks it schedules or without them.
LEMMA TerminadaCalma ==
    ASSUME Tipos, NEW p \in Pedidos, NEW ativ, ativ \in [Pedidos -> Ativacoes], Terminada(p, ativ),
           \A q \in Pedidos : ativ[q] \in {ativacao[q], "lendo"},
           \A q \in Pedidos : ativacao[q] # "fora" => ativ[q] = ativacao[q]
    PROVE  AtivCalma
<1>1. \A q \in Pedidos : ativacao'[q] \in {ativ[q], "fora"}
  BY TerminadaMuda
<1>2. \A q \in Pedidos : ativ[q] \in {"reclamando", "conferindo"} => ativacao'[q] = ativ[q]
  BY TerminadaMuda
<1> QED
  BY <1>1, <1>2 DEF AtivCalma

LEMMA AgendarSeguro ==
    ASSUME IInv, NEW p \in Pedidos, ScheduleReady(p)
    PROVE  Segue
<1> USE DEF IInv, DocInv, mundo
<1> DEFINE ativ == Schedule(ativacao, Prontos)
<1>1. /\ execucao[p].pc = "agendando" /\ Terminada(p, ativ)
      /\ UNCHANGED <<docs, clique, limpeza, chat, efeitos, reservas>>
  BY DEF ScheduleReady
<1>2. /\ ativ \in [Pedidos -> Ativacoes]
      /\ \A q \in Pedidos : ativ[q] \in {ativacao[q], "lendo"}
      /\ \A q \in Pedidos : ativacao[q] # "fora" => ativ[q] = ativacao[q]
  BY ScheduleTipo
<1> HIDE DEF ativ
<1>3. SoExecuta(p) /\ execucao'[p].pc = "fora" /\ ativacao' \in [Pedidos -> Ativacoes]
  BY <1>1, <1>2, TerminadaMuda
<1>4. AtivCalma
  BY <1>1, <1>2, TerminadaCalma
<1>5. chat' \in [Pedidos -> ChatTipo] /\ ChatIgual
  BY <1>1 DEF Tipos, ChatIgual
<1>6. Sabe(execucao'[p], efeitos[p])
  BY <1>3 DEF Sabe
<1>7. execucao[p].pc # "fora" /\ (execucao'[p].pc \in Livres <=> execucao[p].pc \in Livres)
  BY <1>1, <1>3 DEF Livres
<1> QED
  BY <1>1, <1>3, <1>4, <1>5, <1>6, <1>7, ParadoNeutro, PassoDaExecucao

\* The place is given back: by the one who held it.
LEMMA SoltarSeguro ==
    ASSUME IInv, NEW p \in Pedidos, Soltar(p)
    PROVE  Segue
<1> USE DEF IInv, DocInv, mundo
<1>1. /\ execucao[p].pc \in {"soltando", "falhou"} /\ Release(p)
      /\ UNCHANGED <<docs, clique, limpeza, chat, efeitos>>
  BY DEF Soltar
<1>2. /\ SoExecuta(p) /\ execucao'[p].pc \in {"consultando", "fora"}
      /\ ativacao' \in [Pedidos -> Ativacoes] /\ AtivCalma
  <2>1. CASE Exec(p, "consultando") /\ UNCHANGED ativacao
    BY <2>1, ExecMuda DEF Posteriores, Tipos, AtivCalma
  <2>2. CASE Terminada(p, ativacao)
    <3>1. ativacao \in [Pedidos -> Ativacoes]
      BY DEF Tipos
    <3>2. SoExecuta(p) /\ execucao'[p].pc = "fora" /\ ativacao' \in [Pedidos -> Ativacoes]
      BY <2>2, <3>1, TerminadaMuda
    <3> QED
      BY <2>2, <3>1, <3>2, TerminadaCalma
  <2> QED
    BY <2>1, <2>2 DEF Soltar
<1>3. Tipos'
  BY <1>1, <1>2 DEF Tipos, SoExecuta
<1>4. DocInv'
  BY <1>1, ParadoNeutro, DocInvNeutro
<1>5. ExecInv'
  <2>1. Sabe(execucao'[p], efeitos[p])
    BY <1>2 DEF Sabe
  <2>2. execucao[p].pc # "fora"
    BY <1>1
  <2> QED
    BY <1>1, <1>2, <2>1, <2>2, ParadoNeutro, NeutroSegue, ExecAnda
<1>6. ResInv'
  <2>1. SemSegurar
    BY <1>1 DEF SemSegurar
  <2>2. \A q \in Pedidos \ {p} : Disputa(q)' <=> Disputa(q)
    BY <1>2 DEF SoExecuta, AtivCalma, Disputa
  <2>3. Disputa(p) /\ ativacao[p] # "reclamando"
    BY <1>1 DEF Disputa, Livres, ResInv
  <2>4. ~Disputa(p)'
    BY <1>2, <2>3 DEF AtivCalma, Disputa, Livres
  <2>5. UmPapel'
    BY <1>2, <2>3 DEF SoExecuta, AtivCalma, UmPapel, ResInv, Livres
  <2> QED
    BY <1>1, <2>1, <2>2, <2>3, <2>4, <2>5, ResSai
<1>7. CartaoInv'
  BY <1>1, <1>2, ParadoNeutro, NeutroSegue, CartaoFica DEF AtivCalma, SemConferir, ChatIgual
<1> QED
  BY <1>1, <1>3, <1>4, <1>5, <1>6, <1>7, ParadoNeutro DEF Fiel, Segue

LEMMA AcoesDaExecucao ==
    ASSUME IInv, NEW p \in Pedidos, Execucao(p)
    PROVE  Segue
  BY PrepararSeguro, FinishSeguro, PosterioresSeguro, SoltarSeguro, AgendarSeguro,
     RecuperarProntos, CancelarDescendentes DEF Execucao

-----------------------------------------------------------------------------
\* The clicks.

LEMMA ClickMuda ==
    ASSUME Tipos, NEW k \in Cliques, clique[k].pc # "fora",
           NEW pc \in {"fora", "validando", "rejeitado", "reservado", "aprovado", "fim"},
           Click(k, pc)
    PROVE  /\ clique' \in [Cliques -> CliqueTipo]
           /\ \A j \in Cliques \ {k} : clique'[j] = clique[j]
           /\ clique'[k].pc = pc /\ clique'[k].p = clique[k].p /\ clique[k].p \in Pedidos
  BY DEF Tipos, Click, CliqueTipo

\* A click that ends, or waits for the descendants it cancelled.
LEMMA CliqueAnda ==
    ASSUME IInv, Neutro, UNCHANGED <<ativacao, execucao, limpeza, efeitos, reservas>>,
           chat' \in [Pedidos -> ChatTipo], ChatIgual, NEW k \in Cliques,
           clique[k].pc \in {"validando", "rejeitado"}, NEW pc \in {"rejeitado", "fim"}, Click(k, pc)
    PROVE  Segue
<1>1. /\ clique' \in [Cliques -> CliqueTipo]
      /\ \A j \in Cliques \ {k} : clique'[j] = clique[j]
      /\ clique'[k].pc = pc /\ clique'[k].p = clique[k].p /\ clique[k].p \in Pedidos
  BY ClickMuda DEF IInv
<1>2. ~Segura(k) /\ ~Segura(k)'
  BY <1>1 DEF Segura
<1> QED
  BY <1>1, <1>2, PassoDoClique

LEMMA ClicarSeguro ==
    ASSUME IInv, NEW k \in Cliques, NEW p \in Pedidos, Clicar(k, p)
    PROVE  Segue
<1> USE DEF IInv, DocInv, mundo
<1>1. /\ clique[k].pc = "fora" /\ clique' = [clique EXCEPT ![k] = [pc |-> "validando", p |-> p]]
      /\ UNCHANGED <<docs, ativacao, execucao, limpeza, chat, efeitos, reservas>>
  BY DEF Clicar
<1>2. /\ clique' \in [Cliques -> CliqueTipo]
      /\ \A j \in Cliques \ {k} : clique'[j] = clique[j]
      /\ clique'[k].pc = "validando" /\ clique'[k].p = p
  BY <1>1 DEF Tipos, CliqueTipo
<1>3. ~Segura(k) /\ ~Segura(k)'
  BY <1>1, <1>2 DEF Segura
<1>4. chat' \in [Pedidos -> ChatTipo] /\ ChatIgual
  BY <1>1, ParadasAtiv
<1> QED
  BY <1>1, <1>2, <1>3, <1>4, ParadoNeutro, PassoDoClique

LEMMA RejeitarSeguro ==
    ASSUME IInv, NEW k \in Cliques, Negar(k) \/ Reject(k) \/ ApagarRejeitado(k)
    PROVE  Segue
<1> USE DEF IInv, DocInv, mundo
<1>1. clique[k].pc \in {"validando", "rejeitado"} /\ clique[k].p \in Pedidos
  BY DEF Negar, Reject, ApagarRejeitado, Tipos
<1>2. CASE Negar(k)
  <2>1. chat' \in [Pedidos -> ChatTipo] /\ ChatIgual
    BY <1>2, ParadasAtiv DEF Negar
  <2> QED
    BY <1>1, <1>2, <2>1, ParadoNeutro, CliqueAnda DEF Negar
<1>3. CASE Reject(k)
  <2>1. Neutro
    <3>1. CASE Reclamavel(clique[k].p) /\ Encerrar(<<"clique", k>>, clique[k].p, "rejected")
      <4>1. PICK p \in Pedidos : p = clique[k].p
        BY <1>1
      <4>2. Passar(p, "rejected") /\ docs[p].state = "pending"
        BY <3>1, <4>1 DEF Encerrar, Reclamavel, Em
      <4> QED
        BY <4>2, EncerrarMuda DEF Encerrados, TERMINAL_STATES, Cancelaveis
    <3>2. CASE UNCHANGED docs
      BY <3>2, ParadoNeutro
    <3> QED
      BY <1>3, <3>1, <3>2 DEF Reject
  <2>2. chat' \in [Pedidos -> ChatTipo] /\ ChatIgual
    BY <1>3, ParadasAtiv DEF Reject
  <2>3. PICK pc \in {"rejeitado", "fim"} : Click(k, pc)
    BY <1>3 DEF Reject
  <2>4. UNCHANGED <<ativacao, execucao, limpeza, efeitos, reservas>>
    BY <1>3 DEF Reject
  <2> QED
    BY <1>1, <2>1, <2>2, <2>3, <2>4, CliqueAnda
<1>4. CASE ApagarRejeitado(k)
  <2>1. PICK p \in Pedidos : p = clique[k].p
    BY <1>1
  <2>2. DeleteCard(p) /\ Click(k, "fim") /\ UNCHANGED <<ativacao, execucao, limpeza, efeitos, reservas>>
    BY <1>4, <2>1 DEF ApagarRejeitado
  <2>3. Neutro /\ chat' \in [Pedidos -> ChatTipo] /\ ChatIgual
    BY <2>2, DeleteCardNeutro, DeleteCardChat
  <2> QED
    BY <1>1, <2>2, <2>3, CliqueAnda
<1> QED
  BY <1>2, <1>3, <1>4

\* A click reserves, before it claims.
LEMMA ReservarSeguro ==
    ASSUME IInv, NEW k \in Cliques, Reservar(k)
    PROVE  Segue
<1> USE DEF IInv, DocInv, mundo
<1>1. /\ clique[k].pc = "validando"
      /\ UNCHANGED <<docs, ativacao, execucao, limpeza, chat, efeitos>>
  BY DEF Reservar
<1>2. PICK p \in Pedidos : p = clique[k].p
  BY <1>1 DEF Tipos
<1>3. CASE Cabe(p)
  <2>1. Reserve(p) /\ Click(k, "reservado")
    BY <1>2, <1>3 DEF Reservar
  <2>2. /\ clique' \in [Cliques -> CliqueTipo]
        /\ \A j \in Cliques \ {k} : clique'[j] = clique[j]
        /\ clique'[k].pc = "reservado" /\ clique'[k].p = p
    BY <1>1, <1>2, <2>1, ClickMuda
  <2>3. Tipos'
    BY <1>1, <2>2 DEF Tipos
  <2>4. DocInv'
    BY <1>1, ParadoNeutro, DocInvNeutro
  <2>5. ExecInv'
    <3>1. SemAprovar
      BY <2>2 DEF SemAprovar
    <3> QED
      BY <1>1, <3>1, ParadoNeutro, NeutroSegue, ExecParada
  <2>6. ResInv'
    <3>1. SemDisputar /\ Segura(k)'
      BY <1>1, <2>2 DEF SemDisputar, Segura
    <3> QED
      BY <1>2, <1>3, <2>1, <2>2, <3>1, ResClica
  <2>7. CartaoInv'
    BY <1>1, ParadoNeutro, NeutroSegue, CartaoFica DEF ChatIgual, SemConferir
  <2> QED
    BY <1>1, <2>3, <2>4, <2>5, <2>6, <2>7, ParadoNeutro DEF Fiel, Segue
<1>4. CASE ~Cabe(p)
  <2>1. UNCHANGED reservas /\ Click(k, "fim")
    BY <1>2, <1>4 DEF Reservar
  <2>2. chat' \in [Pedidos -> ChatTipo] /\ ChatIgual
    BY <1>1, ParadasAtiv
  <2> QED
    BY <1>1, <2>1, <2>2, ParadoNeutro, CliqueAnda
<1> QED
  BY <1>3, <1>4

\* A click that gives back the place it held.
LEMMA CliqueDesiste ==
    ASSUME IInv, Neutro, NEW k \in Cliques, Segura(k), NEW p \in Pedidos, p = clique[k].p,
           Release(p), Click(k, "fim"), chat' \in [Pedidos -> ChatTipo], ChatIgual,
           UNCHANGED <<ativacao, execucao, limpeza, efeitos>>
    PROVE  Segue
<1> USE DEF IInv
<1>1. /\ clique' \in [Cliques -> CliqueTipo]
      /\ \A j \in Cliques \ {k} : clique'[j] = clique[j]
      /\ clique'[k].pc = "fim" /\ clique'[k].p = p
  BY ClickMuda DEF Segura
<1>2. Tipos'
  BY <1>1 DEF Tipos
<1>3. DocInv'
  BY DocInvNeutro
<1>4. ExecInv'
  <2>1. SemAprovar
    BY <1>1 DEF SemAprovar
  <2> QED
    BY <2>1, NeutroSegue, ExecParada
<1>5. ResInv'
  <2>1. SemDisputar /\ ~Segura(k)'
    BY <1>1 DEF SemDisputar, Segura
  <2> QED
    BY <1>1, <2>1, ResDesiste
<1>6. CartaoInv'
  BY NeutroSegue, CartaoFica DEF SemConferir
<1> QED
  BY <1>2, <1>3, <1>4, <1>5, <1>6 DEF Fiel, Segue

\* One click wins the claim, and only once.
LEMMA AprovarSeguro ==
    ASSUME IInv, NEW k \in Cliques, Aprovar(k)
    PROVE  Segue
<1> USE DEF IInv, DocInv, mundo
<1>1. clique[k].pc = "reservado" /\ UNCHANGED <<ativacao, execucao, limpeza, chat, efeitos>>
  BY DEF Aprovar
<1>2. PICK p \in Pedidos : p = clique[k].p
  BY <1>1 DEF Tipos
<1>3. CASE Reclamavel(p) /\ Claim(p) /\ UNCHANGED reservas /\ Click(k, "aprovado")
  <2>1. Reclama(p)
    BY <1>3, ClaimMuda
  <2>2. /\ clique' \in [Cliques -> CliqueTipo]
        /\ \A j \in Cliques \ {k} : clique'[j] = clique[j]
        /\ clique'[k].pc = "aprovado" /\ clique'[k].p = p
    BY <1>1, <1>2, <1>3, ClickMuda
  <2>3. /\ docs[p].claims = 0 /\ docs'[p].claims = 1
        /\ \A q \in Pedidos \ {p} : docs'[q].claims = docs[q].claims
    BY <2>1 DEF Contas, Reclama, Cancelaveis, SoMuda, Mesmo
  <2>4. efeitos[p] = 0 /\ execucao[p].pc = "fora"
    BY <2>3 DEF ExecInv, Exclusiva
  <2>5. \A j \in Cliques : clique[j].pc = "aprovado" => clique[j].p \in Pedidos /\ clique[j].p # p
    BY <2>3 DEF ExecInv, Exclusiva, Tipos
  <2>6. Tipos'
    BY <1>1, <2>2 DEF Tipos
  <2>7. DocInv'
    BY <2>1, DocInvAvanca
  <2>8. ExecInv'
    <3>1. \A q \in Pedidos : docs'[q].claims = 0 => efeitos[q] = 0 /\ execucao[q].pc = "fora"
      BY <2>4, <2>3 DEF ExecInv, Exclusiva
    <3>2. \A j \in Cliques : clique'[j].pc = "aprovado" =>
             /\ docs'[clique'[j].p].claims = 1 /\ efeitos[clique'[j].p] = 0
             /\ execucao[clique'[j].p].pc = "fora"
      <4>1. ASSUME NEW j \in Cliques \ {k}, clique'[j].pc = "aprovado"
            PROVE  /\ docs'[clique'[j].p].claims = 1 /\ efeitos[clique'[j].p] = 0
                   /\ execucao[clique'[j].p].pc = "fora"
        BY <2>2, <2>3, <2>5, <4>1 DEF ExecInv, Exclusiva
      <4>2. /\ docs'[clique'[k].p].claims = 1 /\ efeitos[clique'[k].p] = 0
            /\ execucao[clique'[k].p].pc = "fora"
        BY <2>2, <2>3, <2>4
      <4> QED
        BY <4>1, <4>2
    <3>3. \A i, j \in Cliques : clique'[i].pc = "aprovado" /\ clique'[j].pc = "aprovado"
                                /\ clique'[i].p = clique'[j].p => i = j
      BY <2>2, <2>5 DEF ExecInv, Exclusiva
    <3>4. Exclusiva'
      BY <1>1, <3>1, <3>2, <3>3 DEF Exclusiva
    <3>5. Efetiva'
      BY <1>1 DEF ExecInv, Efetiva
    <3> QED
      BY <3>4, <3>5 DEF ExecInv
  <2>9. ResInv'
    <3>1. SemDisputar
      BY <1>1 DEF SemDisputar
    <3>2. Ocupados(Dono(p)) = {k} /\ Dono(p) \in reservas
      BY <1>1, <1>2, DonoMembro, Unico DEF Ocupados
    <3>3. /\ \A m \in Membros \ {Dono(p)} : Ocupados(m)' = Ocupados(m)
          /\ \A x : x # k => (x \in Ocupados(Dono(p))' <=> x \in Ocupados(Dono(p)))
          /\ k \in Ocupados(Dono(p))'
      BY <1>2, <2>2, <3>1, CliqueMuda DEF Segura
    <3>4. Ocupados(Dono(p))' = {k}
      BY <3>2, <3>3
    <3>5. UmPapel'
      BY <3>1, UmPapelDe
    <3> QED
      BY <1>3, <3>2, <3>3, <3>4, <3>5, DonoMembro, ResMuda
  <2>10. CartaoInv'
    BY <1>1, <2>1, ReclamaSegue, CartaoFica DEF ChatIgual, SemConferir
  <2> QED
    BY <1>1, <2>1, <2>6, <2>7, <2>8, <2>9, <2>10 DEF Fiel, Segue
<1>4. CASE UNCHANGED docs /\ Release(p) /\ Click(k, "fim")
  <2>1. chat' \in [Pedidos -> ChatTipo] /\ ChatIgual
    BY <1>1, ParadasAtiv
  <2> QED
    BY <1>1, <1>2, <1>4, <2>1, ParadoNeutro, CliqueDesiste DEF Segura
<1> QED
  BY <1>2, <1>3, <1>4 DEF Aprovar

\* The click that claimed is the only one that executes, and only once.
LEMMA ExecutarSeguro ==
    ASSUME IInv, NEW k \in Cliques, Executar(k)
    PROVE  Segue
<1> USE DEF IInv, DocInv, mundo
<1>1. /\ clique[k].pc = "aprovado" /\ Click(k, "fim")
      /\ UNCHANGED <<ativacao, limpeza, efeitos>>
  BY DEF Executar
<1>2. PICK p \in Pedidos : p = clique[k].p
  BY <1>1 DEF Tipos
<1>3. DeleteCard(p)
  BY <1>2 DEF Executar
<1>4. Neutro /\ chat' \in [Pedidos -> ChatTipo] /\ ChatIgual
  BY <1>3, DeleteCardNeutro, DeleteCardChat
<1>5. CASE Iniciada(p, docs[p].claims) /\ UNCHANGED reservas
  <2>1. /\ clique' \in [Cliques -> CliqueTipo]
        /\ \A j \in Cliques \ {k} : clique'[j] = clique[j]
        /\ clique'[k].pc = "fim" /\ clique'[k].p = p
    BY <1>1, <1>2, ClickMuda
  <2>2. docs[p].claims = 1 /\ efeitos[p] = 0 /\ execucao[p].pc = "fora"
    BY <1>1, <1>2 DEF ExecInv, Exclusiva
  <2>3. /\ execucao' \in [Pedidos -> ExecTipo]
        /\ \A q \in Pedidos \ {p} : execucao'[q] = execucao[q]
        /\ execucao'[p].pc = "preparando" /\ execucao'[p].res = ""
    <3>1. docs[p].claims \in Nat
      BY <2>2
    <3> QED
      BY <1>5, <3>1 DEF Iniciada, Tipos, ExecTipo
  <2>4. Tipos'
    BY <1>1, <1>4, <2>1, <2>3 DEF Tipos
  <2>5. DocInv'
    BY <1>4, DocInvNeutro
  <2>6. ExecInv'
    <3>1. \A q \in Pedidos : docs'[q].claims = docs[q].claims
      BY <1>4, NeutroSegue DEF ClaimsIguais
    <3>2. \A j \in Cliques : clique'[j].pc = "aprovado" =>
             clique'[j] = clique[j] /\ clique[j].p \in Pedidos /\ clique[j].p # p
      BY <1>1, <1>2, <2>1 DEF ExecInv, Exclusiva, Tipos
    <3>3. \A q \in Pedidos : docs[q].claims = 0 => q # p /\ efeitos[q] = 0 /\ execucao[q].pc = "fora"
      BY <2>2 DEF ExecInv, Exclusiva
    <3>4. \A q \in Pedidos : docs'[q].claims = 0 => efeitos'[q] = 0 /\ execucao'[q].pc = "fora"
      BY <1>1, <2>3, <3>1, <3>3
    <3>5. \A j \in Cliques : clique'[j].pc = "aprovado" =>
             /\ docs'[clique'[j].p].claims = 1 /\ efeitos'[clique'[j].p] = 0
             /\ execucao'[clique'[j].p].pc = "fora"
      <4> SUFFICES ASSUME NEW j \in Cliques, clique'[j].pc = "aprovado",
                          NEW q, q = clique'[j].p
                   PROVE  docs'[q].claims = 1 /\ efeitos'[q] = 0 /\ execucao'[q].pc = "fora"
        OBVIOUS
      <4>1. clique[j].pc = "aprovado" /\ q = clique[j].p /\ q \in Pedidos /\ q # p
        BY <3>2
      <4>2. docs[q].claims = 1 /\ efeitos[q] = 0 /\ execucao[q].pc = "fora"
        BY <4>1 DEF ExecInv, Exclusiva
      <4> QED
        BY <1>1, <2>3, <3>1, <4>1, <4>2
    <3>6. Exclusiva'
      BY <3>2, <3>4, <3>5 DEF ExecInv, Exclusiva
    <3>7. Efetiva'
      BY <1>1, <2>2, <2>3 DEF ExecInv, Efetiva, Sabe
    <3> QED
      BY <3>6, <3>7 DEF ExecInv
  <2>7. ResInv'
    BY <1>1, <1>2, <1>5, <2>1, <2>3, ResPassa DEF Segura
  <2>8. CartaoInv'
    BY <1>1, <1>4, NeutroSegue, CartaoFica DEF SemConferir
  <2> QED
    BY <1>1, <1>4, <2>4, <2>5, <2>6, <2>7, <2>8 DEF Fiel, Segue
<1>6. CASE Release(p) /\ UNCHANGED execucao
  BY <1>1, <1>2, <1>4, <1>6, CliqueDesiste DEF Segura
<1> QED
  BY <1>2, <1>5, <1>6 DEF Executar

LEMMA AcoesDoClique ==
    ASSUME IInv, NEW k \in Cliques, Decisao(k) \/ \E p \in Pedidos : Clicar(k, p)
    PROVE  Segue
  BY RejeitarSeguro, ReservarSeguro, AprovarSeguro, ExecutarSeguro, ClicarSeguro,
     CancelarDescendentes DEF Decisao

-----------------------------------------------------------------------------
\* The cleanup, the member, time and the crash.

LEMMA VarrerSeguro ==
    ASSUME IInv, Varrer
    PROVE  Segue
<1> USE DEF IInv, DocInv, mundo
<1>1. limpeza \in {"expirar", "parciais", "executando", "publicando"}
  BY DEF Varrer, EstadoFinal
<1>2. Neutro
  <2>1. CASE UNCHANGED docs
    BY <2>1, ParadoNeutro
  <2>2. ASSUME NEW p, Passar(p, EstadoFinal[limpeza]),
               p \in Consulta(limpeza) \/ (limpeza = "parciais" /\ Em(p, {"blocked"}))
        PROVE  Neutro
    <3>1. CASE limpeza = "expirar"
      <4>1. Passar(p, "expired") /\ Em(p, {"created", "publishing", "pending"})
        BY <2>2, <3>1 DEF EstadoFinal, Consulta, Vencidos
      <4> QED
        BY <4>1, EncerrarMuda DEF Em, Encerrados, TERMINAL_STATES, Cancelaveis
    <3>2. CASE limpeza = "parciais"
      <4>1. Passar(p, "expired") /\ Em(p, {"blocked"})
        BY <2>2, <3>2 DEF EstadoFinal, Consulta, Parciais
      <4> QED
        BY <4>1, EncerrarMuda DEF Em, Encerrados, TERMINAL_STATES, Cancelaveis
    <3>3. CASE limpeza = "executando"
      <4>1. Passar(p, "uncertain") /\ Em(p, {"executing"})
        BY <2>2, <3>3 DEF EstadoFinal, Consulta, Executando
      <4> QED
        BY <4>1, EncerrarMuda DEF Em, Encerrados, TERMINAL_STATES
    <3>4. CASE limpeza = "publicando"
      <4>1. Passar(p, "uncertain") /\ Em(p, {"publishing"})
        BY <2>2, <3>4 DEF EstadoFinal, Consulta, Publicando
      <4> QED
        BY <4>1, EncerrarMuda DEF Em, Encerrados, TERMINAL_STATES, Cancelaveis
    <3> QED
      BY <1>1, <3>1, <3>2, <3>3, <3>4
  <2> QED
    BY <2>1, <2>2 DEF Varrer, Encerrar
<1> QED
  BY <1>2, PassoDosDocumentos DEF Varrer

LEMMA AcoesDaLimpeza ==
    ASSUME IInv, Cleanup
    PROVE  Segue
<1> USE DEF IInv, DocInv, mundo
<1>1. CASE ProximaFase
  <2>1. limpeza' \in Fases
    BY <1>1 DEF ProximaFase, Tipos, Fases, Depois
  <2>2. Tipos'
    BY <1>1, <2>1 DEF ProximaFase, Tipos
  <2>3. SemSegurar /\ AtivCalma /\ ChatIgual
    BY <1>1 DEF ProximaFase, SemSegurar, AtivCalma, ChatIgual
  <2> QED
    BY <1>1, <2>2, <2>3, ParadoNeutro, PassoCalmo DEF ProximaFase
<1>2. CASE Agendar
  <2>1. ativacao' \in [Pedidos -> Ativacoes] /\ AtivCalma
    BY <1>2, ScheduleTipo DEF Agendar, AtivCalma
  <2>2. Tipos'
    BY <1>2, <2>1 DEF Agendar, Tipos, Fases
  <2>3. SemSegurar /\ ChatIgual
    BY <1>2 DEF Agendar, SemSegurar, ChatIgual
  <2> QED
    BY <1>2, <2>1, <2>2, <2>3, ParadoNeutro, PassoCalmo DEF Agendar
<1>3. CASE VarrerCartao
  <2>1. PICK p : p \in lote[Limpeza] /\ DeleteCard(p)
    BY <1>3 DEF VarrerCartao
  <2>2. CASE p \in Pedidos
    <3>1. Neutro /\ chat' \in [Pedidos -> ChatTipo] /\ ChatIgual
      BY <2>1, <2>2, DeleteCardNeutro, DeleteCardChat
    <3>2. ativacao' \in [Pedidos -> Ativacoes] /\ AtivCalma
      BY <1>3 DEF VarrerCartao, Tipos, AtivCalma
    <3> QED
      BY <1>3, <3>1, <3>2, PassoDaAtivacao DEF VarrerCartao
  <2>3. CASE p \notin Pedidos
    <3>1. docs' = docs
      BY <2>1, <2>3 DEF DeleteCard, DocsTipo
    <3>2. chat' = chat
      BY <2>1, <2>3 DEF DeleteCard, Tipos
    <3> QED
      BY <1>3, <3>1, <3>2, ParadoNeutro, PassoDosDocumentos DEF VarrerCartao
  <2> QED
    BY <2>2, <2>3
<1>4. CASE limpeza = "prontos" /\ RecoverReady(Limpeza)
  BY <1>4, RecuperarProntos
<1>5. CASE CancelDescendants(Limpeza)
  BY <1>5, CancelarDescendentes
<1> QED
  BY <1>1, <1>2, <1>3, <1>4, <1>5, VarrerSeguro DEF Cleanup

LEMMA AcoesDoMundo ==
    ASSUME IInv, NEW p \in Pedidos, CancelOwnPending(p) \/ Passa(p)
    PROVE  Segue
<1> USE DEF IInv, DocInv, mundo, tarefas
<1>1. CASE CancelOwnPending(p)
  <2>1. Passar(p, "cancelled") /\ docs[p].state \in Cancelaveis
    BY <1>1 DEF CancelOwnPending, Encerrar, Em
  <2>2. Neutro
    BY <2>1, EncerrarMuda DEF Encerrados, TERMINAL_STATES
  <2> QED
    BY <1>1, <2>2, PassoDosDocumentos DEF CancelOwnPending
<1>2. CASE Passa(p)
  <2>1. docs' = [docs EXCEPT ![p].vencido = TRUE] \/ docs' = [docs EXCEPT ![p].velho = TRUE]
    BY <1>2 DEF Passa, Vencer, Envelhecer
  <2>2. Neutro
    <3>1. CASE docs' = [docs EXCEPT ![p].vencido = TRUE]
      BY <3>1 DEF DocsTipo, DocTipo, Neutro, Sereno, Mesmo
    <3>2. CASE docs' = [docs EXCEPT ![p].velho = TRUE]
      BY <3>2 DEF DocsTipo, DocTipo, Neutro, Sereno, Mesmo
    <3> QED
      BY <2>1, <3>1, <3>2
  <2> QED
    BY <1>2, <2>2, PassoDosDocumentos DEF Passa
<1> QED
  BY <1>1, <1>2

\* A crash forgets who acts and who is reserved, at once; a claim without an
\* execution stays without one.
LEMMA CairSeguro ==
    ASSUME IInv, Cair
    PROVE  Segue
<1> USE DEF IInv, DocInv
<1>1. /\ reservas' = {} /\ UNCHANGED <<docs, chat, efeitos>>
      /\ ativacao' = [p \in Pedidos |-> "fora"]
      /\ execucao' = [p \in Pedidos |-> Parada]
      /\ clique' = [k \in Cliques |-> IF clique[k].pc = "fora" THEN clique[k]
                                      ELSE [clique[k] EXCEPT !.pc = "fim"]]
      /\ limpeza' = "inicio"
  BY DEF Cair
<1>2. \A k \in Cliques : /\ clique'[k] \in CliqueTipo /\ clique'[k].pc \in {"fora", "fim"}
                         /\ clique'[k].pc # "fora" => clique'[k].p \in Pedidos
  <2> SUFFICES ASSUME NEW k \in Cliques
               PROVE  /\ clique'[k] \in CliqueTipo /\ clique'[k].pc \in {"fora", "fim"}
                      /\ clique'[k].pc # "fora" => clique'[k].p \in Pedidos
    OBVIOUS
  <2>1. CASE clique[k].pc = "fora"
    BY <1>1, <2>1 DEF Tipos
  <2>2. CASE clique[k].pc # "fora"
    BY <1>1, <2>2 DEF Tipos, CliqueTipo
  <2> QED
    BY <2>1, <2>2
<1>3. Tipos'
  <2>1. ativacao' \in [Pedidos -> Ativacoes] /\ execucao' \in [Pedidos -> ExecTipo]
    BY <1>1 DEF Parada, Ativacoes, ExecTipo, Posteriores
  <2>2. clique' \in [Cliques -> CliqueTipo]
    BY <1>1, <1>2
  <2> QED
    BY <1>1, <1>2, <2>1, <2>2 DEF Tipos, Fases
<1>4. DocInv'
  BY <1>1, ParadoNeutro, DocInvNeutro
<1>5. ExecInv'
  <2>1. \A p \in Pedidos : execucao'[p].pc = "fora"
    BY <1>1 DEF Parada
  <2>2. Exclusiva'
    BY <1>1, <1>2, <2>1 DEF ExecInv, Exclusiva
  <2>3. Efetiva'
    BY <2>1 DEF Efetiva, Sabe
  <2> QED
    BY <2>2, <2>3 DEF ExecInv
<1>6. ResInv'
  <2>1. IsFiniteSet(reservas') /\ Cardinality(reservas') = 0
    BY <1>1, FS_EmptySet
  <2>2. \A m \in Membros' : Ocupados(m)' = {}
    BY <1>1, <1>2 DEF Ocupados, Parada
  <2>3. \A p \in Pedidos : ativacao'[p] # "reclamando"
    BY <1>1
  <2> QED
    BY <1>1, <2>1, <2>2, <2>3, ServicoAssumption DEF ResInv
<1>7. CartaoInv'
  BY <1>1 DEF CartaoInv
<1> QED
  BY <1>1, <1>3, <1>4, <1>5, <1>6, <1>7, ParadoNeutro DEF Fiel, Segue

-----------------------------------------------------------------------------
\* The invariant, and the properties that follow.

LEMMA InvInicial == Init => IInv
<1> SUFFICES ASSUME Init PROVE IInv
  OBVIOUS
<1> USE DEF Init
<1>1. Tipos
  BY DEF Tipos, Ativacoes, ExecTipo, Posteriores, Parada, CliqueTipo, ChatTipo, Fases
<1>2. DocInv
  <2>1. \A p \in Pedidos : docs[p].state = "ausente" /\ docs[p].claims = 0
    BY DEF Ausente
  <2>2. DocsTipo
    BY DEF DocsTipo, DocTipo, Ausente, Estados
  <2> QED
    BY <2>1, <2>2 DEF DocInv, PlanoInteiro, Em, Precedidas, Contas
<1>3. ExecInv
  BY DEF ExecInv, Exclusiva, Efetiva, Sabe, Parada
<1>4. ResInv
  <2>1. IsFiniteSet(reservas) /\ Cardinality(reservas) = 0
    BY FS_EmptySet
  <2>2. \A m \in Membros : Ocupados(m) = {}
    BY DEF Ocupados, Parada
  <2> QED
    BY <2>1, <2>2, ServicoAssumption DEF ResInv
<1>5. CartaoInv
  BY DEF CartaoInv
<1> QED
  BY <1>1, <1>2, <1>3, <1>4, <1>5 DEF IInv

LEMMA InvPasso ==
    ASSUME IInv, [Next]_vars
    PROVE  Segue
<1>1. CASE UNCHANGED vars
  BY <1>1, ParadoNeutro, PassoDosDocumentos DEF vars, tarefas, mundo, IInv, DocInv
<1>2. CASE Next
  BY <1>2, AcoesDaCriacao, AcoesDaAtivacao, AcoesDaExecucao, EfetuarSeguro, AcoesDoMundo,
     AcoesDoClique, AcoesDaLimpeza, CancelarDescendentes, CairSeguro DEF Next
<1> QED
  BY <1>1, <1>2

LEMMA Invariante == Spec => []IInv
<1>1. IInv /\ [Next]_vars => IInv'
  BY InvPasso DEF Segue
<1> QED
  BY <1>1, InvInicial, PTL DEF Spec

\* A plan interrupted while its turn stored it never offers a step (create_plan,
\* bind_and_start, _complete_plan): whatever is written or read in between.
THEOREM PlanosInteiros == Spec => []PlanoInteiro
<1>1. IInv => PlanoInteiro
  BY DEF IInv, DocInv
<1> QED
  BY <1>1, Invariante, PTL

\* However often a request is recovered, one card at most is sent for it: the
\* publication is claimed once (claim_publication), and only then it is sent.
THEOREM UmCartaoSempre == Spec => []UmCartao
<1>1. IInv => UmCartao
  BY DEF IInv, CartaoInv, UmCartao
<1> QED
  BY <1>1, Invariante, PTL

\* _active_users is exact for any number of members, clicks and crashes: a
\* reserved member has one task that acts for it, every other member none, and
\* the limit of concurrent actions is kept.
THEOREM ReservasExatas == Spec => []ReservaExata
<1>1. IInv => TypeOK
  <2> SUFFICES ASSUME IInv PROVE TypeOK
    OBVIOUS
  <2> USE DEF IInv
  <2>1. reservas \subseteq {Membro[a] : a \in Planos} /\ Cardinality(reservas) <= MaxAcoes
    BY DEF ResInv, Membros
  <2>2. ASSUME NEW p \in Pedidos
        PROVE  /\ Em(p, TERMINAL_STATES \cup Cancelaveis \cup {"ausente", "executing"})
               /\ docs[p].claims \in Nat /\ efeitos[p] \in Nat
               /\ ativacao[p] \in Ativacoes
               /\ execucao[p].pc \in {"preparando", "efeito", "finalizando"} \cup Posteriores
    <3>1. docs[p] \in DocTipo
      BY DEF DocInv, DocsTipo
    <3>2. execucao[p] \in ExecTipo
      BY DEF Tipos
    <3> QED
      BY <3>1, <3>2 DEF DocTipo, Estados, Em, ExecTipo, Tipos
  <2>3. \A k \in Cliques : clique[k].p \in Pedidos \cup {<<>>}
    BY DEF Tipos, CliqueTipo
  <2>4. limpeza \in DOMAIN Depois
    BY DEF Tipos, Fases, Depois
  <2> QED
    BY <2>1, <2>2, <2>3, <2>4 DEF TypeOK, Ativacoes, Posteriores
<1>2. IInv => ReservaExata
  <2> SUFFICES ASSUME IInv, NEW a \in Planos
               PROVE  Cardinality(Ocupados(Membro[a])) = IF Membro[a] \in reservas THEN 1 ELSE 0
    BY <1>1 DEF ReservaExata
  <2>1. Membro[a] \in Membros
    BY DEF Membros
  <2>2. CASE Membro[a] \in reservas
    <3>1. PICK x : Ocupados(Membro[a]) = {x}
      BY <2>2 DEF IInv, ResInv
    <3> QED
      BY <2>2, <3>1, FS_Singleton
  <2>3. CASE Membro[a] \notin reservas
    <3>1. Ocupados(Membro[a]) = {}
      BY <2>1, <2>3 DEF IInv, ResInv
    <3> QED
      BY <2>3, <3>1, FS_EmptySet
  <2> QED
    BY <2>2, <2>3
<1> QED
  BY <1>2, Invariante, PTL

-----------------------------------------------------------------------------
\* The refinement: what a step is to the plan.

\* The phase is a matter of the state alone.
FaseDe(s) ==
    IF s = "executing" THEN "executando"
    ELSE IF s = "succeeded" THEN "sucesso"
    ELSE IF s \in Encerrados THEN "encerrado" ELSE "aberto"

LEMMA FaseDoEstado == \A p \in Pedidos : Fase(p) = FaseDe(docs[p].state)
  BY DEF Fase, FaseDe, Em, Encerrados, TERMINAL_STATES

LEMMA FaseDoEstadoDepois == \A p \in Pedidos : Fase(p)' = FaseDe(docs'[p].state)
  BY DEF Fase, FaseDe, Em, Encerrados, TERMINAL_STATES

\* The mapped variables, before and after.
Fases0 == [p \in Pedidos |-> Fase(p)]
Iniciadas0 == [p \in Pedidos |-> docs[p].claims > 0]

LEMMA Parado ==
    ASSUME \A p \in Pedidos : Mesmo(p)
    PROVE  Fases0' = Fases0 /\ Iniciadas0' = Iniciadas0
<1>1. \A p \in Pedidos : Fase(p)' = Fase(p)
  BY FaseDoEstado, FaseDoEstadoDepois DEF Mesmo
<1>2. Fases0' = Fases0
  BY <1>1 DEF Fases0
<1>3. Iniciadas0' = Iniciadas0
  BY DEF Iniciadas0, Mesmo
<1> QED
  BY <1>2, <1>3

\* One request moves: its phase and its claims, and no other's.
LEMMA Move ==
    ASSUME NEW p \in Pedidos, SoMuda(p)
    PROVE  /\ Fases0' = [Fases0 EXCEPT ![p] = FaseDe(docs'[p].state)]
           /\ Iniciadas0' = [Iniciadas0 EXCEPT ![p] = (docs'[p].claims > 0)]
<1>1. \A q \in Pedidos \ {p} : Fase(q)' = Fase(q)
  BY FaseDoEstado, FaseDoEstadoDepois DEF SoMuda, Mesmo
<1>2. Fase(p)' = FaseDe(docs'[p].state)
  BY FaseDoEstadoDepois
<1>3. Fases0' = [Fases0 EXCEPT ![p] = FaseDe(docs'[p].state)]
  BY <1>1, <1>2 DEF Fases0
<1>4. Iniciadas0' = [Iniciadas0 EXCEPT ![p] = (docs'[p].claims > 0)]
  BY DEF Iniciadas0, SoMuda, Mesmo
<1> QED
  BY <1>3, <1>4

LEMMA PassoDoPlano ==
    ASSUME IInv, [Next]_vars
    PROVE  [Plano!Next]_(Plano!vars)
<1> USE DEF IInv, DocInv
<1>0. Fiel
  BY InvPasso DEF Segue
<1>1. ASSUME Sereno, UNCHANGED efeitos PROVE UNCHANGED <<Fases0, Iniciadas0, efeitos>>
  BY <1>1, Parado DEF Sereno
<1>2. ASSUME NEW p \in Pedidos, Avanca(p), UNCHANGED efeitos
      PROVE  Plano!Encerrar(p) \/ UNCHANGED <<Fases0, Iniciadas0, efeitos>>
  <2> USE DEF Cancelaveis, TERMINAL_STATES, Encerrados
  <2>1. /\ Fases0' = [Fases0 EXCEPT ![p] = FaseDe(docs'[p].state)]
        /\ Iniciadas0' = [Iniciadas0 EXCEPT ![p] = (docs'[p].claims > 0)]
    BY <1>2, Move DEF Avanca
  <2>2. Fases0[p] = FaseDe(docs[p].state) /\ Iniciadas0[p] = (docs[p].claims > 0)
    BY FaseDoEstado DEF Fases0, Iniciadas0
  <2>3. Iniciadas0' = Iniciadas0
    BY <1>2, <2>1, <2>2 DEF Avanca, Iniciadas0
  <2>4. CASE Encerrada(p)
    <3>1. Fases0[p] \in {"aberto", "executando"} /\ FaseDe(docs'[p].state) = "encerrado"
      BY <2>2, <2>4 DEF Encerrada, FaseDe
    <3> QED
      BY <1>2, <2>1, <2>3, <3>1 DEF Plano!Encerrar, Fases0, Iniciadas0
  <2>5. CASE Inserida(p) \/ Ativada(p) \/ Oferecida(p)
    <3>1. FaseDe(docs[p].state) = "aberto" /\ FaseDe(docs'[p].state) = "aberto"
      BY <2>5 DEF Inserida, Ativada, Ativavel, Em, Oferecida, FaseDe
    <3>2. Fases0' = Fases0
      BY <2>1, <2>2, <3>1 DEF Fases0
    <3> QED
      BY <1>2, <2>3, <3>2
  <2> QED
    BY <1>2, <2>4, <2>5 DEF Avanca
<1>3. ASSUME NEW p \in Pedidos, Reclama(p), UNCHANGED efeitos PROVE Plano!Iniciar(p)
  <2>1. /\ Fases0' = [Fases0 EXCEPT ![p] = FaseDe(docs'[p].state)]
        /\ Iniciadas0' = [Iniciadas0 EXCEPT ![p] = (docs'[p].claims > 0)]
    BY <1>3, Move DEF Reclama
  <2>2. FaseDe(docs[p].state) = "aberto" /\ FaseDe(docs'[p].state) = "executando"
    BY <1>3 DEF Reclama, FaseDe, Encerrados, TERMINAL_STATES
  <2>3. docs'[p].claims > 0
    BY <1>3 DEF Reclama, Contas, Cancelaveis
  <2>4. \A q \in Anteriores[p] : Fases0[q] = "sucesso"
    BY <1>3, AnterioresTipo, FaseDoEstado DEF Reclama, Precedidas, Fases0, FaseDe
  <2>5. Fases0[p] = "aberto"
    BY <2>2, FaseDoEstado DEF Fases0
  <2> QED
    BY <1>3, <2>1, <2>2, <2>3, <2>4, <2>5 DEF Plano!Iniciar, Fases0, Iniciadas0
<1>4. ASSUME NEW p \in Pedidos, Conclui(p), efeitos[p] = 1, UNCHANGED efeitos PROVE Plano!Concluir(p)
  <2>1. /\ Fases0' = [Fases0 EXCEPT ![p] = FaseDe(docs'[p].state)]
        /\ Iniciadas0' = [Iniciadas0 EXCEPT ![p] = (docs'[p].claims > 0)]
    BY <1>4, Move DEF Conclui
  <2>2. FaseDe(docs[p].state) = "executando" /\ FaseDe(docs'[p].state) = "sucesso"
    BY <1>4 DEF Conclui, Concluida, FaseDe
  <2>3. Iniciadas0' = Iniciadas0
    BY <1>4, <2>1 DEF Conclui, Iniciadas0
  <2>4. Fases0[p] = "executando"
    BY <2>2, FaseDoEstado DEF Fases0
  <2> QED
    BY <1>4, <2>1, <2>2, <2>3, <2>4 DEF Plano!Concluir, Fases0, Iniciadas0
<1>5. ASSUME NEW p \in Pedidos, Efeito(p) PROVE Plano!Efetuar(p)
  <2>1. Fases0' = Fases0 /\ Iniciadas0' = Iniciadas0
    BY <1>5, Parado DEF Efeito, Sereno
  <2>2. Iniciadas0[p]
    <3>1. docs[p].claims = 1
      BY <1>5 DEF Efeito, Contas
    <3>2. docs[p].claims > 0
      BY <3>1
    <3> QED
      BY <3>2 DEF Iniciadas0
  <2> QED
    BY <1>5, <2>1, <2>2 DEF Plano!Efetuar, Fases0, Iniciadas0, Efeito
<1>6. CASE UNCHANGED <<Fases0, Iniciadas0, efeitos>>
  BY <1>6 DEF Plano!vars, Fases0, Iniciadas0
<1>7. CASE \E p \in Pedidos : Plano!Iniciar(p) \/ Plano!Efetuar(p) \/ Plano!Concluir(p) \/ Plano!Encerrar(p)
  BY <1>7 DEF Plano!Next
<1> QED
  BY <1>0, <1>1, <1>2, <1>3, <1>4, <1>5, <1>6, <1>7 DEF Fiel, Neutro

\* The chatbot keeps what it promises of a plan, for any plans and crashes: a
\* step starts once and after its predecessor succeeded (claim, claim_automatic,
\* _advance), its effect happens once at most, success is reported of effects
\* that happened (finish), and what is decided stays decided.
THEOREM RefinaPlano == Spec => EPlano
<1>1. Init => Plano!Init
  <2> SUFFICES ASSUME Init PROVE Plano!Init
    OBVIOUS
  <2>1. \A p \in Pedidos : Fase(p) = "aberto"
    BY FaseDoEstado DEF Init, Ausente, FaseDe, Encerrados, TERMINAL_STATES
  <2>2. \A p \in Pedidos : (docs[p].claims > 0) = FALSE
    BY DEF Init, Ausente
  <2> QED
    BY <2>1, <2>2 DEF Plano!Init, Init
<1>2. IInv /\ [Next]_vars => [Plano!Next]_(Plano!vars)
  BY PassoDoPlano
<1> QED
  BY <1>1, <1>2, Invariante, PTL DEF Spec, EPlano, Plano!Spec
=============================================================================
