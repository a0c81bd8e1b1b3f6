------------------------------ MODULE Updater ------------------------------
(* The transactional updater of src/updater/core: a oneshot shell program    *)
(* started by a systemd path unit and a timer, one execution at a time (the  *)
(* flock of atualizar.sh).  It takes ZIP candidates from a durable queue,    *)
(* promotes one as a commit on the live checkout, restarts the bot, pushes   *)
(* to GitHub and archives the candidate; with no candidate to take it looks  *)
(* for new commits on GitHub.  The card of a delivery has a button that asks *)
(* for its reversal, served before the queue.  An execution may be killed at *)
(* any step: only the files of the queue and the checkout survive it.        *)
(*                                                                           *)
(* A commit is named by the history that ends in it; an ancestor is a prefix.*)
(* The commit of candidate c is c, or c + N when GitHub had one already as   *)
(* it was made; the reversal of the k-th request is 2N + k, and what it      *)
(* reverts is the commit right below it.                                     *)
EXTENDS Naturals, Sequences, FiniteSets, SequencesExt

CONSTANTS N,            \* candidates, numbered in the order of the queue
          Externos,     \* commits that other people push to GitHub
          PorConfirmar, \* candidates that wait for a human confirmation
          SemPatch,     \* candidates without patch.diff (plain copies)
          MaxRetomadas, \* DISCORD_AUTO_UPDATE_MAX_RESUMES
          MaxPedidos,   \* bound: reversals asked for
          MaxQuedas     \* bound: executions killed in the middle

ASSUME UpdaterAssumption ==
    /\ {N, MaxRetomadas, MaxPedidos, MaxQuedas} \subseteq Nat
    /\ PorConfirmar \subseteq 1..N /\ SemPatch \subseteq 1..N
    /\ Externos \cap 1..(2 * N + MaxPedidos) = {}   \* of other people: none is ours

Candidatos == 1..N
Reversoes == (2 * N + 1)..(2 * N + MaxPedidos)
Commits == (1..(2 * N)) \cup Reversoes \cup Externos

VARIABLES fila,       \* the queue directory each candidate's file is in
          retomadas,  \* resume_count of the file
          base,       \* base_commit of the manifest
          espera,     \* candidates still waiting for confirmation
          live,       \* HEAD of the live checkout
          origin,     \* the branch on GitHub
          visto,      \* origin/<branch>, the tracking ref of the checkout
          rejeitados, \* commits of GitHub that failed here
          sujo,       \* the checkout has changes that no commit holds
          marcado,    \* FAILED_REMOTE_COMMIT of the dirty marker, if any
          cartao,     \* the delivery whose card has the reversal button
          pedido,     \* the request for a reversal and the delivery it is for
          pedidos,    \* reversals asked for so far
          ex,         \* the running execution
          boas,       \* history: versions whose deploy passed its checks
          quedas      \* executions killed so far
manifestos == <<base, espera>>
reversao == <<marcado, cartao, pedido, pedidos>>
contas == <<boas, quedas>>
vars == <<fila, retomadas, manifestos, rejeitados, live, sujo, origin, visto,
          reversao, ex, contas>>

Historias == Seq(Commits)
De(c) == {c, c + N}
Tem(h, c) == \E i \in DOMAIN h : h[i] \in De(c)
Topo(h, c) == h # <<>> /\ Last(h) \in De(c)

(* The commit at i is undone by the reversals right above it, odd in number. *)
Revertido(h, i) ==
    Cardinality({j \in DOMAIN h : j > i /\ \A k \in (i + 1)..j : h[k] \in Reversoes}) % 2 = 1
Presente(h, c) == \E i \in DOMAIN h : h[i] \in De(c) /\ ~ Revertido(h, i)

-----------------------------------------------------------------------------
(* The shell variables of an execution: what it took, a candidate, a request *)
(* or a commit of GitHub, the candidate c, remoto REMOTE_COMMIT, anterior    *)
(* PREVIOUS_COMMIT, aplicado UPDATE_APPLIED, entregue DEPLOYMENT_COMMITTED.  *)
Parado == [pc |-> "parado", modo |-> "github", c |-> 0, remoto |-> <<>>,
           anterior |-> <<>>, aplicado |-> FALSE, entregue |-> FALSE]
Local == ex.modo = "candidato"
Reversao == ex.modo = "pedido"
Vai(pc) == ex' = [ex EXCEPT !.pc = pc]

SemPedido == [estado |-> "nenhum", alvo |-> <<>>]

Init ==
    /\ fila = [c \in Candidatos |-> "nova"]
    /\ retomadas = [c \in Candidatos |-> 0]
    /\ base = [c \in Candidatos |-> <<>>]
    /\ espera = {} /\ rejeitados = {} /\ marcado = {} /\ boas = {}
    /\ live = <<>> /\ origin = <<>> /\ visto = <<>> /\ cartao = <<>>
    /\ sujo = FALSE
    /\ pedido = SemPedido /\ pedidos = 0
    /\ ex = Parado
    /\ quedas = 0

-----------------------------------------------------------------------------
(* The world around the updater.                                             *)

(* The bot prepares a ZIP on a clone of GitHub and puts it in the queue.     *)
Enviar(c) ==
    /\ fila[c] = "nova"
    /\ \A d \in 1..(c - 1) : fila[d] # "nova"
    /\ fila' = [fila EXCEPT ![c] = "pendente"]
    /\ base' = [base EXCEPT ![c] = origin]
    /\ espera' = espera \cup ({c} \cap PorConfirmar)
    /\ UNCHANGED <<retomadas, rejeitados, live, sujo, origin, visto, reversao, ex, contas>>

Confirmar(c) ==
    /\ c \in espera
    /\ espera' = espera \ {c}
    /\ UNCHANGED <<fila, retomadas, base, rejeitados, live, sujo, origin, visto,
                   reversao, ex, contas>>

(* The button of the last card.  One request at a time.                      *)
PedirReversao ==
    /\ cartao # <<>>
    /\ pedido.estado = "nenhum" /\ pedidos < MaxPedidos
    /\ pedido' = [estado |-> "pendente", alvo |-> cartao]
    /\ pedidos' = pedidos + 1
    /\ UNCHANGED <<fila, retomadas, manifestos, rejeitados, live, sujo, origin, visto,
                   marcado, cartao, ex, contas>>

PushExterno(x) ==
    /\ \A i \in DOMAIN origin : origin[i] # x
    /\ origin' = Append(origin, x)
    /\ UNCHANGED <<fila, retomadas, manifestos, rejeitados, live, sujo, visto,
                   reversao, ex, contas>>

(* Somebody restores the files of the checkout, as the alert suggests.       *)
LimparCheckout ==
    /\ sujo /\ ex.pc = "parado"
    /\ sujo' = FALSE
    /\ UNCHANGED <<fila, retomadas, manifestos, rejeitados, live, origin, visto,
                   reversao, ex, contas>>

-----------------------------------------------------------------------------
(* Start of an execution: a reversal first, then the item that was left      *)
(* active, the head of the queue, and GitHub.  An item that waits for its    *)
(* confirmation keeps its place.                                             *)

PegarPedido ==
    /\ ex.pc = "parado"
    /\ pedido.estado # "nenhum"
    /\ pedido' = [pedido EXCEPT !.estado = "ativo"]
    /\ visto' = origin
    /\ ex' = [Parado EXCEPT !.pc = "conferir", !.modo = "pedido", !.remoto = origin,
                            !.anterior = live]
    /\ UNCHANGED <<fila, retomadas, manifestos, rejeitados, live, sujo, origin,
                   marcado, cartao, pedidos, contas>>

LivreParaFila == ex.pc = "parado" /\ pedido.estado = "nenhum"
Ativas == {c \in Candidatos : fila[c] = "ativa"}
Cabeca(c) == /\ fila[c] = "pendente"
             /\ \A d \in 1..(c - 1) : fila[d] # "pendente"

(* git fetch, or the tracking ref when it was fetched seconds ago.           *)
Buscar(c) ==
    /\ visto' \in {origin, visto}
    /\ ex' = [Parado EXCEPT !.pc = "conferir", !.modo = "candidato", !.c = c,
                            !.remoto = visto', !.anterior = live]

Retomar(c) ==
    /\ LivreParaFila
    /\ fila[c] = "ativa"
    /\ retomadas' = [retomadas EXCEPT ![c] = @ + 1]
    /\ Buscar(c)
    /\ UNCHANGED <<fila, manifestos, rejeitados, live, sujo, origin, reversao, contas>>

(* Faulty variant: the queue is read without looking for an active item.     *)
ReivindicarSempre(c) ==
    /\ LivreParaFila
    /\ Cabeca(c) /\ c \notin espera
    /\ fila' = [fila EXCEPT ![c] = "ativa"]
    /\ Buscar(c)
    /\ UNCHANGED <<retomadas, manifestos, rejeitados, live, sujo, origin, reversao, contas>>

Reivindicar(c) ==
    /\ LivreParaFila
    /\ Ativas = {}
    /\ Cabeca(c) /\ c \notin espera
    /\ fila' = [fila EXCEPT ![c] = "ativa"]
    /\ Buscar(c)
    /\ UNCHANGED <<retomadas, manifestos, rejeitados, live, sujo, origin, reversao, contas>>

(* A commit marked dirty or rejected waits for the next one.                 *)
Examinar ==
    /\ visto' = origin
    /\ marcado' = IF origin \in marcado THEN marcado ELSE {}
    /\ IF origin \in rejeitados \cup marcado \/ live = origin
       THEN UNCHANGED ex
       ELSE ex' = [Parado EXCEPT !.pc = "testa", !.remoto = origin, !.anterior = live]
    /\ UNCHANGED <<fila, retomadas, manifestos, rejeitados, live, sujo, origin,
                   cartao, pedido, pedidos, contas>>

(* Faulty variant: a candidate that waits for confirmation stops everything. *)
OlharGitHubSemFila ==
    /\ LivreParaFila
    /\ \A c \in Candidatos : fila[c] \notin {"ativa", "pendente"}
    /\ Examinar

OlharGitHub ==
    /\ LivreParaFila
    /\ Ativas = {}
    /\ \A c \in Candidatos : Cabeca(c) => c \in espera
    /\ Examinar

-----------------------------------------------------------------------------
(* Failures.  on_error keeps what was delivered, undoes what was applied and *)
(* otherwise only archives; the archive closes the execution.                *)

(* Faulty variant: a failed delivery is undone like any other failure.       *)
AoFalharSemEntrega == IF ex.aplicado THEN "desfaz" ELSE "arquiva"

AoFalhar == IF ex.entregue THEN "entrega" ELSE IF ex.aplicado THEN "desfaz" ELSE "arquiva"

Arquivar(onde) ==
    /\ fila' = IF Local THEN [fila EXCEPT ![ex.c] = onde] ELSE fila
    /\ pedido' = IF Reversao THEN SemPedido ELSE pedido
    /\ ex' = Parado
    /\ UNCHANGED <<marcado, cartao, pedidos>>

(* reject_local_candidate_safely before the promotion, a reversal whose      *)
(* delivery is not the state any more, or on_error with nothing applied: the *)
(* item is archived and live stays where it is.                              *)
Rejeitar ==
    /\ ex.pc \in {"conferir", "prepara", "promove", "arquiva"}
    /\ Arquivar("falha")
    /\ UNCHANGED <<retomadas, manifestos, rejeitados, live, sujo, origin, visto, contas>>

(* rollback_after_failure.  It archives a candidate, but not a request.      *)
Desfazer ==
    /\ ex.pc = "desfaz"
    /\ live' = ex.anterior /\ sujo' = FALSE
    /\ rejeitados' = IF ex.modo = "github" THEN rejeitados \cup {ex.remoto} ELSE rejeitados
    /\ marcado' = IF Reversao THEN {ex.remoto} ELSE marcado
    /\ IF Reversao THEN ex' = Parado ELSE Vai("arquiva")
    /\ UNCHANGED <<fila, retomadas, manifestos, origin, visto, cartao, pedido, pedidos,
                   contas>>

-----------------------------------------------------------------------------
(* A candidate, before the promotion.                                        *)

DentroDoLimite == retomadas[ex.c] <= MaxRetomadas

(* live already ends in the candidate's commit and GitHub has it: an earlier *)
(* execution died after the push.  Only the delivery is left.                *)
JaPublicada == Topo(live, ex.c) /\ live = ex.remoto
(* Faulty variant: a commit that was not pushed yet is not recognized.       *)
JaPromovidaNunca == FALSE

(* live ends in it and GitHub is at its parent: died before the push.        *)
JaPromovida == Topo(live, ex.c) /\ Front(live) = ex.remoto

(* Faulty variant: what was promoted before is pushed without a new deploy.  *)
ReconhecerSemImplantar ==
    /\ ex.pc = "conferir" /\ Local
    /\ DentroDoLimite
    /\ \/ /\ JaPublicada
          /\ ex' = [ex EXCEPT !.pc = "entrega", !.anterior = Front(live), !.entregue = TRUE]
       \/ /\ JaPromovida
          /\ ex' = [ex EXCEPT !.pc = "publica", !.anterior = ex.remoto, !.aplicado = TRUE,
                              !.remoto = live]
    /\ UNCHANGED <<fila, retomadas, manifestos, rejeitados, live, sujo, origin, visto,
                   reversao, contas>>

Reconhecer ==
    /\ ex.pc = "conferir" /\ Local
    /\ DentroDoLimite
    /\ \/ /\ JaPublicada
          /\ ex' = [ex EXCEPT !.pc = "entrega", !.anterior = Front(live), !.entregue = TRUE]
       \/ /\ JaPromovida
          /\ ex' = [ex EXCEPT !.pc = "implanta", !.anterior = ex.remoto, !.aplicado = TRUE,
                              !.remoto = live]
    /\ UNCHANGED <<fila, retomadas, manifestos, rejeitados, live, sujo, origin, visto,
                   reversao, contas>>

(* A candidate copied over another base conflicts when the files it changes  *)
(* differ there: always when the base was abandoned or the candidate is in,  *)
(* perhaps otherwise.  One with a patch is merged later.                     *)
ConflitoCerto ==
    /\ ex.c \in SemPatch
    /\ base[ex.c] # ex.remoto
    /\ ~ IsPrefix(base[ex.c], ex.remoto) \/ Presente(ex.remoto, ex.c)

(* fail_local_changes_before_pull: exit 1, the item stays active.            *)
PararSujo ==
    /\ sujo
    /\ \/ Reversao /\ ex.pc = "conferir" /\ {live} = {ex.remoto, pedido.alvo}
       \/ /\ Local /\ ex.pc = "conferir" /\ DentroDoLimite
          /\ ~ JaPublicada /\ ~ JaPromovida /\ ~ ConflitoCerto
       \/ ex.pc = "aplica"
    /\ ex' = Parado
    /\ UNCHANGED <<fila, retomadas, manifestos, rejeitados, live, sujo, origin, visto,
                   reversao, contas>>

(* Changes in the checkout stop it unless they are in the candidate's files. *)
(* git pull --ff-only when live is not where GitHub was seen: it brings the  *)
(* new commits, does nothing when live is ahead, fails when they diverged.   *)
Sincronizar ==
    /\ ex.pc = "conferir" /\ Local
    /\ DentroDoLimite
    /\ ~ JaPublicada /\ ~ JaPromovida /\ ~ ConflitoCerto
    /\ sujo => Tem(live, ex.c)
    /\ IF live = ex.remoto
       THEN Vai("prepara") /\ UNCHANGED <<live, visto>>
       ELSE /\ visto' = origin
            /\ \/ /\ IsPrefix(live, origin)
                  /\ live' = origin
                  /\ ex' = [ex EXCEPT !.pc = "prepara", !.anterior = origin]
               \/ /\ IsStrictPrefix(origin, live)
                  /\ Vai("prepara") /\ UNCHANGED live
               \/ /\ ~ IsPrefix(live, origin) /\ ~ IsPrefix(origin, live)
                  /\ Vai(AoFalhar) /\ UNCHANGED live
    /\ UNCHANGED <<fila, retomadas, manifestos, rejeitados, sujo, origin, reversao, contas>>

(* The candidate applied to a worktree of live changes nothing: archived.    *)
NadaMuda ==
    /\ ex.pc = "prepara"
    /\ Presente(live, ex.c)
    /\ Arquivar("feita")
    /\ UNCHANGED <<retomadas, manifestos, rejeitados, live, sujo, origin, visto, contas>>

Preparar ==
    /\ ex.pc = "prepara"
    /\ ~ Presente(live, ex.c)
    /\ Vai("promove")
    /\ UNCHANGED <<fila, retomadas, manifestos, rejeitados, live, sujo, origin, visto,
                   reversao, contas>>

Promover ==
    /\ ex.pc = "promove"
    /\ live = ex.anterior /\ ~ sujo
    /\ live' = Append(live, IF Tem(origin, ex.c) THEN ex.c + N ELSE ex.c)
    /\ ex' = [ex EXCEPT !.pc = "implanta", !.aplicado = TRUE, !.remoto = live']
    /\ UNCHANGED <<fila, retomadas, manifestos, rejeitados, sujo, origin, visto,
                   reversao, contas>>

-----------------------------------------------------------------------------
(* A reversal, while live and GitHub are at the delivery it was asked for:   *)
(* git revert --no-commit, then the commit once the deploy passed.           *)

Reverter ==
    /\ ex.pc = "conferir" /\ Reversao
    /\ {live} = {ex.remoto, pedido.alvo}
    /\ ~ sujo
    /\ sujo' = TRUE
    /\ ex' = [ex EXCEPT !.pc = "implanta", !.aplicado = TRUE]
    /\ UNCHANGED <<fila, retomadas, manifestos, rejeitados, live, origin, visto,
                   reversao, contas>>

Versao == IF Reversao THEN Append(live, 2 * N + pedidos) ELSE live

Registrar ==
    /\ ex.pc = "registra"
    /\ live' = Versao /\ sujo' = FALSE
    /\ ex' = [ex EXCEPT !.pc = "publica", !.remoto = live']
    /\ UNCHANGED <<fila, retomadas, manifestos, rejeitados, origin, visto, reversao, contas>>

-----------------------------------------------------------------------------
(* A commit of GitHub, before it is applied.                                 *)

TestarRemoto ==
    /\ ex.pc = "testa"
    /\ \/ Vai("aplica") /\ UNCHANGED rejeitados
       \/ ex' = Parado /\ rejeitados' = rejeitados \cup {ex.remoto}
    /\ UNCHANGED <<fila, retomadas, manifestos, live, sujo, origin, visto, reversao, contas>>

(* git merge --ff-only: like the pull, without looking at GitHub again.      *)
AplicarRemoto ==
    /\ ex.pc = "aplica" /\ ~ sujo
    /\ IF IsPrefix(live, ex.remoto) \/ IsPrefix(ex.remoto, live)
       THEN /\ live' = IF IsPrefix(live, ex.remoto) THEN ex.remoto ELSE live
            /\ ex' = [ex EXCEPT !.pc = "implanta", !.aplicado = TRUE]
       ELSE Vai(AoFalhar) /\ UNCHANGED live
    /\ UNCHANGED <<fila, retomadas, manifestos, rejeitados, sujo, origin, visto,
                   reversao, contas>>

-----------------------------------------------------------------------------
(* All: preflight, restart of the bot, dashboard, checks.  A commit of       *)
(* GitHub is then delivered, the others are pushed.                          *)

Implantar ==
    /\ ex.pc = "implanta"
    /\ \/ /\ boas' = boas \cup {Versao}
          /\ ex' = [ex EXCEPT !.pc = IF Local THEN "publica"
                                     ELSE IF Reversao THEN "registra" ELSE "entrega",
                              !.entregue = ex.modo = "github"]
       \/ Vai(AoFalhar) /\ UNCHANGED boas
    /\ UNCHANGED <<fila, retomadas, manifestos, rejeitados, live, sujo, origin, visto,
                   reversao, quedas>>

(* git push: accepted and answered; accepted, but the answer is an error;    *)
(* or refused, always when GitHub is no longer an ancestor of live.          *)
Publicar ==
    /\ ex.pc = "publica"
    /\ \/ /\ IsPrefix(origin, live)
          /\ origin' = live /\ visto' = live
          /\ ex' = [ex EXCEPT !.pc = "entrega", !.entregue = TRUE]
       \/ /\ \/ IsPrefix(origin, live) /\ origin' = live
             \/ UNCHANGED origin
          /\ Vai(IF Local THEN "pergunta" ELSE AoFalhar)
          /\ UNCHANGED visto
    /\ UNCHANGED <<fila, retomadas, manifestos, rejeitados, live, sujo, reversao, contas>>

(* git ls-remote after the error: GitHub at exactly live is a success.       *)
Perguntar ==
    /\ ex.pc = "pergunta"
    /\ \/ /\ origin = live
          /\ ex' = [ex EXCEPT !.pc = "entrega", !.entregue = TRUE]
       \/ Vai(AoFalhar)
    /\ UNCHANGED <<fila, retomadas, manifestos, rejeitados, live, sujo, origin, visto,
                   reversao, contas>>

(* The card with the button, then the alerts.  A failure goes through        *)
(* on_error.                                                                 *)
Avisar ==
    /\ ex.pc = "entrega"
    /\ cartao' \in {cartao, ex.remoto}
    /\ Vai("guarda") \/ Vai(AoFalhar)
    /\ UNCHANGED <<fila, retomadas, manifestos, rejeitados, live, sujo, origin, visto,
                   marcado, pedido, pedidos, contas>>

Guardar ==
    /\ ex.pc = "guarda"
    /\ Arquivar("feita")
    /\ UNCHANGED <<retomadas, manifestos, rejeitados, live, sujo, origin, visto, contas>>

-----------------------------------------------------------------------------
(* The execution is killed: power, OOM, systemctl stop.                      *)
Queda ==
    /\ ex.pc # "parado"
    /\ quedas < MaxQuedas
    /\ quedas' = quedas + 1
    /\ ex' = Parado
    /\ UNCHANGED <<fila, retomadas, manifestos, rejeitados, live, sujo, origin, visto,
                   reversao, boas>>

Passo ==
    \/ \E c \in Candidatos : Retomar(c) \/ Reivindicar(c)
    \/ PegarPedido \/ OlharGitHub \/ Rejeitar \/ Desfazer \/ PararSujo
    \/ Reconhecer \/ Sincronizar \/ NadaMuda \/ Preparar \/ Promover
    \/ Reverter \/ Registrar \/ TestarRemoto \/ AplicarRemoto
    \/ Implantar \/ Publicar \/ Perguntar \/ Avisar \/ Guardar

Next ==
    \/ \E c \in Candidatos : Enviar(c) \/ Confirmar(c)
    \/ \E x \in Externos : PushExterno(x)
    \/ PedirReversao \/ LimparCheckout
    \/ Passo
    \/ Queda

Spec == Init /\ [][Next]_vars

(* The timer starts another execution a minute after the last one ended and  *)
(* every command of an execution ends.  Nobody has to send, confirm, revert  *)
(* or clean.                                                                 *)
FairSpec == Spec /\ WF_vars(Passo)

-----------------------------------------------------------------------------
(* Properties.                                                               *)

TypeOK ==
    /\ fila \in [Candidatos -> {"nova", "pendente", "ativa", "feita", "falha"}]
    /\ retomadas \in [Candidatos -> 0..(MaxQuedas + MaxRetomadas + 1)]
    /\ base \in [Candidatos -> Historias]
    /\ espera \subseteq PorConfirmar
    /\ {live, origin, visto, cartao} \cup rejeitados \cup marcado \cup boas \subseteq Historias
    /\ sujo \in BOOLEAN
    /\ pedido.estado \in {"nenhum", "pendente", "ativo"} /\ pedido.alvo \in Historias
    /\ ex.pc \in {"parado", "conferir", "prepara", "promove", "registra", "testa", "aplica",
                  "implanta", "publica", "pergunta", "entrega", "guarda", "desfaz", "arquiva"}
    /\ ex.modo \in {"candidato", "pedido", "github"} /\ ex.c \in 0..N
    /\ {ex.remoto, ex.anterior} \subseteq Historias
    /\ {ex.aplicado, ex.entregue} \subseteq BOOLEAN

(* An item that an execution left active is finished before any later one is *)
(* taken (fila.sh: "Isso evita aplicar fora de ordem"), so the commits of    *)
(* candidates appear in live and on GitHub in the order of the queue, each   *)
(* candidate once, or again over its reversal, however many executions were  *)
(* killed on the way.                                                        *)
NaOrdem(h) == \A i, j \in DOMAIN h, c, d \in Candidatos :
    i < j /\ h[i] \in De(c) /\ h[j] \in De(d) => c < d \/ (c = d /\ Revertido(h, i))
FilaEmOrdem ==
    /\ TypeOK
    /\ NaOrdem(live) /\ NaOrdem(origin)
    /\ \A c, d \in Candidatos :
         c < d /\ fila[d] \in {"ativa", "feita", "falha"} => fila[c] \in {"feita", "falha"}

(* A candidate is archived as done only when it is in live and on GitHub,    *)
(* whether its own execution pushed it or one that resumed it.  The one      *)
(* exception is a commit that a candidate archived as failed, or a reversal  *)
(* killed before its push, left in live below it: a resumed execution then   *)
(* takes the candidate for one that changes nothing.                         *)
Sobra(c) == \E i \in DOMAIN live :
    live[i] \notin De(c) /\ ~ IsPrefix(SubSeq(live, 1, i), origin)
FeitaPublicada == \A c \in Candidatos :
    fila[c] = "feita" => Tem(live, c) /\ (Tem(origin, c) \/ Sobra(c))

(* What was delivered stays: no failure after the push, no rollback of a     *)
(* later candidate, of a reversal or of a commit of GitHub takes a delivered *)
(* candidate out of live ("nao pode resetar somente a VPS").                 *)
Entregue(c) == fila[c] = "feita" \/ (ex.c = c /\ ex.entregue)
PublicadaFica == [][\A c \in Candidatos : Entregue(c) /\ Tem(live, c) =>
    \E i \in DOMAIN live' : live'[i] \in De(c)]_vars

(* GitHub only receives from the updater a version whose deploy passed its   *)
(* checks on the VPS, also when the execution that promoted it was killed    *)
(* and another one resumed it.                                               *)
PublicaSoValidada ==
    [][origin' # origin /\ Last(origin') \notin Externos => origin' \in boas]_vars

(* With the executions that the timer starts, every candidate whose turn can *)
(* come is archived in the end, and the VPS has what GitHub has or gave its  *)
(* last commit up as failed, also while a candidate waits for its            *)
(* confirmation.  Two things excuse it: a reversal that stays active for     *)
(* ever, one attempt after the other, and a checkout that stays dirty.  The  *)
(* VPS alone is excused by a third, after a kill: live and GitHub diverged,  *)
(* as when somebody pushes while a promoted commit is not pushed.  Each tick *)
(* then tests the commit of GitHub, git merge --ff-only fails with nothing   *)
(* applied, and the commit is neither taken nor rejected.                    *)
Divergiu == ~ IsPrefix(live, origin) /\ ~ IsPrefix(origin, live)
Atrasada == ~ IsPrefix(origin, live) /\ origin \notin rejeitados \cup marcado
Assentado == /\ Ativas = {}
             /\ \A c \in Candidatos : Cabeca(c) => c \in espera
             /\ Atrasada => Divergiu /\ quedas > 0
Emperrado == pedido.estado = "ativo" \/ sujo
TudoAssenta == <>[](~ Emperrado) => <>[]Assentado
=============================================================================
