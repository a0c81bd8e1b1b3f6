--------------------------- MODULE UpdaterProofs ---------------------------
(* The updater, for any candidates, commits of other people, requests and    *)
(* executions killed: the queue is served in order, nothing delivered is     *)
(* taken back, and GitHub only receives versions whose deploy passed. The    *)
(* argument follows the histories: what is in live, on GitHub and in the     *)
(* variables of an execution are commits of candidates already taken, in the *)
(* order of the queue.                                                       *)
EXTENDS Updater, FiniteSetTheorems, TLAPS

Estados == {"nova", "pendente", "ativa", "feita", "falha"}
Tiradas == {"ativa", "feita", "falha"}
Arquivadas == {"feita", "falha"}
PCs == {"parado", "conferir", "prepara", "promove", "registra", "testa", "aplica",
        "implanta", "publica", "pergunta", "entrega", "guarda", "desfaz", "arquiva"}
ExTipo == [pc : PCs, modo : {"candidato", "pedido", "github"}, c : 0..N,
           remoto : Historias, anterior : Historias,
           aplicado : BOOLEAN, entregue : BOOLEAN]

\* The parts of TypeOK that are inductive as they are.
Tipos ==
    /\ fila \in [Candidatos -> Estados]
    /\ retomadas \in [Candidatos -> Nat]
    /\ base \in [Candidatos -> Historias]
    /\ espera \subseteq PorConfirmar
    /\ live \in Historias /\ origin \in Historias /\ visto \in Historias /\ cartao \in Historias
    /\ rejeitados \subseteq Historias /\ marcado \subseteq Historias /\ boas \subseteq Historias
    /\ sujo \in BOOLEAN
    /\ pedido \in [estado : {"nenhum", "pendente", "ativo"}, alvo : Historias]
    /\ pedidos \in 0..MaxPedidos
    /\ ex \in ExTipo
    /\ quedas \in 0..MaxQuedas

\* Which steps each kind of execution takes.
Compativel(e) ==
    /\ e.pc \in {"prepara", "promove", "pergunta"} => e.modo = "candidato"
    /\ e.pc = "registra" => e.modo = "pedido"
    /\ e.pc \in {"publica", "conferir"} => e.modo \in {"candidato", "pedido"}
    /\ e.pc \in {"testa", "aplica"} => e.modo = "github"
    /\ e.pc \in {"conferir", "prepara", "promove"} => ~ e.aplicado /\ ~ e.entregue
    /\ e.pc = "desfaz" => ~ e.entregue

\* What runs: a candidate that was taken, a request that is active.
Rodando ==
    /\ ex.pc # "parado" /\ Local => ex.c \in Candidatos /\ fila[ex.c] = "ativa"
    /\ ex.pc # "parado" /\ Reversao => pedido.estado = "ativo"
    /\ pedido.estado # "nenhum" => pedidos >= 1
    /\ Compativel(ex)

\* The resumptions of an item: one for each execution that was killed with it,
\* and one more that stopped at a dirty checkout for each of the first ones.
Retomadas ==
    \A c \in Candidatos :
       /\ fila[c] \in {"nova", "pendente"} => retomadas[c] = 0
       /\ retomadas[c] <= MaxRetomadas + quedas + 1
       /\ fila[c] = "ativa" /\ ~ (ex.pc # "parado" /\ Local /\ ex.c = c)
             => retomadas[c] <= MaxRetomadas + quedas

\* The queue.
EmFila ==
    \A c, d \in Candidatos : c < d =>
       /\ fila[d] \in Tiradas => fila[c] \in Arquivadas
       /\ fila[d] # "nova" => fila[c] # "nova"

\* A history holds commits of candidates that were taken, in their order.
Boa(f, h) ==
    /\ h \in Historias /\ NaOrdem(h)
    /\ \A i \in DOMAIN h, c \in Candidatos : h[i] \in De(c) => f[c] \in Tiradas
Ordenadas ==
    /\ Boa(fila, live) /\ Boa(fila, origin) /\ Boa(fila, visto)
    /\ Boa(fila, ex.remoto) /\ Boa(fila, ex.anterior)

\* A candidate is promoted over a history in which it is not.
Ausencia == ex.pc = "promove" => ~ Presente(live, ex.c)

Adiante == {"implanta", "publica", "pergunta", "entrega", "guarda"}

\* What was delivered is in live, and in what a failure would go back to; from
\* the promotion on, live ends in the candidate's commit.
Entregues ==
    /\ \A c \in Candidatos : fila[c] = "feita" =>
          Tem(live, c) /\ (ex.pc # "parado" => Tem(ex.anterior, c))
    /\ ex.pc \in Adiante /\ Local => Topo(live, ex.c)

\* What is about to be pushed passed its checks.
Validadas ==
    /\ ex.pc = "registra" => Versao \in boas
    /\ ex.pc = "publica" => live \in boas

IInv == /\ Tipos /\ Rodando /\ Retomadas /\ EmFila /\ Ordenadas
        /\ Ausencia /\ Entregues /\ Validadas
Segue == IInv'

-----------------------------------------------------------------------------
\* Commits and histories.

LEMMA DeFatos ==
    ASSUME NEW c \in Candidatos
    PROVE  /\ De(c) \subseteq Commits /\ De(c) \cap Reversoes = {} /\ De(c) \cap Externos = {}
           /\ \A d \in Candidatos : De(c) \cap De(d) # {} => c = d
<1>1. N \in Nat /\ MaxPedidos \in Nat /\ Externos \cap 1..(2 * N + MaxPedidos) = {}
  BY UpdaterAssumption
<1>2. c \in 1..(2 * N) /\ c + N \in 1..(2 * N)
  BY <1>1 DEF Candidatos
<1> QED
  BY <1>1, <1>2 DEF De, Commits, Candidatos, Reversoes

LEMMA AppendFatos ==
    ASSUME NEW h \in Historias, NEW x \in Commits
    PROVE  /\ Append(h, x) \in Historias /\ Len(Append(h, x)) = Len(h) + 1
           /\ DOMAIN Append(h, x) = 1..(Len(h) + 1) /\ DOMAIN h = 1..Len(h) /\ Len(h) \in Nat
           /\ \A i \in DOMAIN h : Append(h, x)[i] = h[i]
           /\ Append(h, x)[Len(h) + 1] = x
  BY DEF Historias

\* One history goes on where the other ends.
Antes(s, t) == Len(s) <= Len(t) /\ \A i \in 1..Len(s) : s[i] = t[i]

LEMMA PrefixoAntes ==
    ASSUME NEW s \in Historias, NEW t \in Historias, IsPrefix(s, t)
    PROVE  Antes(s, t)
<1>1. Len(s) <= Len(t) /\ SubSeq(s, 1, Len(s)) = SubSeq(t, 1, Len(s))
  BY DEF IsPrefix
<1>2. \A i \in 1..Len(s) : SubSeq(s, 1, Len(s))[i] = s[i] /\ SubSeq(t, 1, Len(s))[i] = t[i]
  BY <1>1 DEF Historias
<1> QED
  BY <1>1, <1>2 DEF Antes

LEMMA InicioFatos ==
    ASSUME NEW h \in Historias, NEW n \in Nat, n <= Len(h)
    PROVE  /\ SubSeq(h, 1, n) \in Historias /\ Len(SubSeq(h, 1, n)) = n
           /\ \A i \in 1..n : SubSeq(h, 1, n)[i] = h[i]
  BY DEF Historias

LEMMA FrontAntes ==
    ASSUME NEW h \in Historias, h # <<>>
    PROVE  /\ Front(h) \in Historias /\ Antes(Front(h), h) /\ Len(Front(h)) = Len(h) - 1
           /\ Len(h) \in Nat /\ Len(h) >= 1 /\ Last(h) = h[Len(h)]
<1>1. Len(h) \in Nat /\ Len(h) >= 1
  BY DEF Historias
<1>2. Front(h) = SubSeq(h, 1, Len(h) - 1)
  BY DEF Front
<1>3. PICK n \in Nat : n = Len(h) - 1
  BY <1>1
<1>4. Front(h) = SubSeq(h, 1, n) /\ n <= Len(h)
  BY <1>1, <1>2, <1>3
<1> QED
  BY <1>1, <1>3, <1>4, InicioFatos DEF Antes, Last

LEMMA TemAntes ==
    ASSUME NEW s \in Historias, NEW t \in Historias, Antes(s, t), NEW c, Tem(s, c)
    PROVE  Tem(t, c)
  BY DEF Antes, Tem, Historias

LEMMA TemAppend ==
    ASSUME NEW h \in Historias, NEW x \in Commits, NEW c, Tem(h, c)
    PROVE  Tem(Append(h, x), c)
  BY AppendFatos DEF Tem

LEMMA AppendAntes ==
    ASSUME NEW h \in Historias, NEW x \in Commits
    PROVE  Antes(h, Append(h, x))
  BY AppendFatos DEF Antes

LEMMA VaziaFatos ==
    /\ <<>> \in Historias /\ DOMAIN <<>> = {}
  BY DEF Historias

\* The reversals right above a commit end below the next commit that is none.
LEMMA RevertidoIgual ==
    ASSUME NEW s \in Historias, NEW t \in Historias, NEW i \in Nat, NEW j \in Nat, i < j,
           j - 1 <= Len(s), j - 1 <= Len(t), \A k \in 1..(j - 1) : s[k] = t[k], i >= 1,
           j <= Len(s) => s[j] \notin Reversoes, j <= Len(t) => t[j] \notin Reversoes
    PROVE  Revertido(s, i) <=> Revertido(t, i)
<1> DEFINE A(h) == {m \in DOMAIN h : m > i /\ \A k \in (i + 1)..m : h[k] \in Reversoes}
<1>1. DOMAIN s = 1..Len(s) /\ DOMAIN t = 1..Len(t) /\ Len(s) \in Nat /\ Len(t) \in Nat
  BY DEF Historias
<1>2. ASSUME NEW m \in A(s) PROVE m \in A(t)
  <2>1. m < j
    BY <1>1
  <2> QED
    BY <1>1, <2>1
<1>3. ASSUME NEW m \in A(t) PROVE m \in A(s)
  <2>1. m < j
    BY <1>1
  <2> QED
    BY <1>1, <2>1
<1>4. A(s) = A(t)
  BY <1>2, <1>3
<1> QED
  BY <1>4 DEF Revertido

\* What is good of a history is good of the ones it continues, and stays good
\* as more candidates are taken.
LEMMA BoaAntes ==
    ASSUME NEW f, NEW t, NEW s \in Historias, Boa(f, t), Antes(s, t)
    PROVE  Boa(f, s)
<1>1. t \in Historias /\ NaOrdem(t)
  BY DEF Boa
<1>2. /\ DOMAIN s = 1..Len(s) /\ DOMAIN t = 1..Len(t) /\ Len(s) \in Nat /\ Len(t) \in Nat
      /\ Len(s) <= Len(t) /\ \A i \in 1..Len(s) : s[i] = t[i]
  BY <1>1 DEF Historias, Antes
<1>3. ASSUME NEW i \in DOMAIN s, NEW j \in DOMAIN s, NEW c \in Candidatos, NEW d \in Candidatos,
             i < j, s[i] \in De(c), s[j] \in De(d)
      PROVE  c < d \/ (c = d /\ Revertido(s, i))
  <2>1. i \in DOMAIN t /\ j \in DOMAIN t /\ t[i] \in De(c) /\ t[j] \in De(d)
    BY <1>2, <1>3
  <2>2. c < d \/ (c = d /\ Revertido(t, i))
    BY <1>1, <1>3, <2>1 DEF NaOrdem
  <2>3. s[j] \notin Reversoes /\ t[j] \notin Reversoes
    BY <1>3, <2>1, DeFatos
  <2>4. Revertido(s, i) <=> Revertido(t, i)
    <3>1. /\ i \in Nat /\ j \in Nat /\ i < j /\ i >= 1 /\ j - 1 <= Len(s) /\ j - 1 <= Len(t)
          /\ \A k \in 1..(j - 1) : s[k] = t[k]
      BY <1>2, <1>3
    <3> QED
      BY <1>1, <2>3, <3>1, RevertidoIgual
  <2> QED
    BY <2>2, <2>4
<1>4. NaOrdem(s)
  BY <1>3 DEF NaOrdem
<1>5. \A i \in DOMAIN s, c \in Candidatos : s[i] \in De(c) => f[c] \in Tiradas
  BY <1>2 DEF Boa
<1> QED
  BY <1>4, <1>5 DEF Boa

LEMMA BoaTiradas ==
    ASSUME NEW f, NEW g, NEW h, Boa(f, h),
           \A c \in Candidatos : f[c] \in Tiradas => g[c] \in Tiradas
    PROVE  Boa(g, h)
  BY DEF Boa

LEMMA BoaVazia == ASSUME NEW f PROVE Boa(f, <<>>)
  BY VaziaFatos DEF Boa, NaOrdem

\* A commit on top: one that is of no candidate; the commit of the candidate
\* that runs, over a history in which it is not, or no longer.
LEMMA BoaAlheia ==
    ASSUME NEW f, NEW h, NEW x \in Commits, Boa(f, h), \A c \in Candidatos : x \notin De(c)
    PROVE  Boa(f, Append(h, x))
<1> DEFINE t == Append(h, x)
<1>1. h \in Historias /\ NaOrdem(h)
  BY DEF Boa
<1>2. /\ t \in Historias /\ DOMAIN t = 1..(Len(h) + 1) /\ DOMAIN h = 1..Len(h)
      /\ Len(h) \in Nat /\ Len(t) = Len(h) + 1
      /\ \A i \in DOMAIN h : t[i] = h[i]
      /\ t[Len(h) + 1] = x
  BY <1>1, AppendFatos
<1> HIDE DEF t
<1>3. ASSUME NEW i \in DOMAIN t, NEW j \in DOMAIN t, NEW c \in Candidatos, NEW d \in Candidatos,
             i < j, t[i] \in De(c), t[j] \in De(d)
      PROVE  c < d \/ (c = d /\ Revertido(t, i))
  <2>1. j # Len(h) + 1
    BY <1>2, <1>3
  <2>2. i \in DOMAIN h /\ j \in DOMAIN h /\ h[i] \in De(c) /\ h[j] \in De(d)
    BY <1>2, <1>3, <2>1
  <2>3. c < d \/ (c = d /\ Revertido(h, i))
    BY <1>1, <1>3, <2>2 DEF NaOrdem
  <2>4. t[j] \notin Reversoes /\ h[j] \notin Reversoes
    BY <1>3, <2>2, DeFatos
  <2>5. Revertido(t, i) <=> Revertido(h, i)
    <3>1. /\ i \in Nat /\ j \in Nat /\ i < j /\ i >= 1 /\ j - 1 <= Len(h) /\ j - 1 <= Len(t)
          /\ \A k \in 1..(j - 1) : t[k] = h[k]
      BY <1>2, <1>3, <2>2
    <3> QED
      BY <1>1, <1>2, <2>4, <3>1, RevertidoIgual
  <2> QED
    BY <2>3, <2>5
<1>4. NaOrdem(t)
  BY <1>3 DEF NaOrdem
<1>5. ASSUME NEW i \in DOMAIN t, NEW c \in Candidatos, t[i] \in De(c) PROVE f[c] \in Tiradas
  <2>1. i \in DOMAIN h
    BY <1>2, <1>5
  <2> QED
    BY <1>2, <1>5, <2>1 DEF Boa
<1>6. Boa(f, t)
  BY <1>2, <1>4, <1>5 DEF Boa
<1> QED
  BY <1>6 DEF t

LEMMA BoaCandidato ==
    ASSUME NEW f, NEW h, NEW c \in Candidatos, NEW x \in De(c), Boa(f, h),
           ~ Presente(h, c), f[c] \in Tiradas,
           \A d \in Candidatos : c < d => f[d] \notin Tiradas
    PROVE  Boa(f, Append(h, x)) /\ Topo(Append(h, x), c)
<1> DEFINE t == Append(h, x)
<1>1. h \in Historias /\ NaOrdem(h) /\ x \in Commits /\ x \notin Reversoes
  BY DeFatos DEF Boa
<1>2. /\ t \in Historias /\ DOMAIN t = 1..(Len(h) + 1) /\ DOMAIN h = 1..Len(h)
      /\ Len(h) \in Nat /\ Len(t) = Len(h) + 1
      /\ \A i \in DOMAIN h : t[i] = h[i]
      /\ t[Len(h) + 1] = x
  BY <1>1, AppendFatos
<1> HIDE DEF t
<1>3. ASSUME NEW i \in DOMAIN t, NEW j \in DOMAIN t, NEW d \in Candidatos, NEW e \in Candidatos,
             i < j, t[i] \in De(d), t[j] \in De(e)
      PROVE  d < e \/ (d = e /\ Revertido(t, i))
  <2>1. i \in DOMAIN h /\ h[i] \in De(d) /\ f[d] \in Tiradas
    <3>1. i \in DOMAIN h
      BY <1>2, <1>3
    <3> QED
      BY <1>2, <1>3, <3>1 DEF Boa
  <2>2. t[j] \notin Reversoes
    BY <1>3, DeFatos
  <2>3. j - 1 <= Len(h) /\ j - 1 <= Len(t) /\ \A k \in 1..(j - 1) : t[k] = h[k]
    BY <1>2, <1>3
  <2>4. j <= Len(h) => h[j] \notin Reversoes
    BY <1>2, <1>3, <2>2
  <2>5. Revertido(t, i) <=> Revertido(h, i)
    <3>1. i \in Nat /\ j \in Nat /\ i < j /\ i >= 1
      BY <1>2, <1>3
    <3> QED
      BY <1>1, <1>2, <2>2, <2>3, <2>4, <3>1, RevertidoIgual
  <2>6. CASE j \in DOMAIN h
    <3>1. h[j] \in De(e)
      BY <1>2, <1>3, <2>6
    <3> QED
      BY <1>1, <1>3, <2>1, <2>5, <2>6, <3>1 DEF NaOrdem
  <2>7. CASE j \notin DOMAIN h
    <3>1. j = Len(h) + 1
      BY <1>2, <2>7
    <3>2. e = c
      BY <1>2, <1>3, <3>1, DeFatos
    <3>3. d < c \/ d = c
      BY <2>1, UpdaterAssumption DEF Candidatos
    <3>4. d = c => Revertido(h, i)
      BY <2>1 DEF Presente
    <3> QED
      BY <2>5, <3>2, <3>3, <3>4
  <2> QED
    BY <2>6, <2>7
<1>4. NaOrdem(t)
  BY <1>3 DEF NaOrdem
<1>5. ASSUME NEW i \in DOMAIN t, NEW d \in Candidatos, t[i] \in De(d) PROVE f[d] \in Tiradas
  <2>1. CASE i \in DOMAIN h
    BY <1>2, <1>5, <2>1 DEF Boa
  <2>2. CASE i \notin DOMAIN h
    <3>1. t[i] = x
      BY <1>2, <1>5, <2>2
    <3> QED
      BY <1>5, <3>1, DeFatos
  <2> QED
    BY <2>1, <2>2
<1>6. Boa(f, t)
  BY <1>2, <1>4, <1>5 DEF Boa
<1>7. t # <<>> /\ Last(t) \in De(c)
  BY <1>2 DEF Last
<1> QED
  BY <1>6, <1>7 DEF t, Topo

-----------------------------------------------------------------------------
\* The shapes of a step.

\* The execution goes on, over what it took.
LEMMA Andamento ==
    ASSUME IInv,
           fila' = fila, retomadas' = retomadas, base' = base, espera' = espera,
           pedido' = pedido, pedidos' = pedidos, quedas' = quedas,
           cartao' \in Historias, rejeitados' \subseteq Historias, marcado' \subseteq Historias,
           boas' \subseteq Historias, sujo' \in BOOLEAN,
           ex.pc # "parado", ex' \in ExTipo, ex'.pc # "parado", ex'.modo = ex.modo,
           ex'.c = ex.c, Compativel(ex'),
           Boa(fila, live'), Boa(fila, origin'), Boa(fila, visto'), Boa(fila, ex'.remoto),
           Boa(fila, ex'.anterior),
           ex'.pc = "promove" => ~ Presente(live', ex.c),
           \A c \in Candidatos : fila[c] = "feita" => Tem(live', c) /\ Tem(ex'.anterior, c),
           ex'.pc \in Adiante /\ Local => Topo(live', ex.c),
           ex'.pc = "registra" => Versao' \in boas',
           ex'.pc = "publica" => live' \in boas'
    PROVE  Segue
<1>1. Tipos'
  BY DEF IInv, Tipos, Boa
<1>2. Rodando'
  BY DEF IInv, Rodando, Local, Reversao
<1>3. Retomadas'
  BY DEF IInv, Retomadas, Local
<1>4. EmFila'
  BY DEF IInv, EmFila
<1>5. Ordenadas'
  BY DEF Ordenadas
<1>6. Ausencia'
  BY DEF Ausencia
<1>7. Entregues'
  BY DEF Entregues, Local
<1>8. Validadas'
  BY DEF Validadas
<1> QED
  BY <1>1, <1>2, <1>3, <1>4, <1>5, <1>6, <1>7, <1>8 DEF Segue, IInv

\* The same, with the histories as they were.
LEMMA Avanco ==
    ASSUME IInv,
           fila' = fila, retomadas' = retomadas, base' = base, espera' = espera,
           pedido' = pedido, pedidos' = pedidos, quedas' = quedas,
           live' = live, origin' = origin, visto' = visto,
           cartao' \in Historias, rejeitados' \subseteq Historias, marcado' \subseteq Historias,
           boas' \subseteq Historias, sujo' \in BOOLEAN,
           ex.pc # "parado", ex' \in ExTipo, ex'.pc # "parado", ex'.modo = ex.modo,
           ex'.c = ex.c, ex'.remoto = ex.remoto, ex'.anterior = ex.anterior, Compativel(ex'),
           ex'.pc = "promove" => ~ Presente(live, ex.c),
           ex'.pc \in Adiante /\ Local => Topo(live, ex.c),
           ex'.pc = "registra" => Versao' \in boas',
           ex'.pc = "publica" => live \in boas'
    PROVE  Segue
<1>1. /\ Boa(fila, live') /\ Boa(fila, origin') /\ Boa(fila, visto') /\ Boa(fila, ex'.remoto)
      /\ Boa(fila, ex'.anterior)
  BY DEF IInv, Ordenadas
<1>2. \A c \in Candidatos : fila[c] = "feita" => Tem(live', c) /\ Tem(ex'.anterior, c)
  BY DEF IInv, Entregues
<1>3. /\ ex'.pc = "promove" => ~ Presente(live', ex.c)
      /\ ex'.pc \in Adiante /\ Local => Topo(live', ex.c)
      /\ ex'.pc = "publica" => live' \in boas'
  OBVIOUS
<1> QED
  BY <1>1, <1>2, <1>3, Andamento

\* An execution takes something: live is what a failure would go back to.
LEMMA Comeco ==
    ASSUME IInv,
           base' = base, espera' = espera, pedidos' = pedidos, quedas' = quedas,
           cartao' = cartao, rejeitados' = rejeitados, boas' = boas, sujo' = sujo,
           live' = live, origin' = origin, visto' \in {visto, origin},
           marcado' \subseteq Historias, pedido' \in [estado : {"nenhum", "pendente", "ativo"}, alvo : Historias],
           fila' \in [Candidatos -> Estados], retomadas' \in [Candidatos -> Nat],
           ex.pc = "parado", ex'.pc \in {"conferir", "testa"}, ex' \in ExTipo,
           Compativel(ex'), ex'.remoto \in {visto, origin}, ex'.anterior = live,
           \A c \in Candidatos : fila[c] \in Tiradas => fila'[c] \in Tiradas,
           \A c \in Candidatos : fila'[c] = "feita" => fila[c] = "feita",
           Rodando', Retomadas', EmFila'
    PROVE  Segue
<1>1. Tipos'
  BY DEF IInv, Tipos
<1>2. Ordenadas'
  <2>1. Boa(fila, live) /\ Boa(fila, origin) /\ Boa(fila, visto)
    BY DEF IInv, Ordenadas
  <2>2. Boa(fila', live) /\ Boa(fila', origin) /\ Boa(fila', visto)
    BY <2>1, BoaTiradas
  <2> QED
    BY <2>2 DEF Ordenadas
<1>3. Ausencia'
  BY DEF Ausencia
<1>4. Entregues'
  BY DEF IInv, Entregues, Adiante
<1>5. Validadas'
  BY DEF Validadas
<1> QED
  BY <1>1, <1>2, <1>3, <1>4, <1>5 DEF Segue, IInv

LEMMA ParadoFatos ==
    /\ Parado \in ExTipo /\ Parado.pc = "parado" /\ Parado.remoto = <<>> /\ Parado.anterior = <<>>
    /\ Compativel(Parado) /\ Parado.modo = "github" /\ Parado.c = 0
  BY VaziaFatos, UpdaterAssumption DEF Parado, ExTipo, PCs, Compativel

LEMMA SemPedidoFatos ==
    /\ SemPedido \in [estado : {"nenhum", "pendente", "ativo"}, alvo : Historias]
    /\ SemPedido.estado = "nenhum"
  BY VaziaFatos DEF SemPedido

\* The execution ends and what it took stays where it was.
LEMMA Fim ==
    ASSUME IInv,
           fila' = fila, retomadas' = retomadas, base' = base, espera' = espera,
           pedido' \in {pedido, SemPedido}, pedidos' = pedidos,
           quedas' \in 0..MaxQuedas, quedas' >= quedas, origin' = origin, visto' = visto,
           cartao' = cartao, rejeitados' \subseteq Historias, marcado' \subseteq Historias,
           boas' = boas, sujo' \in BOOLEAN, ex' = Parado,
           Boa(fila, live'),
           \A c \in Candidatos : fila[c] = "feita" => Tem(live', c),
           ex.pc # "parado" /\ Local => retomadas[ex.c] <= MaxRetomadas + quedas'
    PROVE  Segue
<1>0. ex'.pc = "parado" /\ ex' \in ExTipo /\ ex'.remoto = <<>> /\ ex'.anterior = <<>> /\ Compativel(ex')
  BY ParadoFatos
<1>1. Tipos'
  BY <1>0, SemPedidoFatos DEF IInv, Tipos, Boa
<1>2. Rodando'
  BY <1>0, SemPedidoFatos DEF IInv, Rodando
<1>3. Retomadas'
  <2> SUFFICES ASSUME NEW c \in Candidatos
               PROVE  /\ fila[c] \in {"nova", "pendente"} => retomadas[c] = 0
                      /\ retomadas[c] <= MaxRetomadas + quedas' + 1
                      /\ fila[c] = "ativa" => retomadas[c] <= MaxRetomadas + quedas'
    BY DEF Retomadas
  <2>1. retomadas[c] \in Nat /\ quedas \in Nat /\ quedas' \in Nat /\ MaxRetomadas \in Nat
    BY UpdaterAssumption DEF IInv, Tipos
  <2>2. CASE ex.pc # "parado" /\ Local /\ ex.c = c
    BY <2>1, <2>2 DEF IInv, Retomadas
  <2>3. CASE ~ (ex.pc # "parado" /\ Local /\ ex.c = c)
    BY <2>1, <2>3 DEF IInv, Retomadas
  <2> QED
    BY <2>2, <2>3
<1>4. EmFila'
  BY DEF IInv, EmFila
<1>5. Ordenadas'
  BY <1>0, BoaVazia DEF IInv, Ordenadas
<1>6. Ausencia' /\ Validadas'
  BY <1>0 DEF Ausencia, Validadas
<1>7. Entregues'
  BY <1>0 DEF Entregues, Adiante
<1> QED
  BY <1>1, <1>2, <1>3, <1>4, <1>5, <1>6, <1>7 DEF Segue, IInv

\* The archive closes the execution.
LEMMA Arquivo ==
    ASSUME IInv, NEW onde \in Arquivadas, Arquivar(onde), ex.pc # "parado",
           onde = "feita" /\ Local => Tem(live, ex.c),
           UNCHANGED <<retomadas, manifestos, rejeitados, live, sujo, origin, visto, contas>>
    PROVE  Segue
<1> USE DEF manifestos, contas
<1>0. /\ ex' = Parado /\ pedido' \in {pedido, SemPedido}
      /\ cartao' = cartao /\ marcado' = marcado /\ pedidos' = pedidos
  BY DEF Arquivar
<1>1. CASE ~ Local
  <2>1. fila' = fila
    BY <1>1 DEF Arquivar
  <2>2. quedas' \in 0..MaxQuedas /\ quedas' >= quedas
    BY DEF IInv, Tipos
  <2>3. /\ Boa(fila, live') /\ \A c \in Candidatos : fila[c] = "feita" => Tem(live', c)
        /\ rejeitados' \subseteq Historias /\ marcado' \subseteq Historias /\ sujo' \in BOOLEAN
    BY <1>0 DEF IInv, Ordenadas, Entregues, Tipos
  <2> QED
    BY <1>0, <1>1, <2>1, <2>2, <2>3, Fim
<1>2. CASE Local
  <2>1. fila' = [fila EXCEPT ![ex.c] = onde] /\ ex.c \in Candidatos /\ fila[ex.c] = "ativa"
    BY <1>2 DEF Arquivar, IInv, Rodando
  <2>2. /\ fila \in [Candidatos -> Estados] /\ fila' \in [Candidatos -> Estados]
        /\ fila'[ex.c] = onde /\ \A c \in Candidatos : c # ex.c => fila'[c] = fila[c]
    BY <2>1 DEF IInv, Tipos, Estados, Arquivadas
  <2>3. \A c \in Candidatos : /\ fila[c] \in Tiradas => fila'[c] \in Tiradas
                              /\ fila[c] \in Arquivadas => fila'[c] \in Arquivadas
                              /\ fila'[c] \in Tiradas => fila[c] \in Tiradas
                              /\ fila'[c] = "ativa" => fila[c] = "ativa" /\ c # ex.c
                              /\ fila'[c] \in {"nova", "pendente"} => fila[c] = fila'[c]
                              /\ fila'[c] # "nova" <=> fila[c] # "nova"
    BY <2>1, <2>2 DEF Tiradas, Arquivadas
  <2>4. ex'.pc = "parado" /\ ex' \in ExTipo /\ ex'.remoto = <<>> /\ ex'.anterior = <<>> /\ Compativel(ex')
    BY <1>0, ParadoFatos
  <2>5. Tipos'
    BY <1>0, <2>2, <2>4, SemPedidoFatos DEF IInv, Tipos
  <2>6. Rodando'
    BY <1>0, <2>4, SemPedidoFatos DEF IInv, Rodando
  <2>7. Retomadas'
    BY <2>3, <2>4 DEF IInv, Retomadas
  <2>8. EmFila'
    BY <2>3 DEF IInv, EmFila
  <2>9. Ordenadas'
    <3>1. Boa(fila', live) /\ Boa(fila', origin) /\ Boa(fila', visto)
      BY <2>3, BoaTiradas DEF IInv, Ordenadas
    <3> QED
      BY <2>4, <3>1, BoaVazia DEF Ordenadas
  <2>10. Ausencia' /\ Validadas'
    BY <2>4 DEF Ausencia, Validadas
  <2>11. Entregues'
    <3>1. \A c \in Candidatos : fila'[c] = "feita" => Tem(live, c)
      BY <1>2, <2>2 DEF IInv, Entregues
    <3> QED
      BY <2>4, <3>1 DEF Entregues, Adiante
  <2> QED
    BY <2>5, <2>6, <2>7, <2>8, <2>9, <2>10, <2>11 DEF Segue, IInv
<1> QED
  BY <1>1, <1>2

-----------------------------------------------------------------------------
\* The world around the updater.

LEMMA EnviarSegue == ASSUME IInv, NEW c \in Candidatos, Enviar(c) PROVE Segue
<1> USE DEF Enviar, manifestos, reversao, contas
<1>1. /\ fila \in [Candidatos -> Estados] /\ fila' \in [Candidatos -> Estados]
      /\ fila[c] = "nova" /\ fila'[c] = "pendente"
      /\ \A d \in Candidatos : d # c => fila'[d] = fila[d]
  BY DEF IInv, Tipos, Estados
<1>2. \A d \in Candidatos : d < c => fila[d] # "nova"
  BY UpdaterAssumption DEF Candidatos
<1>3. \A d \in Candidatos : /\ fila[d] \in Tiradas <=> fila'[d] \in Tiradas
                            /\ fila[d] \in Arquivadas <=> fila'[d] \in Arquivadas
  BY <1>1 DEF Tiradas, Arquivadas
<1>4. Tipos'
  BY <1>1 DEF IInv, Tipos
<1>5. Rodando'
  BY <1>1 DEF IInv, Rodando, Local, Reversao
<1>6. Retomadas'
  BY <1>1 DEF IInv, Retomadas, Local
<1>7. EmFila'
  BY <1>1, <1>2, <1>3 DEF IInv, EmFila
<1>8. Ordenadas'
  BY <1>3, BoaTiradas DEF IInv, Ordenadas
<1>9. Ausencia' /\ Entregues' /\ Validadas'
  BY <1>1 DEF IInv, Ausencia, Entregues, Validadas, Versao, Local, Reversao
<1> QED
  BY <1>4, <1>5, <1>6, <1>7, <1>8, <1>9 DEF Segue, IInv

LEMMA ConfirmarSegue == ASSUME IInv, NEW c \in Candidatos, Confirmar(c) PROVE Segue
<1> USE DEF Confirmar, reversao, contas
<1>1. Tipos'
  BY DEF IInv, Tipos
<1>2. Rodando' /\ Retomadas' /\ EmFila' /\ Ordenadas' /\ Ausencia' /\ Entregues' /\ Validadas'
  BY DEF IInv, Rodando, Retomadas, EmFila, Ordenadas, Ausencia, Entregues, Validadas, Versao,
         Local, Reversao
<1> QED
  BY <1>1, <1>2 DEF Segue, IInv

LEMMA PedirReversaoSegue == ASSUME IInv, PedirReversao PROVE Segue
<1> USE DEF PedirReversao, manifestos, contas
<1>1. Tipos' /\ pedidos' >= 1
  BY UpdaterAssumption DEF IInv, Tipos
<1>2. Rodando' /\ Validadas'
  BY <1>1 DEF IInv, Rodando, Validadas, Versao, Local, Reversao, Compativel
<1>3. Retomadas' /\ EmFila' /\ Ordenadas' /\ Ausencia' /\ Entregues'
  BY DEF IInv, Retomadas, EmFila, Ordenadas, Ausencia, Entregues, Local
<1> QED
  BY <1>1, <1>2, <1>3 DEF Segue, IInv

LEMMA PushExternoSegue == ASSUME IInv, NEW x \in Externos, PushExterno(x) PROVE Segue
<1> USE DEF PushExterno, manifestos, reversao, contas
<1>1. x \in Commits /\ \A c \in Candidatos : x \notin De(c)
  BY DeFatos DEF Commits
<1>2. Boa(fila, origin')
  BY <1>1, BoaAlheia DEF IInv, Ordenadas
<1>3. Tipos'
  BY <1>2 DEF IInv, Tipos, Boa
<1>4. Ordenadas'
  BY <1>2 DEF IInv, Ordenadas
<1>5. Rodando' /\ Retomadas' /\ EmFila' /\ Ausencia' /\ Entregues' /\ Validadas'
  BY DEF IInv, Rodando, Retomadas, EmFila, Ausencia, Entregues, Validadas, Versao,
         Local, Reversao
<1> QED
  BY <1>3, <1>4, <1>5 DEF Segue, IInv

LEMMA LimparSegue == ASSUME IInv, LimparCheckout PROVE Segue
<1> USE DEF LimparCheckout, manifestos, reversao, contas
<1>1. Tipos'
  BY DEF IInv, Tipos
<1>2. Rodando' /\ Retomadas' /\ EmFila' /\ Ordenadas' /\ Ausencia' /\ Entregues' /\ Validadas'
  BY DEF IInv, Rodando, Retomadas, EmFila, Ordenadas, Ausencia, Entregues, Validadas, Versao,
         Local, Reversao
<1> QED
  BY <1>1, <1>2 DEF Segue, IInv

LEMMA QuedaSegue == ASSUME IInv, Queda PROVE Segue
<1> USE DEF Queda, manifestos, reversao, contas
<1>1. /\ quedas \in Nat /\ MaxQuedas \in Nat /\ MaxRetomadas \in Nat
      /\ \A c \in Candidatos : retomadas[c] \in Nat
  BY UpdaterAssumption DEF IInv, Tipos
<1>2. quedas' \in 0..MaxQuedas /\ quedas' >= quedas /\ quedas' = quedas + 1
  BY <1>1
<1>3. ex.pc # "parado" /\ Local => retomadas[ex.c] <= MaxRetomadas + quedas'
  <2>1. ex.pc # "parado" /\ Local => ex.c \in Candidatos
    BY DEF IInv, Rodando
  <2>2. \A c \in Candidatos : retomadas[c] <= MaxRetomadas + quedas + 1
    BY DEF IInv, Retomadas
  <2> QED
    BY <1>1, <1>2, <2>1, <2>2
<1>4. /\ Boa(fila, live') /\ \A c \in Candidatos : fila[c] = "feita" => Tem(live', c)
      /\ rejeitados' \subseteq Historias /\ marcado' \subseteq Historias /\ sujo' \in BOOLEAN
  BY DEF IInv, Ordenadas, Entregues, Tipos
<1> QED
  BY <1>2, <1>3, <1>4, Fim

-----------------------------------------------------------------------------
\* The start of an execution.

LEMMA TipoDeInicio ==
    ASSUME Tipos, NEW m \in {"candidato", "pedido", "github"}, NEW c \in 0..N,
           NEW pc \in {"conferir", "testa"}, NEW r \in Historias,
           ex' = [Parado EXCEPT !.pc = pc, !.modo = m, !.c = c, !.remoto = r, !.anterior = live]
    PROVE  /\ ex' \in ExTipo /\ ex'.pc = pc /\ ex'.modo = m /\ ex'.c = c /\ ex'.remoto = r
           /\ ex'.anterior = live /\ ~ ex'.aplicado /\ ~ ex'.entregue
  BY VaziaFatos DEF Tipos, Parado, ExTipo, PCs

LEMMA PegarPedidoSegue == ASSUME IInv, PegarPedido PROVE Segue
<1> USE DEF PegarPedido, manifestos, contas
<1>0. 0 \in 0..N /\ origin \in Historias /\ live \in Historias
  BY UpdaterAssumption DEF IInv, Tipos
<1>1. /\ ex' \in ExTipo /\ ex'.pc = "conferir" /\ ex'.modo = "pedido" /\ ex'.remoto = origin
      /\ ex'.anterior = live /\ ~ ex'.aplicado /\ ~ ex'.entregue
  BY <1>0 DEF Parado, ExTipo, PCs
<1>2. Compativel(ex')
  BY <1>1 DEF Compativel
<1>3. /\ pedido' \in [estado : {"nenhum", "pendente", "ativo"}, alvo : Historias]
      /\ pedido'.estado = "ativo"
  BY DEF IInv, Tipos
<1>4. Rodando'
  BY <1>1, <1>2, <1>3 DEF IInv, Rodando, Local
<1>5. Retomadas' /\ EmFila'
  BY DEF IInv, Retomadas, EmFila
<1>6. /\ marcado' \subseteq Historias /\ fila' \in [Candidatos -> Estados]
      /\ retomadas' \in [Candidatos -> Nat] /\ visto' \in {visto, origin}
      /\ \A c \in Candidatos : fila[c] \in Tiradas => fila'[c] \in Tiradas
      /\ \A c \in Candidatos : fila'[c] = "feita" => fila[c] = "feita"
  BY DEF IInv, Tipos
<1> QED
  BY <1>1, <1>2, <1>3, <1>4, <1>5, <1>6, Comeco

LEMMA BuscarFatos ==
    ASSUME IInv, NEW c \in Candidatos, Buscar(c)
    PROVE  /\ visto' \in {visto, origin} /\ ex' \in ExTipo /\ ex'.pc = "conferir"
           /\ ex'.modo = "candidato" /\ ex'.c = c /\ ex'.remoto \in {visto, origin}
           /\ ex'.anterior = live /\ ~ ex'.aplicado /\ ~ ex'.entregue /\ Compativel(ex')
<1>1. visto' \in {visto, origin} /\ visto' \in Historias
  BY DEF Buscar, IInv, Tipos
<1>2. c \in 0..N
  BY UpdaterAssumption DEF Candidatos
<1>3. /\ ex' \in ExTipo /\ ex'.pc = "conferir" /\ ex'.modo = "candidato" /\ ex'.c = c
      /\ ex'.remoto = visto' /\ ex'.anterior = live /\ ~ ex'.aplicado /\ ~ ex'.entregue
  BY <1>1, <1>2, TipoDeInicio DEF Buscar, IInv
<1>4. Compativel(ex')
  BY <1>3 DEF Compativel
<1> QED
  BY <1>1, <1>3, <1>4

LEMMA RetomarSegue == ASSUME IInv, NEW c \in Candidatos, Retomar(c) PROVE Segue
<1> USE DEF Retomar, LivreParaFila, manifestos, reversao, contas
<1>1. /\ visto' \in {visto, origin} /\ ex' \in ExTipo /\ ex'.pc = "conferir"
      /\ ex'.modo = "candidato" /\ ex'.c = c /\ ex'.remoto \in {visto, origin}
      /\ ex'.anterior = live /\ Compativel(ex')
  BY BuscarFatos
<1>2. /\ retomadas \in [Candidatos -> Nat] /\ retomadas' = [retomadas EXCEPT ![c] = retomadas[c] + 1]
      /\ quedas \in Nat /\ MaxRetomadas \in Nat
  BY UpdaterAssumption DEF IInv, Tipos
<1>3. /\ retomadas' \in [Candidatos -> Nat] /\ retomadas'[c] = retomadas[c] + 1
      /\ \A d \in Candidatos : d # c => retomadas'[d] = retomadas[d]
  BY <1>2
<1>4. Rodando'
  BY <1>1 DEF IInv, Rodando, Reversao
<1>5. Retomadas'
  <2> SUFFICES ASSUME NEW d \in Candidatos
               PROVE  /\ fila[d] \in {"nova", "pendente"} => retomadas'[d] = 0
                      /\ retomadas'[d] <= MaxRetomadas + quedas + 1
                      /\ fila[d] = "ativa" /\ d # c => retomadas'[d] <= MaxRetomadas + quedas
    BY <1>1 DEF Retomadas, Local
  <2>1. CASE d = c
    <3>1. retomadas[c] <= MaxRetomadas + quedas
      BY DEF IInv, Retomadas
    <3> QED
      BY <1>2, <1>3, <2>1, <3>1
  <2>2. CASE d # c
    BY <1>3, <2>2 DEF IInv, Retomadas
  <2> QED
    BY <2>1, <2>2
<1>6. EmFila'
  BY DEF IInv, EmFila
<1>7. /\ marcado' \subseteq Historias /\ fila' \in [Candidatos -> Estados]
      /\ pedido' \in [estado : {"nenhum", "pendente", "ativo"}, alvo : Historias]
      /\ \A d \in Candidatos : fila[d] \in Tiradas => fila'[d] \in Tiradas
      /\ \A d \in Candidatos : fila'[d] = "feita" => fila[d] = "feita"
  BY DEF IInv, Tipos
<1> QED
  BY <1>1, <1>3, <1>4, <1>5, <1>6, <1>7, Comeco

LEMMA ReivindicarSegue == ASSUME IInv, NEW c \in Candidatos, Reivindicar(c) PROVE Segue
<1> USE DEF Reivindicar, LivreParaFila, Cabeca, manifestos, reversao, contas
<1>1. /\ visto' \in {visto, origin} /\ ex' \in ExTipo /\ ex'.pc = "conferir"
      /\ ex'.modo = "candidato" /\ ex'.c = c /\ ex'.remoto \in {visto, origin}
      /\ ex'.anterior = live /\ Compativel(ex')
  BY BuscarFatos
<1>2. /\ fila \in [Candidatos -> Estados] /\ fila' \in [Candidatos -> Estados]
      /\ fila[c] = "pendente" /\ fila'[c] = "ativa"
      /\ \A d \in Candidatos : d # c => fila'[d] = fila[d]
  BY DEF IInv, Tipos, Estados
<1>3. \A d \in Candidatos : d < c => fila[d] # "pendente"
  BY UpdaterAssumption DEF Candidatos
<1>4. \A d \in Candidatos : fila[d] # "ativa"
  BY DEF Ativas
<1>5. \A d \in Candidatos : d < c => fila[d] \in Arquivadas
  BY <1>2, <1>3, <1>4 DEF IInv, EmFila, Estados, Arquivadas
<1>6. Rodando'
  BY <1>1, <1>2 DEF IInv, Rodando, Reversao
<1>7. Retomadas'
  <2>1. /\ MaxRetomadas \in Nat /\ quedas \in Nat /\ retomadas[c] = 0
    BY <1>2, UpdaterAssumption DEF IInv, Tipos, Retomadas
  <2> QED
    BY <1>1, <1>2, <2>1 DEF IInv, Retomadas, Local
<1>8. EmFila'
  <2> SUFFICES ASSUME NEW a \in Candidatos, NEW d \in Candidatos, a < d
               PROVE  /\ fila'[d] \in Tiradas => fila'[a] \in Arquivadas
                      /\ fila'[d] # "nova" => fila'[a] # "nova"
    BY DEF EmFila
  <2>1. ~ (a = c /\ fila'[d] \in Tiradas)
    <3>1. (d # c /\ fila'[d] = fila[d]) \/ a # c
      BY <1>2, UpdaterAssumption DEF Candidatos
    <3> QED
      BY <1>2, <3>1 DEF IInv, EmFila, Arquivadas
  <2> QED
    BY <1>2, <1>5, <2>1 DEF IInv, EmFila, Arquivadas
<1>9. /\ marcado' \subseteq Historias /\ retomadas' \in [Candidatos -> Nat]
      /\ pedido' \in [estado : {"nenhum", "pendente", "ativo"}, alvo : Historias]
      /\ \A d \in Candidatos : fila[d] \in Tiradas => fila'[d] \in Tiradas
      /\ \A d \in Candidatos : fila'[d] = "feita" => fila[d] = "feita"
  BY <1>2 DEF IInv, Tipos, Tiradas
<1> QED
  BY <1>1, <1>2, <1>6, <1>7, <1>8, <1>9, Comeco

LEMMA OlharGitHubSegue == ASSUME IInv, OlharGitHub PROVE Segue
<1> USE DEF OlharGitHub, LivreParaFila, Examinar, manifestos, contas
<1>1. marcado' \subseteq Historias
  BY DEF IInv, Tipos
<1>2. CASE UNCHANGED ex
  <2>1. Tipos'
    BY <1>1, <1>2 DEF IInv, Tipos
  <2>2. Ordenadas'
    BY <1>2 DEF IInv, Ordenadas
  <2>3. Rodando' /\ Retomadas' /\ EmFila' /\ Ausencia' /\ Entregues' /\ Validadas'
    BY <1>2 DEF IInv, Rodando, Retomadas, EmFila, Ausencia, Entregues, Validadas, Versao,
                Local, Reversao
  <2> QED
    BY <2>1, <2>2, <2>3 DEF Segue, IInv
<1>3. CASE ex' = [Parado EXCEPT !.pc = "testa", !.remoto = origin, !.anterior = live]
  <2>0. 0 \in 0..N /\ origin \in Historias /\ live \in Historias
    BY UpdaterAssumption DEF IInv, Tipos
  <2>1. /\ ex' \in ExTipo /\ ex'.pc = "testa" /\ ex'.modo = "github" /\ ex'.remoto = origin
        /\ ex'.anterior = live /\ ~ ex'.aplicado /\ ~ ex'.entregue
    BY <1>3, <2>0 DEF Parado, ExTipo, PCs
  <2>2. Compativel(ex')
    BY <2>1 DEF Compativel
  <2>3. Rodando'
    BY <2>1, <2>2 DEF IInv, Rodando, Local, Reversao
  <2>4. Retomadas' /\ EmFila'
    BY <2>1 DEF IInv, Retomadas, EmFila, Local
  <2>5. /\ fila' \in [Candidatos -> Estados] /\ retomadas' \in [Candidatos -> Nat]
        /\ pedido' \in [estado : {"nenhum", "pendente", "ativo"}, alvo : Historias]
        /\ visto' \in {visto, origin}
        /\ \A d \in Candidatos : fila[d] \in Tiradas => fila'[d] \in Tiradas
        /\ \A d \in Candidatos : fila'[d] = "feita" => fila[d] = "feita"
    BY DEF IInv, Tipos
  <2> QED
    BY <1>1, <2>1, <2>2, <2>3, <2>4, <2>5, Comeco
<1> QED
  BY <1>2, <1>3

-----------------------------------------------------------------------------
\* The steps of an execution.

LEMMA TopoTem ==
    ASSUME NEW h \in Historias, NEW c, Topo(h, c)
    PROVE  Tem(h, c)
  BY FrontAntes DEF Topo, Tem, Historias

LEMMA VaiFatos ==
    ASSUME IInv, NEW pc \in PCs, Vai(pc)
    PROVE  /\ ex' \in ExTipo /\ ex'.pc = pc /\ ex'.modo = ex.modo /\ ex'.c = ex.c
           /\ ex'.remoto = ex.remoto /\ ex'.anterior = ex.anterior
           /\ ex'.aplicado = ex.aplicado /\ ex'.entregue = ex.entregue
  BY DEF IInv, Tipos, ExTipo, Vai

LEMMA AoFalharFatos ==
    ASSUME IInv
    PROVE  /\ AoFalhar \in PCs /\ AoFalhar \in {"entrega", "desfaz", "arquiva"}
           /\ AoFalhar = "entrega" <=> ex.entregue
           /\ AoFalhar = "desfaz" => ~ ex.entregue
  BY DEF AoFalhar, PCs

LEMMA VersaoFatos ==
    ASSUME IInv, ex.pc # "parado"
    PROVE  /\ Versao \in Historias
           /\ Reversao => Versao = Append(live, 2 * N + pedidos) /\ 2 * N + pedidos \in Reversoes
           /\ ~ Reversao => Versao = live
<1>1. live \in Historias
  BY DEF IInv, Tipos
<1>2. ASSUME Reversao PROVE 2 * N + pedidos \in Reversoes
  <2>1. pedidos \in 0..MaxPedidos /\ pedidos >= 1 /\ N \in Nat /\ MaxPedidos \in Nat
    BY <1>2, UpdaterAssumption DEF IInv, Tipos, Rodando
  <2> QED
    BY <2>1 DEF Reversoes
<1>3. CASE Reversao
  <2>1. 2 * N + pedidos \in Commits
    BY <1>2, <1>3 DEF Commits
  <2> QED
    BY <1>1, <1>2, <1>3, <2>1, AppendFatos DEF Versao
<1> QED
  BY <1>1, <1>3 DEF Versao

LEMMA RejeitarSegue == ASSUME IInv, Rejeitar PROVE Segue
<1>1. Arquivar("falha") /\ ex.pc # "parado" /\ "falha" \in Arquivadas /\ "falha" # "feita"
  BY DEF Rejeitar, Arquivadas
<1> QED
  BY <1>1, Arquivo DEF Rejeitar

LEMMA NadaMudaSegue == ASSUME IInv, NadaMuda PROVE Segue
<1>1. Arquivar("feita") /\ ex.pc # "parado" /\ "feita" \in Arquivadas /\ Tem(live, ex.c)
  BY DEF NadaMuda, Arquivadas, Presente, Tem
<1> QED
  BY <1>1, Arquivo DEF NadaMuda

LEMMA GuardarSegue == ASSUME IInv, Guardar PROVE Segue
<1>1. Arquivar("feita") /\ ex.pc # "parado" /\ "feita" \in Arquivadas /\ ex.pc \in Adiante
  BY DEF Guardar, Arquivadas, Adiante
<1>2. Local => Tem(live, ex.c)
  BY <1>1, TopoTem DEF IInv, Tipos, Entregues
<1> QED
  BY <1>1, <1>2, Arquivo DEF Guardar

LEMMA DesfazerSegue == ASSUME IInv, Desfazer PROVE Segue
<1> USE DEF Desfazer, manifestos, contas
<1>1. /\ Boa(fila, live') /\ Boa(fila, origin') /\ Boa(fila, visto') /\ Boa(fila, ex.remoto)
      /\ Boa(fila, ex.anterior)
  BY DEF IInv, Ordenadas
<1>2. \A c \in Candidatos : fila[c] = "feita" => Tem(live', c) /\ Tem(ex.anterior, c)
  BY DEF IInv, Entregues
<1>0. ex.remoto \in Historias
  BY DEF IInv, Tipos, ExTipo
<1>3. /\ cartao' \in Historias /\ rejeitados' \subseteq Historias /\ marcado' \subseteq Historias
      /\ boas' \subseteq Historias /\ sujo' \in BOOLEAN /\ quedas' \in 0..MaxQuedas /\ quedas' >= quedas
  <2>1. rejeitados \subseteq Historias /\ rejeitados' \subseteq rejeitados \cup {ex.remoto}
    BY DEF IInv, Tipos
  <2>2. marcado \subseteq Historias /\ marcado' \subseteq marcado \cup {ex.remoto}
    BY DEF IInv, Tipos
  <2>3. /\ cartao' \in Historias /\ boas' \subseteq Historias /\ sujo' \in BOOLEAN
        /\ quedas' \in 0..MaxQuedas /\ quedas' >= quedas
    <3>1. cartao' = cartao /\ boas' = boas /\ sujo' = FALSE /\ quedas' = quedas
      OBVIOUS
    <3>2. cartao \in Historias /\ boas \subseteq Historias /\ quedas \in 0..MaxQuedas
      BY DEF IInv, Tipos
    <3>3. quedas' >= quedas
      BY <3>1, <3>2, UpdaterAssumption
    <3>4. sujo' \in BOOLEAN
      BY ONLY <3>1
    <3> QED
      BY ONLY <3>1, <3>2, <3>3, <3>4
  <2> QED
    BY <1>0, <2>1, <2>2, <2>3
<1>4. CASE Reversao
  <2>1. ex' = Parado /\ ~ Local
    BY <1>4 DEF Local, Reversao
  <2> QED
    BY <1>1, <1>2, <1>3, <2>1, Fim
<1>5. CASE ~ Reversao
  <2>1. Vai("arquiva") /\ "arquiva" \in PCs
    BY <1>5 DEF PCs
  <2>2. /\ ex' \in ExTipo /\ ex'.pc = "arquiva" /\ ex'.modo = ex.modo /\ ex'.c = ex.c
        /\ ex'.remoto = ex.remoto /\ ex'.anterior = ex.anterior
    BY <2>1, VaiFatos
  <2>3. Compativel(ex') /\ ex'.pc \notin Adiante
    BY <2>2 DEF Compativel, Adiante
  <2> QED
    BY <1>1, <1>2, <1>3, <2>2, <2>3, Andamento
<1> QED
  BY <1>4, <1>5

\* A run that stops at a dirty checkout was within the limit of resumptions.
LEMMA PararSujoSegue == ASSUME IInv, PararSujo PROVE Segue
<1> USE DEF PararSujo, manifestos, reversao, contas
<1>1. ex.pc # "parado" /\ Local => retomadas[ex.c] <= MaxRetomadas + quedas'
  <2>1. ex.pc # "parado" /\ Local => DentroDoLimite /\ ex.c \in Candidatos
    BY DEF IInv, Rodando, Compativel, Local, Reversao
  <2>2. MaxRetomadas \in Nat /\ quedas \in Nat /\ \A c \in Candidatos : retomadas[c] \in Nat
    BY UpdaterAssumption DEF IInv, Tipos
  <2> QED
    BY <2>1, <2>2 DEF DentroDoLimite
<1>2. /\ Boa(fila, live') /\ \A c \in Candidatos : fila[c] = "feita" => Tem(live', c)
      /\ rejeitados' \subseteq Historias /\ marcado' \subseteq Historias /\ sujo' \in BOOLEAN
      /\ quedas' \in 0..MaxQuedas /\ quedas' >= quedas
  BY DEF IInv, Ordenadas, Entregues, Tipos
<1> QED
  BY <1>1, <1>2, Fim

LEMMA TestarRemotoSegue == ASSUME IInv, TestarRemoto PROVE Segue
<1> USE DEF TestarRemoto, manifestos, reversao, contas
<1>1. ex.modo = "github"
  BY DEF IInv, Rodando, Compativel
<1>2. /\ Boa(fila, live') /\ \A c \in Candidatos : fila[c] = "feita" => Tem(live', c)
      /\ rejeitados' \subseteq Historias /\ marcado' \subseteq Historias /\ sujo' \in BOOLEAN
      /\ cartao' \in Historias /\ boas' \subseteq Historias
      /\ quedas' \in 0..MaxQuedas /\ quedas' >= quedas
  BY DEF IInv, Ordenadas, Entregues, Tipos, ExTipo
<1>3. CASE Vai("aplica") /\ UNCHANGED rejeitados
  <2>1. "aplica" \in PCs
    BY DEF PCs
  <2>2. /\ ex' \in ExTipo /\ ex'.pc = "aplica" /\ ex'.modo = ex.modo /\ ex'.c = ex.c
        /\ ex'.remoto = ex.remoto /\ ex'.anterior = ex.anterior
        /\ ex'.aplicado = ex.aplicado /\ ex'.entregue = ex.entregue
    BY <1>3, <2>1, VaiFatos
  <2>3. Compativel(ex') /\ ex'.pc \notin Adiante
    BY <1>1, <2>2 DEF Compativel, Adiante
  <2> QED
    BY <1>2, <2>2, <2>3, Avanco
<1>4. CASE ex' = Parado /\ rejeitados' = rejeitados \cup {ex.remoto}
  <2>1. ~ Local
    BY <1>1 DEF Local
  <2> QED
    BY <1>2, <1>4, <2>1, Fim
<1> QED
  BY <1>3, <1>4

LEMMA ReconhecerSegue == ASSUME IInv, Reconhecer PROVE Segue
<1> USE DEF Reconhecer, manifestos, reversao, contas
<1>1. /\ live \in Historias /\ Topo(live, ex.c) /\ ex.c \in Candidatos /\ fila[ex.c] = "ativa"
  BY DEF IInv, Tipos, Rodando, JaPublicada, JaPromovida
<1>2. live # <<>> /\ Last(live) \in De(ex.c)
  BY <1>1 DEF Topo
<1>3. /\ Front(live) \in Historias /\ Antes(Front(live), live) /\ Len(Front(live)) = Len(live) - 1
      /\ Len(live) \in Nat /\ Len(live) >= 1 /\ Last(live) = live[Len(live)]
      /\ DOMAIN Front(live) = 1..Len(Front(live)) /\ DOMAIN live = 1..Len(live)
  BY <1>1, <1>2, FrontAntes DEF Historias
<1>4. Boa(fila, Front(live))
  BY <1>3, BoaAntes DEF IInv, Ordenadas
<1>5. ASSUME NEW c \in Candidatos, fila[c] = "feita" PROVE Tem(Front(live), c)
  <2>1. PICK i \in DOMAIN live : live[i] \in De(c)
    BY <1>5 DEF IInv, Entregues, Tem
  <2>2. i # Len(live)
    BY <1>1, <1>2, <1>3, <1>5, <2>1, DeFatos
  <2>3. i \in DOMAIN Front(live) /\ Front(live)[i] \in De(c)
    BY <1>3, <2>1, <2>2 DEF Antes
  <2> QED
    BY <2>3 DEF Tem
<1>6. /\ cartao' \in Historias /\ rejeitados' \subseteq Historias /\ marcado' \subseteq Historias
      /\ boas' \subseteq Historias /\ sujo' \in BOOLEAN
  BY DEF IInv, Tipos
<1>7. /\ Boa(fila, live') /\ Boa(fila, origin') /\ Boa(fila, visto') /\ Boa(fila, ex.remoto)
      /\ Boa(fila, live)
  BY DEF IInv, Ordenadas
<1>8. \A c \in Candidatos : fila[c] = "feita" => Tem(live', c)
  BY DEF IInv, Entregues
<1>9. Topo(live', ex.c)
  BY <1>1
<1>10. ex.modo = "candidato" /\ ~ ex.aplicado /\ ~ ex.entregue
  BY DEF IInv, Rodando, Compativel, Local
<1>11. CASE ex' = [ex EXCEPT !.pc = "entrega", !.anterior = Front(live), !.entregue = TRUE]
  <2>1. /\ ex' \in ExTipo /\ ex'.pc = "entrega" /\ ex'.modo = ex.modo /\ ex'.c = ex.c
        /\ ex'.remoto = ex.remoto /\ ex'.anterior = Front(live)
    BY <1>3, <1>11 DEF IInv, Tipos, ExTipo, PCs
  <2>2. Compativel(ex')
    BY <2>1 DEF Compativel
  <2> QED
    BY <1>4, <1>5, <1>6, <1>7, <1>8, <1>9, <2>1, <2>2, Andamento
<1>12. CASE JaPromovida /\ ex' = [ex EXCEPT !.pc = "implanta", !.anterior = ex.remoto,
                                            !.aplicado = TRUE, !.remoto = live]
  <2>1. /\ ex' \in ExTipo /\ ex'.pc = "implanta" /\ ex'.modo = ex.modo /\ ex'.c = ex.c
        /\ ex'.remoto = live /\ ex'.anterior = Front(live)
    BY <1>1, <1>12 DEF IInv, Tipos, ExTipo, PCs, JaPromovida
  <2>2. Compativel(ex')
    BY <2>1 DEF Compativel
  <2> QED
    BY <1>4, <1>5, <1>6, <1>7, <1>8, <1>9, <2>1, <2>2, Andamento
<1> QED
  BY <1>11, <1>12

LEMMA PrepararSegue == ASSUME IInv, Preparar PROVE Segue
<1> USE DEF Preparar, manifestos, reversao, contas
<1>1. "promove" \in PCs
  BY DEF PCs
<1>2. /\ ex' \in ExTipo /\ ex'.pc = "promove" /\ ex'.modo = ex.modo /\ ex'.c = ex.c
      /\ ex'.remoto = ex.remoto /\ ex'.anterior = ex.anterior
      /\ ex'.aplicado = ex.aplicado /\ ex'.entregue = ex.entregue
  BY <1>1, VaiFatos
<1>3. Compativel(ex') /\ ex'.pc \notin Adiante
  BY <1>2 DEF IInv, Rodando, Compativel, Adiante
<1>4. /\ cartao' \in Historias /\ rejeitados' \subseteq Historias /\ marcado' \subseteq Historias
      /\ boas' \subseteq Historias /\ sujo' \in BOOLEAN
  BY DEF IInv, Tipos
<1> QED
  BY <1>2, <1>3, <1>4, Avanco

LEMMA ReverterSegue == ASSUME IInv, Reverter PROVE Segue
<1> USE DEF Reverter, manifestos, reversao, contas
<1>1. /\ ex' \in ExTipo /\ ex'.pc = "implanta" /\ ex'.modo = ex.modo /\ ex'.c = ex.c
      /\ ex'.remoto = ex.remoto /\ ex'.anterior = ex.anterior
      /\ ex'.aplicado = TRUE /\ ex'.entregue = ex.entregue
  BY DEF IInv, Tipos, ExTipo, PCs
<1>2. Compativel(ex') /\ ~ Local
  BY <1>1 DEF Compativel, Local, Reversao
<1>3. /\ cartao' \in Historias /\ rejeitados' \subseteq Historias /\ marcado' \subseteq Historias
      /\ boas' \subseteq Historias /\ sujo' \in BOOLEAN
  BY DEF IInv, Tipos
<1> QED
  BY <1>1, <1>2, <1>3, Avanco

LEMMA PerguntarSegue == ASSUME IInv, Perguntar PROVE Segue
<1> USE DEF Perguntar, manifestos, reversao, contas
<1>1. /\ cartao' \in Historias /\ rejeitados' \subseteq Historias /\ marcado' \subseteq Historias
      /\ boas' \subseteq Historias /\ sujo' \in BOOLEAN
  BY DEF IInv, Tipos
<1>2. Local => Topo(live, ex.c)
  BY DEF IInv, Entregues, Adiante
<1>3. CASE ex' = [ex EXCEPT !.pc = "entrega", !.entregue = TRUE]
  <2>1. /\ ex' \in ExTipo /\ ex'.pc = "entrega" /\ ex'.modo = ex.modo /\ ex'.c = ex.c
        /\ ex'.remoto = ex.remoto /\ ex'.anterior = ex.anterior
    BY <1>3 DEF IInv, Tipos, ExTipo, PCs
  <2>2. Compativel(ex')
    BY <2>1 DEF Compativel
  <2> QED
    BY <1>1, <1>2, <2>1, <2>2, Avanco
<1>4. CASE Vai(AoFalhar)
  <2>1. /\ ex' \in ExTipo /\ ex'.pc = AoFalhar /\ ex'.modo = ex.modo /\ ex'.c = ex.c
        /\ ex'.remoto = ex.remoto /\ ex'.anterior = ex.anterior
        /\ ex'.aplicado = ex.aplicado /\ ex'.entregue = ex.entregue
    BY <1>4, AoFalharFatos, VaiFatos
  <2>2. Compativel(ex') /\ ex'.pc \in {"entrega", "desfaz", "arquiva"}
    BY <2>1, AoFalharFatos DEF Compativel
  <2> QED
    BY <1>1, <1>2, <2>1, <2>2, Avanco
<1> QED
  BY <1>3, <1>4

LEMMA AvisarSegue == ASSUME IInv, Avisar PROVE Segue
<1> USE DEF Avisar, manifestos, contas
<1>1. /\ cartao' \in Historias /\ rejeitados' \subseteq Historias /\ marcado' \subseteq Historias
      /\ boas' \subseteq Historias /\ sujo' \in BOOLEAN
  BY DEF IInv, Tipos, ExTipo
<1>2. Local => Topo(live, ex.c)
  BY DEF IInv, Entregues, Adiante
<1>3. "guarda" \in PCs
  BY DEF PCs
<1>4. PICK pc \in {"guarda", AoFalhar} : Vai(pc) /\ pc \in PCs
  BY <1>3, AoFalharFatos
<1>5. /\ ex' \in ExTipo /\ ex'.pc = pc /\ ex'.modo = ex.modo /\ ex'.c = ex.c
      /\ ex'.remoto = ex.remoto /\ ex'.anterior = ex.anterior
      /\ ex'.aplicado = ex.aplicado /\ ex'.entregue = ex.entregue
  BY <1>4, VaiFatos
<1>6. pc \in {"guarda", "entrega", "desfaz", "arquiva"} /\ (pc = "desfaz" => ~ ex.entregue)
  BY <1>4, AoFalharFatos
<1>7. Compativel(ex')
  BY <1>5, <1>6 DEF Compativel
<1> QED
  BY <1>1, <1>2, <1>5, <1>6, <1>7, Avanco

LEMMA TiposIntactos ==
    ASSUME IInv, UNCHANGED <<rejeitados, sujo, reversao, boas>>
    PROVE  /\ cartao' \in Historias /\ rejeitados' \subseteq Historias
           /\ marcado' \subseteq Historias /\ boas' \subseteq Historias /\ sujo' \in BOOLEAN
  BY DEF IInv, Tipos, reversao

LEMMA BoasAgora ==
    ASSUME IInv
    PROVE  /\ Boa(fila, live) /\ Boa(fila, origin) /\ Boa(fila, visto) /\ Boa(fila, ex.remoto)
           /\ Boa(fila, ex.anterior)
           /\ live \in Historias /\ origin \in Historias /\ visto \in Historias
           /\ ex.remoto \in Historias /\ ex.anterior \in Historias
  BY DEF IInv, Ordenadas, Boa

\* Where live goes when it follows GitHub, it keeps what was delivered.
LEMMA FeitasAntes ==
    ASSUME IInv, NEW t \in Historias, IsPrefix(live, t), NEW c \in Candidatos, fila[c] = "feita"
    PROVE  Tem(t, c)
<1>1. Tem(live, c) /\ live \in Historias
  BY DEF IInv, Entregues, Tipos
<1> QED
  BY <1>1, PrefixoAntes, TemAntes

LEMMA SincronizarSegue == ASSUME IInv, Sincronizar PROVE Segue
<1> USE DEF Sincronizar, manifestos, reversao, contas
<1>1. /\ ex.modo = "candidato" /\ ~ ex.aplicado /\ ~ ex.entregue /\ ex.pc # "parado"
  BY DEF IInv, Rodando, Compativel, Local
<1>2. /\ cartao' \in Historias /\ rejeitados' \subseteq Historias
      /\ marcado' \subseteq Historias /\ boas' \subseteq Historias /\ sujo' \in BOOLEAN
  BY TiposIntactos
<1>3. Boa(fila, origin') /\ Boa(fila, visto') /\ Boa(fila, live') /\ Boa(fila, ex.remoto)
      /\ Boa(fila, ex.anterior) /\ Boa(fila, origin)
  BY BoasAgora
<1>4. \A c \in Candidatos : fila[c] = "feita" => Tem(live, c) /\ Tem(ex.anterior, c)
  BY <1>1 DEF IInv, Entregues
<1>5. ASSUME NEW pc \in {"prepara", "arquiva"}, Vai(pc), live' = live PROVE Segue
  <2>1. pc \in PCs
    BY <1>5 DEF PCs
  <2>2. /\ ex' \in ExTipo /\ ex'.pc = pc /\ ex'.modo = ex.modo /\ ex'.c = ex.c
        /\ ex'.remoto = ex.remoto /\ ex'.anterior = ex.anterior
        /\ ex'.aplicado = ex.aplicado /\ ex'.entregue = ex.entregue
    BY <1>5, <2>1, VaiFatos
  <2>3. Compativel(ex') /\ ex'.pc \notin Adiante /\ ex'.pc \in {"prepara", "arquiva"}
    BY <1>1, <1>5, <2>2 DEF Compativel, Adiante
  <2>4. \A c \in Candidatos : fila[c] = "feita" => Tem(live', c) /\ Tem(ex'.anterior, c)
    BY <1>4, <1>5, <2>2
  <2> QED
    BY <1>1, <1>2, <1>3, <2>2, <2>3, <2>4, Andamento
<1>6. CASE /\ IsPrefix(live, origin) /\ live' = origin
           /\ ex' = [ex EXCEPT !.pc = "prepara", !.anterior = origin]
  <2>1. origin \in Historias
    BY BoasAgora
  <2>2. /\ ex' \in ExTipo /\ ex'.pc = "prepara" /\ ex'.modo = ex.modo /\ ex'.c = ex.c
        /\ ex'.remoto = ex.remoto /\ ex'.anterior = origin
        /\ ex'.aplicado = ex.aplicado /\ ex'.entregue = ex.entregue
    BY <1>6, <2>1 DEF IInv, Tipos, ExTipo, PCs
  <2>3. Compativel(ex') /\ ex'.pc \notin Adiante
    BY <1>1, <2>2 DEF Compativel, Adiante
  <2>4. \A c \in Candidatos : fila[c] = "feita" => Tem(live', c) /\ Tem(ex'.anterior, c)
    BY <1>6, <2>1, <2>2, FeitasAntes
  <2> QED
    BY <1>1, <1>2, <1>3, <2>2, <2>3, <2>4, Andamento
<1>7. AoFalhar = "arquiva"
  BY <1>1 DEF AoFalhar
<1> QED
  BY <1>5, <1>6, <1>7

LEMMA PromoverSegue == ASSUME IInv, Promover PROVE Segue
<1> USE DEF Promover, manifestos, reversao, contas
<1>1. /\ ex.modo = "candidato" /\ ex.pc # "parado" /\ ex.c \in Candidatos /\ fila[ex.c] = "ativa"
      /\ ~ Presente(live, ex.c) /\ ~ ex.aplicado /\ ~ ex.entregue
  BY DEF IInv, Rodando, Compativel, Local, Ausencia
<1>2. /\ cartao' \in Historias /\ rejeitados' \subseteq Historias
      /\ marcado' \subseteq Historias /\ boas' \subseteq Historias /\ sujo' \in BOOLEAN
  BY TiposIntactos
<1>3. PICK x \in De(ex.c) : live' = Append(live, x)
  BY DEF De
<1>4. x \in Commits
  BY <1>1, <1>3, DeFatos
<1>5. \A d \in Candidatos : ex.c < d => fila[d] \notin Tiradas
  BY <1>1 DEF IInv, EmFila, Arquivadas
<1>6. Boa(fila, live') /\ Topo(live', ex.c)
  BY <1>1, <1>3, <1>5, BoasAgora, BoaCandidato DEF Tiradas
<1>7. live' \in Historias
  BY <1>6 DEF Boa
<1>8. /\ ex' \in ExTipo /\ ex'.pc = "implanta" /\ ex'.modo = ex.modo /\ ex'.c = ex.c
      /\ ex'.remoto = live' /\ ex'.anterior = ex.anterior
  BY <1>7 DEF IInv, Tipos, ExTipo, PCs
<1>9. Compativel(ex')
  BY <1>8 DEF Compativel
<1>10. \A c \in Candidatos : fila[c] = "feita" => Tem(live', c) /\ Tem(ex'.anterior, c)
  BY <1>1, <1>3, <1>4, <1>8, TemAppend, BoasAgora DEF IInv, Entregues
<1>11. Boa(fila, origin') /\ Boa(fila, visto') /\ Boa(fila, ex'.remoto) /\ Boa(fila, ex'.anterior)
  BY <1>6, <1>8, BoasAgora
<1> QED
  BY <1>1, <1>2, <1>6, <1>8, <1>9, <1>10, <1>11, Andamento

LEMMA RegistrarSegue == ASSUME IInv, Registrar PROVE Segue
<1> USE DEF Registrar, manifestos, contas
<1>1. Reversao /\ ex.modo = "pedido" /\ ex.pc # "parado"
  BY DEF IInv, Rodando, Compativel, Reversao
<1>2. /\ cartao' \in Historias /\ rejeitados' \subseteq Historias
      /\ marcado' \subseteq Historias /\ boas' \subseteq Historias /\ sujo' \in BOOLEAN
  BY DEF IInv, Tipos, reversao
<1>3. PICK x \in Reversoes : live' = Append(live, x)
  BY <1>1, VersaoFatos
<1>4. x \in Commits /\ \A c \in Candidatos : x \notin De(c)
  BY DeFatos DEF Commits
<1>5. Boa(fila, live')
  BY <1>3, <1>4, BoasAgora, BoaAlheia
<1>6. live' \in Historias
  BY <1>5 DEF Boa
<1>7. /\ ex' \in ExTipo /\ ex'.pc = "publica" /\ ex'.modo = ex.modo /\ ex'.c = ex.c
      /\ ex'.remoto = live' /\ ex'.anterior = ex.anterior
  BY <1>6 DEF IInv, Tipos, ExTipo, PCs
<1>8. Compativel(ex') /\ ~ Local
  BY <1>1, <1>7 DEF Compativel, Local
<1>9. \A c \in Candidatos : fila[c] = "feita" => Tem(live', c) /\ Tem(ex'.anterior, c)
  BY <1>1, <1>3, <1>4, <1>7, TemAppend, BoasAgora DEF IInv, Entregues
<1>10. Boa(fila, origin') /\ Boa(fila, visto') /\ Boa(fila, ex'.remoto) /\ Boa(fila, ex'.anterior)
  BY <1>5, <1>7, BoasAgora
<1>11. live' \in boas'
  BY DEF IInv, Validadas
<1> QED
  BY <1>1, <1>2, <1>5, <1>7, <1>8, <1>9, <1>10, <1>11, Andamento DEF reversao

LEMMA AplicarRemotoSegue == ASSUME IInv, AplicarRemoto PROVE Segue
<1> USE DEF AplicarRemoto, manifestos, reversao, contas
<1>1. ex.modo = "github" /\ ex.pc # "parado" /\ ~ Local
  BY DEF IInv, Rodando, Compativel, Local
<1>2. /\ cartao' \in Historias /\ rejeitados' \subseteq Historias
      /\ marcado' \subseteq Historias /\ boas' \subseteq Historias /\ sujo' \in BOOLEAN
  BY TiposIntactos
<1>3. live' = live \/ (IsPrefix(live, ex.remoto) /\ live' = ex.remoto)
  OBVIOUS
<1>4. \A c \in Candidatos : fila[c] = "feita" => Tem(live', c) /\ Tem(ex.anterior, c)
  <2>1. ex.remoto \in Historias
    BY BoasAgora
  <2> QED
    BY <1>1, <1>3, <2>1, FeitasAntes DEF IInv, Entregues
<1>5. /\ Boa(fila, live') /\ Boa(fila, origin') /\ Boa(fila, visto') /\ Boa(fila, ex.remoto)
      /\ Boa(fila, ex.anterior)
  BY <1>3, BoasAgora
<1>6. CASE ex' = [ex EXCEPT !.pc = "implanta", !.aplicado = TRUE]
  <2>1. /\ ex' \in ExTipo /\ ex'.pc = "implanta" /\ ex'.modo = ex.modo /\ ex'.c = ex.c
        /\ ex'.remoto = ex.remoto /\ ex'.anterior = ex.anterior
    BY <1>6 DEF IInv, Tipos, ExTipo, PCs
  <2>2. Compativel(ex')
    BY <2>1 DEF Compativel
  <2> QED
    BY <1>1, <1>2, <1>4, <1>5, <2>1, <2>2, Andamento
<1>7. CASE Vai(AoFalhar)
  <2>1. /\ ex' \in ExTipo /\ ex'.pc = AoFalhar /\ ex'.modo = ex.modo /\ ex'.c = ex.c
        /\ ex'.remoto = ex.remoto /\ ex'.anterior = ex.anterior
        /\ ex'.aplicado = ex.aplicado /\ ex'.entregue = ex.entregue
    BY <1>7, AoFalharFatos, VaiFatos
  <2>2. Compativel(ex') /\ ex'.pc \in {"entrega", "desfaz", "arquiva"}
    BY <2>1, AoFalharFatos DEF Compativel
  <2> QED
    BY <1>1, <1>2, <1>4, <1>5, <2>1, <2>2, Andamento
<1> QED
  BY <1>6, <1>7

LEMMA ImplantarSegue == ASSUME IInv, Implantar PROVE Segue
<1> USE DEF Implantar, manifestos, reversao
<1>1. ex.pc = "implanta" /\ ex.modo \in {"candidato", "pedido", "github"}
  BY DEF IInv, Tipos, ExTipo
<1>2. Local => Topo(live, ex.c)
  BY <1>1 DEF IInv, Entregues, Adiante
<1>3. CASE Vai(AoFalhar) /\ UNCHANGED boas
  <2>1. /\ ex' \in ExTipo /\ ex'.pc = AoFalhar /\ ex'.modo = ex.modo /\ ex'.c = ex.c
        /\ ex'.remoto = ex.remoto /\ ex'.anterior = ex.anterior
        /\ ex'.aplicado = ex.aplicado /\ ex'.entregue = ex.entregue
    BY <1>3, AoFalharFatos, VaiFatos
  <2>2. Compativel(ex') /\ ex'.pc \in {"entrega", "desfaz", "arquiva"}
    BY <2>1, AoFalharFatos DEF Compativel
  <2>3. /\ cartao' \in Historias /\ rejeitados' \subseteq Historias
        /\ marcado' \subseteq Historias /\ boas' \subseteq Historias /\ sujo' \in BOOLEAN
    BY <1>3, TiposIntactos
  <2> QED
    BY <1>1, <1>2, <2>1, <2>2, <2>3, Avanco
<1>4. ASSUME NEW pc \in {"publica", "registra", "entrega"}, NEW b \in BOOLEAN,
             boas' = boas \cup {Versao}, ex' = [ex EXCEPT !.pc = pc, !.entregue = b],
             pc = "publica" => ex.modo = "candidato", pc = "registra" => ex.modo = "pedido"
      PROVE  Segue
  <2>1. /\ ex' \in ExTipo /\ ex'.pc = pc /\ ex'.modo = ex.modo /\ ex'.c = ex.c
        /\ ex'.remoto = ex.remoto /\ ex'.anterior = ex.anterior
    BY <1>4 DEF IInv, Tipos, ExTipo, PCs
  <2>2. Compativel(ex') /\ ex'.pc \in {"publica", "registra", "entrega"}
    BY <1>4, <2>1 DEF Compativel
  <2>3. Versao \in Historias /\ (ex.modo = "candidato" => Versao = live)
    BY <1>1, VersaoFatos DEF Reversao
  <2>4. /\ cartao' \in Historias /\ rejeitados' \subseteq Historias
        /\ marcado' \subseteq Historias /\ boas' \subseteq Historias /\ sujo' \in BOOLEAN
    BY <1>4, <2>3 DEF IInv, Tipos
  <2>5. Versao' = Versao
    BY <2>1 DEF Versao, Reversao
  <2>6. Versao' \in boas' /\ (ex'.pc = "publica" => live \in boas')
    BY <1>4, <2>1, <2>3, <2>5
  <2> QED
    BY <1>1, <1>2, <2>1, <2>2, <2>4, <2>6, Avanco
<1>5. CASE /\ boas' = boas \cup {Versao}
           /\ ex' = [ex EXCEPT !.pc = IF Local THEN "publica"
                                      ELSE IF Reversao THEN "registra" ELSE "entrega",
                               !.entregue = ex.modo = "github"]
  <2> DEFINE pc == IF Local THEN "publica" ELSE IF Reversao THEN "registra" ELSE "entrega"
             b == ex.modo = "github"
  <2>1. /\ pc \in {"publica", "registra", "entrega"} /\ b \in BOOLEAN
        /\ pc = "publica" => ex.modo = "candidato"
        /\ pc = "registra" => ex.modo = "pedido"
    BY DEF Local, Reversao
  <2>2. ex' = [ex EXCEPT !.pc = pc, !.entregue = b] /\ boas' = boas \cup {Versao}
    BY <1>5
  <2> HIDE DEF pc, b
  <2> QED
    BY <1>4, <2>1, <2>2
<1> QED
  BY <1>3, <1>5

LEMMA PublicarSegue == ASSUME IInv, Publicar PROVE Segue
<1> USE DEF Publicar, manifestos, reversao, contas
<1>1. ex.pc = "publica" /\ ex.modo \in {"candidato", "pedido"} /\ ex.pc # "parado"
  BY DEF IInv, Rodando, Compativel
<1>2. /\ cartao' \in Historias /\ rejeitados' \subseteq Historias
      /\ marcado' \subseteq Historias /\ boas' \subseteq Historias /\ sujo' \in BOOLEAN
  BY TiposIntactos
<1>3. Topo(live', ex.c) \/ ~ Local
  BY <1>1 DEF IInv, Entregues, Adiante
<1>4. \A c \in Candidatos : fila[c] = "feita" => Tem(live', c) /\ Tem(ex.anterior, c)
  BY <1>1 DEF IInv, Entregues
<1>5. /\ Boa(fila, live') /\ Boa(fila, origin') /\ Boa(fila, visto') /\ Boa(fila, ex.remoto)
      /\ Boa(fila, ex.anterior)
  BY BoasAgora
<1>6. CASE ex' = [ex EXCEPT !.pc = "entrega", !.entregue = TRUE]
  <2>1. /\ ex' \in ExTipo /\ ex'.pc = "entrega" /\ ex'.modo = ex.modo /\ ex'.c = ex.c
        /\ ex'.remoto = ex.remoto /\ ex'.anterior = ex.anterior
    BY <1>6 DEF IInv, Tipos, ExTipo, PCs
  <2>2. Compativel(ex')
    BY <2>1 DEF Compativel
  <2> QED
    BY <1>1, <1>2, <1>3, <1>4, <1>5, <2>1, <2>2, Andamento
<1>7. CASE Vai(IF Local THEN "pergunta" ELSE AoFalhar)
  <2>1. PICK pc \in {"pergunta", AoFalhar} : Vai(pc) /\ pc \in PCs /\ (pc = "pergunta" => ex.modo = "candidato")
    BY <1>7, AoFalharFatos DEF Local, PCs
  <2>2. /\ ex' \in ExTipo /\ ex'.pc = pc /\ ex'.modo = ex.modo /\ ex'.c = ex.c
        /\ ex'.remoto = ex.remoto /\ ex'.anterior = ex.anterior
        /\ ex'.aplicado = ex.aplicado /\ ex'.entregue = ex.entregue
    BY <2>1, VaiFatos
  <2>3. pc \in {"pergunta", "entrega", "desfaz", "arquiva"} /\ (pc = "desfaz" => ~ ex.entregue)
    BY <2>1, AoFalharFatos
  <2>4. Compativel(ex')
    BY <2>1, <2>2, <2>3 DEF Compativel
  <2> QED
    BY <1>1, <1>2, <1>3, <1>4, <1>5, <2>2, <2>3, <2>4, Andamento
<1> QED
  BY <1>6, <1>7

-----------------------------------------------------------------------------
\* The theorems.

LEMMA InicioVale == Init => IInv
<1> SUFFICES ASSUME Init PROVE IInv
  OBVIOUS
<1> USE DEF Init
<1>1. Tipos
  <2>1. /\ fila \in [Candidatos -> Estados] /\ retomadas \in [Candidatos -> Nat]
        /\ base \in [Candidatos -> Historias]
    BY VaziaFatos DEF Estados
  <2>2. /\ live \in Historias /\ origin \in Historias /\ visto \in Historias /\ cartao \in Historias
        /\ sujo \in BOOLEAN /\ ex \in ExTipo
        /\ pedido \in [estado : {"nenhum", "pendente", "ativo"}, alvo : Historias]
    BY VaziaFatos, ParadoFatos, SemPedidoFatos
  <2>3. /\ espera \subseteq PorConfirmar
        /\ rejeitados \subseteq Historias /\ marcado \subseteq Historias /\ boas \subseteq Historias
        /\ pedidos \in 0..MaxPedidos /\ quedas \in 0..MaxQuedas
    BY UpdaterAssumption
  <2> QED
    BY <2>1, <2>2, <2>3 DEF Tipos
<1>2. Rodando
  BY ParadoFatos, SemPedidoFatos DEF Rodando
<1>3. Retomadas
  BY UpdaterAssumption DEF Retomadas
<1>4. EmFila
  BY DEF EmFila, Tiradas
<1>5. Ordenadas
  BY ParadoFatos, BoaVazia DEF Ordenadas
<1>6. Ausencia /\ Validadas
  BY ParadoFatos DEF Ausencia, Validadas
<1>7. Entregues
  BY ParadoFatos DEF Entregues, Adiante
<1> QED
  BY <1>1, <1>2, <1>3, <1>4, <1>5, <1>6, <1>7 DEF IInv

LEMMA ParadaVale == IInv /\ UNCHANGED vars => Segue
<1> SUFFICES ASSUME IInv, UNCHANGED vars PROVE Segue
  OBVIOUS
<1> USE DEF vars, manifestos, reversao, contas
<1>1. Tipos'
  BY DEF IInv, Tipos
<1>2. Rodando' /\ Retomadas' /\ EmFila' /\ Ordenadas' /\ Ausencia' /\ Entregues' /\ Validadas'
  BY DEF IInv, Rodando, Retomadas, EmFila, Ordenadas, Ausencia, Entregues, Validadas, Versao,
         Local, Reversao
<1> QED
  BY <1>1, <1>2 DEF Segue, IInv

LEMMA PassoVale == IInv /\ [Next]_vars => IInv'
<1>1. ASSUME IInv, Passo PROVE Segue
  BY <1>1, RetomarSegue, ReivindicarSegue, PegarPedidoSegue, OlharGitHubSegue, RejeitarSegue,
     DesfazerSegue, PararSujoSegue, ReconhecerSegue, SincronizarSegue, NadaMudaSegue,
     PrepararSegue, PromoverSegue, ReverterSegue, RegistrarSegue, TestarRemotoSegue,
     AplicarRemotoSegue, ImplantarSegue, PublicarSegue, PerguntarSegue, AvisarSegue,
     GuardarSegue DEF Passo
<1>2. ASSUME IInv, Next PROVE Segue
  BY <1>1, <1>2, EnviarSegue, ConfirmarSegue, PedirReversaoSegue, PushExternoSegue,
     LimparSegue, QuedaSegue DEF Next
<1> QED
  BY <1>2, ParadaVale DEF Segue

\* The inductive invariant holds in every state an execution, a delivery or a
\* push of somebody else may lead to.
THEOREM Invariante == Spec => []IInv
  BY InicioVale, PassoVale, PTL DEF Spec

(* The queue is served in order, for any number of candidates, of executions *)
(* killed and of commits of other people: an item that an execution left     *)
(* active (fila.sh) is finished before a later one is taken, and live and    *)
(* GitHub hold the commits in the order of the queue, each candidate once or *)
(* again over its reversal; the items are resumed a bounded number of times. *)
THEOREM FilaServidaEmOrdem == Spec => []FilaEmOrdem
<1>1. IInv => FilaEmOrdem
  <2> SUFFICES ASSUME IInv PROVE FilaEmOrdem
    OBVIOUS
  <2>1. /\ fila \in [Candidatos -> {"nova", "pendente", "ativa", "feita", "falha"}]
        /\ base \in [Candidatos -> Historias] /\ espera \subseteq PorConfirmar
        /\ {live, origin, visto, cartao} \cup rejeitados \cup marcado \cup boas \subseteq Historias
        /\ sujo \in BOOLEAN
        /\ pedido.estado \in {"nenhum", "pendente", "ativo"} /\ pedido.alvo \in Historias
    BY DEF IInv, Tipos, Estados
  <2>2. retomadas \in [Candidatos -> 0..(MaxQuedas + MaxRetomadas + 1)]
    <3>1. /\ MaxQuedas \in Nat /\ MaxRetomadas \in Nat /\ quedas \in 0..MaxQuedas
          /\ retomadas \in [Candidatos -> Nat]
          /\ \A c \in Candidatos : retomadas[c] <= MaxRetomadas + quedas + 1
      BY UpdaterAssumption DEF IInv, Tipos, Retomadas
    <3>2. \A c \in Candidatos : retomadas[c] \in 0..(MaxQuedas + MaxRetomadas + 1)
      BY <3>1
    <3> QED
      BY <3>1, <3>2
  <2>3. /\ ex.pc \in {"parado", "conferir", "prepara", "promove", "registra", "testa", "aplica",
                      "implanta", "publica", "pergunta", "entrega", "guarda", "desfaz", "arquiva"}
        /\ ex.modo \in {"candidato", "pedido", "github"} /\ ex.c \in 0..N
        /\ {ex.remoto, ex.anterior} \subseteq Historias
        /\ {ex.aplicado, ex.entregue} \subseteq BOOLEAN
    BY DEF IInv, Tipos, ExTipo, PCs
  <2>4. TypeOK
    BY <2>1, <2>2, <2>3 DEF TypeOK
  <2>5. NaOrdem(live) /\ NaOrdem(origin)
    BY DEF IInv, Ordenadas, Boa
  <2>6. \A c, d \in Candidatos :
          c < d /\ fila[d] \in {"ativa", "feita", "falha"} => fila[c] \in {"feita", "falha"}
    BY DEF IInv, EmFila, Tiradas, Arquivadas
  <2> QED
    BY <2>4, <2>5, <2>6 DEF FilaEmOrdem
<1> QED
  BY <1>1, Invariante, PTL

(* GitHub only receives from the updater a version whose deploy passed its   *)
(* checks on the VPS (publicacao.sh after implantacao.sh), also when an      *)
(* execution resumes what a killed one had promoted.                         *)
THEOREM SoValidadaSai == Spec => PublicaSoValidada
<1> DEFINE A == origin' # origin /\ Last(origin') \notin Externos => origin' \in boas
<1>1. IInv /\ [Next]_vars => A
  <2> SUFFICES ASSUME IInv, Next, origin' # origin PROVE A
    BY DEF vars
  <2>1. CASE Publicar
    BY <2>1 DEF Publicar, IInv, Validadas
  <2>2. ASSUME NEW x \in Externos, PushExterno(x) PROVE A
    <3>1. origin \in Historias /\ x \in Commits
      BY DEF IInv, Tipos, Commits
    <3>2. Last(origin') = x
      BY <2>2, <3>1, AppendFatos DEF PushExterno, Last
    <3> QED
      BY <3>2
  <2>3. Publicar \/ \E x \in Externos : PushExterno(x)
    BY DEF Next, Passo, Enviar, Confirmar, PedirReversao, LimparCheckout, Queda, Retomar,
           Reivindicar, PegarPedido, OlharGitHub, Examinar, Rejeitar, Desfazer, PararSujo,
           Reconhecer, Sincronizar, NadaMuda, Preparar, Promover, Reverter, Registrar,
           TestarRemoto, AplicarRemoto, Implantar, Perguntar, Avisar, Guardar
  <2> QED
    BY <2>1, <2>2, <2>3
<1>2. IInv /\ [Next]_vars => [A]_vars
  BY <1>1
<1> QED
  BY <1>2, Invariante, PTL DEF Spec, PublicaSoValidada

\* What live may become in a step that a delivered candidate is in.
LEMMA LiveMuda ==
    ASSUME IInv, Next, live' # live
    PROVE  Sincronizar \/ Promover \/ Registrar \/ AplicarRemoto \/ Desfazer
  BY DEF Next, Passo, Enviar, Confirmar, PedirReversao, LimparCheckout, Queda, Retomar,
         Reivindicar, PegarPedido, OlharGitHub, Examinar, Rejeitar, PushExterno, PararSujo,
         Reconhecer, NadaMuda, Preparar, Reverter, TestarRemoto, Implantar, Publicar,
         Perguntar, Avisar, Guardar

(* What was delivered stays in live: no step of any execution takes a        *)
(* delivered candidate out of it, not the rollback of a later candidate, of  *)
(* a reversal or of a commit of GitHub, and no failure after its own push    *)
(* (falhas.sh: "nao pode resetar somente a VPS").                            *)
THEOREM EntregueFica == Spec => PublicadaFica
<1> DEFINE A == \A c \in Candidatos : Entregue(c) /\ Tem(live, c) =>
                    \E i \in DOMAIN live' : live'[i] \in De(c)
<1>1. IInv /\ [Next]_vars => A
  <2> SUFFICES ASSUME IInv, [Next]_vars, NEW c \in Candidatos, Entregue(c), Tem(live, c)
               PROVE  Tem(live', c)
    BY DEF Tem
  <2>1. live \in Historias /\ origin \in Historias /\ ex.remoto \in Historias
    BY BoasAgora
  <2>2. CASE live' = live
    BY <2>2
  <2>3. CASE live' # live
    <3>1. Next /\ (Sincronizar \/ Promover \/ Registrar \/ AplicarRemoto \/ Desfazer)
      BY <2>3, LiveMuda DEF vars
    <3>2. CASE Sincronizar
      <4>1. IsPrefix(live, origin) /\ live' = origin
        BY <2>3, <3>2 DEF Sincronizar
      <4> QED
        BY <2>1, <4>1, PrefixoAntes, TemAntes
    <3>3. CASE AplicarRemoto
      <4>1. IsPrefix(live, ex.remoto) /\ live' = ex.remoto
        BY <2>3, <3>3 DEF AplicarRemoto
      <4> QED
        BY <2>1, <4>1, PrefixoAntes, TemAntes
    <3>4. CASE Promover
      <4>1. ex.c \in Candidatos
        BY <3>4 DEF Promover, IInv, Rodando, Compativel, Local
      <4>2. PICK x \in De(ex.c) : live' = Append(live, x)
        BY <3>4 DEF Promover, De
      <4> QED
        BY <2>1, <4>1, <4>2, DeFatos, TemAppend
    <3>5. CASE Registrar
      <4>1. Reversao /\ ex.pc # "parado" /\ live' = Versao
        BY <3>5 DEF Registrar, IInv, Rodando, Compativel, Reversao
      <4>2. PICK x \in Reversoes : live' = Append(live, x)
        BY <4>1, VersaoFatos
      <4>3. x \in Commits
        BY DEF Commits
      <4> QED
        BY <2>1, <4>2, <4>3, TemAppend
    <3>6. CASE Desfazer
      <4>1. live' = ex.anterior /\ ex.pc = "desfaz" /\ ~ ex.entregue
        BY <3>6 DEF Desfazer, IInv, Rodando, Compativel
      <4>2. fila[c] = "feita"
        BY <4>1 DEF Entregue
      <4> QED
        BY <4>1, <4>2 DEF IInv, Entregues
    <3> QED
      BY <3>1, <3>2, <3>3, <3>4, <3>5, <3>6
  <2> QED
    BY <2>2, <2>3
<1>2. IInv /\ [Next]_vars => [A]_vars
  BY <1>1
<1> QED
  BY <1>2, Invariante, PTL DEF Spec, PublicadaFica

-----------------------------------------------------------------------------
(* What was archived as done is on GitHub. A commit is the history that ends *)
(* in it, so GitHub has the i-th of h when it begins as h does up to there.  *)
Ate(o, h, i) == i <= Len(o) /\ \A k \in 1..i : h[k] = o[k]

\* h has a commit that GitHub does not have and that is not c's.
Resta(o, h, c) == \E i \in DOMAIN h : h[i] \notin De(c) /\ ~ Ate(o, h, i)
Chegou(o, h, c) == Tem(o, c) \/ Resta(o, h, c)

\* A history that live may be in, with GitHub at o and last seen at v: it holds
\* no commit of others that GitHub lost; if it is ahead, GitHub was seen where it
\* is; and what was archived as done is on GitHub, or not alone in being missing.
Sadia(o, v, f, h) ==
    /\ \A i \in DOMAIN h : h[i] \in Externos => \E j \in DOMAIN o : o[j] = h[i]
    /\ Antes(o, h) /\ Len(o) < Len(h) => v = o
    /\ \A c \in Candidatos : f[c] = "feita" => Chegou(o, h, c)

Sadias ==
    /\ Sadia(origin, visto, fila, live)
    /\ ex.pc # "parado" => Sadia(origin, visto, fila, ex.anterior)
    /\ Len(ex.anterior) <= Len(live)

\* The tracking ref and what an execution read from it may lag, no more.
Vistas ==
    /\ Antes(visto, origin)
    /\ ex.pc = "conferir" => ex.remoto = visto
    /\ ex.pc \in {"testa", "aplica"} => Antes(ex.remoto, origin)

\* Before a commit is made on top of live, GitHub is not seen behind it.
PorCima(e) == \/ e.pc \in {"prepara", "promove"}
              \/ e.modo = "pedido" /\ e.pc \in {"conferir", "implanta", "registra"}
Recente == PorCima(ex) /\ Antes(origin, live) => visto = origin

Prontas ==
    /\ ex.pc = "prepara" /\ Tem(live, ex.c) => Chegou(origin, live, ex.c)
    /\ ex.pc # "parado" /\ Local /\ (ex.pc \in {"entrega", "guarda"} \/ ex.entregue)
          => Tem(origin, ex.c)

PInv == Sadias /\ Vistas /\ Recente /\ Prontas

\* What GitHub has already is sound.
LEMMA SadiaDeOrigem ==
    ASSUME NEW o \in Historias, NEW v, NEW f, NEW h \in Historias, Antes(h, o),
           \A c \in Candidatos : f[c] = "feita" => Tem(h, c)
    PROVE  Sadia(o, v, f, h)
<1>1. /\ DOMAIN h = 1..Len(h) /\ DOMAIN o = 1..Len(o) /\ Len(h) \in Nat /\ Len(o) \in Nat
      /\ Len(h) <= Len(o) /\ \A i \in 1..Len(h) : h[i] = o[i]
  BY DEF Historias, Antes
<1>2. \A i \in DOMAIN h : i \in DOMAIN o /\ o[i] = h[i]
  BY <1>1
<1>3. \A c \in Candidatos : f[c] = "feita" => Tem(o, c)
  BY TemAntes
<1>4. ~ (Len(o) < Len(h))
  BY <1>1
<1> QED
  BY <1>2, <1>3, <1>4 DEF Sadia, Chegou

\* A commit of ours on top of a sound history, with GitHub seen where it is.
LEMMA SadiaMais ==
    ASSUME NEW o \in Historias, NEW v, NEW f, NEW h \in Historias, NEW x \in Commits,
           x \notin Externos, Sadia(o, v, f, h), Antes(o, h) => v = o
    PROVE  Sadia(o, v, f, Append(h, x))
<1> DEFINE t == Append(h, x)
<1>1. /\ t \in Historias /\ Len(t) = Len(h) + 1 /\ DOMAIN t = 1..(Len(h) + 1)
      /\ DOMAIN h = 1..Len(h) /\ Len(h) \in Nat
      /\ \A i \in DOMAIN h : t[i] = h[i]
      /\ t[Len(h) + 1] = x
  BY AppendFatos
<1>2. Len(o) \in Nat
  BY DEF Historias
<1> HIDE DEF t
<1>3. ASSUME NEW i \in DOMAIN t, t[i] \in Externos PROVE \E j \in DOMAIN o : o[j] = t[i]
  <2>1. i \in DOMAIN h
    BY <1>1, <1>3
  <2> QED
    BY <1>1, <1>3, <2>1 DEF Sadia
<1>4. ASSUME Antes(o, t), Len(o) < Len(t) PROVE v = o
  <2>1. Antes(o, h)
    BY <1>1, <1>2, <1>4 DEF Antes
  <2> QED
    BY <2>1
<1>5. ASSUME NEW c \in Candidatos, f[c] = "feita" PROVE Chegou(o, t, c)
  <2>1. CASE Tem(o, c)
    BY <2>1 DEF Chegou
  <2>2. CASE Resta(o, h, c)
    <3>1. PICK i \in DOMAIN h : h[i] \notin De(c) /\ ~ Ate(o, h, i)
      BY <2>2 DEF Resta
    <3>2. i \in DOMAIN t /\ t[i] = h[i] /\ \A k \in 1..i : t[k] = h[k]
      BY <1>1
    <3>3. ~ Ate(o, t, i)
      BY <3>1, <3>2 DEF Ate
    <3> QED
      BY <3>1, <3>2, <3>3 DEF Chegou, Resta
  <2> QED
    BY <1>5, <2>1, <2>2 DEF Sadia, Chegou
<1>6. Sadia(o, v, f, t)
  BY <1>3, <1>4, <1>5 DEF Sadia
<1> QED
  BY <1>6 DEF t

\* A fetch, and an archive of what has arrived.
LEMMA SadiaVista ==
    ASSUME NEW o, NEW v, NEW w \in {v, o}, NEW f, NEW g, NEW h, Sadia(o, v, f, h),
           \A c \in Candidatos : g[c] = "feita" => f[c] = "feita" \/ Chegou(o, h, c)
    PROVE  Sadia(o, w, g, h)
  BY DEF Sadia

\* A commit of somebody else on GitHub is none that the history already has.
LEMMA SadiaEmpurra ==
    ASSUME NEW o \in Historias, NEW v, NEW f, NEW h \in Historias, NEW x \in Externos,
           \A j \in DOMAIN o : o[j] # x, Sadia(o, v, f, h)
    PROVE  Sadia(Append(o, x), v, f, h)
<1> DEFINE p == Append(o, x)
<1>1. x \in Commits
  BY DEF Commits
<1>2. /\ p \in Historias /\ Len(p) = Len(o) + 1 /\ DOMAIN p = 1..(Len(o) + 1)
      /\ DOMAIN o = 1..Len(o) /\ Len(o) \in Nat
      /\ \A i \in DOMAIN o : p[i] = o[i]
      /\ p[Len(o) + 1] = x
      /\ DOMAIN h = 1..Len(h) /\ Len(h) \in Nat
  BY <1>1, AppendFatos DEF Historias
<1> HIDE DEF p
<1>3. \A i \in DOMAIN h : h[i] # x
  BY DEF Sadia
<1>4. \A i \in DOMAIN h : h[i] \in Externos => \E j \in DOMAIN p : p[j] = h[i]
  BY <1>2 DEF Sadia
<1>5. ~ (Antes(p, h) /\ Len(p) < Len(h))
  BY <1>2, <1>3 DEF Antes
<1>6. ASSUME NEW c \in Candidatos, f[c] = "feita" PROVE Chegou(p, h, c)
  <2>1. CASE Tem(o, c)
    BY <1>1, <2>1, TemAppend DEF Chegou, p
  <2>2. CASE Resta(o, h, c)
    <3>1. PICK i \in DOMAIN h : h[i] \notin De(c) /\ ~ Ate(o, h, i)
      BY <2>2 DEF Resta
    <3>2. ~ Ate(p, h, i)
      BY <1>2, <1>3, <3>1 DEF Ate
    <3> QED
      BY <3>1, <3>2 DEF Chegou, Resta
  <2> QED
    BY <1>6, <2>1, <2>2 DEF Sadia, Chegou
<1>7. Sadia(p, v, f, h)
  BY <1>4, <1>5, <1>6 DEF Sadia
<1> QED
  BY <1>7 DEF p

\* A push of live, over all that GitHub had.
LEMMA SadiaEntrega ==
    ASSUME NEW o \in Historias, NEW v, NEW w, NEW f, NEW h \in Historias, NEW l \in Historias,
           Antes(o, l), Len(h) <= Len(l), Sadia(o, v, f, h),
           \A c \in Candidatos : f[c] = "feita" => Tem(l, c)
    PROVE  Sadia(l, w, f, h)
<1>1. /\ DOMAIN l = 1..Len(l) /\ DOMAIN o = 1..Len(o) /\ Len(l) \in Nat /\ Len(o) \in Nat
      /\ Len(h) \in Nat /\ Len(o) <= Len(l) /\ \A i \in 1..Len(o) : o[i] = l[i]
  BY DEF Historias, Antes
<1>2. \A j \in DOMAIN o : j \in DOMAIN l /\ l[j] = o[j]
  BY <1>1
<1>3. ~ (Len(l) < Len(h))
  BY <1>1
<1> QED
  BY <1>2, <1>3 DEF Sadia, Chegou

\* One history that goes on where another ends goes on where its beginnings end.
LEMMA AntesAntes ==
    ASSUME NEW s \in Historias, NEW t \in Historias, NEW u \in Historias, Antes(s, t), Antes(t, u)
    PROVE  Antes(s, u)
<1>1. Len(s) \in Nat /\ Len(t) \in Nat /\ Len(u) \in Nat
  BY DEF Historias
<1> QED
  BY <1>1 DEF Antes

LEMMA AntesIguais ==
    ASSUME NEW s \in Historias, NEW t \in Historias, Antes(s, t), Len(t) <= Len(s)
    PROVE  s = t
<1>1. Len(s) \in Nat /\ Len(t) \in Nat
  BY DEF Historias
<1>2. Len(s) = Len(t) /\ \A i \in 1..Len(s) : s[i] = t[i]
  BY <1>1 DEF Antes
<1>3. s \in [1..Len(s) -> Commits] /\ t \in [1..Len(t) -> Commits]
  BY DEF Historias
<1> QED
  BY <1>2, <1>3

-----------------------------------------------------------------------------
\* The steps that push nothing and make no commit.

\* Nothing that the invariant looks at changes.
LEMMA Alheia ==
    ASSUME PInv, UNCHANGED <<live, origin, visto, ex>>,
           \A c \in Candidatos : fila'[c] = "feita" => fila[c] = "feita"
    PROVE  PInv'
<1>1. Sadias'
  BY SadiaVista DEF PInv, Sadias
<1> QED
  BY <1>1 DEF PInv, Vistas, Recente, Prontas, Local

\* The execution ends; what it archives as done has arrived.
LEMMA Pausa ==
    ASSUME IInv, PInv, ex.pc # "parado", ex' = Parado, origin' = origin, visto' = visto,
           live' \in {live, ex.anterior},
           \A c \in Candidatos : fila'[c] = "feita" => fila[c] = "feita" \/ Chegou(origin, live', c)
    PROVE  PInv'
<1>1. ex'.pc = "parado" /\ ex'.anterior = <<>> /\ ex'.modo = "github"
  BY ParadoFatos
<1>2. Sadia(origin, visto, fila, live')
  BY DEF PInv, Sadias
<1>3. Sadia(origin', visto', fila', live')
  BY <1>2, SadiaVista
<1>4. Len(ex'.anterior) <= Len(live')
  BY <1>1, BoasAgora DEF Historias
<1>5. Sadias'
  BY <1>1, <1>3, <1>4 DEF Sadias
<1>6. Vistas' /\ Recente' /\ Prontas'
  BY <1>1 DEF PInv, Vistas, Recente, PorCima, Prontas
<1> QED
  BY <1>5, <1>6 DEF PInv

\* An execution begins, with live as what a failure would go back to.
LEMMA Comecada ==
    ASSUME IInv, PInv, UNCHANGED <<live, origin>>, visto' \in {visto, origin},
           ex'.anterior = live, ~ ex'.entregue, ex'.pc \in {"conferir", "testa"},
           ex'.remoto = visto', ex'.pc = "testa" => visto' = origin,
           ex'.modo = "pedido" => visto' = origin,
           \A c \in Candidatos : fila'[c] = "feita" => fila[c] = "feita"
    PROVE  PInv'
<1>1. Sadia(origin', visto', fila', live')
  BY SadiaVista DEF PInv, Sadias
<1>2. Len(live) \in Nat
  BY BoasAgora DEF Historias
<1>3. Sadias'
  BY <1>1, <1>2 DEF Sadias
<1>4. Antes(origin, origin)
  BY BoasAgora DEF Antes, Historias
<1>5. Vistas'
  BY <1>4 DEF PInv, Vistas
<1>6. Recente' /\ Prontas'
  BY DEF Recente, PorCima, Prontas, Local
<1> QED
  BY <1>3, <1>5, <1>6 DEF PInv

\* An execution goes on, or back to where it began.
LEMMA Prossegue ==
    ASSUME IInv, PInv, ex.pc # "parado", UNCHANGED <<origin, visto, fila>>,
           live' \in {live, ex.anterior}, ex'.anterior = ex.anterior,
           ex'.c = ex.c, ex'.modo = ex.modo,
           ex'.pc \notin {"parado", "conferir", "testa", "prepara"},
           ex'.pc = "aplica" => Antes(ex'.remoto, origin),
           PorCima(ex') => PorCima(ex) /\ live' = live,
           Local /\ (ex'.pc \in {"entrega", "guarda"} \/ ex'.entregue) => Tem(origin, ex.c)
    PROVE  PInv'
<1>1. Len(ex.anterior) \in Nat /\ Len(live) \in Nat
  BY BoasAgora DEF Historias
<1>2. Sadias'
  BY <1>1 DEF PInv, Sadias
<1>3. Vistas' /\ Recente' /\ Prontas'
  BY DEF PInv, Vistas, Recente, Prontas, Local
<1> QED
  BY <1>2, <1>3 DEF PInv

LEMMA MundoChega ==
    ASSUME IInv, PInv,
           \/ \E c \in Candidatos : Enviar(c) \/ Confirmar(c)
           \/ PedirReversao \/ LimparCheckout \/ UNCHANGED vars
    PROVE  PInv'
<1>1. ASSUME NEW c \in Candidatos, Enviar(c)
      PROVE  \A d \in Candidatos : fila'[d] = "feita" => fila[d] = "feita"
  BY <1>1 DEF Enviar, IInv, Tipos
<1> QED
  BY <1>1, Alheia DEF Enviar, Confirmar, PedirReversao, LimparCheckout, vars

LEMMA PushExternoChega == ASSUME IInv, PInv, NEW x \in Externos, PushExterno(x) PROVE PInv'
<1>1. /\ origin' = Append(origin, x) /\ UNCHANGED <<live, visto, fila, ex>>
      /\ \A j \in DOMAIN origin : origin[j] # x
  BY DEF PushExterno
<1>2. /\ live \in Historias /\ origin \in Historias /\ ex.anterior \in Historias
      /\ visto \in Historias /\ ex.remoto \in Historias /\ x \in Commits
  BY BoasAgora DEF Commits
<1>3. Sadias'
  BY <1>1, <1>2, SadiaEmpurra DEF PInv, Sadias
<1>4. Antes(origin, origin') /\ origin' \in Historias
  BY <1>1, <1>2, AppendAntes, AppendFatos
<1>5. Vistas'
  BY <1>1, <1>2, <1>4, AntesAntes DEF PInv, Vistas
<1>6. \A i \in DOMAIN live : live[i] # x
  BY <1>1 DEF PInv, Sadias, Sadia
<1>7. ~ Antes(origin', live)
  <2>1. /\ Len(origin') = Len(origin) + 1 /\ Len(origin) \in Nat /\ origin'[Len(origin) + 1] = x
        /\ DOMAIN live = 1..Len(live) /\ Len(live) \in Nat
    BY <1>1, <1>2, AppendFatos DEF Historias
  <2> QED
    BY <1>6, <2>1 DEF Antes
<1>8. Recente'
  BY <1>1, <1>7 DEF Recente
<1>9. Prontas'
  <2>1. ASSUME Chegou(origin, live, ex.c) PROVE Chegou(origin', live, ex.c)
    <3>1. CASE Tem(origin, ex.c)
      BY <1>1, <1>2, <3>1, TemAppend DEF Chegou
    <3>2. CASE Resta(origin, live, ex.c)
      <4>1. PICK i \in DOMAIN live : live[i] \notin De(ex.c) /\ ~ Ate(origin, live, i)
        BY <3>2 DEF Resta
      <4>2. /\ DOMAIN origin = 1..Len(origin) /\ Len(origin) \in Nat
            /\ Len(origin') = Len(origin) + 1 /\ origin'[Len(origin) + 1] = x
            /\ \A k \in DOMAIN origin : origin'[k] = origin[k]
            /\ DOMAIN live = 1..Len(live) /\ Len(live) \in Nat
        BY <1>1, <1>2, AppendFatos DEF Historias
      <4>3. ~ Ate(origin', live, i)
        BY <1>6, <4>1, <4>2 DEF Ate
      <4> QED
        BY <4>1, <4>3 DEF Chegou, Resta
    <3> QED
      BY <2>1, <3>1, <3>2 DEF Chegou
  <2>2. Tem(origin, ex.c) => Tem(origin', ex.c)
    BY <1>1, <1>2, TemAppend
  <2> QED
    BY <1>1, <2>1, <2>2 DEF PInv, Prontas, Local
<1> QED
  BY <1>3, <1>5, <1>8, <1>9 DEF PInv

LEMMA InicioChega ==
    ASSUME IInv, PInv,
           \/ \E c \in Candidatos : Retomar(c) \/ Reivindicar(c)
           \/ PegarPedido \/ OlharGitHub
    PROVE  PInv'
<1>1. ASSUME NEW c \in Candidatos, Retomar(c) \/ Reivindicar(c) PROVE PInv'
  <2>1. Buscar(c) /\ UNCHANGED <<live, origin>>
    BY <1>1 DEF Retomar, Reivindicar
  <2>2. /\ visto' \in {visto, origin} /\ ex'.pc = "conferir" /\ ex'.modo = "candidato"
        /\ ex'.anterior = live /\ ~ ex'.entregue
    BY <2>1, BuscarFatos
  <2>3. ex'.remoto = visto'
    BY <2>1 DEF Buscar, Parado
  <2>4. \A d \in Candidatos : fila'[d] = "feita" => fila[d] = "feita"
    BY <1>1 DEF Retomar, Reivindicar, IInv, Tipos
  <2> QED
    BY <2>1, <2>2, <2>3, <2>4, Comecada
<1>2. CASE PegarPedido
  <2>1. /\ ex'.pc = "conferir" /\ ex'.modo = "pedido" /\ ex'.remoto = origin
        /\ ex'.anterior = live /\ ~ ex'.entregue
    BY <1>2 DEF PegarPedido, Parado
  <2> QED
    BY <1>2, <2>1, Comecada DEF PegarPedido
<1>3. CASE OlharGitHub
  <2>1. UNCHANGED <<live, origin, fila>> /\ visto' = origin /\ ex.pc = "parado"
    BY <1>3 DEF OlharGitHub, Examinar, LivreParaFila
  <2>2. CASE ex' = [Parado EXCEPT !.pc = "testa", !.remoto = origin, !.anterior = live]
    <3>1. /\ ex'.pc = "testa" /\ ex'.modo = "github" /\ ex'.remoto = origin
          /\ ex'.anterior = live /\ ~ ex'.entregue
      BY <2>2 DEF Parado
    <3> QED
      BY <2>1, <3>1, Comecada
  <2>3. CASE ex' = ex
    <3>1. Sadias'
      BY <2>1, <2>3, SadiaVista DEF PInv, Sadias
    <3>2. Antes(origin, origin)
      BY BoasAgora DEF Antes, Historias
    <3> QED
      BY <2>1, <2>3, <3>1, <3>2 DEF PInv, Vistas, Recente, Prontas, Local
  <2> QED
    BY <1>3, <2>2, <2>3 DEF OlharGitHub, Examinar
<1> QED
  BY <1>1, <1>2, <1>3

LEMMA FimChega ==
    ASSUME IInv, PInv, PararSujo \/ Queda \/ Rejeitar \/ NadaMuda \/ Guardar
    PROVE  PInv'
<1>1. /\ UNCHANGED <<live, origin, visto>> /\ ex' = Parado
  BY DEF PararSujo, Queda, Rejeitar, NadaMuda, Guardar, Arquivar
<1>2. ex.pc # "parado"
  BY DEF PararSujo, Queda, Rejeitar, NadaMuda, Guardar
<1>3. ASSUME NEW c \in Candidatos, fila'[c] = "feita", fila[c] # "feita"
      PROVE  Chegou(origin, live, c)
  <2>1. /\ NadaMuda \/ Guardar
        /\ Local /\ c = ex.c
    <3>1. fila \in [Candidatos -> Estados]
      BY DEF IInv, Tipos
    <3> QED
      BY <1>3, <3>1 DEF PararSujo, Queda, Rejeitar, NadaMuda, Guardar, Arquivar
  <2>2. CASE NadaMuda
    <3>1. Tem(live, c)
      BY <2>1, <2>2 DEF NadaMuda, Presente, Tem
    <3> QED
      BY <2>1, <2>2, <3>1 DEF NadaMuda, PInv, Prontas
  <2>3. CASE Guardar
    BY <1>2, <2>1, <2>3 DEF Guardar, PInv, Prontas, Chegou
  <2> QED
    BY <2>1, <2>2, <2>3
<1> QED
  BY <1>1, <1>2, <1>3, Pausa

\* The steps over unchanged histories, with what a failure in them leads to.
LEMMA AndamentoChega ==
    ASSUME IInv, PInv,
           \/ Preparar \/ Reverter \/ TestarRemoto \/ Implantar \/ Perguntar \/ Avisar
    PROVE  PInv'
<1>1. /\ UNCHANGED <<live, origin, visto, fila>> /\ ex.pc # "parado"
  BY DEF Preparar, Reverter, TestarRemoto, Implantar, Perguntar, Avisar
<1>2. ex.entregue => ex.pc \notin {"prepara", "promove", "conferir", "desfaz"}
  BY DEF IInv, Rodando, Compativel
<1>3. Local /\ ex.entregue => Tem(origin, ex.c)
  BY <1>1 DEF PInv, Prontas
<1>4. CASE Vai(AoFalhar)
  <2>1. /\ ex'.pc \in {"entrega", "desfaz", "arquiva"} /\ (ex'.pc = "entrega" <=> ex.entregue)
        /\ ex'.modo = ex.modo /\ ex'.c = ex.c /\ ex'.anterior = ex.anterior
        /\ ex'.entregue = ex.entregue
    BY <1>4, AoFalharFatos, VaiFatos
  <2> QED
    BY <1>1, <1>3, <2>1, Prossegue DEF PorCima
<1>5. CASE Preparar
  <2>1. "promove" \in PCs /\ Vai("promove")
    BY <1>5 DEF Preparar, PCs
  <2>2. /\ ex'.pc = "promove" /\ ex'.modo = ex.modo /\ ex'.c = ex.c
        /\ ex'.anterior = ex.anterior /\ ex'.entregue = ex.entregue
    BY <2>1, VaiFatos
  <2> QED
    BY <1>1, <1>3, <1>5, <2>2, Prossegue DEF PorCima, Preparar
<1>6. CASE Reverter
  <2>1. /\ ex'.pc = "implanta" /\ ex'.modo = ex.modo /\ ex'.c = ex.c
        /\ ex'.anterior = ex.anterior /\ ex'.entregue = ex.entregue /\ ex.modo = "pedido"
    BY <1>6 DEF Reverter, Reversao, IInv, Tipos, ExTipo
  <2> QED
    BY <1>1, <1>3, <1>6, <2>1, Prossegue DEF PorCima, Reverter
<1>7. CASE TestarRemoto
  <2>1. CASE Vai("aplica")
    <3>1. "aplica" \in PCs
      BY DEF PCs
    <3>2. /\ ex'.pc = "aplica" /\ ex'.modo = ex.modo /\ ex'.c = ex.c /\ ex'.remoto = ex.remoto
          /\ ex'.anterior = ex.anterior /\ ex'.entregue = ex.entregue
      BY <2>1, <3>1, VaiFatos
    <3>3. Antes(ex.remoto, origin)
      BY <1>7 DEF TestarRemoto, PInv, Vistas
    <3> QED
      BY <1>1, <1>3, <3>2, <3>3, Prossegue DEF PorCima
  <2>2. CASE ex' = Parado
    BY <1>1, <2>2, Pausa
  <2> QED
    BY <1>7, <2>1, <2>2 DEF TestarRemoto
<1>8. CASE Implantar /\ ~ Vai(AoFalhar)
  <2>1. /\ ex' = [ex EXCEPT !.pc = IF Local THEN "publica"
                                   ELSE IF Reversao THEN "registra" ELSE "entrega",
                            !.entregue = ex.modo = "github"]
        /\ ex.pc = "implanta"
    BY <1>8 DEF Implantar
  <2>2. /\ ex'.pc = IF Local THEN "publica" ELSE IF Reversao THEN "registra" ELSE "entrega"
        /\ ex'.modo = ex.modo /\ ex'.c = ex.c /\ ex'.anterior = ex.anterior
        /\ ex'.entregue <=> ex.modo = "github"
    BY <2>1 DEF IInv, Tipos, ExTipo
  <2>3. Local => ex'.pc = "publica" /\ ~ ex'.entregue
    BY <2>2 DEF Local
  <2>4. PorCima(ex') => PorCima(ex)
    BY <2>1, <2>2 DEF PorCima, Local, Reversao
  <2>5. ex'.pc \notin {"parado", "conferir", "testa", "prepara", "aplica"}
    BY <2>2
  <2> QED
    BY <1>1, <2>2, <2>3, <2>4, <2>5, Prossegue
<1>9. CASE Perguntar /\ ~ Vai(AoFalhar)
  <2>1. /\ origin = live /\ ex' = [ex EXCEPT !.pc = "entrega", !.entregue = TRUE]
        /\ ex.pc = "pergunta"
    BY <1>9 DEF Perguntar
  <2>2. /\ ex'.pc = "entrega" /\ ex'.modo = ex.modo /\ ex'.c = ex.c
        /\ ex'.anterior = ex.anterior
    BY <2>1 DEF IInv, Tipos, ExTipo
  <2>3. Local => Topo(live, ex.c)
    BY <2>1 DEF IInv, Entregues, Adiante
  <2>4. Local => Tem(origin, ex.c)
    BY <2>1, <2>3, BoasAgora, TopoTem
  <2> QED
    BY <1>1, <2>2, <2>4, Prossegue DEF PorCima
<1>10. CASE Avisar /\ ~ Vai(AoFalhar)
  <2>1. Vai("guarda") /\ "guarda" \in PCs /\ ex.pc = "entrega"
    BY <1>10 DEF Avisar, PCs
  <2>2. /\ ex'.pc = "guarda" /\ ex'.modo = ex.modo /\ ex'.c = ex.c
        /\ ex'.anterior = ex.anterior /\ ex'.entregue = ex.entregue
    BY <2>1, VaiFatos
  <2>3. Local => Tem(origin, ex.c)
    BY <2>1 DEF PInv, Prontas
  <2> QED
    BY <1>1, <2>2, <2>3, Prossegue DEF PorCima
<1> QED
  BY <1>4, <1>5, <1>6, <1>7, <1>8, <1>9, <1>10

LEMMA DesfazerChega == ASSUME IInv, PInv, Desfazer PROVE PInv'
<1>1. /\ UNCHANGED <<origin, visto, fila>> /\ live' = ex.anterior /\ ex.pc = "desfaz"
      /\ ~ ex.entregue
  BY DEF Desfazer, IInv, Rodando, Compativel
<1>2. CASE Reversao
  BY <1>1, <1>2, Pausa DEF Desfazer
<1>3. CASE ~ Reversao
  <2>1. Vai("arquiva") /\ "arquiva" \in PCs
    BY <1>3 DEF Desfazer, PCs
  <2>2. /\ ex'.pc = "arquiva" /\ ex'.modo = ex.modo /\ ex'.c = ex.c
        /\ ex'.anterior = ex.anterior /\ ex'.entregue = ex.entregue
    BY <2>1, VaiFatos
  <2> QED
    BY <1>1, <2>2, Prossegue DEF PorCima
<1> QED
  BY <1>2, <1>3

-----------------------------------------------------------------------------
\* The steps that move the histories.

\* What JaPublicada and JaPromovida found is at the top of live; what was
\* delivered below it is on GitHub, which was seen there.
LEMMA ReconhecerChega == ASSUME IInv, PInv, Reconhecer PROVE PInv'
<1>1. /\ ex.pc = "conferir" /\ Local /\ UNCHANGED <<live, origin, visto, fila>>
      /\ JaPublicada \/ JaPromovida
  BY DEF Reconhecer
<1>2. /\ live \in Historias /\ origin \in Historias /\ visto \in Historias
      /\ ex.remoto = visto /\ Antes(visto, origin)
      /\ ex.c \in Candidatos /\ fila[ex.c] = "ativa" /\ Topo(live, ex.c) /\ live # <<>>
  BY <1>1, BoasAgora DEF PInv, Vistas, IInv, Rodando, JaPublicada, JaPromovida, Topo
<1>3. /\ Front(live) \in Historias /\ Antes(Front(live), live) /\ Len(Front(live)) = Len(live) - 1
      /\ Len(live) \in Nat /\ Last(live) = live[Len(live)]
      /\ DOMAIN Front(live) = 1..Len(Front(live)) /\ DOMAIN live = 1..Len(live)
  BY <1>2, FrontAntes DEF Historias
<1>4. Antes(Front(live), origin)
  BY <1>1, <1>2, <1>3, AntesAntes DEF JaPublicada, JaPromovida
<1>5. ASSUME NEW c \in Candidatos, fila[c] = "feita" PROVE Tem(Front(live), c)
  <2>1. PICK i \in DOMAIN live : live[i] \in De(c)
    BY <1>5 DEF IInv, Entregues, Tem
  <2>2. i # Len(live)
    BY <1>2, <1>3, <1>5, <2>1, DeFatos DEF Topo
  <2>3. i \in DOMAIN Front(live) /\ Front(live)[i] \in De(c)
    BY <1>3, <2>1, <2>2 DEF Antes
  <2> QED
    BY <2>3 DEF Tem
<1>6. Sadia(origin, visto, fila, Front(live))
  BY <1>2, <1>3, <1>4, <1>5, SadiaDeOrigem
<1>7. ex'.anterior = Front(live) /\ ex'.modo = ex.modo /\ ex'.c = ex.c
  BY <1>1, <1>2 DEF Reconhecer, JaPromovida, IInv, Tipos, ExTipo
<1>8. Sadias'
  BY <1>1, <1>3, <1>6, <1>7 DEF PInv, Sadias
<1>9. ex.modo = "candidato" /\ ~ ex.entregue
  BY <1>1 DEF Local, IInv, Rodando, Compativel
<1>10. CASE JaPublicada /\ ex'.pc = "entrega"
  <2>1. Tem(origin, ex.c)
    BY <1>2, <1>10, TopoTem, TemAntes DEF JaPublicada
  <2> QED
    BY <1>1, <1>2, <1>7, <1>8, <1>9, <1>10, <2>1 DEF PInv, Vistas, Recente, PorCima, Prontas
<1>11. CASE ex'.pc = "implanta" /\ ~ ex'.entregue
  BY <1>1, <1>2, <1>7, <1>8, <1>9, <1>11 DEF PInv, Vistas, Recente, PorCima, Prontas
<1>12. \/ JaPublicada /\ ex'.pc = "entrega"
       \/ ex'.pc = "implanta" /\ ~ ex'.entregue
  BY <1>9 DEF Reconhecer, IInv, Tipos, ExTipo
<1> QED
  BY <1>10, <1>11, <1>12

\* live ahead of GitHub, with c in it and no promotion of c's to resume: if c is
\* not on GitHub, neither is another commit below it.
LEMMA AFrente ==
    ASSUME NEW f, NEW o \in Historias, NEW h \in Historias, NEW c \in Candidatos, Boa(f, h),
           Antes(o, h), Len(o) < Len(h), ~ (Topo(h, c) /\ Front(h) = o)
    PROVE  Resta(o, h, c)
<1>1. /\ DOMAIN o = 1..Len(o) /\ DOMAIN h = 1..Len(h) /\ Len(h) \in Nat /\ Len(o) \in Nat
      /\ h # <<>>
  BY DEF Historias
<1>2. PICK n \in Nat : n = Len(o) + 1
  BY <1>1
<1>3. n \in DOMAIN h /\ ~ Ate(o, h, n) /\ ~ Ate(o, h, n + 1)
  BY <1>1, <1>2 DEF Ate
<1>4. CASE h[n] \notin De(c)
  BY <1>3, <1>4 DEF Resta
<1>5. CASE h[n] \in De(c) /\ Len(h) = n
  <2>1. Topo(h, c)
    BY <1>1, <1>5, FrontAntes DEF Topo
  <2>2. /\ Front(h) \in Historias /\ Antes(Front(h), h) /\ Len(Front(h)) = Len(o)
    BY <1>1, <1>2, <1>5, FrontAntes
  <2>3. Antes(o, Front(h))
    BY <1>1, <2>2 DEF Antes
  <2>4. o = Front(h)
    BY <1>1, <2>2, <2>3, AntesIguais
  <2> QED
    BY <2>1, <2>4
<1>6. CASE h[n] \in De(c) /\ Len(h) # n
  <2>1. n + 1 \in DOMAIN h
    <3>1. PICK m \in Nat : m = Len(h)
      BY <1>1
    <3>2. n \in 1..m /\ n # m
      BY <1>1, <1>3, <1>6, <3>1
    <3>3. n + 1 \in 1..m
      BY <3>2
    <3> QED
      BY <1>1, <3>1, <3>3
  <2>2. ASSUME h[n + 1] \in De(c) PROVE FALSE
    <3>1. Revertido(h, n)
      BY <1>2, <1>3, <1>6, <2>1, <2>2, UpdaterAssumption DEF Boa, NaOrdem, Candidatos
    <3>2. h[n + 1] \notin Reversoes
      BY <2>2, DeFatos
    <3> DEFINE A == {j \in DOMAIN h : j > n /\ \A k \in (n + 1)..j : h[k] \in Reversoes}
    <3>3. A = {}
      BY <1>1, <3>2
    <3>4. Cardinality(A) % 2 = 1
      BY <3>1 DEF Revertido
    <3> HIDE DEF A
    <3>5. Cardinality(A) = 0
      BY <3>3, FS_EmptySet
    <3> QED
      BY <3>4, <3>5
  <2> QED
    BY <1>3, <2>1, <2>2 DEF Resta
<1> QED
  BY <1>4, <1>5, <1>6

\* A candidate meets live where GitHub was seen, brought to GitHub, ahead of it
\* or apart from it.
LEMMA SincronizarChega == ASSUME IInv, PInv, Sincronizar PROVE PInv'
<1>1. /\ ex.pc = "conferir" /\ ex.modo = "candidato" /\ ~ ex.entregue /\ ~ ex.aplicado
      /\ ex.c \in Candidatos /\ UNCHANGED <<origin, fila>> /\ ~ JaPromovida
      /\ ex.remoto = visto /\ Antes(visto, origin)
  BY DEF Sincronizar, Local, IInv, Rodando, Compativel, PInv, Vistas
<1>2. /\ live \in Historias /\ origin \in Historias /\ visto \in Historias
      /\ ex.anterior \in Historias /\ Boa(fila, live) /\ Len(live) \in Nat /\ Len(origin) \in Nat
  BY BoasAgora DEF Historias
<1>3. Antes(origin, origin)
  BY <1>2 DEF Antes
<1>4. ASSUME NEW pc \in {"prepara", "arquiva"}, Vai(pc)
      PROVE  /\ ex'.pc = pc /\ ex'.modo = "candidato" /\ ex'.c = ex.c
             /\ ex'.anterior = ex.anterior /\ ~ ex'.entregue
  <2>1. pc \in PCs
    BY DEF PCs
  <2> QED
    BY <1>1, <1>4, <2>1, VaiFatos
<1>5. CASE live = ex.remoto /\ Vai("prepara") /\ UNCHANGED <<live, visto>>
  <2>1. Sadias'
    BY <1>1, <1>4, <1>5 DEF PInv, Sadias
  <2>2. Recente'
    <3>1. ASSUME Antes(origin, live) PROVE visto = origin
      BY <1>1, <1>2, <1>5, <3>1, AntesIguais DEF Antes
    <3> QED
      BY <1>1, <1>5, <3>1 DEF Recente
  <2>3. Tem(live, ex.c) => Tem(origin, ex.c)
    BY <1>1, <1>2, <1>5, TemAntes
  <2> QED
    BY <1>1, <1>4, <1>5, <2>1, <2>2, <2>3 DEF PInv, Vistas, Prontas, Chegou
<1>6. CASE /\ IsPrefix(live, origin) /\ live' = origin /\ visto' = origin
           /\ ex' = [ex EXCEPT !.pc = "prepara", !.anterior = origin]
  <2>1. /\ ex'.pc = "prepara" /\ ex'.anterior = origin /\ ~ ex'.entregue /\ ex'.c = ex.c
    BY <1>1, <1>6 DEF IInv, Tipos, ExTipo
  <2>2. \A c \in Candidatos : fila[c] = "feita" => Tem(origin, c)
    BY <1>2, <1>6, FeitasAntes
  <2>3. Sadia(origin, origin, fila, origin)
    BY <1>2, <1>3, <2>2, SadiaDeOrigem
  <2>4. Sadias'
    BY <1>1, <1>2, <1>6, <2>1, <2>3 DEF Sadias
  <2> QED
    BY <1>1, <1>3, <1>6, <2>1, <2>4 DEF PInv, Vistas, Recente, Prontas, Chegou
<1>7. CASE IsStrictPrefix(origin, live) /\ Vai("prepara") /\ live' = live /\ visto' = origin
  <2>1. Sadias'
    BY <1>1, <1>4, <1>7, SadiaVista DEF PInv, Sadias
  <2>2. Antes(origin, live) /\ origin # live
    BY <1>2, <1>7, PrefixoAntes DEF IsStrictPrefix
  <2>3. Len(origin) < Len(live)
    BY <1>2, <2>2, AntesIguais
  <2>4. ex.remoto = origin
    BY <1>1, <2>2, <2>3 DEF PInv, Sadias, Sadia
  <2>5. Resta(origin, live, ex.c)
    BY <1>1, <1>2, <2>2, <2>3, <2>4, AFrente DEF JaPromovida
  <2> QED
    BY <1>1, <1>3, <1>4, <1>7, <2>1, <2>5 DEF PInv, Vistas, Recente, Prontas, Chegou
<1>8. CASE Vai(AoFalhar) /\ live' = live /\ visto' = origin
  <2>1. AoFalhar = "arquiva"
    BY <1>1 DEF AoFalhar
  <2>2. Sadias'
    BY <1>1, <1>4, <1>8, <2>1, SadiaVista DEF PInv, Sadias
  <2> QED
    BY <1>1, <1>3, <1>4, <1>8, <2>1, <2>2 DEF PInv, Vistas, Recente, Prontas, PorCima
<1> QED
  BY <1>5, <1>6, <1>7, <1>8 DEF Sincronizar

LEMMA PromoverChega == ASSUME IInv, PInv, Promover PROVE PInv'
<1>1. /\ ex.pc = "promove" /\ ex.modo = "candidato" /\ ~ ex.entregue /\ ex.c \in Candidatos
      /\ UNCHANGED <<origin, visto, fila>>
  BY DEF Promover, Local, IInv, Rodando, Compativel
<1>2. PICK x \in De(ex.c) : live' = Append(live, x)
  BY DEF Promover, De
<1>3. x \in Commits /\ x \notin Externos
  BY <1>1, <1>2, DeFatos
<1>4. live \in Historias /\ origin \in Historias /\ ex.anterior \in Historias
  BY BoasAgora
<1>5. Antes(origin, live) => visto = origin
  BY <1>1 DEF PInv, Recente, PorCima
<1>6. Sadia(origin, visto, fila, live')
  BY <1>2, <1>3, <1>4, <1>5, SadiaMais DEF PInv, Sadias
<1>7. /\ ex'.pc = "implanta" /\ ex'.modo = "candidato" /\ ex'.anterior = ex.anterior
      /\ ~ ex'.entregue
  BY <1>1 DEF Promover, IInv, Tipos, ExTipo
<1>8. Len(ex.anterior) <= Len(live')
  <2>1. /\ Len(live') = Len(live) + 1 /\ Len(live) \in Nat
        /\ Len(ex.anterior) \in Nat /\ Len(ex.anterior) <= Len(live)
    BY <1>2, <1>3, <1>4, AppendFatos DEF Historias, PInv, Sadias
  <2> QED
    BY <2>1
<1>9. Sadias'
  BY <1>1, <1>6, <1>7, <1>8 DEF PInv, Sadias
<1> QED
  BY <1>1, <1>7, <1>9 DEF PInv, Vistas, Recente, PorCima, Prontas

LEMMA RegistrarChega == ASSUME IInv, PInv, Registrar PROVE PInv'
<1>1. /\ ex.pc = "registra" /\ ex.modo = "pedido" /\ Reversao
      /\ UNCHANGED <<origin, visto, fila>>
  BY DEF Registrar, Reversao, IInv, Rodando, Compativel
<1>2. PICK x \in Reversoes : live' = Append(live, x)
  BY <1>1, VersaoFatos DEF Registrar
<1>3. x \in Commits
  BY DEF Commits
<1>4. x \notin Externos
  <2>1. N \in Nat /\ MaxPedidos \in Nat /\ Externos \cap 1..(2 * N + MaxPedidos) = {}
    BY UpdaterAssumption
  <2>2. x \in 1..(2 * N + MaxPedidos)
    BY <2>1 DEF Reversoes
  <2> QED
    BY <2>1, <2>2
<1>5. live \in Historias /\ origin \in Historias /\ ex.anterior \in Historias
  BY BoasAgora
<1>6. Antes(origin, live) => visto = origin
  BY <1>1 DEF PInv, Recente, PorCima
<1>7. Sadia(origin, visto, fila, live')
  BY <1>2, <1>3, <1>4, <1>5, <1>6, SadiaMais DEF PInv, Sadias
<1>8. ex'.pc = "publica" /\ ex'.modo = "pedido" /\ ex'.anterior = ex.anterior
  BY <1>1 DEF Registrar, IInv, Tipos, ExTipo
<1>9. Len(ex.anterior) <= Len(live')
  <2>1. /\ Len(live') = Len(live) + 1 /\ Len(live) \in Nat
        /\ Len(ex.anterior) \in Nat /\ Len(ex.anterior) <= Len(live)
    BY <1>2, <1>3, <1>5, AppendFatos DEF Historias, PInv, Sadias
  <2> QED
    BY <2>1
<1>10. Sadias'
  BY <1>1, <1>7, <1>8, <1>9 DEF PInv, Sadias
<1> QED
  BY <1>1, <1>8, <1>10 DEF PInv, Vistas, Recente, PorCima, Prontas, Local

LEMMA AplicarRemotoChega == ASSUME IInv, PInv, AplicarRemoto PROVE PInv'
<1>1. /\ ex.pc = "aplica" /\ ex.modo = "github" /\ UNCHANGED <<origin, visto, fila>>
      /\ Antes(ex.remoto, origin)
  BY DEF AplicarRemoto, IInv, Rodando, Compativel, PInv, Vistas
<1>2. /\ live \in Historias /\ origin \in Historias /\ ex.remoto \in Historias
      /\ ex.anterior \in Historias
  BY BoasAgora
<1>3. CASE live' = live /\ Vai(AoFalhar)
  <2>1. /\ ex'.pc \in {"entrega", "desfaz", "arquiva"} /\ ex'.modo = ex.modo /\ ex'.c = ex.c
        /\ ex'.anterior = ex.anterior
    BY <1>3, AoFalharFatos, VaiFatos
  <2> QED
    BY <1>1, <1>3, <2>1, Prossegue DEF PorCima, Local
<1>4. ASSUME ex' = [ex EXCEPT !.pc = "implanta", !.aplicado = TRUE]
      PROVE  /\ ex'.pc = "implanta" /\ ex'.modo = ex.modo /\ ex'.c = ex.c
             /\ ex'.anterior = ex.anterior
  BY <1>4 DEF IInv, Tipos, ExTipo
<1>5. CASE live' = live /\ ex' = [ex EXCEPT !.pc = "implanta", !.aplicado = TRUE]
  BY <1>1, <1>4, <1>5, Prossegue DEF PorCima, Local
<1>6. CASE /\ IsPrefix(live, ex.remoto) /\ live' = ex.remoto
           /\ ex' = [ex EXCEPT !.pc = "implanta", !.aplicado = TRUE]
  <2>1. \A c \in Candidatos : fila[c] = "feita" => Tem(ex.remoto, c)
    BY <1>2, <1>6, FeitasAntes
  <2>2. Sadia(origin, visto, fila, live')
    BY <1>1, <1>2, <1>6, <2>1, SadiaDeOrigem
  <2>3. Len(ex.anterior) <= Len(live')
    <3>1. /\ Len(live) <= Len(ex.remoto) /\ Len(ex.anterior) <= Len(live)
          /\ Len(live) \in Nat /\ Len(ex.remoto) \in Nat /\ Len(ex.anterior) \in Nat
      BY <1>2, <1>6, PrefixoAntes DEF Antes, Historias, PInv, Sadias
    <3> QED
      BY <1>6, <3>1
  <2>4. Sadias'
    BY <1>1, <1>4, <1>6, <2>2, <2>3 DEF PInv, Sadias
  <2> QED
    BY <1>1, <1>4, <1>6, <2>4 DEF PInv, Vistas, Recente, PorCima, Prontas, Local
<1> QED
  BY <1>3, <1>5, <1>6 DEF AplicarRemoto

\* A push takes GitHub to live, or leaves it.
LEMMA PublicarChega == ASSUME IInv, PInv, Publicar PROVE PInv'
<1>1. /\ ex.pc = "publica" /\ UNCHANGED <<live, fila>> /\ (Local => Topo(live, ex.c))
  BY DEF Publicar, IInv, Entregues, Adiante
<1>2. /\ live \in Historias /\ origin \in Historias /\ visto \in Historias
      /\ ex.anterior \in Historias /\ Len(live) \in Nat /\ Len(ex.anterior) \in Nat
  BY BoasAgora DEF Historias
<1>3. Local => Tem(live, ex.c)
  BY <1>1, <1>2, TopoTem
<1>4. ASSUME Vai(IF Local THEN "pergunta" ELSE AoFalhar)
      PROVE  /\ ex'.pc \in {"pergunta", "entrega", "desfaz", "arquiva"}
             /\ ex'.modo = ex.modo /\ ex'.c = ex.c /\ ex'.anterior = ex.anterior
             /\ ex'.entregue = ex.entregue /\ (ex'.pc = "entrega" => ex.entregue)
  <2>1. PICK pc \in {"pergunta", AoFalhar} : Vai(pc) /\ pc \in PCs
    BY <1>4, AoFalharFatos DEF PCs
  <2> QED
    BY <2>1, VaiFatos, AoFalharFatos
<1>5. ASSUME IsPrefix(origin, live), origin' = live, visto' \in {visto, live},
             ex'.anterior = ex.anterior, ex'.modo = ex.modo, ex'.c = ex.c,
             ex'.pc \in {"pergunta", "entrega", "desfaz", "arquiva"}
      PROVE  PInv'
  <2>1. Antes(origin, live)
    BY <1>2, <1>5, PrefixoAntes
  <2>2. \A c \in Candidatos : fila[c] = "feita" => Tem(live, c)
    BY DEF IInv, Entregues
  <2>3. Sadia(live, visto', fila, live) /\ Sadia(live, visto', fila, ex.anterior)
    BY <1>1, <1>2, <2>1, <2>2, SadiaEntrega DEF PInv, Sadias
  <2>4. Sadias'
    BY <1>1, <1>5, <2>3 DEF PInv, Sadias
  <2>5. Antes(live, live) /\ Antes(visto, live)
    BY <1>2, <2>1, AntesAntes DEF PInv, Vistas, Antes
  <2>6. Vistas'
    BY <1>5, <2>5 DEF Vistas
  <2>7. Prontas'
    BY <1>3, <1>5 DEF Prontas, Local
  <2> QED
    BY <1>5, <2>4, <2>6, <2>7 DEF PInv, Recente, PorCima
<1>6. CASE /\ IsPrefix(origin, live) /\ origin' = live /\ visto' = live
           /\ ex' = [ex EXCEPT !.pc = "entrega", !.entregue = TRUE]
  <2>1. ex'.pc = "entrega" /\ ex'.modo = ex.modo /\ ex'.c = ex.c /\ ex'.anterior = ex.anterior
    BY <1>6 DEF IInv, Tipos, ExTipo
  <2> QED
    BY <1>5, <1>6, <2>1
<1>7. CASE /\ IsPrefix(origin, live) /\ origin' = live /\ visto' = visto
           /\ Vai(IF Local THEN "pergunta" ELSE AoFalhar)
  BY <1>4, <1>5, <1>7
<1>8. CASE origin' = origin /\ visto' = visto /\ Vai(IF Local THEN "pergunta" ELSE AoFalhar)
  <2>1. Local /\ ex.entregue => Tem(origin, ex.c)
    BY <1>1 DEF PInv, Prontas
  <2> QED
    BY <1>1, <1>4, <1>8, <2>1, Prossegue DEF PorCima
<1> QED
  BY <1>6, <1>7, <1>8 DEF Publicar

-----------------------------------------------------------------------------
\* The theorem.

LEMMA InicioChegado == Init => PInv
<1> SUFFICES ASSUME Init PROVE PInv
  OBVIOUS
<1>1. /\ live = <<>> /\ origin = <<>> /\ visto = <<>> /\ ex = Parado
      /\ \A c \in Candidatos : fila[c] = "nova"
  BY DEF Init
<1>2. ex.pc = "parado" /\ ex.anterior = <<>> /\ ex.modo = "github"
  BY <1>1, ParadoFatos
<1>3. Len(<<>>) = 0 /\ Antes(<<>>, <<>>)
  BY DEF Antes
<1>4. Sadia(<<>>, <<>>, fila, <<>>)
  BY <1>1, <1>3, VaziaFatos DEF Sadia
<1> QED
  BY <1>1, <1>2, <1>3, <1>4 DEF PInv, Sadias, Vistas, Recente, PorCima, Prontas

LEMMA PassoChega == IInv /\ PInv /\ [Next]_vars => PInv'
<1>1. ASSUME IInv, PInv, Passo PROVE PInv'
  BY <1>1, InicioChega, FimChega, AndamentoChega, DesfazerChega, ReconhecerChega,
     SincronizarChega, PromoverChega, RegistrarChega, AplicarRemotoChega, PublicarChega
     DEF Passo
<1>2. ASSUME IInv, PInv, Next PROVE PInv'
  BY <1>1, <1>2, MundoChega, PushExternoChega, FimChega DEF Next
<1> QED
  BY <1>2, MundoChega

\* A commit of live that GitHub does not begin with is what Sobra looks for.
LEMMA RestaSobra == ASSUME IInv, NEW c, Resta(origin, live, c) PROVE Sobra(c)
<1>1. live \in Historias /\ origin \in Historias
  BY BoasAgora
<1>2. PICK i \in DOMAIN live : live[i] \notin De(c) /\ ~ Ate(origin, live, i)
  BY DEF Resta
<1>3. i \in Nat /\ i <= Len(live)
  BY <1>1 DEF Historias
<1>4. /\ SubSeq(live, 1, i) \in Historias /\ Len(SubSeq(live, 1, i)) = i
      /\ \A k \in 1..i : SubSeq(live, 1, i)[k] = live[k]
  BY <1>1, <1>3, InicioFatos
<1>5. ASSUME IsPrefix(SubSeq(live, 1, i), origin) PROVE FALSE
  <2>1. Antes(SubSeq(live, 1, i), origin)
    BY <1>1, <1>4, <1>5, PrefixoAntes
  <2>2. Ate(origin, live, i)
    BY <1>4, <2>1 DEF Antes, Ate
  <2> QED
    BY <1>2, <2>2
<1> QED
  BY <1>2, <1>5 DEF Sobra

(* A candidate archived as done (archive_local_candidate, fila.sh) is in    *)
(* live and on GitHub, whether its own execution pushed it or one that       *)
(* resumed it after a kill, unless a commit that another execution left      *)
(* below it in live keeps both from GitHub.                                  *)
THEOREM FeitasPublicadas == Spec => []FeitaPublicada
<1>1. IInv /\ PInv => FeitaPublicada
  <2> SUFFICES ASSUME IInv, PInv, NEW c \in Candidatos, fila[c] = "feita"
               PROVE  Tem(live, c) /\ (Tem(origin, c) \/ Sobra(c))
    BY DEF FeitaPublicada
  <2>1. Tem(live, c)
    BY DEF IInv, Entregues
  <2>2. Chegou(origin, live, c)
    BY DEF PInv, Sadias, Sadia
  <2> QED
    BY <2>1, <2>2, RestaSobra DEF Chegou
<1> QED
  BY <1>1, Invariante, InicioChegado, PassoChega, PTL DEF Spec
=============================================================================
