------------------------ MODULE GuildTTSQueueProofs ------------------------
(* The speech queue of a guild, for any messages, texts, capacity, clears and *)
(* changes of the dashboard: items are spoken in order and each once, nothing *)
(* cleared is spoken, messages stay whole, and the three counts of the queue, *)
(* its tasks, its signatures and its length, agree. Each part of the          *)
(* invariant speaks of a state of the queue and one of the worker, so that it *)
(* can be stated of the ones between two lines of the worker's code too.      *)
EXTENDS GuildTTSQueue, FiniteSetTheorems, SequenceTheorems, WellFoundedInduction, TLAPS

Geracoes == 0..(Cardinality(Limpadores) + 1)
ItemTipo == [n : Nat, i : Nat, ger : Geracoes]
PCs == {"nenhum", "criado", "pegando", "pegou", "ocioso", "preparando",
        "conectando", "tocando", "limpando", "descartando", "saindo"}
EstadoTipo == [existe : BOOLEAN, queue : Seq(ItemTipo), unfinished : Nat,
               pending : [Textos -> Nat], accepting : BOOLEAN,
               dashboard : BOOLEAN, generation : Nat, orfa : BOOLEAN]
WorkerTipo == [pc : PCs, ger : Nat, item : ItemTipo, adiantado : ItemTipo,
               esperando : BOOLEAN, trazida : ItemTipo, cancelado : BOOLEAN,
               pedido : BOOLEAN, propaga : BOOLEAN]
LimpadorTipo == [Limpadores -> {"fora", "espera", "pronta", "orfao", "feita"}]

\* What surrounds the queue and its worker.
Entorno ==
    /\ aceitas \in Seq(Mensagens)
    /\ limpador \in LimpadorTipo
    /\ msg \in [Mensagens -> {"fora", "avisando", "feita"}]
    /\ encerrando \in BOOLEAN /\ naGuilda \in BOOLEAN /\ sozinho \in BOOLEAN
    /\ mudancas \in Nat /\ corte \in 0..Len(aceitas) /\ abandonadas \in Nat

-----------------------------------------------------------------------------
\* Items: a part of an accepted message, and their order.

Valido(x, ac) ==
    /\ x \in ItemTipo /\ x.n \in 1..Len(ac) /\ x.i \in 1..Len(Texto[ac[x.n]])
    /\ Len(Texto[ac[x.n]]) <= Capacidade
ValidoOuNada(x, ac) == x = Nada \/ Valido(x, ac)

Menor(a, b) == a.n < b.n \/ (a.n = b.n /\ a.i < b.i)
Ate(a, b) == Menor(a, b) \/ (a.n = b.n /\ a.i = b.i)

\* The queue holds parts of accepted messages and fits in its capacity.
FilaBoa(e, ac) ==
    /\ e \in EstadoTipo /\ Len(e.queue) <= Capacidade
    /\ e.queue # <<>> => e.existe
    /\ \A k \in DOMAIN e.queue : Valido(e.queue[k], ac)

\* What the worker has in hand at each of its awaits.
MaosVazias(v) == v.item = Nada /\ v.adiantado = Nada /\ v.trazida = Nada /\ ~ v.esperando
WorkerBom(v, ac) ==
    /\ v \in WorkerTipo
    /\ ValidoOuNada(v.item, ac) /\ ValidoOuNada(v.adiantado, ac) /\ ValidoOuNada(v.trazida, ac)
    /\ v.pc \in {"nenhum", "criado", "pegando", "ocioso"} => MaosVazias(v)
    /\ v.pc \in {"pegou", "preparando"} =>
          v.item # Nada /\ v.adiantado = Nada /\ v.trazida = Nada /\ ~ v.esperando
    /\ v.pc \in {"conectando", "tocando", "limpando"} =>
          /\ v.item # Nada
          /\ v.esperando => v.adiantado = Nada /\ v.trazida = Nada
          /\ v.trazida # Nada => v.adiantado = Nada
    /\ v.pc \in {"descartando", "saindo"} =>
          v.item = Nada /\ v.adiantado # Nada /\ v.trazida = Nada /\ ~ v.esperando

\* Every task_done still owed has its item, in the queue or in hand.
Um(x) == IF x = Nada THEN 0 ELSE 1
Devidas(e, v) == e.unfinished >= Len(e.queue) + Um(v.item) + Um(v.adiantado) + Um(v.trazida)

\* What was spoken, what is in hand and what is queued follow each other.
Historia(tc, tr, ac) == ValidoOuNada(tc, ac) /\ ValidoOuNada(tr, ac) /\ Ate(tc, tr)
Ordem(q, v, tc, tr) ==
    /\ \A j, k \in DOMAIN q : j < k => Menor(q[j], q[k])
    /\ \A k \in DOMAIN q : Menor(tr, q[k])
    /\ Ate(v.item, tr) /\ Ate(v.adiantado, tr) /\ Ate(v.trazida, tr)
    /\ v.pc \in {"pegou", "preparando", "conectando"} => Menor(tc, v.item)
    /\ v.adiantado # Nada => Menor(tc, v.adiantado) /\ Menor(v.item, v.adiantado)
    /\ v.trazida # Nada => Menor(tc, v.trazida) /\ Menor(v.item, v.trazida)

\* What was accepted before the last clear is not in the queue; a worker may
\* hold it, but is then of a generation before, and looks before it speaks.
Depois(e, v, ct) ==
    /\ \A k \in DOMAIN e.queue : e.queue[k].n > ct
    /\ v.pc \notin {"nenhum", "criado"} =>
          /\ v.ger <= e.generation
          /\ v.ger = e.generation =>
                \A x \in {v.item, v.adiantado, v.trazida} : x # Nada => x.n > ct
          /\ v.pedido => v.ger < e.generation
    /\ v.pc = "preparando" /\ ~ v.cancelado => v.ger = e.generation
    /\ v.pc = "criado" /\ v.pedido => v.cancelado
    /\ v.cancelado => v.pedido
    /\ v.pc = "nenhum" => ~ v.pedido

-----------------------------------------------------------------------------
\* Clears and shutdown.

Pedidas(l) == {c \in Limpadores : l[c] # "fora"}
Alguma(l, x) == \E c \in Limpadores : l[c] = x

Cancelamentos(e, v, l, enc) ==
    /\ v.pc # "nenhum" => e.existe
    /\ enc /\ v.pc # "nenhum" => ~ e.accepting
    /\ v.cancelado => enc \/ Alguma(l, "espera")
    /\ Alguma(l, "espera") => v.pc # "nenhum"

\* With two clears at most, one that waits has the queue closed and empty, and
\* until it is told no other worker starts.
Fechada(e, v, l, enc) ==
    Cardinality(Pedidas(l)) <= 2 =>
        /\ Alguma(l, "espera") => ~ e.accepting /\ e.queue = <<>> /\ ~ Alguma(l, "pronta")
        /\ Alguma(l, "pronta") /\ ~ Alguma(l, "feita") =>
              ~ e.accepting /\ e.queue = <<>> /\ v.pc = "nenhum"
        /\ e.orfa => enc /\ ~ e.accepting /\ v.pc = "nenhum"

\* Messages stay whole.
Inteiras(q, tr, ac) ==
    \A k \in DOMAIN q :
       /\ q[k].i < Len(Texto[ac[q[k].n]]) =>
             k < Len(q) /\ q[k + 1] = [q[k] EXCEPT !.i = @ + 1]
       /\ q[k].i > 1 => (IF k = 1 THEN tr ELSE q[k - 1]) = [q[k] EXCEPT !.i = @ - 1]

\* The items of q on which the signature s is counted, and the one that
\* queue.get() took and the worker has not seen.
De(x, ac) == Texto[ac[x.n]][x.i]
Marcas(q, ac, s) == {k \in DOMAIN q : De(q[k], ac) = s}
Marcada(v, ac, s) == IF v.pc = "pegou" /\ De(v.item, ac) = s THEN 1 ELSE 0
Sinais(e, v, ac, l) ==
    \A s \in Textos :
       /\ e.pending[s] <= Cardinality(Marcas(e.queue, ac, s)) + Marcada(v, ac, s)
       /\ Cardinality(Pedidas(l)) <= 1 =>
             e.pending[s] = Cardinality(Marcas(e.queue, ac, s)) + Marcada(v, ac, s)

\* Each message is accepted once, and a generation ends with a clear or the
\* shutdown.
Fora(ms) == {m \in Mensagens : ms[m] = "fora"}
Contagem(ac, ms, g, l, enc) ==
    /\ Len(ac) + Cardinality(Fora(ms)) <= Cardinality(Mensagens)
    /\ g <= Cardinality(Pedidas(l)) + (IF enc THEN 1 ELSE 0)

IInv ==
    /\ Entorno /\ FilaBoa(estado, aceitas) /\ WorkerBom(w, aceitas) /\ Devidas(estado, w)
    /\ Historia(tocada, tirada, aceitas)
    /\ Ordem(estado.queue, w, tocada, tirada) /\ Depois(estado, w, corte)
    /\ Cancelamentos(estado, w, limpador, encerrando) /\ Fechada(estado, w, limpador, encerrando)
    /\ Inteiras(estado.queue, tirada, aceitas) /\ Sinais(estado, w, aceitas, limpador)
    /\ Contagem(aceitas, msg, estado.generation, limpador, encerrando)
Segue == IInv'

-----------------------------------------------------------------------------
\* Sequences of items.

LEMMA FilaFatos ==
    ASSUME NEW q \in Seq(ItemTipo)
    PROVE  /\ Len(q) \in Nat /\ DOMAIN q = 1..Len(q)
           /\ \A k \in 1..Len(q) : q[k] \in ItemTipo
           /\ q # <<>> => Len(q) >= 1
           /\ q = <<>> => Len(q) = 0
<1>1. Len(q) \in Nat /\ q \in [1..Len(q) -> ItemTipo] /\ DOMAIN q = 1..Len(q)
  BY LenProperties
<1>2. q # <<>> => Len(q) \in Nat \ {0}
  BY EmptySeq
<1>3. q = <<>> => Len(q) = 0
  BY EmptySeq
<1> QED
  BY <1>1, <1>2, <1>3

LEMMA CabecaFatos ==
    ASSUME NEW q \in Seq(ItemTipo), q # <<>>
    PROVE  /\ Head(q) = q[1] /\ Head(q) \in ItemTipo
           /\ Tail(q) \in Seq(ItemTipo) /\ Len(Tail(q)) = Len(q) - 1
           /\ DOMAIN Tail(q) = 1..(Len(q) - 1)
           /\ \A k \in 1..(Len(q) - 1) : Tail(q)[k] = q[k + 1]
<1>1. Head(q) = q[1]
  OBVIOUS
<1>2. /\ Head(q) \in ItemTipo /\ Tail(q) \in Seq(ItemTipo) /\ Len(Tail(q)) = Len(q) - 1
      /\ \A k \in 1..Len(Tail(q)) : Tail(q)[k] = q[k + 1]
  BY HeadTailProperties
<1>3. DOMAIN Tail(q) = 1..Len(Tail(q))
  BY <1>2, LenProperties
<1> QED
  BY <1>1, <1>2, <1>3

LEMMA RestoFatos ==
    ASSUME NEW q \in Seq(ItemTipo), NEW n \in Nat, n <= Len(q)
    PROVE  /\ SubSeq(q, n + 1, Len(q)) \in Seq(ItemTipo)
           /\ Len(SubSeq(q, n + 1, Len(q))) = Len(q) - n
           /\ DOMAIN SubSeq(q, n + 1, Len(q)) = 1..(Len(q) - n)
           /\ \A k \in 1..(Len(q) - n) : SubSeq(q, n + 1, Len(q))[k] = q[k + n]
<1> DEFINE r == SubSeq(q, n + 1, Len(q))
<1>0. Len(q) \in Nat /\ \A k \in 1..Len(q) : q[k] \in ItemTipo
  BY FilaFatos
<1>1. n + 1 \in Int /\ Len(q) \in Int /\ \A k \in (n + 1)..Len(q) : q[k] \in ItemTipo
  BY <1>0
<1>2. /\ r \in Seq(ItemTipo) /\ Len(r) = IF n + 1 <= Len(q) THEN Len(q) - (n + 1) + 1 ELSE 0
      /\ \A i \in 1..(Len(q) - (n + 1) + 1) : r[i] = q[n + 1 + i - 1]
  BY <1>1, SubSeqProperties
<1>3. Len(r) = Len(q) - n
  BY <1>0, <1>2
<1>4. DOMAIN r = 1..Len(r)
  BY <1>2, LenProperties
<1>5. \A k \in 1..(Len(q) - n) : r[k] = q[k + n]
  <2> SUFFICES ASSUME NEW k \in 1..(Len(q) - n) PROVE r[k] = q[k + n]
    OBVIOUS
  <2>1. k \in 1..(Len(q) - (n + 1) + 1) /\ n + 1 + k - 1 = k + n
    BY <1>0
  <2> QED
    BY <1>2, <2>1
<1> QED
  BY <1>2, <1>3, <1>4, <1>5

LEMMA JuntaFatos ==
    ASSUME NEW q \in Seq(ItemTipo), NEW r \in Seq(ItemTipo)
    PROVE  /\ q \o r \in Seq(ItemTipo) /\ Len(q \o r) = Len(q) + Len(r)
           /\ DOMAIN (q \o r) = 1..(Len(q) + Len(r))
           /\ \A k \in 1..Len(q) : (q \o r)[k] = q[k]
           /\ \A k \in 1..Len(r) : (q \o r)[Len(q) + k] = r[k]
<1>0. Len(q) \in Nat /\ Len(r) \in Nat
  BY FilaFatos
<1>1. /\ q \o r \in Seq(ItemTipo) /\ Len(q \o r) = Len(q) + Len(r)
      /\ \A i \in 1..Len(q) + Len(r) : (q \o r)[i] = IF i <= Len(q) THEN q[i] ELSE r[i - Len(q)]
  BY ConcatProperties
<1>2. DOMAIN (q \o r) = 1..Len(q \o r)
  BY <1>1, LenProperties
<1>3. \A k \in 1..Len(r) : (q \o r)[Len(q) + k] = r[k]
  <2> SUFFICES ASSUME NEW k \in 1..Len(r) PROVE (q \o r)[Len(q) + k] = r[k]
    OBVIOUS
  <2>1. Len(q) + k \in 1..Len(q) + Len(r) /\ ~ (Len(q) + k <= Len(q)) /\ Len(q) + k - Len(q) = k
    BY <1>0
  <2> QED
    BY <1>1, <2>1
<1> QED
  BY <1>0, <1>1, <1>2, <1>3

-----------------------------------------------------------------------------
\* Counting the items of a signature.

LEMMA MarcasFatos ==
    ASSUME NEW q \in Seq(ItemTipo), NEW ac, NEW s
    PROVE  /\ Marcas(q, ac, s) \subseteq 1..Len(q) /\ IsFiniteSet(Marcas(q, ac, s))
           /\ Cardinality(Marcas(q, ac, s)) \in Nat
           /\ q = <<>> => Cardinality(Marcas(q, ac, s)) = 0
<1>1. Len(q) \in Nat /\ DOMAIN q = 1..Len(q) /\ (q = <<>> => Len(q) = 0)
  BY FilaFatos
<1>2. Marcas(q, ac, s) \subseteq 1..Len(q)
  BY <1>1 DEF Marcas
<1>3. IsFiniteSet(1..Len(q))
  BY <1>1, FS_Interval
<1>4. IsFiniteSet(Marcas(q, ac, s))
  BY <1>2, <1>3, FS_Subset
<1>5. Cardinality(Marcas(q, ac, s)) \in Nat
  BY <1>4, FS_CardinalityType
<1>6. ASSUME q = <<>> PROVE Cardinality(Marcas(q, ac, s)) = 0
  <2>1. Marcas(q, ac, s) = {}
    BY <1>1, <1>2, <1>6
  <2> QED
    BY <2>1, FS_EmptySet
<1> QED
  BY <1>2, <1>4, <1>5, <1>6

LEMMA MarcasSoma ==
    ASSUME NEW q \in Seq(ItemTipo), NEW r \in Seq(ItemTipo), NEW ac, NEW s
    PROVE  Cardinality(Marcas(q \o r, ac, s))
              = Cardinality(Marcas(q, ac, s)) + Cardinality(Marcas(r, ac, s))
<1> DEFINE A == Marcas(q, ac, s)
           B == Marcas(r, ac, s)
           C == {k \in (Len(q) + 1)..(Len(q) + Len(r)) : De((q \o r)[k], ac) = s}
           f == [k \in B |-> Len(q) + k]
<1>0. /\ Len(q) \in Nat /\ Len(r) \in Nat /\ DOMAIN q = 1..Len(q) /\ DOMAIN r = 1..Len(r)
  BY FilaFatos
<1>1. /\ DOMAIN (q \o r) = 1..(Len(q) + Len(r))
      /\ \A k \in 1..Len(q) : (q \o r)[k] = q[k]
      /\ \A k \in 1..Len(r) : (q \o r)[Len(q) + k] = r[k]
  BY JuntaFatos
<1>2. IsFiniteSet(A) /\ IsFiniteSet(B) /\ Cardinality(A) \in Nat /\ A \subseteq 1..Len(q)
  BY MarcasFatos
<1>3. Marcas(q \o r, ac, s) = A \cup C
  <2>1. \A k \in 1..(Len(q) + Len(r)) : k \in 1..Len(q) \/ k \in (Len(q) + 1)..(Len(q) + Len(r))
    BY <1>0
  <2>2. \A k \in 1..Len(q) : k \in 1..(Len(q) + Len(r))
    BY <1>0
  <2>3. \A k \in (Len(q) + 1)..(Len(q) + Len(r)) : k \in 1..(Len(q) + Len(r))
    BY <1>0
  <2> QED
    BY <1>0, <1>1, <2>1, <2>2, <2>3 DEF Marcas
<1>4. \A k \in C : k - Len(q) \in B
  <2> SUFFICES ASSUME NEW k \in C PROVE k - Len(q) \in B
    OBVIOUS
  <2>1. k \in (Len(q) + 1)..(Len(q) + Len(r)) /\ De((q \o r)[k], ac) = s
    OBVIOUS
  <2>2. k - Len(q) \in 1..Len(r) /\ Len(q) + (k - Len(q)) = k
    BY <1>0, <2>1
  <2> QED
    BY <1>0, <1>1, <2>1, <2>2 DEF Marcas
<1>5. \A k \in B : Len(q) + k \in C
  <2> SUFFICES ASSUME NEW k \in B PROVE Len(q) + k \in C
    OBVIOUS
  <2>1. k \in 1..Len(r) /\ De(r[k], ac) = s
    BY <1>0 DEF Marcas
  <2>2. Len(q) + k \in (Len(q) + 1)..(Len(q) + Len(r))
    BY <1>0, <2>1
  <2> QED
    BY <1>1, <2>1, <2>2
<1>6. B \subseteq 1..Len(r)
  BY MarcasFatos
<1>7. f \in Bijection(B, C)
  <2>1. f \in [B -> C]
    BY <1>5
  <2>2. \A a, b \in B : f[a] = f[b] => a = b
    BY <1>0, <1>6
  <2>3. \A t \in C : \E a \in B : f[a] = t
    <3> SUFFICES ASSUME NEW t \in C PROVE \E a \in B : f[a] = t
      OBVIOUS
    <3>1. t - Len(q) \in B /\ f[t - Len(q)] = Len(q) + (t - Len(q))
      BY <1>4
    <3>2. t \in Int
      BY <1>0
    <3> QED
      BY <1>0, <3>1, <3>2
  <2> QED
    BY <2>1, <2>2, <2>3 DEF Bijection, Injection, Surjection, IsInjective
<1>8. IsFiniteSet(C) /\ Cardinality(C) = Cardinality(B)
  BY <1>2, <1>7, FS_Bijection DEF ExistsBijection
<1>9. A \cap C = {}
  BY <1>0, <1>2
<1>10. Cardinality(A \cup C) = Cardinality(A) + Cardinality(C) - Cardinality(A \cap C)
  BY <1>2, <1>8, FS_Union
<1>11. Cardinality(A \cap C) = 0
  BY <1>9, FS_EmptySet
<1>12. Cardinality(C) \in Nat
  BY <1>8, FS_CardinalityType
<1>13. Cardinality(B) \in Nat
  BY <1>2, FS_CardinalityType
<1> HIDE DEF A, B, C
<1>14. Cardinality(A \cup C) = Cardinality(A) + Cardinality(B)
  BY <1>2, <1>8, <1>10, <1>11, <1>12, <1>13
<1> QED
  BY <1>3, <1>14 DEF A, B

LEMMA MarcasDeUm ==
    ASSUME NEW x \in ItemTipo, NEW ac, NEW s
    PROVE  /\ <<x>> \in Seq(ItemTipo)
           /\ Cardinality(Marcas(<<x>>, ac, s)) = IF De(x, ac) = s THEN 1 ELSE 0
<1>1. <<x>> \in Seq(ItemTipo) /\ Len(<<x>>) = 1 /\ <<x>>[1] = x
  OBVIOUS
<1>2. DOMAIN <<x>> = {1}
  BY <1>1, FilaFatos
<1>3. CASE De(x, ac) = s
  <2>1. Marcas(<<x>>, ac, s) = {1}
    BY <1>1, <1>2, <1>3 DEF Marcas
  <2> QED
    BY <1>1, <1>3, <2>1, FS_Singleton
<1>4. CASE De(x, ac) # s
  <2>1. Marcas(<<x>>, ac, s) = {}
    BY <1>1, <1>2, <1>4 DEF Marcas
  <2> QED
    BY <1>1, <1>4, <2>1, FS_EmptySet
<1> QED
  BY <1>3, <1>4

LEMMA MarcasPartes ==
    ASSUME NEW q \in Seq(ItemTipo), NEW n \in Nat, n <= Len(q), NEW ac, NEW s
    PROVE  /\ SubSeq(q, 1, n) \in Seq(ItemTipo)
           /\ Cardinality(Marcas(q, ac, s)) = Cardinality(Marcas(SubSeq(q, 1, n), ac, s))
                 + Cardinality(Marcas(SubSeq(q, n + 1, Len(q)), ac, s))
<1>0. Len(q) \in Nat /\ \A k \in 1..Len(q) : q[k] \in ItemTipo
  BY FilaFatos
<1>1. SubSeq(q, 1, n) \in Seq(ItemTipo)
  <2>1. 1 \in Int /\ n \in Int /\ \A i \in 1..n : q[i] \in ItemTipo
    BY <1>0
  <2> QED
    BY <2>1, SubSeqProperties
<1>2. SubSeq(q, n + 1, Len(q)) \in Seq(ItemTipo)
  BY RestoFatos
<1>3. 1 \in 1..Len(q) + 1 /\ n \in (1 - 1)..Len(q) /\ Len(q) \in n..Len(q)
  BY <1>0
<1>4. SubSeq(q, 1, n) \o SubSeq(q, n + 1, Len(q)) = SubSeq(q, 1, Len(q))
  BY <1>3, ConcatAdjacentSubSeq
<1>5. SubSeq(q, 1, Len(q)) = q
  BY SubSeqFull
<1> DEFINE a == SubSeq(q, 1, n)
           b == SubSeq(q, n + 1, Len(q))
<1>6. q = a \o b /\ a \in Seq(ItemTipo) /\ b \in Seq(ItemTipo)
  BY <1>1, <1>2, <1>4, <1>5
<1> HIDE DEF a, b
<1>7. Cardinality(Marcas(a \o b, ac, s)) = Cardinality(Marcas(a, ac, s)) + Cardinality(Marcas(b, ac, s))
  BY <1>6, MarcasSoma
<1> QED
  BY <1>1, <1>6, <1>7 DEF a, b

LEMMA MarcasCabeca ==
    ASSUME NEW q \in Seq(ItemTipo), q # <<>>, NEW ac, NEW s
    PROVE  Cardinality(Marcas(q, ac, s))
              = (IF De(Head(q), ac) = s THEN 1 ELSE 0) + Cardinality(Marcas(Tail(q), ac, s))
<1>1. /\ Head(q) = q[1] /\ Head(q) \in ItemTipo /\ Tail(q) \in Seq(ItemTipo)
      /\ Len(Tail(q)) = Len(q) - 1 /\ \A k \in 1..(Len(q) - 1) : Tail(q)[k] = q[k + 1]
  BY CabecaFatos
<1>2. Len(q) \in Nat /\ Len(q) >= 1
  BY FilaFatos
<1>3. <<Head(q)>> \in Seq(ItemTipo) /\ Len(<<Head(q)>>) = 1 /\ <<Head(q)>>[1] = q[1]
  BY <1>1
<1>4. /\ <<Head(q)>> \o Tail(q) \in Seq(ItemTipo)
      /\ Len(<<Head(q)>> \o Tail(q)) = Len(q)
      /\ \A k \in 1..1 : (<<Head(q)>> \o Tail(q))[k] = q[1]
      /\ \A k \in 1..(Len(q) - 1) : (<<Head(q)>> \o Tail(q))[1 + k] = q[k + 1]
  BY <1>1, <1>2, <1>3, JuntaFatos
<1>5. \A k \in 1..Len(q) : (<<Head(q)>> \o Tail(q))[k] = q[k]
  <2> SUFFICES ASSUME NEW k \in 1..Len(q) PROVE (<<Head(q)>> \o Tail(q))[k] = q[k]
    OBVIOUS
  <2>1. CASE k = 1
    BY <1>4, <2>1
  <2>2. CASE k # 1
    <3>1. k - 1 \in 1..(Len(q) - 1) /\ 1 + (k - 1) = k /\ (k - 1) + 1 = k
      BY <1>2, <2>2
    <3> QED
      BY <1>4, <3>1
  <2> QED
    BY <2>1, <2>2
<1>6. <<Head(q)>> \o Tail(q) = q
  BY <1>2, <1>4, <1>5, SeqEqual
<1> DEFINE h == <<Head(q)>>
           t == Tail(q)
<1>7. h \in Seq(ItemTipo) /\ t \in Seq(ItemTipo)
  BY <1>1, <1>3
<1>10. q = h \o t
  BY <1>6
<1>8. Cardinality(Marcas(h, ac, s)) = IF De(Head(q), ac) = s THEN 1 ELSE 0
  BY <1>1, MarcasDeUm
<1> HIDE DEF h, t
<1>9. Cardinality(Marcas(h \o t, ac, s)) = Cardinality(Marcas(h, ac, s)) + Cardinality(Marcas(t, ac, s))
  BY <1>7, MarcasSoma
<1> QED
  BY <1>8, <1>9, <1>10 DEF t

LEMMA SemContarFatos ==
    ASSUME NEW p \in [Textos -> Nat], NEW its \in Seq(ItemTipo)
    PROVE  /\ SemContar(p, its) \in [Textos -> Nat]
           /\ \A s \in Textos : SemContar(p, its)[s] =
                 IF p[s] > Cardinality(Marcas(its, aceitas, s))
                 THEN p[s] - Cardinality(Marcas(its, aceitas, s)) ELSE 0
<1>1. \A s \in Textos : Cardinality(Marcas(its, aceitas, s)) \in Nat
  BY MarcasFatos
<1>2. SemContar(p, its) = [s \in Textos |->
         IF p[s] > Cardinality(Marcas(its, aceitas, s))
         THEN p[s] - Cardinality(Marcas(its, aceitas, s)) ELSE 0]
  BY DEF SemContar, Marcas, De, Sig
<1>3. \A s \in Textos : SemContar(p, its)[s] =
         IF p[s] > Cardinality(Marcas(its, aceitas, s))
         THEN p[s] - Cardinality(Marcas(its, aceitas, s)) ELSE 0
  BY <1>2
<1>4. SemContar(p, its) \in [Textos -> Nat]
  <2>1. \A s \in Textos : SemContar(p, its)[s] \in Nat
    BY <1>1, <1>3
  <2>2. SemContar(p, its) = [s \in Textos |-> SemContar(p, its)[s]]
    BY <1>2
  <2> QED
    BY <2>1, <2>2
<1> QED
  BY <1>3, <1>4

-----------------------------------------------------------------------------
\* What is left of the queue when its first n items are discarded.

LEMMA DescartarCampos ==
    ASSUME NEW e, FilaBoa(e, aceitas), NEW n \in Nat, n <= Len(e.queue),
           e.unfinished >= Len(e.queue)
    PROVE  /\ FilaBoa(Descartar(e, n), aceitas)
           /\ Descartar(e, n).queue = SubSeq(e.queue, n + 1, Len(e.queue))
           /\ Descartar(e, n).pending = SemContar(e.pending, SubSeq(e.queue, 1, n))
           /\ Descartar(e, n).unfinished = e.unfinished - n
           /\ Descartar(e, n).existe = e.existe /\ Descartar(e, n).accepting = e.accepting
           /\ Descartar(e, n).dashboard = e.dashboard
           /\ Descartar(e, n).generation = e.generation /\ Descartar(e, n).orfa = e.orfa
<1> DEFINE f == Descartar(e, n)
           q == e.queue
           r == SubSeq(q, n + 1, Len(q))
           a == SubSeq(q, 1, n)
<1>0. /\ e \in EstadoTipo /\ q \in Seq(ItemTipo) /\ Len(q) \in Nat /\ Len(q) <= Capacidade
      /\ e.unfinished \in Nat /\ e.pending \in [Textos -> Nat] /\ DOMAIN q = 1..Len(q)
      /\ \A k \in DOMAIN q : Valido(q[k], aceitas)
  BY FilaFatos DEF FilaBoa, EstadoTipo
<1>1. /\ r \in Seq(ItemTipo) /\ Len(r) = Len(q) - n /\ DOMAIN r = 1..(Len(q) - n)
      /\ \A k \in 1..(Len(q) - n) : r[k] = q[k + n]
  BY <1>0, RestoFatos
<1>2. a \in Seq(ItemTipo)
  BY <1>0, MarcasPartes
<1>3. SemContar(e.pending, a) \in [Textos -> Nat]
  BY <1>0, <1>2, SemContarFatos
<1>4. e.unfinished - n \in Nat
  BY <1>0
<1>5. f = [e EXCEPT !.queue = r, !.pending = SemContar(e.pending, a), !.unfinished = e.unfinished - n]
  BY DEF Descartar
<1> HIDE DEF f, r, a
<1>6. /\ f \in EstadoTipo /\ f.queue = r /\ f.pending = SemContar(e.pending, a)
      /\ f.unfinished = e.unfinished - n /\ f.existe = e.existe /\ f.accepting = e.accepting
      /\ f.dashboard = e.dashboard /\ f.generation = e.generation /\ f.orfa = e.orfa
  BY <1>0, <1>1, <1>3, <1>4, <1>5 DEF EstadoTipo
<1>7. FilaBoa(f, aceitas)
  <2>1. Len(r) <= Capacidade
    BY <1>0, <1>1, FilaAssumption
  <2>2. \A k \in DOMAIN r : Valido(r[k], aceitas)
    <3> SUFFICES ASSUME NEW k \in DOMAIN r PROVE Valido(r[k], aceitas)
      OBVIOUS
    <3>1. r[k] = q[k + n] /\ k + n \in DOMAIN q
      BY <1>0, <1>1
    <3> QED
      BY <1>0, <3>1
  <2>3. r # <<>> => q # <<>>
    <3>1. r # <<>> => Len(r) >= 1
      BY <1>1, FilaFatos
    <3>2. q = <<>> => Len(q) = 0
      BY <1>0, FilaFatos
    <3> QED
      BY <1>0, <1>1, <3>1, <3>2
  <2> QED
    BY <1>6, <2>1, <2>2, <2>3 DEF FilaBoa
<1> QED
  BY <1>6, <1>7 DEF f, r, a

\* The rest of it is as it was.
LEMMA DescartarVale ==
    ASSUME NEW e, FilaBoa(e, aceitas), NEW n \in Nat, n <= Len(e.queue),
           NEW v, v \in WorkerTipo, Devidas(e, v), NEW l, NEW ct,
           Ordem(e.queue, v, tocada, tirada), Depois(e, v, ct), Sinais(e, v, aceitas, l)
    PROVE  /\ Devidas(Descartar(e, n), v) /\ Ordem(Descartar(e, n).queue, v, tocada, tirada)
           /\ Depois(Descartar(e, n), v, ct) /\ Sinais(Descartar(e, n), v, aceitas, l)
           /\ e.unfinished >= Len(e.queue)
<1> DEFINE f == Descartar(e, n)
           q == e.queue
           r == SubSeq(q, n + 1, Len(q))
           a == SubSeq(q, 1, n)
<1>0. /\ e \in EstadoTipo /\ q \in Seq(ItemTipo) /\ Len(q) \in Nat
      /\ e.unfinished \in Nat /\ e.pending \in [Textos -> Nat] /\ DOMAIN q = 1..Len(q)
  BY FilaFatos DEF FilaBoa, EstadoTipo
<1>00. Um(v.item) \in Nat /\ Um(v.adiantado) \in Nat /\ Um(v.trazida) \in Nat
  BY DEF Um
<1>01. e.unfinished >= Len(e.queue)
  BY <1>0, <1>00 DEF Devidas
<1>1. /\ r \in Seq(ItemTipo) /\ Len(r) = Len(q) - n /\ DOMAIN r = 1..(Len(q) - n)
      /\ \A k \in 1..(Len(q) - n) : r[k] = q[k + n]
  BY <1>0, RestoFatos
<1>2. /\ f.queue = r /\ f.pending = SemContar(e.pending, a)
      /\ f.unfinished = e.unfinished - n /\ f.generation = e.generation
  BY <1>01, DescartarCampos
<1>3. ASSUME NEW s
      PROVE  /\ a \in Seq(ItemTipo)
             /\ Cardinality(Marcas(q, aceitas, s))
                   = Cardinality(Marcas(a, aceitas, s)) + Cardinality(Marcas(r, aceitas, s))
  <2>1. q \in Seq(ItemTipo) /\ n \in Nat /\ n <= Len(q)
    BY <1>0
  <2> HIDE DEF q
  <2> QED
    BY ONLY <2>1, MarcasPartes
<1>31. a \in Seq(ItemTipo)
  BY <1>0, MarcasPartes
<1>32. SemContar(e.pending, a) = f.pending
  BY <1>2
<1> HIDE DEF f, r, a
<1>4. \A s \in Textos : f.pending[s] =
         IF e.pending[s] > Cardinality(Marcas(a, aceitas, s))
         THEN e.pending[s] - Cardinality(Marcas(a, aceitas, s)) ELSE 0
  BY <1>0, <1>31, <1>32, SemContarFatos
<1>5. Devidas(f, v)
  BY <1>0, <1>00, <1>1, <1>2 DEF Devidas
<1>6. \A k \in DOMAIN r : k + n \in DOMAIN q /\ r[k] = q[k + n]
  BY <1>0, <1>1
<1>7. Ordem(r, v, tocada, tirada)
  <2>1. \A j, k \in DOMAIN r : j < k => Menor(r[j], r[k])
    <3> SUFFICES ASSUME NEW j \in DOMAIN r, NEW k \in DOMAIN r, j < k PROVE Menor(r[j], r[k])
      OBVIOUS
    <3>1. j + n < k + n
      BY <1>1
    <3> QED
      BY <1>6, <3>1 DEF Ordem
  <2>2. \A k \in DOMAIN r : Menor(tirada, r[k])
    BY <1>6 DEF Ordem
  <2> QED
    BY <2>1, <2>2 DEF Ordem
<1>8. Depois(f, v, ct)
  <2>1. \A k \in DOMAIN r : r[k].n > ct
    BY <1>6 DEF Depois
  <2> QED
    BY <1>2, <2>1 DEF Depois
<1>9. Sinais(f, v, aceitas, l)
  <2> SUFFICES ASSUME NEW s \in Textos
               PROVE  /\ f.pending[s] <= Cardinality(Marcas(r, aceitas, s)) + Marcada(v, aceitas, s)
                      /\ Cardinality(Pedidas(l)) <= 1 => f.pending[s] =
                            Cardinality(Marcas(r, aceitas, s)) + Marcada(v, aceitas, s)
    BY <1>2 DEF Sinais
  <2>1. /\ Cardinality(Marcas(a, aceitas, s)) \in Nat /\ Cardinality(Marcas(r, aceitas, s)) \in Nat
        /\ e.pending[s] \in Nat /\ Marcada(v, aceitas, s) \in Nat
    BY <1>0, <1>1, <1>31, MarcasFatos DEF Marcada
  <2>2. /\ e.pending[s] <= Cardinality(Marcas(q, aceitas, s)) + Marcada(v, aceitas, s)
        /\ Cardinality(Pedidas(l)) <= 1 =>
              e.pending[s] = Cardinality(Marcas(q, aceitas, s)) + Marcada(v, aceitas, s)
    BY DEF Sinais
  <2> QED
    BY <1>3, <1>4, <2>1, <2>2
<1> QED
  BY <1>01, <1>2, <1>5, <1>7, <1>8, <1>9 DEF f, r

\* Messages stay whole when what leaves ends a message, or is everything.
LEMMA DescartarInteiras ==
    ASSUME NEW q \in Seq(ItemTipo), NEW n \in Nat, n <= Len(q), NEW tr, NEW ac, Inteiras(q, tr, ac),
           n \in {0, Len(q)} \/ q[n].n # q[n + 1].n
    PROVE  Inteiras(SubSeq(q, n + 1, Len(q)), tr, ac)
<1> DEFINE r == SubSeq(q, n + 1, Len(q))
<1>0. Len(q) \in Nat /\ DOMAIN q = 1..Len(q) /\ \A k \in 1..Len(q) : q[k] \in ItemTipo
  BY FilaFatos
<1>1. /\ r \in Seq(ItemTipo) /\ Len(r) = Len(q) - n /\ DOMAIN r = 1..(Len(q) - n)
      /\ \A k \in 1..(Len(q) - n) : r[k] = q[k + n]
  BY RestoFatos
<1> SUFFICES Inteiras(r, tr, ac)
  OBVIOUS
<1> HIDE DEF r
<1> SUFFICES ASSUME NEW k \in 1..(Len(q) - n)
             PROVE  /\ r[k].i < Len(Texto[ac[r[k].n]]) =>
                          k < Len(r) /\ r[k + 1] = [r[k] EXCEPT !.i = @ + 1]
                    /\ r[k].i > 1 => (IF k = 1 THEN tr ELSE r[k - 1]) = [r[k] EXCEPT !.i = @ - 1]
  BY <1>1 DEF Inteiras
<1>2. k \in Nat /\ k + n \in 1..Len(q) /\ r[k] = q[k + n]
  <2>1. Len(q) \in Nat /\ n \in Nat /\ k \in 1..(Len(q) - n)
    BY <1>0
  <2>2. k \in Nat /\ k + n \in 1..Len(q)
    BY ONLY <2>1
  <2>3. r[k] = q[k + n]
    BY <1>1, <2>1
  <2> QED
    BY <2>2, <2>3
<1> DEFINE j == k + n
           m == Len(q)
<1>3. /\ q[j].i < Len(Texto[ac[q[j].n]]) => j < m /\ q[j + 1] = [q[j] EXCEPT !.i = @ + 1]
      /\ q[j].i > 1 => (IF j = 1 THEN tr ELSE q[j - 1]) = [q[j] EXCEPT !.i = @ - 1]
  <2>1. j \in DOMAIN q
    BY <1>0, <1>2
  <2> HIDE DEF j
  <2> QED
    BY <2>1 DEF Inteiras
<1>6. m \in Nat /\ k \in 1..(m - n)
  BY <1>0
<1>7. /\ k + 1 = (j - n) + 1 /\ (k + 1) + n = j + 1 /\ (k - 1) + n = j - 1 /\ j \in Nat
      /\ j < m => k < m - n /\ k + 1 \in 1..(m - n)
      /\ k # 1 => k - 1 \in 1..(m - n) /\ j # 1
      /\ k = 1 /\ n = 0 => j = 1
      /\ k = 1 /\ n # 0 => j # 1 /\ j - 1 = n /\ j = n + 1 /\ n # m
  <2> HIDE DEF m
  <2> QED
    BY ONLY <1>6, n \in Nat
<1>8. q[j] = r[k] /\ q[j] \in ItemTipo /\ Len(r) = m - n
  BY <1>0, <1>1, <1>2
<1>9. \A a \in 1..(m - n) : r[a] = q[a + n]
  BY <1>1
<1> HIDE DEF j, m
<1>4. ASSUME r[k].i < Len(Texto[ac[r[k].n]])
      PROVE  k < Len(r) /\ r[k + 1] = [r[k] EXCEPT !.i = @ + 1]
  <2>1. j < m /\ q[j + 1] = [q[j] EXCEPT !.i = @ + 1]
    BY <1>3, <1>4, <1>8
  <2>2. k < m - n /\ r[k + 1] = q[(k + 1) + n]
    BY <1>7, <1>9, <2>1
  <2> QED
    BY <1>7, <1>8, <2>1, <2>2
<1>5. ASSUME r[k].i > 1
      PROVE  (IF k = 1 THEN tr ELSE r[k - 1]) = [r[k] EXCEPT !.i = @ - 1]
  <2>1. (IF j = 1 THEN tr ELSE q[j - 1]) = [q[j] EXCEPT !.i = @ - 1]
    BY <1>3, <1>5, <1>8
  <2>2. CASE k # 1
    <3>1. r[k - 1] = q[(k - 1) + n]
      BY <1>7, <1>9, <2>2
    <3> QED
      BY <1>7, <1>8, <2>1, <2>2, <3>1
  <2>3. CASE k = 1 /\ n = 0
    BY <1>7, <1>8, <2>1, <2>3
  <2>4. CASE k = 1 /\ n # 0
    <3>1. q[n] = [q[n + 1] EXCEPT !.i = @ - 1] /\ q[n + 1] \in ItemTipo /\ n # m
      BY <1>7, <1>8, <2>1, <2>4
    <3>2. q[n].n = q[n + 1].n
      BY <3>1 DEF ItemTipo
    <3> QED
      BY <2>4, <3>1, <3>2 DEF m
  <2> QED
    BY <2>2, <2>3, <2>4
<1> QED
  BY <1>4, <1>5

-----------------------------------------------------------------------------
\* What the head of the queue and the rest of it are.

LEMMA MenorFatos ==
    ASSUME NEW a \in ItemTipo, NEW b \in ItemTipo, NEW c \in ItemTipo
    PROVE  /\ Ate(a, b) /\ Menor(b, c) => Menor(a, c) /\ Ate(a, c)
           /\ Menor(a, b) /\ Ate(b, c) => Menor(a, c) /\ Ate(a, c)
           /\ Ate(a, b) /\ Ate(b, c) => Ate(a, c)
           /\ Ate(a, a) /\ (Menor(a, b) => Ate(a, b) /\ a # b)
  BY DEF Ate, Menor, ItemTipo

LEMMA NadaFatos ==
    /\ Nada \in ItemTipo /\ \A x \in ItemTipo : Ate(Nada, x)
    /\ \A x, ac : Valido(x, ac) => x # Nada /\ x \in ItemTipo /\ (ac \in Seq(Mensagens) => Menor(Nada, x))
<1>1. Cardinality(Limpadores) \in Nat
  BY FilaAssumption, FS_CardinalityType
<1>2. Nada \in ItemTipo
  BY <1>1 DEF Nada, ItemTipo, Geracoes
<1>3. \A x \in ItemTipo : Ate(Nada, x)
  BY DEF Nada, ItemTipo, Ate, Menor
<1>4. ASSUME NEW x, NEW ac, Valido(x, ac)
      PROVE  x # Nada /\ x \in ItemTipo /\ (ac \in Seq(Mensagens) => Menor(Nada, x))
  BY <1>4 DEF Nada, Valido, Menor, ItemTipo
<1> QED
  BY <1>2, <1>3, <1>4

LEMMA CabecaVale ==
    ASSUME NEW q \in Seq(ItemTipo), q # <<>>, \A k \in DOMAIN q : Valido(q[k], aceitas),
           NEW v, NEW tc, NEW tr, Ordem(q, v, tc, tr), Inteiras(q, tr, aceitas)
    PROVE  /\ Valido(Head(q), aceitas) /\ Menor(tr, Head(q))
           /\ \A k \in DOMAIN Tail(q) : Valido(Tail(q)[k], aceitas) /\ Menor(Head(q), Tail(q)[k])
           /\ \A j, k \in DOMAIN Tail(q) : j < k => Menor(Tail(q)[j], Tail(q)[k])
           /\ Inteiras(Tail(q), Head(q), aceitas)
           /\ \A k \in DOMAIN Tail(q) : k + 1 \in DOMAIN q /\ Tail(q)[k] = q[k + 1]
           /\ 1 \in DOMAIN q /\ Head(q) = q[1]
<1> DEFINE t == Tail(q)
           h == Head(q)
           m == Len(q)
<1>1. /\ m \in Nat /\ m >= 1 /\ DOMAIN q = 1..m
  BY FilaFatos
<1>2. /\ h = q[1] /\ h \in ItemTipo /\ t \in Seq(ItemTipo) /\ Len(t) = m - 1
      /\ DOMAIN t = 1..(m - 1) /\ \A k \in 1..(m - 1) : t[k] = q[k + 1]
  BY CabecaFatos
<1> HIDE DEF t, h, m
<1>3. \A k \in DOMAIN t : k \in Nat /\ k >= 1 /\ k + 1 \in DOMAIN q /\ t[k] = q[k + 1]
  BY <1>1, <1>2
<1>4. 1 \in DOMAIN q
  BY <1>1
<1>5. Valido(h, aceitas) /\ Menor(tr, h)
  BY <1>2, <1>4 DEF Ordem
<1>6. \A k \in DOMAIN t : Valido(t[k], aceitas)
  BY <1>3
<1>7. \A k \in DOMAIN t : Menor(h, t[k])
  <2> SUFFICES ASSUME NEW k \in DOMAIN t PROVE Menor(h, t[k])
    OBVIOUS
  <2>1. 1 < k + 1
    BY <1>3
  <2> QED
    BY <1>2, <1>3, <1>4, <2>1 DEF Ordem
<1>8. \A j, k \in DOMAIN t : j < k => Menor(t[j], t[k])
  <2> SUFFICES ASSUME NEW j \in DOMAIN t, NEW k \in DOMAIN t, j < k PROVE Menor(t[j], t[k])
    OBVIOUS
  <2>1. j + 1 < k + 1
    BY <1>3
  <2> QED
    BY <1>3, <2>1 DEF Ordem
<1>9. Inteiras(t, h, aceitas)
  <2> SUFFICES ASSUME NEW k \in DOMAIN t
               PROVE  /\ t[k].i < Len(Texto[aceitas[t[k].n]]) =>
                            k < Len(t) /\ t[k + 1] = [t[k] EXCEPT !.i = @ + 1]
                      /\ t[k].i > 1 =>
                            (IF k = 1 THEN h ELSE t[k - 1]) = [t[k] EXCEPT !.i = @ - 1]
    BY DEF Inteiras
  <2> DEFINE j == k + 1
  <2>1. j \in DOMAIN q /\ t[k] = q[j] /\ k \in 1..(m - 1)
    BY <1>2, <1>3
  <2>2. /\ j - 1 = k /\ j # 1 /\ (j < m => k < m - 1 /\ k + 1 \in 1..(m - 1) /\ (k + 1) + 1 = j + 1)
        /\ k # 1 => k - 1 \in 1..(m - 1) /\ (k - 1) + 1 = k
    BY <1>1, <2>1
  <2> HIDE DEF j
  <2>3. /\ q[j].i < Len(Texto[aceitas[q[j].n]]) => j < m /\ q[j + 1] = [q[j] EXCEPT !.i = @ + 1]
        /\ q[j].i > 1 => (IF j = 1 THEN tr ELSE q[j - 1]) = [q[j] EXCEPT !.i = @ - 1]
    BY <2>1 DEF Inteiras, m
  <2>4. k # 1 => t[k - 1] = q[k]
    BY <1>2, <2>2
  <2>5. j < m => t[k + 1] = q[j + 1]
    BY <1>2, <2>2
  <2>6. k = 1 => h = q[k]
    BY <1>2
  <2>7. (IF k = 1 THEN h ELSE t[k - 1]) = q[k]
    BY <2>4, <2>6
  <2> QED
    BY <1>2, <2>1, <2>2, <2>3, <2>5, <2>7
<1> QED
  BY <1>2, <1>3, <1>4, <1>5, <1>6, <1>7, <1>8, <1>9 DEF t, h

\* get_nowait with its signature counted out.
LEMMA TirarVale ==
    ASSUME NEW e, FilaBoa(e, aceitas), e.queue # <<>>
    PROVE  /\ FilaBoa(Tirar(e), aceitas)
           /\ Tirar(e).queue = Tail(e.queue) /\ Tirar(e).unfinished = e.unfinished
           /\ Tirar(e).existe = e.existe /\ Tirar(e).accepting = e.accepting
           /\ Tirar(e).dashboard = e.dashboard
           /\ Tirar(e).generation = e.generation /\ Tirar(e).orfa = e.orfa
           /\ Len(Tail(e.queue)) = Len(e.queue) - 1
           /\ \A v, u, l :
                 Sinais(e, v, aceitas, l) /\ (\A s : Marcada(u, aceitas, s) = Marcada(v, aceitas, s)) =>
                    Sinais(Tirar(e), u, aceitas, l)
<1> DEFINE f == Tirar(e)
           q == e.queue
           t == Tail(q)
           h == Head(q)
           a == <<h>>
<1>0. /\ e \in EstadoTipo /\ q \in Seq(ItemTipo) /\ Len(q) \in Nat /\ Len(q) <= Capacidade
      /\ e.unfinished \in Nat /\ e.pending \in [Textos -> Nat] /\ DOMAIN q = 1..Len(q)
      /\ \A k \in DOMAIN q : Valido(q[k], aceitas)
  BY FilaFatos DEF FilaBoa, EstadoTipo
<1>1. /\ h = q[1] /\ h \in ItemTipo /\ t \in Seq(ItemTipo) /\ Len(t) = Len(q) - 1
      /\ DOMAIN t = 1..(Len(q) - 1) /\ \A k \in 1..(Len(q) - 1) : t[k] = q[k + 1]
  BY <1>0, CabecaFatos
<1>2. a \in Seq(ItemTipo) /\ \A s : Cardinality(Marcas(a, aceitas, s)) = IF De(h, aceitas) = s THEN 1 ELSE 0
  BY <1>1, MarcasDeUm
<1>3. SemContar(e.pending, a) \in [Textos -> Nat]
  BY <1>0, <1>2, SemContarFatos
<1>4. f = [e EXCEPT !.queue = t, !.pending = SemContar(e.pending, a)]
  BY DEF Tirar
<1>5. \A s : Cardinality(Marcas(q, aceitas, s))
          = (IF De(h, aceitas) = s THEN 1 ELSE 0) + Cardinality(Marcas(t, aceitas, s))
  BY <1>0, MarcasCabeca
<1> HIDE DEF f, t, a, h
<1>6. /\ f \in EstadoTipo /\ f.queue = t /\ f.pending = SemContar(e.pending, a)
      /\ f.unfinished = e.unfinished /\ f.existe = e.existe /\ f.accepting = e.accepting
      /\ f.dashboard = e.dashboard /\ f.generation = e.generation /\ f.orfa = e.orfa
  BY <1>0, <1>1, <1>3, <1>4 DEF EstadoTipo
<1>7. FilaBoa(f, aceitas)
  <2>1. Len(t) <= Capacidade
    BY <1>0, <1>1, FilaAssumption
  <2>2. \A k \in DOMAIN t : Valido(t[k], aceitas)
    BY <1>0, <1>1
  <2> QED
    BY <1>6, <2>1, <2>2 DEF FilaBoa
<1>8. ASSUME NEW v, NEW u, NEW l, Sinais(e, v, aceitas, l),
             \A s : Marcada(u, aceitas, s) = Marcada(v, aceitas, s)
      PROVE  Sinais(f, u, aceitas, l)
  <2> SUFFICES ASSUME NEW s \in Textos
               PROVE  /\ f.pending[s] <= Cardinality(Marcas(t, aceitas, s)) + Marcada(v, aceitas, s)
                      /\ Cardinality(Pedidas(l)) <= 1 => f.pending[s] =
                            Cardinality(Marcas(t, aceitas, s)) + Marcada(v, aceitas, s)
    BY <1>6, <1>8 DEF Sinais
  <2>1. /\ Cardinality(Marcas(t, aceitas, s)) \in Nat /\ e.pending[s] \in Nat
        /\ Marcada(v, aceitas, s) \in {0, 1}
    BY <1>0, <1>1, MarcasFatos DEF Marcada
  <2>2. f.pending[s] = IF e.pending[s] > Cardinality(Marcas(a, aceitas, s))
                       THEN e.pending[s] - Cardinality(Marcas(a, aceitas, s)) ELSE 0
    BY <1>0, <1>2, <1>6, SemContarFatos
  <2>3. /\ e.pending[s] <= Cardinality(Marcas(q, aceitas, s)) + Marcada(v, aceitas, s)
        /\ Cardinality(Pedidas(l)) <= 1 =>
              e.pending[s] = Cardinality(Marcas(q, aceitas, s)) + Marcada(v, aceitas, s)
    BY <1>8 DEF Sinais
  <2>4. /\ Cardinality(Marcas(q, aceitas, s)) = Cardinality(Marcas(a, aceitas, s)) + Cardinality(Marcas(t, aceitas, s))
        /\ Cardinality(Marcas(a, aceitas, s)) \in {0, 1}
    BY <1>2, <1>5
  <2> QED
    BY <2>1, <2>2, <2>3, <2>4
<1> QED
  BY <1>1, <1>6, <1>7, <1>8 DEF f, t

-----------------------------------------------------------------------------
\* The worker ends. Solta(e): the queue as the worker leaves it in e.

Solta(e) ==
    /\ FilaBoa(e, aceitas) /\ e.unfinished >= Len(e.queue) /\ e.existe
    /\ e.queue = estado.queue /\ e.accepting = estado.accepting
    /\ e.generation = estado.generation
    /\ Sinais(e, SemWorker, aceitas, limpador)
    /\ e.orfa /\ ~ encerrando => estado.orfa \/ e.queue = <<>> \/ ~ (Cardinality(Pedidas(limpador)) <= 2)

LEMMA AvisadosVale ==
    ASSUME limpador \in LimpadorTipo, NEW d \in {"pronta", "orfao"}, Avisados(d)
    PROVE  /\ limpador' \in LimpadorTipo /\ Pedidas(limpador') = Pedidas(limpador)
           /\ ~ Alguma(limpador', "espera")
           /\ Alguma(limpador', "feita") <=> Alguma(limpador, "feita")
           /\ Alguma(limpador', "pronta") =>
                 Alguma(limpador, "pronta") \/ (d = "pronta" /\ Alguma(limpador, "espera"))
<1>1. limpador' \in LimpadorTipo
  BY DEF Avisados, LimpadorTipo
<1>2. \A c \in Limpadores : limpador'[c] = IF limpador[c] = "espera" THEN d ELSE limpador[c]
  BY DEF Avisados
<1>3. Pedidas(limpador') = Pedidas(limpador)
  BY <1>2 DEF Pedidas
<1> QED
  BY <1>1, <1>2, <1>3 DEF Alguma

LEMMA SemWorkerVale ==
    ASSUME NEW q, NEW v, NEW tc, NEW tr, NEW e, NEW ct, NEW ac, Ordem(q, v, tc, tr), Depois(e, v, ct),
           tr \in ItemTipo
    PROVE  /\ WorkerBom(SemWorker, ac) /\ Ordem(q, SemWorker, tc, tr) /\ Depois(e, SemWorker, ct)
<1>1. SemWorker \in WorkerTipo
  BY NadaFatos DEF SemWorker, WorkerTipo, PCs
<1>2. /\ SemWorker.pc = "nenhum" /\ SemWorker.item = Nada /\ SemWorker.adiantado = Nada
      /\ SemWorker.trazida = Nada /\ SemWorker.esperando = FALSE
      /\ SemWorker.cancelado = FALSE /\ SemWorker.pedido = FALSE
  BY DEF SemWorker
<1>3. WorkerBom(SemWorker, ac)
  BY <1>1, <1>2 DEF WorkerBom, MaosVazias, ValidoOuNada
<1>4. Ordem(q, SemWorker, tc, tr)
  BY <1>2, NadaFatos DEF Ordem
<1>5. Depois(e, SemWorker, ct)
  BY <1>2 DEF Depois
<1> QED
  BY <1>3, <1>4, <1>5

LEMMA FrescoVale ==
    ASSUME NEW v, NEW tc, NEW tr, NEW ct, NEW ac, NEW l, tr \in ItemTipo
    PROVE  /\ FilaBoa(Fresco, ac) /\ Devidas(Fresco, SemWorker) /\ Inteiras(Fresco.queue, tr, ac)
           /\ Ordem(Fresco.queue, SemWorker, tc, tr) /\ Depois(Fresco, SemWorker, ct)
           /\ Sinais(Fresco, SemWorker, ac, l)
           /\ Fresco.queue = <<>> /\ Fresco.orfa = FALSE /\ Fresco.generation = 0
           /\ Fresco.accepting = TRUE
<1>1. /\ Fresco.queue = <<>> /\ Fresco.orfa = FALSE /\ Fresco.generation = 0
      /\ Fresco.accepting = TRUE /\ Fresco.unfinished = 0
      /\ \A s \in Textos : Fresco.pending[s] = 0
  BY DEF Fresco
<1>2. Fresco \in EstadoTipo
  <2>1. <<>> \in Seq(ItemTipo)
    OBVIOUS
  <2> QED
    BY <2>1 DEF Fresco, EstadoTipo
<1>3. DOMAIN Fresco.queue = {} /\ Len(Fresco.queue) = 0
  BY <1>1
<1>4. FilaBoa(Fresco, ac)
  BY <1>1, <1>2, <1>3, FilaAssumption DEF FilaBoa
<1>5. /\ SemWorker.pc = "nenhum" /\ SemWorker.item = Nada /\ SemWorker.adiantado = Nada
      /\ SemWorker.trazida = Nada /\ SemWorker.esperando = FALSE
      /\ SemWorker.cancelado = FALSE /\ SemWorker.pedido = FALSE
  BY DEF SemWorker
<1>6. Devidas(Fresco, SemWorker)
  BY <1>1, <1>3, <1>5 DEF Devidas, Um
<1>7. Inteiras(Fresco.queue, tr, ac)
  BY <1>3 DEF Inteiras
<1>8. Ordem(Fresco.queue, SemWorker, tc, tr)
  BY <1>3, <1>5, NadaFatos DEF Ordem
<1>9. Depois(Fresco, SemWorker, ct)
  BY <1>3, <1>5 DEF Depois
<1>10. Sinais(Fresco, SemWorker, ac, l)
  <2>1. \A s : Cardinality(Marcas(<<>>, ac, s)) = 0
    <3>1. <<>> \in Seq(ItemTipo)
      OBVIOUS
    <3> QED
      BY <3>1, MarcasFatos
  <2> QED
    BY <1>1, <1>5, <2>1 DEF Sinais, Marcada
<1> QED
  BY <1>1, <1>4, <1>6, <1>7, <1>8, <1>9, <1>10

LEMMA FimVale ==
    ASSUME IInv, w.pc # "nenhum", NEW e, Solta(e), UNCHANGED Calado,
           Fim(e) \/ (FimInterrompido(e) /\ e.orfa = estado.orfa)
    PROVE  Segue
<1> DEFINE n == Cardinality(Pedidas(limpador))
<1>0. /\ msg' = msg /\ encerrando' = encerrando /\ naGuilda' = naGuilda /\ sozinho' = sozinho
      /\ mudancas' = mudancas /\ corte' = corte /\ aceitas' = aceitas /\ tocada' = tocada
      /\ tirada' = tirada
  BY DEF Calado, Restante
<1>1. w' = SemWorker /\ abandonadas' = abandonadas + (e.unfinished - Len(e.queue))
  BY DEF Fim, FimInterrompido
<1>2. \/ estado' = Fresco /\ Avisados("orfao")
      \/ estado' = e /\ Avisados("pronta") /\ (e.queue # <<>> \/ e.orfa = estado.orfa)
  BY DEF Fim, FimInterrompido
<1>3. /\ limpador' \in LimpadorTipo /\ Pedidas(limpador') = Pedidas(limpador)
      /\ ~ Alguma(limpador', "espera")
      /\ Alguma(limpador', "feita") <=> Alguma(limpador, "feita")
  BY <1>2, AvisadosVale DEF IInv, Entorno
<1>4. tirada \in ItemTipo
  BY NadaFatos DEF IInv, Historia, ValidoOuNada
<1>5. /\ WorkerBom(SemWorker, aceitas) /\ Ordem(estado.queue, SemWorker, tocada, tirada)
      /\ Depois(estado, SemWorker, corte)
  BY <1>4, SemWorkerVale DEF IInv
<1>6. /\ SemWorker.pc = "nenhum" /\ SemWorker.item = Nada /\ SemWorker.adiantado = Nada
      /\ SemWorker.trazida = Nada /\ SemWorker.cancelado = FALSE
  BY DEF SemWorker
<1>7. Entorno'
  <2>1. e.unfinished - Len(e.queue) \in Nat
    <3>1. e.unfinished \in Nat /\ Len(e.queue) \in Nat
      BY FilaFatos DEF Solta, FilaBoa, EstadoTipo
    <3> QED
      BY <3>1 DEF Solta
  <2> QED
    BY <1>0, <1>1, <1>3, <2>1 DEF IInv, Entorno
<1>8. /\ FilaBoa(estado', aceitas) /\ Devidas(estado', SemWorker)
      /\ Ordem(estado'.queue, SemWorker, tocada, tirada) /\ Depois(estado', SemWorker, corte)
      /\ Inteiras(estado'.queue, tirada, aceitas)
      /\ Sinais(estado', SemWorker, aceitas, limpador)
  <2>1. CASE estado' = Fresco
    BY <1>4, <2>1, FrescoVale
  <2>2. CASE estado' = e
    <3>1. FilaBoa(e, aceitas) /\ Sinais(e, SemWorker, aceitas, limpador) /\ e.queue = estado.queue
      BY DEF Solta
    <3>2. Devidas(e, SemWorker)
      <4>1. e.unfinished \in Nat /\ Len(e.queue) \in Nat /\ e.unfinished >= Len(e.queue)
        BY FilaFatos DEF Solta, FilaBoa, EstadoTipo
      <4> QED
        BY <1>6, <4>1 DEF Devidas, Um
    <3>3. Depois(e, SemWorker, corte)
      BY <1>5, <1>6, <3>1 DEF Depois, SemWorker
    <3> QED
      BY <1>5, <2>2, <3>1, <3>2, <3>3 DEF IInv
  <2> QED
    BY <1>2, <2>1, <2>2
<1>9. Sinais(estado', SemWorker, aceitas, limpador')
  BY <1>3, <1>8 DEF Sinais
<1>10. Cancelamentos(estado', SemWorker, limpador', encerrando)
  BY <1>3, <1>6 DEF Cancelamentos
<1>11. Fechada(estado', SemWorker, limpador', encerrando)
  <2> SUFFICES ASSUME n <= 2
               PROVE  /\ Alguma(limpador', "pronta") /\ ~ Alguma(limpador', "feita") =>
                            ~ estado'.accepting /\ estado'.queue = <<>>
                      /\ estado'.orfa => encerrando /\ ~ estado'.accepting
    BY <1>3, <1>6 DEF Fechada
  <2>1. /\ Alguma(limpador, "espera") => ~ estado.accepting /\ estado.queue = <<>>
        /\ Alguma(limpador, "pronta") => Alguma(limpador, "feita")
    BY DEF IInv, Fechada
  <2>2. (encerrando => ~ estado.accepting) /\ ~ estado.orfa
    BY DEF IInv, Cancelamentos, Fechada
  <2>3. CASE estado' = Fresco /\ Avisados("orfao")
    <3>1. Alguma(limpador', "pronta") => Alguma(limpador, "pronta")
      BY <2>3, AvisadosVale DEF IInv, Entorno
    <3>2. Fresco.orfa = FALSE
      BY DEF Fresco
    <3> QED
      BY <1>3, <2>1, <2>3, <3>1, <3>2
  <2>4. CASE estado' = e /\ Avisados("pronta") /\ (e.queue # <<>> \/ e.orfa = estado.orfa)
    <3>1. Alguma(limpador', "pronta") => Alguma(limpador, "pronta") \/ Alguma(limpador, "espera")
      BY <2>4, AvisadosVale DEF IInv, Entorno
    <3> QED
      BY <1>3, <2>1, <2>2, <2>4, <3>1 DEF Solta
  <2> QED
    BY <1>2, <2>3, <2>4
<1>12. Contagem(aceitas, msg, estado'.generation, limpador', encerrando)
  <2>1. IsFiniteSet(Pedidas(limpador))
    BY FS_Subset, FilaAssumption DEF Pedidas
  <2>2. Cardinality(Pedidas(limpador)) \in Nat
    BY <2>1, FS_CardinalityType
  <2>3. estado'.generation = estado.generation \/ estado'.generation = 0
    BY <1>2 DEF Solta, Fresco
  <2>4. estado.generation <= n + (IF encerrando THEN 1 ELSE 0)
    BY DEF IInv, Contagem
  <2>5. 0 <= n + (IF encerrando THEN 1 ELSE 0)
    BY <2>2
  <2> QED
    BY <1>3, <2>3, <2>4, <2>5 DEF IInv, Contagem
<1>13. Historia(tocada, tirada, aceitas)
  BY DEF IInv
<1> QED
  BY <1>0, <1>1, <1>5, <1>7, <1>8, <1>9, <1>10, <1>11, <1>12, <1>13 DEF Segue, IInv

-----------------------------------------------------------------------------
\* The worker goes on. Entre(v, e): the worker and the queue between two lines
\* of its loop, with nothing in hand but what was prefetched.

Entre(v, e) ==
    /\ FilaBoa(e, aceitas) /\ e.existe /\ e.queue = estado.queue
    /\ e.accepting = estado.accepting /\ e.generation = estado.generation
    /\ Sinais(e, SemWorker, aceitas, limpador)
    /\ v \in WorkerTipo /\ v.item = Nada /\ v.trazida = Nada /\ ~ v.esperando
    /\ ValidoOuNada(v.adiantado, aceitas) /\ e.unfinished >= Len(e.queue) + Um(v.adiantado)
    /\ Ate(v.adiantado, tirada) /\ (v.adiantado # Nada => Menor(tocada, v.adiantado))
    /\ v.ger <= e.generation /\ (v.pedido => v.ger < e.generation)
    /\ v.ger = e.generation /\ v.adiantado # Nada => v.adiantado.n > corte
    /\ v.cancelado => v.pedido /\ w.cancelado

\* A prefetch task left behind in e was there before, or nothing is prefetched
\* and the queue is closed for good or about to be dropped.
OrfaCerta(v, e) ==
    e.orfa => \/ estado.orfa
              \/ v.adiantado = Nada /\ (\/ encerrando \/ e.queue = <<>>
                                        \/ ~ (Cardinality(Pedidas(limpador)) <= 2))

LEMMA UmFatos == /\ Um(Nada) = 0 /\ \A x : Um(x) \in {0, 1} /\ (x # Nada => Um(x) = 1)
  BY DEF Um

\* A step in which no worker starts or ends: what surrounds the queue and it.
LEMMA MeioVale ==
    ASSUME IInv, (w.pc = "nenhum") = (w'.pc = "nenhum"), UNCHANGED <<Suspenso, Restante>>,
           w'.pc # "nenhum" => estado'.existe, estado'.accepting = estado.accepting,
           estado'.generation = estado.generation,
           estado.queue = <<>> => estado'.queue = <<>>, estado'.orfa => estado.orfa,
           w'.cancelado => w.cancelado,
           FilaBoa(estado', aceitas), WorkerBom(w', aceitas), Devidas(estado', w'),
           Historia(tocada', tirada', aceitas), Ordem(estado'.queue, w', tocada', tirada'),
           Depois(estado', w', corte), Inteiras(estado'.queue, tirada', aceitas),
           Sinais(estado', w', aceitas, limpador)
    PROVE  Segue
<1>0. /\ limpador' = limpador /\ abandonadas' = abandonadas /\ msg' = msg
      /\ encerrando' = encerrando /\ naGuilda' = naGuilda /\ sozinho' = sozinho
      /\ mudancas' = mudancas /\ corte' = corte /\ aceitas' = aceitas
  BY DEF Suspenso, Restante
<1>1. Entorno'
  BY <1>0 DEF IInv, Entorno
<1>2. Cancelamentos(estado', w', limpador, encerrando)
  BY DEF IInv, Cancelamentos
<1>3. Fechada(estado', w', limpador, encerrando)
  BY DEF IInv, Fechada
<1>4. Contagem(aceitas, msg, estado'.generation, limpador, encerrando)
  BY DEF IInv
<1> QED
  BY <1>0, <1>1, <1>2, <1>3, <1>4 DEF Segue, IInv

LEMMA SoltaVale ==
    ASSUME IInv, w.pc # "nenhum", NEW v, NEW e, Entre(v, e), OrfaCerta(v, e)
    PROVE  /\ v.adiantado = Nada => Solta(e)
           /\ v.adiantado # Nada => Solta([e EXCEPT !.unfinished = @ - 1])
<1>0. /\ e \in EstadoTipo /\ e.queue \in Seq(ItemTipo) /\ e.unfinished \in Nat
      /\ Len(e.queue) \in Nat
  BY FilaFatos DEF Entre, FilaBoa, EstadoTipo
<1>2. e.unfinished >= Len(e.queue)
  BY <1>0, UmFatos DEF Entre
<1>3. ASSUME v.adiantado = Nada PROVE Solta(e)
  BY <1>2, <1>3 DEF Entre, Solta, OrfaCerta
<1>4. ASSUME v.adiantado # Nada PROVE Solta([e EXCEPT !.unfinished = @ - 1])
  <2> DEFINE f == [e EXCEPT !.unfinished = @ - 1]
  <2>1. e.unfinished - 1 \in Nat /\ e.unfinished - 1 >= Len(e.queue)
    BY <1>0, <1>4, UmFatos DEF Entre
  <2>2. /\ f \in EstadoTipo /\ f.queue = e.queue /\ f.unfinished = e.unfinished - 1
        /\ f.existe = e.existe /\ f.accepting = e.accepting /\ f.generation = e.generation
        /\ f.orfa = e.orfa /\ f.pending = e.pending
    BY <1>0, <2>1 DEF EstadoTipo
  <2> HIDE DEF f
  <2>3. FilaBoa(f, aceitas)
    BY <2>2 DEF Entre, FilaBoa
  <2>4. Sinais(f, SemWorker, aceitas, limpador)
    BY <2>2 DEF Entre, Sinais
  <2>5. Solta(f)
    BY <1>4, <2>1, <2>2, <2>3, <2>4 DEF Entre, Solta, OrfaCerta
  <2> QED
    BY <2>5 DEF f
<1> QED
  BY <1>3, <1>4

LEMMA LargarVale ==
    ASSUME IInv, w.pc # "nenhum", NEW v, NEW e, Entre(v, e), Largar(v, e), UNCHANGED Calado,
           OrfaCerta(v, e)
    PROVE  Segue
<1>1. CASE v.adiantado = Nada
  <2>1. Solta(e) /\ Fim(e)
    BY <1>1, SoltaVale DEF Largar
  <2> QED
    BY <2>1, FimVale
<1>2. CASE v.adiantado # Nada
  <2> DEFINE f == [e EXCEPT !.unfinished = @ - 1]
  <2>1. Solta(f) /\ Fim(f)
    BY <1>2, SoltaVale DEF Largar
  <2> HIDE DEF f
  <2> QED
    BY <2>1, FimVale
<1> QED
  BY <1>1, <1>2

LEMMA SeguirVale ==
    ASSUME IInv, w.pc # "nenhum", NEW v, NEW e, Entre(v, e), e.orfa => estado.orfa,
           estado' = e, UNCHANGED Suspenso, UNCHANGED Calado,
           \/ v.adiantado # Nada /\ w' = [v EXCEPT !.pc = "saindo"]
           \/ v.adiantado # Nada /\ w' = [v EXCEPT !.pc = "descartando"]
           \/ v.adiantado = Nada /\ w' = [v EXCEPT !.pc = "pegando"]
           \/ /\ v.adiantado # Nada /\ v.ger = estado.generation
              /\ w' = [v EXCEPT !.adiantado = Nada, !.item = v.adiantado,
                         !.pc = IF v.adiantado.ger = v.ger THEN "preparando" ELSE "limpando"]
    PROVE  Segue
<1>0. /\ e \in EstadoTipo /\ e.queue \in Seq(ItemTipo) /\ e.unfinished \in Nat
      /\ Len(e.queue) \in Nat /\ v \in WorkerTipo
  BY FilaFatos DEF Entre, FilaBoa, EstadoTipo
<1>1. /\ tocada' = tocada /\ tirada' = tirada /\ UNCHANGED <<Suspenso, Restante>>
  BY DEF Calado
<1>2. /\ w' \in WorkerTipo /\ w'.ger = v.ger /\ w'.cancelado = v.cancelado /\ w'.pedido = v.pedido
      /\ w'.trazida = Nada /\ w'.esperando = FALSE /\ Nada \in ItemTipo
      /\ w'.pc \in {"saindo", "descartando", "pegando", "preparando", "limpando"}
      /\ w'.pc \in {"saindo", "descartando"} => w'.item = Nada /\ w'.adiantado = v.adiantado /\ w'.adiantado # Nada
      /\ w'.pc = "pegando" => w'.item = Nada /\ w'.adiantado = Nada /\ v.adiantado = Nada
      /\ w'.pc \in {"preparando", "limpando"} =>
            /\ w'.item = v.adiantado /\ w'.adiantado = Nada /\ v.adiantado # Nada
            /\ v.ger = estado.generation
  <2>0. /\ v.item = Nada /\ v.trazida = Nada /\ v.esperando = FALSE /\ v.adiantado \in ItemTipo
        /\ Nada \in ItemTipo
    BY <1>0, NadaFatos DEF Entre, WorkerTipo
  <2>1. CASE v.adiantado # Nada /\ w' = [v EXCEPT !.pc = "saindo"]
    BY <1>0, <2>0, <2>1 DEF WorkerTipo, PCs
  <2>2. CASE v.adiantado # Nada /\ w' = [v EXCEPT !.pc = "descartando"]
    BY <1>0, <2>0, <2>2 DEF WorkerTipo, PCs
  <2>3. CASE v.adiantado = Nada /\ w' = [v EXCEPT !.pc = "pegando"]
    BY <1>0, <2>0, <2>3 DEF WorkerTipo, PCs
  <2>4. CASE /\ v.adiantado # Nada /\ v.ger = estado.generation
             /\ w' = [v EXCEPT !.adiantado = Nada, !.item = v.adiantado,
                         !.pc = IF v.adiantado.ger = v.ger THEN "preparando" ELSE "limpando"]
    <3> DEFINE p == IF v.adiantado.ger = v.ger THEN "preparando" ELSE "limpando"
    <3>1. p \in {"preparando", "limpando"} /\ w' = [v EXCEPT !.adiantado = Nada, !.item = v.adiantado, !.pc = p]
      BY <2>4
    <3> HIDE DEF p
    <3>2. /\ w' \in WorkerTipo /\ w'.pc = p /\ w'.item = v.adiantado /\ w'.adiantado = Nada
          /\ w'.trazida = v.trazida /\ w'.esperando = v.esperando /\ w'.ger = v.ger
          /\ w'.cancelado = v.cancelado /\ w'.pedido = v.pedido
      BY <1>0, <2>0, <3>1 DEF WorkerTipo, PCs
    <3> QED
      BY <2>0, <2>4, <3>1, <3>2
  <2> QED
    BY <2>1, <2>2, <2>3, <2>4
<1>3. FilaBoa(estado', aceitas)
  BY DEF Entre
<1>4. WorkerBom(w', aceitas)
  BY <1>2 DEF WorkerBom, MaosVazias, Entre, ValidoOuNada
<1>5. Devidas(estado', w')
  <2>1. Um(w'.item) + Um(w'.adiantado) + Um(w'.trazida) = Um(v.adiantado)
    BY <1>2, UmFatos
  <2>2. /\ Um(w'.item) \in {0, 1} /\ Um(w'.adiantado) \in {0, 1} /\ Um(w'.trazida) \in {0, 1}
        /\ e.unfinished >= Len(e.queue) + Um(v.adiantado)
    BY UmFatos DEF Entre
  <2> QED
    BY <1>0, <2>1, <2>2 DEF Devidas
<1>6. Ordem(estado'.queue, w', tocada', tirada')
  <2>1. tirada \in ItemTipo
    BY NadaFatos DEF IInv, Historia, ValidoOuNada
  <2>2. Ate(Nada, tirada) /\ (v.adiantado # Nada => Menor(Nada, v.adiantado))
    BY <2>1, NadaFatos DEF Entre, ValidoOuNada, IInv, Entorno
  <2>3. /\ Ate(w'.item, tirada) /\ Ate(w'.adiantado, tirada) /\ Ate(w'.trazida, tirada)
    BY <1>2, <2>2 DEF Entre
  <2>4. /\ w'.pc \in {"pegou", "preparando", "conectando"} => Menor(tocada, w'.item)
        /\ w'.adiantado # Nada => Menor(tocada, w'.adiantado) /\ Menor(w'.item, w'.adiantado)
        /\ w'.trazida = Nada
    BY <1>2, <2>2 DEF Entre
  <2> QED
    BY <1>1, <2>3, <2>4 DEF Entre, IInv, Ordem
<1>7. Depois(estado', w', corte)
  <2>1. /\ v.ger \in Nat /\ e.generation \in Nat
    BY <1>0 DEF WorkerTipo, EstadoTipo
  <2>2. \A k \in DOMAIN e.queue : e.queue[k].n > corte
    BY DEF Entre, IInv, Depois
  <2>3. w'.ger = e.generation => \A x \in {w'.item, w'.adiantado, w'.trazida} : x # Nada => x.n > corte
    BY <1>2 DEF Entre
  <2> QED
    BY <1>2, <2>1, <2>2, <2>3 DEF Entre, Depois
<1>8. Sinais(estado', w', aceitas, limpador)
  <2>1. \A s : Marcada(w', aceitas, s) = Marcada(SemWorker, aceitas, s)
    BY <1>2 DEF Marcada, SemWorker
  <2> QED
    BY <2>1 DEF Entre, Sinais
<1>9. Historia(tocada', tirada', aceitas) /\ Inteiras(estado'.queue, tirada', aceitas)
  BY <1>1 DEF IInv, Entre
<1>10. /\ w'.pc # "nenhum" /\ estado'.existe /\ estado'.accepting = estado.accepting
       /\ estado'.generation = estado.generation /\ (estado.queue = <<>> => estado'.queue = <<>>)
       /\ (w'.cancelado => w.cancelado)
  BY <1>2 DEF Entre
<1> QED
  BY <1>1, <1>3, <1>4, <1>5, <1>6, <1>7, <1>8, <1>9, <1>10, MeioVale

LEMMA SairVale ==
    ASSUME IInv, w.pc # "nenhum", NEW v, NEW e, Entre(v, e), Sair(v, e), UNCHANGED Calado,
           OrfaCerta(v, e)
    PROVE  Segue
<1>1. CASE Largar(v, e)
  BY <1>1, LargarVale
<1>2. CASE v.adiantado # Nada /\ w' = [v EXCEPT !.pc = "saindo"] /\ estado' = e /\ UNCHANGED Suspenso
  BY <1>2, SeguirVale DEF OrfaCerta
<1> QED
  BY <1>1, <1>2 DEF Sair

LEMMA ContinuarVale ==
    ASSUME IInv, w.pc # "nenhum", NEW v, NEW e, Entre(v, e), e.orfa => estado.orfa,
           Continuar(v, e), UNCHANGED Calado
    PROVE  Segue
<1>0. OrfaCerta(v, e)
  BY DEF OrfaCerta
<1>1. CASE Sair(v, e)
  BY <1>0, <1>1, SairVale
<1>2. CASE Largar(v, e)
  BY <1>0, <1>2, LargarVale
<1>3. CASE v.adiantado # Nada /\ w' = [v EXCEPT !.pc = "descartando"] /\ estado' = e /\ UNCHANGED Suspenso
  BY <1>3, SeguirVale
<1>4. CASE /\ ~ Parar(v) /\ estado' = e /\ UNCHANGED Suspenso
           /\ w' = IF v.adiantado = Nada THEN [v EXCEPT !.pc = "pegando"]
                   ELSE [v EXCEPT !.adiantado = Nada, !.item = v.adiantado,
                           !.pc = IF v.adiantado.ger = v.ger THEN "preparando" ELSE "limpando"]
  <2>1. v.ger = estado.generation
    BY <1>4 DEF Parar
  <2>2. CASE v.adiantado = Nada
    BY <1>4, <2>2, SeguirVale
  <2>3. CASE v.adiantado # Nada
    BY <1>4, <2>1, <2>3, SeguirVale
  <2> QED
    BY <2>2, <2>3
<1> QED
  BY <1>1, <1>2, <1>3, <1>4 DEF Continuar

-----------------------------------------------------------------------------
\* The steps of the worker that go through its loop.

LEMMA Fatos ==
    ASSUME IInv
    PROVE  /\ estado \in EstadoTipo /\ estado.queue \in Seq(ItemTipo) /\ estado.unfinished \in Nat
           /\ Len(estado.queue) \in Nat /\ DOMAIN estado.queue = 1..Len(estado.queue)
           /\ \A k \in DOMAIN estado.queue : Valido(estado.queue[k], aceitas)
           /\ estado.pending \in [Textos -> Nat] /\ estado.generation \in Nat
           /\ tocada \in ItemTipo /\ tirada \in ItemTipo /\ Nada \in ItemTipo
           /\ w \in WorkerTipo /\ w.item \in ItemTipo /\ w.adiantado \in ItemTipo
           /\ w.trazida \in ItemTipo /\ w.pc \in PCs /\ w.ger \in Nat
           /\ w.cancelado \in BOOLEAN /\ w.pedido \in BOOLEAN
           /\ w.pc # "nenhum" => estado.existe
           /\ aceitas \in Seq(Mensagens) /\ limpador \in LimpadorTipo
<1>1. /\ estado \in EstadoTipo /\ \A k \in DOMAIN estado.queue : Valido(estado.queue[k], aceitas)
  BY DEF IInv, FilaBoa
<1>2. /\ estado.queue \in Seq(ItemTipo) /\ estado.unfinished \in Nat
      /\ estado.pending \in [Textos -> Nat] /\ estado.generation \in Nat
  BY <1>1 DEF EstadoTipo
<1>3. /\ w \in WorkerTipo /\ w.item \in ItemTipo /\ w.adiantado \in ItemTipo
      /\ w.trazida \in ItemTipo /\ w.pc \in PCs /\ w.ger \in Nat
      /\ w.cancelado \in BOOLEAN /\ w.pedido \in BOOLEAN
  BY DEF IInv, WorkerBom, WorkerTipo
<1>4. tocada \in ItemTipo /\ tirada \in ItemTipo /\ Nada \in ItemTipo
  BY NadaFatos DEF IInv, Historia, ValidoOuNada
<1>5. w.pc # "nenhum" => estado.existe
  BY DEF IInv, Cancelamentos
<1>6. aceitas \in Seq(Mensagens) /\ limpador \in LimpadorTipo
  BY DEF IInv, Entorno
<1> QED
  BY <1>1, <1>2, <1>3, <1>4, <1>5, <1>6, FilaFatos

LEMMA EntreVale ==
    ASSUME IInv, w.pc \notin {"nenhum", "criado"},
           NEW v, v \in WorkerTipo, v.item = Nada, v.trazida = Nada, ~ v.esperando,
           v.adiantado \in {Nada, w.adiantado, w.trazida},
           v.ger = w.ger, v.pedido = w.pedido, v.cancelado => w.cancelado,
           NEW e, FilaBoa(e, aceitas), e.existe = estado.existe, e.queue = estado.queue,
           e.accepting = estado.accepting, e.generation = estado.generation,
           Sinais(e, SemWorker, aceitas, limpador),
           e.unfinished >= Len(e.queue) + Um(v.adiantado)
    PROVE  Entre(v, e)
<1>1. ValidoOuNada(v.adiantado, aceitas)
  BY DEF IInv, WorkerBom, ValidoOuNada
<1>2. Ate(v.adiantado, tirada) /\ (v.adiantado # Nada => Menor(tocada, v.adiantado))
  BY Fatos, NadaFatos DEF IInv, Ordem
<1>3. /\ v.ger <= e.generation /\ (v.pedido => v.ger < e.generation)
      /\ v.ger = e.generation /\ v.adiantado # Nada => v.adiantado.n > corte
      /\ v.cancelado => v.pedido
  BY DEF IInv, Depois
<1> QED
  BY <1>1, <1>2, <1>3, Fatos DEF Entre

\* Nothing is counted for a worker that is not between get() and its return.
LEMMA SinaisSemWorker ==
    ASSUME NEW e, NEW v, NEW ac, NEW l, Sinais(e, v, ac, l), v.pc # "pegou"
    PROVE  Sinais(e, SemWorker, ac, l)
<1>1. \A s : Marcada(v, ac, s) = Marcada(SemWorker, ac, s)
  BY DEF Marcada, SemWorker
<1> QED
  BY <1>1 DEF Sinais

LEMMA IniciarVale == IInv /\ Iniciar => Segue
<1> SUFFICES ASSUME IInv, Iniciar PROVE Segue
  OBVIOUS
<1> DEFINE v == [w EXCEPT !.ger = estado.generation]
<1>1. /\ w.pc = "criado" /\ ~ w.cancelado /\ Continuar(v, estado) /\ UNCHANGED Calado
  BY DEF Iniciar
<1>2. /\ v \in WorkerTipo /\ v.item = w.item /\ v.trazida = w.trazida /\ v.esperando = w.esperando
      /\ v.adiantado = w.adiantado /\ v.ger = estado.generation /\ v.pedido = w.pedido
      /\ v.cancelado = w.cancelado
  BY Fatos DEF WorkerTipo
<1>3. MaosVazias(w) /\ ~ w.pedido
  BY <1>1 DEF IInv, WorkerBom, Depois
<1>4. Sinais(estado, SemWorker, aceitas, limpador)
  BY <1>1, SinaisSemWorker DEF IInv
<1>5. estado.unfinished >= Len(estado.queue)
  BY Fatos, UmFatos, <1>3 DEF IInv, Devidas, MaosVazias
<1>6. Ate(Nada, tirada)
  BY Fatos, NadaFatos
<1> HIDE DEF v
<1>7. Entre(v, estado)
  <2>1. estado.unfinished >= Len(estado.queue) + Um(v.adiantado)
    BY <1>2, <1>3, <1>5, Fatos, UmFatos DEF MaosVazias
  <2>2. ValidoOuNada(v.adiantado, aceitas) /\ v.adiantado = Nada
    BY <1>2, <1>3 DEF ValidoOuNada, MaosVazias
  <2> QED
    BY <1>1, <1>2, <1>3, <1>4, <1>6, <2>1, <2>2, Fatos DEF Entre, IInv, MaosVazias
<1> QED
  BY <1>1, <1>7, ContinuarVale

\* The worker at an await with empty hands.
LEMMA EntreVazio ==
    ASSUME IInv, w.pc \in {"pegando", "ocioso"}
    PROVE  Entre(w, estado)
<1>1. MaosVazias(w)
  BY DEF IInv, WorkerBom
<1>2. Sinais(estado, SemWorker, aceitas, limpador)
  BY SinaisSemWorker DEF IInv
<1>3. estado.unfinished >= Len(estado.queue) + Um(w.adiantado)
  BY <1>1, Fatos, UmFatos DEF IInv, Devidas, MaosVazias
<1> QED
  BY <1>1, <1>2, <1>3, Fatos, EntreVale DEF IInv, MaosVazias

LEMMA DesconectarOciosoVale == IInv /\ DesconectarOcioso => Segue
<1> SUFFICES ASSUME IInv, DesconectarOcioso PROVE Segue
  OBVIOUS
<1>1. w.pc = "ocioso" /\ UNCHANGED Calado /\ (Sair(w, estado) \/ Continuar(w, estado))
  BY DEF DesconectarOcioso
<1>2. Entre(w, estado)
  BY <1>1, EntreVazio
<1> QED
  BY <1>1, <1>2, SairVale, ContinuarVale DEF OrfaCerta

LEMMA EsperaVencidaVale == IInv /\ EsperaVencida => Segue
<1> SUFFICES ASSUME IInv, EsperaVencida PROVE Segue
  OBVIOUS
<1>1. w.pc = "pegando" /\ ~ w.cancelado /\ UNCHANGED Calado
  BY DEF EsperaVencida
<1>2. CASE Continuar(w, estado)
  <2>1. Entre(w, estado)
    BY <1>1, EntreVazio
  <2> QED
    BY <1>1, <1>2, <2>1, ContinuarVale
<1>3. CASE w' = [w EXCEPT !.pc = "ocioso"] /\ UNCHANGED <<estado, Suspenso>>
  <2>1. /\ w' \in WorkerTipo /\ w'.pc = "ocioso" /\ w'.item = w.item /\ w'.trazida = w.trazida
        /\ w'.esperando = w.esperando /\ w'.adiantado = w.adiantado /\ w'.ger = w.ger
        /\ w'.pedido = w.pedido /\ w'.cancelado = w.cancelado
    BY <1>3, Fatos DEF WorkerTipo, PCs
  <2>2. UNCHANGED <<Suspenso, Restante>> /\ tocada' = tocada /\ tirada' = tirada /\ estado' = estado
    BY <1>1, <1>3 DEF Calado
  <2>3. WorkerBom(w', aceitas)
    BY <1>1, <2>1 DEF IInv, WorkerBom, MaosVazias
  <2>4. Devidas(estado', w')
    BY <2>1, <2>2 DEF IInv, Devidas
  <2>5. Ordem(estado'.queue, w', tocada', tirada')
    BY <1>1, <2>1, <2>2 DEF IInv, Ordem
  <2>6. Depois(estado', w', corte)
    BY <1>1, <2>1, <2>2 DEF IInv, Depois
  <2>7. Sinais(estado', w', aceitas, limpador)
    BY <1>1, <2>1, <2>2 DEF IInv, Sinais, Marcada
  <2> QED
    BY <1>1, <2>1, <2>2, <2>3, <2>4, <2>5, <2>6, <2>7, Fatos, MeioVale DEF IInv
<1> QED
  BY <1>2, <1>3 DEF EsperaVencida

LEMMA ReceberItemVale == IInv /\ ReceberItem => Segue
<1> SUFFICES ASSUME IInv, ReceberItem PROVE Segue
  OBVIOUS
<1> DEFINE e == [estado EXCEPT !.pending = SemContar(@, <<w.item>>)]
           v == [w EXCEPT !.cancelado = FALSE]
           q == estado.queue
<1>1. /\ w.pc = "pegou" /\ UNCHANGED Calado
      /\ \/ /\ w.item.ger = w.ger /\ e.generation = w.ger
            /\ w' = [v EXCEPT !.pc = "preparando"] /\ estado' = e /\ UNCHANGED Suspenso
         \/ Continuar([v EXCEPT !.item = Nada], [e EXCEPT !.unfinished = @ - 1])
  BY DEF ReceberItem
<1>2. /\ w.item # Nada /\ w.adiantado = Nada /\ w.trazida = Nada /\ ~ w.esperando
      /\ Valido(w.item, aceitas)
  BY <1>1 DEF IInv, WorkerBom, ValidoOuNada
<1>3. <<w.item>> \in Seq(ItemTipo) /\ \A s : Cardinality(Marcas(<<w.item>>, aceitas, s))
          = IF De(w.item, aceitas) = s THEN 1 ELSE 0
  BY Fatos, MarcasDeUm
<1>4. /\ SemContar(estado.pending, <<w.item>>) \in [Textos -> Nat]
      /\ \A s \in Textos : SemContar(estado.pending, <<w.item>>)[s] =
            IF estado.pending[s] > Cardinality(Marcas(<<w.item>>, aceitas, s))
            THEN estado.pending[s] - Cardinality(Marcas(<<w.item>>, aceitas, s)) ELSE 0
  BY <1>3, Fatos, SemContarFatos
<1> DEFINE p == SemContar(estado.pending, <<w.item>>)
<1>5. e = [estado EXCEPT !.pending = p]
  OBVIOUS
<1> HIDE DEF e, p, v
<1>6. /\ e \in EstadoTipo /\ e.queue = q /\ e.pending = p /\ e.unfinished = estado.unfinished
      /\ e.existe = estado.existe /\ e.accepting = estado.accepting
      /\ e.generation = estado.generation /\ e.orfa = estado.orfa
  BY <1>4, <1>5, Fatos DEF EstadoTipo, p
<1>7. FilaBoa(e, aceitas)
  BY <1>6 DEF IInv, FilaBoa
<1>8. Sinais(e, SemWorker, aceitas, limpador)
  <2> SUFFICES ASSUME NEW s \in Textos
               PROVE  /\ e.pending[s] <= Cardinality(Marcas(q, aceitas, s)) + 0
                      /\ Cardinality(Pedidas(limpador)) <= 1 =>
                            e.pending[s] = Cardinality(Marcas(q, aceitas, s)) + 0
    BY <1>6 DEF Sinais, Marcada, SemWorker
  <2>1. Cardinality(Marcas(q, aceitas, s)) \in Nat /\ estado.pending[s] \in Nat
    BY Fatos, MarcasFatos
  <2>2. Marcada(w, aceitas, s) = Cardinality(Marcas(<<w.item>>, aceitas, s))
        /\ Marcada(w, aceitas, s) \in {0, 1}
    BY <1>1, <1>3 DEF Marcada
  <2>3. /\ estado.pending[s] <= Cardinality(Marcas(q, aceitas, s)) + Marcada(w, aceitas, s)
        /\ Cardinality(Pedidas(limpador)) <= 1 =>
              estado.pending[s] = Cardinality(Marcas(q, aceitas, s)) + Marcada(w, aceitas, s)
    BY DEF IInv, Sinais
  <2>4. e.pending[s] = IF estado.pending[s] > Marcada(w, aceitas, s)
                       THEN estado.pending[s] - Marcada(w, aceitas, s) ELSE 0
    BY <1>4, <1>6, <2>2 DEF p
  <2> QED
    BY <2>1, <2>2, <2>3, <2>4
<1>9. /\ v \in WorkerTipo /\ v.item = w.item /\ v.adiantado = Nada /\ v.trazida = Nada
      /\ v.esperando = FALSE /\ v.ger = w.ger /\ v.pedido = w.pedido /\ v.cancelado = FALSE
      /\ v.pc = "pegou"
  BY <1>1, <1>2, Fatos DEF v, WorkerTipo
<1>10. estado.unfinished >= Len(q) + 1
  BY <1>2, Fatos, UmFatos DEF IInv, Devidas
<1>11. CASE /\ w.item.ger = w.ger /\ e.generation = w.ger
            /\ w' = [v EXCEPT !.pc = "preparando"] /\ estado' = e /\ UNCHANGED Suspenso
  <2>1. /\ w' \in WorkerTipo /\ w'.pc = "preparando" /\ w'.item = w.item /\ w'.adiantado = Nada
        /\ w'.trazida = Nada /\ w'.esperando = FALSE /\ w'.ger = w.ger
        /\ w'.pedido = w.pedido /\ w'.cancelado = FALSE
    BY <1>9, <1>11 DEF WorkerTipo, PCs
  <2>2. UNCHANGED <<Suspenso, Restante>> /\ tocada' = tocada /\ tirada' = tirada
    BY <1>1, <1>11 DEF Calado
  <2>3. WorkerBom(w', aceitas)
    BY <1>2, <2>1 DEF WorkerBom, ValidoOuNada
  <2>4. Devidas(estado', w')
    BY <1>2, <1>6, <1>10, <1>11, <2>1, UmFatos, Fatos DEF Devidas
  <2>5. Ordem(estado'.queue, w', tocada', tirada')
    BY <1>1, <1>2, <1>6, <1>11, <2>1, <2>2 DEF IInv, Ordem
  <2>6. Depois(estado', w', corte)
    BY <1>1, <1>2, <1>6, <1>11, <2>1 DEF IInv, Depois
  <2>7. Sinais(estado', w', aceitas, limpador)
    BY <1>8, <1>11, <2>1 DEF Sinais, Marcada, SemWorker
  <2>8. /\ FilaBoa(estado', aceitas) /\ Historia(tocada', tirada', aceitas)
        /\ Inteiras(estado'.queue, tirada', aceitas) /\ estado'.existe
        /\ estado'.accepting = estado.accepting /\ estado'.generation = estado.generation
        /\ estado'.queue = q /\ estado'.orfa = estado.orfa
    BY <1>1, <1>6, <1>7, <1>11, <2>2, Fatos DEF IInv
  <2> QED
    BY <1>1, <2>1, <2>2, <2>3, <2>4, <2>5, <2>6, <2>7, <2>8, MeioVale
<1>12. CASE Continuar([v EXCEPT !.item = Nada], [e EXCEPT !.unfinished = @ - 1])
  <2> DEFINE f == [e EXCEPT !.unfinished = @ - 1]
             u == [v EXCEPT !.item = Nada]
  <2>1. estado.unfinished - 1 \in Nat /\ estado.unfinished - 1 >= Len(q)
    BY <1>10, Fatos
  <2>2. /\ f \in EstadoTipo /\ f.queue = q /\ f.pending = p /\ f.unfinished = estado.unfinished - 1
        /\ f.existe = estado.existe /\ f.accepting = estado.accepting
        /\ f.generation = estado.generation /\ f.orfa = estado.orfa
    BY <1>6, <2>1 DEF EstadoTipo
  <2>3. /\ u \in WorkerTipo /\ u.item = Nada /\ u.adiantado = Nada /\ u.trazida = Nada
        /\ u.esperando = FALSE /\ u.ger = w.ger /\ u.pedido = w.pedido /\ u.cancelado = FALSE
    BY <1>9, Fatos DEF WorkerTipo
  <2> HIDE DEF f, u
  <2>4. FilaBoa(f, aceitas)
    BY <1>6, <1>7, <2>2 DEF FilaBoa
  <2>5. Sinais(f, SemWorker, aceitas, limpador)
    BY <1>6, <1>8, <2>2 DEF Sinais
  <2>6. f.unfinished >= Len(f.queue) + Um(u.adiantado)
    BY <2>1, <2>2, <2>3, Fatos, UmFatos
  <2>7. Entre(u, f)
    BY <1>1, <2>2, <2>3, <2>4, <2>5, <2>6, EntreVale
  <2>8. Continuar(u, f)
    BY <1>12 DEF f, u
  <2> QED
    BY <1>1, <2>2, <2>7, <2>8, ContinuarVale
<1> QED
  BY <1>1, <1>11, <1>12

LEMMA LimparItemVale == IInv /\ LimparItem => Segue
<1> SUFFICES ASSUME IInv, LimparItem PROVE Segue
  OBVIOUS
<1> DEFINE a == IF w.adiantado = Nada THEN w.trazida ELSE w.adiantado
           v == [w EXCEPT !.item = Nada, !.esperando = FALSE, !.trazida = Nada,
                          !.propaga = FALSE, !.adiantado = a]
           k == IF w.trazida # Nada /\ w.adiantado # Nada
                THEN estado.unfinished - 2 ELSE estado.unfinished - 1
           f == [estado EXCEPT !.unfinished = k]
           q == estado.queue
<1>1. /\ w.pc = "limpando" /\ UNCHANGED Calado /\ (Sair(v, f) \/ Continuar(v, f))
  BY DEF LimparItem
<1>2. w.item # Nada /\ (w.trazida # Nada => w.adiantado = Nada)
  BY <1>1 DEF IInv, WorkerBom
<1>3. estado.unfinished >= Len(q) + 1 + Um(w.adiantado) + Um(w.trazida)
  BY <1>2, Fatos, UmFatos DEF IInv, Devidas
<1>4. k = estado.unfinished - 1 /\ a \in {Nada, w.adiantado, w.trazida} /\ a \in ItemTipo
  BY <1>2, Fatos
<1>41. /\ Um(a) <= Um(w.adiantado) + Um(w.trazida) /\ Um(a) \in {0, 1}
       /\ Um(w.adiantado) \in {0, 1} /\ Um(w.trazida) \in {0, 1}
  BY <1>2, UmFatos
<1>6. /\ v \in WorkerTipo /\ v.item = Nada /\ v.adiantado = a /\ v.trazida = Nada
      /\ v.esperando = FALSE /\ v.ger = w.ger /\ v.pedido = w.pedido /\ v.cancelado = w.cancelado
  BY <1>4, Fatos DEF WorkerTipo
<1> HIDE DEF a, v
<1>5. k \in Nat /\ k >= Len(q) + Um(a)
  <2>1. estado.unfinished - 1 \in Nat /\ estado.unfinished - 1 >= Len(q) + Um(a)
    BY <1>3, <1>41, Fatos
  <2> HIDE DEF k
  <2> QED
    BY <1>4, <2>1
<1>7. /\ f \in EstadoTipo /\ f.queue = q /\ f.pending = estado.pending /\ f.unfinished = k
      /\ f.existe = estado.existe /\ f.accepting = estado.accepting
      /\ f.generation = estado.generation /\ f.orfa = estado.orfa
  BY <1>5, Fatos DEF EstadoTipo
<1> HIDE DEF k, f
<1>8. FilaBoa(f, aceitas)
  BY <1>7 DEF IInv, FilaBoa
<1>9. Sinais(f, SemWorker, aceitas, limpador)
  <2>1. Sinais(estado, SemWorker, aceitas, limpador)
    BY <1>1, SinaisSemWorker DEF IInv
  <2> QED
    BY <1>7, <2>1 DEF Sinais
<1>10. Entre(v, f)
  BY <1>1, <1>4, <1>5, <1>6, <1>7, <1>8, <1>9, EntreVale
<1> QED
  BY <1>1, <1>7, <1>10, SairVale, ContinuarVale DEF OrfaCerta

\* The queue as it is, when the worker's items are not lost on it.
LEMMA EstadoSolto ==
    ASSUME IInv, w.pc \notin {"nenhum", "pegou"}
    PROVE  Solta(estado) /\ (w.pc \in {"descartando", "saindo"} => Solta([estado EXCEPT !.unfinished = @ - 1]))
<1>1. Sinais(estado, SemWorker, aceitas, limpador)
  BY SinaisSemWorker DEF IInv
<1>2. estado.unfinished >= Len(estado.queue)
  BY Fatos, UmFatos DEF IInv, Devidas
<1>3. Solta(estado)
  BY <1>1, <1>2, Fatos DEF IInv, Solta
<1>4. ASSUME w.pc \in {"descartando", "saindo"} PROVE Solta([estado EXCEPT !.unfinished = @ - 1])
  <2>1. w.item = Nada /\ w.adiantado # Nada /\ w.trazida = Nada /\ ~ w.esperando
    BY <1>4 DEF IInv, WorkerBom
  <2>2. estado.unfinished >= Len(estado.queue) + Um(w.adiantado)
    BY <2>1, Fatos, UmFatos DEF IInv, Devidas
  <2>3. Entre(w, estado)
    BY <1>1, <1>4, <2>1, <2>2, Fatos, EntreVale DEF IInv
  <2> QED
    BY <2>1, <2>3, SoltaVale DEF OrfaCerta
<1> QED
  BY <1>3, <1>4

LEMMA DescartarAdiantadoVale == IInv /\ DescartarAdiantado => Segue
<1> SUFFICES ASSUME IInv, DescartarAdiantado PROVE Segue
  OBVIOUS
<1> DEFINE f == [estado EXCEPT !.unfinished = @ - 1]
<1>1. w.pc \in {"descartando", "saindo"} /\ Fim(f) /\ UNCHANGED Calado
  BY DEF DescartarAdiantado
<1>2. Solta(f)
  BY <1>1, EstadoSolto
<1> HIDE DEF f
<1> QED
  BY <1>1, <1>2, FimVale

-----------------------------------------------------------------------------
\* The steps of the worker between two awaits of an item.

\* The worker moves on with the same items; at most, its item starts to be spoken.
LEMMA MoverVale ==
    ASSUME IInv, UNCHANGED <<estado, Suspenso, Restante, tirada>>,
           NEW v, v \in WorkerTipo, w' = v,
           v.item = w.item, v.adiantado = w.adiantado, v.trazida = w.trazida,
           v.esperando = w.esperando, v.ger = w.ger, v.pedido = w.pedido,
           v.cancelado => w.cancelado,
           \/ /\ w.pc \in {"preparando", "conectando", "tocando", "limpando"}
              /\ v.pc \in {"tocando", "limpando"}
           \/ w.pc = "descartando" /\ v.pc = "descartando",
           \/ tocada' = tocada
           \/ w.pc \in {"preparando", "conectando"} /\ tocada' = w.item
    PROVE  Segue
<1>1. WorkerBom(w', aceitas)
  BY DEF IInv, WorkerBom
<1>2. Devidas(estado', w')
  BY DEF IInv, Devidas
<1>3. Historia(tocada', tirada', aceitas)
  BY DEF IInv, Historia, WorkerBom, Ordem
<1>4. Ordem(estado'.queue, w', tocada', tirada')
  BY DEF IInv, WorkerBom, Ordem
<1>5. Depois(estado', w', corte)
  BY DEF IInv, Depois
<1>6. Sinais(estado', w', aceitas, limpador)
  <2>1. \A s : Marcada(w', aceitas, s) = Marcada(w, aceitas, s)
    BY DEF Marcada
  <2> QED
    BY <2>1 DEF IInv, Sinais
<1>7. w.pc # "nenhum" /\ w'.pc # "nenhum"
  OBVIOUS
<1> QED
  BY <1>1, <1>2, <1>3, <1>4, <1>5, <1>6, <1>7, Fatos, MeioVale DEF IInv

LEMMA MovimentosVale == IInv /\ (TocarDireto \/ Tocar \/ Concluir) => Segue
<1> SUFFICES ASSUME IInv, TocarDireto \/ Tocar \/ Concluir PROVE Segue
  OBVIOUS
<1>1. CASE TocarDireto \/ Tocar
  <2> DEFINE v == [w EXCEPT !.pc = "tocando"]
  <2>1. /\ w.pc \in {"preparando", "conectando"} /\ w' = v /\ tocada' = w.item
        /\ UNCHANGED <<estado, Suspenso, Restante, tirada>>
    BY <1>1 DEF TocarDireto, Tocar
  <2>2. /\ v \in WorkerTipo /\ v.item = w.item /\ v.adiantado = w.adiantado
        /\ v.trazida = w.trazida /\ v.esperando = w.esperando /\ v.ger = w.ger
        /\ v.pedido = w.pedido /\ v.cancelado = w.cancelado /\ v.pc = "tocando"
    BY Fatos DEF WorkerTipo, PCs
  <2> HIDE DEF v
  <2> QED
    BY <2>1, <2>2, MoverVale
<1>2. CASE Concluir
  <2> DEFINE v == [w EXCEPT !.pc = "limpando"]
  <2>1. /\ w.pc \in {"preparando", "conectando", "tocando"} /\ w' = v /\ tocada' = tocada
        /\ UNCHANGED <<estado, Suspenso, Restante, tirada>>
    BY <1>2 DEF Concluir, Calado
  <2>2. /\ v \in WorkerTipo /\ v.item = w.item /\ v.adiantado = w.adiantado
        /\ v.trazida = w.trazida /\ v.esperando = w.esperando /\ v.ger = w.ger
        /\ v.pedido = w.pedido /\ v.cancelado = w.cancelado /\ v.pc = "limpando"
    BY Fatos DEF WorkerTipo, PCs
  <2> HIDE DEF v
  <2> QED
    BY <2>1, <2>2, MoverVale
<1> QED
  BY <1>1, <1>2

LEMMA InterromperVale == IInv /\ Interromper => Segue
<1> SUFFICES ASSUME IInv, Interromper PROVE Segue
  OBVIOUS
<1> DEFINE v == [w EXCEPT !.cancelado = FALSE]
           u == [v EXCEPT !.pc = "limpando", !.propaga = TRUE]
           x == [v EXCEPT !.item = Nada, !.esperando = FALSE, !.trazida = Nada, !.propaga = FALSE]
           f == [estado EXCEPT !.orfa = w.esperando]
<1>1. /\ w.cancelado /\ UNCHANGED Calado
      /\ \/ w.pc = "criado" /\ FimInterrompido(estado)
         \/ w.pc \in {"pegando", "ocioso"} /\ Fim(estado)
         \/ /\ w.pc \in {"preparando", "conectando", "tocando"}
            /\ w' = u /\ UNCHANGED <<estado, Suspenso>>
         \/ w.pc \in {"limpando", "descartando"} /\ w' = v /\ UNCHANGED <<estado, Suspenso>>
         \/ w.pc = "limpando" /\ Sair(x, f)
         \/ w.pc = "descartando" /\ Sair(v, estado)
         \/ w.pc = "saindo" /\ FimInterrompido(estado)
  BY DEF Interromper
<1>2. /\ v \in WorkerTipo /\ v.item = w.item /\ v.adiantado = w.adiantado
      /\ v.trazida = w.trazida /\ v.esperando = w.esperando /\ v.ger = w.ger
      /\ v.pedido = w.pedido /\ v.cancelado = FALSE /\ v.pc = w.pc
  BY Fatos DEF WorkerTipo
<1> HIDE DEF v
<1>3. /\ u \in WorkerTipo /\ u.item = w.item /\ u.adiantado = w.adiantado
      /\ u.trazida = w.trazida /\ u.esperando = w.esperando /\ u.ger = w.ger
      /\ u.pedido = w.pedido /\ u.cancelado = FALSE /\ u.pc = "limpando"
  BY <1>2 DEF WorkerTipo, PCs
<1>4. /\ x \in WorkerTipo /\ x.item = Nada /\ x.adiantado = w.adiantado
      /\ x.trazida = Nada /\ x.esperando = FALSE /\ x.ger = w.ger
      /\ x.pedido = w.pedido /\ x.cancelado = FALSE
  BY <1>2, Fatos DEF WorkerTipo
<1>5. w.esperando \in BOOLEAN
  BY Fatos DEF WorkerTipo
<1>6. /\ f \in EstadoTipo /\ f.queue = estado.queue /\ f.pending = estado.pending
      /\ f.unfinished = estado.unfinished /\ f.existe = estado.existe
      /\ f.accepting = estado.accepting /\ f.generation = estado.generation
      /\ f.orfa = w.esperando
  BY <1>5, Fatos DEF EstadoTipo
<1> HIDE DEF u, x, f
<1>7. CASE w.pc \in {"criado", "saindo"} /\ FimInterrompido(estado)
  BY <1>1, <1>7, EstadoSolto, FimVale
<1>8. CASE w.pc \in {"pegando", "ocioso"} /\ Fim(estado)
  BY <1>1, <1>8, EstadoSolto, FimVale
<1>9. CASE /\ w.pc \in {"preparando", "conectando", "tocando"}
           /\ w' = u /\ UNCHANGED <<estado, Suspenso>>
  <2>1. UNCHANGED <<estado, Suspenso, Restante, tirada>> /\ tocada' = tocada
    BY <1>1, <1>9 DEF Calado
  <2> QED
    BY <1>3, <1>9, <2>1, MoverVale
<1>10. CASE w.pc \in {"limpando", "descartando"} /\ w' = v /\ UNCHANGED <<estado, Suspenso>>
  <2>1. UNCHANGED <<estado, Suspenso, Restante, tirada>> /\ tocada' = tocada
    BY <1>1, <1>10 DEF Calado
  <2> QED
    BY <1>2, <1>10, <2>1, MoverVale
<1>11. CASE w.pc = "limpando" /\ Sair(x, f)
  <2>1. FilaBoa(f, aceitas)
    BY <1>6 DEF IInv, FilaBoa
  <2>2. Sinais(f, SemWorker, aceitas, limpador)
    <3>1. Sinais(estado, SemWorker, aceitas, limpador)
      BY <1>11, SinaisSemWorker DEF IInv
    <3> QED
      BY <1>6, <3>1 DEF Sinais
  <2>3. f.unfinished >= Len(f.queue) + Um(x.adiantado)
    <3>1. estado.unfinished >= Len(estado.queue) + Um(w.item) + Um(w.adiantado) + Um(w.trazida)
      BY DEF IInv, Devidas
    <3>2. /\ Um(w.item) \in {0, 1} /\ Um(w.adiantado) \in {0, 1} /\ Um(w.trazida) \in {0, 1}
      BY UmFatos
    <3> QED
      BY <1>4, <1>6, <3>1, <3>2, Fatos
  <2>4. Entre(x, f)
    BY <1>4, <1>6, <1>11, <2>1, <2>2, <2>3, EntreVale
  <2>5. OrfaCerta(x, f)
    <3>1. w.esperando => w.adiantado = Nada
      BY <1>11 DEF IInv, WorkerBom
    <3>2. encerrando \/ Alguma(limpador, "espera")
      BY <1>1 DEF IInv, Cancelamentos
    <3>3. Cardinality(Pedidas(limpador)) <= 2 /\ Alguma(limpador, "espera") => estado.queue = <<>>
      BY DEF IInv, Fechada
    <3> QED
      BY <1>4, <1>6, <3>1, <3>2, <3>3 DEF OrfaCerta
  <2> QED
    BY <1>1, <1>11, <2>4, <2>5, SairVale
<1>12. CASE w.pc = "descartando" /\ Sair(v, estado)
  <2>1. w.item = Nada /\ w.adiantado # Nada /\ w.trazida = Nada /\ ~ w.esperando
    BY <1>12 DEF IInv, WorkerBom
  <2>2. estado.unfinished >= Len(estado.queue) + Um(v.adiantado)
    BY <1>2, <2>1, Fatos, UmFatos DEF IInv, Devidas
  <2>3. Sinais(estado, SemWorker, aceitas, limpador)
    BY <1>12, SinaisSemWorker DEF IInv
  <2>4. Entre(v, estado)
    BY <1>2, <1>12, <2>1, <2>2, <2>3, EntreVale DEF IInv
  <2> QED
    BY <1>1, <1>12, <2>4, SairVale DEF OrfaCerta
<1> QED
  BY <1>1, <1>7, <1>8, <1>9, <1>10, <1>11, <1>12

\* An item leaves the head of the queue: the order of what stays.
LEMMA TomarVale ==
    ASSUME IInv, estado.queue # <<>>, NEW v,
           \A x \in {v.item, v.adiantado, v.trazida} :
              x \in {Nada, w.item, w.adiantado, w.trazida, Head(estado.queue)},
           v.pc \in {"pegou", "preparando", "conectando"} =>
              \/ v.item = Head(estado.queue)
              \/ v.item = w.item /\ w.pc \in {"pegou", "preparando", "conectando"},
           v.adiantado = Nada \/ (v.item = w.item /\ v.adiantado \in {w.adiantado, Head(estado.queue)}),
           v.trazida = Nada \/ (v.item = w.item /\ v.trazida \in {w.trazida, Head(estado.queue)})
    PROVE  /\ Ordem(Tail(estado.queue), v, tocada, Head(estado.queue))
           /\ Historia(tocada, Head(estado.queue), aceitas)
           /\ Inteiras(Tail(estado.queue), Head(estado.queue), aceitas)
           /\ Head(estado.queue).n > corte /\ Valido(Head(estado.queue), aceitas)
           /\ \A k \in DOMAIN Tail(estado.queue) : Tail(estado.queue)[k].n > corte
<1> DEFINE q == estado.queue
           h == Head(q)
           t == Tail(q)
<1>1. /\ Valido(h, aceitas) /\ Menor(tirada, h) /\ Inteiras(t, h, aceitas)
      /\ \A k \in DOMAIN t : Menor(h, t[k])
      /\ \A j, k \in DOMAIN t : j < k => Menor(t[j], t[k])
      /\ \A k \in DOMAIN t : k + 1 \in DOMAIN q /\ t[k] = q[k + 1]
      /\ 1 \in DOMAIN q /\ h = q[1]
  BY Fatos, CabecaVale DEF IInv
<1>2. h.n > corte /\ \A k \in DOMAIN t : t[k].n > corte
  BY <1>1 DEF IInv, Depois
<1> HIDE DEF h, t
<1>3. /\ h \in ItemTipo /\ tirada \in ItemTipo /\ tocada \in ItemTipo /\ Nada \in ItemTipo
      /\ w.item \in ItemTipo /\ w.adiantado \in ItemTipo /\ w.trazida \in ItemTipo
  BY <1>1, Fatos, NadaFatos
<1>4. /\ Ate(tocada, tirada) /\ Ate(w.item, tirada) /\ Ate(w.adiantado, tirada) /\ Ate(w.trazida, tirada)
      /\ Ate(Nada, tirada)
  BY <1>3, NadaFatos DEF IInv, Historia, Ordem
<1>5. /\ Menor(tocada, h) /\ Ate(tocada, h) /\ Menor(w.item, h) /\ Ate(h, h)
      /\ Ate(w.item, h) /\ Ate(w.adiantado, h) /\ Ate(w.trazida, h) /\ Ate(Nada, h)
  BY <1>1, <1>3, <1>4, MenorFatos
<1>6. Historia(tocada, h, aceitas)
  BY <1>1, <1>5 DEF IInv, Historia, ValidoOuNada
<1>7. Ate(v.item, h) /\ Ate(v.adiantado, h) /\ Ate(v.trazida, h)
  BY <1>5 DEF h
<1>8. v.pc \in {"pegou", "preparando", "conectando"} => Menor(tocada, v.item)
  BY <1>5 DEF h, IInv, Ordem
<1>9. /\ v.adiantado # Nada => Menor(tocada, v.adiantado) /\ Menor(v.item, v.adiantado)
      /\ v.trazida # Nada => Menor(tocada, v.trazida) /\ Menor(v.item, v.trazida)
  BY <1>5 DEF h, IInv, Ordem
<1>10. Ordem(t, v, tocada, h)
  BY <1>1, <1>7, <1>8, <1>9 DEF Ordem
<1> QED
  BY <1>1, <1>2, <1>6, <1>10 DEF h, t

LEMMA PegarDaFilaVale == IInv /\ PegarDaFila => Segue
<1> SUFFICES ASSUME IInv, PegarDaFila PROVE Segue
  OBVIOUS
<1> DEFINE q == estado.queue
           h == Head(q)
           t == Tail(q)
<1>1. /\ w.pc = "pegando" /\ ~ w.cancelado /\ q # <<>>
      /\ w' = [w EXCEPT !.pc = "pegou", !.item = h] /\ estado' = [estado EXCEPT !.queue = t]
      /\ tirada' = h /\ tocada' = tocada /\ UNCHANGED <<Suspenso, Restante>>
  BY DEF PegarDaFila
<1>2. MaosVazias(w)
  BY <1>1 DEF IInv, WorkerBom
<1>3. /\ h \in ItemTipo /\ t \in Seq(ItemTipo) /\ Len(t) = Len(q) - 1
      /\ DOMAIN t = 1..(Len(q) - 1) /\ Len(q) >= 1
      /\ \A k \in 1..(Len(q) - 1) : t[k] = q[k + 1]
  BY <1>1, Fatos, CabecaFatos, FilaFatos
<1>4. \A s : Cardinality(Marcas(q, aceitas, s))
          = (IF De(h, aceitas) = s THEN 1 ELSE 0) + Cardinality(Marcas(t, aceitas, s))
  BY <1>1, Fatos, MarcasCabeca
<1> HIDE DEF h, t
<1>5. /\ w' \in WorkerTipo /\ w'.pc = "pegou" /\ w'.item = h /\ w'.adiantado = Nada
      /\ w'.trazida = Nada /\ w'.esperando = FALSE /\ w'.ger = w.ger /\ w'.pedido = w.pedido
      /\ w'.cancelado = w.cancelado
  BY <1>1, <1>2, <1>3, Fatos DEF WorkerTipo, PCs, MaosVazias
<1>6. /\ estado' \in EstadoTipo /\ estado'.queue = t /\ estado'.unfinished = estado.unfinished
      /\ estado'.existe = estado.existe /\ estado'.accepting = estado.accepting
      /\ estado'.generation = estado.generation /\ estado'.orfa = estado.orfa
      /\ estado'.pending = estado.pending
  BY <1>1, <1>3, Fatos DEF EstadoTipo
<1>7. /\ Ordem(t, w', tocada, h) /\ Historia(tocada, h, aceitas) /\ Inteiras(t, h, aceitas)
      /\ h.n > corte /\ Valido(h, aceitas) /\ \A k \in DOMAIN t : t[k].n > corte
  <2>1. w'.item = Head(estado.queue) /\ w'.adiantado = Nada /\ w'.trazida = Nada
    BY <1>5 DEF h
  <2> DEFINE v == w'
  <2>2. /\ IInv /\ estado.queue # <<>>
        /\ \A x \in {v.item, v.adiantado, v.trazida} :
              x \in {Nada, w.item, w.adiantado, w.trazida, Head(estado.queue)}
        /\ v.item = Head(estado.queue) /\ v.adiantado = Nada /\ v.trazida = Nada
    BY <1>1, <2>1
  <2> HIDE DEF v
  <2>3. /\ Ordem(Tail(estado.queue), v, tocada, Head(estado.queue))
        /\ Historia(tocada, Head(estado.queue), aceitas)
        /\ Inteiras(Tail(estado.queue), Head(estado.queue), aceitas)
        /\ Head(estado.queue).n > corte /\ Valido(Head(estado.queue), aceitas)
        /\ \A k \in DOMAIN Tail(estado.queue) : Tail(estado.queue)[k].n > corte
    BY <2>2, TomarVale
  <2> QED
    BY <2>3 DEF h, t, v
<1>8. FilaBoa(estado', aceitas)
  <2>1. \A k \in DOMAIN t : Valido(t[k], aceitas)
    <3> SUFFICES ASSUME NEW k \in DOMAIN t PROVE Valido(t[k], aceitas)
      OBVIOUS
    <3>1. Len(q) \in Nat /\ DOMAIN q = 1..Len(q) /\ \A i \in DOMAIN q : Valido(q[i], aceitas)
      BY Fatos
    <3>2. k \in 1..(Len(q) - 1) /\ t[k] = q[k + 1]
      BY <1>3
    <3>3. k + 1 \in 1..Len(q)
      BY ONLY <3>1, <3>2
    <3> QED
      BY <3>1, <3>2, <3>3
  <2>2. Len(t) <= Capacidade
    BY <1>3, Fatos, FilaAssumption DEF IInv, FilaBoa
  <2> QED
    BY <1>1, <1>6, <2>1, <2>2 DEF IInv, FilaBoa
<1>9. WorkerBom(w', aceitas)
  BY <1>5, <1>7, NadaFatos DEF WorkerBom, ValidoOuNada
<1>10. Devidas(estado', w')
  BY <1>2, <1>3, <1>5, <1>6, Fatos, UmFatos DEF IInv, Devidas, MaosVazias
<1>11. Depois(estado', w', corte)
  BY <1>1, <1>5, <1>6, <1>7 DEF IInv, Depois
<1>12. Sinais(estado', w', aceitas, limpador)
  <2> SUFFICES ASSUME NEW s \in Textos
               PROVE  /\ estado.pending[s] <= Cardinality(Marcas(t, aceitas, s)) + Marcada(w', aceitas, s)
                      /\ Cardinality(Pedidas(limpador)) <= 1 => estado.pending[s] =
                            Cardinality(Marcas(t, aceitas, s)) + Marcada(w', aceitas, s)
    BY <1>6 DEF Sinais
  <2>1. Cardinality(Marcas(t, aceitas, s)) \in Nat /\ estado.pending[s] \in Nat
    BY <1>3, Fatos, MarcasFatos
  <2>2. Marcada(w', aceitas, s) = IF De(h, aceitas) = s THEN 1 ELSE 0
    BY <1>5 DEF Marcada
  <2>3. /\ estado.pending[s] <= Cardinality(Marcas(q, aceitas, s)) + 0
        /\ Cardinality(Pedidas(limpador)) <= 1 =>
              estado.pending[s] = Cardinality(Marcas(q, aceitas, s)) + 0
    BY <1>1 DEF IInv, Sinais, Marcada
  <2> QED
    BY <1>4, <2>1, <2>2, <2>3
<1>13. w.pc # "nenhum" /\ w'.pc # "nenhum" /\ estado'.existe
  BY <1>1, <1>5, <1>6, Fatos
<1> QED
  BY <1>1, <1>5, <1>6, <1>7, <1>8, <1>9, <1>10, <1>11, <1>12, <1>13, MeioVale

\* A prefetch takes the head of the queue.
LEMMA AdiantarVale ==
    ASSUME IInv, estado.queue # <<>>, NEW f,
           f = Tirar(estado) \/ (f = [Tirar(estado) EXCEPT !.orfa = FALSE]),
           estado' = f, tirada' = Head(estado.queue), tocada' = tocada,
           UNCHANGED <<Suspenso, Restante>>,
           NEW v, v \in WorkerTipo, w' = v, v.ger = w.ger, v.pedido = w.pedido,
           v.cancelado = w.cancelado, v.item = w.item,
           \/ v = w
           \/ /\ w.pc = "preparando" /\ v.pc = "conectando" /\ v.trazida = Nada /\ ~ v.esperando
              /\ v.adiantado = Head(estado.queue)
           \/ /\ w.esperando /\ v.pc = w.pc /\ v.adiantado = w.adiantado
              /\ v.trazida = Head(estado.queue) /\ ~ v.esperando
    PROVE  Segue
<1> DEFINE q == estado.queue
           h == Head(q)
           t == Tail(q)
           e == Tirar(estado)
<1>1. /\ FilaBoa(e, aceitas) /\ e.queue = t /\ e.unfinished = estado.unfinished
      /\ e.existe = estado.existe /\ e.accepting = estado.accepting
      /\ e.generation = estado.generation /\ e.orfa = estado.orfa
      /\ Len(t) = Len(q) - 1
      /\ \A a, u, l :
            Sinais(estado, a, aceitas, l) /\ (\A s : Marcada(u, aceitas, s) = Marcada(a, aceitas, s)) =>
               Sinais(e, u, aceitas, l)
  BY TirarVale DEF IInv
<1>2. Len(q) >= 1 /\ Len(q) \in Nat /\ h \in ItemTipo
  BY Fatos, FilaFatos, CabecaFatos
<1> HIDE DEF e, t, h
<1>3. \/ v = w
      \/ /\ w.pc = "preparando" /\ w.item # Nada /\ w.adiantado = Nada /\ w.trazida = Nada
         /\ v.pc = "conectando" /\ v.trazida = Nada /\ ~ v.esperando /\ v.adiantado = h
      \/ /\ w.pc \in {"conectando", "tocando", "limpando"} /\ w.item # Nada
         /\ w.adiantado = Nada /\ w.trazida = Nada
         /\ v.pc = w.pc /\ v.adiantado = Nada /\ v.trazida = h /\ ~ v.esperando
  BY Fatos DEF h, IInv, WorkerBom, MaosVazias, PCs
<1>4. /\ Ordem(t, v, tocada, h) /\ Historia(tocada, h, aceitas) /\ Inteiras(t, h, aceitas)
      /\ h.n > corte /\ Valido(h, aceitas) /\ \A k \in DOMAIN t : t[k].n > corte
  <2>1. \A x \in {v.item, v.adiantado, v.trazida} : x \in {Nada, w.item, w.adiantado, w.trazida, h}
    BY <1>3
  <2>2. v.pc \in {"pegou", "preparando", "conectando"} => w.pc \in {"pegou", "preparando", "conectando"}
    BY <1>3
  <2>3. /\ v.adiantado = Nada \/ (v.item = w.item /\ v.adiantado \in {w.adiantado, h})
        /\ v.trazida = Nada \/ (v.item = w.item /\ v.trazida \in {w.trazida, h})
    BY <1>3
  <2> QED
    BY <2>1, <2>2, <2>3, TomarVale DEF h, t
<1>5. /\ estado'.queue = t /\ estado'.unfinished = estado.unfinished
      /\ estado'.existe = estado.existe /\ estado'.accepting = estado.accepting
      /\ estado'.generation = estado.generation /\ (estado'.orfa => estado.orfa)
      /\ FilaBoa(estado', aceitas) /\ estado'.pending = e.pending
  <2>1. CASE f = e
    BY <1>1, <2>1
  <2>2. CASE f = [e EXCEPT !.orfa = FALSE]
    <3>1. e \in EstadoTipo
      BY <1>1 DEF FilaBoa
    <3>2. /\ f \in EstadoTipo /\ f.queue = e.queue /\ f.unfinished = e.unfinished
          /\ f.existe = e.existe /\ f.accepting = e.accepting
          /\ f.generation = e.generation /\ f.orfa = FALSE /\ f.pending = e.pending
      BY <2>2, <3>1 DEF EstadoTipo
    <3>3. FilaBoa(f, aceitas)
      BY <1>1, <3>2 DEF FilaBoa
    <3> QED
      BY <1>1, <3>2, <3>3
  <2> QED
    BY <2>1, <2>2 DEF e
<1>6. WorkerBom(w', aceitas)
  <2>1. CASE v = w
    BY <2>1 DEF IInv
  <2>2. CASE v # w
    <3>1. ValidoOuNada(v.item, aceitas) /\ ValidoOuNada(v.adiantado, aceitas) /\ ValidoOuNada(v.trazida, aceitas)
      BY <1>3, <1>4, <2>2 DEF IInv, WorkerBom, ValidoOuNada
    <3>2. h # Nada
      BY <1>4, NadaFatos
    <3> QED
      BY <1>3, <2>2, <3>1, <3>2 DEF WorkerBom
  <2> QED
    BY <2>1, <2>2
<1>7. Devidas(estado', w')
  <2>1. Um(v.item) + Um(v.adiantado) + Um(v.trazida) <= Um(w.item) + Um(w.adiantado) + Um(w.trazida) + 1
    <3>1. CASE v = w
      BY <3>1, UmFatos
    <3>2. CASE v # w
      BY <1>3, <3>2, UmFatos
    <3> QED
      BY <3>1, <3>2
  <2>2. estado.unfinished >= Len(q) + Um(w.item) + Um(w.adiantado) + Um(w.trazida)
    BY DEF IInv, Devidas
  <2>3. /\ Um(w.item) \in {0, 1} /\ Um(w.adiantado) \in {0, 1} /\ Um(w.trazida) \in {0, 1}
        /\ Um(v.item) \in {0, 1} /\ Um(v.adiantado) \in {0, 1} /\ Um(v.trazida) \in {0, 1}
    BY UmFatos
  <2>4. estado.unfinished >= Len(t) + Um(v.item) + Um(v.adiantado) + Um(v.trazida)
    <3>1. Len(t) = Len(q) - 1 /\ Len(q) \in Nat /\ estado.unfinished \in Nat
      BY <1>1, <1>2, Fatos
    <3> QED
      BY ONLY <2>1, <2>2, <2>3, <3>1
  <2> QED
    BY <1>5, <2>4 DEF Devidas
<1>8. Depois(estado', w', corte)
  <2>1. \A x \in {v.item, v.adiantado, v.trazida} : x \in {Nada, w.item, w.adiantado, w.trazida, h}
    BY <1>3
  <2>2. /\ v.pc = "preparando" => w.pc = "preparando"
        /\ v.pc = "criado" <=> w.pc = "criado"
        /\ v.pc = "nenhum" <=> w.pc = "nenhum"
    BY <1>3
  <2>3. v.ger = estado.generation /\ v.pc \notin {"nenhum", "criado"} =>
           \A x \in {v.item, v.adiantado, v.trazida} : x # Nada => x.n > corte
    BY <1>4, <2>1, <2>2 DEF IInv, Depois
  <2> QED
    BY <1>4, <1>5, <2>2, <2>3 DEF IInv, Depois
<1>9. Sinais(estado', w', aceitas, limpador)
  <2>1. \A s : Marcada(v, aceitas, s) = Marcada(w, aceitas, s)
    BY <1>3 DEF Marcada
  <2>2. Sinais(e, v, aceitas, limpador)
    BY <1>1, <2>1 DEF IInv
  <2> QED
    BY <1>1, <1>5, <2>2 DEF Sinais
<1>10. /\ (w.pc = "nenhum") = (w'.pc = "nenhum") /\ (w'.pc # "nenhum" => estado'.existe)
       /\ (w'.cancelado => w.cancelado)
  <2>1. w'.pc = "nenhum" <=> w.pc = "nenhum"
    BY <1>3
  <2> QED
    BY <1>5, <2>1, Fatos
<1>11. estado.queue = <<>> => estado'.queue = <<>>
  OBVIOUS
<1> QED
  BY <1>4, <1>5, <1>6, <1>7, <1>8, <1>9, <1>10, <1>11, MeioVale DEF h

LEMMA IniciarFalaVale == IInv /\ IniciarFala => Segue
<1> SUFFICES ASSUME IInv, IniciarFala PROVE Segue
  OBVIOUS
<1>1. w.pc = "preparando" /\ ~ w.cancelado /\ UNCHANGED <<Suspenso, Restante, tocada>>
  BY DEF IniciarFala
<1>2. w.item # Nada /\ w.adiantado = Nada /\ w.trazida = Nada /\ ~ w.esperando
  BY <1>1 DEF IInv, WorkerBom
<1>3. CASE /\ estado.queue # <<>> /\ estado' = Tirar(estado) /\ tirada' = Head(estado.queue)
           /\ w' = [w EXCEPT !.pc = "conectando", !.adiantado = Head(estado.queue)]
  <2> DEFINE h == Head(estado.queue)
             v == [w EXCEPT !.pc = "conectando", !.adiantado = h]
  <2>1. h \in ItemTipo
    BY <1>3, Fatos, CabecaFatos
  <2> HIDE DEF h
  <2>2. /\ v \in WorkerTipo /\ v.pc = "conectando" /\ v.item = w.item /\ v.adiantado = h
        /\ v.trazida = w.trazida /\ v.esperando = w.esperando /\ v.ger = w.ger
        /\ v.pedido = w.pedido /\ v.cancelado = w.cancelado
    BY <2>1, Fatos DEF WorkerTipo, PCs
  <2>3. w' = v
    BY <1>3 DEF h
  <2> HIDE DEF v
  <2> DEFINE f == Tirar(estado)
  <2>4. f = Tirar(estado) /\ estado' = f
    BY <1>3
  <2> HIDE DEF f
  <2> QED
    BY <1>1, <1>2, <1>3, <2>2, <2>3, <2>4, AdiantarVale DEF h
<1>4. CASE /\ estado.queue = <<>> /\ UNCHANGED <<estado, tirada>>
           /\ w' = [w EXCEPT !.pc = "conectando", !.esperando = TRUE]
  <2>1. /\ w' \in WorkerTipo /\ w'.pc = "conectando" /\ w'.item = w.item /\ w'.adiantado = Nada
        /\ w'.trazida = Nada /\ w'.esperando = TRUE /\ w'.ger = w.ger
        /\ w'.pedido = w.pedido /\ w'.cancelado = w.cancelado
    BY <1>2, <1>4, Fatos DEF WorkerTipo, PCs
  <2>2. WorkerBom(w', aceitas)
    BY <1>2, <2>1 DEF IInv, WorkerBom
  <2>3. Devidas(estado', w')
    BY <1>2, <1>4, <2>1 DEF IInv, Devidas
  <2>4. Ordem(estado'.queue, w', tocada', tirada')
    BY <1>1, <1>2, <1>4, <2>1 DEF IInv, Ordem
  <2>5. Depois(estado', w', corte)
    BY <1>1, <1>2, <1>4, <2>1 DEF IInv, Depois
  <2>6. Sinais(estado', w', aceitas, limpador)
    BY <1>1, <1>4, <2>1 DEF IInv, Sinais, Marcada
  <2> QED
    BY <1>1, <1>4, <2>1, <2>2, <2>3, <2>4, <2>5, <2>6, Fatos, MeioVale DEF IInv
<1> QED
  BY <1>3, <1>4 DEF IniciarFala

LEMMA ChegadaAdiantadaVale == IInv /\ ChegadaAdiantada => Segue
<1> SUFFICES ASSUME IInv, ChegadaAdiantada PROVE Segue
  OBVIOUS
<1> DEFINE h == Head(estado.queue)
           v == [w EXCEPT !.esperando = FALSE, !.trazida = h]
           f == Tirar(estado)
<1>1. /\ w.esperando /\ estado.queue # <<>> /\ w' = v /\ estado' = f /\ f = Tirar(estado)
      /\ tirada' = h /\ UNCHANGED <<Suspenso, Restante, tocada>>
  BY DEF ChegadaAdiantada
<1>2. h \in ItemTipo
  BY <1>1, Fatos, CabecaFatos
<1> HIDE DEF h
<1>3. /\ v \in WorkerTipo /\ v.pc = w.pc /\ v.item = w.item /\ v.adiantado = w.adiantado
      /\ v.trazida = h /\ v.esperando = FALSE /\ v.ger = w.ger
      /\ v.pedido = w.pedido /\ v.cancelado = w.cancelado
  BY <1>2, Fatos DEF WorkerTipo
<1> HIDE DEF v, f
<1> QED
  BY <1>1, <1>3, AdiantarVale DEF h

LEMMA ChegadaOrfaVale == IInv /\ ChegadaOrfa => Segue
<1> SUFFICES ASSUME IInv, ChegadaOrfa PROVE Segue
  OBVIOUS
<1> DEFINE v == w
           f == [Tirar(estado) EXCEPT !.orfa = FALSE]
<1>1. /\ estado.queue # <<>> /\ w' = v /\ estado' = f /\ tirada' = Head(estado.queue)
      /\ UNCHANGED <<Suspenso, Restante, tocada>>
  BY DEF ChegadaOrfa
<1> QED
  BY <1>1, Fatos, AdiantarVale

-----------------------------------------------------------------------------
\* The least of a set of numbers, and the messages that are left.

LEMMA MenorDe == ASSUME NEW S \in SUBSET Nat, S # {} PROVE Min(S) \in S /\ \A y \in S : Min(S) <= y
<1>1. \E R : IsWellFoundedOn(R, Nat) /\ \A x, y \in Nat : <<y, x>> \in R <=> y < x
  <2>1. \A x, y \in Nat : <<y, x>> \in OpToRel(<, Nat) <=> y < x
    BY DEF OpToRel
  <2> QED
    BY <2>1, NatLessThanWellFounded, Zenon
<1>2. PICK R : IsWellFoundedOn(R, Nat) /\ \A x, y \in Nat : <<y, x>> \in R <=> y < x
  BY <1>1
<1>3. \E x \in S : \A y \in S : ~ (<<y, x>> \in R)
  BY <1>2, WFMin
<1>4. PICK x \in S : \A y \in S : ~ (<<y, x>> \in R)
  BY <1>3
<1>5. \A y \in S : x <= y
  <2> SUFFICES ASSUME NEW y \in S PROVE ~ (y < x)
    OBVIOUS
  <2>1. x \in Nat /\ y \in Nat
    OBVIOUS
  <2>2. <<y, x>> \notin R
    BY <1>4
  <2> QED
    BY <1>2, <2>1, <2>2
<1> QED
  BY <1>5 DEF Min

LEMMA MsgFatos ==
    ASSUME NEW ms \in [Mensagens -> {"fora", "avisando", "feita"}], NEW m \in Mensagens,
           NEW x \in {"avisando", "feita"}
    PROVE  /\ Cardinality(Fora(ms)) \in Nat
           /\ Cardinality(Fora([ms EXCEPT ![m] = x])) <= Cardinality(Fora(ms))
           /\ Cardinality(Fora([ms EXCEPT ![m] = x])) \in Nat
           /\ ms[m] = "fora" =>
                 Cardinality(Fora([ms EXCEPT ![m] = x])) = Cardinality(Fora(ms)) - 1
<1> DEFINE A == Fora(ms)
           B == Fora([ms EXCEPT ![m] = x])
<1>1. B = A \ {m}
  BY DEF Fora
<1>2. IsFiniteSet(A)
  BY FS_Subset, FilaAssumption DEF Fora
<1>3. ms[m] = "fora" => m \in A
  BY DEF Fora
<1> HIDE DEF A, B
<1>4. IsFiniteSet(B) /\ Cardinality(B) = IF m \in A THEN Cardinality(A) - 1 ELSE Cardinality(A)
  BY <1>1, <1>2, FS_RemoveElement
<1>5. Cardinality(A) \in Nat /\ Cardinality(B) \in Nat
  BY <1>2, <1>4, FS_CardinalityType
<1>6. /\ Cardinality(A) \in Nat /\ Cardinality(B) \in Nat /\ Cardinality(B) <= Cardinality(A)
      /\ ms[m] = "fora" => Cardinality(B) = Cardinality(A) - 1
  BY <1>3, <1>4, <1>5
<1> QED
  BY <1>6 DEF A, B

-----------------------------------------------------------------------------
\* Admission.

\* An accepted message more changes nothing of the items there are.
LEMMA MaisUma ==
    ASSUME NEW ac \in Seq(Mensagens), NEW m \in Mensagens
    PROVE  /\ Append(ac, m) \in Seq(Mensagens) /\ Len(Append(ac, m)) = Len(ac) + 1 /\ Len(ac) \in Nat
           /\ Append(ac, m)[Len(ac) + 1] = m
           /\ \A x : Valido(x, ac) =>
                 /\ Valido(x, Append(ac, m)) /\ Append(ac, m)[x.n] = ac[x.n]
                 /\ De(x, Append(ac, m)) = De(x, ac) /\ x.n <= Len(ac)
<1>1. /\ Append(ac, m) \in Seq(Mensagens) /\ Len(Append(ac, m)) = Len(ac) + 1 /\ Len(ac) \in Nat
      /\ Append(ac, m)[Len(ac) + 1] = m /\ \A k \in 1..Len(ac) : Append(ac, m)[k] = ac[k]
  BY AppendProperties, LenProperties
<1> DEFINE b == Append(ac, m)
<1> HIDE DEF b
<1>2. ASSUME NEW x, Valido(x, ac)
      PROVE  Valido(x, b) /\ b[x.n] = ac[x.n] /\ De(x, b) = De(x, ac) /\ x.n <= Len(ac)
  <2>1. x.n \in 1..Len(ac) /\ x.n \in 1..(Len(ac) + 1) /\ x.n <= Len(ac)
    BY <1>1, <1>2 DEF Valido
  <2>2. b[x.n] = ac[x.n] /\ Len(b) = Len(ac) + 1
    BY <1>1, <2>1 DEF b
  <2> QED
    BY <1>2, <2>1, <2>2 DEF Valido, De
<1> QED
  BY <1>1, <1>2 DEF b

LEMMA CorteFatos ==
    ASSUME NEW k \in Nat, k <= Capacidade, estado.queue \in Seq(ItemTipo)
    PROVE  /\ Corte(k) \in Nat /\ Corte(k) <= Len(estado.queue)
           /\ Len(estado.queue) - Corte(k) + k <= Capacidade
           /\ \/ Corte(k) \in {0, Len(estado.queue)}
              \/ estado.queue[Corte(k)].n # estado.queue[Corte(k) + 1].n
<1> DEFINE q == estado.queue
           S == {j \in 0..Len(q) : /\ Len(q) - j + k <= Capacidade
                                   /\ j \in {0, Len(q)} \/ q[j].n # q[j + 1].n}
<1>1. Len(q) \in Nat
  BY FilaFatos
<1>2. Len(q) \in S
  BY <1>1
<1>3. S \in SUBSET Nat /\ S # {}
  BY <1>1, <1>2
<1>4. Corte(k) = Min(S)
  BY DEF Corte
<1> HIDE DEF S
<1>5. Corte(k) \in S
  BY <1>3, <1>4, MenorDe
<1> QED
  BY <1>1, <1>5 DEF S

\* The parts of the invariant that speak of the worker.
ComMao(e, v, ac, ct, l, enc) ==
    /\ WorkerBom(v, ac) /\ Devidas(e, v) /\ Ordem(e.queue, v, tocada, tirada) /\ Depois(e, v, ct)
    /\ Cancelamentos(e, v, l, enc) /\ Fechada(e, v, l, enc) /\ Sinais(e, v, ac, l)

LEMMA ComWorkerVale ==
    ASSUME NEW e, NEW ac, NEW ct, ComMao(e, w, ac, ct, limpador, encerrando), FilaBoa(e, ac),
           e.accepting /\ ~ encerrando /\ w.pc = "nenhum" => e.existe, tirada \in ItemTipo
    PROVE  ComMao(e, ComWorker(e), ac, ct, limpador, encerrando)
<1> DEFINE v == [SemWorker EXCEPT !.pc = "criado"]
<1>1. CASE ~ (e.accepting /\ ~ encerrando /\ w.pc = "nenhum")
  BY <1>1 DEF ComWorker
<1>2. CASE e.accepting /\ ~ encerrando /\ w.pc = "nenhum"
  <2>1. ComWorker(e) = v
    BY <1>2 DEF ComWorker
  <2>2. SemWorker \in WorkerTipo
    BY NadaFatos DEF SemWorker, WorkerTipo, PCs
  <2>3. /\ v \in WorkerTipo /\ v.pc = "criado" /\ v.item = Nada /\ v.adiantado = Nada
        /\ v.trazida = Nada /\ v.esperando = FALSE /\ v.cancelado = FALSE /\ v.pedido = FALSE
    BY NadaFatos DEF SemWorker, WorkerTipo, PCs
  <2> HIDE DEF v
  <2>4. WorkerBom(v, ac)
    BY <2>3 DEF WorkerBom, MaosVazias, ValidoOuNada
  <2>5. Devidas(e, v)
    <3>1. e.unfinished \in Nat /\ Len(e.queue) \in Nat
      BY FilaFatos DEF FilaBoa, EstadoTipo
    <3>2. e.unfinished >= Len(e.queue) + Um(w.item) + Um(w.adiantado) + Um(w.trazida)
      BY DEF ComMao, Devidas
    <3>3. /\ Um(w.item) \in {0, 1} /\ Um(w.adiantado) \in {0, 1} /\ Um(w.trazida) \in {0, 1}
          /\ Um(Nada) = 0
      BY UmFatos
    <3> QED
      BY <2>3, <3>1, <3>2, <3>3 DEF Devidas
  <2>6. Ordem(e.queue, v, tocada, tirada)
    BY <2>3, NadaFatos DEF ComMao, Ordem
  <2>7. Depois(e, v, ct)
    BY <2>3 DEF ComMao, Depois
  <2>8. Cancelamentos(e, v, limpador, encerrando)
    BY <1>2, <2>3 DEF ComMao, Cancelamentos
  <2>9. Fechada(e, v, limpador, encerrando)
    BY <1>2, <2>3 DEF ComMao, Fechada
  <2>10. Sinais(e, v, ac, limpador)
    BY <1>2, <2>3 DEF ComMao, Sinais, Marcada
  <2> QED
    BY <2>1, <2>4, <2>5, <2>6, <2>7, <2>8, <2>9, <2>10 DEF ComMao
<1> QED
  BY <1>1, <1>2

\* Steps that leave the clears, the shutdown and the history of speech alone.
LEMMA ForaVale ==
    ASSUME IInv, tocada' = tocada, tirada' = tirada, Entorno', FilaBoa(estado', aceitas'),
           Historia(tocada, tirada, aceitas'), Inteiras(estado'.queue, tirada, aceitas'),
           Contagem(aceitas', msg', estado'.generation, limpador', encerrando'),
           ComMao(estado', w', aceitas', corte', limpador', encerrando')
    PROVE  Segue
  BY DEF ComMao, Segue, IInv

\* A message that is not accepted.
LEMMA NaoAceita ==
    ASSUME IInv, NEW m \in Mensagens, NEW x \in {"avisando", "feita"}, msg' = [msg EXCEPT ![m] = x]
    PROVE  /\ Contagem(aceitas, msg', estado.generation, limpador, encerrando)
           /\ msg' \in [Mensagens -> {"fora", "avisando", "feita"}]
<1>1. msg \in [Mensagens -> {"fora", "avisando", "feita"}] /\ aceitas \in Seq(Mensagens)
  BY DEF IInv, Entorno
<1>2. /\ Cardinality(Fora(msg)) \in Nat /\ Cardinality(Fora(msg')) \in Nat
      /\ Cardinality(Fora(msg')) <= Cardinality(Fora(msg))
  BY <1>1, MsgFatos
<1>3. Len(aceitas) \in Nat /\ Cardinality(Mensagens) \in Nat
  BY <1>1, LenProperties, FilaAssumption, FS_CardinalityType
<1>4. /\ Len(aceitas) + Cardinality(Fora(msg)) <= Cardinality(Mensagens)
      /\ estado.generation <= Cardinality(Pedidas(limpador)) + (IF encerrando THEN 1 ELSE 0)
  BY DEF IInv, Contagem
<1>5. Len(aceitas) + Cardinality(Fora(msg')) <= Cardinality(Mensagens)
  BY <1>2, <1>3, <1>4
<1> QED
  BY <1>1, <1>4, <1>5 DEF Contagem

LEMMA RepetirVale == ASSUME NEW m \in Mensagens PROVE IInv /\ Repetir(m) => Segue
<1> SUFFICES ASSUME IInv, Repetir(m) PROVE Segue
  OBVIOUS
<1>1. /\ msg[m] = "fora" /\ w' = ComWorker(estado) /\ msg' = [msg EXCEPT ![m] = "feita"]
      /\ \A k \in DOMAIN Texto[m] : estado.pending[Texto[m][k]] > 0
      /\ UNCHANGED <<estado, limpador, encerrando, naGuilda, sozinho, mudancas,
                     corte, aceitas, tocada, tirada, abandonadas>>
  BY DEF Repetir
<1>2. w.pc = "nenhum" => estado.existe
  <2> SUFFICES ASSUME w.pc = "nenhum" PROVE estado.existe
    OBVIOUS
  <2>1. Texto[m] \in Seq(Textos) /\ Texto[m] # <<>>
    BY FilaAssumption
  <2>2. Len(Texto[m]) \in Nat \ {0} /\ DOMAIN Texto[m] = 1..Len(Texto[m])
    BY <2>1, EmptySeq, LenProperties
  <2>3. 1 \in DOMAIN Texto[m] /\ Texto[m][1] \in Textos
    BY <2>1, <2>2, ElementOfSeq
  <2> DEFINE s == Texto[m][1]
  <2>4. estado.pending[s] > 0 /\ estado.pending[s] \in Nat
    BY <1>1, <2>3, Fatos
  <2>5. estado.pending[s] <= Cardinality(Marcas(estado.queue, aceitas, s))
    <3>1. Marcada(w, aceitas, s) = 0
      BY DEF Marcada
    <3>2. Cardinality(Marcas(estado.queue, aceitas, s)) \in Nat
      BY Fatos, MarcasFatos
    <3> HIDE DEF s
    <3> QED
      BY <2>3, <3>1, <3>2 DEF IInv, Sinais, s
  <2>6. estado.queue # <<>>
    BY <2>4, <2>5, Fatos, MarcasFatos
  <2> QED
    BY <2>6 DEF IInv, FilaBoa
<1>3. ComMao(estado, ComWorker(estado), aceitas, corte, limpador, encerrando)
  BY <1>2, Fatos, ComWorkerVale DEF IInv, ComMao
<1>4. /\ Contagem(aceitas, msg', estado.generation, limpador, encerrando)
      /\ msg' \in [Mensagens -> {"fora", "avisando", "feita"}]
  BY <1>1, NaoAceita
<1> QED
  BY <1>1, <1>3, <1>4, ForaVale DEF IInv, Entorno

\* The state of the guild comes to exist, whatever else it is.
LEMMA ExistirVale ==
    ASSUME IInv, NEW e, e = [estado EXCEPT !.existe = TRUE]
    PROVE  /\ FilaBoa(e, aceitas) /\ e.queue = estado.queue /\ e.generation = estado.generation
           /\ e.existe = TRUE /\ ComMao(e, w, aceitas, corte, limpador, encerrando)
<1>1. /\ e \in EstadoTipo /\ e.queue = estado.queue /\ e.generation = estado.generation
      /\ e.existe = TRUE /\ e.unfinished = estado.unfinished /\ e.pending = estado.pending
      /\ e.accepting = estado.accepting /\ e.orfa = estado.orfa
  BY Fatos DEF EstadoTipo
<1>2. FilaBoa(e, aceitas)
  BY <1>1 DEF IInv, FilaBoa
<1>3. WorkerBom(w, aceitas) /\ Devidas(e, w) /\ Ordem(e.queue, w, tocada, tirada)
  BY <1>1 DEF IInv, Devidas
<1>4. Depois(e, w, corte)
  BY <1>1 DEF IInv, Depois
<1>5. Cancelamentos(e, w, limpador, encerrando)
  BY <1>1 DEF IInv, Cancelamentos
<1>6. Fechada(e, w, limpador, encerrando)
  BY <1>1 DEF IInv, Fechada
<1>7. Sinais(e, w, aceitas, limpador)
  BY <1>1 DEF IInv, Sinais
<1> QED
  BY <1>1, <1>2, <1>3, <1>4, <1>5, <1>6, <1>7 DEF ComMao

LEMMA RecusarVale == ASSUME NEW m \in Mensagens PROVE IInv /\ (Recusar(m) \/ Avisar(m)) => Segue
<1> SUFFICES ASSUME IInv, Recusar(m) \/ Avisar(m) PROVE Segue
  OBVIOUS
<1> DEFINE e == [estado EXCEPT !.existe = TRUE]
<1>1. /\ estado' = e /\ w' \in {w, ComWorker(e)}
      /\ msg' = [msg EXCEPT ![m] = "avisando"] \/ msg' = [msg EXCEPT ![m] = "feita"]
      /\ UNCHANGED <<limpador, encerrando, naGuilda, sozinho, mudancas,
                     corte, aceitas, tocada, tirada, abandonadas>>
  BY DEF Recusar, Avisar
<1> HIDE DEF e
<1>2. /\ FilaBoa(e, aceitas) /\ e.queue = estado.queue /\ e.generation = estado.generation
      /\ e.existe = TRUE /\ ComMao(e, w, aceitas, corte, limpador, encerrando)
  BY ExistirVale DEF e
<1>3. ComMao(e, ComWorker(e), aceitas, corte, limpador, encerrando)
  BY <1>2, Fatos, ComWorkerVale
<1>4. /\ Contagem(aceitas, msg', estado.generation, limpador, encerrando)
      /\ msg' \in [Mensagens -> {"fora", "avisando", "feita"}]
  BY <1>1, NaoAceita
<1>5. ComMao(e, w', aceitas, corte, limpador, encerrando)
  BY <1>1, <1>2, <1>3
<1>6. Entorno'
  BY <1>1, <1>4 DEF IInv, Entorno
<1> QED
  BY <1>1, <1>2, <1>4, <1>5, <1>6, ForaVale DEF IInv

\* A whole message behind a queue of earlier ones.
LEMMA JuntarOrdem ==
    ASSUME NEW a \in Seq(ItemTipo), NEW r \in Seq(ItemTipo), NEW p \in Nat,
           \A k \in 1..Len(a) : a[k].n < p,
           \A k \in 1..Len(r) : r[k].n = p /\ r[k].i = k,
           \A j, k \in DOMAIN a : j < k => Menor(a[j], a[k])
    PROVE  \A j, k \in DOMAIN (a \o r) : j < k => Menor((a \o r)[j], (a \o r)[k])
<1> DEFINE c == a \o r
           x == Len(a)
           y == Len(r)
<1>1. x \in Nat /\ y \in Nat /\ DOMAIN a = 1..x /\ DOMAIN r = 1..y
  BY FilaFatos
<1>2. /\ DOMAIN c = 1..(x + y)
      /\ \A k \in 1..x : c[k] = a[k]
      /\ \A k \in 1..y : c[x + k] = r[k]
  BY JuntaFatos
<1> HIDE DEF c, x, y
<1> SUFFICES ASSUME NEW j \in 1..(x + y), NEW k \in 1..(x + y), j < k PROVE Menor(c[j], c[k])
  BY <1>2 DEF c
<1>3. CASE k <= x
  <2>1. j \in 1..x /\ k \in 1..x
    BY <1>1, <1>3
  <2> QED
    BY <1>1, <1>2, <2>1 DEF x
<1>4. CASE ~ (k <= x)
  <2> DEFINE h == k - x
  <2>1. h \in 1..y /\ x + h = k
    BY <1>1, <1>4
  <2> HIDE DEF h
  <2>5. c[x + h] = r[h] /\ r[h].n = p /\ r[h].i = h
    BY <1>2, <2>1 DEF y
  <2>2. c[k].n = p /\ c[k].i = h
    BY <2>1, <2>5
  <2>3. CASE j <= x
    <3>1. j \in 1..x
      BY <1>1, <2>3
    <3>2. c[j] = a[j] /\ c[j].n < p
      BY <1>2, <3>1 DEF x
    <3> QED
      BY <2>2, <3>2 DEF Menor
  <2>4. CASE ~ (j <= x)
    <3> DEFINE l == j - x
    <3>1. l \in 1..y /\ x + l = j /\ l < h
      BY <1>1, <1>4, <2>4 DEF h
    <3> HIDE DEF l
    <3>2. c[x + l] = r[l] /\ r[l].n = p /\ r[l].i = l
      BY <1>2, <3>1 DEF y
    <3>3. c[j].n = p /\ c[j].i = l
      BY <3>1, <3>2
    <3> QED
      BY <2>2, <3>1, <3>3 DEF Menor
  <2> QED
    BY <2>3, <2>4
<1> QED
  BY <1>3, <1>4

LEMMA JuntarInteiras ==
    ASSUME NEW a \in Seq(ItemTipo), NEW r \in Seq(ItemTipo), NEW p, NEW g, NEW ac, NEW tr,
           \A k \in DOMAIN a : Valido(a[k], ac), Inteiras(a, tr, ac),
           \A k \in 1..Len(r) : r[k] = [n |-> p, i |-> k, ger |-> g],
           Len(Texto[ac[p]]) = Len(r)
    PROVE  Inteiras(a \o r, tr, ac)
<1> DEFINE c == a \o r
           x == Len(a)
           y == Len(r)
<1>1. x \in Nat /\ y \in Nat /\ DOMAIN a = 1..x /\ DOMAIN r = 1..y
  BY FilaFatos
<1>2. /\ DOMAIN c = 1..(x + y)
      /\ \A k \in 1..x : c[k] = a[k]
      /\ \A k \in 1..y : c[x + k] = r[k]
      /\ Len(c) = x + y
  BY JuntaFatos
<1>3. \A k \in 1..y : r[k] = [n |-> p, i |-> k, ger |-> g] /\ r[k].n = p /\ r[k].i = k
  OBVIOUS
<1>4. Len(Texto[ac[p]]) = y
  OBVIOUS
<1> HIDE DEF c, x, y
<1> SUFFICES ASSUME NEW k \in 1..(x + y)
             PROVE  /\ c[k].i < Len(Texto[ac[c[k].n]]) =>
                          k < Len(c) /\ c[k + 1] = [c[k] EXCEPT !.i = @ + 1]
                    /\ c[k].i > 1 => (IF k = 1 THEN tr ELSE c[k - 1]) = [c[k] EXCEPT !.i = @ - 1]
  BY <1>2 DEF Inteiras, c
<1>5. CASE k <= x
  <2>1. k \in 1..x /\ (k < x => k + 1 \in 1..x /\ k < x + y) /\ (k # 1 => k - 1 \in 1..x)
    BY <1>1, <1>5
  <2>2. /\ a[k].i < Len(Texto[ac[a[k].n]]) => k < x /\ a[k + 1] = [a[k] EXCEPT !.i = @ + 1]
        /\ a[k].i > 1 => (IF k = 1 THEN tr ELSE a[k - 1]) = [a[k] EXCEPT !.i = @ - 1]
    BY <1>1, <2>1 DEF Inteiras, x
  <2> QED
    BY <1>2, <2>1, <2>2
<1>6. CASE ~ (k <= x)
  <2> DEFINE h == k - x
  <2>1. /\ h \in 1..y /\ x + h = k /\ x + (h + 1) = k + 1 /\ x + (h - 1) = k - 1
        /\ (h < y => h + 1 \in 1..y /\ k < x + y) /\ (h > 1 => h - 1 \in 1..y /\ k # 1)
    BY <1>1, <1>6
  <2> HIDE DEF h
  <2>5. \A u \in 1..y : c[x + u] = [n |-> p, i |-> u, ger |-> g]
    BY <1>2, <1>3
  <2>6. c[x + h] = [n |-> p, i |-> h, ger |-> g]
    BY <2>1, <2>5
  <2>2. c[k] = [n |-> p, i |-> h, ger |-> g] /\ c[k].n = p /\ c[k].i = h
    BY <2>1, <2>6
  <2>3. ASSUME h < y PROVE k < Len(c) /\ c[k + 1] = [c[k] EXCEPT !.i = @ + 1]
    <3>2. c[x + (h + 1)] = [n |-> p, i |-> h + 1, ger |-> g]
      BY <2>1, <2>3, <2>5
    <3>1. c[k + 1] = [n |-> p, i |-> h + 1, ger |-> g]
      BY <2>1, <3>2
    <3>3. k < Len(c)
      BY <1>2, <2>1, <2>3
    <3>4. [c[k] EXCEPT !.i = @ + 1] = [n |-> p, i |-> h + 1, ger |-> g]
      BY <2>2
    <3> QED
      BY <3>1, <3>3, <3>4
  <2>4. ASSUME h > 1 PROVE (IF k = 1 THEN tr ELSE c[k - 1]) = [c[k] EXCEPT !.i = @ - 1]
    <3>2. c[x + (h - 1)] = [n |-> p, i |-> h - 1, ger |-> g]
      BY <2>1, <2>4, <2>5
    <3>1. c[k - 1] = [n |-> p, i |-> h - 1, ger |-> g]
      BY <2>1, <3>2
    <3> QED
      BY <2>1, <2>2, <2>4, <3>1
  <2> QED
    BY <1>4, <2>2, <2>3, <2>4
<1> QED
  BY <1>5, <1>6

\* The parts of a message that is the next one accepted, the queue with them,
\* and how many have a signature.
Novos(ac, m, g) == [k \in DOMAIN Texto[m] |-> [n |-> Len(ac) + 1, i |-> k, ger |-> g]]
Quantas(r, m, s) == Cardinality({k \in DOMAIN r : Texto[m][k] = s})
ComNovos(f, r, m) ==
    [f EXCEPT !.existe = TRUE, !.queue = @ \o r, !.unfinished = @ + Len(r),
              !.pending = [s \in Textos |-> @[s] + Quantas(r, m, s)]]

LEMMA NovosFatos ==
    ASSUME NEW ac \in Seq(Mensagens), NEW m \in Mensagens, NEW g \in Geracoes,
           Len(Texto[m]) <= Capacidade,
           NEW r, r = Novos(ac, m, g)
    PROVE  /\ r \in Seq(ItemTipo) /\ Len(r) = Len(Texto[m]) /\ Len(r) \in Nat /\ Len(r) >= 1
           /\ DOMAIN r = 1..Len(r)
           /\ \A k \in 1..Len(r) :
                 r[k] = [n |-> Len(ac) + 1, i |-> k, ger |-> g] /\ Valido(r[k], Append(ac, m))
           /\ \A s : Quantas(r, m, s) = Cardinality(Marcas(r, Append(ac, m), s))
           /\ Append(ac, m)[Len(ac) + 1] = m
<1> DEFINE p == Len(ac) + 1
           y == Len(Texto[m])
           b == Append(ac, m)
<1>1. Texto[m] \in Seq(Textos) /\ Texto[m] # <<>>
  BY FilaAssumption
<1>2. y \in Nat /\ y >= 1 /\ DOMAIN Texto[m] = 1..y
  BY <1>1, EmptySeq, LenProperties
<1>3. p \in Nat /\ b[p] = m /\ Len(b) = p /\ p >= 1
  BY MaisUma
<1> HIDE DEF p, y, b
<1>4. \A k \in 1..y : [n |-> p, i |-> k, ger |-> g] \in ItemTipo
  BY <1>2, <1>3 DEF ItemTipo
<1>5. r = [k \in 1..y |-> [n |-> p, i |-> k, ger |-> g]]
  BY <1>2 DEF p, Novos
<1>6. r \in Seq(ItemTipo) /\ Len(r) = y /\ DOMAIN r = 1..y
  BY <1>2, <1>4, <1>5
<1>10. \A k \in 1..y : r[k] = [n |-> p, i |-> k, ger |-> g]
  BY <1>5
<1>7. \A k \in 1..y : r[k] = [n |-> p, i |-> k, ger |-> g] /\ r[k].n = p /\ r[k].i = k /\ r[k] \in ItemTipo
  <2> SUFFICES ASSUME NEW k \in 1..y
               PROVE  r[k] = [n |-> p, i |-> k, ger |-> g] /\ r[k].n = p /\ r[k].i = k /\ r[k] \in ItemTipo
    OBVIOUS
  <2>1. r[k] = [n |-> p, i |-> k, ger |-> g]
    BY <1>10
  <2>2. r[k].n = p /\ r[k].i = k
    BY <2>1
  <2>3. r[k] \in ItemTipo
    BY <1>4, <2>1
  <2> QED
    BY <2>1, <2>2, <2>3
<1>8. \A k \in 1..y : Valido(r[k], b)
  <2> SUFFICES ASSUME NEW k \in 1..y PROVE Valido(r[k], b)
    OBVIOUS
  <2>1. r[k].n = p /\ r[k].i = k /\ r[k] \in ItemTipo
    BY <1>7
  <2>2. p \in 1..Len(b) /\ Len(Texto[b[p]]) = y /\ y <= Capacidade
    BY <1>3 DEF y
  <2> QED
    BY <2>1, <2>2 DEF Valido
<1>9. ASSUME NEW s PROVE Quantas(r, m, s) = Cardinality(Marcas(r, b, s))
  <2>1. Marcas(r, b, s) = {k \in DOMAIN r : Texto[m][k] = s}
    BY <1>3, <1>6, <1>7 DEF Marcas, De
  <2> QED
    BY <2>1 DEF Quantas
<1> QED
  BY <1>2, <1>3, <1>6, <1>7, <1>8, <1>9 DEF p, y, b

\* A message more, b, after what the queue keeps, a: what is in a is as before.
LEMMA MaisUmaFila ==
    ASSUME NEW ac \in Seq(Mensagens), NEW m \in Mensagens, NEW a \in Seq(ItemTipo),
           \A k \in DOMAIN a : Valido(a[k], ac)
    PROVE  /\ \A k \in DOMAIN a : Valido(a[k], Append(ac, m)) /\ a[k].n < Len(ac) + 1
           /\ \A s : Marcas(a, Append(ac, m), s) = Marcas(a, ac, s)
           /\ \A tr : Inteiras(a, tr, ac) => Inteiras(a, tr, Append(ac, m))
<1> DEFINE b == Append(ac, m)
<1>0. ac \in Seq(Mensagens) /\ m \in Mensagens
  OBVIOUS
<1>1. /\ Len(ac) \in Nat
      /\ \A x : Valido(x, ac) =>
            Valido(x, b) /\ b[x.n] = ac[x.n] /\ De(x, b) = De(x, ac) /\ x.n <= Len(ac)
  <2>1. /\ Append(ac, m) \in Seq(Mensagens) /\ Len(Append(ac, m)) = Len(ac) + 1 /\ Len(ac) \in Nat
        /\ Append(ac, m)[Len(ac) + 1] = m
        /\ \A x : Valido(x, ac) =>
              /\ Valido(x, Append(ac, m)) /\ Append(ac, m)[x.n] = ac[x.n]
              /\ De(x, Append(ac, m)) = De(x, ac) /\ x.n <= Len(ac)
    BY ONLY <1>0, MaisUma, Zenon
  <2> QED
    BY ONLY <2>1, Zenon
<1> HIDE DEF b
<1>2. \A k \in DOMAIN a :
        Valido(a[k], b) /\ b[a[k].n] = ac[a[k].n] /\ De(a[k], b) = De(a[k], ac) /\ a[k].n <= Len(ac)
  BY <1>1
<1>3. \A k \in DOMAIN a : Valido(a[k], b) /\ a[k].n < Len(ac) + 1
  BY <1>1, <1>2 DEF Valido, ItemTipo
<1>4. \A s : Marcas(a, b, s) = Marcas(a, ac, s)
  BY <1>2 DEF Marcas
<1>5. \A tr : Inteiras(a, tr, ac) => Inteiras(a, tr, b)
  BY <1>2 DEF Inteiras
<1> QED
  BY <1>3, <1>4, <1>5 DEF b

LEMMA GeracaoTipo == IInv => estado.generation \in Geracoes /\ Cardinality(Pedidas(limpador)) \in Nat
<1> SUFFICES ASSUME IInv PROVE estado.generation \in Geracoes /\ Cardinality(Pedidas(limpador)) \in Nat
  OBVIOUS
<1>1. Pedidas(limpador) \subseteq Limpadores
  BY DEF Pedidas
<1>2. /\ Cardinality(Pedidas(limpador)) \in Nat /\ Cardinality(Limpadores) \in Nat
      /\ Cardinality(Pedidas(limpador)) <= Cardinality(Limpadores)
  BY <1>1, FilaAssumption, FS_Subset, FS_CardinalityType
<1>3. /\ estado.generation <= Cardinality(Pedidas(limpador)) + (IF encerrando THEN 1 ELSE 0)
      /\ estado.generation \in Nat
  BY Fatos DEF IInv, Contagem
<1> QED
  BY <1>2, <1>3 DEF Geracoes

\* The whole message m, r, enters behind what is left of the queue, in f.
LEMMA EncherVale ==
    ASSUME IInv, NEW m \in Mensagens, Len(Texto[m]) <= Capacidade, estado.accepting,
           NEW r, r = Novos(aceitas, m, estado.generation),
           NEW f, FilaBoa(f, aceitas), Devidas(f, w), Ordem(f.queue, w, tocada, tirada),
           Depois(f, w, corte), Inteiras(f.queue, tirada, aceitas), Sinais(f, w, aceitas, limpador),
           f.accepting = estado.accepting, f.generation = estado.generation, f.orfa = estado.orfa,
           Len(f.queue) + Len(r) <= Capacidade,
           NEW e, e = ComNovos(f, r, m)
    PROVE  /\ FilaBoa(e, Append(aceitas, m)) /\ Inteiras(e.queue, tirada, Append(aceitas, m))
           /\ Historia(tocada, tirada, Append(aceitas, m))
           /\ e.generation = estado.generation /\ e.existe = TRUE
           /\ ComMao(e, w, Append(aceitas, m), corte, limpador, encerrando)
<1> DEFINE b == Append(aceitas, m)
           p == Len(aceitas) + 1
           a == f.queue
           y == Len(r)
<1>0. /\ aceitas \in Seq(Mensagens) /\ estado.generation \in Geracoes /\ Len(aceitas) \in Nat
      /\ corte \in 0..Len(aceitas)
  BY Fatos, GeracaoTipo, LenProperties DEF IInv, Entorno
<1>1. /\ r \in Seq(ItemTipo) /\ y = Len(Texto[m]) /\ y \in Nat /\ y >= 1
      /\ DOMAIN r = 1..y
      /\ \A k \in 1..y : r[k] = [n |-> p, i |-> k, ger |-> estado.generation] /\ Valido(r[k], b)
      /\ \A s : Quantas(r, m, s) = Cardinality(Marcas(r, b, s))
      /\ b[p] = m
  <2>1. /\ m \in Mensagens /\ Len(Texto[m]) <= Capacidade
        /\ r = Novos(aceitas, m, estado.generation)
    OBVIOUS
  <2> QED
    BY ONLY <1>0, <2>1, NovosFatos
<1> HIDE DEF p, y
<1>2. \A k \in 1..y : r[k].n = p /\ r[k].i = k
  <2> SUFFICES ASSUME NEW k \in 1..y PROVE r[k].n = p /\ r[k].i = k
    OBVIOUS
  <2>1. r[k] = [n |-> p, i |-> k, ger |-> estado.generation]
    BY <1>1
  <2> QED
    BY ONLY <2>1
<1> USE DEF p, y
<1>3. /\ f \in EstadoTipo /\ a \in Seq(ItemTipo) /\ Len(a) \in Nat /\ DOMAIN a = 1..Len(a)
      /\ f.unfinished \in Nat /\ f.pending \in [Textos -> Nat]
      /\ \A k \in DOMAIN a : Valido(a[k], aceitas)
  BY FilaFatos DEF FilaBoa, EstadoTipo
<1>4. /\ \A k \in DOMAIN a : Valido(a[k], b) /\ a[k].n < p
      /\ \A s : Marcas(a, b, s) = Marcas(a, aceitas, s)
      /\ Inteiras(a, tirada, b)
  BY <1>0, <1>3, MaisUmaFila
<1>5. \A x : Valido(x, aceitas) => Valido(x, b) /\ De(x, b) = De(x, aceitas) /\ x.n <= Len(aceitas)
  BY <1>0, MaisUma
<1>6. /\ a \o r \in Seq(ItemTipo) /\ Len(a \o r) = Len(a) + y /\ DOMAIN (a \o r) = 1..(Len(a) + y)
      /\ \A k \in 1..Len(a) : (a \o r)[k] = a[k]
      /\ \A k \in 1..y : (a \o r)[Len(a) + k] = r[k]
  BY ONLY <1>1, <1>3, JuntaFatos
<1> DEFINE pn == [s \in Textos |-> f.pending[s] + Quantas(r, m, s)]
<1>7. pn \in [Textos -> Nat] /\ \A s \in Textos : pn[s] = f.pending[s] + Cardinality(Marcas(r, b, s))
  <2>1. \A s \in Textos : Cardinality(Marcas(r, b, s)) \in Nat /\ f.pending[s] \in Nat
    BY <1>1, <1>3, MarcasFatos
  <2>2. pn = [s \in Textos |-> f.pending[s] + Cardinality(Marcas(r, b, s))]
    BY <1>1
  <2> QED
    BY <2>1, <2>2
<1>8. e = [f EXCEPT !.existe = TRUE, !.queue = a \o r, !.unfinished = f.unfinished + y, !.pending = pn]
  BY DEF ComNovos
<1> HIDE DEF pn, b, p, y, a
<1>9. f.unfinished + y \in Nat
  BY <1>1, <1>3
<1> DEFINE c == a \o r
<1> HIDE DEF c
<1>10. /\ e \in EstadoTipo /\ e.queue = c /\ e.unfinished = f.unfinished + y /\ e.pending = pn
       /\ e.existe = TRUE /\ e.accepting = estado.accepting /\ e.generation = estado.generation
       /\ e.orfa = estado.orfa
  BY <1>3, <1>6, <1>7, <1>8, <1>9 DEF EstadoTipo, c
<1>11. \A k \in DOMAIN c : Valido(c[k], b) /\ (k \in 1..Len(a) \/ c[k].n = p)
  <2> SUFFICES ASSUME NEW k \in 1..(Len(a) + y) PROVE Valido(c[k], b) /\ (k \in 1..Len(a) \/ c[k].n = p)
    BY <1>6 DEF c
  <2>1. CASE k <= Len(a)
    <3>1. k \in 1..Len(a)
      BY <1>3, <2>1
    <3> QED
      BY <1>3, <1>4, <1>6, <3>1 DEF c
  <2>2. CASE ~ (k <= Len(a))
    <3> DEFINE h == k - Len(a)
    <3>1. h \in 1..y /\ Len(a) + h = k
      BY <1>1, <1>3, <2>2
    <3> HIDE DEF h
    <3>2. c[Len(a) + h] = r[h] /\ r[h].n = p /\ Valido(r[h], b)
      BY <1>1, <1>2, <1>6, <3>1 DEF c
    <3> QED
      BY <3>1, <3>2
  <2> QED
    BY <2>1, <2>2
<1>12. FilaBoa(e, b)
  <2>1. Len(c) <= Capacidade
    BY <1>6 DEF c, y, a
  <2> QED
    BY <1>10, <1>11, <2>1 DEF FilaBoa
<1>13. WorkerBom(w, b)
  BY <1>5 DEF IInv, WorkerBom, ValidoOuNada
<1>14. Devidas(e, w)
  <2>1. f.unfinished >= Len(a) + Um(w.item) + Um(w.adiantado) + Um(w.trazida)
    BY DEF Devidas, a
  <2>2. Um(w.item) \in Nat /\ Um(w.adiantado) \in Nat /\ Um(w.trazida) \in Nat
    BY DEF Um
  <2>3. Len(c) = Len(a) + y
    BY <1>6 DEF c
  <2>4. f.unfinished + y >= Len(c) + Um(w.item) + Um(w.adiantado) + Um(w.trazida)
    BY ONLY <1>1, <1>3, <2>1, <2>2, <2>3
  <2> QED
    BY <1>10, <2>4 DEF Devidas
<1>15. Historia(tocada, tirada, b)
  BY <1>5 DEF IInv, Historia, ValidoOuNada
<1>16. Ordem(c, w, tocada, tirada)
  <2>1. \A j, k \in DOMAIN a : j < k => Menor(a[j], a[k])
    BY DEF Ordem, a
  <2>2. \A j, k \in DOMAIN c : j < k => Menor(c[j], c[k])
    <3>1. p \in Nat /\ \A k \in 1..Len(a) : a[k].n < p
      BY <1>0, <1>3, <1>4 DEF p
    <3>2. \A k \in 1..Len(r) : r[k].n = p /\ r[k].i = k
      BY <1>2 DEF y
    <3>3. a \in Seq(ItemTipo) /\ r \in Seq(ItemTipo)
      BY <1>1, <1>3
    <3> QED
      BY ONLY <2>1, <3>1, <3>2, <3>3, JuntarOrdem DEF c
  <2>3. \A k \in DOMAIN c : Menor(tirada, c[k])
    <3> SUFFICES ASSUME NEW k \in DOMAIN c PROVE Menor(tirada, c[k])
      OBVIOUS
    <3>1. CASE k \in 1..Len(a)
      <4>1. c[k] = a[k] /\ Menor(tirada, a[k])
        BY <1>3, <1>6, <3>1 DEF c, Ordem, a
      <4> QED
        BY <4>1
    <3>2. CASE c[k].n = p
      <4>1. tirada = Nada \/ tirada.n <= Len(aceitas)
        BY <1>5 DEF IInv, Historia, ValidoOuNada
      <4>2. tirada.n < p
        BY <1>0, <4>1, Fatos DEF Nada, ItemTipo, p
      <4> QED
        BY <3>2, <4>2 DEF Menor
    <3> QED
      BY <1>11, <3>1, <3>2
  <2> QED
    BY <2>2, <2>3 DEF Ordem
<1>17. Depois(e, w, corte)
  <2>1. \A k \in DOMAIN c : c[k].n > corte
    <3> SUFFICES ASSUME NEW k \in DOMAIN c PROVE c[k].n > corte
      OBVIOUS
    <3>1. CASE k \in 1..Len(a)
      <4>1. c[k] = a[k] /\ a[k].n > corte
        BY <1>3, <1>6, <3>1 DEF c, Depois, a
      <4> QED
        BY <4>1
    <3>2. CASE c[k].n = p
      BY <1>0, <3>2 DEF p
    <3> QED
      BY <1>11, <3>1, <3>2
  <2> QED
    BY <1>10, <2>1 DEF Depois, IInv
<1>18. Cancelamentos(e, w, limpador, encerrando)
  BY <1>10 DEF Cancelamentos, IInv
<1>19. Fechada(e, w, limpador, encerrando)
  BY <1>10 DEF Fechada, IInv
<1>20. Inteiras(c, tirada, b)
  <2>1. \A k \in DOMAIN a : Valido(a[k], b)
    BY <1>4
  <2>2. \A k \in 1..Len(r) : r[k] = [n |-> p, i |-> k, ger |-> estado.generation]
    BY <1>1 DEF y
  <2>3. Len(Texto[b[p]]) = Len(r)
    BY <1>1 DEF y
  <2>4. /\ a \in Seq(ItemTipo) /\ r \in Seq(ItemTipo) /\ Inteiras(a, tirada, b)
    BY <1>1, <1>3, <1>4
  <2> QED
    BY ONLY <2>1, <2>2, <2>3, <2>4, JuntarInteiras DEF c
<1>21. Sinais(e, w, b, limpador)
  <2> DEFINE n == Cardinality(Pedidas(limpador))
             u(s) == Cardinality(Marcas(r, b, s))
             x(s) == Cardinality(Marcas(a, b, s))
             z(s) == Cardinality(Marcas(c, b, s))
             d(s) == Marcada(w, b, s)
  <2>1. \A s \in Textos : f.pending[s] <= x(s) + d(s) /\ (n <= 1 => f.pending[s] = x(s) + d(s))
    <3>1. \A s : Marcada(w, b, s) = Marcada(w, aceitas, s)
      BY <1>5, NadaFatos DEF Marcada, IInv, WorkerBom, ValidoOuNada
    <3> QED
      BY <1>4, <3>1 DEF Sinais, a
  <2>2. \A s \in Textos : z(s) = x(s) + u(s)
    BY <1>1, <1>3, MarcasSoma DEF c
  <2>3. \A s \in Textos : u(s) \in Nat /\ x(s) \in Nat /\ d(s) \in {0, 1} /\ f.pending[s] \in Nat
    BY <1>1, <1>3, MarcasFatos DEF Marcada
  <2>4. \A s \in Textos : e.pending[s] = f.pending[s] + u(s)
    BY <1>7, <1>10
  <2>6. n \in Nat
    BY GeracaoTipo
  <2> HIDE DEF n, u, x, z, d
  <2>5. \A s \in Textos : e.pending[s] <= z(s) + d(s) /\ (n <= 1 => e.pending[s] = z(s) + d(s))
    BY ONLY <2>1, <2>2, <2>3, <2>4, <2>6
  <2> QED
    BY <1>10, <2>5 DEF Sinais, n, z, d
<1> QED
  BY <1>10, <1>12, <1>13, <1>14, <1>15, <1>16, <1>17, <1>18, <1>19, <1>20, <1>21 DEF ComMao, b

LEMMA AceitarVale == ASSUME NEW m \in Mensagens PROVE IInv /\ Aceitar(m) => Segue
<1> SUFFICES ASSUME IInv, Aceitar(m) PROVE Segue
  OBVIOUS
<1> DEFINE b == Append(aceitas, m)
           r == Novos(aceitas, m, estado.generation)
           j == Corte(Len(r))
           f == Descartar(estado, j)
           e == ComNovos(f, r, m)
<1>1. /\ msg[m] = "fora" /\ estado.accepting /\ Len(Texto[m]) <= Capacidade
      /\ estado' = e /\ w' = ComWorker(e) /\ aceitas' = b /\ msg' = [msg EXCEPT ![m] = "feita"]
      /\ UNCHANGED <<limpador, encerrando, naGuilda, sozinho, mudancas, corte,
                     tocada, tirada, abandonadas>>
  BY DEF Aceitar, PodeAceitar, Novos, Quantas, ComNovos
<1>2. Len(r) = Len(Texto[m]) /\ Len(r) \in Nat
  BY Fatos, GeracaoTipo, NovosFatos, <1>1
<1>3. r = Novos(aceitas, m, estado.generation)
  OBVIOUS
<1> HIDE DEF r
<1>4. /\ j \in Nat /\ j <= Len(estado.queue) /\ Len(estado.queue) - j + Len(r) <= Capacidade
      /\ j \in {0, Len(estado.queue)} \/ estado.queue[j].n # estado.queue[j + 1].n
  BY <1>1, <1>2, Fatos, CorteFatos
<1> HIDE DEF j
<1>5. /\ Devidas(f, w) /\ Ordem(f.queue, w, tocada, tirada)
      /\ Depois(f, w, corte) /\ Sinais(f, w, aceitas, limpador) /\ estado.unfinished >= Len(estado.queue)
  BY <1>4, Fatos, DescartarVale DEF IInv
<1>6. /\ FilaBoa(f, aceitas) /\ f.queue = SubSeq(estado.queue, j + 1, Len(estado.queue))
      /\ f.accepting = estado.accepting /\ f.generation = estado.generation /\ f.orfa = estado.orfa
  BY <1>4, <1>5, Fatos, DescartarCampos DEF IInv
<1>7. Inteiras(f.queue, tirada, aceitas)
  BY <1>4, <1>6, Fatos, DescartarInteiras DEF IInv
<1>8. Len(f.queue) + Len(r) <= Capacidade
  <2>1. Len(f.queue) = Len(estado.queue) - j
    BY <1>4, <1>6, Fatos, RestoFatos
  <2> QED
    BY <1>4, <2>1
<1> HIDE DEF f
<1>9. e = ComNovos(f, r, m)
  OBVIOUS
<1> HIDE DEF e
<1>10. /\ FilaBoa(e, b) /\ Inteiras(e.queue, tirada, b) /\ Historia(tocada, tirada, b)
       /\ e.generation = estado.generation /\ e.existe = TRUE
       /\ ComMao(e, w, b, corte, limpador, encerrando)
  BY <1>1, <1>3, <1>5, <1>6, <1>7, <1>8, <1>9, EncherVale
<1> HIDE DEF b
<1>11. ComMao(e, ComWorker(e), b, corte, limpador, encerrando)
  BY <1>10, Fatos, ComWorkerVale
<1>12. b \in Seq(Mensagens) /\ Len(b) = Len(aceitas) + 1 /\ Len(aceitas) \in Nat
  BY Fatos, MaisUma DEF b
<1>13. Contagem(b, msg', e.generation, limpador, encerrando)
  <2>1. msg \in [Mensagens -> {"fora", "avisando", "feita"}]
    BY DEF IInv, Entorno
  <2>2. Cardinality(Fora(msg)) \in Nat /\ Cardinality(Fora(msg')) = Cardinality(Fora(msg)) - 1
    BY <1>1, <2>1, MsgFatos
  <2>3. Cardinality(Mensagens) \in Nat
    BY FilaAssumption, FS_CardinalityType
  <2>4. /\ Len(aceitas) + Cardinality(Fora(msg)) <= Cardinality(Mensagens)
        /\ estado.generation <= Cardinality(Pedidas(limpador)) + (IF encerrando THEN 1 ELSE 0)
    BY DEF IInv, Contagem
  <2>5. Len(b) + Cardinality(Fora(msg')) <= Cardinality(Mensagens)
    BY <1>12, <2>2, <2>3, <2>4
  <2> QED
    BY <1>10, <2>4, <2>5 DEF Contagem
<1>14. Entorno'
  <2>1. msg' \in [Mensagens -> {"fora", "avisando", "feita"}]
    BY <1>1 DEF IInv, Entorno
  <2>2. corte \in 0..Len(b)
    BY <1>12 DEF IInv, Entorno
  <2> QED
    BY <1>1, <1>12, <2>1, <2>2 DEF IInv, Entorno
<1> QED
  BY <1>1, <1>10, <1>11, <1>13, <1>14, ForaVale

-----------------------------------------------------------------------------
\* Clears, the dashboard and the shutdown.

\* The clears with the call c at x.
Posto(l, c, x) == [l EXCEPT ![c] = x]

LEMMA PedidasFatos ==
    ASSUME NEW l \in LimpadorTipo, NEW c \in Limpadores, NEW x \in {"espera", "pronta", "orfao", "feita"}
    PROVE  /\ Posto(l, c, x) \in LimpadorTipo /\ Posto(l, c, x)[c] = x
           /\ \A d \in Limpadores \ {c} : Posto(l, c, x)[d] = l[d]
           /\ Cardinality(Pedidas(l)) \in Nat
           /\ l[c] = "fora" => Cardinality(Pedidas(Posto(l, c, x))) = Cardinality(Pedidas(l)) + 1
           /\ l[c] # "fora" => Cardinality(Pedidas(Posto(l, c, x))) = Cardinality(Pedidas(l))
<1> DEFINE k == Posto(l, c, x)
<1>1. /\ k \in LimpadorTipo /\ k[c] = x /\ \A d \in Limpadores \ {c} : k[d] = l[d]
  BY DEF LimpadorTipo, Posto
<1> HIDE DEF k
<1>2. Pedidas(k) = Pedidas(l) \cup {c} /\ (l[c] = "fora" <=> c \notin Pedidas(l))
  BY <1>1 DEF Pedidas
<1>3. IsFiniteSet(Pedidas(l))
  BY FilaAssumption, FS_Subset DEF Pedidas
<1>4. Cardinality(Pedidas(l)) \in Nat
  BY <1>3, FS_CardinalityType
<1>5. Cardinality(Pedidas(l) \cup {c}) = IF c \in Pedidas(l) THEN Cardinality(Pedidas(l)) ELSE Cardinality(Pedidas(l)) + 1
  BY <1>3, FS_AddElement
<1> QED
  BY <1>1, <1>2, <1>4, <1>5 DEF k

\* Two calls in two places are two calls.
LEMMA DuasPedidas ==
    ASSUME NEW l \in LimpadorTipo, NEW x, NEW y, x # y, x # "fora", y # "fora",
           Alguma(l, x), Alguma(l, y)
    PROVE  ~ (Cardinality(Pedidas(l)) <= 1)
<1>1. PICK c \in Limpadores : l[c] = x
  BY DEF Alguma
<1>2. PICK d \in Limpadores : l[d] = y
  BY DEF Alguma
<1>3. {c, d} \subseteq Pedidas(l) /\ c # d
  BY <1>1, <1>2 DEF Pedidas
<1>4. IsFiniteSet(Pedidas(l)) /\ Cardinality(Pedidas(l)) \in Nat
  BY FilaAssumption, FS_Subset, FS_CardinalityType DEF Pedidas
<1>5. Cardinality({c, d}) <= Cardinality(Pedidas(l)) /\ Cardinality({c, d}) \in Nat
  BY <1>3, <1>4, FS_Subset, FS_CardinalityType
<1>6. Cardinality({c, d}) = 2
  <2>1. IsFiniteSet({c}) /\ Cardinality({c}) = 1
    BY FS_Singleton
  <2>2. Cardinality({c} \cup {d}) = Cardinality({c}) + 1
    BY <1>3, <2>1, FS_AddElement
  <2>3. {c} \cup {d} = {c, d}
    OBVIOUS
  <2> QED
    BY <2>1, <2>2, <2>3
<1> QED
  BY <1>4, <1>5, <1>6

\* The queue emptied, whatever else is done to the state.
LEMMA EsvaziadaVale ==
    ASSUME IInv
    PROVE  /\ FilaBoa(Esvaziada, aceitas) /\ Esvaziada.queue = <<>>
           /\ Esvaziada.existe = estado.existe /\ Esvaziada.accepting = estado.accepting
           /\ Esvaziada.dashboard = estado.dashboard
           /\ Esvaziada.generation = estado.generation /\ Esvaziada.orfa = estado.orfa
           /\ Devidas(Esvaziada, w) /\ Sinais(Esvaziada, w, aceitas, limpador)
           /\ Esvaziada \in EstadoTipo
<1> DEFINE n == Len(estado.queue)
           f == Descartar(estado, n)
<1>1. n \in Nat /\ n <= Len(estado.queue)
  BY Fatos
<1>2. Devidas(f, w) /\ Sinais(f, w, aceitas, limpador) /\ estado.unfinished >= Len(estado.queue)
  BY <1>1, Fatos, DescartarVale DEF IInv
<1>3. /\ FilaBoa(f, aceitas) /\ f.queue = SubSeq(estado.queue, n + 1, Len(estado.queue))
      /\ f.existe = estado.existe /\ f.accepting = estado.accepting
      /\ f.dashboard = estado.dashboard
      /\ f.generation = estado.generation /\ f.orfa = estado.orfa
  BY <1>1, <1>2, Fatos, DescartarCampos DEF IInv
<1>4. SubSeq(estado.queue, n + 1, Len(estado.queue)) = <<>>
  <2> DEFINE r == SubSeq(estado.queue, n + 1, Len(estado.queue))
  <2>1. r \in Seq(ItemTipo) /\ Len(r) = n - n
    BY <1>1, Fatos, RestoFatos
  <2>2. Len(r) = 0
    BY <1>1, <2>1
  <2> HIDE DEF r
  <2>3. r = <<>>
    BY <2>1, <2>2, FilaFatos
  <2> QED
    BY <2>3 DEF r
<1> QED
  BY <1>2, <1>3, <1>4 DEF Esvaziada, FilaBoa

\* With an empty queue, only what the worker has in hand is left to order.
LEMMA VazioVale ==
    ASSUME IInv
    PROVE  /\ Ordem(<<>>, w, tocada, tirada) /\ Inteiras(<<>>, tirada, aceitas)
<1>1. DOMAIN <<>> = {}
  OBVIOUS
<1> QED
  BY <1>1 DEF IInv, Ordem, Inteiras

\* The worker with a cancellation asked for.
LEMMA PedidoVale ==
    ASSUME IInv, NEW q, Ordem(q, w, tocada, tirada), NEW e, Devidas(e, w),
           Sinais(e, w, aceitas, limpador)
    PROVE  /\ WorkerBom(ComCancelamento, aceitas) /\ Ordem(q, ComCancelamento, tocada, tirada)
           /\ Devidas(e, ComCancelamento) /\ Sinais(e, ComCancelamento, aceitas, limpador)
           /\ ComCancelamento.pc = w.pc /\ ComCancelamento.ger = w.ger
           /\ ComCancelamento.cancelado = TRUE /\ ComCancelamento.pedido = TRUE
<1> DEFINE v == ComCancelamento
<1>1. /\ v \in WorkerTipo /\ v.pc = w.pc /\ v.ger = w.ger /\ v.item = w.item /\ v.adiantado = w.adiantado
      /\ v.esperando = w.esperando /\ v.trazida = w.trazida /\ v.cancelado = TRUE /\ v.pedido = TRUE
  BY Fatos DEF ComCancelamento, WorkerTipo
<1> HIDE DEF v
<1>2. WorkerBom(v, aceitas)
  BY <1>1 DEF IInv, WorkerBom, MaosVazias
<1>3. Ordem(q, v, tocada, tirada)
  BY <1>1 DEF Ordem
<1>4. Devidas(e, v)
  BY <1>1 DEF Devidas
<1>5. Sinais(e, v, aceitas, limpador)
  BY <1>1 DEF Sinais, Marcada
<1> QED
  BY <1>1, <1>2, <1>3, <1>4, <1>5 DEF v

LEMMA LimparFilaVale == ASSUME NEW c \in Limpadores PROVE IInv /\ LimparFila(c) => Segue
<1> SUFFICES ASSUME IInv, LimparFila(c) PROVE Segue
  OBVIOUS
<1> DEFINE f == Esvaziada
           e == [f EXCEPT !.existe = TRUE, !.accepting = FALSE, !.generation = @ + 1]
           l == Posto(limpador, c, "espera")
           v == ComCancelamento
           n == Cardinality(Pedidas(limpador))
<1>1. /\ limpador[c] = "fora" /\ w.pc # "nenhum" /\ estado' = e /\ w' = v /\ limpador' = l
      /\ corte' = Len(aceitas)
      /\ UNCHANGED <<msg, encerrando, naGuilda, sozinho, mudancas, aceitas, tocada, tirada, abandonadas>>
  BY DEF LimparFila, Posto
<1>2. /\ FilaBoa(f, aceitas) /\ f.queue = <<>> /\ f.generation = estado.generation /\ f.orfa = estado.orfa
      /\ Devidas(f, w) /\ Sinais(f, w, aceitas, limpador) /\ f \in EstadoTipo
  BY EsvaziadaVale
<1> HIDE DEF f
<1>3. /\ e \in EstadoTipo /\ e.existe = TRUE /\ e.queue = <<>> /\ e.unfinished = f.unfinished
      /\ e.pending = f.pending /\ e.accepting = FALSE /\ e.generation = estado.generation + 1
      /\ e.orfa = estado.orfa
  <2>1. f.generation + 1 \in Nat
    BY <1>2 DEF EstadoTipo
  <2> DEFINE g == f.generation + 1
  <2>2. e = [f EXCEPT !.existe = TRUE, !.accepting = FALSE, !.generation = g] /\ g \in Nat
    BY <2>1
  <2> HIDE DEF g, e
  <2>3. /\ e \in EstadoTipo /\ e.existe = TRUE /\ e.queue = f.queue /\ e.unfinished = f.unfinished
        /\ e.pending = f.pending /\ e.accepting = FALSE /\ e.generation = g /\ e.orfa = f.orfa
    BY <1>2, <2>2 DEF EstadoTipo
  <2> QED
    BY <1>2, <2>3 DEF g
<1> HIDE DEF e
<1>4. /\ l \in LimpadorTipo /\ l[c] = "espera" /\ \A d \in Limpadores \ {c} : l[d] = limpador[d]
      /\ n \in Nat /\ Cardinality(Pedidas(l)) = n + 1
  BY <1>1, Fatos, PedidasFatos
<1> HIDE DEF l
<1>5. FilaBoa(e, aceitas)
  BY <1>2, <1>3 DEF FilaBoa
<1>6. Devidas(e, w) /\ Sinais(e, w, aceitas, limpador)
  BY <1>2, <1>3 DEF Devidas, Sinais
<1>7. /\ WorkerBom(v, aceitas) /\ Ordem(<<>>, v, tocada, tirada) /\ Devidas(e, v)
      /\ Sinais(e, v, aceitas, limpador) /\ v.pc = w.pc /\ v.ger = w.ger
      /\ v.cancelado = TRUE /\ v.pedido = TRUE
  BY <1>6, VazioVale, PedidoVale
<1> HIDE DEF v
<1>8. Sinais(e, v, aceitas, l)
  <2>1. Cardinality(Pedidas(l)) <= 1 => Cardinality(Pedidas(limpador)) <= 1
    BY <1>4
  <2> QED
    BY <1>7, <2>1 DEF Sinais
<1>9. Depois(e, v, Len(aceitas))
  <2>1. w.ger <= estado.generation \/ w.pc = "criado"
    BY <1>1 DEF IInv, Depois
  <2>2. w.ger \in Nat /\ estado.generation \in Nat
    BY Fatos
  <2>3. DOMAIN e.queue = {}
    BY <1>3
  <2> QED
    BY <1>1, <1>3, <1>7, <2>1, <2>2, <2>3 DEF Depois
<1>10. Cancelamentos(e, v, l, encerrando)
  BY <1>1, <1>3, <1>4, <1>7 DEF Cancelamentos, Alguma
<1>11. Fechada(e, v, l, encerrando)
  <2> SUFFICES ASSUME Cardinality(Pedidas(l)) <= 2
               PROVE  ~ Alguma(l, "pronta") /\ ~ e.orfa
    BY <1>3 DEF Fechada
  <2>1. n <= 1 /\ n <= 2
    BY <1>4
  <2>2. ~ e.orfa
    BY <1>1, <1>3, <2>1 DEF IInv, Fechada
  <2>3. Alguma(limpador, "pronta") => Alguma(limpador, "feita")
    BY <1>1, <2>1 DEF IInv, Fechada
  <2>4. ~ Alguma(limpador, "pronta")
    BY <2>1, <2>3, Fatos, DuasPedidas
  <2>5. ~ Alguma(l, "pronta")
    BY <1>4, <2>4 DEF Alguma
  <2> QED
    BY <2>2, <2>5
<1>12. Contagem(aceitas, msg, e.generation, l, encerrando)
  <2>1. estado.generation \in Nat
    BY Fatos
  <2> QED
    BY <1>3, <1>4, <2>1 DEF IInv, Contagem
<1>13. Entorno'
  <2>1. Len(aceitas) \in Nat
    BY Fatos, LenProperties
  <2>2. Len(aceitas) \in 0..Len(aceitas)
    BY <2>1
  <2> QED
    BY <1>1, <1>4, <2>2 DEF IInv, Entorno
<1>14. Inteiras(e.queue, tirada, aceitas) /\ Historia(tocada, tirada, aceitas)
  BY <1>3, VazioVale DEF IInv
<1> QED
  BY <1>1, <1>3, <1>5, <1>7, <1>8, <1>9, <1>10, <1>11, <1>12, <1>13, <1>14, ForaVale DEF ComMao

\* A clear with no worker, or at its end: the counts of the signatures go.
LEMMA ReabertaVale ==
    ASSUME NEW f, FilaBoa(f, aceitas)
    PROVE  /\ FilaBoa(Reaberta(f), aceitas) /\ Reaberta(f).existe = f.existe
           /\ Reaberta(f).queue = f.queue /\ Reaberta(f).unfinished = f.unfinished
           /\ Reaberta(f).accepting = ~ encerrando /\ Reaberta(f).generation = f.generation
           /\ Reaberta(f).orfa = f.orfa /\ \A s \in Textos : Reaberta(f).pending[s] = 0
<1> DEFINE e == Reaberta(f)
           pn == [s \in Textos |-> 0]
<1>1. f \in EstadoTipo
  BY DEF FilaBoa
<1>2. pn \in [Textos -> Nat] /\ (~ encerrando) \in BOOLEAN /\ \A s \in Textos : pn[s] = 0
  OBVIOUS
<1>3. e = [f EXCEPT !.accepting = ~ encerrando, !.pending = pn]
  BY DEF Reaberta
<1> HIDE DEF e, pn
<1>4. /\ e \in EstadoTipo /\ e.existe = f.existe /\ e.queue = f.queue /\ e.unfinished = f.unfinished
      /\ e.accepting = ~ encerrando /\ e.generation = f.generation /\ e.orfa = f.orfa
      /\ e.pending = pn
  BY <1>1, <1>2, <1>3 DEF EstadoTipo
<1>5. FilaBoa(e, aceitas)
  BY <1>4 DEF FilaBoa
<1> QED
  BY <1>2, <1>4, <1>5 DEF e

LEMMA LimparFilaParadaVale == ASSUME NEW c \in Limpadores PROVE IInv /\ LimparFilaParada(c) => Segue
<1> SUFFICES ASSUME IInv, LimparFilaParada(c) PROVE Segue
  OBVIOUS
<1> DEFINE f == Esvaziada
           g == [f EXCEPT !.existe = TRUE, !.generation = @ + 1]
           e == Reaberta(g)
           l == Posto(limpador, c, "feita")
           n == Cardinality(Pedidas(limpador))
<1>1. /\ limpador[c] = "fora" /\ w.pc = "nenhum" /\ estado' = e /\ w' = w /\ limpador' = l
      /\ corte' = Len(aceitas)
      /\ UNCHANGED <<msg, encerrando, naGuilda, sozinho, mudancas, aceitas, tocada, tirada, abandonadas>>
  BY DEF LimparFilaParada, Posto
<1>2. /\ FilaBoa(f, aceitas) /\ f.queue = <<>> /\ f.generation = estado.generation /\ f.orfa = estado.orfa
      /\ Devidas(f, w) /\ Sinais(f, w, aceitas, limpador) /\ f \in EstadoTipo
  BY EsvaziadaVale
<1> HIDE DEF f
<1>3. /\ g \in EstadoTipo /\ g.existe = TRUE /\ g.queue = f.queue /\ g.unfinished = f.unfinished
      /\ g.generation = f.generation + 1 /\ g.orfa = f.orfa
  <2>1. f.generation + 1 \in Nat
    BY <1>2 DEF EstadoTipo
  <2> DEFINE h == f.generation + 1
  <2>2. g = [f EXCEPT !.existe = TRUE, !.generation = h] /\ h \in Nat
    BY <2>1
  <2> HIDE DEF g, h
  <2>3. /\ g \in EstadoTipo /\ g.existe = TRUE /\ g.queue = f.queue /\ g.unfinished = f.unfinished
        /\ g.generation = h /\ g.orfa = f.orfa
    BY <1>2, <2>2 DEF EstadoTipo
  <2> QED
    BY <2>3 DEF h
<1> HIDE DEF g
<1>4. FilaBoa(g, aceitas)
  BY <1>2, <1>3 DEF FilaBoa
<1>5. /\ FilaBoa(e, aceitas) /\ e.existe = TRUE /\ e.queue = <<>> /\ e.unfinished = f.unfinished
      /\ e.accepting = ~ encerrando /\ e.generation = estado.generation + 1 /\ e.orfa = estado.orfa
      /\ \A s \in Textos : e.pending[s] = 0
  BY <1>2, <1>3, <1>4, ReabertaVale
<1> HIDE DEF e
<1>6. /\ l \in LimpadorTipo /\ l[c] = "feita" /\ \A d \in Limpadores \ {c} : l[d] = limpador[d]
      /\ n \in Nat /\ Cardinality(Pedidas(l)) = n + 1
  BY <1>1, Fatos, PedidasFatos
<1> HIDE DEF l
<1>7. Devidas(e, w)
  BY <1>2, <1>5 DEF Devidas
<1>8. Sinais(e, w, aceitas, l)
  <2>1. \A s \in Textos : Cardinality(Marcas(e.queue, aceitas, s)) = 0 /\ Marcada(w, aceitas, s) = 0
    <3> SUFFICES ASSUME NEW s \in Textos
                 PROVE  Cardinality(Marcas(e.queue, aceitas, s)) = 0 /\ Marcada(w, aceitas, s) = 0
      OBVIOUS
    <3>1. e.queue \in Seq(ItemTipo) /\ e.queue = <<>>
      BY <1>5 DEF FilaBoa, EstadoTipo
    <3>2. Cardinality(Marcas(e.queue, aceitas, s)) = 0
      BY <3>1, MarcasFatos
    <3> QED
      BY <1>1, <3>2 DEF Marcada
  <2> QED
    BY <1>5, <2>1 DEF Sinais
<1>9. Depois(e, w, Len(aceitas))
  <2>1. DOMAIN e.queue = {}
    BY <1>5
  <2> QED
    BY <1>1, <2>1 DEF IInv, Depois
<1>10. ~ Alguma(l, "espera")
  BY <1>1, <1>6 DEF IInv, Cancelamentos, Alguma
<1>11. Cancelamentos(e, w, l, encerrando)
  BY <1>1, <1>10 DEF IInv, Cancelamentos, Depois
<1>12. Fechada(e, w, l, encerrando)
  <2> SUFFICES ASSUME Cardinality(Pedidas(l)) <= 2
               PROVE  Alguma(l, "feita") /\ (e.orfa => encerrando)
    BY <1>1, <1>5, <1>10 DEF Fechada
  <2>1. n <= 2
    BY <1>6
  <2> QED
    BY <1>5, <1>6, <2>1 DEF IInv, Fechada, Alguma
<1>13. Contagem(aceitas, msg, e.generation, l, encerrando)
  <2>1. estado.generation \in Nat
    BY Fatos
  <2> QED
    BY <1>5, <1>6, <2>1 DEF IInv, Contagem
<1>14. Entorno'
  <2>1. Len(aceitas) \in Nat
    BY Fatos, LenProperties
  <2>2. Len(aceitas) \in 0..Len(aceitas)
    BY <2>1
  <2> QED
    BY <1>1, <1>6, <2>2 DEF IInv, Entorno
<1>15. /\ Inteiras(e.queue, tirada, aceitas) /\ Historia(tocada, tirada, aceitas)
       /\ Ordem(e.queue, w, tocada, tirada) /\ WorkerBom(w, aceitas)
  BY <1>5, VazioVale DEF IInv
<1> QED
  BY <1>1, <1>5, <1>7, <1>8, <1>9, <1>11, <1>12, <1>13, <1>14, <1>15, ForaVale DEF ComMao

LEMMA ConcluirLimpezaVale == ASSUME NEW c \in Limpadores PROVE IInv /\ ConcluirLimpeza(c) => Segue
<1> SUFFICES ASSUME IInv, ConcluirLimpeza(c) PROVE Segue
  OBVIOUS
<1> DEFINE l == Posto(limpador, c, "feita")
           n == Cardinality(Pedidas(limpador))
<1>1. /\ limpador[c] \in {"pronta", "orfao"} /\ limpador' = l /\ w' = w
      /\ estado' = (IF limpador[c] = "pronta" THEN Reaberta(estado) ELSE estado)
      /\ UNCHANGED <<msg, encerrando, naGuilda, sozinho, mudancas, corte, aceitas,
                     tocada, tirada, abandonadas>>
  BY DEF ConcluirLimpeza, Posto
<1>2. /\ l \in LimpadorTipo /\ l[c] = "feita" /\ \A d \in Limpadores \ {c} : l[d] = limpador[d]
      /\ n \in Nat /\ Cardinality(Pedidas(l)) = n
  BY <1>1, Fatos, PedidasFatos
<1> HIDE DEF l
<1>3. /\ Alguma(l, "espera") <=> Alguma(limpador, "espera")
      /\ Alguma(l, "pronta") => Alguma(limpador, "pronta")
      /\ Alguma(l, "feita")
  BY <1>1, <1>2 DEF Alguma
<1>4. Entorno'
  BY <1>1, <1>2 DEF IInv, Entorno
<1>5. ASSUME estado' = estado PROVE Segue
  <2>1. Cancelamentos(estado, w, l, encerrando)
    BY <1>3 DEF IInv, Cancelamentos
  <2>2. Fechada(estado, w, l, encerrando)
    BY <1>2, <1>3 DEF IInv, Fechada
  <2>3. Sinais(estado, w, aceitas, l)
    BY <1>2 DEF IInv, Sinais
  <2>4. Contagem(aceitas, msg, estado.generation, l, encerrando)
    BY <1>2 DEF IInv, Contagem
  <2> QED
    BY <1>1, <1>4, <1>5, <2>1, <2>2, <2>3, <2>4, ForaVale DEF IInv, ComMao
<1>6. ASSUME limpador[c] = "pronta" PROVE Segue
  <2> DEFINE e == Reaberta(estado)
  <2>1. /\ FilaBoa(e, aceitas) /\ e.existe = estado.existe /\ e.queue = estado.queue
        /\ e.unfinished = estado.unfinished /\ e.accepting = ~ encerrando
        /\ e.generation = estado.generation /\ e.orfa = estado.orfa
        /\ \A s \in Textos : e.pending[s] = 0
    BY ReabertaVale DEF IInv
  <2> HIDE DEF e
  <2>0. Alguma(limpador, "pronta") /\ estado' = e
    BY <1>1, <1>6 DEF Alguma, e
  <2>2. Cancelamentos(e, w, l, encerrando)
    BY <1>3, <2>1 DEF IInv, Cancelamentos
  <2>3. Fechada(e, w, l, encerrando)
    <3> SUFFICES ASSUME Cardinality(Pedidas(l)) <= 2
                 PROVE  ~ Alguma(l, "espera") /\ (e.orfa => encerrando /\ w.pc = "nenhum")
      BY <1>3, <2>1 DEF Fechada
    <3>1. n <= 2
      BY <1>2
    <3> QED
      BY <1>3, <2>0, <2>1, <3>1 DEF IInv, Fechada
  <2>4. Sinais(e, w, aceitas, l)
    <3> SUFFICES ASSUME NEW s \in Textos
                 PROVE  /\ 0 <= Cardinality(Marcas(e.queue, aceitas, s)) + Marcada(w, aceitas, s)
                        /\ Cardinality(Pedidas(l)) <= 1 =>
                              0 = Cardinality(Marcas(e.queue, aceitas, s)) + Marcada(w, aceitas, s)
      BY <2>1 DEF Sinais
    <3>1. Cardinality(Marcas(e.queue, aceitas, s)) \in Nat /\ Marcada(w, aceitas, s) \in {0, 1}
      BY <2>1, Fatos, MarcasFatos DEF Marcada
    <3>2. ASSUME Cardinality(Pedidas(l)) <= 1
          PROVE  Cardinality(Marcas(e.queue, aceitas, s)) = 0 /\ Marcada(w, aceitas, s) = 0
      <4>1. n <= 1 /\ n <= 2
        BY <1>2, <3>2
      <4>2. ~ Alguma(limpador, "feita")
        BY <2>0, <4>1, Fatos, DuasPedidas
      <4>3. estado.queue = <<>> /\ w.pc = "nenhum"
        BY <2>0, <4>1, <4>2 DEF IInv, Fechada
      <4>4. Cardinality(Marcas(e.queue, aceitas, s)) = 0
        BY <2>1, <4>3, Fatos, MarcasFatos
      <4> QED
        BY <4>3, <4>4 DEF Marcada
    <3> QED
      BY <3>1, <3>2
  <2>5. Contagem(aceitas, msg, e.generation, l, encerrando)
    BY <1>2, <2>1 DEF IInv, Contagem
  <2>6. Devidas(e, w) /\ Ordem(e.queue, w, tocada, tirada) /\ Inteiras(e.queue, tirada, aceitas)
    BY <2>1 DEF IInv, Devidas
  <2>7. Depois(e, w, corte)
    BY <2>1 DEF IInv, Depois
  <2> QED
    BY <1>1, <1>4, <2>0, <2>1, <2>2, <2>3, <2>4, <2>5, <2>6, <2>7, ForaVale DEF IInv, ComMao
<1> QED
  BY <1>1, <1>5, <1>6

LEMMA MudarPainelVale == IInv /\ MudarPainel => Segue
<1> SUFFICES ASSUME IInv, MudarPainel PROVE Segue
  OBVIOUS
<1> DEFINE f == IF estado.dashboard THEN Esvaziada ELSE estado
           e == [f EXCEPT !.dashboard = ~ estado.dashboard]
<1>1. /\ estado' = e /\ mudancas' = mudancas + 1
      /\ UNCHANGED <<w, limpador, msg, encerrando, naGuilda, sozinho, corte, aceitas,
                     tocada, tirada, abandonadas>>
  BY DEF MudarPainel
<1>2. /\ FilaBoa(f, aceitas) /\ f.existe = estado.existe /\ f.accepting = estado.accepting
      /\ f.generation = estado.generation /\ f.orfa = estado.orfa
      /\ Devidas(f, w) /\ Sinais(f, w, aceitas, limpador)
      /\ f.queue = <<>> \/ f.queue = estado.queue
  BY EsvaziadaVale DEF IInv
<1>3. f \in EstadoTipo /\ (~ estado.dashboard) \in BOOLEAN
  BY <1>2 DEF FilaBoa
<1> HIDE DEF f
<1>4. /\ e \in EstadoTipo /\ e.existe = f.existe /\ e.queue = f.queue /\ e.unfinished = f.unfinished
      /\ e.pending = f.pending /\ e.accepting = f.accepting /\ e.generation = f.generation
      /\ e.orfa = f.orfa
  BY <1>3 DEF EstadoTipo
<1> HIDE DEF e
<1>5. FilaBoa(e, aceitas)
  BY <1>2, <1>4 DEF FilaBoa
<1>6. Devidas(e, w) /\ Sinais(e, w, aceitas, limpador)
  BY <1>2, <1>4 DEF Devidas, Sinais
<1>7. Ordem(e.queue, w, tocada, tirada) /\ Inteiras(e.queue, tirada, aceitas)
  BY <1>2, <1>4, VazioVale DEF IInv
<1>8. Depois(e, w, corte)
  <2>1. e.queue = <<>> => DOMAIN e.queue = {}
    OBVIOUS
  <2> QED
    BY <1>2, <1>4, <2>1 DEF IInv, Depois
<1>9. Cancelamentos(e, w, limpador, encerrando)
  BY <1>2, <1>4 DEF IInv, Cancelamentos
<1>10. Fechada(e, w, limpador, encerrando)
  BY <1>2, <1>4 DEF IInv, Fechada
<1>11. Contagem(aceitas, msg, e.generation, limpador, encerrando)
  BY <1>2, <1>4 DEF IInv
<1>12. Entorno'
  BY <1>1 DEF IInv, Entorno
<1> QED
  BY <1>1, <1>5, <1>6, <1>7, <1>8, <1>9, <1>10, <1>11, <1>12, ForaVale DEF IInv, ComMao

LEMMA EncerrarVale == IInv /\ Encerrar => Segue
<1> SUFFICES ASSUME IInv, Encerrar PROVE Segue
  OBVIOUS
<1> DEFINE g == estado.generation + 1
           e == IF estado.existe THEN [estado EXCEPT !.accepting = FALSE, !.generation = g] ELSE estado
           v == IF w.pc = "nenhum" \/ w.pedido THEN w ELSE ComCancelamento
<1>1. /\ ~ encerrando /\ encerrando' = TRUE /\ estado' = e /\ w' = v
      /\ UNCHANGED <<limpador, msg, naGuilda, sozinho, mudancas, corte, aceitas,
                     tocada, tirada, abandonadas>>
  BY DEF Encerrar
<1>2. /\ estado \in EstadoTipo /\ estado.generation \in Nat /\ g \in Nat /\ estado.existe \in BOOLEAN
      /\ w.ger \in Nat
  BY Fatos DEF EstadoTipo
<1>3. /\ e \in EstadoTipo /\ e.existe = estado.existe /\ e.queue = estado.queue
      /\ e.unfinished = estado.unfinished /\ e.pending = estado.pending /\ e.orfa = estado.orfa
      /\ e.generation = IF estado.existe THEN g ELSE estado.generation
      /\ e.accepting = IF estado.existe THEN FALSE ELSE estado.accepting
  <2> HIDE DEF g
  <2>1. CASE estado.existe
    BY <1>2, <2>1 DEF EstadoTipo
  <2>2. CASE ~ estado.existe
    BY <1>2, <2>2
  <2> QED
    BY <2>1, <2>2
<1> HIDE DEF e
<1>4. FilaBoa(e, aceitas)
  BY <1>3 DEF IInv, FilaBoa
<1>5. /\ WorkerBom(v, aceitas) /\ Ordem(e.queue, v, tocada, tirada)
      /\ Devidas(e, v) /\ Sinais(e, v, aceitas, limpador) /\ v.pc = w.pc /\ v.ger = w.ger
      /\ v = w \/ (v.cancelado = TRUE /\ v.pedido = TRUE /\ w.pc # "nenhum")
      /\ v = w => w.pc = "nenhum" \/ w.pedido
      /\ w.pc # "nenhum" => v.pedido
  <2>1. Devidas(e, w) /\ Sinais(e, w, aceitas, limpador) /\ Ordem(e.queue, w, tocada, tirada)
    BY <1>3 DEF IInv, Devidas, Sinais
  <2>2. /\ WorkerBom(ComCancelamento, aceitas) /\ Ordem(e.queue, ComCancelamento, tocada, tirada)
        /\ Devidas(e, ComCancelamento) /\ Sinais(e, ComCancelamento, aceitas, limpador)
        /\ ComCancelamento.pc = w.pc /\ ComCancelamento.ger = w.ger
        /\ ComCancelamento.cancelado = TRUE /\ ComCancelamento.pedido = TRUE
    BY <2>1, PedidoVale
  <2>3. CASE w.pc = "nenhum" \/ w.pedido
    BY <2>1, <2>3 DEF IInv
  <2>4. CASE ~ (w.pc = "nenhum" \/ w.pedido)
    <3>1. v = ComCancelamento /\ w.pc # "nenhum" /\ v # w
      BY <2>2, <2>4
    <3> HIDE DEF v
    <3> QED
      BY <2>2, <3>1
  <2> QED
    BY <2>3, <2>4
<1> HIDE DEF v
<1>6. Depois(e, v, corte)
  <2>1. CASE w.pc = "nenhum"
    <3>1. v = w
      BY <1>5, <2>1
    <3> QED
      BY <1>3, <2>1, <3>1 DEF IInv, Depois
  <2>2. CASE w.pc # "nenhum"
    <3>1. estado.existe /\ e.generation = estado.generation + 1
      BY <1>3, <2>2 DEF IInv, Cancelamentos
    <3>2. w.pc # "criado" => w.ger <= estado.generation
      BY <2>2 DEF IInv, Depois
    <3>3. w.pc # "criado" => w.ger < e.generation /\ w.ger # e.generation /\ w.ger <= e.generation
      BY <1>2, <3>1, <3>2
    <3>4. v.pc = "preparando" => v.cancelado
      <4>1. CASE v = w
        <5>1. v.pc = "preparando" => w.pedido /\ w.ger < estado.generation
          BY <1>5, <2>2, <4>1 DEF IInv, Depois
        <5> QED
          BY <1>2, <4>1, <5>1 DEF IInv, Depois
      <4> QED
        BY <1>5, <4>1
    <3>5. v.pc = "criado" /\ v.pedido => v.cancelado
      BY <1>5 DEF IInv, Depois
    <3>6. v.cancelado => v.pedido
      BY <1>5 DEF IInv, Depois
    <3> QED
      BY <1>3, <1>5, <2>2, <3>3, <3>4, <3>5, <3>6 DEF IInv, Depois
  <2> QED
    BY <2>1, <2>2
<1>7. Cancelamentos(e, v, limpador, TRUE)
  BY <1>3, <1>5 DEF IInv, Cancelamentos
<1>8. Fechada(e, v, limpador, TRUE)
  BY <1>3, <1>5 DEF IInv, Fechada
<1>9. Contagem(aceitas, msg, e.generation, limpador, TRUE)
  <2>1. estado.generation <= Cardinality(Pedidas(limpador)) /\ Cardinality(Pedidas(limpador)) \in Nat
    BY <1>1, GeracaoTipo DEF IInv, Contagem
  <2>2. e.generation <= Cardinality(Pedidas(limpador)) + 1
    BY <1>2, <1>3, <2>1
  <2> QED
    BY <2>2 DEF IInv, Contagem
<1>10. Entorno'
  BY <1>1 DEF IInv, Entorno
<1>11. /\ Inteiras(e.queue, tirada, aceitas) /\ Historia(tocada, tirada, aceitas)
  BY <1>3 DEF IInv
<1> QED
  BY <1>1, <1>4, <1>5, <1>6, <1>7, <1>8, <1>9, <1>10, <1>11, ForaVale DEF ComMao

LEMMA QuietoVale == IInv /\ (SairDaGuilda \/ FicarSozinho \/ UNCHANGED vars) => Segue
<1> SUFFICES ASSUME IInv, SairDaGuilda \/ FicarSozinho \/ UNCHANGED vars PROVE Segue
  OBVIOUS
<1>1. /\ UNCHANGED <<estado, w, limpador, msg, encerrando, mudancas, corte, aceitas, tocada, tirada,
                     abandonadas>>
      /\ naGuilda' \in {naGuilda, FALSE} /\ sozinho' \in {sozinho, TRUE}
  BY DEF SairDaGuilda, FicarSozinho, vars, ambiente
<1>2. Entorno'
  BY <1>1 DEF IInv, Entorno
<1> QED
  BY <1>1, <1>2, ForaVale DEF IInv, ComMao

-----------------------------------------------------------------------------
\* The invariant: at the beginning, and after every step.

LEMMA InicioVale == Init => IInv
<1> SUFFICES ASSUME Init PROVE IInv
  OBVIOUS
<1>1. /\ estado = Fresco /\ w = SemWorker /\ limpador = [c \in Limpadores |-> "fora"]
      /\ msg = [m \in Mensagens |-> "fora"] /\ encerrando = FALSE /\ naGuilda = TRUE /\ sozinho = FALSE
      /\ mudancas = 0 /\ aceitas = <<>> /\ tocada = Nada /\ tirada = Nada /\ corte = 0 /\ abandonadas = 0
  BY DEF Init
<1>2. /\ FilaBoa(Fresco, aceitas) /\ Devidas(Fresco, SemWorker) /\ Inteiras(Fresco.queue, tirada, aceitas)
      /\ Ordem(Fresco.queue, SemWorker, tocada, tirada) /\ Depois(Fresco, SemWorker, corte)
      /\ Sinais(Fresco, SemWorker, aceitas, limpador)
      /\ Fresco.queue = <<>> /\ Fresco.orfa = FALSE /\ Fresco.generation = 0
      /\ Fresco.accepting = TRUE
  BY <1>1, NadaFatos, FrescoVale
<1>3. WorkerBom(SemWorker, aceitas)
  BY <1>1, <1>2, NadaFatos, SemWorkerVale
<1>4. /\ limpador \in LimpadorTipo /\ \A c \in Limpadores : limpador[c] = "fora"
  BY <1>1 DEF LimpadorTipo
<1>5. Pedidas(limpador) = {} /\ \A x : x # "fora" => ~ Alguma(limpador, x)
  BY <1>4 DEF Pedidas, Alguma
<1>6. aceitas \in Seq(Mensagens) /\ Len(aceitas) = 0
  BY <1>1
<1>7. Entorno
  <2>1. msg \in [Mensagens -> {"fora", "avisando", "feita"}]
    BY <1>1
  <2>2. corte \in 0..Len(aceitas) /\ mudancas \in Nat /\ abandonadas \in Nat
    BY <1>1, <1>6
  <2>3. encerrando \in BOOLEAN /\ naGuilda \in BOOLEAN /\ sozinho \in BOOLEAN
    BY <1>1
  <2> QED
    BY <1>4, <1>6, <2>1, <2>2, <2>3 DEF Entorno
<1>8. Historia(tocada, tirada, aceitas)
  BY <1>1, NadaFatos DEF Historia, ValidoOuNada
<1>9. Cancelamentos(estado, w, limpador, encerrando)
  BY <1>1, <1>5 DEF Cancelamentos, SemWorker
<1>10. Fechada(estado, w, limpador, encerrando)
  BY <1>1, <1>2, <1>5 DEF Fechada
<1>11. Contagem(aceitas, msg, estado.generation, limpador, encerrando)
  <2>1. Fora(msg) = Mensagens
    BY <1>1 DEF Fora
  <2>2. Cardinality(Pedidas(limpador)) = 0
    BY <1>5, FS_EmptySet
  <2>3. Cardinality(Mensagens) \in Nat
    BY FilaAssumption, FS_CardinalityType
  <2> QED
    BY <1>1, <1>2, <1>6, <2>1, <2>2, <2>3 DEF Contagem
<1> QED
  BY <1>1, <1>2, <1>3, <1>7, <1>8, <1>9, <1>10, <1>11 DEF IInv

LEMMA PassoVale == IInv /\ [Next]_vars => IInv'
<1> SUFFICES ASSUME IInv, [Next]_vars PROVE Segue
  BY DEF Segue
<1>1. CASE Admissao
  BY <1>1, AceitarVale, RepetirVale, RecusarVale DEF Admissao
<1>2. CASE Limpeza
  BY <1>2, LimparFilaVale, LimparFilaParadaVale, ConcluirLimpezaVale DEF Limpeza
<1>3. CASE Trabalho
  BY <1>3, IniciarVale, PegarDaFilaVale, ReceberItemVale, DesconectarOciosoVale, MovimentosVale,
     IniciarFalaVale, LimparItemVale, DescartarAdiantadoVale, InterromperVale DEF Trabalho
<1>4. CASE EsperaVencida \/ ChegadaAdiantada \/ ChegadaOrfa
  BY <1>4, EsperaVencidaVale, ChegadaAdiantadaVale, ChegadaOrfaVale
<1>5. CASE MudarPainel \/ Encerrar \/ SairDaGuilda \/ FicarSozinho \/ UNCHANGED vars
  BY <1>5, MudarPainelVale, EncerrarVale, QuietoVale
<1> QED
  BY <1>1, <1>2, <1>3, <1>4, <1>5 DEF Next

-----------------------------------------------------------------------------
\* What a worker has in hand, counted.
LEMMA MaoFatos == NaMao <= Um(w.item) + Um(w.adiantado) + Um(w.trazida) /\ NaMao \in Nat
<1> DEFINE S(x) == IF x = Nada THEN {} ELSE {x}
           A == S(w.item)
           B == S(w.adiantado)
           C == S(w.trazida)
<1>1. ASSUME NEW x PROVE IsFiniteSet(S(x)) /\ Cardinality(S(x)) = Um(x)
  BY FS_EmptySet, FS_Singleton DEF Um
<1>2. {it \in {w.item, w.adiantado, w.trazida} : it # Nada} = (A \cup B) \cup C
  OBVIOUS
<1>3. /\ IsFiniteSet(A) /\ Cardinality(A) = Um(w.item) /\ IsFiniteSet(B) /\ Cardinality(B) = Um(w.adiantado)
      /\ IsFiniteSet(C) /\ Cardinality(C) = Um(w.trazida)
  BY <1>1
<1> HIDE DEF A, B, C
<1>4. /\ IsFiniteSet(A \cup B) /\ Cardinality(A \cup B) = Cardinality(A) + Cardinality(B) - Cardinality(A \cap B)
  BY <1>3, FS_Union
<1>5. /\ IsFiniteSet((A \cup B) \cup C)
      /\ Cardinality((A \cup B) \cup C)
            = Cardinality(A \cup B) + Cardinality(C) - Cardinality((A \cup B) \cap C)
  BY <1>3, <1>4, FS_Union
<1>6. IsFiniteSet(A \cap B) /\ IsFiniteSet((A \cup B) \cap C)
  BY <1>3, FS_Subset
<1>7. /\ Cardinality(A \cap B) \in Nat /\ Cardinality((A \cup B) \cap C) \in Nat
      /\ Cardinality(A \cup B) \in Nat /\ Cardinality((A \cup B) \cup C) \in Nat
      /\ Cardinality(A) \in Nat /\ Cardinality(B) \in Nat /\ Cardinality(C) \in Nat
  BY <1>3, <1>4, <1>5, <1>6, FS_CardinalityType
<1>8. /\ Cardinality((A \cup B) \cup C) <= Cardinality(A) + Cardinality(B) + Cardinality(C)
      /\ Cardinality((A \cup B) \cup C) \in Nat
  BY ONLY <1>4, <1>5, <1>7
<1> QED
  BY <1>2, <1>3, <1>8 DEF NaMao

LEMMA ItemFatos ==
    ASSUME IInv
    PROVE  /\ Nada \in Item /\ \A x : Valido(x, aceitas) => x \in Item
<1>1. Cardinality(Mensagens) \in Nat /\ Cardinality(Limpadores) \in Nat /\ Capacidade \in Nat
  BY FilaAssumption, FS_CardinalityType
<1>2. Nada \in Item
  BY <1>1 DEF Nada, Item
<1>3. Len(aceitas) \in Nat /\ Len(aceitas) <= Cardinality(Mensagens)
  <2>1. Len(aceitas) \in Nat
    BY Fatos, LenProperties
  <2>2. IsFiniteSet(Fora(msg))
    BY FilaAssumption, FS_Subset DEF Fora
  <2>3. Cardinality(Fora(msg)) \in Nat
    BY <2>2, FS_CardinalityType
  <2>4. Len(aceitas) + Cardinality(Fora(msg)) <= Cardinality(Mensagens)
    BY DEF IInv, Contagem
  <2> QED
    BY <1>1, <2>1, <2>3, <2>4
<1>4. ASSUME NEW x, Valido(x, aceitas) PROVE x \in Item
  <2>1. x \in ItemTipo /\ x.n \in 1..Len(aceitas) /\ x.i \in 1..Len(Texto[aceitas[x.n]])
        /\ Len(Texto[aceitas[x.n]]) <= Capacidade
    BY <1>4 DEF Valido
  <2>2. aceitas[x.n] \in Mensagens
    BY <2>1, Fatos, ElementOfSeq
  <2>3. Len(Texto[aceitas[x.n]]) \in Nat
    BY <2>2, FilaAssumption, LenProperties
  <2>4. x.n \in 0..Cardinality(Mensagens) /\ x.i \in 0..Capacidade
    BY <1>1, <1>3, <2>1, <2>3
  <2> QED
    BY <2>1, <2>4 DEF ItemTipo, Geracoes, Item
<1> QED
  BY <1>2, <1>4

\* The invariant holds in every state: the queue, the counts, the hands of the
\* worker and what clears and the shutdown wait for agree at every await.
THEOREM Invariante == Spec => []IInv
<1>1. Init => IInv
  BY InicioVale
<1>2. IInv /\ [Next]_vars => IInv'
  BY PassoVale
<1>3. QED
  BY <1>1, <1>2, PTL DEF Spec

\* task_done is owed for every item in the queue or in the worker's hands, for
\* any messages, so that no finally of the worker ever calls it once too often;
\* and the queue stays within TTS_QUEUE_MAXSIZE, so that put_nowait never raises.
THEOREM TarefasCertas == Spec => []TarefasExatas
<1>1. IInv => TarefasExatas
  <2> SUFFICES ASSUME IInv PROVE TarefasExatas
    OBVIOUS
  <2>1. Nada \in Item /\ \A x : Valido(x, aceitas) => x \in Item
    BY ItemFatos
  <2>2. Range(estado.queue) \subseteq Item /\ Len(estado.queue) <= Capacidade
    <3>1. \A k \in DOMAIN estado.queue : estado.queue[k] \in Item
      BY <2>1, Fatos
    <3> QED
      BY <3>1 DEF Range, IInv, FilaBoa
  <2>3. {w.item, w.adiantado, w.trazida, tocada, tirada} \subseteq Item
    <3>1. /\ ValidoOuNada(w.item, aceitas) /\ ValidoOuNada(w.adiantado, aceitas)
          /\ ValidoOuNada(w.trazida, aceitas) /\ ValidoOuNada(tocada, aceitas)
          /\ ValidoOuNada(tirada, aceitas)
      BY DEF IInv, WorkerBom, Historia
    <3> QED
      BY <2>1, <3>1 DEF ValidoOuNada
  <2>4. /\ estado.unfinished \in Nat /\ \A s \in Textos : estado.pending[s] \in Nat
        /\ estado.generation \in 0..(Cardinality(Limpadores) + 1)
    BY Fatos, GeracaoTipo DEF Geracoes
  <2>5. TypeOK
    BY <2>2, <2>3, <2>4, Fatos DEF TypeOK, PCs, LimpadorTipo, IInv, Entorno
  <2>6. estado.unfinished >= Len(estado.queue) + NaMao
    <3>1. /\ Um(w.item) \in {0, 1} /\ Um(w.adiantado) \in {0, 1} /\ Um(w.trazida) \in {0, 1}
      BY UmFatos
    <3>2. estado.unfinished >= Len(estado.queue) + Um(w.item) + Um(w.adiantado) + Um(w.trazida)
      BY DEF IInv, Devidas
    <3>3. Len(estado.queue) \in Nat /\ estado.unfinished \in Nat
      BY Fatos
    <3> QED
      BY <3>1, <3>2, <3>3, MaoFatos
  <2> QED
    BY <2>5, <2>6 DEF TarefasExatas
<1>2. QED
  BY <1>1, Invariante, PTL

\* No signature is counted without its item, which would refuse the text for
\* good; and as long as one clear at most was called none is forgotten, which
\* would let a duplicate in.
THEOREM AssinaturasCertas == Spec => []AssinaturasExatas
<1>1. IInv => AssinaturasExatas
  <2> SUFFICES ASSUME IInv PROVE AssinaturasExatas
    OBVIOUS
  <2>1. ASSUME NEW s PROVE Contadas(s) = Cardinality(Marcas(estado.queue, aceitas, s)) + Marcada(w, aceitas, s)
    BY DEF Contadas, Marcas, De, Sig, Marcada
  <2>2. Pedidas(limpador) = {c \in Limpadores : limpador[c] # "fora"}
    BY DEF Pedidas
  <2> QED
    BY <2>1, <2>2 DEF AssinaturasExatas, IInv, Sinais
<1>2. QED
  BY <1>1, Invariante, PTL

\* No eviction, clear, change of the dashboard or prefetch leaves a part of a
\* message in the queue on its own, whatever the lengths and the capacity.
THEOREM Inteireza == Spec => []MensagensInteiras
<1>1. IInv => MensagensInteiras
  BY DEF IInv, Inteiras, MensagensInteiras
<1>2. QED
  BY <1>1, Invariante, PTL

\* With two clears at most, a queue whose worker is waited for is closed, and a
\* prefetch left behind waits on it only in a shutdown.
THEOREM Fechamento == Spec => []FechadaEnquantoEspera
<1>1. IInv => FechadaEnquantoEspera
  BY DEF IInv, Fechada, Alguma, Pedidas, FechadaEnquantoEspera
<1>2. QED
  BY <1>1, Invariante, PTL

-----------------------------------------------------------------------------
\* A speech starts in two places, of the item in hand.
LEMMA ComecoDaFala ==
    ASSUME [Next]_vars, tocada' # tocada
    PROVE  (TocarDireto \/ Tocar) /\ tocada' = w.item
<1>1. CASE Admissao
  BY <1>1 DEF Admissao, Aceitar, Repetir, Recusar, Avisar
<1>2. CASE Limpeza
  BY <1>2 DEF Limpeza, LimparFila, LimparFilaParada, ConcluirLimpeza
<1>3. CASE Trabalho
  BY <1>3 DEF Trabalho, Iniciar, PegarDaFila, ReceberItem, DesconectarOcioso, TocarDireto, IniciarFala,
     Tocar, Concluir, LimparItem, DescartarAdiantado, Interromper, Calado
<1>4. CASE EsperaVencida \/ ChegadaAdiantada \/ ChegadaOrfa
  BY <1>4 DEF EsperaVencida, ChegadaAdiantada, ChegadaOrfa, Calado
<1>5. CASE MudarPainel \/ Encerrar \/ SairDaGuilda \/ FicarSozinho \/ UNCHANGED vars
  BY <1>5 DEF MudarPainel, Encerrar, SairDaGuilda, FicarSozinho, vars
<1> QED
  BY <1>1, <1>2, <1>3, <1>4, <1>5 DEF Next

\* Speech starts in the order in which messages were accepted and their parts
\* follow, each part once, whatever is prefetched, evicted, cleared or interrupted.
THEOREM Ordenada == Spec => EmOrdem
<1> DEFINE A == tocada' # tocada =>
          \/ tocada.n < tocada'.n
          \/ tocada.n = tocada'.n /\ tocada.i < tocada'.i
<1>1. IInv /\ [Next]_vars => [A]_vars
  <2> SUFFICES ASSUME IInv, [Next]_vars, tocada' # tocada PROVE Menor(tocada, tocada')
    BY DEF Menor
  <2>1. tocada' = w.item /\ w.pc \in {"preparando", "conectando"}
    BY ComecoDaFala DEF TocarDireto, Tocar
  <2> QED
    BY <2>1 DEF IInv, Ordem
<1>2. QED
  BY <1>1, Invariante, PTL DEF Spec, EmOrdem

\* What a clear erased is never spoken: an item that the worker had in hand when
\* the clear began is of a generation before, and each way to the speech looks.
THEOREM ApagadaCalada == Spec => NaoTocaApagada
<1> DEFINE A == tocada' # tocada => tocada'.n > corte
<1>1. IInv /\ [Next]_vars => [A]_vars
  <2> SUFFICES ASSUME IInv, [Next]_vars, tocada' # tocada PROVE tocada'.n > corte
    OBVIOUS
  <2>1. tocada' = w.item /\ (TocarDireto \/ Tocar)
    BY ComecoDaFala
  <2>2. w.pc \in {"preparando", "conectando"} /\ w.item # Nada
    BY <2>1 DEF TocarDireto, Tocar, IInv, WorkerBom
  <2>3. w.ger = estado.generation
    BY <2>1 DEF TocarDireto, Tocar, IInv, Depois
  <2> QED
    BY <2>1, <2>2, <2>3 DEF IInv, Depois
<1>2. QED
  BY <1>1, Invariante, PTL DEF Spec, NaoTocaApagada
=============================================================================
