---------------------- MODULE PrioritySemaphoreProofs ----------------------
(* The slots of the priority semaphore are conserved for any number of tasks *)
(* and of slots, across every cancellation.                                  *)
EXTENDS PrioritySemaphore, SequenceTheorems, FiniteSetTheorems, TLAPS

Estados == {"nenhum", "pendente", "concedido", "cancelado"}

\* Taking or removing elements of a queue leaves a queue.
LEMMA FilasTipo ==
    ASSUME NEW fila \in Seq(Tarefas)
    PROVE  /\ \A i \in 1..Len(fila) : fila[i] \in Tarefas
                                      /\ Depois(fila, i) \in Seq(Tarefas)
           /\ \A t : Remover(fila, t) \in Seq(Tarefas)
           /\ fila = <<>> => \A t : Remover(fila, t) = <<>>
<1>1. \A i \in 1..Len(fila) : fila[i] \in Tarefas
  OBVIOUS
<1>2. ASSUME NEW i \in 1..Len(fila)
      PROVE  Depois(fila, i) \in Seq(Tarefas)
  <2>1. \A k \in (i + 1)..Len(fila) : k \in 1..Len(fila)
    OBVIOUS
  <2>2. QED
    BY <2>1, SubSeqProperties DEF Depois
<1>3. ASSUME NEW t
      PROVE  Remover(fila, t) \in Seq(Tarefas)
  <2>1. CASE \E i \in 1..Len(fila) : fila[i] = t
    <3>1. PICK i \in 1..Len(fila) : Remover(fila, t) = RemoveAt(fila, i)
      BY <2>1 DEF Remover
    <3>2. SubSeq(fila, 1, i - 1) \in Seq(Tarefas)
      BY SubSeqProperties
    <3>3. SubSeq(fila, i + 1, Len(fila)) \in Seq(Tarefas)
      BY <1>2 DEF Depois
    <3>4. QED
      BY <3>1, <3>2, <3>3, ConcatProperties DEF RemoveAt
  <2>2. CASE ~ \E i \in 1..Len(fila) : fila[i] = t
    BY <2>2 DEF Remover
  <2>3. QED
    BY <2>1, <2>2
<1>4. ASSUME fila = <<>>, NEW t
      PROVE  Remover(fila, t) = <<>>
  BY <1>4 DEF Remover
<1>5. QED
  BY <1>1, <1>2, <1>3, <1>4

\* A concatenation holds the elements of both its parts.
LEMMA ElementosDaUniao ==
    ASSUME NEW a \in Seq(Tarefas), NEW b \in Seq(Tarefas)
    PROVE  /\ \A j \in 1..Len(a) : Na(a \o b, a[j])
           /\ \A j \in 1..Len(b) : Na(a \o b, b[j])
<1>1. /\ Len(a) \in Nat /\ Len(b) \in Nat
      /\ Len(a \o b) = Len(a) + Len(b)
      /\ \A j \in 1..(Len(a) + Len(b)) :
           (a \o b)[j] = IF j <= Len(a) THEN a[j] ELSE b[j - Len(a)]
  BY ConcatProperties
<1>2. ASSUME NEW j \in 1..Len(a)
      PROVE  Na(a \o b, a[j])
  <2>1. j \in 1..(Len(a) + Len(b)) /\ j <= Len(a)
    BY <1>1
  <2>2. (a \o b)[j] = a[j]
    BY <1>1, <2>1
  <2>3. QED
    BY <1>1, <2>1, <2>2 DEF Na
<1>3. ASSUME NEW j \in 1..Len(b)
      PROVE  Na(a \o b, b[j])
  <2>1. /\ j + Len(a) \in 1..(Len(a) + Len(b)) /\ ~(j + Len(a) <= Len(a))
        /\ (j + Len(a)) - Len(a) = j
    BY <1>1
  <2>2. (a \o b)[j + Len(a)] = b[(j + Len(a)) - Len(a)]
    BY <1>1, <2>1
  <2>3. (a \o b)[j + Len(a)] = b[j]
    BY <2>1, <2>2
  <2>4. QED
    BY <1>1, <2>1, <2>3 DEF Na
<1>4. QED
  BY <1>2, <1>3

\* Removing t keeps every other task queued.
LEMMA RemoverMantem ==
    ASSUME NEW fila \in Seq(Tarefas), NEW t, NEW u, u # t, Na(fila, u)
    PROVE  Na(Remover(fila, t), u)
<1>1. CASE ~ \E i \in 1..Len(fila) : fila[i] = t
  BY <1>1 DEF Remover
<1>2. CASE \E i \in 1..Len(fila) : fila[i] = t
  <2>1. PICK i \in 1..Len(fila) :
               fila[i] = t /\ Remover(fila, t) = RemoveAt(fila, i)
    BY <1>2 DEF Remover
  <2>2. PICK k \in 1..Len(fila) : fila[k] = u
    BY DEF Na
  <2>3. Len(fila) \in Nat /\ k # i
    BY <2>1, <2>2
  <2>4. PICK a \in Seq(Tarefas) : a = SubSeq(fila, 1, i - 1)
    <3>1. SubSeq(fila, 1, i - 1) \in Seq(Tarefas)
      BY SubSeqProperties
    <3>2. QED
      BY <3>1
  <2>5. Len(a) = i - 1 /\ \A j \in 1..(i - 1) : a[j] = fila[j]
    BY <2>3, <2>4, SubSeqProperties
  <2>6. \A j \in (i + 1)..Len(fila) : j \in 1..Len(fila)
    BY <2>3
  <2>7. PICK b \in Seq(Tarefas) : b = SubSeq(fila, i + 1, Len(fila))
    <3>1. SubSeq(fila, i + 1, Len(fila)) \in Seq(Tarefas)
      BY <2>3, <2>6, SubSeqProperties
    <3>2. QED
      BY <3>1
  <2>8. /\ Len(b) = Len(fila) - i
        /\ \A j \in 1..(Len(fila) - i) : b[j] = fila[(i + 1) + j - 1]
    BY <2>3, <2>6, <2>7, SubSeqProperties
  <2>9. Remover(fila, t) = a \o b
    BY <2>1, <2>4, <2>7 DEF RemoveAt
  <2>10. CASE k < i
    <3>1. k \in 1..Len(a) /\ a[k] = u
      BY <2>2, <2>3, <2>5, <2>10
    <3>2. QED
      BY <2>9, <3>1, ElementosDaUniao
  <2>11. CASE k > i
    <3>1. k - i \in 1..(Len(fila) - i) /\ (i + 1) + (k - i) - 1 = k
      BY <2>3, <2>11
    <3>2. k - i \in 1..Len(b) /\ b[k - i] = u
      BY <2>2, <2>8, <3>1
    <3>3. QED
      BY <2>9, <3>2, ElementosDaUniao
  <2>12. k < i \/ k > i
    <3>1. \A x, y \in Int : x # y => x < y \/ x > y
      OBVIOUS
    <3>2. k \in Int /\ i \in Int
      BY <2>3
    <3>3. QED
      BY <2>3, <3>1, <3>2
  <2>13. QED
    BY <2>10, <2>11, <2>12
<1>3. QED
  BY <1>1, <1>2

\* What is behind the taken position stays queued.
LEMMA DepoisMantem ==
    ASSUME NEW fila \in Seq(Tarefas), NEW i \in 1..Len(fila),
           NEW k \in 1..Len(fila), k > i
    PROVE  Na(Depois(fila, i), fila[k])
<1> DEFINE n == Len(fila)
<1>1. n \in Nat
  OBVIOUS
<1>2. \A j \in (i + 1)..n : j \in 1..n
  BY <1>1
<1>3. Len(SubSeq(fila, i + 1, n)) = n - i
  BY <1>1, <1>2, SubSeqProperties
<1>4. \A j \in 1..(n - i) : SubSeq(fila, i + 1, n)[j] = fila[(i + 1) + j - 1]
  BY <1>1, <1>2, SubSeqProperties
<1>5. k - i \in 1..(n - i) /\ (i + 1) + (k - i) - 1 = k
  BY <1>1
<1>6. QED
  BY <1>3, <1>4, <1>5 DEF Na, Depois

\* Occupied slots are counted: a finite set of tasks.
LEMMA OcupantesFinitos ==
    ASSUME NEW S \in SUBSET Tarefas
    PROVE  IsFiniteSet(S) /\ Cardinality(S) \in Nat
BY TarefasFinitas, FS_Subset, FS_CardinalityType

LEMMA OcupantesContidos == Ocupantes \in SUBSET Tarefas /\ Ocupantes' \in SUBSET Tarefas
BY DEF Ocupantes

LEMMA Contagem ==
    ASSUME NEW S \in SUBSET Tarefas, NEW t \in Tarefas, NEW u \in Tarefas
    PROVE  /\ t \in S => Cardinality(S \ {t}) = Cardinality(S) - 1
           /\ u \notin S => Cardinality(S \cup {u}) = Cardinality(S) + 1
           /\ t \in S /\ u \notin S =>
                Cardinality((S \ {t}) \cup {u}) = Cardinality(S)
<1>1. IsFiniteSet(S) /\ Cardinality(S) \in Nat
  BY OcupantesFinitos
<1>2. t \in S => Cardinality(S \ {t}) = Cardinality(S) - 1
  BY <1>1, FS_RemoveElement
<1>3. u \notin S => Cardinality(S \cup {u}) = Cardinality(S) + 1
  BY <1>1, FS_AddElement
<1>4. ASSUME t \in S, u \notin S
      PROVE  Cardinality((S \ {t}) \cup {u}) = Cardinality(S)
  <2>1. IsFiniteSet(S \ {t}) /\ u \notin S \ {t}
    BY <1>1, <1>4, FS_RemoveElement
  <2>2. Cardinality((S \ {t}) \cup {u}) = Cardinality(S \ {t}) + 1
    BY <2>1, FS_AddElement
  <2>3. QED
    BY <1>1, <1>2, <1>4, <2>2
<1>5. QED
  BY <1>2, <1>3, <1>4

\* release() either hands the slot to one live waiter or puts it back over two
\* empty queues.
LEMMA ReleaseEfeito ==
    ASSUME TypeOK, EsperandoNaFila, NEW f, Release(f),
           \A w \in Tarefas : f[w] = "pendente" => futuro[w] = "pendente",
           f \in [Tarefas -> Estados], UNCHANGED emFrente
    PROVE  /\ frente' \in Seq(Tarefas) /\ fundo' \in Seq(Tarefas)
           /\ sequencia' \in 0..Limite /\ preteridas' \in Nat
           /\ EsperandoNaFila'
           /\ \/ /\ valor' = valor
                 /\ frente # <<>> \/ fundo # <<>>
                 /\ \E u \in Tarefas : /\ futuro[u] = "pendente"
                                      /\ futuro' = [f EXCEPT ![u] = "concedido"]
              \/ /\ valor' = valor + 1 /\ futuro' = f
                 /\ frente' = <<>> /\ fundo' = <<>>
<1>1. /\ frente \in Seq(Tarefas) /\ fundo \in Seq(Tarefas)
      /\ sequencia \in 0..Limite /\ preteridas \in Nat
  BY DEF TypeOK
<1>2. CASE ConcederFrente(f)
  <2>1. PICK i \in 1..Len(frente) :
           /\ PrimeiroVivo(frente, i)
           /\ futuro' = [f EXCEPT ![frente[i]] = "concedido"]
           /\ frente' = Depois(frente, i)
    BY <1>2 DEF ConcederFrente
  <2>2. frente[i] \in Tarefas /\ frente' \in Seq(Tarefas) /\ frente # <<>>
    BY <1>1, <2>1, FilasTipo
  <2>3. futuro[frente[i]] = "pendente"
    BY <2>1 DEF PrimeiroVivo, Vivos
  <2>4. fundo' \in Seq(Tarefas)
    BY <1>1, <1>2 DEF ConcederFrente
  <2>5. /\ valor' = valor /\ sequencia' \in 0..Limite /\ preteridas' \in Nat
    BY <1>1, <1>2 DEF ConcederFrente, Limite
  <2>6. ASSUME NEW w \in Tarefas, futuro'[w] = "pendente"
        PROVE  IF emFrente'[w] THEN Na(frente', w) ELSE Na(fundo', w)
    <3>1. w # frente[i] /\ futuro[w] = "pendente"
      BY <2>1, <2>2, <2>6
    <3>2. CASE emFrente[w]
      <4>1. PICK k \in 1..Len(frente) : frente[k] = w
        BY <3>1, <3>2 DEF EsperandoNaFila, Na
      <4>2. k > i
        BY <2>1, <3>1, <4>1 DEF PrimeiroVivo, Vivos
      <4>3. QED
        BY <1>1, <2>1, <3>2, <4>1, <4>2, DepoisMantem
    <3>3. CASE ~emFrente[w]
      <4>1. PICK k \in 1..Len(fundo) : fundo[k] = w
        BY <3>1, <3>3 DEF EsperandoNaFila, Na
      <4>2. Vivos(fundo) # {}
        BY <3>1, <4>1 DEF Vivos
      <4>3. fundo' = fundo
        BY <1>2, <4>2 DEF ConcederFrente
      <4>4. QED
        BY <3>3, <4>1, <4>3 DEF Na
    <3>4. QED
      BY <3>2, <3>3
  <2>7. EsperandoNaFila'
    BY <2>6 DEF EsperandoNaFila
  <2>8. QED
    BY <2>1, <2>2, <2>3, <2>4, <2>5, <2>7
<1>3. CASE ConcederFundo(f)
  <2>1. PICK i \in 1..Len(fundo) :
           /\ PrimeiroVivo(fundo, i)
           /\ futuro' = [f EXCEPT ![fundo[i]] = "concedido"]
           /\ fundo' = Depois(fundo, i)
    BY <1>3 DEF ConcederFundo
  <2>2. fundo[i] \in Tarefas /\ fundo' \in Seq(Tarefas) /\ fundo # <<>>
    BY <1>1, <2>1, FilasTipo
  <2>3. futuro[fundo[i]] = "pendente"
    BY <2>1 DEF PrimeiroVivo, Vivos
  <2>4. frente' \in Seq(Tarefas)
    BY <1>1, <1>3 DEF ConcederFundo
  <2>5. /\ valor' = valor /\ sequencia' \in 0..Limite /\ preteridas' \in Nat
    BY <1>1, <1>3 DEF ConcederFundo, Limite
  <2>6. ASSUME NEW w \in Tarefas, futuro'[w] = "pendente"
        PROVE  IF emFrente'[w] THEN Na(frente', w) ELSE Na(fundo', w)
    <3>1. w # fundo[i] /\ futuro[w] = "pendente"
      BY <2>1, <2>2, <2>6
    <3>2. CASE ~emFrente[w]
      <4>1. PICK k \in 1..Len(fundo) : fundo[k] = w
        BY <3>1, <3>2 DEF EsperandoNaFila, Na
      <4>2. k > i
        BY <2>1, <3>1, <4>1 DEF PrimeiroVivo, Vivos
      <4>3. QED
        BY <1>1, <2>1, <3>2, <4>1, <4>2, DepoisMantem
    <3>3. CASE emFrente[w]
      <4>1. PICK k \in 1..Len(frente) : frente[k] = w
        BY <3>1, <3>3 DEF EsperandoNaFila, Na
      <4>2. Vivos(frente) # {}
        BY <3>1, <4>1 DEF Vivos
      <4>3. frente' = frente
        BY <1>3, <4>2 DEF ConcederFundo
      <4>4. QED
        BY <3>3, <4>1, <4>3 DEF Na
    <3>4. QED
      BY <3>2, <3>3
  <2>7. EsperandoNaFila'
    BY <2>6 DEF EsperandoNaFila
  <2>8. QED
    BY <2>1, <2>2, <2>3, <2>4, <2>5, <2>7
<1>4. CASE Devolver(f)
  <2>1. ASSUME NEW w \in Tarefas, futuro'[w] = "pendente"
        PROVE  FALSE
    <3>1. futuro[w] = "pendente"
      BY <1>4, <2>1 DEF Devolver
    <3>2. Na(frente, w) \/ Na(fundo, w)
      BY <3>1 DEF EsperandoNaFila
    <3>3. QED
      BY <1>4, <3>1, <3>2 DEF Devolver, Vivos, Na
  <2>2. EsperandoNaFila'
    BY <2>1 DEF EsperandoNaFila
  <2>3. QED
    BY <1>1, <1>4, <2>2 DEF Devolver
<1>5. QED
  BY <1>2, <1>3, <1>4 DEF Release

\* A slot that changes hands: t gives up an occupied slot, calls release() and
\* is outside the semaphore again.
LEMMA TrocaSegura ==
    ASSUME IInv, NEW t \in Tarefas, t \in Ocupantes,
           NEW f \in [Tarefas -> Estados], f = [futuro EXCEPT ![t] = "nenhum"],
           Release(f), pc' = [pc EXCEPT ![t] = "fora"],
           cancelar' = [cancelar EXCEPT ![t] = FALSE], UNCHANGED emFrente
    PROVE  IInv'
<1> USE DEF Estados
<1>1. /\ frente' \in Seq(Tarefas) /\ fundo' \in Seq(Tarefas)
      /\ sequencia' \in 0..Limite /\ preteridas' \in Nat
      /\ EsperandoNaFila'
      /\ \/ /\ valor' = valor
            /\ frente # <<>> \/ fundo # <<>>
            /\ \E u \in Tarefas : /\ futuro[u] = "pendente"
                                 /\ futuro' = [f EXCEPT ![u] = "concedido"]
         \/ /\ valor' = valor + 1 /\ futuro' = f
            /\ frente' = <<>> /\ fundo' = <<>>
  <2>1. \A w \in Tarefas : f[w] = "pendente" => futuro[w] = "pendente"
    BY DEF IInv, TypeOK
  <2>2. QED
    BY <2>1, ReleaseEfeito DEF IInv
<1>2. /\ pc \in [Tarefas -> {"fora", "espera", "dentro"}] /\ valor \in 0..Vagas
      /\ futuro \in [Tarefas -> Estados] /\ cancelar \in [Tarefas -> BOOLEAN]
      /\ emFrente \in [Tarefas -> BOOLEAN]
  BY DEF IInv, TypeOK
<1>3. /\ valor + Cardinality(Ocupantes) = Vagas
      /\ Cardinality(Ocupantes) \in Nat /\ Ocupantes \in SUBSET Tarefas
  BY OcupantesFinitos, OcupantesContidos DEF IInv, VagasConservadas
<1>4. CASE valor' = valor + 1 /\ futuro' = f /\ frente' = <<>> /\ fundo' = <<>>
  <2>1. Ocupantes' = Ocupantes \ {t}
    BY <1>2, <1>4 DEF Ocupantes
  <2>2. Cardinality(Ocupantes') = Cardinality(Ocupantes) - 1
    BY <1>3, <2>1, Contagem
  <2>3. Cardinality(Ocupantes') \in Nat
    BY OcupantesFinitos, OcupantesContidos
  <2>4. valor' + Cardinality(Ocupantes') = Vagas /\ valor' \in 0..Vagas
    BY <1>2, <1>3, <1>4, <2>2, <2>3, VagasNat
  <2>5. TypeOK'
    BY <1>1, <1>2, <1>4, <2>4 DEF TypeOK
  <2>6. FuturosCoerentes'
    BY <1>2, <1>4 DEF IInv, FuturosCoerentes
  <2>7. QED
    BY <1>1, <1>4, <2>4, <2>5, <2>6 DEF IInv, VagasConservadas, SemVagaOciosa
<1>5. ASSUME valor' = valor, frente # <<>> \/ fundo # <<>>, NEW u \in Tarefas,
             futuro[u] = "pendente", futuro' = [f EXCEPT ![u] = "concedido"]
      PROVE  IInv'
  <2>1. u # t /\ u \notin Ocupantes /\ pc[u] = "espera"
    BY <1>2, <1>5 DEF IInv, FuturosCoerentes, Ocupantes
  <2>2. Ocupantes' = (Ocupantes \ {t}) \cup {u}
    BY <1>2, <1>5, <2>1 DEF Ocupantes
  <2>3. Cardinality(Ocupantes') = Cardinality(Ocupantes)
    BY <1>3, <2>1, <2>2, Contagem
  <2>4. TypeOK'
    BY <1>1, <1>2, <1>5 DEF TypeOK
  <2>5. FuturosCoerentes'
    BY <1>2, <1>5, <2>1 DEF IInv, FuturosCoerentes
  <2>6. valor = 0
    BY <1>2, <1>5 DEF IInv, SemVagaOciosa
  <2>7. QED
    BY <1>1, <1>3, <1>5, <2>3, <2>4, <2>5, <2>6
       DEF IInv, VagasConservadas, SemVagaOciosa
<1>6. QED
  BY <1>1, <1>4, <1>5

\* Steps inside the queues, which spend and free no slot.
LEMMA FilaSegura ==
    ASSUME IInv, NEW t \in Tarefas,
           \/ \E naFrente \in BOOLEAN : AcquireEspera(t, naFrente)
           \/ Promote(t) \/ Cancelar(t) \/ Entrar(t) \/ SairDaFila(t)
    PROVE  IInv'
<1>1. frente \in Seq(Tarefas) /\ fundo \in Seq(Tarefas)
  BY DEF IInv, TypeOK
<1>2. Ocupantes' = Ocupantes /\ UNCHANGED valor => VagasConservadas'
  BY DEF IInv, VagasConservadas
<1>3. ASSUME NEW naFrente \in BOOLEAN, AcquireEspera(t, naFrente)
      PROVE  IInv'
  <2>1. frente' \in Seq(Tarefas) /\ fundo' \in Seq(Tarefas)
    BY <1>1, <1>3, AppendProperties DEF AcquireEspera
  <2>2. TypeOK'
    BY <1>3, <2>1 DEF AcquireEspera, IInv, TypeOK
  <2>3. FuturosCoerentes' /\ Ocupantes' = Ocupantes
    BY <1>3 DEF AcquireEspera, IInv, TypeOK, FuturosCoerentes, Ocupantes
  <2>4. valor = 0
    BY <1>3 DEF AcquireEspera, IInv, TypeOK, SemVagaOciosa
  <2>5. EsperandoNaFila'
    <3>1. \A w : Na(frente, w) => Na(frente', w)
      BY <1>1, <1>3, AppendProperties DEF AcquireEspera, Na
    <3>2. \A w : Na(fundo, w) => Na(fundo', w)
      BY <1>1, <1>3, AppendProperties DEF AcquireEspera, Na
    <3>3. IF naFrente THEN Na(frente', t) ELSE Na(fundo', t)
      BY <1>1, <1>3, AppendProperties DEF AcquireEspera, Na
    <3>4. /\ futuro' = [futuro EXCEPT ![t] = "pendente"]
          /\ emFrente' = [emFrente EXCEPT ![t] = naFrente]
      BY <1>3 DEF AcquireEspera
    <3>5. QED
      BY <3>1, <3>2, <3>3, <3>4 DEF IInv, TypeOK, EsperandoNaFila
  <2>6. QED
    BY <1>2, <1>3, <2>2, <2>3, <2>4, <2>5
       DEF AcquireEspera, IInv, SemVagaOciosa
<1>4. CASE Promote(t)
  <2>1. frente' \in Seq(Tarefas) /\ fundo' \in Seq(Tarefas)
    BY <1>1, <1>4, AppendProperties, FilasTipo DEF Promote
  <2>2. TypeOK'
    BY <1>4, <2>1 DEF Promote, IInv, TypeOK
  <2>3. FuturosCoerentes' /\ Ocupantes' = Ocupantes
    BY <1>4 DEF Promote, IInv, TypeOK, FuturosCoerentes, Ocupantes
  <2>4. valor = 0
    <3>1. Na(fundo, t)
      BY <1>4 DEF Promote, IInv, EsperandoNaFila
    <3>2. fundo # <<>>
      BY <3>1 DEF Na
    <3>3. QED
      BY <3>2 DEF IInv, TypeOK, SemVagaOciosa
  <2>5. EsperandoNaFila'
    <3>1. \A w : Na(frente, w) => Na(frente', w)
      BY <1>1, <1>4, AppendProperties DEF Promote, Na
    <3>2. Na(frente', t)
      BY <1>1, <1>4, AppendProperties DEF Promote, Na
    <3>3. \A w : w # t /\ Na(fundo, w) => Na(fundo', w)
      BY <1>1, <1>4, RemoverMantem DEF Promote
    <3>4. futuro' = futuro /\ emFrente' = [emFrente EXCEPT ![t] = TRUE]
      BY <1>4 DEF Promote
    <3>5. QED
      BY <3>1, <3>2, <3>3, <3>4 DEF IInv, TypeOK, EsperandoNaFila
  <2>6. QED
    BY <1>2, <1>4, <2>2, <2>3, <2>4, <2>5 DEF Promote, IInv, SemVagaOciosa
<1>5. CASE Cancelar(t)
  <2>1. TypeOK'
    BY <1>5 DEF Cancelar, IInv, TypeOK
  <2>2. FuturosCoerentes' /\ Ocupantes' = Ocupantes
    BY <1>5 DEF Cancelar, IInv, TypeOK, FuturosCoerentes, Ocupantes
  <2>3. EsperandoNaFila'
    BY <1>5 DEF Cancelar, IInv, TypeOK, EsperandoNaFila
  <2>4. QED
    BY <1>2, <1>5, <2>1, <2>2, <2>3 DEF Cancelar, IInv, SemVagaOciosa
<1>6. CASE Entrar(t)
  <2>1. TypeOK'
    BY <1>6 DEF Entrar, IInv, TypeOK
  <2>2. FuturosCoerentes' /\ Ocupantes' = Ocupantes
    BY <1>6 DEF Entrar, IInv, TypeOK, FuturosCoerentes, Ocupantes
  <2>3. EsperandoNaFila'
    BY <1>6 DEF Entrar, IInv, TypeOK, EsperandoNaFila
  <2>4. QED
    BY <1>2, <1>6, <2>1, <2>2, <2>3 DEF Entrar, IInv, SemVagaOciosa
<1>7. CASE SairDaFila(t)
  <2>1. frente' \in Seq(Tarefas) /\ fundo' \in Seq(Tarefas)
    BY <1>1, <1>7, FilasTipo DEF SairDaFila
  <2>2. TypeOK'
    BY <1>7, <2>1 DEF SairDaFila, IInv, TypeOK
  <2>3. FuturosCoerentes' /\ Ocupantes' = Ocupantes
    BY <1>7 DEF SairDaFila, IInv, TypeOK, FuturosCoerentes, Ocupantes
  <2>4. SemVagaOciosa'
    BY <1>1, <1>7, FilasTipo DEF SairDaFila, IInv, SemVagaOciosa
  <2>5. EsperandoNaFila'
    <3>1. \A w : w # t /\ Na(frente, w) => Na(frente', w)
      BY <1>1, <1>7, RemoverMantem DEF SairDaFila
    <3>2. \A w : w # t /\ Na(fundo, w) => Na(fundo', w)
      BY <1>1, <1>7, RemoverMantem DEF SairDaFila
    <3>3. futuro' = [futuro EXCEPT ![t] = "nenhum"] /\ emFrente' = emFrente
      BY <1>7 DEF SairDaFila
    <3>4. QED
      BY <3>1, <3>2, <3>3 DEF IInv, TypeOK, EsperandoNaFila
  <2>6. QED
    BY <1>2, <1>7, <2>2, <2>3, <2>4, <2>5 DEF SairDaFila, IInv
<1>8. QED
  BY <1>3, <1>4, <1>5, <1>6, <1>7

LEMMA InitSeguro == Init => IInv
<1> SUFFICES ASSUME Init PROVE IInv
  OBVIOUS
<1>1. TypeOK
  BY VagasNat DEF Init, TypeOK, Limite
<1>2. FuturosCoerentes /\ EsperandoNaFila /\ SemVagaOciosa
  BY DEF Init, FuturosCoerentes, EsperandoNaFila, SemVagaOciosa
<1>3. Ocupantes = {}
  BY DEF Init, Ocupantes
<1>4. VagasConservadas
  BY <1>3, VagasNat, FS_EmptySet DEF Init, VagasConservadas
<1>5. QED
  BY <1>1, <1>2, <1>4 DEF IInv

LEMMA PassoSeguro == IInv /\ [Next]_vars => IInv'
<1> SUFFICES ASSUME IInv, [Next]_vars PROVE IInv'
  OBVIOUS
<1>1. CASE UNCHANGED vars
  BY <1>1 DEF vars, IInv, TypeOK, FuturosCoerentes, VagasConservadas,
              SemVagaOciosa, Ocupantes, EsperandoNaFila, Na
<1>2. ASSUME NEW t \in Tarefas, AcquireImediato(t)
      PROVE  IInv'
  <2>1. /\ t \notin Ocupantes /\ Ocupantes' = Ocupantes \cup {t}
        /\ Ocupantes \in SUBSET Tarefas
    BY <1>2 DEF AcquireImediato, IInv, TypeOK, FuturosCoerentes, Ocupantes
  <2>2. /\ Cardinality(Ocupantes') = Cardinality(Ocupantes) + 1
        /\ Cardinality(Ocupantes) \in Nat
    BY <2>1, Contagem, OcupantesFinitos
  <2>3. valor' = valor - 1 /\ valor \in 0..Vagas /\ valor > 0
    BY <1>2 DEF AcquireImediato, IInv, TypeOK
  <2>4. VagasConservadas'
    <3>1. \A a, b, c, d, e \in Nat :
            a + b = c /\ a > 0 /\ d = a - 1 /\ e = b + 1 => d + e = c
      OBVIOUS
    <3>2. valor' \in Nat /\ valor \in Nat /\ Cardinality(Ocupantes') \in Nat
      BY <2>2, <2>3, VagasNat
    <3>3. valor + Cardinality(Ocupantes) = Vagas
      BY DEF IInv, VagasConservadas
    <3>4. valor' + Cardinality(Ocupantes') = Vagas
      BY <2>2, <2>3, <3>1, <3>2, <3>3, VagasNat
    <3>5. QED
      BY <3>4 DEF VagasConservadas
  <2>5. TypeOK' /\ FuturosCoerentes' /\ EsperandoNaFila' /\ SemVagaOciosa'
    <3>1. valor' \in 0..Vagas
      BY <2>3, VagasNat
    <3>2. pc' \in [Tarefas -> {"fora", "espera", "dentro"}]
      BY <1>2 DEF AcquireImediato, IInv, TypeOK
    <3>3. TypeOK'
      BY <1>2, <3>1, <3>2 DEF AcquireImediato, IInv, TypeOK
    <3>4. FuturosCoerentes'
      BY <1>2 DEF AcquireImediato, IInv, TypeOK, FuturosCoerentes
    <3>5. EsperandoNaFila' /\ SemVagaOciosa'
      BY <1>2 DEF AcquireImediato, IInv, EsperandoNaFila, Na, SemVagaOciosa
    <3>6. QED
      BY <3>3, <3>4, <3>5
  <2>6. QED
    BY <2>4, <2>5 DEF IInv
<1>3. ASSUME NEW t \in Tarefas, Repassar(t) \/ Liberar(t)
      PROVE  IInv'
  <2> DEFINE f == [futuro EXCEPT ![t] = "nenhum"]
  <2>1. t \in Ocupantes /\ f \in [Tarefas -> Estados]
    BY <1>3 DEF Repassar, Liberar, Ocupantes, IInv, TypeOK, Estados
  <2>2. Liberar(t) => futuro[t] = "nenhum" /\ f = futuro /\ cancelar[t] = FALSE
    BY DEF Liberar, IInv, TypeOK, FuturosCoerentes
  <2>3. Release(f) /\ UNCHANGED emFrente /\ pc' = [pc EXCEPT ![t] = "fora"]
    BY <1>3, <2>2 DEF Repassar, Liberar
  <2>4. cancelar' = [cancelar EXCEPT ![t] = FALSE]
    BY <1>3, <2>2 DEF Repassar, Liberar, IInv, TypeOK
  <2>5. QED
    BY <2>1, <2>3, <2>4, TrocaSegura
<1>4. QED
  BY <1>1, <1>2, <1>3, FilaSegura DEF Next

-----------------------------------------------------------------------------
\* The semaphore's invariant holds in every reachable state.
THEOREM Invariante == Spec => []IInv
<1>1. Init => IInv
  BY InitSeguro
<1>2. IInv /\ [Next]_vars => IInv'
  BY PassoSeguro
<1>3. QED
  BY <1>1, <1>2, PTL DEF Spec

\* release() and a cancellation that races it conserve the slots: those free
\* and those occupied are always as many as the semaphore was created with.
THEOREM Conservacao == Spec => []VagasConservadas
<1>1. IInv => VagasConservadas
  BY DEF IInv
<1>2. QED
  BY <1>1, Invariante, PTL

\* Nobody is queued while a slot is free.
THEOREM NaoOciosa == Spec => []SemVagaOciosa
<1>1. IInv => SemVagaOciosa
  BY DEF IInv
<1>2. QED
  BY <1>1, Invariante, PTL

\* Every variable keeps its type; the free slots never exceed those there are.
THEOREM Tipo == Spec => []TypeOK
<1>1. IInv => TypeOK
  BY DEF IInv
<1>2. QED
  BY <1>1, Invariante, PTL

-----------------------------------------------------------------------------
\* The streak the code keeps bounds the grants that overtook prefetch: a grant
\* that overtakes it happens below the limit and counts in the streak.
Sequencia == preteridas <= sequencia

LEMMA SequenciaDoRelease ==
    ASSUME TypeOK, Sequencia, NEW f, Release(f)
    PROVE  Sequencia'
<1>1. sequencia \in 0..Limite /\ preteridas \in Nat /\ Limite \in Nat
  BY DEF TypeOK, Limite
<1>2. CASE ConcederFrente(f)
  <2>1. CASE Vivos(fundo) = {}
    BY <1>1, <1>2, <2>1 DEF ConcederFrente, Sequencia
  <2>2. CASE Vivos(fundo) # {}
    <3>1. fundo # <<>>
      BY <2>2 DEF Vivos
    <3>2. ~(sequencia >= Limite)
      BY <1>2, <2>2, <3>1 DEF ConcederFrente, FundoPrimeiro
    <3>3. sequencia' = sequencia + 1 /\ preteridas' = preteridas + 1
      BY <1>1, <1>2, <2>2, <3>2 DEF ConcederFrente
    <3>4. QED
      BY <1>1, <3>3 DEF Sequencia
  <2>3. QED
    BY <2>1, <2>2
<1>3. CASE ConcederFundo(f)
  BY <1>3 DEF ConcederFundo, Sequencia
<1>4. CASE Devolver(f)
  BY <1>1, <1>4 DEF Devolver, Sequencia
<1>5. QED
  BY <1>2, <1>3, <1>4 DEF Release

LEMMA SequenciaSegura == TypeOK /\ Sequencia /\ [Next]_vars => Sequencia'
<1> SUFFICES ASSUME TypeOK, Sequencia, [Next]_vars PROVE Sequencia'
  OBVIOUS
<1>1. ASSUME NEW t \in Tarefas, Repassar(t) \/ Liberar(t) PROVE Sequencia'
  BY <1>1, SequenciaDoRelease DEF Repassar, Liberar
<1>2. CASE UNCHANGED <<sequencia, preteridas>>
  BY <1>2 DEF Sequencia
<1>3. QED
  BY <1>1, <1>2 DEF Next, vars, AcquireImediato, AcquireEspera, Promote, Cancelar,
     Entrar, SairDaFila

\* Prefetch is overtaken by at most four foreground grants in a row, for any number
\* of tasks and slots and across every cancellation and promotion.
THEOREM NaoPreterido == Spec => []FundoNaoPreterido
<1>1. Init => Sequencia
  BY DEF Init, Sequencia
<1>2. TypeOK /\ Sequencia => FundoNaoPreterido
  BY DEF TypeOK, Sequencia, FundoNaoPreterido, Limite
<1>3. QED
  BY <1>1, <1>2, Tipo, SequenciaSegura, PTL DEF Spec
=============================================================================
