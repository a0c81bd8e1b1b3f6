------------------------- MODULE FluxoDeAudioProvas -------------------------
(* Safety of the audio stream for every set of threads, every assignment of  *)
(* lengths to blocks, every configuration and every counter width.           *)
EXTENDS FluxoDeAudio, SequenceTheorems, FiniteSetTheorems, TLAPS

\* The steps of a thread that touch neither the queue nor the history: they
\* move the thread, its locals and the two statistics of waiting.
Quieto == UNCHANGED <<interior, historia>>

\* What a signal leaves of the program counters is still a program counter.
LEMMA SinaisTipo ==
    ASSUME TypeOK, NEW t \in Threads, NEW grupo \in SUBSET Threads,
           NEW lugar \in Lugares,
           NotificarUm(t, grupo, lugar) \/ NotificarTodos(t, grupo, lugar)
    PROVE  pc' \in [Threads -> Lugares]
<1>1. CASE NotificarUm(t, grupo, lugar)
  BY <1>1 DEF NotificarUm, Vai, TypeOK, Lugares
<1>2. CASE NotificarTodos(t, grupo, lugar)
  BY <1>2 DEF NotificarTodos, TypeOK, Lugares
<1>3. QED
  BY <1>1, <1>2

\* A saturated sum fits in the counter.
LEMMA SatTipo == \A n \in Nat : Sat(n) \in 0..LimiteU64 /\ Sat(n) <= n
BY LimitesNat DEF Sat

\* Both outcomes of a pass that finds nothing keep the types.
LEMMA EsperaTipo ==
    ASSUME TypeOK, NEW t \in Threads, NEW o \in Operacoes,
           EsperarOuDesistir(t, o)
    PROVE  TypeOK'
<1>1. /\ aguardaram' \in [Operacoes -> 0..LimiteU64]
      /\ esgotados' \in [Operacoes -> 0..LimiteU64]
  <2>1. /\ Sat(aguardaram[o] + 1) \in 0..LimiteU64
        /\ Sat(esgotados[o] + 1) \in 0..LimiteU64
    <3>1. aguardaram[o] + 1 \in Nat /\ esgotados[o] + 1 \in Nat
      BY LimitesNat DEF TypeOK
    <3>2. QED
      BY <3>1, SatTipo
  <2>2. \/ aguardaram' = aguardaram
        \/ aguardaram' = [aguardaram EXCEPT ![o] = Sat(aguardaram[o] + 1)]
    BY DEF EsperarOuDesistir
  <2>3. \/ esgotados' = esgotados
        \/ esgotados' = [esgotados EXCEPT ![o] = Sat(esgotados[o] + 1)]
    BY DEF EsperarOuDesistir
  <2>4. aguardaram' \in [Operacoes -> 0..LimiteU64]
    BY <2>1, <2>2 DEF TypeOK
  <2>5. esgotados' \in [Operacoes -> 0..LimiteU64]
    BY <2>1, <2>3 DEF TypeOK
  <2>6. QED
    BY <2>4, <2>5
<1>2. /\ pc' \in [Threads -> Lugares]
      /\ prazo' \in [Threads -> {"corre", "venceu"}]
      /\ aguardou' \in [Threads -> BOOLEAN]
  BY DEF EsperarOuDesistir, TypeOK, Sair, Vai, Lugares
<1>3. UNCHANGED <<interior, bloco, chamadas, historia>>
  BY DEF EsperarOuDesistir
<1>4. QED
  BY <1>1, <1>2, <1>3 DEF TypeOK, interior, historia

\* The beginning of a call keeps the types of what it changes.
LEMMA ChamarTipo ==
    ASSUME TypeOK, NEW t \in Threads, NEW lugar \in Lugares, Chamar(t, lugar)
    PROVE  pc' \in [Threads -> Lugares] /\ chamadas' \in [Threads -> Nat]
BY DEF Chamar, Vai, TypeOK

LEMMA InitTipo == Init => TypeOK
<1> SUFFICES ASSUME Init PROVE TypeOK
  OBVIOUS
<1>1. /\ blocos \in Seq(Blocos) /\ aceitos \in Seq(Blocos)
      /\ entregues \in Seq(Blocos) /\ ate \in Seq(Nat)
  BY DEF Init
<1>2. 0 \in 0..LimiteU64
  BY LimitesNat
<1>3. /\ aguardaram \in [Operacoes -> 0..LimiteU64]
      /\ esgotados \in [Operacoes -> 0..LimiteU64]
  BY <1>2 DEF Init
<1>4. /\ pc \in [Threads -> Lugares]
      /\ prazo \in [Threads -> {"corre", "venceu"}]
      /\ aguardou \in [Threads -> BOOLEAN]
      /\ chamadas \in [Threads -> Nat]
  BY DEF Init, Lugares
<1>5. QED
  BY <1>1, <1>2, <1>3, <1>4 DEF Init, TypeOK

\* Removing the first block: it is a block, and the rest is shorter by one.
LEMMA Cabeca ==
    ASSUME NEW S, NEW q \in Seq(S), q # <<>>
    PROVE  /\ Head(q) \in S /\ Head(q) = q[1]
           /\ Tail(q) \in Seq(S) /\ Len(Tail(q)) = Len(q) - 1
           /\ Len(q) \in Nat \ {0}
           /\ \A i \in 1..(Len(q) - 1) : Tail(q)[i] = q[i + 1]
BY HeadTailProperties, EmptySeq

-----------------------------------------------------------------------------
\* Steps that leave the queue and the history alone keep the types.
LEMMA QuietoTipo ==
    ASSUME TypeOK,
           \/ \E t \in Escritores \cup Leitores : Espera(t)
           \/ \E t \in Escritores : \/ EscreverGrandeDemais(t) \/ EscreverBloco(t)
                                    \/ EscritaSemEfeito(t) \/ EscritaSemEspaco(t)
                                    \/ AvisarDados(t)
           \/ \E t \in Leitores : \/ LerBloco(t) \/ LeituraCancelada(t)
                                  \/ LeituraSemDados(t) \/ AvisarEspaco(t)
           \/ \E t \in Controladores : AvisarLeitores(t) \/ AvisarEscritores(t)
    PROVE  TypeOK' /\ Quieto
<1>1. ASSUME NEW t \in Escritores \cup Leitores, Espera(t)
      PROVE  TypeOK' /\ Quieto
  <2>1. /\ prazo' \in [Threads -> {"corre", "venceu"}]
        /\ pc' \in [Threads -> Lugares]
    BY <1>1 DEF Espera, Vencer, EsperaVencida, DespertarEspurio, Vai, locais,
                TypeOK, Lugares
  <2>2. UNCHANGED <<interior, aguardaram, esgotados, bloco, aguardou, chamadas,
                    historia>>
    BY <1>1 DEF Espera, Vencer, EsperaVencida, DespertarEspurio, locais
  <2>3. QED
    BY <2>1, <2>2 DEF TypeOK, Quieto, interior, historia
<1>2. ASSUME NEW t \in Escritores, EscreverGrandeDemais(t)
      PROVE  TypeOK' /\ Quieto
  <2>1. pc' \in [Threads -> Lugares] /\ chamadas' \in [Threads -> Nat]
    BY <1>2, ChamarTipo DEF EscreverGrandeDemais, Threads, Lugares
  <2>2. UNCHANGED <<interior, aguardaram, esgotados, aguardou, bloco, prazo,
                    historia>>
    BY <1>2 DEF EscreverGrandeDemais
  <2>3. QED
    BY <2>1, <2>2 DEF TypeOK, Quieto, interior, historia
<1>3. ASSUME NEW t \in Escritores, EscreverBloco(t)
      PROVE  TypeOK' /\ Quieto
  <2>1. pc' \in [Threads -> Lugares] /\ chamadas' \in [Threads -> Nat]
    BY <1>3, ChamarTipo DEF EscreverBloco, Threads, Lugares
  <2>2. /\ bloco' \in [Escritores -> Blocos]
        /\ prazo' \in [Threads -> {"corre", "venceu"}]
    BY <1>3 DEF EscreverBloco, ComPrazo, TypeOK, Threads
  <2>3. UNCHANGED <<interior, aguardaram, esgotados, aguardou, historia>>
    BY <1>3 DEF EscreverBloco
  <2>4. QED
    BY <2>1, <2>2, <2>3 DEF TypeOK, Quieto, interior, historia
<1>4. ASSUME NEW t \in Escritores, EscritaSemEspaco(t)
      PROVE  TypeOK' /\ Quieto
  <2>1. EsperarOuDesistir(t, "escrita") /\ "escrita" \in Operacoes
    BY <1>4 DEF EscritaSemEspaco, Operacoes
  <2>2. QED
    BY <2>1, EsperaTipo DEF EsperarOuDesistir, Quieto, Threads
<1>5. ASSUME NEW t \in Leitores, LeituraSemDados(t)
      PROVE  TypeOK' /\ Quieto
  <2>1. EsperarOuDesistir(t, "leitura") /\ "leitura" \in Operacoes
    BY <1>5 DEF LeituraSemDados, Operacoes
  <2>2. QED
    BY <2>1, EsperaTipo DEF EsperarOuDesistir, Quieto, Threads
<1>6. ASSUME NEW t \in Leitores, LerBloco(t)
      PROVE  TypeOK' /\ Quieto
  <2>1. pc' \in [Threads -> Lugares] /\ chamadas' \in [Threads -> Nat]
    BY <1>6, ChamarTipo DEF LerBloco, Threads, Lugares
  <2>2. prazo' \in [Threads -> {"corre", "venceu"}]
    BY <1>6 DEF LerBloco, ComPrazo, TypeOK
  <2>3. UNCHANGED <<interior, aguardaram, esgotados, aguardou, bloco, historia>>
    BY <1>6 DEF LerBloco
  <2>4. QED
    BY <2>1, <2>2, <2>3 DEF TypeOK, Quieto, interior, historia
<1>7. ASSUME NEW t \in Threads,
             EscritaSemEfeito(t) \/ LeituraCancelada(t)
      PROVE  TypeOK' /\ Quieto
  <2>1. Sair(t, "fora")
    BY <1>7 DEF EscritaSemEfeito, LeituraCancelada
  <2>2. /\ pc' \in [Threads -> Lugares]
        /\ prazo' \in [Threads -> {"corre", "venceu"}]
        /\ aguardou' \in [Threads -> BOOLEAN]
    BY <2>1 DEF Sair, Vai, TypeOK, Lugares
  <2>3. UNCHANGED <<interior, aguardaram, esgotados, bloco, chamadas, historia>>
    BY <1>7 DEF EscritaSemEfeito, LeituraCancelada
  <2>4. QED
    BY <2>2, <2>3 DEF TypeOK, Quieto, interior, historia
<1>8. ASSUME NEW t \in Threads,
             \/ AvisarDados(t) \/ AvisarEspaco(t)
             \/ AvisarLeitores(t) \/ AvisarEscritores(t)
      PROVE  TypeOK' /\ Quieto
  <2>1. pc' \in [Threads -> Lugares]
    <3>1. /\ Leitores \in SUBSET Threads /\ Escritores \in SUBSET Threads
          /\ "fora" \in Lugares /\ "avisar_escritores" \in Lugares
      BY DEF Threads, Lugares
    <3>2. QED
      BY <1>8, <3>1, SinaisTipo
         DEF AvisarDados, AvisarEspaco, AvisarLeitores, AvisarEscritores
  <2>2. UNCHANGED <<interior, aguardaram, esgotados, locais, historia>>
    BY <1>8 DEF AvisarDados, AvisarEspaco, AvisarLeitores, AvisarEscritores
  <2>3. QED
    BY <2>1, <2>2 DEF TypeOK, Quieto, interior, historia, locais
<1>9. QED
  BY <1>1, <1>2, <1>3, <1>4, <1>5, <1>6, <1>7, <1>8 DEF Threads

\* The rest of the invariant speaks only of the queue and the history.
LEMMA QuietoSeguro ==
    ASSUME IInv, Quieto, TypeOK'
    PROVE  IInv'
BY DEF IInv, Quieto, Historia, FilaExata, OcupacaoExata, ContadoresExatos,
       Total, interior, historia

-----------------------------------------------------------------------------
\* An accepted block goes to the end of the queue and of the history.
LEMMA InserirSeguro ==
    ASSUME IInv, NEW t \in Escritores, Inserir(t)
    PROVE  IInv'
<1>a. PICK n \in Nat : n = Len(aceitos)
  BY DEF IInv, TypeOK
<1>b. PICK b \in Blocos : b = bloco[t]
  BY DEF IInv, TypeOK
<1>c. PICK k \in Nat : k = Len(entregues) /\ k <= n
  <2>1. Len(entregues) \in Nat
    BY DEF IInv, TypeOK
  <2>2. Len(entregues) <= n
    BY <1>a DEF IInv, Historia
  <2>3. QED
    BY <2>1, <2>2
<1>d. \A i \in 0..n : Total(ate, i) \in Nat
  BY <1>a DEF IInv, TypeOK, Historia, Total
<1>1. /\ tamanho[b] \in Nat /\ tamanho[b] > 0
      /\ Total(ate, n) \in Nat /\ Total(ate, k) \in Nat
      /\ Len(blocos) \in Nat /\ Len(ate) = n
  <2>1. tamanho[b] \in Nat /\ tamanho[b] > 0
    BY <1>b, TamanhoNat DEF Inserir
  <2>2. Len(blocos) \in Nat /\ Len(ate) = n
    BY <1>a DEF IInv, TypeOK, Historia
  <2>3. QED
    BY <1>a, <1>c, <1>d, <2>1, <2>2
<1>2. /\ aceitos' = Append(aceitos, b) /\ aceitos' \in Seq(Blocos)
      /\ Len(aceitos') = n + 1 /\ aceitos'[n + 1] = b
      /\ \A i \in 1..n : aceitos'[i] = aceitos[i]
  BY <1>a, <1>b, <1>1, AppendProperties DEF IInv, TypeOK, Inserir
<1>3. /\ ate' = Append(ate, Total(ate, n) + tamanho[b]) /\ ate' \in Seq(Nat)
      /\ Len(ate') = n + 1 /\ ate'[n + 1] = Total(ate, n) + tamanho[b]
      /\ \A i \in 1..n : ate'[i] = ate[i]
  <2>1. ate' = Append(ate, Total(ate, n) + tamanho[b])
    BY <1>a, <1>b DEF Inserir
  <2>2. ate \in Seq(Nat) /\ Total(ate, n) + tamanho[b] \in Nat
    BY <1>1 DEF IInv, TypeOK
  <2>3. QED
    BY <1>1, <2>1, <2>2, AppendProperties
<1>4. /\ blocos' = Append(blocos, b) /\ blocos' \in Seq(Blocos)
      /\ Len(blocos') = Len(blocos) + 1 /\ blocos'[Len(blocos) + 1] = b
      /\ \A i \in 1..Len(blocos) : blocos'[i] = blocos[i]
  BY <1>a, <1>b, <1>1, AppendProperties DEF IInv, TypeOK, Inserir
<1>5. /\ \A i \in 0..n : Total(ate', i) = Total(ate, i)
      /\ Total(ate', n + 1) = Total(ate, n) + tamanho[b]
  BY <1>a, <1>1, <1>3 DEF Total, IInv, Historia
<1>6. /\ entregues' = entregues /\ fim' = fim /\ estado' = estado
      /\ bytes_lidos' = bytes_lidos /\ bytes_descartados' = bytes_descartados
      /\ estado = "Aberto" /\ Cabe(b)
      /\ bytes_em_fila' = bytes_em_fila + tamanho[b]
      /\ maior_ocupacao_bytes' =
           Maior(maior_ocupacao_bytes, bytes_em_fila + tamanho[b])
      /\ bytes_escritos' = Sat(bytes_escritos + tamanho[b])
  BY <1>b DEF Inserir
<1>7. TypeOK'
  <2>1. /\ bytes_em_fila' \in Nat /\ maior_ocupacao_bytes' \in Nat
        /\ bytes_escritos' \in 0..LimiteU64
    <3>1. /\ bytes_em_fila \in Nat /\ maior_ocupacao_bytes \in Nat
          /\ bytes_escritos + tamanho[b] \in Nat
      BY <1>1, LimitesNat DEF IInv, TypeOK
    <3>2. Sat(bytes_escritos + tamanho[b]) \in 0..LimiteU64
      BY <3>1, SatTipo
    <3>3. QED
      BY <1>1, <1>6, <3>1, <3>2 DEF Maior
  <2>2. /\ pc' \in [Threads -> Lugares]
        /\ prazo' \in [Threads -> {"corre", "venceu"}]
        /\ aguardou' \in [Threads -> BOOLEAN]
    BY DEF IInv, TypeOK, Inserir, Sair, Vai, Lugares, Threads
  <2>3. UNCHANGED <<aguardaram, esgotados, bloco, chamadas>>
    BY DEF Inserir
  <2>4. QED
    BY <1>2, <1>3, <1>4, <1>6, <2>1, <2>2, <2>3 DEF IInv, TypeOK
<1>8. Historia'
  <2>1. \A i \in 1..Len(ate') : ate'[i] = Total(ate', i - 1) + tamanho[aceitos'[i]]
    <3>1. SUFFICES ASSUME NEW i \in 1..(n + 1)
                   PROVE  ate'[i] = Total(ate', i - 1) + tamanho[aceitos'[i]]
      BY <1>3
    <3>2. CASE i = n + 1
      BY <1>2, <1>3, <1>5, <3>2
    <3>3. CASE i # n + 1
      <4>1. i \in 1..n /\ i - 1 \in 0..n
        BY <3>3
      <4>2. ate[i] = Total(ate, i - 1) + tamanho[aceitos[i]]
        BY <1>1, <4>1 DEF IInv, Historia
      <4>3. QED
        BY <1>2, <1>3, <1>5, <4>1, <4>2
    <3>4. QED
      BY <3>2, <3>3
  <2>2. \A i, j \in 0..Len(ate') : i <= j => Total(ate', i) <= Total(ate', j)
    <3>1. \A i, j \in 0..n : i <= j => Total(ate, i) <= Total(ate, j)
      BY <1>a DEF IInv, Historia
    <3>2. QED
      <4>1. SUFFICES ASSUME NEW i \in 0..(n + 1), NEW j \in 0..(n + 1), i <= j
                     PROVE  Total(ate', i) <= Total(ate', j)
        BY <1>3
      <4>2. CASE j <= n
        BY <1>5, <3>1, <4>1, <4>2
      <4>3. CASE j = n + 1 /\ i <= n
        <5>1. Total(ate', i) = Total(ate, i) /\ Total(ate, i) <= Total(ate, n)
              /\ Total(ate, i) \in Nat
          BY <1>d, <1>5, <3>1, <4>1, <4>3
        <5>2. QED
          BY <1>1, <1>5, <4>3, <5>1
      <4>4. CASE j = n + 1 /\ i = n + 1
        BY <1>1, <1>5, <4>4
      <4>5. QED
        BY <4>1, <4>2, <4>3, <4>4
  <2>3. QED
    <3>1. Len(entregues') <= Len(aceitos')
      BY <1>c, <1>2, <1>6
    <3>2. \A i \in 1..Len(entregues') : entregues'[i] = aceitos'[i]
      <4>1. \A i \in 1..k : entregues[i] = aceitos[i]
        BY <1>c DEF IInv, Historia
      <4>2. QED
        BY <1>c, <1>2, <1>6, <4>1
    <3>3. QED
      BY <1>2, <1>3, <2>1, <2>2, <3>1, <3>2 DEF Historia
<1>9. FilaExata'
  <2>1. Len(blocos) = n - k /\ \A i \in 1..Len(blocos) : blocos[i] = aceitos[k + i]
    BY <1>a, <1>c, <1>6 DEF IInv, FilaExata
  <2>2. Len(blocos') = (n + 1) - k
    BY <1>c, <1>4, <2>1
  <2>3. \A i \in 1..Len(blocos') : blocos'[i] = aceitos'[k + i]
    <3>1. SUFFICES ASSUME NEW i \in 1..Len(blocos')
                   PROVE  blocos'[i] = aceitos'[k + i]
      OBVIOUS
    <3>a. i \in 1..(n + 1 - k)
      BY <2>2
    <3>2. CASE i = n + 1 - k
      BY <1>2, <1>4, <1>c, <2>1, <3>2
    <3>3. CASE i # n + 1 - k
      <4>1. i \in 1..Len(blocos) /\ k + i \in 1..n
        BY <1>c, <2>1, <3>a, <3>3
      <4>2. QED
        BY <1>2, <1>4, <2>1, <4>1
    <3>4. QED
      BY <3>2, <3>3
  <2>4. ~fim
    BY <1>6 DEF IInv, FilaExata
  <2>5. QED
    BY <1>2, <1>c, <1>6, <2>2, <2>3, <2>4 DEF FilaExata
<1>10. OcupacaoExata'
  <2>1. Total(ate', Len(entregues')) = Total(ate, k)
    BY <1>c, <1>5, <1>6
  <2>2. Total(ate', Len(aceitos')) = Total(ate, n) + tamanho[b]
    BY <1>2, <1>5
  <2>3. QED
    <3>1. /\ bytes_em_fila = Total(ate, n) - Total(ate, k)
          /\ bytes_em_fila \in Nat /\ maior_ocupacao_bytes \in Nat
          /\ bytes_em_fila <= maior_ocupacao_bytes
          /\ maior_ocupacao_bytes <= capacidade_bytes
      BY <1>a, <1>c, <1>6 DEF IInv, OcupacaoExata, TypeOK
    <3>2. /\ tamanho[b] <= capacidade_bytes - bytes_em_fila
          /\ Len(blocos) < maximo_blocos
      BY <1>6 DEF Cabe
    <3>3. /\ bytes_em_fila' <= maior_ocupacao_bytes'
          /\ maior_ocupacao_bytes' <= capacidade_bytes
      <4>1. tamanho[b] \in Nat /\ capacidade_bytes \in Nat
        BY <1>1, ConfiguracaoValida
      <4>2. /\ bytes_em_fila' = bytes_em_fila + tamanho[b]
            /\ maior_ocupacao_bytes' =
                 IF maior_ocupacao_bytes > bytes_em_fila + tamanho[b]
                 THEN maior_ocupacao_bytes ELSE bytes_em_fila + tamanho[b]
        BY <1>6 DEF Maior
      <4>3. QED
        BY <3>1, <3>2, <4>1, <4>2
    <3>4. Len(blocos') <= maximo_blocos
      BY <1>1, <1>4, <3>2, ConfiguracaoValida
    <3>5. bytes_em_fila' = Total(ate', Len(aceitos')) - Total(ate', Len(entregues'))
      BY <1>1, <1>6, <2>1, <2>2, <3>1
    <3>6. QED
      BY <1>6, <3>3, <3>4, <3>5 DEF OcupacaoExata
<1>11. ContadoresExatos'
  <2>1. Total(ate', Len(entregues')) = Total(ate, k)
    BY <1>c, <1>5, <1>6
  <2>2. Total(ate', Len(aceitos')) = Total(ate, n) + tamanho[b]
    BY <1>2, <1>5
  <2>3. QED
    BY <1>a, <1>c, <1>1, <1>6, <2>1, <2>2, LimitesNat DEF IInv, ContadoresExatos, Sat
<1>12. QED
  BY <1>7, <1>8, <1>9, <1>10, <1>11 DEF IInv

\* A removed block is the next one of the history, so that the subtraction of
\* its length from the occupancy stays a natural number.
LEMMA RetirarSeguro ==
    ASSUME IInv, NEW t \in Leitores, Retirar(t)
    PROVE  IInv' /\ bytes_em_fila >= tamanho[Head(blocos)]
<1>a. PICK n \in Nat : n = Len(aceitos)
  BY DEF IInv, TypeOK
<1>b. PICK k \in Nat : k = Len(entregues)
  BY DEF IInv, TypeOK
<1>c. estado # "Cancelado" /\ blocos # <<>> /\ blocos \in Seq(Blocos)
  BY DEF Retirar, IInv, TypeOK
<1>d. PICK b \in Blocos : b = Head(blocos)
  BY <1>c, Cabeca
<1>1. /\ Len(blocos) = n - k /\ n - k > 0
      /\ \A i \in 1..(n - k) : blocos[i] = aceitos[k + i]
      /\ ~fim
  <2>1. /\ Len(blocos) = n - k
        /\ \A i \in 1..(n - k) : blocos[i] = aceitos[k + i]
        /\ ~fim
    BY <1>a, <1>b, <1>c DEF IInv, FilaExata
  <2>2. Len(blocos) \in Nat \ {0}
    BY <1>c, Cabeca
  <2>3. QED
    BY <2>1, <2>2
<1>2. /\ b = aceitos[k + 1] /\ tamanho[b] \in Nat
      /\ k + 1 \in 1..n /\ k + 1 \in 0..n /\ k \in 0..n /\ n \in 0..n
  BY <1>c, <1>d, <1>1, Cabeca, TamanhoNat
<1>3. /\ \A i \in 0..n : Total(ate, i) \in Nat
      /\ Total(ate, k + 1) = Total(ate, k) + tamanho[b]
      /\ Total(ate, k + 1) <= Total(ate, n)
      /\ Total(ate, k) \in Nat /\ Total(ate, n) \in Nat
  <2>1. Len(ate) = n
    BY <1>a DEF IInv, Historia
  <2>2. \A i \in 0..n : Total(ate, i) \in Nat
    BY <2>1 DEF IInv, TypeOK, Total
  <2>3. ate[k + 1] = Total(ate, k + 1 - 1) + tamanho[b]
    BY <1>2, <2>1 DEF IInv, Historia
  <2>4. Total(ate, k + 1) = ate[k + 1] /\ k + 1 - 1 = k
    BY <1>b DEF Total
  <2>5. Total(ate, k + 1) <= Total(ate, n)
    BY <1>2, <2>1 DEF IInv, Historia
  <2>6. QED
    BY <1>2, <2>2, <2>3, <2>4, <2>5
<1>4. /\ entregues' = Append(entregues, b) /\ entregues' \in Seq(Blocos)
      /\ Len(entregues') = k + 1 /\ entregues'[k + 1] = b
      /\ \A i \in 1..k : entregues'[i] = entregues[i]
  <2>1. entregues' = Append(entregues, b) /\ entregues \in Seq(Blocos)
    BY <1>d DEF Retirar, IInv, TypeOK
  <2>2. QED
    BY <1>b, <2>1, AppendProperties
<1>5. /\ blocos' = Tail(blocos) /\ blocos' \in Seq(Blocos)
      /\ Len(blocos') = n - k - 1
      /\ \A i \in 1..(n - k - 1) : blocos'[i] = blocos[i + 1]
  BY <1>c, <1>1, Cabeca DEF Retirar
<1>6. /\ UNCHANGED <<aceitos, ate, fim, estado, maior_ocupacao_bytes>>
      /\ UNCHANGED <<bytes_escritos, bytes_descartados>>
      /\ bytes_em_fila' = bytes_em_fila - tamanho[b]
      /\ bytes_lidos' = Sat(bytes_lidos + tamanho[b])
  BY <1>d DEF Retirar
<1>7. /\ bytes_em_fila = Total(ate, n) - Total(ate, k)
      /\ bytes_em_fila <= maior_ocupacao_bytes
      /\ maior_ocupacao_bytes <= capacidade_bytes
      /\ bytes_em_fila \in Nat /\ maior_ocupacao_bytes \in Nat
      /\ Len(blocos) <= maximo_blocos
  BY <1>a, <1>b, <1>c DEF IInv, OcupacaoExata, TypeOK
<1>8. bytes_em_fila >= tamanho[b] /\ bytes_em_fila' \in Nat
  <2>1. \A m, p, q, z, w \in Nat :
          p = q + z /\ p <= w /\ m = w - q => m >= z /\ m - z \in Nat
    OBVIOUS
  <2>2. Total(ate, k + 1) \in Nat
    BY <1>2, <1>3
  <2>3. bytes_em_fila >= tamanho[b] /\ bytes_em_fila - tamanho[b] \in Nat
    BY <1>2, <1>3, <1>7, <2>1, <2>2
  <2>4. QED
    BY <1>6, <2>3
<1>9. TypeOK'
  <2>1. bytes_lidos' \in 0..LimiteU64
    <3>1. bytes_lidos + tamanho[b] \in Nat
      BY <1>2, LimitesNat DEF IInv, TypeOK
    <3>2. QED
      BY <1>6, <3>1, SatTipo
  <2>2. /\ pc' \in [Threads -> Lugares]
        /\ prazo' \in [Threads -> {"corre", "venceu"}]
        /\ aguardou' \in [Threads -> BOOLEAN]
    BY DEF IInv, TypeOK, Retirar, Sair, Vai, Lugares, Threads
  <2>3. UNCHANGED <<aguardaram, esgotados, bloco, chamadas>>
    BY DEF Retirar
  <2>4. QED
    BY <1>4, <1>5, <1>6, <1>8, <2>1, <2>2, <2>3 DEF IInv, TypeOK
<1>10. Historia'
  <2>1. \A i \in 1..(k + 1) : entregues'[i] = aceitos[i]
    <3>1. \A i \in 1..k : entregues[i] = aceitos[i]
      BY <1>b DEF IInv, Historia
    <3>2. QED
      BY <1>b, <1>2, <1>4, <3>1
  <2>2. Len(entregues') <= Len(aceitos')
    BY <1>a, <1>2, <1>4, <1>6
  <2>3. QED
    BY <1>4, <1>6, <2>1, <2>2 DEF IInv, Historia
<1>11. FilaExata'
  <2>1. Len(blocos') = Len(aceitos') - Len(entregues')
    <3>1. Len(aceitos') = n /\ Len(entregues') = k + 1
      BY <1>a, <1>4, <1>6
    <3>2. QED
      BY <1>5, <3>1
  <2>2. \A i \in 1..Len(blocos') : blocos'[i] = aceitos'[Len(entregues') + i]
    <3>1. SUFFICES ASSUME NEW i \in 1..(n - k - 1)
                   PROVE  blocos'[i] = aceitos[k + 1 + i]
      BY <1>4, <1>5, <1>6
    <3>2. i + 1 \in 1..(n - k) /\ k + (i + 1) = k + 1 + i
      BY <1>1
    <3>3. QED
      BY <1>1, <1>5, <3>2
  <2>3. QED
    BY <1>c, <1>1, <1>6, <2>1, <2>2, Zenon DEF FilaExata
<1>12. OcupacaoExata'
  <2>1. bytes_em_fila' = Total(ate, n) - Total(ate, k + 1)
    BY <1>2, <1>3, <1>6, <1>7
  <2>2. bytes_em_fila' <= maior_ocupacao_bytes /\ Len(blocos') <= maximo_blocos
    BY <1>1, <1>2, <1>5, <1>6, <1>7, ConfiguracaoValida
  <2>3. QED
    <3>1. Len(aceitos') = n /\ Len(entregues') = k + 1 /\ estado' # "Cancelado"
      BY <1>a, <1>c, <1>4, <1>6
    <3>2. QED
      BY <1>6, <1>7, <2>1, <2>2, <3>1 DEF OcupacaoExata
<1>13. ContadoresExatos'
  <2>1. bytes_lidos = Sat(Total(ate, k))
    BY <1>b DEF IInv, ContadoresExatos
  <2>2. bytes_lidos' = Sat(Total(ate, k + 1))
    BY <1>2, <1>3, <1>6, <2>1, LimitesNat DEF Sat
  <2>3. QED
    BY <1>c, <1>4, <1>6, <2>2 DEF IInv, ContadoresExatos
<1>14. QED
  <2>1. bytes_em_fila >= tamanho[Head(blocos)]
    BY <1>d, <1>8
  <2>2. QED
    BY <1>9, <1>10, <1>11, <1>12, <1>13, <2>1 DEF IInv

-----------------------------------------------------------------------------
\* Announcing the end changes only what the reader was told.
LEMMA FimSeguro ==
    ASSUME IInv, NEW t \in Leitores, FimDoFluxo(t)
    PROVE  IInv'
<1>1. /\ UNCHANGED <<interior, aguardaram, esgotados, bloco, chamadas>>
      /\ UNCHANGED <<aceitos, entregues, ate>>
      /\ fim' = TRUE /\ estado = "Finalizado" /\ blocos = <<>>
  BY DEF FimDoFluxo
<1>2. /\ pc' \in [Threads -> Lugares]
      /\ prazo' \in [Threads -> {"corre", "venceu"}]
      /\ aguardou' \in [Threads -> BOOLEAN]
  BY DEF IInv, TypeOK, FimDoFluxo, Sair, Vai, Lugares, Threads
<1>3. TypeOK'
  BY <1>1, <1>2 DEF IInv, TypeOK, interior
<1>4. FilaExata'
  BY <1>1 DEF IInv, FilaExata, interior
<1>5. Historia' /\ OcupacaoExata' /\ ContadoresExatos'
  BY <1>1 DEF IInv, Historia, OcupacaoExata, ContadoresExatos, interior
<1>6. QED
  BY <1>3, <1>4, <1>5 DEF IInv

LEMMA FinalizarSeguro ==
    ASSUME IInv, NEW t \in Controladores, Finalizar(t)
    PROVE  IInv'
<1>1. /\ UNCHANGED <<blocos, bytes_em_fila, maior_ocupacao_bytes>>
      /\ UNCHANGED <<bytes_escritos, bytes_lidos, bytes_descartados>>
      /\ UNCHANGED <<aguardaram, esgotados, aguardou, bloco, prazo, historia>>
      /\ estado' = IF estado = "Aberto" THEN "Finalizado" ELSE estado
  BY DEF Finalizar
<1>2. pc' \in [Threads -> Lugares] /\ chamadas' \in [Threads -> Nat]
  BY ChamarTipo DEF IInv, Finalizar, Threads, Lugares
<1>3. estado' \in {"Aberto", "Finalizado", "Cancelado"}
  BY <1>1 DEF IInv, TypeOK
<1>4. TypeOK'
  BY <1>1, <1>2, <1>3 DEF IInv, TypeOK, historia
<1>5. (estado' = "Cancelado") <=> (estado = "Cancelado")
  BY <1>1
<1>6. fim => estado # "Aberto"
  BY DEF IInv, FilaExata
<1>7. FilaExata'
  BY <1>1, <1>5, <1>6 DEF IInv, FilaExata, historia
<1>8. Historia' /\ OcupacaoExata' /\ ContadoresExatos'
  BY <1>1, <1>5 DEF IInv, Historia, OcupacaoExata, ContadoresExatos, historia
<1>9. QED
  BY <1>4, <1>7, <1>8 DEF IInv

\* What was in the queue becomes discarded, once: a repeated cancelar finds an
\* empty queue.
LEMMA CancelarSeguro ==
    ASSUME IInv, NEW t \in Controladores, Cancelar(t)
    PROVE  IInv'
<1>1. /\ UNCHANGED <<maior_ocupacao_bytes, bytes_escritos, bytes_lidos>>
      /\ UNCHANGED <<aguardaram, esgotados, aguardou, bloco, prazo, historia>>
      /\ estado' = "Cancelado" /\ blocos' = <<>> /\ bytes_em_fila' = 0
      /\ bytes_descartados' = Sat(bytes_descartados + bytes_em_fila)
  BY DEF Cancelar
<1>2. pc' \in [Threads -> Lugares] /\ chamadas' \in [Threads -> Nat]
  BY ChamarTipo DEF IInv, Cancelar, Threads, Lugares
<1>3. bytes_em_fila \in Nat /\ bytes_descartados \in 0..LimiteU64
  BY DEF IInv, TypeOK
<1>4. bytes_descartados' \in 0..LimiteU64
  <2>1. bytes_descartados + bytes_em_fila \in Nat
    BY <1>3, LimitesNat
  <2>2. QED
    BY <1>1, <2>1, SatTipo
<1>5. TypeOK'
  BY <1>1, <1>2, <1>4 DEF IInv, TypeOK, historia
<1>6. Historia' /\ FilaExata'
  BY <1>1 DEF IInv, Historia, FilaExata, historia
<1>7. OcupacaoExata'
  BY <1>1, ConfiguracaoValida DEF IInv, OcupacaoExata, TypeOK, historia
<1>8. bytes_descartados' = Sat(Total(ate, Len(aceitos)) - Total(ate, Len(entregues)))
  <2>1. CASE estado = "Cancelado"
    <3>1. /\ bytes_em_fila = 0
          /\ bytes_descartados =
               Sat(Total(ate, Len(aceitos)) - Total(ate, Len(entregues)))
      BY <2>1 DEF IInv, OcupacaoExata, ContadoresExatos
    <3>2. bytes_descartados' = Sat(bytes_descartados)
      BY <1>1, <1>3, <3>1, LimitesNat
    <3>3. Sat(bytes_descartados) = bytes_descartados
      BY <1>3, LimitesNat DEF Sat
    <3>4. QED
      BY <3>1, <3>2, <3>3
  <2>2. CASE estado # "Cancelado"
    <3>1. /\ bytes_em_fila = Total(ate, Len(aceitos)) - Total(ate, Len(entregues))
          /\ bytes_descartados = Sat(0)
      BY <2>2 DEF IInv, OcupacaoExata, ContadoresExatos
    <3>2. bytes_descartados + bytes_em_fila = bytes_em_fila
      BY <1>3, <3>1, LimitesNat DEF Sat
    <3>3. QED
      BY <1>1, <3>1, <3>2
  <2>3. QED
    BY <2>1, <2>2
<1>9. ContadoresExatos'
  BY <1>1, <1>8 DEF IInv, ContadoresExatos, historia
<1>10. QED
  BY <1>5, <1>6, <1>7, <1>9 DEF IInv

-----------------------------------------------------------------------------
LEMMA InitSeguro == Init => IInv
<1> SUFFICES ASSUME Init PROVE IInv
  OBVIOUS
<1>1. TypeOK
  BY InitTipo
<1>2. Len(aceitos) = 0 /\ Len(entregues) = 0 /\ Len(ate) = 0 /\ Len(blocos) = 0
  BY DEF Init
<1>3. Total(ate, 0) = 0 /\ Sat(0) = 0
  BY LimitesNat DEF Total, Sat
<1>4. Historia
  BY <1>2, <1>3 DEF Historia
<1>5. FilaExata
  BY <1>2 DEF Init, FilaExata
<1>6. OcupacaoExata /\ ContadoresExatos
  BY <1>2, <1>3, ConfiguracaoValida DEF Init, OcupacaoExata, ContadoresExatos
<1>7. QED
  BY <1>1, <1>4, <1>5, <1>6 DEF IInv

\* Every step of every thread keeps the invariant.
LEMMA PassoSeguro == IInv /\ [Next]_vars => IInv'
<1> SUFFICES ASSUME IInv, [Next]_vars PROVE IInv'
  OBVIOUS
<1>1. CASE UNCHANGED vars
  <2>1. Quieto /\ TypeOK'
    BY <1>1 DEF vars, Quieto, IInv, TypeOK, interior, historia, locais
  <2>2. QED
    BY <2>1, QuietoSeguro
<1>2. CASE \E t \in Escritores : Inserir(t)
  BY <1>2, InserirSeguro
<1>3. CASE \E t \in Leitores : Retirar(t)
  BY <1>3, RetirarSeguro
<1>4. CASE \E t \in Leitores : FimDoFluxo(t)
  BY <1>4, FimSeguro
<1>5. CASE \E t \in Controladores : Finalizar(t)
  BY <1>5, FinalizarSeguro
<1>6. CASE \E t \in Controladores : Cancelar(t)
  BY <1>6, CancelarSeguro
<1>7. CASE /\ Next
           /\ ~ \E t \in Escritores : Inserir(t)
           /\ ~ \E t \in Leitores : Retirar(t) \/ FimDoFluxo(t)
           /\ ~ \E t \in Controladores : Finalizar(t) \/ Cancelar(t)
  <2>1. TypeOK' /\ Quieto
    BY <1>7, QuietoTipo DEF Next, Escrita, Leitura, Controle, IInv
  <2>2. QED
    BY <2>1, QuietoSeguro
<1>8. QED
  BY <1>1, <1>2, <1>3, <1>4, <1>5, <1>6, <1>7

\* The stream's invariant holds in every reachable state.
THEOREM Invariante == Spec => []IInv
<1>1. Init => IInv
  BY InitSeguro
<1>2. IInv /\ [Next]_vars => IInv'
  BY PassoSeguro
<1>3. QED
  BY <1>1, <1>2, PTL DEF Spec

\* Every variable keeps its type; no usize of the code goes below zero.
THEOREM Tipo == Spec => []TypeOK
<1>1. IInv => TypeOK
  BY DEF IInv
<1>2. QED
  BY <1>1, Invariante, PTL

\* The occupancy is exact and within the configured limits.
THEOREM Ocupacao == Spec => []OcupacaoExata
<1>1. IInv => OcupacaoExata
  BY DEF IInv
<1>2. QED
  BY <1>1, Invariante, PTL

\* The byte counters are the saturated true totals.
THEOREM Contadores == Spec => []ContadoresExatos
<1>1. IInv => ContadoresExatos
  BY DEF IInv
<1>2. QED
  BY <1>1, Invariante, PTL

-----------------------------------------------------------------------------
(* No wake-up is lost. *)

\* The two halves of NinguemEsquecido.
LeitorLembrado ==
    Em(Leitores, "espera") # {} =>
        Len(blocos) <= Cardinality(Em(Escritores, "avisar_dados"))
                         + Cardinality(Em(Leitores, "trava"))

EscritorLembrado ==
    \A w \in Em(Escritores, "espera") :
        estado = "Aberto" /\ Cabe(bloco[w]) => Em(Leitores, "avisar_espaco") # {}

\* The threads at a place can be counted.
LEMMA EmFinito ==
    ASSUME NEW g \in SUBSET Threads, NEW lugar
    PROVE  /\ IsFiniteSet(Em(g, lugar)) /\ Cardinality(Em(g, lugar)) \in Nat
           /\ IsFiniteSet(Em(g, lugar)') /\ Cardinality(Em(g, lugar)') \in Nat
<1>1. Em(g, lugar) \in SUBSET Threads /\ Em(g, lugar)' \in SUBSET Threads
  BY DEF Em
<1>2. IsFiniteSet(Em(g, lugar)) /\ IsFiniteSet(Em(g, lugar)')
  BY <1>1, ThreadsFinitas, FS_Subset
<1>3. QED
  BY <1>2, FS_CardinalityType

\* A thread that moves leaves one place and appears in another.
LEMMA VaiEm ==
    ASSUME TypeOK, NEW t \in Threads, NEW x, Vai(t, x),
           NEW g \in SUBSET Threads, NEW lugar
    PROVE  Em(g, lugar)' = IF t \in g /\ x = lugar THEN Em(g, lugar) \cup {t}
                           ELSE Em(g, lugar) \ {t}
BY DEF Vai, Em, TypeOK

\* An empty queue owes nothing to a reader.
LEMMA VaziaLembra ==
    ASSUME blocos' = <<>>
    PROVE  LeitorLembrado'
<1>1. Len(blocos') = 0
  OBVIOUS
<1>2. Escritores \in SUBSET Threads /\ Leitores \in SUBSET Threads
  BY DEF Threads
<1>3. /\ Cardinality(Em(Escritores, "avisar_dados")') \in Nat
      /\ Cardinality(Em(Leitores, "trava")') \in Nat
  BY <1>2, EmFinito
<1>4. QED
  BY <1>1, <1>3 DEF LeitorLembrado

\* Nor does a step that takes away no signal and no reader on its way.
LEMMA MantemLembra ==
    ASSUME LeitorLembrado, blocos' = blocos,
           Em(Leitores, "espera")' \subseteq Em(Leitores, "espera"),
           Em(Escritores, "avisar_dados") \subseteq Em(Escritores, "avisar_dados")',
           Em(Leitores, "trava") \subseteq Em(Leitores, "trava")',
           TypeOK
    PROVE  LeitorLembrado'
<1>1. Escritores \in SUBSET Threads /\ Leitores \in SUBSET Threads
  BY DEF Threads
<1>2. /\ IsFiniteSet(Em(Escritores, "avisar_dados")')
      /\ IsFiniteSet(Em(Leitores, "trava")')
      /\ Cardinality(Em(Escritores, "avisar_dados")) \in Nat
      /\ Cardinality(Em(Escritores, "avisar_dados")') \in Nat
      /\ Cardinality(Em(Leitores, "trava")) \in Nat
      /\ Cardinality(Em(Leitores, "trava")') \in Nat
  BY <1>1, EmFinito
<1>3. /\ Cardinality(Em(Escritores, "avisar_dados"))
           <= Cardinality(Em(Escritores, "avisar_dados")')
      /\ Cardinality(Em(Leitores, "trava")) <= Cardinality(Em(Leitores, "trava")')
  BY <1>2, FS_Subset
<1>4. Len(blocos) \in Nat
  BY DEF TypeOK
<1>5. QED
  BY <1>2, <1>3, <1>4 DEF LeitorLembrado

\* A block comes with its signal.
LEMMA InserirLembra ==
    ASSUME IInv, LeitorLembrado, NEW t \in Escritores, Inserir(t)
    PROVE  LeitorLembrado'
<1>1. t \in Threads /\ t \notin Leitores
  BY ThreadsDisjuntas DEF Threads
<1>2. Escritores \in SUBSET Threads /\ Leitores \in SUBSET Threads
  BY DEF Threads
<1>3. TypeOK /\ Vai(t, "avisar_dados") /\ pc[t] = "trava"
  BY DEF IInv, Inserir, Sair
<1>4. /\ Em(Escritores, "avisar_dados")' = Em(Escritores, "avisar_dados") \cup {t}
      /\ Em(Leitores, "trava")' = Em(Leitores, "trava")
      /\ Em(Leitores, "espera")' = Em(Leitores, "espera")
  <2>1. /\ Em(Escritores, "avisar_dados")' = Em(Escritores, "avisar_dados") \cup {t}
        /\ Em(Leitores, "trava")' = Em(Leitores, "trava") \ {t}
        /\ Em(Leitores, "espera")' = Em(Leitores, "espera") \ {t}
    BY <1>1, <1>2, <1>3, VaiEm
  <2>2. QED
    BY <1>1, <2>1 DEF Em
<1>5. t \notin Em(Escritores, "avisar_dados")
  BY <1>3 DEF Em
<1>6. Cardinality(Em(Escritores, "avisar_dados")')
        = Cardinality(Em(Escritores, "avisar_dados")) + 1
  BY <1>2, <1>4, <1>5, EmFinito, FS_AddElement
<1>7. Len(blocos') = Len(blocos) + 1 /\ Len(blocos) \in Nat
  <2>1. bloco[t] \in Blocos /\ blocos \in Seq(Blocos)
    BY DEF IInv, TypeOK
  <2>2. QED
    BY <2>1, AppendProperties DEF Inserir
<1>8. QED
  BY <1>2, <1>4, <1>6, <1>7, EmFinito DEF LeitorLembrado

\* A reader takes a block with it, and no other stays behind without a signal.
LEMMA RetirarLembra ==
    ASSUME IInv, LeitorLembrado, NEW t \in Leitores, Retirar(t)
    PROVE  LeitorLembrado'
<1>1. t \in Threads /\ t \notin Escritores
  BY ThreadsDisjuntas DEF Threads
<1>2. Escritores \in SUBSET Threads /\ Leitores \in SUBSET Threads
  BY DEF Threads
<1>3. TypeOK /\ Vai(t, "avisar_espaco") /\ pc[t] = "trava"
  BY DEF IInv, Retirar, Sair
<1>4. /\ Em(Escritores, "avisar_dados")' = Em(Escritores, "avisar_dados")
      /\ Em(Leitores, "trava")' = Em(Leitores, "trava") \ {t}
      /\ Em(Leitores, "espera")' \subseteq Em(Leitores, "espera")
  <2>1. /\ Em(Escritores, "avisar_dados")' = Em(Escritores, "avisar_dados") \ {t}
        /\ Em(Leitores, "trava")' = Em(Leitores, "trava") \ {t}
        /\ Em(Leitores, "espera")' = Em(Leitores, "espera") \ {t}
    BY <1>1, <1>2, <1>3, VaiEm
  <2>2. QED
    BY <1>1, <2>1 DEF Em
<1>5. t \in Em(Leitores, "trava")
  BY <1>3 DEF Em
<1>6. Cardinality(Em(Leitores, "trava")') = Cardinality(Em(Leitores, "trava")) - 1
  BY <1>2, <1>4, <1>5, EmFinito, FS_RemoveElement
<1>7. Len(blocos') = Len(blocos) - 1 /\ Len(blocos) \in Nat
  <2>1. blocos \in Seq(Blocos) /\ blocos # <<>> /\ blocos' = Tail(blocos)
    BY DEF IInv, TypeOK, Retirar
  <2>2. QED
    BY <2>1, Cabeca
<1>8. QED
  BY <1>2, <1>4, <1>6, <1>7, EmFinito DEF LeitorLembrado

\* notify_one of a block passes its signal to a sleeping reader, if there is one.
LEMMA AvisarLembra ==
    ASSUME IInv, LeitorLembrado, NEW t \in Escritores, AvisarDados(t)
    PROVE  LeitorLembrado'
<1>1. t \in Threads /\ t \notin Leitores
  BY ThreadsDisjuntas DEF Threads
<1>2. Escritores \in SUBSET Threads /\ Leitores \in SUBSET Threads
  BY DEF Threads
<1>3. TypeOK /\ pc[t] = "avisar_dados" /\ blocos' = blocos
  BY DEF IInv, AvisarDados, interior
<1>4. CASE \A d \in Leitores : pc[d] # "espera"
  <2>1. Vai(t, "fora")
    BY <1>4 DEF AvisarDados, NotificarUm
  <2>2. Em(Leitores, "espera")' = Em(Leitores, "espera") \ {t}
    BY <1>1, <1>2, <1>3, <2>1, VaiEm
  <2>3. Em(Leitores, "espera")' = {}
    BY <1>4, <2>2 DEF Em
  <2>4. QED
    BY <2>3 DEF LeitorLembrado
<1>5. ASSUME NEW d \in Leitores, pc[d] = "espera",
             pc' = [pc EXCEPT ![d] = "trava", ![t] = "fora"]
      PROVE  LeitorLembrado'
  <2>1. d # t /\ d \in Threads
    BY <1>1 DEF Threads
  <2>2. /\ Em(Escritores, "avisar_dados")' = Em(Escritores, "avisar_dados") \ {t}
        /\ Em(Leitores, "trava")' = Em(Leitores, "trava") \cup {d}
    BY <1>1, <1>2, <1>3, <1>5, <2>1, ThreadsDisjuntas DEF Em, TypeOK
  <2>3. /\ t \in Em(Escritores, "avisar_dados") /\ d \notin Em(Leitores, "trava")
        /\ d \in Em(Leitores, "espera")
    BY <1>3, <1>5 DEF Em
  <2>4. /\ Cardinality(Em(Escritores, "avisar_dados")')
             = Cardinality(Em(Escritores, "avisar_dados")) - 1
        /\ Cardinality(Em(Leitores, "trava")') = Cardinality(Em(Leitores, "trava")) + 1
    BY <1>2, <2>2, <2>3, EmFinito, FS_AddElement, FS_RemoveElement
  <2>5. Len(blocos') = Len(blocos) /\ Len(blocos) \in Nat
    BY <1>3 DEF TypeOK
  <2>6. QED
    BY <1>2, <2>3, <2>4, <2>5, EmFinito DEF LeitorLembrado
<1>6. QED
  BY <1>4, <1>5 DEF AvisarDados, NotificarUm

\* A thread that goes from a place where nobody is counted on, or wakes others,
\* takes no signal for the readers away.
LEMMA OutrosLembram ==
    ASSUME IInv, LeitorLembrado,
           \/ \E t \in Escritores \cup Leitores : Espera(t)
           \/ \E t \in Escritores : \/ EscreverGrandeDemais(t) \/ EscreverBloco(t)
                                    \/ EscritaSemEfeito(t) \/ EscritaSemEspaco(t)
           \/ \E t \in Leitores : LerBloco(t) \/ AvisarEspaco(t)
           \/ \E t \in Controladores : \/ Finalizar(t)
                                       \/ AvisarLeitores(t) \/ AvisarEscritores(t)
    PROVE  LeitorLembrado'
<1> DEFINE Sinais == Em(Escritores, "avisar_dados")
<1> DEFINE Andam == Em(Leitores, "trava")
<1> DEFINE Dormem == Em(Leitores, "espera")
<1> DEFINE Mantem == /\ blocos' = blocos /\ Dormem' \subseteq Dormem
                     /\ Sinais \subseteq Sinais' /\ Andam \subseteq Andam'
<1>1. TypeOK
  BY DEF IInv
<1>2. ASSUME NEW t \in Escritores \cup Leitores, Espera(t) PROVE Mantem
  <2>1. blocos' = blocos /\ pc' \in {pc, [pc EXCEPT ![t] = "trava"]}
    BY <1>2 DEF Espera, Vencer, EsperaVencida, DespertarEspurio, Vai, interior
  <2>2. pc' # pc => pc[t] = "espera"
    BY <1>2 DEF Espera, Vencer, EsperaVencida, DespertarEspurio
  <2>3. QED
    BY <1>1, <2>1, <2>2 DEF Em, TypeOK, Threads
<1>3. ASSUME NEW t \in Escritores,
             \/ EscreverGrandeDemais(t) \/ EscreverBloco(t)
             \/ EscritaSemEfeito(t) \/ EscritaSemEspaco(t)
      PROVE  Mantem
  <2>1. blocos' = blocos /\ \E x : Vai(t, x)
    BY <1>3 DEF EscreverGrandeDemais, EscreverBloco, EscritaSemEfeito,
                EscritaSemEspaco, EsperarOuDesistir, Chamar, Sair, interior
  <2>2. pc[t] \in {"fora", "trava"}
    BY <1>3 DEF EscreverGrandeDemais, EscreverBloco, EscritaSemEfeito,
                EscritaSemEspaco, Chamar
  <2>3. t \notin Leitores
    BY ThreadsDisjuntas
  <2>4. QED
    BY <1>1, <2>1, <2>2, <2>3 DEF Em, Vai, TypeOK, Threads
<1>4. ASSUME NEW t \in Leitores, LerBloco(t) PROVE Mantem
  <2>1. blocos' = blocos /\ Vai(t, "trava")
    BY <1>4 DEF LerBloco, Chamar, interior
  <2>2. t \notin Escritores
    BY ThreadsDisjuntas
  <2>3. QED
    BY <1>1, <2>1, <2>2 DEF Em, Vai, TypeOK, Threads
<1>5. ASSUME NEW t \in Controladores, Finalizar(t) PROVE Mantem
  <2>1. blocos' = blocos /\ \E x : Vai(t, x)
    BY <1>5 DEF Finalizar, Chamar
  <2>2. t \notin Escritores /\ t \notin Leitores
    BY ThreadsDisjuntas
  <2>3. QED
    BY <1>1, <2>1, <2>2 DEF Em, Vai, TypeOK, Threads
<1>6. ASSUME NEW t \in Leitores \cup Controladores, NEW grupo, NEW x,
             pc[t] \notin {"trava", "espera"}, x \notin {"trava", "espera"},
             NotificarTodos(t, grupo, x), blocos' = blocos
      PROVE  Mantem
  <2>1. t \notin Escritores
    BY <1>6, ThreadsDisjuntas
  <2>2. \A d \in Threads \ {t} : pc'[d] = pc[d] \/ (pc[d] = "espera" /\ pc'[d] = "trava")
    BY <1>6 DEF NotificarTodos
  <2>3. t \in Threads => pc'[t] = x
    BY <1>6 DEF NotificarTodos
  <2>4. QED
    BY <1>6, <2>1, <2>2, <2>3 DEF Em, Threads
<1>7. ASSUME NEW t \in Leitores, AvisarEspaco(t) PROVE Mantem
  BY <1>6, <1>7 DEF AvisarEspaco, interior
<1>8. ASSUME NEW t \in Controladores, AvisarLeitores(t) \/ AvisarEscritores(t)
      PROVE  Mantem
  BY <1>6, <1>8 DEF AvisarLeitores, AvisarEscritores, interior
<1>9. Mantem
  BY <1>2, <1>3, <1>4, <1>5, <1>7, <1>8
<1>10. QED
  BY <1>1, <1>9, MantemLembra

\* The readers' half: every step keeps it.
LEMMA LeitorPasso ==
    ASSUME IInv, LeitorLembrado, [Next]_vars
    PROVE  LeitorLembrado'
<1>1. CASE UNCHANGED vars
  BY <1>1 DEF vars, interior, LeitorLembrado, Em
<1>2. CASE \E t \in Escritores : Inserir(t)
  BY <1>2, InserirLembra
<1>3. CASE \E t \in Escritores : AvisarDados(t)
  BY <1>3, AvisarLembra
<1>4. CASE \E t \in Leitores : Retirar(t)
  BY <1>4, RetirarLembra
<1>5. CASE \/ \E t \in Leitores : \/ LeituraCancelada(t) \/ FimDoFluxo(t)
                                  \/ LeituraSemDados(t)
           \/ \E t \in Controladores : Cancelar(t)
  <2>1. estado = "Cancelado" => blocos = <<>>
    BY DEF IInv, FilaExata
  <2>2. blocos' = <<>>
    BY <1>5, <2>1 DEF LeituraCancelada, FimDoFluxo, LeituraSemDados,
                      EsperarOuDesistir, Cancelar, interior
  <2>3. QED
    BY <2>2, VaziaLembra
<1>6. QED
  BY <1>1, <1>2, <1>3, <1>4, <1>5, OutrosLembram
     DEF Next, Escrita, Leitura, Controle

\* A step that lets no writer fall asleep, makes no room and keeps the readers
\* that will signal.
LEMMA MantemEspaco ==
    ASSUME EscritorLembrado, TypeOK,
           estado' = estado,
           blocos' = blocos, bytes_em_fila' = bytes_em_fila,
           \A w \in Em(Escritores, "espera")' :
               w \in Em(Escritores, "espera") /\ bloco'[w] = bloco[w],
           Em(Leitores, "avisar_espaco") \subseteq Em(Leitores, "avisar_espaco")'
    PROVE  EscritorLembrado'
<1>1. \A w \in Em(Escritores, "espera")' : Cabe(bloco[w])' => Cabe(bloco[w])
  BY DEF Cabe
<1>2. QED
  BY <1>1 DEF EscritorLembrado

\* The writers' half. Room is made by Retirar, whose reader goes on to signal
\* all writers, and a writer falls asleep only where its block does not fit.
LEMMA EscritorPasso ==
    ASSUME IInv, EscritorLembrado, [Next]_vars
    PROVE  EscritorLembrado'
<1> DEFINE Dormem == Em(Escritores, "espera")
<1> DEFINE Avisam == Em(Leitores, "avisar_espaco")
<1> DEFINE Mantem == /\ UNCHANGED <<estado, blocos, bytes_em_fila>>
                     /\ \A w \in Dormem' : w \in Dormem /\ bloco'[w] = bloco[w]
                     /\ Avisam \subseteq Avisam'
<1>a. TypeOK
  BY DEF IInv
<1>b. Mantem => EscritorLembrado'
  BY <1>a, MantemEspaco
<1>1. CASE UNCHANGED vars
  BY <1>1, <1>b DEF vars, interior, locais, Em
<1>2. ASSUME NEW t \in Escritores, Inserir(t) PROVE EscritorLembrado'
  <2>1. t \in Threads /\ t \notin Leitores
    BY ThreadsDisjuntas DEF Threads
  <2>2. Vai(t, "avisar_dados") /\ estado' = estado /\ bloco' = bloco
    BY <1>2 DEF Inserir, Sair
  <2>3. Dormem' \subseteq Dormem /\ Avisam \subseteq Avisam'
    BY <1>a, <2>1, <2>2 DEF Em, Vai, TypeOK, Threads
  <2>4. /\ bytes_em_fila' >= bytes_em_fila /\ Len(blocos') >= Len(blocos)
        /\ bytes_em_fila \in Nat /\ bytes_em_fila' \in Nat
        /\ Len(blocos) \in Nat /\ Len(blocos') \in Nat
    <3>1. bloco[t] \in Blocos /\ blocos \in Seq(Blocos) /\ bytes_em_fila \in Nat
      BY <1>a DEF TypeOK
    <3>2. tamanho[bloco[t]] \in Nat
      BY <3>1, TamanhoNat
    <3>3. /\ bytes_em_fila' = bytes_em_fila + tamanho[bloco[t]]
          /\ blocos' = Append(blocos, bloco[t])
      BY <1>2 DEF Inserir
    <3>4. Len(blocos') = Len(blocos) + 1 /\ Len(blocos) \in Nat
      BY <3>1, <3>3, AppendProperties
    <3>5. QED
      BY <3>1, <3>2, <3>3, <3>4
  <2>5. ASSUME NEW w \in Dormem', Cabe(bloco[w])' PROVE Cabe(bloco[w])
    <3>1. w \in Escritores /\ tamanho[bloco[w]] \in Nat
      BY <1>a, <2>5, TamanhoNat DEF Em, TypeOK
    <3>2. tamanho[bloco[w]] <= capacidade_bytes - bytes_em_fila' /\ Len(blocos') < maximo_blocos
      BY <2>2, <2>5 DEF Cabe
    <3>3. QED
      BY <2>4, <3>1, <3>2, ConfiguracaoValida DEF Cabe
  <2>6. QED
    BY <2>2, <2>3, <2>5 DEF EscritorLembrado
<1>3. ASSUME NEW t \in Escritores, EscritaSemEspaco(t) PROVE EscritorLembrado'
  <2>1. t \in Threads /\ t \notin Leitores
    BY ThreadsDisjuntas DEF Threads
  <2>2. /\ UNCHANGED <<estado, blocos, bytes_em_fila, bloco>> /\ \E x : Vai(t, x)
        /\ ~Cabe(bloco[t])
    BY <1>3 DEF EscritaSemEspaco, EsperarOuDesistir, Sair, interior
  <2>3. Dormem' \subseteq Dormem \cup {t} /\ Avisam \subseteq Avisam'
    BY <1>a, <2>1, <2>2 DEF Em, Vai, TypeOK, Threads
  <2>4. \A w \in Dormem' : Cabe(bloco[w])' => w \in Dormem /\ Cabe(bloco[w])
    BY <2>2, <2>3 DEF Cabe
  <2>5. QED
    BY <2>2, <2>3, <2>4 DEF EscritorLembrado
<1>4. ASSUME NEW t \in Escritores,
             EscreverGrandeDemais(t) \/ EscreverBloco(t) \/ EscritaSemEfeito(t)
      PROVE  Mantem
  <2>1. t \in Threads /\ t \notin Leitores
    BY ThreadsDisjuntas DEF Threads
  <2>2. UNCHANGED <<estado, blocos, bytes_em_fila>>
    BY <1>4 DEF EscreverGrandeDemais, EscreverBloco, EscritaSemEfeito, interior
  <2>3. Vai(t, "fora") \/ Vai(t, "trava")
    BY <1>4 DEF EscreverGrandeDemais, EscreverBloco, EscritaSemEfeito, Chamar, Sair
  <2>4. \A w \in Escritores \ {t} : bloco'[w] = bloco[w]
    BY <1>4, <1>a DEF EscreverGrandeDemais, EscreverBloco, EscritaSemEfeito, TypeOK
  <2>5. Dormem' \subseteq Dormem \ {t} /\ Avisam \subseteq Avisam'
    BY <1>a, <2>1, <2>3 DEF Em, Vai, TypeOK, Threads
  <2>6. QED
    BY <2>2, <2>4, <2>5 DEF Em
<1>5. ASSUME NEW t \in Escritores, AvisarDados(t) PROVE Mantem
  <2>1. t \in Threads /\ t \notin Leitores
    BY ThreadsDisjuntas DEF Threads
  <2>2. UNCHANGED <<estado, blocos, bytes_em_fila, bloco>>
    BY <1>5 DEF AvisarDados, interior, locais
  <2>3. \A d \in Threads \ {t} : pc'[d] = pc[d] \/ (pc[d] = "espera" /\ pc'[d] = "trava")
    BY <1>5, <1>a DEF AvisarDados, NotificarUm, Vai, TypeOK
  <2>4. pc'[t] = "fora"
    BY <1>5, <1>a, <2>1 DEF AvisarDados, NotificarUm, Vai, TypeOK
  <2>5. QED
    BY <2>1, <2>2, <2>3, <2>4 DEF Em, Threads
<1>6. ASSUME NEW t \in Leitores, Retirar(t) PROVE EscritorLembrado'
  <2>1. pc'[t] = "avisar_espaco"
    BY <1>6, <1>a DEF Retirar, Sair, Vai, TypeOK, Threads
  <2>2. Avisam' # {}
    BY <2>1 DEF Em
  <2>3. QED
    BY <2>2 DEF EscritorLembrado
<1>7. ASSUME NEW t \in Leitores,
             \/ LerBloco(t) \/ LeituraCancelada(t) \/ FimDoFluxo(t)
             \/ LeituraSemDados(t)
      PROVE  Mantem
  <2>1. t \in Threads /\ t \notin Escritores
    BY ThreadsDisjuntas DEF Threads
  <2>2. /\ UNCHANGED <<estado, blocos, bytes_em_fila, bloco>> /\ \E x : Vai(t, x)
    BY <1>7 DEF LerBloco, LeituraCancelada, FimDoFluxo, LeituraSemDados,
                EsperarOuDesistir, Chamar, Sair, interior
  <2>3. pc[t] \in {"fora", "trava"}
    BY <1>7 DEF LerBloco, LeituraCancelada, FimDoFluxo, LeituraSemDados, Chamar
  <2>4. QED
    BY <1>a, <2>1, <2>2, <2>3 DEF Em, Vai, TypeOK, Threads
<1>8. ASSUME NEW t \in Threads, AvisarEspaco(t) \/ AvisarEscritores(t)
      PROVE  EscritorLembrado'
  <2>1. NotificarTodos(t, Escritores, "fora")
    BY <1>8 DEF AvisarEspaco, AvisarEscritores
  <2>2. Dormem' = {}
    BY <2>1 DEF NotificarTodos, Em, Threads
  <2>3. QED
    BY <2>2 DEF EscritorLembrado
<1>9. ASSUME NEW t \in Controladores, AvisarLeitores(t) PROVE Mantem
  <2>1. t \in Threads /\ t \notin Escritores /\ t \notin Leitores
    BY ThreadsDisjuntas DEF Threads
  <2>2. UNCHANGED <<estado, blocos, bytes_em_fila, bloco>>
    BY <1>9 DEF AvisarLeitores, interior, locais
  <2>3. \A d \in Threads \ {t} : pc'[d] = pc[d] \/ (pc[d] = "espera" /\ pc'[d] = "trava")
    BY <1>9 DEF AvisarLeitores, NotificarTodos
  <2>4. QED
    BY <2>1, <2>2, <2>3 DEF Em, Threads
<1>10. ASSUME NEW t \in Controladores, Finalizar(t) \/ Cancelar(t)
       PROVE  EscritorLembrado'
  <2>1. estado' # "Aberto"
    BY <1>10, <1>a DEF Finalizar, Cancelar, TypeOK
  <2>2. QED
    BY <2>1 DEF EscritorLembrado
<1>11. ASSUME NEW t \in Escritores \cup Leitores, Espera(t) PROVE Mantem
  <2>1. UNCHANGED <<estado, blocos, bytes_em_fila, bloco>>
    BY <1>11 DEF Espera, Vencer, EsperaVencida, DespertarEspurio, interior, locais
  <2>2. pc' \in {pc, [pc EXCEPT ![t] = "trava"]} /\ (pc' # pc => pc[t] = "espera")
    BY <1>11 DEF Espera, Vencer, EsperaVencida, DespertarEspurio, Vai
  <2>3. QED
    BY <1>a, <2>1, <2>2 DEF Em, TypeOK, Threads
<1>12. QED
  <2>1. CASE \E t \in Escritores : Escrita(t)
    BY <1>b, <1>2, <1>3, <1>4, <1>5, <2>1 DEF Escrita
  <2>2. CASE \E t \in Leitores : Leitura(t)
    BY <1>b, <1>6, <1>7, <1>8, <2>2 DEF Leitura, Threads
  <2>3. CASE \E t \in Controladores : Controle(t)
    BY <1>b, <1>8, <1>9, <1>10, <2>3 DEF Controle, Threads
  <2>4. CASE \E t \in Escritores \cup Leitores : Espera(t)
    BY <1>b, <1>11, <2>4
  <2>5. QED
    BY <1>1, <2>1, <2>2, <2>3, <2>4 DEF Next

\* notify_one after an insertion and notify_all after a removal lose no
\* wake-up: nobody sleeps, with no signal on its way, beside a block or the
\* room it waits for (escrever_bloco and ler_bloco, which signal after they
\* drop the mutex).
THEOREM SemEsquecidos == Spec => []NinguemEsquecido
<1>1. Init => LeitorLembrado /\ EscritorLembrado
  BY DEF Init, LeitorLembrado, EscritorLembrado, Em, Threads
<1>2. IInv /\ LeitorLembrado /\ EscritorLembrado /\ [Next]_vars
        => LeitorLembrado' /\ EscritorLembrado'
  BY LeitorPasso, EscritorPasso
<1>3. LeitorLembrado /\ EscritorLembrado => NinguemEsquecido
  BY DEF LeitorLembrado, EscritorLembrado, NinguemEsquecido
<1>4. QED
  BY <1>1, <1>2, <1>3, Invariante, PTL DEF Spec

-----------------------------------------------------------------------------
\* Refinement of the abstract FIFO.

LEMMA InserirAceita ==
    ASSUME IInv, NEW t \in Escritores, Inserir(t)
    PROVE  Fila!Aceitar
<1>1. bloco[t] \in Blocos /\ aceitos' = Append(aceitos, bloco[t])
  BY DEF Inserir, IInv, TypeOK
<1>2. Len(blocos) < maximo_blocos /\ estado = "Aberto"
  BY DEF Inserir, Cabe
<1>3. Len(blocos) = Len(aceitos) - Len(entregues)
  BY <1>2 DEF IInv, FilaExata
<1>4. UNCHANGED <<estado, entregues, fim>>
  BY DEF Inserir
<1>5. QED
  BY <1>1, <1>2, <1>3, <1>4 DEF Fila!Aceitar

LEMMA RetirarEntrega ==
    ASSUME IInv, NEW t \in Leitores, Retirar(t)
    PROVE  Fila!Entregar
<1>1. /\ estado # "Cancelado" /\ blocos # <<>> /\ blocos \in Seq(Blocos)
      /\ entregues' = Append(entregues, Head(blocos))
      /\ UNCHANGED <<estado, aceitos, fim>>
  BY DEF Retirar, IInv, TypeOK
<1>2. Head(blocos) = blocos[1] /\ Len(blocos) \in Nat \ {0}
  BY <1>1, Cabeca
<1>3. /\ Len(blocos) = Len(aceitos) - Len(entregues)
      /\ \A i \in 1..Len(blocos) : blocos[i] = aceitos[Len(entregues) + i]
  BY <1>1 DEF IInv, FilaExata
<1>4. Head(blocos) = aceitos[Len(entregues) + 1]
  BY <1>2, <1>3
<1>5. Len(entregues) < Len(aceitos)
  <2>1. Len(entregues) \in Nat /\ Len(aceitos) \in Nat
    BY DEF IInv, TypeOK
  <2>2. QED
    BY <1>2, <1>3, <2>1
<1>6. QED
  BY <1>1, <1>4, <1>5 DEF Fila!Entregar

LEMMA FimEntregaFim ==
    ASSUME IInv, NEW t \in Leitores, FimDoFluxo(t)
    PROVE  Fila!EntregarFim
<1>1. /\ estado = "Finalizado" /\ blocos = <<>> /\ fim' = TRUE
      /\ UNCHANGED <<estado, aceitos, entregues>>
  BY DEF FimDoFluxo, interior
<1>2. /\ aceitos \in Seq(Blocos) /\ entregues \in Seq(Blocos)
      /\ Len(aceitos) \in Nat /\ Len(entregues) \in Nat
  BY DEF IInv, TypeOK
<1>3. Len(entregues) = Len(aceitos)
  <2>1. Len(blocos) = Len(aceitos) - Len(entregues)
    BY <1>1 DEF IInv, FilaExata
  <2>2. QED
    BY <1>1, <1>2, <2>1
<1>4. \A i \in 1..Len(entregues) : entregues[i] = aceitos[i]
  BY DEF IInv, Historia
<1>5. entregues = aceitos
  BY <1>2, <1>3, <1>4, SeqEqual
<1>6. QED
  BY <1>1, <1>5 DEF Fila!EntregarFim

\* Steps of the code that the abstraction does not see.
LEMMA QuietoGagueja == Quieto => UNCHANGED Fila!vars
BY DEF Quieto, Fila!vars, interior, historia

LEMMA PassoAbstrato == IInv /\ [Next]_vars => [Fila!Next]_(Fila!vars)
<1> SUFFICES ASSUME IInv, [Next]_vars PROVE [Fila!Next]_(Fila!vars)
  OBVIOUS
<1>1. CASE UNCHANGED vars
  BY <1>1 DEF vars, Fila!vars, interior, historia
<1>2. CASE \E t \in Escritores : Inserir(t)
  BY <1>2, InserirAceita DEF Fila!Next
<1>3. CASE \E t \in Leitores : Retirar(t)
  BY <1>3, RetirarEntrega DEF Fila!Next
<1>4. CASE \E t \in Leitores : FimDoFluxo(t)
  BY <1>4, FimEntregaFim DEF Fila!Next
<1>5. CASE \E t \in Controladores : Finalizar(t)
  BY <1>5 DEF Finalizar, Fila!Next, Fila!Finalizar, Fila!vars, historia
<1>6. CASE \E t \in Controladores : Cancelar(t)
  BY <1>6 DEF Cancelar, Fila!Next, Fila!Cancelar, Fila!vars, historia
<1>7. CASE /\ Next
           /\ ~ \E t \in Escritores : Inserir(t)
           /\ ~ \E t \in Leitores : Retirar(t) \/ FimDoFluxo(t)
           /\ ~ \E t \in Controladores : Finalizar(t) \/ Cancelar(t)
  <2>1. Quieto
    BY <1>7, QuietoTipo DEF Next, Escrita, Leitura, Controle, IInv
  <2>2. QED
    BY <2>1, QuietoGagueja
<1>8. QED
  BY <1>1, <1>2, <1>3, <1>4, <1>5, <1>6, <1>7

\* The stream of fluxo.rs implements the bounded FIFO: blocks come out once, in
\* the order they went in, and the end is announced only when all are out.
THEOREM Refinamento == Spec => EFila
<1>1. Init => Fila!Init
  BY DEF Init, Fila!Init
<1>2. IInv /\ [Next]_vars => [Fila!Next]_(Fila!vars)
  BY PassoAbstrato
<1>3. QED
  BY <1>1, <1>2, Invariante, PTL DEF Spec, EFila, Fila!Spec

=============================================================================
