---------------------- MODULE SharedSynthesisProofs ----------------------
(* Proofs about the shared synthesis jobs, for any keys, consumers, chunks    *)
(* and memory limits: the accounts of references and of the memory budget are *)
(* exact, a buffer is closed once nobody uses it, readers find what they may  *)
(* ask for, a key has one live job, and what is copied is complete.           *)
EXTENDS SharedSynthesis, FiniteSetTheorems, TLAPS

\* The types of a job and of a consumer.
Trabalho ==
    [chave : Chaves, refs : Nat, guarda : BOOLEAN, stop : BOOLEAN,
     prod : {"vaga", "gerando", "parando", "feito"},
     cancelado : BOOLEAN, pedido : BOOLEAN, slot : BOOLEAN,
     rota : {"local", "worker"},
     io : {"nada", "despejando", "gravando", "falhou"}, ioCancelado : BOOLEAN,
     recebidos : Nat, tamanho : Nat, memoria : 0..LimiteMemoria,
     spool : BOOLEAN, arquivo : Nat, lixo : BOOLEAN, ruim : BOOLEAN,
     ended : BOOLEAN, erro : BOOLEAN, closed : BOOLEAN,
     agendada : {"nada", "prod", "cache", "io"},
     cache : {"nada", "copiando", "feita", "falhou"}]

Lugar == [pc : {"fora", "vaga", "ouvindo", "terminando", "produz", "copia",
                "solto", "fim"},
          job : Nat, off : Nat, lendo : BOOLEAN]

\* What the buffer has for its readers.
Guardado(b) == IF b.spool THEN b.arquivo ELSE b.memoria

\* Who appends, and where an append may be.
EscritaBoa(b) ==
    /\ b.prod = "vaga" => b.io = "nada"
    /\ b.prod = "parando" => ~Direto(b)
    /\ b.prod # "gerando" /\ b.io # "nada" => ~Direto(b)
    /\ b.io \in {"despejando", "gravando"} => b.spool
    /\ b.io = "falhou" => b.ruim
    /\ b.lixo => b.ruim

\* A closed or cut job has no user left, and a closed one no producer.
FimBom(b) ==
    /\ b.pedido => b.stop /\ b.refs = 0
    /\ b.closed => /\ b.prod = "feito" /\ b.io = "nada"
                   /\ b.memoria = 0 /\ b.refs = 0
    /\ b.ended \/ b.erro => b.prod = "feito"
    /\ b.ended /\ ~b.erro => b.io = "nada"
    /\ b.cache # "nada" => b.ended /\ ~b.erro
    /\ b.ioCancelado => b.erro

\* The audio a reader may ask for is stored.
AudioBom(b) ==
    ~b.closed /\ ~b.ruim =>
        b.tamanho <= IF b.io = "despejando" THEN b.memoria ELSE Guardado(b)

\* Without errors, what is stored is what was received but for the append in
\* progress.
AudioExato(b) ==
    ~b.closed /\ ~b.ruim /\ ~b.erro =>
        /\ b.tamanho = IF b.io = "despejando" THEN b.memoria ELSE Guardado(b)
        /\ b.recebidos = IF b.io = "nada" THEN b.tamanho ELSE b.tamanho + 1

Bom(b) == b \in Trabalho /\ EscritaBoa(b) /\ FimBom(b) /\ AudioBom(b) /\ AudioExato(b)

\* The consumers of cs that will release job j.
Usuarios(cs, j) ==
    {c \in Consumidores :
        /\ cs[c].pc \in {"vaga", "ouvindo", "terminando", "produz", "copia"}
        /\ cs[c].job = j}

Tipos ==
    /\ jobs \in Seq(Trabalho)
    /\ tabela \in [Chaves -> 0..Len(jobs)]
    /\ cons \in [Consumidores -> Lugar]
    /\ usado \in 0..Orcamento
    /\ encerrado \in BOOLEAN

Jobs == \A j \in DOMAIN jobs : Bom(jobs[j])

Tabela ==
    /\ \A k \in Chaves : tabela[k] # 0 => jobs[tabela[k]].chave = k
    /\ UmaPorChave

\* A reader has a read in a thread; only a shutdown leaves one without its job.
Leitores ==
    \A c \in Consumidores :
        /\ cons[c].job \in 0..Len(jobs)
        /\ cons[c].pc # "fora" => cons[c].job # 0
        /\ cons[c].pc = "fora" => cons[c] = Fora
        /\ cons[c].lendo => cons[c].pc \in {"ouvindo", "terminando", "solto"}
        /\ cons[c].pc = "solto" => encerrado

Referencias ==
    ~encerrado => \A j \in DOMAIN jobs : jobs[j].refs = Cardinality(Usuarios(cons, j))

Copias ==
    ~encerrado => \A j \in DOMAIN jobs : jobs[j].closed => jobs[j].cache # "copiando"

SemDisco ==
    "disco" \notin Ambiente => \A j \in DOMAIN jobs : ~jobs[j].ruim

IInv == Tipos /\ Jobs /\ Tabela /\ Leitores /\ Referencias /\ OrcamentoExato
        /\ Copias /\ SemDisco

-----------------------------------------------------------------------------
(* Jobs. *)

\* A step of job b to r that neither closes nor revives it.
Conserva(b, r) ==
    /\ Bom(r)
    /\ r.chave = b.chave /\ r.closed = b.closed
    /\ Vivo(r) => Vivo(b)
    /\ r.cache = "copiando" => b.cache = "copiando" \/ ~b.closed \/ encerrado
    /\ r.ruim => b.ruim \/ "disco" \in Ambiente

\* One that no account notices.
Muda(b, r) == Conserva(b, r) /\ r.refs = b.refs /\ r.memoria = b.memoria

\* A new job is sound.
LEMMA NovoBom ==
    ASSUME NEW k \in Chaves, NEW g \in BOOLEAN
    PROVE  Bom(NovoJob(k, g))
<1>1. NovoJob(k, g) \in Trabalho
  BY ConstantesAssumption DEF NovoJob, Trabalho
<1> QED
  BY <1>1 DEF NovoJob, Bom, EscritaBoa, FimBom, AudioBom, AudioExato, Guardado

\* A producer that fails.
LEMMA FracassoBom ==
    ASSUME NEW b, b \in Trabalho, EscritaBoa(b), FimBom(b), AudioBom(b),
           b.prod # "feito", b.io # "nada" => ~Direto(b)
    PROVE  Muda(b, Fracasso(b))
<1> DEFINE r == Fracasso(b)
<1>1. r \in Trabalho
  BY DEF Fracasso, Trabalho
<1>2. EscritaBoa(r)
  BY DEF Fracasso, Trabalho, EscritaBoa, Direto
<1>3. FimBom(r) /\ AudioBom(r) /\ AudioExato(r)
  BY DEF Fracasso, Trabalho, FimBom, AudioBom, AudioExato, Guardado
<1> QED
  BY <1>1, <1>2, <1>3 DEF Fracasso, Trabalho, Muda, Conserva, Bom, Vivo, FimBom

\* Closing keeps a job sound, and gives its memory back with its last user.
LEMMA FecharBom ==
    ASSUME NEW b, Bom(b)
    PROVE  /\ Bom(Fechar(b))
           /\ Fechar(b).chave = b.chave /\ Fechar(b).refs = b.refs
           /\ Fechar(b).ruim = b.ruim /\ Fechar(b).cache = b.cache
           /\ Fechar(b).stop = b.stop
           /\ b.closed => Fechar(b) = b
           /\ ~Fechar(b).closed => Fechar(b).memoria = b.memoria /\ ~b.closed
           /\ Fechar(b).closed /\ ~b.closed =>
                 Fechar(b).memoria = 0 /\ b.refs = 0 /\ b.cache # "copiando"
<1> USE DEF Bom, Trabalho
<1>1. CASE b.refs > 0 \/ b.agendada # "nada" \/ b.closed
  BY <1>1 DEF Fechar
<1>2. CASE ~(b.refs > 0 \/ b.agendada # "nada" \/ b.closed) /\ UltimoPendente(b) # "nada"
  <2>1. Fechar(b) = [b EXCEPT !.agendada = UltimoPendente(b)]
    BY <1>2 DEF Fechar
  <2>2. UltimoPendente(b) \in {"nada", "prod", "cache", "io"}
    BY DEF UltimoPendente
  <2>3. Fechar(b) \in Trabalho
    BY <2>1, <2>2
  <2> QED
    BY <2>1, <2>3, <1>2 DEF EscritaBoa, FimBom, AudioBom, AudioExato, Guardado, Direto
<1>3. CASE ~(b.refs > 0 \/ b.agendada # "nada" \/ b.closed) /\ UltimoPendente(b) = "nada"
  <2>1. Fechar(b) = [b EXCEPT !.closed = TRUE, !.memoria = 0]
    BY <1>3 DEF Fechar
  <2>2. /\ b.io = "nada" \/ Direto(b)
        /\ b.cache # "copiando" /\ b.prod = "feito"
    BY <1>3 DEF UltimoPendente
  <2>3. b.io = "nada"
    BY <2>2 DEF EscritaBoa
  <2>. 0 \in 0..LimiteMemoria
    BY ConstantesAssumption
  <2>4. Fechar(b) \in Trabalho
    BY <2>1
  <2>5. b.refs = 0
    BY <1>3
  <2> QED
    BY <2>1, <2>2, <2>3, <2>4, <2>5, <1>3
    DEF EscritaBoa, FimBom, AudioBom, AudioExato, Guardado, Direto
<1> QED
  BY <1>1, <1>2, <1>3

\* A step that may close job b, after which it is r.
Larga(b, r) ==
    /\ Bom(r)
    /\ r.chave = b.chave /\ r.ruim = b.ruim /\ r.cache = b.cache
    /\ Vivo(r) => Vivo(b)
    /\ b.closed => r.closed /\ r.memoria = b.memoria
    /\ ~r.closed => r.memoria = b.memoria
    /\ r.closed /\ ~b.closed => r.memoria = 0 /\ b.cache # "copiando"

\* A release: one user less, and a close with the last.
Solta(b, r) ==
    Larga(b, r) /\ r.refs = IF b.refs = 0 THEN 0 ELSE b.refs - 1

\* Releasing a job is such a step.
LEMMA LiberarBom ==
    ASSUME NEW b, Bom(b)
    PROVE  Solta(b, Liberar(b))
<1> DEFINE r == [b EXCEPT !.refs = IF @ = 0 THEN 0 ELSE @ - 1]
<1> DEFINE s == IF ~r.ended /\ r.prod # "feito" THEN Cortar(r) ELSE r
<1>1. /\ b \in Trabalho /\ b.refs \in Nat
      /\ r \in Trabalho
      /\ r.refs = IF b.refs = 0 THEN 0 ELSE b.refs - 1
  BY DEF Bom, Trabalho
<1>2. Bom(r)
  BY <1>1 DEF Bom, Trabalho, EscritaBoa, FimBom, AudioBom, AudioExato, Guardado, Direto
<1>3. CASE r.refs > 0
  <2>1. Liberar(b) = r /\ b.refs # 0
    BY <1>1, <1>3 DEF Liberar
  <2>2. /\ r.chave = b.chave /\ r.ruim = b.ruim /\ r.cache = b.cache
        /\ r.closed = b.closed /\ r.stop = b.stop /\ r.memoria = b.memoria
    BY <1>1 DEF Trabalho
  <2>3. ~b.closed
    BY <2>1 DEF Bom, FimBom
  <2> HIDE DEF r
  <2> QED
    BY ONLY <2>1, <2>2, <2>3, <1>1, <1>2 DEF Solta, Larga, Vivo
<1>4. CASE r.refs = 0
  <2>1. Bom(s)
    <3>1. Bom(Cortar(r))
      <4> HIDE DEF r
      <4>1. r \in Trabalho /\ Cortar(r) \in Trabalho
        <5> DEFINE x == r.cancelado \/ ~r.pedido
        <5>1. x \in BOOLEAN /\ r \in Trabalho
          BY <1>2 DEF Bom
        <5>2. Cortar(r) = [r EXCEPT !.stop = TRUE, !.pedido = TRUE, !.cancelado = x]
          BY DEF Cortar
        <5> HIDE DEF x
        <5> QED
          BY <5>1, <5>2 DEF Trabalho
      <4>2. EscritaBoa(Cortar(r)) /\ FimBom(Cortar(r))
        BY <1>2, <1>4, <4>1 DEF Cortar, Bom, Trabalho, EscritaBoa, FimBom, Direto
      <4>3. AudioBom(Cortar(r)) /\ AudioExato(Cortar(r))
        BY <1>2, <4>1 DEF Cortar, Bom, Trabalho, AudioBom, AudioExato, Guardado
      <4> QED
        BY <4>1, <4>2, <4>3 DEF Bom
    <3> QED
      BY <3>1, <1>2
  <2>2. /\ s.chave = b.chave /\ s.refs = r.refs /\ s.ruim = b.ruim
        /\ s.cache = b.cache /\ s.memoria = b.memoria /\ s.closed = b.closed
        /\ s.stop = FALSE => b.stop = FALSE
    BY <1>1 DEF Cortar, Trabalho
  <2>3. Liberar(b) = Fechar(s)
    BY <1>1, <1>4 DEF Liberar
  <2> HIDE DEF s, r
  <2>4. /\ s \in Trabalho /\ b \in Trabalho /\ Fechar(s) \in Trabalho
    BY <2>1, <1>1, FecharBom DEF Bom
  <2>5. s.closed \in BOOLEAN /\ b.closed \in BOOLEAN /\ s.stop \in BOOLEAN /\ b.stop \in BOOLEAN
        /\ Fechar(s).closed \in BOOLEAN
    BY <2>4 DEF Trabalho
  <2>6. /\ Bom(Fechar(s))
        /\ Fechar(s).chave = s.chave /\ Fechar(s).refs = s.refs
        /\ Fechar(s).ruim = s.ruim /\ Fechar(s).cache = s.cache
        /\ Fechar(s).stop = s.stop
        /\ s.closed => Fechar(s) = s
        /\ ~Fechar(s).closed => Fechar(s).memoria = s.memoria /\ ~s.closed
        /\ Fechar(s).closed /\ ~s.closed =>
              Fechar(s).memoria = 0 /\ s.refs = 0 /\ s.cache # "copiando"
    BY <2>1, FecharBom
  <2> QED
    BY ONLY <2>2, <2>3, <2>5, <2>6, <1>1 DEF Solta, Larga, Vivo
<1> QED
  BY <1>1, <1>3, <1>4 DEF Trabalho

\* The retry of a deferred close.
LEMMA RefazerBom ==
    ASSUME NEW b, Bom(b)
    PROVE  LET r == Fechar([b EXCEPT !.agendada = "nada"])
           IN  Larga(b, r) /\ r.refs = b.refs
<1> DEFINE s == [b EXCEPT !.agendada = "nada"]
<1>1. Bom(s)
  BY DEF Bom, Trabalho, EscritaBoa, FimBom, AudioBom, AudioExato, Guardado, Direto
<1>2. /\ s.chave = b.chave /\ s.refs = b.refs /\ s.ruim = b.ruim
      /\ s.cache = b.cache /\ s.memoria = b.memoria /\ s.closed = b.closed
      /\ s.stop = b.stop
  BY DEF Bom, Trabalho
<1> HIDE DEF s
<1>3. /\ Bom(Fechar(s))
      /\ Fechar(s).chave = s.chave /\ Fechar(s).refs = s.refs
      /\ Fechar(s).ruim = s.ruim /\ Fechar(s).cache = s.cache
      /\ Fechar(s).stop = s.stop
      /\ s.closed => Fechar(s) = s
      /\ ~Fechar(s).closed => Fechar(s).memoria = s.memoria /\ ~s.closed
      /\ Fechar(s).closed /\ ~s.closed =>
            Fechar(s).memoria = 0 /\ s.refs = 0 /\ s.cache # "copiando"
  BY <1>1, FecharBom
<1>4. s.closed \in BOOLEAN /\ Fechar(s).closed \in BOOLEAN
  BY <1>1, <1>3 DEF Bom, Trabalho
<1> QED
  BY ONLY <1>2, <1>3, <1>4 DEF Larga, Vivo, s

\* A slot is taken.
LEMMA TomarVagaMuda ==
    ASSUME NEW b, Bom(b), b.prod = "vaga", NEW x \in {"local", "worker"}
    PROVE  Muda(b, [b EXCEPT !.prod = "gerando", !.slot = TRUE, !.rota = x])
BY DEF Muda, Conserva, Vivo, Bom, Trabalho, EscritaBoa, FimBom, AudioBom, AudioExato,
       Guardado, Direto

\* A chunk is written.
LEMMA GravarMuda ==
    ASSUME NEW b, Bom(b), b.io = "gravando"
    PROVE  Muda(b, [b EXCEPT !.io = "nada", !.arquivo = @ + 1, !.tamanho = @ + 1])
<1> DEFINE r == [b EXCEPT !.io = "nada", !.arquivo = @ + 1, !.tamanho = @ + 1]
<1>1. r \in Trabalho
  <2> DEFINE x == b.arquivo + 1  y == b.tamanho + 1
  <2>1. x \in Nat /\ y \in Nat /\ b \in Trabalho
    BY DEF Bom, Trabalho
  <2>2. r = [b EXCEPT !.io = "nada", !.arquivo = x, !.tamanho = y]
    OBVIOUS
  <2> HIDE DEF x, y, r
  <2> QED
    BY <2>1, <2>2 DEF Trabalho
<1>2. EscritaBoa(r)
  BY DEF Bom, Trabalho, EscritaBoa, FimBom, Direto
<1>3. FimBom(r)
  BY DEF Bom, Trabalho, EscritaBoa, FimBom
<1>4. AudioBom(r)
  BY DEF Bom, Trabalho, EscritaBoa, FimBom, AudioBom, Guardado
<1>5. AudioExato(r)
  BY DEF Bom, Trabalho, EscritaBoa, FimBom, AudioExato, Guardado
<1>6. /\ r.chave = b.chave /\ r.refs = b.refs /\ r.memoria = b.memoria
      /\ r.closed = b.closed /\ r.stop = b.stop /\ r.cache = b.cache /\ r.ruim = b.ruim
  BY DEF Bom, Trabalho
<1> QED
  BY <1>1, <1>2, <1>3, <1>4, <1>5, <1>6 DEF Muda, Conserva, Bom, Vivo

\* A write fails.
LEMMA FalharDiscoMuda ==
    ASSUME NEW b, Bom(b), "disco" \in Ambiente,
           b.io \in {"despejando", "gravando"}, NEW x \in BOOLEAN
    PROVE  Muda(b, [b EXCEPT !.io = "falhou", !.ruim = TRUE,
                       !.lixo = @ \/ (x /\ b.io = "gravando")])
<1> DEFINE y == b.lixo \/ (x /\ b.io = "gravando")
           r == [b EXCEPT !.io = "falhou", !.ruim = TRUE, !.lixo = y]
<1>1. y \in BOOLEAN /\ b \in Trabalho
  BY DEF Bom
<1> HIDE DEF y
<1>2. r \in Trabalho
  BY <1>1 DEF Trabalho
<1>3. EscritaBoa(r) /\ FimBom(r)
  BY <1>1 DEF Bom, Trabalho, EscritaBoa, FimBom, Direto
<1>4. AudioBom(r) /\ AudioExato(r)
  BY <1>1 DEF Trabalho, AudioBom, AudioExato
<1>5. /\ r.chave = b.chave /\ r.refs = b.refs /\ r.memoria = b.memoria
      /\ r.closed = b.closed /\ r.stop = b.stop /\ r.cache = b.cache
  BY <1>1 DEF Trabalho
<1> HIDE DEF r
<1>6. Muda(b, r)
  BY <1>2, <1>3, <1>4, <1>5 DEF Muda, Conserva, Bom, Vivo
<1> QED
  BY <1>6 DEF r, y

\* The local engine takes over from a worker that sent nothing.
LEMMA FalharMuda ==
    ASSUME NEW b, Bom(b), b.prod = "gerando",
           b.io \in {"nada", "falhou"}, b.tamanho = 0
    PROVE  Muda(b, [[b EXCEPT !.io = "nada"] EXCEPT !.rota = "local", !.recebidos = 0])
<1> DEFINE r == [[b EXCEPT !.io = "nada"] EXCEPT !.rota = "local", !.recebidos = 0]
<1>1. r \in Trabalho
  BY DEF Bom, Trabalho
<1>2. EscritaBoa(r)
  BY DEF Bom, Trabalho, EscritaBoa, FimBom, Direto
<1>3. FimBom(r)
  BY DEF Bom, Trabalho, EscritaBoa, FimBom
<1>4. AudioBom(r)
  BY DEF Bom, Trabalho, EscritaBoa, FimBom, AudioBom, Guardado
<1>5. AudioExato(r)
  BY DEF Bom, Trabalho, EscritaBoa, FimBom, AudioExato, Guardado
<1>6. /\ r.chave = b.chave /\ r.refs = b.refs /\ r.memoria = b.memoria
      /\ r.closed = b.closed /\ r.stop = b.stop /\ r.cache = b.cache /\ r.ruim = b.ruim
  BY DEF Bom, Trabalho
<1> QED
  BY <1>1, <1>2, <1>3, <1>4, <1>5, <1>6 DEF Muda, Conserva, Bom, Vivo

\* All the audio came.
LEMMA ConcluirMuda ==
    ASSUME NEW b, Bom(b), b.prod = "gerando", b.io = "nada"
    PROVE  Muda(b, [b EXCEPT !.ended = TRUE, !.prod = "feito",
                      !.cache = IF b.guarda THEN "copiando" ELSE @])
BY DEF Muda, Conserva, Vivo, Bom, Trabalho, EscritaBoa, FimBom, AudioBom, AudioExato,
       Guardado, Direto

\* The request of gtts outlives its timeout.
LEMMA VencerMuda ==
    ASSUME NEW b, Bom(b), ~Direto(b), b.prod = "gerando"
    PROVE  Muda(b, [b EXCEPT !.stop = TRUE, !.prod = "parando"])
BY DEF Muda, Conserva, Vivo, Bom, Trabalho, EscritaBoa, FimBom, AudioBom, AudioExato,
       Guardado, Direto

\* A cancellation is delivered, or dropped.
LEMMA CanceladoMuda ==
    ASSUME NEW b, Bom(b), NEW p \in {"vaga", "gerando", "parando", "feito"},
           \/ p = b.prod
           \/ b.prod = "vaga" /\ p = "feito"
           \/ ~Direto(b) /\ b.prod = "gerando" /\ p = "parando"
    PROVE  Muda(b, [b EXCEPT !.prod = p, !.cancelado = FALSE])
<1> DEFINE r == [b EXCEPT !.prod = p, !.cancelado = FALSE]
<1>1. r \in Trabalho
  BY DEF Bom, Trabalho
<1>2. EscritaBoa(r)
  BY DEF Bom, Trabalho, EscritaBoa, FimBom, Direto
<1>3. FimBom(r)
  BY DEF Bom, Trabalho, EscritaBoa, FimBom
<1>4. AudioBom(r)
  BY DEF Bom, Trabalho, EscritaBoa, FimBom, AudioBom, Guardado
<1>5. AudioExato(r)
  BY DEF Bom, Trabalho, EscritaBoa, FimBom, AudioExato, Guardado
<1>6. /\ r.chave = b.chave /\ r.refs = b.refs /\ r.memoria = b.memoria
      /\ r.closed = b.closed /\ r.stop = b.stop /\ r.cache = b.cache /\ r.ruim = b.ruim
  BY DEF Bom, Trabalho
<1> QED
  BY <1>1, <1>2, <1>3, <1>4, <1>5, <1>6 DEF Muda, Conserva, Bom, Vivo

\* A copy ends.
LEMMA CopiarMuda ==
    ASSUME NEW b, Bom(b), b.cache = "copiando", NEW x \in {"feita", "falhou"}
    PROVE  Muda(b, [b EXCEPT !.cache = x])
BY DEF Muda, Conserva, Vivo, Bom, Trabalho, EscritaBoa, FimBom, AudioBom, AudioExato,
       Guardado, Direto

\* A copy begins.
LEMMA PedirMuda ==
    ASSUME NEW b, Bom(b), b.ended, ~b.erro, ~b.closed \/ encerrado
    PROVE  Muda(b, [b EXCEPT !.cache = IF @ = "nada" THEN "copiando" ELSE @])
BY DEF Muda, Conserva, Vivo, Bom, Trabalho, EscritaBoa, FimBom, AudioBom, AudioExato,
       Guardado, Direto

\* A chunk has to go to the spool, by a thread.
LEMMA DespejoMuda ==
    ASSUME NEW b, Bom(b), b.prod = "gerando", b.io = "nada", NEW x,
           x = IF b.spool THEN "gravando" ELSE "despejando"
    PROVE  Muda(b, [b EXCEPT !.recebidos = @ + 1, !.spool = TRUE, !.io = x])
<1> DEFINE r == [b EXCEPT !.recebidos = @ + 1, !.spool = TRUE, !.io = x]
<1>1. r \in Trabalho
  <2> DEFINE y == b.recebidos + 1
  <2>1. y \in Nat /\ b \in Trabalho /\ x \in {"gravando", "despejando"}
    BY DEF Bom, Trabalho
  <2>2. r = [b EXCEPT !.recebidos = y, !.spool = TRUE, !.io = x]
    OBVIOUS
  <2> HIDE DEF y, r
  <2> QED
    BY <2>1, <2>2 DEF Trabalho
<1>2. EscritaBoa(r)
  BY <1>1 DEF Bom, Trabalho, EscritaBoa, FimBom, Direto
<1>3. FimBom(r)
  BY <1>1 DEF Bom, Trabalho, EscritaBoa, FimBom
<1>4. AudioBom(r)
  BY <1>1 DEF Bom, Trabalho, EscritaBoa, FimBom, AudioBom, Guardado
<1>5. AudioExato(r)
  BY <1>1 DEF Bom, Trabalho, EscritaBoa, FimBom, AudioBom, AudioExato, Guardado
<1>6. /\ r.chave = b.chave /\ r.refs = b.refs /\ r.memoria = b.memoria
      /\ r.closed = b.closed /\ r.stop = b.stop /\ r.cache = b.cache /\ r.ruim = b.ruim
  BY DEF Bom, Trabalho
<1> QED
  BY <1>1, <1>2, <1>3, <1>4, <1>5, <1>6 DEF Muda, Conserva, Bom, Vivo

\* A chunk fits in memory.
LEMMA MemoriaBoa ==
    ASSUME NEW b, Bom(b), b.prod = "gerando", b.io = "nada",
           ~b.spool, b.memoria < LimiteMemoria
    PROVE  Bom([b EXCEPT !.recebidos = @ + 1, !.memoria = @ + 1, !.tamanho = @ + 1])
<1> DEFINE r == [b EXCEPT !.recebidos = @ + 1, !.memoria = @ + 1, !.tamanho = @ + 1]
<1>1. r \in Trabalho
  <2> DEFINE x == b.recebidos + 1  y == b.memoria + 1  z == b.tamanho + 1
  <2>1. x \in Nat /\ y \in 0..LimiteMemoria /\ z \in Nat /\ b \in Trabalho
    BY ConstantesAssumption DEF Bom, Trabalho
  <2>2. r = [b EXCEPT !.recebidos = x, !.memoria = y, !.tamanho = z]
    OBVIOUS
  <2> HIDE DEF x, y, z, r
  <2> QED
    BY <2>1, <2>2 DEF Trabalho
<1>2. EscritaBoa(r)
  BY <1>1 DEF Bom, Trabalho, EscritaBoa, FimBom, Direto
<1>3. FimBom(r)
  BY <1>1 DEF Bom, Trabalho, EscritaBoa, FimBom
<1>4. AudioBom(r)
  BY <1>1 DEF Bom, Trabalho, EscritaBoa, FimBom, AudioBom, Guardado
<1>5. AudioExato(r)
  BY <1>1 DEF Bom, Trabalho, EscritaBoa, FimBom, AudioBom, AudioExato, Guardado
<1> QED
  BY <1>1, <1>2, <1>3, <1>4, <1>5 DEF Bom

\* The memory is in the spool.
LEMMA DespejarBom ==
    ASSUME NEW b, Bom(b), b.io = "despejando"
    PROVE  Bom([b EXCEPT !.io = "gravando", !.memoria = 0, !.arquivo = b.memoria])
<1> DEFINE r == [b EXCEPT !.io = "gravando", !.memoria = 0, !.arquivo = b.memoria]
<1>1. r \in Trabalho
  <2>1. b.memoria \in Nat /\ 0 \in 0..LimiteMemoria /\ b \in Trabalho
    BY ConstantesAssumption DEF Bom, Trabalho
  <2> QED
    BY <2>1 DEF Trabalho
<1>2. EscritaBoa(r)
  BY <1>1 DEF Bom, Trabalho, EscritaBoa, FimBom, Direto
<1>3. FimBom(r)
  BY <1>1 DEF Bom, Trabalho, EscritaBoa, FimBom
<1>4. AudioBom(r)
  BY <1>1 DEF Bom, Trabalho, EscritaBoa, FimBom, AudioBom, Guardado
<1>5. AudioExato(r)
  BY <1>1 DEF Bom, Trabalho, EscritaBoa, FimBom, AudioBom, AudioExato, Guardado
<1> QED
  BY <1>1, <1>2, <1>3, <1>4, <1>5 DEF Bom

\* The request of gtts returns.
LEMMA FimFisicoMuda ==
    ASSUME NEW b, Bom(b), b.prod = "parando", NEW x \in BOOLEAN
    PROVE  Muda(b, [Fracasso(b) EXCEPT !.ioCancelado = x])
<1> DEFINE f == Fracasso(b)  r == [f EXCEPT !.ioCancelado = x]
<1>0. Muda(b, f) /\ f \in Trabalho /\ Bom(f) /\ f.erro
  <2>1. b \in Trabalho /\ EscritaBoa(b) /\ FimBom(b) /\ AudioBom(b) /\ ~Direto(b)
    BY DEF Bom, EscritaBoa
  <2>2. f.erro
    BY <2>1 DEF Fracasso, Trabalho
  <2> QED
    BY <2>1, <2>2, FracassoBom DEF Muda, Conserva, Bom
<1> HIDE DEF f
<1>1. r \in Trabalho
  BY <1>0 DEF Trabalho
<1>2. EscritaBoa(r) /\ FimBom(r)
  BY <1>0 DEF Bom, Trabalho, EscritaBoa, FimBom, Direto
<1>3. AudioBom(r) /\ AudioExato(r)
  BY <1>0 DEF Bom, Trabalho, AudioBom, AudioExato, Guardado
<1>4. /\ r.chave = f.chave /\ r.refs = f.refs /\ r.memoria = f.memoria
      /\ r.closed = f.closed /\ r.stop = f.stop /\ r.cache = f.cache /\ r.ruim = f.ruim
  BY <1>0 DEF Trabalho
<1> HIDE DEF r
<1>5. Muda(b, r)
  BY <1>0, <1>1, <1>2, <1>3, <1>4 DEF Muda, Conserva, Bom, Vivo
<1> QED
  BY <1>5 DEF r, f

\* A cancelled append ends, and with it a producer that appends by itself.
LEMMA LargarBlocoMuda ==
    ASSUME NEW b, Bom(b), b.io # "nada", Cancelada(b), NEW x \in Nat,
           ~Direto(b) => b.erro,
           \/ b.io = "despejando" /\ x = b.memoria
           \/ b.io = "gravando" /\ x = b.arquivo + 1
           \/ b.io = "falhou" /\ x = b.arquivo
    PROVE  LET r == [b EXCEPT !.io = "nada", !.ioCancelado = FALSE, !.arquivo = x]
           IN  Muda(b, IF Direto(r) THEN Fracasso(r) ELSE r)
<1> DEFINE r == [b EXCEPT !.io = "nada", !.ioCancelado = FALSE, !.arquivo = x]
<1>1. r \in Trabalho
  BY DEF Bom, Trabalho
<1>2. EscritaBoa(r) /\ FimBom(r)
  BY <1>1 DEF Bom, Trabalho, EscritaBoa, FimBom, Direto
<1>3. AudioBom(r)
  BY <1>1 DEF Bom, Trabalho, EscritaBoa, FimBom, AudioBom, Guardado
<1>4. /\ r.chave = b.chave /\ r.refs = b.refs /\ r.memoria = b.memoria
      /\ r.closed = b.closed /\ r.stop = b.stop /\ r.cache = b.cache
      /\ r.ruim = b.ruim /\ r.erro = b.erro /\ r.prod = b.prod /\ r.io = "nada"
  BY DEF Bom, Trabalho
<1>5. Direto(r) <=> Direto(b)
  BY DEF Bom, Trabalho, Direto
<1>6. Direto(b) => b.prod # "feito"
  BY DEF Bom, EscritaBoa
<1> HIDE DEF r
<1>7. CASE Direto(b)
  <2>1. Muda(r, Fracasso(r))
    BY <1>1, <1>2, <1>3, <1>4, <1>6, <1>7, FracassoBom
  <2>2. Muda(b, Fracasso(r))
    BY <2>1, <1>4 DEF Muda, Conserva, Vivo
  <2> QED
    BY <2>2, <1>5, <1>7 DEF r
<1>8. CASE ~Direto(b)
  <2>1. AudioExato(r)
    BY <1>4, <1>8 DEF AudioExato
  <2>2. Muda(b, r)
    BY <2>1, <1>1, <1>2, <1>3, <1>4 DEF Muda, Conserva, Bom, Vivo
  <2> QED
    BY <2>2, <1>5, <1>8 DEF r
<1> QED
  BY <1>7, <1>8

-----------------------------------------------------------------------------
(* The budget: counting chunks. *)

\* A job keeps as many chunks as its memory says.
LEMMA RetidosUm ==
    ASSUME NEW js, NEW j, js[j].memoria \in 0..LimiteMemoria
    PROVE  /\ IsFiniteSet(Retidos(js, {j}))
           /\ Cardinality(Retidos(js, {j})) = js[j].memoria
<1> DEFINE m == js[j].memoria  S == Retidos(js, {j})  f == [i \in 1..m |-> <<j, i>>]
<1>1. m \in Nat /\ m <= LimiteMemoria /\ LimiteMemoria \in Nat
  BY ConstantesAssumption
<1>2. \A p : p \in S <=> \E i \in 1..m : p = <<j, i>>
  <2> TAKE p
  <2>1. ASSUME p \in S PROVE \E i \in 1..m : p = <<j, i>>
    <3>1. /\ p \in {j} \X (1..LimiteMemoria) /\ p[2] <= js[p[1]].memoria
      BY <2>1 DEF Retidos
    <3>2. p = <<j, p[2]>> /\ p[2] \in 1..LimiteMemoria /\ p[1] = j
      BY <3>1
    <3>3. p[2] \in 1..m
      BY <3>1, <3>2, <1>1
    <3> QED
      BY <3>2, <3>3
  <2>2. ASSUME NEW i \in 1..m, p = <<j, i>> PROVE p \in S
    <3>1. i \in 1..LimiteMemoria /\ i <= m
      BY <1>1
    <3> QED
      BY <2>2, <3>1 DEF Retidos
  <2> QED
    BY <2>1, <2>2
<1> HIDE DEF S, m
<1>3. f \in Bijection(1..m, S)
  <2>1. f \in [1..m -> S]
    BY <1>2
  <2>2. \A a, b \in 1..m : f[a] = f[b] => a = b
    OBVIOUS
  <2>3. \A p \in S : \E i \in 1..m : f[i] = p
    BY <1>2
  <2> HIDE DEF f
  <2> QED
    BY <2>1, <2>2, <2>3 DEF Bijection, Injection, Surjection, IsInjective
<1>4. IsFiniteSet(1..m) /\ Cardinality(1..m) = m
  <2>1. /\ IsFiniteSet(1..m)
        /\ Cardinality(1..m) = IF 1 > m THEN 0 ELSE m - 1 + 1
    <3>1. 1 \in Int /\ m \in Int
      BY <1>1
    <3>2. \A a, b \in Int : /\ IsFiniteSet(a..b)
                            /\ Cardinality(a..b) = IF a > b THEN 0 ELSE b - a + 1
      BY FS_Interval
    <3> QED
      BY ONLY <3>1, <3>2, Zenon
  <2> QED
    BY <2>1, <1>1
<1> QED
  BY <1>3, <1>4, FS_Bijection DEF ExistsBijection, S, m

\* Two jobs at least hold what they hold together.
LEMMA RetidosParte ==
    ASSUME NEW js, NEW S, NEW T, S \cap T = {},
           IsFiniteSet(S), IsFiniteSet(T)
    PROVE  /\ IsFiniteSet(Retidos(js, S)) /\ IsFiniteSet(Retidos(js, T))
           /\ Cardinality(Retidos(js, S)) \in Nat
           /\ Cardinality(Retidos(js, T)) \in Nat
           /\ Cardinality(Retidos(js, S \cup T)) =
                 Cardinality(Retidos(js, S)) + Cardinality(Retidos(js, T))
<1>1. IsFiniteSet(1..LimiteMemoria)
  BY FS_Interval, ConstantesAssumption
<1>2. IsFiniteSet(S \X (1..LimiteMemoria)) /\ IsFiniteSet(T \X (1..LimiteMemoria))
  BY <1>1, FS_Product
<1>3. IsFiniteSet(Retidos(js, S)) /\ IsFiniteSet(Retidos(js, T))
  BY <1>2, FS_Subset DEF Retidos
<1>4. /\ Retidos(js, S \cup T) = Retidos(js, S) \cup Retidos(js, T)
      /\ Retidos(js, S) \cap Retidos(js, T) = {}
  BY DEF Retidos
<1> HIDE DEF Retidos
<1>5. /\ Cardinality(Retidos(js, S)) \in Nat /\ Cardinality(Retidos(js, T)) \in Nat
      /\ Cardinality({}) = 0
  BY <1>3, FS_CardinalityType, FS_EmptySet
<1>6. Cardinality(Retidos(js, S) \cup Retidos(js, T)) =
        Cardinality(Retidos(js, S)) + Cardinality(Retidos(js, T))
          - Cardinality(Retidos(js, S) \cap Retidos(js, T))
  BY <1>3, FS_Union
<1>7. Cardinality(Retidos(js, S) \cap Retidos(js, T)) = 0
  BY ONLY <1>4, <1>5
<1>8. Cardinality(Retidos(js, S \cup T)) = Cardinality(Retidos(js, S) \cup Retidos(js, T))
  BY ONLY <1>4
<1>9. Cardinality(Retidos(js, S \cup T)) =
        Cardinality(Retidos(js, S)) + Cardinality(Retidos(js, T))
  BY ONLY <1>5, <1>6, <1>7, <1>8
<1> QED
  BY ONLY <1>3, <1>5, <1>9

\* Only the memory of the jobs counts.
LEMMA RetidosIguais ==
    ASSUME NEW js, NEW ks, NEW S, \A i \in S : js[i].memoria = ks[i].memoria
    PROVE  Retidos(js, S) = Retidos(ks, S)
BY DEF Retidos

\* One job changes.
LEMMA RetidosTroca ==
    ASSUME NEW js \in Seq(Trabalho), NEW j \in DOMAIN js, NEW r \in Trabalho,
           NEW ks, ks = [js EXCEPT ![j] = r]
    PROVE  /\ Cardinality(Retidos(js, DOMAIN js)) \in Nat
           /\ js[j].memoria \in Nat /\ r.memoria \in Nat
           /\ js[j].memoria <= Cardinality(Retidos(js, DOMAIN js))
           /\ Cardinality(Retidos(ks, DOMAIN ks)) =
                 Cardinality(Retidos(js, DOMAIN js)) - js[j].memoria + r.memoria
<1> DEFINE D == DOMAIN js  R == D \ {j}
<1>1. IsFiniteSet(D) /\ j \in D /\ D = R \cup {j} /\ R \cap {j} = {} /\ DOMAIN ks = D
  <2>1. D = 1..Len(js) /\ Len(js) \in Nat
    OBVIOUS
  <2> QED
    BY <2>1, FS_Interval
<1>2. IsFiniteSet(R) /\ IsFiniteSet({j})
  BY <1>1, FS_RemoveElement, FS_Singleton
<1>3. /\ js[j].memoria \in 0..LimiteMemoria
      /\ ks[j].memoria \in 0..LimiteMemoria /\ ks[j] = r
      /\ \A i \in R : js[i].memoria = ks[i].memoria
  <2>1. js[j] \in Trabalho /\ ks[j] = r
    OBVIOUS
  <2>2. \A i \in R : ks[i] = js[i]
    OBVIOUS
  <2> QED
    BY <2>1, <2>2 DEF Trabalho
<1>4. Retidos(js, R) = Retidos(ks, R)
  <2> HIDE DEF R
  <2> QED
    BY ONLY <1>3, RetidosIguais
<1>5. /\ Cardinality(Retidos(js, {j})) = js[j].memoria
      /\ Cardinality(Retidos(ks, {j})) = ks[j].memoria
  BY <1>3, RetidosUm
<1>6. /\ Cardinality(Retidos(js, R)) \in Nat
      /\ Cardinality(Retidos(js, D)) =
            Cardinality(Retidos(js, R)) + Cardinality(Retidos(js, {j}))
      /\ Cardinality(Retidos(ks, D)) =
            Cardinality(Retidos(ks, R)) + Cardinality(Retidos(ks, {j}))
  <2> HIDE DEF R, D
  <2> QED
    BY <1>1, <1>2, RetidosParte
<1>7. js[j].memoria \in Nat /\ ks[j].memoria \in Nat
  BY <1>3, ConstantesAssumption
<1> HIDE DEF R
<1>8. /\ Cardinality(Retidos(js, D)) \in Nat /\ js[j].memoria <= Cardinality(Retidos(js, D))
      /\ Cardinality(Retidos(ks, D)) =
            Cardinality(Retidos(js, D)) - js[j].memoria + ks[j].memoria
  BY ONLY <1>4, <1>5, <1>6, <1>7
<1> QED
  BY <1>1, <1>3, <1>7, <1>8

\* A new job keeps nothing.
LEMMA RetidosNovo ==
    ASSUME NEW js \in Seq(Trabalho), NEW r \in Trabalho, r.memoria = 0
    PROVE  Cardinality(Retidos(Append(js, r), DOMAIN Append(js, r)))
              = Cardinality(Retidos(js, DOMAIN js))
<1> DEFINE ks == Append(js, r)  n == Len(js) + 1  D == DOMAIN js
<1>1. /\ Len(js) \in Nat /\ D = 1..Len(js) /\ DOMAIN ks = D \cup {n} /\ D \cap {n} = {}
      /\ ks[n] = r /\ \A i \in D : ks[i].memoria = js[i].memoria
  OBVIOUS
<1>2. IsFiniteSet(D) /\ IsFiniteSet({n})
  <2>1. IsFiniteSet(D)
    BY <1>1, FS_Interval
  <2> QED
    BY <2>1, FS_Singleton
<1>3. ks[n].memoria \in 0..LimiteMemoria
  BY <1>1 DEF Trabalho
<1> HIDE DEF ks, n, D
<1>4. Cardinality(Retidos(ks, {n})) = 0
  BY <1>1, <1>3, RetidosUm
<1>5. Retidos(ks, D) = Retidos(js, D)
  BY <1>1, RetidosIguais
<1>6. /\ Cardinality(Retidos(ks, D)) \in Nat
      /\ Cardinality(Retidos(ks, D \cup {n})) =
            Cardinality(Retidos(ks, D)) + Cardinality(Retidos(ks, {n}))
  BY <1>1, <1>2, RetidosParte
<1> QED
  BY <1>1, <1>4, <1>5, <1>6 DEF ks, D

-----------------------------------------------------------------------------
(* Steps. *)

\* The consumers may move as long as each keeps its job.
Passeio ==
    /\ cons' \in [Consumidores -> Lugar]
    /\ Leitores'
    /\ \A i \in Nat : Usuarios(cons', i) = Usuarios(cons, i)

\* The table of a step that only closes jobs.
LEMMA TabelaFica ==
    ASSUME Tipos, Tabela, NEW fora \in SUBSET DOMAIN jobs,
           jobs' \in Seq(Trabalho), DOMAIN jobs' = DOMAIN jobs,
           tabela' = [k \in Chaves |-> IF tabela[k] \in fora THEN 0 ELSE tabela[k]],
           \A i \in DOMAIN jobs : jobs'[i].chave = jobs[i].chave,
           \A i \in DOMAIN jobs : Vivo(jobs'[i]) => Vivo(jobs[i]) /\ i \notin fora
    PROVE  Tabela' /\ tabela' \in [Chaves -> 0..Len(jobs')]
<1>1. /\ Len(jobs) \in Nat /\ DOMAIN jobs = 1..Len(jobs) /\ Len(jobs') = Len(jobs)
      /\ \A i \in DOMAIN jobs : jobs[i] \in Trabalho
  BY DEF Tipos
<1>2. \A k \in Chaves : tabela[k] \in 0..Len(jobs) /\ tabela'[k] \in {0, tabela[k]}
  BY DEF Tipos
<1>3. tabela' \in [Chaves -> 0..Len(jobs')]
  BY <1>1, <1>2
<1>4. ASSUME NEW k \in Chaves, tabela'[k] # 0 PROVE jobs'[tabela'[k]].chave = k
  <2>1. tabela'[k] = tabela[k] /\ tabela[k] \in DOMAIN jobs
    BY <1>1, <1>2, <1>4
  <2>2. jobs[tabela[k]].chave = k
    BY <2>1, <1>4 DEF Tabela
  <2> QED
    BY <2>1, <2>2
<1>5. ASSUME NEW i \in DOMAIN jobs, Vivo(jobs'[i]) PROVE tabela'[jobs'[i].chave] = i
  <2>1. Vivo(jobs[i]) /\ i \notin fora
    BY <1>5
  <2>2. tabela[jobs[i].chave] = i /\ jobs[i].chave \in Chaves
    BY <2>1, <1>1 DEF Tabela, UmaPorChave, Trabalho
  <2> QED
    BY <2>1, <2>2
<1> QED
  BY <1>3, <1>4, <1>5 DEF Tabela, UmaPorChave

\* A step of a job, the accounts being kept.
LEMMA JobVale ==
    ASSUME IInv, NEW j \in DOMAIN jobs, NEW r, Conserva(jobs[j], r),
           jobs' = [jobs EXCEPT ![j] = r], UNCHANGED <<tabela, encerrado>>,
           usado' = usado - jobs[j].memoria + r.memoria, usado' \in 0..Orcamento,
           cons' \in [Consumidores -> Lugar], Leitores', Referencias'
    PROVE  IInv'
<1> USE DEF IInv
<1>1. /\ r \in Trabalho /\ jobs' \in Seq(Trabalho) /\ DOMAIN jobs' = DOMAIN jobs
      /\ Len(jobs') = Len(jobs) /\ jobs \in Seq(Trabalho) /\ jobs'[j] = r
      /\ \A i \in DOMAIN jobs : i # j => jobs'[i] = jobs[i]
  BY DEF Tipos, Conserva, Bom
<1>2. Jobs'
  BY <1>1 DEF Jobs, Conserva
<1>3. Tabela' /\ Tipos'
  <2>1. \A i \in DOMAIN jobs : jobs'[i].chave = jobs[i].chave
    BY <1>1 DEF Conserva
  <2>2. \A i \in DOMAIN jobs : Vivo(jobs'[i]) => Vivo(jobs[i])
    BY <1>1 DEF Conserva
  <2> DEFINE fora == {}
  <2>3. /\ tabela' = [k \in Chaves |-> IF tabela[k] \in fora THEN 0 ELSE tabela[k]]
        /\ fora \in SUBSET DOMAIN jobs /\ \A i \in DOMAIN jobs : i \notin fora
    BY DEF Tipos
  <2> HIDE DEF fora
  <2>4. Tabela' /\ tabela' \in [Chaves -> 0..Len(jobs')]
    BY <1>1, <2>1, <2>2, <2>3, TabelaFica
  <2> QED
    BY <2>4, <1>1 DEF Tipos
<1>4. OrcamentoExato'
  <2> DEFINE n == Cardinality(Retidos(jobs, DOMAIN jobs))
  <2>1. /\ n \in Nat /\ jobs[j].memoria \in Nat /\ r.memoria \in Nat
        /\ Cardinality(Retidos(jobs', DOMAIN jobs')) = n - jobs[j].memoria + r.memoria
    <3>1. jobs \in Seq(Trabalho) /\ j \in DOMAIN jobs /\ r \in Trabalho
      BY <1>1
    <3>2. jobs' = [jobs EXCEPT ![j] = r]
      BY <1>1
    <3> QED
      BY ONLY <3>1, <3>2, RetidosTroca
  <2>2. usado = n
    BY DEF OrcamentoExato
  <2> HIDE DEF n
  <2> QED
    BY <2>1, <2>2 DEF OrcamentoExato
<1>5. Copias'
  BY <1>1 DEF Copias, Conserva
<1>6. SemDisco'
  BY <1>1 DEF SemDisco, Conserva
<1> QED
  BY <1>2, <1>3, <1>4, <1>5, <1>6

\* A step of a job that no account notices, while consumers keep theirs.
LEMMA MudaVale ==
    ASSUME IInv, NEW j \in DOMAIN jobs, NEW r, Muda(jobs[j], r),
           jobs' = [jobs EXCEPT ![j] = r],
           UNCHANGED <<tabela, usado, encerrado>>, Passeio
    PROVE  IInv'
<1> USE DEF IInv
<1>1. /\ DOMAIN jobs' = DOMAIN jobs /\ DOMAIN jobs \subseteq Nat /\ jobs'[j] = r
      /\ \A i \in DOMAIN jobs : i # j => jobs'[i] = jobs[i]
      /\ jobs[j] \in Trabalho
  BY DEF Tipos
<1>2. Referencias'
  BY <1>1 DEF Referencias, Muda, Passeio
<1>3. usado' = usado - jobs[j].memoria + r.memoria /\ usado' \in 0..Orcamento
  <2>1. usado \in Int /\ jobs[j].memoria \in Int /\ usado \in 0..Orcamento
    BY <1>1, ConstantesAssumption DEF Tipos, Trabalho
  <2> QED
    BY <2>1 DEF Muda
<1> QED
  BY <1>2, <1>3, JobVale DEF Muda, Passeio

\* A step of the consumers alone.
LEMMA PasseioVale ==
    ASSUME IInv, UNCHANGED <<jobs, tabela, usado, encerrado>>, Passeio
    PROVE  IInv'
<1> USE DEF IInv
<1>1. DOMAIN jobs \subseteq Nat
  BY DEF Tipos
<1>2. Tipos' /\ Jobs' /\ Tabela' /\ Leitores'
  BY DEF Tipos, Jobs, Tabela, UmaPorChave, Passeio
<1>3. Referencias'
  BY <1>1 DEF Referencias, Passeio
<1>4. OrcamentoExato' /\ Copias' /\ SemDisco'
  BY DEF OrcamentoExato, Copias, SemDisco
<1> QED
  BY <1>2, <1>3, <1>4

\* A step that may close a job.
LEMMA TrocarVale ==
    ASSUME IInv, NEW j \in DOMAIN jobs, NEW r, Larga(jobs[j], r), Trocar(j, r),
           UNCHANGED encerrado, cons' \in [Consumidores -> Lugar],
           Leitores', Referencias'
    PROVE  IInv'
<1> USE DEF IInv
<1>1. /\ r \in Trabalho /\ jobs' \in Seq(Trabalho) /\ DOMAIN jobs' = DOMAIN jobs
      /\ Len(jobs') = Len(jobs) /\ jobs' = [jobs EXCEPT ![j] = r]
      /\ jobs \in Seq(Trabalho) /\ jobs'[j] = r /\ jobs[j] \in Trabalho
      /\ \A i \in DOMAIN jobs : i # j => jobs'[i] = jobs[i]
  BY DEF Tipos, Larga, Bom, Trocar
<1>2. Jobs'
  BY <1>1 DEF Jobs, Larga
<1>3. Tabela' /\ tabela' \in [Chaves -> 0..Len(jobs')]
  <2> DEFINE fora == IF r.closed THEN {j} ELSE {}
  <2>1. \A i \in DOMAIN jobs : jobs'[i].chave = jobs[i].chave
    BY <1>1 DEF Larga
  <2>2. \A i \in DOMAIN jobs : Vivo(jobs'[i]) => Vivo(jobs[i]) /\ i \notin fora
    BY <1>1 DEF Larga, Vivo
  <2>3. tabela' = [k \in Chaves |-> IF tabela[k] \in fora THEN 0 ELSE tabela[k]]
    BY DEF Trocar, TabelaSem
  <2>4. fora \in SUBSET DOMAIN jobs
    OBVIOUS
  <2> HIDE DEF fora
  <2> QED
    BY <1>1, <2>1, <2>2, <2>3, <2>4, TabelaFica
<1>4. OrcamentoExato' /\ usado' \in 0..Orcamento
  <2> DEFINE n == Cardinality(Retidos(jobs, DOMAIN jobs))
  <2>1. /\ n \in Nat /\ jobs[j].memoria \in Nat /\ r.memoria \in Nat
        /\ jobs[j].memoria <= n
        /\ Cardinality(Retidos(jobs', DOMAIN jobs')) = n - jobs[j].memoria + r.memoria
    <3>1. jobs \in Seq(Trabalho) /\ j \in DOMAIN jobs /\ r \in Trabalho
      BY <1>1
    <3>2. jobs' = [jobs EXCEPT ![j] = r]
      BY <1>1
    <3> QED
      BY ONLY <3>1, <3>2, RetidosTroca
  <2>2. usado = n /\ n <= Orcamento /\ Orcamento \in Nat
    BY ConstantesAssumption DEF OrcamentoExato, Tipos
  <2>3. usado' = Devolver(j, r)
    BY DEF Trocar
  <2> HIDE DEF n
  <2>4. CASE ~r.closed \/ jobs[j].closed
    <3>1. usado' = n /\ r.memoria = jobs[j].memoria
      BY <2>2, <2>3, <2>4 DEF Devolver, Larga
    <3> QED
      BY <3>1, <2>1, <2>2 DEF OrcamentoExato
  <2>5. CASE r.closed /\ ~jobs[j].closed
    <3>1. usado' = n - jobs[j].memoria
      BY <2>1, <2>2, <2>3, <2>5 DEF Devolver
    <3>2. r.memoria = 0
      BY <2>5 DEF Larga
    <3> QED
      BY <3>1, <3>2, <2>1, <2>2 DEF OrcamentoExato
  <2> QED
    BY <2>4, <2>5
<1>5. Copias'
  BY <1>1 DEF Copias, Larga
<1>6. SemDisco'
  BY <1>1 DEF SemDisco, Larga
<1>7. Tipos'
  BY <1>1, <1>3, <1>4 DEF Tipos
<1> QED
  BY <1>2, <1>3, <1>4, <1>5, <1>6, <1>7

\* What a consumer that leaves, comes or moves does to the counts.
LEMMA MesmosUsuarios ==
    ASSUME NEW cs, NEW ds,
           \A x \in Consumidores :
              /\ ds[x].job = cs[x].job
              /\ ds[x].pc \in {"vaga", "ouvindo", "terminando", "produz", "copia"}
                   <=> cs[x].pc \in {"vaga", "ouvindo", "terminando", "produz", "copia"}
    PROVE  \A i \in Nat : Usuarios(ds, i) = Usuarios(cs, i)
BY DEF Usuarios

\* The users of a job can be counted.
LEMMA UsuariosFinitos ==
    ASSUME NEW cs, NEW j
    PROVE  IsFiniteSet(Usuarios(cs, j)) /\ Cardinality(Usuarios(cs, j)) \in Nat
<1>1. IsFiniteSet(Usuarios(cs, j))
  BY ConstantesAssumption, FS_Subset DEF Usuarios
<1> QED
  BY <1>1, FS_CardinalityType

\* A consumer releases its job, once.
LEMMA SoltarVale ==
    ASSUME IInv, NEW c \in Consumidores, Soltar(c), ~cons[c].lendo,
           cons[c].pc \in {"vaga", "ouvindo", "terminando", "produz", "copia"}
    PROVE  IInv'
<1> DEFINE j == cons[c].job  r == Liberar(jobs[j])
<1> USE DEF IInv
<1>1. /\ cons[c] \in Lugar /\ j \in DOMAIN jobs /\ jobs[j] \in Trabalho
      /\ jobs \in Seq(Trabalho)
  <2>1. cons[c] \in Lugar /\ j \in 0..Len(jobs) /\ j # 0
    BY DEF Tipos, Leitores
  <2> QED
    BY <2>1 DEF Tipos
<1>2. Bom(jobs[j])
  BY <1>1 DEF Jobs
<1>3. Solta(jobs[j], r)
  BY <1>2, LiberarBom
<1>4. /\ cons' = [cons EXCEPT ![c].pc = "fim"] /\ Trocar(j, r) /\ UNCHANGED encerrado
      /\ jobs' = [jobs EXCEPT ![j] = r]
  BY DEF Soltar, Job, Trocar
<1> HIDE DEF r, j
<1>5. /\ cons' \in [Consumidores -> Lugar]
      /\ \A x \in Consumidores : x # c => cons'[x] = cons[x]
      /\ cons'[c].pc = "fim" /\ cons'[c].job = j /\ ~cons'[c].lendo
  BY <1>1, <1>4 DEF Tipos, Lugar, j
<1>6. /\ DOMAIN jobs' = DOMAIN jobs /\ Len(jobs') = Len(jobs) /\ jobs'[j] = r
      /\ \A i \in DOMAIN jobs : i # j => jobs'[i] = jobs[i]
  BY <1>1, <1>4
<1>7. Leitores'
  <2>1. j \in 0..Len(jobs') /\ j # 0
    BY <1>1, <1>6
  <2> QED
    BY <1>4, <1>5, <1>6, <2>1 DEF Leitores, Fora
<1>8. Referencias'
  <2> SUFFICES ASSUME ~encerrado, NEW i \in DOMAIN jobs
               PROVE  jobs'[i].refs = Cardinality(Usuarios(cons', i))
    BY <1>4, <1>6 DEF Referencias
  <2>1. jobs[i].refs = Cardinality(Usuarios(cons, i))
    BY DEF Referencias
  <2>2. CASE i # j
    <3>1. Usuarios(cons', i) = Usuarios(cons, i)
      BY <2>2, <1>5 DEF Usuarios, j
    <3> QED
      BY <3>1, <2>1, <2>2, <1>6
  <2>3. CASE i = j
    <3>1. Usuarios(cons', j) = Usuarios(cons, j) \ {c} /\ c \in Usuarios(cons, j)
      BY <1>5 DEF Usuarios, j
    <3>2. IsFiniteSet(Usuarios(cons, j)) /\ Cardinality(Usuarios(cons, j)) \in Nat
      BY UsuariosFinitos
    <3>3. /\ Cardinality(Usuarios(cons', j)) = Cardinality(Usuarios(cons, j)) - 1
          /\ Cardinality(Usuarios(cons, j)) # 0
      BY <3>1, <3>2, FS_RemoveElement, FS_EmptySet
    <3>4. r.refs = jobs[j].refs - 1
      BY <1>3, <2>1, <2>3, <3>3 DEF Solta
    <3> QED
      BY <3>3, <3>4, <2>1, <2>3, <1>6
  <2> QED
    BY <2>2, <2>3
<1> QED
  BY <1>1, <1>3, <1>4, <1>5, <1>7, <1>8, TrocarVale DEF Solta

\* A consumer moves and keeps its job, or has let go of it already.
LEMMA IrVale ==
    ASSUME IInv, NEW c \in Consumidores, NEW x, Ir(c, x),
           \/ x = "ouvindo" /\ cons[c].pc = "vaga"
           \/ x = "terminando" /\ cons[c].pc = "ouvindo"
           \/ x = "fim" /\ cons[c].pc = "solto" /\ ~cons[c].lendo
    PROVE  IInv'
<1> USE DEF IInv
<1>1. cons' = [cons EXCEPT ![c].pc = x] /\ UNCHANGED <<jobs, tabela, usado, encerrado>>
  BY DEF Ir
<1>2. /\ cons' \in [Consumidores -> Lugar] /\ cons[c] \in Lugar
      /\ \A y \in Consumidores : y # c => cons'[y] = cons[y]
      /\ cons'[c].pc = x /\ cons'[c].job = cons[c].job /\ cons'[c].lendo = cons[c].lendo
  BY <1>1 DEF Tipos, Lugar
<1>3. Leitores'
  BY <1>1, <1>2 DEF Leitores
<1>4. \A y \in Consumidores :
         /\ cons'[y].job = cons[y].job
         /\ cons'[y].pc \in {"vaga", "ouvindo", "terminando", "produz", "copia"}
              <=> cons[y].pc \in {"vaga", "ouvindo", "terminando", "produz", "copia"}
  BY <1>2
<1>5. \A i \in Nat : Usuarios(cons', i) = Usuarios(cons, i)
  BY <1>4, MesmosUsuarios
<1> QED
  BY <1>1, <1>2, <1>3, <1>5, PasseioVale DEF Passeio

-----------------------------------------------------------------------------
(* Actions of the consumers. *)

\* What the invariant says of a consumer with a job.
LEMMA TemJob ==
    ASSUME IInv, NEW c \in Consumidores, cons[c].pc # "fora"
    PROVE  /\ cons[c] \in Lugar /\ cons[c].job \in DOMAIN jobs
           /\ Bom(jobs[cons[c].job])
           /\ cons[c].pc \notin {"ouvindo", "terminando", "solto"} => ~cons[c].lendo
<1>1. cons[c] \in Lugar /\ cons[c].job \in 0..Len(jobs) /\ cons[c].job # 0
  BY DEF IInv, Tipos, Leitores
<1>2. cons[c].job \in DOMAIN jobs
  BY <1>1 DEF IInv, Tipos
<1> QED
  BY <1>1, <1>2 DEF IInv, Jobs, Leitores

\* A stream's first wait is over.
LEMMA PrepararVale ==
    ASSUME IInv, NEW c \in Consumidores, Preparar(c)
    PROVE  IInv'
<1>1. cons[c].pc = "vaga" /\ ~cons[c].lendo
  BY TemJob DEF Preparar
<1> QED
  BY <1>1, SoltarVale, IrVale DEF Preparar

\* A reader reads from memory, or begins or ends a read in a thread.
LEMMA LerVale ==
    ASSUME IInv, NEW c \in Consumidores, Ler(c) \/ LerSpool(c)
    PROVE  IInv'
<1> USE DEF IInv
<1>1. /\ cons[c].pc \in {"ouvindo", "terminando", "solto"} /\ cons[c] \in Lugar
      /\ UNCHANGED <<jobs, tabela, usado, encerrado>>
  BY DEF Leitores, Ler, LerSpool, Tipos
<1>2. /\ cons' = [cons EXCEPT ![c] = cons'[c]] /\ cons'[c] \in Lugar
      /\ cons'[c].job = cons[c].job
      /\ \/ cons'[c].pc = cons[c].pc
         \/ cons'[c].pc = "terminando" /\ cons[c].pc = "ouvindo"
  <2>1. CASE Ler(c)
    <3> DEFINE o == cons[c].off + 1
    <3>1. o \in Nat
      BY <1>1 DEF Lugar
    <3>2. \/ cons' = [cons EXCEPT ![c].lendo = TRUE]
          \/ cons' = [cons EXCEPT ![c].off = o]
      BY <2>1 DEF Ler
    <3> HIDE DEF o
    <3>3. cons' = [cons EXCEPT ![c] = cons'[c]]
      BY <3>2 DEF Tipos
    <3>4. \/ cons'[c] = [cons[c] EXCEPT !.lendo = TRUE]
          \/ cons'[c] = [cons[c] EXCEPT !.off = o]
      BY <3>2 DEF Tipos
    <3> QED
      BY <1>1, <3>1, <3>3, <3>4 DEF Lugar
  <2>2. CASE LerSpool(c)
    <3> DEFINE leu == ~Job(c).closed /\ cons[c].off < Job(c).arquivo
               o == IF leu THEN cons[c].off + 1 ELSE cons[c].off
               x == IF ~leu /\ cons[c].pc = "ouvindo" THEN "terminando" ELSE cons[c].pc
    <3>1. /\ o \in Nat /\ x \in {"terminando", cons[c].pc}
          /\ x = "terminando" => cons[c].pc \in {"ouvindo", "terminando"}
      BY <1>1 DEF Lugar
    <3>2. cons' = [cons EXCEPT ![c].lendo = FALSE, ![c].off = o, ![c].pc = x]
      BY <2>2, Zenon DEF LerSpool
    <3> HIDE DEF o, x
    <3>3. cons'[c] = [cons[c] EXCEPT !.lendo = FALSE, !.off = o, !.pc = x]
      BY <3>2 DEF Tipos
    <3>4. /\ cons'[c] \in Lugar /\ cons'[c].pc = x /\ cons'[c].job = cons[c].job
      BY <3>1, <3>3, <1>1 DEF Lugar
    <3>5. cons' = [cons EXCEPT ![c] = cons'[c]]
      BY <3>2 DEF Tipos
    <3> QED
      BY <3>1, <3>4, <3>5
  <2> QED
    BY <2>1, <2>2
<1>3. /\ cons' \in [Consumidores -> Lugar]
      /\ \A y \in Consumidores : y # c => cons'[y] = cons[y]
  BY <1>2 DEF Tipos
<1>4. Leitores'
  BY <1>1, <1>2, <1>3 DEF Leitores
<1>5. \A y \in Consumidores :
         /\ cons'[y].job = cons[y].job
         /\ cons'[y].pc \in {"vaga", "ouvindo", "terminando", "produz", "copia"}
              <=> cons[y].pc \in {"vaga", "ouvindo", "terminando", "produz", "copia"}
  BY <1>1, <1>2, <1>3
<1>6. \A i \in Nat : Usuarios(cons', i) = Usuarios(cons, i)
  BY <1>5, MesmosUsuarios
<1> QED
  BY <1>1, <1>3, <1>4, <1>6, PasseioVale DEF Passeio

\* A consumer gives up, or ends.
LEMMA DesistirVale ==
    ASSUME IInv, NEW c \in Consumidores,
           Desistir(c) \/ OuvirFim(c) \/ Terminar(c) \/ ReceberArquivo(c) \/ TerminarSolto(c)
    PROVE  IInv'
<1>1. CASE Desistir(c)
  <2>1. CASE cons[c].pc \in {"vaga", "produz", "copia"} /\ Soltar(c)
    BY <2>1, TemJob, SoltarVale
  <2>2. CASE cons[c].pc = "ouvindo" /\ Ir(c, "terminando")
    BY <2>2, IrVale
  <2> QED
    BY <1>1, <2>1, <2>2 DEF Desistir
<1>2. CASE OuvirFim(c)
  BY <1>2, IrVale DEF OuvirFim
<1>3. CASE Terminar(c)
  BY <1>3, SoltarVale DEF Terminar
<1>4. CASE ReceberArquivo(c)
  BY <1>4, TemJob, SoltarVale DEF ReceberArquivo
<1>5. CASE TerminarSolto(c)
  BY <1>5, IrVale DEF TerminarSolto
<1> QED
  BY <1>1, <1>2, <1>3, <1>4, <1>5


\* Before a shutdown a job that a consumer waits for is open.
LEMMA JobAberto ==
    ASSUME IInv, NEW c \in Consumidores, ~encerrado,
           cons[c].pc \in {"vaga", "ouvindo", "terminando", "produz", "copia"}
    PROVE  jobs[cons[c].job].refs # 0 /\ ~jobs[cons[c].job].closed
<1> DEFINE j == cons[c].job
<1>1. j \in DOMAIN jobs /\ Bom(jobs[j])
  BY TemJob
<1>2. c \in Usuarios(cons, j) /\ IsFiniteSet(Usuarios(cons, j))
  BY UsuariosFinitos DEF Usuarios
<1>3. Cardinality(Usuarios(cons, j)) # 0
  BY <1>2, FS_EmptySet
<1>4. jobs[j].refs = Cardinality(Usuarios(cons, j))
  BY <1>1 DEF IInv, Referencias
<1> QED
  BY <1>1, <1>3, <1>4 DEF Bom, FimBom

\* The file is asked for.
LEMMA PedirArquivoVale ==
    ASSUME IInv, NEW c \in Consumidores, PedirArquivo(c)
    PROVE  IInv'
<1> DEFINE j == cons[c].job  b == jobs[j]
           r == [b EXCEPT !.cache = IF @ = "nada" THEN "copiando" ELSE @]
<1>1. cons[c].pc = "produz" /\ ~cons[c].lendo /\ j \in DOMAIN jobs /\ Bom(b)
  BY TemJob DEF PedirArquivo
<1>2. CASE Job(c).erro \/ ~Job(c).ended
  BY <1>1, <1>2, SoltarVale DEF PedirArquivo
<1>3. CASE ~(Job(c).erro \/ ~Job(c).ended)
  <2>1. /\ cons' = [cons EXCEPT ![c].pc = "copia"]
        /\ jobs' = [jobs EXCEPT ![j].cache = IF @ = "nada" THEN "copiando" ELSE @]
        /\ UNCHANGED <<tabela, usado, encerrado>>
    BY <1>3 DEF PedirArquivo
  <2>2. jobs' = [jobs EXCEPT ![j] = r]
    BY <2>1
  <2>3. b.ended /\ ~b.erro /\ (~b.closed \/ encerrado)
    BY <1>1, <1>3, JobAberto DEF Job
  <2>4. Muda(b, r)
    BY <1>1, <2>3, PedirMuda
  <2>5. /\ cons' \in [Consumidores -> Lugar]
        /\ \A y \in Consumidores : y # c => cons'[y] = cons[y]
        /\ cons'[c].pc = "copia" /\ cons'[c].job = cons[c].job /\ ~cons'[c].lendo
    BY <1>1, <2>1 DEF IInv, Tipos, Lugar
  <2>6. \A y \in Consumidores :
           /\ cons'[y].job = cons[y].job
           /\ cons'[y].pc \in {"vaga", "ouvindo", "terminando", "produz", "copia"}
                <=> cons[y].pc \in {"vaga", "ouvindo", "terminando", "produz", "copia"}
    BY <1>1, <2>5
  <2>7. \A i \in Nat : Usuarios(cons', i) = Usuarios(cons, i)
    BY <2>6, MesmosUsuarios
  <2>8. Leitores'
    <3>1. Len(jobs') = Len(jobs)
      BY <2>2 DEF IInv, Tipos
    <3> QED
      BY <3>1, <1>1, <2>1, <2>5 DEF IInv, Leitores
  <2> HIDE DEF r
  <2> QED
    BY <1>1, <2>1, <2>2, <2>4, <2>5, <2>7, <2>8, MudaVale DEF Passeio
<1> QED
  BY <1>2, <1>3

\* A job that is joined has one user more.
LEMMA JuntarVale ==
    ASSUME IInv, NEW c \in Consumidores, NEW k \in Chaves, Adquirir(c, k),
           tabela[k] # 0, Vivo(jobs[tabela[k]])
    PROVE  IInv'
<1> DEFINE j == tabela[k]  b == jobs[j]  g == b.guarda \/ c \in Guardam  n == b.refs + 1
           r == [b EXCEPT !.refs = n, !.guarda = g]
           x == IF c \in Fluxos THEN "vaga" ELSE "produz"
<1> USE DEF IInv
<1>1. /\ j \in DOMAIN jobs /\ jobs \in Seq(Trabalho) /\ Bom(b) /\ b \in Trabalho
      /\ cons[c].pc = "fora"
  BY DEF Tipos, Jobs, Bom, Adquirir
<1>2. /\ jobs' = [jobs EXCEPT ![j].refs = @ + 1, ![j].guarda = @ \/ c \in Guardam]
      /\ tabela' = tabela /\ UNCHANGED <<usado, encerrado>>
      /\ cons' = [cons EXCEPT ![c] = [Fora EXCEPT !.pc = x, !.job = j]]
  BY DEF Adquirir
<1>3. jobs' = [jobs EXCEPT ![j] = r]
  BY <1>1, <1>2
<1>4. g \in BOOLEAN /\ n \in Nat /\ x \in {"vaga", "produz"} /\ j \in Nat
  <2>1. g \in BOOLEAN
    OBVIOUS
  <2>2. x \in {"vaga", "produz"}
    OBVIOUS
  <2>3. n \in Nat
    <3>1. b \in Trabalho
      BY <1>1
    <3> HIDE DEF b
    <3>2. b.refs \in Nat
      BY ONLY <3>1 DEF Trabalho
    <3> QED
      BY ONLY <3>2
  <2>4. j \in Nat
    BY <1>1
  <2> QED
    BY <2>1, <2>2, <2>3, <2>4
<1>5. Conserva(b, r) /\ r.refs = b.refs + 1 /\ r.memoria = b.memoria
  <2> HIDE DEF g, b
  <2>1. r \in Trabalho
    BY <1>1, <1>4 DEF Trabalho
  <2>2. ~b.closed /\ ~b.stop
    BY DEF Vivo, b
  <2>3. EscritaBoa(r) /\ FimBom(r) /\ AudioBom(r) /\ AudioExato(r)
    BY <1>1, <2>2 DEF Bom, Trabalho, EscritaBoa, FimBom, AudioBom, AudioExato, Guardado, Direto
  <2>4. /\ r.chave = b.chave /\ r.closed = b.closed /\ r.stop = b.stop
        /\ r.cache = b.cache /\ r.ruim = b.ruim /\ r.memoria = b.memoria /\ r.refs = n
    BY <1>1 DEF Trabalho
  <2> HIDE DEF r
  <2> QED
    BY <2>1, <2>3, <2>4 DEF Conserva, Bom, Vivo
<1> HIDE DEF r, x, g
<1>6. /\ cons' \in [Consumidores -> Lugar]
      /\ \A y \in Consumidores : y # c => cons'[y] = cons[y]
      /\ cons'[c].pc = x /\ cons'[c].job = j /\ ~cons'[c].lendo
  BY <1>2, <1>4 DEF Tipos, Lugar, Fora
<1>7. /\ DOMAIN jobs' = DOMAIN jobs /\ Len(jobs') = Len(jobs) /\ jobs'[j] = r
      /\ \A i \in DOMAIN jobs : i # j => jobs'[i] = jobs[i]
      /\ j \in 0..Len(jobs)
  BY <1>1, <1>3
<1>8. Leitores'
  BY <1>2, <1>4, <1>6, <1>7 DEF Leitores
<1>9. Referencias'
  <2> SUFFICES ASSUME ~encerrado, NEW i \in DOMAIN jobs
               PROVE  jobs'[i].refs = Cardinality(Usuarios(cons', i))
    BY <1>2, <1>7 DEF Referencias
  <2>1. jobs[i].refs = Cardinality(Usuarios(cons, i))
    BY DEF Referencias
  <2>2. CASE i # j
    <3>1. Usuarios(cons', i) = Usuarios(cons, i)
      BY <2>2, <1>1, <1>6 DEF Usuarios
    <3> QED
      BY <3>1, <2>1, <2>2, <1>7
  <2>3. CASE i = j
    <3>1. Usuarios(cons', j) = Usuarios(cons, j) \cup {c} /\ c \notin Usuarios(cons, j)
      BY <1>1, <1>4, <1>6 DEF Usuarios
    <3>2. IsFiniteSet(Usuarios(cons, j)) /\ Cardinality(Usuarios(cons, j)) \in Nat
      BY UsuariosFinitos
    <3>3. Cardinality(Usuarios(cons', j)) = Cardinality(Usuarios(cons, j)) + 1
      BY <3>1, <3>2, FS_AddElement
    <3> QED
      BY <3>3, <2>1, <2>3, <1>5, <1>7
  <2> QED
    BY <2>2, <2>3
<1>10. usado' = usado - b.memoria + r.memoria /\ usado' \in 0..Orcamento
  <2>1. usado \in Int /\ b.memoria \in Int /\ usado \in 0..Orcamento
    BY <1>1, ConstantesAssumption DEF Tipos, Trabalho
  <2> QED
    BY <2>1, <1>2, <1>5
<1> HIDE DEF j
<1> QED
  BY <1>1, <1>2, <1>3, <1>5, <1>6, <1>8, <1>9, <1>10, JobVale

\* A new job has its key to itself: the one before is stopped or closed.
LEMMA CriarVale ==
    ASSUME IInv, NEW c \in Consumidores, NEW k \in Chaves, Adquirir(c, k),
           ~(tabela[k] # 0 /\ Vivo(jobs[tabela[k]]))
    PROVE  IInv'
<1> DEFINE n == Len(jobs) + 1  r == NovoJob(k, c \in Guardam)
           x == IF c \in Fluxos THEN "vaga" ELSE "produz"
<1> USE DEF IInv
<1>1. /\ jobs' = Append(jobs, r) /\ tabela' = [tabela EXCEPT ![k] = n]
      /\ UNCHANGED <<usado, encerrado>> /\ cons[c].pc = "fora"
      /\ cons' = [cons EXCEPT ![c] = [Fora EXCEPT !.pc = x, !.job = n]]
  BY DEF Adquirir
<1>2. Bom(r)
  <2>1. (c \in Guardam) \in BOOLEAN
    OBVIOUS
  <2> QED
    BY <2>1, NovoBom
<1>3. /\ r \in Trabalho /\ r.refs = 1 /\ r.memoria = 0 /\ ~r.closed /\ ~r.ruim /\ r.chave = k
      /\ x \in {"vaga", "produz"}
  BY <1>2 DEF Bom, NovoJob
<1> HIDE DEF r, x
<1>4. /\ Len(jobs) \in Nat /\ DOMAIN jobs = 1..Len(jobs) /\ jobs' \in Seq(Trabalho)
      /\ Len(jobs') = n /\ DOMAIN jobs' = 1..n /\ n \notin DOMAIN jobs
      /\ jobs'[n] = r /\ \A i \in DOMAIN jobs : jobs'[i] = jobs[i]
      /\ \A i \in DOMAIN jobs' : i \in DOMAIN jobs \/ i = n
  BY <1>1, <1>3 DEF Tipos
<1> HIDE DEF n
<1>5. Jobs'
  BY <1>2, <1>4 DEF Jobs
<1>6. /\ cons' \in [Consumidores -> Lugar]
      /\ \A y \in Consumidores : y # c => cons'[y] = cons[y]
      /\ cons'[c].pc = x /\ cons'[c].job = n /\ ~cons'[c].lendo
      /\ n \in Nat /\ n # 0
  <2>1. n \in Nat /\ n # 0
    BY <1>4 DEF n
  <2> QED
    BY <2>1, <1>1, <1>3 DEF Tipos, Lugar, Fora
<1>7. Leitores'
  <2>1. n \in 0..Len(jobs') /\ \A i \in 0..Len(jobs) : i \in 0..Len(jobs')
    BY <1>4 DEF n
  <2>2. cons'[c].pc \notin {"fora", "solto"}
    BY <1>3, <1>6
  <2> QED
    BY <1>1, <1>6, <2>1, <2>2 DEF Leitores
<1>8. tabela' \in [Chaves -> 0..Len(jobs')] /\ Tabela'
  <2>1. /\ \A q \in Chaves : q # k => tabela'[q] = tabela[q]
        /\ tabela'[k] = n /\ tabela \in [Chaves -> 0..Len(jobs)]
    BY <1>1 DEF Tipos
  <2>2. n \in 0..Len(jobs') /\ \A i \in 0..Len(jobs) : i \in 0..Len(jobs') /\ i # n
    BY <1>4 DEF n
  <2>3. tabela' \in [Chaves -> 0..Len(jobs')]
    BY <1>1, <2>1, <2>2
  <2>4. ASSUME NEW q \in Chaves, tabela'[q] # 0 PROVE jobs'[tabela'[q]].chave = q
    <3>1. CASE q = k
      BY <3>1, <2>1, <1>3, <1>4
    <3>2. CASE q # k
      <4>1. tabela'[q] = tabela[q] /\ tabela[q] \in DOMAIN jobs
        BY <3>2, <2>1, <2>4, <1>4
      <4> QED
        BY <4>1, <2>4, <1>4 DEF Tabela
    <3> QED
      BY <3>1, <3>2
  <2>5. ASSUME NEW i \in DOMAIN jobs', Vivo(jobs'[i]) PROVE tabela'[jobs'[i].chave] = i
    <3>1. CASE i = n
      BY <3>1, <2>1, <1>3, <1>4
    <3>2. CASE i \in DOMAIN jobs
      <4>1. Vivo(jobs[i]) /\ jobs[i] \in Trabalho /\ i # 0
        BY <3>2, <2>5, <1>4 DEF Tipos
      <4>2. tabela[jobs[i].chave] = i /\ jobs[i].chave \in Chaves
        BY <3>2, <4>1 DEF Tabela, UmaPorChave, Trabalho
      <4>3. jobs[i].chave # k
        BY <4>1, <4>2
      <4> QED
        BY <3>2, <4>2, <4>3, <2>1, <1>4
    <3> QED
      BY <3>1, <3>2, <1>4
  <2> QED
    BY <2>3, <2>4, <2>5 DEF Tabela, UmaPorChave
<1>9. Referencias'
  <2> SUFFICES ASSUME ~encerrado, NEW i \in DOMAIN jobs'
               PROVE  jobs'[i].refs = Cardinality(Usuarios(cons', i))
    BY <1>1 DEF Referencias
  <2>1. CASE i \in DOMAIN jobs
    <3>1. i # n
      BY <2>1, <1>4
    <3>2. Usuarios(cons', i) = Usuarios(cons, i)
      BY <3>1, <1>1, <1>6 DEF Usuarios
    <3> QED
      BY <3>2, <2>1, <1>4 DEF Referencias
  <2>2. CASE i = n
    <3>1. \A y \in Consumidores : cons[y].job # n
      <4>1. n \notin 0..Len(jobs)
        BY <1>4 DEF n
      <4> QED
        BY <4>1 DEF Leitores
    <3>2. Usuarios(cons', n) = {c}
      BY <3>1, <1>3, <1>6 DEF Usuarios
    <3>3. Cardinality({c}) = 1
      BY FS_Singleton
    <3> QED
      BY <3>2, <3>3, <2>2, <1>3, <1>4
  <2> QED
    BY <2>1, <2>2, <1>4
<1>10. OrcamentoExato'
  <2>1. Cardinality(Retidos(jobs', DOMAIN jobs')) = Cardinality(Retidos(jobs, DOMAIN jobs))
    <3>1. jobs \in Seq(Trabalho)
      BY DEF Tipos
    <3> QED
      BY <3>1, <1>1, <1>3, RetidosNovo
  <2> QED
    BY <2>1, <1>1 DEF OrcamentoExato
<1>11. Copias' /\ SemDisco'
  BY <1>1, <1>3, <1>4 DEF Copias, SemDisco
<1> QED
  BY <1>1, <1>4, <1>5, <1>6, <1>7, <1>8, <1>9, <1>10, <1>11 DEF Tipos

-----------------------------------------------------------------------------
(* Actions of the producers, their threads and the deferred close. *)

\* A step of a producer or of a thread.
LEMMA MudarVale ==
    ASSUME IInv, NEW j \in DOMAIN jobs, NEW r, Muda(jobs[j], r), Mudar(j, r)
    PROVE  IInv'
<1>1. /\ jobs' = [jobs EXCEPT ![j] = r]
      /\ UNCHANGED <<tabela, usado, cons, encerrado>>
  BY DEF Mudar
<1>2. Len(jobs') = Len(jobs)
  BY <1>1 DEF IInv, Tipos
<1>3. Passeio
  BY <1>1, <1>2 DEF Passeio, IInv, Tipos, Leitores
<1> QED
  BY <1>1, <1>3, MudaVale

\* The steps of the budget leave consumers and references alone.
LEMMA ContaVale ==
    ASSUME IInv, NEW j \in DOMAIN jobs, NEW r, Conserva(jobs[j], r),
           r.refs = jobs[j].refs,
           jobs' = [jobs EXCEPT ![j] = r], UNCHANGED <<tabela, cons, encerrado>>,
           usado' = usado - jobs[j].memoria + r.memoria, usado' \in 0..Orcamento
    PROVE  IInv'
<1>1. /\ Len(jobs') = Len(jobs) /\ DOMAIN jobs' = DOMAIN jobs /\ jobs'[j] = r
      /\ \A i \in DOMAIN jobs : i # j => jobs'[i] = jobs[i]
  BY DEF IInv, Tipos
<1>2. Leitores'
  BY <1>1 DEF IInv, Leitores
<1>3. Referencias'
  BY <1>1 DEF IInv, Referencias
<1>4. cons' \in [Consumidores -> Lugar]
  BY DEF IInv, Tipos
<1> QED
  BY <1>2, <1>3, <1>4, JobVale

\* A chunk arrives.
LEMMA ReceberVale ==
    ASSUME IInv, NEW j \in DOMAIN jobs, Receber(j)
    PROVE  IInv'
<1> DEFINE b == jobs[j]  d == [b EXCEPT !.recebidos = @ + 1]
<1>1. Bom(b) /\ b \in Trabalho
  BY DEF IInv, Jobs, Bom
<1>2. /\ b.prod = "gerando" /\ b.io = "nada"
      /\ d.prod = b.prod /\ d.io = b.io /\ d.spool = b.spool /\ d.memoria = b.memoria
  <2>1. /\ d.prod = b.prod /\ d.io = b.io /\ d.spool = b.spool /\ d.memoria = b.memoria
    BY <1>1 DEF Trabalho
  <2>2. d.prod = "gerando" /\ d.io = "nada"
    BY DEF Receber
  <2> QED
    BY <2>1, <2>2
<1>3. CASE Cabe(d) /\ jobs' = [jobs EXCEPT ![j] = [d EXCEPT !.memoria = @ + 1, !.tamanho = @ + 1]]
           /\ usado' = usado + 1 /\ UNCHANGED <<tabela, cons, encerrado>>
  <2> DEFINE r == [b EXCEPT !.recebidos = @ + 1, !.memoria = @ + 1, !.tamanho = @ + 1]
  <2>1. ~b.spool /\ b.memoria < LimiteMemoria /\ usado < Orcamento
    BY <1>2, <1>3 DEF Cabe
  <2>2. Bom(r)
    BY <1>1, <1>2, <2>1, MemoriaBoa
  <2>3. /\ r.chave = b.chave /\ r.closed = b.closed /\ r.stop = b.stop /\ r.refs = b.refs
        /\ r.cache = b.cache /\ r.ruim = b.ruim /\ r.memoria = b.memoria + 1
    BY <1>1 DEF Trabalho
  <2>4. jobs' = [jobs EXCEPT ![j] = r]
    <3>1. [d EXCEPT !.memoria = @ + 1, !.tamanho = @ + 1] = r
      BY <1>1 DEF Trabalho
    <3> QED
      BY <3>1, <1>3
  <2>5. Conserva(b, r)
    <3> HIDE DEF r, b
    <3> QED
      BY <2>2, <2>3 DEF Conserva, Vivo
  <2>6. usado' = usado - b.memoria + r.memoria /\ usado' \in 0..Orcamento
    <3>1. usado \in 0..Orcamento /\ Orcamento \in Nat /\ b.memoria \in Int
      BY <1>1, ConstantesAssumption DEF IInv, Tipos, Trabalho
    <3> HIDE DEF r, b
    <3> QED
      BY <3>1, <1>3, <2>1, <2>3
  <2> HIDE DEF r
  <2> QED
    BY <1>3, <2>3, <2>4, <2>5, <2>6, ContaVale
<1>4. CASE ~Cabe(d) /\ Mudar(j, [d EXCEPT !.spool = TRUE,
                                          !.io = IF d.spool THEN "gravando" ELSE "despejando"])
  <2> DEFINE x == IF b.spool THEN "gravando" ELSE "despejando"
             r == [b EXCEPT !.recebidos = @ + 1, !.spool = TRUE, !.io = x]
  <2>1. Muda(b, r)
    BY <1>1, <1>2, DespejoMuda
  <2>2. [d EXCEPT !.spool = TRUE, !.io = IF d.spool THEN "gravando" ELSE "despejando"] = r
    <3>1. d.spool = b.spool
      BY <1>2
    <3>2. [d EXCEPT !.spool = TRUE, !.io = x] = r
      <4> HIDE DEF x
      <4> QED
        BY <1>1 DEF Trabalho
    <3> QED
      BY <3>1, <3>2
  <2>3. Mudar(j, r)
    BY <1>4, <2>2
  <2> HIDE DEF r
  <2> QED
    BY <2>1, <2>3, MudarVale
<1> QED
  BY <1>3, <1>4 DEF Receber

\* A thread ends.
LEMMA FioVale ==
    ASSUME IInv, NEW j \in DOMAIN jobs, Fio(j)
    PROVE  IInv'
<1> DEFINE b == jobs[j]
<1>1. Bom(b) /\ b \in Trabalho
  BY DEF IInv, Jobs, Bom
<1>2. CASE Despejar(j)
  <2> DEFINE r == [b EXCEPT !.io = "gravando", !.memoria = 0, !.arquivo = b.memoria]
  <2>1. /\ b.io = "despejando" /\ jobs' = [jobs EXCEPT ![j] = r]
        /\ usado' = usado - b.memoria /\ UNCHANGED <<tabela, cons, encerrado>>
    BY <1>2 DEF Despejar
  <2>2. Bom(r)
    BY <1>1, <2>1, DespejarBom
  <2>3. /\ r.chave = b.chave /\ r.closed = b.closed /\ r.stop = b.stop /\ r.refs = b.refs
        /\ r.cache = b.cache /\ r.ruim = b.ruim /\ r.memoria = 0
    BY <1>1 DEF Trabalho
  <2>4. usado \in 0..Orcamento /\ Orcamento \in Nat /\ b.memoria \in Nat /\ b.memoria <= usado
    <3>1. usado \in 0..Orcamento /\ Orcamento \in Nat /\ jobs \in Seq(Trabalho)
      BY ConstantesAssumption DEF IInv, Tipos
    <3>2. usado = Cardinality(Retidos(jobs, DOMAIN jobs))
      BY DEF IInv, OrcamentoExato
    <3>3. b.memoria \in Nat /\ b.memoria <= Cardinality(Retidos(jobs, DOMAIN jobs))
      <4> HIDE DEF r
      <4>1. jobs' = [jobs EXCEPT ![j] = r] /\ r \in Trabalho
        BY <2>1, <2>2 DEF Bom
      <4> QED
        BY ONLY <3>1, <4>1, j \in DOMAIN jobs, RetidosTroca
    <3> QED
      BY <3>1, <3>2, <3>3
  <2>5. Conserva(b, r)
    <3> HIDE DEF r, b
    <3> QED
      BY <2>2, <2>3 DEF Conserva, Vivo
  <2>6. usado' = usado - b.memoria + r.memoria /\ usado' \in 0..Orcamento
    <3> HIDE DEF r, b
    <3> QED
      BY <2>1, <2>3, <2>4
  <2> HIDE DEF r
  <2> QED
    BY <2>1, <2>3, <2>5, <2>6, ContaVale
<1>3. CASE Gravar(j)
  BY <1>1, <1>3, GravarMuda, MudarVale DEF Gravar
<1>4. CASE LargarBloco(j)
  <2> DEFINE x == CASE b.io = "despejando" -> b.memoria
                    [] b.io = "gravando" -> b.arquivo + 1
                    [] OTHER -> b.arquivo
             r == [b EXCEPT !.io = "nada", !.ioCancelado = FALSE, !.arquivo = x]
             s == IF Direto(r) THEN Fracasso(r) ELSE r
  <2>1. b.io # "nada" /\ Cancelada(b) /\ Mudar(j, s)
    BY <1>4 DEF LargarBloco
  <2>2. /\ \/ b.io = "despejando" /\ x = b.memoria
           \/ b.io = "gravando" /\ x = b.arquivo + 1
           \/ b.io = "falhou" /\ x = b.arquivo
        /\ b.memoria \in Nat /\ b.arquivo \in Nat
    <3>1. b.io \in {"despejando", "gravando", "falhou"} /\ b.memoria \in Nat /\ b.arquivo \in Nat
      BY <1>1, <2>1, ConstantesAssumption DEF Trabalho
    <3> HIDE DEF b
    <3> QED
      BY <3>1
  <2>3. ~Direto(b) => b.erro
    BY <1>1, <2>1 DEF Cancelada, Bom, FimBom
  <2>4. Muda(b, s)
    <3>1. x \in Nat
      <4> HIDE DEF x, b
      <4> QED
        BY <2>2
    <3> HIDE DEF x, b
    <3> QED
      BY <1>1, <2>1, <2>2, <2>3, <3>1, LargarBlocoMuda
  <2> HIDE DEF s
  <2> QED
    BY <2>1, <2>4, MudarVale
<1>5. CASE Copiar(j)
  <2>1. PICK fim \in {"feita", "falhou"} : Mudar(j, [b EXCEPT !.cache = fim])
    BY <1>5 DEF Copiar
  <2>2. b.cache = "copiando"
    BY <1>5 DEF Copiar
  <2> QED
    BY <1>1, <2>1, <2>2, CopiarMuda, MudarVale
<1> QED
  BY <1>2, <1>3, <1>4, <1>5 DEF Fio

\* A producer that may fail now.
LEMMA FracassarVale ==
    ASSUME IInv, NEW j \in DOMAIN jobs, Mudar(j, Fracasso(jobs[j])),
           jobs[j].prod # "feito", jobs[j].io = "nada" \/ ~Direto(jobs[j])
    PROVE  IInv'
<1>1. Bom(jobs[j])
  BY DEF IInv, Jobs
<1>2. Muda(jobs[j], Fracasso(jobs[j]))
  BY <1>1, FracassoBom DEF Bom
<1> QED
  BY <1>2, MudarVale

\* A producer goes on, or a deferred close is tried again.
LEMMA ProducaoVale ==
    ASSUME IInv, NEW j \in DOMAIN jobs, Producao(j)
    PROVE  IInv'
<1> DEFINE b == jobs[j]
<1>1. Bom(b) /\ b \in Trabalho
  BY DEF IInv, Jobs, Bom
<1>2. CASE TomarVaga(j)
  <2>1. PICK x \in {"local", "worker"} :
           Mudar(j, [b EXCEPT !.prod = "gerando", !.slot = TRUE, !.rota = x])
    BY <1>2 DEF TomarVaga
  <2> QED
    BY <1>1, <1>2, <2>1, TomarVagaMuda, MudarVale DEF TomarVaga
<1>3. CASE FimFisico(j)
  <2> DEFINE x == b.io # "nada"
  <2>1. b.prod = "parando" /\ Mudar(j, [Fracasso(b) EXCEPT !.ioCancelado = x]) /\ x \in BOOLEAN
    BY <1>3 DEF FimFisico
  <2> HIDE DEF x
  <2>2. Muda(b, [Fracasso(b) EXCEPT !.ioCancelado = x])
    BY <1>1, <2>1, FimFisicoMuda
  <2> QED
    BY <2>1, <2>2, MudarVale
<1>4. CASE Interromper(j)
  <2>1. CASE b.prod = "vaga" /\ Mudar(j, [b EXCEPT !.prod = "feito", !.cancelado = FALSE])
    <3>1. Muda(b, [b EXCEPT !.prod = "feito", !.cancelado = FALSE])
      BY <1>1, <2>1, CanceladoMuda
    <3> QED
      BY <2>1, <3>1, MudarVale
  <2>2. CASE b.prod = "vaga" /\ Mudar(j, Fracasso(b))
    <3>1. b.io = "nada"
      BY <1>1, <2>2 DEF Bom, EscritaBoa
    <3> QED
      BY <2>2, <3>1, FracassarVale
  <2>3. CASE b.prod = "gerando" /\ Direto(b) /\ b.io = "nada" /\ Mudar(j, Fracasso(b))
    BY <2>3, FracassarVale
  <2>4. CASE b.prod = "gerando" /\ ~Direto(b)
             /\ Mudar(j, [b EXCEPT !.prod = "parando", !.cancelado = FALSE])
    <3>1. Muda(b, [b EXCEPT !.prod = "parando", !.cancelado = FALSE])
      BY <1>1, <2>4, CanceladoMuda
    <3> QED
      BY <2>4, <3>1, MudarVale
  <2>5. CASE b.prod = "parando" /\ Mudar(j, [b EXCEPT !.cancelado = FALSE])
    <3>1. [b EXCEPT !.cancelado = FALSE] = [b EXCEPT !.prod = "parando", !.cancelado = FALSE]
      BY <1>1, <2>5 DEF Trabalho
    <3>2. Muda(b, [b EXCEPT !.prod = "parando", !.cancelado = FALSE])
      BY <1>1, <2>5, CanceladoMuda
    <3> QED
      BY <2>5, <3>1, <3>2, MudarVale
  <2> QED
    BY <1>4, <2>1, <2>2, <2>3, <2>4, <2>5 DEF Interromper
<1>5. CASE Refazer(j)
  <2> DEFINE r == Fechar([b EXCEPT !.agendada = "nada"])
  <2>1. Larga(b, r) /\ r.refs = b.refs
    BY <1>1, RefazerBom
  <2>2. Trocar(j, r) /\ UNCHANGED <<cons, encerrado>>
    BY <1>5 DEF Refazer
  <2> HIDE DEF r
  <2>3. jobs' = [jobs EXCEPT ![j] = r]
    BY <2>2 DEF Trocar
  <2>4. /\ Len(jobs') = Len(jobs) /\ DOMAIN jobs' = DOMAIN jobs /\ jobs'[j] = r
        /\ \A i \in DOMAIN jobs : i # j => jobs'[i] = jobs[i]
    BY <2>3 DEF IInv, Tipos
  <2>5. Leitores' /\ cons' \in [Consumidores -> Lugar]
    BY <2>2, <2>4 DEF IInv, Leitores, Tipos
  <2>6. Referencias'
    BY <2>1, <2>2, <2>4 DEF IInv, Referencias
  <2> QED
    BY <2>1, <2>2, <2>5, <2>6, TrocarVale
<1> QED
  BY <1>2, <1>3, <1>4, <1>5 DEF Producao

\* A producer fails, ends, times out or drops a cancellation.
LEMMA FimVale ==
    ASSUME IInv, NEW j \in DOMAIN jobs,
           \/ Falhar(j) \/ Concluir(j) \/ Vencer(j) \/ FalharDisco(j)
           \/ EngolirCancelamento(j) \/ RecusarBloco(j)
    PROVE  IInv'
<1> DEFINE b == jobs[j]
<1>1. Bom(b) /\ b \in Trabalho
  BY DEF IInv, Jobs, Bom
<1>2. CASE Falhar(j)
  <2> DEFINE d == [b EXCEPT !.io = "nada"]
  <2>1. b.prod = "gerando" /\ b.io \in {"nada", "falhou"}
    BY <1>2 DEF Falhar
  <2>2. CASE d.rota = "worker" /\ d.tamanho = 0
    <3>1. b.tamanho = 0
      BY <1>1, <2>2 DEF Trabalho
    <3>2. Mudar(j, [d EXCEPT !.rota = "local", !.recebidos = 0])
      BY <1>2, <2>2 DEF Falhar
    <3>3. Muda(b, [d EXCEPT !.rota = "local", !.recebidos = 0])
      BY <1>1, <2>1, <3>1, FalharMuda
    <3> QED
      BY <3>2, <3>3, MudarVale
  <2>3. CASE ~(d.rota = "worker" /\ d.tamanho = 0)
    <3>1. Mudar(j, Fracasso(d))
      BY <1>2, <2>3 DEF Falhar
    <3>2. /\ d \in Trabalho /\ EscritaBoa(d) /\ FimBom(d) /\ d.prod # "feito" /\ d.io = "nada"
      BY <1>1, <2>1 DEF Bom, Trabalho, EscritaBoa, FimBom, Direto
    <3>3. AudioBom(d)
      BY <1>1, <2>1 DEF Bom, Trabalho, EscritaBoa, AudioBom, Guardado
    <3>4. /\ d.chave = b.chave /\ d.refs = b.refs /\ d.memoria = b.memoria
          /\ d.closed = b.closed /\ d.stop = b.stop /\ d.cache = b.cache /\ d.ruim = b.ruim
      BY <1>1 DEF Trabalho
    <3> HIDE DEF d
    <3>5. Muda(d, Fracasso(d))
      BY <3>2, <3>3, FracassoBom
    <3>6. Muda(b, Fracasso(d))
      BY <3>4, <3>5 DEF Muda, Conserva, Vivo
    <3> QED
      BY <3>1, <3>6, MudarVale
  <2> QED
    BY <2>2, <2>3
<1>3. CASE Concluir(j)
  <2> DEFINE r == [b EXCEPT !.ended = TRUE, !.prod = "feito",
                            !.cache = IF b.guarda THEN "copiando" ELSE @]
  <2>1. b.prod = "gerando" /\ b.io = "nada" /\ Mudar(j, r)
    BY <1>3 DEF Concluir
  <2>2. Muda(b, r)
    BY <1>1, <2>1, ConcluirMuda
  <2> HIDE DEF r
  <2> QED
    BY <2>1, <2>2, MudarVale
<1>4. CASE Vencer(j)
  BY <1>1, <1>4, VencerMuda, MudarVale DEF Vencer
<1>5. CASE FalharDisco(j)
  <2>1. PICK x \in BOOLEAN :
           Mudar(j, [b EXCEPT !.io = "falhou", !.ruim = TRUE,
                       !.lixo = @ \/ (x /\ b.io = "gravando")])
    BY <1>5 DEF FalharDisco
  <2>2. Muda(b, [b EXCEPT !.io = "falhou", !.ruim = TRUE,
                       !.lixo = @ \/ (x /\ b.io = "gravando")])
    BY <1>1, <1>5, FalharDiscoMuda DEF FalharDisco
  <2> QED
    BY <2>1, <2>2, MudarVale
<1>6. CASE EngolirCancelamento(j)
  <2>1. b.prod = "gerando" /\ Mudar(j, [b EXCEPT !.cancelado = FALSE])
    BY <1>6 DEF EngolirCancelamento
  <2>2. [b EXCEPT !.cancelado = FALSE] = [b EXCEPT !.prod = "gerando", !.cancelado = FALSE]
    BY <1>1, <2>1 DEF Trabalho
  <2>3. Muda(b, [b EXCEPT !.prod = "gerando", !.cancelado = FALSE])
    BY <1>1, <2>1, CanceladoMuda
  <2> QED
    BY <2>1, <2>2, <2>3, MudarVale
<1>7. CASE RecusarBloco(j)
  BY <1>7, FracassarVale DEF RecusarBloco
<1> QED
  BY <1>2, <1>3, <1>4, <1>5, <1>6, <1>7

-----------------------------------------------------------------------------
(* The shutdown. *)

\* What it leaves of a job is a job that may have been closed.
LEMMA AoEncerrarBom ==
    ASSUME IInv, ~encerrado, NEW j \in DOMAIN jobs
    PROVE  Larga(jobs[j], AoEncerrar(j))
<1> DEFINE b == jobs[j]
           resto == IF tabela[jobs[j].chave] = j THEN 0
                    ELSE jobs[j].refs - Cardinality(Alcas(j))
           d == [b EXCEPT !.refs = resto]
<1>1. Bom(b) /\ b \in Trabalho
  BY DEF IInv, Jobs, Bom
<1>2. resto \in Nat /\ resto <= b.refs /\ b.refs \in Nat
  <2>1. b.refs = Cardinality(Usuarios(cons, j)) /\ b.refs \in Nat
    BY <1>1 DEF IInv, Referencias, Trabalho
  <2>2. Alcas(j) \subseteq Usuarios(cons, j)
    BY DEF Alcas, Usuarios, Consumidores
  <2>3. IsFiniteSet(Usuarios(cons, j))
    BY UsuariosFinitos
  <2>4. IsFiniteSet(Alcas(j)) /\ Cardinality(Alcas(j)) <= Cardinality(Usuarios(cons, j))
    BY <2>2, <2>3, FS_Subset
  <2>5. Cardinality(Alcas(j)) \in Nat
    BY <2>4, FS_CardinalityType
  <2> HIDE DEF b
  <2>6. resto = 0 \/ resto = b.refs - Cardinality(Alcas(j))
    BY DEF b
  <2> HIDE DEF resto
  <2> QED
    BY ONLY <2>1, <2>4, <2>5, <2>6
<1> HIDE DEF resto
<1>3. Bom(d)
  <2>1. d \in Trabalho /\ d.refs = resto
    BY <1>1, <1>2 DEF Trabalho
  <2>2. b.refs = 0 => d.refs = 0
    BY <1>2, <2>1
  <2> HIDE DEF b
  <2>3. FimBom(d)
    BY <1>1, <2>1, <2>2 DEF Bom, Trabalho, FimBom
  <2>4. EscritaBoa(d) /\ AudioBom(d) /\ AudioExato(d)
    BY <1>1, <2>1 DEF Bom, Trabalho, EscritaBoa, AudioBom, AudioExato, Guardado, Direto
  <2> QED
    BY <2>1, <2>3, <2>4 DEF Bom
<1>4. /\ d.chave = b.chave /\ d.memoria = b.memoria /\ d.ruim = b.ruim
      /\ d.closed = b.closed /\ d.stop = b.stop /\ d.cache = b.cache
  BY <1>1 DEF Trabalho
<1>5. AoEncerrar(j) = Liberar(d) \/ AoEncerrar(j) = d
  BY DEF AoEncerrar, resto
<1> HIDE DEF d, b
<1>6. Larga(b, d)
  BY <1>3, <1>4 DEF Larga, Vivo
<1>7. Larga(d, Liberar(d))
  BY <1>3, LiberarBom DEF Solta
<1>8. Larga(b, Liberar(d))
  BY <1>4, <1>7 DEF Larga, Vivo
<1> QED
  BY <1>5, <1>6, <1>8 DEF b

\* The whole shutdown.
LEMMA EncerrarVale ==
    ASSUME IInv, Encerrar
    PROVE  IInv'
<1> DEFINE D == DOMAIN jobs
           F == {j \in DOMAIN jobs : jobs'[j].closed /\ ~jobs[j].closed}
<1> USE DEF IInv
<1>1. /\ ~encerrado /\ encerrado' /\ encerrado' \in BOOLEAN
      /\ jobs' = [j \in DOMAIN jobs |-> AoEncerrar(j)]
      /\ tabela' = [k \in Chaves |-> IF tabela[k] \in F THEN 0 ELSE tabela[k]]
      /\ usado' = usado - Cardinality(Retidos(jobs, F))
      /\ cons' = [c \in Consumidores |->
                    IF c \in Fluxos /\ cons[c].pc \in {"ouvindo", "terminando"}
                    THEN [cons[c] EXCEPT !.pc = "solto"] ELSE cons[c]]
  BY DEF Encerrar
<1>2. \A j \in D : Larga(jobs[j], jobs'[j])
  BY <1>1, AoEncerrarBom
<1>3. /\ jobs' \in Seq(Trabalho) /\ Len(jobs') = Len(jobs) /\ DOMAIN jobs' = D
      /\ D = 1..Len(jobs) /\ Len(jobs) \in Nat
      /\ \A j \in D : jobs[j] \in Trabalho /\ jobs'[j] \in Trabalho
  <2>1. \A j \in D : AoEncerrar(j) \in Trabalho
    BY <1>1, <1>2 DEF Larga, Bom
  <2>2. D = 1..Len(jobs) /\ Len(jobs) \in Nat /\ \A j \in D : jobs[j] \in Trabalho
    BY DEF Tipos
  <2>3. jobs' \in [1..Len(jobs) -> Trabalho]
    BY <1>1, <2>1, <2>2
  <2> HIDE DEF D
  <2> QED
    BY <2>2, <2>3
<1>4. Jobs' /\ SemDisco'
  BY <1>2, <1>3 DEF Jobs, SemDisco, Larga
<1>5. Referencias' /\ Copias'
  BY <1>1 DEF Referencias, Copias
<1>6. /\ cons' \in [Consumidores -> Lugar]
      /\ \A c \in Consumidores :
            /\ cons'[c].job = cons[c].job /\ cons'[c].lendo = cons[c].lendo
            /\ \/ cons'[c] = cons[c]
               \/ cons'[c].pc = "solto" /\ cons[c].pc \in {"ouvindo", "terminando"}
  BY <1>1 DEF Tipos, Lugar
<1>7. Leitores'
  BY <1>1, <1>3, <1>6 DEF Leitores
<1>8. Tabela' /\ tabela' \in [Chaves -> 0..Len(jobs')]
  <2>1. F \in SUBSET D
    OBVIOUS
  <2>2. \A i \in D : jobs'[i].chave = jobs[i].chave
    BY <1>2 DEF Larga
  <2>3. \A i \in D : Vivo(jobs'[i]) => Vivo(jobs[i]) /\ i \notin F
    BY <1>2 DEF Larga, Vivo
  <2> HIDE DEF F
  <2> QED
    BY <1>1, <1>3, <2>1, <2>2, <2>3, TabelaFica
<1>9. OrcamentoExato' /\ usado' \in 0..Orcamento
  <2> DEFINE R == D \ F
  <2>1. IsFiniteSet(D)
    BY <1>3, FS_Interval
  <2>2. IsFiniteSet(F) /\ IsFiniteSet(R) /\ D = R \cup F /\ R \cap F = {}
    BY <2>1, FS_Subset
  <2>3. \A i \in R : jobs'[i].memoria = jobs[i].memoria
    BY <1>2, <1>3 DEF Larga, Trabalho
  <2>4. \A i \in F : jobs'[i].memoria = 0
    BY <1>2 DEF Larga
  <2>5. Retidos(jobs', F) = {}
    BY <2>4, ConstantesAssumption DEF Retidos
  <2> HIDE DEF D, F, R
  <2>6. Retidos(jobs', R) = Retidos(jobs, R)
    BY ONLY <2>3, RetidosIguais
  <2>7. /\ Cardinality(Retidos(jobs, R)) \in Nat /\ Cardinality(Retidos(jobs, F)) \in Nat
        /\ Cardinality(Retidos(jobs, R \cup F)) =
             Cardinality(Retidos(jobs, R)) + Cardinality(Retidos(jobs, F))
    BY ONLY <2>2, RetidosParte
  <2>8. Cardinality(Retidos(jobs', R \cup F)) =
             Cardinality(Retidos(jobs', R)) + Cardinality(Retidos(jobs', F))
    BY ONLY <2>2, RetidosParte
  <2>9. Cardinality(Retidos(jobs', F)) = 0
    BY <2>5, FS_EmptySet
  <2>10. usado = Cardinality(Retidos(jobs, R \cup F))
    BY <2>2 DEF OrcamentoExato, D
  <2>11. Cardinality(Retidos(jobs', R)) = Cardinality(Retidos(jobs, R))
    BY <2>6
  <2>12. usado' = Cardinality(Retidos(jobs', R \cup F))
    BY ONLY <1>1, <2>7, <2>8, <2>9, <2>10, <2>11
  <2>13. usado' \in 0..Orcamento
    <3>1. usado \in 0..Orcamento /\ Orcamento \in Nat
      BY ConstantesAssumption DEF Tipos
    <3> QED
      BY ONLY <1>1, <2>7, <2>10, <3>1
  <2> QED
    BY <1>3, <2>2, <2>12, <2>13 DEF OrcamentoExato
<1> QED
  BY <1>1, <1>3, <1>4, <1>5, <1>6, <1>7, <1>8, <1>9 DEF Tipos

-----------------------------------------------------------------------------
(* Theorems. *)

\* The invariant holds at the start.
LEMMA Inicio == Init => IInv
<1> SUFFICES ASSUME Init PROVE IInv
  OBVIOUS
<1>1. jobs = <<>> /\ DOMAIN jobs = {} /\ Len(jobs) = 0
  BY DEF Init
<1>2. Tipos
  <2>1. jobs \in Seq(Trabalho)
    BY <1>1
  <2>2. tabela \in [Chaves -> 0..Len(jobs)]
    BY <1>1 DEF Init
  <2>3. cons \in [Consumidores -> Lugar] /\ encerrado \in BOOLEAN
    BY DEF Init, Fora, Lugar
  <2>4. usado \in 0..Orcamento
    BY ConstantesAssumption DEF Init
  <2> QED
    BY <2>1, <2>2, <2>3, <2>4 DEF Tipos
<1>3. Jobs /\ Tabela /\ Leitores /\ Referencias /\ Copias /\ SemDisco
  BY <1>1 DEF Init, Jobs, Tabela, UmaPorChave, Leitores, Referencias, Copias, SemDisco, Fora
<1>4. OrcamentoExato
  <2>1. Retidos(jobs, DOMAIN jobs) = {}
    BY <1>1 DEF Retidos
  <2> QED
    BY <2>1, FS_EmptySet DEF Init, OrcamentoExato
<1> QED
  BY <1>2, <1>3, <1>4 DEF IInv

\* Each step keeps it.
LEMMA Passo == IInv /\ [Next]_vars => IInv'
<1> SUFFICES ASSUME IInv, [Next]_vars PROVE IInv'
  OBVIOUS
<1>1. ASSUME NEW c \in Consumidores, Consumo(c) \/ Desistir(c) PROVE IInv'
  BY <1>1, PrepararVale, LerVale, DesistirVale, PedirArquivoVale DEF Consumo
<1>2. ASSUME NEW c \in Consumidores, NEW k \in Chaves, Adquirir(c, k) PROVE IInv'
  BY <1>2, JuntarVale, CriarVale
<1>3. ASSUME NEW j \in DOMAIN jobs,
             \/ Fio(j) \/ Producao(j) \/ Receber(j) \/ Falhar(j) \/ Concluir(j)
             \/ Vencer(j) \/ FalharDisco(j) \/ EngolirCancelamento(j)
             \/ RecusarBloco(j)
      PROVE  IInv'
  BY <1>3, FioVale, ProducaoVale, ReceberVale, FimVale
<1>4. CASE Encerrar
  BY <1>4, EncerrarVale
<1>5. CASE UNCHANGED vars
  <2>1. Passeio
    BY <1>5, MesmosUsuarios DEF IInv, Tipos, Leitores, Passeio, vars
  <2> QED
    BY <1>5, <2>1, PasseioVale DEF vars
<1> QED
  BY <1>1, <1>2, <1>3, <1>4, <1>5 DEF Next

\* Every reachable state satisfies the inductive invariant.
THEOREM Invariante == Spec => []IInv
BY Inicio, Passo, PTL DEF Spec

\* Each job counts the consumers that will still release it, the budget counts
\* the chunks that open buffers keep in memory, and neither it nor a buffer
\* exceeds its limit: _acquire_shared_job and _release_shared_job, MemoryBudget.
THEOREM Contas == Spec => []ContasExatas
<1>1. IInv => ContasExatas
  <2> SUFFICES ASSUME IInv PROVE ContasExatas
    OBVIOUS
  <2>1. TypeOK
    BY DEF IInv, Tipos, Jobs, Bom, Trabalho, TypeOK, Leitores, Lugar
  <2>2. \A j \in DOMAIN jobs : {c \in Ativos : cons[c].job = j} = Usuarios(cons, j)
    BY DEF Ativos, Usuarios
  <2>3. RefsExatas
    BY <2>2 DEF IInv, Referencias, RefsExatas
  <2> QED
    BY <2>1, <2>3 DEF IInv, ContasExatas
<1> QED
  BY <1>1, Invariante, PTL

\* The buffer of a job is closed when its producer and its threads have ended
\* and, but for a shutdown, nobody reads or copies it: the comment of
\* ReplayBuffer, kept by _close_shared_job_when_idle.
THEOREM Fechados == Spec => []FechadoSemUso
<1>1. IInv => FechadoSemUso
  <2> SUFFICES ASSUME IInv, NEW j \in DOMAIN jobs, jobs[j].closed
               PROVE  /\ jobs[j].prod = "feito" /\ jobs[j].io = "nada"
                      /\ ~encerrado =>
                            /\ jobs[j].cache # "copiando"
                            /\ \A c \in Consumidores :
                                  cons[c].job = j => c \notin Ativos /\ ~cons[c].lendo
    BY DEF FechadoSemUso
  <2>1. jobs[j].prod = "feito" /\ jobs[j].io = "nada"
    BY DEF IInv, Jobs, Bom, FimBom
  <2>2. ~encerrado => jobs[j].cache # "copiando"
    BY DEF IInv, Copias
  <2>3. ASSUME ~encerrado, NEW c \in Consumidores, cons[c].job = j
        PROVE  c \notin Ativos /\ ~cons[c].lendo
    <3>1. c \notin Ativos
      BY <2>3, JobAberto DEF Ativos
    <3>2. cons[c].lendo => cons[c].pc \in {"ouvindo", "terminando"}
      BY <2>3 DEF IInv, Leitores
    <3> QED
      BY <3>1, <3>2 DEF Ativos
  <2> QED
    BY <2>1, <2>2, <2>3
<1> QED
  BY <1>1, Invariante, PTL

\* What a reader may ask for is stored, in memory or in the spool, whenever a
\* reader can have the lock: ReplayBuffer.append and _spill.
THEOREM Leitura == Spec => []Legivel
<1>1. IInv => Legivel
  BY DEF IInv, Jobs, Bom, AudioBom, Guardado, Legivel
<1> QED
  BY <1>1, Invariante, PTL

\* Requests for a key share the one live job of that key, and nobody is
\* attached to a job whose producer was cancelled: _acquire_shared_job and
\* _release_shared_job.
THEOREM Compartilhamento == Spec => []Compartilhada
<1>1. IInv => Compartilhada
  <2> SUFFICES ASSUME IInv PROVE Compartilhada
    OBVIOUS
  <2>1. UmaPorChave
    BY DEF IInv, Tabela
  <2>2. ASSUME ~encerrado, NEW c \in Ativos PROVE ~Job(c).pedido
    <3>1. c \in Consumidores /\ cons[c].pc # "fora" /\ jobs[cons[c].job].refs # 0
      BY <2>2, JobAberto DEF Ativos
    <3>2. Bom(jobs[cons[c].job])
      BY <3>1, TemJob
    <3> QED
      BY <3>1, <3>2 DEF Bom, FimBom, Job
  <2> QED
    BY <2>1, <2>2 DEF Compartilhada
<1> QED
  BY <1>1, Invariante, PTL

\* With a disk that does not fail, and until a shutdown, only complete audio of
\* one provider is copied to the cache: ReplayBuffer.copy_to.
THEOREM Copia ==
    ASSUME "disco" \notin Ambiente
    PROVE  Spec => [](~encerrado => CopiaCompleta)
<1>1. IInv => (~encerrado => CopiaCompleta)
  <2> SUFFICES ASSUME IInv, ~encerrado, NEW j \in DOMAIN jobs, jobs[j].cache = "copiando"
               PROVE  /\ jobs[j].ended /\ ~jobs[j].erro /\ ~jobs[j].lixo
                      /\ jobs[j].tamanho = jobs[j].recebidos
                      /\ jobs[j].recebidos = Guardado(jobs[j])
    BY DEF CopiaCompleta, Guardado
  <2>1. Bom(jobs[j]) /\ ~jobs[j].closed /\ ~jobs[j].ruim
    BY DEF IInv, Jobs, Copias, SemDisco
  <2> QED
    BY <2>1 DEF Bom, FimBom, EscritaBoa, AudioExato
<1> QED
  BY <1>1, Invariante, PTL
=============================================================================
