-------------------------- MODULE PathLeasesProofs --------------------------
(* The audio files on disk, for any number of paths, inodes, items, readers   *)
(* and publishers: what the event loop defers is deleted, and nothing in use  *)
(* is. The argument follows the name of an inode: while a descriptor or an    *)
(* entry keeps it alive, only the path it was opened by can name it.          *)
EXTENDS PathLeases, TLAPS

LoopTipo == [op : {"parado", "abriu", "solta"}, path : PathOuNada,
             quem : Donos \cup Leitores \cup {Nada}, inode : InodeOuNada,
             resto : SUBSET Chaves]
RemTipo == [path : PathOuNada, inode : InodeOuNada,
            pc : {"fora", "abre", "tranca", "confere", "apaga"}, alvo : InodeOuNada]

\* The parts of TypeOK, named.
Tipos ==
    /\ nome \in [Paths -> InodeOuNada]
    /\ entries \in [Chaves -> SUBSET Donos]
    /\ pending_delete \subseteq Chaves /\ pedidos \subseteq Chaves
    /\ loop \in LoopTipo
    /\ rem \in [Removedores -> RemTipo]
    /\ leitor \in [Leitores -> InodeOuNada]
    /\ publica \in [Publicadores -> PathOuNada]

\* A remover has a path, and past its open an inode.
RemoverTem ==
    \A a \in Removedores :
       /\ rem[a].pc # "fora" => rem[a].path \in Paths
       /\ rem[a].pc \in {"tranca", "confere", "apaga"} => rem[a].inode \in Inodes

\* What acquire has opened; the loop removes nothing meanwhile.
AbrirTem ==
    loop.op = "abriu" => /\ loop.path \in Paths /\ loop.inode \in Inodes
                         /\ rem[Loop].pc = "fora"

\* An inode has one name, and as long as it is open or referenced no other.
NomeUnico ==
    /\ \A p, q \in Paths : nome[p] # Nada /\ nome[p] = nome[q] => p = q
    /\ \A k \in Chaves, q \in Paths : entries[k] # {} /\ nome[q] = k[2] => q = k[1]
    /\ \A q \in Paths : loop.op = "abriu" /\ nome[q] = loop.inode => q = loop.path
    /\ \A a \in Removedores, q \in Paths :
          rem[a].pc \in {"tranca", "confere", "apaga"} /\ nome[q] = rem[a].inode
             => q = rem[a].path

\* A remover past its flock excludes every user.
SemUso ==
    \A a \in Removedores : rem[a].pc \in {"confere", "apaga"} =>
       /\ \A k \in Chaves : entries[k] # {} => k[2] # rem[a].inode
       /\ \A r \in Leitores : leitor[r] # rem[a].inode

\* The deferred deletion in progress has no owner left.
AlvoSolto ==
    \A k \in Chaves : /\ rem[Loop].pc # "fora"
                      /\ rem[Loop].path = k[1] /\ rem[Loop].alvo = k[2]
                      => entries[k] = {}

PendenteArrendado == \A k \in pending_delete : entries[k] # {}

\* The event loop is deleting what was deferred at key k.
NaMaoDoLoop(k) ==
    /\ rem[Loop].path = k[1] /\ rem[Loop].alvo = k[2]
    /\ \/ rem[Loop].pc = "abre"
       \/ rem[Loop].pc \in {"tranca", "confere", "apaga"} /\ rem[Loop].inode = k[2]

\* A deferred deletion is pending, in progress, or another remover has the file.
PedidoVivo ==
    \A k \in pedidos : nome[k[1]] = k[2] =>
       k \in pending_delete \/ Exclusivo(k[2]) \/ NaMaoDoLoop(k)

\* The inductive invariant.
IInv == /\ Tipos /\ RemoverTem /\ AbrirTem /\ NomeUnico
        /\ SemUso /\ AlvoSolto /\ PendenteArrendado /\ PedidoVivo

-----------------------------------------------------------------------------
LEMMA InvInicial == Init => IInv
<1> SUFFICES ASSUME Init PROVE IInv
  OBVIOUS
<1> USE LeasesAssumption
<1>1. Tipos
  BY DEF Init, Tipos, SemOp, Fora, LoopTipo, RemTipo, InodeOuNada, PathOuNada
<1>2. RemoverTem /\ AbrirTem /\ SemUso /\ AlvoSolto
  BY DEF Init, RemoverTem, AbrirTem, SemUso, AlvoSolto, SemOp, Fora, Removedores
<1>3. NomeUnico
  BY DEF Init, NomeUnico, SemOp, Fora
<1>4. PendenteArrendado /\ PedidoVivo
  BY DEF Init, PendenteArrendado, PedidoVivo
<1>5. QED
  BY <1>1, <1>2, <1>3, <1>4 DEF IInv

\* What a remover is after one of its steps.
LEMMA RegistroSeguinte ==
    ASSUME NEW r \in RemTipo, NEW pc
    PROVE  [r EXCEPT !.pc = pc] =
              [pc |-> pc, path |-> r.path, inode |-> r.inode, alvo |-> r.alvo]
  BY DEF RemTipo

LEMMA AbrirSegura ==
    ASSUME IInv, NEW q \in Donos \cup Leitores, NEW p \in Paths, Abrir(q, p)
    PROVE  IInv'
<1>1. /\ loop' = [op |-> "abriu", quem |-> q, path |-> p, inode |-> nome[p],
                  resto |-> {}]
      /\ nome[p] \in Inodes /\ rem[Loop].pc = "fora"
  BY DEF Abrir, IInv, Tipos, SemOp, Parado, InodeOuNada
<1>2. UNCHANGED <<nome, entries, pending_delete, rem, leitor, publica, pedidos>>
  BY DEF Abrir
<1>3. Tipos'
  BY <1>1, <1>2 DEF IInv, Tipos, LoopTipo, InodeOuNada, PathOuNada
<1>4. AbrirTem'
  BY <1>1, <1>2 DEF AbrirTem
<1>5. NomeUnico'
  BY <1>1, <1>2, LeasesAssumption DEF IInv, NomeUnico
<1>6. (RemoverTem /\ SemUso /\ AlvoSolto /\ PendenteArrendado /\ PedidoVivo)'
  BY <1>2 DEF IInv, RemoverTem, SemUso, AlvoSolto, PendenteArrendado, PedidoVivo,
     Exclusivo, NaMaoDoLoop
<1>7. QED
  BY <1>3, <1>4, <1>5, <1>6 DEF IInv

LEMMA ArrendarSegura ==
    ASSUME IInv, Arrendar
    PROVE  IInv'
<1> DEFINE c == <<loop.path, loop.inode>>
<1>1. /\ loop.op = "abriu" /\ loop.path \in Paths /\ loop.inode \in Inodes
      /\ rem[Loop].pc = "fora" /\ c \in Chaves /\ loop.quem \in Donos
  BY DEF Arrendar, IInv, AbrirTem, Chaves
<1>2. loop' = SemOp /\ UNCHANGED <<nome, pending_delete, rem, leitor, publica, pedidos>>
  BY DEF Arrendar
<1>3. /\ entries' \in [Chaves -> SUBSET Donos]
      /\ \A k \in Chaves : entries[k] # {} => entries'[k] # {}
      /\ \A k \in Chaves : entries'[k] # {} /\ entries[k] = {} =>
                              k = c /\ ~Exclusivo(loop.inode)
  BY <1>1 DEF Arrendar, IInv, Tipos, PodeEntrar
<1>4. Tipos'
  BY <1>2, <1>3 DEF IInv, Tipos, LoopTipo, SemOp, InodeOuNada, PathOuNada
<1>5. AbrirTem'
  BY <1>2 DEF AbrirTem, SemOp
<1>6. NomeUnico'
  BY <1>1, <1>2, <1>3 DEF IInv, NomeUnico, SemOp
<1>7. SemUso'
  BY <1>1, <1>2, <1>3 DEF IInv, SemUso, Exclusivo
<1>8. (AlvoSolto /\ RemoverTem)'
  BY <1>1, <1>2 DEF IInv, AlvoSolto, RemoverTem
<1>9. (PendenteArrendado /\ PedidoVivo)'
  BY <1>2, <1>3 DEF IInv, PendenteArrendado, PedidoVivo, Exclusivo, NaMaoDoLoop, Tipos
<1>10. QED
  BY <1>4, <1>5, <1>6, <1>7, <1>8, <1>9 DEF IInv

LEMMA LeitorSegura ==
    ASSUME IInv, Travar \/ \E r \in Leitores : Fechar(r)
    PROVE  IInv'
<1>1. /\ loop' \in {loop, SemOp}
      /\ UNCHANGED <<nome, entries, pending_delete, rem, publica, pedidos>>
  BY DEF Travar, Fechar
<1>2. /\ leitor' \in [Leitores -> InodeOuNada]
      /\ \A r \in Leitores : \/ leitor'[r] \in {leitor[r], Nada}
                             \/ ~Exclusivo(leitor'[r])
  BY DEF Travar, Fechar, IInv, Tipos, LoopTipo, InodeOuNada
<1>3. Tipos'
  BY <1>1, <1>2 DEF IInv, Tipos, LoopTipo, SemOp, InodeOuNada, PathOuNada
<1>4. (AbrirTem /\ NomeUnico)'
  BY <1>1 DEF IInv, AbrirTem, NomeUnico, SemOp
<1>5. SemUso'
  BY <1>1, <1>2, LeasesAssumption DEF IInv, SemUso, Exclusivo, RemoverTem
<1>6. (RemoverTem /\ AlvoSolto /\ PendenteArrendado /\ PedidoVivo)'
  BY <1>1 DEF IInv, RemoverTem, AlvoSolto, PendenteArrendado, PedidoVivo, Exclusivo,
     NaMaoDoLoop
<1>7. QED
  BY <1>3, <1>4, <1>5, <1>6 DEF IInv

LEMMA SoltarSegura ==
    ASSUME IInv, NEW d \in Donos, Soltar(d)
    PROVE  IInv'
<1>1. /\ loop' = [op |-> "solta", quem |-> d, path |-> Nada, inode |-> Nada,
                  resto |-> {k \in Arrendadas : d \in entries[k]}]
      /\ UNCHANGED <<nome, entries, pending_delete, rem, leitor, publica, pedidos>>
  BY DEF Soltar, SemOp
<1>2. Tipos'
  BY <1>1 DEF IInv, Tipos, LoopTipo, InodeOuNada, PathOuNada, Arrendadas
<1>3. (AbrirTem /\ NomeUnico)'
  BY <1>1 DEF IInv, AbrirTem, NomeUnico
<1>4. (RemoverTem /\ SemUso /\ AlvoSolto /\ PendenteArrendado /\ PedidoVivo)'
  BY <1>1 DEF IInv, RemoverTem, SemUso, AlvoSolto, PendenteArrendado, PedidoVivo,
     Exclusivo, NaMaoDoLoop
<1>5. QED
  BY <1>2, <1>3, <1>4 DEF IInv

LEMMA SoltarChaveSegura ==
    ASSUME IInv, NEW c \in Chaves, SoltarChave(c)
    PROVE  IInv'
<1>1. /\ loop.op = "solta" /\ rem[Loop].pc = "fora"
      /\ entries' = [entries EXCEPT ![c] = @ \ {loop.quem}]
      /\ UNCHANGED <<nome, leitor, publica, pedidos>>
  BY DEF SoltarChave
<1>2. /\ loop' \in LoopTipo /\ loop'.op \in {"parado", "solta"}
  BY DEF SoltarChave, IInv, Tipos, LoopTipo, SemOp, InodeOuNada, PathOuNada
<1>3. c[1] \in Paths /\ c[2] \in Inodes /\ c = <<c[1], c[2]>>
  BY DEF Chaves
<1>4. /\ entries' \in [Chaves -> SUBSET Donos]
      /\ \A k \in Chaves : entries'[k] # {} => entries[k] # {}
      /\ \A k \in Chaves \ {c} : entries'[k] = entries[k]
      /\ entries[c] # {loop.quem} /\ entries[c] # {} => entries'[c] # {}
  BY <1>1 DEF IInv, Tipos
<1>5. CASE entries[c] = {loop.quem} /\ DeveApagar(c)
  <2>1. /\ pending_delete' = pending_delete \ {c}
        /\ rem' = [rem EXCEPT ![Loop] = [pc |-> "abre", path |-> c[1],
                                         inode |-> Nada, alvo |-> c[2]]]
    BY <1>5, Zenon DEF SoltarChave, ComecarEm
  <2>2. /\ rem'[Loop] = [pc |-> "abre", path |-> c[1], inode |-> Nada, alvo |-> c[2]]
        /\ \A a \in Removedores \ {Loop} : rem'[a] = rem[a]
        /\ rem' \in [Removedores -> RemTipo]
    BY <2>1, <1>3 DEF IInv, Tipos, RemTipo, Removedores, InodeOuNada, PathOuNada
  <2>3. entries'[c] = {}
    BY <1>1, <1>5 DEF IInv, Tipos
  <2>4. Tipos'
    BY <1>1, <1>2, <1>4, <2>1, <2>2 DEF IInv, Tipos
  <2>5. (RemoverTem /\ AbrirTem)'
    BY <1>2, <1>3, <2>2 DEF IInv, RemoverTem, AbrirTem
  <2>6. NomeUnico'
    BY <1>1, <1>2, <1>4, <2>2 DEF IInv, NomeUnico
  <2>7. SemUso'
    BY <1>1, <1>4, <2>2 DEF IInv, SemUso
  <2>8. AlvoSolto'
    BY <1>3, <2>2, <2>3 DEF AlvoSolto, Chaves
  <2>9. PendenteArrendado'
    BY <1>4, <2>1 DEF IInv, PendenteArrendado, Tipos
  <2>10. PedidoVivo'
    <3> SUFFICES ASSUME NEW k \in pedidos, nome[k[1]] = k[2]
                 PROVE  k \in pending_delete' \/ Exclusivo(k[2])' \/ NaMaoDoLoop(k)'
      BY <1>1 DEF PedidoVivo
    <3>1. k \in pending_delete \/ Exclusivo(k[2])
      BY <1>1 DEF IInv, PedidoVivo, NaMaoDoLoop
    <3>2. CASE k = c
      BY <3>2, <2>2 DEF NaMaoDoLoop
    <3>3. CASE k \in pending_delete /\ k # c
      BY <3>3, <2>1
    <3>4. CASE Exclusivo(k[2])
      BY <1>1, <3>4, <2>2 DEF Exclusivo
    <3>5. QED
      BY <3>1, <3>2, <3>3, <3>4
  <2>11. QED
    BY <2>4, <2>5, <2>6, <2>7, <2>8, <2>9, <2>10 DEF IInv
<1>6. CASE ~(entries[c] = {loop.quem} /\ DeveApagar(c))
  <2>1. /\ rem' = rem
        /\ pending_delete' = IF entries[c] = {loop.quem} THEN pending_delete \ {c}
                             ELSE pending_delete
    BY <1>6 DEF SoltarChave
  <2>2. Tipos'
    BY <1>1, <1>2, <1>4, <2>1 DEF IInv, Tipos
  <2>3. (RemoverTem /\ AbrirTem)'
    BY <1>2, <2>1 DEF IInv, RemoverTem, AbrirTem
  <2>4. NomeUnico'
    BY <1>1, <1>2, <1>4, <2>1 DEF IInv, NomeUnico
  <2>5. SemUso'
    BY <1>1, <1>4, <2>1 DEF IInv, SemUso
  <2>6. AlvoSolto'
    BY <1>1, <2>1 DEF AlvoSolto
  <2>7. PendenteArrendado'
    BY <1>4, <2>1 DEF IInv, PendenteArrendado, Tipos
  <2>8. PedidoVivo'
    BY <1>1, <1>6, <2>1 DEF IInv, PedidoVivo, Exclusivo, NaMaoDoLoop, DeveApagar
  <2>9. QED
    BY <2>2, <2>3, <2>4, <2>5, <2>6, <2>7, <2>8 DEF IInv
<1>7. QED
  BY <1>5, <1>6

LEMMA RemoverSegura ==
    ASSUME IInv, NEW p \in Paths, Remover(p)
    PROVE  IInv'
<1>1. /\ loop.op = "parado" /\ rem[Loop].pc = "fora" /\ nome[p] \in Inodes
      /\ UNCHANGED <<nome, entries, loop, leitor, publica>>
      /\ <<p, nome[p]>> \in Chaves
  BY DEF Remover, Parado, IInv, Tipos, InodeOuNada, Chaves
<1>2. CASE <<p, nome[p]>> \in Arrendadas
  <2>1. /\ pending_delete' = pending_delete \cup {<<p, nome[p]>>}
        /\ pedidos' = pedidos \cup {<<p, nome[p]>>} /\ rem' = rem
    BY <1>2 DEF Remover
  <2>2. Tipos'
    BY <1>1, <2>1 DEF IInv, Tipos
  <2>3. (RemoverTem /\ AbrirTem /\ NomeUnico /\ SemUso /\ AlvoSolto)'
    BY <1>1, <2>1 DEF IInv, RemoverTem, AbrirTem, NomeUnico, SemUso, AlvoSolto
  <2>4. PendenteArrendado'
    BY <1>1, <1>2, <2>1 DEF IInv, PendenteArrendado, Arrendadas
  <2>5. PedidoVivo'
    BY <1>1, <2>1 DEF IInv, PedidoVivo, Exclusivo, NaMaoDoLoop
  <2>6. QED
    BY <2>2, <2>3, <2>4, <2>5 DEF IInv
<1>3. CASE <<p, nome[p]>> \notin Arrendadas
  <2>1. /\ rem' = [rem EXCEPT ![Loop] = [pc |-> "abre", path |-> p, inode |-> Nada,
                                         alvo |-> Nada]]
        /\ UNCHANGED <<pending_delete, pedidos>>
    BY <1>3, Zenon DEF ComecarEm, Remover
  <2>2. /\ rem'[Loop] = [pc |-> "abre", path |-> p, inode |-> Nada, alvo |-> Nada]
        /\ \A a \in Removedores \ {Loop} : rem'[a] = rem[a]
        /\ rem' \in [Removedores -> RemTipo]
    BY <2>1 DEF IInv, Tipos, RemTipo, Removedores, InodeOuNada, PathOuNada
  <2>3. Tipos'
    BY <1>1, <2>1, <2>2 DEF IInv, Tipos
  <2>4. (RemoverTem /\ AbrirTem)'
    BY <1>1, <2>2 DEF IInv, RemoverTem, AbrirTem
  <2>5. (NomeUnico /\ SemUso)'
    BY <1>1, <2>2 DEF IInv, NomeUnico, SemUso
  <2>6. AlvoSolto'
    BY <2>2, LeasesAssumption DEF AlvoSolto, Chaves
  <2>7. PendenteArrendado'
    BY <1>1, <2>1 DEF IInv, PendenteArrendado
  <2>8. PedidoVivo'
    BY <1>1, <2>1, <2>2 DEF IInv, PedidoVivo, Exclusivo, NaMaoDoLoop
  <2>9. QED
    BY <2>3, <2>4, <2>5, <2>6, <2>7, <2>8 DEF IInv
<1>4. QED
  BY <1>2, <1>3

LEMMA PodarSegura ==
    ASSUME IInv, NEW p \in Paths, Podar(p)
    PROVE  IInv'
<1>1. /\ loop.op = "parado" /\ rem[Loop].pc = "fora" /\ rem[Poda].pc = "fora"
      /\ rem' = [rem EXCEPT ![Poda] = [pc |-> "abre", path |-> p, inode |-> Nada,
                                       alvo |-> Nada]]
      /\ UNCHANGED <<nome, entries, pending_delete, loop, leitor, publica, pedidos>>
  BY DEF ComecarEm, Podar, Parado
<1>2. /\ rem'[Poda] = [pc |-> "abre", path |-> p, inode |-> Nada, alvo |-> Nada]
      /\ rem'[Loop] = rem[Loop]
      /\ rem' \in [Removedores -> RemTipo]
  BY <1>1, LeasesAssumption DEF IInv, Tipos, RemTipo, Removedores, InodeOuNada, PathOuNada
<1>3. Tipos'
  BY <1>1, <1>2 DEF IInv, Tipos
<1>4. (RemoverTem /\ AbrirTem)'
  BY <1>1, <1>2 DEF IInv, RemoverTem, AbrirTem, Removedores
<1>5. (NomeUnico /\ SemUso)'
  BY <1>1, <1>2 DEF IInv, NomeUnico, SemUso, Removedores
<1>6. (AlvoSolto /\ PendenteArrendado)'
  BY <1>1, <1>2 DEF IInv, AlvoSolto, PendenteArrendado
<1>7. PedidoVivo'
  BY <1>1 DEF IInv, PedidoVivo, Exclusivo, NaMaoDoLoop, Removedores
<1>8. QED
  BY <1>3, <1>4, <1>5, <1>6, <1>7 DEF IInv

LEMMA DecidirSegura ==
    ASSUME IInv, NEW t \in Publicadores, NEW p \in Paths, Decidir(t, p)
    PROVE  IInv'
<1>1. Tipos'
  BY DEF Decidir, IInv, Tipos, PathOuNada
<1>2. (RemoverTem /\ AbrirTem /\ NomeUnico /\ SemUso /\ AlvoSolto /\ PendenteArrendado)'
  BY DEF Decidir, IInv, RemoverTem, AbrirTem, NomeUnico, SemUso, AlvoSolto,
     PendenteArrendado
<1>3. PedidoVivo'
  BY DEF Decidir, IInv, PedidoVivo, Exclusivo, NaMaoDoLoop
<1>4. QED
  BY <1>1, <1>2, <1>3 DEF IInv

LEMMA PublicarSegura ==
    ASSUME IInv, NEW t \in Publicadores, Publicar(t)
    PROVE  IInv'
<1>1. PICK i \in Inodes : /\ Livre(i)
                          /\ nome' = [nome EXCEPT ![publica[t]] = i]
                          /\ pedidos' = {k \in pedidos : k[2] # i}
  BY DEF Publicar
<1>2. /\ publica[t] \in Paths
      /\ UNCHANGED <<entries, pending_delete, loop, rem, leitor>>
  BY DEF Publicar, IInv, Tipos, PathOuNada
<1>3. /\ nome'[publica[t]] = i
      /\ \A q \in Paths \ {publica[t]} : nome'[q] = nome[q]
      /\ nome' \in [Paths -> InodeOuNada]
  BY <1>1, <1>2 DEF IInv, Tipos, InodeOuNada
<1>4. /\ \A q \in Paths : nome[q] # i
      /\ \A k \in Chaves : entries[k] # {} => k[2] # i
      /\ loop.inode # i /\ \A a \in Removedores : rem[a].inode # i
  BY <1>1 DEF Livre, EmUso, Arrendadas
<1>5. Tipos'
  <2>1. publica' \in [Publicadores -> PathOuNada]
    BY DEF Publicar, IInv, Tipos, PathOuNada
  <2>2. QED
    BY <1>1, <1>2, <1>3, <2>1 DEF IInv, Tipos
<1>6. (RemoverTem /\ AbrirTem /\ SemUso /\ AlvoSolto /\ PendenteArrendado)'
  BY <1>2 DEF IInv, RemoverTem, AbrirTem, SemUso, AlvoSolto, PendenteArrendado
<1>7. NomeUnico'
  BY <1>2, <1>3, <1>4 DEF IInv, NomeUnico
<1>8. PedidoVivo'
  <2> SUFFICES ASSUME NEW k \in pedidos', nome'[k[1]] = k[2]
               PROVE  k \in pending_delete' \/ Exclusivo(k[2])' \/ NaMaoDoLoop(k)'
    BY DEF PedidoVivo
  <2>1. k \in pedidos /\ k[2] # i /\ k[1] \in Paths
    BY <1>1 DEF IInv, Tipos, Chaves
  <2>2. nome[k[1]] = k[2]
    BY <2>1, <1>3
  <2>3. QED
    BY <2>1, <2>2, <1>2 DEF IInv, PedidoVivo, Exclusivo, NaMaoDoLoop
<1>9. QED
  BY <1>5, <1>6, <1>7, <1>8 DEF IInv

-----------------------------------------------------------------------------
\* A remover that gives up, its descriptor closed.
LEMMA DesistirSegura ==
    ASSUME IInv, NEW a \in Removedores, rem' = [rem EXCEPT ![a] = Fora],
           pedidos' \subseteq pedidos,
           UNCHANGED <<nome, entries, pending_delete, loop, leitor, publica>>,
           PedidoVivo'
    PROVE  IInv'
<1>1. /\ rem'[a].pc = "fora"
      /\ \A b \in Removedores \ {a} : rem'[b] = rem[b]
      /\ rem' \in [Removedores -> RemTipo]
  BY DEF IInv, Tipos, RemTipo, Fora, InodeOuNada, PathOuNada
<1>2. Tipos'
  BY <1>1 DEF IInv, Tipos
<1>3. (RemoverTem /\ AbrirTem)'
  BY <1>1 DEF IInv, RemoverTem, AbrirTem, Removedores
<1>4. (NomeUnico /\ SemUso)'
  BY <1>1 DEF IInv, NomeUnico, SemUso
<1>5. (AlvoSolto /\ PendenteArrendado)'
  BY <1>1 DEF IInv, AlvoSolto, PendenteArrendado, Removedores
<1>6. QED
  BY <1>2, <1>3, <1>4, <1>5 DEF IInv

\* A remover that goes on with the same path and target.
LEMMA ProsseguirSegura ==
    ASSUME IInv, NEW a \in Removedores, rem[a].pc # "fora",
           NEW pc \in {"tranca", "confere", "apaga"}, NEW i \in Inodes,
           rem' = [rem EXCEPT ![a] = [pc |-> pc, path |-> rem[a].path, inode |-> i,
                                      alvo |-> rem[a].alvo]],
           pedidos' \subseteq pedidos,
           UNCHANGED <<nome, entries, pending_delete, loop, leitor, publica>>,
           \A q \in Paths : nome[q] = i => q = rem[a].path,
           pc = "tranca" \/ ~EmUso(i),
           PedidoVivo'
    PROVE  IInv'
<1>1. /\ rem'[a] = [pc |-> pc, path |-> rem[a].path, inode |-> i,
                    alvo |-> rem[a].alvo]
      /\ \A b \in Removedores \ {a} : rem'[b] = rem[b]
  BY DEF IInv, Tipos
<1>2. rem' \in [Removedores -> RemTipo]
  BY DEF IInv, Tipos, RemTipo, InodeOuNada, PathOuNada
<1>3. Tipos'
  BY <1>2 DEF IInv, Tipos
<1>4. (RemoverTem /\ AbrirTem)'
  BY <1>1 DEF IInv, RemoverTem, AbrirTem, Removedores
<1>5. NomeUnico'
  BY <1>1 DEF IInv, NomeUnico
<1>6. SemUso'
  BY <1>1 DEF IInv, SemUso, EmUso, Arrendadas
<1>7. (AlvoSolto /\ PendenteArrendado)'
  BY <1>1 DEF IInv, AlvoSolto, PendenteArrendado, Removedores
<1>8. QED
  BY <1>3, <1>4, <1>5, <1>6, <1>7 DEF IInv

LEMMA AbrirParaApagarSegura ==
    ASSUME IInv, NEW a \in Removedores, AbrirParaApagar(a)
    PROVE  IInv'
<1> DEFINE p == rem[a].path
<1>1. /\ rem[a].pc = "abre" /\ p \in Paths /\ nome[p] \in InodeOuNada
      /\ UNCHANGED <<nome, entries, pending_delete, loop, leitor, publica, pedidos>>
      /\ rem[a] \in RemTipo
  BY DEF AbrirParaApagar, IInv, RemoverTem, Tipos
<1>2. CASE nome[p] = Nada
  <2>1. rem' = [rem EXCEPT ![a] = Fora]
    BY <1>2 DEF AbrirParaApagar, IInv, Tipos
  <2>2. PedidoVivo'
    <3> SUFFICES ASSUME NEW k \in pedidos, nome[k[1]] = k[2]
                 PROVE  k \in pending_delete \/ Exclusivo(k[2])' \/ NaMaoDoLoop(k)'
      BY <1>1 DEF PedidoVivo
    <3>1. k[1] # p
      BY <1>2, LeasesAssumption DEF IInv, Tipos, Chaves
    <3>2. \A b \in Removedores : rem[b].pc \in {"confere", "apaga"} => rem'[b] = rem[b]
      BY <1>1, <2>1 DEF IInv, Tipos
    <3>3. CASE Exclusivo(k[2])
      BY <1>1, <3>2, <3>3 DEF Exclusivo
    <3>4. CASE NaMaoDoLoop(k)
      <4>1. a # Loop
        BY <3>1, <3>4 DEF NaMaoDoLoop
      <4>2. rem'[Loop] = rem[Loop]
        BY <2>1, <4>1 DEF IInv, Tipos, Removedores
      <4>3. QED
        BY <3>4, <4>2 DEF NaMaoDoLoop
    <3>5. QED
      BY <3>3, <3>4 DEF IInv, PedidoVivo
  <2>3. QED
    BY <1>1, <2>1, <2>2, DesistirSegura
<1>3. CASE nome[p] # Nada
  <2>1. rem' = [rem EXCEPT ![a] = [pc |-> "tranca", path |-> p, inode |-> nome[p],
                                   alvo |-> rem[a].alvo]]
    BY <1>1, <1>3 DEF AbrirParaApagar, IInv, Tipos
  <2>2. nome[p] \in Inodes /\ \A q \in Paths : nome[q] = nome[p] => q = p
    BY <1>1, <1>3 DEF IInv, NomeUnico, InodeOuNada
  <2>3. /\ rem'[a] = [pc |-> "tranca", path |-> p, inode |-> nome[p],
                      alvo |-> rem[a].alvo]
        /\ \A b \in Removedores \ {a} : rem'[b] = rem[b]
    BY <2>1 DEF IInv, Tipos
  <2>4. PedidoVivo'
    <3> SUFFICES ASSUME NEW k \in pedidos, nome[k[1]] = k[2]
                 PROVE  \/ k \in pending_delete \/ Exclusivo(k[2])' \/ NaMaoDoLoop(k)'
      BY <1>1 DEF PedidoVivo
    <3>1. CASE Exclusivo(k[2])
      BY <1>1, <2>3, <3>1 DEF Exclusivo
    <3>2. CASE NaMaoDoLoop(k)
      BY <1>1, <2>3, <3>2 DEF NaMaoDoLoop, Removedores
    <3>3. QED
      BY <3>1, <3>2 DEF IInv, PedidoVivo
  <2>5. QED
    BY <1>1, <2>1, <2>2, <2>4, ProsseguirSegura
<1>4. QED
  BY <1>2, <1>3

LEMMA TrancarSegura ==
    ASSUME IInv, NEW a \in Removedores, Trancar(a)
    PROVE  IInv'
<1> DEFINE p == rem[a].path
           i == rem[a].inode
<1>1. /\ rem[a].pc = "tranca" /\ p \in Paths /\ i \in Inodes /\ rem[a] \in RemTipo
      /\ UNCHANGED <<nome, entries, pending_delete, loop, leitor, publica>>
      /\ pedidos' \subseteq pedidos
      /\ \A q \in Paths : nome[q] = i => q = p
  BY DEF Trancar, IInv, RemoverTem, Tipos, NomeUnico
<1>2. CASE PodeApagar(a)
  <2>1. rem' = [rem EXCEPT ![a] = [pc |-> "confere", path |-> p, inode |-> i,
                                   alvo |-> rem[a].alvo]]
    <3>1. rem' = [rem EXCEPT ![a] = [rem[a] EXCEPT !.pc = "confere"]]
      BY <1>1, <1>2 DEF Trancar, IInv, Tipos
    <3>2. QED
      BY <1>1, <3>1, RegistroSeguinte
  <2>2. /\ rem'[a].pc = "confere" /\ rem'[a].inode = i
        /\ \A b \in Removedores \ {a} : rem'[b] = rem[b]
    BY <2>1 DEF IInv, Tipos
  <2>3. PedidoVivo'
    <3> SUFFICES ASSUME NEW k \in pedidos, nome[k[1]] = k[2]
                 PROVE  \/ k \in pending_delete \/ Exclusivo(k[2])' \/ NaMaoDoLoop(k)'
      BY <1>1 DEF PedidoVivo
    <3>1. CASE Exclusivo(k[2])
      BY <1>1, <2>2, <3>1 DEF Exclusivo
    <3>2. CASE NaMaoDoLoop(k) /\ a = Loop
      BY <1>1, <2>2, <3>2 DEF NaMaoDoLoop, Exclusivo
    <3>3. CASE NaMaoDoLoop(k) /\ a # Loop
      BY <2>2, <3>3 DEF NaMaoDoLoop, Removedores
    <3>4. QED
      BY <3>1, <3>2, <3>3 DEF IInv, PedidoVivo
  <2>4. ~EmUso(i)
    BY <1>2 DEF PodeApagar
  <2>5. QED
    BY <1>1, <2>1, <2>3, <2>4, ProsseguirSegura
<1>3. CASE ~PodeApagar(a)
  <2>1. rem' = [rem EXCEPT ![a] = Fora]
    BY <1>3 DEF Trancar
  <2>2. \A b \in Removedores \ {a} : rem'[b] = rem[b]
    BY <2>1 DEF IInv, Tipos
  <2>3. PedidoVivo'
    <3> SUFFICES ASSUME NEW k \in pedidos', nome[k[1]] = k[2]
                 PROVE  \/ k \in pending_delete \/ Exclusivo(k[2])' \/ NaMaoDoLoop(k)'
      BY <1>1 DEF PedidoVivo
    <3>1. k \in Chaves /\ k \in pedidos
      BY <1>1 DEF IInv, Tipos
    <3>2. CASE Exclusivo(k[2])
      BY <1>1, <2>2, <3>2 DEF Exclusivo
    <3>3. CASE NaMaoDoLoop(k) /\ a = Loop
      <4>1. k = <<p, rem[a].alvo>> /\ k[2] = i
        BY <1>1, <3>1, <3>3 DEF NaMaoDoLoop, Chaves
      <4>2. ~\E r \in Leitores : leitor[r] = i
        BY <4>1 DEF Trancar
      <4>3. ~\E c \in Arrendadas : c[2] = i
        <5> SUFFICES ASSUME NEW c \in Chaves, entries[c] # {}, c[2] = i PROVE FALSE
          BY DEF Arrendadas
        <5>1. c[1] = k[1] /\ k[1] \in Paths
          BY <3>1, <4>1 DEF IInv, NomeUnico, Chaves
        <5>2. c = k
          BY <3>1, <4>1, <5>1 DEF Chaves
        <5>3. entries[k] = {}
          BY <1>1, <3>1, <3>3 DEF IInv, AlvoSolto, NaMaoDoLoop
        <5>4. QED
          BY <5>2, <5>3
      <4>4. Exclusivo(k[2])
        BY <1>3, <4>1, <4>2, <4>3 DEF PodeApagar, EmUso
      <4>5. QED
        BY <3>2, <4>4
    <3>4. CASE NaMaoDoLoop(k) /\ a # Loop
      BY <2>2, <3>4 DEF NaMaoDoLoop, Removedores
    <3>5. QED
      BY <3>1, <3>2, <3>3, <3>4 DEF IInv, PedidoVivo
  <2>4. QED
    BY <1>1, <2>1, <2>3, DesistirSegura
<1>4. QED
  BY <1>2, <1>3

LEMMA ConferirSegura ==
    ASSUME IInv, NEW a \in Removedores, Conferir(a)
    PROVE  IInv'
<1> DEFINE p == rem[a].path
           i == rem[a].inode
<1>1. /\ rem[a].pc = "confere" /\ p \in Paths /\ i \in Inodes /\ rem[a] \in RemTipo
      /\ UNCHANGED <<nome, entries, pending_delete, loop, leitor, publica, pedidos>>
      /\ \A q \in Paths : nome[q] = i => q = p
  BY DEF Conferir, IInv, RemoverTem, Tipos, NomeUnico
<1>2. CASE nome[p] = i
  <2>1. rem' = [rem EXCEPT ![a] = [pc |-> "apaga", path |-> p, inode |-> i,
                                   alvo |-> rem[a].alvo]]
    <3>1. rem' = [rem EXCEPT ![a] = [rem[a] EXCEPT !.pc = "apaga"]]
      BY <1>1, <1>2 DEF Conferir, IInv, Tipos
    <3>2. QED
      BY <1>1, <3>1, RegistroSeguinte
  <2>2. /\ rem'[a] = [pc |-> "apaga", path |-> p, inode |-> i, alvo |-> rem[a].alvo]
        /\ \A b \in Removedores \ {a} : rem'[b] = rem[b]
    BY <2>1 DEF IInv, Tipos
  <2>3. PedidoVivo'
    <3> SUFFICES ASSUME NEW k \in pedidos, nome[k[1]] = k[2]
                 PROVE  \/ k \in pending_delete \/ Exclusivo(k[2])' \/ NaMaoDoLoop(k)'
      BY <1>1 DEF PedidoVivo
    <3>1. CASE Exclusivo(k[2])
      BY <1>1, <2>2, <3>1 DEF Exclusivo
    <3>2. CASE NaMaoDoLoop(k)
      BY <1>1, <2>2, <3>2 DEF NaMaoDoLoop, Removedores
    <3>3. QED
      BY <3>1, <3>2 DEF IInv, PedidoVivo
  <2>4. ~EmUso(i)
    BY <1>1 DEF IInv, SemUso, EmUso, Arrendadas
  <2>5. QED
    BY <1>1, <2>1, <2>3, <2>4, ProsseguirSegura
<1>3. CASE nome[p] # i
  <2>1. rem' = [rem EXCEPT ![a] = Fora]
    BY <1>3 DEF Conferir
  <2>2. \A b \in Removedores \ {a} : rem'[b] = rem[b]
    BY <2>1 DEF IInv, Tipos
  <2>3. PedidoVivo'
    <3> SUFFICES ASSUME NEW k \in pedidos, nome[k[1]] = k[2]
                 PROVE  \/ k \in pending_delete \/ Exclusivo(k[2])' \/ NaMaoDoLoop(k)'
      BY <1>1 DEF PedidoVivo
    <3>1. k[1] \in Paths /\ k[2] # i
      BY <1>1, <1>3 DEF IInv, Tipos, Chaves
    <3>2. CASE Exclusivo(k[2])
      BY <1>1, <2>2, <3>1, <3>2 DEF Exclusivo
    <3>3. CASE NaMaoDoLoop(k)
      BY <1>1, <2>2, <3>1, <3>3 DEF NaMaoDoLoop, Removedores
    <3>4. QED
      BY <3>2, <3>3 DEF IInv, PedidoVivo
  <2>4. QED
    BY <1>1, <2>1, <2>3, DesistirSegura
<1>4. QED
  BY <1>2, <1>3

LEMMA ApagarSegura ==
    ASSUME IInv, NEW a \in Removedores, Apagar(a)
    PROVE  IInv'
<1> DEFINE p == rem[a].path
<1>1. /\ rem[a].pc = "apaga" /\ p \in Paths /\ rem[a].inode \in Inodes
      /\ rem' = [rem EXCEPT ![a] = Fora]
      /\ UNCHANGED <<entries, pending_delete, loop, leitor, publica, pedidos>>
      /\ \A q \in Paths : nome[q] = rem[a].inode => q = p
  BY DEF Apagar, IInv, RemoverTem, NomeUnico
<1>2. /\ nome'[p] = Nada /\ \A q \in Paths \ {p} : nome'[q] = nome[q]
      /\ nome' \in [Paths -> InodeOuNada]
  BY <1>1 DEF Apagar, IInv, Tipos, InodeOuNada
<1>3. /\ rem'[a].pc = "fora"
      /\ \A b \in Removedores \ {a} : rem'[b] = rem[b]
      /\ rem' \in [Removedores -> RemTipo]
  BY <1>1 DEF IInv, Tipos, RemTipo, Fora, InodeOuNada, PathOuNada
<1>4. Tipos'
  BY <1>1, <1>2, <1>3 DEF IInv, Tipos
<1>5. (RemoverTem /\ AbrirTem)'
  BY <1>1, <1>3 DEF IInv, RemoverTem, AbrirTem, Removedores
<1>6. NomeUnico'
  <2>1. \A q \in Paths : nome'[q] # Nada => nome'[q] = nome[q]
    BY <1>2
  <2>2. \A k \in Chaves : k[2] # Nada
    BY LeasesAssumption DEF Chaves
  <2>3. loop.op = "abriu" => loop.inode # Nada
    BY LeasesAssumption DEF IInv, AbrirTem
  <2>4. \A b \in Removedores :
           rem[b].pc \in {"tranca", "confere", "apaga"} => rem[b].inode # Nada
    BY LeasesAssumption DEF IInv, RemoverTem
  <2>5. QED
    BY <1>1, <1>3, <2>1, <2>2, <2>3, <2>4 DEF IInv, NomeUnico
<1>7. (SemUso /\ AlvoSolto /\ PendenteArrendado)'
  BY <1>1, <1>3 DEF IInv, SemUso, AlvoSolto, PendenteArrendado, Removedores
<1>8. PedidoVivo'
  <2> SUFFICES ASSUME NEW k \in pedidos, nome'[k[1]] = k[2]
               PROVE  \/ k \in pending_delete \/ Exclusivo(k[2])' \/ NaMaoDoLoop(k)'
    BY <1>1 DEF PedidoVivo
  <2>1. /\ k[1] \in Paths /\ k[1] # p /\ nome[k[1]] = k[2] /\ k[2] # rem[a].inode
    BY <1>1, <1>2, LeasesAssumption DEF IInv, Tipos, Chaves
  <2>2. CASE Exclusivo(k[2])
    BY <1>1, <1>3, <2>1, <2>2 DEF Exclusivo
  <2>3. CASE NaMaoDoLoop(k)
    BY <1>1, <1>3, <2>1, <2>3 DEF NaMaoDoLoop, Removedores
  <2>4. QED
    BY <2>1, <2>2, <2>3 DEF IInv, PedidoVivo
<1>9. QED
  BY <1>4, <1>5, <1>6, <1>7, <1>8 DEF IInv

LEMMA PassoSeguro == IInv /\ [Next]_vars => IInv'
<1> SUFFICES ASSUME IInv, [Next]_vars PROVE IInv'
  OBVIOUS
<1>1. CASE \E q \in Donos \cup Leitores, p \in Paths : Abrir(q, p)
  BY <1>1, AbrirSegura
<1>2. CASE Arrendar
  BY <1>2, ArrendarSegura
<1>3. CASE Travar \/ \E r \in Leitores : Fechar(r)
  BY <1>3, LeitorSegura
<1>4. CASE \E d \in Donos : Soltar(d)
  BY <1>4, SoltarSegura
<1>5. CASE \E k \in Chaves : SoltarChave(k)
  BY <1>5, SoltarChaveSegura
<1>6. CASE \E p \in Paths : Remover(p) \/ Podar(p)
  BY <1>6, RemoverSegura, PodarSegura
<1>7. CASE \E t \in Publicadores : Publicar(t) \/ \E p \in Paths : Decidir(t, p)
  BY <1>7, PublicarSegura, DecidirSegura
<1>8. CASE \E a \in Removedores :
              AbrirParaApagar(a) \/ Trancar(a) \/ Conferir(a) \/ Apagar(a)
  BY <1>8, AbrirParaApagarSegura, TrancarSegura, ConferirSegura, ApagarSegura
<1>9. CASE UNCHANGED vars
  BY <1>9 DEF vars, IInv, Tipos, RemoverTem, AbrirTem, NomeUnico, SemUso, AlvoSolto,
     PendenteArrendado, PedidoVivo, Exclusivo, NaMaoDoLoop
<1>10. QED
  BY <1>1, <1>2, <1>3, <1>4, <1>5, <1>6, <1>7, <1>8, <1>9 DEF Next

-----------------------------------------------------------------------------
\* The inductive invariant holds in every reachable state: names of inodes are
\* unique while anything keeps them, and each deferred deletion is accounted for.
THEOREM Invariante == Spec => []IInv
<1>1. Init => IInv
  BY InvInicial
<1>2. IInv /\ [Next]_vars => IInv'
  BY PassoSeguro
<1>3. QED
  BY <1>1, <1>2, PTL DEF Spec

\* What is deferred happens: a deletion asked for while the file was referenced is
\* neither forgotten by release nor kept past the last reference, whatever the
\* prune thread, the readers and the publishers do meanwhile.
THEOREM Deferida == Spec => []DeferidaAcontece
<1>1. IInv => DeferidaAcontece
  <2> SUFFICES ASSUME IInv PROVE DeferidaAcontece
    OBVIOUS
  <2>1. TypeOK
    BY DEF IInv, Tipos, RemoverTem, TypeOK, LoopTipo, RemTipo
  <2>2. pending_delete \subseteq Arrendadas
    BY DEF IInv, Tipos, PendenteArrendado, Arrendadas
  <2>3. Parado => \A k \in pedidos : nome[k[1]] = k[2] =>
                     k \in pending_delete \/ Exclusivo(k[2])
    BY DEF IInv, PedidoVivo, NaMaoDoLoop, Parado
  <2>4. QED
    BY <2>1, <2>2, <2>3 DEF DeferidaAcontece
<1>2. QED
  BY <1>1, Invariante, PTL

\* Only os.remove takes a name away, and at the inode it was checked for nobody
\* is using the file.
LEMMA SoApagaLivre ==
    ASSUME IInv, [Next]_vars, NEW p \in Paths,
           nome[p] # Nada, nome'[p] = Nada, EmUso(nome[p])
    PROVE  \E a \in Removedores : /\ rem[a].pc = "apaga" /\ rem[a].path = p
                                  /\ rem[a].inode # nome[p]
<1>1. ASSUME NEW t \in Publicadores, Publicar(t) PROVE nome'[p] # Nada
  BY <1>1, LeasesAssumption DEF Publicar, IInv, Tipos
<1>2. ASSUME nome' = nome PROVE FALSE
  BY <1>2
<1>3. ASSUME NEW a \in Removedores, Apagar(a)
      PROVE  /\ rem[a].pc = "apaga" /\ rem[a].path = p
             /\ rem[a].inode # nome[p]
  <2>1. rem[a].pc = "apaga" /\ rem[a].path = p
    BY <1>3 DEF Apagar, IInv, Tipos
  <2>2. ~EmUso(rem[a].inode)
    BY <2>1 DEF IInv, SemUso, EmUso, Arrendadas
  <2>3. QED
    BY <2>1, <2>2
<1>4. QED
  BY <1>1, <1>2, <1>3 DEF Next, vars, Abrir, Arrendar, Travar, Fechar, Soltar,
     SoltarChave, Remover, Podar, Decidir, AbrirParaApagar, Trancar, Conferir

\* No file in use is deleted, by the loop or by the prune thread, for any number of
\* files and of users, except one published under a remover past its check.
THEOREM SoApagaSemUso == Spec => NaoApagaEmUso
<1> DEFINE A == \A p \in Paths :
          nome[p] # Nada /\ nome'[p] = Nada /\ EmUso(nome[p]) =>
             \E a \in Removedores : /\ rem[a].pc = "apaga" /\ rem[a].path = p
                                    /\ rem[a].inode # nome[p]
<1>1. IInv /\ [Next]_vars => [A]_vars
  BY SoApagaLivre
<1>2. QED
  BY <1>1, Invariante, PTL DEF Spec, NaoApagaEmUso
=============================================================================
