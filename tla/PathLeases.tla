----------------------------- MODULE PathLeases -----------------------------
(* The audio files on disk and who may delete them (src/cogs/tts/runtime.py): *)
(* the references the event loop keeps on inodes, the deletions it defers     *)
(* until the last one is gone, the thread that prunes the directory, the ones *)
(* that publish a cache entry by replacing it, and the tasks that lock a file *)
(* for themselves. A path names an inode; whatever is open keeps it alive.    *)
EXTENDS FiniteSets

CONSTANTS
    Paths,         \* pathnames of audio files
    Inodes,        \* inodes they may name
    Donos,         \* owners of references: the items being spoken
    Leitores,      \* tasks with a shared lock of their own on a file
    Publicadores,  \* threads that publish a cache entry
    Loop, Poda,    \* who deletes: the event loop and the prune thread
    Nada           \* no inode, no path

Removedores == {Loop, Poda}
Chaves == Paths \X Inodes     \* keys of entries: a path and an inode

ASSUME LeasesAssumption ==
    /\ Loop # Poda /\ Donos \cap Leitores = {}
    /\ Nada \notin Inodes \cup Paths

VARIABLES
    nome,            \* the inode each path names, or Nada
    entries,         \* owners of each key; the entry exists while there are any
    pending_delete,  \* keys to delete when their last owner releases
    loop,            \* the operation of PathLeases the event loop is in
    rem,             \* unlink_if_unlocked in progress, of each remover
    leitor,          \* the inode each reader holds locked, or Nada
    publica,         \* the path each publisher is about to replace, or Nada
    pedidos          \* history: keys deferred once and owed their deletion

vars == <<nome, entries, pending_delete, loop, rem, leitor, publica, pedidos>>

SemOp == [op |-> "parado", quem |-> Nada, path |-> Nada, inode |-> Nada,
          resto |-> {}]

\* alvo: history, the inode a deferred deletion was asked for.
Fora == [pc |-> "fora", path |-> Nada, inode |-> Nada, alvo |-> Nada]
ComecarEm(p, alvo) == [pc |-> "abre", path |-> p, inode |-> Nada, alvo |-> alvo]

Init ==
    /\ nome = [p \in Paths |-> Nada]
    /\ entries = [k \in Chaves |-> {}]
    /\ pending_delete = {}
    /\ loop = SemOp
    /\ rem = [a \in Removedores |-> Fora]
    /\ leitor = [r \in Leitores |-> Nada]
    /\ publica = [t \in Publicadores |-> Nada]
    /\ pedidos = {}

\* An operation of the loop runs to its end before another starts; the threads
\* run meanwhile.
Parado == loop.op = "parado" /\ rem[Loop].pc = "fora"

Arrendadas == {k \in Chaves : entries[k] # {}}
protected_paths == {k[1] : k \in Arrendadas}

\* flock: the descriptors of the entries and of the readers share; a remover
\* past its flock excludes.
EmUso(i) ==
    (\E k \in Arrendadas : k[2] = i) \/ (\E r \in Leitores : leitor[r] = i)
Exclusivo(i) ==
    \E a \in Removedores : rem[a].pc \in {"confere", "apaga"} /\ rem[a].inode = i

\* An inode without name, descriptor or lock, which a new file may get.
Livre(i) ==
    /\ \A p \in Paths : nome[p] # i
    /\ ~EmUso(i) /\ loop.inode # i
    /\ \A a \in Removedores : rem[a].inode # i

-----------------------------------------------------------------------------
\* The event loop.

\* acquire, or the open of a reader: the descriptor comes before its lock.
Abrir(q, p) ==
    /\ Parado /\ nome[p] # Nada
    /\ q \in Leitores => leitor[q] = Nada
    /\ loop' = [SemOp EXCEPT !.op = "abriu", !.quem = q, !.path = p,
                             !.inode = nome[p]]
    /\ UNCHANGED <<nome, entries, pending_delete, rem, leitor, publica, pedidos>>

\* flock(LOCK_SH | LOCK_NB), which an entry that exists does not repeat.
PodeEntrar(k) == entries[k] # {} \/ ~Exclusivo(k[2])

\* The rest of acquire: one more owner, or an OSError.
Arrendar ==
    LET k == <<loop.path, loop.inode>>
    IN  /\ loop.op = "abriu" /\ loop.quem \in Donos
        /\ entries' = IF PodeEntrar(k) THEN [entries EXCEPT ![k] = @ \cup {loop.quem}]
                      ELSE entries
        /\ loop' = SemOp
        /\ UNCHANGED <<nome, pending_delete, rem, leitor, publica, pedidos>>

\* A reader locks what it opened, or gives up.
Travar ==
    /\ loop.op = "abriu" /\ loop.quem \in Leitores
    /\ leitor' = IF Exclusivo(loop.inode) THEN leitor
                 ELSE [leitor EXCEPT ![loop.quem] = loop.inode]
    /\ loop' = SemOp
    /\ UNCHANGED <<nome, entries, pending_delete, rem, publica, pedidos>>

\* A reader closes its descriptor.
Fechar(r) ==
    /\ Parado /\ leitor[r] # Nada
    /\ leitor' = [leitor EXCEPT ![r] = Nada]
    /\ UNCHANGED <<nome, entries, pending_delete, loop, rem, publica, pedidos>>

\* release: the keys of the owner, one after the other.
Soltar(d) ==
    /\ Parado
    /\ \E k \in Arrendadas : d \in entries[k]
    /\ loop' = [SemOp EXCEPT !.op = "solta", !.quem = d,
                             !.resto = {k \in Arrendadas : d \in entries[k]}]
    /\ UNCHANGED <<nome, entries, pending_delete, rem, leitor, publica, pedidos>>

\* Faulty variant: what was deferred is forgotten with the entry.
DeveApagarNunca(k) == FALSE

\* Deferred, and the path still names that inode.
DeveApagar(k) == k \in pending_delete /\ nome[k[1]] = k[2]

\* One key of release: the last owner drops the entry and its lock, and starts
\* the deletion that was deferred.
SoltarChave(k) ==
    /\ loop.op = "solta" /\ rem[Loop].pc = "fora" /\ k \in loop.resto
    /\ LET ultima == entries[k] = {loop.quem}
       IN  /\ pending_delete' = IF ultima THEN pending_delete \ {k}
                                ELSE pending_delete
           /\ rem' = IF ultima /\ DeveApagar(k)
                     THEN [rem EXCEPT ![Loop] = ComecarEm(k[1], k[2])]
                     ELSE rem
    /\ entries' = [entries EXCEPT ![k] = @ \ {loop.quem}]
    /\ loop' = IF loop.resto = {k} THEN SemOp ELSE [loop EXCEPT !.resto = @ \ {k}]
    /\ UNCHANGED <<nome, leitor, publica, pedidos>>

\* remove: deferred while somebody holds the inode the path names.
Remover(p) ==
    /\ Parado /\ nome[p] # Nada
    /\ IF <<p, nome[p]>> \in Arrendadas
       THEN /\ pending_delete' = pending_delete \cup {<<p, nome[p]>>}
            /\ pedidos' = pedidos \cup {<<p, nome[p]>>}
            /\ rem' = rem
       ELSE /\ rem' = [rem EXCEPT ![Loop] = ComecarEm(p, Nada)]
            /\ UNCHANGED <<pending_delete, pedidos>>
    /\ UNCHANGED <<nome, entries, loop, leitor, publica>>

\* The maintenance hands a path nobody holds to the prune thread.
Podar(p) ==
    /\ Parado /\ rem[Poda].pc = "fora" /\ p \notin protected_paths
    /\ rem' = [rem EXCEPT ![Poda] = ComecarEm(p, Nada)]
    /\ UNCHANGED <<nome, entries, pending_delete, loop, leitor, publica, pedidos>>

\* _store_in_cache finds no entry and starts a thread that publishes one.
Decidir(t, p) ==
    /\ Parado /\ publica[t] = Nada /\ nome[p] = Nada
    /\ publica' = [publica EXCEPT ![t] = p]
    /\ UNCHANGED <<nome, entries, pending_delete, loop, rem, leitor, pedidos>>

-----------------------------------------------------------------------------
\* The threads, and the removals of the loop itself.

\* os.replace: whatever the path named loses its name.
Publicar(t) ==
    /\ publica[t] # Nada
    /\ \E i \in Inodes :
          /\ Livre(i)
          /\ nome' = [nome EXCEPT ![publica[t]] = i]
          /\ pedidos' = {k \in pedidos : k[2] # i}
    /\ publica' = [publica EXCEPT ![t] = Nada]
    /\ UNCHANGED <<entries, pending_delete, loop, rem, leitor>>

\* unlink_if_unlocked opens the path.
AbrirParaApagar(a) ==
    /\ rem[a].pc = "abre"
    /\ rem' = [rem EXCEPT ![a] =
                  IF nome[@.path] = Nada THEN Fora
                  ELSE [pc |-> "tranca", path |-> @.path, inode |-> nome[@.path],
                        alvo |-> @.alvo]]
    /\ UNCHANGED <<nome, entries, pending_delete, loop, leitor, publica, pedidos>>

\* Faulty variant: only the other remover is respected.
PodeApagarArrendada(a) == ~Exclusivo(rem[a].inode)

\* flock(LOCK_EX | LOCK_NB).
PodeApagar(a) == ~EmUso(rem[a].inode) /\ ~Exclusivo(rem[a].inode)

Trancar(a) ==
    /\ rem[a].pc = "tranca"
    /\ rem' = [rem EXCEPT ![a] = IF PodeApagar(a) THEN [@ EXCEPT !.pc = "confere"]
                                 ELSE Fora]
    /\ pedidos' = IF \E r \in Leitores : leitor[r] = rem[a].inode
                  THEN pedidos \ {<<rem[a].path, rem[a].alvo>>} ELSE pedidos
    /\ UNCHANGED <<nome, entries, pending_delete, loop, leitor, publica>>

\* fstat of the descriptor against stat of the path.
Conferir(a) ==
    /\ rem[a].pc = "confere"
    /\ rem' = [rem EXCEPT ![a] = IF nome[@.path] = @.inode
                                 THEN [@ EXCEPT !.pc = "apaga"] ELSE Fora]
    /\ UNCHANGED <<nome, entries, pending_delete, loop, leitor, publica, pedidos>>

\* os.remove goes by the path; closing the descriptor unlocks.
Apagar(a) ==
    /\ rem[a].pc = "apaga"
    /\ nome' = [nome EXCEPT ![rem[a].path] = Nada]
    /\ rem' = [rem EXCEPT ![a] = Fora]
    /\ UNCHANGED <<entries, pending_delete, loop, leitor, publica, pedidos>>

Next ==
    \/ \E q \in Donos \cup Leitores, p \in Paths : Abrir(q, p)
    \/ Arrendar \/ Travar
    \/ \E r \in Leitores : Fechar(r)
    \/ \E d \in Donos : Soltar(d)
    \/ \E k \in Chaves : SoltarChave(k)
    \/ \E p \in Paths : Remover(p) \/ Podar(p)
    \/ \E t \in Publicadores : Publicar(t) \/ \E p \in Paths : Decidir(t, p)
    \/ \E a \in Removedores :
          AbrirParaApagar(a) \/ Trancar(a) \/ Conferir(a) \/ Apagar(a)

Spec == Init /\ [][Next]_vars
-----------------------------------------------------------------------------
InodeOuNada == Inodes \cup {Nada}
PathOuNada == Paths \cup {Nada}

\* The variables keep their types; a remover past its open has an inode.
TypeOK ==
    /\ nome \in [Paths -> InodeOuNada]
    /\ entries \in [Chaves -> SUBSET Donos]
    /\ pending_delete \subseteq Chaves /\ pedidos \subseteq Chaves
    /\ loop \in [op : {"parado", "abriu", "solta"}, path : PathOuNada,
                 quem : Donos \cup Leitores \cup {Nada}, inode : InodeOuNada,
                 resto : SUBSET Chaves]
    /\ rem \in [Removedores -> [path : PathOuNada, inode : InodeOuNada,
                 pc : {"fora", "abre", "tranca", "confere", "apaga"},
                 alvo : InodeOuNada]]
    /\ \A a \in Removedores :
          rem[a].pc \in {"tranca", "confere", "apaga"} => rem[a].inode \in Inodes
    /\ leitor \in [Leitores -> InodeOuNada]
    /\ publica \in [Publicadores -> PathOuNada]

\* A deferred deletion is neither forgotten nor kept past its file's references:
\* what is pending is referenced, and once the loop is idle a file whose
\* deletion was deferred is still pending, gone, replaced, in the hands of the
\* prune thread, or was locked by a reader when its turn came.
DeferidaAcontece ==
    /\ TypeOK
    /\ pending_delete \subseteq Arrendadas
    /\ Parado => \A k \in pedidos : nome[k[1]] = k[2] =>
                    k \in pending_delete \/ Exclusivo(k[2])

\* No file that an item is speaking or a reader holds is deleted, by the loop or
\* by the prune thread, whenever it was listed, opened or checked. The exception
\* is a file published between the check of a remover and its os.remove.
NaoApagaEmUso ==
    [][\A p \in Paths :
          nome[p] # Nada /\ nome'[p] = Nada /\ EmUso(nome[p]) =>
             \E a \in Removedores : /\ rem[a].pc = "apaga" /\ rem[a].path = p
                                    /\ rem[a].inode # nome[p]]_vars
=============================================================================
