SPECIFICATION FairSpec
CONSTANTS
    t1 = t1  t2 = t2  t3 = t3  t4 = t4
    Tarefas <- MCTarefas
    Vagas = 2
INVARIANTS TypeOK VagasConservadas SemVagaOciosa FundoNaoPreterido
PROPERTIES EsperaTermina
