SPECIFICATION Spec
CONSTANTS
    f1 = f1
    a1 = a1
    Chaves = {"e", "g"}
    Edge = {"e"}
    Fluxos = {f1}
    Arquivos = {a1}
    Guardam = {f1}
    MaxBlocos = 2
    Orcamento = 1
    LimiteMemoria = 1
    Ambiente = {}
CHECK_DEADLOCK FALSE
INVARIANTS ContasExatas FechadoSemUso Legivel Compartilhada CopiaCompleta
