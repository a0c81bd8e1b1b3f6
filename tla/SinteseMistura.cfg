SPECIFICATION Spec
CONSTANTS
    f1 = f1
    a1 = a1
    Chaves = {"e"}
    Edge = {"e"}
    Fluxos = {f1}
    Arquivos = {a1}
    Guardam = {f1}
    MaxBlocos = 2
    Orcamento = 1
    LimiteMemoria = 0
    Ambiente = {"disco"}
CHECK_DEADLOCK FALSE
INVARIANTS CopiaCompleta
