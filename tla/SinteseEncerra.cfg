SPECIFICATION FairSpec
CONSTANTS
    f1 = f1
    a1 = a1
    Chaves = {"e"}
    Edge = {"e"}
    Fluxos = {f1}
    Arquivos = {a1}
    Guardam = {f1}
    MaxBlocos = 1
    Orcamento = 1
    LimiteMemoria = 1
    Ambiente = {"encerrar", "disco"}
CHECK_DEADLOCK FALSE
PROPERTIES TudoDevolvido
