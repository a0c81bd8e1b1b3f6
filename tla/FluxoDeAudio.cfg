SPECIFICATION FairSpec
CONSTANTS
    e1 = e1  e2 = e2  l1 = l1  l2 = l2  c1 = c1
    curto = curto  longo = longo  enorme = enorme
    Escritores <- MCEscritores
    Leitores <- MCLeitores
    Controladores <- MCControladores
    Blocos <- MCBlocos
    tamanho <- MCTamanho
    capacidade_bytes = 4
    maximo_blocos = 2
    LimiteU64 = 2
    MaxChamadas <- MCChamadas
CHECK_DEADLOCK FALSE
INVARIANTS TypeOK OcupacaoExata ContadoresExatos NinguemEsquecido
PROPERTIES EFila ChamadasVoltam
