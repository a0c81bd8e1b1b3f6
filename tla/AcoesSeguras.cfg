SPECIFICATION Spec
CONSTANTS
    k1 = k1
    k2 = k2
    m = m
    Etapas <- MCDois
    Membro <- MCMesmo
    MaxAcoes = 2
    Cliques = {k1, k2}
    MaxQuedas = 1
CHECK_DEADLOCK FALSE
SYMMETRY Simetria
INVARIANTS PlanoInteiro ReservaExata UmCartao
PROPERTIES EPlano
