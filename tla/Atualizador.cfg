CONSTANTS
    x = x
    N = 2
    Externos <- MCExternos
    PorConfirmar <- MCPorConfirmar
    SemPatch <- MCSemPatch
    MaxRetomadas = 1
    MaxPedidos = 1
    MaxQuedas = 2
SPECIFICATION FairSpec
INVARIANTS FilaEmOrdem FeitaPublicada
PROPERTIES PublicadaFica PublicaSoValidada TudoAssenta
CHECK_DEADLOCK FALSE
