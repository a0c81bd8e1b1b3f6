SPECIFICATION FairSpec
CONSTANTS
    principal = principal
    t1 = t1  t2 = t2  t3 = t3
    Ninguem = Ninguem
    Fontes = {principal}
    Tentativas = {t1, t2, t3}
    CircuitFailures = 2
    Niveis = 2
INVARIANTS SondaComDono
PROPERTIES NadaNaEspera TardiaNaoFecha FonteVolta
