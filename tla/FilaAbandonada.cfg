SPECIFICATION Spec
CONSTANTS
    Mensagens <- MCMensagens
    Texto <- MCTexto
    Capacidade = 3
    Limpadores = {c1}
    MaxPainel = 0
    Ambiente = {"vazia"}
CHECK_DEADLOCK FALSE
INVARIANTS NadaAbandonado
