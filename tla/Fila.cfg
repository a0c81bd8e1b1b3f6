SPECIFICATION FairSpec
CONSTANTS
    Mensagens <- MCMensagens
    Texto <- MCTexto
    Capacidade = 3
    Limpadores = {c1, c2}
    MaxPainel = 2
    Ambiente = {"encerrar", "sair", "vazia"}
CHECK_DEADLOCK FALSE
INVARIANTS TarefasExatas AssinaturasExatas MensagensInteiras FechadaEnquantoEspera
PROPERTIES EmOrdem NaoTocaApagada FilaRepousa
