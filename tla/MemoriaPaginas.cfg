CONSTANTS
    Procesos = {0}
    Paginas = {0, 1, 2}
    Marcos = {0, 1, 2}
    MarcosPorProceso = 2
    Algoritmo = "CLOCK-M"
    Valores = {0, 1}
    Escritos = {0, 1}
    Basura = Basura
    Punteros = {FALSE, TRUE}
    Pedidos = {}
    Nada = Nada
SPECIFICATION FairSpec
INVARIANTS TypeOK MarcosPropios CupoRespetado LecturaFiel
PROPERTIES ImplementaVirtual
CHECK_DEADLOCK FALSE
