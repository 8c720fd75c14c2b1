CONSTANTS
    Procesos = {0, 1}
    Paginas = {0, 1}
    Marcos = {0, 1}
    MarcosPorProceso = 1
    Algoritmo = "CLOCK"
    Valores = {0, 1}
    Escritos = {0, 1}
    Basura = Basura
    Punteros = {FALSE, TRUE}
    Pedidos = {"SUSPENDER_PROCESO"}
    Nada = Nada
SPECIFICATION Spec
INVARIANTS TraeDeSuArchivo
CHECK_DEADLOCK FALSE
