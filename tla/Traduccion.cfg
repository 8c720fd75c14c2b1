CONSTANTS
    Procesos = {0, 1}
    Paginas = {0, 1}
    Marcos = {0, 1}
    MarcosPorProceso = 1
    Algoritmo = "CLOCK"
    Valores = {0, 1}
    Escritos = {1}
    Basura = Basura
    Punteros = {FALSE}
    Pedidos = {"SUSPENDER_PROCESO", "PCB"}
    Nada = Nada
    EntradasTlb = 2
    Programas <- CopiaYEscribe
SPECIFICATION SpecTraduccion
INVARIANTS TypeOKTraduccion MarcosPropios CupoRespetado ArchivoMapeado Aislamiento TlbCoherente MarcosAlcanzan
PROPERTIES NadaSePierdeTraduciendo
CHECK_DEADLOCK FALSE
