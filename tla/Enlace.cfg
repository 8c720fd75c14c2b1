CONSTANTS
    Consolas = {1, 2}
    Archivo <- Archivos
    Tamanio <- Tamanios
    Estimacion = 4
    TamPagina = 8
    EntradasPorTabla = 2
    TamMemoria = 64
    MarcosPorProceso = 3
    Estimaciones = {3}
    Rafagas = {1}
    Basura = 99
SPECIFICATION SpecEnlace
INVARIANTS ProcesoPropio LecturaEsperada PcbFiel CanalesEnOrden
PROPERTIES TodosTerminan
CHECK_DEADLOCK FALSE
