CONSTANTS
    p1 = p1
    p2 = p2
    p3 = p3
    Nadie = Nadie
    Procesos = {p1, p2}
    Identificador <- Identificadores
    Programa <- ProgramaMixto
    Grado = 2
    Algoritmo = "FIFO"
    Estimaciones = {1}
SPECIFICATION FairSpec
PROPERTIES TodasFinalizan ImplementaDiagrama
CHECK_DEADLOCK FALSE
