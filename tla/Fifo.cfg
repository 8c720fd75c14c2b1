CONSTANTS
    p1 = p1
    p2 = p2
    p3 = p3
    Nadie = Nadie
    Procesos = {p1, p2, p3}
    Identificador <- Identificadores
    Programa <- ProgramaTres
    Grado = 2
    Algoritmo = "FIFO"
    Estimaciones = {1}
SPECIFICATION Spec
INVARIANTS TypeOK NuncaListaVacia UnSoloLugar GradoRespetado SeleccionDefinida
PROPERTIES OrdenFifo
CHECK_DEADLOCK FALSE
