CONSTANTS
    p1 = p1
    p2 = p2
    p3 = p3
    Nadie = Nadie
    Procesos = {p1, p2}
    Identificador <- EnOrden
    Programa <- ProgramaCpu
    Grado = 2
    Algoritmo = "SRT"
    Estimaciones = {1, 2}
SPECIFICATION Spec
INVARIANTS TypeOK NuncaListaVacia UnSoloLugar SeleccionDefinida
PROPERTIES ImplementaDiagrama
CHECK_DEADLOCK FALSE
