CONSTANTS
    Paginas = {0, 1, 2, 3}
    Pids = {1, 2}
    Ninguno = Ninguno
    Entradas = 3
    MaxTurno = 7
    MaxPaginas = 4
SPECIFICATION SpecDeUno
INVARIANTS TypeOK VictimaSiCuenta VictimaCorrecta RotacionCorrecta
PROPERTIES ImplementaOrden
CHECK_DEADLOCK FALSE
