CONSTANTS
    Paginas = {0, 1, 2, 3}
    Pids = {1, 2}
    Ninguno = Ninguno
    Entradas = 3
    MaxTurno = 7
SPECIFICATION Spec
INVARIANT VictimaEncontrada
CHECK_DEADLOCK FALSE
