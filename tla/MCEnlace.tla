------------------------------ MODULE MCEnlace ------------------------------
EXTENDS Enlace

L(palabra, n1, n2) == [palabra |-> palabra, n1 |-> n1, n2 |-> n2]

\* The pages of the first program are in two tables; both write the same address
\* with other values.
Archivos(c) ==
    CASE c = 1 -> <<L("WRITE", 4, 300), L("NO_OP", 2, 0), L("COPY", 16, 4),
                    L("I/O", 9, 0), L("READ", 16, 0), L("EXIT", 0, 0)>>
      [] c = 2 -> <<L("WRITE", 4, 7), L("OTRA", 0, 0), L("READ", 4, 0),
                    L("READ", 8, 0), L("EXIT", 0, 0)>>

Tamanios(c) == CASE c = 1 -> 24 [] c = 2 -> 12
=============================================================================
