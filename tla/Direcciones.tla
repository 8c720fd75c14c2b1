----------------------------- MODULE Direcciones -----------------------------
(***************************************************************************)
(* The arithmetic of pages: the tables that the memory module makes for a  *)
(* process, and the numbers in which the MMU splits an address.            *)
(***************************************************************************)
EXTENDS Integers

\* The ceiling of a / b.
Techo(a, b) == (a + b - 1) \div b

\* pags_proceso: one more when it is not exact, and then rounded up.
PagsProceso(tamanio, tam_pagina) ==
    Techo(tamanio, tam_pagina) + (IF tamanio % tam_pagina > 0 THEN 1 ELSE 0)

\* tp2_proceso
Tp2Proceso(pags, entradas) == Techo(pags, entradas)

\* traducir_dir_logica, for the configuration c that the handshake brought.
NumPagina(c, dir) == dir \div c.tam_pagina
EntradaTabla1(c, dir) == NumPagina(c, dir) \div c.entradas
EntradaTabla2(c, dir) == NumPagina(c, dir) % c.entradas
Offset(c, dir) == dir - NumPagina(c, dir) * c.tam_pagina
DireccionFisica(c, marco, dir) == marco * c.tam_pagina + Offset(c, dir)
=============================================================================
