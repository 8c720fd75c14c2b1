--------------------------- MODULE MemoriaVirtual ---------------------------
(***************************************************************************)
(* What the memory module promises to the programs, without frames, bits   *)
(* or swap files: every page of every process holds what was last written  *)
(* in it, a READ answers that, and every request is answered.              *)
(***************************************************************************)
CONSTANTS Procesos, Paginas, Valores, Escritos, Nada

VARIABLES
    contenido,   \* what each page of each process holds
    pedido,      \* the request of the CPU that is being served, or Nada
    respuesta    \* the value that the last answer carried, if it was of a READ

vars == <<contenido, pedido, respuesta>>

Accesos == [p : Procesos, g : Paginas, w : Escritos \cup {Nada}]

Init ==
    /\ contenido = [q \in Procesos |-> [g \in Paginas |-> 0]]
    /\ pedido = Nada
    /\ respuesta = Nada

Pedir ==
    /\ pedido = Nada
    /\ pedido' \in Accesos
    /\ respuesta' = Nada
    /\ UNCHANGED contenido

Leer ==
    /\ pedido # Nada /\ pedido.w = Nada
    /\ respuesta' = contenido[pedido.p][pedido.g]
    /\ pedido' = Nada
    /\ UNCHANGED contenido

Escribir ==
    /\ pedido # Nada /\ pedido.w # Nada
    /\ contenido' = [contenido EXCEPT ![pedido.p][pedido.g] = pedido.w]
    /\ pedido' = Nada
    /\ respuesta' = Nada

Next == Pedir \/ Leer \/ Escribir

\* What was asked is answered.
Spec == Init /\ [][Next]_vars /\ WF_vars(Leer \/ Escribir)
=============================================================================
