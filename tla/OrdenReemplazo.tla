--------------------------- MODULE OrdenReemplazo ---------------------------
(***************************************************************************)
(* What a TLB of Entradas entries promises, without turns: the pages it    *)
(* translates, in the order in which they will be replaced, and the page   *)
(* asked for last.  The order is that in which the pages were added under  *)
(* FIFO, and that of their last use under LRU.                             *)
(***************************************************************************)
EXTENDS Naturals, SequencesExt

CONSTANTS Paginas, Entradas

VARIABLES orden, buscada, algoritmo

vars == <<orden, buscada, algoritmo>>

Traduce(p) == \E i \in DOMAIN orden : orden[i] = p

Init == orden = <<>> /\ buscada \in Paginas /\ algoritmo \in {"FIFO", "LRU"}

\* The one that was used is the last to be replaced.
AlFinal(p) ==
    LET i == CHOOSE i \in DOMAIN orden : orden[i] = p
    IN  Append(RemoveAt(orden, i), p)

Usar(p) ==
    /\ buscada' = p
    /\ Traduce(p)
    /\ orden' = IF algoritmo = "LRU" THEN AlFinal(p) ELSE orden

Agregar(p) ==
    /\ buscada' = p
    /\ ~ Traduce(p)
    /\ orden' = Append(IF Len(orden) < Entradas THEN orden ELSE Tail(orden), p)

Vaciar == orden' = <<>> /\ UNCHANGED buscada

Next ==
    /\ Vaciar \/ \E p \in Paginas : Usar(p) \/ Agregar(p)
    /\ UNCHANGED algoritmo

Spec == Init /\ [][Next]_vars
=============================================================================
