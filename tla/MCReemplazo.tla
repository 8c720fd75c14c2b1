---------------------------- MODULE MCReemplazo -----------------------------
(***************************************************************************)
(* The two replacement algorithms of the system in one run: the TLB of the *)
(* CPU, and CLOCK and CLOCK-M of the memory.  They share nothing; the      *)
(* initial state says which of the two takes steps.                        *)
(***************************************************************************)
EXTENDS Tlb, MCReloj

IniciarUno ==
    \/ Init /\ paginas = <<>> /\ elegidas = Sin
    \/ Init /\ algoritmo = "FIFO" /\ InitReloj

PasoDeUno ==
    \/ paginas = <<>> /\ Next /\ UNCHANGED <<paginas, elegidas>>
    \/ paginas # <<>> /\ NextReloj /\ UNCHANGED vars

SpecDeUno == IniciarUno /\ [][PasoDeUno]_<<vars, paginas, elegidas>>
=============================================================================
