-------------------------------- MODULE Tlb ---------------------------------
(***************************************************************************)
(* The TLB of the CPU module (tlb.c) as traducir_dir_logica and the main   *)
(* loop use it.  There is one TLB for all processes and its entries do not *)
(* say whose they are: it is emptied when another process comes.  The      *)
(* frame of an entry is whatever the memory module answered; nothing here  *)
(* depends on it.  All of it runs in the main thread of the CPU.           *)
(***************************************************************************)
EXTENDS Integers, Sequences, FiniteSets

CONSTANTS
    Paginas,     \* page numbers that the programs use
    Pids,        \* the processes that are dispatched
    Ninguno,     \* "no process": ultimo_pid is -1, or the CPU is idle
    Entradas,    \* ENTRADAS_TLB
    MaxTurno     \* bound of the model on the counters, which never stop growing

ASSUME PaginasAssumption == Paginas \subseteq Nat /\ 0 \in Paginas
ASSUME NingunoAssumption == Ninguno \notin Pids
ASSUME EntradasAssumption == Entradas \in Nat \ {0}
ASSUME MaxTurnoAssumption == MaxTurno \in Nat

VARIABLES
    algoritmo,   \* tlb->algoritmo, REEMPLAZO_TLB
    lista,       \* tlb->lista
    cantidad,    \* cantidad_de_traducciones
    buscada,     \* the pagina_a_buscar of the last translation that ended
    ultimo,      \* ultimo_pid
    pid,         \* the process in the CPU
    viva         \* FALSE once the CPU module dereferenced NULL

vars == <<algoritmo, lista, cantidad, buscada, ultimo, pid, viva>>

Traducciones == [pagina : Paginas, turno : Int]

Init ==
    /\ algoritmo \in {"FIFO", "LRU"}
    /\ lista = <<>>
    /\ cantidad = 0
    /\ buscada = 0
    /\ ultimo = Ninguno
    /\ pid = Ninguno
    /\ viva = TRUE

Paginada(i, p) == lista[i].pagina = p

\* buscar_en_la_tlb
Esta(p) == \E i \in DOMAIN lista : Paginada(i, p)

\* sumar_uno_al_turno_de_reemplazo, restar_uno_al_turno_de_reemplazo
Sumar(d) == [i \in DOMAIN lista |-> [lista[i] EXCEPT !.turno = @ + d]]

\* Entry i becomes the translation of p with turn t, after d is added to all.
Asignar(i, p, t, d) == [Sumar(d) EXCEPT ![i] = [pagina |-> p, turno |-> t]]

\* PCB received: the TLB is emptied if it holds the pages of another process.
Despachar(p) ==
    /\ pid = Ninguno
    /\ pid' = p
    /\ lista' = IF ultimo # p THEN <<>> ELSE lista
    /\ UNCHANGED <<algoritmo, buscada, cantidad, ultimo, viva>>

\* Mistake: a hit ages every entry, the one that was hit too.
UsarSinReinicio(p) ==
    /\ algoritmo = "LRU"
    /\ Esta(p)
    /\ \A j \in DOMAIN lista : lista[j].turno < MaxTurno
    /\ lista' = Sumar(1)
    /\ UNCHANGED <<algoritmo, cantidad, ultimo, pid, viva>>

\* tlb_hit
Usar(p) ==
    /\ algoritmo = "LRU"
    /\ \E i \in DOMAIN lista :
         /\ Paginada(i, p)
         /\ \A j \in DOMAIN lista : lista[j].turno < MaxTurno
         /\ lista' = Asignar(i, p, 0, 1)
    /\ UNCHANGED <<algoritmo, cantidad, ultimo, pid, viva>>

\* Under FIFO a hit changes nothing.
UsarFifo(p) ==
    /\ algoritmo = "FIFO"
    /\ Esta(p)
    /\ UNCHANGED <<algoritmo, lista, cantidad, ultimo, pid, viva>>

\* Mistake: the counter goes down with each translation.
AgregarFifoRestando(p) ==
    /\ algoritmo = "FIFO"
    /\ Len(lista) < Entradas
    /\ lista' = Append(lista, [pagina |-> p, turno |-> cantidad])
    /\ cantidad' = cantidad - 1
    /\ UNCHANGED <<algoritmo, ultimo, pid, viva>>

\* agregar_a_tlb_menor_a_entradas
AgregarFifo(p) ==
    /\ algoritmo = "FIFO"
    /\ Len(lista) < Entradas
    /\ cantidad < MaxTurno
    /\ lista' = Append(lista, [pagina |-> p, turno |-> cantidad])
    /\ cantidad' = cantidad + 1
    /\ UNCHANGED <<algoritmo, ultimo, pid, viva>>

AgregarLru(p) ==
    /\ algoritmo = "LRU"
    /\ Len(lista) < Entradas
    /\ \A j \in DOMAIN lista : lista[j].turno < MaxTurno
    /\ lista' = Append(Sumar(1), [pagina |-> p, turno |-> 0])
    /\ UNCHANGED <<algoritmo, cantidad, ultimo, pid, viva>>

\* list_find(encontrar_fifo): the first whose turn is 0.
PrimeroEnCero(i) ==
    /\ lista[i].turno = 0
    /\ \A j \in 1..(i - 1) : lista[j].turno # 0

\* Mistake: the other entries do not move up when one is replaced.
ReemplazarSinRestar(p) ==
    /\ algoritmo = "FIFO"
    /\ Len(lista) >= Entradas
    /\ \E i \in DOMAIN lista :
         PrimeroEnCero(i) /\ lista' = Asignar(i, p, cantidad - 1, 0)
    /\ UNCHANGED <<algoritmo, cantidad, ultimo, pid, viva>>

\* agregar_a_tlb_fifo
ReemplazarFifo(p) ==
    /\ algoritmo = "FIFO"
    /\ Len(lista) >= Entradas
    /\ \E i \in DOMAIN lista :
         PrimeroEnCero(i) /\ lista' = Asignar(i, p, cantidad - 1, -1)
    /\ UNCHANGED <<algoritmo, cantidad, ultimo, pid, viva>>

\* list_find returned NULL, and a_reemplazar->pagina is read.
SinVictima ==
    /\ algoritmo = "FIFO"
    /\ Len(lista) >= Entradas
    /\ \A i \in DOMAIN lista : lista[i].turno # 0
    /\ viva' = FALSE
    /\ UNCHANGED <<algoritmo, lista, cantidad, ultimo, pid>>

\* list_get_maximum(traduccionConMayorEspera): the last of the largest turns.
MayorEspera(i) ==
    \A j \in DOMAIN lista : /\ lista[j].turno <= lista[i].turno
                            /\ j > i => lista[j].turno < lista[i].turno

\* agregar_a_tlb_lru
ReemplazarLru(p) ==
    /\ algoritmo = "LRU"
    /\ Len(lista) >= Entradas
    /\ \A j \in DOMAIN lista : lista[j].turno < MaxTurno
    /\ \E i \in DOMAIN lista : MayorEspera(i) /\ lista' = Asignar(i, p, 0, 1)
    /\ UNCHANGED <<algoritmo, cantidad, ultimo, pid, viva>>

\* traducir_dir_logica: tlb_hit or, after the memory module answers, tlb_miss.
Traducir(p) ==
    /\ pid # Ninguno
    /\ buscada' = p
    /\ \/ Usar(p) \/ UsarFifo(p)
       \/ ~ Esta(p) /\ \/ AgregarFifo(p) \/ AgregarLru(p)
                       \/ ReemplazarFifo(p) \/ ReemplazarLru(p)

\* The same translation when it has no entry to replace: it does not end.
TraducirSinVictima(p) ==
    /\ pid # Ninguno
    /\ ~ Esta(p)
    /\ SinVictima
    /\ UNCHANGED buscada

\* The process goes back to the kernel.  (One whose instructions end without
\* EXIT never does, and no other comes.)
Volver ==
    /\ pid # Ninguno
    /\ ultimo' = pid
    /\ pid' = Ninguno
    /\ UNCHANGED <<algoritmo, buscada, lista, cantidad, viva>>

Next ==
    /\ viva
    /\ \/ \E p \in Pids : Despachar(p)
       \/ \E p \in Paginas : Traducir(p) \/ TraducirSinVictima(p)
       \/ Volver

Spec == Init /\ [][Next]_vars

-----------------------------------------------------------------------------
(* Properties.                                                             *)

TypeOK ==
    /\ algoritmo \in {"FIFO", "LRU"}
    /\ lista \in Seq(Traducciones)
    /\ cantidad \in Nat
    /\ buscada \in Paginas
    /\ {ultimo, pid} \subseteq Pids \cup {Ninguno}
    /\ viva \in BOOLEAN

\* The pages in the order in which their turns say they will be replaced.
Antes(i, j) ==
    \/ lista[i].turno = lista[j].turno /\ i < j
    \/ IF algoritmo = "FIFO" THEN lista[i].turno < lista[j].turno
                             ELSE lista[i].turno > lista[j].turno

Previas == [i \in DOMAIN lista |-> {j \in DOMAIN lista : Antes(j, i)}]

Orden ==
    [k \in DOMAIN lista |->
       lista[CHOOSE i \in DOMAIN lista : Cardinality(Previas[i]) = k - 1].pagina]

Reemplazo == INSTANCE OrdenReemplazo WITH orden <- Orden

\* The turns, moved up and down one by one as pages come, hit and go, always
\* order the pages as the algorithm says: by arrival under FIFO, by last use
\* under LRU, and no page is translated twice.
ImplementaOrden == Reemplazo!Spec

\* As long as the counter of FIFO is the number of entries, which a flush of a
\* TLB in use ends for good, there is an entry with turn 0 when one is needed.
VictimaSiCuenta == cantidad = Len(lista) => viva

\* "ENCUENTRA EL QUE SE AGREGO PRIMERO": list_find(encontrar_fifo) finds an
\* entry, and the CPU module does not read through NULL.
VictimaEncontrada == viva
=============================================================================
