------------------------------ MODULE Recepcion ------------------------------
(***************************************************************************)
(* From the file of a console to a process in New: the console parses the  *)
(* file and sends it; a thread of the kernel for each connection receives  *)
(* it into the global `consola' and makes a PCB of what the global holds,  *)
(* in two critical sections of mutex_consola.                              *)
(*                                                                         *)
(* The global is a pointer: it changes at once, and what it pointed to is  *)
(* never freed.                                                            *)
(***************************************************************************)
EXTENDS Mensajes

CONSTANTS
    Consolas,          \* the consoles
    Archivo(_),        \* the lines of the file of each: [palabra, n1, n2]
    Tamanio(_),        \* its first argument
    Estimacion         \* ESTIMACION_INICIAL

\* The arguments of a line are numbers without sign, and so is that of the console.
ASSUME ArchivosAssumption ==
    \A c \in Consolas :
        /\ Archivo(c) \in Seq([palabra : STRING, n1 : Nat, n2 : Nat])
        /\ Tamanio(c) \in Nat

VARIABLES
    conexion,          \* conexion[c]: the stream from console c
    atencion,          \* atencion[c]: where its thread is, and the PCB it made
    consola,           \* the global
    pisada,            \* the threads that found in it what another received
    generador_de_id,
    colaNew

varsRecepcion == <<conexion, atencion, consola, pisada, generador_de_id, colaNew>>

NadaRecibido == [tamanio |-> 0, instrucciones |-> <<>>]

InitRecepcion ==
    /\ conexion = [c \in Consolas |-> <<>>]
    /\ atencion = [c \in Consolas |-> [en |-> "consola", pcb |-> <<>>]]
    /\ consola = NadaRecibido
    /\ pisada = {}
    /\ generador_de_id = 0
    /\ colaNew = <<>>

-----------------------------------------------------------------------------
(* The console.                                                            *)

Instr(codigo, p1, p2) == [codigo |-> codigo, parametro1 |-> p1, parametro2 |-> p2]

\* One line of the file; a word that is no instruction is passed over.
Linea(l) ==
    CASE l.palabra = "NO_OP" -> [i \in 1..l.n1 |-> Instr(NO_OP, 0, 0)]
      [] l.palabra = "I/O"   -> <<Instr(IO, l.n1, 0)>>
      [] l.palabra = "READ"  -> <<Instr(READ, l.n1, 0)>>
      [] l.palabra = "WRITE" -> <<Instr(WRITE, l.n1, l.n2)>>
      [] l.palabra = "COPY"  -> <<Instr(COPY, l.n1, l.n2)>>
      [] l.palabra = "EXIT"  -> <<Instr(EXIT, 0, 0)>>
      [] OTHER               -> <<>>

\* parsear_instrucciones
Programa(c) == FlattenSeq([i \in DOMAIN Archivo(c) |-> Linea(Archivo(c)[i])])

EnviarConsola(c) ==
    /\ atencion[c].en = "consola"
    /\ conexion' = [conexion EXCEPT ![c] =
            Paquete(PAQUETE_CONSOLA, <<Tamanio(c)>> \o CamposDe(Programa(c)))]
    /\ atencion' = [atencion EXCEPT ![c].en = "recibir"]
    /\ UNCHANGED <<consola, pisada, generador_de_id, colaNew>>

-----------------------------------------------------------------------------
(* manejar_conexion, in the thread of console c.                           *)

\* deserializar_consola
Deserializar(s) ==
    LET v == Campos(s)
    IN  [tamanio |-> v[1], instrucciones |-> Instrucciones(Tail(v))]

RecibirConsola(c) ==
    /\ atencion[c].en = "recibir"
    /\ Entera(conexion[c])
    /\ consola' = Deserializar(conexion[c])
    /\ conexion' = [conexion EXCEPT ![c] = Resto(@)]
    /\ atencion' = [atencion EXCEPT ![c].en = "armar"]
    /\ pisada' = pisada \cup {d \in Consolas : atencion[d].en = "armar"}
    /\ UNCHANGED <<generador_de_id, colaNew>>

\* crear_estructura_pcb.  valor_tabla_paginas is not set until the memory answers.
PcbNueva ==
    [estado |-> NUEVO, estimacion |-> Estimacion, id |-> generador_de_id, pc |-> 0,
     rafaga |-> 0, tamanio |-> consola.tamanio, bloqueo |-> 0, tabla |-> 0,
     instrucciones |-> consola.instrucciones]

\* Mistake: the identifier is taken and not counted.
ArmarSinContar(c) ==
    /\ atencion[c].en = "armar"
    /\ atencion' = [atencion EXCEPT ![c] = [en |-> "agregar", pcb |-> PcbNueva]]
    /\ UNCHANGED <<conexion, consola, pisada, colaNew, generador_de_id>>

Armar(c) ==
    /\ atencion[c].en = "armar"
    /\ atencion' = [atencion EXCEPT ![c] = [en |-> "agregar", pcb |-> PcbNueva]]
    /\ generador_de_id' = generador_de_id + 1
    /\ UNCHANGED <<conexion, consola, pisada, colaNew>>

\* agregarANewPcb
AgregarANew(c) ==
    /\ atencion[c].en = "agregar"
    /\ colaNew' = Append(colaNew, atencion[c].pcb)
    /\ atencion' = [atencion EXCEPT ![c].en = "atendida"]
    /\ UNCHANGED <<conexion, consola, pisada, generador_de_id>>

Atender(c) == RecibirConsola(c) \/ Armar(c) \/ AgregarANew(c)

-----------------------------------------------------------------------------
(* Properties.                                                             *)

Creadas == {c \in Consolas : atencion[c].en \in {"agregar", "atendida"}}

\* The process made for a console has the size and the program of its file,
\* whatever connections were served meanwhile, unless another thread received
\* between its two critical sections; and no two processes share an identifier.
ProcesoPropio ==
    /\ \A c \in Creadas \ pisada :
         /\ atencion[c].pcb.tamanio = Tamanio(c)
         /\ atencion[c].pcb.instrucciones = Programa(c)
    /\ \A c, d \in Creadas : c # d => atencion[c].pcb.id # atencion[d].pcb.id
=============================================================================
