------------------------------ MODULE EnlaceInv ------------------------------
(***************************************************************************)
(* What the threads of Enlace preserve while a process is in one of them   *)
(* or on its way over a socket: the invariants of the proofs.              *)
(***************************************************************************)
EXTENDS Enlace

Instruccs == [codigo : {NO_OP, IO, READ, WRITE, COPY, EXIT}, parametro1 : Nat, parametro2 : Nat]
Pcbs == [estado : Nat, estimacion : {Estimacion} \cup Estimaciones, id : Nat, pc : Nat,
         rafaga : {0} \cup Rafagas, tamanio : Nat, bloqueo : Nat, tabla : Nat,
         instrucciones : Seq(Instruccs)]

-----------------------------------------------------------------------------
(* From a console to New.                                                  *)

\* What the connection of a console brings, and what its thread makes of it.
Mensaje(c) == Paquete(PAQUETE_CONSOLA, <<Tamanio(c)>> \o CamposDe(Programa(c)))
DeConsola(c) == [tamanio |-> Tamanio(c), instrucciones |-> Programa(c)]

\* A PCB as it is made: of some console's program, at its beginning, and one of the
\* first n.
Nueva(p, n) ==
    /\ p \in Pcbs /\ p.id < n /\ p.pc = 0
    /\ \E d \in Consolas : p.tamanio = Tamanio(d) /\ p.instrucciones = Programa(d)

TipoRecepcion ==
    /\ conexion \in [Consolas -> {<<>>} \cup {Mensaje(c) : c \in Consolas}]
    /\ DOMAIN atencion = Consolas
    /\ \A c \in Consolas :
         /\ atencion[c] = [en |-> atencion[c].en, pcb |-> atencion[c].pcb]
         /\ atencion[c].en \in {"consola", "recibir", "armar", "agregar", "atendida"}
    /\ pisada \subseteq Consolas
    /\ generador_de_id \in Nat

\* The global holds some console's program from the first reception on, and that of
\* the thread that has not made its PCB yet unless another received after it.
ConsolaOK ==
    \A c \in Consolas :
        /\ atencion[c].en = "consola" => conexion[c] = <<>>
        /\ atencion[c].en = "recibir" => conexion[c] = Mensaje(c)
        /\ atencion[c].en = "armar" => \E d \in Consolas : consola = DeConsola(d)
        /\ atencion[c].en = "armar" /\ c \notin pisada => consola = DeConsola(c)

CreadasOK == (\A c \in Creadas : Nueva(atencion[c].pcb, generador_de_id)) /\ ProcesoPropio

-----------------------------------------------------------------------------
(* Between kernel and CPU.                                                 *)

\* The PCB of a process that its console's thread added to New, further on in its
\* program; one that has not ended has an instruction to execute.
Hechas ==
    {p \in Pcbs :
        /\ \E c \in Consolas : atencion[c].en = "atendida" /\ Fijo(p) = Fijo(atencion[c].pcb)
        /\ p.instrucciones # <<>> /\ p.instrucciones[Len(p.instrucciones)].codigo = EXIT}
Vivas == {p \in Hechas : p.pc < Len(p.instrucciones)}

ColasOK ==
    /\ colaNew \in Seq(Vivas) /\ colaReady \in Seq(Vivas) /\ colaExit \in Seq(Hechas)
    /\ tablas1 \in Seq(ToSet(tablas1))

\* The process in Exec is on its way to the CPU, in it, or on its way back.
EnCamino == /\ dispatch = EnviarPcb(Head(colaExec)) /\ vuelta = <<>> /\ en = "dispatch"
EnCpu == /\ dispatch = <<>> /\ vuelta = <<>> /\ en # "dispatch"
         /\ pcb \in Vivas /\ DelNucleo(pcb) = DelNucleo(Head(colaExec))
DeVuelta == /\ dispatch = <<>> /\ vuelta = EnviarPcb(pcb) /\ en = "dispatch"
            /\ pcb \in Hechas /\ pcb.pc > 0 /\ pcb.pc <= Len(pcb.instrucciones)
            /\ pcb.instrucciones[pcb.pc].codigo # EXIT => pcb \in Vivas

ExecOK ==
    \/ colaExec = <<>> /\ dispatch = <<>> /\ vuelta = <<>> /\ en = "dispatch"
    \/ /\ colaExec = <<Head(colaExec)>> /\ Head(colaExec) \in Vivas
       /\ EnCamino \/ EnCpu \/ DeVuelta

-----------------------------------------------------------------------------
(* Between CPU and memory.                                                 *)

\* What is left of the handshake's four bytes when its code was received as one.
Ceros == <<Byte(0), Byte(0), Byte(0)>>

\* A packet and nothing else.
UnPaquete(s, codigo) == s # <<>> /\ s = Paquete(codigo, Last(s).v)

\* A request that the memory module has not received.
Pedida(codigo) ==
    /\ pedidos # <<>> /\ respuestas = <<>>
    /\ LET r == Paquete(codigo, Last(pedidos).v) IN pedidos \in {r, Ceros \o r}

Lectura == Last(pedidos).v[1] = READ

\* Its answer, or none if the module used a NULL.
Respondido(respuesta) ==
    pedidos = <<>> /\ (respuesta \/ (respuestas = <<>> /\ caida # "no"))

HandshakeOK ==
    /\ saludo \in {"pedir", "esperar", "fin"}
    /\ saludo = "pedir" => pedidos = <<>> /\ respuestas = <<>>
    /\ saludo = "esperar" =>
         \/ pedidos = Entero(HANDSHAKE) /\ respuestas = <<>>
         \/ pedidos = Ceros /\ respuestas = Paquete(PAQUETE, <<TamPagina, EntradasPorTabla>>)
    /\ saludo # "fin" =>
         configuracion = <<>> /\ fisicas = <<>> /\ en \in {"dispatch", "ciclo"}

PedidosOK ==
    /\ en \in {"dispatch", "ciclo", "tabla", "marco", "lectura", "escritura"}
    /\ fisicas \in Seq(ToSet(fisicas))
    /\ en \in {"dispatch", "ciclo"} /\ saludo = "fin" =>
         pedidos \in {<<>>, Ceros} /\ respuestas = <<>>
    /\ en = "tabla" => Pedida(TABLA) \/ Respondido(Len(respuestas) = 4)
    /\ en = "marco" => Pedida(MARCO) \/ Respondido(UnPaquete(respuestas, MARCO))
    /\ en = "lectura" => \/ Pedida(INSTRUCCION_MEMORIA) /\ Lectura
                         \/ Respondido(UnPaquete(respuestas, PAQUETE))
    /\ en = "escritura" => \/ Pedida(INSTRUCCION_MEMORIA) /\ ~ Lectura
                           \/ Respondido(Len(respuestas) = 4)

\* What waits for such an answer is an instruction of memory.
DeMemoriaOK == en \in {"lectura", "escritura"} => DeMemoria
-----------------------------------------------------------------------------
(* The processes admitted, as they are now.                                *)

\* The PCB of the process in Exec: the kernel's until the CPU has it, and the CPU's
\* from then on.
EnExec == IF colaExec = <<>> THEN {} ELSE IF dispatch # <<>> THEN {Head(colaExec)} ELSE {pcb}
Admitidas == ToSet(colaReady) \cup ToSet(colaExit) \cup EnExec

SinRepetir(s) == \A i, j \in DOMAIN s : s[i].id = s[j].id => i = j
Ajenas(S, T) == \A p \in S, q \in T : p.id # q.id

\* Each process is once in one queue, and those in New have executed nothing.
UnaVez ==
    /\ SinRepetir(colaNew) /\ SinRepetir(colaReady) /\ SinRepetir(colaExit)
    /\ Ajenas(ToSet(colaNew), Admitidas)
    /\ Ajenas(ToSet(colaReady), ToSet(colaExit)) /\ Ajenas(ToSet(colaReady), EnExec)
    /\ Ajenas(ToSet(colaExit), EnExec)
    /\ \A p \in ToSet(colaNew) : p.pc = 0
    /\ colaExec # <<>> => \A p \in EnExec : p.tabla = Head(colaExec).tabla
    /\ generador_de_id = Cardinality(Creadas)

-----------------------------------------------------------------------------
(* The tables and the frames.                                              *)

Config == [tam_pagina |-> TamPagina, entradas |-> EntradasPorTabla]
Pag(d) == NumPagina(Config, d)
Paginas(p) == {Pag(d) : d \in 0..(p.tamanio - 1)}

\* The table of the second level of page n of p, and its frame.
Indice(p, n) == tablas1[p.tabla + 1][n \div EntradasPorTabla + 1]
Marco(p, n) == tablas2[Indice(p, n) + 1].marcos[(n % EntradasPorTabla) + 1]

\* Each process has tables of its own, enough for its pages.
TablasOK ==
    /\ tablas1 \in Seq(Seq(Nat))
    /\ tablas2 \in Seq([pid : Nat, marcos : [1..EntradasPorTabla -> Nat \cup {-1}]])
    /\ \A i, k \in DOMAIN tablas1 : \A j \in DOMAIN tablas1[i], l \in DOMAIN tablas1[k] :
         /\ tablas1[i][j] < Len(tablas2)
         /\ tablas1[i][j] = tablas1[k][l] => i = k /\ j = l
    /\ \A p \in Admitidas :
         /\ p.tabla < Len(tablas1)
         /\ Len(tablas1[p.tabla + 1])
              = Tp2Proceso(PagsProceso(p.tamanio, TamPagina), EntradasPorTabla)
    /\ \A p, q \in Admitidas : p.tabla = q.tabla => p = q

Tomado(f) == f # -1 => f \in Marcos /\ marcos[f] # -1

\* No two pages have the same frame, and those that pages have are marked.
MarcosOK ==
    /\ marcos \in [Marcos -> Nat \cup {-1}]
    /\ DOMAIN usuario = 0..(TamMemoria - 1)
    /\ \A t, u \in DOMAIN tablas2, e, f \in 1..EntradasPorTabla :
         /\ Tomado(tablas2[t].marcos[e])
         /\ tablas2[t].marcos[e] = tablas2[u].marcos[f] =>
              tablas2[t].marcos[e] = -1 \/ (t = u /\ e = f)

-----------------------------------------------------------------------------
(* What the CPU has in hand.                                               *)

\* f is the address in memory of d, of process p.
EnMemoria(p, d, f) ==
    Marco(p, Pag(d)) # -1 /\ f = DireccionFisica(Config, Marco(p, Pag(d)), d)

FisicasOK ==
    /\ saludo = "fin" => configuracion = Config
    /\ en = "dispatch" \/ ~ DeMemoria => fisicas = <<>>
    /\ en # "dispatch" /\ DeMemoria =>
         /\ Len(fisicas) <= Len(Logicas)
         /\ \A i \in 1..Len(fisicas) : EnMemoria(pcb, Logicas[i], fisicas[i])
    /\ en \in {"tabla", "marco"} => DeMemoria /\ Len(fisicas) < Len(Logicas)
    /\ en \in {"lectura", "escritura"} =>
         /\ DeMemoria /\ Len(fisicas) = Len(Logicas)
         /\ en = "lectura" <=> Instruccion.codigo = READ

\* The TLB is that of the process in the CPU, or of the last that was.
TlbOK ==
    tlb # {} => \E p \in Admitidas :
        /\ p.id = IF en = "dispatch" THEN ultimo_pid ELSE pcb.id
        /\ \A t \in tlb :
             t[1] \in Paginas(p) /\ Marco(p, t[1]) # -1 /\ t[2] = Marco(p, t[1])

\* A request is that of the translation or the instruction in hand, and so is the
\* answer of the tables.
ContenidosOK ==
    /\ en = "tabla" =>
         /\ pedidos # <<>> =>
              Last(pedidos).v = <<pcb.tabla, EntradaTabla1(Config, Logica)>>
         /\ respuestas # <<>> => Head(respuestas).v[1] = Indice(pcb, Pag(Logica))
    /\ en = "marco" =>
         /\ pedidos # <<>> =>
              Last(pedidos).v = <<Indice(pcb, Pag(Logica)), EntradaTabla2(Config, Logica)>>
         /\ respuestas # <<>> =>
              Marco(pcb, Pag(Logica)) # -1 /\ Last(respuestas).v = <<Marco(pcb, Pag(Logica))>>
    /\ en \in {"lectura", "escritura"} /\ pedidos # <<>> =>
         Last(pedidos).v = <<Instruccion.codigo>> \o fisicas
             \o (IF Instruccion.codigo = WRITE THEN <<Instruccion.parametro2>> ELSE <<>>)

-----------------------------------------------------------------------------
(* The memory of each process.                                             *)

\* The instructions of p whose writes are in memory: one more than those done when
\* the answer to a write is on its way.
Escritas(p) == IF en = "escritura" /\ pedidos = <<>> /\ p = pcb THEN p.pc + 1 ELSE p.pc

\* What memory has for the process at d.
Contenido(p, d) ==
    IF Marco(p, Pag(d)) = -1 THEN 0 ELSE usuario[DireccionFisica(Config, Marco(p, Pag(d)), d)]

\* The bytes of a process are those of its program run alone, wherever they are.
MemoriaPropia ==
    \A p \in Admitidas : \A d \in 0..(p.tamanio - 1) :
        Contenido(p, d) = Aparte(p)[Escritas(p)].mem[d]

LeidosOK ==
    /\ DOMAIN leidos = Ids
    /\ \A p \in Admitidas : leidos[p.id] = Aparte(p)[p.pc].leidos
    /\ \A id \in Ids : (\A p \in Admitidas : p.id # id) => leidos[id] = <<>>
    /\ en = "lectura" /\ respuestas # <<>> =>
         Last(respuestas).v = <<Leer(Aparte(pcb)[pcb.pc].mem, Instruccion.parametro1)>>
=============================================================================
