------------------------------- MODULE Enlace -------------------------------
(***************************************************************************)
(* The whole system over its sockets: the processes that the consoles'     *)
(* connections made (Recepcion) are given tables by the memory module, go  *)
(* to the CPU as PCBs, and run there instruction by instruction, with the  *)
(* CPU asking the memory for tables, frames, reads and writes in packets   *)
(* and bare integers on one socket, and they come back when they end, ask  *)
(* for I/O or are interrupted.  The memory module then frees what those    *)
(* that ended had.                                                         *)
(*                                                                         *)
(* What other modules treat is here as simple as it can be: planning is    *)
(* first come first served, a process that asks for I/O is soon ready and  *)
(* nobody is suspended (Planificador), each process may have a frame for   *)
(* each of its pages, so that none is replaced (Memoria), the TLB replaces *)
(* no entry (Tlb).  The requests of the kernel to the memory module and    *)
(* its interrupts are steps, not bytes; a send of the program arrives      *)
(* whole.                                                                  *)
(***************************************************************************)
EXTENDS Recepcion, Direcciones

CONSTANTS
    TamPagina, EntradasPorTabla, TamMemoria,
    MarcosPorProceso,  \* MARCOS_POR_PROCESO
    Estimaciones,      \* the estimates that the kernel may make, cut below 256
    Rafagas,           \* the bursts that it may measure
    Basura             \* what each byte of a fresh malloc has

ASSUME TamanosAssumption ==
    /\ TamPagina \in Nat \ {0} /\ EntradasPorTabla \in Nat \ {0}
    /\ TamMemoria \in Nat /\ TamMemoria % TamPagina = 0

\* No process has more pages than it may have frames.
ASSUME MarcosAssumption ==
    \A c \in Consolas : PagsProceso(Tamanio(c), TamPagina) <= MarcosPorProceso

ASSUME BasuraAssumption == Basura \in 0..255

ASSUME TiemposAssumption == Estimaciones \subseteq Nat /\ Rafagas \subseteq Nat

\* Each console is a connection.
ASSUME ConsolasAssumption == IsFiniteSet(Consolas)

\* The programs end, and each access is within the process and within a page.
ASSUME ProgramasAssumption ==
    \A c \in Consolas :
        /\ Programa(c) # <<>> /\ Last(Programa(c)).codigo = EXIT
        /\ \A i \in ToSet(Programa(c)) :
             \A dir \in CASE i.codigo \in {READ, WRITE} -> {i.parametro1}
                        [] i.codigo = COPY -> {i.parametro1, i.parametro2}
                        [] OTHER -> {} :
                dir + 3 < Tamanio(c) /\ (dir % TamPagina) + 3 < TamPagina

VARIABLES
    \* The kernel: colaReady, the process in the CPU, the processes in Exit.
    colaReady, colaExec, colaExit,
    \* The streams between kernel and CPU and between CPU and memory.
    dispatch, vuelta, pedidos, respuestas,
    \* The CPU.
    saludo,            \* the thread of the handshake
    configuracion,     \* configuracion_tabla, <<>> for NULL
    en,                \* where the main thread is
    pcb,               \* pcb_recibido
    fisicas,           \* the addresses of the instruction translated
    tlb,               \* pairs <<page, frame>>
    ultimo_pid,
    parar_proceso,     \* whether it is above 0
    leidos,            \* leidos[id]: the values that its READs logged
    \* The memory module.
    tablas1,           \* lista_tabla_de_pagina_1_nivel
    tablas2,           \* lista_tablas_segundo_nivel, the frame of each page or -1
    contadores,        \* the length of contador_pid
    marcos,            \* the process that each frame is marked with, or -1
    comparador,        \* the global by which marcosPid filters
    fin,               \* the thread of the kernel's requests, on an end
    usuario,           \* memoria_usuario
    caida              \* why a module ended on a NULL

nucleo == <<colaReady, colaExec, colaExit>>
canales == <<dispatch, vuelta, pedidos, respuestas>>
hiloCpu == <<en, pcb, fisicas, tlb, ultimo_pid, parar_proceso, leidos>>
cpu == <<saludo, configuracion, hiloCpu>>
memoria == <<tablas1, tablas2, contadores, marcos, comparador, fin, usuario>>
varsEnlace == <<varsRecepcion, nucleo, canales, cpu, memoria, caida>>

Ids == 0..(Cardinality(Consolas) - 1)
Marcos == 0..(TamMemoria \div TamPagina - 1)

\* No end is being served, after those of the first n of Exit.
Servidos(n) == [en |-> "libre", hechos |-> n]

InitEnlace ==
    /\ InitRecepcion
    /\ colaReady = <<>> /\ colaExec = <<>> /\ colaExit = <<>>
    /\ dispatch = <<>> /\ vuelta = <<>> /\ pedidos = <<>> /\ respuestas = <<>>
    /\ saludo = "pedir" /\ configuracion = <<>>
    /\ en = "dispatch" /\ pcb = <<>> /\ fisicas = <<>> /\ tlb = {}
    /\ ultimo_pid = -1 /\ parar_proceso = FALSE
    /\ leidos = [id \in Ids |-> <<>>]
    /\ tablas1 = <<>> /\ tablas2 = <<>> /\ contadores = 0
    /\ marcos = [f \in Marcos |-> -1] /\ comparador = 0 /\ fin = Servidos(0)
    /\ usuario = [d \in 0..(TamMemoria - 1) |-> Basura]
    /\ caida = "no"

-----------------------------------------------------------------------------
(* The kernel.                                                             *)

\* transicion_admitir_por_prioridad takes the last of New, and the memory module
\* makes its tables (INICIALIZAR_ESTRUCTURAS): one of the first level, and of the
\* second those that its pages need, numbered after those there are.
Admitir ==
    /\ colaNew # <<>> /\ fin.en = "libre"
    /\ LET p == Last(colaNew)
           n == Tp2Proceso(PagsProceso(p.tamanio, TamPagina), EntradasPorTabla)
       IN  /\ colaReady' = Append(colaReady, [p EXCEPT !.tabla = Len(tablas1)])
           /\ tablas1' = Append(tablas1, [i \in 1..n |-> Len(tablas2) + i - 1])
           /\ tablas2' = tablas2 \o [i \in 1..n |->
                [pid |-> p.id, marcos |-> [e \in 1..EntradasPorTabla |-> -1]]]
           \* list_add_in_index does nothing beyond the end of the list.
           /\ contadores' = IF p.id <= contadores THEN contadores + 1 ELSE contadores
    /\ colaNew' = Front(colaNew)
    /\ UNCHANGED <<conexion, atencion, consola, pisada, generador_de_id, colaExec, colaExit,
                   canales, cpu, marcos, comparador, fin, usuario, caida>>

\* estadoReady, and estadoExec up to enviarPcb.
Despachar ==
    /\ colaReady # <<>> /\ colaExec = <<>>
    /\ colaExec' = <<Head(colaReady)>>
    /\ colaReady' = Tail(colaReady)
    /\ dispatch' = dispatch \o EnviarPcb(Head(colaReady))
    /\ UNCHANGED <<varsRecepcion, colaExit, vuelta, pedidos, respuestas, cpu, memoria, caida>>

Medida(p, estado, e, r) == [p EXCEPT !.estado = estado, !.estimacion = e, !.rafaga = r]

\* What estadoExec makes of the PCB received: with a burst measured and an estimate
\* for the next, or, if the process was preempted, with an estimate of the rest.
\* The state of one that asked for I/O or ended is what the CPU set.
Devueltas(p) ==
    LET medidas(estado) == {Medida(p, estado, e, r) : e \in Estimaciones, r \in Rafagas}
    IN  IF p.instrucciones[p.pc].codigo \in {IO, EXIT} THEN medidas(p.estado)
        ELSE medidas(LISTO) \cup {[p EXCEPT !.estimacion = e] : e \in Estimaciones}

\* The end of estadoExec: the PCB received takes the place of the one sent.
RecibirDeCpu ==
    /\ Entera(vuelta)
    /\ \E p \in Devueltas(RecibirPcb(vuelta)) :
         IF p.instrucciones[p.pc].codigo = EXIT
         THEN colaExit' = Append(colaExit, p) /\ UNCHANGED colaReady
         ELSE colaReady' = Append(colaReady, p) /\ UNCHANGED colaExit
    /\ colaExec' = <<>>
    /\ vuelta' = Resto(vuelta)
    /\ UNCHANGED <<varsRecepcion, dispatch, pedidos, respuestas, cpu, memoria, caida>>

\* transicion_interrupcion, and the interrupt thread of the CPU.
Interrumpir ==
    /\ colaExec # <<>> /\ ~ parar_proceso
    /\ parar_proceso' = TRUE
    /\ UNCHANGED <<varsRecepcion, nucleo, canales, saludo, configuracion, en, pcb, fisicas,
                   tlb, ultimo_pid, leidos, memoria, caida>>

-----------------------------------------------------------------------------
(* The CPU: the thread of the handshake.                                   *)

\* pedir_handshake: four bytes.
PedirHandshake ==
    /\ saludo = "pedir"
    /\ pedidos' = pedidos \o Entero(HANDSHAKE)
    /\ saludo' = "esperar"
    /\ UNCHANGED <<varsRecepcion, nucleo, dispatch, vuelta, respuestas, configuracion,
                   hiloCpu, memoria, caida>>

\* conexion_inicial_memoria, recibir_handshake
RecibirHandshake ==
    /\ saludo = "esperar"
    /\ LET s == Esperada(respuestas, {PAQUETE}) IN
         /\ Entera(s)
         /\ configuracion' = [tam_pagina |-> Campos(s)[1], entradas |-> Campos(s)[2]]
         /\ respuestas' = Resto(s)
    /\ saludo' = "fin"
    /\ UNCHANGED <<varsRecepcion, nucleo, dispatch, vuelta, pedidos, hiloCpu, memoria, caida>>

-----------------------------------------------------------------------------
(* The CPU: the main thread.                                               *)

Instruccion == pcb.instrucciones[pcb.pc + 1]
DeMemoria == Instruccion.codigo \in {READ, WRITE, COPY}

\* The logical addresses, which are translated in this order.
Logicas == IF Instruccion.codigo = COPY
           THEN <<Instruccion.parametro1, Instruccion.parametro2>>
           ELSE <<Instruccion.parametro1>>

PorTraducir == en = "ciclo" /\ DeMemoria /\ Len(fisicas) < Len(Logicas)
Logica == Logicas[Len(fisicas) + 1]

\* Mistake: the TLB is never emptied.
TlbSinVaciar(id) == tlb

TlbPara(id) == IF ultimo_pid # id THEN {} ELSE tlb

\* PCB received.
RecibirProceso ==
    /\ en = "dispatch"
    /\ LET s == Esperada(dispatch, {PCB}) IN
         /\ Entera(s)
         /\ pcb' = RecibirPcb(s)
         /\ dispatch' = Resto(s)
    /\ tlb' = TlbPara(pcb'.id)
    /\ parar_proceso' = FALSE
    /\ en' = "ciclo"
    /\ UNCHANGED <<varsRecepcion, nucleo, vuelta, pedidos, respuestas, saludo, configuracion,
                   fisicas, ultimo_pid, leidos, memoria, caida>>

\* The end of the cycle: the instruction left the process as p, and asks for it to
\* leave the CPU or not; the interrupt flag is looked at.
FinDeInstruccion(p, parar) ==
    LET q == [p EXCEPT !.pc = @ + 1] IN
    /\ fisicas' = <<>>
    /\ pcb' = q
    /\ IF parar \/ parar_proceso
       THEN en' = "dispatch" /\ vuelta' = vuelta \o EnviarPcb(q) /\ ultimo_pid' = p.id
       ELSE en' = "ciclo" /\ UNCHANGED <<vuelta, ultimo_pid>>

\* ejecutarNO_OP, ejecutarIO, ejecutarEXIT.  What the last two add to parar_proceso
\* is looked at once, in checkInterrupt, and erased by the next PCB.
Ejecutar ==
    /\ en = "ciclo" /\ ~ DeMemoria
    /\ CASE Instruccion.codigo = NO_OP -> FinDeInstruccion(pcb, FALSE)
         [] Instruccion.codigo = IO ->
              FinDeInstruccion([pcb EXCEPT !.bloqueo = Instruccion.parametro1,
                                           !.estado = BLOQUEADO], TRUE)
         [] Instruccion.codigo = EXIT ->
              FinDeInstruccion([pcb EXCEPT !.estado = FINALIZADO], TRUE)
    /\ UNCHANGED <<varsRecepcion, nucleo, dispatch, pedidos, respuestas, saludo,
                   configuracion, tlb, parar_proceso, leidos, memoria, caida>>

\* traducir_dir_logica, when the page is in the TLB.
Acertar ==
    /\ PorTraducir /\ configuracion # <<>>
    /\ \E t \in tlb :
         /\ t[1] = NumPagina(configuracion, Logica)
         /\ fisicas' = Append(fisicas, DireccionFisica(configuracion, t[2], Logica))
    /\ UNCHANGED <<varsRecepcion, nucleo, canales, saludo, configuracion, en, pcb, tlb,
                   ultimo_pid, parar_proceso, leidos, memoria, caida>>

\* obtener_segunda_tabla: the request.
PedirTabla ==
    /\ PorTraducir /\ configuracion # <<>>
    /\ \A t \in tlb : t[1] # NumPagina(configuracion, Logica)
    /\ pedidos' = pedidos \o Paquete(TABLA,
            <<pcb.tabla, EntradaTabla1(configuracion, Logica)>>)
    /\ en' = "tabla"
    /\ UNCHANGED <<varsRecepcion, nucleo, dispatch, vuelta, respuestas, saludo,
                   configuracion, pcb, fisicas, tlb, ultimo_pid, parar_proceso, leidos,
                   memoria, caida>>

\* The handshake has not been answered: configuracion_tabla is NULL.
TraducirSinHandshake ==
    /\ PorTraducir /\ configuracion = <<>>
    /\ caida' = "configuracion_tabla"
    /\ UNCHANGED <<varsRecepcion, nucleo, canales, cpu, memoria>>

\* The bare integer that answers TABLA, and obtener_marco: the request.
RecibirTabla ==
    /\ en = "tabla" /\ respuestas # <<>>
    /\ respuestas' = Luego(respuestas, 4)
    /\ pedidos' = pedidos \o Paquete(MARCO,
            <<Head(respuestas).v[1], EntradaTabla2(configuracion, Logica)>>)
    /\ en' = "marco"
    /\ UNCHANGED <<varsRecepcion, nucleo, dispatch, vuelta, saludo, configuracion, pcb,
                   fisicas, tlb, ultimo_pid, parar_proceso, leidos, memoria, caida>>

\* obtener_marco: the answer, and tlb_miss.
RecibirMarco ==
    /\ en = "marco"
    /\ LET s == Esperada(respuestas, {MARCO})
           marco == Campos(s)[1]
       IN  /\ Entera(s)
           /\ respuestas' = Resto(s)
           /\ tlb' = tlb \cup {<<NumPagina(configuracion, Logica), marco>>}
           /\ fisicas' = Append(fisicas, DireccionFisica(configuracion, marco, Logica))
    /\ en' = "ciclo"
    /\ UNCHANGED <<varsRecepcion, nucleo, dispatch, vuelta, pedidos, saludo, configuracion,
                   pcb, ultimo_pid, parar_proceso, leidos, memoria, caida>>

\* ejecutarREAD, ejecutarWRITE, ejecutarCOPY: the request.
PedirInstruccion ==
    /\ en = "ciclo" /\ DeMemoria /\ Len(fisicas) = Len(Logicas)
    /\ LET valor == IF Instruccion.codigo = WRITE THEN <<Instruccion.parametro2>> ELSE <<>>
           campos == <<Instruccion.codigo>> \o fisicas \o valor
       IN  pedidos' = pedidos \o Paquete(INSTRUCCION_MEMORIA, campos)
    /\ en' = IF Instruccion.codigo = READ THEN "lectura" ELSE "escritura"
    /\ UNCHANGED <<varsRecepcion, nucleo, dispatch, vuelta, respuestas, saludo,
                   configuracion, pcb, fisicas, tlb, ultimo_pid, parar_proceso, leidos,
                   memoria, caida>>

\* The answer of a READ is a packet.
RecibirLectura ==
    /\ en = "lectura"
    /\ LET s == Esperada(respuestas, {PAQUETE}) IN
         /\ Entera(s)
         /\ respuestas' = Resto(s)
         /\ leidos' = [leidos EXCEPT ![pcb.id] = Append(@, Campos(s)[1])]
    /\ FinDeInstruccion(pcb, FALSE)
    /\ UNCHANGED <<varsRecepcion, nucleo, dispatch, pedidos, saludo, configuracion, tlb,
                   parar_proceso, memoria, caida>>

\* Mistake: the code is taken as that of a packet, in one byte.
CodigoDeUnByte(s) == Luego(s, 1)

\* recibir_datos of an op_code
SinCodigo(s) == Luego(s, 4)

\* That of a WRITE or a COPY is a code, which only the log distinguishes.
RecibirEscritura ==
    /\ en = "escritura" /\ respuestas # <<>>
    /\ respuestas' = SinCodigo(respuestas)
    /\ FinDeInstruccion(pcb, FALSE)
    /\ UNCHANGED <<varsRecepcion, nucleo, dispatch, pedidos, saludo, configuracion, tlb,
                   parar_proceso, leidos, memoria, caida>>

HiloCpu ==
    \/ RecibirProceso \/ Ejecutar
    \/ Acertar \/ PedirTabla \/ TraducirSinHandshake \/ RecibirTabla \/ RecibirMarco
    \/ PedirInstruccion \/ RecibirLectura \/ RecibirEscritura

-----------------------------------------------------------------------------
(* The memory module: the thread of the CPU.                               *)

\* Mistake: an operation that it does not know stays where it is.
PedidoSinIgnorar == pedidos

\* manejo_conexiones ignores what it does not know, the last three bytes of the
\* handshake among it.
Pedido == Esperada(pedidos, {HANDSHAKE, TABLA, MARCO, INSTRUCCION_MEMORIA})

MemHandshake ==
    /\ Pedido # <<>> /\ Head(Pedido) = Byte(HANDSHAKE)
    /\ pedidos' = Tail(Pedido)
    /\ respuestas' = respuestas \o
            Paquete(PAQUETE, <<TamPagina, EntradasPorTabla>>)
    /\ UNCHANGED <<varsRecepcion, nucleo, dispatch, vuelta, cpu, memoria, caida>>

Llega(codigo) ==
    /\ Pedido # <<>> /\ Head(Pedido) = Byte(codigo)
    /\ Entera(Pedido)
    /\ pedidos' = Resto(Pedido)

\* devolver_entrada_a_segunda_tabla
MemTabla ==
    /\ Llega(TABLA)
    /\ LET v == Campos(Pedido)
       IN  respuestas' = respuestas \o Entero(tablas1[v[1] + 1][v[2] + 1])
    /\ UNCHANGED <<varsRecepcion, nucleo, dispatch, vuelta, cpu, memoria, caida>>

Libres == {f \in Marcos : marcos[f] = -1}
PrimerLibre == CHOOSE f \in Libres : \A g \in Libres : f <= g

\* devolver_marco: the frame of the page, or the first that is free, with the page
\* as the swap file has it, which is empty.  Without an entry in contador_pid, or
\* without a free frame, a NULL is used.
MemMarco ==
    /\ Llega(MARCO)
    /\ LET v == Campos(Pedido)
           t == tablas2[v[1] + 1]
           suyo == t.marcos[v[2] + 1]
           marco == IF suyo = -1 THEN PrimerLibre ELSE suyo
           nulo == IF t.pid >= contadores THEN "contador_pid"
                   ELSE IF Libres = {} THEN "marcos" ELSE "no"
       IN  IF suyo = -1 /\ nulo # "no"
           THEN caida' = nulo
                /\ UNCHANGED <<respuestas, tablas2, marcos, comparador, usuario>>
           ELSE /\ respuestas' = respuestas \o Paquete(MARCO, <<marco>>)
                /\ tablas2' = [tablas2 EXCEPT ![v[1] + 1].marcos[v[2] + 1] = marco]
                /\ marcos' = IF suyo = -1 THEN [marcos EXCEPT ![marco] = t.pid] ELSE marcos
                /\ comparador' = IF suyo = -1 THEN t.pid ELSE comparador
                /\ usuario' = [d \in DOMAIN usuario |->
                        IF suyo = -1 /\ d \div TamPagina = marco THEN 0 ELSE usuario[d]]
                /\ UNCHANGED caida
    /\ UNCHANGED <<varsRecepcion, nucleo, dispatch, vuelta, cpu, tablas1, contadores,
                   fin>>

\* leer_de_memoria: four bytes, the low one first.
Leer(mem, dir) ==
    mem[dir] + 256 * mem[dir + 1] + 65536 * mem[dir + 2] + 16777216 * mem[dir + 3]

\* escribirEn, within the memory
Escribir(mem, dir, valor) ==
    [d \in DOMAIN mem |->
        IF d \in dir..(dir + 3) THEN (valor \div 256 ^ (d - dir)) % 256 ELSE mem[d]]

\* manejo_instrucciones
MemInstruccion ==
    /\ Llega(INSTRUCCION_MEMORIA)
    /\ LET v == Campos(Pedido)
           valor == IF v[1] = COPY THEN Leer(usuario, v[3]) ELSE v[3]
       IN  IF v[1] = READ
           THEN /\ respuestas' = respuestas \o Paquete(PAQUETE, <<Leer(usuario, v[2])>>)
                /\ UNCHANGED usuario
           ELSE IF v[2] > TamMemoria
                THEN respuestas' = respuestas \o Entero(ESCRITURA_ERROR) /\ UNCHANGED usuario
                ELSE /\ usuario' = Escribir(usuario, v[2], valor)
                     /\ respuestas' = respuestas \o Entero(ESCRITURA_OK)
    /\ UNCHANGED <<varsRecepcion, nucleo, dispatch, vuelta, cpu, tablas1, tablas2, contadores,
                   marcos, comparador, fin, caida>>

HiloMemoria == MemHandshake \/ MemTabla \/ MemMarco \/ MemInstruccion

-----------------------------------------------------------------------------
(* The memory module: the thread of the kernel, on the end of a process.   *)

\* liberarTodosLosMarcos: the list of marcosPid does not depend on its argument.
\* Memoria frees its frames one by one.
Finalizar ==
    /\ fin.en = "libre" /\ fin.hechos < Len(colaExit)
    /\ marcos' = [f \in Marcos |-> IF marcos[f] = comparador THEN -1 ELSE marcos[f]]
    /\ fin' = [fin EXCEPT !.en = "limpiar"]
    /\ UNCHANGED <<varsRecepcion, nucleo, canales, cpu, tablas1, tablas2, contadores,
                   comparador, usuario, caida>>

\* The frames of the pages of process id
DePaginas(id) == UNION {ToSet(t.marcos) : t \in {u \in ToSet(tablas2) : u.pid = id}}

\* liberarMemoriaUsuario, what a fresh malloc left on the frames of its pages, which
\* may be another's by now; the answer; and its counters, which may be NULL.
Limpiar ==
    LET id == colaExit[fin.hechos + 1].id IN
    /\ fin.en = "limpiar"
    /\ usuario' = [d \in DOMAIN usuario |->
            IF d \div TamPagina \in DePaginas(id) THEN Basura ELSE usuario[d]]
    /\ fin' = Servidos(fin.hechos + 1)
    /\ caida' = IF id >= contadores THEN "contador_pid" ELSE caida
    /\ UNCHANGED <<varsRecepcion, nucleo, canales, cpu, tablas1, tablas2, contadores,
                   marcos, comparador>>

HiloFin == Finalizar \/ Limpiar

-----------------------------------------------------------------------------
(* Specification.                                                          *)

HiloConsola(c) ==
    (EnviarConsola(c) \/ Atender(c)) /\ UNCHANGED <<nucleo, canales, cpu, memoria, caida>>

Saludo == PedirHandshake \/ RecibirHandshake

Nucleo == Admitir \/ Despachar \/ RecibirDeCpu

NextEnlace ==
    /\ caida = "no"
    /\ (\E c \in Consolas : HiloConsola(c)) \/ Nucleo \/ Interrumpir
       \/ Saludo \/ HiloCpu \/ HiloMemoria \/ HiloFin

\* Every thread goes on while it can; nothing obliges the kernel to interrupt.
SpecEnlace ==
    /\ InitEnlace /\ [][NextEnlace]_varsEnlace
    /\ \A c \in Consolas : WF_varsEnlace(caida = "no" /\ HiloConsola(c))
    /\ WF_varsEnlace(caida = "no" /\ Nucleo)
    /\ WF_varsEnlace(caida = "no" /\ Saludo)
    /\ WF_varsEnlace(caida = "no" /\ HiloCpu)
    /\ WF_varsEnlace(caida = "no" /\ HiloMemoria)
    /\ WF_varsEnlace(caida = "no" /\ HiloFin)

-----------------------------------------------------------------------------
(* Properties.                                                             *)

\* The PCB as it was made for the process.
Original(id) == atencion[CHOOSE c \in Creadas : atencion[c].pcb.id = id].pcb

\* One instruction on a memory r.mem of the process's own.
Paso(r, i) ==
    CASE i.codigo = READ ->
           [r EXCEPT !.leidos = Append(@, Leer(r.mem, i.parametro1))]
      [] i.codigo = WRITE ->
           [r EXCEPT !.mem = Escribir(@, i.parametro1, i.parametro2)]
      [] i.codigo = COPY ->
           [r EXCEPT !.mem = Escribir(@, i.parametro1, Leer(@, i.parametro2))]
      [] OTHER -> r

\* A program run alone: after each instruction, its memory and what it read.
Solo(tamanio, programa) ==
    LET tras[k \in 0..Len(programa)] ==
          IF k = 0 THEN [mem |-> [d \in 0..(tamanio - 1) |-> 0], leidos |-> <<>>]
                   ELSE Paso(tras[k - 1], programa[k])
    IN  tras
Aparte(p) == Solo(p.tamanio, p.instrucciones)

\* The PCBs of the kernel and that of the CPU.
EnElNucleo == ToSet(colaReady \o colaExec \o colaExit)
EnLaCpu == IF en = "dispatch" THEN {} ELSE {pcb}

\* Until the memory module begins to free what a process that ended had, and with
\* nobody suspended and no page replaced, every READ gives what it would if the
\* process ran alone, whatever the order of admission, the interrupts and the
\* processes in between: its addresses go through two tables, the TLB and four kinds
\* of answer on one stream to its own bytes.
SinFines == fin = Servidos(0)
LecturaEsperada ==
    SinFines => \A p \in EnLaCpu \cup ToSet(colaReady \o colaExit) :
        leidos[p.id] = Aparte(p)[p.pc].leidos

\* A PCB keeps its identifier, its size and its program through its trips between
\* kernel and CPU.  The CPU changes the program counter, the state and the time of
\* its I/O, the kernel the rest: in the CPU it has the table, the estimate and the
\* burst that the kernel last gave it.
Fijo(p) == [p EXCEPT !.pc = 0, !.estado = 0, !.bloqueo = 0, !.tabla = 0,
                     !.estimacion = 0, !.rafaga = 0]
DelNucleo(p) == <<p.tabla, p.estimacion, p.rafaga>>
PcbFiel ==
    /\ \A p \in EnElNucleo \cup EnLaCpu : Fijo(p) = Fijo(Original(p.id))
    /\ \A p \in EnLaCpu : DelNucleo(p) = DelNucleo(Head(colaExec))

\* The streams never get out of step: when the main thread waits for nothing from
\* the memory, nothing waits for it, and what waits there when it does is what
\* answers its request.
CanalesEnOrden ==
    /\ en \in {"dispatch", "ciclo"} /\ saludo = "fin" => respuestas = <<>>
    /\ en \in {"tabla", "escritura"} => Len(respuestas) \in {0, 4}
    /\ en \in {"marco", "lectura"} => respuestas = <<>> \/ (Entera(respuestas) /\ Resto(respuestas) = <<>>)

\* Every console's process ends and its end is served, however it is interrupted,
\* unless one of the NULLs that are named is used.
TodosTerminan == <>(caida # "no" \/ fin.hechos = Cardinality(Consolas))
=============================================================================
