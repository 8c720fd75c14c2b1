---------------------------- MODULE Planificador ----------------------------
(***************************************************************************)
(* The process scheduler of the kernel: the six planner threads created by *)
(* iniciar_planificador_{largo,corto,mediano}_plazo, the thread that each  *)
(* console connection gets, and what those threads see of the CPU          *)
(* (dispatch and interrupt sockets) and of the memory module (one socket), *)
(* which may die: it looks its counters up by identifier and dereferences  *)
(* what it finds.                                                          *)
(*                                                                         *)
(* One step is one critical section, one sem_wait, one sem_post, one send  *)
(* or one receive; code between two of them only touches the process the   *)
(* thread holds and belongs to the step before it.  hilo[t].en is the next *)
(* step of thread t, hilo[t].p the process it holds.                       *)
(***************************************************************************)
EXTENDS Integers, Sequences, FiniteSets

CONSTANTS
    Procesos,      \* the processes that consoles bring to the kernel
    Nadie,         \* "no process"
    Identificador, \* id_proceso, taken by crear_estructura_pcb before the
                   \* console's thread adds to New: any order is possible
    Programa,      \* the instructions of each process
    Grado,         \* GRADO_MULTIPROGRAMACION
    Algoritmo,     \* ALGORITMO_PLANIFICACION
    Estimaciones   \* the values an estimation may take: \alpha-averages of
                   \* measured times, so any value may follow any other

\* NO_OP stands for NO_OP, READ, WRITE and COPY: the kernel's default case.
Instrucciones == {"NO_OP", "IO", "EXIT"}

ASSUME NadieAssumption == Nadie \notin Procesos
ASSUME ProcesosAssumption == IsFiniteSet(Procesos)
ASSUME IdentificadorAssumption == Identificador \in [Procesos -> Nat]
ASSUME ProgramaAssumption == Programa \in [Procesos -> Seq(Instrucciones)]
ASSUME GradoAssumption == Grado \in Nat \ {0}
ASSUME AlgoritmoAssumption == Algoritmo \in {"FIFO", "SRT"}
ASSUME EstimacionesAssumption == Estimaciones \subseteq Int /\ Estimaciones # {}

VARIABLES
    cola,          \* the lists colaNew, colaReady, ... of the planners
    sem,           \* the semaphores
    hilo,          \* program counter and held process of each planner thread
    cliente,       \* program counter of the thread of each console
    interrupcion,  \* the global flag of the same name
    pcb,           \* program counter, estimation and page table of each pcb
    cpu,           \* the CPU module and the two sockets to it
    memoria,       \* socket_memoria and what the memory module holds
    finalizadas    \* the processes whose console got FINALIZAR_CONSOLA

vars == <<cola, sem, hilo, cliente, interrupcion, pcb, cpu, memoria, finalizadas>>

Colas == {"new", "ready", "exec", "blocked", "suspBlocked", "suspReady", "exit"}
Semaforos == {"admitir", "grado", "ready", "exec", "desalojo", "blocked",
              "suspReady", "exit"}

\* The steps at which a thread holds no process, and those at which it does.
SinProceso ==
    [admitir   |-> {"inicio", "grado", "mirar", "sacar"},
     finalizar |-> {"inicio", "sacar"},
     ready     |-> {"inicio", "desalojo", "mirar", "contar", "elegir", "indefinido"},
     exec      |-> {"inicio", "tomar"},
     blocked   |-> {"inicio", "sacar"},
     suspReady |-> {"inicio", "sacar"}]

ConProceso ==
    [admitir   |-> {"pedir", "esperar", "a_ready", "ver_exec", "marcar", "mensaje",
                    "post_ready"},
     finalizar |-> {"pedir", "esperar", "avisar", "post_grado"},
     ready     |-> {"a_exec", "post_exec"},
     exec      |-> {"despachar", "recibir", "decidir", "d_ready", "d_sacar",
                    "d_bajar", "d_post", "bajar", "post_desalojo", "sacar",
                    "encolar", "post_cola", "post_extra"},
     blocked   |-> {"decidir", "io_antes", "pedir", "esperar", "a_susp",
                    "post_grado", "io_resto", "post_susp", "io", "a_ready",
                    "ver_exec", "marcar", "mensaje", "post_ready"},
     suspReady |-> {"a_susp", "post_admitir"}]

Hilos == DOMAIN SinProceso
Pasos == UNION {SinProceso[t] \cup ConProceso[t] : t \in Hilos}
Pedidos == [op: {"INICIALIZAR_ESTRUCTURAS", "PCB", "SUSPENDER_PROCESO"}, p: Procesos]

SemaforosInit ==
    [s \in Semaforos |-> CASE s = "grado" -> Grado [] s = "desalojo" -> 1 [] OTHER -> 0]

Init ==
    /\ cola = [c \in Colas |-> <<>>]
    /\ sem = SemaforosInit
    /\ hilo = [t \in Hilos |-> [en |-> "inicio", p |-> Nadie]]
    /\ cliente = [p \in Procesos |-> "inicio"]
    /\ interrupcion = FALSE
    /\ \E e \in Estimaciones :
         pcb = [p \in Procesos |-> [pc |-> 0, est |-> e, tabla |-> Nadie]]
    /\ cpu = [en |-> "libre", p |-> Nadie, parar |-> 0, mensajes |-> 0]
    /\ memoria = [pedidos |-> <<>>, respuestas |-> <<>>, estructuras |-> {},
                  contadores |-> 0, estado |-> "viva"]
    /\ finalizadas = {}

-----------------------------------------------------------------------------
(* What the steps have in common.                                          *)

En(t, l) == hilo[t].en = l

\* Thread t goes on to step l; back at the top of its loop it holds nothing.
Sigue(t, l) ==
    hilo' = [hilo EXCEPT ![t] = [en |-> l, p |-> IF l = "inicio" THEN Nadie ELSE @.p]]

Toma(t, p, l) == hilo' = [hilo EXCEPT ![t] = [en |-> l, p |-> p]]

\* sem_wait(s), sem_post(s).
Wait(t, l, s, m) ==
    /\ En(t, l)
    /\ sem[s] > 0
    /\ sem' = [sem EXCEPT ![s] = @ - 1]
    /\ Sigue(t, m)
    /\ UNCHANGED <<cola, cliente, interrupcion, pcb, cpu, memoria, finalizadas>>

Post(t, l, s, m) ==
    /\ En(t, l)
    /\ sem' = [sem EXCEPT ![s] = @ + 1]
    /\ Sigue(t, m)
    /\ UNCHANGED <<cola, cliente, interrupcion, pcb, cpu, memoria, finalizadas>>

\* list_add of the held process; list_remove of the first and of the last.
Agregar(t, l, c, m) ==
    /\ En(t, l)
    /\ cola' = [cola EXCEPT ![c] = Append(@, hilo[t].p)]
    /\ Sigue(t, m)
    /\ UNCHANGED <<sem, cliente, interrupcion, pcb, cpu, memoria, finalizadas>>

Ultimo(c) == cola[c][Len(cola[c])]
SinUltimo(c) == SubSeq(cola[c], 1, Len(cola[c]) - 1)

QuitarPrimero(t, l, c, m) ==
    /\ En(t, l)
    /\ cola[c] # <<>>
    /\ cola' = [cola EXCEPT ![c] = Tail(@)]
    /\ Toma(t, Head(cola[c]), m)
    /\ UNCHANGED <<sem, cliente, interrupcion, pcb, cpu, memoria, finalizadas>>

QuitarUltimo(t, l, c, m) ==
    /\ En(t, l)
    /\ cola[c] # <<>>
    /\ cola' = [cola EXCEPT ![c] = SinUltimo(c)]
    /\ Toma(t, Ultimo(c), m)
    /\ UNCHANGED <<sem, cliente, interrupcion, pcb, cpu, memoria, finalizadas>>

\* A step that only moves thread t on: a test, a sleep.
Pasar(t, l, m) ==
    /\ En(t, l)
    /\ Sigue(t, m)
    /\ UNCHANGED <<cola, sem, cliente, interrupcion, pcb, cpu, memoria, finalizadas>>

MemoriaViva == memoria.estado = "viva"

\* A request on socket_memoria.  With the memory module dead what is sent is
\* lost, or the sender gets SIGPIPE and dies.
Pedir(t, l, op, m) ==
    /\ En(t, l)
    /\ memoria' \in
         IF MemoriaViva
         THEN {[memoria EXCEPT !.pedidos = Append(@, [op |-> op, p |-> hilo[t].p])]}
         ELSE {memoria, [memoria EXCEPT !.estado = "rota"]}
    /\ Sigue(t, m)
    /\ UNCHANGED <<cola, sem, cliente, interrupcion, pcb, cpu, finalizadas>>

\* A receive on socket_memoria: no mutex and no identifier ties the answer to
\* the request, so the thread that reads next takes whatever came first.  What
\* a dead memory module sent can still be read; then recv returns 0 at once and
\* leaves the variable as it was.
RecibirRespuesta(t, l, m) ==
    /\ En(t, l)
    /\ \/ /\ memoria.respuestas # <<>>
          /\ memoria' = [memoria EXCEPT !.respuestas = Tail(@)]
       \/ /\ memoria.respuestas = <<>> /\ ~ MemoriaViva
          /\ UNCHANGED memoria
    /\ Sigue(t, m)
    /\ UNCHANGED <<cola, sem, cliente, interrupcion, cpu, finalizadas>>

-----------------------------------------------------------------------------
(* The thread of a console: manejar_conexion -> agregarANewPcb.            *)

ClienteAgregar(p) ==
    /\ cliente[p] = "inicio"
    /\ cliente' = [cliente EXCEPT ![p] = "post_admitir"]
    /\ cola' = [cola EXCEPT !["new"] = Append(@, p)]
    /\ UNCHANGED <<sem, hilo, interrupcion, pcb, cpu, memoria, finalizadas>>

ClientePost(p) ==
    /\ cliente[p] = "post_admitir"
    /\ cliente' = [cliente EXCEPT ![p] = "fin"]
    /\ sem' = [sem EXCEPT !["admitir"] = @ + 1]
    /\ UNCHANGED <<cola, hilo, interrupcion, pcb, cpu, memoria, finalizadas>>

Cliente(p) == ClienteAgregar(p) \/ ClientePost(p)

-----------------------------------------------------------------------------
(* transicion_interrupcion, called by two threads after they add to Ready. *)

HayQueInterrumpir == Algoritmo = "SRT" /\ cola["exec"] # <<>>

VerExec(t) == Pasar(t, "ver_exec", IF HayQueInterrumpir THEN "marcar" ELSE "post_ready")

Marcar(t) ==
    /\ En(t, "marcar")
    /\ interrupcion' = TRUE
    /\ Sigue(t, "mensaje")
    /\ UNCHANGED <<cola, sem, cliente, pcb, cpu, memoria, finalizadas>>

Mensaje(t) ==
    /\ En(t, "mensaje")
    /\ cpu' = [cpu EXCEPT !.mensajes = @ + 1]
    /\ Sigue(t, "post_ready")
    /\ UNCHANGED <<cola, sem, cliente, interrupcion, pcb, memoria, finalizadas>>

PostReady(t) == Post(t, "post_ready", "ready", "inicio")

TransicionInterrupcion(t) == VerExec(t) \/ Marcar(t) \/ Mensaje(t) \/ PostReady(t)

-----------------------------------------------------------------------------
(* Long term: transicion_admitir_por_prioridad and finalizarPcb.           *)

AdmitirEsperar == Wait("admitir", "inicio", "admitir", "grado")
\* Mistake: the thread does not wait for sem_grado_multiprogramacion.
AdmitirGradoSinEsperar == Pasar("admitir", "grado", "mirar")

AdmitirGrado == Wait("admitir", "grado", "grado", "mirar")

AdmitirSuspendido == QuitarUltimo("admitir", "mirar", "suspReady", "a_ready")
\* Mistake: New is served without looking at Suspended-Ready first.
AdmitirSinMirar == Pasar("admitir", "mirar", "sacar")

AdmitirSinSuspendidos ==
    cola["suspReady"] = <<>> /\ Pasar("admitir", "mirar", "sacar")

AdmitirNuevo == QuitarUltimo("admitir", "sacar", "new", "pedir")
AdmitirPedirTabla == Pedir("admitir", "pedir", "INICIALIZAR_ESTRUCTURAS", "esperar")

\* The table number that an answer, or none, leaves in the receiver.
Tabla(s) ==
    IF s # <<>> /\ Head(s).op = "INICIALIZAR_ESTRUCTURAS" THEN Head(s).p ELSE Nadie

\* Whatever four bytes arrive become valor_tabla_paginas.
AdmitirTabla ==
    /\ RecibirRespuesta("admitir", "esperar", "a_ready")
    /\ pcb' = [pcb EXCEPT ![hilo["admitir"].p].tabla = Tabla(memoria.respuestas)]

AdmitirAgregar == Agregar("admitir", "a_ready", "ready", "ver_exec")

Admitir ==
    \/ AdmitirEsperar \/ AdmitirGrado \/ AdmitirSuspendido \/ AdmitirSinSuspendidos
    \/ AdmitirNuevo \/ AdmitirPedirTabla \/ AdmitirTabla \/ AdmitirAgregar
    \/ TransicionInterrupcion("admitir")

FinalizarEsperar == Wait("finalizar", "inicio", "exit", "sacar")
\* Mistake: the result of list_remove is dropped.
FinalizarSinProceso ==
    cola["exit"] # <<>> /\ Pasar("finalizar", "sacar", "pedir")

FinalizarSacar == QuitarPrimero("finalizar", "sacar", "exit", "pedir")
FinalizarPedir == Pedir("finalizar", "pedir", "PCB", "esperar")

\* A code other than ESTRUCTURAS_LIBERADAS is logged and nothing else.
FinalizarRespuesta ==
    RecibirRespuesta("finalizar", "esperar", "avisar") /\ UNCHANGED pcb

FinalizarAvisar ==
    /\ En("finalizar", "avisar")
    /\ finalizadas' = finalizadas \cup {hilo["finalizar"].p}
    /\ Sigue("finalizar", "post_grado")
    /\ UNCHANGED <<cola, sem, cliente, interrupcion, pcb, cpu, memoria>>

FinalizarGrado == Post("finalizar", "post_grado", "grado", "inicio")

Finalizar ==
    \/ FinalizarEsperar \/ FinalizarSacar \/ FinalizarPedir \/ FinalizarRespuesta
    \/ FinalizarAvisar \/ FinalizarGrado

-----------------------------------------------------------------------------
(* Short term: estadoReady.                                                *)

ReadyEsperar ==
    Wait("ready", "inicio", "ready", IF Algoritmo = "SRT" THEN "desalojo" ELSE "mirar")
ReadyDesalojo == Wait("ready", "desalojo", "desalojo", "mirar")
ReadyMirar == Pasar("ready", "mirar", IF cola["ready"] = <<>> THEN "inicio" ELSE "contar")

\* Mistake: the bound on Exec is one too low.
HayCupoMenosUno == cola["ready"] # <<>> /\ Len(cola["exec"]) < Grado - 1

\* obtenerSiguienteReady: without room in Exec no process is selected and the
\* pointer it returns was never assigned.
HayCupo == cola["ready"] # <<>> /\ Len(cola["exec"]) < Grado
ReadyContar == Pasar("ready", "contar", IF HayCupo THEN "elegir" ELSE "indefinido")

\* elegirElDeMenorEstimacion: the first of the smallest estimations.
MenorEstimacion(s, i) ==
    \A j \in 1..Len(s) : /\ pcb[s[i]].est <= pcb[s[j]].est
                         /\ j < i => pcb[s[i]].est < pcb[s[j]].est

\* Mistake: FIFO takes the last of Ready.
ElegidoUltimo(s, i) == IF Algoritmo = "SRT" THEN MenorEstimacion(s, i) ELSE i = Len(s)

Elegido(s, i) == IF Algoritmo = "SRT" THEN MenorEstimacion(s, i) ELSE i = 1

\* Mistake: the chosen process stays in Ready (list_get).
QuitarNada(s, i) == s

Quitar(s, i) == SubSeq(s, 1, i - 1) \o SubSeq(s, i + 1, Len(s))

\* Nobody else removes from Ready, and what is added meanwhile goes to its end:
\* the scan and the removal are one step.
ReadyElegir ==
    /\ En("ready", "elegir")
    /\ \E i \in 1..Len(cola["ready"]) :
         /\ Elegido(cola["ready"], i)
         /\ Toma("ready", cola["ready"][i], "a_exec")
         /\ cola' = [cola EXCEPT !["ready"] = Quitar(@, i)]
    /\ UNCHANGED <<sem, cliente, interrupcion, pcb, cpu, memoria, finalizadas>>

ReadyAgregar == Agregar("ready", "a_exec", "exec", "post_exec")

ReadyPost == Post("ready", "post_exec", "exec", "inicio")

Ready ==
    \/ ReadyEsperar \/ ReadyDesalojo \/ ReadyMirar \/ ReadyContar \/ ReadyElegir
    \/ ReadyAgregar \/ ReadyPost

-----------------------------------------------------------------------------
(* Short term: estadoExec.                                                 *)

ExecEsperar == Wait("exec", "inicio", "exec", "tomar")

\* list_get: the process stays in Exec while the CPU has it.
ExecTomar ==
    /\ En("exec", "tomar")
    /\ cola["exec"] # <<>>
    /\ Toma("exec", Head(cola["exec"]), "despachar")
    /\ UNCHANGED <<cola, sem, cliente, interrupcion, pcb, cpu, memoria, finalizadas>>

ExecDespachar ==
    /\ En("exec", "despachar")
    /\ cpu' = [cpu EXCEPT !.en = "recibir", !.p = hilo["exec"].p]
    /\ Sigue("exec", "recibir")
    /\ UNCHANGED <<cola, sem, cliente, interrupcion, pcb, memoria, finalizadas>>

ExecRecibir ==
    /\ En("exec", "recibir")
    /\ cpu.en = "devuelto"
    /\ cpu' = [cpu EXCEPT !.en = "libre", !.p = Nadie]
    /\ Sigue("exec", "decidir")
    /\ UNCHANGED <<cola, sem, cliente, interrupcion, pcb, memoria, finalizadas>>

\* The instruction before the program counter: the last one executed.
UltimaInstruccion(p) == Programa[p][pcb[p].pc]

Desalojado(p) == interrupcion /\ UltimaInstruccion(p) \notin {"IO", "EXIT"}

Estimar(p) == \E e \in Estimaciones : pcb' = [pcb EXCEPT ![p].est = e]

ExecDesalojar ==
    /\ En("exec", "decidir")
    /\ Desalojado(hilo["exec"].p)
    /\ Estimar(hilo["exec"].p)
    /\ Sigue("exec", "d_ready")
    /\ UNCHANGED <<cola, sem, cliente, interrupcion, cpu, memoria, finalizadas>>

ExecNoDesalojar ==
    /\ En("exec", "decidir")
    /\ ~ Desalojado(hilo["exec"].p)
    /\ Pasar("exec", "decidir", "bajar")

\* procesoAux = list_remove(colaExec, 0): the thread goes on with `proceso'.
SacarDeExec == cola["exec"] # <<>> /\ cola' = [cola EXCEPT !["exec"] = Tail(@)]

BajarInterrupcion(l, m) ==
    /\ En("exec", l)
    /\ interrupcion' = FALSE
    /\ Sigue("exec", m)
    /\ UNCHANGED <<cola, sem, cliente, pcb, cpu, memoria, finalizadas>>

\* A preempted process is back in Ready before it leaves Exec, and sem_ready
\* is not posted for it.
DesalojoAReady == Agregar("exec", "d_ready", "ready", "d_sacar")
\* Mistake: sem_exec is posted for a process that left Exec.
DesalojoPostExec == Post("exec", "d_post", "exec", "inicio")

DesalojoSacar ==
    /\ En("exec", "d_sacar")
    /\ SacarDeExec
    /\ Sigue("exec", "d_bajar")
    /\ UNCHANGED <<sem, cliente, interrupcion, pcb, cpu, memoria, finalizadas>>
DesalojoBajar == BajarInterrupcion("d_bajar", "d_post")
DesalojoPost == Post("exec", "d_post", "desalojo", "inicio")

ExecBajar == BajarInterrupcion("bajar", "post_desalojo")
ExecPostDesalojo == Post("exec", "post_desalojo", "desalojo", "sacar")

\* calculoEstimacionProceso, then list_remove(colaExec, 0).
ExecSacar ==
    /\ En("exec", "sacar")
    /\ Estimar(hilo["exec"].p)
    /\ SacarDeExec
    /\ Sigue("exec", "encolar")
    /\ UNCHANGED <<sem, cliente, interrupcion, cpu, memoria, finalizadas>>

\* The switch on the last instruction; each list has a semaphore of its name.
Destino(p) == CASE UltimaInstruccion(p) = "IO"   -> "blocked"
                [] UltimaInstruccion(p) = "EXIT" -> "exit"
                [] OTHER                         -> "ready"

ExecEncolar == Agregar("exec", "encolar", Destino(hilo["exec"].p), "post_cola")

ExecPostCola ==
    LET d == Destino(hilo["exec"].p) IN
    Post("exec", "post_cola", d, IF d = "blocked" THEN "inicio" ELSE "post_extra")

\* EXIT wakes estadoReady too; the default case posts sem_desalojo again.
ExecPostExtra ==
    Post("exec", "post_extra",
         IF Destino(hilo["exec"].p) = "exit" THEN "ready" ELSE "desalojo", "inicio")

Exec ==
    \/ ExecEsperar \/ ExecTomar \/ ExecDespachar \/ ExecRecibir
    \/ ExecDesalojar \/ ExecNoDesalojar
    \/ DesalojoAReady \/ DesalojoSacar \/ DesalojoBajar \/ DesalojoPost
    \/ ExecBajar \/ ExecPostDesalojo \/ ExecSacar
    \/ ExecEncolar \/ ExecPostCola \/ ExecPostExtra

-----------------------------------------------------------------------------
(* Short term: estadoBlockeado.  The clock decides between suspending at   *)
(* once, suspending in the middle of the I/O and not suspending.           *)

BlockedEsperar == Wait("blocked", "inicio", "blocked", "sacar")
BlockedSacar == QuitarPrimero("blocked", "sacar", "blocked", "decidir")
BlockedDecidir == \E m \in {"pedir", "io_antes", "io"} : Pasar("blocked", "decidir", m)
BlockedIOAntes == Pasar("blocked", "io_antes", "pedir")
BlockedIO == Pasar("blocked", "io", "a_ready")
BlockedAgregar == Agregar("blocked", "a_ready", "ready", "ver_exec")

\* transicion_suspender; a code other than ESPACIO_PCB_LIBERADO is logged.
SuspenderPedir == Pedir("blocked", "pedir", "SUSPENDER_PROCESO", "esperar")
SuspenderRespuesta == RecibirRespuesta("blocked", "esperar", "a_susp") /\ UNCHANGED pcb
SuspenderAgregar == Agregar("blocked", "a_susp", "suspBlocked", "post_grado")
\* Mistake: the suspended process keeps its place in the multiprogramming.
SuspenderSinGrado == Pasar("blocked", "post_grado", "io_resto")

SuspenderGrado == Post("blocked", "post_grado", "grado", "io_resto")

\* The I/O that remains, done by the suspended process.
BlockedIOResto == Pasar("blocked", "io_resto", "post_susp")
BlockedPostSusp == Post("blocked", "post_susp", "suspReady", "inicio")

Blocked ==
    \/ BlockedEsperar \/ BlockedSacar \/ BlockedDecidir \/ BlockedIOAntes
    \/ BlockedIO \/ BlockedAgregar \/ TransicionInterrupcion("blocked")
    \/ SuspenderPedir \/ SuspenderRespuesta \/ SuspenderAgregar \/ SuspenderGrado
    \/ BlockedIOResto \/ BlockedPostSusp

-----------------------------------------------------------------------------
(* Medium term: estado_suspended_ready.                                    *)

SuspEsperar == Wait("suspReady", "inicio", "suspReady", "sacar")
\* Mistake: the process stays in Suspended-Blocked (list_get).
SuspSinSacar ==
    /\ En("suspReady", "sacar")
    /\ cola["suspBlocked"] # <<>>
    /\ Toma("suspReady", Ultimo("suspBlocked"), "a_susp")
    /\ UNCHANGED <<cola, sem, cliente, interrupcion, pcb, cpu, memoria, finalizadas>>

SuspSacar == QuitarUltimo("suspReady", "sacar", "suspBlocked", "a_susp")
\* Mistake: a process goes back to Ready without being admitted.
SuspAgregarAReady == Agregar("suspReady", "a_susp", "ready", "post_admitir")

SuspAgregar == Agregar("suspReady", "a_susp", "suspReady", "post_admitir")
SuspPost == Post("suspReady", "post_admitir", "admitir", "inicio")

SuspendedReady == SuspEsperar \/ SuspSacar \/ SuspAgregar \/ SuspPost

-----------------------------------------------------------------------------
(* The CPU: the loop of main, ciclo_de_instruccion and the interrupt       *)
(* thread.  parar_proceso stops at 1: only parar_proceso > 0 is tested.     *)

CpuRecibir ==
    /\ cpu.en = "recibir"
    /\ cpu' = [cpu EXCEPT !.en = "ciclo", !.parar = 0]
    /\ UNCHANGED <<cola, sem, hilo, cliente, interrupcion, pcb, memoria, finalizadas>>

Quedan(p) == pcb[p].pc < Len(Programa[p])

\* decode and program_counter++; ejecutarIO and ejecutarEXIT ask to stop.
CpuInstruccion ==
    LET p == cpu.p
        i == Programa[p][pcb[p].pc + 1]
    IN  /\ cpu.en = "ciclo"
        /\ Quedan(p)
        /\ pcb' = [pcb EXCEPT ![p].pc = @ + 1]
        /\ cpu' = [cpu EXCEPT !.en = "chequear",
                              !.parar = IF i \in {"IO", "EXIT"} THEN 1 ELSE @]
        /\ UNCHANGED <<cola, sem, hilo, cliente, interrupcion, memoria, finalizadas>>

\* checkInterrupt
CpuChequear ==
    /\ cpu.en = "chequear"
    /\ cpu' = [cpu EXCEPT !.en = IF cpu.parar > 0 THEN "devuelto" ELSE "ciclo"]
    /\ UNCHANGED <<cola, sem, hilo, cliente, interrupcion, pcb, memoria, finalizadas>>

\* The list of instructions ends without EXIT: nothing is sent back.
CpuSinExit ==
    /\ cpu.en = "ciclo"
    /\ ~ Quedan(cpu.p)
    /\ cpu' = [cpu EXCEPT !.en = "libre", !.p = Nadie]
    /\ UNCHANGED <<cola, sem, hilo, cliente, interrupcion, pcb, memoria, finalizadas>>

CpuInterrumpir ==
    /\ cpu.mensajes > 0
    /\ cpu' = [cpu EXCEPT !.mensajes = @ - 1, !.parar = 1]
    /\ UNCHANGED <<cola, sem, hilo, cliente, interrupcion, pcb, memoria, finalizadas>>

Ciclo == CpuRecibir \/ CpuInstruccion \/ CpuChequear \/ CpuSinExit

\* contador_pid has an element at the index of the process.
Contado(p) == Identificador[p] < memoria.contadores

\* The next instruction may be READ, WRITE or COPY.
UsaMemoria ==
    cpu.en = "ciclo" /\ Quedan(cpu.p) /\ Programa[cpu.p][pcb[cpu.p].pc + 1] = "NO_OP"

\* A page fault of a process that contador_pid does not have kills the memory
\* module before it answers.
CpuFalloSinContador ==
    /\ UsaMemoria
    /\ MemoriaViva /\ ~ Contado(cpu.p)
    /\ memoria' = [memoria EXCEPT !.estado = "caida"]
    /\ UNCHANGED <<cola, sem, hilo, cliente, interrupcion, pcb, cpu, finalizadas>>

\* With the memory module dead the CPU goes on with what its buffers hold
\* (CpuInstruccion), or a send gives it SIGPIPE.
CpuSinMemoria ==
    /\ UsaMemoria
    /\ ~ MemoriaViva
    /\ memoria' = [memoria EXCEPT !.estado = "rota"]
    /\ UNCHANGED <<cola, sem, hilo, cliente, interrupcion, pcb, cpu, finalizadas>>

CpuMemoria == CpuFalloSinContador \/ CpuSinMemoria

-----------------------------------------------------------------------------
(* The memory module as the kernel sees it: one thread serves the kernel's *)
(* connection, in order.  estructuras: the processes it has tables for.    *)

Atender(r, e) == CASE r.op = "INICIALIZAR_ESTRUCTURAS" -> e \cup {r.p}
                   [] r.op = "PCB"                     -> e \ {r.p}
                   [] r.op = "SUSPENDER_PROCESO"       -> e

\* list_add_in_index does nothing past the end of contador_pid: a process
\* admitted before those of lower identifiers gets no counter.
MasContador(r, n) ==
    IF r.op = "INICIALIZAR_ESTRUCTURAS" /\ Identificador[r.p] <= n THEN n + 1 ELSE n

\* The end of a process prints its counters after the answer: without them the
\* module dereferences NULL and dies.
MemoriaAtender ==
    LET r == Head(memoria.pedidos) IN
    /\ MemoriaViva
    /\ memoria.pedidos # <<>>
    /\ memoria' = [pedidos     |-> Tail(memoria.pedidos),
                   respuestas  |-> Append(memoria.respuestas, r),
                   estructuras |-> Atender(r, memoria.estructuras),
                   contadores  |-> MasContador(r, memoria.contadores),
                   estado      |-> IF r.op = "PCB" /\ ~ Contado(r.p) THEN "caida" ELSE "viva"]
    /\ UNCHANGED <<cola, sem, hilo, cliente, interrupcion, pcb, cpu, finalizadas>>

-----------------------------------------------------------------------------
\* estadoReady dereferences the pointer it got: with an unassigned one the
\* kernel dies.  The kernel or the CPU may also die sending to a dead memory
\* module.  What follows is not modelled.
EnPie == ~ En("ready", "indefinido") /\ memoria.estado # "rota"

Next ==
    /\ EnPie
    /\ \/ \E p \in Procesos : Cliente(p)
       \/ Admitir \/ Finalizar \/ Ready \/ Exec \/ Blocked \/ SuspendedReady
       \/ Ciclo \/ CpuInterrumpir \/ CpuMemoria \/ MemoriaAtender

Spec == Init /\ [][Next]_vars

\* Every thread is a POSIX thread of its own and every wait is a blocking
\* call that returns once it can: a step that stays enabled is taken.  The
\* deaths of CpuMemoria may happen and need not.
Justicia ==
    /\ \A p \in Procesos : WF_vars(EnPie /\ Cliente(p))
    /\ WF_vars(EnPie /\ Admitir) /\ WF_vars(EnPie /\ Finalizar)
    /\ WF_vars(EnPie /\ Ready) /\ WF_vars(EnPie /\ Exec)
    /\ WF_vars(EnPie /\ Blocked) /\ WF_vars(EnPie /\ SuspendedReady)
    /\ WF_vars(EnPie /\ Ciclo) /\ WF_vars(EnPie /\ CpuInterrumpir)
    /\ WF_vars(EnPie /\ MemoriaAtender)

FairSpec == Spec /\ Justicia

-----------------------------------------------------------------------------
(* Properties.                                                             *)

\* A thread holds a process at the steps where the C code has assigned its
\* local `proceso'.
HilosOK ==
    /\ hilo \in [Hilos -> [en : Pasos, p : Procesos \cup {Nadie}]]
    /\ \A t \in Hilos : \/ hilo[t].en \in SinProceso[t]
                        \/ hilo[t].en \in ConProceso[t] /\ hilo[t].p \in Procesos

Pcbs == [pc : Nat, est : Estimaciones, tabla : Procesos \cup {Nadie}]
Cpus == [en : {"libre", "recibir", "ciclo", "chequear", "devuelto"},
         p : Procesos \cup {Nadie}, parar : {0, 1}, mensajes : Nat]
Memorias == [pedidos : Seq(Pedidos), respuestas : Seq(Pedidos),
             estructuras : SUBSET Procesos, contadores : Nat,
             estado : {"viva", "caida", "rota"}]

\* Every variable keeps its shape, the threads included.
TypeOK ==
    /\ cola \in [Colas -> Seq(Procesos)]
    /\ sem \in [Semaforos -> Nat]
    /\ HilosOK
    /\ cliente \in [Procesos -> {"inicio", "post_admitir", "fin"}]
    /\ interrupcion \in BOOLEAN
    /\ pcb \in [Procesos -> Pcbs]
    /\ cpu \in Cpus
    /\ memoria \in Memorias
    /\ finalizadas \subseteq Procesos

\* No thread removes from an empty list: list_remove and list_get would return
\* NULL and the next line dereferences it.  Nothing but the count of posts
\* says so: the sem_post of one thread stands for the list_add of another, and
\* colaSuspendedReady and colaNew share one semaphore.
NuncaListaVacia ==
    /\ En("admitir", "sacar") => cola["new"] # <<>>
    /\ En("finalizar", "sacar") => cola["exit"] # <<>>
    /\ hilo["ready"].en \in {"contar", "elegir"} => cola["ready"] # <<>>
    /\ hilo["exec"].en \in {"tomar", "d_sacar", "sacar"} => cola["exec"] # <<>>
    /\ En("blocked", "sacar") => cola["blocked"] # <<>>
    /\ En("suspReady", "sacar") => cola["suspBlocked"] # <<>>

\* The steps at which the held process is in no list.
FueraDeCola ==
    [admitir   |-> {"pedir", "esperar", "a_ready"},
     finalizar |-> {"pedir", "esperar", "avisar"},
     ready     |-> {"a_exec"},
     exec      |-> {"encolar"},
     blocked   |-> {"decidir", "io_antes", "pedir", "esperar", "a_susp", "io", "a_ready"},
     suspReady |-> {"a_susp"}]

Posiciones == UNION {{c} \X DOMAIN cola[c] : c \in Colas}

\* Where a process is: the places of the lists and the hands of the threads.
\* A preempted process is added to Ready before it is removed from Exec.
Lugares(p) ==
    {ci \in Posiciones : /\ cola[ci[1]][ci[2]] = p
                         /\ ~ (ci = <<"exec", 1>> /\ En("exec", "d_sacar"))}
    \cup {<<t, 0>> : t \in {h \in Hilos : hilo[h].p = p /\ hilo[h].en \in FueraDeCola[h]}}

\* No process is lost and none is planned twice: from the moment its console
\* connected until the console is told it ended, it is in exactly one place.
UnSoloLugar ==
    \A p \in Procesos :
        Cardinality(Lugares(p)) =
            IF cliente[p] # "inicio" /\ p \notin finalizadas THEN 1 ELSE 0

EnCola(c) == {cola[c][i] : i \in 1..Len(cola[c])}

\* The processes that take part in the multiprogramming.
Multiprogramados ==
    EnCola("ready") \cup EnCola("exec") \cup EnCola("blocked") \cup EnCola("exit")
    \cup {hilo[t].p : t \in {h \in Hilos \ {"suspReady"} : hilo[h].en \in FueraDeCola[h]}}

\* GRADO_MULTIPROGRAMACION bounds the admitted processes, although three
\* threads take and give back the semaphore at three different points.
GradoRespetado == Cardinality(Multiprogramados) <= Grado

\* obtenerSiguienteReady never returns the pointer it did not assign.
SeleccionDefinida == ~ En("ready", "indefinido")

\* Every process whose console connected ends and its console is told so,
\* unless the memory module died of the NULL that an admission out of the order
\* of the identifiers left in contador_pid: then the kernel dies at a send, or
\* the CPU does, and consoles may wait for ever.
TodasFinalizan == <>(finalizadas = Procesos \/ ~ MemoriaViva)

(* The seven-state diagram, read off the lists and the threads.            *)

Lleva(t, p, pasos) == hilo[t].p = p /\ hilo[t].en \in pasos

Ejecuta(p) ==
    Lleva("exec", p, {"despachar", "recibir", "decidir", "d_ready", "bajar",
                      "post_desalojo", "sacar", "encolar"})

\* A process on its way to Ready comes from New exactly if it never executed.
EstadoDe(p) ==
    CASE p \in finalizadas -> "FIN"
      [] cliente[p] = "inicio" -> "AFUERA"
      [] Ejecuta(p) -> "EXEC"
      [] p \in EnCola("exit") \/ Lleva("finalizar", p, FueraDeCola["finalizar"]) -> "FINALIZADO"
      [] p \in EnCola("blocked") \/ Lleva("blocked", p, FueraDeCola["blocked"]) -> "BLOQUEADO"
      [] p \in EnCola("suspBlocked") \/ Lleva("suspReady", p, {"a_susp"}) -> "BLOQUEADO_SUSPENDIDO"
      [] p \in EnCola("suspReady") -> "LISTO_SUSPENDIDO"
      [] p \in EnCola("new") -> "NUEVO"
      [] Lleva("admitir", p, FueraDeCola["admitir"]) ->
           IF pcb[p].pc = 0 THEN "NUEVO" ELSE "LISTO_SUSPENDIDO"
      [] OTHER -> "LISTO"

Diagrama == INSTANCE DiagramaEstados WITH estado <- [p \in Procesos |-> EstadoDe(p)]

\* The threads, lists and semaphores implement the seven-state diagram: legal
\* transitions only, at most Grado admitted, at most one executing.
ImplementaDiagrama == Diagrama!Spec

\* colaExec may hold several processes under FIFO, only the first of which the
\* CPU has: the rest of Exec, the process estadoReady carries, and Ready.
Fila ==
    (IF hilo["exec"].en \in ConProceso["exec"] \ {"encolar", "post_cola", "post_extra"}
       THEN Tail(cola["exec"]) ELSE cola["exec"])
    \o (IF En("ready", "a_exec") THEN <<hilo["ready"].p>> ELSE <<>>)
    \o cola["ready"]

\* Under FIFO those three pieces are one queue: a process joins at its end and
\* leaves from its front, whatever the threads interleave.
OrdenFifo ==
    [][\/ Fila' = Fila
       \/ Fila # <<>> /\ Fila' = Tail(Fila)
       \/ \E p \in Procesos : Fila' = Append(Fila, p)]_vars

(* What comments and messages of the code say and the code does not do.    *)

\* "solo si la lista no es vacia": estadoReady waits for sem_desalojo only if
\* Ready is not empty, so past that wait there is something in Ready.
DesalojoSoloSiHayListos ==
    Algoritmo = "SRT" /\ En("ready", "mirar") => cola["ready"] # <<>>

\* "Respuesta memoria de estructuras liberadas del proceso recibida": a console
\* is told of the end after the memory module, if it lives, freed the process.
AvisoTrasLiberar == MemoriaViva => finalizadas \cap memoria.estructuras = {}
=============================================================================
