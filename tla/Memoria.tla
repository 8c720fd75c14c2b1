------------------------------ MODULE Memoria -------------------------------
(***************************************************************************)
(* The memory module: page tables, frames, user memory and swap files, and *)
(* the two threads of manejo_conexiones that work on them, one serving the *)
(* CPU and one serving the kernel.                                         *)
(*                                                                         *)
(* One step is one critical section, or what a thread does between two of  *)
(* its waits (retardo_swap, retardo_memoria).  The filters by process      *)
(* (pid_comparador set under its mutex, list_filter after it) are taken as *)
(* one step each.  A page holds the value of one of its words; the two      *)
(* levels of the tables are one function, since devolverNroTablaEnSwap and *)
(* cambiar*dePagina use the number of the page in its process.             *)
(***************************************************************************)
EXTENDS Integers, Sequences, FiniteSets, Reloj

CONSTANTS
    Procesos,           \* ids of processes: naturals, as the kernel gives them
    Paginas,            \* page numbers of each process
    Marcos,             \* TAM_MEMORIA / TAM_PAGINA frames, numbered
    MarcosPorProceso,   \* MARCOS_POR_PROCESO
    Algoritmo,          \* ALGORITMO_REEMPLAZO
    Valores,            \* what a page may hold; 0 is a page never written
    Escritos,           \* and what the programs write
    Basura,             \* what malloc returns, not written by anybody
    Punteros,           \* what malloc leaves in puntero_indice
    Pedidos,            \* what the kernel asks besides INICIALIZAR_ESTRUCTURAS
    Nada                \* no process, no frame, no value; a READ writes Nada

ASSUME ProcesosAssumption == Procesos \subseteq Nat
ASSUME PaginasAssumption == Paginas \subseteq Nat /\ IsFiniteSet(Paginas)
ASSUME MarcosAssumption == Marcos \subseteq Nat /\ IsFiniteSet(Marcos)
ASSUME MarcosPorProcesoAssumption == MarcosPorProceso \in Nat \ {0}
ASSUME AlgoritmoAssumption == Algoritmo \in {"CLOCK", "CLOCK-M"}
ASSUME ValoresAssumption ==
    0 \in Valores /\ Escritos \subseteq Valores /\ Basura \notin Valores
ASSUME PunterosAssumption == Punteros \subseteq BOOLEAN /\ Punteros # {}
ASSUME PedidosAssumption == Pedidos \subseteq {"SUSPENDER_PROCESO", "PCB"}
ASSUME NadaAssumption ==
    /\ Nada \notin Procesos \cup Marcos \cup Valores \cup Paginas \cup {Basura}
    /\ Nada \notin [p : Procesos, g : Paginas, w : Valores \cup {Nada}]

VARIABLES
    marcos,       \* marcos[f]: the process a frame is marked with, or Nada (-1)
    tabla,        \* the entries of the page tables
    usuario,      \* memoria_usuario, frame by frame
    swap,         \* the swap files
    archivos,     \* the processes whose swap file is mapped
    archivo,      \* archivo_swap, the global that points to one of them
    comparador,   \* the global that igualPid compares with
    contadores,   \* the length of contador_pid
    vida,         \* what became of each process: fuera, listo (to run), activo
                  \* (it has run since), fin
    cpu,          \* the thread that serves the CPU
    kernel,       \* the thread that serves the kernel
    viva          \* FALSE once a NULL or an unmapped file was used

vars == <<marcos, tabla, usuario, swap, archivos, archivo, comparador, contadores,
          vida, cpu, kernel, viva>>

Entradas == [p : BOOLEAN, u : BOOLEAN, m : BOOLEAN, puntero : BOOLEAN,
             marco : Marcos \cup {Nada}]

Reposo == [en |-> "libre", p |-> Nada, g |-> Nada, w |-> Nada, marco |-> Nada,
           dato |-> Nada]
Descanso == [en |-> "libre", p |-> Nada, resto |-> <<>>, marcos |-> {}]

\* inicializar_tabla_segundo_nivel: puntero_indice is not assigned.
TablaNueva(f) ==
    [g \in Paginas |-> [p |-> FALSE, u |-> FALSE, m |-> FALSE, puntero |-> f[g],
                        marco |-> Nada]]

\* comparador is a global integer: it starts at 0, which is a process.
Init ==
    /\ marcos = [f \in Marcos |-> Nada]
    /\ tabla = [q \in Procesos |-> TablaNueva([g \in Paginas |-> FALSE])]
    /\ usuario = [f \in Marcos |-> Basura]
    /\ swap = [q \in Procesos |-> [g \in Paginas |-> 0]]
    /\ archivos = {}
    /\ archivo = Nada
    /\ comparador = 0
    /\ contadores = 0
    /\ vida = [q \in Procesos |-> "fuera"]
    /\ cpu = Reposo
    /\ kernel = Descanso
    /\ viva = TRUE

-----------------------------------------------------------------------------
(* Helpers.                                                                *)

Presentes(q) == {g \in Paginas : tabla[q][g].p}

\* The pages of S, of process q, in the order of their frames.
AntesDe(q, g, h) ==
    \/ tabla[q][g].marco < tabla[q][h].marco
    \/ tabla[q][g].marco = tabla[q][h].marco /\ g < h

EnOrden(q, S) ==
    [k \in 1..Cardinality(S) |->
       CHOOSE g \in S : Cardinality({h \in S : AntesDe(q, h, g)}) = k - 1]

PaginasEnMemoria(q) == EnOrden(q, Presentes(q))

Usados(q) == {f \in Marcos : marcos[f] = q}
Libres == {f \in Marcos : marcos[f] = Nada}

\* The entries of the tables with some fields of one of them changed.
Con(q, g, e) == [tabla EXCEPT ![q][g] = e]

\* Mistake: the page replaced keeps its bit p.
FueraConP(e) == [e EXCEPT !.m = FALSE]

\* cambiarPdePagina and cambiarMdePagina to 0; the frame of an absent page is
\* not looked at again.
Fuera(e) == [e EXCEPT !.p = FALSE, !.m = FALSE, !.marco = Nada]

Cpu(l) == [cpu EXCEPT !.en = l]
Cae == viva' = FALSE

-----------------------------------------------------------------------------
(* The thread of the CPU: devolver_marco, then READ or WRITE in the frame   *)
(* it answered.  The process that runs is not in the hands of the kernel.   *)

\* The CPU is given a process that was admitted or suspended: the kernel asks
\* nothing more about it before it has run.
Despachar(q) ==
    /\ cpu.en = "libre"
    /\ vida[q] = "listo" /\ kernel.p # q
    /\ vida' = [vida EXCEPT ![q] = "activo"]
    /\ UNCHANGED <<marcos, tabla, usuario, swap, archivos, archivo, comparador,
                   contadores, cpu, kernel, viva>>

CpuPedir(q, g, w) ==
    /\ cpu.en = "libre"
    /\ vida[q] = "activo" /\ kernel.p # q
    /\ cpu' = [Reposo EXCEPT !.en = "pedir", !.p = q, !.g = g, !.w = w]
    /\ UNCHANGED <<marcos, tabla, usuario, swap, archivos, archivo, comparador,
                   contadores, vida, kernel, viva>>

Pedida == tabla[cpu.p][cpu.g]

CpuPresente ==
    /\ cpu.en = "pedir"
    /\ Pedida.p
    /\ tabla' = Con(cpu.p, cpu.g, [Pedida EXCEPT !.u = TRUE])
    /\ cpu' = [cpu EXCEPT !.en = "acceder", !.marco = Pedida.marco]
    /\ UNCHANGED <<marcos, usuario, swap, archivos, archivo, comparador, contadores,
                   vida, kernel, viva>>

\* Mistake: one frame more than MARCOS_POR_PROCESO.
HayCupoDeMas(q) == Cardinality(Usados(q)) <= MarcosPorProceso

\* Page fault: cantidadUsadaMarcos leaves the process in comparador.
HayCupo(q) == Cardinality(Usados(q)) < MarcosPorProceso

CpuFalla ==
    /\ cpu.en = "pedir"
    /\ ~ Pedida.p
    /\ cpu.p < contadores
    /\ comparador' = cpu.p
    /\ cpu' = Cpu(IF HayCupo(cpu.p) THEN "ocupar" ELSE "reemplazar")
    /\ UNCHANGED <<marcos, tabla, usuario, swap, archivos, archivo, contadores, vida,
                   kernel, viva>>

\* list_get(contador_pid, pid) is NULL.
CpuSinContador ==
    /\ cpu.en = "pedir"
    /\ ~ Pedida.p
    /\ cpu.p >= contadores
    /\ Cae
    /\ UNCHANGED <<marcos, tabla, usuario, swap, archivos, archivo, comparador,
                   contadores, vida, cpu, kernel>>

\* Mistake: the frame is marked with the page and not with the process.
CpuOcuparConPagina ==
    /\ cpu.en = "ocupar"
    /\ Libres # {}
    /\ LET f == Menor(Libres) IN
         /\ marcos' = [marcos EXCEPT ![f] = cpu.g]
         /\ tabla' = Con(cpu.p, cpu.g, [Pedida EXCEPT !.p = TRUE, !.marco = f])
         /\ cpu' = [cpu EXCEPT !.en = "asignar", !.marco = f]
    /\ UNCHANGED <<usuario, swap, archivos, archivo, comparador, contadores, vida,
                   kernel, viva>>

\* ocuparMarcoLibre; the page is marked present before it is loaded.
CpuOcupar ==
    /\ cpu.en = "ocupar"
    /\ Libres # {}
    /\ LET f == Menor(Libres) IN
         /\ marcos' = [marcos EXCEPT ![f] = cpu.p]
         /\ tabla' = Con(cpu.p, cpu.g, [Pedida EXCEPT !.p = TRUE, !.marco = f])
         /\ cpu' = [cpu EXCEPT !.en = "asignar", !.marco = f]
    /\ UNCHANGED <<usuario, swap, archivos, archivo, comparador, contadores, vida,
                   kernel, viva>>

\* list_find(marcos, estaLibre) is NULL.
CpuSinMarco ==
    /\ cpu.en = "ocupar"
    /\ Libres = {}
    /\ Cae
    /\ UNCHANGED <<marcos, tabla, usuario, swap, archivos, archivo, comparador,
                   contadores, vida, cpu, kernel>>

\* The entries of the pages s of a process; and all of its entries when r are those.
EntradasDe(q, s) == [i \in DOMAIN s |-> tabla[q][s[i]]]

ConEntradas(q, s, r) ==
    [g \in Paginas |-> IF g \in Presentes(q) THEN r[CHOOSE i \in DOMAIN s : s[i] = g]
                       ELSE tabla[q][g]]

\* The test of escribirModificaciones: victim g is written first if it was modified.
Sacar(g, t) ==
    LET e == tabla[cpu.p][g] IN
    /\ cpu' = [cpu EXCEPT !.en = IF e.m THEN "escribir" ELSE "asignar",
                          !.marco = e.marco,
                          !.dato = IF e.m THEN g ELSE Nada]
    /\ tabla' = [tabla EXCEPT ![cpu.p] = IF e.m THEN t ELSE [t EXCEPT ![g] = Fuera(@)]]
    /\ archivo' = IF e.m THEN cpu.p ELSE archivo

\* obtenerPaginaAReemplazar, which moves the hand and clears bits u.
CpuReemplazar ==
    /\ cpu.en = "reemplazar"
    /\ \E s \in {PaginasEnMemoria(cpu.p)} : \E bits \in {EntradasDe(cpu.p, s)} :
         Sacar(s[Elegir(Algoritmo, bits).victima],
               ConEntradas(cpu.p, s, Rotar(Algoritmo, bits)))
    /\ UNCHANGED <<marcos, usuario, swap, archivos, comparador, contadores, vida,
                   kernel, viva>>

\* Mistake: the page fault starts again and the victim is not taken out.
CpuEscribirOtraVez ==
    /\ cpu.en = "escribir"
    /\ swap' = [swap EXCEPT ![archivo][cpu.dato] = usuario[cpu.marco]]
    /\ cpu' = Cpu("pedir")
    /\ UNCHANGED <<marcos, tabla, usuario, archivos, archivo, comparador, contadores,
                   vida, kernel, viva>>

\* escribirPagEnSwap of the victim, in the file archivo_swap points to by then.
CpuEscribir ==
    /\ cpu.en = "escribir"
    /\ swap' = [swap EXCEPT ![archivo][cpu.dato] = usuario[cpu.marco]]
    /\ tabla' = Con(cpu.p, cpu.dato, Fuera(tabla[cpu.p][cpu.dato]))
    /\ cpu' = [cpu EXCEPT !.en = "asignar", !.dato = Nada]
    /\ UNCHANGED <<marcos, usuario, archivos, archivo, comparador, contadores, vida,
                   kernel, viva>>

\* Mistake: asignarAlArchivo is forgotten.
CpuAsignarNada ==
    /\ cpu.en = "asignar"
    /\ cpu' = Cpu("traer")
    /\ UNCHANGED <<marcos, tabla, usuario, swap, archivos, archivo, comparador,
                   contadores, vida, kernel, viva>>

\* asignarAlArchivo
CpuAsignar ==
    /\ cpu.en = "asignar"
    /\ archivo' = cpu.p
    /\ cpu' = Cpu("traer")
    /\ UNCHANGED <<marcos, tabla, usuario, swap, archivos, comparador, contadores, vida,
                   kernel, viva>>

\* traerPaginaDeSwap: copied from the file archivo_swap points to by then.
CpuTraer ==
    /\ cpu.en = "traer"
    /\ cpu' = [cpu EXCEPT !.en = "cargar", !.dato = swap[archivo][cpu.g]]
    /\ UNCHANGED <<marcos, tabla, usuario, swap, archivos, archivo, comparador,
                   contadores, vida, kernel, viva>>

\* Mistake: the page is not copied to its frame.
CpuCargarSinCopiar ==
    /\ cpu.en = "cargar"
    /\ tabla' = Con(cpu.p, cpu.g, [Pedida EXCEPT !.p = TRUE, !.marco = cpu.marco])
    /\ cpu' = [cpu EXCEPT !.en = "acceder", !.dato = Nada]
    /\ UNCHANGED <<marcos, usuario, swap, archivos, archivo, comparador, contadores,
                   vida, kernel, viva>>

\* escribirPagEnMemoria
CpuCargar ==
    /\ cpu.en = "cargar"
    /\ usuario' = [usuario EXCEPT ![cpu.marco] = cpu.dato]
    /\ tabla' = Con(cpu.p, cpu.g, [Pedida EXCEPT !.p = TRUE, !.marco = cpu.marco])
    /\ cpu' = [cpu EXCEPT !.en = "acceder", !.dato = Nada]
    /\ UNCHANGED <<marcos, swap, archivos, archivo, comparador, contadores, vida,
                   kernel, viva>>

\* Mistake: writing does not set the bit m.
AccesoSinM(e, w) == [e EXCEPT !.u = TRUE]

\* cambiarMarcoUsoAUno and, for a write, cambiarMarcoModificadoAUno.
Acceso(e, w) == [e EXCEPT !.u = TRUE, !.m = @ \/ w # Nada]

\* The tables after an access to frame f.  The page to mark is looked up by the
\* process the frame is marked with; a frame marked with none has no page.
Marcada(t, f, w) ==
    LET o == marcos[f]
        g == Menor({h \in Paginas : t[o][h].p /\ t[o][h].marco = f})
    IN  IF o = Nada THEN t ELSE [t EXCEPT ![o][g] = Acceso(@, w)]

\* leer_de_memoria, escribirEn, and the answer: the value read.
CpuAcceder ==
    LET f == cpu.marco IN
    /\ cpu.en = "acceder"
    /\ usuario' = IF cpu.w = Nada THEN usuario ELSE [usuario EXCEPT ![f] = cpu.w]
    /\ tabla' = Marcada(tabla, f, cpu.w)
    /\ cpu' = [Reposo EXCEPT !.dato = IF cpu.w = Nada THEN usuario[f] ELSE Nada]
    /\ UNCHANGED <<marcos, swap, archivos, archivo, comparador, contadores, vida,
                   kernel, viva>>

\* devolver_marco
CpuMarco ==
    \/ CpuPresente \/ CpuFalla \/ CpuSinContador \/ CpuOcupar \/ CpuSinMarco
    \/ CpuReemplazar \/ CpuEscribir \/ CpuAsignar \/ CpuTraer \/ CpuCargar

CpuHilo == CpuMarco \/ CpuAcceder

-----------------------------------------------------------------------------
(* The thread of the kernel.                                               *)

\* list_add_in_index adds nothing when the index is beyond the end.
KInicializar(q) ==
    /\ kernel.en = "libre"
    /\ vida[q] = "fuera"
    /\ vida' = [vida EXCEPT ![q] = "listo"]
    /\ \E f \in [Paginas -> Punteros] : tabla' = [tabla EXCEPT ![q] = TablaNueva(f)]
    /\ contadores' = IF q <= contadores THEN contadores + 1 ELSE contadores
    /\ archivos' = archivos \cup {q}
    /\ UNCHANGED <<marcos, usuario, swap, archivo, comparador, cpu, kernel, viva>>

\* The kernel asks about a process that the CPU does not have.
Disponible(q) == kernel.en = "libre" /\ vida[q] = "activo" /\ cpu.p # q

KSuspender(q) ==
    /\ "SUSPENDER_PROCESO" \in Pedidos
    /\ Disponible(q)
    /\ archivo' = q
    /\ vida' = [vida EXCEPT ![q] = "listo"]
    /\ kernel' = [Descanso EXCEPT !.en = "listar", !.p = q]
    /\ UNCHANGED <<marcos, tabla, usuario, swap, archivos, comparador, contadores, cpu,
                   viva>>

\* escribirPaginasModificadas: marcosMod(paginasEnMemoria), asignarAlArchivo.
Modificadas(q) == EnOrden(q, {g \in Presentes(q) : tabla[q][g].m})

Bajada(s) == IF s = <<>> THEN "limpiar" ELSE "bajar"

KListar ==
    /\ kernel.en = "listar"
    /\ LET s == Modificadas(kernel.p) IN
         kernel' = [kernel EXCEPT !.en = Bajada(s), !.resto = s]
    /\ archivo' = kernel.p
    /\ UNCHANGED <<marcos, tabla, usuario, swap, archivos, comparador, contadores, vida,
                   cpu, viva>>

\* Mistake: the page is freed and not written.
KBajarSinCopiar ==
    LET g == Head(kernel.resto) IN
    /\ kernel.en = "bajar"
    /\ tabla' = Con(kernel.p, g, [tabla[kernel.p][g] EXCEPT !.m = FALSE])
    /\ kernel' = [kernel EXCEPT !.en = "soltar"]
    /\ UNCHANGED <<marcos, usuario, swap, archivos, archivo, comparador, contadores,
                   vida, cpu, viva>>

\* escribirPagEnSwap, in the file archivo_swap points to by then, and
\* cambiarMdePagina: only this thread looks at the bit m meanwhile.
KBajar ==
    LET g == Head(kernel.resto)
        e == tabla[kernel.p][g]
    IN  /\ kernel.en = "bajar"
        /\ swap' = [swap EXCEPT ![archivo][g] = usuario[e.marco]]
        /\ tabla' = Con(kernel.p, g, [e EXCEPT !.m = FALSE])
        /\ kernel' = [kernel EXCEPT !.en = "soltar"]
        /\ UNCHANGED <<marcos, usuario, archivos, archivo, comparador, contadores,
                       vida, cpu, viva>>

\* liberarMarco
KSoltar ==
    /\ kernel.en = "soltar"
    /\ marcos' = [marcos EXCEPT ![tabla[kernel.p][Head(kernel.resto)].marco] = Nada]
    /\ kernel' = [kernel EXCEPT !.en = "bits"]
    /\ UNCHANGED <<tabla, usuario, swap, archivos, archivo, comparador, contadores,
                   vida, cpu, viva>>

\* Mistake: the page keeps its bit p.
KBitsSinP ==
    /\ kernel.en = "bits"
    /\ kernel' = [kernel EXCEPT !.en = Bajada(Tail(kernel.resto)), !.resto = Tail(@)]
    /\ UNCHANGED <<marcos, tabla, usuario, swap, archivos, archivo, comparador,
                   contadores, vida, cpu, viva>>

\* cambiarUdePagina, cambiarPdePagina, next page.
KBits ==
    LET g == Head(kernel.resto) IN
    /\ kernel.en = "bits"
    /\ tabla' = Con(kernel.p, g, [Fuera(tabla[kernel.p][g]) EXCEPT !.u = FALSE])
    /\ kernel' = [kernel EXCEPT !.en = Bajada(Tail(kernel.resto)), !.resto = Tail(@)]
    /\ UNCHANGED <<marcos, usuario, swap, archivos, archivo, comparador, contadores,
                   vida, cpu, viva>>

\* PCB: liberarTodosLosMarcos lists the frames of the process in comparador.
KFinalizar(q) ==
    /\ "PCB" \in Pedidos
    /\ Disponible(q)
    /\ vida' = [vida EXCEPT ![q] = "fin"]
    /\ kernel' = [Descanso EXCEPT !.en = "liberar", !.p = q, !.marcos = Usados(comparador)]
    /\ UNCHANGED <<marcos, tabla, usuario, swap, archivos, archivo, comparador, contadores,
                   cpu, viva>>

\* liberarMarco of the next frame of the list.
KLiberar ==
    LET f == Menor(kernel.marcos) IN
    /\ kernel.en = "liberar" /\ kernel.marcos # {}
    /\ marcos' = [marcos EXCEPT ![f] = Nada]
    /\ kernel' = [kernel EXCEPT !.marcos = @ \ {f}]
    /\ UNCHANGED <<tabla, usuario, swap, archivos, archivo, comparador, contadores,
                   vida, cpu, viva>>

\* eliminarSwap; the file is removed with what it held.
KBorrar ==
    /\ kernel.en = "liberar" /\ kernel.marcos = {}
    /\ archivos' = archivos \ {kernel.p}
    /\ swap' = [swap EXCEPT ![kernel.p] = [g \in Paginas |-> 0]]
    /\ kernel' = [kernel EXCEPT !.en = "limpiar"]
    /\ UNCHANGED <<marcos, tabla, usuario, archivo, comparador, contadores, vida, cpu,
                   viva>>

\* liberarMemoriaUsuario: every page that is still present gets a fresh buffer.
\* Then the answer; after the end of a process, its counters are read.
KLimpiar ==
    LET q == kernel.p
        suyos == {tabla[q][g].marco : g \in Presentes(q)}
    IN  /\ kernel.en = "limpiar"
        /\ usuario' = [f \in Marcos |-> IF f \in suyos THEN Basura ELSE usuario[f]]
        /\ kernel' = Descanso
        /\ viva' = (vida[q] = "fin" => q < contadores)
        /\ UNCHANGED <<marcos, tabla, swap, archivos, archivo, comparador, contadores,
                       vida, cpu>>

KernelHilo ==
    KListar \/ KBajar \/ KSoltar \/ KBits \/ KLiberar \/ KBorrar \/ KLimpiar

-----------------------------------------------------------------------------
\* The kernel's requests, about the processes of S, and the thread that serves them.
Kernel(S) ==
    \/ \E q \in Procesos : KInicializar(q)
    \/ \E q \in S : KSuspender(q) \/ KFinalizar(q)
    \/ KernelHilo

Next ==
    /\ viva
    /\ \/ \E q \in Procesos, g \in Paginas, w \in Escritos \cup {Nada} : CpuPedir(q, g, w)
       \/ \E q \in Procesos : Despachar(q)
       \/ CpuHilo
       \/ Kernel(Procesos)

Spec == Init /\ [][Next]_vars

\* The threads are POSIX threads whose waits are sleeps; nothing obliges the CPU or
\* the kernel to ask for anything.
FairSpec == Spec /\ WF_vars(viva /\ CpuHilo)

-----------------------------------------------------------------------------
(* Properties.                                                             *)

CpuTipo == [en : {"libre", "pedir", "ocupar", "reemplazar", "escribir", "asignar",
                  "traer", "cargar", "acceder"},
            p : Procesos \cup {Nada}, g : Paginas \cup {Nada},
            w : Valores \cup {Nada}, marco : Marcos \cup {Nada},
            dato : Valores \cup {Basura, Nada} \cup Paginas]
KernelTipo == [en : {"libre", "listar", "bajar", "soltar", "bits", "liberar", "limpiar"},
               p : Procesos \cup {Nada}, resto : Seq(Paginas), marcos : SUBSET Marcos]

TypeOK ==
    /\ marcos \in [Marcos -> Procesos \cup {Nada}]
    /\ tabla \in [Procesos -> [Paginas -> Entradas]]
    /\ usuario \in [Marcos -> Valores \cup {Basura}]
    /\ swap \in [Procesos -> [Paginas -> Valores \cup {Basura}]]
    /\ archivos \subseteq Procesos
    /\ archivo \in Procesos \cup {Nada}
    /\ comparador \in Nat
    /\ contadores \in Nat
    /\ vida \in [Procesos -> {"fuera", "listo", "activo", "fin"}]
    /\ cpu \in CpuTipo
    /\ kernel \in KernelTipo
    /\ viva \in BOOLEAN

Activos == {q \in Procesos : vida[q] \in {"listo", "activo"}}

\* No process has ended: from then on the frames freed were those of another
\* (FinalizarLibera), and the properties that say so no longer hold.
SinFines == \A q \in Procesos : vida[q] # "fin"

\* A page is being copied to or from the file of another process, which
\* archivo_swap has been left pointing to.
OtroArchivo ==
    \/ cpu.en \in {"escribir", "traer"} /\ archivo # cpu.p
    \/ kernel.en = "bajar" /\ archivo # kernel.p

\* The page between liberarMarco and cambiarPdePagina.
Soltandose(q, g) == kernel.en = "bits" /\ kernel.p = q /\ Head(kernel.resto) = g

\* A frame holds one page of one process, and is marked with that process.  The
\* marks, the bits p and the frame numbers are three lists that two threads
\* change at different moments.
MarcosPropios == SinFines =>
    \A q \in Activos, g \in Paginas :
        tabla[q][g].p /\ ~ Soltandose(q, g) =>
            /\ marcos[tabla[q][g].marco] = q
            /\ \A r \in Activos, h \in Paginas :
                 /\ tabla[r][h].p /\ ~ Soltandose(r, h)
                 /\ tabla[r][h].marco = tabla[q][g].marco
                 => r = q /\ h = g

\* MARCOS_POR_PROCESO bounds the frames of a process, replacements included.
CupoRespetado == SinFines => \A q \in Activos : Cardinality(Presentes(q)) <= MarcosPorProceso

\* archivo_swap, a global that both threads move, never points to a file that
\* eliminarSwap unmapped when a page is copied from or to it.
ArchivoMapeado ==
    cpu.en \in {"escribir", "traer"} \/ kernel.en = "bajar" => archivo \in archivos

\* The good copy of a page: its frame if it was modified there, the swap file
\* otherwise.
Contenido(q, g) ==
    LET e == tabla[q][g] IN IF e.p /\ e.m THEN usuario[e.marco] ELSE swap[q][g]

\* The frame that devolver_marco answers holds the page that was asked for.
LecturaFiel ==
    cpu.en = "acceder" =>
        /\ Pedida.p /\ Pedida.marco = cpu.marco
        /\ usuario[cpu.marco] = Contenido(cpu.p, cpu.g)

\* What the CPU asked for while the request is being served.
Pedido == IF cpu.en = "libre" THEN Nada ELSE [p |-> cpu.p, g |-> cpu.g, w |-> cpu.w]

Virtual == INSTANCE MemoriaVirtual WITH
    contenido <- [q \in Procesos |-> [g \in Paginas |-> Contenido(q, g)]],
    pedido <- Pedido,
    respuesta <- IF cpu.en = "libre" THEN cpu.dato ELSE Nada

\* While the kernel suspends and ends nobody, page faults, replacements, swap files
\* and bits are invisible: each page holds what was last written in it, a READ
\* answers that, and every request is answered.
ImplementaVirtual == Virtual!Spec

(* What comments of the code say and the code does not do.                 *)

\* "Libera todos los marcos ocupados por el proceso", once its end was answered.
FinalizarLibera ==
    \A q \in Procesos : vida[q] = "fin" /\ kernel.p # q => Usados(q) = {}

\* "trae la pagina desde el swap": the file read is that of the process.
TraeDeSuArchivo == cpu.en = "traer" => archivo = cpu.p
=============================================================================
