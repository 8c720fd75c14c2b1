# A TLA+ model of TP-SISOP-1C2022

The repository is an operating-systems project: a **kernel** that schedules
processes, a **CPU** that executes them, a **memory module** with paging and
swap, and **consoles** that submit programs. The four are Linux processes that
talk over TCP sockets. This directory holds TLA+ models of them, the TLC
configurations that check the models on small instances, and TLAPS proofs.

Names follow the source, Spanish included; every module header says which code
it stands for, and `PROJECT.json` maps every definition to its lines.

## 1. Inventory

### Kernel: the planners (`src/kernel/src/planificacion.c`, `planificacionUtils.c`)

- *State.* Seven lists (New, Ready, Exec, Blocked, Suspended-Blocked,
  Suspended-Ready, Exit), each under a mutex; eight semaphores
  (`sem_admitir`, `sem_grado_multiprogramacion`, `sem_ready`, `sem_exec`,
  `sem_desalojo`, `sem_blocked`, `sem_suspended_ready`, `sem_exit`); the flag
  `interrupcion`; the PCBs.
- *Operations.* Six threads that loop for ever: `transicion_admitir_por_prioridad`,
  `finalizarPcb`, `estadoReady`, `estadoExec`, `estadoBlockeado`,
  `estado_suspended_ready`. Each waits on a semaphore, removes a process from
  a list, talks to another module, adds it to another list and posts.
- *Interactions.* `estadoExec` sends PCBs to the CPU and receives them back on
  the dispatch socket; `transicion_interrupcion` sends on the interrupt
  socket; three threads share one socket to the memory module, with no mutex.
- *Hard.* Mutexes are released between the look and the action; semaphores
  stand for list members that other threads added; one semaphore counts two
  lists; a preempted process is in two lists for a moment; interrupts arrive
  late; tokens of `sem_desalojo` are consumed before the reason is known; the
  memory module may die, and nobody looks at the result of a send or a receive.
- *Correct when* no list is read empty, no process is lost or planned twice,
  the multiprogramming degree holds, FIFO is FIFO, the seven-state diagram is
  followed, and every process ends while the memory module lives.

### Kernel: the consoles' connections (`kernel.c`)

One thread per console: receives a program, makes a PCB through the global
`consola`, adds it to New, posts `sem_admitir`. Hard: the global is written
and read in two critical sections.

### CPU: the instruction cycle and interrupts (`src/cpu/src/cpu.c`)

State: `parar_proceso`, `ultimo_pid`, the PCB received, `configuracion_tabla`.
Three threads: one does the handshake with the memory module and is not waited
for, one counts interrupts in `parar_proceso`, and the main one executes until
`checkInterrupt` and sends the PCB back. Hard: an interrupt that arrives
between two processes; a page fault before the handshake is answered; a
program that runs out of instructions without EXIT, which is never sent back.
Correct when every READ gives what the program would read if it ran alone.

### CPU: TLB and MMU (`tlb.c`, `mmu.c`)

State: a list of (page, frame, turn), the counter `cantidad_de_traducciones`.
Operations: lookup, hit, miss (ask the memory module for the second table and
the frame, then add, or replace by FIFO or LRU), flush when another process
comes. Hard: nobody tells the CPU that a page left its frame, and COPY
translates two addresses before it uses either. Correct when the order of
replacement is the algorithm's, a victim exists, and a translation is still
true when used.

### Memory module (`src/memoria/src/memoria.c`, `manejodetabla.c`, `swap.c`)

- *State.* Page tables of two levels (bits p, u, m, the hand
  `puntero_indice`, the frame), the list `marcos` of frame owners,
  `memoria_usuario`, one mapped swap file per process, and the globals
  `archivo_swap`, `pid_comparador`, `comparador`, `contador_pid`.
- *Operations.* For the CPU: handshake, second table, MARCO (page fault,
  replacement by CLOCK or CLOCK-M), READ, WRITE, COPY. For the kernel:
  INICIALIZAR_ESTRUCTURAS, SUSPENDER_PROCESO, PCB (end of a process).
- *Hard.* One thread per client and globals used as arguments between them:
  a filter compares with a global that was set in an earlier critical
  section, a page is copied through a pointer that another thread may have
  moved. Suspensions free frames one at a time; marks, bits and frame numbers
  are three lists.
- *Correct when* a frame holds one page of one process, a process keeps
  within its frames, nothing written is lost, what is read is the page, the
  file used is mapped, and every request is answered.

### Utils: messages (`src/utils/src/comunicacion.c`)

Operation codes, packets, PCBs and bare integers on TCP streams. No state of
its own, but a contract between writers and readers that nothing enforces: a
code goes as four bytes when sent alone and is received as one, some answers
are packets and others an integer or a code with no packet, a PCB is a list of
fields taken by position. Correct when no stream gets out of step and a PCB
comes out as it went in. `sockets.c` and `log_config.c` wrap library calls.

### Consola (`src/consola/src/consola.c`)

Parses a file of pseudocode (a NO_OP with a count becomes that many
instructions, an unknown word is passed over), sends the size and the
instructions in one packet and waits to be told of the end.

## 2. Modules

| module | what it is |
|---|---|
| `Planificador` | the planners, the consoles' threads, and what they see of CPU and memory |
| `DiagramaEstados` | abstract: the seven-state diagram with at most `Grado` admitted and one executing |
| `PlanificadorInv` | the inductive invariants of the planners: counts, places, program counters |
| `PlanificadorCuentas`, `PlanificadorLugares`, `PlanificadorDiagrama` | proofs about the planners |
| `Tlb` | the TLB as `traducir_dir_logica` and the main loop use it |
| `OrdenReemplazo` | abstract: a TLB as the list of its pages in order of replacement |
| `Reloj` | CLOCK and CLOCK-M as recursive functions |
| `Memoria` | the memory module and its two threads; extends `Reloj` |
| `MemoriaVirtual` | abstract: a value for each page of each process, requests that are answered |
| `Traduccion` | the MMU, the TLB and the instructions of memory over `Memoria` |
| `MemoriaInv` | the inductive invariants of `Memoria` and `Traduccion` |
| `RelojProofs`, `ReemplazoProofs` | proofs about CLOCK, CLOCK-M and the TLB's replacement |
| `MemoriaProofs`, `TraduccionProofs` | proofs about the memory module, alone and under the CPU |
| `Mensajes` | the streams: codes, packets, PCBs, integers, and the readers of each |
| `Direcciones` | the sizes of the tables and the parts of an address |
| `Recepcion` | from the file of a console to a process in New; extends `Mensajes` |
| `Enlace` | consoles, kernel, CPU and memory over the streams; extends `Recepcion` and `Direcciones` |
| `EnlaceInv`, `EnlaceProofs` | the inductive invariants of `Enlace`, and proofs about its streams |
| `MCPlanificador`, `MCTlb`, `MCReloj`, `MCReemplazo`, `MCMemoria`, `MCTraduccion`, `MCEnlace` | instances for TLC |

### Planificador

A step is one critical section, one `sem_wait`, one `sem_post`, one send or
one receive. `hilo[t]` holds the next step of thread `t` and the process in
its local `proceso`. `cola` and `sem` are the lists and semaphores. `memoria`
has the requests in the order in which the socket carries them and the
answers not yet read: the thread that reads takes the first. `cpu` has the
CPU's place in its cycle, `parar_proceso` (0, or more than 0) and the
interrupts on their way. Estimations are chosen freely from `Estimaciones`:
they are averages of measured times, so any order between two processes may
follow any other. The same holds of the comparison of the blocked time with
`TIEMPO_MAX_BLOQUEADO`: all three branches are always possible. READ, WRITE,
COPY and NO_OP are one instruction, which is what the kernel's `default` case
sees.

The memory module dies here as it does in `Memoria` and `Enlace`. The kernel
admits the last of New, so a process may come before those of lower
`Identificador`; `list_add_in_index` then adds no counter for it
(`MasContador`). Its first page fault (`CpuFalloSinContador`: any NO_OP of the
model may be a READ) or its end (`MemoriaAtender`, after the answer) uses the
NULL, and `memoria.estado` is `"caida"`. From then on a receive takes what is
left to read and then returns at once with nothing, and a send is lost or kills
the kernel or the CPU (`"rota"`, after which nothing is modelled).

Where `obtenerSiguienteReady` returns its unassigned pointer the thread goes
to the step `indefinido`; `SeleccionDefinida` says it never does.

### Tlb

`lista[i]` is an entry in the place it has in the C list, with its page and
`turno_reemplazo`. A step is a whole translation: all of it runs in the main
thread. The frame is left out because no code looks at it. `SinVictima` is
the NULL that `list_find` answers. `buscada` is the `pagina_a_buscar` of the
last translation that ended; with it `OrdenReemplazo` tells a hit that must
move a page to the end from a step that changes nothing.

### Reloj and Memoria

`Reloj` takes the list that `paginasEnMemoria` builds: pages in the order of
their frames, with bits u, m and the hand. The loop of `obtenerPaginaClock` is
a recursive function of the walk's state (the bits u and the place), and
`obtenerPaginaClockM` one of the bits u, of two rounds: one that looks for a
page neither used nor modified, one that takes a page not used and clears u of
those it passes. `EnOrden` lists the pages of a process by their frames, and by
their numbers where two have the same, which a suspension can leave.
`Memoria` is one step per critical section or piece between two waits of a
request (`cpu.en` and `kernel.en` are the places). A page holds one abstract
value; 0 is a page never written, `Basura` is what `malloc` returned.
`Punteros` is what `malloc` leaves in `puntero_indice`, which nobody
initialises. `viva` becomes FALSE where the code uses a NULL: no free frame,
or no entry in `contador_pid`, because `list_add_in_index` ignores an index
beyond the end while the kernel admits the last of New first.

The end of a process lists the frames of `comparador` (`KFinalizar`), frees them
one by one (`KLiberar`), each in its own critical section as
`liberarTodosLosMarcos` does, removes the file (`KBorrar`) and overwrites the
frames of its pages (`KLimpiar`).

The kernel asks about a process only when the CPU does not have it, and not
twice before it has run again (`vida`, `Despachar`): that is what the planners
do, since a process is suspended from Blocked and ended from Exit.

Taken as one step although two threads could interleave inside: a filter by
process (`pid_comparador` and `list_filter`), and the copy of a page together
with clearing its bit m, which the other thread does not read meanwhile.

### MemoriaVirtual

What `Memoria` promises with one client: `contenido` maps a page to its value,
a request is pending or not, and the last answer carries the value read.
`ImplementaVirtual` takes as the content of a page its good copy: its frame if it
was modified there, and its place in the swap file if not; without suspensions
an unmodified frame holds the same as the file. Everything that a page
fault does maps to a stutter; only the access is a step. The abstract
specification is fair, so the refinement also says that every request is
answered.

### Traduccion

`Recibir`, `Decodificar`, `Seguir`, `RecibirMarco`, `Ejecutar` and `Volver` are
the main thread of the CPU; `Memoria` runs under it, its kernel thread
included, which is kept off the process in the CPU as the planners do. `tlb`
is the list in the order of replacement that `OrdenReemplazo` shows the turns
to be, now with the frames. `instr` holds the pages not yet translated and the
frames already in hand: between the two translations of a COPY anything may
happen to the first. Algorithm of the TLB: LRU. A page holds the value of one
of its words; a WRITE of `Nada` is a write in another word, which sets bit m and
leaves the value as it is.

### Mensajes, Direcciones, Recepcion and Enlace

A stream is a sequence of items: a byte, or the body of a packet (its size and
fields, for which the code waits with `MSG_WAITALL`). `Entero` is four bytes.
`Esperada` is the loop `recibir_operacion_nuevo`/`switch` that passes over
codes that it does not know, which is how the last three bytes of the
handshake's code are lost. `Recepcion` has the thread of each connection with
its two critical sections and the global `consola`; `pisada` is a history of
the threads that were overtaken between them.

`Enlace` follows a program from its file to its last READ. Admission makes the
tables (`PagsProceso`, `Tp2Proceso`); the dispatch and its return carry the PCB
field by field; each instruction of memory is translated by the TLB or by TABLA
and MARCO, and executed by a request; memory is an array of bytes in which an
integer takes four. `LecturaEsperada` compares what each process read with
`Aparte`, the same program run alone on a flat memory. What other modules treat
is simple there: planning is FIFO, pages keep their frames, the TLB replaces
nothing, a send arrives whole, the numbers that go as bare integers are below
256.

What comes back from the CPU the kernel measures (`Devueltas`): a burst and an
estimate from the sets `Rafagas` and `Estimaciones`, or, of a preempted process,
an estimate of what is left; so the next trip carries other values than the last.
Frames are marked (`marcos`), and a process that ended is served by the thread of
the memory module that the kernel talks to, in two steps: `Finalizar` frees the
frames of `comparador`, whoever that is, and `Limpiar` overwrites those of the
process's pages. In between the other thread may serve page faults. The share of
frames and the replacement of `devolver_marco` never come to act here
(`MarcosAssumption`); they are in `Memoria`.

`caida` names the NULL on which a module ended: `configuracion_tabla` when a
page is translated before the handshake is answered, `contador_pid` when the
kernel admitted a later process first, `marcos` when a page fault finds every
frame taken (`Enlace` has no replacement).

## 3. Runs

| run | instance | what it shows |
|---|---|---|
| `fifo` | 3 processes, degree 2, FIFO; two block, one lacks EXIT | no list is read empty, no process lost or duplicated, degree respected, selection defined, dispatch in order of arrival |
| `fifo_fin` | 2 processes, the one that computes with the second identifier, FIFO, fairness | every process ends and its console is told, or the memory module dies of the missing counter; the threads implement `DiagramaEstados` |
| `srt` | 2 processes, SRT, two estimations | no list read empty, no process lost, selection defined, with preemption and late interrupts; refinement |
| `srt_desalojo` | violation | the token of `sem_desalojo` is taken with Ready empty |
| `fifo_aviso` | violation | a thread takes another thread's answer from the memory socket |
| `reemplazo` | TLB: 4 pages, 3 entries, 2 processes, FIFO and LRU; clocks: all lists of up to 4 pages | the TLB implements `OrdenReemplazo` and finds a victim while the counter is the length; CLOCK and CLOCK-M choose the page their definition says and move bits and hand right |
| `tlb_vaciado` | violation | after a flush FIFO finds no victim |
| `memoria_paginas` | 1 process, 3 pages, 2 of 3 frames, CLOCK-M, fairness | the module implements `MemoriaVirtual`: faults and replacements keep every page, reads are true, every request is answered |
| `traduccion` | 2 processes, 2 pages, one frame each, CLOCK, TLB of 2 | suspensions and ends of one process while the CPU translates for the other; stale entries never reach another process's frame; no value lost through a translation in force, but for what a suspension overwrites |
| `enlace` | 2 consoles with programs of all the instructions, 2 tables, 2 entries each, fairness | programs arrive whole, the streams keep in step, PCBs keep what is theirs, every READ is that of the program alone until the first end is served, every process ends and is served, or one of three NULLs is used |
| `memoria_finalizar` | violation | ending a process frees the frames of another |
| `memoria_archivo` | violation | a page is read from the file of another process |

### Findings

- `srt_desalojo`: `estadoReady` waits for `sem_desalojo` before it looks at
  Ready, against its comment. The post of `sem_ready` after EXIT finds Ready
  empty; the token is gone and the next ready process is never dispatched.
- `fifo_aviso`: `finalizarPcb`, `transicion_suspender` and the admission read
  one socket without a mutex. A console may be told of the end before the
  memory module has served the request.
- `tlb_vaciado`: `vaciarTlb` keeps `cantidad_de_traducciones`; later turns
  start above 0 and the FIFO victim is NULL.
- `memoria_finalizar`: `marcosPid` ignores its argument and filters by
  `comparador`, the process of the last page fault.
- `memoria_archivo`: `archivo_swap` is moved by one thread between another's
  `asignarAlArchivo` and its copy.

More that the models show and that have no run of their own. The properties
excuse them, each by a named condition. Of the first the repository promises the
contrary; of the others no doc or comment does.

- `suspender_proceso` should take the pages of the process from their frames, says
  its comment (`src/memoria/src/swap.c:70`), and `SUSPENDER_PROCESO` free its
  memory (`src/memoria/src/memoria.c:185`). It frees the frames of the modified
  pages only: the others stay present, with frames that `liberarMemoriaUsuario`
  overwrites with what `malloc` left. When the process comes back it reads that; a
  WRITE there sets bit m, and what it had written before is lost in the swap file
  too. `NadaSePierdeTraduciendo` bounds the damage to those pages.
- `estado_suspended_ready` removes the last of Suspended-Blocked and not the
  process whose I/O ended.
- The TLB keeps the entry of a page that its own process replaced: a later hit
  reads and writes a frame that holds another page. The same happens inside
  one COPY, whose second fault may evict the page of the first: always with one
  frame, and with CLOCK-M when that page was loaded and not yet used.
- The handshake's thread is not joined: the first translation may use a NULL.
- Two connections may make two PCBs of one program, because `consola` is global.
- `list_add_in_index` adds no `contador_pid` when the last of New is admitted
  first: the first page fault of that process, or its end, finds a NULL and the
  memory module dies. The kernel or the CPU may follow it at their next send, and
  consoles may wait for ever.
- The end of a process overwrites the frames of its pages after they were marked
  free: another process that took one in between reads garbage.
- Nothing splits an access of four bytes that crosses the end of a page: it
  goes on in the next frame, whoever owns it.

### Properties that carry a condition

- `MarcosPropios`, `CupoRespetado`, `Aislamiento`, `TlbCoherente`, `MarcosAlcanzan`
  and `NadaSePierdeTraduciendo` are stated until a process ends (`SinFines`):
  from then on `memoria_finalizar` applies.
- `NadaSePierdeTraduciendo` is about what a process finds in a page (`Visible`):
  its frame when it is present, modified or not, and the swap file otherwise. It
  leaves out the pages copied through another process's file (`OtroArchivo`,
  `TraidaDeOtro`: that is `memoria_archivo`), the instructions one of whose
  translations is out of date (`Vigente`), and what a suspension throws away: the
  step that overwrites the frame of a page still present (`Limpiada`) and that
  page from then on (`Danada`: what it shows is not its good copy) until it is
  written, when what is shown becomes the good copy, or leaves the frame, when
  the file is seen again. `TlbCoherente` says how far out of date an entry can
  be: only while its page is out of memory.
- `LecturaEsperada` is stated until the memory module begins to serve the first
  end of a process (`SinFines` of `Enlace`): an end frees the frames of another
  process, or overwrites one that another has taken. TLC refutes it without the
  condition. `MarcosAssumption` gives each process a frame for each of its pages,
  so that none is replaced (a stale TLB entry would read another page), and
  `Enlace` suspends nobody.
- `TodasFinalizan` excuses the runs in which the memory module dies, and
  `AvisoTrasLiberar` asks about those in which it lives.
- `LecturaFiel` and `ImplementaVirtual` are checked without suspensions, because
  an unmodified page is garbage after one. `ImplementaVirtual` has one process,
  numbered 0, for which `contador_pid` always has an entry and a frame is free.
- `MarcosAlcanzan` asks for `MARCOS_POR_PROCESO` frames per process and excuses
  the processes that `contador_pid` does not count.
- `ProcesoPropio` excuses the threads in `pisada` from having their own program,
  and not from having an identifier of their own.
- `TodosTerminan` excuses the three NULLs of `caida`. `ArchivosAssumption` has the
  numbers of a file without sign, as the `uint32_t` that they are read into.
  `ProgramasAssumption` keeps the accesses within the process and within a page,
  and has programs end in EXIT (the other case is in `fifo`).
  `ConsolasAssumption` has finitely many consoles, each a connection.

### Bounds

- *Planners.* Two or three processes, programs of one to three instructions.
  Two processes put two threads against each other on every list, and the
  third, in `fifo`, waits for the degree while the others hold it. A program
  has at most one I/O, so a run ends; the threads that matter to one I/O meet
  all the others in it. Interrupts in flight are not bounded by hand: each
  follows an admission or an I/O, of which there are finitely many. In the runs
  of FIFO the process that computes has the second identifier, so that both
  orders of admission happen and one of them kills the memory module; in those
  of SRT it has the first.
- *TLB.* `MaxTurno = 7` bounds counters that otherwise never stop. With three
  entries seven steps fill, hit, replace every entry and flush.
- *Reloj.* Four pages give every relative place of the hand, the victim and
  the wrap-around. Every combination of bits is an initial state, hands that
  cannot be there included.
- *Two algorithms in one run.* `MCReemplazo` gives TLC the TLB and the clocks
  together. They share no variable: the initial state says which takes steps,
  so the states are the sum of both, and every property of one is true of the
  initial values of the other.
- *Memoria.* Two frames per process are the least with a choice of victim, and
  three pages the least that replace both; a third frame lets a process
  exceed its share. There programs write 0 and 1, so that a lost second write shows.
- *Traduccion.* One frame per process and two pages make every second access a
  replacement; the frames of the two processes are all there are, so what one
  frees the other takes. A TLB of two entries keeps the entry of the page
  replaced, which is the case of interest. Process 0 writes and copies,
  process 1 takes the frame away. A write in another word is one that
  leaves the value as it is: after it a page that a suspension overwrote counts as
  modified. There is no READ in it: what one does to a page, a COPY does too.
- *Enlace.* Two consoles give both orders of connection, of identifiers and of
  admission, and the overtaking in `consola`. The first program needs pages in
  two tables of the second level, so both entries of an address matter, and has
  a hit and misses, a COPY between pages, an I/O in the middle and a value of two
  bytes; the second writes another value at the same address and reads a byte
  never written. An interrupt may come at every instruction. Memory is larger
  than the pages need: a page fault without a free frame is `Memoria`'s. One estimate and one
  burst, both different from the initial ones, are enough to tell the trips apart.

`CHECK_DEADLOCK FALSE` in every configuration: programs end, counters reach
their bound, a NULL stops a module.

### Fairness

`Planificador!FairSpec` is weak fairness of each thread, of the CPU, of the
memory module and of the delivery of messages: they are POSIX threads and TCP
connections that nothing else delays, and a `sem_wait` has one waiter per
semaphore, so weak fairness is enough. The deaths of `CpuMemoria` may happen and
need not. `Memoria!FairSpec` is weak fairness of
the thread that serves the CPU while the module lives: once it has a request it
goes on, since it waits for nobody; nothing obliges the CPU or the kernel to
ask. `SpecEnlace` is weak fairness of each thread (each console's, the kernel's
planners as one, the CPU's two, the memory's two); `Interrumpir` is not fair. The
liveness of the planners is checked under FIFO only: under SRT the lost token
stops the system.

## 4. Proofs

TLC checks instances; the theorems hold for every value of the constants. They
assume the `ASSUME`s of the modules they extend and nothing else, but for
`AlcanzanSiempre`, which supposes finitely many processes. Every inductive
invariant was checked by TLC before it was proved: those of the planners on the
instances of `fifo` and `srt`; those of `EnlaceInv` on that of `enlace`; those of
`MemoriaInv` on the instance of `traduccion`, on the memory alone with CLOCK-M,
suspensions and ends of two processes, and, for `DatosOK` and `RespuestaOK`, on two
processes of three pages without them.

| theorem | of | what it says |
|---|---|---|
| `TypeCorrect` | `PlanificadorCuentas` | `TypeOK` of the planners |
| `CuentasCorrectas` | `PlanificadorCuentas` | the semaphores count the lists |
| `SinListaVacia`, `SeleccionFifo` | `PlanificadorCuentas` | `NuncaListaVacia`; under FIFO `SeleccionDefinida` |
| `RepartoCorrecto`, `UnLugarSiempre` | `PlanificadorLugares` | who is where; `UnSoloLugar` |
| `GradoSiempre`, `FifoSiempre` | `PlanificadorLugares` | `GradoRespetado`; under FIFO `OrdenFifo` |
| `DiagramaImplementado` | `PlanificadorDiagrama` | `ImplementaDiagrama`: the threads follow the seven-state diagram |
| `TlbBienFormada`, `VictimaSiempre` | `ReemplazoProofs` | `TypeOK` of the TLB; `VictimaSiCuenta` |
| `OrdenImplementado` | `ReemplazoProofs` | `ImplementaOrden`: the turns are a list of pages, by arrival or by last use |
| `VictimaDeLaClase`, `RotacionSiempre` | `ReemplazoProofs` | `VictimaCorrecta` and `RotacionCorrecta`, for lists of any length |
| `MemoriaTipo`, `ArchivoSiempre` | `MemoriaProofs` | `TypeOK` and `ArchivoMapeado` of the memory module |
| `MarcosSiempre`, `CupoSiempre` | `MemoriaProofs` | `MarcosPropios` and `CupoRespetado` |
| `LecturaSiempre`, `VirtualImplementada` | `MemoriaProofs` | without suspensions nor ends, `LecturaFiel` and the safety part of `ImplementaVirtual` |
| `TraduccionTipo` | `TraduccionProofs` | `TypeOKTraduccion` |
| `ModuloTraduciendo` | `TraduccionProofs` | `MarcosPropios`, `CupoRespetado`, `ArchivoMapeado` under the CPU |
| `AislamientoSiempre`, `TlbSiempre` | `TraduccionProofs` | `Aislamiento`, `TlbCoherente` |
| `NadaSePierdeSiempre` | `TraduccionProofs` | `NadaSePierdeTraduciendo`, with the exceptions of section 3 |
| `AlcanzanSiempre` | `TraduccionProofs` | `MarcosAlcanzan` |
| `ProcesoSiempre` | `EnlaceProofs` | `ProcesoPropio` |
| `PcbFielSiempre`, `CanalesSiempre` | `EnlaceProofs` | `PcbFiel`, `CanalesEnOrden` |
| `LecturaSiempreEsperada` | `EnlaceProofs` | `LecturaEsperada`: what every READ logs, from the file of the program to the byte, until the first end of a process is served |

The proofs go step by step: one lemma per kind of step (wait, post, add,
remove, request, answer) or per piece of an invariant, then one case per
action.

### The planners

*Counts.* `NuncaListaVacia` is not inductive: that a list has a member when its
thread removes from it follows from a `sem_wait` several steps earlier.
`Cuentas` says for each semaphore that its value, plus the threads that are
between the semaphore and the list, is the length of the list (`CuentaExec`,
`CuentaBlocked`, `CuentaExit`, `CuentaSusp`), of two lists together
(`CuentaAdmitir`, plus the consoles' threads between their add and their post),
or the degree (`CuentaGrado`). `sem_ready` has no such equation (it is posted
for EXIT without an add, and `estadoReady` looks before it removes): what holds
there is `Vigentes`, that what a thread saw under a mutex it released still
holds because nobody else removes. `CpuDeExec` fixes the program counter of the
process that came back, which decides the list it is added to. The invariant is
`TypeOK /\ Cuentas /\ CpuDeExec /\ Vigentes`.

*Places.* The lists and the hands of the threads are zones (`Zonas`); `Reparto`
says which processes are in each. A step leaves the zones as they are, moves one
process from one to another, brings in the one whose console connects or lets
out the one whose console is told of the end. `LugaresOK` says that the zones
are disjoint, that together they are `EnCurso`, that no list holds a process
twice, and (`Cabeza`) that the process in the hands of `estadoExec` is the
first of Exec: without it removing the head of Exec could remove another. A
process being preempted is in Ready and in Exec between two steps: `Vista`
takes it out of Exec then, and `CuentaGrado` counts it twice. `GradoRespetado`
follows from `CuentaGrado` and the zones. Under FIFO nobody interrupts
(`SinInterrupciones`), and Exec, the hand of `estadoReady` and Ready are one
queue, which each step leaves, extends at its end or takes the first of:
`OrdenFifo`.

*Diagram.* Each step maps to the transition of the zone that changed. New and
Suspended-Ready are told apart in the hands of the admission by whether the
process has executed, so the invariant also needs `Contadores`: who has a
program counter above 0. The bounds of `DiagramaEstados` on the admitted and
the executing are the degree and the zones again.

### Replacement

*CLOCK and CLOCK-M.* `ClockDesde` and `Pasadas` are functions defined by
recursion on the bits u. That a function with such an equation exists is shown
by giving one in closed form (the victim is the first page not used from the
hand, or the hand itself when all are used), and that it is that one by taking
the argument with fewest bits u for which the two would differ. `ClockM` ends
because after one pass over all pages none is used. From the closed forms
follow the class and the place of the victim, the bits that the walk takes and
the hand that it leaves.

*TLB.* `VictimaSiCuenta` needs that, under FIFO and until a flush, the turns are
the numbers from 0 to one less than the entries, in some order: a replacement
lowers all the turns and gives the last one to the page that comes.

`OrdenImplementado` needs of the turns that no two are equal, that none is below 0
and that under FIFO the counter is above them all (`OrdenOK`), which holds after
a flush too, when they no longer are the first numbers. A total order gives each
entry a place (`Rangos`, `PuestoDe`); a translation either adds an entry after all
the others or gives one the last turn and leaves the others in their order
(`PasoNueva`, `PasoUltima`), and what is replaced is the first (`PrimeraVictima`).
So each step is one of the list: at its end, or from its middle or its head to its
end.

### Memory

`InvM` is the conjunction of the parts of `MemoriaInv`, each needed by the next:

- `HilosOK`: each thread's process is alive, the two differ, and what the CPU's
  thread looked up some steps ago (a page absent, a frame chosen) still holds.
- `ArchivosOK`: `archivo_swap`, moved by both threads, points at the file of
  a process that lives as long as the copy. `ArchivoMapeado` is this.
- `MarcasOK`: every marked frame has its page, or its page on the way, so
  a process that has used up its frames has a victim; an absent page is not
  modified.
- `RestoOK` and `ModificadasOK`: the pages that a suspension has still to write are
  present, modified and different, and no other is modified.
- `PropiosOK` and `CupoOK` (until a process ends): marks and pages are one to
  one, but for the frame that a suspension frees before it clears the
  bit of its page (`Soltandose`, `Propios`), and within the share.
- `RespuestaOK`: what `devolver_marco` answers is the frame of the page.

`VictimaElegida` needs the pages of a process numbered by their frames: the list
`EnOrden` is shown to be a permutation of them by counting who comes before
each.

Without suspensions nor ends `DatosOK` adds that a page not modified is the
one in its file (`LimpiasOK`) and that what the thread has in hand is what
`traerPaginaAMemoria` read. With it every step but the access leaves the
contents that `ImplementaVirtual` sees as they were.

### The CPU over the memory

The steps of `Memoria` under the CPU keep `InvM`, since the CPU asks only for
the process it has, which the kernel leaves alone. To that are added:

- `TlbOK`: the request pending is for the page that the instruction translates
  next, and all the entries are of one process (`Dueno`).
- `MarcosTlbOK`: the frame of an entry is marked with that process or with
  nobody. An entry says no process: that the flush at the change of process is
  enough is this invariant, and `Aislamiento` follows.
- `TlbCoherente`: it is inductive with the two before.

`NadaSePierdeTraduciendo` is proved by what a page shows (in its frame or in its
file) over each action, which needs that a page is written back before its frame
is used and that two pages share no frame (`PropiosOK`). A page that is not
damaged shows its good copy, so what the swap file has of it may come and go; the
hypotheses on `Danada` and `Limpiada` are used where a suspension overwrites the
frames, and nowhere else.

`MarcosAlcanzan` is a pigeonhole: if every frame were marked, the number of frames
would be the sum of the marks of each process, hence at most
`MARCOS_POR_PROCESO` for each and one less for the one that asks. It needs the
processes to be finitely many; they are, each is a connection.

### The streams

For any number of consoles, programs of any length and any sizes of pages and
tables. The readers are lemmas: `EsperadaEn` (the loop stops at the first
operation it waits for), `EsperadaPaquete` (a packet is received, alone or
behind the three bytes that the handshake leaves), `PcbVuelta` (a PCB with any
list of instructions comes out as it went in), `MensajeVuelta` (so does what a
console sends) and `ProgramaTipo`: what a console parses is a program. The invariant has
three parts, each preserved with the help of those before:

- `InvR`: where each connection is decides what its stream holds; the global
  `consola` is some console's program, and that of the thread which is to make
  a PCB unless another overtook it; identifiers are below `generador_de_id`.
- `InvK`: the PCBs of the queues are those made, further on (`Hechas`), and those
  that have not ended have an instruction left (`Vivas`). The process in Exec is
  on its way to the CPU, in it, or on its way back (`ExecOK`), and the two
  streams hold its PCB or nothing.
- `InvC`: what the streams of CPU and memory hold at each place of the main
  thread and of the handshake's: the request, its answer, or none if a NULL ended
  the module. That an operation of the memory is asked for by the place that
  waits for it is `QuienPide`.

`LecturaEsperada` relates what was logged long ago to a run that never happens,
of the same program alone. Its invariant, `InvE`, holds until the memory module
begins to serve an end (`FinOK` says where that thread can be, and `SinFines`
that it has not begun: once false it stays so). It adds to those three, each
preserved with the help of those before:

- `UnaVez`: a process is in one queue, once, and `EnExec` is its PCB as the
  kernel or the CPU has it. Since `generador_de_id` counts the PCBs made
  (`CuentaOK`), a process is one identifier from end to end.
- `TablasOK`: each process has tables of its own and enough of them
  (`MarcoCabe`, from the two ceilings of `PagsProceso` and `Tp2Proceso`), and
  no frame is in two entries and those of the entries are marked, so the next one
  free is nobody's (`MarcosOK`). An address translates to a place of no other
  process and no other page (`FisicaDe`).
- `FisicasOK`, `TlbOK`, `ContenidosOK`: the addresses already translated, the
  entries of the TLB, and the request or answer in a stream are those of the
  page in hand. The TLB is that of `ultimo_pid` between bursts: that it is
  emptied when another process comes, and only then, is enough.
- `MemoriaPropia`: each byte of an admitted process, in its frame or zero if it
  has none, is that of its program run alone. A write is in memory before the
  program counter moves, so `Escritas` is one ahead while its answer travels.
- `LeidosOK`: so are the values read, and the answer to a READ on its way.

`Aparte` is a recursive function over the instructions done. That a function with
its equation exists (`AparteEcuacion`) is shown by taking the least number of
instructions for which there would be none. From there each step of the system
does at most one instruction more (`AparteSigue`), so the induction is that of
the behaviour.

### Model-checked only

- Liveness: `TodasFinalizan`, `TodosTerminan`, and in `ImplementaVirtual` that every
  request is answered. The prover does not reason about fairness.

## 5. Not modelled

- The race of `pid_comparador` inside one `list_filter`: the filter is a step.
- The arithmetic of estimations: `Planificador` lets SRT choose any process.
- Sends that arrive in pieces, and failures of `open`, `mmap` and sockets: the
  code ends the program or takes no notice, and no module outlives another.
- Code that nothing calls: `serializar_pcb`, `deserializar_pcb`,
  `enviar_mensaje`, `recibe_paquete`.
- Configuration, logs, waits that only delay: no state that others see.
- What happens after a process of the system dies, but for the planners and the
  CPU going on without the memory module until a send kills them.
- Leaks and frees, but for what the next user of the memory reads.

## 6. Plan

1. `Filtros`: `pid_comparador` changed in the middle of a filter.
2. The estimations: `rafaga_anterior` in one byte and an estimation below zero,
   against the average they stand for.
