----------------------------- MODULE Traduccion -----------------------------
(***************************************************************************)
(* The MMU and the TLB of the CPU over the memory module: the main thread  *)
(* of the CPU dispatches a process, translates the addresses of its        *)
(* instructions, from the TLB or asking the memory, and then reads, writes *)
(* or copies in the frames it got.  Nobody tells the CPU that a page left  *)
(* its frame.                                                              *)
(*                                                                         *)
(* The TLB is the list of its pages in the order of replacement, which the *)
(* turns of tlb.c implement (Tlb, OrdenReemplazo), under LRU.              *)
(***************************************************************************)
EXTENDS Memoria

CONSTANTS
    EntradasTlb,       \* ENTRADAS_TLB
    Programas(_)       \* the instructions of memory in the program of each process

ASSUME EntradasTlbAssumption == EntradasTlb \in Nat \ {0}

VARIABLES
    pid,       \* the process in the CPU
    ultimo,    \* ultimo_pid
    tlb,       \* tlb->lista, the next to be replaced first
    instr      \* the instruction: its pages to translate, the frames translated

varsCpu == <<pid, ultimo, tlb, instr>>
varsTodo == <<vars, varsCpu>>

Ninguna == [op |-> "ninguna", paginas |-> <<>>, marcos |-> <<>>, hechas |-> <<>>,
            w |-> Nada]

InitTraduccion ==
    /\ Init
    /\ pid = Nada
    /\ ultimo = Nada
    /\ tlb = <<>>
    /\ instr = Ninguna

\* READ, WRITE and COPY, which gives first the page it writes.  A WRITE of Nada
\* writes in another word of the page.
Read(g) == [Ninguna EXCEPT !.op = "READ", !.paginas = <<g>>]
Write(g, w) == [Ninguna EXCEPT !.op = "WRITE", !.paginas = <<g>>, !.w = w]
Copy(d, o) == [Ninguna EXCEPT !.op = "COPY", !.paginas = <<d, o>>]

Instrucciones ==
    {Read(g) : g \in Paginas} \cup {Copy(d, o) : d \in Paginas, o \in Paginas}
      \cup {Write(g, w) : g \in Paginas, w \in Escritos \cup {Nada}}

ASSUME ProgramasAssumption == \A q \in Procesos : Programas(q) \subseteq Instrucciones

-----------------------------------------------------------------------------
(* The main thread of the CPU.                                             *)

\* Mistake: the TLB is emptied when the same process comes back.
TlbDeAlReves(q) == IF ultimo = q THEN <<>> ELSE tlb

\* PCB received: the TLB is emptied if it may hold the pages of another process.
TlbDe(q) == IF ultimo # q THEN <<>> ELSE tlb

Recibir(q) ==
    /\ pid = Nada
    /\ vida[q] \in {"listo", "activo"} /\ kernel.p # q
    /\ pid' = q
    /\ tlb' = TlbDe(q)
    /\ vida' = [vida EXCEPT ![q] = "activo"]
    /\ UNCHANGED <<marcos, tabla, usuario, swap, archivos, archivo, comparador,
                   contadores, cpu, kernel, viva, ultimo, instr>>

\* checkInterrupt: the process goes back to the kernel.
Volver ==
    /\ pid # Nada /\ instr = Ninguna
    /\ ultimo' = pid
    /\ pid' = Nada
    /\ UNCHANGED <<vars, tlb, instr>>

\* The next page of an instruction is translated to frame f.
Traducida(i, f) ==
    [i EXCEPT !.paginas = Tail(@), !.hechas = Append(@, Head(i.paginas)),
              !.marcos = Append(@, f)]

\* buscar_en_la_tlb
EnTlb(g) == \E k \in DOMAIN tlb : tlb[k].pagina = g

SinLugar(s, k) == [i \in 1..(Len(s) - 1) |-> IF i < k THEN s[i] ELSE s[i + 1]]

\* tlb_hit
Acierto(i) ==
    /\ \E k \in DOMAIN tlb :
         /\ tlb[k].pagina = Head(i.paginas)
         /\ tlb' = Append(SinLugar(tlb, k), tlb[k])
         /\ instr' = Traducida(i, tlb[k].marco)
    /\ UNCHANGED vars

\* obtener_marco: the memory is asked.
Fallo(i) ==
    /\ ~ EnTlb(Head(i.paginas))
    /\ CpuPedir(pid, Head(i.paginas), Nada)
    /\ instr' = i
    /\ UNCHANGED tlb

\* traducir_dir_logica
Traducir(i) == (Acierto(i) \/ Fallo(i)) /\ UNCHANGED <<pid, ultimo>>

\* decode: ejecutarREAD, ejecutarWRITE, ejecutarCOPY, up to the first translation.
Decodificar ==
    /\ pid # Nada /\ instr = Ninguna
    /\ \E i \in Programas(pid) : Traducir(i)

\* The second translation of ejecutarCOPY.
Seguir ==
    /\ instr.marcos # <<>> /\ instr.paginas # <<>>
    /\ cpu.en = "libre"
    /\ Traducir(instr)

\* Mistake: the entry is made before the memory answers.
AgregadaAntes(t) == Append(tlb, [t EXCEPT !.marco = Nada])

\* tlb_miss
Agregada(t) == Append(IF Len(tlb) < EntradasTlb THEN tlb ELSE Tail(tlb), t)

\* The memory answered MARCO.
RecibirMarco ==
    /\ cpu.en = "acceder"
    /\ tlb' = Agregada([pagina |-> cpu.g, marco |-> cpu.marco])
    /\ instr' = Traducida(instr, cpu.marco)
    /\ cpu' = Reposo
    /\ UNCHANGED <<marcos, tabla, usuario, swap, archivos, archivo, comparador,
                   contadores, vida, kernel, viva, pid, ultimo>>

\* The frame that an instruction writes, the frame that it reads, and what the
\* page it writes holds afterwards.
Destino == instr.marcos[1]
Origen == instr.marcos[Len(instr.marcos)]
Escrito == IF instr.op = "COPY" THEN usuario[Origen]
           ELSE IF instr.w = Nada THEN usuario[Destino] ELSE instr.w

Completa == instr # Ninguna /\ instr.paginas = <<>>

\* manejo_instrucciones: READ, WRITE and COPY in the frames that the CPU sent.
Ejecutar ==
    /\ Completa
    /\ usuario' = IF instr.op = "READ" THEN usuario
                  ELSE [usuario EXCEPT ![Destino] = Escrito]
    /\ tabla' = LET leida == IF instr.op = "WRITE" THEN tabla
                             ELSE Marcada(tabla, Origen, Nada)
                IN  IF instr.op = "READ" THEN leida
                    ELSE Marcada(leida, Destino, Escrito)
    /\ instr' = Ninguna
    /\ UNCHANGED <<marcos, swap, archivos, archivo, comparador, contadores, vida, cpu,
                   kernel, viva, pid, ultimo, tlb>>

-----------------------------------------------------------------------------
(* The memory module, as the CPU and the kernel drive it: the kernel asks  *)
(* nothing about the process that the CPU has.                             *)

Modulo == (CpuMarco \/ Kernel(Procesos \ {pid})) /\ UNCHANGED varsCpu

HiloCpu == Decodificar \/ Seguir \/ Volver \/ RecibirMarco \/ Ejecutar

NextTraduccion ==
    /\ viva
    /\ (\E q \in Procesos : Recibir(q)) \/ HiloCpu \/ Modulo

SpecTraduccion == InitTraduccion /\ [][NextTraduccion]_varsTodo

-----------------------------------------------------------------------------
(* Properties.                                                             *)

TypeOKTraduccion ==
    /\ TypeOK
    /\ {pid, ultimo} \subseteq Procesos \cup {Nada}
    /\ tlb \in Seq([pagina : Paginas, marco : Marcos])
    /\ Len(tlb) <= EntradasTlb
    /\ instr \in [op : {"ninguna", "READ", "WRITE", "COPY"}, paginas : Seq(Paginas),
                  hechas : Seq(Paginas), marcos : Seq(Marcos), w : Valores \cup {Nada}]

\* Whose translations the TLB holds.
Dueno == IF pid # Nada THEN pid ELSE ultimo

\* A translation of the instruction in execution is still that of its page.
Vigente(i) ==
    LET e == tabla[pid][instr.hechas[i]] IN e.p /\ e.marco = instr.marcos[i]

\* No process ever reads or writes in a frame that is marked with another, though
\* the entries of the TLB do not say whose they are and nobody takes them out
\* when the pages leave their frames.
Aislamiento == SinFines =>
    \A i \in DOMAIN instr.marcos : marcos[instr.marcos[i]] \in {pid, Nada}

\* An entry of the TLB is out of date only while its page is out of memory: a
\* page that was taken out, suspended and brought back to another frame is never
\* left translated to the old one.
TlbCoherente == SinFines =>
    \A i \in DOMAIN tlb : LET e == tabla[Dueno][tlb[i].pagina] IN
        e.p => e.marco = tlb[i].marco

\* The step ends an instruction that writes page g of process q.
Ejecuta == Completa /\ instr' = Ninguna
EjecutaEn(q, g) == Ejecuta /\ instr.op # "READ" /\ q = pid /\ g = instr.hechas[1]

\* The page that devolver_marco brings: its frame is taken and not yet loaded.
Trayendose(q, g) == cpu.en \in {"asignar", "traer", "cargar"} /\ cpu.p = q /\ cpu.g = g

\* What the process finds in a page: what its frame holds, modified or not, and
\* what will be brought if it has none.
Visible(q, g) ==
    LET e == tabla[q][g] IN
    IF e.p /\ ~ Soltandose(q, g) /\ ~ Trayendose(q, g) THEN usuario[e.marco] ELSE swap[q][g]

\* Its frame was overwritten and not modified since.
Danada(q, g) == Visible(q, g) # Contenido(q, g)

\* The step is liberarMemoriaUsuario, and the page is still in its frame: a
\* suspension takes out the modified pages only.
Limpiada(q, g) ==
    kernel.en = "limpiar" /\ kernel' = Descanso /\ kernel.p = q /\ tabla[q][g].p

\* The page in hand was read from the file of another process.
TraidaDeOtro == cpu.en = "cargar" /\ cpu.dato # swap[cpu.p][cpu.g]

\* Nothing that a process wrote is lost but what a suspension throws away: an
\* instruction leaves its value in the page it writes, and translating, replacing,
\* taking modified pages out and serving other processes leave what every page
\* shows as it is.  Excepted are the copies from or to the file of another process
\* (OtroArchivo, TraidaDeOtro), the translations that are out of date, and the
\* unmodified pages that a suspension leaves present in overwritten frames
\* (Limpiada), from then on until they are replaced or written (Danada).  A write
\* in another word of such a page makes what is in the frame its good copy: what
\* the process wrote before is lost for ever.
NadaSePierdeTraduciendo ==
    [][/\ SinFines /\ ~ OtroArchivo /\ ~ TraidaDeOtro
       /\ Ejecuta => \A i \in DOMAIN instr.marcos : Vigente(i)
       => \A q \in Activos, g \in Paginas :
            ~ Danada(q, g) /\ ~ Limpiada(q, g) =>
                /\ Visible(q, g)' = IF EjecutaEn(q, g) THEN Escrito ELSE Visible(q, g)
                /\ ~ Danada(q, g)']_varsTodo

\* With MARCOS_POR_PROCESO frames for each process, no page fault finds them all
\* taken, suspensions and replacements included: the module ends on a NULL only if
\* a process that it does not count faults (list_add_in_index).
MarcosAlcanzan ==
    /\ SinFines
    /\ Cardinality(Marcos) >= MarcosPorProceso * Cardinality(Procesos)
    /\ \A q \in Activos : q < contadores
    => viva
=============================================================================
