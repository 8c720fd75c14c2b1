----------------------------- MODULE MemoriaInv ------------------------------
(***************************************************************************)
(* What the steps of the two threads of the memory module preserve, alone  *)
(* or under the CPU of Traduccion: the invariants of the proofs.           *)
(***************************************************************************)
EXTENDS Traduccion

En(lugares) == cpu.en \in lugares
KEn(lugares) == kernel.en \in lugares

\* Who each thread works for, and what it has looked up.
HilosOK ==
    /\ cpu.en # "libre" => /\ cpu.p \in Procesos /\ cpu.g \in Paginas
                           /\ vida[cpu.p] = "activo" /\ kernel.p # cpu.p
    /\ kernel.en # "libre" => kernel.p \in Procesos
    /\ KEn({"listar", "bajar", "soltar", "bits"}) => vida[kernel.p] = "listo"
    /\ KEn({"liberar"}) => vida[kernel.p] = "fin"
    /\ KEn({"limpiar"}) => vida[kernel.p] \in {"listo", "fin"}
    /\ En({"ocupar", "reemplazar", "escribir"}) => ~ Pedida.p
    /\ En({"escribir", "asignar", "traer", "cargar", "acceder"}) => cpu.marco \in Marcos
    /\ En({"cargar"}) => cpu.dato \in Valores \cup {Basura}

\* archivo_swap is moved by both threads, but only to files of processes that live
\* as long as the copy lasts.
ArchivosOK ==
    /\ Activos \subseteq archivos
    /\ En({"escribir", "traer"}) \/ KEn({"bajar", "soltar", "bits"}) => archivo \in Activos
    /\ En({"escribir", "traer"}) => archivo = cpu.p \/ vida[archivo] = "listo"

\* A frame that the CPU's thread holds between taking it and loading it.
Cargandose(q, f) == En({"asignar", "traer", "cargar"}) /\ cpu.p = q /\ cpu.marco = f

\* Every mark has its page, or its page on the way, and absent pages are not modified.
MarcasOK ==
    /\ \A q \in Procesos, g \in Paginas : LET e == tabla[q][g] IN
         /\ e.p => e.marco \in Marcos /\ vida[q] # "fuera"
         /\ ~ e.p => ~ e.m
    /\ \A f \in Marcos, q \in Procesos : marcos[f] = q =>
         /\ vida[q] # "fuera"
         /\ Cargandose(q, f) \/ \E g \in Paginas : tabla[q][g].p /\ tabla[q][g].marco = f
    /\ KEn({"bits"}) => marcos[tabla[kernel.p][Head(kernel.resto)].marco] # kernel.p
    /\ En({"reemplazar"}) => Presentes(cpu.p) # {}
    /\ En({"escribir"}) => /\ cpu.dato \in Presentes(cpu.p)
                           /\ tabla[cpu.p][cpu.dato].marco = cpu.marco
                           /\ tabla[cpu.p][cpu.dato].m

\* The pages that escribirPaginasModificadas has still to take out.
RestoOK ==
    KEn({"bajar", "soltar", "bits"}) =>
        /\ kernel.resto # <<>>
        /\ \A i \in DOMAIN kernel.resto : kernel.resto[i] \in Presentes(kernel.p)
        /\ \A i, j \in DOMAIN kernel.resto : kernel.resto[i] = kernel.resto[j] => i = j
        /\ \A i \in DOMAIN kernel.resto :
             KEn({"bajar"}) \/ i # 1 => tabla[kernel.p][kernel.resto[i]].m

\* The frames marked with a process, and the one that is being taken from it.
Propios(q) ==
    Usados(q) \cup (IF KEn({"bits"}) /\ kernel.p = q
                    THEN {tabla[q][Head(kernel.resto)].marco} ELSE {})

\* While no process has ended, marks and pages are one to one, and nobody has more
\* marks than MARCOS_POR_PROCESO.
PropiosOK == SinFines =>
    /\ \A q \in Procesos, g \in Paginas : tabla[q][g].p /\ ~ Soltandose(q, g) =>
         marcos[tabla[q][g].marco] = q
    /\ \A q \in Procesos, g, h \in Paginas :
         /\ tabla[q][g].p /\ ~ Soltandose(q, g)
         /\ tabla[q][h].p /\ ~ Soltandose(q, h)
         /\ tabla[q][g].marco = tabla[q][h].marco
         => g = h
    /\ En({"asignar", "traer", "cargar"}) =>
         /\ marcos[cpu.marco] = cpu.p
         /\ \A g \in Presentes(cpu.p) : tabla[cpu.p][g].marco = cpu.marco => g = cpu.g

CupoOK == SinFines =>
    /\ \A q \in Procesos : Cardinality(Propios(q)) <= MarcosPorProceso
    /\ En({"ocupar"}) => Cardinality(Usados(cpu.p)) < MarcosPorProceso

\* The pages of the process that is being suspended that are still modified.
ModificadasOK == SinFines =>
    /\ KEn({"bajar"}) => \A g \in Paginas : tabla[kernel.p][g].m =>
         \E i \in DOMAIN kernel.resto : kernel.resto[i] = g
    /\ KEn({"soltar", "bits"}) => \A g \in Paginas : tabla[kernel.p][g].m =>
         \E i \in DOMAIN kernel.resto : i # 1 /\ kernel.resto[i] = g
    /\ KEn({"limpiar"}) /\ vida[kernel.p] = "listo" => \A g \in Paginas : ~ tabla[kernel.p][g].m

\* What devolver_marco is about to answer, and what it answers.
RespuestaOK ==
    /\ En({"asignar", "traer", "cargar"}) =>
         ~ Pedida.m /\ (Pedida.p => Pedida.marco = cpu.marco)
    /\ En({"acceder"}) => Pedida.p /\ Pedida.marco = cpu.marco

-----------------------------------------------------------------------------
(* Without suspensions nor ends.                                           *)

\* A page in memory that was not modified is the one in its file.
LimpiasOK ==
    \A q \in Procesos, g \in Paginas : LET e == tabla[q][g] IN
        e.p /\ ~ e.m /\ ~ Trayendose(q, g) => usuario[e.marco] = swap[q][g]

\* The kernel's thread stays idle and archivo_swap is that of the CPU's process.
DatosOK == Pedidos = {} =>
    /\ kernel.en = "libre" /\ SinFines
    /\ En({"escribir", "traer"}) => archivo = cpu.p
    /\ En({"cargar"}) => cpu.dato = swap[cpu.p][cpu.g]
    /\ LimpiasOK

-----------------------------------------------------------------------------
(* The CPU.                                                                *)

\* The memory works for the process in the CPU and for the page that its instruction
\* translates next, which the TLB lacks; the TLB has the pages of one process.
TlbOK ==
    /\ cpu.en # "libre" => cpu.p = pid /\ cpu.w = Nada /\ ~ EnTlb(cpu.g)
    /\ cpu.en # "libre" => instr.paginas # <<>> /\ Head(instr.paginas) = cpu.g
    /\ pid # Nada => vida[pid] = "activo" /\ kernel.p # pid
    /\ ultimo # Nada => vida[ultimo] # "fuera"
    /\ instr # Ninguna => pid # Nada /\ instr.op # "ninguna"
    /\ Dueno = Nada => tlb = <<>>
    /\ instr.paginas # <<>> \/ instr.marcos # <<>> => instr # Ninguna
    /\ Len(instr.hechas) = Len(instr.marcos)
    /\ instr.op \in {"READ", "WRITE"} => Len(instr.paginas) + Len(instr.hechas) = 1
    /\ instr.op = "COPY" => Len(instr.paginas) + Len(instr.hechas) = 2
    /\ \A i, j \in DOMAIN tlb : tlb[i].pagina = tlb[j].pagina => i = j

\* Nobody but the process of the translations has taken their frames.
MarcosTlbOK == SinFines =>
    /\ \A i \in DOMAIN tlb : marcos[tlb[i].marco] \in {Dueno, Nada}
    /\ Aislamiento
=============================================================================
