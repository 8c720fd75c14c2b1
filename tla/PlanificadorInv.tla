--------------------------- MODULE PlanificadorInv --------------------------
(***************************************************************************)
(* Why the semaphores are right: how the value of each one, the length of  *)
(* the list it announces and the steps of the threads that are between the *)
(* list and the semaphore add up.  These are the inductive invariants of   *)
(* the proofs; TLC checks them on the instances of MCPlanificador.         *)
(***************************************************************************)
EXTENDS Planificador

N(c) == Len(cola[c])
Uno(b) == IF b THEN 1 ELSE 0

\* The step of a thread.  estadoExec about to announce the process it has just
\* listed is told by the list.
Paso(t) ==
    IF t = "exec" /\ En("exec", "post_cola") THEN Destino(hilo["exec"].p) ELSE hilo[t].en

\* The threads that are at one of the steps that w gives them.
EnPasos(w) ==
    Uno(Paso("admitir") \in w["admitir"]) + Uno(Paso("finalizar") \in w["finalizar"])
    + Uno(Paso("ready") \in w["ready"]) + Uno(Paso("exec") \in w["exec"])
    + Uno(Paso("blocked") \in w["blocked"]) + Uno(Paso("suspReady") \in w["suspReady"])

Ninguno == [t \in Hilos |-> {}]

\* In the list and not in the semaphore: the thread that adds has not posted
\* yet, or the thread that removes has already waited.
DeExec ==
    [Ninguno EXCEPT !["ready"] = {"post_exec"},
                    !["exec"] = {"tomar", "despachar", "recibir", "decidir", "d_ready",
                                 "d_sacar", "bajar", "post_desalojo", "sacar"}]
DeBlocked == [Ninguno EXCEPT !["blocked"] = {"sacar"}, !["exec"] = {"blocked"}]
DeExit == [Ninguno EXCEPT !["finalizar"] = {"sacar"}, !["exec"] = {"exit"}]
DeSusp ==
    [Ninguno EXCEPT !["suspReady"] = {"sacar"},
                    !["blocked"] = {"post_grado", "io_resto", "post_susp"}]
DeAdmitir ==
    [Ninguno EXCEPT !["admitir"] = {"grado", "mirar", "sacar"},
                    !["suspReady"] = {"post_admitir"}]

CuentaExec == N("exec") = sem["exec"] + EnPasos(DeExec)
CuentaBlocked == N("blocked") = sem["blocked"] + EnPasos(DeBlocked)
CuentaExit == N("exit") = sem["exit"] + EnPasos(DeExit)
CuentaSusp == N("suspBlocked") = sem["suspReady"] + EnPasos(DeSusp)

\* sem_admitir counts two lists at once, and a console's thread is between its
\* list_add and its sem_post.
PorAvisar == {p \in Procesos : cliente[p] = "post_admitir"}

CuentaAdmitir ==
    N("new") + N("suspReady") = sem["admitir"] + EnPasos(DeAdmitir) + Cardinality(PorAvisar)

\* Every unit of sem_grado_multiprogramacion is free or belongs to a process
\* that is in a list or in the hands of a thread; a preempted process is in two
\* lists for a moment.
DeGrado ==
    [Ninguno EXCEPT
       !["admitir"] = {"mirar", "sacar", "pedir", "esperar", "a_ready"},
       !["finalizar"] = {"pedir", "esperar", "avisar", "post_grado"},
       !["ready"] = {"a_exec"},
       !["exec"] = {"encolar"},
       !["blocked"] = {"decidir", "io_antes", "pedir", "esperar", "a_susp", "post_grado",
                       "io", "a_ready"}]
EnDosListas == [Ninguno EXCEPT !["exec"] = {"d_sacar"}]

CuentaGrado ==
    sem["grado"] + N("ready") + N("exec") + N("blocked") + N("exit") + EnPasos(DeGrado)
      = Grado + EnPasos(EnDosListas)

Cuentas ==
    CuentaExec /\ CuentaBlocked /\ CuentaExit /\ CuentaSusp /\ CuentaAdmitir /\ CuentaGrado

\* The CPU works only while estadoExec waits for it, so that the program
\* counter of a process that came back does not move.
CpuDeExec == cpu.en # "libre" => En("exec", "recibir")

\* What a thread saw under a mutex it released still holds: nobody else removes.
Vigentes ==
    /\ En("admitir", "sacar") => N("new") > 0
    /\ hilo["ready"].en \in {"contar", "elegir"} => N("ready") > 0

\* Under FIFO nobody interrupts.
SinInterrupciones ==
    Algoritmo = "FIFO" =>
        /\ ~ interrupcion
        /\ \A t \in {"admitir", "blocked"} : hilo[t].en \notin {"marcar", "mensaje"}
        /\ hilo["exec"].en \notin {"d_ready", "d_sacar", "d_bajar", "d_post"}

-----------------------------------------------------------------------------
(* Why a process is in one place: the lists and the hands of the threads   *)
(* are disjoint sets that hold the processes that connected and whose      *)
(* console was not told of the end, and no list holds one twice.           *)

\* A list without the process that estadoExec is preempting, which is in Ready
\* already.
Vista(c) ==
    IF c = "exec" /\ En("exec", "d_sacar") THEN Tail(cola["exec"]) ELSE cola[c]

Rango(s) == {s[i] : i \in 1..Len(s)}
Inyectiva(s) == \A i, j \in 1..Len(s) : s[i] = s[j] => i = j

Mano(t) == IF hilo[t].en \in FueraDeCola[t] THEN {hilo[t].p} ELSE {}

Zonas == ({"cola"} \X Colas) \cup ({"mano"} \X Hilos)

\* Who is in each list and in each hand.
Reparto == [z \in Zonas |-> IF z[1] = "cola" THEN Rango(Vista(z[2])) ELSE Mano(z[2])]

Disjuntas(r) == \A y, z \in Zonas : y # z => r[y] \cap r[z] = {}
Juntas(r) == UNION {r[z] : z \in Zonas}

\* The processes between their connection and the message to their console.
EnCurso == {p \in Procesos : cliente[p] # "inicio" /\ p \notin finalizadas}

SinRepetir == \A c \in Colas : Inyectiva(Vista(c))

\* While estadoExec holds a process it is the first of Exec, and once it put it
\* back in Ready it is there, or with estadoReady, or again in Exec.
ConCabeza == ConProceso["exec"] \ {"d_bajar", "d_post", "encolar", "post_cola", "post_extra"}
Cabeza ==
    /\ hilo["exec"].en \in ConCabeza =>
         cola["exec"] # <<>> /\ hilo["exec"].p = Head(cola["exec"])
    /\ En("exec", "d_sacar") =>
         hilo["exec"].p \in Rango(cola["ready"]) \cup Mano("ready") \cup Rango(Vista("exec"))

LugaresOK ==
    /\ SinRepetir /\ Disjuntas(Reparto) /\ Juntas(Reparto) = EnCurso
    /\ \A p \in finalizadas : cliente[p] # "inicio"
    /\ Cabeza

-----------------------------------------------------------------------------
(* Why a process on its way to Ready comes from New exactly if it never    *)
(* executed: who has a program counter above 0.                            *)

TrasEjecutar ==
    {<<"mano", "exec">>, <<"cola", "blocked">>, <<"mano", "blocked">>, <<"cola", "suspBlocked">>,
     <<"mano", "suspReady">>, <<"cola", "suspReady">>}

ContadoresZonas ==
    /\ \A p \in Procesos :
         cliente[p] = "inicio" \/ p \in Reparto[<<"cola", "new">>] => pcb[p].pc = 0
    /\ \A z \in TrasEjecutar : \A p \in Reparto[z] : pcb[p].pc > 0

ContadoresHilos ==
    /\ hilo["exec"].en \in {"decidir", "d_ready", "bajar", "post_desalojo", "sacar"} =>
         pcb[hilo["exec"].p].pc > 0
    /\ cpu.en \in {"chequear", "devuelto"} => pcb[cpu.p].pc > 0
    /\ cpu.en # "libre" => cpu.p = hilo["exec"].p

Contadores == ContadoresZonas /\ ContadoresHilos
=============================================================================
