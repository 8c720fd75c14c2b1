------------------------ MODULE PlanificadorDiagrama ------------------------
(***************************************************************************)
(* The planner threads implement the seven-state diagram, for every set of *)
(* processes, program, degree of multiprogramming and both algorithms: a   *)
(* step of the program takes one process along an arrow of the diagram, or *)
(* changes the state of none.                                              *)
(***************************************************************************)
EXTENDS PlanificadorLugares

(* The program counters.                                                   *)

\* What a step of a thread other than estadoExec leaves alone.
Quieta ==
    /\ hilo'["exec"] = hilo["exec"] /\ cpu'.en = cpu.en /\ cpu'.p = cpu.p
    /\ cliente' = cliente /\ \A q \in Procesos : pcb'[q].pc = pcb[q].pc

LEMMA OtrosQuieta ==
    ASSUME TypeOK, Admitir \/ Finalizar \/ Ready \/ Blocked \/ SuspendedReady
    PROVE  Quieta
<1>1. hilo'["exec"] = hilo["exec"]
  BY AdmitirAjeno, FinalizarAjeno, ReadyAjeno, BlockedAjeno, SuspendedReadyAjeno, Nombres DEF Ajeno
<1>2. CASE \E t \in {"admitir", "blocked"} : TransicionInterrupcion(t)
  BY <1>1, <1>2 DEF TransicionInterrupcion, VerExec, Marcar, Mensaje, PostReady, Pasar, Post,
     Quieta, TypeOK, Cpus
<1>3. CASE Admitir /\ ~ TransicionInterrupcion("admitir")
  <2>1. CASE AdmitirTabla
    <3>1. \E x : pcb' = [pcb EXCEPT ![hilo["admitir"].p].tabla = x]
      BY <2>1 DEF AdmitirTabla
    <3>2. \A q \in Procesos : pcb'[q].pc = pcb[q].pc
      BY <3>1 DEF TypeOK, Pcbs
    <3>. QED  BY <1>1, <2>1, <3>2 DEF AdmitirTabla, RecibirRespuesta, Quieta
  <2>2. CASE ~ AdmitirTabla
    BY <1>1, <1>3, <2>2 DEF Admitir, AdmitirEsperar, AdmitirGrado, AdmitirSuspendido,
       AdmitirSinSuspendidos, AdmitirNuevo, AdmitirPedirTabla, AdmitirAgregar,
       Wait, Pasar, Pedir, QuitarUltimo, Agregar, Quieta
  <2>. QED  BY <2>1, <2>2
<1>4. CASE Finalizar
  BY <1>1, <1>4 DEF Finalizar, FinalizarEsperar, FinalizarSacar, FinalizarPedir,
     FinalizarRespuesta, FinalizarAvisar, FinalizarGrado, Wait, Post, Pedir, RecibirRespuesta,
     QuitarPrimero, Quieta
<1>5. CASE Ready
  BY <1>1, <1>5 DEF Ready, ReadyEsperar, ReadyDesalojo, ReadyMirar, ReadyContar, ReadyElegir,
     ReadyAgregar, ReadyPost, Wait, Post, Pasar, Agregar, Quieta
<1>6. CASE Blocked /\ ~ TransicionInterrupcion("blocked")
  BY <1>1, <1>6 DEF Blocked, BlockedEsperar, BlockedSacar, BlockedDecidir, BlockedIOAntes,
     BlockedIO, BlockedAgregar, SuspenderPedir, SuspenderRespuesta, SuspenderAgregar,
     SuspenderGrado, BlockedIOResto, BlockedPostSusp, Wait, Post, Pasar, Pedir, RecibirRespuesta,
     QuitarPrimero, Agregar, Quieta
<1>7. CASE SuspendedReady
  BY <1>1, <1>7 DEF SuspendedReady, SuspEsperar, SuspSacar, SuspAgregar, SuspPost, Wait, Post,
     QuitarUltimo, Agregar, Quieta
<1>. QED  BY <1>2, <1>3, <1>4, <1>5, <1>6, <1>7

\* The process that changes zone.
LEMMA Mudado ==
    ASSUME Reparte, NEW p, NEW a \in Zonas, NEW b, Muda(Reparto, Reparto', p, a, b)
    PROVE  p \in Procesos /\ p \in EnCurso
BY DEF Reparte, Muda, Juntas, EnCurso

LEMMA MudaContadores ==
    ASSUME Reparte, ContadoresZonas, cliente' = cliente,
           \A q \in Procesos : pcb'[q].pc = pcb[q].pc,
           NEW p, NEW a \in Zonas, NEW b \in Zonas, Muda(Reparto, Reparto', p, a, b),
           b # <<"cola", "new">>, b \in TrasEjecutar => pcb[p].pc > 0
    PROVE  ContadoresZonas'
<1>1. p \in Procesos
  BY Mudado
<1>2. TrasEjecutar \subseteq Zonas /\ <<"cola", "new">> \in Zonas
  BY Zona, Nombres DEF TrasEjecutar
<1>3. \A z \in Zonas : \A q \in Reparto[z] : q \in Procesos
  BY DEF Reparte, Juntas, EnCurso
<1>4. ASSUME NEW z \in Zonas, NEW q \in Reparto'[z]
      PROVE  q \in Procesos /\ (q \in Reparto[z] \/ (q = p /\ z = b))
  BY <1>1, <1>3, <1>4 DEF Muda
<1>5. \A z \in TrasEjecutar : \A q \in Reparto'[z] : pcb'[q].pc > 0
  BY <1>1, <1>2, <1>4 DEF ContadoresZonas
<1>6. \A q \in Procesos : cliente'[q] = "inicio" \/ q \in Reparto'[<<"cola", "new">>] => pcb'[q].pc = 0
  BY <1>2, <1>4 DEF ContadoresZonas
<1>. QED  BY <1>5, <1>6 DEF ContadoresZonas, TrasEjecutar

LEMMA MenosContadores ==
    ASSUME ContadoresZonas, Reparte, cliente' = cliente,
           \A q \in Procesos : pcb'[q].pc = pcb[q].pc,
           \A z \in Zonas : Reparto'[z] \subseteq Reparto[z]
    PROVE  ContadoresZonas'
<1>1. TrasEjecutar \subseteq Zonas /\ <<"cola", "new">> \in Zonas
  BY Zona, Nombres DEF TrasEjecutar
<1>2. \A z \in TrasEjecutar : \A q \in Reparto[z] : q \in Procesos
  BY <1>1 DEF Reparte, Juntas, EnCurso
<1>3. \A z \in TrasEjecutar : \A q \in Reparto'[z] : pcb'[q].pc > 0
  BY <1>1, <1>2 DEF ContadoresZonas
<1>4. \A q \in Procesos : cliente'[q] = "inicio" \/ q \in Reparto'[<<"cola", "new">>] => pcb'[q].pc = 0
  BY <1>1 DEF ContadoresZonas
<1>. QED  BY <1>3, <1>4 DEF ContadoresZonas, TrasEjecutar

LEMMA OtrosContadores ==
    ASSUME TypeOK, NuncaListaVacia, Reparte, Contadores, CpuDeExec,
           Admitir \/ Finalizar \/ Ready \/ Blocked \/ SuspendedReady
    PROVE  Contadores'
<1>1. Quieta
  BY OtrosQuieta
<1>2. ContadoresHilos'
  <2>1. /\ hilo["exec"].en \in {"recibir", "decidir", "d_ready", "bajar", "post_desalojo", "sacar"} =>
             hilo["exec"].p \in Procesos
        /\ cpu.en # "libre" => hilo["exec"].en = "recibir"
    BY Nombres DEF TypeOK, HilosOK, SinProceso, CpuDeExec, En
  <2>. QED  BY <1>1, <2>1 DEF Contadores, ContadoresHilos, Quieta
<1>3. CASE Reparto' = Reparto \/ FinalizarAvisar
  <2>1. \A z \in Zonas : Reparto'[z] \subseteq Reparto[z]
    BY <1>3, AvisarReparte
  <2>. QED  BY <1>1, <1>2, <2>1, MenosContadores DEF Quieta, Contadores
<1>4. CASE \E r \in Rutas : \E p : Muda(Reparto, Reparto', p, r[1], r[2])
  <2>0. PICK r \in Rutas : \E p : Muda(Reparto, Reparto', p, r[1], r[2])
    BY <1>4
  <2>1. PICK p : Muda(Reparto, Reparto', p, r[1], r[2])
    BY <2>0
  <2>2. /\ r[1] \in Zonas /\ r[2] \in Zonas /\ r[2] # <<"cola", "new">>
        /\ r[2] \in TrasEjecutar => r[1] \in TrasEjecutar
    BY Zona, Nombres DEF Rutas, TrasEjecutar
  <2>3. r[2] \in TrasEjecutar => pcb[p].pc > 0
    BY <2>1, <2>2 DEF Muda, Contadores, ContadoresZonas
  <2>4. ContadoresZonas'
    BY <1>1, <2>1, <2>2, <2>3, MudaContadores DEF Quieta, Contadores
  <2>. QED  BY <1>2, <2>4 DEF Contadores
<1>. QED  BY <1>3, <1>4, AdmitirReparte, FinalizarReparte, ReadyReparte, BlockedReparte,
             SuspendedReadyReparte DEF Movida

\* What a step of estadoExec does to the zones.
LEMMA ExecZonas ==
    ASSUME TypeOK, NuncaListaVacia, Reparte, Cabeza, Exec
    PROVE  /\ cliente' = cliente /\ finalizadas' = finalizadas
           /\ \A q \in Procesos : pcb'[q].pc = pcb[q].pc
           /\ \/ Reparto' = Reparto /\ ~ ExecSacar /\ ~ DesalojoAReady /\ ~ ExecEncolar
              \/ /\ ExecSacar
                 /\ Muda(Reparto, Reparto', hilo["exec"].p, <<"cola", "exec">>, <<"mano", "exec">>)
              \/ /\ DesalojoAReady
                 /\ Muda(Reparto, Reparto', hilo["exec"].p, <<"cola", "exec">>, <<"cola", "ready">>)
              \/ /\ ExecEncolar
                 /\ \E c \in {"ready", "blocked", "exit"} :
                      Muda(Reparto, Reparto', hilo["exec"].p, <<"mano", "exec">>, <<"cola", c>>)
<1>1. cliente' = cliente /\ finalizadas' = finalizadas
  BY DEF Exec, ExecEsperar, ExecTomar, ExecDespachar, ExecRecibir, ExecDesalojar,
     ExecNoDesalojar, DesalojoAReady, DesalojoSacar, DesalojoBajar, DesalojoPost, ExecBajar,
     ExecPostDesalojo, ExecSacar, ExecEncolar, ExecPostCola, ExecPostExtra,
     Wait, Post, Agregar, Pasar, BajarInterrupcion
<1>2. \A q \in Procesos : pcb'[q].pc = pcb[q].pc
  <2>1. \/ pcb' = pcb
        \/ \E e : pcb' = [pcb EXCEPT ![hilo["exec"].p].est = e]
    BY DEF Exec, ExecEsperar, ExecTomar, ExecDespachar, ExecRecibir, ExecDesalojar,
     ExecNoDesalojar, DesalojoAReady, DesalojoSacar, DesalojoBajar, DesalojoPost, ExecBajar,
     ExecPostDesalojo, ExecSacar, ExecEncolar, ExecPostCola, ExecPostExtra, Estimar,
     Wait, Post, Agregar, Pasar, BajarInterrupcion
  <2>2. ASSUME NEW e, pcb' = [pcb EXCEPT ![hilo["exec"].p].est = e]
        PROVE  \A q \in Procesos : pcb'[q].pc = pcb[q].pc
    BY <2>2 DEF TypeOK, Pcbs
  <2>. QED  BY <2>1, <2>2
<1>3. CASE ExecSacar
  BY <1>1, <1>2, <1>3, ExecSacarReparte
<1>4. CASE DesalojoAReady
  BY <1>1, <1>2, <1>4, DesalojarReparte
<1>5. CASE ExecEncolar
  <2>1. PICK c \in {"ready", "blocked", "exit"} : Agregar("exec", "encolar", c, "post_cola")
    BY <1>5 DEF ExecEncolar, Destino
  <2>2. Muda(Reparto, Reparto', hilo["exec"].p, <<"mano", "exec">>, <<"cola", c>>)
    BY <2>1, AgregarReparte, Nombres DEF FueraDeCola, SinProceso, ConProceso
  <2>. QED  BY <1>1, <1>2, <1>5, <2>2
<1>6. CASE DesalojoSacar
  BY <1>1, <1>2, <1>6, SacarReparte DEF DesalojoSacar, ExecSacar, DesalojoAReady, ExecEncolar,
     Agregar, En
<1>7. CASE ~ DesalojoAReady /\ ~ DesalojoSacar /\ ~ ExecSacar /\ ~ ExecEncolar
  <2>1. PICK l, m \in {"inicio", "tomar", "despachar", "recibir", "decidir", "d_ready",
                      "d_bajar", "d_post", "bajar", "post_desalojo", "sacar",
                      "post_cola", "post_extra"} :
          /\ En("exec", l) /\ (Sigue("exec", m) \/ \E p : Toma("exec", p, m))
          /\ UNCHANGED <<cola, cliente, finalizadas>>
    BY <1>7 DEF Exec, ExecEsperar, ExecTomar, ExecDespachar, ExecRecibir,
         ExecDesalojar, ExecNoDesalojar, DesalojoBajar, DesalojoPost, ExecBajar,
         ExecPostDesalojo, ExecPostCola, ExecPostExtra, Wait, Post, Pasar, BajarInterrupcion
  <2>2. Reparto' = Reparto
    BY <2>1, SigueReparte, Nombres DEF FueraDeCola
  <2>. QED  BY <1>1, <1>2, <1>7, <2>2
<1>. QED  BY <1>3, <1>4, <1>5, <1>6, <1>7

LEMMA ExecContadores ==
    ASSUME TypeOK, NuncaListaVacia, Reparte, Cabeza, Contadores, CpuDeExec, Exec
    PROVE  Contadores'
<1>1. /\ cliente' = cliente /\ \A q \in Procesos : pcb'[q].pc = pcb[q].pc
  BY ExecZonas
<1>2. ContadoresZonas'
  <2>1. CASE Reparto' = Reparto
    BY <1>1, <2>1, MenosContadores DEF Contadores
  <2>2. CASE /\ ExecSacar
             /\ Muda(Reparto, Reparto', hilo["exec"].p, <<"cola", "exec">>, <<"mano", "exec">>)
    <3>1. pcb[hilo["exec"].p].pc > 0
      BY <2>2 DEF ExecSacar, En, Contadores, ContadoresHilos
    <3>. QED  BY <1>1, <2>2, <3>1, MudaContadores, Zona, Nombres DEF Contadores
  <2>3. CASE Muda(Reparto, Reparto', hilo["exec"].p, <<"cola", "exec">>, <<"cola", "ready">>)
    <3>1. <<"cola", "ready">> \notin TrasEjecutar /\ <<"cola", "ready">> # <<"cola", "new">>
      BY DEF TrasEjecutar
    <3>. QED  BY <1>1, <2>3, <3>1, MudaContadores, Zona, Nombres DEF Contadores
  <2>4. CASE \E c \in {"ready", "blocked", "exit"} :
               Muda(Reparto, Reparto', hilo["exec"].p, <<"mano", "exec">>, <<"cola", c>>)
    <3>1. PICK c \in {"ready", "blocked", "exit"} :
               Muda(Reparto, Reparto', hilo["exec"].p, <<"mano", "exec">>, <<"cola", c>>)
      BY <2>4
    <3>2. pcb[hilo["exec"].p].pc > 0
      BY <3>1 DEF Muda, Contadores, ContadoresZonas, TrasEjecutar
    <3>. QED  BY <1>1, <3>1, <3>2, MudaContadores, Zona, Nombres DEF Contadores
  <2>. QED  BY <2>1, <2>2, <2>3, <2>4, ExecZonas
<1>3. ContadoresHilos'
  <2>1. CASE ExecEsperar \/ ExecTomar
    <3>1. hilo'["exec"].en \in {"tomar", "despachar"} /\ cpu' = cpu /\ cpu.en = "libre"
      BY <2>1, Nombres DEF ExecEsperar, ExecTomar, Wait, Sigue, Toma, En, CpuDeExec, TypeOK, HilosOK
    <3>. QED  BY <3>1 DEF ContadoresHilos
  <2>2. CASE ExecDespachar
    <3>1. /\ hilo'["exec"].en = "recibir" /\ hilo'["exec"].p = hilo["exec"].p
          /\ cpu'.en = "recibir" /\ cpu'.p = hilo["exec"].p
      BY <2>2, Nombres DEF ExecDespachar, Sigue, TypeOK, HilosOK, Cpus
    <3>. QED  BY <3>1 DEF ContadoresHilos
  <2>3. CASE ExecRecibir
    <3>1. /\ hilo'["exec"].en = "decidir" /\ hilo'["exec"].p = hilo["exec"].p
          /\ cpu'.en = "libre" /\ cpu.en = "devuelto" /\ pcb' = pcb
      BY <2>3, Nombres DEF ExecRecibir, Sigue, TypeOK, HilosOK, Cpus
    <3>. QED  BY <3>1 DEF ContadoresHilos, Contadores
  <2>4. CASE ExecDesalojar \/ ExecNoDesalojar \/ ExecBajar \/ ExecPostDesalojo
    <3>1. PICK l \in {"decidir", "bajar", "post_desalojo"},
               m \in {"d_ready", "bajar", "post_desalojo", "sacar"} :
            En("exec", l) /\ Sigue("exec", m) /\ cpu' = cpu
      BY <2>4 DEF ExecDesalojar, ExecNoDesalojar, ExecBajar, ExecPostDesalojo, Pasar, Post,
         BajarInterrupcion
    <3>2. /\ hilo["exec"].en \in {"decidir", "bajar", "post_desalojo"} /\ hilo["exec"].p \in Procesos
          /\ hilo'["exec"].p = hilo["exec"].p /\ cpu' = cpu /\ cpu.en = "libre"
      BY <3>1, Nombres DEF Sigue, En, CpuDeExec, TypeOK, HilosOK, SinProceso
    <3>. QED  BY <1>1, <3>2 DEF ContadoresHilos, Contadores
  <2>5. CASE \/ DesalojoAReady \/ DesalojoSacar \/ DesalojoBajar \/ DesalojoPost \/ ExecSacar
             \/ ExecEncolar \/ ExecPostCola \/ ExecPostExtra
    <3>1. /\ hilo'["exec"].en \in {"d_sacar", "d_bajar", "d_post", "inicio", "encolar", "post_cola",
                                   "post_extra"}
          /\ cpu' = cpu /\ cpu.en = "libre"
      BY <2>5, Nombres DEF DesalojoAReady, DesalojoSacar, DesalojoBajar, DesalojoPost, ExecSacar,
         ExecEncolar, ExecPostCola, ExecPostExtra, Agregar, Post, BajarInterrupcion, Sigue, En,
         CpuDeExec, TypeOK, HilosOK
    <3>. QED  BY <3>1 DEF ContadoresHilos
  <2>. QED  BY <2>1, <2>2, <2>3, <2>4, <2>5 DEF Exec
<1>. QED  BY <1>2, <1>3 DEF Contadores

LEMMA QuietoReparto ==
    ASSUME UNCHANGED <<cola, hilo>>
    PROVE  Reparto' = Reparto
BY DEF Reparto, Vista, Mano, En, Rango

\* Who the CPU has is the first of Exec.
LEMMA CpuDePrimero ==
    ASSUME TypeOK, Reparte, Cabeza, CpuDeExec, Contadores, cpu.en # "libre"
    PROVE  /\ cpu.p \in Procesos /\ cpu.p = hilo["exec"].p /\ hilo["exec"].en = "recibir"
           /\ cpu.p \in Reparto[<<"cola", "exec">>]
<1>1. hilo["exec"].en = "recibir" /\ cpu.p = hilo["exec"].p
  BY DEF CpuDeExec, En, Contadores, ContadoresHilos
<1>2. hilo["exec"].p \in Procesos
  BY <1>1, Nombres DEF TypeOK, HilosOK, SinProceso
<1>3. cola["exec"] # <<>> /\ hilo["exec"].p = Head(cola["exec"]) /\ cola["exec"] \in Seq(Procesos)
  BY <1>1, Nombres DEF Cabeza, ConCabeza, ConProceso, TypeOK
<1>4. 1 \in 1..Len(cola["exec"]) /\ hilo["exec"].p = cola["exec"][1]
  BY <1>3, TailFalta
<1>5. Vista("exec") = cola["exec"]
  BY <1>1 DEF Vista, En
<1>6. hilo["exec"].p \in Rango(Vista("exec"))
  BY <1>4, <1>5 DEF Rango
<1>. QED  BY <1>1, <1>2, <1>6, ZonaReparto, Nombres

LEMMA RestoContadores ==
    ASSUME TypeOK, NuncaListaVacia, Reparte, Cabeza, Contadores, CpuDeExec,
           \/ \E p \in Procesos : Cliente(p)
           \/ Ciclo \/ CpuInterrumpir \/ CpuMemoria \/ MemoriaAtender \/ UNCHANGED vars
    PROVE  Contadores'
<1>1. \A z \in Zonas : \A q \in Reparto[z] : q \in EnCurso /\ q \in Procesos
  BY DEF Reparte, Juntas, EnCurso
<1>2. TrasEjecutar \subseteq Zonas /\ <<"cola", "new">> \in Zonas /\ <<"cola", "exec">> \in Zonas
      /\ <<"cola", "new">> \notin TrasEjecutar /\ <<"cola", "exec">> \notin TrasEjecutar
      /\ <<"cola", "new">> # <<"cola", "exec">>
  BY Zona, Nombres DEF TrasEjecutar
<1>3. /\ cpu.en # "libre" => cpu.p \in Procesos
      /\ hilo["exec"].en \in {"decidir", "d_ready", "bajar", "post_desalojo", "sacar"} =>
             hilo["exec"].p \in Procesos
  BY CpuDePrimero, Nombres DEF TypeOK, HilosOK, SinProceso
<1>4. CASE \E p \in Procesos : ClienteAgregar(p)
  <2>1. PICK p \in Procesos : ClienteAgregar(p)
    BY <1>4
  <2>2. /\ Reparto'[<<"cola", "new">>] = Reparto[<<"cola", "new">>] \cup {p}
        /\ \A z \in Zonas \ {<<"cola", "new">>} : Reparto'[z] = Reparto[z]
    BY <2>1, LlegarReparte
  <2>3. /\ UNCHANGED <<hilo, cpu, pcb>> /\ cliente[p] = "inicio"
        /\ \A q \in Procesos : cliente'[q] = "inicio" => cliente[q] = "inicio"
    BY <2>1 DEF ClienteAgregar, TypeOK
  <2>4. ContadoresHilos'
    BY <2>3 DEF Contadores, ContadoresHilos
  <2>5. \A z \in TrasEjecutar : \A q \in Reparto'[z] : pcb'[q].pc > 0
    BY <1>2, <2>2, <2>3 DEF Contadores, ContadoresZonas
  <2>6. \A q \in Procesos : cliente'[q] = "inicio" \/ q \in Reparto'[<<"cola", "new">>] => pcb'[q].pc = 0
    BY <2>2, <2>3 DEF Contadores, ContadoresZonas
  <2>. QED  BY <2>4, <2>5, <2>6 DEF Contadores, ContadoresZonas, TrasEjecutar
<1>5. CASE CpuInstruccion
  <2>. DEFINE p == cpu.p
  <2>1. p \in Procesos /\ p \in Reparto[<<"cola", "exec">>] /\ hilo["exec"].en = "recibir"
    BY <1>5, CpuDePrimero DEF CpuInstruccion
  <2>2. Reparto' = Reparto /\ UNCHANGED <<hilo, cliente>>
    BY <1>5, QuietoReparto DEF CpuInstruccion
  <2>3. /\ pcb'[p].pc > 0 /\ cpu'.en = "chequear" /\ cpu'.p = p
        /\ \A q \in Procesos \ {p} : pcb'[q].pc = pcb[q].pc
    BY <1>5, <2>1 DEF CpuInstruccion, TypeOK, Pcbs, Cpus
  <2>4. ContadoresHilos'
    BY <1>5, <2>1, <2>2, <2>3 DEF CpuInstruccion, Contadores, ContadoresHilos
  <2>5. cliente[p] # "inicio" /\ p \notin Reparto[<<"cola", "new">>]
    BY <1>1, <1>2, <2>1 DEF EnCurso, Reparte, Disjuntas
  <2>. HIDE DEF p
  <2>6. \A z \in TrasEjecutar : \A q \in Reparto[z] : pcb'[q].pc > 0
    BY <1>1, <1>2, <2>3 DEF Contadores, ContadoresZonas
  <2>7. \A q \in Procesos : cliente[q] = "inicio" \/ q \in Reparto[<<"cola", "new">>] => pcb'[q].pc = 0
    BY <2>3, <2>5 DEF Contadores, ContadoresZonas
  <2>. QED  BY <2>2, <2>4, <2>6, <2>7 DEF Contadores, ContadoresZonas, TrasEjecutar
<1>6. CASE \/ \E p \in Procesos : ClientePost(p)
           \/ CpuRecibir \/ CpuChequear \/ CpuSinExit \/ CpuInterrumpir \/ CpuMemoria \/ MemoriaAtender
           \/ UNCHANGED vars
  <2>1. UNCHANGED <<cola, hilo, pcb>>
    BY <1>6 DEF ClientePost, CpuRecibir, CpuChequear, CpuSinExit, CpuInterrumpir, CpuMemoria, CpuFalloSinContador, CpuSinMemoria,
         MemoriaAtender, vars
  <2>2. \A q \in Procesos : cliente'[q] = "inicio" => cliente[q] = "inicio"
    BY <1>6 DEF ClientePost, CpuRecibir, CpuChequear, CpuSinExit, CpuInterrumpir, CpuMemoria, CpuFalloSinContador, CpuSinMemoria,
         MemoriaAtender,
       vars, TypeOK
  <2>3. \/ cpu'.en = cpu.en /\ cpu'.p = cpu.p
        \/ cpu'.en = "ciclo" /\ cpu'.p = cpu.p /\ cpu.en # "libre"
        \/ cpu.en = "chequear" /\ cpu'.p = cpu.p
        \/ cpu'.en = "libre"
    BY <1>6 DEF ClientePost, CpuRecibir, CpuChequear, CpuSinExit, CpuInterrumpir, CpuMemoria, CpuFalloSinContador, CpuSinMemoria,
         MemoriaAtender,
       vars, TypeOK, Cpus
  <2>4. ContadoresHilos'
    BY <2>1, <2>3 DEF Contadores, ContadoresHilos
  <2>5. Reparto' = Reparto
    BY <2>1, QuietoReparto
  <2>6. /\ \A z \in TrasEjecutar : \A q \in Reparto[z] : pcb'[q].pc > 0
        /\ \A q \in Procesos : cliente'[q] = "inicio" \/ q \in Reparto[<<"cola", "new">>] => pcb'[q].pc = 0
    BY <2>1, <2>2 DEF Contadores, ContadoresZonas
  <2>. QED  BY <2>4, <2>5, <2>6 DEF Contadores, ContadoresZonas, TrasEjecutar
<1>. QED  BY <1>4, <1>5, <1>6 DEF Cliente, Ciclo

\* A process on its way to Ready from New never executed, one that comes back
\* from an I/O did.
LEMMA ContadoresSiempre == Spec => []Contadores
<1>1. Init => Contadores
  <2>1. SUFFICES ASSUME Init
                 PROVE  Contadores
    OBVIOUS
  <2>2. \A z \in Zonas : Reparto[z] = {}
    <3>1. /\ \A c \in Colas : cola[c] = <<>> /\ hilo["exec"].en = "inicio"
          /\ \A t \in Hilos : hilo[t].en = "inicio"
      BY <2>1, Nombres DEF Init
    <3>2. \A c \in Colas : Rango(Vista(c)) = {}
      BY <3>1 DEF Vista, En, Rango
    <3>3. \A t \in Hilos : Mano(t) = {}
      BY <3>1 DEF Mano, FueraDeCola, Hilos, SinProceso
    <3>. QED  BY <3>2, <3>3, Zona, ZonaReparto
  <2>3. TrasEjecutar \subseteq Zonas
    BY Zona, Nombres DEF TrasEjecutar
  <2>4. \A p \in Procesos : pcb[p].pc = 0
    BY <2>1 DEF Init
  <2>5. hilo["exec"].en = "inicio" /\ cpu.en = "libre"
    BY <2>1, Nombres DEF Init
  <2>. QED  BY <2>2, <2>3, <2>4, <2>5 DEF Contadores, ContadoresZonas, ContadoresHilos
<1>2. TypeOK /\ NuncaListaVacia /\ LugaresOK /\ CpuDeExec /\ Contadores /\ [Next]_vars => Contadores'
  BY OtrosContadores, ExecContadores, RestoContadores, LugaresPartes DEF Next
<1>3. Invariante => CpuDeExec
  BY DEF Invariante
<1>. QED  BY <1>1, <1>2, <1>3, TypeCorrect, SinListaVacia, RepartoCorrecto, CuentasCorrectas, PTL
             DEF Spec

-----------------------------------------------------------------------------
(* The state of a process, read off its zone.                              *)

\* The state in which a zone puts a process that is not executing.
EstadoZona(z, p) ==
    CASE z = <<"cola", "new">> -> "NUEVO"
      [] z = <<"cola", "blocked">> \/ z = <<"mano", "blocked">> -> "BLOQUEADO"
      [] z = <<"cola", "suspBlocked">> \/ z = <<"mano", "suspReady">> -> "BLOQUEADO_SUSPENDIDO"
      [] z = <<"cola", "suspReady">> -> "LISTO_SUSPENDIDO"
      [] z = <<"cola", "exit">> \/ z = <<"mano", "finalizar">> -> "FINALIZADO"
      [] z = <<"mano", "admitir">> -> IF pcb[p].pc = 0 THEN "NUEVO" ELSE "LISTO_SUSPENDIDO"
      [] OTHER -> "LISTO"

\* Only what is in Exec or in the hand of estadoExec executes.
LEMMA EjecutaZona ==
    ASSUME TypeOK, LugaresOK, NEW p, Ejecuta(p)
    PROVE  p \in Reparto[<<"cola", "exec">>] \/ p \in Reparto[<<"mano", "exec">>]
<1>1. hilo["exec"].p = p
  BY DEF Ejecuta, Lleva
<1>2. CASE hilo["exec"].en = "encolar"
  BY <1>1, <1>2, ZonaReparto, Nombres DEF Mano, FueraDeCola
<1>3. CASE hilo["exec"].en # "encolar"
  <2>1. /\ hilo["exec"].en \in ConCabeza /\ hilo["exec"].en # "d_sacar"
    BY <1>3 DEF Ejecuta, Lleva, ConCabeza, ConProceso
  <2>2. cola["exec"] # <<>> /\ p = Head(cola["exec"]) /\ cola["exec"] \in Seq(Procesos)
    BY <1>1, <2>1, Nombres DEF LugaresOK, Cabeza, TypeOK
  <2>3. 1 \in 1..Len(cola["exec"]) /\ p = cola["exec"][1]
    BY <2>2, TailFalta
  <2>4. Vista("exec") = cola["exec"]
    BY <2>1 DEF Vista, En
  <2>5. p \in Rango(Vista("exec"))
    BY <2>3, <2>4 DEF Rango
  <2>. QED  BY <2>5, ZonaReparto, Nombres
<1>. QED  BY <1>2, <1>3

LEMMA EstadoPorZona ==
    ASSUME TypeOK, LugaresOK, NEW p, NEW z \in Zonas, p \in Reparto[z]
    PROVE  EstadoDe(p) = IF Ejecuta(p) THEN "EXEC" ELSE EstadoZona(z, p)
<1>1. p \in EnCurso
  BY DEF LugaresOK, Juntas
<1>2. p \notin finalizadas /\ cliente[p] # "inicio"
  BY <1>1 DEF EnCurso
<1>3. \A y \in Zonas : p \in Reparto[y] <=> y = z
  BY DEF LugaresOK, Disjuntas
<1>4. \A c \in Colas \ {"exec"} : p \in EnCola(c) <=> z = <<"cola", c>>
  <2>1. \A c \in Colas \ {"exec"} : EnCola(c) = Rango(Vista(c))
    BY DEF EnCola, Vista, Rango
  <2>. QED  BY <1>3, <2>1, Zona, ZonaReparto
<1>5. \A t \in Hilos : Lleva(t, p, FueraDeCola[t]) <=> z = <<"mano", t>>
  <2>1. \A t \in Hilos : Lleva(t, p, FueraDeCola[t]) <=> p \in Mano(t)
    BY DEF Lleva, Mano
  <2>. QED  BY <1>3, <2>1, Zona, ZonaReparto
<1>6. Lleva("suspReady", p, {"a_susp"}) <=> z = <<"mano", "suspReady">>
  <2>1. FueraDeCola["suspReady"] = {"a_susp"}
    BY DEF FueraDeCola
  <2>. QED  BY <1>5, <2>1, Nombres
<1>7. /\ p \in EnCola("exit") <=> z = <<"cola", "exit">>
      /\ p \in EnCola("blocked") <=> z = <<"cola", "blocked">>
      /\ p \in EnCola("suspBlocked") <=> z = <<"cola", "suspBlocked">>
      /\ p \in EnCola("suspReady") <=> z = <<"cola", "suspReady">>
      /\ p \in EnCola("new") <=> z = <<"cola", "new">>
      /\ Lleva("finalizar", p, FueraDeCola["finalizar"]) <=> z = <<"mano", "finalizar">>
      /\ Lleva("blocked", p, FueraDeCola["blocked"]) <=> z = <<"mano", "blocked">>
      /\ Lleva("admitir", p, FueraDeCola["admitir"]) <=> z = <<"mano", "admitir">>
  BY <1>4, <1>5, Nombres
<1>8. CASE Ejecuta(p)
  <2>1. z = <<"cola", "exec">> \/ z = <<"mano", "exec">>
    BY <1>3, <1>8, EjecutaZona, Zona, Nombres
  <2>. QED  BY <1>2, <1>6, <1>7, <1>8, <2>1 DEF EstadoDe
<1>9. CASE ~ Ejecuta(p)
  BY <1>2, <1>6, <1>7, <1>9 DEF EstadoDe, EstadoZona
<1>. QED  BY <1>8, <1>9

LEMMA EstadoAfuera ==
    ASSUME TypeOK, LugaresOK, NEW p \in Procesos, p \notin EnCurso
    PROVE  EstadoDe(p) = IF p \in finalizadas THEN "FIN" ELSE "AFUERA"
<1>1. p \in finalizadas \/ cliente[p] = "inicio"
  BY DEF EnCurso
<1>2. \A z \in Zonas : p \notin Reparto[z]
  BY DEF LugaresOK, Juntas
<1>3. ~ Ejecuta(p)
  BY <1>2, EjecutaZona, Zona, Nombres
<1>4. \A c \in Colas \ {"exec"} : p \notin EnCola(c)
  <2>1. \A c \in Colas \ {"exec"} : EnCola(c) = Rango(Vista(c))
    BY DEF EnCola, Vista, Rango
  <2>. QED  BY <1>2, <2>1, Zona, ZonaReparto
<1>5. \A t \in Hilos : ~ Lleva(t, p, FueraDeCola[t])
  <2>1. \A t \in Hilos : Lleva(t, p, FueraDeCola[t]) <=> p \in Mano(t)
    BY DEF Lleva, Mano
  <2>. QED  BY <1>2, <2>1, Zona, ZonaReparto
<1>6. ~ Lleva("suspReady", p, {"a_susp"})
  <2>1. FueraDeCola["suspReady"] = {"a_susp"}
    BY DEF FueraDeCola
  <2>. QED  BY <1>5, <2>1, Nombres
<1>7. p \in finalizadas => cliente[p] # "inicio"
  BY DEF LugaresOK
<1>8. /\ \A c \in {"exit", "blocked", "suspBlocked", "suspReady", "new"} : p \notin EnCola(c)
      /\ \A t \in {"finalizar", "blocked", "admitir"} : ~ Lleva(t, p, FueraDeCola[t])
  BY <1>4, <1>5, Nombres
<1>. QED  BY <1>1, <1>3, <1>6, <1>7, <1>8 DEF EstadoDe

\* The state of every process, before and after a step.
Estado == [p \in Procesos |-> EstadoDe(p)]

EstadosOK ==
    \A p \in Procesos :
        /\ \A z \in Zonas : p \in Reparto[z] =>
             EstadoDe(p) = IF Ejecuta(p) THEN "EXEC" ELSE EstadoZona(z, p)
        /\ p \notin EnCurso => EstadoDe(p) = IF p \in finalizadas THEN "FIN" ELSE "AFUERA"
        /\ Ejecuta(p) => p \in Reparto[<<"cola", "exec">>] \/ p \in Reparto[<<"mano", "exec">>]
        /\ p \in EnCurso => \E z \in Zonas : p \in Reparto[z]

LEMMA EstadosCorrectos == TypeOK /\ LugaresOK => EstadosOK
<1>. SUFFICES ASSUME TypeOK, LugaresOK, NEW p \in Procesos
              PROVE  /\ \A z \in Zonas : p \in Reparto[z] =>
                          EstadoDe(p) = IF Ejecuta(p) THEN "EXEC" ELSE EstadoZona(z, p)
                     /\ p \notin EnCurso =>
                          EstadoDe(p) = IF p \in finalizadas THEN "FIN" ELSE "AFUERA"
                     /\ Ejecuta(p) =>
                          p \in Reparto[<<"cola", "exec">>] \/ p \in Reparto[<<"mano", "exec">>]
                     /\ p \in EnCurso => \E z \in Zonas : p \in Reparto[z]
  BY DEF EstadosOK
<1>1. p \in EnCurso => \E z \in Zonas : p \in Reparto[z]
  BY DEF LugaresOK, Juntas
<1>. QED  BY <1>1, EstadoPorZona, EstadoAfuera, EjecutaZona

LEMMA EstadosPrima == TypeOK' /\ LugaresOK' => EstadosOK'
BY EstadosCorrectos, PTL

\* A step that leaves alone every process but p.
Solo(p) ==
    \A q \in Procesos \ {p} :
        /\ q \in EnCurso' <=> q \in EnCurso
        /\ q \in finalizadas' <=> q \in finalizadas
        /\ \A z \in Zonas : q \in Reparto'[z] <=> q \in Reparto[z]
        /\ Ejecuta(q)' <=> Ejecuta(q)
        /\ pcb'[q].pc = pcb[q].pc

LEMMA SoloEstado ==
    ASSUME EstadosOK, EstadosOK', NEW p, Solo(p)
    PROVE  Estado' = [Estado EXCEPT ![p] = EstadoDe(p)']
<1>1. ASSUME NEW q \in Procesos \ {p}
      PROVE  EstadoDe(q)' = EstadoDe(q)
  <2>1. CASE q \in EnCurso
    <3>1. PICK z \in Zonas : q \in Reparto[z]
      BY <2>1 DEF EstadosOK
    <3>2. q \in Reparto'[z]
      BY <3>1 DEF Solo
    <3>3. EstadoZona(z, q)' = EstadoZona(z, q)
      BY DEF Solo, EstadoZona
    <3>4. EstadoDe(q) = IF Ejecuta(q) THEN "EXEC" ELSE EstadoZona(z, q)
      BY <3>1 DEF EstadosOK
    <3>5. EstadoDe(q)' = IF Ejecuta(q)' THEN "EXEC" ELSE EstadoZona(z, q)'
      BY <3>2 DEF EstadosOK
    <3>. QED  BY <3>3, <3>4, <3>5 DEF Solo
  <2>2. CASE q \notin EnCurso
    <3>1. EstadoDe(q) = IF q \in finalizadas THEN "FIN" ELSE "AFUERA"
      BY <2>2 DEF EstadosOK
    <3>2. EstadoDe(q)' = IF q \in finalizadas' THEN "FIN" ELSE "AFUERA"
      BY <2>2 DEF EstadosOK, Solo
    <3>. QED  BY <3>1, <3>2 DEF Solo
  <2>. QED  BY <2>1, <2>2
<1>. QED  BY <1>1 DEF Estado

LEMMA NadieEstado ==
    ASSUME EstadosOK, EstadosOK', Solo(Nadie)
    PROVE  Estado' = Estado
<1>1. Estado' = [Estado EXCEPT ![Nadie] = EstadoDe(Nadie)']
  BY SoloEstado
<1>. QED  BY <1>1, NadieAssumption DEF Estado

-----------------------------------------------------------------------------
(* Room in the multiprogramming.                                           *)

MemoriaOK == Diagrama!EnMemoria \subseteq Multiprogramados /\ IsFiniteSet(Multiprogramados)

LEMMA ColaEnMemoria ==
    ASSUME TypeOK, NuncaListaVacia, NEW c \in {"ready", "exec", "blocked", "exit"}
    PROVE  Rango(Vista(c)) \subseteq Multiprogramados
<1>1. EnCola(c) \subseteq Multiprogramados
  BY DEF Multiprogramados
<1>2. cola[c] \in Seq(Procesos)
  BY Nombres DEF TypeOK
<1>3. CASE c = "exec" /\ En("exec", "d_sacar")
  <2>1. cola[c] # <<>>
    BY <1>3 DEF NuncaListaVacia, En
  <2>2. /\ Len(Tail(cola[c])) = Len(cola[c]) - 1 /\ Len(cola[c]) \in Nat
        /\ \A i \in 1..Len(Tail(cola[c])) : Tail(cola[c])[i] = cola[c][i + 1]
    BY <1>2, <2>1, HeadTailProperties, LenProperties
  <2>3. Rango(Tail(cola[c])) \subseteq EnCola(c)
    <3>1. ASSUME NEW i \in 1..Len(Tail(cola[c]))
          PROVE  Tail(cola[c])[i] \in EnCola(c)
      <4>1. i + 1 \in 1..Len(cola[c])
        BY <2>2
      <4>. QED  BY <2>2, <4>1 DEF EnCola
    <3>. QED  BY <3>1 DEF Rango
  <2>. QED  BY <1>1, <1>3, <2>3 DEF Vista
<1>4. CASE ~ (c = "exec" /\ En("exec", "d_sacar"))
  BY <1>1, <1>4 DEF Vista, Rango, EnCola
<1>. QED  BY <1>3, <1>4

LEMMA ManoEnMemoria ==
    ASSUME NEW t \in Hilos \ {"suspReady"}
    PROVE  Mano(t) \subseteq Multiprogramados
BY DEF Mano, Multiprogramados

LEMMA MemoriaCorrecta == TypeOK /\ NuncaListaVacia /\ EstadosOK => MemoriaOK
<1>. SUFFICES ASSUME TypeOK, NuncaListaVacia, EstadosOK
              PROVE  MemoriaOK
  OBVIOUS
<1>1. IsFiniteSet(Multiprogramados)
  <2>1. \A c \in Colas : EnCola(c) \subseteq Procesos
    BY DEF EnCola, TypeOK
  <2>2. \A t \in Hilos : hilo[t].p \in Procesos \cup {Nadie}
    BY DEF TypeOK, HilosOK
  <2>3. Multiprogramados \subseteq Procesos \cup {Nadie}
    BY <2>1, <2>2, Nombres DEF Multiprogramados
  <2>4. IsFiniteSet(Procesos \cup {Nadie})
    BY ProcesosAssumption, FS_AddElement
  <2>. QED  BY <2>3, <2>4, FS_Subset
<1>2. ASSUME NEW p \in Diagrama!EnMemoria
      PROVE  p \in Multiprogramados
  <2>1. p \in Procesos /\ EstadoDe(p) \in {"LISTO", "EXEC", "BLOQUEADO", "FINALIZADO"}
    BY <1>2 DEF Diagrama!EnMemoria
  <2>2. p \in EnCurso
    BY <2>1 DEF EstadosOK
  <2>3. PICK z \in Zonas : p \in Reparto[z]
    BY <2>1, <2>2 DEF EstadosOK
  <2>4. CASE Ejecuta(p)
    <3>1. p \in Rango(Vista("exec")) \/ p \in Mano("exec")
      BY <2>1, <2>4, ZonaReparto, Nombres DEF EstadosOK
    <3>. QED  BY <3>1, ColaEnMemoria, ManoEnMemoria, Nombres
  <2>5. CASE ~ Ejecuta(p)
    <3>1. EstadoZona(z, p) \in {"LISTO", "EXEC", "BLOQUEADO", "FINALIZADO"}
      BY <2>1, <2>3, <2>5 DEF EstadosOK
    <3>2. CASE \E c \in Colas : z = <<"cola", c>>
      <4>1. PICK c \in Colas : z = <<"cola", c>>
        BY <3>2
      <4>2. c \in {"ready", "exec", "blocked", "exit"}
        BY <3>1, <4>1 DEF EstadoZona, Colas
      <4>. QED  BY <2>3, <4>1, <4>2, ColaEnMemoria, ZonaReparto
    <3>3. CASE \E t \in Hilos : z = <<"mano", t>>
      <4>1. PICK t \in Hilos : z = <<"mano", t>>
        BY <3>3
      <4>2. t # "suspReady"
        BY <3>1, <4>1 DEF EstadoZona
      <4>. QED  BY <2>3, <4>1, <4>2, ManoEnMemoria, ZonaReparto
    <3>. QED  BY <3>2, <3>3, Zona
  <2>. QED  BY <2>4, <2>5
<1>. QED  BY <1>1, <1>2 DEF MemoriaOK

LEMMA MemoriaPrima == TypeOK' /\ NuncaListaVacia' /\ EstadosOK' => MemoriaOK'
BY MemoriaCorrecta, PTL

\* The diagram's instance of FiniteSets counts as the one of the scheduler.
LEMMA MismoCardinal == \A S : Diagrama!Cardinality(S) = Cardinality(S)
BY DEF Cardinality, Diagrama!Cardinality

\* Who enters found room.
LEMMA HayLugar ==
    ASSUME MemoriaOK', GradoRespetado', NEW p \in Procesos,
           Estado[p] \notin {"LISTO", "EXEC", "BLOQUEADO", "FINALIZADO"},
           Estado' = [Estado EXCEPT ![p] = "LISTO"]
    PROVE  Diagrama!Cardinality(Diagrama!EnMemoria) < Grado
<1>. DEFINE A == Diagrama!EnMemoria
            D == Multiprogramados'
<1>1. A \cup {p} \subseteq D /\ p \notin A
  BY DEF MemoriaOK, Diagrama!EnMemoria, Estado
<1>2. IsFiniteSet(D) /\ Cardinality(D) <= Grado
  BY DEF MemoriaOK, GradoRespetado
<1>. HIDE DEF A, D
<1>3. IsFiniteSet(A)
  BY <1>1, <1>2, FS_Subset
<1>4. Cardinality(A \cup {p}) = Cardinality(A) + 1
  BY <1>1, <1>3, FS_AddElement
<1>5. Cardinality(A \cup {p}) <= Cardinality(D)
  BY <1>1, <1>2, FS_Subset
<1>6. Cardinality(A) \in Nat /\ Cardinality(D) \in Nat
  BY <1>2, <1>3, FS_CardinalityType
<1>7. Cardinality(A) < Grado
  BY <1>2, <1>4, <1>5, <1>6, GradoAssumption
<1>. QED  BY <1>7, MismoCardinal DEF A

-----------------------------------------------------------------------------
(* The steps.                                                              *)

PasoDelDiagrama == Diagrama!Next \/ Estado' = Estado

LEMMA SinAvisar ==
    ASSUME Admitir \/ Finalizar \/ Ready \/ Blocked \/ SuspendedReady, ~ FinalizarAvisar
    PROVE  finalizadas' = finalizadas
<1>1. CASE \E t \in {"admitir", "blocked"} : TransicionInterrupcion(t)
  BY <1>1 DEF TransicionInterrupcion, VerExec, Marcar, Mensaje, PostReady, Pasar, Post
<1>2. CASE Admitir /\ ~ TransicionInterrupcion("admitir")
  BY <1>2 DEF Admitir, AdmitirEsperar, AdmitirGrado, AdmitirSuspendido, AdmitirSinSuspendidos,
     AdmitirNuevo, AdmitirPedirTabla, AdmitirTabla, AdmitirAgregar, Wait, Pasar, Pedir,
     RecibirRespuesta, QuitarUltimo, Agregar
<1>3. CASE Finalizar
  BY <1>3 DEF Finalizar, FinalizarEsperar, FinalizarSacar, FinalizarPedir,
     FinalizarRespuesta, FinalizarGrado, Wait, Post, Pedir, RecibirRespuesta, QuitarPrimero
<1>4. CASE Ready
  BY <1>4 DEF Ready, ReadyEsperar, ReadyDesalojo, ReadyMirar, ReadyContar, ReadyElegir,
     ReadyAgregar, ReadyPost, Wait, Post, Pasar, Agregar
<1>5. CASE Blocked /\ ~ TransicionInterrupcion("blocked")
  BY <1>5 DEF Blocked, BlockedEsperar, BlockedSacar, BlockedDecidir, BlockedIOAntes,
     BlockedIO, BlockedAgregar, SuspenderPedir, SuspenderRespuesta, SuspenderAgregar,
     SuspenderGrado, BlockedIOResto, BlockedPostSusp, Wait, Post, Pasar, Pedir, RecibirRespuesta,
     QuitarPrimero, Agregar
<1>6. CASE SuspendedReady
  BY <1>6 DEF SuspendedReady, SuspEsperar, SuspSacar, SuspAgregar, SuspPost, Wait, Post,
     QuitarUltimo, Agregar
<1>. QED  BY <1>1, <1>2, <1>3, <1>4, <1>5, <1>6

\* A process goes from one zone to another.
LEMMA MudaSolo ==
    ASSUME NEW p, NEW a \in Zonas, NEW b \in Zonas, Muda(Reparto, Reparto', p, a, b),
           UNCHANGED <<cliente, finalizadas>>,
           \A q \in Procesos \ {p} : (Ejecuta(q)' <=> Ejecuta(q)) /\ pcb'[q].pc = pcb[q].pc
    PROVE  Solo(p)
BY DEF Solo, Muda, EnCurso

\* The ways of the threads other than estadoExec, one arrow at most each.
LEMMA RutaDiagrama ==
    ASSUME TypeOK, LugaresOK, Contadores, EstadosOK, EstadosOK', MemoriaOK', GradoRespetado',
           Quieta, finalizadas' = finalizadas,
           NEW r \in Rutas, NEW p, Muda(Reparto, Reparto', p, r[1], r[2])
    PROVE  PasoDelDiagrama
<1>. DEFINE a == r[1]
            b == r[2]
<1>1. a \in Zonas /\ b \in Zonas
  BY Zona, Nombres DEF Rutas
<1>2. p \in Procesos
  BY <1>1, Mudado DEF LugaresOK, Reparte
<1>3. \A q \in Procesos : Ejecuta(q)' <=> Ejecuta(q)
  BY DEF Ejecuta, Lleva, Quieta
<1>4. Estado' = [Estado EXCEPT ![p] = EstadoDe(p)']
  BY <1>1, <1>3, MudaSolo, SoloEstado DEF Quieta
<1>5. ~ Ejecuta(p)
  <2>1. a # <<"cola", "exec">> /\ a # <<"mano", "exec">>
    BY DEF Rutas
  <2>2. p \notin Reparto[<<"cola", "exec">>] /\ p \notin Reparto[<<"mano", "exec">>]
    BY <1>1, <2>1, Zona, Nombres DEF Muda, LugaresOK, Disjuntas
  <2>. QED  BY <1>2, <2>2 DEF EstadosOK
<1>6. Estado[p] = EstadoZona(a, p)
  BY <1>1, <1>2, <1>5 DEF EstadosOK, Muda, Estado
<1>7. EstadoDe(p)' = EstadoZona(b, p)'
  BY <1>1, <1>2, <1>3, <1>5 DEF EstadosOK, Muda
<1>8. pcb'[p].pc = pcb[p].pc
  BY <1>2 DEF Quieta
<1>9. /\ a = <<"cola", "new">> => pcb[p].pc = 0
      /\ a = <<"cola", "suspReady">> => pcb[p].pc > 0
  BY <1>2 DEF Contadores, ContadoresZonas, TrasEjecutar, Muda
<1>10. \/ EstadoZona(b, p)' = EstadoZona(a, p)
       \/ EstadoZona(a, p) \in {"NUEVO", "LISTO_SUSPENDIDO"} /\ EstadoZona(b, p)' = "LISTO"
       \/ EstadoZona(a, p) = "BLOQUEADO" /\ EstadoZona(b, p)' \in {"LISTO", "BLOQUEADO_SUSPENDIDO"}
       \/ EstadoZona(a, p) = "BLOQUEADO_SUSPENDIDO" /\ EstadoZona(b, p)' = "LISTO_SUSPENDIDO"
  BY <1>8, <1>9 DEF Rutas, EstadoZona
<1>. HIDE DEF a, b
<1>11. CASE EstadoZona(b, p)' = EstadoZona(a, p)
  <2>1. Estado' = Estado
    BY <1>4, <1>6, <1>7, <1>11 DEF Estado
  <2>. QED  BY <2>1 DEF PasoDelDiagrama
<1>12. CASE EstadoZona(a, p) \in {"NUEVO", "LISTO_SUSPENDIDO"} /\ EstadoZona(b, p)' = "LISTO"
  <2>1. Diagrama!Cardinality(Diagrama!EnMemoria) < Grado
    BY <1>2, <1>4, <1>6, <1>7, <1>12, HayLugar
  <2>2. Diagrama!Admitir(p)
    BY <1>4, <1>6, <1>7, <1>12, <2>1 DEF Diagrama!Admitir, Diagrama!Pasa, Estado
  <2>. QED  BY <1>2, <2>2 DEF PasoDelDiagrama, Diagrama!Next
<1>13. CASE EstadoZona(a, p) = "BLOQUEADO" /\ EstadoZona(b, p)' \in {"LISTO", "BLOQUEADO_SUSPENDIDO"}
  <2>1. Diagrama!Desbloquear(p) \/ Diagrama!Suspender(p)
    BY <1>4, <1>6, <1>7, <1>13 DEF Diagrama!Desbloquear, Diagrama!Suspender, Diagrama!Pasa, Estado
  <2>. QED  BY <1>2, <2>1 DEF PasoDelDiagrama, Diagrama!Next
<1>14. CASE EstadoZona(a, p) = "BLOQUEADO_SUSPENDIDO" /\ EstadoZona(b, p)' = "LISTO_SUSPENDIDO"
  <2>1. Diagrama!FinDeIO(p)
    BY <1>4, <1>6, <1>7, <1>14 DEF Diagrama!FinDeIO, Diagrama!Pasa, Estado
  <2>. QED  BY <1>2, <2>1 DEF PasoDelDiagrama, Diagrama!Next
<1>. QED  BY <1>10, <1>11, <1>12, <1>13, <1>14

LEMMA AvisarDiagrama ==
    ASSUME TypeOK, LugaresOK, EstadosOK, EstadosOK', FinalizarAvisar
    PROVE  PasoDelDiagrama
<1>. DEFINE a == <<"mano", "finalizar">>
<1>0. PICK p : p = hilo["finalizar"].p
  OBVIOUS
<1>1. /\ p \in Reparto[a] /\ \A z \in Zonas : Reparto'[z] = Reparto[z] \ {p}
  BY <1>0, AvisarReparte DEF LugaresOK, Reparte
<1>2. /\ Quieta /\ finalizadas' = finalizadas \cup {p} /\ cliente' = cliente
  BY <1>0, OtrosQuieta DEF Finalizar, FinalizarAvisar
<1>3. a \in Zonas /\ p \in Procesos /\ p \in EnCurso
  BY <1>1, Zona, Nombres DEF LugaresOK, Juntas, EnCurso
<1>4. \A q \in Procesos : Ejecuta(q)' <=> Ejecuta(q)
  BY <1>2 DEF Ejecuta, Lleva, Quieta
<1>5. Solo(p)
  BY <1>1, <1>2, <1>4 DEF Solo, EnCurso, Quieta
<1>6. Estado' = [Estado EXCEPT ![p] = EstadoDe(p)']
  BY <1>5, SoloEstado
<1>7. EstadoDe(p)' = "FIN"
  BY <1>2, <1>3 DEF EstadosOK, EnCurso
<1>8. Estado[p] = "FINALIZADO"
  <2>1. ~ Ejecuta(p)
    <3>1. a # <<"cola", "exec">> /\ a # <<"mano", "exec">>
      OBVIOUS
    <3>. HIDE DEF a
    <3>2. p \notin Reparto[<<"cola", "exec">>] /\ p \notin Reparto[<<"mano", "exec">>]
      BY <1>1, <1>3, <3>1, Zona, Nombres DEF LugaresOK, Disjuntas
    <3>. QED  BY <1>3, <3>2 DEF EstadosOK
  <2>2. EstadoZona(a, p) = "FINALIZADO"
    BY DEF EstadoZona
  <2>. QED  BY <1>1, <1>3, <2>1, <2>2 DEF EstadosOK, Estado
<1>9. Diagrama!Salir(p)
  BY <1>6, <1>7, <1>8 DEF Diagrama!Salir, Diagrama!Pasa, Estado
<1>. QED  BY <1>3, <1>9 DEF PasoDelDiagrama, Diagrama!Next

LEMMA OtrosDiagrama ==
    ASSUME TypeOK, NuncaListaVacia, LugaresOK, Contadores, EstadosOK,
           EstadosOK', MemoriaOK', GradoRespetado',
           Admitir \/ Finalizar \/ Ready \/ Blocked \/ SuspendedReady
    PROVE  PasoDelDiagrama
<1>1. Quieta
  BY OtrosQuieta
<1>2. CASE FinalizarAvisar
  BY <1>2, AvisarDiagrama
<1>3. CASE ~ FinalizarAvisar
  <2>1. finalizadas' = finalizadas
    BY <1>3, SinAvisar
  <2>2. Movida
    BY <1>3, LugaresPartes, AdmitirReparte, FinalizarReparte, ReadyReparte, BlockedReparte,
       SuspendedReadyReparte
  <2>3. CASE Reparto' = Reparto
    <3>1. Solo(Nadie)
      BY <1>1, <2>1, <2>3 DEF Solo, Quieta, EnCurso, Ejecuta, Lleva
    <3>. QED  BY <3>1, NadieEstado DEF PasoDelDiagrama
  <2>4. CASE \E r \in Rutas : \E p : Muda(Reparto, Reparto', p, r[1], r[2])
    BY <1>1, <2>1, <2>4, RutaDiagrama
  <2>. QED  BY <2>2, <2>3, <2>4 DEF Movida
<1>. QED  BY <1>2, <1>3

\* The process that estadoExec holds takes the place of p in a step of Exec.
LEMMA ExecSolo ==
    ASSUME TypeOK, NuncaListaVacia, LugaresOK, EstadosOK, EstadosOK', Exec,
           NEW p, p = hilo["exec"].p \/ p = hilo'["exec"].p,
           p = hilo["exec"].p \/ ~ \E q : Ejecuta(q),
           p = hilo'["exec"].p \/ ~ \E q : Ejecuta(q)',
           \/ Reparto' = Reparto
           \/ \E a, b \in Zonas : Muda(Reparto, Reparto', p, a, b)
    PROVE  Estado' = [Estado EXCEPT ![p] = EstadoDe(p)']
<1>1. /\ cliente' = cliente /\ finalizadas' = finalizadas
      /\ \A q \in Procesos : pcb'[q].pc = pcb[q].pc
  BY ExecZonas, LugaresPartes
<1>2. \A q \in Procesos \ {p} : ~ Ejecuta(q) /\ ~ Ejecuta(q)'
  <2>1. /\ \A q : Ejecuta(q) => q = hilo["exec"].p
        /\ \A q : Ejecuta(q)' => q = hilo'["exec"].p
    BY DEF Ejecuta, Lleva
  <2>. QED  BY <2>1
<1>3. Solo(p)
  <2>1. CASE Reparto' = Reparto
    BY <1>1, <1>2, <2>1 DEF Solo, EnCurso
  <2>2. CASE \E a, b \in Zonas : Muda(Reparto, Reparto', p, a, b)
    BY <1>1, <1>2, <2>2, MudaSolo
  <2>. QED  BY <2>1, <2>2
<1>. QED  BY <1>3, SoloEstado

\* The steps of estadoExec that change the state of no process.
LEMMA ExecCallado ==
    ASSUME TypeOK, NuncaListaVacia, LugaresOK, EstadosOK, EstadosOK', Exec,
           ~ ExecTomar, ~ ExecEncolar, ~ DesalojoAReady
    PROVE  Estado' = Estado
<1>1. PICK p : p = hilo["exec"].p
  OBVIOUS
<1>2. \/ Reparto' = Reparto
      \/ \E a, b \in Zonas : Muda(Reparto, Reparto', p, a, b)
  BY <1>1, ExecZonas, LugaresPartes, Zona, Nombres
<1>3. \/ /\ hilo["exec"].en \in {"despachar", "recibir", "decidir", "bajar", "post_desalojo", "sacar"}
           /\ hilo'["exec"].en \in {"recibir", "decidir", "d_ready", "bajar", "post_desalojo",
                                    "sacar", "encolar"}
           /\ hilo'["exec"].p = hilo["exec"].p
      \/ /\ hilo["exec"].en \in {"inicio", "d_sacar", "d_bajar", "d_post", "post_cola", "post_extra"}
         /\ hilo'["exec"].en \in {"inicio", "tomar", "d_bajar", "d_post", "post_extra"}
  BY Nombres DEF Exec, ExecEsperar, ExecDespachar, ExecRecibir, ExecDesalojar,
     ExecNoDesalojar, DesalojoSacar, DesalojoBajar, DesalojoPost, ExecBajar,
     ExecPostDesalojo, ExecSacar, ExecPostCola, ExecPostExtra,
     Wait, Post, Pasar, BajarInterrupcion, Sigue, En, TypeOK, HilosOK
<1>4. Ejecuta(p)' <=> Ejecuta(p)
  BY <1>1, <1>3 DEF Ejecuta, Lleva
<1>5. /\ p = hilo'["exec"].p \/ ~ \E q : Ejecuta(q)'
      /\ p = hilo["exec"].p
  BY <1>1, <1>3 DEF Ejecuta, Lleva
<1>6. Estado' = [Estado EXCEPT ![p] = EstadoDe(p)']
  BY <1>2, <1>5, ExecSolo
<1>7. ASSUME p \in Procesos
      PROVE  EstadoDe(p)' = EstadoDe(p)
  <2>1. CASE Ejecuta(p)
    <3>1. \E z \in Zonas : p \in Reparto[z]
      BY <1>7, <2>1, Zona, Nombres DEF EstadosOK
    <3>2. \E z \in Zonas : p \in Reparto'[z]
      BY <1>2, <3>1 DEF Muda
    <3>. QED  BY <1>4, <1>7, <2>1, <3>1, <3>2 DEF EstadosOK
  <2>2. CASE ~ Ejecuta(p)
    <3>1. Reparto' = Reparto
      BY <1>1, <2>2, ExecZonas, LugaresPartes DEF ExecSacar, En, Ejecuta, Lleva
    <3>2. /\ p \in EnCurso' <=> p \in EnCurso
          /\ finalizadas' = finalizadas /\ pcb'[p].pc = pcb[p].pc
      BY <1>7, ExecZonas, LugaresPartes DEF EnCurso
    <3>3. \A z : EstadoZona(z, p)' = EstadoZona(z, p)
      BY <3>2 DEF EstadoZona
    <3>4. CASE p \in EnCurso
      <4>1. PICK z \in Zonas : p \in Reparto[z]
        BY <1>7, <3>4 DEF EstadosOK
      <4>2. EstadoDe(p) = EstadoZona(z, p)
        BY <1>7, <2>2, <4>1 DEF EstadosOK
      <4>3. EstadoDe(p)' = EstadoZona(z, p)'
        BY <1>4, <1>7, <2>2, <3>1, <4>1 DEF EstadosOK
      <4>. QED  BY <3>3, <4>2, <4>3
    <3>5. CASE p \notin EnCurso
      BY <1>7, <3>2, <3>5 DEF EstadosOK
    <3>. QED  BY <3>4, <3>5
  <2>. QED  BY <2>1, <2>2
<1>. QED  BY <1>6, <1>7 DEF Estado

\* The CPU gets the first of Exec.
LEMMA TomarDiagrama ==
    ASSUME TypeOK, NuncaListaVacia, LugaresOK, EstadosOK, EstadosOK', ExecTomar
    PROVE  PasoDelDiagrama
<1>1. PICK p : p = Head(cola["exec"])
  OBVIOUS
<1>2. /\ hilo["exec"].en = "tomar" /\ hilo'["exec"].en = "despachar" /\ hilo'["exec"].p = p
      /\ cola["exec"] # <<>> /\ cola["exec"] \in Seq(Procesos)
  BY <1>1, Nombres DEF ExecTomar, Toma, En, TypeOK, HilosOK
<1>3. p \in Procesos /\ p \in Reparto[<<"cola", "exec">>]
  <2>1. 1 \in 1..Len(cola["exec"]) /\ p = cola["exec"][1]
    BY <1>1, <1>2, TailFalta
  <2>2. Vista("exec") = cola["exec"]
    BY <1>2 DEF Vista, En
  <2>3. p \in Rango(Vista("exec")) /\ p \in Procesos
    BY <1>2, <2>1, <2>2, ElementOfSeq DEF Rango
  <2>. QED  BY <2>3, ZonaReparto, Nombres
<1>4. Exec /\ Reparto' = Reparto
  <2>1. Exec
    BY DEF Exec
  <2>2. ~ ExecSacar /\ ~ DesalojoAReady /\ ~ ExecEncolar
    BY <1>2 DEF ExecSacar, DesalojoAReady, ExecEncolar, Agregar, En
  <2>. QED  BY <2>1, <2>2, ExecZonas, LugaresPartes
<1>5. (\A q : ~ Ejecuta(q)) /\ Ejecuta(p)'
  BY <1>2 DEF Ejecuta, Lleva
<1>6. Estado' = [Estado EXCEPT ![p] = EstadoDe(p)']
  BY <1>2, <1>4, <1>5, ExecSolo
<1>7. EstadoDe(p)' = "EXEC"
  BY <1>3, <1>4, <1>5, Zona, Nombres DEF EstadosOK
<1>8. Estado[p] = "LISTO"
  BY <1>3, <1>5, Zona, Nombres DEF EstadosOK, Estado, EstadoZona
<1>9. \A q \in Procesos : Estado[q] # "EXEC"
  <2>1. ASSUME NEW q \in Procesos
        PROVE  EstadoDe(q) # "EXEC"
    <3>1. CASE q \in EnCurso
      BY <1>5, <3>1 DEF EstadosOK, EstadoZona
    <3>2. CASE q \notin EnCurso
      BY <3>2 DEF EstadosOK
    <3>. QED  BY <3>1, <3>2
  <2>. QED  BY <2>1 DEF Estado
<1>10. Diagrama!Despachar(p)
  BY <1>6, <1>7, <1>8, <1>9 DEF Diagrama!Despachar, Diagrama!Pasa, Estado
<1>. QED  BY <1>3, <1>10 DEF PasoDelDiagrama, Diagrama!Next

\* What came back from the CPU leaves EXEC.
LEMMA DejarDiagrama ==
    ASSUME TypeOK, NuncaListaVacia, LugaresOK, EstadosOK, EstadosOK', ExecEncolar \/ DesalojoAReady
    PROVE  PasoDelDiagrama
<1>1. PICK p : p = hilo["exec"].p
  OBVIOUS
<1>2. Exec /\ p \in Procesos /\ Ejecuta(p) /\ ~ \E q : Ejecuta(q)'
  <2>1. Exec
    BY DEF Exec
  <2>2. /\ hilo["exec"].en \in {"encolar", "d_ready"} /\ hilo["exec"].p \in Procesos
        /\ hilo'["exec"].en \in {"post_cola", "d_sacar"}
    <3>1. PICK l \in {"encolar", "d_ready"}, m \in {"post_cola", "d_sacar"} :
            En("exec", l) /\ Sigue("exec", m)
      BY DEF ExecEncolar, DesalojoAReady, Agregar
    <3>2. hilo'["exec"].en = m
      BY <3>1, Nombres DEF Sigue, TypeOK, HilosOK
    <3>. QED  BY <3>1, <3>2, Nombres DEF En, TypeOK, HilosOK, SinProceso
  <2>. QED  BY <1>1, <2>1, <2>2 DEF Ejecuta, Lleva
<1>3. PICK a \in {<<"cola", "exec">>, <<"mano", "exec">>}, c \in {"ready", "blocked", "exit"} :
        Muda(Reparto, Reparto', p, a, <<"cola", c>>)
  <2>1. ~ ExecSacar /\ ~ (Reparto' = Reparto /\ ~ DesalojoAReady /\ ~ ExecEncolar)
    BY DEF ExecSacar, ExecEncolar, DesalojoAReady, Agregar, En
  <2>. QED  BY <1>1, <1>2, <2>1, ExecZonas, LugaresPartes
<1>4. a \in Zonas /\ <<"cola", c>> \in Zonas
  BY Zona, Nombres
<1>5. Estado' = [Estado EXCEPT ![p] = EstadoDe(p)']
  BY <1>1, <1>2, <1>3, <1>4, ExecSolo
<1>6. Estado[p] = "EXEC"
  BY <1>2, <1>3, <1>4 DEF EstadosOK, Muda, Estado
<1>7. p \in Reparto'[<<"cola", c>>] /\ ~ Ejecuta(p)'
  BY <1>2, <1>3 DEF Muda
<1>8. EstadoDe(p)' = EstadoZona(<<"cola", c>>, p)'
  BY <1>2, <1>4, <1>7 DEF EstadosOK
<1>9. EstadoDe(p)' \in {"LISTO", "BLOQUEADO", "FINALIZADO"}
  BY <1>8 DEF EstadoZona
<1>10. Diagrama!Desalojar(p) \/ Diagrama!Bloquear(p) \/ Diagrama!Terminar(p)
  BY <1>5, <1>6, <1>9 DEF Diagrama!Desalojar, Diagrama!Bloquear, Diagrama!Terminar, Diagrama!Pasa,
     Estado
<1>. QED  BY <1>2, <1>10 DEF PasoDelDiagrama, Diagrama!Next

LEMMA ExecDiagrama ==
    ASSUME TypeOK, NuncaListaVacia, LugaresOK, EstadosOK, EstadosOK', Exec
    PROVE  PasoDelDiagrama
BY TomarDiagrama, DejarDiagrama, ExecCallado DEF PasoDelDiagrama

\* A console connects.
LEMMA LlegarDiagrama ==
    ASSUME TypeOK, NuncaListaVacia, LugaresOK, Contadores, EstadosOK, EstadosOK',
           NEW p \in Procesos, ClienteAgregar(p)
    PROVE  PasoDelDiagrama
<1>. DEFINE b == <<"cola", "new">>
<1>1. /\ Reparto'[b] = Reparto[b] \cup {p} /\ \A z \in Zonas \ {b} : Reparto'[z] = Reparto[z]
  BY LlegarReparte, LugaresPartes
<1>2. /\ UNCHANGED <<hilo, pcb, finalizadas>> /\ cliente[p] = "inicio" /\ cliente'[p] # "inicio"
      /\ \A q \in Procesos \ {p} : cliente'[q] = cliente[q]
  BY DEF ClienteAgregar, TypeOK
<1>3. b \in Zonas
  BY Zona, Nombres
<1>4. \A q : Ejecuta(q)' <=> Ejecuta(q)
  BY <1>2 DEF Ejecuta, Lleva
<1>5. p \notin EnCurso /\ p \notin finalizadas
  BY <1>2 DEF EnCurso, LugaresOK
<1>6. Solo(p)
  BY <1>1, <1>2, <1>4 DEF Solo, EnCurso
<1>7. Estado' = [Estado EXCEPT ![p] = EstadoDe(p)']
  BY <1>6, SoloEstado
<1>8. Estado[p] = "AFUERA"
  BY <1>5 DEF EstadosOK, Estado
<1>9. EstadoDe(p)' = "NUEVO"
  <2>1. ~ Ejecuta(p)
    <3>1. \A z \in Zonas : p \notin Reparto[z]
      BY <1>5 DEF LugaresOK, Juntas
    <3>. QED  BY <3>1, Zona, Nombres DEF EstadosOK
  <2>2. EstadoZona(b, p)' = "NUEVO"
    BY DEF EstadoZona
  <2>. QED  BY <1>1, <1>3, <1>4, <2>1, <2>2 DEF EstadosOK
<1>10. Diagrama!Llegar(p)
  BY <1>7, <1>8, <1>9 DEF Diagrama!Llegar, Diagrama!Pasa, Estado
<1>. QED  BY <1>10 DEF PasoDelDiagrama, Diagrama!Next

\* The CPU, the memory module and the rest of a console's thread change the
\* state of no process: the program counter that moves is of one in EXEC.
LEMMA CalladoDiagrama ==
    ASSUME TypeOK, LugaresOK, Contadores, CpuDeExec, EstadosOK, EstadosOK',
           \/ \E p \in Procesos : ClientePost(p)
           \/ Ciclo \/ CpuInterrumpir \/ CpuMemoria \/ MemoriaAtender \/ UNCHANGED vars
    PROVE  Estado' = Estado
<1>1. UNCHANGED <<cola, hilo, finalizadas>>
  BY DEF ClientePost, Ciclo, CpuRecibir, CpuInstruccion, CpuChequear, CpuSinExit, CpuInterrumpir,
     CpuMemoria, CpuFalloSinContador, CpuSinMemoria,
         MemoriaAtender, vars
<1>2. Reparto' = Reparto
  BY <1>1, QuietoReparto
<1>3. EnCurso' = EnCurso
  BY <1>1 DEF ClientePost, Ciclo, CpuRecibir, CpuInstruccion, CpuChequear, CpuSinExit,
     CpuInterrumpir, CpuMemoria, CpuFalloSinContador, CpuSinMemoria,
         MemoriaAtender, vars, EnCurso, TypeOK
<1>4. \A q : Ejecuta(q)' <=> Ejecuta(q)
  BY <1>1 DEF Ejecuta, Lleva
<1>5. CASE CpuInstruccion
  <2>1. PICK p \in Procesos : /\ p = cpu.p /\ p \in Reparto[<<"cola", "exec">>] /\ Ejecuta(p)
    BY <1>5, CpuDePrimero, LugaresPartes DEF CpuInstruccion, Ejecuta, Lleva
  <2>2. \A q \in Procesos \ {p} : pcb'[q].pc = pcb[q].pc
    BY <1>5, <2>1 DEF CpuInstruccion, TypeOK, Pcbs
  <2>3. Solo(p)
    BY <1>1, <1>2, <1>3, <1>4, <2>2 DEF Solo
  <2>4. Estado' = [Estado EXCEPT ![p] = EstadoDe(p)']
    BY <2>3, SoloEstado
  <2>5. EstadoDe(p) = "EXEC" /\ EstadoDe(p)' = "EXEC"
    BY <1>2, <1>4, <2>1, Zona, Nombres DEF EstadosOK
  <2>. QED  BY <2>4, <2>5 DEF Estado
<1>6. CASE ~ CpuInstruccion
  <2>1. pcb' = pcb
    BY <1>6 DEF ClientePost, Ciclo, CpuRecibir, CpuChequear, CpuSinExit, CpuInterrumpir,
       CpuMemoria, CpuFalloSinContador, CpuSinMemoria,
         MemoriaAtender, vars
  <2>2. Solo(Nadie)
    BY <1>1, <1>2, <1>3, <1>4, <2>1 DEF Solo
  <2>. QED  BY <2>2, NadieEstado
<1>. QED  BY <1>5, <1>6

LEMMA PasoDiagrama ==
    ASSUME TypeOK, NuncaListaVacia, LugaresOK, Contadores, CpuDeExec, EstadosOK,
           EstadosOK', MemoriaOK', GradoRespetado', [Next]_vars
    PROVE  PasoDelDiagrama
<1>1. CASE \E p \in Procesos : ClienteAgregar(p)
  BY <1>1, LlegarDiagrama
<1>2. CASE \/ \E p \in Procesos : ClientePost(p)
           \/ Ciclo \/ CpuInterrumpir \/ CpuMemoria \/ MemoriaAtender \/ UNCHANGED vars
  BY <1>2, CalladoDiagrama DEF PasoDelDiagrama
<1>3. CASE Admitir \/ Finalizar \/ Ready \/ Blocked \/ SuspendedReady
  BY <1>3, OtrosDiagrama
<1>4. CASE Exec
  BY <1>4, ExecDiagrama
<1>. QED  BY <1>1, <1>2, <1>3, <1>4 DEF Next, Cliente

\* No console connected yet: every process is outside.
LEMMA InicioDiagrama == Init => Diagrama!Init
<1>. SUFFICES ASSUME Init, NEW p \in Procesos
              PROVE  EstadoDe(p) = "AFUERA"
  BY DEF Diagrama!Init
<1>1. p \notin finalizadas /\ cliente[p] = "inicio"
  BY DEF Init
<1>2. p \notin EnCurso
  BY <1>1 DEF EnCurso
<1>3. TypeOK /\ LugaresOK
  BY InitTipo, InitLugares
<1>. QED  BY <1>1, <1>2, <1>3, EstadoAfuera

\* The planner threads, with their lists and semaphores, implement the
\* seven-state diagram (src/kernel/src/planificacion.c): legal transitions only,
\* one at a time, at most Grado processes admitted and at most one executing.
THEOREM DiagramaImplementado == Spec => ImplementaDiagrama
<1>1. PasoDelDiagrama => [Diagrama!Next]_(Estado)
  BY DEF PasoDelDiagrama
<1>2. TypeOK /\ NuncaListaVacia /\ LugaresOK /\ Contadores /\ CpuDeExec /\ EstadosOK
      /\ EstadosOK' /\ MemoriaOK' /\ GradoRespetado' /\ [Next]_vars => [Diagrama!Next]_(Estado)
  BY <1>1, PasoDiagrama
<1>3. Invariante => CpuDeExec
  BY DEF Invariante
<1>4. Spec => Diagrama!Init /\ [][Diagrama!Next]_(Estado)
  BY <1>2, <1>3, InicioDiagrama, TypeCorrect, SinListaVacia, RepartoCorrecto, CuentasCorrectas,
     ContadoresSiempre, GradoSiempre, EstadosCorrectos, MemoriaCorrecta, PTL DEF Spec
<1>. QED  BY <1>4, PTL DEF ImplementaDiagrama, Diagrama!Spec, Estado
=============================================================================
