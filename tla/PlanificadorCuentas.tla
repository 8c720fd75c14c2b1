------------------------ MODULE PlanificadorCuentas -------------------------
(***************************************************************************)
(* Theorems about the scheduler, for every set of processes, every program *)
(* and every degree of multiprogramming: its types, and the counts of      *)
(* PlanificadorInv.                                                        *)
(***************************************************************************)
EXTENDS PlanificadorInv, FiniteSetTheorems, SequenceTheorems, TLAPS

-----------------------------------------------------------------------------
(* Types.                                                                  *)
(*                                                                         *)
(* Every step of a thread goes through one of a few operators: one lemma   *)
(* for each says that it preserves the type invariant.                     *)

\* Moving a thread on keeps the threads well formed, if a step that needs a
\* process finds one in the thread's hands.
LEMMA SigueTipo ==
    ASSUME HilosOK, NEW t \in Hilos, NEW l, Sigue(t, l),
           l \in SinProceso[t] \/ (l \in ConProceso[t] \ {"inicio"} /\ hilo[t].p \in Procesos)
    PROVE  HilosOK'
<1>1. l \in Pasos
  BY DEF Pasos
<1>. QED  BY <1>1 DEF HilosOK, Sigue

LEMMA TomaTipo ==
    ASSUME HilosOK, NEW t \in Hilos, NEW l, NEW p \in Procesos, Toma(t, p, l),
           l \in SinProceso[t] \cup ConProceso[t]
    PROVE  HilosOK'
<1>1. l \in Pasos
  BY DEF Pasos
<1>. QED  BY <1>1 DEF HilosOK, Toma

\* The destinations of a step of thread t taken at step l.
Llega(t, l, m) ==
    \/ m \in SinProceso[t]
    \/ m \in ConProceso[t] \ {"inicio"} /\ l \in ConProceso[t] \ SinProceso[t]

LEMMA SigueDesde ==
    ASSUME HilosOK, NEW t \in Hilos, NEW l, NEW m, En(t, l), Llega(t, l, m), Sigue(t, m)
    PROVE  HilosOK'
<1>1. m \in SinProceso[t] \/ (m \in ConProceso[t] \ {"inicio"} /\ hilo[t].p \in Procesos)
  BY DEF Llega, HilosOK, En
<1>. QED  BY <1>1, SigueTipo

LEMMA WaitTipo ==
    ASSUME TypeOK, NEW t \in Hilos, NEW s \in Semaforos, NEW l, NEW m,
           Wait(t, l, s, m), Llega(t, l, m)
    PROVE  TypeOK'
<1>1. HilosOK'
  BY SigueDesde DEF Wait, TypeOK
<1>2. sem' \in [Semaforos -> Nat]
  BY DEF Wait, TypeOK
<1>. QED  BY <1>1, <1>2 DEF Wait, TypeOK

LEMMA PostTipo ==
    ASSUME TypeOK, NEW t \in Hilos, NEW s \in Semaforos, NEW l, NEW m,
           Post(t, l, s, m), Llega(t, l, m)
    PROVE  TypeOK'
<1>1. HilosOK'
  BY SigueDesde DEF Post, TypeOK
<1>2. sem' \in [Semaforos -> Nat]
  BY DEF Post, TypeOK
<1>. QED  BY <1>1, <1>2 DEF Post, TypeOK

LEMMA AgregarTipo ==
    ASSUME TypeOK, NEW t \in Hilos, NEW c \in Colas, NEW l \in ConProceso[t] \ SinProceso[t],
           NEW m, Agregar(t, l, c, m), Llega(t, l, m)
    PROVE  TypeOK'
<1>1. HilosOK'
  BY SigueDesde DEF Agregar, TypeOK
<1>2. hilo[t].p \in Procesos
  BY DEF Agregar, TypeOK, HilosOK, En
<1>3. cola' \in [Colas -> Seq(Procesos)]
  BY <1>2 DEF Agregar, TypeOK
<1>. QED  BY <1>1, <1>3 DEF Agregar, TypeOK

LEMMA QuitarPrimeroTipo ==
    ASSUME TypeOK, NEW t \in Hilos, NEW c \in Colas, NEW l, NEW m,
           QuitarPrimero(t, l, c, m), m \in SinProceso[t] \cup ConProceso[t]
    PROVE  TypeOK'
<1>1. Head(cola[c]) \in Procesos
  BY DEF QuitarPrimero, TypeOK
<1>2. HilosOK'
  BY <1>1, TomaTipo DEF QuitarPrimero, TypeOK
<1>3. cola' \in [Colas -> Seq(Procesos)]
  BY DEF QuitarPrimero, TypeOK
<1>. QED  BY <1>2, <1>3 DEF QuitarPrimero, TypeOK

LEMMA QuitarUltimoTipo ==
    ASSUME TypeOK, NEW t \in Hilos, NEW c \in Colas, NEW l, NEW m,
           QuitarUltimo(t, l, c, m), m \in SinProceso[t] \cup ConProceso[t]
    PROVE  TypeOK'
<1>0. cola[c] \in Seq(Procesos) /\ Len(cola[c]) \in Nat \ {0}
  BY DEF QuitarUltimo, TypeOK
<1>1. Ultimo(c) \in Procesos
  BY <1>0 DEF Ultimo
<1>2. HilosOK'
  BY <1>1, TomaTipo DEF QuitarUltimo, TypeOK
<1>3. SinUltimo(c) \in Seq(Procesos)
  BY <1>0, SubSeqProperties DEF SinUltimo
<1>4. cola' \in [Colas -> Seq(Procesos)]
  BY <1>3 DEF QuitarUltimo, TypeOK
<1>. QED  BY <1>2, <1>4 DEF QuitarUltimo, TypeOK

LEMMA PasarTipo ==
    ASSUME TypeOK, NEW t \in Hilos, NEW l, NEW m, Pasar(t, l, m), Llega(t, l, m)
    PROVE  TypeOK'
<1>1. HilosOK'
  BY SigueDesde DEF Pasar, TypeOK
<1>. QED  BY <1>1 DEF Pasar, TypeOK

LEMMA PedirTipo ==
    ASSUME TypeOK, NEW t \in Hilos, NEW l \in ConProceso[t] \ SinProceso[t], NEW m,
           NEW op \in {"INICIALIZAR_ESTRUCTURAS", "PCB", "SUSPENDER_PROCESO"},
           Pedir(t, l, op, m), Llega(t, l, m)
    PROVE  TypeOK'
<1>1. HilosOK'
  BY SigueDesde DEF Pedir, TypeOK
<1>2. hilo[t].p \in Procesos
  BY DEF Pedir, TypeOK, HilosOK, En
<1>3. [op |-> op, p |-> hilo[t].p] \in Pedidos
  BY <1>2 DEF Pedidos
<1>4. Append(memoria.pedidos, [op |-> op, p |-> hilo[t].p]) \in Seq(Pedidos)
  BY <1>3, AppendProperties DEF TypeOK, Memorias
<1>5. memoria' \in Memorias
  <2>1. memoria \in Memorias /\ [memoria EXCEPT !.estado = "rota"] \in Memorias
    BY DEF TypeOK, Memorias
  <2>2. [memoria EXCEPT !.pedidos = Append(@, [op |-> op, p |-> hilo[t].p])] \in Memorias
    BY <1>4, <2>1 DEF Memorias
  <2>. QED  BY <2>1, <2>2 DEF Pedir
<1>. QED  BY <1>1, <1>5 DEF Pedir, TypeOK

LEMMA RespuestaTipo ==
    ASSUME TypeOK, NEW t \in Hilos, NEW l, NEW m, RecibirRespuesta(t, l, m), Llega(t, l, m),
           pcb' \in [Procesos -> Pcbs]
    PROVE  TypeOK'
<1>1. HilosOK'
  BY SigueDesde DEF RecibirRespuesta, TypeOK
<1>2. memoria.respuestas # <<>> => Tail(memoria.respuestas) \in Seq(Pedidos)
  BY HeadTailProperties DEF TypeOK, Memorias
<1>3. memoria' \in Memorias
  BY <1>2 DEF RecibirRespuesta, TypeOK, Memorias
<1>. QED  BY <1>1, <1>3 DEF RecibirRespuesta, TypeOK

\* Updating the record of the CPU.
LEMMA CpuTipo ==
    ASSUME NEW r \in Cpus,
           NEW e \in {"libre", "recibir", "ciclo", "chequear", "devuelto"}
    PROVE  /\ [r EXCEPT !.en = e] \in Cpus
           /\ \A p \in Procesos \cup {Nadie} : [r EXCEPT !.en = e, !.p = p] \in Cpus
           /\ \A b \in {0, 1} : [r EXCEPT !.en = e, !.parar = b] \in Cpus
           /\ [r EXCEPT !.mensajes = r.mensajes + 1] \in Cpus
           /\ r.mensajes > 0 => [r EXCEPT !.mensajes = r.mensajes - 1, !.parar = 1] \in Cpus
<1>1. [r EXCEPT !.en = e] \in Cpus
  BY DEF Cpus
<1>2. \A p \in Procesos \cup {Nadie} : [r EXCEPT !.en = e, !.p = p] \in Cpus
  BY DEF Cpus
<1>3. \A b \in {0, 1} : [r EXCEPT !.en = e, !.parar = b] \in Cpus
  BY DEF Cpus
<1>4. [r EXCEPT !.mensajes = r.mensajes + 1] \in Cpus
  BY DEF Cpus
<1>5. ASSUME r.mensajes > 0
      PROVE  [r EXCEPT !.mensajes = r.mensajes - 1, !.parar = 1] \in Cpus
  <2>1. r.mensajes - 1 \in Nat
    BY <1>5 DEF Cpus
  <2>2. \A n \in Nat : [r EXCEPT !.mensajes = n, !.parar = 1] \in Cpus
    BY DEF Cpus
  <2>. QED  BY <2>1, <2>2
<1>. QED  BY <1>1, <1>2, <1>3, <1>4, <1>5

\* transicion_interrupcion, in either of the threads that call it.
LEMMA InterrupcionTipo ==
    ASSUME TypeOK, NEW t \in {"admitir", "blocked"}, TransicionInterrupcion(t)
    PROVE  TypeOK'
<1>1. /\ Llega(t, "ver_exec", "marcar") /\ Llega(t, "ver_exec", "post_ready")
      /\ Llega(t, "marcar", "mensaje") /\ Llega(t, "mensaje", "post_ready")
      /\ Llega(t, "post_ready", "inicio")
  <2>1. CASE t = "admitir"
    BY <2>1 DEF Llega, SinProceso, ConProceso
  <2>2. CASE t = "blocked"
    BY <2>2 DEF Llega, SinProceso, ConProceso
  <2>. QED  BY <2>1, <2>2
<1>2. t \in Hilos
  BY DEF Hilos, SinProceso
<1>3. CASE VerExec(t)
  <2>1. CASE HayQueInterrumpir
    <3>1. Pasar(t, "ver_exec", "marcar")
      BY <2>1, <1>3 DEF VerExec
    <3>. QED  BY <3>1, <1>1, <1>2, PasarTipo
  <2>2. CASE ~ HayQueInterrumpir
    <3>1. Pasar(t, "ver_exec", "post_ready")
      BY <2>2, <1>3 DEF VerExec
    <3>. QED  BY <3>1, <1>1, <1>2, PasarTipo
  <2>. QED  BY <2>1, <2>2 DEF HayQueInterrumpir
<1>4. CASE Marcar(t)
  <2>1. HilosOK'
    BY <1>1, <1>2, <1>4, SigueDesde DEF Marcar, TypeOK
  <2>. QED  BY <2>1, <1>4 DEF Marcar, TypeOK
<1>5. CASE Mensaje(t)
  <2>1. HilosOK'
    BY <1>1, <1>2, <1>5, SigueDesde DEF Mensaje, TypeOK
  <2>2. cpu' \in Cpus
    BY <1>5, CpuTipo DEF Mensaje, TypeOK
  <2>. QED  BY <2>1, <2>2, <1>5 DEF Mensaje, TypeOK
<1>6. CASE PostReady(t)
  <2>1. "ready" \in Semaforos
    BY DEF Semaforos
  <2>. QED  BY <2>1, <1>1, <1>2, <1>6, PostTipo DEF PostReady
<1>. QED  BY <1>3, <1>4, <1>5, <1>6 DEF TransicionInterrupcion

LEMMA ClienteTipo ==
    ASSUME TypeOK, NEW p \in Procesos, Cliente(p)
    PROVE  TypeOK'
<1>1. CASE ClienteAgregar(p)
  BY <1>1 DEF ClienteAgregar, TypeOK, HilosOK, Colas
<1>2. CASE ClientePost(p)
  BY <1>2 DEF ClientePost, TypeOK, HilosOK, Semaforos
<1>. QED  BY <1>1, <1>2 DEF Cliente

\* Updating one field of one pcb.
LEMMA PcbTipo ==
    ASSUME pcb \in [Procesos -> Pcbs],
           NEW p
    PROVE  /\ \A x \in Procesos \cup {Nadie} :
                [pcb EXCEPT ![p].tabla = x] \in [Procesos -> Pcbs]
           /\ \A e \in Estimaciones : [pcb EXCEPT ![p].est = e] \in [Procesos -> Pcbs]
           /\ \A n \in Nat : [pcb EXCEPT ![p].pc = n] \in [Procesos -> Pcbs]
<1>1. \A r \in Pcbs :
        /\ \A x \in Procesos \cup {Nadie} : [r EXCEPT !.tabla = x] \in Pcbs
        /\ \A e \in Estimaciones : [r EXCEPT !.est = e] \in Pcbs
        /\ \A n \in Nat : [r EXCEPT !.pc = n] \in Pcbs
  BY DEF Pcbs
<1>. QED  BY <1>1

LEMMA AdmitirTipo ==
    ASSUME TypeOK, Admitir
    PROVE  TypeOK'
<1>. USE DEF Llega, SinProceso, ConProceso, Hilos, Semaforos, Colas
<1>1. CASE AdmitirEsperar
  BY <1>1, WaitTipo DEF AdmitirEsperar
<1>2. CASE AdmitirGrado
  BY <1>2, WaitTipo DEF AdmitirGrado
<1>3. CASE AdmitirSuspendido
  BY <1>3, QuitarUltimoTipo DEF AdmitirSuspendido
<1>4. CASE AdmitirSinSuspendidos
  BY <1>4, PasarTipo DEF AdmitirSinSuspendidos
<1>5. CASE AdmitirNuevo
  BY <1>5, QuitarUltimoTipo DEF AdmitirNuevo
<1>6. CASE AdmitirPedirTabla
  BY <1>6, PedirTipo DEF AdmitirPedirTabla
<1>7. CASE AdmitirTabla
  <2>1. memoria.respuestas # <<>> => Head(memoria.respuestas) \in Pedidos
    BY HeadTailProperties DEF TypeOK, Memorias
  <2>2. Tabla(memoria.respuestas) \in Procesos \cup {Nadie}
    BY <2>1 DEF Tabla, Pedidos
  <2>3. PICK x \in Procesos \cup {Nadie} : pcb' = [pcb EXCEPT ![hilo["admitir"].p].tabla = x]
    BY <1>7, <2>2 DEF AdmitirTabla
  <2>4. pcb' \in [Procesos -> Pcbs]
    BY <2>3, PcbTipo DEF TypeOK
  <2>. QED  BY <1>7, <2>4, RespuestaTipo DEF AdmitirTabla
<1>8. CASE AdmitirAgregar
  BY <1>8, AgregarTipo DEF AdmitirAgregar
<1>9. CASE TransicionInterrupcion("admitir")
  BY <1>9, InterrupcionTipo
<1>. QED
  BY <1>1, <1>2, <1>3, <1>4, <1>5, <1>6, <1>7, <1>8, <1>9 DEF Admitir

LEMMA FinalizarTipo ==
    ASSUME TypeOK, Finalizar
    PROVE  TypeOK'
<1>. USE DEF Llega, SinProceso, ConProceso, Hilos, Semaforos, Colas
<1>1. CASE FinalizarEsperar
  BY <1>1, WaitTipo DEF FinalizarEsperar
<1>2. CASE FinalizarSacar
  BY <1>2, QuitarPrimeroTipo DEF FinalizarSacar
<1>3. CASE FinalizarPedir
  BY <1>3, PedirTipo DEF FinalizarPedir
<1>4. CASE FinalizarRespuesta
  <2>1. pcb' \in [Procesos -> Pcbs]
    BY <1>4 DEF FinalizarRespuesta, TypeOK
  <2>. QED  BY <2>1, <1>4, RespuestaTipo DEF FinalizarRespuesta
<1>5. CASE FinalizarAvisar
  <2>1. HilosOK'
    BY <1>5, SigueDesde DEF FinalizarAvisar, TypeOK
  <2>2. hilo["finalizar"].p \in Procesos
    BY <1>5 DEF FinalizarAvisar, En, TypeOK, HilosOK
  <2>. QED  BY <1>5, <2>1, <2>2 DEF FinalizarAvisar, TypeOK
<1>6. CASE FinalizarGrado
  BY <1>6, PostTipo DEF FinalizarGrado
<1>. QED  BY <1>1, <1>2, <1>3, <1>4, <1>5, <1>6 DEF Finalizar

\* What is left of a list without one of its elements.
LEMMA QuitarDeSecuencia ==
    ASSUME NEW S, NEW s \in Seq(S), NEW i \in 1..Len(s)
    PROVE  /\ Quitar(s, i) \in Seq(S)
           /\ Len(Quitar(s, i)) = Len(s) - 1
<1>. DEFINE a == SubSeq(s, 1, i - 1)
            b == SubSeq(s, i + 1, Len(s))
<1>0. Len(s) \in Nat /\ \A j \in 1..Len(s) : s[j] \in S
  BY LenProperties, ElementOfSeq
<1>1. a \in Seq(S) /\ Len(a) = i - 1
  <2>1. \A j \in 1..(i - 1) : s[j] \in S
    BY <1>0
  <2>. QED  BY <2>1, <1>0, SubSeqProperties
<1>2. b \in Seq(S) /\ Len(b) = Len(s) - i
  <2>1. \A j \in (i + 1)..Len(s) : s[j] \in S
    BY <1>0
  <2>. QED  BY <2>1, <1>0, SubSeqProperties
<1>. HIDE DEF a, b
<1>3. a \o b \in Seq(S) /\ Len(a \o b) = Len(s) - 1
  <2>1. a \o b \in Seq(S) /\ Len(a \o b) = Len(a) + Len(b)
    BY <1>1, <1>2, ConcatProperties
  <2>2. Len(a) + Len(b) = Len(s) - 1
    BY <1>0, <1>1, <1>2
  <2>. QED  BY <2>1, <2>2
<1>4. Quitar(s, i) = a \o b
  BY DEF Quitar, a, b
<1>. QED  BY <1>3, <1>4

LEMMA ReadyTipo ==
    ASSUME TypeOK, Ready
    PROVE  TypeOK'
<1>. USE DEF Llega, SinProceso, ConProceso, Hilos, Semaforos, Colas
<1>1. CASE ReadyEsperar
  <2>1. PICK m \in {"desalojo", "mirar"} : Wait("ready", "inicio", "ready", m)
    BY <1>1 DEF ReadyEsperar
  <2>. QED  BY <2>1, WaitTipo
<1>2. CASE ReadyDesalojo
  BY <1>2, WaitTipo DEF ReadyDesalojo
<1>3. CASE ReadyMirar
  <2>1. PICK m \in {"inicio", "contar"} : Pasar("ready", "mirar", m)
    BY <1>3 DEF ReadyMirar
  <2>. QED  BY <2>1, PasarTipo
<1>4. CASE ReadyContar
  <2>1. PICK m \in {"elegir", "indefinido"} : Pasar("ready", "contar", m)
    BY <1>4 DEF ReadyContar, HayCupo
  <2>. QED  BY <2>1, PasarTipo
<1>5. CASE ReadyElegir
  <2>1. PICK i \in 1..Len(cola["ready"]) :
           /\ Toma("ready", cola["ready"][i], "a_exec")
           /\ cola' = [cola EXCEPT !["ready"] = Quitar(@, i)]
    BY <1>5 DEF ReadyElegir
  <2>2. cola["ready"] \in Seq(Procesos)
    BY DEF TypeOK
  <2>3. cola["ready"][i] \in Procesos
    BY <2>2, ElementOfSeq
  <2>4. HilosOK'
    BY <2>1, <2>3, TomaTipo DEF TypeOK
  <2>5. cola' \in [Colas -> Seq(Procesos)]
    BY <2>1, <2>2, QuitarDeSecuencia DEF TypeOK
  <2>. QED  BY <1>5, <2>4, <2>5 DEF ReadyElegir, TypeOK
<1>6. CASE ReadyAgregar
  BY <1>6, AgregarTipo DEF ReadyAgregar
<1>7. CASE ReadyPost
  BY <1>7, PostTipo DEF ReadyPost
<1>. QED  BY <1>1, <1>2, <1>3, <1>4, <1>5, <1>6, <1>7 DEF Ready

LEMMA ExecTipo ==
    ASSUME TypeOK, Exec
    PROVE  TypeOK'
<1>. USE DEF Llega, SinProceso, ConProceso, Hilos, Semaforos, Colas
<1>1. CASE ExecEsperar
  BY <1>1, WaitTipo DEF ExecEsperar
<1>2. CASE ExecTomar
  <2>1. Head(cola["exec"]) \in Procesos
    BY <1>2 DEF ExecTomar, TypeOK
  <2>2. HilosOK'
    BY <1>2, <2>1, TomaTipo DEF ExecTomar, TypeOK
  <2>. QED  BY <1>2, <2>2 DEF ExecTomar, TypeOK
<1>3. CASE ExecDespachar
  <2>1. HilosOK'
    BY <1>3, SigueDesde DEF ExecDespachar, TypeOK
  <2>2. hilo["exec"].p \in Procesos
    BY <1>3 DEF ExecDespachar, En, TypeOK, HilosOK
  <2>3. cpu' \in Cpus
    BY <1>3, <2>2, CpuTipo DEF ExecDespachar, TypeOK
  <2>. QED  BY <1>3, <2>1, <2>3 DEF ExecDespachar, TypeOK
<1>4. CASE ExecRecibir
  <2>1. HilosOK'
    BY <1>4, SigueDesde DEF ExecRecibir, TypeOK
  <2>2. cpu' \in Cpus
    BY <1>4, CpuTipo DEF ExecRecibir, TypeOK
  <2>. QED  BY <1>4, <2>1, <2>2 DEF ExecRecibir, TypeOK
<1>5. CASE ExecDesalojar
  <2>1. HilosOK'
    BY <1>5, SigueDesde DEF ExecDesalojar, TypeOK
  <2>2. pcb' \in [Procesos -> Pcbs]
    BY <1>5, PcbTipo DEF ExecDesalojar, Estimar, TypeOK
  <2>. QED  BY <1>5, <2>1, <2>2 DEF ExecDesalojar, TypeOK
<1>6. CASE ExecNoDesalojar
  BY <1>6, PasarTipo DEF ExecNoDesalojar
<1>7. CASE DesalojoAReady
  BY <1>7, AgregarTipo DEF DesalojoAReady
<1>8. CASE DesalojoSacar
  <2>1. HilosOK'
    BY <1>8, SigueDesde DEF DesalojoSacar, TypeOK
  <2>2. cola' \in [Colas -> Seq(Procesos)]
    BY <1>8 DEF DesalojoSacar, SacarDeExec, TypeOK
  <2>. QED  BY <1>8, <2>1, <2>2 DEF DesalojoSacar, TypeOK
<1>9. CASE DesalojoBajar \/ ExecBajar
  <2>1. HilosOK'
    BY <1>9, SigueDesde DEF DesalojoBajar, ExecBajar, BajarInterrupcion, TypeOK
  <2>. QED  BY <1>9, <2>1 DEF DesalojoBajar, ExecBajar, BajarInterrupcion, TypeOK
<1>10. CASE DesalojoPost
  BY <1>10, PostTipo DEF DesalojoPost
<1>11. CASE ExecPostDesalojo
  BY <1>11, PostTipo DEF ExecPostDesalojo
<1>12. CASE ExecSacar
  <2>1. HilosOK'
    BY <1>12, SigueDesde DEF ExecSacar, TypeOK
  <2>2. pcb' \in [Procesos -> Pcbs]
    BY <1>12, PcbTipo DEF ExecSacar, Estimar, TypeOK
  <2>3. cola' \in [Colas -> Seq(Procesos)]
    BY <1>12 DEF ExecSacar, SacarDeExec, TypeOK
  <2>. QED  BY <1>12, <2>1, <2>2, <2>3 DEF ExecSacar, TypeOK
<1>13. CASE ExecEncolar
  <2>1. PICK c \in Colas : Agregar("exec", "encolar", c, "post_cola")
    BY <1>13 DEF ExecEncolar, Destino
  <2>. QED  BY <2>1, AgregarTipo
<1>14. CASE ExecPostCola
  <2>1. PICK s \in Semaforos, m \in {"inicio", "post_extra"} :
           Post("exec", "post_cola", s, m)
    BY <1>14 DEF ExecPostCola, Destino
  <2>. QED  BY <2>1, PostTipo
<1>15. CASE ExecPostExtra
  <2>1. PICK s \in Semaforos : Post("exec", "post_extra", s, "inicio")
    BY <1>15 DEF ExecPostExtra
  <2>. QED  BY <2>1, PostTipo
<1>. QED
  BY <1>1, <1>2, <1>3, <1>4, <1>5, <1>6, <1>7, <1>8, <1>9, <1>10, <1>11, <1>12,
     <1>13, <1>14, <1>15 DEF Exec

LEMMA BlockedTipo ==
    ASSUME TypeOK, Blocked
    PROVE  TypeOK'
<1>. USE DEF Llega, SinProceso, ConProceso, Hilos, Semaforos, Colas
<1>1. CASE BlockedEsperar
  BY <1>1, WaitTipo DEF BlockedEsperar
<1>2. CASE BlockedSacar
  BY <1>2, QuitarPrimeroTipo DEF BlockedSacar
<1>3. CASE BlockedDecidir
  BY <1>3, PasarTipo DEF BlockedDecidir
<1>4. CASE BlockedIOAntes
  BY <1>4, PasarTipo DEF BlockedIOAntes
<1>5. CASE BlockedIO
  BY <1>5, PasarTipo DEF BlockedIO
<1>6. CASE BlockedAgregar
  BY <1>6, AgregarTipo DEF BlockedAgregar
<1>7. CASE TransicionInterrupcion("blocked")
  BY <1>7, InterrupcionTipo
<1>8. CASE SuspenderPedir
  BY <1>8, PedirTipo DEF SuspenderPedir
<1>9. CASE SuspenderRespuesta
  <2>1. pcb' \in [Procesos -> Pcbs]
    BY <1>9 DEF SuspenderRespuesta, TypeOK
  <2>. QED  BY <2>1, <1>9, RespuestaTipo DEF SuspenderRespuesta
<1>10. CASE SuspenderAgregar
  BY <1>10, AgregarTipo DEF SuspenderAgregar
<1>11. CASE SuspenderGrado
  BY <1>11, PostTipo DEF SuspenderGrado
<1>12. CASE BlockedIOResto
  BY <1>12, PasarTipo DEF BlockedIOResto
<1>13. CASE BlockedPostSusp
  BY <1>13, PostTipo DEF BlockedPostSusp
<1>. QED
  BY <1>1, <1>2, <1>3, <1>4, <1>5, <1>6, <1>7, <1>8, <1>9, <1>10, <1>11, <1>12,
     <1>13 DEF Blocked

LEMMA SuspendedReadyTipo ==
    ASSUME TypeOK, SuspendedReady
    PROVE  TypeOK'
<1>. USE DEF Llega, SinProceso, ConProceso, Hilos, Semaforos, Colas
<1>1. CASE SuspEsperar
  BY <1>1, WaitTipo DEF SuspEsperar
<1>2. CASE SuspSacar
  BY <1>2, QuitarUltimoTipo DEF SuspSacar
<1>3. CASE SuspAgregar
  BY <1>3, AgregarTipo DEF SuspAgregar
<1>4. CASE SuspPost
  BY <1>4, PostTipo DEF SuspPost
<1>. QED  BY <1>1, <1>2, <1>3, <1>4 DEF SuspendedReady

\* The CPU holds a process whenever it is not idle; the type invariant does not
\* say so, and updating the program counter of Nadie changes nothing.
LEMMA CpuModuloTipo ==
    ASSUME TypeOK, Ciclo \/ CpuInterrumpir
    PROVE  TypeOK'
<1>1. CASE CpuRecibir
  <2>1. cpu' \in Cpus
    BY <1>1, CpuTipo DEF CpuRecibir, TypeOK
  <2>. QED  BY <1>1, <2>1 DEF CpuRecibir, TypeOK, HilosOK
<1>2. CASE CpuInstruccion
  <2>1. PICK b \in {0, 1} : cpu' = [cpu EXCEPT !.en = "chequear", !.parar = b]
    BY <1>2 DEF CpuInstruccion, TypeOK, Cpus
  <2>2. cpu' \in Cpus
    BY <2>1, CpuTipo DEF TypeOK
  <2>3. pcb' \in [Procesos -> Pcbs]
    <3>1. CASE cpu.p \in Procesos
      <4>1. pcb[cpu.p].pc + 1 \in Nat
        BY <3>1 DEF TypeOK, Pcbs
      <4>. QED  BY <1>2, <4>1, PcbTipo DEF CpuInstruccion, TypeOK
    <3>2. CASE cpu.p \notin Procesos
      BY <1>2, <3>2 DEF CpuInstruccion, TypeOK
    <3>. QED  BY <3>1, <3>2
  <2>. QED  BY <1>2, <2>2, <2>3 DEF CpuInstruccion, TypeOK, HilosOK
<1>3. CASE CpuChequear
  <2>1. PICK e \in {"devuelto", "ciclo"} : cpu' = [cpu EXCEPT !.en = e]
    BY <1>3 DEF CpuChequear
  <2>2. cpu' \in Cpus
    BY <2>1, CpuTipo DEF TypeOK
  <2>. QED  BY <1>3, <2>2 DEF CpuChequear, TypeOK, HilosOK
<1>4. CASE CpuSinExit
  <2>1. cpu' \in Cpus
    BY <1>4, CpuTipo DEF CpuSinExit, TypeOK
  <2>. QED  BY <1>4, <2>1 DEF CpuSinExit, TypeOK, HilosOK
<1>5. CASE CpuInterrumpir
  <2>1. cpu' \in Cpus
    BY <1>5, CpuTipo DEF CpuInterrumpir, TypeOK
  <2>. QED  BY <1>5, <2>1 DEF CpuInterrumpir, TypeOK, HilosOK
<1>. QED  BY <1>1, <1>2, <1>3, <1>4, <1>5 DEF Ciclo

LEMMA MemoriaTipo ==
    ASSUME TypeOK, CpuMemoria \/ MemoriaAtender
    PROVE  TypeOK'
<1>1. CASE CpuMemoria
  <2>1. memoria' \in Memorias
    BY <1>1 DEF CpuMemoria, CpuFalloSinContador, CpuSinMemoria, TypeOK, Memorias
  <2>. QED  BY <1>1, <2>1 DEF CpuMemoria, CpuFalloSinContador, CpuSinMemoria, TypeOK, HilosOK
<1>2. CASE MemoriaAtender
  <2>1. Head(memoria.pedidos) \in Pedidos /\ Tail(memoria.pedidos) \in Seq(Pedidos)
    BY <1>2, HeadTailProperties DEF MemoriaAtender, TypeOK, Memorias
  <2>2. Append(memoria.respuestas, Head(memoria.pedidos)) \in Seq(Pedidos)
    BY <2>1, AppendProperties DEF TypeOK, Memorias
  <2>3. Atender(Head(memoria.pedidos), memoria.estructuras) \in SUBSET Procesos
    BY <2>1 DEF Atender, Pedidos, TypeOK, Memorias
  <2>4. MasContador(Head(memoria.pedidos), memoria.contadores) \in Nat
    BY DEF MasContador, TypeOK, Memorias
  <2>5. memoria' \in Memorias
    BY <1>2, <2>1, <2>2, <2>3, <2>4 DEF MemoriaAtender, Memorias
  <2>. QED  BY <1>2, <2>5 DEF MemoriaAtender, TypeOK, HilosOK
<1>. QED  BY <1>1, <1>2

LEMMA InitTipo == Init => TypeOK
<1>. SUFFICES ASSUME Init PROVE TypeOK
  OBVIOUS
<1>1. cola \in [Colas -> Seq(Procesos)]
  BY DEF Init
<1>2. sem \in [Semaforos -> Nat]
  BY GradoAssumption DEF Init, SemaforosInit
<1>3. HilosOK
  <2>1. \A t \in Hilos : "inicio" \in SinProceso[t]
    BY DEF Hilos, SinProceso
  <2>2. Hilos # {} /\ "inicio" \in Pasos
    BY <2>1 DEF Pasos, Hilos, SinProceso
  <2>. QED  BY <2>1, <2>2 DEF Init, HilosOK
<1>4. pcb \in [Procesos -> Pcbs]
  BY DEF Init, Pcbs
<1>5. cpu \in Cpus
  BY DEF Init, Cpus
<1>6. memoria \in Memorias
  BY DEF Init, Memorias
<1>. QED  BY <1>1, <1>2, <1>3, <1>4, <1>5, <1>6 DEF Init, TypeOK

LEMMA PasoTipo == TypeOK /\ [Next]_vars => TypeOK'
<1>. SUFFICES ASSUME TypeOK, [Next]_vars PROVE TypeOK'
  OBVIOUS
<1>1. CASE UNCHANGED vars
  BY <1>1 DEF vars, TypeOK, HilosOK
<1>2. CASE Next
  BY <1>2, ClienteTipo, AdmitirTipo, FinalizarTipo, ReadyTipo, ExecTipo, BlockedTipo,
     SuspendedReadyTipo, CpuModuloTipo, MemoriaTipo DEF Next
<1>. QED  BY <1>1, <1>2

\* In every reachable state of every instance the variables keep their shape,
\* and a planner thread that is past the assignment of its `proceso' holds one.
THEOREM TypeCorrect == Spec => []TypeOK
<1>1. Init => TypeOK
  BY InitTipo
<1>2. TypeOK /\ [Next]_vars => TypeOK'
  BY PasoTipo
<1>. QED  BY <1>1, <1>2, PTL DEF Spec

-----------------------------------------------------------------------------
(* Counts.                                                                 *)
(*                                                                         *)
(* A step of a thread moves it from one step to the next, changes at most  *)
(* one semaphore and the length of at most one list.  Each count is a sum  *)
(* over those three, so that a step keeps the counts if the three changes  *)
(* cancel out: that is Conserva, about literals only.                      *)

Mueve(t, l, m) ==
    /\ Paso(t) = l
    /\ Paso(t)' = m
    /\ \A u \in Hilos \ {t} : Paso(u)' = Paso(u)

\* Thread t goes from l to m; semaphore s changes by ds, the length of c by dc.
Efecto(t, l, m, s, ds, c, dc) ==
    /\ Mueve(t, l, m)
    /\ sem'[s] = sem[s] + ds
    /\ \A x \in Semaforos \ {s} : sem'[x] = sem[x]
    /\ N(c)' = N(c) + dc
    /\ \A x \in Colas \ {c} : N(x)' = N(x)
    /\ cliente' = cliente

Si(x, y, n) == IF x = y THEN n ELSE 0
Delta(w, t, l, m) == Uno(m \in w[t]) - Uno(l \in w[t])

Conserva(t, l, m, s, ds, c, dc) ==
    /\ Si(c, "exec", dc) = Si(s, "exec", ds) + Delta(DeExec, t, l, m)
    /\ Si(c, "blocked", dc) = Si(s, "blocked", ds) + Delta(DeBlocked, t, l, m)
    /\ Si(c, "exit", dc) = Si(s, "exit", ds) + Delta(DeExit, t, l, m)
    /\ Si(c, "suspBlocked", dc) = Si(s, "suspReady", ds) + Delta(DeSusp, t, l, m)
    /\ Si(c, "new", dc) + Si(c, "suspReady", dc)
         = Si(s, "admitir", ds) + Delta(DeAdmitir, t, l, m)
    /\ Si(s, "grado", ds) + Si(c, "ready", dc) + Si(c, "exec", dc)
       + Si(c, "blocked", dc) + Si(c, "exit", dc) + Delta(DeGrado, t, l, m)
         = Delta(EnDosListas, t, l, m)

LEMMA Nombres ==
    /\ "new" \in Colas /\ "ready" \in Colas /\ "exec" \in Colas /\ "blocked" \in Colas
    /\ "suspBlocked" \in Colas /\ "suspReady" \in Colas /\ "exit" \in Colas
    /\ "admitir" \in Semaforos /\ "grado" \in Semaforos /\ "ready" \in Semaforos
    /\ "exec" \in Semaforos /\ "desalojo" \in Semaforos /\ "blocked" \in Semaforos
    /\ "suspReady" \in Semaforos /\ "exit" \in Semaforos
    /\ "admitir" \in Hilos /\ "finalizar" \in Hilos /\ "ready" \in Hilos
    /\ "exec" \in Hilos /\ "blocked" \in Hilos /\ "suspReady" \in Hilos
BY DEF Colas, Semaforos, Hilos, SinProceso

LEMMA Naturales ==
    ASSUME TypeOK
    PROVE  /\ \A c \in Colas : N(c) \in Nat
           /\ \A s \in Semaforos : sem[s] \in Nat
BY LenProperties DEF TypeOK, N

LEMMA AvisosNaturales == Cardinality(PorAvisar) \in Nat
<1>1. IsFiniteSet(PorAvisar)
  BY ProcesosAssumption, FS_Subset DEF PorAvisar
<1>. QED  BY <1>1, FS_CardinalityType

LEMMA EnPasosNatural ==
    ASSUME NEW w
    PROVE  EnPasos(w) \in Nat
BY DEF EnPasos, Uno

LEMMA EnPasosCambia ==
    ASSUME NEW t \in Hilos, NEW l, NEW m, NEW w, Mueve(t, l, m)
    PROVE  EnPasos(w)' = EnPasos(w) + Delta(w, t, l, m)
<1>1. \A u \in Hilos \ {t} : Uno(Paso(u) \in w[u])' = Uno(Paso(u) \in w[u])
  BY DEF Mueve, Uno
<1>2. /\ Uno(Paso(t) \in w[t])' = Uno(m \in w[t])
      /\ Uno(Paso(t) \in w[t]) = Uno(l \in w[t])
  BY DEF Mueve, Uno
<1>3. \A b : Uno(b) \in Int
  BY DEF Uno
<1>. HIDE DEF Uno
<1>. QED  BY <1>1, <1>2, <1>3, Nombres DEF EnPasos, Delta, Hilos, SinProceso

\* A step whose changes cancel out keeps every count.
LEMMA CuentasConserva ==
    ASSUME TypeOK, Cuentas, NEW t \in Hilos, NEW l, NEW m, NEW s \in Semaforos,
           NEW ds \in Int, NEW c \in Colas, NEW dc \in Int,
           Efecto(t, l, m, s, ds, c, dc), Conserva(t, l, m, s, ds, c, dc)
    PROVE  Cuentas'
<1>1. /\ \A x \in Semaforos : sem[x] \in Int /\ sem'[x] = sem[x] + Si(s, x, ds)
      /\ \A x \in Colas : N(x) \in Int /\ N(x)' = N(x) + Si(c, x, dc)
  BY Naturales DEF Efecto, Si
<1>2. \A x : Si(s, x, ds) \in Int /\ Si(c, x, dc) \in Int
  BY DEF Si
<1>3. \A w : /\ EnPasos(w) \in Int
             /\ EnPasos(w)' = EnPasos(w) + Delta(w, t, l, m)
             /\ Delta(w, t, l, m) \in Int
  BY EnPasosNatural, EnPasosCambia DEF Efecto, Delta, Uno
<1>4. Cardinality(PorAvisar)' = Cardinality(PorAvisar) /\ Cardinality(PorAvisar) \in Int
  BY AvisosNaturales DEF Efecto, PorAvisar
<1>. HIDE DEF Si, Delta, N, EnPasos, PorAvisar
<1>5. CuentaExec'
  BY <1>1, <1>2, <1>3, Nombres DEF Cuentas, CuentaExec, Conserva
<1>6. CuentaBlocked'
  BY <1>1, <1>2, <1>3, Nombres DEF Cuentas, CuentaBlocked, Conserva
<1>7. CuentaExit'
  BY <1>1, <1>2, <1>3, Nombres DEF Cuentas, CuentaExit, Conserva
<1>8. CuentaSusp'
  BY <1>1, <1>2, <1>3, Nombres DEF Cuentas, CuentaSusp, Conserva
<1>9. CuentaAdmitir'
  BY <1>1, <1>2, <1>3, <1>4, Nombres DEF Cuentas, CuentaAdmitir, Conserva
<1>10. CuentaGrado'
  <2>. DEFINE L == N("ready") + N("exec") + N("blocked") + N("exit")
              dL == Si(c, "ready", dc) + Si(c, "exec", dc) + Si(c, "blocked", dc)
                    + Si(c, "exit", dc)
  <2>1. L \in Int /\ dL \in Int /\ L' = L + dL
    BY <1>1, <1>2, Nombres
  <2>2. sem["grado"] + L + EnPasos(DeGrado) = Grado + EnPasos(EnDosListas)
    BY <1>1, <1>3, Nombres, GradoAssumption DEF Cuentas, CuentaGrado
  <2>3. Si(s, "grado", ds) + dL + Delta(DeGrado, t, l, m) = Delta(EnDosListas, t, l, m)
    BY <1>2, <1>3 DEF Conserva
  <2>4. CuentaGrado' <=> sem'["grado"] + L' + EnPasos(DeGrado)' = Grado + EnPasos(EnDosListas)'
    BY <1>1, <1>2, <1>3, Nombres, GradoAssumption DEF CuentaGrado
  <2>5. sem'["grado"] = sem["grado"] + Si(s, "grado", ds) /\ sem["grado"] \in Int
    BY <1>1, Nombres
  <2>. HIDE DEF L, dL
  <2>. QED  BY <2>1, <2>2, <2>3, <2>4, <2>5, <1>2, <1>3, GradoAssumption
<1>. QED  BY <1>5, <1>6, <1>7, <1>8, <1>9, <1>10 DEF Cuentas

(* The steps of the threads.                                               *)

\* No process executed an instruction.
PcQuieto == \A p \in Procesos : pcb'[p].pc = pcb[p].pc

LEMMA PasoQuieto ==
    ASSUME TypeOK, PcQuieto, hilo'["exec"] = hilo["exec"]
    PROVE  Paso("exec")' = Paso("exec")
<1>1. CASE En("exec", "post_cola")
  <2>1. hilo["exec"].p \in Procesos
    BY <1>1, Nombres DEF TypeOK, HilosOK, En, SinProceso
  <2>. QED  BY <2>1, <1>1 DEF Paso, En, PcQuieto, Destino, UltimaInstruccion
<1>2. CASE ~ En("exec", "post_cola")
  BY <1>2 DEF Paso, En
<1>. QED  BY <1>1, <1>2

LEMMA HiloMueve ==
    ASSUME TypeOK, PcQuieto, NEW t \in Hilos, NEW l, NEW m, En(t, l), hilo'[t].en = m,
           l # "post_cola", m # "post_cola", \A u \in Hilos \ {t} : hilo'[u] = hilo[u]
    PROVE  Mueve(t, l, m)
<1>1. Paso(t) = l /\ Paso(t)' = m
  BY DEF Paso, En
<1>2. ASSUME NEW u \in Hilos \ {t}
      PROVE  Paso(u)' = Paso(u)
  <2>1. CASE u = "exec"
    BY <2>1, PasoQuieto
  <2>2. CASE u # "exec"
    BY <2>2 DEF Paso
  <2>. QED  BY <2>1, <2>2
<1>. QED  BY <1>1, <1>2 DEF Mueve

LEMMA SigueMueve ==
    ASSUME TypeOK, PcQuieto, NEW t \in Hilos, NEW l, NEW m, En(t, l), Sigue(t, m),
           l # "post_cola", m # "post_cola"
    PROVE  Mueve(t, l, m)
<1>1. hilo'[t].en = m /\ \A u \in Hilos \ {t} : hilo'[u] = hilo[u]
  BY DEF Sigue, TypeOK, HilosOK
<1>. QED  BY <1>1, HiloMueve

LEMMA TomaMueve ==
    ASSUME TypeOK, PcQuieto, NEW t \in Hilos, NEW l, NEW m, NEW p, En(t, l), Toma(t, p, m),
           l # "post_cola", m # "post_cola"
    PROVE  Mueve(t, l, m)
<1>1. hilo'[t].en = m /\ \A u \in Hilos \ {t} : hilo'[u] = hilo[u]
  BY DEF Toma, TypeOK, HilosOK
<1>. QED  BY <1>1, HiloMueve

LEMMA WaitCuentas ==
    ASSUME TypeOK, Cuentas, NEW t \in Hilos, NEW s \in Semaforos, NEW l, NEW m,
           Wait(t, l, s, m), l # "post_cola", m # "post_cola",
           Conserva(t, l, m, s, -1, "new", 0)
    PROVE  Cuentas'
<1>1. Mueve(t, l, m)
  BY SigueMueve DEF Wait, PcQuieto
<1>2. Efecto(t, l, m, s, -1, "new", 0)
  BY <1>1, Naturales, Nombres DEF Efecto, Wait, TypeOK, N
<1>. QED  BY <1>2, CuentasConserva, Nombres

LEMMA PostCuentas ==
    ASSUME TypeOK, Cuentas, NEW t \in Hilos, NEW s \in Semaforos, NEW l, NEW m,
           Post(t, l, s, m), l # "post_cola", m # "post_cola",
           Conserva(t, l, m, s, 1, "new", 0)
    PROVE  Cuentas'
<1>1. Mueve(t, l, m)
  BY SigueMueve DEF Post, PcQuieto
<1>2. Efecto(t, l, m, s, 1, "new", 0)
  BY <1>1, Naturales, Nombres DEF Efecto, Post, TypeOK, N
<1>. QED  BY <1>2, CuentasConserva, Nombres

LEMMA AgregarLargo ==
    ASSUME TypeOK, NEW t \in Hilos, NEW c \in Colas, NEW l, NEW m, Agregar(t, l, c, m)
    PROVE  N(c)' = N(c) + 1 /\ \A x \in Colas \ {c} : N(x)' = N(x)
BY DEF Agregar, TypeOK, N

LEMMA AgregarCuentas ==
    ASSUME TypeOK, Cuentas, NEW t \in Hilos, NEW c \in Colas, NEW l, NEW m,
           Agregar(t, l, c, m), l # "post_cola", m # "post_cola",
           Conserva(t, l, m, "desalojo", 0, c, 1)
    PROVE  Cuentas'
<1>1. Mueve(t, l, m)
  BY SigueMueve DEF Agregar, PcQuieto
<1>2. Efecto(t, l, m, "desalojo", 0, c, 1)
  <2>1. sem' = sem /\ cliente' = cliente /\ sem["desalojo"] + 0 = sem["desalojo"]
    BY Naturales, Nombres DEF Agregar
  <2>2. N(c)' = N(c) + 1 /\ \A x \in Colas \ {c} : N(x)' = N(x)
    BY AgregarLargo
  <2>. QED  BY <1>1, <2>1, <2>2 DEF Efecto
<1>. QED  BY <1>2, CuentasConserva, Nombres

\* A removal that leaves the semaphores alone.
LEMMA QuitarCuentas ==
    ASSUME TypeOK, Cuentas, NEW t \in Hilos, NEW c \in Colas, NEW l, NEW m,
           En(t, l), (\E p : Toma(t, p, m)) \/ Sigue(t, m), l # "post_cola", m # "post_cola",
           NEW s \in Seq(Procesos), Len(s) = Len(cola[c]) - 1,
           cola' = [cola EXCEPT ![c] = s], sem' = sem, cliente' = cliente, PcQuieto,
           Conserva(t, l, m, "desalojo", 0, c, -1)
    PROVE  Cuentas'
<1>1. Mueve(t, l, m)
  BY SigueMueve, TomaMueve
<1>2. Efecto(t, l, m, "desalojo", 0, c, -1)
  BY <1>1, Naturales, Nombres DEF Efecto, TypeOK, N
<1>. QED  BY <1>2, CuentasConserva, Nombres

LEMMA QuitarPrimeroCuentas ==
    ASSUME TypeOK, Cuentas, NEW t \in Hilos, NEW c \in Colas, NEW l, NEW m,
           QuitarPrimero(t, l, c, m), l # "post_cola", m # "post_cola",
           Conserva(t, l, m, "desalojo", 0, c, -1)
    PROVE  Cuentas'
<1>1. Tail(cola[c]) \in Seq(Procesos) /\ Len(Tail(cola[c])) = Len(cola[c]) - 1
  BY DEF QuitarPrimero, TypeOK
<1>2. cola' = [cola EXCEPT ![c] = Tail(cola[c])]
  BY DEF QuitarPrimero, TypeOK
<1>. QED  BY <1>1, <1>2, QuitarCuentas DEF QuitarPrimero, PcQuieto

LEMMA QuitarUltimoCuentas ==
    ASSUME TypeOK, Cuentas, NEW t \in Hilos, NEW c \in Colas, NEW l, NEW m,
           QuitarUltimo(t, l, c, m), l # "post_cola", m # "post_cola",
           Conserva(t, l, m, "desalojo", 0, c, -1)
    PROVE  Cuentas'
<1>0. cola[c] \in Seq(Procesos) /\ Len(cola[c]) \in Nat \ {0}
  BY DEF QuitarUltimo, TypeOK
<1>1. SinUltimo(c) \in Seq(Procesos) /\ Len(SinUltimo(c)) = Len(cola[c]) - 1
  BY <1>0, SubSeqProperties DEF SinUltimo
<1>. QED  BY <1>1, QuitarCuentas DEF QuitarUltimo, PcQuieto

\* A step that changes no semaphore and no list.
LEMMA PasarCuentas ==
    ASSUME TypeOK, Cuentas, NEW t \in Hilos, NEW l, NEW m,
           En(t, l), (\E p : Toma(t, p, m)) \/ Sigue(t, m), l # "post_cola", m # "post_cola",
           UNCHANGED <<cola, sem, cliente>>, PcQuieto,
           Conserva(t, l, m, "desalojo", 0, "new", 0)
    PROVE  Cuentas'
<1>1. Mueve(t, l, m)
  BY SigueMueve, TomaMueve
<1>2. Efecto(t, l, m, "desalojo", 0, "new", 0)
  BY <1>1, Naturales, Nombres DEF Efecto, N
<1>. QED  BY <1>2, CuentasConserva, Nombres

LEMMA InterrupcionCuentas ==
    ASSUME TypeOK, Cuentas, NEW t \in {"admitir", "blocked"}, TransicionInterrupcion(t)
    PROVE  Cuentas'
<1>. USE Nombres DEF Conserva, Si, Delta, Uno, DeExec, DeBlocked, DeExit, DeSusp, DeAdmitir,
                     DeGrado, EnDosListas, Ninguno
<1>1. CASE VerExec(t)
  <2>1. PICK m \in {"marcar", "post_ready"} : Pasar(t, "ver_exec", m)
    BY <1>1 DEF VerExec, HayQueInterrumpir
  <2>2. Conserva(t, "ver_exec", m, "desalojo", 0, "new", 0)
    OBVIOUS
  <2>. QED  BY <2>1, <2>2, PasarCuentas DEF Pasar, PcQuieto
<1>2. CASE Marcar(t)
  BY <1>2, PasarCuentas DEF Marcar, PcQuieto
<1>3. CASE Mensaje(t)
  BY <1>3, PasarCuentas DEF Mensaje, PcQuieto
<1>4. CASE PostReady(t)
  BY <1>4, PostCuentas DEF PostReady
<1>. QED  BY <1>1, <1>2, <1>3, <1>4 DEF TransicionInterrupcion

LEMMA FinalizarCuentas ==
    ASSUME TypeOK, Cuentas, Finalizar
    PROVE  Cuentas'
<1>. USE Nombres DEF Conserva, Si, Delta, Uno, DeExec, DeBlocked, DeExit, DeSusp, DeAdmitir,
                     DeGrado, EnDosListas, Ninguno
<1>1. CASE FinalizarEsperar
  BY <1>1, WaitCuentas DEF FinalizarEsperar
<1>2. CASE FinalizarSacar
  BY <1>2, QuitarPrimeroCuentas DEF FinalizarSacar
<1>3. CASE FinalizarPedir
  BY <1>3, PasarCuentas DEF FinalizarPedir, Pedir, PcQuieto
<1>4. CASE FinalizarRespuesta
  BY <1>4, PasarCuentas DEF FinalizarRespuesta, RecibirRespuesta, PcQuieto
<1>5. CASE FinalizarAvisar
  BY <1>5, PasarCuentas DEF FinalizarAvisar, PcQuieto
<1>6. CASE FinalizarGrado
  BY <1>6, PostCuentas DEF FinalizarGrado
<1>. QED  BY <1>1, <1>2, <1>3, <1>4, <1>5, <1>6 DEF Finalizar

\* What estadoReady and transicion_admitir write in a pcb is not its pc.
LEMMA PcbQuieto ==
    ASSUME TypeOK, NEW q
    PROVE  /\ \A e : pcb' = [pcb EXCEPT ![q].est = e] => PcQuieto
           /\ \A x : pcb' = [pcb EXCEPT ![q].tabla = x] => PcQuieto
<1>1. \A r \in Pcbs : /\ \A e : [r EXCEPT !.est = e].pc = r.pc
                     /\ \A x : [r EXCEPT !.tabla = x].pc = r.pc
  BY DEF Pcbs
<1>2. pcb \in [Procesos -> Pcbs]
  BY DEF TypeOK
<1>3. ASSUME NEW e, pcb' = [pcb EXCEPT ![q].est = e]
      PROVE  PcQuieto
  BY <1>1, <1>2, <1>3 DEF PcQuieto
<1>4. ASSUME NEW x, pcb' = [pcb EXCEPT ![q].tabla = x]
      PROVE  PcQuieto
  BY <1>1, <1>2, <1>4 DEF PcQuieto
<1>. QED  BY <1>3, <1>4

LEMMA AdmitirCuentas ==
    ASSUME TypeOK, Cuentas, Admitir
    PROVE  Cuentas'
<1>. USE Nombres DEF Conserva, Si, Delta, Uno, DeExec, DeBlocked, DeExit, DeSusp, DeAdmitir,
                     DeGrado, EnDosListas, Ninguno
<1>1. CASE AdmitirEsperar
  BY <1>1, WaitCuentas DEF AdmitirEsperar
<1>2. CASE AdmitirGrado
  BY <1>2, WaitCuentas DEF AdmitirGrado
<1>3. CASE AdmitirSuspendido
  BY <1>3, QuitarUltimoCuentas DEF AdmitirSuspendido
<1>4. CASE AdmitirSinSuspendidos
  BY <1>4, PasarCuentas DEF AdmitirSinSuspendidos, Pasar, PcQuieto
<1>5. CASE AdmitirNuevo
  BY <1>5, QuitarUltimoCuentas DEF AdmitirNuevo
<1>6. CASE AdmitirPedirTabla
  BY <1>6, PasarCuentas DEF AdmitirPedirTabla, Pedir, PcQuieto
<1>7. CASE AdmitirTabla
  <2>1. PcQuieto
    BY <1>7, PcbQuieto DEF AdmitirTabla
  <2>. QED  BY <1>7, <2>1, PasarCuentas DEF AdmitirTabla, RecibirRespuesta
<1>8. CASE AdmitirAgregar
  BY <1>8, AgregarCuentas DEF AdmitirAgregar
<1>9. CASE TransicionInterrupcion("admitir")
  BY <1>9, InterrupcionCuentas
<1>. QED
  BY <1>1, <1>2, <1>3, <1>4, <1>5, <1>6, <1>7, <1>8, <1>9 DEF Admitir

LEMMA ReadyCuentas ==
    ASSUME TypeOK, Cuentas, Ready
    PROVE  Cuentas'
<1>. USE Nombres DEF Conserva, Si, Delta, Uno, DeExec, DeBlocked, DeExit, DeSusp, DeAdmitir,
                     DeGrado, EnDosListas, Ninguno
<1>1. CASE ReadyEsperar
  <2>1. PICK m \in {"desalojo", "mirar"} : Wait("ready", "inicio", "ready", m)
    BY <1>1 DEF ReadyEsperar
  <2>. QED  BY <2>1, WaitCuentas
<1>2. CASE ReadyDesalojo
  BY <1>2, WaitCuentas DEF ReadyDesalojo
<1>3. CASE ReadyMirar
  <2>1. PICK m \in {"inicio", "contar"} : Pasar("ready", "mirar", m)
    BY <1>3 DEF ReadyMirar
  <2>. QED  BY <2>1, PasarCuentas DEF Pasar, PcQuieto
<1>4. CASE ReadyContar
  <2>1. PICK m \in {"elegir", "indefinido"} : Pasar("ready", "contar", m)
    BY <1>4 DEF ReadyContar, HayCupo
  <2>. QED  BY <2>1, PasarCuentas DEF Pasar, PcQuieto
<1>5. CASE ReadyElegir
  <2>1. PICK i \in 1..Len(cola["ready"]) :
           /\ Toma("ready", cola["ready"][i], "a_exec")
           /\ cola' = [cola EXCEPT !["ready"] = Quitar(cola["ready"], i)]
    BY <1>5 DEF ReadyElegir, TypeOK
  <2>2. cola["ready"] \in Seq(Procesos)
    BY DEF TypeOK
  <2>3. /\ Quitar(cola["ready"], i) \in Seq(Procesos)
        /\ Len(Quitar(cola["ready"], i)) = Len(cola["ready"]) - 1
    BY <2>2, QuitarDeSecuencia
  <2>4. En("ready", "elegir") /\ sem' = sem /\ cliente' = cliente /\ PcQuieto
    BY <1>5 DEF ReadyElegir, PcQuieto
  <2>5. Conserva("ready", "elegir", "a_exec", "desalojo", 0, "ready", -1)
    OBVIOUS
  <2>6. \E p : Toma("ready", p, "a_exec")
    BY <2>1
  <2>. HIDE DEF Conserva
  <2>. QED  BY <2>1, <2>3, <2>4, <2>5, <2>6, QuitarCuentas
<1>6. CASE ReadyAgregar
  BY <1>6, AgregarCuentas DEF ReadyAgregar
<1>7. CASE ReadyPost
  BY <1>7, PostCuentas DEF ReadyPost
<1>. QED  BY <1>1, <1>2, <1>3, <1>4, <1>5, <1>6, <1>7 DEF Ready

LEMMA BlockedCuentas ==
    ASSUME TypeOK, Cuentas, Blocked
    PROVE  Cuentas'
<1>. USE Nombres DEF Conserva, Si, Delta, Uno, DeExec, DeBlocked, DeExit, DeSusp, DeAdmitir,
                     DeGrado, EnDosListas, Ninguno
<1>1. CASE BlockedEsperar
  BY <1>1, WaitCuentas DEF BlockedEsperar
<1>2. CASE BlockedSacar
  BY <1>2, QuitarPrimeroCuentas DEF BlockedSacar
<1>3. CASE BlockedDecidir
  BY <1>3, PasarCuentas DEF BlockedDecidir, Pasar, PcQuieto
<1>4. CASE BlockedIOAntes
  BY <1>4, PasarCuentas DEF BlockedIOAntes, Pasar, PcQuieto
<1>5. CASE BlockedIO
  BY <1>5, PasarCuentas DEF BlockedIO, Pasar, PcQuieto
<1>6. CASE BlockedAgregar
  BY <1>6, AgregarCuentas DEF BlockedAgregar
<1>7. CASE TransicionInterrupcion("blocked")
  BY <1>7, InterrupcionCuentas
<1>8. CASE SuspenderPedir
  BY <1>8, PasarCuentas DEF SuspenderPedir, Pedir, PcQuieto
<1>9. CASE SuspenderRespuesta
  BY <1>9, PasarCuentas DEF SuspenderRespuesta, RecibirRespuesta, PcQuieto
<1>10. CASE SuspenderAgregar
  BY <1>10, AgregarCuentas DEF SuspenderAgregar
<1>11. CASE SuspenderGrado
  BY <1>11, PostCuentas DEF SuspenderGrado
<1>12. CASE BlockedIOResto
  BY <1>12, PasarCuentas DEF BlockedIOResto, Pasar, PcQuieto
<1>13. CASE BlockedPostSusp
  BY <1>13, PostCuentas DEF BlockedPostSusp
<1>. QED
  BY <1>1, <1>2, <1>3, <1>4, <1>5, <1>6, <1>7, <1>8, <1>9, <1>10, <1>11, <1>12, <1>13
  DEF Blocked

LEMMA SuspendedReadyCuentas ==
    ASSUME TypeOK, Cuentas, SuspendedReady
    PROVE  Cuentas'
<1>. USE Nombres DEF Conserva, Si, Delta, Uno, DeExec, DeBlocked, DeExit, DeSusp, DeAdmitir,
                     DeGrado, EnDosListas, Ninguno
<1>1. CASE SuspEsperar
  BY <1>1, WaitCuentas DEF SuspEsperar
<1>2. CASE SuspSacar
  BY <1>2, QuitarUltimoCuentas DEF SuspSacar
<1>3. CASE SuspAgregar
  BY <1>3, AgregarCuentas DEF SuspAgregar
<1>4. CASE SuspPost
  BY <1>4, PostCuentas DEF SuspPost
<1>. QED  BY <1>1, <1>2, <1>3, <1>4 DEF SuspendedReady

\* procesoAux = list_remove(colaExec, 0)
LEMMA SacarDeExecCuentas ==
    ASSUME TypeOK, Cuentas, SacarDeExec, NEW l, NEW m, En("exec", l), Sigue("exec", m),
           l # "post_cola", m # "post_cola", sem' = sem, cliente' = cliente, PcQuieto,
           Conserva("exec", l, m, "desalojo", 0, "exec", -1)
    PROVE  Cuentas'
<1>1. /\ Tail(cola["exec"]) \in Seq(Procesos)
      /\ Len(Tail(cola["exec"])) = Len(cola["exec"]) - 1
  BY Nombres DEF SacarDeExec, TypeOK
<1>2. cola' = [cola EXCEPT !["exec"] = Tail(cola["exec"])]
  BY DEF SacarDeExec, TypeOK
<1>. QED  BY <1>1, <1>2, QuitarCuentas, Nombres

\* Between the list_add and the sem_post of the switch.
LEMMA DestinoQuieto ==
    ASSUME TypeOK, NEW l, NEW m, En("exec", l), Sigue("exec", m), m # "inicio",
           pcb' = pcb
    PROVE  Destino(hilo["exec"].p)' = Destino(hilo["exec"].p)
<1>1. hilo'["exec"].p = hilo["exec"].p
  BY Nombres DEF Sigue, TypeOK, HilosOK
<1>. QED  BY <1>1 DEF Destino, UltimaInstruccion

LEMMA EncolarCuentas ==
    ASSUME TypeOK, Cuentas, ExecEncolar
    PROVE  Cuentas'
<1>. DEFINE d == Destino(hilo["exec"].p)
<1>0. d \in {"blocked", "exit", "ready"}
  BY DEF Destino
<1>1. Agregar("exec", "encolar", d, "post_cola")
  BY DEF ExecEncolar
<1>2. d' = d
  BY <1>1, DestinoQuieto DEF Agregar
<1>. HIDE DEF d
<1>3. hilo'["exec"].en = "post_cola" /\ \A u \in Hilos \ {"exec"} : hilo'[u] = hilo[u]
  BY <1>1, Nombres DEF Agregar, Sigue, TypeOK, HilosOK
<1>4. Paso("exec") = "encolar"
  BY <1>1 DEF Paso, Agregar, En
<1>5. Paso("exec")' = d
  BY <1>2, <1>3 DEF Paso, En, d
<1>6. Mueve("exec", "encolar", d)
  BY <1>3, <1>4, <1>5 DEF Mueve, Paso
<1>7. Conserva("exec", "encolar", d, "desalojo", 0, d, 1)
  BY <1>0, Nombres DEF Conserva, Si, Delta, Uno, DeExec, DeBlocked, DeExit, DeSusp, DeAdmitir,
                       DeGrado, EnDosListas, Ninguno
<1>8. d \in Colas
  BY <1>0, Nombres
<1>9. Efecto("exec", "encolar", d, "desalojo", 0, d, 1)
  <2>1. sem' = sem /\ cliente' = cliente /\ sem["desalojo"] + 0 = sem["desalojo"]
    BY <1>1, Naturales, Nombres DEF Agregar
  <2>2. N(d)' = N(d) + 1 /\ \A x \in Colas \ {d} : N(x)' = N(x)
    BY <1>1, <1>2, <1>8, AgregarLargo, Nombres
  <2>. QED  BY <1>6, <2>1, <2>2 DEF Efecto
<1>. QED  BY <1>7, <1>8, <1>9, CuentasConserva, Nombres

LEMMA PostColaCuentas ==
    ASSUME TypeOK, Cuentas, ExecPostCola
    PROVE  Cuentas'
<1>. DEFINE d == Destino(hilo["exec"].p)
<1>0. d \in {"blocked", "exit", "ready"}
  BY DEF Destino
<1>1. PICK m \in {"inicio", "post_extra"} : Post("exec", "post_cola", d, m)
  BY DEF ExecPostCola
<1>3. hilo'["exec"].en = m /\ \A u \in Hilos \ {"exec"} : hilo'[u] = hilo[u]
  BY <1>1, Nombres DEF Post, Sigue, TypeOK, HilosOK
<1>4. Paso("exec") = d
  BY <1>1 DEF Paso, Post
<1>5. Paso("exec")' = m
  BY <1>3 DEF Paso, En
<1>6. Mueve("exec", d, m)
  BY <1>3, <1>4, <1>5 DEF Mueve, Paso
<1>7. Conserva("exec", d, m, d, 1, "new", 0)
  BY <1>0, Nombres DEF Conserva, Si, Delta, Uno, DeExec, DeBlocked, DeExit, DeSusp, DeAdmitir,
                       DeGrado, EnDosListas, Ninguno
<1>8. d \in Semaforos
  BY <1>0, Nombres
<1>. HIDE DEF d
<1>9. Efecto("exec", d, m, d, 1, "new", 0)
  BY <1>1, <1>6, <1>8, Naturales, Nombres DEF Efecto, Post, TypeOK, N
<1>. QED  BY <1>7, <1>8, <1>9, CuentasConserva, Nombres

LEMMA ExecCuentas ==
    ASSUME TypeOK, Cuentas, Exec
    PROVE  Cuentas'
<1>. USE Nombres DEF Conserva, Si, Delta, Uno, DeExec, DeBlocked, DeExit, DeSusp, DeAdmitir,
                     DeGrado, EnDosListas, Ninguno
<1>1. CASE ExecEsperar
  BY <1>1, WaitCuentas DEF ExecEsperar
<1>2. CASE ExecTomar
  <2>1. \E p : Toma("exec", p, "despachar")
    BY <1>2 DEF ExecTomar
  <2>2. En("exec", "tomar") /\ UNCHANGED <<cola, sem, cliente>> /\ PcQuieto
    BY <1>2 DEF ExecTomar, PcQuieto
  <2>3. Conserva("exec", "tomar", "despachar", "desalojo", 0, "new", 0)
    OBVIOUS
  <2>. HIDE DEF Conserva
  <2>. QED  BY <2>1, <2>2, <2>3, PasarCuentas
<1>3. CASE ExecDespachar
  BY <1>3, PasarCuentas DEF ExecDespachar, PcQuieto
<1>4. CASE ExecRecibir
  BY <1>4, PasarCuentas DEF ExecRecibir, PcQuieto
<1>5. CASE ExecDesalojar
  <2>1. PcQuieto
    BY <1>5, PcbQuieto DEF ExecDesalojar, Estimar
  <2>. QED  BY <1>5, <2>1, PasarCuentas DEF ExecDesalojar
<1>6. CASE ExecNoDesalojar
  BY <1>6, PasarCuentas DEF ExecNoDesalojar, Pasar, PcQuieto
<1>7. CASE DesalojoAReady
  BY <1>7, AgregarCuentas DEF DesalojoAReady
<1>8. CASE DesalojoSacar
  BY <1>8, SacarDeExecCuentas DEF DesalojoSacar, PcQuieto
<1>9. CASE DesalojoBajar
  BY <1>9, PasarCuentas DEF DesalojoBajar, BajarInterrupcion, PcQuieto
<1>10. CASE DesalojoPost
  BY <1>10, PostCuentas DEF DesalojoPost
<1>11. CASE ExecBajar
  BY <1>11, PasarCuentas DEF ExecBajar, BajarInterrupcion, PcQuieto
<1>12. CASE ExecPostDesalojo
  BY <1>12, PostCuentas DEF ExecPostDesalojo
<1>13. CASE ExecSacar
  <2>1. PcQuieto
    BY <1>13, PcbQuieto DEF ExecSacar, Estimar
  <2>. QED  BY <1>13, <2>1, SacarDeExecCuentas DEF ExecSacar
<1>14. CASE ExecEncolar
  BY <1>14, EncolarCuentas
<1>15. CASE ExecPostCola
  BY <1>15, PostColaCuentas
<1>16. CASE ExecPostExtra
  <2>1. PICK s \in {"ready", "desalojo"} : Post("exec", "post_extra", s, "inicio")
    BY <1>16 DEF ExecPostExtra
  <2>. QED  BY <2>1, PostCuentas
<1>. QED
  BY <1>1, <1>2, <1>3, <1>4, <1>5, <1>6, <1>7, <1>8, <1>9, <1>10, <1>11, <1>12, <1>13,
     <1>14, <1>15, <1>16 DEF Exec

\* A step of nobody's thread that executes no instruction.
LEMMA HilosQuietos ==
    ASSUME TypeOK, hilo' = hilo, PcQuieto, NEW w
    PROVE  EnPasos(w)' = EnPasos(w)
<1>1. \A t \in Hilos : Paso(t)' = Paso(t)
  BY PasoQuieto DEF Paso
<1>. QED  BY <1>1, Nombres DEF EnPasos

LEMMA ClienteCuentas ==
    ASSUME TypeOK, Cuentas, NEW p \in Procesos, Cliente(p)
    PROVE  Cuentas'
<1>1. \A w : EnPasos(w)' = EnPasos(w) /\ EnPasos(w) \in Nat
  BY HilosQuietos, EnPasosNatural DEF Cliente, ClienteAgregar, ClientePost, PcQuieto
<1>2. \A c \in Colas \ {"new"} : N(c)' = N(c)
  BY DEF Cliente, ClienteAgregar, ClientePost, N, TypeOK
<1>3. \A s \in Semaforos \ {"admitir"} : sem'[s] = sem[s]
  BY DEF Cliente, ClienteAgregar, ClientePost, TypeOK
<1>4. IsFiniteSet(PorAvisar)
  BY ProcesosAssumption, FS_Subset DEF PorAvisar
<1>5. CuentaAdmitir'
  <2>1. CASE ClienteAgregar(p)
    <3>1. PorAvisar' = PorAvisar \cup {p} /\ p \notin PorAvisar
      BY <2>1 DEF ClienteAgregar, PorAvisar, TypeOK
    <3>2. Cardinality(PorAvisar)' = Cardinality(PorAvisar) + 1
      BY <3>1, <1>4, FS_AddElement
    <3>3. N("new")' = N("new") + 1 /\ sem'["admitir"] = sem["admitir"]
      BY <2>1, Nombres DEF ClienteAgregar, TypeOK, N
    <3>. HIDE DEF N, PorAvisar
    <3>. QED  BY <1>1, <1>2, <3>2, <3>3, Naturales, AvisosNaturales, Nombres
              DEF Cuentas, CuentaAdmitir
  <2>2. CASE ClientePost(p)
    <3>1. PorAvisar' = PorAvisar \ {p} /\ p \in PorAvisar
      BY <2>2 DEF ClientePost, PorAvisar, TypeOK
    <3>2. Cardinality(PorAvisar)' = Cardinality(PorAvisar) - 1
      BY <3>1, <1>4, FS_RemoveElement
    <3>3. N("new")' = N("new") /\ sem'["admitir"] = sem["admitir"] + 1
      BY <2>2, Nombres DEF ClientePost, TypeOK, N
    <3>. HIDE DEF N, PorAvisar
    <3>. QED  BY <1>1, <1>2, <3>2, <3>3, Naturales, AvisosNaturales, Nombres
              DEF Cuentas, CuentaAdmitir
  <2>. QED  BY <2>1, <2>2 DEF Cliente
<1>. HIDE DEF N, PorAvisar
<1>. QED
  BY <1>1, <1>2, <1>3, <1>5, Nombres
  DEF Cuentas, CuentaExec, CuentaBlocked, CuentaExit, CuentaSusp, CuentaGrado

LEMMA OtrosCuentas ==
    ASSUME TypeOK, Cuentas, CpuDeExec, UNCHANGED <<cola, sem, hilo, cliente>>,
           pcb' = pcb \/ CpuInstruccion
    PROVE  Cuentas'
<1>1. Paso("exec")' = Paso("exec")
  <2>1. CASE pcb' = pcb
    BY <2>1, PasoQuieto DEF PcQuieto
  <2>2. CASE CpuInstruccion
    BY <2>2 DEF CpuInstruccion, CpuDeExec, Paso, En
  <2>. QED  BY <2>1, <2>2
<1>2. \A t \in Hilos : Paso(t)' = Paso(t)
  BY <1>1 DEF Paso
<1>3. \A w : EnPasos(w)' = EnPasos(w)
  BY <1>2, Nombres DEF EnPasos
<1>. QED
  BY <1>3 DEF Cuentas, CuentaExec, CuentaBlocked, CuentaExit, CuentaSusp, CuentaAdmitir,
              CuentaGrado, N, PorAvisar

LEMMA PasoCuentas ==
    ASSUME TypeOK, Cuentas, CpuDeExec, [Next]_vars
    PROVE  Cuentas'
<1>1. ASSUME NEW p \in Procesos, Cliente(p)
      PROVE  Cuentas'
  BY <1>1, ClienteCuentas
<1>2. CASE Admitir
  BY <1>2, AdmitirCuentas
<1>3. CASE Finalizar
  BY <1>3, FinalizarCuentas
<1>4. CASE Ready
  BY <1>4, ReadyCuentas
<1>5. CASE Exec
  BY <1>5, ExecCuentas
<1>6. CASE Blocked
  BY <1>6, BlockedCuentas
<1>7. CASE SuspendedReady
  BY <1>7, SuspendedReadyCuentas
<1>8. CASE Ciclo \/ CpuInterrumpir \/ CpuMemoria \/ MemoriaAtender
  <2>1. UNCHANGED <<cola, sem, hilo, cliente>> /\ (pcb' = pcb \/ CpuInstruccion)
    BY <1>8 DEF Ciclo, CpuRecibir, CpuInstruccion, CpuChequear, CpuSinExit,
                CpuInterrumpir, CpuMemoria, CpuFalloSinContador, CpuSinMemoria,
         MemoriaAtender
  <2>. QED  BY <2>1, OtrosCuentas
<1>9. CASE UNCHANGED vars
  BY <1>9, OtrosCuentas DEF vars
<1>. QED  BY <1>1, <1>2, <1>3, <1>4, <1>5, <1>6, <1>7, <1>8, <1>9 DEF Next

-----------------------------------------------------------------------------
(* The initial state.                                                      *)

LEMMA InitCuentas ==
    ASSUME Init
    PROVE  Cuentas /\ CpuDeExec /\ Vigentes
<1>1. \A c \in Colas : N(c) = 0
  BY DEF Init, N
<1>2. /\ sem["admitir"] = 0 /\ sem["exec"] = 0 /\ sem["blocked"] = 0
      /\ sem["suspReady"] = 0 /\ sem["exit"] = 0 /\ sem["grado"] = Grado
  BY DEF Init, SemaforosInit, Semaforos
<1>3. \A t \in Hilos : hilo[t].en = "inicio"
  BY DEF Init
<1>4. \A t \in Hilos : Paso(t) = "inicio"
  BY <1>3, Nombres DEF Paso, En
<1>5. /\ EnPasos(DeExec) = 0 /\ EnPasos(DeBlocked) = 0 /\ EnPasos(DeExit) = 0
      /\ EnPasos(DeSusp) = 0 /\ EnPasos(DeAdmitir) = 0 /\ EnPasos(DeGrado) = 0
      /\ EnPasos(EnDosListas) = 0
  BY <1>4, Nombres DEF EnPasos, Uno, DeExec, DeBlocked, DeExit, DeSusp, DeAdmitir, DeGrado,
                       EnDosListas, Ninguno
<1>6. PorAvisar = {} /\ Cardinality(PorAvisar) = 0
  BY FS_EmptySet DEF Init, PorAvisar
<1>7. Cuentas
  BY <1>1, <1>2, <1>5, <1>6, Nombres, GradoAssumption
  DEF Cuentas, CuentaExec, CuentaBlocked, CuentaExit, CuentaSusp, CuentaAdmitir, CuentaGrado
<1>8. CpuDeExec
  BY DEF Init, CpuDeExec
<1>9. Vigentes
  BY <1>3, Nombres DEF Vigentes, En
<1>. QED  BY <1>7, <1>8, <1>9

-----------------------------------------------------------------------------
(* From the counts: no thread ever removes from an empty list, and under   *)
(* FIFO there is always a process to select.                               *)

\* What a step of thread t leaves alone: the other threads, and the lists that
\* only one thread removes from.
Ajeno(t) ==
    /\ \A u \in Hilos \ {t} : hilo'[u] = hilo[u]
    /\ t # "admitir" => N("new")' >= N("new")
    /\ t # "ready" => N("ready")' >= N("ready")
    /\ t # "exec" => cpu'.en = cpu.en

LEMMA HiloAjeno ==
    ASSUME TypeOK, NEW t \in Hilos, NEW l, NEW p, Sigue(t, l) \/ Toma(t, p, l)
    PROVE  \A u \in Hilos \ {t} : hilo'[u] = hilo[u]
  BY DEF Sigue, Toma, TypeOK, HilosOK

\* A step that changes no list and not the CPU.
LEMMA SinListasAjeno ==
    ASSUME TypeOK, NEW t \in Hilos, NEW l, NEW p, Sigue(t, l) \/ Toma(t, p, l),
           cola' = cola, cpu'.en = cpu.en
    PROVE  Ajeno(t)
<1>1. N("new")' = N("new") /\ N("ready")' = N("ready") /\ N("new") \in Nat /\ N("ready") \in Nat
  BY Naturales, Nombres DEF N
<1>. QED  BY <1>1, HiloAjeno DEF Ajeno

LEMMA AgregarAjeno ==
    ASSUME TypeOK, NEW t \in Hilos, NEW c \in Colas, NEW l, NEW m, Agregar(t, l, c, m)
    PROVE  Ajeno(t)
<1>1. N(c)' = N(c) + 1 /\ \A d \in Colas \ {c} : N(d)' = N(d)
  BY AgregarLargo
<1>2. \A d \in Colas : N(d)' >= N(d)
  BY <1>1, Naturales
<1>3. cpu' = cpu
  BY DEF Agregar
<1>. QED  BY <1>2, <1>3, HiloAjeno, Nombres DEF Ajeno, Agregar

LEMMA QuitarAjeno ==
    ASSUME TypeOK, NEW t \in Hilos, NEW c \in Colas, NEW l, NEW m,
           QuitarPrimero(t, l, c, m) \/ QuitarUltimo(t, l, c, m),
           c = "new" => t = "admitir", c = "ready" => t = "ready"
    PROVE  Ajeno(t)
<1>1. \A d \in Colas \ {c} : cola'[d] = cola[d]
  BY DEF QuitarPrimero, QuitarUltimo, TypeOK
<1>2. \A d \in Colas \ {c} : N(d)' = N(d) /\ N(d) \in Nat
  BY <1>1, Naturales DEF N
<1>3. cpu' = cpu
  BY DEF QuitarPrimero, QuitarUltimo
<1>4. \A u \in Hilos \ {t} : hilo'[u] = hilo[u]
  BY HiloAjeno DEF QuitarPrimero, QuitarUltimo
<1>. QED  BY <1>2, <1>3, <1>4, Nombres DEF Ajeno

LEMMA InterrupcionAjeno ==
    ASSUME TypeOK, NEW t \in Hilos, TransicionInterrupcion(t)
    PROVE  Ajeno(t)
<1>1. cola' = cola
  BY DEF TransicionInterrupcion, VerExec, Marcar, Mensaje, PostReady, Pasar, Post
<1>2. cpu'.en = cpu.en
  BY DEF TransicionInterrupcion, VerExec, Marcar, Mensaje, PostReady, Pasar, Post, TypeOK, Cpus
<1>3. \E l : Sigue(t, l)
  BY DEF TransicionInterrupcion, VerExec, Marcar, Mensaje, PostReady, Pasar, Post
<1>. QED  BY <1>1, <1>2, <1>3, SinListasAjeno

LEMMA FinalizarAjeno ==
    ASSUME TypeOK, Finalizar
    PROVE  Ajeno("finalizar")
<1>1. CASE FinalizarSacar
  BY <1>1, QuitarAjeno, Nombres DEF FinalizarSacar
<1>2. CASE ~ FinalizarSacar
  <2>1. cola' = cola /\ cpu' = cpu /\ \E l : Sigue("finalizar", l)
    BY <1>2 DEF Finalizar, FinalizarEsperar, FinalizarPedir, FinalizarRespuesta,
         FinalizarAvisar, FinalizarGrado, Wait, Post, Pedir, RecibirRespuesta
  <2>. QED  BY <2>1, SinListasAjeno, Nombres
<1>. QED  BY <1>1, <1>2

LEMMA SuspendedReadyAjeno ==
    ASSUME TypeOK, SuspendedReady
    PROVE  Ajeno("suspReady")
<1>1. CASE SuspSacar
  BY <1>1, QuitarAjeno, Nombres DEF SuspSacar
<1>2. CASE SuspAgregar
  BY <1>2, AgregarAjeno, Nombres DEF SuspAgregar
<1>3. CASE SuspEsperar \/ SuspPost
  <2>1. cola' = cola /\ cpu' = cpu /\ \E l : Sigue("suspReady", l)
    BY <1>3 DEF SuspEsperar, SuspPost, Wait, Post
  <2>. QED  BY <2>1, SinListasAjeno, Nombres
<1>. QED  BY <1>1, <1>2, <1>3 DEF SuspendedReady

LEMMA BlockedAjeno ==
    ASSUME TypeOK, Blocked
    PROVE  Ajeno("blocked")
<1>1. CASE BlockedSacar
  BY <1>1, QuitarAjeno, Nombres DEF BlockedSacar
<1>2. CASE BlockedAgregar \/ SuspenderAgregar
  BY <1>2, AgregarAjeno, Nombres DEF BlockedAgregar, SuspenderAgregar
<1>3. CASE TransicionInterrupcion("blocked")
  BY <1>3, InterrupcionAjeno, Nombres
<1>4. CASE ~ BlockedSacar /\ ~ BlockedAgregar /\ ~ SuspenderAgregar
           /\ ~ TransicionInterrupcion("blocked")
  <2>1. cola' = cola /\ cpu' = cpu /\ \E l : Sigue("blocked", l)
    BY <1>4 DEF Blocked, BlockedEsperar, BlockedDecidir, BlockedIOAntes, BlockedIO,
         SuspenderPedir, SuspenderRespuesta, SuspenderGrado, BlockedIOResto, BlockedPostSusp,
         Wait, Post, Pasar, Pedir, RecibirRespuesta
  <2>. QED  BY <2>1, SinListasAjeno, Nombres
<1>. QED  BY <1>1, <1>2, <1>3, <1>4

LEMMA AdmitirAjeno ==
    ASSUME TypeOK, Admitir
    PROVE  Ajeno("admitir")
<1>1. CASE AdmitirSuspendido \/ AdmitirNuevo
  BY <1>1, QuitarAjeno, Nombres DEF AdmitirSuspendido, AdmitirNuevo
<1>2. CASE AdmitirAgregar
  BY <1>2, AgregarAjeno, Nombres DEF AdmitirAgregar
<1>3. CASE TransicionInterrupcion("admitir")
  BY <1>3, InterrupcionAjeno, Nombres
<1>4. CASE ~ AdmitirSuspendido /\ ~ AdmitirNuevo /\ ~ AdmitirAgregar
           /\ ~ TransicionInterrupcion("admitir")
  <2>1. cola' = cola /\ cpu' = cpu /\ \E l : Sigue("admitir", l)
    BY <1>4 DEF Admitir, AdmitirEsperar, AdmitirGrado, AdmitirSinSuspendidos,
         AdmitirPedirTabla, AdmitirTabla, Wait, Pasar, Pedir, RecibirRespuesta
  <2>. QED  BY <2>1, SinListasAjeno, Nombres
<1>. QED  BY <1>1, <1>2, <1>3, <1>4

LEMMA ReadyAjeno ==
    ASSUME TypeOK, Ready
    PROVE  Ajeno("ready")
<1>1. CASE ReadyElegir
  <2>1. cola'["new"] = cola["new"] /\ cpu' = cpu
    BY <1>1, Nombres DEF ReadyElegir, TypeOK
  <2>2. \E p : Toma("ready", p, "a_exec")
    BY <1>1 DEF ReadyElegir
  <2>3. N("new")' >= N("new")
    BY <2>1, Naturales, Nombres DEF N
  <2>. QED  BY <2>1, <2>2, <2>3, HiloAjeno, Nombres DEF Ajeno
<1>2. CASE ReadyAgregar
  BY <1>2, AgregarAjeno, Nombres DEF ReadyAgregar
<1>3. CASE ~ ReadyElegir /\ ~ ReadyAgregar
  <2>1. cola' = cola /\ cpu' = cpu /\ \E l : Sigue("ready", l)
    BY <1>3 DEF Ready, ReadyEsperar, ReadyDesalojo, ReadyMirar, ReadyContar, ReadyPost,
         Wait, Post, Pasar
  <2>. QED  BY <2>1, SinListasAjeno, Nombres
<1>. QED  BY <1>1, <1>2, <1>3

LEMMA ExecAjeno ==
    ASSUME TypeOK, Exec
    PROVE  Ajeno("exec")
<1>1. \E l, p : Sigue("exec", l) \/ Toma("exec", p, l)
  BY DEF Exec, ExecEsperar, ExecTomar, ExecDespachar, ExecRecibir, ExecDesalojar,
     ExecNoDesalojar, DesalojoAReady, DesalojoSacar, DesalojoBajar, DesalojoPost, ExecBajar,
     ExecPostDesalojo, ExecSacar, ExecEncolar, ExecPostCola, ExecPostExtra,
     Wait, Post, Agregar, Pasar, BajarInterrupcion
<1>2. \A u \in Hilos \ {"exec"} : hilo'[u] = hilo[u]
  BY <1>1, HiloAjeno, Nombres
<1>3. CASE DesalojoAReady
  BY <1>3, AgregarAjeno, Nombres DEF DesalojoAReady
<1>4. CASE ExecEncolar
  <2>1. PICK d \in Colas : Agregar("exec", "encolar", d, "post_cola")
    BY <1>4, Nombres DEF ExecEncolar, Destino
  <2>. QED  BY <2>1, AgregarAjeno, Nombres
<1>5. CASE ~ DesalojoAReady /\ ~ ExecEncolar
  <2>1. cola' = cola \/ SacarDeExec
    BY <1>5 DEF Exec, ExecEsperar, ExecTomar, ExecDespachar, ExecRecibir, ExecDesalojar,
     ExecNoDesalojar, DesalojoSacar, DesalojoBajar, DesalojoPost, ExecBajar,
     ExecPostDesalojo, ExecSacar, ExecPostCola, ExecPostExtra, Wait, Post, Pasar,
     BajarInterrupcion
  <2>2. cola'["new"] = cola["new"] /\ cola'["ready"] = cola["ready"]
    BY <2>1, Nombres DEF SacarDeExec, TypeOK
  <2>3. N("new")' >= N("new") /\ N("ready")' >= N("ready")
    BY <2>2, Naturales, Nombres DEF N
  <2>. QED  BY <1>2, <2>3 DEF Ajeno
<1>. QED  BY <1>3, <1>4, <1>5

\* Everything else leaves the threads alone and adds to New or to no list.
LEMMA NadieMueve ==
    ASSUME TypeOK,
           \/ \E p \in Procesos : Cliente(p)
           \/ Ciclo \/ CpuInterrumpir \/ CpuMemoria \/ MemoriaAtender \/ UNCHANGED vars
    PROVE  /\ hilo' = hilo
           /\ N("new")' >= N("new") /\ N("ready")' >= N("ready")
           /\ cpu.en = "libre" => cpu'.en = "libre"
           /\ interrupcion' = interrupcion
<1>1. CASE \E p \in Procesos : ClienteAgregar(p)
  <2>1. PICK p \in Procesos : ClienteAgregar(p)
    BY <1>1
  <2>2. cola'["ready"] = cola["ready"] /\ cola'["new"] = Append(cola["new"], p)
    BY <2>1, Nombres DEF ClienteAgregar, TypeOK
  <2>3. cola["new"] \in Seq(Procesos) /\ cola["ready"] \in Seq(Procesos)
    BY Nombres DEF TypeOK
  <2>4. N("new")' >= N("new") /\ N("ready")' >= N("ready")
    BY <2>2, <2>3 DEF N
  <2>. QED  BY <2>1, <2>4 DEF ClienteAgregar
<1>2. CASE ~ (\E p \in Procesos : ClienteAgregar(p))
  <2>1. cola' = cola /\ hilo' = hilo /\ interrupcion' = interrupcion
    BY <1>2 DEF Cliente, ClientePost, Ciclo, CpuRecibir, CpuInstruccion, CpuChequear,
         CpuSinExit, CpuInterrumpir, CpuMemoria, CpuFalloSinContador, CpuSinMemoria,
         MemoriaAtender, vars
  <2>2. cpu.en = "libre" => cpu'.en = "libre"
    BY <1>2 DEF Cliente, ClientePost, Ciclo, CpuRecibir, CpuInstruccion, CpuChequear,
         CpuSinExit, CpuInterrumpir, CpuMemoria, CpuFalloSinContador, CpuSinMemoria,
         MemoriaAtender, vars, TypeOK, Cpus
  <2>. QED  BY <2>1, <2>2, Naturales, Nombres DEF N
<1>. QED  BY <1>1, <1>2

\* A step is a step of one thread, and alien to the others, or of no thread.
LEMMA PasoAjeno ==
    ASSUME TypeOK, [Next]_vars
    PROVE  \/ Admitir /\ Ajeno("admitir")
           \/ Finalizar /\ Ajeno("finalizar")
           \/ Ready /\ Ajeno("ready")
           \/ Exec /\ Ajeno("exec")
           \/ Blocked /\ Ajeno("blocked")
           \/ SuspendedReady /\ Ajeno("suspReady")
           \/ \E p \in Procesos : Cliente(p)
           \/ Ciclo \/ CpuInterrumpir \/ CpuMemoria \/ MemoriaAtender \/ UNCHANGED vars
BY AdmitirAjeno, FinalizarAjeno, ReadyAjeno, ExecAjeno, BlockedAjeno, SuspendedReadyAjeno
   DEF Next

-----------------------------------------------------------------------------
(* The CPU has a process only while estadoExec waits for it.               *)

LEMMA PasoCpuDeExec ==
    ASSUME TypeOK, CpuDeExec, [Next]_vars
    PROVE  CpuDeExec'
<1>. USE DEF CpuDeExec, En
<1>1. CASE Exec
  <2>1. CASE ExecDespachar
    BY <2>1, Nombres DEF ExecDespachar, Sigue, TypeOK, HilosOK
  <2>2. CASE ExecRecibir
    BY <2>2 DEF ExecRecibir, TypeOK, Cpus
  <2>3. CASE ~ ExecDespachar /\ ~ ExecRecibir
    <3>1. cpu' = cpu
      BY <1>1, <2>3 DEF Exec, ExecEsperar, ExecTomar, ExecDesalojar, ExecNoDesalojar,
           DesalojoAReady, DesalojoSacar, DesalojoBajar, DesalojoPost, ExecBajar,
           ExecPostDesalojo, ExecSacar, ExecEncolar, ExecPostCola, ExecPostExtra,
           Wait, Post, Agregar, Pasar, BajarInterrupcion
    <3>2. hilo["exec"].en # "recibir"
      BY <1>1, <2>3 DEF Exec, ExecEsperar, ExecTomar, ExecDesalojar, ExecNoDesalojar,
           DesalojoAReady, DesalojoSacar, DesalojoBajar, DesalojoPost, ExecBajar,
           ExecPostDesalojo, ExecSacar, ExecEncolar, ExecPostCola, ExecPostExtra,
           Wait, Post, Agregar, Pasar, BajarInterrupcion
    <3>. QED  BY <3>1, <3>2
  <2>. QED  BY <2>1, <2>2, <2>3
<1>2. CASE \E t \in Hilos \ {"exec"} : Ajeno(t)
  BY <1>2, Nombres DEF Ajeno
<1>3. CASE \/ \E p \in Procesos : Cliente(p)
           \/ Ciclo \/ CpuInterrumpir \/ CpuMemoria \/ MemoriaAtender \/ UNCHANGED vars
  BY <1>3, NadieMueve
<1>. QED  BY <1>1, <1>2, <1>3, PasoAjeno, Nombres

-----------------------------------------------------------------------------
(* What a thread saw under a mutex it released still holds.                *)

\* Suspended-Ready is empty and one unit of sem_admitir is taken: it came from
\* New.
LEMMA SinSuspendidosHayNuevos ==
    ASSUME TypeOK, Cuentas, AdmitirSinSuspendidos
    PROVE  N("new") > 0
<1>1. N("suspReady") = 0
  BY DEF AdmitirSinSuspendidos, N
<1>2. EnPasos(DeAdmitir) >= 1
  <2>1. Uno(Paso("admitir") \in DeAdmitir["admitir"]) = 1
    BY Nombres DEF AdmitirSinSuspendidos, Pasar, En, Paso, DeAdmitir, Ninguno, Uno
  <2>2. \A b : Uno(b) \in {0, 1}
    BY DEF Uno
  <2>. HIDE DEF Uno
  <2>. QED  BY <2>1, <2>2 DEF EnPasos
<1>. HIDE DEF N, EnPasos, PorAvisar
<1>. QED  BY <1>1, <1>2, EnPasosNatural, AvisosNaturales, Naturales, Nombres
          DEF Cuentas, CuentaAdmitir

LEMMA PasoVigentes ==
    ASSUME TypeOK, Cuentas, Vigentes, [Next]_vars
    PROVE  Vigentes'
<1>0. N("new") \in Nat /\ N("ready") \in Nat /\ N("new")' \in Nat /\ N("ready")' \in Nat
  <2>1. TypeOK'
    BY PasoTipo
  <2>2. cola'["new"] \in Seq(Procesos) /\ cola'["ready"] \in Seq(Procesos)
    BY <2>1, Nombres DEF TypeOK
  <2>. QED  BY <2>2, LenProperties, Naturales, Nombres DEF N
<1>1. En("admitir", "sacar")' => N("new")' > 0
  <2>1. CASE Admitir
    <3>1. SUFFICES ASSUME En("admitir", "sacar")'
                   PROVE  N("new")' > 0
      OBVIOUS
    <3>2. AdmitirSinSuspendidos
      BY <2>1, <3>1, Nombres DEF Admitir, AdmitirEsperar, AdmitirGrado, AdmitirSuspendido,
         AdmitirNuevo, AdmitirPedirTabla, AdmitirTabla, AdmitirAgregar,
         TransicionInterrupcion, VerExec, Marcar, Mensaje, PostReady, Wait, Post, Agregar,
         Pasar, Pedir, RecibirRespuesta, QuitarUltimo, Sigue, Toma, En, TypeOK, HilosOK
    <3>3. cola' = cola
      BY <3>2 DEF AdmitirSinSuspendidos, Pasar
    <3>. QED  BY <3>2, <3>3, SinSuspendidosHayNuevos DEF N
  <2>2. CASE \E t \in Hilos \ {"admitir"} : Ajeno(t)
    BY <2>2, <1>0, Nombres DEF Ajeno, Vigentes, En
  <2>3. CASE \/ \E p \in Procesos : Cliente(p)
             \/ Ciclo \/ CpuInterrumpir \/ CpuMemoria \/ MemoriaAtender \/ UNCHANGED vars
    BY <2>3, <1>0, NadieMueve DEF Vigentes, En
  <2>. QED  BY <2>1, <2>2, <2>3, PasoAjeno, Nombres
<1>2. hilo'["ready"].en \in {"contar", "elegir"} => N("ready")' > 0
  <2>1. CASE Ready
    <3>1. SUFFICES ASSUME hilo'["ready"].en \in {"contar", "elegir"}
                   PROVE  N("ready")' > 0
      OBVIOUS
    <3>2. ReadyMirar \/ ReadyContar
      <4>1. CASE ReadyElegir
        BY <3>1, <4>1, Nombres DEF ReadyElegir, Toma, TypeOK, HilosOK
      <4>2. CASE ReadyEsperar \/ ReadyDesalojo \/ ReadyAgregar \/ ReadyPost
        <5>1. PICK m \in {"desalojo", "mirar", "post_exec", "inicio"} : Sigue("ready", m)
          BY <4>2 DEF ReadyEsperar, ReadyDesalojo, ReadyAgregar, ReadyPost, Wait, Post, Agregar
        <5>. QED  BY <3>1, <5>1, Nombres DEF Sigue, TypeOK, HilosOK
      <4>. QED  BY <2>1, <4>1, <4>2 DEF Ready
    <3>3. cola' = cola /\ cola["ready"] # <<>>
      BY <3>1, <3>2, Nombres DEF ReadyMirar, ReadyContar, HayCupo, Pasar, Sigue, TypeOK, HilosOK
    <3>4. cola["ready"] \in Seq(Procesos)
      BY Nombres DEF TypeOK
    <3>. QED  BY <3>3, <3>4 DEF N
  <2>2. CASE \E t \in Hilos \ {"ready"} : Ajeno(t)
    BY <2>2, <1>0, Nombres DEF Ajeno, Vigentes, En
  <2>3. CASE \/ \E p \in Procesos : Cliente(p)
             \/ Ciclo \/ CpuInterrumpir \/ CpuMemoria \/ MemoriaAtender \/ UNCHANGED vars
    BY <2>3, <1>0, NadieMueve DEF Vigentes
  <2>. QED  BY <2>1, <2>2, <2>3, PasoAjeno, Nombres
<1>. QED  BY <1>1, <1>2 DEF Vigentes

-----------------------------------------------------------------------------
(* Under FIFO nobody interrupts.                                           *)

LEMMA SinTransicion ==
    ASSUME TypeOK, SinInterrupciones, Algoritmo = "FIFO",
           NEW t \in {"admitir", "blocked"}, TransicionInterrupcion(t)
    PROVE  interrupcion' = interrupcion /\ hilo'[t].en \notin {"marcar", "mensaje"}
<1>1. VerExec(t) \/ PostReady(t)
  BY Nombres DEF TransicionInterrupcion, Marcar, Mensaje, SinInterrupciones, En
<1>2. CASE VerExec(t)
  BY <1>2, Nombres DEF VerExec, HayQueInterrumpir, Pasar, Sigue, TypeOK, HilosOK
<1>3. CASE PostReady(t)
  BY <1>3, Nombres DEF PostReady, Post, Sigue, TypeOK, HilosOK
<1>. QED  BY <1>1, <1>2, <1>3

LEMMA PasoSinInterrupciones ==
    ASSUME TypeOK, SinInterrupciones, [Next]_vars
    PROVE  SinInterrupciones'
<1>. SUFFICES ASSUME Algoritmo = "FIFO"
              PROVE  /\ ~ interrupcion'
                     /\ hilo'["admitir"].en \notin {"marcar", "mensaje"}
                     /\ hilo'["blocked"].en \notin {"marcar", "mensaje"}
                     /\ hilo'["exec"].en \notin {"d_ready", "d_sacar", "d_bajar", "d_post"}
  BY DEF SinInterrupciones
<1>0. /\ ~ interrupcion
      /\ hilo["admitir"].en \notin {"marcar", "mensaje"}
      /\ hilo["blocked"].en \notin {"marcar", "mensaje"}
      /\ hilo["exec"].en \notin {"d_ready", "d_sacar", "d_bajar", "d_post"}
  BY DEF SinInterrupciones
<1>1. CASE Admitir /\ Ajeno("admitir")
  <2>1. CASE TransicionInterrupcion("admitir")
    BY <2>1, <1>0, <1>1, SinTransicion, Nombres DEF Ajeno
  <2>2. CASE ~ TransicionInterrupcion("admitir")
    <3>1. interrupcion' = interrupcion
      BY <1>1, <2>2 DEF Admitir, AdmitirEsperar, AdmitirGrado, AdmitirSuspendido,
         AdmitirSinSuspendidos, AdmitirNuevo, AdmitirPedirTabla, AdmitirTabla,
         AdmitirAgregar, Wait, Agregar, Pasar, Pedir, RecibirRespuesta, QuitarUltimo
    <3>2. hilo'["admitir"].en \notin {"marcar", "mensaje"}
      BY <1>1, <2>2, Nombres DEF Admitir, AdmitirEsperar, AdmitirGrado, AdmitirSuspendido,
         AdmitirSinSuspendidos, AdmitirNuevo, AdmitirPedirTabla, AdmitirTabla,
         AdmitirAgregar, Wait, Agregar, Pasar, Pedir, RecibirRespuesta, QuitarUltimo,
         Sigue, Toma, TypeOK, HilosOK
    <3>. QED  BY <1>0, <1>1, <3>1, <3>2, Nombres DEF Ajeno
  <2>. QED  BY <2>1, <2>2
<1>2. CASE Blocked /\ Ajeno("blocked")
  <2>1. CASE TransicionInterrupcion("blocked")
    BY <2>1, <1>0, <1>2, SinTransicion, Nombres DEF Ajeno
  <2>2. CASE ~ TransicionInterrupcion("blocked")
    <3>1. interrupcion' = interrupcion
      BY <1>2, <2>2 DEF Blocked, BlockedEsperar, BlockedSacar, BlockedDecidir,
         BlockedIOAntes, BlockedIO, BlockedAgregar, SuspenderPedir, SuspenderRespuesta,
         SuspenderAgregar, SuspenderGrado, BlockedIOResto, BlockedPostSusp,
         Wait, Post, Agregar, Pasar, Pedir, RecibirRespuesta, QuitarPrimero
    <3>2. hilo'["blocked"].en \notin {"marcar", "mensaje"}
      BY SMTT(30), <1>2, <2>2, Nombres DEF Blocked, BlockedEsperar, BlockedSacar, BlockedDecidir,
         BlockedIOAntes, BlockedIO, BlockedAgregar, SuspenderPedir, SuspenderRespuesta,
         SuspenderAgregar, SuspenderGrado, BlockedIOResto, BlockedPostSusp,
         Wait, Post, Agregar, Pasar, Pedir, RecibirRespuesta, QuitarPrimero,
         Sigue, Toma, TypeOK, HilosOK
    <3>. QED  BY <1>0, <1>2, <3>1, <3>2, Nombres DEF Ajeno
  <2>. QED  BY <2>1, <2>2
<1>3. CASE Exec /\ Ajeno("exec")
  <2>1. interrupcion' = interrupcion \/ interrupcion' = FALSE
    BY <1>3 DEF Exec, ExecEsperar, ExecTomar, ExecDespachar, ExecRecibir,
       ExecDesalojar, ExecNoDesalojar, DesalojoAReady, DesalojoSacar, DesalojoBajar,
       DesalojoPost, ExecBajar, ExecPostDesalojo, ExecSacar, ExecEncolar, ExecPostCola,
       ExecPostExtra, Wait, Post, Agregar, Pasar, BajarInterrupcion
  <2>2. hilo'["exec"].en \notin {"d_ready", "d_sacar", "d_bajar", "d_post"}
    <3>1. ~ ExecDesalojar
      BY <1>0 DEF ExecDesalojar, Desalojado
    <3>2. ~ DesalojoAReady /\ ~ DesalojoSacar /\ ~ DesalojoBajar /\ ~ DesalojoPost
      BY <1>0 DEF DesalojoAReady, DesalojoSacar, DesalojoBajar, DesalojoPost, Agregar, Post,
         BajarInterrupcion, En
    <3>3. CASE ExecTomar
      BY <3>3, Nombres DEF ExecTomar, Toma, TypeOK, HilosOK
    <3>4. CASE ~ ExecTomar
      <4>1. PICK m \in {"tomar", "recibir", "decidir", "bajar", "post_desalojo", "sacar",
                        "encolar", "post_cola", "post_extra", "inicio"} : Sigue("exec", m)
        BY <1>3, <3>1, <3>2, <3>4 DEF Exec, ExecEsperar, ExecDespachar, ExecRecibir,
           ExecNoDesalojar, ExecBajar, ExecPostDesalojo, ExecSacar, ExecEncolar,
           ExecPostCola, ExecPostExtra, Wait, Post, Agregar, Pasar, BajarInterrupcion
      <4>. QED  BY <4>1, Nombres DEF Sigue, TypeOK, HilosOK
    <3>. QED  BY <3>3, <3>4
  <2>. QED  BY <1>0, <1>3, <2>1, <2>2, Nombres DEF Ajeno
<1>4. CASE Finalizar /\ Ajeno("finalizar")
  <2>1. interrupcion' = interrupcion
    BY <1>4 DEF Finalizar, FinalizarEsperar, FinalizarSacar, FinalizarPedir,
       FinalizarRespuesta, FinalizarAvisar, FinalizarGrado, Wait, Post, Pedir,
       RecibirRespuesta, QuitarPrimero
  <2>. QED  BY <1>0, <1>4, <2>1, Nombres DEF Ajeno
<1>5. CASE Ready /\ Ajeno("ready")
  <2>1. interrupcion' = interrupcion
    BY <1>5 DEF Ready, ReadyEsperar, ReadyDesalojo, ReadyMirar, ReadyContar, ReadyElegir,
       ReadyAgregar, ReadyPost, Wait, Post, Agregar, Pasar
  <2>. QED  BY <1>0, <1>5, <2>1, Nombres DEF Ajeno
<1>6. CASE SuspendedReady /\ Ajeno("suspReady")
  <2>1. interrupcion' = interrupcion
    BY <1>6 DEF SuspendedReady, SuspEsperar, SuspSacar, SuspAgregar, SuspPost,
       Wait, Post, Agregar, QuitarUltimo
  <2>. QED  BY <1>0, <1>6, <2>1, Nombres DEF Ajeno
<1>7. CASE \/ \E p \in Procesos : Cliente(p)
           \/ Ciclo \/ CpuInterrumpir \/ CpuMemoria \/ MemoriaAtender \/ UNCHANGED vars
  BY <1>0, <1>7, NadieMueve
<1>. QED  BY <1>1, <1>2, <1>3, <1>4, <1>5, <1>6, <1>7, PasoAjeno

-----------------------------------------------------------------------------
(* Under FIFO obtenerSiguienteReady always has a process to return.        *)

SinIndefinido == Algoritmo = "FIFO" => SeleccionDefinida

LEMMA HayCupoFifo ==
    ASSUME TypeOK, Cuentas, Vigentes, SinInterrupciones, Algoritmo = "FIFO",
           En("ready", "contar")
    PROVE  HayCupo
<1>1. N("ready") > 0
  BY DEF Vigentes, En
<1>2. EnPasos(EnDosListas) = 0
  <2>1. Paso("exec") # "d_sacar"
    BY DEF SinInterrupciones, Paso, Destino, En
  <2>. QED  BY <2>1, Nombres DEF EnPasos, EnDosListas, Ninguno, Uno
<1>3. N("exec") < Grado
  <2>. HIDE DEF N, EnPasos
  <2>. QED  BY <1>1, <1>2, EnPasosNatural, Naturales, Nombres, GradoAssumption
            DEF Cuentas, CuentaGrado
<1>4. cola["ready"] # <<>>
  BY <1>1 DEF N
<1>. QED  BY <1>3, <1>4 DEF HayCupo, N

LEMMA PasoSinIndefinido ==
    ASSUME TypeOK, Cuentas, Vigentes, SinInterrupciones, SinIndefinido, [Next]_vars
    PROVE  SinIndefinido'
<1>. SUFFICES ASSUME Algoritmo = "FIFO"
              PROVE  hilo'["ready"].en # "indefinido"
  BY DEF SinIndefinido, SeleccionDefinida, En
<1>0. hilo["ready"].en # "indefinido"
  BY DEF SinIndefinido, SeleccionDefinida, En
<1>1. CASE Ready
  <2>1. CASE ReadyContar
    <3>1. HayCupo
      BY <2>1, HayCupoFifo DEF ReadyContar, Pasar
    <3>. QED  BY <2>1, <3>1, Nombres DEF ReadyContar, Pasar, Sigue, TypeOK, HilosOK
  <2>2. CASE ReadyElegir
    BY <2>2, Nombres DEF ReadyElegir, Toma, TypeOK, HilosOK
  <2>3. CASE ~ ReadyContar /\ ~ ReadyElegir
    <3>1. PICK m \in {"desalojo", "mirar", "inicio", "contar", "post_exec"} : Sigue("ready", m)
      BY <1>1, <2>3 DEF Ready, ReadyEsperar, ReadyDesalojo, ReadyMirar, ReadyAgregar,
         ReadyPost, Wait, Post, Agregar, Pasar
    <3>. QED  BY <3>1, Nombres DEF Sigue, TypeOK, HilosOK
  <2>. QED  BY <2>1, <2>2, <2>3
<1>2. CASE \E t \in Hilos \ {"ready"} : Ajeno(t)
  BY <1>0, <1>2, Nombres DEF Ajeno
<1>3. CASE \/ \E p \in Procesos : Cliente(p)
           \/ Ciclo \/ CpuInterrumpir \/ CpuMemoria \/ MemoriaAtender \/ UNCHANGED vars
  BY <1>0, <1>3, NadieMueve
<1>. QED  BY <1>1, <1>2, <1>3, PasoAjeno, Nombres

-----------------------------------------------------------------------------
(* The theorems.                                                           *)

\* The counts, what the CPU has and what a thread saw under a released mutex
\* need one another: this is the inductive invariant of the scheduler.
Invariante == TypeOK /\ Cuentas /\ CpuDeExec /\ Vigentes

\* For every set of processes, program and degree of multiprogramming, each
\* semaphore and the list it announces add up with the threads that are between
\* the two, in every interleaving of the planner threads.
THEOREM CuentasCorrectas == Spec => []Invariante
<1>1. Init => Invariante
  BY InitTipo, InitCuentas DEF Invariante
<1>2. Invariante /\ [Next]_vars => Invariante'
  BY PasoTipo, PasoCuentas, PasoCpuDeExec, PasoVigentes DEF Invariante
<1>. QED  BY <1>1, <1>2, PTL DEF Spec

\* A thread that is about to remove from a list is counted by the list.
LEMMA CuentaMinima ==
    ASSUME NEW w, NEW t \in Hilos, Paso(t) \in w[t]
    PROVE  EnPasos(w) >= 1
<1>1. Uno(Paso(t) \in w[t]) = 1
  BY DEF Uno
<1>2. \A b : Uno(b) \in {0, 1}
  BY DEF Uno
<1>. HIDE DEF Uno
<1>. QED  BY <1>1, <1>2, Nombres DEF EnPasos, Hilos, SinProceso

LEMMA InvarianteSinListaVacia == Invariante => NuncaListaVacia
<1>. SUFFICES ASSUME TypeOK, Cuentas, Vigentes
              PROVE  NuncaListaVacia
  BY DEF Invariante
<1>1. \A c \in Colas : N(c) \in Nat /\ (cola[c] = <<>> => N(c) = 0)
  BY Naturales DEF N
<1>2. \A s \in Semaforos : sem[s] \in Nat
  BY Naturales
<1>3. En("admitir", "sacar") => cola["new"] # <<>>
  BY <1>1, Nombres DEF Vigentes
<1>4. hilo["ready"].en \in {"contar", "elegir"} => cola["ready"] # <<>>
  BY <1>1, Nombres DEF Vigentes
<1>5. En("finalizar", "sacar") => cola["exit"] # <<>>
  <2>1. En("finalizar", "sacar") => Paso("finalizar") \in DeExit["finalizar"]
    BY Nombres DEF Paso, En, DeExit, Ninguno
  <2>2. N("exit") = sem["exit"] + EnPasos(DeExit)
    BY DEF Cuentas, CuentaExit
  <2>. HIDE DEF N, EnPasos
  <2>. QED  BY <1>1, <1>2, <2>1, <2>2, CuentaMinima, EnPasosNatural, Nombres
<1>6. En("blocked", "sacar") => cola["blocked"] # <<>>
  <2>1. En("blocked", "sacar") => Paso("blocked") \in DeBlocked["blocked"]
    BY Nombres DEF Paso, En, DeBlocked, Ninguno
  <2>2. N("blocked") = sem["blocked"] + EnPasos(DeBlocked)
    BY DEF Cuentas, CuentaBlocked
  <2>. HIDE DEF N, EnPasos
  <2>. QED  BY <1>1, <1>2, <2>1, <2>2, CuentaMinima, EnPasosNatural, Nombres
<1>7. En("suspReady", "sacar") => cola["suspBlocked"] # <<>>
  <2>1. En("suspReady", "sacar") => Paso("suspReady") \in DeSusp["suspReady"]
    BY Nombres DEF Paso, En, DeSusp, Ninguno
  <2>2. N("suspBlocked") = sem["suspReady"] + EnPasos(DeSusp)
    BY DEF Cuentas, CuentaSusp
  <2>. HIDE DEF N, EnPasos
  <2>. QED  BY <1>1, <1>2, <2>1, <2>2, CuentaMinima, EnPasosNatural, Nombres
<1>8. hilo["exec"].en \in {"tomar", "d_sacar", "sacar"} => cola["exec"] # <<>>
  <2>1. hilo["exec"].en \in {"tomar", "d_sacar", "sacar"} => Paso("exec") \in DeExec["exec"]
    BY Nombres DEF Paso, En, DeExec, Ninguno
  <2>2. N("exec") = sem["exec"] + EnPasos(DeExec)
    BY DEF Cuentas, CuentaExec
  <2>. HIDE DEF N, EnPasos
  <2>. QED  BY <1>1, <1>2, <2>1, <2>2, CuentaMinima, EnPasosNatural, Nombres
<1>. QED  BY <1>3, <1>4, <1>5, <1>6, <1>7, <1>8 DEF NuncaListaVacia

\* No planner thread ever calls list_remove or list_get on an empty list,
\* whatever the number of processes, their programs and the interleaving: the
\* NULL those calls would return is never dereferenced.
THEOREM SinListaVacia == Spec => []NuncaListaVacia
<1>1. Spec => []Invariante
  BY CuentasCorrectas
<1>2. Invariante => NuncaListaVacia
  BY InvarianteSinListaVacia
<1>. QED  BY <1>1, <1>2, PTL

\* Under FIFO, estadoReady never gets from obtenerSiguienteReady the pointer
\* that function leaves unassigned when Exec has no room: the semaphores keep
\* Exec below GRADO_MULTIPROGRAMACION whenever something is in Ready.
THEOREM SeleccionFifo == Spec /\ Algoritmo = "FIFO" => []SeleccionDefinida
<1>. DEFINE I == SinInterrupciones /\ SinIndefinido
<1>1. Init => I
  BY Nombres DEF Init, SinInterrupciones, SinIndefinido, SeleccionDefinida, En
<1>2. Invariante /\ I /\ [Next]_vars => I'
  BY PasoSinInterrupciones, PasoSinIndefinido DEF Invariante
<1>3. Algoritmo = "FIFO" /\ I => SeleccionDefinida
  BY DEF SinIndefinido
<1>4. Spec => []Invariante
  BY CuentasCorrectas
<1>5. Spec => []I
  <2>. HIDE DEF I
  <2>. QED  BY <1>1, <1>2, <1>4, PTL DEF Spec
<1>. QED
  <2>1. CASE Algoritmo = "FIFO"
    BY <2>1, <1>3, <1>5, PTL
  <2>. QED  BY <2>1
=============================================================================
