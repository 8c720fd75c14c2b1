--------------------------- MODULE DiagramaEstados --------------------------
(***************************************************************************)
(* What the scheduler promises, without lists, threads or semaphores: the  *)
(* seven-state diagram of a process.  At most Grado processes take part in *)
(* the multiprogramming and at most one is executing.                      *)
(***************************************************************************)
EXTENDS Naturals, FiniteSets

CONSTANTS Procesos, Grado

VARIABLE estado

\* "AFUERA": its console has not connected yet; "FIN": its console was told.
Estados == {"AFUERA", "NUEVO", "LISTO", "EXEC", "BLOQUEADO", "BLOQUEADO_SUSPENDIDO",
            "LISTO_SUSPENDIDO", "FINALIZADO", "FIN"}

EnMemoria == {p \in Procesos : estado[p] \in {"LISTO", "EXEC", "BLOQUEADO", "FINALIZADO"}}

Init == estado = [p \in Procesos |-> "AFUERA"]

Pasa(p, de, a) == estado[p] = de /\ estado' = [estado EXCEPT ![p] = a]

Llegar(p) == Pasa(p, "AFUERA", "NUEVO")

\* From NEW or back from a suspension, only with room for it.
Admitir(p) ==
    /\ Cardinality(EnMemoria) < Grado
    /\ Pasa(p, "NUEVO", "LISTO") \/ Pasa(p, "LISTO_SUSPENDIDO", "LISTO")

\* The CPU takes a process when no other has it.
Despachar(p) ==
    /\ \A q \in Procesos : estado[q] # "EXEC"
    /\ Pasa(p, "LISTO", "EXEC")

Desalojar(p) == Pasa(p, "EXEC", "LISTO")
Bloquear(p) == Pasa(p, "EXEC", "BLOQUEADO")
Terminar(p) == Pasa(p, "EXEC", "FINALIZADO")
Desbloquear(p) == Pasa(p, "BLOQUEADO", "LISTO")
Suspender(p) == Pasa(p, "BLOQUEADO", "BLOQUEADO_SUSPENDIDO")
FinDeIO(p) == Pasa(p, "BLOQUEADO_SUSPENDIDO", "LISTO_SUSPENDIDO")
Salir(p) == Pasa(p, "FINALIZADO", "FIN")

Next == \E p \in Procesos :
    \/ Llegar(p) \/ Admitir(p) \/ Despachar(p) \/ Desalojar(p) \/ Bloquear(p)
    \/ Terminar(p) \/ Desbloquear(p) \/ Suspender(p) \/ FinDeIO(p) \/ Salir(p)

Spec == Init /\ [][Next]_estado
=============================================================================
