--------------------------- MODULE MCPlanificador ---------------------------
(* Instances of the scheduler for TLC.                                     *)
EXTENDS PlanificadorInv, TLC

CONSTANTS p1, p2, p3

DeProcesos(f) == [p \in Procesos |-> f[p]]

\* The process that computes has not the first identifier: its page faults and
\* its end look for a counter that may not be there.
Identificadores == DeProcesos(p1 :> 1 @@ p2 :> 0 @@ p3 :> 2)

\* The process that computes has the first identifier.
EnOrden == DeProcesos(p1 :> 0 @@ p2 :> 1)

\* Two programs that block, one of them after computing.
ProgramaMixto == DeProcesos(p1 :> <<"NO_OP", "IO", "EXIT">> @@ p2 :> <<"IO", "EXIT">>)

\* Two programs that block, alike, and one that ends without EXIT: the CPU never
\* gives it back.
ProgramaTres == DeProcesos(
    p1 :> <<"IO", "EXIT">> @@ p2 :> <<"IO", "EXIT">> @@ p3 :> <<"NO_OP">>)

\* A program that leaves the CPU only when interrupted, and one that blocks.
ProgramaCpu == DeProcesos(p1 :> <<"NO_OP", "NO_OP", "EXIT">> @@ p2 :> <<"IO", "EXIT">>)
=============================================================================
