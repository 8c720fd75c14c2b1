------------------------------- MODULE Reloj --------------------------------
(***************************************************************************)
(* CLOCK and CLOCK-M (obtenerPaginaClock, obtenerPaginaClockM) over the    *)
(* pages of a process that are in memory, in the order of their frames:    *)
(* s[i] has at least the bits u, m and puntero.  The result is the place   *)
(* of the page to replace and the bits u that the walk leaves.             *)
(***************************************************************************)
EXTENDS Naturals, Sequences, FiniteSets

Siguiente(i, n) == (i % n) + 1

\* The place that comes k after i.
Desde(i, k, n) == ((i - 1 + k) % n) + 1

Menor(S) == CHOOSE x \in S : \A y \in S : x <= y

\* Where the hand is: the first page with the bit, and the first of all if none
\* has it.
Aguja(s) ==
    LET con == {i \in DOMAIN s : s[i].puntero} IN IF con = {} THEN 1 ELSE Menor(con)

\* The first place from the hand that satisfies P, given as the set of places
\* that do; 0 if there is none.
PrimeroDesde(k, S, n) ==
    IF S = {} THEN 0 ELSE Desde(k, Menor({d \in 0..(n - 1) : Desde(k, d, n) \in S}), n)

\* One place at a time: a page in use gets a second chance.
Recorridos(n) == [u : [1..n -> BOOLEAN], i : 1..n]

Avanza(v, n) == [u |-> [v.u EXCEPT ![v.i] = FALSE], i |-> Siguiente(v.i, n)]

ClockDesde(n) ==
    LET paso[v \in Recorridos(n)] ==
            IF v.u[v.i] THEN paso[Avanza(v, n)] ELSE [victima |-> v.i, u |-> v.u]
    IN  paso

BitsU(s) == [i \in 1..Len(s) |-> s[i].u]

Clock(s) == ClockDesde(Len(s))[[u |-> BitsU(s), i |-> Aguja(s)]]

\* Mistake: CLOCK-M does not prefer the pages that need no writing back.
ClockMSinM(s) == Clock(s)

\* The first page neither used nor modified, and the first not used, from the hand.
Limpia(s, u) == PrimeroDesde(Aguja(s), {i \in 1..Len(s) : ~ u[i] /\ ~ s[i].m}, Len(s))
Libre(s, u) == PrimeroDesde(Aguja(s), {i \in 1..Len(s) : ~ u[i]}, Len(s))

\* The bits u when those passed before the first page not used lose theirs.
Bajado(s, u) ==
    LET antes == {Desde(Aguja(s), d, Len(s)) : d \in
                    {e \in 0..(Len(s) - 1) :
                       \A f \in 0..e : Desde(Aguja(s), f, Len(s)) # Libre(s, u)}}
    IN  [i \in 1..Len(s) |-> u[i] /\ i \notin antes]

\* Two rounds, in two halves each: a page neither used nor modified; then one
\* not used, taking the bit u from those it passes; and again.
Pasadas(s) ==
    LET pasada[u \in [1..Len(s) -> BOOLEAN]] ==
            IF Limpia(s, u) # 0 THEN [victima |-> Limpia(s, u), u |-> u]
            ELSE IF Libre(s, u) # 0 THEN [victima |-> Libre(s, u), u |-> Bajado(s, u)]
            ELSE pasada[Bajado(s, u)]
    IN  pasada

ClockM(s) == Pasadas(s)[BitsU(s)]

Elegir(algoritmo, s) == IF algoritmo = "CLOCK" THEN Clock(s) ELSE ClockM(s)

\* Mistake: the hand is not taken from where it was.
RotarSinQuitar(algoritmo, s) ==
    LET e == Elegir(algoritmo, s)
        sig == Siguiente(e.victima, Len(s))
    IN  [i \in DOMAIN s |-> [s[i] EXCEPT !.u = e.u[i], !.puntero = @ \/ i = sig]]

\* The bits after a replacement: the hand goes to the place after the victim.
\* Only the first hand is taken away.
Rotar(algoritmo, s) ==
    LET e == Elegir(algoritmo, s)
        a == Aguja(s)
        sig == Siguiente(e.victima, Len(s))
    IN  [i \in DOMAIN s |->
           [s[i] EXCEPT !.u = e.u[i],
                        !.puntero = IF i = sig THEN TRUE ELSE IF i = a THEN FALSE ELSE @]]
=============================================================================
