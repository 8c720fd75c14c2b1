------------------------------- MODULE MCReloj ------------------------------
(***************************************************************************)
(* CLOCK and CLOCK-M against their definitions, for every list of at most  *)
(* MaxPaginas pages: one step takes an arbitrary list to the victim.       *)
(***************************************************************************)
EXTENDS Reloj, TLC

CONSTANT MaxPaginas

ASSUME MaxPaginasAssumption == MaxPaginas \in Nat

VARIABLES paginas, elegidas

Bits == [u : BOOLEAN, m : BOOLEAN, puntero : BOOLEAN]
Algoritmos == {"CLOCK", "CLOCK-M"}
Sin == [a \in Algoritmos |-> 0]

InitReloj ==
    /\ paginas \in UNION {[1..n -> Bits] : n \in 1..MaxPaginas}
    /\ elegidas = Sin

NextReloj ==
    /\ elegidas = Sin
    /\ elegidas' = [a \in Algoritmos |-> Elegir(a, paginas).victima]
    /\ UNCHANGED paginas

SpecReloj == InitReloj /\ [][NextReloj]_<<paginas, elegidas>>

\* The classes of pages from the most to the least replaceable.
Clase(alg, p) ==
    (IF p.u THEN 2 ELSE 0) + (IF alg = "CLOCK-M" /\ p.m THEN 1 ELSE 0)

\* How far from the hand.
Distancia(i) ==
    CHOOSE d \in 0..(Len(paginas) - 1) : Desde(Aguja(paginas), d, Len(paginas)) = i

\* Both algorithms choose the most replaceable page, and of those the first
\* from the hand: no page in use while one is not, and for CLOCK-M no page that
\* must be written back while another of the same use needs it not.
VictimaCorrecta ==
    elegidas # Sin =>
        \A alg \in Algoritmos : LET v == elegidas[alg] IN
            \A i \in DOMAIN paginas \ {v} :
                LET cv == Clase(alg, paginas[v])  ci == Clase(alg, paginas[i]) IN
                cv < ci \/ (cv = ci /\ Distancia(v) < Distancia(i))

\* The pages passed over on the way to the victim, and they only, lost their
\* second chance; a walk that found a clean unused page at once took none.  The
\* hand is left after the victim, and a list with one hand keeps one.
RotacionCorrecta ==
    elegidas # Sin =>
        \A alg \in Algoritmos :
            LET r == Rotar(alg, paginas)
                v == elegidas[alg]
                quieta == alg = "CLOCK-M" /\ ~ paginas[v].m
                manos == {i \in DOMAIN paginas : paginas[i].puntero}
            IN  /\ \A i \in DOMAIN paginas :
                     r[i].u <=> /\ paginas[i].u /\ ~ paginas[v].u
                                /\ quieta \/ Distancia(i) > Distancia(v)
                /\ Cardinality(manos) <= 1 =>
                     {i \in DOMAIN r : r[i].puntero} = {Siguiente(v, Len(paginas))}
=============================================================================
