----------------------------- MODULE RelojProofs ----------------------------
(***************************************************************************)
(* CLOCK and CLOCK-M for lists of any length: which page the walks choose, *)
(* which bits u they leave and where the hand ends.  The loops of the code *)
(* are recursive functions; each is shown to exist by a closed form that   *)
(* satisfies its equation, and to be that closed form by taking the        *)
(* smallest number of bits u for which they would differ.                  *)
(***************************************************************************)
EXTENDS Reloj, FiniteSetTheorems, WellFoundedInduction, TLAPS

-----------------------------------------------------------------------------
(* Places on a circle.                                                     *)

LEMMA MenorNat ==
    ASSUME NEW S \in SUBSET Nat, S # {}
    PROVE  Menor(S) \in S /\ \A y \in S : Menor(S) <= y
<1>1. PICK x \in S : \A y \in S : ~ (<<y, x>> \in OpToRel(<, Nat))
  BY NatLessThanWellFounded, WFMin
<1>2. \A y \in S : ~ (y < x)
  BY <1>1, Zenon DEF OpToRel
<1>3. \A y \in S : x <= y
  BY <1>2
<1>. QED  BY <1>3 DEF Menor

\* How far j is after k.
Lejos(k, j, n) == IF j >= k THEN j - k ELSE j - k + n

LEMMA Vuelta ==
    ASSUME NEW n \in Nat \ {0}, NEW k \in 1..n
    PROVE  /\ \A d \in 0..(n - 1) : Desde(k, d, n) \in 1..n /\ Lejos(k, Desde(k, d, n), n) = d
           /\ \A j \in 1..n : Lejos(k, j, n) \in 0..(n - 1) /\ Desde(k, Lejos(k, j, n), n) = j
           /\ Lejos(k, k, n) = 0
<1>1. ASSUME NEW d \in 0..(n - 1)
      PROVE  Desde(k, d, n) = IF k + d <= n THEN k + d ELSE k + d - n
  BY DEF Desde
<1>2. ASSUME NEW d \in 0..(n - 1)
      PROVE  Desde(k, d, n) \in 1..n /\ Lejos(k, Desde(k, d, n), n) = d
  BY <1>1 DEF Lejos
<1>3. ASSUME NEW j \in 1..n
      PROVE  Lejos(k, j, n) \in 0..(n - 1) /\ Desde(k, Lejos(k, j, n), n) = j
  <2>1. Lejos(k, j, n) \in 0..(n - 1)
    BY DEF Lejos
  <2>. QED  BY <1>1, <2>1 DEF Lejos
<1>. QED  BY <1>2, <1>3 DEF Lejos

LEMMA Distintos ==
    ASSUME NEW n \in Nat \ {0}, NEW k \in 1..n, NEW i \in 1..n, NEW j \in 1..n,
           Lejos(k, i, n) = Lejos(k, j, n)
    PROVE  i = j
BY DEF Lejos

LEMMA SiguienteVuelta ==
    ASSUME NEW n \in Nat \ {0}, NEW k \in 1..n
    PROVE  /\ Siguiente(k, n) \in 1..n
           /\ \A j \in 1..n : Lejos(Siguiente(k, n), j, n)
                                = IF j = k THEN n - 1 ELSE Lejos(k, j, n) - 1
<1>1. Siguiente(k, n) = IF k < n THEN k + 1 ELSE 1
  BY DEF Siguiente
<1>. QED  BY <1>1 DEF Lejos

LEMMA PrimeroCorrecto ==
    ASSUME NEW n \in Nat \ {0}, NEW k \in 1..n, NEW S \in SUBSET (1..n)
    PROVE  /\ S = {} => PrimeroDesde(k, S, n) = 0
           /\ S # {} => /\ PrimeroDesde(k, S, n) \in S
                        /\ \A j \in S : Lejos(k, PrimeroDesde(k, S, n), n) <= Lejos(k, j, n)
<1>. DEFINE D == {d \in 0..(n - 1) : Desde(k, d, n) \in S}
<1>1. ASSUME S # {}
      PROVE  /\ Desde(k, Menor(D), n) \in S
             /\ \A j \in S : Lejos(k, Desde(k, Menor(D), n), n) <= Lejos(k, j, n)
  <2>1. D \in SUBSET Nat
    OBVIOUS
  <2>2. \A j \in S : Lejos(k, j, n) \in D
    BY Vuelta
  <2>3. D # {}
    BY <1>1, <2>2
  <2>4. Menor(D) \in D /\ \A d \in D : Menor(D) <= d
    BY <2>1, <2>3, MenorNat
  <2>5. Lejos(k, Desde(k, Menor(D), n), n) = Menor(D)
    BY <2>4, Vuelta
  <2>. QED  BY <2>2, <2>4, <2>5
<1>. QED  BY <1>1 DEF PrimeroDesde

\* The first of a set is the only one with nothing of the set before it.
LEMMA PrimeroUnico ==
    ASSUME NEW n \in Nat \ {0}, NEW k \in 1..n, NEW S \in SUBSET (1..n), NEW w \in S,
           \A j \in S : Lejos(k, w, n) <= Lejos(k, j, n)
    PROVE  PrimeroDesde(k, S, n) = w
<1>. DEFINE x == PrimeroDesde(k, S, n)
<1>1. x \in S /\ Lejos(k, x, n) <= Lejos(k, w, n)
  BY PrimeroCorrecto
<1>. HIDE DEF x
<1>2. x \in 1..n /\ w \in 1..n /\ Lejos(k, w, n) <= Lejos(k, x, n)
  BY <1>1
<1>3. Lejos(k, x, n) = Lejos(k, w, n)
  BY <1>1, <1>2 DEF Lejos
<1>4. x = w
  BY <1>1, <1>3, Distintos
<1>. QED  BY <1>4 DEF x

-----------------------------------------------------------------------------
(* CLOCK.                                                                  *)

SinUso(u, n) == {j \in 1..n : ~ u[j]}

\* What the walk that starts at v.i with the bits v.u ends in.
Final(v, n) ==
    LET w == PrimeroDesde(v.i, SinUso(v.u, n), n) IN
    IF SinUso(v.u, n) = {} THEN [victima |-> v.i, u |-> [j \in 1..n |-> FALSE]]
    ELSE [victima |-> w, u |-> [j \in 1..n |-> v.u[j] /\ Lejos(v.i, j, n) > Lejos(v.i, w, n)]]

LEMMA FinalQuieto ==
    ASSUME NEW n \in Nat \ {0}, NEW v \in Recorridos(n), ~ v.u[v.i]
    PROVE  Final(v, n) = [victima |-> v.i, u |-> v.u]
<1>1. v.i \in 1..n /\ v.u \in [1..n -> BOOLEAN]
  BY DEF Recorridos
<1>2. v.i \in SinUso(v.u, n) /\ SinUso(v.u, n) \in SUBSET (1..n)
  BY <1>1 DEF SinUso
<1>3. /\ Lejos(v.i, v.i, n) = 0
      /\ \A j \in 1..n : Lejos(v.i, j, n) \in 0..(n - 1) /\ (Lejos(v.i, j, n) = 0 => j = v.i)
  BY <1>1 DEF Lejos
<1>4. PrimeroDesde(v.i, SinUso(v.u, n), n) = v.i
  <2>1. \A j \in SinUso(v.u, n) : Lejos(v.i, v.i, n) <= Lejos(v.i, j, n)
    BY <1>2, <1>3
  <2>. QED  BY <1>1, <1>2, <2>1, PrimeroUnico
<1>5. \A j \in 1..n : (v.u[j] /\ Lejos(v.i, j, n) > Lejos(v.i, v.i, n)) = v.u[j]
  BY <1>1, <1>3
<1>6. [j \in 1..n |-> v.u[j] /\ Lejos(v.i, j, n) > Lejos(v.i, v.i, n)] = v.u
  BY <1>1, <1>5
<1>. QED  BY <1>2, <1>4, <1>6 DEF Final

LEMMA AvanzaTipo ==
    ASSUME NEW n \in Nat \ {0}, NEW v \in Recorridos(n)
    PROVE  Avanza(v, n) \in Recorridos(n)
BY SiguienteVuelta DEF Avanza, Recorridos

LEMMA FinalAvanza ==
    ASSUME NEW n \in Nat \ {0}, NEW v \in Recorridos(n), v.u[v.i]
    PROVE  Final(Avanza(v, n), n) = Final(v, n)
<1>. DEFINE i == v.i
            k == Siguiente(v.i, n)
            S == SinUso(v.u, n)
            T == SinUso(Avanza(v, n).u, n)
            b == Avanza(v, n).u
<1>1. /\ i \in 1..n /\ v.u \in [1..n -> BOOLEAN]
      /\ k \in 1..n /\ b = [v.u EXCEPT ![i] = FALSE] /\ Avanza(v, n).i = k
  BY SiguienteVuelta DEF Recorridos, Avanza
<1>2. b \in [1..n -> BOOLEAN] /\ b[i] = FALSE /\ \A j \in 1..n \ {i} : b[j] = v.u[j]
  BY <1>1
<1>3. T = S \cup {i} /\ i \notin S /\ S \in SUBSET (1..n) /\ T \in SUBSET (1..n)
  BY <1>1, <1>2 DEF SinUso
<1>4. /\ \A j \in 1..n \ {i} : Lejos(k, j, n) = Lejos(i, j, n) - 1
      /\ Lejos(k, i, n) = n - 1 /\ Lejos(i, i, n) = 0
      /\ \A j \in 1..n : Lejos(i, j, n) \in 0..(n - 1)
  BY <1>1, SiguienteVuelta, Vuelta
<1>. HIDE DEF i, k, S, T, b
<1>5. CASE S = {}
  <2>1. PrimeroDesde(k, T, n) = i
    <3>1. \A j \in T : Lejos(k, i, n) <= Lejos(k, j, n)
      BY <1>1, <1>3, <1>4, <1>5
    <3>. QED  BY <1>1, <1>3, <3>1, PrimeroUnico
  <2>2. \A j \in 1..n : ~ (b[j] /\ Lejos(k, j, n) > Lejos(k, i, n))
    <3>1. ASSUME NEW j \in 1..n, j # i
          PROVE  Lejos(k, j, n) <= n - 1
      BY <1>1, <1>4, <3>1
    <3>. QED  BY <1>1, <1>2, <1>4, <3>1
  <2>3. [j \in 1..n |-> b[j] /\ Lejos(k, j, n) > Lejos(k, i, n)] = [j \in 1..n |-> FALSE]
    BY <2>2
  <2>4. Final(Avanza(v, n), n) = [victima |-> i, u |-> [j \in 1..n |-> FALSE]]
    BY <1>1, <1>3, <2>1, <2>3 DEF Final, T, b
  <2>. QED  BY <1>5, <2>4 DEF Final, S, i
<1>6. CASE S # {}
  <2>1. PICK w \in S : w = PrimeroDesde(i, S, n) /\ \A j \in S : Lejos(i, w, n) <= Lejos(i, j, n)
    BY <1>1, <1>3, <1>6, PrimeroCorrecto
  <2>2. PrimeroDesde(k, T, n) = w
    <3>1. \A j \in S : Lejos(k, w, n) <= Lejos(k, j, n)
      <4>1. /\ w \in 1..n \ {i} /\ Lejos(i, w, n) \in Int /\ Lejos(k, w, n) = Lejos(i, w, n) - 1
        BY <1>1, <1>3, <1>4, <2>1
      <4>2. ASSUME NEW j \in S
            PROVE  /\ Lejos(i, j, n) \in Int /\ Lejos(k, j, n) = Lejos(i, j, n) - 1
                   /\ Lejos(i, w, n) <= Lejos(i, j, n)
        BY <1>1, <1>3, <1>4, <2>1
      <4>. QED  BY <4>1, <4>2
    <3>2. Lejos(k, w, n) <= Lejos(k, i, n)
      BY <1>1, <1>3, <1>4, <2>1
    <3>3. w \in T /\ \A j \in T : Lejos(k, w, n) <= Lejos(k, j, n)
      BY <1>3, <2>1, <3>1, <3>2
    <3>. QED  BY <1>1, <1>3, <3>3, PrimeroUnico
  <2>3. ASSUME NEW j \in 1..n
        PROVE  (b[j] /\ Lejos(k, j, n) > Lejos(k, w, n)) = (v.u[j] /\ Lejos(i, j, n) > Lejos(i, w, n))
    <3>1. w \in 1..n /\ w # i
      BY <1>3, <2>1
    <3>2. CASE j = i
      BY <1>1, <1>2, <1>4, <3>1, <3>2
    <3>3. CASE j # i
      <4>1. Lejos(k, j, n) > Lejos(k, w, n) <=> Lejos(i, j, n) > Lejos(i, w, n)
        BY <1>1, <1>4, <3>1, <3>3
      <4>. QED  BY <1>1, <1>2, <3>3, <4>1
    <3>. QED  BY <3>2, <3>3
  <2>4. [j \in 1..n |-> b[j] /\ Lejos(k, j, n) > Lejos(k, w, n)]
          = [j \in 1..n |-> v.u[j] /\ Lejos(i, j, n) > Lejos(i, w, n)]
    BY <2>3
  <2>5. T # {}
    BY <1>3
  <2>. QED  BY <1>1, <1>6, <2>1, <2>2, <2>4, <2>5 DEF Final, S, T, i, b
<1>. QED  BY <1>5, <1>6

LEMMA FinalTipo ==
    ASSUME NEW n \in Nat \ {0}, NEW v \in Recorridos(n)
    PROVE  Final(v, n) \in [victima : 1..n, u : [1..n -> BOOLEAN]]
<1>1. v.i \in 1..n /\ v.u \in [1..n -> BOOLEAN] /\ SinUso(v.u, n) \in SUBSET (1..n)
  BY DEF Recorridos, SinUso
<1>2. SinUso(v.u, n) # {} => PrimeroDesde(v.i, SinUso(v.u, n), n) \in 1..n
  BY <1>1, PrimeroCorrecto
<1>3. \A x : [j \in 1..n |-> v.u[j] /\ Lejos(v.i, j, n) > x] \in [1..n -> BOOLEAN]
  OBVIOUS
<1>. QED  BY <1>1, <1>2, <1>3 DEF Final

\* The loop of obtenerPaginaClock.
LEMMA ClockEcuacion ==
    ASSUME NEW n \in Nat \ {0}
    PROVE  ClockDesde(n) =
             [v \in Recorridos(n) |-> IF v.u[v.i] THEN ClockDesde(n)[Avanza(v, n)]
                                                  ELSE [victima |-> v.i, u |-> v.u]]
<1>. DEFINE g == [v \in Recorridos(n) |-> Final(v, n)]
<1>1. ASSUME NEW v \in Recorridos(n)
      PROVE  g[v] = IF v.u[v.i] THEN g[Avanza(v, n)] ELSE [victima |-> v.i, u |-> v.u]
  BY AvanzaTipo, FinalAvanza, FinalQuieto
<1>2. g = [v \in Recorridos(n) |-> g[v]]
  OBVIOUS
<1>. HIDE DEF g
<1>3. g = [v \in Recorridos(n) |-> IF v.u[v.i] THEN g[Avanza(v, n)]
                                              ELSE [victima |-> v.i, u |-> v.u]]
  BY <1>1, <1>2
<1>. QED  BY <1>3 DEF ClockDesde

LEMMA ClockFinal ==
    ASSUME NEW n \in Nat \ {0}, NEW v \in Recorridos(n)
    PROVE  ClockDesde(n)[v] = Final(v, n)
<1>. DEFINE EnUso(x) == {j \in 1..n : x.u[j]}
            M == {x \in Recorridos(n) : ClockDesde(n)[x] # Final(x, n)}
            B == {Cardinality(EnUso(x)) : x \in M}
<1>0. ASSUME NEW x \in Recorridos(n)
      PROVE  IsFiniteSet(EnUso(x)) /\ Cardinality(EnUso(x)) \in Nat
  <2>1. IsFiniteSet(EnUso(x))
    BY FS_Interval, FS_Subset
  <2>. QED  BY <2>1, FS_CardinalityType
<1>1. SUFFICES ASSUME M # {}
               PROVE  FALSE
  OBVIOUS
<1>2. B \in SUBSET Nat /\ B # {}
  BY <1>0, <1>1
<1>3. PICK x \in M : \A y \in M : Cardinality(EnUso(x)) <= Cardinality(EnUso(y))
  <2>1. Menor(B) \in B /\ \A b \in B : Menor(B) <= b
    BY <1>2, MenorNat
  <2>. QED  BY <2>1
<1>4. x \in Recorridos(n) /\ x.i \in 1..n /\ x.u \in [1..n -> BOOLEAN]
  BY DEF Recorridos
<1>5. ClockDesde(n)[x] = IF x.u[x.i] THEN ClockDesde(n)[Avanza(x, n)]
                                    ELSE [victima |-> x.i, u |-> x.u]
  BY <1>4, ClockEcuacion
<1>6. x.u[x.i]
  BY <1>3, <1>4, <1>5, FinalQuieto
<1>7. Avanza(x, n) \in M
  BY <1>3, <1>4, <1>5, <1>6, AvanzaTipo, FinalAvanza
<1>8. EnUso(Avanza(x, n)) = EnUso(x) \ {x.i} /\ x.i \in EnUso(x)
  BY <1>4, <1>6 DEF Avanza
<1>9. Cardinality(EnUso(Avanza(x, n))) = Cardinality(EnUso(x)) - 1
  <2>1. IsFiniteSet(EnUso(x))
    BY <1>0, <1>4
  <2>. HIDE DEF EnUso
  <2>. QED  BY <1>8, <2>1, FS_RemoveElement
<1>10. Cardinality(EnUso(x)) \in Nat /\ Cardinality(EnUso(x)) <= Cardinality(EnUso(Avanza(x, n)))
  BY <1>0, <1>3, <1>4, <1>7
<1>. HIDE DEF EnUso
<1>. QED  BY <1>9, <1>10

-----------------------------------------------------------------------------
(* Lists of pages.                                                         *)

\* What paginasEnMemoria gives when there is a page to replace.
ListaOK(s) ==
    /\ Len(s) \in Nat \ {0} /\ DOMAIN s = 1..Len(s)
    /\ \A i \in 1..Len(s) : {s[i].u, s[i].m, s[i].puntero} \subseteq BOOLEAN

Manos(s) == {i \in DOMAIN s : s[i].puntero}

LEMMA AgujaCorrecta ==
    ASSUME NEW s, ListaOK(s)
    PROVE  /\ Aguja(s) \in 1..Len(s)
           /\ Manos(s) # {} => Aguja(s) \in Manos(s)
<1>1. Manos(s) \in SUBSET Nat /\ Manos(s) \subseteq 1..Len(s)
  BY DEF ListaOK, Manos
<1>2. Manos(s) # {} => Menor(Manos(s)) \in Manos(s)
  BY <1>1, MenorNat
<1>3. Aguja(s) = IF Manos(s) = {} THEN 1 ELSE Menor(Manos(s))
  BY DEF Aguja, Manos
<1>4. 1 \in 1..Len(s)
  BY DEF ListaOK
<1>. QED  BY <1>1, <1>2, <1>3, <1>4

LEMMA BitsUTipo ==
    ASSUME NEW s, ListaOK(s)
    PROVE  BitsU(s) \in [1..Len(s) -> BOOLEAN] /\ \A i \in 1..Len(s) : BitsU(s)[i] = s[i].u
BY DEF BitsU, ListaOK

\* CLOCK takes the first page not used from the hand, and the one of the hand if
\* all are; who was passed loses the bit u.
LEMMA ClockCorrecto ==
    ASSUME NEW s, ListaOK(s), NEW k, k = Aguja(s), NEW v, v = Clock(s).victima
    PROVE  /\ v \in 1..Len(s) /\ Clock(s).u \in [1..Len(s) -> BOOLEAN]
           /\ \A i \in 1..Len(s) \ {v} :
                \/ ~ s[v].u /\ s[i].u
                \/ (s[v].u <=> s[i].u) /\ Lejos(k, v, Len(s)) < Lejos(k, i, Len(s))
           /\ \A i \in 1..Len(s) :
                Clock(s).u[i] <=> s[i].u /\ ~ s[v].u /\ Lejos(k, i, Len(s)) > Lejos(k, v, Len(s))
<1>. DEFINE n == Len(s)
            x == [u |-> BitsU(s), i |-> Aguja(s)]
            S == SinUso(BitsU(s), n)
<1>1. n \in Nat \ {0} /\ k \in 1..n /\ BitsU(s) \in [1..n -> BOOLEAN]
      /\ \A i \in 1..n : BitsU(s)[i] = s[i].u
  BY AgujaCorrecta, BitsUTipo DEF ListaOK
<1>2. x \in Recorridos(n) /\ x.u = BitsU(s) /\ x.i = k
  BY <1>1 DEF Recorridos
<1>3. Clock(s) = Final(x, n)
  BY <1>1, <1>2, ClockFinal DEF Clock
<1>4. v \in 1..n /\ Clock(s).u \in [1..n -> BOOLEAN]
  BY <1>1, <1>2, <1>3, FinalTipo
<1>5. \A i \in 1..n : i \in S <=> ~ s[i].u
  BY <1>1 DEF SinUso
<1>6. \A i \in 1..n : Lejos(k, i, n) \in Nat /\ (i # v => Lejos(k, i, n) # Lejos(k, v, n))
  <2>1. n \in Nat \ {0} /\ k \in 1..n /\ v \in 1..n
    BY <1>1, <1>4
  <2>. HIDE DEF n
  <2>2. ASSUME NEW i \in 1..n
        PROVE  Lejos(k, i, n) \in Nat
    <3>1. Lejos(k, i, n) \in 0..(n - 1)
      BY <2>1, Vuelta
    <3>. QED  BY <2>1, <3>1
  <2>3. ASSUME NEW i \in 1..n, i # v
        PROVE  Lejos(k, i, n) # Lejos(k, v, n)
    BY <2>1, <2>3, Distintos
  <2>. QED  BY <2>2, <2>3
<1>7. S \in SUBSET (1..n)
  BY DEF SinUso
<1>8. Final(x, n) = IF S = {} THEN [victima |-> k, u |-> [j \in 1..n |-> FALSE]]
                    ELSE [victima |-> PrimeroDesde(k, S, n),
                          u |-> [j \in 1..n |-> BitsU(s)[j] /\ Lejos(k, j, n) > Lejos(k, PrimeroDesde(k, S, n), n)]]
  BY <1>2 DEF Final
<1>. HIDE DEF n, x, S
<1>9. CASE S = {}
  <2>1. v = k /\ Clock(s).u = [j \in 1..n |-> FALSE]
    BY <1>3, <1>8, <1>9
  <2>2. \A i \in 1..n : s[i].u
    BY <1>5, <1>9
  <2>3. Lejos(k, v, n) = 0
    BY <1>1, <2>1, Vuelta
  <2>. QED  BY <1>4, <1>6, <2>1, <2>2, <2>3 DEF n
<1>10. CASE S # {}
  <2>1. v = PrimeroDesde(k, S, n) /\ \A j \in 1..n : Clock(s).u[j] = (BitsU(s)[j] /\ Lejos(k, j, n) > Lejos(k, v, n))
    <3>1. Clock(s) = [victima |-> PrimeroDesde(k, S, n),
                      u |-> [j \in 1..n |-> BitsU(s)[j] /\ Lejos(k, j, n) > Lejos(k, PrimeroDesde(k, S, n), n)]]
      BY <1>3, <1>8, <1>10
    <3>2. v = PrimeroDesde(k, S, n)
      BY <3>1
    <3>3. Clock(s).u = [j \in 1..n |-> BitsU(s)[j] /\ Lejos(k, j, n) > Lejos(k, v, n)]
      BY <3>1, <3>2
    <3>. QED  BY <3>2, <3>3
  <2>2. v \in S /\ \A j \in S : Lejos(k, v, n) <= Lejos(k, j, n)
    BY <1>1, <1>7, <1>10, <2>1, PrimeroCorrecto
  <2>3. ~ s[v].u
    BY <1>4, <1>5, <2>2
  <2>4. ASSUME NEW i \in 1..n \ {v}, ~ s[i].u
        PROVE  Lejos(k, v, n) < Lejos(k, i, n)
    BY <1>4, <1>5, <1>6, <2>2, <2>4
  <2>5. \A i \in 1..n : s[i].u \in BOOLEAN
    BY DEF ListaOK, n
  <2>. QED  BY <1>1, <1>4, <2>1, <2>3, <2>4, <2>5 DEF n
<1>. QED  BY <1>9, <1>10

-----------------------------------------------------------------------------
(* CLOCK-M.                                                                *)

Limpias(s, u) == {i \in 1..Len(s) : ~ u[i] /\ ~ s[i].m}

LEMMA LimpiaCorrecta ==
    ASSUME NEW s, ListaOK(s), NEW u, NEW k, k = Aguja(s)
    PROVE  /\ Limpia(s, u) = 0 <=> Limpias(s, u) = {}
           /\ Limpias(s, u) # {} => Limpia(s, u) \in Limpias(s, u) /\ \A j \in Limpias(s, u) :
                Lejos(k, Limpia(s, u), Len(s)) <= Lejos(k, j, Len(s))
<1>1. Limpias(s, u) \in SUBSET (1..Len(s)) /\ k \in 1..Len(s) /\ Len(s) \in Nat \ {0}
      /\ Limpia(s, u) = PrimeroDesde(k, Limpias(s, u), Len(s))
  BY AgujaCorrecta DEF ListaOK, Limpia, Limpias
<1>. QED  BY <1>1, PrimeroCorrecto

LEMMA LibreCorrecta ==
    ASSUME NEW s, ListaOK(s), NEW u, NEW k, k = Aguja(s)
    PROVE  LET S == SinUso(u, Len(s)) IN
           /\ Libre(s, u) = 0 <=> S = {}
           /\ S # {} => Libre(s, u) \in S /\ \A j \in S :
                Lejos(k, Libre(s, u), Len(s)) <= Lejos(k, j, Len(s))
<1>1. SinUso(u, Len(s)) \in SUBSET (1..Len(s)) /\ k \in 1..Len(s) /\ Len(s) \in Nat \ {0}
      /\ Libre(s, u) = PrimeroDesde(k, SinUso(u, Len(s)), Len(s))
  BY AgujaCorrecta DEF ListaOK, Libre, SinUso
<1>. QED  BY <1>1, PrimeroCorrecto

LEMMA BajadoCorrecto ==
    ASSUME NEW s, ListaOK(s), NEW u \in [1..Len(s) -> BOOLEAN], NEW k, k = Aguja(s)
    PROVE  /\ Bajado(s, u) \in [1..Len(s) -> BOOLEAN]
           /\ SinUso(u, Len(s)) = {} => \A j \in 1..Len(s) : ~ Bajado(s, u)[j]
           /\ SinUso(u, Len(s)) # {} => \A j \in 1..Len(s) :
                Bajado(s, u)[j] <=> u[j] /\ Lejos(k, j, Len(s)) > Lejos(k, Libre(s, u), Len(s))
<1>. DEFINE n == Len(s)
            w == Libre(s, u)
            antes == {Desde(k, d, n) : d \in {e \in 0..(n - 1) : \A f \in 0..e : Desde(k, f, n) # w}}
<1>1. n \in Nat \ {0} /\ k \in 1..n
  BY AgujaCorrecta DEF ListaOK
<1>2. Bajado(s, u) = [i \in 1..n |-> u[i] /\ i \notin antes]
  BY DEF Bajado
<1>0. u \in [1..n -> BOOLEAN]
  OBVIOUS
<1>. HIDE DEF n, w, antes
<1>3. Bajado(s, u) \in [1..n -> BOOLEAN] /\ \A j \in 1..n : Bajado(s, u)[j] = (u[j] /\ j \notin antes)
  BY <1>0, <1>2
<1>4. ASSUME SinUso(u, n) = {}, NEW j \in 1..n
      PROVE  ~ Bajado(s, u)[j]
  <2>1. w = 0
    BY <1>4, LibreCorrecta DEF n, w
  <2>2. Lejos(k, j, n) \in 0..(n - 1) /\ Desde(k, Lejos(k, j, n), n) = j
    BY <1>1, Vuelta
  <2>3. \A f \in 0..Lejos(k, j, n) : f \in 0..(n - 1)
    BY <1>1, <2>2
  <2>4. \A f \in 0..Lejos(k, j, n) : Desde(k, f, n) # w
    BY <1>1, <2>1, <2>3, Vuelta
  <2>5. j \in antes
    BY <2>2, <2>4 DEF antes
  <2>. QED  BY <1>3, <2>5
<1>5. ASSUME SinUso(u, n) # {}, NEW j \in 1..n
      PROVE  Bajado(s, u)[j] <=> u[j] /\ Lejos(k, j, n) > Lejos(k, w, n)
  <2>1. w \in 1..n /\ ~ u[w]
    BY <1>5, LibreCorrecta DEF n, w, SinUso
  <2>2. /\ Lejos(k, j, n) \in 0..(n - 1) /\ Desde(k, Lejos(k, j, n), n) = j
        /\ Lejos(k, w, n) \in 0..(n - 1) /\ Desde(k, Lejos(k, w, n), n) = w
    BY <1>1, <2>1, Vuelta
  <2>3. CASE Lejos(k, j, n) < Lejos(k, w, n)
    <3>1. \A f \in 0..Lejos(k, j, n) : f \in 0..(n - 1) /\ f # Lejos(k, w, n)
      BY <1>1, <2>2, <2>3
    <3>2. \A f \in 0..Lejos(k, j, n) : Desde(k, f, n) # w
      BY <1>1, <3>1, Vuelta
    <3>3. j \in antes
      BY <2>2, <3>2 DEF antes
    <3>4. ~ Bajado(s, u)[j]
      BY <1>3, <3>3
    <3>. QED  BY <2>2, <2>3, <3>4
  <2>4. CASE Lejos(k, j, n) >= Lejos(k, w, n)
    <3>1. j \notin antes
      <4>1. SUFFICES ASSUME NEW d \in 0..(n - 1), \A f \in 0..d : Desde(k, f, n) # w, j = Desde(k, d, n)
                     PROVE  FALSE
        BY DEF antes
      <4>2. d = Lejos(k, j, n)
        BY <1>1, <4>1, Vuelta
      <4>3. Lejos(k, w, n) \in 0..d
        BY <2>2, <2>4, <4>2
      <4>. QED  BY <2>2, <4>1, <4>3
    <3>2. Bajado(s, u)[j] = u[j]
      BY <1>0, <1>3, <3>1
    <3>3. CASE j = w
      BY <2>1, <2>2, <3>2, <3>3
    <3>4. CASE j # w
      <4>1. Lejos(k, j, n) # Lejos(k, w, n)
        BY <1>1, <2>1, <3>4, Distintos
      <4>. QED  BY <2>2, <2>4, <3>2, <4>1
    <3>. QED  BY <3>3, <3>4
  <2>. QED  BY <2>2, <2>3, <2>4
<1>. QED  BY <1>3, <1>4, <1>5 DEF n, w

\* One half round over the bits u, and what there is after it if it finds no page.
Intento(s, u, otro) ==
    IF Limpia(s, u) # 0 THEN [victima |-> Limpia(s, u), u |-> u]
    ELSE IF Libre(s, u) # 0 THEN [victima |-> Libre(s, u), u |-> Bajado(s, u)]
    ELSE otro

FinalM(s, u) == Intento(s, u, Intento(s, Bajado(s, u), 0))

\* When all are used, the second round finds a page.
LEMMA SegundaVuelta ==
    ASSUME NEW s, ListaOK(s), NEW u \in [1..Len(s) -> BOOLEAN], Libre(s, u) = 0
    PROVE  Libre(s, Bajado(s, u)) # 0
<1>1. SinUso(u, Len(s)) = {}
  BY LibreCorrecta
<1>2. \A j \in 1..Len(s) : ~ Bajado(s, u)[j]
  BY <1>1, BajadoCorrecto
<1>3. 1 \in SinUso(Bajado(s, u), Len(s))
  BY <1>2 DEF SinUso, ListaOK
<1>. QED  BY <1>3, LibreCorrecta

\* The loop of obtenerPaginaClockM.
LEMMA PasadasEcuacion ==
    ASSUME NEW s, ListaOK(s)
    PROVE  Pasadas(s) = [u \in [1..Len(s) -> BOOLEAN] |-> Intento(s, u, Pasadas(s)[Bajado(s, u)])]
<1>. DEFINE T == [1..Len(s) -> BOOLEAN]
            g == [u \in T |-> FinalM(s, u)]
<1>1. ASSUME NEW u \in T
      PROVE  g[u] = Intento(s, u, g[Bajado(s, u)])
  <2>1. Bajado(s, u) \in T
    BY BajadoCorrecto
  <2>2. g[u] = FinalM(s, u) /\ g[Bajado(s, u)] = FinalM(s, Bajado(s, u))
    BY <2>1
  <2>3. CASE Libre(s, u) # 0
    BY <2>2, <2>3 DEF FinalM, Intento
  <2>4. CASE Libre(s, u) = 0
    <3>1. Libre(s, Bajado(s, u)) # 0
      BY <2>4, SegundaVuelta
    <3>. QED  BY <2>2, <3>1 DEF FinalM, Intento
  <2>. QED  BY <2>3, <2>4
<1>2. g = [u \in T |-> g[u]]
  OBVIOUS
<1>. HIDE DEF g
<1>3. g = [u \in T |-> IF Limpia(s, u) # 0 THEN [victima |-> Limpia(s, u), u |-> u]
                       ELSE IF Libre(s, u) # 0 THEN [victima |-> Libre(s, u), u |-> Bajado(s, u)]
                       ELSE g[Bajado(s, u)]]
  BY <1>1, <1>2 DEF Intento
<1>. QED  BY <1>3 DEF Pasadas, Intento

LEMMA PasadasFinal ==
    ASSUME NEW s, ListaOK(s), NEW u \in [1..Len(s) -> BOOLEAN]
    PROVE  Pasadas(s)[u] = FinalM(s, u)
<1>1. Bajado(s, u) \in [1..Len(s) -> BOOLEAN]
  BY BajadoCorrecto
<1>2. /\ Pasadas(s)[u] = Intento(s, u, Pasadas(s)[Bajado(s, u)])
      /\ Pasadas(s)[Bajado(s, u)]
           = Intento(s, Bajado(s, u), Pasadas(s)[Bajado(s, Bajado(s, u))])
  BY <1>1, PasadasEcuacion
<1>3. Libre(s, u) = 0 => Libre(s, Bajado(s, u)) # 0
  BY SegundaVuelta
<1>. QED  BY <1>2, <1>3 DEF FinalM, Intento

\* Page v is to be replaced before page i: it is not used and i is; both alike, it
\* is not modified and i is; alike in both, the hand reaches it first.
AntesM(s, v, i) ==
    \/ ~ s[v].u /\ s[i].u
    \/ (s[v].u <=> s[i].u) /\ ~ s[v].m /\ s[i].m
    \/ /\ s[v].u <=> s[i].u
       /\ s[v].m <=> s[i].m
       /\ Lejos(Aguja(s), v, Len(s)) < Lejos(Aguja(s), i, Len(s))

\* CLOCK-M takes the best page in that order, whatever the bits; the bits u are
\* lost by all, if all were used, or by who was passed looking for a page not
\* used when all of those were modified.
LEMMA ClockMCorrecto ==
    ASSUME NEW s, ListaOK(s), NEW v, v = ClockM(s).victima
    PROVE  /\ v \in 1..Len(s) /\ ClockM(s).u \in [1..Len(s) -> BOOLEAN]
           /\ \A i \in 1..Len(s) \ {v} : AntesM(s, v, i)
           /\ \A i \in 1..Len(s) :
                ClockM(s).u[i] <=>
                  /\ s[i].u /\ ~ s[v].u
                  /\ s[v].m => Lejos(Aguja(s), i, Len(s)) > Lejos(Aguja(s), v, Len(s))
<1>. DEFINE n == Len(s)
            k == Aguja(s)
            b == BitsU(s)
            c == Bajado(s, b)
            L(i) == Lejos(k, i, n)
<1>1. n \in Nat \ {0} /\ k \in 1..n /\ b \in [1..n -> BOOLEAN]
      /\ \A i \in 1..n : b[i] = s[i].u /\ s[i].u \in BOOLEAN /\ s[i].m \in BOOLEAN
  BY AgujaCorrecta, BitsUTipo DEF ListaOK
<1>2. ClockM(s) = Intento(s, b, Intento(s, c, 0))
  BY <1>1, PasadasFinal DEF ClockM, FinalM
<1>3. ASSUME NEW i \in 1..n
      PROVE  L(i) \in Nat
  <2>1. L(i) \in 0..(n - 1)
    BY <1>1, Vuelta
  <2>. QED  BY <1>1, <2>1
<1>4. ASSUME NEW i \in 1..n, NEW j \in 1..n, i # j
      PROVE  L(i) # L(j)
  BY <1>1, <1>4, Distintos
<1>5. c \in [1..n -> BOOLEAN]
  BY <1>1, BajadoCorrecto
<1>6. \A u : /\ Limpia(s, u) = 0 <=> Limpias(s, u) = {}
             /\ Limpias(s, u) # {} => Limpia(s, u) \in Limpias(s, u) /\ \A j \in Limpias(s, u) :
                  L(Limpia(s, u)) <= L(j)
  BY LimpiaCorrecta
<1>7. \A u : /\ Libre(s, u) = 0 <=> SinUso(u, n) = {}
             /\ SinUso(u, n) # {} => Libre(s, u) \in SinUso(u, n) /\ \A j \in SinUso(u, n) :
                  L(Libre(s, u)) <= L(j)
  BY LibreCorrecta
<1>8. \A u, j : /\ j \in Limpias(s, u) <=> j \in 1..n /\ ~ u[j] /\ ~ s[j].m
                /\ j \in SinUso(u, n) <=> j \in 1..n /\ ~ u[j]
  BY DEF Limpias, SinUso
<1>9. /\ SinUso(b, n) = {} => \A j \in 1..n : ~ c[j]
      /\ SinUso(b, n) # {} => \A j \in 1..n : c[j] <=> b[j] /\ L(j) > L(Libre(s, b))
  BY <1>1, BajadoCorrecto
<1>10. SinUso(c, n) # {} => \A j \in 1..n : Bajado(s, c)[j] <=> c[j] /\ L(j) > L(Libre(s, c))
  BY <1>5, BajadoCorrecto
<1>11. Bajado(s, c) \in [1..n -> BOOLEAN]
  BY <1>5, BajadoCorrecto
<1>12. ASSUME NEW S \in SUBSET (1..n), NEW w \in S, \A j \in S : L(w) <= L(j), NEW i \in S, i # w
       PROVE  L(w) < L(i)
  <2>1. w \in 1..n /\ i \in 1..n
    OBVIOUS
  <2>2. L(w) # L(i) /\ L(w) \in Nat /\ L(i) \in Nat /\ L(w) <= L(i)
    BY <1>3, <1>4, <1>12, <2>1
  <2>. HIDE DEF L
  <2>. QED  BY <2>2
<1>13. \A i : AntesM(s, v, i) <=> \/ ~ s[v].u /\ s[i].u
                                  \/ (s[v].u <=> s[i].u) /\ ~ s[v].m /\ s[i].m
                                  \/ /\ s[v].u <=> s[i].u
                                     /\ s[v].m <=> s[i].m
                                     /\ L(v) < L(i)
  BY DEF AntesM
<1>14. \A u : Limpias(s, u) \in SUBSET (1..n) /\ SinUso(u, n) \in SUBSET (1..n)
  BY DEF Limpias, SinUso
<1>. HIDE DEF n, k, b, c, L
<1>15. CASE Limpias(s, b) # {}
  <2>1. v = Limpia(s, b) /\ ClockM(s).u = b
    BY <1>2, <1>6, <1>15 DEF Intento
  <2>2. v \in Limpias(s, b) /\ \A j \in Limpias(s, b) : L(v) <= L(j)
    BY <1>6, <1>15, <2>1
  <2>3. v \in 1..n /\ ~ s[v].u /\ ~ s[v].m
    BY <1>1, <1>8, <2>2
  <2>4. ASSUME NEW i \in 1..n \ {v}
        PROVE  AntesM(s, v, i)
    <3>1. CASE ~ s[i].u /\ ~ s[i].m
      <4>1. i \in Limpias(s, b) /\ i # v
        BY <1>1, <1>8, <3>1
      <4>2. L(v) < L(i)
        BY <1>12, <1>14, <2>2, <4>1
      <4>. QED  BY <1>13, <2>3, <3>1, <4>2
    <3>. QED  BY <1>1, <1>13, <2>3, <3>1
  <2>. QED  BY <1>1, <2>1, <2>3, <2>4 DEF n, k, L
<1>16. CASE Limpias(s, b) = {} /\ SinUso(b, n) # {}
  <2>1. v = Libre(s, b) /\ ClockM(s).u = c
    BY <1>2, <1>6, <1>7, <1>16 DEF Intento, c
  <2>2. v \in SinUso(b, n) /\ \A j \in SinUso(b, n) : L(v) <= L(j)
    BY <1>7, <1>16, <2>1
  <2>3. v \in 1..n /\ ~ s[v].u /\ s[v].m
    BY <1>1, <1>8, <1>16, <2>2
  <2>4. ASSUME NEW i \in 1..n \ {v}
        PROVE  AntesM(s, v, i)
    <3>1. CASE ~ s[i].u
      <4>1. i \in SinUso(b, n) /\ i # v /\ s[i].m
        BY <1>1, <1>8, <1>16, <3>1
      <4>2. L(v) < L(i)
        BY <1>12, <1>14, <2>2, <4>1
      <4>. QED  BY <1>13, <2>3, <3>1, <4>1, <4>2
    <3>. QED  BY <1>1, <1>13, <2>3, <3>1
  <2>5. \A i \in 1..n : ClockM(s).u[i] <=> s[i].u /\ L(i) > L(v)
    BY <1>1, <1>9, <1>16, <2>1
  <2>. QED  BY <1>5, <2>1, <2>3, <2>4, <2>5 DEF n, k, L
<1>17. CASE SinUso(b, n) = {}
  <2>1. \A i \in 1..n : s[i].u /\ ~ c[i]
    BY <1>1, <1>8, <1>9, <1>17
  <2>2. Limpias(s, b) = {}
    BY <1>1, <1>8, <2>1
  <2>3. ClockM(s) = Intento(s, c, 0)
    BY <1>2, <1>6, <1>7, <1>17, <2>2 DEF Intento
  <2>4. CASE Limpias(s, c) # {}
    <3>1. v = Limpia(s, c) /\ ClockM(s).u = c
      BY <1>6, <2>3, <2>4 DEF Intento
    <3>2. v \in Limpias(s, c) /\ \A j \in Limpias(s, c) : L(v) <= L(j)
      BY <1>6, <2>4, <3>1
    <3>3. v \in 1..n /\ ~ s[v].m
      BY <1>8, <3>2
    <3>4. ASSUME NEW i \in 1..n \ {v}
          PROVE  AntesM(s, v, i)
      <4>1. CASE ~ s[i].m
        <5>1. i \in Limpias(s, c) /\ i # v
          BY <1>8, <2>1, <4>1
        <5>2. L(v) < L(i)
          BY <1>12, <1>14, <3>2, <5>1
        <5>. QED  BY <1>13, <2>1, <3>3, <4>1, <5>2
      <4>. QED  BY <1>1, <1>13, <2>1, <3>3, <4>1
    <3>. QED  BY <1>5, <2>1, <3>1, <3>3, <3>4 DEF n, k, L
  <2>5. CASE Limpias(s, c) = {}
    <3>1. SinUso(c, n) # {}
      BY <1>1, <1>8, <2>1
    <3>2. v = Libre(s, c) /\ ClockM(s).u = Bajado(s, c)
      BY <1>6, <1>7, <2>3, <2>5, <3>1 DEF Intento
    <3>3. v \in SinUso(c, n) /\ \A j \in SinUso(c, n) : L(v) <= L(j)
      BY <1>7, <3>1, <3>2
    <3>4. v \in 1..n /\ \A i \in 1..n : s[i].m /\ i \in SinUso(c, n)
      BY <1>8, <2>1, <2>5, <3>3
    <3>5. ASSUME NEW i \in 1..n \ {v}
          PROVE  AntesM(s, v, i)
      <4>1. L(v) < L(i)
        BY <1>12, <1>14, <3>3, <3>4
      <4>. QED  BY <1>13, <2>1, <3>4, <4>1
    <3>6. \A i \in 1..n : ~ ClockM(s).u[i]
      BY <1>10, <2>1, <3>1, <3>2
    <3>. QED  BY <1>11, <2>1, <3>2, <3>4, <3>5, <3>6 DEF n, k, L
  <2>. QED  BY <2>4, <2>5
<1>. QED  BY <1>15, <1>16, <1>17

\* Either algorithm ends with a page of the list and bits for all of it.
LEMMA ElegirTipo ==
    ASSUME NEW s, ListaOK(s), NEW alg \in {"CLOCK", "CLOCK-M"}
    PROVE  /\ Elegir(alg, s).victima \in 1..Len(s)
           /\ Elegir(alg, s).u \in [1..Len(s) -> BOOLEAN]
<1>1. CASE alg = "CLOCK"
  BY <1>1, ClockCorrecto DEF Elegir
<1>2. CASE alg = "CLOCK-M"
  BY <1>2, ClockMCorrecto DEF Elegir
<1>. QED  BY <1>1, <1>2

-----------------------------------------------------------------------------
(* Orders.                                                                 *)

\* A total order on a finite set numbers it: as many come before an element as its
\* place says.
LEMMA Rangos ==
    ASSUME NEW S, IsFiniteSet(S), NEW R \in [S -> SUBSET S],
           \A x \in S : x \notin R[x],
           \A x, y \in S : x \in R[y] => R[x] \subseteq R[y],
           \A x, y \in S : x # y => x \in R[y] \/ y \in R[x]
    PROVE  /\ \A x \in S : Cardinality(R[x]) \in 0..(Cardinality(S) - 1)
           /\ \A x, y \in S : Cardinality(R[x]) = Cardinality(R[y]) => x = y
           /\ \A k \in 0..(Cardinality(S) - 1) : \E x \in S : Cardinality(R[x]) = k
<1>. DEFINE n == Cardinality(S)
            r(x) == Cardinality(R[x])
<1>1. n \in Nat
  BY FS_CardinalityType
<1>2. \A T \in SUBSET S : IsFiniteSet(T) /\ Cardinality(T) \in Nat
  BY FS_Subset, FS_CardinalityType
<1>3. ASSUME NEW x \in S, NEW T \in SUBSET S, NEW U \in SUBSET S, T \subseteq U \ {x}, x \in U
      PROVE  Cardinality(T) < Cardinality(U)
  <2>1. IsFiniteSet(U) /\ Cardinality(U) \in Nat /\ Cardinality(T) \in Nat
    BY <1>2
  <2>2. IsFiniteSet(U \ {x}) /\ Cardinality(U \ {x}) = Cardinality(U) - 1
    BY <1>3, <2>1, FS_RemoveElement
  <2>3. Cardinality(T) <= Cardinality(U \ {x})
    BY <1>3, <2>2, FS_Subset
  <2>. QED  BY <2>1, <2>2, <2>3
<1>4. \A x \in S : r(x) \in Nat /\ r(x) < n
  <2>. SUFFICES ASSUME NEW x \in S
                PROVE  r(x) \in Nat /\ r(x) < n
    OBVIOUS
  <2>1. R[x] \in SUBSET S /\ R[x] \subseteq S \ {x}
    OBVIOUS
  <2>. QED  BY <1>2, <1>3, <2>1
<1>5. \A x \in S, y \in S : x \in R[y] => r(x) < r(y)
  <2>. SUFFICES ASSUME NEW x \in S, NEW y \in S, x \in R[y]
                PROVE  r(x) < r(y)
    OBVIOUS
  <2>1. R[x] \subseteq R[y] \ {x} /\ R[x] \in SUBSET S /\ R[y] \in SUBSET S
    OBVIOUS
  <2>. QED  BY <1>3, <2>1
<1>6. \A x, y \in S : r(x) = r(y) => x = y
  <2>. SUFFICES ASSUME NEW x \in S, NEW y \in S, r(x) = r(y), x # y
                PROVE  FALSE
    OBVIOUS
  <2>1. r(x) < r(y) \/ r(y) < r(x)
    BY <1>5
  <2>2. r(x) \in Nat /\ r(y) \in Nat
    BY <1>4
  <2>. HIDE DEF r
  <2>. QED  BY <2>1, <2>2
<1>7. \A k \in 0..(n - 1) : \E x \in S : r(x) = k
  <2>. SUFFICES ASSUME NEW k \in 0..(n - 1), \A x \in S : r(x) # k
                PROVE  FALSE
    OBVIOUS
  <2>. DEFINE T == (0..(n - 1)) \ {k}
              f == [x \in S |-> r(x)]
  <2>1. f \in [S -> T]
    BY <1>1, <1>4
  <2>2. IsFiniteSet(0..(n - 1)) /\ Cardinality(0..(n - 1)) = n
    <3>1. 0 \in Int /\ n - 1 \in Int /\ ~ (0 > n - 1)
      BY <1>1
    <3>2. IsFiniteSet(0..(n - 1)) /\ Cardinality(0..(n - 1)) = (n - 1) - 0 + 1
      BY <3>1, FS_Interval
    <3>. HIDE DEF n
    <3>. QED  BY <1>1, <3>2
  <2>3. IsFiniteSet(T) /\ Cardinality(T) = n - 1
    BY <2>2, FS_RemoveElement
  <2>. HIDE DEF T, r
  <2>4. \E x, y \in S : x # y /\ f[x] = f[y]
    <3>1. Cardinality(T) < Cardinality(S)
      BY <1>1, <2>3
    <3>. HIDE DEF f
    <3>. QED  BY <2>1, <2>3, <3>1, FS_PigeonHole
  <2>. QED  BY <1>6, <2>4
<1>8. \A x \in S : r(x) \in 0..(n - 1)
  <2>. HIDE DEF r, n
  <2>. QED  BY <1>1, <1>4
<1>. QED  BY <1>6, <1>7, <1>8

=============================================================================
