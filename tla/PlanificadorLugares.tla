------------------------- MODULE PlanificadorLugares ------------------------
(***************************************************************************)
(* No process is lost and none is planned twice, for every set of          *)
(* processes, program and degree of multiprogramming.                      *)
(*                                                                         *)
(* The lists and the hands of the threads are zones (PlanificadorInv).  A  *)
(* step leaves the zones as they are, or takes one process from one zone   *)
(* to another, or brings in the process of a console that connects, or     *)
(* lets out the one whose console is told of the end.                      *)
(***************************************************************************)
EXTENDS PlanificadorCuentas

(* Lists without repetitions.                                              *)

\* u is s without its i-th element.
Falta(s, i, u) ==
    /\ Len(u) = Len(s) - 1
    /\ \A j \in 1..Len(u) : u[j] = IF j < i THEN s[j] ELSE s[j + 1]

LEMMA FaltaRango ==
    ASSUME NEW S, NEW s \in Seq(S), NEW u \in Seq(S), NEW i \in 1..Len(s), Falta(s, i, u),
           Inyectiva(s)
    PROVE  Inyectiva(u) /\ Rango(u) = Rango(s) \ {s[i]}
<1>0. Len(s) \in Nat /\ Len(u) = Len(s) - 1 /\ i \in Int
  BY LenProperties DEF Falta
<1>1. \A j \in 1..Len(u) : /\ j < i => j \in 1..Len(s) /\ u[j] = s[j]
                           /\ ~ (j < i) => j + 1 \in 1..Len(s) /\ u[j] = s[j + 1]
  BY <1>0 DEF Falta
<1>2. \A j, k \in 1..Len(s) : s[j] = s[k] => j = k
  BY DEF Inyectiva
<1>3. Inyectiva(u)
  <2>1. SUFFICES ASSUME NEW j \in 1..Len(u), NEW k \in 1..Len(u), u[j] = u[k]
                 PROVE  j = k
    BY DEF Inyectiva
  <2>. QED  BY <1>0, <1>1, <1>2, <2>1
<1>4. Rango(u) \subseteq Rango(s) \ {s[i]}
  <2>1. SUFFICES ASSUME NEW j \in 1..Len(u)
                 PROVE  u[j] \in Rango(s) /\ u[j] # s[i]
    BY DEF Rango
  <2>. QED  BY <1>0, <1>1, <1>2, <2>1 DEF Rango
<1>5. Rango(s) \ {s[i]} \subseteq Rango(u)
  <2>1. SUFFICES ASSUME NEW j \in 1..Len(s), s[j] # s[i]
                 PROVE  s[j] \in Rango(u)
    BY DEF Rango
  <2>2. CASE j < i
    <3>1. j \in 1..Len(u) /\ u[j] = s[j]
      BY <1>0, <1>1, <2>2
    <3>. QED  BY <3>1 DEF Rango
  <2>3. CASE ~ (j < i)
    <3>1. j - 1 \in 1..Len(u) /\ ~ (j - 1 < i) /\ (j - 1) + 1 = j
      BY <1>0, <2>1, <2>3
    <3>2. u[j - 1] = s[j]
      BY <1>1, <3>1
    <3>. QED  BY <3>1, <3>2 DEF Rango
  <2>. QED  BY <2>2, <2>3
<1>. QED  BY <1>3, <1>4, <1>5

\* list_remove of the i-th, of the first and of the last element of a list.
LEMMA QuitarFalta ==
    ASSUME NEW S, NEW s \in Seq(S), NEW i \in 1..Len(s)
    PROVE  Quitar(s, i) \in Seq(S) /\ Falta(s, i, Quitar(s, i))
<1>. DEFINE a == SubSeq(s, 1, i - 1)
            b == SubSeq(s, i + 1, Len(s))
<1>0. Len(s) \in Nat /\ i \in Int /\ 1 <= i /\ i <= Len(s) /\ \A j \in 1..Len(s) : s[j] \in S
  BY LenProperties, ElementOfSeq
<1>1. a \in Seq(S) /\ Len(a) = i - 1 /\ \A j \in 1..(i - 1) : a[j] = s[j]
  <2>1. \A j \in 1..(i - 1) : s[j] \in S
    BY <1>0
  <2>2. \A j \in 1..(i - 1) - 1 + 1 : a[j] = s[1 + j - 1]
    BY <1>0, <2>1, SubSeqProperties
  <2>. QED  BY <1>0, <2>1, <2>2, SubSeqProperties
<1>2. b \in Seq(S) /\ Len(b) = Len(s) - i /\ \A j \in 1..(Len(s) - i) : b[j] = s[i + j]
  <2>1. \A j \in (i + 1)..Len(s) : s[j] \in S
    BY <1>0
  <2>2. \A j \in 1..Len(s) - (i + 1) + 1 : b[j] = s[(i + 1) + j - 1]
    BY <1>0, <2>1, SubSeqProperties
  <2>. QED  BY <1>0, <2>1, <2>2, SubSeqProperties
<1>. HIDE DEF a, b
<1>3. /\ a \o b \in Seq(S) /\ Len(a \o b) = Len(s) - 1
      /\ \A j \in 1..Len(s) - 1 :
           (a \o b)[j] = IF j <= i - 1 THEN a[j] ELSE b[j - (i - 1)]
  <2>1. /\ a \o b \in Seq(S) /\ Len(a \o b) = Len(a) + Len(b)
        /\ \A j \in 1..Len(a) + Len(b) :
             (a \o b)[j] = IF j <= Len(a) THEN a[j] ELSE b[j - Len(a)]
    BY <1>1, <1>2, ConcatProperties
  <2>2. Len(a) + Len(b) = Len(s) - 1
    BY <1>0, <1>1, <1>2
  <2>. QED  BY <1>1, <2>1, <2>2
<1>4. \A j \in 1..Len(s) - 1 : (a \o b)[j] = IF j < i THEN s[j] ELSE s[j + 1]
  <2>1. SUFFICES ASSUME NEW j \in 1..Len(s) - 1
                 PROVE  (a \o b)[j] = IF j < i THEN s[j] ELSE s[j + 1]
    OBVIOUS
  <2>2. CASE j < i
    BY <1>0, <1>1, <1>3, <2>2
  <2>3. CASE ~ (j < i)
    <3>1. j - (i - 1) \in 1..(Len(s) - i) /\ i + (j - (i - 1)) = j + 1 /\ ~ (j <= i - 1)
      BY <1>0, <2>3
    <3>. QED  BY <1>2, <1>3, <2>3, <3>1
  <2>. QED  BY <2>2, <2>3
<1>5. Quitar(s, i) = a \o b
  BY DEF Quitar, a, b
<1>. QED  BY <1>3, <1>4, <1>5 DEF Falta

LEMMA TailFalta ==
    ASSUME NEW S, NEW s \in Seq(S), s # <<>>
    PROVE  Tail(s) \in Seq(S) /\ Falta(s, 1, Tail(s)) /\ 1 \in 1..Len(s) /\ Head(s) = s[1]
<1>1. Len(s) \in Nat \ {0}
  BY EmptySeq
<1>. QED  BY <1>1, HeadTailProperties DEF Falta

LEMMA UltimoFalta ==
    ASSUME NEW S, NEW s \in Seq(S), s # <<>>
    PROVE  /\ SubSeq(s, 1, Len(s) - 1) \in Seq(S)
           /\ Falta(s, Len(s), SubSeq(s, 1, Len(s) - 1))
           /\ Len(s) \in 1..Len(s)
<1>. DEFINE u == SubSeq(s, 1, Len(s) - 1)
<1>0. Len(s) \in Nat /\ Len(s) >= 1
  BY EmptySeq
<1>1. \A j \in 1..Len(s) - 1 : s[j] \in S
  BY <1>0, ElementOfSeq
<1>2. \A j \in 1..(Len(s) - 1) - 1 + 1 : u[j] = s[1 + j - 1]
  BY <1>0, <1>1, SubSeqProperties
<1>3. u \in Seq(S)
  BY <1>0, <1>1, SubSeqProperties
<1>4. Len(u) = IF 1 <= Len(s) - 1 THEN (Len(s) - 1) - 1 + 1 ELSE 0
  BY <1>0, <1>1, SubSeqProperties
<1>. HIDE DEF u
<1>5. Len(u) = Len(s) - 1
  <2>1. \A n \in Nat : n >= 1 => (IF 1 <= n - 1 THEN (n - 1) - 1 + 1 ELSE 0) = n - 1
    OBVIOUS
  <2>. QED  BY <1>0, <1>4, <2>1
<1>6. \A j \in 1..Len(u) : j \in 1..(Len(s) - 1) - 1 + 1 /\ 1 + j - 1 = j /\ j < Len(s)
  BY <1>0, <1>5
<1>7. Falta(s, Len(s), u)
  BY <1>2, <1>5, <1>6 DEF Falta
<1>. QED  BY <1>0, <1>3, <1>7 DEF u

LEMMA AppendRango ==
    ASSUME NEW S, NEW s \in Seq(S), NEW p \in S
    PROVE  /\ Rango(Append(s, p)) = Rango(s) \cup {p}
           /\ Inyectiva(s) /\ p \notin Rango(s) => Inyectiva(Append(s, p))
<1>. DEFINE u == Append(s, p)
<1>1. /\ Len(s) \in Nat /\ Len(u) = Len(s) + 1 /\ u[Len(s) + 1] = p
      /\ \A i \in 1..Len(s) : u[i] = s[i]
  BY AppendProperties, LenProperties
<1>. HIDE DEF u
<1>2. Rango(u) = Rango(s) \cup {p}
  <2>1. ASSUME NEW i \in 1..Len(u)
        PROVE  u[i] \in Rango(s) \cup {p}
    <3>1. i \in 1..Len(s) \/ i = Len(s) + 1
      BY <1>1
    <3>. QED  BY <1>1, <3>1 DEF Rango
  <2>2. ASSUME NEW i \in 1..Len(s)
        PROVE  i \in 1..Len(u) /\ u[i] = s[i]
    BY <1>1
  <2>3. Len(s) + 1 \in 1..Len(u)
    BY <1>1
  <2>. QED  BY <1>1, <2>1, <2>2, <2>3 DEF Rango
<1>3. ASSUME Inyectiva(s), p \notin Rango(s)
      PROVE  Inyectiva(u)
  <2>1. SUFFICES ASSUME NEW i \in 1..Len(u), NEW j \in 1..Len(u), u[i] = u[j]
                 PROVE  i = j
    BY DEF Inyectiva
  <2>2. \A k \in 1..Len(u) : k \in 1..Len(s) \/ k = Len(s) + 1
    BY <1>1
  <2>3. \A k \in 1..Len(s) : u[k] \in Rango(s) /\ u[k] # p
    BY <1>1, <1>3 DEF Rango
  <2>4. CASE i \in 1..Len(s) /\ j \in 1..Len(s)
    BY <1>1, <1>3, <2>1, <2>4 DEF Inyectiva
  <2>. QED  BY <1>1, <2>1, <2>2, <2>3, <2>4
<1>. QED  BY <1>2, <1>3 DEF u

-----------------------------------------------------------------------------
(* Zones.                                                                  *)

\* Process p goes from zone a to zone b.
Muda(r, u, p, a, b) ==
    /\ p \in r[a]
    /\ u[a] = r[a] \ {p} /\ u[b] = r[b] \cup {p}
    /\ \A z \in Zonas \ {a, b} : u[z] = r[z]

LEMMA MudaZonas ==
    ASSUME NEW r, NEW u, NEW p, NEW a \in Zonas, NEW b \in Zonas, a # b, Disjuntas(r),
           Muda(r, u, p, a, b)
    PROVE  Disjuntas(u) /\ Juntas(u) = Juntas(r)
<1>1. \A z \in Zonas \ {a} : p \notin r[z]
  BY DEF Disjuntas, Muda
<1>2. Disjuntas(u)
  <2>1. SUFFICES ASSUME NEW y \in Zonas, NEW z \in Zonas, y # z, NEW q \in u[y], q \in u[z]
                 PROVE  FALSE
    BY DEF Disjuntas
  <2>2. \A x \in Zonas : q \in u[x] /\ q # p => q \in r[x]
    BY DEF Muda
  <2>3. \A x \in Zonas : p \in u[x] => x = b
    BY <1>1 DEF Muda
  <2>. QED  BY <2>1, <2>2, <2>3 DEF Disjuntas
<1>3. Juntas(u) = Juntas(r)
  <2>1. ASSUME NEW q, NEW z \in Zonas, q \in u[z]
        PROVE  \E y \in Zonas : q \in r[y]
    BY <2>1 DEF Muda
  <2>2. ASSUME NEW q, NEW z \in Zonas, q \in r[z]
        PROVE  \E y \in Zonas : q \in u[y]
    BY <2>2 DEF Muda
  <2>. QED  BY <2>1, <2>2 DEF Juntas
<1>. QED  BY <1>2, <1>3

LEMMA EntraZonas ==
    ASSUME NEW r, NEW u, NEW p, NEW b \in Zonas, Disjuntas(r), p \notin Juntas(r),
           u[b] = r[b] \cup {p}, \A z \in Zonas : z # b => u[z] = r[z]
    PROVE  Disjuntas(u) /\ \A q : q \in Juntas(u) <=> q \in Juntas(r) \/ q = p
<1>1. \A z \in Zonas : p \notin r[z]
  BY DEF Juntas
<1>2. Disjuntas(u)
  BY <1>1 DEF Disjuntas
<1>3. \A q : q \in Juntas(u) <=> q \in Juntas(r) \/ q = p
  <2>1. ASSUME NEW q, NEW z \in Zonas, q \in u[z]
        PROVE  q = p \/ \E y \in Zonas : q \in r[y]
    BY <2>1
  <2>2. ASSUME NEW q, NEW z \in Zonas, q \in r[z]
        PROVE  \E y \in Zonas : q \in u[y]
    BY <2>2
  <2>. QED  BY <2>1, <2>2 DEF Juntas
<1>. QED  BY <1>2, <1>3

LEMMA SaleZonas ==
    ASSUME NEW r, NEW u, NEW p, NEW a \in Zonas, Disjuntas(r), p \in r[a],
           u[a] = r[a] \ {p}, \A z \in Zonas \ {a} : u[z] = r[z]
    PROVE  Disjuntas(u) /\ Juntas(u) = Juntas(r) \ {p}
<1>1. \A z \in Zonas \ {a} : p \notin r[z]
  BY DEF Disjuntas
<1>2. Disjuntas(u)
  BY DEF Disjuntas
<1>3. Juntas(u) = Juntas(r) \ {p}
  <2>1. ASSUME NEW q, NEW z \in Zonas, q \in u[z]
        PROVE  q # p /\ q \in r[z]
    BY <1>1, <2>1
  <2>2. ASSUME NEW q, NEW z \in Zonas, q \in r[z], q # p
        PROVE  q \in u[z]
    BY <2>2
  <2>. QED  BY <2>1, <2>2 DEF Juntas
<1>. QED  BY <1>2, <1>3

LEMMA Zona ==
    /\ \A c \in Colas : <<"cola", c>> \in Zonas
    /\ \A t \in Hilos : <<"mano", t>> \in Zonas
    /\ \A z \in Zonas : \/ \E c \in Colas : z = <<"cola", c>>
                        \/ \E t \in Hilos : z = <<"mano", t>>
BY DEF Zonas

LEMMA ZonaReparto ==
    /\ \A c \in Colas : /\ Reparto[<<"cola", c>>] = Rango(Vista(c))
                        /\ Reparto'[<<"cola", c>>] = Rango(Vista(c)')
    /\ \A t \in Hilos : /\ Reparto[<<"mano", t>>] = Mano(t)
                        /\ Reparto'[<<"mano", t>>] = Mano(t)'
<1>1. \A c \in Colas : /\ Reparto[<<"cola", c>>] = Rango(Vista(c))
                      /\ Reparto'[<<"cola", c>>] = Rango(Vista(c)')
  BY Zona DEF Reparto, Rango
<1>2. \A t \in Hilos : /\ Reparto[<<"mano", t>>] = Mano(t)
                      /\ Reparto'[<<"mano", t>>] = Mano(t)'
  BY Zona DEF Reparto
<1>. QED  BY <1>1, <1>2

-----------------------------------------------------------------------------
(* What a step does to the zones.                                          *)

\* LugaresOK but for what estadoExec holds.
Reparte ==
    /\ SinRepetir /\ Disjuntas(Reparto) /\ Juntas(Reparto) = EnCurso
    /\ \A p \in finalizadas : cliente[p] # "inicio"

LEMMA IgualReparte ==
    ASSUME Reparte, cliente' = cliente, finalizadas' = finalizadas,
           \A c \in Colas : Vista(c)' = Vista(c), \A t \in Hilos : Mano(t)' = Mano(t)
    PROVE  Reparte' /\ Reparto' = Reparto
<1>1. Reparto' = Reparto
  <2>1. \A z \in Zonas : (IF z[1] = "cola" THEN Rango(Vista(z[2])) ELSE Mano(z[2]))'
                         = (IF z[1] = "cola" THEN Rango(Vista(z[2])) ELSE Mano(z[2]))
    BY DEF Zonas, Rango
  <2>. QED  BY <2>1 DEF Reparto
<1>2. SinRepetir'
  BY DEF Reparte, SinRepetir, Inyectiva
<1>. QED  BY <1>1, <1>2 DEF Reparte, Disjuntas, Juntas, EnCurso

\* The process that thread t holds, or took, changes zone.
LEMMA MudaReparte ==
    ASSUME Reparte, cliente' = cliente, finalizadas' = finalizadas, SinRepetir',
           NEW p, NEW a \in Zonas, NEW b \in Zonas, a # b, Muda(Reparto, Reparto', p, a, b)
    PROVE  Reparte'
<1>1. Disjuntas(Reparto') /\ Juntas(Reparto') = Juntas(Reparto)
  BY MudaZonas DEF Reparte
<1>2. EnCurso' = EnCurso
  BY DEF EnCurso
<1>. QED  BY <1>1, <1>2 DEF Reparte, Disjuntas, Juntas

\* A step of thread t that leaves the lists alone.
LEMMA SigueReparte ==
    ASSUME TypeOK, Reparte, NEW t \in Hilos, NEW l, NEW m, En(t, l),
           Sigue(t, m) \/ ((\E p : Toma(t, p, m)) /\ m \notin FueraDeCola[t]),
           UNCHANGED <<cola, cliente, finalizadas>>,
           l # "d_sacar", m # "d_sacar", m \notin FueraDeCola[t] \/ m # "inicio",
           l \in FueraDeCola[t] <=> m \in FueraDeCola[t]
    PROVE  Reparte' /\ Reparto' = Reparto
<1>1. \A u \in Hilos \ {t} : hilo'[u] = hilo[u]
  BY HiloAjeno
<1>2. hilo'[t].en = m /\ (m \in FueraDeCola[t] => hilo'[t].p = hilo[t].p)
  BY DEF Sigue, Toma, TypeOK, HilosOK
<1>3. \A u \in Hilos : Mano(u)' = Mano(u)
  BY <1>1, <1>2 DEF Mano, En
<1>4. \A c \in Colas : Vista(c)' = Vista(c)
  BY <1>1, <1>2, Nombres DEF Vista, En
<1>. QED  BY <1>3, <1>4, IgualReparte

\* A list that gets a process, estadoExec preempting or not.
LEMMA VistaAgregar ==
    ASSUME TypeOK, NuncaListaVacia, NEW c \in Colas, NEW p,
           cola' = [cola EXCEPT ![c] = Append(@, p)],
           En("exec", "d_sacar")' <=> En("exec", "d_sacar")
    PROVE  /\ Vista(c) \in Seq(Procesos) /\ Vista(c)' = Append(Vista(c), p)
           /\ \A d \in Colas \ {c} : Vista(d)' = Vista(d)
<1>1. cola'[c] = Append(cola[c], p) /\ \A d \in Colas \ {c} : cola'[d] = cola[d]
  BY DEF TypeOK
<1>2. cola[c] \in Seq(Procesos)
  BY DEF TypeOK
<1>3. CASE c = "exec" /\ En("exec", "d_sacar")
  <2>1. cola[c] # <<>>
    BY <1>3 DEF NuncaListaVacia, En
  <2>2. Tail(Append(cola[c], p)) = Append(Tail(cola[c]), p)
    BY <1>2, <2>1
  <2>. QED  BY <1>1, <1>2, <1>3, <2>1, <2>2 DEF Vista
<1>4. CASE ~ (c = "exec" /\ En("exec", "d_sacar"))
  BY <1>1, <1>2, <1>4 DEF Vista
<1>. QED  BY <1>3, <1>4

\* list_add of what the thread holds: from its hand to the list.
LEMMA AgregarReparte ==
    ASSUME TypeOK, NuncaListaVacia, Reparte, NEW t \in Hilos, NEW c \in Colas, NEW l, NEW m,
           Agregar(t, l, c, m), l \in ConProceso[t] \ SinProceso[t],
           l \in FueraDeCola[t], m \notin FueraDeCola[t], l # "d_sacar", m # "d_sacar"
    PROVE  Reparte' /\ Muda(Reparto, Reparto', hilo[t].p, <<"mano", t>>, <<"cola", c>>)
<1>. DEFINE p == hilo[t].p
            a == <<"mano", t>>
            b == <<"cola", c>>
<1>1. /\ \A u \in Hilos \ {t} : hilo'[u] = hilo[u]
      /\ hilo[t].en = l /\ hilo'[t].en = m /\ p \in Procesos
  BY HiloAjeno DEF Agregar, Sigue, En, TypeOK, HilosOK
<1>2. Mano(t) = {p} /\ Mano(t)' = {} /\ \A u \in Hilos \ {t} : Mano(u)' = Mano(u)
  BY <1>1 DEF Mano
<1>3. En("exec", "d_sacar")' <=> En("exec", "d_sacar")
  BY <1>1, Nombres DEF En
<1>4. /\ Vista(c) \in Seq(Procesos) /\ Vista(c)' = Append(Vista(c), p)
      /\ \A d \in Colas \ {c} : Vista(d)' = Vista(d)
  BY <1>3, VistaAgregar DEF Agregar
<1>5. a \in Zonas /\ b \in Zonas /\ a # b
  BY Zona
<1>6. p \notin Rango(Vista(c))
  BY <1>2, <1>5, ZonaReparto DEF Reparte, Disjuntas
<1>. HIDE DEF p
<1>7. Rango(Vista(c)') = Rango(Vista(c)) \cup {p} /\ Inyectiva(Vista(c)')
  BY <1>1, <1>4, <1>6, AppendRango DEF Reparte, SinRepetir
<1>8. SinRepetir'
  BY <1>4, <1>7 DEF Reparte, SinRepetir, Inyectiva
<1>9. Muda(Reparto, Reparto', p, a, b)
  <2>1. /\ Reparto[a] = {p} /\ Reparto'[a] = {}
        /\ Reparto'[b] = Reparto[b] \cup {p}
    BY <1>2, <1>7, ZonaReparto
  <2>2. ASSUME NEW z \in Zonas \ {a, b}
        PROVE  Reparto'[z] = Reparto[z]
    <3>1. CASE \E d \in Colas : z = <<"cola", d>>
      BY <3>1, <1>4, ZonaReparto
    <3>2. CASE \E u \in Hilos : z = <<"mano", u>>
      BY <3>2, <1>2, ZonaReparto
    <3>. QED  BY <3>1, <3>2, Zona
  <2>. QED  BY <2>1, <2>2 DEF Muda
<1>10. Reparte'
  BY <1>5, <1>8, <1>9, MudaReparte DEF Agregar
<1>. QED  BY <1>9, <1>10 DEF p

\* list_remove of the i-th of a list, which thread t then holds.
LEMMA QuitarReparte ==
    ASSUME TypeOK, Reparte, NEW t \in Hilos, NEW c \in Colas, NEW l, NEW m,
           NEW i \in 1..Len(cola[c]), NEW s \in Seq(Procesos), Falta(cola[c], i, s),
           En(t, l), Toma(t, cola[c][i], m), cola' = [cola EXCEPT ![c] = s],
           UNCHANGED <<cliente, finalizadas>>,
           l \notin FueraDeCola[t], m \in FueraDeCola[t], l # "d_sacar", m # "d_sacar",
           c # "exec" \/ t = "exec"
    PROVE  Reparte' /\ Muda(Reparto, Reparto', cola[c][i], <<"cola", c>>, <<"mano", t>>)
<1>. DEFINE p == cola[c][i]
            a == <<"cola", c>>
            b == <<"mano", t>>
<1>1. /\ \A u \in Hilos \ {t} : hilo'[u] = hilo[u]
      /\ hilo[t].en = l /\ hilo'[t].en = m /\ hilo'[t].p = p
  BY HiloAjeno DEF Toma, En, TypeOK, HilosOK
<1>2. Mano(t) = {} /\ Mano(t)' = {p} /\ \A u \in Hilos \ {t} : Mano(u)' = Mano(u)
  BY <1>1 DEF Mano
<1>3. En("exec", "d_sacar")' <=> En("exec", "d_sacar")
  BY <1>1, Nombres DEF En
<1>4. /\ cola[c] \in Seq(Procesos) /\ Vista(c) = cola[c] /\ Vista(c)' = s
      /\ \A d \in Colas \ {c} : Vista(d)' = Vista(d)
  BY <1>1, <1>3 DEF Vista, TypeOK, En
<1>5. a \in Zonas /\ b \in Zonas /\ a # b
  BY Zona
<1>. HIDE DEF p
<1>6. Rango(Vista(c)') = Rango(Vista(c)) \ {p} /\ Inyectiva(Vista(c)')
  BY <1>4, FaltaRango DEF Reparte, SinRepetir, p
<1>7. p \in Rango(Vista(c))
  BY <1>4 DEF p, Rango
<1>8. SinRepetir'
  BY <1>4, <1>6 DEF Reparte, SinRepetir, Inyectiva
<1>9. Muda(Reparto, Reparto', p, a, b)
  <2>1. /\ Reparto[b] = {} /\ Reparto'[b] = {p} /\ p \in Reparto[a]
        /\ Reparto'[a] = Reparto[a] \ {p}
    BY <1>2, <1>6, <1>7, ZonaReparto
  <2>2. ASSUME NEW z \in Zonas \ {a, b}
        PROVE  Reparto'[z] = Reparto[z]
    <3>1. CASE \E d \in Colas : z = <<"cola", d>>
      BY <3>1, <1>4, ZonaReparto
    <3>2. CASE \E u \in Hilos : z = <<"mano", u>>
      BY <3>2, <1>2, ZonaReparto
    <3>. QED  BY <3>1, <3>2, Zona
  <2>. QED  BY <2>1, <2>2 DEF Muda
<1>10. Reparte'
  BY <1>5, <1>8, <1>9, MudaReparte
<1>. QED  BY <1>9, <1>10 DEF p

LEMMA QuitarPrimeroReparte ==
    ASSUME TypeOK, Reparte, NEW t \in Hilos, NEW c \in Colas \ {"exec"}, NEW l, NEW m,
           QuitarPrimero(t, l, c, m),
           l \notin FueraDeCola[t], m \in FueraDeCola[t], l # "d_sacar", m # "d_sacar"
    PROVE  Reparte' /\ Muda(Reparto, Reparto', Head(cola[c]), <<"cola", c>>, <<"mano", t>>)
<1>1. cola[c] \in Seq(Procesos) /\ cola[c] # <<>>
  BY DEF QuitarPrimero, TypeOK
<1>2. /\ Tail(cola[c]) \in Seq(Procesos) /\ Falta(cola[c], 1, Tail(cola[c]))
      /\ 1 \in 1..Len(cola[c]) /\ Head(cola[c]) = cola[c][1]
  BY <1>1, TailFalta
<1>3. /\ En(t, l) /\ Toma(t, cola[c][1], m) /\ UNCHANGED <<cliente, finalizadas>>
      /\ cola' = [cola EXCEPT ![c] = Tail(cola[c])]
  BY <1>2 DEF QuitarPrimero, TypeOK
<1>. QED  BY <1>2, <1>3, QuitarReparte

LEMMA QuitarUltimoReparte ==
    ASSUME TypeOK, Reparte, NEW t \in Hilos, NEW c \in Colas \ {"exec"}, NEW l, NEW m,
           QuitarUltimo(t, l, c, m),
           l \notin FueraDeCola[t], m \in FueraDeCola[t], l # "d_sacar", m # "d_sacar"
    PROVE  Reparte' /\ Muda(Reparto, Reparto', Ultimo(c), <<"cola", c>>, <<"mano", t>>)
<1>1. cola[c] \in Seq(Procesos) /\ cola[c] # <<>>
  BY DEF QuitarUltimo, TypeOK
<1>2. /\ SinUltimo(c) \in Seq(Procesos) /\ Falta(cola[c], Len(cola[c]), SinUltimo(c))
      /\ Len(cola[c]) \in 1..Len(cola[c])
  BY <1>1, UltimoFalta DEF SinUltimo
<1>3. /\ En(t, l) /\ Toma(t, cola[c][Len(cola[c])], m) /\ UNCHANGED <<cliente, finalizadas>>
      /\ cola' = [cola EXCEPT ![c] = SinUltimo(c)]
  BY DEF QuitarUltimo, Ultimo
<1>. QED  BY <1>2, <1>3, QuitarReparte DEF Ultimo

-----------------------------------------------------------------------------
(* The steps of the threads.                                               *)

\* The ways of the threads other than estadoExec.
Rutas ==
    {<<<<"cola", "new">>, <<"mano", "admitir">>>>, <<<<"cola", "suspReady">>, <<"mano", "admitir">>>>,
     <<<<"mano", "admitir">>, <<"cola", "ready">>>>, <<<<"cola", "exit">>, <<"mano", "finalizar">>>>,
     <<<<"cola", "ready">>, <<"mano", "ready">>>>, <<<<"mano", "ready">>, <<"cola", "exec">>>>,
     <<<<"cola", "blocked">>, <<"mano", "blocked">>>>, <<<<"mano", "blocked">>, <<"cola", "ready">>>>,
     <<<<"mano", "blocked">>, <<"cola", "suspBlocked">>>>,
     <<<<"cola", "suspBlocked">>, <<"mano", "suspReady">>>>,
     <<<<"mano", "suspReady">>, <<"cola", "suspReady">>>>}

Movida ==
    \/ Reparto' = Reparto
    \/ \E r \in Rutas : \E p : Muda(Reparto, Reparto', p, r[1], r[2])

LEMMA RutaMovida ==
    ASSUME NEW p, NEW a, NEW b, <<a, b>> \in Rutas, Muda(Reparto, Reparto', p, a, b)
    PROVE  Movida
<1>. DEFINE r == <<a, b>>
<1>1. r[1] = a /\ r[2] = b /\ r \in Rutas
  OBVIOUS
<1>. QED  BY <1>1 DEF Movida

LEMMA InterrupcionReparte ==
    ASSUME TypeOK, Reparte, NEW t \in {"admitir", "blocked"}, TransicionInterrupcion(t)
    PROVE  Reparte' /\ Reparto' = Reparto
<1>1. PICK l, m \in {"ver_exec", "marcar", "mensaje", "post_ready", "inicio"} :
        En(t, l) /\ Sigue(t, m) /\ UNCHANGED <<cola, cliente, finalizadas>>
  BY DEF TransicionInterrupcion, VerExec, Marcar, Mensaje, PostReady, Pasar, Post
<1>2. l \notin FueraDeCola[t] /\ m \notin FueraDeCola[t] /\ t \in Hilos
  BY Nombres DEF FueraDeCola
<1>. QED  BY <1>1, <1>2, SigueReparte

LEMMA AdmitirReparte ==
    ASSUME TypeOK, NuncaListaVacia, Reparte, Admitir
    PROVE  Reparte' /\ Movida
<1>. USE Nombres DEF FueraDeCola, SinProceso, ConProceso
<1>1. CASE AdmitirEsperar \/ AdmitirGrado \/ AdmitirSinSuspendidos
  <2>1. PICK l, m \in {"inicio", "grado", "mirar", "sacar"} :
          En("admitir", l) /\ Sigue("admitir", m) /\ UNCHANGED <<cola, cliente, finalizadas>>
    BY <1>1 DEF AdmitirEsperar, AdmitirGrado, AdmitirSinSuspendidos, Wait, Pasar
  <2>. QED  BY <2>1, SigueReparte DEF Movida
<1>2. CASE AdmitirSuspendido
  <2>1. Reparte' /\ Muda(Reparto, Reparto', Ultimo("suspReady"), <<"cola", "suspReady">>, <<"mano", "admitir">>)
    BY <1>2, QuitarUltimoReparte DEF AdmitirSuspendido
  <2>. QED  BY <2>1, RutaMovida DEF Rutas
<1>6. CASE AdmitirNuevo
  <2>1. Reparte' /\ Muda(Reparto, Reparto', Ultimo("new"), <<"cola", "new">>, <<"mano", "admitir">>)
    BY <1>6, QuitarUltimoReparte DEF AdmitirNuevo
  <2>. QED  BY <2>1, RutaMovida DEF Rutas
<1>3. CASE AdmitirPedirTabla \/ AdmitirTabla
  <2>1. PICK l \in {"pedir", "esperar"}, m \in {"esperar", "a_ready"} :
          En("admitir", l) /\ Sigue("admitir", m) /\ UNCHANGED <<cola, cliente, finalizadas>>
    BY <1>3 DEF AdmitirPedirTabla, AdmitirTabla, Pedir, RecibirRespuesta
  <2>. QED  BY <2>1, SigueReparte DEF Movida
<1>4. CASE AdmitirAgregar
  <2>1. Reparte' /\ Muda(Reparto, Reparto', hilo["admitir"].p, <<"mano", "admitir">>, <<"cola", "ready">>)
    BY <1>4, AgregarReparte DEF AdmitirAgregar
  <2>. QED  BY <2>1, RutaMovida DEF Rutas
<1>5. CASE TransicionInterrupcion("admitir")
  BY <1>5, InterrupcionReparte DEF Movida
<1>. QED  BY <1>1, <1>2, <1>3, <1>4, <1>5, <1>6 DEF Admitir

\* The console is told of the end: the process leaves.
LEMMA AvisarReparte ==
    ASSUME TypeOK, Reparte, FinalizarAvisar
    PROVE  /\ Reparte' /\ hilo["finalizar"].p \in Reparto[<<"mano", "finalizar">>]
           /\ \A z \in Zonas : Reparto'[z] = Reparto[z] \ {hilo["finalizar"].p}
<1>. DEFINE p == hilo["finalizar"].p
            a == <<"mano", "finalizar">>
<1>1. /\ \A u \in Hilos \ {"finalizar"} : hilo'[u] = hilo[u]
      /\ hilo["finalizar"].en = "avisar" /\ hilo'["finalizar"].en = "post_grado"
  BY HiloAjeno, Nombres DEF FinalizarAvisar, Sigue, En, TypeOK, HilosOK
<1>2. /\ Mano("finalizar") = {p} /\ Mano("finalizar")' = {}
      /\ \A u \in Hilos \ {"finalizar"} : Mano(u)' = Mano(u)
  BY <1>1 DEF Mano, FueraDeCola
<1>3. \A c \in Colas : Vista(c)' = Vista(c)
  BY <1>1, Nombres DEF Vista, En, FinalizarAvisar
<1>4. a \in Zonas /\ p \in Reparto[a] /\ Reparto'[a] = Reparto[a] \ {p}
  BY <1>2, Zona, ZonaReparto, Nombres
<1>5. ASSUME NEW z \in Zonas \ {a}
      PROVE  Reparto'[z] = Reparto[z]
  <2>1. CASE \E d \in Colas : z = <<"cola", d>>
    BY <2>1, <1>3, ZonaReparto
  <2>2. CASE \E u \in Hilos : z = <<"mano", u>>
    BY <2>2, <1>2, ZonaReparto
  <2>. QED  BY <2>1, <2>2, Zona
<1>. HIDE DEF p
<1>6. Disjuntas(Reparto') /\ Juntas(Reparto') = Juntas(Reparto) \ {p}
  BY <1>4, <1>5, SaleZonas DEF Reparte
<1>7. p \in EnCurso
  BY <1>4 DEF Reparte, Juntas
<1>8. finalizadas' = finalizadas \cup {p} /\ cliente' = cliente
  BY DEF FinalizarAvisar, p
<1>9. EnCurso' = EnCurso \ {p} /\ \A q \in finalizadas' : cliente'[q] # "inicio"
  BY <1>7, <1>8 DEF EnCurso, Reparte
<1>10. SinRepetir'
  BY <1>3 DEF Reparte, SinRepetir, Inyectiva
<1>11. Reparte'
  BY <1>6, <1>9, <1>10 DEF Reparte, Disjuntas, Juntas
<1>12. \A z \in Zonas \ {a} : p \notin Reparto[z]
  BY <1>4 DEF Reparte, Disjuntas
<1>. QED  BY <1>4, <1>5, <1>11, <1>12 DEF p

LEMMA FinalizarReparte ==
    ASSUME TypeOK, Reparte, Finalizar
    PROVE  Reparte' /\ (Movida \/ FinalizarAvisar)
<1>. USE Nombres DEF FueraDeCola, SinProceso, ConProceso
<1>1. CASE FinalizarEsperar \/ FinalizarGrado
  <2>1. PICK l, m \in {"inicio", "sacar", "post_grado"} :
          En("finalizar", l) /\ Sigue("finalizar", m) /\ UNCHANGED <<cola, cliente, finalizadas>>
    BY <1>1 DEF FinalizarEsperar, FinalizarGrado, Wait, Post
  <2>. QED  BY <2>1, SigueReparte DEF Movida
<1>2. CASE FinalizarSacar
  <2>1. Reparte' /\ Muda(Reparto, Reparto', Head(cola["exit"]), <<"cola", "exit">>, <<"mano", "finalizar">>)
    BY <1>2, QuitarPrimeroReparte DEF FinalizarSacar
  <2>. QED  BY <2>1, RutaMovida DEF Rutas
<1>3. CASE FinalizarPedir \/ FinalizarRespuesta
  <2>1. PICK l \in {"pedir", "esperar"}, m \in {"esperar", "avisar"} :
          En("finalizar", l) /\ Sigue("finalizar", m) /\ UNCHANGED <<cola, cliente, finalizadas>>
    BY <1>3 DEF FinalizarPedir, FinalizarRespuesta, Pedir, RecibirRespuesta
  <2>. QED  BY <2>1, SigueReparte DEF Movida
<1>4. CASE FinalizarAvisar
  BY <1>4, AvisarReparte
<1>. QED  BY <1>1, <1>2, <1>3, <1>4 DEF Finalizar

LEMMA ReadyReparte ==
    ASSUME TypeOK, NuncaListaVacia, Reparte, Ready
    PROVE  Reparte' /\ Movida
<1>. USE Nombres DEF FueraDeCola, SinProceso, ConProceso
<1>1. CASE ReadyElegir
  <2>1. PICK i \in 1..Len(cola["ready"]) :
          /\ Toma("ready", cola["ready"][i], "a_exec")
          /\ cola' = [cola EXCEPT !["ready"] = Quitar(@, i)]
    BY <1>1 DEF ReadyElegir
  <2>2. cola["ready"] \in Seq(Procesos)
    BY DEF TypeOK
  <2>3. Quitar(cola["ready"], i) \in Seq(Procesos) /\ Falta(cola["ready"], i, Quitar(cola["ready"], i))
    BY <2>2, QuitarFalta
  <2>4. cola' = [cola EXCEPT !["ready"] = Quitar(cola["ready"], i)]
    BY <2>1 DEF TypeOK
  <2>5. En("ready", "elegir") /\ UNCHANGED <<cliente, finalizadas>>
    BY <1>1 DEF ReadyElegir
  <2>6. Reparte' /\ Muda(Reparto, Reparto', cola["ready"][i], <<"cola", "ready">>, <<"mano", "ready">>)
    BY <2>1, <2>3, <2>4, <2>5, QuitarReparte
  <2>. QED  BY <2>6, RutaMovida DEF Rutas
<1>2. CASE ReadyAgregar
  <2>1. Reparte' /\ Muda(Reparto, Reparto', hilo["ready"].p, <<"mano", "ready">>, <<"cola", "exec">>)
    BY <1>2, AgregarReparte DEF ReadyAgregar
  <2>. QED  BY <2>1, RutaMovida DEF Rutas
<1>3. CASE ~ ReadyElegir /\ ~ ReadyAgregar
  <2>1. PICK l, m \in {"inicio", "desalojo", "mirar", "contar", "elegir", "indefinido", "post_exec"} :
          En("ready", l) /\ Sigue("ready", m) /\ UNCHANGED <<cola, cliente, finalizadas>>
    BY <1>3 DEF Ready, ReadyEsperar, ReadyDesalojo, ReadyMirar, ReadyContar, ReadyPost,
         Wait, Post, Pasar
  <2>. QED  BY <2>1, SigueReparte DEF Movida
<1>. QED  BY <1>1, <1>2, <1>3

LEMMA BlockedReparte ==
    ASSUME TypeOK, NuncaListaVacia, Reparte, Blocked
    PROVE  Reparte' /\ Movida
<1>. USE Nombres DEF FueraDeCola, SinProceso, ConProceso
<1>1. CASE BlockedSacar
  <2>1. Reparte' /\ Muda(Reparto, Reparto', Head(cola["blocked"]), <<"cola", "blocked">>, <<"mano", "blocked">>)
    BY <1>1, QuitarPrimeroReparte DEF BlockedSacar
  <2>. QED  BY <2>1, RutaMovida DEF Rutas
<1>2. CASE BlockedAgregar
  <2>1. Reparte' /\ Muda(Reparto, Reparto', hilo["blocked"].p, <<"mano", "blocked">>, <<"cola", "ready">>)
    BY <1>2, AgregarReparte DEF BlockedAgregar
  <2>. QED  BY <2>1, RutaMovida DEF Rutas
<1>6. CASE SuspenderAgregar
  <2>1. Reparte' /\ Muda(Reparto, Reparto', hilo["blocked"].p, <<"mano", "blocked">>, <<"cola", "suspBlocked">>)
    BY <1>6, AgregarReparte DEF SuspenderAgregar
  <2>. QED  BY <2>1, RutaMovida DEF Rutas
<1>3. CASE TransicionInterrupcion("blocked")
  BY <1>3, InterrupcionReparte DEF Movida
<1>4. CASE BlockedEsperar \/ SuspenderGrado \/ BlockedIOResto \/ BlockedPostSusp
  <2>1. PICK l, m \in {"inicio", "sacar", "post_grado", "io_resto", "post_susp"} :
          En("blocked", l) /\ Sigue("blocked", m) /\ UNCHANGED <<cola, cliente, finalizadas>>
    BY <1>4 DEF BlockedEsperar, SuspenderGrado, BlockedIOResto, BlockedPostSusp, Wait, Post, Pasar
  <2>. QED  BY <2>1, SigueReparte DEF Movida
<1>5. CASE \/ BlockedDecidir \/ BlockedIOAntes \/ BlockedIO
           \/ SuspenderPedir \/ SuspenderRespuesta
  <2>1. PICK l, m \in {"decidir", "io_antes", "io", "pedir", "esperar", "a_susp", "a_ready"} :
          En("blocked", l) /\ Sigue("blocked", m) /\ UNCHANGED <<cola, cliente, finalizadas>>
    BY <1>5 DEF BlockedDecidir, BlockedIOAntes, BlockedIO, SuspenderPedir, SuspenderRespuesta,
         Pasar, Pedir, RecibirRespuesta
  <2>. QED  BY <2>1, SigueReparte DEF Movida
<1>. QED  BY <1>1, <1>2, <1>3, <1>4, <1>5, <1>6 DEF Blocked

LEMMA SuspendedReadyReparte ==
    ASSUME TypeOK, NuncaListaVacia, Reparte, SuspendedReady
    PROVE  Reparte' /\ Movida
<1>. USE Nombres DEF FueraDeCola, SinProceso, ConProceso
<1>1. CASE SuspSacar
  <2>1. Reparte' /\ Muda(Reparto, Reparto', Ultimo("suspBlocked"), <<"cola", "suspBlocked">>, <<"mano", "suspReady">>)
    BY <1>1, QuitarUltimoReparte DEF SuspSacar
  <2>. QED  BY <2>1, RutaMovida DEF Rutas
<1>2. CASE SuspAgregar
  <2>1. Reparte' /\ Muda(Reparto, Reparto', hilo["suspReady"].p, <<"mano", "suspReady">>, <<"cola", "suspReady">>)
    BY <1>2, AgregarReparte DEF SuspAgregar
  <2>. QED  BY <2>1, RutaMovida DEF Rutas
<1>3. CASE SuspEsperar \/ SuspPost
  <2>1. PICK l, m \in {"inicio", "sacar", "post_admitir"} :
          En("suspReady", l) /\ Sigue("suspReady", m) /\ UNCHANGED <<cola, cliente, finalizadas>>
    BY <1>3 DEF SuspEsperar, SuspPost, Wait, Post
  <2>. QED  BY <2>1, SigueReparte DEF Movida
<1>. QED  BY <1>1, <1>2, <1>3 DEF SuspendedReady

\* estadoExec puts the first of Exec back in Ready.
LEMMA DesalojarReparte ==
    ASSUME TypeOK, NuncaListaVacia, Reparte, Cabeza, DesalojoAReady
    PROVE  /\ Reparte'
           /\ Muda(Reparto, Reparto', hilo["exec"].p, <<"cola", "exec">>, <<"cola", "ready">>)
<1>. DEFINE p == hilo["exec"].p
            a == <<"cola", "exec">>
            b == <<"cola", "ready">>
<1>1. /\ \A u \in Hilos \ {"exec"} : hilo'[u] = hilo[u]
      /\ hilo["exec"].en = "d_ready" /\ hilo'["exec"].en = "d_sacar"
  BY HiloAjeno, Nombres DEF DesalojoAReady, Agregar, Sigue, En, TypeOK, HilosOK
<1>2. \A u \in Hilos : Mano(u)' = Mano(u)
  BY <1>1 DEF Mano, FueraDeCola
<1>3. cola["exec"] \in Seq(Procesos) /\ cola["ready"] \in Seq(Procesos) /\ p \in Procesos
  BY <1>1, Nombres DEF TypeOK, HilosOK, SinProceso
<1>4. cola["exec"] # <<>> /\ p = Head(cola["exec"])
  BY <1>1 DEF Cabeza, ConCabeza, ConProceso
<1>5. /\ Tail(cola["exec"]) \in Seq(Procesos) /\ Falta(cola["exec"], 1, Tail(cola["exec"]))
      /\ 1 \in 1..Len(cola["exec"]) /\ p = cola["exec"][1]
  BY <1>3, <1>4, TailFalta
<1>6. /\ Vista("exec") = cola["exec"] /\ Vista("exec")' = Tail(cola["exec"])
      /\ Vista("ready") = cola["ready"] /\ Vista("ready")' = Append(cola["ready"], p)
      /\ \A d \in Colas \ {"exec", "ready"} : Vista(d)' = Vista(d)
  BY <1>1, Nombres DEF Vista, En, DesalojoAReady, Agregar, TypeOK
<1>7. a \in Zonas /\ b \in Zonas /\ a # b
  BY Zona, Nombres
<1>. HIDE DEF p
<1>8. p \in Rango(Vista("exec"))
  BY <1>5, <1>6 DEF Rango
<1>9. Rango(Vista("exec")') = Rango(Vista("exec")) \ {p} /\ Inyectiva(Vista("exec")')
  <2>1. Inyectiva(cola["exec"])
    BY <1>6, Nombres DEF Reparte, SinRepetir
  <2>2. /\ Rango(Tail(cola["exec"])) = Rango(cola["exec"]) \ {cola["exec"][1]}
        /\ Inyectiva(Tail(cola["exec"]))
    BY <2>1, <1>3, <1>5, FaltaRango
  <2>. QED  BY <2>2, <1>5, <1>6
<1>10. Rango(Vista("ready")') = Rango(Vista("ready")) \cup {p} /\ Inyectiva(Vista("ready")')
  <2>1. p \notin Rango(Vista("ready"))
    BY <1>7, <1>8, ZonaReparto, Nombres DEF Reparte, Disjuntas
  <2>2. Inyectiva(cola["ready"])
    BY <1>6, Nombres DEF Reparte, SinRepetir
  <2>3. /\ Rango(Append(cola["ready"], p)) = Rango(cola["ready"]) \cup {p}
        /\ Inyectiva(Append(cola["ready"], p))
    BY <2>1, <2>2, <1>3, <1>6, AppendRango
  <2>. QED  BY <2>3, <1>6
<1>11. SinRepetir'
  BY <1>6, <1>9, <1>10 DEF Reparte, SinRepetir, Inyectiva
<1>12. Muda(Reparto, Reparto', p, a, b)
  <2>1. /\ p \in Reparto[a] /\ Reparto'[a] = Reparto[a] \ {p}
        /\ Reparto'[b] = Reparto[b] \cup {p}
    BY <1>8, <1>9, <1>10, ZonaReparto, Nombres
  <2>2. ASSUME NEW z \in Zonas \ {a, b}
        PROVE  Reparto'[z] = Reparto[z]
    <3>1. CASE \E d \in Colas : z = <<"cola", d>>
      BY <3>1, <1>6, ZonaReparto
    <3>2. CASE \E u \in Hilos : z = <<"mano", u>>
      BY <3>2, <1>2, ZonaReparto
    <3>. QED  BY <3>1, <3>2, Zona
  <2>. QED  BY <2>1, <2>2 DEF Muda
<1>13. Reparte'
  BY <1>7, <1>11, <1>12, MudaReparte DEF DesalojoAReady, Agregar
<1>. QED  BY <1>12, <1>13 DEF p

\* And takes it from Exec: in Exec it was no more.
LEMMA SacarReparte ==
    ASSUME TypeOK, Reparte, DesalojoSacar
    PROVE  Reparte' /\ Reparto' = Reparto
<1>. USE Nombres DEF FueraDeCola, SinProceso, ConProceso
<1>1. /\ \A u \in Hilos \ {"exec"} : hilo'[u] = hilo[u]
      /\ hilo["exec"].en = "d_sacar" /\ hilo'["exec"].en = "d_bajar"
  BY HiloAjeno DEF DesalojoSacar, Sigue, En, TypeOK, HilosOK
<1>2. \A u \in Hilos : Mano(u)' = Mano(u)
  <2>1. "d_sacar" \notin FueraDeCola["exec"] /\ "d_bajar" \notin FueraDeCola["exec"]
    OBVIOUS
  <2>. HIDE DEF FueraDeCola
  <2>. QED  BY <1>1, <2>1 DEF Mano
<1>3. \A c \in Colas : Vista(c)' = Vista(c)
  BY <1>1 DEF DesalojoSacar, SacarDeExec, Vista, En, TypeOK
<1>. QED  BY <1>2, <1>3, IgualReparte DEF DesalojoSacar

\* What the CPU gave back goes from Exec to the hand of estadoExec.
LEMMA ExecSacarReparte ==
    ASSUME TypeOK, Reparte, Cabeza, ExecSacar
    PROVE  /\ Reparte'
           /\ Muda(Reparto, Reparto', hilo["exec"].p, <<"cola", "exec">>, <<"mano", "exec">>)
<1>. USE Nombres DEF FueraDeCola, SinProceso, ConProceso
<1>1. En("exec", "sacar") /\ UNCHANGED <<cliente, finalizadas>>
  BY DEF ExecSacar
<1>2. cola["exec"] # <<>> /\ hilo["exec"].p = Head(cola["exec"]) /\ cola["exec"] \in Seq(Procesos)
  BY <1>1 DEF Cabeza, ConCabeza, En, TypeOK
<1>3. /\ Tail(cola["exec"]) \in Seq(Procesos) /\ Falta(cola["exec"], 1, Tail(cola["exec"]))
      /\ 1 \in 1..Len(cola["exec"]) /\ hilo["exec"].p = cola["exec"][1]
  BY <1>2, TailFalta
<1>4. cola' = [cola EXCEPT !["exec"] = Tail(cola["exec"])]
  BY DEF ExecSacar, SacarDeExec, TypeOK
<1>5. Toma("exec", cola["exec"][1], "encolar")
  BY <1>3 DEF ExecSacar, Sigue, Toma, TypeOK, HilosOK
<1>. QED  BY <1>1, <1>3, <1>4, <1>5, QuitarReparte

LEMMA ExecReparte ==
    ASSUME TypeOK, NuncaListaVacia, Reparte, Cabeza, Exec
    PROVE  Reparte'
<1>. USE Nombres DEF FueraDeCola, SinProceso, ConProceso
<1>1. CASE DesalojoAReady
  BY <1>1, DesalojarReparte
<1>2. CASE DesalojoSacar
  BY <1>2, SacarReparte
<1>3. CASE ExecSacar
  BY <1>3, ExecSacarReparte
<1>4. CASE ExecEncolar
  <2>1. PICK d \in Colas : Agregar("exec", "encolar", d, "post_cola")
    BY <1>4 DEF ExecEncolar, Destino
  <2>. QED  BY <2>1, AgregarReparte
<1>5. CASE ~ DesalojoAReady /\ ~ DesalojoSacar /\ ~ ExecSacar /\ ~ ExecEncolar
  <2>1. PICK l, m \in {"inicio", "tomar", "despachar", "recibir", "decidir", "d_ready",
                      "d_bajar", "d_post", "bajar", "post_desalojo", "sacar",
                      "post_cola", "post_extra"} :
          /\ En("exec", l) /\ (Sigue("exec", m) \/ \E p : Toma("exec", p, m))
          /\ UNCHANGED <<cola, cliente, finalizadas>>
    BY <1>5 DEF Exec, ExecEsperar, ExecTomar, ExecDespachar, ExecRecibir,
         ExecDesalojar, ExecNoDesalojar, DesalojoBajar, DesalojoPost, ExecBajar,
         ExecPostDesalojo, ExecPostCola, ExecPostExtra, Wait, Post, Pasar, BajarInterrupcion
  <2>. QED  BY <2>1, SigueReparte
<1>. QED  BY <1>1, <1>2, <1>3, <1>4, <1>5

\* A console connects.
LEMMA LlegarReparte ==
    ASSUME TypeOK, NuncaListaVacia, Reparte, NEW p \in Procesos, ClienteAgregar(p)
    PROVE  /\ Reparte'
           /\ Reparto'[<<"cola", "new">>] = Reparto[<<"cola", "new">>] \cup {p}
           /\ \A z \in Zonas \ {<<"cola", "new">>} : Reparto'[z] = Reparto[z]
<1>. DEFINE b == <<"cola", "new">>
<1>1. p \notin Juntas(Reparto)
  BY DEF ClienteAgregar, Reparte, EnCurso
<1>2. \A u \in Hilos : Mano(u)' = Mano(u)
  BY DEF ClienteAgregar, Mano
<1>3. /\ Vista("new") \in Seq(Procesos) /\ Vista("new")' = Append(Vista("new"), p)
      /\ \A d \in Colas \ {"new"} : Vista(d)' = Vista(d)
  BY VistaAgregar, Nombres DEF ClienteAgregar, En
<1>4. p \notin Rango(Vista("new"))
  BY <1>1, Zona, ZonaReparto, Nombres DEF Juntas
<1>5. Rango(Vista("new")') = Rango(Vista("new")) \cup {p} /\ Inyectiva(Vista("new")')
  <2>1. Inyectiva(Vista("new"))
    BY Nombres DEF Reparte, SinRepetir
  <2>2. /\ Rango(Append(Vista("new"), p)) = Rango(Vista("new")) \cup {p}
        /\ Inyectiva(Append(Vista("new"), p))
    BY <2>1, <1>3, <1>4, AppendRango
  <2>. QED  BY <2>2, <1>3
<1>6. b \in Zonas /\ Reparto'[b] = Reparto[b] \cup {p}
  BY <1>5, Zona, ZonaReparto, Nombres
<1>7. ASSUME NEW z \in Zonas \ {b}
      PROVE  Reparto'[z] = Reparto[z]
  <2>1. CASE \E d \in Colas : z = <<"cola", d>>
    BY <2>1, <1>3, ZonaReparto
  <2>2. CASE \E u \in Hilos : z = <<"mano", u>>
    BY <2>2, <1>2, ZonaReparto
  <2>. QED  BY <2>1, <2>2, Zona
<1>8. /\ Disjuntas(Reparto')
      /\ \A q : q \in Juntas(Reparto') <=> q \in Juntas(Reparto) \/ q = p
  <2>1. Disjuntas(Reparto)
    BY DEF Reparte
  <2>2. \A z \in Zonas : z # b => Reparto'[z] = Reparto[z]
    BY <1>7
  <2>. HIDE DEF b
  <2>. QED  BY <1>1, <1>6, <2>1, <2>2, EntraZonas
<1>9. SinRepetir'
  BY <1>3, <1>5 DEF Reparte, SinRepetir, Inyectiva
<1>10. EnCurso' = EnCurso \cup {p} /\ \A q \in finalizadas' : cliente'[q] # "inicio"
  BY DEF ClienteAgregar, EnCurso, Reparte, TypeOK
<1>11. Reparte'
  BY <1>8, <1>9, <1>10 DEF Reparte, Disjuntas, Juntas
<1>. QED  BY <1>6, <1>7, <1>11

LEMMA ClienteReparte ==
    ASSUME TypeOK, NuncaListaVacia, Reparte, NEW p \in Procesos, Cliente(p)
    PROVE  Reparte'
<1>1. CASE ClienteAgregar(p)
  BY <1>1, LlegarReparte
<1>2. CASE ClientePost(p)
  <2>1. UNCHANGED <<cola, hilo, finalizadas>>
    BY <1>2 DEF ClientePost
  <2>2. Reparto' = Reparto
    BY <2>1 DEF Reparto, Vista, Mano, En, Rango
  <2>3. SinRepetir'
    BY <2>1 DEF Reparte, SinRepetir, Inyectiva, Vista, En
  <2>4. EnCurso' = EnCurso /\ \A q \in finalizadas' : cliente'[q] # "inicio"
    BY <1>2 DEF ClientePost, EnCurso, Reparte, TypeOK
  <2>. QED  BY <2>2, <2>3, <2>4 DEF Reparte, Disjuntas, Juntas
<1>. QED  BY <1>1, <1>2 DEF Cliente

LEMMA PasoReparte ==
    ASSUME TypeOK, NuncaListaVacia, Reparte, Cabeza, [Next]_vars
    PROVE  Reparte'
<1>1. CASE \E p \in Procesos : Cliente(p)
  BY <1>1, ClienteReparte
<1>2. CASE Ciclo \/ CpuInterrumpir \/ CpuMemoria \/ MemoriaAtender \/ UNCHANGED vars
  <2>1. UNCHANGED <<cola, hilo, cliente, finalizadas>>
    BY <1>2 DEF Ciclo, CpuRecibir, CpuInstruccion, CpuChequear, CpuSinExit, CpuInterrumpir,
         CpuMemoria, CpuFalloSinContador, CpuSinMemoria,
         MemoriaAtender, vars
  <2>2. /\ \A c \in Colas : Vista(c)' = Vista(c)
        /\ \A t \in Hilos : Mano(t)' = Mano(t)
    BY <2>1 DEF Vista, Mano, En
  <2>. QED  BY <2>1, <2>2, IgualReparte
<1>. QED  BY <1>1, <1>2, AdmitirReparte, FinalizarReparte, ReadyReparte, ExecReparte,
             BlockedReparte, SuspendedReadyReparte DEF Next

-----------------------------------------------------------------------------
(* What estadoExec holds.                                                  *)

\* Only estadoReady and estadoExec touch Exec, and only estadoReady takes from
\* Ready; the others add at its end.
ExecAjena ==
    /\ cola'["exec"] = cola["exec"]
    /\ \/ cola'["ready"] = cola["ready"]
       \/ \E p \in Procesos : cola'["ready"] = Append(cola["ready"], p)

LEMMA AgregarExecAjena ==
    ASSUME TypeOK, NEW t \in Hilos, NEW c \in Colas \ {"exec"}, NEW l, NEW m,
           Agregar(t, l, c, m), l \in ConProceso[t] \ SinProceso[t]
    PROVE  ExecAjena
<1>1. hilo[t].p \in Procesos /\ cola' = [cola EXCEPT ![c] = Append(@, hilo[t].p)]
  BY DEF Agregar, En, TypeOK, HilosOK
<1>2. cola'["exec"] = cola["exec"]
  BY <1>1, Nombres DEF TypeOK
<1>3. cola'["ready"] = cola["ready"] \/ cola'["ready"] = Append(cola["ready"], hilo[t].p)
  BY <1>1, Nombres DEF TypeOK
<1>. QED  BY <1>1, <1>2, <1>3 DEF ExecAjena

LEMMA OtrosExecAjena ==
    ASSUME TypeOK,
           \/ Admitir \/ Finalizar \/ Blocked \/ SuspendedReady \/ \E p \in Procesos : Cliente(p)
           \/ Ciclo \/ CpuInterrumpir \/ CpuMemoria \/ MemoriaAtender \/ UNCHANGED vars
    PROVE  ExecAjena
<1>1. CASE AdmitirSuspendido \/ AdmitirNuevo \/ SuspSacar \/ FinalizarSacar \/ BlockedSacar
  <2>1. PICK c \in Colas \ {"exec", "ready"} : \E s : cola' = [cola EXCEPT ![c] = s]
    BY <1>1, Nombres DEF AdmitirSuspendido, AdmitirNuevo, SuspSacar, FinalizarSacar, BlockedSacar,
       QuitarPrimero, QuitarUltimo, TypeOK
  <2>. QED  BY <2>1, Nombres DEF ExecAjena, TypeOK
<1>2. CASE AdmitirAgregar \/ BlockedAgregar \/ SuspenderAgregar \/ SuspAgregar
  <2>1. CASE AdmitirAgregar
    BY <2>1, AgregarExecAjena, Nombres DEF AdmitirAgregar, ConProceso, SinProceso
  <2>2. CASE BlockedAgregar \/ SuspenderAgregar
    BY <2>2, AgregarExecAjena, Nombres DEF BlockedAgregar, SuspenderAgregar, ConProceso, SinProceso
  <2>3. CASE SuspAgregar
    BY <2>3, AgregarExecAjena, Nombres DEF SuspAgregar, ConProceso, SinProceso
  <2>. QED  BY <1>2, <2>1, <2>2, <2>3
<1>3. CASE \E p \in Procesos : ClienteAgregar(p)
  <2>1. PICK p \in Procesos : cola' = [cola EXCEPT !["new"] = Append(@, p)]
    BY <1>3 DEF ClienteAgregar
  <2>2. cola'["exec"] = cola["exec"]
    BY <2>1, Nombres DEF TypeOK
  <2>3. cola'["ready"] = cola["ready"]
    BY <2>1, Nombres DEF TypeOK
  <2>. QED  BY <2>2, <2>3 DEF ExecAjena
<1>4. CASE cola' = cola
  BY <1>4 DEF ExecAjena
<1>5. CASE Admitir
  <2>1. CASE TransicionInterrupcion("admitir")
    BY <2>1, <1>4 DEF TransicionInterrupcion, VerExec, Marcar, Mensaje, PostReady, Pasar, Post
  <2>2. CASE ~ TransicionInterrupcion("admitir")
    BY <1>5, <2>2, <1>1, <1>2, <1>4 DEF Admitir, AdmitirEsperar, AdmitirGrado,
       AdmitirSinSuspendidos, AdmitirPedirTabla, AdmitirTabla, Wait, Pasar, Pedir, RecibirRespuesta
  <2>. QED  BY <2>1, <2>2
<1>6. CASE Finalizar
  BY <1>6, <1>1, <1>4 DEF Finalizar, FinalizarEsperar, FinalizarPedir, FinalizarRespuesta,
     FinalizarAvisar, FinalizarGrado, Wait, Post, Pedir, RecibirRespuesta
<1>7. CASE Blocked
  <2>1. CASE TransicionInterrupcion("blocked")
    BY <2>1, <1>4 DEF TransicionInterrupcion, VerExec, Marcar, Mensaje, PostReady, Pasar, Post
  <2>2. CASE ~ TransicionInterrupcion("blocked")
    BY <1>7, <2>2, <1>1, <1>2, <1>4 DEF Blocked, BlockedEsperar, BlockedDecidir, BlockedIOAntes,
       BlockedIO, SuspenderPedir, SuspenderRespuesta, SuspenderGrado, BlockedIOResto,
       BlockedPostSusp, Wait, Post, Pasar, Pedir, RecibirRespuesta
  <2>. QED  BY <2>1, <2>2
<1>8. CASE SuspendedReady
  BY <1>8, <1>1, <1>2, <1>4 DEF SuspendedReady, SuspEsperar, SuspPost, Wait, Post
<1>9. CASE \/ \E p \in Procesos : Cliente(p)
           \/ Ciclo \/ CpuInterrumpir \/ CpuMemoria \/ MemoriaAtender \/ UNCHANGED vars
  BY <1>9, <1>3, <1>4 DEF Cliente, ClientePost, Ciclo, CpuRecibir, CpuInstruccion, CpuChequear,
     CpuSinExit, CpuInterrumpir, CpuMemoria, CpuFalloSinContador, CpuSinMemoria,
         MemoriaAtender, vars
<1>. QED  BY <1>5, <1>6, <1>7, <1>8, <1>9

\* A step of a thread that touches neither Exec nor what is in Ready or with
\* estadoReady.
LEMMA AjenaCabeza ==
    ASSUME TypeOK, NuncaListaVacia, Cabeza, ExecAjena,
           hilo'["exec"] = hilo["exec"], hilo'["ready"] = hilo["ready"]
    PROVE  Cabeza'
<1>1. hilo'["exec"].en \in ConCabeza => cola'["exec"] # <<>> /\ hilo'["exec"].p = Head(cola'["exec"])
  BY DEF Cabeza, ExecAjena
<1>2. Mano("ready")' = Mano("ready") /\ Vista("exec")' = Vista("exec")
  BY DEF Mano, Vista, En, ExecAjena
<1>3. Rango(cola["ready"]) \subseteq Rango(cola'["ready"])
  <2>1. cola["ready"] \in Seq(Procesos)
    BY Nombres DEF TypeOK
  <2>2. CASE cola'["ready"] = cola["ready"]
    BY <2>2
  <2>3. ASSUME NEW p \in Procesos, cola'["ready"] = Append(cola["ready"], p)
        PROVE  Rango(cola["ready"]) \subseteq Rango(cola'["ready"])
    <3>1. Rango(Append(cola["ready"], p)) = Rango(cola["ready"]) \cup {p}
      BY <2>1, AppendRango
    <3>. QED  BY <2>3, <3>1
  <2>. QED  BY <2>2, <2>3 DEF ExecAjena
<1>4. En("exec", "d_sacar")' =>
        hilo'["exec"].p \in Rango(cola'["ready"]) \cup Mano("ready")' \cup Rango(Vista("exec")')
  BY <1>2, <1>3 DEF Cabeza, En
<1>. QED  BY <1>1, <1>4 DEF Cabeza, Rango

LEMMA ReadyCabeza ==
    ASSUME TypeOK, NuncaListaVacia, Reparte, Cabeza, Ready
    PROVE  Cabeza'
<1>0. hilo'["exec"] = hilo["exec"]
  BY ReadyAjeno, Nombres DEF Ajeno
<1>1. CASE ReadyElegir
  <2>1. PICK i \in 1..Len(cola["ready"]) :
          /\ Toma("ready", cola["ready"][i], "a_exec")
          /\ cola' = [cola EXCEPT !["ready"] = Quitar(@, i)]
    BY <1>1 DEF ReadyElegir
  <2>2. cola["ready"] \in Seq(Procesos) /\ Inyectiva(cola["ready"])
    BY Nombres DEF TypeOK, Reparte, SinRepetir, Vista
  <2>3. Quitar(cola["ready"], i) \in Seq(Procesos) /\ Falta(cola["ready"], i, Quitar(cola["ready"], i))
    BY <2>2, QuitarFalta
  <2>4. Rango(Quitar(cola["ready"], i)) = Rango(cola["ready"]) \ {cola["ready"][i]}
    BY <2>2, <2>3, FaltaRango
  <2>5. cola'["ready"] = Quitar(cola["ready"], i) /\ cola'["exec"] = cola["exec"]
    BY <2>1, Nombres DEF TypeOK
  <2>6. Mano("ready")' = {cola["ready"][i]} /\ Mano("ready") = {}
    BY <1>1, <2>1, Nombres DEF ReadyElegir, Toma, Mano, FueraDeCola, En, TypeOK, HilosOK
  <2>7. Vista("exec")' = Vista("exec")
    BY <1>0, <2>5 DEF Vista, En
  <2>8. Rango(cola["ready"]) \cup Mano("ready") \cup Rango(Vista("exec"))
         = Rango(cola'["ready"]) \cup Mano("ready")' \cup Rango(Vista("exec")')
    <3>1. cola["ready"][i] \in Rango(cola["ready"])
      BY DEF Rango
    <3>2. Rango(cola'["ready"]) = Rango(cola["ready"]) \ {cola["ready"][i]}
      BY <2>4, <2>5
    <3>. QED  BY <2>6, <2>7, <3>1, <3>2
  <2>. QED  BY <1>0, <2>5, <2>8 DEF Cabeza, En, Rango
<1>2. CASE ReadyAgregar
  <2>. DEFINE p == hilo["ready"].p
  <2>1. /\ hilo["ready"].en = "a_exec" /\ hilo'["ready"].en = "post_exec" /\ p \in Procesos
        /\ cola' = [cola EXCEPT !["exec"] = Append(@, p)]
    BY <1>2, Nombres DEF ReadyAgregar, Agregar, Sigue, En, TypeOK, HilosOK, SinProceso
  <2>2. Mano("ready") = {p} /\ cola'["ready"] = cola["ready"] /\ cola'["exec"] = Append(cola["exec"], p)
    BY <2>1, Nombres DEF Mano, FueraDeCola, TypeOK
  <2>3. Vista("exec") \in Seq(Procesos) /\ Vista("exec")' = Append(Vista("exec"), p)
    <3>1. En("exec", "d_sacar")' <=> En("exec", "d_sacar")
      BY <1>0 DEF En
    <3>. HIDE DEF p
    <3>. QED  BY <2>1, <3>1, VistaAgregar, Nombres
  <2>. HIDE DEF p
  <2>4. Rango(Vista("exec")') = Rango(Vista("exec")) \cup {p}
    <3>1. Rango(Append(Vista("exec"), p)) = Rango(Vista("exec")) \cup {p}
      BY <2>1, <2>3, AppendRango
    <3>. QED  BY <2>3, <3>1
  <2>5. Rango(cola["ready"]) \cup Mano("ready") \cup Rango(Vista("exec"))
         \subseteq Rango(cola'["ready"]) \cup Mano("ready")' \cup Rango(Vista("exec")')
    BY <2>2, <2>4
  <2>6. cola["exec"] # <<>> => cola'["exec"] # <<>> /\ Head(cola'["exec"]) = Head(cola["exec"])
    <3>1. cola["exec"] \in Seq(Procesos)
      BY Nombres DEF TypeOK
    <3>. QED  BY <3>1, <2>1, <2>2
  <2>. QED  BY <1>0, <2>5, <2>6 DEF Cabeza, En, Rango
<1>3. CASE ~ ReadyElegir /\ ~ ReadyAgregar
  <2>1. PICK l, m \in {"inicio", "desalojo", "mirar", "contar", "elegir", "indefinido", "post_exec"} :
          En("ready", l) /\ Sigue("ready", m) /\ cola' = cola
    BY <1>3 DEF Ready, ReadyEsperar, ReadyDesalojo, ReadyMirar, ReadyContar, ReadyPost,
         Wait, Post, Pasar
  <2>2. Mano("ready")' = Mano("ready")
    BY <2>1, Nombres DEF Mano, FueraDeCola, En, Sigue, TypeOK, HilosOK
  <2>3. Vista("exec")' = Vista("exec")
    BY <1>0, <2>1 DEF Vista, En
  <2>. QED  BY <1>0, <2>1, <2>2, <2>3 DEF Cabeza, En, Rango
<1>. QED  BY <1>1, <1>2, <1>3

LEMMA ExecCabeza ==
    ASSUME TypeOK, NuncaListaVacia, Cabeza, Exec
    PROVE  Cabeza'
<1>. USE Nombres
<1>1. CASE DesalojoAReady
  <2>. DEFINE p == hilo["exec"].p
  <2>1. /\ hilo["exec"].en = "d_ready" /\ hilo'["exec"].en = "d_sacar" /\ hilo'["exec"].p = p
        /\ p \in Procesos /\ cola' = [cola EXCEPT !["ready"] = Append(@, p)]
    BY <1>1 DEF DesalojoAReady, Agregar, Sigue, En, TypeOK, HilosOK, SinProceso
  <2>2. cola["exec"] # <<>> /\ p = Head(cola["exec"])
    BY <2>1 DEF Cabeza, ConCabeza, ConProceso
  <2>3. cola'["exec"] = cola["exec"] /\ cola'["ready"] = Append(cola["ready"], p)
        /\ cola["ready"] \in Seq(Procesos)
    BY <2>1 DEF TypeOK
  <2>. HIDE DEF p
  <2>4. p \in Rango(cola'["ready"])
    BY <2>1, <2>3, AppendRango
  <2>. QED  BY <2>1, <2>2, <2>3, <2>4 DEF Cabeza, Rango
<1>2. CASE ExecTomar
  <2>1. /\ hilo'["exec"].en = "despachar" /\ hilo'["exec"].p = Head(cola["exec"])
        /\ cola["exec"] # <<>> /\ cola' = cola
    BY <1>2 DEF ExecTomar, Toma, TypeOK, HilosOK
  <2>. QED  BY <2>1 DEF Cabeza, En
<1>3. CASE \/ DesalojoSacar \/ DesalojoBajar \/ DesalojoPost \/ ExecSacar \/ ExecEncolar
           \/ ExecPostCola \/ ExecPostExtra \/ ExecEsperar
  <2>1. PICK m \in {"d_bajar", "d_post", "inicio", "encolar", "post_cola", "post_extra", "tomar"} :
          Sigue("exec", m)
    BY <1>3 DEF DesalojoSacar, DesalojoBajar, DesalojoPost, ExecSacar, ExecEncolar, ExecPostCola,
       ExecPostExtra, ExecEsperar, Wait, Post, Agregar, BajarInterrupcion
  <2>2. hilo'["exec"].en = m
    BY <2>1 DEF Sigue, TypeOK, HilosOK
  <2>. QED  BY <2>2 DEF Cabeza, ConCabeza, ConProceso, En
<1>4. CASE \/ ExecDespachar \/ ExecRecibir \/ ExecDesalojar \/ ExecNoDesalojar \/ ExecBajar
           \/ ExecPostDesalojo
  <2>1. PICK l \in {"despachar", "recibir", "decidir", "bajar", "post_desalojo"},
             m \in {"recibir", "decidir", "d_ready", "bajar", "post_desalojo", "sacar"} :
          En("exec", l) /\ Sigue("exec", m) /\ cola' = cola
    BY <1>4 DEF ExecDespachar, ExecRecibir, ExecDesalojar, ExecNoDesalojar, ExecBajar,
       ExecPostDesalojo, Post, Pasar, BajarInterrupcion
  <2>2. hilo["exec"].en = l /\ hilo'["exec"].en = m /\ hilo'["exec"].p = hilo["exec"].p
    BY <2>1 DEF Sigue, En, TypeOK, HilosOK
  <2>. QED  BY <2>1, <2>2 DEF Cabeza, ConCabeza, ConProceso, En
<1>. QED  BY <1>1, <1>2, <1>3, <1>4 DEF Exec

LEMMA PasoCabeza ==
    ASSUME TypeOK, NuncaListaVacia, Reparte, Cabeza, [Next]_vars
    PROVE  Cabeza'
<1>1. CASE Ready
  BY <1>1, ReadyCabeza
<1>2. CASE Exec
  BY <1>2, ExecCabeza
<1>3. CASE \E t \in Hilos \ {"ready", "exec"} : Ajeno(t) /\ ExecAjena
  BY <1>3, AjenaCabeza, Nombres DEF Ajeno
<1>4. CASE \/ \E p \in Procesos : Cliente(p)
           \/ Ciclo \/ CpuInterrumpir \/ CpuMemoria \/ MemoriaAtender \/ UNCHANGED vars
  BY <1>4, NadieMueve, OtrosExecAjena, AjenaCabeza
<1>. QED  BY <1>1, <1>2, <1>3, <1>4, PasoAjeno, OtrosExecAjena, Nombres

-----------------------------------------------------------------------------
(* The theorems.                                                           *)

LEMMA LugaresPartes == LugaresOK <=> Reparte /\ Cabeza
BY DEF LugaresOK, Reparte

LEMMA InitLugares == Init => LugaresOK
<1>. SUFFICES ASSUME Init
              PROVE  Reparte /\ Cabeza
  BY LugaresPartes
<1>1. \A c \in Colas : cola[c] = <<>> /\ Vista(c) = <<>>
  BY Nombres DEF Init, Vista, En
<1>2. \A t \in Hilos : hilo[t].en = "inicio" /\ Mano(t) = {}
  BY DEF Init, Mano, FueraDeCola, Hilos, SinProceso
<1>3. \A z \in Zonas : Reparto[z] = {}
  <2>1. \A c \in Colas : Rango(Vista(c)) = {}
    BY <1>1 DEF Rango
  <2>. QED  BY <1>2, <2>1, Zona, ZonaReparto
<1>4. SinRepetir
  BY <1>1 DEF SinRepetir, Inyectiva
<1>5. Disjuntas(Reparto) /\ Juntas(Reparto) = {}
  BY <1>3 DEF Disjuntas, Juntas
<1>6. EnCurso = {} /\ finalizadas = {}
  BY DEF EnCurso, Init
<1>7. Cabeza
  BY <1>2, Nombres DEF Cabeza, ConCabeza, ConProceso, En
<1>. QED  BY <1>4, <1>5, <1>6, <1>7 DEF Reparte

\* For every set of processes and every interleaving, the lists and the hands
\* of the planner threads split among themselves the processes between their
\* connection and the message to their console, no list holds a process twice,
\* and estadoExec holds the first of Exec.
THEOREM RepartoCorrecto == Spec => []LugaresOK
<1>1. Init => Reparte /\ Cabeza
  BY InitLugares, LugaresPartes
<1>2. TypeOK /\ NuncaListaVacia /\ Reparte /\ Cabeza /\ [Next]_vars => (Reparte /\ Cabeza)'
  BY PasoReparte, PasoCabeza
<1>3. Spec => []TypeOK
  BY TypeCorrect
<1>4. Spec => []NuncaListaVacia
  BY SinListaVacia
<1>5. Spec => [](Reparte /\ Cabeza)
  BY <1>1, <1>2, <1>3, <1>4, PTL DEF Spec
<1>. QED  BY <1>5, LugaresPartes, PTL

\* A place of a process is a position of a list or a hand.
LEMMA LugarEnZona ==
    ASSUME TypeOK, NuncaListaVacia, NEW p
    PROVE  /\ \A c \in Colas : p \in Rango(Vista(c)) => \E i \in DOMAIN cola[c] : <<c, i>> \in Lugares(p)
           /\ \A t \in Hilos : p \in Mano(t) => <<t, 0>> \in Lugares(p)
           /\ \A x \in Lugares(p) :
                \/ \E t \in Hilos : x = <<t, 0>> /\ p \in Mano(t)
                \/ \E c \in Colas : \E i \in DOMAIN cola[c] :
                     /\ x = <<c, i>> /\ cola[c][i] = p
                     /\ ~ (c = "exec" /\ i = 1 /\ En("exec", "d_sacar"))
<1>0. \A c \in Colas : cola[c] \in Seq(Procesos) /\ DOMAIN cola[c] = 1..Len(cola[c])
  BY LenProperties DEF TypeOK
<1>1. \A t \in Hilos : p \in Mano(t) <=> hilo[t].p = p /\ hilo[t].en \in FueraDeCola[t]
  BY DEF Mano
<1>2. ASSUME NEW c \in Colas, p \in Rango(Vista(c))
      PROVE  \E i \in DOMAIN cola[c] : <<c, i>> \in Lugares(p)
  <2>1. PICK i \in 1..Len(Vista(c)) : Vista(c)[i] = p
    BY <1>2 DEF Rango
  <2>2. CASE c = "exec" /\ En("exec", "d_sacar")
    <3>1. Vista(c) = Tail(cola[c]) /\ cola[c] # <<>>
      BY <2>2 DEF Vista, NuncaListaVacia, En
    <3>2. i + 1 \in 1..Len(cola[c]) /\ cola[c][i + 1] = p /\ i + 1 # 1
      BY <1>0, <2>1, <3>1, HeadTailProperties, EmptySeq
    <3>. QED  BY <1>0, <3>2 DEF Lugares, Posiciones
  <2>3. CASE ~ (c = "exec" /\ En("exec", "d_sacar"))
    <3>1. Vista(c) = cola[c]
      BY <2>3 DEF Vista
    <3>. QED  BY <1>0, <2>1, <2>3, <3>1 DEF Lugares, Posiciones
  <2>. QED  BY <2>2, <2>3
<1>3. \A t \in Hilos : p \in Mano(t) => <<t, 0>> \in Lugares(p)
  BY <1>1 DEF Lugares
<1>4. ASSUME NEW x \in Lugares(p)
      PROVE  \/ \E t \in Hilos : x = <<t, 0>> /\ p \in Mano(t)
             \/ \E c \in Colas : \E i \in DOMAIN cola[c] :
                  /\ x = <<c, i>> /\ cola[c][i] = p
                  /\ ~ (c = "exec" /\ i = 1 /\ En("exec", "d_sacar"))
  <2>1. CASE \E t \in Hilos : x = <<t, 0>> /\ hilo[t].p = p /\ hilo[t].en \in FueraDeCola[t]
    BY <1>1, <2>1
  <2>2. CASE /\ x \in Posiciones /\ cola[x[1]][x[2]] = p
             /\ ~ (x = <<"exec", 1>> /\ En("exec", "d_sacar"))
    <3>1. PICK c \in Colas : \E i \in DOMAIN cola[c] : x = <<c, i>>
      BY <2>2 DEF Posiciones
    <3>2. PICK i \in DOMAIN cola[c] : x = <<c, i>>
      BY <3>1
    <3>. QED  BY <2>2, <3>2
  <2>. QED  BY <1>4, <2>1, <2>2 DEF Lugares
<1>. QED  BY <1>2, <1>3, <1>4

\* Two positions of a list that hold the same process are the same.
LEMMA PosicionUnica ==
    ASSUME TypeOK, NuncaListaVacia, SinRepetir, NEW c \in Colas,
           NEW i \in DOMAIN cola[c], ~ (c = "exec" /\ i = 1 /\ En("exec", "d_sacar"))
    PROVE  /\ cola[c][i] \in Rango(Vista(c))
           /\ \A j \in DOMAIN cola[c] :
                /\ cola[c][j] = cola[c][i]
                /\ ~ (c = "exec" /\ j = 1 /\ En("exec", "d_sacar"))
                => i = j
<1>0. cola[c] \in Seq(Procesos) /\ DOMAIN cola[c] = 1..Len(cola[c]) /\ Inyectiva(Vista(c))
  BY LenProperties DEF TypeOK, SinRepetir
<1>1. CASE c = "exec" /\ En("exec", "d_sacar")
  <2>1. Vista(c) = Tail(cola[c]) /\ cola[c] # <<>>
    BY <1>1 DEF Vista, NuncaListaVacia, En
  <2>2. \A j \in 1..Len(cola[c]) :
           j # 1 => j - 1 \in 1..Len(Vista(c)) /\ Vista(c)[j - 1] = cola[c][j]
    BY <1>0, <2>1, HeadTailProperties, EmptySeq
  <2>3. i \in 1..Len(cola[c]) /\ i # 1
    BY <1>0, <1>1
  <2>4. cola[c][i] \in Rango(Vista(c))
    BY <2>2, <2>3 DEF Rango
  <2>5. ASSUME NEW j \in 1..Len(cola[c]), cola[c][j] = cola[c][i], j # 1
        PROVE  i = j
    <3>1. /\ i - 1 \in 1..Len(Vista(c)) /\ j - 1 \in 1..Len(Vista(c))
          /\ Vista(c)[i - 1] = Vista(c)[j - 1]
      BY <2>2, <2>3, <2>5
    <3>2. i - 1 = j - 1
      BY <1>0, <3>1 DEF Inyectiva
    <3>. QED  BY <2>3, <3>2
  <2>. QED  BY <1>0, <1>1, <2>4, <2>5
<1>2. CASE ~ (c = "exec" /\ En("exec", "d_sacar"))
  <2>1. Vista(c) = cola[c]
    BY <1>2 DEF Vista
  <2>. QED  BY <1>0, <1>2, <2>1 DEF Rango, Inyectiva
<1>. QED  BY <1>1, <1>2

\* A process is in one list or one hand.
LEMMA UnaZona ==
    ASSUME Disjuntas(Reparto), NEW p
    PROVE  /\ \A c, d \in Colas : p \in Rango(Vista(c)) /\ p \in Rango(Vista(d)) => c = d
           /\ \A t, u \in Hilos : p \in Mano(t) /\ p \in Mano(u) => t = u
           /\ \A c \in Colas, t \in Hilos : ~ (p \in Rango(Vista(c)) /\ p \in Mano(t))
<1>1. \A y, z \in Zonas : p \in Reparto[y] /\ p \in Reparto[z] => y = z
  BY DEF Disjuntas
<1>2. ASSUME NEW c \in Colas, NEW d \in Colas, p \in Rango(Vista(c)), p \in Rango(Vista(d))
      PROVE  c = d
  <2>1. <<"cola", c>> = <<"cola", d>>
    BY <1>1, <1>2, Zona, ZonaReparto
  <2>. QED  BY <2>1
<1>3. ASSUME NEW t \in Hilos, NEW u \in Hilos, p \in Mano(t), p \in Mano(u)
      PROVE  t = u
  <2>1. <<"mano", t>> = <<"mano", u>>
    BY <1>1, <1>3, Zona, ZonaReparto
  <2>. QED  BY <2>1
<1>4. ASSUME NEW c \in Colas, NEW t \in Hilos, p \in Rango(Vista(c)), p \in Mano(t)
      PROVE  FALSE
  <2>1. <<"cola", c>> = <<"mano", t>>
    BY <1>1, <1>4, Zona, ZonaReparto
  <2>. QED  BY <2>1
<1>. QED  BY <1>2, <1>3, <1>4

LEMMA RepartoUnSoloLugar ==
    ASSUME TypeOK, NuncaListaVacia, LugaresOK
    PROVE  UnSoloLugar
<1>. SUFFICES ASSUME NEW p \in Procesos
              PROVE  Cardinality(Lugares(p)) = IF p \in EnCurso THEN 1 ELSE 0
  BY DEF UnSoloLugar, EnCurso
<1>0. SinRepetir /\ Disjuntas(Reparto) /\ Juntas(Reparto) = EnCurso
  BY DEF LugaresOK
<1>1. p \in EnCurso <=> \E z \in Zonas : p \in Reparto[z]
  BY <1>0 DEF Juntas
<1>2. ASSUME NEW x \in Lugares(p)
      PROVE  \/ \E t \in Hilos : x = <<t, 0>> /\ p \in Mano(t)
             \/ \E c \in Colas : \E i \in DOMAIN cola[c] :
                  /\ x = <<c, i>> /\ cola[c][i] = p /\ p \in Rango(Vista(c))
                  /\ ~ (c = "exec" /\ i = 1 /\ En("exec", "d_sacar"))
  BY <1>0, LugarEnZona, PosicionUnica
<1>3. CASE p \notin EnCurso
  <2>1. Lugares(p) = {}
    BY <1>1, <1>2, <1>3, Zona, ZonaReparto
  <2>. QED  BY <1>3, <2>1, FS_EmptySet
<1>4. CASE p \in EnCurso
  <2>1. PICK x : x \in Lugares(p)
    <3>1. PICK z \in Zonas : p \in Reparto[z]
      BY <1>1, <1>4
    <3>2. CASE \E c \in Colas : z = <<"cola", c>>
      <4>1. PICK c \in Colas : p \in Rango(Vista(c))
        BY <3>1, <3>2, ZonaReparto
      <4>. QED  BY <4>1, LugarEnZona
    <3>3. CASE \E t \in Hilos : z = <<"mano", t>>
      <4>1. PICK t \in Hilos : p \in Mano(t)
        BY <3>1, <3>3, ZonaReparto
      <4>. QED  BY <4>1, LugarEnZona
    <3>. QED  BY <3>2, <3>3, Zona
  <2>2. ASSUME NEW y \in Lugares(p)
        PROVE  x = y
    <3>1. \A t, u \in Hilos : p \in Mano(t) /\ p \in Mano(u) => t = u
      BY <1>0, UnaZona
    <3>2. \A c, d \in Colas : p \in Rango(Vista(c)) /\ p \in Rango(Vista(d)) => c = d
      BY <1>0, UnaZona
    <3>3. \A c \in Colas, t \in Hilos : ~ (p \in Rango(Vista(c)) /\ p \in Mano(t))
      BY <1>0, UnaZona
    <3>4. CASE \E t \in Hilos : x = <<t, 0>> /\ p \in Mano(t)
      BY <1>2, <3>1, <3>3, <3>4
    <3>5. CASE \E c \in Colas : \E i \in DOMAIN cola[c] :
                 /\ x = <<c, i>> /\ cola[c][i] = p /\ p \in Rango(Vista(c))
                 /\ ~ (c = "exec" /\ i = 1 /\ En("exec", "d_sacar"))
      BY <1>0, <1>2, <3>2, <3>3, <3>5, PosicionUnica
    <3>. QED  BY <1>2, <2>1, <3>4, <3>5
  <2>3. Lugares(p) = {x}
    BY <2>1, <2>2
  <2>. QED  BY <1>4, <2>3, FS_Singleton
<1>. QED  BY <1>3, <1>4

\* No process is lost and none is planned twice: from the list_add of its
\* console's thread until FINALIZAR_CONSOLA it is in exactly one list or in the
\* hands of exactly one thread, whatever the number of processes.
THEOREM UnLugarSiempre == Spec => []UnSoloLugar
<1>1. TypeOK /\ NuncaListaVacia /\ LugaresOK => UnSoloLugar
  BY RepartoUnSoloLugar
<1>. QED  BY <1>1, TypeCorrect, SinListaVacia, RepartoCorrecto, PTL

-----------------------------------------------------------------------------
(* GRADO_MULTIPROGRAMACION.                                                *)

\* A finite set of at most n elements.
HastaN(S, n) == IsFiniteSet(S) /\ Cardinality(S) \in Nat /\ Cardinality(S) <= n

LEMMA UnionCota ==
    ASSUME NEW S, NEW T, IsFiniteSet(S), IsFiniteSet(T)
    PROVE  /\ IsFiniteSet(S \cup T)
           /\ Cardinality(S \cup T) \in Nat /\ Cardinality(S) \in Nat /\ Cardinality(T) \in Nat
           /\ Cardinality(S \cup T) <= Cardinality(S) + Cardinality(T)
<1>1. /\ IsFiniteSet(S \cup T)
      /\ Cardinality(S \cup T) = Cardinality(S) + Cardinality(T) - Cardinality(S \cap T)
  BY FS_Union
<1>2. IsFiniteSet(S \cap T)
  <2>1. S \cap T \in SUBSET S
    OBVIOUS
  <2>. QED  BY <2>1, FS_Subset
<1>3. /\ Cardinality(S \cap T) \in Nat /\ Cardinality(S \cup T) \in Nat
      /\ Cardinality(S) \in Nat /\ Cardinality(T) \in Nat
  BY <1>1, <1>2, FS_CardinalityType
<1>. QED  BY <1>1, <1>3

LEMMA UnionTres ==
    ASSUME NEW S, NEW T, NEW U, IsFiniteSet(S), IsFiniteSet(T), IsFiniteSet(U)
    PROVE  /\ IsFiniteSet(S \cup T \cup U) /\ Cardinality(S \cup T \cup U) \in Nat
           /\ Cardinality(S \cup T \cup U) <= Cardinality(S) + Cardinality(T) + Cardinality(U)
<1>. DEFINE V == S \cup T
<1>1. /\ IsFiniteSet(V) /\ Cardinality(V) \in Nat /\ Cardinality(S) \in Nat
      /\ Cardinality(T) \in Nat /\ Cardinality(V) <= Cardinality(S) + Cardinality(T)
  BY UnionCota
<1>. HIDE DEF V
<1>2. /\ IsFiniteSet(V \cup U) /\ Cardinality(V \cup U) \in Nat /\ Cardinality(U) \in Nat
      /\ Cardinality(V \cup U) <= Cardinality(V) + Cardinality(U)
  BY <1>1, UnionCota
<1>3. Cardinality(V \cup U) <= Cardinality(S) + Cardinality(T) + Cardinality(U)
  BY <1>1, <1>2
<1>. QED  BY <1>2, <1>3 DEF V

LEMMA RangoCota ==
    ASSUME NEW S, NEW s \in Seq(S)
    PROVE  HastaN(Rango(s), Len(s))
<1>. DEFINE f == [i \in 1..Len(s) |-> s[i]]
<1>1. Len(s) \in Nat
  BY LenProperties
<1>2. f \in Surjection(1..Len(s), Rango(s))
  BY DEF Surjection, Rango
<1>3. IsFiniteSet(1..Len(s)) /\ Cardinality(1..Len(s)) = Len(s)
  BY <1>1, FS_Interval
<1>. HIDE DEF f
<1>4. IsFiniteSet(Rango(s)) /\ Cardinality(Rango(s)) <= Len(s)
  BY <1>2, <1>3, FS_Surjection
<1>. QED  BY <1>4, FS_CardinalityType DEF HastaN

\* A thread holds a process outside the lists only at a step that takes a unit
\* of sem_grado_multiprogramacion.
LEMMA ManoCota ==
    ASSUME TypeOK, NEW t \in Hilos \ {"suspReady"}
    PROVE  HastaN(Mano(t), Uno(Paso(t) \in DeGrado[t]))
<1>1. CASE Mano(t) = {}
  BY <1>1, FS_EmptySet DEF HastaN, Uno
<1>2. CASE Mano(t) # {}
  <2>1. hilo[t].en \in FueraDeCola[t] /\ Mano(t) = {hilo[t].p}
    BY <1>2 DEF Mano
  <2>2. Paso(t) = hilo[t].en
    BY <2>1 DEF Paso, En, FueraDeCola
  <2>3. Uno(Paso(t) \in DeGrado[t]) = 1
    BY <2>1, <2>2, Nombres DEF FueraDeCola, DeGrado, Ninguno, Hilos, SinProceso, Uno
  <2>4. IsFiniteSet(Mano(t)) /\ Cardinality(Mano(t)) = 1
    <3>1. \A x : IsFiniteSet({x}) /\ Cardinality({x}) = 1
      BY FS_Singleton
    <3>. QED  BY <2>1, <3>1
  <2>. QED  BY <2>3, <2>4 DEF HastaN
<1>. QED  BY <1>1, <1>2

\* A preempted process is the first of Exec and is somewhere else already.
LEMMA MultiprogramadosZonas ==
    ASSUME TypeOK, NuncaListaVacia, LugaresOK
    PROVE  Multiprogramados \subseteq
             (Rango(Vista("ready")) \cup Rango(Vista("exec")) \cup Rango(Vista("blocked")))
             \cup (Rango(Vista("exit")) \cup Mano("admitir") \cup Mano("finalizar"))
             \cup (Mano("ready") \cup Mano("exec") \cup Mano("blocked"))
<1>1. /\ Vista("ready") = cola["ready"] /\ Vista("blocked") = cola["blocked"]
      /\ Vista("exit") = cola["exit"] /\ (En("exec", "d_sacar") \/ Vista("exec") = cola["exec"])
  BY DEF Vista
<1>2. En("exec", "d_sacar") =>
        /\ cola["exec"] # <<>> /\ Vista("exec") = Tail(cola["exec"])
        /\ Head(cola["exec"]) \in Rango(cola["ready"]) \cup Mano("ready") \cup Rango(Vista("exec"))
  BY <1>1 DEF LugaresOK, Cabeza, ConCabeza, ConProceso, En, Vista
<1>3. cola["exec"] \in Seq(Procesos)
  BY Nombres DEF TypeOK
<1>4. EnCola("exec") \subseteq
        Rango(cola["ready"]) \cup Mano("ready") \cup Rango(Vista("exec"))
  <2>1. CASE En("exec", "d_sacar")
    <3>1. ASSUME NEW i \in 1..Len(cola["exec"])
          PROVE  cola["exec"][i] = Head(cola["exec"]) \/ cola["exec"][i] \in Rango(Vista("exec"))
      <4>1. CASE i = 1
        BY <1>2, <1>3, <2>1, <4>1, TailFalta
      <4>2. CASE i # 1
        <5>1. /\ i - 1 \in 1..Len(Tail(cola["exec"]))
              /\ Tail(cola["exec"])[i - 1] = cola["exec"][(i - 1) + 1]
          BY <1>2, <1>3, <2>1, <4>2, HeadTailProperties, EmptySeq
        <5>2. (i - 1) + 1 = i
          OBVIOUS
        <5>. QED  BY <1>2, <2>1, <5>1, <5>2 DEF Rango
      <4>. QED  BY <4>1, <4>2
    <3>. QED  BY <1>2, <2>1, <3>1 DEF EnCola
  <2>2. CASE ~ En("exec", "d_sacar")
    BY <1>1, <2>2 DEF EnCola, Rango
  <2>. QED  BY <2>1, <2>2
<1>5. EnCola("ready") \cup EnCola("blocked") \cup EnCola("exit")
        = Rango(cola["ready"]) \cup Rango(cola["blocked"]) \cup Rango(cola["exit"])
  BY DEF EnCola, Rango
<1>6. ASSUME NEW t \in Hilos \ {"suspReady"}, hilo[t].en \in FueraDeCola[t]
      PROVE  hilo[t].p \in Mano("admitir") \cup Mano("finalizar") \cup Mano("ready")
                           \cup Mano("exec") \cup Mano("blocked")
  <2>1. hilo[t].p \in Mano(t)
    BY <1>6 DEF Mano
  <2>2. t \in {"admitir", "finalizar", "ready", "exec", "blocked"}
    BY DEF Hilos, SinProceso
  <2>. QED  BY <2>1, <2>2
<1>. QED  BY <1>1, <1>4, <1>5, <1>6 DEF Multiprogramados

LEMMA CuentaGradoRespetado ==
    ASSUME TypeOK, NuncaListaVacia, CuentaGrado, LugaresOK
    PROVE  GradoRespetado
<1>. DEFINE R(c) == Rango(Vista(c))
            u(t) == Uno(Paso(t) \in DeGrado[t])
            d == EnPasos(EnDosListas)
<1>1. \A c \in Colas : Vista(c) \in Seq(Procesos)
  <2>1. \A c \in Colas : cola[c] \in Seq(Procesos)
    BY DEF TypeOK
  <2>2. En("exec", "d_sacar") => cola["exec"] # <<>>
    BY DEF NuncaListaVacia, En
  <2>. QED  BY <2>1, <2>2, HeadTailProperties DEF Vista
<1>2. \A c \in Colas : HastaN(R(c), Len(Vista(c)))
  BY <1>1, RangoCota
<1>3. /\ Len(Vista("ready")) = N("ready") /\ Len(Vista("blocked")) = N("blocked")
      /\ Len(Vista("exit")) = N("exit")
  BY DEF N, Vista
<1>4. Len(Vista("exec")) = N("exec") - d /\ d \in Nat
  <2>1. d = IF Paso("exec") = "d_sacar" THEN 1 ELSE 0
    BY Nombres DEF EnPasos, EnDosListas, Ninguno, Uno, Hilos, SinProceso
  <2>2. Paso("exec") = "d_sacar" <=> En("exec", "d_sacar")
    BY DEF Paso, En, Destino
  <2>. HIDE DEF d
  <2>3. N("exec") \in Nat /\ cola["exec"] \in Seq(Procesos)
    BY Naturales, Nombres DEF TypeOK
  <2>4. CASE En("exec", "d_sacar")
    <3>1. cola["exec"] # <<>>
      BY <2>4 DEF NuncaListaVacia, En
    <3>2. Len(Tail(cola["exec"])) = Len(cola["exec"]) - 1
      BY <2>3, <3>1, HeadTailProperties
    <3>. QED  BY <2>1, <2>2, <2>4, <3>2 DEF N, Vista
  <2>5. CASE ~ En("exec", "d_sacar")
    <3>1. Vista("exec") = cola["exec"] /\ d = 0
      BY <2>1, <2>2, <2>5 DEF Vista
    <3>. QED  BY <2>3, <3>1 DEF N
  <2>. QED  BY <2>4, <2>5
<1>5. \A t \in Hilos \ {"suspReady"} : HastaN(Mano(t), u(t))
  BY ManoCota
<1>6. \A t : u(t) \in Nat
  BY DEF Uno
<1>7. EnPasos(DeGrado) = u("admitir") + u("finalizar") + u("ready") + u("exec") + u("blocked")
  <2>1. u("suspReady") = 0
    BY Nombres DEF Uno, DeGrado, Ninguno, Hilos, SinProceso
  <2>2. EnPasos(DeGrado) = u("admitir") + u("finalizar") + u("ready") + u("exec") + u("blocked")
                           + u("suspReady")
    BY DEF EnPasos
  <2>. HIDE DEF u
  <2>. QED  BY <2>1, <2>2, <1>6
<1>8. /\ sem["grado"] \in Nat /\ Grado \in Nat /\ N("ready") \in Nat /\ N("exec") \in Nat
      /\ N("blocked") \in Nat /\ N("exit") \in Nat
  BY Naturales, Nombres, GradoAssumption
<1>9. sem["grado"] + N("ready") + N("exec") + N("blocked") + N("exit") + EnPasos(DeGrado)
        = Grado + d
  BY DEF CuentaGrado
<1>. DEFINE A == R("ready") \cup R("exec") \cup R("blocked")
            B == R("exit") \cup Mano("admitir") \cup Mano("finalizar")
            C == Mano("ready") \cup Mano("exec") \cup Mano("blocked")
<1>10. /\ IsFiniteSet(A) /\ Cardinality(A) \in Nat
       /\ Cardinality(A) <= N("ready") + (N("exec") - d) + N("blocked")
  <2>1. /\ HastaN(R("ready"), N("ready")) /\ HastaN(R("exec"), N("exec") - d)
        /\ HastaN(R("blocked"), N("blocked"))
    BY <1>2, <1>3, <1>4, Nombres
  <2>2. N("exec") - d \in Int
    BY <1>4, <1>8
  <2>3. /\ IsFiniteSet(A) /\ Cardinality(A) \in Nat
        /\ Cardinality(A) <= Cardinality(R("ready")) + Cardinality(R("exec"))
                             + Cardinality(R("blocked"))
    BY <2>1, UnionTres DEF HastaN
  <2>. HIDE DEF R, d, N, A
  <2>. QED  BY <2>1, <2>2, <2>3, <1>8 DEF HastaN
<1>11. /\ IsFiniteSet(B) /\ Cardinality(B) \in Nat
       /\ Cardinality(B) <= N("exit") + u("admitir") + u("finalizar")
  <2>1. /\ HastaN(R("exit"), N("exit")) /\ HastaN(Mano("admitir"), u("admitir"))
        /\ HastaN(Mano("finalizar"), u("finalizar"))
    BY <1>2, <1>3, <1>5, Nombres
  <2>. HIDE DEF R, u, N
  <2>. QED  BY <2>1, <1>6, <1>8, UnionTres DEF HastaN
<1>12. /\ IsFiniteSet(C) /\ Cardinality(C) \in Nat
       /\ Cardinality(C) <= u("ready") + u("exec") + u("blocked")
  <2>1. /\ HastaN(Mano("ready"), u("ready")) /\ HastaN(Mano("exec"), u("exec"))
        /\ HastaN(Mano("blocked"), u("blocked"))
    BY <1>5, Nombres
  <2>. HIDE DEF u
  <2>. QED  BY <2>1, <1>6, UnionTres DEF HastaN
<1>13. Multiprogramados \in SUBSET (A \cup B \cup C)
  BY MultiprogramadosZonas
<1>. HIDE DEF R, u, d, N, A, B, C
<1>14. /\ IsFiniteSet(A \cup B \cup C) /\ Cardinality(A \cup B \cup C) \in Nat
       /\ Cardinality(A \cup B \cup C) <= Cardinality(A) + Cardinality(B) + Cardinality(C)
  BY <1>10, <1>11, <1>12, UnionTres
<1>15. /\ IsFiniteSet(Multiprogramados)
       /\ Cardinality(Multiprogramados) <= Cardinality(A \cup B \cup C)
  BY <1>13, <1>14, FS_Subset
<1>16. Cardinality(Multiprogramados) \in Nat
  BY <1>15, FS_CardinalityType
<1>17. Cardinality(A) + Cardinality(B) + Cardinality(C) <= Grado
  <2>1. PICK g \in Nat, G \in Nat, r \in Nat, e \in Nat, b \in Nat, x \in Nat, k \in Nat :
          /\ g = sem["grado"] /\ G = Grado /\ r = N("ready") /\ e = N("exec")
          /\ b = N("blocked") /\ x = N("exit") /\ k = d
    BY <1>4, <1>8
  <2>2. PICK u1 \in Nat, u2 \in Nat, u3 \in Nat, u4 \in Nat, u5 \in Nat :
          /\ u1 = u("admitir") /\ u2 = u("finalizar") /\ u3 = u("ready")
          /\ u4 = u("exec") /\ u5 = u("blocked")
    BY <1>6
  <2>3. g + r + e + b + x + (u1 + u2 + u3 + u4 + u5) = G + k
    BY <1>7, <1>9, <2>1, <2>2
  <2>4. PICK a1 \in Nat, a2 \in Nat, a3 \in Nat :
          /\ a1 = Cardinality(A) /\ a2 = Cardinality(B) /\ a3 = Cardinality(C)
    BY <1>10, <1>11, <1>12
  <2>5. a1 <= r + (e - k) + b /\ a2 <= x + u1 + u2 /\ a3 <= u3 + u4 + u5
    BY <1>10, <1>11, <1>12, <2>1, <2>2, <2>4
  <2>6. a1 + a2 + a3 <= G
    BY <2>3, <2>5
  <2>. QED  BY <2>1, <2>4, <2>6
<1>. QED  BY <1>8, <1>10, <1>11, <1>12, <1>14, <1>15, <1>16, <1>17 DEF GradoRespetado

\* GRADO_MULTIPROGRAMACION bounds the processes in the multiprogramming at every
\* step, also while a preempted process is in Ready and in Exec at once, for
\* every degree and every number of processes.
THEOREM GradoSiempre == Spec => []GradoRespetado
<1>1. TypeOK /\ NuncaListaVacia /\ Invariante /\ LugaresOK => GradoRespetado
  BY CuentaGradoRespetado DEF Invariante, Cuentas
<1>. QED  BY <1>1, TypeCorrect, SinListaVacia, CuentasCorrectas, RepartoCorrecto, PTL

-----------------------------------------------------------------------------
(* Under FIFO, Exec, the hand of estadoReady and Ready are one queue.      *)

\* What of Exec the CPU does not have, and what estadoReady carries.
ColaDeExec ==
    IF hilo["exec"].en \in ConProceso["exec"] \ {"encolar", "post_cola", "post_extra"}
      THEN Tail(cola["exec"]) ELSE cola["exec"]
EnElMedio == IF En("ready", "a_exec") THEN <<hilo["ready"].p>> ELSE <<>>

PasoDeFila ==
    \/ Fila' = Fila
    \/ Fila # <<>> /\ Fila' = Tail(Fila)
    \/ \E p \in Procesos : Fila' = Append(Fila, p)

LEMMA FilaEs ==
    ASSUME TypeOK, Cabeza, SinInterrupciones, Algoritmo = "FIFO"
    PROVE  /\ Fila = (ColaDeExec \o EnElMedio) \o cola["ready"]
           /\ ColaDeExec \in Seq(Procesos) /\ EnElMedio \in Seq(Procesos)
           /\ cola["ready"] \in Seq(Procesos) /\ cola["exec"] \in Seq(Procesos)
           /\ hilo["exec"].en \in ConProceso["exec"] \ {"encolar", "post_cola", "post_extra"}
                => cola["exec"] # <<>> /\ ColaDeExec = Tail(cola["exec"])
<1>1. Fila = (ColaDeExec \o EnElMedio) \o cola["ready"]
  BY DEF Fila, ColaDeExec, EnElMedio
<1>2. cola["ready"] \in Seq(Procesos) /\ cola["exec"] \in Seq(Procesos)
  BY Nombres DEF TypeOK
<1>3. EnElMedio \in Seq(Procesos)
  <2>1. En("ready", "a_exec") => hilo["ready"].p \in Procesos
    BY Nombres DEF En, TypeOK, HilosOK, SinProceso
  <2>. QED  BY <2>1 DEF EnElMedio
<1>4. hilo["exec"].en \in ConProceso["exec"] \ {"encolar", "post_cola", "post_extra"}
        => cola["exec"] # <<>> /\ ColaDeExec = Tail(cola["exec"])
  BY DEF ColaDeExec, Cabeza, ConCabeza, SinInterrupciones
<1>5. ColaDeExec \in Seq(Procesos)
  BY <1>2, <1>4, HeadTailProperties DEF ColaDeExec
<1>. QED  BY <1>1, <1>2, <1>3, <1>4, <1>5

\* A process joins at the end of Ready.
LEMMA FilaAgregar ==
    ASSUME TypeOK, Cabeza, SinInterrupciones, Algoritmo = "FIFO", NEW p \in Procesos,
           ColaDeExec' = ColaDeExec, EnElMedio' = EnElMedio,
           cola'["ready"] = Append(cola["ready"], p)
    PROVE  Fila' = Append(Fila, p)
<1>. DEFINE X == ColaDeExec \o EnElMedio
            Z == cola["ready"]
<1>1. X \in Seq(Procesos) /\ Z \in Seq(Procesos) /\ <<p>> \in Seq(Procesos) /\ Fila = X \o Z
  <2>1. /\ ColaDeExec \in Seq(Procesos) /\ EnElMedio \in Seq(Procesos)
        /\ Z \in Seq(Procesos) /\ Fila = X \o Z
    BY FilaEs
  <2>2. X \in Seq(Procesos)
    BY <2>1, ConcatProperties
  <2>. QED  BY <2>1, <2>2
<1>2. Fila' = X \o Append(Z, p)
  BY DEF Fila, ColaDeExec, EnElMedio
<1>. HIDE DEF X, Z
<1>3. X \o Append(Z, p) = Append(X \o Z, p)
  <2>1. Append(Z, p) = Z \o <<p>> /\ Append(X \o Z, p) = (X \o Z) \o <<p>>
    BY <1>1, AppendIsConcat, ConcatProperties
  <2>2. X \o (Z \o <<p>>) = (X \o Z) \o <<p>>
    BY <1>1, ConcatAssociative
  <2>. QED  BY <2>1, <2>2
<1>. QED  BY <1>1, <1>2, <1>3

LEMMA PrimeroYResto ==
    ASSUME NEW S, NEW s \in Seq(S), s # <<>>
    PROVE  /\ Quitar(s, 1) = Tail(s) /\ Head(s) \in S /\ Tail(s) \in Seq(S)
           /\ s = <<Head(s)>> \o Tail(s)
<1>1. /\ Head(s) \in S /\ Tail(s) \in Seq(S) /\ Len(Tail(s)) = Len(s) - 1 /\ Len(s) \in Nat
      /\ Len(s) >= 1 /\ Head(s) = s[1] /\ \A i \in 1..Len(Tail(s)) : Tail(s)[i] = s[i + 1]
  BY HeadTailProperties, LenProperties, EmptySeq
<1>2. Quitar(s, 1) = Tail(s)
  <2>1. SubSeq(s, 1, 1 - 1) = <<>>
    OBVIOUS
  <2>2. SubSeq(s, 1 + 1, Len(s)) = Tail(s)
    BY TailIsSubSeq
  <2>3. <<>> \o Tail(s) = Tail(s)
    BY <1>1, ConcatEmptySeq
  <2>. QED  BY <2>1, <2>2, <2>3 DEF Quitar
<1>3. s = <<Head(s)>> \o Tail(s)
  <2>1. /\ <<Head(s)>> \o Tail(s) \in Seq(S)
        /\ Len(<<Head(s)>> \o Tail(s)) = Len(s)
        /\ \A i \in 1..Len(s) : (<<Head(s)>> \o Tail(s))[i] = s[i]
    <3>1. <<Head(s)>> \in Seq(S) /\ Len(<<Head(s)>>) = 1 /\ <<Head(s)>>[1] = s[1]
      BY <1>1
    <3>. HIDE DEF Quitar
    <3>2. /\ <<Head(s)>> \o Tail(s) \in Seq(S)
          /\ Len(<<Head(s)>> \o Tail(s)) = 1 + Len(Tail(s))
          /\ \A i \in 1..1 + Len(Tail(s)) :
               (<<Head(s)>> \o Tail(s))[i] = IF i <= 1 THEN <<Head(s)>>[i] ELSE Tail(s)[i - 1]
      BY <1>1, <3>1, ConcatProperties
    <3>. QED  BY <1>1, <3>1, <3>2
  <2>. QED  BY <2>1, SeqEqual
<1>. QED  BY <1>1, <1>2, <1>3

\* Four sequences in a row, grouped from the left or behind the first.
LEMMA ConcatCuatro ==
    ASSUME NEW S, NEW s \in Seq(S), NEW t \in Seq(S), NEW u \in Seq(S), NEW v \in Seq(S)
    PROVE  ((s \o t) \o u) \o v = s \o ((t \o u) \o v) /\ (t \o u) \o v \in Seq(S)
<1>1. (s \o t) \o u = s \o (t \o u)
  OBVIOUS
<1>2. t \o u \in Seq(S) /\ (t \o u) \o v \in Seq(S)
  OBVIOUS
<1>3. \A w \in Seq(S) : (s \o w) \o v = s \o (w \o v)
  OBVIOUS
<1>. QED  BY <1>1, <1>2, <1>3

\* The first of three sequences in a row is the first of the whole.
LEMMA PrimeroDeTres ==
    ASSUME NEW S, NEW h \in S, NEW t \in Seq(S), NEW u \in Seq(S), NEW v \in Seq(S)
    PROVE  /\ ((<<h>> \o t) \o u) \o v # <<>>
           /\ Tail(((<<h>> \o t) \o u) \o v) = (t \o u) \o v
<1>. DEFINE R == (t \o u) \o v
<1>1. <<h>> \in Seq(S) /\ Len(<<h>>) = 1 /\ <<h>>[1] = h
  OBVIOUS
<1>2. ((<<h>> \o t) \o u) \o v = <<h>> \o R /\ R \in Seq(S)
  <2>1. (<<h>> \o t) \o u = <<h>> \o (t \o u)
    OBVIOUS
  <2>2. t \o u \in Seq(S) /\ R \in Seq(S)
    OBVIOUS
  <2>3. \A w \in Seq(S) : (<<h>> \o w) \o v = <<h>> \o (w \o v)
    OBVIOUS
  <2>. QED  BY <2>1, <2>2, <2>3
<1>. HIDE DEF R
<1>3. /\ <<h>> \o R \in Seq(S) /\ Len(<<h>> \o R) = 1 + Len(R)
      /\ \A i \in 1..1 + Len(R) : (<<h>> \o R)[i] = IF i <= 1 THEN <<h>>[i] ELSE R[i - 1]
  BY <1>1, <1>2, ConcatProperties
<1>4. Len(R) \in Nat
  BY <1>2, LenProperties
<1>5. <<h>> \o R # <<>>
  BY <1>3, <1>4, EmptySeq
<1>6. /\ Tail(<<h>> \o R) \in Seq(S) /\ Len(Tail(<<h>> \o R)) = Len(R)
      /\ \A i \in 1..Len(R) : Tail(<<h>> \o R)[i] = R[i]
  BY <1>3, <1>4, <1>5, HeadTailProperties
<1>7. Tail(<<h>> \o R) = R
  BY <1>2, <1>6, SeqEqual
<1>. QED  BY <1>2, <1>5, <1>7 DEF R

\* estadoReady takes the first of Ready into its hand.
LEMMA FilaElegir ==
    ASSUME TypeOK, Cabeza, SinInterrupciones, Algoritmo = "FIFO", ReadyElegir
    PROVE  Fila' = Fila
<1>. DEFINE C == ColaDeExec
            Z == cola["ready"]
<1>1. Toma("ready", Z[1], "a_exec") /\ cola' = [cola EXCEPT !["ready"] = Quitar(@, 1)]
      /\ Len(Z) >= 1 /\ En("ready", "elegir")
  BY DEF ReadyElegir, Elegido
<1>2. C \in Seq(Procesos) /\ Z \in Seq(Procesos) /\ Fila = (C \o EnElMedio) \o Z
  BY FilaEs
<1>3. Z # <<>> /\ Z[1] = Head(Z)
  BY <1>1, <1>2
<1>4. cola'["ready"] = Tail(Z) /\ cola'["exec"] = cola["exec"] /\ hilo'["exec"] = hilo["exec"]
      /\ hilo'["ready"].en = "a_exec" /\ hilo'["ready"].p = Head(Z)
  BY <1>1, <1>2, <1>3, PrimeroYResto, Nombres DEF Toma, TypeOK, HilosOK
<1>5. EnElMedio = <<>> /\ EnElMedio' = <<Head(Z)>> /\ C' = C
  BY <1>1, <1>4 DEF EnElMedio, En, ColaDeExec
<1>6. Fila' = (C \o <<Head(Z)>>) \o Tail(Z)
  BY <1>4, <1>5 DEF Fila, EnElMedio, ColaDeExec
<1>. HIDE DEF C, Z
<1>7. <<Head(Z)>> \in Seq(Procesos) /\ Tail(Z) \in Seq(Procesos) /\ Z = <<Head(Z)>> \o Tail(Z)
  <2>1. Head(Z) \in Procesos /\ Tail(Z) \in Seq(Procesos) /\ Z = <<Head(Z)>> \o Tail(Z)
    BY <1>2, <1>3, PrimeroYResto
  <2>. QED  BY <2>1
<1>8. (C \o <<Head(Z)>>) \o Tail(Z) = C \o (<<Head(Z)>> \o Tail(Z))
  BY <1>2, <1>7, ConcatAssociative
<1>9. Fila = C \o Z
  <2>1. C \o <<>> = C
    BY <1>2, ConcatEmptySeq
  <2>. QED  BY <1>2, <1>5, <2>1
<1>10. Fila' = C \o Z
  BY <1>6, <1>7, <1>8
<1>. QED  BY <1>9, <1>10

\* estadoReady adds what it carries at the end of Exec.
LEMMA FilaLlevar ==
    ASSUME TypeOK, Cabeza, SinInterrupciones, Algoritmo = "FIFO", ReadyAgregar
    PROVE  Fila' = Fila
<1>. DEFINE C == ColaDeExec
            Z == cola["ready"]
            p == hilo["ready"].p
<1>1. /\ En("ready", "a_exec") /\ p \in Procesos
      /\ cola'["exec"] = Append(cola["exec"], p) /\ cola'["ready"] = Z
      /\ hilo'["exec"] = hilo["exec"] /\ hilo'["ready"].en = "post_exec"
  BY Nombres DEF ReadyAgregar, Agregar, Sigue, En, TypeOK, HilosOK, SinProceso
<1>2. /\ C \in Seq(Procesos) /\ Z \in Seq(Procesos) /\ cola["exec"] \in Seq(Procesos)
      /\ Fila = (C \o EnElMedio) \o Z
  BY FilaEs
<1>3. EnElMedio = <<p>> /\ EnElMedio' = <<>>
  BY <1>1 DEF EnElMedio, En
<1>4. C' = Append(C, p)
  <2>1. CASE hilo["exec"].en \in ConProceso["exec"] \ {"encolar", "post_cola", "post_extra"}
    <3>1. cola["exec"] # <<>> /\ C = Tail(cola["exec"])
      BY <2>1, FilaEs
    <3>2. C' = Tail(Append(cola["exec"], p))
      BY SMTT(30), <1>1, <2>1 DEF ColaDeExec
    <3>. QED  BY <1>2, <3>1, <3>2, HeadTailAppend
  <2>2. CASE hilo["exec"].en \notin ConProceso["exec"] \ {"encolar", "post_cola", "post_extra"}
    BY <1>1, <2>2 DEF ColaDeExec
  <2>. QED  BY <2>1, <2>2
<1>5. Fila' = (Append(C, p) \o <<>>) \o Z
  BY <1>1, <1>3, <1>4 DEF Fila, EnElMedio, ColaDeExec
<1>. HIDE DEF C, Z, p
<1>6. Append(C, p) \o <<>> = C \o <<p>>
  <2>1. Append(C, p) \in Seq(Procesos) /\ Append(C, p) = C \o <<p>>
    BY <1>1, <1>2, AppendProperties, AppendIsConcat
  <2>. QED  BY <2>1, ConcatEmptySeq
<1>. QED  BY <1>2, <1>3, <1>5, <1>6

\* The steps of the other threads.
LEMMA AjenaFila ==
    ASSUME TypeOK, Cabeza, SinInterrupciones, Algoritmo = "FIFO", ExecAjena,
           hilo'["exec"] = hilo["exec"], hilo'["ready"] = hilo["ready"]
    PROVE  PasoDeFila
<1>1. ColaDeExec' = ColaDeExec /\ EnElMedio' = EnElMedio
  BY DEF ExecAjena, ColaDeExec, EnElMedio, En
<1>2. CASE cola'["ready"] = cola["ready"]
  <2>1. Fila' = Fila
    BY <1>1, <1>2 DEF Fila, ColaDeExec, EnElMedio
  <2>. QED  BY <2>1 DEF PasoDeFila
<1>3. CASE \E p \in Procesos : cola'["ready"] = Append(cola["ready"], p)
  BY <1>1, <1>3, FilaAgregar DEF PasoDeFila
<1>. QED  BY <1>2, <1>3 DEF ExecAjena

LEMMA ReadyFila ==
    ASSUME TypeOK, Cabeza, SinInterrupciones, Algoritmo = "FIFO", Ready
    PROVE  PasoDeFila
<1>1. CASE ReadyElegir \/ ReadyAgregar
  BY <1>1, FilaElegir, FilaLlevar DEF PasoDeFila
<1>2. CASE ReadyEsperar \/ ReadyDesalojo \/ ReadyMirar \/ ReadyContar \/ ReadyPost
  <2>1. PICK l \in {"inicio", "desalojo", "mirar", "contar", "post_exec"},
             m \in {"inicio", "desalojo", "mirar", "contar", "elegir", "indefinido"} :
          En("ready", l) /\ Sigue("ready", m) /\ cola' = cola
    BY <1>2 DEF ReadyEsperar, ReadyDesalojo, ReadyMirar, ReadyContar, ReadyPost, Wait, Post, Pasar
  <2>2. ~ En("ready", "a_exec") /\ hilo'["ready"].en = m /\ hilo'["exec"] = hilo["exec"]
    BY <2>1, Nombres DEF Sigue, En, TypeOK, HilosOK
  <2>3. Fila' = Fila
    BY <2>1, <2>2 DEF Fila, En
  <2>. QED  BY <2>3 DEF PasoDeFila
<1>. QED  BY <1>1, <1>2 DEF Ready

\* estadoExec takes the first of the queue; what it puts back in Ready joins
\* at the end.
LEMMA ExecFila ==
    ASSUME TypeOK, NuncaListaVacia, Cabeza, SinInterrupciones, Algoritmo = "FIFO", Exec
    PROVE  PasoDeFila
<1>. DEFINE Dentro == ConProceso["exec"] \ {"encolar", "post_cola", "post_extra"}
<1>0. hilo'["ready"] = hilo["ready"]
  BY ExecAjeno, Nombres DEF Ajeno
<1>1. EnElMedio' = EnElMedio
  BY <1>0 DEF EnElMedio, En
<1>2. /\ ColaDeExec \in Seq(Procesos) /\ EnElMedio \in Seq(Procesos)
      /\ cola["ready"] \in Seq(Procesos) /\ cola["exec"] \in Seq(Procesos)
      /\ Fila = (ColaDeExec \o EnElMedio) \o cola["ready"]
  BY FilaEs
<1>3. CASE ExecTomar
  <2>1. /\ En("exec", "tomar") /\ hilo'["exec"].en = "despachar" /\ cola' = cola
        /\ cola["exec"] # <<>>
    BY <1>3, Nombres DEF ExecTomar, Toma, TypeOK, HilosOK
  <2>2. ColaDeExec = cola["exec"] /\ ColaDeExec' = Tail(cola["exec"])
    BY <2>1 DEF ColaDeExec, ConProceso, En
  <2>3. Fila' = (Tail(cola["exec"]) \o EnElMedio) \o cola["ready"]
    BY <2>1, <2>2, <1>1 DEF Fila, ColaDeExec, EnElMedio
  <2>4. PICK h \in Procesos, t \in Seq(Procesos) : cola["exec"] = <<h>> \o t /\ t = Tail(cola["exec"])
    BY <1>2, <2>1, PrimeroYResto
  <2>5. /\ ((<<h>> \o t) \o EnElMedio) \o cola["ready"] # <<>>
        /\ Tail(((<<h>> \o t) \o EnElMedio) \o cola["ready"]) = (t \o EnElMedio) \o cola["ready"]
    <3>1. EnElMedio \in Seq(Procesos) /\ cola["ready"] \in Seq(Procesos)
      BY <1>2
    <3>2. \A u, v \in Seq(Procesos) :
            /\ ((<<h>> \o t) \o u) \o v # <<>>
            /\ Tail(((<<h>> \o t) \o u) \o v) = (t \o u) \o v
      BY PrimeroDeTres
    <3>. QED  BY <3>1, <3>2
  <2>6. Fila = ((<<h>> \o t) \o EnElMedio) \o cola["ready"]
    BY <1>2, <2>2, <2>4
  <2>7. Fila # <<>> /\ Fila' = Tail(Fila)
    BY <2>3, <2>4, <2>5, <2>6
  <2>. QED  BY <2>7 DEF PasoDeFila
<1>4. CASE ExecSacar
  <2>1. /\ En("exec", "sacar") /\ hilo'["exec"].en = "encolar"
        /\ cola'["exec"] = Tail(cola["exec"]) /\ cola'["ready"] = cola["ready"]
    BY <1>4, Nombres DEF ExecSacar, SacarDeExec, Sigue, TypeOK, HilosOK
  <2>2. ColaDeExec = Tail(cola["exec"]) /\ ColaDeExec' = Tail(cola["exec"])
    BY <2>1 DEF ColaDeExec, ConProceso, En
  <2>3. Fila' = Fila
    BY <1>1, <2>1, <2>2 DEF Fila, ColaDeExec, EnElMedio
  <2>. QED  BY <2>3 DEF PasoDeFila
<1>5. CASE ExecEncolar
  <2>. DEFINE p == hilo["exec"].p
              d == Destino(p)
  <2>1. /\ En("exec", "encolar") /\ hilo'["exec"].en = "post_cola" /\ p \in Procesos
        /\ d \in {"blocked", "exit", "ready"} /\ cola' = [cola EXCEPT ![d] = Append(@, p)]
    BY <1>5, Nombres DEF ExecEncolar, Agregar, Sigue, En, TypeOK, HilosOK, SinProceso, Destino
  <2>. HIDE DEF p, d
  <2>2. /\ cola'["exec"] = cola["exec"]
        /\ cola'["ready"] = cola["ready"] \/ cola'["ready"] = Append(cola["ready"], p)
    BY <2>1, Nombres DEF TypeOK
  <2>3. ColaDeExec' = ColaDeExec
    BY <2>1, <2>2 DEF ColaDeExec, ConProceso, En
  <2>4. CASE cola'["ready"] = cola["ready"]
    <3>1. Fila' = Fila
      BY <1>1, <2>3, <2>4 DEF Fila, ColaDeExec, EnElMedio
    <3>. QED  BY <3>1 DEF PasoDeFila
  <2>5. CASE cola'["ready"] = Append(cola["ready"], p)
    BY <1>1, <2>1, <2>3, <2>5, FilaAgregar DEF PasoDeFila
  <2>. QED  BY <2>2, <2>4, <2>5
<1>6. CASE \/ ExecEsperar \/ ExecDespachar \/ ExecRecibir \/ ExecNoDesalojar
           \/ ExecBajar \/ ExecPostDesalojo \/ ExecPostCola \/ ExecPostExtra
  <2>1. PICK l, m : /\ En("exec", l) /\ Sigue("exec", m) /\ cola' = cola
                    /\ l \in Dentro <=> m \in Dentro
    BY <1>6 DEF ExecEsperar, ExecDespachar, ExecRecibir, ExecNoDesalojar,
       ExecBajar, ExecPostDesalojo, ExecPostCola, ExecPostExtra, Wait, Post, Pasar,
       BajarInterrupcion, ConProceso
  <2>2. hilo["exec"].en = l /\ hilo'["exec"].en = m
    BY <2>1, Nombres DEF Sigue, En, TypeOK, HilosOK
  <2>3. ColaDeExec' = ColaDeExec
    BY <2>1, <2>2 DEF ColaDeExec
  <2>4. Fila' = Fila
    BY <1>1, <2>1, <2>3 DEF Fila, ColaDeExec, EnElMedio
  <2>. QED  BY <2>4 DEF PasoDeFila
<1>7. CASE ExecDesalojar \/ DesalojoAReady \/ DesalojoSacar \/ DesalojoBajar \/ DesalojoPost
  BY <1>7 DEF SinInterrupciones, ExecDesalojar, Desalojado, DesalojoAReady, DesalojoSacar,
     DesalojoBajar, DesalojoPost, Agregar, BajarInterrupcion, Post, En
<1>. QED  BY <1>3, <1>4, <1>5, <1>6, <1>7 DEF Exec

LEMMA PasoFila ==
    ASSUME TypeOK, NuncaListaVacia, Cabeza, SinInterrupciones, Algoritmo = "FIFO", [Next]_vars
    PROVE  PasoDeFila
<1>1. CASE Ready
  BY <1>1, ReadyFila
<1>2. CASE Exec
  BY <1>2, ExecFila
<1>3. CASE \E t \in Hilos \ {"ready", "exec"} : Ajeno(t) /\ ExecAjena
  BY <1>3, AjenaFila, Nombres DEF Ajeno
<1>4. CASE \/ \E p \in Procesos : Cliente(p)
           \/ Ciclo \/ CpuInterrumpir \/ CpuMemoria \/ MemoriaAtender \/ UNCHANGED vars
  BY <1>4, NadieMueve, OtrosExecAjena, AjenaFila
<1>5. CASE Admitir \/ Finalizar \/ Blocked \/ SuspendedReady
  BY <1>3, <1>5, AdmitirAjeno, FinalizarAjeno, BlockedAjeno, SuspendedReadyAjeno, OtrosExecAjena,
     Nombres
<1>. QED  BY <1>1, <1>2, <1>4, <1>5 DEF Next

\* Under FIFO nobody interrupts the CPU and estadoExec never preempts.
LEMMA SinInterrupcionesSiempre == Spec => []SinInterrupciones
<1>1. Init => SinInterrupciones
  BY Nombres DEF Init, SinInterrupciones
<1>2. TypeOK /\ SinInterrupciones /\ [Next]_vars => SinInterrupciones'
  BY PasoSinInterrupciones
<1>. QED  BY <1>1, <1>2, TypeCorrect, PTL DEF Spec

\* Under FIFO, Exec, the process estadoReady carries and Ready behave as one
\* queue, for every number of processes and every degree: each step of any
\* thread leaves it, adds one process at its end or takes the first.
THEOREM FifoSiempre == Spec /\ Algoritmo = "FIFO" => OrdenFifo
<1>. DEFINE I == TypeOK /\ NuncaListaVacia /\ LugaresOK /\ SinInterrupciones
<1>1. Spec => []I
  BY TypeCorrect, SinListaVacia, RepartoCorrecto, SinInterrupcionesSiempre, PTL
<1>2. CASE Algoritmo = "FIFO"
  <2>1. I /\ [Next]_vars => [PasoDeFila]_vars
    BY <1>2, PasoFila DEF LugaresOK
  <2>2. Spec => [][PasoDeFila]_vars
    <3>. HIDE DEF I
    <3>. QED  BY <1>1, <2>1, PTL DEF Spec
  <2>. QED  BY <2>2 DEF OrdenFifo, PasoDeFila
<1>. QED  BY <1>2
=============================================================================
