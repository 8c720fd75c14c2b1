--------------------------- MODULE ReemplazoProofs ---------------------------
(***************************************************************************)
(* The two replacement algorithms for every size of the TLB and every      *)
(* length of the list of pages.                                            *)
(***************************************************************************)
EXTENDS MCReemplazo, RelojProofs, SequencesExt, SequenceTheorems

todas == <<vars, paginas, elegidas>>

-----------------------------------------------------------------------------
(* The TLB.                                                                *)

\* One step per operation of tlb.c that changes the list of translations.
LEMMA ListaTipo ==
    ASSUME TypeOK, NEW p \in Paginas, NEW d \in Int, NEW t \in Int, NEW i \in DOMAIN lista
    PROVE  /\ Sumar(d) \in Seq(Traducciones) /\ Len(Sumar(d)) = Len(lista)
           /\ Asignar(i, p, t, d) \in Seq(Traducciones) /\ Len(Asignar(i, p, t, d)) = Len(lista)
           /\ Asignar(i, p, t, d)[i].turno = t
           /\ \A j \in DOMAIN lista : /\ Sumar(d)[j].turno = lista[j].turno + d
                                      /\ j # i => Asignar(i, p, t, d)[j].turno = lista[j].turno + d
<1>1. lista \in Seq(Traducciones) /\ DOMAIN lista = 1..Len(lista) /\ Len(lista) \in Nat
      /\ \A j \in 1..Len(lista) : lista[j] \in Traducciones
  BY DEF TypeOK
<1>2. ASSUME NEW e \in Traducciones
      PROVE  /\ [e EXCEPT !.turno = @ + d] \in Traducciones
             /\ [e EXCEPT !.turno = @ + d].turno = e.turno + d
  BY DEF Traducciones
<1>3. /\ Sumar(d) \in Seq(Traducciones) /\ Len(Sumar(d)) = Len(lista)
      /\ DOMAIN Sumar(d) = 1..Len(lista)
      /\ \A j \in 1..Len(lista) : Sumar(d)[j].turno = lista[j].turno + d
  <2>1. Sumar(d) = [j \in 1..Len(lista) |-> [lista[j] EXCEPT !.turno = @ + d]]
    BY <1>1 DEF Sumar
  <2>2. PICK n \in Nat : n = Len(lista)
    BY <1>1
  <2>3. Sumar(d) \in [1..n -> Traducciones] /\ \A j \in 1..n : Sumar(d)[j].turno = lista[j].turno + d
    BY <1>1, <1>2, <2>1, <2>2
  <2>4. Sumar(d) \in Seq(Traducciones) /\ DOMAIN Sumar(d) = 1..n
    BY <2>2, <2>3
  <2>5. Len(Sumar(d)) = n
    BY <2>2, <2>4
  <2>. QED  BY <2>2, <2>3, <2>4, <2>5
<1>4. [pagina |-> p, turno |-> t] \in Traducciones
  BY DEF Traducciones
<1>. QED  BY <1>1, <1>3, <1>4 DEF Asignar

LEMMA TlbTipo == TypeOK /\ Next => TypeOK'
<1>. SUFFICES ASSUME TypeOK, Next
              PROVE  TypeOK'
  OBVIOUS
<1>1. /\ lista \in Seq(Traducciones) /\ cantidad \in Nat /\ buscada \in Paginas
      /\ {ultimo, pid} \subseteq Pids \cup {Ninguno} /\ viva \in BOOLEAN
      /\ algoritmo \in {"FIFO", "LRU"}
  BY DEF TypeOK
<1>2. CASE \E p \in Pids : Despachar(p)
  BY <1>1, <1>2 DEF Despachar, TypeOK
<1>3. ASSUME NEW p \in Paginas, Traducir(p)
      PROVE  TypeOK'
  <2>1. ASSUME NEW l \in Seq(Traducciones), lista' = l,
               UNCHANGED <<algoritmo, ultimo, pid, viva>>, cantidad' \in Nat, buscada' = p
        PROVE  TypeOK'
    BY <1>1, <2>1 DEF TypeOK
  <2>2. buscada' = p
    BY <1>3 DEF Traducir
  <2>3. ASSUME NEW d \in Int
        PROVE  Sumar(d) \in Seq(Traducciones)
    <3>1. CASE lista = <<>>
      <4>1. Sumar(d) = <<>>
        BY <3>1 DEF Sumar
      <4>. QED  BY <4>1
    <3>2. CASE lista # <<>>
      <4>1. 1 \in DOMAIN lista
        BY <1>1, <3>2
      <4>. QED  BY <4>1, ListaTipo
    <3>. QED  BY <3>1, <3>2
  <2>4. \A t \in Int : [pagina |-> p, turno |-> t] \in Traducciones
    BY DEF Traducciones
  <2>5. CASE Usar(p)
    <3>1. PICK i \in DOMAIN lista : lista' = Asignar(i, p, 0, 1)
      BY <2>5 DEF Usar
    <3>2. Asignar(i, p, 0, 1) \in Seq(Traducciones)
      <4>1. 0 \in Int /\ 1 \in Int
        OBVIOUS
      <4>. QED  BY <4>1, ListaTipo
    <3>. QED  BY <1>1, <2>1, <2>2, <2>5, <3>1, <3>2 DEF Usar
  <2>6. CASE UsarFifo(p)
    BY <1>1, <2>1, <2>2, <2>6 DEF UsarFifo
  <2>7. CASE AgregarFifo(p)
    BY <1>1, <2>1, <2>2, <2>4, <2>7 DEF AgregarFifo
  <2>8. CASE AgregarLru(p)
    <3>1. Sumar(1) \in Seq(Traducciones) /\ [pagina |-> p, turno |-> 0] \in Traducciones
      BY <2>3, <2>4
    <3>2. Append(Sumar(1), [pagina |-> p, turno |-> 0]) \in Seq(Traducciones)
      BY <3>1
    <3>. QED  BY <1>1, <2>1, <2>2, <2>8, <3>2 DEF AgregarLru
  <2>9. CASE ReemplazarFifo(p)
    <3>1. PICK i \in DOMAIN lista : lista' = Asignar(i, p, cantidad - 1, -1)
      BY <2>9 DEF ReemplazarFifo
    <3>2. Asignar(i, p, cantidad - 1, -1) \in Seq(Traducciones)
      <4>1. cantidad - 1 \in Int /\ -1 \in Int
        BY <1>1
      <4>. QED  BY <4>1, ListaTipo
    <3>. QED  BY <1>1, <2>1, <2>2, <2>9, <3>1, <3>2 DEF ReemplazarFifo
  <2>10. CASE ReemplazarLru(p)
    <3>1. PICK i \in DOMAIN lista : lista' = Asignar(i, p, 0, 1)
      BY <2>10 DEF ReemplazarLru
    <3>2. Asignar(i, p, 0, 1) \in Seq(Traducciones)
      <4>1. 0 \in Int /\ 1 \in Int
        OBVIOUS
      <4>. QED  BY <4>1, ListaTipo
    <3>. QED  BY <1>1, <2>1, <2>2, <2>10, <3>1, <3>2 DEF ReemplazarLru
  <2>. QED  BY <1>3, <2>5, <2>6, <2>7, <2>8, <2>9, <2>10 DEF Traducir
<1>4. ASSUME NEW p \in Paginas, TraducirSinVictima(p)
      PROVE  TypeOK'
  BY <1>1, <1>4 DEF TraducirSinVictima, SinVictima, TypeOK
<1>5. CASE Volver
  BY <1>1, <1>5 DEF Volver, TypeOK
<1>. QED  BY <1>2, <1>3, <1>4, <1>5 DEF Next

\* Under FIFO the counter is never behind the list, and while it is not ahead
\* every turn from 0 on is that of some entry; no other mistake ends the CPU.
Turnos ==
    /\ algoritmo = "LRU" => viva
    /\ algoritmo = "FIFO" => cantidad >= Len(lista)
    /\ algoritmo = "FIFO" /\ cantidad = Len(lista) =>
         viva /\ \A t \in 0..(Len(lista) - 1) : \E i \in DOMAIN lista : lista[i].turno = t

LEMMA TurnosPaso == TypeOK /\ Turnos /\ Next => Turnos'
<1>. SUFFICES ASSUME TypeOK, Turnos, Next
              PROVE  Turnos'
  OBVIOUS
<1>1. /\ lista \in Seq(Traducciones) /\ cantidad \in Nat /\ viva
      /\ DOMAIN lista = 1..Len(lista) /\ Len(lista) \in Nat
      /\ algoritmo \in {"FIFO", "LRU"}
  BY DEF TypeOK, Next
<1>0. PICK n \in Nat : n = Len(lista)
  BY <1>1
<1>20. /\ algoritmo' = algoritmo
       /\ algoritmo = "LRU" => viva' = viva
  <2>1. ASSUME NEW p \in Paginas, Traducir(p)
        PROVE  algoritmo' = algoritmo /\ viva' = viva
    BY <2>1 DEF Traducir, Usar, UsarFifo, AgregarFifo, AgregarLru, ReemplazarFifo, ReemplazarLru
  <2>. QED  BY <2>1 DEF Next, Despachar, TraducirSinVictima, SinVictima, Volver
<1>2. ASSUME NEW p \in Pids, Despachar(p)
      PROVE  Turnos'
  <2>0. cantidad' = cantidad /\ viva' = viva
    BY <1>2 DEF Despachar
  <2>1. CASE lista' = <<>>
    <3>1. Len(lista') = 0
      BY <2>1
    <3>2. ~ \E t \in 0..(0 - 1) : TRUE
      OBVIOUS
    <3>. QED  BY <1>1, <1>20, <2>0, <3>1, <3>2 DEF Turnos
  <2>2. CASE lista' = lista
    BY <1>1, <1>20, <2>0, <2>2 DEF Turnos
  <2>. QED  BY <1>2, <2>1, <2>2 DEF Despachar
<1>3. ASSUME algoritmo = "LRU"
      PROVE  Turnos'
  BY <1>1, <1>3, <1>20 DEF Turnos
<1>4. ASSUME algoritmo = "FIFO", NEW p \in Paginas, UsarFifo(p)
      PROVE  Turnos'
  BY <1>1, <1>4, <1>20 DEF UsarFifo, Turnos
<1>5. ASSUME NEW p \in Paginas, AgregarFifo(p)
      PROVE  Turnos'
  <2>. DEFINE e == [pagina |-> p, turno |-> cantidad]
  <2>1. /\ Len(lista') = Len(lista) + 1 /\ cantidad' = cantidad + 1 /\ viva' = viva
        /\ DOMAIN lista' = 1..(Len(lista) + 1)
        /\ lista'[Len(lista) + 1].turno = cantidad
        /\ \A i \in 1..Len(lista) : lista'[i] = lista[i]
    BY <1>1, <1>5 DEF AgregarFifo
  <2>2. ASSUME cantidad = Len(lista), algoritmo = "FIFO", NEW t \in 0..Len(lista)
        PROVE  \E i \in 1..(Len(lista) + 1) : lista'[i].turno = t
    <3>1. CASE t = Len(lista)
      BY <1>1, <2>1, <2>2, <3>1
    <3>2. CASE t # Len(lista)
      <4>1. t \in 0..(Len(lista) - 1)
        BY <1>0, <3>2
      <4>2. PICK i \in 1..Len(lista) : lista[i].turno = t
        BY <1>1, <2>2, <4>1 DEF Turnos
      <4>. QED  BY <1>1, <2>1, <4>2
    <3>. QED  BY <3>1, <3>2
  <2>. QED  BY <1>1, <1>20, <2>1, <2>2 DEF Turnos
<1>6. ASSUME algoritmo = "FIFO", NEW p \in Paginas, ReemplazarFifo(p)
      PROVE  Turnos'
  <2>1. PICK i \in DOMAIN lista : PrimeroEnCero(i) /\ lista' = Asignar(i, p, cantidad - 1, -1)
    BY <1>6 DEF ReemplazarFifo
  <2>2. /\ Len(lista') = Len(lista) /\ DOMAIN lista' = 1..Len(lista)
        /\ lista'[i].turno = cantidad - 1
        /\ \A j \in 1..Len(lista) : j # i => lista'[j].turno = lista[j].turno + (-1)
    <3>1. cantidad - 1 \in Int
      BY <1>1
    <3>. HIDE <1>6
    <3>. QED  BY <1>1, <2>1, <3>1, ListaTipo
  <2>3. cantidad' = cantidad /\ viva' = viva
    BY <1>6 DEF ReemplazarFifo
  <2>4. lista[i].turno = 0
    BY <2>1 DEF PrimeroEnCero
  <2>5. ASSUME cantidad = Len(lista), NEW t \in 0..(Len(lista) - 1)
        PROVE  \E j \in 1..Len(lista) : lista'[j].turno = t
    <3>1. CASE t = Len(lista) - 1
      BY <1>1, <2>1, <2>2, <2>5, <3>1
    <3>2. CASE t # Len(lista) - 1
      <4>1. t + 1 \in 0..(Len(lista) - 1)
        BY <1>0, <3>2
      <4>2. PICK j \in 1..Len(lista) : lista[j].turno = t + 1
        BY <1>1, <1>6, <2>5, <4>1 DEF Turnos
      <4>3. j # i
        BY <2>4, <4>2
      <4>4. lista'[j].turno = (t + 1) + (-1) /\ t \in Int
        BY <1>0, <2>2, <4>2, <4>3
      <4>5. lista'[j].turno = t
        BY <4>4
      <4>. QED  BY <4>5
    <3>. QED  BY <3>1, <3>2
  <2>. QED  BY <1>1, <1>6, <1>20, <2>2, <2>3, <2>5 DEF Turnos
<1>7. ASSUME algoritmo = "FIFO", SinVictima
      PROVE  Turnos'
  <2>1. /\ Len(lista) >= Entradas /\ \A i \in DOMAIN lista : lista[i].turno # 0
        /\ lista' = lista /\ cantidad' = cantidad
    BY <1>7 DEF SinVictima
  <2>2. 0 \in 0..(Len(lista) - 1)
    BY <1>1, <2>1, EntradasAssumption
  <2>3. cantidad # Len(lista)
    BY <1>1, <1>7, <2>1, <2>2 DEF Turnos
  <2>. QED  BY <1>1, <1>7, <1>20, <2>1, <2>3 DEF Turnos
<1>8. CASE Volver
  BY <1>1, <1>8, <1>20 DEF Volver, Turnos
<1>9. CASE algoritmo = "FIFO"
  BY <1>2, <1>4, <1>5, <1>6, <1>7, <1>8, <1>9
     DEF Next, Traducir, TraducirSinVictima, Usar, AgregarLru, ReemplazarLru
<1>. QED  BY <1>1, <1>3, <1>9

-----------------------------------------------------------------------------
(* The place of each one in an order.                                      *)

\* R gives the elements of S that come before each in a total order.
OrdenTotal(S, R) ==
    /\ R \in [S -> SUBSET S]
    /\ \A x \in S : x \notin R[x]
    /\ \A x, y \in S : x \in R[y] => R[x] \subseteq R[y]
    /\ \A x, y \in S : x # y => x \in R[y] \/ y \in R[x]

\* The k-th.
Puesto(n, R, k) == CHOOSE i \in 1..n : Cardinality(R[i]) = k - 1

\* Each place has one, and each one its place.
LEMMA PuestoDe ==
    ASSUME NEW n \in Nat, NEW R, OrdenTotal(1..n, R)
    PROVE  /\ \A i \in 1..n : /\ Cardinality(R[i]) \in Nat /\ Cardinality(R[i]) + 1 \in 1..n
                              /\ Puesto(n, R, Cardinality(R[i]) + 1) = i
           /\ \A k \in 1..n : Puesto(n, R, k) \in 1..n /\ Cardinality(R[Puesto(n, R, k)]) = k - 1
           /\ \A k \in 1..n : \A i \in 1..n : Cardinality(R[i]) = k - 1 => Puesto(n, R, k) = i
<1>. DEFINE S == 1..n
            r(x) == Cardinality(R[x])
<1>1. IsFiniteSet(S) /\ Cardinality(S) = n
  <2>1. CASE n = 0
    <3>1. S = {}
      BY <2>1
    <3>. QED  BY <2>1, <3>1, FS_EmptySet
  <2>2. CASE n # 0
    <3>1. 1 \in Int /\ n \in Int /\ ~ (1 > n) /\ n - 1 + 1 = n
      BY <2>2
    <3>. QED  BY <3>1, FS_Interval
  <2>. QED  BY <2>1, <2>2
<1>2. /\ \A x \in S : r(x) \in 0..(n - 1)
      /\ \A x, y \in S : r(x) = r(y) => x = y
      /\ \A k \in 0..(n - 1) : \E x \in S : r(x) = k
  <2>1. OrdenTotal(S, R)
    OBVIOUS
  <2>. HIDE DEF S
  <2>2. /\ R \in [S -> SUBSET S]
        /\ \A x \in S : x \notin R[x]
        /\ \A x, y \in S : x \in R[y] => R[x] \subseteq R[y]
        /\ \A x, y \in S : x # y => x \in R[y] \/ y \in R[x]
    BY <2>1 DEF OrdenTotal
  <2>3. /\ \A x \in S : Cardinality(R[x]) \in 0..(Cardinality(S) - 1)
        /\ \A x, y \in S : Cardinality(R[x]) = Cardinality(R[y]) => x = y
        /\ \A k \in 0..(Cardinality(S) - 1) : \E x \in S : Cardinality(R[x]) = k
    BY <1>1, <2>2, Rangos
  <2>. QED  BY <1>1, <2>3
<1>. HIDE DEF r
<1>3. ASSUME NEW k \in S, NEW i \in S, r(i) = k - 1
      PROVE  Puesto(n, R, k) = i
  <2>1. Puesto(n, R, k) = CHOOSE x \in S : r(x) = k - 1
    BY DEF Puesto, r
  <2>2. \A x \in S : r(x) = k - 1 => x = i
    BY <1>2, <1>3
  <2>. QED  BY <1>3, <2>1, <2>2
<1>4. ASSUME NEW i \in S
      PROVE  r(i) \in Nat /\ r(i) + 1 \in S /\ Puesto(n, R, r(i) + 1) = i
  <2>1. r(i) \in 0..(n - 1)
    BY <1>2
  <2>2. r(i) \in Nat /\ r(i) + 1 \in S /\ r(i) = (r(i) + 1) - 1
    BY <2>1
  <2>. QED  BY <1>3, <2>2
<1>5. ASSUME NEW k \in S
      PROVE  Puesto(n, R, k) \in S /\ r(Puesto(n, R, k)) = k - 1
  <2>1. k - 1 \in 0..(n - 1)
    OBVIOUS
  <2>2. PICK x \in S : r(x) = k - 1
    BY <1>2, <2>1
  <2>. QED  BY <1>3, <2>2
<1>. QED  BY <1>3, <1>4, <1>5 DEF r

\* The one that has so many before it is in that place.
LEMMA PuestoEs ==
    ASSUME NEW n \in Nat, NEW R, OrdenTotal(1..n, R), NEW k \in 1..n, NEW i \in 1..n,
           Cardinality(R[i]) = k - 1
    PROVE  Puesto(n, R, k) = i
<1>1. \A l \in 1..n : \A j \in 1..n : Cardinality(R[j]) = l - 1 => Puesto(n, R, l) = j
  BY PuestoDe
<1>. QED  BY <1>1

\* A new last does not move the others.
Agregada(n, R, Q) ==
    /\ OrdenTotal(1..n, R) /\ OrdenTotal(1..(n + 1), Q)
    /\ Q[n + 1] = 1..n /\ \A i \in 1..n : Q[i] = R[i]

LEMMA PuestoAgregado ==
    ASSUME NEW n \in Nat, NEW R, NEW Q, Agregada(n, R, Q)
    PROVE  /\ Puesto(n + 1, Q, n + 1) = n + 1
           /\ \A k \in 1..n : Puesto(n, R, k) \in 1..n /\ Puesto(n + 1, Q, k) = Puesto(n, R, k)
<1>. /\ OrdenTotal(1..n, R) /\ OrdenTotal(1..(n + 1), Q)
     /\ Q[n + 1] = 1..n /\ \A i \in 1..n : Q[i] = R[i]
  BY DEF Agregada
<1>0. \A k \in 1..(n + 1) : \A i \in 1..(n + 1) :
        Cardinality(Q[i]) = k - 1 => Puesto(n + 1, Q, k) = i
  <2>1. n + 1 \in Nat
    OBVIOUS
  <2>. QED  BY <2>1, PuestoDe
<1>1. ASSUME NEW k \in 1..n
      PROVE  Puesto(n, R, k) \in 1..n /\ Puesto(n + 1, Q, k) = Puesto(n, R, k)
  <2>1. Puesto(n, R, k) \in 1..n /\ Cardinality(R[Puesto(n, R, k)]) = k - 1
    BY PuestoDe
  <2>2. Puesto(n, R, k) \in 1..(n + 1) /\ k \in 1..(n + 1)
    BY <2>1
  <2>3. Cardinality(Q[Puesto(n, R, k)]) = k - 1
    BY <2>1
  <2>. QED  BY <1>0, <2>1, <2>2, <2>3
<1>2. Puesto(n + 1, Q, n + 1) = n + 1
  <2>1. Cardinality(1..n) = n
    <3>1. CASE n = 0
      <4>1. 1..n = {}
        BY <3>1
      <4>. QED  BY <3>1, <4>1, FS_EmptySet
    <3>2. CASE n # 0
      <4>1. 1 \in Int /\ n \in Int /\ ~ (1 > n) /\ n - 1 + 1 = n
        BY <3>2
      <4>. QED  BY <4>1, FS_Interval
    <3>. QED  BY <3>1, <3>2
  <2>2. n + 1 \in 1..(n + 1) /\ Cardinality(Q[n + 1]) = (n + 1) - 1
    BY <2>1
  <2>. QED  BY <1>0, <2>2
<1>. QED  BY <1>1, <1>2

\* One that goes to the end moves up those that came after it.
Movida(n, R, Q, i) ==
    /\ OrdenTotal(1..n, R) /\ OrdenTotal(1..n, Q)
    /\ i \in 1..n /\ Q[i] = (1..n) \ {i} /\ \A j \in 1..n : j # i => Q[j] = R[j] \ {i}

LEMMA PuestoMovido ==
    ASSUME NEW n \in Nat, NEW R, NEW Q, NEW i, Movida(n, R, Q, i), NEW c, c = Cardinality(R[i]) + 1
    PROVE  /\ c \in 1..n /\ Puesto(n, R, c) = i
           /\ \A k \in 1..n : Puesto(n, R, k) \in 1..n /\ (k # c => Puesto(n, R, k) # i)
           /\ \A k \in 1..n :
                Puesto(n, Q, k) = IF k = n THEN i
                                  ELSE IF k < c THEN Puesto(n, R, k) ELSE Puesto(n, R, k + 1)
<1>. /\ OrdenTotal(1..n, R) /\ OrdenTotal(1..n, Q)
     /\ i \in 1..n /\ Q[i] = (1..n) \ {i} /\ \A j \in 1..n : j # i => Q[j] = R[j] \ {i}
  BY DEF Movida
<1>1. /\ c \in 1..n /\ Puesto(n, R, c) = i
      /\ \A j \in 1..n : Cardinality(R[j]) \in Nat /\ Puesto(n, R, Cardinality(R[j]) + 1) = j
  <2>1. \A j \in 1..n : /\ Cardinality(R[j]) \in Nat /\ Cardinality(R[j]) + 1 \in 1..n
                        /\ Puesto(n, R, Cardinality(R[j]) + 1) = j
    BY PuestoDe
  <2>. QED  BY <2>1
<1>0. \A k \in 1..n : \A j \in 1..n : Cardinality(Q[j]) = k - 1 => Puesto(n, Q, k) = j
  BY PuestoEs
<1>2. \A j \in 1..n : IsFiniteSet(R[j])
  <2>1. IsFiniteSet(1..n)
    <3>1. 1 \in Int /\ n \in Int
      OBVIOUS
    <3>. QED  BY <3>1, FS_Interval
  <2>2. \A j \in 1..n : R[j] \in SUBSET (1..n)
    BY DEF OrdenTotal
  <2>. QED  BY <2>1, <2>2, FS_Subset
<1>3. ASSUME NEW j \in 1..n, j # i
      PROVE  /\ i \notin R[j] => Cardinality(R[j]) < c /\ Cardinality(Q[j]) = Cardinality(R[j])
             /\ i \in R[j] => /\ Cardinality(R[j]) >= c
                              /\ Cardinality(Q[j]) = Cardinality(R[j]) - 1
  <2>1. Cardinality(R[j]) \in Nat /\ Cardinality(R[i]) \in Nat
    BY <1>1
  <2>2. CASE i \notin R[j]
    <3>1. Q[j] = R[j]
      BY <1>3, <2>2
    <3>2. R[j] \subseteq R[i]
      BY <1>3, <2>2 DEF OrdenTotal
    <3>3. Cardinality(R[j]) <= Cardinality(R[i])
      BY <1>2, <3>2, FS_Subset
    <3>. QED  BY <2>1, <2>2, <3>1, <3>3
  <2>3. CASE i \in R[j]
    <3>1. Q[j] = R[j] \ {i}
      BY <1>3
    <3>2. Cardinality(Q[j]) = Cardinality(R[j]) - 1 /\ IsFiniteSet(Q[j])
      BY <1>2, <2>3, <3>1, FS_RemoveElement
    <3>3. R[i] \subseteq Q[j]
      BY <2>3, <3>1 DEF OrdenTotal
    <3>4. Cardinality(R[i]) <= Cardinality(Q[j])
      BY <3>2, <3>3, FS_Subset
    <3>. QED  BY <2>1, <2>3, <3>2, <3>4
  <2>. QED  BY <2>2, <2>3
<1>4. Puesto(n, Q, n) = i
  <2>1. 1 \in Int /\ n \in Int /\ ~ (1 > n) /\ n - 1 + 1 = n /\ n \in 1..n
    OBVIOUS
  <2>2. IsFiniteSet(1..n) /\ Cardinality(1..n) = n
    BY <2>1, FS_Interval
  <2>3. Cardinality(Q[i]) = n - 1
    BY <2>2, FS_RemoveElement
  <2>. QED  BY <1>0, <2>1, <2>3
<1>5. ASSUME NEW k \in 1..n, k # n, k < c
      PROVE  Puesto(n, Q, k) = Puesto(n, R, k)
  <2>. DEFINE j == Puesto(n, R, k)
  <2>1. j \in 1..n /\ Cardinality(R[j]) = k - 1
    BY PuestoDe
  <2>. HIDE DEF j
  <2>2. Cardinality(R[i]) = c - 1 /\ c \in 1..n
    BY <1>1
  <2>3. j # i
    BY <1>5, <2>1, <2>2
  <2>4. Cardinality(Q[j]) = k - 1
    BY <1>3, <1>5, <2>1, <2>2, <2>3
  <2>5. Puesto(n, Q, k) = j
    BY <1>0, <2>1, <2>4
  <2>. QED  BY <2>5 DEF j
<1>6. ASSUME NEW k \in 1..n, k # n, ~ k < c
      PROVE  Puesto(n, Q, k) = Puesto(n, R, k + 1)
  <2>. DEFINE j == Puesto(n, R, k + 1)
  <2>0. k + 1 \in 1..n /\ (k + 1) - 1 = k
    BY <1>6
  <2>1. j \in 1..n /\ Cardinality(R[j]) = k
    BY <2>0, PuestoDe
  <2>. HIDE DEF j
  <2>2. Cardinality(R[i]) = c - 1 /\ c \in 1..n
    BY <1>1
  <2>3. j # i
    BY <1>6, <2>1, <2>2
  <2>4. Cardinality(Q[j]) = k - 1
    BY <1>3, <1>6, <2>1, <2>2, <2>3
  <2>5. Puesto(n, Q, k) = j
    BY <1>0, <2>1, <2>4
  <2>. QED  BY <2>5 DEF j
<1>7. \A k \in 1..n : Puesto(n, R, k) \in 1..n /\ Cardinality(R[Puesto(n, R, k)]) = k - 1
  <2>1. \A S : OrdenTotal(1..n, S) =>
          \A k \in 1..n : Puesto(n, S, k) \in 1..n /\ Cardinality(S[Puesto(n, S, k)]) = k - 1
    BY PuestoDe
  <2>. QED  BY <2>1
<1>8. ASSUME NEW k \in 1..n, k # c
      PROVE  Puesto(n, R, k) # i
  <2>1. Cardinality(R[Puesto(n, R, k)]) = k - 1 /\ Cardinality(R[i]) = c - 1 /\ c \in 1..n
    BY <1>1, <1>7
  <2>. QED  BY <1>8, <2>1
<1>. QED  BY <1>1, <1>4, <1>5, <1>6, <1>7, <1>8

-----------------------------------------------------------------------------
(* The order of replacement of the TLB.                                    *)

\* Whose pages the entries are after them.
LEMMA ListaPaginas ==
    ASSUME TypeOK, NEW p, NEW d, NEW t, NEW i \in DOMAIN lista
    PROVE  /\ Asignar(i, p, t, d)[i].pagina = p
           /\ \A j \in DOMAIN lista : /\ Sumar(d)[j].pagina = lista[j].pagina
                                      /\ j # i => Asignar(i, p, t, d)[j].pagina = lista[j].pagina
<1>1. \A j \in DOMAIN lista : lista[j] \in Traducciones
  BY DEF TypeOK
<1>2. ASSUME NEW e \in Traducciones
      PROVE  [e EXCEPT !.turno = @ + d].pagina = e.pagina
  BY DEF Traducciones
<1>3. DOMAIN Sumar(d) = DOMAIN lista
      /\ \A j \in DOMAIN lista : Sumar(d)[j].pagina = lista[j].pagina
  BY <1>1, <1>2 DEF Sumar
<1>. QED  BY <1>3 DEF Asignar

\* No page is translated twice and no two entries have the same turn; under FIFO the
\* next turn is above them all.
OrdenOK ==
    /\ \A i, j \in DOMAIN lista : lista[i].pagina = lista[j].pagina => i = j
    /\ \A i, j \in DOMAIN lista : lista[i].turno = lista[j].turno => i = j
    /\ \A i \in DOMAIN lista : /\ lista[i].turno >= 0
                               /\ algoritmo = "FIFO" => lista[i].turno < cantidad

\* The turns order the entries.
LEMMA OrdenPuesto ==
    ASSUME TypeOK, OrdenOK
    PROVE  /\ Len(lista) \in Nat /\ DOMAIN lista = 1..Len(lista)
           /\ OrdenTotal(1..Len(lista), Previas)
           /\ Orden \in Seq(Paginas) /\ Len(Orden) = Len(lista)
           /\ \A k \in 1..Len(lista) : Orden[k] = lista[Puesto(Len(lista), Previas, k)].pagina
<1>1. /\ lista \in Seq(Traducciones) /\ Len(lista) \in Nat /\ DOMAIN lista = 1..Len(lista)
      /\ \A j \in 1..Len(lista) : lista[j].turno \in Int /\ lista[j].pagina \in Paginas
  <2>1. /\ lista \in Seq(Traducciones) /\ Len(lista) \in Nat /\ DOMAIN lista = 1..Len(lista)
        /\ \A j \in 1..Len(lista) : lista[j] \in Traducciones
    BY DEF TypeOK
  <2>2. \A e \in Traducciones : e.turno \in Int /\ e.pagina \in Paginas
    BY SMTT(30) DEF Traducciones
  <2>. QED  BY <2>1, <2>2
<1>2. PICK n \in Nat : n = Len(lista)
  BY <1>1
<1>3. \A i, j \in 1..n : i # j => lista[i].turno # lista[j].turno
  BY <1>1, <1>2 DEF OrdenOK
<1>4. \A i, j \in 1..n : Antes(i, j) <=>
        IF algoritmo = "FIFO" THEN lista[i].turno < lista[j].turno
                              ELSE lista[i].turno > lista[j].turno
  BY <1>1, <1>2, <1>3 DEF Antes
<1>5. Previas = [i \in 1..n |-> {j \in 1..n : Antes(j, i)}]
  BY <1>1, <1>2 DEF Previas
<1>6. OrdenTotal(1..n, Previas)
  <2>1. \A x, y \in 1..n : x \in Previas[y] <=> Antes(x, y)
    BY <1>5
  <2>2. Previas \in [1..n -> SUBSET (1..n)]
    BY <1>5
  <2>3. \A x \in 1..n : ~ Antes(x, x)
    BY <1>1, <1>2, <1>4
  <2>4. \A x, y, z \in 1..n : Antes(z, x) /\ Antes(x, y) => Antes(z, y)
    BY <1>1, <1>2, <1>4
  <2>5. \A x, y \in 1..n : x # y => Antes(x, y) \/ Antes(y, x)
    BY <1>1, <1>2, <1>3, <1>4
  <2>6. \A x, y \in 1..n : x \in Previas[y] => Previas[x] \subseteq Previas[y]
    BY <2>1, <2>2, <2>4
  <2>. QED  BY <2>1, <2>2, <2>3, <2>5, <2>6 DEF OrdenTotal
<1>7. Orden = [k \in 1..n |-> lista[Puesto(n, Previas, k)].pagina]
  BY <1>1, <1>2 DEF Orden, Puesto
<1>8. \A k \in 1..n : Puesto(n, Previas, k) \in 1..n
  BY <1>6, PuestoDe
<1>9. Orden \in [1..n -> Paginas]
  BY <1>1, <1>2, <1>7, <1>8
<1>10. Orden \in Seq(Paginas) /\ Len(Orden) = n
  <2>1. Orden \in Seq(Paginas) /\ DOMAIN Orden = 1..n
    BY <1>9
  <2>. QED  BY <2>1
<1>. QED  BY <1>1, <1>2, <1>6, <1>7, <1>10

\* The same after a step.
LEMMA OrdenDespues ==
    (TypeOK /\ OrdenOK =>
       /\ Len(lista) \in Nat /\ DOMAIN lista = 1..Len(lista)
       /\ OrdenTotal(1..Len(lista), Previas)
       /\ Orden \in Seq(Paginas) /\ Len(Orden) = Len(lista)
       /\ \A k \in 1..Len(lista) : Orden[k] = lista[Puesto(Len(lista), Previas, k)].pagina)'
<1>1. TypeOK /\ OrdenOK =>
       /\ Len(lista) \in Nat /\ DOMAIN lista = 1..Len(lista)
       /\ OrdenTotal(1..Len(lista), Previas)
       /\ Orden \in Seq(Paginas) /\ Len(Orden) = Len(lista)
       /\ \A k \in 1..Len(lista) : Orden[k] = lista[Puesto(Len(lista), Previas, k)].pagina
  BY OrdenPuesto
<1>. QED  BY <1>1, PTL

\* The entries come before one another as their turns say.
LEMMA PreviasDe ==
    ASSUME TypeOK, OrdenOK
    PROVE  /\ DOMAIN Previas = DOMAIN lista
           /\ \A i \in DOMAIN lista : Previas[i] =
                {j \in DOMAIN lista : IF algoritmo = "FIFO" THEN lista[j].turno < lista[i].turno
                                                            ELSE lista[j].turno > lista[i].turno}
<1>1. \A j \in DOMAIN lista : lista[j].turno \in Int
  <2>1. \A j \in DOMAIN lista : lista[j] \in Traducciones
    BY DEF TypeOK
  <2>2. \A e \in Traducciones : e.turno \in Int
    BY DEF Traducciones
  <2>. QED  BY <2>1, <2>2
<1>2. ASSUME NEW i \in DOMAIN lista, NEW j \in DOMAIN lista
      PROVE  Antes(j, i) <=> IF algoritmo = "FIFO" THEN lista[j].turno < lista[i].turno
                                                   ELSE lista[j].turno > lista[i].turno
  <2>1. lista[i].turno = lista[j].turno => i = j
    BY DEF OrdenOK
  <2>2. ~ j < j
    BY DEF TypeOK
  <2>. QED  BY <1>1, <2>1, <2>2 DEF Antes
<1>. QED  BY <1>2 DEF Previas

\* A sequence without one of its members.
LEMMA QuitaPosicion ==
    ASSUME NEW S, NEW s \in Seq(S), NEW c \in 1..Len(s), NEW p \in S
    PROVE  LET t == Append(RemoveAt(s, c), p) IN
           /\ t \in Seq(S) /\ Len(t) = Len(s)
           /\ \A k \in 1..Len(s) :
                t[k] = IF k = Len(s) THEN p ELSE IF k < c THEN s[k] ELSE s[k + 1]
<1>1. PICK n \in Nat : n = Len(s)
  OBVIOUS
<1>. DEFINE a == SubSeq(s, 1, c - 1)
            b == SubSeq(s, c + 1, n)
<1>2. /\ a \in Seq(S) /\ Len(a) = c - 1 /\ \A k \in 1..(c - 1) : a[k] = s[k]
  BY <1>1
<1>3. /\ b \in Seq(S) /\ Len(b) = n - c /\ \A k \in 1..(n - c) : b[k] = s[c + k]
  BY <1>1
<1>. HIDE DEF a, b
<1>4. /\ a \o b \in Seq(S) /\ Len(a \o b) = n - 1
      /\ \A k \in 1..(n - 1) : (a \o b)[k] = IF k < c THEN s[k] ELSE s[k + 1]
  <2>1. a \o b \in Seq(S) /\ Len(a \o b) = n - 1
    <3>1. a \o b \in Seq(S) /\ Len(a \o b) = Len(a) + Len(b)
      BY <1>2, <1>3, ConcatProperties
    <3>. QED  BY <1>1, <1>2, <1>3, <3>1
  <2>2. ASSUME NEW k \in 1..(n - 1), k < c
        PROVE  (a \o b)[k] = s[k]
    BY <1>1, <1>2, <1>3, <2>2
  <2>3. ASSUME NEW k \in 1..(n - 1), ~ k < c
        PROVE  (a \o b)[k] = s[k + 1]
    <3>1. k - (c - 1) \in 1..(n - c) /\ c + (k - (c - 1)) = k + 1
      BY <1>1, <2>3
    <3>2. (a \o b)[k] = b[k - (c - 1)]
      BY <1>1, <1>2, <1>3, <2>3
    <3>. QED  BY <1>3, <3>1, <3>2
  <2>. QED  BY <2>1, <2>2, <2>3
<1>5. RemoveAt(s, c) = a \o b
  BY <1>1 DEF RemoveAt, a, b
<1>. DEFINE q == a \o b
<1>6. q \in Seq(S) /\ Len(q) = n - 1 /\ \A k \in 1..(n - 1) : q[k] = IF k < c THEN s[k] ELSE s[k + 1]
  BY <1>4
<1>. HIDE DEF q
<1>7. /\ Append(q, p) \in Seq(S) /\ Len(Append(q, p)) = n
      /\ \A k \in 1..n : Append(q, p)[k] = IF k = n THEN p ELSE IF k < c THEN s[k] ELSE s[k + 1]
  BY <1>1, <1>6
<1>. QED  BY <1>1, <1>5, <1>7 DEF q

\* Two sequences with the same members are one.
LEMMA MismaSecuencia ==
    ASSUME NEW S, NEW s \in Seq(S), NEW t \in Seq(S), Len(s) = Len(t),
           \A k \in 1..Len(s) : s[k] = t[k]
    PROVE  s = t
BY SeqEqual

\* An entry that becomes the last with page p: its page leaves the order, and p comes
\* to the end of it.
AlFondo(i, p) ==
    /\ i \in DOMAIN lista /\ Len(lista') = Len(lista) /\ lista'[i].pagina = p
    /\ \A j \in DOMAIN lista : j # i => lista'[j].pagina = lista[j].pagina
    /\ Previas'[i] = DOMAIN lista \ {i}
    /\ \A j \in DOMAIN lista : j # i => Previas'[j] = Previas[j] \ {i}

LEMMA Mueve ==
    ASSUME TypeOK, OrdenOK, TypeOK', OrdenOK', NEW i, NEW p \in Paginas, AlFondo(i, p),
           NEW c, c = Cardinality(Previas[i]) + 1
    PROVE  /\ c \in 1..Len(Orden) /\ Orden[c] = lista[i].pagina
           /\ Orden' = Append(RemoveAt(Orden, c), p)
<1>1. PICK n : n = Len(lista) /\ n = Len(lista')
  BY DEF AlFondo
<1>2. PICK R : R = Previas
  OBVIOUS
<1>3. PICK Q : Q = Previas'
  OBVIOUS
<1>4. /\ n \in Nat /\ DOMAIN lista = 1..n /\ OrdenTotal(1..n, R)
      /\ Orden \in Seq(Paginas) /\ Len(Orden) = n
      /\ \A k \in 1..n : Orden[k] = lista[Puesto(n, R, k)].pagina
  BY <1>1, <1>2, OrdenPuesto
<1>5. /\ OrdenTotal(1..n, Q)
      /\ Orden' \in Seq(Paginas) /\ Len(Orden') = n
      /\ \A k \in 1..n : Orden'[k] = lista'[Puesto(n, Q, k)].pagina
  BY <1>1, <1>3, OrdenDespues
<1>6. Movida(n, R, Q, i)
  BY <1>2, <1>3, <1>4, <1>5 DEF Movida, AlFondo
<1>0. lista'[i].pagina = p /\ \A j \in 1..n : j # i => lista'[j].pagina = lista[j].pagina
  BY <1>4 DEF AlFondo
<1>7. c = Cardinality(R[i]) + 1
  BY <1>2
<1>8. /\ c \in 1..n /\ Puesto(n, R, c) = i
      /\ \A k \in 1..n : Puesto(n, R, k) \in 1..n /\ (k # c => Puesto(n, R, k) # i)
      /\ \A k \in 1..n :
           Puesto(n, Q, k) = IF k = n THEN i
                             ELSE IF k < c THEN Puesto(n, R, k) ELSE Puesto(n, R, k + 1)
  <2>1. n \in Nat
    BY <1>4
  <2>. QED  BY <1>6, <1>7, <2>1, PuestoMovido
<1>9. Orden[c] = lista[i].pagina
  BY <1>4, <1>8
<1>. DEFINE t == Append(RemoveAt(Orden, c), p)
<1>10. /\ t \in Seq(Paginas) /\ Len(t) = n
       /\ \A k \in 1..n : t[k] = IF k = n THEN p ELSE IF k < c THEN Orden[k] ELSE Orden[k + 1]
  <2>1. Orden \in Seq(Paginas) /\ Len(Orden) = n /\ c \in 1..Len(Orden)
    BY <1>4, <1>8
  <2>. QED  BY <2>1, QuitaPosicion
<1>. HIDE DEF t
<1>11. ASSUME NEW k \in 1..n
       PROVE  Orden'[k] = t[k]
  <2>1. CASE k = n
    <3>1. Puesto(n, Q, k) = i
      BY <1>8, <2>1
    <3>. QED  BY <1>0, <1>5, <1>10, <2>1, <3>1
  <2>2. CASE k # n /\ k < c
    <3>1. Puesto(n, Q, k) = Puesto(n, R, k) /\ Puesto(n, R, k) \in 1..n /\ Puesto(n, R, k) # i
      BY <1>8, <2>2
    <3>2. Orden'[k] = lista[Puesto(n, R, k)].pagina
      BY <1>0, <1>4, <1>5, <3>1
    <3>. QED  BY <1>4, <1>10, <2>2, <3>2
  <2>3. CASE k # n /\ ~ k < c
    <3>0. k + 1 \in 1..n /\ k + 1 # c
      BY <1>4, <1>8, <2>3
    <3>1. Puesto(n, Q, k) = Puesto(n, R, k + 1) /\ Puesto(n, R, k + 1) \in 1..n
          /\ Puesto(n, R, k + 1) # i
      BY <1>8, <2>3, <3>0
    <3>2. Orden'[k] = lista[Puesto(n, R, k + 1)].pagina
      BY <1>0, <1>4, <1>5, <3>1
    <3>. QED  BY <1>4, <1>10, <2>3, <3>0, <3>2
  <2>. QED  BY <2>1, <2>2, <2>3
<1>12. Orden' = t
  BY <1>4, <1>5, <1>10, <1>11, MismaSecuencia
<1>. QED  BY <1>4, <1>8, <1>9, <1>12 DEF t

\* A new entry that is the last to be replaced comes to the end of the order.
Detras(p) ==
    /\ Len(lista') = Len(lista) + 1 /\ lista'[Len(lista) + 1].pagina = p
    /\ \A j \in DOMAIN lista : lista'[j].pagina = lista[j].pagina
    /\ Previas'[Len(lista) + 1] = DOMAIN lista
    /\ \A j \in DOMAIN lista : Previas'[j] = Previas[j]

LEMMA Agrega ==
    ASSUME TypeOK, OrdenOK, TypeOK', OrdenOK', NEW p \in Paginas, Detras(p)
    PROVE  Orden' = Append(Orden, p)
<1>1. PICK n : n = Len(lista) /\ n + 1 = Len(lista')
  BY DEF Detras
<1>2. PICK R : R = Previas
  OBVIOUS
<1>3. PICK Q : Q = Previas'
  OBVIOUS
<1>4. /\ n \in Nat /\ DOMAIN lista = 1..n /\ OrdenTotal(1..n, R)
      /\ Orden \in Seq(Paginas) /\ Len(Orden) = n
      /\ \A k \in 1..n : Orden[k] = lista[Puesto(n, R, k)].pagina
  BY <1>1, <1>2, OrdenPuesto
<1>5. /\ OrdenTotal(1..(n + 1), Q)
      /\ Orden' \in Seq(Paginas) /\ Len(Orden') = n + 1
      /\ \A k \in 1..(n + 1) : Orden'[k] = lista'[Puesto(n + 1, Q, k)].pagina
  BY <1>1, <1>3, OrdenDespues
<1>6. Agregada(n, R, Q)
  BY <1>1, <1>2, <1>3, <1>4, <1>5 DEF Agregada, Detras
<1>0. lista'[n + 1].pagina = p /\ \A j \in 1..n : lista'[j].pagina = lista[j].pagina
  BY <1>1, <1>4 DEF Detras
<1>7. /\ Puesto(n + 1, Q, n + 1) = n + 1
      /\ \A k \in 1..n : Puesto(n, R, k) \in 1..n /\ Puesto(n + 1, Q, k) = Puesto(n, R, k)
  <2>1. n \in Nat
    BY <1>4
  <2>. QED  BY <1>6, <2>1, PuestoAgregado
<1>9. /\ Append(Orden, p) \in Seq(Paginas) /\ Len(Append(Orden, p)) = n + 1
      /\ \A k \in 1..(n + 1) : Append(Orden, p)[k] = IF k <= n THEN Orden[k] ELSE p
  BY <1>4
<1>10. ASSUME NEW k \in 1..(n + 1)
       PROVE  Orden'[k] = Append(Orden, p)[k]
  <2>1. CASE k <= n
    <3>1. k \in 1..n /\ Puesto(n + 1, Q, k) = Puesto(n, R, k)
      BY <1>4, <1>7, <2>1
    <3>2. Orden'[k] = lista[Puesto(n, R, k)].pagina
      <4>1. k \in 1..(n + 1) /\ Puesto(n, R, k) \in 1..n
        BY <1>7, <3>1
      <4>2. Orden'[k] = lista'[Puesto(n, R, k)].pagina
        BY <1>5, <3>1, <4>1
      <4>. QED  BY <1>0, <4>1, <4>2
    <3>. QED  BY <1>4, <1>9, <2>1, <3>1, <3>2
  <2>2. CASE ~ k <= n
    <3>1. k = n + 1 /\ Puesto(n + 1, Q, k) = n + 1
      BY <1>4, <1>7, <2>2
    <3>. QED  BY <1>0, <1>5, <1>9, <2>2, <3>1
  <2>. QED  BY <2>1, <2>2
<1>. QED  BY <1>5, <1>9, <1>10, MismaSecuencia

\* The same after a step.
LEMMA PreviasDespues ==
    (TypeOK /\ OrdenOK =>
       /\ DOMAIN Previas = DOMAIN lista
       /\ \A i \in DOMAIN lista : Previas[i] =
            {j \in DOMAIN lista : IF algoritmo = "FIFO" THEN lista[j].turno < lista[i].turno
                                                        ELSE lista[j].turno > lista[i].turno})'
<1>1. TypeOK /\ OrdenOK =>
       /\ DOMAIN Previas = DOMAIN lista
       /\ \A i \in DOMAIN lista : Previas[i] =
            {j \in DOMAIN lista : IF algoritmo = "FIFO" THEN lista[j].turno < lista[i].turno
                                                        ELSE lista[j].turno > lista[i].turno}
  BY PreviasDe
<1>. QED  BY <1>1, PTL

\* The types of the entries.
LEMMA Entrada ==
    ASSUME TypeOK
    PROVE  /\ Len(lista) \in Nat /\ DOMAIN lista = 1..Len(lista) /\ lista \in Seq(Traducciones)
           /\ cantidad \in Nat /\ algoritmo \in {"FIFO", "LRU"}
           /\ \A j \in DOMAIN lista : lista[j].turno \in Int /\ lista[j].pagina \in Paginas
<1>1. /\ Len(lista) \in Nat /\ DOMAIN lista = 1..Len(lista) /\ lista \in Seq(Traducciones)
      /\ cantidad \in Nat /\ algoritmo \in {"FIFO", "LRU"}
      /\ \A j \in DOMAIN lista : lista[j] \in Traducciones
  BY DEF TypeOK
<1>2. \A e \in Traducciones : e.turno \in Int /\ e.pagina \in Paginas
  BY DEF Traducciones
<1>. QED  BY <1>1, <1>2

\* What an entry is given when its page is used or replaced: the last turn.
Ultima(i, p, t, d) ==
    /\ i \in DOMAIN lista /\ lista' = Asignar(i, p, t, d)
    /\ algoritmo' = algoritmo /\ cantidad' = cantidad
    /\ \A j \in DOMAIN lista : j # i => lista[j].pagina # p
    /\ \/ algoritmo = "LRU" /\ t = 0 /\ d = 1
       \/ algoritmo = "FIFO" /\ t = cantidad - 1 /\ d = -1 /\ lista[i].turno = 0

\* It becomes the last to be replaced, and the others keep their order.
LEMMA PasoUltima ==
    ASSUME TypeOK, OrdenOK, NEW i, NEW p \in Paginas, NEW t \in Int, NEW d \in Int,
           Ultima(i, p, t, d)
    PROVE  OrdenOK' /\ (TypeOK' => AlFondo(i, p))
<1>1. /\ i \in DOMAIN lista /\ algoritmo' = algoritmo /\ cantidad' = cantidad
      /\ Len(lista) \in Nat /\ DOMAIN lista = 1..Len(lista)
      /\ cantidad \in Nat /\ algoritmo \in {"FIFO", "LRU"}
      /\ \A j \in DOMAIN lista : lista[j].turno \in Int
      /\ \A j \in DOMAIN lista : j # i => lista[j].pagina # p
  BY Entrada DEF Ultima
<1>2. /\ Len(lista') = Len(lista) /\ lista' \in Seq(Traducciones) /\ lista'[i].turno = t
      /\ \A j \in DOMAIN lista : j # i => lista'[j].turno = lista[j].turno + d
  BY <1>1, ListaTipo DEF Ultima
<1>3. /\ lista'[i].pagina = p
      /\ \A j \in DOMAIN lista : j # i => lista'[j].pagina = lista[j].pagina
  BY <1>1, ListaPaginas DEF Ultima
<1>4. DOMAIN lista' = DOMAIN lista
  BY <1>1, <1>2
<1>5. /\ \A j, k \in DOMAIN lista : lista[j].pagina = lista[k].pagina => j = k
      /\ \A j, k \in DOMAIN lista : lista[j].turno = lista[k].turno => j = k
      /\ \A j \in DOMAIN lista : /\ lista[j].turno >= 0
                                 /\ algoritmo = "FIFO" => lista[j].turno < cantidad
  BY DEF OrdenOK
<1>6. \/ algoritmo = "LRU" /\ t = 0 /\ d = 1
      \/ algoritmo = "FIFO" /\ t = cantidad - 1 /\ d = -1 /\ lista[i].turno = 0
  BY DEF Ultima
<1>7. \A j, k \in DOMAIN lista' : lista'[j].pagina = lista'[k].pagina => j = k
  BY <1>1, <1>3, <1>4, <1>5
<1>8. \A j \in DOMAIN lista : j # i =>
        /\ lista'[j].turno >= 0
        /\ algoritmo = "FIFO" => lista'[j].turno < t
        /\ algoritmo = "LRU" => lista'[j].turno > t
  BY <1>1, <1>2, <1>5, <1>6
<1>9. t >= 0 /\ (algoritmo = "FIFO" => t < cantidad)
  BY <1>1, <1>5, <1>6
<1>10. \A j, k \in DOMAIN lista' : lista'[j].turno = lista'[k].turno => j = k
  <2>. SUFFICES ASSUME NEW j \in DOMAIN lista, NEW k \in DOMAIN lista,
                       lista'[j].turno = lista'[k].turno, j # k
                PROVE  FALSE
    BY <1>4
  <2>1. CASE j = i \/ k = i
    BY <1>1, <1>2, <1>6, <1>8, <2>1
  <2>2. CASE j # i /\ k # i
    BY <1>1, <1>2, <1>5, <2>2
  <2>. QED  BY <2>1, <2>2
<1>11. \A j \in DOMAIN lista' : /\ lista'[j].turno >= 0
                                /\ algoritmo' = "FIFO" => lista'[j].turno < cantidad'
  <2>. SUFFICES ASSUME NEW j \in DOMAIN lista
                PROVE  /\ lista'[j].turno >= 0
                       /\ algoritmo = "FIFO" => lista'[j].turno < cantidad
    BY <1>1, <1>4
  <2>1. CASE j = i
    BY <1>2, <1>9, <2>1
  <2>2. CASE j # i
    BY <1>1, <1>2, <1>5, <1>6, <1>8, <2>2
  <2>. QED  BY <2>1, <2>2
<1>12. OrdenOK'
  BY <1>7, <1>10, <1>11 DEF OrdenOK
<1>13. ASSUME TypeOK'
       PROVE  AlFondo(i, p)
  <2>1. \A k \in DOMAIN lista : Previas[k] =
          {j \in DOMAIN lista : IF algoritmo = "FIFO" THEN lista[j].turno < lista[k].turno
                                                      ELSE lista[j].turno > lista[k].turno}
    BY PreviasDe
  <2>2. \A k \in DOMAIN lista : Previas'[k] =
          {j \in DOMAIN lista : IF algoritmo = "FIFO" THEN lista'[j].turno < lista'[k].turno
                                                      ELSE lista'[j].turno > lista'[k].turno}
    BY <1>1, <1>4, <1>12, <1>13, PreviasDespues
  <2>3. Previas'[i] = DOMAIN lista \ {i}
    <3>1. \A j \in DOMAIN lista :
            (IF algoritmo = "FIFO" THEN lista'[j].turno < lista'[i].turno
                                   ELSE lista'[j].turno > lista'[i].turno) <=> j # i
      BY <1>1, <1>2, <1>6, <1>8
    <3>. QED  BY <1>1, <2>2, <3>1
  <2>4. ASSUME NEW k \in DOMAIN lista, k # i
        PROVE  Previas'[k] = Previas[k] \ {i}
    <3>1. ASSUME NEW j \in DOMAIN lista, j # i
          PROVE  (IF algoritmo = "FIFO" THEN lista'[j].turno < lista'[k].turno
                                        ELSE lista'[j].turno > lista'[k].turno)
                 <=> (IF algoritmo = "FIFO" THEN lista[j].turno < lista[k].turno
                                            ELSE lista[j].turno > lista[k].turno)
      BY <1>1, <1>2, <1>6, <2>4, <3>1
    <3>2. ~ (IF algoritmo = "FIFO" THEN lista'[i].turno < lista'[k].turno
                                   ELSE lista'[i].turno > lista'[k].turno)
      BY <1>1, <1>2, <1>6, <1>8, <2>4
    <3>. QED  BY <2>1, <2>2, <2>4, <3>1, <3>2
  <2>. QED  BY <1>1, <1>2, <1>3, <2>3, <2>4 DEF AlFondo
<1>. QED  BY <1>12, <1>13

\* What a new entry is given: the last turn too.
Nueva(p, t, d) ==
    /\ lista' = Append(Sumar(d), [pagina |-> p, turno |-> t])
    /\ algoritmo' = algoritmo
    /\ \A j \in DOMAIN lista : lista[j].pagina # p
    /\ \/ algoritmo = "LRU" /\ t = 0 /\ d = 1
       \/ algoritmo = "FIFO" /\ t = cantidad /\ d = 0 /\ cantidad' = cantidad + 1

\* All the entries age the same.
LEMMA Suma ==
    ASSUME TypeOK, NEW d \in Int
    PROVE  /\ Sumar(d) \in Seq(Traducciones) /\ Len(Sumar(d)) = Len(lista)
           /\ \A j \in DOMAIN lista : /\ Sumar(d)[j].turno = lista[j].turno + d
                                      /\ Sumar(d)[j].pagina = lista[j].pagina
<1>1. CASE lista = <<>>
  <2>1. Sumar(d) = <<>> /\ DOMAIN lista = {}
    BY <1>1 DEF Sumar
  <2>. QED  BY <1>1, <2>1
<1>2. CASE lista # <<>>
  <2>1. 1 \in DOMAIN lista /\ 0 \in Paginas /\ 0 \in Int
    BY <1>2, Entrada, PaginasAssumption
  <2>2. /\ Sumar(d) \in Seq(Traducciones) /\ Len(Sumar(d)) = Len(lista)
        /\ \A j \in DOMAIN lista : Sumar(d)[j].turno = lista[j].turno + d
    BY <2>1, ListaTipo
  <2>3. \A j \in DOMAIN lista : Sumar(d)[j].pagina = lista[j].pagina
    BY <2>1, ListaPaginas
  <2>. QED  BY <2>2, <2>3
<1>. QED  BY <1>1, <1>2

\* It is the last to be replaced, and the others keep their order.
LEMMA PasoNueva ==
    ASSUME TypeOK, OrdenOK, NEW p \in Paginas, NEW t \in Int, NEW d \in Int, Nueva(p, t, d)
    PROVE  OrdenOK' /\ (TypeOK' => Detras(p))
<1>1. /\ algoritmo' = algoritmo
      /\ Len(lista) \in Nat /\ DOMAIN lista = 1..Len(lista)
      /\ cantidad \in Nat /\ algoritmo \in {"FIFO", "LRU"}
      /\ \A j \in DOMAIN lista : lista[j].turno \in Int
      /\ \A j \in DOMAIN lista : lista[j].pagina # p
  BY Entrada DEF Nueva
<1>2. PICK n : n = Len(lista)
  OBVIOUS
<1>3. /\ DOMAIN lista = 1..n /\ n \in Nat /\ DOMAIN lista' = 1..(n + 1) /\ Len(lista') = n + 1
      /\ lista'[n + 1].turno = t /\ lista'[n + 1].pagina = p
      /\ \A j \in 1..n : lista'[j].turno = lista[j].turno + d /\ lista'[j].pagina = lista[j].pagina
  <2>. DEFINE s == Sumar(d)
              e == [pagina |-> p, turno |-> t]
  <2>1. /\ s \in Seq(Traducciones) /\ Len(s) = n
        /\ \A j \in 1..n : s[j].turno = lista[j].turno + d /\ s[j].pagina = lista[j].pagina
    BY <1>1, <1>2, Suma
  <2>2. e \in Traducciones /\ e.pagina = p /\ e.turno = t
    BY DEF Traducciones
  <2>3. lista' = Append(s, e)
    BY DEF Nueva
  <2>. HIDE DEF s, e
  <2>. QED  BY <1>1, <1>2, <2>1, <2>2, <2>3
<1>4. \A j \in 1..(n + 1) : j # n + 1 => j \in 1..n
  BY <1>3
<1>5. /\ \A j, k \in 1..n : lista[j].pagina = lista[k].pagina => j = k
      /\ \A j, k \in 1..n : lista[j].turno = lista[k].turno => j = k
      /\ \A j \in 1..n : /\ lista[j].turno \in Int
                         /\ lista[j].pagina # p
                         /\ lista[j].turno >= 0
                         /\ algoritmo = "FIFO" => lista[j].turno < cantidad
  BY <1>1, <1>3 DEF OrdenOK
<1>6. \/ algoritmo = "LRU" /\ t = 0 /\ d = 1
      \/ algoritmo = "FIFO" /\ t = cantidad /\ d = 0 /\ cantidad' = cantidad + 1
  BY DEF Nueva
<1>7. \A j, k \in 1..(n + 1) : lista'[j].pagina = lista'[k].pagina => j = k
  <2>. SUFFICES ASSUME NEW j \in 1..(n + 1), NEW k \in 1..(n + 1),
                       lista'[j].pagina = lista'[k].pagina, j # k
                PROVE  FALSE
    OBVIOUS
  <2>1. CASE j # n + 1 /\ k # n + 1
    BY <1>3, <1>4, <1>5, <2>1
  <2>2. CASE j = n + 1
    BY <1>3, <1>4, <1>5, <2>2
  <2>3. CASE k = n + 1
    BY <1>3, <1>4, <1>5, <2>3
  <2>. QED  BY <2>1, <2>2, <2>3
<1>8. \A j \in 1..n : /\ lista'[j].turno >= 0 /\ lista'[j].turno \in Int
                      /\ algoritmo = "FIFO" => lista'[j].turno < t
                      /\ algoritmo = "LRU" => lista'[j].turno > t
  BY <1>1, <1>3, <1>5, <1>6
<1>10. \A j, k \in 1..(n + 1) : lista'[j].turno = lista'[k].turno => j = k
  <2>. SUFFICES ASSUME NEW j \in 1..(n + 1), NEW k \in 1..(n + 1),
                       lista'[j].turno = lista'[k].turno, j # k
                PROVE  FALSE
    OBVIOUS
  <2>1. CASE j # n + 1 /\ k # n + 1
    BY <1>3, <1>4, <1>5, <2>1
  <2>2. CASE j = n + 1
    BY <1>1, <1>3, <1>4, <1>8, <2>2
  <2>3. CASE k = n + 1
    BY <1>1, <1>3, <1>4, <1>8, <2>3
  <2>. QED  BY <2>1, <2>2, <2>3
<1>11. \A j \in 1..(n + 1) : /\ lista'[j].turno >= 0
                             /\ algoritmo' = "FIFO" => lista'[j].turno < cantidad'
  <2>. SUFFICES ASSUME NEW j \in 1..(n + 1)
                PROVE  /\ lista'[j].turno >= 0
                       /\ algoritmo = "FIFO" => lista'[j].turno < cantidad'
    BY <1>1
  <2>1. CASE j = n + 1
    BY <1>1, <1>3, <1>6, <2>1
  <2>2. CASE j # n + 1
    BY <1>1, <1>4, <1>6, <1>8, <2>2
  <2>. QED  BY <2>1, <2>2
<1>12. OrdenOK'
  BY <1>3, <1>7, <1>10, <1>11 DEF OrdenOK
<1>13. ASSUME TypeOK'
       PROVE  Detras(p)
  <2>1. \A k \in 1..n : Previas[k] =
          {j \in 1..n : IF algoritmo = "FIFO" THEN lista[j].turno < lista[k].turno
                                              ELSE lista[j].turno > lista[k].turno}
    BY <1>3, PreviasDe
  <2>2. \A k \in 1..(n + 1) : Previas'[k] =
          {j \in 1..(n + 1) : IF algoritmo = "FIFO" THEN lista'[j].turno < lista'[k].turno
                                                    ELSE lista'[j].turno > lista'[k].turno}
    BY <1>1, <1>3, <1>12, <1>13, PreviasDespues
  <2>. DEFINE A(j, k) == IF algoritmo = "FIFO" THEN lista'[j].turno < lista'[k].turno
                                               ELSE lista'[j].turno > lista'[k].turno
              B(j, k) == IF algoritmo = "FIFO" THEN lista[j].turno < lista[k].turno
                                               ELSE lista[j].turno > lista[k].turno
  <2>3. \A j \in 1..n : A(j, n + 1) /\ ~ A(n + 1, j)
    BY <1>1, <1>3, <1>8
  <2>4. \A j, k \in 1..n : A(j, k) <=> B(j, k)
    BY <1>1, <1>3, <1>5, <1>6
  <2>5. ~ A(n + 1, n + 1)
    BY <1>3
  <2>6. /\ \A k \in 1..(n + 1) : Previas'[k] = {j \in 1..(n + 1) : A(j, k)}
        /\ \A k \in 1..n : Previas[k] = {j \in 1..n : B(j, k)}
    BY <2>1, <2>2
  <2>. HIDE DEF A, B
  <2>7. n + 1 \in 1..(n + 1) /\ \A j \in 1..n : j \in 1..(n + 1) /\ j # n + 1
    BY <1>3
  <2>8. Previas'[n + 1] = 1..n
    <3>1. Previas'[n + 1] = {j \in 1..(n + 1) : A(j, n + 1)}
      BY <2>6, <2>7
    <3>2. ASSUME NEW j \in 1..(n + 1)
          PROVE  A(j, n + 1) <=> j \in 1..n
      <4>1. CASE j = n + 1
        BY <2>5, <2>7, <4>1
      <4>2. CASE j # n + 1
        BY <1>4, <2>3, <4>2
      <4>. QED  BY <4>1, <4>2
    <3>3. \A j \in 1..n : j \in 1..(n + 1)
      BY <2>7
    <3>. QED  BY <3>1, <3>2, <3>3
  <2>9. ASSUME NEW k \in 1..n
        PROVE  Previas'[k] = Previas[k]
    <3>1. Previas'[k] = {j \in 1..(n + 1) : A(j, k)} /\ Previas[k] = {j \in 1..n : B(j, k)}
      BY <2>6, <2>7
    <3>2. ASSUME NEW j \in 1..(n + 1)
          PROVE  A(j, k) <=> j \in 1..n /\ B(j, k)
      <4>1. CASE j = n + 1
        BY <2>3, <2>7, <4>1
      <4>2. CASE j # n + 1
        BY <1>4, <2>4, <4>2
      <4>. QED  BY <4>1, <4>2
    <3>3. \A j \in 1..n : j \in 1..(n + 1)
      BY <2>7
    <3>. QED  BY <3>1, <3>2, <3>3
  <2>. QED  BY <1>2, <1>3, <2>8, <2>9 DEF Detras
<1>. QED  BY <1>12, <1>13

\* Each translation that changes the list gives the last turn to the page asked for.
LEMMA CadaTraduccion ==
    ASSUME TypeOK, NEW p \in Paginas, Traducir(p)
    PROVE  /\ algoritmo' = algoritmo /\ buscada' = p
           /\ \/ Esta(p) /\ algoritmo = "FIFO" /\ lista' = lista /\ cantidad' = cantidad
              \/ algoritmo = "LRU" /\ \E i \in DOMAIN lista : Paginada(i, p) /\ lista' = Asignar(i, p, 0, 1)
                                                              /\ cantidad' = cantidad
              \/ /\ ~ Esta(p) /\ Len(lista) < Entradas
                 /\ Nueva(p, IF algoritmo = "FIFO" THEN cantidad ELSE 0,
                             IF algoritmo = "FIFO" THEN 0 ELSE 1)
              \/ /\ ~ Esta(p) /\ Len(lista) >= Entradas
                 /\ \E i \in DOMAIN lista :
                      /\ algoritmo = "FIFO" => PrimeroEnCero(i)
                      /\ algoritmo = "LRU" => MayorEspera(i)
                      /\ Ultima(i, p, IF algoritmo = "FIFO" THEN cantidad - 1 ELSE 0,
                                      IF algoritmo = "FIFO" THEN -1 ELSE 1)
<1>1. /\ cantidad \in Nat /\ algoritmo \in {"FIFO", "LRU"} /\ lista \in Seq(Traducciones)
      /\ \A j \in DOMAIN lista : lista[j] \in Traducciones
  BY DEF TypeOK
<1>2. /\ algoritmo' = algoritmo /\ buscada' = p
  BY DEF Traducir, Usar, UsarFifo, AgregarFifo, AgregarLru, ReemplazarFifo, ReemplazarLru
<1>3. ASSUME ~ Esta(p)
      PROVE  \A j \in DOMAIN lista : lista[j].pagina # p
  BY <1>3 DEF Esta, Paginada
<1>4. CASE Usar(p)
  BY <1>2, <1>4 DEF Usar
<1>5. CASE UsarFifo(p)
  BY <1>2, <1>5 DEF UsarFifo
<1>6. CASE ~ Esta(p) /\ AgregarFifo(p)
  <2>1. Sumar(0) = lista
    <3>1. ASSUME NEW e \in Traducciones
          PROVE  [e EXCEPT !.turno = @ + 0] = e
      <4>1. e.turno \in Int /\ e.turno + 0 = e.turno
        BY DEF Traducciones
      <4>. QED  BY <4>1 DEF Traducciones
    <3>2. lista = [i \in DOMAIN lista |-> lista[i]]
      BY <1>1
    <3>. QED  BY <1>1, <3>1, <3>2 DEF Sumar
  <2>2. Nueva(p, cantidad, 0)
    BY <1>2, <1>3, <1>6, <2>1 DEF AgregarFifo, Nueva
  <2>3. algoritmo = "FIFO" /\ Len(lista) < Entradas
    BY <1>6 DEF AgregarFifo
  <2>. QED  BY <1>2, <1>6, <2>2, <2>3
<1>7. CASE ~ Esta(p) /\ AgregarLru(p)
  <2>1. Nueva(p, 0, 1)
    BY <1>2, <1>3, <1>7 DEF AgregarLru, Nueva
  <2>2. algoritmo = "LRU" /\ Len(lista) < Entradas
    BY <1>7 DEF AgregarLru
  <2>. QED  BY <1>2, <1>7, <2>1, <2>2
<1>8. CASE ~ Esta(p) /\ ReemplazarFifo(p)
  <2>1. PICK i \in DOMAIN lista : PrimeroEnCero(i) /\ lista' = Asignar(i, p, cantidad - 1, -1)
    BY <1>8 DEF ReemplazarFifo
  <2>2. algoritmo = "FIFO" /\ Len(lista) >= Entradas /\ cantidad' = cantidad
    BY <1>8 DEF ReemplazarFifo
  <2>3. Ultima(i, p, cantidad - 1, -1)
    BY <1>2, <1>3, <1>8, <2>1, <2>2 DEF Ultima, PrimeroEnCero
  <2>. QED  BY <1>2, <1>8, <2>1, <2>2, <2>3
<1>9. CASE ~ Esta(p) /\ ReemplazarLru(p)
  <2>1. PICK i \in DOMAIN lista : MayorEspera(i) /\ lista' = Asignar(i, p, 0, 1)
    BY <1>9 DEF ReemplazarLru
  <2>2. algoritmo = "LRU" /\ Len(lista) >= Entradas /\ cantidad' = cantidad
    BY <1>9 DEF ReemplazarLru
  <2>3. Ultima(i, p, 0, 1)
    BY <1>2, <1>3, <1>9, <2>1, <2>2 DEF Ultima
  <2>. QED  BY <1>2, <1>9, <2>1, <2>2, <2>3
<1>. QED  BY <1>4, <1>5, <1>6, <1>7, <1>8, <1>9 DEF Traducir

\* A hit under LRU gives the last turn to the page it had.
LEMMA UsarUltima ==
    ASSUME OrdenOK, NEW p, NEW i \in DOMAIN lista, Paginada(i, p), algoritmo = "LRU",
           lista' = Asignar(i, p, 0, 1), algoritmo' = algoritmo, cantidad' = cantidad
    PROVE  Ultima(i, p, 0, 1)
BY DEF OrdenOK, Paginada, Ultima

\* Each step keeps pages and turns different.
LEMMA OrdenPaso == TypeOK /\ OrdenOK /\ Next => OrdenOK'
<1>. SUFFICES ASSUME TypeOK, OrdenOK, Next
              PROVE  OrdenOK'
  OBVIOUS
<1>1. cantidad \in Nat /\ algoritmo \in {"FIFO", "LRU"}
  BY DEF TypeOK
<1>2. CASE UNCHANGED <<algoritmo, cantidad, lista>>
  BY <1>2 DEF OrdenOK
<1>3. ASSUME NEW p \in Paginas, Traducir(p)
      PROVE  OrdenOK'
  <2>1. CASE lista' = lista /\ cantidad' = cantidad
    BY <1>2, <1>3, <2>1, CadaTraduccion
  <2>2. CASE algoritmo = "LRU" /\ \E i \in DOMAIN lista :
                Paginada(i, p) /\ lista' = Asignar(i, p, 0, 1) /\ cantidad' = cantidad
    <3>1. PICK i \in DOMAIN lista :
                Paginada(i, p) /\ lista' = Asignar(i, p, 0, 1) /\ cantidad' = cantidad
      BY <2>2
    <3>2. Ultima(i, p, 0, 1)
      BY <1>3, <2>2, <3>1, CadaTraduccion, UsarUltima
    <3>3. 0 \in Int /\ 1 \in Int
      OBVIOUS
    <3>. QED  BY <3>2, <3>3, PasoUltima
  <2>3. ASSUME NEW t \in Int, NEW d \in Int, Nueva(p, t, d)
        PROVE  OrdenOK'
    BY <2>3, PasoNueva
  <2>4. ASSUME NEW t \in Int, NEW d \in Int, NEW i, Ultima(i, p, t, d)
        PROVE  OrdenOK'
    BY <2>4, PasoUltima
  <2>5. /\ (IF algoritmo = "FIFO" THEN cantidad ELSE 0) \in Int
        /\ (IF algoritmo = "FIFO" THEN 0 ELSE 1) \in Int
        /\ (IF algoritmo = "FIFO" THEN cantidad - 1 ELSE 0) \in Int
        /\ (IF algoritmo = "FIFO" THEN -1 ELSE 1) \in Int
    BY <1>1
  <2>. QED  BY <1>3, <2>1, <2>2, <2>3, <2>4, <2>5, CadaTraduccion
<1>4. CASE \E p \in Pids : Despachar(p)
  <2>1. lista' = lista \/ lista' = <<>>
    BY <1>4 DEF Despachar
  <2>2. algoritmo' = algoritmo /\ cantidad' = cantidad
    BY <1>4 DEF Despachar
  <2>3. CASE lista' = <<>>
    <3>1. DOMAIN lista' = {}
      BY <2>3
    <3>. QED  BY <3>1 DEF OrdenOK
  <2>. QED  BY <1>2, <2>1, <2>2, <2>3
<1>5. CASE \E p \in Paginas : TraducirSinVictima(p)
  BY <1>2, <1>5 DEF TraducirSinVictima, SinVictima
<1>6. CASE Volver
  BY <1>2, <1>6 DEF Volver
<1>. QED  BY <1>3, <1>4, <1>5, <1>6 DEF Next

\* The order says which pages are translated, each in one place.
LEMMA OrdenLista ==
    ASSUME TypeOK, OrdenOK, NEW p
    PROVE  /\ Reemplazo!Traduce(p) <=> Esta(p)
           /\ \A k, l \in DOMAIN Orden : Orden[k] = Orden[l] => k = l
<1>1. PICK n : n = Len(lista)
  OBVIOUS
<1>2. PICK R : R = Previas
  OBVIOUS
<1>3. /\ n \in Nat /\ DOMAIN lista = 1..n /\ OrdenTotal(1..n, R)
      /\ Orden \in Seq(Paginas) /\ Len(Orden) = n
      /\ \A k \in 1..n : Orden[k] = lista[Puesto(n, R, k)].pagina
  BY <1>1, <1>2, OrdenPuesto
<1>4. DOMAIN Orden = 1..n
  BY <1>3
<1>5. /\ \A i \in 1..n : /\ Cardinality(R[i]) \in Nat /\ Cardinality(R[i]) + 1 \in 1..n
                         /\ Puesto(n, R, Cardinality(R[i]) + 1) = i
      /\ \A k \in 1..n : Puesto(n, R, k) \in 1..n /\ Cardinality(R[Puesto(n, R, k)]) = k - 1
  <2>1. \A S : OrdenTotal(1..n, S) =>
          /\ \A i \in 1..n : /\ Cardinality(S[i]) \in Nat /\ Cardinality(S[i]) + 1 \in 1..n
                             /\ Puesto(n, S, Cardinality(S[i]) + 1) = i
          /\ \A k \in 1..n : Puesto(n, S, k) \in 1..n /\ Cardinality(S[Puesto(n, S, k)]) = k - 1
    <3>1. n \in Nat
      BY <1>3
    <3>. QED  BY <3>1, PuestoDe
  <2>. QED  BY <1>3, <2>1
<1>6. Reemplazo!Traduce(p) <=> Esta(p)
  <2>1. ASSUME NEW k \in 1..n, Orden[k] = p
        PROVE  \E i \in 1..n : lista[i].pagina = p
    BY <1>3, <1>5, <2>1
  <2>2. ASSUME NEW i \in 1..n, lista[i].pagina = p
        PROVE  \E k \in 1..n : Orden[k] = p
    BY <1>3, <1>5, <2>2
  <2>. QED  BY <1>3, <1>4, <2>1, <2>2 DEF Reemplazo!Traduce, Esta, Paginada
<1>7. ASSUME NEW k \in 1..n, NEW l \in 1..n, Orden[k] = Orden[l]
      PROVE  k = l
  <2>1. Puesto(n, R, k) \in 1..n /\ Puesto(n, R, l) \in 1..n
    BY <1>5
  <2>2. lista[Puesto(n, R, k)].pagina = lista[Puesto(n, R, l)].pagina
    BY <1>3, <1>7
  <2>3. Puesto(n, R, k) = Puesto(n, R, l)
    BY <1>3, <2>1, <2>2 DEF OrdenOK
  <2>4. k - 1 = l - 1
    BY <1>5, <2>3
  <2>. QED  BY <1>3, <2>4
<1>. QED  BY <1>4, <1>6, <1>7

\* The entry that is replaced is the first of the order.
LEMMA PrimeraVictima ==
    ASSUME TypeOK, OrdenOK, NEW i \in DOMAIN lista,
           algoritmo = "FIFO" => PrimeroEnCero(i), algoritmo = "LRU" => MayorEspera(i)
    PROVE  Cardinality(Previas[i]) = 0
<1>1. /\ algoritmo \in {"FIFO", "LRU"} /\ \A j \in DOMAIN lista : lista[j].turno \in Int
      /\ \A j \in DOMAIN lista : lista[j].turno >= 0
  BY Entrada DEF OrdenOK
<1>2. \A j \in DOMAIN lista : ~ IF algoritmo = "FIFO" THEN lista[j].turno < lista[i].turno
                                                      ELSE lista[j].turno > lista[i].turno
  BY <1>1 DEF PrimeroEnCero, MayorEspera
<1>3. Previas[i] = {}
  BY <1>2, PreviasDe
<1>. QED  BY <1>3, FS_EmptySet

\* Without the first, a sequence is its tail.
LEMMA SinPrimera ==
    ASSUME NEW S, NEW s \in Seq(S), 1 \in 1..Len(s)
    PROVE  RemoveAt(s, 1) = Tail(s)
<1>1. SubSeq(s, 1, 1 - 1) = <<>>
  <2>1. 1 - 1 = 0
    OBVIOUS
  <2>. QED  BY <2>1, SubSeqEmpty
<1>2. SubSeq(s, 2, Len(s)) = Tail(s)
  OBVIOUS
<1>3. SubSeq(s, 2, Len(s)) \in Seq(S) /\ 1 + 1 = 2
  BY <1>2
<1>. QED  BY <1>1, <1>2, <1>3 DEF RemoveAt

\* A translation is a step of the list of pages: its page comes to the end, after the
\* first has left if there was no place, or nothing moves.
LEMMA TraducirImplementa ==
    ASSUME TypeOK, OrdenOK, TypeOK', OrdenOK', NEW p \in Paginas, Traducir(p)
    PROVE  Reemplazo!Usar(p) \/ Reemplazo!Agregar(p)
<1>1. /\ Len(lista) \in Nat /\ Orden \in Seq(Paginas) /\ Len(Orden) = Len(lista)
      /\ DOMAIN Orden = 1..Len(lista)
  <2>1. Len(lista) \in Nat /\ Orden \in Seq(Paginas) /\ Len(Orden) = Len(lista)
    BY OrdenPuesto
  <2>. QED  BY <2>1
<1>2. buscada' = p /\ algoritmo' = algoritmo
  BY CadaTraduccion
<1>3. /\ Reemplazo!Traduce(p) <=> Esta(p)
      /\ \A k, l \in DOMAIN Orden : Orden[k] = Orden[l] => k = l
  BY OrdenLista
<1>4. ASSUME Esta(p), algoritmo = "FIFO", lista' = lista
      PROVE  Reemplazo!Usar(p)
  <2>1. Orden' = Orden
    BY <1>2, <1>4 DEF Orden, Previas, Antes
  <2>. QED  BY <1>2, <1>3, <1>4, <2>1 DEF Reemplazo!Usar
<1>5. ASSUME algoritmo = "LRU", NEW i \in DOMAIN lista, Paginada(i, p),
             lista' = Asignar(i, p, 0, 1), cantidad' = cantidad
      PROVE  Reemplazo!Usar(p)
  <2>. DEFINE c == Cardinality(Previas[i]) + 1
  <2>1. AlFondo(i, p)
    <3>1. Ultima(i, p, 0, 1)
      BY <1>2, <1>5, UsarUltima
    <3>2. 0 \in Int /\ 1 \in Int
      OBVIOUS
    <3>. QED  BY <3>1, <3>2, PasoUltima
  <2>2. c \in 1..Len(Orden) /\ Orden[c] = p /\ Orden' = Append(RemoveAt(Orden, c), p)
    BY <1>5, <2>1, Mueve DEF Paginada
  <2>. HIDE DEF c
  <2>3. (CHOOSE k \in DOMAIN Orden : Orden[k] = p) = c
    BY <1>1, <1>3, <2>2
  <2>4. Reemplazo!AlFinal(p) = Append(RemoveAt(Orden, c), p)
    BY <2>3 DEF Reemplazo!AlFinal, Reemplazo!RemoveAt, RemoveAt
  <2>5. Reemplazo!Traduce(p)
    BY <1>3, <1>5 DEF Esta
  <2>. QED  BY <1>2, <1>5, <2>2, <2>4, <2>5 DEF Reemplazo!Usar
<1>6. ASSUME ~ Esta(p), Len(lista) < Entradas, NEW t \in Int, NEW d \in Int, Nueva(p, t, d)
      PROVE  Reemplazo!Agregar(p)
  <2>1. Orden' = Append(Orden, p)
    BY <1>6, PasoNueva, Agrega
  <2>. QED  BY <1>1, <1>2, <1>3, <1>6, <2>1 DEF Reemplazo!Agregar
<1>7. ASSUME ~ Esta(p), Len(lista) >= Entradas, NEW i \in DOMAIN lista,
             algoritmo = "FIFO" => PrimeroEnCero(i), algoritmo = "LRU" => MayorEspera(i),
             NEW t \in Int, NEW d \in Int, Ultima(i, p, t, d)
      PROVE  Reemplazo!Agregar(p)
  <2>1. AlFondo(i, p)
    BY <1>7, PasoUltima
  <2>2. Cardinality(Previas[i]) + 1 = 1
    BY <1>7, PrimeraVictima
  <2>3. 1 \in 1..Len(Orden) /\ Orden' = Append(RemoveAt(Orden, 1), p)
    BY <2>1, <2>2, Mueve
  <2>4. RemoveAt(Orden, 1) = Tail(Orden)
    BY <1>1, <2>3, SinPrimera
  <2>5. ~ Len(Orden) < Entradas
    BY <1>1, <1>7, EntradasAssumption
  <2>. QED  BY <1>2, <1>3, <1>7, <2>3, <2>4, <2>5 DEF Reemplazo!Agregar
<1>8. /\ (IF algoritmo = "FIFO" THEN cantidad ELSE 0) \in Int
      /\ (IF algoritmo = "FIFO" THEN 0 ELSE 1) \in Int
      /\ (IF algoritmo = "FIFO" THEN cantidad - 1 ELSE 0) \in Int
      /\ (IF algoritmo = "FIFO" THEN -1 ELSE 1) \in Int
  BY DEF TypeOK
<1>. QED  BY <1>4, <1>5, <1>6, <1>7, <1>8, CadaTraduccion

\* So is a flush, and the other steps move nothing.
LEMMA PasoImplementa ==
    ASSUME TypeOK, OrdenOK, TypeOK', OrdenOK', Next
    PROVE  [Reemplazo!Next]_(Reemplazo!vars)
<1>0. CASE UNCHANGED <<lista, buscada, algoritmo>>
  <2>1. Orden' = Orden
    BY <1>0 DEF Orden, Previas, Antes
  <2>. QED  BY <1>0, <2>1 DEF Reemplazo!vars
<1>1. ASSUME NEW p \in Paginas, Traducir(p)
      PROVE  [Reemplazo!Next]_(Reemplazo!vars)
  <2>1. algoritmo' = algoritmo
    BY <1>1, CadaTraduccion
  <2>2. Reemplazo!Usar(p) \/ Reemplazo!Agregar(p)
    BY <1>1, TraducirImplementa
  <2>. QED  BY <2>1, <2>2 DEF Reemplazo!Next
<1>2. CASE \E p \in Pids : Despachar(p)
  <2>1. UNCHANGED <<buscada, algoritmo>> /\ (lista' = lista \/ lista' = <<>>)
    BY <1>2 DEF Despachar
  <2>2. CASE lista' = <<>>
    <3>1. Orden' = <<>>
      <4>1. DOMAIN lista' = {}
        BY <2>2
      <4>. QED  BY <4>1 DEF Orden
    <3>. QED  BY <2>1, <3>1 DEF Reemplazo!Next, Reemplazo!Vaciar
  <2>. QED  BY <1>0, <2>1, <2>2
<1>3. CASE \E p \in Paginas : TraducirSinVictima(p)
  BY <1>0, <1>3 DEF TraducirSinVictima, SinVictima
<1>4. CASE Volver
  BY <1>0, <1>4 DEF Volver
<1>. QED  BY <1>1, <1>2, <1>3, <1>4 DEF Next

-----------------------------------------------------------------------------
(* CLOCK and CLOCK-M.                                                      *)

Lista == paginas \in UNION {[1..n -> Bits] : n \in 1..MaxPaginas}

LEMMA ListaBits ==
    ASSUME Lista
    PROVE  /\ ListaOK(paginas) /\ paginas # <<>>
           /\ \A i \in 1..Len(paginas) : paginas[i] \in Bits
<1>1. PICK n \in 1..MaxPaginas : paginas \in [1..n -> Bits]
  BY DEF Lista
<1>2. n \in Nat \ {0} /\ paginas \in Seq(Bits) /\ DOMAIN paginas = 1..n
  BY <1>1, MaxPaginasAssumption
<1>3. Len(paginas) = n
  BY <1>2
<1>4. \A i \in 1..n : paginas[i] \in Bits
  BY <1>1
<1>5. \A b \in Bits : {b.u, b.m, b.puntero} \subseteq BOOLEAN
  BY DEF Bits
<1>6. paginas # <<>>
  BY <1>2, <1>3
<1>. QED  BY <1>2, <1>3, <1>4, <1>5, <1>6 DEF ListaOK

LEMMA DistanciaLejos ==
    ASSUME ListaOK(paginas), NEW i \in 1..Len(paginas)
    PROVE  Distancia(i) = Lejos(Aguja(paginas), i, Len(paginas)) /\ Distancia(i) \in Nat
<1>1. Len(paginas) \in Nat \ {0} /\ Aguja(paginas) \in 1..Len(paginas)
  BY AgujaCorrecta DEF ListaOK
<1>. DEFINE n == Len(paginas)
            k == Aguja(paginas)
<1>. HIDE DEF n, k
<1>2. n \in Nat \ {0} /\ k \in 1..n /\ i \in 1..n
  BY <1>1 DEF n, k
<1>3. /\ Lejos(k, i, n) \in 0..(n - 1) /\ Desde(k, Lejos(k, i, n), n) = i
      /\ \A d \in 0..(n - 1) : Lejos(k, Desde(k, d, n), n) = d
  BY <1>2, Vuelta
<1>4. (CHOOSE d \in 0..(n - 1) : Desde(k, d, n) = i) = Lejos(k, i, n)
  BY <1>3
<1>5. Lejos(k, i, n) \in Nat
  BY <1>2, <1>3
<1>. QED  BY <1>4, <1>5 DEF Distancia, n, k

\* The bits that CLOCK and CLOCK-M leave in the list.
LEMMA ElegirCorrecto ==
    ASSUME ListaOK(paginas), NEW alg \in Algoritmos, NEW v, v = Elegir(alg, paginas).victima
    PROVE  /\ v \in 1..Len(paginas) /\ Elegir(alg, paginas).u \in [1..Len(paginas) -> BOOLEAN]
           /\ \A i \in 1..Len(paginas) \ {v} :
                \/ Clase(alg, paginas[v]) < Clase(alg, paginas[i])
                \/ /\ Clase(alg, paginas[v]) = Clase(alg, paginas[i])
                   /\ Distancia(v) < Distancia(i)
           /\ \A i \in 1..Len(paginas) :
                Elegir(alg, paginas).u[i] <=>
                  /\ paginas[i].u /\ ~ paginas[v].u
                  /\ (alg = "CLOCK-M" /\ ~ paginas[v].m) \/ Distancia(i) > Distancia(v)
<1>. DEFINE n == Len(paginas)
<1>1. /\ \A i \in 1..n : /\ paginas[i].u \in BOOLEAN /\ paginas[i].m \in BOOLEAN
                         /\ Distancia(i) = Lejos(Aguja(paginas), i, n)
                         /\ Distancia(i) \in Nat
  BY DistanciaLejos DEF ListaOK
<1>2. CASE alg = "CLOCK"
  <2>1. Elegir(alg, paginas) = Clock(paginas) /\ v = Clock(paginas).victima
    BY <1>2 DEF Elegir
  <2>2. /\ v \in 1..n /\ Clock(paginas).u \in [1..n -> BOOLEAN]
        /\ \A i \in 1..n \ {v} :
             \/ ~ paginas[v].u /\ paginas[i].u
             \/ /\ paginas[v].u <=> paginas[i].u
                /\ Lejos(Aguja(paginas), v, n) < Lejos(Aguja(paginas), i, n)
        /\ \A i \in 1..n : Clock(paginas).u[i] <=>
             paginas[i].u /\ ~ paginas[v].u
             /\ Lejos(Aguja(paginas), i, n) > Lejos(Aguja(paginas), v, n)
    BY <2>1, ClockCorrecto
  <2>3. \A i \in 1..n : Clase(alg, paginas[i]) = IF paginas[i].u THEN 2 ELSE 0
    BY <1>2 DEF Clase
  <2>4. ASSUME NEW i \in 1..n \ {v}
        PROVE  \/ Clase(alg, paginas[v]) < Clase(alg, paginas[i])
               \/ /\ Clase(alg, paginas[v]) = Clase(alg, paginas[i])
                  /\ Distancia(v) < Distancia(i)
    BY <1>1, <2>2, <2>3
  <2>. QED  BY <1>1, <1>2, <2>1, <2>2, <2>4
<1>3. CASE alg = "CLOCK-M"
  <2>1. Elegir(alg, paginas) = ClockM(paginas) /\ v = ClockM(paginas).victima
    BY <1>3 DEF Elegir
  <2>2. /\ v \in 1..n /\ ClockM(paginas).u \in [1..n -> BOOLEAN]
        /\ \A i \in 1..n \ {v} : AntesM(paginas, v, i)
        /\ \A i \in 1..n : ClockM(paginas).u[i] <=>
             /\ paginas[i].u /\ ~ paginas[v].u
             /\ paginas[v].m => Lejos(Aguja(paginas), i, n) > Lejos(Aguja(paginas), v, n)
    BY <2>1, ClockMCorrecto
  <2>3. \A i \in 1..n : Clase(alg, paginas[i])
                          = (IF paginas[i].u THEN 2 ELSE 0) + (IF paginas[i].m THEN 1 ELSE 0)
    BY <1>3 DEF Clase
  <2>4. ASSUME NEW i \in 1..n \ {v}
        PROVE  \/ Clase(alg, paginas[v]) < Clase(alg, paginas[i])
               \/ /\ Clase(alg, paginas[v]) = Clase(alg, paginas[i])
                  /\ Distancia(v) < Distancia(i)
    <3>1. \/ ~ paginas[v].u /\ paginas[i].u
          \/ (paginas[v].u <=> paginas[i].u) /\ ~ paginas[v].m /\ paginas[i].m
          \/ /\ paginas[v].u <=> paginas[i].u
             /\ paginas[v].m <=> paginas[i].m
             /\ Distancia(v) < Distancia(i)
      BY <1>1, <2>2 DEF AntesM
    <3>. QED  BY <1>1, <2>2, <2>3, <3>1
  <2>. QED  BY <1>1, <1>3, <2>1, <2>2, <2>4
<1>. QED  BY <1>2, <1>3 DEF Algoritmos

LEMMA RotarBits ==
    ASSUME Lista, NEW alg \in Algoritmos, NEW v, v = Elegir(alg, paginas).victima
    PROVE  /\ DOMAIN Rotar(alg, paginas) = 1..Len(paginas)
           /\ \A i \in 1..Len(paginas) :
                /\ Rotar(alg, paginas)[i].u = Elegir(alg, paginas).u[i]
                /\ Rotar(alg, paginas)[i].puntero =
                     IF i = Siguiente(v, Len(paginas)) THEN TRUE
                     ELSE IF i = Aguja(paginas) THEN FALSE ELSE paginas[i].puntero
<1>1. DOMAIN paginas = 1..Len(paginas) /\ \A i \in 1..Len(paginas) : paginas[i] \in Bits
  BY ListaBits DEF ListaOK
<1>. DEFINE hand(i) == IF i = Siguiente(v, Len(paginas)) THEN TRUE
                       ELSE IF i = Aguja(paginas) THEN FALSE ELSE paginas[i].puntero
<1>2. Rotar(alg, paginas) = [i \in 1..Len(paginas) |->
          [paginas[i] EXCEPT !.u = Elegir(alg, paginas).u[i], !.puntero = hand(i)]]
  BY <1>1 DEF Rotar
<1>3. ASSUME NEW b \in Bits, NEW x, NEW y
      PROVE  [b EXCEPT !.u = x, !.puntero = y].u = x
             /\ [b EXCEPT !.u = x, !.puntero = y].puntero = y
  BY DEF Bits
<1>. HIDE DEF hand
<1>4. ASSUME NEW i \in 1..Len(paginas)
      PROVE  /\ Rotar(alg, paginas)[i].u = Elegir(alg, paginas).u[i]
             /\ Rotar(alg, paginas)[i].puntero = hand(i)
  <2>1. PICK x, y : x = Elegir(alg, paginas).u[i] /\ y = hand(i)
    OBVIOUS
  <2>2. Rotar(alg, paginas)[i] = [paginas[i] EXCEPT !.u = x, !.puntero = y]
    BY <1>2, <2>1
  <2>3. PICK b \in Bits : b = paginas[i]
    BY <1>1
  <2>4. Rotar(alg, paginas)[i] = [b EXCEPT !.u = x, !.puntero = y]
    BY <2>2, <2>3
  <2>. QED  BY <1>3, <2>1, <2>4
<1>. QED  BY <1>2, <1>4 DEF hand

\* With at most one hand, it goes from where it was to the place after the victim.
LEMMA UnaMano ==
    ASSUME Lista, NEW alg \in Algoritmos, NEW v, v = Elegir(alg, paginas).victima,
           Cardinality(Manos(paginas)) <= 1
    PROVE  {i \in DOMAIN Rotar(alg, paginas) : Rotar(alg, paginas)[i].puntero}
             = {Siguiente(v, Len(paginas))}
<1>1. ListaOK(paginas)
  BY ListaBits
<1>2. v \in 1..Len(paginas) /\ Len(paginas) \in Nat \ {0}
  BY <1>1, ElegirCorrecto DEF ListaOK
<1>3. Siguiente(v, Len(paginas)) \in 1..Len(paginas)
  BY <1>2, SiguienteVuelta
<1>4. \A i \in Manos(paginas) : i = Aguja(paginas)
  <2>1. SUFFICES ASSUME NEW i \in Manos(paginas), i # Aguja(paginas)
                 PROVE  FALSE
    OBVIOUS
  <2>2. Aguja(paginas) \in Manos(paginas)
    BY <1>1, AgujaCorrecta
  <2>3. IsFiniteSet(Manos(paginas))
    <3>1. IsFiniteSet(1..Len(paginas)) /\ Manos(paginas) \subseteq 1..Len(paginas)
      BY <1>1, <1>2, FS_Interval DEF Manos, ListaOK
    <3>. QED  BY <3>1, FS_Subset
  <2>4. Cardinality({i}) = 1 /\ IsFiniteSet({i})
    BY FS_Singleton
  <2>5. Cardinality({i} \cup {Aguja(paginas)}) = 2 /\ IsFiniteSet({i} \cup {Aguja(paginas)})
    <3>1. Aguja(paginas) \notin {i}
      BY <2>1
    <3>2. Cardinality({i} \cup {Aguja(paginas)}) = Cardinality({i}) + 1
          /\ IsFiniteSet({i} \cup {Aguja(paginas)})
      BY <2>4, <3>1, FS_AddElement
    <3>. QED  BY <2>4, <3>2
  <2>6. {i} \cup {Aguja(paginas)} \subseteq Manos(paginas)
    BY <2>2
  <2>7. 2 <= Cardinality(Manos(paginas)) /\ Cardinality(Manos(paginas)) \in Nat
    BY <2>3, <2>5, <2>6, FS_Subset, FS_CardinalityType
  <2>. QED  BY <2>7
<1>5. \A i \in 1..Len(paginas) : paginas[i].puntero => i = Aguja(paginas)
  BY <1>1, <1>4 DEF Manos, ListaOK
<1>6. \A i \in 1..Len(paginas) :
        Rotar(alg, paginas)[i].puntero <=> i = Siguiente(v, Len(paginas))
  <2>. SUFFICES ASSUME NEW i \in 1..Len(paginas)
                PROVE  Rotar(alg, paginas)[i].puntero <=> i = Siguiente(v, Len(paginas))
    OBVIOUS
  <2>1. Rotar(alg, paginas)[i].puntero =
          IF i = Siguiente(v, Len(paginas)) THEN TRUE
          ELSE IF i = Aguja(paginas) THEN FALSE ELSE paginas[i].puntero
    BY RotarBits
  <2>2. paginas[i].puntero \in BOOLEAN
    BY <1>1 DEF ListaOK
  <2>. QED  BY <1>5, <2>1, <2>2
<1>7. DOMAIN Rotar(alg, paginas) = 1..Len(paginas)
  BY RotarBits
<1>. QED  BY <1>3, <1>6, <1>7

-----------------------------------------------------------------------------
(* The theorems.                                                           *)

\* What was chosen is what the algorithms choose on the list.
Elegidas ==
    \/ elegidas = Sin
    \/ paginas # <<>> /\ elegidas = [a \in Algoritmos |-> Elegir(a, paginas).victima]

InvUno == TypeOK /\ Turnos /\ (paginas = <<>> \/ Lista) /\ Elegidas

\* Whatever takes steps, and however many entries or pages there are, the state is
\* of its type, the turns follow the counter and the victims are those of the list.
LEMMA InvUnoSiempre == SpecDeUno => []InvUno
<1>1. IniciarUno => InvUno
  <2>1. Init => TypeOK /\ Turnos
    BY PaginasAssumption DEF Init, TypeOK, Turnos
  <2>2. InitReloj => Lista /\ Elegidas
    BY DEF InitReloj, Lista, Elegidas
  <2>. QED  BY <2>1, <2>2 DEF IniciarUno, InvUno, Elegidas
<1>2. InvUno /\ [PasoDeUno]_todas => InvUno'
  <2>. SUFFICES ASSUME InvUno, [PasoDeUno]_todas
                PROVE  InvUno'
    OBVIOUS
  <2>1. CASE UNCHANGED todas
    <3>1. TypeOK' /\ Turnos'
      BY <2>1 DEF InvUno, TypeOK, Turnos, todas, vars
    <3>. QED  BY <2>1, <3>1 DEF InvUno, Lista, Elegidas, todas
  <2>2. CASE paginas = <<>> /\ Next /\ UNCHANGED <<paginas, elegidas>>
    <3>1. TypeOK' /\ Turnos'
      BY <2>2, TlbTipo, TurnosPaso DEF InvUno
    <3>. QED  BY <2>2, <3>1 DEF InvUno, Elegidas
  <2>3. CASE paginas # <<>> /\ NextReloj /\ UNCHANGED vars
    <3>1. TypeOK' /\ Turnos'
      BY <2>3 DEF InvUno, TypeOK, Turnos, vars
    <3>2. Lista' /\ Elegidas'
      BY <2>3 DEF InvUno, NextReloj, Lista, Elegidas
    <3>. QED  BY <3>1, <3>2 DEF InvUno
  <2>. QED  BY <2>1, <2>2, <2>3 DEF PasoDeUno
<1>. QED  BY <1>1, <1>2, PTL DEF SpecDeUno, todas

\* Type correctness of the TLB, whatever its size and the processes that use it.
THEOREM TlbBienFormada == SpecDeUno => []TypeOK
<1>1. InvUno => TypeOK
  BY DEF InvUno
<1>. QED  BY <1>1, InvUnoSiempre, PTL

\* While the counter of FIFO is the number of entries, tlb_miss finds an entry with
\* turn 0 to replace, and the CPU does not read through NULL.
THEOREM VictimaSiempre == SpecDeUno => []VictimaSiCuenta
<1>1. InvUno => VictimaSiCuenta
  BY DEF InvUno, VictimaSiCuenta, Turnos, TypeOK
<1>. QED  BY <1>1, InvUnoSiempre, PTL

\* CLOCK and CLOCK-M choose, in lists of any length and whatever their bits and hands,
\* the page of the best class that the hand reaches first.
THEOREM VictimaDeLaClase == SpecDeUno => []VictimaCorrecta
<1>1. InvUno => VictimaCorrecta
  <2>. SUFFICES ASSUME InvUno, elegidas # Sin, NEW alg \in Algoritmos,
                       NEW i \in DOMAIN paginas \ {elegidas[alg]}
                PROVE  \/ Clase(alg, paginas[elegidas[alg]]) < Clase(alg, paginas[i])
                       \/ /\ Clase(alg, paginas[elegidas[alg]]) = Clase(alg, paginas[i])
                          /\ Distancia(elegidas[alg]) < Distancia(i)
    BY DEF VictimaCorrecta
  <2>1. ListaOK(paginas) /\ elegidas[alg] = Elegir(alg, paginas).victima
    BY ListaBits DEF InvUno, Elegidas
  <2>2. DOMAIN paginas = 1..Len(paginas)
    BY <2>1 DEF ListaOK
  <2>. QED  BY <2>1, <2>2, ElegirCorrecto
<1>. QED  BY <1>1, InvUnoSiempre, PTL

\* The bits u and the hand that a replacement leaves, in lists of any length: only
\* who was passed lost the bit, and a single hand moves to the place after the victim.
THEOREM RotacionSiempre == SpecDeUno => []RotacionCorrecta
<1>1. InvUno => RotacionCorrecta
  <2>. SUFFICES ASSUME InvUno, elegidas # Sin, NEW alg \in Algoritmos, NEW v, v = elegidas[alg]
                PROVE  /\ \A i \in DOMAIN paginas :
                            Rotar(alg, paginas)[i].u <=>
                              /\ paginas[i].u /\ ~ paginas[v].u
                              /\ (alg = "CLOCK-M" /\ ~ paginas[v].m) \/ Distancia(i) > Distancia(v)
                       /\ Cardinality(Manos(paginas)) <= 1 =>
                            {i \in DOMAIN Rotar(alg, paginas) : Rotar(alg, paginas)[i].puntero}
                              = {Siguiente(v, Len(paginas))}
    BY DEF RotacionCorrecta, Manos
  <2>1. Lista /\ v = Elegir(alg, paginas).victima
    BY DEF InvUno, Elegidas
  <2>2. ListaOK(paginas) /\ DOMAIN paginas = 1..Len(paginas)
    BY <2>1, ListaBits DEF ListaOK
  <2>3. \A i \in 1..Len(paginas) : Rotar(alg, paginas)[i].u = Elegir(alg, paginas).u[i]
    BY <2>1, RotarBits
  <2>4. \A i \in DOMAIN paginas :
          Rotar(alg, paginas)[i].u <=>
            /\ paginas[i].u /\ ~ paginas[v].u
            /\ (alg = "CLOCK-M" /\ ~ paginas[v].m) \/ Distancia(i) > Distancia(v)
    BY <2>1, <2>2, <2>3, ElegirCorrecto
  <2>. QED  BY <2>1, <2>4, UnaMano
<1>. QED  BY <1>1, InvUnoSiempre, PTL

\* They are different always.
LEMMA OrdenSiempre == SpecDeUno => []OrdenOK
<1>1. IniciarUno => OrdenOK
  <2>1. <<>> \in Seq(Traducciones) /\ DOMAIN <<>> = {}
    OBVIOUS
  <2>. QED  BY <2>1 DEF IniciarUno, Init, OrdenOK
<1>2. InvUno /\ OrdenOK /\ [PasoDeUno]_todas => OrdenOK'
  <2>. SUFFICES ASSUME InvUno, OrdenOK, [PasoDeUno]_todas
                PROVE  OrdenOK'
    OBVIOUS
  <2>1. CASE UNCHANGED vars
    BY <2>1 DEF OrdenOK, vars
  <2>2. CASE Next
    BY <2>2, OrdenPaso DEF InvUno
  <2>. QED  BY <2>1, <2>2 DEF PasoDeUno, todas
<1>. QED  BY <1>1, <1>2, InvUnoSiempre, PTL DEF SpecDeUno, todas

\* However the pages come, hit, are replaced and flushed, with any number of entries,
\* the turns order them by arrival under FIFO and by last use under LRU, no page is
\* translated twice, and the one that is replaced is the first (tlb_hit,
\* agregar_a_tlb_menor_a_entradas, agregar_a_tlb_fifo, agregar_a_tlb_lru, vaciarTlb).
THEOREM OrdenImplementado == SpecDeUno => ImplementaOrden
<1>1. IniciarUno => Reemplazo!Init
  <2>. SUFFICES ASSUME IniciarUno
                PROVE  Reemplazo!Init
    OBVIOUS
  <2>1. lista = <<>> /\ buscada = 0 /\ algoritmo \in {"FIFO", "LRU"}
    BY DEF IniciarUno, Init
  <2>2. Orden = <<>>
    <3>1. DOMAIN lista = {}
      BY <2>1
    <3>. QED  BY <3>1 DEF Orden
  <2>. QED  BY <2>1, <2>2, PaginasAssumption DEF Reemplazo!Init
<1>2. InvUno /\ InvUno' /\ OrdenOK /\ OrdenOK' /\ [PasoDeUno]_todas
        => [Reemplazo!Next]_(Reemplazo!vars)
  <2>. SUFFICES ASSUME InvUno, InvUno', OrdenOK, OrdenOK', [PasoDeUno]_todas
                PROVE  [Reemplazo!Next]_(Reemplazo!vars)
    OBVIOUS
  <2>1. CASE UNCHANGED vars
    <3>1. Orden' = Orden
      BY <2>1 DEF Orden, Previas, Antes, vars
    <3>. QED  BY <2>1, <3>1 DEF Reemplazo!vars, vars
  <2>2. CASE Next
    BY <2>2, PasoImplementa DEF InvUno
  <2>. QED  BY <2>1, <2>2 DEF PasoDeUno, todas
<1>. QED  BY <1>1, <1>2, InvUnoSiempre, OrdenSiempre, PTL
          DEF SpecDeUno, todas, ImplementaOrden, Reemplazo!Spec

=============================================================================
