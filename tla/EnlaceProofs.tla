---------------------------- MODULE EnlaceProofs -----------------------------
(***************************************************************************)
(* The streams between consoles, kernel, CPU and memory, for any number of *)
(* consoles, any programs and any sizes of pages and tables: what each     *)
(* reader finds is what its writer sent.                                   *)
(***************************************************************************)
EXTENDS EnlaceInv, FiniteSetTheorems, SequenceTheorems, WellFoundedInduction, TLAPS

-----------------------------------------------------------------------------
(* Packets.                                                                *)

\* The three that a reader of packets uses, on one that is alone in its stream.
LEMMA PaqueteSolo ==
    ASSUME NEW codigo, NEW x
    PROVE  LET s == Paquete(codigo, x) IN
           /\ Entera(s) /\ Campos(s) = x /\ Resto(s) = <<>>
           /\ s # <<>> /\ Len(s) = 2 /\ Head(s) = Byte(codigo) /\ Last(s).v = x
<1>1. Len(Paquete(codigo, x)) = 2 /\ Paquete(codigo, x)[2] = Cuerpo(x)
      /\ Paquete(codigo, x)[1] = Byte(codigo)
  BY DEF Paquete
<1>2. SubSeq(Paquete(codigo, x), 3, 2) = <<>>
  BY SubSeqEmpty
<1>3. Head(Paquete(codigo, x)) = Byte(codigo) /\ Paquete(codigo, x) # <<>>
  BY DEF Paquete
<1>. QED  BY <1>1, <1>2, <1>3 DEF Entera, Campos, Resto, Cuerpo, Last

\* The loop that waits for an operation stops at the first that is of its codes.
LEMMA EsperadaEn ==
    ASSUME NEW S, NEW s \in Seq(S), NEW codigos, NEW k \in 1..Len(s),
           ~ s[k].cuerpo, s[k].v[1] \in codigos,
           \A j \in 1..(k - 1) : s[j].cuerpo \/ s[j].v[1] \notin codigos
    PROVE  Esperada(s, codigos) = SubSeq(s, k, Len(s))
<1>. DEFINE I == {i \in 1..Len(s) : ~ s[i].cuerpo /\ s[i].v[1] \in codigos}
            i == SelectInSeq(s, LAMBDA x : ~ x.cuerpo /\ x.v[1] \in codigos)
<1>1. Len(s) \in Nat
  OBVIOUS
<1>2. k \in I /\ \A j \in I : k <= j
  BY <1>1
<1>3. Min(I) = k
  BY <1>1, <1>2 DEF Min
<1>4. i = k
  BY <1>2, <1>3 DEF SelectInSeq
<1>. HIDE DEF i
<1>5. Esperada(s, codigos) = IF i = 0 THEN <<>> ELSE SubSeq(s, i, Len(s))
  BY DEF Esperada, i
<1>. QED  BY <1>1, <1>4, <1>5

\* With none of its codes it goes on waiting.
LEMMA EsperadaNada ==
    ASSUME NEW s, NEW codigos,
           \A j \in 1..Len(s) : s[j].cuerpo \/ s[j].v[1] \notin codigos
    PROVE  Esperada(s, codigos) = <<>>
<1>. DEFINE i == SelectInSeq(s, LAMBDA x : ~ x.cuerpo /\ x.v[1] \in codigos)
<1>1. {j \in 1..Len(s) : ~ s[j].cuerpo /\ s[j].v[1] \in codigos} = {}
  OBVIOUS
<1>2. i = 0
  BY <1>1 DEF SelectInSeq
<1>. HIDE DEF i
<1>3. Esperada(s, codigos) = IF i = 0 THEN <<>> ELSE SubSeq(s, i, Len(s))
  BY DEF Esperada, i
<1>. QED  BY <1>2, <1>3

\* What is left of the handshake is passed over.
LEMMA EsperadaPaquete ==
    ASSUME NEW codigo, NEW x, NEW codigos, codigo \in codigos
    PROVE  /\ Esperada(Paquete(codigo, x), codigos) = Paquete(codigo, x)
           /\ 0 \notin codigos => Esperada(Ceros \o Paquete(codigo, x), codigos) = Paquete(codigo, x)
<1>. DEFINE S == {Byte(0), Byte(codigo), Cuerpo(x)}
            p == Paquete(codigo, x)
            q == <<Byte(0), Byte(0), Byte(0), Byte(codigo), Cuerpo(x)>>
<1>1. /\ p \in Seq(S) /\ Len(p) = 2 /\ p[1] = Byte(codigo) /\ p[2] = Cuerpo(x)
      /\ Ceros \in Seq(S) /\ Len(Ceros) = 3 /\ \A i \in 1..3 : Ceros[i] = Byte(0)
  BY DEF Paquete, Ceros
<1>2. ~ Byte(codigo).cuerpo /\ Byte(codigo).v[1] = codigo /\ Byte(0).v[1] = 0 /\ ~ Byte(0).cuerpo
  BY DEF Byte
<1>3. Esperada(p, codigos) = p
  <2>1. Esperada(p, codigos) = SubSeq(p, 1, Len(p))
    BY <1>1, <1>2, EsperadaEn
  <2>. QED  BY <1>1, <2>1, SubSeqFull
<1>4. q \in Seq(S) /\ Len(q) = 5 /\ Ceros \o p = q
  <2>1. q \in Seq(S) /\ Len(q) = 5
    OBVIOUS
  <2>2. \A i \in 1..5 : q[i] = IF i <= 3 THEN Byte(0) ELSE IF i = 4 THEN Byte(codigo) ELSE Cuerpo(x)
    OBVIOUS
  <2>. HIDE DEF p, q, S
  <2>3. /\ Ceros \o p \in Seq(S) /\ Len(Ceros \o p) = Len(Ceros) + Len(p)
        /\ \A i \in 1..(Len(Ceros) + Len(p)) :
             (Ceros \o p)[i] = IF i <= Len(Ceros) THEN Ceros[i] ELSE p[i - Len(Ceros)]
    BY <1>1, ConcatProperties
  <2>4. Len(Ceros \o p) = 5 /\ Len(Ceros \o p) = Len(q)
    BY <1>1, <2>1, <2>3
  <2>5. ASSUME NEW i \in 1..Len(Ceros \o p)
        PROVE  (Ceros \o p)[i] = q[i]
    BY <1>1, <2>2, <2>3, <2>4
  <2>6. Ceros \o p = q
    BY <2>1, <2>3, <2>4, <2>5, SeqEqual
  <2>. QED  BY <2>1, <2>6
<1>5. ASSUME 0 \notin codigos
      PROVE  Esperada(q, codigos) = p
  <2>1. /\ q[4] = Byte(codigo) /\ q[5] = Cuerpo(x)
        /\ \A j \in 1..3 : q[j] = Byte(0)
    OBVIOUS
  <2>. HIDE DEF q, p, S
  <2>2. Esperada(q, codigos) = SubSeq(q, 4, Len(q))
    <3>1. 4 \in 1..Len(q) /\ ~ q[4].cuerpo /\ q[4].v[1] \in codigos
      BY <1>2, <1>4, <2>1
    <3>2. \A j \in 1..(4 - 1) : q[j].v[1] \notin codigos
      BY <1>2, <1>5, <2>1
    <3>. QED  BY <1>4, <3>1, <3>2, EsperadaEn
  <2>3. SubSeq(q, 4, 5) \in Seq(S) /\ Len(SubSeq(q, 4, 5)) = 2
        /\ \A i \in 1..2 : SubSeq(q, 4, 5)[i] = q[4 + i - 1]
    <3>1. \A i \in 4..5 : q[i] \in S
      BY <1>4
    <3>2. /\ SubSeq(q, 4, 5) \in Seq(S)
          /\ Len(SubSeq(q, 4, 5)) = IF 4 <= 5 THEN 5 - 4 + 1 ELSE 0
          /\ \A i \in 1..(5 - 4 + 1) : SubSeq(q, 4, 5)[i] = q[4 + i - 1]
      BY <3>1, SubSeqProperties
    <3>. QED  BY <3>2
  <2>4. SubSeq(q, 4, 5) = p
    BY <1>1, <2>1, <2>3, SeqEqual
  <2>. QED  BY <1>4, <2>2, <2>4
<1>. QED  BY <1>3, <1>4, <1>5

\* Nothing arrives from what is left of the handshake, nor from an empty stream.
LEMMA EsperadaCeros ==
    ASSUME NEW codigos, 0 \notin codigos
    PROVE  Esperada(<<>>, codigos) = <<>> /\ Esperada(Ceros, codigos) = <<>>
<1>1. Len(Ceros) = 3 /\ \A i \in 1..3 : Ceros[i] = Byte(0)
  BY DEF Ceros
<1>2. Byte(0).v[1] = 0
  BY DEF Byte
<1>3. Len(<<>>) = 0
  OBVIOUS
<1>4. Esperada(<<>>, codigos) = <<>>
  BY <1>3, EsperadaNada
<1>. QED  BY <1>1, <1>2, <1>4, EsperadaNada

-----------------------------------------------------------------------------
(* Programs and PCBs in packets.                                           *)

\* The instructions come out as they went in.
LEMMA InstruccionesVuelta ==
    ASSUME NEW P \in Seq(Instruccs)
    PROVE  /\ CamposDe(P) \in Seq(Nat) /\ Len(CamposDe(P)) = 3 * Len(P)
           /\ Instrucciones(CamposDe(P)) = P
<1>. DEFINE n == Len(P)
            v == CamposDe(P)
<1>0. \A k \in Nat : (3 * k) \div 3 = k
  OBVIOUS
<1>1. n \in Nat /\ P \in [1..n -> Instruccs]
  OBVIOUS
<1>2. ASSUME NEW i \in 1..(3 * n)
      PROVE  /\ (i + 2) \div 3 \in 1..n /\ ((i - 1) % 3) + 1 \in 1..3
             /\ LET x == P[(i + 2) \div 3]
                IN  <<x.codigo, x.parametro1, x.parametro2>>[((i - 1) % 3) + 1] \in Nat
  <2>1. (i + 2) \div 3 \in 1..n /\ ((i - 1) % 3) + 1 \in 1..3
    BY <1>1
  <2>2. P[(i + 2) \div 3] \in Instruccs
    BY <1>1, <2>1
  <2>3. ASSUME NEW x \in Instruccs, NEW k \in 1..3
        PROVE  <<x.codigo, x.parametro1, x.parametro2>>[k] \in Nat
    BY DEF Instruccs, NO_OP, IO, READ, WRITE, COPY, EXIT
  <2>. QED  BY <2>1, <2>2, <2>3
<1>3. v = [i \in 1..(3 * n) |->
             LET x == P[(i + 2) \div 3]
             IN  <<x.codigo, x.parametro1, x.parametro2>>[((i - 1) % 3) + 1]]
  BY DEF CamposDe
<1>4. 3 * n \in Nat
  BY <1>1
<1>5. v \in [1..(3 * n) -> Nat]
  BY <1>2, <1>3
<1>6. v \in Seq(Nat) /\ Len(v) = 3 * n
  BY <1>4, <1>5
<1>7. ASSUME NEW i \in 1..n
      PROVE  v[3 * i - 2] = P[i].codigo /\ v[3 * i - 1] = P[i].parametro1
             /\ v[3 * i] = P[i].parametro2
  <2>1. /\ 3 * i - 2 \in 1..(3 * n) /\ 3 * i - 1 \in 1..(3 * n) /\ 3 * i \in 1..(3 * n)
        /\ (3 * i - 2 + 2) \div 3 = i /\ (3 * i - 1 + 2) \div 3 = i /\ (3 * i + 2) \div 3 = i
        /\ (3 * i - 2 - 1) % 3 = 0 /\ (3 * i - 1 - 1) % 3 = 1 /\ (3 * i - 1) % 3 = 2
    BY <1>1
  <2>2. v[3 * i - 2] = <<P[i].codigo, P[i].parametro1, P[i].parametro2>>[0 + 1]
    BY <1>3, <2>1
  <2>3. v[3 * i - 1] = <<P[i].codigo, P[i].parametro1, P[i].parametro2>>[1 + 1]
    BY <1>3, <2>1
  <2>4. v[3 * i] = <<P[i].codigo, P[i].parametro1, P[i].parametro2>>[2 + 1]
    BY <1>3, <2>1
  <2>. QED  BY <2>2, <2>3, <2>4
<1>8. ASSUME NEW i \in 1..n
      PROVE  P[i] = [codigo |-> P[i].codigo, parametro1 |-> P[i].parametro1,
                     parametro2 |-> P[i].parametro2]
  BY <1>1 DEF Instruccs
<1>9. (3 * n) \div 3 = n
  BY <1>0, <1>1
<1>. HIDE DEF v
<1>10. Instrucciones(v) = [i \in 1..n |-> [codigo |-> v[3 * i - 2],
                             parametro1 |-> v[3 * i - 1], parametro2 |-> v[3 * i]]]
  BY <1>6, <1>9 DEF Instrucciones
<1>11. P = [i \in 1..n |-> P[i]]
  BY <1>1
<1>12. Instrucciones(v) = P
  BY <1>7, <1>8, <1>10, <1>11
<1>. QED  BY <1>6, <1>12 DEF v

\* Some fields and those of a program in a row.
LEMMA CamposJuntos ==
    ASSUME NEW S, Nat \subseteq S, NEW t \in Seq(S), NEW P \in Seq(Instruccs)
    PROVE  LET v == t \o CamposDe(P) IN
           /\ v \in Seq(S) /\ Len(v) = Len(t) + 3 * Len(P)
           /\ \A i \in 1..Len(t) : v[i] = t[i]
           /\ SubSeq(v, Len(t) + 1, Len(t) + 3 * Len(P)) = CamposDe(P)
<1>. DEFINE c == CamposDe(P)
            v == t \o c
            n == Len(t)
            m == 3 * Len(P)
            s == SubSeq(v, n + 1, n + m)
<1>1. n \in Nat /\ Len(P) \in Nat /\ c \in Seq(Nat) /\ Len(c) = m
  BY InstruccionesVuelta
<1>2. m \in Nat /\ n + 1 \in Int /\ n + m \in Int
  BY <1>1
<1>3. c \in Seq(S)
  BY <1>1, SeqMonotonic
<1>. HIDE DEF c, m
<1>4. /\ v \in Seq(S) /\ Len(v) = n + m
      /\ \A i \in 1..(n + m) : v[i] = IF i <= n THEN t[i] ELSE c[i - n]
  BY <1>1, <1>3, ConcatProperties
<1>. HIDE DEF v, n
<1>5. \A i \in 1..n : v[i] = t[i]
  BY <1>1, <1>2, <1>4
<1>6. /\ s \in Seq(S) /\ Len(s) = IF n + 1 <= n + m THEN (n + m) - (n + 1) + 1 ELSE 0
      /\ \A i \in 1..((n + m) - (n + 1) + 1) : s[i] = v[(n + 1) + i - 1]
  <2>1. \A i \in (n + 1)..(n + m) : v[i] \in S
    BY <1>1, <1>2, <1>4
  <2>. QED  BY <1>2, <2>1, SubSeqProperties
<1>7. Len(s) = m
  BY <1>1, <1>2, <1>6
<1>8. ASSUME NEW i \in 1..Len(s)
      PROVE  s[i] = c[i]
  <2>1. s[i] = v[n + i]
    BY <1>1, <1>2, <1>6, <1>7
  <2>. QED  BY <1>1, <1>2, <1>4, <1>7, <2>1
<1>9. s = c
  BY <1>1, <1>3, <1>6, <1>7, <1>8, SeqEqual
<1>. QED  BY <1>4, <1>5, <1>9 DEF c, v, m, n

\* The two times of a PCB are bytes that the kernel wrote, or the initial one.
LEMMA TiemposDe ==
    ASSUME NEW p \in Pcbs
    PROVE  p.estimacion \in Nat \cup {Estimacion} /\ p.rafaga \in Nat \cup {Estimacion}
<1>1. p.estimacion \in {Estimacion} \cup Estimaciones /\ p.rafaga \in {0} \cup Rafagas
  BY DEF Pcbs
<1>2. {Estimacion} \cup Estimaciones \subseteq Nat \cup {Estimacion}
  BY Zenon, TiemposAssumption
<1>3. {0} \cup Rafagas \subseteq Nat
  BY TiemposAssumption
<1>. QED  BY Zenon, <1>1, <1>2, <1>3

\* A PCB comes out as it went in (armarPaquete, recibirPcb).
LEMMA PcbVuelta ==
    ASSUME NEW p \in Pcbs
    PROVE  /\ Entera(EnviarPcb(p)) /\ RecibirPcb(EnviarPcb(p)) = p
           /\ Resto(EnviarPcb(p)) = <<>> /\ EnviarPcb(p) # <<>>
           /\ Esperada(EnviarPcb(p), {PCB}) = EnviarPcb(p)
<1>. DEFINE P == p.instrucciones
            t == <<p.estado, p.estimacion, p.id, p.pc, p.rafaga, p.tamanio, p.bloqueo, p.tabla, Len(P)>>
            v == t \o CamposDe(P)
            S == Nat \cup {Estimacion}
<1>0. /\ p.estimacion \in S /\ p.rafaga \in S
      /\ P \in Seq(Instruccs) /\ Len(P) \in Nat
      /\ p = [estado |-> p.estado, estimacion |-> p.estimacion, id |-> p.id, pc |-> p.pc,
              rafaga |-> p.rafaga, tamanio |-> p.tamanio, bloqueo |-> p.bloqueo,
              tabla |-> p.tabla, instrucciones |-> p.instrucciones]
  <2>2. p.estimacion \in S /\ p.rafaga \in S
    BY TiemposDe
  <2>3. P \in Seq(Instruccs)
    BY DEF Pcbs
  <2>4. Len(P) \in Nat
    BY <2>3
  <2>5. p = [estado |-> p.estado, estimacion |-> p.estimacion, id |-> p.id, pc |-> p.pc,
             rafaga |-> p.rafaga, tamanio |-> p.tamanio, bloqueo |-> p.bloqueo,
             tabla |-> p.tabla, instrucciones |-> p.instrucciones]
    BY DEF Pcbs
  <2>. QED  BY <2>2, <2>3, <2>4, <2>5
<1>1. t \in Seq(S) /\ Len(t) = 9
  <2>1. /\ p.estado \in S /\ p.id \in S /\ p.pc \in S /\ p.tamanio \in S /\ p.bloqueo \in S
        /\ p.tabla \in S
    BY DEF Pcbs
  <2>. HIDE DEF S, P
  <2>2. Len(P) \in S
    BY <1>0 DEF S
  <2>. QED  BY <1>0, <2>1, <2>2
<1>2. ArmarPaquete(p) = v
  BY DEF ArmarPaquete
<1>3. /\ v[1] = p.estado /\ v[2] = p.estimacion /\ v[3] = p.id /\ v[4] = p.pc
      /\ v[5] = p.rafaga /\ v[6] = p.tamanio /\ v[7] = p.bloqueo /\ v[8] = p.tabla
      /\ v[9] = Len(P) /\ SubSeq(v, 10, 9 + 3 * Len(P)) = CamposDe(P)
  <2>1. /\ \A i \in 1..Len(t) : v[i] = t[i]
        /\ SubSeq(v, Len(t) + 1, Len(t) + 3 * Len(P)) = CamposDe(P)
    BY <1>1, <1>0, CamposJuntos
  <2>2. \A i \in 1..9 : v[i] = t[i]
    BY <1>1, <1>0, <2>1
  <2>3. /\ t[1] = p.estado /\ t[2] = p.estimacion /\ t[3] = p.id /\ t[4] = p.pc
        /\ t[5] = p.rafaga /\ t[6] = p.tamanio /\ t[7] = p.bloqueo /\ t[8] = p.tabla
        /\ t[9] = Len(P)
    OBVIOUS
  <2>. HIDE DEF t, v
  <2>4. SubSeq(v, 10, 9 + 3 * Len(P)) = CamposDe(P)
    BY <1>1, <1>0, <2>1
  <2>. QED  BY <2>2, <2>3, <2>4
<1>4. Instrucciones(CamposDe(P)) = P
  BY <1>1, <1>0, InstruccionesVuelta
<1>5. EnviarPcb(p) = Paquete(PCB, v)
  BY <1>2 DEF EnviarPcb
<1>. HIDE DEF v, t
<1>6. /\ Entera(EnviarPcb(p)) /\ Campos(EnviarPcb(p)) = v /\ Resto(EnviarPcb(p)) = <<>>
      /\ EnviarPcb(p) # <<>> /\ Esperada(EnviarPcb(p), {PCB}) = EnviarPcb(p)
  BY <1>5, PaqueteSolo, EsperadaPaquete
<1>7. RecibirPcb(EnviarPcb(p)) =
        [estado |-> p.estado, estimacion |-> p.estimacion, id |-> p.id, pc |-> p.pc,
         rafaga |-> p.rafaga, tamanio |-> p.tamanio, bloqueo |-> p.bloqueo,
         tabla |-> p.tabla, instrucciones |-> p.instrucciones]
  BY <1>3, <1>4, <1>6 DEF RecibirPcb
<1>. QED  BY <1>1, <1>0, <1>6, <1>7

-----------------------------------------------------------------------------
(* From the file of a console to what its thread receives.                 *)

LEMMA HayMinimo ==
    ASSUME NEW S \in SUBSET Nat, S # {}
    PROVE  \E m \in S : \A k \in S : m <= k
<1>1. PICK m \in S : \A k \in S : ~ (<<k, m>> \in OpToRel(<, Nat))
  BY NatLessThanWellFounded, WFMin
<1>2. \A k \in S : ~ (k < m)
  BY <1>1, Zenon DEF OpToRel
<1>. QED  BY <1>2

\* Sequences in a row, if they are of elements of S, are one of elements of S.
LEMMA FlattenSeqTipo ==
    ASSUME NEW S, NEW ss \in Seq(Seq(S))
    PROVE  FlattenSeq(ss) \in Seq(S)
<1>. DEFINE n == Len(ss)
            Ecuacion(f, m) ==
                f = [i \in 1..m |-> IF i = 1 THEN ss[i] ELSE f[i - 1] \o ss[i]]
            Hay(m) == \E f : Ecuacion(f, m) /\ \A i \in 1..m : f[i] \in Seq(S)
            Sin == {m \in 0..n : ~ Hay(m)}
<1>1. n \in Nat /\ \A i \in 1..n : ss[i] \in Seq(S)
  OBVIOUS
<1>2. Hay(0)
  <2>1. Ecuacion([i \in 1..0 |-> i], 0)
    OBVIOUS
  <2>. QED  BY <2>1
<1>3. ASSUME NEW m \in 1..n, Hay(m - 1)
      PROVE  Hay(m)
  <2>1. PICK f : Ecuacion(f, m - 1) /\ \A i \in 1..(m - 1) : f[i] \in Seq(S)
    BY <1>3
  <2>. DEFINE g == [i \in 1..m |-> IF i < m THEN f[i]
                                    ELSE IF m = 1 THEN ss[1] ELSE f[m - 1] \o ss[m]]
  <2>2. \A i \in 1..m : g[i] \in Seq(S)
    <3>1. m # 1 => f[m - 1] \in Seq(S) /\ ss[m] \in Seq(S)
      BY <1>1, <2>1
    <3>2. m # 1 => f[m - 1] \o ss[m] \in Seq(S)
      BY <3>1, ConcatProperties
    <3>3. ss[1] \in Seq(S)
      BY <1>1
    <3>. QED  BY <1>1, <2>1, <3>2, <3>3
  <2>3. \A i \in 1..m : g[i] = IF i = 1 THEN ss[i] ELSE g[i - 1] \o ss[i]
    <3>1. \A i \in 1..(m - 1) : f[i] = IF i = 1 THEN ss[i] ELSE f[i - 1] \o ss[i]
      BY <2>1
    <3>2. \A i \in 1..m : i # 1 => i - 1 \in 1..(m - 1) /\ g[i - 1] = f[i - 1]
      BY <1>1
    <3>. QED  BY <1>1, <3>1, <3>2
  <2>4. g = [i \in 1..m |-> g[i]]
    OBVIOUS
  <2>. HIDE DEF g
  <2>5. Ecuacion(g, m)
    BY <2>3, <2>4
  <2>. QED  BY <2>2, <2>5
<1>. HIDE DEF Hay
<1>4. Hay(n)
  <2>1. SUFFICES ASSUME Sin # {}
                 PROVE  FALSE
    BY <1>1
  <2>2. PICK m \in Sin : \A k \in Sin : m <= k
    <3>1. Sin \in SUBSET Nat
      BY <1>1
    <3>. QED  BY <2>1, <3>1, HayMinimo
  <2>3. m \in 0..n /\ m # 0 /\ m - 1 \in 0..n /\ m \in 1..n
    BY <1>1, <1>2, <2>2
  <2>4. m - 1 \notin Sin
    <3>1. m - 1 < m /\ m - 1 \in Nat /\ m \in Nat
      BY <1>1, <2>3
    <3>. QED  BY <2>2, <3>1
  <2>. QED  BY <1>3, <2>2, <2>3, <2>4
<1>5. CASE n = 0
  <2>1. FlattenSeq(ss) = ss /\ ss = <<>>
    BY <1>5 DEF FlattenSeq
  <2>. QED  BY <2>1
<1>6. CASE n # 0
  <2>. DEFINE f == CHOOSE f : Ecuacion(f, n)
  <2>1. FlattenSeq(ss) = f[n]
    BY <1>6 DEF FlattenSeq
  <2>2. Ecuacion(f, n)
    BY <1>4 DEF Hay
  <2>. HIDE DEF f
  <2>3. \A i \in 1..n : f[i] = IF i = 1 THEN ss[i] ELSE f[i - 1] \o ss[i]
    BY <2>2
  <2>4. SUFFICES ASSUME f[n] \notin Seq(S)
                 PROVE  FALSE
    BY <2>1
  <2>. DEFINE Mal == {i \in 1..n : f[i] \notin Seq(S)}
  <2>5. Mal \in SUBSET Nat /\ Mal # {}
    BY SMTT(30), <1>1, <1>6, <2>4
  <2>6. PICK m \in Mal : \A k \in Mal : m <= k
    BY <2>5, HayMinimo
  <2>7. m \in 1..n /\ f[m] \notin Seq(S) /\ m \in Nat
    BY <1>1, <2>6
  <2>8. m # 1 => m - 1 \in 1..n /\ m - 1 \in Nat /\ m - 1 < m
    BY <1>1, <2>7
  <2>9. m # 1 => f[m - 1] \in Seq(S)
    BY <2>6, <2>8
  <2>10. f[m] \in Seq(S)
    <3>1. CASE m = 1
      BY <1>1, <2>3, <2>7, <3>1
    <3>2. CASE m # 1
      <4>1. f[m] = f[m - 1] \o ss[m]
        BY <2>3, <2>7, <3>2
      <4>2. ss[m] \in Seq(S)
        BY <1>1, <2>7
      <4>. QED  BY <2>9, <3>2, <4>1, <4>2, ConcatProperties
    <3>. QED  BY <3>1, <3>2
  <2>. QED  BY <2>7, <2>10
<1>. QED  BY <1>5, <1>6

LEMMA ProgramaTipo ==
    ASSUME NEW c \in Consolas
    PROVE  Programa(c) \in Seq(Instruccs)
<1>. DEFINE A == Archivo(c)
            L == [palabra : STRING, n1 : Nat, n2 : Nat]
            lineas == [i \in DOMAIN A |-> Linea(A[i])]
<1>1. A \in Seq(L)
  BY ArchivosAssumption
<1>2. ASSUME NEW l \in [palabra : STRING, n1 : Nat, n2 : Nat]
      PROVE  Linea(l) \in Seq(Instruccs)
  <2>1. \A codigo \in {NO_OP, IO, READ, WRITE, COPY, EXIT}, p1, p2 \in Nat :
          Instr(codigo, p1, p2) \in Instruccs
    BY DEF Instr, Instruccs
  <2>2. l.n1 \in Nat /\ l.n2 \in Nat /\ 0 \in Nat
    OBVIOUS
  <2>3. \A codigo \in {NO_OP, IO, READ, WRITE, COPY, EXIT}, p1, p2 \in Nat :
          <<Instr(codigo, p1, p2)>> \in Seq(Instruccs)
    BY <2>1
  <2>4. [i \in 1..l.n1 |-> Instr(NO_OP, 0, 0)] \in Seq(Instruccs)
    BY <2>1, <2>2
  <2>5. <<>> \in Seq(Instruccs)
    OBVIOUS
  <2>6. CASE l.palabra = "NO_OP"
    BY <2>4, <2>6 DEF Linea
  <2>7. CASE l.palabra = "I/O"
    BY <2>2, <2>3, <2>7 DEF Linea
  <2>8. CASE l.palabra = "READ"
    BY <2>2, <2>3, <2>8 DEF Linea
  <2>9. CASE l.palabra = "WRITE"
    BY <2>2, <2>3, <2>9 DEF Linea
  <2>10. CASE l.palabra = "COPY"
    BY <2>2, <2>3, <2>10 DEF Linea
  <2>11. CASE l.palabra = "EXIT"
    BY <2>2, <2>3, <2>11 DEF Linea
  <2>12. CASE l.palabra \notin {"NO_OP", "I/O", "READ", "WRITE", "COPY", "EXIT"}
    BY <2>5, <2>12 DEF Linea
  <2>. QED  BY <2>6, <2>7, <2>8, <2>9, <2>10, <2>11, <2>12
<1>3. lineas \in Seq(Seq(Instruccs))
  <2>1. PICK n \in Nat : n = Len(A) /\ DOMAIN A = 1..n
    BY <1>1
  <2>. HIDE DEF A, L
  <2>2. \A i \in 1..n : A[i] \in L
    BY <1>1, <2>1, ElementOfSeq
  <2>3. \A i \in 1..n : Linea(A[i]) \in Seq(Instruccs)
    BY <1>2, <2>2 DEF L
  <2>. QED  BY <2>1, <2>3
<1>. QED  BY <1>3, FlattenSeqTipo DEF Programa

\* What a console sent is what the thread of its connection receives.
LEMMA MensajeVuelta ==
    ASSUME NEW c \in Consolas
    PROVE  /\ Deserializar(Mensaje(c)) = DeConsola(c) /\ Resto(Mensaje(c)) = <<>>
           /\ Tamanio(c) \in Nat
<1>. DEFINE P == Programa(c)
            t == <<Tamanio(c)>>
            v == t \o CamposDe(P)
<1>1. P \in Seq(Instruccs) /\ Tamanio(c) \in Nat
  BY ProgramaTipo, ArchivosAssumption
<1>2. t \in Seq(Nat) /\ Len(t) = 1 /\ t[1] = Tamanio(c)
  BY <1>1
<1>3. /\ v \in Seq(Nat) /\ Len(v) = 1 + 3 * Len(P) /\ v[1] = Tamanio(c)
      /\ SubSeq(v, 2, 1 + 3 * Len(P)) = CamposDe(P)
  <2>1. /\ v \in Seq(Nat) /\ Len(v) = Len(t) + 3 * Len(P)
        /\ \A i \in 1..Len(t) : v[i] = t[i]
        /\ SubSeq(v, Len(t) + 1, Len(t) + 3 * Len(P)) = CamposDe(P)
    BY <1>1, <1>2, CamposJuntos
  <2>. HIDE DEF v, t
  <2>. QED  BY <1>2, <2>1
<1>4. Len(P) \in Nat /\ Len(v) # 0 /\ v # <<>>
  BY <1>1, <1>3
<1>5. Tail(v) = CamposDe(P)
  <2>1. Tail(v) = SubSeq(v, 2, Len(v))
    BY <1>3, <1>4, TailIsSubSeq
  <2>. QED  BY <1>3, <2>1
<1>. HIDE DEF v
<1>6. Mensaje(c) = Paquete(PAQUETE_CONSOLA, v)
  BY DEF Mensaje, v
<1>7. Campos(Mensaje(c)) = v /\ Resto(Mensaje(c)) = <<>>
  BY <1>6, PaqueteSolo
<1>8. Deserializar(Mensaje(c)) = [tamanio |-> v[1], instrucciones |-> Instrucciones(Tail(v))]
  BY <1>7 DEF Deserializar
<1>. QED  BY <1>1, <1>3, <1>5, <1>7, <1>8, InstruccionesVuelta DEF DeConsola

-----------------------------------------------------------------------------
(* From a console to New: what the threads of the connections preserve.    *)

InvR == TipoRecepcion /\ ConsolaOK /\ CreadasOK

\* A step of the thread of console c that moves it to e, with x as its PCB.
LEMMA AtencionEfecto ==
    ASSUME TipoRecepcion, NEW c \in Consolas, NEW e, NEW x,
           atencion' = [atencion EXCEPT ![c] = [en |-> e, pcb |-> x]]
    PROVE  /\ DOMAIN atencion' = Consolas
           /\ atencion'[c].en = e /\ atencion'[c].pcb = x
           /\ atencion'[c] = [en |-> atencion'[c].en, pcb |-> atencion'[c].pcb]
           /\ \A d \in Consolas : d # c => atencion'[d] = atencion[d]
  BY DEF TipoRecepcion

LEMMA SoloEn ==
    ASSUME TipoRecepcion, NEW c \in Consolas, NEW e,
           atencion' = [atencion EXCEPT ![c].en = e]
    PROVE  atencion' = [atencion EXCEPT ![c] = [en |-> e, pcb |-> atencion[c].pcb]]
<1>1. atencion[c] = [en |-> atencion[c].en, pcb |-> atencion[c].pcb] /\ DOMAIN atencion = Consolas
  BY DEF TipoRecepcion
<1>2. [atencion[c] EXCEPT !.en = e] = [en |-> e, pcb |-> atencion[c].pcb]
  BY <1>1
<1>. QED  BY <1>1, <1>2

LEMMA PasoEnviar ==
    ASSUME InvR, NEW c \in Consolas, EnviarConsola(c)
    PROVE  InvR'
<1>1. TipoRecepcion /\ ConsolaOK /\ CreadasOK /\ atencion[c].en = "consola"
  BY DEF InvR, EnviarConsola
<1>2. /\ conexion' = [conexion EXCEPT ![c] = Mensaje(c)]
      /\ consola' = consola /\ pisada' = pisada /\ generador_de_id' = generador_de_id
  BY DEF EnviarConsola, Mensaje
<1>3. atencion' = [atencion EXCEPT ![c] = [en |-> "recibir", pcb |-> atencion[c].pcb]]
  BY <1>1, SoloEn DEF EnviarConsola
<1>4. /\ DOMAIN atencion' = Consolas /\ atencion'[c].en = "recibir"
      /\ atencion'[c] = [en |-> atencion'[c].en, pcb |-> atencion'[c].pcb]
      /\ \A d \in Consolas : d # c => atencion'[d] = atencion[d]
  BY <1>1, <1>3, AtencionEfecto
<1>5. TipoRecepcion'
  BY <1>1, <1>2, <1>4 DEF TipoRecepcion
<1>6. ConsolaOK'
  BY <1>1, <1>2, <1>4 DEF ConsolaOK, TipoRecepcion
<1>7. Creadas' = Creadas /\ \A d \in Creadas : atencion'[d] = atencion[d]
  BY <1>1, <1>4 DEF Creadas
<1>8. CreadasOK'
  BY <1>1, <1>2, <1>7 DEF CreadasOK, ProcesoPropio, Nueva
<1>. QED  BY <1>5, <1>6, <1>8 DEF InvR

LEMMA PasoRecibirConsola ==
    ASSUME InvR, NEW c \in Consolas, RecibirConsola(c)
    PROVE  InvR'
<1>1. TipoRecepcion /\ ConsolaOK /\ CreadasOK /\ atencion[c].en = "recibir"
  BY DEF InvR, RecibirConsola
<1>2. conexion[c] = Mensaje(c)
  BY <1>1 DEF ConsolaOK
<1>3. /\ conexion' = [conexion EXCEPT ![c] = <<>>] /\ consola' = DeConsola(c)
      /\ pisada' = pisada \cup {d \in Consolas : atencion[d].en = "armar"}
      /\ generador_de_id' = generador_de_id
  BY <1>2, MensajeVuelta DEF RecibirConsola
<1>4. atencion' = [atencion EXCEPT ![c] = [en |-> "armar", pcb |-> atencion[c].pcb]]
  BY <1>1, SoloEn DEF RecibirConsola
<1>5. /\ DOMAIN atencion' = Consolas /\ atencion'[c].en = "armar"
      /\ atencion'[c] = [en |-> atencion'[c].en, pcb |-> atencion'[c].pcb]
      /\ \A d \in Consolas : d # c => atencion'[d] = atencion[d]
  BY <1>1, <1>4, AtencionEfecto
<1>6. TipoRecepcion'
  BY <1>1, <1>3, <1>5 DEF TipoRecepcion
<1>7. ConsolaOK'
  BY <1>1, <1>3, <1>5 DEF ConsolaOK, TipoRecepcion
<1>8. Creadas' = Creadas /\ \A d \in Creadas : atencion'[d] = atencion[d]
  BY <1>1, <1>5 DEF Creadas
<1>9. CreadasOK'
  BY <1>1, <1>3, <1>8 DEF CreadasOK, ProcesoPropio, Nueva
<1>. QED  BY <1>6, <1>7, <1>9 DEF InvR

\* The PCB has the program that the global holds, and the next identifier.
LEMMA PasoArmar ==
    ASSUME InvR, NEW c \in Consolas, Armar(c)
    PROVE  InvR'
<1>1. TipoRecepcion /\ ConsolaOK /\ CreadasOK /\ atencion[c].en = "armar"
  BY DEF InvR, Armar
<1>2. /\ conexion' = conexion /\ consola' = consola /\ pisada' = pisada
      /\ generador_de_id' = generador_de_id + 1
      /\ atencion' = [atencion EXCEPT ![c] = [en |-> "agregar", pcb |-> PcbNueva]]
  BY DEF Armar
<1>3. /\ DOMAIN atencion' = Consolas /\ atencion'[c].en = "agregar"
      /\ atencion'[c].pcb = PcbNueva
      /\ atencion'[c] = [en |-> atencion'[c].en, pcb |-> atencion'[c].pcb]
      /\ \A d \in Consolas : d # c => atencion'[d] = atencion[d]
  BY <1>1, <1>2, AtencionEfecto
<1>4. TipoRecepcion'
  BY <1>1, <1>2, <1>3 DEF TipoRecepcion
<1>5. ConsolaOK'
  BY <1>1, <1>2, <1>3 DEF ConsolaOK
<1>6. Creadas' = Creadas \cup {c} /\ c \notin Creadas
      /\ \A d \in Creadas : atencion'[d] = atencion[d]
  BY <1>1, <1>3 DEF Creadas
<1>7. PICK d \in Consolas : consola = DeConsola(d)
  BY <1>1 DEF ConsolaOK
<1>8. /\ generador_de_id \in Nat /\ Programa(d) \in Seq(Instruccs) /\ Tamanio(d) \in Nat
      /\ consola.tamanio = Tamanio(d) /\ consola.instrucciones = Programa(d)
  BY <1>1, <1>7, ProgramaTipo, MensajeVuelta DEF TipoRecepcion, DeConsola
<1>9. /\ PcbNueva \in Pcbs /\ PcbNueva.id = generador_de_id /\ PcbNueva.pc = 0
      /\ PcbNueva.tamanio = consola.tamanio /\ PcbNueva.instrucciones = consola.instrucciones
  BY <1>8 DEF PcbNueva, Pcbs, NUEVO
<1>10. \A e \in Creadas : atencion[e].pcb.id < generador_de_id /\ atencion[e].pcb.id \in Nat
                          /\ Nueva(atencion[e].pcb, generador_de_id)
  BY <1>1 DEF CreadasOK, Nueva, Pcbs
<1>11. \A e \in Creadas' : Nueva(atencion'[e].pcb, generador_de_id')
  <2>1. Nueva(PcbNueva, generador_de_id')
    BY <1>2, <1>7, <1>8, <1>9 DEF Nueva
  <2>2. ASSUME NEW e \in Creadas
        PROVE  Nueva(atencion[e].pcb, generador_de_id')
    BY <1>2, <1>8, <1>10 DEF Nueva
  <2>. QED  BY <1>3, <1>6, <2>1, <2>2
<1>12. \A e \in Creadas' \ pisada' : /\ atencion'[e].pcb.tamanio = Tamanio(e)
                                     /\ atencion'[e].pcb.instrucciones = Programa(e)
  <2>1. c \notin pisada => consola = DeConsola(c)
    BY <1>1 DEF ConsolaOK
  <2>2. c \notin pisada => PcbNueva.tamanio = Tamanio(c) /\ PcbNueva.instrucciones = Programa(c)
    BY <1>9, <2>1 DEF DeConsola
  <2>. QED  BY <1>1, <1>2, <1>3, <1>6, <2>2 DEF CreadasOK, ProcesoPropio
<1>13. \A e, f \in Creadas' : e # f => atencion'[e].pcb.id # atencion'[f].pcb.id
  <2>1. \A e \in Creadas : atencion[e].pcb.id # generador_de_id
    BY <1>8, <1>10
  <2>2. \A e, f \in Creadas : e # f => atencion[e].pcb.id # atencion[f].pcb.id
    BY <1>1 DEF CreadasOK, ProcesoPropio
  <2>. QED  BY <1>3, <1>6, <1>9, <2>1, <2>2
<1>14. CreadasOK'
  BY <1>11, <1>12, <1>13 DEF CreadasOK, ProcesoPropio
<1>. QED  BY <1>4, <1>5, <1>14 DEF InvR

LEMMA PasoAgregarANew ==
    ASSUME InvR, NEW c \in Consolas, AgregarANew(c)
    PROVE  InvR'
<1>1. TipoRecepcion /\ ConsolaOK /\ CreadasOK /\ atencion[c].en = "agregar"
  BY DEF InvR, AgregarANew
<1>2. /\ conexion' = conexion /\ consola' = consola /\ pisada' = pisada
      /\ generador_de_id' = generador_de_id
  BY DEF AgregarANew
<1>3. atencion' = [atencion EXCEPT ![c] = [en |-> "atendida", pcb |-> atencion[c].pcb]]
  BY <1>1, SoloEn DEF AgregarANew
<1>4. /\ DOMAIN atencion' = Consolas /\ atencion'[c].en = "atendida"
      /\ atencion'[c].pcb = atencion[c].pcb
      /\ atencion'[c] = [en |-> atencion'[c].en, pcb |-> atencion'[c].pcb]
      /\ \A d \in Consolas : d # c => atencion'[d] = atencion[d]
  BY <1>1, <1>3, AtencionEfecto
<1>5. TipoRecepcion'
  BY <1>1, <1>2, <1>4 DEF TipoRecepcion
<1>6. ConsolaOK'
  BY <1>1, <1>2, <1>4 DEF ConsolaOK
<1>7. Creadas' = Creadas /\ \A d \in Creadas : atencion'[d].pcb = atencion[d].pcb
  BY <1>1, <1>4 DEF Creadas
<1>8. CreadasOK'
  BY <1>1, <1>2, <1>7 DEF CreadasOK, ProcesoPropio, Nueva
<1>. QED  BY <1>5, <1>6, <1>8 DEF InvR

\* The rest of the kernel takes processes from New and leaves the connections alone.
SinConsolas ==
    UNCHANGED <<conexion, atencion, consola, pisada, generador_de_id>>

LEMMA SinConsolasR == InvR /\ SinConsolas => InvR'
<1>. SUFFICES ASSUME InvR, SinConsolas
              PROVE  InvR'
  OBVIOUS
<1>1. TipoRecepcion' /\ ConsolaOK'
  BY DEF InvR, SinConsolas, TipoRecepcion, ConsolaOK
<1>2. CreadasOK'
  BY DEF InvR, SinConsolas, CreadasOK, ProcesoPropio, Creadas, Nueva
<1>. QED  BY <1>1, <1>2 DEF InvR

LEMMA InicioR == InitEnlace => InvR
<1>. SUFFICES ASSUME InitRecepcion
              PROVE  InvR
  BY DEF InitEnlace
<1>1. \A c \in Consolas : atencion[c] = [en |-> "consola", pcb |-> <<>>] /\ conexion[c] = <<>>
  BY DEF InitRecepcion
<1>2. TipoRecepcion
  BY DEF InitRecepcion, TipoRecepcion
<1>3. ConsolaOK
  BY <1>1 DEF ConsolaOK
<1>4. CreadasOK
  BY <1>1 DEF CreadasOK, Creadas, ProcesoPropio
<1>. QED  BY <1>2, <1>3, <1>4 DEF InvR

LEMMA OtrosSinConsolas ==
    ASSUME Nucleo \/ Interrumpir \/ Saludo \/ HiloCpu \/ HiloMemoria \/ HiloFin
    PROVE  SinConsolas
<1>1. Nucleo \/ Interrumpir \/ Saludo => SinConsolas
  BY SMTT(30) DEF Nucleo, Admitir, Despachar, RecibirDeCpu, Interrumpir, Saludo, PedirHandshake,
     RecibirHandshake, SinConsolas, varsRecepcion
<1>2. HiloCpu => SinConsolas
  BY DEF HiloCpu, RecibirProceso, Ejecutar, Acertar, PedirTabla, TraducirSinHandshake,
     RecibirTabla, RecibirMarco, PedirInstruccion, RecibirLectura, RecibirEscritura,
     SinConsolas, varsRecepcion
<1>3. HiloMemoria => SinConsolas
  BY DEF HiloMemoria, MemHandshake, MemTabla, MemMarco, MemInstruccion, SinConsolas, varsRecepcion
<1>4. HiloFin => SinConsolas
  BY DEF HiloFin, Finalizar, Limpiar, SinConsolas, varsRecepcion
<1>. QED  BY <1>1, <1>2, <1>3, <1>4

LEMMA SiguienteR == InvR /\ [NextEnlace]_varsEnlace => InvR'
<1>. SUFFICES ASSUME InvR, [NextEnlace]_varsEnlace
              PROVE  InvR'
  OBVIOUS
<1>1. CASE UNCHANGED varsEnlace
  BY <1>1, SinConsolasR DEF varsEnlace, varsRecepcion, SinConsolas
<1>2. ASSUME NEW c \in Consolas, HiloConsola(c)
      PROVE  InvR'
  BY <1>2, PasoEnviar, PasoRecibirConsola, PasoArmar, PasoAgregarANew DEF HiloConsola, Atender
<1>3. CASE Nucleo \/ Interrumpir \/ Saludo \/ HiloCpu \/ HiloMemoria \/ HiloFin
  BY <1>3, OtrosSinConsolas, SinConsolasR
<1>. QED  BY <1>1, <1>2, <1>3 DEF NextEnlace

LEMMA InvRSiempre == SpecEnlace => []InvR
<1>1. InitEnlace => InvR
  BY InicioR
<1>2. InvR /\ [NextEnlace]_varsEnlace => InvR'
  BY SiguienteR
<1>. QED  BY <1>1, <1>2, PTL DEF SpecEnlace

\* Whatever the order of the connections and of the two critical sections, the process
\* made for a console has its size and its program, unless another thread received
\* between the two, and an identifier that no other process has (manejar_conexion,
\* crear_estructura_pcb).
THEOREM ProcesoSiempre == SpecEnlace => []ProcesoPropio
<1>1. InvR => ProcesoPropio
  BY DEF InvR, CreadasOK
<1>. QED  BY <1>1, InvRSiempre, PTL

-----------------------------------------------------------------------------
(* Between kernel and CPU.                                                 *)

LEMMA FijoPartes ==
    ASSUME NEW p \in Pcbs, NEW q \in Pcbs
    PROVE  /\ Fijo(p).id = p.id
           /\ /\ p.id = q.id /\ p.tamanio = q.tamanio /\ p.instrucciones = q.instrucciones
              => Fijo(p) = Fijo(q)
<1>. DEFINE E == Estimaciones \cup {Estimacion, 0}
            R == [estado : Nat, estimacion : E, id : Nat, pc : Nat, rafaga : {0} \cup Rafagas,
                  tamanio : Nat, bloqueo : Nat, tabla : Nat, instrucciones : Seq(Instruccs)]
<1>1. \A x \in R : /\ Fijo(x) \in R /\ Fijo(x).estado = 0 /\ Fijo(x).pc = 0
                   /\ Fijo(x).bloqueo = 0 /\ Fijo(x).tabla = 0
                   /\ Fijo(x).estimacion = 0 /\ Fijo(x).rafaga = 0
                   /\ Fijo(x).id = x.id /\ Fijo(x).tamanio = x.tamanio
                   /\ Fijo(x).instrucciones = x.instrucciones
  BY DEF Fijo
<1>2. \A a, b \in R : /\ a.estado = b.estado /\ a.pc = b.pc /\ a.bloqueo = b.bloqueo
                      /\ a.tabla = b.tabla /\ a.id = b.id /\ a.estimacion = b.estimacion
                      /\ a.rafaga = b.rafaga /\ a.tamanio = b.tamanio
                      /\ a.instrucciones = b.instrucciones
                      => a = b
  OBVIOUS
<1>3. p \in R /\ q \in R
  BY DEF Pcbs
<1>. HIDE DEF R
<1>. QED  BY <1>1, <1>2, <1>3

\* What the CPU, the admission and the end of estadoExec may change of a PCB.
LEMMA SigueHecha ==
    ASSUME NEW p \in Hechas, NEW q \in Pcbs, q.id = p.id,
           q.tamanio = p.tamanio, q.instrucciones = p.instrucciones
    PROVE  q \in Hechas /\ (q.pc < Len(p.instrucciones) => q \in Vivas)
<1>1. p \in Pcbs
  BY DEF Hechas
<1>2. Fijo(q) = Fijo(p)
  BY <1>1, FijoPartes
<1>3. q \in Hechas
  BY <1>2 DEF Hechas
<1>. QED  BY <1>3 DEF Vivas

\* The instruction that a process has to execute, and what comes after it.
LEMMA Avanza ==
    ASSUME NEW p \in Vivas
    PROVE  /\ p \in Pcbs /\ p \in Hechas /\ p.pc \in Nat /\ p.pc + 1 \in 1..Len(p.instrucciones)
           /\ p.instrucciones[p.pc + 1] \in Instruccs
           /\ p.instrucciones[p.pc + 1].codigo # EXIT => p.pc + 1 < Len(p.instrucciones)
<1>1. /\ p \in Pcbs /\ p \in Hechas /\ p.pc \in Nat /\ p.instrucciones \in Seq(Instruccs)
      /\ p.pc < Len(p.instrucciones)
      /\ p.instrucciones[Len(p.instrucciones)].codigo = EXIT
  BY DEF Vivas, Hechas, Pcbs
<1>2. p.pc + 1 \in 1..Len(p.instrucciones)
  BY <1>1
<1>3. p.instrucciones[p.pc + 1] \in Instruccs
  BY <1>1, <1>2, ElementOfSeq
<1>. QED  BY <1>1, <1>2, <1>3

\* A packet in a stream with nothing.
LEMMA EnVacio ==
    ASSUME NEW codigo, NEW x
    PROVE  <<>> \o Paquete(codigo, x) = Paquete(codigo, x)
<1>1. Paquete(codigo, x) \in Seq({Byte(codigo), Cuerpo(x)})
  BY DEF Paquete
<1>. QED  BY <1>1, ConcatEmptySeq

LEMMA PcbEnVacio ==
    ASSUME NEW p
    PROVE  <<>> \o EnviarPcb(p) = EnviarPcb(p)
  BY EnVacio DEF EnviarPcb

LEMMA AppendPropio ==
    ASSUME NEW s, s \in Seq(ToSet(s)), NEW x
    PROVE  /\ Append(s, x) \in Seq(ToSet(Append(s, x)))
           /\ Len(s) \in Nat /\ Len(Append(s, x)) = Len(s) + 1
<1>. DEFINE T == ToSet(s) \cup {x}
            a == Append(s, x)
<1>1. s \in Seq(T) /\ x \in T
  BY SeqMonotonic
<1>2. a \in Seq(T) /\ Len(a) = Len(s) + 1 /\ Len(s) \in Nat /\ Len(a) \in Nat
  BY <1>1
<1>. HIDE DEF a
<1>3. DOMAIN a = 1..Len(a) /\ a = [i \in 1..Len(a) |-> a[i]]
  BY <1>2
<1>4. \A i \in 1..Len(a) : a[i] \in ToSet(a)
  BY <1>3 DEF ToSet
<1>5. a \in Seq(ToSet(a))
  BY <1>2, <1>3, <1>4
<1>. QED  BY <1>2, <1>5 DEF a

\* Who was added to New stays as made.
Quedan == \A c \in Consolas : atencion[c].en = "atendida" => atencion'[c] = atencion[c]

LEMMA HechasCrecen ==
    ASSUME Quedan
    PROVE  Hechas \subseteq Hechas' /\ Vivas \subseteq Vivas'
<1>1. Hechas \subseteq Hechas'
  BY DEF Quedan, Hechas
<1>. QED  BY <1>1 DEF Vivas

LEMMA HechasIguales ==
    ASSUME atencion' = atencion
    PROVE  Hechas' = Hechas /\ Vivas' = Vivas
<1>1. Hechas' = Hechas
  BY DEF Hechas
<1>. QED  BY <1>1 DEF Vivas

\* A step that leaves the queues and the process in Exec as they are.
SinKernel ==
    UNCHANGED <<colaNew, colaReady, colaExec, colaExit, dispatch, vuelta, tablas1>>

InvK == ColasOK /\ ExecOK

LEMMA ColasCrecen ==
    ASSUME ColasOK, Quedan, UNCHANGED <<colaNew, colaReady, colaExit, tablas1>>
    PROVE  ColasOK'
  BY HechasCrecen, SeqMonotonic DEF ColasOK

LEMMA ExecCrece ==
    ASSUME ExecOK, Quedan, UNCHANGED <<colaExec, dispatch, vuelta, en, pcb>>
    PROVE  ExecOK'
<1>1. Hechas \subseteq Hechas' /\ Vivas \subseteq Vivas'
  BY HechasCrecen
<1>. QED  BY <1>1 DEF ExecOK, EnCamino, EnCpu, DeVuelta

LEMMA CpuQuietaK ==
    ASSUME InvK, Quedan, SinKernel, UNCHANGED <<en, pcb>>
    PROVE  InvK'
  BY ColasCrecen, ExecCrece DEF InvK, SinKernel

\* With a process in the CPU, the main thread goes from one wait to another.
LEMMA OtraEspera ==
    ASSUME InvK, atencion' = atencion, SinKernel, pcb' = pcb, en # "dispatch", en' # "dispatch"
    PROVE  InvK'
<1>1. Hechas' = Hechas /\ Vivas' = Vivas
  BY HechasIguales
<1>2. ColasOK'
  BY <1>1 DEF InvK, ColasOK, SinKernel
<1>3. colaExec = <<Head(colaExec)>> /\ Head(colaExec) \in Vivas /\ EnCpu
  BY DEF InvK, ExecOK, EnCamino, DeVuelta
<1>4. ExecOK'
  BY <1>1, <1>3 DEF ExecOK, EnCpu, SinKernel
<1>. QED  BY <1>2, <1>4 DEF InvK

LEMMA PasoAdmitirK ==
    ASSUME InvK, Admitir
    PROVE  InvK'
<1>. DEFINE p == Last(colaNew)
            q == [p EXCEPT !.tabla = Len(tablas1)]
<1>1. /\ colaNew # <<>> /\ colaNew' = Front(colaNew) /\ colaReady' = Append(colaReady, q)
      /\ \E x : tablas1' = Append(tablas1, x)
      /\ UNCHANGED <<atencion, colaExec, colaExit, dispatch, vuelta, en, pcb>>
  BY DEF Admitir, canales, cpu, hiloCpu
<1>2. Hechas' = Hechas /\ Vivas' = Vivas
  BY <1>1, HechasIguales
<1>3. /\ colaNew \in Seq(Vivas) /\ colaReady \in Seq(Vivas) /\ colaExit \in Seq(Hechas)
      /\ tablas1 \in Seq(ToSet(tablas1))
  BY DEF InvK, ColasOK
<1>4. Front(colaNew) \in Seq(Vivas) /\ p \in Vivas
  BY <1>1, <1>3 DEF Front, Last
<1>5. Len(tablas1) \in Nat /\ tablas1' \in Seq(ToSet(tablas1'))
  BY <1>1, <1>3, AppendPropio
<1>6. q \in Vivas
  <2>1. p \in Pcbs /\ p \in Hechas /\ p.pc < Len(p.instrucciones)
    BY <1>4, Avanza DEF Vivas
  <2>2. /\ q \in Pcbs /\ q.id = p.id
        /\ q.tamanio = p.tamanio /\ q.instrucciones = p.instrucciones /\ q.pc = p.pc
    BY <1>5, <2>1 DEF Pcbs
  <2>. HIDE DEF p, q
  <2>. QED  BY <2>1, <2>2, SigueHecha
<1>. HIDE DEF p, q
<1>7. ColasOK'
  BY <1>1, <1>2, <1>3, <1>4, <1>5, <1>6 DEF ColasOK
<1>8. ExecOK'
  BY <1>1, <1>2, ExecCrece DEF InvK, Quedan
<1>. QED  BY <1>7, <1>8 DEF InvK

LEMMA PasoDespacharK ==
    ASSUME InvK, Despachar
    PROVE  InvK'
<1>1. /\ colaReady # <<>> /\ colaExec = <<>> /\ colaExec' = <<Head(colaReady)>>
      /\ colaReady' = Tail(colaReady) /\ dispatch' = dispatch \o EnviarPcb(Head(colaReady))
      /\ UNCHANGED <<atencion, colaNew, colaExit, tablas1, vuelta, en, pcb>>
  BY DEF Despachar, varsRecepcion, cpu, hiloCpu, memoria
<1>2. Hechas' = Hechas /\ Vivas' = Vivas
  BY <1>1, HechasIguales
<1>3. dispatch = <<>> /\ vuelta = <<>> /\ en = "dispatch"
  BY <1>1 DEF InvK, ExecOK
<1>4. Head(colaReady) \in Vivas /\ Tail(colaReady) \in Seq(Vivas)
  BY <1>1 DEF InvK, ColasOK
<1>5. dispatch' = EnviarPcb(Head(colaReady))
  BY <1>1, <1>3, PcbEnVacio
<1>6. ColasOK'
  BY <1>1, <1>2, <1>4 DEF InvK, ColasOK
<1>7. Head(colaExec') = Head(colaReady)
  BY <1>1
<1>8. ExecOK'
  BY <1>1, <1>2, <1>3, <1>4, <1>5, <1>7 DEF ExecOK, EnCamino
<1>. QED  BY <1>6, <1>8 DEF InvK

\* What the kernel makes of the PCB received is the same process, as far on.
LEMMA DevueltaDe ==
    ASSUME NEW p \in Pcbs, NEW q \in Devueltas(p)
    PROVE  /\ q \in Pcbs /\ q.id = p.id /\ q.pc = p.pc /\ q.tamanio = p.tamanio
           /\ q.tabla = p.tabla /\ q.instrucciones = p.instrucciones
<1>. DEFINE G(e) == [p EXCEPT !.estimacion = e]
            Igual == /\ q \in Pcbs /\ q.id = p.id /\ q.pc = p.pc /\ q.tamanio = p.tamanio
                     /\ q.tabla = p.tabla /\ q.instrucciones = p.instrucciones
<1>1. \/ \E s \in {p.estado, LISTO}, e \in Estimaciones, r \in Rafagas : q = Medida(p, s, e, r)
      \/ \E e \in Estimaciones : q = G(e)
  BY DEF Devueltas
<1>2. LISTO \in Nat /\ p.estado \in Nat
  BY DEF LISTO, Pcbs
<1>3. ASSUME NEW s \in Nat, NEW e \in Estimaciones, NEW r \in Rafagas, q = Medida(p, s, e, r)
      PROVE  Igual
  BY <1>3 DEF Pcbs, Medida
<1>4. ASSUME NEW e \in Estimaciones, q = G(e)
      PROVE  Igual
  BY <1>4 DEF Pcbs
<1>. HIDE DEF G, Igual
<1>5. Igual
  BY <1>1, <1>2, <1>3, <1>4
<1>. QED  BY <1>5 DEF Igual

LEMMA PasoRecibirDeCpuK ==
    ASSUME InvK, RecibirDeCpu
    PROVE  InvK'
<1>1. /\ Entera(vuelta) /\ colaExec' = <<>> /\ vuelta' = Resto(vuelta)
      /\ UNCHANGED <<atencion, colaNew, tablas1, dispatch, en, pcb>>
  BY DEF RecibirDeCpu, varsRecepcion, cpu, hiloCpu, memoria
<1>2. Hechas' = Hechas /\ Vivas' = Vivas
  BY <1>1, HechasIguales
<1>3. vuelta # <<>>
  BY <1>1 DEF Entera
<1>4. DeVuelta
  BY <1>3 DEF InvK, ExecOK, EnCamino, EnCpu
<1>5. pcb \in Pcbs /\ RecibirPcb(vuelta) = pcb /\ vuelta' = <<>>
  BY <1>1, <1>4, PcbVuelta DEF DeVuelta, Hechas
<1>6. PICK q \in Devueltas(pcb) :
         \/ colaExit' = Append(colaExit, q) /\ colaReady' = colaReady
         \/ /\ q.instrucciones[q.pc].codigo # EXIT
            /\ colaReady' = Append(colaReady, q) /\ colaExit' = colaExit
  BY <1>5 DEF RecibirDeCpu
<1>7. q \in Hechas /\ (q.instrucciones[q.pc].codigo # EXIT => q \in Vivas)
  BY <1>4, <1>5, DevueltaDe, SigueHecha DEF DeVuelta, Vivas
<1>8. ColasOK'
  <2>1. /\ colaNew \in Seq(Vivas) /\ colaReady \in Seq(Vivas) /\ colaExit \in Seq(Hechas)
        /\ tablas1 \in Seq(ToSet(tablas1))
    BY DEF InvK, ColasOK
  <2>2. colaExit' \in Seq(Hechas) /\ colaReady' \in Seq(Vivas)
    <3>1. CASE colaExit' = Append(colaExit, q) /\ colaReady' = colaReady
      BY <1>7, <2>1, <3>1, AppendProperties
    <3>2. CASE /\ q.instrucciones[q.pc].codigo # EXIT
               /\ colaReady' = Append(colaReady, q) /\ colaExit' = colaExit
      BY <1>7, <2>1, <3>2, AppendProperties
    <3>. QED  BY <1>6, <3>1, <3>2
  <2>. QED  BY <1>1, <1>2, <2>1, <2>2 DEF ColasOK
<1>9. ExecOK'
  BY <1>1, <1>4, <1>5 DEF ExecOK, DeVuelta
<1>. QED  BY <1>8, <1>9 DEF InvK

LEMMA PasoRecibirProcesoK ==
    ASSUME InvK, RecibirProceso
    PROVE  InvK'
<1>. DEFINE s == Esperada(dispatch, {PCB})
<1>1. /\ en = "dispatch" /\ Entera(s) /\ pcb' = RecibirPcb(s) /\ dispatch' = Resto(s)
      /\ en' = "ciclo"
      /\ UNCHANGED <<atencion, colaNew, colaReady, colaExec, colaExit, vuelta, tablas1>>
  BY DEF RecibirProceso, varsRecepcion, nucleo, memoria
<1>2. Hechas' = Hechas /\ Vivas' = Vivas
  BY <1>1, HechasIguales
<1>3. dispatch # <<>>
  <2>1. 0 \notin {PCB}
    BY DEF PCB
  <2>2. Esperada(<<>>, {PCB}) = <<>>
    BY <2>1, EsperadaCeros
  <2>3. ~ Entera(<<>>)
    BY DEF Entera
  <2>. QED  BY <1>1, <2>2, <2>3
<1>4. colaExec = <<Head(colaExec)>> /\ Head(colaExec) \in Vivas /\ EnCamino
  BY <1>3 DEF InvK, ExecOK, EnCpu, DeVuelta
<1>5. Head(colaExec) \in Pcbs
  BY <1>4, Avanza
<1>6. s = dispatch /\ RecibirPcb(s) = Head(colaExec) /\ Resto(s) = <<>>
  BY <1>4, <1>5, PcbVuelta DEF EnCamino
<1>. HIDE DEF s
<1>7. pcb' = Head(colaExec) /\ dispatch' = <<>> /\ vuelta' = <<>>
  BY <1>1, <1>4, <1>6 DEF EnCamino
<1>8. ColasOK'
  BY <1>1, <1>2 DEF InvK, ColasOK
<1>9. ExecOK'
  BY <1>1, <1>2, <1>4, <1>7 DEF ExecOK, EnCpu
<1>. QED  BY <1>8, <1>9 DEF InvK

\* The end of an instruction: only EXIT, which leaves the CPU, has none after it.
LEMMA PasoFin ==
    ASSUME InvK, en # "dispatch", NEW estado \in Nat, NEW bloqueo \in Nat,
           NEW parar \in BOOLEAN, Instruccion.codigo = EXIT => parar,
           FinDeInstruccion([pcb EXCEPT !.estado = estado, !.bloqueo = bloqueo], parar),
           UNCHANGED <<atencion, colaNew, colaReady, colaExec, colaExit, dispatch, tablas1>>
    PROVE  InvK'
<1>. DEFINE p == [pcb EXCEPT !.estado = estado, !.bloqueo = bloqueo]
            q == [p EXCEPT !.pc = @ + 1]
<1>1. Hechas' = Hechas /\ Vivas' = Vivas
  BY HechasIguales
<1>2. colaExec = <<Head(colaExec)>> /\ Head(colaExec) \in Vivas /\ EnCpu
  BY DEF InvK, ExecOK, EnCamino, DeVuelta
<1>3. pcb \in Vivas
  BY <1>2 DEF EnCpu
<1>4. /\ pcb \in Pcbs /\ pcb \in Hechas /\ pcb.pc \in Nat /\ pcb.pc + 1 \in 1..Len(pcb.instrucciones)
      /\ pcb.pc + 1 \in Nat /\ pcb.pc + 1 <= Len(pcb.instrucciones)
      /\ Instruccion.codigo # EXIT => pcb.pc + 1 < Len(pcb.instrucciones)
  BY <1>3, Avanza DEF Instruccion, Pcbs
<1>5. /\ q \in Pcbs /\ q.id = pcb.id /\ q.tamanio = pcb.tamanio
      /\ q.instrucciones = pcb.instrucciones /\ q.pc = pcb.pc + 1
      /\ DelNucleo(q) = DelNucleo(pcb)
  BY <1>4 DEF Pcbs, DelNucleo
<1>6. q \in Hechas /\ (Instruccion.codigo # EXIT => q \in Vivas)
  <2>. HIDE DEF q
  <2>. QED  BY <1>4, <1>5, SigueHecha
<1>7. /\ pcb' = q
      /\ \/ en' = "dispatch" /\ vuelta' = vuelta \o EnviarPcb(q)
         \/ ~ parar /\ en' = "ciclo" /\ vuelta' = vuelta
  BY DEF FinDeInstruccion
<1>. HIDE DEF q
<1>8. ColasOK'
  BY <1>1 DEF InvK, ColasOK
<1>9. CASE en' = "dispatch" /\ vuelta' = vuelta \o EnviarPcb(q)
  <2>1. vuelta' = EnviarPcb(q)
    BY <1>2, <1>9, PcbEnVacio DEF EnCpu
  <2>2. q.instrucciones[q.pc] = Instruccion
    BY <1>5 DEF Instruccion
  <2>3. DeVuelta'
    BY <1>1, <1>2, <1>4, <1>5, <1>6, <1>7, <1>9, <2>1, <2>2 DEF DeVuelta, EnCpu
  <2>4. ExecOK'
    BY <1>1, <1>2, <2>3 DEF ExecOK
  <2>. QED  BY <1>8, <2>4 DEF InvK
<1>10. CASE ~ parar /\ en' = "ciclo" /\ vuelta' = vuelta
  <2>1. EnCpu'
    BY <1>1, <1>2, <1>4, <1>5, <1>6, <1>7, <1>10 DEF EnCpu
  <2>2. ExecOK'
    BY <1>1, <1>2, <2>1 DEF ExecOK
  <2>. QED  BY <1>8, <2>2 DEF InvK
<1>. QED  BY <1>7, <1>9, <1>10

\* The instructions that are not of memory.
LEMMA EjecutarCasos ==
    ASSUME InvK, Ejecutar
    PROVE  \/ Instruccion.codigo = NO_OP /\ FinDeInstruccion(pcb, FALSE)
           \/ FinDeInstruccion([pcb EXCEPT !.bloqueo = Instruccion.parametro1,
                                           !.estado = BLOQUEADO], TRUE)
           \/ FinDeInstruccion([pcb EXCEPT !.estado = FINALIZADO], TRUE)
<1>1. pcb \in Vivas
  BY DEF Ejecutar, InvK, ExecOK, EnCamino, EnCpu, DeVuelta
<1>2. Instruccion.codigo \in {NO_OP, IO, EXIT}
  BY <1>1, Avanza DEF Ejecutar, DeMemoria, Instruccion, Instruccs
<1>. QED  BY <1>2 DEF Ejecutar, NO_OP, IO, EXIT

LEMMA PasoEjecutarK ==
    ASSUME InvK, Ejecutar
    PROVE  InvK'
<1>1. /\ en = "ciclo"
      /\ UNCHANGED <<atencion, colaNew, colaReady, colaExec, colaExit, dispatch, tablas1>>
  BY DEF Ejecutar, varsRecepcion, nucleo, memoria
<1>2. pcb \in Vivas
  BY <1>1 DEF InvK, ExecOK, EnCamino, EnCpu, DeVuelta
<1>3. pcb \in Pcbs /\ Instruccion \in Instruccs
  BY <1>2, Avanza DEF Instruccion
<1>4. CASE Instruccion.codigo = NO_OP /\ FinDeInstruccion(pcb, FALSE)
  <2>1. pcb = [pcb EXCEPT !.estado = pcb.estado, !.bloqueo = pcb.bloqueo]
        /\ pcb.estado \in Nat /\ pcb.bloqueo \in Nat
    BY <1>3 DEF Pcbs
  <2>2. FinDeInstruccion([pcb EXCEPT !.estado = pcb.estado, !.bloqueo = pcb.bloqueo], FALSE)
    BY <1>4, <2>1
  <2>3. Instruccion.codigo # EXIT
    BY <1>4 DEF NO_OP, EXIT
  <2>. QED  BY <1>1, <2>1, <2>2, <2>3, PasoFin
<1>5. CASE FinDeInstruccion([pcb EXCEPT !.bloqueo = Instruccion.parametro1,
                                        !.estado = BLOQUEADO], TRUE)
  <2>1. /\ [pcb EXCEPT !.bloqueo = Instruccion.parametro1, !.estado = BLOQUEADO]
             = [pcb EXCEPT !.estado = BLOQUEADO, !.bloqueo = Instruccion.parametro1]
        /\ BLOQUEADO \in Nat /\ Instruccion.parametro1 \in Nat
    BY <1>3 DEF Pcbs, Instruccs, BLOQUEADO
  <2>2. FinDeInstruccion([pcb EXCEPT !.estado = BLOQUEADO,
                                     !.bloqueo = Instruccion.parametro1], TRUE)
    BY <1>5, <2>1
  <2>. QED  BY <1>1, <2>1, <2>2, PasoFin
<1>6. CASE FinDeInstruccion([pcb EXCEPT !.estado = FINALIZADO], TRUE)
  <2>1. /\ [pcb EXCEPT !.estado = FINALIZADO]
             = [pcb EXCEPT !.estado = FINALIZADO, !.bloqueo = pcb.bloqueo]
        /\ FINALIZADO \in Nat /\ pcb.bloqueo \in Nat
    BY <1>3 DEF Pcbs, FINALIZADO
  <2>2. FinDeInstruccion([pcb EXCEPT !.estado = FINALIZADO, !.bloqueo = pcb.bloqueo], TRUE)
    BY <1>6, <2>1
  <2>. QED  BY <1>1, <2>1, <2>2, PasoFin
<1>. QED  BY <1>4, <1>5, <1>6, EjecutarCasos

LEMMA PasoRespuestaK ==
    ASSUME InvK, DeMemoriaOK, RecibirLectura \/ RecibirEscritura
    PROVE  InvK'
<1>1. /\ en \in {"lectura", "escritura"} /\ FinDeInstruccion(pcb, FALSE)
      /\ UNCHANGED <<atencion, colaNew, colaReady, colaExec, colaExit, dispatch, tablas1>>
  BY DEF RecibirLectura, RecibirEscritura, varsRecepcion, nucleo, memoria
<1>2. pcb \in Vivas
  BY <1>1 DEF InvK, ExecOK, EnCamino, EnCpu, DeVuelta
<1>3. pcb = [pcb EXCEPT !.estado = pcb.estado, !.bloqueo = pcb.bloqueo]
      /\ pcb.estado \in Nat /\ pcb.bloqueo \in Nat
  BY <1>2, Avanza DEF Pcbs
<1>4. FinDeInstruccion([pcb EXCEPT !.estado = pcb.estado, !.bloqueo = pcb.bloqueo], FALSE)
  BY <1>1, <1>3
<1>5. Instruccion.codigo # EXIT
  BY <1>1 DEF DeMemoriaOK, DeMemoria, READ, WRITE, COPY, EXIT
<1>. QED  BY <1>1, <1>3, <1>4, <1>5, PasoFin

LEMMA PasoCpuK ==
    ASSUME InvK, DeMemoriaOK, HiloCpu
    PROVE  InvK'
<1>1. CASE Acertar \/ PedirTabla \/ RecibirTabla \/ RecibirMarco \/ PedirInstruccion
  <2>1. /\ en \in {"ciclo", "tabla", "marco"} /\ pcb' = pcb
        /\ UNCHANGED <<atencion, colaNew, colaReady, colaExec, colaExit, dispatch, vuelta, tablas1>>
    BY <1>1 DEF Acertar, PedirTabla, RecibirTabla, RecibirMarco, PedirInstruccion, PorTraducir,
       varsRecepcion, nucleo, canales, memoria
  <2>2. en' # "dispatch"
    BY <1>1, <2>1 DEF Acertar, PedirTabla, RecibirTabla, RecibirMarco, PedirInstruccion
  <2>. QED  BY <2>1, <2>2, OtraEspera DEF SinKernel
<1>2. CASE TraducirSinHandshake
  <2>1. Quedan /\ SinKernel /\ UNCHANGED <<en, pcb>>
    BY <1>2 DEF TraducirSinHandshake, Quedan, SinKernel, varsRecepcion, nucleo, canales, cpu,
       hiloCpu, memoria
  <2>. QED  BY <2>1, CpuQuietaK
<1>. QED  BY <1>1, <1>2, PasoRecibirProcesoK, PasoEjecutarK, PasoRespuestaK DEF HiloCpu

LEMMA PasoOtrosK ==
    ASSUME InvK, Interrumpir \/ Saludo \/ HiloMemoria \/ HiloFin
    PROVE  InvK'
<1>1. Interrumpir \/ Saludo => Quedan /\ SinKernel /\ UNCHANGED <<en, pcb>>
  BY DEF Interrumpir, Saludo, PedirHandshake, RecibirHandshake, Quedan, SinKernel, varsRecepcion,
     nucleo, canales, hiloCpu, memoria
<1>2. HiloMemoria => Quedan /\ SinKernel /\ UNCHANGED <<en, pcb>>
  BY DEF HiloMemoria, MemHandshake, MemTabla, MemMarco, MemInstruccion, Quedan, SinKernel,
     varsRecepcion, nucleo, cpu, hiloCpu, memoria
<1>3. HiloFin => Quedan /\ SinKernel /\ UNCHANGED <<en, pcb>>
  BY DEF HiloFin, Finalizar, Limpiar, Quedan, SinKernel, varsRecepcion, nucleo, canales, cpu,
     hiloCpu
<1>. QED  BY <1>1, <1>2, <1>3, CpuQuietaK

\* A process is added to New with a program that ends.
LEMMA PasoConsolaK ==
    ASSUME InvR, InvK, NEW c \in Consolas, HiloConsola(c)
    PROVE  InvK'
<1>1. /\ DOMAIN atencion = Consolas
      /\ UNCHANGED <<colaReady, colaExec, colaExit, dispatch, vuelta, tablas1, en, pcb>>
  BY DEF HiloConsola, InvR, TipoRecepcion, nucleo, canales, cpu, hiloCpu, memoria
<1>2. CASE EnviarConsola(c) \/ RecibirConsola(c) \/ Armar(c)
  <2>1. Quedan /\ colaNew' = colaNew
    BY <1>1, <1>2 DEF EnviarConsola, RecibirConsola, Armar, Quedan
  <2>. QED  BY <1>1, <2>1, CpuQuietaK DEF SinKernel
<1>3. CASE AgregarANew(c)
  <2>. DEFINE p == atencion[c].pcb
  <2>1. /\ atencion[c].en = "agregar" /\ colaNew' = Append(colaNew, p)
        /\ atencion' = [atencion EXCEPT ![c].en = "atendida"]
    BY <1>3 DEF AgregarANew
  <2>2. /\ atencion'[c].en = "atendida" /\ atencion'[c].pcb = p /\ Quedan
    <3>1. atencion' = [atencion EXCEPT ![c] = [en |-> "atendida", pcb |-> p]]
      BY <2>1, SoloEn DEF InvR
    <3>. QED  BY <1>1, <2>1, <3>1 DEF Quedan
  <2>3. Hechas \subseteq Hechas' /\ Vivas \subseteq Vivas'
    BY <2>2, HechasCrecen
  <2>4. Nueva(p, generador_de_id)
    BY <2>1 DEF InvR, CreadasOK, Creadas
  <2>5. PICK d \in Consolas : p.instrucciones = Programa(d)
    BY <2>4 DEF Nueva
  <2>6. /\ p \in Pcbs /\ p.pc = 0 /\ p.instrucciones \in Seq(Instruccs) /\ p.instrucciones # <<>>
        /\ p.instrucciones[Len(p.instrucciones)].codigo = EXIT
    BY <2>4, <2>5, ProgramasAssumption DEF Nueva, Pcbs, Last
  <2>7. p \in Vivas'
    <3>1. p \in Hechas'
      BY <2>2, <2>6 DEF Hechas
    <3>2. 0 < Len(p.instrucciones)
      BY <2>6
    <3>. QED  BY <2>6, <3>1, <3>2 DEF Vivas
  <2>8. colaNew' \in Seq(Vivas')
    <3>1. colaNew \in Seq(Vivas')
      BY <2>3, SeqMonotonic DEF InvK, ColasOK
    <3>. QED  BY <2>1, <2>7, <3>1, AppendProperties
  <2>9. ColasOK'
    BY <1>1, <2>3, <2>8, SeqMonotonic DEF InvK, ColasOK
  <2>10. ExecOK'
    BY <1>1, <2>2, ExecCrece DEF InvK
  <2>. QED  BY <2>9, <2>10 DEF InvK
<1>. QED  BY <1>2, <1>3 DEF HiloConsola, Atender

LEMMA QuietoK ==
    ASSUME InvK, UNCHANGED varsEnlace
    PROVE  InvK'
<1>1. Quedan /\ SinKernel /\ UNCHANGED <<en, pcb>>
  BY DEF varsEnlace, varsRecepcion, nucleo, canales, cpu, hiloCpu, memoria, Quedan, SinKernel
<1>. QED  BY <1>1, CpuQuietaK

LEMMA SiguienteK == InvR /\ InvK /\ DeMemoriaOK /\ [NextEnlace]_varsEnlace => InvK'
<1>. SUFFICES ASSUME InvR, InvK, DeMemoriaOK, [NextEnlace]_varsEnlace
              PROVE  InvK'
  OBVIOUS
<1>1. CASE Nucleo
  BY <1>1, PasoAdmitirK, PasoDespacharK, PasoRecibirDeCpuK DEF Nucleo
<1>2. CASE HiloCpu
  BY <1>2, PasoCpuK
<1>3. CASE Interrumpir \/ Saludo \/ HiloMemoria \/ HiloFin
  BY <1>3, PasoOtrosK
<1>4. ASSUME NEW c \in Consolas, HiloConsola(c)
      PROVE  InvK'
  BY <1>4, PasoConsolaK
<1>. QED  BY <1>1, <1>2, <1>3, <1>4, QuietoK DEF NextEnlace

LEMMA InicioK == InitEnlace => InvK
<1>. SUFFICES ASSUME InitEnlace
              PROVE  InvK
  OBVIOUS
<1>1. /\ colaNew = <<>> /\ colaReady = <<>> /\ colaExit = <<>> /\ tablas1 = <<>>
      /\ colaExec = <<>> /\ dispatch = <<>> /\ vuelta = <<>> /\ en = "dispatch"
  BY DEF InitEnlace, InitRecepcion
<1>2. \A S : <<>> \in Seq(S)
  OBVIOUS
<1>3. ColasOK
  BY <1>1, <1>2 DEF ColasOK
<1>. QED  BY <1>1, <1>3 DEF InvK, ExecOK

-----------------------------------------------------------------------------
(* Between CPU and memory.                                                 *)

InvC == HandshakeOK /\ PedidosOK /\ DeMemoriaOK

\* Whatever is in the stream of requests, the memory module is to serve one of these.
LEMMA PedidaLlega ==
    ASSUME NEW codigo \in {TABLA, MARCO, INSTRUCCION_MEMORIA}, Pedida(codigo)
    PROVE  /\ Pedido # <<>> /\ Head(Pedido) = Byte(codigo) /\ Entera(Pedido)
           /\ Resto(Pedido) = <<>> /\ Campos(Pedido) = Last(pedidos).v
<1>. DEFINE C == {HANDSHAKE, TABLA, MARCO, INSTRUCCION_MEMORIA}
            x == Last(pedidos).v
            r == Paquete(codigo, x)
<1>1. codigo \in C /\ 0 \notin C
  BY DEF HANDSHAKE, TABLA, MARCO, INSTRUCCION_MEMORIA
<1>2. pedidos \in {r, Ceros \o r}
  BY DEF Pedida
<1>. HIDE DEF C, x
<1>3. Esperada(r, C) = r /\ Esperada(Ceros \o r, C) = r
  BY <1>1, EsperadaPaquete
<1>4. Pedido = r
  BY <1>2, <1>3 DEF Pedido, C
<1>5. r # <<>> /\ Head(r) = Byte(codigo) /\ Entera(r) /\ Resto(r) = <<>> /\ Campos(r) = x
  BY PaqueteSolo
<1>. QED  BY <1>4, <1>5 DEF x

LEMMA NadaPedido ==
    ASSUME pedidos \in {<<>>, Ceros}
    PROVE  Pedido = <<>>
<1>1. 0 \notin {HANDSHAKE, TABLA, MARCO, INSTRUCCION_MEMORIA}
  BY DEF HANDSHAKE, TABLA, MARCO, INSTRUCCION_MEMORIA
<1>. QED  BY <1>1, EsperadaCeros DEF Pedido

LEMMA SaludoPedido ==
    ASSUME pedidos = Entero(HANDSHAKE)
    PROVE  Pedido # <<>> /\ Head(Pedido) = Byte(HANDSHAKE) /\ Tail(Pedido) = Ceros
<1>. DEFINE C == {HANDSHAKE, TABLA, MARCO, INSTRUCCION_MEMORIA}
            s == <<Byte(HANDSHAKE), Byte(0), Byte(0), Byte(0)>>
            S == {Byte(HANDSHAKE), Byte(0)}
<1>1. s \in Seq(S) /\ Len(s) = 4 /\ s[1] = Byte(HANDSHAKE) /\ Head(s) = Byte(HANDSHAKE)
      /\ Tail(s) = <<Byte(0), Byte(0), Byte(0)>> /\ s # <<>>
  OBVIOUS
<1>2. pedidos = s
  BY DEF Entero
<1>3. ~ s[1].cuerpo /\ s[1].v[1] \in C
  BY <1>1 DEF Byte
<1>. HIDE DEF s, S, C
<1>4. Esperada(s, C) = SubSeq(s, 1, Len(s))
  <2>1. 1 \in 1..Len(s) /\ \A j \in 1..(1 - 1) : s[j].cuerpo
    BY <1>1
  <2>. QED  BY <1>1, <1>3, <2>1, EsperadaEn
<1>5. Pedido = s
  BY <1>1, <1>2, <1>4, SubSeqFull DEF Pedido, C
<1>. QED  BY <1>1, <1>5 DEF Ceros

\* Bytes of operations are told apart.
LEMMA CodigosDistintos ==
    \A a, b \in {HANDSHAKE, TABLA, MARCO, INSTRUCCION_MEMORIA} : Byte(a) = Byte(b) => a = b
<1>1. \A a, b \in {HANDSHAKE, TABLA, MARCO, INSTRUCCION_MEMORIA} : <<a>> = <<b>> => a = b
  OBVIOUS
<1>2. \A a : Byte(a).v = <<a>>
  BY DEF Byte
<1>. QED  BY <1>1, <1>2, Zenon

\* What each operation of the memory module was asked by.
LEMMA QuienPide ==
    ASSUME InvC
    PROVE  /\ MemHandshake => saludo = "esperar" /\ pedidos = Entero(HANDSHAKE)
           /\ Llega(TABLA) => en = "tabla" /\ Pedida(TABLA)
           /\ Llega(MARCO) => en = "marco" /\ Pedida(MARCO)
           /\ Llega(INSTRUCCION_MEMORIA) =>
                \/ en = "lectura" /\ Pedida(INSTRUCCION_MEMORIA) /\ Lectura
                \/ en = "escritura" /\ Pedida(INSTRUCCION_MEMORIA) /\ ~ Lectura
<1>1. \/ saludo = "esperar" /\ pedidos = Entero(HANDSHAKE)
      \/ en = "tabla" /\ Pedida(TABLA)
      \/ en = "marco" /\ Pedida(MARCO)
      \/ en = "lectura" /\ Pedida(INSTRUCCION_MEMORIA) /\ Lectura
      \/ en = "escritura" /\ Pedida(INSTRUCCION_MEMORIA) /\ ~ Lectura
      \/ pedidos \in {<<>>, Ceros}
  BY DEF InvC, HandshakeOK, PedidosOK, Respondido
<1>. DEFINE Es(codigo) == Pedido # <<>> /\ Head(Pedido) = Byte(codigo)
<1>2. /\ saludo = "esperar" /\ pedidos = Entero(HANDSHAKE) => Es(HANDSHAKE)
      /\ pedidos \in {<<>>, Ceros} => Pedido = <<>>
      /\ \A codigo \in {TABLA, MARCO, INSTRUCCION_MEMORIA} : Pedida(codigo) => Es(codigo)
  BY SaludoPedido, NadaPedido, PedidaLlega
<1>3. /\ MemHandshake => Es(HANDSHAKE)
      /\ \A codigo : Llega(codigo) => Es(codigo)
  BY DEF MemHandshake, Llega
<1>4. \A a, b \in {HANDSHAKE, TABLA, MARCO, INSTRUCCION_MEMORIA} : Es(a) /\ Es(b) => a = b
  BY CodigosDistintos
<1>5. /\ HANDSHAKE # TABLA /\ HANDSHAKE # MARCO /\ HANDSHAKE # INSTRUCCION_MEMORIA
      /\ TABLA # MARCO /\ TABLA # INSTRUCCION_MEMORIA /\ MARCO # INSTRUCCION_MEMORIA
  BY DEF HANDSHAKE, TABLA, MARCO, INSTRUCCION_MEMORIA
<1>6. \A codigo : Es(codigo) => Pedido # <<>>
  OBVIOUS
<1>. HIDE DEF Es
<1>. QED  BY <1>1, <1>2, <1>3, <1>4, <1>5, <1>6

\* The main thread waits for nothing from the memory.
LEMMA SinPedir ==
    ASSUME saludo' = "fin", en' \in {"dispatch", "ciclo"}, pedidos' \in {<<>>, Ceros},
           respuestas' = <<>>, fisicas' \in Seq(ToSet(fisicas'))
    PROVE  InvC'
  BY DEF InvC, HandshakeOK, PedidosOK, DeMemoriaOK

\* A step of the main thread that says nothing to the memory.
LEMMA CicloC ==
    ASSUME InvC, en \in {"dispatch", "ciclo"}, en' \in {"dispatch", "ciclo"},
           UNCHANGED <<saludo, configuracion, pedidos, respuestas>>,
           saludo # "fin" => fisicas' = <<>>, fisicas' \in Seq(ToSet(fisicas'))
    PROVE  InvC'
<1>1. CASE saludo = "fin"
  BY <1>1, SinPedir DEF InvC, PedidosOK
<1>2. CASE saludo # "fin"
  BY <1>2 DEF InvC, HandshakeOK, PedidosOK, DeMemoriaOK
<1>. QED  BY <1>1, <1>2

\* A request is made.
LEMMA PedidaNueva ==
    ASSUME pedidos \in {<<>>, Ceros}, NEW codigo, NEW x,
           pedidos' = pedidos \o Paquete(codigo, x), respuestas' = <<>>
    PROVE  Pedida(codigo)' /\ Last(pedidos').v = x
<1>. DEFINE r == Paquete(codigo, x)
            S == {Byte(0), Byte(codigo), Cuerpo(x)}
<1>1. r # <<>> /\ Len(r) = 2 /\ Last(r).v = x /\ <<>> \o r = r
  BY PaqueteSolo, EnVacio
<1>2. CASE pedidos = <<>>
  BY <1>1, <1>2 DEF Pedida
<1>3. CASE pedidos = Ceros
  <2>1. /\ Ceros \in Seq(S) /\ r \in Seq(S) /\ Len(Ceros) = 3
        /\ r[2] = Cuerpo(x) /\ Cuerpo(x).v = x
    BY DEF Ceros, Paquete, Cuerpo
  <2>2. /\ Ceros \o r \in Seq(S) /\ Len(Ceros \o r) = Len(Ceros) + Len(r)
        /\ \A i \in 1..(Len(Ceros) + Len(r)) :
             (Ceros \o r)[i] = IF i <= Len(Ceros) THEN Ceros[i] ELSE r[i - Len(Ceros)]
    BY <2>1, ConcatProperties
  <2>. HIDE DEF r, S
  <2>3. Len(Ceros \o r) = 5 /\ (Ceros \o r)[5] = Cuerpo(x)
    BY <1>1, <2>1, <2>2
  <2>4. Last(Ceros \o r).v = x /\ Ceros \o r # <<>>
    BY <2>1, <2>3 DEF Last
  <2>. QED  BY <1>3, <2>4 DEF Pedida, r
<1>. QED  BY <1>2, <1>3

\* The four bytes of an integer, received as one item each, leave nothing.
LEMMA EnteroSolo ==
    /\ \A n : Len(Entero(n)) = 4 /\ Entero(n) # <<>> /\ <<>> \o Entero(n) = Entero(n)
    /\ \A s : Len(s) = 4 => Luego(s, 4) = <<>> /\ SinCodigo(s) = <<>>
<1>1. ASSUME NEW s, Len(s) = 4
      PROVE  SubSeq(s, 4 + 1, Len(s)) = <<>>
  BY <1>1, SubSeqEmpty
<1>2. ASSUME NEW n
      PROVE  Len(Entero(n)) = 4 /\ Entero(n) # <<>> /\ <<>> \o Entero(n) = Entero(n)
  <2>1. Entero(n) \in Seq({Byte(n), Byte(0)}) /\ Len(Entero(n)) = 4 /\ Entero(n) # <<>>
    BY DEF Entero
  <2>. QED  BY <2>1, ConcatEmptySeq
<1>. QED  BY <1>1, <1>2 DEF Luego, SinCodigo

LEMMA PasoSaludoC ==
    ASSUME InvC, Saludo
    PROVE  InvC'
<1>1. CASE PedirHandshake
  <2>1. /\ saludo = "pedir" /\ saludo' = "esperar" /\ pedidos' = pedidos \o Entero(HANDSHAKE)
        /\ UNCHANGED <<respuestas, configuracion, en, fisicas>>
    BY <1>1 DEF PedirHandshake, hiloCpu
  <2>2. /\ pedidos = <<>> /\ respuestas = <<>> /\ configuracion = <<>> /\ fisicas = <<>>
        /\ en \in {"dispatch", "ciclo"}
    BY <2>1 DEF InvC, HandshakeOK
  <2>3. pedidos' = Entero(HANDSHAKE)
    BY <2>1, <2>2, EnteroSolo
  <2>4. fisicas' \in Seq(ToSet(fisicas'))
    BY <2>1 DEF InvC, PedidosOK
  <2>. QED  BY <2>1, <2>2, <2>3, <2>4 DEF InvC, HandshakeOK, PedidosOK, DeMemoriaOK
<1>2. CASE RecibirHandshake
  <2>. DEFINE s == Esperada(respuestas, {PAQUETE})
  <2>1. /\ saludo = "esperar" /\ saludo' = "fin" /\ Entera(s) /\ respuestas' = Resto(s)
        /\ UNCHANGED <<pedidos, en, fisicas>>
    BY <1>2 DEF RecibirHandshake, hiloCpu
  <2>2. respuestas # <<>>
    <3>1. Esperada(<<>>, {PAQUETE}) = <<>>
      <4>1. Len(<<>>) = 0
        OBVIOUS
      <4>. QED  BY <4>1, EsperadaNada
    <3>2. ~ Entera(<<>>)
      BY DEF Entera
    <3>. QED  BY <2>1, <3>1, <3>2
  <2>3. /\ pedidos = Ceros /\ respuestas = Paquete(PAQUETE, <<TamPagina, EntradasPorTabla>>)
        /\ en \in {"dispatch", "ciclo"}
    BY <2>1, <2>2 DEF InvC, HandshakeOK
  <2>4. s = respuestas /\ Resto(s) = <<>>
    BY <2>3, EsperadaPaquete, PaqueteSolo
  <2>. HIDE DEF s
  <2>5. fisicas' \in Seq(ToSet(fisicas'))
    BY <2>1 DEF InvC, PedidosOK
  <2>. QED  BY <2>1, <2>3, <2>4, <2>5, SinPedir
<1>. QED  BY <1>1, <1>2 DEF Saludo

LEMMA FinEfecto ==
    ASSUME NEW p, NEW parar, FinDeInstruccion(p, parar)
    PROVE  en' \in {"dispatch", "ciclo"} /\ fisicas' = <<>>
  BY DEF FinDeInstruccion

\* The steps of the main thread that say nothing to the memory.
LEMMA PasoCicloC ==
    ASSUME InvK, InvC, RecibirProceso \/ Ejecutar \/ Acertar \/ TraducirSinHandshake
    PROVE  InvC'
<1>1. /\ en \in {"dispatch", "ciclo"} /\ en' \in {"dispatch", "ciclo"}
      /\ UNCHANGED <<saludo, configuracion, pedidos, respuestas>>
      /\ \/ fisicas' = fisicas \/ fisicas' = <<>>
         \/ configuracion # <<>> /\ \E x : fisicas' = Append(fisicas, x)
  <2>1. CASE RecibirProceso
    BY <2>1 DEF RecibirProceso
  <2>2. CASE Ejecutar
    <3>1. en' \in {"dispatch", "ciclo"} /\ fisicas' = <<>>
      BY <2>2, EjecutarCasos, FinEfecto
    <3>. QED  BY <2>2, <3>1 DEF Ejecutar
  <2>3. CASE Acertar
    <3>1. \E x : fisicas' = Append(fisicas, x)
      BY <2>3 DEF Acertar
    <3>. QED  BY <2>3, <3>1 DEF Acertar, PorTraducir, canales
  <2>4. CASE TraducirSinHandshake
    BY <2>4 DEF TraducirSinHandshake, PorTraducir, canales, cpu, hiloCpu
  <2>. QED  BY <2>1, <2>2, <2>3, <2>4
<1>3. fisicas \in Seq(ToSet(fisicas)) /\ <<>> \in Seq(ToSet(<<>>))
      /\ (saludo # "fin" => configuracion = <<>> /\ fisicas = <<>>)
  BY DEF InvC, PedidosOK, HandshakeOK
<1>4. fisicas' \in Seq(ToSet(fisicas'))
  BY <1>1, <1>3, AppendPropio
<1>5. saludo # "fin" => fisicas' = <<>>
  BY <1>1, <1>3
<1>. QED  BY <1>1, <1>4, <1>5, CicloC

\* With the handshake over, the main thread asks from a stream with nothing to answer.
LEMMA AntesDePedir ==
    ASSUME InvC, en = "ciclo", configuracion # <<>> \/ fisicas # <<>>
    PROVE  saludo = "fin" /\ pedidos \in {<<>>, Ceros} /\ respuestas = <<>>
  BY DEF InvC, HandshakeOK, PedidosOK

LEMMA PasoPedirTablaC ==
    ASSUME InvC, PedirTabla
    PROVE  InvC'
<1>1. /\ en = "ciclo" /\ en' = "tabla" /\ configuracion # <<>>
      /\ \E x : pedidos' = pedidos \o Paquete(TABLA, x)
      /\ UNCHANGED <<saludo, respuestas, fisicas>>
  BY DEF PedirTabla, PorTraducir
<1>2. saludo = "fin" /\ pedidos \in {<<>>, Ceros} /\ respuestas = <<>>
  BY <1>1, AntesDePedir
<1>3. Pedida(TABLA)'
  BY <1>1, <1>2, PedidaNueva
<1>4. fisicas' \in Seq(ToSet(fisicas'))
  BY <1>1 DEF InvC, PedidosOK
<1>. QED  BY <1>1, <1>2, <1>3, <1>4 DEF InvC, HandshakeOK, PedidosOK, DeMemoriaOK

LEMMA PasoRecibirTablaC ==
    ASSUME InvC, RecibirTabla
    PROVE  InvC'
<1>1. /\ en = "tabla" /\ en' = "marco" /\ respuestas # <<>> /\ respuestas' = Luego(respuestas, 4)
      /\ \E x : pedidos' = pedidos \o Paquete(MARCO, x)
      /\ UNCHANGED <<saludo, fisicas>>
  BY DEF RecibirTabla
<1>2. saludo = "fin" /\ pedidos = <<>> /\ Len(respuestas) = 4
      /\ fisicas \in Seq(ToSet(fisicas))
  BY <1>1 DEF InvC, HandshakeOK, PedidosOK, Pedida, Respondido
<1>3. respuestas' = <<>>
  BY <1>1, <1>2, EnteroSolo
<1>4. Pedida(MARCO)'
  BY <1>1, <1>2, <1>3, PedidaNueva
<1>. QED  BY <1>1, <1>2, <1>4 DEF InvC, HandshakeOK, PedidosOK, DeMemoriaOK

\* The packet that an answer is, received.
LEMMA UnPaqueteLlega ==
    ASSUME NEW s, NEW codigo, UnPaquete(s, codigo)
    PROVE  Esperada(s, {codigo}) = s /\ Entera(s) /\ Resto(s) = <<>>
<1>1. s = Paquete(codigo, Last(s).v)
  BY DEF UnPaquete
<1>. QED  BY <1>1, EsperadaPaquete, PaqueteSolo

LEMMA PasoRecibirMarcoC ==
    ASSUME InvC, RecibirMarco
    PROVE  InvC'
<1>. DEFINE s == Esperada(respuestas, {MARCO})
<1>1. /\ en = "marco" /\ en' = "ciclo" /\ Entera(s) /\ respuestas' = Resto(s)
      /\ \E x : fisicas' = Append(fisicas, x)
      /\ UNCHANGED <<saludo, pedidos>>
  BY DEF RecibirMarco
<1>2. respuestas # <<>>
  <2>1. 0 \notin {MARCO} /\ ~ Entera(<<>>)
    BY DEF MARCO, Entera
  <2>. QED  BY <1>1, <2>1, EsperadaCeros
<1>3. saludo = "fin" /\ pedidos = <<>> /\ UnPaquete(respuestas, MARCO)
      /\ fisicas \in Seq(ToSet(fisicas))
  BY <1>1, <1>2 DEF InvC, HandshakeOK, PedidosOK, Pedida, Respondido
<1>4. respuestas' = <<>>
  BY <1>1, <1>3, UnPaqueteLlega
<1>5. fisicas' \in Seq(ToSet(fisicas'))
  BY <1>1, <1>3, AppendPropio
<1>. QED  BY <1>1, <1>3, <1>4, <1>5, SinPedir

LEMMA PasoPedirInstruccionC ==
    ASSUME InvC, PedirInstruccion
    PROVE  InvC'
<1>. DEFINE valor == IF Instruccion.codigo = WRITE THEN <<Instruccion.parametro2>> ELSE <<>>
            campos == <<Instruccion.codigo>> \o fisicas \o valor
<1>1. /\ en = "ciclo" /\ DeMemoria /\ Len(fisicas) = Len(Logicas)
      /\ pedidos' = pedidos \o Paquete(INSTRUCCION_MEMORIA, campos)
      /\ en' = IF Instruccion.codigo = READ THEN "lectura" ELSE "escritura"
      /\ UNCHANGED <<saludo, respuestas, fisicas, pcb>>
  BY DEF PedirInstruccion
<1>2. fisicas \in Seq(ToSet(fisicas)) /\ fisicas # <<>>
  <2>1. Len(Logicas) \in {1, 2}
    BY DEF Logicas
  <2>2. Len(<<>>) = 0
    OBVIOUS
  <2>3. Len(fisicas) # 0
    BY <1>1, <2>1
  <2>4. fisicas # <<>>
    BY <2>2, <2>3, Zenon
  <2>. QED  BY <2>4 DEF InvC, PedidosOK
<1>3. saludo = "fin" /\ pedidos \in {<<>>, Ceros} /\ respuestas = <<>>
  BY <1>1, <1>2, AntesDePedir
<1>4. campos[1] = Instruccion.codigo
  <2>. DEFINE S == {Instruccion.codigo, Instruccion.parametro2} \cup ToSet(fisicas)
              uno == <<Instruccion.codigo>>
  <2>1. /\ uno \in Seq(S) /\ Len(uno) = 1 /\ uno[1] = Instruccion.codigo
        /\ <<Instruccion.parametro2>> \in Seq(S) /\ <<>> \in Seq(S)
    OBVIOUS
  <2>. HIDE DEF uno
  <2>2. fisicas \in Seq(S) /\ valor \in Seq(S) /\ Len(fisicas) \in Nat
    <3>1. ToSet(fisicas) \subseteq S
      OBVIOUS
    <3>. HIDE DEF S
    <3>2. fisicas \in Seq(S)
      BY <1>2, <3>1, SeqMonotonic
    <3>3. valor \in Seq(S)
      BY <2>1
    <3>. QED  BY <3>2, <3>3, LenProperties
  <2>. HIDE DEF S, uno, valor
  <2>3. /\ uno \o fisicas \in Seq(S) /\ Len(uno \o fisicas) = 1 + Len(fisicas)
        /\ (uno \o fisicas)[1] = uno[1]
    <3>1. /\ uno \o fisicas \in Seq(S) /\ Len(uno \o fisicas) = Len(uno) + Len(fisicas)
          /\ \A i \in 1..(Len(uno) + Len(fisicas)) :
               (uno \o fisicas)[i] = IF i <= Len(uno) THEN uno[i] ELSE fisicas[i - Len(uno)]
      BY <2>1, <2>2, ConcatProperties
    <3>2. 1 \in 1..(1 + Len(fisicas))
      BY <2>2
    <3>. QED  BY <2>1, <3>1, <3>2
  <2>4. ((uno \o fisicas) \o valor)[1] = (uno \o fisicas)[1]
    BY <2>1, <2>2, <2>3, ConcatProperties
  <2>. QED  BY <2>1, <2>3, <2>4 DEF uno
<1>. HIDE DEF campos
<1>5. Pedida(INSTRUCCION_MEMORIA)' /\ Last(pedidos').v = campos
  BY <1>1, <1>3, PedidaNueva
<1>6. Lectura' <=> Instruccion.codigo = READ
  BY <1>4, <1>5 DEF Lectura
<1>7. DeMemoria'
  BY <1>1 DEF DeMemoria, Instruccion
<1>8. fisicas' \in Seq(ToSet(fisicas'))
  BY <1>1, <1>2
<1>. QED  BY <1>1, <1>3, <1>5, <1>6, <1>7, <1>8 DEF InvC, HandshakeOK, PedidosOK, DeMemoriaOK

LEMMA PasoRespuestaC ==
    ASSUME InvC, RecibirLectura \/ RecibirEscritura
    PROVE  InvC'
<1>1. /\ en \in {"lectura", "escritura"} /\ en' \in {"dispatch", "ciclo"} /\ fisicas' = <<>>
      /\ UNCHANGED <<saludo, pedidos>>
  BY DEF RecibirLectura, RecibirEscritura, FinDeInstruccion
<1>2. respuestas # <<>> /\ (RecibirLectura =>
        en = "lectura" /\ respuestas' = Resto(Esperada(respuestas, {PAQUETE})))
  <2>1. Esperada(<<>>, {PAQUETE}) = <<>> /\ ~ Entera(<<>>)
    <3>1. Len(<<>>) = 0
      OBVIOUS
    <3>. QED  BY <3>1, EsperadaNada DEF Entera
  <2>. QED  BY <2>1 DEF RecibirLectura, RecibirEscritura
<1>3. saludo = "fin" /\ pedidos = <<>>
      /\ (en = "lectura" => UnPaquete(respuestas, PAQUETE))
      /\ (en = "escritura" => Len(respuestas) = 4)
  BY <1>1, <1>2 DEF InvC, HandshakeOK, PedidosOK, Pedida, Respondido
<1>4. respuestas' = <<>>
  <2>1. CASE RecibirLectura
    BY <1>2, <1>3, <2>1, UnPaqueteLlega
  <2>2. CASE RecibirEscritura
    BY <1>3, <2>2, EnteroSolo DEF RecibirEscritura
  <2>. QED  BY <2>1, <2>2
<1>5. fisicas' \in Seq(ToSet(fisicas'))
  BY <1>1
<1>. QED  BY <1>1, <1>3, <1>4, <1>5, SinPedir

LEMMA PasoMemoriaC ==
    ASSUME InvC, caida = "no", HiloMemoria
    PROVE  InvC'
<1>1. UNCHANGED <<saludo, configuracion, en, pcb, fisicas>>
  BY DEF HiloMemoria, MemHandshake, MemTabla, MemMarco, MemInstruccion, cpu, hiloCpu
<1>2. DeMemoriaOK' /\ fisicas' \in Seq(ToSet(fisicas'))
  BY <1>1 DEF InvC, DeMemoriaOK, DeMemoria, Instruccion, PedidosOK
<1>3. CASE MemHandshake
  <2>. DEFINE r == Paquete(PAQUETE, <<TamPagina, EntradasPorTabla>>)
  <2>1. saludo = "esperar" /\ pedidos = Entero(HANDSHAKE)
    BY <1>3, QuienPide
  <2>2. pedidos # Ceros
    BY <2>1 DEF Entero, Ceros
  <2>3. respuestas = <<>>
    BY <2>1, <2>2 DEF InvC, HandshakeOK
  <2>4. pedidos' = Tail(Pedido) /\ respuestas' = respuestas \o r
    BY <1>3 DEF MemHandshake
  <2>. HIDE DEF r
  <2>5. pedidos' = Ceros /\ respuestas' = r
    BY <2>1, <2>3, <2>4, SaludoPedido, EnVacio DEF r
  <2>. QED  BY <1>1, <1>2, <2>1, <2>5 DEF InvC, HandshakeOK, PedidosOK, r
<1>4. CASE MemTabla
  <2>1. Llega(TABLA) /\ pedidos' = Resto(Pedido) /\ \E n : respuestas' = respuestas \o Entero(n)
    BY <1>4 DEF MemTabla, Llega
  <2>2. en = "tabla" /\ Pedida(TABLA)
    BY <2>1, QuienPide
  <2>3. pedidos' = <<>> /\ Len(respuestas') = 4
    BY <2>1, <2>2, PedidaLlega, EnteroSolo DEF Pedida
  <2>4. saludo = "fin"
    BY <2>2 DEF InvC, HandshakeOK
  <2>. QED  BY <1>1, <1>2, <2>2, <2>3, <2>4 DEF InvC, HandshakeOK, PedidosOK, Respondido
<1>5. CASE MemMarco
  <2>1. /\ Llega(MARCO) /\ pedidos' = Resto(Pedido)
        /\ \/ respuestas' = respuestas /\ caida' # "no"
           \/ \E x : respuestas' = respuestas \o Paquete(MARCO, x)
    BY <1>5 DEF MemMarco, Llega
  <2>2. en = "marco" /\ Pedida(MARCO)
    BY <2>1, QuienPide
  <2>3. pedidos' = <<>> /\ respuestas = <<>>
    BY <2>1, <2>2, PedidaLlega DEF Pedida
  <2>4. (respuestas' = <<>> /\ caida' # "no") \/ UnPaquete(respuestas, MARCO)'
    BY <2>1, <2>3, EnVacio, PaqueteSolo DEF UnPaquete
  <2>5. saludo = "fin"
    BY <2>2 DEF InvC, HandshakeOK
  <2>. QED  BY <1>1, <1>2, <2>2, <2>3, <2>4, <2>5 DEF InvC, HandshakeOK, PedidosOK, Respondido
<1>6. CASE MemInstruccion
  <2>1. Llega(INSTRUCCION_MEMORIA) /\ pedidos' = Resto(Pedido)
    BY <1>6 DEF MemInstruccion, Llega
  <2>2. /\ Pedida(INSTRUCCION_MEMORIA)
        /\ \/ en = "lectura" /\ Lectura
           \/ en = "escritura" /\ ~ Lectura
    BY <2>1, QuienPide
  <2>3. pedidos' = <<>> /\ respuestas = <<>> /\ Campos(Pedido) = Last(pedidos).v
    BY <2>1, <2>2, PedidaLlega DEF Pedida
  <2>4. /\ Lectura => \E x : respuestas' = respuestas \o Paquete(PAQUETE, x)
        /\ ~ Lectura => \E n : respuestas' = respuestas \o Entero(n)
    BY <1>6, <2>3 DEF MemInstruccion, Lectura
  <2>5. /\ Lectura => UnPaquete(respuestas, PAQUETE)'
        /\ ~ Lectura => Len(respuestas') = 4
    BY <2>3, <2>4, EnVacio, PaqueteSolo, EnteroSolo DEF UnPaquete
  <2>6. saludo = "fin"
    BY <2>2 DEF InvC, HandshakeOK
  <2>. QED  BY <1>1, <1>2, <2>2, <2>3, <2>5, <2>6 DEF InvC, HandshakeOK, PedidosOK, Respondido
<1>. QED  BY <1>3, <1>4, <1>5, <1>6 DEF HiloMemoria

\* A step that leaves both ends as they are.
LEMMA QuietoC ==
    ASSUME InvC, UNCHANGED <<saludo, configuracion, en, pcb, fisicas, pedidos, respuestas>>,
           caida # "no" => caida' # "no"
    PROVE  InvC'
  BY DEF InvC, HandshakeOK, PedidosOK, DeMemoriaOK, DeMemoria, Instruccion, Pedida, Lectura,
     Respondido, UnPaquete

LEMMA SiguienteC == InvK /\ InvC /\ [NextEnlace]_varsEnlace => InvC'
<1>. SUFFICES ASSUME InvK, InvC, [NextEnlace]_varsEnlace
              PROVE  InvC'
  OBVIOUS
<1>. DEFINE Quieto ==
        /\ UNCHANGED <<saludo, configuracion, en, pcb, fisicas, pedidos, respuestas>>
        /\ caida # "no" => caida' # "no"
<1>1. CASE HiloMemoria /\ caida = "no"
  BY <1>1, PasoMemoriaC
<1>2. CASE Saludo
  BY <1>2, PasoSaludoC
<1>3. CASE HiloCpu
  BY <1>3, PasoCicloC, PasoPedirTablaC, PasoRecibirTablaC, PasoRecibirMarcoC,
     PasoPedirInstruccionC, PasoRespuestaC DEF HiloCpu
<1>4. Nucleo \/ Interrumpir \/ HiloFin => Quieto
  BY DEF Nucleo, Admitir, Despachar, RecibirDeCpu, Interrumpir, HiloFin, Finalizar, Limpiar,
     canales, cpu, hiloCpu
<1>5. ASSUME NEW c \in Consolas, HiloConsola(c)
      PROVE  Quieto
  BY <1>5 DEF HiloConsola, canales, cpu, hiloCpu
<1>6. UNCHANGED varsEnlace => Quieto
  BY DEF varsEnlace, canales, cpu, hiloCpu
<1>7. Quieto => InvC'
  BY QuietoC
<1>. HIDE DEF Quieto
<1>. QED  BY <1>1, <1>2, <1>3, <1>4, <1>5, <1>6, <1>7 DEF NextEnlace

LEMMA InicioC == InitEnlace => InvC
<1>. SUFFICES ASSUME InitEnlace
              PROVE  InvC
  OBVIOUS
<1>1. /\ saludo = "pedir" /\ pedidos = <<>> /\ respuestas = <<>> /\ configuracion = <<>>
      /\ en = "dispatch" /\ fisicas = <<>>
  BY DEF InitEnlace
<1>2. fisicas \in Seq(ToSet(fisicas))
  BY <1>1
<1>. QED  BY <1>1, <1>2 DEF InvC, HandshakeOK, PedidosOK, DeMemoriaOK

-----------------------------------------------------------------------------
(* All the threads together.                                               *)

IInvEnlace == InvR /\ InvK /\ InvC

LEMMA SiempreEnlace == SpecEnlace => []IInvEnlace
<1>1. InitEnlace => IInvEnlace
  BY InicioR, InicioK, InicioC DEF IInvEnlace
<1>2. IInvEnlace /\ [NextEnlace]_varsEnlace => IInvEnlace'
  BY SiguienteR, SiguienteK, SiguienteC DEF IInvEnlace, InvC
<1>. QED  BY <1>1, <1>2, PTL DEF SpecEnlace

\* The PCB as it was made for the process of one that was added to New.
LEMMA OriginalDe ==
    ASSUME InvR, NEW p \in Hechas
    PROVE  Fijo(p) = Fijo(Original(p.id))
<1>1. PICK c \in Consolas : atencion[c].en = "atendida" /\ Fijo(p) = Fijo(atencion[c].pcb)
  BY DEF Hechas
<1>2. c \in Creadas
  BY <1>1 DEF Creadas
<1>3. p \in Pcbs /\ atencion[c].pcb \in Pcbs
  BY <1>2 DEF Hechas, InvR, CreadasOK, Nueva
<1>4. atencion[c].pcb.id = p.id
  BY <1>1, <1>3, FijoPartes
<1>5. \A d \in Creadas : atencion[d].pcb.id = p.id => d = c
  BY <1>2, <1>4 DEF InvR, CreadasOK, ProcesoPropio
<1>. DEFINE o == CHOOSE d \in Creadas : atencion[d].pcb.id = p.id
<1>6. o = c
  BY <1>2, <1>4, <1>5
<1>. QED  BY <1>1, <1>6 DEF Original

\* Whatever the order of admission and dispatch, and however a process is interrupted,
\* its PCB comes and goes between kernel and CPU with its identifier, its size and its
\* program as they were made (enviarPcb, recibirPcb), and the CPU has the table, the
\* estimate and the burst of the PCB that the kernel sent.
THEOREM PcbFielSiempre == SpecEnlace => []PcbFiel
<1>1. ASSUME InvR, InvK
      PROVE  PcbFiel
  <2>1. EnLaCpu \subseteq Hechas /\ \A p \in EnLaCpu : DelNucleo(p) = DelNucleo(Head(colaExec))
    BY <1>1, Avanza DEF EnLaCpu, InvK, ExecOK, EnCamino, EnCpu, DeVuelta
  <2>2. colaReady \in Seq(Hechas) /\ colaExit \in Seq(Hechas) /\ colaExec \in Seq(Hechas)
    <3>1. Vivas \subseteq Hechas
      BY DEF Vivas
    <3>2. colaExec = <<>> \/ (colaExec = <<Head(colaExec)>> /\ Head(colaExec) \in Hechas)
      BY <1>1, <3>1 DEF InvK, ExecOK
    <3>3. colaExec \in Seq(Hechas)
      <4>1. \A x \in Hechas : <<x>> \in Seq(Hechas)
        OBVIOUS
      <4>2. <<>> \in Seq(Hechas)
        OBVIOUS
      <4>. QED  BY <3>2, <4>1, <4>2
    <3>. QED  BY <1>1, <3>1, <3>3, SeqMonotonic DEF InvK, ColasOK
  <2>3. EnElNucleo \subseteq Hechas
    <3>. DEFINE s == colaReady \o colaExec \o colaExit
    <3>1. s \in Seq(Hechas)
      BY <2>2, ConcatProperties
    <3>. HIDE DEF s
    <3>2. ToSet(s) \subseteq Hechas
      BY <3>1 DEF ToSet
    <3>. QED  BY <3>2 DEF EnElNucleo, s
  <2>. QED  BY <1>1, <2>1, <2>3, OriginalDe DEF PcbFiel
<1>2. IInvEnlace => PcbFiel
  BY <1>1 DEF IInvEnlace
<1>. QED  BY <1>2, SiempreEnlace, PTL

\* Neither the three bytes that the handshake leaves, nor the two forms of an answer,
\* put the socket of CPU and memory out of step: nothing waits there when the CPU waits
\* for nothing, and otherwise what waits is the whole of the answer to its request
\* (recibir_operacion_nuevo, recibir_datos, manejo_conexiones).
THEOREM CanalesSiempre == SpecEnlace => []CanalesEnOrden
<1>1. ASSUME InvC
      PROVE  CanalesEnOrden
  <2>1. Len(<<>>) = 0
    OBVIOUS
  <2>2. /\ en \in {"dispatch", "ciclo"} /\ saludo = "fin" => respuestas = <<>>
        /\ en \in {"tabla", "escritura"} => Len(respuestas) \in {0, 4}
    BY <1>1, <2>1 DEF InvC, PedidosOK, Pedida, Respondido
  <2>3. en \in {"marco", "lectura"} =>
          respuestas = <<>> \/ UnPaquete(respuestas, MARCO) \/ UnPaquete(respuestas, PAQUETE)
    BY <1>1 DEF InvC, PedidosOK, Pedida, Respondido
  <2>. QED  BY <2>2, <2>3, UnPaqueteLlega DEF CanalesEnOrden
<1>2. IInvEnlace => CanalesEnOrden
  BY <1>1 DEF IInvEnlace
<1>. QED  BY <1>2, SiempreEnlace, PTL

-----------------------------------------------------------------------------
(* Addresses, pages and frames: arithmetic.                                *)

\* A number in pages and what is left over.
LEMMA Cociente ==
    ASSUME NEW n \in Nat, NEW T \in Nat \ {0}
    PROVE  /\ n \div T \in Nat /\ n % T \in 0..(T - 1)
           /\ n = (n \div T) * T + (n % T)
           /\ (n \div T) * T \in Nat /\ (n \div T) * T <= n
<1>1. n \div T \in Nat /\ n % T \in 0..(T - 1) /\ n = (n \div T) * T + (n % T)
  OBVIOUS
<1>2. ASSUME NEW q \in Nat, NEW o \in 0..(T - 1), n = q * T + o
      PROVE  q * T \in Nat /\ q * T <= n
  <2>1. q * T \in Nat
    OBVIOUS
  <2>. QED  BY <1>2, <2>1
<1>. QED  BY <1>1, <1>2

\* No other quotient and remainder give the same number.
LEMMA CocienteUnico ==
    ASSUME NEW T \in Nat \ {0}, NEW q \in Int, NEW o \in 0..(T - 1)
    PROVE  (q * T + o) \div T = q /\ (q * T + o) % T = o
OBVIOUS

\* A page lies before another when all of it does.
LEMMA ProductoMenor ==
    ASSUME NEW T \in Nat \ {0}, NEW a \in Int, NEW b \in Int
    PROVE  /\ a < b => a * T + T <= b * T
           /\ a * T + T <= b * T => a < b
OBVIOUS

\* The ceiling of a division, as many times, covers the dividend.
LEMMA TechoCubre ==
    ASSUME NEW a \in Nat, NEW b \in Nat \ {0}
    PROVE  Techo(a, b) \in Nat /\ Techo(a, b) * b >= a
BY DEF Techo

\* The bytes of an address in a page, at a frame.
LEMMA Direccion ==
    ASSUME NEW T \in Nat \ {0}, NEW d \in Nat, NEW f \in Nat,
           NEW c, c.tam_pagina = T
    PROVE  /\ DireccionFisica(c, f, d) = f * T + (d % T)
           /\ DireccionFisica(c, f, d) \in Nat
           /\ DireccionFisica(c, f, d) \div T = f /\ DireccionFisica(c, f, d) % T = d % T
<1>1. d \div T \in Nat /\ d % T \in 0..(T - 1) /\ d = (d \div T) * T + (d % T)
  BY Cociente
<1>2. DireccionFisica(c, f, d) = f * T + (d - (d \div T) * T)
  BY DEF DireccionFisica, Offset, NumPagina
<1>3. (d \div T) * T \in Int
  BY <1>1
<1>4. d - (d \div T) * T = d % T
  BY <1>1, <1>3
<1>5. DireccionFisica(c, f, d) = f * T + (d % T)
  BY <1>2, <1>4
<1>6. f * T \in Nat
  OBVIOUS
<1>. QED  BY SMTT(30), <1>1, <1>5, <1>6, CocienteUnico

\* An access within a page.
LEMMA EnLaPagina ==
    ASSUME NEW T \in Nat \ {0}, NEW d \in Nat, (d % T) + 3 < T, NEW k \in 0..3
    PROVE  (d + k) \div T = d \div T /\ (d + k) % T = (d % T) + k
<1>1. PICK q \in Nat, o \in 0..(T - 1) : q = d \div T /\ o = d % T /\ d = q * T + o
  BY Cociente
<1>2. PICK r \in 0..(T - 1) : r = o + k
  BY <1>1
<1>3. q * T \in Nat
  OBVIOUS
<1>4. d + k = q * T + r
  BY <1>1, <1>2, <1>3
<1>5. (q * T + r) \div T = q /\ (q * T + r) % T = r
  BY CocienteUnico
<1>. QED  BY <1>1, <1>2, <1>4, <1>5

\* There is a table for each page of a process.
LEMMA HayTabla ==
    ASSUME NEW T \in Nat \ {0}, NEW E \in Nat \ {0}, NEW tam \in Nat, NEW d \in 0..(tam - 1)
    PROVE  /\ d \div T \in Nat
           /\ (d \div T) \div E \in 0..(Tp2Proceso(PagsProceso(tam, T), E) - 1)
           /\ Tp2Proceso(PagsProceso(tam, T), E) \in Nat
<1>. DEFINE n == d \div T
            t == n \div E
            P == PagsProceso(tam, T)
            N == Tp2Proceso(P, E)
<1>1. d \in Nat /\ n \in Nat /\ n * T <= d
  BY Cociente
<1>2. t \in Nat /\ t * E <= n
  BY <1>1, Cociente
<1>3. P \in Nat /\ tam <= P * T
  <2>1. Techo(tam, T) \in Nat /\ tam <= Techo(tam, T) * T
    BY TechoCubre
  <2>2. (IF tam % T > 0 THEN 1 ELSE 0) \in {0, 1}
    OBVIOUS
  <2>3. P = Techo(tam, T) \/ P = Techo(tam, T) + 1
    BY <2>1, <2>2 DEF PagsProceso
  <2>4. (Techo(tam, T) + 1) * T = Techo(tam, T) * T + T /\ Techo(tam, T) * T \in Nat
    BY <2>1
  <2>. QED  BY <2>1, <2>3, <2>4
<1>4. N \in Nat /\ P <= N * E
  <2>. HIDE DEF P
  <2>. QED  BY <1>3, TechoCubre DEF Tp2Proceso
<1>5. n < P
  <2>. HIDE DEF n, P
  <2>1. n * T < P * T
    BY <1>1, <1>3
  <2>. QED  BY <1>1, <1>3, <2>1
<1>6. t < N
  <2>. HIDE DEF t, N, P, n
  <2>1. t * E < N * E
    BY <1>1, <1>2, <1>3, <1>4, <1>5
  <2>. QED  BY <1>2, <1>4, <2>1
<1>. QED  BY <1>1, <1>2, <1>4, <1>6

\* Frames within memory.
LEMMA MarcoCabe ==
    ASSUME NEW T \in Nat \ {0}, NEW M \in Nat, M % T = 0, NEW f \in Nat, f < M \div T,
           NEW o \in 0..(T - 1)
    PROVE  f * T + o \in 0..(M - 1)
<1>1. M \div T \in Nat /\ M = (M \div T) * T
  BY Cociente
<1>2. f * T + T <= (M \div T) * T
  BY <1>1, ProductoMenor
<1>. QED  BY <1>1, <1>2

-----------------------------------------------------------------------------
(* Queues of processes.                                                    *)

\* The PCBs of a queue after what the kernel does to it.
LEMMA ColaAgrega ==
    ASSUME NEW S, NEW s \in Seq(S), NEW x
    PROVE  /\ ToSet(Append(s, x)) = ToSet(s) \cup {x}
           /\ SinRepetir(s) /\ (\A p \in ToSet(s) : p.id # x.id) => SinRepetir(Append(s, x))
<1>. DEFINE a == Append(s, x)
            n == Len(s)
<1>1. /\ n \in Nat /\ Len(a) = n + 1 /\ DOMAIN s = 1..n /\ DOMAIN a = 1..(n + 1)
      /\ \A i \in 1..n : a[i] = s[i]
      /\ a[n + 1] = x
  <2>1. s \in Seq(S \cup {x})
    BY SeqMonotonic
  <2>. QED  BY <2>1, AppendProperties
<1>. HIDE DEF a, n
<1>2. ToSet(a) = ToSet(s) \cup {x}
  <2>1. ToSet(a) \subseteq ToSet(s) \cup {x}
    BY <1>1 DEF ToSet
  <2>2. x \in ToSet(a)
    BY <1>1 DEF ToSet
  <2>3. ToSet(s) \subseteq ToSet(a)
    BY <1>1 DEF ToSet
  <2>. QED  BY <2>1, <2>2, <2>3
<1>3. ASSUME SinRepetir(s), \A p \in ToSet(s) : p.id # x.id
      PROVE  SinRepetir(a)
  <2>1. \A i \in 1..n : s[i].id # x.id
    BY <1>1, <1>3 DEF ToSet
  <2>. QED  BY <1>1, <1>3, <2>1 DEF SinRepetir
<1>. QED  BY <1>2, <1>3 DEF a

\* A queue without its first, or without its last, has all the others.
LEMMA ColaSaca ==
    ASSUME NEW S, NEW s \in Seq(S), s # <<>>
    PROVE  /\ ToSet(s) = {Head(s)} \cup ToSet(Tail(s))
           /\ ToSet(s) = {Last(s)} \cup ToSet(Front(s))
           /\ SinRepetir(s) =>
                /\ SinRepetir(Tail(s)) /\ \A p \in ToSet(Tail(s)) : p.id # Head(s).id
                /\ SinRepetir(Front(s)) /\ \A p \in ToSet(Front(s)) : p.id # Last(s).id
<1>. DEFINE n == Len(s)
            t == Tail(s)
            f == Front(s)
<1>1. n \in Nat \ {0} /\ DOMAIN s = 1..n
  BY EmptySeq
<1>2. /\ DOMAIN t = 1..(n - 1) /\ \A i \in 1..(n - 1) : t[i] = s[i + 1]
      /\ Head(s) = s[1]
  <2>1. t \in Seq(S) /\ Len(t) = n - 1 /\ \A i \in 1..Len(t) : t[i] = s[i + 1]
    BY HeadTailProperties
  <2>. QED  BY <2>1
<1>3. /\ DOMAIN f = 1..(n - 1) /\ \A i \in 1..(n - 1) : f[i] = s[i]
      /\ Last(s) = s[n]
  <2>1. f = SubSeq(s, 1, n - 1) /\ Last(s) = s[n]
    BY DEF Front, Last
  <2>2. \A i \in 1..(n - 1) : s[i] \in S
    BY <1>1, ElementOfSeq
  <2>3. /\ SubSeq(s, 1, n - 1) \in Seq(S)
        /\ Len(SubSeq(s, 1, n - 1)) = IF 1 <= n - 1 THEN (n - 1) - 1 + 1 ELSE 0
        /\ \A i \in 1..((n - 1) - 1 + 1) : SubSeq(s, 1, n - 1)[i] = s[1 + i - 1]
    BY <1>1, <2>2, SubSeqProperties
  <2>. HIDE DEF n, f
  <2>4. f \in Seq(S) /\ Len(f) = n - 1 /\ \A i \in 1..(n - 1) : f[i] = s[i]
    BY <1>1, <2>1, <2>3
  <2>. QED  BY <1>1, <2>1, <2>4
<1>. HIDE DEF n, t, f
<1>4. /\ \A i \in 2..n : i - 1 \in 1..(n - 1) /\ t[i - 1] = s[i]
      /\ \A i \in 1..(n - 1) : i \in 1..n /\ i + 1 \in 1..n
      /\ 1 \in 1..n /\ n \in 1..n
  BY <1>1, <1>2
<1>5. ToSet(s) = {Head(s)} \cup ToSet(t)
  <2>1. ASSUME NEW i \in 1..n
        PROVE  s[i] \in {Head(s)} \cup ToSet(t)
    <3>1. CASE i = 1
      BY <1>2, <3>1
    <3>2. CASE i \in 2..n
      <4>1. t[i - 1] \in ToSet(t)
        BY <1>2, <1>4, <3>2 DEF ToSet
      <4>. QED  BY <1>4, <3>2, <4>1
    <3>. QED  BY <1>1, <3>1, <3>2
  <2>2. ASSUME NEW i \in 1..(n - 1)
        PROVE  t[i] \in ToSet(s)
    BY <1>1, <1>2, <1>4 DEF ToSet
  <2>3. Head(s) \in ToSet(s)
    BY <1>1, <1>2, <1>4 DEF ToSet
  <2>4. ToSet(s) \subseteq {Head(s)} \cup ToSet(t)
    BY <1>1, <2>1 DEF ToSet
  <2>5. ToSet(t) \subseteq ToSet(s)
    BY <1>2, <2>2 DEF ToSet
  <2>. QED  BY <2>3, <2>4, <2>5
<1>6. ToSet(s) = {Last(s)} \cup ToSet(f)
  <2>1. ToSet(s) \subseteq {Last(s)} \cup ToSet(f)
    <3>1. \A i \in 1..n : i = n \/ i \in 1..(n - 1)
      BY <1>1
    <3>. QED  BY <1>1, <1>3, <3>1 DEF ToSet
  <2>2. ToSet(f) \subseteq ToSet(s) /\ Last(s) \in ToSet(s)
    BY <1>1, <1>3, <1>4 DEF ToSet
  <2>. QED  BY <2>1, <2>2
<1>7. ASSUME SinRepetir(s)
      PROVE  /\ SinRepetir(t) /\ \A p \in ToSet(t) : p.id # Head(s).id
             /\ SinRepetir(f) /\ \A p \in ToSet(f) : p.id # Last(s).id
  <2>1. \A i, j \in 1..n : s[i].id = s[j].id => i = j
    BY <1>1, <1>7 DEF SinRepetir
  <2>2. \A i \in 1..(n - 1) : /\ i + 1 \in 1..n /\ i \in 1..n /\ i + 1 # 1 /\ i # n
                              /\ \A j \in 1..(n - 1) : i + 1 = j + 1 => i = j
    BY <1>1
  <2>3. SinRepetir(t)
    <3>1. \A i, j \in 1..(n - 1) : t[i].id = t[j].id => i + 1 = j + 1
      BY SMTT(30), <1>2, <1>4, <2>1
    <3>. QED  BY <1>2, <2>2, <3>1 DEF SinRepetir
  <2>6. SinRepetir(f)
    BY <1>3, <2>1, <2>2 DEF SinRepetir
  <2>4. \A p \in ToSet(t) : p.id # Head(s).id
    BY <1>1, <1>2, <2>1, <2>2 DEF ToSet
  <2>5. \A p \in ToSet(f) : p.id # Last(s).id
    BY <1>1, <1>3, <2>1, <2>2 DEF ToSet
  <2>. QED  BY <2>3, <2>4, <2>5, <2>6
<1>. QED  BY <1>5, <1>6, <1>7 DEF t, f

\* The processes admitted are some consoles'.
LEMMA AdmitidasHechas ==
    ASSUME InvK
    PROVE  /\ Admitidas \subseteq Hechas
           /\ ToSet(colaNew) \subseteq Vivas /\ Vivas \subseteq Hechas
           /\ ToSet(colaReady) \subseteq Vivas /\ ToSet(colaExit) \subseteq Hechas
           /\ colaExec # <<>> => EnExec \subseteq Hechas
<1>1. Vivas \subseteq Hechas
  BY DEF Vivas
<1>2. /\ ToSet(colaNew) \subseteq Vivas /\ ToSet(colaReady) \subseteq Vivas
      /\ ToSet(colaExit) \subseteq Hechas
  BY DEF InvK, ColasOK, ToSet
<1>3. EnExec \subseteq Hechas
  <2>1. CASE colaExec = <<>>
    BY <2>1 DEF EnExec
  <2>2. CASE colaExec # <<>>
    <3>1. Head(colaExec) \in Vivas /\ (EnCamino \/ EnCpu \/ DeVuelta)
      BY <2>2 DEF InvK, ExecOK
    <3>2. EnCamino => dispatch # <<>>
      BY <3>1, Avanza, PcbVuelta DEF EnCamino
    <3>. QED  BY <1>1, <2>2, <3>1, <3>2 DEF EnExec, EnCpu, DeVuelta
  <2>. QED  BY <2>1, <2>2
<1>. QED  BY <1>1, <1>2, <1>3 DEF Admitidas

\* Where the process in Exec is.
LEMMA DondeExec ==
    ASSUME InvK
    PROVE  /\ dispatch # <<>> => /\ colaExec # <<>> /\ EnCamino /\ EnExec = {Head(colaExec)}
                                 /\ Head(colaExec) \in Vivas
           /\ vuelta # <<>> => colaExec # <<>> /\ DeVuelta /\ EnExec = {pcb} /\ dispatch = <<>>
           /\ en # "dispatch" => /\ colaExec # <<>> /\ EnCpu /\ EnExec = {pcb} /\ pcb \in Vivas
                                 /\ dispatch = <<>> /\ vuelta = <<>>
<1>1. Head(colaExec) \in Vivas /\ EnCamino => dispatch # <<>>
  BY Avanza, PcbVuelta DEF EnCamino
<1>2. colaExec # <<>> => Head(colaExec) \in Vivas /\ (EnCamino \/ EnCpu \/ DeVuelta)
  BY DEF InvK, ExecOK
<1>3. colaExec = <<>> => dispatch = <<>> /\ vuelta = <<>> /\ en = "dispatch"
  BY DEF InvK, ExecOK
<1>. QED  BY <1>1, <1>2, <1>3 DEF EnExec, EnCamino, EnCpu, DeVuelta

\* An identifier is that of one process.
LEMMA Unica ==
    ASSUME UnaVez, NEW p \in Admitidas, NEW q \in Admitidas, p.id = q.id
    PROVE  p = q
<1>1. \A s : SinRepetir(s) => \A x, y \in ToSet(s) : x.id = y.id => x = y
  BY DEF SinRepetir, ToSet
<1>2. \A x, y \in EnExec : x = y
  BY DEF EnExec
<1>. QED  BY <1>1, <1>2 DEF UnaVez, Ajenas, Admitidas

\* Each process in the queues is a console's, and one that is not there yet is no other's.
LEMMA NuevaAjena ==
    ASSUME InvR, NEW c \in Consolas, atencion[c].en = "agregar", NEW p \in Hechas
    PROVE  p.id # atencion[c].pcb.id
<1>1. PICK d \in Consolas : atencion[d].en = "atendida" /\ Fijo(p) = Fijo(atencion[d].pcb)
  BY DEF Hechas
<1>2. c \in Creadas /\ d \in Creadas /\ c # d
  BY <1>1 DEF Creadas
<1>3. p \in Pcbs /\ atencion[d].pcb \in Pcbs
  BY <1>2 DEF Hechas, InvR, CreadasOK, Nueva
<1>4. p.id = atencion[d].pcb.id
  BY <1>1, <1>3, FijoPartes
<1>. QED  BY <1>2, <1>4 DEF InvR, CreadasOK, ProcesoPropio

\* Identifiers are below the number of consoles.
LEMMA IdsDe ==
    ASSUME InvR, generador_de_id = Cardinality(Creadas), NEW p \in Hechas
    PROVE  p.id \in Ids
<1>1. PICK d \in Consolas : atencion[d].en = "atendida" /\ Fijo(p) = Fijo(atencion[d].pcb)
  BY DEF Hechas
<1>2. d \in Creadas /\ Creadas \subseteq Consolas
  BY <1>1 DEF Creadas
<1>3. p \in Pcbs /\ atencion[d].pcb \in Pcbs /\ atencion[d].pcb.id < generador_de_id
  BY <1>2 DEF Hechas, InvR, CreadasOK, Nueva
<1>4. p.id = atencion[d].pcb.id /\ p.id \in Nat
  BY <1>1, <1>3, FijoPartes DEF Pcbs
<1>5. Cardinality(Creadas) <= Cardinality(Consolas) /\ Cardinality(Consolas) \in Nat
      /\ Cardinality(Creadas) \in Nat
  BY <1>2, ConsolasAssumption, FS_Subset, FS_CardinalityType
<1>. QED  BY <1>3, <1>4, <1>5 DEF Ids

\* The process in Exec is the same whether the kernel or the CPU has it.
LEMMA ExecHecha == InvK => (colaExec # <<>> => EnExec \subseteq Hechas)
  BY AdmitidasHechas

LEMMA ExecHechaDespues == (InvK => (colaExec # <<>> => EnExec \subseteq Hechas))'
  BY ExecHecha, PTL

\* An instruction that ends leaves the process in the CPU, or on its way back, one
\* further on in its program.
LEMMA TrasInstruccion ==
    ASSUME InvK, DeMemoriaOK, Ejecutar \/ RecibirLectura \/ RecibirEscritura
    PROVE  /\ en \in {"ciclo", "lectura", "escritura"} /\ pcb \in Vivas /\ pcb' \in Hechas
           /\ pcb'.id = pcb.id /\ pcb'.tabla = pcb.tabla /\ pcb'.tamanio = pcb.tamanio
           /\ pcb'.instrucciones = pcb.instrucciones /\ pcb'.pc = pcb.pc + 1
           /\ fisicas' = <<>>
           /\ \/ en' = "dispatch" /\ ultimo_pid' = pcb.id
              \/ en' = "ciclo" /\ ultimo_pid' = ultimo_pid
           /\ UNCHANGED <<colaNew, colaReady, colaExec, colaExit, dispatch, atencion,
                          generador_de_id, tablas1, tablas2, usuario, marcos, tlb, pedidos,
                          saludo, configuracion>>
<1>1. en \in {"ciclo", "lectura", "escritura"}
  BY DEF Ejecutar, RecibirLectura, RecibirEscritura
<1>2. UNCHANGED <<colaNew, colaReady, colaExec, colaExit, dispatch, atencion, generador_de_id,
                  tablas1, tablas2, usuario, marcos, tlb, pedidos, saludo, configuracion>>
  BY DEF Ejecutar, RecibirLectura, RecibirEscritura, varsRecepcion, nucleo, memoria
<1>3. pcb \in Vivas
  BY <1>1, DondeExec
<1>4. pcb \in Pcbs /\ Instruccion \in Instruccs
  BY <1>3, Avanza DEF Instruccion
<1>5. \E e, b, parar : FinDeInstruccion([pcb EXCEPT !.estado = e, !.bloqueo = b], parar)
  <2>1. pcb = [pcb EXCEPT !.estado = pcb.estado, !.bloqueo = pcb.bloqueo]
    BY <1>4 DEF Pcbs
  <2>2. CASE FinDeInstruccion(pcb, FALSE)
    <3>1. FinDeInstruccion([pcb EXCEPT !.estado = pcb.estado, !.bloqueo = pcb.bloqueo], FALSE)
      BY <2>1, <2>2
    <3>. QED  BY <3>1
  <2>3. CASE FinDeInstruccion([pcb EXCEPT !.bloqueo = Instruccion.parametro1,
                                          !.estado = BLOQUEADO], TRUE)
    <3>1. [pcb EXCEPT !.bloqueo = Instruccion.parametro1, !.estado = BLOQUEADO]
            = [pcb EXCEPT !.estado = BLOQUEADO, !.bloqueo = Instruccion.parametro1]
      BY <1>4 DEF Pcbs
    <3>2. FinDeInstruccion([pcb EXCEPT !.estado = BLOQUEADO,
                                       !.bloqueo = Instruccion.parametro1], TRUE)
      BY <2>3, <3>1
    <3>. QED  BY <3>2
  <2>4. CASE FinDeInstruccion([pcb EXCEPT !.estado = FINALIZADO], TRUE)
    <3>1. [pcb EXCEPT !.estado = FINALIZADO]
            = [pcb EXCEPT !.estado = FINALIZADO, !.bloqueo = pcb.bloqueo]
      BY <1>4 DEF Pcbs
    <3>2. FinDeInstruccion([pcb EXCEPT !.estado = FINALIZADO, !.bloqueo = pcb.bloqueo], TRUE)
      BY <2>4, <3>1
    <3>. QED  BY <3>2
  <2>. QED  BY <2>2, <2>3, <2>4, EjecutarCasos DEF RecibirLectura, RecibirEscritura
<1>6. PICK e, b, parar : FinDeInstruccion([pcb EXCEPT !.estado = e, !.bloqueo = b], parar)
  BY <1>5
<1>. DEFINE p == [pcb EXCEPT !.estado = e, !.bloqueo = b]
            q == [p EXCEPT !.pc = @ + 1]
<1>7. /\ q.id = pcb.id /\ q.tabla = pcb.tabla /\ q.tamanio = pcb.tamanio
      /\ q.instrucciones = pcb.instrucciones /\ q.pc = pcb.pc + 1 /\ p.id = pcb.id
  BY <1>4 DEF Pcbs
<1>8. /\ pcb' = q /\ fisicas' = <<>>
      /\ \/ en' = "dispatch" /\ ultimo_pid' = p.id
         \/ en' = "ciclo" /\ ultimo_pid' = ultimo_pid
  BY <1>6 DEF FinDeInstruccion
<1>9. pcb' \in Hechas
  <2>1. InvK'
    BY PasoEjecutarK, PasoRespuestaK
  <2>2. colaExec' # <<>> /\ dispatch' = <<>> /\ Hechas' = Hechas
    BY <1>1, <1>2, DondeExec, HechasIguales
  <2>3. colaExec' # <<>> => EnExec' \subseteq Hechas'
    BY <2>1, ExecHechaDespues
  <2>4. EnExec' = {pcb'}
    BY <2>2 DEF EnExec
  <2>. QED  BY <2>2, <2>3, <2>4
<1>. HIDE DEF p, q
<1>. QED  BY <1>1, <1>2, <1>3, <1>7, <1>8, <1>9

\* The counter of identifiers is the number of PCBs made.
CuentaOK == generador_de_id = Cardinality(Creadas)

\* The ids given are as many as the consoles whose process was created.
LEMMA PasoCuenta ==
    ASSUME InvR, CuentaOK, [NextEnlace]_varsEnlace
    PROVE  CuentaOK'
<1>1. Creadas \subseteq Consolas /\ IsFiniteSet(Creadas)
  <2>1. Creadas \subseteq Consolas
    BY DEF Creadas
  <2>. QED  BY <2>1, ConsolasAssumption, FS_Subset
<1>2. CASE UNCHANGED <<atencion, generador_de_id>>
  BY <1>2 DEF CuentaOK, Creadas
<1>3. ASSUME NEW c \in Consolas, EnviarConsola(c) \/ RecibirConsola(c) \/ AgregarANew(c)
      PROVE  CuentaOK'
  <2>1. generador_de_id' = generador_de_id /\ DOMAIN atencion = Consolas
    BY <1>3 DEF EnviarConsola, RecibirConsola, AgregarANew, InvR, TipoRecepcion
  <2>. DEFINE Hecha(e) == e \in {"agregar", "atendida"}
  <2>2. PICK e : /\ atencion' = [atencion EXCEPT ![c].en = e]
                 /\ Hecha(e) <=> Hecha(atencion[c].en)
    <3>1. CASE EnviarConsola(c)
      <4>1. /\ atencion' = [atencion EXCEPT ![c].en = "recibir"]
            /\ ~ Hecha("recibir") /\ ~ Hecha(atencion[c].en)
        BY <3>1 DEF EnviarConsola
      <4>. QED  BY <4>1
    <3>2. CASE RecibirConsola(c)
      <4>1. /\ atencion' = [atencion EXCEPT ![c].en = "armar"]
            /\ ~ Hecha("armar") /\ ~ Hecha(atencion[c].en)
        BY <3>2 DEF RecibirConsola
      <4>. QED  BY <4>1
    <3>3. CASE AgregarANew(c)
      BY <3>3 DEF AgregarANew
    <3>. QED  BY <1>3, <3>1, <3>2, <3>3
  <2>3. atencion' = [atencion EXCEPT ![c] = [en |-> e, pcb |-> atencion[c].pcb]]
    BY <2>2, SoloEn DEF InvR
  <2>4. Creadas' = Creadas
    BY <2>1, <2>2, <2>3 DEF Creadas
  <2>. QED  BY <2>1, <2>4 DEF CuentaOK
<1>4. ASSUME NEW c \in Consolas, Armar(c)
      PROVE  CuentaOK'
  <2>1. /\ generador_de_id' = generador_de_id + 1 /\ DOMAIN atencion = Consolas
        /\ atencion' = [atencion EXCEPT ![c] = [en |-> "agregar", pcb |-> PcbNueva]]
        /\ atencion[c].en = "armar"
    BY <1>4 DEF Armar, InvR, TipoRecepcion
  <2>2. Creadas' = Creadas \cup {c} /\ c \notin Creadas
    BY <2>1 DEF Creadas
  <2>3. Cardinality(Creadas \cup {c}) = Cardinality(Creadas) + 1
    BY <1>1, <2>2, FS_AddElement
  <2>. QED  BY <2>1, <2>2, <2>3 DEF CuentaOK
<1>5. Nucleo \/ Interrumpir \/ Saludo \/ HiloCpu \/ HiloMemoria \/ HiloFin
        => UNCHANGED <<atencion, generador_de_id>>
  BY OtrosSinConsolas DEF SinConsolas
<1>6. UNCHANGED varsEnlace => UNCHANGED <<atencion, generador_de_id>>
  BY DEF varsEnlace, varsRecepcion
<1>. QED  BY <1>2, <1>3, <1>4, <1>5, <1>6 DEF NextEnlace, HiloConsola, Atender

-----------------------------------------------------------------------------
(* Each process in one place.                                              *)

\* Admitir moves the last of New, which gets its table, to Ready.
LEMMA PasoAdmitirU ==
    ASSUME InvK, UnaVez, Admitir
    PROVE  LET p == Last(colaNew)
               q == [p EXCEPT !.tabla = Len(tablas1)]
           IN  /\ p \in Vivas /\ p.pc = 0 /\ q.id = p.id /\ q.pc = p.pc /\ q.tabla = Len(tablas1)
               /\ q.tamanio = p.tamanio /\ q.instrucciones = p.instrucciones
               /\ Admitidas' = Admitidas \cup {q} /\ \A r \in Admitidas : r.id # q.id
               /\ CuentaOK' => UnaVez'
<1>. DEFINE p == Last(colaNew)
            q == [p EXCEPT !.tabla = Len(tablas1)]
<1>1. /\ colaNew # <<>> /\ colaNew' = Front(colaNew) /\ colaReady' = Append(colaReady, q)
      /\ UNCHANGED <<colaExec, colaExit, dispatch, pcb>>
  BY DEF Admitir, canales, cpu, hiloCpu
<1>2. colaNew \in Seq(Vivas) /\ colaReady \in Seq(Vivas)
  BY DEF InvK, ColasOK
<1>3. /\ ToSet(colaNew) = {p} \cup ToSet(colaNew')
      /\ SinRepetir(colaNew') /\ \A r \in ToSet(colaNew') : r.id # p.id
  BY <1>1, <1>2, ColaSaca DEF UnaVez
<1>4. p \in Vivas /\ p.pc = 0 /\ \A r \in Admitidas : r.id # p.id
  BY <1>3, AdmitidasHechas DEF UnaVez, Ajenas
<1>5. /\ q.id = p.id /\ q.pc = p.pc /\ q.tabla = Len(tablas1)
      /\ q.tamanio = p.tamanio /\ q.instrucciones = p.instrucciones
  BY <1>4, Avanza DEF Pcbs
<1>. HIDE DEF p, q
<1>6. EnExec' = EnExec
  BY <1>1 DEF EnExec
<1>7. /\ ToSet(colaReady') = ToSet(colaReady) \cup {q}
      /\ SinRepetir(colaReady')
  <2>1. \A r \in ToSet(colaReady) : r.id # q.id
    BY <1>4, <1>5 DEF Admitidas
  <2>. QED  BY <1>1, <1>2, <2>1, ColaAgrega DEF UnaVez
<1>8. Admitidas' = Admitidas \cup {q}
  BY <1>1, <1>6, <1>7 DEF Admitidas
<1>9. ASSUME CuentaOK'
      PROVE  UnaVez'
  <2>1. \A r \in ToSet(colaExit) \cup EnExec : r.id # q.id
    BY <1>4, <1>5 DEF Admitidas
  <2>2. Ajenas(ToSet(colaNew'), Admitidas')
    BY <1>3, <1>5, <1>8 DEF UnaVez, Ajenas
  <2>3. Ajenas(ToSet(colaReady'), ToSet(colaExit)) /\ Ajenas(ToSet(colaReady'), EnExec)
    BY <1>7, <2>1 DEF UnaVez, Ajenas
  <2>. QED  BY <1>1, <1>3, <1>6, <1>7, <1>9, <2>2, <2>3 DEF UnaVez, CuentaOK
<1>. QED  BY <1>4, <1>5, <1>8, <1>9 DEF p, q

\* Despachar moves the first of Ready to Exec.
LEMMA PasoDespacharU ==
    ASSUME InvK, UnaVez, Despachar
    PROVE  Admitidas' = Admitidas /\ (CuentaOK' => UnaVez')
<1>. DEFINE p == Head(colaReady)
<1>1. /\ colaReady # <<>> /\ colaExec = <<>> /\ colaExec' = <<p>> /\ colaReady' = Tail(colaReady)
      /\ dispatch' = dispatch \o EnviarPcb(p)
      /\ UNCHANGED <<colaNew, colaExit>>
  BY DEF Despachar, varsRecepcion
<1>2. colaReady \in Seq(Vivas)
  BY DEF InvK, ColasOK
<1>3. /\ ToSet(colaReady) = {p} \cup ToSet(colaReady')
      /\ SinRepetir(colaReady') /\ \A r \in ToSet(colaReady') : r.id # p.id
  BY <1>1, <1>2, ColaSaca DEF UnaVez
<1>4. p \in Pcbs
  BY <1>3, AdmitidasHechas, Avanza
<1>5. dispatch = <<>>
  BY <1>1 DEF InvK, ExecOK
<1>. HIDE DEF p
<1>6. dispatch' # <<>> /\ Head(colaExec') = p
  BY <1>1, <1>4, <1>5, PcbEnVacio, PcbVuelta
<1>7. EnExec = {} /\ EnExec' = {p} /\ colaExec' # <<>>
  BY <1>1, <1>6 DEF EnExec
<1>8. Admitidas' = Admitidas
  BY <1>1, <1>3, <1>7 DEF Admitidas
<1>9. \A r \in ToSet(colaExit) : p.id # r.id /\ r.id # p.id
  BY <1>3 DEF UnaVez, Ajenas
<1>10. CuentaOK' => UnaVez'
  BY <1>1, <1>3, <1>6, <1>7, <1>8, <1>9 DEF UnaVez, Ajenas, CuentaOK
<1>. QED  BY <1>8, <1>10

\* What comes back from the CPU is the process that was in Exec, with the kernel's times.
LEMMA PasoRecibirDeCpuU ==
    ASSUME InvK, UnaVez, RecibirDeCpu
    PROVE  /\ en = "dispatch" /\ pcb \in Admitidas
           /\ \E q \in Hechas :
                /\ q.id = pcb.id /\ q.pc = pcb.pc /\ q.tamanio = pcb.tamanio
                /\ q.tabla = pcb.tabla /\ q.instrucciones = pcb.instrucciones
                /\ Admitidas' = (Admitidas \ {pcb}) \cup {q}
           /\ CuentaOK' => UnaVez'
<1>1. Entera(vuelta) /\ colaExec' = <<>> /\ UNCHANGED colaNew
  BY DEF RecibirDeCpu, varsRecepcion
<1>2. colaExec # <<>> /\ DeVuelta /\ EnExec = {pcb} /\ EnExec' = {}
  <2>1. vuelta # <<>>
    BY <1>1 DEF Entera
  <2>. QED  BY <1>1, <2>1, DondeExec DEF EnExec
<1>3. RecibirPcb(vuelta) = pcb /\ pcb \in Pcbs
  BY <1>2, PcbVuelta DEF DeVuelta, Hechas
<1>4. colaReady \in Seq(Vivas) /\ colaExit \in Seq(Hechas)
  BY DEF InvK, ColasOK
<1>5. PICK q \in Devueltas(pcb) :
        \/ colaExit' = Append(colaExit, q) /\ colaReady' = colaReady
        \/ colaReady' = Append(colaReady, q) /\ colaExit' = colaExit
  BY <1>3 DEF RecibirDeCpu
<1>6. /\ q.id = pcb.id /\ q.pc = pcb.pc /\ q.tamanio = pcb.tamanio
      /\ q.tabla = pcb.tabla /\ q.instrucciones = pcb.instrucciones
      /\ q \in Hechas
  BY <1>2, <1>3, DevueltaDe, SigueHecha DEF DeVuelta
<1>7. /\ \A r \in ToSet(colaReady) \cup ToSet(colaExit) : r.id # pcb.id /\ pcb.id # r.id
      /\ \A r \in ToSet(colaNew) : r.id # pcb.id
  BY <1>2 DEF UnaVez, Ajenas, Admitidas
<1>8. /\ SinRepetir(colaReady') /\ SinRepetir(colaExit')
      /\ \/ ToSet(colaExit') = ToSet(colaExit) \cup {q} /\ ToSet(colaReady') = ToSet(colaReady)
         \/ ToSet(colaReady') = ToSet(colaReady) \cup {q} /\ ToSet(colaExit') = ToSet(colaExit)
  <2>1. CASE colaExit' = Append(colaExit, q) /\ colaReady' = colaReady
    <3>1. ToSet(colaExit') = ToSet(colaExit) \cup {q} /\ SinRepetir(colaExit')
      BY <1>4, <1>6, <1>7, <2>1, ColaAgrega DEF UnaVez
    <3>. QED  BY <2>1, <3>1 DEF UnaVez
  <2>2. CASE colaReady' = Append(colaReady, q) /\ colaExit' = colaExit
    <3>1. ToSet(colaReady') = ToSet(colaReady) \cup {q} /\ SinRepetir(colaReady')
      BY <1>4, <1>6, <1>7, <2>2, ColaAgrega DEF UnaVez
    <3>. QED  BY <2>2, <3>1 DEF UnaVez
  <2>. QED  BY <1>5, <2>1, <2>2
<1>9. pcb \in Admitidas /\ Admitidas' = (Admitidas \ {pcb}) \cup {q}
  <2>1. pcb \notin ToSet(colaReady) /\ pcb \notin ToSet(colaExit)
    BY <1>7
  <2>. QED  BY <1>2, <1>8, <2>1 DEF Admitidas
<1>10. CuentaOK' => UnaVez'
  <2>1. Ajenas(ToSet(colaReady'), ToSet(colaExit'))
    BY <1>6, <1>7, <1>8 DEF UnaVez, Ajenas
  <2>2. Ajenas(ToSet(colaNew'), Admitidas')
    BY <1>1, <1>6, <1>7, <1>9 DEF UnaVez, Ajenas
  <2>. QED  BY <1>1, <1>2, <1>8, <2>1, <2>2 DEF UnaVez, Ajenas, CuentaOK
<1>11. en = "dispatch"
  BY <1>2 DEF DeVuelta
<1>. QED  BY <1>6, <1>9, <1>10, <1>11

\* The PCB the CPU takes is the one the kernel has in Exec.
LEMMA PasoRecibirProcesoU ==
    ASSUME InvK, UnaVez, RecibirProceso
    PROVE  /\ en = "dispatch" /\ en' = "ciclo" /\ pcb' = Head(colaExec) /\ EnExec = {pcb'}
           /\ Admitidas' = Admitidas /\ (CuentaOK' => UnaVez')
<1>. DEFINE s == Esperada(dispatch, {PCB})
<1>1. /\ en = "dispatch" /\ en' = "ciclo" /\ Entera(s) /\ pcb' = RecibirPcb(s)
      /\ dispatch' = Resto(s)
      /\ UNCHANGED <<colaNew, colaReady, colaExec, colaExit>>
  BY DEF RecibirProceso, varsRecepcion, nucleo
<1>2. dispatch # <<>>
  <2>1. 0 \notin {PCB} /\ ~ Entera(<<>>)
    BY DEF PCB, Entera
  <2>. QED  BY <1>1, <2>1, EsperadaCeros
<1>3. /\ colaExec # <<>> /\ EnCamino /\ EnExec = {Head(colaExec)} /\ Head(colaExec) \in Pcbs
  BY <1>2, DondeExec, Avanza
<1>4. s = dispatch /\ RecibirPcb(s) = Head(colaExec) /\ Resto(s) = <<>>
  BY <1>3, PcbVuelta DEF EnCamino
<1>. HIDE DEF s
<1>5. pcb' = Head(colaExec) /\ dispatch' = <<>>
  BY <1>1, <1>4
<1>6. EnExec' = EnExec
  BY <1>1, <1>3, <1>5 DEF EnExec
<1>7. Admitidas' = Admitidas
  BY <1>1, <1>6 DEF Admitidas
<1>8. CuentaOK' => UnaVez'
  BY <1>1, <1>6, <1>7 DEF UnaVez, CuentaOK
<1>. QED  BY <1>1, <1>3, <1>5, <1>7, <1>8

\* An instruction changes the PCB in the CPU and no other.
LEMMA PasoInstruccionU ==
    ASSUME InvK, UnaVez, DeMemoriaOK, Ejecutar \/ RecibirLectura \/ RecibirEscritura
    PROVE  /\ Admitidas' = (Admitidas \ {pcb}) \cup {pcb'}
           /\ CuentaOK' => UnaVez'
<1>1. /\ en # "dispatch" /\ pcb'.id = pcb.id /\ pcb'.tabla = pcb.tabla
      /\ UNCHANGED <<colaNew, colaReady, colaExec, colaExit, dispatch>>
  BY TrasInstruccion
<1>2. colaExec # <<>> /\ EnExec = {pcb} /\ dispatch = <<>>
  BY <1>1, DondeExec
<1>3. EnExec' = {pcb'}
  BY <1>1, <1>2 DEF EnExec
<1>4. pcb \notin ToSet(colaReady) /\ pcb \notin ToSet(colaExit)
  BY <1>2 DEF UnaVez, Ajenas
<1>5. Admitidas' = (Admitidas \ {pcb}) \cup {pcb'}
  BY <1>1, <1>2, <1>3, <1>4 DEF Admitidas
<1>6. pcb.tabla = Head(colaExec).tabla
  BY <1>2 DEF UnaVez
<1>7. /\ \A r \in ToSet(colaReady) \cup ToSet(colaExit) : r.id # pcb'.id
      /\ \A r \in ToSet(colaNew) : r.id # pcb'.id
  BY <1>1, <1>2 DEF UnaVez, Ajenas, Admitidas
<1>8. CuentaOK' => UnaVez'
  BY <1>1, <1>3, <1>5, <1>6, <1>7 DEF UnaVez, Ajenas, CuentaOK
<1>. QED  BY <1>5, <1>8

\* The steps that move no process between the queues.
SinMover == UNCHANGED <<colaReady, colaExec, colaExit, dispatch, pcb>>

\* A step that moves no PCB leaves each process where it was.
LEMMA PasoQuietoU ==
    ASSUME UnaVez, SinMover, colaNew' = colaNew
    PROVE  Admitidas' = Admitidas /\ (CuentaOK' => UnaVez')
<1>1. EnExec' = EnExec
  BY DEF EnExec, SinMover
<1>2. Admitidas' = Admitidas
  BY <1>1 DEF Admitidas, SinMover
<1>. QED  BY <1>1, <1>2 DEF UnaVez, CuentaOK, SinMover

\* A console only adds its own process to New.
LEMMA PasoConsolaU ==
    ASSUME InvR, InvK, UnaVez, NEW c \in Consolas, HiloConsola(c)
    PROVE  Admitidas' = Admitidas /\ SinMover /\ (CuentaOK' => UnaVez')
<1>1. SinMover
  BY DEF HiloConsola, SinMover, nucleo, canales, cpu, hiloCpu
<1>2. EnExec' = EnExec
  BY <1>1 DEF EnExec, SinMover
<1>3. Admitidas' = Admitidas
  BY <1>1, <1>2 DEF Admitidas, SinMover
<1>4. CASE EnviarConsola(c) \/ RecibirConsola(c) \/ Armar(c)
  <2>1. colaNew' = colaNew
    BY <1>4 DEF EnviarConsola, RecibirConsola, Armar
  <2>. QED  BY <1>1, <1>3, <2>1, PasoQuietoU
<1>5. CASE AgregarANew(c)
  <2>. DEFINE p == atencion[c].pcb
  <2>1. atencion[c].en = "agregar" /\ colaNew' = Append(colaNew, p)
    BY <1>5 DEF AgregarANew
  <2>2. c \in Creadas /\ p.pc = 0
    BY <2>1 DEF InvR, CreadasOK, Creadas, Nueva
  <2>3. \A r \in Admitidas \cup ToSet(colaNew) : r.id # p.id /\ p.id # r.id
    BY <2>1, NuevaAjena, AdmitidasHechas
  <2>. HIDE DEF p
  <2>4. ToSet(colaNew') = ToSet(colaNew) \cup {p} /\ SinRepetir(colaNew')
    <3>1. colaNew \in Seq(Vivas)
      BY DEF InvK, ColasOK
    <3>. QED  BY <2>1, <2>3, <3>1, ColaAgrega DEF UnaVez
  <2>5. Ajenas(ToSet(colaNew'), Admitidas)
    BY <2>3, <2>4 DEF UnaVez, Ajenas
  <2>6. CuentaOK' => UnaVez'
    BY <1>1, <1>2, <1>3, <2>2, <2>4, <2>5 DEF UnaVez, CuentaOK, SinMover
  <2>. QED  BY <1>1, <1>3, <2>6
<1>. QED  BY <1>4, <1>5 DEF HiloConsola, Atender

\* What the CPU, the kernel and the admission leave as it was made.
LEMMA DeUnPrograma ==
    ASSUME InvR, NEW p \in Hechas
    PROVE  /\ p \in Pcbs /\ p.tamanio \in Nat /\ p.instrucciones \in Seq(Instruccs)
           /\ \E d \in Consolas : p.tamanio = Tamanio(d) /\ p.instrucciones = Programa(d)
<1>1. PICK c \in Consolas : atencion[c].en = "atendida" /\ Fijo(p) = Fijo(atencion[c].pcb)
  BY DEF Hechas
<1>. DEFINE o == atencion[c].pcb
<1>2. c \in Creadas
  BY <1>1 DEF Creadas
<1>3. Nueva(o, generador_de_id)
  BY <1>2 DEF InvR, CreadasOK
<1>4. p \in Pcbs /\ o \in Pcbs /\ Fijo(p) = Fijo(o)
  BY <1>1, <1>3 DEF Hechas, Nueva
<1>5. PICK d \in Consolas : o.tamanio = Tamanio(d) /\ o.instrucciones = Programa(d)
  BY <1>3 DEF Nueva
<1>. HIDE DEF o
<1>6. \A x \in Pcbs : Fijo(x).tamanio = x.tamanio /\ Fijo(x).instrucciones = x.instrucciones
  BY DEF Fijo, Pcbs
<1>7. p.tamanio = o.tamanio /\ p.instrucciones = o.instrucciones
  BY <1>4, <1>6
<1>. QED  BY <1>4, <1>5, <1>7 DEF Pcbs

\* The addresses of an instruction are of the process, and each access of a page.
Dentro(p, d) == d \in Nat /\ d + 3 < p.tamanio /\ (d % TamPagina) + 3 < TamPagina

\* The logical addresses of an instruction are of bytes of its process, in one page.
LEMMA LogicasDentro ==
    ASSUME InvR, InvK, en # "dispatch", DeMemoria
    PROVE  /\ Len(Logicas) \in {1, 2} /\ DOMAIN Logicas = 1..Len(Logicas)
           /\ \A i \in 1..Len(Logicas) : Dentro(pcb, Logicas[i])
<1>1. pcb \in Vivas /\ pcb \in Hechas
  BY DondeExec, Avanza
<1>2. PICK d \in Consolas : pcb.tamanio = Tamanio(d) /\ pcb.instrucciones = Programa(d)
  BY <1>1, DeUnPrograma
<1>3. Instruccion \in Instruccs /\ Instruccion \in ToSet(Programa(d))
  <2>1. /\ pcb.pc + 1 \in 1..Len(pcb.instrucciones) /\ Instruccion \in Instruccs
        /\ pcb.instrucciones \in Seq(Instruccs)
    BY <1>1, Avanza, DeUnPrograma DEF Instruccion
  <2>2. pcb.pc + 1 \in DOMAIN Programa(d)
    BY <1>2, <2>1
  <2>. QED  BY <1>2, <2>1, <2>2 DEF ToSet, Instruccion
<1>4. Instruccion.parametro1 \in Nat /\ Instruccion.parametro2 \in Nat
  BY <1>3 DEF Instruccs
<1>5. /\ Dentro(pcb, Instruccion.parametro1)
      /\ Instruccion.codigo = COPY => Dentro(pcb, Instruccion.parametro2)
  <2>1. \A dir \in CASE Instruccion.codigo \in {READ, WRITE} -> {Instruccion.parametro1}
                     [] Instruccion.codigo = COPY ->
                          {Instruccion.parametro1, Instruccion.parametro2}
                     [] OTHER -> {} :
           dir + 3 < Tamanio(d) /\ (dir % TamPagina) + 3 < TamPagina
    BY <1>3, ProgramasAssumption
  <2>2. CASE Instruccion.codigo \in {READ, WRITE}
    <3>1. \A dir \in {Instruccion.parametro1} :
            dir + 3 < Tamanio(d) /\ (dir % TamPagina) + 3 < TamPagina
      BY <2>1, <2>2
    <3>2. Instruccion.codigo # COPY
      BY <2>2 DEF READ, WRITE, COPY
    <3>. QED  BY <1>2, <1>4, <3>1, <3>2 DEF Dentro
  <2>3. CASE Instruccion.codigo = COPY
    <3>1. Instruccion.codigo \notin {READ, WRITE}
      BY <2>3 DEF READ, WRITE, COPY
    <3>2. \A dir \in {Instruccion.parametro1, Instruccion.parametro2} :
            dir + 3 < Tamanio(d) /\ (dir % TamPagina) + 3 < TamPagina
      BY <2>1, <2>3, <3>1
    <3>. QED  BY <1>2, <1>4, <3>2 DEF Dentro
  <2>. QED  BY <2>2, <2>3 DEF DeMemoria
<1>6. CASE Instruccion.codigo = COPY
  BY <1>5, <1>6 DEF Logicas
<1>7. CASE Instruccion.codigo # COPY
  BY <1>5, <1>7 DEF Logicas
<1>. QED  BY <1>6, <1>7

\* The bytes of an access.
LEMMA BytesDentro ==
    ASSUME NEW p, p.tamanio \in Nat, NEW d, Dentro(p, d), NEW k \in 0..3
    PROVE  /\ d + k \in 0..(p.tamanio - 1) /\ Pag(d + k) = Pag(d) /\ Pag(d) \in Paginas(p)
           /\ d \in 0..(p.tamanio - 1) /\ (d + k) % TamPagina = (d % TamPagina) + k
<1>1. d \in 0..(p.tamanio - 1) /\ d + k \in 0..(p.tamanio - 1) /\ d \in Nat
      /\ (d % TamPagina) + 3 < TamPagina
  BY DEF Dentro
<1>2. (d + k) \div TamPagina = d \div TamPagina
      /\ (d + k) % TamPagina = (d % TamPagina) + k
  BY <1>1, TamanosAssumption, EnLaPagina
<1>. QED  BY <1>1, <1>2 DEF Pag, Paginas, NumPagina, Config

-----------------------------------------------------------------------------
(* The tables of each process.                                             *)

\* The entry of a page.
LEMMA EntradaDe ==
    ASSUME InvR, InvK, TablasOK, NEW p \in Admitidas, NEW n \in Paginas(p)
    PROVE  /\ n \in Nat /\ p.tabla + 1 \in DOMAIN tablas1
           /\ (n \div EntradasPorTabla) + 1 \in DOMAIN tablas1[p.tabla + 1]
           /\ Indice(p, n) \in Nat /\ Indice(p, n) + 1 \in DOMAIN tablas2
           /\ (n % EntradasPorTabla) + 1 \in 1..EntradasPorTabla
           /\ Marco(p, n) \in Nat \cup {-1}
<1>1. p \in Hechas /\ p \in Pcbs /\ p.tamanio \in Nat /\ p.tabla \in Nat
  BY AdmitidasHechas, DeUnPrograma DEF Pcbs
<1>2. PICK d \in 0..(p.tamanio - 1) : n = d \div TamPagina
  BY DEF Paginas, Pag, NumPagina, Config
<1>3. /\ n \in Nat
      /\ n \div EntradasPorTabla \in
           0..(Tp2Proceso(PagsProceso(p.tamanio, TamPagina), EntradasPorTabla) - 1)
      /\ Tp2Proceso(PagsProceso(p.tamanio, TamPagina), EntradasPorTabla) \in Nat
  BY <1>1, <1>2, TamanosAssumption, HayTabla
<1>. DEFINE N == Tp2Proceso(PagsProceso(p.tamanio, TamPagina), EntradasPorTabla)
            k == n \div EntradasPorTabla
            e == n % EntradasPorTabla
<1>4. e \in 0..(EntradasPorTabla - 1)
  BY <1>3, TamanosAssumption, Cociente
<1>5. p.tabla < Len(tablas1) /\ Len(tablas1[p.tabla + 1]) = N /\ tablas1 \in Seq(Seq(Nat))
  BY DEF TablasOK
<1>15. k \in 0..(N - 1) /\ N \in Nat
  BY <1>3
<1>. HIDE DEF N, k, e
<1>6. p.tabla + 1 \in DOMAIN tablas1 /\ tablas1[p.tabla + 1] \in Seq(Nat)
  BY <1>1, <1>5
<1>7. k + 1 \in DOMAIN tablas1[p.tabla + 1] /\ tablas1[p.tabla + 1][k + 1] \in Nat
  <2>1. k + 1 \in 1..Len(tablas1[p.tabla + 1])
    BY <1>5, <1>15
  <2>. QED  BY <1>6, <2>1, ElementOfSeq
<1>8. /\ tablas1[p.tabla + 1][k + 1] < Len(tablas2)
      /\ tablas2 \in Seq([pid : Nat, marcos : [1..EntradasPorTabla -> Nat \cup {-1}]])
  BY <1>6, <1>7 DEF TablasOK
<1>9. Indice(p, n) = tablas1[p.tabla + 1][k + 1]
  BY DEF Indice, k
<1>10. Indice(p, n) \in Nat /\ Indice(p, n) + 1 \in DOMAIN tablas2
  BY <1>7, <1>8, <1>9
<1>11. e + 1 \in 1..EntradasPorTabla
  BY <1>4, TamanosAssumption
<1>12. Marco(p, n) = tablas2[Indice(p, n) + 1].marcos[e + 1]
  BY DEF Marco, e
<1>13. tablas2[Indice(p, n) + 1].marcos \in [1..EntradasPorTabla -> Nat \cup {-1}]
  <2>1. Indice(p, n) + 1 \in 1..Len(tablas2)
    BY <1>8, <1>10
  <2>2. tablas2[Indice(p, n) + 1] \in [pid : Nat, marcos : [1..EntradasPorTabla -> Nat \cup {-1}]]
    BY <1>8, <2>1, ElementOfSeq
  <2>. QED  BY <2>2
<1>14. Marco(p, n) \in Nat \cup {-1}
  BY <1>11, <1>12, <1>13
<1>. QED  BY <1>3, <1>6, <1>7, <1>10, <1>11, <1>14 DEF k, e

\* No other page has its entry.
LEMMA EntradaPropia ==
    ASSUME InvR, InvK, TablasOK, NEW p \in Admitidas, NEW n \in Paginas(p),
           NEW q \in Admitidas, NEW m \in Paginas(q),
           Indice(p, n) = Indice(q, m), n % EntradasPorTabla = m % EntradasPorTabla
    PROVE  p = q /\ n = m
<1>1. /\ n \in Nat /\ p.tabla + 1 \in DOMAIN tablas1
      /\ (n \div EntradasPorTabla) + 1 \in DOMAIN tablas1[p.tabla + 1]
      /\ m \in Nat /\ q.tabla + 1 \in DOMAIN tablas1
      /\ (m \div EntradasPorTabla) + 1 \in DOMAIN tablas1[q.tabla + 1]
  BY EntradaDe
<1>2. p.tabla + 1 = q.tabla + 1 /\ (n \div EntradasPorTabla) + 1 = (m \div EntradasPorTabla) + 1
  <2>. DEFINE i == p.tabla + 1
              k == q.tabla + 1
              j == (n \div EntradasPorTabla) + 1
              l == (m \div EntradasPorTabla) + 1
  <2>1. tablas1[i][j] = tablas1[k][l]
    BY DEF Indice
  <2>2. i \in DOMAIN tablas1 /\ k \in DOMAIN tablas1 /\ j \in DOMAIN tablas1[i]
        /\ l \in DOMAIN tablas1[k]
    BY <1>1
  <2>. HIDE DEF i, k, j, l
  <2>3. i = k /\ j = l
    BY <2>1, <2>2 DEF TablasOK
  <2>. QED  BY <2>3 DEF i, k, j, l
<1>3. p.tabla \in Nat /\ q.tabla \in Nat
  BY AdmitidasHechas, DeUnPrograma DEF Pcbs
<1>4. p = q
  <2>1. p.tabla = q.tabla
    BY <1>2, <1>3
  <2>. QED  BY <2>1 DEF TablasOK
<1>5. n \div EntradasPorTabla = m \div EntradasPorTabla
  <2>1. n \div EntradasPorTabla \in Nat /\ m \div EntradasPorTabla \in Nat
    BY <1>1, TamanosAssumption, Cociente
  <2>. QED  BY <1>2, <2>1
<1>6. /\ n = (n \div EntradasPorTabla) * EntradasPorTabla + (n % EntradasPorTabla)
      /\ m = (m \div EntradasPorTabla) * EntradasPorTabla + (m % EntradasPorTabla)
  BY <1>1, TamanosAssumption, Cociente
<1>. QED  BY <1>4, <1>5, <1>6

\* The numbers of the frames.
LEMMA MarcosNat == Marcos \subseteq Nat /\ \A f \in Marcos : f < TamMemoria \div TamPagina
<1>1. TamMemoria \div TamPagina \in Nat
  BY TamanosAssumption, Cociente
<1>. QED  BY <1>1 DEF Marcos

\* The frame given is one that is free.
LEMMA HayLibre ==
    ASSUME Libres # {}
    PROVE  /\ PrimerLibre \in Marcos /\ marcos[PrimerLibre] = -1
           /\ PrimerLibre \in Nat /\ PrimerLibre < TamMemoria \div TamPagina
<1>1. Libres \in SUBSET Nat
  BY MarcosNat DEF Libres
<1>2. \E f \in Libres : \A g \in Libres : f <= g
  BY <1>1, HayMinimo
<1>3. PrimerLibre \in Libres
  BY <1>2 DEF PrimerLibre
<1>. QED  BY <1>3, MarcosNat DEF Libres

\* Nor its frame, if it has one.
LEMMA MarcoPropio ==
    ASSUME InvR, InvK, TablasOK, MarcosOK, NEW p \in Admitidas, NEW n \in Paginas(p),
           Marco(p, n) # -1
    PROVE  /\ Marco(p, n) \in Nat /\ marcos[Marco(p, n)] # -1
           /\ Marco(p, n) < TamMemoria \div TamPagina
           /\ \A q \in Admitidas : \A m \in Paginas(q) : Marco(q, m) = Marco(p, n) => p = q /\ n = m
<1>1. /\ Indice(p, n) + 1 \in DOMAIN tablas2 /\ (n % EntradasPorTabla) + 1 \in 1..EntradasPorTabla
      /\ Indice(p, n) \in Nat /\ Marco(p, n) \in Nat \cup {-1}
  BY EntradaDe
<1>2. Marco(p, n) \in Marcos /\ marcos[Marco(p, n)] # -1
  BY <1>1 DEF MarcosOK, Marco, Tomado
<1>3. Marcos \subseteq Nat /\ \A f \in Marcos : f < TamMemoria \div TamPagina
  BY MarcosNat
<1>4. ASSUME NEW q \in Admitidas, NEW m \in Paginas(q), Marco(q, m) = Marco(p, n)
      PROVE  p = q /\ n = m
  <2>1. /\ Indice(q, m) + 1 \in DOMAIN tablas2 /\ (m % EntradasPorTabla) + 1 \in 1..EntradasPorTabla
        /\ Indice(q, m) \in Nat /\ m \in Nat /\ n \in Nat
    BY EntradaDe
  <2>2. /\ Indice(q, m) + 1 = Indice(p, n) + 1
        /\ (m % EntradasPorTabla) + 1 = (n % EntradasPorTabla) + 1
    BY <1>1, <1>4, <2>1 DEF MarcosOK, Marco
  <2>3. n % EntradasPorTabla \in Nat /\ m % EntradasPorTabla \in Nat
    BY <2>1, TamanosAssumption, Cociente
  <2>. QED  BY <1>1, <2>1, <2>2, <2>3, EntradaPropia
<1>. QED  BY <1>1, <1>2, <1>3, <1>4

-----------------------------------------------------------------------------
(* Addresses in memory.                                                    *)

Fisica(p, d) == DireccionFisica(Config, Marco(p, Pag(d)), d)

\* The physical address of a byte that has a frame is one of memory, in that frame.
LEMMA FisicaDe ==
    ASSUME InvR, InvK, TablasOK, MarcosOK, NEW p \in Admitidas,
           NEW d \in 0..(p.tamanio - 1), Marco(p, Pag(d)) # -1
    PROVE  /\ Fisica(p, d) \in 0..(TamMemoria - 1)
           /\ Fisica(p, d) \div TamPagina = Marco(p, Pag(d))
           /\ Fisica(p, d) = Marco(p, Pag(d)) * TamPagina + (d % TamPagina)
           /\ \A q \in Admitidas : \A e \in 0..(q.tamanio - 1) :
                Marco(q, Pag(e)) # -1 /\ Fisica(q, e) = Fisica(p, d) => p = q /\ d = e
<1>1. ASSUME NEW q \in Admitidas, NEW e \in 0..(q.tamanio - 1), Marco(q, Pag(e)) # -1
      PROVE  /\ Pag(e) \in Paginas(q) /\ e \in Nat /\ Marco(q, Pag(e)) \in Nat
             /\ Marco(q, Pag(e)) < TamMemoria \div TamPagina
             /\ e % TamPagina \in 0..(TamPagina - 1)
             /\ Pag(e) \in Nat /\ e = Pag(e) * TamPagina + (e % TamPagina)
             /\ Fisica(q, e) = Marco(q, Pag(e)) * TamPagina + (e % TamPagina)
             /\ Fisica(q, e) \div TamPagina = Marco(q, Pag(e))
             /\ Fisica(q, e) % TamPagina = e % TamPagina
  <2>1. Pag(e) \in Paginas(q) /\ e \in Nat
    <3>1. q.tamanio \in Nat
      BY AdmitidasHechas, DeUnPrograma
    <3>. QED  BY <3>1 DEF Paginas
  <2>2. Marco(q, Pag(e)) \in Nat /\ Marco(q, Pag(e)) < TamMemoria \div TamPagina
    BY <1>1, <2>1, MarcoPropio
  <2>3. Config.tam_pagina = TamPagina
    BY DEF Config
  <2>4. /\ Fisica(q, e) = Marco(q, Pag(e)) * TamPagina + (e % TamPagina)
        /\ Fisica(q, e) \div TamPagina = Marco(q, Pag(e))
        /\ Fisica(q, e) % TamPagina = e % TamPagina
    BY <2>1, <2>2, <2>3, TamanosAssumption, Direccion DEF Fisica
  <2>5. Pag(e) = e \div TamPagina
    BY <2>3 DEF Pag, NumPagina
  <2>. QED  BY <2>1, <2>2, <2>4, <2>5, TamanosAssumption, Cociente
<1>4. /\ Marco(p, Pag(d)) \in Nat /\ Marco(p, Pag(d)) < TamMemoria \div TamPagina
      /\ d % TamPagina \in 0..(TamPagina - 1)
      /\ Fisica(p, d) = Marco(p, Pag(d)) * TamPagina + (d % TamPagina)
      /\ Fisica(p, d) \div TamPagina = Marco(p, Pag(d)) /\ Fisica(p, d) % TamPagina = d % TamPagina
      /\ d = Pag(d) * TamPagina + (d % TamPagina) /\ Pag(d) \in Paginas(p)
  BY <1>1
<1>2. Fisica(p, d) \in 0..(TamMemoria - 1)
  <2>. DEFINE f == Marco(p, Pag(d))
              o == d % TamPagina
  <2>1. f \in Nat /\ f < TamMemoria \div TamPagina /\ o \in 0..(TamPagina - 1)
        /\ Fisica(p, d) = f * TamPagina + o
    BY <1>4
  <2>. HIDE DEF f, o
  <2>2. f * TamPagina + o \in 0..(TamMemoria - 1)
    BY <2>1, TamanosAssumption, MarcoCabe
  <2>. QED  BY <2>1, <2>2
<1>3. ASSUME NEW q \in Admitidas, NEW e \in 0..(q.tamanio - 1), Marco(q, Pag(e)) # -1,
             Fisica(q, e) = Fisica(p, d)
      PROVE  p = q /\ d = e
  <2>1. /\ Fisica(q, e) \div TamPagina = Marco(q, Pag(e)) /\ Fisica(q, e) % TamPagina = e % TamPagina
        /\ e = Pag(e) * TamPagina + (e % TamPagina) /\ Pag(e) \in Paginas(q)
    BY <1>1, <1>3
  <2>2. Marco(q, Pag(e)) = Marco(p, Pag(d)) /\ e % TamPagina = d % TamPagina
    BY <1>3, <1>4, <2>1
  <2>3. p = q /\ Pag(d) = Pag(e)
    BY <1>4, <2>1, <2>2, MarcoPropio
  <2>. QED  BY <1>3, <1>4, <2>1, <2>2, <2>3
<1>. QED  BY <1>2, <1>3, <1>4

\* The bytes of an access follow one another in memory too.
LEMMA FisicaBytes ==
    ASSUME InvR, InvK, TablasOK, MarcosOK, NEW p \in Admitidas, NEW d, Dentro(p, d),
           Marco(p, Pag(d)) # -1, NEW k \in 0..3
    PROVE  /\ Fisica(p, d + k) = Fisica(p, d) + k /\ Marco(p, Pag(d + k)) # -1
           /\ d + k \in 0..(p.tamanio - 1) /\ d \in Nat /\ Fisica(p, d) \in 0..(TamMemoria - 1)
<1>1. p.tamanio \in Nat
  BY AdmitidasHechas, DeUnPrograma
<1>2. /\ d + k \in 0..(p.tamanio - 1) /\ Pag(d + k) = Pag(d) /\ d \in 0..(p.tamanio - 1)
      /\ (d + k) % TamPagina = (d % TamPagina) + k
  BY <1>1, BytesDentro
<1>3. /\ Fisica(p, d + k) = Marco(p, Pag(d + k)) * TamPagina + ((d + k) % TamPagina)
      /\ Fisica(p, d) = Marco(p, Pag(d)) * TamPagina + (d % TamPagina)
      /\ Fisica(p, d) \in 0..(TamMemoria - 1)
  BY <1>2, FisicaDe
<1>4. Marco(p, Pag(d)) \in Nat /\ d % TamPagina \in Nat /\ d \in Nat
  <2>1. Pag(d) \in Paginas(p) /\ d \in Nat
    BY <1>2 DEF Paginas
  <2>. QED  BY <2>1, MarcoPropio, TamanosAssumption, Cociente
<1>5. Marco(p, Pag(d)) * TamPagina \in Nat
  BY <1>4, TamanosAssumption
<1>. QED  BY <1>2, <1>3, <1>4, <1>5

-----------------------------------------------------------------------------
(* What the tables are after each step.                                    *)

\* The frames of the pages are as they were.
MarcosQuietos ==
    \A p \in Admitidas : \A n \in Paginas(p) : Indice(p, n)' = Indice(p, n) /\ Marco(p, n)' = Marco(p, n)

\* Without new tables or frames each page has the frame it had.
LEMMA TablasQuietas ==
    ASSUME UNCHANGED <<tablas1, tablas2>>
    PROVE  \A p, n : Indice(p, n)' = Indice(p, n) /\ Marco(p, n)' = Marco(p, n)
  BY DEF Indice, Marco

LEMMA PasoQuietoT ==
    ASSUME TablasOK, MarcosOK, UNCHANGED <<tablas1, tablas2, marcos>>,
           DOMAIN usuario' = DOMAIN usuario, Admitidas' = Admitidas
    PROVE  TablasOK' /\ MarcosOK'
<1>1. TablasOK'
  BY DEF TablasOK
<1>2. MarcosOK'
  BY DEF MarcosOK, Tomado
<1>. QED  BY <1>1, <1>2

\* Executing instructions changes no table: only the program counter of the process.
LEMMA PasoInstruccionT ==
    ASSUME InvK, UnaVez, TablasOK, MarcosOK, DeMemoriaOK,
           Ejecutar \/ RecibirLectura \/ RecibirEscritura
    PROVE  TablasOK' /\ MarcosOK'
<1>1. /\ pcb'.tabla = pcb.tabla /\ pcb'.tamanio = pcb.tamanio
      /\ UNCHANGED <<tablas1, tablas2, marcos, usuario>>
  BY TrasInstruccion
<1>2. Admitidas' = (Admitidas \ {pcb}) \cup {pcb'} /\ pcb \in Admitidas
  <2>1. EnExec = {pcb}
    BY DondeExec, TrasInstruccion
  <2>. QED  BY <2>1, PasoInstruccionU DEF Admitidas
<1>3. TablasOK'
  BY <1>1, <1>2 DEF TablasOK
<1>4. MarcosOK'
  BY <1>1 DEF MarcosOK, Tomado
<1>. QED  BY <1>3, <1>4

TablaDe == [pid : Nat, marcos : [1..EntradasPorTabla -> Nat \cup {-1}]]

\* The tables of a size are a number of them.
LEMMA CuantasTablas ==
    ASSUME NEW tam \in Nat
    PROVE  Tp2Proceso(PagsProceso(tam, TamPagina), EntradasPorTabla) \in Nat
<1>1. PagsProceso(tam, TamPagina) \in Nat
  <2>1. Techo(tam, TamPagina) \in Nat
    BY TamanosAssumption, TechoCubre
  <2>. QED  BY <2>1 DEF PagsProceso
<1>. QED  BY <1>1, TamanosAssumption, TechoCubre DEF Tp2Proceso

\* The tables of a process that is admitted come after those there are, with no frame.
LEMMA AdmitirTablas ==
    ASSUME InvR, InvK, UnaVez, TablasOK, Admitir
    PROVE  LET p == Last(colaNew)
               N == Tp2Proceso(PagsProceso(p.tamanio, TamPagina), EntradasPorTabla)
               n1 == Len(tablas1)
               L == Len(tablas2)
           IN  /\ N \in Nat /\ n1 \in Nat /\ L \in Nat /\ p.tamanio \in Nat
               /\ tablas1' \in Seq(Seq(Nat)) /\ DOMAIN tablas1 = 1..n1
               /\ DOMAIN tablas1' = 1..(n1 + 1) /\ Len(tablas1') = n1 + 1
               /\ \A i \in 1..n1 : tablas1'[i] = tablas1[i]
               /\ Len(tablas1'[n1 + 1]) = N /\ DOMAIN tablas1'[n1 + 1] = 1..N
               /\ \A j \in 1..N : tablas1'[n1 + 1][j] = L + j - 1
               /\ tablas2' \in Seq(TablaDe) /\ DOMAIN tablas2 = 1..L
               /\ DOMAIN tablas2' = 1..(L + N) /\ Len(tablas2') = L + N
               /\ \A i \in 1..L : tablas2'[i] = tablas2[i]
               /\ \A i \in (L + 1)..(L + N) : \A e \in 1..EntradasPorTabla :
                    tablas2'[i].marcos[e] = -1
<1>. DEFINE p == Last(colaNew)
            N == Tp2Proceso(PagsProceso(p.tamanio, TamPagina), EntradasPorTabla)
            n1 == Len(tablas1)
            L == Len(tablas2)
            nueva == [i \in 1..N |-> L + i - 1]
            r == [pid |-> p.id, marcos |-> [e \in 1..EntradasPorTabla |-> -1]]
            nuevas == [i \in 1..N |-> r]
<1>1. p \in Vivas
  BY PasoAdmitirU
<1>2. p.tamanio \in Nat /\ p.id \in Nat
  <2>1. p \in Hechas
    BY <1>1 DEF Vivas
  <2>. HIDE DEF p
  <2>. QED  BY <2>1, DeUnPrograma DEF Pcbs
<1>3. N \in Nat
  BY <1>2, CuantasTablas
<1>4. tablas1' = Append(tablas1, nueva) /\ tablas2' = tablas2 \o nuevas
  BY DEF Admitir
<1>5. tablas1 \in Seq(Seq(Nat)) /\ tablas2 \in Seq(TablaDe) /\ n1 \in Nat /\ L \in Nat
  BY DEF TablasOK, TablaDe
<1>6. r \in TablaDe /\ \A e \in 1..EntradasPorTabla : r.marcos[e] = -1
  BY <1>2 DEF TablaDe
<1>. HIDE DEF p, N, r, n1, L
<1>7. nueva \in Seq(Nat) /\ Len(nueva) = N /\ DOMAIN nueva = 1..N
      /\ \A j \in 1..N : nueva[j] = L + j - 1
  BY <1>3, <1>5
<1>8. nuevas \in Seq(TablaDe) /\ Len(nuevas) = N /\ \A j \in 1..N : nuevas[j] = r
  BY <1>3, <1>6
<1>. HIDE DEF nueva, nuevas
<1>9. /\ tablas1' \in Seq(Seq(Nat)) /\ Len(tablas1') = n1 + 1 /\ tablas1'[n1 + 1] = nueva
      /\ \A i \in 1..n1 : tablas1'[i] = tablas1[i]
  BY <1>4, <1>5, <1>7, AppendProperties DEF n1
<1>10. /\ tablas2' \in Seq(TablaDe) /\ Len(tablas2') = L + N
       /\ \A i \in 1..(L + N) : tablas2'[i] = IF i <= L THEN tablas2[i] ELSE nuevas[i - L]
  BY <1>4, <1>5, <1>8, ConcatProperties DEF L
<1>11. \A i \in 1..L : tablas2'[i] = tablas2[i]
  BY <1>3, <1>5, <1>10
<1>12. ASSUME NEW i \in (L + 1)..(L + N)
       PROVE  tablas2'[i] = r
  <2>1. i - L \in 1..N /\ i \in 1..(L + N) /\ ~ (i <= L)
    BY <1>3, <1>5
  <2>2. tablas2'[i] = nuevas[i - L]
    BY <1>10, <2>1
  <2>. QED  BY <1>8, <2>1, <2>2
<1>13. DOMAIN tablas1 = 1..n1 /\ DOMAIN tablas2 = 1..L
  BY <1>5 DEF n1, L
<1>14. DOMAIN tablas1' = 1..(n1 + 1) /\ DOMAIN tablas2' = 1..(L + N)
  BY <1>9, <1>10
<1>15. \A i \in (L + 1)..(L + N) : \A e \in 1..EntradasPorTabla : tablas2'[i].marcos[e] = -1
  BY <1>6, <1>12
<1>. QED  BY <1>2, <1>3, <1>5, <1>7, <1>9, <1>10, <1>11, <1>13, <1>14, <1>15 DEF p, N, n1, L

\* The tables of the process admitted are new ones, and no page of it has a frame.
LEMMA PasoAdmitirT ==
    ASSUME InvR, InvK, UnaVez, TablasOK, MarcosOK, Admitir,
           NEW q, q = [Last(colaNew) EXCEPT !.tabla = Len(tablas1)]
    PROVE  /\ TablasOK' /\ MarcosOK' /\ MarcosQuietos
           /\ \A n \in Paginas(q) : Marco(q, n)' = -1
<1>. DEFINE p == Last(colaNew)
            N == Tp2Proceso(PagsProceso(p.tamanio, TamPagina), EntradasPorTabla)
            n1 == Len(tablas1)
            L == Len(tablas2)
<1>1. /\ N \in Nat /\ n1 \in Nat /\ L \in Nat /\ p.tamanio \in Nat
      /\ tablas1' \in Seq(Seq(Nat)) /\ DOMAIN tablas1 = 1..n1
      /\ DOMAIN tablas1' = 1..(n1 + 1) /\ Len(tablas1') = n1 + 1
      /\ \A i \in 1..n1 : tablas1'[i] = tablas1[i]
      /\ Len(tablas1'[n1 + 1]) = N /\ DOMAIN tablas1'[n1 + 1] = 1..N
      /\ \A j \in 1..N : tablas1'[n1 + 1][j] = L + j - 1
  BY AdmitirTablas
<1>2. /\ tablas2' \in Seq(TablaDe) /\ DOMAIN tablas2 = 1..L
      /\ DOMAIN tablas2' = 1..(L + N) /\ Len(tablas2') = L + N
      /\ \A i \in 1..L : tablas2'[i] = tablas2[i]
      /\ \A i \in (L + 1)..(L + N) : \A e \in 1..EntradasPorTabla : tablas2'[i].marcos[e] = -1
  BY AdmitirTablas
<1>3. /\ q.tabla = n1 /\ q.tamanio = p.tamanio /\ Admitidas' = Admitidas \cup {q}
  BY PasoAdmitirU
<1>4. UNCHANGED <<marcos, usuario>>
  BY DEF Admitir
<1>5. \A r \in Admitidas : r.tabla \in Nat
  BY AdmitidasHechas, DeUnPrograma DEF Pcbs
<1>6. /\ \A i, k \in 1..n1 : \A j \in DOMAIN tablas1[i], l \in DOMAIN tablas1[k] :
           /\ tablas1[i][j] < L
           /\ tablas1[i][j] = tablas1[k][l] => i = k /\ j = l
      /\ \A i \in 1..n1 : \A j \in DOMAIN tablas1[i] : tablas1[i][j] \in Nat
      /\ \A r \in Admitidas :
           /\ r.tabla < n1
           /\ Len(tablas1[r.tabla + 1])
                = Tp2Proceso(PagsProceso(r.tamanio, TamPagina), EntradasPorTabla)
      /\ \A r, s \in Admitidas : r.tabla = s.tabla => r = s
  <2>1. tablas1 \in Seq(Seq(Nat))
    BY DEF TablasOK
  <2>2. ASSUME NEW i \in 1..n1, NEW j \in DOMAIN tablas1[i]
        PROVE  tablas1[i][j] \in Nat
    <3>1. tablas1[i] \in Seq(Nat)
      BY <2>1
    <3>. QED  BY <3>1
  <2>3. \A i, k \in DOMAIN tablas1 : \A j \in DOMAIN tablas1[i], l \in DOMAIN tablas1[k] :
           /\ tablas1[i][j] < L
           /\ tablas1[i][j] = tablas1[k][l] => i = k /\ j = l
    BY DEF TablasOK
  <2>4. /\ \A r \in Admitidas :
             /\ r.tabla < n1
             /\ Len(tablas1[r.tabla + 1])
                  = Tp2Proceso(PagsProceso(r.tamanio, TamPagina), EntradasPorTabla)
        /\ \A r, s \in Admitidas : r.tabla = s.tabla => r = s
    BY DEF TablasOK
  <2>. QED  BY <1>1, <2>2, <2>3, <2>4
<1>. HIDE DEF p, N, n1, L
<1>11. N \in Nat /\ n1 \in Nat /\ L \in Nat
  BY <1>1
<1>7. TablasOK'
  <2>1. ASSUME NEW i \in 1..(n1 + 1), NEW k \in 1..(n1 + 1),
               NEW j \in DOMAIN tablas1'[i], NEW l \in DOMAIN tablas1'[k]
        PROVE  /\ tablas1'[i][j] < L + N
               /\ tablas1'[i][j] = tablas1'[k][l] => i = k /\ j = l
    <3>1. \A x \in 1..(n1 + 1) : x = n1 + 1 \/ x \in 1..n1
      BY <1>1
    <3>2. CASE i \in 1..n1 /\ k \in 1..n1
      <4>1. tablas1[i][j] < L /\ tablas1[i][j] \in Nat
            /\ (tablas1[i][j] = tablas1[k][l] => i = k /\ j = l)
        BY <1>1, <1>6, <3>2
      <4>2. tablas1'[i][j] = tablas1[i][j] /\ tablas1'[k][l] = tablas1[k][l]
        BY <1>1, <3>2
      <4>. QED  BY <1>11, <4>1, <4>2
    <3>3. CASE i = n1 + 1 /\ k = n1 + 1
      <4>1. j \in 1..N /\ l \in 1..N /\ tablas1'[i][j] = L + j - 1 /\ tablas1'[k][l] = L + l - 1
        BY <1>1, <3>3
      <4>. QED  BY <1>11, <3>3, <4>1
    <3>4. CASE i \in 1..n1 /\ k = n1 + 1
      <4>1. tablas1'[i][j] < L /\ tablas1'[i][j] \in Nat
        BY <1>1, <1>6, <3>4
      <4>2. l \in 1..N /\ tablas1'[k][l] = L + l - 1
        BY <1>1, <3>4
      <4>. QED  BY <1>11, <4>1, <4>2
    <3>5. CASE i = n1 + 1 /\ k \in 1..n1
      <4>1. tablas1'[k][l] < L /\ tablas1'[k][l] \in Nat
        BY <1>1, <1>6, <3>5
      <4>2. j \in 1..N /\ tablas1'[i][j] = L + j - 1
        BY <1>1, <3>5
      <4>. QED  BY <1>11, <4>1, <4>2
    <3>. QED  BY <3>1, <3>2, <3>3, <3>4, <3>5
  <2>2. ASSUME NEW r \in Admitidas'
        PROVE  /\ r.tabla < n1 + 1
               /\ Len(tablas1'[r.tabla + 1])
                    = Tp2Proceso(PagsProceso(r.tamanio, TamPagina), EntradasPorTabla)
    <3>1. CASE r \in Admitidas
      <4>1. r.tabla + 1 \in 1..n1 /\ r.tabla < n1 + 1
        BY <1>1, <1>5, <1>6, <3>1
      <4>. QED  BY <1>1, <1>6, <3>1, <4>1
    <3>2. CASE r = q
      BY <1>1, <1>3, <3>2 DEF N
    <3>. QED  BY <1>3, <3>1, <3>2
  <2>3. \A r, s \in Admitidas' : r.tabla = s.tabla => r = s
    <3>1. \A r \in Admitidas : r.tabla # n1
      BY <1>1, <1>5, <1>6
    <3>. QED  BY <1>3, <1>6, <3>1
  <2>4. \A i, k \in DOMAIN tablas1' : \A j \in DOMAIN tablas1'[i], l \in DOMAIN tablas1'[k] :
           /\ tablas1'[i][j] < Len(tablas2')
           /\ tablas1'[i][j] = tablas1'[k][l] => i = k /\ j = l
    BY <1>1, <1>2, <2>1
  <2>5. \A r \in Admitidas' :
           /\ r.tabla < Len(tablas1')
           /\ Len(tablas1'[r.tabla + 1])
                = Tp2Proceso(PagsProceso(r.tamanio, TamPagina), EntradasPorTabla)
    BY <1>1, <2>2
  <2>. QED  BY <1>1, <1>2, <2>3, <2>4, <2>5 DEF TablasOK, TablaDe
<1>8. MarcosOK'
  <2>1. /\ marcos \in [Marcos -> Nat \cup {-1}] /\ DOMAIN usuario = 0..(TamMemoria - 1)
        /\ \A t, u \in 1..L, e, f \in 1..EntradasPorTabla :
             /\ Tomado(tablas2[t].marcos[e])
             /\ tablas2[t].marcos[e] = tablas2[u].marcos[f] =>
                  tablas2[t].marcos[e] = -1 \/ (t = u /\ e = f)
    BY <1>2 DEF MarcosOK, Tomado
  <2>2. ASSUME NEW t \in 1..(L + N), NEW u \in 1..(L + N),
               NEW e \in 1..EntradasPorTabla, NEW f \in 1..EntradasPorTabla
        PROVE  /\ Tomado(tablas2'[t].marcos[e])
               /\ tablas2'[t].marcos[e] = tablas2'[u].marcos[f] =>
                    tablas2'[t].marcos[e] = -1 \/ (t = u /\ e = f)
    <3>1. \A x \in 1..(L + N) : x \in 1..L \/ x \in (L + 1)..(L + N)
      BY <1>1
    <3>2. Tomado(-1)
      BY DEF Tomado
    <3>3. CASE t \in (L + 1)..(L + N)
      BY <1>2, <3>2, <3>3
    <3>4. CASE t \in 1..L /\ u \in (L + 1)..(L + N)
      BY <1>2, <2>1, <3>4
    <3>5. CASE t \in 1..L /\ u \in 1..L
      BY <1>2, <2>1, <3>5
    <3>. QED  BY <3>1, <3>3, <3>4, <3>5
  <2>. QED  BY <1>2, <1>4, <2>1, <2>2 DEF MarcosOK, Tomado
<1>9. MarcosQuietos
  <2>1. ASSUME NEW r \in Admitidas, NEW n \in Paginas(r)
        PROVE  Indice(r, n)' = Indice(r, n) /\ Marco(r, n)' = Marco(r, n)
    <3>1. r.tabla + 1 \in 1..n1 /\ Indice(r, n) + 1 \in 1..L
      BY <1>1, <1>2, EntradaDe
    <3>2. Indice(r, n)' = Indice(r, n)
      BY <1>1, <3>1 DEF Indice
    <3>. QED  BY <1>2, <3>1, <3>2 DEF Marco
  <2>. QED  BY <2>1 DEF MarcosQuietos
<1>10. ASSUME NEW n \in Paginas(q)
       PROVE  Marco(q, n)' = -1
  <2>. DEFINE k == n \div EntradasPorTabla
              e == n % EntradasPorTabla
  <2>1. PICK d \in 0..(p.tamanio - 1) : n = d \div TamPagina
    BY <1>3 DEF Paginas, Pag, NumPagina, Config
  <2>2. n \in Nat /\ k \in 0..(N - 1)
    BY <1>1, <2>1, TamanosAssumption, HayTabla DEF N
  <2>3. e \in 0..(EntradasPorTabla - 1)
    BY <2>2, TamanosAssumption, Cociente
  <2>. HIDE DEF k, e
  <2>4. k + 1 \in 1..N /\ L + k + 1 \in (L + 1)..(L + N) /\ e + 1 \in 1..EntradasPorTabla
        /\ L + (k + 1) - 1 = L + k
    <3>1. ASSUME NEW a \in Nat, NEW b \in Nat, NEW x \in 0..(a - 1)
          PROVE  x + 1 \in 1..a /\ b + x + 1 \in (b + 1)..(b + a) /\ b + (x + 1) - 1 = b + x
      OBVIOUS
    <3>. QED  BY <1>11, <2>2, <2>3, <3>1, TamanosAssumption
  <2>5. tablas1'[q.tabla + 1][k + 1] = L + k
    BY <1>1, <1>3, <2>4
  <2>6. Indice(q, n)' = L + k
    BY <2>5 DEF Indice, k
  <2>7. tablas2'[L + k + 1].marcos[e + 1] = -1
    BY <1>2, <2>4
  <2>. QED  BY <2>6, <2>7 DEF Marco, e
<1>. QED  BY <1>7, <1>8, <1>9, <1>10 DEF p

\* The page of the address that is being translated.
LEMMA LogicaDe ==
    ASSUME InvR, InvK, UnaVez, en # "dispatch", DeMemoria, FisicasOK, Len(fisicas) < Len(Logicas),
           fisicas \in Seq(ToSet(fisicas))
    PROVE  /\ pcb \in Admitidas /\ Dentro(pcb, Logica) /\ Pag(Logica) \in Paginas(pcb)
           /\ pcb.tamanio \in Nat /\ Len(fisicas) + 1 \in 1..Len(Logicas)
<1>1. pcb \in Admitidas
  BY DondeExec DEF Admitidas
<1>2. pcb.tamanio \in Nat
  BY <1>1, AdmitidasHechas, DeUnPrograma
<1>3. Len(fisicas) + 1 \in 1..Len(Logicas)
  <2>1. Len(fisicas) \in Nat
    BY LenProperties
  <2>2. Len(Logicas) \in {1, 2}
    BY LogicasDentro
  <2>. QED  BY <2>1, <2>2
<1>4. Dentro(pcb, Logica)
  BY <1>3, LogicasDentro DEF Logica
<1>5. Pag(Logica) \in Paginas(pcb)
  BY <1>2, <1>4, BytesDentro
<1>. QED  BY <1>1, <1>2, <1>3, <1>4, <1>5

\* What the memory module is asked for, when it is asked for a frame.
LEMMA PidioMarco ==
    ASSUME InvC, FisicasOK, ContenidosOK, Llega(MARCO)
    PROVE  /\ en = "marco" /\ DeMemoria /\ Len(fisicas) < Len(Logicas)
           /\ fisicas \in Seq(ToSet(fisicas)) /\ respuestas = <<>> /\ pedidos' = <<>>
           /\ Campos(Pedido)[1] = Indice(pcb, Pag(Logica))
           /\ Campos(Pedido)[2] = Pag(Logica) % EntradasPorTabla
<1>1. en = "marco" /\ Pedida(MARCO)
  BY QuienPide
<1>2. Campos(Pedido) = Last(pedidos).v /\ pedidos # <<>> /\ respuestas = <<>> /\ pedidos' = <<>>
  BY <1>1, PedidaLlega DEF Pedida, Llega
<1>3. Campos(Pedido) = <<Indice(pcb, Pag(Logica)), EntradaTabla2(Config, Logica)>>
  BY <1>1, <1>2 DEF ContenidosOK
<1>4. EntradaTabla2(Config, Logica) = Pag(Logica) % EntradasPorTabla
  BY DEF EntradaTabla2, Pag, Config
<1>5. DeMemoria /\ Len(fisicas) < Len(Logicas) /\ fisicas \in Seq(ToSet(fisicas))
  BY <1>1 DEF FisicasOK, InvC, PedidosOK
<1>. QED  BY <1>1, <1>2, <1>3, <1>4, <1>5

\* The frame given to a page is one no page had, since those of the pages are marked.
LEMMA PasoMarcoT ==
    ASSUME InvR, InvK, InvC, UnaVez, TablasOK, MarcosOK, FisicasOK, ContenidosOK,
           MemMarco, Admitidas' = Admitidas
    PROVE  /\ TablasOK' /\ MarcosOK'
           /\ DOMAIN usuario' = DOMAIN usuario
           /\ \/ /\ MarcosQuietos /\ \A d \in DOMAIN usuario : usuario'[d] = usuario[d]
                 /\ \/ respuestas' = <<>> /\ caida' # "no"
                    \/ /\ Marco(pcb, Pag(Logica)) # -1
                       /\ respuestas' = Paquete(MARCO, <<Marco(pcb, Pag(Logica))>>)
              \/ /\ Marco(pcb, Pag(Logica)) = -1
                 /\ PrimerLibre \in Nat /\ PrimerLibre < TamMemoria \div TamPagina
                 /\ marcos[PrimerLibre] = -1
                 /\ respuestas' = Paquete(MARCO, <<PrimerLibre>>)
                 /\ \A p \in Admitidas : \A n \in Paginas(p) :
                      /\ Indice(p, n)' = Indice(p, n)
                      /\ Marco(p, n)' = IF p = pcb /\ n = Pag(Logica) THEN PrimerLibre
                                        ELSE Marco(p, n)
                 /\ \A d \in DOMAIN usuario :
                      usuario'[d] = IF d \div TamPagina = PrimerLibre THEN 0 ELSE usuario[d]
<1>. DEFINE n0 == Pag(Logica)
            v == Campos(Pedido)
            a == v[1] + 1
            b == v[2] + 1
            t == tablas2[a]
            suyo == t.marcos[b]
            marco == IF suyo = -1 THEN PrimerLibre ELSE suyo
            nulo == IF t.pid >= contadores THEN "contador_pid"
                    ELSE IF Libres = {} THEN "marcos" ELSE "no"
<1>1. Llega(MARCO) /\ tablas1' = tablas1
  BY DEF MemMarco
<1>2. /\ en = "marco" /\ DeMemoria /\ Len(fisicas) < Len(Logicas)
      /\ fisicas \in Seq(ToSet(fisicas)) /\ respuestas = <<>>
      /\ v[1] = Indice(pcb, n0) /\ v[2] = n0 % EntradasPorTabla
  BY <1>1, PidioMarco
<1>3. pcb \in Admitidas /\ n0 \in Paginas(pcb)
  BY <1>2, LogicaDe
<1>4. a \in DOMAIN tablas2 /\ b \in 1..EntradasPorTabla /\ suyo = Marco(pcb, n0)
      /\ suyo \in Nat \cup {-1}
  BY <1>2, <1>3, EntradaDe DEF Marco
<1>5. \/ /\ suyo = -1 /\ nulo # "no" /\ caida' = nulo
         /\ UNCHANGED <<respuestas, tablas2, marcos, usuario>>
      \/ /\ suyo # -1 \/ nulo = "no"
         /\ respuestas' = respuestas \o Paquete(MARCO, <<marco>>)
         /\ tablas2' = [tablas2 EXCEPT ![a].marcos[b] = marco]
         /\ marcos' = IF suyo = -1 THEN [marcos EXCEPT ![marco] = t.pid] ELSE marcos
         /\ usuario' = [d \in DOMAIN usuario |->
                IF suyo = -1 /\ d \div TamPagina = marco THEN 0 ELSE usuario[d]]
  BY Zenon DEF MemMarco
<1>6. /\ tablas2 \in Seq(TablaDe) /\ Len(tablas2) \in Nat
      /\ \A i \in DOMAIN tablas2 : tablas2[i] \in TablaDe
  <2>1. tablas2 \in Seq(TablaDe)
    BY DEF TablasOK, TablaDe
  <2>. QED  BY <2>1, ElementOfSeq, LenProperties
<1>7. /\ marcos \in [Marcos -> Nat \cup {-1}] /\ DOMAIN usuario = 0..(TamMemoria - 1)
      /\ t.pid \in Nat
  BY <1>4, <1>6 DEF MarcosOK, TablaDe
<1>8. /\ \A i, k \in DOMAIN tablas1 : \A j \in DOMAIN tablas1[i], l \in DOMAIN tablas1[k] :
           /\ tablas1[i][j] < Len(tablas2)
           /\ tablas1[i][j] = tablas1[k][l] => i = k /\ j = l
      /\ \A p \in Admitidas :
           /\ p.tabla < Len(tablas1)
           /\ Len(tablas1[p.tabla + 1])
                = Tp2Proceso(PagsProceso(p.tamanio, TamPagina), EntradasPorTabla)
      /\ \A p, q \in Admitidas : p.tabla = q.tabla => p = q
      /\ tablas1 \in Seq(Seq(Nat))
  BY DEF TablasOK
<1>9. \A t0, u \in DOMAIN tablas2, e, f \in 1..EntradasPorTabla :
         /\ Tomado(tablas2[t0].marcos[e])
         /\ tablas2[t0].marcos[e] = tablas2[u].marcos[f] =>
              tablas2[t0].marcos[e] = -1 \/ (t0 = u /\ e = f)
  BY DEF MarcosOK, Tomado
<1>10. -1 \notin Nat /\ 0 # -1
  OBVIOUS
<1>. HIDE DEF n0, a, b, t, suyo, marco, nulo
<1>11. CASE UNCHANGED <<tablas2, marcos, usuario, respuestas>> /\ caida' # "no"
  <2>1. TablasOK' /\ MarcosOK'
    BY <1>1, <1>11, PasoQuietoT
  <2>2. MarcosQuietos
    BY <1>1, <1>11, TablasQuietas DEF MarcosQuietos
  <2>. QED  BY <1>2, <1>11, <2>1, <2>2
<1>12. ASSUME marco \in Nat, tablas2' = [tablas2 EXCEPT ![a].marcos[b] = marco]
       PROVE  /\ tablas2' \in Seq(TablaDe) /\ DOMAIN tablas2' = DOMAIN tablas2
              /\ Len(tablas2') = Len(tablas2)
              /\ \A i \in DOMAIN tablas2 : \A e \in 1..EntradasPorTabla :
                   tablas2'[i].marcos[e] = IF i = a /\ e = b THEN marco ELSE tablas2[i].marcos[e]
  <2>1. tablas2[a] \in TablaDe
    BY <1>4, <1>6
  <2>2. DOMAIN tablas2 = 1..Len(tablas2)
    BY <1>6
  <2>. DEFINE x == [tablas2[a] EXCEPT !.marcos[b] = marco]
  <2>3. x \in TablaDe /\ \A e \in 1..EntradasPorTabla :
          x.marcos[e] = IF e = b THEN marco ELSE tablas2[a].marcos[e]
    BY <1>4, <1>12, <2>1 DEF TablaDe
  <2>4. tablas2' = [tablas2 EXCEPT ![a] = x]
    BY <1>12
  <2>. HIDE DEF x
  <2>5. DOMAIN tablas2' = DOMAIN tablas2 /\ tablas2' \in Seq(TablaDe)
    BY <1>4, <1>6, <2>2, <2>3, <2>4, ExceptSeq
  <2>6. Len(tablas2') = Len(tablas2)
    BY <1>4, <1>6, <2>2, <2>3, <2>4, ExceptSeq
  <2>7. \A i \in DOMAIN tablas2 : tablas2'[i] = IF i = a THEN x ELSE tablas2[i]
    BY <2>4
  <2>. QED  BY <2>3, <2>5, <2>6, <2>7
<1>13. ASSUME tablas2' \in Seq(TablaDe), DOMAIN tablas2' = DOMAIN tablas2,
              Len(tablas2') = Len(tablas2)
       PROVE  TablasOK'
  BY <1>1, <1>8, <1>13 DEF TablasOK, TablaDe
<1>14. \A p, n : Indice(p, n)' = Indice(p, n)
  BY <1>1 DEF Indice
<1>15. CASE /\ suyo # -1 /\ respuestas' = respuestas \o Paquete(MARCO, <<marco>>)
            /\ tablas2' = [tablas2 EXCEPT ![a].marcos[b] = marco]
            /\ marcos' = marcos
            /\ usuario' = [d \in DOMAIN usuario |-> usuario[d]]
  <2>1. marco = suyo /\ marco \in Nat
    BY <1>4, <1>15 DEF marco
  <2>2. \A i \in DOMAIN tablas2 : \A e \in 1..EntradasPorTabla :
          tablas2'[i].marcos[e] = tablas2[i].marcos[e]
    BY <1>12, <1>15, <2>1 DEF suyo, t
  <2>3. TablasOK' /\ DOMAIN tablas2' = DOMAIN tablas2
    BY <1>12, <1>13, <1>15, <2>1
  <2>4. MarcosOK'
    BY <1>7, <1>9, <1>15, <2>2, <2>3 DEF MarcosOK, Tomado
  <2>5. ASSUME NEW p \in Admitidas, NEW n \in Paginas(p)
        PROVE  Marco(p, n)' = Marco(p, n)
    <3>1. Indice(p, n) + 1 \in DOMAIN tablas2 /\ (n % EntradasPorTabla) + 1 \in 1..EntradasPorTabla
      BY EntradaDe
    <3>. QED  BY <1>14, <2>2, <3>1 DEF Marco
  <2>6. MarcosQuietos
    BY <1>14, <2>5 DEF MarcosQuietos
  <2>7. respuestas' = Paquete(MARCO, <<Marco(pcb, n0)>>) /\ Marco(pcb, n0) # -1
    BY <1>2, <1>4, <1>15, <2>1, EnVacio
  <2>. QED  BY <1>15, <2>3, <2>4, <2>6, <2>7 DEF n0
<1>16. CASE /\ suyo = -1 /\ nulo = "no" /\ respuestas' = respuestas \o Paquete(MARCO, <<marco>>)
            /\ tablas2' = [tablas2 EXCEPT ![a].marcos[b] = marco]
            /\ marcos' = [marcos EXCEPT ![marco] = t.pid]
            /\ usuario' = [d \in DOMAIN usuario |->
                             IF d \div TamPagina = marco THEN 0 ELSE usuario[d]]
  <2>2. /\ PrimerLibre \in Marcos /\ marcos[PrimerLibre] = -1
        /\ PrimerLibre \in Nat /\ PrimerLibre < TamMemoria \div TamPagina
    BY <1>16, HayLibre DEF nulo
  <2>1. marco = PrimerLibre /\ marco \in Nat
    BY <1>16, <2>2 DEF marco
  <2>3. \A i \in DOMAIN tablas2 : \A e \in 1..EntradasPorTabla :
          tablas2'[i].marcos[e] = IF i = a /\ e = b THEN PrimerLibre ELSE tablas2[i].marcos[e]
    BY <1>12, <1>16, <2>1
  <2>4. TablasOK' /\ DOMAIN tablas2' = DOMAIN tablas2
    BY <1>12, <1>13, <1>16, <2>1
  <2>5. ASSUME NEW i \in DOMAIN tablas2, NEW e \in 1..EntradasPorTabla
        PROVE  /\ tablas2[i].marcos[e] # PrimerLibre
               /\ tablas2'[i].marcos[e] # -1 =>
                    /\ tablas2'[i].marcos[e] \in Marcos
                    /\ marcos'[tablas2'[i].marcos[e]] # -1
    <3>1. ASSUME NEW m, Tomado(m)
          PROVE  m # PrimerLibre /\ (m # -1 => m \in Marcos /\ marcos'[m] # -1)
      BY <1>7, <1>16, <2>1, <2>2, <3>1 DEF Tomado
    <3>2. marcos'[PrimerLibre] # -1
      BY <1>7, <1>16, <2>1, <2>2
    <3>3. Tomado(tablas2[i].marcos[e])
      BY <1>9
    <3>4. tablas2'[i].marcos[e] \in {PrimerLibre, tablas2[i].marcos[e]}
      BY <2>3
    <3>. QED  BY <2>2, <3>1, <3>2, <3>3, <3>4
  <2>6. ASSUME NEW i \in DOMAIN tablas2, NEW u \in DOMAIN tablas2,
               NEW e \in 1..EntradasPorTabla, NEW f \in 1..EntradasPorTabla
        PROVE  tablas2'[i].marcos[e] = tablas2'[u].marcos[f] =>
                 tablas2'[i].marcos[e] = -1 \/ (i = u /\ e = f)
    <3>1. tablas2[i].marcos[e] # PrimerLibre /\ tablas2[u].marcos[f] # PrimerLibre
      BY <2>5
    <3>2. /\ tablas2'[i].marcos[e] = IF i = a /\ e = b THEN PrimerLibre ELSE tablas2[i].marcos[e]
          /\ tablas2'[u].marcos[f] = IF u = a /\ f = b THEN PrimerLibre ELSE tablas2[u].marcos[f]
      BY <2>3
    <3>3. tablas2[i].marcos[e] = tablas2[u].marcos[f] =>
            tablas2[i].marcos[e] = -1 \/ (i = u /\ e = f)
      BY <1>9
    <3>. QED  BY <3>1, <3>2, <3>3
  <2>7. MarcosOK'
    <3>1. marcos' \in [Marcos -> Nat \cup {-1}] /\ DOMAIN usuario' = 0..(TamMemoria - 1)
      BY <1>7, <1>16
    <3>. QED  BY <2>4, <2>5, <2>6, <3>1 DEF MarcosOK, Tomado, Marcos
  <2>8. ASSUME NEW p \in Admitidas, NEW n \in Paginas(p)
        PROVE  Marco(p, n)' = IF p = pcb /\ n = n0 THEN PrimerLibre ELSE Marco(p, n)
    <3>1. /\ Indice(p, n) + 1 \in DOMAIN tablas2 /\ Indice(p, n) \in Nat /\ n \in Nat
          /\ (n % EntradasPorTabla) + 1 \in 1..EntradasPorTabla
      BY EntradaDe
    <3>2. /\ Indice(pcb, n0) \in Nat /\ n0 \in Nat
      BY <1>3, EntradaDe
    <3>3. n % EntradasPorTabla \in Nat /\ n0 % EntradasPorTabla \in Nat
      BY <3>1, <3>2, TamanosAssumption, Cociente
    <3>4. a = Indice(pcb, n0) + 1 /\ b = (n0 % EntradasPorTabla) + 1
      BY <1>2 DEF a, b
    <3>5. Indice(p, n) + 1 = a /\ (n % EntradasPorTabla) + 1 = b <=> p = pcb /\ n = n0
      <4>1. Indice(p, n) + 1 = a /\ (n % EntradasPorTabla) + 1 = b =>
              Indice(p, n) = Indice(pcb, n0) /\ n % EntradasPorTabla = n0 % EntradasPorTabla
        BY <3>1, <3>2, <3>3, <3>4
      <4>. QED  BY <1>3, <3>4, <4>1, EntradaPropia
    <3>. QED  BY <1>14, <2>3, <3>1, <3>5 DEF Marco
  <2>9. respuestas' = Paquete(MARCO, <<PrimerLibre>>) /\ Marco(pcb, n0) = -1
    BY <1>2, <1>4, <1>16, <2>1, EnVacio
  <2>10. DOMAIN usuario' = DOMAIN usuario /\ \A d \in DOMAIN usuario :
           usuario'[d] = IF d \div TamPagina = PrimerLibre THEN 0 ELSE usuario[d]
    BY <1>16, <2>1
  <2>. QED  BY <1>7, <1>14, <2>2, <2>4, <2>7, <2>8, <2>9, <2>10 DEF n0
<1>. QED  BY <1>5, <1>11, <1>15, <1>16

-----------------------------------------------------------------------------
(* What the CPU has in hand after each step.                               *)

\* The parts of the invariant: processes and tables, what the CPU has in hand, what is read.
InvT == UnaVez /\ TablasOK /\ MarcosOK
InvP == FisicasOK /\ TlbOK /\ ContenidosOK

\* A page keeps its entry, and its frame once it has one.
MarcosQuedan ==
    \A p \in Admitidas : \A n \in Paginas(p) :
        /\ Indice(p, n)' = Indice(p, n)
        /\ Marco(p, n) # -1 => Marco(p, n)' = Marco(p, n)

\* What the CPU has in hand is as good as it was when it is left alone.
LEMMA QuietoP ==
    ASSUME InvR, InvK, FisicasOK, TlbOK, MarcosQuedan, Admitidas \subseteq Admitidas',
           UNCHANGED <<en, pcb, fisicas, tlb, ultimo_pid, saludo, configuracion>>
    PROVE  FisicasOK' /\ TlbOK'
<1>1. Logicas' = Logicas /\ DeMemoria' = DeMemoria /\ Instruccion' = Instruccion
  BY DEF Logicas, DeMemoria, Instruccion
<1>2. ASSUME en # "dispatch", DeMemoria, NEW i \in 1..Len(fisicas)
      PROVE  EnMemoria(pcb, Logicas[i], fisicas[i])'
  <2>1. PICK p, d, f : p = pcb /\ p = pcb' /\ d = Logicas[i] /\ d = Logicas'[i]
                       /\ f = fisicas[i] /\ f = fisicas'[i]
    BY <1>1
  <2>2. p \in Admitidas /\ p.tamanio \in Nat
    <3>1. pcb \in Admitidas
      BY <1>2, DondeExec DEF Admitidas
    <3>. QED  BY <2>1, <3>1, AdmitidasHechas, DeUnPrograma
  <2>3. i \in 1..Len(Logicas) /\ EnMemoria(pcb, Logicas[i], fisicas[i])
    <3>1. Len(fisicas) <= Len(Logicas) /\ EnMemoria(pcb, Logicas[i], fisicas[i])
      BY <1>2 DEF FisicasOK
    <3>2. Len(Logicas) \in {1, 2}
      BY <1>2, LogicasDentro
    <3>3. Len(fisicas) \in Nat \/ Len(fisicas) \notin Nat
      OBVIOUS
    <3>. QED  BY <3>1, <3>2
  <2>4. Dentro(p, d)
    BY <1>2, <2>1, <2>3, LogicasDentro
  <2>5. Pag(d) \in Paginas(p)
    BY <2>2, <2>4, BytesDentro
  <2>6. EnMemoria(p, d, f)
    BY <2>1, <2>3 DEF EnMemoria, Marco, Indice
  <2>7. Marco(p, Pag(d))' = Marco(p, Pag(d)) /\ Marco(p, Pag(d)) # -1
    BY <2>2, <2>5, <2>6 DEF EnMemoria, MarcosQuedan
  <2>8. Marco(p, Pag(d))' # -1 /\ f = DireccionFisica(Config, Marco(p, Pag(d))', d)
    BY <2>6, <2>7 DEF EnMemoria
  <2>. QED  BY <2>1, <2>8 DEF EnMemoria, Marco, Indice
<1>3. FisicasOK'
  BY <1>1, <1>2 DEF FisicasOK
<1>4. TlbOK'
  <2>. SUFFICES ASSUME tlb # {}
                PROVE  TlbOK'
    BY DEF TlbOK
  <2>1. PICK p \in Admitidas :
          /\ p.id = IF en = "dispatch" THEN ultimo_pid ELSE pcb.id
          /\ \A t \in tlb : t[1] \in Paginas(p) /\ Marco(p, t[1]) # -1 /\ t[2] = Marco(p, t[1])
    BY DEF TlbOK
  <2>2. \A n \in Paginas(p) : Marco(p, n) # -1 => Marco(p, n)' = Marco(p, n)
    BY DEF MarcosQuedan
  <2>3. ASSUME NEW t \in tlb
        PROVE  t[1] \in Paginas(p) /\ Marco(p, t[1])' # -1 /\ t[2] = Marco(p, t[1])'
    BY <2>1, <2>2, <2>3
  <2>. QED  BY <2>1, <2>3 DEF TlbOK
<1>. QED  BY <1>3, <1>4

\* A step that touches neither the streams of memory nor the CPU keeps what they say.
LEMMA QuietoContenidos ==
    ASSUME InvR, InvK, InvC, UnaVez, FisicasOK, ContenidosOK, MarcosQuedan,
           UNCHANGED <<en, pcb, fisicas, pedidos, respuestas>>
    PROVE  ContenidosOK'
<1>1. Logica' = Logica /\ Instruccion' = Instruccion
  BY DEF Logica, Logicas, Instruccion
<1>2. PICK p, n : p = pcb /\ p = pcb' /\ n = Pag(Logica)
  OBVIOUS
<1>3. Pag(Logica)' = n
  BY <1>1, <1>2 DEF Pag, Config
<1>4. ASSUME en \in {"tabla", "marco"}
      PROVE  /\ Indice(p, n)' = Indice(p, n)
             /\ Marco(p, n) # -1 => Marco(p, n)' = Marco(p, n)
  <2>1. DeMemoria /\ Len(fisicas) < Len(Logicas) /\ fisicas \in Seq(ToSet(fisicas))
    BY <1>4 DEF FisicasOK, InvC, PedidosOK
  <2>2. pcb \in Admitidas /\ Pag(Logica) \in Paginas(pcb)
    BY <1>4, <2>1, LogicaDe
  <2>. QED  BY <1>2, <2>2 DEF MarcosQuedan
<1>5. CASE en = "tabla"
  <2>1. respuestas # <<>> => Head(respuestas).v[1] = Indice(p, n)
    BY <1>2, <1>5 DEF ContenidosOK, Indice
  <2>2. respuestas # <<>> => Head(respuestas).v[1] = Indice(p, n)'
    BY <1>4, <1>5, <2>1
  <2>3. respuestas' # <<>> => Head(respuestas').v[1] = Indice(pcb, Pag(Logica))'
    BY <1>1, <1>2, <2>2 DEF Indice, Pag, Config
  <2>4. pedidos' # <<>> => Last(pedidos').v = <<pcb'.tabla, EntradaTabla1(Config, Logica')>>
    BY <1>1, <1>5 DEF ContenidosOK
  <2>. QED  BY <1>5, <2>3, <2>4 DEF ContenidosOK
<1>6. CASE en = "marco"
  <2>1. /\ pedidos # <<>> =>
             Last(pedidos).v = <<Indice(p, n), EntradaTabla2(Config, Logica)>>
        /\ respuestas # <<>> => Marco(p, n) # -1 /\ Last(respuestas).v = <<Marco(p, n)>>
    BY <1>2, <1>6 DEF ContenidosOK, Marco, Indice
  <2>2. /\ pedidos # <<>> =>
             Last(pedidos).v = <<Indice(p, n)', EntradaTabla2(Config, Logica)>>
        /\ respuestas # <<>> => Marco(p, n)' # -1 /\ Last(respuestas).v = <<Marco(p, n)'>>
    BY <1>4, <1>6, <2>1
  <2>3. /\ pedidos' # <<>> =>
             Last(pedidos').v = <<Indice(pcb, Pag(Logica))', EntradaTabla2(Config, Logica)'>>
        /\ respuestas' # <<>> => Marco(pcb, Pag(Logica))' # -1
              /\ Last(respuestas').v = <<Marco(pcb, Pag(Logica))'>>
    BY <1>1, <1>2, <2>2 DEF Marco, Indice, Pag, Config
  <2>. QED  BY <1>6, <2>3 DEF ContenidosOK
<1>7. CASE en \notin {"tabla", "marco"}
  BY <1>1, <1>7 DEF ContenidosOK
<1>. QED  BY <1>5, <1>6, <1>7

\* There is no request, nor an answer, of the main thread.
LEMMA SinContenidos ==
    ASSUME en' \in {"dispatch", "ciclo"}
    PROVE  ContenidosOK'
  BY DEF ContenidosOK

\* The steps that leave the tables, and the process that is in the CPU, alone.
LEMMA TablasQuedan ==
    ASSUME UNCHANGED <<tablas1, tablas2>>
    PROVE  MarcosQuedan /\ MarcosQuietos
  BY TablasQuietas DEF MarcosQuedan, MarcosQuietos

LEMMA QuietosQuedan ==
    ASSUME MarcosQuietos
    PROVE  MarcosQuedan
  BY DEF MarcosQuedan, MarcosQuietos

\* A step of the others leaves what the CPU has in hand as it was.
LEMMA PasoAjenoP ==
    ASSUME InvR, InvK, InvC, InvT, InvP, MarcosQuedan, Admitidas \subseteq Admitidas',
           UNCHANGED <<en, pcb, fisicas, tlb, ultimo_pid, saludo, configuracion, pedidos,
                       respuestas>>
    PROVE  InvP'
  BY QuietoP, QuietoContenidos DEF InvP, InvT

\* The CPU asks for the configuration and takes it, before it translates any address.
LEMMA PasoSaludoP ==
    ASSUME InvR, InvK, InvC, InvT, InvP, Saludo, Admitidas' = Admitidas
    PROVE  InvP'
<1>1. /\ UNCHANGED <<tablas1, tablas2, en, pcb, fisicas, tlb, ultimo_pid>>
      /\ saludo \in {"pedir", "esperar"}
  BY DEF Saludo, PedirHandshake, RecibirHandshake, hiloCpu, memoria
<1>2. en \in {"dispatch", "ciclo"}
  BY <1>1 DEF InvC, HandshakeOK
<1>3. ContenidosOK'
  BY <1>1, <1>2, SinContenidos
<1>4. saludo' = "fin" => configuracion' = Config
  <2>1. CASE PedirHandshake
    BY <2>1 DEF PedirHandshake
  <2>2. CASE RecibirHandshake
    <3>. DEFINE s == Esperada(respuestas, {PAQUETE})
    <3>1. /\ Entera(s) /\ saludo = "esperar"
          /\ configuracion' = [tam_pagina |-> Campos(s)[1], entradas |-> Campos(s)[2]]
      BY <2>2 DEF RecibirHandshake
    <3>2. respuestas # <<>>
      <4>1. \A j \in 1..Len(<<>>) : <<>>[j].cuerpo \/ <<>>[j].v[1] \notin {PAQUETE}
        OBVIOUS
      <4>2. Esperada(<<>>, {PAQUETE}) = <<>>
        BY <4>1, EsperadaNada
      <4>3. ~ Entera(<<>>)
        BY DEF Entera
      <4>. QED  BY <3>1, <4>2, <4>3
    <3>3. respuestas = Paquete(PAQUETE, <<TamPagina, EntradasPorTabla>>)
      BY <3>1, <3>2 DEF InvC, HandshakeOK
    <3>4. s = respuestas
      BY <3>3, EsperadaPaquete
    <3>5. Campos(s) = <<TamPagina, EntradasPorTabla>>
      BY <3>3, <3>4, PaqueteSolo
    <3>. QED  BY <3>1, <3>5 DEF Config
  <2>. QED  BY <2>1, <2>2 DEF Saludo
<1>5. FisicasOK' /\ TlbOK'
  <2>1. saludo # "fin"
    BY <1>1
  <2>2. Logicas' = Logicas /\ DeMemoria' = DeMemoria /\ Instruccion' = Instruccion
    BY <1>1 DEF Logicas, DeMemoria, Instruccion
  <2>3. fisicas = <<>>
    BY SMTT(30), <2>1 DEF InvC, HandshakeOK
  <2>4. TlbOK'
    BY <1>1 DEF InvP, TlbOK, Marco, Indice, Paginas, Pag, Config
  <2>5. 1..Len(fisicas) = {}
    BY <2>3
  <2>6. en # "dispatch" /\ DeMemoria => Len(fisicas) <= Len(Logicas)
    BY DEF InvP, FisicasOK
  <2>7. FisicasOK'
    BY <1>1, <1>2, <1>4, <2>2, <2>3, <2>5, <2>6 DEF FisicasOK
  <2>. QED  BY <2>4, <2>7
<1>. QED  BY <1>3, <1>5 DEF InvP

\* The CPU empties the TLB when the process it takes is not the last it had.
LEMMA PasoRecibirProcesoP ==
    ASSUME InvR, InvK, InvC, InvT, InvP, RecibirProceso
    PROVE  InvP'
<1>1. /\ en = "dispatch" /\ en' = "ciclo" /\ pcb' = Head(colaExec) /\ EnExec = {pcb'}
      /\ Admitidas' = Admitidas
  BY PasoRecibirProcesoU DEF InvT
<1>2. /\ UNCHANGED <<tablas1, tablas2, fisicas, saludo, configuracion, ultimo_pid>>
      /\ tlb' = TlbPara(pcb'.id)
  BY DEF RecibirProceso, memoria
<1>3. fisicas = <<>> /\ (saludo = "fin" => configuracion = Config)
  BY <1>1 DEF InvP, FisicasOK
<1>4. FisicasOK'
  <2>1. Len(Logicas') \in {1, 2}
    BY DEF Logicas
  <2>2. 1..Len(fisicas') = {} /\ Len(fisicas') = 0
    BY <1>2, <1>3
  <2>. QED  BY <1>1, <1>2, <1>3, <2>1, <2>2 DEF FisicasOK
<1>5. TlbOK'
  <2>. SUFFICES ASSUME tlb' # {}
                PROVE  TlbOK'
    BY DEF TlbOK
  <2>1. tlb' = tlb /\ ultimo_pid = pcb'.id
    BY <1>2 DEF TlbPara
  <2>2. PICK p \in Admitidas :
          /\ p.id = ultimo_pid
          /\ \A t \in tlb : t[1] \in Paginas(p) /\ Marco(p, t[1]) # -1 /\ t[2] = Marco(p, t[1])
    BY <1>1, <2>1 DEF InvP, TlbOK
  <2>3. \A n : Marco(p, n)' = Marco(p, n)
    BY <1>2, TablasQuietas
  <2>4. \A t \in tlb' : t[1] \in Paginas(p) /\ Marco(p, t[1])' # -1 /\ t[2] = Marco(p, t[1])'
    BY <2>1, <2>2, <2>3
  <2>. QED  BY <1>1, <2>1, <2>2, <2>4 DEF TlbOK
<1>. QED  BY <1>1, <1>4, <1>5, SinContenidos DEF InvP

\* After an instruction the addresses in hand are none.
LEMMA PasoFinP ==
    ASSUME InvR, InvK, InvC, InvT, InvP, Ejecutar \/ RecibirLectura \/ RecibirEscritura
    PROVE  InvP'
<1>. DeMemoriaOK
  BY DEF InvC
<1>1. /\ en \in {"ciclo", "lectura", "escritura"} /\ pcb \in Vivas
      /\ pcb'.id = pcb.id /\ pcb'.tabla = pcb.tabla /\ pcb'.tamanio = pcb.tamanio
      /\ fisicas' = <<>>
      /\ \/ en' = "dispatch" /\ ultimo_pid' = pcb.id
         \/ en' = "ciclo" /\ ultimo_pid' = ultimo_pid
      /\ UNCHANGED <<tablas1, tablas2, tlb, saludo, configuracion>>
  BY TrasInstruccion
<1>2. pcb \in Admitidas /\ pcb' \in Admitidas'
  <2>1. pcb \in Admitidas
    BY <1>1, DondeExec DEF Admitidas
  <2>. QED  BY <2>1, PasoInstruccionU DEF InvT
<1>3. FisicasOK'
  <2>1. saludo' = "fin" => configuracion' = Config
    BY <1>1 DEF InvP, FisicasOK
  <2>2. Len(Logicas') \in {1, 2}
    BY DEF Logicas
  <2>3. 1..Len(fisicas') = {} /\ Len(fisicas') = 0
    BY <1>1
  <2>. QED  BY <1>1, <2>1, <2>2, <2>3 DEF FisicasOK
<1>4. TlbOK'
  <2>. SUFFICES ASSUME tlb # {}
                PROVE  TlbOK'
    BY <1>1 DEF TlbOK
  <2>1. PICK p \in Admitidas :
          /\ p.id = pcb.id
          /\ \A t \in tlb : t[1] \in Paginas(p) /\ Marco(p, t[1]) # -1 /\ t[2] = Marco(p, t[1])
    BY <1>1 DEF InvP, TlbOK
  <2>2. p = pcb
    BY <1>2, <2>1, Unica DEF InvT
  <2>3. PICK q : q = pcb'
    OBVIOUS
  <2>4. Paginas(q) = Paginas(p) /\ \A n : Marco(q, n)' = Marco(p, n)
    BY <1>1, <2>2, <2>3 DEF Paginas, Marco, Indice
  <2>5. \A t \in tlb : t[1] \in Paginas(q) /\ Marco(q, t[1])' # -1 /\ t[2] = Marco(q, t[1])'
    BY <2>1, <2>4
  <2>6. q \in Admitidas' /\ q.id = IF en' = "dispatch" THEN ultimo_pid' ELSE pcb'.id
    BY <1>1, <1>2, <2>3
  <2>. QED  BY <1>1, <2>5, <2>6 DEF TlbOK
<1>. QED  BY <1>1, <1>3, <1>4, SinContenidos DEF InvP

\* One more address of the instruction is translated.
LEMMA Traducida ==
    ASSUME InvC, FisicasOK, en # "dispatch", DeMemoria, Len(fisicas) < Len(Logicas),
           NEW f, EnMemoria(pcb, Logica, f), fisicas' = Append(fisicas, f), en' = "ciclo",
           UNCHANGED <<pcb, tablas1, tablas2, saludo, configuracion>>
    PROVE  FisicasOK'
<1>1. /\ Logicas' = Logicas /\ DeMemoria' = DeMemoria /\ Instruccion' = Instruccion
      /\ Len(Logicas) \in {1, 2}
  BY DEF Logicas, DeMemoria, Instruccion
<1>2. /\ fisicas \in Seq(ToSet(fisicas)) /\ Len(fisicas) \in Nat
      /\ Len(fisicas') = Len(fisicas) + 1
  BY AppendPropio DEF InvC, PedidosOK
<1>3. \A i \in 1..Len(fisicas) : fisicas'[i] = fisicas[i]
  BY <1>2
<1>4. fisicas'[Len(fisicas) + 1] = f
  BY <1>2
<1>5. ASSUME NEW i \in 1..Len(fisicas')
      PROVE  EnMemoria(pcb, Logicas[i], fisicas'[i])
  <2>1. CASE i \in 1..Len(fisicas)
    <3>1. EnMemoria(pcb, Logicas[i], fisicas[i])
      BY <2>1 DEF FisicasOK
    <3>. QED  BY <1>3, <2>1, <3>1
  <2>2. CASE i = Len(fisicas) + 1
    BY <1>4, <2>2 DEF Logica
  <2>. QED  BY <1>2, <2>1, <2>2
<1>6. ASSUME NEW i \in 1..Len(fisicas')
      PROVE  EnMemoria(pcb, Logicas[i], fisicas[i])'
  BY <1>1, <1>5, <1>6 DEF EnMemoria, Marco, Indice, Pag, Config
<1>7. Len(fisicas') <= Len(Logicas')
  BY <1>1, <1>2
<1>8. saludo' = "fin" => configuracion' = Config
  BY DEF FisicasOK
<1>. QED  BY <1>1, <1>6, <1>7, <1>8 DEF FisicasOK

\* The frame in the TLB is that of the page.
LEMMA PasoAcertarP ==
    ASSUME InvR, InvK, InvC, InvT, InvP, Acertar, Admitidas' = Admitidas
    PROVE  InvP'
<1>1. /\ en = "ciclo" /\ DeMemoria /\ Len(fisicas) < Len(Logicas) /\ configuracion # <<>>
      /\ UNCHANGED <<tablas1, tablas2, en, pcb, tlb, ultimo_pid, saludo, configuracion>>
  BY DEF Acertar, PorTraducir, memoria
<1>2. PICK t \in tlb : /\ t[1] = NumPagina(configuracion, Logica)
                       /\ fisicas' = Append(fisicas, DireccionFisica(configuracion, t[2], Logica))
  BY DEF Acertar
<1>3. configuracion = Config
  BY <1>1, AntesDePedir DEF InvP, FisicasOK
<1>4. pcb \in Admitidas
  BY <1>1, DondeExec DEF Admitidas
<1>5. PICK p \in Admitidas :
        /\ p.id = pcb.id
        /\ \A u \in tlb : u[1] \in Paginas(p) /\ Marco(p, u[1]) # -1 /\ u[2] = Marco(p, u[1])
  BY <1>1, <1>2 DEF InvP, TlbOK
<1>6. p = pcb
  BY <1>4, <1>5, Unica DEF InvT
<1>7. t[1] = Pag(Logica) /\ Marco(pcb, Pag(Logica)) # -1 /\ t[2] = Marco(pcb, Pag(Logica))
  BY <1>2, <1>3, <1>5, <1>6 DEF Pag
<1>8. EnMemoria(pcb, Logica, DireccionFisica(configuracion, t[2], Logica))
  BY <1>3, <1>7 DEF EnMemoria
<1>9. FisicasOK'
  BY SMTT(30), <1>1, <1>2, <1>8, Traducida DEF InvP
<1>10. TlbOK'
  BY <1>1 DEF InvP, TlbOK, Marco, Indice, Paginas, Pag, Config
<1>. QED  BY <1>1, <1>9, <1>10, SinContenidos DEF InvP

\* The frame that memory answers is that of the page, and goes to the TLB.
LEMMA PasoRecibirMarcoP ==
    ASSUME InvR, InvK, InvC, InvT, InvP, RecibirMarco, Admitidas' = Admitidas
    PROVE  InvP'
<1>. DEFINE s == Esperada(respuestas, {MARCO})
            marco == Campos(s)[1]
            f == DireccionFisica(configuracion, marco, Logica)
<1>1. /\ en = "marco" /\ Entera(s) /\ en' = "ciclo"
      /\ tlb' = tlb \cup {<<NumPagina(configuracion, Logica), marco>>}
      /\ fisicas' = Append(fisicas, f)
      /\ UNCHANGED <<tablas1, tablas2, pcb, ultimo_pid, saludo, configuracion>>
  BY DEF RecibirMarco, memoria
<1>2. DeMemoria /\ Len(fisicas) < Len(Logicas) /\ fisicas \in Seq(ToSet(fisicas))
  BY <1>1 DEF InvP, FisicasOK, InvC, PedidosOK
<1>3. configuracion = Config
  <2>1. saludo = "fin"
    BY <1>1 DEF InvC, HandshakeOK
  <2>. QED  BY <2>1 DEF InvP, FisicasOK
<1>4. UnPaquete(respuestas, MARCO)
  <2>1. respuestas # <<>>
    <3>1. \A j \in 1..Len(<<>>) : <<>>[j].cuerpo \/ <<>>[j].v[1] \notin {MARCO}
      OBVIOUS
    <3>2. Esperada(<<>>, {MARCO}) = <<>> /\ ~ Entera(<<>>)
      BY <3>1, EsperadaNada DEF Entera
    <3>. QED  BY <1>1, <3>2
  <2>2. Pedida(MARCO) \/ Respondido(UnPaquete(respuestas, MARCO))
    BY <1>1 DEF InvC, PedidosOK
  <2>. QED  BY <2>1, <2>2 DEF Pedida, Respondido
<1>5. s = respuestas /\ Campos(s) = Last(respuestas).v /\ respuestas # <<>>
  <2>1. s = respuestas /\ respuestas = Paquete(MARCO, Last(respuestas).v) /\ respuestas # <<>>
    BY <1>4, UnPaqueteLlega DEF UnPaquete
  <2>2. Campos(Paquete(MARCO, Last(respuestas).v)) = Last(respuestas).v
    BY PaqueteSolo
  <2>. QED  BY <2>1, <2>2
<1>6. marco = Marco(pcb, Pag(Logica)) /\ Marco(pcb, Pag(Logica)) # -1
  <2>1. Marco(pcb, Pag(Logica)) # -1 /\ Last(respuestas).v = <<Marco(pcb, Pag(Logica))>>
    BY <1>1, <1>5 DEF InvP, ContenidosOK
  <2>2. marco = <<Marco(pcb, Pag(Logica))>>[1]
    BY <1>5, <2>1
  <2>. QED  BY <2>1, <2>2
<1>. HIDE DEF s, marco
<1>7. EnMemoria(pcb, Logica, f) /\ pcb \in Admitidas /\ Pag(Logica) \in Paginas(pcb)
  BY <1>1, <1>2, <1>3, <1>6, LogicaDe DEF EnMemoria, InvT, InvP
<1>. HIDE DEF f
<1>8. FisicasOK'
  BY <1>1, <1>2, <1>7, Traducida DEF InvP
<1>9. TlbOK'
  <2>1. \A t \in tlb' :
          t[1] \in Paginas(pcb) /\ Marco(pcb, t[1]) # -1 /\ t[2] = Marco(pcb, t[1])
    <3>1. ASSUME NEW t \in tlb
          PROVE  t[1] \in Paginas(pcb) /\ Marco(pcb, t[1]) # -1 /\ t[2] = Marco(pcb, t[1])
      <4>1. PICK p \in Admitidas :
              /\ p.id = pcb.id
              /\ \A u \in tlb :
                   u[1] \in Paginas(p) /\ Marco(p, u[1]) # -1 /\ u[2] = Marco(p, u[1])
        BY <1>1, <3>1 DEF InvP, TlbOK
      <4>2. p = pcb
        BY <1>7, <4>1, Unica DEF InvT
      <4>. QED  BY <4>1, <4>2
    <3>2. NumPagina(configuracion, Logica) = Pag(Logica)
      BY <1>3 DEF Pag
    <3>. QED  BY <1>1, <1>6, <1>7, <3>1, <3>2
  <2>2. PICK p : p = pcb /\ p = pcb'
    BY <1>1
  <2>3. \A n : Marco(p, n)' = Marco(p, n)
    BY SMTT(30), <1>1, TablasQuietas
  <2>4. \A t \in tlb' : t[1] \in Paginas(p) /\ Marco(p, t[1])' # -1 /\ t[2] = Marco(p, t[1])'
    BY <2>1, <2>2, <2>3 DEF Paginas, Marco, Indice
  <2>. QED  BY <1>1, <1>7, <2>2, <2>4 DEF TlbOK
<1>. QED  BY <1>1, <1>8, <1>9, SinContenidos DEF InvP

\* A request of the main thread, with what it asks for.
LEMMA PasoPedirTablaP ==
    ASSUME InvR, InvK, InvC, InvT, InvP, PedirTabla, Admitidas' = Admitidas
    PROVE  InvP'
<1>1. /\ en = "ciclo" /\ DeMemoria /\ Len(fisicas) < Len(Logicas) /\ configuracion # <<>>
      /\ pedidos' = pedidos \o Paquete(TABLA, <<pcb.tabla, EntradaTabla1(configuracion, Logica)>>)
      /\ en' = "tabla"
      /\ UNCHANGED <<tablas1, tablas2, pcb, fisicas, tlb, ultimo_pid, saludo, configuracion,
                     respuestas>>
  BY DEF PedirTabla, PorTraducir, memoria
<1>2. saludo = "fin" /\ pedidos \in {<<>>, Ceros} /\ respuestas = <<>> /\ configuracion = Config
  BY <1>1, AntesDePedir DEF InvP, FisicasOK
<1>3. Last(pedidos').v = <<pcb.tabla, EntradaTabla1(Config, Logica)>>
  BY <1>1, <1>2, PedidaNueva
<1>4. Logica' = Logica /\ DeMemoria' = DeMemoria /\ Logicas' = Logicas /\ Instruccion' = Instruccion
  BY <1>1 DEF Logica, Logicas, DeMemoria, Instruccion
<1>5. ContenidosOK'
  BY <1>1, <1>2, <1>3, <1>4 DEF ContenidosOK
<1>6. FisicasOK'
  BY <1>1, <1>4 DEF InvP, FisicasOK, EnMemoria, Marco, Indice, Pag, Config
<1>7. TlbOK'
  BY <1>1 DEF InvP, TlbOK, Marco, Indice, Paginas, Pag, Config
<1>. QED  BY <1>5, <1>6, <1>7 DEF InvP

\* The table that memory answers is the one asked for the frame.
LEMMA PasoRecibirTablaP ==
    ASSUME InvR, InvK, InvC, InvT, InvP, RecibirTabla, Admitidas' = Admitidas
    PROVE  InvP'
<1>1. /\ en = "tabla" /\ respuestas # <<>> /\ respuestas' = Luego(respuestas, 4)
      /\ pedidos' = pedidos \o Paquete(MARCO,
              <<Head(respuestas).v[1], EntradaTabla2(configuracion, Logica)>>)
      /\ en' = "marco"
      /\ UNCHANGED <<tablas1, tablas2, pcb, fisicas, tlb, ultimo_pid, saludo, configuracion>>
  BY DEF RecibirTabla, memoria
<1>2. pedidos = <<>> /\ Len(respuestas) = 4
  BY <1>1 DEF InvC, PedidosOK, Pedida, Respondido
<1>3. respuestas' = <<>>
  BY <1>1, <1>2, EnteroSolo
<1>4. configuracion = Config
  <2>1. saludo = "fin"
    BY <1>1 DEF InvC, HandshakeOK
  <2>. QED  BY <2>1 DEF InvP, FisicasOK
<1>5. Head(respuestas).v[1] = Indice(pcb, Pag(Logica))
  BY <1>1 DEF InvP, ContenidosOK
<1>6. Last(pedidos').v = <<Indice(pcb, Pag(Logica)), EntradaTabla2(Config, Logica)>>
  BY <1>1, <1>2, <1>3, <1>4, <1>5, PedidaNueva
<1>7. Logica' = Logica /\ DeMemoria' = DeMemoria /\ Logicas' = Logicas /\ Instruccion' = Instruccion
  BY <1>1 DEF Logica, Logicas, DeMemoria, Instruccion
<1>8. Last(pedidos').v = <<Indice(pcb, Pag(Logica))', EntradaTabla2(Config, Logica)'>>
  BY <1>1, <1>6, <1>7 DEF Indice, Pag, Config
<1>9. ContenidosOK'
  BY <1>1, <1>3, <1>8 DEF ContenidosOK
<1>10. FisicasOK'
  BY <1>1, <1>7 DEF InvP, FisicasOK, EnMemoria, Marco, Indice, Pag, Config
<1>11. TlbOK'
  BY <1>1 DEF InvP, TlbOK, Marco, Indice, Paginas, Pag, Config
<1>. QED  BY <1>9, <1>10, <1>11 DEF InvP

\* The request of an instruction has the addresses translated.
LEMMA PasoPedirInstruccionP ==
    ASSUME InvR, InvK, InvC, InvT, InvP, PedirInstruccion, Admitidas' = Admitidas
    PROVE  InvP'
<1>. DEFINE valor == IF Instruccion.codigo = WRITE THEN <<Instruccion.parametro2>> ELSE <<>>
            campos == <<Instruccion.codigo>> \o fisicas \o valor
<1>1. /\ en = "ciclo" /\ DeMemoria /\ Len(fisicas) = Len(Logicas)
      /\ pedidos' = pedidos \o Paquete(INSTRUCCION_MEMORIA, campos)
      /\ en' = IF Instruccion.codigo = READ THEN "lectura" ELSE "escritura"
      /\ UNCHANGED <<tablas1, tablas2, pcb, fisicas, tlb, ultimo_pid, saludo, configuracion,
                     respuestas>>
  BY DEF PedirInstruccion, memoria
<1>2. fisicas # <<>>
  <2>1. Len(Logicas) \in {1, 2}
    BY DEF Logicas
  <2>. QED  BY <1>1, <2>1
<1>3. saludo = "fin" /\ pedidos \in {<<>>, Ceros} /\ respuestas = <<>>
  BY <1>1, <1>2, AntesDePedir
<1>. HIDE DEF campos
<1>4. Last(pedidos').v = campos
  BY <1>1, <1>3, PedidaNueva
<1>5. Logica' = Logica /\ DeMemoria' = DeMemoria /\ Logicas' = Logicas /\ Instruccion' = Instruccion
  BY <1>1 DEF Logica, Logicas, DeMemoria, Instruccion
<1>6. ContenidosOK'
  BY <1>1, <1>4, <1>5 DEF ContenidosOK, campos
<1>7. FisicasOK'
  BY <1>1, <1>5 DEF InvP, FisicasOK, EnMemoria, Marco, Indice, Pag, Config
<1>8. TlbOK'
  BY <1>1 DEF InvP, TlbOK, Marco, Indice, Paginas, Pag, Config
<1>. QED  BY <1>6, <1>7, <1>8 DEF InvP

\* A step of the memory module that leaves the frames as they are.
LEMMA PasoMemHandshakeP ==
    ASSUME InvR, InvK, InvC, InvT, InvP, MemHandshake, Admitidas' = Admitidas
    PROVE  InvP'
<1>1. UNCHANGED <<tablas1, tablas2, en, pcb, fisicas, tlb, ultimo_pid, saludo, configuracion>>
  BY DEF MemHandshake, cpu, hiloCpu, memoria
<1>2. en \in {"dispatch", "ciclo"}
  BY QuienPide DEF InvC, HandshakeOK
<1>. QED  BY <1>1, <1>2, TablasQuedan, QuietoP, SinContenidos DEF InvP

\* An answer to READ, WRITE or COPY touches no table.
LEMMA PasoMemInstruccionP ==
    ASSUME InvR, InvK, InvC, InvT, InvP, MemInstruccion, Admitidas' = Admitidas
    PROVE  InvP'
<1>1. UNCHANGED <<tablas1, tablas2, en, pcb, fisicas, tlb, ultimo_pid, saludo, configuracion>>
  BY DEF MemInstruccion, cpu, hiloCpu
<1>2. Llega(INSTRUCCION_MEMORIA)
  BY DEF MemInstruccion
<1>3. en \in {"lectura", "escritura"} /\ Pedida(INSTRUCCION_MEMORIA)
  BY <1>2, QuienPide
<1>4. pedidos' = <<>>
  BY <1>2, <1>3, PedidaLlega DEF Llega
<1>5. ContenidosOK'
  BY <1>1, <1>3, <1>4 DEF ContenidosOK
<1>. QED  BY <1>1, <1>5, TablasQuedan, QuietoP DEF InvP

\* Memory answers the entry of the first level of the page.
LEMMA PasoMemTablaP ==
    ASSUME InvR, InvK, InvC, InvT, InvP, MemTabla, Admitidas' = Admitidas
    PROVE  InvP'
<1>. DEFINE v == Campos(Pedido)
<1>1. /\ UNCHANGED <<tablas1, tablas2, en, pcb, fisicas, tlb, ultimo_pid, saludo, configuracion>>
      /\ Llega(TABLA) /\ respuestas' = respuestas \o Entero(tablas1[v[1] + 1][v[2] + 1])
  BY DEF MemTabla, cpu, hiloCpu, memoria
<1>2. en = "tabla" /\ Pedida(TABLA)
  BY <1>1, QuienPide
<1>3. pedidos' = <<>> /\ respuestas = <<>> /\ v = <<pcb.tabla, EntradaTabla1(Config, Logica)>>
  <2>1. v = Last(pedidos).v /\ Resto(Pedido) = <<>>
    BY <1>2, PedidaLlega
  <2>2. pedidos # <<>> /\ respuestas = <<>>
    BY <1>2 DEF Pedida
  <2>. QED  BY <1>1, <1>2, <2>1, <2>2 DEF InvP, ContenidosOK, Llega
<1>4. v[1] = pcb.tabla /\ v[2] = Pag(Logica) \div EntradasPorTabla
  <2>1. EntradaTabla1(Config, Logica) = Pag(Logica) \div EntradasPorTabla
    BY DEF EntradaTabla1, Pag, Config
  <2>. QED  BY <1>3, <2>1
<1>5. respuestas' = Entero(Indice(pcb, Pag(Logica)))
  BY <1>1, <1>3, <1>4, EnteroSolo DEF Indice
<1>. HIDE DEF v
<1>6. Head(respuestas').v[1] = Indice(pcb, Pag(Logica))
  BY <1>5 DEF Entero, Byte
<1>7. Logica' = Logica
  BY SMTT(30), <1>1 DEF Logica, Logicas, Instruccion
<1>8. Head(respuestas').v[1] = Indice(pcb, Pag(Logica))'
  BY <1>1, <1>6, <1>7 DEF Indice, Pag, Config
<1>9. ContenidosOK'
  BY <1>1, <1>2, <1>3, <1>8 DEF ContenidosOK
<1>. QED  BY <1>1, <1>9, TablasQuedan, QuietoP DEF InvP

\* Memory answers the frame of the page, the one it had or a new one.
LEMMA PasoMemMarcoP ==
    ASSUME InvR, InvK, InvC, InvT, InvP, MemMarco, Admitidas' = Admitidas
    PROVE  InvP'
<1>. DEFINE n0 == Pag(Logica)
<1>1. UNCHANGED <<en, pcb, fisicas, tlb, ultimo_pid, saludo, configuracion>>
  BY SMTT(30) DEF MemMarco, cpu, hiloCpu
<1>2. /\ en = "marco" /\ DeMemoria /\ Len(fisicas) < Len(Logicas)
      /\ fisicas \in Seq(ToSet(fisicas)) /\ pedidos' = <<>>
  BY PidioMarco DEF InvP, MemMarco
<1>3. pcb \in Admitidas /\ n0 \in Paginas(pcb)
  BY <1>2, LogicaDe DEF InvT, InvP
<1>4. \/ /\ MarcosQuietos
         /\ \/ respuestas' = <<>>
            \/ Marco(pcb, n0) # -1 /\ respuestas' = Paquete(MARCO, <<Marco(pcb, n0)>>)
      \/ /\ Marco(pcb, n0) = -1 /\ PrimerLibre \in Nat
         /\ respuestas' = Paquete(MARCO, <<PrimerLibre>>)
         /\ \A p \in Admitidas : \A n \in Paginas(p) :
              /\ Indice(p, n)' = Indice(p, n)
              /\ Marco(p, n)' = IF p = pcb /\ n = n0 THEN PrimerLibre ELSE Marco(p, n)
  BY PasoMarcoT DEF InvT, InvP
<1>5. MarcosQuedan
  BY <1>4 DEF MarcosQuedan, MarcosQuietos
<1>6. PICK p, n : p = pcb /\ p = pcb' /\ n = n0
  BY <1>1
<1>7. Logica' = Logica /\ Pag(Logica)' = n
  BY <1>1, <1>6 DEF Logica, Logicas, Instruccion, Pag, Config
<1>. HIDE DEF n0
<1>8. respuestas' # <<>> => Marco(p, n)' # -1 /\ Last(respuestas').v = <<Marco(p, n)'>>
  <2>1. \A x : Last(Paquete(MARCO, x)).v = x
    BY PaqueteSolo
  <2>2. CASE MarcosQuietos
    <3>1. Marco(p, n)' = Marco(p, n)
      BY <1>3, <1>6, <2>2 DEF MarcosQuietos
    <3>2. Marco(p, n) = Marco(pcb, n0)
      BY <1>6
    <3>3. \/ respuestas' = <<>>
          \/ Marco(pcb, n0) # -1 /\ respuestas' = Paquete(MARCO, <<Marco(pcb, n0)>>)
          \/ Marco(pcb, n0) = -1 /\ PrimerLibre \in Nat
             /\ respuestas' = Paquete(MARCO, <<PrimerLibre>>) /\ Marco(p, n)' = PrimerLibre
      BY <1>3, <1>4, <1>6
    <3>4. PrimerLibre \in Nat => PrimerLibre # -1
      OBVIOUS
    <3>. QED  BY <2>1, <3>1, <3>2, <3>3, <3>4
  <2>3. CASE ~ MarcosQuietos
    <3>1. /\ PrimerLibre \in Nat /\ respuestas' = Paquete(MARCO, <<PrimerLibre>>)
          /\ Marco(p, n)' = PrimerLibre
      BY <1>3, <1>4, <1>6, <2>3
    <3>2. PrimerLibre # -1
      BY <3>1
    <3>. QED  BY <2>1, <3>1, <3>2
  <2>. QED  BY <2>2, <2>3
<1>9. respuestas' # <<>> =>
        Marco(pcb, Pag(Logica))' # -1 /\ Last(respuestas').v = <<Marco(pcb, Pag(Logica))'>>
  BY <1>6, <1>7, <1>8 DEF Marco, Indice
<1>10. ContenidosOK'
  BY <1>1, <1>2, <1>9 DEF ContenidosOK
<1>. QED  BY SMTT(30), <1>1, <1>5, <1>10, QuietoP DEF InvP

-----------------------------------------------------------------------------
(* The program of a process run alone.                                     *)

\* A memory of n bytes, and what was read.
Propio(n, r) == DOMAIN r.mem = 0..(n - 1) /\ r = [mem |-> r.mem, leidos |-> r.leidos]

\* What an instruction does, alone, on memory and on what was read.
LEMMA PasoEfecto ==
    ASSUME NEW n, NEW r, Propio(n, r), NEW i
    PROVE  /\ Propio(n, Paso(r, i))
           /\ i.codigo = READ => /\ Paso(r, i).mem = r.mem
                                 /\ Paso(r, i).leidos = Append(r.leidos, Leer(r.mem, i.parametro1))
           /\ i.codigo = WRITE => /\ Paso(r, i).mem = Escribir(r.mem, i.parametro1, i.parametro2)
                                  /\ Paso(r, i).leidos = r.leidos
           /\ i.codigo = COPY =>
                /\ Paso(r, i).mem = Escribir(r.mem, i.parametro1, Leer(r.mem, i.parametro2))
                /\ Paso(r, i).leidos = r.leidos
           /\ i.codigo \notin {READ, WRITE, COPY} => Paso(r, i) = r
<1>1. \A m, d, v : DOMAIN Escribir(m, d, v) = DOMAIN m
  BY DEF Escribir
<1>2. PICK m, l : r = [mem |-> m, leidos |-> l] /\ r.mem = m /\ r.leidos = l
                  /\ DOMAIN m = 0..(n - 1)
  BY DEF Propio
<1>3. CASE i.codigo = READ
  <2>2. i.codigo # WRITE /\ i.codigo # COPY /\ i.codigo \in {READ, WRITE, COPY}
    BY <1>3 DEF READ, WRITE, COPY
  <2>5. Paso(r, i) = [r EXCEPT !.leidos = Append(r.leidos, Leer(r.mem, i.parametro1))]
    BY <1>3, <2>2, Zenon DEF Paso
  <2>1. Paso(r, i) = [mem |-> m, leidos |-> Append(l, Leer(m, i.parametro1))]
    BY <1>2, <2>5
  <2>3. Paso(r, i).mem = m /\ Paso(r, i).leidos = Append(l, Leer(m, i.parametro1))
    BY <2>1
  <2>4. Propio(n, Paso(r, i))
    BY <1>2, <2>1, <2>3 DEF Propio
  <2>. QED  BY <1>2, <2>2, <2>3, <2>4
<1>4. CASE i.codigo = WRITE
  <2>1. i.codigo # READ /\ i.codigo # COPY
    BY <1>4 DEF READ, WRITE, COPY
  <2>6. Paso(r, i) = [r EXCEPT !.mem = Escribir(r.mem, i.parametro1, i.parametro2)]
    BY <1>4, <2>1, Zenon DEF Paso
  <2>2. Paso(r, i) = [mem |-> Escribir(m, i.parametro1, i.parametro2), leidos |-> l]
    BY <1>2, <2>6
  <2>3. i.codigo # READ /\ i.codigo # COPY /\ i.codigo \in {READ, WRITE, COPY}
    BY <1>4 DEF READ, WRITE, COPY
  <2>4. Paso(r, i).mem = Escribir(m, i.parametro1, i.parametro2) /\ Paso(r, i).leidos = l
    BY <2>2
  <2>5. Propio(n, Paso(r, i))
    BY <1>1, <1>2, <2>2, <2>4 DEF Propio
  <2>. QED  BY <1>2, <2>3, <2>4, <2>5
<1>5. CASE i.codigo = COPY
  <2>1. i.codigo # READ /\ i.codigo # WRITE
    BY <1>5 DEF READ, WRITE, COPY
  <2>2. Paso(r, i)
          = [mem |-> Escribir(m, i.parametro1, Leer(m, i.parametro2)), leidos |-> l]
    BY <1>2, <1>5, <2>1 DEF Paso
  <2>3. i.codigo \in {READ, WRITE, COPY}
    BY <1>5
  <2>4. /\ Paso(r, i).mem = Escribir(m, i.parametro1, Leer(m, i.parametro2))
        /\ Paso(r, i).leidos = l
    BY <2>2
  <2>5. Propio(n, Paso(r, i))
    BY <1>1, <1>2, <2>2, <2>4 DEF Propio
  <2>. QED  BY <1>2, <2>1, <2>3, <2>4, <2>5
<1>6. CASE i.codigo \notin {READ, WRITE, COPY}
  <2>1. Paso(r, i) = r
    BY <1>6 DEF Paso
  <2>. QED  BY <1>6, <2>1
<1>. QED  BY <1>3, <1>4, <1>5, <1>6

\* Aparte is that of its equation: there is a function that satisfies it.
LEMMA AparteEcuacion ==
    ASSUME NEW p, p.tamanio \in Nat, p.instrucciones \in Seq(Instruccs)
    PROVE  /\ Aparte(p)[0] = [mem |-> [d \in 0..(p.tamanio - 1) |-> 0], leidos |-> <<>>]
           /\ \A k \in 1..Len(p.instrucciones) :
                Aparte(p)[k] = Paso(Aparte(p)[k - 1], p.instrucciones[k])
<1>. DEFINE n == Len(p.instrucciones)
            base == [mem |-> [d \in 0..(p.tamanio - 1) |-> 0], leidos |-> <<>>]
            Ecuacion(f, m) ==
                f = [k \in 0..m |-> IF k = 0 THEN base ELSE Paso(f[k - 1], p.instrucciones[k])]
            Hay(m) == \E f : Ecuacion(f, m)
            Sin == {m \in 0..n : ~ Hay(m)}
<1>1. n \in Nat
  OBVIOUS
<1>2. Aparte(p) = CHOOSE f : Ecuacion(f, n)
  BY DEF Aparte, Solo
<1>. HIDE DEF n, base
<1>3. Hay(0)
  <2>. DEFINE g == [k \in 0..0 |-> base]
  <2>1. \A k \in 0..0 : g[k] = IF k = 0 THEN base ELSE Paso(g[k - 1], p.instrucciones[k])
    OBVIOUS
  <2>2. g = [k \in 0..0 |-> g[k]]
    OBVIOUS
  <2>. HIDE DEF g
  <2>3. Ecuacion(g, 0)
    BY <2>1, <2>2
  <2>. QED  BY <2>3
<1>4. ASSUME NEW m \in 1..n, Hay(m - 1)
      PROVE  Hay(m)
  <2>1. PICK f : Ecuacion(f, m - 1)
    BY <1>4
  <2>. DEFINE g == [k \in 0..m |-> IF k < m THEN f[k] ELSE Paso(f[m - 1], p.instrucciones[m])]
  <2>2. \A k \in 0..m : g[k] = IF k = 0 THEN base ELSE Paso(g[k - 1], p.instrucciones[k])
    <3>1. \A k \in 0..(m - 1) : f[k] = IF k = 0 THEN base ELSE Paso(f[k - 1], p.instrucciones[k])
      BY <2>1
    <3>2. \A k \in 0..m : k # 0 => k - 1 \in 0..(m - 1) /\ g[k - 1] = f[k - 1]
      BY <1>1
    <3>3. \A k \in 0..(m - 1) : g[k] = f[k]
      BY <1>1
    <3>4. g[m] = Paso(f[m - 1], p.instrucciones[m])
      BY <1>1
    <3>5. \A k \in 0..m : k = m \/ k \in 0..(m - 1)
      BY <1>1
    <3>6. m # 0
      BY <1>1
    <3>. HIDE DEF g
    <3>. QED  BY <3>1, <3>2, <3>3, <3>4, <3>5, <3>6
  <2>3. g = [k \in 0..m |-> g[k]]
    OBVIOUS
  <2>. HIDE DEF g
  <2>4. Ecuacion(g, m)
    BY <2>2, <2>3
  <2>. QED  BY <2>4
<1>. HIDE DEF Hay
<1>5. Hay(n)
  <2>1. SUFFICES ASSUME Sin # {}
                 PROVE  FALSE
    BY <1>1
  <2>2. PICK m \in Sin : \A k \in Sin : m <= k
    <3>1. Sin \in SUBSET Nat
      BY <1>1
    <3>. QED  BY <2>1, <3>1, HayMinimo
  <2>3. m \in 0..n /\ m # 0 /\ m - 1 \in 0..n /\ m \in 1..n
    BY <1>1, <1>3, <2>2
  <2>4. m - 1 \notin Sin
    <3>1. m - 1 < m /\ m - 1 \in Nat /\ m \in Nat
      BY <1>1, <2>3
    <3>. QED  BY <2>2, <3>1
  <2>. QED  BY <1>4, <2>2, <2>3, <2>4
<1>6. Ecuacion(Aparte(p), n)
  BY <1>2, <1>5 DEF Hay
<1>7. PICK f : f = Aparte(p) /\ Ecuacion(f, n)
  BY <1>6
<1>8. \A k \in 0..n : f[k] = IF k = 0 THEN base ELSE Paso(f[k - 1], p.instrucciones[k])
  BY <1>7
<1>9. 0 \in 0..n /\ \A k \in 1..n : k \in 0..n /\ k # 0
  BY <1>1
<1>10. f[0] = base /\ \A k \in 1..n : f[k] = Paso(f[k - 1], p.instrucciones[k])
  BY <1>8, <1>9
<1>. QED  BY <1>7, <1>10 DEF base, n

\* The program run alone keeps a memory of the size of the process.
LEMMA AparteTipo ==
    ASSUME NEW p, p.tamanio \in Nat, p.instrucciones \in Seq(Instruccs),
           NEW k \in 0..Len(p.instrucciones)
    PROVE  Propio(p.tamanio, Aparte(p)[k])
<1>. DEFINE n == Len(p.instrucciones)
            Mal == {j \in 0..n : ~ Propio(p.tamanio, Aparte(p)[j])}
<1>1. n \in Nat /\ k \in 0..n
  OBVIOUS
<1>2. /\ Aparte(p)[0] = [mem |-> [d \in 0..(p.tamanio - 1) |-> 0], leidos |-> <<>>]
      /\ \A j \in 1..n : Aparte(p)[j] = Paso(Aparte(p)[j - 1], p.instrucciones[j])
  BY AparteEcuacion
<1>3. Propio(p.tamanio, Aparte(p)[0])
  BY <1>2 DEF Propio
<1>. HIDE DEF n
<1>4. SUFFICES ASSUME Mal # {}
               PROVE  FALSE
  BY <1>1
<1>5. PICK m \in Mal : \A j \in Mal : m <= j
  <2>1. Mal \in SUBSET Nat
    BY <1>1
  <2>. QED  BY <1>4, <2>1, HayMinimo
<1>6. m # 0 /\ m \in 1..n /\ m - 1 \in 0..n /\ m - 1 < m /\ m - 1 \in Nat /\ m \in Nat
  BY <1>1, <1>3, <1>5
<1>7. Propio(p.tamanio, Aparte(p)[m - 1])
  BY <1>5, <1>6
<1>8. Propio(p.tamanio, Aparte(p)[m])
  BY <1>2, <1>6, <1>7, PasoEfecto
<1>. QED  BY <1>5, <1>8

\* It depends on nothing of the process but its size and its program.
LEMMA AparteDe ==
    ASSUME NEW p, NEW q, p.tamanio = q.tamanio, p.instrucciones = q.instrucciones
    PROVE  Aparte(p) = Aparte(q)
  BY DEF Aparte, Solo

-----------------------------------------------------------------------------
(* What each process reads.                                                *)

InvL == MemoriaPropia /\ LeidosOK

\* Four bytes that are the same are the same integer, wherever they are.
LEMMA LeerIgual ==
    ASSUME NEW a, NEW b, NEW d \in Int, NEW e \in Int, \A k \in 0..3 : a[d + k] = b[e + k]
    PROVE  Leer(a, d) = Leer(b, e)
<1>1. d + 0 = d /\ e + 0 = e /\ 0 \in 0..3 /\ 1 \in 0..3 /\ 2 \in 0..3 /\ 3 \in 0..3
  OBVIOUS
<1>2. a[d] = b[e] /\ a[d + 1] = b[e + 1] /\ a[d + 2] = b[e + 2] /\ a[d + 3] = b[e + 3]
  BY <1>1
<1>. QED  BY <1>2, SMT DEF Leer

\* Writing an integer changes its four bytes.
LEMMA EscribirBytes ==
    ASSUME NEW m, NEW d \in Int, NEW v
    PROVE  /\ DOMAIN Escribir(m, d, v) = DOMAIN m
           /\ \A k \in 0..3 : d + k \in DOMAIN m =>
                Escribir(m, d, v)[d + k] = (v \div 256 ^ k) % 256
           /\ \A e \in DOMAIN m : (\A k \in 0..3 : e # d + k) => Escribir(m, d, v)[e] = m[e]
<1>1. DOMAIN Escribir(m, d, v) = DOMAIN m
  BY DEF Escribir
<1>2. ASSUME NEW k \in 0..3, d + k \in DOMAIN m
      PROVE  Escribir(m, d, v)[d + k] = (v \div 256 ^ k) % 256
  <2>1. d + k \in d..(d + 3) /\ (d + k) - d = k
    OBVIOUS
  <2>2. Escribir(m, d, v)[d + k] = (v \div 256 ^ ((d + k) - d)) % 256
    BY <1>2, <2>1, Zenon DEF Escribir
  <2>. QED  BY <2>1, <2>2
<1>3. ASSUME NEW e \in DOMAIN m, \A k \in 0..3 : e # d + k
      PROVE  Escribir(m, d, v)[e] = m[e]
  <2>1. e \notin d..(d + 3)
    <3>1. ASSUME e \in d..(d + 3)
          PROVE  FALSE
      <4>1. e - d \in 0..3 /\ e = d + (e - d)
        BY <3>1
      <4>. QED  BY <1>3, <4>1
    <3>. QED  BY <3>1
  <2>. QED  BY <1>3, <2>1, Zenon DEF Escribir
<1>. QED  BY <1>1, <1>2, <1>3

\* The bytes of the pages that have a frame, and of those that have none.
LEMMA ContenidoDe ==
    ASSUME NEW p, NEW d
    PROVE  /\ Marco(p, Pag(d)) # -1 => Contenido(p, d) = usuario[Fisica(p, d)]
           /\ Marco(p, Pag(d)) = -1 => Contenido(p, d) = 0
  BY DEF Contenido, Fisica

\* What memory has for a process is the same when its frames and their bytes are.
LEMMA ContenidoQuieto ==
    ASSUME InvR, InvK, InvT, MarcosQuietos, NEW p \in Admitidas, NEW d \in 0..(p.tamanio - 1),
           \A e \in DOMAIN usuario : usuario'[e] = usuario[e]
    PROVE  Contenido(p, d)' = Contenido(p, d)
<1>1. Pag(d) \in Paginas(p)
  BY DEF Paginas
<1>2. PICK n : n = Pag(d)
  OBVIOUS
<1>3. Marco(p, n)' = Marco(p, n)
  BY <1>1, <1>2 DEF MarcosQuietos
<1>4. Marco(p, Pag(d)) # -1 => Fisica(p, d) \in DOMAIN usuario
  <2>1. DOMAIN usuario = 0..(TamMemoria - 1)
    BY DEF InvT, MarcosOK
  <2>. QED  BY <2>1, FisicaDe DEF InvT
<1>5. Marco(p, Pag(d))' = Marco(p, Pag(d))
  BY <1>2, <1>3 DEF Pag, Config
<1>. QED  BY <1>4, <1>5 DEF Contenido, Fisica

\* The process that is in the CPU, before and after its next instruction.
LEMMA AparteSigue ==
    ASSUME InvR, InvK, en # "dispatch"
    PROVE  /\ pcb \in Admitidas /\ pcb \in Pcbs /\ pcb.tamanio \in Nat /\ pcb.pc \in Nat
           /\ Propio(pcb.tamanio, Aparte(pcb)[pcb.pc])
           /\ Aparte(pcb)[pcb.pc + 1] = Paso(Aparte(pcb)[pcb.pc], Instruccion)
<1>1. pcb \in Admitidas /\ pcb \in Vivas
  BY DondeExec DEF Admitidas
<1>2. /\ pcb \in Pcbs /\ pcb \in Hechas /\ pcb.pc \in Nat
      /\ pcb.pc + 1 \in 1..Len(pcb.instrucciones)
  BY <1>1, Avanza
<1>3. pcb.tamanio \in Nat /\ pcb.instrucciones \in Seq(Instruccs)
  BY <1>2 DEF Pcbs
<1>4. Len(pcb.instrucciones) \in Nat
  BY <1>3
<1>5. pcb.pc \in 0..Len(pcb.instrucciones) /\ (pcb.pc + 1) - 1 = pcb.pc
  BY <1>2, <1>4
<1>6. Propio(pcb.tamanio, Aparte(pcb)[pcb.pc])
  BY <1>3, <1>5, AparteTipo
<1>7. Aparte(pcb)[pcb.pc + 1] = Paso(Aparte(pcb)[(pcb.pc + 1) - 1], pcb.instrucciones[pcb.pc + 1])
  BY <1>2, <1>3, AparteEcuacion
<1>. QED  BY <1>1, <1>2, <1>3, <1>5, <1>6, <1>7 DEF Instruccion

\* What the memory module reads for the CPU is what the process has at the logical address.
LEMMA Leido ==
    ASSUME InvR, InvK, InvT, InvP, InvL, en \in {"lectura", "escritura"}, pedidos # <<>>,
           NEW i \in 1..Len(Logicas)
    PROVE  /\ fisicas[i] = Fisica(pcb, Logicas[i]) /\ Marco(pcb, Pag(Logicas[i])) # -1
           /\ Dentro(pcb, Logicas[i])
           /\ Leer(usuario, fisicas[i]) = Leer(Aparte(pcb)[pcb.pc].mem, Logicas[i])
<1>1. en # "dispatch"
  OBVIOUS
<1>2. DeMemoria /\ Len(fisicas) = Len(Logicas)
  BY DEF InvP, FisicasOK
<1>3. Dentro(pcb, Logicas[i]) /\ pcb \in Admitidas
  BY <1>1, <1>2, LogicasDentro, AparteSigue
<1>4. EnMemoria(pcb, Logicas[i], fisicas[i])
  BY <1>1, <1>2 DEF InvP, FisicasOK
<1>5. PICK p, d : p = pcb /\ d = Logicas[i]
  OBVIOUS
<1>6. fisicas[i] = Fisica(p, d) /\ Marco(p, Pag(d)) # -1
  BY <1>4, <1>5 DEF EnMemoria, Fisica
<1>7. Escritas(p) = p.pc
  BY DEF Escritas
<1>8. ASSUME NEW k \in 0..3
      PROVE  usuario[fisicas[i] + k] = Aparte(p)[p.pc].mem[d + k]
  <2>1. /\ Fisica(p, d + k) = Fisica(p, d) + k /\ Marco(p, Pag(d + k)) # -1
        /\ d + k \in 0..(p.tamanio - 1)
    BY <1>3, <1>5, <1>6, FisicaBytes DEF InvT
  <2>2. Contenido(p, d + k) = Aparte(p)[p.pc].mem[d + k]
    BY <1>3, <1>5, <1>7, <2>1 DEF InvL, MemoriaPropia
  <2>. QED  BY <1>6, <2>1, <2>2, ContenidoDe
<1>9. fisicas[i] \in Int /\ d \in Int
  <2>1. 0 \in 0..3
    OBVIOUS
  <2>2. d \in Nat /\ Fisica(p, d) \in 0..(TamMemoria - 1)
    BY <1>3, <1>5, <1>6, <2>1, FisicaBytes DEF InvT
  <2>. QED  BY <1>6, <2>2
<1>10. Leer(usuario, fisicas[i]) = Leer(Aparte(p)[p.pc].mem, d)
  BY <1>8, <1>9, LeerIgual
<1>. QED  BY <1>3, <1>5, <1>6, <1>10

\* A step that leaves the frames and what is in them alone.
LEMMA QuietoL ==
    ASSUME InvR, InvK, InvT, InvL, MarcosQuietos, Admitidas' = Admitidas, leidos' = leidos,
           \A e \in DOMAIN usuario : usuario'[e] = usuario[e],
           \A p \in Admitidas : Escritas(p)' = Escritas(p),
           en' = "lectura" /\ respuestas' # <<>> => UNCHANGED <<en, pcb, respuestas>>
    PROVE  InvL'
<1>1. MemoriaPropia'
  <2>1. ASSUME NEW p \in Admitidas, NEW d \in 0..(p.tamanio - 1)
        PROVE  Contenido(p, d)' = Aparte(p)[Escritas(p)'].mem[d]
    BY ContenidoQuieto DEF InvL, MemoriaPropia
  <2>. QED  BY <2>1 DEF MemoriaPropia
<1>2. en' = "lectura" /\ respuestas' # <<>> =>
        Last(respuestas').v = <<Leer(Aparte(pcb')[pcb'.pc].mem, Instruccion'.parametro1)>>
  BY DEF InvL, LeidosOK, Instruccion
<1>3. LeidosOK'
  BY <1>2 DEF InvL, LeidosOK, Ids
<1>. QED  BY <1>1, <1>3 DEF InvL

LEMMA EscritasDe ==
    ASSUME NEW p
    PROVE  /\ Escritas(p) # p.pc => en = "escritura" /\ pedidos = <<>> /\ p = pcb
           /\ Escritas(p) \in {p.pc, p.pc + 1}
  BY DEF Escritas

\* A step of the others changes no byte and nothing read.
LEMMA PasoAjenoL ==
    ASSUME InvR, InvK, InvT, InvL, UNCHANGED <<tablas1, tablas2, usuario, leidos>>,
           Admitidas' = Admitidas,
           \/ UNCHANGED <<en, pcb, pedidos, respuestas>>
           \/ en # "escritura" /\ (en' = "escritura" => pedidos' # <<>>)
              /\ (en' = "lectura" => respuestas' = <<>>)
    PROVE  InvL'
<1>1. \A p \in Admitidas : Escritas(p)' = Escritas(p)
  BY DEF Escritas
<1>. QED  BY <1>1, TablasQuedan, QuietoL

\* The memory of the process admitted is zero, as its program finds it.
LEMMA PasoAdmitirL ==
    ASSUME InvR, InvK, InvC, InvT, InvL, Admitir
    PROVE  InvL'
<1>. DEFINE q == [Last(colaNew) EXCEPT !.tabla = Len(tablas1)]
<1>1. /\ Last(colaNew) \in Vivas /\ Last(colaNew).pc = 0 /\ q.pc = Last(colaNew).pc
      /\ q.tamanio = Last(colaNew).tamanio
      /\ q.instrucciones = Last(colaNew).instrucciones
      /\ Admitidas' = Admitidas \cup {q} /\ \A r \in Admitidas : r.id # q.id
  BY PasoAdmitirU DEF InvT
<1>2. PICK r : r = q
  OBVIOUS
<1>3. MarcosQuietos /\ \A n \in Paginas(r) : Marco(r, n)' = -1
  BY <1>2, PasoAdmitirT DEF InvT
<1>. HIDE DEF q
<1>4. UNCHANGED <<usuario, leidos, en, pcb, pedidos, respuestas>>
  BY DEF Admitir, cpu, hiloCpu, canales
<1>5. /\ r.tamanio \in Nat /\ r.instrucciones \in Seq(Instruccs) /\ r.pc = 0
      /\ \A p \in Admitidas : p.id # r.id
  <2>1. Last(colaNew) \in Pcbs
    BY <1>1, Avanza
  <2>2. Last(colaNew).tamanio \in Nat /\ Last(colaNew).instrucciones \in Seq(Instruccs)
    BY <2>1 DEF Pcbs
  <2>. QED  BY <1>1, <1>2, <2>2
<1>6. Aparte(r)[0] = [mem |-> [d \in 0..(r.tamanio - 1) |-> 0], leidos |-> <<>>]
  BY <1>5, AparteEcuacion
<1>7. \A p : Escritas(p)' = Escritas(p)
  BY <1>4 DEF Escritas
<1>8. Escritas(r) = 0
  <2>1. en = "escritura" => pcb \in Admitidas
    BY DondeExec DEF Admitidas
  <2>. QED  BY <1>5, <2>1, EscritasDe
<1>9. MemoriaPropia'
  <2>1. ASSUME NEW p \in Admitidas, NEW d \in 0..(p.tamanio - 1)
        PROVE  Contenido(p, d)' = Aparte(p)[Escritas(p)'].mem[d]
    BY <1>3, <1>4, <1>7, ContenidoQuieto DEF InvL, MemoriaPropia
  <2>2. ASSUME NEW d \in 0..(r.tamanio - 1)
        PROVE  Contenido(r, d)' = Aparte(r)[Escritas(r)'].mem[d]
    <3>1. PICK n : n = Pag(d) /\ n = Pag(d)'
      BY DEF Pag, Config
    <3>2. n \in Paginas(r)
      BY <3>1 DEF Paginas
    <3>3. Marco(r, n)' = -1
      BY <1>3, <3>2
    <3>4. Contenido(r, d)' = 0
      BY <3>1, <3>3 DEF Contenido
    <3>5. Aparte(r)[0].mem[d] = 0
      BY <1>6
    <3>. QED  BY <1>7, <1>8, <3>4, <3>5
  <2>. QED  BY <1>1, <1>2, <2>1, <2>2 DEF MemoriaPropia
<1>10. LeidosOK'
  <2>1. leidos[r.id] = <<>>
    <3>1. r.id \in Ids
      <4>1. Last(colaNew) \in Hechas
        BY <1>1, Avanza
      <4>2. generador_de_id = Cardinality(Creadas)
        BY DEF InvT, UnaVez
      <4>3. Last(colaNew).id \in Ids /\ q.id = Last(colaNew).id
        BY <4>1, <4>2, IdsDe, PasoAdmitirU DEF InvT, q
      <4>. QED  BY <1>2, <4>3
    <3>. QED  BY <1>5, <3>1 DEF InvL, LeidosOK
  <2>2. \A p \in Admitidas' : leidos'[p.id] = Aparte(p)[p.pc].leidos
    BY <1>1, <1>2, <1>4, <1>5, <1>6, <2>1 DEF InvL, LeidosOK
  <2>3. \A id \in Ids : (\A p \in Admitidas' : p.id # id) => leidos'[id] = <<>>
    BY <1>1, <1>4 DEF InvL, LeidosOK
  <2>4. en' = "lectura" /\ respuestas' # <<>> =>
        Last(respuestas').v = <<Leer(Aparte(pcb')[pcb'.pc].mem, Instruccion'.parametro1)>>
    BY <1>4 DEF InvL, LeidosOK, Instruccion
  <2>5. DOMAIN leidos' = Ids
    BY <1>4 DEF InvL, LeidosOK
  <2>. QED  BY <2>2, <2>3, <2>4, <2>5 DEF LeidosOK, Ids
<1>. QED  BY <1>9, <1>10 DEF InvL

\* What an instruction that ends did to the process, as it does it alone.
LEMMA FinAparte ==
    ASSUME InvR, InvK, InvC, InvT, InvP, InvL, Ejecutar \/ RecibirLectura \/ RecibirEscritura
    PROVE  /\ Aparte(pcb)[pcb.pc + 1].mem = Aparte(pcb)[Escritas(pcb)].mem
           /\ DOMAIN leidos' = Ids /\ leidos'[pcb.id] = Aparte(pcb)[pcb.pc + 1].leidos
           /\ \A id \in Ids : id # pcb.id => leidos'[id] = leidos[id]
<1>. DEFINE a == Aparte(pcb)[pcb.pc]
            b == Aparte(pcb)[pcb.pc + 1]
<1>. DeMemoriaOK
  BY DEF InvC
<1>1. en \in {"ciclo", "lectura", "escritura"} /\ pcb \in Vivas
  BY TrasInstruccion
<1>2. /\ pcb \in Admitidas /\ Propio(pcb.tamanio, a) /\ b = Paso(a, Instruccion)
  BY <1>1, AparteSigue
<1>3. leidos[pcb.id] = a.leidos /\ DOMAIN leidos = Ids /\ pcb.id \in Ids
  <2>1. pcb \in Hechas
    BY <1>1, Avanza
  <2>2. generador_de_id = Cardinality(Creadas)
    BY DEF InvT, UnaVez
  <2>3. pcb.id \in Ids
    BY <2>1, <2>2, IdsDe
  <2>. QED  BY <1>2, <2>3 DEF InvL, LeidosOK
<1>. HIDE DEF a, b
<1>7. PICK i : i = Instruccion
  OBVIOUS
<1>8. /\ i.codigo = READ => /\ b.mem = a.mem
                           /\ b.leidos = Append(a.leidos, Leer(a.mem, i.parametro1))
      /\ i.codigo = WRITE => b.leidos = a.leidos
      /\ i.codigo = COPY => b.leidos = a.leidos
      /\ i.codigo \notin {READ, WRITE, COPY} => b = a
  <2>1. Propio(pcb.tamanio, a) /\ b = Paso(a, i)
    BY <1>2, <1>7
  <2>2. \A n, r, j : Propio(n, r) =>
          /\ j.codigo = READ => /\ Paso(r, j).mem = r.mem
                                /\ Paso(r, j).leidos = Append(r.leidos, Leer(r.mem, j.parametro1))
          /\ j.codigo = WRITE => Paso(r, j).leidos = r.leidos
          /\ j.codigo = COPY => Paso(r, j).leidos = r.leidos
          /\ j.codigo \notin {READ, WRITE, COPY} => Paso(r, j) = r
    BY PasoEfecto
  <2>3. PICK n, r, c : n = pcb.tamanio /\ r = a /\ c = b
    OBVIOUS
  <2>4. Propio(n, r) /\ c = Paso(r, i)
    BY <2>1, <2>3
  <2>5. /\ i.codigo = READ => /\ Paso(r, i).mem = r.mem
                             /\ Paso(r, i).leidos = Append(r.leidos, Leer(r.mem, i.parametro1))
        /\ i.codigo = WRITE => Paso(r, i).leidos = r.leidos
        /\ i.codigo = COPY => Paso(r, i).leidos = r.leidos
        /\ i.codigo \notin {READ, WRITE, COPY} => Paso(r, i) = r
    BY <2>2, <2>4, Zenon
  <2>. QED  BY <2>3, <2>4, <2>5
<1>4. CASE Ejecutar
  <2>1. en = "ciclo" /\ ~ DeMemoria /\ leidos' = leidos
    BY <1>4 DEF Ejecutar
  <2>2. b = a
    BY <1>7, <1>8, <2>1 DEF DeMemoria
  <2>3. Escritas(pcb) = pcb.pc
    BY <2>1, EscritasDe
  <2>. QED  BY <1>3, <2>1, <2>2, <2>3 DEF a, b
<1>5. CASE RecibirEscritura
  <2>1. en = "escritura" /\ respuestas # <<>> /\ leidos' = leidos
    BY <1>5 DEF RecibirEscritura
  <2>2. pedidos = <<>>
    BY <2>1 DEF InvC, PedidosOK, Pedida, Respondido
  <2>3. Escritas(pcb) = pcb.pc + 1
    BY <2>1, <2>2 DEF Escritas
  <2>4. Instruccion.codigo \in {WRITE, COPY}
    BY <2>1 DEF InvP, FisicasOK, DeMemoria
  <2>5. b.leidos = a.leidos
    BY <1>7, <1>8, <2>4
  <2>. QED  BY <1>3, <2>1, <2>3, <2>5 DEF a, b
<1>6. CASE RecibirLectura
  <2>. DEFINE s == Esperada(respuestas, {PAQUETE})
  <2>1. /\ en = "lectura" /\ Entera(s)
        /\ leidos' = [leidos EXCEPT ![pcb.id] = Append(@, Campos(s)[1])]
    BY <1>6 DEF RecibirLectura
  <2>2. respuestas # <<>>
    <3>1. \A j \in 1..Len(<<>>) : <<>>[j].cuerpo \/ <<>>[j].v[1] \notin {PAQUETE}
      OBVIOUS
    <3>2. Esperada(<<>>, {PAQUETE}) = <<>> /\ ~ Entera(<<>>)
      BY <3>1, EsperadaNada DEF Entera
    <3>. QED  BY <2>1, <3>2
  <2>3. UnPaquete(respuestas, PAQUETE)
    BY <2>1, <2>2 DEF InvC, PedidosOK, Pedida, Respondido
  <2>4. s = respuestas /\ respuestas = Paquete(PAQUETE, Last(respuestas).v)
    BY <2>3, UnPaqueteLlega DEF UnPaquete
  <2>5. Campos(s) = Last(respuestas).v
    <3>1. Campos(Paquete(PAQUETE, Last(respuestas).v)) = Last(respuestas).v
      BY PaqueteSolo
    <3>. QED  BY <2>4, <3>1
  <2>6. Last(respuestas).v = <<Leer(a.mem, Instruccion.parametro1)>>
    BY <2>1, <2>2 DEF InvL, LeidosOK, a
  <2>7. Campos(s)[1] = Leer(a.mem, Instruccion.parametro1)
    BY <2>5, <2>6
  <2>8. Instruccion.codigo = READ
    BY <2>1 DEF InvP, FisicasOK
  <2>9. b.mem = a.mem /\ b.leidos = Append(a.leidos, Leer(a.mem, Instruccion.parametro1))
    BY <1>7, <1>8, <2>8
  <2>. HIDE DEF s
  <2>10. Escritas(pcb) = pcb.pc
    BY <2>1, EscritasDe
  <2>11. leidos'[pcb.id] = b.leidos
    BY <1>3, <2>1, <2>7, <2>9
  <2>12. DOMAIN leidos' = Ids /\ \A id \in Ids : id # pcb.id => leidos'[id] = leidos[id]
    BY <1>3, <2>1
  <2>. QED  BY <2>9, <2>10, <2>11, <2>12 DEF a, b
<1>. QED  BY <1>4, <1>5, <1>6

\* The instruction is done: what was read is what its program reads alone.
LEMMA PasoFinL ==
    ASSUME InvR, InvK, InvC, InvT, InvP, InvL, Ejecutar \/ RecibirLectura \/ RecibirEscritura
    PROVE  InvL'
<1>. DeMemoriaOK
  BY DEF InvC
<1>1. /\ en \in {"ciclo", "lectura", "escritura"} /\ pcb \in Vivas
      /\ pcb'.id = pcb.id /\ pcb'.tabla = pcb.tabla /\ pcb'.tamanio = pcb.tamanio
      /\ pcb'.instrucciones = pcb.instrucciones /\ pcb'.pc = pcb.pc + 1
      /\ en' \in {"dispatch", "ciclo"}
      /\ UNCHANGED <<tablas1, tablas2, usuario>>
  BY TrasInstruccion
<1>2. /\ Admitidas' = (Admitidas \ {pcb}) \cup {pcb'} /\ pcb \in Admitidas
      /\ \A p \in Admitidas \ {pcb} : p.id # pcb.id
  <2>1. pcb \in Admitidas
    BY <1>1, DondeExec DEF Admitidas
  <2>. QED  BY <2>1, PasoInstruccionU, Unica DEF InvT
<1>3. /\ Aparte(pcb)[pcb.pc + 1].mem = Aparte(pcb)[Escritas(pcb)].mem
      /\ DOMAIN leidos' = Ids /\ leidos'[pcb.id] = Aparte(pcb)[pcb.pc + 1].leidos
      /\ \A id \in Ids : id # pcb.id => leidos'[id] = leidos[id]
  BY FinAparte
<1>4. PICK p, q : p = pcb /\ q = pcb' /\ q.tabla = p.tabla /\ q.tamanio = p.tamanio
                  /\ q.pc = p.pc + 1 /\ q.id = p.id /\ q.instrucciones = p.instrucciones
  BY <1>1
<1>5. Aparte(q) = Aparte(p)
  BY <1>4, AparteDe
<1>6. \A r : Escritas(r)' = r.pc
  BY <1>1 DEF Escritas
<1>7. MarcosQuietos
  BY <1>1, TablasQuedan
<1>8. MemoriaPropia'
  <2>1. ASSUME NEW r \in Admitidas \ {pcb}, NEW d \in 0..(r.tamanio - 1)
        PROVE  Contenido(r, d)' = Aparte(r)[Escritas(r)'].mem[d]
    <3>1. Escritas(r) = r.pc
      BY <2>1, EscritasDe
    <3>. QED  BY <1>1, <1>6, <1>7, <3>1, ContenidoQuieto DEF InvL, MemoriaPropia
  <2>2. ASSUME NEW d \in 0..(q.tamanio - 1)
        PROVE  Contenido(q, d)' = Aparte(q)[Escritas(q)'].mem[d]
    <3>1. Contenido(q, d)' = Contenido(p, d)'
      BY <1>4 DEF Contenido, Marco, Indice
    <3>2. Contenido(p, d)' = Contenido(p, d)
      BY <1>1, <1>2, <1>4, <1>7, ContenidoQuieto
    <3>3. Contenido(p, d) = Aparte(p)[Escritas(p)].mem[d]
      BY <1>2, <1>4 DEF InvL, MemoriaPropia
    <3>4. Escritas(p) = Escritas(pcb)
      BY <1>4
    <3>. QED  BY <1>3, <1>4, <1>5, <1>6, <3>1, <3>2, <3>3, <3>4
  <2>. QED  BY <1>2, <1>4, <2>1, <2>2 DEF MemoriaPropia
<1>9. LeidosOK'
  <2>1. \A r \in Admitidas' : leidos'[r.id] = Aparte(r)[r.pc].leidos
    <3>1. ASSUME NEW r \in Admitidas \ {pcb}
          PROVE  leidos'[r.id] = Aparte(r)[r.pc].leidos
      <4>1. r.id \in Ids
        <5>1. r \in Hechas
          BY AdmitidasHechas
        <5>2. generador_de_id = Cardinality(Creadas)
          BY DEF InvT, UnaVez
        <5>. QED  BY <5>1, <5>2, IdsDe
      <4>2. leidos'[r.id] = leidos[r.id]
        BY <1>2, <1>3, <4>1
      <4>. QED  BY <4>2 DEF InvL, LeidosOK
    <3>2. leidos'[q.id] = Aparte(q)[q.pc].leidos
      BY <1>3, <1>4, <1>5
    <3>. QED  BY <1>2, <1>4, <3>1, <3>2
  <2>2. ASSUME NEW id \in Ids, \A r \in Admitidas' : r.id # id
        PROVE  leidos'[id] = <<>>
    <3>1. id # pcb.id
      BY <1>2, <1>4, <2>2
    <3>2. \A r \in Admitidas : r.id # id
      BY <1>2, <2>2, <3>1
    <3>. QED  BY <1>3, <3>1, <3>2 DEF InvL, LeidosOK
  <2>3. en' # "lectura"
    BY <1>1
  <2>. QED  BY <1>3, <2>1, <2>2, <2>3 DEF LeidosOK, Ids
<1>. QED  BY <1>8, <1>9 DEF InvL

\* An address in memory and the frame it is in.
LEMMA DireccionConfig ==
    ASSUME NEW f \in Nat, NEW d \in Nat
    PROVE  /\ DireccionFisica(Config, f, d) = f * TamPagina + (d % TamPagina)
           /\ DireccionFisica(Config, f, d) \div TamPagina = f
<1>1. Config.tam_pagina = TamPagina /\ TamPagina \in Nat \ {0}
  BY TamanosAssumption DEF Config
<1>2. DireccionFisica(Config, f, d) = f * TamPagina + (d % TamPagina)
  BY <1>1, Direccion
<1>3. DireccionFisica(Config, f, d) \div TamPagina = f
  <2>1. d % TamPagina \in 0..(TamPagina - 1)
    BY <1>1, Cociente
  <2>. QED  BY <1>1, <1>2, <2>1, CocienteUnico
<1>. QED  BY <1>2, <1>3

\* A page that is given a frame finds it with zeros, as it had nothing.
LEMMA PasoMemMarcoL ==
    ASSUME InvR, InvK, InvC, InvT, InvP, InvL, MemMarco, Admitidas' = Admitidas
    PROVE  InvL'
<1>. DEFINE n0 == Pag(Logica)
<1>1. UNCHANGED <<en, pcb, leidos>>
  BY DEF MemMarco, cpu, hiloCpu
<1>2. /\ en = "marco" /\ DeMemoria /\ Len(fisicas) < Len(Logicas)
      /\ fisicas \in Seq(ToSet(fisicas))
  BY PidioMarco DEF InvP, MemMarco
<1>3. pcb \in Admitidas /\ n0 \in Paginas(pcb)
  BY <1>2, LogicaDe DEF InvT, InvP
<1>4. \/ MarcosQuietos /\ \A d \in DOMAIN usuario : usuario'[d] = usuario[d]
      \/ /\ Marco(pcb, n0) = -1 /\ PrimerLibre \in Nat
         /\ PrimerLibre < TamMemoria \div TamPagina
         /\ marcos[PrimerLibre] = -1
         /\ \A p \in Admitidas : \A n \in Paginas(p) :
              /\ Indice(p, n)' = Indice(p, n)
              /\ Marco(p, n)' = IF p = pcb /\ n = n0 THEN PrimerLibre ELSE Marco(p, n)
         /\ \A d \in DOMAIN usuario :
              usuario'[d] = IF d \div TamPagina = PrimerLibre THEN 0 ELSE usuario[d]
  BY PasoMarcoT DEF InvT, InvP
<1>5. TablasOK' /\ MarcosOK' /\ DOMAIN usuario' = DOMAIN usuario
  BY PasoMarcoT DEF InvT, InvP
<1>6. \A p : Escritas(p)' = Escritas(p)
  BY <1>1, <1>2 DEF Escritas
<1>7. CASE MarcosQuietos /\ \A d \in DOMAIN usuario : usuario'[d] = usuario[d]
  BY <1>1, <1>2, <1>6, <1>7, QuietoL
<1>. DEFINE Nuevo ==
         /\ Marco(pcb, n0) = -1 /\ PrimerLibre \in Nat
         /\ PrimerLibre < TamMemoria \div TamPagina
         /\ marcos[PrimerLibre] = -1
         /\ \A p \in Admitidas : \A n \in Paginas(p) :
              /\ Indice(p, n)' = Indice(p, n)
              /\ Marco(p, n)' = IF p = pcb /\ n = n0 THEN PrimerLibre ELSE Marco(p, n)
         /\ \A d \in DOMAIN usuario :
              usuario'[d] = IF d \div TamPagina = PrimerLibre THEN 0 ELSE usuario[d]
<1>8. CASE Nuevo
  <2>1. DOMAIN usuario = 0..(TamMemoria - 1)
    BY DEF InvT, MarcosOK
  <2>2. ASSUME NEW p \in Admitidas, NEW d \in 0..(p.tamanio - 1)
        PROVE  Contenido(p, d)' = Contenido(p, d)
    <3>1. PICK n : n = Pag(d) /\ n = Pag(d)'
      BY DEF Pag, Config
    <3>2. n \in Paginas(p)
      BY <3>1 DEF Paginas
    <3>3. Marco(p, n)' = IF p = pcb /\ n = n0 THEN PrimerLibre ELSE Marco(p, n)
      BY <1>8, <3>2
    <3>4. CASE p = pcb /\ n = n0
      <4>1. Contenido(p, d) = 0
        BY <1>8, <3>1, <3>4, ContenidoDe
      <4>2. PICK f : f = PrimerLibre
        OBVIOUS
      <4>3. f \in Nat /\ f # -1 /\ Marco(p, n)' = f /\ f < TamMemoria \div TamPagina
        <5>1. f \in Nat /\ Marco(p, n)' = f /\ f < TamMemoria \div TamPagina
          BY <1>8, <3>3, <3>4, <4>2
        <5>2. f # -1
          BY <5>1
        <5>. QED  BY <5>1, <5>2
      <4>4. d \in Nat /\ Config.tam_pagina = TamPagina
        <5>1. p.tamanio \in Nat
          BY AdmitidasHechas, DeUnPrograma
        <5>. QED  BY <5>1 DEF Config
      <4>5. /\ DireccionFisica(Config, f, d) = f * TamPagina + (d % TamPagina)
            /\ DireccionFisica(Config, f, d) \div TamPagina = f
        BY <4>3, <4>4, DireccionConfig
      <4>6. DireccionFisica(Config, f, d) \in DOMAIN usuario
        <5>1. d % TamPagina \in 0..(TamPagina - 1)
          BY <4>4, TamanosAssumption, Cociente
        <5>2. f * TamPagina + (d % TamPagina) \in 0..(TamMemoria - 1)
          BY <4>3, <5>1, TamanosAssumption, MarcoCabe
        <5>. QED  BY <2>1, <4>5, <5>2
      <4>7. usuario'[DireccionFisica(Config, f, d)] = 0
        BY <1>8, <4>2, <4>5, <4>6
      <4>8. Contenido(p, d)' = usuario'[DireccionFisica(Config, f, d)]
        BY <3>1, <4>3 DEF Contenido, Config
      <4>. QED  BY <4>1, <4>7, <4>8
    <3>5. CASE ~ (p = pcb /\ n = n0)
      <4>1. Marco(p, n)' = Marco(p, n)
        BY <3>3, <3>5
      <4>2. CASE Marco(p, n) = -1
        <5>1. Contenido(p, d) = 0
          BY <3>1, <4>2, ContenidoDe
        <5>2. Contenido(p, d)' = 0
          BY <3>1, <4>1, <4>2 DEF Contenido
        <5>. QED  BY <5>1, <5>2
      <4>3. CASE Marco(p, n) # -1
        <5>1. Fisica(p, d) \in DOMAIN usuario /\ Fisica(p, d) \div TamPagina = Marco(p, n)
          BY <2>1, <3>1, <4>3, FisicaDe DEF InvT
        <5>2. Marco(p, n) \in Nat /\ Marco(p, n) # PrimerLibre
          BY <1>8, <3>2, <4>3, MarcoPropio DEF InvT
        <5>3. usuario'[Fisica(p, d)] = usuario[Fisica(p, d)]
          BY <1>8, <5>1, <5>2
        <5>4. Contenido(p, d) = usuario[Fisica(p, d)]
          BY <3>1, <4>3, ContenidoDe
        <5>5. Contenido(p, d)' = usuario'[DireccionFisica(Config, Marco(p, n)', d)]
          BY <3>1, <4>1, <4>3 DEF Contenido, Config
        <5>6. DireccionFisica(Config, Marco(p, n)', d) = Fisica(p, d)
          BY <3>1, <4>1 DEF Fisica
        <5>. QED  BY <5>3, <5>4, <5>5, <5>6
      <4>. QED  BY <4>2, <4>3
    <3>. QED  BY <3>4, <3>5
  <2>3. MemoriaPropia'
    <3>1. ASSUME NEW p \in Admitidas, NEW d \in 0..(p.tamanio - 1)
          PROVE  Contenido(p, d)' = Aparte(p)[Escritas(p)'].mem[d]
      BY <1>6, <2>2 DEF InvL, MemoriaPropia
    <3>. QED  BY <3>1 DEF MemoriaPropia
  <2>4. LeidosOK'
    BY <1>1, <1>2 DEF InvL, LeidosOK, Ids
  <2>. QED  BY <2>3, <2>4 DEF InvL
<1>. HIDE DEF Nuevo
<1>9. Nuevo \/ (MarcosQuietos /\ \A d \in DOMAIN usuario : usuario'[d] = usuario[d])
  BY <1>4 DEF Nuevo
<1>. QED  BY <1>7, <1>8, <1>9

\* One address, or two.
LEMMA UnoODos ==
    ASSUME NEW n \in {1, 2}
    PROVE  n \in Nat /\ 1 \in 1..n /\ (n = 2 => 2 \in 1..n)
<1>1. CASE n = 1
  BY <1>1
<1>2. CASE n = 2
  BY <1>2
<1>. QED  BY <1>1, <1>2

\* The fields of the request of an instruction.
LEMMA CamposPedidos ==
    ASSUME NEW c, NEW f, f \in Seq(ToSet(f)), Len(f) \in {1, 2}, NEW g, NEW x,
           g = <<>> \/ g = <<x>>
    PROVE  /\ (<<c>> \o f \o g)[1] = c /\ (<<c>> \o f \o g)[2] = f[1]
           /\ Len(f) = 2 => (<<c>> \o f \o g)[3] = f[2]
           /\ Len(f) = 1 /\ g = <<x>> => (<<c>> \o f \o g)[3] = x
<1>. DEFINE S == ToSet(f) \cup {c, x}
            a == <<c>> \o f
<1>1. <<c>> \in Seq(S) /\ f \in Seq(S) /\ g \in Seq(S)
  <2>1. ToSet(f) \subseteq S /\ c \in S /\ x \in S
    OBVIOUS
  <2>. HIDE DEF S
  <2>2. f \in Seq(S)
    BY <2>1, SeqMonotonic
  <2>3. <<c>> \in Seq(S) /\ <<x>> \in Seq(S) /\ <<>> \in Seq(S)
    BY <2>1
  <2>. QED  BY <2>2, <2>3
<1>2. Len(f) \in Nat /\ 1 \in 1..Len(f) /\ (Len(f) = 2 => 2 \in 1..Len(f))
  BY UnoODos
<1>3. /\ a \in Seq(S) /\ Len(a) = 1 + Len(f) /\ a[1] = c
      /\ \A i \in 1..Len(f) : a[i + 1] = f[i]
  BY <1>1
<1>4. a[2] = f[1] /\ (Len(f) = 2 => a[3] = f[2])
  BY <1>2, <1>3
<1>. HIDE DEF a, S
<1>5. \A i \in 1..Len(a) : (a \o g)[i] = a[i]
  BY <1>1, <1>3
<1>6. g = <<x>> => (a \o g)[Len(a) + 1] = x
  BY <1>1, <1>3
<1>7. 1 \in 1..Len(a) /\ 2 \in 1..Len(a) /\ (Len(f) = 2 => 3 \in 1..Len(a))
      /\ (Len(f) = 1 => Len(a) + 1 = 3)
  BY <1>2, <1>3
<1>. QED  BY <1>3, <1>4, <1>5, <1>6, <1>7 DEF a

\* The request that the memory module serves is that of the instruction in hand.
LEMMA PidioInstruccion ==
    ASSUME InvR, InvK, InvC, InvT, InvP, Llega(INSTRUCCION_MEMORIA)
    PROVE  LET v == Campos(Pedido) IN
           /\ en \in {"lectura", "escritura"} /\ pedidos # <<>> /\ pedidos' = <<>>
           /\ respuestas = <<>> /\ DeMemoria
           /\ en = "lectura" <=> Instruccion.codigo = READ
           /\ 1 \in 1..Len(Logicas) /\ Logicas[1] = Instruccion.parametro1
           /\ v[1] = Instruccion.codigo /\ v[2] = fisicas[1]
           /\ Instruccion.codigo = WRITE => v[3] = Instruccion.parametro2
           /\ Instruccion.codigo = COPY => /\ v[3] = fisicas[2] /\ 2 \in 1..Len(Logicas)
                                           /\ Logicas[2] = Instruccion.parametro2
<1>. DEFINE v == Campos(Pedido)
            valor == IF Instruccion.codigo = WRITE THEN <<Instruccion.parametro2>> ELSE <<>>
<1>1. en \in {"lectura", "escritura"} /\ Pedida(INSTRUCCION_MEMORIA)
  BY QuienPide
<1>2. pedidos # <<>> /\ respuestas = <<>> /\ pedidos' = <<>> /\ v = Last(pedidos).v
  BY <1>1, PedidaLlega DEF Pedida, Llega
<1>3. /\ DeMemoria /\ Len(fisicas) = Len(Logicas)
      /\ en = "lectura" <=> Instruccion.codigo = READ
  BY <1>1 DEF InvP, FisicasOK
<1>4. v = <<Instruccion.codigo>> \o fisicas \o valor
  BY <1>1, <1>2 DEF InvP, ContenidosOK
<1>5. /\ fisicas \in Seq(ToSet(fisicas)) /\ Len(Logicas) \in {1, 2}
      /\ Logicas[1] = Instruccion.parametro1
      /\ Instruccion.codigo = COPY => Len(Logicas) = 2 /\ Logicas[2] = Instruccion.parametro2
      /\ Instruccion.codigo = WRITE => Len(Logicas) = 1
  BY DEF Logicas, InvC, PedidosOK, WRITE, COPY
<1>6. PICK c, f, g, x : /\ c = Instruccion.codigo /\ f = fisicas /\ g = valor
                        /\ x = Instruccion.parametro2
  OBVIOUS
<1>7. f \in Seq(ToSet(f)) /\ Len(f) \in {1, 2} /\ (g = <<>> \/ g = <<x>>)
      /\ (c = WRITE => g = <<x>>)
  <2>1. f \in Seq(ToSet(f)) /\ Len(f) \in {1, 2}
    BY <1>3, <1>5, <1>6
  <2>2. (c = WRITE => g = <<x>>) /\ (c # WRITE => g = <<>>)
    BY <1>6, Zenon
  <2>. QED  BY <2>1, <2>2
<1>8. /\ (<<c>> \o f \o g)[1] = c /\ (<<c>> \o f \o g)[2] = f[1]
      /\ Len(f) = 2 => (<<c>> \o f \o g)[3] = f[2]
      /\ Len(f) = 1 /\ g = <<x>> => (<<c>> \o f \o g)[3] = x
  BY <1>7, CamposPedidos
<1>. HIDE DEF valor, v
<1>9. v = <<c>> \o f \o g
  BY <1>4, <1>6
<1>10. /\ v[1] = c /\ v[2] = f[1] /\ (Len(f) = 2 => v[3] = f[2])
       /\ (Len(f) = 1 /\ g = <<x>> => v[3] = x)
  BY <1>8, <1>9
<1>11. 1 \in 1..Len(Logicas) /\ (Len(Logicas) = 2 => 2 \in 1..Len(Logicas))
  <2>1. PICK n : n = Len(Logicas) /\ n \in {1, 2}
    BY <1>5
  <2>2. 1 \in 1..n /\ (n = 2 => 2 \in 1..n)
    BY <2>1, UnoODos
  <2>. QED  BY <2>1, <2>2
<1>12. /\ c = WRITE => v[3] = x
       /\ c = COPY => v[3] = f[2] /\ 2 \in 1..Len(Logicas)
  BY <1>3, <1>5, <1>6, <1>7, <1>10, <1>11
<1>. QED  BY <1>1, <1>2, <1>3, <1>5, <1>6, <1>10, <1>11, <1>12 DEF v

\* A read answers what the process would read alone.
LEMMA PasoLeerL ==
    ASSUME InvR, InvK, InvC, InvT, InvP, InvL, MemInstruccion, Admitidas' = Admitidas,
           Instruccion.codigo = READ
    PROVE  InvL'
<1>. DEFINE v == Campos(Pedido)
<1>1. Llega(INSTRUCCION_MEMORIA)
  BY DEF MemInstruccion
<1>2. /\ en = "lectura" /\ pedidos # <<>> /\ respuestas = <<>>
      /\ 1 \in 1..Len(Logicas) /\ Logicas[1] = Instruccion.parametro1
      /\ v[1] = READ /\ v[2] = fisicas[1]
  BY <1>1, PidioInstruccion
<1>3. /\ UNCHANGED <<tablas1, tablas2, usuario, en, pcb, leidos>>
      /\ respuestas' = respuestas \o Paquete(PAQUETE, <<Leer(usuario, v[2])>>)
  BY <1>2 DEF MemInstruccion, cpu, hiloCpu
<1>4. Leer(usuario, fisicas[1]) = Leer(Aparte(pcb)[pcb.pc].mem, Logicas[1])
  BY <1>2, Leido
<1>5. Last(respuestas').v = <<Leer(Aparte(pcb)[pcb.pc].mem, Instruccion.parametro1)>>
  <2>1. respuestas' = Paquete(PAQUETE, <<Leer(usuario, v[2])>>)
    BY <1>2, <1>3, EnVacio
  <2>2. Last(respuestas').v = <<Leer(usuario, v[2])>>
    BY <2>1, PaqueteSolo
  <2>. QED  BY <1>2, <1>4, <2>2
<1>. HIDE DEF v
<1>6. \A p : Escritas(p)' = Escritas(p)
  BY <1>2, <1>3 DEF Escritas
<1>7. MarcosQuietos
  BY <1>3, TablasQuedan
<1>8. MemoriaPropia'
  <2>1. ASSUME NEW p \in Admitidas, NEW d \in 0..(p.tamanio - 1)
        PROVE  Contenido(p, d)' = Aparte(p)[Escritas(p)'].mem[d]
    BY <1>3, <1>6, <1>7, ContenidoQuieto DEF InvL, MemoriaPropia
  <2>. QED  BY <2>1 DEF MemoriaPropia
<1>9. LeidosOK'
  BY <1>3, <1>5 DEF InvL, LeidosOK, Ids, Instruccion
<1>. QED  BY <1>8, <1>9 DEF InvL

\* What a write leaves in memory is what it leaves to the process alone, in its bytes
\* and in all the others.
LEMMA EscribirPropio ==
    ASSUME InvR, InvK, InvT, InvL, NEW p \in Admitidas, NEW d, Dentro(p, d),
           Marco(p, Pag(d)) # -1, NEW w, NEW u, u = Escribir(usuario, Fisica(p, d), w),
           NEW m, m = Aparte(p)[p.pc].mem, DOMAIN m = 0..(p.tamanio - 1),
           \A q \in Admitidas : Escritas(q) = q.pc
    PROVE  \A q \in Admitidas : \A e \in 0..(q.tamanio - 1) :
             (IF Marco(q, Pag(e)) = -1 THEN 0 ELSE u[Fisica(q, e)])
                = IF q = p THEN Escribir(m, d, w)[e] ELSE Aparte(q)[q.pc].mem[e]
<1>. DEFINE F == Fisica(p, d)
<1>1. \A k \in 0..3 : /\ Fisica(p, d + k) = F + k /\ Marco(p, Pag(d + k)) # -1
                      /\ d + k \in 0..(p.tamanio - 1)
  BY FisicaBytes DEF InvT
<1>2. d \in Int /\ F \in Int
  <2>1. 0 \in 0..3
    OBVIOUS
  <2>2. d \in Nat /\ Fisica(p, d) \in 0..(TamMemoria - 1)
    BY <2>1, FisicaBytes DEF InvT
  <2>. QED  BY <2>2
<1>3. DOMAIN usuario = 0..(TamMemoria - 1)
  BY DEF InvT, MarcosOK
<1>. HIDE DEF F
<1>4. /\ \A k \in 0..3 : F + k \in DOMAIN usuario => u[F + k] = (w \div 256 ^ k) % 256
      /\ \A e \in DOMAIN usuario : (\A k \in 0..3 : e # F + k) => u[e] = usuario[e]
  <2>1. u = Escribir(usuario, F, w)
    BY DEF F
  <2>. QED  BY <1>2, <2>1, EscribirBytes
<1>5. /\ \A k \in 0..3 : d + k \in DOMAIN m => Escribir(m, d, w)[d + k] = (w \div 256 ^ k) % 256
      /\ \A e \in DOMAIN m : (\A k \in 0..3 : e # d + k) => Escribir(m, d, w)[e] = m[e]
  <2>1. PICK y, z : y = Escribir(m, d, w) /\ z = m
    OBVIOUS
  <2>2. /\ \A k \in 0..3 : d + k \in DOMAIN z => y[d + k] = (w \div 256 ^ k) % 256
        /\ \A e \in DOMAIN z : (\A k \in 0..3 : e # d + k) => y[e] = z[e]
    <3>1. y = Escribir(z, d, w)
      BY <2>1
    <3>. QED  BY <1>2, <3>1, EscribirBytes
  <2>. QED  BY <2>1, <2>2
<1>6. ASSUME NEW q \in Admitidas, NEW e \in 0..(q.tamanio - 1)
      PROVE  (IF Marco(q, Pag(e)) = -1 THEN 0 ELSE u[Fisica(q, e)])
                = IF q = p THEN Escribir(m, d, w)[e] ELSE Aparte(q)[q.pc].mem[e]
  <2>1. Contenido(q, e) = Aparte(q)[q.pc].mem[e]
    BY DEF InvL, MemoriaPropia
  <2>2. Marco(q, Pag(e)) # -1 => Fisica(q, e) \in DOMAIN usuario
    BY <1>3, FisicaDe DEF InvT
  <2>3. CASE \E k \in 0..3 : q = p /\ e = d + k
    <3>1. PICK k \in 0..3 : q = p /\ e = d + k
      BY <2>3
    <3>2. Fisica(q, e) = F + k /\ Marco(q, Pag(e)) # -1
      BY <1>1, <3>1
    <3>3. u[Fisica(q, e)] = (w \div 256 ^ k) % 256
      BY <1>4, <2>2, <3>2
    <3>4. Escribir(m, d, w)[e] = (w \div 256 ^ k) % 256
      BY <1>1, <1>5, <3>1
    <3>. QED  BY <3>1, <3>2, <3>3, <3>4
  <2>4. CASE ~ \E k \in 0..3 : q = p /\ e = d + k
    <3>1. q = p => Escribir(m, d, w)[e] = m[e]
      <4>1. q = p => \A k \in 0..3 : e # d + k
        BY <2>4
      <4>. QED  BY <1>5, <4>1
    <3>2. CASE Marco(q, Pag(e)) = -1
      <4>1. Contenido(q, e) = 0
        BY <3>2, ContenidoDe
      <4>. QED  BY <2>1, <3>1, <3>2, <4>1
    <3>3. CASE Marco(q, Pag(e)) # -1
      <4>1. Contenido(q, e) = usuario[Fisica(q, e)]
        BY <3>3, ContenidoDe
      <4>2. ASSUME NEW k \in 0..3, Fisica(q, e) = F + k
            PROVE  FALSE
        <5>1. Fisica(p, d + k) = F + k /\ Marco(p, Pag(d + k)) # -1
              /\ d + k \in 0..(p.tamanio - 1)
          BY <1>1
        <5>2. q = p /\ e = d + k
          BY <3>3, <4>2, <5>1, FisicaDe DEF InvT
        <5>. QED  BY <2>4, <5>2
      <4>3. u[Fisica(q, e)] = usuario[Fisica(q, e)]
        BY <1>4, <2>2, <3>3, <4>2
      <4>. QED  BY <2>1, <3>1, <3>3, <4>1, <4>3
    <3>. QED  BY <3>2, <3>3
  <2>. QED  BY <2>3, <2>4
<1>. QED  BY <1>6

\* What WRITE and COPY leave in memory is what the program run alone leaves.
LEMMA PasoEscribirL ==
    ASSUME InvR, InvK, InvC, InvT, InvP, InvL, MemInstruccion, Admitidas' = Admitidas,
           Instruccion.codigo # READ
    PROVE  InvL'
<1>. DEFINE v == Campos(Pedido)
            a == Aparte(pcb)[pcb.pc]
            b == Aparte(pcb)[pcb.pc + 1]
            w == IF Instruccion.codigo = COPY THEN Leer(a.mem, Instruccion.parametro2)
                 ELSE Instruccion.parametro2
            valor == IF v[1] = COPY THEN Leer(usuario, v[3]) ELSE v[3]
<1>1. Llega(INSTRUCCION_MEMORIA)
  BY DEF MemInstruccion
<1>2. /\ en = "escritura" /\ pedidos # <<>> /\ respuestas = <<>> /\ pedidos' = <<>>
      /\ 1 \in 1..Len(Logicas) /\ Logicas[1] = Instruccion.parametro1
      /\ v[1] = Instruccion.codigo /\ v[2] = fisicas[1] /\ DeMemoria
      /\ Instruccion.codigo = WRITE => v[3] = Instruccion.parametro2
      /\ Instruccion.codigo = COPY => /\ v[3] = fisicas[2] /\ 2 \in 1..Len(Logicas)
                                      /\ Logicas[2] = Instruccion.parametro2
  BY <1>1, PidioInstruccion
<1>3. Instruccion.codigo \in {WRITE, COPY} /\ COPY # READ /\ WRITE # READ /\ WRITE # COPY
  BY <1>2 DEF DeMemoria, READ, WRITE, COPY
<1>4. /\ pcb \in Admitidas /\ pcb.tamanio \in Nat /\ pcb.pc \in Nat
      /\ Propio(pcb.tamanio, a) /\ b = Paso(a, Instruccion)
  BY <1>2, AparteSigue
<1>5. /\ fisicas[1] = Fisica(pcb, Logicas[1]) /\ Marco(pcb, Pag(Logicas[1])) # -1
      /\ Dentro(pcb, Logicas[1])
  BY <1>2, Leido
<1>6. valor = w
  <2>1. CASE Instruccion.codigo = COPY
    <3>1. Leer(usuario, fisicas[2]) = Leer(a.mem, Logicas[2])
      BY <1>2, <2>1, Leido
    <3>. QED  BY <1>2, <2>1, <3>1
  <2>2. CASE Instruccion.codigo = WRITE
    BY <1>2, <1>3, <2>2
  <2>. QED  BY <1>3, <2>1, <2>2
<1>7. ~ (v[2] > TamMemoria)
  <2>1. 0 \in 0..3
    OBVIOUS
  <2>2. Fisica(pcb, Logicas[1]) \in 0..(TamMemoria - 1)
    BY <1>4, <1>5, <2>1, FisicaBytes DEF InvT
  <2>. QED  BY <1>2, <1>5, <2>2, TamanosAssumption
<1>8. /\ usuario' = Escribir(usuario, v[2], valor)
      /\ UNCHANGED <<tablas1, tablas2, en, pcb, leidos>>
  BY <1>2, <1>3, <1>7, Zenon DEF MemInstruccion, cpu, hiloCpu
<1>. HIDE DEF v, w, valor
<1>9. /\ b.mem = Escribir(a.mem, Instruccion.parametro1, w) /\ b.leidos = a.leidos
      /\ DOMAIN a.mem = 0..(pcb.tamanio - 1)
  <2>1. PICK n, r, i : n = pcb.tamanio /\ r = a /\ i = Instruccion
    OBVIOUS
  <2>. HIDE DEF a, b
  <2>2. Propio(n, r) /\ b = Paso(r, i)
    BY <1>4, <2>1
  <2>3. /\ i.codigo = WRITE => /\ Paso(r, i).mem = Escribir(r.mem, i.parametro1, i.parametro2)
                               /\ Paso(r, i).leidos = r.leidos
        /\ i.codigo = COPY =>
             /\ Paso(r, i).mem = Escribir(r.mem, i.parametro1, Leer(r.mem, i.parametro2))
             /\ Paso(r, i).leidos = r.leidos
    BY <2>2, PasoEfecto, Zenon
  <2>4. DOMAIN r.mem = 0..(n - 1)
    BY <2>2 DEF Propio
  <2>. QED  BY <1>3, <2>1, <2>2, <2>3, <2>4 DEF w
<1>10. PICK p, d, u, x : /\ p = pcb /\ d = Logicas[1] /\ u = usuario' /\ x = w /\ p = pcb'
  BY <1>8
<1>11. \A q \in Admitidas : Escritas(q) = q.pc
  BY <1>2, EscritasDe
<1>12. /\ p \in Admitidas /\ Dentro(p, d) /\ Marco(p, Pag(d)) # -1
       /\ u = Escribir(usuario, Fisica(p, d), x) /\ DOMAIN Aparte(p)[p.pc].mem = 0..(p.tamanio - 1)
       /\ Aparte(p)[p.pc + 1].mem = Escribir(Aparte(p)[p.pc].mem, d, x)
  <2>1. Marco(p, Pag(d)) = Marco(pcb, Pag(Logicas[1]))
    BY <1>10
  <2>. QED  BY <1>2, <1>4, <1>5, <1>6, <1>8, <1>9, <1>10, <2>1
<1>13. \A q \in Admitidas : \A e \in 0..(q.tamanio - 1) :
         (IF Marco(q, Pag(e)) = -1 THEN 0 ELSE u[Fisica(q, e)])
            = IF q = p THEN Escribir(Aparte(p)[p.pc].mem, d, x)[e] ELSE Aparte(q)[q.pc].mem[e]
  BY <1>11, <1>12, EscribirPropio
<1>14. \A q : Escritas(q)' = IF q = p THEN q.pc + 1 ELSE q.pc
  BY <1>2, <1>8, <1>10 DEF Escritas
<1>15. MemoriaPropia'
  <2>1. ASSUME NEW q \in Admitidas, NEW e \in 0..(q.tamanio - 1)
        PROVE  Contenido(q, e)' = Aparte(q)[Escritas(q)'].mem[e]
    <3>1. Contenido(q, e)' = IF Marco(q, Pag(e)) = -1 THEN 0 ELSE u[Fisica(q, e)]
      BY <1>8, <1>10 DEF Contenido, Fisica, Marco, Indice, Pag, Config
    <3>. QED  BY <1>12, <1>13, <1>14, <3>1
  <2>. QED  BY <2>1 DEF MemoriaPropia
<1>16. LeidosOK'
  BY <1>2, <1>8 DEF InvL, LeidosOK, Ids
<1>. QED  BY <1>15, <1>16 DEF InvL

-----------------------------------------------------------------------------
(* The invariant of LecturaEsperada.                                       *)

\* A step that leaves the queues and the tables alone.
LEMMA PasoQuietoTU ==
    ASSUME InvT, CuentaOK', SinMover, colaNew' = colaNew,
           UNCHANGED <<tablas1, tablas2, marcos, usuario>>
    PROVE  Admitidas' = Admitidas /\ InvT'
<1>1. Admitidas' = Admitidas /\ UnaVez'
  BY PasoQuietoU DEF InvT
<1>. QED  BY <1>1, PasoQuietoT DEF InvT

InvE == InvT /\ InvP /\ InvL

\* The steps of the threads, one by one: the consoles.
LEMMA PasoConsolaE ==
    ASSUME IInvEnlace, InvE, CuentaOK', NEW c \in Consolas, HiloConsola(c)
    PROVE  InvE'
<1>1. UNCHANGED <<nucleo, canales, cpu, memoria>>
  BY DEF HiloConsola
<1>2. UNCHANGED <<tablas1, tablas2, marcos, usuario, leidos, en, pcb, fisicas, tlb, ultimo_pid,
                  saludo, configuracion, pedidos, respuestas>>
  BY <1>1 DEF canales, cpu, hiloCpu, memoria
<1>3. Admitidas' = Admitidas /\ UnaVez'
  BY PasoConsolaU DEF IInvEnlace, InvE, InvT
<1>4. InvT'
  BY <1>2, <1>3, PasoQuietoT DEF InvE, InvT
<1>. QED  BY <1>2, <1>3, <1>4, TablasQuedan, PasoAjenoP, PasoAjenoL DEF IInvEnlace, InvE

\* The kernel: what it makes of the PCB received is the same process.
LEMMA PasoRecibirDeCpuE ==
    ASSUME IInvEnlace, InvE, CuentaOK', RecibirDeCpu
    PROVE  InvE'
<1>. InvR /\ InvK /\ InvC /\ InvT /\ InvP /\ InvL
  BY DEF IInvEnlace, InvE
<1>1. UNCHANGED <<tablas1, tablas2, marcos, usuario, leidos, en, pcb, fisicas, tlb, ultimo_pid,
                  saludo, configuracion>>
  BY DEF RecibirDeCpu, cpu, hiloCpu, memoria
<1>2. en = "dispatch" /\ pcb \in Admitidas /\ UnaVez'
  BY PasoRecibirDeCpuU DEF InvT
<1>3. PICK q \in Hechas :
        /\ q.id = pcb.id /\ q.pc = pcb.pc /\ q.tamanio = pcb.tamanio
        /\ q.tabla = pcb.tabla /\ q.instrucciones = pcb.instrucciones
        /\ Admitidas' = (Admitidas \ {pcb}) \cup {q}
  BY PasoRecibirDeCpuU DEF InvT
<1>4. ASSUME NEW p \in Admitidas'
      PROVE  \E r \in Admitidas :
               /\ p.id = r.id /\ p.pc = r.pc /\ p.tamanio = r.tamanio /\ p.tabla = r.tabla
               /\ p.instrucciones = r.instrucciones
               /\ p = r \/ (p = q /\ r = pcb)
  BY <1>2, <1>3
<1>5. InvT'
  <2>1. TablasOK'
    BY <1>1, <1>2, <1>3 DEF InvT, TablasOK
  <2>2. MarcosOK'
    BY <1>1 DEF InvT, MarcosOK, Tomado
  <2>. QED  BY <1>2, <2>1, <2>2 DEF InvT
<1>6. \A n : Indice(q, n) = Indice(pcb, n) /\ Marco(q, n) = Marco(pcb, n)
  BY <1>3 DEF Indice, Marco
<1>7. \A p, n : Marco(p, n)' = Marco(p, n)
  BY <1>1, TablasQuietas
<1>8. InvP'
  <2>1. FisicasOK'
    BY <1>1, <1>2 DEF InvP, FisicasOK, DeMemoria, Instruccion
  <2>2. TlbOK'
    <3>. SUFFICES ASSUME tlb # {}
                  PROVE  TlbOK'
      BY <1>1 DEF TlbOK
    <3>1. PICK p \in Admitidas :
            /\ p.id = ultimo_pid
            /\ \A t \in tlb :
                 t[1] \in Paginas(p) /\ Marco(p, t[1]) # -1 /\ t[2] = Marco(p, t[1])
      BY <1>2 DEF InvP, TlbOK
    <3>2. PICK r \in Admitidas' : /\ r.id = p.id /\ Paginas(r) = Paginas(p)
                                  /\ \A n : Marco(r, n) = Marco(p, n)
      <4>1. CASE p = pcb
        BY <1>3, <1>6, <4>1 DEF Paginas
      <4>2. CASE p # pcb
        BY <1>3, <4>2
      <4>. QED  BY <4>1, <4>2
    <3>3. ASSUME NEW t \in tlb
          PROVE  t[1] \in Paginas(r) /\ Marco(r, t[1])' # -1 /\ t[2] = Marco(r, t[1])'
      BY <1>7, <3>1, <3>2
    <3>4. \A t \in tlb' : t[1] \in Paginas(r)' /\ Marco(r, t[1])' # -1 /\ t[2] = Marco(r, t[1])'
      BY <1>1, <3>3 DEF Paginas, Pag, Config
    <3>. QED  BY <1>1, <1>2, <3>1, <3>2, <3>4 DEF TlbOK
  <2>3. ContenidosOK'
    BY <1>1, <1>2, SinContenidos
  <2>. QED  BY <2>1, <2>2, <2>3 DEF InvP
<1>9. MemoriaPropia'
  <2>1. ASSUME NEW p \in Admitidas', NEW d \in 0..(p.tamanio - 1)
        PROVE  Contenido(p, d)' = Aparte(p)[Escritas(p)'].mem[d]
    <3>1. PICK r \in Admitidas :
            /\ p.pc = r.pc /\ p.tamanio = r.tamanio /\ p.instrucciones = r.instrucciones
            /\ p = r \/ (p = q /\ r = pcb)
      BY <1>4
    <3>2. Marco(p, Pag(d))' = Marco(r, Pag(d))
      BY <1>6, <1>7, <3>1 DEF Pag, Config
    <3>3. Contenido(p, d)' = Contenido(r, d)
      BY <1>1, <3>2 DEF Contenido, Pag, Config
    <3>4. Escritas(p)' = p.pc /\ Escritas(r) = r.pc
      BY <1>1, <1>2 DEF Escritas
    <3>5. Aparte(p) = Aparte(r)
      BY <3>1, AparteDe
    <3>. QED  BY <3>1, <3>3, <3>4, <3>5 DEF InvL, MemoriaPropia
  <2>. QED  BY <2>1 DEF MemoriaPropia
<1>10. LeidosOK'
  <2>1. ASSUME NEW p \in Admitidas'
        PROVE  leidos[p.id] = Aparte(p)[p.pc].leidos
    <3>1. PICK r \in Admitidas : /\ p.id = r.id /\ p.pc = r.pc
                                 /\ p.tamanio = r.tamanio /\ p.instrucciones = r.instrucciones
      BY <1>4
    <3>2. Aparte(p) = Aparte(r)
      BY <3>1, AparteDe
    <3>. QED  BY <3>1, <3>2 DEF InvL, LeidosOK
  <2>2. ASSUME NEW id \in Ids, \A p \in Admitidas' : p.id # id
        PROVE  leidos[id] = <<>>
    <3>1. \A p \in Admitidas : p.id # id
      BY <1>3, <2>2
    <3>. QED  BY <3>1 DEF InvL, LeidosOK
  <2>3. DOMAIN leidos' = Ids'
    BY <1>1 DEF InvL, LeidosOK, Ids
  <2>4. Ids' = Ids
    BY DEF Ids
  <2>. QED  BY <1>1, <1>2, <2>1, <2>2, <2>3, <2>4 DEF LeidosOK
<1>. QED  BY <1>5, <1>8, <1>9, <1>10 DEF InvE, InvL

\* The kernel.
LEMMA PasoNucleoE ==
    ASSUME IInvEnlace, InvE, CuentaOK', Nucleo \/ Interrumpir
    PROVE  InvE'
<1>. InvR /\ InvK /\ InvC /\ InvT /\ InvP /\ InvL
  BY DEF IInvEnlace, InvE
<1>1. UNCHANGED <<marcos, usuario, leidos, en, pcb, fisicas, tlb, ultimo_pid,
                  saludo, configuracion, pedidos, respuestas>>
  BY DEF Nucleo, Admitir, Despachar, RecibirDeCpu, Interrumpir, nucleo, canales, cpu, hiloCpu,
         memoria
<1>2. CASE Admitir
  <2>1. PICK q : q = [Last(colaNew) EXCEPT !.tabla = Len(tablas1)]
    OBVIOUS
  <2>2. TablasOK' /\ MarcosOK' /\ MarcosQuietos
    BY <1>2, <2>1, PasoAdmitirT DEF InvT
  <2>3. Admitidas \subseteq Admitidas' /\ UnaVez'
    BY <1>2, PasoAdmitirU DEF InvT
  <2>4. InvP'
    BY <1>1, <2>2, <2>3, QuietosQuedan, PasoAjenoP
  <2>. QED  BY <1>2, <2>2, <2>3, <2>4, PasoAdmitirL DEF InvE, InvT
<1>3. CASE Despachar
  <2>1. UNCHANGED <<tablas1, tablas2>>
    BY <1>3 DEF Despachar, memoria
  <2>2. Admitidas' = Admitidas /\ UnaVez'
    BY <1>3, PasoDespacharU DEF InvT
  <2>3. InvT'
    BY <1>1, <2>1, <2>2, PasoQuietoT DEF InvT
  <2>. QED  BY <1>1, <2>1, <2>2, <2>3, TablasQuedan, PasoAjenoP, PasoAjenoL DEF InvE
<1>4. CASE Interrumpir
  <2>1. UNCHANGED <<tablas1, tablas2>> /\ SinMover /\ colaNew' = colaNew
    BY <1>4 DEF Interrumpir, memoria, nucleo, canales, SinMover, varsRecepcion
  <2>2. Admitidas' = Admitidas /\ InvT'
    BY <1>1, <2>1, PasoQuietoTU
  <2>. QED  BY <1>1, <2>1, <2>2, TablasQuedan, PasoAjenoP, PasoAjenoL DEF InvE
<1>. QED  BY <1>2, <1>3, <1>4, PasoRecibirDeCpuE DEF Nucleo

\* The greeting between CPU and memory.
LEMMA PasoSaludoE ==
    ASSUME IInvEnlace, InvE, CuentaOK', Saludo
    PROVE  InvE'
<1>. InvR /\ InvK /\ InvC /\ InvT /\ InvP /\ InvL
  BY DEF IInvEnlace, InvE
<1>1. /\ UNCHANGED <<tablas1, tablas2, marcos, usuario, leidos, en, pcb>>
      /\ SinMover /\ colaNew' = colaNew /\ saludo \in {"pedir", "esperar"}
  BY DEF Saludo, PedirHandshake, RecibirHandshake, hiloCpu, memoria, nucleo, SinMover, varsRecepcion
<1>2. Admitidas' = Admitidas /\ InvT'
  BY <1>1, PasoQuietoTU
<1>3. en \in {"dispatch", "ciclo"}
  BY <1>1 DEF InvC, HandshakeOK
<1>4. InvL'
  BY <1>1, <1>2, <1>3, PasoAjenoL
<1>. QED  BY <1>2, <1>4, PasoSaludoP DEF InvE

\* The CPU.
LEMMA PasoCpuE ==
    ASSUME IInvEnlace, InvE, CuentaOK', HiloCpu
    PROVE  InvE'
<1>. InvR /\ InvK /\ InvC /\ InvT /\ InvP /\ InvL
  BY DEF IInvEnlace, InvE
<1>1. CASE RecibirProceso
  <2>1. /\ UNCHANGED <<tablas1, tablas2, marcos, usuario, leidos>> /\ en = "dispatch"
        /\ en' = "ciclo"
    BY <1>1 DEF RecibirProceso, memoria
  <2>2. Admitidas' = Admitidas /\ UnaVez'
    BY <1>1, PasoRecibirProcesoU DEF InvT
  <2>3. InvT'
    BY <2>1, <2>2, PasoQuietoT DEF InvT
  <2>. QED  BY <1>1, <2>1, <2>2, <2>3, PasoRecibirProcesoP, PasoAjenoL DEF InvE
<1>2. CASE Ejecutar \/ RecibirLectura \/ RecibirEscritura
  <2>1. DeMemoriaOK
    BY DEF InvC
  <2>2. InvT'
    BY <1>2, <2>1, PasoInstruccionU, PasoInstruccionT DEF InvT
  <2>. QED  BY <1>2, <2>2, PasoFinP, PasoFinL DEF InvE
<1>3. CASE Acertar \/ PedirTabla \/ TraducirSinHandshake \/ RecibirTabla \/ RecibirMarco
             \/ PedirInstruccion
  <2>1. /\ UNCHANGED <<tablas1, tablas2, marcos, usuario, leidos>> /\ SinMover
        /\ colaNew' = colaNew
    BY <1>3 DEF Acertar, PedirTabla, TraducirSinHandshake, RecibirTabla, RecibirMarco,
                PedirInstruccion, memoria, nucleo, canales, cpu, hiloCpu, SinMover, varsRecepcion
  <2>2. Admitidas' = Admitidas /\ InvT'
    BY <2>1, PasoQuietoTU
  <2>3. InvP'
    <3>1. CASE TraducirSinHandshake
      <4>1. UNCHANGED <<en, pcb, fisicas, tlb, ultimo_pid, saludo, configuracion, pedidos,
                        respuestas>>
        BY <3>1 DEF TraducirSinHandshake, canales, cpu, hiloCpu
      <4>. QED  BY <2>1, <2>2, <4>1, TablasQuedan, PasoAjenoP
    <3>. QED  BY <1>3, <2>2, <3>1, PasoAcertarP, PasoPedirTablaP, PasoRecibirTablaP,
                 PasoRecibirMarcoP, PasoPedirInstruccionP
  <2>4. \/ UNCHANGED <<en, pcb, pedidos, respuestas>>
        \/ en # "escritura" /\ (en' = "escritura" => pedidos' # <<>>)
           /\ (en' = "lectura" => respuestas' = <<>>)
    <3>1. CASE Acertar \/ TraducirSinHandshake
      BY <3>1 DEF Acertar, TraducirSinHandshake, canales, cpu, hiloCpu
    <3>2. CASE PedirTabla \/ RecibirTabla \/ RecibirMarco
      BY <3>2 DEF PedirTabla, PorTraducir, RecibirTabla, RecibirMarco
    <3>3. CASE PedirInstruccion
      <4>. DEFINE x == <<Instruccion.codigo>> \o fisicas \o
                (IF Instruccion.codigo = WRITE THEN <<Instruccion.parametro2>> ELSE <<>>)
      <4>1. /\ en = "ciclo" /\ Len(fisicas) = Len(Logicas) /\ respuestas' = respuestas
            /\ pedidos' = pedidos \o Paquete(INSTRUCCION_MEMORIA, x)
        BY <3>3 DEF PedirInstruccion
      <4>2. fisicas # <<>>
        <5>1. Len(Logicas) \in {1, 2}
          BY DEF Logicas
        <5>. QED  BY <4>1, <5>1
      <4>3. pedidos \in {<<>>, Ceros} /\ respuestas = <<>>
        BY <4>1, <4>2, AntesDePedir
      <4>. HIDE DEF x
      <4>4. Pedida(INSTRUCCION_MEMORIA)'
        BY <4>1, <4>3, PedidaNueva
      <4>5. pedidos' # <<>>
        BY <4>4 DEF Pedida
      <4>. QED  BY <4>1, <4>3, <4>5
    <3>. QED  BY <1>3, <3>1, <3>2, <3>3
  <2>5. InvL'
    BY <2>1, <2>2, <2>4, PasoAjenoL
  <2>. QED  BY <2>2, <2>3, <2>5 DEF InvE
<1>. QED  BY <1>1, <1>2, <1>3 DEF HiloCpu

\* Memory.
LEMMA PasoMemoriaE ==
    ASSUME IInvEnlace, InvE, CuentaOK', HiloMemoria
    PROVE  InvE'
<1>. InvR /\ InvK /\ InvC /\ InvT /\ InvP /\ InvL
  BY DEF IInvEnlace, InvE
<1>1. SinMover /\ colaNew' = colaNew /\ UNCHANGED <<leidos, en, pcb>>
  BY DEF HiloMemoria, MemHandshake, MemTabla, MemMarco, MemInstruccion, nucleo, cpu, hiloCpu,
         SinMover, varsRecepcion
<1>2. Admitidas' = Admitidas /\ UnaVez'
  BY <1>1, PasoQuietoU DEF InvT
<1>3. CASE MemHandshake \/ MemTabla
  <2>1. UNCHANGED <<tablas1, tablas2, marcos, usuario>>
    BY <1>3 DEF MemHandshake, MemTabla, memoria
  <2>2. InvT'
    BY <1>2, <2>1, PasoQuietoT DEF InvT
  <2>3. en \notin {"lectura", "escritura"}
    <3>1. CASE MemHandshake
      <4>1. saludo = "esperar"
        BY <3>1, QuienPide
      <4>. QED  BY <4>1 DEF InvC, HandshakeOK
    <3>2. CASE MemTabla
      <4>1. Llega(TABLA)
        BY <3>2 DEF MemTabla
      <4>. QED  BY <4>1, QuienPide
    <3>. QED  BY <1>3, <3>1, <3>2
  <2>4. InvL'
    BY <1>1, <1>2, <2>1, <2>3, PasoAjenoL
  <2>5. InvP'
    BY <1>2, <1>3, PasoMemHandshakeP, PasoMemTablaP
  <2>. QED  BY <2>2, <2>4, <2>5 DEF InvE
<1>4. CASE MemMarco
  BY <1>2, <1>4, PasoMarcoT, PasoMemMarcoP, PasoMemMarcoL DEF InvE, InvT, InvP
<1>5. CASE MemInstruccion
  <2>1. UNCHANGED <<tablas1, tablas2, marcos>> /\ DOMAIN usuario' = DOMAIN usuario
    <3>1. \A d, v : DOMAIN Escribir(usuario, d, v) = DOMAIN usuario
      BY DEF Escribir
    <3>. QED  BY <1>5, <3>1, Zenon DEF MemInstruccion
  <2>2. InvT'
    BY <1>2, <2>1, PasoQuietoT DEF InvT
  <2>. QED  BY <1>2, <1>5, <2>2, PasoMemInstruccionP, PasoLeerL, PasoEscribirL DEF InvE
<1>. QED  BY <1>3, <1>4, <1>5 DEF HiloMemoria

\* Every step but those of an end keeps the invariant.
LEMMA SiguienteE ==
    ASSUME IInvEnlace, InvE, [NextEnlace]_varsEnlace, ~ HiloFin
    PROVE  InvE'
<1>1. CuentaOK'
  BY PasoCuenta DEF IInvEnlace, InvE, InvT, UnaVez, CuentaOK
<1>2. CASE UNCHANGED varsEnlace
  <2>1. /\ UNCHANGED <<tablas1, tablas2, marcos, usuario, leidos, en, pcb, fisicas, tlb,
                       ultimo_pid, saludo, configuracion, pedidos, respuestas>>
        /\ SinMover /\ colaNew' = colaNew
    BY <1>2 DEF varsEnlace, nucleo, canales, cpu, hiloCpu, memoria, varsRecepcion, SinMover
  <2>2. Admitidas' = Admitidas /\ InvT'
    BY <1>1, <2>1, PasoQuietoTU DEF InvE
  <2>. QED  BY <2>1, <2>2, TablasQuedan, PasoAjenoP, PasoAjenoL DEF IInvEnlace, InvE
<1>3. CASE NextEnlace
  BY <1>1, <1>3, PasoConsolaE, PasoNucleoE, PasoSaludoE, PasoCpuE, PasoMemoriaE DEF NextEnlace
<1>. QED  BY <1>2, <1>3

\* The invariant holds at the start.
LEMMA InicioE == InitEnlace => InvE
<1>. SUFFICES ASSUME InitEnlace
              PROVE  InvE
  OBVIOUS
<1>1. /\ colaNew = <<>> /\ colaReady = <<>> /\ colaExec = <<>> /\ colaExit = <<>>
      /\ generador_de_id = 0 /\ saludo = "pedir" /\ en = "dispatch" /\ fisicas = <<>> /\ tlb = {}
      /\ leidos = [id \in Ids |-> <<>>] /\ tablas1 = <<>> /\ tablas2 = <<>> /\ marcos = [f \in Marcos |-> -1]
      /\ fin = Servidos(0)
      /\ usuario = [d \in 0..(TamMemoria - 1) |-> Basura]
      /\ \A c \in Consolas : atencion[c].en = "consola"
  BY DEF InitEnlace, InitRecepcion
<1>2. Admitidas = {} /\ EnExec = {}
  BY <1>1 DEF Admitidas, EnExec, ToSet
<1>3. UnaVez
  <2>1. Creadas = {} /\ Cardinality({}) = 0
    BY <1>1, FS_EmptySet DEF Creadas
  <2>2. ToSet(<<>>) = {} /\ SinRepetir(<<>>)
    BY DEF ToSet, SinRepetir
  <2>. QED  BY <1>1, <1>2, <2>1, <2>2 DEF UnaVez, Ajenas
<1>4. TablasOK /\ MarcosOK
  BY <1>1, <1>2 DEF TablasOK, MarcosOK
<1>5. InvP
  <2>1. Len(Logicas) \in {1, 2}
    BY DEF Logicas
  <2>. QED  BY <1>1, <2>1 DEF InvP, FisicasOK, TlbOK, ContenidosOK
<1>6. InvL
  BY <1>1, <1>2 DEF InvL, MemoriaPropia, LeidosOK
<1>. QED  BY <1>3, <1>4, <1>5, <1>6 DEF InvE, InvT

FinOK == fin \in [en : {"libre", "limpiar"}, hechos : Nat]

\* No other thread serves the ends.
LEMMA OtrosSinFin ==
    ASSUME [NextEnlace]_varsEnlace, ~ HiloFin
    PROVE  fin' = fin
<1>1. Nucleo \/ Interrumpir \/ Saludo => fin' = fin
  BY DEF Nucleo, Admitir, Despachar, RecibirDeCpu, Interrumpir, Saludo, PedirHandshake,
     RecibirHandshake, memoria
<1>2. HiloCpu => fin' = fin
  BY DEF HiloCpu, RecibirProceso, Ejecutar, Acertar, PedirTabla, TraducirSinHandshake,
     RecibirTabla, RecibirMarco, PedirInstruccion, RecibirLectura, RecibirEscritura, memoria
<1>3. HiloMemoria => fin' = fin
  BY DEF HiloMemoria, MemHandshake, MemTabla, MemMarco, MemInstruccion, memoria
<1>4. \A c \in Consolas : HiloConsola(c) => fin' = fin
  BY DEF HiloConsola, memoria
<1>5. UNCHANGED varsEnlace => fin' = fin
  BY DEF varsEnlace, memoria
<1>. QED  BY <1>1, <1>2, <1>3, <1>4, <1>5 DEF NextEnlace

\* The first end is never taken back.
LEMMA SiguienteFin ==
    ASSUME FinOK, [NextEnlace]_varsEnlace
    PROVE  FinOK' /\ (SinFines' => SinFines /\ ~ HiloFin)
<1>1. CASE HiloFin
  <2>1. \/ fin' = [fin EXCEPT !.en = "limpiar"]
        \/ fin' = [en |-> "libre", hechos |-> fin.hechos + 1]
    BY <1>1 DEF HiloFin, Finalizar, Limpiar, Servidos
  <2>. QED  BY <2>1 DEF FinOK, SinFines, Servidos
<1>2. CASE ~ HiloFin
  <2>1. fin' = fin
    BY <1>2, OtrosSinFin
  <2>. QED  BY <1>2, <2>1 DEF FinOK, SinFines, Servidos
<1>. QED  BY <1>1, <1>2

\* Until the first end, the invariant holds.
LEMMA InvESiempre == SpecEnlace => [](IInvEnlace /\ FinOK /\ (SinFines => InvE))
<1>1. InitEnlace => FinOK /\ InvE
  BY InicioE DEF InitEnlace, FinOK, Servidos
<1>2. IInvEnlace /\ FinOK /\ (SinFines => InvE) /\ [NextEnlace]_varsEnlace
        => FinOK' /\ (SinFines' => InvE')
  BY SiguienteE, SiguienteFin
<1>. QED  BY <1>1, <1>2, SiempreEnlace, PTL DEF SpecEnlace

\* As long as the memory module has served no end, and with enough frames for every
\* page and nobody suspended, every READ logs what it would if the process ran alone on
\* a memory of its own, in which a byte that was not written is 0, whatever the order of
\* admission and dispatch, the interrupts and the processes in between (ejecutarREAD,
\* traducir_dir_logica, manejo_instrucciones, devolver_marco).
THEOREM LecturaSiempreEsperada == SpecEnlace => []LecturaEsperada
<1>1. IInvEnlace /\ (SinFines => InvE) => LecturaEsperada
  <2>. SUFFICES ASSUME IInvEnlace, InvE
                PROVE  \A p \in EnLaCpu \cup ToSet(colaReady \o colaExit) :
                           leidos[p.id] = Aparte(p)[p.pc].leidos
    BY DEF LecturaEsperada
  <2>1. \A p \in Admitidas : leidos[p.id] = Aparte(p)[p.pc].leidos
    BY DEF InvE, InvL, LeidosOK
  <2>2. EnLaCpu \subseteq Admitidas
    BY DondeExec DEF EnLaCpu, Admitidas, IInvEnlace
  <2>3. ToSet(colaReady \o colaExit) \subseteq Admitidas
    <3>1. colaReady \in Seq(Hechas) /\ colaExit \in Seq(Hechas)
      <4>1. Vivas \subseteq Hechas /\ colaReady \in Seq(Vivas) /\ colaExit \in Seq(Hechas)
        BY AdmitidasHechas DEF IInvEnlace, InvK, ColasOK
      <4>. QED  BY <4>1, SeqMonotonic
    <3>2. \A s, t \in Seq(Hechas) : ToSet(s \o t) \subseteq ToSet(s) \cup ToSet(t)
      <4>1. ASSUME NEW s \in Seq(Hechas), NEW t \in Seq(Hechas), NEW i \in DOMAIN (s \o t)
            PROVE  (s \o t)[i] \in ToSet(s) \cup ToSet(t)
        <5>1. \/ i \in DOMAIN s /\ (s \o t)[i] = s[i]
              \/ i - Len(s) \in DOMAIN t /\ (s \o t)[i] = t[i - Len(s)]
          BY <4>1
        <5>. QED  BY <5>1 DEF ToSet
      <4>. QED  BY <4>1 DEF ToSet
    <3>. QED  BY <3>1, <3>2 DEF Admitidas
  <2>. QED  BY <2>1, <2>2, <2>3
<1>. QED  BY <1>1, InvESiempre, PTL

=============================================================================
