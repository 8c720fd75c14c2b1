---------------------------- MODULE MemoriaProofs ----------------------------
(***************************************************************************)
(* The memory module for every number of processes, pages and frames, with *)
(* any replacement algorithm and any requests of the kernel, alone or      *)
(* under the MMU and the TLB of the CPU.                                   *)
(***************************************************************************)
EXTENDS MemoriaInv, RelojProofs, SequenceTheorems

-----------------------------------------------------------------------------
(* The pages of a process in the order of their frames.                    *)

LEMMA EnOrdenCorrecto ==
    ASSUME NEW q, NEW S \in SUBSET Paginas, \A g \in S : tabla[q][g].marco \in Nat
    PROVE  /\ Cardinality(S) \in Nat /\ IsFiniteSet(S) /\ (S # {} => Cardinality(S) # 0)
           /\ EnOrden(q, S) \in Seq(Paginas) /\ Len(EnOrden(q, S)) = Cardinality(S)
           /\ DOMAIN EnOrden(q, S) = 1..Cardinality(S)
           /\ \A i \in DOMAIN EnOrden(q, S) : EnOrden(q, S)[i] \in S
           /\ \A i, j \in DOMAIN EnOrden(q, S) : EnOrden(q, S)[i] = EnOrden(q, S)[j] => i = j
           /\ \A g \in S : \E i \in DOMAIN EnOrden(q, S) : EnOrden(q, S)[i] = g
<1>1. IsFiniteSet(S)
  BY PaginasAssumption, FS_Subset
<1>2. Cardinality(S) \in Nat /\ (S # {} => Cardinality(S) # 0)
  BY <1>1, FS_CardinalityType, FS_EmptySet
<1>3. \A g \in S : g \in Nat
  BY PaginasAssumption
<1>. DEFINE R == [g \in S |-> {h \in S : AntesDe(q, h, g)}]
<1>4. R \in [S -> SUBSET S]
  OBVIOUS
<1>5. \A x, y \in S : x \in R[y] <=> AntesDe(q, x, y)
  OBVIOUS
<1>6. \A x, y, z \in S : /\ ~ AntesDe(q, x, x)
                         /\ AntesDe(q, x, y) /\ AntesDe(q, y, z) => AntesDe(q, x, z)
                         /\ x # y => AntesDe(q, x, y) \/ AntesDe(q, y, x)
  BY <1>3 DEF AntesDe
<1>. HIDE DEF R
<1>7. /\ \A x \in S : Cardinality(R[x]) \in 0..(Cardinality(S) - 1)
      /\ \A x, y \in S : Cardinality(R[x]) = Cardinality(R[y]) => x = y
      /\ \A k \in 0..(Cardinality(S) - 1) : \E x \in S : Cardinality(R[x]) = k
  <2>1. \A x \in S : x \notin R[x]
    BY <1>5, <1>6
  <2>2. \A x, y \in S : x \in R[y] => R[x] \subseteq R[y]
    BY <1>4, <1>5, <1>6
  <2>3. \A x, y \in S : x # y => x \in R[y] \/ y \in R[x]
    BY <1>5, <1>6
  <2>. QED  BY <1>1, <1>4, <2>1, <2>2, <2>3, Rangos
<1>8. PICK n \in Nat : n = Cardinality(S)
  BY <1>2
<1>. DEFINE c(g) == Cardinality({h \in S : AntesDe(q, h, g)})
<1>9. EnOrden(q, S) = [k \in 1..n |-> CHOOSE g \in S : c(g) = k - 1]
  BY <1>8 DEF EnOrden
<1>17. \A g \in S : c(g) = Cardinality(R[g])
  BY DEF R
<1>. HIDE DEF c
<1>10. ASSUME NEW k \in 1..n
       PROVE  EnOrden(q, S)[k] \in S /\ Cardinality(R[EnOrden(q, S)[k]]) = k - 1
  <2>1. k - 1 \in 0..(n - 1)
    BY <1>8
  <2>2. \E g \in S : c(g) = k - 1
    BY <1>7, <1>8, <1>17, <2>1
  <2>. QED  BY <1>9, <1>17, <2>2
<1>11. EnOrden(q, S) \in [1..n -> S] /\ DOMAIN EnOrden(q, S) = 1..n
  BY <1>9, <1>10
<1>12. EnOrden(q, S) \in [1..n -> Paginas]
  BY <1>11
<1>13. EnOrden(q, S) \in Seq(Paginas)
  BY <1>8, <1>12
<1>14. Len(EnOrden(q, S)) = n
  BY <1>8, <1>11, <1>13
<1>15. ASSUME NEW i \in 1..n, NEW j \in 1..n, EnOrden(q, S)[i] = EnOrden(q, S)[j]
       PROVE  i = j
  <2>1. i - 1 = j - 1
    BY <1>10, <1>15
  <2>. QED  BY <2>1
<1>16. ASSUME NEW g \in S
       PROVE  \E i \in 1..n : EnOrden(q, S)[i] = g
  <2>1. Cardinality(R[g]) \in 0..(n - 1)
    BY <1>7, <1>8
  <2>2. PICK x \in Nat : x = Cardinality(R[g]) /\ x < n
    BY <1>8, <2>1
  <2>3. x + 1 \in 1..n /\ (x + 1) - 1 = x
    BY <2>2
  <2>4. EnOrden(q, S)[x + 1] \in S /\ Cardinality(R[EnOrden(q, S)[x + 1]]) = x
    BY <1>10, <2>3
  <2>5. EnOrden(q, S)[x + 1] = g
    BY <1>7, <2>2, <2>4
  <2>. QED  BY <2>3, <2>5
<1>. QED  BY <1>1, <1>2, <1>8, <1>11, <1>13, <1>14, <1>15, <1>16

-----------------------------------------------------------------------------
(* obtenerPaginaAReemplazar.                                               *)

\* Only the bits u and the hands of the pages of a process are moved.
MismasMarcas(t, q) ==
    /\ t \in [Paginas -> Entradas]
    /\ \A g \in Paginas : /\ t[g].p = tabla[q][g].p /\ t[g].m = tabla[q][g].m
                          /\ t[g].marco = tabla[q][g].marco

LEMMA ReemplazarEfecto ==
    ASSUME TypeOK, HilosOK, MarcasOK, CpuReemplazar
    PROVE  /\ cpu.en = "reemplazar"
           /\ \E w, t : w \in Presentes(cpu.p) /\ MismasMarcas(t, cpu.p) /\ Sacar(w, t)
           /\ UNCHANGED <<marcos, usuario, swap, archivos, comparador, contadores, vida,
                          kernel, viva>>
<1>. DEFINE q == cpu.p
            P == Presentes(cpu.p)
            s == PaginasEnMemoria(cpu.p)
            bits == EntradasDe(cpu.p, s)
<1>1. q \in Procesos /\ P # {} /\ P \in SUBSET Paginas /\ cpu.en = "reemplazar"
  BY DEF CpuReemplazar, HilosOK, MarcasOK, En, Presentes
<1>2. \A g \in Paginas : tabla[q][g] \in Entradas
  BY <1>1 DEF TypeOK
<1>3. \A g \in P : tabla[q][g].marco \in Nat
  BY <1>1, MarcosAssumption DEF MarcasOK, Presentes
<1>4. PICK n \in Nat \ {0} : n = Cardinality(P)
  BY <1>1, <1>3, EnOrdenCorrecto
<1>5. /\ DOMAIN s = 1..n /\ \A i \in 1..n : s[i] \in P
      /\ \A i, j \in 1..n : s[i] = s[j] => i = j
      /\ \A g \in P : \E i \in 1..n : s[i] = g
  BY <1>1, <1>3, <1>4, EnOrdenCorrecto DEF PaginasEnMemoria
<1>6. bits \in Seq(Entradas) /\ Len(bits) = n /\ DOMAIN bits = 1..n
      /\ \A i \in 1..n : bits[i] = tabla[q][s[i]] /\ bits[i] \in Entradas
  <2>0. bits = [i \in 1..n |-> tabla[q][s[i]]]
    BY <1>5 DEF EntradasDe
  <2>. HIDE DEF bits
  <2>1. \A i \in 1..n : tabla[q][s[i]] \in Entradas
    BY <1>1, <1>2, <1>5
  <2>2. bits \in [1..n -> Entradas]
    BY <1>5, <2>0, <2>1
  <2>3. bits \in Seq(Entradas)
    BY <2>2
  <2>. QED  BY <1>4, <1>5, <2>0, <2>1, <2>2, <2>3
<1>. DEFINE v == Elegir(Algoritmo, bits).victima
            r == Rotar(Algoritmo, bits)
            nueva == [g \in Paginas |-> IF g \in P THEN r[CHOOSE i \in DOMAIN s : s[i] = g]
                                        ELSE tabla[q][g]]
<1>7. Sacar(s[v], ConEntradas(q, s, r))
  BY DEF CpuReemplazar
<1>14. nueva = ConEntradas(q, s, r)
  BY DEF ConEntradas
<1>. HIDE DEF s, bits, P
<1>8. ListaOK(bits)
  BY <1>4, <1>6 DEF ListaOK, Entradas
<1>9. v \in 1..n /\ Elegir(Algoritmo, bits).u \in [1..n -> BOOLEAN]
  BY <1>6, <1>8, ElegirTipo, AlgoritmoAssumption
<1>10. ASSUME NEW i \in 1..n
       PROVE  /\ r[i] \in Entradas /\ r[i].p = bits[i].p /\ r[i].m = bits[i].m
              /\ r[i].marco = bits[i].marco
  <2>1. PICK x \in BOOLEAN : x = Elegir(Algoritmo, bits).u[i]
    BY <1>9
  <2>2. PICK y \in BOOLEAN : y = IF i = Siguiente(Elegir(Algoritmo, bits).victima, Len(bits)) THEN TRUE
                                 ELSE IF i = Aguja(bits) THEN FALSE ELSE bits[i].puntero
    BY <1>6 DEF Entradas
  <2>3. r[i] = [bits[i] EXCEPT !.u = x, !.puntero = y]
    BY <1>6, <2>1, <2>2 DEF Rotar
  <2>4. PICK e \in Entradas : e = bits[i]
    BY <1>6
  <2>5. r[i] = [e EXCEPT !.u = x, !.puntero = y]
    BY <2>3, <2>4
  <2>. HIDE DEF r
  <2>. QED  BY <2>4, <2>5 DEF Entradas
<1>. HIDE DEF v, r
<1>11. MismasMarcas(nueva, q)
  <2>1. ASSUME NEW g \in Paginas
        PROVE  /\ nueva[g] \in Entradas /\ nueva[g].p = tabla[q][g].p
               /\ nueva[g].m = tabla[q][g].m /\ nueva[g].marco = tabla[q][g].marco
    <3>1. CASE g \in P
      <4>1. PICK i \in 1..n : i = CHOOSE j \in DOMAIN s : s[j] = g
        BY <1>5, <3>1
      <4>2. s[i] = g /\ nueva[g] = r[i]
        BY <1>5, <3>1, <4>1
      <4>. QED  BY <1>6, <1>10, <4>2
    <3>2. CASE g \notin P
      BY <1>2, <3>2
    <3>. QED  BY <3>1, <3>2
  <2>2. nueva \in [Paginas -> Entradas]
    BY <2>1
  <2>. HIDE DEF nueva
  <2>. QED  BY <2>1, <2>2 DEF MismasMarcas
<1>. HIDE DEF nueva
<1>12. s[v] \in P
  BY <1>5, <1>9
<1>. QED  BY <1>1, <1>7, <1>11, <1>12, <1>14 DEF P, CpuReemplazar

-----------------------------------------------------------------------------
(* The steps of the two threads.                                           *)

InvM == /\ TypeOK /\ HilosOK /\ ArchivosOK /\ MarcasOK /\ RestoOK /\ PropiosOK /\ CupoOK
        /\ ModificadasOK /\ RespuestaOK

\* The tables after one entry of them changed.
LEMMA ConEfecto ==
    ASSUME TypeOK, NEW q \in Procesos, NEW g \in Paginas, NEW e \in Entradas,
           tabla' = Con(q, g, e)
    PROVE  /\ tabla' \in [Procesos -> [Paginas -> Entradas]]
           /\ tabla'[q][g] = e
           /\ \A r \in Procesos, h \in Paginas : r # q \/ h # g => tabla'[r][h] = tabla[r][h]
<1>1. tabla \in [Procesos -> [Paginas -> Entradas]]
  BY DEF TypeOK
<1>2. tabla' = [tabla EXCEPT ![q] = [tabla[q] EXCEPT ![g] = e]]
  BY <1>1 DEF Con
<1>3. PICK f \in [Paginas -> Entradas] : f = [tabla[q] EXCEPT ![g] = e]
  BY <1>1
<1>4. f[g] = e /\ \A h \in Paginas : h # g => f[h] = tabla[q][h]
  BY <1>1, <1>3
<1>5. tabla' \in [Procesos -> [Paginas -> Entradas]] /\ tabla'[q] = f
      /\ \A r \in Procesos : r # q => tabla'[r] = tabla[r]
  BY <1>1, <1>2, <1>3
<1>. QED  BY <1>4, <1>5

LEMMA PedidaTipo ==
    ASSUME TypeOK, HilosOK, cpu.en # "libre"
    PROVE  cpu.p \in Procesos /\ cpu.g \in Paginas /\ Pedida \in Entradas
BY DEF TypeOK, HilosOK, Pedida

\* The page that escribirPaginasModificadas works on.
LEMMA CabezaTipo ==
    ASSUME TypeOK, HilosOK, RestoOK, KEn({"bajar", "soltar", "bits"})
    PROVE  /\ kernel.p \in Procesos /\ kernel.resto \in Seq(Paginas)
           /\ Len(kernel.resto) \in Nat \ {0} /\ DOMAIN kernel.resto = 1..Len(kernel.resto)
           /\ Head(kernel.resto) = kernel.resto[1]
           /\ Head(kernel.resto) \in Paginas /\ tabla[kernel.p][Head(kernel.resto)].p
<1>1. kernel.p \in Procesos /\ kernel.resto \in Seq(Paginas) /\ kernel.resto # <<>>
  BY DEF TypeOK, KernelTipo, HilosOK, KEn, RestoOK
<1>2. /\ Len(kernel.resto) \in Nat \ {0} /\ DOMAIN kernel.resto = 1..Len(kernel.resto)
      /\ Head(kernel.resto) = kernel.resto[1]
  BY <1>1
<1>3. kernel.resto[1] \in Presentes(kernel.p)
  BY <1>2 DEF RestoOK
<1>. QED  BY <1>1, <1>2, <1>3 DEF Presentes

\* A step that moves no mark, no bit p and no frame of a page, and clears no bit m.
MarcasQuietas ==
    /\ UNCHANGED <<marcos, vida, kernel>>
    /\ \A r \in Procesos, h \in Paginas :
         /\ tabla'[r][h].p = tabla[r][h].p /\ tabla'[r][h].marco = tabla[r][h].marco
         /\ tabla[r][h].m => tabla'[r][h].m

LEMMA QuietoEfecto ==
    ASSUME TypeOK, HilosOK, RestoOK, MarcasQuietas
    PROVE  /\ SinFines' = SinFines /\ RestoOK'
           /\ \A r \in Procesos : /\ Presentes(r)' = Presentes(r) /\ Usados(r)' = Usados(r)
                                  /\ Propios(r)' = Propios(r)
           /\ \A r \in Procesos, h \in Paginas : Soltandose(r, h)' = Soltandose(r, h)
           /\ KEn({"bits"}) => tabla'[kernel.p][Head(kernel.resto)].marco
                                 = tabla[kernel.p][Head(kernel.resto)].marco
<1>1. marcos' = marcos /\ vida' = vida /\ kernel' = kernel
  BY DEF MarcasQuietas
<1>2. SinFines' = SinFines
  BY <1>1 DEF SinFines
<1>3. \A r \in Procesos : Presentes(r)' = Presentes(r)
  BY DEF MarcasQuietas, Presentes
<1>4. \A r \in Procesos : Usados(r)' = Usados(r)
  BY <1>1 DEF Usados
<1>5. KEn({"bajar", "soltar", "bits"}) =>
        tabla'[kernel.p][Head(kernel.resto)].marco = tabla[kernel.p][Head(kernel.resto)].marco
  BY CabezaTipo DEF MarcasQuietas
<1>6. \A r \in Procesos : Propios(r)' = Propios(r)
  BY <1>1, <1>4, <1>5 DEF Propios, KEn
<1>7. \A r \in Procesos, h \in Paginas : Soltandose(r, h)' = Soltandose(r, h)
  BY <1>1 DEF Soltandose
<1>8. RestoOK'
  <2>1. KEn({"bajar", "soltar", "bits"}) =>
          /\ kernel.p \in Procesos
          /\ \A i \in DOMAIN kernel.resto : kernel.resto[i] \in Paginas
    BY DEF HilosOK, RestoOK, KEn, Presentes
  <2>. QED  BY <1>1, <1>3, <2>1 DEF RestoOK, KEn, MarcasQuietas
<1>. QED  BY <1>2, <1>3, <1>4, <1>5, <1>6, <1>7, <1>8 DEF KEn

\* What it preserves, if the thread of the CPU does not come to hold a frame and no
\* page of the process that is being suspended is written.
LEMMA QuietoMarcado ==
    ASSUME InvM, MarcasQuietas,
           \A r \in Procesos, h \in Paginas : tabla'[r][h].m => tabla[r][h].m \/ tabla[r][h].p,
           SinFines /\ kernel.p \in Procesos =>
             \A h \in Paginas : tabla'[kernel.p][h].m => tabla[kernel.p][h].m,
           En({"escribir"})' => /\ cpu'.p \in Procesos /\ cpu'.dato \in Presentes(cpu'.p)
                                /\ tabla[cpu'.p][cpu'.dato].marco = cpu'.marco
                                /\ tabla[cpu'.p][cpu'.dato].m,
           En({"asignar", "traer", "cargar"})' =>
             /\ En({"asignar", "traer", "cargar"})
             /\ cpu'.p = cpu.p /\ cpu'.g = cpu.g /\ cpu'.marco = cpu.marco,
           En({"asignar", "traer", "cargar"}) => En({"asignar", "traer", "cargar"})',
           En({"ocupar"})' =>
             cpu'.p \in Procesos /\ Cardinality(Usados(cpu'.p)) < MarcosPorProceso,
           En({"reemplazar"})' => cpu'.p \in Procesos /\ Presentes(cpu'.p) # {}
    PROVE  MarcasOK' /\ RestoOK' /\ PropiosOK' /\ CupoOK' /\ ModificadasOK'
<1>0. TypeOK /\ HilosOK /\ ArchivosOK /\ MarcasOK /\ RestoOK /\ PropiosOK /\ CupoOK
      /\ ModificadasOK
  BY DEF InvM
<1>1. /\ \A r \in Procesos, h \in Paginas :
           tabla'[r][h].p = tabla[r][h].p /\ tabla'[r][h].marco = tabla[r][h].marco
      /\ marcos' = marcos /\ vida' = vida /\ kernel' = kernel
  BY DEF MarcasQuietas
<1>2. /\ SinFines' = SinFines /\ RestoOK'
      /\ \A r \in Procesos : /\ Presentes(r)' = Presentes(r) /\ Usados(r)' = Usados(r)
                             /\ Propios(r)' = Propios(r)
      /\ \A r \in Procesos, h \in Paginas : Soltandose(r, h)' = Soltandose(r, h)
      /\ KEn({"bits"}) => tabla'[kernel.p][Head(kernel.resto)].marco
                            = tabla[kernel.p][Head(kernel.resto)].marco
  BY <1>0, QuietoEfecto
<1>3. /\ En({"asignar", "traer", "cargar"}) => cpu.p \in Procesos
      /\ \A r, f : Cargandose(r, f)' = Cargandose(r, f)
  BY <1>0 DEF HilosOK, En, Cargandose
<1>4. MarcasOK'
  <2>1. \A r \in Procesos, h \in Paginas : LET e == tabla'[r][h] IN
          /\ e.p => e.marco \in Marcos /\ vida'[r] # "fuera"
          /\ ~ e.p => ~ e.m
    BY <1>0, <1>1 DEF MarcasOK
  <2>2. \A f \in Marcos, r \in Procesos : marcos'[f] = r =>
          /\ vida'[r] # "fuera"
          /\ Cargandose(r, f)' \/ \E g \in Paginas : tabla'[r][g].p /\ tabla'[r][g].marco = f
    <3>. SUFFICES ASSUME NEW f \in Marcos, NEW r \in Procesos, marcos'[f] = r
                  PROVE  /\ vida'[r] # "fuera"
                         /\ Cargandose(r, f)'
                            \/ \E g \in Paginas : tabla'[r][g].p /\ tabla'[r][g].marco = f
      OBVIOUS
    <3>1. CASE Cargandose(r, f)
      BY <1>0, <1>1, <1>3, <3>1 DEF MarcasOK
    <3>2. CASE ~ Cargandose(r, f)
      <4>1. vida[r] # "fuera" /\ \E g \in Paginas : tabla[r][g].p /\ tabla[r][g].marco = f
        BY <1>0, <1>1, <3>2 DEF MarcasOK
      <4>. QED  BY <1>1, <4>1
    <3>. QED  BY <3>1, <3>2
  <2>3. En({"reemplazar"})' => Presentes(cpu.p)' # {}
    BY <1>2
  <2>4. KEn({"bits"})' => marcos'[tabla'[kernel'.p][Head(kernel'.resto)].marco] # kernel'.p
    BY <1>0, <1>1, <1>2 DEF MarcasOK, KEn
  <2>5. En({"escribir"})' => /\ cpu'.dato \in Presentes(cpu.p)'
                             /\ tabla'[cpu'.p][cpu'.dato].marco = cpu'.marco
                             /\ tabla'[cpu'.p][cpu'.dato].m
    BY <1>1, <1>2 DEF Presentes, MarcasQuietas
  <2>. QED  BY <2>1, <2>2, <2>3, <2>4, <2>5 DEF MarcasOK
<1>5. PropiosOK'
  <2>. SUFFICES ASSUME SinFines
                PROVE  PropiosOK'
    BY <1>2 DEF PropiosOK
  <2>1. En({"asignar", "traer", "cargar"})' =>
          /\ marcos'[cpu'.marco] = cpu'.p
          /\ \A h \in Presentes(cpu.p)' : tabla'[cpu'.p][h].marco = cpu'.marco => h = cpu'.g
    <3>. SUFFICES ASSUME En({"asignar", "traer", "cargar"})'
                  PROVE  /\ marcos'[cpu'.marco] = cpu'.p
                         /\ \A h \in Presentes(cpu.p)' : tabla'[cpu'.p][h].marco = cpu'.marco => h = cpu'.g
      OBVIOUS
    <3>1. /\ marcos[cpu.marco] = cpu.p
          /\ \A h \in Presentes(cpu.p) : tabla[cpu.p][h].marco = cpu.marco => h = cpu.g
      BY <1>0 DEF PropiosOK
    <3>2. Presentes(cpu.p)' = Presentes(cpu.p) /\ Presentes(cpu.p) \subseteq Paginas
      BY <1>2, <1>3 DEF Presentes
    <3>. QED  BY <1>1, <1>3, <3>1, <3>2
  <2>2. /\ \A r \in Procesos, g \in Paginas : tabla'[r][g].p /\ ~ Soltandose(r, g)' =>
             marcos'[tabla'[r][g].marco] = r
        /\ \A r \in Procesos, g, h \in Paginas :
             /\ tabla'[r][g].p /\ ~ Soltandose(r, g)'
             /\ tabla'[r][h].p /\ ~ Soltandose(r, h)'
             /\ tabla'[r][g].marco = tabla'[r][h].marco
             => g = h
    BY <1>0, <1>1, <1>2 DEF PropiosOK
  <2>. QED  BY <2>1, <2>2 DEF PropiosOK
<1>6. CupoOK'
  BY <1>0, <1>2 DEF CupoOK
<1>7. ModificadasOK'
  <2>. SUFFICES ASSUME SinFines
                PROVE  ModificadasOK'
    BY <1>2 DEF ModificadasOK
  <2>. QED  BY <1>0, <1>1 DEF ModificadasOK, KEn, HilosOK
<1>. QED  BY <1>2, <1>4, <1>5, <1>6, <1>7

LEMMA QuietoInv ==
    ASSUME InvM, MarcasQuietas,
           \A r \in Procesos, h \in Paginas : tabla'[r][h].m = tabla[r][h].m,
           En({"escribir"})' => /\ cpu'.p \in Procesos /\ cpu'.dato \in Presentes(cpu'.p)
                                /\ tabla[cpu'.p][cpu'.dato].marco = cpu'.marco
                                /\ tabla[cpu'.p][cpu'.dato].m,
           En({"asignar", "traer", "cargar"})' =>
             /\ En({"asignar", "traer", "cargar"})
             /\ cpu'.p = cpu.p /\ cpu'.g = cpu.g /\ cpu'.marco = cpu.marco,
           En({"asignar", "traer", "cargar"}) => En({"asignar", "traer", "cargar"})',
           En({"ocupar"})' =>
             cpu'.p \in Procesos /\ Cardinality(Usados(cpu'.p)) < MarcosPorProceso,
           En({"reemplazar"})' => cpu'.p \in Procesos /\ Presentes(cpu'.p) # {}
    PROVE  MarcasOK' /\ RestoOK' /\ PropiosOK' /\ CupoOK' /\ ModificadasOK'
BY QuietoMarcado

LEMMA PasoPresente == InvM /\ CpuPresente => InvM'
<1>. SUFFICES ASSUME InvM, CpuPresente
              PROVE  InvM'
  OBVIOUS
<1>0. TypeOK /\ HilosOK /\ ArchivosOK /\ MarcasOK /\ RestoOK
  BY DEF InvM
<1>. DEFINE q == cpu.p  g == cpu.g
            e == [Pedida EXCEPT !.u = TRUE]
<1>1. /\ q \in Procesos /\ g \in Paginas /\ cpu.en = "pedir" /\ Pedida.p
      /\ Pedida \in Entradas /\ Pedida = tabla[q][g] /\ Pedida.marco \in Marcos
      /\ cpu \in CpuTipo
  BY <1>0, PedidaTipo DEF CpuPresente, MarcasOK, Pedida, TypeOK
<1>2. /\ e \in Entradas /\ e.p = Pedida.p /\ e.m = Pedida.m /\ e.marco = Pedida.marco
  BY <1>1 DEF Entradas
<1>3. /\ tabla' \in [Procesos -> [Paginas -> Entradas]]
      /\ tabla'[q][g] = e
      /\ \A r \in Procesos, h \in Paginas : r # q \/ h # g => tabla'[r][h] = tabla[r][h]
  BY <1>0, <1>1, <1>2, ConEfecto DEF CpuPresente
<1>4. /\ cpu' \in CpuTipo /\ cpu'.en = "acceder" /\ cpu'.p = q /\ cpu'.g = g
      /\ cpu'.marco = Pedida.marco
  BY <1>1 DEF CpuPresente, CpuTipo
<1>5. UNCHANGED <<marcos, usuario, swap, archivos, archivo, comparador, contadores, vida,
                  kernel, viva>>
  BY DEF CpuPresente
<1>6. \A r \in Procesos, h \in Paginas :
        /\ tabla'[r][h].p = tabla[r][h].p /\ tabla'[r][h].m = tabla[r][h].m
        /\ tabla'[r][h].marco = tabla[r][h].marco
  BY <1>1, <1>2, <1>3
<1>. HIDE DEF q, g, e
<1>7. TypeOK'
  BY <1>0, <1>3, <1>4, <1>5 DEF TypeOK
<1>8. HilosOK'
  BY <1>0, <1>1, <1>4, <1>5 DEF HilosOK, En, KEn, q, g
<1>9. ArchivosOK'
  BY <1>0, <1>1, <1>4, <1>5 DEF ArchivosOK, En, KEn, Activos
<1>10. MarcasOK' /\ RestoOK' /\ PropiosOK' /\ CupoOK' /\ ModificadasOK'
  <2>1. MarcasQuietas
    BY <1>5, <1>6 DEF MarcasQuietas
  <2>2. cpu.en = "pedir" /\ cpu'.en = "acceder"
    BY <1>1, <1>4
  <2>. QED  BY <1>6, <2>1, <2>2, QuietoInv DEF En
<1>11. RespuestaOK'
  BY <1>1, <1>2, <1>3, <1>4 DEF RespuestaOK, En, Pedida
<1>. QED  BY <1>7, <1>8, <1>9, <1>10, <1>11 DEF InvM

\* The process has marks, so it has pages to replace.
LEMMA UsadosPresentes ==
    ASSUME TypeOK, MarcasOK, NEW q \in Procesos, ~ HayCupo(q), cpu.en = "pedir"
    PROVE  Presentes(q) # {}
<1>1. Usados(q) # {}
  <2>1. IsFiniteSet(Usados(q)) /\ Cardinality(Usados(q)) \in Nat
    BY MarcosAssumption, FS_Subset, FS_CardinalityType DEF Usados
  <2>2. Cardinality(Usados(q)) # 0
    BY <2>1, MarcosPorProcesoAssumption DEF HayCupo
  <2>. QED  BY <2>2, FS_EmptySet
<1>. QED  BY <1>1 DEF Usados, MarcasOK, Cargandose, En, Presentes

LEMMA PasoFalla == InvM /\ CpuFalla => InvM'
<1>. SUFFICES ASSUME InvM, CpuFalla
              PROVE  InvM'
  OBVIOUS
<1>0. TypeOK /\ HilosOK /\ ArchivosOK /\ MarcasOK /\ RestoOK
  BY DEF InvM
<1>1. /\ cpu.p \in Procesos /\ cpu.g \in Paginas /\ cpu.en = "pedir" /\ ~ Pedida.p
      /\ cpu \in CpuTipo /\ cpu.p \in Nat
  BY <1>0, PedidaTipo, ProcesosAssumption DEF CpuFalla, TypeOK
<1>2. /\ cpu' = [cpu EXCEPT !.en = IF HayCupo(cpu.p) THEN "ocupar" ELSE "reemplazar"]
      /\ comparador' = cpu.p
  BY DEF CpuFalla, Cpu
<1>3. /\ cpu' \in CpuTipo /\ cpu'.p = cpu.p /\ cpu'.g = cpu.g
      /\ cpu'.en = IF HayCupo(cpu.p) THEN "ocupar" ELSE "reemplazar"
  BY <1>1, <1>2 DEF CpuTipo
<1>4. UNCHANGED <<marcos, tabla, usuario, swap, archivos, archivo, contadores, vida,
                  kernel, viva>>
  BY DEF CpuFalla
<1>5. TypeOK'
  BY <1>0, <1>1, <1>2, <1>3, <1>4 DEF TypeOK
<1>6. HilosOK'
  BY <1>0, <1>1, <1>3, <1>4 DEF HilosOK, En, KEn, Pedida
<1>7. ArchivosOK'
  BY <1>0, <1>1, <1>3, <1>4 DEF ArchivosOK, En, KEn, Activos
<1>8. MarcasOK' /\ RestoOK' /\ PropiosOK' /\ CupoOK' /\ ModificadasOK'
  <2>1. MarcasQuietas
    BY <1>4 DEF MarcasQuietas
  <2>2. /\ cpu'.en = "ocupar" => Cardinality(Usados(cpu.p)) < MarcosPorProceso
        /\ cpu'.en = "reemplazar" => Presentes(cpu.p) # {}
    BY <1>0, <1>1, <1>3, UsadosPresentes DEF HayCupo
  <2>. QED  BY <1>1, <1>3, <1>4, <2>1, <2>2, QuietoInv DEF En
<1>9. RespuestaOK'
  BY <1>3 DEF RespuestaOK, En
<1>. QED  BY <1>5, <1>6, <1>7, <1>8, <1>9 DEF InvM

\* The module falls on a NULL: nothing else changes.
LEMMA PasoCae == InvM /\ (CpuSinContador \/ CpuSinMarco) => InvM'
<1>. SUFFICES ASSUME InvM, CpuSinContador \/ CpuSinMarco
              PROVE  InvM'
  OBVIOUS
<1>1. /\ viva' = FALSE
      /\ UNCHANGED <<marcos, tabla, usuario, swap, archivos, archivo, comparador,
                     contadores, vida, cpu, kernel>>
  BY DEF CpuSinContador, CpuSinMarco, Cae
<1>2. TypeOK'
  BY <1>1 DEF InvM, TypeOK
<1>3. HilosOK' /\ ArchivosOK' /\ RespuestaOK'
  BY <1>1 DEF InvM, HilosOK, ArchivosOK, RespuestaOK, En, KEn, Pedida, Activos
<1>4. MarcasOK' /\ RestoOK' /\ PropiosOK' /\ CupoOK' /\ ModificadasOK'
  <2>1. MarcasQuietas
    BY <1>1 DEF MarcasQuietas
  <2>2. /\ En({"escribir"}) => cpu.p \in Procesos /\ Presentes(cpu.p)' = Presentes(cpu.p)
        /\ En({"reemplazar"}) => cpu.p \in Procesos /\ Presentes(cpu.p) # {}
        /\ En({"ocupar"}) => cpu.p \in Procesos
    BY <1>1 DEF InvM, HilosOK, MarcasOK, En, Presentes
  <2>3. MarcasOK'
    BY <1>1 DEF InvM, MarcasOK, En, KEn, Cargandose, Presentes
  <2>4. RestoOK' /\ ModificadasOK'
    BY <1>1 DEF InvM, RestoOK, ModificadasOK, KEn, Presentes, SinFines
  <2>5. PropiosOK' /\ CupoOK'
    BY <1>1 DEF InvM, PropiosOK, CupoOK, En, KEn, Presentes, Propios, Usados, SinFines,
                Soltandose
  <2>. QED  BY <2>3, <2>4, <2>5
<1>. QED  BY <1>2, <1>3, <1>4 DEF InvM

LEMMA PasoAsignar == InvM /\ CpuAsignar => InvM'
<1>. SUFFICES ASSUME InvM, CpuAsignar
              PROVE  InvM'
  OBVIOUS
<1>0. TypeOK /\ HilosOK /\ ArchivosOK /\ MarcasOK /\ RestoOK
  BY DEF InvM
<1>1. /\ cpu.p \in Procesos /\ cpu.en = "asignar" /\ cpu \in CpuTipo /\ cpu.marco \in Marcos
      /\ vida[cpu.p] = "activo"
  BY <1>0 DEF CpuAsignar, TypeOK, HilosOK, En
<1>2. /\ cpu' \in CpuTipo /\ cpu'.p = cpu.p /\ cpu'.g = cpu.g /\ cpu'.en = "traer"
      /\ cpu'.marco = cpu.marco /\ archivo' = cpu.p
  BY <1>1 DEF CpuAsignar, Cpu, CpuTipo
<1>3. UNCHANGED <<marcos, tabla, usuario, swap, archivos, comparador, contadores, vida,
                  kernel, viva>>
  BY DEF CpuAsignar
<1>4. TypeOK'
  BY <1>0, <1>1, <1>2, <1>3 DEF TypeOK
<1>5. HilosOK'
  BY <1>0, <1>1, <1>2, <1>3 DEF HilosOK, En, KEn
<1>6. ArchivosOK'
  BY <1>0, <1>1, <1>2, <1>3 DEF ArchivosOK, En, KEn, Activos
<1>7. MarcasOK' /\ RestoOK' /\ PropiosOK' /\ CupoOK' /\ ModificadasOK'
  <2>1. MarcasQuietas
    BY <1>3 DEF MarcasQuietas
  <2>. QED  BY <1>1, <1>2, <1>3, <2>1, QuietoInv DEF En
<1>8. RespuestaOK'
  BY <1>1, <1>2, <1>3 DEF InvM, RespuestaOK, En, Pedida
<1>. QED  BY <1>4, <1>5, <1>6, <1>7, <1>8 DEF InvM

LEMMA PasoTraer == InvM /\ CpuTraer => InvM'
<1>. SUFFICES ASSUME InvM, CpuTraer
              PROVE  InvM'
  OBVIOUS
<1>0. TypeOK /\ HilosOK /\ ArchivosOK /\ MarcasOK /\ RestoOK
  BY DEF InvM
<1>1. /\ cpu.p \in Procesos /\ cpu.g \in Paginas /\ cpu.en = "traer" /\ cpu \in CpuTipo
      /\ cpu.marco \in Marcos /\ archivo \in Procesos
  BY <1>0 DEF CpuTraer, TypeOK, HilosOK, En, ArchivosOK, Activos
<1>2. swap[archivo][cpu.g] \in Valores \cup {Basura}
  BY <1>0, <1>1 DEF TypeOK
<1>3. /\ cpu' \in CpuTipo /\ cpu'.p = cpu.p /\ cpu'.g = cpu.g /\ cpu'.en = "cargar"
      /\ cpu'.marco = cpu.marco /\ cpu'.dato \in Valores \cup {Basura}
  BY <1>1, <1>2 DEF CpuTraer, CpuTipo
<1>4. UNCHANGED <<marcos, tabla, usuario, swap, archivos, archivo, comparador, contadores,
                  vida, kernel, viva>>
  BY DEF CpuTraer
<1>5. TypeOK'
  BY <1>0, <1>3, <1>4 DEF TypeOK
<1>6. HilosOK'
  BY <1>0, <1>1, <1>3, <1>4 DEF HilosOK, En, KEn
<1>7. ArchivosOK'
  BY <1>0, <1>1, <1>3, <1>4 DEF ArchivosOK, En, KEn, Activos
<1>8. MarcasOK' /\ RestoOK' /\ PropiosOK' /\ CupoOK' /\ ModificadasOK'
  <2>1. MarcasQuietas
    BY <1>4 DEF MarcasQuietas
  <2>. QED  BY <1>1, <1>3, <1>4, <2>1, QuietoInv DEF En
<1>9. RespuestaOK'
  BY <1>1, <1>3, <1>4 DEF InvM, RespuestaOK, En, Pedida
<1>. QED  BY <1>5, <1>6, <1>7, <1>8, <1>9 DEF InvM

LEMMA PasoPedir ==
    ASSUME InvM, NEW q \in Procesos, NEW g \in Paginas, NEW w \in Valores \cup {Nada},
           CpuPedir(q, g, w)
    PROVE  InvM'
<1>0. TypeOK /\ HilosOK /\ ArchivosOK /\ MarcasOK /\ RestoOK
  BY DEF InvM
<1>1. /\ cpu.en = "libre" /\ vida[q] = "activo" /\ kernel.p # q
      /\ UNCHANGED <<marcos, tabla, usuario, swap, archivos, archivo, comparador, contadores,
                     vida, kernel, viva>>
  BY DEF CpuPedir
<1>2. cpu' \in CpuTipo /\ cpu'.p = q /\ cpu'.g = g /\ cpu'.en = "pedir"
  BY DEF CpuPedir, Reposo, CpuTipo
<1>3. TypeOK'
  BY <1>0, <1>1, <1>2 DEF TypeOK
<1>4. HilosOK'
  BY <1>0, <1>1, <1>2 DEF HilosOK, En, KEn
<1>5. ArchivosOK'
  BY <1>0, <1>1, <1>2 DEF ArchivosOK, En, KEn, Activos
<1>6. MarcasOK' /\ RestoOK' /\ PropiosOK' /\ CupoOK' /\ ModificadasOK'
  <2>1. MarcasQuietas
    BY <1>1 DEF MarcasQuietas
  <2>. QED  BY <1>1, <1>2, <2>1, QuietoInv DEF En
<1>7. RespuestaOK'
  BY <1>2 DEF RespuestaOK, En
<1>. QED  BY <1>3, <1>4, <1>5, <1>6, <1>7 DEF InvM

\* The CPU is given process q (Despachar, Recibir): only its life changes.
LEMMA PasoDespachar ==
    ASSUME InvM, NEW q \in Procesos, vida[q] \in {"listo", "activo"}, kernel.p # q,
           cpu.en = "libre",
           vida' = [vida EXCEPT ![q] = "activo"],
           UNCHANGED <<marcos, tabla, usuario, swap, archivos, archivo, comparador,
                       contadores, cpu, kernel, viva>>
    PROVE  InvM'
<1>0. TypeOK /\ HilosOK /\ ArchivosOK /\ MarcasOK /\ RestoOK
  BY DEF InvM
<1>1. /\ vida' \in [Procesos -> {"fuera", "listo", "activo", "fin"}] /\ vida'[q] = "activo"
      /\ \A r \in Procesos : r # q => vida'[r] = vida[r]
  BY <1>0 DEF TypeOK
<1>2. TypeOK'
  BY <1>0, <1>1 DEF TypeOK
<1>3. HilosOK'
  BY <1>0, <1>1 DEF HilosOK, En, KEn
<1>4. Activos' = Activos
  BY <1>0, <1>1 DEF Activos
<1>5. ArchivosOK'
  BY <1>0, <1>1, <1>4 DEF ArchivosOK, En, KEn
<1>6. \A r \in Procesos : /\ vida'[r] = "fuera" <=> vida[r] = "fuera"
                          /\ vida'[r] = "fin" <=> vida[r] = "fin"
  BY <1>1
<1>7. MarcasOK'
  BY <1>0, <1>6 DEF MarcasOK, En, KEn, Cargandose, Presentes
<1>8. RestoOK'
  BY <1>0 DEF RestoOK, KEn, Presentes
<1>9. SinFines' = SinFines
  BY <1>6 DEF SinFines
<1>10. PropiosOK' /\ CupoOK'
  BY <1>9 DEF InvM, PropiosOK, CupoOK, En, KEn, Presentes, Propios, Usados, Soltandose
<1>11. ModificadasOK'
  BY <1>0, <1>1, <1>9 DEF InvM, ModificadasOK, HilosOK, KEn
<1>12. RespuestaOK'
  BY DEF InvM, RespuestaOK, En, Pedida
<1>. QED  BY <1>2, <1>3, <1>5, <1>7, <1>8, <1>10, <1>11, <1>12 DEF InvM

\* ocuparMarcoLibre: a frame marked with nobody is marked and given to the page.
LEMMA PasoOcupar == InvM /\ CpuOcupar => InvM'
<1>. SUFFICES ASSUME InvM, CpuOcupar
              PROVE  InvM'
  OBVIOUS
<1>0. TypeOK /\ HilosOK /\ ArchivosOK /\ MarcasOK /\ RestoOK /\ PropiosOK /\ CupoOK
      /\ ModificadasOK
  BY DEF InvM
<1>23. PICK q \in Procesos, g \in Paginas : q = cpu.p /\ g = cpu.g
  BY <1>0, PedidaTipo DEF CpuOcupar
<1>1. /\ q = cpu.p /\ g = cpu.g /\ cpu.en = "ocupar" /\ ~ Pedida.p
      /\ Pedida \in Entradas /\ Pedida = tabla[q][g] /\ cpu \in CpuTipo
      /\ kernel.p # q /\ vida[q] = "activo" /\ Libres # {}
  BY <1>0, <1>23, PedidaTipo DEF CpuOcupar, Pedida, TypeOK, HilosOK, En
<1>2. PICK f \in Marcos : f = Menor(Libres) /\ marcos[f] = Nada
  BY <1>1, MarcosAssumption, MenorNat DEF Libres
<1>3. PICK e \in Entradas : e = [Pedida EXCEPT !.p = TRUE, !.marco = f]
  BY <1>1 DEF Entradas
<1>4. e.p /\ e.marco = f /\ e.m = Pedida.m
  BY <1>1, <1>3 DEF Entradas
<1>5. marcos' = [marcos EXCEPT ![f] = q] /\ tabla' = Con(q, g, e)
      /\ cpu' = [cpu EXCEPT !.en = "asignar", !.marco = f]
  BY <1>1, <1>2, <1>3 DEF CpuOcupar
<1>6. /\ tabla' \in [Procesos -> [Paginas -> Entradas]] /\ tabla'[q][g] = e
      /\ \A r \in Procesos, h \in Paginas : r # q \/ h # g => tabla'[r][h] = tabla[r][h]
  BY <1>0, <1>1, <1>5, ConEfecto
<1>7. /\ cpu' \in CpuTipo /\ cpu'.en = "asignar" /\ cpu'.p = q /\ cpu'.g = g /\ cpu'.marco = f
  BY <1>1, <1>2, <1>5 DEF CpuTipo
<1>8. /\ marcos' \in [Marcos -> Procesos \cup {Nada}] /\ marcos'[f] = q
      /\ \A x \in Marcos : x # f => marcos'[x] = marcos[x]
  BY <1>0, <1>1, <1>5 DEF TypeOK
<1>9. UNCHANGED <<usuario, swap, archivos, archivo, comparador, contadores, vida, kernel,
                  viva>>
  BY DEF CpuOcupar
<1>10. Nada \notin Procesos
  BY NadaAssumption
<1>11. \A r \in Procesos, h \in Paginas : r # q \/ h # g => ~ (r = q /\ h = g)
  OBVIOUS
<1>12. TypeOK'
  BY <1>0, <1>6, <1>7, <1>8, <1>9 DEF TypeOK
<1>13. HilosOK'
  BY <1>0, <1>1, <1>2, <1>7, <1>9 DEF HilosOK, En, KEn
<1>14. ArchivosOK'
  BY <1>0, <1>1, <1>7, <1>9 DEF ArchivosOK, En, KEn, Activos
<1>15. ~ Pedida.m
  BY <1>0, <1>1 DEF MarcasOK
<1>16. MarcasOK'
  <2>1. ASSUME NEW r \in Procesos, NEW h \in Paginas
        PROVE  /\ tabla'[r][h].p => tabla'[r][h].marco \in Marcos /\ vida'[r] # "fuera"
               /\ ~ tabla'[r][h].p => ~ tabla'[r][h].m
    <3>1. CASE r = q /\ h = g
      BY <1>1, <1>2, <1>4, <1>6, <1>9, <3>1
    <3>2. CASE ~ (r = q /\ h = g)
      BY <1>0, <1>6, <1>9, <3>2 DEF MarcasOK
    <3>. QED  BY <3>1, <3>2
  <2>2. ASSUME NEW x \in Marcos, NEW r \in Procesos, marcos'[x] = r
        PROVE  /\ vida'[r] # "fuera"
               /\ Cargandose(r, x)' \/ \E h \in Paginas : tabla'[r][h].p /\ tabla'[r][h].marco = x
    <3>1. CASE x = f
      BY <1>1, <1>7, <1>8, <1>9, <2>2, <3>1 DEF Cargandose, En
    <3>2. CASE x # f
      <4>1. marcos[x] = r
        BY <1>8, <2>2, <3>2
      <4>2. ~ Cargandose(r, x)
        BY <1>1 DEF Cargandose, En
      <4>3. PICK h \in Paginas : tabla[r][h].p /\ tabla[r][h].marco = x
        BY <1>0, <4>1, <4>2 DEF MarcasOK
      <4>4. tabla'[r][h] = tabla[r][h]
        BY <1>1, <1>6, <4>3
      <4>. QED  BY <1>0, <1>9, <4>1, <4>3, <4>4 DEF MarcasOK
    <3>. QED  BY <3>1, <3>2
  <2>3. KEn({"bits"}) => marcos'[tabla'[kernel.p][Head(kernel.resto)].marco] # kernel.p
    <3>. SUFFICES ASSUME KEn({"bits"})
                  PROVE  marcos'[tabla'[kernel.p][Head(kernel.resto)].marco] # kernel.p
      OBVIOUS
    <3>1. kernel.p \in Procesos /\ Head(kernel.resto) \in Paginas
          /\ tabla[kernel.p][Head(kernel.resto)].p
      BY <1>0, CabezaTipo DEF KEn
    <3>2. tabla'[kernel.p][Head(kernel.resto)] = tabla[kernel.p][Head(kernel.resto)]
      BY <1>1, <1>6, <3>1
    <3>3. tabla[kernel.p][Head(kernel.resto)].marco \in Marcos
      BY <1>0, <3>1 DEF MarcasOK
    <3>4. marcos[tabla[kernel.p][Head(kernel.resto)].marco] # kernel.p
      BY <1>0 DEF MarcasOK
    <3>. QED  BY <1>1, <1>8, <3>2, <3>3, <3>4
  <2>. QED  BY <1>7, <1>9, <2>1, <2>2, <2>3 DEF MarcasOK, En, KEn
<1>17. RestoOK'
  BY <1>0, <1>1, <1>6, <1>9 DEF RestoOK, KEn, HilosOK, Presentes
<1>18. /\ \A r \in Procesos, h \in Paginas : Soltandose(r, h)' = Soltandose(r, h)
       /\ \A h \in Paginas : ~ Soltandose(q, h)
       /\ SinFines' = SinFines
  BY <1>1, <1>9 DEF Soltandose, SinFines
<1>19. PropiosOK'
  <2>. SUFFICES ASSUME SinFines
                PROVE  PropiosOK'
    BY <1>18 DEF PropiosOK
  <2>1. \A r \in Procesos, h \in Paginas : tabla[r][h].p /\ ~ Soltandose(r, h) =>
          marcos[tabla[r][h].marco] = r /\ tabla[r][h].marco # f /\ tabla[r][h].marco \in Marcos
    BY <1>0, <1>2, <1>10 DEF PropiosOK, MarcasOK
  <2>2. ASSUME NEW r \in Procesos, NEW h \in Paginas, tabla'[r][h].p, ~ Soltandose(r, h)
        PROVE  marcos'[tabla'[r][h].marco] = r
    <3>1. CASE r = q /\ h = g
      BY <1>4, <1>6, <1>8, <3>1
    <3>2. CASE ~ (r = q /\ h = g)
      BY <1>6, <1>8, <2>1, <2>2, <3>2
    <3>. QED  BY <3>1, <3>2
  <2>3. ASSUME NEW r \in Procesos, NEW h \in Paginas, NEW k \in Paginas,
               tabla'[r][h].p, ~ Soltandose(r, h), tabla'[r][k].p, ~ Soltandose(r, k),
               tabla'[r][h].marco = tabla'[r][k].marco
        PROVE  h = k
    <3>1. CASE r = q
      BY <1>0, <1>4, <1>6, <2>1, <2>3, <3>1 DEF PropiosOK
    <3>2. CASE r # q
      BY <1>0, <1>6, <2>3, <3>2 DEF PropiosOK
    <3>. QED  BY <3>1, <3>2
  <2>4. /\ marcos'[cpu'.marco] = cpu'.p
        /\ \A h \in Presentes(cpu.p)' : tabla'[cpu'.p][h].marco = cpu'.marco => h = cpu'.g
    BY <1>1, <1>6, <1>7, <1>8, <1>18, <2>1 DEF Presentes
  <2>. QED  BY <1>9, <1>18, <2>2, <2>3, <2>4 DEF PropiosOK, KEn
<1>20. CupoOK'
  <2>. SUFFICES ASSUME SinFines
                PROVE  CupoOK'
    BY <1>18 DEF CupoOK
  <2>1. ASSUME NEW r \in Procesos, r # q
        PROVE  Propios(r)' = Propios(r)
    <3>1. Usados(r)' = Usados(r)
      BY <1>2, <1>8, <1>10, <2>1 DEF Usados
    <3>2. KEn({"bits"}) => tabla'[kernel.p][Head(kernel.resto)] = tabla[kernel.p][Head(kernel.resto)]
      BY <1>0, <1>1, <1>6, CabezaTipo DEF KEn
    <3>. QED  BY <1>9, <3>1, <3>2 DEF Propios, KEn
  <2>2. Usados(q)' = Usados(q) \cup {f} /\ f \notin Usados(q) /\ IsFiniteSet(Usados(q))
    <3>1. f \notin Usados(q) /\ IsFiniteSet(Usados(q))
      BY <1>1, <1>2, <1>10, MarcosAssumption, FS_Subset DEF Usados
    <3>. QED  BY <1>2, <1>8, <3>1 DEF Usados
  <2>3. Cardinality(Usados(q)) \in Nat /\ Cardinality(Usados(q)) < MarcosPorProceso
    BY <1>0, <1>1, <2>2, FS_CardinalityType DEF CupoOK, En
  <2>4. Cardinality(Usados(q)') = Cardinality(Usados(q)) + 1
    BY <2>2, FS_AddElement
  <2>5. Propios(q)' = Usados(q)'
    BY <1>1, <1>9 DEF Propios
  <2>6. Cardinality(Propios(q)') <= MarcosPorProceso
    BY <2>3, <2>4, <2>5, MarcosPorProcesoAssumption
  <2>7. \A r \in Procesos : Cardinality(Propios(r)') <= MarcosPorProceso
    BY <1>0, <2>1, <2>6 DEF CupoOK
  <2>. QED  BY <1>7, <2>7 DEF CupoOK, En
<1>21. ModificadasOK'
  BY <1>0, <1>1, <1>6, <1>9, <1>18 DEF ModificadasOK, KEn, HilosOK
<1>22. RespuestaOK'
  BY <1>4, <1>6, <1>7, <1>15 DEF RespuestaOK, En, Pedida
<1>. QED  BY <1>12, <1>13, <1>14, <1>16, <1>17, <1>19, <1>20, <1>21, <1>22 DEF InvM

\* Page w leaves its frame for the thread of the CPU to load another there.
LEMMA PasoSacar ==
    ASSUME InvM, NEW q \in Procesos, NEW w \in Paginas, q = cpu.p, tabla[q][w].p,
           cpu.en \in {"reemplazar", "escribir"},
           tabla' \in [Procesos -> [Paginas -> Entradas]],
           \A r \in Procesos : r # q => tabla'[r] = tabla[r],
           \A h \in Paginas \ {w} : /\ tabla'[q][h].p = tabla[q][h].p
                                    /\ tabla'[q][h].m = tabla[q][h].m
                                    /\ tabla'[q][h].marco = tabla[q][h].marco,
           ~ tabla'[q][w].p, ~ tabla'[q][w].m,
           cpu' \in CpuTipo, cpu'.en = "asignar", cpu'.p = q, cpu'.g = cpu.g,
           cpu'.marco = tabla[q][w].marco,
           UNCHANGED <<marcos, kernel, vida, archivos, archivo>>
    PROVE  /\ HilosOK' /\ ArchivosOK' /\ MarcasOK' /\ RestoOK' /\ PropiosOK' /\ CupoOK'
           /\ ModificadasOK' /\ RespuestaOK'
<1>0. TypeOK /\ HilosOK /\ ArchivosOK /\ MarcasOK /\ RestoOK /\ PropiosOK /\ CupoOK
      /\ ModificadasOK
  BY DEF InvM
<1>1. PICK g \in Paginas : g = cpu.g
  BY <1>0, PedidaTipo
<1>2. /\ vida[q] = "activo" /\ kernel.p # q /\ ~ tabla[q][g].p /\ w # g
      /\ tabla[q][w].marco \in Marcos
  BY <1>0, <1>1 DEF HilosOK, MarcasOK, En, Pedida
<1>3. ~ tabla'[q][g].p
  BY <1>2
<1>4. \A r \in Procesos, h \in Paginas : r # q \/ h # w =>
        /\ tabla'[r][h].p = tabla[r][h].p /\ tabla'[r][h].m = tabla[r][h].m
        /\ tabla'[r][h].marco = tabla[r][h].marco
  OBVIOUS
<1>5. /\ \A r \in Procesos, h \in Paginas : Soltandose(r, h)' = Soltandose(r, h)
      /\ \A h \in Paginas : ~ Soltandose(q, h)
      /\ SinFines' = SinFines
      /\ \A r : Usados(r)' = Usados(r)
  BY <1>2 DEF Soltandose, SinFines, Usados
<1>6. KEn({"bajar", "soltar", "bits"}) =>
        /\ kernel.p \in Procesos /\ Head(kernel.resto) \in Paginas
        /\ tabla'[kernel.p] = tabla[kernel.p]
  BY <1>0, <1>2, CabezaTipo
<1>7. HilosOK'
  BY <1>0, <1>1, <1>2 DEF HilosOK, En, KEn
<1>8. ArchivosOK'
  BY <1>0 DEF ArchivosOK, En, KEn, Activos
<1>9. MarcasOK'
  <2>1. ASSUME NEW r \in Procesos, NEW h \in Paginas
        PROVE  /\ tabla'[r][h].p => tabla'[r][h].marco \in Marcos /\ vida'[r] # "fuera"
               /\ ~ tabla'[r][h].p => ~ tabla'[r][h].m
    BY <1>0, <1>4 DEF MarcasOK
  <2>2. ASSUME NEW x \in Marcos, NEW r \in Procesos, marcos'[x] = r
        PROVE  /\ vida'[r] # "fuera"
               /\ Cargandose(r, x)' \/ \E h \in Paginas : tabla'[r][h].p /\ tabla'[r][h].marco = x
    <3>1. ~ Cargandose(r, x)
      BY DEF Cargandose, En
    <3>2. vida[r] # "fuera"
      BY <1>0, <2>2 DEF MarcasOK
    <3>3. PICK h \in Paginas : tabla[r][h].p /\ tabla[r][h].marco = x
      BY <1>0, <2>2, <3>1 DEF MarcasOK
    <3>4. CASE r = q /\ h = w
      BY <3>2, <3>3, <3>4 DEF Cargandose, En
    <3>5. CASE ~ (r = q /\ h = w)
      BY <1>4, <3>2, <3>3, <3>5
    <3>. QED  BY <3>4, <3>5
  <2>3. KEn({"bits"}) => marcos[tabla'[kernel.p][Head(kernel.resto)].marco] # kernel.p
    BY <1>0, <1>6 DEF MarcasOK, KEn
  <2>. QED  BY <2>1, <2>2, <2>3 DEF MarcasOK, En, KEn
<1>10. RestoOK'
  BY <1>0, <1>6 DEF RestoOK, KEn, Presentes
<1>11. PropiosOK'
  <2>. SUFFICES ASSUME SinFines
                PROVE  PropiosOK'
    BY <1>5 DEF PropiosOK
  <2>1. ASSUME NEW r \in Procesos, NEW h \in Paginas, tabla'[r][h].p
        PROVE  /\ tabla[r][h].p /\ tabla'[r][h].marco = tabla[r][h].marco
               /\ ~ (r = q /\ h = w)
    BY <1>4, <2>1
  <2>2. \A r \in Procesos, h \in Paginas : tabla'[r][h].p /\ ~ Soltandose(r, h) =>
          marcos[tabla'[r][h].marco] = r
    BY <1>0, <2>1 DEF PropiosOK
  <2>3. ASSUME NEW r \in Procesos, NEW h \in Paginas, NEW k \in Paginas,
               tabla'[r][h].p, ~ Soltandose(r, h), tabla'[r][k].p, ~ Soltandose(r, k),
               tabla'[r][h].marco = tabla'[r][k].marco
        PROVE  h = k
    BY <1>0, <2>1, <2>3 DEF PropiosOK
  <2>4. marcos[tabla[q][w].marco] = q
    BY <1>0, <1>5 DEF PropiosOK
  <2>5. \A h \in Paginas : tabla'[q][h].p => tabla'[q][h].marco # tabla[q][w].marco
    BY <1>0, <1>5, <2>1 DEF PropiosOK
  <2>6. \A h \in Presentes(cpu.p)' : tabla'[cpu'.p][h].marco = cpu'.marco => h = cpu'.g
    BY <2>5 DEF Presentes
  <2>. QED  BY <1>5, <2>2, <2>3, <2>4, <2>6 DEF PropiosOK
<1>12. CupoOK'
  <2>1. \A r : Propios(r)' = Propios(r)
    BY <1>5, <1>6 DEF Propios, KEn
  <2>. QED  BY <1>0, <1>5, <2>1 DEF CupoOK, En
<1>13. ModificadasOK'
  <2>1. kernel.p \in Procesos => tabla'[kernel.p] = tabla[kernel.p]
    BY <1>2
  <2>. QED  BY <1>0, <1>5, <2>1 DEF ModificadasOK, KEn, HilosOK
<1>14. RespuestaOK'
  <2>1. ~ tabla'[q][g].m
    BY <1>0, <1>2 DEF MarcasOK
  <2>. QED  BY <1>1, <1>3, <2>1 DEF RespuestaOK, En, Pedida
<1>. QED  BY <1>7, <1>8, <1>9, <1>10, <1>11, <1>12, <1>13, <1>14

\* obtenerPaginaAReemplazar: a victim that was not modified leaves its frame; one
\* that was waits for escribirModificaciones.
LEMMA PasoReemplazar == InvM /\ CpuReemplazar => InvM'
<1>. SUFFICES ASSUME InvM, CpuReemplazar
              PROVE  InvM'
  OBVIOUS
<1>0. TypeOK /\ HilosOK /\ ArchivosOK /\ MarcasOK /\ RestoOK
  BY DEF InvM
<1>1. /\ cpu.en = "reemplazar"
      /\ \E w, t : w \in Presentes(cpu.p) /\ MismasMarcas(t, cpu.p) /\ Sacar(w, t)
      /\ UNCHANGED <<marcos, usuario, swap, archivos, comparador, contadores, vida, kernel,
                     viva>>
  BY <1>0, ReemplazarEfecto
<1>2. PICK q \in Procesos, g \in Paginas : q = cpu.p /\ g = cpu.g
  BY <1>0, <1>1, PedidaTipo
<1>3. PICK w, t : w \in Presentes(q) /\ MismasMarcas(t, q) /\ Sacar(w, t)
  BY <1>1, <1>2
<1>4. PICK e \in Entradas : e = tabla[q][w]
  BY <1>0, <1>3 DEF TypeOK, Presentes
<1>5. /\ w \in Paginas /\ tabla[q][w].p /\ e.marco \in Marcos
      /\ ~ tabla[q][g].p /\ vida[q] = "activo" /\ q \in Activos
      /\ cpu \in CpuTipo /\ kernel.p # q
  BY <1>0, <1>1, <1>2, <1>3, <1>4 DEF TypeOK, MarcasOK, Presentes, HilosOK, En, Pedida, Activos
<1>6. t \in [Paginas -> Entradas] /\ \A h \in Paginas :
        t[h].p = tabla[q][h].p /\ t[h].m = tabla[q][h].m /\ t[h].marco = tabla[q][h].marco
  BY <1>3 DEF MismasMarcas
<1>7. CASE e.m
  <2>1. /\ cpu' = [cpu EXCEPT !.en = "escribir", !.marco = e.marco, !.dato = w]
        /\ tabla' = [tabla EXCEPT ![q] = t] /\ archivo' = q
    BY <1>2, <1>3, <1>4, <1>7 DEF Sacar
  <2>2. /\ cpu' \in CpuTipo /\ cpu'.en = "escribir" /\ cpu'.p = q /\ cpu'.g = g
        /\ cpu'.marco = e.marco /\ cpu'.dato = w
    BY <1>2, <1>5, <2>1 DEF CpuTipo
  <2>3. tabla' \in [Procesos -> [Paginas -> Entradas]]
    BY <1>0, <1>6, <2>1 DEF TypeOK
  <2>4. \A r \in Procesos, h \in Paginas :
          /\ tabla'[r][h].p = tabla[r][h].p /\ tabla'[r][h].m = tabla[r][h].m
          /\ tabla'[r][h].marco = tabla[r][h].marco
    BY <1>0, <1>6, <2>1 DEF TypeOK
  <2>5. TypeOK'
    BY <1>0, <1>1, <2>1, <2>2, <2>3 DEF TypeOK
  <2>6. HilosOK'
    BY <1>0, <1>1, <1>2, <1>5, <2>2, <2>4 DEF HilosOK, En, KEn, Pedida
  <2>7. ArchivosOK'
    BY <1>0, <1>1, <1>5, <2>1, <2>2 DEF ArchivosOK, En, KEn, Activos
  <2>8. MarcasOK' /\ RestoOK' /\ PropiosOK' /\ CupoOK' /\ ModificadasOK'
    <3>1. MarcasQuietas
      BY <1>1, <2>4 DEF MarcasQuietas
    <3>2. Presentes(q)' = Presentes(q)
      BY <2>4 DEF Presentes
    <3>3. /\ cpu'.p \in Procesos /\ cpu'.dato \in Presentes(cpu'.p)
          /\ tabla[cpu'.p][cpu'.dato].marco = cpu'.marco /\ tabla[cpu'.p][cpu'.dato].m
      BY <1>3, <1>4, <1>7, <2>2, <3>2
    <3>. QED  BY <1>1, <2>2, <2>4, <3>1, <3>3, QuietoInv DEF En
  <2>9. RespuestaOK'
    BY <2>2 DEF RespuestaOK, En
  <2>. QED  BY <2>5, <2>6, <2>7, <2>8, <2>9 DEF InvM
<1>8. CASE ~ e.m
  <2>1. PICK x \in Entradas : x = t[w]
    BY <1>5, <1>6
  <2>2. PICK y \in Entradas : y = Fuera(x) /\ ~ y.p /\ ~ y.m
    <3>1. Fuera(x) \in Entradas /\ ~ Fuera(x).p /\ ~ Fuera(x).m
      BY <2>1 DEF Fuera, Entradas
    <3>. QED  BY <3>1
  <2>3. PICK u \in [Paginas -> Entradas] : u = [t EXCEPT ![w] = y]
    BY <1>6
  <2>4. u[w] = y /\ \A h \in Paginas \ {w} : u[h] = t[h]
    BY <1>5, <1>6, <2>3
  <2>5. /\ cpu' = [cpu EXCEPT !.en = "asignar", !.marco = e.marco, !.dato = Nada]
        /\ tabla' = [tabla EXCEPT ![q] = u] /\ archivo' = archivo
    <3>1. [t EXCEPT ![w] = Fuera(@)] = u
      BY <1>5, <1>6, <2>1, <2>2, <2>3
    <3>. QED  BY <1>2, <1>3, <1>4, <1>8, <3>1 DEF Sacar
  <2>6. /\ cpu' \in CpuTipo /\ cpu'.en = "asignar" /\ cpu'.p = q /\ cpu'.g = g
        /\ cpu'.marco = e.marco
    BY <1>2, <1>5, <2>5 DEF CpuTipo
  <2>7. /\ tabla' \in [Procesos -> [Paginas -> Entradas]] /\ tabla'[q] = u
        /\ \A r \in Procesos : r # q => tabla'[r] = tabla[r]
    BY <1>0, <2>5 DEF TypeOK
  <2>8. TypeOK'
    BY <1>0, <1>1, <2>5, <2>6, <2>7 DEF TypeOK
  <2>9. /\ HilosOK' /\ ArchivosOK' /\ MarcasOK' /\ RestoOK' /\ PropiosOK' /\ CupoOK'
        /\ ModificadasOK' /\ RespuestaOK'
    BY <1>1, <1>2, <1>4, <1>5, <1>6, <2>2, <2>4, <2>5, <2>6, <2>7, PasoSacar
  <2>. QED  BY <2>8, <2>9 DEF InvM
<1>. QED  BY <1>7, <1>8

\* escribirPagEnSwap of the victim.
LEMMA PasoEscribir == InvM /\ CpuEscribir => InvM'
<1>. SUFFICES ASSUME InvM, CpuEscribir
              PROVE  InvM'
  OBVIOUS
<1>0. TypeOK /\ HilosOK /\ ArchivosOK /\ MarcasOK /\ RestoOK
  BY DEF InvM
<1>1. /\ cpu.en = "escribir"
      /\ UNCHANGED <<marcos, usuario, archivos, archivo, comparador, contadores, vida, kernel,
                     viva>>
  BY DEF CpuEscribir
<1>2. PICK q \in Procesos, g \in Paginas, w \in Paginas : q = cpu.p /\ g = cpu.g /\ w = cpu.dato
  BY <1>0, <1>1, PedidaTipo DEF MarcasOK, En, Presentes
<1>3. /\ tabla[q][w].p /\ tabla[q][w].marco = cpu.marco /\ tabla[q][w] \in Entradas
      /\ cpu.marco \in Marcos /\ archivo \in Procesos /\ cpu \in CpuTipo
  BY <1>0, <1>1, <1>2 DEF TypeOK, MarcasOK, Presentes, HilosOK, ArchivosOK, Activos, En
<1>12. PICK x \in Entradas : x = tabla[q][w]
  BY <1>3
<1>13. Fuera(x) \in Entradas /\ ~ Fuera(x).p /\ ~ Fuera(x).m
  BY DEF Fuera, Entradas
<1>4. PICK y \in Entradas : y = Fuera(tabla[q][w]) /\ ~ y.p /\ ~ y.m
  BY <1>12, <1>13
<1>5. /\ tabla' = Con(q, w, y) /\ cpu' = [cpu EXCEPT !.en = "asignar", !.dato = Nada]
      /\ swap' = [swap EXCEPT ![archivo][w] = usuario[cpu.marco]]
  BY <1>2, <1>4 DEF CpuEscribir
<1>6. /\ tabla' \in [Procesos -> [Paginas -> Entradas]] /\ tabla'[q][w] = y
      /\ \A r \in Procesos, h \in Paginas : r # q \/ h # w => tabla'[r][h] = tabla[r][h]
  BY <1>0, <1>5, ConEfecto
<1>7. \A r \in Procesos : r # q => tabla'[r] = tabla[r]
  BY <1>0, <1>5 DEF TypeOK, Con
<1>8. /\ cpu' \in CpuTipo /\ cpu'.en = "asignar" /\ cpu'.p = q /\ cpu'.g = g
      /\ cpu'.marco = cpu.marco
  BY <1>2, <1>3, <1>5 DEF CpuTipo
<1>9. swap' \in [Procesos -> [Paginas -> Valores \cup {Basura}]]
  BY <1>0, <1>3, <1>5 DEF TypeOK
<1>10. TypeOK'
  BY <1>0, <1>1, <1>6, <1>8, <1>9 DEF TypeOK
<1>11. /\ HilosOK' /\ ArchivosOK' /\ MarcasOK' /\ RestoOK' /\ PropiosOK' /\ CupoOK'
       /\ ModificadasOK' /\ RespuestaOK'
  BY <1>1, <1>2, <1>3, <1>4, <1>6, <1>7, <1>8, PasoSacar
<1>. QED  BY <1>10, <1>11 DEF InvM

\* escribirPagEnMemoria: the page is in the frame that the thread held for it.
LEMMA PasoCargar == InvM /\ CpuCargar => InvM'
<1>. SUFFICES ASSUME InvM, CpuCargar
              PROVE  InvM'
  OBVIOUS
<1>0. TypeOK /\ HilosOK /\ ArchivosOK /\ MarcasOK /\ RestoOK /\ PropiosOK /\ CupoOK
      /\ ModificadasOK /\ RespuestaOK
  BY DEF InvM
<1>1. /\ cpu.en = "cargar"
      /\ UNCHANGED <<marcos, swap, archivos, archivo, comparador, contadores, vida, kernel,
                     viva>>
  BY DEF CpuCargar
<1>2. PICK q \in Procesos, g \in Paginas : q = cpu.p /\ g = cpu.g
  BY <1>0, <1>1, PedidaTipo
<1>3. /\ Pedida \in Entradas /\ Pedida = tabla[q][g] /\ cpu.marco \in Marcos /\ cpu \in CpuTipo
      /\ cpu.dato \in Valores \cup {Basura} /\ vida[q] = "activo" /\ kernel.p # q
      /\ tabla[q][g].p => tabla[q][g].marco = cpu.marco
  BY <1>0, <1>1, <1>2 DEF TypeOK, HilosOK, En, Pedida, RespuestaOK
<1>20. PICK x \in Entradas, f \in Marcos : x = tabla[q][g] /\ f = cpu.marco
  BY <1>3
<1>21. PICK e \in Entradas : e = [x EXCEPT !.p = TRUE, !.marco = f]
  BY DEF Entradas
<1>22. e.p /\ e.marco = f /\ e.m = x.m
  BY <1>21 DEF Entradas
<1>4. /\ e = [Pedida EXCEPT !.p = TRUE, !.marco = cpu.marco]
      /\ e.p /\ e.marco = cpu.marco /\ e.m = tabla[q][g].m
  BY <1>3, <1>20, <1>21, <1>22
<1>5. /\ tabla' = Con(q, g, e) /\ cpu' = [cpu EXCEPT !.en = "acceder", !.dato = Nada]
      /\ usuario' = [usuario EXCEPT ![cpu.marco] = cpu.dato]
  BY <1>2, <1>4 DEF CpuCargar
<1>6. /\ tabla' \in [Procesos -> [Paginas -> Entradas]] /\ tabla'[q][g] = e
      /\ \A r \in Procesos, h \in Paginas : r # q \/ h # g => tabla'[r][h] = tabla[r][h]
  BY <1>0, <1>5, ConEfecto
<1>7. /\ cpu' \in CpuTipo /\ cpu'.en = "acceder" /\ cpu'.p = q /\ cpu'.g = g
      /\ cpu'.marco = cpu.marco
  BY <1>2, <1>3, <1>5 DEF CpuTipo
<1>8. usuario' \in [Marcos -> Valores \cup {Basura}]
  BY <1>0, <1>3, <1>5 DEF TypeOK
<1>9. TypeOK'
  BY <1>0, <1>1, <1>6, <1>7, <1>8 DEF TypeOK
<1>10. HilosOK'
  BY <1>0, <1>1, <1>2, <1>3, <1>7 DEF HilosOK, En, KEn
<1>11. ArchivosOK'
  BY <1>0, <1>1, <1>7 DEF ArchivosOK, En, KEn, Activos
<1>12. /\ \A r \in Procesos, h \in Paginas : Soltandose(r, h)' = Soltandose(r, h)
       /\ \A h \in Paginas : ~ Soltandose(q, h)
       /\ SinFines' = SinFines
       /\ \A r : Usados(r)' = Usados(r)
  BY <1>1, <1>3 DEF Soltandose, SinFines, Usados
<1>13. KEn({"bajar", "soltar", "bits"}) =>
         /\ kernel.p \in Procesos /\ Head(kernel.resto) \in Paginas
         /\ \A h \in Paginas : tabla'[kernel.p][h] = tabla[kernel.p][h]
  BY <1>0, <1>3, <1>6, CabezaTipo
<1>14. MarcasOK'
  <2>1. ASSUME NEW r \in Procesos, NEW h \in Paginas
        PROVE  /\ tabla'[r][h].p => tabla'[r][h].marco \in Marcos /\ vida'[r] # "fuera"
               /\ ~ tabla'[r][h].p => ~ tabla'[r][h].m
    <3>1. CASE r = q /\ h = g
      BY <1>1, <1>3, <1>4, <1>6, <3>1
    <3>2. CASE ~ (r = q /\ h = g)
      BY <1>0, <1>1, <1>6, <3>2 DEF MarcasOK
    <3>. QED  BY <3>1, <3>2
  <2>2. ASSUME NEW y \in Marcos, NEW r \in Procesos, marcos'[y] = r
        PROVE  vida'[r] # "fuera" /\ \E h \in Paginas : tabla'[r][h].p /\ tabla'[r][h].marco = y
    <3>1. vida'[r] # "fuera" /\ marcos[y] = r
      BY <1>0, <1>1, <2>2 DEF MarcasOK
    <3>2. CASE Cargandose(r, y)
      <4>1. r = q /\ y = cpu.marco
        BY <1>2, <3>2 DEF Cargandose
      <4>2. tabla'[r][g].p /\ tabla'[r][g].marco = y
        BY <1>4, <1>6, <4>1
      <4>. QED  BY <3>1, <4>2
    <3>3. CASE ~ Cargandose(r, y)
      <4>1. PICK h \in Paginas : tabla[r][h].p /\ tabla[r][h].marco = y
        BY <1>0, <3>1, <3>3 DEF MarcasOK
      <4>2. tabla'[r][h].p /\ tabla'[r][h].marco = y
        <5>1. CASE r = q /\ h = g
          BY <1>3, <1>4, <1>6, <4>1, <5>1
        <5>2. CASE ~ (r = q /\ h = g)
          BY <1>6, <4>1, <5>2
        <5>. QED  BY <5>1, <5>2
      <4>. QED  BY <3>1, <4>2
    <3>. QED  BY <3>2, <3>3
  <2>3. KEn({"bits"}) => marcos[tabla'[kernel.p][Head(kernel.resto)].marco] # kernel.p
    BY <1>0, <1>13 DEF MarcasOK, KEn
  <2>. QED  BY <1>1, <1>7, <2>1, <2>2, <2>3 DEF MarcasOK, En, KEn
<1>15. RestoOK'
  BY <1>0, <1>1, <1>13 DEF RestoOK, KEn, Presentes
<1>16. PropiosOK'
  <2>. SUFFICES ASSUME SinFines
                PROVE  PropiosOK'
    BY <1>12 DEF PropiosOK
  <2>1. /\ marcos[cpu.marco] = q
        /\ \A h \in Paginas : tabla[q][h].p /\ tabla[q][h].marco = cpu.marco => h = g
    BY <1>0, <1>1, <1>2 DEF PropiosOK, En, Presentes
  <2>2. ASSUME NEW r \in Procesos, NEW h \in Paginas, tabla'[r][h].p, ~ Soltandose(r, h)
        PROVE  marcos[tabla'[r][h].marco] = r
    <3>1. CASE r = q /\ h = g
      BY <1>4, <1>6, <2>1, <3>1
    <3>2. CASE ~ (r = q /\ h = g)
      BY <1>0, <1>6, <2>2, <3>2 DEF PropiosOK
    <3>. QED  BY <3>1, <3>2
  <2>3. ASSUME NEW r \in Procesos, NEW h \in Paginas, NEW k \in Paginas,
               tabla'[r][h].p, ~ Soltandose(r, h), tabla'[r][k].p, ~ Soltandose(r, k),
               tabla'[r][h].marco = tabla'[r][k].marco
        PROVE  h = k
    <3>1. CASE r = q
      <4>1. \A x1 \in Paginas \ {g} : tabla'[q][x1].p => tabla'[q][x1].marco # cpu.marco
        BY <1>6, <2>1
      <4>2. tabla'[q][g].marco = cpu.marco
        BY <1>4, <1>6
      <4>3. CASE h = g \/ k = g
        BY <2>3, <3>1, <4>1, <4>2, <4>3
      <4>4. CASE h # g /\ k # g
        BY <1>0, <1>6, <2>3, <3>1, <4>4 DEF PropiosOK
      <4>. QED  BY <4>3, <4>4
    <3>2. CASE r # q
      BY <1>0, <1>6, <2>3, <3>2 DEF PropiosOK
    <3>. QED  BY <3>1, <3>2
  <2>. QED  BY <1>1, <1>7, <1>12, <2>2, <2>3 DEF PropiosOK, En
<1>17. CupoOK'
  <2>1. \A r : Propios(r)' = Propios(r)
    BY <1>1, <1>12, <1>13 DEF Propios, KEn
  <2>. QED  BY <1>0, <1>7, <1>12, <2>1 DEF CupoOK, En
<1>18. ModificadasOK'
  <2>1. kernel.p \in Procesos =>
          \A h \in Paginas : tabla'[kernel.p][h] = tabla[kernel.p][h]
    BY <1>3, <1>6
  <2>. QED  BY <1>0, <1>1, <1>12, <2>1 DEF ModificadasOK, KEn, HilosOK
<1>19. RespuestaOK'
  BY <1>4, <1>6, <1>7 DEF RespuestaOK, En, Pedida
<1>. QED  BY <1>9, <1>10, <1>11, <1>14, <1>15, <1>16, <1>17, <1>18, <1>19 DEF InvM

\* Process o had its page in frame f in the tables t, and it is modified in u.
HayEscrita(t, o, f, u) == \E h \in Paginas : t[o][h].p /\ t[o][h].marco = f /\ u[o][h].m

\* cambiarMarcoUsoAUno and cambiarMarcoModificadoAUno, on a frame whose mark has its
\* page.
LEMMA MarcadaEfecto ==
    ASSUME marcos \in [Marcos -> Procesos \cup {Nada}],
           NEW t \in [Procesos -> [Paginas -> Entradas]], NEW f \in Marcos, NEW w,
           marcos[f] # Nada => \E h \in Paginas : t[marcos[f]][h].p /\ t[marcos[f]][h].marco = f
    PROVE  /\ Marcada(t, f, w) \in [Procesos -> [Paginas -> Entradas]]
           /\ \A r \in Procesos, h \in Paginas :
                /\ Marcada(t, f, w)[r][h].p = t[r][h].p
                /\ Marcada(t, f, w)[r][h].marco = t[r][h].marco
                /\ t[r][h].m => Marcada(t, f, w)[r][h].m
                /\ Marcada(t, f, w)[r][h].m =>
                     t[r][h].m \/ (w # Nada /\ r = marcos[f] /\ t[r][h].p /\ t[r][h].marco = f)
           /\ marcos[f] # Nada /\ w # Nada =>
                HayEscrita(t, marcos[f], f, Marcada(t, f, w))
<1>1. CASE marcos[f] = Nada
  <2>1. Marcada(t, f, w) = t
    BY <1>1 DEF Marcada
  <2>. QED  BY <1>1, <2>1
<1>2. CASE marcos[f] # Nada
  <2>1. PICK o \in Procesos : o = marcos[f]
    BY <1>2
  <2>. DEFINE S == {h \in Paginas : t[o][h].p /\ t[o][h].marco = f}
  <2>2. S # {} /\ S \subseteq Nat
    BY <1>2, <2>1, PaginasAssumption
  <2>3. PICK g \in S : g = Menor(S)
    BY <2>2, MenorNat
  <2>4. g \in Paginas /\ t[o][g].p /\ t[o][g].marco = f
    OBVIOUS
  <2>5. PICK x \in Entradas : x = t[o][g]
    BY <2>4
  <2>6. PICK e \in Entradas : e = Acceso(x, w) /\ e.p = x.p /\ e.marco = x.marco
                              /\ e.m = (x.m \/ w # Nada)
    <3>1. PICK b \in BOOLEAN : b = (x.m \/ w # Nada)
      BY DEF Entradas
    <3>2. Acceso(x, w) = [x EXCEPT !.u = TRUE, !.m = b]
      BY <3>1 DEF Acceso, Entradas
    <3>3. PICK y \in Entradas : y = [x EXCEPT !.u = TRUE]
      BY DEF Entradas
    <3>4. y.p = x.p /\ y.marco = x.marco
      BY <3>3 DEF Entradas
    <3>5. PICK e \in Entradas : e = [y EXCEPT !.m = b]
      BY <3>1 DEF Entradas
    <3>6. e.p = y.p /\ e.marco = y.marco /\ e.m = b
      BY <3>5 DEF Entradas
    <3>7. e = Acceso(x, w) /\ e.p = x.p /\ e.marco = x.marco
      BY <3>2, <3>3, <3>4, <3>5, <3>6
    <3>8. e.m = (x.m \/ w # Nada)
      BY <3>1, <3>6
    <3>. QED  BY <3>7, <3>8
  <2>7. Marcada(t, f, w) = [t EXCEPT ![o][g] = e]
    BY <1>2, <2>1, <2>3, <2>5, <2>6 DEF Marcada
  <2>8. PICK v \in [Paginas -> Entradas] : v = [t[o] EXCEPT ![g] = e]
    BY <2>4
  <2>9. v[g] = e /\ \A h \in Paginas : h # g => v[h] = t[o][h]
    BY <2>4, <2>8
  <2>10. Marcada(t, f, w) = [t EXCEPT ![o] = v]
    BY <2>7, <2>8
  <2>11. PICK z \in [Procesos -> [Paginas -> Entradas]] : z = Marcada(t, f, w)
    BY <2>10
  <2>12. z[o] = v /\ \A r \in Procesos : r # o => z[r] = t[r]
    BY <2>10, <2>11
  <2>. HIDE DEF S
  <2>13. ASSUME NEW r \in Procesos, NEW h \in Paginas
         PROVE  /\ z[r][h].p = t[r][h].p /\ z[r][h].marco = t[r][h].marco
                /\ t[r][h].m => z[r][h].m
                /\ z[r][h].m => t[r][h].m \/ (w # Nada /\ r = o /\ t[r][h].p /\ t[r][h].marco = f)
    <3>1. CASE r = o /\ h = g
      BY <2>4, <2>5, <2>6, <2>9, <2>12, <3>1
    <3>2. CASE ~ (r = o /\ h = g)
      BY <2>9, <2>12, <3>2
    <3>. QED  BY <3>1, <3>2
  <2>14. w # Nada => HayEscrita(t, o, f, z)
    BY <2>4, <2>6, <2>9, <2>12 DEF HayEscrita
  <2>. QED  BY <2>1, <2>11, <2>13, <2>14
<1>. QED  BY <1>1, <1>2

\* What an access to the frames of the process that runs preserves.
LEMMA PasoAcceso ==
    ASSUME InvM, MarcasQuietas, cpu.en \in {"libre", "acceder"},
           cpu' \in CpuTipo, cpu'.en = "libre",
           usuario' \in [Marcos -> Valores \cup {Basura}],
           tabla' \in [Procesos -> [Paginas -> Entradas]],
           \A r \in Procesos, h \in Paginas : tabla'[r][h].m => tabla[r][h].m \/ tabla[r][h].p,
           SinFines /\ kernel.p \in Procesos =>
             \A h \in Paginas : tabla'[kernel.p][h].m => tabla[kernel.p][h].m,
           UNCHANGED <<swap, archivos, archivo, comparador, contadores, viva>>
    PROVE  InvM'
<1>0. TypeOK /\ HilosOK /\ ArchivosOK
  BY DEF InvM
<1>1. marcos' = marcos /\ vida' = vida /\ kernel' = kernel
  BY DEF MarcasQuietas
<1>2. TypeOK'
  BY <1>0, <1>1 DEF TypeOK
<1>3. HilosOK'
  BY <1>0, <1>1 DEF HilosOK, En, KEn
<1>4. ArchivosOK'
  BY <1>0, <1>1 DEF ArchivosOK, En, KEn, Activos
<1>5. MarcasOK' /\ RestoOK' /\ PropiosOK' /\ CupoOK' /\ ModificadasOK'
  BY QuietoMarcado DEF En
<1>6. RespuestaOK'
  BY DEF RespuestaOK, En
<1>. QED  BY <1>2, <1>3, <1>4, <1>5, <1>6 DEF InvM

\* READ and WRITE, and the answer.
LEMMA PasoAcceder == InvM /\ CpuAcceder => InvM'
<1>. SUFFICES ASSUME InvM, CpuAcceder
              PROVE  InvM'
  OBVIOUS
<1>0. TypeOK /\ HilosOK /\ MarcasOK /\ PropiosOK /\ RespuestaOK
  BY DEF InvM
<1>1. /\ cpu.en = "acceder"
      /\ UNCHANGED <<marcos, swap, archivos, archivo, comparador, contadores, vida, kernel,
                     viva>>
  BY DEF CpuAcceder
<1>2. PICK q \in Procesos, g \in Paginas, f \in Marcos : q = cpu.p /\ g = cpu.g /\ f = cpu.marco
  BY <1>0, <1>1, PedidaTipo DEF HilosOK, En
<1>3. PICK w \in Valores \cup {Nada} : w = cpu.w
  BY <1>0 DEF TypeOK, CpuTipo
<1>4. /\ usuario' = IF w = Nada THEN usuario ELSE [usuario EXCEPT ![f] = w]
      /\ tabla' = Marcada(tabla, f, w)
      /\ cpu' = [Reposo EXCEPT !.dato = IF w = Nada THEN usuario[f] ELSE Nada]
  BY <1>2, <1>3 DEF CpuAcceder
<1>5. /\ kernel.p # q /\ tabla[q][g].p /\ tabla[q][g].marco = f
  BY <1>0, <1>1, <1>2 DEF HilosOK, RespuestaOK, En, Pedida
<1>6. usuario' \in [Marcos -> Valores \cup {Basura}]
  BY <1>0, <1>3, <1>4 DEF TypeOK
<1>7. cpu' \in CpuTipo /\ cpu'.en = "libre"
  <2>1. PICK d \in Valores \cup {Basura, Nada} : d = IF w = Nada THEN usuario[f] ELSE Nada
    BY <1>0 DEF TypeOK
  <2>2. cpu' = [Reposo EXCEPT !.dato = d]
    BY <1>4, <2>1
  <2>. QED  BY <2>1, <2>2 DEF Reposo, CpuTipo
<1>8. marcos[f] # Nada => \E h \in Paginas : tabla[marcos[f]][h].p /\ tabla[marcos[f]][h].marco = f
  <2>1. ~ Cargandose(marcos[f], f)
    BY <1>1 DEF Cargandose, En
  <2>2. marcos[f] \in Procesos \cup {Nada}
    BY <1>0 DEF TypeOK
  <2>. QED  BY <1>0, <2>1, <2>2 DEF MarcasOK
<1>9. marcos \in [Marcos -> Procesos \cup {Nada}] /\ tabla \in [Procesos -> [Paginas -> Entradas]]
  BY <1>0 DEF TypeOK
<1>10. /\ tabla' \in [Procesos -> [Paginas -> Entradas]]
       /\ \A r \in Procesos, h \in Paginas :
            /\ tabla'[r][h].p = tabla[r][h].p /\ tabla'[r][h].marco = tabla[r][h].marco
            /\ tabla[r][h].m => tabla'[r][h].m
            /\ tabla'[r][h].m => tabla[r][h].m \/ (r = marcos[f] /\ tabla[r][h].p)
  BY <1>4, <1>8, <1>9, MarcadaEfecto
<1>11. SinFines => marcos[f] = q
  BY <1>0, <1>5 DEF PropiosOK, Soltandose
<1>12. MarcasQuietas
  BY <1>1, <1>10 DEF MarcasQuietas
<1>13. SinFines /\ kernel.p \in Procesos =>
         \A h \in Paginas : tabla'[kernel.p][h].m => tabla[kernel.p][h].m
  BY <1>5, <1>10, <1>11
<1>. QED  BY <1>1, <1>6, <1>7, <1>10, <1>12, <1>13, PasoAcceso

\* A step of the kernel's thread that takes no page out and frees no frame.
LEMMA KQuieto ==
    ASSUME InvM, UNCHANGED <<marcos, cpu>>,
           tabla' \in [Procesos -> [Paginas -> Entradas]],
           \A r \in Procesos, h \in Paginas : /\ tabla'[r][h].p = tabla[r][h].p
                                              /\ tabla[r][h].p => tabla'[r][h].marco = tabla[r][h].marco
                                              /\ tabla'[r][h].m => tabla[r][h].m,
           cpu.en # "libre" => \A h \in Paginas : tabla[cpu.p][h].m => tabla'[cpu.p][h].m,
           \A r \in Procesos : vida[r] # "fuera" => vida'[r] # "fuera",
           SinFines' => SinFines, ~ KEn({"bits"}), ~ KEn({"bits"})'
    PROVE  MarcasOK' /\ PropiosOK' /\ CupoOK' /\ RespuestaOK'
<1>0. TypeOK /\ HilosOK /\ MarcasOK /\ PropiosOK /\ CupoOK /\ RespuestaOK
  BY DEF InvM
<1>1. /\ \A r \in Procesos : Presentes(r)' = Presentes(r)
      /\ \A r : Usados(r)' = Usados(r) /\ Propios(r)' = Propios(r)
      /\ \A r, x : Cargandose(r, x)' = Cargandose(r, x)
      /\ \A r, h : ~ Soltandose(r, h) /\ ~ Soltandose(r, h)'
  BY DEF Presentes, Usados, Propios, Cargandose, En, Soltandose, KEn
<1>2. cpu.en # "libre" => /\ cpu.p \in Procesos /\ cpu.g \in Paginas
                          /\ Pedida.p' = Pedida.p /\ (Pedida.p => Pedida.marco' = Pedida.marco)
  BY <1>0 DEF HilosOK, Pedida
<1>3. MarcasOK'
  <2>1. ASSUME NEW r \in Procesos, NEW h \in Paginas
        PROVE  /\ tabla'[r][h].p => tabla'[r][h].marco \in Marcos /\ vida'[r] # "fuera"
               /\ ~ tabla'[r][h].p => ~ tabla'[r][h].m
    BY <1>0 DEF MarcasOK
  <2>2. ASSUME NEW x \in Marcos, NEW r \in Procesos, marcos'[x] = r
        PROVE  /\ vida'[r] # "fuera"
               /\ Cargandose(r, x)' \/ \E h \in Paginas : tabla'[r][h].p /\ tabla'[r][h].marco = x
    <3>1. marcos[x] = r
      BY <2>2
    <3>2. vida'[r] # "fuera"
      BY <1>0, <3>1 DEF MarcasOK
    <3>3. CASE Cargandose(r, x)
      BY <1>1, <3>2, <3>3
    <3>4. CASE ~ Cargandose(r, x)
      <4>1. PICK h \in Paginas : tabla[r][h].p /\ tabla[r][h].marco = x
        BY <1>0, <3>1, <3>4 DEF MarcasOK
      <4>2. tabla'[r][h].p /\ tabla'[r][h].marco = x
        BY <4>1
      <4>. QED  BY <3>2, <4>2
    <3>. QED  BY <3>3, <3>4
  <2>3. En({"reemplazar"})' => Presentes(cpu.p)' # {}
    BY <1>0, <1>1, <1>2 DEF MarcasOK, En
  <2>4. En({"escribir"})' => /\ cpu'.dato \in Presentes(cpu.p)'
                             /\ tabla'[cpu'.p][cpu'.dato].marco = cpu'.marco
                             /\ tabla'[cpu'.p][cpu'.dato].m
    BY <1>0, <1>1, <1>2 DEF MarcasOK, En, Presentes
  <2>. QED  BY <2>1, <2>2, <2>3, <2>4 DEF MarcasOK
<1>4. PropiosOK'
  <2>. SUFFICES ASSUME SinFines'
                PROVE  PropiosOK'
    BY DEF PropiosOK
  <2>1. SinFines
    OBVIOUS
  <2>2. \A r \in Procesos, h \in Paginas : tabla'[r][h].p =>
          tabla[r][h].p /\ tabla'[r][h].marco = tabla[r][h].marco
    OBVIOUS
  <2>3. \A r \in Procesos, h \in Paginas : tabla'[r][h].p => marcos'[tabla'[r][h].marco] = r
    BY <1>0, <1>1, <2>1, <2>2 DEF PropiosOK
  <2>4. ASSUME NEW r \in Procesos, NEW h \in Paginas, NEW k \in Paginas,
               tabla'[r][h].p, tabla'[r][k].p, tabla'[r][h].marco = tabla'[r][k].marco
        PROVE  h = k
    BY <1>0, <1>1, <2>1, <2>2, <2>4 DEF PropiosOK
  <2>5. En({"asignar", "traer", "cargar"})' =>
          /\ marcos'[cpu'.marco] = cpu'.p
          /\ \A h \in Presentes(cpu.p)' : tabla'[cpu'.p][h].marco = cpu'.marco => h = cpu'.g
    <3>. SUFFICES ASSUME En({"asignar", "traer", "cargar"})
                  PROVE  /\ marcos'[cpu'.marco] = cpu'.p
                         /\ \A h \in Presentes(cpu.p)' : tabla'[cpu'.p][h].marco = cpu'.marco => h = cpu'.g
      BY DEF En
    <3>1. /\ marcos[cpu.marco] = cpu.p /\ cpu.p \in Procesos
          /\ \A h \in Presentes(cpu.p) : tabla[cpu.p][h].marco = cpu.marco => h = cpu.g
      BY <1>0, <1>2, <2>1 DEF PropiosOK, En
    <3>2. \A h \in Presentes(cpu.p)' : h \in Presentes(cpu.p) /\ h \in Paginas /\ tabla'[cpu.p][h].p
      BY <1>1, <3>1 DEF Presentes
    <3>. QED  BY <2>2, <3>1, <3>2
  <2>. QED  BY <2>3, <2>4, <2>5 DEF PropiosOK
<1>5. CupoOK'
  BY <1>0, <1>1 DEF CupoOK, En
<1>6. RespuestaOK'
  BY <1>0, <1>2 DEF RespuestaOK, En, Pedida
<1>. QED  BY <1>3, <1>4, <1>5, <1>6

LEMMA PasoInicializar ==
    ASSUME InvM, NEW q \in Procesos, KInicializar(q)
    PROVE  InvM'
<1>0. TypeOK /\ HilosOK /\ ArchivosOK /\ MarcasOK
  BY DEF InvM
<1>1. /\ kernel.en = "libre" /\ vida[q] = "fuera" /\ vida' = [vida EXCEPT ![q] = "listo"]
      /\ archivos' = archivos \cup {q} /\ contadores' \in Nat
      /\ UNCHANGED <<marcos, usuario, swap, archivo, comparador, cpu, kernel, viva>>
  BY <1>0 DEF KInicializar, TypeOK
<1>2. PICK f \in [Paginas -> Punteros] : tabla' = [tabla EXCEPT ![q] = TablaNueva(f)]
  BY DEF KInicializar
<1>3. \A g \in Paginas : f[g] \in BOOLEAN
  BY PunterosAssumption
<1>4. PICK t \in [Paginas -> Entradas] : t = TablaNueva(f) /\ \A g \in Paginas : ~ t[g].p /\ ~ t[g].m
  <2>1. ASSUME NEW g \in Paginas
        PROVE  TablaNueva(f)[g] \in Entradas /\ ~ TablaNueva(f)[g].p /\ ~ TablaNueva(f)[g].m
    <3>1. PICK b \in BOOLEAN : b = f[g]
      BY <1>3
    <3>2. TablaNueva(f)[g] = [p |-> FALSE, u |-> FALSE, m |-> FALSE, puntero |-> b, marco |-> Nada]
      BY <3>1 DEF TablaNueva
    <3>. QED  BY <3>2 DEF Entradas
  <2>2. TablaNueva(f) \in [Paginas -> Entradas]
    <3>1. \A g \in Paginas : TablaNueva(f)[g] \in Entradas
      BY <2>1
    <3>2. TablaNueva(f) = [g \in Paginas |-> TablaNueva(f)[g]]
      BY DEF TablaNueva
    <3>. QED  BY <3>1, <3>2
  <2>. QED  BY <2>1, <2>2
<1>5. /\ tabla' \in [Procesos -> [Paginas -> Entradas]] /\ tabla'[q] = t
      /\ \A r \in Procesos : r # q => tabla'[r] = tabla[r]
  BY <1>0, <1>2, <1>4 DEF TypeOK
<1>6. /\ vida' \in [Procesos -> {"fuera", "listo", "activo", "fin"}] /\ vida'[q] = "listo"
      /\ \A r \in Procesos : r # q => vida'[r] = vida[r]
  BY <1>0, <1>1 DEF TypeOK
<1>7. \A g \in Paginas : ~ tabla[q][g].p /\ ~ tabla[q][g].m
  BY <1>0, <1>1 DEF MarcasOK
<1>8. TypeOK'
  BY <1>0, <1>1, <1>5, <1>6 DEF TypeOK
<1>9. cpu.en # "libre" => cpu.p # q /\ cpu.p \in Procesos
  BY <1>0, <1>1 DEF HilosOK
<1>10. HilosOK'
  BY <1>0, <1>1, <1>5, <1>6, <1>9 DEF HilosOK, En, KEn, Pedida
<1>11. Activos' = Activos \cup {q}
  BY <1>6 DEF Activos
<1>12. ArchivosOK'
  BY <1>0, <1>1, <1>6, <1>9, <1>11 DEF ArchivosOK, En, KEn
<1>13. MarcasOK' /\ PropiosOK' /\ CupoOK' /\ RespuestaOK'
  <2>1. \A r \in Procesos, h \in Paginas :
          /\ tabla'[r][h].p = tabla[r][h].p
          /\ tabla[r][h].p => tabla'[r][h].marco = tabla[r][h].marco
          /\ tabla'[r][h].m => tabla[r][h].m
    <3>. TAKE r \in Procesos, h \in Paginas
    <3>1. tabla[r][h].p \in BOOLEAN /\ tabla[r][h].m \in BOOLEAN
      BY <1>0 DEF TypeOK, Entradas
    <3>2. t[h].p \in BOOLEAN /\ t[h].m \in BOOLEAN /\ ~ t[h].p /\ ~ t[h].m
      BY <1>4 DEF Entradas
    <3>3. CASE r = q
      BY <1>5, <1>7, <3>1, <3>2, <3>3
    <3>4. CASE r # q
      BY <1>5, <3>4
    <3>. QED  BY <3>3, <3>4
  <2>2. \A r \in Procesos : vida[r] # "fuera" => vida'[r] # "fuera"
    BY <1>1, <1>6
  <2>3. SinFines' => SinFines
    BY <1>1, <1>6 DEF SinFines
  <2>4. cpu.en # "libre" => \A h \in Paginas : tabla'[cpu.p][h] = tabla[cpu.p][h]
    BY <1>5, <1>9
  <2>. QED  BY <1>1, <1>5, <2>1, <2>2, <2>3, <2>4, KQuieto DEF KEn
<1>14. RestoOK' /\ ModificadasOK'
  BY <1>1 DEF RestoOK, ModificadasOK, KEn
<1>. QED  BY <1>8, <1>10, <1>12, <1>13, <1>14 DEF InvM

LEMMA PasoSuspender ==
    ASSUME InvM, NEW q \in Procesos, KSuspender(q)
    PROVE  InvM'
<1>0. TypeOK /\ HilosOK /\ ArchivosOK /\ MarcasOK
  BY DEF InvM
<1>1. /\ kernel.en = "libre" /\ vida[q] = "activo" /\ cpu.p # q
      /\ vida' = [vida EXCEPT ![q] = "listo"] /\ archivo' = q
      /\ kernel' = [Descanso EXCEPT !.en = "listar", !.p = q]
      /\ UNCHANGED <<marcos, tabla, usuario, swap, archivos, comparador, contadores, cpu, viva>>
  BY DEF KSuspender, Disponible
<1>2. kernel' \in KernelTipo /\ kernel'.en = "listar" /\ kernel'.p = q
  <2>1. <<>> \in Seq(Paginas)
    OBVIOUS
  <2>. QED  BY <1>1, <2>1 DEF Descanso, KernelTipo
<1>3. /\ vida' \in [Procesos -> {"fuera", "listo", "activo", "fin"}] /\ vida'[q] = "listo"
      /\ \A r \in Procesos : r # q => vida'[r] = vida[r]
  BY <1>0, <1>1 DEF TypeOK
<1>4. TypeOK'
  BY <1>0, <1>1, <1>2, <1>3 DEF TypeOK
<1>5. HilosOK'
  BY <1>0, <1>1, <1>2, <1>3 DEF HilosOK, En, KEn, Pedida
<1>6. Activos' = Activos /\ q \in Activos
  BY <1>1, <1>3 DEF Activos
<1>7. ArchivosOK'
  BY <1>0, <1>1, <1>2, <1>3, <1>6 DEF ArchivosOK, En, KEn
<1>8. MarcasOK' /\ PropiosOK' /\ CupoOK' /\ RespuestaOK'
  <2>1. \A r \in Procesos : vida[r] # "fuera" => vida'[r] # "fuera"
    BY <1>3
  <2>2. SinFines' => SinFines
    BY <1>1, <1>3 DEF SinFines
  <2>3. tabla' \in [Procesos -> [Paginas -> Entradas]]
    BY <1>4 DEF TypeOK
  <2>. QED  BY <1>1, <1>2, <2>1, <2>2, <2>3, KQuieto DEF KEn
<1>9. RestoOK' /\ ModificadasOK'
  BY <1>2 DEF RestoOK, ModificadasOK, KEn
<1>. QED  BY <1>4, <1>5, <1>7, <1>8, <1>9 DEF InvM

\* escribirPaginasModificadas, its list.
LEMMA PasoListar == InvM /\ KListar => InvM'
<1>. SUFFICES ASSUME InvM, KListar
              PROVE  InvM'
  OBVIOUS
<1>0. TypeOK /\ HilosOK /\ ArchivosOK /\ MarcasOK
  BY DEF InvM
<1>1. /\ kernel.en = "listar" /\ archivo' = kernel.p
      /\ UNCHANGED <<marcos, tabla, usuario, swap, archivos, comparador, contadores, vida, cpu,
                     viva>>
  BY DEF KListar
<1>2. PICK q \in Procesos : q = kernel.p /\ vida[q] = "listo" /\ q \in Activos
  BY <1>0, <1>1 DEF HilosOK, KEn, Activos
<1>. DEFINE S == {g \in Presentes(q) : tabla[q][g].m}
            s == EnOrden(q, S)
<1>3. S \subseteq Paginas /\ \A g \in S : tabla[q][g].marco \in Nat
  BY <1>0, MarcosAssumption DEF MarcasOK, Presentes
<1>. HIDE DEF S
<1>4. /\ s \in Seq(Paginas) /\ DOMAIN s = 1..Cardinality(S) /\ Len(s) = Cardinality(S)
      /\ (S # {} => Cardinality(S) # 0)
      /\ \A i \in DOMAIN s : s[i] \in S
      /\ \A i, j \in DOMAIN s : s[i] = s[j] => i = j
      /\ \A g \in S : \E i \in DOMAIN s : s[i] = g
  BY <1>3, EnOrdenCorrecto
<1>5. kernel' = [kernel EXCEPT !.en = Bajada(s), !.resto = s]
  BY <1>2 DEF KListar, Modificadas, S
<1>. HIDE DEF s
<1>6. /\ kernel' \in KernelTipo /\ kernel'.p = q /\ kernel'.resto = s
      /\ kernel'.en = Bajada(s) /\ Bajada(s) \in {"limpiar", "bajar"}
      /\ Bajada(s) = "bajar" => s # <<>>
      /\ Bajada(s) = "limpiar" => S = {}
  <2>1. Bajada(s) \in {"limpiar", "bajar"} /\ (Bajada(s) = "limpiar" => s = <<>>)
        /\ (Bajada(s) = "bajar" => s # <<>>)
    BY DEF Bajada
  <2>2. s = <<>> => S = {}
    BY <1>4
  <2>3. kernel \in KernelTipo
    BY <1>0 DEF TypeOK
  <2>4. kernel' \in KernelTipo /\ kernel'.p = q /\ kernel'.resto = s /\ kernel'.en = Bajada(s)
    BY <1>2, <1>4, <1>5, <2>1, <2>3 DEF KernelTipo
  <2>. QED  BY <2>1, <2>2, <2>4
<1>7. TypeOK'
  BY <1>0, <1>1, <1>2, <1>6 DEF TypeOK
<1>8. HilosOK'
  BY <1>0, <1>1, <1>2, <1>6 DEF HilosOK, En, KEn, Pedida
<1>9. ArchivosOK'
  BY <1>0, <1>1, <1>2, <1>6 DEF ArchivosOK, En, KEn, Activos
<1>10. MarcasOK' /\ PropiosOK' /\ CupoOK' /\ RespuestaOK'
  <2>1. tabla' \in [Procesos -> [Paginas -> Entradas]]
    BY <1>7 DEF TypeOK
  <2>. QED  BY <1>1, <1>6, <2>1, KQuieto DEF KEn, SinFines
<1>11. RestoOK'
  BY <1>1, <1>2, <1>4, <1>6 DEF RestoOK, KEn, Presentes, S
<1>12. \A g \in Paginas : tabla[q][g].m => g \in S
  BY <1>0 DEF S, Presentes, MarcasOK
<1>13. ModificadasOK'
  BY <1>1, <1>2, <1>4, <1>6, <1>12 DEF ModificadasOK, KEn
<1>. QED  BY <1>7, <1>8, <1>9, <1>10, <1>11, <1>13 DEF InvM

\* escribirPagEnSwap of a page of the process that is being suspended.
LEMMA PasoBajar == InvM /\ KBajar => InvM'
<1>. SUFFICES ASSUME InvM, KBajar
              PROVE  InvM'
  OBVIOUS
<1>0. TypeOK /\ HilosOK /\ ArchivosOK /\ MarcasOK /\ RestoOK /\ ModificadasOK
  BY DEF InvM
<1>1. /\ kernel.en = "bajar" /\ kernel' = [kernel EXCEPT !.en = "soltar"]
      /\ UNCHANGED <<marcos, usuario, archivos, archivo, comparador, contadores, vida, cpu, viva>>
  BY DEF KBajar
<1>2. PICK q \in Procesos, g \in Paginas :
        q = kernel.p /\ g = Head(kernel.resto) /\ g = kernel.resto[1] /\ tabla[q][g].p
        /\ DOMAIN kernel.resto = 1..Len(kernel.resto)
  BY <1>0, <1>1, CabezaTipo DEF KEn
<1>3. PICK x \in Entradas : x = tabla[q][g] /\ x.p /\ x.marco \in Marcos
  BY <1>0, <1>2 DEF TypeOK, MarcasOK
<1>4. PICK e \in Entradas : e = [x EXCEPT !.m = FALSE]
  BY DEF Entradas
<1>5. e.p = x.p /\ e.marco = x.marco /\ ~ e.m
  BY <1>4 DEF Entradas
<1>6. /\ tabla' = Con(q, g, e) /\ swap' = [swap EXCEPT ![archivo][g] = usuario[x.marco]]
  BY <1>2, <1>3, <1>4 DEF KBajar
<1>7. /\ tabla' \in [Procesos -> [Paginas -> Entradas]] /\ tabla'[q][g] = e
      /\ \A r \in Procesos, h \in Paginas : r # q \/ h # g => tabla'[r][h] = tabla[r][h]
  BY <1>0, <1>6, ConEfecto
<1>8. /\ kernel' \in KernelTipo /\ kernel'.p = q /\ kernel'.resto = kernel.resto
      /\ kernel'.en = "soltar"
  BY <1>0, <1>1, <1>2 DEF TypeOK, KernelTipo
<1>9. swap' \in [Procesos -> [Paginas -> Valores \cup {Basura}]]
  BY <1>0, <1>3, <1>6 DEF TypeOK
<1>10. TypeOK'
  BY <1>0, <1>1, <1>7, <1>8, <1>9 DEF TypeOK
<1>11. \A r \in Procesos, h \in Paginas :
         /\ tabla'[r][h].p = tabla[r][h].p /\ tabla'[r][h].marco = tabla[r][h].marco
         /\ tabla'[r][h].m => tabla[r][h].m /\ ~ (r = q /\ h = g)
  <2>. TAKE r \in Procesos, h \in Paginas
  <2>1. CASE r = q /\ h = g
    BY <1>3, <1>5, <1>7, <2>1
  <2>2. CASE ~ (r = q /\ h = g)
    BY <1>7, <2>2
  <2>. QED  BY <2>1, <2>2
<1>12. HilosOK'
  BY <1>0, <1>1, <1>2, <1>8, <1>11 DEF HilosOK, En, KEn, Pedida
<1>13. ArchivosOK'
  BY <1>0, <1>1, <1>8 DEF ArchivosOK, En, KEn, Activos
<1>14. MarcasOK' /\ PropiosOK' /\ CupoOK' /\ RespuestaOK'
  <2>1. cpu.en # "libre" => \A h \in Paginas : tabla'[cpu.p][h] = tabla[cpu.p][h]
    BY <1>0, <1>2, <1>7 DEF HilosOK
  <2>. QED  BY <1>1, <1>7, <1>8, <1>11, <2>1, KQuieto DEF KEn, SinFines
<1>15. RestoOK'
  <2>1. ASSUME NEW i \in DOMAIN kernel.resto
        PROVE  /\ kernel.resto[i] \in Presentes(q)'
               /\ i # 1 => tabla'[q][kernel.resto[i]].m
    <3>1. /\ kernel.resto[i] \in Paginas /\ tabla[q][kernel.resto[i]].p
          /\ tabla[q][kernel.resto[i]].m
      BY <1>0, <1>1, <1>2, <2>1 DEF RestoOK, KEn, Presentes
    <3>2. 1 \in DOMAIN kernel.resto
      BY <1>0, <1>1, <1>2, CabezaTipo DEF KEn
    <3>3. i # 1 => kernel.resto[i] # g
      BY <1>0, <1>1, <1>2, <2>1, <3>2 DEF RestoOK, KEn
    <3>. QED  BY <1>7, <1>11, <3>1, <3>3 DEF Presentes
  <2>. QED  BY <1>0, <1>1, <1>2, <1>8, <2>1 DEF RestoOK, KEn
<1>16. ModificadasOK'
  <2>. SUFFICES ASSUME SinFines'
                PROVE  ModificadasOK'
    BY DEF ModificadasOK
  <2>1. \A h \in Paginas : tabla[q][h].m => \E i \in DOMAIN kernel.resto : kernel.resto[i] = h
    BY <1>0, <1>1, <1>2 DEF ModificadasOK, KEn, SinFines
  <2>2. \A h \in Paginas : tabla'[q][h].m => \E i \in DOMAIN kernel.resto : i # 1 /\ kernel.resto[i] = h
    BY <1>2, <1>11, <2>1
  <2>. QED  BY <1>8, <2>2 DEF ModificadasOK, KEn
<1>. QED  BY <1>10, <1>12, <1>13, <1>14, <1>15, <1>16 DEF InvM

\* liberarMarco.
LEMMA PasoSoltar == InvM /\ KSoltar => InvM'
<1>. SUFFICES ASSUME InvM, KSoltar
              PROVE  InvM'
  OBVIOUS
<1>0. TypeOK /\ HilosOK /\ ArchivosOK /\ MarcasOK /\ RestoOK /\ PropiosOK /\ CupoOK
      /\ ModificadasOK /\ RespuestaOK
  BY DEF InvM
<1>1. /\ kernel.en = "soltar" /\ kernel' = [kernel EXCEPT !.en = "bits"]
      /\ UNCHANGED <<tabla, usuario, swap, archivos, archivo, comparador, contadores, vida, cpu,
                     viva>>
  BY DEF KSoltar
<1>2. PICK q \in Procesos, g \in Paginas :
        q = kernel.p /\ g = Head(kernel.resto) /\ tabla[q][g].p
  BY <1>0, <1>1, CabezaTipo DEF KEn
<1>3. PICK f \in Marcos : f = tabla[q][g].marco
  BY <1>0, <1>2 DEF MarcasOK
<1>4. /\ marcos' \in [Marcos -> Procesos \cup {Nada}] /\ marcos'[f] = Nada
      /\ \A x \in Marcos : x # f => marcos'[x] = marcos[x]
  <2>1. marcos' = [marcos EXCEPT ![f] = Nada]
    BY <1>2, <1>3 DEF KSoltar
  <2>. QED  BY <1>0, <2>1 DEF TypeOK
<1>5. /\ kernel' \in KernelTipo /\ kernel'.p = q /\ kernel'.resto = kernel.resto
      /\ kernel'.en = "bits"
  BY <1>0, <1>1, <1>2 DEF TypeOK, KernelTipo
<1>6. Nada \notin Procesos
  BY NadaAssumption
<1>7. TypeOK'
  BY <1>0, <1>1, <1>4, <1>5 DEF TypeOK
<1>8. HilosOK'
  BY <1>0, <1>1, <1>2, <1>5 DEF HilosOK, En, KEn, Pedida
<1>9. ArchivosOK'
  BY <1>0, <1>1, <1>5 DEF ArchivosOK, En, KEn, Activos
<1>10. \A r \in Procesos, x \in Marcos : marcos'[x] = r => marcos[x] = r /\ x # f
  BY <1>4, <1>6
<1>11. /\ \A r \in Procesos : Presentes(r)' = Presentes(r)
       /\ \A r, x : Cargandose(r, x)' = Cargandose(r, x)
       /\ \A r \in Procesos, h \in Paginas : /\ Soltandose(r, h)' <=> r = q /\ h = g
                                             /\ ~ Soltandose(r, h)
       /\ SinFines' = SinFines
  BY <1>1, <1>2, <1>5 DEF Presentes, Cargandose, En, Soltandose, SinFines
<1>12. MarcasOK'
  <2>1. \A r \in Procesos, h \in Paginas : LET e == tabla'[r][h] IN
          /\ e.p => e.marco \in Marcos /\ vida'[r] # "fuera"
          /\ ~ e.p => ~ e.m
    BY <1>0, <1>1 DEF MarcasOK
  <2>2. ASSUME NEW x \in Marcos, NEW r \in Procesos, marcos'[x] = r
        PROVE  /\ vida'[r] # "fuera"
               /\ Cargandose(r, x)' \/ \E h \in Paginas : tabla'[r][h].p /\ tabla'[r][h].marco = x
    BY <1>0, <1>1, <1>10, <1>11, <2>2 DEF MarcasOK
  <2>3. marcos'[tabla'[q][g].marco] # q
    BY <1>1, <1>3, <1>4, <1>6
  <2>4. En({"reemplazar"})' => Presentes(cpu.p)' # {}
    BY <1>0, <1>1, <1>11 DEF MarcasOK, En, HilosOK
  <2>5. En({"escribir"})' => /\ cpu'.dato \in Presentes(cpu.p)'
                             /\ tabla'[cpu'.p][cpu'.dato].marco = cpu'.marco
                             /\ tabla'[cpu'.p][cpu'.dato].m
    BY <1>0, <1>1, <1>11 DEF MarcasOK, En, HilosOK
  <2>. QED  BY <1>2, <1>5, <2>1, <2>2, <2>3, <2>4, <2>5 DEF MarcasOK
<1>13. RestoOK'
  BY <1>0, <1>1, <1>2, <1>5, <1>11 DEF RestoOK, KEn
<1>14. SinFines => marcos[f] = q
  BY <1>0, <1>2, <1>3, <1>11 DEF PropiosOK
<1>15. PropiosOK'
  <2>. SUFFICES ASSUME SinFines
                PROVE  PropiosOK'
    BY <1>11 DEF PropiosOK
  <2>1. ASSUME NEW r \in Procesos, NEW h \in Paginas, tabla[r][h].p, ~ (r = q /\ h = g)
        PROVE  marcos'[tabla[r][h].marco] = r
    <3>1. marcos[tabla[r][h].marco] = r /\ tabla[r][h].marco \in Marcos
      BY <1>0, <1>11, <2>1 DEF PropiosOK, MarcasOK
    <3>2. tabla[r][h].marco # f
      BY <1>0, <1>2, <1>3, <1>11, <1>14, <2>1, <3>1 DEF PropiosOK
    <3>. QED  BY <1>4, <3>1, <3>2
  <2>2. \A r \in Procesos, h, k \in Paginas :
          tabla[r][h].p /\ tabla[r][k].p /\ tabla[r][h].marco = tabla[r][k].marco => h = k
    BY <1>0, <1>11 DEF PropiosOK
  <2>3. En({"asignar", "traer", "cargar"}) =>
          /\ marcos'[cpu.marco] = cpu.p
          /\ \A h \in Presentes(cpu.p) : tabla[cpu.p][h].marco = cpu.marco => h = cpu.g
          /\ cpu.p \in Procesos
    <3>. SUFFICES ASSUME En({"asignar", "traer", "cargar"})
                  PROVE  /\ marcos'[cpu.marco] = cpu.p
                         /\ \A h \in Presentes(cpu.p) : tabla[cpu.p][h].marco = cpu.marco => h = cpu.g
                         /\ cpu.p \in Procesos
      OBVIOUS
    <3>1. /\ marcos[cpu.marco] = cpu.p /\ cpu.p # q /\ cpu.marco \in Marcos /\ cpu.p \in Procesos
          /\ \A h \in Presentes(cpu.p) : tabla[cpu.p][h].marco = cpu.marco => h = cpu.g
      BY <1>0, <1>2 DEF PropiosOK, HilosOK, En
    <3>. QED  BY <1>4, <1>14, <3>1
  <2>4. En({"asignar", "traer", "cargar"})' =>
          /\ marcos'[cpu'.marco] = cpu'.p
          /\ \A h \in Presentes(cpu.p)' : tabla'[cpu'.p][h].marco = cpu'.marco => h = cpu'.g
    BY <1>1, <1>11, <2>3 DEF En
  <2>. QED  BY <1>1, <1>11, <2>1, <2>2, <2>4 DEF PropiosOK
<1>16. CupoOK'
  <2>. SUFFICES ASSUME SinFines
                PROVE  CupoOK'
    BY <1>11 DEF CupoOK
  <2>1. \A r \in Procesos : r # q => Usados(r)' = Usados(r)
    BY <1>4, <1>6, <1>10, <1>14 DEF Usados
  <2>2. \A r \in Procesos : Propios(r)' = Propios(r)
    <3>. TAKE r \in Procesos
    <3>1. CASE r # q
      BY <1>1, <1>2, <1>5, <2>1, <3>1 DEF Propios
    <3>2. CASE r = q
      <4>1. Propios(q)' = Usados(q)' \cup {f}
        BY <1>1, <1>2, <1>3, <1>5 DEF Propios, KEn
      <4>2. Propios(q) = Usados(q)
        BY <1>1 DEF Propios, KEn
      <4>3. Usados(q)' = Usados(q) \ {f} /\ f \in Usados(q)
        BY <1>4, <1>6, <1>10, <1>14 DEF Usados
      <4>. QED  BY <3>2, <4>1, <4>2, <4>3
    <3>. QED  BY <3>1, <3>2
  <2>3. En({"ocupar"})' => Cardinality(Usados(cpu.p)') < MarcosPorProceso
    BY <1>0, <1>1, <1>2, <2>1 DEF CupoOK, En, HilosOK
  <2>4. \A r \in Procesos : Cardinality(Propios(r)') <= MarcosPorProceso
    BY <1>0, <2>2 DEF CupoOK
  <2>. QED  BY <2>3, <2>4 DEF CupoOK
<1>17. ModificadasOK'
  BY <1>0, <1>1, <1>2, <1>5, <1>11 DEF ModificadasOK, KEn
<1>18. RespuestaOK'
  BY <1>0, <1>1 DEF RespuestaOK, En, Pedida
<1>. QED  BY <1>7, <1>8, <1>9, <1>12, <1>13, <1>15, <1>16, <1>17, <1>18 DEF InvM

\* cambiarPdePagina: the page is out, and the list goes on without it.
LEMMA PasoBits == InvM /\ KBits => InvM'
<1>. SUFFICES ASSUME InvM, KBits
              PROVE  InvM'
  OBVIOUS
<1>0. TypeOK /\ HilosOK /\ ArchivosOK /\ MarcasOK /\ RestoOK /\ PropiosOK /\ CupoOK
      /\ ModificadasOK /\ RespuestaOK
  BY DEF InvM
<1>1. /\ kernel.en = "bits"
      /\ UNCHANGED <<marcos, usuario, swap, archivos, archivo, comparador, contadores, vida,
                     cpu, viva>>
  BY DEF KBits
<1>2. PICK q \in Procesos, g \in Paginas :
        q = kernel.p /\ g = Head(kernel.resto) /\ tabla[q][g].p
  BY <1>0, <1>1, CabezaTipo DEF KEn
<1>3. PICK n \in Nat \ {0} : /\ n = Len(kernel.resto) /\ kernel.resto \in Seq(Paginas)
                             /\ DOMAIN kernel.resto = 1..n /\ g = kernel.resto[1]
  BY <1>0, <1>1, <1>2, CabezaTipo DEF KEn
<1>4. PICK s \in Seq(Paginas) :
        /\ s = Tail(kernel.resto) /\ Len(s) = n - 1 /\ DOMAIN s = 1..(n - 1)
        /\ \A i \in 1..(n - 1) : s[i] = kernel.resto[i + 1]
  <2>1. kernel.resto # <<>> /\ kernel.resto \in Seq(Paginas)
    BY <1>3
  <2>2. PICK s \in Seq(Paginas) : s = Tail(kernel.resto)
    BY <2>1, HeadTailProperties
  <2>3. Len(s) = n - 1
    BY <1>3, <2>1, <2>2
  <2>4. DOMAIN s = 1..(n - 1)
    BY <2>3
  <2>5. \A i \in 1..(n - 1) : s[i] = kernel.resto[i + 1]
    BY <1>3, <2>1, <2>2
  <2>. QED  BY <2>2, <2>3, <2>4, <2>5
<1>5. PICK x \in Entradas : x = tabla[q][g]
  BY <1>0 DEF TypeOK
<1>6. PICK e \in Entradas : e = [Fuera(x) EXCEPT !.u = FALSE] /\ ~ e.p /\ ~ e.m
  <2>1. PICK y \in Entradas : y = Fuera(x) /\ ~ y.p /\ ~ y.m
    <3>1. Fuera(x) \in Entradas /\ ~ Fuera(x).p /\ ~ Fuera(x).m
      BY DEF Fuera, Entradas
    <3>. QED  BY <3>1
  <2>2. PICK e \in Entradas : e = [y EXCEPT !.u = FALSE]
    BY DEF Entradas
  <2>3. e.p = y.p /\ e.m = y.m
    BY <2>2 DEF Entradas
  <2>. QED  BY <2>1, <2>2, <2>3
<1>7. /\ tabla' = Con(q, g, e)
      /\ kernel' = [kernel EXCEPT !.en = Bajada(s), !.resto = s]
  BY <1>2, <1>4, <1>5, <1>6 DEF KBits
<1>8. /\ tabla' \in [Procesos -> [Paginas -> Entradas]] /\ tabla'[q][g] = e
      /\ \A r \in Procesos, h \in Paginas : r # q \/ h # g => tabla'[r][h] = tabla[r][h]
  BY <1>0, <1>7, ConEfecto
<1>9. /\ kernel' \in KernelTipo /\ kernel'.p = q /\ kernel'.resto = s
      /\ kernel'.en \in {"limpiar", "bajar"}
      /\ kernel'.en = "bajar" => s # <<>>
      /\ kernel'.en = "limpiar" => n = 1
  <2>1. Bajada(s) \in {"limpiar", "bajar"} /\ (Bajada(s) = "limpiar" => s = <<>>)
        /\ (Bajada(s) = "bajar" => s # <<>>)
    BY DEF Bajada
  <2>2. s = <<>> => n = 1
    <3>1. s = <<>> => n - 1 = 0
      BY <1>4
    <3>. QED  BY <3>1
  <2>3. kernel \in KernelTipo
    BY <1>0 DEF TypeOK
  <2>4. kernel' \in KernelTipo /\ kernel'.p = q /\ kernel'.resto = s /\ kernel'.en = Bajada(s)
    BY <1>2, <1>4, <1>7, <2>1, <2>3 DEF KernelTipo
  <2>. QED  BY <2>1, <2>2, <2>4
<1>10. cpu.en # "libre" => cpu.p \in Procesos /\ cpu.g \in Paginas /\ cpu.p # q
                           /\ \A h \in Paginas : tabla'[cpu.p][h] = tabla[cpu.p][h]
  BY <1>0, <1>2, <1>8 DEF HilosOK
<1>11. /\ SinFines' = SinFines
       /\ \A r, x1 : Cargandose(r, x1)' = Cargandose(r, x1)
       /\ \A r \in Procesos, h \in Paginas : /\ Soltandose(r, h) <=> r = q /\ h = g
                                             /\ ~ Soltandose(r, h)'
  BY <1>1, <1>2, <1>9 DEF SinFines, Cargandose, En, Soltandose
<1>12. TypeOK'
  BY <1>0, <1>1, <1>8, <1>9 DEF TypeOK
<1>13. HilosOK'
  BY <1>0, <1>1, <1>2, <1>9, <1>10 DEF HilosOK, En, KEn, Pedida
<1>14. ArchivosOK'
  BY <1>0, <1>1, <1>9 DEF ArchivosOK, En, KEn, Activos
<1>15. \A r \in Procesos, h \in Paginas : tabla'[r][h].p \/ tabla'[r][h].m =>
         ~ (r = q /\ h = g) /\ tabla'[r][h] = tabla[r][h]
  BY <1>6, <1>8
<1>16. MarcasOK'
  <2>1. ASSUME NEW r \in Procesos, NEW h \in Paginas
        PROVE  /\ tabla'[r][h].p => tabla'[r][h].marco \in Marcos /\ vida'[r] # "fuera"
               /\ ~ tabla'[r][h].p => ~ tabla'[r][h].m
    BY <1>0, <1>1, <1>15 DEF MarcasOK
  <2>2. ASSUME NEW x1 \in Marcos, NEW r \in Procesos, marcos[x1] = r
        PROVE  /\ vida[r] # "fuera"
               /\ Cargandose(r, x1) \/ \E h \in Paginas : tabla'[r][h].p /\ tabla'[r][h].marco = x1
    <3>1. CASE Cargandose(r, x1)
      BY <1>0, <2>2, <3>1 DEF MarcasOK
    <3>2. CASE ~ Cargandose(r, x1)
      <4>1. PICK h \in Paginas : tabla[r][h].p /\ tabla[r][h].marco = x1
        BY <1>0, <2>2, <3>2 DEF MarcasOK
      <4>2. ~ (r = q /\ h = g)
        BY <1>0, <1>1, <1>2, <2>2, <4>1 DEF MarcasOK, KEn
      <4>. QED  BY <1>0, <1>8, <2>2, <4>1, <4>2 DEF MarcasOK
    <3>. QED  BY <3>1, <3>2
  <2>3. En({"reemplazar"})' => Presentes(cpu.p)' # {}
    BY <1>0, <1>1, <1>10 DEF MarcasOK, En, Presentes
  <2>4. En({"escribir"})' => /\ cpu'.dato \in Presentes(cpu.p)'
                             /\ tabla'[cpu'.p][cpu'.dato].marco = cpu'.marco
                             /\ tabla'[cpu'.p][cpu'.dato].m
    BY <1>0, <1>1, <1>10 DEF MarcasOK, En, Presentes
  <2>. QED  BY <1>1, <1>9, <1>11, <2>1, <2>2, <2>3, <2>4 DEF MarcasOK, KEn
<1>17. RestoOK'
  <2>1. ASSUME NEW i \in 1..(n - 1)
        PROVE  s[i] \in Presentes(q)' /\ tabla'[q][s[i]].m
    <3>1. i + 1 \in 1..n /\ 1 \in 1..n /\ i + 1 # 1
      OBVIOUS
    <3>2. /\ kernel.resto[i + 1] \in Presentes(q) /\ kernel.resto[i + 1] # g
          /\ tabla[q][kernel.resto[i + 1]].m
      BY <1>0, <1>1, <1>2, <1>3, <3>1 DEF RestoOK, KEn
    <3>3. s[i] \in Presentes(q) /\ s[i] # g /\ tabla[q][s[i]].m
      BY <1>4, <3>2
    <3>. QED  BY <1>8, <3>3 DEF Presentes
  <2>2. ASSUME NEW i \in 1..(n - 1), NEW j \in 1..(n - 1), s[i] = s[j]
        PROVE  i = j
    <3>1. i + 1 \in 1..n /\ j + 1 \in 1..n
      OBVIOUS
    <3>2. kernel.resto[i + 1] = kernel.resto[j + 1]
      BY <1>4, <2>2
    <3>3. i + 1 = j + 1
      BY <1>0, <1>1, <1>3, <3>1, <3>2 DEF RestoOK, KEn
    <3>. QED  BY <3>3
  <2>. QED  BY <1>4, <1>9, <2>1, <2>2 DEF RestoOK, KEn
<1>18. PropiosOK'
  <2>. SUFFICES ASSUME SinFines
                PROVE  PropiosOK'
    BY <1>11 DEF PropiosOK
  <2>1. \A r \in Procesos, h \in Paginas : tabla'[r][h].p =>
          tabla[r][h].p /\ ~ Soltandose(r, h) /\ tabla'[r][h] = tabla[r][h]
    BY <1>11, <1>15
  <2>2. \A r \in Procesos, h \in Paginas : tabla'[r][h].p => marcos[tabla'[r][h].marco] = r
    BY <1>0, <2>1 DEF PropiosOK
  <2>3. ASSUME NEW r \in Procesos, NEW h \in Paginas, NEW k \in Paginas,
               tabla'[r][h].p, tabla'[r][k].p, tabla'[r][h].marco = tabla'[r][k].marco
        PROVE  h = k
    BY <1>0, <2>1, <2>3 DEF PropiosOK
  <2>4. En({"asignar", "traer", "cargar"})' =>
          /\ marcos'[cpu'.marco] = cpu'.p
          /\ \A h \in Presentes(cpu.p)' : tabla'[cpu'.p][h].marco = cpu'.marco => h = cpu'.g
    BY <1>0, <1>1, <1>10 DEF PropiosOK, En, Presentes
  <2>. QED  BY <1>1, <1>11, <2>2, <2>3, <2>4 DEF PropiosOK
<1>19. CupoOK'
  <2>. SUFFICES ASSUME SinFines
                PROVE  CupoOK'
    BY <1>11 DEF CupoOK
  <2>1. ASSUME NEW r \in Procesos
        PROVE  Cardinality(Propios(r)') <= MarcosPorProceso
    <3>1. Propios(r)' = Usados(r)
      BY <1>1, <1>9 DEF Propios, KEn, Usados
    <3>2. Propios(r) = Usados(r) \/ Propios(r) = Usados(r) \cup {tabla[q][g].marco}
      BY <1>2 DEF Propios
    <3>3. tabla[q][g].marco \in Marcos
      BY <1>0, <1>2 DEF MarcasOK
    <3>4. Usados(r) \subseteq Propios(r) /\ Propios(r) \subseteq Marcos
      BY <3>2, <3>3 DEF Usados
    <3>5. IsFiniteSet(Propios(r)) /\ Cardinality(Propios(r)) \in Nat
      BY <3>4, MarcosAssumption, FS_Subset, FS_CardinalityType
    <3>6. Cardinality(Usados(r)) \in Nat /\ Cardinality(Usados(r)) <= Cardinality(Propios(r))
      BY <3>4, <3>5, FS_Subset, FS_CardinalityType
    <3>7. Cardinality(Propios(r)) <= MarcosPorProceso
      BY <1>0 DEF CupoOK
    <3>. QED  BY <3>1, <3>5, <3>6, <3>7, MarcosPorProcesoAssumption
  <2>2. En({"ocupar"})' => Cardinality(Usados(cpu.p)') < MarcosPorProceso
    BY <1>0, <1>1 DEF CupoOK, En, Usados
  <2>. QED  BY <2>1, <2>2 DEF CupoOK
<1>20. ModificadasOK'
  <2>. SUFFICES ASSUME SinFines
                PROVE  ModificadasOK'
    BY <1>11 DEF ModificadasOK
  <2>1. ASSUME NEW h \in Paginas, tabla'[q][h].m
        PROVE  \E i \in 1..(n - 1) : s[i] = h
    <3>1. tabla[q][h].m
      BY <1>15, <2>1
    <3>2. PICK i \in 1..n : i # 1 /\ kernel.resto[i] = h
      BY <1>0, <1>1, <1>2, <1>3, <3>1 DEF ModificadasOK, KEn
    <3>3. i - 1 \in 1..(n - 1) /\ (i - 1) + 1 = i
      BY <3>2
    <3>4. s[i - 1] = h
      BY <1>4, <3>2, <3>3
    <3>. QED  BY <3>3, <3>4
  <2>2. n = 1 => \A h \in Paginas : ~ tabla'[q][h].m
    BY <2>1
  <2>. QED  BY <1>4, <1>9, <2>1, <2>2 DEF ModificadasOK, KEn
<1>21. RespuestaOK'
  BY <1>0, <1>1, <1>10 DEF RespuestaOK, En, Pedida
<1>. QED  BY <1>12, <1>13, <1>14, <1>16, <1>17, <1>18, <1>19, <1>20, <1>21 DEF InvM

\* The end of a process.
LEMMA PasoFinalizar ==
    ASSUME InvM, NEW q \in Procesos, KFinalizar(q)
    PROVE  InvM'
<1>0. TypeOK /\ HilosOK /\ ArchivosOK /\ MarcasOK /\ RespuestaOK
  BY DEF InvM
<1>1. /\ kernel.en = "libre" /\ vida[q] = "activo" /\ cpu.p # q
      /\ vida' = [vida EXCEPT ![q] = "fin"]
      /\ kernel' = [Descanso EXCEPT !.en = "liberar", !.p = q, !.marcos = Usados(comparador)]
      /\ UNCHANGED <<marcos, tabla, usuario, swap, archivos, archivo, comparador, contadores, cpu,
                     viva>>
  BY DEF KFinalizar, Disponible
<1>2. kernel' \in KernelTipo /\ kernel'.en = "liberar" /\ kernel'.p = q
  <2>1. <<>> \in Seq(Paginas) /\ Usados(comparador) \subseteq Marcos
    BY DEF Usados
  <2>. QED  BY <1>1, <2>1 DEF Descanso, KernelTipo
<1>3. /\ vida' \in [Procesos -> {"fuera", "listo", "activo", "fin"}] /\ vida'[q] = "fin"
      /\ \A r \in Procesos : r # q => vida'[r] = vida[r]
  BY <1>0, <1>1 DEF TypeOK
<1>4. TypeOK'
  BY <1>0, <1>1, <1>2, <1>3 DEF TypeOK
<1>6. HilosOK'
  BY <1>0, <1>1, <1>2, <1>3 DEF HilosOK, En, KEn, Pedida
<1>7. Activos' = Activos \ {q}
  BY <1>1, <1>3 DEF Activos
<1>8. ArchivosOK'
  <2>1. En({"escribir", "traer"}) => archivo \in Activos /\ archivo # q
    BY <1>0, <1>1 DEF ArchivosOK, En
  <2>2. En({"escribir", "traer"}) => archivo = cpu.p \/ vida'[archivo] = "listo"
    BY <1>0, <1>3, <2>1 DEF ArchivosOK, Activos
  <2>. QED  BY <1>0, <1>1, <1>2, <1>7, <2>1, <2>2 DEF ArchivosOK, En, KEn
<1>9. ~ SinFines'
  BY <1>3 DEF SinFines
<1>10. MarcasOK' /\ PropiosOK' /\ CupoOK' /\ RespuestaOK'
  <2>1. \A r \in Procesos : vida[r] # "fuera" => vida'[r] # "fuera"
    BY <1>3
  <2>2. SinFines' => SinFines
    BY <1>9
  <2>3. tabla' \in [Procesos -> [Paginas -> Entradas]]
    BY <1>4 DEF TypeOK
  <2>. QED  BY <1>1, <1>2, <2>1, <2>2, <2>3, KQuieto DEF KEn
<1>11. RestoOK' /\ ModificadasOK'
  BY <1>2, <1>9 DEF RestoOK, ModificadasOK, KEn
<1>. QED  BY <1>4, <1>6, <1>8, <1>10, <1>11 DEF InvM

\* liberarMarco at the end of a process, whichever frame it is.
LEMMA PasoLiberar == InvM /\ KLiberar => InvM'
<1>. SUFFICES ASSUME InvM, KLiberar
              PROVE  InvM'
  OBVIOUS
<1>0. TypeOK /\ HilosOK /\ ArchivosOK /\ MarcasOK /\ RespuestaOK
  BY DEF InvM
<1>1. PICK f : /\ kernel.en = "liberar"
               /\ marcos' = [marcos EXCEPT ![f] = Nada]
               /\ kernel' = [kernel EXCEPT !.marcos = @ \ {f}]
               /\ UNCHANGED <<tabla, usuario, swap, archivos, archivo, comparador, contadores,
                              vida, cpu, viva>>
  BY DEF KLiberar
<1>2. PICK q \in Procesos : q = kernel.p /\ vida[q] = "fin"
  BY <1>0, <1>1 DEF HilosOK, KEn
<1>3. kernel' \in KernelTipo /\ kernel'.en = "liberar" /\ kernel'.p = q
  BY <1>0, <1>1, <1>2 DEF TypeOK, KernelTipo
<1>4. /\ marcos' \in [Marcos -> Procesos \cup {Nada}]
      /\ \A x \in Marcos, r \in Procesos : marcos'[x] = r => marcos[x] = r
  <2>1. \A x \in Marcos : marcos'[x] = Nada \/ marcos'[x] = marcos[x]
    BY <1>0, <1>1 DEF TypeOK
  <2>2. marcos' \in [Marcos -> Procesos \cup {Nada}]
    BY <1>0, <1>1 DEF TypeOK
  <2>. QED  BY <2>1, <2>2, NadaAssumption
<1>5. TypeOK'
  BY <1>0, <1>1, <1>3, <1>4 DEF TypeOK
<1>6. HilosOK'
  BY <1>0, <1>1, <1>2, <1>3 DEF HilosOK, En, KEn, Pedida
<1>8. ArchivosOK'
  BY <1>0, <1>1, <1>3 DEF ArchivosOK, En, KEn, Activos
<1>9. MarcasOK'
  <2>2. \A r, x : Cargandose(r, x)' = Cargandose(r, x)
    BY <1>1 DEF Cargandose, En
  <2>3. \A x \in Marcos, r \in Procesos : marcos'[x] = r =>
          /\ vida'[r] # "fuera"
          /\ Cargandose(r, x)' \/ \E h \in Paginas : tabla'[r][h].p /\ tabla'[r][h].marco = x
    BY <1>0, <1>1, <1>4, <2>2 DEF MarcasOK
  <2>4. \A r \in Procesos, h \in Paginas :
          /\ tabla'[r][h].p => tabla'[r][h].marco \in Marcos /\ vida'[r] # "fuera"
          /\ ~ tabla'[r][h].p => ~ tabla'[r][h].m
    BY <1>0, <1>1 DEF MarcasOK
  <2>5. En({"reemplazar"})' => Presentes(cpu.p)' # {}
    BY <1>0, <1>1 DEF MarcasOK, En, Presentes
  <2>6. En({"escribir"})' => /\ cpu'.dato \in Presentes(cpu.p)'
                             /\ tabla'[cpu'.p][cpu'.dato].marco = cpu'.marco
                             /\ tabla'[cpu'.p][cpu'.dato].m
    BY <1>0, <1>1 DEF MarcasOK, En, Presentes
  <2>. QED  BY <1>3, <2>3, <2>4, <2>5, <2>6 DEF MarcasOK, KEn
<1>10. RestoOK' /\ PropiosOK' /\ CupoOK' /\ ModificadasOK'
  <2>1. ~ SinFines'
    BY <1>1, <1>2 DEF SinFines
  <2>. QED  BY <1>3, <2>1 DEF RestoOK, PropiosOK, CupoOK, ModificadasOK, KEn
<1>11. RespuestaOK'
  BY <1>0, <1>1 DEF RespuestaOK, En, Pedida
<1>. QED  BY <1>5, <1>6, <1>8, <1>9, <1>10, <1>11 DEF InvM

\* eliminarSwap.
LEMMA PasoBorrar == InvM /\ KBorrar => InvM'
<1>. SUFFICES ASSUME InvM, KBorrar
              PROVE  InvM'
  OBVIOUS
<1>0. TypeOK /\ HilosOK /\ ArchivosOK /\ MarcasOK
  BY DEF InvM
<1>1. /\ kernel.en = "liberar" /\ archivos' = archivos \ {kernel.p}
      /\ swap' = [swap EXCEPT ![kernel.p] = [g \in Paginas |-> 0]]
      /\ kernel' = [kernel EXCEPT !.en = "limpiar"]
      /\ UNCHANGED <<marcos, tabla, usuario, archivo, comparador, contadores, vida, cpu, viva>>
  BY DEF KBorrar
<1>2. PICK q \in Procesos : q = kernel.p /\ vida[q] = "fin"
  BY <1>0, <1>1 DEF HilosOK, KEn
<1>3. kernel' \in KernelTipo /\ kernel'.en = "limpiar" /\ kernel'.p = q
  BY <1>0, <1>1, <1>2 DEF TypeOK, KernelTipo
<1>4. swap' \in [Procesos -> [Paginas -> Valores \cup {Basura}]]
  BY <1>0, <1>1, ValoresAssumption DEF TypeOK
<1>5. TypeOK'
  BY <1>0, <1>1, <1>3, <1>4 DEF TypeOK
<1>6. HilosOK'
  BY <1>0, <1>1, <1>2, <1>3 DEF HilosOK, En, KEn, Pedida
<1>7. q \notin Activos /\ Activos' = Activos
  BY <1>1, <1>2 DEF Activos
<1>8. ArchivosOK'
  BY <1>0, <1>1, <1>2, <1>3, <1>7 DEF ArchivosOK, En, KEn
<1>9. MarcasOK' /\ PropiosOK' /\ CupoOK' /\ RespuestaOK'
  <2>1. tabla' \in [Procesos -> [Paginas -> Entradas]]
    BY <1>5 DEF TypeOK
  <2>. QED  BY <1>1, <1>3, <2>1, KQuieto DEF KEn, SinFines
<1>10. ~ SinFines'
  BY <1>1, <1>2 DEF SinFines
<1>11. RestoOK' /\ ModificadasOK'
  BY <1>3, <1>10 DEF RestoOK, ModificadasOK, KEn
<1>. QED  BY <1>5, <1>6, <1>8, <1>9, <1>11 DEF InvM

\* liberarMemoriaUsuario, and the answer.
LEMMA PasoLimpiar == InvM /\ KLimpiar => InvM'
<1>. SUFFICES ASSUME InvM, KLimpiar
              PROVE  InvM'
  OBVIOUS
<1>0. TypeOK /\ HilosOK /\ ArchivosOK /\ MarcasOK
  BY DEF InvM
<1>1. /\ kernel.en = "limpiar" /\ kernel' = Descanso
      /\ viva' = (vida[kernel.p] = "fin" => kernel.p < contadores)
      /\ UNCHANGED <<marcos, tabla, swap, archivos, archivo, comparador, contadores, vida, cpu>>
  BY DEF KLimpiar
<1>2. usuario' \in [Marcos -> Valores \cup {Basura}]
  <2>1. \A f \in Marcos : usuario[f] \in Valores \cup {Basura}
    BY <1>0 DEF TypeOK
  <2>. QED  BY <2>1 DEF KLimpiar
<1>3. kernel' \in KernelTipo /\ kernel'.en = "libre" /\ kernel'.p = Nada
  <2>1. <<>> \in Seq(Paginas)
    OBVIOUS
  <2>. QED  BY <1>1, <2>1 DEF Descanso, KernelTipo
<1>4. TypeOK'
  BY <1>0, <1>1, <1>2, <1>3 DEF TypeOK
<1>5. HilosOK'
  BY <1>0, <1>1, <1>3, NadaAssumption DEF HilosOK, En, KEn, Pedida
<1>6. ArchivosOK'
  BY <1>0, <1>1, <1>3 DEF ArchivosOK, En, KEn, Activos
<1>7. MarcasOK' /\ PropiosOK' /\ CupoOK' /\ RespuestaOK'
  <2>1. tabla' \in [Procesos -> [Paginas -> Entradas]]
    BY <1>4 DEF TypeOK
  <2>. QED  BY <1>1, <1>3, <2>1, KQuieto DEF KEn, SinFines
<1>8. RestoOK' /\ ModificadasOK'
  BY <1>3 DEF RestoOK, ModificadasOK, KEn
<1>. QED  BY <1>4, <1>5, <1>6, <1>7, <1>8 DEF InvM

-----------------------------------------------------------------------------
(* The invariant.                                                          *)

LEMMA PasoMarco == InvM /\ CpuMarco => InvM'
BY PasoPresente, PasoFalla, PasoCae, PasoOcupar, PasoReemplazar, PasoEscribir, PasoAsignar,
   PasoTraer, PasoCargar DEF CpuMarco

LEMMA PasoKernel ==
    ASSUME NEW S \in SUBSET Procesos, InvM, Kernel(S)
    PROVE  InvM'
BY PasoInicializar, PasoSuspender, PasoFinalizar, PasoListar, PasoBajar, PasoSoltar, PasoBits,
   PasoLiberar, PasoBorrar, PasoLimpiar DEF Kernel, KernelHilo

LEMMA NadaCambia == InvM /\ UNCHANGED vars => InvM'
<1>. SUFFICES ASSUME InvM, UNCHANGED vars
              PROVE  InvM'
  OBVIOUS
<1>1. UNCHANGED <<marcos, tabla, usuario, swap, archivos, archivo, comparador, contadores, vida,
                  cpu, kernel, viva>>
  BY DEF vars
<1>2. TypeOK'
  BY <1>1 DEF InvM, TypeOK
<1>3. HilosOK' /\ ArchivosOK' /\ RespuestaOK'
  BY <1>1 DEF InvM, HilosOK, ArchivosOK, RespuestaOK, En, KEn, Pedida, Activos
<1>4. MarcasOK'
  BY <1>1 DEF InvM, MarcasOK, En, KEn, Cargandose, Presentes
<1>5. RestoOK' /\ ModificadasOK'
  BY <1>1 DEF InvM, RestoOK, ModificadasOK, KEn, Presentes, SinFines
<1>6. PropiosOK' /\ CupoOK'
  BY <1>1 DEF InvM, PropiosOK, CupoOK, En, KEn, Presentes, Propios, Usados, SinFines, Soltandose
<1>. QED  BY <1>2, <1>3, <1>4, <1>5, <1>6 DEF InvM

LEMMA InicioM == Init => InvM
<1>. SUFFICES ASSUME Init
              PROVE  InvM
  OBVIOUS
<1>1. /\ marcos = [f \in Marcos |-> Nada] /\ archivos = {} /\ archivo = Nada
      /\ comparador = 0 /\ contadores = 0 /\ viva = TRUE
      /\ vida = [q \in Procesos |-> "fuera"]
      /\ usuario = [f \in Marcos |-> Basura]
      /\ swap = [q \in Procesos |-> [g \in Paginas |-> 0]]
  BY DEF Init
<1>2. /\ cpu \in CpuTipo /\ cpu.en = "libre"
  BY DEF Init, Reposo, CpuTipo
<1>3. /\ kernel \in KernelTipo /\ kernel.en = "libre"
  <2>1. <<>> \in Seq(Paginas)
    OBVIOUS
  <2>. QED  BY <2>1 DEF Init, Descanso, KernelTipo
<1>4. \A q \in Procesos, g \in Paginas : /\ tabla[q][g] \in Entradas
                                         /\ ~ tabla[q][g].p /\ ~ tabla[q][g].m
  <2>. TAKE q \in Procesos, g \in Paginas
  <2>1. tabla[q][g] = [p |-> FALSE, u |-> FALSE, m |-> FALSE, puntero |-> FALSE, marco |-> Nada]
    BY DEF Init, TablaNueva
  <2>. QED  BY <2>1 DEF Entradas
<1>5. tabla \in [Procesos -> [Paginas -> Entradas]]
  <2>1. tabla = [q \in Procesos |-> [g \in Paginas |-> tabla[q][g]]]
    BY DEF Init, TablaNueva
  <2>. QED  BY <1>4, <2>1
<1>6. TypeOK
  BY <1>1, <1>2, <1>3, <1>5, ValoresAssumption DEF TypeOK
<1>7. HilosOK /\ RestoOK /\ ModificadasOK /\ RespuestaOK
  BY <1>2, <1>3 DEF HilosOK, RestoOK, ModificadasOK, RespuestaOK, En, KEn
<1>8. ArchivosOK
  BY <1>1, <1>2, <1>3 DEF ArchivosOK, En, KEn, Activos
<1>9. MarcasOK
  BY <1>1, <1>2, <1>3, <1>4, NadaAssumption DEF MarcasOK, En, KEn
<1>10. PropiosOK
  BY <1>2, <1>3, <1>4 DEF PropiosOK, En, KEn
<1>11. CupoOK
  <2>1. \A q \in Procesos : Propios(q) = {}
    BY <1>1, <1>3, NadaAssumption DEF Propios, Usados, KEn
  <2>. QED  BY <1>2, <2>1, FS_EmptySet, MarcosPorProcesoAssumption DEF CupoOK, En
<1>. QED  BY <1>6, <1>7, <1>8, <1>9, <1>10, <1>11 DEF InvM

LEMMA SiguienteM == InvM /\ [Next]_vars => InvM'
<1>. SUFFICES ASSUME InvM, [Next]_vars
              PROVE  InvM'
  OBVIOUS
<1>1. ASSUME NEW q \in Procesos, NEW g \in Paginas, NEW w \in Escritos \cup {Nada},
             CpuPedir(q, g, w)
      PROVE  InvM'
  <2>1. w \in Valores \cup {Nada}
    BY ValoresAssumption
  <2>. QED  BY <1>1, <2>1, PasoPedir
<1>2. ASSUME NEW q \in Procesos, Despachar(q)
      PROVE  InvM'
  BY <1>2, PasoDespachar DEF Despachar
<1>3. CASE CpuHilo
  BY <1>3, PasoMarco, PasoAcceder DEF CpuHilo
<1>4. CASE Kernel(Procesos)
  BY <1>4, PasoKernel
<1>5. CASE UNCHANGED vars
  BY <1>5, NadaCambia
<1>. QED  BY <1>1, <1>2, <1>3, <1>4, <1>5 DEF Next

LEMMA InvMSiempre == Spec => []InvM
BY InicioM, SiguienteM, PTL DEF Spec

LEMMA PropiosDeInv == InvM => MarcosPropios
<1>. SUFFICES ASSUME InvM, SinFines,
                     NEW q \in Activos, NEW g \in Paginas, tabla[q][g].p, ~ Soltandose(q, g)
              PROVE  /\ marcos[tabla[q][g].marco] = q
                     /\ \A r \in Activos, h \in Paginas :
                          /\ tabla[r][h].p /\ ~ Soltandose(r, h)
                          /\ tabla[r][h].marco = tabla[q][g].marco
                          => r = q /\ h = g
  BY DEF MarcosPropios
<1>1. /\ \A r \in Procesos, h \in Paginas : tabla[r][h].p /\ ~ Soltandose(r, h) =>
           marcos[tabla[r][h].marco] = r
      /\ \A r \in Procesos, h, k \in Paginas :
           /\ tabla[r][h].p /\ ~ Soltandose(r, h) /\ tabla[r][k].p /\ ~ Soltandose(r, k)
           /\ tabla[r][h].marco = tabla[r][k].marco
           => h = k
  BY DEF InvM, PropiosOK
<1>2. Activos \subseteq Procesos
  BY DEF Activos
<1>. QED  BY <1>1, <1>2

\* The pages in memory of a process have frames of its own, each its own.
LEMMA PresentesCupo ==
    ASSUME InvM, SinFines, NEW q \in Procesos
    PROVE  Cardinality(Presentes(q)) <= MarcosPorProceso
<1>0. MarcasOK /\ PropiosOK /\ CupoOK
  BY DEF InvM
<1>. DEFINE f == [g \in Presentes(q) |-> tabla[q][g].marco]
<1>1. Propios(q) \subseteq Marcos
  <2>1. KEn({"bits"}) /\ kernel.p = q => tabla[q][Head(kernel.resto)].marco \in Marcos
    BY <1>0, CabezaTipo DEF InvM, MarcasOK, KEn
  <2>. QED  BY <2>1 DEF Propios, Usados
<1>2. /\ IsFiniteSet(Propios(q)) /\ Cardinality(Propios(q)) \in Nat
      /\ IsFiniteSet(Presentes(q)) /\ Cardinality(Presentes(q)) \in Nat
  <2>1. Presentes(q) \subseteq Paginas
    BY DEF Presentes
  <2>. QED  BY <1>1, <2>1, MarcosAssumption, PaginasAssumption, FS_Subset, FS_CardinalityType
<1>3. \A g \in Presentes(q) : g \in Paginas /\ tabla[q][g].p /\ tabla[q][g].marco \in Marcos
  BY <1>0 DEF Presentes, MarcasOK
<1>4. f \in [Presentes(q) -> Propios(q)]
  <2>1. ASSUME NEW g \in Presentes(q)
        PROVE  tabla[q][g].marco \in Propios(q)
    <3>1. CASE Soltandose(q, g)
      BY <3>1 DEF Soltandose, Propios, KEn
    <3>2. CASE ~ Soltandose(q, g)
      BY <1>0, <1>3, <3>2 DEF PropiosOK, Propios, Usados
    <3>. QED  BY <3>1, <3>2
  <2>. QED  BY <2>1
<1>5. ASSUME NEW g \in Presentes(q), NEW h \in Presentes(q), f[g] = f[h]
      PROVE  g = h
  <2>1. tabla[q][g].marco = tabla[q][h].marco
    BY <1>5
  <2>2. CASE ~ Soltandose(q, g) /\ ~ Soltandose(q, h)
    BY <1>0, <1>3, <2>1, <2>2 DEF PropiosOK
  <2>3. CASE Soltandose(q, g) /\ Soltandose(q, h)
    BY <2>3 DEF Soltandose
  <2>4. CASE Soltandose(q, g) # Soltandose(q, h)
    <3>1. \A k \in Presentes(q) : /\ Soltandose(q, k) => marcos[tabla[q][k].marco] # q
                                  /\ ~ Soltandose(q, k) => marcos[tabla[q][k].marco] = q
      BY <1>0, <1>3 DEF MarcasOK, PropiosOK, Soltandose, KEn
    <3>2. Soltandose(q, g) \in BOOLEAN /\ Soltandose(q, h) \in BOOLEAN
      BY DEF Soltandose
    <3>. QED  BY <2>1, <2>4, <3>1, <3>2
  <2>5. Soltandose(q, g) \in BOOLEAN /\ Soltandose(q, h) \in BOOLEAN
    BY DEF Soltandose
  <2>. QED  BY <2>2, <2>3, <2>4, <2>5
<1>6. Cardinality(Presentes(q)) <= Cardinality(Propios(q))
  <2>. SUFFICES ASSUME Cardinality(Propios(q)) < Cardinality(Presentes(q))
                PROVE  FALSE
    BY <1>2
  <2>. HIDE DEF f
  <2>1. \E g, h \in Presentes(q) : g # h /\ f[g] = f[h]
    BY <1>2, <1>4, FS_PigeonHole
  <2>. QED  BY <1>5, <2>1
<1>. QED  BY <1>0, <1>2, <1>6, MarcosPorProcesoAssumption DEF CupoOK

LEMMA CupoDeInv == InvM => CupoRespetado
BY PresentesCupo DEF CupoRespetado, Activos

LEMMA ArchivoDeInv == InvM => ArchivoMapeado
BY DEF InvM, ArchivosOK, ArchivoMapeado, En, KEn

\* The two threads leave every variable of the module in its type: what each has
\* looked up is there when it uses it, and the victim that CLOCK and CLOCK-M choose
\* is always a page of the process.
THEOREM MemoriaTipo == Spec => []TypeOK
BY InvMSiempre, PTL DEF InvM

\* While nobody has ended, each frame has at most one page, of the process that it is
\* marked with (ocuparMarcoLibre, obtenerPaginaAReemplazar, liberarMarco).
THEOREM MarcosSiempre == Spec => []MarcosPropios
BY InvMSiempre, PropiosDeInv, PTL

\* No process comes to have more pages in memory than MARCOS_POR_PROCESO
\* (cantidadUsadaMarcos), with a suspension in the middle or without.
THEOREM CupoSiempre == Spec => []CupoRespetado
BY InvMSiempre, CupoDeInv, PTL

\* escribirPagEnSwap and traerPaginaDeSwap find a mapped file where archivo_swap
\* points, whichever of the two threads pointed it there.
THEOREM ArchivoSiempre == Spec => []ArchivoMapeado
BY InvMSiempre, ArchivoDeInv, PTL

-----------------------------------------------------------------------------
(* What the pages hold.                                                    *)

ContenidoIgual == \A q \in Procesos, g \in Paginas : Contenido(q, g)' = Contenido(q, g)

\* The page between liberarMarco and cambiarPdePagina is in its file.
LEMMA SoltandoseLimpia ==
    ASSUME InvM, SinFines, NEW q \in Procesos, NEW g \in Paginas, Soltandose(q, g)
    PROVE  ~ tabla[q][g].m
<1>1. KEn({"bits"}) /\ q = kernel.p /\ g = Head(kernel.resto)
  BY DEF Soltandose, KEn
<1>2. g = kernel.resto[1] /\ 1 \in DOMAIN kernel.resto
  BY <1>1, CabezaTipo DEF InvM, KEn
<1>. QED  BY <1>1, <1>2 DEF InvM, ModificadasOK, RestoOK, KEn

\* A modified page is alone in its frame, which is marked with its process.
LEMMA MarcoPropio ==
    ASSUME InvM, SinFines, NEW q \in Procesos, NEW g \in Paginas, tabla[q][g].p, tabla[q][g].m
    PROVE  /\ marcos[tabla[q][g].marco] = q /\ tabla[q][g].marco \in Marcos
           /\ \A h \in Paginas : /\ tabla[q][h].p /\ ~ Soltandose(q, h)
                                 /\ tabla[q][h].marco = tabla[q][g].marco
                                 => h = g
BY SoltandoseLimpia DEF InvM, PropiosOK, MarcasOK

LEMMA ContenidoMarco ==
    ASSUME InvM, SinFines, ~ OtroArchivo, CpuMarco
    PROVE  ContenidoIgual
<1>0. TypeOK /\ HilosOK /\ ArchivosOK /\ MarcasOK /\ PropiosOK /\ RespuestaOK
  BY DEF InvM
<1>. SUFFICES ASSUME NEW r \in Procesos, NEW h \in Paginas
              PROVE  Contenido(r, h)' = Contenido(r, h)
  BY DEF ContenidoIgual
<1>20. tabla \in [Procesos -> [Paginas -> Entradas]]
  BY <1>0 DEF TypeOK
<1>1. CASE CpuFalla \/ CpuSinContador \/ CpuSinMarco \/ CpuAsignar \/ CpuTraer
  <2>1. tabla' = tabla /\ usuario' = usuario /\ swap' = swap
    BY <1>1 DEF CpuFalla, CpuSinContador, CpuSinMarco, CpuAsignar, CpuTraer
  <2>. QED  BY <2>1 DEF Contenido
<1>2. CASE CpuPresente
  <2>1. PICK q \in Procesos, g \in Paginas, x \in Entradas : q = cpu.p /\ g = cpu.g /\ x = Pedida
    BY <1>0, <1>2, PedidaTipo DEF CpuPresente
  <2>2. PICK e \in Entradas : e = [x EXCEPT !.u = TRUE]
    BY DEF Entradas
  <2>3. e.p = x.p /\ e.m = x.m /\ e.marco = x.marco /\ x = tabla[q][g]
    BY <2>1, <2>2 DEF Entradas, Pedida
  <2>4. tabla' = Con(q, g, e) /\ usuario' = usuario /\ swap' = swap
    BY <1>2, <2>1, <2>2 DEF CpuPresente
  <2>5. tabla'[q][g] = e /\ (r # q \/ h # g => tabla'[r][h] = tabla[r][h])
    BY <1>0, <2>4, ConEfecto
  <2>6. /\ tabla'[r][h].p = tabla[r][h].p /\ tabla'[r][h].m = tabla[r][h].m
        /\ tabla'[r][h].marco = tabla[r][h].marco
    BY <2>3, <2>5
  <2>. QED  BY <2>4, <2>6 DEF Contenido
<1>3. CASE CpuOcupar
  <2>1. PICK q \in Procesos, g \in Paginas, x \in Entradas :
          q = cpu.p /\ g = cpu.g /\ x = Pedida /\ x = tabla[q][g] /\ ~ x.p
    BY <1>0, <1>3, PedidaTipo DEF CpuOcupar, HilosOK, En, Pedida
  <2>2. ~ x.m
    BY <1>0, <2>1 DEF MarcasOK
  <2>3. PICK f \in Marcos : f = Menor(Libres)
    BY <1>3, MarcosAssumption, MenorNat DEF CpuOcupar, Libres
  <2>4. PICK e \in Entradas : e = [x EXCEPT !.p = TRUE, !.marco = f]
    BY DEF Entradas
  <2>5. e.m = x.m
    BY <2>4 DEF Entradas
  <2>6. tabla' = Con(q, g, e) /\ usuario' = usuario /\ swap' = swap
    BY <1>3, <2>1, <2>3, <2>4 DEF CpuOcupar
  <2>7. tabla'[q][g] = e /\ (r # q \/ h # g => tabla'[r][h] = tabla[r][h])
    BY <1>0, <2>6, ConEfecto
  <2>8. CASE r = q /\ h = g
    BY <2>1, <2>2, <2>5, <2>6, <2>7, <2>8 DEF Contenido
  <2>9. CASE ~ (r = q /\ h = g)
    BY <2>6, <2>7, <2>9 DEF Contenido
  <2>. QED  BY <2>8, <2>9
<1>4. CASE CpuReemplazar
  <2>1. PICK w, t : w \in Presentes(cpu.p) /\ MismasMarcas(t, cpu.p) /\ Sacar(w, t)
    BY <1>0, <1>4, ReemplazarEfecto
  <2>2. PICK q \in Procesos : q = cpu.p
    BY <1>0, <1>4 DEF CpuReemplazar, HilosOK
  <2>3. usuario' = usuario /\ swap' = swap
    BY <1>4 DEF CpuReemplazar
  <2>4. /\ t \in [Paginas -> Entradas] /\ w \in Paginas
        /\ \A k \in Paginas : t[k].p = tabla[q][k].p /\ t[k].m = tabla[q][k].m
                              /\ t[k].marco = tabla[q][k].marco
        /\ tabla' = [tabla EXCEPT ![q] = IF tabla[q][w].m THEN t ELSE [t EXCEPT ![w] = Fuera(@)]]
    BY <2>1, <2>2 DEF MismasMarcas, Sacar, Presentes
  <2>5. CASE r = q /\ (tabla[q][w].m \/ h # w)
    <3>1. tabla'[r][h] = t[h]
      BY <1>20, <2>4, <2>5
    <3>. QED  BY <2>3, <2>4, <2>5, <3>1 DEF Contenido
  <2>6. CASE r = q /\ ~ tabla[q][w].m /\ h = w
    <3>1. PICK x \in Entradas : x = t[w] /\ ~ x.m
      BY <2>4, <2>6
    <3>2. ~ Fuera(x).p
      BY DEF Fuera, Entradas
    <3>3. tabla'[r][h] = Fuera(x)
      BY <1>20, <2>4, <2>6, <3>1
    <3>. QED  BY <2>3, <2>6, <3>2, <3>3 DEF Contenido
  <2>7. CASE r # q
    <3>1. tabla'[r] = tabla[r]
      BY <1>20, <2>4, <2>7
    <3>. QED  BY <2>3, <3>1 DEF Contenido
  <2>. QED  BY <2>5, <2>6, <2>7
<1>5. CASE CpuEscribir
  <2>1. PICK q \in Procesos, w \in Paginas :
          /\ q = cpu.p /\ w = cpu.dato /\ archivo = q
          /\ tabla[q][w].p /\ tabla[q][w].m /\ tabla[q][w].marco = cpu.marco
    BY <1>0, <1>5 DEF CpuEscribir, HilosOK, MarcasOK, En, Presentes, OtroArchivo
  <2>2. PICK x \in Entradas : x = tabla[q][w]
    BY <1>20
  <2>3. Fuera(x) \in Entradas /\ ~ Fuera(x).p
    BY DEF Fuera, Entradas
  <2>4. /\ tabla' = Con(q, w, Fuera(x)) /\ usuario' = usuario
        /\ swap' = [swap EXCEPT ![q][w] = usuario[cpu.marco]]
    BY <1>5, <2>1, <2>2 DEF CpuEscribir
  <2>5. tabla'[q][w] = Fuera(x) /\ (r # q \/ h # w => tabla'[r][h] = tabla[r][h])
    BY <1>0, <2>3, <2>4, ConEfecto
  <2>6. swap'[q][w] = usuario[cpu.marco] /\ (r # q \/ h # w => swap'[r][h] = swap[r][h])
    BY <1>0, <2>4 DEF TypeOK
  <2>7. CASE r = q /\ h = w
    BY <2>1, <2>3, <2>5, <2>6, <2>7 DEF Contenido
  <2>8. CASE ~ (r = q /\ h = w)
    BY <2>4, <2>5, <2>6, <2>8 DEF Contenido
  <2>. QED  BY <2>7, <2>8
<1>6. CASE CpuCargar
  <2>1. PICK q \in Procesos, g \in Paginas, x \in Entradas, f \in Marcos :
          q = cpu.p /\ g = cpu.g /\ x = Pedida /\ x = tabla[q][g] /\ ~ x.m /\ f = cpu.marco
    BY <1>0, <1>6, PedidaTipo DEF CpuCargar, HilosOK, RespuestaOK, En, Pedida
  <2>2. PICK e \in Entradas : e = [x EXCEPT !.p = TRUE, !.marco = f]
    BY DEF Entradas
  <2>3. ~ e.m
    BY <2>1, <2>2 DEF Entradas
  <2>4. /\ tabla' = Con(q, g, e) /\ swap' = swap /\ usuario' = [usuario EXCEPT ![f] = cpu.dato]
    BY <1>6, <2>1, <2>2 DEF CpuCargar
  <2>5. tabla'[q][g] = e /\ (r # q \/ h # g => tabla'[r][h] = tabla[r][h])
    BY <1>0, <2>4, ConEfecto
  <2>6. \A k \in Marcos : k # f => usuario'[k] = usuario[k]
    BY <1>0, <2>4 DEF TypeOK
  <2>7. CASE r = q /\ h = g
    BY <2>1, <2>3, <2>4, <2>5, <2>7 DEF Contenido
  <2>8. CASE ~ (r = q /\ h = g)
    <3>1. CASE ~ (tabla[r][h].p /\ tabla[r][h].m)
      BY <2>4, <2>5, <2>8, <3>1 DEF Contenido
    <3>2. CASE tabla[r][h].p /\ tabla[r][h].m
      <4>1. marcos[tabla[r][h].marco] = r /\ tabla[r][h].marco \in Marcos
        BY <3>2, MarcoPropio
      <4>2. /\ marcos[f] = q
            /\ \A k \in Paginas : tabla[q][k].p /\ tabla[q][k].marco = f => k = g
        BY <1>0, <1>6, <2>1 DEF CpuCargar, PropiosOK, En, Presentes
      <4>3. tabla[r][h].marco # f
        BY <2>8, <3>2, <4>1, <4>2
      <4>. QED  BY <2>4, <2>5, <2>6, <2>8, <3>2, <4>1, <4>3 DEF Contenido
    <3>. QED  BY <3>1, <3>2
  <2>. QED  BY <2>7, <2>8
<1>. QED  BY <1>1, <1>2, <1>3, <1>4, <1>5, <1>6 DEF CpuMarco

LEMMA ContenidoKernel ==
    ASSUME InvM, SinFines, ~ OtroArchivo, NEW S \in SUBSET Procesos, Kernel(S)
    PROVE  ContenidoIgual
<1>0. TypeOK /\ HilosOK /\ ArchivosOK /\ MarcasOK /\ RestoOK /\ PropiosOK /\ ModificadasOK
  BY DEF InvM
<1>. SUFFICES ASSUME NEW r \in Procesos, NEW h \in Paginas
              PROVE  Contenido(r, h)' = Contenido(r, h)
  BY DEF ContenidoIgual
<1>1. ASSUME NEW q \in Procesos, KInicializar(q)
      PROVE  Contenido(r, h)' = Contenido(r, h)
  <2>1. PICK f : tabla' = [tabla EXCEPT ![q] = TablaNueva(f)]
    BY <1>1 DEF KInicializar
  <2>2. usuario' = usuario /\ swap' = swap /\ vida[q] = "fuera"
    BY <1>1 DEF KInicializar
  <2>3. CASE r = q
    <3>1. ~ tabla[r][h].p
      BY <1>0, <2>2, <2>3 DEF MarcasOK
    <3>2. tabla'[r][h] = TablaNueva(f)[h]
      BY <1>0, <2>1, <2>3 DEF TypeOK
    <3>3. ~ TablaNueva(f)[h].p
      BY DEF TablaNueva
    <3>. QED  BY <2>2, <3>1, <3>2, <3>3 DEF Contenido
  <2>4. CASE r # q
    <3>1. tabla'[r] = tabla[r]
      BY <1>0, <2>1, <2>4 DEF TypeOK
    <3>. QED  BY <2>2, <3>1 DEF Contenido
  <2>. QED  BY <2>3, <2>4
<1>2. ASSUME NEW q \in Procesos, KSuspender(q) \/ KFinalizar(q) \/ KListar \/ KSoltar \/ KLiberar
      PROVE  Contenido(r, h)' = Contenido(r, h)
  <2>1. tabla' = tabla /\ usuario' = usuario /\ swap' = swap
    BY <1>2 DEF KSuspender, KFinalizar, KListar, KSoltar, KLiberar
  <2>. QED  BY <2>1 DEF Contenido
<1>3. CASE KBajar
  <2>1. PICK q \in Procesos, g \in Paginas :
          /\ q = kernel.p /\ g = Head(kernel.resto) /\ archivo = q
          /\ tabla[q][g].p /\ tabla[q][g].m
    <3>1. KEn({"bajar"}) /\ archivo = kernel.p
      BY <1>3 DEF KBajar, KEn, OtroArchivo
    <3>2. /\ kernel.p \in Procesos /\ Head(kernel.resto) \in Paginas
          /\ Head(kernel.resto) = kernel.resto[1] /\ 1 \in DOMAIN kernel.resto
          /\ tabla[kernel.p][Head(kernel.resto)].p
      BY <1>0, <3>1, CabezaTipo DEF KEn
    <3>3. tabla[kernel.p][Head(kernel.resto)].m
      BY <1>0, <3>1, <3>2 DEF RestoOK, KEn
    <3>. QED  BY <3>1, <3>2, <3>3
  <2>2. PICK x \in Entradas : x = tabla[q][g]
    BY <1>0 DEF TypeOK
  <2>3. PICK e \in Entradas : e = [x EXCEPT !.m = FALSE]
    BY DEF Entradas
  <2>4. ~ e.m
    BY <2>3 DEF Entradas
  <2>5. /\ tabla' = Con(q, g, e) /\ usuario' = usuario
        /\ swap' = [swap EXCEPT ![q][g] = usuario[x.marco]]
    BY <1>3, <2>1, <2>2, <2>3 DEF KBajar
  <2>6. tabla'[q][g] = e /\ (r # q \/ h # g => tabla'[r][h] = tabla[r][h])
    BY <1>0, <2>5, ConEfecto
  <2>7. swap'[q][g] = usuario[x.marco] /\ (r # q \/ h # g => swap'[r][h] = swap[r][h])
    BY <1>0, <2>5 DEF TypeOK
  <2>8. CASE r = q /\ h = g
    BY <2>1, <2>2, <2>4, <2>6, <2>7, <2>8 DEF Contenido
  <2>9. CASE ~ (r = q /\ h = g)
    BY <2>5, <2>6, <2>7, <2>9 DEF Contenido
  <2>. QED  BY <2>8, <2>9
<1>4. CASE KBits
  <2>1. KEn({"bits"})
    BY <1>4 DEF KBits, KEn
  <2>2. PICK q \in Procesos, g \in Paginas : q = kernel.p /\ g = Head(kernel.resto)
    BY <1>0, <2>1, CabezaTipo DEF KEn
  <2>3. ~ tabla[q][g].m
    BY <2>1, <2>2, SoltandoseLimpia DEF Soltandose, KEn
  <2>4. PICK x \in Entradas : x = tabla[q][g]
    BY <1>0 DEF TypeOK
  <2>5. PICK y \in Entradas : y = Fuera(x) /\ ~ y.p
    <3>1. Fuera(x) \in Entradas /\ ~ Fuera(x).p
      BY DEF Fuera, Entradas
    <3>. QED  BY <3>1
  <2>6. PICK e \in Entradas : e = [y EXCEPT !.u = FALSE]
    BY DEF Entradas
  <2>7. ~ e.p
    BY <2>5, <2>6 DEF Entradas
  <2>8. tabla' = Con(q, g, e) /\ usuario' = usuario /\ swap' = swap
    BY <1>4, <2>2, <2>4, <2>5, <2>6 DEF KBits
  <2>9. tabla'[q][g] = e /\ (r # q \/ h # g => tabla'[r][h] = tabla[r][h])
    BY <1>0, <2>8, ConEfecto
  <2>10. CASE r = q /\ h = g
    BY <2>3, <2>7, <2>8, <2>9, <2>10 DEF Contenido
  <2>11. CASE ~ (r = q /\ h = g)
    BY <2>8, <2>9, <2>11 DEF Contenido
  <2>. QED  BY <2>10, <2>11
<1>5. ~ KBorrar
  BY <1>0 DEF KBorrar, HilosOK, KEn, SinFines
<1>6. CASE KLimpiar
  <2>1. PICK q \in Procesos : q = kernel.p /\ vida[q] = "listo"
    BY <1>0, <1>6 DEF KLimpiar, HilosOK, KEn, SinFines
  <2>2. \A k \in Paginas : ~ tabla[q][k].m
    BY <1>0, <1>6, <2>1 DEF KLimpiar, ModificadasOK, KEn
  <2>3. /\ tabla' = tabla /\ swap' = swap
        /\ \A f \in Marcos : (\A k \in Paginas : tabla[q][k].p => tabla[q][k].marco # f)
                               => usuario'[f] = usuario[f]
    BY <1>6, <2>1 DEF KLimpiar, Presentes
  <2>4. CASE ~ (tabla[r][h].p /\ tabla[r][h].m)
    BY <2>3, <2>4 DEF Contenido
  <2>5. CASE tabla[r][h].p /\ tabla[r][h].m
    <3>1. marcos[tabla[r][h].marco] = r /\ tabla[r][h].marco \in Marcos /\ r # q
      BY <2>2, <2>5, MarcoPropio
    <3>2. \A k \in Paginas : tabla[q][k].p => marcos[tabla[q][k].marco] = q
      BY <1>0, <1>6 DEF KLimpiar, PropiosOK, Soltandose
    <3>. QED  BY <2>3, <2>5, <3>1, <3>2 DEF Contenido
  <2>. QED  BY <2>4, <2>5
<1>. QED  BY <1>1, <1>2, <1>3, <1>4, <1>5, <1>6 DEF Kernel, KernelHilo

\* A write of w in frame f, which holds page g of process q.
EscribeEn(q, g, f, w) ==
    /\ tabla[q][g].p /\ tabla[q][g].marco = f /\ ~ Soltandose(q, g) /\ tabla'[q][g].m
    /\ swap' = swap /\ usuario' = [usuario EXCEPT ![f] = w]
    /\ \A r \in Procesos, h \in Paginas :
         /\ tabla'[r][h].p = tabla[r][h].p /\ tabla'[r][h].marco = tabla[r][h].marco
         /\ tabla[r][h].m => tabla'[r][h].m
         /\ tabla'[r][h].m => tabla[r][h].m \/ (r = q /\ tabla[r][h].p /\ tabla[r][h].marco = f)

ContenidoCon(q, g, w) ==
    \A r \in Procesos, h \in Paginas :
      Contenido(r, h)' = IF r = q /\ h = g THEN w ELSE Contenido(r, h)

LEMMA ContenidoEscrito ==
    ASSUME InvM, SinFines, NEW q \in Procesos, NEW g \in Paginas, NEW f \in Marcos,
           NEW w, EscribeEn(q, g, f, w)
    PROVE  ContenidoCon(q, g, w)
<1>. USE DEF EscribeEn
<1>0. TypeOK /\ MarcasOK /\ PropiosOK
  BY DEF InvM
<1>1. usuario'[f] = w /\ \A x \in Marcos : x # f => usuario'[x] = usuario[x]
  BY <1>0 DEF TypeOK
<1>2. marcos[f] = q
  BY <1>0 DEF PropiosOK
<1>3. ASSUME NEW h \in Paginas, tabla[q][h].p, tabla[q][h].marco = f
      PROVE  h = g
  <2>1. ~ Soltandose(q, h)
    BY <1>0, <1>2, <1>3 DEF Soltandose, MarcasOK, KEn
  <2>. QED  BY <1>0, <1>3, <2>1 DEF PropiosOK
<1>. SUFFICES ASSUME NEW r \in Procesos, NEW h \in Paginas
              PROVE  Contenido(r, h)' = IF r = q /\ h = g THEN w ELSE Contenido(r, h)
  BY DEF ContenidoCon
<1>4. CASE r = q /\ h = g
  BY <1>1, <1>4 DEF Contenido
<1>5. CASE ~ (r = q /\ h = g)
  <2>1. tabla'[r][h].m <=> tabla[r][h].m
    BY <1>3, <1>5
  <2>2. CASE tabla[r][h].p /\ tabla[r][h].m
    <3>1. marcos[tabla[r][h].marco] = r /\ tabla[r][h].marco \in Marcos
      BY <2>2, MarcoPropio
    <3>2. tabla[r][h].marco # f
      BY <1>2, <1>3, <1>5, <2>2, <3>1
    <3>. QED  BY <1>1, <1>5, <2>1, <2>2, <3>1, <3>2 DEF Contenido
  <2>3. CASE ~ (tabla[r][h].p /\ tabla[r][h].m)
    BY <1>5, <2>1, <2>3 DEF Contenido
  <2>. QED  BY <2>2, <2>3
<1>. QED  BY <1>4, <1>5

\* CpuAcceder: what it moves.
LEMMA AccederEfecto ==
    ASSUME InvM, SinFines, CpuAcceder,
           NEW q, NEW g, NEW f, NEW w, q = cpu.p, g = cpu.g, f = cpu.marco, w = cpu.w
    PROVE  /\ q \in Procesos /\ g \in Paginas /\ f \in Marcos /\ w \in Valores \cup {Nada}
           /\ tabla[q][g].p /\ tabla[q][g].marco = f /\ ~ Soltandose(q, g) /\ marcos[f] = q
           /\ \A r \in Procesos, h \in Paginas :
                /\ tabla'[r][h].p = tabla[r][h].p /\ tabla'[r][h].marco = tabla[r][h].marco
                /\ tabla[r][h].m => tabla'[r][h].m
                /\ tabla'[r][h].m => tabla[r][h].m
                     \/ (w # Nada /\ r = q /\ tabla[r][h].p /\ tabla[r][h].marco = f)
           /\ w # Nada => tabla'[q][g].m
<1>0. TypeOK /\ HilosOK /\ MarcasOK /\ PropiosOK /\ RespuestaOK
  BY DEF InvM
<1>1. cpu.en = "acceder" /\ tabla' = Marcada(tabla, f, w)
  BY DEF CpuAcceder
<1>2. q \in Procesos /\ g \in Paginas /\ f \in Marcos
  BY <1>0, <1>1, PedidaTipo DEF HilosOK, En
<1>3. w \in Valores \cup {Nada}
  BY <1>0 DEF TypeOK, CpuTipo
<1>5. /\ tabla[q][g].p /\ tabla[q][g].marco = f /\ ~ Soltandose(q, g) /\ marcos[f] = q
  BY <1>0, <1>1, <1>2 DEF HilosOK, RespuestaOK, En, Pedida, PropiosOK, Soltandose
<1>6. marcos \in [Marcos -> Procesos \cup {Nada}] /\ tabla \in [Procesos -> [Paginas -> Entradas]]
  BY <1>0 DEF TypeOK
<1>7. q # Nada
  BY <1>2, NadaAssumption
<1>8. /\ \A r \in Procesos, h \in Paginas :
           /\ tabla'[r][h].p = tabla[r][h].p /\ tabla'[r][h].marco = tabla[r][h].marco
           /\ tabla[r][h].m => tabla'[r][h].m
           /\ tabla'[r][h].m => tabla[r][h].m
                \/ (w # Nada /\ r = q /\ tabla[r][h].p /\ tabla[r][h].marco = f)
      /\ w # Nada => \E h \in Paginas : tabla[q][h].p /\ tabla[q][h].marco = f /\ tabla'[q][h].m
  <2>1. marcos[f] # Nada =>
          \E h \in Paginas : tabla[marcos[f]][h].p /\ tabla[marcos[f]][h].marco = f
    BY <1>2, <1>5
  <2>2. \A r \in Procesos, h \in Paginas :
          /\ tabla'[r][h].p = tabla[r][h].p /\ tabla'[r][h].marco = tabla[r][h].marco
          /\ tabla[r][h].m => tabla'[r][h].m
          /\ tabla'[r][h].m =>
               tabla[r][h].m \/ (w # Nada /\ r = marcos[f] /\ tabla[r][h].p /\ tabla[r][h].marco = f)
    BY <1>1, <1>2, <1>6, <2>1, MarcadaEfecto
  <2>3. marcos[f] # Nada /\ w # Nada => HayEscrita(tabla, marcos[f], f, tabla')
    BY <1>1, <1>2, <1>6, <2>1, MarcadaEfecto
  <2>. QED  BY <1>5, <1>7, <2>2, <2>3 DEF HayEscrita
<1>9. \A h \in Paginas : tabla[q][h].p /\ tabla[q][h].marco = f => h = g
  <2>1. \A h \in Paginas : Soltandose(q, h) => marcos[tabla[q][h].marco] # q
    BY <1>0 DEF Soltandose, MarcasOK, KEn
  <2>. QED  BY <1>0, <1>2, <1>5, <2>1 DEF PropiosOK
<1>10. w # Nada => tabla'[q][g].m
  BY <1>8, <1>9
<1>. QED  BY <1>2, <1>3, <1>5, <1>8, <1>10

\* READ leaves every page as it was, and WRITE writes the one that was asked for.
LEMMA ContenidoAcceder ==
    ASSUME InvM, SinFines, CpuAcceder
    PROVE  \A r \in Procesos, h \in Paginas :
             Contenido(r, h)' = IF r = cpu.p /\ h = cpu.g /\ cpu.w # Nada THEN cpu.w
                                ELSE Contenido(r, h)
<1>0. PICK q, g, f, w : q = cpu.p /\ g = cpu.g /\ f = cpu.marco /\ w = cpu.w
  OBVIOUS
<1>1. /\ q \in Procesos /\ g \in Paginas /\ f \in Marcos /\ w \in Valores \cup {Nada}
      /\ tabla[q][g].p /\ tabla[q][g].marco = f /\ ~ Soltandose(q, g) /\ marcos[f] = q
      /\ \A r \in Procesos, h \in Paginas :
           /\ tabla'[r][h].p = tabla[r][h].p /\ tabla'[r][h].marco = tabla[r][h].marco
           /\ tabla[r][h].m => tabla'[r][h].m
           /\ tabla'[r][h].m => tabla[r][h].m
                \/ (w # Nada /\ r = q /\ tabla[r][h].p /\ tabla[r][h].marco = f)
      /\ w # Nada => tabla'[q][g].m
  BY <1>0, AccederEfecto
<1>2. swap' = swap /\ usuario' = IF w = Nada THEN usuario ELSE [usuario EXCEPT ![f] = w]
  BY <1>0 DEF CpuAcceder
<1>3. CASE w = Nada
  <2>1. \A r \in Procesos, h \in Paginas :
          /\ tabla'[r][h].p = tabla[r][h].p /\ tabla'[r][h].marco = tabla[r][h].marco
          /\ tabla'[r][h].m <=> tabla[r][h].m
    BY <1>1, <1>3
  <2>. QED  BY <1>0, <1>2, <1>3, <2>1 DEF Contenido
<1>4. CASE w # Nada
  <2>1. usuario' = [usuario EXCEPT ![f] = w] /\ tabla'[q][g].m
    BY <1>1, <1>2, <1>4
  <2>2. EscribeEn(q, g, f, w)
    BY <1>1, <1>2, <2>1 DEF EscribeEn
  <2>3. ContenidoCon(q, g, w)
    BY <1>1, <2>2, ContenidoEscrito
  <2>. QED  BY <1>0, <1>4, <2>3 DEF ContenidoCon
<1>. QED  BY <1>3, <1>4

-----------------------------------------------------------------------------
(* The module while the kernel suspends and ends nobody.                   *)

\* devolver_marco keeps the pages that were not modified as they are in their files.
LEMMA LimpiasMarco ==
    ASSUME InvM, DatosOK, Pedidos = {}, CpuMarco
    PROVE  LimpiasOK'
<1>0. /\ TypeOK /\ HilosOK /\ MarcasOK /\ PropiosOK /\ RespuestaOK
      /\ SinFines /\ kernel.en = "libre" /\ LimpiasOK
      /\ En({"escribir", "traer"}) => archivo = cpu.p
      /\ En({"cargar"}) => cpu.dato = swap[cpu.p][cpu.g]
  BY DEF InvM, DatosOK
<1>20. tabla \in [Procesos -> [Paginas -> Entradas]]
  BY <1>0 DEF TypeOK
<1>. SUFFICES ASSUME NEW r \in Procesos, NEW h \in Paginas,
                     tabla'[r][h].p, ~ tabla'[r][h].m, ~ Trayendose(r, h)'
              PROVE  usuario'[tabla'[r][h].marco] = swap'[r][h]
  BY DEF LimpiasOK
<1>1. CASE CpuFalla \/ CpuSinContador \/ CpuSinMarco \/ CpuAsignar \/ CpuTraer
  <2>1. tabla' = tabla /\ usuario' = usuario /\ swap' = swap
    BY <1>1 DEF CpuFalla, CpuSinContador, CpuSinMarco, CpuAsignar, CpuTraer
  <2>2. ~ Trayendose(r, h)
    <3>1. En({"asignar", "traer", "cargar"}) => cpu' = cpu \/ (cpu'.p = cpu.p /\ cpu'.g = cpu.g
                                                    /\ cpu'.en \in {"asignar", "traer", "cargar"})
      BY <1>0, <1>1 DEF CpuFalla, CpuSinContador, CpuSinMarco, CpuAsignar, CpuTraer, Cpu, En,
                        TypeOK, CpuTipo
    <3>. QED  BY <3>1 DEF Trayendose, En
  <2>. QED  BY <1>0, <2>1, <2>2 DEF LimpiasOK
<1>2. CASE CpuPresente
  <2>1. PICK q \in Procesos, g \in Paginas, x \in Entradas : q = cpu.p /\ g = cpu.g /\ x = Pedida
    BY <1>0, <1>2, PedidaTipo DEF CpuPresente
  <2>2. PICK e \in Entradas : e = [x EXCEPT !.u = TRUE]
    BY DEF Entradas
  <2>3. e.p = x.p /\ e.m = x.m /\ e.marco = x.marco /\ x = tabla[q][g]
    BY <2>1, <2>2 DEF Entradas, Pedida
  <2>4. tabla' = Con(q, g, e) /\ usuario' = usuario /\ swap' = swap /\ cpu.en = "pedir"
    BY <1>2, <2>1, <2>2 DEF CpuPresente
  <2>5. tabla'[q][g] = e /\ (r # q \/ h # g => tabla'[r][h] = tabla[r][h])
    BY <1>0, <2>4, ConEfecto
  <2>6. /\ tabla'[r][h].p = tabla[r][h].p /\ tabla'[r][h].m = tabla[r][h].m
        /\ tabla'[r][h].marco = tabla[r][h].marco
    BY <2>3, <2>5
  <2>. QED  BY <1>0, <2>4, <2>6 DEF LimpiasOK, Trayendose, En
<1>3. CASE CpuOcupar
  <2>1. PICK q \in Procesos, g \in Paginas, x \in Entradas : q = cpu.p /\ g = cpu.g /\ x = Pedida
    BY <1>0, <1>3, PedidaTipo DEF CpuOcupar
  <2>2. PICK f \in Marcos : f = Menor(Libres)
    BY <1>3, MarcosAssumption, MenorNat DEF CpuOcupar, Libres
  <2>3. PICK e \in Entradas : e = [x EXCEPT !.p = TRUE, !.marco = f]
    BY DEF Entradas
  <2>4. tabla' = Con(q, g, e) /\ usuario' = usuario /\ swap' = swap /\ cpu.en = "ocupar"
    BY <1>3, <2>1, <2>2, <2>3 DEF CpuOcupar
  <2>5. r # q \/ h # g => tabla'[r][h] = tabla[r][h]
    BY <1>0, <2>4, ConEfecto
  <2>6. cpu'.en = "asignar" /\ cpu'.p = q /\ cpu'.g = g
    BY <1>0, <1>3, <2>1 DEF CpuOcupar, TypeOK, CpuTipo
  <2>7. r # q \/ h # g
    BY <2>6 DEF Trayendose, En
  <2>. QED  BY <1>0, <2>4, <2>5, <2>7 DEF LimpiasOK, Trayendose, En
<1>4. CASE CpuReemplazar
  <2>1. PICK w, t : w \in Presentes(cpu.p) /\ MismasMarcas(t, cpu.p) /\ Sacar(w, t)
    BY <1>0, <1>4, ReemplazarEfecto
  <2>2. PICK q \in Procesos : q = cpu.p
    BY <1>0, <1>4 DEF CpuReemplazar, HilosOK
  <2>3. usuario' = usuario /\ swap' = swap /\ cpu.en = "reemplazar"
    BY <1>4 DEF CpuReemplazar
  <2>4. /\ t \in [Paginas -> Entradas] /\ w \in Paginas
        /\ \A k \in Paginas : t[k].p = tabla[q][k].p /\ t[k].m = tabla[q][k].m
                              /\ t[k].marco = tabla[q][k].marco
        /\ tabla' = [tabla EXCEPT ![q] = IF tabla[q][w].m THEN t ELSE [t EXCEPT ![w] = Fuera(@)]]
    BY <2>1, <2>2 DEF MismasMarcas, Sacar, Presentes
  <2>5. CASE r = q /\ (tabla[q][w].m \/ h # w)
    <3>1. tabla'[r][h] = t[h]
      BY <1>20, <2>4, <2>5
    <3>. QED  BY <1>0, <2>3, <2>4, <2>5, <3>1 DEF LimpiasOK, Trayendose, En
  <2>6. CASE r = q /\ ~ tabla[q][w].m /\ h = w
    <3>1. PICK x \in Entradas : x = t[w]
      BY <2>4, <2>6
    <3>2. ~ Fuera(x).p
      BY DEF Fuera, Entradas
    <3>3. tabla'[r][h] = Fuera(x)
      BY <1>20, <2>4, <2>6, <3>1
    <3>. QED  BY <3>2, <3>3
  <2>7. CASE r # q
    <3>1. tabla'[r] = tabla[r]
      BY <1>20, <2>4, <2>7
    <3>. QED  BY <1>0, <2>3, <3>1 DEF LimpiasOK, Trayendose, En
  <2>. QED  BY <2>5, <2>6, <2>7
<1>5. CASE CpuEscribir
  <2>1. PICK q \in Procesos, w \in Paginas : q = cpu.p /\ w = cpu.dato /\ archivo = q
    BY <1>0, <1>5 DEF CpuEscribir, HilosOK, MarcasOK, En, Presentes
  <2>2. PICK x \in Entradas : x = tabla[q][w]
    BY <1>20
  <2>3. Fuera(x) \in Entradas /\ ~ Fuera(x).p
    BY DEF Fuera, Entradas
  <2>4. /\ tabla' = Con(q, w, Fuera(x)) /\ usuario' = usuario /\ cpu.en = "escribir"
        /\ swap' = [swap EXCEPT ![q][w] = usuario[cpu.marco]]
    BY <1>5, <2>1, <2>2 DEF CpuEscribir
  <2>5. tabla'[q][w] = Fuera(x) /\ (r # q \/ h # w => tabla'[r][h] = tabla[r][h])
    BY <1>0, <2>3, <2>4, ConEfecto
  <2>6. r # q \/ h # w => swap'[r][h] = swap[r][h]
    BY <1>0, <2>4 DEF TypeOK
  <2>. QED  BY <1>0, <2>3, <2>4, <2>5, <2>6 DEF LimpiasOK, Trayendose, En
<1>6. CASE CpuCargar
  <2>1. PICK q \in Procesos, g \in Paginas, x \in Entradas, f \in Marcos :
          q = cpu.p /\ g = cpu.g /\ x = Pedida /\ f = cpu.marco
    BY <1>0, <1>6, PedidaTipo DEF CpuCargar, HilosOK, En
  <2>2. PICK e \in Entradas : e = [x EXCEPT !.p = TRUE, !.marco = f]
    BY DEF Entradas
  <2>3. e.marco = f
    BY <2>2 DEF Entradas
  <2>4. /\ tabla' = Con(q, g, e) /\ swap' = swap /\ usuario' = [usuario EXCEPT ![f] = cpu.dato]
        /\ cpu.en = "cargar"
    BY <1>6, <2>1, <2>2 DEF CpuCargar
  <2>5. tabla'[q][g] = e /\ (r # q \/ h # g => tabla'[r][h] = tabla[r][h])
    BY <1>0, <2>4, ConEfecto
  <2>6. usuario'[f] = cpu.dato /\ \A k \in Marcos : k # f => usuario'[k] = usuario[k]
    BY <1>0, <2>4 DEF TypeOK
  <2>7. CASE r = q /\ h = g
    BY <1>0, <2>1, <2>3, <2>4, <2>5, <2>6, <2>7 DEF En
  <2>8. CASE ~ (r = q /\ h = g)
    <3>1. tabla[r][h].p /\ ~ tabla[r][h].m /\ ~ Trayendose(r, h)
      BY <2>1, <2>5, <2>8 DEF Trayendose
    <3>2. marcos[tabla[r][h].marco] = r /\ tabla[r][h].marco \in Marcos
      BY <1>0, <3>1 DEF PropiosOK, MarcasOK, Soltandose
    <3>3. /\ marcos[f] = q
          /\ \A k \in Paginas : tabla[q][k].p /\ tabla[q][k].marco = f => k = g
      BY <1>0, <2>1, <2>4 DEF PropiosOK, En, Presentes
    <3>4. tabla[r][h].marco # f
      BY <2>8, <3>1, <3>2, <3>3
    <3>. QED  BY <1>0, <2>4, <2>5, <2>6, <2>8, <3>1, <3>2, <3>4 DEF LimpiasOK
  <2>. QED  BY <2>7, <2>8
<1>. QED  BY <1>1, <1>2, <1>3, <1>4, <1>5, <1>6 DEF CpuMarco

\* So do READ, which changes no page, and WRITE, which marks the one that it changes.
LEMMA LimpiasAcceder ==
    ASSUME InvM, DatosOK, Pedidos = {}, CpuAcceder
    PROVE  LimpiasOK'
<1>0. InvM /\ SinFines /\ kernel.en = "libre" /\ LimpiasOK /\ TypeOK /\ PropiosOK /\ MarcasOK
  BY DEF DatosOK, InvM
<1>1. PICK q, g, f, w : q = cpu.p /\ g = cpu.g /\ f = cpu.marco /\ w = cpu.w
  OBVIOUS
<1>2. /\ q \in Procesos /\ g \in Paginas /\ f \in Marcos
      /\ tabla[q][g].p /\ tabla[q][g].marco = f /\ ~ Soltandose(q, g) /\ marcos[f] = q
      /\ \A r \in Procesos, h \in Paginas :
           /\ tabla'[r][h].p = tabla[r][h].p /\ tabla'[r][h].marco = tabla[r][h].marco
           /\ tabla[r][h].m => tabla'[r][h].m
      /\ w # Nada => tabla'[q][g].m
  BY <1>0, <1>1, AccederEfecto
<1>3. /\ cpu.en = "acceder" /\ swap' = swap
      /\ usuario' = IF w = Nada THEN usuario ELSE [usuario EXCEPT ![f] = w]
  BY <1>1 DEF CpuAcceder
<1>. SUFFICES ASSUME NEW r \in Procesos, NEW h \in Paginas,
                     tabla'[r][h].p, ~ tabla'[r][h].m, ~ Trayendose(r, h)'
              PROVE  usuario'[tabla'[r][h].marco] = swap'[r][h]
  BY DEF LimpiasOK
<1>4. tabla[r][h].p /\ ~ tabla[r][h].m /\ ~ Trayendose(r, h)
  BY <1>2, <1>3 DEF Trayendose, En
<1>5. usuario[tabla[r][h].marco] = swap[r][h]
  BY <1>0, <1>4 DEF LimpiasOK
<1>6. w # Nada => tabla[r][h].marco # f
  <2>1. marcos[tabla[r][h].marco] = r
    BY <1>0, <1>4 DEF PropiosOK, Soltandose
  <2>2. \A k \in Paginas : tabla[q][k].p /\ tabla[q][k].marco = f => k = g
    BY <1>0, <1>2 DEF PropiosOK, Soltandose
  <2>. QED  BY <1>2, <1>4, <2>1, <2>2
<1>7. tabla[r][h].marco \in Marcos
  BY <1>0, <1>4 DEF MarcasOK
<1>8. usuario'[tabla[r][h].marco] = usuario[tabla[r][h].marco]
  BY <1>0, <1>3, <1>6, <1>7 DEF TypeOK
<1>. QED  BY <1>2, <1>3, <1>5, <1>8

LEMMA DatosPaso ==
    ASSUME InvM, DatosOK, [Next]_vars
    PROVE  DatosOK'
<1>. SUFFICES ASSUME Pedidos = {}
              PROVE  /\ kernel'.en = "libre" /\ SinFines'
                     /\ En({"escribir", "traer"})' => archivo' = cpu'.p
                     /\ En({"cargar"})' => cpu'.dato = swap'[cpu'.p][cpu'.g]
                     /\ LimpiasOK'
  BY DEF DatosOK
<1>0. /\ kernel.en = "libre" /\ SinFines /\ LimpiasOK
      /\ En({"escribir", "traer"}) => archivo = cpu.p
      /\ En({"cargar"}) => cpu.dato = swap[cpu.p][cpu.g]
      /\ TypeOK /\ HilosOK /\ MarcasOK
  BY DEF DatosOK, InvM
<1>1. CASE UNCHANGED vars
  BY <1>0, <1>1 DEF vars, SinFines, En, LimpiasOK, Trayendose
<1>2. ASSUME NEW q \in Procesos, Despachar(q)
      PROVE  /\ kernel'.en = "libre" /\ SinFines' /\ LimpiasOK'
             /\ cpu' = cpu /\ swap' = swap /\ archivo' = archivo
  BY <1>0, <1>2 DEF Despachar, TypeOK, SinFines, LimpiasOK, Trayendose, En
<1>3. ASSUME NEW q \in Procesos, NEW g \in Paginas, NEW w, CpuPedir(q, g, w)
      PROVE  /\ kernel'.en = "libre" /\ SinFines' /\ LimpiasOK' /\ cpu'.en = "pedir"
  BY <1>0, <1>3 DEF CpuPedir, Reposo, SinFines, LimpiasOK, Trayendose, En
<1>4. ASSUME CpuMarco
      PROVE  /\ kernel'.en = "libre" /\ SinFines' /\ LimpiasOK'
             /\ En({"escribir", "traer"})' => archivo' = cpu'.p
             /\ En({"cargar"})' => cpu'.dato = swap'[cpu'.p][cpu'.g]
  <2>1. UNCHANGED <<vida, kernel>>
    BY <1>4 DEF CpuMarco, CpuPresente, CpuFalla, CpuSinContador, CpuSinMarco, CpuOcupar,
                CpuReemplazar, CpuEscribir, CpuAsignar, CpuTraer, CpuCargar
  <2>2. LimpiasOK'
    BY <1>4, LimpiasMarco
  <2>3. cpu \in CpuTipo
    BY <1>0 DEF TypeOK
  <2>4. CASE CpuReemplazar
    <3>1. PICK v, t : Sacar(v, t)
      BY <2>4 DEF CpuReemplazar
    <3>2. PICK l, m, d :
            /\ l = IF tabla[cpu.p][v].m THEN "escribir" ELSE "asignar"
            /\ m = tabla[cpu.p][v].marco
            /\ d = IF tabla[cpu.p][v].m THEN v ELSE Nada
      OBVIOUS
    <3>3. /\ cpu' = [cpu EXCEPT !.en = l, !.marco = m, !.dato = d]
          /\ l = "escribir" => archivo' = cpu.p
      BY <3>1, <3>2 DEF Sacar
    <3>4. cpu'.en = l /\ cpu'.p = cpu.p /\ l \in {"escribir", "asignar"}
      BY <2>3, <3>2, <3>3 DEF CpuTipo
    <3>. QED  BY <1>0, <2>1, <2>2, <3>3, <3>4 DEF SinFines, En
  <2>5. CASE CpuTraer
    <3>1. /\ cpu' = [cpu EXCEPT !.en = "cargar", !.dato = swap[archivo][cpu.g]]
          /\ swap' = swap /\ archivo = cpu.p
      BY <1>0, <2>5 DEF CpuTraer, En
    <3>2. cpu'.en = "cargar" /\ cpu'.p = cpu.p /\ cpu'.g = cpu.g
          /\ cpu'.dato = swap[cpu.p][cpu.g]
      BY <2>3, <3>1 DEF CpuTipo
    <3>. QED  BY <1>0, <2>1, <2>2, <3>1, <3>2 DEF SinFines, En
  <2>6. CASE CpuAsignar
    <3>1. cpu'.en = "traer" /\ cpu'.p = cpu.p /\ archivo' = cpu.p
      BY <2>3, <2>6 DEF CpuAsignar, Cpu, CpuTipo
    <3>. QED  BY <1>0, <2>1, <2>2, <3>1 DEF SinFines, En
  <2>7. CASE ~ CpuReemplazar /\ ~ CpuTraer /\ ~ CpuAsignar
    <3>1. cpu'.en \in {"acceder", "ocupar", "reemplazar", "asignar", "pedir"}
      BY <1>4, <2>3, <2>7 DEF CpuMarco, CpuPresente, CpuFalla, CpuSinContador, CpuSinMarco,
                CpuOcupar, CpuEscribir, CpuCargar, CpuTipo, Cpu
    <3>. QED  BY <1>0, <2>1, <2>2, <3>1 DEF SinFines, En
  <2>. QED  BY <2>4, <2>5, <2>6, <2>7
<1>5. ASSUME CpuAcceder
      PROVE  /\ kernel'.en = "libre" /\ SinFines' /\ LimpiasOK' /\ cpu'.en = "libre"
  BY <1>0, <1>5, LimpiasAcceder DEF CpuAcceder, SinFines, Reposo
<1>6. ASSUME Kernel(Procesos)
      PROVE  /\ kernel'.en = "libre" /\ SinFines' /\ LimpiasOK'
             /\ cpu' = cpu /\ swap' = swap /\ archivo' = archivo
  <2>1. PICK q \in Procesos : KInicializar(q)
    BY <1>0, <1>6 DEF Kernel, KSuspender, KFinalizar, KernelHilo, KListar, KBajar, KSoltar, KBits,
                      KLiberar, KBorrar, KLimpiar
  <2>2. PICK b : tabla' = [tabla EXCEPT ![q] = TablaNueva(b)]
    BY <2>1 DEF KInicializar
  <2>3. \A h \in Paginas : ~ TablaNueva(b)[h].p
    BY DEF TablaNueva
  <2>4. LimpiasOK'
    <3>. SUFFICES ASSUME NEW r \in Procesos, NEW h \in Paginas,
                         tabla'[r][h].p, ~ tabla'[r][h].m, ~ Trayendose(r, h)'
                  PROVE  usuario'[tabla'[r][h].marco] = swap'[r][h]
      BY DEF LimpiasOK
    <3>1. CASE r = q
      BY <1>0, <2>2, <2>3, <3>1 DEF TypeOK
    <3>2. CASE r # q
      <4>1. tabla'[r] = tabla[r]
        BY <1>0, <2>2, <3>2 DEF TypeOK
      <4>. QED  BY <1>0, <2>1, <4>1 DEF KInicializar, LimpiasOK, Trayendose, En
    <3>. QED  BY <3>1, <3>2
  <2>. QED  BY <1>0, <2>1, <2>4 DEF KInicializar, SinFines, TypeOK
<1>. QED  BY <1>0, <1>1, <1>2, <1>3, <1>4, <1>5, <1>6 DEF Next, CpuHilo, En

LEMMA DatosInicio == Init => DatosOK
BY DEF Init, DatosOK, Descanso, Reposo, SinFines, LimpiasOK, TablaNueva, En

LEMMA DatosSiempre == Spec => []DatosOK
<1>1. InvM /\ DatosOK /\ [Next]_vars => DatosOK'
  BY DatosPaso
<1>. QED  BY <1>1, DatosInicio, InvMSiempre, PTL DEF Spec

LEMMA LecturaDeInv ==
    ASSUME InvM, DatosOK, Pedidos = {}
    PROVE  LecturaFiel
<1>. SUFFICES ASSUME En({"acceder"})
              PROVE  /\ Pedida.p /\ Pedida.marco = cpu.marco
                     /\ usuario[cpu.marco] = Contenido(cpu.p, cpu.g)
  BY DEF LecturaFiel, En
<1>1. Pedida.p /\ Pedida.marco = cpu.marco
  BY DEF InvM, RespuestaOK
<1>2. cpu.p \in Procesos /\ cpu.g \in Paginas
  BY PedidaTipo DEF InvM, En
<1>3. ~ Pedida.m => usuario[cpu.marco] = swap[cpu.p][cpu.g]
  BY <1>1, <1>2 DEF DatosOK, LimpiasOK, Trayendose, En, Pedida
<1>. QED  BY <1>1, <1>3 DEF Contenido, Pedida

\* While the kernel suspends and ends nobody, the frame that devolver_marco answers
\* holds what the page that was asked for holds: a page that was not modified can be
\* taken out without writing it.
THEOREM LecturaSiempre ==
    ASSUME Pedidos = {}
    PROVE  Spec => []LecturaFiel
<1>1. InvM /\ DatosOK => LecturaFiel
  BY LecturaDeInv
<1>. QED  BY <1>1, InvMSiempre, DatosSiempre, PTL

-----------------------------------------------------------------------------
(* The module implements the memory without frames of MemoriaVirtual.      *)

\* devolver_marco works for one request.
LEMMA PedidoQuieto ==
    ASSUME TypeOK, CpuMarco
    PROVE  /\ cpu.en # "libre" /\ cpu'.en # "libre"
           /\ cpu'.p = cpu.p /\ cpu'.g = cpu.g /\ cpu'.w = cpu.w
<1>1. cpu \in CpuTipo
  BY DEF TypeOK
<1>2. CASE CpuReemplazar
  <2>1. PICK v, t : Sacar(v, t)
    BY <1>2 DEF CpuReemplazar
  <2>2. PICK l, m, d :
          /\ l = IF tabla[cpu.p][v].m THEN "escribir" ELSE "asignar"
          /\ m = tabla[cpu.p][v].marco
          /\ d = IF tabla[cpu.p][v].m THEN v ELSE Nada
    OBVIOUS
  <2>3. cpu' = [cpu EXCEPT !.en = l, !.marco = m, !.dato = d]
    BY <2>1, <2>2 DEF Sacar
  <2>. QED  BY <1>1, <1>2, <2>2, <2>3 DEF CpuTipo, CpuReemplazar
<1>3. CASE ~ CpuReemplazar
  BY <1>1, <1>3 DEF CpuMarco, CpuPresente, CpuFalla, CpuSinContador, CpuSinMarco, CpuOcupar,
                    CpuEscribir, CpuAsignar, CpuTraer, CpuCargar, CpuTipo, Cpu
<1>. QED  BY <1>2, <1>3

LEMMA VirtualInicio == Init => Virtual!Init
<1>. SUFFICES ASSUME Init
              PROVE  Virtual!Init
  OBVIOUS
<1>1. ASSUME NEW q \in Procesos, NEW g \in Paginas
      PROVE  Contenido(q, g) = 0
  BY DEF Init, Contenido, TablaNueva
<1>2. cpu = Reposo /\ cpu.en = "libre" /\ cpu.dato = Nada
  BY DEF Init, Reposo
<1>. QED  BY <1>1, <1>2 DEF Virtual!Init, Pedido

LEMMA VirtualPaso ==
    ASSUME Pedidos = {}, InvM, DatosOK, [Next]_vars
    PROVE  [Virtual!Next]_(Virtual!vars)
<1>0. /\ TypeOK /\ HilosOK /\ SinFines /\ kernel.en = "libre"
      /\ En({"escribir", "traer"}) => archivo = cpu.p
  BY DEF InvM, DatosOK
<1>1. ~ OtroArchivo
  BY <1>0 DEF OtroArchivo, En
<1>2. ASSUME ContenidoIgual
      PROVE  [q \in Procesos |-> [g \in Paginas |-> Contenido(q, g)]]'
               = [q \in Procesos |-> [g \in Paginas |-> Contenido(q, g)]]
  BY <1>2 DEF ContenidoIgual
<1>3. ASSUME UNCHANGED <<tabla, usuario, swap>>
      PROVE  ContenidoIgual
  BY <1>3 DEF ContenidoIgual, Contenido
<1>4. CASE UNCHANGED vars
  <2>1. ContenidoIgual /\ cpu' = cpu
    BY <1>3, <1>4 DEF vars
  <2>. QED  BY <1>2, <2>1 DEF Virtual!vars, Pedido
<1>5. ASSUME NEW q \in Procesos, Despachar(q)
      PROVE  UNCHANGED Virtual!vars
  <2>1. ContenidoIgual /\ cpu' = cpu
    BY <1>3, <1>5 DEF Despachar
  <2>. QED  BY <1>2, <2>1 DEF Virtual!vars, Pedido
<1>6. ASSUME Kernel(Procesos)
      PROVE  UNCHANGED Virtual!vars
  <2>1. ContenidoIgual
    BY <1>0, <1>1, <1>6, ContenidoKernel
  <2>2. cpu' = cpu
    <3>1. ~ KernelHilo
      BY <1>0 DEF KernelHilo, KListar, KBajar, KSoltar, KBits, KLiberar,
                    KBorrar, KLimpiar
    <3>. QED  BY <1>6, <3>1 DEF Kernel, KInicializar, KSuspender, KFinalizar
  <2>. QED  BY <1>2, <2>1, <2>2 DEF Virtual!vars, Pedido
<1>7. ASSUME CpuMarco
      PROVE  UNCHANGED Virtual!vars
  <2>1. ContenidoIgual
    BY <1>0, <1>1, <1>7, ContenidoMarco
  <2>. QED  BY <1>0, <1>2, <1>7, <2>1, PedidoQuieto DEF Virtual!vars, Pedido
<1>8. ASSUME NEW q \in Procesos, NEW g \in Paginas, NEW w \in Escritos \cup {Nada},
             CpuPedir(q, g, w)
      PROVE  Virtual!Pedir
  <2>1. ContenidoIgual
    BY <1>3, <1>8 DEF CpuPedir
  <2>2. cpu.en = "libre" /\ cpu' = [Reposo EXCEPT !.en = "pedir", !.p = q, !.g = g, !.w = w]
    BY <1>8 DEF CpuPedir
  <2>3. cpu'.en = "pedir" /\ cpu'.p = q /\ cpu'.g = g /\ cpu'.w = w
    BY <2>2 DEF Reposo
  <2>4. Pedido = Nada /\ Pedido' = [p |-> q, g |-> g, w |-> w]
    BY <2>2, <2>3 DEF Pedido
  <2>. QED  BY <1>2, <2>1, <2>3, <2>4 DEF Virtual!Pedir, Virtual!Accesos
<1>9. ASSUME CpuAcceder
      PROVE  Virtual!Leer \/ Virtual!Escribir
  <2>1. PICK q, g, f, w : q = cpu.p /\ g = cpu.g /\ f = cpu.marco /\ w = cpu.w
    OBVIOUS
  <2>2. q \in Procesos /\ g \in Paginas /\ w \in Valores \cup {Nada}
    BY <1>0, <1>9, <2>1, AccederEfecto DEF InvM
  <2>3. Pedido = [p |-> q, g |-> g, w |-> w] /\ Pedido # Nada
    BY <1>9, <2>1, <2>2, NadaAssumption DEF Pedido, CpuAcceder
  <2>4. cpu.en = "acceder" /\ cpu' = [Reposo EXCEPT !.dato = IF w = Nada THEN usuario[f] ELSE Nada]
    BY <1>9, <2>1 DEF CpuAcceder
  <2>5. cpu'.en = "libre" /\ cpu'.dato = IF w = Nada THEN usuario[f] ELSE Nada
    BY <2>4 DEF Reposo
  <2>6. Pedido' = Nada
    BY <2>5 DEF Pedido
  <2>7. \A r \in Procesos, h \in Paginas :
          Contenido(r, h)' = IF r = q /\ h = g /\ w # Nada THEN w ELSE Contenido(r, h)
    BY <1>0, <1>9, <2>1, ContenidoAcceder DEF InvM
  <2>8. CASE w = Nada
    <3>1. ContenidoIgual
      BY <2>7, <2>8 DEF ContenidoIgual
    <3>2. usuario[f] = Contenido(q, g)
      BY <2>1, <2>4, LecturaDeInv DEF LecturaFiel
    <3>. QED  BY <1>2, <2>2, <2>3, <2>5, <2>6, <2>8, <3>1, <3>2 DEF Virtual!Leer
  <2>9. CASE w # Nada
    <3>1. [r \in Procesos |-> [h \in Paginas |-> Contenido(r, h)]]'
            = [[r \in Procesos |-> [h \in Paginas |-> Contenido(r, h)]] EXCEPT ![q][g] = w]
      BY <2>2, <2>7, <2>9
    <3>. QED  BY <2>3, <2>5, <2>6, <2>9, <3>1 DEF Virtual!Escribir
  <2>. QED  BY <2>8, <2>9
<1>. QED  BY <1>4, <1>5, <1>6, <1>7, <1>8, <1>9 DEF Next, CpuHilo, Virtual!Next

\* While the kernel suspends and ends nobody, page faults, replacements, frames, bits
\* and swap files are invisible to the programs: each page holds what was last written
\* in it, and a READ answers that.  (That every request is answered is left to TLC.)
THEOREM VirtualImplementada ==
    ASSUME Pedidos = {}
    PROVE  Spec => Virtual!Init /\ [][Virtual!Next]_(Virtual!vars)
<1>1. InvM /\ DatosOK /\ [Next]_vars => [Virtual!Next]_(Virtual!vars)
  BY VirtualPaso
<1>. QED  BY <1>1, VirtualInicio, InvMSiempre, DatosSiempre, PTL DEF Spec
=============================================================================
