-------------------------- MODULE TraduccionProofs --------------------------
(***************************************************************************)
(* The MMU and the TLB over the memory module, for every number of         *)
(* processes, pages, frames and entries, any program and any requests of   *)
(* the kernel.                                                             *)
(***************************************************************************)
EXTENDS MemoriaProofs

-----------------------------------------------------------------------------
(* What the module does under the CPU.                                     *)

\* A page comes to memory, and a frame is marked, only when the CPU asked for them;
\* the page that comes is on its way before or after the step.
EfectoMarcas ==
    /\ \A r \in Procesos, h \in Paginas : tabla'[r][h].p =>
         \/ tabla[r][h].p /\ tabla'[r][h].marco = tabla[r][h].marco
         \/ /\ cpu.en # "libre" /\ r = cpu.p /\ h = cpu.g
            /\ Trayendose(r, h) \/ Trayendose(r, h)'
    /\ \A f \in Marcos : \/ marcos'[f] \in {marcos[f], Nada}
                         \/ cpu.en # "libre" /\ marcos'[f] = cpu.p

LEMMA EfectoMarco ==
    ASSUME InvM, CpuMarco
    PROVE  EfectoMarcas
<1>0. TypeOK /\ HilosOK /\ MarcasOK /\ cpu.en # "libre"
      /\ tabla \in [Procesos -> [Paginas -> Entradas]]
      /\ marcos \in [Marcos -> Procesos \cup {Nada}]
  BY PedidoQuieto DEF InvM, TypeOK
<1>1. CASE CpuFalla \/ CpuSinContador \/ CpuSinMarco \/ CpuAsignar \/ CpuTraer
  <2>1. tabla' = tabla /\ marcos' = marcos
    BY <1>1 DEF CpuFalla, CpuSinContador, CpuSinMarco, CpuAsignar, CpuTraer
  <2>. QED  BY <2>1 DEF EfectoMarcas
<1>2. PICK q \in Procesos, g \in Paginas, x \in Entradas : q = cpu.p /\ g = cpu.g /\ x = Pedida
  BY <1>0, PedidaTipo
<1>3. CASE CpuPresente
  <2>1. PICK e \in Entradas : e = [x EXCEPT !.u = TRUE]
    BY DEF Entradas
  <2>2. tabla' = Con(q, g, e) /\ marcos' = marcos
    BY <1>2, <1>3, <2>1 DEF CpuPresente
  <2>3. \A r \in Procesos, h \in Paginas : r # q \/ h # g => tabla'[r][h] = tabla[r][h]
    BY <1>0, <2>2, ConEfecto
  <2>4. tabla'[q][g] = e /\ tabla[q][g].p /\ e.marco = tabla[q][g].marco
    <3>1. x = tabla[q][g] /\ x.p
      BY <1>2, <1>3 DEF CpuPresente, Pedida
    <3>2. e.marco = x.marco
      BY <2>1 DEF Entradas
    <3>3. tabla'[q][g] = e
      BY <1>0, <2>2, ConEfecto
    <3>. QED  BY <3>1, <3>2, <3>3
  <2>5. \A r \in Procesos, h \in Paginas : tabla'[r][h].p =>
          tabla[r][h].p /\ tabla'[r][h].marco = tabla[r][h].marco
    BY <2>3, <2>4
  <2>. QED  BY <2>2, <2>5 DEF EfectoMarcas
<1>4. CASE CpuOcupar
  <2>1. PICK f \in Marcos : f = Menor(Libres)
    BY <1>4, MarcosAssumption, MenorNat DEF CpuOcupar, Libres
  <2>2. PICK e \in Entradas : e = [x EXCEPT !.p = TRUE, !.marco = f]
    BY DEF Entradas
  <2>3. tabla' = Con(q, g, e) /\ marcos' = [marcos EXCEPT ![f] = q]
    BY <1>2, <1>4, <2>1, <2>2 DEF CpuOcupar
  <2>4. \A r \in Procesos, h \in Paginas : r # q \/ h # g => tabla'[r][h] = tabla[r][h]
    BY <1>0, <2>3, ConEfecto
  <2>5. \A k \in Marcos : marcos'[k] = marcos[k] \/ marcos'[k] = q
    BY <1>0, <2>3
  <2>6. Trayendose(q, g)'
    <3>1. cpu'.en = "asignar" /\ cpu'.p = cpu.p /\ cpu'.g = cpu.g
      BY <1>0, <1>4 DEF CpuOcupar, TypeOK, CpuTipo
    <3>. QED  BY <1>2, <3>1 DEF Trayendose
  <2>. QED  BY <1>0, <1>2, <2>4, <2>5, <2>6 DEF EfectoMarcas
<1>5. CASE CpuReemplazar
  <2>1. PICK w, t : w \in Presentes(cpu.p) /\ MismasMarcas(t, cpu.p) /\ Sacar(w, t)
    BY <1>0, <1>5, ReemplazarEfecto
  <2>2. /\ t \in [Paginas -> Entradas] /\ w \in Paginas /\ marcos' = marcos
        /\ \A k \in Paginas : t[k].p = tabla[q][k].p /\ t[k].marco = tabla[q][k].marco
        /\ tabla' = [tabla EXCEPT ![q] = IF tabla[q][w].m THEN t ELSE [t EXCEPT ![w] = Fuera(@)]]
    BY <1>2, <1>5, <2>1 DEF MismasMarcas, Sacar, Presentes, CpuReemplazar
  <2>3. PICK y \in Entradas : y = t[w]
    BY <2>2
  <2>4. ~ Fuera(y).p
    BY DEF Fuera, Entradas
  <2>5. ASSUME NEW h \in Paginas
        PROVE  tabla'[q][h] = t[h] \/ ~ tabla'[q][h].p
    <3>1. CASE tabla[q][w].m
      BY <1>0, <2>2, <3>1
    <3>2. CASE ~ tabla[q][w].m
      <4>1. tabla'[q] = [t EXCEPT ![w] = Fuera(@)]
        BY <1>0, <2>2, <3>2
      <4>2. h = w => tabla'[q][h] = Fuera(y)
        BY <2>2, <2>3, <4>1
      <4>3. h # w => tabla'[q][h] = t[h]
        BY <2>2, <4>1
      <4>. QED  BY <2>4, <4>2, <4>3
    <3>. QED  BY <3>1, <3>2
  <2>6. \A r \in Procesos : r # q => tabla'[r] = tabla[r]
    BY <1>0, <2>2
  <2>. QED  BY <2>2, <2>5, <2>6 DEF EfectoMarcas
<1>6. CASE CpuEscribir
  <2>1. PICK w \in Paginas : w = cpu.dato
    BY <1>0, <1>6 DEF CpuEscribir, MarcasOK, En, Presentes
  <2>2. PICK y \in Entradas : y = tabla[q][w]
    BY <1>0
  <2>3. Fuera(y) \in Entradas /\ ~ Fuera(y).p
    BY DEF Fuera, Entradas
  <2>4. tabla' = Con(q, w, Fuera(y)) /\ marcos' = marcos
    BY <1>2, <1>6, <2>1, <2>2 DEF CpuEscribir
  <2>5. tabla'[q][w] = Fuera(y)
        /\ \A r \in Procesos, h \in Paginas : r # q \/ h # w => tabla'[r][h] = tabla[r][h]
    BY <1>0, <2>3, <2>4, ConEfecto
  <2>. QED  BY <2>3, <2>4, <2>5 DEF EfectoMarcas
<1>7. CASE CpuCargar
  <2>1. PICK f \in Marcos : f = cpu.marco
    BY <1>0, <1>7 DEF CpuCargar, HilosOK, En
  <2>2. PICK e \in Entradas : e = [x EXCEPT !.p = TRUE, !.marco = f]
    BY DEF Entradas
  <2>3. tabla' = Con(q, g, e) /\ marcos' = marcos
    BY <1>2, <1>7, <2>1, <2>2 DEF CpuCargar
  <2>4. \A r \in Procesos, h \in Paginas : r # q \/ h # g => tabla'[r][h] = tabla[r][h]
    BY <1>0, <2>3, ConEfecto
  <2>5. Trayendose(q, g)
    BY <1>2, <1>7 DEF CpuCargar, Trayendose
  <2>. QED  BY <1>0, <1>2, <2>3, <2>4, <2>5 DEF EfectoMarcas
<1>. QED  BY <1>1, <1>3, <1>4, <1>5, <1>6, <1>7 DEF CpuMarco

LEMMA EfectoKernel ==
    ASSUME InvM, NEW S \in SUBSET Procesos, Kernel(S)
    PROVE  EfectoMarcas
<1>0. TypeOK /\ HilosOK /\ RestoOK /\ tabla \in [Procesos -> [Paginas -> Entradas]]
      /\ marcos \in [Marcos -> Procesos \cup {Nada}]
  BY DEF InvM, TypeOK
<1>1. ASSUME NEW q \in Procesos, KInicializar(q)
      PROVE  EfectoMarcas
  <2>1. PICK b : tabla' = [tabla EXCEPT ![q] = TablaNueva(b)]
    BY <1>1 DEF KInicializar
  <2>2. marcos' = marcos
    BY <1>1 DEF KInicializar
  <2>3. \A h \in Paginas : ~ TablaNueva(b)[h].p
    BY DEF TablaNueva
  <2>4. tabla'[q] = TablaNueva(b) /\ \A r \in Procesos : r # q => tabla'[r] = tabla[r]
    BY <1>0, <2>1
  <2>. QED  BY <2>2, <2>3, <2>4 DEF EfectoMarcas
<1>2. ASSUME NEW q \in Procesos, KFinalizar(q)
      PROVE  EfectoMarcas
  <2>1. tabla' = tabla /\ marcos' = marcos
    BY <1>2 DEF KFinalizar
  <2>. QED  BY <2>1 DEF EfectoMarcas
<1>3. ASSUME (\E q \in Procesos : KSuspender(q)) \/ KListar \/ KBorrar \/ KLimpiar
      PROVE  EfectoMarcas
  <2>1. tabla' = tabla /\ marcos' = marcos
    BY <1>3 DEF KSuspender, KListar, KBorrar, KLimpiar
  <2>. QED  BY <2>1 DEF EfectoMarcas
<1>4. CASE KSoltar
  <2>1. PICK f : f = tabla[kernel.p][Head(kernel.resto)].marco
    OBVIOUS
  <2>2. tabla' = tabla /\ marcos' = [marcos EXCEPT ![f] = Nada]
    BY <1>4, <2>1 DEF KSoltar
  <2>3. \A k \in Marcos : marcos'[k] = marcos[k] \/ marcos'[k] = Nada
    BY <1>0, <2>2
  <2>. QED  BY <2>2, <2>3 DEF EfectoMarcas
<1>6. CASE KLiberar
  <2>1. PICK f : f = Menor(kernel.marcos)
    OBVIOUS
  <2>2. tabla' = tabla /\ marcos' = [marcos EXCEPT ![f] = Nada]
    BY <1>6, <2>1 DEF KLiberar
  <2>3. \A k \in Marcos : marcos'[k] = marcos[k] \/ marcos'[k] = Nada
    BY <1>0, <2>2
  <2>. QED  BY <2>2, <2>3 DEF EfectoMarcas
<1>5. CASE KBajar \/ KBits
  <2>1. PICK q \in Procesos, g \in Paginas : q = kernel.p /\ g = Head(kernel.resto)
    BY <1>0, <1>5, CabezaTipo DEF KBajar, KBits, KEn
  <2>2. PICK x \in Entradas : x = tabla[q][g]
    BY <1>0
  <2>3. PICK e \in Entradas : /\ tabla' = Con(q, g, e)
                              /\ e.p => x.p /\ e.marco = x.marco
    <3>1. CASE KBajar
      <4>1. PICK e \in Entradas : e = [x EXCEPT !.m = FALSE]
        BY DEF Entradas
      <4>2. e.p = x.p /\ e.marco = x.marco
        BY <4>1 DEF Entradas
      <4>3. tabla' = Con(q, g, e)
        BY <2>1, <2>2, <3>1, <4>1 DEF KBajar
      <4>. QED  BY <4>2, <4>3
    <3>2. CASE KBits
      <4>1. PICK y \in Entradas : y = Fuera(x) /\ ~ y.p
        <5>1. Fuera(x) \in Entradas /\ ~ Fuera(x).p
          BY DEF Fuera, Entradas
        <5>. QED  BY <5>1
      <4>2. PICK e \in Entradas : e = [y EXCEPT !.u = FALSE]
        BY DEF Entradas
      <4>3. ~ e.p
        BY <4>1, <4>2 DEF Entradas
      <4>4. tabla' = Con(q, g, e)
        BY <2>1, <2>2, <3>2, <4>1, <4>2 DEF KBits
      <4>. QED  BY <4>3, <4>4
    <3>. QED  BY <1>5, <3>1, <3>2
  <2>4. tabla'[q][g] = e
        /\ \A r \in Procesos, h \in Paginas : r # q \/ h # g => tabla'[r][h] = tabla[r][h]
    BY <1>0, <2>3, ConEfecto
  <2>5. marcos' = marcos
    BY <1>5 DEF KBajar, KBits
  <2>. QED  BY <2>2, <2>3, <2>4, <2>5 DEF EfectoMarcas
<1>. QED  BY <1>1, <1>2, <1>3, <1>4, <1>5, <1>6 DEF Kernel, KernelHilo

-----------------------------------------------------------------------------
(* The list of the TLB and the instruction.                                *)

TlbTipo == [pagina : Paginas, marco : Marcos]
InstrTipo == [op : {"ninguna", "READ", "WRITE", "COPY"}, paginas : Seq(Paginas),
              hechas : Seq(Paginas), marcos : Seq(Marcos), w : Valores \cup {Nada}]

LEMMA AppendEfecto ==
    ASSUME NEW T, NEW s \in Seq(T), NEW e \in T
    PROVE  /\ Append(s, e) \in Seq(T) /\ Len(Append(s, e)) = Len(s) + 1
           /\ Append(s, e)[Len(s) + 1] = e
           /\ \A i \in 1..Len(s) : Append(s, e)[i] = s[i]
<1>1. Append(s, e) \in Seq(T)
  OBVIOUS
<1>2. Len(Append(s, e)) = Len(s) + 1 /\ Append(s, e)[Len(s) + 1] = e
  OBVIOUS
<1>3. \A i \in 1..Len(s) : Append(s, e)[i] = s[i]
  OBVIOUS
<1>. QED  BY <1>1, <1>2, <1>3

\* The entries of t are those of s in another order.
Reordenada(t, s, n) ==
    \E m \in [1..n -> 1..n] : /\ \A i, j \in 1..n : m[i] = m[j] => i = j
                              /\ \A i \in 1..n : t[i] = s[m[i]]

\* tlb_hit changes the order of the entries and nothing else.
LEMMA AciertoMueve ==
    ASSUME tlb \in Seq(TlbTipo), NEW n \in Nat, n = Len(tlb), NEW k \in DOMAIN tlb,
           tlb' = Append(SinLugar(tlb, k), tlb[k])
    PROVE  tlb' \in Seq(TlbTipo) /\ Len(tlb') = n /\ Reordenada(tlb', tlb, n)
<1>. PICK T, s, t : T = TlbTipo /\ s = tlb /\ t = tlb'
  OBVIOUS
<1>0. s \in Seq(T) /\ n = Len(s) /\ k \in DOMAIN s /\ t = Append(SinLugar(s, k), s[k])
  OBVIOUS
<1>1. n \in Nat /\ n = Len(s) /\ DOMAIN s = 1..n
  BY <1>0, LenProperties
<1>2. k \in 1..n /\ n # 0 /\ s[k] \in T /\ \A i \in 1..n : s[i] \in T
  BY <1>0, <1>1, ElementOfSeq
<1>3. PICK r : r = SinLugar(s, k)
  OBVIOUS
<1>4. r = [i \in 1..(n - 1) |-> IF i < k THEN s[i] ELSE s[i + 1]]
  BY <1>1, <1>3 DEF SinLugar
<1>5. r \in [1..(n - 1) -> T]
  BY <1>1, <1>2, <1>4
<1>6. r \in Seq(T) /\ Len(r) = n - 1
  <2>0. n - 1 \in Nat
    BY <1>2
  <2>1. PICK o \in Nat : o = n - 1
    BY <2>0
  <2>2. r \in [1..o -> T]
    BY <1>5, <2>1
  <2>3. r \in Seq(T) /\ Len(r) = o
    BY <2>2
  <2>. QED  BY <2>1, <2>3
<1>7. t \in Seq(T) /\ Len(t) = n /\ t[n] = s[k] /\ \A i \in 1..(n - 1) : t[i] = r[i]
  <2>1. t = Append(r, s[k])
    BY <1>0, <1>3
  <2>2. /\ t \in Seq(T) /\ Len(t) = Len(r) + 1 /\ t[Len(r) + 1] = s[k]
        /\ \A i \in 1..Len(r) : t[i] = r[i]
    BY <1>2, <1>6, <2>1, AppendEfecto
  <2>3. Len(r) + 1 = n /\ 1..Len(r) = 1..(n - 1)
    BY <1>1, <1>6
  <2>. QED  BY <2>2, <2>3
<1>. DEFINE m == [i \in 1..n |-> IF i = n THEN k ELSE IF i < k THEN i ELSE i + 1]
<1>8. m \in [1..n -> 1..n]
  BY <1>1, <1>2
<1>9. \A i, j \in 1..n : m[i] = m[j] => i = j
  BY <1>1, <1>2
<1>10. ASSUME NEW i \in 1..n
       PROVE  t[i] = s[m[i]]
  <2>1. CASE i = n
    BY <1>7, <2>1
  <2>2. CASE i # n
    <3>1. i \in 1..(n - 1)
      BY <1>1, <2>2
    <3>2. t[i] = IF i < k THEN s[i] ELSE s[i + 1]
      BY <1>4, <1>7, <3>1
    <3>. QED  BY <2>2, <3>2
  <2>. QED  BY <2>1, <2>2
<1>. HIDE DEF m
<1>11. \E o \in [1..n -> 1..n] : /\ \A i, j \in 1..n : o[i] = o[j] => i = j
                                /\ \A i \in 1..n : t[i] = s[o[i]]
  BY <1>8, <1>9, <1>10
<1>. QED  BY <1>1, <1>7, <1>11 DEF Reordenada

\* tlb_miss appends an entry, and drops the first when the TLB is full.
LEMMA AgregadaMueve ==
    ASSUME tlb \in Seq(TlbTipo), Len(tlb) <= EntradasTlb, NEW e \in TlbTipo, tlb' = Agregada(e)
    PROVE  /\ tlb' \in Seq(TlbTipo) /\ Len(tlb') \in 1..EntradasTlb /\ tlb'[Len(tlb')] = e
           /\ \E d \in {0, 1} : \A i \in 1..(Len(tlb') - 1) :
                i + d \in DOMAIN tlb /\ tlb'[i] = tlb[i + d]
<1>. PICK T, t : T = TlbTipo /\ t = tlb'
  OBVIOUS
<1>0. tlb \in Seq(T) /\ e \in T /\ t = Agregada(e)
  OBVIOUS
<1>1. PICK n \in Nat : n = Len(tlb) /\ DOMAIN tlb = 1..n
  BY <1>0, LenProperties
<1>2. EntradasTlb \in Nat \ {0}
  BY EntradasTlbAssumption
<1>3. CASE n < EntradasTlb
  <2>1. t = Append(tlb, e)
    BY <1>0, <1>1, <1>3 DEF Agregada
  <2>2. t \in Seq(T) /\ Len(t) = n + 1 /\ t[n + 1] = e /\ \A i \in 1..n : t[i] = tlb[i]
    BY <1>0, <1>1, <2>1, AppendEfecto
  <2>3. \A i \in 1..(Len(t) - 1) : i + 0 \in DOMAIN tlb /\ t[i] = tlb[i + 0]
    BY <1>1, <2>2
  <2>. QED  BY <1>1, <1>2, <1>3, <2>2, <2>3
<1>4. CASE n = EntradasTlb
  <2>1. tlb # <<>>
    BY <1>1, <1>2, <1>4
  <2>2. PICK s \in Seq(T) : s = Tail(tlb)
    BY <1>0, <2>1, HeadTailProperties
  <2>3. Len(s) = n - 1 /\ \A i \in 1..(n - 1) : s[i] = tlb[i + 1]
    BY <1>0, <1>1, <2>1, <2>2, HeadTailProperties
  <2>4. t = Append(s, e)
    BY <1>0, <1>1, <1>4, <2>2 DEF Agregada
  <2>5. t \in Seq(T) /\ Len(t) = n /\ t[n] = e /\ \A i \in 1..(n - 1) : t[i] = s[i]
    <3>1. /\ t \in Seq(T) /\ Len(t) = Len(s) + 1 /\ t[Len(s) + 1] = e
          /\ \A i \in 1..Len(s) : t[i] = s[i]
      BY <1>0, <2>4, AppendEfecto
    <3>. QED  BY <1>1, <2>3, <3>1
  <2>6. \A i \in 1..(Len(t) - 1) : i + 1 \in DOMAIN tlb /\ t[i] = tlb[i + 1]
    BY <1>1, <2>3, <2>5
  <2>. QED  BY <1>1, <1>2, <1>4, <2>5, <2>6
<1>. QED  BY <1>1, <1>2, <1>3, <1>4

\* An instruction that still has a page to translate.
Ejecutable(i) ==
    /\ i \in InstrTipo /\ i.op # "ninguna" /\ i.paginas # <<>>
    /\ Len(i.hechas) = Len(i.marcos)
    /\ i.op \in {"READ", "WRITE"} => Len(i.paginas) + Len(i.hechas) = 1
    /\ i.op = "COPY" => Len(i.paginas) + Len(i.hechas) = 2
    /\ SinFines => \A k \in DOMAIN i.marcos : marcos[i.marcos[k]] \in {pid, Nada}

LEMMA InstruccionEjecutable ==
    ASSUME NEW i \in Instrucciones
    PROVE  Ejecutable(i)
<1>0. <<>> \in Seq(Paginas) /\ <<>> \in Seq(Marcos) /\ \A g \in Paginas : <<g>> \in Seq(Paginas)
  OBVIOUS
<1>1. ASSUME NEW g \in Paginas, i = Read(g)
      PROVE  Ejecutable(i)
  <2>1. i = [op |-> "READ", paginas |-> <<g>>, marcos |-> <<>>, hechas |-> <<>>, w |-> Nada]
    BY <1>1 DEF Read, Ninguna
  <2>. QED  BY <1>0, <2>1 DEF Ejecutable, InstrTipo
<1>2. ASSUME NEW g \in Paginas, NEW w \in Escritos \cup {Nada}, i = Write(g, w)
      PROVE  Ejecutable(i)
  <2>1. i = [op |-> "WRITE", paginas |-> <<g>>, marcos |-> <<>>, hechas |-> <<>>, w |-> w]
    BY <1>2 DEF Write, Ninguna
  <2>. QED  BY <1>0, <2>1, ValoresAssumption DEF Ejecutable, InstrTipo
<1>3. ASSUME NEW d \in Paginas, NEW o \in Paginas, i = Copy(d, o)
      PROVE  Ejecutable(i)
  <2>1. i = [op |-> "COPY", paginas |-> <<d, o>>, marcos |-> <<>>, hechas |-> <<>>, w |-> Nada]
    BY <1>3 DEF Copy, Ninguna
  <2>2. <<d, o>> \in Seq(Paginas)
    OBVIOUS
  <2>. QED  BY <1>0, <2>1, <2>2 DEF Ejecutable, InstrTipo
<1>. QED  BY <1>1, <1>2, <1>3 DEF Instrucciones

\* What is left of the instruction after a translation.
LEMMA TraducidaEfecto ==
    ASSUME NEW i \in InstrTipo, i.paginas # <<>>, NEW f \in Marcos
    PROVE  /\ Traducida(i, f) \in InstrTipo
           /\ Traducida(i, f).op = i.op /\ Traducida(i, f).w = i.w
           /\ Traducida(i, f).paginas = Tail(i.paginas)
           /\ Traducida(i, f).hechas = Append(i.hechas, Head(i.paginas))
           /\ Traducida(i, f).marcos = Append(i.marcos, f)
           /\ Len(Traducida(i, f).paginas) = Len(i.paginas) - 1
           /\ Len(Traducida(i, f).hechas) = Len(i.hechas) + 1
           /\ Len(Traducida(i, f).marcos) = Len(i.marcos) + 1
<1>1. i.paginas \in Seq(Paginas) /\ i.hechas \in Seq(Paginas) /\ i.marcos \in Seq(Marcos)
  BY DEF InstrTipo
<1>2. PICK a \in Seq(Paginas), b \in Seq(Paginas), c \in Seq(Marcos) :
        /\ a = Tail(i.paginas) /\ Len(a) = Len(i.paginas) - 1
        /\ b = Append(i.hechas, Head(i.paginas)) /\ Len(b) = Len(i.hechas) + 1
        /\ c = Append(i.marcos, f) /\ Len(c) = Len(i.marcos) + 1
  <2>1. Tail(i.paginas) \in Seq(Paginas) /\ Len(Tail(i.paginas)) = Len(i.paginas) - 1
        /\ Head(i.paginas) \in Paginas
    BY <1>1, HeadTailProperties
  <2>2. /\ Append(i.hechas, Head(i.paginas)) \in Seq(Paginas)
        /\ Len(Append(i.hechas, Head(i.paginas))) = Len(i.hechas) + 1
    BY <1>1, <2>1
  <2>3. Append(i.marcos, f) \in Seq(Marcos) /\ Len(Append(i.marcos, f)) = Len(i.marcos) + 1
    BY <1>1
  <2>. QED  BY <2>1, <2>2, <2>3
<1>3. Traducida(i, f) = [i EXCEPT !.paginas = a, !.hechas = b, !.marcos = c]
  BY <1>2 DEF Traducida, InstrTipo
<1>4. PICK t \in InstrTipo : t = [i EXCEPT !.paginas = a, !.hechas = b, !.marcos = c]
  BY DEF InstrTipo
<1>5. t.op = i.op /\ t.w = i.w /\ t.paginas = a /\ t.hechas = b /\ t.marcos = c
  BY <1>4 DEF InstrTipo
<1>. QED  BY <1>2, <1>3, <1>4, <1>5

LEMMA NingunaTipo ==
    /\ Ninguna \in InstrTipo /\ Ninguna.op = "ninguna" /\ Ninguna.paginas = <<>>
    /\ Ninguna.hechas = <<>> /\ Ninguna.marcos = <<>>
<1>1. <<>> \in Seq(Paginas) /\ <<>> \in Seq(Marcos)
  OBVIOUS
<1>. QED  BY <1>1 DEF Ninguna, InstrTipo

-----------------------------------------------------------------------------
(* The steps of the CPU and of the module under it.                        *)

InvT == InvM /\ TypeOKTraduccion /\ TlbOK /\ MarcosTlbOK /\ TlbCoherente

\* Whose the TLB is, and what the instruction is when nothing is being executed.
LEMMA Sueltos ==
    ASSUME TypeOKTraduccion, TlbOK
    PROVE  /\ pid \in Procesos \cup {Nada} /\ ultimo \in Procesos \cup {Nada}
           /\ Dueno \in Procesos \cup {Nada}
           /\ pid # Nada => Dueno = pid /\ pid \in Procesos
           /\ pid = Nada => instr = Ninguna /\ Dueno = ultimo
           /\ instr = Ninguna => cpu.en = "libre" /\ instr.marcos = <<>>
           /\ DOMAIN tlb # {} => Dueno \in Procesos
           /\ tlb \in Seq(TlbTipo) /\ instr \in InstrTipo /\ Len(tlb) <= EntradasTlb
           /\ \A i \in DOMAIN tlb : tlb[i] \in TlbTipo
<1>1. /\ pid \in Procesos \cup {Nada} /\ ultimo \in Procesos \cup {Nada}
      /\ tlb \in Seq(TlbTipo) /\ instr \in InstrTipo /\ Len(tlb) <= EntradasTlb
  BY DEF TypeOKTraduccion, TlbTipo, InstrTipo
<1>2. \A i \in DOMAIN tlb : tlb[i] \in TlbTipo
  BY <1>1, LenProperties, ElementOfSeq
<1>3. DOMAIN tlb # {} => Dueno # Nada
  <2>1. DOMAIN <<>> = {}
    OBVIOUS
  <2>. QED  BY <2>1 DEF TlbOK
<1>. QED  BY <1>1, <1>2, <1>3, NingunaTipo DEF TlbOK, Dueno

\* What the module does not do while the CPU has a process.
LEMMA ModuloQuieto ==
    ASSUME InvM, TlbOK, TypeOKTraduccion, Modulo
    PROVE  /\ UNCHANGED <<pid, ultimo, tlb, instr>>
           /\ cpu'.en # "libre" => /\ cpu.en # "libre" /\ cpu'.p = cpu.p
                                   /\ cpu'.g = cpu.g /\ cpu'.w = cpu.w
           /\ SinFines' => SinFines
           /\ \A q \in Procesos : vida[q] # "fuera" => vida'[q] # "fuera"
           /\ pid # Nada => vida'[pid] = "activo" /\ kernel'.p # pid
<1>0. TypeOK /\ (pid # Nada => pid \in Procesos /\ vida[pid] = "activo" /\ kernel.p # pid)
      /\ vida \in [Procesos -> {"fuera", "listo", "activo", "fin"}]
  BY Sueltos DEF InvM, TlbOK, TypeOK
<1>1. UNCHANGED <<pid, ultimo, tlb, instr>>
  BY DEF Modulo, varsCpu
<1>2. CASE CpuMarco
  <2>1. UNCHANGED <<vida, kernel>>
    BY <1>2 DEF CpuMarco, CpuPresente, CpuFalla, CpuSinContador, CpuSinMarco, CpuOcupar,
                CpuReemplazar, CpuEscribir, CpuAsignar, CpuTraer, CpuCargar
  <2>. QED  BY <1>0, <1>1, <1>2, <2>1, PedidoQuieto DEF SinFines
<1>3. CASE Kernel(Procesos \ {pid})
  <2>1. ASSUME NEW q \in Procesos, KInicializar(q)
        PROVE  /\ cpu' = cpu /\ kernel' = kernel /\ vida[q] = "fuera"
               /\ vida' = [vida EXCEPT ![q] = "listo"]
    BY <2>1 DEF KInicializar
  <2>2. ASSUME NEW q \in Procesos \ {pid}, KSuspender(q)
        PROVE  /\ cpu' = cpu /\ kernel'.p = q /\ vida[q] = "activo"
               /\ vida' = [vida EXCEPT ![q] = "listo"]
    BY <2>2 DEF KSuspender, Descanso, Disponible
  <2>3. ASSUME NEW q \in Procesos \ {pid}, KFinalizar(q)
        PROVE  cpu' = cpu /\ kernel'.p = q /\ vida' = [vida EXCEPT ![q] = "fin"]
    BY <2>3 DEF KFinalizar, Descanso, Disponible
  <2>4. ASSUME KernelHilo
        PROVE  cpu' = cpu /\ vida' = vida /\ kernel'.p \in {kernel.p, Nada}
    <3>1. kernel \in KernelTipo
      BY <1>0 DEF TypeOK
    <3>2. CASE KListar
      BY <3>1, <3>2 DEF KListar, KernelTipo
    <3>3. CASE KBajar
      BY <3>1, <3>3 DEF KBajar, KernelTipo
    <3>4. CASE KSoltar
      BY <3>1, <3>4 DEF KSoltar, KernelTipo
    <3>5. CASE KBits
      BY <3>1, <3>5 DEF KBits, KernelTipo
    <3>6. CASE KBorrar
      BY <3>1, <3>6 DEF KBorrar, KernelTipo
    <3>7. CASE KLimpiar
      BY <3>7 DEF KLimpiar, Descanso
    <3>8. CASE KLiberar
      BY <3>1, <3>8 DEF KLiberar, KernelTipo
    <3>. QED  BY <2>4, <3>2, <3>3, <3>4, <3>5, <3>6, <3>7, <3>8 DEF KernelHilo
  <2>5. ASSUME NEW q \in Procesos, KInicializar(q)
        PROVE  /\ SinFines' => SinFines
               /\ \A r \in Procesos : vida[r] # "fuera" => vida'[r] # "fuera"
               /\ pid # Nada => vida'[pid] = "activo" /\ kernel'.p # pid
    BY <1>0, <2>1, <2>5 DEF SinFines
  <2>6. ASSUME NEW q \in Procesos \ {pid}, KSuspender(q)
        PROVE  /\ SinFines' => SinFines
               /\ \A r \in Procesos : vida[r] # "fuera" => vida'[r] # "fuera"
               /\ pid # Nada => vida'[pid] = "activo" /\ kernel'.p # pid
    BY <1>0, <2>2, <2>6 DEF SinFines
  <2>7. ASSUME NEW q \in Procesos \ {pid}, KFinalizar(q)
        PROVE  /\ SinFines' => SinFines
               /\ \A r \in Procesos : vida[r] # "fuera" => vida'[r] # "fuera"
               /\ pid # Nada => vida'[pid] = "activo" /\ kernel'.p # pid
    BY <1>0, <2>3, <2>7 DEF SinFines
  <2>8. ASSUME KernelHilo
        PROVE  /\ SinFines' => SinFines
               /\ \A r \in Procesos : vida[r] # "fuera" => vida'[r] # "fuera"
               /\ pid # Nada => vida'[pid] = "activo" /\ kernel'.p # pid
    BY <1>0, <2>4, <2>8, NadaAssumption DEF SinFines
  <2>. QED  BY <1>1, <1>3, <2>1, <2>2, <2>3, <2>4, <2>5, <2>6, <2>7, <2>8 DEF Kernel
<1>. QED  BY <1>2, <1>3 DEF Modulo

LEMMA PasoModulo == InvT /\ Modulo => InvT'
<1>. SUFFICES ASSUME InvT, Modulo
              PROVE  InvT'
  OBVIOUS
<1>0. InvM /\ TypeOKTraduccion /\ TlbOK /\ MarcosTlbOK /\ TlbCoherente
  BY DEF InvT
<1>1. InvM' /\ EfectoMarcas
  <2>1. Procesos \ {pid} \in SUBSET Procesos
    OBVIOUS
  <2>. QED  BY <1>0, <2>1, PasoMarco, PasoKernel, EfectoMarco, EfectoKernel DEF Modulo
<1>2. /\ UNCHANGED <<pid, ultimo, tlb, instr>>
      /\ cpu'.en # "libre" => /\ cpu.en # "libre" /\ cpu'.p = cpu.p
                              /\ cpu'.g = cpu.g /\ cpu'.w = cpu.w
      /\ SinFines' => SinFines
      /\ \A q \in Procesos : vida[q] # "fuera" => vida'[q] # "fuera"
      /\ pid # Nada => vida'[pid] = "activo" /\ kernel'.p # pid
  BY <1>0, ModuloQuieto
<1>3. TypeOKTraduccion'
  BY <1>0, <1>1, <1>2 DEF TypeOKTraduccion, InvM
<1>4. Dueno' = Dueno /\ Dueno \in Procesos \cup {Nada} /\ \A g : EnTlb(g)' = EnTlb(g)
  BY <1>0, <1>2, Sueltos DEF Dueno, EnTlb
<1>5. ultimo # Nada => ultimo \in Procesos
  BY <1>0, Sueltos
<1>6. TlbOK'
  BY <1>0, <1>2, <1>4, <1>5 DEF TlbOK
<1>7. cpu.en # "libre" => cpu.p = pid /\ pid # Nada /\ Dueno = pid
  <2>1. cpu.en # "libre" => instr # Ninguna
    BY <1>0, Sueltos
  <2>. QED  BY <1>0, <2>1, Sueltos DEF TlbOK
<1>8. \A f \in Marcos : marcos[f] \in {Dueno, Nada} => marcos'[f] \in {Dueno, Nada}
  BY <1>1, <1>7 DEF EfectoMarcas
<1>9. \A f \in Marcos : marcos[f] \in {pid, Nada} => marcos'[f] \in {pid, Nada}
  BY <1>1, <1>7 DEF EfectoMarcas
<1>10. MarcosTlbOK'
  <2>1. \A i \in DOMAIN tlb : tlb[i].marco \in Marcos
    BY <1>0, Sueltos DEF TlbTipo
  <2>2. \A i \in DOMAIN instr.marcos : instr.marcos[i] \in Marcos
    <3>1. instr.marcos \in Seq(Marcos)
      BY <1>0, Sueltos DEF InstrTipo
    <3>. QED  BY <3>1, LenProperties, ElementOfSeq
  <2>. QED  BY <1>0, <1>2, <1>4, <1>8, <1>9, <2>1, <2>2 DEF MarcosTlbOK, Aislamiento
<1>11. TlbCoherente'
  <2>. SUFFICES ASSUME SinFines, NEW i \in DOMAIN tlb, tabla'[Dueno][tlb[i].pagina].p
                PROVE  tabla'[Dueno][tlb[i].pagina].marco = tlb[i].marco
    BY <1>2, <1>4 DEF TlbCoherente
  <2>1. Dueno \in Procesos /\ tlb[i].pagina \in Paginas
    BY <1>0, Sueltos DEF TlbTipo
  <2>2. cpu.en # "libre" => tlb[i].pagina # cpu.g
    BY <1>0 DEF TlbOK, EnTlb
  <2>. QED  BY <1>0, <1>1, <2>1, <2>2 DEF EfectoMarcas, TlbCoherente
<1>. QED  BY <1>1, <1>3, <1>6, <1>10, <1>11 DEF InvT

\* PCB received: the TLB is emptied unless the process is the one it had.
LEMMA PasoRecibir ==
    ASSUME InvT, NEW q \in Procesos, Recibir(q)
    PROVE  InvT'
<1>0. InvM /\ TypeOKTraduccion /\ TlbOK /\ MarcosTlbOK /\ TlbCoherente
  BY DEF InvT
<1>1. /\ pid = Nada /\ vida[q] \in {"listo", "activo"} /\ kernel.p # q
      /\ pid' = q /\ tlb' = TlbDe(q) /\ vida' = [vida EXCEPT ![q] = "activo"]
      /\ UNCHANGED <<marcos, tabla, usuario, swap, archivos, archivo, comparador,
                     contadores, cpu, kernel, viva>>
      /\ ultimo' = ultimo /\ instr' = instr
  BY DEF Recibir
<1>2. cpu.en = "libre" /\ instr = Ninguna /\ Dueno = ultimo
  BY <1>0, <1>1, Sueltos
<1>3. q # Nada
  BY NadaAssumption
<1>4. InvM'
  BY <1>0, <1>1, <1>2, PasoDespachar
<1>5. Dueno' = q
  BY <1>1, <1>3 DEF Dueno
<1>6. tlb' = <<>> \/ (tlb' = tlb /\ Dueno = q)
  BY <1>1, <1>2 DEF TlbDe
<1>7. TypeOKTraduccion'
  <2>1. <<>> \in Seq([pagina : Paginas, marco : Marcos]) /\ Len(<<>>) <= EntradasTlb
    BY EntradasTlbAssumption
  <2>. QED  BY <1>0, <1>1, <1>4, <1>6, <2>1 DEF TypeOKTraduccion, InvM
<1>8. /\ vida'[q] = "activo" /\ \A r \in Procesos : r # q => vida'[r] = vida[r]
      /\ SinFines' => SinFines
  <2>1. vida \in [Procesos -> {"fuera", "listo", "activo", "fin"}]
    BY <1>0 DEF InvM, TypeOK
  <2>. QED  BY <1>1, <2>1 DEF SinFines
<1>9. DOMAIN tlb' = {} \/ (tlb' = tlb /\ Dueno = q)
  BY <1>6
<1>10. TlbOK'
  <2>1. cpu'.en = "libre" /\ instr' = Ninguna
    BY <1>1, <1>2
  <2>2. ultimo' # Nada => vida'[ultimo'] # "fuera"
    BY <1>0, <1>1, <1>8, Sueltos DEF TlbOK
  <2>3. \A i, j \in DOMAIN tlb' : tlb'[i].pagina = tlb'[j].pagina => i = j
    BY <1>0, <1>9 DEF TlbOK
  <2>4. Len(<<>>) = 0
    OBVIOUS
  <2>. QED  BY <1>1, <1>3, <1>5, <1>8, <2>1, <2>2, <2>3, <2>4, NingunaTipo DEF TlbOK
<1>11. MarcosTlbOK' /\ TlbCoherente'
  BY <1>0, <1>1, <1>2, <1>5, <1>8, <1>9, NingunaTipo DEF MarcosTlbOK, Aislamiento, TlbCoherente
<1>. QED  BY <1>4, <1>7, <1>10, <1>11 DEF InvT

\* checkInterrupt
LEMMA PasoVolver == InvT /\ Volver => InvT'
<1>. SUFFICES ASSUME InvT, Volver
              PROVE  InvT'
  OBVIOUS
<1>0. InvM /\ TypeOKTraduccion /\ TlbOK /\ MarcosTlbOK /\ TlbCoherente
  BY DEF InvT
<1>1. /\ pid # Nada /\ instr = Ninguna /\ ultimo' = pid /\ pid' = Nada
      /\ UNCHANGED vars /\ tlb' = tlb /\ instr' = instr
  BY DEF Volver
<1>2. UNCHANGED <<marcos, tabla, vida, cpu, kernel>>
  BY <1>1 DEF vars
<1>3. InvM'
  BY <1>0, <1>1, NadaCambia
<1>4. cpu.en = "libre" /\ pid \in Procesos /\ Dueno' = Dueno
  BY <1>0, <1>1, Sueltos DEF Dueno
<1>5. TypeOKTraduccion'
  BY <1>0, <1>1, <1>3, <1>4 DEF TypeOKTraduccion, InvM
<1>6. SinFines' = SinFines
  BY <1>2 DEF SinFines
<1>7. TlbOK'
  BY <1>0, <1>1, <1>2, <1>4 DEF TlbOK
<1>8. MarcosTlbOK' /\ TlbCoherente'
  BY <1>0, <1>1, <1>2, <1>4, <1>6, NingunaTipo DEF MarcosTlbOK, Aislamiento, TlbCoherente
<1>. QED  BY <1>3, <1>5, <1>7, <1>8 DEF InvT

\* A translation of instruction i to frame f that the module does not see, which
\* leaves the TLB in t.
LEMMA PasoTraducida ==
    ASSUME InvT, NEW i, Ejecutable(i), NEW f \in Marcos, pid # Nada,
           SinFines => marcos[f] \in {pid, Nada},
           instr' = Traducida(i, f), pid' = pid, ultimo' = ultimo, cpu'.en = "libre",
           UNCHANGED <<marcos, tabla, vida, kernel>>,
           InvM',
           tlb' \in Seq(TlbTipo), Len(tlb') <= EntradasTlb,
           \A k, l \in DOMAIN tlb' : tlb'[k].pagina = tlb'[l].pagina => k = l,
           SinFines => \A k \in DOMAIN tlb' : marcos[tlb'[k].marco] \in {pid, Nada},
           SinFines => \A k \in DOMAIN tlb' :
             tabla[pid][tlb'[k].pagina].p => tabla[pid][tlb'[k].pagina].marco = tlb'[k].marco
    PROVE  InvT'
<1>0. InvM /\ TypeOKTraduccion /\ TlbOK /\ MarcosTlbOK /\ TlbCoherente
  BY DEF InvT
<1>1. SinFines' = SinFines
  BY DEF SinFines
<1>2. /\ instr' \in InstrTipo /\ instr'.op = i.op /\ instr'.w = i.w
      /\ instr'.marcos = Append(i.marcos, f)
      /\ Len(instr'.paginas) = Len(i.paginas) - 1 /\ Len(instr'.hechas) = Len(i.hechas) + 1
      /\ Len(instr'.marcos) = Len(i.marcos) + 1
  BY TraducidaEfecto DEF Ejecutable
<1>3. /\ Len(i.paginas) \in Nat /\ Len(i.hechas) \in Nat /\ Len(i.marcos) \in Nat
      /\ i.marcos \in Seq(Marcos) /\ DOMAIN i.marcos = 1..Len(i.marcos)
  BY LenProperties DEF Ejecutable, InstrTipo
<1>4. pid \in Procesos /\ Dueno' = pid /\ ultimo \in Procesos \cup {Nada}
  BY <1>0, Sueltos DEF Dueno
<1>5. TypeOKTraduccion'
  BY <1>0, <1>2, <1>4 DEF TypeOKTraduccion, InvM, TlbTipo, InstrTipo
<1>6. instr' # Ninguna
  BY <1>2, NingunaTipo DEF Ejecutable
<1>7. /\ Len(instr'.hechas) = Len(instr'.marcos)
      /\ instr'.op \in {"READ", "WRITE"} => Len(instr'.paginas) + Len(instr'.hechas) = 1
      /\ instr'.op = "COPY" => Len(instr'.paginas) + Len(instr'.hechas) = 2
      /\ instr'.op # "ninguna"
  <2>1. PICK a \in Nat, b \in Nat, c \in Nat :
          a = Len(i.paginas) /\ b = Len(i.hechas) /\ c = Len(i.marcos)
    BY <1>3
  <2>2. /\ b = c
        /\ i.op \in {"READ", "WRITE"} => a + b = 1
        /\ i.op = "COPY" => a + b = 2
        /\ i.op # "ninguna"
    BY <2>1 DEF Ejecutable
  <2>3. Len(instr'.paginas) = a - 1 /\ Len(instr'.hechas) = b + 1 /\ Len(instr'.marcos) = c + 1
    BY <1>2, <2>1
  <2>4. Len(instr'.hechas) = Len(instr'.marcos)
    BY <2>2, <2>3
  <2>5. Len(instr'.paginas) + Len(instr'.hechas) = a + b
    BY <2>3
  <2>6. /\ i.op \in {"READ", "WRITE"} => Len(instr'.paginas) + Len(instr'.hechas) = 1
        /\ i.op = "COPY" => Len(instr'.paginas) + Len(instr'.hechas) = 2
    BY <2>2, <2>5
  <2>. QED  BY <1>2, <2>2, <2>4, <2>6
<1>8. TlbOK'
  BY <1>0, <1>4, <1>6, <1>7 DEF TlbOK
<1>9. SinFines => \A k \in DOMAIN instr'.marcos : marcos[instr'.marcos[k]] \in {pid, Nada}
  <2>1. PICK n \in Nat : n = Len(i.marcos)
    BY <1>3
  <2>2. /\ DOMAIN instr'.marcos = 1..(n + 1) /\ instr'.marcos[n + 1] = f
        /\ \A k \in 1..n : instr'.marcos[k] = i.marcos[k]
    BY <1>2, <1>3, <2>1, AppendEfecto, LenProperties
  <2>3. \A k \in 1..(n + 1) : k \in 1..n \/ k = n + 1
    OBVIOUS
  <2>. QED  BY <1>3, <2>1, <2>2, <2>3 DEF Ejecutable
<1>10. MarcosTlbOK'
  BY <1>1, <1>4, <1>9 DEF MarcosTlbOK, Aislamiento
<1>11. TlbCoherente'
  BY <1>1, <1>4 DEF TlbCoherente
<1>. QED  BY <1>5, <1>8, <1>10, <1>11 DEF InvT

\* tlb_hit
LEMMA PasoAcierto ==
    ASSUME InvT, NEW i, Ejecutable(i), pid # Nada, cpu.en = "libre", Acierto(i),
           pid' = pid, ultimo' = ultimo
    PROVE  InvT'
<1>0. InvM /\ TypeOKTraduccion /\ TlbOK /\ MarcosTlbOK /\ TlbCoherente
  BY DEF InvT
<1>1. PICK k \in DOMAIN tlb : tlb' = Append(SinLugar(tlb, k), tlb[k])
                              /\ instr' = Traducida(i, tlb[k].marco)
  BY DEF Acierto
<1>2. UNCHANGED vars /\ UNCHANGED <<marcos, tabla, vida, cpu, kernel>>
  BY DEF Acierto, vars
<1>3. InvM'
  BY <1>0, <1>2, NadaCambia
<1>4. tlb \in Seq(TlbTipo) /\ tlb[k].marco \in Marcos /\ Dueno = pid /\ Len(tlb) <= EntradasTlb
  BY <1>0, Sueltos DEF TlbTipo
<1>5. PICK n \in Nat : n = Len(tlb) /\ DOMAIN tlb = 1..n
  BY <1>4, LenProperties
<1>6. tlb' \in Seq(TlbTipo) /\ Len(tlb') = n /\ Reordenada(tlb', tlb, n)
  BY <1>1, <1>4, <1>5, AciertoMueve
<1>7. PICK m \in [1..n -> 1..n] : /\ \A x, y \in 1..n : m[x] = m[y] => x = y
                                  /\ \A x \in 1..n : tlb'[x] = tlb[m[x]]
  BY <1>6 DEF Reordenada
<1>8. DOMAIN tlb' = 1..n
  BY <1>6, LenProperties
<1>9. \A x, y \in DOMAIN tlb' : tlb'[x].pagina = tlb'[y].pagina => x = y
  BY <1>0, <1>5, <1>7, <1>8 DEF TlbOK
<1>10. SinFines => marcos[tlb[k].marco] \in {pid, Nada}
  BY <1>0, <1>4 DEF MarcosTlbOK
<1>11. SinFines => \A x \in DOMAIN tlb' : marcos[tlb'[x].marco] \in {pid, Nada}
  BY <1>0, <1>4, <1>5, <1>7, <1>8 DEF MarcosTlbOK
<1>12. SinFines => \A x \in DOMAIN tlb' :
         tabla[pid][tlb'[x].pagina].p => tabla[pid][tlb'[x].pagina].marco = tlb'[x].marco
  <2>. SUFFICES ASSUME SinFines, NEW x \in DOMAIN tlb', tabla[pid][tlb'[x].pagina].p
                PROVE  tabla[pid][tlb'[x].pagina].marco = tlb'[x].marco
    OBVIOUS
  <2>1. PICK y \in DOMAIN tlb : tlb'[x] = tlb[y]
    BY <1>5, <1>7, <1>8
  <2>. QED  BY <1>0, <1>4, <2>1 DEF TlbCoherente
<1>13. PICK f \in Marcos : f = tlb[k].marco
  BY <1>4
<1>14. instr' = Traducida(i, f) /\ Len(tlb') <= EntradasTlb /\ cpu'.en = "libre"
  BY <1>1, <1>2, <1>4, <1>5, <1>6, <1>13
<1>. QED  BY <1>2, <1>3, <1>6, <1>9, <1>10, <1>11, <1>12, <1>13, <1>14, PasoTraducida

\* The TLB misses and the memory is asked: nothing is translated yet.
LEMMA PasoFallo ==
    ASSUME InvT, NEW i, Ejecutable(i), pid # Nada, Fallo(i), pid' = pid, ultimo' = ultimo
    PROVE  InvT'
<1>0. InvM /\ TypeOKTraduccion /\ TlbOK /\ MarcosTlbOK /\ TlbCoherente
  BY DEF InvT
<1>1. pid \in Procesos /\ ultimo \in Procesos \cup {Nada} /\ Dueno' = Dueno /\ Dueno = pid
      /\ Len(tlb) <= EntradasTlb
  BY <1>0, Sueltos DEF Dueno
<1>2. i.paginas \in Seq(Paginas) /\ i.paginas # <<>> /\ i \in InstrTipo
  BY DEF Ejecutable, InstrTipo
<1>3. PICK g \in Paginas : g = Head(i.paginas)
  BY <1>2, HeadTailProperties
<1>4. /\ ~ EnTlb(g) /\ CpuPedir(pid, g, Nada) /\ instr' = i /\ tlb' = tlb
  BY <1>3 DEF Fallo
<1>5. /\ cpu.en = "libre" /\ cpu' = [Reposo EXCEPT !.en = "pedir", !.p = pid, !.g = g, !.w = Nada]
      /\ UNCHANGED <<marcos, tabla, vida, kernel>>
  BY <1>4 DEF CpuPedir
<1>6. cpu'.p = pid /\ cpu'.g = g /\ cpu'.w = Nada
  BY <1>5 DEF Reposo
<1>7. InvM'
  BY <1>0, <1>1, <1>4, PasoPedir
<1>8. TypeOKTraduccion'
  BY <1>0, <1>1, <1>2, <1>4, <1>7 DEF TypeOKTraduccion, InvM, InstrTipo
<1>9. TlbOK'
  <2>1. ~ EnTlb(g)' /\ Head(instr'.paginas) = g /\ instr'.paginas # <<>>
    BY <1>2, <1>3, <1>4 DEF EnTlb
  <2>2. instr' # Ninguna /\ instr'.op # "ninguna"
    BY <1>4, NingunaTipo DEF Ejecutable
  <2>3. /\ Len(instr'.hechas) = Len(instr'.marcos)
        /\ instr'.op \in {"READ", "WRITE"} => Len(instr'.paginas) + Len(instr'.hechas) = 1
        /\ instr'.op = "COPY" => Len(instr'.paginas) + Len(instr'.hechas) = 2
    BY <1>4 DEF Ejecutable
  <2>4. cpu'.en # "libre" => ~ EnTlb(cpu.g)'
    BY <1>6, <2>1 DEF EnTlb
  <2>. QED  BY <1>0, <1>1, <1>4, <1>5, <1>6, <2>1, <2>2, <2>3, <2>4 DEF TlbOK
<1>10. SinFines' = SinFines
  BY <1>5 DEF SinFines
<1>11. MarcosTlbOK' /\ TlbCoherente'
  BY <1>0, <1>1, <1>4, <1>5, <1>10 DEF MarcosTlbOK, Aislamiento, TlbCoherente, Ejecutable
<1>. QED  BY <1>7, <1>8, <1>9, <1>11 DEF InvT

\* tlb_miss, with the answer of the memory: the frame is that of the page.
LEMMA PasoRecibirMarco == InvT /\ RecibirMarco => InvT'
<1>. SUFFICES ASSUME InvT, RecibirMarco
              PROVE  InvT'
  OBVIOUS
<1>0. InvM /\ TypeOKTraduccion /\ TlbOK /\ MarcosTlbOK /\ TlbCoherente
  BY DEF InvT
<1>1. /\ cpu.en = "acceder"
      /\ tlb' = Agregada([pagina |-> cpu.g, marco |-> cpu.marco])
      /\ instr' = Traducida(instr, cpu.marco) /\ cpu' = Reposo
      /\ UNCHANGED <<marcos, tabla, usuario, swap, archivos, archivo, comparador,
                     contadores, vida, kernel, viva, pid, ultimo>>
  BY DEF RecibirMarco
<1>2. instr # Ninguna /\ pid # Nada
  <2>1. instr # Ninguna
    BY <1>0, <1>1, Sueltos
  <2>. QED  BY <1>0, <2>1 DEF TlbOK
<1>3. PICK g \in Paginas, f \in Marcos : /\ g = cpu.g /\ f = cpu.marco
                                        /\ tabla[pid][g].p /\ tabla[pid][g].marco = f
                                        /\ ~ EnTlb(g)
  BY <1>0, <1>1 DEF InvM, HilosOK, RespuestaOK, En, Pedida, TlbOK
<1>4. /\ pid \in Procesos /\ kernel.p # pid /\ Dueno = pid /\ tlb \in Seq(TlbTipo)
      /\ Len(tlb) <= EntradasTlb /\ instr \in InstrTipo
  BY <1>0, <1>2, Sueltos DEF TlbOK
<1>5. SinFines => marcos[f] = pid
  BY <1>0, <1>3, <1>4 DEF InvM, PropiosOK, Soltandose
<1>6. Ejecutable(instr)
  BY <1>0, <1>1, <1>2, <1>4 DEF Ejecutable, TlbOK, MarcosTlbOK, Aislamiento
<1>7. InvM'
  <2>1. MarcasQuietas
    BY <1>1 DEF MarcasQuietas
  <2>2. cpu'.en = "libre" /\ cpu' \in CpuTipo
    BY <1>1 DEF Reposo, CpuTipo
  <2>3. /\ usuario \in [Marcos -> Valores \cup {Basura}]
        /\ tabla \in [Procesos -> [Paginas -> Entradas]]
    BY <1>0 DEF InvM, TypeOK
  <2>. QED  BY <1>0, <1>1, <2>1, <2>2, <2>3, PasoAcceso
<1>8. PICK e \in TlbTipo : e = [pagina |-> g, marco |-> f] /\ e.pagina = g /\ e.marco = f
  <2>1. [pagina |-> g, marco |-> f] \in TlbTipo
    BY DEF TlbTipo
  <2>. QED  BY <2>1
<1>9. /\ tlb' \in Seq(TlbTipo) /\ Len(tlb') \in 1..EntradasTlb /\ tlb'[Len(tlb')] = e
      /\ \E d \in {0, 1} : \A i \in 1..(Len(tlb') - 1) :
           i + d \in DOMAIN tlb /\ tlb'[i] = tlb[i + d]
  BY <1>1, <1>3, <1>4, <1>8, AgregadaMueve
<1>10. PICK d \in {0, 1} : \A i \in 1..(Len(tlb') - 1) :
          i + d \in DOMAIN tlb /\ tlb'[i] = tlb[i + d]
  BY <1>9
<1>11. PICK n \in Nat : n = Len(tlb') /\ DOMAIN tlb' = 1..n /\ n <= EntradasTlb
  BY <1>9, EntradasTlbAssumption, LenProperties
<1>12. \A i \in DOMAIN tlb' : i = n \/ i \in 1..(n - 1)
  BY <1>11
<1>13. \A i \in 1..(n - 1) : tlb'[i].pagina # g
  BY <1>3, <1>10, <1>11 DEF EnTlb
<1>14. \A i, j \in DOMAIN tlb' : tlb'[i].pagina = tlb'[j].pagina => i = j
  <2>. SUFFICES ASSUME NEW i \in DOMAIN tlb', NEW j \in DOMAIN tlb',
                       tlb'[i].pagina = tlb'[j].pagina
                PROVE  i = j
    OBVIOUS
  <2>1. CASE i = n \/ j = n
    BY <1>8, <1>9, <1>11, <1>12, <1>13, <2>1
  <2>2. CASE i \in 1..(n - 1) /\ j \in 1..(n - 1)
    <3>1. i + d = j + d
      BY <1>0, <1>10, <1>11, <2>2 DEF TlbOK
    <3>. QED  BY <2>2, <3>1
  <2>. QED  BY <1>12, <2>1, <2>2
<1>15. SinFines => \A k \in DOMAIN tlb' : marcos[tlb'[k].marco] \in {pid, Nada}
  BY <1>0, <1>4, <1>5, <1>8, <1>9, <1>10, <1>11, <1>12 DEF MarcosTlbOK
<1>16. SinFines => \A k \in DOMAIN tlb' :
         tabla[pid][tlb'[k].pagina].p => tabla[pid][tlb'[k].pagina].marco = tlb'[k].marco
  <2>. SUFFICES ASSUME SinFines, NEW k \in DOMAIN tlb', tabla[pid][tlb'[k].pagina].p
                PROVE  tabla[pid][tlb'[k].pagina].marco = tlb'[k].marco
    OBVIOUS
  <2>1. CASE k = n
    BY <1>3, <1>8, <1>9, <1>11, <2>1
  <2>2. CASE k \in 1..(n - 1)
    <3>1. PICK j \in DOMAIN tlb : tlb'[k] = tlb[j]
      BY <1>10, <1>11, <2>2
    <3>. QED  BY <1>0, <1>4, <3>1 DEF TlbCoherente
  <2>. QED  BY <1>12, <2>1, <2>2
<1>17. instr' = Traducida(instr, f) /\ cpu'.en = "libre"
  BY <1>1, <1>3 DEF Reposo
<1>. QED  BY <1>1, <1>2, <1>5, <1>6, <1>7, <1>9, <1>11, <1>14, <1>15, <1>16, <1>17, PasoTraducida

\* What an instruction does to the marks, once its pages are translated.
LEMMA EjecutarEfecto ==
    ASSUME InvT, Ejecutar
    PROVE  /\ Destino \in Marcos /\ Origen \in Marcos
           /\ pid \in Procesos /\ kernel.p # pid /\ cpu.en = "libre"
           /\ instr.op \in {"READ", "WRITE", "COPY"}
           /\ Escrito \in Valores \cup {Basura, Nada}
           /\ instr.op # "READ" => Escrito \in Valores \cup {Basura}
           /\ tabla' \in [Procesos -> [Paginas -> Entradas]]
           /\ \A r \in Procesos, h \in Paginas :
                /\ tabla'[r][h].p = tabla[r][h].p /\ tabla'[r][h].marco = tabla[r][h].marco
                /\ tabla[r][h].m => tabla'[r][h].m
                /\ tabla'[r][h].m => tabla[r][h].m \/
                     (/\ instr.op # "READ" /\ r = marcos[Destino]
                      /\ tabla[r][h].p /\ tabla[r][h].marco = Destino)
           /\ instr.op # "READ" /\ marcos[Destino] # Nada =>
                HayEscrita(tabla, marcos[Destino], Destino, tabla')
           /\ SinFines => marcos[Destino] \in {pid, Nada} /\ marcos[Origen] \in {pid, Nada}
<1>0. InvM /\ TypeOKTraduccion /\ TlbOK /\ MarcosTlbOK /\ TypeOK /\ MarcasOK
  BY DEF InvT, InvM
<1>1. instr # Ninguna /\ instr.paginas = <<>> /\ Len(instr.paginas) = 0
  BY DEF Ejecutar, Completa
<1>2. /\ pid \in Procesos /\ kernel.p # pid /\ cpu.en = "libre" /\ instr \in InstrTipo
      /\ instr.op \in {"READ", "WRITE", "COPY"}
  BY <1>0, <1>1, Sueltos DEF TlbOK, InstrTipo
<1>3. PICK n \in Nat : n = Len(instr.marcos) /\ DOMAIN instr.marcos = 1..n /\ n # 0
  <2>1. PICK a \in Nat, n \in Nat : /\ a = Len(instr.hechas)
                                    /\ n = Len(instr.marcos) /\ DOMAIN instr.marcos = 1..n
    BY <1>2, LenProperties DEF InstrTipo
  <2>2. a = n /\ (0 + a = 1 \/ 0 + a = 2)
    BY <1>0, <1>1, <1>2, <2>1 DEF TlbOK
  <2>3. n # 0
    BY <2>2
  <2>. QED  BY <2>1, <2>3
<1>4. 1 \in DOMAIN instr.marcos /\ n \in DOMAIN instr.marcos
  BY <1>3
<1>5. PICK d \in Marcos, o \in Marcos : d = Destino /\ o = Origen
  <2>1. instr.marcos \in Seq(Marcos)
    BY <1>2 DEF InstrTipo
  <2>. QED  BY <1>3, <1>4, <2>1, ElementOfSeq, LenProperties DEF Destino, Origen
<1>6. SinFines => marcos[d] \in {pid, Nada} /\ marcos[o] \in {pid, Nada}
  BY <1>0, <1>3, <1>4, <1>5 DEF MarcosTlbOK, Aislamiento, Destino, Origen
<1>7. PICK w \in Valores \cup {Basura, Nada} :
        w = Escrito /\ (instr.op # "READ" => w \in Valores \cup {Basura} /\ w # Nada)
  <2>1. usuario[o] \in Valores \cup {Basura} /\ usuario[d] \in Valores \cup {Basura}
    BY <1>0 DEF TypeOK
  <2>2. instr.w \in Valores \cup {Nada}
    BY <1>2 DEF InstrTipo
  <2>. QED  BY <1>2, <1>5, <2>1, <2>2, NadaAssumption DEF Escrito
<1>8. marcos \in [Marcos -> Procesos \cup {Nada}] /\ tabla \in [Procesos -> [Paginas -> Entradas]]
  BY <1>0 DEF TypeOK
<1>9. ASSUME NEW f \in Marcos, marcos[f] # Nada
      PROVE  \E h \in Paginas : tabla[marcos[f]][h].p /\ tabla[marcos[f]][h].marco = f
  <2>1. ~ Cargandose(marcos[f], f) /\ marcos[f] \in Procesos
    BY <1>2, <1>8, <1>9 DEF Cargandose, En
  <2>. QED  BY <1>0, <2>1 DEF MarcasOK
<1>10. PICK l \in [Procesos -> [Paginas -> Entradas]] :
         /\ l = IF instr.op = "WRITE" THEN tabla ELSE Marcada(tabla, o, Nada)
         /\ \A r \in Procesos, h \in Paginas :
              /\ l[r][h].p = tabla[r][h].p /\ l[r][h].marco = tabla[r][h].marco
              /\ l[r][h].m = tabla[r][h].m
  <2>1. CASE instr.op = "WRITE"
    BY <1>8, <2>1
  <2>2. CASE instr.op # "WRITE"
    <3>1. PICK v : v = Marcada(tabla, o, Nada)
      OBVIOUS
    <3>2. PICK z : z = Nada
      OBVIOUS
    <3>3. /\ v \in [Procesos -> [Paginas -> Entradas]]
          /\ \A r \in Procesos, h \in Paginas :
               /\ v[r][h].p = tabla[r][h].p /\ v[r][h].marco = tabla[r][h].marco
               /\ tabla[r][h].m => v[r][h].m
               /\ v[r][h].m => tabla[r][h].m
      BY <1>8, <1>9, <3>1, MarcadaEfecto
    <3>4. ASSUME NEW r \in Procesos, NEW h \in Paginas
          PROVE  v[r][h].m = tabla[r][h].m
      <4>1. v[r][h] \in Entradas /\ tabla[r][h] \in Entradas
        BY <1>8, <3>3
      <4>2. v[r][h].m \in BOOLEAN /\ tabla[r][h].m \in BOOLEAN
        BY <4>1 DEF Entradas
      <4>. QED  BY <3>3, <4>2
    <3>. QED  BY <2>2, <3>1, <3>3, <3>4
  <2>. QED  BY <2>1, <2>2
<1>11. tabla' = IF instr.op = "READ" THEN l ELSE Marcada(l, d, w)
  BY <1>5, <1>7, <1>10 DEF Ejecutar
<1>12. CASE instr.op = "READ"
  BY <1>2, <1>5, <1>6, <1>7, <1>10, <1>11, <1>12
<1>13. CASE instr.op # "READ"
  <2>1. marcos[d] # Nada => \E h \in Paginas : l[marcos[d]][h].p /\ l[marcos[d]][h].marco = d
    <3>. SUFFICES ASSUME marcos[d] # Nada
                  PROVE  \E h \in Paginas : l[marcos[d]][h].p /\ l[marcos[d]][h].marco = d
      OBVIOUS
    <3>1. PICK h \in Paginas : tabla[marcos[d]][h].p /\ tabla[marcos[d]][h].marco = d
      BY <1>9
    <3>2. marcos[d] \in Procesos
      BY <1>8
    <3>. QED  BY <1>10, <3>1, <3>2
  <2>2. PICK v : v = Marcada(l, d, w)
    OBVIOUS
  <2>3. /\ v \in [Procesos -> [Paginas -> Entradas]]
        /\ \A r \in Procesos, h \in Paginas :
             /\ v[r][h].p = l[r][h].p /\ v[r][h].marco = l[r][h].marco
             /\ l[r][h].m => v[r][h].m
             /\ v[r][h].m => l[r][h].m \/ (w # Nada /\ r = marcos[d] /\ l[r][h].p /\ l[r][h].marco = d)
        /\ marcos[d] # Nada /\ w # Nada => HayEscrita(l, marcos[d], d, v)
    BY <1>8, <2>1, <2>2, MarcadaEfecto
  <2>4. tabla' = v
    BY <1>11, <1>13, <2>2
  <2>5. marcos[d] # Nada => HayEscrita(tabla, marcos[d], d, v)
    BY <1>7, <1>8, <1>10, <1>13, <2>3 DEF HayEscrita
  <2>6. \A r \in Procesos, h \in Paginas :
             /\ v[r][h].p = tabla[r][h].p /\ v[r][h].marco = tabla[r][h].marco
             /\ tabla[r][h].m => v[r][h].m
             /\ v[r][h].m => tabla[r][h].m
                               \/ (r = marcos[d] /\ tabla[r][h].p /\ tabla[r][h].marco = d)
    BY <1>10, <2>3
  <2>. QED  BY <1>2, <1>5, <1>6, <1>7, <1>13, <2>3, <2>4, <2>5, <2>6
<1>. QED  BY <1>12, <1>13

\* manejo_instrucciones
LEMMA PasoEjecutar == InvT /\ Ejecutar => InvT'
<1>. SUFFICES ASSUME InvT, Ejecutar
              PROVE  InvT'
  OBVIOUS
<1>0. InvM /\ TypeOKTraduccion /\ TlbOK /\ MarcosTlbOK /\ TlbCoherente /\ TypeOK
  BY DEF InvT, InvM
<1>1. /\ usuario' = IF instr.op = "READ" THEN usuario ELSE [usuario EXCEPT ![Destino] = Escrito]
      /\ instr' = Ninguna
      /\ UNCHANGED <<marcos, swap, archivos, archivo, comparador, contadores, vida, cpu,
                     kernel, viva, pid, ultimo, tlb>>
  BY DEF Ejecutar
<1>2. /\ Destino \in Marcos /\ pid \in Procesos /\ kernel.p # pid /\ cpu.en = "libre"
      /\ instr.op # "READ" => Escrito \in Valores \cup {Basura}
      /\ tabla' \in [Procesos -> [Paginas -> Entradas]]
      /\ \A r \in Procesos, h \in Paginas :
           /\ tabla'[r][h].p = tabla[r][h].p /\ tabla'[r][h].marco = tabla[r][h].marco
           /\ tabla[r][h].m => tabla'[r][h].m
           /\ tabla'[r][h].m => tabla[r][h].m \/ (r = marcos[Destino] /\ tabla[r][h].p)
      /\ SinFines => marcos[Destino] \in {pid, Nada}
  BY EjecutarEfecto
<1>3. InvM'
  <2>1. MarcasQuietas
    BY <1>1, <1>2 DEF MarcasQuietas
  <2>2. usuario' \in [Marcos -> Valores \cup {Basura}]
    BY <1>0, <1>1, <1>2 DEF TypeOK
  <2>3. SinFines /\ kernel.p \in Procesos =>
          \A h \in Paginas : tabla'[kernel.p][h].m => tabla[kernel.p][h].m
    BY <1>2, NadaAssumption
  <2>4. cpu' \in CpuTipo /\ cpu'.en = "libre"
    BY <1>0, <1>1, <1>2 DEF TypeOK
  <2>. QED  BY <1>0, <1>1, <1>2, <2>1, <2>2, <2>3, <2>4, PasoAcceso
<1>4. pid # Nada /\ Dueno' = pid /\ Dueno = pid
  <2>1. pid # Nada
    BY <1>2, NadaAssumption
  <2>. QED  BY <1>1, <2>1 DEF Dueno
<1>5. TypeOKTraduccion'
  BY <1>0, <1>1, <1>3, NingunaTipo DEF TypeOKTraduccion, InvM, InstrTipo
<1>6. TlbOK'
  BY <1>0, <1>1, <1>2, <1>4, NingunaTipo DEF TlbOK
<1>7. SinFines' = SinFines
  BY <1>1 DEF SinFines
<1>8. MarcosTlbOK'
  BY <1>0, <1>1, <1>4, <1>7, NingunaTipo DEF MarcosTlbOK, Aislamiento
<1>9. TlbCoherente'
  <2>1. \A i \in DOMAIN tlb : tlb[i].pagina \in Paginas
    BY <1>0, Sueltos DEF TlbTipo
  <2>. QED  BY <1>0, <1>1, <1>2, <1>4, <1>7, <2>1 DEF TlbCoherente
<1>. QED  BY <1>3, <1>5, <1>6, <1>8, <1>9 DEF InvT

LEMMA PasoTraducir ==
    ASSUME InvT, NEW i, Ejecutable(i), pid # Nada, cpu.en = "libre", Traducir(i)
    PROVE  InvT'
<1>1. pid' = pid /\ ultimo' = ultimo /\ (Acierto(i) \/ Fallo(i))
  BY DEF Traducir
<1>. QED  BY <1>1, PasoAcierto, PasoFallo

LEMMA PasoDecodificar == InvT /\ Decodificar => InvT'
<1>. SUFFICES ASSUME InvT, Decodificar
              PROVE  InvT'
  OBVIOUS
<1>1. pid # Nada /\ instr = Ninguna
  BY DEF Decodificar
<1>2. PICK i \in Programas(pid) : Traducir(i)
  BY DEF Decodificar
<1>3. pid \in Procesos /\ cpu.en = "libre"
  BY <1>1, Sueltos DEF InvT
<1>4. i \in Instrucciones
  BY <1>3, ProgramasAssumption
<1>. QED  BY <1>1, <1>2, <1>3, <1>4, InstruccionEjecutable, PasoTraducir

LEMMA PasoSeguir == InvT /\ Seguir => InvT'
<1>. SUFFICES ASSUME InvT, Seguir
              PROVE  InvT'
  OBVIOUS
<1>1. instr.paginas # <<>> /\ cpu.en = "libre" /\ Traducir(instr)
  BY DEF Seguir
<1>2. instr # Ninguna /\ pid # Nada /\ instr \in InstrTipo
  BY <1>1, Sueltos DEF InvT, TlbOK
<1>3. Ejecutable(instr)
  BY <1>1, <1>2 DEF InvT, Ejecutable, TlbOK, MarcosTlbOK, Aislamiento
<1>. QED  BY <1>1, <1>2, <1>3, PasoTraducir

LEMMA InicioT == InitTraduccion => InvT
<1>. SUFFICES ASSUME InitTraduccion
              PROVE  InvT
  OBVIOUS
<1>1. Init /\ pid = Nada /\ ultimo = Nada /\ tlb = <<>> /\ instr = Ninguna
  BY DEF InitTraduccion
<1>2. InvM /\ cpu.en = "libre"
  BY <1>1, InicioM DEF Init, Reposo
<1>3. TypeOKTraduccion
  <2>1. <<>> \in Seq([pagina : Paginas, marco : Marcos]) /\ Len(<<>>) <= EntradasTlb
    BY EntradasTlbAssumption
  <2>. QED  BY <1>1, <1>2, <2>1, NingunaTipo DEF TypeOKTraduccion, InvM, InstrTipo
<1>4. DOMAIN tlb = {}
  BY <1>1
<1>5. TlbOK
  BY <1>1, <1>2, <1>4, NingunaTipo DEF TlbOK
<1>6. MarcosTlbOK /\ TlbCoherente
  BY <1>1, <1>4, NingunaTipo DEF MarcosTlbOK, Aislamiento, TlbCoherente
<1>. QED  BY <1>2, <1>3, <1>5, <1>6 DEF InvT

LEMMA NadaCambiaT == InvT /\ UNCHANGED varsTodo => InvT'
<1>. SUFFICES ASSUME InvT, UNCHANGED varsTodo
              PROVE  InvT'
  OBVIOUS
<1>1. UNCHANGED vars /\ UNCHANGED <<pid, ultimo, tlb, instr>>
  BY DEF varsTodo, varsCpu
<1>2. UNCHANGED <<marcos, tabla, vida, cpu, kernel>>
  BY <1>1 DEF vars
<1>3. InvM' /\ InvM
  BY <1>1, NadaCambia DEF InvT
<1>4. TypeOKTraduccion'
  BY <1>1, <1>3 DEF InvT, TypeOKTraduccion, InvM
<1>5. TlbOK'
  BY <1>1, <1>2 DEF InvT, TlbOK, Dueno, EnTlb
<1>6. MarcosTlbOK' /\ TlbCoherente'
  BY <1>1, <1>2 DEF InvT, MarcosTlbOK, Aislamiento, TlbCoherente, Dueno, SinFines
<1>. QED  BY <1>3, <1>4, <1>5, <1>6 DEF InvT

LEMMA SiguienteT == InvT /\ [NextTraduccion]_varsTodo => InvT'
<1>. SUFFICES ASSUME InvT, [NextTraduccion]_varsTodo
              PROVE  InvT'
  OBVIOUS
<1>1. ASSUME NEW q \in Procesos, Recibir(q)
      PROVE  InvT'
  BY <1>1, PasoRecibir
<1>2. CASE HiloCpu
  BY <1>2, PasoDecodificar, PasoSeguir, PasoVolver, PasoRecibirMarco, PasoEjecutar DEF HiloCpu
<1>3. CASE Modulo
  BY <1>3, PasoModulo
<1>4. CASE UNCHANGED varsTodo
  BY <1>4, NadaCambiaT
<1>. QED  BY <1>1, <1>2, <1>3, <1>4 DEF NextTraduccion

LEMMA InvTSiempre == SpecTraduccion => []InvT
<1>. QED  BY InicioT, SiguienteT, PTL DEF SpecTraduccion

\* The fields of the CPU and of the module stay within their types, and the TLB
\* within ENTRADAS_TLB entries.
THEOREM TraduccionTipo == SpecTraduccion => []TypeOKTraduccion
<1>1. InvT => TypeOKTraduccion
  BY DEF InvT
<1>. QED  BY <1>1, InvTSiempre, PTL

\* No instruction reads or writes a frame that is marked with another process,
\* whatever the TLB kept from before and the kernel suspended meanwhile.
THEOREM AislamientoSiempre == SpecTraduccion => []Aislamiento
<1>1. InvT => Aislamiento
  BY DEF InvT, MarcosTlbOK, Aislamiento
<1>. QED  BY <1>1, InvTSiempre, PTL

\* No page in memory is translated to a frame that is not its own.
THEOREM TlbSiempre == SpecTraduccion => []TlbCoherente
<1>1. InvT => TlbCoherente
  BY DEF InvT
<1>. QED  BY <1>1, InvTSiempre, PTL

\* What holds in the module holds under the CPU: the marks, the bits p and the frame
\* numbers agree, MARCOS_POR_PROCESO is kept and every file copied is mapped.
THEOREM ModuloTraduciendo ==
    SpecTraduccion => [](MarcosPropios /\ CupoRespetado /\ ArchivoMapeado)
<1>1. InvT => MarcosPropios /\ CupoRespetado /\ ArchivoMapeado
  BY PropiosDeInv, CupoDeInv, ArchivoDeInv DEF InvT
<1>. QED  BY <1>1, InvTSiempre, PTL

-----------------------------------------------------------------------------
(* What the pages hold.                                                    *)

\* WRITE and COPY write in the frame of the first page that the instruction gave,
\* when its translations are still those of its pages.
LEMMA EjecutarEscribe ==
    ASSUME InvT, SinFines, Ejecutar, instr.op # "READ",
           \A i \in DOMAIN instr.marcos : Vigente(i)
    PROVE  \E g \in Paginas : /\ g = instr.hechas[1] /\ EscribeEn(pid, g, Destino, Escrito)
                              /\ marcos[Destino] = pid /\ Destino \in Marcos /\ pid \in Procesos
<1>0. InvM /\ TypeOKTraduccion /\ TlbOK /\ PropiosOK /\ MarcasOK
  BY DEF InvT, InvM
<1>1. /\ Completa /\ instr' = Ninguna /\ swap' = swap
      /\ usuario' = IF instr.op = "READ" THEN usuario ELSE [usuario EXCEPT ![Destino] = Escrito]
  BY DEF Ejecutar
<1>2. Ejecuta
  BY <1>1 DEF Ejecuta
<1>3. /\ Destino \in Marcos /\ pid \in Procesos /\ kernel.p # pid
      /\ \A r \in Procesos, h \in Paginas :
           /\ tabla'[r][h].p = tabla[r][h].p /\ tabla'[r][h].marco = tabla[r][h].marco
           /\ tabla[r][h].m => tabla'[r][h].m
           /\ tabla'[r][h].m => tabla[r][h].m \/
                (/\ instr.op # "READ" /\ r = marcos[Destino]
                 /\ tabla[r][h].p /\ tabla[r][h].marco = Destino)
      /\ instr.op # "READ" /\ marcos[Destino] # Nada =>
           HayEscrita(tabla, marcos[Destino], Destino, tabla')
  BY EjecutarEfecto
<1>5. instr.op # "READ"
  OBVIOUS
<1>11. 1 \in DOMAIN instr.marcos /\ 1 \in DOMAIN instr.hechas /\ instr.hechas[1] \in Paginas
  <2>1. instr \in InstrTipo /\ Len(instr.paginas) = 0 /\ instr.op \in {"WRITE", "COPY"}
    BY <1>0, <1>1, <1>5, Sueltos DEF Completa, InstrTipo, TlbOK
  <2>2. PICK a \in Nat, n \in Nat :
          /\ a = Len(instr.hechas) /\ DOMAIN instr.hechas = 1..a
          /\ n = Len(instr.marcos) /\ DOMAIN instr.marcos = 1..n
    BY <2>1, LenProperties DEF InstrTipo
  <2>3. a = n /\ (0 + a = 1 \/ 0 + a = 2)
    BY <1>0, <2>1, <2>2 DEF TlbOK
  <2>4. 1 \in 1..a
    BY <2>3
  <2>5. instr.hechas \in Seq(Paginas)
    BY <2>1 DEF InstrTipo
  <2>. QED  BY <2>2, <2>3, <2>4, <2>5, ElementOfSeq
<1>12. PICK g \in Paginas : g = instr.hechas[1]
  BY <1>11
<1>13. tabla[pid][g].p /\ tabla[pid][g].marco = Destino
  BY <1>11, <1>12 DEF Vigente, Destino
<1>14. \A h \in Paginas : ~ Soltandose(pid, h)
  BY <1>3 DEF Soltandose
<1>15. marcos[Destino] = pid /\ pid # Nada
  BY <1>0, <1>3, <1>13, <1>14, NadaAssumption DEF PropiosOK
<1>16. tabla'[pid][g].m
  <2>1. PICK h \in Paginas : tabla[pid][h].p /\ tabla[pid][h].marco = Destino /\ tabla'[pid][h].m
    BY <1>3, <1>5, <1>15 DEF HayEscrita
  <2>2. h = g
    BY <1>0, <1>3, <1>13, <1>14, <2>1 DEF PropiosOK
  <2>. QED  BY <2>1, <2>2
<1>17. EscribeEn(pid, g, Destino, Escrito)
  BY <1>1, <1>3, <1>5, <1>13, <1>14, <1>15, <1>16 DEF EscribeEn
<1>. QED  BY <1>3, <1>12, <1>15, <1>17

\* READ leaves every page as it was; WRITE and COPY write the first that the
\* instruction gave, when its translations are still those of its pages.
LEMMA ContenidoEjecutar ==
    ASSUME InvT, SinFines, Ejecutar, \A i \in DOMAIN instr.marcos : Vigente(i)
    PROVE  \A q \in Procesos, g \in Paginas :
             Contenido(q, g)' = IF EjecutaEn(q, g) THEN Escrito ELSE Contenido(q, g)
<1>0. InvM /\ TypeOKTraduccion /\ TlbOK /\ PropiosOK /\ MarcasOK
  BY DEF InvT, InvM
<1>1. /\ Completa /\ instr' = Ninguna /\ swap' = swap
      /\ usuario' = IF instr.op = "READ" THEN usuario ELSE [usuario EXCEPT ![Destino] = Escrito]
  BY DEF Ejecutar
<1>2. Ejecuta
  BY <1>1 DEF Ejecuta
<1>3. /\ Destino \in Marcos /\ pid \in Procesos /\ kernel.p # pid
      /\ \A r \in Procesos, h \in Paginas :
           /\ tabla'[r][h].p = tabla[r][h].p /\ tabla'[r][h].marco = tabla[r][h].marco
           /\ tabla[r][h].m => tabla'[r][h].m
           /\ tabla'[r][h].m => tabla[r][h].m \/
                (/\ instr.op # "READ" /\ r = marcos[Destino]
                 /\ tabla[r][h].p /\ tabla[r][h].marco = Destino)
      /\ instr.op # "READ" /\ marcos[Destino] # Nada =>
           HayEscrita(tabla, marcos[Destino], Destino, tabla')
  BY EjecutarEfecto
<1>4. CASE instr.op = "READ"
  <2>1. \A r \in Procesos, h \in Paginas :
          /\ tabla'[r][h].p = tabla[r][h].p /\ tabla'[r][h].marco = tabla[r][h].marco
          /\ tabla'[r][h].m <=> tabla[r][h].m
    BY <1>3, <1>4
  <2>. QED  BY <1>1, <1>4, <2>1 DEF Contenido, EjecutaEn
<1>5. CASE instr.op # "READ"
  <2>1. PICK g \in Paginas : g = instr.hechas[1] /\ EscribeEn(pid, g, Destino, Escrito)
    BY <1>5, EjecutarEscribe
  <2>2. ContenidoCon(pid, g, Escrito)
    BY <1>0, <1>3, <2>1, ContenidoEscrito
  <2>3. \A q, h : EjecutaEn(q, h) <=> q = pid /\ h = g
    BY <1>2, <1>5, <2>1 DEF EjecutaEn
  <2>. QED  BY <2>2, <2>3 DEF ContenidoCon
<1>. QED  BY <1>4, <1>5

\* Every other step leaves every page as it was, and ends no instruction.
LEMMA ContenidoOtros ==
    ASSUME InvT, SinFines, ~ OtroArchivo, [NextTraduccion]_varsTodo, ~ Ejecutar
    PROVE  ContenidoIgual /\ ~ Ejecuta
<1>0. InvM /\ TypeOKTraduccion /\ TlbOK
  BY DEF InvT
<1>1. tabla' = tabla /\ usuario' = usuario /\ swap' = swap => ContenidoIgual
  BY DEF ContenidoIgual, Contenido
<1>2. instr = Ninguna \/ instr.paginas # <<>> \/ instr' = instr => ~ Ejecuta
  BY DEF Ejecuta, Completa
<1>3. ASSUME NEW q \in Procesos, Recibir(q)
      PROVE  ContenidoIgual /\ ~ Ejecuta
  BY <1>1, <1>2, <1>3 DEF Recibir
<1>4. CASE Decodificar \/ Seguir
  <2>1. PICK i : Traducir(i)
    BY <1>4 DEF Decodificar, Seguir
  <2>2. tabla' = tabla /\ usuario' = usuario /\ swap' = swap
    BY <2>1 DEF Traducir, Acierto, Fallo, CpuPedir, vars
  <2>3. instr = Ninguna \/ instr.paginas # <<>>
    BY <1>4 DEF Decodificar, Seguir
  <2>. QED  BY <1>1, <1>2, <2>2, <2>3
<1>5. CASE Volver
  BY <1>1, <1>2, <1>5 DEF Volver, vars
<1>6. CASE RecibirMarco
  <2>1. instr.paginas # <<>>
    BY <1>0, <1>6 DEF RecibirMarco, TlbOK
  <2>. QED  BY <1>1, <1>2, <1>6, <2>1 DEF RecibirMarco
<1>7. CASE Modulo
  <2>1. instr' = instr /\ Procesos \ {pid} \in SUBSET Procesos
    BY <1>7 DEF Modulo, varsCpu
  <2>. QED  BY <1>0, <1>2, <1>7, <2>1, ContenidoMarco, ContenidoKernel DEF Modulo
<1>8. CASE UNCHANGED varsTodo
  BY <1>1, <1>2, <1>8 DEF varsTodo, varsCpu, vars
<1>. QED  BY <1>3, <1>4, <1>5, <1>6, <1>7, <1>8 DEF NextTraduccion, HiloCpu

\* The page is found in its frame.
Fresca(q, g) == tabla[q][g].p /\ ~ Soltandose(q, g) /\ ~ Trayendose(q, g)

SinFrescaOK == InvM /\ SinFines =>
    \A q \in Procesos, g \in Paginas : ~ Fresca(q, g) => ~ Danada(q, g)

\* A page that is found in its file has its good copy there.
LEMMA SinFrescaSana == SinFrescaOK
<1>. SUFFICES ASSUME InvM, SinFines, NEW q \in Procesos, NEW g \in Paginas, ~ Fresca(q, g)
              PROVE  ~ Danada(q, g)
  BY DEF SinFrescaOK
<1>1. Visible(q, g) = swap[q][g]
  BY DEF Fresca, Visible
<1>2. ~ (tabla[q][g].p /\ tabla[q][g].m)
  <2>1. Trayendose(q, g) => ~ tabla[q][g].m
    BY DEF InvM, RespuestaOK, Pedida, Trayendose, En
  <2>. QED  BY <2>1, SoltandoseLimpia DEF Fresca
<1>. QED  BY <1>1, <1>2 DEF Contenido, Danada

LEMMA SinFrescaDespues == SinFrescaOK'
<1>1. SinFrescaOK
  BY SinFrescaSana
<1>. QED  BY <1>1, PTL

\* A page that stays in its frame, which nobody writes, still shows its good copy.
LEMMA FrescaSana ==
    ASSUME InvM', SinFines', NEW q \in Procesos, NEW g \in Paginas, ~ Danada(q, g),
           Contenido(q, g)' = Contenido(q, g),
           Fresca(q, g)' => /\ Fresca(q, g) /\ tabla'[q][g].marco = tabla[q][g].marco
                            /\ usuario'[tabla[q][g].marco] = usuario[tabla[q][g].marco]
    PROVE  ~ Danada(q, g)'
<1>1. CASE Fresca(q, g)'
  <2>1. Visible(q, g) = usuario[tabla[q][g].marco]
    BY <1>1 DEF Fresca, Visible
  <2>2. Visible(q, g)' = usuario'[tabla'[q][g].marco]
    BY <1>1 DEF Fresca, Visible
  <2>. QED  BY <1>1, <2>1, <2>2 DEF Danada
<1>2. CASE ~ Fresca(q, g)'
  BY <1>2, SinFrescaDespues DEF SinFrescaOK
<1>. QED  BY <1>1, <1>2

\* Which pages are found in their frames after a step: those that were, unless
\* the step ends the loading or the taking out of the page.
LEMMA FrescaAntes ==
    ASSUME EfectoMarcas, NEW q \in Procesos, NEW g \in Paginas, Fresca(q, g)',
           Trayendose(q, g) => Trayendose(q, g)',
           Soltandose(q, g) => Soltandose(q, g)' \/ ~ tabla'[q][g].p
    PROVE  Fresca(q, g) /\ tabla'[q][g].marco = tabla[q][g].marco
BY DEF EfectoMarcas, Fresca

LEMMA SanaMarco ==
    ASSUME InvM, InvM', SinFines, SinFines', ~ OtroArchivo, ~ TraidaDeOtro, CpuMarco,
           NEW q \in Procesos, NEW g \in Paginas, ~ Danada(q, g)
    PROVE  ~ Danada(q, g)'
<1>0. Contenido(q, g)' = Contenido(q, g) /\ EfectoMarcas /\ TypeOK /\ HilosOK /\ PropiosOK
  BY ContenidoMarco, EfectoMarco DEF InvM, ContenidoIgual
<1>1. kernel' = kernel
  BY DEF CpuMarco, CpuPresente, CpuFalla, CpuSinContador, CpuSinMarco, CpuOcupar,
         CpuReemplazar, CpuEscribir, CpuAsignar, CpuTraer, CpuCargar
<1>2. Soltandose(q, g) => Soltandose(q, g)'
  BY <1>1 DEF Soltandose
<1>3. CASE ~ CpuCargar
  <2>1. usuario' = usuario
    BY <1>3 DEF CpuMarco, CpuPresente, CpuFalla, CpuSinContador, CpuSinMarco, CpuOcupar,
                CpuReemplazar, CpuEscribir, CpuAsignar, CpuTraer
  <2>2. Trayendose(q, g) => Trayendose(q, g)'
    <3>. SUFFICES ASSUME Trayendose(q, g)
                  PROVE  Trayendose(q, g)'
      OBVIOUS
    <3>1. cpu \in CpuTipo /\ cpu.en \in {"asignar", "traer", "cargar"}
      BY <1>0 DEF TypeOK, Trayendose
    <3>2. CpuAsignar \/ CpuTraer \/ UNCHANGED cpu
      BY <1>3, <3>1 DEF CpuMarco, CpuPresente, CpuFalla, CpuSinContador, CpuSinMarco,
                        CpuOcupar, CpuReemplazar, CpuEscribir
    <3>3. CASE CpuAsignar
      BY <3>1, <3>3 DEF CpuAsignar, Cpu, CpuTipo, Trayendose
    <3>4. CASE CpuTraer
      BY <3>1, <3>4 DEF CpuTraer, CpuTipo, Trayendose
    <3>. QED  BY <3>2, <3>3, <3>4 DEF Trayendose
  <2>. QED  BY <1>0, <1>2, <2>1, <2>2, FrescaAntes, FrescaSana
<1>4. CASE CpuCargar
  <2>1. PICK r \in Procesos, h \in Paginas, x \in Entradas, f \in Marcos :
          /\ r = cpu.p /\ h = cpu.g /\ x = tabla[r][h] /\ ~ x.m /\ f = cpu.marco
          /\ x = Pedida /\ cpu.dato = swap[r][h] /\ Trayendose(r, h)
    BY <1>0, <1>4, PedidaTipo DEF CpuCargar, InvM, HilosOK, RespuestaOK, En, Pedida,
                                  TraidaDeOtro, Trayendose
  <2>2. PICK e \in Entradas : e = [x EXCEPT !.p = TRUE, !.marco = f]
    BY DEF Entradas
  <2>3. ~ e.m /\ e.marco = f
    BY <2>1, <2>2 DEF Entradas
  <2>4. /\ tabla' = Con(r, h, e) /\ swap' = swap /\ usuario' = [usuario EXCEPT ![f] = cpu.dato]
    BY <1>4, <2>1, <2>2 DEF CpuCargar
  <2>5. tabla'[r][h] = e
    BY <1>0, <2>4, ConEfecto
  <2>6. usuario'[f] = swap[r][h] /\ \A k \in Marcos : k # f => usuario'[k] = usuario[k]
    BY <1>0, <2>1, <2>4 DEF TypeOK
  <2>7. CASE q = r /\ g = h
    <3>1. Contenido(q, g)' = swap[q][g]
      BY <2>3, <2>4, <2>5, <2>7 DEF Contenido
    <3>2. Visible(q, g)' = swap[q][g]
      BY <2>3, <2>4, <2>5, <2>6, <2>7 DEF Visible
    <3>. QED  BY <3>1, <3>2 DEF Danada
  <2>8. CASE ~ (q = r /\ g = h)
    <3>1. ~ Trayendose(q, g)
      BY <2>1, <2>8 DEF Trayendose
    <3>2. ASSUME Fresca(q, g)'
          PROVE  /\ Fresca(q, g) /\ tabla'[q][g].marco = tabla[q][g].marco
                 /\ usuario'[tabla[q][g].marco] = usuario[tabla[q][g].marco]
      <4>1. Fresca(q, g) /\ tabla'[q][g].marco = tabla[q][g].marco
        BY <1>0, <1>2, <3>1, <3>2, FrescaAntes
      <4>2. marcos[tabla[q][g].marco] = q /\ tabla[q][g].marco \in Marcos
        BY <1>0, <4>1 DEF Fresca, PropiosOK, InvM, MarcasOK
      <4>3. /\ marcos[f] = r
            /\ \A k \in Paginas : tabla[r][k].p /\ tabla[r][k].marco = f => k = h
        BY <1>0, <1>4, <2>1 DEF CpuCargar, PropiosOK, En, Presentes
      <4>4. tabla[q][g].marco # f
        BY <2>8, <4>1, <4>2, <4>3 DEF Fresca
      <4>. QED  BY <2>6, <4>1, <4>2, <4>4
    <3>. QED  BY <1>0, <3>2, FrescaSana
  <2>. QED  BY <2>7, <2>8
<1>. QED  BY <1>3, <1>4

LEMMA SanaKernel ==
    ASSUME InvM, InvM', SinFines, SinFines', ~ OtroArchivo,
           NEW S \in SUBSET Procesos, Kernel(S),
           NEW q \in Procesos, NEW g \in Paginas, ~ Danada(q, g), ~ Limpiada(q, g)
    PROVE  ~ Danada(q, g)'
<1>0. Contenido(q, g)' = Contenido(q, g) /\ EfectoMarcas /\ TypeOK /\ HilosOK /\ PropiosOK
      /\ RestoOK
  BY ContenidoKernel, EfectoKernel DEF InvM, ContenidoIgual
<1>1. cpu' = cpu
  BY DEF Kernel, KernelHilo, KInicializar, KSuspender, KFinalizar, KListar, KBajar,
         KSoltar, KBits, KLiberar, KBorrar, KLimpiar
<1>2. Trayendose(q, g) => Trayendose(q, g)'
  BY <1>1 DEF Trayendose
<1>3. ASSUME Soltandose(q, g)
      PROVE  Soltandose(q, g)' \/ ~ tabla'[q][g].p
  <2>1. kernel.en = "bits" /\ q = kernel.p /\ g = Head(kernel.resto)
    BY <1>3 DEF Soltandose
  <2>2. KBits \/ kernel' = kernel
    BY <2>1 DEF Kernel, KernelHilo, KInicializar, KSuspender, KFinalizar, Disponible,
                KListar, KBajar, KSoltar, KLiberar, KBorrar, KLimpiar
  <2>3. CASE KBits
    <3>1. PICK x \in Entradas : x = tabla[q][g]
      BY <1>0 DEF TypeOK
    <3>2. PICK y \in Entradas : y = Fuera(x) /\ ~ y.p
      <4>1. Fuera(x) \in Entradas /\ ~ Fuera(x).p
        BY DEF Fuera, Entradas
      <4>. QED  BY <4>1
    <3>3. PICK e \in Entradas : e = [y EXCEPT !.u = FALSE]
      BY DEF Entradas
    <3>4. ~ e.p
      BY <3>2, <3>3 DEF Entradas
    <3>5. tabla' = Con(q, g, e)
      BY <2>1, <2>3, <3>1, <3>2, <3>3 DEF KBits
    <3>. QED  BY <1>0, <3>4, <3>5, ConEfecto
  <2>. QED  BY <1>3, <2>2, <2>3 DEF Soltandose
<1>4. CASE KLimpiar
  <2>1. PICK r \in Procesos : r = kernel.p
    BY <1>0, <1>4 DEF KLimpiar, HilosOK
  <2>2. /\ tabla' = tabla /\ kernel.en = "limpiar" /\ kernel' = Descanso
        /\ \A f \in Marcos : (\A k \in Paginas : tabla[r][k].p => tabla[r][k].marco # f)
                               => usuario'[f] = usuario[f]
    BY <1>4, <2>1 DEF KLimpiar, Presentes
  <2>3. ASSUME Fresca(q, g)'
        PROVE  /\ Fresca(q, g) /\ tabla'[q][g].marco = tabla[q][g].marco
               /\ usuario'[tabla[q][g].marco] = usuario[tabla[q][g].marco]
    <3>1. Fresca(q, g)
      BY <1>0, <1>2, <1>3, <2>3, FrescaAntes
    <3>2. q # r
      BY <2>1, <2>2, <3>1 DEF Limpiada, Fresca
    <3>3. marcos[tabla[q][g].marco] = q /\ tabla[q][g].marco \in Marcos
      BY <1>0, <3>1 DEF Fresca, PropiosOK, InvM, MarcasOK
    <3>4. \A k \in Paginas : tabla[r][k].p => marcos[tabla[r][k].marco] = r
      BY <1>0, <2>2 DEF PropiosOK, Soltandose
    <3>. QED  BY <2>2, <3>1, <3>2, <3>3, <3>4
  <2>. QED  BY <1>0, <2>3, FrescaSana
<1>5. CASE ~ KLimpiar
  <2>1. usuario' = usuario
    BY <1>5 DEF Kernel, KernelHilo, KInicializar, KSuspender, KFinalizar, KListar, KBajar,
                KSoltar, KBits, KLiberar, KBorrar
  <2>. QED  BY <1>0, <1>2, <1>3, <2>1, FrescaAntes, FrescaSana
<1>. QED  BY <1>4, <1>5

LEMMA SanaEjecutar ==
    ASSUME InvT, InvM', SinFines, SinFines', Ejecutar, \A i \in DOMAIN instr.marcos : Vigente(i),
           NEW q \in Procesos, NEW g \in Paginas, ~ Danada(q, g)
    PROVE  ~ Danada(q, g)'
<1>0. InvM /\ TypeOK /\ PropiosOK /\ MarcasOK
  BY DEF InvT, InvM
<1>1. /\ Ejecuta /\ kernel' = kernel /\ cpu' = cpu
      /\ usuario' = IF instr.op = "READ" THEN usuario ELSE [usuario EXCEPT ![Destino] = Escrito]
  BY DEF Ejecutar, Ejecuta
<1>2. /\ tabla'[q][g].p = tabla[q][g].p /\ tabla'[q][g].marco = tabla[q][g].marco
      /\ cpu.en = "libre" /\ kernel.p # pid
  BY EjecutarEfecto
<1>3. Fresca(q, g)' => Fresca(q, g)
  BY <1>1, <1>2 DEF Fresca, Soltandose, Trayendose
<1>4. Contenido(q, g)' = IF EjecutaEn(q, g) THEN Escrito ELSE Contenido(q, g)
  BY ContenidoEjecutar
<1>5. CASE instr.op = "READ"
  <2>1. Contenido(q, g)' = Contenido(q, g) /\ usuario' = usuario
    BY <1>1, <1>4, <1>5 DEF EjecutaEn
  <2>. QED  BY <1>2, <1>3, <2>1, FrescaSana
<1>6. CASE instr.op # "READ"
  <2>1. PICK h \in Paginas : /\ h = instr.hechas[1] /\ EscribeEn(pid, h, Destino, Escrito)
                             /\ marcos[Destino] = pid /\ Destino \in Marcos /\ pid \in Procesos
    BY <1>6, EjecutarEscribe
  <2>2. CASE q = pid /\ g = h
    <3>1. tabla'[q][g].p /\ tabla'[q][g].m
      BY <1>2, <2>1, <2>2 DEF EscribeEn
    <3>2. CASE Fresca(q, g)'
      BY <3>1, <3>2 DEF Fresca, Visible, Contenido, Danada
    <3>. QED  BY <3>2, SinFrescaDespues DEF SinFrescaOK
  <2>3. CASE ~ (q = pid /\ g = h)
    <3>1. Contenido(q, g)' = Contenido(q, g)
      BY <1>4, <2>1, <2>3 DEF EjecutaEn
    <3>2. ASSUME Fresca(q, g)
          PROVE  usuario'[tabla[q][g].marco] = usuario[tabla[q][g].marco]
      <4>1. marcos[tabla[q][g].marco] = q /\ tabla[q][g].marco \in Marcos
        BY <1>0, <3>2 DEF Fresca, PropiosOK, MarcasOK
      <4>2. tabla[q][g].marco # Destino
        BY <1>0, <2>1, <2>3, <3>2, <4>1 DEF EscribeEn, PropiosOK, Fresca
      <4>3. \A f \in Marcos : f # Destino => usuario'[f] = usuario[f]
        BY <1>0, <1>1 DEF TypeOK
      <4>. QED  BY <4>1, <4>2, <4>3
    <3>. QED  BY <1>2, <1>3, <3>1, <3>2, FrescaSana
  <2>. QED  BY <2>2, <2>3
<1>. QED  BY <1>5, <1>6

\* The end of a process, while it has not freed its frames.
LEMMA SanaFin ==
    ASSUME InvT, NextTraduccion, SinFines, ~ SinFines'
    PROVE  \A q, g : Visible(q, g)' = Visible(q, g) /\ Contenido(q, g)' = Contenido(q, g)
<1>0. InvM /\ TypeOKTraduccion /\ TlbOK /\ TypeOK
  BY DEF InvT, InvM
<1>1. ASSUME vida' = vida
      PROVE  FALSE
  BY <1>1 DEF SinFines
<1>2. ASSUME NEW r \in Procesos, Recibir(r)
      PROVE  FALSE
  BY <1>0, <1>2 DEF Recibir, SinFines, TypeOK
<1>3. CASE HiloCpu
  <2>1. CASE Decodificar \/ Seguir
    <3>1. PICK i : Traducir(i)
      BY <2>1 DEF Decodificar, Seguir
    <3>. QED  BY <1>1, <3>1 DEF Traducir, Acierto, Fallo, CpuPedir, vars
  <2>. QED  BY <1>1, <1>3, <2>1 DEF HiloCpu, Volver, RecibirMarco, Ejecutar, vars
<1>4. CASE Modulo
  <2>1. CASE CpuMarco
    BY <1>1, <2>1 DEF CpuMarco, CpuPresente, CpuFalla, CpuSinContador, CpuSinMarco, CpuOcupar,
                      CpuReemplazar, CpuEscribir, CpuAsignar, CpuTraer, CpuCargar
  <2>2. ASSUME NEW r \in Procesos, KInicializar(r) \/ KSuspender(r)
        PROVE  FALSE
    BY <1>0, <2>2 DEF KInicializar, KSuspender, SinFines, TypeOK
  <2>3. CASE KernelHilo
    BY <1>1, <2>3 DEF KernelHilo, KListar, KBajar, KSoltar, KBits, KLiberar, KBorrar, KLimpiar
  <2>4. ASSUME NEW r \in Procesos, KFinalizar(r)
        PROVE  \A q, g : Visible(q, g)' = Visible(q, g) /\ Contenido(q, g)' = Contenido(q, g)
    <3>1. /\ tabla' = tabla /\ usuario' = usuario /\ swap' = swap /\ cpu' = cpu
          /\ kernel.en = "libre" /\ kernel'.en = "liberar"
      BY <2>4 DEF KFinalizar, Disponible, Descanso
    <3>. QED  BY <3>1 DEF Visible, Contenido, Soltandose, Trayendose
  <2>. QED  BY <1>4, <2>1, <2>2, <2>3, <2>4 DEF Modulo, Kernel
<1>. QED  BY <1>2, <1>3, <1>4 DEF NextTraduccion

\* The steps of the CPU that neither work in a frame nor end the service of a page.
LEMMA SanaCpu ==
    ASSUME InvT, InvM', SinFines, SinFines', [NextTraduccion]_varsTodo, ~ Ejecutar, ~ Modulo,
           ContenidoIgual, NEW q \in Procesos, NEW g \in Paginas, ~ Danada(q, g)
    PROVE  ~ Danada(q, g)'
<1>1. /\ tabla' = tabla /\ usuario' = usuario /\ kernel' = kernel
      /\ (cpu'.en \in {"libre", "pedir"} /\ cpu.en \in {"libre", "acceder"}) \/ cpu' = cpu
  <2>1. ASSUME NEW r \in Procesos, Recibir(r)
        PROVE  tabla' = tabla /\ usuario' = usuario /\ kernel' = kernel /\ cpu' = cpu
    BY <2>1 DEF Recibir
  <2>2. ASSUME NEW i, Traducir(i)
        PROVE  /\ tabla' = tabla /\ usuario' = usuario /\ kernel' = kernel
               /\ (cpu'.en = "pedir" /\ cpu.en = "libre") \/ cpu' = cpu
    BY <2>2 DEF Traducir, Acierto, Fallo, CpuPedir, Reposo, vars
  <2>3. CASE RecibirMarco
    BY <2>3 DEF RecibirMarco, Reposo
  <2>4. CASE Volver \/ UNCHANGED varsTodo
    BY <2>4 DEF Volver, varsTodo, vars
  <2>. QED  BY <2>1, <2>2, <2>3, <2>4 DEF NextTraduccion, HiloCpu, Decodificar, Seguir
<1>2. Fresca(q, g)' => Fresca(q, g)
  BY <1>1 DEF Fresca, Soltandose, Trayendose
<1>. QED  BY <1>1, <1>2, FrescaSana DEF ContenidoIgual

\* Nothing that a process wrote is lost but what a suspension throws away: whatever
\* the processes, the programs and the order of the steps, an instruction leaves its
\* value in the page it writes, and every other step leaves what every page shows as
\* it is.  Excepted, by name, are the copies from and to the file of another process,
\* the translations that are out of date and the pages left in overwritten frames.
THEOREM NadaSePierdeSiempre == SpecTraduccion => NadaSePierdeTraduciendo
<1>. DEFINE A == /\ SinFines /\ ~ OtroArchivo /\ ~ TraidaDeOtro
                 /\ Ejecuta => \A i \in DOMAIN instr.marcos : Vigente(i)
                 => \A q \in Activos, g \in Paginas :
                      ~ Danada(q, g) /\ ~ Limpiada(q, g) =>
                        /\ Visible(q, g)' = IF EjecutaEn(q, g) THEN Escrito ELSE Visible(q, g)
                        /\ ~ Danada(q, g)'
<1>1. InvT /\ InvT' /\ [NextTraduccion]_varsTodo => A
  <2>. SUFFICES ASSUME InvT, InvT', [NextTraduccion]_varsTodo,
                       SinFines, ~ OtroArchivo, ~ TraidaDeOtro,
                       Ejecuta => \A i \in DOMAIN instr.marcos : Vigente(i),
                       NEW q \in Procesos, NEW g \in Paginas,
                       ~ Danada(q, g), ~ Limpiada(q, g)
                PROVE  /\ Visible(q, g)' = IF EjecutaEn(q, g) THEN Escrito ELSE Visible(q, g)
                       /\ ~ Danada(q, g)'
    BY DEF Activos
  <2>0. InvM /\ InvM' /\ Visible(q, g) = Contenido(q, g)
        /\ (~ Danada(q, g)' <=> Visible(q, g)' = Contenido(q, g)')
    BY DEF InvT, Danada
  <2>1. CASE Ejecutar
    <3>1. Ejecuta /\ SinFines'
      BY <2>1 DEF Ejecutar, Ejecuta, SinFines
    <3>2. Contenido(q, g)' = IF EjecutaEn(q, g) THEN Escrito ELSE Contenido(q, g)
      BY <2>1, <3>1, ContenidoEjecutar
    <3>3. ~ Danada(q, g)'
      BY <2>0, <2>1, <3>1, SanaEjecutar
    <3>. QED  BY <2>0, <3>2, <3>3
  <2>2. CASE ~ Ejecutar
    <3>1. ContenidoIgual /\ ~ Ejecuta
      BY <2>2, ContenidoOtros
    <3>2. ~ EjecutaEn(q, g) /\ Contenido(q, g)' = Contenido(q, g)
      BY <3>1 DEF EjecutaEn, ContenidoIgual
    <3>3. ~ Danada(q, g)'
      <4>1. CASE ~ SinFines'
        <5>1. NextTraduccion
          BY <4>1 DEF varsTodo, vars, SinFines
        <5>. QED  BY <2>0, <4>1, <5>1, SanaFin
      <4>2. CASE SinFines' /\ Modulo
        <5>1. Procesos \ {pid} \in SUBSET Procesos
          OBVIOUS
        <5>. QED  BY <2>0, <4>2, <5>1, SanaMarco, SanaKernel DEF Modulo
      <4>3. CASE SinFines' /\ ~ Modulo
        BY <2>0, <2>2, <3>1, <4>3, SanaCpu
      <4>. QED  BY <4>1, <4>2, <4>3
    <3>. QED  BY <2>0, <3>2, <3>3
  <2>. QED  BY <2>1, <2>2
<1>. QED  BY <1>1, InvTSiempre, PTL DEF SpecTraduccion, NadaSePierdeTraduciendo

-----------------------------------------------------------------------------
(* The frames are enough.                                                  *)

\* The frames of process q before frame f.
MarcosAntes(q, f) == {h \in Usados(q) : h < f}

LEMMA OrdenDeMarcos ==
    ASSUME NEW q \in Procesos
    PROVE  \A f \in Usados(q) :
             /\ Cardinality(MarcosAntes(q, f)) \in 0..(Cardinality(Usados(q)) - 1)
             /\ \A h \in Usados(q) :
                  Cardinality(MarcosAntes(q, h)) = Cardinality(MarcosAntes(q, f)) => h = f
<1>. DEFINE S == Usados(q)
            R == [f \in S |-> MarcosAntes(q, f)]
<1>1. IsFiniteSet(S) /\ S \subseteq Nat
  BY MarcosAssumption, FS_Subset DEF Usados
<1>2. R \in [S -> SUBSET S]
  BY DEF MarcosAntes
<1>3. \A f \in S, h \in S : h \in R[f] <=> h < f
  BY DEF MarcosAntes
<1>. HIDE DEF S
<1>4. \A f \in S : R[f] = MarcosAntes(q, f)
  OBVIOUS
<1>. HIDE DEF R
<1>5. /\ \A x \in S : x \notin R[x]
      /\ \A x, y \in S : x # y => x \in R[y] \/ y \in R[x]
  BY <1>1, <1>3
<1>6. \A x, y \in S : x \in R[y] => R[x] \subseteq R[y]
  <2>. SUFFICES ASSUME NEW x \in S, NEW y \in S, x \in R[y], NEW z \in R[x]
                PROVE  z \in R[y]
    OBVIOUS
  <2>1. z \in S
    BY <1>2
  <2>. QED  BY <1>1, <1>3, <2>1
<1>7. /\ \A x \in S : Cardinality(R[x]) \in 0..(Cardinality(S) - 1)
      /\ \A x, y \in S : Cardinality(R[x]) = Cardinality(R[y]) => x = y
  BY <1>1, <1>2, <1>5, <1>6, Rangos
<1>. QED  BY <1>4, <1>7 DEF S

\* If all the frames are marked, and one process has less than MARCOS_POR_PROCESO,
\* there were not enough frames.
LEMMA MarcosContados ==
    ASSUME IsFiniteSet(Procesos), marcos \in [Marcos -> Procesos], NEW z \in Procesos,
           \A q \in Procesos : Cardinality(Usados(q)) <= MarcosPorProceso,
           Cardinality(Usados(z)) < MarcosPorProceso
    PROVE  Cardinality(Marcos) < MarcosPorProceso * Cardinality(Procesos)
<1>1. PICK m \in Nat : m = MarcosPorProceso /\ m # 0
  BY MarcosPorProcesoAssumption
<1>2. PICK n \in Nat : n = Cardinality(Procesos)
  BY FS_CardinalityType
<1>3. PICK c \in Nat : c = Cardinality(Marcos)
  BY MarcosAssumption, FS_CardinalityType
<1>. DEFINE P == Procesos \X (0..(m - 1))
            S == P \ {<<z, m - 1>>}
            f == [x \in Marcos |-> <<marcos[x], Cardinality(MarcosAntes(marcos[x], x))>>]
<1>4. IsFiniteSet(P) /\ Cardinality(P) = n * m
  <2>1. IsFiniteSet(0..(m - 1)) /\ Cardinality(0..(m - 1)) = m
    <3>1. 0 \in Int /\ m - 1 \in Int /\ ~ (0 > m - 1)
      BY <1>1
    <3>2. IsFiniteSet(0..(m - 1)) /\ Cardinality(0..(m - 1)) = (m - 1) - 0 + 1
      BY <3>1, FS_Interval
    <3>. QED  BY <1>1, <3>2
  <2>. QED  BY <1>2, <2>1, FS_Product
<1>5. IsFiniteSet(S) /\ Cardinality(S) = n * m - 1
  <2>1. <<z, m - 1>> \in P
    BY <1>1
  <2>. HIDE DEF P
  <2>. QED  BY <1>4, <2>1, FS_RemoveElement
<1>6. ASSUME NEW x \in Marcos
      PROVE  f[x] \in S
  <2>1. PICK q \in Procesos : q = marcos[x] /\ x \in Usados(q)
    BY DEF Usados
  <2>2. PICK k : k = Cardinality(MarcosAntes(q, x))
    OBVIOUS
  <2>3. PICK u \in Nat : u = Cardinality(Usados(q)) /\ u <= m /\ (q = z => u < m)
    BY <1>1, MarcosAssumption, FS_Subset, FS_CardinalityType DEF Usados
  <2>4. k \in 0..(u - 1)
    BY <2>1, <2>2, <2>3, OrdenDeMarcos
  <2>5. f[x] = <<q, k>>
    BY <2>1, <2>2
  <2>6. k \in 0..(m - 1) /\ (q = z => k # m - 1)
    BY <1>1, <2>3, <2>4
  <2>. QED  BY <2>5, <2>6
<1>7. ASSUME NEW x \in Marcos, NEW y \in Marcos, f[x] = f[y]
      PROVE  x = y
  <2>1. /\ marcos[x] = marcos[y]
        /\ Cardinality(MarcosAntes(marcos[x], x)) = Cardinality(MarcosAntes(marcos[y], y))
    BY <1>7
  <2>2. PICK q \in Procesos : q = marcos[x] /\ x \in Usados(q) /\ y \in Usados(q)
    BY <2>1 DEF Usados
  <2>. QED  BY <2>1, <2>2, OrdenDeMarcos
<1>8. f \in [Marcos -> S]
  BY <1>6
<1>. HIDE DEF f, S, P
<1>9. ~ (n * m - 1 < c)
  <2>. SUFFICES ASSUME n * m - 1 < c
                PROVE  FALSE
    OBVIOUS
  <2>1. Cardinality(S) < Cardinality(Marcos)
    BY <1>3, <1>5
  <2>2. \E x, y \in Marcos : x # y /\ f[x] = f[y]
    BY <1>5, <1>8, <2>1, MarcosAssumption, FS_PigeonHole
  <2>. QED  BY <1>7, <2>2
<1>10. n * m \in Nat /\ n * m = m * n
  BY <1>1, <1>2
<1>11. c < m * n
  BY <1>9, <1>10
<1>. QED  BY <1>1, <1>2, <1>3, <1>11

\* ocuparMarcoLibre finds a frame: the process that faults has less than
\* MARCOS_POR_PROCESO, and the others not more.
LEMMA HayMarco ==
    ASSUME IsFiniteSet(Procesos), InvM, SinFines, cpu.en = "ocupar",
           Cardinality(Marcos) >= MarcosPorProceso * Cardinality(Procesos)
    PROVE  Libres # {}
<1>. SUFFICES ASSUME Libres = {}
              PROVE  FALSE
  OBVIOUS
<1>0. TypeOK /\ HilosOK /\ CupoOK
  BY DEF InvM
<1>1. marcos \in [Marcos -> Procesos]
  BY <1>0 DEF TypeOK, Libres
<1>2. cpu.p \in Procesos /\ Cardinality(Usados(cpu.p)) < MarcosPorProceso
  BY <1>0 DEF HilosOK, CupoOK, En
<1>3. ASSUME NEW q \in Procesos
      PROVE  Cardinality(Usados(q)) <= MarcosPorProceso
  <2>1. IsFiniteSet(Usados(q)) /\ Cardinality(Usados(q)) \in Nat
    BY MarcosAssumption, FS_Subset, FS_CardinalityType DEF Usados
  <2>2. PICK f : Propios(q) = Usados(q) \/ Propios(q) = Usados(q) \cup {f}
    BY DEF Propios
  <2>3. IsFiniteSet(Propios(q)) /\ Usados(q) \in SUBSET Propios(q)
    BY <2>1, <2>2, FS_AddElement
  <2>4. Cardinality(Usados(q)) <= Cardinality(Propios(q)) /\ Cardinality(Propios(q)) \in Nat
    BY <2>3, FS_Subset, FS_CardinalityType
  <2>5. Cardinality(Propios(q)) <= MarcosPorProceso
    BY <1>0 DEF CupoOK
  <2>. QED  BY <2>1, <2>4, <2>5, MarcosPorProcesoAssumption
<1>4. Cardinality(Marcos) < MarcosPorProceso * Cardinality(Procesos)
  BY <1>1, <1>2, <1>3, MarcosContados
<1>5. PICK a \in Nat : a = Cardinality(Marcos)
  BY MarcosAssumption, FS_CardinalityType
<1>6. PICK b \in Nat : b = MarcosPorProceso * Cardinality(Procesos)
  <2>1. MarcosPorProceso \in Nat /\ Cardinality(Procesos) \in Nat
    BY MarcosPorProcesoAssumption, FS_CardinalityType
  <2>. QED  BY <2>1
<1>. QED  BY <1>4, <1>5, <1>6

\* While nobody has ended and every active process is counted, no step of the module
\* uses a NULL.
LEMMA SigueViva ==
    ASSUME IsFiniteSet(Procesos), InvT, viva, NextTraduccion, SinFines',
           Cardinality(Marcos) >= MarcosPorProceso * Cardinality(Procesos),
           \A q \in Activos' : q < contadores'
    PROVE  viva'
<1>0. InvM /\ TypeOKTraduccion /\ TlbOK /\ HilosOK /\ TypeOK
  BY DEF InvT, InvM
<1>1. ASSUME NEW q \in Procesos, Recibir(q)
      PROVE  viva'
  BY <1>1 DEF Recibir
<1>2. CASE HiloCpu
  <2>1. CASE Decodificar \/ Seguir
    <3>1. PICK i : Traducir(i)
      BY <2>1 DEF Decodificar, Seguir
    <3>. QED  BY <3>1 DEF Traducir, Acierto, Fallo, CpuPedir, vars
  <2>. QED  BY <1>2, <2>1 DEF HiloCpu, Volver, RecibirMarco, Ejecutar, vars
<1>3. CASE Modulo
  <2>1. SinFines
    BY <1>0, <1>3, ModuloQuieto
  <2>2. CASE CpuSinContador
    <3>1. vida' = vida /\ contadores' = contadores /\ cpu.en = "pedir" /\ ~ (cpu.p < contadores)
      <4>1. vida' = vida /\ contadores' = contadores /\ cpu.en = "pedir" /\ cpu.p >= contadores
        BY <2>2 DEF CpuSinContador
      <4>2. cpu.p \in Nat /\ contadores \in Nat
        BY <1>0, <4>1, ProcesosAssumption DEF HilosOK, TypeOK
      <4>. QED  BY <4>1, <4>2
    <3>2. cpu.p \in Procesos /\ vida[cpu.p] = "activo"
      BY <1>0, <3>1 DEF HilosOK
    <3>3. cpu.p \in Activos'
      BY <3>1, <3>2 DEF Activos
    <3>. QED  BY <3>1, <3>3
  <2>3. CASE CpuSinMarco
    BY <1>0, <2>1, <2>3, HayMarco DEF CpuSinMarco
  <2>4. CASE CpuPresente \/ CpuFalla \/ CpuOcupar \/ CpuReemplazar \/ CpuEscribir
             \/ CpuAsignar \/ CpuTraer \/ CpuCargar
    BY <2>4 DEF CpuPresente, CpuFalla, CpuOcupar, CpuReemplazar, CpuEscribir,
                CpuAsignar, CpuTraer, CpuCargar
  <2>5. CASE KLimpiar
    <3>1. kernel.p \in Procesos
      BY <1>0, <2>5 DEF KLimpiar, HilosOK
    <3>2. vida[kernel.p] # "fin"
      BY <2>1, <3>1 DEF SinFines
    <3>. QED  BY <2>5, <3>2 DEF KLimpiar
  <2>6. CASE KListar \/ KBajar \/ KSoltar \/ KBits \/ KLiberar \/ KBorrar
    <3>1. CASE KListar \/ KSoltar \/ KLiberar \/ KBorrar
      BY <3>1 DEF KListar, KSoltar, KLiberar, KBorrar
    <3>2. CASE KBajar \/ KBits
      BY <3>2 DEF KBajar, KBits
    <3>. QED  BY <2>6, <3>1, <3>2
  <2>7. ASSUME NEW q \in Procesos, KInicializar(q) \/ KSuspender(q) \/ KFinalizar(q)
        PROVE  viva'
    BY <2>7 DEF KInicializar, KSuspender, KFinalizar
  <2>. QED  BY <1>3, <2>2, <2>3, <2>4, <2>5, <2>6, <2>7 DEF Modulo, CpuMarco, Kernel, KernelHilo
<1>. QED  BY <1>1, <1>2, <1>3 DEF NextTraduccion

\* With MARCOS_POR_PROCESO frames for each process, ocuparMarcoLibre always finds a
\* frame: the module uses a NULL only for a process that contador_pid lacks.
THEOREM AlcanzanSiempre ==
    ASSUME IsFiniteSet(Procesos)
    PROVE  SpecTraduccion => []MarcosAlcanzan
<1>1. InitTraduccion => MarcosAlcanzan
  BY DEF InitTraduccion, Init, MarcosAlcanzan
<1>2. InvT /\ MarcosAlcanzan /\ [NextTraduccion]_varsTodo => MarcosAlcanzan'
  <2>. SUFFICES ASSUME InvT, MarcosAlcanzan, [NextTraduccion]_varsTodo, SinFines',
                       Cardinality(Marcos) >= MarcosPorProceso * Cardinality(Procesos),
                       \A q \in Activos' : q < contadores'
                PROVE  viva'
    BY DEF MarcosAlcanzan
  <2>1. CASE NextTraduccion
    <3>1. viva
      BY <2>1 DEF NextTraduccion
    <3>. QED  BY <2>1, <3>1, SigueViva
  <2>2. CASE UNCHANGED varsTodo
    <3>1. vida' = vida /\ contadores' = contadores /\ viva' = viva
      BY <2>2 DEF varsTodo, vars
    <3>2. SinFines /\ \A q \in Activos : q < contadores
      BY <3>1 DEF SinFines, Activos
    <3>. QED  BY <3>1, <3>2 DEF MarcosAlcanzan
  <2>. QED  BY <2>1, <2>2
<1>. QED  BY <1>1, <1>2, InvTSiempre, PTL DEF SpecTraduccion
=============================================================================
