------------------------------ MODULE Mensajes ------------------------------
(***************************************************************************)
(* The streams of comunicacion.c: what was sent and not yet received.  An  *)
(* operation code goes as one byte before a packet, and as four when       *)
(* enviar_datos sends it alone; recibir_operacion_nuevo receives one byte, *)
(* and recibir_datos as many as it is asked if they are there.  The size   *)
(* and the fields of a packet, which MSG_WAITALL waits for, are one item.  *)
(***************************************************************************)
EXTENDS Integers, SequencesExt

\* op_code
PAQUETE == 0
PAQUETE_CONSOLA == 1
PCB == 3
MARCO == 10
TABLA == 11
HANDSHAKE == 12
INSTRUCCION_MEMORIA == 13
ESCRITURA_OK == 15
ESCRITURA_ERROR == 16

\* codigo_instrucciones
NO_OP == 0
IO == 1
READ == 2
WRITE == 3
COPY == 4
EXIT == 5

\* estado
NUEVO == 0
LISTO == 1
BLOQUEADO == 3
FINALIZADO == 6

-----------------------------------------------------------------------------
(* Bytes, integers and packets.                                            *)

Byte(b) == [cuerpo |-> FALSE, v |-> <<b>>]
Cuerpo(campos) == [cuerpo |-> TRUE, v |-> campos]

\* enviar_datos of an integer below 256: its bytes, the low one first.
Entero(n) == <<Byte(n), Byte(0), Byte(0), Byte(0)>>

\* crear_paquete, agregar_a_paquete for each field, enviar_paquete
Paquete(codigo, campos) == <<Byte(codigo), Cuerpo(campos)>>

\* The loop that receives an operation and ignores all but those it waits for:
\* the stream from the first of them on.
Esperada(s, codigos) ==
    LET i == SelectInSeq(s, LAMBDA x : ~ x.cuerpo /\ x.v[1] \in codigos)
    IN  IF i = 0 THEN <<>> ELSE SubSeq(s, i, Len(s))

\* The first byte of a stream is that of a packet: recibir_paquete.
Entera(s) == Len(s) >= 2 /\ s[2].cuerpo
Campos(s) == s[2].v
Resto(s) == SubSeq(s, 3, Len(s))

\* recibir_datos of n bytes
Luego(s, n) == SubSeq(s, n + 1, Len(s))

-----------------------------------------------------------------------------
(* Instructions and PCBs.                                                  *)

CamposDe(instrucciones) ==
    [i \in 1..(3 * Len(instrucciones)) |->
        LET x == instrucciones[(i + 2) \div 3]
        IN  <<x.codigo, x.parametro1, x.parametro2>>[((i - 1) % 3) + 1]]

Instrucciones(v) ==
    [i \in 1..(Len(v) \div 3) |->
        [codigo |-> v[3 * i - 2], parametro1 |-> v[3 * i - 1], parametro2 |-> v[3 * i]]]

\* Mistake: tamanio_proceso is added before rafaga_anterior.
ArmarPaqueteCambiado(p) ==
    <<p.estado, p.estimacion, p.id, p.pc, p.tamanio, p.rafaga, p.bloqueo, p.tabla,
      Len(p.instrucciones)>> \o CamposDe(p.instrucciones)

ArmarPaquete(p) ==
    <<p.estado, p.estimacion, p.id, p.pc, p.rafaga, p.tamanio, p.bloqueo, p.tabla,
      Len(p.instrucciones)>> \o CamposDe(p.instrucciones)

EnviarPcb(p) == Paquete(PCB, ArmarPaquete(p))

\* recibirPcb
RecibirPcb(s) ==
    LET v == Campos(s)
    IN  [estado |-> v[1], estimacion |-> v[2], id |-> v[3], pc |-> v[4], rafaga |-> v[5],
         tamanio |-> v[6], bloqueo |-> v[7], tabla |-> v[8],
         instrucciones |-> Instrucciones(SubSeq(v, 10, 9 + 3 * v[9]))]
=============================================================================
