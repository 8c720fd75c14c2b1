----------------------------- MODULE MCMemoria ------------------------------
(* Instances of the memory module for TLC.                                 *)
EXTENDS Memoria, TLC
=============================================================================
