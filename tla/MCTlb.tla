-------------------------------- MODULE MCTlb -------------------------------
(* Instances of the TLB for TLC.                                           *)
EXTENDS Tlb, TLC
=============================================================================
