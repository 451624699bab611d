------------------------------- MODULE MCATA -------------------------------
(* Instances of ATA for TLC: LBAs of two binary digits, sectors of two words. *)
EXTENDS ATA

Weights == [k \in 0..Parts |-> Base^k]
=============================================================================
