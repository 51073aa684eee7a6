------------------------- MODULE MCCimTransmission -------------------------
(* CimTransmission on small instances. *)
EXTENDS CimTransmission, TLC

Symmetry == Permutations(Workers) \cup Permutations(Campaigns)
=============================================================================
