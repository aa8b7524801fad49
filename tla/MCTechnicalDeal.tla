-------------------------- MODULE MCTechnicalDeal --------------------------
(* Small instances of TechnicalDeal for TLC.                                *)
EXTENDS TechnicalDeal, TLC

WorkerSymmetry == Permutations(Workers)
=============================================================================
