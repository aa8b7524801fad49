---------------------------- MODULE MCVkDialog ----------------------------
(* Instances of VkDialog for TLC.  Workers are interchangeable. *)
EXTENDS VkDialog, TLC

WorkerSymmetry == Permutations(InWorkers) \union Permutations(OutWorkers)
===========================================================================
