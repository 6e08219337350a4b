------------------------------- MODULE PmapMC -------------------------------
(* Pages are interchangeable, and so are the entries of the TLB. *)
EXTENDS Pmap, TLC

AnyPage == Permutations(Pages)
=============================================================================
