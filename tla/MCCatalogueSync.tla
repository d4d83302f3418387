----------------------------- MODULE MCCatalogueSync -----------------------------
(***************************************************************************)
(* An instance of CatalogueSync for TLC.  The specification does not tell  *)
(* the two peers apart, so they are a symmetry set.                        *)
(***************************************************************************)
EXTENDS CatalogueSync, TLC

Swaps == Permutations(Peers)
================================================================================
