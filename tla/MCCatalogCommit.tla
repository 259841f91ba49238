--------------------------- MODULE MCCatalogCommit ---------------------------
(***************************************************************************)
(* Instances of CatalogCommit for TLC.                                     *)
(***************************************************************************)
EXTENDS CatalogCommit, TLC

Symmetry == Permutations(Client)
=============================================================================
