---------------------------- MODULE MCCatalogStore ----------------------------
(* Instances of CatalogStore for TLC. *)
EXTENDS CatalogStore, TLC

\* bodies are only compared with each other
ContentSymmetry == Permutations(Contents)
=============================================================================
