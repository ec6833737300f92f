------------------------------- MODULE MCCatalog -------------------------------
(* Catalog alone, with interchangeable requests.                            *)
EXTENDS Catalog, TLC

CONSTANTS r1, r2

TwoRequests == {r1, r2}
Updates == {"update"}
RequestSymmetry == Permutations(CatalogRequests)
=============================================================================
