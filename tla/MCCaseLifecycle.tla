--------------------------- MODULE MCCaseLifecycle ----------------------------
(***************************************************************************)
(* A small catalog: two sound curated cases of different age, one with a   *)
(* contradiction in it, and one case a player generates.                   *)
(***************************************************************************)
EXTENDS CaseLifecycle, TLC

CONSTANTS old, new, flawed, live

CatalogCurated == {old, new, flawed}
CatalogSound == {old, new, live}
CatalogAge == old :> 1 @@ new :> 2 @@ flawed :> 0 @@ live :> 3

CallerSymmetry == Permutations(Callers)
=============================================================================
