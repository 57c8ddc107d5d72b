----------------------------- MODULE MCPipeline -----------------------------
(***************************************************************************)
(* TLC instance of Pipeline: two web clients, two recipes, an order of     *)
(* each.                                                                   *)
(***************************************************************************)
EXTENDS Pipeline, TLC

CONSTANTS c1, c2, r1, r2, o1, o2

MCRecipeOf == o1 :> r1 @@ o2 :> r2

\* The clients are interchangeable, and so are the two orders with their recipes.
Swap == {c1 :> c1 @@ c2 :> c2, c1 :> c2 @@ c2 :> c1}
Exchange == {r1 :> r1 @@ r2 :> r2 @@ o1 :> o1 @@ o2 :> o2, r1 :> r2 @@ r2 :> r1 @@ o1 :> o2 @@ o2 :> o1}
MCSymmetry == {s @@ e : s \in Swap, e \in Exchange}
=============================================================================
