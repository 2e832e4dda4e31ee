--------------------------- MODULE MCRouteRefresh ---------------------------
(***************************************************************************)
(* RouteRefresh for TLC: mutations are alike.                              *)
(***************************************************************************)
EXTENDS RouteRefresh, TLC

Symmetry == Permutations(Mutations)
=============================================================================
