--------------------------- MODULE MCRouteLoader ----------------------------
(***************************************************************************)
(* RouteLoader for TLC: loads are alike, and so are the entries that the   *)
(* document did not begin with.                                            *)
(***************************************************************************)
EXTENDS RouteLoader, TLC

Symmetry == Permutations(Loads) \cup Permutations(Entries \ {FirstEntry})
=============================================================================
