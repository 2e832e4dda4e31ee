--------------------------- MODULE MCServerRequest ---------------------------
EXTENDS Server, TLC

CONSTANTS outer, user, shared, t1, t2

(* shared comes after user in one view and without it in another, as in    *)
(* tests/server/application.test.tsx.                                      *)
MCMiddleware == {outer, user, shared}
MCViews == {<<>>, <<outer>>, <<outer, user>>, <<outer, user, shared>>, <<outer, shared>>, <<shared, outer>>}
MCMadeIn == (outer :> <<>>) @@ (user :> <<outer>>) @@ (shared :> <<>>)
MCTasks == {t1, t2}

(* Paths that overlap, with segments that differ in case and parameters    *)
(* that differ in name; one below the reserved prefix and two that no      *)
(* Routes accept.                                                          *)
MCWords == {"docs", "id", "page", Reserved}
MCPathsTried ==
  {<<>>, <<Literal("docs", "mixed")>>, <<Param("id")>>,
   <<Literal("docs", "small"), Param("page")>>, <<Param("id"), Param("id")>>,
   <<Literal(Reserved, "mixed")>>, <<[kind |-> "empty", name |-> "", letters |-> "small"]>>}
MCPagesTried == [params : {{}, {"id"}, {"page"}}]
=============================================================================
