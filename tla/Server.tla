------------------------------- MODULE Server --------------------------------
(***************************************************************************)
(* A server from its start: the modules of the application build Routes,   *)
(* one of them is compiled and handed to the HTTP router, then a request   *)
(* arrives at one of its pages.                                            *)
(***************************************************************************)
EXTENDS ServerRequest, RouteGraph

(* httpLayer adds every destination to the HTTP router.  The request of    *)
(* this model may be at any of their pages, whatever its path: the Routes  *)
(* are forgotten here, so that TLC does not tell requests apart by them.   *)
Listen ==
  /\ startup = "compiled"
  /\ startup' = "serving"
  /\ calls' = 0
  /\ defined' = {NoRoutes}
  /\ application' = NoRoutes
  /\ visits' = <<>>
  /\ compiled' = <<>>
  /\ UNCHANGED vars

ServerInit == Init /\ GraphInit

ServerNext ==
  \/ GraphNext /\ UNCHANGED vars
  \/ Listen
  \/ startup = "serving" /\ Next /\ UNCHANGED graphVars

ServerSpec == ServerInit /\ [][ServerNext]_<<vars, graphVars>>

FairServerSpec == ServerSpec /\ Fairness
=============================================================================
