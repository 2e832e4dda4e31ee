------------------------------ MODULE RouteGraph ------------------------------
(***************************************************************************)
(* From the calls of ERSC.Routes to the destinations of an application:    *)
(* its modules build Routes from Routes, one of which is compiled.         *)
(* compileRouteGraph visits nested Routes depth first and joins the        *)
(* prefixes once more on its way down; its recursion is a stack of visits  *)
(* here, the next one first.  Layouts and the middleware of the pages are  *)
(* left out; Visit of ServerRequest has the latter.                        *)
(***************************************************************************)
EXTENDS RoutePaths

CONSTANT MaxCalls  \* bound on the calls of page and mount

ASSUME CallsAssumption == MaxCalls \in Nat

VARIABLES
  startup,         \* of the application: building, compiling, compiled or refused
  calls,           \* how many calls returned Routes
  defined,         \* the Routes its modules hold
  application,     \* the Routes that are compiled
  visits,          \* the visits still to be made
  compiled         \* the destinations so far

graphVars == <<startup, calls, defined, application, visits, compiled>>

GraphInit ==
  /\ startup = "building"
  /\ calls = 0
  /\ defined = {NoRoutes}
  /\ application = NoRoutes
  /\ visits = <<>>
  /\ compiled = <<>>

-----------------------------------------------------------------------------
(* The modules of the application.                                         *)

Returns(results) ==
  /\ startup = "building"
  /\ calls < MaxCalls
  /\ calls' = calls + 1
  /\ \E routes \in results : defined' = defined \cup {routes}
  /\ UNCHANGED <<startup, application, visits, compiled>>

CallPage(routes, path, page) == Returns(AddPage(routes, path, page))
CallMount(routes, prefix, child) == Returns(Mount(routes, prefix, child))

-----------------------------------------------------------------------------
(* compileRouteGraph.                                                      *)

VisitOf(routes, prefix) == [routes |-> routes, prefix |-> prefix]

Compile(routes) ==
  /\ startup = "building"
  /\ startup' = "compiling"
  /\ application' = routes
  /\ visits' = <<VisitOf(routes, <<>>)>>
  /\ UNCHANGED <<calls, defined, compiled>>

(* The pages of the visited Routes, and the visits of their mounts.        *)
PagesAt(visit) ==
  [i \in DOMAIN visit.routes.pages |->
     [pattern |-> JoinPaths(visit.prefix, visit.routes.pages[i].path),
      page |-> visit.routes.pages[i].page]]

MountsAt(visit) ==
  [i \in DOMAIN visit.routes.mounts |->
     VisitOf(visit.routes.mounts[i].routes, JoinPaths(visit.prefix, visit.routes.mounts[i].path))]

VisitRoutes ==
  /\ startup = "compiling"
  /\ visits # <<>>
  /\ IF \E i \in DOMAIN PagesAt(Head(visits)) : MatchesReserved(PagesAt(Head(visits))[i].pattern)
     THEN startup' = "refused" /\ UNCHANGED <<visits, compiled>>
     ELSE /\ compiled' = compiled \o PagesAt(Head(visits))
          /\ visits' = MountsAt(Head(visits)) \o Tail(visits)
          /\ UNCHANGED startup
  /\ UNCHANGED <<calls, defined, application>>

FinishCompiling ==
  /\ startup = "compiling"
  /\ visits = <<>>
  /\ startup' = IF compiled = <<>> THEN "refused" ELSE "compiled"
  /\ UNCHANGED <<calls, defined, application, visits, compiled>>

GraphNext ==
  \/ \E routes \in defined, path \in PathsTried :
       \/ \E page \in PagesTried : CallPage(routes, path, page)
       \/ \E child \in defined : CallMount(routes, path, child)
  \/ \E routes \in defined : Compile(routes)
  \/ VisitRoutes
  \/ FinishCompiling

GraphSpec == GraphInit /\ [][GraphNext]_graphVars

-----------------------------------------------------------------------------
(* Types of the state.  Routes hold Routes that were made before them.     *)
Paths == Seq(Segments)
Destination == [pattern : Paths, page : PagesTried]
RoutesOver(routes) ==
  [pages : Seq([path : Paths, page : PagesTried]),
   mounts : Seq([path : Paths, routes : routes]),
   paths : Seq(Paths),
   shapes : SUBSET Seq(Segments \cup {Param("")})]

GraphTypeOK ==
  /\ startup \in {"building", "compiling", "compiled", "refused"}
  /\ calls \in 0..MaxCalls
  /\ defined \subseteq RoutesOver(defined)
  /\ application \in defined
  /\ visits \in Seq([routes : defined, prefix : Paths])
  /\ compiled \in Seq(Destination)

(* However Routes are nested and reused, every page of an application has  *)
(* a request that reaches it and no other page, outside of the framework's *)
(* own paths, and gets from it the parameters it declares; and what mount  *)
(* compared is what compileRouteGraph registers.                           *)
PagesServed ==
  startup = "compiled" =>
    /\ {d.pattern : d \in Range(compiled)} = Range(application.paths)
    /\ \A d \in DOMAIN compiled :
         LET pattern == compiled[d].pattern IN
         /\ compiled[d].page.params = ParamNames(pattern)
         /\ Serves(compiled, d, Spelled(pattern))
         /\ ~MatchesReserved(Spelled(pattern))
=============================================================================
