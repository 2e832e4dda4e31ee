------------------------------ MODULE RoutePaths ------------------------------
(***************************************************************************)
(* The paths of an application: which ones ERSC.Routes accepts, how        *)
(* mounting joins them, and which requests the HTTP router takes to them.  *)
(* Routes are immutable values: page and mount return a new one, so the    *)
(* same Routes can be mounted several times, in any order.                 *)
(*                                                                         *)
(* A path is the sequence of its segments, "/" the empty one.              *)
(***************************************************************************)
EXTENDS Naturals, Sequences, Functions

CONSTANTS
  Words,           (* the names of literal segments and of parameters      *)
  PathsTried,      (* the paths at which pages are declared, Routes mounted *)
  PagesTried,      (* the pages, which differ in their parameters          *)
  Other            (* a word of requests that no path spells               *)

Reserved == "_ersc"

Letters == {"small", "mixed"}
Literal(word, letters) == [kind |-> "literal", name |-> word, letters |-> letters]
Param(word) == [kind |-> "param", name |-> word, letters |-> "small"]

(* Segments no path may have: an empty or dotted one, one with a colon that*)
(* is no parameter name, one with a character the router or a URL claims.  *)
Malformed == [kind : {"empty", "dots", "colon", "special"}, name : {""}, letters : {"small"}]

Segments ==
  {Literal(w, u) : w \in Words, u \in Letters} \cup {Param(w) : w \in Words} \cup Malformed

ASSUME PathsAssumption ==
  /\ PathsTried \subseteq Seq(Segments)
  /\ PagesTried \subseteq [params : SUBSET Words]
  /\ Other \notin Words

ParamAt(path) == {i \in DOMAIN path : path[i].kind = "param"}
ParamNames(path) == {path[i].name : i \in ParamAt(path)}

WellFormed(path) ==
  /\ \A segment \in Range(path) : segment.kind \in {"literal", "param"}
  /\ \A i, j \in ParamAt(path) : path[i].name = path[j].name => i = j

(* What the router tells paths apart by: neither case nor parameter names. *)
Lower(segment) == [segment EXCEPT !.letters = "small"]
Shape(path) ==
  [i \in DOMAIN path |-> IF i \in ParamAt(path) THEN Param("") ELSE Lower(path[i])]

MatchesReserved(path) ==
  path # <<>> /\ (1 \in ParamAt(path) \/ Lower(path[1]) = Literal(Reserved, "small"))

JoinPaths(prefix, path) == prefix \o path

-----------------------------------------------------------------------------
(* Building Routes.  A refused call throws: it has no result.              *)

NoRoutes == [pages |-> <<>>, mounts |-> <<>>, paths |-> <<>>, shapes |-> {}]

(* The types compare the names of the Page's parameters; at run time only  *)
(* their presence is compared.                                             *)
PageFits(path, page) == page.params = ParamNames(path)

AddPage(routes, path, page) ==
  IF WellFormed(path) /\ Shape(path) \notin routes.shapes /\ PageFits(path, page)
  THEN {[routes EXCEPT
           !.pages = Append(@, [path |-> path, page |-> page]),
           !.paths = Append(@, path),
           !.shapes = @ \cup {Shape(path)}]}
  ELSE {}

Mounted(prefix, child) == [i \in DOMAIN child.paths |-> JoinPaths(prefix, child.paths[i])]

Collides(routes, paths) ==
  \E i \in DOMAIN paths :
    \/ Shape(paths[i]) \in routes.shapes
    \/ \E j \in 1..(i - 1) : Shape(paths[j]) = Shape(paths[i])

(* Mutant of Mount: the child's own paths are compared.                    *)
MountUnjoined(routes, prefix, child) ==
  IF WellFormed(prefix) /\ ParamNames(prefix) = {} /\ child.paths # <<>>
     /\ ~Collides(routes, child.paths)
  THEN {[routes EXCEPT
           !.mounts = Append(@, [path |-> prefix, routes |-> child]),
           !.paths = @ \o Mounted(prefix, child),
           !.shapes = @ \cup {Shape(path) : path \in Range(Mounted(prefix, child))}]}
  ELSE {}

Mount(routes, prefix, child) ==
  IF WellFormed(prefix) /\ ParamNames(prefix) = {} /\ child.paths # <<>>
     /\ ~Collides(routes, Mounted(prefix, child))
  THEN {[routes EXCEPT
           !.mounts = Append(@, [path |-> prefix, routes |-> child]),
           !.paths = @ \o Mounted(prefix, child),
           !.shapes = @ \cup {Shape(path) : path \in Range(Mounted(prefix, child))}]}
  ELSE {}

-----------------------------------------------------------------------------
(* The router of the HTTP server: literal segments match in any case and   *)
(* are tried before a parameter.                                           *)

Matches(pattern, url) ==
  /\ Len(pattern) = Len(url)
  /\ \A i \in DOMAIN url : i \in ParamAt(pattern) \/ Lower(pattern[i]) = Lower(url[i])

Precedes(one, other) ==
  \E i \in DOMAIN one \cap DOMAIN other :
    /\ i \notin ParamAt(one) /\ i \in ParamAt(other)
    /\ \A j \in 1..(i - 1) : j \in ParamAt(one) <=> j \in ParamAt(other)

Serves(compiled, d, url) ==
  /\ Matches(compiled[d].pattern, url)
  /\ \A other \in DOMAIN compiled \ {d} :
       Matches(compiled[other].pattern, url) =>
         Precedes(compiled[d].pattern, compiled[other].pattern)

(* The request that spells a pattern: its literal segments, and a word no  *)
(* path has for each parameter.                                            *)
Spelled(pattern) ==
  [i \in DOMAIN pattern |->
     IF i \in ParamAt(pattern) THEN Literal(Other, "small") ELSE Lower(pattern[i])]
=============================================================================
