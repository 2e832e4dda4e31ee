--------------------------- MODULE BrowserRenderer ---------------------------
(***************************************************************************)
(* The browser renderer decides when a route tree that was handed to React *)
(* can never be displayed again.  Owners of route trees (the client        *)
(* router, route refreshes, Server Function responses) keep the Flight     *)
(* stream behind a tree open until the renderer retires the tree.          *)
(*                                                                         *)
(* A tree is named by the publication order of the render that scheduled   *)
(* it; InitialTree is the hydrated document.  A publication is what the    *)
(* renderer passes to React's setState: [order, shows], where shows is the *)
(* tree it displays.  A navigation or refresh shows itself, a Discard      *)
(* shows the tree it restores, so the three variants of BrowserRender are  *)
(* told apart by comparing the two fields.                                 *)
(***************************************************************************)
EXTENDS Naturals, Functions

CONSTANT
  MaxPublications   (* bound on the publications of one browser session *)

ASSUME PublicationsAssumption == MaxPublications \in Nat

VARIABLES
  current,          (* the publication last committed                      *)
  publicationOrder, (* order of the newest publication                     *)
  liveRenders,      (* the Map from live trees to their LiveRender         *)
  committed,        (* trees whose committed promise is resolved           *)
  retired,          (* trees whose retired promise is resolved             *)
  shown,            (* React: the publication on screen                    *)
  queued            (* React: the publications it has not yet processed    *)

rendererVars == <<current, publicationOrder, liveRenders, committed, retired>>
reactVars == <<shown, queued>>
vars == <<rendererVars, reactVars>>

Orders == 1..MaxPublications
InitialTree == 0
InitialRender == [order |-> 0, shows |-> InitialTree]
Publication == [order : Orders, shows : {InitialTree} \cup Orders]

(***************************************************************************)
(* A LiveRender and, in "at", its place in the Map: the publication order  *)
(* when the key was last inserted.  A JavaScript Map iterates in insertion *)
(* order, and set() of a key it already holds keeps the key's place.       *)
(***************************************************************************)
LiveRender == [tag : {"Scheduled", "DiscardRequested", "Committed"},
               last : Orders, at : Orders]

Insert(map, tree, entry) ==
  [t \in DOMAIN map \cup {tree} |-> IF t = tree THEN entry ELSE map[t]]

Init ==
  /\ current = InitialRender
  /\ publicationOrder = 0
  /\ liveRenders = [t \in {} |-> t]
  /\ committed = {}
  /\ retired = {}
  /\ shown = InitialRender
  /\ queued = {}

-----------------------------------------------------------------------------
(* What the renderer's clients call.                                       *)

Publish(p) == queued' = queued \cup {p}

(* navigate and refresh: hand a new tree to React.                         *)
Schedule ==
  LET order == publicationOrder + 1 IN
  /\ order <= MaxPublications
  /\ publicationOrder' = order
  /\ liveRenders' = Insert(liveRenders, order,
                           [tag |-> "Scheduled", last |-> order, at |-> order])
  /\ Publish([order |-> order, shows |-> order])
  /\ UNCHANGED <<current, committed, retired, shown>>

Discardable(tree) ==
  tree \in DOMAIN liveRenders /\ liveRenders[tree].tag = "Scheduled"

(* Mutant of Retain: the restored tree is not kept.                        *)
RetainNothing(map, tree, order) == map

(* discard re-inserts the tree it will restore at the end of the Map.      *)
Retain(map, tree, order) ==
  IF tree = InitialTree THEN map
  ELSE Insert(map, tree, [tag |-> "Committed", last |-> order, at |-> order])

DiscardRequested(map, tree) ==
  [map EXCEPT ![tree].tag = "DiscardRequested", ![tree].last = tree]

(* discard of a tree that is not merely scheduled only returns its retired *)
(* promise and changes nothing.                                            *)
Discard(tree) ==
  LET order == publicationOrder + 1
      restore == current.shows
  IN
  /\ Discardable(tree)
  /\ order <= MaxPublications
  /\ publicationOrder' = order
  /\ liveRenders' = Retain(DiscardRequested(liveRenders, tree), restore, order)
  /\ Publish([order |-> order, shows |-> restore])
  /\ UNCHANGED <<current, committed, retired, shown>>

-----------------------------------------------------------------------------
(* What React's layout effect calls.                                       *)

(* The TypeErrors of commit: the render was overtaken, or its tree retired. *)
Refused(p) ==
  \/ p.order < current.order
  \/ p.shows # InitialTree /\ p.shows \notin DOMAIN liveRenders

(* The trees that the loop of commit reaches before its break and retires: *)
(* those with no entry before or at their place published after p.         *)
RetiredBy(map, p) ==
  {t \in DOMAIN map \ {p.shows} :
     \A u \in DOMAIN map : map[u].at <= map[t].at => map[u].last <= p.order}

MarkCommitted(map, tree) ==
  IF tree = InitialTree THEN map ELSE [map EXCEPT ![tree].tag = "Committed"]

Commit(p) ==
  LET marked == MarkCommitted(liveRenders, p.shows)
      gone == RetiredBy(marked, p)
  IN
  /\ p # InitialRender
  /\ ~Refused(p)
  /\ current' = p
  /\ committed' = IF p.order = p.shows THEN committed \cup {p.shows} ELSE committed
  /\ liveRenders' = Restrict(marked, DOMAIN marked \ gone)
  /\ retired' = retired \cup gone
  /\ UNCHANGED publicationOrder

-----------------------------------------------------------------------------
(* React, as the root component uses it: state updates are processed in    *)
(* the order they were queued, so the screen only moves to newer           *)
(* publications; by their priorities React may skip some, or show an older *)
(* one while a newer one is already queued.                                *)

ReactCommits ==
  \E p \in queued :
    /\ shown' = p
    /\ queued' = {q \in queued : q.order > p.order}
    /\ Commit(p)

(* React may run the layout effect of the render on screen again.          *)
ReactRepeatsEffect ==
  /\ Commit(shown)
  /\ UNCHANGED reactVars

Next ==
  \/ Schedule
  \/ \E tree \in Orders : Discard(tree)
  \/ ReactCommits
  \/ ReactRepeatsEffect

Spec == Init /\ [][Next]_vars

-----------------------------------------------------------------------------
(* Types of the state.                                                     *)
TypeOK ==
  /\ current \in Publication \cup {InitialRender}
  /\ publicationOrder \in {0} \cup Orders
  /\ DOMAIN liveRenders \subseteq Orders
  /\ \A t \in DOMAIN liveRenders : liveRenders[t] \in LiveRender
  /\ committed \subseteq Orders
  /\ retired \subseteq Orders
  /\ shown \in Publication \cup {InitialRender}
  /\ queued \subseteq Publication

(* The loop of commit stops at the first entry published after the render  *)
(* it commits, which is right only if the Map is sorted by last            *)
(* publication, as the comment in discard claims of its re-insertion.      *)
MapInPublicationOrder ==
  \A t, u \in DOMAIN liveRenders :
    liveRenders[t].at < liveRenders[u].at <=> liveRenders[t].last < liveRenders[u].last

Contract ==
  INSTANCE TreeRetirement WITH screen <- shown, pending <- queued,
                               newest <- publicationOrder, retired <- retired

(* The live trees are exactly those on screen or that some queued          *)
(* publication, a pending discard included, would put there: none is       *)
(* retired too early and none is kept once nothing can show it.            *)
LiveIffDisplayable ==
  /\ DOMAIN liveRenders = Contract!Displayable(shown, queued)
  /\ DOMAIN liveRenders \cap retired = {}

(* Whatever React processes next, commit accepts it: its TypeErrors about  *)
(* overtaken renders and retired trees are wiring errors nobody can reach. *)
CommitsAccepted == \A p \in queued : ~Refused(p)

(* A cancellation that arrives after the tree reached the screen does not  *)
(* take it away: discard then only waits for the tree's retirement.        *)
VisibleTreeStays == ~Discardable(shown.shows)

(* The renderer keeps the promise of TreeRetirement.                       *)
KeepsContract == Contract!Spec

=============================================================================
