---------------------------- MODULE RouteRefresh ----------------------------
(***************************************************************************)
(* Refreshes of the current route: the fiber that loads and publishes one, *)
(* the handle that keeps at most one of them, and the mutations that end   *)
(* in one, with their own response as a shortcut.  Navigation is reduced   *)
(* to its transition and its tree, React to the commit of the newest tree. *)
(*                                                                         *)
(* A tree carries the version of the server's data that it shows.          *)
(***************************************************************************)
EXTENDS Naturals

CONSTANTS
  Mutations,       (* Server Function calls of one browser session         *)
  Updates,         (* hot updates that refresh the route                   *)
  NoFiber,
  MaxEntries       (* bound on navigations                                 *)

ASSUME RefreshAssumption ==
  /\ NoFiber \notin Mutations \cup Updates \cup Nat
  /\ Mutations \cap Updates = {}
  /\ (Mutations \cup Updates) \cap Nat = {}
  /\ MaxEntries \in Nat

(* Every mutation and every update starts at most one refresh.             *)
Fibers == Mutations \cup Updates

VARIABLES
  version,         (* the server's data: how many mutations it executed    *)
  latestInvocationOrder,
  mutation,        (* per mutation, its call                               *)
  fiber,           (* per refresh fiber, its state                         *)
  refreshes,       (* the fiber in the FiberHandle                         *)
  navigation,      (* the routed navigation under way                      *)
  entry,           (* the current history entry and the page it shows      *)
  page,
  entries,         (* how many entries there were                          *)
  published,       (* the newest tree given to the renderer                *)
  visible,         (* the tree React committed                             *)
  pending,         (* whose trees were given to the renderer since then    *)
  preempted,       (* a navigation interrupted or overtook a refresh, and  *)
                   (* none has arrived since; or loading a refresh failed  *)
  abandoned        (* history: navigations that failed or were aborted     *)
                   (* after React had committed their tree                 *)

serverVars == <<version, latestInvocationOrder, mutation>>
fiberVars == <<fiber, refreshes>>
navigationVars == <<navigation, entry, page, entries>>
rendererVars == <<published, visible, pending>>
historyVars == <<preempted, abandoned>>
vars == <<serverVars, fiberVars, navigationVars, rendererVars, historyVars>>

(* What a fiber that loads keeps: the data and the page it asked for.      *)
Fiber(phase, since, where) == [phase |-> phase, since |-> since, page |-> where]
NoNavigation == [phase |-> "idle", since |-> 0, target |-> 0]
Tree(source, data, where) == [source |-> source, version |-> data, page |-> where]

(* navigation.transition is not null.                                      *)
Navigating == navigation.phase # "idle"

Init ==
  /\ version = 0
  /\ latestInvocationOrder = 0
  /\ mutation = [m \in Mutations |-> [phase |-> "idle", order |-> 0, entry |-> 0, page |-> 0,
                                      effect |-> 0, response |-> 0, awaits |-> NoFiber]]
  /\ fiber = [f \in Fibers |-> Fiber("idle", 0, 0)]
  /\ refreshes = NoFiber
  /\ navigation = NoNavigation
  /\ entry = 0
  /\ page = 0
  /\ entries = 0
  /\ published = Tree(0, 0, 0)
  /\ visible = published
  /\ pending = {}
  /\ preempted = FALSE
  /\ abandoned = {}

-----------------------------------------------------------------------------
(* Refresh fibers.                                                         *)

Running(f) == f \in Fibers /\ fiber[f].phase \in {"waiting", "loading", "published", "committed"}

(* Interruption ends a fiber's work at once; its scopes close afterwards.  *)
Interrupted(f) ==
  IF Running(f) THEN [fiber EXCEPT ![f] = Fiber("closing", 0, 0)] ELSE fiber

(* The renderer: a tree is scheduled, or a tree that is still pending is   *)
(* discarded, which schedules the visible tree in its place.               *)
Schedule(tree) ==
  /\ published' = tree
  /\ pending' = pending \cup {tree.source}
  /\ UNCHANGED visible

Discard(source) ==
  /\ published' = IF source \in pending THEN visible ELSE published
  /\ pending' = pending \ {source}
  /\ UNCHANGED visible

(* Mutant of StartRefresh: the route is loaded whatever is under way.      *)
StartRefreshNow(f) ==
  /\ fiber[f].phase = "idle"
  /\ fiber' = [Interrupted(refreshes) EXCEPT
                 ![f] = Fiber("loading", version, page)]
  /\ refreshes' = f
  /\ Discard(refreshes)

(* The new fiber runs up to its first wait; then the handle takes it in    *)
(* and interrupts the one it held.                                         *)
StartRefresh(f) ==
  /\ fiber[f].phase = "idle"
  /\ fiber' = [Interrupted(refreshes) EXCEPT
                 ![f] = IF Navigating THEN Fiber("waiting", 0, 0)
                        ELSE Fiber("loading", version, page)]
  /\ refreshes' = f
  /\ Discard(refreshes)

(* The handle forgets a fiber that exits.                                  *)
Exit(f) ==
  /\ fiber' = [fiber EXCEPT ![f] = Fiber("done", 0, 0)]
  /\ refreshes' = IF refreshes = f THEN NoFiber ELSE refreshes

BecomeIdle(f) ==
  /\ fiber[f].phase = "waiting"
  /\ ~Navigating
  /\ fiber' = [fiber EXCEPT ![f] = Fiber("loading", version, page)]
  /\ UNCHANGED <<serverVars, refreshes, navigationVars, rendererVars, historyVars>>

(* The server rendered the route at some time since it was requested.      *)
PublishRefresh(f) ==
  /\ fiber[f].phase = "loading"
  /\ \E v \in fiber[f].since..version : Schedule(Tree(f, v, fiber[f].page))
  /\ fiber' = [fiber EXCEPT ![f] = Fiber("published", 0, 0)]
  /\ UNCHANGED <<serverVars, refreshes, navigationVars, historyVars>>

(* Loading failed, or the response asks for a document.                    *)
FailRefresh(f) ==
  /\ fiber[f].phase = "loading"
  /\ Exit(f)
  /\ preempted' = TRUE
  /\ UNCHANGED <<serverVars, navigationVars, rendererVars, abandoned>>

FinishRefresh(f) ==
  /\ fiber[f].phase = "committed"
  /\ Exit(f)
  /\ UNCHANGED <<serverVars, navigationVars, rendererVars, historyVars>>

CloseRefresh(f) ==
  /\ fiber[f].phase = "closing"
  /\ Exit(f)
  /\ UNCHANGED <<serverVars, navigationVars, rendererVars, historyVars>>

HotUpdate(u) ==
  /\ StartRefresh(u)
  /\ UNCHANGED <<serverVars, navigationVars, historyVars>>

-----------------------------------------------------------------------------
(* Mutations.                                                              *)

Invoke(m) ==
  /\ mutation[m].phase = "idle"
  /\ latestInvocationOrder' = latestInvocationOrder + 1
  /\ mutation' = [mutation EXCEPT ![m].phase = "requested", ![m].order = latestInvocationOrder',
                                  ![m].entry = entry, ![m].page = page]
  /\ UNCHANGED <<version, fiberVars, navigationVars, rendererVars, historyVars>>

(* The server executes the function before it renders the route.           *)
Execute(m) ==
  /\ mutation[m].phase = "requested"
  /\ version' = version + 1
  /\ mutation' = [mutation EXCEPT ![m].phase = "executed", ![m].effect = version']
  /\ UNCHANGED <<latestInvocationOrder, fiberVars, navigationVars, rendererVars, historyVars>>

Answer(m) ==
  /\ mutation[m].phase = "executed"
  /\ \E v \in mutation[m].effect..version :
       mutation' = [mutation EXCEPT ![m].phase = "answered", ![m].response = v]
  /\ UNCHANGED <<version, latestInvocationOrder, fiberVars, navigationVars,
                 rendererVars, historyVars>>

(* The request fails, executed or not.                                     *)
FailMutation(m) ==
  /\ mutation[m].phase \in {"requested", "executed"}
  /\ mutation' = [mutation EXCEPT ![m].phase = "failed"]
  /\ UNCHANGED <<version, latestInvocationOrder, fiberVars, navigationVars,
                 rendererVars, historyVars>>

(* The refresh source is the response.                                     *)
Applicable(m) ==
  /\ mutation[m].order = latestInvocationOrder
  /\ mutation[m].entry = entry
  /\ ~Navigating

(* Mutant of SelectSource: older refreshes go on.                          *)
SelectWithoutInterrupt(m) ==
  /\ mutation[m].phase = "answered"
  /\ \/ /\ Applicable(m)
        /\ mutation' = [mutation EXCEPT ![m].phase = "clearing"]
        /\ UNCHANGED <<fiberVars, rendererVars>>
     \/ /\ ~Applicable(m)
        /\ mutation' = [mutation EXCEPT ![m].phase = "refreshed", ![m].awaits = NoFiber]
        /\ StartRefresh(m)
  /\ UNCHANGED <<version, latestInvocationOrder, navigationVars, historyVars>>

(* The caller has its result.  A response that applies interrupts the      *)
(* refresh in the handle and awaits it.                                    *)
SelectSource(m) ==
  /\ mutation[m].phase = "answered"
  /\ \/ /\ Applicable(m)
        /\ mutation' = [mutation EXCEPT ![m].phase = "clearing", ![m].awaits = refreshes]
        /\ fiber' = Interrupted(refreshes)
        /\ Discard(refreshes)
        /\ UNCHANGED refreshes
     \/ /\ ~Applicable(m)
        /\ mutation' = [mutation EXCEPT ![m].phase = "refreshed", ![m].awaits = NoFiber]
        /\ StartRefresh(m)
  /\ UNCHANGED <<version, latestInvocationOrder, navigationVars, historyVars>>

Cleared(m) == \A f \in Fibers : mutation[m].awaits = f => fiber[f].phase = "done"

(* Mutant of ApplyResponse: the source was selected once and for all.      *)
ApplyUnchecked(m) ==
  /\ mutation[m].phase = "clearing"
  /\ Cleared(m)
  /\ mutation' = [mutation EXCEPT ![m].phase = "rendered", ![m].awaits = NoFiber]
  /\ Schedule(Tree(m, mutation[m].response, mutation[m].page))
  /\ UNCHANGED <<version, latestInvocationOrder, fiberVars, navigationVars, historyVars>>

(* A navigation or another invocation may have won meanwhile.              *)
ApplyResponse(m) ==
  /\ mutation[m].phase = "clearing"
  /\ Cleared(m)
  /\ \/ /\ Applicable(m)
        /\ mutation' = [mutation EXCEPT ![m].phase = "rendered", ![m].awaits = NoFiber]
        /\ Schedule(Tree(m, mutation[m].response, mutation[m].page))
        /\ UNCHANGED fiberVars
     \/ /\ ~Applicable(m)
        /\ mutation' = [mutation EXCEPT ![m].phase = "refreshed", ![m].awaits = NoFiber]
        /\ StartRefresh(m)
  /\ UNCHANGED <<version, latestInvocationOrder, navigationVars, historyVars>>

-----------------------------------------------------------------------------
(* The environment: navigation and React.                                  *)

(* Mutant of Navigate: the refresh goes on.                                *)
NavigateBeside ==
  /\ ~Navigating
  /\ entries < MaxEntries
  /\ entries' = entries + 1
  /\ navigation' = [phase |-> "loading", since |-> version, target |-> entries']
  /\ UNCHANGED <<serverVars, fiberVars, entry, page, rendererVars, historyVars>>

(* A routed navigation wins the race against a refresh that is loading or  *)
(* waits for its commit; one that waits for idleness is not in it yet.     *)
Raced(f) == f \in Fibers /\ fiber[f].phase \in {"loading", "published", "committed"}

Navigate ==
  /\ ~Navigating
  /\ entries < MaxEntries
  /\ entries' = entries + 1
  /\ navigation' = [phase |-> "loading", since |-> version, target |-> entries']
  /\ IF Raced(refreshes)
     THEN fiber' = Interrupted(refreshes) /\ Discard(refreshes) /\ preempted' = TRUE
     ELSE UNCHANGED <<fiber, rendererVars, preempted>>
  /\ UNCHANGED <<serverVars, refreshes, entry, page, abandoned>>

PublishNavigation ==
  /\ navigation.phase = "loading"
  /\ navigation' = [navigation EXCEPT !.phase = "published"]
  /\ \E v \in navigation.since..version :
       Schedule(Tree(navigation.target, v, navigation.target))
  /\ preempted' = (preempted \/ pending # {})
  /\ UNCHANGED <<serverVars, fiberVars, entry, page, entries, abandoned>>

CommitNavigation ==
  /\ navigation.phase = "published"
  /\ visible.source = navigation.target
  /\ navigation' = NoNavigation
  /\ entry' = navigation.target
  /\ page' = navigation.target
  /\ preempted' = FALSE
  /\ UNCHANGED <<serverVars, fiberVars, entries, rendererVars, abandoned>>

(* The navigation fails, or the browser or a successor aborts it, at any   *)
(* time before its entry is committed.  A tree that React committed in the *)
(* meantime stays: discard only awaits its retirement.                     *)
AbortNavigation ==
  /\ Navigating
  /\ navigation' = NoNavigation
  /\ Discard(navigation.target)
  /\ abandoned' = abandoned \cup ({navigation.target} \cap {visible.source})
  /\ UNCHANGED <<serverVars, fiberVars, entry, page, entries, preempted>>

(* A new entry for the same page, which the router leaves alone.           *)
NavigateFragment ==
  /\ ~Navigating
  /\ entries < MaxEntries
  /\ entries' = entries + 1
  /\ entry' = entries'
  /\ UNCHANGED <<serverVars, fiberVars, navigation, page, rendererVars, historyVars>>

Commit ==
  /\ visible # published
  /\ visible' = published
  /\ pending' = {}
  /\ fiber' = [f \in Fibers |->
                 IF f = published.source /\ fiber[f].phase = "published"
                 THEN [fiber[f] EXCEPT !.phase = "committed"] ELSE fiber[f]]
  /\ UNCHANGED <<serverVars, refreshes, navigationVars, published, historyVars>>

MutationStep(m) ==
  \/ Invoke(m) \/ Execute(m) \/ Answer(m) \/ FailMutation(m)
  \/ SelectSource(m) \/ ApplyResponse(m)

FiberStep(f) ==
  \/ BecomeIdle(f) \/ PublishRefresh(f) \/ FailRefresh(f) \/ FinishRefresh(f) \/ CloseRefresh(f)

Next ==
  \/ \E m \in Mutations : MutationStep(m)
  \/ \E f \in Fibers : FiberStep(f)
  \/ \E u \in Updates : HotUpdate(u)
  \/ Navigate \/ PublishNavigation \/ CommitNavigation \/ AbortNavigation \/ NavigateFragment
  \/ Commit

Spec == Init /\ [][Next]_vars

-----------------------------------------------------------------------------
(* Types of the state.                                                     *)
Trees == [source : Fibers \cup 0..MaxEntries, version : Nat, page : 0..MaxEntries]

TypeOK ==
  /\ version \in Nat
  /\ latestInvocationOrder \in Nat
  /\ mutation \in [Mutations ->
       [phase : {"idle", "requested", "executed", "answered", "clearing", "rendered", "refreshed", "failed"},
        order : Nat, entry : 0..MaxEntries, page : 0..MaxEntries,
        effect : Nat, response : Nat, awaits : Fibers \cup {NoFiber}]]
  /\ fiber \in [Fibers ->
       [phase : {"idle", "waiting", "loading", "published", "committed", "closing", "done"},
        since : Nat, page : 0..MaxEntries]]
  /\ refreshes \in Fibers \cup {NoFiber}
  /\ navigation \in [phase : {"idle", "loading", "published"}, since : Nat, target : 0..MaxEntries]
  /\ {entry, page, entries} \subseteq 0..MaxEntries
  /\ {published, visible} \subseteq Trees
  /\ pending \subseteq Fibers \cup 0..MaxEntries
  /\ preempted \in BOOLEAN
  /\ abandoned \subseteq 0..MaxEntries

(* No refresh loads or publishes while a routed navigation is under way,   *)
(* whichever of them began first.                                          *)
RefreshYields ==
  Navigating => \A f \in Fibers : ~Raced(f)

(* Between navigations the newest tree belongs to the page of the current  *)
(* entry: a late response or refresh never shows the page that was left.   *)
(* The one exception is the tree of a navigation that was given up between *)
(* React's commit and the browser's: it stays until a newer one, of a      *)
(* refresh, a response or another navigation, replaces it.                 *)
OfCurrentPage(tree) == tree.page = page \/ tree.source \in abandoned
ScreenMatchesPage == ~Navigating => OfCurrentPage(published)

Quiet ==
  /\ \A m \in Mutations : mutation[m].phase \in {"idle", "rendered", "refreshed", "failed"}
  /\ \A f \in Fibers : ~Running(f)
  /\ ~Navigating

Settled(m) == mutation[m].phase \in {"rendered", "refreshed"}
Latest(m) == mutation[m].order = latestInvocationOrder

(* The latest mutation to be invoked shows its effect once everything has  *)
(* ended, in its own tree or in a later one, unless a navigation that went *)
(* nowhere got in the way or the refresh failed.                           *)
LatestMutationShown ==
  Quiet /\ ~preempted =>
    \A m \in Mutations : Settled(m) /\ Latest(m) => published.version >= mutation[m].effect

(* docs/DECISIONS.md D-065: the latest applicable response renders its     *)
(* tree; its effect stays on screen for as long as the page does.          *)
LatestResponseRenders ==
  Quiet =>
    \A m \in Mutations :
      mutation[m].phase = "rendered" /\ Latest(m) /\ mutation[m].page = page
        => published.version >= mutation[m].effect
=============================================================================
