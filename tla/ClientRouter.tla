---------------------------- MODULE ClientRouter ----------------------------
(***************************************************************************)
(* The client router: one handler per intercepted navigate event, the      *)
(* Effect fibers it starts, the native navigation it belongs to and the    *)
(* renderer it publishes to.                                               *)
(*                                                                         *)
(* An action is what runs without yielding: a listener, or a continuation  *)
(* of a promise up to its next await.  Aborting a signal interrupts the    *)
(* fibers that run under it synchronously, finalizers included.            *)
(***************************************************************************)
EXTENDS BrowserRenderer, RouterReducer, FiniteSets

CONSTANTS
  FirstEntry,    (* the history entry of the hydrated document            *)
  MaxRefreshes   (* bound on the refreshes of one browser session         *)

ASSUME RouterAssumption ==
  /\ IsFiniteSet(Generations)
  /\ MaxRefreshes \in Nat
  /\ MaxPublications >= 2 * (Cardinality(Generations) + MaxRefreshes)
  /\ Generations \subseteq Nat \ {0}
  /\ FirstEntry \in Entries
  /\ NoEntry \notin Entries
  /\ Pending \notin Entries \cup {NoEntry}

VARIABLES
  router,        (* routerState                                           *)
  handler,       (* how far the handler of each generation got            *)
  kind,          (* what its navigate event is                            *)
  destination,   (* the history entry it goes to                          *)
  aborted,       (* generations whose navigationSignal is aborted         *)
  source,        (* whose response the loaded route tree is               *)
  tree,          (* the renderer navigation it published, InitialTree: none *)
  stream,        (* its Flight response                                   *)
  watchers,      (* the fibers waitForRenderRetirement, waitForFlightCompletion *)
  discarding,    (* generations with a fiber awaiting discard()           *)
  ongoing,       (* NavigationApi.getTransition: the native navigation    *)
  currentEntry,  (* NavigationApi.getCurrentEntry                         *)
  history,       (* the entries that can be traversed to                  *)
  cache,         (* RouteLoader: whose response is cached for an entry    *)
  fenced,        (* generations that loaded under an invalidated cache    *)
  refreshes      (* the trees that route refreshes published              *)

handlerVars == <<router, handler, kind, destination, aborted, source>>
resourceVars == <<tree, stream, watchers, discarding>>
browserVars == <<ongoing, currentEntry, history>>
cacheVars == <<cache, fenced, refreshes>>
routerVars == <<handlerVars, resourceVars, browserVars, cacheVars>>
allVars == <<vars, routerVars>>

NoNavigation == 0
InitialResponse == 0

(***************************************************************************)
(* "push" stands for every cancelable navigation but a traversal: they run *)
(* as precommit handlers and never read the cache.  "forced" traversals    *)
(* are not cancelable: their entry is current before the handler runs.     *)
(***************************************************************************)
Kinds == {"push", "traverse", "forced"}
Phases == {"idle", "begun", "loading", "rejected", "prepared", "waiting",
           "rendered", "retained", "abandoned", "settled"}
Streams == {"none", "open", "complete", "failed", "released"}

(* Phases that only microtasks of the running task still have to leave.    *)
Drained == \A g \in Generations : handler[g] \notin {"rejected", "prepared", "rendered"}

RouterInit ==
  /\ Init
  /\ router = [visible |-> Settled, candidate |-> NoCandidate]
  /\ handler = [g \in Generations |-> "idle"]
  /\ kind = [g \in Generations |-> "push"]
  /\ destination = [g \in Generations |-> FirstEntry]
  /\ aborted = {}
  /\ source = [g \in Generations |-> g]
  /\ tree = [g \in Generations |-> InitialTree]
  /\ stream = [g \in Generations |-> "none"]
  /\ watchers = {}
  /\ discarding = {}
  /\ ongoing = NoNavigation
  /\ currentEntry = FirstEntry
  /\ history = {FirstEntry}
  /\ cache = [e \in {FirstEntry} |-> InitialResponse]
  /\ fenced = {}
  /\ refreshes = {}

-----------------------------------------------------------------------------
(* What the lifecycle commands do.                                         *)

Release(g) == [stream EXCEPT ![g] = IF @ = "open" THEN "released" ELSE @]

(* The cache function of a resource: void for a route that came from the   *)
(* cache, and without effect once the loader's cache was replaced.         *)
StoreRoute(g, entry) ==
  IF g \in fenced \/ source[g] # g THEN cache
  ELSE [e \in DOMAIN cache \cup {entry} |-> IF e = entry THEN g ELSE cache[e]]

(* The commands that do not await anything.                                *)
Execute(command) ==
  /\ stream' = IF command.tag \in {"ReleaseRoute", "CacheAndReleaseRoute"}
               THEN Release(command.gen) ELSE stream
  /\ cache' = IF command.tag \in {"CacheRoute", "CacheAndReleaseRoute"}
              THEN StoreRoute(command.gen, command.entry) ELSE cache

(* DiscardRoute: discard the tree now, release when the discard resolves.  *)
DiscardRoute(g) ==
  /\ IF Discardable(tree[g]) THEN Discard(tree[g]) ELSE UNCHANGED vars
  /\ discarding' = discarding \cup {g}

Move(g, phase) == handler' = [handler EXCEPT ![g] = phase]

(* The native navigation ends when its handler does.                       *)
Finished(g) == IF ongoing = g THEN NoNavigation ELSE ongoing

(* Mutant of Interrupted: the wait for the render does not hear the abort. *)
InterruptedLoad(h) == IF handler[h] = "loading" THEN "rejected" ELSE handler[h]

(* The handler of h when its lifetime is aborted: a loading action is      *)
(* rejected; one that waits for the render returns, for the router has let *)
(* go of its candidate, so that its NavigationAborted is stale.            *)
Interrupted(h) ==
  CASE handler[h] = "loading" -> "rejected"
    [] handler[h] = "waiting" -> "settled"
    [] OTHER -> handler[h]

-----------------------------------------------------------------------------
(* onNavigate                                                              *)

Idle(g) == handler[g] = "idle" /\ \A h \in Generations : h < g => handler[h] # "idle"

(* A new entry, or one of the history other than the current one.          *)
Reachable(k, e) == IF k = "push" THEN e \notin history ELSE e \in history \ {currentEntry}

Begin(g, k, e) ==
  /\ Idle(g)
  /\ Reachable(k, e)
  /\ k # "push" => Drained
  /\ kind' = [kind EXCEPT ![g] = k]
  /\ destination' = [destination EXCEPT ![g] = e]
  /\ router' = BeginNavigation(router, g).state
  /\ ongoing' = g
  /\ currentEntry' = IF k = "forced" THEN e ELSE currentEntry

(* SupersedeCandidate aborts the lifetime of the displaced candidate, whose *)
(* own events are stale by now, and discards what it rendered.             *)
Supersede(command, g) ==
  LET old == command.candidate.gen IN
  /\ command.tag = "SupersedeCandidate"
  /\ aborted' = aborted \cup {old}
  /\ handler' = [handler EXCEPT ![g] = "begun", ![old] = Interrupted(old)]
  /\ IF command.candidate.tag = "Rendering"
     THEN DiscardRoute(old)
     ELSE UNCHANGED <<vars, discarding>>

Navigate(g, k, e) ==
  LET command == BeginNavigation(router, g).command IN
  /\ Begin(g, k, e)
  /\ \/ Supersede(command, g)
     \/ /\ command = NoCommand
        /\ Move(g, "begun")
        /\ UNCHANGED <<vars, aborted, discarding>>
  /\ UNCHANGED <<source, tree, stream, watchers, history, cacheVars>>

-----------------------------------------------------------------------------
(* navigationAction                                                        *)

CacheHit(g) == kind[g] # "push" /\ destination[g] \in DOMAIN cache

(* RouteLoaded, PublishRoute and RenderScheduled, between which nothing    *)
(* yields: a stale route is released, any other is handed to the renderer. *)
PublishRoute(g, opened) ==
  LET loaded == RouteLoaded(router, g) IN
  IF loaded.command.tag = "PublishRoute"
  THEN /\ Schedule
       /\ router' = RenderScheduled(loaded.state, g).state
       /\ tree' = [tree EXCEPT ![g] = publicationOrder + 1]
       /\ stream' = [stream EXCEPT ![g] = opened]
       /\ Move(g, "prepared")
       /\ UNCHANGED ongoing
  ELSE /\ Move(g, "settled")
       /\ ongoing' = Finished(g)
       /\ UNCHANGED <<vars, router, tree, stream>>

(* A cached route is loaded without waiting, even under an aborted signal. *)
StartCached(g) ==
  /\ handler[g] = "begun"
  /\ CacheHit(g)
  /\ PublishRoute(g, "complete")
  /\ source' = [source EXCEPT ![g] = cache[destination[g]]]
  /\ UNCHANGED <<kind, destination, aborted, watchers, discarding,
                 currentEntry, history, cacheVars>>

StartLoad(g) ==
  /\ handler[g] = "begun"
  /\ ~CacheHit(g)
  /\ IF g \in aborted
     THEN Move(g, "rejected") /\ router' = FlightFailed(router, g).state
     ELSE Move(g, "loading") /\ UNCHANGED router
  /\ UNCHANGED <<vars, kind, destination, aborted, source, resourceVars, browserVars, cacheVars>>

LoadRoute(g) ==
  /\ handler[g] = "loading"
  /\ PublishRoute(g, "open")
  /\ UNCHANGED <<kind, destination, aborted, source, watchers, discarding,
                 currentEntry, history, cacheVars>>

(* No Flight response, another origin, or a redirect that cannot be        *)
(* followed in place: the router lets go and opens a document.             *)
LoadDocument(g) ==
  /\ handler[g] = "loading"
  /\ router' = DocumentLoaded(router, g).state
  /\ Move(g, "settled")
  /\ ongoing' = Finished(g)
  /\ UNCHANGED <<vars, kind, destination, aborted, source, resourceVars,
                 currentEntry, history, cacheVars>>

LoadFails(g) ==
  /\ handler[g] = "loading"
  /\ router' = FlightFailed(router, g).state
  /\ Move(g, "rejected")
  /\ UNCHANGED <<vars, kind, destination, aborted, source, resourceVars, browserVars, cacheVars>>

(* preparation.promise is rejected: under an aborted signal the candidate  *)
(* is dropped, otherwise the document is reloaded or the event fails.      *)
HandleRejection(g) ==
  /\ handler[g] = "rejected"
  /\ router' = IF g \in aborted THEN NavigationAborted(router, g).state ELSE router
  /\ Move(g, "settled")
  /\ ongoing' = Finished(g)
  /\ UNCHANGED <<vars, kind, destination, aborted, source, resourceVars,
                 currentEntry, history, cacheVars>>

-----------------------------------------------------------------------------
(* waitForNavigationCommit and abortNavigation                             *)

(* The handler that drops its own tree returns when discard() resolves,    *)
(* which is not before the tree retires: see FinishDiscard.                *)
AbortNavigation(g) ==
  LET dropped == NavigationAborted(router, g) IN
  /\ router' = dropped.state
  /\ IF dropped.command.tag = "DiscardRoute"
     THEN DiscardRoute(g) /\ Move(g, "abandoned")
     ELSE Move(g, "settled") /\ UNCHANGED <<vars, discarding>>

(* The fiber starts before it looks at its signal, and is interrupted then. *)
AwaitCommit(g) ==
  /\ handler[g] = "prepared"
  /\ IF g \in aborted
     THEN AbortNavigation(g) /\ ongoing' = Finished(g)
     ELSE Move(g, "waiting") /\ UNCHANGED <<vars, router, discarding, ongoing>>
  /\ UNCHANGED <<kind, destination, aborted, source, tree, stream, watchers,
                 currentEntry, history, cacheVars>>

(* The browser aborts the signal of a navigate event: the user stopped it, *)
(* or another navigation, which may have begun already, replaces it.       *)
NativeAbort(g) ==
  /\ handler[g] \notin {"idle", "settled"}
  /\ g \notin aborted
  /\ aborted' = aborted \cup {g}
  /\ ongoing' = Finished(g)
  /\ CASE handler[g] = "waiting" -> AbortNavigation(g)
       [] handler[g] = "loading" -> /\ router' = FlightFailed(router, g).state
                                    /\ Move(g, "rejected")
                                    /\ UNCHANGED <<vars, discarding>>
       [] OTHER -> UNCHANGED <<vars, router, handler, discarding>>
  /\ UNCHANGED <<kind, destination, source, tree, stream, watchers,
                 currentEntry, history, cacheVars>>

(* Mutant of NoticeCommit: the handler awaits the publication only.        *)
NoticePublication(g) ==
  /\ handler[g] = "waiting"
  /\ router' = RenderCommitted(router, g).state
  /\ Move(g, "rendered")
  /\ UNCHANGED <<vars, kind, destination, aborted, source, resourceVars, browserVars, cacheVars>>

NoticeCommit(g) ==
  /\ handler[g] = "waiting"
  /\ tree[g] \in committed
  /\ router' = RenderCommitted(router, g).state
  /\ Move(g, "rendered")
  /\ UNCHANGED <<vars, kind, destination, aborted, source, resourceVars, browserVars, cacheVars>>

(* Mutant of Continue: the retirement of the render is not watched.        *)
ContinueUnwatched(g) ==
  /\ handler[g] = "rendered"
  /\ watchers' = watchers \cup {<<"flight", g>>}
  /\ Move(g, "retained")
  /\ UNCHANGED <<vars, router, kind, destination, aborted, source, tree, stream, discarding,
                 browserVars, cacheVars>>

(* Start both watchers; a forced traversal has its history entry already,  *)
(* a precommit handler leaves commitHistory to the browser.                *)
Continue(g) ==
  LET arrived == HistoryCommitted(router, g, currentEntry) IN
  /\ handler[g] = "rendered"
  /\ watchers' = watchers \cup ({"retirement", "flight"} \X {g})
  /\ IF kind[g] = "forced"
     THEN /\ router' = arrived.state
          /\ Execute(arrived.command)
          /\ Move(g, "settled")
          /\ ongoing' = Finished(g)
     ELSE /\ Move(g, "retained")
          /\ UNCHANGED <<router, stream, cache, ongoing>>
  /\ UNCHANGED <<vars, kind, destination, aborted, source, tree, discarding,
                 currentEntry, history, fenced, refreshes>>

(* The browser commits the entry and calls the added handler.              *)
CommitHistory(g) ==
  LET arrived == HistoryCommitted(router, g, destination[g]) IN
  /\ handler[g] = "retained"
  /\ ongoing = g
  /\ g \notin aborted
  /\ Drained
  /\ currentEntry' = destination[g]
  /\ history' = history \cup {destination[g]}
  /\ router' = arrived.state
  /\ Execute(arrived.command)
  /\ Move(g, "settled")
  /\ ongoing' = NoNavigation
  /\ UNCHANGED <<vars, kind, destination, aborted, source, tree, watchers, discarding,
                 fenced, refreshes>>

-----------------------------------------------------------------------------
(* Flight streams and the fibers that outlive the handler                  *)

FlightEnds(g) ==
  /\ stream[g] = "open"
  /\ \E end \in {"complete", "failed"} : stream' = [stream EXCEPT ![g] = end]
  /\ UNCHANGED <<vars, handlerVars, tree, watchers, discarding, browserVars, cacheVars>>

(* waitForFlightCompletion: a released response counts as failed.          *)
NoticeFlight(g) ==
  LET ended == IF stream[g] = "complete"
               THEN FlightCompleted(router, g) ELSE FlightFailed(router, g)
  IN
  /\ <<"flight", g>> \in watchers
  /\ stream[g] # "open"
  /\ watchers' = watchers \ {<<"flight", g>>}
  /\ router' = ended.state
  /\ Execute(ended.command)
  /\ UNCHANGED <<vars, handler, kind, destination, aborted, source, tree, discarding,
                 browserVars, fenced, refreshes>>

(* waitForRenderRetirement.                                                *)
NoticeRetirement(g) ==
  /\ <<"retirement", g>> \in watchers
  /\ tree[g] \in retired
  /\ watchers' = watchers \ {<<"retirement", g>>}
  /\ router' = RenderRetired(router, g).state
  /\ stream' = Release(g)
  /\ UNCHANGED <<vars, handler, kind, destination, aborted, source, tree, discarding,
                 browserVars, cacheVars>>

(* After discard(): the response is released, and a handler that waited    *)
(* for it returns.                                                         *)
ReleaseDiscarded(g) ==
  /\ discarding' = discarding \ {g}
  /\ stream' = Release(g)
  /\ handler' = [handler EXCEPT ![g] = IF @ = "abandoned" THEN "settled" ELSE @]
  /\ UNCHANGED <<vars, router, kind, destination, aborted, source, tree, watchers,
                 browserVars, cacheVars>>

(* Mutant of FinishDiscard: the response is released without waiting.      *)
FinishDiscardAtOnce(g) == g \in discarding /\ ReleaseDiscarded(g)

(* The promise that discard returned is resolved.                          *)
FinishDiscard(g) ==
  /\ g \in discarding
  /\ tree[g] \in retired
  /\ ReleaseDiscarded(g)

-----------------------------------------------------------------------------
(* The other owners of route trees and of the cache.  They publish only    *)
(* while no native navigation is under way, and a refresh withdraws its    *)
(* tree when a routed navigation begins or another refresh replaces it.    *)

Fence == {g \in Generations : handler[g] \notin {"idle", "begun"}}

InvalidateCache ==
  /\ MaxRefreshes > 0
  /\ cache' = [e \in {} |-> e]
  /\ fenced' = Fence
  /\ UNCHANGED <<vars, handlerVars, resourceVars, browserVars, refreshes>>

Refresh ==
  /\ ongoing = NoNavigation
  /\ Cardinality(refreshes) < MaxRefreshes
  /\ Schedule
  /\ refreshes' = refreshes \cup {publicationOrder + 1}
  /\ cache' = [e \in {} |-> e]
  /\ fenced' = Fence
  /\ UNCHANGED <<handlerVars, resourceVars, browserVars>>

WithdrawRefresh ==
  /\ router.candidate.tag # "Rendering"
  /\ \E t \in refreshes : Discard(t)
  /\ UNCHANGED routerVars

Render == (ReactCommits \/ ReactRepeatsEffect) /\ UNCHANGED routerVars

-----------------------------------------------------------------------------

RouterNext ==
  \/ \E g \in Generations :
       \/ \E k \in Kinds, e \in Entries : Navigate(g, k, e)
       \/ StartCached(g)
       \/ StartLoad(g)
       \/ LoadRoute(g)
       \/ LoadDocument(g)
       \/ LoadFails(g)
       \/ HandleRejection(g)
       \/ AwaitCommit(g)
       \/ NativeAbort(g)
       \/ NoticeCommit(g)
       \/ Continue(g)
       \/ CommitHistory(g)
       \/ FlightEnds(g)
       \/ NoticeFlight(g)
       \/ NoticeRetirement(g)
       \/ FinishDiscard(g)
  \/ InvalidateCache
  \/ Refresh
  \/ WithdrawRefresh
  \/ Render

RouterSpec == RouterInit /\ [][RouterNext]_allVars

(***************************************************************************)
(* Promise continuations and watcher fibers run, requests are answered or  *)
(* fail, React processes its queue, a replaced navigation is aborted.      *)
(* Nothing obliges a response to end or a history entry to commit.         *)
(***************************************************************************)
RouterFairness ==
  /\ \A g \in Generations :
       /\ WF_allVars(StartCached(g) \/ StartLoad(g))
       /\ WF_allVars(LoadRoute(g) \/ LoadDocument(g) \/ LoadFails(g))
       /\ WF_allVars(HandleRejection(g))
       /\ WF_allVars(AwaitCommit(g))
       /\ WF_allVars(NoticeCommit(g))
       /\ WF_allVars(Continue(g))
       /\ WF_allVars(NoticeFlight(g))
       /\ WF_allVars(NoticeRetirement(g))
       /\ WF_allVars(FinishDiscard(g))
  /\ WF_allVars(Render)

FairRouterSpec == RouterSpec /\ RouterFairness

-----------------------------------------------------------------------------
(* Types of the state.                                                     *)
RouterTypeOK ==
  /\ router \in RouterState
  /\ handler \in [Generations -> Phases]
  /\ kind \in [Generations -> Kinds]
  /\ destination \in [Generations -> Entries]
  /\ aborted \subseteq Generations
  /\ source \in [Generations -> Generations \cup {InitialResponse}]
  /\ tree \in [Generations -> {InitialTree} \cup Orders]
  /\ stream \in [Generations -> Streams]
  /\ watchers \subseteq {"retirement", "flight"} \X Generations
  /\ discarding \subseteq Generations
  /\ ongoing \in Generations \cup {NoNavigation}
  /\ currentEntry \in Entries
  /\ history \subseteq Entries
  /\ DOMAIN cache \subseteq Entries
  /\ \A e \in DOMAIN cache : cache[e] \in Generations \cup {InitialResponse}
  /\ fenced \subseteq Generations
  /\ refreshes \subseteq Orders

Accepts(transition) == transition.command.tag # "TypeError"

(* Whatever a handler or a watcher dispatches next, the reducer accepts:   *)
(* none of its TypeErrors about events out of order can be thrown.         *)
EventsAccepted ==
  \A g \in Generations :
    /\ handler[g] \in {"begun", "loading"} =>
         /\ Accepts(RouteLoaded(router, g))
         /\ Accepts(DocumentLoaded(router, g))
         /\ Accepts(FlightFailed(router, g))
    /\ handler[g] = "waiting" => Accepts(RenderCommitted(router, g))
    /\ handler[g] = "rendered" => Accepts(HistoryCommitted(router, g, currentEntry))
    /\ handler[g] = "retained" => Accepts(HistoryCommitted(router, g, destination[g]))
    /\ <<"flight", g>> \in watchers =>
         /\ Accepts(FlightCompleted(router, g))
         /\ Accepts(FlightFailed(router, g))

(* A response is cut off only when React can no longer show its tree.      *)
NoTruncatedTree ==
  \A g \in Generations :
    (stream[g] = "released" /\ tree[g] # InitialTree) => tree[g] \in retired

(* The cache answers a traversal only with a complete response that was    *)
(* loaded for that very history entry.                                     *)
CacheExact ==
  \A e \in DOMAIN cache :
    IF cache[e] = InitialResponse THEN e = FirstEntry
    ELSE destination[cache[e]] = e /\ stream[cache[e]] = "complete"

(* A history entry is committed only under its own tree: while the browser *)
(* is about to commit the entry of a navigation, the screen shows it.      *)
HistoryMatchesScreen ==
  \A g \in Generations :
    (handler[g] = "retained" /\ ongoing = g /\ g \notin aborted) => shown.shows = tree[g]

(* The handler of every navigation ends, or hands over to the browser for  *)
(* good, but for one: a handler aborted after React committed its tree     *)
(* waits for that tree to retire, and the tree is still on screen.         *)
HandlerSettles ==
  \A g \in Generations :
    <>[](\/ handler[g] \in {"idle", "retained", "settled"}
         \/ handler[g] = "abandoned" /\ shown.shows = tree[g])

(* A response does not stay open behind a tree that has retired.           *)
StreamsClose ==
  \A g \in Generations : tree[g] \in retired ~> stream[g] # "open"

=============================================================================
