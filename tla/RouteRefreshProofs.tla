-------------------------- MODULE RouteRefreshProofs --------------------------
(***************************************************************************)
(* Refreshes yield to navigation, the screen matches the page and the      *)
(* latest mutation is shown, for every set of mutations and hot updates    *)
(* and every number of navigations.                                        *)
(***************************************************************************)
EXTENDS RouteRefresh, TLAPS

\* At most one refresh is alive, and the handle has it.
HandleInv ==
  /\ \A f \in Fibers : Running(f) => f = refreshes
  /\ \A f \in Fibers : refreshes = f => fiber[f].phase \notin {"idle", "done"}
  /\ \A m \in Mutations : fiber[m].phase # "idle" => mutation[m].phase = "refreshed"

\* What loads or may be applied is of the page of the current entry.
PageInv ==
  /\ \A f \in Fibers : fiber[f].phase = "loading" => fiber[f].page = page
  /\ \A m \in Mutations :
       mutation[m].phase # "idle" /\ mutation[m].entry = entry => mutation[m].page = page

\* The entry of a navigation under way is new.
EntryInv ==
  /\ entry <= entries
  /\ \A m \in Mutations : mutation[m].entry <= entry
  /\ \A source \in {published.source, visible.source} \cup pending :
       source \in Nat => source <= entries
  /\ Navigating => navigation.target = entries /\ entry < entries
  /\ navigation.phase = "loading" =>
       navigation.target \notin {published.source, visible.source} \cup pending

\* Where the newest tree and the visible one come from.
ScreenInv ==
  /\ navigation.phase # "published" => OfCurrentPage(published)
  /\ navigation.phase = "published" =>
       /\ published.source = navigation.target
       /\ published.page = navigation.target
       /\ navigation.target \in pending \cup {visible.source}
       /\ visible.source = navigation.target => navigation.target \notin pending
  /\ IF Navigating /\ visible.source = navigation.target
     THEN visible.page = navigation.target ELSE OfCurrentPage(visible)

\* A tree of a refresh is pending only while its fiber waits for the commit.
PendingInv ==
  \A f \in pending \cap Fibers :
    \/ fiber[f].phase = "published"
    \/ f \in Mutations /\ mutation[f].phase = "rendered"

IInv ==
  /\ TypeOK
  /\ RefreshYields
  /\ HandleInv
  /\ PageInv
  /\ EntryInv
  /\ ScreenInv
  /\ PendingInv

------------------------------------------------------------------------------
(* The parts actions are made of.                                          *)

FiberStates == [phase : {"idle", "waiting", "loading", "published", "committed", "closing", "done"},
                since : Nat, page : 0..MaxEntries]

Calls ==
  [phase : {"idle", "requested", "executed", "answered", "clearing", "rendered", "refreshed", "failed"},
   order : Nat, entry : 0..MaxEntries, page : 0..MaxEntries,
   effect : Nat, response : Nat, awaits : Fibers \cup {NoFiber}]

LEMMA FiberType ==
  ASSUME NEW phase \in {"idle", "waiting", "loading", "published", "committed", "closing", "done"},
         NEW since \in Nat, NEW where \in 0..MaxEntries
  PROVE  /\ Fiber(phase, since, where) \in FiberStates
         /\ Fiber(phase, since, where).phase = phase
         /\ Fiber(phase, since, where).since = since
         /\ Fiber(phase, since, where).page = where
BY DEF Fiber, FiberStates

LEMMA EndedFiber ==
  ASSUME NEW phase \in {"waiting", "published", "closing", "done"}
  PROVE  Fiber(phase, 0, 0) \in FiberStates /\ Fiber(phase, 0, 0).phase = phase
<1>1. 0 \in Nat /\ 0 \in 0..MaxEntries
  BY RefreshAssumption
<1>. QED
  BY <1>1, FiberType

LEMMA LoadingFiber ==
  ASSUME NEW since \in Nat, NEW where \in 0..MaxEntries
  PROVE  /\ Fiber("loading", since, where) \in FiberStates
         /\ Fiber("loading", since, where).phase = "loading"
         /\ Fiber("loading", since, where).since = since
         /\ Fiber("loading", since, where).page = where
BY FiberType

LEMMA TreeFields ==
  ASSUME NEW source, NEW data, NEW where
  PROVE  /\ Tree(source, data, where).source = source
         /\ Tree(source, data, where).version = data
         /\ Tree(source, data, where).page = where
         /\ (source \in Fibers \cup 0..MaxEntries /\ data \in Nat /\ where \in 0..MaxEntries)
              => Tree(source, data, where) \in Trees
BY DEF Tree, Trees

\* No fiber is a number, and none is NoFiber.
LEMMA FiberNames ==
  /\ \A f \in Fibers : f \notin Nat
  /\ NoFiber \notin Fibers /\ NoFiber \notin Nat
  /\ Mutations \subseteq Fibers /\ Updates \subseteq Fibers
  /\ \A u \in Updates : u \notin Mutations
BY RefreshAssumption DEF Fibers

\* Interruption closes the fiber, if it runs, and no other.
LEMMA InterruptedFiber ==
  ASSUME TypeOK, NEW x
  PROVE  /\ Interrupted(x) \in [Fibers -> FiberStates]
         /\ \A f \in Fibers :
              /\ f = x /\ Running(x) => Interrupted(x)[f].phase = "closing"
              /\ ~(f = x /\ Running(x)) => Interrupted(x)[f] = fiber[f]
<1>1. fiber \in [Fibers -> FiberStates]
  BY DEF TypeOK, FiberStates
<1>2. Fiber("closing", 0, 0) \in FiberStates /\ Fiber("closing", 0, 0).phase = "closing"
  BY EndedFiber
<1>3. CASE Running(x)
  <2>1. x \in Fibers /\ Interrupted(x) = [fiber EXCEPT ![x] = Fiber("closing", 0, 0)]
    BY <1>3 DEF Interrupted, Running
  <2>. QED
    BY <1>1, <1>2, <1>3, <2>1
<1>4. CASE ~Running(x)
  BY <1>1, <1>4 DEF Interrupted
<1>. QED
  BY <1>3, <1>4

\* When the handle is interrupted nothing runs any more.
LEMMA NothingRuns ==
  ASSUME TypeOK, HandleInv, fiber' = Interrupted(refreshes)
  PROVE  /\ fiber' \in [Fibers -> FiberStates]
         /\ \A f \in Fibers :
              /\ ~Running(f)'
              /\ fiber'[f] = fiber[f] \/ (fiber'[f].phase = "closing" /\ Running(f))
<1>1. fiber' \in [Fibers -> FiberStates]
  BY InterruptedFiber
<1>2. ASSUME NEW f \in Fibers
      PROVE  /\ ~Running(f)'
             /\ fiber'[f] = fiber[f] \/ (fiber'[f].phase = "closing" /\ Running(f))
  <2>1. CASE Running(f)
    <3>1. f = refreshes
      BY <2>1 DEF HandleInv
    <3>2. fiber'[f].phase = "closing"
      BY <2>1, <3>1, InterruptedFiber
    <3>. QED
      BY <2>1, <3>2 DEF Running
  <2>2. CASE ~Running(f)
    <3>1. fiber'[f] = fiber[f]
      BY <2>2, InterruptedFiber
    <3>. QED
      BY <2>2, <3>1 DEF Running
  <2>. QED
    BY <2>1, <2>2
<1>. QED
  BY <1>1, <1>2

\* A refresh that starts is the only one that runs, and waits or loads.
LEMMA Started ==
  ASSUME TypeOK, HandleInv, NEW f \in Fibers, StartRefresh(f)
  PROVE  /\ fiber' \in [Fibers -> FiberStates]
         /\ refreshes' = f
         /\ Navigating => fiber'[f].phase = "waiting"
         /\ ~Navigating => fiber'[f].phase = "loading" /\ fiber'[f].since = version
                           /\ fiber'[f].page = page
         /\ \A g \in Fibers \ {f} :
              /\ ~Running(g)'
              /\ fiber'[g] = fiber[g] \/ (fiber'[g].phase = "closing" /\ Running(g))
         /\ Discard(refreshes)
<1>1. version \in Nat /\ page \in 0..MaxEntries
  BY DEF TypeOK
<1>2. PICK new \in FiberStates :
        /\ fiber' = [Interrupted(refreshes) EXCEPT ![f] = new]
        /\ Navigating => new.phase = "waiting"
        /\ ~Navigating => new.phase = "loading" /\ new.since = version /\ new.page = page
  <2>1. CASE Navigating
    <3>1. fiber' = [Interrupted(refreshes) EXCEPT ![f] = Fiber("waiting", 0, 0)]
      BY <2>1 DEF StartRefresh
    <3>. QED
      BY <2>1, <3>1, EndedFiber
  <2>2. CASE ~Navigating
    <3>1. fiber' = [Interrupted(refreshes) EXCEPT ![f] = Fiber("loading", version, page)]
      BY <2>2 DEF StartRefresh
    <3>. QED
      BY <1>1, <2>2, <3>1, LoadingFiber
  <2>. QED
    BY <2>1, <2>2
<1>3. /\ fiber' \in [Fibers -> FiberStates]
      /\ fiber'[f] = new
      /\ \A g \in Fibers \ {f} : fiber'[g] = Interrupted(refreshes)[g]
  BY <1>2, InterruptedFiber
<1>4. ASSUME NEW g \in Fibers \ {f}
      PROVE  /\ ~Running(g)'
             /\ fiber'[g] = fiber[g] \/ (fiber'[g].phase = "closing" /\ Running(g))
  <2>1. CASE Running(g)
    <3>1. g = refreshes
      BY <2>1 DEF HandleInv
    <3>2. fiber'[g].phase = "closing"
      BY <1>3, <2>1, <3>1, InterruptedFiber
    <3>. QED
      BY <2>1, <3>2 DEF Running
  <2>2. CASE ~Running(g)
    <3>1. fiber'[g] = fiber[g]
      BY <1>3, <2>2, InterruptedFiber
    <3>. QED
      BY <2>2, <3>1 DEF Running
  <2>. QED
    BY <2>1, <2>2
<1>. QED
  BY <1>2, <1>3, <1>4 DEF StartRefresh

\* A fiber that exits does not run, and the handle forgets it.
LEMMA Exited ==
  ASSUME TypeOK, NEW f \in Fibers, Exit(f)
  PROVE  /\ fiber' \in [Fibers -> FiberStates]
         /\ fiber'[f].phase = "done"
         /\ \A g \in Fibers \ {f} : fiber'[g] = fiber[g]
         /\ refreshes' \in Fibers \cup {NoFiber}
         /\ refreshes = f => refreshes' = NoFiber
         /\ refreshes # f => refreshes' = refreshes
<1>1. fiber \in [Fibers -> FiberStates] /\ refreshes \in Fibers \cup {NoFiber}
  BY DEF TypeOK, FiberStates
<1>. QED
  BY <1>1, EndedFiber DEF Exit

\* What a discard leaves on its way to the screen.
LEMMA Discarded ==
  ASSUME TypeOK, NEW source, Discard(source)
  PROVE  /\ published' \in Trees /\ visible' = visible
         /\ pending' = pending \ {source}
         /\ source \in pending => published' = visible
         /\ source \notin pending => published' = published
BY DEF TypeOK, Discard

\* A fiber's phase changes, and its data with it or not.
LEMMA FiberSet ==
  ASSUME TypeOK, NEW f \in Fibers, NEW new \in FiberStates,
         fiber' = [fiber EXCEPT ![f] = new]
  PROVE  /\ fiber' \in [Fibers -> FiberStates]
         /\ fiber'[f] = new
         /\ \A g \in Fibers \ {f} : fiber'[g] = fiber[g]
BY DEF TypeOK, FiberStates

LEMMA InitIInv == Init => IInv
<1>1. SUFFICES ASSUME Init PROVE IInv
  OBVIOUS
<1>2. 0 \in Nat /\ 0 \in 0..MaxEntries
  BY RefreshAssumption
<1>3. /\ Fiber("idle", 0, 0) \in FiberStates /\ Fiber("idle", 0, 0).phase = "idle"
  BY <1>2, FiberType
<1>4. /\ fiber \in [Fibers -> FiberStates]
      /\ \A f \in Fibers : fiber[f].phase = "idle"
  BY <1>1, <1>3 DEF Init
<1>5. /\ mutation \in [Mutations -> Calls]
      /\ \A m \in Mutations : mutation[m].phase = "idle" /\ mutation[m].entry = 0
  BY <1>1, <1>2 DEF Init, Calls
<1>6. /\ published \in Trees /\ published.source = 0 /\ published.page = 0
      /\ visible = published
  BY <1>1, <1>2, TreeFields DEF Init
<1>7. NoNavigation \in [phase : {"idle", "loading", "published"}, since : Nat, target : 0..MaxEntries]
  BY <1>2 DEF NoNavigation
<1>8. TypeOK
  <2>1. mutation \in [Mutations -> Calls] /\ fiber \in [Fibers -> FiberStates]
    BY <1>4, <1>5
  <2>2. navigation = NoNavigation /\ refreshes = NoFiber /\ version = 0 /\ latestInvocationOrder = 0
        /\ entry = 0 /\ page = 0 /\ entries = 0 /\ pending = {} /\ preempted = FALSE
        /\ abandoned = {}
    BY <1>1 DEF Init
  <2>. QED
    BY <1>2, <1>6, <1>7, <2>1, <2>2 DEF TypeOK, FiberStates, Calls
<1>9. ~Navigating /\ navigation.phase = "idle"
  BY <1>1 DEF Init, Navigating, NoNavigation
<1>10. \A f \in Fibers : ~Running(f) /\ ~Raced(f)
  BY <1>4 DEF Running, Raced
<1>11. HandleInv
  BY <1>1, <1>4, <1>10, FiberNames DEF Init, HandleInv
<1>12. PageInv
  BY <1>4, <1>5 DEF PageInv
<1>13. EntryInv
  BY <1>1, <1>5, <1>6, <1>9 DEF Init, EntryInv
<1>14. ScreenInv
  BY <1>1, <1>6, <1>9 DEF Init, ScreenInv, OfCurrentPage
<1>15. PendingInv
  BY <1>1 DEF Init, PendingInv
<1>. QED
  BY <1>8, <1>9, <1>11, <1>12, <1>13, <1>14, <1>15 DEF IInv, RefreshYields

------------------------------------------------------------------------------
(* Fibers.                                                                 *)

\* A refresh publishes only while no navigation is under way.
LEMMA PublishRefreshIInv ==
  ASSUME IInv, NEW f \in Fibers, PublishRefresh(f)
  PROVE  IInv'
<1>1. PICK v \in fiber[f].since..version : Schedule(Tree(f, v, fiber[f].page))
  BY DEF PublishRefresh, historyVars
<1>2. /\ fiber[f].phase = "loading"
      /\ fiber' = [fiber EXCEPT ![f] = Fiber("published", 0, 0)]
      /\ UNCHANGED <<serverVars, refreshes, navigationVars, preempted, abandoned>>
  BY DEF PublishRefresh, historyVars
<1>3. /\ fiber' \in [Fibers -> FiberStates]
      /\ fiber'[f].phase = "published"
      /\ \A g \in Fibers \ {f} : fiber'[g] = fiber[g]
  BY <1>2, EndedFiber, FiberSet DEF IInv
<1>4. f = refreshes
  BY <1>2 DEF IInv, HandleInv, Running
<1>5. ~Navigating
  BY <1>2 DEF IInv, RefreshYields, Raced
<1>6. fiber[f].since \in Nat /\ fiber[f].page = page /\ page \in 0..MaxEntries /\ version \in Nat
  BY <1>2 DEF IInv, TypeOK, PageInv
<1>7. v \in Nat
  BY <1>6
<1>8. /\ published' \in Trees /\ published'.source = f /\ published'.page = page
      /\ visible' = visible /\ pending' = pending \cup {f}
  BY <1>1, <1>6, <1>7, TreeFields DEF Schedule
<1>9. TypeOK'
  BY <1>2, <1>3, <1>8
    DEF IInv, TypeOK, FiberStates, serverVars, navigationVars
<1>10. RefreshYields'
  BY <1>2, <1>5 DEF RefreshYields, Navigating, navigationVars
<1>11. HandleInv'
  BY <1>2, <1>3, <1>4 DEF IInv, HandleInv, Running, serverVars
<1>12. PageInv'
  BY <1>2, <1>3 DEF IInv, PageInv, serverVars, navigationVars
<1>13. EntryInv'
  BY <1>2, <1>5, <1>8, FiberNames DEF IInv, EntryInv, Navigating, serverVars, navigationVars
<1>14. ScreenInv'
  BY <1>2, <1>5, <1>8 DEF IInv, ScreenInv, OfCurrentPage, Navigating, navigationVars
<1>15. PendingInv'
  BY <1>2, <1>3, <1>8 DEF IInv, PendingInv, serverVars
<1>. QED
  BY <1>9, <1>10, <1>11, <1>12, <1>13, <1>14, <1>15 DEF IInv

LEMMA BecomeIdleIInv ==
  ASSUME IInv, NEW f \in Fibers, BecomeIdle(f)
  PROVE  IInv'
<1>1. /\ fiber[f].phase = "waiting" /\ ~Navigating
      /\ fiber' = [fiber EXCEPT ![f] = Fiber("loading", version, page)]
      /\ UNCHANGED <<serverVars, refreshes, navigationVars, rendererVars, preempted, abandoned>>
  BY DEF BecomeIdle, historyVars
<1>2. version \in Nat /\ page \in 0..MaxEntries
  BY DEF IInv, TypeOK
<1>3. /\ fiber' \in [Fibers -> FiberStates]
      /\ fiber'[f].phase = "loading" /\ fiber'[f].page = page
      /\ \A g \in Fibers \ {f} : fiber'[g] = fiber[g]
  <2>1. PICK new \in FiberStates :
          /\ fiber' = [fiber EXCEPT ![f] = new]
          /\ new.phase = "loading" /\ new.page = page
    <3>1. /\ Fiber("loading", version, page) \in FiberStates
          /\ Fiber("loading", version, page).phase = "loading"
          /\ Fiber("loading", version, page).page = page
      BY <1>2, LoadingFiber
    <3>. QED
      BY <1>1, <3>1
  <2>. QED
    BY <2>1, FiberSet DEF IInv
<1>4. f = refreshes
  BY <1>1 DEF IInv, HandleInv, Running
<1>5. TypeOK'
  BY <1>1, <1>3 DEF IInv, TypeOK, FiberStates, serverVars, navigationVars, rendererVars
<1>6. RefreshYields'
  BY <1>1 DEF RefreshYields, Navigating, navigationVars
<1>7. HandleInv'
  BY <1>1, <1>3, <1>4 DEF IInv, HandleInv, Running, serverVars
<1>8. PageInv'
  BY <1>1, <1>3 DEF IInv, PageInv, serverVars, navigationVars
<1>9. EntryInv' /\ ScreenInv'
  BY <1>1 DEF IInv, EntryInv, ScreenInv, OfCurrentPage, Navigating, serverVars, navigationVars, rendererVars
<1>10. PendingInv'
  BY <1>1, <1>3 DEF IInv, PendingInv, serverVars, rendererVars
<1>. QED
  BY <1>5, <1>6, <1>7, <1>8, <1>9, <1>10 DEF IInv

\* A fiber that ends has no pending tree.
LEMMA ExitIInv ==
  ASSUME IInv, NEW f \in Fibers, Exit(f),
         fiber[f].phase \in {"loading", "committed", "closing"},
         preempted' \in BOOLEAN,
         UNCHANGED <<serverVars, navigationVars, rendererVars, abandoned>>
  PROVE  IInv'
<1>1. /\ fiber' \in [Fibers -> FiberStates]
      /\ fiber'[f].phase = "done"
      /\ \A g \in Fibers \ {f} : fiber'[g] = fiber[g]
      /\ refreshes' \in Fibers \cup {NoFiber}
      /\ refreshes = f => refreshes' = NoFiber
      /\ refreshes # f => refreshes' = refreshes
  BY Exited DEF IInv
<1>2. TypeOK'
  BY <1>1 DEF IInv, TypeOK, FiberStates, serverVars, navigationVars, rendererVars
<1>3. \A g \in Fibers : Raced(g)' => Raced(g)
  BY <1>1 DEF Raced
<1>4. RefreshYields'
  BY <1>3 DEF IInv, RefreshYields, Navigating, navigationVars
<1>5. \A g \in Fibers : Running(g)' => Running(g) /\ g # f
  BY <1>1 DEF Running
<1>6. HandleInv'
  <2>1. \A g \in Fibers : Running(g)' => g = refreshes'
    BY <1>1, <1>5 DEF IInv, HandleInv
  <2>2. \A g \in Fibers : refreshes' = g => fiber'[g].phase \notin {"idle", "done"}
    BY <1>1, FiberNames DEF IInv, HandleInv
  <2>3. \A m \in Mutations : fiber'[m].phase # "idle" => mutation'[m].phase = "refreshed"
    BY <1>1, FiberNames DEF IInv, HandleInv, serverVars
  <2>. QED
    BY <2>1, <2>2, <2>3 DEF HandleInv
<1>7. PageInv'
  BY <1>1 DEF IInv, PageInv, serverVars, navigationVars
<1>8. EntryInv' /\ ScreenInv'
  BY DEF IInv, EntryInv, ScreenInv, OfCurrentPage, Navigating, serverVars, navigationVars, rendererVars
<1>9. f \notin pending
  BY DEF IInv, PendingInv, HandleInv
<1>10. PendingInv'
  BY <1>1, <1>9 DEF IInv, PendingInv, serverVars, rendererVars
<1>. QED
  BY <1>2, <1>4, <1>6, <1>7, <1>8, <1>10 DEF IInv

\* A pending tree of a fiber is that of the handle or of a response.
LEMMA PendingFibers ==
  ASSUME IInv, NEW f \in pending, f \in Fibers
  PROVE  \/ f = refreshes /\ fiber[f].phase = "published" /\ ~Navigating
         \/ f \in Mutations /\ mutation[f].phase = "rendered" /\ fiber[f].phase = "idle"
BY FiberNames DEF IInv, PendingInv, HandleInv, RefreshYields, Running, Raced

\* Discarding the tree of the handle brings back a tree of the same page, and
\* leaves a navigation's tree alone.
LEMMA HandleDiscarded ==
  ASSUME IInv, Discard(refreshes),
         UNCHANGED <<latestInvocationOrder, navigationVars, abandoned>>,
         \A m \in Mutations : mutation'[m].entry = mutation[m].entry
  PROVE  /\ published' \in Trees /\ visible' = visible
         /\ pending' = pending \ {refreshes}
         /\ published' = IF refreshes \in pending THEN visible ELSE published
         /\ refreshes \in pending => ~Navigating
         /\ EntryInv' /\ ScreenInv'
<1>1. /\ published' \in Trees /\ visible' = visible
      /\ pending' = pending \ {refreshes}
      /\ refreshes \in pending => published' = visible
      /\ refreshes \notin pending => published' = published
  BY Discarded DEF IInv
<1>2. refreshes \in Fibers \cup {NoFiber} /\ refreshes \notin Nat
  BY FiberNames DEF IInv, TypeOK
<1>3. refreshes \in pending => ~Navigating
  <2>1. SUFFICES ASSUME refreshes \in pending PROVE ~Navigating
    OBVIOUS
  <2>2. refreshes \in Fibers
    BY <1>2, <2>1, FiberNames DEF IInv, TypeOK
  <2>3. fiber[refreshes].phase \notin {"idle", "done"}
    BY <2>2 DEF IInv, HandleInv
  <2>. QED
    BY <2>1, <2>2, <2>3, PendingFibers
<1>4. EntryInv'
  BY <1>1 DEF IInv, EntryInv, Navigating, navigationVars
<1>5. navigation.target \in Nat
  BY DEF IInv, TypeOK
<1>6. ScreenInv'
  BY <1>1, <1>2, <1>3, <1>5 DEF IInv, ScreenInv, OfCurrentPage, Navigating, navigationVars
<1>. QED
  BY <1>1, <1>3, <1>4, <1>6

\* A refresh that starts takes the handle from the one before it.
LEMMA StartRefreshIInv ==
  ASSUME IInv, NEW f \in Fibers, StartRefresh(f),
         mutation' \in [Mutations -> Calls],
         \A m \in Mutations \ {f} : mutation'[m] = mutation[m],
         f \in Mutations =>
           /\ mutation[f].phase \in {"answered", "clearing"}
           /\ mutation'[f].phase = "refreshed"
           /\ mutation'[f].entry = mutation[f].entry
           /\ mutation'[f].page = mutation[f].page,
         UNCHANGED <<version, latestInvocationOrder, navigationVars, preempted, abandoned>>
  PROVE  IInv'
<1>1. /\ fiber' \in [Fibers -> FiberStates]
      /\ refreshes' = f
      /\ Navigating => fiber'[f].phase = "waiting"
      /\ ~Navigating => fiber'[f].phase = "loading" /\ fiber'[f].since = version
                        /\ fiber'[f].page = page
      /\ \A g \in Fibers \ {f} :
           /\ ~Running(g)'
           /\ fiber'[g] = fiber[g] \/ (fiber'[g].phase = "closing" /\ Running(g))
      /\ Discard(refreshes)
  BY Started DEF IInv
<1>2. \A m \in Mutations : mutation'[m].entry = mutation[m].entry /\ mutation'[m].page = mutation[m].page
  OBVIOUS
<1>3. /\ published' \in Trees /\ visible' = visible
      /\ pending' = pending \ {refreshes}
      /\ EntryInv' /\ ScreenInv'
  BY <1>1, <1>2, HandleDiscarded
<1>4. TypeOK'
  BY <1>1, <1>3 DEF IInv, TypeOK, FiberStates, Calls, navigationVars
<1>5. RefreshYields'
  BY <1>1 DEF RefreshYields, Raced, Running, Navigating, navigationVars
<1>6. HandleInv'
  <2>1. \A g \in Fibers : Running(g)' => g = refreshes'
    BY <1>1
  <2>2. \A g \in Fibers : refreshes' = g => fiber'[g].phase \notin {"idle", "done"}
    BY <1>1
  <2>3. \A m \in Mutations : fiber'[m].phase # "idle" => mutation'[m].phase = "refreshed"
    BY <1>1, FiberNames DEF IInv, HandleInv, Running
  <2>. QED
    BY <2>1, <2>2, <2>3 DEF HandleInv
<1>7. PageInv'
  BY <1>1, <1>2, FiberNames DEF IInv, PageInv, Running, navigationVars
<1>8. PendingInv'
  <2>1. SUFFICES ASSUME NEW g \in pending', g \in Fibers
                 PROVE  g \in Mutations /\ mutation'[g].phase = "rendered"
    BY DEF PendingInv
  <2>2. g \in pending /\ g # refreshes
    BY <1>3, <2>1
  <2>3. g \in Mutations /\ mutation[g].phase = "rendered"
    BY <2>1, <2>2, PendingFibers
  <2>. QED
    BY <2>3
<1>. QED
  BY <1>3, <1>4, <1>5, <1>6, <1>7, <1>8 DEF IInv

LEMMA HotUpdateIInv ==
  ASSUME IInv, NEW u \in Updates, HotUpdate(u)
  PROVE  IInv'
<1>1. StartRefresh(u) /\ UNCHANGED <<serverVars, navigationVars, preempted, abandoned>>
  BY DEF HotUpdate, historyVars
<1>2. mutation' \in [Mutations -> Calls] /\ \A m \in Mutations : mutation'[m] = mutation[m]
  BY <1>1 DEF IInv, TypeOK, Calls, serverVars
<1>. QED
  BY <1>1, <1>2, FiberNames, StartRefreshIInv DEF serverVars

------------------------------------------------------------------------------
(* Mutations.                                                              *)

\* A call that goes on, with nothing else changed.
LEMMA CallIInv ==
  ASSUME IInv, NEW m \in Mutations,
         mutation' \in [Mutations -> Calls],
         \A n \in Mutations \ {m} : mutation'[n] = mutation[n],
         mutation[m].phase \notin {"rendered", "refreshed"},
         mutation'[m].phase \notin {"idle"},
         \/ mutation'[m].entry = entry /\ mutation'[m].page = page
         \/ mutation[m].phase # "idle" /\ mutation'[m].entry = mutation[m].entry
            /\ mutation'[m].page = mutation[m].page,
         version' \in Nat, latestInvocationOrder' \in Nat,
         UNCHANGED <<fiberVars, navigationVars, rendererVars, preempted, abandoned>>
  PROVE  IInv'
<1>1. TypeOK'
  BY DEF IInv, TypeOK, Calls, fiberVars, navigationVars, rendererVars
<1>2. RefreshYields'
  BY DEF IInv, RefreshYields, Raced, Navigating, fiberVars, navigationVars
<1>3. HandleInv'
  BY FiberNames DEF IInv, HandleInv, Running, fiberVars
<1>4. PageInv'
  BY DEF IInv, PageInv, fiberVars, navigationVars
<1>5. EntryInv'
  BY DEF IInv, EntryInv, TypeOK, Navigating, navigationVars, rendererVars
<1>6. ScreenInv'
  BY DEF IInv, ScreenInv, OfCurrentPage, Navigating, navigationVars, rendererVars
<1>7. PendingInv'
  BY DEF IInv, PendingInv, fiberVars, rendererVars
<1>. QED
  BY <1>1, <1>2, <1>3, <1>4, <1>5, <1>6, <1>7 DEF IInv

\* What a step sets of a call.
LEMMA CallSet ==
  ASSUME TypeOK, NEW m \in Mutations, NEW new \in Calls, mutation' = [mutation EXCEPT ![m] = new]
  PROVE  /\ mutation' \in [Mutations -> Calls]
         /\ mutation'[m] = new
         /\ \A n \in Mutations \ {m} : mutation'[n] = mutation[n]
BY DEF TypeOK, Calls

\* What Invoke, Execute, Answer and FailMutation make of a call.
LEMMA Called ==
  ASSUME TypeOK, NEW m \in Mutations,
         Invoke(m) \/ Execute(m) \/ Answer(m) \/ FailMutation(m)
  PROVE  /\ mutation' \in [Mutations -> Calls]
         /\ \A n \in Mutations \ {m} : mutation'[n] = mutation[n]
         /\ version' \in Nat /\ latestInvocationOrder' \in Nat
         /\ mutation[m].phase \in {"idle", "requested", "executed"}
         /\ mutation'[m].phase \in {"requested", "executed", "answered", "failed"}
         /\ \/ mutation'[m].entry = entry /\ mutation'[m].page = page
            \/ /\ mutation[m].phase # "idle"
               /\ mutation'[m].entry = mutation[m].entry
               /\ mutation'[m].page = mutation[m].page
         /\ UNCHANGED <<fiberVars, navigationVars, rendererVars, preempted, abandoned>>
         /\ \/ /\ mutation[m].phase = "idle" /\ mutation'[m].phase = "requested"
               /\ latestInvocationOrder' = latestInvocationOrder + 1 /\ version' = version
               /\ mutation'[m].order = latestInvocationOrder + 1
            \/ /\ mutation[m].phase # "idle" /\ mutation'[m].phase = "executed"
               /\ latestInvocationOrder' = latestInvocationOrder /\ version' = version + 1
               /\ mutation'[m].order = mutation[m].order /\ mutation'[m].effect = version + 1
            \/ /\ mutation[m].phase = "executed" /\ mutation'[m].phase = "answered"
               /\ latestInvocationOrder' = latestInvocationOrder /\ version' = version
               /\ mutation'[m].order = mutation[m].order
               /\ mutation'[m].effect = mutation[m].effect
               /\ mutation'[m].response >= mutation[m].effect
            \/ /\ mutation[m].phase # "idle" /\ mutation'[m].phase = "failed"
               /\ latestInvocationOrder' = latestInvocationOrder /\ version' = version
               /\ mutation'[m].order = mutation[m].order
<1>1. mutation \in [Mutations -> Calls] /\ mutation[m] \in Calls
  BY DEF TypeOK, Calls
<1>2. /\ version \in Nat /\ latestInvocationOrder \in Nat
      /\ entry \in 0..MaxEntries /\ page \in 0..MaxEntries
  BY DEF TypeOK
<1>3. CASE Invoke(m)
  <2>1. latestInvocationOrder' \in Nat
    BY <1>2, <1>3 DEF Invoke, historyVars
  <2>2. PICK new : new = [mutation[m] EXCEPT !.phase = "requested", !.order = latestInvocationOrder',
                                             !.entry = entry, !.page = page]
    OBVIOUS
  <2>3. new \in Calls /\ new.phase = "requested" /\ new.entry = entry /\ new.page = page
        /\ new.order = latestInvocationOrder'
    BY <1>1, <1>2, <2>1, <2>2 DEF Calls
  <2>4. mutation' = [mutation EXCEPT ![m] = new]
    BY <1>3, <2>2 DEF Invoke, historyVars
  <2>. QED
    BY <1>2, <1>3, <2>1, <2>3, <2>4, CallSet DEF Invoke, historyVars
<1>4. CASE Execute(m)
  <2>1. version' \in Nat
    BY <1>2, <1>4 DEF Execute, historyVars
  <2>2. PICK new : new = [mutation[m] EXCEPT !.phase = "executed", !.effect = version']
    OBVIOUS
  <2>3. new \in Calls /\ new.phase = "executed" /\ new.entry = mutation[m].entry
        /\ new.page = mutation[m].page /\ new.order = mutation[m].order /\ new.effect = version'
    BY <1>1, <2>1, <2>2 DEF Calls
  <2>4. mutation' = [mutation EXCEPT ![m] = new]
    BY <1>4, <2>2 DEF Execute, historyVars
  <2>. QED
    BY <1>2, <1>4, <2>1, <2>3, <2>4, CallSet DEF Execute, historyVars
<1>5. CASE Answer(m)
  <2>1. PICK v \in mutation[m].effect..version :
          mutation' = [mutation EXCEPT ![m].phase = "answered", ![m].response = v]
    BY <1>5 DEF Answer, historyVars
  <2>2. v \in Nat /\ v >= mutation[m].effect
    BY <1>1, <1>2, <2>1 DEF Calls
  <2>3. PICK new : new = [mutation[m] EXCEPT !.phase = "answered", !.response = v]
    OBVIOUS
  <2>4. new \in Calls /\ new.phase = "answered" /\ new.entry = mutation[m].entry
        /\ new.page = mutation[m].page /\ new.order = mutation[m].order
        /\ new.effect = mutation[m].effect /\ new.response = v
    BY <1>1, <2>2, <2>3 DEF Calls
  <2>5. mutation' = [mutation EXCEPT ![m] = new]
    BY <2>1, <2>3
  <2>. QED
    BY <1>2, <1>5, <2>2, <2>4, <2>5, CallSet DEF Answer, historyVars
<1>6. CASE FailMutation(m)
  <2>1. PICK new : new = [mutation[m] EXCEPT !.phase = "failed"]
    OBVIOUS
  <2>2. new \in Calls /\ new.phase = "failed" /\ new.entry = mutation[m].entry
        /\ new.page = mutation[m].page /\ new.order = mutation[m].order
    BY <1>1, <2>1 DEF Calls
  <2>3. mutation' = [mutation EXCEPT ![m] = new]
    BY <1>6, <2>1 DEF FailMutation, historyVars
  <2>. QED
    BY <1>2, <1>6, <2>2, <2>3, CallSet DEF FailMutation, historyVars
<1>. QED
  BY <1>3, <1>4, <1>5, <1>6

LEMMA CalledIInv ==
  ASSUME IInv, NEW m \in Mutations,
         Invoke(m) \/ Execute(m) \/ Answer(m) \/ FailMutation(m)
  PROVE  IInv'
BY Called, CallIInv DEF IInv

\* What SelectSource and ApplyResponse make of a call.
LEMMA Resolved ==
  ASSUME TypeOK, NEW m \in Mutations, NEW phase \in {"clearing", "rendered", "refreshed"},
         NEW awaits \in Fibers \cup {NoFiber},
         mutation' = [mutation EXCEPT ![m].phase = phase, ![m].awaits = awaits]
  PROVE  /\ mutation' \in [Mutations -> Calls]
         /\ \A n \in Mutations \ {m} : mutation'[n] = mutation[n]
         /\ mutation'[m].phase = phase
         /\ mutation'[m].entry = mutation[m].entry
         /\ mutation'[m].page = mutation[m].page
         /\ mutation'[m].order = mutation[m].order
         /\ mutation'[m].effect = mutation[m].effect
         /\ mutation'[m].response = mutation[m].response
<1>1. mutation \in [Mutations -> Calls] /\ mutation[m] \in Calls
  BY DEF TypeOK, Calls
<1>2. PICK new : new = [mutation[m] EXCEPT !.phase = phase, !.awaits = awaits]
  OBVIOUS
<1>3. /\ new \in Calls /\ new.phase = phase /\ new.entry = mutation[m].entry
      /\ new.page = mutation[m].page /\ new.order = mutation[m].order
      /\ new.effect = mutation[m].effect /\ new.response = mutation[m].response
  BY <1>1, <1>2 DEF Calls
<1>4. mutation' = [mutation EXCEPT ![m] = new]
  BY <1>2
<1>. QED
  BY <1>3, <1>4, CallSet

\* The response does not apply: a refresh starts.
LEMMA FallBackIInv ==
  ASSUME IInv, NEW m \in Mutations, StartRefresh(m),
         mutation[m].phase \in {"answered", "clearing"},
         mutation' = [mutation EXCEPT ![m].phase = "refreshed", ![m].awaits = NoFiber],
         UNCHANGED <<version, latestInvocationOrder, navigationVars, preempted, abandoned>>
  PROVE  IInv'
<1>1. /\ mutation' \in [Mutations -> Calls]
      /\ \A n \in Mutations \ {m} : mutation'[n] = mutation[n]
      /\ mutation'[m].phase = "refreshed"
      /\ mutation'[m].entry = mutation[m].entry
      /\ mutation'[m].page = mutation[m].page
  BY Resolved DEF IInv
<1>. QED
  BY <1>1, FiberNames, StartRefreshIInv

\* The response applies: what runs is interrupted.
LEMMA SelectIInv ==
  ASSUME IInv, NEW m \in Mutations,
         mutation[m].phase = "answered",
         mutation' = [mutation EXCEPT ![m].phase = "clearing", ![m].awaits = refreshes],
         fiber' = Interrupted(refreshes), Discard(refreshes),
         UNCHANGED <<version, latestInvocationOrder, refreshes, navigationVars, preempted, abandoned>>
  PROVE  IInv'
<1>1. /\ mutation' \in [Mutations -> Calls]
      /\ \A n \in Mutations \ {m} : mutation'[n] = mutation[n]
      /\ mutation'[m].phase = "clearing"
      /\ mutation'[m].entry = mutation[m].entry
      /\ mutation'[m].page = mutation[m].page
  <2>1. refreshes \in Fibers \cup {NoFiber}
    BY DEF IInv, TypeOK
  <2>. QED
    BY <2>1, Resolved DEF IInv
<1>2. /\ fiber' \in [Fibers -> FiberStates]
      /\ \A f \in Fibers :
           /\ ~Running(f)'
           /\ fiber'[f] = fiber[f] \/ (fiber'[f].phase = "closing" /\ Running(f))
  BY NothingRuns DEF IInv
<1>3. \A n \in Mutations : mutation'[n].entry = mutation[n].entry /\ mutation'[n].page = mutation[n].page
  BY <1>1
<1>4. /\ published' \in Trees /\ visible' = visible
      /\ pending' = pending \ {refreshes}
      /\ EntryInv' /\ ScreenInv'
  BY <1>3, HandleDiscarded
<1>5. TypeOK'
  BY <1>1, <1>2, <1>4 DEF IInv, TypeOK, FiberStates, Calls, navigationVars
<1>6. RefreshYields'
  BY <1>2 DEF RefreshYields, Raced, Running
<1>7. HandleInv'
  BY <1>1, <1>2, FiberNames DEF IInv, HandleInv, Running
<1>8. PageInv'
  BY <1>1, <1>2, <1>3 DEF IInv, PageInv, Running, navigationVars
<1>9. PendingInv'
  <2>1. SUFFICES ASSUME NEW g \in pending', g \in Fibers
                 PROVE  g \in Mutations /\ mutation'[g].phase = "rendered"
    BY DEF PendingInv
  <2>2. g \in pending /\ g # refreshes
    BY <1>4, <2>1
  <2>3. g \in Mutations /\ mutation[g].phase = "rendered"
    BY <2>1, <2>2, PendingFibers
  <2>. QED
    BY <1>1, <2>3
<1>. QED
  BY <1>4, <1>5, <1>6, <1>7, <1>8, <1>9 DEF IInv

\* An applicable response is of the page of the current entry.
LEMMA ApplyIInv ==
  ASSUME IInv, NEW m \in Mutations,
         mutation[m].phase = "clearing", Applicable(m),
         mutation' = [mutation EXCEPT ![m].phase = "rendered", ![m].awaits = NoFiber],
         Schedule(Tree(m, mutation[m].response, mutation[m].page)),
         UNCHANGED <<version, latestInvocationOrder, fiberVars, navigationVars, preempted, abandoned>>
  PROVE  IInv'
<1>1. /\ mutation' \in [Mutations -> Calls]
      /\ \A n \in Mutations \ {m} : mutation'[n] = mutation[n]
      /\ mutation'[m].phase = "rendered"
      /\ mutation'[m].entry = mutation[m].entry
      /\ mutation'[m].page = mutation[m].page
  BY Resolved DEF IInv
<1>2. mutation[m] \in Calls
  BY DEF IInv, TypeOK, Calls
<1>3. mutation[m].page = page /\ ~Navigating
  BY DEF IInv, PageInv, Applicable
<1>4. /\ published' \in Trees /\ published'.source = m /\ published'.page = page
      /\ visible' = visible /\ pending' = pending \cup {m}
  BY <1>2, <1>3, FiberNames, TreeFields DEF Schedule, Calls
<1>5. TypeOK'
  BY <1>1, <1>4, FiberNames DEF IInv, TypeOK, FiberStates, Calls, fiberVars, navigationVars
<1>6. RefreshYields'
  BY <1>3 DEF RefreshYields, Navigating, navigationVars
<1>7. HandleInv'
  BY <1>1, FiberNames DEF IInv, HandleInv, Running, fiberVars
<1>8. PageInv'
  BY <1>1 DEF IInv, PageInv, fiberVars, navigationVars
<1>9. EntryInv'
  BY <1>1, <1>3, <1>4, FiberNames DEF IInv, EntryInv, Navigating, navigationVars
<1>10. ScreenInv'
  BY <1>3, <1>4 DEF IInv, ScreenInv, OfCurrentPage, Navigating, navigationVars
<1>11. PendingInv'
  BY <1>1, <1>4 DEF IInv, PendingInv, fiberVars
<1>. QED
  BY <1>5, <1>6, <1>7, <1>8, <1>9, <1>10, <1>11 DEF IInv

LEMMA ResponseIInv ==
  ASSUME IInv, NEW m \in Mutations, SelectSource(m) \/ ApplyResponse(m)
  PROVE  IInv'
<1>1. CASE SelectSource(m)
  BY <1>1, SelectIInv, FallBackIInv DEF SelectSource, historyVars
<1>2. CASE ApplyResponse(m)
  BY <1>2, ApplyIInv, FallBackIInv DEF ApplyResponse, historyVars
<1>. QED
  BY <1>1, <1>2

------------------------------------------------------------------------------
(* Navigation and React.                                                   *)

LEMMA NavigationFields ==
  ASSUME TypeOK, navigation' = [phase |-> "loading", since |-> version, target |-> entries'],
         entries' \in 0..MaxEntries
  PROVE  /\ navigation' \in [phase : {"idle", "loading", "published"}, since : Nat, target : 0..MaxEntries]
         /\ navigation'.phase = "loading" /\ navigation'.target = entries'
         /\ navigation'.since = version
BY DEF TypeOK

\* A navigation interrupts the refresh it finds, and its entry is new.
LEMMA NavigateIInv == IInv /\ Navigate => IInv'
<1>1. SUFFICES ASSUME IInv, Navigate PROVE IInv'
  OBVIOUS
<1>2. /\ ~Navigating /\ navigation.phase = "idle" /\ entries' = entries + 1
      /\ navigation' = [phase |-> "loading", since |-> version, target |-> entries']
      /\ UNCHANGED <<serverVars, refreshes, entry, page, abandoned>>
  BY <1>1 DEF Navigate, Navigating
<1>3. entries \in Nat /\ entries' \in 0..MaxEntries
  BY <1>1, RefreshAssumption DEF IInv, TypeOK, Navigate
<1>4. /\ navigation' \in [phase : {"idle", "loading", "published"}, since : Nat, target : 0..MaxEntries]
      /\ navigation'.phase = "loading" /\ navigation'.target = entries'
  BY <1>1, <1>2, <1>3, NavigationFields DEF IInv
<1>5. Navigating'
  BY <1>4 DEF Navigating
<1>6. OfCurrentPage(visible) /\ OfCurrentPage(published)
  BY <1>1, <1>2 DEF IInv, ScreenInv, OfCurrentPage
<1>7. /\ fiber' \in [Fibers -> FiberStates]
      /\ \A f \in Fibers :
           /\ ~Raced(f)'
           /\ fiber'[f] = fiber[f] \/ (fiber'[f].phase = "closing" /\ Raced(f))
  <2>1. CASE Raced(refreshes)
    <3>1. fiber' = Interrupted(refreshes)
      BY <1>1, <2>1 DEF Navigate
    <3>2. /\ fiber' \in [Fibers -> FiberStates]
          /\ \A f \in Fibers :
               /\ ~Running(f)'
               /\ fiber'[f] = fiber[f] \/ (fiber'[f].phase = "closing" /\ Running(f))
      BY <1>1, <3>1, NothingRuns DEF IInv
    <3>3. \A f \in Fibers : Running(f) => Raced(f)
      BY <1>1, <2>1 DEF IInv, HandleInv
    <3>. QED
      BY <3>2, <3>3 DEF Raced, Running
  <2>2. CASE ~Raced(refreshes)
    <3>1. fiber' = fiber
      BY <1>1, <2>2 DEF Navigate
    <3>2. \A f \in Fibers : ~Raced(f)
      BY <1>1, <2>2 DEF IInv, HandleInv, Running, Raced
    <3>. QED
      BY <1>1, <3>1, <3>2 DEF IInv, TypeOK, FiberStates, Raced
  <2>. QED
    BY <2>1, <2>2
<1>8. /\ published' \in Trees /\ visible' = visible /\ published' \in {published, visible}
      /\ pending' \subseteq pending
      /\ preempted' \in BOOLEAN
      /\ refreshes \in Fibers => refreshes \notin pending' \/ ~Raced(refreshes)
  <2>1. CASE Raced(refreshes)
    <3>1. Discard(refreshes) /\ preempted' = TRUE
      BY <1>1, <2>1 DEF Navigate
    <3>. QED
      BY <1>1, <3>1, Discarded DEF IInv
  <2>2. CASE ~Raced(refreshes)
    <3>1. UNCHANGED <<rendererVars, preempted>>
      BY <1>1, <2>2 DEF Navigate
    <3>. QED
      BY <1>1, <2>2, <3>1 DEF IInv, TypeOK, rendererVars
  <2>. QED
    BY <2>1, <2>2
<1>9. TypeOK'
  BY <1>1, <1>2, <1>3, <1>4, <1>7, <1>8 DEF IInv, TypeOK, FiberStates, serverVars
<1>10. RefreshYields'
  BY <1>7 DEF RefreshYields
<1>11. HandleInv'
  BY <1>1, <1>2, <1>7, FiberNames DEF IInv, HandleInv, Running, Raced, serverVars
<1>12. PageInv'
  BY <1>1, <1>2, <1>7 DEF IInv, PageInv, serverVars
<1>13. EntryInv'
  <2>1. \A source \in {published'.source, visible'.source} \cup pending' :
          source \in Nat => source <= entries
    BY <1>1, <1>8 DEF IInv, EntryInv
  <2>2. entries + 1 \notin {published'.source, visible'.source} \cup pending'
    BY <1>3, <2>1
  <2>3. entry \in Nat /\ entry <= entries
    BY <1>1 DEF IInv, TypeOK, EntryInv
  <2>4. \A source \in {published'.source, visible'.source} \cup pending' :
          source \in Nat => source <= entries'
    BY <1>2, <1>3, <2>1
  <2>5. entry' <= entries' /\ entry' < entries'
    BY <1>2, <1>3, <2>3
  <2>6. \A m \in Mutations : mutation'[m].entry <= entry'
    BY <1>1, <1>2 DEF IInv, EntryInv, serverVars
  <2>. QED
    BY <1>2, <1>4, <2>2, <2>4, <2>5, <2>6 DEF EntryInv
<1>14. ScreenInv'
  <2>1. visible'.source # entries'
    <3>1. visible.source \in Nat => visible.source <= entries
      BY <1>1 DEF IInv, EntryInv
    <3>. QED
      BY <1>2, <1>3, <1>8, <3>1
  <2>. QED
    BY <1>2, <1>4, <1>6, <1>8, <2>1 DEF ScreenInv, OfCurrentPage
<1>15. PendingInv'
  <2>1. SUFFICES ASSUME NEW g \in pending', g \in Fibers
                 PROVE  g \in Mutations /\ mutation'[g].phase = "rendered"
    BY DEF PendingInv
  <2>2. g \in pending
    BY <1>8, <2>1
  <2>3. g = refreshes => fiber[g].phase # "published"
    BY <1>8, <2>1 DEF Raced
  <2>4. g \in Mutations /\ mutation[g].phase = "rendered"
    BY <1>1, <2>1, <2>2, <2>3, PendingFibers
  <2>. QED
    BY <1>2, <2>4 DEF serverVars
<1>. QED
  BY <1>9, <1>10, <1>11, <1>12, <1>13, <1>14, <1>15 DEF IInv

\* A navigation's tree is that of its entry.
LEMMA PublishNavigationIInv == IInv /\ PublishNavigation => IInv'
<1>1. SUFFICES ASSUME IInv, PublishNavigation PROVE IInv'
  OBVIOUS
<1>2. PICK v \in navigation.since..version :
        Schedule(Tree(navigation.target, v, navigation.target))
  BY <1>1 DEF PublishNavigation
<1>3. /\ navigation.phase = "loading"
      /\ navigation' = [navigation EXCEPT !.phase = "published"]
      /\ preempted' = (preempted \/ pending # {})
      /\ UNCHANGED <<serverVars, fiberVars, entry, page, entries, abandoned>>
  BY <1>1 DEF PublishNavigation
<1>4. navigation \in [phase : {"idle", "loading", "published"}, since : Nat, target : 0..MaxEntries]
  BY <1>1 DEF IInv, TypeOK
<1>5. /\ navigation' \in [phase : {"idle", "loading", "published"}, since : Nat, target : 0..MaxEntries]
      /\ navigation'.phase = "published" /\ navigation'.target = navigation.target
  BY <1>3, <1>4
<1>6. Navigating /\ Navigating'
  BY <1>3, <1>5 DEF Navigating
<1>7. v \in Nat
  BY <1>1, <1>2, <1>4 DEF IInv, TypeOK
<1>8. /\ published' \in Trees
      /\ published'.source = navigation.target /\ published'.page = navigation.target
      /\ visible' = visible /\ pending' = pending \cup {navigation.target}
  BY <1>2, <1>4, <1>7, TreeFields DEF Schedule
<1>9. preempted' \in BOOLEAN
  BY <1>1, <1>3 DEF IInv, TypeOK
<1>10. TypeOK'
  BY <1>1, <1>3, <1>4, <1>5, <1>8, <1>9 DEF IInv, TypeOK, FiberStates, Calls, serverVars, fiberVars
<1>11. RefreshYields'
  BY <1>1, <1>3, <1>6 DEF IInv, RefreshYields, Raced, fiberVars
<1>12. HandleInv' /\ PageInv'
  BY <1>1, <1>3 DEF IInv, HandleInv, PageInv, Running, serverVars, fiberVars
<1>13. EntryInv'
  BY <1>1, <1>3, <1>4, <1>5, <1>6, <1>8 DEF IInv, TypeOK, EntryInv, serverVars
<1>14. ScreenInv'
  BY <1>1, <1>3, <1>5, <1>6, <1>8 DEF IInv, ScreenInv, OfCurrentPage, EntryInv
<1>15. PendingInv'
  BY <1>1, <1>3, <1>4, <1>8, FiberNames DEF IInv, PendingInv, serverVars, fiberVars
<1>. QED
  BY <1>10, <1>11, <1>12, <1>13, <1>14, <1>15 DEF IInv

LEMMA IdleFields ==
  /\ NoNavigation \in [phase : {"idle", "loading", "published"}, since : Nat, target : 0..MaxEntries]
  /\ NoNavigation.phase = "idle"
BY RefreshAssumption DEF NoNavigation

LEMMA CommitNavigationIInv == IInv /\ CommitNavigation => IInv'
<1>1. SUFFICES ASSUME IInv, CommitNavigation PROVE IInv'
  OBVIOUS
<1>2. /\ navigation.phase = "published" /\ visible.source = navigation.target
      /\ navigation' = NoNavigation
      /\ entry' = navigation.target /\ page' = navigation.target /\ preempted' = FALSE
      /\ UNCHANGED <<serverVars, fiberVars, entries, rendererVars, abandoned>>
  BY <1>1 DEF CommitNavigation
<1>3. Navigating /\ ~Navigating' /\ navigation'.phase = "idle"
  BY <1>2, IdleFields DEF Navigating
<1>4. navigation.target \in 0..MaxEntries /\ navigation.target = entries /\ entry < entries
      /\ entry \in Nat /\ entries \in Nat
  BY <1>1, <1>3 DEF IInv, TypeOK, EntryInv
<1>5. TypeOK'
  BY <1>1, <1>2, <1>4, IdleFields
    DEF IInv, TypeOK, FiberStates, Calls, serverVars, fiberVars, rendererVars
<1>6. RefreshYields'
  BY <1>3 DEF RefreshYields
<1>7. HandleInv'
  BY <1>1, <1>2 DEF IInv, HandleInv, Running, serverVars, fiberVars
<1>8. \A m \in Mutations : mutation[m].entry \in Nat /\ mutation[m].entry < entries
  <2>1. \A m \in Mutations : mutation[m].entry \in Nat
    BY <1>1 DEF IInv, TypeOK
  <2>2. \A m \in Mutations : mutation[m].entry <= entry
    BY <1>1 DEF IInv, EntryInv
  <2>3. entry \in Nat /\ entries \in Nat /\ entry < entries
    BY <1>4
  <2>4. ASSUME NEW n \in Nat, n <= entry
        PROVE  n < entries
    BY <2>3, <2>4
  <2>. QED
    BY <2>1, <2>2, <2>4
<1>9. PageInv'
  <2>1. \A f \in Fibers : fiber[f].phase # "loading"
    BY <1>1, <1>3 DEF IInv, RefreshYields, Raced
  <2>. QED
    BY <1>2, <1>4, <1>8, <2>1 DEF PageInv, serverVars, fiberVars
<1>10. EntryInv'
  BY <1>1, <1>2, <1>3, <1>4, <1>8 DEF IInv, EntryInv, serverVars, rendererVars
<1>11. ScreenInv'
  BY <1>1, <1>2, <1>3 DEF IInv, ScreenInv, OfCurrentPage, rendererVars
<1>12. PendingInv'
  BY <1>1, <1>2 DEF IInv, PendingInv, serverVars, fiberVars, rendererVars
<1>. QED
  BY <1>5, <1>6, <1>7, <1>9, <1>10, <1>11, <1>12 DEF IInv

\* An aborted navigation's tree gives way to the visible one, which is the
\* page's, unless it is the visible one itself and stays.
LEMMA AbortNavigationIInv == IInv /\ AbortNavigation => IInv'
<1>1. SUFFICES ASSUME IInv, AbortNavigation PROVE IInv'
  OBVIOUS
<1>2. /\ Navigating
      /\ navigation' = NoNavigation /\ Discard(navigation.target)
      /\ abandoned' = abandoned \cup ({navigation.target} \cap {visible.source})
      /\ UNCHANGED <<serverVars, fiberVars, entry, page, entries, preempted>>
  BY <1>1 DEF AbortNavigation
<1>3. ~Navigating' /\ navigation'.phase = "idle"
  BY <1>2, IdleFields DEF Navigating
<1>4. /\ published' \in Trees /\ visible' = visible
      /\ pending' = pending \ {navigation.target}
      /\ navigation.target \in pending => published' = visible
      /\ navigation.target \notin pending => published' = published
  BY <1>1, <1>2, Discarded DEF IInv
<1>5. TypeOK'
  BY <1>1, <1>2, <1>4, IdleFields
    DEF IInv, TypeOK, FiberStates, Calls, serverVars, fiberVars
<1>6. RefreshYields'
  BY <1>3 DEF RefreshYields
<1>7. HandleInv' /\ PageInv'
  BY <1>1, <1>2 DEF IInv, HandleInv, PageInv, Running, serverVars, fiberVars
<1>8. EntryInv'
  BY <1>1, <1>2, <1>3, <1>4 DEF IInv, EntryInv, serverVars
<1>9. ScreenInv'
  BY <1>1, <1>2, <1>3, <1>4 DEF IInv, ScreenInv, OfCurrentPage
<1>10. PendingInv'
  BY <1>1, <1>2, <1>4 DEF IInv, PendingInv, serverVars, fiberVars
<1>. QED
  BY <1>5, <1>6, <1>7, <1>8, <1>9, <1>10 DEF IInv

LEMMA NavigateFragmentIInv == IInv /\ NavigateFragment => IInv'
<1>1. SUFFICES ASSUME IInv, NavigateFragment PROVE IInv'
  OBVIOUS
<1>2. /\ ~Navigating /\ entries' = entries + 1 /\ entry' = entries'
      /\ UNCHANGED <<serverVars, fiberVars, navigation, page, rendererVars, preempted, abandoned>>
  BY <1>1 DEF NavigateFragment, historyVars
<1>3. entries \in Nat /\ entry \in Nat /\ entries' \in 0..MaxEntries
  BY <1>1, RefreshAssumption DEF IInv, TypeOK, NavigateFragment, historyVars
<1>4. TypeOK'
  BY <1>1, <1>2, <1>3 DEF IInv, TypeOK, FiberStates, Calls, serverVars, fiberVars, rendererVars
<1>5. RefreshYields' /\ HandleInv' /\ ScreenInv' /\ PendingInv'
  BY <1>1, <1>2
    DEF IInv, RefreshYields, HandleInv, ScreenInv, OfCurrentPage, PendingInv, Running, Raced, Navigating,
        serverVars, fiberVars, rendererVars
<1>6. \A m \in Mutations : mutation[m].entry \in Nat /\ mutation[m].entry <= entries
  BY <1>1, <1>3 DEF IInv, TypeOK, EntryInv
<1>7. PageInv'
  BY <1>1, <1>2, <1>3, <1>6 DEF IInv, PageInv, serverVars, fiberVars
<1>8. EntryInv'
  <2>1. navigation.phase = "idle"
    BY <1>2 DEF Navigating
  <2>2. \A source \in {published.source, visible.source} \cup pending :
          source \in Nat => source <= entries + 1
    <3>1. \A n \in Nat : n <= entries => n <= entries + 1
      BY <1>3
    <3>2. \A source \in {published.source, visible.source} \cup pending :
            source \in Nat => source <= entries
      BY <1>1 DEF IInv, EntryInv
    <3>. QED
      BY <3>1, <3>2
  <2>3. \A m \in Mutations : mutation[m].entry <= entries + 1
    BY <1>3, <1>6
  <2>4. entry' = entries + 1 /\ entry' <= entries' /\ navigation'.phase = "idle" /\ ~Navigating'
    BY <1>2, <1>3, <2>1 DEF Navigating
  <2>5. \A m \in Mutations : mutation'[m].entry <= entry'
    BY <1>2, <2>3, <2>4 DEF serverVars
  <2>6. \A source \in {published'.source, visible'.source} \cup pending' :
          source \in Nat => source <= entries'
    BY <1>2, <2>2 DEF rendererVars
  <2>. QED
    BY <2>4, <2>5, <2>6 DEF EntryInv
<1>. QED
  BY <1>4, <1>5, <1>7, <1>8 DEF IInv

\* React shows the newest tree; the refresh it belongs to is committed.
LEMMA CommitIInv == IInv /\ Commit => IInv'
<1>1. SUFFICES ASSUME IInv, Commit PROVE IInv'
  OBVIOUS
<1>2. /\ visible' = published /\ published' = published /\ pending' = {}
      /\ fiber' = [f \in Fibers |->
                     IF f = published.source /\ fiber[f].phase = "published"
                     THEN [fiber[f] EXCEPT !.phase = "committed"] ELSE fiber[f]]
      /\ UNCHANGED <<serverVars, refreshes, navigationVars, preempted, abandoned>>
  BY <1>1 DEF Commit, historyVars
<1>3. fiber \in [Fibers -> FiberStates]
  BY <1>1 DEF IInv, TypeOK, FiberStates
<1>4. ASSUME NEW f \in Fibers
      PROVE  /\ fiber'[f] \in FiberStates
             /\ \/ fiber'[f] = fiber[f]
                \/ fiber[f].phase = "published" /\ fiber'[f].phase = "committed"
  <2>1. fiber[f] \in FiberStates
    BY <1>3
  <2>2. CASE f = published.source /\ fiber[f].phase = "published"
    <3>1. fiber'[f] = [fiber[f] EXCEPT !.phase = "committed"]
      BY <1>2, <2>2
    <3>. QED
      BY <2>1, <2>2, <3>1 DEF FiberStates
  <2>3. CASE ~(f = published.source /\ fiber[f].phase = "published")
    BY <1>2, <2>1, <2>3
  <2>. QED
    BY <2>2, <2>3
<1>5. fiber' \in [Fibers -> FiberStates]
  BY <1>2, <1>4
<1>6. TypeOK'
  BY <1>1, <1>2, <1>5 DEF IInv, TypeOK, FiberStates, Calls, serverVars, navigationVars
<1>7. RefreshYields'
  BY <1>1, <1>2, <1>4 DEF IInv, RefreshYields, Raced, Navigating, navigationVars
<1>8. HandleInv'
  BY <1>1, <1>2, <1>4, FiberNames DEF IInv, HandleInv, Running, serverVars
<1>9. PageInv'
  BY <1>1, <1>2, <1>4 DEF IInv, PageInv, serverVars, navigationVars
<1>10. EntryInv'
  BY <1>1, <1>2 DEF IInv, EntryInv, Navigating, serverVars, navigationVars
<1>11. ScreenInv'
  BY <1>1, <1>2 DEF IInv, ScreenInv, OfCurrentPage, EntryInv, Navigating, TypeOK, navigationVars
<1>12. PendingInv'
  BY <1>2 DEF PendingInv
<1>. QED
  BY <1>6, <1>7, <1>8, <1>9, <1>10, <1>11, <1>12 DEF IInv

------------------------------------------------------------------------------
(* What the newest tree shows.                                             *)

\* What data calls, fibers and navigations have seen.
DataInv ==
  /\ \A m \in Mutations :
       /\ mutation[m].phase \in {"executed", "answered", "clearing", "rendered", "refreshed"}
            => mutation[m].effect <= version
       /\ mutation[m].phase \in {"answered", "clearing", "rendered", "refreshed"}
            => mutation[m].response >= mutation[m].effect
       /\ mutation[m].phase # "idle" => mutation[m].order <= latestInvocationOrder
  /\ \A m, n \in Mutations :
       m # n /\ mutation[m].phase # "idle" /\ mutation[n].phase # "idle"
         => mutation[m].order # mutation[n].order
  /\ pending = {} => published = visible

\* A refresh that loads beside a mutation whose caller has its result began
\* after the mutation was executed.
LoadInv ==
  \A m \in Mutations, f \in Fibers :
    /\ mutation[m].phase \in {"clearing", "rendered", "refreshed"}
    /\ fiber[f].phase = "loading"
    => fiber[f].since >= mutation[m].effect

Waits == \E f \in Fibers : fiber[f].phase = "waiting"
Loads == \E f \in Fibers : fiber[f].phase = "loading"

\* The effect of the latest mutation is on screen or on its way there, or
\* something got in the way: with no navigation, during the loading of one
\* (whose tree may replace the newest), and during its commit (whose failure
\* may bring back the visible one).
OnItsWay(m) ==
  /\ navigation.phase = "idle" =>
       preempted \/ published.version >= mutation[m].effect \/ Waits \/ Loads
  /\ navigation.phase = "loading" =>
       /\ navigation.since >= mutation[m].effect \/ Waits
       /\ preempted \/ published.version >= mutation[m].effect \/ Waits
  /\ navigation.phase = "published" =>
       /\ published.version >= mutation[m].effect \/ Waits
       /\ visible.source # navigation.target =>
            preempted \/ visible.version >= mutation[m].effect \/ Waits

ShownInv == \A m \in Mutations : Settled(m) /\ Latest(m) => OnItsWay(m)

ShowInv == DataInv /\ LoadInv /\ ShownInv

LEMMA Numbers ==
  ASSUME TypeOK
  PROVE  /\ version \in Nat /\ latestInvocationOrder \in Nat
         /\ published.version \in Nat /\ visible.version \in Nat /\ navigation.since \in Nat
         /\ \A m \in Mutations :
              mutation[m].effect \in Nat /\ mutation[m].response \in Nat /\ mutation[m].order \in Nat
         /\ \A f \in Fibers : fiber[f].since \in Nat
BY DEF TypeOK, Trees

LEMMA InitShow == Init => ShowInv
<1>1. SUFFICES ASSUME Init PROVE ShowInv
  OBVIOUS
<1>2. \A m \in Mutations : mutation[m].phase = "idle"
  BY <1>1 DEF Init
<1>3. DataInv
  BY <1>1, <1>2 DEF Init, DataInv
<1>. QED
  BY <1>2, <1>3 DEF ShowInv, LoadInv, ShownInv, Settled

\* A step that leaves the calls alone.
LEMMA SameCalls ==
  ASSUME DataInv, UNCHANGED <<mutation, version, latestInvocationOrder>>,
         pending' = {} => published' = visible'
  PROVE  DataInv'
BY DEF DataInv

LEMMA PublishRefreshShow ==
  ASSUME IInv, ShowInv, NEW f \in Fibers, PublishRefresh(f)
  PROVE  ShowInv'
<1>1. PICK v \in fiber[f].since..version : Schedule(Tree(f, v, fiber[f].page))
  BY DEF PublishRefresh, historyVars
<1>2. /\ fiber[f].phase = "loading"
      /\ fiber' = [fiber EXCEPT ![f] = Fiber("published", 0, 0)]
      /\ UNCHANGED <<serverVars, refreshes, navigationVars, preempted, abandoned>>
  BY DEF PublishRefresh, historyVars
<1>3. /\ fiber'[f].phase = "published"
      /\ \A g \in Fibers \ {f} : fiber'[g] = fiber[g]
  BY <1>2, EndedFiber, FiberSet DEF IInv
<1>4. ~Navigating /\ navigation.phase = "idle"
  BY <1>2 DEF IInv, RefreshYields, Raced, Navigating
<1>5. published'.version = v /\ pending' = pending \cup {f}
  BY <1>1, TreeFields DEF Schedule
<1>6. DataInv'
  BY <1>2, <1>5, SameCalls DEF ShowInv, serverVars
<1>7. LoadInv'
  BY <1>2, <1>3 DEF ShowInv, LoadInv, serverVars
<1>8. ASSUME NEW m \in Mutations, mutation[m].phase \in {"rendered", "refreshed"}
      PROVE  v >= mutation[m].effect
  <2>1. fiber[f].since >= mutation[m].effect
    BY <1>2, <1>8 DEF ShowInv, LoadInv
  <2>. QED
    BY <1>1, <2>1, Numbers DEF IInv
<1>9. ShownInv'
  BY <1>2, <1>4, <1>5, <1>8 DEF ShownInv, Settled, OnItsWay, serverVars, navigationVars
<1>. QED
  BY <1>6, <1>7, <1>9 DEF ShowInv

LEMMA BecomeIdleShow ==
  ASSUME IInv, ShowInv, NEW f \in Fibers, BecomeIdle(f)
  PROVE  ShowInv'
<1>1. /\ ~Navigating
      /\ fiber' = [fiber EXCEPT ![f] = Fiber("loading", version, page)]
      /\ UNCHANGED <<serverVars, refreshes, navigationVars, rendererVars, preempted, abandoned>>
  BY DEF BecomeIdle, historyVars
<1>2. /\ fiber'[f].phase = "loading" /\ fiber'[f].since = version
      /\ \A g \in Fibers \ {f} : fiber'[g] = fiber[g]
  <2>1. version \in Nat /\ page \in 0..MaxEntries
    BY DEF IInv, TypeOK
  <2>2. PICK new \in FiberStates :
          /\ new = Fiber("loading", version, page)
          /\ new.phase = "loading" /\ new.since = version
    BY <2>1, LoadingFiber
  <2>. QED
    BY <1>1, <2>2, FiberSet DEF IInv
<1>3. navigation.phase = "idle"
  BY <1>1 DEF Navigating
<1>4. DataInv'
  BY <1>1, SameCalls DEF ShowInv, DataInv, serverVars, rendererVars
<1>5. LoadInv'
  BY <1>1, <1>2 DEF ShowInv, DataInv, LoadInv, serverVars
<1>6. ShownInv'
  BY <1>1, <1>2, <1>3 DEF ShownInv, OnItsWay, Loads, navigationVars
<1>. QED
  BY <1>4, <1>5, <1>6 DEF ShowInv

\* A refresh that fails has got in the way; one that is over counts no more.
LEMMA ExitShow ==
  ASSUME IInv, ShowInv, NEW f \in Fibers,
         FailRefresh(f) \/ FinishRefresh(f) \/ CloseRefresh(f)
  PROVE  ShowInv'
<1>1. Exit(f) /\ UNCHANGED <<serverVars, navigationVars, rendererVars>>
  BY DEF FailRefresh, historyVars, FinishRefresh, CloseRefresh
<1>2. /\ fiber'[f].phase = "done"
      /\ \A g \in Fibers \ {f} : fiber'[g] = fiber[g]
  BY <1>1, Exited DEF IInv
<1>3. DataInv'
  BY <1>1, SameCalls DEF ShowInv, DataInv, serverVars, rendererVars
<1>4. LoadInv'
  BY <1>1, <1>2 DEF ShowInv, LoadInv, serverVars
<1>5. CASE FailRefresh(f)
  <2>1. navigation.phase = "idle" /\ preempted' = TRUE
    BY <1>5 DEF FailRefresh, historyVars, IInv, RefreshYields, Raced, Navigating
  <2>2. ShownInv'
    BY <1>1, <2>1 DEF ShownInv, OnItsWay, navigationVars
  <2>. QED
    BY <1>3, <1>4, <2>2 DEF ShowInv
<1>6. CASE FinishRefresh(f) \/ CloseRefresh(f)
  <2>1. fiber[f].phase \in {"committed", "closing"} /\ preempted' = preempted
    BY <1>6 DEF FinishRefresh, historyVars, CloseRefresh
  <2>2. (Waits => Waits') /\ (Loads => Loads')
    BY <1>2, <2>1 DEF Waits, Loads
  <2>3. ShownInv'
    BY <1>1, <2>1, <2>2
      DEF ShowInv, ShownInv, OnItsWay, Settled, Latest, serverVars, navigationVars, rendererVars
  <2>. QED
    BY <1>3, <1>4, <2>3 DEF ShowInv
<1>. QED
  BY <1>5, <1>6

\* A call that settles keeps its data.
LEMMA SettlingCalls ==
  ASSUME DataInv, UNCHANGED <<version, latestInvocationOrder>>,
         \A n \in Mutations :
           \/ mutation'[n] = mutation[n]
           \/ /\ mutation[n].phase \in {"answered", "clearing"}
              /\ mutation'[n].phase \in {"clearing", "rendered", "refreshed"}
              /\ mutation'[n].order = mutation[n].order
              /\ mutation'[n].effect = mutation[n].effect
              /\ mutation'[n].response = mutation[n].response,
         pending' = {} => published' = visible'
  PROVE  DataInv'
<1>1. \A m, n \in Mutations :
        m # n /\ mutation'[m].phase # "idle" /\ mutation'[n].phase # "idle"
          => mutation'[m].order # mutation'[n].order
  BY DEF DataInv
<1>. QED
  BY <1>1 DEF DataInv

\* A refresh that starts is under way itself, and loads what is newest.
LEMMA StartRefreshShow ==
  ASSUME IInv, ShowInv, NEW f \in Fibers, StartRefresh(f),
         \A m \in Mutations :
           \/ mutation'[m] = mutation[m]
           \/ /\ mutation[m].phase \in {"answered", "clearing"}
              /\ mutation'[m].phase = "refreshed"
              /\ mutation'[m].entry = mutation[m].entry
              /\ mutation'[m].order = mutation[m].order
              /\ mutation'[m].effect = mutation[m].effect
              /\ mutation'[m].response = mutation[m].response,
         UNCHANGED <<version, latestInvocationOrder, navigationVars, preempted, abandoned>>
  PROVE  ShowInv'
<1>1. /\ Navigating => fiber'[f].phase = "waiting"
      /\ ~Navigating => fiber'[f].phase = "loading" /\ fiber'[f].since = version
      /\ \A g \in Fibers \ {f} : ~Running(g)'
      /\ Discard(refreshes)
  BY Started DEF IInv
<1>2. /\ visible' = visible /\ pending' = pending \ {refreshes}
      /\ published' = IF refreshes \in pending THEN visible ELSE published
  BY <1>1 DEF Discard
<1>3. DataInv'
  <2>1. pending' = {} => published' = visible'
    BY <1>2 DEF ShowInv, DataInv
  <2>. QED
    BY <2>1, SettlingCalls DEF ShowInv
<1>4. LoadInv'
  <2>1. SUFFICES ASSUME NEW m \in Mutations, NEW g \in Fibers,
                        mutation'[m].phase \in {"clearing", "rendered", "refreshed"},
                        fiber'[g].phase = "loading"
                 PROVE  fiber'[g].since >= mutation'[m].effect
    BY DEF LoadInv
  <2>2. g = f
    BY <1>1, <2>1 DEF Running
  <2>3. fiber'[g].since = version
    BY <1>1, <2>1, <2>2
  <2>4. mutation[m].phase \in {"answered", "clearing", "rendered", "refreshed"}
        /\ mutation'[m].effect = mutation[m].effect
    BY <2>1
  <2>. QED
    BY <2>3, <2>4, Numbers DEF IInv, ShowInv, DataInv
<1>5. \A m \in Mutations : OnItsWay(m)'
  <2>1. navigation' = navigation
    BY DEF navigationVars
  <2>2. Navigating => Waits'
    BY <1>1 DEF Waits
  <2>3. ~Navigating => Loads'
    BY <1>1 DEF Loads
  <2>. QED
    BY <2>1, <2>2, <2>3 DEF OnItsWay, Navigating
<1>6. ShownInv'
  BY <1>5 DEF ShownInv
<1>. QED
  BY <1>3, <1>4, <1>6 DEF ShowInv

LEMMA HotUpdateShow ==
  ASSUME IInv, ShowInv, NEW u \in Updates, HotUpdate(u)
  PROVE  ShowInv'
BY FiberNames, StartRefreshShow DEF HotUpdate, historyVars, serverVars

LEMMA FallBackShow ==
  ASSUME IInv, ShowInv, NEW m \in Mutations, StartRefresh(m),
         mutation[m].phase \in {"answered", "clearing"},
         mutation' = [mutation EXCEPT ![m].phase = "refreshed", ![m].awaits = NoFiber],
         UNCHANGED <<version, latestInvocationOrder, navigationVars, preempted, abandoned>>
  PROVE  ShowInv'
<1>1. /\ \A n \in Mutations \ {m} : mutation'[n] = mutation[n]
      /\ mutation'[m].phase = "refreshed"
      /\ mutation'[m].entry = mutation[m].entry
      /\ mutation'[m].order = mutation[m].order
      /\ mutation'[m].effect = mutation[m].effect
      /\ mutation'[m].response = mutation[m].response
  BY Resolved DEF IInv
<1>. QED
  BY <1>1, FiberNames, StartRefreshShow

\* A call that goes on shows nothing yet; a new one is the latest.
LEMMA CalledShow ==
  ASSUME IInv, ShowInv, NEW m \in Mutations,
         Invoke(m) \/ Execute(m) \/ Answer(m) \/ FailMutation(m)
  PROVE  ShowInv'
<1>1. /\ \A n \in Mutations \ {m} : mutation'[n] = mutation[n]
      /\ mutation'[m].phase \in {"requested", "executed", "answered", "failed"}
      /\ UNCHANGED <<fiberVars, navigationVars, rendererVars, preempted, abandoned>>
      /\ \/ /\ mutation[m].phase = "idle" /\ mutation'[m].phase = "requested"
            /\ latestInvocationOrder' = latestInvocationOrder + 1 /\ version' = version
            /\ mutation'[m].order = latestInvocationOrder + 1
         \/ /\ mutation[m].phase # "idle" /\ mutation'[m].phase = "executed"
            /\ latestInvocationOrder' = latestInvocationOrder /\ version' = version + 1
            /\ mutation'[m].order = mutation[m].order /\ mutation'[m].effect = version + 1
         \/ /\ mutation[m].phase = "executed" /\ mutation'[m].phase = "answered"
            /\ latestInvocationOrder' = latestInvocationOrder /\ version' = version
            /\ mutation'[m].order = mutation[m].order
            /\ mutation'[m].effect = mutation[m].effect
            /\ mutation'[m].response >= mutation[m].effect
         \/ /\ mutation[m].phase # "idle" /\ mutation'[m].phase = "failed"
            /\ latestInvocationOrder' = latestInvocationOrder /\ version' = version
            /\ mutation'[m].order = mutation[m].order
  BY Called DEF IInv
<1>2. /\ version \in Nat /\ latestInvocationOrder \in Nat
      /\ \A n \in Mutations :
           mutation[n].effect \in Nat /\ mutation[n].response \in Nat /\ mutation[n].order \in Nat
  BY Numbers DEF IInv
<1>3. version' >= version /\ latestInvocationOrder' >= latestInvocationOrder
      /\ version' \in Nat /\ latestInvocationOrder' \in Nat
  BY <1>1, <1>2
<1>4. DataInv'
  <2>1. ASSUME NEW n \in Mutations
        PROVE  /\ mutation'[n].phase \in {"executed", "answered", "clearing", "rendered", "refreshed"}
                    => mutation'[n].effect <= version'
               /\ mutation'[n].phase \in {"answered", "clearing", "rendered", "refreshed"}
                    => mutation'[n].response >= mutation'[n].effect
               /\ mutation'[n].phase # "idle" => mutation'[n].order <= latestInvocationOrder'
    <3>1. CASE n = m
      BY <1>1, <1>2, <1>3, <3>1 DEF ShowInv, DataInv
    <3>2. CASE n # m
      <4>1. mutation'[n] = mutation[n]
        BY <1>1, <3>2
      <4>. QED
        BY <1>2, <1>3, <4>1 DEF ShowInv, DataInv
    <3>. QED
      BY <3>1, <3>2
  <2>2. ASSUME NEW n \in Mutations, n # m, mutation'[n].phase # "idle"
        PROVE  mutation'[n].order # mutation'[m].order
    <3>1. mutation'[n] = mutation[n] /\ mutation[n].order <= latestInvocationOrder
      BY <1>1, <2>2 DEF ShowInv, DataInv
    <3>. QED
      BY <1>1, <1>2, <2>2, <3>1 DEF ShowInv, DataInv
  <2>3. \A n, o \in Mutations :
          n # o /\ mutation'[n].phase # "idle" /\ mutation'[o].phase # "idle"
            => mutation'[n].order # mutation'[o].order
    BY <1>1, <2>2 DEF ShowInv, DataInv
  <2>4. pending' = {} => published' = visible'
    BY <1>1 DEF ShowInv, DataInv, rendererVars
  <2>. QED
    BY <2>1, <2>3, <2>4 DEF DataInv
<1>5. LoadInv'
  BY <1>1 DEF ShowInv, LoadInv, fiberVars
<1>6. ShownInv'
  <2>1. SUFFICES ASSUME NEW n \in Mutations, Settled(n)', Latest(n)'
                 PROVE  OnItsWay(n)'
    BY DEF ShownInv
  <2>2. n # m /\ mutation'[n] = mutation[n] /\ mutation[n].phase \in {"rendered", "refreshed"}
    BY <1>1, <2>1 DEF Settled
  <2>3. latestInvocationOrder' = latestInvocationOrder
    <3>1. mutation[n].order <= latestInvocationOrder
      BY <2>2 DEF ShowInv, DataInv
    <3>2. mutation[n].order = latestInvocationOrder'
      BY <2>1, <2>2 DEF Latest
    <3>. QED
      BY <1>1, <1>2, <3>1, <3>2
  <2>4. Settled(n) /\ Latest(n)
    BY <2>1, <2>2, <2>3 DEF Settled, Latest
  <2>5. OnItsWay(n)
    BY <2>4 DEF ShowInv, ShownInv
  <2>. QED
    BY <1>1, <2>2, <2>5 DEF OnItsWay, Waits, Loads, fiberVars, navigationVars, rendererVars
<1>. QED
  BY <1>4, <1>5, <1>6 DEF ShowInv

\* While the latest call has yet to settle, no other one is the latest.
LEMMA OnlyLatest ==
  ASSUME DataInv, NEW m \in Mutations, mutation[m].phase # "idle", Latest(m)
  PROVE  \A n \in Mutations \ {m} : ~(Settled(n) /\ Latest(n))
BY DEF DataInv, Settled, Latest

LEMMA SelectShow ==
  ASSUME IInv, ShowInv, NEW m \in Mutations,
         mutation[m].phase = "answered", Applicable(m),
         mutation' = [mutation EXCEPT ![m].phase = "clearing", ![m].awaits = refreshes],
         fiber' = Interrupted(refreshes), Discard(refreshes),
         UNCHANGED <<version, latestInvocationOrder, refreshes, navigationVars, preempted, abandoned>>
  PROVE  ShowInv'
<1>1. /\ \A n \in Mutations \ {m} : mutation'[n] = mutation[n]
      /\ mutation'[m].phase = "clearing"
      /\ mutation'[m].order = mutation[m].order
      /\ mutation'[m].effect = mutation[m].effect
      /\ mutation'[m].response = mutation[m].response
  <2>1. refreshes \in Fibers \cup {NoFiber}
    BY DEF IInv, TypeOK
  <2>. QED
    BY <2>1, Resolved DEF IInv
<1>2. \A f \in Fibers : fiber'[f].phase # "loading"
  BY NothingRuns DEF IInv, Running
<1>3. DataInv'
  <2>1. pending' = {} => published' = visible'
    BY DEF ShowInv, DataInv, Discard
  <2>2. \A n \in Mutations :
          \/ mutation'[n] = mutation[n]
          \/ /\ mutation[n].phase = "answered" /\ mutation'[n].phase = "clearing"
             /\ mutation'[n].order = mutation[n].order
             /\ mutation'[n].effect = mutation[n].effect
             /\ mutation'[n].response = mutation[n].response
    BY <1>1
  <2>. QED
    BY <2>1, <2>2, SettlingCalls DEF ShowInv
<1>4. LoadInv'
  BY <1>2 DEF LoadInv
<1>5. \A n \in Mutations \ {m} : ~(Settled(n) /\ Latest(n))
  BY OnlyLatest DEF ShowInv, Applicable, Latest
<1>6. ShownInv'
  <2>1. ASSUME NEW n \in Mutations
        PROVE  ~(Settled(n)' /\ Latest(n)')
    <3>1. CASE n = m
      BY <1>1, <3>1 DEF Settled
    <3>2. CASE n # m
      <4>1. mutation'[n] = mutation[n] /\ ~(Settled(n) /\ Latest(n))
        BY <1>1, <1>5, <3>2
      <4>. QED
        BY <4>1 DEF Settled, Latest
    <3>. QED
      BY <3>1, <3>2
  <2>. QED
    BY <2>1 DEF ShownInv
<1>. QED
  BY <1>3, <1>4, <1>6 DEF ShowInv

\* The response shows the effect of its own call.
LEMMA ApplyShow ==
  ASSUME IInv, ShowInv, NEW m \in Mutations,
         mutation[m].phase = "clearing", Applicable(m),
         mutation' = [mutation EXCEPT ![m].phase = "rendered", ![m].awaits = NoFiber],
         Schedule(Tree(m, mutation[m].response, mutation[m].page)),
         UNCHANGED <<version, latestInvocationOrder, fiberVars, navigationVars, preempted, abandoned>>
  PROVE  ShowInv'
<1>1. /\ \A n \in Mutations \ {m} : mutation'[n] = mutation[n]
      /\ mutation'[m].phase = "rendered"
      /\ mutation'[m].order = mutation[m].order
      /\ mutation'[m].effect = mutation[m].effect
      /\ mutation'[m].response = mutation[m].response
  BY Resolved DEF IInv
<1>2. published'.version = mutation[m].response /\ pending' = pending \cup {m}
  BY TreeFields DEF Schedule
<1>3. DataInv'
  <2>1. pending' # {}
    BY <1>2
  <2>2. \A n \in Mutations :
          \/ mutation'[n] = mutation[n]
          \/ /\ mutation[n].phase = "clearing" /\ mutation'[n].phase = "rendered"
             /\ mutation'[n].order = mutation[n].order
             /\ mutation'[n].effect = mutation[n].effect
             /\ mutation'[n].response = mutation[n].response
    BY <1>1
  <2>. QED
    BY <2>1, <2>2, SettlingCalls DEF ShowInv
<1>4. LoadInv'
  BY <1>1 DEF ShowInv, LoadInv, fiberVars
<1>5. \A n \in Mutations \ {m} : ~(Settled(n) /\ Latest(n))
  BY OnlyLatest DEF ShowInv, Applicable, Latest
<1>6. OnItsWay(m)'
  <2>1. navigation'.phase = "idle"
    BY DEF Applicable, Navigating, navigationVars
  <2>2. published'.version >= mutation'[m].effect
    BY <1>1, <1>2 DEF ShowInv, DataInv
  <2>. QED
    BY <2>1, <2>2 DEF OnItsWay
<1>7. ShownInv'
  BY <1>1, <1>5, <1>6 DEF ShownInv, Settled, Latest
<1>. QED
  BY <1>3, <1>4, <1>7 DEF ShowInv

LEMMA ResponseShow ==
  ASSUME IInv, ShowInv, NEW m \in Mutations, SelectSource(m) \/ ApplyResponse(m)
  PROVE  ShowInv'
<1>1. CASE SelectSource(m)
  BY <1>1, SelectShow, FallBackShow DEF SelectSource, historyVars
<1>2. CASE ApplyResponse(m)
  BY <1>2, ApplyShow, FallBackShow DEF ApplyResponse, historyVars
<1>. QED
  BY <1>1, <1>2

------------------------------------------------------------------------------
(* Navigation and React, and what the screen shows.                        *)

\* A step that leaves the calls alone and lets no refresh begin to load.
LEMMA SameLoads ==
  ASSUME LoadInv, mutation' = mutation,
         \A f \in Fibers : fiber'[f].phase = "loading" => fiber'[f] = fiber[f]
  PROVE  LoadInv'
BY DEF LoadInv

\* A mutation whose effect is due was executed before now.
LEMMA EffectIsPast ==
  ASSUME DataInv, NEW m \in Mutations, Settled(m)
  PROVE  mutation[m].effect <= version
BY DEF DataInv, Settled

\* A navigation interrupts the refresh it finds, and loads what is newest.
LEMMA NavigateShow == IInv /\ ShowInv /\ Navigate => ShowInv'
<1>1. SUFFICES ASSUME IInv, ShowInv, Navigate PROVE ShowInv'
  OBVIOUS
<1>2. /\ ~Navigating /\ navigation.phase = "idle" /\ entries' = entries + 1
      /\ navigation' = [phase |-> "loading", since |-> version, target |-> entries']
      /\ UNCHANGED <<serverVars, refreshes, entry, page>>
  BY <1>1 DEF Navigate, Navigating
<1>3. entries' \in 0..MaxEntries
  BY <1>1, RefreshAssumption DEF IInv, TypeOK, Navigate
<1>4. navigation'.phase = "loading" /\ navigation'.since = version
  BY <1>1, <1>2, <1>3, NavigationFields DEF IInv
<1>5. pending' = {} => published' = visible'
  BY <1>1 DEF Navigate, Discard, ShowInv, DataInv, rendererVars
<1>6. DataInv'
  BY <1>1, <1>2, <1>5, SameCalls DEF ShowInv, serverVars
<1>7. CASE Raced(refreshes)
  <2>1. fiber' = Interrupted(refreshes) /\ preempted' = TRUE
    BY <1>1, <1>7 DEF Navigate
  <2>2. \A f \in Fibers : fiber'[f].phase # "loading"
    BY <1>1, <2>1, NothingRuns DEF IInv, Running
  <2>3. LoadInv'
    BY <2>2 DEF LoadInv
  <2>4. ASSUME NEW m \in Mutations, Settled(m)', Latest(m)'
        PROVE  OnItsWay(m)'
    <3>1. Settled(m) /\ mutation' = mutation
      BY <1>2, <2>4 DEF Settled, serverVars
    <3>2. version >= mutation[m].effect
      BY <1>1, <3>1, EffectIsPast, Numbers DEF ShowInv, IInv
    <3>. QED
      BY <1>4, <2>1, <3>1, <3>2 DEF OnItsWay
  <2>5. ShownInv'
    BY <2>4 DEF ShownInv
  <2>. QED
    BY <1>6, <2>3, <2>5 DEF ShowInv
<1>8. CASE ~Raced(refreshes)
  <2>1. UNCHANGED <<fiber, rendererVars, preempted>>
    BY <1>1, <1>8 DEF Navigate
  <2>2. ~Loads
    BY <1>1, <1>8 DEF IInv, HandleInv, Running, Raced, Loads
  <2>3. LoadInv'
    BY <1>1, <1>2, <2>1, SameLoads DEF ShowInv, serverVars
  <2>4. ASSUME NEW m \in Mutations, Settled(m)', Latest(m)'
        PROVE  OnItsWay(m)'
    <3>1. Settled(m) /\ Latest(m) /\ mutation' = mutation
      BY <1>2, <2>4 DEF Settled, Latest, serverVars
    <3>2. version >= mutation[m].effect
      BY <1>1, <3>1, EffectIsPast, Numbers DEF ShowInv, IInv
    <3>3. preempted \/ published.version >= mutation[m].effect \/ Waits
      BY <1>1, <1>2, <2>2, <3>1 DEF ShowInv, ShownInv, OnItsWay
    <3>4. Waits => Waits'
      BY <2>1 DEF Waits
    <3>. QED
      BY <1>4, <2>1, <3>1, <3>2, <3>3, <3>4 DEF OnItsWay, rendererVars
  <2>5. ShownInv'
    BY <2>4 DEF ShownInv
  <2>. QED
    BY <1>6, <2>3, <2>5 DEF ShowInv
<1>. QED
  BY <1>7, <1>8

\* A navigation's tree is as new as its request, and replaces what is pending.
LEMMA PublishNavigationShow == IInv /\ ShowInv /\ PublishNavigation => ShowInv'
<1>1. SUFFICES ASSUME IInv, ShowInv, PublishNavigation PROVE ShowInv'
  OBVIOUS
<1>2. PICK v \in navigation.since..version :
        Schedule(Tree(navigation.target, v, navigation.target))
  BY <1>1 DEF PublishNavigation
<1>3. /\ navigation.phase = "loading"
      /\ navigation' = [navigation EXCEPT !.phase = "published"]
      /\ preempted' = (preempted \/ pending # {})
      /\ UNCHANGED <<serverVars, fiberVars, entry, page, entries, abandoned>>
  BY <1>1 DEF PublishNavigation
<1>4. navigation \in [phase : {"idle", "loading", "published"}, since : Nat, target : 0..MaxEntries]
  BY <1>1 DEF IInv, TypeOK
<1>5. navigation'.phase = "published" /\ navigation'.target = navigation.target
  BY <1>3, <1>4
<1>6. published'.version = v /\ visible' = visible
      /\ pending' = pending \cup {navigation.target}
  BY <1>2, TreeFields DEF Schedule
<1>7. DataInv'
  BY <1>1, <1>3, <1>6, SameCalls DEF ShowInv, serverVars
<1>8. LoadInv'
  BY <1>1, <1>3, SameLoads DEF ShowInv, serverVars, fiberVars
<1>9. ASSUME NEW m \in Mutations, Settled(m)', Latest(m)'
      PROVE  OnItsWay(m)'
  <2>1. Settled(m) /\ Latest(m) /\ mutation' = mutation
    BY <1>3, <1>9 DEF Settled, Latest, serverVars
  <2>2. /\ navigation.since >= mutation[m].effect \/ Waits
        /\ preempted \/ published.version >= mutation[m].effect \/ Waits
    BY <1>1, <1>3, <2>1 DEF ShowInv, ShownInv, OnItsWay
  <2>3. Waits => Waits'
    BY <1>3 DEF Waits, fiberVars
  <2>4. published'.version >= mutation'[m].effect \/ Waits'
    <3>1. v >= navigation.since /\ v \in Nat
      BY <1>1, <1>2, Numbers DEF IInv
    <3>2. navigation.since >= mutation[m].effect => v >= mutation[m].effect
      BY <1>1, <3>1, Numbers DEF IInv
    <3>. QED
      BY <1>6, <2>1, <2>2, <2>3, <3>2
  <2>5. preempted' \/ visible'.version >= mutation'[m].effect \/ Waits'
    <3>1. CASE pending = {}
      <4>1. published = visible
        BY <1>1, <3>1 DEF ShowInv, DataInv
      <4>. QED
        BY <1>3, <1>6, <2>1, <2>2, <2>3, <4>1
    <3>2. CASE pending # {}
      BY <1>3, <3>2
    <3>. QED
      BY <3>1, <3>2
  <2>. QED
    BY <1>5, <2>4, <2>5 DEF OnItsWay
<1>10. ShownInv'
  BY <1>9 DEF ShownInv
<1>. QED
  BY <1>7, <1>8, <1>10 DEF ShowInv

LEMMA CommitNavigationShow == IInv /\ ShowInv /\ CommitNavigation => ShowInv'
<1>1. SUFFICES ASSUME IInv, ShowInv, CommitNavigation PROVE ShowInv'
  OBVIOUS
<1>2. /\ navigation.phase = "published" /\ navigation' = NoNavigation
      /\ UNCHANGED <<serverVars, fiberVars, rendererVars>>
  BY <1>1 DEF CommitNavigation
<1>3. navigation'.phase = "idle"
  BY <1>2, IdleFields
<1>4. DataInv' /\ LoadInv'
  BY <1>1, <1>2, SameCalls, SameLoads DEF ShowInv, DataInv, serverVars, fiberVars, rendererVars
<1>5. ASSUME NEW m \in Mutations, Settled(m)', Latest(m)'
      PROVE  OnItsWay(m)'
  <2>1. Settled(m) /\ Latest(m) /\ mutation' = mutation
    BY <1>2, <1>5 DEF Settled, Latest, serverVars
  <2>2. published.version >= mutation[m].effect \/ Waits
    BY <1>1, <1>2, <2>1 DEF ShowInv, ShownInv, OnItsWay
  <2>3. Waits => Waits'
    BY <1>2 DEF Waits, fiberVars
  <2>. QED
    BY <1>2, <1>3, <2>1, <2>2, <2>3 DEF OnItsWay, rendererVars
<1>6. ShownInv'
  BY <1>5 DEF ShownInv
<1>. QED
  BY <1>4, <1>6 DEF ShowInv

\* The tree that comes back shows what the navigation's tree covered.
LEMMA AbortNavigationShow == IInv /\ ShowInv /\ AbortNavigation => ShowInv'
<1>1. SUFFICES ASSUME IInv, ShowInv, AbortNavigation PROVE ShowInv'
  OBVIOUS
<1>2. /\ Navigating
      /\ navigation' = NoNavigation /\ Discard(navigation.target)
      /\ UNCHANGED <<serverVars, fiberVars, preempted>>
  BY <1>1 DEF AbortNavigation
<1>3. navigation'.phase = "idle"
  BY <1>2, IdleFields
<1>4. /\ visible' = visible /\ pending' = pending \ {navigation.target}
      /\ navigation.target \in pending => published' = visible
      /\ navigation.target \notin pending => published' = published
  BY <1>2 DEF Discard
<1>5. DataInv'
  BY <1>1, <1>2, <1>4, SameCalls DEF ShowInv, DataInv, serverVars
<1>6. LoadInv'
  BY <1>1, <1>2, SameLoads DEF ShowInv, serverVars, fiberVars
<1>7. navigation.phase \in {"loading", "published"}
  BY <1>1, <1>2 DEF IInv, TypeOK, Navigating
<1>8. ASSUME NEW m \in Mutations, Settled(m)', Latest(m)'
      PROVE  OnItsWay(m)'
  <2>1. Settled(m) /\ Latest(m) /\ mutation' = mutation
    BY <1>2, <1>8 DEF Settled, Latest, serverVars
  <2>2. OnItsWay(m)
    BY <1>1, <2>1 DEF ShowInv, ShownInv
  <2>3. Waits => Waits'
    BY <1>2 DEF Waits, fiberVars
  <2>4. preempted' \/ published'.version >= mutation'[m].effect \/ Waits'
    <3>1. CASE navigation.phase = "loading"
      <4>1. published' = published
        BY <1>1, <1>4, <3>1 DEF IInv, EntryInv
      <4>. QED
        BY <1>2, <2>1, <2>2, <2>3, <3>1, <4>1 DEF OnItsWay
    <3>2. CASE navigation.phase = "published" /\ visible.source # navigation.target
      <4>1. published' = visible
        BY <1>1, <1>4, <3>2 DEF IInv, ScreenInv
      <4>. QED
        BY <1>2, <2>1, <2>2, <2>3, <3>2, <4>1 DEF OnItsWay
    <3>3. CASE navigation.phase = "published" /\ visible.source = navigation.target
      <4>1. published' = published
        BY <1>1, <1>4, <3>3 DEF IInv, ScreenInv
      <4>. QED
        BY <1>2, <2>1, <2>2, <2>3, <3>3, <4>1 DEF OnItsWay
    <3>. QED
      BY <1>7, <3>1, <3>2, <3>3
  <2>. QED
    BY <1>3, <2>4 DEF OnItsWay
<1>9. ShownInv'
  BY <1>8 DEF ShownInv
<1>. QED
  BY <1>5, <1>6, <1>9 DEF ShowInv

LEMMA NavigateFragmentShow == ShowInv /\ NavigateFragment => ShowInv'
BY DEF NavigateFragment, historyVars, ShowInv, DataInv, LoadInv, ShownInv, Settled, Latest, OnItsWay,
       Waits, Loads, serverVars, fiberVars, rendererVars

\* The visible tree becomes the newest, and a refresh that waits still does.
LEMMA CommitShow == IInv /\ ShowInv /\ Commit => ShowInv'
<1>1. SUFFICES ASSUME IInv, ShowInv, Commit PROVE ShowInv'
  OBVIOUS
<1>2. /\ visible' = published /\ published' = published
      /\ fiber' = [f \in Fibers |->
                     IF f = published.source /\ fiber[f].phase = "published"
                     THEN [fiber[f] EXCEPT !.phase = "committed"] ELSE fiber[f]]
      /\ UNCHANGED <<serverVars, refreshes, navigationVars, preempted, abandoned>>
  BY <1>1 DEF Commit, historyVars
<1>3. fiber \in [Fibers -> FiberStates]
  BY <1>1 DEF IInv, TypeOK, FiberStates
<1>4. ASSUME NEW f \in Fibers
      PROVE  \/ fiber'[f] = fiber[f]
             \/ fiber[f].phase = "published" /\ fiber'[f].phase = "committed"
  <2>1. CASE f = published.source /\ fiber[f].phase = "published"
    <3>1. fiber'[f] = [fiber[f] EXCEPT !.phase = "committed"] /\ fiber[f] \in FiberStates
      BY <1>2, <1>3, <2>1
    <3>. QED
      BY <2>1, <3>1 DEF FiberStates
  <2>2. CASE ~(f = published.source /\ fiber[f].phase = "published")
    BY <1>2, <2>2
  <2>. QED
    BY <2>1, <2>2
<1>5. DataInv'
  BY <1>1, <1>2, SameCalls DEF ShowInv, serverVars
<1>6. LoadInv'
  BY <1>1, <1>2, <1>4, SameLoads DEF ShowInv, serverVars
<1>7. (Waits => Waits') /\ (Loads => Loads')
  BY <1>4 DEF Waits, Loads
<1>8. ASSUME NEW m \in Mutations, Settled(m)', Latest(m)'
      PROVE  OnItsWay(m)'
  <2>1. Settled(m) /\ Latest(m) /\ mutation' = mutation /\ navigation' = navigation
    BY <1>2, <1>8 DEF Settled, Latest, serverVars, navigationVars
  <2>2. OnItsWay(m)
    BY <1>1, <2>1 DEF ShowInv, ShownInv
  <2>. QED
    BY <1>2, <1>7, <2>1, <2>2 DEF OnItsWay
<1>9. ShownInv'
  BY <1>8 DEF ShownInv
<1>. QED
  BY <1>5, <1>6, <1>9 DEF ShowInv

------------------------------------------------------------------------------
(* The theorems.                                                           *)

LEMMA StutterIInv == IInv /\ UNCHANGED vars => IInv'
BY DEF IInv, TypeOK, RefreshYields, HandleInv, PageInv, EntryInv, ScreenInv, OfCurrentPage, PendingInv,
       Running, Raced, Navigating, vars, historyVars, serverVars, fiberVars, navigationVars, rendererVars

LEMMA StutterShow == ShowInv /\ UNCHANGED vars => ShowInv'
BY DEF ShowInv, DataInv, LoadInv, ShownInv, Settled, Latest, OnItsWay, Waits, Loads,
       vars, historyVars, serverVars, fiberVars, navigationVars, rendererVars

LEMMA NextInv == IInv /\ ShowInv /\ [Next]_vars => IInv' /\ ShowInv'
<1>1. SUFFICES ASSUME IInv, ShowInv, [Next]_vars PROVE IInv' /\ ShowInv'
  OBVIOUS
<1>2. CASE \E m \in Mutations : MutationStep(m)
  <2>1. PICK m \in Mutations : MutationStep(m)
    BY <1>2
  <2>2. CASE Invoke(m) \/ Execute(m) \/ Answer(m) \/ FailMutation(m)
    BY <1>1, <2>2, CalledIInv, CalledShow
  <2>3. CASE SelectSource(m) \/ ApplyResponse(m)
    BY <1>1, <2>3, ResponseIInv, ResponseShow
  <2>. QED
    BY <2>1, <2>2, <2>3 DEF MutationStep
<1>3. CASE \E f \in Fibers : FiberStep(f)
  <2>1. PICK f \in Fibers : FiberStep(f)
    BY <1>3
  <2>2. CASE BecomeIdle(f)
    BY <1>1, <2>2, BecomeIdleIInv, BecomeIdleShow
  <2>3. CASE PublishRefresh(f)
    BY <1>1, <2>3, PublishRefreshIInv, PublishRefreshShow
  <2>4. CASE FailRefresh(f) \/ FinishRefresh(f) \/ CloseRefresh(f)
    <3>1. preempted \in BOOLEAN
      BY <1>1 DEF IInv, TypeOK
    <3>2. /\ Exit(f) /\ fiber[f].phase \in {"loading", "committed", "closing"}
          /\ preempted' \in BOOLEAN
          /\ UNCHANGED <<serverVars, navigationVars, rendererVars, abandoned>>
      BY <2>4, <3>1 DEF FailRefresh, historyVars, FinishRefresh, CloseRefresh
    <3>. QED
      BY <1>1, <2>4, <3>2, ExitIInv, ExitShow
  <2>. QED
    BY <2>1, <2>2, <2>3, <2>4 DEF FiberStep
<1>4. CASE \E u \in Updates : HotUpdate(u)
  BY <1>1, <1>4, HotUpdateIInv, HotUpdateShow
<1>5. CASE Navigate
  BY <1>1, <1>5, NavigateIInv, NavigateShow
<1>6. CASE PublishNavigation
  BY <1>1, <1>6, PublishNavigationIInv, PublishNavigationShow
<1>7. CASE CommitNavigation
  BY <1>1, <1>7, CommitNavigationIInv, CommitNavigationShow
<1>8. CASE AbortNavigation
  BY <1>1, <1>8, AbortNavigationIInv, AbortNavigationShow
<1>9. CASE NavigateFragment
  BY <1>1, <1>9, NavigateFragmentIInv, NavigateFragmentShow
<1>10. CASE Commit
  BY <1>1, <1>10, CommitIInv, CommitShow
<1>11. CASE UNCHANGED vars
  BY <1>1, <1>11, StutterIInv, StutterShow
<1>. QED
  BY <1>1, <1>2, <1>3, <1>4, <1>5, <1>6, <1>7, <1>8, <1>9, <1>10, <1>11 DEF Next

LEMMA Inductive == Spec => [](IInv /\ ShowInv)
<1>1. Init => IInv /\ ShowInv
  BY InitIInv, InitShow
<1>. QED
  BY <1>1, NextInv, PTL DEF Spec

\* The state of every refresh, mutation and navigation has its type.
THEOREM TypeCorrect == Spec => []TypeOK
BY Inductive, PTL DEF IInv

\* Whatever is invoked, updated or clicked, no refresh loads or publishes its
\* tree while a routed navigation is under way (installRouteRefresh of
\* route-refresh.ts).
THEOREM RefreshesYield == Spec => []RefreshYields
BY Inductive, PTL DEF IInv

\* However late a response or a refresh arrives, the newest tree belongs to the
\* page of the current entry between navigations (selectRefreshSource of
\* call-server.ts: an older entry's response never applies), or to a navigation
\* that was given up after React committed it (discard of browser-renderer.ts
\* leaves a committed tree alone).
THEOREM PageMatchesScreen == Spec => []ScreenMatchesPage
<1>1. IInv => ScreenMatchesPage
  BY DEF IInv, ScreenInv, OfCurrentPage, ScreenMatchesPage, Navigating
<1>. QED
  BY <1>1, Inductive, PTL

\* However many mutations, refreshes and navigations overlap, once everything
\* has ended the screen shows the effect of the mutation that was invoked last,
\* unless a navigation that went nowhere took its refresh or loading failed.
THEOREM LatestShown == Spec => []LatestMutationShown
<1>1. IInv /\ ShowInv => LatestMutationShown
  <2>1. SUFFICES ASSUME IInv, ShowInv, Quiet, ~preempted,
                        NEW m \in Mutations, Settled(m), Latest(m)
                 PROVE  published.version >= mutation[m].effect
    BY DEF LatestMutationShown
  <2>2. navigation.phase = "idle" /\ ~Waits /\ ~Loads
    BY <2>1 DEF Quiet, Navigating, Running, Waits, Loads
  <2>3. OnItsWay(m)
    BY <2>1 DEF ShowInv, ShownInv
  <2>. QED
    BY <2>1, <2>2, <2>3 DEF OnItsWay
<1>. QED
  BY <1>1, Inductive, PTL
=============================================================================
