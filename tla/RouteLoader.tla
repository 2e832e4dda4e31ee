----------------------------- MODULE RouteLoader -----------------------------
(***************************************************************************)
(* The browser's cache of complete route trees for Back and Forward.  An   *)
(* invalidation replaces the cache; whoever began under an older one keeps *)
(* a reference to it and must not write into its successor.                *)
(*                                                                         *)
(* A tree is named by the load that produced it, the document's by         *)
(* InitialLoad; a page by the entry that first showed it.                  *)
(***************************************************************************)
EXTENDS Naturals, FiniteSets, Functions

CONSTANTS
  Entries,      (* history entries                                        *)
  FirstEntry,   (* the entry of the hydrated document                     *)
  Loads,        (* navigations and refreshes of one browser session       *)
  InitialLoad,
  MaxCaches     (* bound on the caches that invalidations create          *)

ASSUME LoaderAssumption ==
  /\ FirstEntry \in Entries
  /\ InitialLoad \notin Loads
  /\ MaxCaches \in Nat

VARIABLES
  cacheRef,     (* which cache is current                                 *)
  cached,       (* its Map: the tree of each cached entry                 *)
  listeners,    (* dispose listeners: the entry and the cache they serve  *)
  load,         (* per load, its phase and what its closures captured     *)
  page,         (* the page that an entry shows                           *)
  born,         (* entries that came into being                           *)
  disposed,     (* entries with index -1, whose dispose event has fired   *)
  currentEntry

cacheVars == <<cacheRef, cached, listeners>>
entryVars == <<page, born, disposed, currentEntry>>
vars == <<cacheVars, load, entryVars>>

Caches == 0..MaxCaches
Trees == Loads \cup {InitialLoad}

(* A "waiting" refresh waits for navigation to be idle.  "requested" and   *)
(* "decoded" loads are under way, "streaming" navigations have their entry *)
(* and may still call their cache function; "prepared" refreshes and       *)
(* responses hold the function that prepareRefresh returned.               *)
Load == [phase : {"idle", "waiting", "requested", "decoded", "streaming", "prepared", "done"},
         kind : {"navigation", "refresh", "response"},
         cache : Caches, entry : Entries, page : Entries]

Init ==
  /\ cacheRef = 0
  /\ cached = [e \in {} |-> e]
  /\ listeners = {}
  /\ load = [l \in Trees |->
               [phase |-> IF l = InitialLoad THEN "prepared" ELSE "idle",
                kind |-> "refresh", cache |-> 0,
                entry |-> FirstEntry, page |-> FirstEntry]]
  /\ page = [e \in Entries |-> e]
  /\ born = {FirstEntry}
  /\ disposed = {}
  /\ currentEntry = FirstEntry

-----------------------------------------------------------------------------
(* The cache.                                                              *)

(* store listens for the disposal of an entry the cache did not hold.      *)
Store(entry, tree) ==
  /\ cached' = [e \in DOMAIN cached \cup {entry} |-> IF e = entry THEN tree ELSE cached[e]]
  /\ listeners' = listeners \cup {<<entry, cacheRef>>}
  /\ UNCHANGED cacheRef

(* invalidate takes the listeners of the cache back and replaces it.       *)
Replaced ==
  /\ cacheRef' = cacheRef + 1
  /\ cached' = [e \in {} |-> e]
  /\ listeners' = listeners \ ((DOMAIN cached) \X {cacheRef})

(* The dispose event of an entry calls remove for the cache it listens to. *)
FireDispose(entry) ==
  /\ disposed' = disposed \cup {entry}
  /\ listeners' = listeners \ ({entry} \X Caches)
  /\ cached' = IF <<entry, cacheRef>> \in listeners
               THEN Restrict(cached, DOMAIN cached \ {entry}) ELSE cached
  /\ UNCHANGED cacheRef

-----------------------------------------------------------------------------
(* Navigations.  The router keeps one active navigation and one visible    *)
(* one; a routed navigation interrupts the refresh that is being loaded.   *)

Active(l) == load[l].phase \in {"requested", "decoded"}

NavigationIdle == \A l \in Loads : Active(l) => load[l].kind # "navigation"

Ended(kinds, phases) ==
  [l \in Trees |-> IF load[l].kind \in kinds /\ load[l].phase \in phases
                   THEN [load[l] EXCEPT !.phase = "done"] ELSE load[l]]

(* Traversals within a page are fragment navigations.                      *)
Traversable(entry) == entry \in born \ disposed /\ page[entry] # page[currentEntry]

(* load of a navigation that the cache does not answer: to a new entry, or *)
(* back to one that is not cached.                                         *)
Request(l, entry) ==
  /\ load[l].phase = "idle"
  /\ entry \notin born \/ (Traversable(entry) /\ entry \notin DOMAIN cached)
  /\ load' = [Ended({"navigation", "refresh"}, {"requested", "decoded"}) EXCEPT
                ![l] = [phase |-> "requested", kind |-> "navigation",
                        cache |-> cacheRef, entry |-> entry, page |-> page[entry]]]
  /\ UNCHANGED <<cacheVars, entryVars>>

Decode(l) ==
  /\ load[l].phase = "requested"
  /\ load' = [load EXCEPT ![l].phase = "decoded"]
  /\ UNCHANGED <<cacheVars, entryVars>>

(* The tree is on screen and its history entry committed; the navigation   *)
(* that was visible has retired.                                           *)
Arrive(l) ==
  /\ load[l].phase = "decoded"
  /\ load[l].kind = "navigation"
  /\ load[l].entry \notin disposed
  /\ currentEntry' = load[l].entry
  /\ born' = born \cup {load[l].entry}
  /\ load' = [Ended({"navigation"}, {"streaming"}) EXCEPT ![l].phase = "streaming"]
  /\ UNCHANGED <<cacheVars, page, disposed>>

(* A traversal that the cache answers.                                     *)
TraverseCached(entry) ==
  /\ Traversable(entry)
  /\ entry \in DOMAIN cached
  /\ currentEntry' = entry
  /\ load' = [l \in Trees |->
                IF load[l].phase = "streaming" THEN [load[l] EXCEPT !.phase = "done"]
                ELSE Ended({"navigation", "refresh"}, {"requested", "decoded"})[l]]
  /\ UNCHANGED <<cacheVars, page, born, disposed>>

(* Mutant of CacheRoute: it writes into whatever cache is current.         *)
CacheRouteUnfenced(l) ==
  /\ load[l].phase = "streaming"
  /\ load' = [load EXCEPT ![l].phase = "done"]
  /\ Store(load[l].entry, l)
  /\ UNCHANGED entryVars

(* The response is complete and the router calls the cache function of the *)
(* visible navigation with the entry it committed.                         *)
CacheRoute(l) ==
  /\ load[l].phase = "streaming"
  /\ load' = [load EXCEPT ![l].phase = "done"]
  /\ IF load[l].cache = cacheRef THEN Store(load[l].entry, l) ELSE UNCHANGED cacheVars
  /\ UNCHANGED entryVars

-----------------------------------------------------------------------------
(* Refreshes and the hydrated document.                                    *)

(* A refresh invalidates at once and takes the place of an unpublished one; *)
(* then it waits for navigation to be idle.                                *)
StartRefresh(l) ==
  /\ load[l].phase = "idle"
  /\ cacheRef < MaxCaches
  /\ Replaced
  /\ load' = [Ended({"refresh"}, {"waiting", "requested", "decoded"}) EXCEPT
                ![l].phase = "waiting", ![l].kind = "refresh"]
  /\ UNCHANGED entryVars

RequestRefresh(l) ==
  /\ load[l].phase = "waiting"
  /\ NavigationIdle
  /\ load' = [load EXCEPT ![l] = [phase |-> "requested", kind |-> "refresh", cache |-> cacheRef,
                                  entry |-> currentEntry, page |-> page[currentEntry]]]
  /\ UNCHANGED <<cacheVars, entryVars>>

(* A mutation is invoked; its response renders the page it was invoked on. *)
Invoke(l) ==
  /\ load[l].phase = "idle"
  /\ load' = [load EXCEPT ![l] = [phase |-> "requested", kind |-> "response", cache |-> cacheRef,
                                  entry |-> currentEntry, page |-> page[currentEntry]]]
  /\ UNCHANGED <<cacheVars, entryVars>>

(* The response renders only where it was invoked, while no navigation is  *)
(* under way, and interrupts the refresh it replaces.                      *)
Current(l) == load[l].kind = "response" => NavigationIdle /\ load[l].entry = currentEntry

PrepareRefresh(l) ==
  /\ load[l].phase = "decoded"
  /\ load[l].kind \in {"refresh", "response"}
  /\ Current(l)
  /\ cacheRef < MaxCaches
  /\ Replaced
  /\ load' = [Ended({"refresh"}, {"waiting", "requested", "decoded"}) EXCEPT
                ![l] = [load[l] EXCEPT !.phase = "prepared", !.cache = cacheRef + 1,
                                       !.entry = currentEntry]]
  /\ UNCHANGED entryVars

(* Mutant of CommitRefresh: the refresh belongs to the entry it ends at.   *)
CommitRefreshHere(l) ==
  /\ load[l].phase = "prepared"
  /\ load' = [load EXCEPT ![l].phase = "done"]
  /\ IF load[l].cache = cacheRef THEN Store(currentEntry, l) ELSE UNCHANGED cacheVars
  /\ UNCHANGED entryVars

(* The tree is on screen and complete.  So does loadInitial end.  A refresh *)
(* whose tree retires first just never takes this step.                    *)
CommitRefresh(l) ==
  /\ load[l].phase = "prepared"
  /\ load' = [load EXCEPT ![l].phase = "done"]
  /\ IF load[l].cache = cacheRef /\ load[l].entry \notin disposed
     THEN Store(load[l].entry, l) ELSE UNCHANGED cacheVars
  /\ UNCHANGED entryVars

-----------------------------------------------------------------------------
(* The browser.                                                            *)

(* A native navigation of any kind aborts the one under way.               *)
NavigationsAborted ==
  load' = Ended({"navigation"}, {"requested", "decoded"})

(* Fragment navigations are not routed.  They move between the entries of  *)
(* one page, or add one behind the current entry or in its place.          *)
TraverseFragment(entry) ==
  /\ entry \in born \ (disposed \cup {currentEntry})
  /\ page[entry] = page[currentEntry]
  /\ currentEntry' = entry
  /\ NavigationsAborted
  /\ UNCHANGED <<cacheVars, page, born, disposed>>

PushFragment(entry) ==
  /\ entry \notin born
  /\ born' = born \cup {entry}
  /\ page' = [page EXCEPT ![entry] = page[currentEntry]]
  /\ currentEntry' = entry
  /\ NavigationsAborted
  /\ UNCHANGED <<cacheVars, disposed>>

ReplaceFragment(entry) ==
  /\ entry \notin born
  /\ born' = born \cup {entry}
  /\ page' = [page EXCEPT ![entry] = page[currentEntry]]
  /\ currentEntry' = entry
  /\ FireDispose(currentEntry)
  /\ NavigationsAborted

(* Entries leave the history when a navigation replaces them, when they    *)
(* are ahead of a new one, or when they are the oldest of too many.        *)
DropEntry(entry) ==
  /\ entry \in born \ (disposed \cup {currentEntry})
  /\ FireDispose(entry)
  /\ UNCHANGED <<load, page, born, currentEntry>>

Next ==
  \/ \E l \in Loads, e \in Entries : Request(l, e)
  \/ \E l \in Loads :
       \/ Decode(l) \/ Arrive(l) \/ CacheRoute(l)
       \/ StartRefresh(l) \/ RequestRefresh(l) \/ Invoke(l) \/ PrepareRefresh(l)
  \/ \E l \in Trees : CommitRefresh(l)
  \/ \E e \in Entries :
       TraverseCached(e) \/ TraverseFragment(e) \/ PushFragment(e)
         \/ ReplaceFragment(e) \/ DropEntry(e)

Spec == Init /\ [][Next]_vars

-----------------------------------------------------------------------------
(* Types of the state.                                                     *)
TypeOK ==
  /\ cacheRef \in Caches
  /\ DOMAIN cached \subseteq Entries
  /\ \A e \in DOMAIN cached : cached[e] \in Trees
  /\ listeners \subseteq Entries \X Caches
  /\ load \in [Trees -> Load]
  /\ page \in [Entries -> Entries]
  /\ born \subseteq Entries
  /\ disposed \subseteq born
  /\ currentEntry \in born \ disposed

(* A traversal is answered with the page of its entry, although fragment   *)
(* navigations move the current entry while responses are under way.       *)
ServesOwnPage == \A e \in DOMAIN cached : load[cached[e]].page = page[e]

(* No tree that was requested under an older cache enters the current one, *)
(* unless it is the refresh that replaced the older cache.                 *)
NoStaleRoute == \A e \in DOMAIN cached : load[cached[e]].cache = cacheRef

(* The cache listens to exactly the entries it holds: every eviction finds *)
(* its entry and no listener outlives its cache.                           *)
ListenersMatchCache == listeners = (DOMAIN cached) \X {cacheRef}
=============================================================================
