------------------------- MODULE RouteLoaderProofs --------------------------
(***************************************************************************)
(* Proofs about RouteLoader, for every set of entries and loads and every  *)
(* bound on invalidations.                                                 *)
(*                                                                         *)
(* What the cache holds is right because of what the loads still under way *)
(* hold: each remembers the page of an entry that cannot change its page   *)
(* any more, or is ended by whatever would make it wrong.                  *)
(***************************************************************************)
EXTENDS RouteLoader, TLAPS

UnderWay(l, kind) == Active(l) /\ load[l].kind = kind

(* Loads in the cache are over: none of them is used again for another.    *)
CachedDone == \A e \in DOMAIN cached : e \in born /\ load[cached[e]].phase = "done"

DocumentInv == load[InitialLoad].phase \in {"prepared", "done"}

(* A refresh is only loaded while no navigation is.                        *)
OneActivity ==
  \A l, k \in Trees : ~(UnderWay(l, "navigation") /\ UnderWay(k, "refresh"))

OwnPage(l) == load[l].page = page[load[l].entry]

(* The page each load will be cached for.  A refresh has no entry yet.     *)
PageInv ==
  \A l \in Trees :
    /\ UnderWay(l, "navigation") => OwnPage(l)
    /\ UnderWay(l, "refresh") => load[l].page = page[currentEntry]
    /\ UnderWay(l, "response") => load[l].entry \in born /\ OwnPage(l)
    /\ load[l].phase \in {"streaming", "prepared"} => load[l].entry \in born /\ OwnPage(l)

IInv ==
  /\ TypeOK /\ CachedDone /\ DocumentInv /\ OneActivity /\ PageInv
  /\ ServesOwnPage /\ NoStaleRoute /\ ListenersMatchCache

-----------------------------------------------------------------------------

LEMMA InitIInv == Init => IInv
  BY LoaderAssumption
  DEF Init, IInv, TypeOK, CachedDone, DocumentInv, OneActivity, PageInv, UnderWay, Active, OwnPage,
      ServesOwnPage, NoStaleRoute, ListenersMatchCache, Caches, Trees, Load

(* Loads that are ended keep everything but their phase.                   *)
LEMMA EndedLoads ==
  ASSUME TypeOK, NEW kinds, NEW phases
  PROVE  /\ Ended(kinds, phases) \in [Trees -> Load]
         /\ \A l \in Trees :
              /\ Ended(kinds, phases)[l].kind = load[l].kind
              /\ Ended(kinds, phases)[l].cache = load[l].cache
              /\ Ended(kinds, phases)[l].entry = load[l].entry
              /\ Ended(kinds, phases)[l].page = load[l].page
              /\ Ended(kinds, phases)[l].phase =
                   IF load[l].kind \in kinds /\ load[l].phase \in phases THEN "done"
                   ELSE load[l].phase
  BY DEF Ended, TypeOK, Load

(* A cached tree stays what it is as long as its load does.                *)
LEMMA CacheKept ==
  ASSUME IInv, UNCHANGED <<cached, cacheRef, listeners, page>>, born \subseteq born',
         load' \in [Trees -> Load],
         \A l \in Trees : load[l].phase = "done" => load'[l] = load[l]
  PROVE  CachedDone' /\ ServesOwnPage' /\ NoStaleRoute' /\ ListenersMatchCache'
  BY DEF IInv, TypeOK, CachedDone, ServesOwnPage, NoStaleRoute, ListenersMatchCache

LEMMA DecodeIInv == ASSUME IInv, NEW l \in Loads, Decode(l) PROVE IInv'
  <1>1. TypeOK'
    BY DEF Decode, IInv, TypeOK, Load, Trees, cacheVars, entryVars
  <1>2. CachedDone' /\ ServesOwnPage' /\ NoStaleRoute' /\ ListenersMatchCache'
    BY CacheKept, <1>1 DEF Decode, IInv, TypeOK, Trees, cacheVars, entryVars
  <1>3. DocumentInv'
    BY LoaderAssumption DEF Decode, IInv, TypeOK, DocumentInv, Trees
  <1>4. OneActivity' /\ PageInv'
    BY DEF Decode, IInv, TypeOK, Load, Trees, OneActivity, PageInv, UnderWay, Active, OwnPage, entryVars
  <1>5. QED
    BY <1>1, <1>2, <1>3, <1>4 DEF IInv

LEMMA RequestIInv ==
  ASSUME IInv, NEW l \in Loads, NEW entry \in Entries, Request(l, entry) PROVE IInv'
  <1> DEFINE rest == Ended({"navigation", "refresh"}, {"requested", "decoded"})
             new == [phase |-> "requested", kind |-> "navigation",
                     cache |-> cacheRef, entry |-> entry, page |-> page[entry]]
  <1>0. /\ load' = [rest EXCEPT ![l] = new]
        /\ l \in Trees /\ load[l].phase = "idle" /\ new \in Load
        /\ UNCHANGED <<cacheRef, cached, listeners, page, born, disposed, currentEntry>>
    BY DEF Request, IInv, TypeOK, Trees, Load, cacheVars, entryVars
  <1> HIDE DEF rest, new
  <1>1. TypeOK'
    BY <1>0, EndedLoads DEF IInv, TypeOK, rest
  <1>2. CachedDone' /\ ServesOwnPage' /\ NoStaleRoute' /\ ListenersMatchCache'
    <2>1. \A k \in Trees : load[k].phase = "done" => rest[k] = load[k]
      BY DEF rest, Ended
    <2>2. QED
      BY CacheKept, <1>0, <1>1, <2>1, EndedLoads DEF TypeOK, IInv, rest
  <1>3. DocumentInv'
    BY <1>0, EndedLoads, LoaderAssumption DEF IInv, DocumentInv, Trees, rest
  <1>4. OneActivity' /\ PageInv'
    <2>1. \A k \in Trees \ {l} : load'[k] = rest[k]
      BY <1>0, EndedLoads DEF IInv, rest
    <2>2. load'[l] = new
      BY <1>0, EndedLoads DEF IInv, rest
    <2>3. \A k \in Trees \ {l} : ~UnderWay(k, "refresh")' /\ ~UnderWay(k, "navigation")'
      BY <2>1, EndedLoads DEF IInv, rest, UnderWay, Active
    <2>4. QED
      BY <1>0, <2>1, <2>2, <2>3, EndedLoads
      DEF IInv, TypeOK, Load, OneActivity, PageInv, UnderWay, Active, OwnPage, rest, new
  <1>5. QED
    BY <1>1, <1>2, <1>3, <1>4 DEF IInv

LEMMA ArriveIInv == ASSUME IInv, NEW l \in Loads, Arrive(l) PROVE IInv'
  <1> DEFINE rest == Ended({"navigation"}, {"streaming"})
  <1>0. /\ load' = [rest EXCEPT ![l].phase = "streaming"]
        /\ currentEntry' = load[l].entry
        /\ born' = born \cup {load[l].entry}
        /\ UnderWay(l, "navigation") /\ load[l].phase = "decoded"
        /\ load[l].entry \notin disposed
        /\ UNCHANGED <<cacheRef, cached, listeners, page, disposed>>
        /\ l \in Trees
    BY DEF Arrive, UnderWay, Active, Trees, cacheVars
  <1>1. TypeOK'
    BY <1>0, EndedLoads DEF IInv, TypeOK, Load
  <1>2. CachedDone' /\ ServesOwnPage' /\ NoStaleRoute' /\ ListenersMatchCache'
    <2>1. \A k \in Trees : load[k].phase = "done" => rest[k] = load[k]
      BY DEF Ended
    <2>2. \A k \in Trees : load[k].phase = "done" => load'[k] = load[k]
      BY <1>0, <2>1, EndedLoads DEF IInv
    <2>3. QED
      BY CacheKept, <1>0, <1>1, <2>2 DEF TypeOK
  <1>3. DocumentInv'
    BY <1>0, EndedLoads, LoaderAssumption DEF IInv, DocumentInv, Trees
  <1>4. OneActivity' /\ PageInv'
    <2>1. \A k \in Trees \ {l} : load'[k] = rest[k]
      BY <1>0, EndedLoads DEF IInv
    <2>2. load'[l] = [load[l] EXCEPT !.phase = "streaming"]
      <3>1. rest[l] = load[l]
        BY <1>0 DEF Ended
      <3>2. QED
        BY <1>0, <3>1, EndedLoads DEF IInv
    <2>3. \A k \in Trees : ~UnderWay(k, "refresh")
      BY <1>0 DEF IInv, OneActivity
    <2> HIDE DEF rest
    <2>4. load[l] \in Load
      BY <1>0 DEF IInv, TypeOK
    <2>5. QED
      BY <1>0, <2>1, <2>2, <2>3, <2>4, EndedLoads
      DEF IInv, TypeOK, Load, OneActivity, PageInv, UnderWay, Active, OwnPage, rest
  <1>5. QED
    BY <1>1, <1>2, <1>3, <1>4 DEF IInv

LEMMA TraverseCachedIInv ==
  ASSUME IInv, NEW entry \in Entries, TraverseCached(entry) PROVE IInv'
  <1> DEFINE rest == Ended({"navigation", "refresh"}, {"requested", "decoded"})
  <1>0. /\ load' = [l \in Trees |-> IF load[l].phase = "streaming"
                                    THEN [load[l] EXCEPT !.phase = "done"] ELSE rest[l]]
        /\ entry \in born \ disposed /\ currentEntry' = entry
        /\ UNCHANGED <<cacheRef, cached, listeners, page, born, disposed>>
    BY DEF TraverseCached, Traversable, cacheVars
  <1>1. \A l \in Trees :
          /\ load'[l] \in Load
          /\ load'[l].kind = load[l].kind /\ load'[l].cache = load[l].cache
          /\ load'[l].entry = load[l].entry /\ load'[l].page = load[l].page
          /\ load'[l].phase \in {load[l].phase, "done"}
          /\ ~UnderWay(l, "refresh")' /\ ~UnderWay(l, "navigation")'
    <2> HIDE DEF rest
    <2>1. \A l \in Trees : load[l] \in Load
      BY DEF IInv, TypeOK
    <2>2. QED
      BY <1>0, <2>1, EndedLoads DEF IInv, Load, UnderWay, Active, rest
  <1>2. TypeOK'
    <2>1. load' \in [Trees -> Load]
      BY <1>0, <1>1
    <2>2. QED
      BY <1>0, <2>1 DEF IInv, TypeOK
  <1>3. CachedDone' /\ ServesOwnPage' /\ NoStaleRoute' /\ ListenersMatchCache'
    <2>1. \A k \in Trees : load[k].phase = "done" => rest[k] = load[k]
      BY DEF Ended
    <2>2. \A k \in Trees : load[k].phase = "done" => load'[k] = load[k]
      BY <1>0, <2>1
    <2>3. QED
      BY CacheKept, <1>0, <1>2, <2>2 DEF TypeOK
  <1>4. DocumentInv'
    BY <1>1, LoaderAssumption DEF IInv, DocumentInv, Trees
  <1>5. OneActivity'
    BY <1>1 DEF OneActivity
  <1>6. PageInv'
    <2> SUFFICES ASSUME NEW l \in Trees
                 PROVE  /\ UnderWay(l, "response")' => load'[l].entry \in born' /\ OwnPage(l)'
                        /\ load'[l].phase \in {"streaming", "prepared"} =>
                             load'[l].entry \in born' /\ OwnPage(l)'
      BY <1>1 DEF PageInv
    <2> HIDE DEF rest
    <2>1. OwnPage(l)' = OwnPage(l) /\ load'[l].entry = load[l].entry /\ born' = born
      BY <1>0, <1>1 DEF OwnPage
    <2>2. /\ load'[l].phase \in {"streaming", "prepared"} => load'[l].phase = load[l].phase
          /\ UnderWay(l, "response")' => UnderWay(l, "response")
      BY <1>1 DEF UnderWay, Active
    <2>3. QED
      BY <2>1, <2>2 DEF IInv, PageInv
  <1>7. QED
    BY <1>2, <1>3, <1>4, <1>5, <1>6 DEF IInv

LEMMA RequestRefreshIInv == ASSUME IInv, NEW l \in Loads, RequestRefresh(l) PROVE IInv'
  <1> DEFINE new == [phase |-> "requested", kind |-> "refresh", cache |-> cacheRef,
                     entry |-> currentEntry, page |-> page[currentEntry]]
  <1>0. /\ load' = [load EXCEPT ![l] = new]
        /\ l \in Trees /\ load[l].phase = "waiting" /\ new \in Load
        /\ UNCHANGED <<cacheRef, cached, listeners, page, born, disposed, currentEntry>>
    BY DEF RequestRefresh, IInv, TypeOK, Load, Trees, cacheVars, entryVars
  <1>1. TypeOK'
    BY <1>0 DEF IInv, TypeOK
  <1>2. CachedDone' /\ ServesOwnPage' /\ NoStaleRoute' /\ ListenersMatchCache'
    BY CacheKept, <1>0, <1>1 DEF IInv, TypeOK
  <1>3. DocumentInv'
    BY <1>0, LoaderAssumption DEF IInv, TypeOK, DocumentInv, Trees
  <1>4. \A k \in Trees : ~UnderWay(k, "navigation")
    BY DEF RequestRefresh, NavigationIdle, IInv, DocumentInv, UnderWay, Active, Trees
  <1>5. OneActivity' /\ PageInv'
    BY <1>0, <1>4 DEF IInv, TypeOK, Load, OneActivity, PageInv, UnderWay, Active, OwnPage
  <1>6. QED
    BY <1>1, <1>2, <1>3, <1>5 DEF IInv

LEMMA InvokeIInv == ASSUME IInv, NEW l \in Loads, Invoke(l) PROVE IInv'
  <1> DEFINE new == [phase |-> "requested", kind |-> "response", cache |-> cacheRef,
                     entry |-> currentEntry, page |-> page[currentEntry]]
  <1>0. /\ load' = [load EXCEPT ![l] = new]
        /\ l \in Trees /\ load[l].phase = "idle" /\ new \in Load
        /\ UNCHANGED <<cacheRef, cached, listeners, page, born, disposed, currentEntry>>
    BY DEF Invoke, IInv, TypeOK, Load, Trees, cacheVars, entryVars
  <1>1. TypeOK'
    BY <1>0 DEF IInv, TypeOK
  <1>2. CachedDone' /\ ServesOwnPage' /\ NoStaleRoute' /\ ListenersMatchCache'
    BY CacheKept, <1>0, <1>1 DEF IInv, TypeOK
  <1>3. DocumentInv'
    BY <1>0, LoaderAssumption DEF IInv, TypeOK, DocumentInv, Trees
  <1>4. OneActivity' /\ PageInv'
    BY <1>0 DEF IInv, TypeOK, Load, OneActivity, PageInv, UnderWay, Active, OwnPage
  <1>5. QED
    BY <1>1, <1>2, <1>3, <1>4 DEF IInv

-----------------------------------------------------------------------------
(* The actions that write into the cache or replace it.                    *)

LEMMA StoreKeeps ==
  ASSUME IInv, NEW l \in Trees, load[l].phase \in {"streaming", "prepared"},
         load[l].cache = cacheRef, load' = [load EXCEPT ![l].phase = "done"],
         Store(load[l].entry, l), UNCHANGED <<page, born, disposed, currentEntry>>
  PROVE  TypeOK' /\ CachedDone' /\ ServesOwnPage' /\ NoStaleRoute' /\ ListenersMatchCache'
  <1> DEFINE e0 == load[l].entry
  <1>0. /\ e0 \in born /\ OwnPage(l) /\ e0 \in Entries /\ load[l] \in Load
        /\ load'[l] = [load[l] EXCEPT !.phase = "done"]
        /\ \A k \in Trees \ {l} : load'[k] = load[k]
        /\ load' \in [Trees -> Load]
    BY DEF IInv, TypeOK, PageInv, Load
  <1>1. /\ DOMAIN cached' = DOMAIN cached \cup {e0}
        /\ cached'[e0] = l
        /\ \A e \in DOMAIN cached \ {e0} : cached'[e] = cached[e]
        /\ listeners' = listeners \cup {<<e0, cacheRef>>}
        /\ cacheRef' = cacheRef
    BY DEF Store
  <1>2. \A e \in DOMAIN cached : cached[e] \in Trees /\ cached[e] # l
    BY DEF IInv, TypeOK, CachedDone
  <1> HIDE DEF e0
  <1>3. TypeOK'
    BY <1>0, <1>1, <1>2 DEF IInv, TypeOK
  <1>4. CachedDone'
    BY <1>0, <1>1, <1>2 DEF IInv, CachedDone, Load
  <1>5. ServesOwnPage'
    BY <1>0, <1>1, <1>2 DEF IInv, ServesOwnPage, OwnPage, Load, e0
  <1>6. NoStaleRoute'
    BY <1>0, <1>1, <1>2 DEF IInv, NoStaleRoute, Load
  <1>7. ListenersMatchCache'
    BY <1>1 DEF IInv, ListenersMatchCache
  <1>8. QED
    BY <1>3, <1>4, <1>5, <1>6, <1>7

(* A load that is over keeps nothing of PageInv.                           *)
LEMMA DoneIInv ==
  ASSUME IInv, NEW l \in Trees, load' = [load EXCEPT ![l].phase = "done"],
         UNCHANGED <<page, born, disposed, currentEntry>>
  PROVE  DocumentInv' /\ OneActivity' /\ PageInv'
  BY DEF IInv, TypeOK, Load, DocumentInv, OneActivity, PageInv, UnderWay, Active, OwnPage

LEMMA DropIInv ==
  ASSUME IInv, NEW l \in Trees, load' = [load EXCEPT ![l].phase = "done"],
         load[l].phase \in {"streaming", "prepared"},
         UNCHANGED <<cacheVars, entryVars>>
  PROVE  IInv'
  <1>1. TypeOK'
    BY DEF IInv, TypeOK, Load, cacheVars, entryVars
  <1>2. CachedDone' /\ ServesOwnPage' /\ NoStaleRoute' /\ ListenersMatchCache'
    BY CacheKept, <1>1 DEF IInv, TypeOK, cacheVars, entryVars
  <1>3. QED
    BY <1>1, <1>2, DoneIInv DEF IInv, entryVars

LEMMA CacheRouteIInv == ASSUME IInv, NEW l \in Loads, CacheRoute(l) PROVE IInv'
  <1>1. l \in Trees
    BY DEF Trees
  <1>2. CASE load[l].cache = cacheRef
    BY <1>1, <1>2, StoreKeeps, DoneIInv DEF CacheRoute, IInv, entryVars
  <1>3. CASE load[l].cache # cacheRef
    BY <1>1, <1>3, DropIInv DEF CacheRoute
  <1>4. QED
    BY <1>2, <1>3

LEMMA CommitRefreshIInv == ASSUME IInv, NEW l \in Trees, CommitRefresh(l) PROVE IInv'
  <1>1. CASE load[l].cache = cacheRef /\ load[l].entry \notin disposed
    BY <1>1, StoreKeeps, DoneIInv DEF CommitRefresh, IInv, entryVars
  <1>2. CASE ~(load[l].cache = cacheRef /\ load[l].entry \notin disposed)
    BY <1>2, DropIInv DEF CommitRefresh
  <1>3. QED
    BY <1>1, <1>2

(* A new cache is empty, and its listeners are.                            *)
LEMMA ReplacedKeeps ==
  ASSUME IInv, Replaced
  PROVE  /\ DOMAIN cached' = {} /\ listeners' = {} /\ cacheRef' = cacheRef + 1
         /\ CachedDone' /\ ServesOwnPage' /\ NoStaleRoute' /\ ListenersMatchCache'
  BY DEF Replaced, IInv, ListenersMatchCache, CachedDone, ServesOwnPage, NoStaleRoute

LEMMA StartRefreshIInv == ASSUME IInv, NEW l \in Loads, StartRefresh(l) PROVE IInv'
  <1> DEFINE rest == Ended({"refresh"}, {"waiting", "requested", "decoded"})
  <1>0. /\ load' = [rest EXCEPT ![l].phase = "waiting", ![l].kind = "refresh"]
        /\ l \in Trees /\ load[l].phase = "idle" /\ l # InitialLoad
        /\ cacheRef < MaxCaches /\ Replaced
        /\ UNCHANGED <<page, born, disposed, currentEntry>>
    BY LoaderAssumption DEF StartRefresh, Trees, entryVars
  <1>1. /\ rest \in [Trees -> Load]
        /\ \A k \in Trees \ {l} : load'[k] = rest[k]
        /\ load'[l].phase = "waiting" /\ load'[l] \in Load
        /\ load' \in [Trees -> Load]
    <2> HIDE DEF rest
    <2>1. rest \in [Trees -> Load]
      BY EndedLoads DEF IInv, rest
    <2>2. QED
      BY <1>0, <2>1 DEF Load
  <1>2. TypeOK'
    BY <1>0, <1>1, ReplacedKeeps, LoaderAssumption DEF IInv, TypeOK, Caches
  <1>3. DocumentInv'
    BY <1>0, <1>1, EndedLoads DEF IInv, DocumentInv, Trees
  <1>4. OneActivity' /\ PageInv'
    BY <1>0, <1>1, EndedLoads DEF IInv, OneActivity, PageInv, UnderWay, Active, OwnPage
  <1>5. QED
    BY <1>0, <1>2, <1>3, <1>4, ReplacedKeeps DEF IInv

LEMMA PrepareRefreshIInv == ASSUME IInv, NEW l \in Loads, PrepareRefresh(l) PROVE IInv'
  <1> DEFINE rest == Ended({"refresh"}, {"waiting", "requested", "decoded"})
             new == [load[l] EXCEPT !.phase = "prepared", !.cache = cacheRef + 1,
                                    !.entry = currentEntry]
  <1>0. /\ load' = [rest EXCEPT ![l] = new]
        /\ l \in Trees /\ load[l].phase = "decoded" /\ l # InitialLoad
        /\ load[l].kind \in {"refresh", "response"} /\ Current(l)
        /\ cacheRef < MaxCaches /\ Replaced
        /\ UNCHANGED <<page, born, disposed, currentEntry>>
    BY LoaderAssumption DEF PrepareRefresh, Trees, entryVars
  <1>1. /\ new \in Load /\ new.phase = "prepared"
        /\ new.entry = currentEntry /\ new.page = load[l].page
    <2>1. load[l] \in Load /\ cacheRef + 1 \in Caches /\ currentEntry \in Entries
      BY <1>0, LoaderAssumption DEF IInv, TypeOK, Caches
    <2>2. QED
      BY <2>1 DEF Load
  <1>2. /\ rest \in [Trees -> Load]
        /\ \A k \in Trees \ {l} : load'[k] = rest[k]
        /\ load'[l] = new
        /\ load' \in [Trees -> Load]
    <2> HIDE DEF rest, new
    <2>1. rest \in [Trees -> Load]
      BY EndedLoads DEF IInv, rest
    <2>2. QED
      BY <1>0, <1>1, <2>1
  <1>3. TypeOK'
    BY <1>0, <1>2, ReplacedKeeps, LoaderAssumption DEF IInv, TypeOK, Caches
  <1>4. DocumentInv'
    BY <1>0, <1>2, EndedLoads DEF IInv, DocumentInv, Trees
  <1>5. currentEntry \in born /\ load[l].page = page[currentEntry]
    BY <1>0 DEF IInv, TypeOK, PageInv, UnderWay, Active, OwnPage, Current
  <1>6. OneActivity' /\ PageInv'
    BY <1>0, <1>1, <1>2, <1>5, EndedLoads
    DEF IInv, OneActivity, PageInv, UnderWay, Active, OwnPage
  <1>7. QED
    BY <1>0, <1>3, <1>4, <1>6, ReplacedKeeps DEF IInv

-----------------------------------------------------------------------------
(* The browser.                                                            *)

(* An aborted navigation leaves the other loads as they are.               *)
LEMMA AbortedLoads ==
  ASSUME IInv, NavigationsAborted
  PROVE  /\ load' \in [Trees -> Load]
         /\ \A l \in Trees :
              /\ load'[l].kind = load[l].kind /\ load'[l].cache = load[l].cache
              /\ load'[l].entry = load[l].entry /\ load'[l].page = load[l].page
              /\ load[l].phase = "done" => load'[l] = load[l]
              /\ load'[l].phase \in {load[l].phase, "done"}
              /\ ~UnderWay(l, "navigation")'
  <1>1. \A l \in Trees : load[l].phase = "done" => load'[l] = load[l]
    BY DEF NavigationsAborted, Ended
  <1>2. QED
    BY <1>1, EndedLoads DEF NavigationsAborted, IInv, UnderWay, Active

(* A page moves within itself: no page of an entry that exists changes.    *)
LEMMA FragmentKeeps ==
  ASSUME IInv, NavigationsAborted, born \subseteq born',
         \A e \in born : page'[e] = page[e],
         page'[currentEntry'] = page[currentEntry]
  PROVE  DocumentInv' /\ OneActivity' /\ PageInv'
  <1>1. DocumentInv'
    BY AbortedLoads, LoaderAssumption DEF IInv, DocumentInv, Trees
  <1>2. OneActivity'
    BY AbortedLoads DEF OneActivity
  <1>3. PageInv'
    <2> SUFFICES ASSUME NEW l \in Trees
                 PROVE  /\ UnderWay(l, "refresh")' => load'[l].page = page'[currentEntry']
                        /\ UnderWay(l, "response")' => load'[l].entry \in born' /\ OwnPage(l)'
                        /\ load'[l].phase \in {"streaming", "prepared"} =>
                             load'[l].entry \in born' /\ OwnPage(l)'
      BY AbortedLoads DEF PageInv
    <2>1. /\ load'[l].phase \in {"streaming", "prepared"} => load'[l].phase = load[l].phase
          /\ UnderWay(l, "refresh")' => UnderWay(l, "refresh")
          /\ UnderWay(l, "response")' => UnderWay(l, "response")
      BY AbortedLoads DEF UnderWay, Active
    <2>2. /\ load'[l].entry = load[l].entry /\ load'[l].page = load[l].page
          /\ load[l].entry \in born /\ OwnPage(l) => OwnPage(l)'
      BY AbortedLoads DEF OwnPage
    <2>3. QED
      BY <2>1, <2>2 DEF IInv, PageInv
  <1>4. QED
    BY <1>1, <1>2, <1>3

LEMMA TraverseFragmentIInv ==
  ASSUME IInv, NEW entry \in Entries, TraverseFragment(entry) PROVE IInv'
  <1>1. TypeOK'
    BY AbortedLoads DEF TraverseFragment, IInv, TypeOK, cacheVars
  <1>2. CachedDone' /\ ServesOwnPage' /\ NoStaleRoute' /\ ListenersMatchCache'
    BY CacheKept, AbortedLoads DEF TraverseFragment, cacheVars
  <1>3. DocumentInv' /\ OneActivity' /\ PageInv'
    BY FragmentKeeps DEF TraverseFragment
  <1>4. QED
    BY <1>1, <1>2, <1>3 DEF IInv

(* Entries that come into being are not cached yet.                        *)
LEMMA NewEntryKeeps ==
  ASSUME IInv, NEW entry \in Entries \ born, NavigationsAborted,
         born' = born \cup {entry},
         page' = [page EXCEPT ![entry] = page[currentEntry]], currentEntry' = entry
  PROVE  /\ page' \in [Entries -> Entries] /\ page'[entry] = page[currentEntry]
         /\ \A e \in born : page'[e] = page[e]
         /\ DocumentInv' /\ OneActivity' /\ PageInv'
  <1>1. /\ page' \in [Entries -> Entries] /\ page'[entry] = page[currentEntry]
        /\ \A e \in born : page'[e] = page[e]
    BY DEF IInv, TypeOK
  <1>2. QED
    BY <1>1, FragmentKeeps

LEMMA PushFragmentIInv ==
  ASSUME IInv, NEW entry \in Entries, PushFragment(entry) PROVE IInv'
  <1>0. /\ entry \notin born /\ NavigationsAborted /\ born' = born \cup {entry}
        /\ page' = [page EXCEPT ![entry] = page[currentEntry]] /\ currentEntry' = entry
        /\ UNCHANGED <<cacheRef, cached, listeners, disposed>>
    BY DEF PushFragment, cacheVars
  <1>1. TypeOK'
    BY <1>0, AbortedLoads, NewEntryKeeps DEF IInv, TypeOK
  <1>2. CachedDone' /\ NoStaleRoute' /\ ListenersMatchCache'
    BY <1>0, AbortedLoads DEF IInv, TypeOK, CachedDone, NoStaleRoute, ListenersMatchCache
  <1>3. ServesOwnPage'
    BY <1>0, AbortedLoads, NewEntryKeeps DEF IInv, TypeOK, CachedDone, ServesOwnPage
  <1>4. QED
    BY <1>0, <1>1, <1>2, <1>3, NewEntryKeeps DEF IInv

(* The listener that a disposed entry has removes exactly that entry.      *)
LEMMA DisposedCache ==
  ASSUME IInv, NEW entry \in Entries, FireDispose(entry)
  PROVE  /\ DOMAIN cached' = DOMAIN cached \ {entry}
         /\ \A e \in DOMAIN cached' : cached'[e] = cached[e]
         /\ listeners' = (DOMAIN cached') \X {cacheRef}
         /\ cacheRef' = cacheRef /\ disposed' = disposed \cup {entry}
  <1>1. CASE entry \in DOMAIN cached
    BY <1>1 DEF FireDispose, IInv, TypeOK, ListenersMatchCache, Restrict
  <1>2. CASE entry \notin DOMAIN cached
    BY <1>2 DEF FireDispose, IInv, TypeOK, ListenersMatchCache, Restrict
  <1>3. QED
    BY <1>1, <1>2

LEMMA DisposedTypes ==
  ASSUME IInv, NEW entry \in Entries, FireDispose(entry)
  PROVE  /\ cacheRef' \in Caches /\ DOMAIN cached' \subseteq Entries
         /\ \A e \in DOMAIN cached' : cached'[e] \in Trees
         /\ listeners' \subseteq Entries \X Caches
  <1>1. DOMAIN cached' \subseteq DOMAIN cached
    BY DisposedCache
  <1>2. \A e \in DOMAIN cached' : cached'[e] \in Trees
    BY <1>1, DisposedCache DEF IInv, TypeOK
  <1>3. listeners' \subseteq Entries \X Caches
    BY DEF FireDispose, IInv, TypeOK
  <1>4. QED
    BY <1>1, <1>2, <1>3, DisposedCache DEF IInv, TypeOK

LEMMA ReplaceFragmentIInv ==
  ASSUME IInv, NEW entry \in Entries, ReplaceFragment(entry) PROVE IInv'
  <1>1. PICK old \in Entries : old = currentEntry
    BY DEF IInv, TypeOK
  <1>2. /\ entry \notin born /\ NavigationsAborted /\ born' = born \cup {entry}
        /\ page' = [page EXCEPT ![entry] = page[currentEntry]] /\ currentEntry' = entry
        /\ FireDispose(old) /\ old \in born
    BY <1>1 DEF ReplaceFragment, IInv, TypeOK, FireDispose
  <1>3. /\ DOMAIN cached' = DOMAIN cached \ {old}
        /\ \A e \in DOMAIN cached' : cached'[e] = cached[e]
        /\ listeners' = (DOMAIN cached') \X {cacheRef}
        /\ cacheRef' = cacheRef /\ disposed' = disposed \cup {old}
    BY <1>2, DisposedCache
  <1>4. TypeOK'
    BY <1>2, <1>3, AbortedLoads, NewEntryKeeps, DisposedTypes DEF IInv, TypeOK
  <1>5. CachedDone' /\ NoStaleRoute' /\ ListenersMatchCache'
    BY <1>2, <1>3, AbortedLoads
    DEF IInv, TypeOK, CachedDone, NoStaleRoute, ListenersMatchCache
  <1>6. ServesOwnPage'
    BY <1>2, <1>3, AbortedLoads, NewEntryKeeps DEF IInv, TypeOK, CachedDone, ServesOwnPage
  <1>7. QED
    BY <1>2, <1>4, <1>5, <1>6, NewEntryKeeps DEF IInv

LEMMA DropEntryIInv ==
  ASSUME IInv, NEW entry \in Entries, DropEntry(entry) PROVE IInv'
  <1>0. /\ entry \in born \ (disposed \cup {currentEntry}) /\ FireDispose(entry)
        /\ UNCHANGED <<load, page, born, currentEntry>>
    BY DEF DropEntry
  <1>1. TypeOK'
    BY <1>0, DisposedCache, DisposedTypes DEF IInv, TypeOK
  <1>2. CachedDone' /\ ServesOwnPage' /\ NoStaleRoute' /\ ListenersMatchCache'
    BY <1>0, DisposedCache
    DEF IInv, CachedDone, ServesOwnPage, NoStaleRoute, ListenersMatchCache
  <1>3. DocumentInv' /\ OneActivity' /\ PageInv'
    BY <1>0 DEF IInv, DocumentInv, OneActivity, PageInv, UnderWay, Active, OwnPage
  <1>4. QED
    BY <1>1, <1>2, <1>3 DEF IInv

-----------------------------------------------------------------------------

LEMMA StutterIInv == ASSUME IInv, UNCHANGED vars PROVE IInv'
  BY DEF vars, cacheVars, entryVars, IInv, TypeOK, CachedDone, DocumentInv, OneActivity, PageInv,
      UnderWay, Active, OwnPage, ServesOwnPage, NoStaleRoute, ListenersMatchCache

LEMMA NextIInv == IInv /\ [Next]_vars => IInv'
  BY StutterIInv, RequestIInv, DecodeIInv, ArriveIInv, CacheRouteIInv, StartRefreshIInv,
     RequestRefreshIInv, InvokeIInv, PrepareRefreshIInv, CommitRefreshIInv, TraverseCachedIInv,
     TraverseFragmentIInv, PushFragmentIInv, ReplaceFragmentIInv, DropEntryIInv
  DEF Next

LEMMA Invariant == Spec => []IInv
  BY InitIInv, NextIInv, PTL DEF Spec

(* The state keeps its types: the cache, its listeners and what each load  *)
(* of route-loader.ts captured when it began.                              *)
THEOREM TypeCorrect == Spec => []TypeOK
  BY Invariant, PTL DEF IInv

(* A traversal that the cache answers shows the page of its entry, however *)
(* fragment navigations and disposals interleave with responses.           *)
THEOREM PagesOfEntries == Spec => []ServesOwnPage
  BY Invariant, PTL DEF IInv

(* Nothing that was loaded before an invalidation is cached after it.      *)
THEOREM FencedInvalidation == Spec => []NoStaleRoute
  BY Invariant, PTL DEF IInv

(* store, remove and invalidate keep the dispose listeners exact.          *)
THEOREM ExactListeners == Spec => []ListenersMatchCache
  BY Invariant, PTL DEF IInv
=============================================================================
