-------------------------- MODULE ClientRouterProofs --------------------------
(***************************************************************************)
(* Proofs about BrowserRenderer, for every bound on the publications, and  *)
(* then about the router above it: what the renderer promises holds under  *)
(* the router, and the router keeps its own promises, for every set of     *)
(* navigations and history entries and every bound on refreshes.           *)
(***************************************************************************)
EXTENDS ClientRouter, TLAPS

------------------------------------------------------------------------------
(* The renderer.                                                           *)
(*                                                                         *)
(* The exactness of retirement is not inductive by itself.  It rests on    *)
(* what ties the Map to React's queue: the last publication of a live tree *)
(* is either still queued or already behind the screen, and then the tree  *)
(* is the one on screen.                                                   *)

Live == DOMAIN liveRenders

(* The queue holds distinct publications, all newer than the one on screen.*)
QueueInv ==
  /\ shown = current
  /\ current.order <= publicationOrder
  /\ current.shows <= current.order
  /\ \A p \in queued : /\ current.order < p.order
                       /\ p.order <= publicationOrder
                       /\ p.shows <= p.order
  /\ \A p, q \in queued : p.order = q.order => p = q

(* A live tree's last publication is its place in the Map; no publication  *)
(* shows a tree after the tree's last publication.                         *)
MapInv ==
  /\ \A t \in Live : /\ liveRenders[t].at = liveRenders[t].last
                     /\ t <= liveRenders[t].last
                     /\ liveRenders[t].last <= publicationOrder
  /\ \A p \in queued : p.shows # InitialTree =>
       p.shows \in Live /\ p.order <= liveRenders[p.shows].last
  /\ current.shows # InitialTree => current.shows \in Live

(* The last publication of a tree is queued until the screen passes it.    *)
LastInv ==
  \A t \in Live :
    /\ liveRenders[t].last > current.order =>
         \E p \in queued : p.shows = t /\ p.order = liveRenders[t].last
    /\ liveRenders[t].last <= current.order => t = current.shows

(* A tree that never was on screen can only come there by its own render.  *)
TagInv ==
  \A t \in Live : liveRenders[t].tag # "Committed" =>
    /\ liveRenders[t].last = t
    /\ t > current.order
    /\ t # current.shows
    /\ \A p \in queued : p.shows = t => p.order = t

RetiredInv ==
  /\ Live \cap retired = {}
  /\ \A t \in retired : t <= publicationOrder

IInv == TypeOK /\ QueueInv /\ MapInv /\ LastInv /\ TagInv /\ RetiredInv

-----------------------------------------------------------------------------

LEMMA InitIInv == Init => IInv
  BY PublicationsAssumption
  DEF Init, IInv, TypeOK, QueueInv, MapInv, LastInv, TagInv, RetiredInv, Live,
      InitialRender, InitialTree, Publication, Orders

(* Orders and trees are natural numbers, which is what the provers need.   *)
LEMMA NaturalOrders ==
  ASSUME TypeOK
  PROVE  /\ publicationOrder \in Nat
         /\ current.order \in Nat /\ current.shows \in Nat
         /\ \A p \in queued : p.order \in Nat /\ p.shows \in Nat
         /\ \A t \in Live : /\ t \in Nat
                            /\ liveRenders[t].last \in Nat
                            /\ liveRenders[t].at \in Nat
         /\ \A t \in retired : t \in Nat
  BY PublicationsAssumption
  DEF TypeOK, Live, LiveRender, Publication, InitialRender, InitialTree, Orders

(* Handing a new tree to React.                                            *)
LEMMA ScheduleIInv == IInv /\ Schedule => IInv'
  <1> SUFFICES ASSUME IInv, Schedule PROVE IInv'
    OBVIOUS
  <1> DEFINE new == publicationOrder + 1
             entry == [tag |-> "Scheduled", last |-> new, at |-> new]
             fresh == [order |-> new, shows |-> new]
  <1>1. /\ new \in Orders
        /\ publicationOrder' = new
        /\ queued' = queued \cup {fresh}
        /\ liveRenders' = [t \in Live \cup {new} |-> IF t = new THEN entry ELSE liveRenders[t]]
        /\ UNCHANGED <<current, committed, retired, shown>>
    BY PublicationsAssumption
    DEF Schedule, Publish, Insert, Orders, IInv, TypeOK, Live
  <1>2. /\ new \notin Live
        /\ new \notin retired
        /\ Live' = Live \cup {new}
        /\ liveRenders'[new] = entry
        /\ \A t \in Live : liveRenders'[t] = liveRenders[t]
    BY <1>1, PublicationsAssumption
    DEF IInv, TypeOK, MapInv, RetiredInv, Live, Orders, LiveRender
  <1>3. TypeOK'
    BY <1>1, <1>2 DEF IInv, TypeOK, Live, LiveRender, Publication, InitialTree
  <1>4. QueueInv'
    BY <1>1, PublicationsAssumption DEF IInv, TypeOK, QueueInv, Publication, InitialRender, Orders, InitialTree
  <1>5. MapInv'
    BY <1>1, <1>2, PublicationsAssumption
    DEF IInv, TypeOK, MapInv, Live, LiveRender, InitialTree, Orders
  <1>6. LastInv'
    <2> SUFFICES ASSUME NEW t \in Live'
                 PROVE  /\ liveRenders'[t].last > current.order =>
                             \E p \in queued' : p.shows = t /\ p.order = liveRenders'[t].last
                        /\ liveRenders'[t].last <= current.order => t = current.shows
      BY <1>1 DEF LastInv, Live
    <2>1. CASE t = new
      <3>1. liveRenders'[t].last = new
        BY <2>1, <1>2
      <3>2. fresh \in queued' /\ fresh.shows = t /\ fresh.order = new
        BY <2>1, <1>1
      <3>3. ~(new <= current.order)
        BY NaturalOrders DEF IInv, QueueInv
      <3>4. QED
        BY <3>1, <3>2, <3>3
    <2>2. CASE t \in Live
      BY <2>2, <1>1, <1>2 DEF IInv, LastInv
    <2>3. QED
      BY <2>1, <2>2, <1>2
  <1>7. TagInv'
    BY <1>1, <1>2, PublicationsAssumption
    DEF IInv, TypeOK, QueueInv, MapInv, TagInv, Live, LiveRender, Orders, Publication, InitialRender, InitialTree
  <1>8. RetiredInv'
    <2>1. \A t \in retired' : t <= publicationOrder'
      BY <1>1, NaturalOrders DEF IInv, RetiredInv
    <2>2. Live' \cap retired' = {}
      BY <1>1, <1>2 DEF IInv, RetiredInv
    <2>3. QED
      BY <2>1, <2>2 DEF RetiredInv
  <1>9. QED
    BY <1>3, <1>4, <1>5, <1>6, <1>7, <1>8 DEF IInv

(* What discard does to the Map: only the cancelled and the restored tree  *)
(* change, and the restored tree is now the last of the Map.               *)
LEMMA DiscardedMap ==
  ASSUME IInv, NEW dropped \in Orders, Discard(dropped)
  PROVE  LET new == publicationOrder + 1
             restore == current.shows
         IN  /\ new \in Orders
             /\ dropped \in Live /\ dropped # restore
             /\ Live' = Live
             /\ liveRenders'[dropped].tag = "DiscardRequested"
             /\ liveRenders'[dropped].last = liveRenders[dropped].last
             /\ liveRenders'[dropped].at = liveRenders[dropped].at
             /\ liveRenders[dropped].tag = "Scheduled"
             /\ restore # InitialTree =>
                  liveRenders'[restore] = [tag |-> "Committed", last |-> new, at |-> new]
             /\ \A t \in Live \ {dropped, restore} : liveRenders'[t] = liveRenders[t]
             /\ liveRenders'[dropped] \in LiveRender
  <1> DEFINE new == publicationOrder + 1
             restore == current.shows
             cancelled == DiscardRequested(liveRenders, dropped)
  <1>1. /\ dropped \in Live /\ liveRenders[dropped].tag = "Scheduled"
        /\ new \in Orders
        /\ liveRenders' = Retain(cancelled, restore, new)
    BY PublicationsAssumption DEF Discard, Discardable, Live, IInv, TypeOK, Orders
  <1>2. dropped # restore /\ liveRenders[dropped].last = dropped /\ dropped # InitialTree
    BY <1>1 DEF IInv, TagInv, Orders, InitialTree
  <1>3. restore # InitialTree => restore \in Live
    BY DEF IInv, MapInv
  <1>4. /\ DOMAIN cancelled = Live
        /\ \A t \in Live \ {dropped} : cancelled[t] = liveRenders[t]
        /\ cancelled[dropped] = [liveRenders[dropped] EXCEPT !.tag = "DiscardRequested", !.last = dropped]
    BY <1>1 DEF DiscardRequested, Live
  <1>5. liveRenders[dropped] \in LiveRender
    BY <1>1 DEF IInv, TypeOK, Live
  <1>6. /\ cancelled[dropped] \in LiveRender
        /\ cancelled[dropped].tag = "DiscardRequested"
        /\ cancelled[dropped].last = dropped
        /\ cancelled[dropped].at = liveRenders[dropped].at
    BY <1>4, <1>5 DEF LiveRender
  <1>7. CASE restore = InitialTree
    BY <1>1, <1>2, <1>4, <1>6, <1>7 DEF Retain, Live
  <1>8. CASE restore # InitialTree
    <2>1. liveRenders' = [t \in Live \cup {restore} |->
                            IF t = restore THEN [tag |-> "Committed", last |-> new, at |-> new]
                            ELSE cancelled[t]]
      BY <1>1, <1>4, <1>8 DEF Retain, Insert
    <2>2. QED
      BY <2>1, <1>1, <1>2, <1>3, <1>4, <1>6, <1>8 DEF Live
  <1>9. QED
    BY <1>7, <1>8

LEMMA DiscardIInv ==
  ASSUME IInv, NEW dropped \in Orders, Discard(dropped)
  PROVE  IInv'
  <1> DEFINE new == publicationOrder + 1
             restore == current.shows
             discard == [order |-> new, shows |-> restore]
  <1>1. /\ publicationOrder' = new
        /\ queued' = queued \cup {discard}
        /\ UNCHANGED <<current, committed, retired, shown>>
    BY DEF Discard, Publish
  <1>2. /\ new \in Orders
        /\ dropped \in Live /\ dropped # restore
        /\ Live' = Live
        /\ liveRenders'[dropped].tag = "DiscardRequested"
        /\ liveRenders'[dropped].last = liveRenders[dropped].last
        /\ liveRenders'[dropped].at = liveRenders[dropped].at
        /\ liveRenders[dropped].tag = "Scheduled"
        /\ restore # InitialTree =>
             liveRenders'[restore] = [tag |-> "Committed", last |-> new, at |-> new]
        /\ \A t \in Live \ {dropped, restore} : liveRenders'[t] = liveRenders[t]
        /\ liveRenders'[dropped] \in LiveRender
    BY DiscardedMap
  <1>3. /\ publicationOrder \in Nat /\ new \in Nat /\ publicationOrder < new
        /\ restore \in Nat /\ restore <= publicationOrder
        /\ current.order \in Nat
        /\ restore # InitialTree => restore \in Live
        /\ \A t \in Live : t \in Nat /\ t # InitialTree
    BY NaturalOrders DEF IInv, QueueInv, MapInv, TypeOK, Live, InitialTree, Orders
  <1>4. \A t \in Live : t = restore => liveRenders'[t] = [tag |-> "Committed", last |-> new, at |-> new]
    BY <1>2, <1>3
  <1>5. TypeOK'
    <2>1. \A t \in Live : liveRenders'[t] \in LiveRender
      BY <1>2, <1>4 DEF IInv, TypeOK, Live, LiveRender
    <2>2. discard \in Publication
      BY <1>2, <1>3 DEF Publication, IInv, TypeOK, Live
    <2>3. QED
      BY <1>1, <1>2, <2>1, <2>2 DEF IInv, TypeOK, Live
  <1>6. QueueInv'
    BY <1>1, <1>3, NaturalOrders DEF IInv, QueueInv
  <1>7. MapInv'
    <2>1. \A t \in Live : /\ liveRenders'[t].at = liveRenders'[t].last
                          /\ t <= liveRenders'[t].last
                          /\ liveRenders'[t].last <= new
      <3> SUFFICES ASSUME NEW t \in Live
                   PROVE  /\ liveRenders'[t].at = liveRenders'[t].last
                          /\ t <= liveRenders'[t].last
                          /\ liveRenders'[t].last <= new
        OBVIOUS
      <3>1. CASE t = restore
        BY <3>1, <1>3, <1>4
      <3>2. CASE t # restore
        <4>1. /\ liveRenders'[t].at = liveRenders[t].at
              /\ liveRenders'[t].last = liveRenders[t].last
          BY <3>2, <1>2
        <4>2. /\ liveRenders[t].at = liveRenders[t].last
              /\ t <= liveRenders[t].last
              /\ liveRenders[t].last <= publicationOrder
              /\ liveRenders[t].last \in Nat
          BY NaturalOrders DEF IInv, MapInv
        <4>3. QED
          BY <4>1, <4>2, <1>3, NaturalOrders DEF IInv
      <3>3. QED
        BY <3>1, <3>2
    <2>2. ASSUME NEW p \in queued', p.shows # InitialTree
          PROVE  p.shows \in Live /\ p.order <= liveRenders'[p.shows].last
      <3>1. CASE p = discard
        BY <3>1, <2>2, <1>2, <1>3
      <3>2. CASE p \in queued
        <4>1. /\ p.shows \in Live
              /\ p.order <= liveRenders[p.shows].last
              /\ p.order <= publicationOrder
              /\ p.order \in Nat
          BY <3>2, <2>2, NaturalOrders DEF IInv, MapInv, QueueInv
        <4>2. CASE p.shows = restore
          BY <4>1, <4>2, <1>3, <1>4, NaturalOrders DEF IInv
        <4>3. CASE p.shows # restore
          BY <4>1, <4>3, <1>2
        <4>4. QED
          BY <4>2, <4>3
      <3>3. QED
        BY <3>1, <3>2, <1>1
    <2>3. QED
      BY <2>1, <2>2, <1>1, <1>2, <1>3 DEF MapInv
  <1>8. LastInv'
    <2> SUFFICES ASSUME NEW t \in Live
                 PROVE  /\ liveRenders'[t].last > current.order =>
                             \E p \in queued' : p.shows = t /\ p.order = liveRenders'[t].last
                        /\ liveRenders'[t].last <= current.order => t = current.shows
      BY <1>1, <1>2 DEF LastInv
    <2>1. CASE t = restore
      <3>1. liveRenders'[t].last = new
        BY <2>1, <1>4
      <3>2. discard \in queued' /\ discard.shows = t /\ discard.order = new
        BY <2>1, <1>1
      <3>3. QED
        BY <2>1, <3>1, <3>2
    <2>2. CASE t # restore
      <3>1. liveRenders'[t].last = liveRenders[t].last
        BY <2>2, <1>2
      <3>2. QED
        BY <3>1, <1>1 DEF IInv, LastInv
    <2>3. QED
      BY <2>1, <2>2
  <1>9. TagInv'
    <2> SUFFICES ASSUME NEW t \in Live, liveRenders'[t].tag # "Committed"
                 PROVE  /\ liveRenders'[t].last = t
                        /\ t > current.order
                        /\ t # current.shows
                        /\ \A p \in queued' : p.shows = t => p.order = t
      BY <1>1, <1>2 DEF TagInv
    <2>1. t # restore
      BY <1>4
    <2>2. liveRenders[t].tag # "Committed" /\ liveRenders'[t].last = liveRenders[t].last
      BY <2>1, <1>2
    <2>3. QED
      BY <2>1, <2>2, <1>1 DEF IInv, TagInv
  <1>10. RetiredInv'
    BY <1>1, <1>2, <1>3, NaturalOrders DEF IInv, RetiredInv
  <1>11. QED
    BY <1>5, <1>6, <1>7, <1>8, <1>9, <1>10 DEF IInv

-----------------------------------------------------------------------------
(* React commits a queued publication p.                                   *)

(* commit neither throws on p nor retires what p or a later one shows: it  *)
(* retires exactly the trees whose last publication p leaves behind.       *)
LEMMA CommittedMap ==
  ASSUME IInv, NEW p \in queued \cup {current}, Commit(p)
  PROVE  LET gone == {t \in Live \ {p.shows} : liveRenders[t].last <= p.order}
         IN  /\ Live' = Live \ gone
             /\ retired' = retired \cup gone
             /\ \A t \in Live' : /\ liveRenders'[t].last = liveRenders[t].last
                                 /\ liveRenders'[t].at = liveRenders[t].at
                                 /\ liveRenders'[t].tag = IF t = p.shows THEN "Committed"
                                                          ELSE liveRenders[t].tag
                                 /\ liveRenders'[t] \in LiveRender
  <1> DEFINE marked == MarkCommitted(liveRenders, p.shows)
             gone == {t \in Live \ {p.shows} : liveRenders[t].last <= p.order}
  <1>1. p.shows # InitialTree => p.shows \in Live
    BY DEF IInv, MapInv
  <1>2. \A t \in Live : liveRenders[t] \in LiveRender
    BY DEF IInv, TypeOK, Live
  <1>3. /\ DOMAIN marked = Live
        /\ \A t \in Live : /\ marked[t].last = liveRenders[t].last
                           /\ marked[t].at = liveRenders[t].at
                           /\ marked[t].tag = IF t = p.shows THEN "Committed"
                                              ELSE liveRenders[t].tag
                           /\ marked[t] \in LiveRender
    <2>1. CASE p.shows = InitialTree
      <3>1. InitialTree \notin Live
        BY DEF IInv, TypeOK, Live, Orders, InitialTree
      <3>2. QED
        BY <2>1, <3>1, <1>2 DEF MarkCommitted, Live
    <2>2. CASE p.shows # InitialTree
      <3>1. marked = [liveRenders EXCEPT ![p.shows].tag = "Committed"]
        BY <2>2 DEF MarkCommitted
      <3>2. /\ DOMAIN marked = Live
            /\ marked[p.shows] = [liveRenders[p.shows] EXCEPT !.tag = "Committed"]
            /\ \A t \in Live \ {p.shows} : marked[t] = liveRenders[t]
        BY <3>1, <2>2, <1>1 DEF Live
      <3>3. QED
        BY <3>2, <2>2, <1>1, <1>2 DEF LiveRender
    <2>3. QED
      BY <2>1, <2>2
  <1>4. RetiredBy(marked, p) = gone
    <2>1. \A t \in Live : marked[t].at = marked[t].last /\ marked[t].last \in Nat
      BY <1>3, NaturalOrders DEF IInv, MapInv
    <2>2. p.order \in Nat
      BY NaturalOrders DEF IInv
    <2>3. ASSUME NEW t \in Live
          PROVE  (\A u \in Live : marked[u].at <= marked[t].at => marked[u].last <= p.order)
                   <=> liveRenders[t].last <= p.order
      BY <2>1, <2>2, <1>3
    <2>4. QED
      BY <2>3, <1>3 DEF RetiredBy
  <1>5. /\ liveRenders' = [t \in Live \ gone |-> marked[t]]
        /\ retired' = retired \cup gone
    BY <1>3, <1>4 DEF Commit, Restrict
  <1>6. QED
    BY <1>3, <1>5 DEF Live

LEMMA CommitIInv ==
  ASSUME IInv, NEW p \in queued, Commit(p),
         shown' = p, queued' = {q \in queued : q.order > p.order}
  PROVE  IInv'
  <1> DEFINE gone == {t \in Live \ {p.shows} : liveRenders[t].last <= p.order}
  <1>1. /\ current' = p
        /\ publicationOrder' = publicationOrder
        /\ committed' \subseteq committed \cup {p.shows}
        /\ p.order # p.shows => committed' = committed
    BY DEF Commit
  <1>2. /\ Live' = Live \ gone
        /\ retired' = retired \cup gone
        /\ \A t \in Live' : /\ liveRenders'[t].last = liveRenders[t].last
                            /\ liveRenders'[t].at = liveRenders[t].at
                            /\ liveRenders'[t].tag = IF t = p.shows THEN "Committed"
                                                     ELSE liveRenders[t].tag
                            /\ liveRenders'[t] \in LiveRender
    BY CommittedMap
  <1>3. /\ p \in Publication
        /\ p.order \in Nat /\ p.shows \in Nat
        /\ current.order < p.order /\ p.order <= publicationOrder /\ p.shows <= p.order
        /\ p.shows # InitialTree => p.shows \in Live
    BY NaturalOrders DEF IInv, TypeOK, QueueInv, MapInv
  <1>4. TypeOK'
    <2>1. committed' \subseteq Orders
      BY <1>1, <1>3 DEF IInv, TypeOK, Publication, Orders
    <2>2. gone \subseteq Orders
      BY DEF IInv, TypeOK, Live
    <2>3. QED
      BY <1>1, <1>2, <1>3, <2>1, <2>2 DEF IInv, TypeOK, Live
  <1>5. QueueInv'
    BY <1>1, <1>3, NaturalOrders DEF IInv, QueueInv
  <1>6. MapInv'
    <2>1. \A t \in Live' : /\ liveRenders'[t].at = liveRenders'[t].last
                           /\ t <= liveRenders'[t].last
                           /\ liveRenders'[t].last <= publicationOrder
      BY <1>2 DEF IInv, MapInv
    <2>2. ASSUME NEW q \in queued', q.shows # InitialTree
          PROVE  q.shows \in Live' /\ q.order <= liveRenders'[q.shows].last
      <3>1. /\ q.shows \in Live /\ q.order <= liveRenders[q.shows].last
            /\ q.order \in Nat /\ liveRenders[q.shows].last \in Nat
            /\ q.order > p.order
        BY <2>2, NaturalOrders DEF IInv, MapInv
      <3>2. q.shows \notin gone
        BY <3>1, <1>3
      <3>3. QED
        BY <3>1, <3>2, <1>2
    <2>3. p.shows # InitialTree => p.shows \in Live'
      BY <1>2, <1>3
    <2>4. QED
      BY <2>1, <2>2, <2>3, <1>1 DEF MapInv
  <1>7. LastInv'
    <2> SUFFICES ASSUME NEW t \in Live'
                 PROVE  /\ liveRenders[t].last > p.order =>
                             \E q \in queued' : q.shows = t /\ q.order = liveRenders[t].last
                        /\ liveRenders[t].last <= p.order => t = p.shows
      BY <1>1, <1>2 DEF LastInv
    <2>1. t \in Live /\ liveRenders[t].last \in Nat /\ current.order \in Nat
      BY <1>2, NaturalOrders DEF IInv
    <2>2. liveRenders[t].last > p.order =>
            \E q \in queued' : q.shows = t /\ q.order = liveRenders[t].last
      BY <2>1, <1>3 DEF IInv, LastInv
    <2>3. liveRenders[t].last <= p.order => t = p.shows
      BY <2>1, <1>2
    <2>4. QED
      BY <2>2, <2>3
  <1>8. TagInv'
    <2> SUFFICES ASSUME NEW t \in Live', liveRenders'[t].tag # "Committed"
                 PROVE  /\ liveRenders'[t].last = t
                        /\ t > p.order
                        /\ t # p.shows
                        /\ \A q \in queued' : q.shows = t => q.order = t
      BY <1>1 DEF TagInv
    <2>1. t # p.shows /\ t \in Live /\ liveRenders[t].tag # "Committed"
      BY <1>2
    <2>2. /\ liveRenders[t].last = t
          /\ \A q \in queued : q.shows = t => q.order = t
      BY <2>1 DEF IInv, TagInv
    <2>3. t > p.order
      BY <2>1, <2>2, <1>2, <1>3, NaturalOrders DEF IInv
    <2>4. QED
      BY <2>1, <2>2, <2>3, <1>2
  <1>9. RetiredInv'
    <2>1. Live' \cap retired' = {}
      BY <1>2 DEF IInv, RetiredInv
    <2>2. \A t \in gone : t <= publicationOrder
      <3>1. \A t \in Live : t <= liveRenders[t].last /\ liveRenders[t].last <= publicationOrder
        BY DEF IInv, MapInv
      <3>2. QED
        BY <3>1, NaturalOrders DEF IInv
    <2>3. QED
      BY <2>1, <2>2, <1>1, <1>2 DEF IInv, RetiredInv
  <1>10. QED
    BY <1>4, <1>5, <1>6, <1>7, <1>8, <1>9 DEF IInv

(* Running the layout effect of the render on screen again changes nothing *)
(* an owner of a tree could notice.                                        *)
LEMMA RepeatIsHarmless ==
  ASSUME IInv, Commit(shown)
  PROVE  /\ current' = current
         /\ Live' = Live
         /\ retired' = retired
         /\ \A t \in Live : /\ liveRenders'[t].last = liveRenders[t].last
                            /\ liveRenders'[t].at = liveRenders[t].at
                            /\ liveRenders'[t].tag = liveRenders[t].tag
                            /\ liveRenders'[t] \in LiveRender
  <1> DEFINE gone == {t \in Live \ {current.shows} : liveRenders[t].last <= current.order}
  <1>1. shown = current
    BY DEF IInv, QueueInv
  <1>2. /\ Live' = Live \ gone
        /\ retired' = retired \cup gone
        /\ \A t \in Live' : /\ liveRenders'[t].last = liveRenders[t].last
                            /\ liveRenders'[t].at = liveRenders[t].at
                            /\ liveRenders'[t].tag = IF t = current.shows THEN "Committed"
                                                     ELSE liveRenders[t].tag
                            /\ liveRenders'[t] \in LiveRender
    BY <1>1, CommittedMap
  <1>3. gone = {}
    BY DEF IInv, LastInv
  <1>4. \A t \in Live : t = current.shows => liveRenders[t].tag = "Committed"
    BY DEF IInv, TagInv
  <1>5. current' = current
    BY <1>1 DEF Commit
  <1>6. QED
    BY <1>2, <1>3, <1>4, <1>5

LEMMA RepeatIInv ==
  ASSUME IInv, ReactRepeatsEffect
  PROVE  IInv'
  <1>1. /\ current' = current /\ Live' = Live /\ retired' = retired
        /\ \A t \in Live : /\ liveRenders'[t].last = liveRenders[t].last
                           /\ liveRenders'[t].at = liveRenders[t].at
                           /\ liveRenders'[t].tag = liveRenders[t].tag
                           /\ liveRenders'[t] \in LiveRender
    BY RepeatIsHarmless DEF ReactRepeatsEffect
  <1>2. /\ publicationOrder' = publicationOrder /\ shown' = shown /\ queued' = queued
        /\ committed' \subseteq Orders
    <2>1. shown = current /\ current # InitialRender
      BY DEF IInv, QueueInv, ReactRepeatsEffect, Commit
    <2>2. current.order \in Orders
      BY <2>1 DEF IInv, TypeOK, Publication
    <2>3. QED
      BY <2>1, <2>2 DEF ReactRepeatsEffect, reactVars, Commit, IInv, TypeOK
  <1>3. TypeOK'
    BY <1>1, <1>2 DEF IInv, TypeOK, Live
  <1>4. QueueInv' /\ RetiredInv'
    BY <1>1, <1>2 DEF IInv, QueueInv, RetiredInv
  <1>5. MapInv' /\ LastInv' /\ TagInv'
    BY <1>1, <1>2 DEF IInv, MapInv, LastInv, TagInv
  <1>6. QED
    BY <1>3, <1>4, <1>5 DEF IInv

-----------------------------------------------------------------------------
(* The invariant of the renderer.                                          *)

LEMMA NextIInv == IInv /\ [Next]_vars => IInv'
  <1> SUFFICES ASSUME IInv, [Next]_vars PROVE IInv'
    OBVIOUS
  <1>1. CASE Schedule
    BY <1>1, ScheduleIInv
  <1>2. ASSUME NEW dropped \in Orders, Discard(dropped) PROVE IInv'
    BY <1>2, DiscardIInv
  <1>3. CASE ReactCommits
    BY <1>3, CommitIInv DEF ReactCommits
  <1>4. CASE ReactRepeatsEffect
    BY <1>4, RepeatIInv
  <1>5. CASE UNCHANGED vars
    BY <1>5 DEF vars, rendererVars, reactVars, IInv, TypeOK, QueueInv, MapInv, LastInv,
                TagInv, RetiredInv, Live
  <1>6. QED
    BY <1>1, <1>2, <1>3, <1>4, <1>5 DEF Next

THEOREM Invariant == Spec => []IInv
  BY InitIInv, NextIInv, PTL DEF Spec

(* The state of the renderer keeps its types.                              *)
THEOREM TypeCorrect == Spec => []TypeOK
  <1>1. IInv => TypeOK
    BY DEF IInv
  <1>2. QED
    BY <1>1, Invariant, PTL

(* The loop of commit may stop at the first entry newer than its render.   *)
THEOREM MapSorted == Spec => []MapInPublicationOrder
  <1>1. IInv => MapInPublicationOrder
    BY NaturalOrders DEF IInv, MapInv, MapInPublicationOrder, Live
  <1>2. QED
    BY <1>1, Invariant, PTL

(* A tree is live exactly as long as React can still display it.           *)
LEMMA DisplayableLive == IInv => DOMAIN liveRenders = Contract!Displayable(shown, queued)
  <1> SUFFICES ASSUME IInv PROVE Live = Contract!Displayable(shown, queued)
    BY DEF Live
  <1>1. InitialTree \notin Live
    BY DEF IInv, TypeOK, Live, Orders, InitialTree
  <1>2. ASSUME NEW t \in Live PROVE t = shown.shows \/ \E p \in queued : p.shows = t
    <2>1. liveRenders[t].last \in Nat /\ current.order \in Nat /\ shown = current
      BY NaturalOrders DEF IInv, QueueInv
    <2>2. QED
      BY <2>1 DEF IInv, LastInv
  <1>3. /\ shown.shows # InitialTree => shown.shows \in Live
        /\ \A p \in queued : p.shows # InitialTree => p.shows \in Live
    BY DEF IInv, QueueInv, MapInv
  <1>4. QED
    BY <1>1, <1>2, <1>3 DEF Contract!Displayable, Contract!InitialTree, InitialTree

THEOREM ExactRetirement == Spec => []LiveIffDisplayable
  <1>1. IInv => LiveIffDisplayable
    BY DisplayableLive DEF IInv, RetiredInv, LiveIffDisplayable, Live
  <1>2. QED
    BY <1>1, Invariant, PTL

(* commit throws on nothing that React can process.                        *)
THEOREM NoCommitThrows == Spec => []CommitsAccepted
  <1>1. IInv => CommitsAccepted
    BY NaturalOrders DEF IInv, QueueInv, MapInv, CommitsAccepted, Refused, Live
  <1>2. QED
    BY <1>1, Invariant, PTL

(* Late cancellation leaves the visible tree where it is.                  *)
THEOREM LateDiscardIsHarmless == Spec => []VisibleTreeStays
  <1>1. IInv => VisibleTreeStays
    BY DEF IInv, QueueInv, TagInv, VisibleTreeStays, Discardable, Live
  <1>2. QED
    BY <1>1, Invariant, PTL

-----------------------------------------------------------------------------
(* The renderer implements TreeRetirement.                                 *)

LEMMA InitContract == Init => Contract!Init
  BY DEF Init, Contract!Init, InitialRender, InitialTree, Contract!InitialTree

LEMMA NextContract == IInv /\ IInv' /\ [Next]_vars => [Contract!Next]_Contract!vars
  <1> SUFFICES ASSUME IInv, IInv', [Next]_vars PROVE [Contract!Next]_Contract!vars
    OBVIOUS
  <1>1. CASE Schedule
    <2>1. Contract!Submit
      BY <1>1, NaturalOrders, PublicationsAssumption
      DEF Schedule, Publish, Contract!Submit, IInv
    <2>2. QED
      BY <2>1 DEF Contract!Next
  <1>2. ASSUME NEW dropped \in Orders, Discard(dropped) PROVE Contract!Next
    <2>1. Contract!Submit
      BY <1>2, NaturalOrders, PublicationsAssumption
      DEF Discard, Publish, Contract!Submit, IInv, QueueInv
    <2>2. QED
      BY <2>1 DEF Contract!Next
  <1>3. CASE ReactCommits
    <2>1. PICK p \in queued : /\ shown' = p
                              /\ queued' = {q \in queued : q.order > p.order}
                              /\ Commit(p)
      BY <1>3 DEF ReactCommits
    <2>2. /\ Live' = Live \ (retired' \ retired)
          /\ retired \subseteq retired'
          /\ Live \cap retired = {} /\ Live' \cap retired' = {}
          /\ retired' \subseteq retired \cup Live
      BY <2>1, CommittedMap DEF IInv, RetiredInv
    <2>3. retired' = retired \cup (Live \ Live')
      BY <2>2
    <2>4. /\ Live = Contract!Displayable(shown, queued)
          /\ Live' = Contract!Displayable(shown', queued')
      <3>1. Live = Contract!Displayable(shown, queued)
        BY DisplayableLive DEF Live
      <3>2. (DOMAIN liveRenders = Contract!Displayable(shown, queued))'
        BY DisplayableLive, PTL
      <3>3. QED
        BY <3>1, <3>2 DEF Live, Contract!Displayable
    <2>5. publicationOrder' = publicationOrder
      BY <2>1 DEF Commit
    <2>6. Contract!Display
      BY <2>1, <2>3, <2>4, <2>5 DEF Contract!Display
    <2>7. QED
      BY <2>6 DEF Contract!Next
  <1>4. CASE ReactRepeatsEffect
    BY <1>4, RepeatIsHarmless DEF ReactRepeatsEffect, reactVars, Commit, Contract!vars
  <1>5. CASE UNCHANGED vars
    BY <1>5 DEF vars, rendererVars, reactVars, Contract!vars
  <1>6. QED
    BY <1>1, <1>2, <1>3, <1>4, <1>5 DEF Next

(* Owners of trees can rely on TreeRetirement.                             *)
THEOREM Refinement == Spec => KeepsContract
  <1>1. Spec => Contract!Init /\ [][Contract!Next]_Contract!vars
    BY InitContract, NextContract, Invariant, PTL DEF Spec
  <1>2. QED
    BY <1>1 DEF KeepsContract, Contract!Spec


------------------------------------------------------------------------------
(* The renderer under the router.                                          *)

LEMMA DiscardStep ==
  ASSUME IInv, NEW t, Discard(t)
  PROVE  Next
<1>1. t \in Orders
  BY DEF IInv, TypeOK, Discard, Discardable
<1>. QED
  BY <1>1 DEF Next

LEMMA DiscardRouteStep ==
  ASSUME IInv, NEW g, DiscardRoute(g)
  PROVE  [Next]_vars
BY DiscardStep DEF DiscardRoute

\* Whatever the router does, the renderer only takes steps of its own.
LEMMA RendererStep ==
  ASSUME IInv, [RouterNext]_allVars
  PROVE  [Next]_vars
<1>1. ASSUME NEW g \in Generations, NEW k \in Kinds, NEW e \in Entries, Navigate(g, k, e)
      PROVE  [Next]_vars
  BY <1>1, DiscardRouteStep DEF Navigate, Supersede
<1>2. ASSUME NEW g \in Generations, NEW opened, PublishRoute(g, opened)
      PROVE  [Next]_vars
  BY <1>2 DEF PublishRoute, Next
<1>3. ASSUME NEW g \in Generations, AbortNavigation(g)
      PROVE  [Next]_vars
  BY <1>3, DiscardRouteStep DEF AbortNavigation
<1>4. ASSUME NEW g \in Generations, AwaitCommit(g) \/ NativeAbort(g)
      PROVE  [Next]_vars
  BY <1>3, <1>4 DEF AwaitCommit, NativeAbort
<1>5. ASSUME NEW g \in Generations, StartCached(g) \/ LoadRoute(g)
      PROVE  [Next]_vars
  BY <1>2, <1>5 DEF StartCached, LoadRoute
<1>6. ASSUME NEW g \in Generations,
             \/ StartLoad(g) \/ LoadDocument(g) \/ LoadFails(g) \/ HandleRejection(g)
             \/ NoticeCommit(g) \/ Continue(g) \/ CommitHistory(g) \/ FlightEnds(g)
             \/ NoticeFlight(g) \/ NoticeRetirement(g) \/ FinishDiscard(g)
      PROVE  UNCHANGED vars
  BY <1>6 DEF StartLoad, LoadDocument, LoadFails, HandleRejection, NoticeCommit, Continue,
     CommitHistory, FlightEnds, NoticeFlight, NoticeRetirement, FinishDiscard, ReleaseDiscarded
<1>7. CASE InvalidateCache \/ Refresh \/ Render
  BY <1>7 DEF InvalidateCache, Refresh, Render, Next
<1>8. CASE WithdrawRefresh
  BY <1>8, DiscardStep DEF WithdrawRefresh
<1>9. CASE UNCHANGED allVars
  BY <1>9 DEF allVars
<1>. QED
  BY <1>1, <1>4, <1>5, <1>6, <1>7, <1>8, <1>9 DEF RouterNext

\* The router's specification implies the renderer's: what is proved of the
\* renderer holds whatever the router, refreshes and the browser do.
THEOREM RendererUnderRouter == RouterSpec => Spec
<1>1. RouterInit => Init
  BY DEF RouterInit
<1>2. IInv /\ [RouterNext]_allVars => IInv' /\ [Next]_vars
  BY RendererStep, NextIInv
<1>. QED
  BY <1>1, <1>2, InitIInv, PTL DEF RouterSpec, Spec

LEMMA RendererInvariant == RouterSpec => []IInv
BY RendererUnderRouter, Invariant, PTL

\* Under the router too, the live trees are exactly those that can be shown.
THEOREM ExactUnderRouter == RouterSpec => []LiveIffDisplayable
BY RendererUnderRouter, ExactRetirement, PTL

\* The candidate is a navigation that loads, or one whose render is awaited;
\* the visible navigation is one whose render was noticed.
CandidateInv ==
  /\ \/ router.candidate = NoCandidate
     \/ \E g \in Generations :
          \/ /\ router.candidate = [tag |-> "Loading", gen |-> g]
             /\ handler[g] \in {"begun", "loading"}
          \/ /\ router.candidate = [tag |-> "Rendering", gen |-> g]
             /\ handler[g] \in {"prepared", "waiting"}
  /\ \A g \in Generations :
       /\ handler[g] = "waiting" => OwnsCandidate(router, g) /\ g \notin aborted
       /\ handler[g] = "prepared" /\ g \notin aborted => OwnsCandidate(router, g)
       /\ OwnsCandidate(router, g) /\ kind[g] = "forced" => currentEntry = destination[g]

VisibleInv ==
  \A g \in Generations : OwnsVisible(router, g) =>
    LET visible == router.visible IN
    /\ handler[g] \in {"rendered", "retained", "settled"}
    /\ handler[g] \in {"rendered", "retained"} => visible.entry = Pending
    /\ handler[g] = "rendered" => visible.flight = "Streaming"
    /\ handler[g] = "rendered" /\ kind[g] = "forced" => currentEntry = destination[g]
    /\ visible.entry # Pending => visible.entry = destination[g]
    /\ visible.flight = "Completed" => stream[g] = "complete" /\ <<"flight", g>> \notin watchers

\* Navigations begin one after another; the candidate and the native navigation
\* are the latest.
Latest(g) == handler[g] # "idle" /\ \A h \in Generations : h > g => handler[h] = "idle"

LatestInv ==
  /\ \A g, h \in Generations : h < g /\ handler[g] # "idle" => handler[h] # "idle"
  /\ ongoing # NoNavigation => Latest(ongoing)
  /\ \A g \in Generations : OwnsCandidate(router, g) =>
       /\ Latest(g)
       /\ g \notin aborted => ongoing = g

\* What was loaded, and what watches it.
LoadedInv ==
  \A g \in Generations :
    /\ handler[g] \in {"idle", "begun", "loading"} => stream[g] = "none" /\ tree[g] = InitialTree
    /\ <<"flight", g>> \in watchers => handler[g] \in {"retained", "settled"}

\* Nothing is published behind a render that is awaited; once it is on screen
\* until its entry is committed, nothing else can come there.
ScreenInv ==
  /\ \A t \in committed : t <= current.order
  /\ \A g \in Generations :
       /\ (handler[g] \in {"prepared", "waiting"} /\ g \notin aborted) =>
            /\ publicationOrder = tree[g]
            /\ \A p \in queued \cup {shown} : p.order = tree[g] => p.shows = tree[g]
       /\ (handler[g] \in {"rendered", "retained"} /\ ongoing = g /\ g \notin aborted) =>
            \A p \in queued \cup {shown} : p.shows = tree[g]

RouterInv ==
  /\ RouterTypeOK
  /\ CandidateInv
  /\ VisibleInv
  /\ LatestInv
  /\ LoadedInv
  /\ CacheExact
  /\ NoTruncatedTree
  /\ ScreenInv

------------------------------------------------------------------------------
(* The reducer.                                                            *)

LEMMA GenerationNumbers ==
  /\ \A g \in Generations : g \in Nat /\ g # 0
  /\ FirstEntry \in Entries
  /\ NoEntry \notin Entries /\ Pending \notin Entries /\ Pending # NoEntry
BY RouterAssumption

LEMMA OneLatest ==
  ASSUME NEW g \in Generations, NEW h \in Generations, Latest(g), Latest(h)
  PROVE  g = h
BY GenerationNumbers DEF Latest

LEMMA Owner ==
  ASSUME RouterInv, NEW g \in Generations, OwnsCandidate(router, g)
  PROVE  /\ \/ router.candidate = [tag |-> "Loading", gen |-> g] /\ handler[g] \in {"begun", "loading"}
            \/ router.candidate = [tag |-> "Rendering", gen |-> g] /\ handler[g] \in {"prepared", "waiting"}
         /\ router.candidate.tag = "Loading" => handler[g] \in {"begun", "loading"}
         /\ router.candidate.tag = "Rendering" => handler[g] \in {"prepared", "waiting"}
         /\ \A h \in Generations : OwnsCandidate(router, h) => h = g
         /\ Latest(g)
<1>1. PICK h \in Generations :
        \/ router.candidate = [tag |-> "Loading", gen |-> h] /\ handler[h] \in {"begun", "loading"}
        \/ router.candidate = [tag |-> "Rendering", gen |-> h] /\ handler[h] \in {"prepared", "waiting"}
  BY DEF RouterInv, CandidateInv, OwnsCandidate
<1>2. router.candidate.gen = h /\ h = g
  BY <1>1 DEF OwnsCandidate
<1>3. \A f \in Generations : OwnsCandidate(router, f) => f = g
  BY <1>2 DEF OwnsCandidate
<1>4. /\ router.candidate.tag = "Loading" => handler[g] \in {"begun", "loading"}
      /\ router.candidate.tag = "Rendering" => handler[g] \in {"prepared", "waiting"}
  BY <1>1, <1>2
<1>5. Latest(g)
  BY DEF RouterInv, LatestInv
<1>. QED
  BY <1>1, <1>2, <1>3, <1>4, <1>5

\* Handlers that may show their tree and are not aborted: none while another
\* navigation is the candidate.
LEMMA OwnerAlone ==
  ASSUME RouterInv, NEW g \in Generations, OwnsCandidate(router, g),
         NEW h \in Generations, h # g
  PROVE  /\ handler[h] \in {"prepared", "waiting"} => h \in aborted
         /\ handler[h] # "waiting"
         /\ ongoing # h
<1>1. ~OwnsCandidate(router, h) /\ Latest(g)
  <2>1. \A f \in Generations : OwnsCandidate(router, f) => f = g
    BY Owner
  <2>2. Latest(g)
    BY Owner
  <2>. QED
    BY <2>1, <2>2
<1>2. ongoing # h
  BY <1>1, OneLatest, GenerationNumbers DEF RouterInv, LatestInv, NoNavigation
<1>. QED
  BY <1>1, <1>2 DEF RouterInv, CandidateInv

\* The state without the candidate of g.
Without(g) == IF OwnsCandidate(router, g) THEN DropCandidate(router) ELSE router

LEMMA WithoutCandidate ==
  ASSUME RouterInv, NEW g \in Generations, NEW next, next = Without(g)
  PROVE  /\ next \in RouterState
         /\ next.visible = router.visible
         /\ next.candidate = NoCandidate \/ next.candidate = router.candidate
         /\ ~OwnsCandidate(next, g)
         /\ \A h \in Generations :
              /\ OwnsVisible(next, h) <=> OwnsVisible(router, h)
              /\ OwnsCandidate(next, h) <=> h # g /\ OwnsCandidate(router, h)
<1>1. router \in RouterState
  BY DEF RouterInv, RouterTypeOK
<1>2. CASE OwnsCandidate(router, g)
  <2>1. next = [router EXCEPT !.candidate = NoCandidate]
    BY <1>2 DEF Without, DropCandidate
  <2>2. /\ next \in RouterState
        /\ next.visible = router.visible /\ next.candidate = NoCandidate
    BY <1>1, <2>1 DEF RouterState, NavigationCandidate
  <2>3. \A h \in Generations : OwnsCandidate(router, h) => h = g
    BY <1>2, Owner
  <2>. QED
    BY <2>2, <2>3 DEF OwnsVisible, OwnsCandidate
<1>3. CASE ~OwnsCandidate(router, g)
  BY <1>1, <1>3 DEF Without, OwnsVisible
<1>. QED
  BY <1>2, <1>3

\* Before a handler has published, what ends it only lets its candidate go.
LEMMA LostCandidate ==
  ASSUME RouterInv, NEW g \in Generations, handler[g] \in {"begun", "loading"}
  PROVE  /\ FlightFailed(router, g).state = Without(g)
         /\ DocumentLoaded(router, g).state = Without(g)
         /\ Accepts(FlightFailed(router, g)) /\ Accepts(DocumentLoaded(router, g))
<1>1. ~OwnsVisible(router, g)
  BY DEF RouterInv, VisibleInv
<1>2. ASSUME OwnsCandidate(router, g) PROVE router.candidate.tag = "Loading"
  <2>1. \/ router.candidate = [tag |-> "Loading", gen |-> g] /\ handler[g] \in {"begun", "loading"}
        \/ router.candidate = [tag |-> "Rendering", gen |-> g] /\ handler[g] \in {"prepared", "waiting"}
    BY <1>2, Owner
  <2>. QED
    BY <2>1
<1>. QED
  BY <1>1, <1>2 DEF FlightFailed, DocumentLoaded, CandidateLost, Without, Becomes, Stale, Accepts, NoCommand

LEMMA AbortedCandidate ==
  ASSUME RouterInv, NEW g \in Generations
  PROVE  /\ NavigationAborted(router, g).state = Without(g)
         /\ NavigationAborted(router, g).command.tag = "DiscardRoute" => OwnsCandidate(router, g)
BY DEF NavigationAborted, Without, Becomes, Stale, NoCommand

\* A handler that has not rendered yet lets go of its candidate and ends.
LEMMA Withdrawn ==
  ASSUME IInv, RouterInv, NEW g \in Generations,
         handler[g] \in {"begun", "loading", "rejected", "prepared", "waiting"},
         NEW phase \in {"rejected", "abandoned", "settled"},
         handler' = [handler EXCEPT ![g] = phase],
         router' = Without(g),
         aborted' = aborted \/ aborted' = aborted \cup {g},
         ongoing' = ongoing \/ ongoing' = Finished(g),
         \/ UNCHANGED <<vars, discarding>>
         \/ OwnsCandidate(router, g) /\ DiscardRoute(g),
         source' \in [Generations -> Generations \cup {InitialResponse}],
         UNCHANGED <<kind, destination, tree, stream, watchers, currentEntry, history, cacheVars>>
  PROVE  RouterInv'
<1>1. RouterTypeOK /\ CandidateInv /\ VisibleInv /\ LatestInv /\ LoadedInv
      /\ CacheExact /\ NoTruncatedTree /\ ScreenInv
  BY DEF RouterInv
<1>2. /\ router' \in RouterState
      /\ router'.visible = router.visible
      /\ router'.candidate = NoCandidate \/ router'.candidate = router.candidate
      /\ ~OwnsCandidate(router', g)
      /\ \A h \in Generations :
           /\ OwnsVisible(router', h) <=> OwnsVisible(router, h)
           /\ OwnsCandidate(router', h) <=> h # g /\ OwnsCandidate(router, h)
  BY WithoutCandidate
<1>3. /\ handler' \in [Generations -> Phases]
      /\ \A h \in Generations : handler'[h] = IF h = g THEN phase ELSE handler[h]
  BY <1>1 DEF RouterTypeOK, Phases
<1>4. UNCHANGED <<cache, fenced, refreshes>>
  BY DEF cacheVars
<1>5. UNCHANGED <<current, committed, retired, shown>>
  BY DEF DiscardRoute, Discard, vars, rendererVars, reactVars
<1>6. \A h \in Generations : h # g => (h \in aborted' <=> h \in aborted)
  OBVIOUS
<1>7. RouterTypeOK'
  <2>1. discarding' \subseteq Generations /\ aborted' \subseteq Generations
    BY <1>1 DEF RouterTypeOK, DiscardRoute
  <2>2. ongoing' \in Generations \cup {NoNavigation}
    BY <1>1 DEF RouterTypeOK, Finished
  <2>. QED
    BY <1>1, <1>2, <1>3, <1>4, <2>1, <2>2 DEF RouterTypeOK
<1>8. CandidateInv'
  <2>1. \/ router'.candidate = NoCandidate
        \/ \E h \in Generations :
             \/ router'.candidate = [tag |-> "Loading", gen |-> h] /\ handler'[h] \in {"begun", "loading"}
             \/ router'.candidate = [tag |-> "Rendering", gen |-> h] /\ handler'[h] \in {"prepared", "waiting"}
    <3>1. CASE router'.candidate = NoCandidate
      BY <3>1
    <3>2. CASE router'.candidate # NoCandidate
      <4>1. PICK h \in Generations :
              \/ router.candidate = [tag |-> "Loading", gen |-> h] /\ handler[h] \in {"begun", "loading"}
              \/ router.candidate = [tag |-> "Rendering", gen |-> h] /\ handler[h] \in {"prepared", "waiting"}
        BY <1>1, <1>2, <3>2 DEF CandidateInv
      <4>2. OwnsCandidate(router, h)
        BY <4>1 DEF OwnsCandidate, NoCandidate
      <4>3. h # g
        BY <1>2, <3>2, <4>1, <4>2 DEF OwnsCandidate
      <4>. QED
        BY <1>2, <1>3, <3>2, <4>1, <4>3
    <3>. QED
      BY <3>1, <3>2
  <2>2. ASSUME NEW h \in Generations
        PROVE  /\ handler'[h] = "waiting" => OwnsCandidate(router', h) /\ h \notin aborted'
               /\ handler'[h] = "prepared" /\ h \notin aborted' => OwnsCandidate(router', h)
               /\ OwnsCandidate(router', h) /\ kind[h] = "forced" => currentEntry = destination[h]
    BY <1>1, <1>2, <1>3, <1>6 DEF CandidateInv
  <2>. QED
    BY <2>1, <2>2 DEF CandidateInv
<1>9. VisibleInv'
  <2>1. ~OwnsVisible(router, g)
    BY <1>1 DEF VisibleInv
  <2>. QED
    BY <1>1, <1>2, <1>3, <2>1 DEF VisibleInv
<1>10. LatestInv'
  <2>1. \A h \in Generations : handler'[h] = "idle" <=> handler[h] = "idle"
    BY <1>3
  <2>2. \A h \in Generations : Latest(h)' <=> Latest(h)
    BY <2>1 DEF Latest
  <2>3. \A h \in Generations : OwnsCandidate(router', h) /\ h \notin aborted' => ongoing' = h
    BY <1>1, <1>2, <1>6 DEF LatestInv, Finished
  <2>4. ongoing' # NoNavigation => ongoing' \in Generations /\ ongoing' = ongoing
    BY <1>1 DEF Finished, RouterTypeOK
  <2>5. ongoing' # NoNavigation => Latest(ongoing)'
    <3>1. ASSUME NEW h \in Generations, h = ongoing', ongoing' # NoNavigation PROVE Latest(h)'
      BY <1>1, <2>2, <2>4, <3>1 DEF LatestInv
    <3>. QED
      BY <2>4, <3>1 DEF Latest
  <2>. QED
    BY <1>1, <1>2, <2>1, <2>2, <2>3, <2>5 DEF LatestInv
<1>11. LoadedInv'
  BY <1>1, <1>3 DEF LoadedInv
<1>12. CacheExact' /\ NoTruncatedTree'
  BY <1>1, <1>4, <1>5 DEF CacheExact, NoTruncatedTree
<1>13. ScreenInv'
  <2>1. \A t \in committed' : t <= current'.order
    BY <1>1, <1>5 DEF ScreenInv
  <2>2. CASE OwnsCandidate(router, g)
    <3>1. ASSUME NEW h \in Generations, h # g
          PROVE  /\ handler[h] \in {"prepared", "waiting"} => h \in aborted
                 /\ ongoing # h
      BY <2>2, <3>1, OwnerAlone
    <3>2. \A h \in Generations : ongoing' = h => ongoing = h
      BY GenerationNumbers DEF Finished, NoNavigation
    <3>. QED
      BY <1>3, <1>6, <2>1, <3>1, <3>2 DEF ScreenInv
  <2>3. CASE ~OwnsCandidate(router, g)
    <3>1. UNCHANGED <<publicationOrder, queued, shown>>
      BY <2>3 DEF vars, rendererVars, reactVars
    <3>2. \A h \in Generations : ongoing' = h => ongoing = h
      BY GenerationNumbers DEF Finished, NoNavigation
    <3>3. ASSUME NEW h \in Generations
          PROVE  /\ (handler'[h] \in {"prepared", "waiting"} /\ h \notin aborted') =>
                      /\ publicationOrder' = tree[h]
                      /\ \A p \in queued \cup {shown} : p.order = tree[h] => p.shows = tree[h]
                 /\ (handler'[h] \in {"rendered", "retained"} /\ ongoing' = h /\ h \notin aborted') =>
                      \A p \in queued \cup {shown} : p.shows = tree[h]
      BY <1>1, <1>3, <1>6, <3>1, <3>2 DEF ScreenInv
    <3>. QED
      BY <2>1, <3>1, <3>3 DEF ScreenInv
  <2>. QED
    BY <2>2, <2>3
<1>. QED
  BY <1>7, <1>8, <1>9, <1>10, <1>11, <1>12, <1>13 DEF RouterInv

LEMMA StartLoadKeeps ==
  ASSUME IInv, RouterInv, NEW g \in Generations, StartLoad(g)
  PROVE  RouterInv'
<1>1. RouterTypeOK /\ CandidateInv /\ VisibleInv /\ LatestInv /\ LoadedInv
      /\ CacheExact /\ NoTruncatedTree /\ ScreenInv
  BY DEF RouterInv
<1>2. /\ handler[g] = "begun"
      /\ UNCHANGED <<vars, kind, destination, aborted, source, resourceVars, browserVars, cacheVars>>
  BY DEF StartLoad
<1>3. /\ UNCHANGED <<tree, stream, watchers, discarding, ongoing, currentEntry, history>>
      /\ source' \in [Generations -> Generations \cup {InitialResponse}]
  BY <1>1, <1>2 DEF resourceVars, browserVars, RouterTypeOK
<1>4. CASE g \in aborted
  <2>1. handler' = [handler EXCEPT ![g] = "rejected"] /\ router' = Without(g)
    BY <1>2, <1>4, LostCandidate DEF StartLoad, Move
  <2>. QED
    BY <1>2, <1>3, <2>1, Withdrawn
<1>5. CASE g \notin aborted
  <2>1. handler' = [handler EXCEPT ![g] = "loading"] /\ router' = router
    BY <1>2, <1>5 DEF StartLoad, Move
  <2>2. /\ handler' \in [Generations -> Phases]
        /\ \A h \in Generations : handler'[h] = IF h = g THEN "loading" ELSE handler[h]
    BY <1>1, <2>1 DEF RouterTypeOK, Phases
  <2>3. UNCHANGED <<cache, fenced, refreshes, current, committed, retired, shown, publicationOrder, queued>>
    BY <1>2 DEF cacheVars, vars, rendererVars, reactVars
  <2>4. RouterTypeOK'
    BY <1>1, <1>2, <1>3, <2>1, <2>2, <2>3 DEF RouterTypeOK
  <2>5. CandidateInv'
    BY <1>1, <1>2, <1>3, <2>1, <2>2 DEF CandidateInv
  <2>6. VisibleInv'
    BY <1>1, <1>2, <1>3, <2>1, <2>2 DEF VisibleInv
  <2>7. LatestInv'
    BY <1>1, <1>2, <1>3, <2>1, <2>2 DEF LatestInv, Latest
  <2>8. LoadedInv'
    BY <1>1, <1>2, <1>3, <2>2 DEF LoadedInv
  <2>9. CacheExact' /\ NoTruncatedTree'
    BY <1>1, <1>2, <1>3, <2>3 DEF CacheExact, NoTruncatedTree
  <2>10. ScreenInv'
    BY <1>1, <1>2, <1>3, <2>2, <2>3 DEF ScreenInv
  <2>. QED
    BY <2>4, <2>5, <2>6, <2>7, <2>8, <2>9, <2>10 DEF RouterInv
<1>. QED
  BY <1>4, <1>5

LEMMA LoadEndsKeeps ==
  ASSUME IInv, RouterInv, NEW g \in Generations,
         LoadDocument(g) \/ LoadFails(g) \/ HandleRejection(g)
  PROVE  RouterInv'
<1>1. source \in [Generations -> Generations \cup {InitialResponse}]
  BY DEF RouterInv, RouterTypeOK
<1>2. CASE LoadDocument(g)
  BY <1>1, <1>2, LostCandidate, Withdrawn DEF LoadDocument, Move, resourceVars
<1>3. CASE LoadFails(g)
  BY <1>1, <1>3, LostCandidate, Withdrawn DEF LoadFails, Move, resourceVars, browserVars
<1>4. CASE HandleRejection(g)
  <2>1. router = Without(g)
    <3>1. ~OwnsCandidate(router, g)
      BY <1>4, Owner DEF HandleRejection
    <3>. QED
      BY <3>1 DEF Without
  <2>2. router' = Without(g)
    BY <1>4, <2>1, AbortedCandidate DEF HandleRejection
  <2>. QED
    BY <1>1, <1>4, <2>2, Withdrawn DEF HandleRejection, Move, resourceVars
<1>. QED
  BY <1>2, <1>3, <1>4

\* A navigation that is aborted lets go of its candidate, and of its tree if
\* that was rendered: its handler then stays until that tree has retired.
LEMMA AbortedNavigation ==
  ASSUME RouterInv, NEW g \in Generations, AbortNavigation(g)
  PROVE  /\ router' = Without(g)
         /\ \/ UNCHANGED <<vars, discarding>>
            \/ OwnsCandidate(router, g) /\ DiscardRoute(g)
         /\ \E phase \in {"abandoned", "settled"} : handler' = [handler EXCEPT ![g] = phase]
BY AbortedCandidate DEF AbortNavigation, Move

\* Steps that leave the renderer alone and nothing new waiting for it.
LEMMA ScreenKept ==
  ASSUME ScreenInv, UNCHANGED <<vars, tree>>,
         \A h \in Generations :
           /\ handler'[h] \in {"prepared", "waiting"} /\ h \notin aborted' =>
                handler[h] \in {"prepared", "waiting"} /\ h \notin aborted
           /\ handler'[h] \in {"rendered", "retained"} /\ ongoing' = h /\ h \notin aborted' =>
                handler[h] \in {"rendered", "retained"} /\ ongoing = h /\ h \notin aborted
  PROVE  ScreenInv'
<1>1. UNCHANGED <<current, committed, shown, publicationOrder, queued>>
  BY DEF vars, rendererVars, reactVars
<1>. QED
  BY <1>1 DEF ScreenInv

LEMMA AwaitCommitKeeps ==
  ASSUME IInv, RouterInv, NEW g \in Generations, AwaitCommit(g)
  PROVE  RouterInv'
<1>1. RouterTypeOK /\ CandidateInv /\ VisibleInv /\ LatestInv /\ LoadedInv
      /\ CacheExact /\ NoTruncatedTree /\ ScreenInv
  BY DEF RouterInv
<1>2. /\ handler[g] = "prepared"
      /\ UNCHANGED <<kind, destination, aborted, source, tree, stream, watchers,
                     currentEntry, history, cacheVars>>
  BY DEF AwaitCommit
<1>3. CASE g \in aborted
  <2>1. /\ router' = Without(g)
        /\ \/ UNCHANGED <<vars, discarding>>
           \/ OwnsCandidate(router, g) /\ DiscardRoute(g)
    BY <1>3, AbortedNavigation DEF AwaitCommit
  <2>2. /\ ongoing' = Finished(g)
        /\ source' \in [Generations -> Generations \cup {InitialResponse}]
    BY <1>1, <1>2, <1>3 DEF AwaitCommit, RouterTypeOK
  <2>3. PICK phase \in {"abandoned", "settled"} : handler' = [handler EXCEPT ![g] = phase]
    BY <1>3, AbortedNavigation DEF AwaitCommit
  <2>. QED
    BY <1>2, <2>1, <2>2, <2>3, Withdrawn
<1>4. CASE g \notin aborted
  <2>1. handler' = [handler EXCEPT ![g] = "waiting"] /\ UNCHANGED <<vars, router, discarding, ongoing>>
    BY <1>2, <1>4 DEF AwaitCommit, Move
  <2>2. /\ handler' \in [Generations -> Phases]
        /\ \A h \in Generations : handler'[h] = IF h = g THEN "waiting" ELSE handler[h]
    BY <1>1, <2>1 DEF RouterTypeOK, Phases
  <2>3. UNCHANGED <<cache, fenced, refreshes, retired>>
    BY <1>2, <2>1 DEF cacheVars, vars, rendererVars
  <2>4. RouterTypeOK'
    BY <1>1, <1>2, <2>1, <2>2, <2>3 DEF RouterTypeOK
  <2>5. CandidateInv'
    BY <1>1, <1>2, <1>4, <2>1, <2>2 DEF CandidateInv
  <2>6. VisibleInv'
    BY <1>1, <1>2, <2>1, <2>2 DEF VisibleInv
  <2>7. LatestInv'
    BY <1>1, <1>2, <2>1, <2>2 DEF LatestInv, Latest
  <2>8. LoadedInv'
    BY <1>1, <1>2, <2>2 DEF LoadedInv
  <2>9. CacheExact' /\ NoTruncatedTree'
    BY <1>1, <1>2, <2>3 DEF CacheExact, NoTruncatedTree
  <2>10. ScreenInv'
    BY <1>1, <1>2, <2>1, <2>2, ScreenKept
  <2>. QED
    BY <2>4, <2>5, <2>6, <2>7, <2>8, <2>9, <2>10 DEF RouterInv
<1>. QED
  BY <1>3, <1>4

LEMMA NativeAbortKeeps ==
  ASSUME IInv, RouterInv, NEW g \in Generations, NativeAbort(g)
  PROVE  RouterInv'
<1>1. RouterTypeOK /\ CandidateInv /\ VisibleInv /\ LatestInv /\ LoadedInv
      /\ CacheExact /\ NoTruncatedTree /\ ScreenInv
  BY DEF RouterInv
<1>2. /\ handler[g] \notin {"idle", "settled"}
      /\ aborted' = aborted \cup {g}
      /\ ongoing' = Finished(g)
      /\ UNCHANGED <<kind, destination, source, tree, stream, watchers,
                     currentEntry, history, cacheVars>>
  BY DEF NativeAbort
<1>3. source' \in [Generations -> Generations \cup {InitialResponse}]
  BY <1>1, <1>2 DEF RouterTypeOK
<1>4. CASE handler[g] = "waiting"
  <2>1. AbortNavigation(g)
    BY <1>4 DEF NativeAbort
  <2>2. /\ router' = Without(g)
        /\ \/ UNCHANGED <<vars, discarding>>
           \/ OwnsCandidate(router, g) /\ DiscardRoute(g)
    BY <2>1, AbortedNavigation
  <2>3. PICK phase \in {"abandoned", "settled"} : handler' = [handler EXCEPT ![g] = phase]
    BY <2>1, AbortedNavigation
  <2>. QED
    BY <1>2, <1>3, <1>4, <2>2, <2>3, Withdrawn
<1>5. CASE handler[g] = "loading"
  <2>1. router' = FlightFailed(router, g).state /\ UNCHANGED <<vars, discarding>>
    BY <1>5 DEF NativeAbort
  <2>2. router' = Without(g)
    BY <1>5, <2>1, LostCandidate
  <2>3. handler' = [handler EXCEPT ![g] = "rejected"]
    BY <1>5 DEF NativeAbort, Move
  <2>. QED
    BY <1>2, <1>3, <1>5, <2>1, <2>2, <2>3, Withdrawn
<1>6. CASE handler[g] \notin {"waiting", "loading"}
  <2>1. UNCHANGED <<vars, router, discarding>>
    BY <1>6 DEF NativeAbort
  <2>2. handler' = handler
    BY <1>6 DEF NativeAbort
  <2>3. UNCHANGED <<cache, fenced, refreshes, retired>>
    BY <1>2, <2>1 DEF cacheVars, vars, rendererVars
  <2>4. /\ ongoing' \in Generations \cup {NoNavigation}
        /\ (ongoing' = ongoing /\ ongoing # g) \/ ongoing' = NoNavigation
    BY <1>1, <1>2, GenerationNumbers DEF RouterTypeOK, Finished, NoNavigation
  <2>5. RouterTypeOK'
    BY <1>1, <1>2, <2>1, <2>2, <2>3, <2>4 DEF RouterTypeOK
  <2>6. CandidateInv'
    BY <1>1, <1>2, <1>6, <2>1, <2>2 DEF CandidateInv
  <2>7. VisibleInv'
    BY <1>1, <1>2, <2>1, <2>2 DEF VisibleInv
  <2>8. LatestInv'
    <3>1. \A h \in Generations : OwnsCandidate(router, h) /\ h \notin aborted' => ongoing' = h
      BY <1>1, <1>2 DEF LatestInv, Finished
    <3>. QED
      BY <1>1, <2>1, <2>2, <2>4, <3>1 DEF LatestInv, Latest
  <2>9. LoadedInv'
    BY <1>1, <1>2, <2>2 DEF LoadedInv
  <2>10. CacheExact' /\ NoTruncatedTree'
    BY <1>1, <1>2, <2>3 DEF CacheExact, NoTruncatedTree
  <2>11. ScreenInv'
    <3>1. \A h \in Generations : ongoing' = h => ongoing = h
      BY <2>4, GenerationNumbers DEF NoNavigation
    <3>. QED
      BY <1>1, <1>2, <2>1, <2>2, <3>1, ScreenKept
  <2>. QED
    BY <2>5, <2>6, <2>7, <2>8, <2>9, <2>10, <2>11 DEF RouterInv
<1>. QED
  BY <1>4, <1>5, <1>6

------------------------------------------------------------------------------
(* A navigation begins.                                                    *)

LEMMA NavigateKeeps ==
  ASSUME IInv, RouterInv, NEW g \in Generations, NEW k \in Kinds, NEW e \in Entries,
         Navigate(g, k, e)
  PROVE  RouterInv'
<1>1. RouterTypeOK /\ CandidateInv /\ VisibleInv /\ LatestInv /\ LoadedInv
      /\ CacheExact /\ NoTruncatedTree /\ ScreenInv
  BY DEF RouterInv
<1>2. /\ handler[g] = "idle"
      /\ \A h \in Generations : h < g => handler[h] # "idle"
      /\ k # "push" => Drained
      /\ kind' = [kind EXCEPT ![g] = k]
      /\ destination' = [destination EXCEPT ![g] = e]
      /\ router' = BeginNavigation(router, g).state
      /\ ongoing' = g
      /\ currentEntry' = IF k = "forced" THEN e ELSE currentEntry
      /\ UNCHANGED <<source, tree, stream, watchers, history, cacheVars>>
  BY DEF Navigate, Begin, Idle
<1>3. UNCHANGED <<cache, fenced, refreshes>>
  BY <1>2 DEF cacheVars
<1>4. PICK old \in {g} \cup Generations :
        /\ handler' = [handler EXCEPT ![g] = "begun", ![old] = IF old = g THEN "begun" ELSE Interrupted(old)]
        /\ old = g => router.candidate = NoCandidate /\ aborted' = aborted /\ UNCHANGED <<vars, discarding>>
        /\ old # g => /\ OwnsCandidate(router, old)
                      /\ aborted' = aborted \cup {old}
                      /\ UNCHANGED <<vars, discarding>> \/ DiscardRoute(old)
  <2>1. CASE router.candidate = NoCandidate
    <3>1. BeginNavigation(router, g).command = NoCommand
      BY <2>1 DEF BeginNavigation, Becomes
    <3>2. ~Supersede(NoCommand, g)
      BY DEF Supersede, NoCommand
    <3>3. handler' = [handler EXCEPT ![g] = "begun"] /\ UNCHANGED <<vars, aborted, discarding>>
      BY <3>1, <3>2 DEF Navigate, Move
    <3>. QED
      BY <1>1, <2>1, <3>3 DEF RouterTypeOK
  <2>2. CASE router.candidate # NoCandidate
    <3>1. PICK old \in Generations : OwnsCandidate(router, old) /\ router.candidate.gen = old
      <4>1. CandidateInv
        BY <1>1
      <4>2. PICK old \in Generations :
              \/ router.candidate = [tag |-> "Loading", gen |-> old] /\ handler[old] \in {"begun", "loading"}
              \/ router.candidate = [tag |-> "Rendering", gen |-> old] /\ handler[old] \in {"prepared", "waiting"}
        BY <2>2, <4>1 DEF CandidateInv
      <4>3. router.candidate.gen = old
        BY <4>2
      <4>. QED
        BY <2>2, <4>3 DEF OwnsCandidate
    <3>2. BeginNavigation(router, g).command = [tag |-> "SupersedeCandidate", candidate |-> router.candidate]
      BY <2>2 DEF BeginNavigation, Becomes
    <3>3. BeginNavigation(router, g).command # NoCommand
      BY <3>2 DEF NoCommand
    <3>4. Supersede([tag |-> "SupersedeCandidate", candidate |-> router.candidate], g)
      BY <3>2, <3>3 DEF Navigate
    <3>5. /\ aborted' = aborted \cup {old}
          /\ handler' = [handler EXCEPT ![g] = "begun", ![old] = Interrupted(old)]
          /\ UNCHANGED <<vars, discarding>> \/ DiscardRoute(old)
      BY <3>1, <3>4 DEF Supersede
    <3>6. old # g
      BY <1>2, <3>1, Owner
    <3>. QED
      BY <3>1, <3>5, <3>6
  <2>. QED
    BY <2>1, <2>2
<1>5. old \in Generations /\ (old # g => handler[old] \in {"begun", "loading", "prepared", "waiting"})
  BY <1>4, Owner
<1>6. /\ handler' \in [Generations -> Phases]
      /\ handler'[g] = "begun"
      /\ \A h \in Generations : h # g /\ h # old => handler'[h] = handler[h]
      /\ old # g => /\ handler[old] = "loading" => handler'[old] = "rejected"
                    /\ handler[old] = "waiting" => handler'[old] = "settled"
                    /\ handler[old] \notin {"loading", "waiting"} => handler'[old] = handler[old]
  <2>1. old # g => Interrupted(old) \in Phases
    BY <1>5 DEF Interrupted, Phases
  <2>2. /\ handler' \in [Generations -> Phases]
        /\ handler'[g] = "begun"
        /\ \A h \in Generations : h # g /\ h # old => handler'[h] = handler[h]
        /\ old # g => handler'[old] = Interrupted(old)
    BY <1>1, <1>4, <1>5, <2>1 DEF RouterTypeOK, Phases
  <2>. QED
    BY <2>2 DEF Interrupted
<1>7. /\ kind' \in [Generations -> Kinds] /\ kind'[g] = k
      /\ destination' \in [Generations -> Entries] /\ destination'[g] = e
      /\ \A h \in Generations : h # g => kind'[h] = kind[h] /\ destination'[h] = destination[h]
  BY <1>1, <1>2 DEF RouterTypeOK
<1>8. /\ router' \in RouterState
      /\ router'.visible = router.visible
      /\ router'.candidate = [tag |-> "Loading", gen |-> g]
  BY <1>1, <1>2 DEF BeginNavigation, Becomes, SetCandidate, RouterTypeOK, RouterState, NavigationCandidate
<1>9. \A h \in Generations : /\ OwnsCandidate(router', h) <=> h = g
                             /\ OwnsVisible(router', h) <=> OwnsVisible(router, h)
  BY <1>8 DEF OwnsCandidate, OwnsVisible, NoCandidate
<1>10. UNCHANGED <<current, committed, retired>>
  BY <1>4 DEF DiscardRoute, Discard, vars, rendererVars
<1>11. \A h \in Generations : handler[h] \in {"prepared", "waiting"} /\ h \notin aborted => h = old
  BY <1>1, <1>4, <1>5, Owner DEF CandidateInv, OwnsCandidate
<1>12. RouterTypeOK'
  <2>1. discarding' \subseteq Generations /\ aborted' \subseteq Generations
    BY <1>1, <1>4, <1>5 DEF RouterTypeOK, DiscardRoute
  <2>2. ongoing' \in Generations \cup {NoNavigation} /\ currentEntry' \in Entries
    BY <1>1, <1>2 DEF RouterTypeOK
  <2>. QED
    BY <1>1, <1>2, <1>3, <1>6, <1>7, <1>8, <2>1, <2>2 DEF RouterTypeOK
<1>13. CandidateInv'
  <2>1. router'.candidate = [tag |-> "Loading", gen |-> g] /\ handler'[g] \in {"begun", "loading"}
    BY <1>6, <1>8
  <2>2. ASSUME NEW h \in Generations
        PROVE  /\ handler'[h] # "waiting"
               /\ handler'[h] = "prepared" => h \in aborted'
               /\ h = g /\ kind'[h] = "forced" => currentEntry' = destination'[h]
    <3>1. h # g /\ h # old => handler[h] # "waiting"
      BY <1>1, <1>11 DEF CandidateInv
    <3>2. handler'[h] # "waiting"
      BY <1>6, <3>1
    <3>3. handler'[h] = "prepared" => h \in aborted'
      BY <1>4, <1>6, <1>11
    <3>. QED
      BY <1>2, <1>7, <3>2, <3>3
  <2>. QED
    BY <1>9, <2>1, <2>2 DEF CandidateInv
<1>14. VisibleInv'
  <2>1. ASSUME NEW h \in Generations, OwnsVisible(router, h)
        PROVE  /\ h # g /\ handler'[h] = handler[h]
               /\ handler[h] = "rendered" => k = "push"
    <3>1. handler[h] \in {"rendered", "retained", "settled"}
      BY <1>1, <2>1 DEF VisibleInv
    <3>2. handler[h] = "rendered" => ~Drained
      BY DEF Drained
    <3>. QED
      BY <1>2, <1>5, <1>6, <3>1, <3>2
  <2>2. k = "push" => currentEntry' = currentEntry
    BY <1>2
  <2>. QED
    BY <1>1, <1>2, <1>7, <1>8, <1>9, <2>1, <2>2 DEF VisibleInv
<1>15. LatestInv'
  <2>1. \A h \in Generations : handler'[h] = "idle" <=> h # g /\ handler[h] = "idle"
    BY <1>5, <1>6
  <2>2. \A h \in Generations : h > g => handler[h] = "idle"
    BY <1>1, <1>2 DEF LatestInv
  <2>3. Latest(g)'
    BY <2>1, <2>2, GenerationNumbers DEF Latest
  <2>4. ASSUME NEW f \in Generations, NEW h \in Generations, h < f, handler'[f] # "idle"
        PROVE  handler'[h] # "idle"
    <3>1. CASE f = g
      BY <1>2, <2>1, <2>4, <3>1
    <3>2. CASE f # g
      BY <1>1, <2>1, <2>4, <3>2 DEF LatestInv
    <3>. QED
      BY <3>1, <3>2
  <2>5. Latest(ongoing)'
    BY <1>2, <2>3 DEF Latest
  <2>. QED
    BY <1>2, <1>9, <2>3, <2>4, <2>5 DEF LatestInv
<1>16. LoadedInv'
  BY <1>1, <1>2, <1>5, <1>6 DEF LoadedInv
<1>17. CacheExact'
  <2>1. ASSUME NEW d \in DOMAIN cache, cache[d] # InitialResponse
        PROVE  destination'[cache[d]] = d /\ stream[cache[d]] = "complete"
    <3>1. cache[d] \in Generations /\ destination[cache[d]] = d /\ stream[cache[d]] = "complete"
      BY <1>1, <2>1 DEF CacheExact, RouterTypeOK
    <3>2. cache[d] # g
      BY <1>1, <1>2, <3>1 DEF LoadedInv
    <3>. QED
      BY <1>7, <3>1, <3>2
  <2>. QED
    BY <1>1, <1>2, <1>3, <2>1 DEF CacheExact
<1>18. NoTruncatedTree'
  BY <1>1, <1>2, <1>10 DEF NoTruncatedTree
<1>19. ScreenInv'
  <2>1. ASSUME NEW h \in Generations
        PROVE  /\ handler'[h] \in {"prepared", "waiting"} => h \in aborted'
               /\ handler'[h] \in {"rendered", "retained"} => ongoing' # h
    <3>1. handler'[h] \in {"prepared", "waiting"} => h \in aborted'
      BY <1>4, <1>5, <1>6, <1>11
    <3>. QED
      BY <1>2, <1>6, <3>1
  <2>. QED
    BY <1>1, <1>10, <2>1 DEF ScreenInv
<1>. QED
  BY <1>12, <1>13, <1>14, <1>15, <1>16, <1>17, <1>18, <1>19 DEF RouterInv

------------------------------------------------------------------------------
(* A route is published.                                                   *)

LEMMA PublishRouteKeeps ==
  ASSUME IInv, RouterInv, NEW g \in Generations, handler[g] \in {"begun", "loading"},
         NEW opened \in {"open", "complete"}, PublishRoute(g, opened),
         source' \in [Generations -> Generations \cup {InitialResponse}],
         UNCHANGED <<kind, destination, aborted, watchers, discarding, currentEntry, history, cacheVars>>
  PROVE  RouterInv'
<1>1. RouterTypeOK /\ CandidateInv /\ VisibleInv /\ LatestInv /\ LoadedInv
      /\ CacheExact /\ NoTruncatedTree /\ ScreenInv
  BY DEF RouterInv
<1>2. CASE ~OwnsCandidate(router, g)
  <2>1. RouteLoaded(router, g).command.tag = "ReleaseRoute"
    BY <1>2 DEF RouteLoaded, Becomes, Command
  <2>2. /\ handler' = [handler EXCEPT ![g] = "settled"] /\ ongoing' = Finished(g)
        /\ UNCHANGED <<vars, router, tree, stream>>
    BY <2>1 DEF PublishRoute, Move
  <2>3. router' = Without(g)
    BY <1>2, <2>2 DEF Without
  <2>. QED
    BY <2>2, <2>3, Withdrawn
<1>3. CASE OwnsCandidate(router, g)
  <2>1. router.candidate = [tag |-> "Loading", gen |-> g]
    BY <1>3, Owner
  <2>2. /\ RouteLoaded(router, g).command.tag = "PublishRoute"
        /\ RouteLoaded(router, g).state = SetCandidate(router, "Publishing", g)
    BY <1>3, <2>1 DEF RouteLoaded, Becomes, Command
  <2>3. router \in RouterState
    BY <1>1 DEF RouterTypeOK
  <2>4. PICK mid \in RouterState : /\ mid = SetCandidate(router, "Publishing", g)
                                   /\ mid.visible = router.visible
                                   /\ mid.candidate = [tag |-> "Publishing", gen |-> g]
    <3>1. PICK c \in NavigationCandidate : c = [tag |-> "Publishing", gen |-> g]
      BY DEF NavigationCandidate
    <3>2. PICK mid : mid = [router EXCEPT !.candidate = c]
      OBVIOUS
    <3>3. mid \in RouterState /\ mid.visible = router.visible /\ mid.candidate = c
      BY <2>3, <3>2 DEF RouterState
    <3>. QED
      BY <3>1, <3>2, <3>3 DEF SetCandidate
  <2>5. OwnsCandidate(mid, g)
    BY <2>4 DEF OwnsCandidate, NoCandidate
  <2>6. /\ Schedule
        /\ router' = RenderScheduled(mid, g).state
        /\ tree' = [tree EXCEPT ![g] = publicationOrder + 1]
        /\ stream' = [stream EXCEPT ![g] = opened]
        /\ handler' = [handler EXCEPT ![g] = "prepared"]
        /\ ongoing' = ongoing
    BY <2>2, <2>4 DEF PublishRoute, Move
  <2>7. router' = SetCandidate(mid, "Rendering", g)
    BY <2>4, <2>5, <2>6 DEF RenderScheduled, Becomes
  <2>8. /\ router' \in RouterState
        /\ router'.visible = router.visible
        /\ router'.candidate = [tag |-> "Rendering", gen |-> g]
    BY <2>4, <2>7 DEF SetCandidate, RouterState, NavigationCandidate
  <2>9. \A h \in Generations : /\ OwnsCandidate(router', h) <=> h = g
                               /\ OwnsVisible(router', h) <=> OwnsVisible(router, h)
    BY <2>8 DEF OwnsCandidate, OwnsVisible, NoCandidate
  <2>10. /\ handler' \in [Generations -> Phases]
         /\ \A h \in Generations : handler'[h] = IF h = g THEN "prepared" ELSE handler[h]
    BY <1>1, <2>6 DEF RouterTypeOK, Phases
  <2>11. /\ publicationOrder' = publicationOrder + 1 /\ publicationOrder' \in Orders
         /\ queued' = queued \cup {[order |-> publicationOrder', shows |-> publicationOrder']}
         /\ UNCHANGED <<current, committed, retired, shown>>
    BY <2>6, PublicationsAssumption DEF Schedule, Publish, IInv, TypeOK, Orders
  <2>12. /\ tree' \in [Generations -> {InitialTree} \cup Orders]
         /\ stream' \in [Generations -> Streams]
         /\ tree'[g] = publicationOrder' /\ stream'[g] = opened
         /\ \A h \in Generations : h # g => tree'[h] = tree[h] /\ stream'[h] = stream[h]
    BY <1>1, <2>6, <2>11 DEF RouterTypeOK, Streams
  <2>13. UNCHANGED <<cache, fenced, refreshes>>
    BY DEF cacheVars
  <2>14. RouterTypeOK'
    BY <1>1, <2>6, <2>8, <2>10, <2>12, <2>13 DEF RouterTypeOK
  <2>15. CandidateInv'
    <3>1. \A h \in Generations : h # g => ~OwnsCandidate(router, h)
      BY <1>3, Owner
    <3>2. kind[g] = "forced" => currentEntry = destination[g]
      BY <1>1, <1>3 DEF CandidateInv
    <3>. QED
      BY <1>1, <2>8, <2>9, <2>10, <3>1, <3>2 DEF CandidateInv
  <2>16. VisibleInv'
    <3>1. ~OwnsVisible(router, g)
      BY <1>1 DEF VisibleInv
    <3>. QED
      BY <1>1, <2>8, <2>9, <2>10, <2>12, <3>1 DEF VisibleInv
  <2>17. LatestInv'
    <3>1. Latest(g) /\ (g \notin aborted => ongoing = g)
      BY <1>1, <1>3 DEF LatestInv
    <3>2. \A h \in Generations : handler'[h] = "idle" <=> handler[h] = "idle"
      BY <2>10
    <3>. QED
      BY <1>1, <2>6, <2>9, <3>1, <3>2 DEF LatestInv, Latest
  <2>18. LoadedInv'
    BY <1>1, <2>10, <2>12 DEF LoadedInv
  <2>19. CacheExact'
    <3>1. ASSUME NEW d \in DOMAIN cache, cache[d] # InitialResponse
          PROVE  destination[cache[d]] = d /\ stream'[cache[d]] = "complete"
      <4>1. cache[d] \in Generations /\ destination[cache[d]] = d /\ stream[cache[d]] = "complete"
        BY <1>1, <3>1 DEF CacheExact, RouterTypeOK
      <4>2. cache[d] # g
        BY <1>1, <4>1 DEF LoadedInv
      <4>. QED
        BY <2>12, <4>1, <4>2
    <3>. QED
      BY <1>1, <2>13, <3>1 DEF CacheExact
  <2>20. NoTruncatedTree'
    BY <1>1, <2>11, <2>12 DEF NoTruncatedTree
  <2>21. ScreenInv'
    <3>1. ASSUME NEW h \in Generations, h # g
          PROVE  /\ handler[h] \in {"prepared", "waiting"} => h \in aborted
                 /\ ongoing # h
      BY <1>3, <3>1, OwnerAlone
    <3>2. \A p \in queued' \cup {shown'} : p.order = publicationOrder' => p.shows = publicationOrder'
      <4>1. \A p \in queued \cup {shown} : p.order \in Nat /\ p.order <= publicationOrder
        BY NaturalOrders DEF IInv, QueueInv
      <4>2. publicationOrder \in Nat
        BY NaturalOrders DEF IInv
      <4>. QED
        BY <2>11, <4>1, <4>2
    <3>. QED
      BY <1>1, <2>6, <2>10, <2>11, <2>12, <3>1, <3>2 DEF ScreenInv
  <2>. QED
    BY <2>14, <2>15, <2>16, <2>17, <2>18, <2>19, <2>20, <2>21 DEF RouterInv
<1>. QED
  BY <1>2, <1>3

LEMMA LoadKeeps ==
  ASSUME IInv, RouterInv, NEW g \in Generations, StartCached(g) \/ LoadRoute(g)
  PROVE  RouterInv'
<1>1. RouterTypeOK
  BY DEF RouterInv
<1>2. CASE StartCached(g)
  <2>1. source' \in [Generations -> Generations \cup {InitialResponse}]
    BY <1>1, <1>2 DEF StartCached, CacheHit, RouterTypeOK
  <2>. QED
    BY <1>2, <2>1, PublishRouteKeeps DEF StartCached
<1>3. CASE LoadRoute(g)
  <2>1. source' \in [Generations -> Generations \cup {InitialResponse}]
    BY <1>1, <1>3 DEF LoadRoute, RouterTypeOK
  <2>. QED
    BY <1>3, <2>1, PublishRouteKeeps DEF LoadRoute
<1>. QED
  BY <1>2, <1>3

------------------------------------------------------------------------------
(* The render is on screen, and the entry is committed.                    *)

LEMMA NoticeCommitKeeps ==
  ASSUME IInv, RouterInv, NEW g \in Generations, NoticeCommit(g)
  PROVE  RouterInv'
<1>1. RouterTypeOK /\ CandidateInv /\ VisibleInv /\ LatestInv /\ LoadedInv
      /\ CacheExact /\ NoTruncatedTree /\ ScreenInv
  BY DEF RouterInv
<1>2. /\ handler[g] = "waiting" /\ tree[g] \in committed
      /\ router' = RenderCommitted(router, g).state
      /\ handler' = [handler EXCEPT ![g] = "rendered"]
      /\ UNCHANGED <<vars, kind, destination, aborted, source, resourceVars, browserVars, cacheVars>>
  BY DEF NoticeCommit, Move
<1>3. UNCHANGED <<tree, stream, watchers, discarding, ongoing, currentEntry, history, cache, fenced,
                  refreshes, current, committed, retired, shown, publicationOrder, queued>>
  BY <1>2 DEF resourceVars, browserVars, cacheVars, vars, rendererVars, reactVars
<1>4. OwnsCandidate(router, g) /\ g \notin aborted
  BY <1>1, <1>2 DEF CandidateInv
<1>5. router.candidate = [tag |-> "Rendering", gen |-> g]
  BY <1>2, <1>4, Owner
<1>6. router' = [visible |-> [tag |-> "Navigation", gen |-> g, entry |-> Pending, flight |-> "Streaming"],
                 candidate |-> NoCandidate]
  BY <1>2, <1>4, <1>5 DEF RenderCommitted, Becomes
<1>7. /\ router' \in RouterState
      /\ router'.candidate = NoCandidate
      /\ router'.visible.entry = Pending /\ router'.visible.flight = "Streaming"
      /\ \A h \in Generations : ~OwnsCandidate(router', h) /\ (OwnsVisible(router', h) <=> h = g)
  <2>1. PICK v \in VisibleNavigation :
          v = [tag |-> "Navigation", gen |-> g, entry |-> Pending, flight |-> "Streaming"]
    BY DEF VisibleNavigation
  <2>2. router' = [visible |-> v, candidate |-> NoCandidate]
    BY <1>6, <2>1
  <2>3. router' \in RouterState /\ router'.visible = v /\ router'.candidate = NoCandidate
    BY <2>2 DEF RouterState, NavigationCandidate
  <2>. QED
    BY <2>1, <2>3 DEF OwnsVisible, OwnsCandidate
<1>8. /\ handler' \in [Generations -> Phases]
      /\ \A h \in Generations : handler'[h] = IF h = g THEN "rendered" ELSE handler[h]
  BY <1>1, <1>2 DEF RouterTypeOK, Phases
<1>9. ASSUME NEW h \in Generations, h # g
      PROVE  /\ handler[h] \in {"prepared", "waiting"} => h \in aborted
             /\ handler[h] # "waiting" /\ ongoing # h
  BY <1>4, <1>9, OwnerAlone
<1>10. RouterTypeOK'
  BY <1>1, <1>2, <1>3, <1>7, <1>8 DEF RouterTypeOK
<1>11. CandidateInv'
  BY <1>2, <1>7, <1>8, <1>9 DEF CandidateInv
<1>12. VisibleInv'
  <2>1. kind[g] = "forced" => currentEntry = destination[g]
    BY <1>1, <1>4 DEF CandidateInv
  <2>. QED
    BY <1>2, <1>3, <1>7, <1>8, <2>1 DEF VisibleInv
<1>13. LatestInv'
  <2>1. \A h \in Generations : handler'[h] = "idle" <=> handler[h] = "idle"
    BY <1>2, <1>8
  <2>2. ongoing # NoNavigation => ongoing \in Generations
    BY <1>1 DEF RouterTypeOK
  <2>3. ongoing' # NoNavigation => Latest(ongoing)'
    BY <1>1, <1>3, <2>1, <2>2 DEF LatestInv, Latest
  <2>. QED
    BY <1>1, <1>7, <2>1, <2>3 DEF LatestInv
<1>14. LoadedInv'
  BY <1>1, <1>2, <1>3, <1>8 DEF LoadedInv
<1>15. CacheExact' /\ NoTruncatedTree'
  BY <1>1, <1>2, <1>3 DEF CacheExact, NoTruncatedTree
<1>16. ScreenInv'
  <2>1. /\ publicationOrder = tree[g]
        /\ \A p \in queued \cup {shown} : p.order = tree[g] => p.shows = tree[g]
    BY <1>1, <1>2, <1>4 DEF ScreenInv
  <2>2. tree[g] <= current.order
    BY <1>1, <1>2 DEF ScreenInv
  <2>3. /\ shown = current /\ current.order \in Nat /\ publicationOrder \in Nat
        /\ current.order <= publicationOrder
        /\ \A p \in queued : p.order \in Nat /\ current.order < p.order /\ p.order <= publicationOrder
    BY NaturalOrders DEF IInv, QueueInv
  <2>4. queued = {} /\ shown.order = tree[g]
    BY <2>1, <2>2, <2>3
  <2>5. \A p \in queued \cup {shown} : p.shows = tree[g]
    BY <2>1, <2>4
  <2>. QED
    BY <1>1, <1>2, <1>3, <1>8, <1>9, <2>5 DEF ScreenInv
<1>. QED
  BY <1>10, <1>11, <1>12, <1>13, <1>14, <1>15, <1>16 DEF RouterInv

\* CacheExact of one cache, and its type.
CacheFits(routes) ==
  /\ DOMAIN routes \subseteq Entries
  /\ \A e \in DOMAIN routes :
       /\ routes[e] \in Generations \cup {InitialResponse}
       /\ IF routes[e] = InitialResponse THEN e = FirstEntry
          ELSE destination[routes[e]] = e /\ stream[routes[e]] = "complete"

\* A command that is executed releases no response that is still open, and
\* stores none that is not complete.
LEMMA Executed ==
  ASSUME RouterInv, NEW g \in Generations, NEW command, Execute(command),
         \/ command = NoCommand
         \/ command = Command("ReleaseRoute", g) /\ stream[g] # "open"
         \/ /\ \/ command = CacheCommand("CacheRoute", g, destination[g])
               \/ command = CacheCommand("CacheAndReleaseRoute", g, destination[g])
            /\ stream[g] = "complete"
  PROVE  stream' = stream /\ CacheFits(cache')
<1>1. RouterTypeOK /\ CacheExact
  BY DEF RouterInv
<1>2. CacheFits(cache)
  BY <1>1 DEF CacheFits, CacheExact, RouterTypeOK
<1>3. stream[g] # "open" => Release(g) = stream
  BY <1>1 DEF Release, RouterTypeOK
<1>4. CASE command = NoCommand
  <2>1. command.tag = "None"
    BY <1>4 DEF NoCommand
  <2>2. stream' = stream /\ cache' = cache
    BY <2>1 DEF Execute
  <2>. QED
    BY <1>2, <2>2
<1>5. CASE /\ \/ command = CacheCommand("CacheRoute", g, destination[g])
              \/ command = CacheCommand("CacheAndReleaseRoute", g, destination[g])
           /\ stream[g] = "complete"
  <2>1. stream' = stream /\ cache' = StoreRoute(g, destination[g])
    BY <1>3, <1>5 DEF Execute, CacheCommand
  <2>2. destination[g] \in Entries /\ g # InitialResponse
    BY <1>1, GenerationNumbers DEF RouterTypeOK, InitialResponse
  <2>3. CASE g \in fenced \/ source[g] # g
    BY <1>2, <2>1, <2>3 DEF StoreRoute
  <2>4. CASE ~(g \in fenced \/ source[g] # g)
    <3>1. cache' = [e \in DOMAIN cache \cup {destination[g]} |-> IF e = destination[g] THEN g ELSE cache[e]]
      BY <2>1, <2>4 DEF StoreRoute
    <3>2. /\ DOMAIN cache' = DOMAIN cache \cup {destination[g]}
          /\ \A e \in DOMAIN cache' : cache'[e] = IF e = destination[g] THEN g ELSE cache[e]
      BY <3>1
    <3>3. DOMAIN cache' \subseteq Entries
      BY <1>2, <2>2, <3>2 DEF CacheFits
    <3>4. ASSUME NEW e \in DOMAIN cache'
          PROVE  /\ cache'[e] \in Generations \cup {InitialResponse}
                 /\ IF cache'[e] = InitialResponse THEN e = FirstEntry
                    ELSE destination[cache'[e]] = e /\ stream[cache'[e]] = "complete"
      <4>1. CASE e = destination[g]
        BY <1>5, <2>2, <3>2, <4>1
      <4>2. CASE e # destination[g]
        BY <1>2, <3>2, <4>2 DEF CacheFits
      <4>. QED
        BY <4>1, <4>2
    <3>. QED
      BY <2>1, <3>3, <3>4 DEF CacheFits
  <2>. QED
    BY <2>3, <2>4
<1>6. CASE command = Command("ReleaseRoute", g) /\ stream[g] # "open"
  <2>1. command.tag = "ReleaseRoute" /\ command.gen = g
    BY <1>6 DEF Command
  <2>2. stream' = stream /\ cache' = cache
    BY <1>3, <1>6, <2>1 DEF Execute
  <2>. QED
    BY <1>2, <2>2
<1>. QED
  BY <1>4, <1>5, <1>6

\* What the reducer makes of a history entry that is committed.
LEMMA Arrival ==
  ASSUME RouterInv, NEW g \in Generations, handler[g] \in {"rendered", "retained"},
         NEW e \in Entries, OwnsVisible(router, g) => e = destination[g],
         NEW arrived, arrived = HistoryCommitted(router, g, e)
  PROVE  /\ Accepts(arrived)
         /\ arrived.state \in RouterState
         /\ arrived.state.candidate = router.candidate
         /\ \/ /\ ~OwnsVisible(router, g)
               /\ arrived.state = router /\ arrived.command = NoCommand
            \/ /\ OwnsVisible(router, g)
               /\ arrived.state.visible.tag = "Navigation" /\ arrived.state.visible.gen = g
               /\ arrived.state.visible.entry = destination[g]
               /\ arrived.state.visible.flight = "Streaming"
               /\ arrived.command = NoCommand
            \/ /\ OwnsVisible(router, g) /\ stream[g] = "complete"
               /\ arrived.state.visible = Settled
               /\ arrived.command = CacheCommand("CacheRoute", g, destination[g])
<1>1. RouterTypeOK /\ VisibleInv /\ router \in RouterState
  BY DEF RouterInv, RouterTypeOK
<1>2. CASE ~OwnsVisible(router, g)
  BY <1>1, <1>2 DEF HistoryCommitted, Stale, Becomes, Accepts, NoCommand
<1>3. CASE OwnsVisible(router, g)
  <2>1. router.visible.entry = Pending /\ e = destination[g] /\ e # NoEntry
    BY <1>1, <1>3, GenerationNumbers DEF VisibleInv
  <2>2. router.visible \in [tag : {"Navigation"}, gen : Generations,
                            entry : Entries \cup {NoEntry, Pending}, flight : {"Streaming", "Completed"}]
    BY <1>1, <1>3 DEF OwnsVisible, RouterState, VisibleNavigation, Settled
  <2>3. CASE router.visible.flight = "Streaming"
    <3>1. PICK v : v = [router.visible EXCEPT !.entry = e]
      OBVIOUS
    <3>2. /\ v \in VisibleNavigation
          /\ v.tag = "Navigation" /\ v.gen = g /\ v.entry = e /\ v.flight = "Streaming"
      BY <1>3, <2>2, <2>3, <3>1 DEF VisibleNavigation, OwnsVisible
    <3>3. arrived.command = NoCommand /\ arrived.state = [router EXCEPT !.visible = v]
      BY <1>1, <1>3, <2>1, <2>3, <3>1 DEF HistoryCommitted, Becomes, RouterState
    <3>4. arrived.state \in RouterState /\ arrived.state.visible = v
          /\ arrived.state.candidate = router.candidate
      BY <1>1, <3>2, <3>3 DEF RouterState
    <3>. QED
      BY <1>3, <2>1, <3>2, <3>3, <3>4 DEF Accepts, NoCommand
  <2>4. CASE router.visible.flight # "Streaming"
    <3>1. stream[g] = "complete"
      BY <1>1, <1>3, <2>2, <2>4 DEF VisibleInv
    <3>2. /\ arrived.command = CacheCommand("CacheRoute", g, e)
          /\ arrived.state = [router EXCEPT !.visible = Settled]
      BY <1>3, <2>1, <2>4 DEF HistoryCommitted, Becomes, Settle
    <3>3. arrived.state \in RouterState /\ arrived.state.visible = Settled
          /\ arrived.state.candidate = router.candidate
      BY <1>1, <3>2 DEF RouterState, VisibleNavigation
    <3>. QED
      BY <1>3, <2>1, <3>1, <3>2, <3>3 DEF Accepts, CacheCommand
  <2>. QED
    BY <2>3, <2>4
<1>. QED
  BY <1>2, <1>3

\* What the end of a handler makes of the visible navigation.
Moved(g) ==
  /\ router' \in RouterState /\ router'.candidate = router.candidate
  /\ \/ router' = router
     \/ /\ OwnsVisible(router, g)
        /\ \/ router'.visible = Settled
           \/ /\ router'.visible.tag = "Navigation" /\ router'.visible.gen = g
              /\ router'.visible.entry = destination[g] /\ router'.visible.flight = "Streaming"

LEMMA Arrived ==
  ASSUME RouterInv, NEW g \in Generations, handler[g] \in {"rendered", "retained"},
         NEW e \in Entries, OwnsVisible(router, g) => e = destination[g],
         router' = HistoryCommitted(router, g, e).state,
         Execute(HistoryCommitted(router, g, e).command)
  PROVE  /\ stream' = stream /\ CacheFits(cache')
         /\ Moved(g)
         /\ router' = router => ~OwnsVisible(router, g)
<1>1. PICK arrived : arrived = HistoryCommitted(router, g, e)
  OBVIOUS
<1>2. /\ arrived.state \in RouterState
      /\ arrived.state.candidate = router.candidate
      /\ \/ /\ ~OwnsVisible(router, g)
            /\ arrived.state = router /\ arrived.command = NoCommand
         \/ /\ OwnsVisible(router, g)
            /\ arrived.state.visible.tag = "Navigation" /\ arrived.state.visible.gen = g
            /\ arrived.state.visible.entry = destination[g]
            /\ arrived.state.visible.flight = "Streaming"
            /\ arrived.command = NoCommand
         \/ /\ OwnsVisible(router, g) /\ stream[g] = "complete"
            /\ arrived.state.visible = Settled
            /\ arrived.command = CacheCommand("CacheRoute", g, destination[g])
  BY <1>1, Arrival
<1>3. Execute(arrived.command) /\ router' = arrived.state
  BY <1>1
<1>4. stream' = stream /\ CacheFits(cache')
  BY <1>2, <1>3, Executed
<1>5. Moved(g)
  BY <1>2, <1>3 DEF Moved
<1>6. ASSUME router' = router, OwnsVisible(router, g) PROVE FALSE
  <2>1. router.visible.entry = Pending
    BY <1>6 DEF RouterInv, VisibleInv
  <2>2. destination[g] # Pending
    BY GenerationNumbers DEF RouterInv, RouterTypeOK
  <2>3. router.visible # Settled
    BY <1>6 DEF OwnsVisible, Settled
  <2>. QED
    BY <1>2, <1>3, <1>6, <2>1, <2>2, <2>3
<1>. QED
  BY <1>4, <1>5, <1>6

\* A handler whose tree is on screen goes on, and at most the visible
\* navigation changes with it.
LEMMA RenderedStep ==
  ASSUME IInv, RouterInv, NEW g \in Generations, handler[g] \in {"rendered", "retained"},
         NEW phase \in {"retained", "settled"}, handler' = [handler EXCEPT ![g] = phase],
         stream' = stream, CacheFits(cache'), Moved(g),
         phase = "retained" => router' = router,
         router' = router => phase = "retained" \/ ~OwnsVisible(router, g),
         \/ watchers' = watchers
         \/ watchers' = watchers \cup ({"retirement", "flight"} \X {g}) /\ handler[g] = "rendered",
         ongoing' = ongoing \/ ongoing' = Finished(g),
         \/ UNCHANGED <<currentEntry, history>>
         \/ /\ Drained /\ currentEntry' = destination[g] /\ history' = history \cup {destination[g]}
            /\ \A h \in Generations : ~OwnsCandidate(router, h),
         UNCHANGED <<vars, kind, destination, aborted, source, tree, discarding, fenced, refreshes>>
  PROVE  RouterInv'
<1>1. RouterTypeOK /\ CandidateInv /\ VisibleInv /\ LatestInv /\ LoadedInv
      /\ CacheExact /\ NoTruncatedTree /\ ScreenInv
  BY DEF RouterInv
<1>2. /\ handler' \in [Generations -> Phases]
      /\ \A h \in Generations : handler'[h] = IF h = g THEN phase ELSE handler[h]
  BY <1>1 DEF RouterTypeOK, Phases
<1>3. router' \in RouterState /\ router'.candidate = router.candidate
  BY DEF Moved
<1>4. \A h \in Generations : OwnsCandidate(router', h) <=> OwnsCandidate(router, h)
  BY <1>3 DEF OwnsCandidate
<1>5. \A h \in Generations : h # g => (<<"flight", h>> \in watchers' <=> <<"flight", h>> \in watchers)
  OBVIOUS
<1>6. /\ ongoing' \in Generations \cup {NoNavigation}
      /\ ongoing' # NoNavigation => ongoing' = ongoing
  BY <1>1 DEF RouterTypeOK, Finished
<1>7. UNCHANGED retired
  BY DEF vars, rendererVars
<1>8. RouterTypeOK'
  <2>1. watchers' \subseteq {"retirement", "flight"} \X Generations
    BY <1>1 DEF RouterTypeOK
  <2>2. /\ DOMAIN cache' \subseteq Entries
        /\ \A e \in DOMAIN cache' : cache'[e] \in Generations \cup {InitialResponse}
    BY DEF CacheFits
  <2>3. currentEntry' \in Entries /\ history' \subseteq Entries
    BY <1>1 DEF RouterTypeOK
  <2>. QED
    BY <1>1, <1>2, <1>3, <1>6, <2>1, <2>2, <2>3 DEF RouterTypeOK
<1>9. CandidateInv'
  <2>1. \A h \in Generations : OwnsCandidate(router, h) => currentEntry' = currentEntry
    OBVIOUS
  <2>2. \A h \in Generations : handler'[h] \in {"begun", "loading", "prepared", "waiting"} <=>
                                 handler[h] \in {"begun", "loading", "prepared", "waiting"}
    BY <1>2
  <2>3. \A h \in Generations : handler[h] \in {"begun", "loading", "prepared", "waiting"} =>
                                 handler'[h] = handler[h]
    BY <1>2
  <2>4. \/ router'.candidate = NoCandidate
        \/ \E h \in Generations :
             \/ router'.candidate = [tag |-> "Loading", gen |-> h] /\ handler'[h] \in {"begun", "loading"}
             \/ router'.candidate = [tag |-> "Rendering", gen |-> h] /\ handler'[h] \in {"prepared", "waiting"}
    BY <1>1, <1>3, <2>3 DEF CandidateInv
  <2>5. ASSUME NEW h \in Generations
        PROVE  /\ handler'[h] = "waiting" => OwnsCandidate(router', h) /\ h \notin aborted
               /\ handler'[h] = "prepared" /\ h \notin aborted => OwnsCandidate(router', h)
               /\ OwnsCandidate(router', h) /\ kind[h] = "forced" => currentEntry' = destination[h]
    BY <1>1, <1>2, <1>4, <2>1 DEF CandidateInv
  <2>. QED
    BY <2>4, <2>5 DEF CandidateInv
<1>10. VisibleInv'
  <2>1. ASSUME NEW h \in Generations, OwnsVisible(router', h)
        PROVE  /\ handler'[h] \in {"rendered", "retained", "settled"}
               /\ handler'[h] \in {"rendered", "retained"} => router'.visible.entry = Pending
               /\ handler'[h] = "rendered" => router'.visible.flight = "Streaming"
               /\ handler'[h] = "rendered" /\ kind[h] = "forced" => currentEntry' = destination[h]
               /\ router'.visible.entry # Pending => router'.visible.entry = destination[h]
               /\ router'.visible.flight = "Completed" =>
                    stream[h] = "complete" /\ <<"flight", h>> \notin watchers'
    <3>1. CASE router' = router
      <4>1. OwnsVisible(router, h)
        BY <2>1, <3>1
      <4>2. handler[h] = "rendered" => ~Drained
        BY DEF Drained
      <4>3. CASE h = g
        BY <1>1, <1>2, <3>1, <4>1, <4>3 DEF VisibleInv
      <4>4. CASE h # g
        BY <1>1, <1>2, <1>5, <3>1, <4>1, <4>2, <4>4 DEF VisibleInv
      <4>. QED
        BY <4>3, <4>4
    <3>2. CASE router' # router
      <4>1. /\ h = g /\ phase = "settled"
            /\ router'.visible.entry = destination[g] /\ router'.visible.flight = "Streaming"
        BY <2>1, <3>2 DEF Moved, OwnsVisible, Settled
      <4>. QED
        BY <1>2, <4>1
    <3>. QED
      BY <3>1, <3>2
  <2>. QED
    BY <2>1 DEF VisibleInv
<1>11. LatestInv'
  <2>1. \A h \in Generations : handler'[h] = "idle" <=> handler[h] = "idle"
    BY <1>2
  <2>2. \A h \in Generations : Latest(h)' <=> Latest(h)
    BY <2>1 DEF Latest
  <2>3. ongoing' # NoNavigation => Latest(ongoing)'
    BY <1>1, <1>6, <2>1 DEF LatestInv, Latest
  <2>4. ASSUME NEW h \in Generations, OwnsCandidate(router, h), h \notin aborted
        PROVE  ongoing' = h
    <3>1. h # g
      BY <2>4, Owner
    <3>. QED
      BY <1>1, <2>4, <3>1 DEF LatestInv, Finished
  <2>. QED
    BY <1>1, <1>4, <2>1, <2>2, <2>3, <2>4 DEF LatestInv
<1>12. LoadedInv'
  BY <1>1, <1>2, <1>5 DEF LoadedInv
<1>13. CacheExact' /\ NoTruncatedTree'
  BY <1>1, <1>7 DEF CacheExact, NoTruncatedTree, CacheFits
<1>14. ScreenInv'
  <2>1. \A h \in Generations : ongoing' = h => ongoing = h
    BY <1>6, GenerationNumbers DEF NoNavigation
  <2>. QED
    BY <1>1, <1>2, <2>1, ScreenKept
<1>. QED
  BY <1>8, <1>9, <1>10, <1>11, <1>12, <1>13, <1>14 DEF RouterInv

LEMMA ContinueKeeps ==
  ASSUME IInv, RouterInv, NEW g \in Generations, Continue(g)
  PROVE  RouterInv'
<1>1. RouterTypeOK /\ VisibleInv /\ CacheExact
  BY DEF RouterInv
<1>2. /\ handler[g] = "rendered"
      /\ watchers' = watchers \cup ({"retirement", "flight"} \X {g})
      /\ UNCHANGED <<vars, kind, destination, aborted, source, tree, discarding,
                     currentEntry, history, fenced, refreshes>>
  BY DEF Continue
<1>3. CASE kind[g] = "forced"
  <2>1. /\ router' = HistoryCommitted(router, g, currentEntry).state
        /\ Execute(HistoryCommitted(router, g, currentEntry).command)
        /\ handler' = [handler EXCEPT ![g] = "settled"]
        /\ ongoing' = Finished(g)
    BY <1>3 DEF Continue, Move
  <2>2. currentEntry \in Entries /\ (OwnsVisible(router, g) => currentEntry = destination[g])
    BY <1>1, <1>2, <1>3 DEF RouterTypeOK, VisibleInv
  <2>3. /\ stream' = stream /\ CacheFits(cache')
        /\ Moved(g)
        /\ router' = router => ~OwnsVisible(router, g)
    BY <1>2, <2>1, <2>2, Arrived
  <2>. QED
    BY <1>2, <2>1, <2>3, RenderedStep
<1>4. CASE kind[g] # "forced"
  <2>1. /\ handler' = [handler EXCEPT ![g] = "retained"]
        /\ UNCHANGED <<router, stream, cache, ongoing>>
    BY <1>4 DEF Continue, Move
  <2>2. CacheFits(cache') /\ Moved(g)
    BY <1>1, <2>1 DEF CacheFits, CacheExact, RouterTypeOK, Moved
  <2>. QED
    BY <1>2, <2>1, <2>2, RenderedStep
<1>. QED
  BY <1>3, <1>4

LEMMA CommitHistoryKeeps ==
  ASSUME IInv, RouterInv, NEW g \in Generations, CommitHistory(g)
  PROVE  RouterInv'
<1>1. /\ handler[g] = "retained" /\ ongoing = g /\ Drained
      /\ currentEntry' = destination[g] /\ history' = history \cup {destination[g]}
      /\ router' = HistoryCommitted(router, g, destination[g]).state
      /\ Execute(HistoryCommitted(router, g, destination[g]).command)
      /\ handler' = [handler EXCEPT ![g] = "settled"]
      /\ ongoing' = NoNavigation
      /\ UNCHANGED <<vars, kind, destination, aborted, source, tree, watchers, discarding,
                     fenced, refreshes>>
  BY DEF CommitHistory, Move
<1>2. destination[g] \in Entries
  BY DEF RouterInv, RouterTypeOK
<1>3. /\ stream' = stream /\ CacheFits(cache')
      /\ Moved(g)
      /\ router' = router => ~OwnsVisible(router, g)
  BY <1>1, <1>2, Arrived
<1>4. ongoing' = Finished(g)
  BY <1>1 DEF Finished
<1>5. ASSUME NEW h \in Generations, OwnsCandidate(router, h) PROVE FALSE
  <2>1. handler[h] \in {"begun", "loading", "prepared", "waiting"}
    BY <1>5, Owner
  <2>2. h # g
    BY <1>1, <2>1
  <2>. QED
    BY <1>1, <1>5, <2>2, OwnerAlone
<1>. QED
  BY <1>1, <1>3, <1>4, <1>5, RenderedStep

------------------------------------------------------------------------------
(* Flight streams, and the fibers that outlive the handler.                *)

\* A response that is open ends, or is released behind a retired tree.
StreamEnds(g) ==
  \/ stream'[g] = stream[g]
  \/ stream[g] = "open" /\ stream'[g] \in {"complete", "failed"}
  \/ stream[g] = "open" /\ stream'[g] = "released" /\ tree[g] \in retired

\* The visible navigation stays, unless it settles or its flight completes.
StaysVisible(g) ==
  /\ OwnsVisible(router, g)
  /\ router'.visible.entry = router.visible.entry
  /\ \/ router'.visible.flight = router.visible.flight
     \/ stream[g] = "complete" /\ <<"flight", g>> \notin watchers' /\ handler[g] # "rendered"

\* A handler may return that waited for its discarded tree.
HandlersReturn ==
  /\ handler' \in [Generations -> Phases]
  /\ \A h \in Generations :
       \/ handler'[h] = handler[h]
       \/ handler[h] = "abandoned" /\ handler'[h] = "settled"

LEMMA FiberStep ==
  ASSUME RouterInv, HandlersReturn,
         router' \in RouterState, router'.candidate = router.candidate,
         \A h \in Generations : OwnsVisible(router', h) => StaysVisible(h),
         stream' \in [Generations -> Streams], \A h \in Generations : StreamEnds(h),
         CacheFits(cache'), watchers' \subseteq watchers, discarding' \subseteq discarding,
         UNCHANGED <<vars, kind, destination, aborted, source, tree,
                     browserVars, fenced, refreshes>>
  PROVE  RouterInv'
<1>1. RouterTypeOK /\ CandidateInv /\ VisibleInv /\ LatestInv /\ LoadedInv
      /\ CacheExact /\ NoTruncatedTree /\ ScreenInv
  BY DEF RouterInv
<1>2. UNCHANGED <<ongoing, currentEntry, history, retired>>
  BY DEF browserVars, vars, rendererVars
<1>3. \A h \in Generations : OwnsCandidate(router', h) <=> OwnsCandidate(router, h)
  BY DEF OwnsCandidate
<1>4. \A h \in Generations : stream[h] = "complete" => stream'[h] = "complete"
  BY DEF StreamEnds
<1> /\ handler' \in [Generations -> Phases]
    /\ \A h \in Generations :
         \/ handler'[h] = handler[h]
         \/ handler[h] = "abandoned" /\ handler'[h] = "settled"
  BY DEF HandlersReturn
<1>5. RouterTypeOK'
  BY <1>1, <1>2 DEF RouterTypeOK, CacheFits
<1>6. CandidateInv'
  BY <1>1, <1>2, <1>3 DEF CandidateInv
<1>7. VisibleInv'
  <2>1. ASSUME NEW h \in Generations, OwnsVisible(router', h)
        PROVE  /\ handler'[h] \in {"rendered", "retained", "settled"}
               /\ handler'[h] \in {"rendered", "retained"} => router'.visible.entry = Pending
               /\ handler'[h] = "rendered" => router'.visible.flight = "Streaming"
               /\ handler'[h] = "rendered" /\ kind[h] = "forced" => currentEntry' = destination[h]
               /\ router'.visible.entry # Pending => router'.visible.entry = destination[h]
               /\ router'.visible.flight = "Completed" =>
                    stream'[h] = "complete" /\ <<"flight", h>> \notin watchers'
    <3>1. StaysVisible(h)
      BY <2>1
    <3>2. OwnsVisible(router, h) /\ router'.visible.entry = router.visible.entry
      BY <3>1 DEF StaysVisible
    <3>3. CASE router'.visible.flight = router.visible.flight
      BY <1>1, <1>2, <1>4, <3>2, <3>3 DEF VisibleInv
    <3>4. CASE stream[h] = "complete" /\ <<"flight", h>> \notin watchers' /\ handler[h] # "rendered"
      BY <1>1, <1>2, <1>4, <3>2, <3>4 DEF VisibleInv
    <3>. QED
      BY <3>1, <3>3, <3>4 DEF StaysVisible
  <2>. QED
    BY <2>1 DEF VisibleInv
<1>8. LatestInv'
  <2>1. \A h \in Generations : handler'[h] = "idle" <=> handler[h] = "idle"
    OBVIOUS
  <2>2. \A h \in Generations : Latest(h)' <=> Latest(h)
    BY <2>1 DEF Latest
  <2>3. ongoing' = ongoing /\ ongoing \in Generations \cup {NoNavigation}
    BY <1>1, <1>2 DEF RouterTypeOK
  <2>4. ongoing' # NoNavigation => Latest(ongoing)'
    <3>1. ASSUME NEW h \in Generations, h = ongoing', ongoing' # NoNavigation PROVE Latest(h)'
      BY <1>1, <2>2, <2>3, <3>1 DEF LatestInv
    <3>. QED
      BY <2>3, <3>1 DEF Latest
  <2>. QED
    BY <1>1, <1>3, <2>1, <2>2, <2>3, <2>4 DEF LatestInv
<1>9. LoadedInv'
  <2>1. \A h \in Generations : stream[h] = "none" => stream'[h] = "none"
    BY DEF StreamEnds
  <2>. QED
    BY <1>1, <2>1 DEF LoadedInv
<1>10. CacheExact'
  <2>1. ASSUME NEW e \in DOMAIN cache', cache'[e] # InitialResponse
        PROVE  destination[cache'[e]] = e /\ stream'[cache'[e]] = "complete"
    BY <1>4, <2>1 DEF CacheFits
  <2>2. ASSUME NEW e \in DOMAIN cache', cache'[e] = InitialResponse
        PROVE  e = FirstEntry
    BY <2>2 DEF CacheFits
  <2>. QED
    BY <2>1, <2>2 DEF CacheExact
<1>11. NoTruncatedTree'
  BY <1>1, <1>2 DEF NoTruncatedTree, StreamEnds
<1>12. ScreenInv'
  BY <1>1, <1>2, ScreenKept
<1>. QED
  BY <1>5, <1>6, <1>7, <1>8, <1>9, <1>10, <1>11, <1>12 DEF RouterInv

\* A response that ends, and one released when its tree has retired.
LEMMA StreamSteps ==
  ASSUME RouterInv, NEW g \in Generations,
         \/ FlightEnds(g)
         \/ FinishDiscard(g)
         \/ NoticeRetirement(g)
  PROVE  RouterInv'
<1>1. RouterTypeOK /\ CacheExact /\ router \in RouterState
  BY DEF RouterInv, RouterTypeOK
<1>2. CacheFits(cache)
  BY <1>1 DEF CacheFits, CacheExact, RouterTypeOK
<1>3. ASSUME tree[g] \in retired, stream' = Release(g)
      PROVE  stream' \in [Generations -> Streams] /\ \A h \in Generations : StreamEnds(h)
  <2>1. /\ stream' \in [Generations -> Streams]
        /\ \A h \in Generations :
             stream'[h] = IF h = g /\ stream[g] = "open" THEN "released" ELSE stream[h]
    BY <1>1, <1>3 DEF Release, RouterTypeOK, Streams
  <2>. QED
    BY <1>3, <2>1 DEF StreamEnds
<1>4. ASSUME router' = router, watchers' = watchers
      PROVE  /\ router' \in RouterState /\ router'.candidate = router.candidate
             /\ \A h \in Generations : OwnsVisible(router', h) => StaysVisible(h)
  BY <1>1, <1>4 DEF StaysVisible
<1>5. ASSUME handler' = handler PROVE HandlersReturn
  BY <1>1, <1>5 DEF HandlersReturn, RouterTypeOK
<1>6. CASE FlightEnds(g)
  <2>1. /\ stream[g] = "open"
        /\ \E end \in {"complete", "failed"} : stream' = [stream EXCEPT ![g] = end]
        /\ UNCHANGED <<vars, handlerVars, tree, watchers, discarding, browserVars, cacheVars>>
    BY <1>6 DEF FlightEnds
  <2>2. /\ stream' \in [Generations -> Streams]
        /\ \A h \in Generations : StreamEnds(h)
    BY <1>1, <2>1 DEF RouterTypeOK, Streams, StreamEnds
  <2>. QED
    BY <1>2, <1>4, <1>5, <2>1, <2>2, FiberStep DEF handlerVars, cacheVars
<1>7. CASE FinishDiscard(g)
  <2>1. /\ tree[g] \in retired /\ stream' = Release(g) /\ discarding' = discarding \ {g}
        /\ handler' = [handler EXCEPT ![g] = IF @ = "abandoned" THEN "settled" ELSE @]
        /\ UNCHANGED <<vars, router, kind, destination, aborted, source, tree, watchers,
                       browserVars, cacheVars>>
    BY <1>7 DEF FinishDiscard, ReleaseDiscarded
  <2>2. HandlersReturn
    BY <1>1, <2>1 DEF HandlersReturn, RouterTypeOK, Phases
  <2>. QED
    BY <1>2, <1>3, <1>4, <2>1, <2>2, FiberStep DEF cacheVars
<1>8. CASE NoticeRetirement(g)
  <2>1. /\ tree[g] \in retired /\ stream' = Release(g)
        /\ watchers' = watchers \ {<<"retirement", g>>}
        /\ router' = RenderRetired(router, g).state
        /\ UNCHANGED <<vars, handler, kind, destination, aborted, source, tree, discarding,
                       browserVars, cacheVars>>
    BY <1>8 DEF NoticeRetirement
  <2>2. CASE OwnsVisible(router, g)
    <3>1. router' = [router EXCEPT !.visible = Settled]
      BY <2>1, <2>2 DEF RenderRetired, Becomes, Settle
    <3>2. router' \in RouterState /\ router'.candidate = router.candidate /\ router'.visible = Settled
      BY <1>1, <3>1 DEF RouterState, VisibleNavigation
    <3>3. \A h \in Generations : ~OwnsVisible(router', h)
      BY <3>2 DEF OwnsVisible, Settled
    <3>. QED
      BY <1>2, <1>3, <1>5, <2>1, <3>2, <3>3, FiberStep DEF cacheVars
  <2>3. CASE ~OwnsVisible(router, g)
    <3>1. router' = router
      BY <2>1, <2>3 DEF RenderRetired, Becomes, Stale
    <3>2. \A h \in Generations : OwnsVisible(router', h) => StaysVisible(h)
      BY <3>1 DEF StaysVisible
    <3>. QED
      BY <1>1, <1>2, <1>3, <1>5, <2>1, <3>1, <3>2, FiberStep DEF cacheVars
  <2>. QED
    BY <2>2, <2>3
<1>. QED
  BY <1>6, <1>7, <1>8

\* What the reducer makes of a response whose end is noticed.
LEMMA FlightNoticed ==
  ASSUME RouterInv, NEW g \in Generations, <<"flight", g>> \in watchers
  PROVE  /\ ~OwnsVisible(router, g) =>
              /\ FlightCompleted(router, g) = Stale(router)
              /\ FlightFailed(router, g) = Stale(router)
         /\ OwnsVisible(router, g) =>
              /\ FlightFailed(router, g) = Becomes(Settle(router), Command("ReleaseRoute", g))
              /\ router.visible.entry = Pending =>
                   FlightCompleted(router, g) =
                     Becomes([router EXCEPT !.visible.flight = "Completed"], Command("ReleaseRoute", g))
              /\ router.visible.entry # Pending =>
                   FlightCompleted(router, g) =
                     Becomes(Settle(router), CacheCommand("CacheAndReleaseRoute", g, destination[g]))
<1>1. RouterTypeOK /\ VisibleInv /\ LoadedInv /\ router \in RouterState
  BY DEF RouterInv, RouterTypeOK
<1>2. handler[g] \in {"retained", "settled"}
  BY <1>1 DEF LoadedInv
<1>3. ~OwnsCandidate(router, g)
  <2>1. SUFFICES ASSUME OwnsCandidate(router, g) PROVE FALSE
    OBVIOUS
  <2>2. handler[g] \in {"begun", "loading", "prepared", "waiting"}
    BY <2>1, Owner
  <2>. QED
    BY <1>2, <2>2
<1>4. CASE ~OwnsVisible(router, g)
  BY <1>3, <1>4 DEF FlightCompleted, FlightFailed, CandidateLost
<1>5. CASE OwnsVisible(router, g)
  <2>1. router.visible.flight = "Streaming"
    <3>1. router.visible.flight # "Completed"
      BY <1>1, <1>5 DEF VisibleInv
    <3>2. router.visible \in [tag : {"Navigation"}, gen : Generations,
                              entry : Entries \cup {NoEntry, Pending}, flight : {"Streaming", "Completed"}]
      BY <1>1, <1>5 DEF OwnsVisible, RouterState, VisibleNavigation, Settled
    <3>. QED
      BY <3>1, <3>2
  <2>2. FlightFailed(router, g) = Becomes(Settle(router), Command("ReleaseRoute", g))
    BY <1>5, <2>1 DEF FlightFailed
  <2>3. CASE router.visible.entry = Pending
    BY <1>5, <2>1, <2>2, <2>3 DEF FlightCompleted
  <2>4. CASE router.visible.entry # Pending
    <3>1. router.visible.entry = destination[g] /\ destination[g] # NoEntry
      BY <1>1, <1>5, <2>4, GenerationNumbers DEF VisibleInv, RouterTypeOK
    <3>. QED
      BY <1>5, <2>1, <2>2, <2>4, <3>1 DEF FlightCompleted
  <2>. QED
    BY <1>5, <2>3, <2>4
<1>. QED
  BY <1>4, <1>5

LEMMA NoticeFlightKeeps ==
  ASSUME RouterInv, NEW g \in Generations, NoticeFlight(g)
  PROVE  RouterInv'
<1>1. RouterTypeOK /\ VisibleInv /\ LoadedInv /\ router \in RouterState
  BY DEF RouterInv, RouterTypeOK
<1>2. PICK ended : ended = IF stream[g] = "complete"
                           THEN FlightCompleted(router, g) ELSE FlightFailed(router, g)
  OBVIOUS
<1>3. /\ <<"flight", g>> \in watchers /\ stream[g] # "open"
      /\ watchers' = watchers \ {<<"flight", g>>}
      /\ router' = ended.state
      /\ Execute(ended.command)
      /\ UNCHANGED <<vars, handler, kind, destination, aborted, source, tree, discarding,
                     browserVars, fenced, refreshes>>
  BY <1>2 DEF NoticeFlight
<1>4. handler[g] \in {"retained", "settled"}
  BY <1>1, <1>3 DEF LoadedInv
<1>5. ASSUME stream' = stream, CacheFits(cache'),
             router' \in RouterState, router'.candidate = router.candidate,
             \A h \in Generations : OwnsVisible(router', h) => StaysVisible(h)
      PROVE  RouterInv'
  <2>1. stream' \in [Generations -> Streams] /\ \A h \in Generations : StreamEnds(h)
    BY <1>1, <1>5 DEF RouterTypeOK, StreamEnds
  <2>2. HandlersReturn
    BY <1>1, <1>3 DEF HandlersReturn, RouterTypeOK
  <2>. QED
    BY <1>3, <1>5, <2>1, <2>2, FiberStep
<1>6. ASSUME router' = Settle(router)
      PROVE  /\ router' \in RouterState /\ router'.candidate = router.candidate
             /\ \A h \in Generations : OwnsVisible(router', h) => StaysVisible(h)
  <2>1. router' = [router EXCEPT !.visible = Settled]
    BY <1>6 DEF Settle
  <2>2. router' \in RouterState /\ router'.candidate = router.candidate /\ router'.visible = Settled
    BY <1>1, <2>1 DEF RouterState, VisibleNavigation
  <2>3. \A h \in Generations : ~OwnsVisible(router', h)
    BY <2>2 DEF OwnsVisible, Settled
  <2>. QED
    BY <2>2, <2>3
<1>7. CASE ~OwnsVisible(router, g)
  <2>1. ended = Stale(router)
    BY <1>2, <1>3, <1>7, FlightNoticed
  <2>2. router' = router /\ Execute(NoCommand)
    BY <1>3, <2>1 DEF Stale, Becomes
  <2>3. stream' = stream /\ CacheFits(cache')
    BY <2>2, Executed
  <2>4. \A h \in Generations : OwnsVisible(router', h) => StaysVisible(h)
    BY <2>2 DEF StaysVisible
  <2>. QED
    BY <1>1, <1>5, <2>2, <2>3, <2>4
<1>8. CASE OwnsVisible(router, g) /\ stream[g] # "complete"
  <2>1. ended = Becomes(Settle(router), Command("ReleaseRoute", g))
    BY <1>2, <1>3, <1>8, FlightNoticed
  <2>2. router' = Settle(router) /\ Execute(Command("ReleaseRoute", g))
    BY <1>3, <2>1 DEF Becomes
  <2>3. stream' = stream /\ CacheFits(cache')
    BY <1>3, <2>2, Executed
  <2>. QED
    BY <1>5, <1>6, <2>2, <2>3
<1>9. CASE OwnsVisible(router, g) /\ stream[g] = "complete" /\ router.visible.entry # Pending
  <2>1. ended = Becomes(Settle(router), CacheCommand("CacheAndReleaseRoute", g, destination[g]))
    BY <1>2, <1>3, <1>9, FlightNoticed
  <2>2. /\ router' = Settle(router)
        /\ Execute(CacheCommand("CacheAndReleaseRoute", g, destination[g]))
    BY <1>3, <2>1 DEF Becomes
  <2>3. stream' = stream /\ CacheFits(cache')
    BY <1>9, <2>2, Executed
  <2>. QED
    BY <1>5, <1>6, <2>2, <2>3
<1>10. CASE OwnsVisible(router, g) /\ stream[g] = "complete" /\ router.visible.entry = Pending
  <2>1. ended = Becomes([router EXCEPT !.visible.flight = "Completed"], Command("ReleaseRoute", g))
    BY <1>2, <1>3, <1>10, FlightNoticed
  <2>2. /\ router' = [router EXCEPT !.visible.flight = "Completed"]
        /\ Execute(Command("ReleaseRoute", g))
    BY <1>3, <2>1 DEF Becomes
  <2>3. stream' = stream /\ CacheFits(cache')
    BY <1>3, <2>2, Executed
  <2>4. PICK v : v = [router.visible EXCEPT !.flight = "Completed"]
    OBVIOUS
  <2>5. router.visible \in [tag : {"Navigation"}, gen : Generations,
                            entry : Entries \cup {NoEntry, Pending}, flight : {"Streaming", "Completed"}]
    BY <1>1, <1>10 DEF OwnsVisible, RouterState, VisibleNavigation, Settled
  <2>6. /\ v \in VisibleNavigation
        /\ v.tag = router.visible.tag /\ v.gen = router.visible.gen /\ v.entry = router.visible.entry
    BY <2>4, <2>5 DEF VisibleNavigation
  <2>7. router' = [router EXCEPT !.visible = v]
    BY <1>1, <2>2, <2>4 DEF RouterState
  <2>8. router' \in RouterState /\ router'.candidate = router.candidate /\ router'.visible = v
    BY <1>1, <2>6, <2>7 DEF RouterState
  <2>9. ASSUME NEW h \in Generations, OwnsVisible(router', h) PROVE StaysVisible(h)
    <3>1. h = g
      BY <1>10, <2>6, <2>8, <2>9 DEF OwnsVisible
    <3>. QED
      BY <1>3, <1>4, <1>10, <2>6, <2>8, <3>1 DEF StaysVisible
  <2>. QED
    BY <1>5, <2>3, <2>8, <2>9
<1>. QED
  BY <1>7, <1>8, <1>9, <1>10

------------------------------------------------------------------------------
(* The other owners of route trees and of the cache, and React.            *)

LEMMA OutsideStep ==
  ASSUME RouterInv, ScreenInv', CacheFits(cache'), retired \subseteq retired',
         fenced' \subseteq Generations, refreshes' \subseteq Orders,
         UNCHANGED <<handlerVars, resourceVars, browserVars>>
  PROVE  RouterInv'
<1>1. RouterTypeOK /\ CandidateInv /\ VisibleInv /\ LatestInv /\ LoadedInv
      /\ CacheExact /\ NoTruncatedTree
  BY DEF RouterInv
<1>2. UNCHANGED <<router, handler, kind, destination, aborted, source, tree, stream, watchers,
                  discarding, ongoing, currentEntry, history>>
  BY DEF handlerVars, resourceVars, browserVars
<1>3. RouterTypeOK'
  BY <1>1, <1>2 DEF RouterTypeOK, CacheFits
<1>4. CandidateInv'
  BY <1>1, <1>2 DEF CandidateInv
<1>5. VisibleInv'
  BY <1>1, <1>2 DEF VisibleInv
<1>6. LatestInv'
  BY <1>1, <1>2 DEF LatestInv, Latest
<1>7. LoadedInv'
  BY <1>1, <1>2 DEF LoadedInv
<1>8. CacheExact'
  BY <1>2 DEF CacheExact, CacheFits
<1>9. NoTruncatedTree'
  BY <1>1, <1>2 DEF NoTruncatedTree
<1>. QED
  BY <1>3, <1>4, <1>5, <1>6, <1>7, <1>8, <1>9 DEF RouterInv

LEMMA EmptyCacheFits ==
  ASSUME cache' = [e \in {} |-> e]
  PROVE  CacheFits(cache')
<1>1. DOMAIN cache' = {}
  OBVIOUS
<1>. QED
  BY <1>1 DEF CacheFits

LEMMA CacheStays ==
  ASSUME RouterInv, cache' = cache
  PROVE  CacheFits(cache')
BY DEF RouterInv, RouterTypeOK, CacheExact, CacheFits

\* An awaited render is the candidate of the native navigation.
LEMMA Awaited ==
  ASSUME RouterInv, NEW g \in Generations, handler[g] \in {"prepared", "waiting"}, g \notin aborted
  PROVE  router.candidate.tag = "Rendering" /\ ongoing = g
<1>1. OwnsCandidate(router, g)
  BY DEF RouterInv, CandidateInv
<1>2. ongoing = g
  BY <1>1 DEF RouterInv, LatestInv
<1>3. \/ router.candidate = [tag |-> "Loading", gen |-> g] /\ handler[g] \in {"begun", "loading"}
      \/ router.candidate = [tag |-> "Rendering", gen |-> g] /\ handler[g] \in {"prepared", "waiting"}
  BY <1>1, Owner
<1>. QED
  BY <1>2, <1>3

LEMMA InvalidateCacheKeeps ==
  ASSUME IInv, RouterInv, InvalidateCache
  PROVE  RouterInv'
<1>1. /\ cache' = [e \in {} |-> e] /\ fenced' = Fence
      /\ UNCHANGED <<vars, handlerVars, resourceVars, browserVars, refreshes>>
  BY DEF InvalidateCache
<1>2. ScreenInv'
  BY <1>1, ScreenKept DEF RouterInv, handlerVars, resourceVars, browserVars
<1>3. retired' = retired /\ fenced' \subseteq Generations /\ refreshes' \subseteq Orders
  BY <1>1 DEF vars, rendererVars, Fence, RouterInv, RouterTypeOK
<1>4. CacheFits(cache')
  BY <1>1, EmptyCacheFits
<1>. QED
  BY <1>1, <1>2, <1>3, <1>4, OutsideStep

\* Refreshes wait until no native navigation is under way.
LEMMA RefreshKeeps ==
  ASSUME IInv, RouterInv, Refresh
  PROVE  RouterInv'
<1>1. /\ ongoing = NoNavigation /\ Schedule
      /\ refreshes' = refreshes \cup {publicationOrder + 1}
      /\ cache' = [e \in {} |-> e] /\ fenced' = Fence
      /\ UNCHANGED <<handlerVars, resourceVars, browserVars>>
  BY DEF Refresh
<1>2. /\ publicationOrder' = publicationOrder + 1 /\ publicationOrder' \in Orders
      /\ UNCHANGED <<current, committed, retired, shown>>
  BY <1>1, PublicationsAssumption DEF Schedule, Publish, IInv, TypeOK, Orders
<1>3. \A g \in Generations : ongoing # g
  BY <1>1, GenerationNumbers DEF NoNavigation
<1>4. \A g \in Generations : handler[g] \in {"prepared", "waiting"} => g \in aborted
  BY <1>3, Awaited
<1>5. ScreenInv'
  BY <1>1, <1>2, <1>3, <1>4 DEF ScreenInv, RouterInv, handlerVars, resourceVars, browserVars
<1>6. fenced' \subseteq Generations /\ refreshes' \subseteq Orders
  BY <1>1, <1>2 DEF Fence, RouterInv, RouterTypeOK
<1>7. CacheFits(cache')
  BY <1>1, EmptyCacheFits
<1>. QED
  BY <1>1, <1>2, <1>5, <1>6, <1>7, OutsideStep

\* A refresh is withdrawn before a navigation renders, and shows again what
\* is on screen.
LEMMA WithdrawRefreshKeeps ==
  ASSUME IInv, RouterInv, WithdrawRefresh
  PROVE  RouterInv'
<1>1. PICK t \in refreshes : Discard(t)
  BY DEF WithdrawRefresh
<1>2. router.candidate.tag # "Rendering" /\ UNCHANGED <<handlerVars, resourceVars, browserVars, cacheVars>>
  BY DEF WithdrawRefresh, routerVars
<1>3. /\ queued' = queued \cup {[order |-> publicationOrder + 1, shows |-> current.shows]}
      /\ UNCHANGED <<current, committed, retired, shown>>
  BY <1>1 DEF Discard, Publish
<1>4. \A g \in Generations : handler[g] \in {"prepared", "waiting"} => g \in aborted
  BY <1>2, Awaited
<1>5. shown = current
  BY DEF IInv, QueueInv
<1>6. UNCHANGED <<handler, aborted, tree, ongoing, cache, fenced, refreshes>>
  BY <1>2 DEF handlerVars, resourceVars, browserVars, cacheVars
<1>7. ScreenInv'
  <2>1. ASSUME NEW g \in Generations, handler[g] \in {"rendered", "retained"}, ongoing = g, g \notin aborted
        PROVE  \A p \in queued' \cup {shown'} : p.shows = tree[g]
    BY <1>3, <1>5, <2>1 DEF ScreenInv, RouterInv
  <2>. QED
    BY <1>3, <1>4, <1>6, <2>1 DEF ScreenInv, RouterInv
<1>8. fenced' \subseteq Generations /\ refreshes' \subseteq Orders /\ CacheFits(cache')
  BY <1>6, CacheStays DEF RouterInv, RouterTypeOK
<1>. QED
  BY <1>2, <1>3, <1>7, <1>8, OutsideStep

LEMMA RenderKeeps ==
  ASSUME IInv, RouterInv, Render
  PROVE  RouterInv'
<1>1. UNCHANGED <<handlerVars, resourceVars, browserVars, cacheVars>>
  BY DEF Render, routerVars
<1>2. /\ shown = current /\ current.order \in Nat /\ committed \subseteq Nat
      /\ \A p \in queued : p.order \in Nat /\ current.order < p.order
  BY NaturalOrders DEF IInv, QueueInv, TypeOK, Orders
<1>3. PICK p \in queued \cup {shown} :
        /\ shown' = p /\ current' = p
        /\ queued' \subseteq queued
        /\ committed' = IF p.order = p.shows THEN committed \cup {p.shows} ELSE committed
        /\ retired \subseteq retired' /\ publicationOrder' = publicationOrder
  <2>1. CASE ReactCommits
    BY <2>1 DEF ReactCommits, Commit
  <2>2. CASE ReactRepeatsEffect
    BY <2>2 DEF ReactRepeatsEffect, reactVars, Commit
  <2>. QED
    BY <2>1, <2>2 DEF Render
<1>4. p.order \in Nat /\ current.order <= p.order
  BY <1>2
<1>5. \A t \in committed' : t <= current'.order
  <2>1. \A t \in committed : t <= current.order
    BY DEF RouterInv, ScreenInv
  <2>2. \A t \in committed : t <= p.order
    BY <1>2, <1>4, <2>1
  <2>. QED
    BY <1>3, <1>4, <2>2
<1>6. UNCHANGED <<handler, aborted, tree, ongoing, cache, fenced, refreshes>>
  BY <1>1 DEF handlerVars, resourceVars, browserVars, cacheVars
<1>7. queued' \cup {shown'} \subseteq queued \cup {shown}
  BY <1>3
<1>8. ScreenInv'
  BY <1>3, <1>5, <1>6, <1>7 DEF ScreenInv, RouterInv
<1>9. fenced' \subseteq Generations /\ refreshes' \subseteq Orders /\ CacheFits(cache')
  BY <1>6, CacheStays DEF RouterInv, RouterTypeOK
<1>. QED
  BY <1>1, <1>3, <1>8, <1>9, OutsideStep

------------------------------------------------------------------------------

LEMMA InitRouterInv == RouterInit => RouterInv
<1> SUFFICES ASSUME RouterInit PROVE RouterInv
  OBVIOUS
<1>1. /\ router = [visible |-> Settled, candidate |-> NoCandidate]
      /\ \A g \in Generations : /\ handler[g] = "idle" /\ tree[g] = InitialTree /\ stream[g] = "none"
                                /\ ~OwnsVisible(router, g) /\ ~OwnsCandidate(router, g)
      /\ watchers = {} /\ committed = {} /\ ongoing = NoNavigation
      /\ cache = [e \in {FirstEntry} |-> InitialResponse]
  BY DEF RouterInit, Init, OwnsVisible, OwnsCandidate, Settled, NoCandidate
<1>2. RouterTypeOK
  BY <1>1, GenerationNumbers
  DEF RouterInit, RouterTypeOK, RouterState, VisibleNavigation, NavigationCandidate, Phases, Kinds, Streams
<1>3. CandidateInv /\ VisibleInv /\ LatestInv /\ LoadedInv /\ ScreenInv
  BY <1>1 DEF CandidateInv, VisibleInv, LatestInv, LoadedInv, ScreenInv
<1>4. CacheExact /\ NoTruncatedTree
  BY <1>1 DEF CacheExact, NoTruncatedTree
<1>. QED
  BY <1>2, <1>3, <1>4 DEF RouterInv

LEMMA NextRouterInv == IInv /\ RouterInv /\ [RouterNext]_allVars => RouterInv'
<1> SUFFICES ASSUME IInv, RouterInv, [RouterNext]_allVars PROVE RouterInv'
  OBVIOUS
<1>1. ASSUME NEW g \in Generations, NEW k \in Kinds, NEW e \in Entries, Navigate(g, k, e)
      PROVE  RouterInv'
  BY <1>1, NavigateKeeps
<1>2. ASSUME NEW g \in Generations, StartCached(g) \/ LoadRoute(g)
      PROVE  RouterInv'
  BY <1>2, LoadKeeps
<1>3. ASSUME NEW g \in Generations, StartLoad(g)
      PROVE  RouterInv'
  BY <1>3, StartLoadKeeps
<1>4. ASSUME NEW g \in Generations, LoadDocument(g) \/ LoadFails(g) \/ HandleRejection(g)
      PROVE  RouterInv'
  BY <1>4, LoadEndsKeeps
<1>5. ASSUME NEW g \in Generations, AwaitCommit(g) \/ NativeAbort(g)
      PROVE  RouterInv'
  BY <1>5, AwaitCommitKeeps, NativeAbortKeeps
<1>6. ASSUME NEW g \in Generations, NoticeCommit(g) \/ Continue(g) \/ CommitHistory(g)
      PROVE  RouterInv'
  BY <1>6, NoticeCommitKeeps, ContinueKeeps, CommitHistoryKeeps
<1>7. ASSUME NEW g \in Generations, FlightEnds(g) \/ NoticeRetirement(g) \/ FinishDiscard(g)
      PROVE  RouterInv'
  BY <1>7, StreamSteps
<1>8. ASSUME NEW g \in Generations, NoticeFlight(g)
      PROVE  RouterInv'
  BY <1>8, NoticeFlightKeeps
<1>9. CASE InvalidateCache \/ Refresh \/ WithdrawRefresh \/ Render
  BY <1>9, InvalidateCacheKeeps, RefreshKeeps, WithdrawRefreshKeeps, RenderKeeps
<1>10. CASE UNCHANGED allVars
  <2>1. UNCHANGED <<vars, handlerVars, resourceVars, browserVars, cacheVars>>
    BY <1>10 DEF allVars, routerVars
  <2>2. UNCHANGED <<handler, aborted, tree, ongoing, cache, fenced, refreshes, retired>>
    BY <2>1 DEF handlerVars, resourceVars, browserVars, cacheVars, vars, rendererVars
  <2>3. ScreenInv'
    BY <2>1, <2>2, ScreenKept DEF RouterInv
  <2>4. fenced' \subseteq Generations /\ refreshes' \subseteq Orders /\ CacheFits(cache')
    BY <2>2, CacheStays DEF RouterInv, RouterTypeOK
  <2>. QED
    BY <2>1, <2>2, <2>3, <2>4, OutsideStep
<1>. QED
  BY <1>1, <1>2, <1>3, <1>4, <1>5, <1>6, <1>7, <1>8, <1>9, <1>10 DEF RouterNext

\* The renderer's and the router's invariant hold together, and always.
THEOREM RouterInvariant == RouterSpec => [](IInv /\ RouterInv)
<1>1. RouterInit => RouterInv
  BY InitRouterInv
<1>2. IInv /\ RouterInv /\ [RouterNext]_allVars => RouterInv'
  BY NextRouterInv
<1>. QED
  BY <1>1, <1>2, RendererInvariant, PTL DEF RouterSpec

\* The state of the router, of its handlers and of the route cache keeps its types.
THEOREM RouterTypeCorrect == RouterSpec => []RouterTypeOK
<1>1. RouterInv => RouterTypeOK
  BY DEF RouterInv
<1>. QED
  BY <1>1, RouterInvariant, PTL

\* What the reducer is told, in whatever order handlers, watchers and aborts
\* run, it accepts.
LEMMA AcceptedEvent ==
  ASSUME IInv, RouterInv, NEW g \in Generations
  PROVE  /\ handler[g] \in {"begun", "loading"} =>
              /\ Accepts(RouteLoaded(router, g))
              /\ Accepts(DocumentLoaded(router, g))
              /\ Accepts(FlightFailed(router, g))
         /\ handler[g] = "waiting" => Accepts(RenderCommitted(router, g))
         /\ handler[g] = "rendered" => Accepts(HistoryCommitted(router, g, currentEntry))
         /\ handler[g] = "retained" => Accepts(HistoryCommitted(router, g, destination[g]))
         /\ <<"flight", g>> \in watchers =>
              /\ Accepts(FlightCompleted(router, g))
              /\ Accepts(FlightFailed(router, g))
<1>1. RouterTypeOK /\ CandidateInv /\ VisibleInv
  BY DEF RouterInv
<1>2. ASSUME handler[g] \in {"begun", "loading"}
      PROVE  /\ Accepts(RouteLoaded(router, g))
             /\ Accepts(DocumentLoaded(router, g))
             /\ Accepts(FlightFailed(router, g))
  <2>1. Accepts(DocumentLoaded(router, g)) /\ Accepts(FlightFailed(router, g))
    BY <1>2, LostCandidate
  <2>2. CASE ~OwnsCandidate(router, g)
    BY <2>1, <2>2 DEF RouteLoaded, Accepts, Becomes, Command
  <2>3. CASE OwnsCandidate(router, g)
    <3>1. router.candidate.tag = "Loading"
      <4>1. \/ router.candidate = [tag |-> "Loading", gen |-> g] /\ handler[g] \in {"begun", "loading"}
            \/ router.candidate = [tag |-> "Rendering", gen |-> g] /\ handler[g] \in {"prepared", "waiting"}
        BY <2>3, Owner
      <4>. QED
        BY <1>2, <4>1
    <3>. QED
      BY <2>1, <2>3, <3>1 DEF RouteLoaded, Accepts, Becomes, Command
  <2>. QED
    BY <2>2, <2>3
<1>3. ASSUME handler[g] = "waiting" PROVE Accepts(RenderCommitted(router, g))
  <2>1. OwnsCandidate(router, g) /\ g \notin aborted
    BY <1>1, <1>3 DEF CandidateInv
  <2>2. router.candidate.tag = "Rendering"
    BY <1>3, <2>1, Awaited
  <2>. QED
    BY <2>1, <2>2 DEF RenderCommitted, Accepts, Becomes, NoCommand
<1>4. ASSUME handler[g] = "rendered" PROVE Accepts(HistoryCommitted(router, g, currentEntry))
  <2>1. CASE ~OwnsVisible(router, g)
    BY <2>1 DEF HistoryCommitted, Accepts, Stale, Becomes, NoCommand
  <2>2. CASE OwnsVisible(router, g)
    <3>1. router.visible.entry = Pending /\ router.visible.flight = "Streaming"
      BY <1>1, <1>4, <2>2 DEF VisibleInv
    <3>. QED
      BY <2>2, <3>1 DEF HistoryCommitted, Accepts, Becomes, NoCommand
  <2>. QED
    BY <2>1, <2>2
<1>5. ASSUME handler[g] = "retained" PROVE Accepts(HistoryCommitted(router, g, destination[g]))
  <2>1. destination[g] \in Entries
    BY <1>1 DEF RouterTypeOK
  <2>. QED
    BY <1>5, <2>1, Arrival
<1>6. ASSUME <<"flight", g>> \in watchers
      PROVE  Accepts(FlightCompleted(router, g)) /\ Accepts(FlightFailed(router, g))
  BY <1>6, FlightNoticed DEF Accepts, Stale, Becomes, NoCommand, Command, CacheCommand
<1>. QED
  BY <1>2, <1>3, <1>4, <1>5, <1>6

\* None of the reducer's TypeErrors about events out of order can be thrown.
THEOREM AcceptedEvents == RouterSpec => []EventsAccepted
<1>1. IInv /\ RouterInv => EventsAccepted
  BY AcceptedEvent DEF EventsAccepted
<1>. QED
  BY <1>1, RouterInvariant, PTL

\* The cache answers with a complete response, loaded for the very entry that
\* is traversed to.
THEOREM ExactCache == RouterSpec => []CacheExact
<1>1. RouterInv => CacheExact
  BY DEF RouterInv
<1>. QED
  BY <1>1, RouterInvariant, PTL

\* A Flight response is cut off only behind a tree React cannot show again.
THEOREM UntruncatedTrees == RouterSpec => []NoTruncatedTree
<1>1. RouterInv => NoTruncatedTree
  BY DEF RouterInv
<1>. QED
  BY <1>1, RouterInvariant, PTL

\* The browser commits a history entry only while its own tree is on screen,
\* whatever is refreshed, withdrawn or aborted in between.
THEOREM ScreenMatchesHistory == RouterSpec => []HistoryMatchesScreen
<1>1. RouterInv => HistoryMatchesScreen
  BY DEF RouterInv, ScreenInv, HistoryMatchesScreen
<1>. QED
  BY <1>1, RouterInvariant, PTL
====
