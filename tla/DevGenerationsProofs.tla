------------------------- MODULE DevGenerationsProofs -------------------------
(***************************************************************************)
(* Requests stay inside the generation that admitted them and follow the   *)
(* newest build, what the store offers admits, and no generation leaks,    *)
(* for every number of builds and requests.                                *)
(***************************************************************************)
EXTENDS DevGenerations, SequenceTheorems, TLAPS

\* A startup belongs to the newest build the store has heard of, and to no
\* other; requests wait for it until it replaces the generation or fails.
StartupInv ==
  /\ startup.phase = "none" => startup = NoStartup
  /\ startup # NoStartup =>
       /\ startup.build \in Builds
       /\ startup.build = seen
       /\ generation < seen
  /\ startup.phase \in {"acquiring", "failing"} =>
       services[seen] = "starting" /\ requests[seen] = "none"
  /\ startup.phase = "replacing" => services[seen] = "open" /\ requests[seen] = "open"
  /\ startup.phase \in {"acquiring", "replacing"} => ~Settled(Current)
  /\ startup.phase = "failing" => Current.tag = "failed"
  /\ server = "stopped" => startup = NoStartup

\* The scopes: the installed generation is open until the server has stopped,
\* and admits until its successor takes over; builds to come have none.
ScopeInv ==
  /\ generation <= seen
  /\ generation # 0 /\ server # "stopped" =>
       /\ services[generation] = "open"
       /\ startup.phase # "replacing" => requests[generation] = "open"
       /\ startup.phase = "replacing" => requests[generation] = "closed"
  /\ \A b \in Builds :
       /\ services[b] = "starting" => startup # NoStartup /\ b = seen
       /\ services[b] = "open" =>
            \/ b = generation /\ server # "stopped"
            \/ startup.phase = "replacing" /\ b = seen
       /\ requests[b] = "open" => services[b] = "open"
       /\ services[b] = "none" => requests[b] = "none"
       /\ b > seen => services[b] = "none"

\* Only the current outcome is open; what it settles to is the newest build's.
OutcomeInv ==
  /\ \A i \in 1..Len(outcomes) :
       /\ Settled(outcomes[i]) => outcomes[i].build \in Builds
       /\ i # Len(outcomes) => Settled(outcomes[i])
  /\ Settled(Current) => Current.build = seen
  /\ Current.tag = "ready" => Current.build = generation

\* A request knows an outcome at least as new as what it asked for, and runs
\* only with services that are open.
RequestInv ==
  \A r \in Requests :
    /\ request[r].phase \in {"waiting", "handling", "streaming", "rejected"} =>
         /\ request[r].outcome \in 1..Len(outcomes)
         /\ request[r].asked <= seen
         /\ Settled(OutcomeOf(r)) => OutcomeOf(r).build >= request[r].asked
    /\ request[r].phase \in {"handling", "streaming", "rejected"} => Settled(OutcomeOf(r))
    /\ request[r].owned <=> Active(r)
    /\ Active(r) => OutcomeOf(r).tag = "ready" /\ services[OutcomeOf(r).build] = "open"

\* The watcher is owed the result of the newest build it has heard of.
Owed ==
  /\ seen \in Builds
  /\ services[seen] = "none"
  /\ startup = NoStartup
  /\ ~Settled(Current)

\* Rspack's events: every build begins after the result of the one before it.
Upcoming(event) ==
  \/ event.tag = "Building" /\ event.build = seen + 1
  \/ event.tag \in {"Compiled", "Failed"} /\ event.build = seen /\ Owed

Follows(event, next) ==
  IF event.tag = "Building"
  THEN next.tag \in {"Compiled", "Failed"} /\ next.build = event.build
  ELSE next.tag = "Building" /\ next.build = event.build + 1

Newest(event) ==
  /\ event.build = built
  /\ event.tag = "Building" <=> watchState = "Building"

EventInv ==
  server = "running" =>
    /\ \A i \in 1..Len(events) : i # Len(events) => Follows(events[i], events[i + 1])
    /\ taken # NoEvent => Upcoming(taken)
    /\ events # <<>> => IF taken = NoEvent THEN Upcoming(events[1]) ELSE Follows(taken, events[1])
    /\ events # <<>> => Newest(events[Len(events)])
    /\ events = <<>> /\ taken # NoEvent => Newest(taken)
    /\ events = <<>> /\ taken = NoEvent => seen = built /\ (watchState = "Building" => Owed)

Stopping == server # "running" => taken = NoEvent /\ events = <<>>

IInv ==
  /\ TypeOK
  /\ StartupInv
  /\ ScopeInv
  /\ OutcomeInv
  /\ RequestInv
  /\ EventInv
  /\ Stopping

------------------------------------------------------------------------------
(* The parts actions are made of.                                          *)

StartupStates == [phase : {"none", "acquiring", "replacing", "failing"},
                  build : 0..MaxBuilds, interrupted : BOOLEAN]
OutcomeStates == [tag : {"waiting", "ready", "failed"}, build : 0..MaxBuilds]
EventStates == [tag : Tags, build : Builds]

LEMMA Numbers ==
  /\ 0 \in 0..MaxBuilds
  /\ \A b \in Builds : b \in 0..MaxBuilds /\ b \in Nat /\ b # 0
  /\ \A b \in 0..MaxBuilds : b \in Nat /\ (b # 0 => b \in Builds)
BY DevAssumption DEF Builds

LEMMA StartupFields ==
  /\ NoStartup.phase = "none" /\ NoStartup.build = 0 /\ NoStartup \in StartupStates
  /\ \A phase \in {"acquiring", "replacing", "failing"}, b \in Builds :
       /\ Startup(phase, b) \in StartupStates
       /\ Startup(phase, b).phase = phase /\ Startup(phase, b).build = b
       /\ Startup(phase, b) # NoStartup
BY Numbers DEF NoStartup, Startup, StartupStates

LEMMA EventFields ==
  ASSUME NEW tag, NEW b
  PROVE  Event(tag, b).tag = tag /\ Event(tag, b).build = b
BY DEF Event

\* The current outcome is the last one.
LEMMA CurrentOutcome ==
  ASSUME TypeOK
  PROVE  /\ outcomes \in Seq(OutcomeStates)
         /\ Len(outcomes) \in Nat /\ Len(outcomes) >= 1
         /\ Current = outcomes[Len(outcomes)]
         /\ \A i \in 1..Len(outcomes) : outcomes[i] \in OutcomeStates
<1>1. outcomes \in Seq(OutcomeStates) /\ outcomes # <<>>
  BY DEF TypeOK, OutcomeStates
<1>2. Len(outcomes) \in Nat /\ Len(outcomes) # 0
  BY <1>1, EmptySeq, LenProperties
<1>3. \A i \in 1..Len(outcomes) : outcomes[i] \in OutcomeStates
  BY <1>1, ElementOfSeq
<1>. QED
  BY <1>1, <1>2, <1>3 DEF Current, Last

\* An outcome that requests wait for is settled once, and no other changes.
LEMMA SettledOutcome ==
  ASSUME TypeOK, ~Settled(Current), NEW tag \in {"ready", "failed"}, NEW b \in Builds,
         outcomes' = Settle(tag, b)
  PROVE  /\ outcomes' \in Seq(OutcomeStates) /\ outcomes' # <<>>
         /\ Len(outcomes') = Len(outcomes)
         /\ Current' = outcomes'[Len(outcomes)]
         /\ Current'.tag = tag /\ Current'.build = b
         /\ \A i \in 1..Len(outcomes) : i # Len(outcomes) => outcomes'[i] = outcomes[i]
<1>1. outcomes \in Seq(OutcomeStates) /\ Len(outcomes) \in Nat /\ Len(outcomes) >= 1
  BY CurrentOutcome
<1>2. PICK new \in OutcomeStates : new.tag = tag /\ new.build = b /\ new = Outcome(tag, b)
  BY Numbers DEF Outcome, OutcomeStates
<1>3. outcomes' = [outcomes EXCEPT ![Len(outcomes)] = new]
  BY <1>2 DEF Settle
<1>4. /\ outcomes' \in Seq(OutcomeStates)
      /\ Len(outcomes') = Len(outcomes)
      /\ \A i \in 1..Len(outcomes) :
           outcomes'[i] = IF i = Len(outcomes) THEN new ELSE outcomes[i]
  BY <1>1, <1>2, <1>3, ExceptSeq
<1>5. outcomes' # <<>>
  BY <1>1, <1>4, EmptySeq
<1>. QED
  BY <1>1, <1>2, <1>4, <1>5 DEF Current, Last

\* Once a build begins the current outcome is open.
LEMMA ExpectedOutcome ==
  ASSUME TypeOK, outcomes' = Expect
  PROVE  /\ outcomes' \in Seq(OutcomeStates) /\ outcomes' # <<>>
         /\ Len(outcomes') \in Nat /\ Len(outcomes') >= Len(outcomes)
         /\ ~Settled(Current')
         /\ Current' = outcomes'[Len(outcomes')]
         /\ \A i \in 1..Len(outcomes) : outcomes'[i] = outcomes[i]
         /\ \A i \in 1..Len(outcomes') : i # Len(outcomes') =>
              i \in 1..Len(outcomes) /\ (i = Len(outcomes) => Settled(Current))
<1>1. /\ outcomes \in Seq(OutcomeStates) /\ Len(outcomes) \in Nat /\ Len(outcomes) >= 1
      /\ Current = outcomes[Len(outcomes)]
  BY CurrentOutcome
<1>2. CASE Settled(Current)
  <2>1. PICK new \in OutcomeStates : new.tag = "waiting" /\ new = Outcome("waiting", 0)
    BY Numbers DEF Outcome, OutcomeStates
  <2>2. outcomes' = Append(outcomes, new)
    BY <1>2, <2>1 DEF Expect
  <2>3. /\ outcomes' \in Seq(OutcomeStates)
        /\ Len(outcomes') = Len(outcomes) + 1
        /\ \A i \in 1..Len(outcomes) : outcomes'[i] = outcomes[i]
        /\ outcomes'[Len(outcomes) + 1] = new
    BY <1>1, <2>1, <2>2, AppendProperties
  <2>4. outcomes' # <<>>
    BY <1>1, <2>3, EmptySeq
  <2>. QED
    BY <1>1, <1>2, <2>1, <2>3, <2>4 DEF Current, Last, Settled
<1>3. CASE ~Settled(Current)
  <2>1. outcomes' = outcomes
    BY <1>3 DEF Expect
  <2>. QED
    BY <1>1, <1>3, <2>1 DEF Current, Last, TypeOK
<1>. QED
  BY <1>2, <1>3

\* A step that leaves the store alone.
LEMMA SameStore ==
  ASSUME IInv, UNCHANGED <<seen, startup, storeVars, request, server>>
  PROVE  StartupInv' /\ ScopeInv' /\ OutcomeInv' /\ RequestInv'
BY DEF IInv, StartupInv, ScopeInv, OutcomeInv, RequestInv, Current, OutcomeOf, Active, storeVars

------------------------------------------------------------------------------
(* Rspack.                                                                 *)

LEMMA AppendedEvent ==
  ASSUME IInv, server = "running", NEW event \in EventStates, events' = Append(events, event),
         UNCHANGED <<taken, seen, startup, storeVars, server>>,
         events # <<>> => Follows(events[Len(events)], event),
         events = <<>> /\ taken # NoEvent => Follows(taken, event),
         events = <<>> /\ taken = NoEvent => Upcoming(event),
         Newest(event)'
  PROVE  events' \in Seq(EventStates) /\ EventInv'
<1>1. events \in Seq(EventStates) /\ Len(events) \in Nat
  BY LenProperties DEF IInv, TypeOK, EventStates
<1>2. /\ events' \in Seq(EventStates)
      /\ Len(events') = Len(events) + 1
      /\ \A i \in 1..Len(events) : events'[i] = events[i]
      /\ events'[Len(events) + 1] = event
  BY <1>1, AppendProperties
<1>3. events' # <<>>
  BY <1>1, <1>2, EmptySeq
<1>4. Owed' = Owed
  BY DEF Owed, Current, storeVars
<1>5. EventInv
  BY DEF IInv
<1>6. ASSUME NEW i \in 1..Len(events'), i # Len(events')
      PROVE  Follows(events'[i], events'[i + 1])
  <2>1. i \in 1..Len(events) /\ events'[i] = events[i]
    BY <1>1, <1>2, <1>6
  <2>2. CASE i = Len(events)
    <3>1. events # <<>>
      BY <1>1, <2>1, EmptySeq
    <3>. QED
      BY <1>2, <2>1, <2>2, <3>1
  <2>3. CASE i # Len(events)
    <3>1. events'[i + 1] = events[i + 1]
      BY <1>1, <1>2, <2>1, <2>3
    <3>. QED
      BY <1>5, <2>1, <2>3, <3>1 DEF EventInv
  <2>. QED
    BY <2>2, <2>3
<1>7. taken' # NoEvent => Upcoming(taken)'
  BY <1>4, <1>5 DEF EventInv, Upcoming
<1>8. IF taken' = NoEvent THEN Upcoming(events[1])' ELSE Follows(taken', events'[1])
  <2>1. CASE events = <<>>
    <3>1. events'[1] = event
      BY <1>1, <1>2, <2>1, EmptySeq
    <3>2. Upcoming(event) => Upcoming(events[1])'
      BY <1>4, <3>1 DEF Upcoming
    <3>. QED
      BY <2>1, <3>1, <3>2
  <2>2. CASE events # <<>>
    <3>1. events'[1] = events[1]
      BY <1>1, <1>2, <2>2, EmptySeq
    <3>2. Upcoming(events[1]) => Upcoming(events[1])'
      BY <1>4, <3>1 DEF Upcoming
    <3>. QED
      BY <1>5, <2>2, <3>1, <3>2 DEF EventInv
  <2>. QED
    BY <2>1, <2>2
<1>9. Newest(events[Len(events)])'
  <2>1. events'[Len(events')] = event
    BY <1>1, <1>2
  <2>. QED
    BY <2>1 DEF Newest
<1>. QED
  BY <1>2, <1>3, <1>6, <1>7, <1>8, <1>9 DEF EventInv

------------------------------------------------------------------------------
(* The watcher.                                                            *)

\* What requests rely on: a settled outcome stays, one that settles is that of
\* the newest build, and the services of running requests stay open.
LEMMA RequestsKept ==
  ASSUME IInv, UNCHANGED request, Len(outcomes') \in Nat, Len(outcomes') >= Len(outcomes),
         seen' \in Nat, seen' >= seen,
         \A i \in 1..Len(outcomes) :
           IF Settled(outcomes[i]) THEN outcomes'[i] = outcomes[i]
           ELSE Settled(outcomes'[i]) => outcomes'[i].build = seen,
         \A r \in Requests : Active(r) => services'[OutcomeOf(r).build] = "open"
  PROVE  RequestInv'
<1>1. TypeOK /\ RequestInv
  BY DEF IInv
<1>2. /\ Len(outcomes) \in Nat
      /\ \A i \in 1..Len(outcomes) : outcomes[i].build \in Nat
  BY <1>1, CurrentOutcome, Numbers DEF OutcomeStates
<1>. SUFFICES ASSUME NEW r \in Requests
     PROVE  /\ request[r].phase \in {"waiting", "handling", "streaming", "rejected"} =>
                 /\ request[r].outcome \in 1..Len(outcomes')
                 /\ request[r].asked <= seen'
                 /\ Settled(outcomes'[request[r].outcome]) =>
                      outcomes'[request[r].outcome].build >= request[r].asked
            /\ request[r].phase \in {"handling", "streaming", "rejected"} =>
                 Settled(outcomes'[request[r].outcome])
            /\ request[r].owned <=> Active(r)
            /\ Active(r) => /\ outcomes'[request[r].outcome].tag = "ready"
                            /\ services'[outcomes'[request[r].outcome].build] = "open"
  BY DEF RequestInv, OutcomeOf, Active, Settled
<1>. DEFINE i == request[r].outcome
<1>3. request[r].asked \in Nat /\ seen \in Nat
  BY <1>1, Numbers DEF TypeOK
<1>4. /\ request[r].phase \in {"waiting", "handling", "streaming", "rejected"} =>
           /\ i \in 1..Len(outcomes)
           /\ request[r].asked <= seen
           /\ Settled(outcomes[i]) => outcomes[i].build >= request[r].asked
      /\ request[r].phase \in {"handling", "streaming", "rejected"} => Settled(outcomes[i])
      /\ request[r].owned <=> Active(r)
      /\ Active(r) => outcomes[i].tag = "ready" /\ services'[outcomes[i].build] = "open"
  BY <1>1 DEF RequestInv, OutcomeOf
<1>5. ASSUME request[r].phase \in {"waiting", "handling", "streaming", "rejected"}
      PROVE  /\ i \in 1..Len(outcomes')
             /\ request[r].asked <= seen'
             /\ Settled(outcomes'[i]) => outcomes'[i].build >= request[r].asked
  <2>1. i \in 1..Len(outcomes')
    BY <1>2, <1>4, <1>5
  <2>2. request[r].asked <= seen'
    BY <1>3, <1>4, <1>5
  <2>3. Settled(outcomes'[i]) => outcomes'[i].build >= request[r].asked
    BY <1>3, <1>4, <1>5
  <2>. QED
    BY <2>1, <2>2, <2>3
<1>6. ASSUME request[r].phase \in {"handling", "streaming", "rejected"}
      PROVE  outcomes'[i] = outcomes[i] /\ Settled(outcomes[i])
  BY <1>4, <1>6
<1>. QED
  BY <1>4, <1>5, <1>6 DEF Active

\* The store without a startup: what the next event finds.
LEMMA HandleBuilding ==
  ASSUME IInv, server = "running", startup = NoStartup, NEW event \in EventStates,
         Upcoming(event), event.tag = "Building",
         seen' = event.build, outcomes' = Expect,
         UNCHANGED <<startup, services, generation, requests, request, server>>
  PROVE  /\ outcomes' \in Seq(OutcomeStates) /\ outcomes' # <<>> /\ Len(outcomes') >= Len(outcomes)
         /\ StartupInv' /\ ScopeInv' /\ OutcomeInv' /\ RequestInv' /\ Owed'
<1>1. TypeOK /\ StartupInv /\ ScopeInv /\ OutcomeInv /\ RequestInv
  BY DEF IInv
<1>2. seen \in Nat /\ seen' = seen + 1 /\ seen' \in Builds
  BY <1>1, Numbers DEF TypeOK, Upcoming, EventStates
<1>3. generation \in Nat /\ generation <= seen
  BY <1>1, Numbers DEF TypeOK, ScopeInv
<1>4. /\ Len(outcomes) \in Nat /\ Len(outcomes) >= 1
      /\ Current = outcomes[Len(outcomes)]
      /\ \A i \in 1..Len(outcomes) : outcomes[i] \in OutcomeStates
  BY <1>1, CurrentOutcome
<1>5. /\ outcomes' \in Seq(OutcomeStates) /\ outcomes' # <<>>
      /\ Len(outcomes') \in Nat /\ Len(outcomes') >= Len(outcomes)
      /\ ~Settled(Current')
      /\ Current' = outcomes'[Len(outcomes')]
      /\ \A i \in 1..Len(outcomes) : outcomes'[i] = outcomes[i]
      /\ \A i \in 1..Len(outcomes') : i # Len(outcomes') =>
           i \in 1..Len(outcomes) /\ (i = Len(outcomes) => Settled(Current))
  BY <1>1, ExpectedOutcome
<1>6. StartupInv'
  BY <1>1, StartupFields DEF StartupInv
<1>7. ScopeInv'
  <2>1. generation' <= seen'
    BY <1>2, <1>3
  <2>2. \A b \in Builds : b > seen' => services'[b] = "none"
    BY <1>1, <1>2, Numbers DEF ScopeInv
  <2>. QED
    BY <1>1, <2>1, <2>2, StartupFields DEF ScopeInv
<1>8. OutcomeInv'
  <2>1. ASSUME NEW i \in 1..Len(outcomes')
        PROVE  /\ Settled(outcomes'[i]) => outcomes'[i].build \in Builds
               /\ i # Len(outcomes') => Settled(outcomes'[i])
    BY <1>1, <1>4, <1>5 DEF OutcomeInv, Settled
  <2>. QED
    BY <1>5, <2>1 DEF OutcomeInv, Settled
<1>9. RequestInv'
  <2>1. \A r \in Requests : Active(r) => services'[OutcomeOf(r).build] = "open"
    BY <1>1 DEF RequestInv
  <2>2. \A i \in 1..Len(outcomes) : outcomes'[i] = outcomes[i]
    BY <1>5
  <2>3. seen' \in Nat /\ seen' >= seen
    BY <1>2
  <2>. QED
    BY <1>5, <2>1, <2>2, <2>3, RequestsKept
<1>10. Owed'
  <2>1. services'[seen'] = "none"
    BY <1>1, <1>2 DEF ScopeInv
  <2>. QED
    BY <1>2, <1>5, <2>1 DEF Owed, Settled
<1>. QED
  BY <1>5, <1>6, <1>7, <1>8, <1>9, <1>10

\* The current outcome settles to that of the newest build, which does not
\* become a generation.
LEMMA FailedOutcome ==
  ASSUME IInv, ~Settled(Current), seen \in Builds, outcomes' = Settle("failed", seen),
         UNCHANGED <<request, services, seen>>
  PROVE  /\ outcomes' \in Seq(OutcomeStates) /\ outcomes' # <<>> /\ Len(outcomes') = Len(outcomes)
         /\ Current'.tag = "failed"
         /\ OutcomeInv' /\ RequestInv'
<1>1. TypeOK /\ OutcomeInv /\ RequestInv
  BY DEF IInv
<1>2. /\ Len(outcomes) \in Nat /\ Len(outcomes) >= 1
      /\ Current = outcomes[Len(outcomes)]
  BY <1>1, CurrentOutcome
<1>3. /\ outcomes' \in Seq(OutcomeStates) /\ outcomes' # <<>>
      /\ Len(outcomes') = Len(outcomes)
      /\ Current' = outcomes'[Len(outcomes)]
      /\ Current'.tag = "failed" /\ Current'.build = seen
      /\ \A i \in 1..Len(outcomes) : i # Len(outcomes) => outcomes'[i] = outcomes[i]
  BY <1>1, SettledOutcome
<1>4. OutcomeInv'
  BY <1>1, <1>2, <1>3 DEF OutcomeInv, Settled
<1>5. \A i \in 1..Len(outcomes) :
        IF Settled(outcomes[i]) THEN outcomes'[i] = outcomes[i]
        ELSE Settled(outcomes'[i]) => outcomes'[i].build = seen
  BY <1>1, <1>2, <1>3 DEF OutcomeInv
<1>6. RequestInv'
  <2>1. \A r \in Requests : Active(r) => services'[OutcomeOf(r).build] = "open"
    BY <1>1 DEF RequestInv
  <2>2. seen' \in Nat /\ seen' >= seen
    BY Numbers
  <2>. QED
    BY <1>2, <1>3, <1>5, <2>1, <2>2, RequestsKept
<1>. QED
  BY <1>3, <1>4, <1>6

LEMMA HandleCompiled ==
  ASSUME IInv, server = "running", Owed,
         startup' = Startup("acquiring", seen),
         services' = [services EXCEPT ![seen] = "starting"],
         UNCHANGED <<seen, outcomes, generation, requests, request, server>>
  PROVE  /\ services' \in [Builds -> {"none", "starting", "open", "closed"}]
         /\ StartupInv' /\ ScopeInv' /\ OutcomeInv' /\ RequestInv'
<1>1. TypeOK /\ StartupInv /\ ScopeInv /\ OutcomeInv /\ RequestInv
  BY DEF IInv
<1>2. /\ seen \in Builds /\ services[seen] = "none" /\ startup = NoStartup
      /\ ~Settled(Current)
  BY DEF Owed
<1>3. services \in [Builds -> {"none", "starting", "open", "closed"}]
  BY <1>1 DEF TypeOK
<1>4. /\ services' \in [Builds -> {"none", "starting", "open", "closed"}]
      /\ services'[seen] = "starting"
      /\ \A b \in Builds : b # seen => services'[b] = services[b]
  BY <1>2, <1>3
<1>5. generation \in 0..MaxBuilds /\ generation < seen
  <2>1. generation # seen
    BY <1>1, <1>2, Numbers DEF ScopeInv
  <2>2. generation \in Nat /\ seen \in Nat /\ generation <= seen
    BY <1>1, Numbers DEF ScopeInv, TypeOK
  <2>. QED
    BY <1>1, <2>1, <2>2 DEF TypeOK
<1>6. /\ startup'.phase = "acquiring" /\ startup'.build = seen
      /\ startup' # NoStartup
  BY <1>2, StartupFields
<1>7. requests[seen] = "none"
  BY <1>1, <1>2 DEF ScopeInv
<1>8. Current' = Current
  BY DEF Current
<1>9. StartupInv'
  BY <1>2, <1>4, <1>5, <1>6, <1>7, <1>8 DEF StartupInv, Settled
<1>10. ScopeInv'
  <2>1. generation # 0 /\ server # "stopped" =>
          services'[generation] = "open" /\ requests[generation] = "open"
    <3>1. generation # seen
      BY <1>5
    <3>2. generation # 0 => generation \in Builds
      BY <1>5, Numbers
    <3>. QED
      BY <1>1, <1>2, <1>4, <3>1, <3>2, StartupFields DEF ScopeInv
  <2>2. ASSUME NEW b \in Builds
        PROVE  /\ services'[b] = "starting" => b = seen
               /\ services'[b] = "open" => b = generation /\ server # "stopped"
               /\ requests[b] = "open" => services'[b] = "open"
               /\ services'[b] = "none" => requests[b] = "none"
               /\ b > seen => services'[b] = "none"
    <3>1. CASE b = seen
      BY <1>2, <1>4, <1>7, <3>1 DEF Builds
    <3>2. CASE b # seen
      BY <1>1, <1>2, <1>4, <3>2, StartupFields DEF ScopeInv
    <3>. QED
      BY <3>1, <3>2
  <2>3. generation <= seen
    BY <1>1 DEF ScopeInv
  <2>. QED
    BY <1>6, <2>1, <2>2, <2>3 DEF ScopeInv
<1>11. OutcomeInv'
  BY <1>1, <1>8 DEF OutcomeInv, Settled
<1>12. RequestInv'
  <2>1. ASSUME NEW r \in Requests, Active(r)
        PROVE  services'[OutcomeOf(r).build] = "open"
    <3>1. services[OutcomeOf(r).build] = "open" /\ OutcomeOf(r).build \in Builds
      BY <1>1, <2>1 DEF RequestInv, OutcomeInv, OutcomeOf, Active
    <3>. QED
      BY <1>2, <1>4, <3>1
  <2>2. Len(outcomes) \in Nat
    BY <1>1, CurrentOutcome
  <2>3. \A i \in 1..Len(outcomes) :
          IF Settled(outcomes[i]) THEN outcomes'[i] = outcomes[i]
          ELSE Settled(outcomes'[i]) => outcomes'[i].build = seen
    BY DEF Settled
  <2>4. seen' \in Nat /\ seen' >= seen /\ Len(outcomes') >= Len(outcomes)
    BY <1>2, <2>2, Numbers
  <2>. QED
    BY <2>1, <2>2, <2>3, <2>4, RequestsKept
<1>. QED
  BY <1>4, <1>9, <1>10, <1>11, <1>12

\* An event that is handled is the one the store waits for; so is the next.
LEMMA HandleStep ==
  ASSUME IInv, server = "running", startup = NoStartup, NEW event \in EventStates,
         Upcoming(event), Handle(event),
         UNCHANGED <<generation, requests, request, server>>
  PROVE  /\ seen' \in 0..MaxBuilds
         /\ startup' \in StartupStates
         /\ outcomes' \in Seq(OutcomeStates) /\ outcomes' # <<>> /\ Len(outcomes') >= Len(outcomes)
         /\ services' \in [Builds -> {"none", "starting", "open", "closed"}]
         /\ update' \in [tag : UpdateTags, build : Builds] \cup {Event("Initial", 0)}
         /\ StartupInv' /\ ScopeInv' /\ OutcomeInv' /\ RequestInv'
         /\ seen' = event.build
         /\ event.tag = "Building" => Owed'
         /\ event.tag \in {"Building", "Compiled", "Failed"}
<1>1. TypeOK
  BY DEF IInv
<1>2. /\ seen \in 0..MaxBuilds /\ startup \in StartupStates
      /\ services \in [Builds -> {"none", "starting", "open", "closed"}]
      /\ update \in [tag : UpdateTags, build : Builds] \cup {Event("Initial", 0)}
      /\ outcomes \in Seq(OutcomeStates) /\ outcomes # <<>>
      /\ Len(outcomes) \in Nat
  BY <1>1, CurrentOutcome DEF TypeOK, StartupStates
<1>3. CASE event.tag = "Building"
  <2>1. /\ seen' = event.build /\ outcomes' = Expect
        /\ UNCHANGED <<startup, services, update>>
    BY <1>3 DEF Handle
  <2>2. event.build \in 0..MaxBuilds
    BY Numbers DEF EventStates
  <2>3. /\ outcomes' \in Seq(OutcomeStates) /\ outcomes' # <<>> /\ Len(outcomes') >= Len(outcomes)
        /\ StartupInv' /\ ScopeInv' /\ OutcomeInv' /\ RequestInv' /\ Owed'
    BY <1>3, <2>1, HandleBuilding
  <2>. QED
    BY <1>2, <1>3, <2>1, <2>2, <2>3
<1>4. CASE event.tag = "Failed"
  <2>1. Owed /\ event.build = seen
    BY <1>4 DEF Upcoming
  <2>2. /\ outcomes' = Settle("failed", seen)
        /\ update' = Event("BuildFailed", seen)
        /\ UNCHANGED <<seen, startup, services>>
    BY <1>4, <2>1 DEF Handle, Announce
  <2>3. ~Settled(Current) /\ seen \in Builds
    BY <2>1 DEF Owed
  <2>4. /\ outcomes' \in Seq(OutcomeStates) /\ outcomes' # <<>> /\ Len(outcomes') = Len(outcomes)
        /\ OutcomeInv' /\ RequestInv'
    BY <2>2, <2>3, FailedOutcome
  <2>5. StartupInv'
    BY <2>2, StartupFields DEF StartupInv, IInv
  <2>6. ScopeInv'
    BY <2>2 DEF ScopeInv, IInv
  <2>7. update' \in [tag : UpdateTags, build : Builds]
    BY <2>2, <2>3 DEF Event, UpdateTags
  <2>. QED
    BY <1>2, <1>4, <2>1, <2>2, <2>4, <2>5, <2>6, <2>7
<1>5. CASE event.tag = "Compiled"
  <2>1. Owed /\ event.build = seen
    BY <1>5 DEF Upcoming
  <2>2. /\ startup' = Startup("acquiring", seen)
        /\ services' = [services EXCEPT ![seen] = "starting"]
        /\ UNCHANGED <<seen, outcomes, update>>
    BY <1>5, <2>1 DEF Handle
  <2>3. startup' \in StartupStates
    BY <2>1, <2>2, StartupFields DEF Owed
  <2>4. /\ services' \in [Builds -> {"none", "starting", "open", "closed"}]
        /\ StartupInv' /\ ScopeInv' /\ OutcomeInv' /\ RequestInv'
    BY <2>1, <2>2, HandleCompiled
  <2>. QED
    BY <1>2, <1>5, <2>1, <2>2, <2>3, <2>4
<1>. QED
  BY <1>3, <1>4, <1>5 DEF Handle

\* Requests keep their place in a list of outcomes that grows.
LEMMA LongerOutcomes ==
  ASSUME TypeOK, UNCHANGED request, outcomes' \in Seq(OutcomeStates),
         Len(outcomes') >= Len(outcomes)
  PROVE  request' \in [Requests ->
           [phase : {"idle", "waiting", "handling", "streaming", "done", "rejected"},
            outcome : 0..Len(outcomes'), asked : 0..MaxBuilds, owned : BOOLEAN]]
<1>1. Len(outcomes) \in Nat /\ Len(outcomes') \in Nat
  BY CurrentOutcome, LenProperties
<1>2. 0..Len(outcomes) \subseteq 0..Len(outcomes')
  BY <1>1
<1>. QED
  BY <1>2 DEF TypeOK

\* After an event, the one that follows it.
LEMMA Following ==
  ASSUME NEW event \in EventStates, NEW next \in EventStates, Follows(event, next),
         seen' = event.build, event.tag = "Building" => Owed'
  PROVE  Upcoming(next)'
BY DEF Follows, Upcoming

\* The queue without its first event.
LEMMA Dequeued ==
  ASSUME IInv, server = "running", events # <<>>, events' = Tail(events)
  PROVE  /\ events' \in Seq(EventStates)
         /\ Head(events) = events[1] /\ events[1] \in EventStates
         /\ \A i \in 1..Len(events') : i # Len(events') => Follows(events'[i], events'[i + 1])
         /\ events' # <<>> =>
              /\ events'[1] \in EventStates
              /\ Follows(events[1], events'[1])
              /\ Newest(events[Len(events)]) => events'[Len(events')] = events[Len(events)]
         /\ events' = <<>> => Newest(events[1])
<1>1. events \in Seq(EventStates) /\ Len(events) \in Nat /\ EventInv
  BY LenProperties DEF IInv, TypeOK, EventStates
<1>2. Len(events) # 0
  BY <1>1, EmptySeq
<1>3. /\ events' \in Seq(EventStates) /\ Head(events) = events[1]
      /\ Len(events') = Len(events) - 1
      /\ \A i \in 1..Len(events') : events'[i] = events[i + 1]
  BY <1>1, HeadTailProperties
<1>4. \A i \in 1..Len(events) : events[i] \in EventStates
  BY <1>1, ElementOfSeq
<1>5. events' # <<>> => Len(events') # 0
  BY <1>3, EmptySeq
<1>6. \A i \in 1..Len(events) : i # Len(events) => Follows(events[i], events[i + 1])
  BY <1>1 DEF EventInv
<1>7. ASSUME NEW i \in 1..Len(events'), i # Len(events')
      PROVE  Follows(events'[i], events'[i + 1])
  <2>. DEFINE m == Len(events)
              n == Len(events')
  <2>. m \in Nat /\ n = m - 1
    BY <1>1, <1>3
  <2>. HIDE DEF m, n
  <2>0. i \in 1..n /\ i # n
    BY <1>7 DEF n
  <2>1. i + 1 \in 1..Len(events') /\ i + 1 \in 1..Len(events) /\ i + 1 # Len(events)
    <3>1. i + 1 \in 1..n /\ i + 1 \in 1..m /\ i + 1 # m
      BY <2>0
    <3>. QED
      BY <3>1 DEF m, n
  <2>2. Follows(events[i + 1], events[(i + 1) + 1])
    BY <1>6, <2>1
  <2>3. events'[i] = events[i + 1] /\ events'[i + 1] = events[(i + 1) + 1]
    BY <1>3, <1>7, <2>1
  <2>. QED
    BY <2>2, <2>3
<1>8. ASSUME events' # <<>>
      PROVE  /\ events'[1] \in EventStates
             /\ Follows(events[1], events'[1])
             /\ events'[Len(events')] = events[Len(events)]
  <2>1. 1 \in 1..Len(events') /\ 1 \in 1..Len(events) /\ 1 # Len(events)
        /\ Len(events') \in 1..Len(events') /\ Len(events') + 1 = Len(events)
    BY <1>1, <1>2, <1>3, <1>5, <1>8
  <2>2. events'[1] = events[1 + 1] /\ 1 + 1 \in 1..Len(events)
    BY <1>1, <1>3, <2>1
  <2>3. events'[Len(events')] = events[Len(events') + 1]
    BY <1>3, <2>1
  <2>4. Follows(events[1], events[1 + 1])
    BY <1>6, <2>1
  <2>. QED
    BY <1>4, <2>1, <2>2, <2>3, <2>4
<1>9. events' = <<>> => Len(events) = 1
  <2>1. events' = <<>> => Len(events') = 0
    BY <1>3, EmptySeq
  <2>. QED
    BY <1>1, <1>3, <2>1
<1>10. events' = <<>> => Newest(events[1])
  BY <1>1, <1>9 DEF EventInv
<1>11. events[1] \in EventStates
  BY <1>1, <1>2, <1>4
<1>. QED
  BY <1>3, <1>7, <1>8, <1>10, <1>11

\* A startup that is only marked as interrupted is the same startup.
LEMMA Interrupted ==
  ASSUME IInv, server = "running", server' # "stopped", startup # NoStartup,
         startup' = [startup EXCEPT !.interrupted = TRUE],
         UNCHANGED <<seen, storeVars, request>>
  PROVE  /\ startup' \in StartupStates /\ startup' # NoStartup
         /\ StartupInv' /\ ScopeInv' /\ OutcomeInv' /\ RequestInv'
<1>1. TypeOK /\ StartupInv /\ ScopeInv /\ OutcomeInv /\ RequestInv
  BY DEF IInv
<1>2. startup \in StartupStates
  BY <1>1 DEF TypeOK, StartupStates
<1>3. /\ startup' \in StartupStates
      /\ startup'.phase = startup.phase /\ startup'.build = startup.build
  BY <1>2 DEF StartupStates
<1>4. startup.phase # "none" /\ startup'.phase # "none" /\ startup' # NoStartup
  BY <1>1, <1>3, StartupFields DEF StartupInv
<1>5. StartupInv'
  BY <1>1, <1>3, <1>4 DEF StartupInv, Current, storeVars
<1>6. ScopeInv'
  BY <1>1, <1>3, <1>4 DEF ScopeInv, storeVars
<1>7. OutcomeInv' /\ RequestInv'
  BY <1>1 DEF OutcomeInv, RequestInv, Current, OutcomeOf, Active, storeVars
<1>. QED
  BY <1>3, <1>4, <1>5, <1>6, <1>7

LEMMA TakeEventKeeps ==
  ASSUME IInv, TakeEvent
  PROVE  IInv'
<1>1. TypeOK /\ StartupInv /\ ScopeInv /\ OutcomeInv /\ RequestInv /\ EventInv
  BY DEF IInv
<1>2. /\ server = "running" /\ taken = NoEvent /\ events # <<>> /\ events' = Tail(events)
      /\ UNCHANGED <<rspackVars, generation, requests, request, pending, server>>
  BY DEF TakeEvent
<1>3. /\ events' \in Seq(EventStates)
      /\ Head(events) = events[1] /\ events[1] \in EventStates
      /\ \A i \in 1..Len(events') : i # Len(events') => Follows(events'[i], events'[i + 1])
      /\ events' # <<>> =>
           /\ events'[1] \in EventStates
           /\ Follows(events[1], events'[1])
           /\ Newest(events[Len(events)]) => events'[Len(events')] = events[Len(events)]
      /\ events' = <<>> => Newest(events[1])
  BY <1>2, Dequeued
<1>4. Upcoming(events[1]) /\ Newest(events[Len(events)])
  BY <1>1, <1>2 DEF EventInv
<1>5. events' # <<>> => Newest(events[Len(events)])'
  BY <1>2, <1>3, <1>4 DEF Newest, rspackVars
<1>6. CASE startup = NoStartup
  <2>1. Handle(events[1]) /\ taken' = NoEvent
    BY <1>2, <1>3, <1>6 DEF TakeEvent
  <2>2. /\ seen' \in 0..MaxBuilds
        /\ startup' \in StartupStates
        /\ outcomes' \in Seq(OutcomeStates) /\ outcomes' # <<>> /\ Len(outcomes') >= Len(outcomes)
        /\ services' \in [Builds -> {"none", "starting", "open", "closed"}]
        /\ update' \in [tag : UpdateTags, build : Builds] \cup {Event("Initial", 0)}
        /\ StartupInv' /\ ScopeInv' /\ OutcomeInv' /\ RequestInv'
        /\ seen' = events[1].build
        /\ events[1].tag = "Building" => Owed'
    BY <1>2, <1>3, <1>4, <1>6, <2>1, HandleStep
  <2>3. TypeOK'
    BY <1>1, <1>2, <1>3, <2>1, <2>2, LongerOutcomes DEF TypeOK, StartupStates, OutcomeStates, EventStates, rspackVars
  <2>4. EventInv'
    <3>1. events' # <<>> => Upcoming(events[1])'
      <4>1. ASSUME events' # <<>>
            PROVE  \E next \in EventStates : next = events'[1] /\ Upcoming(next)'
        BY <1>3, <2>2, <4>1, Following
      <4>. QED
        BY <4>1 DEF Upcoming
    <3>2. events' = <<>> => seen' = built' /\ (watchState' = "Building" => Owed')
      BY <1>2, <1>3, <2>2 DEF Newest, rspackVars
    <3>. QED
      BY <1>3, <1>5, <2>1, <3>1, <3>2 DEF EventInv
  <2>5. Stopping'
    BY <1>2 DEF Stopping
  <2>. QED
    BY <2>2, <2>3, <2>4, <2>5 DEF IInv
<1>7. CASE startup # NoStartup
  <2>1. /\ taken' = events[1]
        /\ startup' = [startup EXCEPT !.interrupted = TRUE]
        /\ UNCHANGED <<seen, outcomes, services, update>>
    BY <1>2, <1>3, <1>7 DEF TakeEvent
  <2>2. /\ startup' \in StartupStates /\ startup' # NoStartup
        /\ StartupInv' /\ ScopeInv' /\ OutcomeInv' /\ RequestInv'
    BY <1>2, <1>7, <2>1, Interrupted DEF storeVars
  <2>3. taken' # NoEvent /\ taken' \in [tag : Tags, build : 0..MaxBuilds]
    BY <1>3, <2>1, Numbers, EventFields DEF EventStates, NoEvent
  <2>4. TypeOK'
    BY <1>1, <1>2, <1>3, <2>1, <2>2, <2>3 DEF TypeOK, StartupStates, EventStates, rspackVars
  <2>5. EventInv'
    <3>1. events[1].tag = "Building" /\ events[1].build = seen + 1
      BY <1>4, <1>7 DEF Upcoming, Owed
    <3>2. Upcoming(taken)'
      BY <2>1, <3>1 DEF Upcoming
    <3>3. events' # <<>> => Follows(taken', events'[1])
      BY <1>3, <2>1
    <3>4. events' = <<>> => Newest(taken)'
      BY <1>2, <1>3, <2>1 DEF Newest, rspackVars
    <3>. QED
      BY <1>3, <1>5, <2>3, <3>2, <3>3, <3>4 DEF EventInv
  <2>6. Stopping'
    BY <1>2 DEF Stopping
  <2>. QED
    BY <2>2, <2>4, <2>5, <2>6 DEF IInv
<1>. QED
  BY <1>6, <1>7

LEMMA HandleTakenKeeps ==
  ASSUME IInv, HandleTaken
  PROVE  IInv'
<1>1. TypeOK /\ StartupInv /\ ScopeInv /\ OutcomeInv /\ RequestInv /\ EventInv /\ Stopping
  BY DEF IInv
<1>2. /\ taken # NoEvent /\ startup = NoStartup /\ Handle(taken) /\ taken' = NoEvent
      /\ UNCHANGED <<rspackVars, events, generation, requests, request, pending, server>>
  BY DEF HandleTaken
<1>3. server = "running"
  BY <1>1, <1>2 DEF Stopping
<1>4. Upcoming(taken)
  BY <1>1, <1>2, <1>3 DEF EventInv
<1>5. taken \in EventStates
  <2>1. seen \in Nat /\ taken.build \in 0..MaxBuilds /\ taken \in [tag : Tags, build : 0..MaxBuilds]
    BY <1>1, Numbers DEF TypeOK
  <2>2. taken.build # 0
    BY <1>4, <2>1, Numbers DEF Upcoming, Owed
  <2>. QED
    BY <2>1, <2>2, Numbers DEF EventStates
<1>6. /\ seen' \in 0..MaxBuilds
      /\ startup' \in StartupStates
      /\ outcomes' \in Seq(OutcomeStates) /\ outcomes' # <<>> /\ Len(outcomes') >= Len(outcomes)
      /\ services' \in [Builds -> {"none", "starting", "open", "closed"}]
      /\ update' \in [tag : UpdateTags, build : Builds] \cup {Event("Initial", 0)}
      /\ StartupInv' /\ ScopeInv' /\ OutcomeInv' /\ RequestInv'
      /\ seen' = taken.build
      /\ taken.tag = "Building" => Owed'
  BY <1>2, <1>3, <1>4, <1>5, HandleStep
<1>7. taken' \in [tag : Tags, build : 0..MaxBuilds]
  BY <1>2, Numbers DEF NoEvent, Event, Tags
<1>8. TypeOK'
  BY <1>1, <1>2, <1>6, <1>7, LongerOutcomes DEF TypeOK, StartupStates, OutcomeStates, rspackVars
<1>9. EventInv'
  <2>1. events # <<>> => events[1] \in EventStates
    <3>1. events \in Seq(EventStates)
      BY <1>1 DEF TypeOK, EventStates
    <3>. QED
      BY <3>1, EmptySeq, LenProperties, ElementOfSeq
  <2>2. events # <<>> => Follows(taken, events[1])
    BY <1>1, <1>2, <1>3 DEF EventInv
  <2>3. events # <<>> => Upcoming(events[1])'
    <3>1. ASSUME events # <<>>
          PROVE  \E next \in EventStates : next = events[1] /\ Upcoming(next)'
      BY <1>5, <1>6, <2>1, <2>2, <3>1, Following
    <3>. QED
      BY <1>2, <3>1 DEF Upcoming
  <2>4. events = <<>> => seen' = built' /\ (watchState' = "Building" => Owed')
    BY <1>1, <1>2, <1>3, <1>6 DEF EventInv, Newest, rspackVars
  <2>5. events # <<>> => Newest(events[Len(events)])'
    BY <1>1, <1>2, <1>3 DEF EventInv, Newest, rspackVars
  <2>6. \A i \in 1..Len(events) : i # Len(events) => Follows(events[i], events[i + 1])
    BY <1>1, <1>3 DEF EventInv
  <2>. QED
    BY <1>2, <2>3, <2>4, <2>5, <2>6 DEF EventInv
<1>10. Stopping'
  BY <1>2, <1>3 DEF Stopping
<1>. QED
  BY <1>6, <1>8, <1>9, <1>10 DEF IInv

------------------------------------------------------------------------------
(* The startup.                                                            *)

\* While there is a startup, Rspack owes nothing: the next event is that of a
\* build that begins, whatever becomes of the startup.
LEMMA EventsKept ==
  ASSUME IInv, startup # NoStartup, UNCHANGED <<rspackVars, watchVars, server>>
  PROVE  EventInv' /\ Stopping'
<1>1. EventInv /\ Stopping
  BY DEF IInv
<1>2. \A event : Upcoming(event) => event.tag = "Building" /\ event.build = seen + 1
  BY DEF Upcoming, Owed
<1>. QED
  BY <1>1, <1>2 DEF EventInv, Stopping, Upcoming, Newest, Owed, rspackVars, watchVars

\* What a startup has to say of itself.
LEMMA StartupFacts ==
  ASSUME IInv, startup.phase \in {"acquiring", "replacing", "failing"}
  PROVE  /\ startup # NoStartup /\ server # "stopped"
         /\ startup.build = seen /\ seen \in Builds /\ seen \in Nat
         /\ generation \in Nat /\ generation < seen /\ generation # seen
         /\ generation # 0 => generation \in Builds
         /\ services \in [Builds -> {"none", "starting", "open", "closed"}]
         /\ requests \in [Builds -> {"none", "open", "closed"}]
         /\ Len(outcomes) \in Nat
<1>1. TypeOK /\ StartupInv
  BY DEF IInv
<1>2. startup # NoStartup
  BY StartupFields
<1>3. /\ server # "stopped"
      /\ startup.build = seen /\ seen \in Builds /\ generation < seen
  BY <1>1, <1>2 DEF StartupInv
<1>4. generation \in Nat /\ seen \in Nat /\ (generation # 0 => generation \in Builds)
  BY <1>1, Numbers DEF TypeOK
<1>5. generation # seen
  BY <1>3, <1>4
<1>. QED
  BY <1>1, <1>2, <1>3, <1>4, <1>5, CurrentOutcome DEF TypeOK

LEMMA AcquiredKeeps ==
  ASSUME IInv, Acquired
  PROVE  IInv'
<1>1. TypeOK /\ StartupInv /\ ScopeInv /\ OutcomeInv /\ RequestInv
  BY DEF IInv
<1>2. startup.phase = "acquiring"
  BY DEF Acquired, Acquiring
<1>3. /\ startup # NoStartup /\ server # "stopped"
      /\ startup.build = seen /\ seen \in Builds /\ seen \in Nat
      /\ generation \in Nat /\ generation < seen /\ generation # seen
      /\ generation # 0 => generation \in Builds
      /\ services \in [Builds -> {"none", "starting", "open", "closed"}]
      /\ requests \in [Builds -> {"none", "open", "closed"}]
      /\ Len(outcomes) \in Nat
  BY <1>2, StartupFacts
<1>4. /\ startup' = Startup("replacing", seen)
      /\ services' = [services EXCEPT ![seen] = "open"]
      /\ requests' = [b \in Builds |-> IF b = seen THEN "open"
                                       ELSE IF b = generation THEN "closed" ELSE requests[b]]
      /\ UNCHANGED <<rspackVars, watchVars, outcomes, generation, request, channelVars, server>>
  BY <1>3 DEF Acquired
<1>5. /\ services' \in [Builds -> {"none", "starting", "open", "closed"}]
      /\ services'[seen] = "open"
      /\ \A b \in Builds : b # seen => services'[b] = services[b]
  BY <1>3, <1>4
<1>6. /\ requests' \in [Builds -> {"none", "open", "closed"}]
      /\ requests'[seen] = "open"
      /\ generation # 0 => requests'[generation] = "closed"
      /\ \A b \in Builds : b # seen =>
           IF b = generation THEN requests'[b] = "closed" ELSE requests'[b] = requests[b]
  BY <1>3, <1>4
<1>7. /\ startup' \in StartupStates /\ startup' # NoStartup
      /\ startup'.phase = "replacing" /\ startup'.build = seen
  BY <1>3, <1>4, StartupFields
<1>8. seen' = seen /\ Current' = Current
  BY <1>4 DEF watchVars, Current
<1>9. ~Settled(Current)
  BY <1>1, <1>2 DEF StartupInv
<1>10. StartupInv'
  BY <1>3, <1>4, <1>5, <1>6, <1>7, <1>8, <1>9 DEF StartupInv, Settled
<1>11. ScopeInv'
  <2>1. generation # 0 => services'[generation] = "open" /\ requests'[generation] = "closed"
    BY <1>1, <1>3, <1>5, <1>6 DEF ScopeInv
  <2>2. ASSUME NEW b \in Builds
        PROVE  /\ services'[b] = "starting" => b = seen
               /\ services'[b] = "open" => b = generation \/ b = seen
               /\ requests'[b] = "open" => services'[b] = "open"
               /\ services'[b] = "none" => requests'[b] = "none"
               /\ b > seen => services'[b] = "none"
    <3>1. CASE b = seen
      BY <1>3, <1>5, <3>1
    <3>2. CASE b # seen /\ b = generation
      <4>1. services[b] = "open" /\ b # 0 /\ b <= seen
        BY <1>1, <1>3, <3>2, Numbers DEF ScopeInv
      <4>. QED
        BY <1>3, <1>5, <1>6, <3>2, <4>1
    <3>3. CASE b # seen /\ b # generation
      BY <1>1, <1>2, <1>5, <1>6, <3>3 DEF ScopeInv
    <3>. QED
      BY <3>1, <3>2, <3>3
  <2>3. generation <= seen
    BY <1>1 DEF ScopeInv
  <2>. QED
    BY <1>3, <1>4, <1>7, <1>8, <2>1, <2>2, <2>3 DEF ScopeInv
<1>12. OutcomeInv'
  BY <1>1, <1>4, <1>8 DEF OutcomeInv, Settled
<1>13. RequestInv'
  <2>1. ASSUME NEW r \in Requests, Active(r)
        PROVE  services'[OutcomeOf(r).build] = "open"
    <3>1. services[OutcomeOf(r).build] = "open" /\ OutcomeOf(r).build \in Builds
      BY <1>1, <2>1 DEF RequestInv, OutcomeInv, OutcomeOf, Active
    <3>. QED
      BY <1>5, <3>1
  <2>2. \A i \in 1..Len(outcomes) :
          IF Settled(outcomes[i]) THEN outcomes'[i] = outcomes[i]
          ELSE Settled(outcomes'[i]) => outcomes'[i].build = seen
    BY <1>4 DEF Settled
  <2>3. seen' \in Nat /\ seen' >= seen /\ Len(outcomes') \in Nat /\ Len(outcomes') >= Len(outcomes)
    BY <1>3, <1>4, <1>8
  <2>. QED
    BY <1>4, <2>1, <2>2, <2>3, RequestsKept
<1>14. EventInv' /\ Stopping'
  BY <1>3, <1>4, EventsKept
<1>15. TypeOK'
  BY <1>1, <1>4, <1>5, <1>6, <1>7 DEF TypeOK, StartupStates, rspackVars, watchVars, channelVars
<1>. QED
  BY <1>10, <1>11, <1>12, <1>13, <1>14, <1>15 DEF IInv

LEMMA ReplaceKeeps ==
  ASSUME IInv, Replace
  PROVE  IInv'
<1>1. TypeOK /\ StartupInv /\ ScopeInv /\ OutcomeInv /\ RequestInv
  BY DEF IInv
<1>2. startup.phase = "replacing"
  BY DEF Replace
<1>3. /\ startup # NoStartup /\ server # "stopped"
      /\ startup.build = seen /\ seen \in Builds /\ seen \in Nat
      /\ generation \in Nat /\ generation < seen /\ generation # seen
      /\ generation # 0 => generation \in Builds
      /\ services \in [Builds -> {"none", "starting", "open", "closed"}]
      /\ requests \in [Builds -> {"none", "open", "closed"}]
      /\ Len(outcomes) \in Nat
  BY <1>2, StartupFacts
<1>4. /\ services' = [b \in Builds |-> IF b = generation THEN "closed" ELSE services[b]]
      /\ generation' = seen
      /\ outcomes' = Settle("ready", seen)
      /\ update' = Event(pending, seen)
      /\ startup' = NoStartup
      /\ UNCHANGED <<rspackVars, watchVars, requests, request, pending, server>>
  BY <1>3 DEF Replace, Announce
<1>5. /\ ~Settled(Current)
      /\ services[seen] = "open" /\ requests[seen] = "open"
  BY <1>1, <1>2 DEF StartupInv
<1>6. /\ services' \in [Builds -> {"none", "starting", "open", "closed"}]
      /\ services'[seen] = "open"
      /\ \A b \in Builds :
           IF b = generation THEN services'[b] = "closed" ELSE services'[b] = services[b]
  BY <1>3, <1>4, <1>5
<1>7. /\ Len(outcomes) >= 1
      /\ Current = outcomes[Len(outcomes)]
  BY <1>1, CurrentOutcome
<1>8. /\ outcomes' \in Seq(OutcomeStates) /\ outcomes' # <<>>
      /\ Len(outcomes') = Len(outcomes)
      /\ Current' = outcomes'[Len(outcomes)]
      /\ Current'.tag = "ready" /\ Current'.build = seen
      /\ \A i \in 1..Len(outcomes) : i # Len(outcomes) => outcomes'[i] = outcomes[i]
  BY <1>1, <1>3, <1>4, <1>5, SettledOutcome
<1>9. seen' = seen
  BY <1>4 DEF watchVars
<1>10. StartupInv'
  BY <1>4, StartupFields DEF StartupInv
<1>11. ScopeInv'
  <2>1. ASSUME NEW b \in Builds
        PROVE  /\ services'[b] # "starting"
               /\ services'[b] = "open" => b = seen
               /\ requests[b] = "open" => services'[b] = "open"
               /\ services'[b] = "none" => requests[b] = "none"
               /\ b > seen => services'[b] = "none"
    <3>1. CASE b = generation
      <4>1. requests[b] = "closed" /\ b <= seen
        BY <1>1, <1>2, <1>3, <3>1, Numbers DEF ScopeInv
      <4>. QED
        BY <1>3, <1>6, <3>1, <4>1
    <3>2. CASE b # generation
      BY <1>1, <1>5, <1>6, <3>2 DEF ScopeInv
    <3>. QED
      BY <3>1, <3>2
  <2>. QED
    BY <1>3, <1>4, <1>5, <1>6, <1>9, <2>1, StartupFields DEF ScopeInv
<1>12. OutcomeInv'
  BY <1>1, <1>3, <1>4, <1>7, <1>8, <1>9 DEF OutcomeInv, Settled
<1>13. RequestInv'
  <2>1. ASSUME NEW r \in Requests, Active(r)
        PROVE  services'[OutcomeOf(r).build] = "open"
    <3>1. /\ services[OutcomeOf(r).build] = "open" /\ OutcomeOf(r).build \in Builds
          /\ request[r].owned
      BY <1>1, <2>1 DEF RequestInv, OutcomeInv, OutcomeOf, Active
    <3>2. OutcomeOf(r).build # generation
      BY <3>1 DEF Replace, Owned, OutcomeOf
    <3>. QED
      BY <1>6, <3>1, <3>2
  <2>2. \A i \in 1..Len(outcomes) :
          IF Settled(outcomes[i]) THEN outcomes'[i] = outcomes[i]
          ELSE Settled(outcomes'[i]) => outcomes'[i].build = seen
    BY <1>1, <1>5, <1>7, <1>8 DEF OutcomeInv
  <2>3. seen' \in Nat /\ seen' >= seen /\ Len(outcomes') \in Nat /\ Len(outcomes') >= Len(outcomes)
    BY <1>3, <1>8, <1>9
  <2>. QED
    BY <1>4, <2>1, <2>2, <2>3, RequestsKept
<1>14. EventInv' /\ Stopping'
  BY <1>3, <1>4, EventsKept
<1>15. TypeOK'
  <2>1. update' \in [tag : UpdateTags, build : Builds]
    BY <1>1, <1>3, <1>4 DEF TypeOK, Event, UpdateTags
  <2>2. generation' \in 0..MaxBuilds /\ startup' \in StartupStates
    BY <1>3, <1>4, StartupFields, Numbers
  <2>. QED
    BY <1>1, <1>4, <1>6, <1>8, <2>1, <2>2 DEF TypeOK, StartupStates, OutcomeStates, rspackVars, watchVars
<1>. QED
  BY <1>10, <1>11, <1>12, <1>13, <1>14, <1>15 DEF IInv

LEMMA AcquireFailsKeeps ==
  ASSUME IInv, AcquireFails
  PROVE  IInv'
<1>1. TypeOK /\ StartupInv /\ ScopeInv
  BY DEF IInv
<1>2. startup.phase = "acquiring"
  BY DEF AcquireFails, Acquiring
<1>3. /\ startup # NoStartup /\ server # "stopped"
      /\ startup.build = seen /\ seen \in Builds /\ generation < seen
  BY <1>2, StartupFacts
<1>4. /\ startup' = Startup("failing", seen)
      /\ outcomes' = Settle("failed", seen)
      /\ UNCHANGED <<rspackVars, watchVars, generation, services, requests, request, channelVars, server>>
  BY <1>3 DEF AcquireFails
<1>5. ~Settled(Current) /\ services[seen] = "starting" /\ requests[seen] = "none"
  BY <1>1, <1>2 DEF StartupInv
<1>6. seen' = seen
  BY <1>4 DEF watchVars
<1>7. /\ outcomes' \in Seq(OutcomeStates) /\ outcomes' # <<>> /\ Len(outcomes') = Len(outcomes)
      /\ Current'.tag = "failed"
      /\ OutcomeInv' /\ RequestInv'
  BY <1>3, <1>4, <1>5, <1>6, FailedOutcome
<1>8. /\ startup' \in StartupStates /\ startup' # NoStartup
      /\ startup'.phase = "failing" /\ startup'.build = seen
  BY <1>3, <1>4, StartupFields
<1>9. StartupInv'
  BY <1>3, <1>4, <1>5, <1>6, <1>7, <1>8 DEF StartupInv
<1>10. ScopeInv'
  BY <1>1, <1>2, <1>4, <1>6, <1>8 DEF ScopeInv
<1>11. EventInv' /\ Stopping'
  BY <1>3, <1>4, EventsKept
<1>12. TypeOK'
  BY <1>1, <1>4, <1>7, <1>8 DEF TypeOK, StartupStates, OutcomeStates, rspackVars, watchVars, channelVars
<1>. QED
  BY <1>7, <1>9, <1>10, <1>11, <1>12 DEF IInv

\* The scope of a candidate that is not installed is closed.
LEMMA ClosedCandidate ==
  ASSUME IInv, startup.phase \in {"acquiring", "failing"},
         services' = [services EXCEPT ![startup.build] = "closed"],
         startup' = NoStartup, server' # "stopped",
         UNCHANGED <<seen, outcomes, generation, requests, request>>
  PROVE  /\ services' \in [Builds -> {"none", "starting", "open", "closed"}]
         /\ StartupInv' /\ ScopeInv' /\ OutcomeInv' /\ RequestInv'
<1>1. TypeOK /\ StartupInv /\ ScopeInv /\ OutcomeInv /\ RequestInv
  BY DEF IInv
<1>2. /\ startup # NoStartup /\ server # "stopped"
      /\ startup.build = seen /\ seen \in Builds /\ seen \in Nat
      /\ generation \in Nat /\ generation < seen /\ generation # seen
      /\ generation # 0 => generation \in Builds
      /\ services \in [Builds -> {"none", "starting", "open", "closed"}]
      /\ Len(outcomes) \in Nat
  BY StartupFacts
<1>3. services[seen] = "starting" /\ requests[seen] = "none"
  BY <1>1 DEF StartupInv
<1>4. /\ services' \in [Builds -> {"none", "starting", "open", "closed"}]
      /\ services'[seen] = "closed"
      /\ \A b \in Builds : b # seen => services'[b] = services[b]
  BY <1>2
<1>5. StartupInv'
  BY StartupFields DEF StartupInv
<1>6. ScopeInv'
  <2>1. ASSUME NEW b \in Builds
        PROVE  /\ services'[b] # "starting"
               /\ services'[b] = "open" => b = generation
               /\ requests[b] = "open" => services'[b] = "open"
               /\ services'[b] = "none" => requests[b] = "none"
               /\ b > seen => services'[b] = "none"
    <3>1. CASE b = seen
      BY <1>2, <1>3, <1>4, <3>1
    <3>2. CASE b # seen
      BY <1>1, <1>4, <3>2 DEF ScopeInv
    <3>. QED
      BY <3>1, <3>2
  <2>2. generation # 0 => services'[generation] = "open" /\ requests[generation] = "open"
    BY <1>1, <1>2, <1>4 DEF ScopeInv
  <2>3. generation <= seen
    BY <1>1 DEF ScopeInv
  <2>. QED
    BY <2>1, <2>2, <2>3, StartupFields DEF ScopeInv
<1>7. OutcomeInv'
  BY <1>1 DEF OutcomeInv, Settled, Current
<1>8. RequestInv'
  <2>1. ASSUME NEW r \in Requests, Active(r)
        PROVE  services'[OutcomeOf(r).build] = "open"
    <3>1. services[OutcomeOf(r).build] = "open" /\ OutcomeOf(r).build \in Builds
      BY <1>1, <2>1 DEF RequestInv, OutcomeInv, OutcomeOf, Active
    <3>. QED
      BY <1>3, <1>4, <3>1
  <2>2. \A i \in 1..Len(outcomes) :
          IF Settled(outcomes[i]) THEN outcomes'[i] = outcomes[i]
          ELSE Settled(outcomes'[i]) => outcomes'[i].build = seen
    BY DEF Settled
  <2>3. seen' \in Nat /\ seen' >= seen /\ Len(outcomes') \in Nat /\ Len(outcomes') >= Len(outcomes)
    BY <1>2
  <2>. QED
    BY <2>1, <2>2, <2>3, RequestsKept
<1>. QED
  BY <1>4, <1>5, <1>6, <1>7, <1>8

LEMMA CloseFailedKeeps ==
  ASSUME IInv, CloseFailed
  PROVE  IInv'
<1>1. TypeOK
  BY DEF IInv
<1>2. /\ startup.phase = "failing"
      /\ services' = [services EXCEPT ![startup.build] = "closed"]
      /\ update' = Event("BuildFailed", startup.build)
      /\ startup' = NoStartup
      /\ UNCHANGED <<rspackVars, watchVars, outcomes, generation, requests, request, pending, server>>
  BY DEF CloseFailed, Announce
<1>3. startup # NoStartup /\ server # "stopped" /\ startup.build \in Builds
  BY <1>2, StartupFacts
<1>4. /\ services' \in [Builds -> {"none", "starting", "open", "closed"}]
      /\ StartupInv' /\ ScopeInv' /\ OutcomeInv' /\ RequestInv'
  BY <1>2, <1>3, ClosedCandidate DEF watchVars
<1>5. EventInv' /\ Stopping'
  BY <1>2, <1>3, EventsKept
<1>6. update' \in [tag : UpdateTags, build : Builds]
  BY <1>2, <1>3 DEF Event, UpdateTags
<1>7. TypeOK'
  BY <1>1, <1>2, <1>4, <1>6, StartupFields DEF TypeOK, StartupStates, rspackVars, watchVars
<1>. QED
  BY <1>4, <1>5, <1>7 DEF IInv

LEMMA AbandonKeeps ==
  ASSUME IInv, Abandon
  PROVE  IInv'
<1>1. TypeOK
  BY DEF IInv
<1>2. /\ startup.phase = "acquiring"
      /\ services' = [services EXCEPT ![startup.build] = "closed"]
      /\ startup' = NoStartup
      /\ UNCHANGED <<rspackVars, watchVars, outcomes, generation, requests, request, channelVars, server>>
  BY DEF Abandon, Acquiring
<1>3. startup # NoStartup /\ server # "stopped"
  BY <1>2, StartupFacts
<1>4. /\ services' \in [Builds -> {"none", "starting", "open", "closed"}]
      /\ StartupInv' /\ ScopeInv' /\ OutcomeInv' /\ RequestInv'
  BY <1>2, <1>3, ClosedCandidate DEF watchVars
<1>5. EventInv' /\ Stopping'
  BY <1>2, <1>3, EventsKept
<1>6. TypeOK'
  BY <1>1, <1>2, <1>4, StartupFields DEF TypeOK, StartupStates, rspackVars, watchVars, channelVars
<1>. QED
  BY <1>4, <1>5, <1>6 DEF IInv

\* The queue of a server that stops.
LEMMA EventsDropped ==
  ASSUME server' = "stopping", taken' = NoEvent, events' = <<>>
  PROVE  /\ EventInv' /\ Stopping'
         /\ events' \in Seq(EventStates) /\ taken' \in [tag : Tags, build : 0..MaxBuilds]
<1>1. taken' \in [tag : Tags, build : 0..MaxBuilds]
  BY Numbers DEF NoEvent, Event, Tags
<1>2. events' \in Seq(EventStates)
  BY EmptySeq
<1>. QED
  BY <1>1, <1>2 DEF EventInv, Stopping

LEMMA AcquireDiesKeeps ==
  ASSUME IInv, AcquireDies
  PROVE  IInv'
<1>1. TypeOK
  BY DEF IInv
<1>2. /\ startup.phase = "acquiring"
      /\ server' = "stopping" /\ taken' = NoEvent /\ events' = <<>>
      /\ services' = [services EXCEPT ![startup.build] = "closed"]
      /\ startup' = NoStartup
      /\ UNCHANGED <<rspackVars, seen, outcomes, generation, requests, request, channelVars>>
  BY DEF AcquireDies, Acquiring
<1>3. /\ services' \in [Builds -> {"none", "starting", "open", "closed"}]
      /\ StartupInv' /\ ScopeInv' /\ OutcomeInv' /\ RequestInv'
  BY <1>2, ClosedCandidate
<1>4. /\ EventInv' /\ Stopping'
      /\ events' \in Seq(EventStates) /\ taken' \in [tag : Tags, build : 0..MaxBuilds]
  BY <1>2, EventsDropped
<1>5. TypeOK'
  BY <1>1, <1>2, <1>3, <1>4, StartupFields DEF TypeOK, StartupStates, EventStates, rspackVars, channelVars
<1>. QED
  BY <1>3, <1>4, <1>5 DEF IInv

------------------------------------------------------------------------------
(* Requests.                                                               *)

Running(q) == q.phase \in {"handling", "streaming"}

\* RequestInv of one request.
RequestFits(q) ==
  /\ q.phase \in {"waiting", "handling", "streaming", "rejected"} =>
       /\ q.outcome \in 1..Len(outcomes)
       /\ q.asked <= seen
       /\ Settled(outcomes[q.outcome]) => outcomes[q.outcome].build >= q.asked
  /\ q.phase \in {"handling", "streaming", "rejected"} => Settled(outcomes[q.outcome])
  /\ q.owned <=> Running(q)
  /\ Running(q) => /\ outcomes[q.outcome].tag = "ready"
                   /\ services[outcomes[q.outcome].build] = "open"

RequestStates ==
  [phase : {"idle", "waiting", "handling", "streaming", "done", "rejected"},
   outcome : 0..Len(outcomes), asked : 0..MaxBuilds, owned : BOOLEAN]

LEMMA ChangedRequest ==
  ASSUME IInv, NEW r \in Requests, NEW new \in RequestStates, RequestFits(new),
         request' = [request EXCEPT ![r] = new],
         UNCHANGED <<rspackVars, watchVars, startup, storeVars, channelVars, server>>
  PROVE  IInv'
<1>1. TypeOK /\ StartupInv /\ ScopeInv /\ OutcomeInv /\ RequestInv /\ EventInv /\ Stopping
  BY DEF IInv
<1>2. request \in [Requests -> RequestStates]
  BY <1>1 DEF TypeOK, RequestStates
<1>3. /\ request' \in [Requests -> RequestStates]
      /\ \A s \in Requests : request'[s] = IF s = r THEN new ELSE request[s]
  BY <1>2
<1>4. TypeOK'
  BY <1>1, <1>3 DEF TypeOK, RequestStates, rspackVars, watchVars, storeVars, channelVars
<1>5. StartupInv' /\ ScopeInv' /\ OutcomeInv'
  BY <1>1 DEF StartupInv, ScopeInv, OutcomeInv, Current, watchVars, storeVars
<1>6. RequestInv'
  <2>1. \A s \in Requests : RequestFits(request[s])
    BY <1>1 DEF RequestInv, RequestFits, Running, Active, OutcomeOf
  <2>2. \A s \in Requests : RequestFits(request'[s])
    BY <1>3, <2>1
  <2>3. UNCHANGED <<outcomes, seen, services>>
    BY DEF watchVars, storeVars
  <2>. QED
    BY <2>2, <2>3 DEF RequestInv, RequestFits, Running, Active, OutcomeOf, Settled
<1>7. EventInv' /\ Stopping'
  BY <1>1 DEF EventInv, Stopping, Upcoming, Newest, Owed, Current, rspackVars, watchVars, storeVars
<1>. QED
  BY <1>4, <1>5, <1>6, <1>7 DEF IInv

LEMMA RequestStepKeeps ==
  ASSUME IInv, NEW r \in Requests, RequestStep(r)
  PROVE  IInv'
<1>1. TypeOK /\ ScopeInv /\ OutcomeInv
  BY DEF IInv
<1>2. request \in [Requests -> RequestStates]
  BY <1>1 DEF TypeOK, RequestStates
<1>3. /\ Len(outcomes) \in Nat /\ Len(outcomes) >= 1
      /\ Current = outcomes[Len(outcomes)]
  BY <1>1, CurrentOutcome
<1>4. RequestFits(request[r])
  BY DEF IInv, RequestInv, RequestFits, Running, Active, OutcomeOf
<1>5. UNCHANGED <<rspackVars, watchVars, startup, storeVars, channelVars, server>>
  BY DEF RequestStep, Arrive, Dispatch, Respond, Finish, Cancel, Disconnect
<1>6. request[r] \in RequestStates
  BY <1>2
<1>7. CASE request' = [request EXCEPT ![r] = Request("done")]
  <2>1. PICK new : new = Request("done")
    OBVIOUS
  <2>2. new \in RequestStates /\ new.phase = "done" /\ new.owned = FALSE
    BY <1>3, <2>1, Numbers DEF Request, RequestStates
  <2>3. RequestFits(new)
    BY <2>2 DEF RequestFits, Running
  <2>. QED
    BY <1>5, <1>7, <2>1, <2>2, <2>3, ChangedRequest
<1>8. ASSUME Settled(OutcomeOf(r)), request' = Reject(r),
             request[r].phase \in {"waiting", "handling", "streaming"}
      PROVE  IInv'
  <2>1. PICK new : new = [request[r] EXCEPT !.phase = "rejected", !.owned = FALSE]
    OBVIOUS
  <2>2. /\ new \in RequestStates /\ new.phase = "rejected" /\ new.owned = FALSE
        /\ new.outcome = request[r].outcome /\ new.asked = request[r].asked
    BY <1>6, <2>1 DEF RequestStates
  <2>3. RequestFits(new)
    BY <1>4, <1>8, <2>2 DEF RequestFits, Running, OutcomeOf
  <2>4. request' = [request EXCEPT ![r] = new]
    BY <1>2, <1>8, <2>1 DEF Reject
  <2>. QED
    BY <1>5, <2>2, <2>3, <2>4, ChangedRequest
<1>9. ASSUME NEW phase \in {"handling", "streaming"},
             request' = [request EXCEPT ![r].phase = phase, ![r].owned = TRUE],
             request[r].phase \in {"waiting", "handling"}, Settled(OutcomeOf(r)),
             OutcomeOf(r).tag = "ready", services[OutcomeOf(r).build] = "open"
      PROVE  IInv'
  <2>1. PICK new : new = [request[r] EXCEPT !.phase = phase, !.owned = TRUE]
    OBVIOUS
  <2>2. /\ new \in RequestStates /\ new.phase = phase /\ new.owned = TRUE
        /\ new.outcome = request[r].outcome /\ new.asked = request[r].asked
    BY <1>6, <2>1 DEF RequestStates
  <2>3. RequestFits(new)
    BY <1>4, <1>9, <2>2 DEF RequestFits, Running, OutcomeOf
  <2>4. request' = [request EXCEPT ![r] = new]
    BY <1>2, <1>9, <2>1
  <2>. QED
    BY <1>5, <2>2, <2>3, <2>4, ChangedRequest
<1>10. CASE Arrive(r)
  <2>1. PICK new : new = [phase |-> "waiting", outcome |-> Len(outcomes),
                          asked |-> seen, owned |-> FALSE]
    OBVIOUS
  <2>2. seen \in 0..MaxBuilds /\ Len(outcomes) \in 0..Len(outcomes)
    BY <1>1, <1>3 DEF TypeOK
  <2>3. /\ new \in RequestStates /\ new.phase = "waiting" /\ new.owned = FALSE
        /\ new.outcome = Len(outcomes) /\ new.asked = seen
    BY <2>1, <2>2 DEF RequestStates
  <2>4. seen <= seen /\ Len(outcomes) \in 1..Len(outcomes)
    BY <1>3, <2>2, Numbers
  <2>5. Settled(outcomes[Len(outcomes)]) => outcomes[Len(outcomes)].build >= seen
    BY <1>1, <1>3, <2>2, Numbers DEF OutcomeInv
  <2>6. RequestFits(new)
    BY <2>3, <2>4, <2>5 DEF RequestFits, Running
  <2>7. request' = [request EXCEPT ![r] = new]
    BY <1>10, <2>1 DEF Arrive
  <2>. QED
    BY <1>5, <2>3, <2>6, <2>7, ChangedRequest
<1>11. CASE Dispatch(r)
  <2>1. request[r].phase = "waiting" /\ Settled(OutcomeOf(r))
    BY <1>11 DEF Dispatch
  <2>2. CASE OutcomeOf(r).tag = "ready" /\ requests[OutcomeOf(r).build] = "open"
    <3>1. OutcomeOf(r).build \in Builds
      BY <1>1, <1>4, <2>1 DEF OutcomeInv, OutcomeOf, RequestFits
    <3>2. services[OutcomeOf(r).build] = "open"
      BY <1>1, <2>2, <3>1 DEF ScopeInv
    <3>3. request' = [request EXCEPT ![r].phase = "handling", ![r].owned = TRUE]
      BY <1>11, <2>2 DEF Dispatch
    <3>. QED
      BY <1>9, <2>1, <2>2, <3>2, <3>3
  <2>3. CASE ~(OutcomeOf(r).tag = "ready" /\ requests[OutcomeOf(r).build] = "open")
    BY <1>8, <1>11, <2>1, <2>3 DEF Dispatch
  <2>. QED
    BY <2>2, <2>3
<1>12. CASE Respond(r)
  <2>1. request[r].phase = "handling"
    BY <1>12 DEF Respond
  <2>2. /\ Settled(OutcomeOf(r)) /\ OutcomeOf(r).tag = "ready"
        /\ services[OutcomeOf(r).build] = "open"
    BY <1>4, <2>1 DEF RequestFits, Running, OutcomeOf
  <2>3. request' = [request EXCEPT ![r].phase = "streaming", ![r].owned = TRUE]
    BY <1>12 DEF Respond
  <2>. QED
    BY <1>9, <2>1, <2>2, <2>3
<1>13. CASE Cancel(r)
  <2>1. request[r].phase \in {"handling", "streaming"}
    BY <1>4, <1>6, <1>13 DEF Cancel, RequestFits, Running
  <2>2. Settled(OutcomeOf(r))
    BY <1>4, <2>1 DEF RequestFits, OutcomeOf
  <2>. QED
    BY <1>8, <1>13, <2>1, <2>2 DEF Cancel
<1>14. CASE Finish(r) \/ Disconnect(r)
  BY <1>7, <1>14 DEF Finish, Disconnect, End
<1>. QED
  BY <1>10, <1>11, <1>12, <1>13, <1>14 DEF RequestStep

------------------------------------------------------------------------------
(* Rspack and the shutdown.                                                *)

LEMMA StartBuildingKeeps ==
  ASSUME IInv, StartBuilding
  PROVE  IInv'
<1>1. TypeOK /\ EventInv /\ Stopping
  BY DEF IInv
<1>2. /\ server = "running" /\ watchState = "Idle" /\ built < MaxBuilds
      /\ watchState' = "Building" /\ built' = built + 1
      /\ events' = Append(events, Event("Building", built + 1))
      /\ pending' = "ClientUpdate"
      /\ UNCHANGED <<changed, taken, seen, startup, storeVars, request, update, server>>
  BY DEF StartBuilding
<1>3. built \in Nat /\ seen \in Nat /\ built + 1 \in Builds
  BY <1>1, <1>2, DevAssumption, Numbers DEF TypeOK, Builds
<1>4. PICK event \in EventStates : /\ event = Event("Building", built + 1)
                                   /\ event.tag = "Building" /\ event.build = built + 1
  BY <1>3, EventFields DEF Event, EventStates, Tags
<1>5. \A old : Newest(old) => Follows(old, event)
  BY <1>2, <1>4 DEF Newest, Follows
<1>6. events = <<>> /\ taken = NoEvent => Upcoming(event)
  BY <1>1, <1>2, <1>4 DEF EventInv, Upcoming
<1>7. Newest(event)'
  BY <1>2, <1>4 DEF Newest
<1>8. /\ events # <<>> => Follows(events[Len(events)], event)
      /\ events = <<>> /\ taken # NoEvent => Follows(taken, event)
  BY <1>1, <1>2, <1>5 DEF EventInv
<1>9. events' = Append(events, event)
  BY <1>2, <1>4
<1>10. events' \in Seq(EventStates) /\ EventInv'
  BY <1>2, <1>6, <1>7, <1>8, <1>9, AppendedEvent
<1>11. StartupInv' /\ ScopeInv' /\ OutcomeInv' /\ RequestInv'
  BY <1>2, SameStore
<1>12. TypeOK'
  <2>1. built' \in 0..MaxBuilds /\ pending' \in UpdateTags \ {"BuildFailed"}
    BY <1>2, <1>3, Numbers DEF UpdateTags
  <2>. QED
    BY <1>1, <1>2, <1>10, <2>1 DEF TypeOK, EventStates, storeVars
<1>13. Stopping'
  BY <1>2 DEF Stopping
<1>. QED
  BY <1>10, <1>11, <1>12, <1>13 DEF IInv

LEMMA FinishBuildingKeeps ==
  ASSUME IInv, FinishBuilding
  PROVE  IInv'
<1>1. TypeOK /\ EventInv /\ Stopping
  BY DEF IInv
<1>2. PICK tag \in {"Compiled", "Failed"} : events' = Append(events, Event(tag, built))
  BY DEF FinishBuilding
<1>3. /\ server = "running" /\ watchState = "Building" /\ watchState' = "Idle"
      /\ UNCHANGED <<built, changed, taken, seen, startup, storeVars, request, channelVars, server>>
  BY DEF FinishBuilding
<1>4. built \in Builds
  <2>1. built \in 0..MaxBuilds /\ seen \in Nat
    BY <1>1, Numbers DEF TypeOK
  <2>2. CASE events # <<>>
    <3>1. events \in Seq(EventStates)
      BY <1>1 DEF TypeOK, EventStates
    <3>2. Len(events) \in 1..Len(events)
      BY <2>2, <3>1, EmptySeq
    <3>3. events[Len(events)] \in EventStates
      BY <3>1, <3>2, ElementOfSeq
    <3>4. events[Len(events)].build \in Builds
      BY <3>3 DEF EventStates
    <3>. QED
      BY <1>1, <1>3, <2>2, <3>4 DEF EventInv, Newest
  <2>3. CASE events = <<>> /\ taken # NoEvent
    <3>1. Upcoming(taken) /\ Newest(taken)
      BY <1>1, <1>3, <2>3 DEF EventInv
    <3>2. built # 0
      BY <2>1, <3>1, Numbers DEF Upcoming, Newest, Owed
    <3>. QED
      BY <2>1, <3>2, Numbers
  <2>4. CASE events = <<>> /\ taken = NoEvent
    BY <1>1, <1>3, <2>4 DEF EventInv, Owed
  <2>. QED
    BY <2>2, <2>3, <2>4
<1>5. PICK event \in EventStates : /\ event = Event(tag, built)
                                   /\ event.tag = tag /\ event.build = built
  BY <1>4, EventFields DEF Event, EventStates, Tags
<1>6. \A old : Newest(old) => Follows(old, event)
  BY <1>3, <1>5 DEF Newest, Follows
<1>7. events = <<>> /\ taken = NoEvent => Upcoming(event)
  BY <1>1, <1>3, <1>5 DEF EventInv, Upcoming
<1>8. Newest(event)'
  BY <1>3, <1>5 DEF Newest
<1>9. /\ events # <<>> => Follows(events[Len(events)], event)
      /\ events = <<>> /\ taken # NoEvent => Follows(taken, event)
  BY <1>1, <1>3, <1>6 DEF EventInv
<1>10. events' = Append(events, event)
  BY <1>2, <1>5
<1>11. events' \in Seq(EventStates) /\ EventInv'
  BY <1>3, <1>7, <1>8, <1>9, <1>10, AppendedEvent
<1>12. StartupInv' /\ ScopeInv' /\ OutcomeInv' /\ RequestInv'
  BY <1>3, SameStore
<1>13. TypeOK'
  BY <1>1, <1>3, <1>11 DEF TypeOK, EventStates, storeVars, channelVars
<1>14. Stopping'
  BY <1>3 DEF Stopping
<1>. QED
  BY <1>11, <1>12, <1>13, <1>14 DEF IInv

LEMMA ServerComponentsChangeKeeps ==
  ASSUME IInv, ServerComponentsChange
  PROVE  IInv'
<1>1. TypeOK /\ EventInv /\ Stopping
  BY DEF IInv
<1>2. /\ server = "running" /\ watchState = "Building" /\ built > 1
      /\ changed' = changed \cup {built} /\ pending' = "RscUpdate"
      /\ UNCHANGED <<watchState, built, watchVars, startup, storeVars, request, update, server>>
  BY DEF ServerComponentsChange
<1>3. StartupInv' /\ ScopeInv' /\ OutcomeInv' /\ RequestInv'
  BY <1>2, SameStore DEF watchVars
<1>4. EventInv' /\ Stopping'
  BY <1>1, <1>2 DEF EventInv, Stopping, Upcoming, Newest, Owed, Current, watchVars, storeVars
<1>5. TypeOK'
  <2>1. changed' \subseteq Builds /\ pending' \in UpdateTags \ {"BuildFailed"}
    BY <1>1, <1>2, Numbers DEF TypeOK, UpdateTags
  <2>. QED
    BY <1>1, <1>2, <2>1 DEF TypeOK, watchVars, storeVars
<1>. QED
  BY <1>3, <1>4, <1>5 DEF IInv

LEMMA StopKeeps ==
  ASSUME IInv, Stop
  PROVE  IInv'
<1>1. TypeOK /\ StartupInv
  BY DEF IInv
<1>2. /\ server = "running" /\ server' = "stopping" /\ taken' = NoEvent /\ events' = <<>>
      /\ startup' = [startup EXCEPT !.interrupted = startup # NoStartup]
      /\ UNCHANGED <<rspackVars, seen, storeVars, request, channelVars>>
  BY DEF Stop
<1>3. /\ startup' \in StartupStates
      /\ StartupInv' /\ ScopeInv' /\ OutcomeInv' /\ RequestInv'
  <2>1. CASE startup = NoStartup
    <3>1. startup' = NoStartup
      BY <1>2, <2>1 DEF NoStartup, Startup
    <3>2. StartupInv'
      BY <3>1, StartupFields DEF StartupInv
    <3>3. ScopeInv'
      BY <1>2, <2>1, <3>1 DEF ScopeInv, IInv, storeVars
    <3>4. OutcomeInv' /\ RequestInv'
      BY <1>2 DEF IInv, OutcomeInv, RequestInv, Current, OutcomeOf, Active, storeVars
    <3>. QED
      BY <3>1, <3>2, <3>3, <3>4, StartupFields
  <2>2. CASE startup # NoStartup
    <3>1. startup' = [startup EXCEPT !.interrupted = TRUE]
      BY <1>2, <2>2
    <3>2. server' # "stopped"
      BY <1>2
    <3>. QED
      BY <1>2, <2>2, <3>1, <3>2, Interrupted
  <2>. QED
    BY <2>1, <2>2
<1>4. /\ EventInv' /\ Stopping'
      /\ events' \in Seq(EventStates) /\ taken' \in [tag : Tags, build : 0..MaxBuilds]
  BY <1>2, EventsDropped
<1>5. TypeOK'
  BY <1>1, <1>2, <1>3, <1>4 DEF TypeOK, StartupStates, EventStates, rspackVars, storeVars, channelVars
<1>. QED
  BY <1>3, <1>4, <1>5 DEF IInv

LEMMA ReleaseKeeps ==
  ASSUME IInv, Release
  PROVE  IInv'
<1>1. TypeOK /\ StartupInv /\ ScopeInv /\ OutcomeInv /\ RequestInv /\ Stopping
  BY DEF IInv
<1>2. /\ server = "stopping" /\ startup = NoStartup /\ server' = "stopped"
      /\ \A r \in Requests : request[r].phase # "waiting" /\ ~Active(r)
      /\ requests' = [b \in Builds |-> IF b = generation THEN "closed" ELSE requests[b]]
      /\ services' = [b \in Builds |-> IF b = generation THEN "closed" ELSE services[b]]
      /\ UNCHANGED <<rspackVars, watchVars, startup, outcomes, generation, request, channelVars>>
  BY DEF Release
<1>3. /\ requests' \in [Builds -> {"none", "open", "closed"}]
      /\ services' \in [Builds -> {"none", "starting", "open", "closed"}]
      /\ \A b \in Builds :
           IF b = generation THEN requests'[b] = "closed" /\ services'[b] = "closed"
           ELSE requests'[b] = requests[b] /\ services'[b] = services[b]
  BY <1>1, <1>2 DEF TypeOK
<1>4. seen' = seen /\ seen \in Nat /\ generation \in Nat /\ Len(outcomes) \in Nat
  BY <1>1, <1>2, Numbers, CurrentOutcome DEF TypeOK, watchVars
<1>5. StartupInv'
  BY <1>2, StartupFields DEF StartupInv
<1>6. ScopeInv'
  <2>1. ASSUME NEW b \in Builds
        PROVE  /\ services'[b] \notin {"starting", "open"}
               /\ requests'[b] # "open"
               /\ services'[b] = "none" => requests'[b] = "none"
               /\ b > seen => services'[b] = "none"
    <3>1. CASE b = generation
      <4>1. b <= seen
        BY <1>1, <3>1 DEF ScopeInv
      <4>. QED
        BY <1>3, <1>4, <3>1, <4>1
    <3>2. CASE b # generation
      BY <1>1, <1>2, <1>3, <3>2, StartupFields DEF ScopeInv
    <3>. QED
      BY <3>1, <3>2
  <2>2. generation <= seen
    BY <1>1 DEF ScopeInv
  <2>. QED
    BY <1>2, <1>4, <2>1, <2>2 DEF ScopeInv
<1>7. OutcomeInv'
  BY <1>1, <1>2, <1>4 DEF OutcomeInv, Settled, Current
<1>8. RequestInv'
  <2>1. \A r \in Requests : Active(r) => services'[OutcomeOf(r).build] = "open"
    BY <1>2
  <2>2. \A i \in 1..Len(outcomes) :
          IF Settled(outcomes[i]) THEN outcomes'[i] = outcomes[i]
          ELSE Settled(outcomes'[i]) => outcomes'[i].build = seen
    BY <1>2 DEF Settled
  <2>3. seen' \in Nat /\ seen' >= seen /\ Len(outcomes') \in Nat /\ Len(outcomes') >= Len(outcomes)
    BY <1>2, <1>4
  <2>. QED
    BY <1>2, <2>1, <2>2, <2>3, RequestsKept
<1>9. EventInv' /\ Stopping'
  BY <1>1, <1>2 DEF EventInv, Stopping, watchVars
<1>10. TypeOK'
  BY <1>1, <1>2, <1>3 DEF TypeOK, rspackVars, watchVars, channelVars
<1>. QED
  BY <1>5, <1>6, <1>7, <1>8, <1>9, <1>10 DEF IInv

------------------------------------------------------------------------------
(* The invariant.                                                          *)

LEMMA InitIInv == Init => IInv
<1>. SUFFICES ASSUME Init PROVE IInv
  OBVIOUS
<1>. USE DEF Init
<1>1. PICK first \in OutcomeStates : first.tag = "waiting" /\ first = Outcome("waiting", 0)
  BY Numbers DEF Outcome, OutcomeStates
<1>2. outcomes = <<first>>
  BY <1>1
<1>3. /\ outcomes \in Seq(OutcomeStates) /\ outcomes # <<>> /\ Len(outcomes) = 1
      /\ outcomes[1] = first /\ Current = first
  BY <1>1, <1>2 DEF Current, Last
<1>4. request \in [Requests -> RequestStates] /\ \A r \in Requests : request[r].phase = "idle" /\ request[r].owned = FALSE
  BY <1>3, Numbers DEF Request, RequestStates
<1>5. events \in Seq(EventStates)
  BY EmptySeq
<1>6. taken \in [tag : Tags, build : 0..MaxBuilds]
  BY Numbers DEF NoEvent, Event, Tags
<1>7. TypeOK
  BY <1>3, <1>4, <1>5, <1>6, Numbers, StartupFields
     DEF TypeOK, RequestStates, OutcomeStates, StartupStates, EventStates, UpdateTags
<1>8. StartupInv
  BY StartupFields DEF StartupInv
<1>9. ScopeInv
  BY StartupFields DEF ScopeInv
<1>10. OutcomeInv
  BY <1>1, <1>3 DEF OutcomeInv, Settled
<1>11. RequestInv
  BY <1>4 DEF RequestInv, Active
<1>12. EventInv /\ Stopping
  BY DEF EventInv, Stopping
<1>. QED
  BY <1>7, <1>8, <1>9, <1>10, <1>11, <1>12 DEF IInv

LEMMA NextIInv ==
  ASSUME IInv, [Next]_vars
  PROVE  IInv'
<1>1. CASE StartBuilding
  BY <1>1, StartBuildingKeeps
<1>2. CASE ServerComponentsChange
  BY <1>2, ServerComponentsChangeKeeps
<1>3. CASE FinishBuilding
  BY <1>3, FinishBuildingKeeps
<1>4. CASE TakeEvent
  BY <1>4, TakeEventKeeps
<1>5. CASE HandleTaken
  BY <1>5, HandleTakenKeeps
<1>6. CASE StartupStep
  BY <1>6, AcquiredKeeps, ReplaceKeeps, AcquireFailsKeeps, CloseFailedKeeps, AbandonKeeps,
     AcquireDiesKeeps DEF StartupStep
<1>7. CASE \E r \in Requests : RequestStep(r)
  BY <1>7, RequestStepKeeps
<1>8. CASE Stop
  BY <1>8, StopKeeps
<1>9. CASE Release
  BY <1>9, ReleaseKeeps
<1>10. CASE UNCHANGED vars
  <2>1. StartupInv' /\ ScopeInv' /\ OutcomeInv' /\ RequestInv'
    BY <1>10, SameStore DEF vars, watchVars
  <2>2. TypeOK'
    BY <1>10 DEF IInv, TypeOK, vars, rspackVars, watchVars, storeVars, channelVars
  <2>3. EventInv' /\ Stopping'
    BY <1>10 DEF IInv, EventInv, Stopping, Upcoming, Newest, Owed, Current,
       vars, rspackVars, watchVars, storeVars
  <2>. QED
    BY <2>1, <2>2, <2>3 DEF IInv
<1>. QED
  BY <1>1, <1>2, <1>3, <1>4, <1>5, <1>6, <1>7, <1>8, <1>9, <1>10 DEF Next

LEMMA Inductive == Spec => []IInv
BY InitIInv, NextIInv, PTL DEF Spec

------------------------------------------------------------------------------
(* What the development server promises.                                   *)

\* The state of the watcher, the store and its requests keeps its types
\* (dev.ts, dev-application.ts, dev-channel.ts).
THEOREM TypeCorrect == Spec => []TypeOK
<1>1. IInv => TypeOK
  BY DEF IInv
<1>. QED
  BY <1>1, Inductive, PTL

\* No handler and no body outlives the services of the generation that
\* admitted it, however builds, failures, disconnects and shutdown interleave:
\* the scope of the requests closes, and is awaited, before that of the
\* services.
THEOREM RequestsStayInside == Spec => []RequestsInsideServices
<1>1. IInv => RequestsInsideServices
  BY DEF IInv, RequestInv, RequestsInsideServices
<1>. QED
  BY <1>1, Inductive, PTL

\* A request is answered by the build that was the newest when it came, or by
\* a later one, though startups are interrupted and fail.
THEOREM NewestBuildFollowed == Spec => []FollowsNewestBuild
<1>1. ASSUME IInv PROVE FollowsNewestBuild
  BY <1>1 DEF IInv, RequestInv, FollowsNewestBuild, Active
<1>. QED
  BY <1>1, Inductive, PTL

\* The generation the store offers is the installed one, and it admits.
THEOREM OfferedAdmits == Spec => []OfferedGenerationAdmits
<1>1. ASSUME IInv, server = "running", Current.tag = "ready"
      PROVE  /\ Current.build = generation
             /\ services[generation] = "open" /\ requests[generation] = "open"
  <2>1. Current.build = generation /\ Current.build \in Builds /\ Settled(Current)
    <3>1. Len(outcomes) \in 1..Len(outcomes) /\ Current = outcomes[Len(outcomes)]
      BY <1>1, CurrentOutcome DEF IInv
    <3>. QED
      BY <1>1, <3>1 DEF IInv, OutcomeInv, Settled
  <2>2. generation # 0
    BY <2>1, Numbers
  <2>3. startup.phase # "replacing"
    BY <1>1, <2>1 DEF IInv, StartupInv
  <2>. QED
    BY <1>1, <2>1, <2>2, <2>3 DEF IInv, ScopeInv
<1>2. IInv => OfferedGenerationAdmits
  BY <1>1 DEF OfferedGenerationAdmits
<1>. QED
  BY <1>2, Inductive, PTL

\* The services of a candidate that fails, dies, is interrupted or is
\* overtaken by the shutdown are closed: open services are installed or about
\* to be.
THEOREM NoGenerationLeaks == Spec => []NothingLeaks
<1>1. ASSUME IInv, NEW b \in Builds, services[b] = "starting"
      PROVE  startup.build = b
  BY <1>1 DEF IInv, ScopeInv, StartupInv
<1>2. ASSUME IInv, NEW b \in Builds, services[b] = "open",
             ~(b = generation /\ server # "stopped")
      PROVE  startup = [startup EXCEPT !.phase = "replacing", !.build = b]
  <2>1. startup.phase = "replacing" /\ b = seen
    BY <1>2 DEF IInv, ScopeInv
  <2>2. startup.build = b
    BY <1>2, <2>1, StartupFields DEF IInv, StartupInv
  <2>3. startup \in StartupStates
    BY <1>2 DEF IInv, TypeOK, StartupStates
  <2>. QED
    BY <2>1, <2>2, <2>3 DEF StartupStates
<1>3. IInv => NothingLeaks
  BY <1>1, <1>2 DEF NothingLeaks
<1>. QED
  BY <1>3, Inductive, PTL
=============================================================================
