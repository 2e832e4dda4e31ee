--------------------------- MODULE DevGenerations ---------------------------
(***************************************************************************)
(* The development server: Rspack's watch events, the startup fiber that   *)
(* turns a compilation into a generation of the application, the store     *)
(* that admits requests to the newest one, and the updates announced to    *)
(* browsers.  A generation is named by its build.                          *)
(***************************************************************************)
EXTENDS Naturals, SequencesExt

CONSTANTS
  Requests,
  MaxBuilds        (* bound on builds                                      *)

ASSUME DevAssumption == MaxBuilds \in Nat

VARIABLES
  watchState,      (* Rspack: whether a build is under way                 *)
  built,           (* how many builds began                                *)
  changed,         (* the builds that changed Server Components            *)
  events,          (* the queue of watch events                            *)
  taken,           (* the event that waits for the startup to be cleared   *)
  seen,            (* the newest build the store has heard of              *)
  startup,         (* the fiber in the FiberHandle                         *)
  outcomes,        (* the Deferreds of the store; the last is the current  *)
  generation,      (* the generation in the ScopedRef, 0 if Unavailable    *)
  services,        (* per generation, its scope                            *)
  requests,        (* per generation, the scope that owns its requests     *)
  request,         (* per request, its progress                            *)
  pending,         (* the channel's mark for the next update               *)
  update,          (* the latest announcement to browsers                  *)
  server

rspackVars == <<watchState, built, changed>>
watchVars == <<events, taken, seen>>
storeVars == <<outcomes, generation, services, requests>>
channelVars == <<pending, update>>
vars == <<rspackVars, watchVars, startup, storeVars, request, channelVars, server>>

Builds == 1..MaxBuilds
Event(tag, build) == [tag |-> tag, build |-> build]
NoEvent == Event("None", 0)
Outcome(tag, build) == [tag |-> tag, build |-> build]
Request(phase) == [phase |-> phase, outcome |-> 0, asked |-> 0, owned |-> FALSE]
Startup(phase, build) == [phase |-> phase, build |-> build, interrupted |-> FALSE]
NoStartup == Startup("none", 0)

Init ==
  /\ watchState = "Idle"
  /\ built = 0
  /\ changed = {}
  /\ events = <<>>
  /\ taken = NoEvent
  /\ seen = 0
  /\ startup = NoStartup
  /\ outcomes = <<Outcome("waiting", 0)>>
  /\ generation = 0
  /\ services = [b \in Builds |-> "none"]
  /\ requests = [b \in Builds |-> "none"]
  /\ request = [r \in Requests |-> Request("idle")]
  /\ pending = "ClientUpdate"
  /\ update = Event("Initial", 0)
  /\ server = "running"

-----------------------------------------------------------------------------
(* Rspack.  Every build runs the server compiler.                          *)

StartBuilding ==
  /\ server = "running"
  /\ watchState = "Idle"
  /\ built < MaxBuilds
  /\ watchState' = "Building"
  /\ built' = built + 1
  /\ events' = Append(events, Event("Building", built'))
  /\ pending' = "ClientUpdate"
  /\ UNCHANGED <<changed, taken, seen, startup, storeVars, request, update, server>>

(* There is nothing to compare the first build with.                       *)
ServerComponentsChange ==
  /\ server = "running"
  /\ watchState = "Building"
  /\ built > 1
  /\ built \notin changed
  /\ changed' = changed \cup {built}
  /\ pending' = "RscUpdate"
  /\ UNCHANGED <<watchState, built, watchVars, startup, storeVars, request, update, server>>

FinishBuilding ==
  /\ server = "running"
  /\ watchState = "Building"
  /\ watchState' = "Idle"
  /\ \E tag \in {"Compiled", "Failed"} : events' = Append(events, Event(tag, built))
  /\ UNCHANGED <<built, changed, taken, seen, startup, storeVars, request, channelVars, server>>

-----------------------------------------------------------------------------
(* The watcher.                                                            *)

Current == Last(outcomes)
Settled(outcome) == outcome.tag # "waiting"

(* A Deferred keeps its first outcome.                                     *)
Settle(tag, build) ==
  IF Settled(Current) THEN outcomes
  ELSE [outcomes EXCEPT ![Len(outcomes)] = Outcome(tag, build)]

Announce(tag, build) == update' = Event(tag, build)

(* Mutant of Expect: the old outcome stands until the next one is known.   *)
ExpectNothing == outcomes

(* Mutant of Expect: every build has an outcome of its own.                *)
ExpectAnew == Append(outcomes, Outcome("waiting", 0))

(* Requests wait for the build that begins.  Those that wait already,      *)
(* because a startup was interrupted, wait on.                             *)
Expect ==
  IF Settled(Current) THEN Append(outcomes, Outcome("waiting", 0)) ELSE outcomes

Handle(event) ==
  \/ /\ event.tag = "Building"
     /\ seen' = event.build
     /\ outcomes' = Expect
     /\ UNCHANGED <<startup, services, update>>
  \/ /\ event.tag = "Failed"
     /\ outcomes' = Settle("failed", event.build)
     /\ Announce("BuildFailed", event.build)
     /\ UNCHANGED <<seen, startup, services>>
  \/ /\ event.tag = "Compiled"
     /\ startup' = Startup("acquiring", event.build)
     /\ services' = [services EXCEPT ![event.build] = "starting"]
     /\ UNCHANGED <<seen, outcomes, update>>

(* Mutant of TakeEvent: only a compilation clears the startup.             *)
TakeEventBeside ==
  /\ server = "running"
  /\ taken = NoEvent
  /\ events # <<>>
  /\ events' = Tail(events)
  /\ IF startup = NoStartup \/ Head(events).tag = "Building"
     THEN Handle(Head(events)) /\ UNCHANGED taken
     ELSE /\ taken' = Head(events)
          /\ startup' = [startup EXCEPT !.interrupted = TRUE]
          /\ UNCHANGED <<seen, outcomes, services, update>>
  /\ UNCHANGED <<rspackVars, generation, requests, request, pending, server>>

(* The startup under way is interrupted and awaited first.                 *)
TakeEvent ==
  /\ server = "running"
  /\ taken = NoEvent
  /\ events # <<>>
  /\ events' = Tail(events)
  /\ IF startup = NoStartup
     THEN Handle(Head(events)) /\ UNCHANGED taken
     ELSE /\ taken' = Head(events)
          /\ startup' = [startup EXCEPT !.interrupted = TRUE]
          /\ UNCHANGED <<seen, outcomes, services, update>>
  /\ UNCHANGED <<rspackVars, generation, requests, request, pending, server>>

HandleTaken ==
  /\ taken # NoEvent
  /\ startup = NoStartup
  /\ Handle(taken)
  /\ taken' = NoEvent
  /\ UNCHANGED <<rspackVars, events, generation, requests, request, pending, server>>

-----------------------------------------------------------------------------
(* The startup fiber.  Only the acquisition can be interrupted.            *)

Acquiring == startup.phase = "acquiring"

(* The replaced generation stops admitting requests and cancels its own.   *)
Acquired ==
  /\ Acquiring
  /\ ~startup.interrupted
  /\ startup' = Startup("replacing", startup.build)
  /\ services' = [services EXCEPT ![startup.build] = "open"]
  /\ requests' = [b \in Builds |-> IF b = startup.build THEN "open"
                                   ELSE IF b = generation THEN "closed" ELSE requests[b]]
  /\ UNCHANGED <<rspackVars, watchVars, outcomes, generation, request, channelVars, server>>

Owned(b) == {r \in Requests : request[r].owned /\ outcomes[request[r].outcome].build = b}

Replace ==
  /\ startup.phase = "replacing"
  /\ Owned(generation) = {}
  /\ services' = [b \in Builds |-> IF b = generation THEN "closed" ELSE services[b]]
  /\ generation' = startup.build
  /\ outcomes' = Settle("ready", startup.build)
  /\ Announce(pending, startup.build)
  /\ startup' = NoStartup
  /\ UNCHANGED <<rspackVars, watchVars, requests, request, pending, server>>

AcquireFails ==
  /\ Acquiring
  /\ ~startup.interrupted
  /\ startup' = Startup("failing", startup.build)
  /\ outcomes' = Settle("failed", startup.build)
  /\ UNCHANGED <<rspackVars, watchVars, generation, services, requests, request, channelVars, server>>

CloseFailed ==
  /\ startup.phase = "failing"
  /\ services' = [services EXCEPT ![startup.build] = "closed"]
  /\ Announce("BuildFailed", startup.build)
  /\ startup' = NoStartup
  /\ UNCHANGED <<rspackVars, watchVars, outcomes, generation, requests, request, pending, server>>

(* An interruption is no error: the outcome stays open.                    *)
Abandon ==
  /\ Acquiring
  /\ startup.interrupted
  /\ services' = [services EXCEPT ![startup.build] = "closed"]
  /\ startup' = NoStartup
  /\ UNCHANGED <<rspackVars, watchVars, outcomes, generation, requests, request, channelVars, server>>

-----------------------------------------------------------------------------
(* Requests: the fiber of the handler, then the fiber of the body.         *)

OutcomeOf(r) == outcomes[request[r].outcome]
End(r) == [request EXCEPT ![r] = Request("done")]
Reject(r) == [request EXCEPT ![r].phase = "rejected", ![r].owned = FALSE]
Active(r) == request[r].phase \in {"handling", "streaming"}

Arrive(r) ==
  /\ server = "running"
  /\ request[r].phase = "idle"
  /\ request' = [request EXCEPT ![r] = [phase |-> "waiting", outcome |-> Len(outcomes),
                                        asked |-> seen, owned |-> FALSE]]
  /\ UNCHANGED <<rspackVars, watchVars, startup, storeVars, channelVars, server>>

(* A generation that was replaced meanwhile interrupts the request.        *)
Dispatch(r) ==
  /\ request[r].phase = "waiting"
  /\ Settled(OutcomeOf(r))
  /\ IF OutcomeOf(r).tag = "ready" /\ requests[OutcomeOf(r).build] = "open"
     THEN request' = [request EXCEPT ![r].phase = "handling", ![r].owned = TRUE]
     ELSE request' = Reject(r)
  /\ UNCHANGED <<rspackVars, watchVars, startup, storeVars, channelVars, server>>

(* Mutant of Respond: the body's fiber belongs to nobody.                  *)
RespondUnowned(r) ==
  /\ request[r].phase = "handling"
  /\ requests[OutcomeOf(r).build] = "open"
  /\ request' = [request EXCEPT ![r].phase = "streaming", ![r].owned = FALSE]
  /\ UNCHANGED <<rspackVars, watchVars, startup, storeVars, channelVars, server>>

Respond(r) ==
  /\ request[r].phase = "handling"
  /\ requests[OutcomeOf(r).build] = "open"
  /\ request' = [request EXCEPT ![r].phase = "streaming", ![r].owned = TRUE]
  /\ UNCHANGED <<rspackVars, watchVars, startup, storeVars, channelVars, server>>

Finish(r) ==
  /\ Active(r)
  /\ request' = End(r)
  /\ UNCHANGED <<rspackVars, watchVars, startup, storeVars, channelVars, server>>

Cancel(r) ==
  /\ request[r].owned
  /\ requests[OutcomeOf(r).build] = "closed"
  /\ request' = Reject(r)
  /\ UNCHANGED <<rspackVars, watchVars, startup, storeVars, channelVars, server>>

(* The client goes away, or the HTTP server stops.                         *)
Disconnect(r) ==
  /\ request[r].phase = "waiting" \/ Active(r)
  /\ request' = End(r)
  /\ UNCHANGED <<rspackVars, watchVars, startup, storeVars, channelVars, server>>

-----------------------------------------------------------------------------
(* Shutdown: the watcher ends, then the HTTP server, then the store.       *)

Stop ==
  /\ server = "running"
  /\ server' = "stopping"
  /\ taken' = NoEvent
  /\ events' = <<>>
  /\ startup' = [startup EXCEPT !.interrupted = startup # NoStartup]
  /\ UNCHANGED <<rspackVars, seen, storeVars, request, channelVars>>

(* A defect of the application is no failure: it ends the watcher.         *)
AcquireDies ==
  /\ Acquiring
  /\ ~startup.interrupted
  /\ server = "running"
  /\ server' = "stopping"
  /\ taken' = NoEvent
  /\ events' = <<>>
  /\ services' = [services EXCEPT ![startup.build] = "closed"]
  /\ startup' = NoStartup
  /\ UNCHANGED <<rspackVars, seen, outcomes, generation, requests, request, channelVars>>

StopRequest(r) == server = "stopping" /\ startup = NoStartup /\ Disconnect(r)

(* Mutant of Release: the startup is not awaited.                          *)
ReleaseBeside ==
  /\ server = "stopping"
  /\ \A r \in Requests : request[r].phase # "waiting" /\ ~Active(r)
  /\ server' = "stopped"
  /\ requests' = [b \in Builds |-> IF b = generation THEN "closed" ELSE requests[b]]
  /\ services' = [b \in Builds |-> IF b = generation THEN "closed" ELSE services[b]]
  /\ UNCHANGED <<rspackVars, watchVars, startup, outcomes, generation, request, channelVars>>

Release ==
  /\ server = "stopping"
  /\ startup = NoStartup
  /\ \A r \in Requests : request[r].phase # "waiting" /\ ~Active(r)
  /\ server' = "stopped"
  /\ requests' = [b \in Builds |-> IF b = generation THEN "closed" ELSE requests[b]]
  /\ services' = [b \in Builds |-> IF b = generation THEN "closed" ELSE services[b]]
  /\ UNCHANGED <<rspackVars, watchVars, startup, outcomes, generation, request, channelVars>>

StartupStep ==
  Acquired \/ Replace \/ AcquireFails \/ CloseFailed \/ Abandon \/ AcquireDies

RequestStep(r) ==
  Arrive(r) \/ Dispatch(r) \/ Respond(r) \/ Finish(r) \/ Cancel(r) \/ Disconnect(r)

Next ==
  \/ StartBuilding \/ ServerComponentsChange \/ FinishBuilding
  \/ TakeEvent \/ HandleTaken
  \/ StartupStep
  \/ \E r \in Requests : RequestStep(r)
  \/ Stop \/ Release

Spec == Init /\ [][Next]_vars

(* Fibers run on, Rspack finishes what it builds, the first build is its   *)
(* own, applications start or fail, and a server that stops disconnects    *)
(* its clients.  Handlers and their clients may take for ever.             *)
Fairness ==
  /\ WF_vars(built = 0 /\ StartBuilding)
  /\ WF_vars(FinishBuilding)
  /\ WF_vars(TakeEvent)
  /\ WF_vars(HandleTaken)
  /\ WF_vars(StartupStep)
  /\ \A r \in Requests : WF_vars(Dispatch(r)) /\ WF_vars(Cancel(r)) /\ WF_vars(StopRequest(r))

FairSpec == Spec /\ Fairness

-----------------------------------------------------------------------------
(* Types of the state.                                                     *)
Tags == {"None", "Building", "Compiled", "Failed"}
UpdateTags == {"ClientUpdate", "RscUpdate", "BuildFailed"}

TypeOK ==
  /\ watchState \in {"Idle", "Building"}
  /\ built \in 0..MaxBuilds
  /\ changed \subseteq Builds
  /\ events \in Seq([tag : Tags, build : Builds])
  /\ taken \in [tag : Tags, build : 0..MaxBuilds]
  /\ seen \in 0..MaxBuilds
  /\ startup \in [phase : {"none", "acquiring", "replacing", "failing"},
                  build : 0..MaxBuilds, interrupted : BOOLEAN]
  /\ outcomes \in Seq([tag : {"waiting", "ready", "failed"}, build : 0..MaxBuilds])
  /\ outcomes # <<>>
  /\ generation \in 0..MaxBuilds
  /\ services \in [Builds -> {"none", "starting", "open", "closed"}]
  /\ requests \in [Builds -> {"none", "open", "closed"}]
  /\ request \in [Requests ->
       [phase : {"idle", "waiting", "handling", "streaming", "done", "rejected"},
        outcome : 0..Len(outcomes), asked : 0..MaxBuilds, owned : BOOLEAN]]
  /\ pending \in UpdateTags \ {"BuildFailed"}
  /\ update \in [tag : UpdateTags, build : Builds] \cup {Event("Initial", 0)}
  /\ server \in {"running", "stopping", "stopped"}

(* A handler, and the body it streams after it returned, never outlives    *)
(* the application services of its generation, whatever replaces or stops  *)
(* it.                                                                     *)
RequestsInsideServices ==
  \A r \in Requests : Active(r) => services[OutcomeOf(r).build] = "open"

(* A request is admitted or rejected by the outcome of a build at least as *)
(* new as the newest one the store had heard of when the request came.     *)
FollowsNewestBuild ==
  \A r \in Requests : Active(r) \/ request[r].phase = "rejected"
    => OutcomeOf(r).build >= request[r].asked

(* While the store offers a generation, it is the installed one and it     *)
(* admits: nothing is dispatched to a generation that is being replaced.   *)
OfferedGenerationAdmits ==
  server = "running" /\ Current.tag = "ready" =>
    /\ Current.build = generation
    /\ services[generation] = "open"
    /\ requests[generation] = "open"

(* Every generation whose services run is installed or on its way in: no   *)
(* candidate that failed, was interrupted or was overtaken by shutdown     *)
(* leaks its services.                                                     *)
NothingLeaks ==
  \A b \in Builds :
    /\ services[b] = "starting" => startup.build = b
    /\ services[b] = "open" =>
         \/ b = generation /\ server # "stopped"
         \/ startup = [startup EXCEPT !.phase = "replacing", !.build = b]

Quiet ==
  /\ server = "running"
  /\ watchState = "Idle"
  /\ events = <<>>
  /\ taken = NoEvent
  /\ startup = NoStartup

(* docs/architecture/build.md: a request waits for the current outcome;    *)
(* startups that are interrupted hand it on to the next build.             *)
RequestsSettle ==
  \A r \in Requests : (request[r].phase = "waiting") ~> (request[r].phase # "waiting")

(* docs/architecture/build.md: changed RSC content is refreshed.  When a    *)
(* generation replaces another, the browsers hear of it if Server          *)
(* Components changed in any build since.                                  *)
ServerChangesAnnounced ==
  [][generation \notin {0, generation'} /\ changed \cap (generation + 1)..generation' # {}
       => update'.tag = "RscUpdate"]_vars
=============================================================================
