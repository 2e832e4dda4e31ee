------------------------------- MODULE DevClient -------------------------------
(***************************************************************************)
(* A page under `ersc dev`: the development client that observes the       *)
(* server's updates (dev/client.ts), brings the browser bundle up to date  *)
(* (dev/hmr-update.ts), asks for a refresh of the route, and shows         *)
(* failures in a panel (dev/panel.tsx).                                    *)
(*                                                                         *)
(* The server is what a page can tell of it: the hash of the newest client *)
(* compilation, the hash that last changed client code, how many Server    *)
(* Component changes it has published, and the latest announcement, which  *)
(* the channel replays to a new subscriber (build/dev-channel.ts).         *)
(* DevGenerations is the server itself.  Rspack's check for a hot update   *)
(* is external: it fails, advances the bundle to some newer hash, or finds *)
(* nothing, and then there was nothing.                                    *)
(***************************************************************************)
EXTENDS Naturals, Sequences

CONSTANTS
  MaxBuilds,     \* bound on builds
  MaxVisits      \* bound on reloads by hand, navigations and browser errors

ASSUME DevClientAssumption == MaxBuilds \in Nat /\ MaxVisits \in Nat

VARIABLES
  server,        \* builds, client hash, hash of the last client change, Server Component version
  update,        \* the state of the channel
  page,          \* document: loading or loaded, its bundle's hash, the version it shows
  status,        \* BrowserRenderStatus
  statuses,      \* the status changes the client has still to read
  stream,        \* subscription: none, open or lost
  phase,         \* of the fold over updates: Snapshot or Live
  queue,         \* updates that were sent and not taken
  pending,       \* the PendingDevUpdate
  handling,      \* whether an update is being settled
  again,         \* flips with every check for a hot update
  refresh,       \* whether a refresh of the route is under way
  panel,
  visits,        \* how many reloads, navigations and errors there were
  heard,         \* history: the newest version announced to this document
  replayed,      \* history: that version, if it was announced by the replay on
                 \* subscription, with the hash that the bundle has anyway
  excused        \* history: its refresh failed, or a navigation replaced it

buildVars == <<server, update>>
clientVars == <<stream, phase, queue, pending, handling, again>>
screenVars == <<status, statuses, refresh>>
heardVars == <<heard, replayed>>
vars == <<buildVars, page, clientVars, screenVars, panel, visits, heardVars, excused>>

Update(tag, hash) == [tag |-> tag, hash |-> hash]
Updates == [tag : {"ClientUpdate", "RscUpdate", "BuildFailed"}, hash : Nat]
Statuses == {"Waiting", "Rendered", "Failed"}
Panels ==
  [tag : {"Inactive", "Visible", "Dismissed"},
   content : {"None", "Warning", "BuildFailed", "RuntimeFailed"}]
NothingPending(hash) == [acknowledged |-> hash, client |-> hash, rsc |-> "Current"]

------------------------------------------------------------------------------
(* The panel.                                                              *)

Inactive == [tag |-> "Inactive", content |-> "None"]
Visible(content) == [tag |-> "Visible", content |-> content]

(* Mutant of Apply: a failed render replaces a failed build.               *)
ApplyRenderFailedFirst(state, event) ==
  CASE event = "RenderFailed" -> Visible("RuntimeFailed")
    [] event = "BuildFailed" -> Visible(event)
    [] event = "BuildSucceeded" /\ state.content = "BuildFailed" -> Inactive
    [] event = "RuntimeReconciled" /\ state.content = "RuntimeFailed" -> Inactive
    [] OTHER -> state

Apply(state, event) ==
  CASE event = "Warning" -> IF state.tag = "Inactive" THEN Visible(event) ELSE state
    [] event = "RenderFailed" ->
         IF state.content = "BuildFailed" THEN state ELSE Visible("RuntimeFailed")
    [] event = "BuildFailed" -> Visible(event)
    [] event = "RuntimeFailed" ->
         Visible(IF state.content = "BuildFailed" THEN state.content ELSE event)
    [] event = "BuildSucceeded" ->
         IF state.content = "BuildFailed" THEN Inactive ELSE state
    [] event = "RuntimeReconciled" ->
         IF state.content = "RuntimeFailed" THEN Inactive ELSE state
    [] event = "Opened" -> [state EXCEPT !.tag = IF @ = "Dismissed" THEN "Visible" ELSE @]
    [] event = "Dismissed" -> [state EXCEPT !.tag = IF @ = "Visible" THEN "Dismissed" ELSE @]

------------------------------------------------------------------------------
(* The server.                                                             *)

Announce(message) ==
  /\ update' = message
  /\ queue' = IF stream = "open" THEN Append(queue, message) ELSE queue

(* A build that changed the client, Server Components or both.  One that   *)
(* changed no client code may still give the client a new hash.            *)
BuildSucceeds(client, rsc, fresh) ==
  /\ server.builds < MaxBuilds
  /\ client => fresh
  /\ LET hash == IF fresh THEN server.hash + 1 ELSE server.hash IN
     /\ server' = [builds |-> server.builds + 1,
                   hash |-> hash,
                   code |-> IF client THEN hash ELSE server.code,
                   version |-> IF rsc THEN server.version + 1 ELSE server.version]
     /\ Announce(Update(IF rsc THEN "RscUpdate" ELSE "ClientUpdate", hash))
  /\ heard' = IF stream = "open" /\ rsc THEN server'.version ELSE heard
  /\ UNCHANGED <<page, stream, phase, pending, handling, again, screenVars, panel, visits,
                 replayed, excused>>

BuildFails ==
  /\ server.builds < MaxBuilds
  /\ server' = [server EXCEPT !.builds = @ + 1]
  /\ Announce(Update("BuildFailed", server.hash))
  /\ UNCHANGED <<page, stream, phase, pending, handling, again, screenVars, panel, visits,
                 heardVars, excused>>

------------------------------------------------------------------------------
(* The document.                                                           *)

Unload == page' = [page EXCEPT !.phase = "loading"]

(* A failed build rejects the request for a document.                      *)
LoadDocument ==
  /\ page.phase = "loading"
  /\ update.tag # "BuildFailed"
  /\ page' = [phase |-> "loaded", runtime |-> server.hash, shown |-> server.version]
  /\ status' = "Waiting"
  /\ statuses' = <<"Waiting">>
  /\ stream' = "none"
  /\ phase' = "Snapshot"
  /\ queue' = <<>>
  /\ pending' = NothingPending(server.hash)
  /\ handling' = FALSE
  /\ again' = FALSE
  /\ refresh' = FALSE
  /\ panel' \in {Inactive, Apply(Inactive, "Warning")}
  /\ heard' = 0
  /\ replayed' = 0
  /\ excused' = FALSE
  /\ UNCHANGED <<buildVars, visits>>

Hydrate(outcome) ==
  /\ page.phase = "loaded"
  /\ status = "Waiting"
  /\ status' = outcome
  /\ statuses' = Append(statuses, outcome)
  /\ UNCHANGED <<buildVars, page, clientVars, refresh, panel, visits, heardVars, excused>>

Visit ==
  /\ page.phase = "loaded"
  /\ visits < MaxVisits
  /\ visits' = visits + 1

ReloadByHand ==
  /\ Visit
  /\ Unload
  /\ UNCHANGED <<buildVars, clientVars, screenVars, panel, heardVars, excused>>

------------------------------------------------------------------------------
(* Updates.                                                                *)

Subscribe ==
  /\ page.phase = "loaded"
  /\ stream = "none"
  /\ stream' = "open"
  /\ queue' = <<update>>
  /\ heard' = IF update.tag = "RscUpdate" THEN server.version ELSE 0
  /\ replayed' = IF update.hash = page.runtime THEN heard' ELSE 0
  /\ UNCHANGED <<buildVars, page, phase, pending, handling, again, screenVars, panel, visits,
                 excused>>

(* The socket closes: what is announced from here on never arrives.        *)
LoseStream ==
  /\ page.phase = "loaded"
  /\ stream = "open"
  /\ stream' = "lost"
  /\ UNCHANGED <<buildVars, page, phase, queue, pending, handling, again, screenVars, panel,
                 visits, heardVars, excused>>

Record(message) ==
  [acknowledged |-> pending.acknowledged,
   client |-> message.hash,
   rsc |-> IF message.tag = "RscUpdate" THEN "Pending" ELSE pending.rsc]

(* Mutant of ConcernsPage: the hash alone says whether there is work.      *)
NewHash(message) == message.hash # page.runtime

ConcernsPage(message) == phase = "Live" \/ message.hash # page.runtime

TakeUpdate ==
  /\ page.phase = "loaded"
  /\ ~handling
  /\ queue # <<>>
  /\ LET message == Head(queue) IN
     IF message.tag = "BuildFailed"
     THEN /\ panel' = Apply(panel, "BuildFailed")
          /\ UNCHANGED <<pending, handling>>
     ELSE /\ panel' = Apply(panel, "BuildSucceeded")
          /\ IF ConcernsPage(message)
             THEN pending' = Record(message) /\ handling' = TRUE
             ELSE UNCHANGED <<pending, handling>>
  /\ queue' = Tail(queue)
  /\ phase' = "Live"
  /\ UNCHANGED <<buildVars, page, stream, again, screenVars, visits, heardVars, excused>>

Reload == [tag |-> "Reload"]
Retry(hash) == [tag |-> "Retry", acknowledged |-> hash]

(* Mutant of Decide: what the bundle runs is all there is to acknowledge.  *)
DecideByRuntime(check) ==
  IF check.tag = "Failed" THEN Reload ELSE Retry(check.current)

Decide(check) ==
  CASE check.tag = "Failed"                                    -> Reload
    [] check.tag = "Completed" /\ check.current # check.previous -> Retry(check.current)
    [] check.tag = "Completed" /\ check.current = check.previous ->
         IF ~check.modules /\ pending.rsc = "Pending"
         THEN Retry(pending.client) ELSE Reload

(* What import.meta.webpackHot.check(true) can answer (external).          *)
Checks ==
  [tag : {"Failed"}]
  \union {check \in [tag : {"Completed"}, previous : {page.runtime},
                     current : page.runtime..server.hash, modules : BOOLEAN] :
            check.current = page.runtime /\ ~check.modules => server.code <= page.runtime}

CheckUpdate ==
  /\ page.phase = "loaded"
  /\ handling
  /\ pending.acknowledged # pending.client
  /\ \E check \in Checks :
       LET decision == Decide(check) IN
       IF decision.tag = "Reload"
       THEN Unload /\ UNCHANGED pending
       ELSE /\ page' = [page EXCEPT !.runtime = check.current]
            /\ pending' = [pending EXCEPT !.acknowledged = decision.acknowledged]
  /\ again' = ~again
  /\ UNCHANGED <<buildVars, stream, phase, queue, handling, screenVars, panel, visits,
                 heardVars, excused>>

(* RouteRefresher: until the page is hydrated a refresh is a new document. *)
RefreshCurrentRoute ==
  IF status = "Waiting" THEN Unload /\ UNCHANGED refresh
  ELSE refresh' = TRUE /\ UNCHANGED page

SettleUpdate ==
  /\ page.phase = "loaded"
  /\ handling
  /\ pending.acknowledged = pending.client
  /\ handling' = FALSE
  /\ again' = FALSE
  /\ pending' = [pending EXCEPT !.rsc = "Current"]
  /\ IF pending.rsc = "Pending" \/ status = "Failed"
     THEN RefreshCurrentRoute /\ UNCHANGED panel
     ELSE panel' = Apply(panel, "RuntimeReconciled") /\ UNCHANGED <<page, refresh>>
  /\ UNCHANGED <<buildVars, stream, phase, queue, status, statuses, visits, heardVars, excused>>

------------------------------------------------------------------------------
(* The screen.                                                             *)

Show(outcome) ==
  /\ page' = [page EXCEPT !.shown = server.version]
  /\ status' = outcome
  /\ statuses' = Append(statuses, outcome)
  /\ excused' = FALSE

FinishRefresh(outcome) ==
  /\ page.phase = "loaded"
  /\ refresh
  /\ update.tag # "BuildFailed"
  /\ refresh' = FALSE
  /\ Show(outcome)
  /\ UNCHANGED <<buildVars, clientVars, panel, visits, heardVars>>

(* The request fails, or the server interrupts it to replace a generation: *)
(* the failure is logged.                                                  *)
LoseRefresh ==
  /\ page.phase = "loaded"
  /\ refresh
  /\ refresh' = FALSE
  /\ excused' = TRUE
  /\ UNCHANGED <<buildVars, page, clientVars, status, statuses, panel, visits, heardVars>>

(* A navigation ends a refresh, whether or not it shows its own page.      *)
Navigate(outcome) ==
  /\ Visit
  /\ status # "Waiting"
  /\ refresh' = FALSE
  /\ IF outcome = "aborted"
     THEN excused' = (excused \/ refresh) /\ UNCHANGED <<page, status, statuses>>
     ELSE update.tag # "BuildFailed" /\ Show(outcome)
  /\ UNCHANGED <<buildVars, clientVars, panel, heardVars>>

ReadStatus ==
  /\ page.phase = "loaded"
  /\ statuses # <<>>
  /\ statuses' = Tail(statuses)
  /\ panel' = CASE Head(statuses) = "Waiting"  -> panel
                [] Head(statuses) = "Rendered" -> Apply(panel, "RuntimeReconciled")
                [] Head(statuses) = "Failed"   -> Apply(panel, "RenderFailed")
  /\ UNCHANGED <<buildVars, page, clientVars, status, refresh, visits, heardVars, excused>>

(* An error or a rejection that nothing on the page caught.                *)
BrowserFails ==
  /\ Visit
  /\ panel' = Apply(panel, "RuntimeFailed")
  /\ UNCHANGED <<buildVars, page, clientVars, screenVars, heardVars, excused>>

TogglePanel(event) ==
  /\ page.phase = "loaded"
  /\ panel' = Apply(panel, event)
  /\ panel' # panel
  /\ UNCHANGED <<buildVars, page, clientVars, screenVars, visits, heardVars, excused>>

------------------------------------------------------------------------------
Init ==
  /\ server = [builds |-> 1, hash |-> 1, code |-> 1, version |-> 1]
  /\ update = Update("ClientUpdate", 1)
  /\ page = [phase |-> "loading", runtime |-> 0, shown |-> 0]
  /\ status = "Waiting"
  /\ statuses = <<>>
  /\ stream = "none"
  /\ phase = "Snapshot"
  /\ queue = <<>>
  /\ pending = NothingPending(0)
  /\ handling = FALSE
  /\ again = FALSE
  /\ refresh = FALSE
  /\ panel = Inactive
  /\ visits = 0
  /\ heard = 0
  /\ replayed = 0
  /\ excused = FALSE

ServerStep ==
  \/ \E client, rsc, fresh \in BOOLEAN : BuildSucceeds(client, rsc, fresh)
  \/ BuildFails

UpdateStep == TakeUpdate \/ CheckUpdate \/ SettleUpdate

ScreenStep ==
  \/ \E outcome \in {"Rendered", "Failed"} : Hydrate(outcome) \/ FinishRefresh(outcome)
  \/ \E outcome \in {"Rendered", "Failed", "aborted"} : Navigate(outcome)
  \/ LoseRefresh
  \/ ReadStatus
  \/ BrowserFails
  \/ \E event \in {"Opened", "Dismissed"} : TogglePanel(event)

Next ==
  \/ ServerStep
  \/ LoadDocument
  \/ ReloadByHand
  \/ Subscribe
  \/ LoseStream
  \/ UpdateStep
  \/ ScreenStep

Spec == Init /\ [][Next]_vars

(* The event loop runs the client's fiber.                                 *)
FairSpec == Spec /\ WF_vars(UpdateStep) /\ WF_vars(LoadDocument)

------------------------------------------------------------------------------
(* Properties.                                                             *)

(* The state keeps its types, and no bundle, update or acknowledgement is  *)
(* ahead of the server.                                                    *)
TypeOK ==
  /\ server \in [builds : Nat, hash : Nat, code : 0..server.hash, version : Nat]
  /\ update \in Updates /\ update.hash = server.hash
  /\ page \in [phase : {"loading", "loaded"}, runtime : 0..server.hash, shown : Nat]
  /\ status \in Statuses /\ statuses \in Seq(Statuses)
  /\ stream \in {"none", "open", "lost"} /\ phase \in {"Snapshot", "Live"}
  /\ queue \in Seq(Updates)
  /\ pending \in [acknowledged : 0..server.hash, client : 0..server.hash,
                  rsc : {"Current", "Pending"}]
  /\ {handling, again, refresh, excused} \subseteq BOOLEAN
  /\ panel \in Panels
  /\ visits \in Nat /\ {heard, replayed} \subseteq Nat

(* Nothing the page has heard of is still to be done.                      *)
Quiet ==
  /\ page.phase = "loaded"
  /\ queue = <<>>
  /\ ~handling
  /\ ~refresh
  /\ statuses = <<>>

(* When the client is done, the page shows every Server Component change   *)
(* announced to it, unless the refresh for it was lost, and, as long as it *)
(* is connected, runs the newest client code of a successful build: also   *)
(* when builds finish while an earlier update is checked or refreshed.  A  *)
(* page that was loaded before the build and subscribes after it catches   *)
(* up with what is replayed to it only if the hash of the client differs,  *)
(* as docs/architecture/build.md:152 says: otherwise it may stay behind    *)
(* until the next Server Component change.                                 *)
PageCatchesUp ==
  Quiet =>
    /\ excused \/ page.shown >= heard \/ heard = replayed
    /\ stream = "open" /\ update.tag # "BuildFailed" => page.runtime >= server.code

(* Not upheld: what is replayed to a page is shown, whatever its hash.     *)
ReplayShown == Quiet => excused \/ page.shown >= heard

(* When the client is done, a connected page shows diagnostics of a build  *)
(* exactly when the latest build failed, whatever was rendered in between, *)
(* and a failed render is never left without diagnostics, unless the       *)
(* refresh that should have recovered it was lost.                         *)
DiagnosticsAgree ==
  Quiet =>
    /\ stream = "open" =>
         ((panel.content = "BuildFailed") <=> (update.tag = "BuildFailed"))
    /\ status = "Failed" /\ ~excused => panel.content \in {"BuildFailed", "RuntimeFailed"}

(* Settling an update ends, with the update or with the document: the      *)
(* check for a hot update is not repeated for ever, whatever hash the      *)
(* server has reached meanwhile.                                           *)
UpdatesSettle == handling ~> (~handling \/ page.phase = "loading")
=============================================================================
