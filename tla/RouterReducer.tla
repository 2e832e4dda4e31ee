---------------------------- MODULE RouterReducer ----------------------------
(***************************************************************************)
(* The pure reducer of the client router: what each lifecycle event does   *)
(* to the state and which single command it emits.  A route resource, a    *)
(* renderer navigation and an abort controller all belong to exactly one   *)
(* navigation generation and are named by it.                              *)
(***************************************************************************)
EXTENDS Naturals

CONSTANTS
  Generations,   (* routed navigations                                    *)
  Entries,       (* history entries                                       *)
  NoEntry,       (* the null of NavigationApi.getCurrentEntry             *)
  Pending        (* the entry of a generation that has none committed yet *)

Settled == [tag |-> "Settled"]
NoCandidate == [tag |-> "None"]

VisibleNavigation ==
  {Settled} \cup [tag : {"Navigation"}, gen : Generations,
                  entry : Entries \cup {NoEntry, Pending},
                  flight : {"Streaming", "Completed"}]

NavigationCandidate ==
  {NoCandidate} \cup [tag : {"Loading", "Publishing", "Rendering"}, gen : Generations]

(* Ready is the state without a candidate, Navigating the one with.        *)
RouterState == [visible : VisibleNavigation, candidate : NavigationCandidate]

NoCommand == [tag |-> "None"]
Command(tag, g) == [tag |-> tag, gen |-> g]
CacheCommand(tag, g, entry) == [tag |-> tag, gen |-> g, entry |-> entry]

-----------------------------------------------------------------------------

OwnsVisible(s, g) == s.visible.tag = "Navigation" /\ s.visible.gen = g
OwnsCandidate(s, g) == s.candidate # NoCandidate /\ s.candidate.gen = g

Becomes(s, command) == [state |-> s, command |-> command]
Stale(s) == Becomes(s, NoCommand)
Throws(s) == Becomes(s, [tag |-> "TypeError"])

Settle(s) == [s EXCEPT !.visible = Settled]
DropCandidate(s) == [s EXCEPT !.candidate = NoCandidate]
SetCandidate(s, tag, g) == [s EXCEPT !.candidate = [tag |-> tag, gen |-> g]]

RenderRetired(s, g) ==
  IF OwnsVisible(s, g) THEN Becomes(Settle(s), NoCommand) ELSE Stale(s)

(* Mutant of HistoryCommitted: the route is cached while it still streams. *)
HistoryCommittedEagerly(s, g, entry) ==
  IF ~OwnsVisible(s, g) THEN Stale(s)
  ELSE Becomes([s EXCEPT !.visible.entry = entry], CacheCommand("CacheRoute", g, entry))

HistoryCommitted(s, g, entry) ==
  CASE ~OwnsVisible(s, g) -> Stale(s)
    [] OwnsVisible(s, g) /\ s.visible.entry # Pending -> Throws(s)
    [] OwnsVisible(s, g) /\ s.visible.entry = Pending ->
         IF s.visible.flight = "Streaming"
         THEN Becomes([s EXCEPT !.visible.entry = entry], NoCommand)
         ELSE Becomes(Settle(s), IF entry = NoEntry THEN NoCommand
                                 ELSE CacheCommand("CacheRoute", g, entry))

FlightCompleted(s, g) ==
  CASE ~OwnsVisible(s, g) -> Stale(s)
    [] OwnsVisible(s, g) /\ s.visible.flight = "Completed" -> Throws(s)
    [] OwnsVisible(s, g) /\ s.visible.flight = "Streaming" ->
         IF s.visible.entry = Pending
         THEN Becomes([s EXCEPT !.visible.flight = "Completed"], Command("ReleaseRoute", g))
         ELSE Becomes(Settle(s), IF s.visible.entry = NoEntry THEN Command("ReleaseRoute", g)
                                 ELSE CacheCommand("CacheAndReleaseRoute", g, s.visible.entry))

(* DocumentLoaded, and FlightFailed of a generation that is not visible.   *)
CandidateLost(s, g) ==
  CASE ~OwnsCandidate(s, g) -> Stale(s)
    [] OwnsCandidate(s, g) /\ s.candidate.tag # "Loading" -> Throws(s)
    [] OwnsCandidate(s, g) /\ s.candidate.tag = "Loading" -> Becomes(DropCandidate(s), NoCommand)

DocumentLoaded(s, g) == CandidateLost(s, g)

FlightFailed(s, g) ==
  CASE ~OwnsVisible(s, g) -> CandidateLost(s, g)
    [] OwnsVisible(s, g) /\ s.visible.flight = "Completed" -> Throws(s)
    [] OwnsVisible(s, g) /\ s.visible.flight = "Streaming" ->
         Becomes(Settle(s), Command("ReleaseRoute", g))

(* Mutant of BeginNavigation: the successor inherits the candidate's phase. *)
BeginInherited(s, g) ==
  IF s.candidate = NoCandidate THEN Becomes(SetCandidate(s, "Loading", g), NoCommand)
  ELSE Becomes(SetCandidate(s, s.candidate.tag, g),
               [tag |-> "SupersedeCandidate", candidate |-> s.candidate])

(* The successor is installed before its predecessor is superseded.        *)
BeginNavigation(s, g) ==
  Becomes(SetCandidate(s, "Loading", g),
          IF s.candidate = NoCandidate THEN NoCommand
          ELSE [tag |-> "SupersedeCandidate", candidate |-> s.candidate])

RouteLoaded(s, g) ==
  CASE ~OwnsCandidate(s, g) -> Becomes(s, Command("ReleaseRoute", g))
    [] OwnsCandidate(s, g) /\ s.candidate.tag # "Loading" -> Throws(s)
    [] OwnsCandidate(s, g) /\ s.candidate.tag = "Loading" ->
         Becomes(SetCandidate(s, "Publishing", g), Command("PublishRoute", g))

RenderScheduled(s, g) ==
  CASE ~OwnsCandidate(s, g) -> Becomes(s, Command("DiscardRoute", g))
    [] OwnsCandidate(s, g) /\ s.candidate.tag # "Publishing" -> Throws(s)
    [] OwnsCandidate(s, g) /\ s.candidate.tag = "Publishing" ->
         Becomes(SetCandidate(s, "Rendering", g), NoCommand)

RenderCommitted(s, g) ==
  CASE ~OwnsCandidate(s, g) -> Stale(s)
    [] OwnsCandidate(s, g) /\ s.candidate.tag # "Rendering" -> Throws(s)
    [] OwnsCandidate(s, g) /\ s.candidate.tag = "Rendering" ->
         Becomes([visible |-> [tag |-> "Navigation", gen |-> g, entry |-> Pending,
                               flight |-> "Streaming"],
                  candidate |-> NoCandidate], NoCommand)

NavigationAborted(s, g) ==
  IF ~OwnsCandidate(s, g) THEN Stale(s)
  ELSE Becomes(DropCandidate(s),
               CASE s.candidate.tag = "Loading" -> NoCommand
                 [] s.candidate.tag = "Publishing" -> Command("ReleaseRoute", g)
                 [] s.candidate.tag = "Rendering" -> Command("DiscardRoute", g))
=============================================================================
