# effective-rsc in TLA+

TLA+ models of effective-rsc, checked with TLC, and theorems about them, checked with TLAPS.
Paths below are relative to `packages/effective-rsc/src/`; those that begin with `modules/` or
`Migrations/` are in `examples/event-platform/src/modules/` and `.../persistence/Migrations/`.

effective-rsc is a React Server Components framework on Effect. A server renders a route as a Flight
stream inside an HTML document. In the browser a client router intercepts navigations, fetches Flight
for the new route, gives the tree to React and commits the history entry; Server Functions and hot
updates refresh the current route. A development server rebuilds the application and replaces it
under running requests. The hard part is ownership in time: which response may be closed, which tree
may be shown, which result is stale, and who still waits for whom.

The repository also holds an application built with it, an event platform over SQLite: it sells
tickets, admits their holders, sends mail and plans programmes. Its hard part is what any application
of Server Functions has to get right: requests that check what they read and write later, retries of
a key, interruptions between two transactions.

- [Inventory](#inventory)
- [Modules](#modules)
- [Runs, bounds and fairness](#runs-bounds-and-fairness)
- [Proofs](#proofs)
- [Findings](#findings)
- [What is not modelled](#what-is-not-modelled)
- [Plan](#plan)

## Inventory

### In the browser

**Browser renderer** (`client/browser-renderer.ts`, `client/react-dom-renderer.tsx`).
State: the render on screen, a counter of publications, and a Map of live trees in publication order,
each with a `committed` and a `retired` promise. Operations: `navigate`/`refresh` schedule a tree,
`discard` cancels one by publishing the current tree again, `commit` runs in a layout effect and
retires trees. React is free to skip renders that newer ones overtook and to run an effect twice.
Correct when: a tree is retired exactly when nothing can show it any more, `commit` never throws, a
late `discard` changes nothing, and every `discard` settles.

**Client router** (`client/client-router.ts`, `client/navigation-routing.ts`).
State: the reducer's visible navigation and candidate; per navigation a handler, an abort signal, a
Flight response and the fibers that watch for the end of the response and for the retirement of the
tree. Operations: one `navigate` handler with everything it awaits, and the commands of the reducer.
It drives the renderer and the route loader and is driven by the Navigation API. Hard: a navigation
begins, is aborted or superseded at any await of its predecessor. Correct when: no event reaches
the reducer out of order, no response leaks and none is cut off under a tree that can be shown,
history follows the screen, and the handler of every navigation ends, for an aborted one with its
tree.

**Route loader** (`client/route-loader.ts`).
State: the current cache of complete trees by history entry, its dispose listeners, and the caches
that closures captured. Operations: load (from the cache or the network), cache a complete route,
prepare a refresh, invalidate. Correct when: a traversal gets the page of its entry, nothing crosses
an invalidation, and listeners and cache agree.

**Route refresh** (`client/route-refresh.ts`) and **Server Function calls**
(`client/server-fn/call-server.ts`).
State: the one refresh fiber in a `FiberHandle`, the order of the latest mutation. Operations: start,
wait for idleness, load, publish, await the commit; select a mutation's response or a refresh as the
source of the new tree. Hard: responses out of order, a navigation that begins at any point,
interruption with asynchronous cleanup. Correct when: at most one refresh runs, it yields to
navigation, the screen matches the entry, and the latest mutation becomes visible.

**Initial Flight stream** (`client/initial-flight-stream.ts`).
State: an array that inline scripts push to until the client takes it over. Correct when: every chunk
arrives once and in order and the stream is closed only at the end.

**Flight client, browser shell** (`client/flight-client.ts`, `client/application.ts`, ...):
decoding is React's; the rest is start-up order and wrappers of browser interfaces.

### On the server

**Flight into HTML stream** (`server/flight-html-stream.ts`).
State: buffered HTML, a withheld tail, a flush timer, the Flight reader, two completions, all over a
`TransformStream` with backpressure. Correct when: HTML is intact with its closing tags last, Flight
is complete and in order between pieces of markup, and the response settles whichever side fails.

**Request handling, Server Function execution, Flight renderer** (`server/application.ts`,
`server/server-fn/`, `server/flight-renderer.tsx`, `server/html-renderer.tsx`).
State of one request: the fiber of its handler, the middleware it entered, its scope (a stack of
finalizers), the Server Function, the producer of a stream it returned, the scope of the Flight render
with the fibers of its tasks, the body, the client. Operations: prepare, enter middleware, execute,
refresh, render, respond, stream, release. Hard: the client leaves at any point; tasks and producers
run on fibers of their own; a function and the route it refreshes bring different middleware.
Correct when: no work outlives a resource it was given, each middleware runs once and inside of what
it requires, the refresh admits what the page admits, and a request that is over is cleaned up.

**Application definition** (`application/`): middleware chains of views and nested Routes, route
patterns, their collisions, the joined and compiled route table. Correct when: chains have no
duplicates and keep every dependency, what `mount` compared is what compiling registers, and every page
can be reached by some request that reaches no other page.

### In development

**Development server** (`build/dev.ts`, `build/dev-channel.ts`, `build/rspack.ts`).
State: Rspack's watch state and a queue of events, the startup fiber, a `ScopedRef` with the
generation, a `Deferred` per build outcome, scopes of services and requests, the update to announce.
Hard: builds begin while a generation starts or replaces another, startups stall, fail, die or are
interrupted, requests wait, run and stream across all of this. Correct when: a request follows the
newest build the server knows of, never runs outside its generation and never hangs, no generation
leaks, and browsers hear what changed.

**Development client** (`dev/client.ts`, `dev/hmr-update.ts`, `dev/panel.tsx`).
State: the subscription to the server's updates, what is acknowledged and pending, whether an update
is being settled, the render status, the panel. Operations: record an update, check and apply a hot
update, refresh the route, reload, show and clear diagnostics. Hard: updates arrive while an earlier
one is settled, the connection is lost, the page was loaded before a build and subscribes after it, when
only the latest update is replayed, a navigation interrupts the refresh an update asked for. Correct when:
a page with nothing left to do shows what it was told of, and its panel agrees with the build and the
screen.

**Build, command line, packaging** (`build/`, `cli.ts`, the other packages): sequential file work.

### The event platform

**Sale of tickets** (`modules/registration`, `modules/registration-settings`, `modules/orders`).
State: a ticket type's total, reserved and sold seats, a discount code's redemptions, the questions of
the checkout, orders by idempotency key, tickets. Operations: reserve, charge, complete, fail, refund,
resize, open and close the sale, ask and archive questions. Hard: two requests with one key, an
interruption before or in the charge, a process that stops between charge and completion. Correct
when: the counters are the orders they stand for, no seat is sold twice, a charged and completed order
has one ticket, and every receipt of a checkout names it.

**Day of the event** (`modules/check-in`, `modules/communications`, `modules/waitlist`,
`modules/attendee`, `modules/reporting`).
State: tickets with an audit trail, the outbox with its senders, the waiting list, one announcement.
Operations: scan and undo, refund, notify, announce, open the dashboard, deliver mail. Hard: two staff
members scan one ticket, two senders take one message, a refund comes in between. Correct when: the
audit trail explains every ticket, mail that is marked sent was delivered, mail and records commit
together, and all pages give the same figures.

**Planning** (`modules/event-authoring`, `modules/programme`).
State: the event's details and status, ticket types, rooms, speakers, sessions. Operations: each
request checks a workspace it read, and writes under triggers of the database. Correct when: nobody
and no room is booked twice, everything lies inside the event, and the status moves on only along its
transitions.

## Modules

| Module | Models | State and actions |
| --- | --- | --- |
| `TreeRetirement` | what the renderer promises its clients | the screen, the trees React may still show, the retired trees; no tree is retired while it can be shown |
| `BrowserRenderer` | `browser-renderer.ts`, React as environment | `Schedule`, `Discard` are `schedule` and its `discard`; `ReactCommits` is React choosing a queued publication and running `commit`; `ReactRepeatsEffect` the doubled effect. The Map is a function with each key's place (`at`), because `set` keeps a place and `delete`+`set` does not |
| `RendererCancellation` | the same with a record of who was cancelled | a history variable, no change of behaviour |
| `RouterReducer` | `reduceRouterState` | one operator per event; each returns the next state and its command. A `TypeError` of the code is a command too, so that its absence can be checked |
| `ClientRouter` | `client-router.ts` over `RouterReducer` and `BrowserRenderer` | one action per stretch of code between two awaits: `Navigate`, `StartLoad`/`StartCached`, `LoadRoute`, `AwaitCommit`, `NoticeCommit`, `Continue`, `CommitHistory`, the watchers `NoticeFlight` and `NoticeRetirement`, `FinishDiscard`, aborts, and refreshes as a further publisher. A handler that drops its own tree is `abandoned` until that tree retires; one that a successor displaces returns at once, because the router has let go of it |
| `ClientRouterProofs` | | theorems about `BrowserRenderer`, and about `ClientRouter` above it |
| `RouteLoader` | `route-loader.ts` | `Request`, `Decode`, `Arrive`, `CacheRoute` for navigations; `StartRefresh` ... `CommitRefresh` for refreshes and responses; fragment navigations and disposal as environment |
| `RouteLoaderProofs` | | theorems about `RouteLoader` |
| `RouteRefresh` | `route-refresh.ts`, `call-server.ts` | fibers with their phase, `SelectSource` and `ApplyResponse` before and after the interruption of an older refresh; navigation and React coarse. Trees carry the version of the server's data |
| `RouteRefreshProofs` | | theorems about `RouteRefresh` |
| `FlightHtmlStream` | `flight-html-stream.ts`, `initial-flight-stream.ts` | both sides of `injectFlightStream`, the timer, the transform stream's queue, the browser's parser and `Attach`. A document is a sequence of bytes with their batches; React cuts every batch into chunks anywhere (`TakeChunk`) |
| `FlightHtmlStreamProofs` | | theorems about `FlightHtmlStream` |
| `DevGenerations` | `dev.ts`, `dev-channel.ts`, `rspack.ts` | Rspack's callbacks, the watcher, the startup fiber (`Acquired`, `Replace`, `AcquireFails`, `Abandon`, ...), requests with handler and body, shutdown |
| `DevGenerationsProofs` | | theorems about `DevGenerations` |
| `DevClient` | `dev/client.ts`, `dev/hmr-update.ts`, `dev/panel.tsx` | the server as a page knows it (`BuildSucceeds`, `BuildFails`), the document (`LoadDocument`, `Hydrate`, `ReloadByHand`), `Subscribe`, `TakeUpdate`, `CheckUpdate`, `SettleUpdate` for the client's fiber, `FinishRefresh`, `LoseRefresh`, `Navigate`, `ReadStatus` for the screen, the panel's events |
| `DevClientProofs` | | theorems about `DevClient` |
| `MiddlewareScopes` | `ersc.ts`, `route-graph.ts` (chains) | views as chains without duplicates whose services are provided; how a nested Routes joins its chain to the inherited one |
| `ServerRequest` | `application.ts`, `server-fn/`, `flight-renderer.tsx`, `html-renderer.tsx`, `render-runtime.ts` | `Visit` compiles the chain of the page; `Arrive` ... `Respond`, `EndBody` are the handler's fiber; `RunTask`, `FinishTask` the render; `RegisterProducer`, `EndStream` the returned stream; `Disconnect` the client; `Release`, `CloseScope` and `Close` the finalizers, from the last acquired to the first |
| `RoutePaths` | `application/routes.ts`, `route-path.ts`, `namespace.ts` | `AddPage` and `Mount` as operators over Routes as values; `Matches`, `Precedes` and `Serves` are the HTTP router of Effect, as the code relies on it; `Spelled` is the request that spells a pattern |
| `RouteGraph` | `application/routes.ts`, `route-graph.ts` | the modules of an application call `page` and `mount` on any Routes they hold (`CallPage`, `CallMount`); `compileRouteGraph` goes through one of them (`Compile`, `VisitRoutes`, `FinishCompiling`), its recursion as a stack of visits |
| `Server` | `application/definition.tsx`, `server/application.ts` | `RouteGraph` until the destinations are handed to the HTTP router (`Listen`), then `ServerRequest` |
| `ServerRequestProofs` | | theorems about `ServerRequest` and the chains of `MiddlewareScopes`, about `RouteGraph`, and about both in `Server` |
| `SeatLedger` | what the sale promises | seats by key: free, held, sold, released; a key holds at most one and never one after its release |
| `TicketSales` | `modules/registration`, `modules/orders`, `modules/registration-settings`, ticket types of `modules/event-authoring` | one action per transaction (`ReserveOrder`, `ReplayOrder`, `CompleteOrder`, `FailOrder`, `Refund`, ...), `Charge` between them, `Crash`; implements `SeatLedger` |
| `EventDay` | `modules/check-in`, `modules/communications`, `modules/waitlist`, `modules/attendee` | extends `TicketSales`: `Scan` reads and `Transition` writes, `RefundOrder`, `NotifyWaitlist`, `SendAnnouncement`, `OpenDashboard` queue mail in their transaction, `Deliver` and `MarkEmailSent` come later |
| `EventViews` | `modules/reporting`, the queries behind the other pages and the pages (`components/`) | each page's figures, and what it offers, as an operator over the tables it reads |
| `EventPlanning` | `modules/event-authoring`, `modules/programme`, triggers of `Migrations/` | `Check` and `Reject` against what was read; one write per kind of command, with the constraint or trigger as its guard; `Abort` when the database refuses; the public programme and the forms of the editor as operators. Seats are pairs of a type and a number, so that a sum of seats is a cardinality |
| `EventPlatformProofs` | | theorems about `TicketSales`, `EventDay`, `EventViews` and `EventPlanning` |

`ClientRouter` extends `RouterReducer` and `BrowserRenderer`: each of its publishing actions is a
conjunct with `Schedule` or `Discard`, so the real renderer runs below the router. It sees the cache as a map from entries to responses
that an invalidation empties; `RouteLoader` has the cache in detail. Refreshes in `ClientRouter`
publish only while no navigation is under way; `RefreshYields` of `RouteRefresh` is the reason that
this is what refreshes do. `DevClient` takes announcements as `DevGenerations` makes them.
`Server` puts `RouteGraph` and `ServerRequest` together: before a request arrives, its application has
compiled its Routes. The request may be at any of their pages, so `Listen` forgets them. `EventDay` runs on the transactions of `TicketSales`, one
`Sell` standing for a checkout from reservation to completion, and `EventViews` reads both.

JavaScript runs to completion, so an action is all the code between two awaits. Effect fibers run
synchronously until they suspend; where a fiber starts immediately, its first stretch belongs to the
action that forks it (a refresh up to its first wait, a response body up to its registration with the
generation's scope). Continuations of promises and resumptions of fibers are actions of their own, in any order, except
that microtasks drain before the next task (`Drained` in `ClientRouter`).

Abstractions worth knowing:

- A tree is the order of the render that scheduled it; a response is its navigation's generation; a
  history entry stands for its identity and its id.
- `ClientRouter` treats the three kinds of document fallback as one outcome.
- `RouteRefresh` lets React commit the newest tree only (`BrowserRenderer` has the other choices), and
  leaves out the streams that published refreshes keep. A navigation that is given up while its tree is
  on screen joins `abandoned`, whose trees `ScreenMatchesPage` excepts.
- `FlightHtmlStream` has four kinds of bytes: text and three pieces of the closing tags `</`, `body>` and
  `html>`. The first is in the trailer twice, so that a beginning of the trailer can be mistaken for
  another, as in the bytes of `</body></html>`. The queues of the stream have the default sizes of the
  Streams standard.
- `DevGenerations` runs the server compiler in every build. A build of the client alone would leave the channel's mark
  as it is and at most repeat a refresh. Effect's `Deferred`, `ScopedRef`, `FiberHandle` and scopes
  are modelled from the version in `vendor/effect`; its `FiberHandle.clear` forgets only the fiber it
  interrupted, and the mutant `ApplyAndDrop` of `RouteRefresh` shows what would happen otherwise.
- `ServerRequest` has the finalizers that bound work: one per middleware, one for a render (its fibers
  and its abort signal together) and one for a producer. The refresh applies the chain of the page link
  by link and skips what the function's scope applies already (`SkipMiddleware`), where the code filters
  the chain first; nothing can observe the difference.
- `RoutePaths` folds case for literals only, as the code does; `Routes.page` returns a new value of the
  same scope, so Routes are values.
- `RouteGraph` has the paths and pages of Routes. Which middleware a compiled page gets is `Visit` of
  `ServerRequest`; that the root has a Layout is left out.
- `DevClient`: an update that asks for a refresh is *excused* when the refresh was interrupted (by a
  navigation or a reload) or failed, because nothing repeats it. The replay that a subscription begins
  with is *heard* like any other update, but the client skips it when its hash is that of the page's
  bundle; `replayed` records that, and `PageCatchesUp` excepts it. The loss of the socket ends the development client until the page is reloaded.
- `TicketSales` has one ticket type and one discount code. A seat may be set aside outside of any order
  (`Held`), because the seeds do that. The fingerprint of a seeded order is NULL in the database and
  never compared. Memberships and access control are left out: no code changes them.
- `EventPlanning` has instants with the two spellings the database holds, `...:00Z` in seeded rows and
  `...:00.000Z` elsewhere, since the triggers compare text. An event's version stands for the text of `updatedAt`, and every
  edit gets a new one.
- `EventViews` reads all figures of a page at one moment; the report takes three statements.

Definitions that begin with the comment "Mutant of" are not part of any specification. Each is a
plausible mistake in the definition it follows, which breaks the property it was written for.

## Runs, bounds and fairness

| Run | Configuration | Properties | States |
| --- | --- | --- | --- |
| `router` | `MCClientRouter`: 2 navigations, 2 entries, 1 refresh, 6 publications | `LiveIffDisplayable` retirement is exact; `EventsAccepted` no event reaches the reducer out of order; `CacheExact` complete responses of the right entry only; `NoTruncatedTree` no tree is cut off while it can be shown; `HistoryMatchesScreen`; `HandlerSettles` every handler ends or waits for its own tree on screen, `StreamsClose` (liveness) | 246,272 |
| `renderer_cancellation` | `MCRendererCancellation`: 5 publications | `CancelledTreeStaysAway`, violated, see Findings | |
| `route_cache` | `MCRouteLoader`: 3 loads, 3 entries, 3 invalidations | `ServesOwnPage` a traversal gets the page of its entry; `NoStaleRoute` nothing crosses an invalidation | 265,233 |
| `route_refresh` | `MCRouteRefresh`: 2 mutations, 1 hot update, 2 navigations | `RefreshYields` to navigation; `ScreenMatchesPage` but for an abandoned tree; `LatestMutationShown` | 546,511 |
| `html_stream` | `MCFlightHtmlStream`: 4 documents, 3 Flight chunks | `DocumentIntact` HTML and Flight arrive whole, in order and inside the body; `EagerFlightBetweenBatches` for a consumer that keeps up; `FlightReachesBrowser` hydration is never left waiting; `ResponseSettles` (liveness) | 42,473 |
| `dev_generations` | `MCDevGenerations`: 3 builds, 2 requests | `RequestsInsideServices`, `FollowsNewestBuild`, `OfferedGenerationAdmits`, `NothingLeaks`; `RequestsSettle` (liveness) | 264,700 |
| `dev_updates_lost` | `MCDevGenerationsLost`: 3 builds | `ServerChangesAnnounced`, violated, see Findings | |
| `dev_client` | `MCDevClient`: 3 builds, 1 visit | `PageCatchesUp` with Server Components and client code; `DiagnosticsAgree` the panel agrees with build and screen; `UpdatesSettle` (liveness) | 484,618 |
| `server_request` | `MCServerRequest`: 3 middleware, 6 views, 2 tasks; 7 paths, 3 pages, 4 calls of `page` and `mount` | `WorkInsideResources`; `ScopesCompose` middleware once and inside what it requires; `PagesServed` every page of every compiled application can be reached; `RequestEnds` (liveness) | 718,671 |
| `ticket_sales` | `MCTicketSales`: 3 keys, 2 requests, 1 question, capacity 3, 1 redemption | `InventoryExact`, `RedemptionsExact` the counters are the orders; `TicketsFollowOrders`; `ReceiptsAgree` one ticket per checkout; `KeepsLedger` refines `SeatLedger` | 65,751 |
| `event_day` | `MCEventDay`: 1 ticket, 2 staff, 2 senders, 2 scans | `AuditExplainsStatus`, `SentWasDelivered`, `MailFollowsRecords`, `ViewsAgree` | 1,004,921 |
| `event_planning` | `MCEventPlanning`: 3 requests, 2 rooms, speakers, sessions and ticket types, 3 slots, capacity 2 | `NobodyTwice` no room or speaker is booked twice; `PlanInsideEvent`; `StatusMovesOn` | 222,728 |

States are distinct states, after symmetry where the configuration states it.

Why the bounds suffice:

- *Router.* The reducer holds two navigations, the visible one, at first the document, and the candidate,
  which the second navigation supersedes. With two entries
  traversals return to cached routes. Six publications are one render and one discard for each
  navigation and for the refresh, whose interplay is with the candidate and the visible tree only.
  What the renderer promises on its own is proved for every number of publications.
- *Route loader.* A race on the cache needs a load that began before an invalidation, the load that
  caused it and one after it; three entries give a fragment navigation, a replaced entry and another
  page.
- *Route refresh.* Two mutations can answer in either order, a hot update is the third fiber that
  competes for the handle, and two navigations let one abort or overtake the other's effects.
- *HTML stream.* One document has its closing tags split between batches, one has false starts of them in
  the text, one has text after them, and one ends in the middle of them; each batch is cut into chunks
  in all ways, the closing tags in one piece among them. Three Flight chunks fall before, between and
  after the batches.
- *Development server.* Three builds let one startup be interrupted or replaced while the next event
  is queued and the outcome of the last arrives; one request can wait while the other runs.
- *Server request.* Every chain without duplicates over three middleware is reached, with one that
  requires another and one that views place differently; two tasks let one finish or be refused while
  the other runs. A request renders once and returns at most one stream. The tried paths overlap,
  differ in case and in the names of their parameters; four calls declare two pages, nest Routes twice and
  mount the same Routes in two places.
- *Development client.* Three builds let an update arrive while one is settled and another is queued,
  and a page subscribe between builds; one navigation can interrupt a refresh.
- *Sale.* Two requests race for one key while a third key wants the last seat of three, one of which is
  set aside; one redemption makes the limit of the code bite.
- *Day.* Races are over one ticket: two staff members and two senders are all that can meet there, and
  two scans let a check-in be undone and repeated.
- *Planning.* A stale check needs the request that made it and one that writes in between; a third
  changes the event under both. Of the three slots two meet and one overlaps both.

`CHECK_DEADLOCK FALSE` appears where a finite session ends (all navigations, builds or chunks used up,
the request closed) or, in the run of the renderer's cancellation, where the publications are used up.

Fairness is stated in these specifications and nowhere else:

- `FairRouterSpec`: promise continuations and fibers run, a request is answered or fails, React
  renders. That a response ends, or that the browser commits a history entry, is *not* assumed: a
  Flight response may stream for ever, and `HandlerSettles` ends where the browser takes over. Nor is it
  assumed that another tree ever replaces the one on screen, for which the handler of a navigation
  waits that was aborted after React's commit; the property allows just that.
- `FairSpec` of `FlightHtmlStream`: React renders its document, Flight ends, timers fire, the consumer
  reads and the parser parses. A stalled consumer is an abort or waits for ever; then nothing is owed.
- `FairSpec` of `DevGenerations`: fibers run, Rspack finishes what it builds and makes its first build,
  applications start or fail, and a stopping server disconnects its clients. Handlers and clients may
  take for ever, so the replacement of a generation must not depend on them; nor does it, since
  it cancels them. A startup that stalls for ever keeps its requests waiting
  until the next build; the documentation says so, and the assumption excludes it.
- `FairSpec` of `DevClient`: the event loop runs the client's fiber (`UpdateStep`) and loads a document
  that was asked for. Nothing is assumed of builds, refreshes or the connection.
- `FairSpec` of `ServerRequest`: what was interrupted finishes its finalizers, and a scope that began to
  close goes on closing; Effect's scopes do both on the fiber that closes them. Functions, streams,
  tasks and middleware may take for ever, so a request ends because it is over or its client is
  gone, never because its work happens to finish.

## Proofs

`ClientRouterProofs` proves first, for every `MaxPublications`, what the renderer promises the router. The
run `router` checks `LiveIffDisplayable` below the router, where all of these theorems hold as well; the
other properties are proved only:

| Theorem | States |
| --- | --- |
| `TypeCorrect` | `Spec => []TypeOK` |
| `MapSorted` | `Spec => []MapInPublicationOrder` |
| `ExactRetirement` | `Spec => []LiveIffDisplayable` |
| `NoCommitThrows` | `Spec => []CommitsAccepted` |
| `LateDiscardIsHarmless` | `Spec => []VisibleTreeStays` |
| `Refinement` | `Spec => KeepsContract`: the renderer implements `TreeRetirement` |

The only assumption is `MaxPublications \in Nat`. `LiveIffDisplayable` is not inductive: it says which
trees are live, not why `commit` will find the right ones. `IInv` adds the link between the Map and
React's queue. `QueueInv`: queued publications are distinct and newer than the screen. `MapInv`: an
entry's place is the order of its last publication, and no publication shows a tree after the tree's
last one. `LastInv`: that last publication is still queued, or the screen has passed it and
shows the tree. `TagInv`: a tree that was never on screen can get there only by its own render.
`RetiredInv`: retired trees are not live. `commit` deletes the entries whose last
publication is at or before the one it commits, `current` excepted; by `LastInv` those are exactly the
trees no queued publication shows. One lemma per action shows that `IInv` is preserved
(`ScheduleIInv`, `DiscardIInv`, `CommitIInv`, `RepeatIInv`), with `DiscardedMap` and `CommittedMap`
saying first what the Map becomes.

Then it proves, for every finite set of navigations, every set of history entries and every bound on
refreshes:

| Theorem | States |
| --- | --- |
| `RendererUnderRouter` | `RouterSpec => Spec`: what is proved of the renderer holds below the router |
| `ExactUnderRouter` | `RouterSpec => []LiveIffDisplayable` |
| `RouterTypeCorrect` | `RouterSpec => []RouterTypeOK` |
| `AcceptedEvents` | `RouterSpec => []EventsAccepted` |
| `ExactCache` | `RouterSpec => []CacheExact` |
| `UntruncatedTrees` | `RouterSpec => []NoTruncatedTree` |
| `ScreenMatchesHistory` | `RouterSpec => []HistoryMatchesScreen` |

The assumption is `RouterAssumption`: navigations are numbered in the order they begin, and `NoEntry` and
`Pending` are not entries. Every action of the router leaves the renderer alone or takes one of its
steps (`RendererStep`), so the renderer's `IInv` may be used throughout. `RouterInv` relates how far
a handler got to what the reducer knows of it. `CandidateInv`: the candidate is the navigation that
loads or whose render is awaited, and a handler that awaits one is the candidate unless it was
aborted. `VisibleInv`: the visible navigation was rendered, its entry is pending until its handler ends,
and its flight is complete only once the watcher has said so. Hence `EventsAccepted`. `LatestInv`: the
candidate and the native navigation are the latest navigation, so only one handler can be waiting.
`LoadedInv`: nothing was published for a handler that still loads, and a flight is watched only after
the render. A handler that was abandoned owns nothing in the reducer, so its return when the tree has
retired disturbs no part. `ScreenInv` is what `HistoryMatchesScreen` needs, and the one that takes all parts together:
no publication comes after an awaited render, because refreshes are published only between navigations and
withdrawn only before a render; so when the render is committed the queue is empty, and until the
entry is committed whatever is queued restores the same tree.

`RouteRefreshProofs` proves, for every set of mutations and hot updates and every number of navigations:

| Theorem | States |
| --- | --- |
| `TypeCorrect` | `Spec => []TypeOK` |
| `RefreshesYield` | `Spec => []RefreshYields` |
| `PageMatchesScreen` | `Spec => []ScreenMatchesPage` |
| `LatestShown` | `Spec => []LatestMutationShown` |

The assumption is `RefreshAssumption`: fibers are named apart from each other, from `NoFiber` and from
the numbers that name navigations. The invariant has two halves. `IInv` is about who may publish: the
only fiber that runs is the one in the handle (`HandleInv`), so a navigation that interrupts the handle
has interrupted everything; what loads or may still be applied is of the page of the current entry
(`PageInv`); the entry of a navigation under way is newer than all others, so its tree is confused with
none (`EntryInv`); between navigations the newest tree and the visible one belong to the page
(`ScreenInv`), or to a navigation that was abandoned while its tree was on screen, which is why a
discard may fall back to the visible tree. `ShowInv` is about versions: a
refresh that loads beside a call whose caller has its result began after that call was executed
(`LoadInv`), and the effect of the latest settled call is on screen, on its way there, or was
preempted (`OnItsWay`). `OnItsWay` has one clause per phase of a navigation, because each
phase can be undone in its own way: a navigation that is aborted while it loads leaves the newest
tree, one that is aborted after it published brings back the visible one, and one that is aborted after
React's commit leaves its own. One lemma per action and half.

`RouteLoaderProofs` proves, for every set of entries and loads and every bound on invalidations:

| Theorem | States |
| --- | --- |
| `TypeCorrect` | `Spec => []TypeOK` |
| `PagesOfEntries` | `Spec => []ServesOwnPage` |
| `FencedInvalidation` | `Spec => []NoStaleRoute` |
| `ExactListeners` | `Spec => []ListenersMatchCache` |

The assumption is `LoaderAssumption`: the first entry is an entry, the document's load is none of the
others and the bound on invalidations is a number. The three properties speak of the cache only, but
what the cache will hold is decided by the loads under way, so `IInv` says what those remember.
`PageInv`: a navigation has the page of its entry, a refresh that of the current entry, a response that
of the entry it arrived for; after `prepareRefresh` or a commit, a load's entry exists and has the
load's page. `OneActivity`: no refresh is loaded during a navigation, so no navigation moves
the current entry away from a refresh. `CachedDone`: a cached tree's load is over and never becomes
another load. The page of an entry changes only when
a fragment navigation creates it; only a navigation can remember an entry that does not exist yet, and
the fragment step ends that navigation (`EndedLoads`). A traversal the cache answers moves the current
entry to another page and ends the refreshes that remembered the old one.

`ServerRequestProofs` proves, for every finite set of tasks and every set of middleware and views that
satisfies `ViewsAssumption`, and for every set of words, paths and pages and every number of calls:

| Theorem | States |
| --- | --- |
| `TypeCorrect` | `Spec => []TypeOK` |
| `MiddlewareComposes` | `Spec => []ScopesCompose` |
| `RuntimeAdmitsEntered` | `Spec => []RuntimeMatchesScopes` |
| `ResourcesOutliveWork` | `Spec => []WorkInsideResources` |
| `GraphTypeCorrect` | `GraphSpec => []GraphTypeOK` |
| `PagesAreServed` | `GraphSpec => []PagesServed` |
| `ServerKeepsPromises` | `ServerSpec => []` of `PagesServed` and the last three of the request |

`ViewsAssumption` is what `withMiddleware` ensures: a view lists no middleware twice and provides what
each requires. `RequestAssumption` says that middleware are not named like the two other finalizers.
The proof has three parts. *Chains*: joining two chains that share
a beginning leaves no service unprovided, because what a middleware requires is in the shared part or
comes along in the right order (`JoinedServices`), and one more middleware keeps a chain proper
if its services are there (`ExtendedChain`). *Phases*: `EnteredInv` says that the links left
are the end of the chain the handler goes through, and that everything before them was entered
now or with the function; hence the entered middleware are those of the function when it runs and the
active ones when rendering begins (`PhaseInv`). *The scope*: a render lies on top of the
scope until it is closed (`RenderInv`), and everything the function entered lies below the producer
of its stream (`ProducerInv`), so that releasing from the end never takes a resource from
below running work. `PushedScope` and `PoppedMembers` carry this over what is acquired and released.

`PagesServed` asks for a request that reaches a page and no other. The proof gives it: `Spelled` keeps
the literals of the page's pattern and puts for each parameter a word that no path spells (`Other \notin
Words`, which `PathsAssumption` can say because requests have more words than the paths of an
application). A pattern that takes this request has a parameter wherever the page's has one; unless both
have one shape, there is a first place where only the other has a parameter, and there the router prefers
the page's literal (`SpelledPrecedes`; the first place exists because numbers are well-founded,
`LeastPlace`). So it is enough that no two destinations have one shape. The invariant that gives this
runs from the calls to the destinations. `Exact`: Routes know the paths of all of their pages, however
deeply nested, and their pages and mounts claim paths of different shapes. `mount` compares the *joined*
paths, so it keeps this (`MountKeepsExact`); it would not if it compared the child's own. A prefix has no
parameters, so paths of different shapes keep different shapes below it (`JoinedShape`). A visit splits
what it claims among the pages and the mounts it finds (`VisitSplits`; joining prefixes is associative),
so that the visits still to be made and the destinations so far never overlap (`VisitsInv`,
`CompiledInv`) and are together the paths of the application (`Covered`). `GraphInv` is their
conjunction.

`FlightHtmlStreamProofs` proves, for every document that `StreamAssumption` allows (any bytes, in batches
that follow each other) and every number of Flight chunks:

| Theorem | States |
| --- | --- |
| `StreamTypes` | `Spec => []TypeOK` |
| `DocumentStaysIntact` | `Spec => []DocumentIntact` |
| `EagerFlightStaysBetween` | `Spec => []EagerFlightBetweenBatches` |
| `FlightArrives` | `Spec => []FlightReachesBrowser` |

`DocumentIntact` says what the output is, not what is missing from it. `HtmlInv` accounts for every
rendered byte: for some `w`, the first `w` bytes of the document were written, then come the tail, the
buffer and what still arrives, each at its place. It also says that the tail is the *longest* beginning
of the trailer with which the bytes before the buffer end (`Held`); by that `Finish` can tell a document
with its closing tags from one without, and neither repeats nor loses them. The next tail is computed from
the old tail and the buffer only, not from the document: a beginning of the trailer that reaches further
back than the old tail would have been a longer tail then (`FlushedParts`, the lemma that would be
false of a tail of fixed length). `FlightInv`: the scripts are the first chunks in order, all of those
that were read unless the stream failed, and a completed Flight stream was read to its end, so a
response that closes has it all. `BufferInv`: the flush of the end leaves nothing buffered, and between flushes
only whole batches are rendered. For an eager consumer `HtmlInv` adds that `w` parts no batch
(`Apart`), since every chunk of a batch arrives before its timer fires; a script goes there.
`BrowserInv`: the chunks the client has, or finds in the queue, are those of the scripts that ran.

`EventPlatformProofs` proves first, of the sale, for every finite set of keys and every set of requests, forms
and questions:

| Theorem | States |
| --- | --- |
| `TypeCorrect` | `SalesSpec => []SalesTypeOK` |
| `SeatsExact` | `SalesSpec => []InventoryExact` |
| `RedemptionsCounted` | `SalesSpec => []RedemptionsExact` |
| `TicketPerPaidOrder` | `SalesSpec => []TicketsFollowOrders` |
| `OneTicketPerCheckout` | `SalesSpec => []ReceiptsAgree` |
| `SaleKeepsLedger` | `SalesSpec => KeepsLedger`: the sale implements `SeatLedger` |

`IInv` is the conjunction of the four properties with the types and `ChargedInv`: a request that goes on
to complete an order has charged it. The counting lemmas say what `Cardinality` does when an order
enters, leaves or changes its status; the steps of an order are then arithmetic. Of the day it proves
next, for every set of addresses, scans and senders:

| Theorem | States |
| --- | --- |
| `AuditHolds` | `DaySpec => []AuditExplainsStatus` |
| `SentMailWasDelivered` | `DaySpec => []SentWasDelivered` |
| `MailFollows` | `DaySpec => []MailFollowsRecords` |
| `SaleStaysExact` | `DaySpec => []` the four properties of the sale |
| `PagesAgree` | `DaySpec => []ViewsAgree` |

`DayInv` adds to `IInv` what staff, attendees and senders may rely on. `DoorInv` and `TrailInv`: a ticket
that was not issued has no entries, the entries alternate, and the last one is the status of a ticket
that is not cancelled; so a scan that acts on a status it read earlier can be judged by the ticket alone.
`BoxInv` and `SendersInv`: a sender marks what was handed over before, and messages never leave the
outbox, so two senders of one message or an interrupted one do no harm. `MailInv`: which records have
their message, kind by kind. No
action of the day but `Sell` and `RefundOrder` writes a row of the sale. The figures of pages then follow by
counting: tickets by status against orders by status (`TicketSets`), and recipients of an announcement
against its messages (`AnnouncementCounts`). `OffersAccepted` shows that what a page
offers its transaction accepts as long as nothing comes between.

Of planning `EventPlatformProofs` proves, for every set of requests, rooms, speakers, sessions, ticket types and
slots and every capacity:

| Theorem | States |
| --- | --- |
| `PlanningTypeCorrect` | `PlanningSpec => []PlanningTypeOK` |
| `ConflictsPrevented` | `PlanningSpec => []NobodyTwice` |
| `PlanStaysInside` | `PlanningSpec => []PlanInsideEvent` |
| `StatusNeverReturns` | `PlanningSpec => StatusMovesOn` |

`NobodyTwice` speaks of instants and the database compares texts; the invariant (`PlanInv`) has the clash of texts
(`NoClash`), which the triggers preserve, and what a text of an instant can be, from which no clash of
instants follows. `CheckedInv` says what a checked command still satisfies when it is written, `Housed`
that a session's room and speaker exist, `NothingPlanned` that an event that does not exist has no
plan. `SeatsInside` bounds the seats of all ticket types. Their sum is the number of pairs of a type and
one of its seats, so a type that is resized adds or removes pairs of its own and no sum has to be unfolded
(`SeatsChanged`). What the forms offer is accepted because the session's own row already satisfies the
triggers (`BookedFits`).

`DevGenerationsProofs` proves, for every number of builds and every set of requests:

| Theorem | States |
| --- | --- |
| `TypeCorrect` | `Spec => []TypeOK` |
| `RequestsStayInside` | `Spec => []RequestsInsideServices` |
| `NewestBuildFollowed` | `Spec => []FollowsNewestBuild` |
| `OfferedAdmits` | `Spec => []OfferedGenerationAdmits` |
| `NoGenerationLeaks` | `Spec => []NothingLeaks` |

The only assumption is `MaxBuilds \in Nat`. Nothing in the store compares build numbers; that a startup
never brings back an older build than the installed one rests on the order of the queue, and the
invariant has to say so. `EventInv`: each event in the queue follows the one before it, the first is the
one the store waits for (`Upcoming`), the last is Rspack's newest, and a result is still owed (`Owed`)
only while the current outcome is open and there is no startup. So an event that finds a startup
under way is that of a new build, and it can wait in `taken` while the startup is replaced, fails or
is abandoned. `StartupInv`: a startup is that of the newest build the store has heard of, and requests
wait for it until it has replaced the generation or failed. `ScopeInv`: which scopes are open, phase by
phase; in particular the replaced generation admits no more requests from the moment its successor is
acquired, so `Replace`, which awaits those it has, leaves none behind. `OutcomeInv`: only the current
outcome is open, and it settles to that of the newest build. `RequestInv`: a request knows an outcome
at least as new as what it asked for, and is owned by a scope exactly while it runs. One lemma per action.

`DevClientProofs` proves, for every number of builds and visits:

| Theorem | States |
| --- | --- |
| `TypeCorrect` | `Spec => []TypeOK` |
| `PageIsCurrent` | `Spec => []PageCatchesUp` |
| `PanelAgrees` | `Spec => []DiagnosticsAgree` |

The only assumption is that the bounds are numbers. Both properties speak of a client that is done; the
invariant says what must still be on its way when it is not. It holds of a loaded document only, since
loading one starts everything anew. `QueueInv`: the last update in the queue is the latest announcement, so a
client that has emptied its queue has heard it. `SnapshotInv`: nothing is pending before the first
update, which may be a replay of the build that the document already runs. `CodeInv`: the hash of a
build that changed client code is acknowledged only by a bundle that has it (`page.runtime <
server.code` keeps `acknowledged` below `server.code`); a client with nothing to settle has acknowledged
all it was told, and the latest of that is the server's hash. `VersionInv`: an announced change of
Server Components is shown, excused, the replay that the client skipped, still in the queue (`Told`),
pending while it is handled, or being refreshed. `BuildInv` and `ScreenInv`: with an
empty queue the panel agrees with the latest update, and a failed screen has diagnostics or is about
to be reported or refreshed; that a render's failure never replaces that of a build is `ApplyFacts`. One
lemma per action.

Liveness (`HandlerSettles`, `StreamsClose`, `ResponseSettles`, `RequestsSettle`, `UpdatesSettle`,
`RequestEnds`) is outside the prover's reach and is checked by TLC only; every invariant, action property
and refinement that a passing run checks is also proved. One bound on publications, one ticket type and the one announcement are part of the models, not of the
proofs' assumptions.

## Findings

1. **A cancelled tree comes back** (`renderer_cancellation`, `client/browser-renderer.ts:113`). React
   may commit a tree after its `discard` was requested. That tree is then current, so the discard of
   the next candidate publishes it again with status Committed. The cancelled tree is thus put back
   on screen by a cancellation, while its own is still waiting for it to go.
   `docs/architecture/client-router.md:218` promises that late cancellation cannot restore stale UI.
2. **A Server Component change is not announced** (`dev_updates_lost`, `build/dev-channel.ts:41`). The
   mark for the next update is shared by all builds and read only when a generation is ready. A build
   that begins meanwhile, or interrupts the startup, resets it; browsers get a client update, and the
   change of the Server Components waits for the next refresh.

Three more statements, two of the repository and one a reader may expect of it, are not upheld in every schedule. They are defined beside the
properties and no run checks them; adding one to the configuration named gives the counterexample.

- *A mutation's response is dropped* (`LatestResponseRenders` in `MCRouteRefresh`,
  `client/browser-renderer.ts:114`). A navigation publishes over the uncommitted tree of a response and is
  aborted; its discard restores the tree from before the mutation, and nothing refreshes the route
  (`docs/DECISIONS.md` D-065). `LatestMutationShown` excuses this case with `preempted`.
- *A script inside an HTML batch* (`FlightBetweenBatches` in `MCFlightHtmlStream`,
  `server/flight-html-stream.ts:216`). A consumer that stops reading in the middle of a batch makes the
  timer flush half of it, and a Flight script follows. A test says that Flight is interleaved only
  between complete batches, which `EagerFlightBetweenBatches` shows for a consumer that keeps up.
- *A build between document and subscription* (`ReplayShown` in `MCDevClient`, `dev/client.ts:138`). A
  page is loaded, a build changes Server Components only, and the page subscribes. The replayed
  update has the hash of the page's bundle, so the client skips it and the page shows the older Server
  Components until the next change. `docs/architecture/build.md:152` promises no more: the
  first snapshot reconciles a hash that differs. The same happens when a later client build replaces the
  update before the page subscribes. `PageCatchesUp` excepts the first with `replayed`; the second
  is never announced to the page.

What the models of development and of the example say besides, none of which contradicts its
documentation unless noted:

- Completing a build clears the panel when it shows diagnostics of the build, and a failed build
  replaces runtime diagnostics in the panel; a failure and a success in a row thus clear runtime
  diagnostics, which `docs/architecture/build.md:156` says a build does not do. `DiagnosticsAgree` holds
  because the client refreshes a failed screen after every success, and that refresh reports its own outcome.
- A session that begins when a seeded one ends is refused: `...:00Z` is greater than `...:00.000Z` as
  text (`modules/programme/repository.ts:74`).
- A room can become smaller than a session in it, or get a name that differs from another's in case
  only: both are checked against what was read and by no trigger (`modules/programme/service.ts:154`).
- Two edits of an event in one millisecond share `updated_at`, and the second overwrites the first
  (`modules/event-authoring/repository.ts:265`). The model's versions differ, so it does not have this.
- An interruption between reservation and charge leaves the seat held until the same key retries. Of
  two requests with one key, one that is interrupted in the charge fails the order that the other has
  charged, and that one then reports a decline. A transport that fails after the charge gives the form
  a new key (`modules/registration/components/registration-form.tsx:42`), so a retry can charge again.
- A refund keeps the redemption of the discount code.
- A service reports that mail is unavailable, though its refund or notification has committed, when
  a dashboard delivered the message first. `FalseAlarmsOnly` (defined, not run) says that it is never
  the other way round.
- The check-in console counts cancelled tickets as issued (`modules/check-in/repository.ts:95`), the
  report does not; `ViewsAgree` has both as they are.
- Two entries of the audit trail in one millisecond have one id, and the second transaction rolls back.

Known and accepted by the documentation, hence not findings: a navigation that is aborted after React
committed its tree, but before the browser commits its entry, leaves that tree on screen under the
old entry (`docs/architecture/client-router.md:221`, and "The design accepts that interval" under
Failures), and its handler and its response wait until another tree replaces it; a navigation may preempt a refresh and
then fail, which leaves the page as it was; the latest response in invocation order may replace a
refresh that already shows more, if another mutation executed after the response was rendered.
`cacheRoute` (`client/route-loader.ts:82`) stores a tree even if its entry was disposed while the
response streamed; nothing can ask for that tree, and the next invalidation drops it.
When a request's scope closes, what the middleware of the refresh acquired is released before the
producer of a returned stream is joined, which joined the scope earlier; the producer may use
only the function's own middleware, so `WorkInsideResources` asks no more. Nothing joins a native
function (`server/server-fn/request.ts:91`) that is interrupted: its promise cannot be cancelled.

## What is not modelled

- React's rendering, Suspense and transitions beyond which publication it commits; Flight decoding;
  the Navigation API beyond the order of its callbacks.
- The encoding of arguments and responses, script escaping, error digests, transition types, URLs.
- Queries and streams of Server Functions in the browser: they change no route.
- Response headers and `HEAD`, static assets, the Bun server and its configuration.
- The RPC transport of the development channel, source maps, the port.
- Sequential tools: bundler configuration, the command line, packaging, project creation.
- In the event platform: prices, texts, time zones, sale windows, the settings of discount codes other
  than their limit, renaming a ticket's holder, memberships; JSX.
- What the development panel draws, and how stack traces are mapped.
- The other examples and the site, which only read their data, and vendored code.

## Plan

Done, in this order: the renderer with its contract and proofs; over it the router, the cache, refreshes
and mutations; the document stream, the development server and client, the server request with the
application's paths; the event platform's sale with its ledger, the day, its pages and planning. Proofs
follow the models in the order of what others rely on.

Left:

1. Streams that published refreshes keep (`client/route-refresh.ts`), composed with `ClientRouter`.
