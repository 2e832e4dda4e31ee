--------------------------- MODULE ServerRequest ----------------------------
(***************************************************************************)
(* One request of the server, from its arrival to the end of its scope:    *)
(* a Page, a hydrated mutation, a progressive form or a query.  Its scope  *)
(* is the stack of what has been acquired; the last entry is released      *)
(* first.  The request's own fiber, the tasks of the Flight render, the    *)
(* producer of a returned stream and the client proceed independently.     *)
(***************************************************************************)
EXTENDS MiddlewareScopes, FiniteSets

CONSTANT
  Tasks            (* the Page, Layout and Component effects of a render   *)

ASSUME RequestAssumption ==
  /\ IsFiniteSet(Tasks)
  /\ {"render", "producer"} \cap Middleware = {}

VARIABLES
  destination,     (* the middleware chain of the page                     *)
  request,         (* what was asked; never changes once it has arrived    *)
  handler,         (* how far its fiber got                                *)
  chain,           (* the middleware it is about to enter                  *)
  entered,         (* the middleware it entered                            *)
  scope,           (* the finalizers of the request scope                  *)
  fn,              (* the Server Function                                  *)
  producer,        (* the fiber of the stream the function returned        *)
  render,          (* the scope of the Flight render                       *)
  tasks,           (* the fibers in its FiberSet                           *)
  response,        (* what the handler answered                            *)
  aborted          (* the client is gone                                   *)

vars == <<destination, request, handler, chain, entered, scope, fn, producer, render, tasks, response, aborted>>

Modes == {"page", "mutation", "form", "query"}

(* Native and foreign invocations have no middleware of their own.         *)
Operation == [tag : {"Match"}, middleware : Views]
             \cup [tag : {"Native", "IdentityMismatch"}, middleware : {<<>>}]

(* needs is the view in which the components of the tree were made.        *)
Request == [mode : Modes, html : BOOLEAN, needs : Views, operation : Operation]

Requests ==
  {r \in Request :
     /\ r.mode = "page" => r.operation = [tag |-> "Native", middleware |-> <<>>]
     /\ r.html => r.mode \in {"page", "form"}
     /\ r.mode = "form" => r.html}

(* Before a request arrives.                                               *)
NoRequest ==
  [mode |-> "page", html |-> FALSE, needs |-> <<>>,
   operation |-> [tag |-> "Native", middleware |-> <<>>]]

Prepared == request.operation.middleware
IsRefresh == request.mode \in {"mutation", "form"}

(* Mutant of AppliedAlready: the whole chain of the page, once again.      *)
AppliedNever(m) == FALSE

(* A refresh applies what the scope of the function does not apply yet.    *)
AppliedAlready(m) == fn = "completed" /\ m \in Members(Prepared)

(* The middleware that the render runtime is bound to.                     *)
ActiveMiddleware ==
  (IF request.mode = "page" THEN {} ELSE Members(Prepared))
    \cup (IF request.mode = "query" THEN {} ELSE Members(destination))

Init ==
  /\ destination = <<>>
  /\ request = NoRequest
  /\ handler = "compiling"
  /\ chain = <<>>
  /\ entered = <<>>
  /\ scope = <<>>
  /\ fn = "none"
  /\ producer = "none"
  /\ render = "none"
  /\ tasks = [t \in Tasks |-> "none"]
  /\ response = "none"
  /\ aborted = FALSE

-----------------------------------------------------------------------------
(* Before any request: the Routes above the page are visited from the root.*)

Visit(declared) ==
  /\ handler = "compiling"
  /\ \E n \in 0..Len(destination) :
       /\ IsSharedCount(destination, declared, n)
       /\ destination' = JoinedChain(destination, declared, n)
  /\ IsInjective(destination')
  /\ UNCHANGED <<request, handler, chain, entered, scope, fn, producer, render, tasks, response, aborted>>

-----------------------------------------------------------------------------
(* The way in.  A handler that answers without a body is left with its     *)
(* scope to close.                                                         *)

Answer(status) ==
  /\ response' = status
  /\ handler' = "closing"

Enters(middleware) ==
  /\ handler' = "entering"
  /\ chain' = middleware

Arrive ==
  /\ handler = "compiling"
  /\ request' \in Requests
  /\ IF request'.mode = "page" THEN Enters(destination)
     ELSE handler' = "preparing" /\ UNCHANGED chain
  /\ UNCHANGED <<destination, entered, scope, fn, producer, render, tasks, response, aborted>>

(* A bad Origin, body, argument list or reference is answered outside of   *)
(* every middleware.  React calls the function to obtain its invocation: a *)
(* native one runs from here on.                                           *)
Prepare ==
  /\ handler = "preparing"
  /\ \/ /\ Answer("requestError")
        /\ UNCHANGED <<chain, fn>>
     \/ /\ Enters(Prepared)
        /\ fn' = IF request.operation.tag = "Native" THEN "native" ELSE "invoked"
        /\ UNCHANGED response
  /\ UNCHANGED <<destination, request, entered, scope, producer, render, tasks, aborted>>

(* A middleware acquires what it provides for as long as the request lasts *)
(* and calls the rest of the handler.                                      *)
EnterMiddleware ==
  /\ handler = "entering"
  /\ chain # <<>>
  /\ ~AppliedAlready(Head(chain))
  /\ entered' = Append(entered, Head(chain))
  /\ scope' = Append(scope, Head(chain))
  /\ chain' = Tail(chain)
  /\ UNCHANGED <<destination, request, handler, fn, producer, render, tasks, response, aborted>>

SkipMiddleware ==
  /\ handler = "entering"
  /\ chain # <<>>
  /\ AppliedAlready(Head(chain))
  /\ chain' = Tail(chain)
  /\ UNCHANGED <<destination, request, handler, entered, scope, fn, producer, render, tasks, response, aborted>>

(* Or it answers itself, or dies.                                          *)
MiddlewareAnswers ==
  /\ handler = "entering"
  /\ entered # <<>>
  /\ \E status \in {"middleware", "serverError"} : Answer(status)
  /\ UNCHANGED <<destination, request, chain, entered, scope, fn, producer, render, tasks, aborted>>

PassMiddleware ==
  /\ handler = "entering"
  /\ chain = <<>>
  /\ handler' = IF fn \in {"invoked", "native"} THEN "executing"
                ELSE IF request.mode = "query" THEN "rendering" ELSE "decoding"
  /\ UNCHANGED <<destination, request, chain, entered, scope, fn, producer, render, tasks, response, aborted>>

-----------------------------------------------------------------------------
(* The Server Function.                                                    *)

(* What follows a completed function.                                      *)
Refresh ==
  IF IsRefresh THEN Enters(destination)
  ELSE handler' = "rendering" /\ UNCHANGED chain

StartFunction ==
  /\ handler = "executing"
  /\ fn = "invoked"
  /\ fn' = "running"
  /\ UNCHANGED <<destination, request, handler, chain, entered, scope, producer, render, tasks, response, aborted>>

(* A value, or a failure that becomes part of the result.  A function of   *)
(* another ERSC module always fails.                                       *)
CompleteFunction ==
  /\ handler = "executing"
  /\ fn \in {"running", "native"}
  /\ request.operation.tag = "IdentityMismatch" => request.mode # "form"
  /\ fn' = "completed"
  /\ Refresh
  /\ UNCHANGED <<destination, request, entered, scope, producer, render, tasks, response, aborted>>

(* The handle joins the scope before the adapter forks its producer.       *)
ReturnStream ==
  /\ handler = "executing"
  /\ fn = "running"
  /\ request.operation.tag = "Match"
  /\ request.mode # "form"
  /\ fn' = "completed"
  /\ producer' = "forked"
  /\ scope' = Append(scope, "producer")
  /\ Refresh
  /\ UNCHANGED <<destination, request, entered, render, tasks, response, aborted>>

(* Forms keep the HTTP error path, for what their function fails with and  *)
(* for a form state that cannot be decoded.  An interruption is never      *)
(* encoded as a result.                                                    *)
FailFunction ==
  /\ handler = "executing"
  /\ fn \in {"running", "native"}
  /\ \/ /\ request.mode = "form"
        /\ request.operation.tag # "IdentityMismatch"
        /\ fn' \in {"failed", "completed"}
        /\ Answer("requestError")
     \/ /\ request.mode = "form" \/ request.operation.tag = "Match"
        /\ fn' = "failed"
        /\ Answer("serverError")
  /\ UNCHANGED <<destination, request, chain, entered, scope, producer, render, tasks, aborted>>

-----------------------------------------------------------------------------
(* Rendering.                                                              *)

(* Only a page request is refused for its parameters; a refresh leaves     *)
(* them to the Page.                                                       *)
DecodeParams ==
  /\ handler = "decoding"
  /\ \/ handler' = "rendering" /\ UNCHANGED response
     \/ request.mode = "page" /\ \E status \in {"notFound", "serverError"} : Answer(status)
  /\ UNCHANGED <<destination, request, chain, entered, scope, fn, producer, render, tasks, aborted>>

(* The tasks of a render run in a FiberSet of its scope, which is forked   *)
(* from the scope of the request.                                          *)
StartRender ==
  /\ handler = "rendering"
  /\ render' = "open"
  /\ scope' = Append(scope, "render")
  /\ \/ /\ handler' = IF request.html THEN "shell" ELSE "responding"
        /\ tasks' = [t \in Tasks |-> "waiting"]
     \/ /\ handler' = "failing"
        /\ UNCHANGED tasks
  /\ UNCHANGED <<destination, request, chain, entered, fn, producer, response, aborted>>

FinishShell ==
  /\ handler = "shell"
  /\ handler' \in {"responding", "failing"}
  /\ UNCHANGED <<destination, request, chain, entered, scope, fn, producer, render, tasks, response, aborted>>

(* A middleware may still replace the response on its way out, the body is *)
(* not read then.                                                          *)
Respond ==
  /\ handler = "responding"
  /\ \/ handler' = "streaming" /\ response' = "stream"
     \/ entered # <<>> /\ Answer("middleware")
  /\ UNCHANGED <<destination, request, chain, entered, scope, fn, producer, render, tasks, aborted>>

(* The runtime refuses what was made for a middleware that is not active.  *)
RunTask(t) ==
  /\ render = "open"
  /\ tasks[t] = "waiting"
  /\ tasks' = [tasks EXCEPT ![t] =
       IF Members(request.needs) \subseteq ActiveMiddleware THEN "running" ELSE "refused"]
  /\ UNCHANGED <<destination, request, handler, chain, entered, scope, fn, producer, render, response, aborted>>

(* A task ends, or its finalizers do.                                      *)
FinishTask(t) ==
  /\ tasks[t] \in {"running", "finalizing"}
  /\ tasks' = [tasks EXCEPT ![t] = "done"]
  /\ UNCHANGED <<destination, request, handler, chain, entered, scope, fn, producer, render, response, aborted>>

-----------------------------------------------------------------------------
(* The producer of a returned stream.                                      *)

(* onStart puts the fiber into the handle before its work starts; a handle *)
(* that is closed interrupts it.                                           *)
RegisterProducer ==
  /\ producer = "forked"
  /\ producer' = IF "producer" \in Members(scope) THEN "running" ELSE "done"
  /\ UNCHANGED <<destination, request, handler, chain, entered, scope, fn, render, tasks, response, aborted>>

(* It comes to its end, or React lets go of the stream.                    *)
EndStream ==
  /\ producer = "running"
  /\ \/ producer' = "done"
     \/ render \in {"closing", "closed"} /\ producer' = "finalizing"
  /\ UNCHANGED <<destination, request, handler, chain, entered, scope, fn, render, tasks, response, aborted>>

FinalizeProducer ==
  /\ producer = "finalizing"
  /\ producer' = "done"
  /\ UNCHANGED <<destination, request, handler, chain, entered, scope, fn, render, tasks, response, aborted>>

-----------------------------------------------------------------------------
(* The way out.                                                            *)

Last == scope[Len(scope)]

Pop == scope' = SubSeq(scope, 1, Len(scope) - 1)

(* Closing the render scope aborts React and interrupts the FiberSet.      *)
InterruptedTasks ==
  [t \in Tasks |-> CASE tasks[t] = "running" -> "finalizing"
                     [] tasks[t] = "waiting" -> "done"
                     [] OTHER -> tasks[t]]

Unfinished == {t \in Tasks : tasks[t] \in {"running", "finalizing"}}

(* The finalizers of the render scope itself, the runtime of its tasks and *)
(* the signal of React, are part of these two steps; nothing joins the     *)
(* scope of the request after the render.                                  *)

(* Mutant of CloseRender: nothing interrupts the tasks.                    *)
CloseRenderGently ==
  /\ render = "open"
  /\ render' = "closing"
  /\ UNCHANGED <<scope, tasks>>

CloseRender ==
  /\ render = "open"
  /\ render' = "closing"
  /\ tasks' = InterruptedTasks
  /\ UNCHANGED scope

AwaitRender ==
  /\ render = "closing"
  /\ Unfinished = {}
  /\ render' = "closed"
  /\ Pop
  /\ UNCHANGED tasks

(* The body comes to its end once React has nothing left to write; that of *)
(* a document may also fail.                                               *)
EndBody ==
  /\ handler = "streaming"
  /\ \/ /\ \A t \in Tasks : tasks[t] \in {"done", "refused"}
        /\ producer \in {"none", "done"}
     \/ request.html
  /\ handler' = "releasing"
  /\ UNCHANGED <<destination, request, chain, entered, scope, fn, producer, render, tasks, response, aborted>>

(* The client is gone: the fiber of the handler, or of the body, is        *)
(* interrupted.  A running function runs its finalizers first; nothing     *)
(* waits for a native one.                                                 *)
Disconnect ==
  /\ ~aborted
  /\ handler \notin {"compiling", "failing", "releasing", "closing", "closed"}
  /\ aborted' = TRUE
  /\ fn' = IF fn = "running" THEN "finalizing" ELSE fn
  /\ handler' =
       CASE handler \in {"shell", "streaming"} -> "releasing"
         [] fn = "running" -> "unwinding"
         [] OTHER -> "closing"
  /\ UNCHANGED <<destination, request, chain, entered, scope, producer, render, tasks, response>>

FinalizeFunction ==
  /\ handler = "unwinding"
  /\ fn = "finalizing"
  /\ fn' = "failed"
  /\ handler' = "closing"
  /\ UNCHANGED <<destination, request, chain, entered, scope, producer, render, tasks, response, aborted>>

(* flight.release, after a render that failed, or at the end of the body.  *)
Release ==
  /\ handler \in {"failing", "releasing"}
  /\ \/ CloseRender /\ UNCHANGED <<handler, response>>
     \/ /\ AwaitRender
        /\ IF handler = "failing" THEN Answer("serverError")
           ELSE handler' = "closing" /\ UNCHANGED response
  /\ UNCHANGED <<destination, request, chain, entered, fn, producer, aborted>>

(* Mutant of JoinProducer: it is interrupted, but not joined.              *)
InterruptProducer ==
  /\ producer # "finalizing"
  /\ producer' = IF producer = "running" THEN "finalizing" ELSE producer
  /\ Pop

(* A fiber that is not in the handle yet is interrupted when it gets there.*)
JoinProducer ==
  \/ /\ producer = "running"
     /\ producer' = "finalizing"
     /\ UNCHANGED scope
  \/ /\ producer \in {"forked", "done"}
     /\ Pop
     /\ UNCHANGED producer

(* The scope of the request is closed from its end: renders and producers  *)
(* are interrupted and joined before what they use is released.            *)
CloseScope ==
  /\ handler = "closing"
  /\ scope # <<>>
  /\ \/ Last = "render" /\ (CloseRender \/ AwaitRender) /\ UNCHANGED producer
     \/ Last = "producer" /\ JoinProducer /\ UNCHANGED <<render, tasks>>
     \/ Last \in Middleware /\ Pop /\ UNCHANGED <<producer, render, tasks>>
  /\ UNCHANGED <<destination, request, handler, chain, entered, fn, response, aborted>>

Close ==
  /\ handler = "closing"
  /\ scope = <<>>
  /\ handler' = "closed"
  /\ UNCHANGED <<destination, request, chain, entered, scope, fn, producer, render, tasks, response, aborted>>

-----------------------------------------------------------------------------
HandlerStep ==
  \/ Arrive \/ Prepare \/ EnterMiddleware \/ SkipMiddleware \/ MiddlewareAnswers \/ PassMiddleware
  \/ StartFunction \/ CompleteFunction \/ ReturnStream \/ FailFunction
  \/ DecodeParams \/ StartRender \/ FinishShell \/ Respond \/ EndBody

ReleaseStep == FinalizeFunction \/ Release \/ CloseScope \/ Close

Next ==
  \/ \E declared \in Views : Visit(declared)
  \/ HandlerStep \/ ReleaseStep \/ Disconnect
  \/ \E t \in Tasks : RunTask(t) \/ FinishTask(t)
  \/ RegisterProducer \/ EndStream \/ FinalizeProducer

Spec == Init /\ [][Next]_vars

(* What is interrupted finishes its finalizers, and scopes go on closing.  *)
(* Handlers, functions, streams and renders may take for ever.             *)
Fairness ==
  /\ WF_vars(ReleaseStep)
  /\ WF_vars(RegisterProducer)
  /\ WF_vars(FinalizeProducer)
  /\ \A t \in Tasks : WF_vars(tasks[t] = "finalizing" /\ FinishTask(t))

FairSpec == Spec /\ Fairness

-----------------------------------------------------------------------------
(* Types of the state.                                                     *)
TypeOK ==
  /\ destination \in Seq(Middleware)
  /\ request \in Request
  /\ handler \in {"compiling", "preparing", "entering", "executing", "decoding", "rendering",
                  "shell", "responding", "streaming", "failing", "unwinding", "releasing",
                  "closing", "closed"}
  /\ chain \in Seq(Middleware)
  /\ entered \in Seq(Middleware)
  /\ scope \in Seq(Middleware \cup {"render", "producer"})
  /\ fn \in {"none", "invoked", "native", "running", "finalizing", "completed", "failed"}
  /\ producer \in {"none", "forked", "running", "finalizing", "done"}
  /\ render \in {"none", "open", "closing", "closed"}
  /\ tasks \in [Tasks -> {"none", "waiting", "running", "finalizing", "done", "refused"}]
  /\ response \in {"none", "middleware", "requestError", "notFound", "serverError", "stream"}
  /\ aborted \in BOOLEAN

FunctionWorks ==
  fn \in {"running", "finalizing"} \/ producer \in {"running", "finalizing"}

Holds(middleware) == Members(middleware) \subseteq Members(scope)

(* docs/architecture/lifetimes-and-protocols.md: no function, stream or    *)
(* render of a request outlives a resource that the middleware around it   *)
(* acquired, whoever ends first.  A stream may outlive what the middleware *)
(* of the refresh acquired after it.                                       *)
WorkInsideResources ==
  /\ FunctionWorks => Holds(Prepared)
  /\ Unfinished # {} => Holds(entered)

(* However the scopes of function and route diverge, every middleware runs *)
(* once, inside of what it requires.                                       *)
ScopesCompose == IsInjective(entered) /\ ServicesProvided(entered)

(* The middleware that the runtime admits tasks for are those that the     *)
(* request entered.  A refresh renders whatever the page renders.          *)
RuntimeMatchesScopes ==
  /\ \A t \in Tasks : tasks[t] = "running" => Members(request.needs) \subseteq Members(entered)
  /\ \A t \in Tasks : tasks[t] = "refused" => ~(Members(request.needs) \subseteq Members(entered))

(* A request that is over, or whose client is gone, stops its work and     *)
(* closes its scope.                                                       *)
RequestEnds ==
  (aborted \/ handler \in {"failing", "releasing", "closing"}) ~> (handler = "closed" /\ ~FunctionWorks /\ Unfinished = {})
=============================================================================
