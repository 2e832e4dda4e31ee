------------------------ MODULE ServerRequestProofs -------------------------
(***************************************************************************)
(* Proofs about the Server.  ServerRequest, for every set of middleware,   *)
(* views and tasks, comes first; RouteGraph, for every set of words, paths *)
(* and pages and every number of calls, follows, and at the end both of    *)
(* them in one server.                                                     *)
(***************************************************************************)
EXTENDS Server, SequenceTheorems, WellFoundedInduction, TLAPS

Finalizers == Middleware \cup {"render", "producer"}

(* What withMiddleware and compileRouteGraph build.                        *)
ProperChain(c) == IsInjective(c) /\ ServicesProvided(c)

(* The chain the handler goes through, and what it had entered before.     *)
Target == IF request.mode = "page" \/ fn = "completed" THEN destination ELSE Prepared
Base == IF fn = "completed" THEN Members(Prepared) ELSE {}

EnteredInv ==
  handler = "entering" =>
    /\ Len(chain) <= Len(Target)
    /\ \A i \in 1..Len(chain) : chain[i] = Target[Len(Target) - Len(chain) + i]
    /\ Members(entered) = Base \cup {Target[i] : i \in 1..(Len(Target) - Len(chain))}

PhaseInv ==
  /\ handler \in {"compiling", "preparing"} => entered = <<>> /\ scope = <<>> /\ fn = "none"
  /\ handler = "preparing" => request.mode # "page"
  /\ handler = "entering" =>
       /\ fn \in {"none", "invoked", "native", "completed"}
       /\ fn = "none" <=> request.mode = "page"
       /\ fn = "completed" => IsRefresh
  /\ handler \in {"executing", "unwinding"} => Members(entered) = Members(Prepared)
  /\ handler = "executing" => fn \in {"invoked", "native", "running"} /\ request.mode # "page"
  /\ handler \in {"decoding", "rendering"} => Members(entered) = ActiveMiddleware
  /\ fn = "running" => handler = "executing"
  /\ fn = "finalizing" => handler = "unwinding"
  /\ handler = "unwinding" => aborted
  /\ handler \in {"entering", "executing", "decoding", "rendering", "unwinding"} => Holds(entered)

(* A render lies above everything the request entered.                     *)
RenderInv ==
  /\ render # "none" =>
       /\ handler \in {"shell", "responding", "streaming", "failing", "releasing", "closing", "closed"}
       /\ Members(entered) = ActiveMiddleware
  /\ render \in {"open", "closing"} => scope # <<>> /\ Last = "render" /\ Holds(entered)
  /\ render \in {"none", "closed"} => Unfinished = {}
  /\ render = "none" => \A t \in Tasks : tasks[t] = "none"

(* A producer lies above the middleware of its function.                   *)
ProducerInv ==
  /\ \A k \in DOMAIN scope : scope[k] = "producer" =>
       Members(Prepared) \subseteq {scope[j] : j \in 1..(k - 1)}
  /\ producer \in {"running", "finalizing"} => "producer" \in Members(scope)

IInv ==
  /\ TypeOK /\ ProperChain(destination)
  /\ EnteredInv /\ PhaseInv /\ RenderInv /\ ProducerInv
  /\ ScopesCompose /\ RuntimeMatchesScopes

-----------------------------------------------------------------------------
(* Chains and the stack of finalizers as sequences.                        *)

LEMMA AppendMembers ==
  ASSUME NEW S, NEW s \in Seq(S), NEW x \in S
  PROVE  /\ Append(s, x) \in Seq(S) /\ Len(Append(s, x)) = Len(s) + 1
         /\ DOMAIN Append(s, x) = 1..(Len(s) + 1)
         /\ \A i \in 1..Len(s) : Append(s, x)[i] = s[i]
         /\ Append(s, x)[Len(s) + 1] = x
         /\ Members(Append(s, x)) = Members(s) \cup {x}
  <1>1. /\ Append(s, x) \in Seq(S) /\ Len(Append(s, x)) = Len(s) + 1
        /\ DOMAIN Append(s, x) = 1..(Len(s) + 1)
        /\ \A i \in 1..Len(s) : Append(s, x)[i] = s[i]
        /\ Append(s, x)[Len(s) + 1] = x
        /\ DOMAIN s = 1..Len(s) /\ Len(s) \in Nat
    OBVIOUS
  <1>2. Members(Append(s, x)) = Members(s) \cup {x}
    BY <1>1 DEF Members, Range
  <1>3. QED
    BY <1>1, <1>2

(* What joins the scope leaves what is below it where it is.               *)
LEMMA PushedScope ==
  ASSUME TypeOK, NEW x \in Finalizers, scope' = Append(scope, x)
  PROVE  /\ scope' \in Seq(Finalizers) /\ Members(scope') = Members(scope) \cup {x}
         /\ Len(scope) \in Nat /\ DOMAIN scope = 1..Len(scope) /\ DOMAIN scope' = 1..(Len(scope) + 1)
         /\ \A i \in 1..Len(scope) : scope'[i] = scope[i]
         /\ scope'[Len(scope) + 1] = x /\ Len(scope') = Len(scope) + 1 /\ scope' # <<>>
  <1>1. scope \in Seq(Finalizers)
    BY DEF TypeOK, Finalizers
  <1>2. Len(scope) \in Nat /\ DOMAIN scope = 1..Len(scope)
    BY <1>1, LenProperties
  <1>3. /\ scope' \in Seq(Finalizers) /\ Members(scope') = Members(scope) \cup {x}
        /\ DOMAIN scope' = 1..(Len(scope) + 1) /\ Len(scope') = Len(scope) + 1
        /\ \A i \in 1..Len(scope) : scope'[i] = scope[i]
        /\ scope'[Len(scope) + 1] = x
    BY <1>1, AppendMembers
  <1>4. scope' # <<>>
    BY <1>2, <1>3
  <1>5. QED
    BY <1>2, <1>3, <1>4

LEMMA PoppedMembers ==
  ASSUME NEW S, NEW s \in Seq(S), s # <<>>
  PROVE  LET popped == SubSeq(s, 1, Len(s) - 1)
         IN /\ popped \in Seq(S) /\ DOMAIN popped = 1..(Len(s) - 1)
            /\ \A i \in 1..(Len(s) - 1) : popped[i] = s[i]
            /\ Members(popped) \subseteq Members(s)
            /\ \A x \in Members(s) : x # s[Len(s)] => x \in Members(popped)
  <1> DEFINE popped == SubSeq(s, 1, Len(s) - 1)
  <1>1. Len(s) \in Nat /\ Len(s) > 0 /\ DOMAIN s = 1..Len(s)
    OBVIOUS
  <1>2. /\ popped \in Seq(S) /\ DOMAIN popped = 1..(Len(s) - 1)
        /\ \A i \in 1..(Len(s) - 1) : popped[i] = s[i]
    BY <1>1
  <1> HIDE DEF popped
  <1>3. Members(popped) \subseteq Members(s)
    BY <1>1, <1>2 DEF Members, Range
  <1>4. \A x \in Members(s) : x # s[Len(s)] => x \in Members(popped)
    BY <1>1, <1>2 DEF Members, Range
  <1>5. QED
    BY <1>2, <1>3, <1>4 DEF popped

(* Another middleware may be added to a chain that provides its services.  *)
LEMMA ExtendedChain ==
  ASSUME NEW c \in Seq(Middleware), NEW m \in Middleware, ProperChain(c),
         m \notin Members(c), Members(MadeIn[m]) \subseteq Members(c)
  PROVE  ProperChain(Append(c, m))
  <1> DEFINE d == Append(c, m)
  <1>1. /\ Len(c) \in Nat /\ DOMAIN c = 1..Len(c) /\ DOMAIN d = 1..(Len(c) + 1)
        /\ \A i \in 1..Len(c) : d[i] = c[i]
        /\ d[Len(c) + 1] = m
    BY AppendMembers
  <1> HIDE DEF d
  <1>2. IsInjective(d)
    BY <1>1 DEF ProperChain, IsInjective, Members, Range
  <1>3. ServicesProvided(d)
    <2> SUFFICES ASSUME NEW i \in 1..(Len(c) + 1), NEW r \in Members(MadeIn[d[i]])
                 PROVE  \E j \in 1..(i - 1) : d[j] = r
      BY <1>1 DEF ServicesProvided
    <2>1. CASE i \in 1..Len(c)
      <3>1. PICK j \in 1..(i - 1) : c[j] = r
        BY <1>1, <2>1 DEF ProperChain, ServicesProvided
      <3>2. j \in 1..Len(c)
        BY <1>1, <2>1
      <3>3. QED
        BY <1>1, <3>1, <3>2
    <2>2. CASE i = Len(c) + 1
      <3>1. r \in Members(c)
        BY <1>1, <2>2
      <3>2. PICK j \in 1..Len(c) : c[j] = r
        BY <1>1, <3>1 DEF Members, Range
      <3>3. QED
        BY <1>1, <2>2, <3>2
    <2>3. QED
      BY <1>1, <2>1, <2>2
  <1>4. QED
    BY <1>2, <1>3 DEF ProperChain, d

(* Chains that part still bring what their middleware require: it is in    *)
(* the part they share, or comes along in the right order.                 *)
LEMMA JoinedServices ==
  ASSUME NEW inherited \in Seq(Middleware), ServicesProvided(inherited),
         NEW declared \in Views, NEW n \in 0..Len(inherited),
         IsSharedCount(inherited, declared, n)
  PROVE  /\ JoinedChain(inherited, declared, n) \in Seq(Middleware)
         /\ ServicesProvided(JoinedChain(inherited, declared, n))
  <1> DEFINE rest == SubSeq(declared, n + 1, Len(declared))
             joined == inherited \o rest
  <1>1. declared \in Seq(Middleware) /\ ServicesProvided(declared)
    BY ViewsAssumption
  <1>2. CASE n = Len(inherited)
    BY <1>1, <1>2 DEF JoinedChain
  <1>3. CASE n # Len(inherited)
    <2>1. /\ Len(inherited) \in Nat /\ DOMAIN inherited = 1..Len(inherited)
          /\ Len(declared) \in Nat /\ DOMAIN declared = 1..Len(declared)
      BY <1>1
    <2>2. n \in Nat /\ n <= Len(declared) /\ n <= Len(inherited)
          /\ \A i \in 1..n : inherited[i] = declared[i]
      <3>1. n \in Nat /\ n <= Len(inherited) /\ \A i \in 1..n : i \in 1..Len(declared) /\ inherited[i] = declared[i]
        BY <2>1 DEF IsSharedCount, SharesLink
      <3>2. n <= Len(declared)
        BY <3>1, <2>1
      <3>3. QED
        BY <3>1, <3>2
    <2>3. /\ rest \in Seq(Middleware) /\ Len(rest) = Len(declared) - n
          /\ \A i \in 1..Len(rest) : rest[i] = declared[n + i]
      <3>1. \A i \in (n + 1)..Len(declared) : declared[i] \in Middleware
        <4>1. \A i \in (n + 1)..Len(declared) : i \in 1..Len(declared)
          BY <2>1, <2>2
        <4>2. QED
          BY <1>1, <4>1, ElementOfSeq
      <3>2. Len(declared) - (n + 1) + 1 = Len(declared) - n
        BY <2>1, <2>2
      <3>3. /\ rest \in Seq(Middleware)
            /\ Len(rest) = IF n + 1 <= Len(declared) THEN Len(declared) - n ELSE 0
            /\ \A i \in 1..(Len(declared) - n) : rest[i] = declared[n + 1 + i - 1]
        BY <2>1, <2>2, <3>1, <3>2, SubSeqProperties
      <3> HIDE DEF rest
      <3>4. Len(rest) = Len(declared) - n
        <4>1. CASE n = Len(declared)
          BY <2>1, <2>2, <3>3, <4>1
        <4>2. CASE n + 1 <= Len(declared)
          BY <2>1, <2>2, <3>3, <4>2
        <4>3. n = Len(declared) \/ n + 1 <= Len(declared)
          <5>1. \A a, b \in Nat : a <= b => a = b \/ a + 1 <= b
            OBVIOUS
          <5>2. n \in Nat /\ Len(declared) \in Nat /\ n <= Len(declared)
            BY <2>1, <2>2, Zenon
          <5>3. QED
            BY <5>1, <5>2, Zenon
        <4>4. QED
          BY <4>1, <4>2, <4>3
      <3>5. \A i \in 1..(Len(declared) - n) : n + 1 + i - 1 = n + i
        BY <2>1, <2>2
      <3>6. QED
        BY <3>3, <3>4, <3>5
    <2> HIDE DEF rest
    <2>4. /\ joined \in Seq(Middleware) /\ DOMAIN joined = 1..(Len(inherited) + Len(rest))
          /\ \A i \in 1..Len(inherited) : joined[i] = inherited[i]
          /\ \A i \in 1..Len(rest) : joined[Len(inherited) + i] = rest[i]
      <3>1. /\ joined \in Seq(Middleware) /\ Len(joined) = Len(inherited) + Len(rest)
            /\ \A i \in 1..(Len(inherited) + Len(rest)) :
                 joined[i] = IF i <= Len(inherited) THEN inherited[i] ELSE rest[i - Len(inherited)]
        BY <2>3, ConcatProperties
      <3>2. Len(rest) \in Nat
        BY <2>3, LenProperties
      <3>3. \A i \in 1..Len(rest) : /\ Len(inherited) + i \in 1..(Len(inherited) + Len(rest))
                                     /\ ~(Len(inherited) + i <= Len(inherited))
                                     /\ Len(inherited) + i - Len(inherited) = i
        BY <2>1, <3>2
      <3>4. DOMAIN joined = 1..(Len(inherited) + Len(rest))
        BY <3>1, LenProperties
      <3>5. QED
        BY <2>1, <3>1, <3>2, <3>3, <3>4
    <2> HIDE DEF joined
    <2>5. ServicesProvided(joined)
      <3> SUFFICES ASSUME NEW i \in 1..(Len(inherited) + Len(rest)),
                          NEW r \in Members(MadeIn[joined[i]])
                   PROVE  \E j \in 1..(i - 1) : joined[j] = r
        BY <2>4 DEF ServicesProvided
      <3>1. CASE i \in 1..Len(inherited)
        <4>1. PICK j \in 1..(i - 1) : inherited[j] = r
          BY <2>1, <2>4, <3>1 DEF ServicesProvided
        <4>2. j \in 1..Len(inherited)
          BY <2>1, <3>1
        <4>3. QED
          BY <2>4, <4>1, <4>2
      <3>2. CASE i \notin 1..Len(inherited)
        <4>1. PICK k \in 1..Len(rest) : i = Len(inherited) + k
          <5>1. i - Len(inherited) \in 1..Len(rest)
            BY <2>1, <2>2, <2>3, <3>2
          <5>2. i = Len(inherited) + (i - Len(inherited))
            BY <2>1
          <5>3. QED
            BY <5>1, <5>2
        <4>2. n + k \in 1..Len(declared) /\ joined[i] = declared[n + k]
          <5>1. n + k \in 1..Len(declared)
            BY <2>1, <2>2, <2>3, <4>1
          <5>2. joined[i] = rest[k] /\ rest[k] = declared[n + k]
            BY <2>3, <2>4, <4>1
          <5>3. QED
            BY <5>1, <5>2
        <4>3. PICK j \in 1..(n + k - 1) : declared[j] = r
          <5>1. PICK x \in DOMAIN declared : x = n + k
            BY <2>1, <4>2
          <5>2. r \in Members(MadeIn[declared[x]])
            BY <4>2, <5>1, Zenon
          <5>3. PICK j \in 1..(x - 1) : declared[j] = r
            BY <1>1, <5>2 DEF ServicesProvided
          <5>4. QED
            BY <5>1, <5>3
        <4>4. CASE j \in 1..n
          <5>1. j \in 1..(i - 1) /\ joined[j] = r
            BY <2>1, <2>2, <2>4, <4>1, <4>3, <4>4
          <5>2. QED
            BY <5>1
        <4>5. CASE j \notin 1..n
          <5>1. j - n \in 1..Len(rest) /\ j - n < k /\ n + (j - n) = j
            BY <2>1, <2>2, <2>3, <4>1, <4>3, <4>5
          <5>2. joined[Len(inherited) + (j - n)] = r
            BY <2>3, <2>4, <4>3, <5>1
          <5>3. Len(inherited) + (j - n) \in 1..(i - 1)
            BY <2>1, <2>2, <4>1, <5>1
          <5>4. QED
            BY <5>2, <5>3
        <4>6. QED
          BY <4>4, <4>5
      <3>3. QED
        BY <3>1, <3>2
    <2>6. QED
      BY <1>3, <2>4, <2>5 DEF JoinedChain, joined, rest
  <1>4. QED
    BY <1>2, <1>3

-----------------------------------------------------------------------------
(* The invariant at first, and as the chain of the page is compiled.       *)

LEMMA InitIInv == Init => IInv
  <1> SUFFICES ASSUME Init PROVE IInv
    OBVIOUS
  <1>1. ProperChain(<<>>) /\ <<>> \in Seq(Middleware) /\ Members(<<>>) = {}
    BY DEF ProperChain, IsInjective, ServicesProvided, Members, Range
  <1>2. TypeOK
    <2>1. request \in Request
      BY ViewsAssumption DEF Init, NoRequest, Request, Operation, Modes
    <2>2. <<>> \in Seq(Middleware \cup {"render", "producer"})
      OBVIOUS
    <2>3. tasks \in [Tasks -> {"none", "waiting", "running", "finalizing", "done", "refused"}]
      BY DEF Init
    <2> HIDE DEF Request
    <2>4. QED
      BY <1>1, <2>1, <2>2, <2>3 DEF Init, TypeOK
  <1>3. Unfinished = {}
    BY DEF Init, Unfinished
  <1>4. EnteredInv /\ PhaseInv /\ RenderInv /\ ProducerInv
    BY <1>3 DEF Init, EnteredInv, PhaseInv, RenderInv, ProducerInv
  <1>5. ScopesCompose /\ RuntimeMatchesScopes
    BY <1>1 DEF Init, ScopesCompose, RuntimeMatchesScopes, ProperChain
  <1>6. QED
    BY <1>1, <1>2, <1>4, <1>5 DEF Init, IInv

LEMMA VisitIInv == ASSUME IInv, NEW declared \in Views, Visit(declared) PROVE IInv'
  <1>1. ProperChain(destination') /\ destination' \in Seq(Middleware)
    BY JoinedServices DEF Visit, IInv, TypeOK, ProperChain
  <1>2. TypeOK'
    BY <1>1 DEF Visit, IInv, TypeOK
  <1>3. EnteredInv' /\ PhaseInv' /\ RenderInv' /\ ProducerInv'
    BY DEF Visit, IInv, EnteredInv, PhaseInv, RenderInv, ProducerInv, Holds, Unfinished, Last, Prepared, IsRefresh, Members
  <1>4. ScopesCompose' /\ RuntimeMatchesScopes'
    BY DEF Visit, IInv, ScopesCompose, RuntimeMatchesScopes
  <1>5. QED
    BY <1>1, <1>2, <1>3, <1>4 DEF IInv

(* What does not move the chains, the middleware or the scope keeps what   *)
(* is known of them.                                                       *)
LEMMA ChainsKept ==
  ASSUME IInv, UNCHANGED <<destination, request, entered>>
  PROVE  /\ ProperChain(destination)' /\ ScopesCompose'
         /\ (handler' # "entering" => EnteredInv')
         /\ (UNCHANGED tasks => RuntimeMatchesScopes')
  BY DEF IInv, ProperChain, ScopesCompose, EnteredInv, RuntimeMatchesScopes

LEMMA ScopeKept ==
  ASSUME IInv, UNCHANGED <<scope, request, producer>>
  PROVE  ProducerInv'
  BY DEF IInv, ProducerInv, Prepared, Members

LEMMA RenderKept ==
  ASSUME IInv, UNCHANGED <<destination, request, entered, scope, render, tasks>>,
         render # "none" => handler' \in {"shell", "responding", "streaming", "failing", "releasing", "closing", "closed"}
  PROVE  RenderInv'
  BY DEF IInv, RenderInv, ActiveMiddleware, Unfinished, Last, Holds, Prepared, Members

LEMMA ArriveIInv == ASSUME IInv, Arrive PROVE IInv'
  <1>0. /\ handler = "compiling" /\ entered = <<>> /\ scope = <<>> /\ fn = "none" /\ render = "none"
        /\ request' \in Request
        /\ UNCHANGED <<destination, entered, scope, fn, producer, render, tasks, response, aborted>>
        /\ \/ request'.mode = "page" /\ handler' = "entering" /\ chain' = destination
           \/ request'.mode # "page" /\ handler' = "preparing" /\ chain' = chain
    BY DEF Arrive, Requests, Enters, IInv, PhaseInv, RenderInv
  <1>1. TypeOK'
    BY <1>0 DEF IInv, TypeOK
  <1>2. EnteredInv'
    BY <1>0 DEF IInv, TypeOK, EnteredInv, Target, Base, Members, Range
  <1>3. PhaseInv'
    BY <1>0 DEF PhaseInv, Holds, IsRefresh, Members, Range
  (* Nothing was entered and nothing runs, whatever the request is.        *)
  <1>4. (\A t \in Tasks : tasks[t] = "none") /\ Unfinished = {} /\ producer \notin {"running", "finalizing"}
    BY <1>0 DEF IInv, RenderInv, ProducerInv, Unfinished, Members, Range
  <1>5. RenderInv' /\ ProducerInv'
    BY <1>0, <1>4 DEF RenderInv, ProducerInv, Unfinished
  <1>6. ScopesCompose' /\ RuntimeMatchesScopes' /\ ProperChain(destination)'
    BY <1>0, <1>4 DEF IInv, ScopesCompose, RuntimeMatchesScopes, ProperChain
  <1>7. QED
    BY <1>1, <1>2, <1>3, <1>5, <1>6 DEF IInv

LEMMA PrepareIInv == ASSUME IInv, Prepare PROVE IInv'
  <1>0. /\ handler = "preparing" /\ entered = <<>> /\ scope = <<>> /\ fn = "none" /\ render = "none"
        /\ request.mode # "page"
        /\ UNCHANGED <<destination, request, entered, scope, producer, render, tasks, aborted>>
    BY DEF Prepare, IInv, PhaseInv, RenderInv
  <1>1. Prepared \in Seq(Middleware)
    BY ViewsAssumption DEF IInv, TypeOK, Request, Operation, Prepared
  <1>2. TypeOK'
    BY <1>0, <1>1 DEF Prepare, Answer, Enters, IInv, TypeOK
  <1>3. EnteredInv'
    BY <1>0, <1>1 DEF Prepare, Answer, Enters, EnteredInv, Target, Base, Members, Range, Prepared
  <1>4. PhaseInv'
    BY <1>0 DEF Prepare, Answer, Enters, PhaseInv, Holds, IsRefresh, Members, Range
  <1>5. QED
    BY <1>0, <1>2, <1>3, <1>4, ChainsKept, ScopeKept, RenderKept DEF IInv

-----------------------------------------------------------------------------
(* Through the middleware.                                                 *)

LEMMA TailOfChain ==
  ASSUME NEW S, NEW s \in Seq(S), s # <<>>
  PROVE  /\ Tail(s) \in Seq(S) /\ Len(Tail(s)) = Len(s) - 1 /\ Len(s) \in Nat /\ Len(s) > 0
         /\ Head(s) = s[1] /\ Head(s) \in S
         /\ \A i \in 1..Len(Tail(s)) : Tail(s)[i] = s[i + 1]
  BY HeadTailProperties, EmptySeq

(* The head of the chain is the next middleware of the target; what the    *)
(* target has before it has been entered.                                  *)
LEMMA NextOfTarget ==
  ASSUME IInv, handler = "entering", chain # <<>>
  PROVE  LET k == Len(Target) - Len(chain) + 1
         IN /\ k \in 1..Len(Target) /\ Head(chain) = Target[k]
            /\ Target \in Seq(Middleware) /\ ProperChain(Target)
            /\ Members(entered) = Base \cup {Target[i] : i \in 1..(k - 1)}
            /\ Len(Target) - Len(Tail(chain)) = k
            /\ \A i \in 1..Len(Tail(chain)) : Tail(chain)[i] = Target[k + i]
  <1> DEFINE k == Len(Target) - Len(chain) + 1
  <1>1. chain \in Seq(Middleware) /\ Prepared \in Views /\ destination \in Seq(Middleware)
    BY ViewsAssumption DEF IInv, TypeOK, Request, Operation, Prepared
  <1>2. Target \in Seq(Middleware) /\ ProperChain(Target)
    BY <1>1, ViewsAssumption DEF Target, ProperChain, IInv
  <1>3. /\ Len(chain) \in Nat /\ Len(chain) > 0 /\ Len(Target) \in Nat /\ Len(chain) <= Len(Target)
        /\ \A i \in 1..Len(chain) : chain[i] = Target[Len(Target) - Len(chain) + i]
        /\ Members(entered) = Base \cup {Target[i] : i \in 1..(Len(Target) - Len(chain))}
    BY <1>1, <1>2, TailOfChain, LenProperties DEF IInv, EnteredInv
  <1>4. /\ Head(chain) = chain[1] /\ Len(Tail(chain)) = Len(chain) - 1
        /\ \A i \in 1..Len(Tail(chain)) : Tail(chain)[i] = chain[i + 1]
    BY <1>1, TailOfChain
  <1> HIDE DEF Target, Base
  <1>5. k \in 1..Len(Target) /\ k - 1 = Len(Target) - Len(chain) /\ Len(Target) - Len(Tail(chain)) = k
    BY <1>3, <1>4
  <1>6. Head(chain) = Target[k]
    BY <1>3, <1>4
  <1>7. \A i \in 1..Len(Tail(chain)) : Tail(chain)[i] = Target[k + i]
    <2> SUFFICES ASSUME NEW i \in 1..Len(Tail(chain)) PROVE Tail(chain)[i] = Target[k + i]
      OBVIOUS
    <2>1. i + 1 \in 1..Len(chain) /\ Len(Target) - Len(chain) + (i + 1) = k + i
      BY <1>3, <1>4
    <2>2. QED
      BY <1>3, <1>4, <2>1
  <1>8. QED
    BY <1>2, <1>3, <1>5, <1>6, <1>7

LEMMA EnterIInv == ASSUME IInv, EnterMiddleware PROVE IInv'
  <1> DEFINE m == Head(chain)
             k == Len(Target) - Len(chain) + 1
  <1>0. /\ handler = "entering" /\ chain # <<>> /\ m \notin Base
        /\ entered' = Append(entered, m) /\ scope' = Append(scope, m) /\ chain' = Tail(chain)
        /\ UNCHANGED <<destination, request, handler, fn, producer, render, tasks, response, aborted>>
        /\ Target' = Target /\ Base' = Base /\ Prepared' = Prepared
        /\ render = "none"
    BY DEF EnterMiddleware, AppliedAlready, Base, Target, Prepared, Members, Range, IInv, RenderInv
  <1>1. /\ m \in Middleware /\ chain \in Seq(Middleware) /\ entered \in Seq(Middleware)
    BY <1>0, TailOfChain DEF IInv, TypeOK
  <1>2. /\ k \in 1..Len(Target) /\ m = Target[k]
        /\ Target \in Seq(Middleware) /\ ProperChain(Target) /\ Len(Target) \in Nat
        /\ Members(entered) = Base \cup {Target[i] : i \in 1..(k - 1)}
        /\ Len(Target) - Len(Tail(chain)) = k
        /\ \A i \in 1..Len(Tail(chain)) : Tail(chain)[i] = Target[k + i]
    BY <1>0, NextOfTarget, LenProperties
  <1>3. /\ Members(entered') = Members(entered) \cup {m} /\ Members(scope') = Members(scope) \cup {m}
        /\ entered' \in Seq(Middleware) /\ scope' \in Seq(Finalizers)
    <2>1. m \in Finalizers
      BY <1>1 DEF Finalizers
    <2> HIDE DEF m, Members
    <2>2. Members(entered') = Members(entered) \cup {m} /\ entered' \in Seq(Middleware)
      BY <1>0, <1>1, AppendMembers
    <2>3. Members(scope') = Members(scope) \cup {m} /\ scope' \in Seq(Finalizers)
      BY <1>0, <2>1, PushedScope DEF IInv
    <2>4. QED
      BY <2>2, <2>3
  <1> HIDE DEF m, k, Target, Base, Members, IsInjective, ServicesProvided
  <1>4. TypeOK'
    BY <1>0, <1>1, <1>3, TailOfChain DEF IInv, TypeOK, Finalizers
  <1>5. ProperChain(entered')
    <2>1. m \notin {Target[i] : i \in 1..(k - 1)}
      BY <1>2, LenProperties DEF ProperChain, IsInjective
    <2>2. Members(MadeIn[m]) \subseteq {Target[i] : i \in 1..(k - 1)}
      <3>1. k \in DOMAIN Target
        BY <1>2, LenProperties
      <3>2. \A r \in Members(MadeIn[Target[k]]) : \E j \in 1..(k - 1) : Target[j] = r
        BY <1>2, <3>1, Zenon DEF ProperChain, ServicesProvided
      <3>3. QED
        BY <1>2, <3>2
    <2>3. ProperChain(entered)
      BY DEF IInv, ScopesCompose, ProperChain
    <2>4. m \notin Members(entered) /\ Members(MadeIn[m]) \subseteq Members(entered)
      BY <1>0, <1>2, <2>1, <2>2
    <2>5. QED
      BY <1>0, <1>1, <2>3, <2>4, ExtendedChain
  <1>6. EnteredInv'
    <2>1. {Target[i] : i \in 1..k} = {Target[i] : i \in 1..(k - 1)} \cup {m}
      BY <1>2
    <2>2. Members(entered') = Base \cup {Target[i] : i \in 1..k}
      BY <1>2, <1>3, <2>1
    <2>3. Len(Tail(chain)) \in Nat
      BY <1>0, <1>1, TailOfChain, LenProperties
    <2>4. Len(Tail(chain)) <= Len(Target) /\ k = Len(Target) - Len(Tail(chain))
      BY <1>2, <2>3
    <2>5. QED
      BY <1>0, <1>2, <2>2, <2>4 DEF EnteredInv
  <1>7. PhaseInv'
    BY <1>0, <1>3 DEF IInv, PhaseInv, Holds, IsRefresh
  <1>8. RenderInv'
    BY <1>0 DEF IInv, RenderInv, Unfinished
  <1>9. ProducerInv'
    <2>1. /\ DOMAIN scope' = 1..(Len(scope) + 1) /\ Len(scope) \in Nat /\ DOMAIN scope = 1..Len(scope)
          /\ \A i \in 1..Len(scope) : scope'[i] = scope[i]
          /\ scope'[Len(scope) + 1] = m /\ m # "producer"
      BY <1>0, <1>1, PushedScope, RequestAssumption DEF IInv, Finalizers
    <2>2. ASSUME NEW x \in DOMAIN scope', scope'[x] = "producer"
          PROVE  Members(Prepared) \subseteq {scope'[j] : j \in 1..(x - 1)}
      <3>1. x \in 1..Len(scope) /\ scope[x] = "producer"
        BY <2>1, <2>2
      <3>2. Members(Prepared) \subseteq {scope[j] : j \in 1..(x - 1)}
        BY <2>1, <3>1 DEF IInv, ProducerInv
      <3>3. \A j \in 1..(x - 1) : j \in 1..Len(scope)
        BY <2>1, <3>1
      <3>4. QED
        BY <2>1, <3>2, <3>3
    <2>3. QED
      BY <1>0, <1>3, <2>2 DEF IInv, ProducerInv
  <1>10. ScopesCompose' /\ RuntimeMatchesScopes' /\ ProperChain(destination)'
    <2>1. \A t \in Tasks : tasks[t] = "none"
      BY <1>0 DEF IInv, RenderInv
    <2>2. QED
      BY <1>0, <1>5, <2>1 DEF ScopesCompose, RuntimeMatchesScopes, ProperChain, IInv
  <1>11. QED
    BY <1>4, <1>6, <1>7, <1>8, <1>9, <1>10 DEF IInv

LEMMA SkipIInv == ASSUME IInv, SkipMiddleware PROVE IInv'
  <1> DEFINE k == Len(Target) - Len(chain) + 1
  <1>0. /\ handler = "entering" /\ chain # <<>> /\ Head(chain) \in Base
        /\ chain' = Tail(chain)
        /\ UNCHANGED <<destination, request, handler, entered, scope, fn, producer, render, tasks, response, aborted>>
        /\ Target' = Target /\ Base' = Base
        /\ render = "none" /\ chain \in Seq(Middleware)
    BY DEF SkipMiddleware, AppliedAlready, Base, Target, Prepared, Members, Range, IInv, TypeOK, RenderInv
  <1>1. /\ k \in 1..Len(Target) /\ Head(chain) = Target[k] /\ Len(Target) \in Nat
        /\ Members(entered) = Base \cup {Target[i] : i \in 1..(k - 1)}
        /\ Len(Target) - Len(Tail(chain)) = k
        /\ \A i \in 1..Len(Tail(chain)) : Tail(chain)[i] = Target[k + i]
    BY <1>0, NextOfTarget, LenProperties
  <1>2. Tail(chain) \in Seq(Middleware) /\ Len(Tail(chain)) \in Nat
    BY <1>0, TailOfChain, LenProperties
  <1>3. TypeOK'
    BY <1>0, <1>2 DEF IInv, TypeOK
  <1> HIDE DEF k, Target, Base, Members
  <1>4. EnteredInv'
    <2>1. {Target[i] : i \in 1..k} = {Target[i] : i \in 1..(k - 1)} \cup {Head(chain)}
      BY <1>1
    <2>2. Members(entered) = Base \cup {Target[i] : i \in 1..k}
      BY <1>0, <1>1, <2>1
    <2>3. Len(Tail(chain)) <= Len(Target) /\ k = Len(Target) - Len(Tail(chain))
      BY <1>1, <1>2
    <2>4. QED
      BY <1>0, <1>1, <2>2, <2>3 DEF EnteredInv, Members
  <1>5. PhaseInv'
    BY <1>0 DEF IInv, PhaseInv, Holds, IsRefresh, Members
  <1>6. QED
    BY <1>0, <1>3, <1>4, <1>5, ChainsKept, ScopeKept, RenderKept DEF IInv

LEMMA MiddlewareAnswersIInv == ASSUME IInv, MiddlewareAnswers PROVE IInv'
  <1>0. /\ handler = "entering" /\ handler' = "closing" /\ fn \in {"none", "invoked", "native", "completed"}
        /\ response' \in {"middleware", "serverError"}
        /\ UNCHANGED <<destination, request, chain, entered, scope, fn, producer, render, tasks, aborted>>
    BY DEF MiddlewareAnswers, Answer, IInv, PhaseInv
  <1>1. TypeOK' /\ PhaseInv'
    BY <1>0 DEF IInv, TypeOK, PhaseInv
  <1>2. QED
    BY <1>0, <1>1, ChainsKept, ScopeKept, RenderKept DEF IInv

LEMMA PassIInv == ASSUME IInv, PassMiddleware PROVE IInv'
  <1>0. /\ handler = "entering" /\ chain = <<>> /\ handler' \in {"executing", "decoding", "rendering"}
        /\ render = "none"
        /\ fn \in {"none", "invoked", "native", "completed"}
        /\ fn = "none" <=> request.mode = "page"
        /\ fn = "completed" => IsRefresh
        /\ UNCHANGED <<destination, request, chain, entered, scope, fn, producer, render, tasks, response, aborted>>
    BY DEF PassMiddleware, IInv, PhaseInv, RenderInv
  <1>1. Members(entered) = Base \cup Members(Target)
    <2>1. Target \in Seq(Middleware)
      BY ViewsAssumption DEF IInv, TypeOK, Request, Operation, Prepared, Target
    <2> HIDE DEF Target, Base
    <2>2. Len(chain) = 0 /\ Len(Target) \in Nat /\ DOMAIN Target = 1..Len(Target)
      BY <1>0, <2>1
    <2>3. Members(entered) = Base \cup {Target[i] : i \in 1..Len(Target)}
      BY <1>0, <2>2 DEF IInv, EnteredInv
    <2>4. QED
      BY <2>2, <2>3 DEF Members, Range
  <1>2. fn \in {"invoked", "native"} => handler' = "executing" /\ Members(entered) = Members(Prepared)
    BY <1>0, <1>1 DEF PassMiddleware, Target, Base
  <1>3. fn \notin {"invoked", "native"} => handler' = "decoding" /\ Members(entered) = ActiveMiddleware
    BY <1>0, <1>1 DEF PassMiddleware, Target, Base, ActiveMiddleware, IsRefresh
  <1>4. TypeOK'
    BY <1>0 DEF IInv, TypeOK
  <1>5. PhaseInv'
    <2>1. ActiveMiddleware' = ActiveMiddleware /\ Prepared' = Prepared /\ IsRefresh' = IsRefresh /\ Holds(entered)' = Holds(entered)
      BY <1>0 DEF ActiveMiddleware, Prepared, IsRefresh, Holds, Members
    <2>2. Members(entered)' = Members(entered) /\ Members(Prepared)' = Members(Prepared) /\ Holds(entered)
      BY <1>0, <2>1 DEF IInv, PhaseInv, Members
    <2> HIDE DEF Members, Holds, ActiveMiddleware, Prepared, IsRefresh
    <2>3. QED
      BY <1>0, <1>2, <1>3, <2>1, <2>2 DEF PhaseInv
  <1>6. QED
    BY <1>0, <1>4, <1>5, ChainsKept, ScopeKept, RenderKept DEF IInv

-----------------------------------------------------------------------------
(* The Server Function.                                                    *)

LEMMA StartFunctionIInv == ASSUME IInv, StartFunction PROVE IInv'
  <1>0. /\ handler = "executing" /\ handler' = "executing" /\ fn = "invoked" /\ fn' = "running" /\ render = "none"
        /\ UNCHANGED <<destination, request, handler, chain, entered, scope, producer, render, tasks, response, aborted>>
    BY DEF StartFunction, IInv, RenderInv
  <1>1. TypeOK'
    BY <1>0 DEF IInv, TypeOK
  <1>2. PhaseInv'
    BY <1>0 DEF IInv, PhaseInv, Holds, Prepared, Members
  <1>3. QED
    BY <1>0, <1>1, <1>2, ChainsKept, ScopeKept, RenderKept DEF IInv

(* Once the function has completed, its middleware is what a refresh       *)
(* begins from, or all there is.                                           *)
LEMMA RefreshEnters ==
  ASSUME IInv, handler = "executing", fn' = "completed", Refresh,
         UNCHANGED <<destination, request, entered, tasks, aborted>>, Holds(entered)'
  PROVE  /\ EnteredInv' /\ PhaseInv' /\ chain' \in Seq(Middleware)
         /\ handler' \in {"entering", "rendering"}
  <1>1. /\ handler' \in {"entering", "rendering"} /\ request.mode # "page"
        /\ Members(entered) = Members(Prepared) /\ destination \in Seq(Middleware) /\ chain \in Seq(Middleware)
        /\ handler' = "entering" => chain' = destination /\ IsRefresh
        /\ handler' = "rendering" => request.mode = "query" /\ chain' = chain
    BY DEF Refresh, Enters, IInv, PhaseInv, TypeOK, IsRefresh, Request, Modes
  <1>2. Target' = destination /\ Base' = Members(Prepared) /\ Members(entered)' = Members(entered)
    BY DEF Target, Base, Prepared, Members
  <1>3. EnteredInv'
    <2> SUFFICES ASSUME handler' = "entering" PROVE EnteredInv'
      BY DEF EnteredInv
    <2>1. chain' = destination /\ Len(destination) \in Nat
      BY <1>1
    <2>2. {destination[i] : i \in 1..0} = {}
      OBVIOUS
    <2> HIDE DEF Target, Base, Members
    <2>3. QED
      BY <1>1, <1>2, <2>1, <2>2 DEF EnteredInv
  <1>4. PhaseInv'
    <2>1. handler' = "rendering" => Members(entered)' = ActiveMiddleware'
      BY <1>1, <1>2 DEF ActiveMiddleware, Prepared, Members
    <2>2. IsRefresh' = IsRefresh
      BY DEF IsRefresh
    <2> HIDE DEF Members, ActiveMiddleware, IsRefresh, Holds
    <2>3. QED
      BY <1>1, <2>1, <2>2 DEF PhaseInv
  <1>5. QED
    BY <1>1, <1>3, <1>4

LEMMA CompleteFunctionIInv == ASSUME IInv, CompleteFunction PROVE IInv'
  <1>0. /\ handler = "executing" /\ fn' = "completed" /\ Refresh /\ render = "none"
        /\ UNCHANGED <<destination, request, entered, scope, producer, render, tasks, response, aborted>>
    BY DEF CompleteFunction, IInv, RenderInv
  <1>1. Holds(entered)'
    BY <1>0 DEF IInv, PhaseInv, Holds, Members
  <1>2. EnteredInv' /\ PhaseInv' /\ chain' \in Seq(Middleware) /\ handler' \in {"entering", "rendering"}
    BY <1>0, <1>1, RefreshEnters
  <1>3. TypeOK'
    BY <1>0, <1>2 DEF IInv, TypeOK
  <1>4. QED
    BY <1>0, <1>2, <1>3, ChainsKept, ScopeKept, RenderKept DEF IInv

(* What may join the scope above the middleware of the function.           *)
LEMMA PushKeepsProducer ==
  ASSUME IInv, NEW x \in Finalizers, scope' = Append(scope, x), request' = request,
         producer' \in {producer, "forked"},
         x = "producer" => Holds(Prepared)
  PROVE  ProducerInv'
  <1>1. /\ DOMAIN scope' = 1..(Len(scope) + 1) /\ Len(scope) \in Nat /\ DOMAIN scope = 1..Len(scope)
        /\ \A i \in 1..Len(scope) : scope'[i] = scope[i]
        /\ scope'[Len(scope) + 1] = x
        /\ Members(scope') = Members(scope) \cup {x}
    BY PushedScope DEF IInv
  <1>2. ASSUME NEW y \in DOMAIN scope', scope'[y] = "producer"
        PROVE  Members(Prepared) \subseteq {scope'[j] : j \in 1..(y - 1)}
    <2>1. CASE y \in 1..Len(scope)
      <3>1. scope[y] = "producer" /\ y \in DOMAIN scope
        BY <1>1, <1>2, <2>1
      <3>2. Members(Prepared) \subseteq {scope[j] : j \in 1..(y - 1)}
        BY <3>1 DEF IInv, ProducerInv
      <3>3. \A j \in 1..(y - 1) : j \in 1..Len(scope)
        BY <1>1, <2>1
      <3>4. QED
        BY <1>1, <3>2, <3>3
    <2>2. CASE y = Len(scope) + 1
      <3>1. Members(Prepared) \subseteq Members(scope)
        BY <1>1, <1>2, <2>2 DEF Holds
      <3>2. Members(scope) = {scope[j] : j \in 1..Len(scope)} /\ y - 1 = Len(scope)
        BY <1>1, <2>2 DEF Members, Range
      <3>3. QED
        BY <1>1, <3>1, <3>2
    <2>3. QED
      BY <1>1, <2>1, <2>2
  <1>3. producer' \in {"running", "finalizing"} => "producer" \in Members(scope')
    BY <1>1 DEF IInv, ProducerInv
  <1>4. Prepared' = Prepared /\ Members(scope)' = Members(scope') /\ Members(Prepared)' = Members(Prepared)
    BY DEF Prepared, Members
  <1> HIDE DEF Members, Prepared
  <1>5. QED
    BY <1>2, <1>3, <1>4 DEF ProducerInv

LEMMA ReturnStreamIInv == ASSUME IInv, ReturnStream PROVE IInv'
  <1>0. /\ handler = "executing" /\ fn' = "completed" /\ Refresh /\ render = "none"
        /\ scope' = Append(scope, "producer") /\ producer' = "forked"
        /\ UNCHANGED <<destination, request, entered, render, tasks, response, aborted>>
    BY DEF ReturnStream, IInv, RenderInv
  <1>1. /\ scope' \in Seq(Finalizers) /\ Members(scope') = Members(scope) \cup {"producer"}
        /\ "producer" \in Finalizers
    BY <1>0, PushedScope DEF IInv, Finalizers
  <1>2. Holds(entered) /\ Holds(Prepared)
    BY <1>0 DEF IInv, PhaseInv, Holds
  <1>3. Holds(entered)'
    BY <1>0, <1>1, <1>2 DEF Holds, Members
  <1>4. EnteredInv' /\ PhaseInv' /\ chain' \in Seq(Middleware) /\ handler' \in {"entering", "rendering"}
    BY <1>0, <1>3, RefreshEnters
  <1>5. TypeOK'
    BY <1>0, <1>1, <1>4 DEF IInv, TypeOK, Finalizers
  <1>6. RenderInv'
    BY <1>0 DEF IInv, RenderInv, Unfinished
  <1>7. ProducerInv'
    BY <1>0, <1>1, <1>2, PushKeepsProducer
  <1>8. QED
    BY <1>0, <1>4, <1>5, <1>6, <1>7, ChainsKept DEF IInv

LEMMA FailFunctionIInv == ASSUME IInv, FailFunction PROVE IInv'
  <1>0. /\ handler' = "closing" /\ fn' \in {"failed", "completed"}
        /\ response' \in {"requestError", "serverError"}
        /\ UNCHANGED <<destination, request, chain, entered, scope, producer, render, tasks, aborted>>
    BY DEF FailFunction, Answer
  <1>1. TypeOK' /\ PhaseInv'
    BY <1>0 DEF IInv, TypeOK, PhaseInv
  <1>2. QED
    BY <1>0, <1>1, ChainsKept, ScopeKept, RenderKept DEF IInv

-----------------------------------------------------------------------------
(* Rendering.                                                              *)

LEMMA DecodeParamsIInv == ASSUME IInv, DecodeParams PROVE IInv'
  <1>0. /\ handler = "decoding" /\ handler' \in {"rendering", "closing"} /\ render = "none"
        /\ fn \notin {"running", "finalizing"} /\ Members(entered) = ActiveMiddleware /\ Holds(entered)
        /\ response' \in {response, "notFound", "serverError"}
        /\ UNCHANGED <<destination, request, chain, entered, scope, fn, producer, render, tasks, aborted>>
    BY DEF DecodeParams, Answer, IInv, PhaseInv, RenderInv
  <1>1. TypeOK'
    BY <1>0 DEF IInv, TypeOK
  <1>2. PhaseInv'
    <2>1. Members(entered)' = ActiveMiddleware' /\ Holds(entered)'
      BY <1>0 DEF ActiveMiddleware, Holds, Prepared, Members
    <2> HIDE DEF Members, ActiveMiddleware, Holds
    <2>2. QED
      BY <1>0, <2>1 DEF PhaseInv
  <1>3. QED
    BY <1>0, <1>1, <1>2, ChainsKept, ScopeKept, RenderKept DEF IInv

LEMMA StartRenderIInv == ASSUME IInv, StartRender PROVE IInv'
  <1>0. /\ handler = "rendering" /\ handler' \in {"shell", "responding", "failing"}
        /\ render = "none" /\ render' = "open" /\ fn \notin {"running", "finalizing"}
        /\ Members(entered) = ActiveMiddleware /\ Holds(entered)
        /\ scope' = Append(scope, "render")
        /\ tasks' = tasks \/ tasks' = [t \in Tasks |-> "waiting"]
        /\ \A t \in Tasks : tasks[t] = "none"
        /\ UNCHANGED <<destination, request, chain, entered, fn, producer, response, aborted>>
    BY DEF StartRender, IInv, PhaseInv, RenderInv
  <1>1. /\ "render" \in Finalizers /\ "render" # "producer"
        /\ scope' \in Seq(Finalizers) /\ Members(scope') = Members(scope) \cup {"render"}
        /\ scope' # <<>> /\ scope'[Len(scope')] = "render"
    BY <1>0, PushedScope DEF IInv, Finalizers
  <1>2. TypeOK'
    BY <1>0, <1>1 DEF IInv, TypeOK, Finalizers
  <1>3. PhaseInv'
    BY <1>0 DEF IInv, PhaseInv
  <1>4. \A t \in Tasks : tasks'[t] \notin {"running", "finalizing", "refused"}
    BY <1>0
  <1>5. RenderInv'
    <2>1. Members(entered)' = ActiveMiddleware'
      BY <1>0 DEF ActiveMiddleware, Prepared, Members
    <2>2. Holds(entered)'
      BY <1>0, <1>1 DEF Holds, Members
    <2> HIDE DEF Members, ActiveMiddleware, Holds
    <2>3. QED
      BY <1>0, <1>1, <2>1, <2>2 DEF RenderInv, Last
  <1>6. ProducerInv'
    BY <1>0, <1>1, PushKeepsProducer
  <1>7. RuntimeMatchesScopes'
    BY <1>4 DEF RuntimeMatchesScopes
  <1>8. QED
    BY <1>0, <1>2, <1>3, <1>5, <1>6, <1>7, ChainsKept DEF IInv

LEMMA ShellRespondIInv == ASSUME IInv, FinishShell \/ Respond \/ EndBody PROVE IInv'
  <1>0. /\ handler \in {"shell", "responding", "streaming"}
        /\ handler' \in {"responding", "failing", "streaming", "releasing", "closing"}
        /\ response' \in {response, "stream", "middleware"}
        /\ UNCHANGED <<destination, request, chain, entered, scope, fn, producer, render, tasks, aborted>>
    BY DEF FinishShell, Respond, EndBody, Answer
  <1>1. TypeOK' /\ PhaseInv'
    BY <1>0 DEF IInv, TypeOK, PhaseInv
  <1>2. QED
    BY <1>0, <1>1, ChainsKept, ScopeKept, RenderKept DEF IInv

LEMMA RunTaskIInv == ASSUME IInv, NEW t \in Tasks, RunTask(t) PROVE IInv'
  <1>0. /\ render = "open" /\ tasks[t] = "waiting"
        /\ tasks' = [tasks EXCEPT ![t] =
             IF Members(request.needs) \subseteq ActiveMiddleware THEN "running" ELSE "refused"]
        /\ UNCHANGED <<destination, request, handler, chain, entered, scope, fn, producer, render, response, aborted>>
    BY DEF RunTask
  <1>1. Members(entered) = ActiveMiddleware
    BY <1>0 DEF IInv, RenderInv
  <1>2. TypeOK'
    BY <1>0 DEF IInv, TypeOK
  <1>3. EnteredInv' /\ PhaseInv'
    BY <1>0 DEF IInv, EnteredInv, PhaseInv, Target, Base, Holds, Prepared, IsRefresh, ActiveMiddleware, Members
  <1>4. RenderInv'
    BY <1>0 DEF IInv, RenderInv, ActiveMiddleware, Last, Holds, Prepared, Members
  <1>5. RuntimeMatchesScopes'
    <2>1. /\ \A u \in Tasks : u # t => tasks'[u] = tasks[u]
          /\ tasks'[t] = IF Members(request.needs) \subseteq Members(entered) THEN "running" ELSE "refused"
      BY <1>0, <1>1 DEF IInv, TypeOK
    <2>2. Members(entered)' = Members(entered) /\ Members(request.needs)' = Members(request.needs)
      BY <1>0 DEF Members
    <2> HIDE DEF Members
    <2>3. QED
      BY <2>1, <2>2 DEF IInv, RuntimeMatchesScopes
  <1>6. QED
    BY <1>0, <1>2, <1>3, <1>4, <1>5, ChainsKept, ScopeKept DEF IInv

LEMMA FinishTaskIInv == ASSUME IInv, NEW t \in Tasks, FinishTask(t) PROVE IInv'
  <1>0. /\ tasks[t] \in {"running", "finalizing"} /\ tasks' = [tasks EXCEPT ![t] = "done"]
        /\ UNCHANGED <<destination, request, handler, chain, entered, scope, fn, producer, render, response, aborted>>
    BY DEF FinishTask
  <1>1. /\ \A u \in Tasks : u # t => tasks'[u] = tasks[u]
        /\ tasks'[t] = "done"
    BY <1>0 DEF IInv, TypeOK
  <1>2. TypeOK'
    BY <1>0 DEF IInv, TypeOK
  <1>3. EnteredInv' /\ PhaseInv'
    BY <1>0 DEF IInv, EnteredInv, PhaseInv, Target, Base, Holds, Prepared, IsRefresh, ActiveMiddleware, Members
  <1>4. render # "none"
    BY <1>0 DEF IInv, RenderInv
  <1>5. RenderInv'
    <2>1. Unfinished' \subseteq Unfinished
      BY <1>0, <1>1 DEF Unfinished
    <2>2. QED
      BY <1>0, <1>4, <2>1 DEF IInv, RenderInv, ActiveMiddleware, Last, Holds, Prepared, Members
  <1>6. RuntimeMatchesScopes'
    <2>1. Members(entered)' = Members(entered) /\ Members(request.needs)' = Members(request.needs)
      BY <1>0 DEF Members
    <2> HIDE DEF Members
    <2>2. QED
      BY <1>1, <2>1 DEF IInv, RuntimeMatchesScopes
  <1>7. QED
    BY <1>0, <1>2, <1>3, <1>5, <1>6, ChainsKept, ScopeKept DEF IInv

LEMMA StreamIInv ==
  ASSUME IInv, RegisterProducer \/ EndStream \/ FinalizeProducer PROVE IInv'
  <1>0. /\ producer' \in {"running", "finalizing", "done"}
        /\ producer' \in {"running", "finalizing"} => "producer" \in Members(scope)
        /\ UNCHANGED <<destination, request, handler, chain, entered, scope, fn, render, tasks, response, aborted>>
    BY DEF RegisterProducer, EndStream, FinalizeProducer, IInv, ProducerInv
  <1>1. TypeOK'
    BY <1>0 DEF IInv, TypeOK
  <1>2. EnteredInv' /\ PhaseInv'
    BY <1>0 DEF IInv, EnteredInv, PhaseInv, Target, Base, Holds, Prepared, IsRefresh, ActiveMiddleware, Members
  <1>3. RenderInv'
    BY <1>0 DEF IInv, RenderInv, ActiveMiddleware, Unfinished, Last, Holds, Prepared, Members
  <1>4. ProducerInv'
    BY <1>0 DEF IInv, ProducerInv, Prepared, Members
  <1>5. QED
    BY <1>0, <1>1, <1>2, <1>3, <1>4, ChainsKept DEF IInv

-----------------------------------------------------------------------------
(* The way out.                                                            *)

LEMMA DisconnectIInv == ASSUME IInv, Disconnect PROVE IInv'
  <1>0. /\ handler \notin {"compiling", "failing", "releasing", "closing", "closed"} /\ ~aborted /\ aborted' = TRUE
        /\ fn' = IF fn = "running" THEN "finalizing" ELSE fn
        /\ handler' = CASE handler \in {"shell", "streaming"} -> "releasing"
                        [] fn = "running" -> "unwinding"
                        [] OTHER -> "closing"
        /\ UNCHANGED <<destination, request, chain, entered, scope, producer, render, tasks, response>>
    BY DEF Disconnect
  <1>1. /\ handler # "unwinding" /\ fn # "finalizing"
        /\ fn = "running" => handler = "executing" /\ Members(entered) = Members(Prepared) /\ Holds(entered)
    BY <1>0 DEF IInv, PhaseInv
  <1>2. /\ handler' \in {"releasing", "unwinding", "closing"}
        /\ handler' = "unwinding" <=> fn = "running"
        /\ fn' # "running" /\ (fn' = "finalizing" <=> fn = "running")
    BY <1>0, <1>1
  <1>3. TypeOK'
    BY <1>0, <1>2 DEF IInv, TypeOK
  <1>4. PhaseInv'
    <2>1. /\ Members(entered)' = Members(entered) /\ Members(Prepared)' = Members(Prepared)
          /\ Holds(entered)' = Holds(entered)
      BY <1>0 DEF Members, Prepared, Holds
    <2> HIDE DEF Members, Holds, Prepared
    <2>2. QED
      BY <1>0, <1>1, <1>2, <2>1 DEF PhaseInv
  <1>5. render # "none" => handler' \in {"releasing", "closing"}
    BY <1>0, <1>1, <1>2 DEF IInv, RenderInv
  <1>6. QED
    BY <1>0, <1>2, <1>3, <1>4, <1>5, ChainsKept, ScopeKept, RenderKept DEF IInv

LEMMA FinalizeFunctionIInv == ASSUME IInv, FinalizeFunction PROVE IInv'
  <1>0. /\ handler' = "closing" /\ fn' = "failed"
        /\ UNCHANGED <<destination, request, chain, entered, scope, producer, render, tasks, response, aborted>>
    BY DEF FinalizeFunction
  <1>1. TypeOK' /\ PhaseInv'
    BY <1>0 DEF IInv, TypeOK, PhaseInv
  <1>2. QED
    BY <1>0, <1>1, ChainsKept, ScopeKept, RenderKept DEF IInv

(* The last finalizer may go unless a producer that is its own still runs. *)
LEMMA PopKeepsProducer ==
  ASSUME IInv, scope # <<>>, Pop, UNCHANGED <<request, producer>>,
         Last = "producer" => producer \notin {"running", "finalizing"}
  PROVE  ProducerInv' /\ scope' \in Seq(Finalizers)
  <1>1. scope \in Seq(Finalizers)
    BY DEF IInv, TypeOK, Finalizers
  <1>2. /\ scope' \in Seq(Finalizers) /\ DOMAIN scope' = 1..(Len(scope) - 1)
        /\ \A i \in 1..(Len(scope) - 1) : scope'[i] = scope[i]
        /\ \A x \in Members(scope) : x # Last => x \in Members(scope')
        /\ Len(scope) \in Nat /\ DOMAIN scope = 1..Len(scope)
    BY <1>1, PoppedMembers, LenProperties DEF Pop, Last
  <1>3. ASSUME NEW y \in DOMAIN scope', scope'[y] = "producer"
        PROVE  Members(Prepared) \subseteq {scope'[j] : j \in 1..(y - 1)}
    <2>1. y \in 1..(Len(scope) - 1) /\ y \in DOMAIN scope /\ scope[y] = "producer"
      BY <1>2, <1>3
    <2>2. Members(Prepared) \subseteq {scope[j] : j \in 1..(y - 1)}
      BY <2>1 DEF IInv, ProducerInv
    <2>3. \A j \in 1..(y - 1) : j \in 1..(Len(scope) - 1)
      BY <1>2, <2>1
    <2>4. QED
      BY <1>2, <2>2, <2>3
  <1>4. producer' \in {"running", "finalizing"} => "producer" \in Members(scope')
    BY <1>2 DEF IInv, ProducerInv
  <1>5. Prepared' = Prepared /\ Members(scope)' = Members(scope') /\ Members(Prepared)' = Members(Prepared)
    BY DEF Prepared, Members
  <1> HIDE DEF Members, Prepared
  <1>6. QED
    BY <1>2, <1>3, <1>4, <1>5 DEF ProducerInv

(* Interrupting the tasks leaves them refused or admitted as they were.    *)
LEMMA CloseRenderKeeps ==
  ASSUME IInv, CloseRender, UNCHANGED <<destination, request, entered, producer>>
  PROVE  /\ tasks' \in [Tasks -> {"none", "waiting", "running", "finalizing", "done", "refused"}]
         /\ RuntimeMatchesScopes' /\ ProducerInv'
         /\ render # "none" /\ render' = "closing" /\ scope # <<>> /\ Last = "render" /\ Holds(entered)
         /\ UNCHANGED <<scope, Last>>
  <1>0. /\ render = "open" /\ render' = "closing" /\ tasks' = InterruptedTasks /\ scope' = scope
    BY DEF CloseRender
  <1>1. \A t \in Tasks : tasks'[t] = CASE tasks[t] = "running" -> "finalizing"
                                       [] tasks[t] = "waiting" -> "done"
                                       [] OTHER -> tasks[t]
    BY <1>0 DEF InterruptedTasks
  <1>2. tasks' \in [Tasks -> {"none", "waiting", "running", "finalizing", "done", "refused"}]
    BY <1>0, <1>1 DEF InterruptedTasks, IInv, TypeOK
  <1>3. \A t \in Tasks : tasks'[t] # "running" /\ (tasks'[t] = "refused" => tasks[t] = "refused")
    BY <1>1
  <1>4. RuntimeMatchesScopes'
    <2>1. Members(entered)' = Members(entered) /\ Members(request.needs)' = Members(request.needs)
      BY DEF Members
    <2> HIDE DEF Members
    <2>2. QED
      BY <1>3, <2>1 DEF IInv, RuntimeMatchesScopes
  <1>5. ProducerInv'
    BY <1>0, ScopeKept
  <1>6. scope # <<>> /\ Last = "render" /\ Holds(entered) /\ Last' = Last
    BY <1>0 DEF IInv, RenderInv, Last
  <1>7. QED
    BY <1>0, <1>2, <1>4, <1>5, <1>6

LEMMA AwaitRenderKeeps ==
  ASSUME IInv, AwaitRender, UNCHANGED <<destination, request, entered, producer>>
  PROVE  /\ RuntimeMatchesScopes' /\ ProducerInv' /\ scope' \in Seq(Finalizers)
         /\ render # "none" /\ render' = "closed" /\ tasks' = tasks /\ Unfinished = {}
  <1>0. /\ render = "closing" /\ render' = "closed" /\ tasks' = tasks /\ Unfinished = {} /\ Pop
        /\ scope # <<>> /\ Last = "render" /\ Last # "producer"
    BY DEF AwaitRender, IInv, RenderInv
  <1>1. ProducerInv' /\ scope' \in Seq(Finalizers)
    BY <1>0, PopKeepsProducer
  <1>2. QED
    BY <1>0, <1>1, ChainsKept

LEMMA ReleaseIInv == ASSUME IInv, Release PROVE IInv'
  <1>0. /\ handler \in {"failing", "releasing"} /\ handler' \in {"failing", "releasing", "closing"}
        /\ response' \in {response, "serverError"}
        /\ CloseRender \/ AwaitRender
        /\ UNCHANGED <<destination, request, chain, entered, fn, producer, aborted>>
    BY DEF Release, Answer
  <1>1. PhaseInv' /\ (scope' \in Seq(Finalizers) /\ tasks' \in [Tasks -> {"none", "waiting", "running", "finalizing", "done", "refused"}]
          /\ render' \in {"closing", "closed"} => TypeOK')
    BY <1>0 DEF IInv, PhaseInv, TypeOK, Finalizers
  <1>2. Members(entered)' = ActiveMiddleware' <=> Members(entered) = ActiveMiddleware
    BY <1>0 DEF ActiveMiddleware, Prepared, Members
  <1>3. CASE CloseRender
    <2>1. RuntimeMatchesScopes' /\ ProducerInv' /\ TypeOK'
      BY <1>0, <1>1, <1>3, CloseRenderKeeps DEF IInv, TypeOK, Finalizers
    <2>2. Holds(entered)'
      BY <1>0, <1>3, CloseRenderKeeps DEF Holds, Members
    <2>3. RenderInv'
      <3>1. render' = "closing" /\ scope' # <<>> /\ Last' = "render" /\ Members(entered) = ActiveMiddleware
        BY <1>0, <1>3, CloseRenderKeeps DEF IInv, RenderInv
      <3> HIDE DEF Members, ActiveMiddleware, Holds
      <3>2. QED
        BY <1>0, <1>2, <2>2, <3>1 DEF RenderInv
    <2>4. QED
      BY <1>0, <1>1, <2>1, <2>3, ChainsKept DEF IInv
  <1>4. CASE AwaitRender
    <2>1. /\ RuntimeMatchesScopes' /\ ProducerInv' /\ TypeOK'
          /\ render # "none" /\ render' = "closed" /\ Unfinished' = {}
      BY <1>0, <1>1, <1>4, AwaitRenderKeeps DEF IInv, TypeOK, Finalizers, Unfinished
    <2>2. RenderInv'
      <3>1. Members(entered) = ActiveMiddleware
        BY <2>1 DEF IInv, RenderInv
      <3> HIDE DEF Members, ActiveMiddleware, Holds
      <3>2. QED
        BY <1>0, <1>2, <2>1, <3>1 DEF RenderInv
    <2>3. QED
      BY <1>0, <1>1, <2>1, <2>2, ChainsKept DEF IInv
  <1>5. QED
    BY <1>0, <1>3, <1>4

LEMMA CloseScopeIInv == ASSUME IInv, CloseScope PROVE IInv'
  <1>0. /\ handler = "closing" /\ handler' = "closing" /\ scope # <<>>
        /\ UNCHANGED <<destination, request, chain, entered, fn, response, aborted>>
    BY DEF CloseScope
  <1>1. PhaseInv' /\ (Members(entered)' = ActiveMiddleware' <=> Members(entered) = ActiveMiddleware)
    BY <1>0 DEF IInv, PhaseInv, ActiveMiddleware, Prepared, Members
  <1>2. CASE CloseRender /\ UNCHANGED producer
    <2>1. RuntimeMatchesScopes' /\ ProducerInv' /\ TypeOK'
      BY <1>0, <1>2, CloseRenderKeeps DEF IInv, TypeOK
    <2>2. Holds(entered)'
      BY <1>0, <1>2, CloseRenderKeeps DEF Holds, Members
    <2>3. RenderInv'
      <3>1. render' = "closing" /\ scope' # <<>> /\ Last' = "render" /\ Members(entered) = ActiveMiddleware
        BY <1>0, <1>2, CloseRenderKeeps DEF IInv, RenderInv
      <3> HIDE DEF Members, ActiveMiddleware, Holds
      <3>2. QED
        BY <1>0, <1>1, <2>2, <3>1 DEF RenderInv
    <2>4. QED
      BY <1>0, <1>1, <2>1, <2>3, ChainsKept DEF IInv
  <1>3. CASE AwaitRender /\ UNCHANGED producer
    <2>1. /\ RuntimeMatchesScopes' /\ ProducerInv' /\ TypeOK'
          /\ render # "none" /\ render' = "closed" /\ Unfinished' = {}
      BY <1>0, <1>3, AwaitRenderKeeps DEF IInv, TypeOK, Finalizers, Unfinished
    <2>2. RenderInv'
      <3>1. Members(entered) = ActiveMiddleware
        BY <2>1 DEF IInv, RenderInv
      <3> HIDE DEF Members, ActiveMiddleware, Holds
      <3>2. QED
        BY <1>0, <1>1, <2>1, <3>1 DEF RenderInv
    <2>3. QED
      BY <1>0, <1>1, <2>1, <2>2, ChainsKept DEF IInv
  <1>4. CASE Last = "producer" /\ producer = "running" /\ producer' = "finalizing" /\ UNCHANGED <<scope, render, tasks>>
    <2>1. TypeOK'
      BY <1>0, <1>4 DEF IInv, TypeOK
    <2>2. ProducerInv'
      BY <1>0, <1>4 DEF IInv, ProducerInv, Prepared, Members
    <2>3. RenderInv'
      BY <1>0, <1>4, RenderKept
    <2>4. QED
      BY <1>0, <1>1, <1>4, <2>1, <2>2, <2>3, ChainsKept DEF IInv
  <1>5. CASE Last # "render" /\ Pop /\ UNCHANGED <<producer, render, tasks>>
             /\ (Last = "producer" => producer \in {"forked", "done"})
    <2>1. ProducerInv' /\ scope' \in Seq(Finalizers)
      BY <1>0, <1>5, PopKeepsProducer
    <2>2. TypeOK'
      BY <1>0, <1>5, <2>1 DEF IInv, TypeOK, Finalizers
    <2>3. RenderInv'
      <3>1. render \in {"none", "closed"} /\ Unfinished' = Unfinished
        BY <1>5 DEF IInv, RenderInv, TypeOK, Unfinished
      <3> HIDE DEF Members, ActiveMiddleware, Unfinished
      <3>2. QED
        BY <1>0, <1>1, <1>5, <3>1 DEF IInv, RenderInv
    <2>4. QED
      BY <1>0, <1>1, <1>5, <2>1, <2>2, <2>3, ChainsKept DEF IInv
  <1>6. QED
    <2>1. \A m \in Middleware : m # "render" /\ m # "producer"
      BY RequestAssumption
    <2>2. \/ CloseRender /\ UNCHANGED producer
          \/ AwaitRender /\ UNCHANGED producer
          \/ Last = "producer" /\ JoinProducer /\ UNCHANGED <<render, tasks>>
          \/ Last \in Middleware /\ Pop /\ UNCHANGED <<producer, render, tasks>>
      BY DEF CloseScope
    <2>3. QED
      BY <1>2, <1>3, <1>4, <1>5, <2>1, <2>2 DEF JoinProducer

LEMMA CloseIInv == ASSUME IInv, Close PROVE IInv'
  <1>0. /\ handler = "closing" /\ handler' = "closed"
        /\ UNCHANGED <<destination, request, chain, entered, scope, fn, producer, render, tasks, response, aborted>>
    BY DEF Close
  <1>1. TypeOK' /\ PhaseInv'
    BY <1>0 DEF IInv, TypeOK, PhaseInv
  <1>2. QED
    BY <1>0, <1>1, ChainsKept, ScopeKept, RenderKept DEF IInv

LEMMA StutterIInv == ASSUME IInv, UNCHANGED vars PROVE IInv'
  <1>1. EnteredInv' /\ PhaseInv'
    BY DEF vars, IInv, EnteredInv, PhaseInv, Target, Base, Holds, Prepared, IsRefresh, ActiveMiddleware, Members
  <1>2. TypeOK'
    BY DEF vars, IInv, TypeOK
  <1>3. RenderInv'
    BY DEF vars, IInv, RenderInv, ActiveMiddleware, Unfinished, Last, Holds, Prepared, Members
  <1>4. QED
    BY <1>1, <1>2, <1>3, ChainsKept, ScopeKept DEF IInv, vars

LEMMA NextIInv == IInv /\ [Next]_vars => IInv'
  <1> SUFFICES ASSUME IInv, [Next]_vars PROVE IInv'
    OBVIOUS
  <1>1. CASE HandlerStep
    BY <1>1, ArriveIInv, PrepareIInv, EnterIInv, SkipIInv, MiddlewareAnswersIInv, PassIInv,
       StartFunctionIInv, CompleteFunctionIInv, ReturnStreamIInv, FailFunctionIInv,
       DecodeParamsIInv, StartRenderIInv, ShellRespondIInv DEF HandlerStep
  <1>2. CASE ReleaseStep \/ Disconnect
    BY <1>2, FinalizeFunctionIInv, ReleaseIInv, CloseScopeIInv, CloseIInv, DisconnectIInv DEF ReleaseStep
  <1>3. CASE \E declared \in Views : Visit(declared)
    BY <1>3, VisitIInv
  <1>4. CASE \E t \in Tasks : RunTask(t) \/ FinishTask(t)
    BY <1>4, RunTaskIInv, FinishTaskIInv
  <1>5. CASE RegisterProducer \/ EndStream \/ FinalizeProducer
    BY <1>5, StreamIInv
  <1>6. CASE UNCHANGED vars
    BY <1>6, StutterIInv
  <1>7. QED
    BY <1>1, <1>2, <1>3, <1>4, <1>5, <1>6 DEF Next

LEMMA Invariant == Spec => []IInv
  <1>1. QED
    BY InitIInv, NextIInv, PTL DEF Spec

-----------------------------------------------------------------------------
(* Every variable of a request keeps its type, the stack of its finalizers *)
(* included (mount.ts, handler.ts).                                        *)
THEOREM TypeCorrect == Spec => []TypeOK
  <1>1. IInv => TypeOK
    BY DEF IInv
  <1>2. QED
    BY <1>1, Invariant, PTL

(* However the middleware of a function and of a page diverge, each runs   *)
(* once and inside of what it requires (middleware.ts, compileRouteGraph). *)
THEOREM MiddlewareComposes == Spec => []ScopesCompose
  <1>1. IInv => ScopesCompose
    BY DEF IInv
  <1>2. QED
    BY <1>1, Invariant, PTL

(* The runtime admits exactly the tasks whose services were entered        *)
(* (activateComponentRuntime).                                             *)
THEOREM RuntimeAdmitsEntered == Spec => []RuntimeMatchesScopes
  <1>1. IInv => RuntimeMatchesScopes
    BY DEF IInv
  <1>2. QED
    BY <1>1, Invariant, PTL

LEMMA InvariantHoldsWork == ASSUME IInv PROVE WorkInsideResources
  <1>1. ASSUME fn \in {"running", "finalizing"} PROVE Holds(Prepared)
    BY <1>1 DEF IInv, PhaseInv, Holds
  <1>2. ASSUME producer \in {"running", "finalizing"} PROVE Holds(Prepared)
    <2>1. PICK k \in DOMAIN scope : scope[k] = "producer"
      BY <1>2 DEF IInv, ProducerInv, Members, Range
    <2>2. Members(Prepared) \subseteq {scope[j] : j \in 1..(k - 1)}
      BY <2>1 DEF IInv, ProducerInv
    <2>3. \A j \in 1..(k - 1) : j \in DOMAIN scope
      <3>1. scope \in Seq(Middleware \cup {"render", "producer"})
        BY DEF IInv, TypeOK
      <3>2. DOMAIN scope = 1..Len(scope) /\ Len(scope) \in Nat
        BY <3>1, LenProperties
      <3>3. QED
        BY <2>1, <3>2
    <2>4. {scope[j] : j \in 1..(k - 1)} \subseteq {scope[j] : j \in DOMAIN scope}
      BY <2>3
    <2>5. QED
      BY <2>2, <2>4 DEF Holds, Members, Range
  <1>3. ASSUME Unfinished # {} PROVE Holds(entered)
    BY <1>3 DEF IInv, TypeOK, RenderInv
  <1>4. QED
    BY <1>1, <1>2, <1>3 DEF WorkInsideResources, FunctionWorks

(* No function, stream or task outlives a resource of the middleware       *)
(* around it, whoever ends first (handler.ts, flight-adapter).             *)
THEOREM ResourcesOutliveWork == Spec => []WorkInsideResources
  <1>1. QED
    BY InvariantHoldsWork, Invariant, PTL

-----------------------------------------------------------------------------
(* The Routes of an application.  Sets of paths that no router confuses:   *)
Apart(one, other) == \A p \in one, q \in other : Shape(p) # Shape(q)

Below(prefix, paths) == {JoinPaths(prefix, path) : path \in paths}

(* The paths of a page's Routes, of a mount and of a visit.                *)
PagePaths(routes) == {routes.pages[i].path : i \in DOMAIN routes.pages}
MountPaths(mount) == Below(mount.path, Range(mount.routes.paths))
Claims(visit) == Below(visit.prefix, Range(visit.routes.paths))

(* Routes know the paths of all of their pages, and no two pages, however  *)
(* deeply nested, have paths of one shape.                                 *)
Exact(routes) ==
  /\ \A i \in DOMAIN routes.pages : PageFits(routes.pages[i].path, routes.pages[i].page)
  /\ \A i \in DOMAIN routes.mounts : ParamAt(routes.mounts[i].path) = {}
  /\ Range(routes.paths) =
       PagePaths(routes) \cup UNION {MountPaths(routes.mounts[i]) : i \in DOMAIN routes.mounts}
  /\ routes.shapes = {Shape(path) : path \in Range(routes.paths)}
  /\ \A i, j \in DOMAIN routes.pages :
       i # j => Shape(routes.pages[i].path) # Shape(routes.pages[j].path)
  /\ \A i \in DOMAIN routes.mounts : Apart(PagePaths(routes), MountPaths(routes.mounts[i]))
  /\ \A i, j \in DOMAIN routes.mounts :
       i # j => Apart(MountPaths(routes.mounts[i]), MountPaths(routes.mounts[j]))

(* What was visited and what is still to be visited are the paths of the   *)
(* application, each of them once.                                         *)
VisitsInv ==
  /\ \A i \in DOMAIN visits : ParamAt(visits[i].prefix) = {}
  /\ \A i, j \in DOMAIN visits : i # j => Apart(Claims(visits[i]), Claims(visits[j]))
  /\ \A d \in DOMAIN compiled, i \in DOMAIN visits :
       Apart({compiled[d].pattern}, Claims(visits[i]))

CompiledInv ==
  /\ \A d \in DOMAIN compiled :
       /\ compiled[d].page.params = ParamNames(compiled[d].pattern)
       /\ ~MatchesReserved(compiled[d].pattern)
  /\ \A d, e \in DOMAIN compiled :
       d # e => Shape(compiled[d].pattern) # Shape(compiled[e].pattern)

Covered ==
  Range(application.paths) =
    {compiled[d].pattern : d \in DOMAIN compiled} \cup UNION {Claims(visits[i]) : i \in DOMAIN visits}

GraphInv ==
  /\ GraphTypeOK
  /\ \A routes \in defined : Exact(routes)
  /\ startup = "building" => visits = <<>> /\ compiled = <<>>
  /\ startup \in {"compiling", "compiled"} => VisitsInv /\ CompiledInv /\ Covered
  /\ startup = "compiled" => visits = <<>>

-----------------------------------------------------------------------------
(* Segments, shapes and paths that are joined.                             *)

LEMMA GraphIsSequence ==
  ASSUME NEW S, NEW n \in Nat, NEW f \in [1..n -> S]
  PROVE  f \in Seq(S) /\ Len(f) = n
<1>1. f \in Seq(S)
  BY SeqDef
<1>2. Len(f) \in Nat /\ DOMAIN f = 1..Len(f)
  BY <1>1, LenProperties
<1> QED
  BY <1>1, <1>2

LEMMA SegmentFacts ==
  ASSUME NEW s \in Segments
  PROVE  /\ s = [kind |-> s.kind, name |-> s.name, letters |-> s.letters]
         /\ Lower(s) = [kind |-> s.kind, name |-> s.name, letters |-> "small"]
         /\ Lower(s) \in Segments
         /\ s.kind # "param" => Lower(s) # Param("") /\ Lower(s) # Literal(Other, "small")
<1>0. /\ Param("").kind = "param" /\ Literal(Other, "small").kind = "literal"
      /\ Literal(Other, "small").name = Other
  BY DEF Param, Literal
<1>1. CASE \E w \in Words, u \in Letters : s = Literal(w, u)
  <2>1. PICK w \in Words, u \in Letters : s = Literal(w, u)
    BY <1>1
  <2>2. s = [kind |-> "literal", name |-> w, letters |-> u]
    BY <2>1 DEF Literal
  <2>3. Lower(s) = [kind |-> "literal", name |-> w, letters |-> "small"]
    BY <2>2 DEF Lower
  <2>4. Lower(s) \in Segments
    BY <2>3 DEF Segments, Literal, Letters
  <2>5. Lower(s) # Param("") /\ Lower(s) # Literal(Other, "small")
    <3>1. Lower(s).kind = "literal" /\ Lower(s).name = w
      BY <2>3
    <3> QED
      BY <1>0, <3>1, PathsAssumption
  <2> QED
    BY <2>2, <2>3, <2>4, <2>5
<1>2. CASE \E w \in Words : s = Param(w)
  <2>1. PICK w \in Words : s = Param(w)
    BY <1>2
  <2>2. s = [kind |-> "param", name |-> w, letters |-> "small"] /\ Lower(s) = s
    BY <2>1 DEF Param, Lower
  <2> QED
    BY <2>2
<1>3. CASE s \in Malformed
  <2>1. /\ s = [kind |-> s.kind, name |-> s.name, letters |-> s.letters]
        /\ s.kind \in {"empty", "dots", "colon", "special"} /\ s.letters = "small"
    BY <1>3 DEF Malformed
  <2>2. Lower(s) = s
    BY <2>1 DEF Lower
  <2>3. s # Param("") /\ s # Literal(Other, "small")
    BY <1>0, <2>1
  <2>4. Lower(s) = [kind |-> s.kind, name |-> s.name, letters |-> "small"]
    BY <2>1, <2>2
  <2> QED
    BY <2>1, <2>2, <2>3, <2>4
<1>4. \/ \E w \in Words, u \in Letters : s = Literal(w, u)
      \/ \E w \in Words : s = Param(w)
      \/ s \in Malformed
  BY DEF Segments
<1> QED
  BY <1>1, <1>2, <1>3, <1>4

LEMMA PathFacts ==
  ASSUME NEW p \in Paths
  PROVE  /\ Len(p) \in Nat /\ DOMAIN p = 1..Len(p)
         /\ \A i \in 1..Len(p) : p[i] \in Segments
         /\ ParamAt(p) \subseteq 1..Len(p)
         /\ \A i \in 1..Len(p) : i \in ParamAt(p) <=> p[i].kind = "param"
<1>1. Len(p) \in Nat /\ DOMAIN p = 1..Len(p)
  BY LenProperties DEF Paths
<1>2. \A i \in 1..Len(p) : p[i] \in Segments
  BY ElementOfSeq DEF Paths
<1> QED
  BY <1>1, <1>2 DEF ParamAt

LEMMA ShapeIsSequence ==
  ASSUME NEW p \in Paths
  PROVE  Shape(p) \in Seq(Segments \cup {Param("")}) /\ Len(Shape(p)) = Len(p)
<1>1. Shape(p) \in [1..Len(p) -> Segments \cup {Param("")}]
  BY PathFacts, SegmentFacts DEF Shape
<1> QED
  BY <1>1, PathFacts, GraphIsSequence

(* Two paths of one shape have parameters at the same places and the same  *)
(* literals, but for their case, at the others.                            *)
Alike(p, q) ==
  /\ Len(p) = Len(q)
  /\ \A i \in 1..Len(p) :
       /\ i \in ParamAt(p) <=> i \in ParamAt(q)
       /\ i \notin ParamAt(p) => Lower(p[i]) = Lower(q[i])

LEMMA SameShape ==
  ASSUME NEW p \in Paths, NEW q \in Paths
  PROVE  Shape(p) = Shape(q) <=> Alike(p, q)
<1>1. /\ Len(p) \in Nat /\ DOMAIN p = 1..Len(p) /\ Len(q) \in Nat /\ DOMAIN q = 1..Len(q)
  BY PathFacts
<1>2. ASSUME Alike(p, q) PROVE Shape(p) = Shape(q)
  BY <1>1, <1>2 DEF Shape, Alike
<1>3. ASSUME Shape(p) = Shape(q) PROVE Alike(p, q)
  <2>1. Len(p) = Len(q)
    BY <1>3, ShapeIsSequence
  <2>2. ASSUME NEW i \in 1..Len(p)
        PROVE  /\ i \in ParamAt(p) <=> i \in ParamAt(q)
               /\ i \notin ParamAt(p) => Lower(p[i]) = Lower(q[i])
    <3>1. /\ Shape(p)[i] = IF i \in ParamAt(p) THEN Param("") ELSE Lower(p[i])
          /\ Shape(q)[i] = IF i \in ParamAt(q) THEN Param("") ELSE Lower(q[i])
      BY <1>1, <2>1 DEF Shape
    <3>2. /\ i \notin ParamAt(p) => Lower(p[i]) # Param("")
          /\ i \notin ParamAt(q) => Lower(q[i]) # Param("")
      BY <2>1, PathFacts, SegmentFacts
    <3> QED
      BY <1>3, <3>1, <3>2
  <2> QED
    BY <2>1, <2>2 DEF Alike
<1> QED
  BY <1>2, <1>3

LEMMA ConcatFacts ==
  ASSUME NEW S, NEW s \in Seq(S), NEW t \in Seq(S)
  PROVE  /\ s \o t \in Seq(S) /\ Len(s \o t) = Len(s) + Len(t)
         /\ DOMAIN s = 1..Len(s) /\ DOMAIN t = 1..Len(t) /\ DOMAIN (s \o t) = 1..(Len(s) + Len(t))
         /\ \A i \in 1..Len(s) : i \in DOMAIN (s \o t) /\ (s \o t)[i] = s[i]
         /\ \A i \in 1..Len(t) : Len(s) + i \in DOMAIN (s \o t) /\ (s \o t)[Len(s) + i] = t[i]
         /\ \A k \in DOMAIN (s \o t) : k \in 1..Len(s) \/ \E i \in 1..Len(t) : k = Len(s) + i
<1>1. Len(s) \in Nat /\ Len(t) \in Nat /\ DOMAIN s = 1..Len(s) /\ DOMAIN t = 1..Len(t)
  BY LenProperties
<1>2. /\ s \o t \in Seq(S) /\ Len(s \o t) = Len(s) + Len(t)
      /\ \A i \in 1..Len(s) + Len(t) : (s \o t)[i] = IF i <= Len(s) THEN s[i] ELSE t[i - Len(s)]
  BY ConcatProperties
<1>3. DOMAIN (s \o t) = 1..(Len(s) + Len(t))
  BY <1>2, LenProperties
<1>4. \A i \in 1..Len(s) : i \in DOMAIN (s \o t) /\ (s \o t)[i] = s[i]
  BY <1>1, <1>2, <1>3
<1>5. ASSUME NEW i \in 1..Len(t)
      PROVE  Len(s) + i \in DOMAIN (s \o t) /\ (s \o t)[Len(s) + i] = t[i]
  <2>1. Len(s) + i \in 1..Len(s) + Len(t) /\ ~(Len(s) + i <= Len(s)) /\ (Len(s) + i) - Len(s) = i
    BY <1>1
  <2> QED
    BY <1>2, <1>3, <2>1
<1>6. ASSUME NEW k \in DOMAIN (s \o t), k \notin 1..Len(s)
      PROVE  \E i \in 1..Len(t) : k = Len(s) + i
  <2>1. k - Len(s) \in 1..Len(t) /\ k = Len(s) + (k - Len(s))
    BY <1>1, <1>3, <1>6
  <2> QED
    BY <2>1
<1> QED
  BY <1>1, <1>2, <1>3, <1>4, <1>5, <1>6

(* A prefix without parameters adds none and tells no paths apart.         *)
LEMMA JoinedPlaces ==
  ASSUME NEW a \in Paths, NEW p \in Paths
  PROVE  /\ JoinPaths(a, p) \in Paths
         /\ Len(JoinPaths(a, p)) = Len(a) + Len(p)
         /\ \A i \in 1..Len(a) : JoinPaths(a, p)[i] = a[i]
         /\ \A i \in 1..Len(p) : JoinPaths(a, p)[Len(a) + i] = p[i]
BY ConcatFacts DEF JoinPaths, Paths

LEMMA JoinedParams ==
  ASSUME NEW a \in Paths, NEW p \in Paths, ParamAt(a) = {}
  PROVE  /\ \A i \in 1..Len(a) : i \notin ParamAt(JoinPaths(a, p))
         /\ \A i \in 1..Len(p) : Len(a) + i \in ParamAt(JoinPaths(a, p)) <=> i \in ParamAt(p)
         /\ ParamNames(JoinPaths(a, p)) = ParamNames(p)
         /\ ParamAt(p) = {} => ParamAt(JoinPaths(a, p)) = {}
<1> DEFINE ap == JoinPaths(a, p)
<1>1. /\ Len(a) \in Nat /\ Len(p) \in Nat /\ ap \in Paths /\ Len(ap) = Len(a) + Len(p)
      /\ \A i \in 1..Len(a) : ap[i] = a[i]
      /\ \A i \in 1..Len(p) : ap[Len(a) + i] = p[i]
  BY PathFacts, JoinedPlaces
<1> HIDE DEF ap
<1>2. ASSUME NEW i \in 1..Len(a) PROVE i \notin ParamAt(ap)
  <2>1. i \in 1..Len(ap) /\ a[i].kind # "param"
    BY <1>1, PathFacts
  <2> QED
    BY <1>1, <2>1, PathFacts
<1>3. ASSUME NEW i \in 1..Len(p) PROVE Len(a) + i \in ParamAt(ap) <=> i \in ParamAt(p)
  <2>1. Len(a) + i \in 1..Len(ap)
    BY <1>1
  <2> QED
    BY <1>1, <2>1, PathFacts
<1>4. ASSUME NEW k \in ParamAt(ap) PROVE \E i \in ParamAt(p) : k = Len(a) + i
  <2>1. k \in 1..Len(ap) /\ k \notin 1..Len(a)
    BY <1>1, <1>2, <1>4, PathFacts
  <2>2. k - Len(a) \in 1..Len(p) /\ k = Len(a) + (k - Len(a))
    BY <1>1, <2>1
  <2> QED
    BY <1>3, <1>4, <2>2
<1>5. ParamNames(ap) = ParamNames(p)
  <2>1. \A k \in ParamAt(ap) : \E i \in ParamAt(p) : ap[k].name = p[i].name
    BY <1>1, <1>4, PathFacts
  <2>2. \A i \in ParamAt(p) : \E k \in ParamAt(ap) : ap[k].name = p[i].name
    BY <1>1, <1>3, PathFacts
  <2> QED
    BY <2>1, <2>2 DEF ParamNames
<1> QED
  BY <1>2, <1>3, <1>4, <1>5 DEF ap

LEMMA JoinedShape ==
  ASSUME NEW a \in Paths, NEW p \in Paths, NEW q \in Paths, ParamAt(a) = {},
         Shape(JoinPaths(a, p)) = Shape(JoinPaths(a, q))
  PROVE  Shape(p) = Shape(q)
<1>1. JoinPaths(a, p) \in Paths /\ JoinPaths(a, q) \in Paths
  BY JoinedPlaces
<1>2. Alike(JoinPaths(a, p), JoinPaths(a, q))
  BY <1>1, SameShape
<1>3. /\ Len(a) \in Nat /\ Len(p) \in Nat /\ Len(q) \in Nat
      /\ Len(JoinPaths(a, p)) = Len(a) + Len(p) /\ Len(JoinPaths(a, q)) = Len(a) + Len(q)
  BY PathFacts, JoinedPlaces
<1>4. Len(p) = Len(q)
  <2>1. Len(JoinPaths(a, p)) = Len(JoinPaths(a, q))
    BY <1>2 DEF Alike
  <2> QED
    BY <1>3, <2>1
<1>5. ASSUME NEW i \in 1..Len(p)
      PROVE  /\ i \in ParamAt(p) <=> i \in ParamAt(q)
             /\ i \notin ParamAt(p) => Lower(p[i]) = Lower(q[i])
  <2>1. Len(a) + i \in 1..Len(JoinPaths(a, p)) /\ i \in 1..Len(q)
    BY <1>3, <1>4
  <2>2. /\ Len(a) + i \in ParamAt(JoinPaths(a, p)) <=> Len(a) + i \in ParamAt(JoinPaths(a, q))
        /\ Len(a) + i \notin ParamAt(JoinPaths(a, p)) =>
             Lower(JoinPaths(a, p)[Len(a) + i]) = Lower(JoinPaths(a, q)[Len(a) + i])
    BY <1>2, <2>1 DEF Alike
  <2>3. Len(a) + i \in ParamAt(JoinPaths(a, p)) <=> i \in ParamAt(p)
    BY JoinedParams
  <2>4. Len(a) + i \in ParamAt(JoinPaths(a, q)) <=> i \in ParamAt(q)
    BY <2>1, JoinedParams
  <2>5. JoinPaths(a, p)[Len(a) + i] = p[i] /\ JoinPaths(a, q)[Len(a) + i] = q[i]
    BY <2>1, JoinedPlaces
  <2> QED
    BY <2>2, <2>3, <2>4, <2>5
<1> QED
  BY <1>4, <1>5, SameShape DEF Alike

-----------------------------------------------------------------------------
(* The request that spells a pattern.                                      *)

LEMMA LeastPlace ==
  ASSUME NEW T, T \subseteq Nat, T # {}
  PROVE  \E x \in T : \A y \in T : ~(y < x)
<1>1. \E x \in T : \A y \in T : <<y, x>> \notin OpToRel(<, Nat)
  BY NatLessThanWellFounded, WFMin
<1> QED
  BY <1>1 DEF OpToRel

LEMMA SpelledFacts ==
  ASSUME NEW p \in Paths
  PROVE  /\ DOMAIN Spelled(p) = 1..Len(p) /\ Len(Spelled(p)) = Len(p)
         /\ \A i \in 1..Len(p) :
              Spelled(p)[i] = IF i \in ParamAt(p) THEN Literal(Other, "small") ELSE Lower(p[i])
<1> DEFINE S == Segments \cup {Literal(Other, "small")}
<1>1. Len(p) \in Nat /\ DOMAIN p = 1..Len(p) /\ \A i \in 1..Len(p) : Lower(p[i]) \in S
  BY PathFacts, SegmentFacts
<1>2. Spelled(p) \in [1..Len(p) -> S]
  BY <1>1 DEF Spelled
<1>3. Len(Spelled(p)) = Len(p)
  BY <1>1, <1>2, GraphIsSequence
<1> QED
  BY <1>1, <1>3 DEF Spelled

LEMMA LoweredTwice ==
  ASSUME NEW s \in Segments
  PROVE  Lower(Lower(s)) = Lower(s)
BY SegmentFacts DEF Lower

LEMMA SpelledMatches ==
  ASSUME NEW p \in Paths
  PROVE  Matches(p, Spelled(p))
<1>1. \A i \in 1..Len(p) : p[i] \in Segments
  BY PathFacts
<1>2. \A i \in 1..Len(p) : i \in ParamAt(p) \/ Lower(p[i]) = Lower(Spelled(p)[i])
  BY <1>1, SpelledFacts, LoweredTwice
<1> QED
  BY <1>2, SpelledFacts DEF Matches

(* A pattern that takes it has parameters wherever the spelled one has, so *)
(* at the first place where they differ the spelled one has a literal.     *)
LEMMA SpelledPrecedes ==
  ASSUME NEW p \in Paths, NEW q \in Paths, Matches(q, Spelled(p)), Shape(p) # Shape(q)
  PROVE  Precedes(p, q)
<1>1. /\ Len(q) = Len(p) /\ Len(p) \in Nat /\ DOMAIN p = 1..Len(p) /\ DOMAIN q = 1..Len(p)
  BY SpelledFacts, PathFacts DEF Matches
<1>2. ASSUME NEW i \in 1..Len(p), i \notin ParamAt(q)
      PROVE  i \notin ParamAt(p) /\ Lower(p[i]) = Lower(q[i])
  <2>1. Lower(q[i]) = Lower(Spelled(p)[i])
    BY <1>2, SpelledFacts DEF Matches
  <2>2. p[i] \in Segments /\ q[i] \in Segments /\ q[i].kind # "param"
    BY <1>1, <1>2, PathFacts
  <2>3. ASSUME i \in ParamAt(p) PROVE FALSE
    <3>1. Spelled(p)[i] = Literal(Other, "small")
      BY <2>3, SpelledFacts
    <3>2. Lower(Literal(Other, "small")) = Literal(Other, "small")
      BY DEF Lower, Literal
    <3> QED
      BY <2>1, <2>2, <3>1, <3>2, SegmentFacts
  <2>4. Spelled(p)[i] = Lower(p[i])
    BY <2>3, SpelledFacts
  <2> QED
    BY <2>1, <2>2, <2>3, <2>4, LoweredTwice
<1> DEFINE T == {i \in 1..Len(p) : i \notin ParamAt(p) /\ i \in ParamAt(q)}
<1>3. T # {}
  <2>1. SUFFICES ASSUME T = {} PROVE Alike(p, q)
    BY SameShape
  <2> QED
    BY <1>1, <1>2, <2>1 DEF Alike
<1>4. PICK i \in T : \A j \in T : ~(j < i)
  <2>1. T \subseteq Nat
    BY <1>1
  <2> HIDE DEF T
  <2> QED
    BY <1>3, <2>1, LeastPlace
<1>5. \A j \in 1..(i - 1) : j \in ParamAt(p) <=> j \in ParamAt(q)
  BY <1>1, <1>2, <1>4
<1> QED
  BY <1>1, <1>4, <1>5 DEF Precedes

LEMMA SpelledServed ==
  ASSUME NEW destinations \in Seq(Destination), NEW d \in DOMAIN destinations,
         \A e \in DOMAIN destinations :
           e # d => Shape(destinations[e].pattern) # Shape(destinations[d].pattern)
  PROVE  Serves(destinations, d, Spelled(destinations[d].pattern))
<1>1. \A e \in DOMAIN destinations : destinations[e].pattern \in Paths
  <2>1. SUFFICES ASSUME NEW e \in DOMAIN destinations
                 PROVE  destinations[e] \in Destination
    BY DEF Destination
  <2>2. DOMAIN destinations = 1..Len(destinations)
    BY LenProperties
  <2> QED
    BY <2>1, <2>2, ElementOfSeq
<1>2. Matches(destinations[d].pattern, Spelled(destinations[d].pattern))
  BY <1>1, SpelledMatches
<1>3. ASSUME NEW e \in DOMAIN destinations \ {d},
             Matches(destinations[e].pattern, Spelled(destinations[d].pattern))
      PROVE  Precedes(destinations[d].pattern, destinations[e].pattern)
  BY <1>1, <1>3, SpelledPrecedes
<1> QED
  BY <1>2, <1>3 DEF Serves

LEMMA SpelledUnreserved ==
  ASSUME NEW p \in Paths, ~MatchesReserved(p)
  PROVE  ~MatchesReserved(Spelled(p))
<1>1. SUFFICES ASSUME MatchesReserved(Spelled(p)) PROVE FALSE
  OBVIOUS
<1>2. p # <<>>
  <2>1. SUFFICES ASSUME p = <<>> PROVE Spelled(p) = <<>>
    BY <1>1 DEF MatchesReserved
  <2> QED
    BY <2>1 DEF Spelled
<1>3. Len(p) \in Nat /\ 1 \in 1..Len(p)
  BY <1>2, EmptySeq DEF Paths
<1>4. 1 \notin ParamAt(p) /\ Lower(p[1]) # Literal(Reserved, "small")
  BY <1>2 DEF MatchesReserved
<1>5. Spelled(p)[1] = Lower(p[1]) /\ p[1] \in Segments /\ p[1].kind # "param"
  BY <1>3, <1>4, SpelledFacts, PathFacts
<1>6. 1 \notin ParamAt(Spelled(p))
  <2>1. Lower(p[1]) = [kind |-> p[1].kind, name |-> p[1].name, letters |-> "small"]
    BY <1>5, SegmentFacts
  <2> QED
    BY <1>5, <2>1 DEF ParamAt
<1> QED
  BY <1>1, <1>4, <1>5, <1>6, LoweredTwice DEF MatchesReserved

-----------------------------------------------------------------------------
(* Sets of paths below a prefix.                                           *)

LEMMA BelowPaths ==
  ASSUME NEW a \in Paths, NEW P, P \subseteq Paths
  PROVE  Below(a, P) \subseteq Paths
BY JoinedPlaces DEF Below

LEMMA BelowApart ==
  ASSUME NEW a \in Paths, ParamAt(a) = {}, NEW P, NEW Q, P \subseteq Paths, Q \subseteq Paths,
         Apart(P, Q)
  PROVE  Apart(Below(a, P), Below(a, Q))
<1>1. SUFFICES ASSUME NEW p \in P, NEW q \in Q, Shape(JoinPaths(a, p)) = Shape(JoinPaths(a, q))
               PROVE  FALSE
  BY DEF Apart, Below
<1>2. Shape(p) = Shape(q)
  BY <1>1, JoinedShape
<1> QED
  BY <1>2 DEF Apart

LEMMA BelowJoined ==
  ASSUME NEW a \in Paths, NEW b \in Paths, NEW P, P \subseteq Paths
  PROVE  Below(JoinPaths(a, b), P) = Below(a, Below(b, P))
<1>1. \A p \in P : JoinPaths(JoinPaths(a, b), p) = JoinPaths(a, JoinPaths(b, p))
  BY ConcatAssociative DEF JoinPaths, Paths
<1> QED
  BY <1>1 DEF Below

LEMMA NothingBefore ==
  ASSUME NEW P, P \subseteq Paths
  PROVE  Below(<<>>, P) = P
<1>1. \A p \in P : JoinPaths(<<>>, p) = p
  BY ConcatEmptySeq DEF JoinPaths, Paths
<1> QED
  BY <1>1 DEF Below

LEMMA Elements ==
  ASSUME NEW S, NEW s \in Seq(S)
  PROVE  DOMAIN s = 1..Len(s) /\ Len(s) \in Nat /\ Range(s) \subseteq S /\ \A i \in DOMAIN s : s[i] \in S
<1>1. DOMAIN s = 1..Len(s) /\ Len(s) \in Nat
  BY LenProperties
<1>2. \A i \in DOMAIN s : s[i] \in S
  BY <1>1, ElementOfSeq
<1> QED
  BY <1>1, <1>2 DEF Range

LEMMA SequencesGrow ==
  ASSUME NEW S, NEW T, S \subseteq T, NEW s \in Seq(S)
  PROVE  s \in Seq(T)
<1>1. /\ DOMAIN s = 1..Len(s) /\ Len(s) \in Nat /\ s = [i \in DOMAIN s |-> s[i]]
      /\ \A i \in DOMAIN s : s[i] \in T
  BY Elements, LenProperties
<1>2. s \in [1..Len(s) -> T]
  BY <1>1
<1> QED
  BY <1>1, <1>2, GraphIsSequence

LEMMA RoutesGrow ==
  ASSUME NEW R, NEW T, R \subseteq T, NEW routes \in RoutesOver(R)
  PROVE  routes \in RoutesOver(T)
<1>1. [path : Paths, routes : R] \subseteq [path : Paths, routes : T]
  OBVIOUS
<1>2. routes.mounts \in Seq([path : Paths, routes : T])
  <2>1. routes.mounts \in Seq([path : Paths, routes : R])
    BY DEF RoutesOver
  <2> QED
    BY <1>1, <2>1, SequencesGrow
<1> QED
  BY <1>2 DEF RoutesOver

-----------------------------------------------------------------------------
(* The calls of page and mount keep Routes exact.                          *)

(* What the parts of Routes over R are.                                    *)
LEMMA RoutesParts ==
  ASSUME NEW R, R \subseteq RoutesOver(R), NEW routes \in RoutesOver(R)
  PROVE  /\ \A i \in DOMAIN routes.pages :
              routes.pages[i].path \in Paths /\ routes.pages[i].page \in PagesTried
         /\ \A i \in DOMAIN routes.mounts :
              routes.mounts[i].path \in Paths /\ routes.mounts[i].routes \in R
         /\ Range(routes.paths) \subseteq Paths
         /\ PagePaths(routes) \subseteq Paths
         /\ \A i \in DOMAIN routes.mounts : MountPaths(routes.mounts[i]) \subseteq Paths
<1>1. /\ routes.pages \in Seq([path : Paths, page : PagesTried])
      /\ routes.mounts \in Seq([path : Paths, routes : R]) /\ routes.paths \in Seq(Paths)
  BY DEF RoutesOver
<1>2. \A i \in DOMAIN routes.pages :
        routes.pages[i].path \in Paths /\ routes.pages[i].page \in PagesTried
  <2>1. \A i \in DOMAIN routes.pages : routes.pages[i] \in [path : Paths, page : PagesTried]
    BY <1>1, Elements
  <2> QED
    BY <2>1
<1>3. \A i \in DOMAIN routes.mounts :
        routes.mounts[i].path \in Paths /\ routes.mounts[i].routes \in R
  <2>1. \A i \in DOMAIN routes.mounts : routes.mounts[i] \in [path : Paths, routes : R]
    BY <1>1, Elements
  <2> QED
    BY <2>1
<1>4. \A child \in R : Range(child.paths) \subseteq Paths
  <2>1. \A child \in R : child.paths \in Seq(Paths)
    BY DEF RoutesOver
  <2> QED
    BY <2>1, Elements
<1>5. \A i \in DOMAIN routes.mounts : MountPaths(routes.mounts[i]) \subseteq Paths
  BY <1>3, <1>4, BelowPaths DEF MountPaths
<1>6. Range(routes.paths) \subseteq Paths
  BY <1>1, Elements
<1> QED
  BY <1>2, <1>3, <1>5, <1>6 DEF PagePaths

LEMMA AppendFacts ==
  ASSUME NEW S, NEW s \in Seq(S), NEW e \in S
  PROVE  /\ Append(s, e) \in Seq(S)
         /\ \A i \in DOMAIN s : i \in DOMAIN Append(s, e) /\ Append(s, e)[i] = s[i]
         /\ Len(s) + 1 \in DOMAIN Append(s, e) /\ Append(s, e)[Len(s) + 1] = e
         /\ \A i \in DOMAIN Append(s, e) : i \in DOMAIN s \/ i = Len(s) + 1
         /\ Range(Append(s, e)) = Range(s) \cup {e}
<1>1. DOMAIN s = 1..Len(s) /\ Len(s) \in Nat
  BY Elements
<1>2. /\ Append(s, e) \in Seq(S) /\ Len(Append(s, e)) = Len(s) + 1
      /\ \A i \in 1..Len(s) : Append(s, e)[i] = s[i]
      /\ Append(s, e)[Len(s) + 1] = e
  BY AppendProperties
<1>3. DOMAIN Append(s, e) = 1..(Len(s) + 1)
  BY <1>2, Elements
<1>4. /\ \A i \in DOMAIN s : i \in DOMAIN Append(s, e) /\ Append(s, e)[i] = s[i]
      /\ Len(s) + 1 \in DOMAIN Append(s, e) /\ Append(s, e)[Len(s) + 1] = e
      /\ \A i \in DOMAIN Append(s, e) : i \in DOMAIN s \/ i = Len(s) + 1
  BY <1>1, <1>2, <1>3
<1>5. Range(Append(s, e)) = Range(s) \cup {e}
  BY <1>4 DEF Range
<1> QED
  BY <1>2, <1>4, <1>5

LEMMA ConcatRange ==
  ASSUME NEW S, NEW s \in Seq(S), NEW t \in Seq(S)
  PROVE  s \o t \in Seq(S) /\ Range(s \o t) = Range(s) \cup Range(t)
<1>1. \A x : x \in Range(s \o t) => x \in Range(s) \cup Range(t)
  BY ConcatFacts DEF Range
<1>2. \A x \in Range(s) : x \in Range(s \o t)
  BY ConcatFacts DEF Range
<1>3. ASSUME NEW x \in Range(t) PROVE x \in Range(s \o t)
  <2>1. PICK i \in 1..Len(t) : x = t[i]
    BY <1>3, ConcatFacts DEF Range
  <2>2. Len(s) + i \in DOMAIN (s \o t) /\ (s \o t)[Len(s) + i] = x
    BY <2>1, ConcatFacts
  <2> QED
    BY <2>2 DEF Range
<1> QED
  BY <1>1, <1>2, <1>3, ConcatFacts

LEMMA PageKeepsExact ==
  ASSUME NEW R, R \subseteq RoutesOver(R), NEW routes \in RoutesOver(R), Exact(routes),
         NEW path \in Paths, NEW page \in PagesTried, NEW added \in AddPage(routes, path, page)
  PROVE  added \in RoutesOver(R) /\ Exact(added)
<1>1. /\ Shape(path) \notin routes.shapes /\ PageFits(path, page)
      /\ added = [routes EXCEPT !.pages = Append(@, [path |-> path, page |-> page]),
                                !.paths = Append(@, path),
                                !.shapes = @ \cup {Shape(path)}]
  BY DEF AddPage
<1>2. /\ routes.pages \in Seq([path : Paths, page : PagesTried])
      /\ routes.mounts \in Seq([path : Paths, routes : R]) /\ routes.paths \in Seq(Paths)
      /\ routes.shapes \in SUBSET Seq(Segments \cup {Param("")})
      /\ routes = [pages |-> routes.pages, mounts |-> routes.mounts, paths |-> routes.paths,
                   shapes |-> routes.shapes]
  BY DEF RoutesOver
<1>3. /\ added.pages = Append(routes.pages, [path |-> path, page |-> page])
      /\ added.mounts = routes.mounts /\ added.paths = Append(routes.paths, path)
      /\ added.shapes = routes.shapes \cup {Shape(path)}
      /\ added = [pages |-> added.pages, mounts |-> added.mounts, paths |-> added.paths,
                  shapes |-> added.shapes]
  BY <1>1, <1>2
<1>4. [path |-> path, page |-> page] \in [path : Paths, page : PagesTried]
  OBVIOUS
<1>5. /\ added.pages \in Seq([path : Paths, page : PagesTried])
      /\ \A i \in DOMAIN routes.pages : i \in DOMAIN added.pages /\ added.pages[i] = routes.pages[i]
      /\ Len(routes.pages) + 1 \in DOMAIN added.pages
      /\ added.pages[Len(routes.pages) + 1] = [path |-> path, page |-> page]
      /\ \A i \in DOMAIN added.pages : i \in DOMAIN routes.pages \/ i = Len(routes.pages) + 1
  <2> DEFINE S == [path : Paths, page : PagesTried]
             s == routes.pages
             e == [path |-> path, page |-> page]
  <2>1. s \in Seq(S) /\ e \in S
    BY <1>2, <1>4
  <2> HIDE DEF S, s, e
  <2>2. /\ Append(s, e) \in Seq(S)
        /\ \A i \in DOMAIN s : i \in DOMAIN Append(s, e) /\ Append(s, e)[i] = s[i]
        /\ Len(s) + 1 \in DOMAIN Append(s, e) /\ Append(s, e)[Len(s) + 1] = e
        /\ \A i \in DOMAIN Append(s, e) : i \in DOMAIN s \/ i = Len(s) + 1
    BY <2>1, AppendFacts
  <2> USE DEF S, s, e
  <2> QED
    BY <1>3, <2>2
<1>6. added.paths \in Seq(Paths) /\ Range(added.paths) = Range(routes.paths) \cup {path}
  <2> DEFINE s == routes.paths
  <2>1. s \in Seq(Paths)
    BY <1>2
  <2> HIDE DEF s
  <2>2. Append(s, path) \in Seq(Paths) /\ Range(Append(s, path)) = Range(s) \cup {path}
    BY <2>1, AppendFacts
  <2> USE DEF s
  <2> QED
    BY <1>3, <2>2
<1>7. added \in RoutesOver(R)
  <2>1. added.shapes \in SUBSET Seq(Segments \cup {Param("")})
    BY <1>2, <1>3, ShapeIsSequence
  <2> QED
    BY <1>2, <1>3, <1>5, <1>6, <2>1 DEF RoutesOver
<1>8. \A q \in Range(routes.paths) : Shape(path) # Shape(q)
  BY <1>1 DEF Exact
<1>9. PagePaths(added) = PagePaths(routes) \cup {path}
  BY <1>5 DEF PagePaths
<1>10. /\ \A i \in DOMAIN added.pages : PageFits(added.pages[i].path, added.pages[i].page)
       /\ \A i \in DOMAIN added.mounts : ParamAt(added.mounts[i].path) = {}
  <2>1. ASSUME NEW i \in DOMAIN added.pages
        PROVE  PageFits(added.pages[i].path, added.pages[i].page)
    <3>1. CASE i \in DOMAIN routes.pages
      BY <1>5, <3>1 DEF Exact
    <3>2. CASE i = Len(routes.pages) + 1
      BY <1>1, <1>5, <3>2
    <3> QED
      BY <1>5, <3>1, <3>2
  <2>2. \A i \in DOMAIN added.mounts : ParamAt(added.mounts[i].path) = {}
    BY <1>3 DEF Exact
  <2> QED
    BY <2>1, <2>2
<1>11. Range(added.paths) =
         PagePaths(added) \cup UNION {MountPaths(added.mounts[i]) : i \in DOMAIN added.mounts}
  BY <1>3, <1>6, <1>9 DEF Exact
<1>12. added.shapes = {Shape(p) : p \in Range(added.paths)}
  BY <1>3, <1>6 DEF Exact
<1>13. ASSUME NEW i \in DOMAIN added.pages, NEW j \in DOMAIN added.pages, i # j
       PROVE  Shape(added.pages[i].path) # Shape(added.pages[j].path)
  <2>1. \A k \in DOMAIN routes.pages : routes.pages[k].path \in Range(routes.paths)
    BY DEF Exact, PagePaths
  <2>2. CASE i \in DOMAIN routes.pages /\ j \in DOMAIN routes.pages
    BY <1>5, <1>13, <2>2 DEF Exact
  <2>3. CASE i = Len(routes.pages) + 1 /\ j \in DOMAIN routes.pages
    BY <1>5, <1>8, <2>1, <2>3
  <2>4. CASE i \in DOMAIN routes.pages /\ j = Len(routes.pages) + 1
    BY <1>5, <1>8, <2>1, <2>4
  <2> QED
    BY <1>5, <1>13, <2>2, <2>3, <2>4
<1>14. ASSUME NEW i \in DOMAIN added.mounts
       PROVE  Apart(PagePaths(added), MountPaths(added.mounts[i]))
  <2>1. MountPaths(routes.mounts[i]) \subseteq Range(routes.paths) /\ added.mounts[i] = routes.mounts[i]
    BY <1>3, <1>14 DEF Exact
  <2>2. Apart(PagePaths(routes), MountPaths(routes.mounts[i]))
    BY <1>3, <1>14 DEF Exact
  <2> QED
    BY <1>8, <1>9, <2>1, <2>2 DEF Apart
<1>15. \A i, j \in DOMAIN added.mounts :
         i # j => Apart(MountPaths(added.mounts[i]), MountPaths(added.mounts[j]))
  BY <1>3 DEF Exact
<1>16. Exact(added)
  BY <1>10, <1>11, <1>12, <1>13, <1>14, <1>15 DEF Exact
<1> QED
  BY <1>7, <1>16

LEMMA MountKeepsExact ==
  ASSUME NEW R, R \subseteq RoutesOver(R), NEW routes \in RoutesOver(R), Exact(routes),
         NEW prefix \in Paths, NEW child \in R, NEW mounted \in Mount(routes, prefix, child)
  PROVE  mounted \in RoutesOver(R) /\ Exact(mounted)
<1> DEFINE mount == [path |-> prefix, routes |-> child]
           joined == Mounted(prefix, child)
<1>1. /\ ParamNames(prefix) = {} /\ ~Collides(routes, joined)
      /\ mounted = [routes EXCEPT !.mounts = Append(@, mount),
                                  !.paths = @ \o joined,
                                  !.shapes = @ \cup {Shape(path) : path \in Range(joined)}]
  BY DEF Mount
<1>2. mount \in [path : Paths, routes : R] /\ mount.path = prefix /\ mount.routes = child
  OBVIOUS
<1>3. /\ child.paths \in Seq(Paths)
      /\ routes.pages \in Seq([path : Paths, page : PagesTried])
      /\ routes.mounts \in Seq([path : Paths, routes : R]) /\ routes.paths \in Seq(Paths)
      /\ routes.shapes \in SUBSET Seq(Segments \cup {Param("")})
      /\ routes = [pages |-> routes.pages, mounts |-> routes.mounts, paths |-> routes.paths,
                   shapes |-> routes.shapes]
  BY DEF RoutesOver
<1>4. joined \in Seq(Paths) /\ Range(joined) = MountPaths(mount)
  <2>1. /\ DOMAIN child.paths = 1..Len(child.paths) /\ Len(child.paths) \in Nat
        /\ \A i \in DOMAIN child.paths : child.paths[i] \in Paths
    BY <1>3, Elements
  <2>2. joined \in [1..Len(child.paths) -> Paths]
    BY <2>1, JoinedPlaces DEF Mounted
  <2>3. joined \in Seq(Paths)
    BY <2>1, <2>2, GraphIsSequence
  <2>4. Range(joined) = Below(prefix, Range(child.paths))
    BY DEF Mounted, Below, Range
  <2> QED
    BY <1>2, <2>3, <2>4 DEF MountPaths
<1>5. Apart(Range(routes.paths), MountPaths(mount))
  <2>1. ASSUME NEW p \in Range(routes.paths), NEW q \in Range(joined)
        PROVE  Shape(p) # Shape(q)
    <3>1. PICK i \in DOMAIN joined : q = joined[i]
      BY <2>1 DEF Range
    <3>2. Shape(joined[i]) \notin routes.shapes
      BY <1>1, <3>1 DEF Collides
    <3>3. Shape(p) \in routes.shapes
      BY <2>1 DEF Exact
    <3> QED
      BY <3>1, <3>2, <3>3
  <2> QED
    BY <1>4, <2>1 DEF Apart
<1> HIDE DEF mount, joined
<1>6. /\ mounted.mounts = Append(routes.mounts, mount)
      /\ mounted.pages = routes.pages /\ mounted.paths = routes.paths \o joined
      /\ mounted.shapes = routes.shapes \cup {Shape(path) : path \in Range(joined)}
      /\ mounted = [pages |-> mounted.pages, mounts |-> mounted.mounts, paths |-> mounted.paths,
                    shapes |-> mounted.shapes]
  BY <1>1, <1>3
<1>7. /\ mounted.mounts \in Seq([path : Paths, routes : R])
      /\ \A i \in DOMAIN routes.mounts : i \in DOMAIN mounted.mounts /\ mounted.mounts[i] = routes.mounts[i]
      /\ Len(routes.mounts) + 1 \in DOMAIN mounted.mounts
      /\ mounted.mounts[Len(routes.mounts) + 1] = mount
      /\ \A i \in DOMAIN mounted.mounts : i \in DOMAIN routes.mounts \/ i = Len(routes.mounts) + 1
  <2> DEFINE S == [path : Paths, routes : R]
             s == routes.mounts
  <2>1. s \in Seq(S) /\ mount \in S
    BY <1>2, <1>3
  <2> HIDE DEF S, s
  <2>2. /\ Append(s, mount) \in Seq(S)
        /\ \A i \in DOMAIN s : i \in DOMAIN Append(s, mount) /\ Append(s, mount)[i] = s[i]
        /\ Len(s) + 1 \in DOMAIN Append(s, mount) /\ Append(s, mount)[Len(s) + 1] = mount
        /\ \A i \in DOMAIN Append(s, mount) : i \in DOMAIN s \/ i = Len(s) + 1
    BY <2>1, AppendFacts
  <2> USE DEF S, s
  <2> QED
    BY <1>6, <2>2
<1>8. mounted.paths \in Seq(Paths) /\ Range(mounted.paths) = Range(routes.paths) \cup MountPaths(mount)
  <2> DEFINE s == routes.paths
  <2>1. s \in Seq(Paths)
    BY <1>3
  <2> HIDE DEF s
  <2>2. s \o joined \in Seq(Paths) /\ Range(s \o joined) = Range(s) \cup Range(joined)
    BY <1>4, <2>1, ConcatRange
  <2> USE DEF s
  <2> QED
    BY <1>4, <1>6, <2>2
<1>9. MountPaths(mount) \subseteq Paths
  BY <1>4, Elements
<1>10. mounted \in RoutesOver(R)
  <2>1. mounted.shapes \in SUBSET Seq(Segments \cup {Param("")})
    BY <1>3, <1>4, <1>6, <1>9, ShapeIsSequence
  <2> QED
    BY <1>3, <1>6, <1>7, <1>8, <2>1 DEF RoutesOver
<1>11. /\ \A i \in DOMAIN routes.mounts : MountPaths(routes.mounts[i]) \subseteq Range(routes.paths)
       /\ PagePaths(routes) \subseteq Range(routes.paths) /\ PagePaths(mounted) = PagePaths(routes)
  BY <1>6 DEF Exact, PagePaths
<1>12. \A i \in DOMAIN mounted.mounts : ParamAt(mounted.mounts[i].path) = {}
  <2>1. ParamAt(prefix) = {}
    BY <1>1 DEF ParamNames
  <2>2. ASSUME NEW i \in DOMAIN mounted.mounts PROVE ParamAt(mounted.mounts[i].path) = {}
    <3>1. CASE i \in DOMAIN routes.mounts
      BY <1>7, <3>1 DEF Exact
    <3>2. CASE i = Len(routes.mounts) + 1
      BY <1>2, <1>7, <2>1, <3>2
    <3> QED
      BY <1>7, <3>1, <3>2
  <2> QED
    BY <2>2
<1>13. Range(mounted.paths) =
         PagePaths(mounted) \cup UNION {MountPaths(mounted.mounts[i]) : i \in DOMAIN mounted.mounts}
  <2>1. UNION {MountPaths(mounted.mounts[i]) : i \in DOMAIN mounted.mounts} =
          MountPaths(mount) \cup UNION {MountPaths(routes.mounts[i]) : i \in DOMAIN routes.mounts}
    BY <1>7
  <2> QED
    BY <1>8, <1>11, <2>1 DEF Exact
<1>14. mounted.shapes = {Shape(p) : p \in Range(mounted.paths)}
  BY <1>4, <1>6, <1>8 DEF Exact
<1>15. ASSUME NEW i \in DOMAIN mounted.mounts
       PROVE  Apart(PagePaths(mounted), MountPaths(mounted.mounts[i]))
  <2>1. CASE i \in DOMAIN routes.mounts
    BY <1>7, <1>11, <2>1 DEF Exact
  <2>2. CASE i = Len(routes.mounts) + 1
    BY <1>5, <1>7, <1>11, <2>2 DEF Apart
  <2> QED
    BY <1>7, <1>15, <2>1, <2>2
<1>16. ASSUME NEW i \in DOMAIN mounted.mounts, NEW j \in DOMAIN mounted.mounts, i # j
       PROVE  Apart(MountPaths(mounted.mounts[i]), MountPaths(mounted.mounts[j]))
  <2>1. CASE i \in DOMAIN routes.mounts /\ j \in DOMAIN routes.mounts
    BY <1>7, <1>16, <2>1 DEF Exact
  <2>2. CASE i = Len(routes.mounts) + 1 /\ j \in DOMAIN routes.mounts
    <3>1. \A p \in MountPaths(routes.mounts[j]) : p \in Range(routes.paths)
      BY <1>11, <2>2
    <3>2. mounted.mounts[i] = mount /\ mounted.mounts[j] = routes.mounts[j]
      BY <1>7, <2>2
    <3> QED
      BY <1>5, <3>1, <3>2 DEF Apart
  <2>3. CASE i \in DOMAIN routes.mounts /\ j = Len(routes.mounts) + 1
    <3>1. \A p \in MountPaths(routes.mounts[i]) : p \in Range(routes.paths)
      BY <1>11, <2>3
    <3>2. mounted.mounts[j] = mount /\ mounted.mounts[i] = routes.mounts[i]
      BY <1>7, <2>3
    <3> QED
      BY <1>5, <3>1, <3>2 DEF Apart
  <2> QED
    BY <1>7, <1>16, <2>1, <2>2, <2>3
<1>17. /\ \A i \in DOMAIN mounted.pages : PageFits(mounted.pages[i].path, mounted.pages[i].page)
       /\ \A i, j \in DOMAIN mounted.pages :
            i # j => Shape(mounted.pages[i].path) # Shape(mounted.pages[j].path)
  BY <1>6 DEF Exact
<1> QED
  BY <1>10, <1>12, <1>13, <1>14, <1>15, <1>16, <1>17 DEF Exact

-----------------------------------------------------------------------------
(* A visit splits what it claims among the pages and the mounts it finds.  *)

LEMMA VisitSplits ==
  ASSUME NEW R, R \subseteq RoutesOver(R), NEW v \in [routes : R, prefix : Paths],
         Exact(v.routes), ParamAt(v.prefix) = {}
  PROVE  /\ PagesAt(v) \in Seq(Destination)
         /\ MountsAt(v) \in Seq([routes : R, prefix : Paths])
         /\ \A i \in DOMAIN PagesAt(v) :
              PagesAt(v)[i].page.params = ParamNames(PagesAt(v)[i].pattern)
         /\ \A i \in DOMAIN MountsAt(v) : ParamAt(MountsAt(v)[i].prefix) = {}
         /\ Claims(v) = {PagesAt(v)[i].pattern : i \in DOMAIN PagesAt(v)}
                          \cup UNION {Claims(MountsAt(v)[i]) : i \in DOMAIN MountsAt(v)}
         /\ \A i, j \in DOMAIN PagesAt(v) :
              i # j => Shape(PagesAt(v)[i].pattern) # Shape(PagesAt(v)[j].pattern)
         /\ \A i \in DOMAIN PagesAt(v), j \in DOMAIN MountsAt(v) :
              Apart({PagesAt(v)[i].pattern}, Claims(MountsAt(v)[j]))
         /\ \A i, j \in DOMAIN MountsAt(v) :
              i # j => Apart(Claims(MountsAt(v)[i]), Claims(MountsAt(v)[j]))
<1> DEFINE pages == v.routes.pages
           mounts == v.routes.mounts
           a == v.prefix
<1>1. /\ v.routes \in R /\ v.routes \in RoutesOver(R) /\ a \in Paths
      /\ pages \in Seq([path : Paths, page : PagesTried])
      /\ mounts \in Seq([path : Paths, routes : R])
  BY DEF RoutesOver
<1>2. /\ \A i \in DOMAIN pages : pages[i].path \in Paths /\ pages[i].page \in PagesTried
      /\ \A i \in DOMAIN mounts : mounts[i].path \in Paths /\ mounts[i].routes \in R
      /\ Range(v.routes.paths) \subseteq Paths /\ PagePaths(v.routes) \subseteq Paths
      /\ \A i \in DOMAIN mounts : MountPaths(mounts[i]) \subseteq Paths
  BY <1>1, RoutesParts
<1>3. /\ DOMAIN PagesAt(v) = DOMAIN pages
      /\ \A i \in DOMAIN pages :
           PagesAt(v)[i].pattern = JoinPaths(a, pages[i].path) /\ PagesAt(v)[i].page = pages[i].page
  BY DEF PagesAt
<1>4. /\ DOMAIN MountsAt(v) = DOMAIN mounts
      /\ \A i \in DOMAIN mounts :
           /\ MountsAt(v)[i].routes = mounts[i].routes
           /\ MountsAt(v)[i].prefix = JoinPaths(a, mounts[i].path)
  BY DEF MountsAt, VisitOf
<1>5. PagesAt(v) \in Seq(Destination)
  <2>1. PagesAt(v) \in [DOMAIN pages -> Destination]
    BY <1>1, <1>2, JoinedPlaces DEF PagesAt, Destination
  <2>2. DOMAIN pages = 1..Len(pages) /\ Len(pages) \in Nat
    BY <1>1, Elements
  <2> QED
    BY <2>1, <2>2, GraphIsSequence
<1>6. MountsAt(v) \in Seq([routes : R, prefix : Paths])
  <2>1. MountsAt(v) \in [DOMAIN mounts -> [routes : R, prefix : Paths]]
    BY <1>1, <1>2, JoinedPlaces DEF MountsAt, VisitOf
  <2>2. DOMAIN mounts = 1..Len(mounts) /\ Len(mounts) \in Nat
    BY <1>1, Elements
  <2> QED
    BY <2>1, <2>2, GraphIsSequence
<1>7. \A i \in DOMAIN PagesAt(v) : PagesAt(v)[i].page.params = ParamNames(PagesAt(v)[i].pattern)
  <2>1. SUFFICES ASSUME NEW i \in DOMAIN pages
                 PROVE  pages[i].page.params = ParamNames(JoinPaths(a, pages[i].path))
    BY <1>3
  <2>2. pages[i].page.params = ParamNames(pages[i].path)
    BY DEF Exact, PageFits
  <2> QED
    BY <1>1, <1>2, <2>2, JoinedParams
<1>8. \A i \in DOMAIN MountsAt(v) : ParamAt(MountsAt(v)[i].prefix) = {}
  <2>1. SUFFICES ASSUME NEW i \in DOMAIN mounts
                 PROVE  ParamAt(JoinPaths(a, mounts[i].path)) = {}
    BY <1>4
  <2>2. ParamAt(mounts[i].path) = {}
    BY DEF Exact
  <2> QED
    BY <1>1, <1>2, <2>2, JoinedParams
<1>9. \A i \in DOMAIN mounts : Claims(MountsAt(v)[i]) = Below(a, MountPaths(mounts[i]))
  <2>1. TAKE i \in DOMAIN mounts
  <2>2. Range(mounts[i].routes.paths) \subseteq Paths
    BY <1>2, RoutesParts
  <2>3. Claims(MountsAt(v)[i]) = Below(JoinPaths(a, mounts[i].path), Range(mounts[i].routes.paths))
    BY <1>4 DEF Claims
  <2> QED
    BY <1>1, <1>2, <2>2, <2>3, BelowJoined DEF MountPaths
<1>10. Claims(v) = {PagesAt(v)[i].pattern : i \in DOMAIN PagesAt(v)}
                     \cup UNION {Claims(MountsAt(v)[i]) : i \in DOMAIN MountsAt(v)}
  <2>1. Range(v.routes.paths) =
          PagePaths(v.routes) \cup UNION {MountPaths(mounts[i]) : i \in DOMAIN mounts}
    BY DEF Exact
  <2>2. Claims(v) = Below(a, PagePaths(v.routes))
                      \cup UNION {Below(a, MountPaths(mounts[i])) : i \in DOMAIN mounts}
    BY <2>1 DEF Claims, Below
  <2>3. Below(a, PagePaths(v.routes)) = {PagesAt(v)[i].pattern : i \in DOMAIN PagesAt(v)}
    BY <1>3 DEF Below, PagePaths
  <2>4. {Below(a, MountPaths(mounts[i])) : i \in DOMAIN mounts} =
          {Claims(MountsAt(v)[i]) : i \in DOMAIN MountsAt(v)}
    BY <1>4, <1>9
  <2> QED
    BY <2>2, <2>3, <2>4
<1>11. ASSUME NEW i \in DOMAIN PagesAt(v), NEW j \in DOMAIN PagesAt(v), i # j
       PROVE  Shape(PagesAt(v)[i].pattern) # Shape(PagesAt(v)[j].pattern)
  <2>1. Shape(pages[i].path) # Shape(pages[j].path)
    BY <1>3, <1>11 DEF Exact
  <2>2. Shape(JoinPaths(a, pages[i].path)) # Shape(JoinPaths(a, pages[j].path))
    BY <1>1, <1>2, <1>3, <1>11, <2>1, JoinedShape
  <2> QED
    BY <1>3, <1>11, <2>2
<1>12. ASSUME NEW i \in DOMAIN PagesAt(v), NEW j \in DOMAIN MountsAt(v)
       PROVE  Apart({PagesAt(v)[i].pattern}, Claims(MountsAt(v)[j]))
  <2>1. Apart(PagePaths(v.routes), MountPaths(mounts[j]))
    BY <1>4, <1>12 DEF Exact
  <2>2. Apart(Below(a, PagePaths(v.routes)), Below(a, MountPaths(mounts[j])))
    BY <1>1, <1>2, <1>4, <1>12, <2>1, BelowApart
  <2>3. PagesAt(v)[i].pattern \in Below(a, PagePaths(v.routes))
    BY <1>3, <1>12 DEF Below, PagePaths
  <2> QED
    BY <1>4, <1>9, <1>12, <2>2, <2>3 DEF Apart
<1>13. ASSUME NEW i \in DOMAIN MountsAt(v), NEW j \in DOMAIN MountsAt(v), i # j
       PROVE  Apart(Claims(MountsAt(v)[i]), Claims(MountsAt(v)[j]))
  <2>1. Apart(MountPaths(mounts[i]), MountPaths(mounts[j]))
    BY <1>4, <1>13 DEF Exact
  <2> QED
    BY <1>1, <1>2, <1>4, <1>9, <1>13, <2>1, BelowApart
<1> QED
  BY <1>5, <1>6, <1>7, <1>8, <1>10, <1>11, <1>12, <1>13

-----------------------------------------------------------------------------
(* The steps.                                                              *)

LEMMA InitGraphInv == GraphInit => GraphInv
<1>1. SUFFICES ASSUME GraphInit PROVE GraphInv
  OBVIOUS
<1>2. Range(<<>>) = {}
  BY DEF Range
<1>3. NoRoutes \in RoutesOver({NoRoutes})
  BY DEF NoRoutes, RoutesOver
<1>4. GraphTypeOK
  BY <1>1, <1>3, CallsAssumption DEF GraphInit, GraphTypeOK
<1>5. Exact(NoRoutes)
  BY <1>2 DEF Exact, NoRoutes, PagePaths
<1> QED
  BY <1>1, <1>4, <1>5 DEF GraphInit, GraphInv

LEMMA ReturnsGraphInv ==
  ASSUME GraphInv, NEW results, Returns(results),
         \A routes \in results : routes \in RoutesOver(defined) /\ Exact(routes)
  PROVE  GraphInv'
<1>1. PICK routes \in results : defined' = defined \cup {routes}
  BY DEF Returns
<1>2. /\ startup = "building" /\ startup' = startup /\ calls' = calls + 1 /\ calls < MaxCalls
      /\ application' = application /\ visits' = visits /\ compiled' = compiled
      /\ visits = <<>> /\ compiled = <<>>
  BY DEF Returns, GraphInv
<1>3. defined' \subseteq RoutesOver(defined')
  <2>1. defined \subseteq RoutesOver(defined) /\ routes \in RoutesOver(defined)
    BY <1>1 DEF GraphInv, GraphTypeOK
  <2> QED
    BY <1>1, <2>1, RoutesGrow
<1>4. GraphTypeOK'
  <2>1. calls' \in 0..MaxCalls /\ application' \in defined'
    BY <1>1, <1>2, CallsAssumption DEF GraphInv, GraphTypeOK
  <2> QED
    BY <1>2, <1>3, <2>1 DEF GraphTypeOK
<1>5. \A r \in defined' : Exact(r)
  BY <1>1 DEF GraphInv
<1> QED
  BY <1>2, <1>4, <1>5 DEF GraphInv

LEMMA CallPageGraphInv ==
  ASSUME GraphInv, NEW routes \in defined, NEW path \in PathsTried, NEW page \in PagesTried,
         CallPage(routes, path, page)
  PROVE  GraphInv'
<1>1. defined \subseteq RoutesOver(defined) /\ Exact(routes)
  BY DEF GraphInv, GraphTypeOK
<1>2. path \in Paths
  BY PathsAssumption DEF Paths
<1>3. \A added \in AddPage(routes, path, page) : added \in RoutesOver(defined) /\ Exact(added)
  BY <1>1, <1>2, PageKeepsExact
<1> QED
  BY <1>3, ReturnsGraphInv DEF CallPage

LEMMA CallMountGraphInv ==
  ASSUME GraphInv, NEW routes \in defined, NEW prefix \in PathsTried, NEW child \in defined,
         CallMount(routes, prefix, child)
  PROVE  GraphInv'
<1>1. defined \subseteq RoutesOver(defined) /\ Exact(routes)
  BY DEF GraphInv, GraphTypeOK
<1>2. prefix \in Paths
  BY PathsAssumption DEF Paths
<1>3. \A mounted \in Mount(routes, prefix, child) : mounted \in RoutesOver(defined) /\ Exact(mounted)
  BY <1>1, <1>2, MountKeepsExact
<1> QED
  BY <1>3, ReturnsGraphInv DEF CallMount

LEMMA CompileGraphInv ==
  ASSUME GraphInv, NEW routes \in defined, Compile(routes)
  PROVE  GraphInv'
<1> DEFINE v == VisitOf(routes, <<>>)
<1>1. /\ startup' = "compiling" /\ application' = routes /\ visits' = <<v>>
      /\ calls' = calls /\ defined' = defined /\ compiled' = <<>>
  BY DEF Compile, GraphInv
<1>2. <<>> \in Paths /\ ParamAt(<<>>) = {} /\ v.routes = routes /\ v.prefix = <<>>
  BY DEF Paths, ParamAt, VisitOf
<1>3. v \in [routes : defined, prefix : Paths]
  BY <1>2 DEF VisitOf
<1> HIDE DEF v
<1>4. /\ visits' \in Seq([routes : defined, prefix : Paths]) /\ DOMAIN visits' = {1} /\ visits'[1] = v
  BY <1>1, <1>3
<1>5. GraphTypeOK'
  BY <1>1, <1>4 DEF GraphInv, GraphTypeOK
<1>6. Claims(v) = Range(routes.paths)
  <2>1. Range(routes.paths) \subseteq Paths
    BY RoutesParts DEF GraphInv, GraphTypeOK
  <2> QED
    BY <1>2, <2>1, NothingBefore DEF Claims
<1>7. VisitsInv' /\ CompiledInv' /\ Covered'
  BY <1>1, <1>2, <1>4, <1>6 DEF VisitsInv, CompiledInv, Covered
<1> QED
  BY <1>1, <1>5, <1>7 DEF GraphInv

LEMMA VisitRoutesGraphInv == ASSUME GraphInv, VisitRoutes PROVE GraphInv'
<1>1. /\ startup = "compiling" /\ visits # <<>> /\ VisitsInv /\ CompiledInv /\ Covered
      /\ visits \in Seq([routes : defined, prefix : Paths]) /\ compiled \in Seq(Destination)
      /\ defined \subseteq RoutesOver(defined)
      /\ calls' = calls /\ defined' = defined /\ application' = application
  BY DEF VisitRoutes, GraphInv, GraphTypeOK
<1>2. CASE startup' = "refused" /\ visits' = visits /\ compiled' = compiled
  BY <1>1, <1>2 DEF GraphInv, GraphTypeOK
<1>3. CASE /\ ~\E i \in DOMAIN PagesAt(Head(visits)) : MatchesReserved(PagesAt(Head(visits))[i].pattern)
           /\ compiled' = compiled \o PagesAt(Head(visits))
           /\ visits' = MountsAt(Head(visits)) \o Tail(visits)
           /\ startup' = startup
  <2> DEFINE v == Head(visits)
             pages == PagesAt(v)
             mounts == MountsAt(v)
             rest == Tail(visits)
  <2>1. /\ 1 \in DOMAIN visits /\ v = visits[1] /\ v \in [routes : defined, prefix : Paths]
        /\ rest \in Seq([routes : defined, prefix : Paths])
        /\ \A i \in 1..Len(rest) : i + 1 \in DOMAIN visits /\ i + 1 # 1 /\ rest[i] = visits[i + 1]
        /\ \A i \in DOMAIN visits \ {1} : i - 1 \in 1..Len(rest) /\ rest[i - 1] = visits[i]
    <3>1. DOMAIN visits = 1..Len(visits) /\ Len(visits) \in Nat \ {0}
      BY <1>1, Elements, EmptySeq
    <3>2. /\ v \in [routes : defined, prefix : Paths] /\ v = visits[1]
          /\ rest \in Seq([routes : defined, prefix : Paths]) /\ Len(rest) = Len(visits) - 1
          /\ \A i \in 1..Len(rest) : rest[i] = visits[i + 1]
      <4>1. Head(visits) = visits[1]
        BY <1>1, Elements
      <4> QED
        BY <1>1, <4>1, HeadTailProperties
    <3> HIDE DEF v, rest
    <3>3. \A i \in 1..Len(rest) : i + 1 \in DOMAIN visits /\ i + 1 # 1 /\ rest[i] = visits[i + 1]
      BY <3>1, <3>2
    <3>4. ASSUME NEW i \in DOMAIN visits, i # 1
          PROVE  i - 1 \in 1..Len(rest) /\ rest[i - 1] = visits[i]
      <4>1. i - 1 \in 1..Len(rest) /\ (i - 1) + 1 = i
        BY <3>1, <3>2, <3>4
      <4> QED
        BY <3>2, <4>1
    <3> QED
      BY <3>1, <3>2, <3>3, <3>4
  <2>2. Exact(v.routes) /\ ParamAt(v.prefix) = {}
    BY <1>1, <2>1 DEF GraphInv, VisitsInv
  <2>3. pages \in Seq(Destination) /\ mounts \in Seq([routes : defined, prefix : Paths])
    BY <1>1, <2>1, <2>2, VisitSplits
  <2>4. /\ \A i \in DOMAIN pages : pages[i].page.params = ParamNames(pages[i].pattern)
        /\ \A i \in DOMAIN mounts : ParamAt(mounts[i].prefix) = {}
        /\ Claims(v) = {pages[i].pattern : i \in DOMAIN pages}
                         \cup UNION {Claims(mounts[i]) : i \in DOMAIN mounts}
    BY <1>1, <2>1, <2>2, VisitSplits
  <2>5. /\ \A i, j \in DOMAIN pages : i # j => Shape(pages[i].pattern) # Shape(pages[j].pattern)
        /\ \A i \in DOMAIN pages, j \in DOMAIN mounts : Apart({pages[i].pattern}, Claims(mounts[j]))
        /\ \A i, j \in DOMAIN mounts : i # j => Apart(Claims(mounts[i]), Claims(mounts[j]))
    BY <1>1, <2>1, <2>2, VisitSplits
  <2>6. /\ visits' = mounts \o rest /\ compiled' = compiled \o pages /\ startup' = startup
        /\ \A i \in DOMAIN pages : ~MatchesReserved(pages[i].pattern)
    BY <1>3
  <2> HIDE DEF v, pages, mounts, rest
  <2>7. /\ visits' \in Seq([routes : defined, prefix : Paths]) /\ compiled' \in Seq(Destination)
        /\ DOMAIN compiled = 1..Len(compiled) /\ DOMAIN pages = 1..Len(pages)
        /\ DOMAIN mounts = 1..Len(mounts) /\ Len(compiled) \in Nat /\ Len(mounts) \in Nat
    BY <1>1, <2>1, <2>3, <2>6, ConcatFacts, Elements
  <2>8. GraphTypeOK'
    BY <1>1, <2>6, <2>7 DEF GraphInv, GraphTypeOK
  (* Where the visits and the destinations of the next state come from.    *)
  <2>9. ASSUME NEW k \in DOMAIN visits'
        PROVE  \/ k \in DOMAIN mounts /\ visits'[k] = mounts[k]
               \/ \E i \in DOMAIN visits \ {1} : k = Len(mounts) + (i - 1) /\ visits'[k] = visits[i]
    <3>1. CASE k \in 1..Len(mounts)
      BY <2>1, <2>3, <2>6, <2>7, <3>1, ConcatFacts
    <3>2. CASE \E i \in 1..Len(rest) : k = Len(mounts) + i
      <4>1. PICK i \in 1..Len(rest) : k = Len(mounts) + i
        BY <3>2
      <4>2. visits'[k] = rest[i]
        BY <2>1, <2>3, <2>6, <4>1, ConcatFacts
      <4>3. i + 1 \in DOMAIN visits \ {1} /\ rest[i] = visits[i + 1] /\ k = Len(mounts) + ((i + 1) - 1)
        BY <2>1, <2>7, <4>1
      <4> QED
        BY <4>2, <4>3
    <3> QED
      BY <2>1, <2>3, <2>6, <2>9, <3>1, <3>2, ConcatFacts
  <2>10. ASSUME NEW d \in DOMAIN compiled'
         PROVE  \/ d \in DOMAIN compiled /\ compiled'[d] = compiled[d]
                \/ \E i \in DOMAIN pages : d = Len(compiled) + i /\ compiled'[d] = pages[i]
    <3>1. CASE d \in 1..Len(compiled)
      BY <1>1, <2>3, <2>6, <2>7, <3>1, ConcatFacts
    <3>2. CASE \E i \in 1..Len(pages) : d = Len(compiled) + i
      <4>1. PICK i \in 1..Len(pages) : d = Len(compiled) + i
        BY <3>2
      <4>2. compiled'[d] = pages[i]
        BY <1>1, <2>3, <2>6, <4>1, ConcatFacts
      <4> QED
        BY <2>7, <4>1, <4>2
    <3> QED
      BY <1>1, <2>3, <2>6, <2>10, <3>1, <3>2, ConcatFacts
  <2>11. /\ \A i \in DOMAIN mounts : \E k \in DOMAIN visits' : visits'[k] = mounts[i]
         /\ \A i \in DOMAIN visits \ {1} : \E k \in DOMAIN visits' : visits'[k] = visits[i]
    <3>1. \A i \in DOMAIN mounts : i \in DOMAIN visits' /\ visits'[i] = mounts[i]
      BY <2>1, <2>3, <2>6, <2>7, ConcatFacts
    <3>2. \A i \in 1..Len(rest) : Len(mounts) + i \in DOMAIN visits' /\ visits'[Len(mounts) + i] = rest[i]
      BY <2>1, <2>3, <2>6, ConcatFacts
    <3> QED
      BY <2>1, <3>1, <3>2
  <2>12. /\ \A d \in DOMAIN compiled : \E e \in DOMAIN compiled' : compiled'[e] = compiled[d]
         /\ \A i \in DOMAIN pages : \E e \in DOMAIN compiled' : compiled'[e] = pages[i]
    <3>1. \A d \in DOMAIN compiled : d \in DOMAIN compiled' /\ compiled'[d] = compiled[d]
      BY <1>1, <2>3, <2>6, <2>7, ConcatFacts
    <3>2. \A i \in DOMAIN pages :
            Len(compiled) + i \in DOMAIN compiled' /\ compiled'[Len(compiled) + i] = pages[i]
      BY <1>1, <2>3, <2>6, <2>7, ConcatFacts
    <3> QED
      BY <3>1, <3>2
  <2>13. /\ \A i \in DOMAIN mounts : Claims(mounts[i]) \subseteq Claims(v)
         /\ \A i \in DOMAIN pages : pages[i].pattern \in Claims(v)
    BY <2>4
  <2>14. /\ \A i \in DOMAIN visits \ {1} : Apart(Claims(v), Claims(visits[i])) /\ Apart(Claims(visits[i]), Claims(v))
         /\ \A d \in DOMAIN compiled : Apart({compiled[d].pattern}, Claims(v))
    BY <1>1, <2>1 DEF VisitsInv
  <2>15. VisitsInv'
    <3>1. ASSUME NEW k \in DOMAIN visits' PROVE ParamAt(visits'[k].prefix) = {}
      BY <1>1, <2>4, <2>9, <3>1 DEF VisitsInv
    <3>2. ASSUME NEW k \in DOMAIN visits', NEW l \in DOMAIN visits', k # l
          PROVE  Apart(Claims(visits'[k]), Claims(visits'[l]))
      <4>1. CASE k \in DOMAIN mounts /\ visits'[k] = mounts[k] /\ l \in DOMAIN mounts /\ visits'[l] = mounts[l]
        BY <2>5, <3>2, <4>1
      <4>2. ASSUME k \in DOMAIN mounts, visits'[k] = mounts[k],
                   NEW i \in DOMAIN visits \ {1}, visits'[l] = visits[i]
            PROVE  Apart(Claims(visits'[k]), Claims(visits'[l]))
        BY <2>13, <2>14, <4>2 DEF Apart
      <4>3. ASSUME l \in DOMAIN mounts, visits'[l] = mounts[l],
                   NEW i \in DOMAIN visits \ {1}, visits'[k] = visits[i]
            PROVE  Apart(Claims(visits'[k]), Claims(visits'[l]))
        BY <2>13, <2>14, <4>3 DEF Apart
      <4>4. ASSUME NEW i \in DOMAIN visits \ {1}, k = Len(mounts) + (i - 1), visits'[k] = visits[i],
                   NEW j \in DOMAIN visits \ {1}, l = Len(mounts) + (j - 1), visits'[l] = visits[j]
            PROVE  Apart(Claims(visits'[k]), Claims(visits'[l]))
        <5>1. i # j
          BY <3>2, <4>4
        <5> QED
          BY <1>1, <4>4, <5>1 DEF VisitsInv
      <4> QED
        BY <2>9, <3>2, <4>1, <4>2, <4>3, <4>4
    <3>3. ASSUME NEW d \in DOMAIN compiled', NEW k \in DOMAIN visits'
          PROVE  Apart({compiled'[d].pattern}, Claims(visits'[k]))
      <4>1. ASSUME NEW e \in DOMAIN compiled, compiled'[d] = compiled[e]
            PROVE  Apart({compiled'[d].pattern}, Claims(visits'[k]))
        <5>1. ASSUME NEW i \in DOMAIN mounts, visits'[k] = mounts[i]
              PROVE  Apart({compiled'[d].pattern}, Claims(visits'[k]))
          BY <2>13, <2>14, <4>1, <5>1 DEF Apart
        <5>2. ASSUME NEW i \in DOMAIN visits, visits'[k] = visits[i]
              PROVE  Apart({compiled'[d].pattern}, Claims(visits'[k]))
          BY <1>1, <4>1, <5>2 DEF VisitsInv
        <5> QED
          BY <2>9, <3>3, <5>1, <5>2
      <4>2. ASSUME NEW e \in DOMAIN pages, compiled'[d] = pages[e]
            PROVE  Apart({compiled'[d].pattern}, Claims(visits'[k]))
        <5>1. ASSUME NEW i \in DOMAIN mounts, visits'[k] = mounts[i]
              PROVE  Apart({compiled'[d].pattern}, Claims(visits'[k]))
          BY <2>5, <4>2, <5>1
        <5>2. ASSUME NEW i \in DOMAIN visits \ {1}, visits'[k] = visits[i]
              PROVE  Apart({compiled'[d].pattern}, Claims(visits'[k]))
          BY <2>13, <2>14, <4>2, <5>2 DEF Apart
        <5> QED
          BY <2>9, <3>3, <5>1, <5>2
      <4> QED
        BY <2>10, <3>3, <4>1, <4>2
    <3> QED
      BY <3>1, <3>2, <3>3 DEF VisitsInv
  <2>16. CompiledInv'
    <3>1. ASSUME NEW d \in DOMAIN compiled'
          PROVE  /\ compiled'[d].page.params = ParamNames(compiled'[d].pattern)
                 /\ ~MatchesReserved(compiled'[d].pattern)
      <4>1. CASE d \in DOMAIN compiled /\ compiled'[d] = compiled[d]
        BY <1>1, <4>1 DEF CompiledInv
      <4>2. CASE \E i \in DOMAIN pages : compiled'[d] = pages[i]
        BY <2>4, <2>6, <4>2
      <4> QED
        BY <2>10, <3>1, <4>1, <4>2
    <3>2. ASSUME NEW d \in DOMAIN compiled', NEW e \in DOMAIN compiled', d # e
          PROVE  Shape(compiled'[d].pattern) # Shape(compiled'[e].pattern)
      <4>1. CASE /\ d \in DOMAIN compiled /\ compiled'[d] = compiled[d]
                 /\ e \in DOMAIN compiled /\ compiled'[e] = compiled[e]
        BY <1>1, <3>2, <4>1 DEF CompiledInv
      <4>2. ASSUME NEW c \in DOMAIN compiled, NEW i \in DOMAIN pages
            PROVE  Shape(compiled[c].pattern) # Shape(pages[i].pattern)
        BY <2>13, <2>14, <4>2 DEF Apart
      <4>3. CASE /\ d \in DOMAIN compiled /\ compiled'[d] = compiled[d]
                 /\ \E i \in DOMAIN pages : compiled'[e] = pages[i]
        BY <4>2, <4>3
      <4>4. CASE /\ e \in DOMAIN compiled /\ compiled'[e] = compiled[e]
                 /\ \E i \in DOMAIN pages : compiled'[d] = pages[i]
        BY <4>2, <4>4
      <4>5. CASE /\ \E i \in DOMAIN pages : d = Len(compiled) + i /\ compiled'[d] = pages[i]
                 /\ \E j \in DOMAIN pages : e = Len(compiled) + j /\ compiled'[e] = pages[j]
        BY <2>5, <3>2, <4>5
      <4> QED
        BY <2>10, <3>2, <4>1, <4>3, <4>4, <4>5
    <3> QED
      BY <3>1, <3>2 DEF CompiledInv
  <2>17. Covered'
    <3> DEFINE now == {compiled[d].pattern : d \in DOMAIN compiled}
                        \cup UNION {Claims(visits[i]) : i \in DOMAIN visits}
               then == {compiled'[d].pattern : d \in DOMAIN compiled'}
                        \cup UNION {Claims(visits'[k]) : k \in DOMAIN visits'}
    <3>1. ASSUME NEW p \in now PROVE p \in then
      <4>1. CASE p \in {compiled[d].pattern : d \in DOMAIN compiled}
        BY <2>12, <4>1
      <4>2. CASE p \in Claims(v)
        BY <2>4, <2>11, <2>12, <4>2
      <4>3. CASE \E i \in DOMAIN visits \ {1} : p \in Claims(visits[i])
        BY <2>11, <4>3
      <4> QED
        BY <2>1, <3>1, <4>1, <4>2, <4>3
    <3>2. ASSUME NEW p \in then PROVE p \in now
      <4>1. CASE p \in {compiled'[d].pattern : d \in DOMAIN compiled'}
        BY <2>1, <2>10, <2>13, <4>1
      <4>2. CASE p \in UNION {Claims(visits'[k]) : k \in DOMAIN visits'}
        BY <2>1, <2>9, <2>13, <4>2
      <4> QED
        BY <3>2, <4>1, <4>2
    <3>3. Range(application.paths) = now
      BY <1>1 DEF Covered
    <3>4. now = then
      BY <3>1, <3>2
    <3> QED
      BY <1>1, <3>3, <3>4 DEF Covered
  <2> QED
    BY <1>1, <2>6, <2>8, <2>15, <2>16, <2>17 DEF GraphInv
<1> QED
  BY <1>2, <1>3 DEF VisitRoutes

LEMMA FinishCompilingGraphInv == ASSUME GraphInv, FinishCompiling PROVE GraphInv'
<1>1. /\ startup = "compiling" /\ visits = <<>> /\ startup' \in {"compiled", "refused"}
      /\ calls' = calls /\ defined' = defined /\ application' = application
      /\ visits' = visits /\ compiled' = compiled
  BY DEF FinishCompiling
<1>2. GraphTypeOK'
  BY <1>1 DEF GraphInv, GraphTypeOK
<1>3. VisitsInv' /\ CompiledInv' /\ Covered'
  BY <1>1 DEF GraphInv, VisitsInv, CompiledInv, Covered
<1> QED
  BY <1>1, <1>2, <1>3 DEF GraphInv

LEMMA GraphNextInv == GraphInv /\ [GraphNext]_graphVars => GraphInv'
<1>1. SUFFICES ASSUME GraphInv, [GraphNext]_graphVars PROVE GraphInv'
  OBVIOUS
<1>2. CASE UNCHANGED graphVars
  BY <1>1, <1>2 DEF graphVars, GraphInv, GraphTypeOK, VisitsInv, CompiledInv, Covered
<1>3. ASSUME NEW routes \in defined, NEW path \in PathsTried,
             NEW page \in PagesTried, CallPage(routes, path, page)
      PROVE  GraphInv'
  BY <1>1, <1>3, CallPageGraphInv
<1>4. ASSUME NEW routes \in defined, NEW path \in PathsTried,
             NEW child \in defined, CallMount(routes, path, child)
      PROVE  GraphInv'
  BY <1>1, <1>4, CallMountGraphInv
<1>5. ASSUME NEW routes \in defined, Compile(routes) PROVE GraphInv'
  BY <1>1, <1>5, CompileGraphInv
<1> QED
  BY <1>1, <1>2, <1>3, <1>4, <1>5, VisitRoutesGraphInv, FinishCompilingGraphInv DEF GraphNext

LEMMA GraphInvariant == GraphSpec => []GraphInv
BY InitGraphInv, GraphNextInv, PTL DEF GraphSpec

(* The calls of page and mount return Routes over the Routes that were     *)
(* made before them, and compileRouteGraph stays among these.              *)
THEOREM GraphTypeCorrect == GraphSpec => []GraphTypeOK
<1>1. GraphInv => GraphTypeOK
  BY DEF GraphInv
<1> QED
  BY <1>1, GraphInvariant, PTL

LEMMA ServesPages == GraphInv => PagesServed
<1>1. SUFFICES ASSUME GraphInv, startup = "compiled"
               PROVE  /\ {d.pattern : d \in Range(compiled)} = Range(application.paths)
                      /\ \A d \in DOMAIN compiled :
                           /\ compiled[d].page.params = ParamNames(compiled[d].pattern)
                           /\ Serves(compiled, d, Spelled(compiled[d].pattern))
                           /\ ~MatchesReserved(Spelled(compiled[d].pattern))
  BY DEF PagesServed
<1>2. compiled \in Seq(Destination) /\ visits = <<>> /\ CompiledInv /\ Covered
  BY <1>1 DEF GraphInv, GraphTypeOK
<1>3. {d.pattern : d \in Range(compiled)} = Range(application.paths)
  <2>1. Range(application.paths) = {compiled[d].pattern : d \in DOMAIN compiled}
    BY <1>2 DEF Covered
  <2>2. {d.pattern : d \in Range(compiled)} = {compiled[d].pattern : d \in DOMAIN compiled}
    BY DEF Range
  <2> QED
    BY <2>1, <2>2
<1>4. ASSUME NEW d \in DOMAIN compiled
      PROVE  /\ compiled[d].page.params = ParamNames(compiled[d].pattern)
             /\ Serves(compiled, d, Spelled(compiled[d].pattern))
             /\ ~MatchesReserved(Spelled(compiled[d].pattern))
  <2>1. /\ compiled[d].page.params = ParamNames(compiled[d].pattern)
        /\ ~MatchesReserved(compiled[d].pattern)
        /\ \A e \in DOMAIN compiled :
             e # d => Shape(compiled[e].pattern) # Shape(compiled[d].pattern)
    BY <1>2, <1>4 DEF CompiledInv
  <2>2. compiled[d].pattern \in Paths
    <3>1. compiled[d] \in Destination
      BY <1>2, <1>4, Elements
    <3> QED
      BY <3>1 DEF Destination
  <2> QED
    BY <1>2, <1>4, <2>1, <2>2, SpelledServed, SpelledUnreserved
<1> QED
  BY <1>3, <1>4

(* Whatever Routes the modules of an application build, each destination   *)
(* that compileRouteGraph gives the HTTP router serves a request of its    *)
(* own.                                                                    *)
THEOREM PagesAreServed == GraphSpec => []PagesServed
BY ServesPages, GraphInvariant, PTL

-----------------------------------------------------------------------------
(* Both in one server.  Requests leave the Routes alone, and the Routes    *)
(* are there before the first of them.                                     *)

ServerInv ==
  /\ IInv
  /\ startup # "serving" => GraphInv

LEMMA ListenInv == ASSUME ServerInv, Listen PROVE ServerInv'
BY StutterIInv DEF Listen, ServerInv

LEMMA ServerInvariant == ServerSpec => []ServerInv
<1>1. ServerInit => ServerInv
  BY InitIInv, InitGraphInv DEF ServerInit, ServerInv
<1>2. ServerInv /\ [ServerNext]_<<vars, graphVars>> => ServerInv'
  <2>1. SUFFICES ASSUME ServerInv, [ServerNext]_<<vars, graphVars>> PROVE ServerInv'
    OBVIOUS
  <2>2. CASE GraphNext /\ UNCHANGED vars
    <3>1. startup # "serving"
      BY <2>2 DEF GraphNext, CallPage, CallMount, Returns, Compile, VisitRoutes, FinishCompiling
    <3> QED
      BY <2>1, <2>2, <3>1, StutterIInv, GraphNextInv DEF ServerInv
  <2>3. CASE startup = "serving" /\ Next /\ UNCHANGED graphVars
    BY <2>1, <2>3, NextIInv DEF ServerInv, graphVars
  <2>4. CASE UNCHANGED <<vars, graphVars>>
    BY <2>1, <2>4, StutterIInv, GraphNextInv DEF ServerInv, graphVars
  <2> QED
    BY <2>1, <2>2, <2>3, <2>4, ListenInv DEF ServerNext
<1> QED
  BY <1>1, <1>2, PTL DEF ServerSpec

(* In the server, too, no destination is shadowed when it starts to        *)
(* listen, and its requests keep the guarantees they have on their own.    *)
THEOREM ServerKeepsPromises ==
  ServerSpec => [](PagesServed /\ WorkInsideResources /\ ScopesCompose /\ RuntimeMatchesScopes)
<1>1. ServerInv => PagesServed
  BY ServesPages DEF ServerInv, PagesServed
<1>2. ServerInv => WorkInsideResources /\ ScopesCompose /\ RuntimeMatchesScopes
  BY InvariantHoldsWork DEF ServerInv, IInv
<1> QED
  BY <1>1, <1>2, ServerInvariant, PTL
=============================================================================
