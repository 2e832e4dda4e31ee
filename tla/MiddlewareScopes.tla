-------------------------- MODULE MiddlewareScopes --------------------------
(***************************************************************************)
(* Middleware chains: how the views of ERSC and nested Routes build them.  *)
(* A chain lists middleware from the outermost one inwards.                *)
(***************************************************************************)
EXTENDS Naturals, Sequences, Functions

CONSTANTS
  Middleware,
  Views,           (* the chains of the ERSC views of the application      *)
  MadeIn           (* the view whose services each middleware requires     *)

Members(chain) == Range(chain)

(* Whatever the middleware of the chain require runs outside of them.      *)
ServicesProvided(chain) ==
  \A i \in DOMAIN chain : \A m \in Members(MadeIn[chain[i]]) :
    \E j \in 1..(i - 1) : chain[j] = m

(* make begins without middleware.  withMiddleware refuses duplicates, and *)
(* its type refuses what requires more than the view provides.             *)
ASSUME ViewsAssumption ==
  /\ Views \subseteq Seq(Middleware)
  /\ <<>> \in Views
  /\ MadeIn \in [Middleware -> Views]
  /\ \A v \in Views : IsInjective(v) /\ ServicesProvided(v)

SharesLink(inherited, declared, i) ==
  i \in DOMAIN inherited /\ i \in DOMAIN declared /\ inherited[i] = declared[i]

(* Where the loop over the links that both chains begin with ends.         *)
IsSharedCount(inherited, declared, n) ==
  /\ \A i \in 1..n : SharesLink(inherited, declared, i)
  /\ ~SharesLink(inherited, declared, n + 1)

(* A chain that does not extend the inherited one adds its rest to it.     *)
JoinedChain(inherited, declared, sharedCount) ==
  IF sharedCount = Len(inherited) THEN declared
  ELSE inherited \o SubSeq(declared, sharedCount + 1, Len(declared))
=============================================================================
