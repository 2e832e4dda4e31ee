---------------------------- MODULE TreeRetirement ----------------------------
(***************************************************************************)
(* What the renderer promises the owners of route trees, with no word of   *)
(* how it keeps its books: a tree is retired in the very step after which  *)
(* the screen neither displays it nor can come to display it.              *)
(***************************************************************************)
EXTENDS Naturals

CONSTANT MaxPublications

VARIABLES
  screen,   (* the publication on screen                     *)
  pending,  (* the publications that may still be displayed  *)
  newest,   (* order of the newest publication               *)
  retired   (* trees whose owner may close their stream      *)

vars == <<screen, pending, newest, retired>>

InitialTree == 0

(* Trees that are on screen or may come back to it.                        *)
Displayable(onScreen, waiting) ==
  ({onScreen.shows} \cup {p.shows : p \in waiting}) \ {InitialTree}

Init ==
  /\ screen = [order |-> 0, shows |-> InitialTree]
  /\ pending = {}
  /\ newest = 0
  /\ retired = {}

(* A new tree, or the one on screen again, waits to be displayed.          *)
Submit ==
  /\ newest < MaxPublications
  /\ newest' = newest + 1
  /\ \E tree \in {newest + 1, screen.shows} :
       pending' = pending \cup {[order |-> newest + 1, shows |-> tree]}
  /\ UNCHANGED <<screen, retired>>

(* The screen moves forward and what it passes over is gone for good.      *)
Display ==
  \E p \in pending :
    LET later == {q \in pending : q.order > p.order} IN
    /\ screen' = p
    /\ pending' = later
    /\ retired' = retired \cup (Displayable(screen, pending) \ Displayable(p, later))
    /\ UNCHANGED newest

Next == Submit \/ Display

Spec == Init /\ [][Next]_vars

(* A retired tree is never displayed again.                                *)
RetiredForGood == retired \cap Displayable(screen, pending) = {}
=============================================================================
