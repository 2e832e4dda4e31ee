------------------------- MODULE RendererCancellation -------------------------
(***************************************************************************)
(* BrowserRenderer with a history variable: for each tree whose owner      *)
(* cancelled it before it was on screen, the order of the publication that *)
(* carries the cancellation.                                               *)
(***************************************************************************)
EXTENDS BrowserRenderer

VARIABLE cancelledBy

historyVars == <<vars, cancelledBy>>

HInit == Init /\ cancelledBy = [t \in {} |-> t]

HSchedule == Schedule /\ UNCHANGED cancelledBy

HDiscard ==
  \E tree \in Orders :
    /\ Discard(tree)
    /\ cancelledBy' = Insert(cancelledBy, tree, publicationOrder')

HReactCommits == ReactCommits /\ UNCHANGED cancelledBy

HNext == HSchedule \/ HDiscard \/ HReactCommits

HSpec == HInit /\ [][HNext]_historyVars

(* The documentation of discard: it cancels a tree before commit, and late *)
(* cancellation cannot restore stale UI.  Once React has displayed the     *)
(* publication that carries a cancellation, or a newer one, the cancelled  *)
(* tree is not on screen.                                                  *)
CancelledTreeStaysAway ==
  \A tree \in DOMAIN cancelledBy :
    shown.order >= cancelledBy[tree] => shown.shows # tree
=============================================================================
