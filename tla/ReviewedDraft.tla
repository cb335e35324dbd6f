----------------------------- MODULE ReviewedDraft -----------------------------
(***************************************************************************)
(* What a drafting workspace promises: the payload it submits is the       *)
(* picture the player reviewed.  Reviewing (Enter) takes what is shown, as *)
(* it is shown; any change of the picture afterwards takes the review back.*)
(* MovementWorkspace and PlacementWorkspace implement this.                *)
(***************************************************************************)
CONSTANTS
    Pictures,   \* what can be drawn
    Unreviewed  \* no payload is ready

VARIABLES
    shown,      \* the drawn models, the preview under the cursor included
    reviewed    \* the picture of the ready payload, or Unreviewed

vars == <<shown, reviewed>>

Init ==
    /\ shown \in Pictures
    /\ reviewed = Unreviewed

Edit ==
    /\ shown' \in Pictures
    /\ reviewed' = Unreviewed

Review ==
    /\ reviewed' = shown
    /\ UNCHANGED shown

Next == Edit \/ Review

Spec == Init /\ [][Next]_vars

(* Whatever is ready to be submitted is on the screen. *)
ReviewedIsShown == reviewed # Unreviewed => reviewed = shown
=============================================================================
