---------------------------- MODULE PlacementDraft ----------------------------
(***************************************************************************)
(* PlacementDraft (state/placement_draft.py): placing the required models  *)
(* of one request, one after the other.                                    *)
(***************************************************************************)
EXTENDS Protocol

CONSTANT MaxSpot    \* bound: points of the table that are told apart

ASSUME MaxSpotAssumption == MaxSpot \in Nat \ {0}

(* Where a model is put; 0: nowhere yet *)
Spot == 0 .. MaxSpot

PlacementDrafts ==
    [req : Nat \ {0},           \* proposal_request_id
     unit : Unit,               \* selected_unit_id
     rev : Nat,                 \* projection_state_hash it was started from
     pose : [Model -> Spot],    \* model_poses
     cur : Model,               \* selected_model_id
     payload : [Model -> Spot] \cup {None}]     \* ready_payload

ASSUME NoPlacementDraftAssumption == None \notin PlacementDrafts /\ None \notin [Model -> Spot]

DraftsPlacement(d) == d # None /\ RoutedTo(d, "placement") /\ d.form.proposal = "placement"

PlacementStartRaises(d) == DraftsPlacement(d) /\ ~d.form.sound

StartPlacement(d, rev) ==
    IF DraftsPlacement(d) /\ d.form.unit # None
    THEN [req |-> d.id, unit |-> d.form.unit, rev |-> rev, pose |-> [m \in Model |-> 0],
          cur |-> 1, payload |-> None]
    ELSE None

MatchesPlacement(draft, d, rev) ==
    /\ d # None
    /\ d.form.proposal = "placement"
    /\ d.id = draft.req
    /\ d.form.unit = draft.unit
    /\ rev = draft.rev

FirstOf(models) == CHOOSE m \in models : \A n \in models : m <= n

(* mutant: the reviewed payload survives the edit *)
WithModelPlacedAfterReview(draft, spot) ==
    [draft EXCEPT !.pose = [draft.pose EXCEPT ![draft.cur] = spot]]

(* Placing moves on to the first model still unplaced *)
WithModelPlaced(draft, spot) ==
    LET pose     == [draft.pose EXCEPT ![draft.cur] = spot]
        unplaced == {m \in Model : pose[m] = 0}
    IN  [draft EXCEPT !.pose = pose,
                      !.cur = IF unplaced = {} THEN draft.cur ELSE FirstOf(unplaced),
                      !.payload = None]

WithNextModel(draft) == [draft EXCEPT !.cur = (draft.cur % NModels) + 1, !.payload = None]

AllPlaced(draft) == \A m \in Model : draft.pose[m] # 0

PlacementReady(draft) == draft.payload # None

PlacementMarkedReady(draft) ==
    [draft EXCEPT !.payload = IF AllPlaced(draft) THEN draft.pose ELSE None]
=============================================================================
