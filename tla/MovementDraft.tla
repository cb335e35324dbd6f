---------------------------- MODULE MovementDraft ----------------------------
(***************************************************************************)
(* MovementDraft (state/movement_draft.py): the local drafting of one      *)
(* movement proposal.  A path is the number of waypoints committed to a    *)
(* model beyond its start; a rules unit stands for its components.         *)
(***************************************************************************)
EXTENDS Protocol

CONSTANT MaxWay     \* bound: waypoints per model

ASSUME MaxWayAssumption == MaxWay \in Nat \ {0}

MovementDrafts ==
    [req : Nat \ {0},               \* proposal_request_id
     unit : Unit,                   \* selected_unit_id
     rev : Nat,                     \* projection_state_hash it was started from
     noMove : BOOLEAN,              \* the profile allows a no-witness no-move
     way : [Model -> 0 .. MaxWay],
     active : SUBSET Model,         \* selected_model_ids
     preview : BOOLEAN,             \* cursor_preview_point is set
     payload : [Model -> 0 .. MaxWay] \cup {None}]      \* ready_payload

ASSUME NoMovementDraftAssumption == None \notin MovementDrafts /\ None \notin [Model -> 0 .. MaxWay]

DraftsMovement(d) == d # None /\ RoutedTo(d, "movement") /\ d.form.proposal = "movement"

(* Starting raises MovementDraftError (the action is "unavailable") *)
MovementStartRaises(d) == DraftsMovement(d) /\ ~d.form.sound

(* A draft starts only on the proposal's own unit; a Scout move also on no  *)
(* selection at all.  The selected model, or else the unit, is active.      *)
StartMovement(d, rev, selUnit, selModel) ==
    IF /\ DraftsMovement(d)
       /\ d.form.unit # None
       /\ \/ selUnit = d.form.unit
          \/ d.form.scout /\ selUnit = None
    THEN [req |-> d.id, unit |-> d.form.unit, rev |-> rev, noMove |-> d.form.noMove,
          way |-> [m \in Model |-> 0],
          active |-> IF selModel \in Model THEN {selModel} ELSE Model,
          preview |-> FALSE, payload |-> None]
    ELSE None

(* mutant: a draft outlives the projection it was made on *)
MatchesMovementRequest(draft, d, rev) ==
    d # None /\ d.form.proposal = "movement" /\ d.form.unit = draft.unit /\ d.id = draft.req

MatchesMovement(draft, d, rev) ==
    /\ d # None
    /\ d.form.proposal = "movement"
    /\ d.form.unit = draft.unit
    /\ d.id = draft.req
    /\ rev = draft.rev

IsForMovement(draft, selUnit, d, rev) ==
    selUnit = draft.unit /\ MatchesMovement(draft, d, rev)

HasPaths(draft) == \E m \in Model : draft.way[m] > 0

(* A path counts when its end is away from its start, which the number of   *)
(* its waypoints does not tell: moves says whether one is.                  *)
HasAssignments(draft, moves) == moves /\ HasPaths(draft)

(* Every selection operation, focus and layer cycling included, drops the   *)
(* preview and the ready payload.                                           *)
WithSelection(draft, models) ==
    [draft EXCEPT !.active = models, !.preview = FALSE, !.payload = None]

MovementReady(draft) == draft.payload # None

WithPreview(draft) == IF MovementReady(draft) THEN draft ELSE [draft EXCEPT !.preview = TRUE]

(* mutant: the reviewed payload survives the edit *)
WithWaypointAfterReview(draft) ==
    [draft EXCEPT !.way = [m \in Model |-> IF m \in draft.active
                                           THEN draft.way[m] + 1 ELSE draft.way[m]],
                  !.preview = FALSE]

WithWaypoint(draft) ==
    [draft EXCEPT !.way = [m \in Model |-> IF m \in draft.active
                                           THEN draft.way[m] + 1 ELSE draft.way[m]],
                  !.preview = FALSE, !.payload = None]

(* mutant: the start of a path is removed too *)
WithoutAnyWaypoint(draft) ==
    [draft EXCEPT !.way = [m \in Model |-> IF m \in draft.active
                                           THEN draft.way[m] - 1 ELSE draft.way[m]],
                  !.preview = FALSE, !.payload = None]

WithoutLastWaypoint(draft) ==
    [draft EXCEPT !.way = [m \in Model |-> IF m \in draft.active /\ draft.way[m] > 0
                                           THEN draft.way[m] - 1 ELSE draft.way[m]],
                  !.preview = FALSE, !.payload = None]

(* The previewed endpoint is committed first *)
MovementMarkedReady(draft, moves) ==
    LET committed == IF draft.preview THEN WithWaypoint(draft) ELSE draft
    IN  [committed EXCEPT !.payload = IF HasAssignments(committed, moves) \/ draft.noMove
                                         THEN committed.way ELSE None]

(* mutant: the rejected payload stays ready *)
MovementPreviewCleared(draft) == [draft EXCEPT !.preview = FALSE]

MovementReadyCleared(draft) == [draft EXCEPT !.preview = FALSE, !.payload = None]

(* Room for one more waypoint under the bound *)
HasRoom(draft) == \A m \in draft.active : draft.way[m] < MaxWay
=============================================================================
