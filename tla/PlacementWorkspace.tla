-------------------------- MODULE PlacementWorkspace --------------------------
(***************************************************************************)
(* One placement draft in detail (state/placement_draft.py): what of the   *)
(* request and of the two public views (the unit display and the physical  *)
(* models) a draft may be started from, the poses, and the payload in the  *)
(* shape its decision type wants.  PlacementDraft keeps only the poses.    *)
(***************************************************************************)
EXTENDS Lists, Sequences, FiniteSetsExt

CONSTANTS
    Nothing,    \* Python's None
    Models,     \* model instance ids
    Units,      \* unit ids: rules units and their components
    Players,
    Armies,
    Spots,      \* the points that are told apart
    Requests,   \* the requests that may be pending
    Views       \* the projections they may be pending on

Kinds == {"placement", "deployment", "redeploy", "return", "materialization"}

RequestShape ==
    [kind : Kinds, unit : Units, player : Players,
     models : Seq(Models),              \* required, or of the context
     components : Seq(Units),
     created : SUBSET Models,           \* materialized_models
     army : Armies \cup {Nothing}]

(* A physical model: its unit, its owner and whether it is destroyed *)
PhysicalModel == [unit : Units, owner : Players, destroyed : BOOLEAN]

ViewShape ==
    [physical : [Models -> PhysicalModel \cup {Nothing}] \cup {Nothing},
     shown    : [Units -> Seq(Models)],                     \* on the table
     display  : [owner : Players, models : Seq(Models)] \cup {Nothing},  \* of the unit
     placed   : Seq(Armies),                                \* of the player
     mustered : Seq(Armies) \cup {Nothing}]                 \* of the player

ASSUME RequestsAssumption == Requests \subseteq RequestShape
ASSUME ViewsAssumption == Views \subseteq ViewShape
ASSUME NothingAssumption == Nothing \notin Spots /\ Nothing \notin Armies

VARIABLES
    request,    \* the pending placement proposal
    view,       \* what the draft was started from
    spot,       \* model_poses: the position of each model, or Nothing
    current,    \* selected_model_id
    preview,    \* cursor_preview_point
    ready       \* ready_payload

vars == <<request, view, spot, current, preview, ready>>

-----------------------------------------------------------------------------

Grouped(q) == q.components # << >> /\ q.unit \notin ToSet(q.components)

OfUnit(v, u) == {m \in Models : v.physical[m] # Nothing /\ v.physical[m].unit = u}

WholeReturn(q) == q.kind = "return" /\ q.models = << >>

(* The owner's display of the unit, for which a list of models is public *)
Displayed(q, v) ==
    /\ v.display # Nothing /\ v.physical # Nothing
    /\ v.display.owner = q.player
    /\ v.display.models # << >> /\ IsInjective(v.display.models)

(* _whole_unit_return_model_ids: both views know the same destroyed models *)
WholeUnitAgrees(q, v) ==
    /\ Displayed(q, v)
    /\ \A m \in OfUnit(v, q.unit) :
        v.physical[m].owner = q.player /\ v.physical[m].destroyed
    /\ ToSet(v.display.models) = OfUnit(v, q.unit)

(* _validate_materialization_source_ownership *)
SourceAgrees(q, v) ==
    /\ Displayed(q, v)
    /\ \A m \in ToSet(v.display.models) :
        m \in OfUnit(v, q.unit) /\ v.physical[m].owner = q.player
    /\ OfUnit(v, q.unit) \subseteq ToSet(v.display.models) \cup ToSet(q.models)

(* start_for_pending: the models to be placed *)
ModelIds(q, v) ==
    IF WholeReturn(q) THEN v.display.models
    ELSE IF q.models # << >> THEN q.models
    ELSE v.shown[q.unit]

(* _public_army_id_for_player *)
ArmyRowsAgree(v) ==
    /\ Len(v.placed) <= 1
    /\ v.mustered # Nothing => Len(v.mustered) = 1
    /\ v.placed # << >> /\ v.mustered # Nothing => v.placed = v.mustered

PublicArmy(v) ==
    IF v.placed # << >> THEN v.placed[1]
    ELSE IF v.mustered # Nothing THEN v.mustered[1]
    ELSE Nothing

(* A new model comes with its army, any other one is of the public army *)
ArmyOf(q, v) == IF q.kind = "materialization" THEN q.army ELSE PublicArmy(v)

ArmyAgrees(q, v) ==
    /\ ArmyRowsAgree(v)
    /\ ArmyOf(q, v) # Nothing
    /\ PublicArmy(v) # Nothing /\ q.army # Nothing => q.army = PublicArmy(v)

AllowedUnits(q) == IF Grouped(q) THEN ToSet(q.components) ELSE {q.unit}

(* mutant: a model of any unit of the player may be placed *)
PoseAgreesOnOwner(q, v, m) ==
    IF m \in q.created THEN m \notin ToSet(v.shown[q.unit])
    ELSE v.physical # Nothing => v.physical[m] # Nothing /\ v.physical[m].owner = q.player

(* _placement_pose_from_projection: a created model is nowhere yet, any     *)
(* other one is, if models are public, of the player and an allowed unit.   *)
PoseAgrees(q, v, m) ==
    IF m \in q.created
    THEN m \notin ToSet(v.shown[q.unit]) /\ (v.physical # Nothing => v.physical[m] = Nothing)
    ELSE v.physical # Nothing =>
            /\ v.physical[m] # Nothing
            /\ v.physical[m].unit \in AllowedUnits(q)
            /\ v.physical[m].owner = q.player

UnitOf(q, v, m) ==
    IF m \in q.created \/ v.physical = Nothing THEN q.unit ELSE v.physical[m].unit

(* PlacementDraft.__post_init__: one pose per model, every component covered *)
DraftAgrees(q, v) ==
    LET ids == ModelIds(q, v)
    IN  /\ IsInjective(ids) /\ IsInjective(q.components)
        /\ Grouped(q) =>
            /\ q.kind \in {"placement", "deployment", "redeploy"}
            /\ v.physical # Nothing
            /\ {UnitOf(q, v, m) : m \in ToSet(ids)} = ToSet(q.components)

(* start_for_pending yields a draft: it neither raises nor returns None *)
Startable(q, v) ==
    /\ WholeReturn(q) => WholeUnitAgrees(q, v)
    /\ q.kind = "materialization" => SourceAgrees(q, v)
    /\ ModelIds(q, v) # << >>
    /\ ArmyAgrees(q, v)
    /\ \A m \in ToSet(ModelIds(q, v)) : PoseAgrees(q, v, m)
    /\ DraftAgrees(q, v)

-----------------------------------------------------------------------------

Ids == ModelIds(request, view)

(* _model_placement_payload *)
ModelRow(m) ==
    [model |-> m, unit |-> UnitOf(request, view, m), player |-> request.player,
     army |-> ArmyOf(request, view), spot |-> spot[m]]

RowOf(unit, ids) == [unit |-> unit, models |-> [i \in DOMAIN ids |-> ModelRow(ids[i])]]

(* to_payload: only a generic proposal groups the models by component *)
ToPayload ==
    IF request.kind = "placement" /\ Grouped(request)
    THEN [c \in DOMAIN request.components |->
            LET unit == request.components[c]
            IN  RowOf(unit, Filtered(Ids, {m \in ToSet(Ids) : UnitOf(request, view, m) = unit}))]
    ELSE <<RowOf(request.unit, Ids)>>

TypeOK ==
    /\ request \in Requests /\ view \in Views
    /\ spot \in [Models -> Spots \cup {Nothing}]
    /\ current \in ToSet(Ids)
    /\ preview \in Spots \cup {Nothing}
    /\ \A m \in Models : spot[m] # Nothing => m \in ToSet(Ids)

Init ==
    /\ \E q \in Requests, v \in Views :
        /\ Startable(q, v)
        /\ request = q /\ view = v
        /\ current = ModelIds(q, v)[1]
    /\ spot = [m \in Models |-> Nothing]
    /\ preview = Nothing
    /\ ready = Nothing

Unplaced(spots) == Filtered(Ids, {m \in ToSet(Ids) : spots[m] = Nothing})

(* _next_unplaced_model_id *)
NextUnplaced(spots) ==
    IF Unplaced(spots) = << >> THEN current ELSE Unplaced(spots)[1]

(* A ready draft does not follow the cursor *)
Hover(p) ==
    /\ ready = Nothing
    /\ preview' = p
    /\ UNCHANGED <<request, view, spot, current, ready>>

(* mutant: replacing a model does not take the review back *)
PlaceAfterReview(p) ==
    /\ spot' = [spot EXCEPT ![current] = p]
    /\ current' = NextUnplaced(spot')
    /\ preview' = Nothing
    /\ UNCHANGED <<request, view, ready>>

(* place_current_model, which may replace one *)
Place(p) ==
    /\ spot' = [spot EXCEPT ![current] = p]
    /\ current' = NextUnplaced(spot')
    /\ preview' = Nothing
    /\ ready' = Nothing
    /\ UNCHANGED <<request, view>>

(* mutant: the next of all models, those of other units included *)
SelectNextOfAny ==
    /\ current' \in Models \ {current}
    /\ preview' = Nothing
    /\ ready' = Nothing
    /\ UNCHANGED <<request, view, spot>>

SelectNext ==
    /\ \E i \in DOMAIN Ids : Ids[i] = current /\ current' = Ids[(i % Len(Ids)) + 1]
    /\ preview' = Nothing
    /\ ready' = Nothing
    /\ UNCHANGED <<request, view, spot>>

(* mark_ready, refused while a model is not placed *)
MarkReady ==
    /\ ready' = IF Unplaced(spot) = << >> THEN ToPayload ELSE Nothing
    /\ UNCHANGED <<request, view, spot, current, preview>>

Next ==
    \/ \E p \in Spots : Hover(p) \/ Place(p)
    \/ SelectNext
    \/ MarkReady

Spec == Init /\ [][Next]_vars

-----------------------------------------------------------------------------

(* assignment_views: the cursor shows a model that has no pose yet *)
Shown ==
    [m \in Models |-> IF m = current /\ spot[m] = Nothing THEN preview ELSE spot[m]]

(* All model rows of the ready payload *)
Placements == FlattenSeq([r \in DOMAIN ready |-> ready[r].models])

Sent ==
    IF ready = Nothing THEN Nothing
    ELSE [m \in Models |->
            IF \E e \in ToSet(Placements) : e.model = m
            THEN (CHOOSE e \in ToSet(Placements) : e.model = m).spot
            ELSE Nothing]

(* What Enter submits is where the models are drawn, through any sequence   *)
(* of placing, replacing, moving on and hovering.                           *)
Draft == INSTANCE ReviewedDraft WITH
    Pictures <- [Models -> Spots \cup {Nothing}], Unreviewed <- Nothing,
    shown <- Shown, reviewed <- Sent

ImplementsReview == Draft!Spec

(* A payload places the models of the request, each exactly once and in the *)
(* row of the unit the physical view has it in, all of the acting player    *)
(* and of an army both views agree on.  The code takes these facts from the *)
(* request, the display and the physical view, whichever are there, and     *)
(* checks them against each other at different places.                      *)
PayloadIsOfRequest ==
    ready # Nothing =>
        /\ Len(Placements) = Len(Ids)
        /\ {e.model : e \in ToSet(Placements)} = ToSet(Ids)
        /\ \A e \in ToSet(Placements) :
            /\ e.player = request.player
            /\ \A a \in ToSet(view.placed) : e.army = a
            /\ e.model \notin request.created /\ view.physical # Nothing =>
                /\ view.physical[e.model].unit = e.unit
                /\ view.physical[e.model].owner = e.player
                /\ e.unit \in AllowedUnits(request)
        /\ request.kind = "placement" /\ Grouped(request) =>
            /\ [r \in DOMAIN ready |-> ready[r].unit] = request.components
            /\ \A r \in DOMAIN ready : \A e \in ToSet(ready[r].models) : e.unit = ready[r].unit
=============================================================================
