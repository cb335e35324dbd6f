--------------------------- MODULE MovementWorkspace ---------------------------
(***************************************************************************)
(* One movement draft in detail (state/movement_draft.py): which models    *)
(* the entity selection moves, the path of each, the assignment groups of  *)
(* models drafted together, the preview under the cursor and the payload   *)
(* Enter makes ready.  MovementDraft keeps of a path only its length and   *)
(* of the selection only the models it moves.                              *)
(*                                                                         *)
(* A path is the sequence of its segments and a segment a displacement:    *)
(* the models of a selection are all moved by the same one, from the mean  *)
(* of their endpoints to the point under the cursor; 0 is a click on that  *)
(* very mean.                                                              *)
(***************************************************************************)
EXTENDS EntitySelection

CONSTANTS
    Mover,      \* the rules unit of the proposal: [id, models]
    NoMove,     \* the kind may be answered with no witness path
    Moves,      \* bound: the displacements that are told apart
    MaxWay,     \* bound: segments per model
    MaxGroups   \* bound: assignment groups

ASSUME MoverAssumption == Mover \in [id : STRING, models : Seq(STRING)]
ASSUME NoMoveAssumption == NoMove \in BOOLEAN
ASSUME MovesAssumption == Moves \subseteq Nat /\ Nothing \notin Moves
ASSUME MaxAssumption == MaxWay \in Nat \ {0} /\ MaxGroups \in Nat \ {0}

VARIABLES
    sel,        \* entity_selection
    path,       \* model_paths: the segments of each model
    group,      \* assignment_group_id of each path; 0: none
    nextGroup,  \* next_assignment_group_index
    preview,    \* cursor_preview_point, as a displacement, or Nothing
    ready       \* ready_payload: the path of each model, or Nothing

vars == <<sel, path, group, nextGroup, preview, ready>>

Mine == ToSet(Mover.models)

Paths == [Mine -> Seq(Moves)]

ASSUME NothingAssumption == Nothing \notin Paths

Profile == MovementProfile(1, <<Mover>>, Mover.id)

UnitRef == EntityRef("unit", Mover.id)

TypeOK ==
    /\ sel.refs \subseteq CandidateSet(Profile)
    /\ sel.layer \in Layers
    /\ path \in Paths
    /\ group \in [Mine -> Nat]
    /\ nextGroup \in Nat \ {0}
    /\ preview \in Moves \cup {Nothing}
    /\ ready \in Paths \cup {Nothing}

(* selected_model_ids: the unit stands for all its models *)
ActiveOf(refs) ==
    IF UnitRef \in refs THEN Mine ELSE {m \in Mine : EntityRef("model", m) \in refs}

Active == ActiveOf(sel.refs)

Moved(p) == \E i \in DOMAIN p : p[i] # 0

HasAssignments == \E m \in Mine : Moved(path[m])

(* preview_model_paths *)
Previewed ==
    [m \in Mine |-> IF preview # Nothing /\ m \in Active THEN Append(path[m], preview) ELSE path[m]]

-----------------------------------------------------------------------------

(* _seed_entity_selection: the selected model, or else the whole unit *)
Init ==
    /\ \E seed \in CandidateSet(Profile) :
        sel = ReplaceSelection(Profile, InitialSelection(Profile), seed)
    /\ path = [m \in Mine |-> << >>]
    /\ group = [m \in Mine |-> 0]
    /\ nextGroup = 1
    /\ preview = Nothing
    /\ ready = Nothing

(* mutant: the payload of the former selection stays ready *)
SelectedAfterReview(s) ==
    /\ sel' = s
    /\ preview' = Nothing
    /\ UNCHANGED <<path, group, nextGroup, ready>>

(* _with_entity_selection *)
Selected(s) ==
    /\ sel' = s
    /\ preview' = Nothing
    /\ ready' = Nothing
    /\ UNCHANGED <<path, group, nextGroup>>

(* Clicks on a model: plain, Shift, Ctrl *)
ClickReplace(m)  == Selected(ReplaceSelection(Profile, sel, EntityRef("model", m)))
ClickAdd(m)      == Selected(AddSelection(Profile, sel, EntityRef("model", m)))
ClickSubtract(m) == Selected(SubtractSelection(Profile, sel, EntityRef("model", m)))

(* Keys, about the focused ref *)
KeyAdd      == sel.focus # Nothing /\ Selected(AddSelection(Profile, sel, sel.focus))
KeySubtract == sel.focus # Nothing /\ Selected(SubtractSelection(Profile, sel, sel.focus))
KeyToggle   == sel.focus # Nothing /\ Selected(ToggleSelection(Profile, sel, sel.focus))
KeyFocus    == Selected(CycleFocus(Profile, sel))
KeyLayer    == Selected(CycleLayer(Profile, sel))
KeyGroup    == Selected(SelectCurrentGroup(Profile, sel))

(* A first cancel keeps the drafted paths and clears the selection *)
CancelSelection ==
    /\ HasAssignments
    /\ Active # {}
    /\ Selected(ClearSelection(Profile, sel))

(* mutant: the cursor moves the drawing of a reviewed draft *)
HoverAlways(d) == preview' = d /\ UNCHANGED <<sel, path, group, nextGroup, ready>>

(* with_cursor_preview: a ready draft does not follow the cursor *)
Hover(d) ==
    /\ preview' = IF ready = Nothing THEN d ELSE preview
    /\ UNCHANGED <<sel, path, group, nextGroup, ready>>

(* mutant: a new group may take the number of one still in use *)
GroupForReused(active) ==
    LET used == {group[m] : m \in active}
    IN  IF Cardinality(used) = 1 /\ used # {0}
        THEN [id |-> CHOOSE g \in used : TRUE, next |-> nextGroup]
        ELSE [id |-> Cardinality({group[m] : m \in Mine} \ {0}) + 1, next |-> nextGroup]

(* _assignment_group_for_active_selection: all of one group keep it *)
GroupFor(active) ==
    LET used == {group[m] : m \in active}
    IN  IF Cardinality(used) = 1 /\ used # {0}
        THEN [id |-> CHOOSE g \in used : TRUE, next |-> nextGroup]
        ELSE [id |-> nextGroup, next |-> nextGroup + 1]

(* mutant: the preview is appended where the clicked point should be *)
ExtendedByPreview(d) ==
    [m \in Mine |-> IF m \in Active THEN Append(path[m], preview) ELSE path[m]]

(* What add_waypoint makes of the paths and their groups *)
Extended(d) == [m \in Mine |-> IF m \in Active THEN Append(path[m], d) ELSE path[m]]
Regrouped   == [m \in Mine |-> IF m \in Active THEN GroupFor(Active).id ELSE group[m]]

HasRoom ==
    /\ \A m \in Active : Len(path[m]) < MaxWay
    /\ Active # {} => GroupFor(Active).id <= MaxGroups

(* Without a model to move a click only takes the review back *)
AddWaypoint(d) ==
    /\ HasRoom
    /\ path' = Extended(d)
    /\ group' = Regrouped
    /\ nextGroup' = IF Active = {} THEN nextGroup ELSE GroupFor(Active).next
    /\ preview' = Nothing
    /\ ready' = Nothing
    /\ UNCHANGED sel

Shortened(p) == IF p = << >> THEN p ELSE SubSeq(p, 1, Len(p) - 1)

(* mutant: a path back at its start stays in its group *)
RemoveWaypointOnly ==
    /\ path' = [m \in Mine |-> IF m \in Active THEN Shortened(path[m]) ELSE path[m]]
    /\ preview' = Nothing
    /\ ready' = Nothing
    /\ UNCHANGED <<sel, group, nextGroup>>

RemoveWaypoint ==
    /\ path' = [m \in Mine |-> IF m \in Active THEN Shortened(path[m]) ELSE path[m]]
    /\ group' = [m \in Mine |-> IF m \in Active /\ Len(path[m]) <= 1 THEN 0 ELSE group[m]]
    /\ preview' = Nothing
    /\ ready' = Nothing
    /\ UNCHANGED <<sel, nextGroup>>

(* mutant: the previewed endpoint is drawn but not committed *)
MarkReadyAsCommitted ==
    /\ HasRoom
    /\ ready' = IF HasAssignments \/ NoMove THEN path ELSE Nothing
    /\ UNCHANGED <<sel, path, group, nextGroup, preview>>

(* The previewed endpoint is committed first.  The payload lists every      *)
(* model, the unmoved ones as paths that stay; one of a kind that need not  *)
(* move is sent with no paths at all when none moves.                       *)
MarkReady ==
    LET commits   == preview # Nothing
        committed == IF commits THEN Extended(preview) ELSE path
        moves     == \E m \in Mine : Moved(committed[m])
    IN  /\ commits => HasRoom
        /\ path' = committed
        /\ group' = IF commits THEN Regrouped ELSE group
        /\ nextGroup' = IF commits /\ Active # {} THEN GroupFor(Active).next ELSE nextGroup
        /\ preview' = Nothing
        /\ ready' = IF moves \/ NoMove THEN committed ELSE Nothing
        /\ UNCHANGED sel

(* clear_ready_payload, after a rejection that leaves the request pending *)
Rejected ==
    /\ ready # Nothing
    /\ preview' = Nothing
    /\ ready' = Nothing
    /\ UNCHANGED <<sel, path, group, nextGroup>>

Next ==
    \/ \E m \in Mine : ClickReplace(m) \/ ClickAdd(m) \/ ClickSubtract(m)
    \/ KeyAdd \/ KeySubtract \/ KeyToggle \/ KeyFocus \/ KeyLayer \/ KeyGroup
    \/ CancelSelection
    \/ \E d \in Moves : Hover(d) \/ AddWaypoint(d)
    \/ RemoveWaypoint
    \/ MarkReady
    \/ Rejected

Spec == Init /\ [][Next]_vars

-----------------------------------------------------------------------------

(* What is submitted is what the player saw when pressing Enter: the        *)
(* preview is committed by code of its own (with_translated_waypoint) that  *)
(* must agree with what was drawn (with_preview_waypoint), and every way of *)
(* changing the drawing must take the payload back.                         *)
Draft == INSTANCE ReviewedDraft WITH
    Pictures <- Paths, Unreviewed <- Nothing, shown <- Previewed, reviewed <- ready

ImplementsReview == Draft!Spec

(* A path belongs to an assignment group exactly while it has a waypoint,   *)
(* and the next new group takes a number no path has, through any sequence  *)
(* of additions, removals and changes of selection.                         *)
GroupsAreOfPaths ==
    \A m \in Mine : (group[m] = 0 <=> path[m] = << >>) /\ group[m] < nextGroup

(* "Ctrl-click removes models from the active subset"                       *)
(* (docs/plans/finished/phase-09-movement-draft-model-assignments.md:56).   *)
(* The selected refs may be of the layer left behind (cycle_active_layer),  *)
(* and subtract_selection only removes refs of the active layer.            *)
CtrlClickRemoves ==
    [][\A m \in Mine : ClickSubtract(m) => m \notin ActiveOf(sel'.refs)]_vars
=============================================================================
