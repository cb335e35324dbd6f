--------------------------- MODULE SelectionSession ---------------------------
(***************************************************************************)
(* One selection state over the life of several requests: the user's       *)
(* selection commands, projections in which models and units have gone,    *)
(* and the next request (EntitySelectionState.initial and reconcile).      *)
(***************************************************************************)
EXTENDS EntitySelection

CONSTANTS
    Start,          \* the table at first: a sequence of [id, models]
    MaxRequests     \* bound: requests in one session

ASSUME StartAssumption == Start \in Seq([id : STRING, models : Seq(STRING)])
ASSUME NothingAssumption == Nothing \notin Nat
ASSUME MaxRequestsAssumption == MaxRequests \in Nat \ {0}

VARIABLES
    table,      \* what the projection shows
    profile,    \* EntitySelectionState.profile
    sel         \* the rest of EntitySelectionState

vars == <<table, profile, sel>>

UnitIds == {Start[i].id : i \in DOMAIN Start}

AllRefs == UNION {ToSet(RefsOf(Start[i])) : i \in DOMAIN Start}

(* build_entity_selection_profile, for each kind of pending decision *)
Profiles(scope, t) ==
    {InspectionProfile(t), UnsupportedProfile(scope)}
    \cup {MovementProfile(scope, t, u) : u \in UnitIds}
    \cup {FiniteUnitProfile(scope, t, [i \in DOMAIN Start |-> Start[i].id])}

(* The profile the same decision yields on another table *)
Rebuilt(p, t) ==
    IF p.scope = Nothing THEN InspectionProfile(t)
    ELSE IF p.layers = << >> THEN p
    ELSE IF p.max = 1 THEN FiniteUnitProfile(p.scope, t, [i \in DOMAIN Start |-> Start[i].id])
    ELSE MovementProfile(p.scope, t, IF p.table = << >> THEN Nothing ELSE p.table[1].id)

TypeOK ==
    /\ sel.refs \subseteq AllRefs
    /\ sel.focus \in AllRefs \cup {Nothing}
    /\ sel.layer # Nothing => sel.layer \in ToSet(profile.layers)
    /\ profile.scope \in 1 .. MaxRequests \cup {Nothing}

Init ==
    /\ table = Start
    /\ profile \in Profiles(1, Start)
    /\ sel = InitialSelection(profile)

Edited(s) == sel' = s /\ UNCHANGED <<table, profile>>

Replace(ref)  == Edited(ReplaceSelection(profile, sel, ref))
Add(ref)      == Edited(AddSelection(profile, sel, ref))
Subtract(ref) == Edited(SubtractSelection(profile, sel, ref))
Toggle(ref)   == Edited(ToggleSelection(profile, sel, ref))
Clear         == Edited(ClearSelection(profile, sel))
NextFocus     == Edited(CycleFocus(profile, sel))
NextLayer     == Edited(CycleLayer(profile, sel))
TakeGroup     == Edited(SelectCurrentGroup(profile, sel))

(* A projection without one of the models; a unit goes with its last one *)
Without(t, m) ==
    LET left == [i \in DOMAIN t |-> [t[i] EXCEPT !.models = Filtered(@, ToSet(@) \ {m})]]
    IN  Filtered(left, {u \in ToSet(left) : u.models # << >>})

Refresh(t, next) ==
    /\ table' = t
    /\ profile' = next
    /\ sel' = Reconciled(profile, sel, next)

LoseModel ==
    \E i \in DOMAIN table : \E m \in ToSet(table[i].models) :
        LET t == Without(table, m) IN Refresh(t, Rebuilt(profile, t))

NewRequest ==
    LET scope == IF profile.scope = Nothing THEN 1 ELSE profile.scope + 1
    IN  /\ scope <= MaxRequests
        /\ \E next \in Profiles(scope, table) : Refresh(table, next)

Next ==
    \/ \E ref \in AllRefs : Replace(ref) \/ Add(ref) \/ Subtract(ref) \/ Toggle(ref)
    \/ Clear \/ NextFocus \/ NextLayer \/ TakeGroup
    \/ LoseModel
    \/ NewRequest

Spec == Init /\ [][Next]_vars

(* Whatever was clicked and whatever the projection lost meanwhile, only    *)
(* current candidates are selected or focused, no more of them than the     *)
(* request allows, in a layer that has candidates (reconcile and            *)
(* _with_selected_refs).                                                    *)
WithinProfile ==
    /\ sel.refs \subseteq CandidateSet(profile)
    /\ profile.max # Unlimited => Cardinality(sel.refs) <= profile.max
    /\ sel.focus # Nothing => sel.focus \in CandidateSet(profile)
    /\ sel.layer # Nothing => Contains(AvailableLayers(profile), sel.layer)
=============================================================================
