---------------------------- MODULE EntitySelection ----------------------------
(***************************************************************************)
(* Request-scoped entity selection (state/entity_selection.py): what a     *)
(* click or a key selects while a request is pending depends on the        *)
(* profile of that request.                                                *)
(*                                                                         *)
(* A table is what the projection shows: a sequence of units, each with    *)
(* the sequence of its models.  Diagnostics are left out.                  *)
(***************************************************************************)
EXTENDS Naturals, Sequences, SequencesExt, FiniteSetsExt, Lists

CONSTANT Nothing    \* Python's None

Layers == {"model", "unit"}

EntityRef(kind, id) == [kind |-> kind, id |-> id]

ModelRefs(unit) == [i \in DOMAIN unit.models |-> EntityRef("model", unit.models[i])]

(* The candidates a unit contributes: its models, then itself *)
RefsOf(unit) == Append(ModelRefs(unit), EntityRef("unit", unit.id))

OfKind(refs, layer) == {r \in ToSet(refs) : r.kind = layer}

(* available_layers: the layers with candidates, in the order of the profile *)
LayersOf(layers, candidates) == Filtered(layers, {l \in Layers : OfKind(candidates, l) # {}})

AvailableLayers(p) == LayersOf(p.layers, p.candidates)

(* _profile_with_layer_diagnostics: a layer without candidates is not active *)
ProfileFor(scope, layers, candidates, table, max, edits) ==
    LET available == LayersOf(layers, candidates)
    IN  [scope |-> scope, layers |-> layers, candidates |-> candidates, table |-> table,
         max |-> max, additive |-> edits, subtractive |-> edits,
         layer |-> IF available = << >> THEN Nothing ELSE available[1]]

Unlimited == Nothing

InspectionProfile(table) ==
    ProfileFor(Nothing, <<"model", "unit">>, FlattenSeq([i \in DOMAIN table |-> RefsOf(table[i])]),
               table, Unlimited, TRUE)

UnsupportedProfile(scope) == ProfileFor(scope, << >>, << >>, << >>, 0, FALSE)

(* The unit of the proposal, if it is on the table *)
MovementProfile(scope, table, unit) ==
    LET own == Filtered(table, {u \in ToSet(table) : u.id = unit})
    IN  ProfileFor(scope, <<"model", "unit">>, FlattenSeq([i \in DOMAIN own |-> RefsOf(own[i])]),
                   own, Unlimited, TRUE)

(* The units named by the options, in their order; one may be chosen *)
FiniteUnitProfile(scope, table, named) ==
    LET shown == Filtered(named, {table[i].id : i \in DOMAIN table})
    IN  IF named = << >> THEN UnsupportedProfile(scope)
        ELSE ProfileFor(scope, <<"unit">>, [i \in DOMAIN shown |-> EntityRef("unit", shown[i])],
                        table, 1, FALSE)

CandidateSet(p) == ToSet(p.candidates)

ParentsOf(p, ref) ==
    {EntityRef("unit", p.table[i].id) :
        i \in {j \in DOMAIN p.table : ref.kind = "model" /\ ref.id \in ToSet(p.table[j].models)}}

(* Alias rules: a model stands for its unit, a unit for its models *)
AliasTargets(p, ref, layer) ==
    IF layer = "unit" THEN ParentsOf(p, ref)
    ELSE UNION {ToSet(ModelRefs(p.table[i])) :
                    i \in {j \in DOMAIN p.table : ref = EntityRef("unit", p.table[j].id)}}

(* _resolve_active_refs *)
Resolved(p, layer, ref) ==
    IF layer = Nothing THEN {}
    ELSE IF ref \in CandidateSet(p) /\ ref.kind = layer THEN {ref}
    ELSE AliasTargets(p, ref, layer) \cap CandidateSet(p)

FirstAmong(p, refs) ==
    LET kept == Filtered(p.candidates, refs)
    IN  IF kept = << >> THEN Nothing ELSE kept[1]

FirstOfLayer(p, layer) ==
    IF layer = Nothing THEN Nothing
    ELSE FirstAmong(p, OfKind(p.candidates, layer))

(* A selection: the selected refs (kept in candidate order), the focused    *)
(* one and the layer.                                                      *)
InitialSelection(p) ==
    [refs |-> {}, focus |-> FirstOfLayer(p, p.layer), layer |-> p.layer]

(* _with_selected_refs *)
WithRefs(p, s, refs) ==
    LET kept  == refs \cap CandidateSet(p)
        first == FirstAmong(p, kept)
    IN  IF p.max # Unlimited /\ Cardinality(kept) > p.max THEN s
        ELSE [s EXCEPT !.refs = kept,
                       !.focus = IF kept = {} THEN FirstOfLayer(p, s.layer) ELSE first]

ReplaceSelection(p, s, ref) ==
    LET found == Resolved(p, s.layer, ref)
    IN  IF found = {} THEN s ELSE WithRefs(p, s, found)

AddSelection(p, s, ref) ==
    LET found == Resolved(p, s.layer, ref)
    IN  IF found = {} \/ (s.refs # {} /\ ~p.additive) THEN s
        ELSE WithRefs(p, s, s.refs \cup found)

SubtractSelection(p, s, ref) ==
    LET found == Resolved(p, s.layer, ref)
    IN  IF found = {} \/ ~p.subtractive THEN s ELSE WithRefs(p, s, s.refs \ found)

ToggleSelection(p, s, ref) ==
    LET found == Resolved(p, s.layer, ref)
    IN  IF found = {} THEN s
        ELSE IF found \subseteq s.refs THEN SubtractSelection(p, s, ref)
        ELSE IF s.refs # {} THEN AddSelection(p, s, ref)
        ELSE ReplaceSelection(p, s, ref)

ClearSelection(p, s) == [s EXCEPT !.refs = {}, !.focus = FirstOfLayer(p, s.layer)]

(* A focus outside the active layer counts as the position before its first *)
CycleFocus(p, s) ==
    LET ring == IF s.layer = Nothing THEN << >> ELSE Filtered(p.candidates, OfKind(p.candidates, s.layer))
        at   == IF \E i \in DOMAIN ring : ring[i] = s.focus
                THEN CHOOSE i \in DOMAIN ring : ring[i] = s.focus ELSE 0
    IN  IF ring = << >> THEN s ELSE [s EXCEPT !.focus = ring[(at % Len(ring)) + 1]]

(* mutant: the layers are cycled whether or not the request allows them *)
CycleAnyLayer(p, s) ==
    LET next == IF s.layer = "model" THEN "unit" ELSE "model"
    IN  [s EXCEPT !.layer = next, !.focus = FirstOfLayer(p, next)]

(* The selected refs stay those of the former layer *)
CycleLayer(p, s) ==
    LET ring == AvailableLayers(p)
        at   == IF \E i \in DOMAIN ring : ring[i] = s.layer
                THEN CHOOSE i \in DOMAIN ring : ring[i] = s.layer ELSE 1
        next == ring[(at % Len(ring)) + 1]
    IN  IF ring = << >> THEN s
        ELSE [s EXCEPT !.layer = next, !.focus = FirstOfLayer(p, next)]

(* The parent of the focused ref if it resolves, or else the ref itself *)
SelectCurrentGroup(p, s) ==
    LET source == IF s.focus # Nothing THEN s.focus ELSE FirstAmong(p, s.refs)
        group  == UNION {Resolved(p, s.layer, r) : r \in ParentsOf(p, source)}
    IN  IF source = Nothing THEN s
        ELSE IF group # {} THEN WithRefs(p, s, group)
        ELSE IF Resolved(p, s.layer, source) = {} THEN s
        ELSE WithRefs(p, s, Resolved(p, s.layer, source))

(* mutant: what is no longer a candidate stays selected *)
ReconciledUnchecked(p, s, next) ==
    IF p.scope # next.scope THEN InitialSelection(next) ELSE s

(* A refreshed profile of the same request keeps what is still there *)
Reconciled(p, s, next) ==
    LET layer == IF Contains(AvailableLayers(next), s.layer) THEN s.layer ELSE next.layer
        kept  == s.refs \cap CandidateSet(next)
    IN  IF p.scope # next.scope THEN InitialSelection(next)
        ELSE [refs  |-> kept,
              focus |-> IF s.focus \in CandidateSet(next) THEN s.focus
                        ELSE IF kept # {} THEN FirstAmong(next, kept)
                        ELSE FirstOfLayer(next, layer),
              layer |-> layer]
=============================================================================
