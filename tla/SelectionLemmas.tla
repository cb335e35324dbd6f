---------------------------- MODULE SelectionLemmas ----------------------------
(***************************************************************************)
(* What the operators of EntitySelection return, for every table, profile  *)
(* and selection: a command leaves a selection that fits its profile, and  *)
(* reconciling leaves one that fits the next profile.                      *)
(***************************************************************************)
EXTENDS EntitySelection, ListLemmas, FiniteSetTheorems

Ref == [kind : Layers, id : STRING]

UnitRow == [id : STRING, models : Seq(STRING)]

Tables == Seq(UnitRow)

(* What every profile is that _profile_with_layer_diagnostics returns *)
ProfileShape(p) ==
    /\ p.layers \in Seq(Layers)
    /\ p.candidates \in Seq(Ref)
    /\ p.max \in Nat \cup {Unlimited}
    /\ p.layer = IF AvailableLayers(p) = << >> THEN Nothing ELSE AvailableLayers(p)[1]

SelectionState(p) ==
    [refs : SUBSET CandidateSet(p), focus : CandidateSet(p) \cup {Nothing},
     layer : ToSet(AvailableLayers(p)) \cup {Nothing}]

Fits(p, s) ==
    /\ s \in SelectionState(p)
    /\ p.max # Unlimited => Cardinality(s.refs) <= p.max

-----------------------------------------------------------------------------

(* A sequence that is not empty has a first element among its elements. *)
LEMMA FirstElement ==
    ASSUME NEW T, NEW seq \in Seq(T), seq # << >>
    PROVE  seq[1] \in ToSet(seq) /\ ToSet(seq) \subseteq T
<1>1. 1 \in DOMAIN seq BY DEF ToSet
<1> QED BY <1>1 DEF ToSet

(* The elements of a tuple are finitely many. *)
LEMMA ToSetFinite ==
    ASSUME NEW T, NEW seq \in Seq(T)
    PROVE  IsFiniteSet(ToSet(seq))
<1> DEFINE n == Len(seq)
           f == [i \in 1 .. n |-> seq[i]]
<1>1. n \in Nat /\ DOMAIN seq = 1 .. n OBVIOUS
<1>2. IsFiniteSet(1 .. n)
  <2>1. 1 \in Int /\ n \in Int BY <1>1
  <2> HIDE DEF n
  <2> QED BY <2>1, FS_Interval
<1>3. f \in Surjection(1 .. n, ToSet(seq)) BY <1>1 DEF ToSet, Surjection
<1> QED BY <1>2, <1>3, FS_Surjection

(* The available layers are those of the profile that have a candidate. *)
LEMMA AvailableIs ==
    ASSUME NEW layers \in Seq(Layers), NEW candidates
    PROVE  /\ LayersOf(layers, candidates) \in Seq(Layers)
           /\ ToSet(LayersOf(layers, candidates))
                = {l \in ToSet(layers) : OfKind(candidates, l) # {}}
<1> DEFINE S == {l \in Layers : OfKind(candidates, l) # {}}
<1>1. ToSet(layers) \subseteq Layers BY DEF ToSet
<1>2. /\ Filtered(layers, S) \in Seq(Layers)
      /\ ToSet(Filtered(layers, S)) = ToSet(layers) \cap S
    BY FilteredProperties
<1> QED BY <1>1, <1>2 DEF LayersOf

(* Profiles are built with the first available layer active. *)
LEMMA ProfileForShape ==
    ASSUME NEW layers \in Seq(Layers), NEW candidates \in Seq(Ref), NEW p,
           p.layers = layers, p.candidates = candidates, p.max \in Nat \cup {Unlimited},
           p.layer = IF LayersOf(layers, candidates) = << >> THEN Nothing
                     ELSE LayersOf(layers, candidates)[1]
    PROVE  ProfileShape(p)
BY DEF ProfileShape, AvailableLayers

(* The first of some refs is one of them, and a candidate, or there is none. *)
LEMMA FirstAmongIs ==
    ASSUME NEW p, ProfileShape(p), NEW refs
    PROVE  /\ FirstAmong(p, refs) \in (CandidateSet(p) \cap refs) \cup {Nothing}
           /\ CandidateSet(p) \cap refs # {} => FirstAmong(p, refs) \in CandidateSet(p) \cap refs
<1> DEFINE kept == Filtered(p.candidates, refs)
<1>1. /\ kept \in Seq(Ref)
      /\ ToSet(kept) = CandidateSet(p) \cap refs
    BY FilteredProperties DEF ProfileShape, CandidateSet
<1>2. FirstAmong(p, refs) = IF kept = << >> THEN Nothing ELSE kept[1]
    BY DEF FirstAmong
<1>3. kept # << >> => kept[1] \in ToSet(kept) BY <1>1, FirstElement
<1>4. kept = << >> => ToSet(kept) = {} BY DEF ToSet
<1> HIDE DEF kept
<1> QED BY <1>1, <1>2, <1>3, <1>4

(* The first candidate of a layer is a candidate, when there is one. *)
LEMMA FirstOfLayerIs ==
    ASSUME NEW p, ProfileShape(p), NEW layer
    PROVE  FirstOfLayer(p, layer) \in CandidateSet(p) \cup {Nothing}
<1>1. FirstAmong(p, OfKind(p.candidates, layer)) \in CandidateSet(p) \cup {Nothing}
    BY FirstAmongIs
<1> QED BY <1>1 DEF FirstOfLayer

(* The layer a profile begins with has candidates, when any layer has. *)
LEMMA ProfileLayerIs ==
    ASSUME NEW p, ProfileShape(p)
    PROVE  /\ p.layer \in ToSet(AvailableLayers(p)) \cup {Nothing}
           /\ ToSet(AvailableLayers(p)) # {} => p.layer \in ToSet(AvailableLayers(p))
           /\ AvailableLayers(p) \in Seq(Layers)
<1>1. AvailableLayers(p) \in Seq(Layers)
    BY AvailableIs DEF ProfileShape, AvailableLayers
<1>2. AvailableLayers(p) # << >> => AvailableLayers(p)[1] \in ToSet(AvailableLayers(p))
    BY <1>1, FirstElement
<1>3. AvailableLayers(p) = << >> => ToSet(AvailableLayers(p)) = {}
    BY DEF ToSet
<1> QED BY <1>1, <1>2, <1>3 DEF ProfileShape

-----------------------------------------------------------------------------
(* Every command leaves a selection that fits *)

(* A selection begins empty and within its profile. *)
LEMMA InitialFits ==
    ASSUME NEW p, ProfileShape(p)
    PROVE  Fits(p, InitialSelection(p)) /\ InitialSelection(p).refs = {}
<1>1. FirstOfLayer(p, p.layer) \in CandidateSet(p) \cup {Nothing} BY FirstOfLayerIs
<1>2. p.layer \in ToSet(AvailableLayers(p)) \cup {Nothing} BY ProfileLayerIs
<1>3. p.max # Unlimited => Cardinality({}) <= p.max
    BY FS_EmptySet DEF ProfileShape
<1> QED BY <1>1, <1>2, <1>3 DEF InitialSelection, Fits, SelectionState

(* Whatever refs are asked for, what gets selected fits. *)
LEMMA WithRefsFits ==
    ASSUME NEW p, ProfileShape(p), NEW s, Fits(p, s), NEW refs
    PROVE  Fits(p, WithRefs(p, s, refs))
<1> DEFINE kept == refs \cap CandidateSet(p)
           focus == IF kept = {} THEN FirstOfLayer(p, s.layer) ELSE FirstAmong(p, kept)
<1>1. focus \in CandidateSet(p) \cup {Nothing} BY FirstOfLayerIs, FirstAmongIs
<1>2. IsFiniteSet(kept)
    BY ToSetFinite, FS_Subset DEF ProfileShape, CandidateSet
<1>3. Cardinality(kept) \in Nat BY <1>2, FS_CardinalityType
<1>4. CASE p.max # Unlimited /\ Cardinality(kept) > p.max
    BY <1>4 DEF WithRefs
<1>5. CASE ~(p.max # Unlimited /\ Cardinality(kept) > p.max)
  <2>1. WithRefs(p, s, refs) = [s EXCEPT !.refs = kept, !.focus = focus]
    BY <1>5 DEF WithRefs
  <2>2. p.max # Unlimited => Cardinality(kept) <= p.max
    BY <1>3, <1>5 DEF ProfileShape
  <2>3. kept \in SUBSET CandidateSet(p) OBVIOUS
  <2> HIDE DEF kept, focus
  <2>4. WithRefs(p, s, refs) \in SelectionState(p) /\ WithRefs(p, s, refs).refs = kept
    BY <1>1, <2>1, <2>3 DEF Fits, SelectionState
  <2> QED BY <2>2, <2>4 DEF Fits
<1> QED BY <1>4, <1>5

(* Every edit of the selection fits: replacing, adding, subtracting,        *)
(* toggling,                                                                *)
LEMMA EditsFit ==
    ASSUME NEW p, ProfileShape(p), NEW s, Fits(p, s), NEW ref
    PROVE  /\ Fits(p, ReplaceSelection(p, s, ref))
           /\ Fits(p, AddSelection(p, s, ref))
           /\ Fits(p, SubtractSelection(p, s, ref))
           /\ Fits(p, ToggleSelection(p, s, ref))
<1>1. \A refs : Fits(p, WithRefs(p, s, refs)) BY WithRefsFits
<1>2. Fits(p, ReplaceSelection(p, s, ref)) BY <1>1 DEF ReplaceSelection
<1>3. Fits(p, AddSelection(p, s, ref)) BY <1>1 DEF AddSelection
<1>4. Fits(p, SubtractSelection(p, s, ref)) BY <1>1 DEF SubtractSelection
<1>5. Fits(p, ToggleSelection(p, s, ref)) BY <1>2, <1>3, <1>4 DEF ToggleSelection
<1> QED BY <1>2, <1>3, <1>4, <1>5

(* clearing it, *)
LEMMA ClearFits ==
    ASSUME NEW p, ProfileShape(p), NEW s, Fits(p, s)
    PROVE  Fits(p, ClearSelection(p, s))
<1>1. FirstOfLayer(p, s.layer) \in CandidateSet(p) \cup {Nothing} BY FirstOfLayerIs
<1>2. p.max # Unlimited => Cardinality({}) <= p.max
    BY FS_EmptySet DEF ProfileShape
<1>3. ClearSelection(p, s) \in SelectionState(p) /\ ClearSelection(p, s).refs = {}
    BY <1>1 DEF ClearSelection, Fits, SelectionState
<1> QED BY <1>2, <1>3 DEF Fits

(* The element after a position, cyclically, is an element. *)
LEMMA NextInRing ==
    ASSUME NEW T, NEW ring \in Seq(T), ring # << >>, NEW at \in Nat
    PROVE  ring[(at % Len(ring)) + 1] \in ToSet(ring)
<1>1. Len(ring) \in Nat \ {0} OBVIOUS
<1>2. at % Len(ring) \in 0 .. Len(ring) - 1 BY <1>1
<1>3. (at % Len(ring)) + 1 \in 1 .. Len(ring) BY <1>1, <1>2
<1>4. (at % Len(ring)) + 1 \in DOMAIN ring BY <1>3
<1> QED BY <1>4 DEF ToSet

(* moving the focus to the next candidate, *)
LEMMA CycleFocusFits ==
    ASSUME NEW p, ProfileShape(p), NEW s, Fits(p, s)
    PROVE  Fits(p, CycleFocus(p, s))
<1> DEFINE ring == IF s.layer = Nothing THEN << >>
                   ELSE Filtered(p.candidates, OfKind(p.candidates, s.layer))
           at   == IF \E i \in DOMAIN ring : ring[i] = s.focus
                   THEN CHOOSE i \in DOMAIN ring : ring[i] = s.focus ELSE 0
<1>1. ring \in Seq(Ref) /\ ToSet(ring) \subseteq CandidateSet(p)
  <2>1. ToSet(<< >>) = {} BY DEF ToSet
  <2>2. /\ Filtered(p.candidates, OfKind(p.candidates, s.layer)) \in Seq(Ref)
        /\ ToSet(Filtered(p.candidates, OfKind(p.candidates, s.layer))) \subseteq CandidateSet(p)
    <3>1. p.candidates \in Seq(Ref) BY DEF ProfileShape
    <3> DEFINE S == OfKind(p.candidates, s.layer)
    <3> HIDE DEF S
    <3>2. /\ Filtered(p.candidates, S) \in Seq(Ref)
          /\ ToSet(Filtered(p.candidates, S)) = ToSet(p.candidates) \cap S
      BY <3>1, FilteredProperties
    <3> QED BY <3>2 DEF CandidateSet, S
  <2> QED BY <2>1, <2>2
<1> HIDE DEF ring
<1>2. at \in Nat BY <1>1
<1> HIDE DEF at
<1>3. CycleFocus(p, s) = IF ring = << >> THEN s ELSE [s EXCEPT !.focus = ring[(at % Len(ring)) + 1]]
    BY DEF CycleFocus, ring, at
<1>4. ring # << >> => ring[(at % Len(ring)) + 1] \in CandidateSet(p)
    BY <1>1, <1>2, NextInRing
<1> DEFINE next == ring[(at % Len(ring)) + 1]
<1> HIDE DEF next
<1>5. ring # << >> => Fits(p, [s EXCEPT !.focus = next])
    BY <1>4 DEF Fits, SelectionState, next
<1> QED BY <1>3, <1>5 DEF next

(* moving on to the next layer, *)
LEMMA CycleLayerFits ==
    ASSUME NEW p, ProfileShape(p), NEW s, Fits(p, s)
    PROVE  Fits(p, CycleLayer(p, s))
<1> DEFINE ring == AvailableLayers(p)
           at   == IF \E i \in DOMAIN ring : ring[i] = s.layer
                   THEN CHOOSE i \in DOMAIN ring : ring[i] = s.layer ELSE 1
           next == ring[(at % Len(ring)) + 1]
<1>1. ring \in Seq(Layers) BY ProfileLayerIs
<1> HIDE DEF ring
<1>2. at \in Nat BY <1>1
<1> HIDE DEF at
<1>3. CycleLayer(p, s) = IF ring = << >> THEN s
                         ELSE [s EXCEPT !.layer = next, !.focus = FirstOfLayer(p, next)]
    BY DEF CycleLayer, ring, at
<1>4. ring # << >> => next \in ToSet(AvailableLayers(p))
    BY <1>1, <1>2, NextInRing DEF ring
<1> HIDE DEF next
<1>5. FirstOfLayer(p, next) \in CandidateSet(p) \cup {Nothing} BY FirstOfLayerIs
<1> DEFINE focus == FirstOfLayer(p, next)
<1> HIDE DEF focus
<1>6. ring # << >> => Fits(p, [s EXCEPT !.layer = next, !.focus = focus])
    BY <1>4, <1>5 DEF Fits, SelectionState, focus
<1> QED BY <1>3, <1>6 DEF focus

(* and selecting the group of the focused model. *)
LEMMA GroupFits ==
    ASSUME NEW p, ProfileShape(p), NEW s, Fits(p, s)
    PROVE  Fits(p, SelectCurrentGroup(p, s))
<1>1. \A refs : Fits(p, WithRefs(p, s, refs)) BY WithRefsFits
<1> QED BY <1>1 DEF SelectCurrentGroup

(* Only the key for it changes the layer, to one that is available. *)
LEMMA LayersStay ==
    ASSUME NEW p, ProfileShape(p), NEW s, Fits(p, s)
    PROVE  /\ \A ref : /\ ReplaceSelection(p, s, ref).layer = s.layer
                       /\ AddSelection(p, s, ref).layer = s.layer
                       /\ SubtractSelection(p, s, ref).layer = s.layer
                       /\ ToggleSelection(p, s, ref).layer = s.layer
           /\ ClearSelection(p, s).layer = s.layer
           /\ CycleFocus(p, s).layer = s.layer
           /\ SelectCurrentGroup(p, s).layer = s.layer
           /\ CycleLayer(p, s).layer \in ToSet(AvailableLayers(p)) \cup {s.layer}
<1>0. \A focus, refs : /\ [s EXCEPT !.focus = focus].layer = s.layer
                      /\ [s EXCEPT !.refs = refs, !.focus = focus].layer = s.layer
    BY DEF Fits, SelectionState
<1>1. \A refs : WithRefs(p, s, refs).layer = s.layer BY <1>0 DEF WithRefs
<1>2. \A ref : /\ ReplaceSelection(p, s, ref).layer = s.layer
               /\ AddSelection(p, s, ref).layer = s.layer
               /\ SubtractSelection(p, s, ref).layer = s.layer
    BY <1>1 DEF ReplaceSelection, AddSelection, SubtractSelection
<1>3. \A ref : ToggleSelection(p, s, ref).layer = s.layer BY <1>2 DEF ToggleSelection
<1>4. ClearSelection(p, s).layer = s.layer BY <1>0 DEF ClearSelection
<1>5. CycleFocus(p, s).layer = s.layer
  <2>1. \A focus : [s EXCEPT !.focus = focus].layer = s.layer BY <1>0
  <2> QED BY <2>1 DEF CycleFocus
<1>6. SelectCurrentGroup(p, s).layer = s.layer BY <1>1 DEF SelectCurrentGroup
<1>7. CycleLayer(p, s).layer \in ToSet(AvailableLayers(p)) \cup {s.layer}
  <2> DEFINE ring == AvailableLayers(p)
             at   == IF \E i \in DOMAIN ring : ring[i] = s.layer
                     THEN CHOOSE i \in DOMAIN ring : ring[i] = s.layer ELSE 1
             next == ring[(at % Len(ring)) + 1]
  <2>1. ring \in Seq(Layers) BY ProfileLayerIs
  <2> HIDE DEF ring
  <2>2. at \in Nat BY <2>1
  <2> HIDE DEF at
  <2>3. CycleLayer(p, s) = IF ring = << >> THEN s
                           ELSE [s EXCEPT !.layer = next, !.focus = FirstOfLayer(p, next)]
      BY DEF CycleLayer, ring, at
  <2>4. ring # << >> => next \in ToSet(AvailableLayers(p))
      BY <2>1, <2>2, NextInRing DEF ring
  <2> HIDE DEF next
  <2>5. [s EXCEPT !.layer = next, !.focus = FirstOfLayer(p, next)].layer = next
      BY DEF Fits, SelectionState
  <2> QED BY <2>3, <2>4, <2>5
<1> QED BY <1>2, <1>3, <1>4, <1>5, <1>6, <1>7

(* Reconciling leaves a selection that fits the next profile, with nothing  *)
(* selected for another request and only what is gone left out for the same. *)
LEMMA ReconciledFits ==
    ASSUME NEW p, ProfileShape(p), NEW s, Fits(p, s), NEW next, ProfileShape(next),
           p.scope = next.scope => next.max \in {p.max, Unlimited}
    PROVE  /\ Fits(next, Reconciled(p, s, next))
           /\ Reconciled(p, s, next).refs
                = IF p.scope # next.scope THEN {} ELSE s.refs \cap CandidateSet(next)
<1>1. CASE p.scope # next.scope
    BY <1>1, InitialFits DEF Reconciled
<1>2. CASE p.scope = next.scope
  <2> DEFINE layer == IF Contains(AvailableLayers(next), s.layer) THEN s.layer ELSE next.layer
             kept  == s.refs \cap CandidateSet(next)
             focus == IF s.focus \in CandidateSet(next) THEN s.focus
                      ELSE IF kept # {} THEN FirstAmong(next, kept)
                      ELSE FirstOfLayer(next, layer)
  <2>1. Reconciled(p, s, next) = [refs |-> kept, focus |-> focus, layer |-> layer]
    BY <1>2 DEF Reconciled
  <2>2. layer \in ToSet(AvailableLayers(next)) \cup {Nothing}
    BY ProfileLayerIs DEF Contains, ToSet
  <2>3. focus \in CandidateSet(next) \cup {Nothing}
    BY FirstAmongIs, FirstOfLayerIs
  <2>4. next.max # Unlimited => Cardinality(kept) <= next.max
    <3> SUFFICES ASSUME next.max # Unlimited PROVE Cardinality(kept) <= next.max
      OBVIOUS
    <3>1. next.max = p.max /\ p.max # Unlimited /\ p.max \in Nat BY <1>2 DEF ProfileShape
    <3>2. IsFiniteSet(s.refs)
      BY ToSetFinite, FS_Subset DEF ProfileShape, CandidateSet, Fits, SelectionState
    <3>3. Cardinality(kept) <= Cardinality(s.refs) /\ IsFiniteSet(kept)
      BY <3>2, FS_Subset
    <3>4. Cardinality(kept) \in Nat /\ Cardinality(s.refs) \in Nat
      BY <3>2, <3>3, FS_CardinalityType
    <3>5. Cardinality(s.refs) <= p.max BY <3>1 DEF Fits
    <3> QED BY <3>1, <3>3, <3>4, <3>5
  <2>5. kept \in SUBSET CandidateSet(next) OBVIOUS
  <2> HIDE DEF layer, focus
  <2>6. Reconciled(p, s, next) \in SelectionState(next)
    BY <2>1, <2>2, <2>3, <2>5 DEF SelectionState
  <2> QED BY <1>2, <2>1, <2>4, <2>6 DEF Fits
<1> QED BY <1>1, <1>2

-----------------------------------------------------------------------------
(* The profiles the code builds have that shape *)

(* The refs of a unit are a list of refs. *)
LEMMA RefsOfType ==
    ASSUME NEW unit \in UnitRow
    PROVE  RefsOf(unit) \in Seq(Ref)
<1>1. unit.models \in Seq(STRING) /\ unit.id \in STRING BY DEF UnitRow
<1>2. DOMAIN unit.models = 1 .. Len(unit.models) /\ Len(unit.models) \in Nat BY <1>1
<1>3. \A i \in 1 .. Len(unit.models) : EntityRef("model", unit.models[i]) \in Ref
    BY <1>1 DEF EntityRef, Ref, Layers
<1>4. ModelRefs(unit) \in Seq(Ref) BY <1>2, <1>3, IsASeq DEF ModelRefs
<1>5. EntityRef("unit", unit.id) \in Ref BY <1>1 DEF EntityRef, Ref, Layers
<1> QED BY <1>4, <1>5, AppendProperties DEF RefsOf

(* A unit's refs are those of its models and its own. *)
LEMMA RefsOfAre ==
    ASSUME NEW unit \in UnitRow
    PROVE  ToSet(RefsOf(unit))
             = {EntityRef("model", m) : m \in ToSet(unit.models)} \cup {EntityRef("unit", unit.id)}
<1> DEFINE n == Len(unit.models)
           rows == [i \in 1 .. n |-> EntityRef("model", unit.models[i])]
           own == EntityRef("unit", unit.id)
<1>1. unit.models \in Seq(STRING) BY DEF UnitRow
<1>2. DOMAIN unit.models = 1 .. n /\ n \in Nat BY <1>1
<1>3. rows \in Seq({rows[i] : i \in 1 .. n}) /\ Len(rows) = n BY <1>2, IsASeq
<1>4. RefsOf(unit) = Append(rows, own) BY <1>2 DEF RefsOf, ModelRefs
<1>5. ToSet(rows) = {EntityRef("model", m) : m \in ToSet(unit.models)} BY <1>2 DEF ToSet
<1> DEFINE T == {rows[i] : i \in 1 .. n} \cup {own}
<1>6. rows \in Seq(T) /\ own \in T BY <1>3
<1> HIDE DEF rows, own, T
<1>7. /\ DOMAIN Append(rows, own) = 1 .. Len(rows) + 1
      /\ \A i \in 1 .. Len(rows) : Append(rows, own)[i] = rows[i]
      /\ Append(rows, own)[Len(rows) + 1] = own
      /\ DOMAIN rows = 1 .. Len(rows) /\ Len(rows) \in Nat
    BY <1>6, AppendProperties
<1>8. ToSet(Append(rows, own)) = ToSet(rows) \cup {own}
  <2>1. 1 .. Len(rows) + 1 = 1 .. Len(rows) \cup {Len(rows) + 1} BY <1>7
  <2> QED BY <1>7, <2>1 DEF ToSet
<1> QED BY <1>4, <1>5, <1>8 DEF own

(* The candidates of some units are their models and themselves. *)
LEMMA TableRefsType ==
    ASSUME NEW t \in Tables
    PROVE  /\ FlattenSeq([i \in DOMAIN t |-> RefsOf(t[i])]) \in Seq(Ref)
           /\ ToSet(FlattenSeq([i \in DOMAIN t |-> RefsOf(t[i])])) = UNION {ToSet(RefsOf(u)) : u \in ToSet(t)}
<1> DEFINE rows == [i \in DOMAIN t |-> RefsOf(t[i])]
<1>1. DOMAIN t = 1 .. Len(t) /\ Len(t) \in Nat BY DEF Tables
<1>2. ASSUME NEW i \in 1 .. Len(t) PROVE RefsOf(t[i]) \in Seq(Ref)
  <2>1. t \in Seq(UnitRow) BY DEF Tables
  <2>2. t[i] \in UnitRow BY <2>1
  <2> QED BY <2>2, RefsOfType
<1>3. rows \in Seq(Seq(Ref))
    BY <1>1, <1>2, IsASeq
<1>4. UNION {ToSet(rows[i]) : i \in DOMAIN rows} = UNION {ToSet(RefsOf(u)) : u \in ToSet(t)}
    BY DEF ToSet
<1> HIDE DEF rows
<1>5. /\ FlattenSeq(rows) \in Seq(Ref)
      /\ ToSet(FlattenSeq(rows)) = UNION {ToSet(rows[i]) : i \in DOMAIN rows}
    BY <1>3, FlattenKeeps
<1> QED BY <1>4, <1>5 DEF rows

(* The profiles by their kind: without a request everything on the table is *)
(* a candidate, without a limit;                                            *)
LEMMA InspectionShape ==
    ASSUME NEW t \in Tables, NEW p, p = InspectionProfile(t)
    PROVE  /\ ProfileShape(p) /\ p.scope = Nothing /\ p.max = Unlimited
           /\ CandidateSet(p) = UNION {ToSet(RefsOf(u)) : u \in ToSet(t)}
<1> DEFINE layers == <<"model", "unit">>
           candidates == FlattenSeq([i \in DOMAIN t |-> RefsOf(t[i])])
<1>1. layers \in Seq(Layers) BY DEF Layers
<1>2. candidates \in Seq(Ref) /\ ToSet(candidates) = UNION {ToSet(RefsOf(u)) : u \in ToSet(t)}
    BY TableRefsType
<1> HIDE DEF candidates, layers
<1>3. /\ p.layers = layers /\ p.candidates = candidates /\ p.max = Unlimited
      /\ p.scope = Nothing
      /\ p.layer = IF LayersOf(layers, candidates) = << >> THEN Nothing
                   ELSE LayersOf(layers, candidates)[1]
    BY DEF InspectionProfile, ProfileFor, candidates, layers
<1>4. ProfileShape(p) BY <1>1, <1>2, <1>3, ProfileForShape
<1> QED BY <1>2, <1>3, <1>4 DEF CandidateSet

(* an unsupported request has no candidate; *)
LEMMA UnsupportedShape ==
    ASSUME NEW scope, NEW p, p = UnsupportedProfile(scope)
    PROVE  ProfileShape(p) /\ p.scope = scope /\ p.max = 0 /\ CandidateSet(p) = {}
<1> DEFINE none == << >>
<1>1. none \in Seq(Layers) /\ none \in Seq(Ref) /\ ToSet(none) = {} BY DEF ToSet
<1> HIDE DEF none
<1>2. /\ p.layers = none /\ p.candidates = none /\ p.max = 0 /\ p.scope = scope
      /\ p.layer = IF LayersOf(none, none) = << >> THEN Nothing ELSE LayersOf(none, none)[1]
    BY DEF UnsupportedProfile, ProfileFor, none
<1>3. ProfileShape(p) BY <1>1, <1>2, ProfileForShape
<1> QED BY <1>1, <1>2, <1>3 DEF CandidateSet

(* a movement has the models of its unit and the unit, without a limit; *)
LEMMA MovementShape ==
    ASSUME NEW scope, NEW t \in Tables, NEW id, NEW p, p = MovementProfile(scope, t, id)
    PROVE  /\ ProfileShape(p) /\ p.scope = scope /\ p.max = Unlimited
           /\ CandidateSet(p) = UNION {ToSet(RefsOf(u)) : u \in {x \in ToSet(t) : x.id = id}}
           /\ p.layers = <<"model", "unit">>
<1> DEFINE S == {x \in ToSet(t) : x.id = id}
           own == Filtered(t, S)
           layers == <<"model", "unit">>
           candidates == FlattenSeq([i \in DOMAIN own |-> RefsOf(own[i])])
<1>1. layers \in Seq(Layers) BY DEF Layers
<1>2. own \in Tables /\ ToSet(own) = S
  <2>1. S \subseteq ToSet(t) OBVIOUS
  <2> HIDE DEF S
  <2>2. t \in Seq(UnitRow) BY DEF Tables
  <2>3. own \in Seq(UnitRow) /\ ToSet(own) = ToSet(t) \cap S BY <2>2, FilteredProperties
  <2> QED BY <2>1, <2>3 DEF Tables
<1> HIDE DEF own
<1>3. candidates \in Seq(Ref) /\ ToSet(candidates) = UNION {ToSet(RefsOf(u)) : u \in ToSet(own)}
    BY <1>2, TableRefsType
<1> HIDE DEF candidates, layers, S
<1>4. /\ p.layers = layers /\ p.candidates = candidates /\ p.max = Unlimited
      /\ p.scope = scope
      /\ p.layer = IF LayersOf(layers, candidates) = << >> THEN Nothing
                   ELSE LayersOf(layers, candidates)[1]
    BY DEF MovementProfile, ProfileFor, own, candidates, layers, S
<1>5. ProfileShape(p) BY <1>1, <1>3, <1>4, ProfileForShape
<1>6. CandidateSet(p) = UNION {ToSet(RefsOf(u)) : u \in S} BY <1>2, <1>3, <1>4 DEF CandidateSet
<1> QED BY <1>4, <1>5, <1>6 DEF S, layers

(* and a choice among units has the units it names, one at a time. *)
LEMMA FiniteUnitShape ==
    ASSUME NEW scope, NEW t \in Tables, NEW named \in Seq(STRING), NEW p,
           p = FiniteUnitProfile(scope, t, named), named # << >>
    PROVE  /\ ProfileShape(p) /\ p.scope = scope /\ p.max = 1
           /\ CandidateSet(p) \subseteq {EntityRef("unit", id) : id \in ToSet(named)}
<1> DEFINE shown == Filtered(named, {t[i].id : i \in DOMAIN t})
           refs == [i \in DOMAIN shown |-> EntityRef("unit", shown[i])]
           layers == <<"unit">>
<1>1. layers \in Seq(Layers) BY DEF Layers
<1>2. shown \in Seq(STRING) /\ ToSet(shown) \subseteq ToSet(named)
  <2> DEFINE S == {t[i].id : i \in DOMAIN t}
  <2> HIDE DEF S
  <2>1. Filtered(named, S) \in Seq(STRING) /\ ToSet(Filtered(named, S)) = ToSet(named) \cap S
    BY FilteredProperties
  <2> QED BY <2>1 DEF S
<1> HIDE DEF shown
<1>3. refs \in Seq(Ref)
  <2>1. DOMAIN shown = 1 .. Len(shown) /\ Len(shown) \in Nat BY <1>2
  <2>2. \A i \in 1 .. Len(shown) : EntityRef("unit", shown[i]) \in Ref
    BY <1>2 DEF EntityRef, Ref, Layers
  <2> QED BY <2>1, <2>2, IsASeq
<1>4. ToSet(refs) \subseteq {EntityRef("unit", id) : id \in ToSet(named)}
    BY <1>2 DEF ToSet
<1>5. p = ProfileFor(scope, <<"unit">>, refs, t, 1, FALSE)
    BY DEF FiniteUnitProfile, shown
<1> HIDE DEF refs, layers
<1>6. /\ p.layers = layers /\ p.candidates = refs /\ p.max = 1 /\ p.scope = scope
      /\ p.layer = IF LayersOf(layers, refs) = << >> THEN Nothing ELSE LayersOf(layers, refs)[1]
    BY <1>5 DEF ProfileFor, layers
<1>7. ProfileShape(p) BY <1>1, <1>3, <1>6, ProfileForShape
<1> QED BY <1>4, <1>6, <1>7 DEF CandidateSet
=============================================================================
