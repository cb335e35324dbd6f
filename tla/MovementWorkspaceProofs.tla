------------------------ MODULE MovementWorkspaceProofs ------------------------
(***************************************************************************)
(* Theorems of MovementWorkspace, for every unit, number of models, set of *)
(* displacements and bound: the types, the selection among them; that the  *)
(* draft implements ReviewedDraft, and what follows from that; and that    *)
(* its groups are those of its paths.                                      *)
(*                                                                         *)
(* Only the types depend on what the selection is (SelectionLemmas): for   *)
(* the drafted paths it is enough that, whatever the selection holds, the  *)
(* models it moves are models of the unit (ActiveIsMine).                  *)
(***************************************************************************)
EXTENDS MovementWorkspace, SelectionLemmas, TLAPS

(* The part of TypeOK that is about the drafted paths *)
DraftTypeOK ==
    /\ path \in Paths
    /\ group \in [Mine -> Nat]
    /\ nextGroup \in Nat \ {0}
    /\ preview \in Moves \cup {Nothing}
    /\ ready \in Paths \cup {Nothing}

(* A ready payload is the drafted paths, and nothing is previewed beside it *)
ReadyIsDrafted == ready # Nothing => ready = path /\ preview = Nothing

IInv == DraftTypeOK /\ ReadyIsDrafted /\ GroupsAreOfPaths

-----------------------------------------------------------------------------

LEMMA ActiveIsMine == Active \subseteq Mine
  BY DEF Active, ActiveOf

LEMMA MineIsFinite == IsFiniteSet(Mine)
<1> DEFINE n == Len(Mover.models)
<1> DEFINE f == [i \in 1 .. n |-> Mover.models[i]]
<1>1. Mover.models \in Seq(STRING)
  BY MoverAssumption
<1>2. n \in Nat /\ DOMAIN Mover.models = 1 .. n
  BY <1>1
<1>3. IsFiniteSet(1 .. n)
  <2>1. 1 \in Int /\ n \in Int
    BY <1>2
  <2> HIDE DEF n
  <2> QED
    BY <2>1, FS_Interval
<1>4. f \in Surjection(1 .. n, Mine)
  BY <1>2 DEF Mine, ToSet, Surjection
<1> QED
  BY <1>3, <1>4, FS_Surjection

(* A group of one number is that number; a new one is the next *)
LEMMA GroupForNumbers ==
  ASSUME NEW active \in SUBSET Mine, DraftTypeOK, GroupsAreOfPaths
  PROVE  /\ GroupFor(active).next \in Nat /\ GroupFor(active).next >= nextGroup
         /\ GroupFor(active).id \in Nat \ {0} /\ GroupFor(active).id < GroupFor(active).next
<1> DEFINE used == {group[m] : m \in active}
<1>1. used \subseteq Nat /\ \A g \in used : g < nextGroup
  BY DEF DraftTypeOK, GroupsAreOfPaths
<1>2. CASE Cardinality(used) = 1 /\ used # {0}
  <2>1. used # {}
    BY <1>2, FS_EmptySet
  <2>2. PICK g \in used : g = CHOOSE h \in used : TRUE
    BY <2>1
  <2>3. used = {g}
    <3>1. IsFiniteSet(used)
      <4> DEFINE f == [m \in active |-> group[m]]
      <4>1. f \in Surjection(active, used)
        BY DEF Surjection
      <4>2. IsFiniteSet(active)
        BY MineIsFinite, FS_Subset
      <4> QED
        BY <4>1, <4>2, FS_Surjection
    <3> QED
      BY <1>2, <2>2, <3>1, FS_Singleton
  <2>4. g \in Nat \ {0} /\ g < nextGroup
    BY <1>1, <1>2, <2>2, <2>3
  <2>5. GroupFor(active) = [id |-> g, next |-> nextGroup]
    BY <1>2, <2>2 DEF GroupFor
  <2> QED
    BY <2>4, <2>5 DEF DraftTypeOK
<1>3. CASE ~(Cardinality(used) = 1 /\ used # {0})
  <2>1. GroupFor(active) = [id |-> nextGroup, next |-> nextGroup + 1]
    BY <1>3 DEF GroupFor
  <2> QED
    BY <2>1 DEF DraftTypeOK
<1> QED
  BY <1>2, <1>3

(* Paths stay paths under each of the three ways to change them *)
LEMMA ExtendedIsPaths ==
  ASSUME path \in Paths, NEW d \in Moves
  PROVE  Extended(d) \in Paths
  BY DEF Extended, Paths

LEMMA ShortenedIsPath ==
  ASSUME NEW p \in Seq(Moves)
  PROVE  /\ Shortened(p) \in Seq(Moves)
         /\ Shortened(p) = << >> <=> Len(p) <= 1
<1>1. CASE p = << >>
  BY <1>1 DEF Shortened
<1>2. CASE p # << >>
  <2>1. Len(p) \in Nat /\ Len(p) >= 1
    BY <1>2
  <2>2. Shortened(p) = SubSeq(p, 1, Len(p) - 1)
    BY <1>2 DEF Shortened
  <2>3. SubSeq(p, 1, Len(p) - 1) \in Seq(Moves) /\ Len(SubSeq(p, 1, Len(p) - 1)) = Len(p) - 1
    BY <2>1
  <2>4. SubSeq(p, 1, Len(p) - 1) = << >> <=> Len(p) - 1 = 0
    BY <2>3, EmptySeq
  <2> QED
    BY <2>1, <2>2, <2>3, <2>4
<1> QED
  BY <1>1, <1>2

LEMMA PreviewedIsPaths ==
  ASSUME DraftTypeOK
  PROVE  Previewed \in Paths
  BY DEF Previewed, DraftTypeOK, Paths

(* What add_waypoint does to the numbers of the groups *)
LEMMA RegroupedNumbers ==
  ASSUME DraftTypeOK, GroupsAreOfPaths,
         NEW next, next = IF Active = {} THEN nextGroup ELSE GroupFor(Active).next
  PROVE  /\ Regrouped \in [Mine -> Nat]
         /\ next \in Nat \ {0}
         /\ \A m \in Mine : Regrouped[m] < next
         /\ \A m \in Mine : Regrouped[m] = 0 <=> m \notin Active /\ path[m] = << >>
<1> DEFINE G == GroupFor(Active)
<1>1. G.next \in Nat /\ G.next >= nextGroup /\ G.id \in Nat \ {0} /\ G.id < G.next
  BY ActiveIsMine, GroupForNumbers
<1> HIDE DEF G
<1>2. Regrouped = [m \in Mine |-> IF m \in Active THEN G.id ELSE group[m]]
  BY DEF Regrouped, G
<1>3. next = IF Active = {} THEN nextGroup ELSE G.next
  BY DEF G
<1>4. \A m \in Mine : group[m] \in Nat /\ group[m] < nextGroup /\ (group[m] = 0 <=> path[m] = << >>)
  BY DEF DraftTypeOK, GroupsAreOfPaths
<1>5. nextGroup \in Nat \ {0}
  BY DEF DraftTypeOK
<1> QED
  BY <1>1, <1>2, <1>3, <1>4, <1>5

-----------------------------------------------------------------------------

LEMMA InitInv == Init => IInv
<1> SUFFICES ASSUME Init PROVE IInv
  OBVIOUS
<1>1. DraftTypeOK
  BY DEF Init, DraftTypeOK, Paths
<1>2. ReadyIsDrafted
  BY DEF Init, ReadyIsDrafted
<1>3. GroupsAreOfPaths
  BY DEF Init, GroupsAreOfPaths
<1> QED
  BY <1>1, <1>2, <1>3 DEF IInv

(* Every click and key about the selection does this to the draft *)
SelectionStep ==
    /\ preview' = Nothing
    /\ ready' = Nothing
    /\ UNCHANGED <<path, group, nextGroup>>

LEMMA SelectionSteps ==
  ASSUME \/ \E m \in Mine : ClickReplace(m) \/ ClickAdd(m) \/ ClickSubtract(m)
         \/ KeyAdd \/ KeySubtract \/ KeyToggle \/ KeyFocus \/ KeyLayer \/ KeyGroup
         \/ CancelSelection
         \/ Rejected
  PROVE  SelectionStep
  BY DEF SelectionStep, Selected, ClickReplace, ClickAdd, ClickSubtract, KeyAdd, KeySubtract,
         KeyToggle, KeyFocus, KeyLayer, KeyGroup, CancelSelection, Rejected

(* Extending the paths and numbering them again, as a click and Enter do *)
LEMMA ExtendingStep ==
  ASSUME IInv, NEW d \in Moves,
         path' = Extended(d), group' = Regrouped,
         nextGroup' = IF Active = {} THEN nextGroup ELSE GroupFor(Active).next,
         preview' = Nothing, ready' \in {Nothing, path'}
  PROVE  IInv'
<1>1. path' \in Paths
  BY ExtendedIsPaths DEF IInv, DraftTypeOK
<1>2. /\ group' \in [Mine -> Nat]
      /\ nextGroup' \in Nat \ {0}
      /\ \A m \in Mine : group'[m] < nextGroup'
      /\ \A m \in Mine : group'[m] = 0 <=> m \notin Active /\ path[m] = << >>
  BY RegroupedNumbers DEF IInv
<1>3. \A m \in Mine : path'[m] = << >> <=> m \notin Active /\ path[m] = << >>
  <2> SUFFICES ASSUME NEW m \in Mine
               PROVE  path'[m] = << >> <=> m \notin Active /\ path[m] = << >>
    OBVIOUS
  <2>1. path[m] \in Seq(Moves)
    BY DEF IInv, DraftTypeOK, Paths
  <2>2. Append(path[m], d) # << >>
    BY <2>1
  <2> QED
    BY <2>2 DEF Extended
<1>4. DraftTypeOK'
  BY <1>1, <1>2 DEF DraftTypeOK
<1>5. ReadyIsDrafted'
  BY DEF ReadyIsDrafted
<1>6. GroupsAreOfPaths'
  BY <1>2, <1>3 DEF GroupsAreOfPaths
<1> QED
  BY <1>4, <1>5, <1>6 DEF IInv

LEMMA NextInv == IInv /\ [Next]_vars => IInv'
<1> SUFFICES ASSUME IInv, [Next]_vars PROVE IInv'
  OBVIOUS
<1>1. ASSUME SelectionStep PROVE IInv'
  BY <1>1 DEF SelectionStep, IInv, DraftTypeOK, ReadyIsDrafted, GroupsAreOfPaths
<1>2. ASSUME NEW d \in Moves, Hover(d) PROVE IInv'
  BY <1>2 DEF Hover, IInv, DraftTypeOK, ReadyIsDrafted, GroupsAreOfPaths
<1>3. ASSUME NEW d \in Moves, AddWaypoint(d) PROVE IInv'
  BY <1>3, ExtendingStep DEF AddWaypoint
<1>4. CASE RemoveWaypoint
  <2>1. \A m \in Mine : /\ path[m] \in Seq(Moves)
                        /\ group[m] \in Nat /\ group[m] < nextGroup
                        /\ group[m] = 0 <=> path[m] = << >>
    BY DEF IInv, DraftTypeOK, Paths, GroupsAreOfPaths
  <2>2. \A m \in Mine : /\ path'[m] = IF m \in Active THEN Shortened(path[m]) ELSE path[m]
                        /\ group'[m] = IF m \in Active /\ Len(path[m]) <= 1 THEN 0 ELSE group[m]
    BY <1>4 DEF RemoveWaypoint
  <2>3. path' \in Paths
    BY <1>4, <2>1, ShortenedIsPath DEF RemoveWaypoint, Paths
  <2>4. group' \in [Mine -> Nat]
    BY <1>4, <2>1 DEF RemoveWaypoint
  <2>5. nextGroup' = nextGroup /\ nextGroup \in Nat \ {0} /\ preview' = Nothing /\ ready' = Nothing
    BY <1>4 DEF RemoveWaypoint, IInv, DraftTypeOK
  <2>6. GroupsAreOfPaths'
    <3> SUFFICES ASSUME NEW m \in Mine
                 PROVE  (group'[m] = 0 <=> path'[m] = << >>) /\ group'[m] < nextGroup'
      BY DEF GroupsAreOfPaths
    <3>1. Shortened(path[m]) = << >> <=> Len(path[m]) <= 1
      BY <2>1, ShortenedIsPath
    <3>2. path[m] = << >> => Len(path[m]) <= 1
      OBVIOUS
    <3> QED
      BY <2>1, <2>2, <2>5, <3>1, <3>2
  <2> QED
    BY <2>3, <2>4, <2>5, <2>6 DEF IInv, DraftTypeOK, ReadyIsDrafted
<1>5. CASE MarkReady
  <2>1. CASE preview # Nothing
    <3>1. preview \in Moves
      BY <2>1 DEF IInv, DraftTypeOK
    <3>2. /\ path' = Extended(preview) /\ group' = Regrouped
          /\ nextGroup' = IF Active = {} THEN nextGroup ELSE GroupFor(Active).next
          /\ preview' = Nothing /\ ready' \in {Nothing, path'}
      BY <1>5, <2>1 DEF MarkReady
    <3> QED
      BY <3>1, <3>2, ExtendingStep
  <2>2. CASE preview = Nothing
    <3>1. UNCHANGED <<path, group, nextGroup>> /\ preview' = Nothing /\ ready' \in {Nothing, path'}
      BY <1>5, <2>2 DEF MarkReady
    <3> QED
      BY <3>1 DEF IInv, DraftTypeOK, ReadyIsDrafted, GroupsAreOfPaths
  <2> QED
    BY <2>1, <2>2
<1>6. CASE UNCHANGED vars
  BY <1>6 DEF vars, IInv, DraftTypeOK, ReadyIsDrafted, GroupsAreOfPaths
<1> QED
  BY <1>1, <1>2, <1>3, <1>4, <1>5, <1>6, SelectionSteps DEF Next

-----------------------------------------------------------------------------

(* What is selected are refs of the unit, of its profile *)
SelectionInv == Fits(Profile, sel) /\ sel.layer \in ToSet(AvailableLayers(Profile))

LEMMA ProfileIsOfUnit ==
    /\ ProfileShape(Profile) /\ CandidateSet(Profile) = ToSet(RefsOf(Mover))
    /\ UnitRef \in CandidateSet(Profile)
    /\ ToSet(AvailableLayers(Profile)) \subseteq Layers
    /\ ToSet(AvailableLayers(Profile)) # {}
<1>1. Mover \in UnitRow BY MoverAssumption DEF UnitRow
<1>2. <<Mover>> \in Tables /\ ToSet(<<Mover>>) = {Mover} BY <1>1 DEF Tables, ToSet
<1> DEFINE t == <<Mover>>
<1> HIDE DEF t
<1>3. /\ ProfileShape(Profile)
      /\ CandidateSet(Profile) = UNION {ToSet(RefsOf(u)) : u \in {x \in ToSet(t) : x.id = Mover.id}}
      /\ Profile.layers = <<"model", "unit">>
  <2>1. t \in Tables BY <1>2 DEF t
  <2>2. Profile = MovementProfile(1, t, Mover.id) BY DEF Profile, t
  <2> QED BY <2>1, <2>2, MovementShape
<1>4. {x \in ToSet(t) : x.id = Mover.id} = {Mover} BY <1>2 DEF t
<1>5. CandidateSet(Profile) = ToSet(RefsOf(Mover)) BY <1>3, <1>4
<1>6. UnitRef \in CandidateSet(Profile) BY <1>1, <1>5, RefsOfAre DEF UnitRef
<1>7. /\ ToSet(AvailableLayers(Profile))
            = {l \in ToSet(Profile.layers) : OfKind(Profile.candidates, l) # {}}
      /\ ToSet(Profile.layers) \subseteq Layers
  <2>1. Profile.layers \in Seq(Layers) BY <1>3 DEF ProfileShape
  <2>2. ToSet(Profile.layers) \subseteq Layers BY <2>1 DEF ToSet
  <2> QED BY <2>1, <2>2, AvailableIs DEF AvailableLayers
<1>8. "unit" \in ToSet(Profile.layers) BY <1>3 DEF ToSet
<1>9. UnitRef \in OfKind(Profile.candidates, "unit")
    BY <1>6 DEF OfKind, CandidateSet, UnitRef, EntityRef
<1> QED BY <1>3, <1>5, <1>6, <1>7, <1>8, <1>9

LEMMA SelectionStart == Init => SelectionInv
<1> SUFFICES ASSUME Init PROVE SelectionInv
  OBVIOUS
<1> DEFINE first == InitialSelection(Profile)
<1>1. Fits(Profile, first) /\ first.layer = Profile.layer
    BY ProfileIsOfUnit, InitialFits DEF InitialSelection
<1>2. Profile.layer \in ToSet(AvailableLayers(Profile)) BY ProfileIsOfUnit, ProfileLayerIs
<1>3. PICK seed : sel = ReplaceSelection(Profile, first, seed) BY DEF Init
<1> HIDE DEF first
<1>4. Fits(Profile, sel) BY <1>1, <1>3, ProfileIsOfUnit, EditsFit
<1>5. sel.layer = first.layer BY <1>1, <1>3, ProfileIsOfUnit, LayersStay
<1> QED BY <1>1, <1>2, <1>4, <1>5 DEF SelectionInv

LEMMA SelectionSteady ==
    ASSUME SelectionInv, [Next]_vars
    PROVE  SelectionInv'
<1>0. ProfileShape(Profile) /\ Fits(Profile, sel) BY ProfileIsOfUnit DEF SelectionInv
<1>1. ASSUME NEW s, sel' = s, Fits(Profile, s), s.layer \in ToSet(AvailableLayers(Profile)) \cup {sel.layer}
      PROVE  SelectionInv'
    BY <1>1 DEF SelectionInv
<1>2. ASSUME NEW ref, \/ sel' = ReplaceSelection(Profile, sel, ref)
                      \/ sel' = AddSelection(Profile, sel, ref)
                      \/ sel' = SubtractSelection(Profile, sel, ref)
                      \/ sel' = ToggleSelection(Profile, sel, ref)
      PROVE  SelectionInv'
  <2>1. /\ Fits(Profile, ReplaceSelection(Profile, sel, ref))
        /\ Fits(Profile, AddSelection(Profile, sel, ref))
        /\ Fits(Profile, SubtractSelection(Profile, sel, ref))
        /\ Fits(Profile, ToggleSelection(Profile, sel, ref))
    BY <1>0, EditsFit
  <2>2. Fits(Profile, sel') /\ sel'.layer = sel.layer BY <1>0, <1>2, <2>1, LayersStay
  <2> QED BY <1>1, <2>2
<1>3. ASSUME NEW m \in Mine, ClickReplace(m) \/ ClickAdd(m) \/ ClickSubtract(m)
      PROVE  SelectionInv'
    BY <1>2, <1>3 DEF ClickReplace, ClickAdd, ClickSubtract, Selected
<1>4. CASE KeyAdd \/ KeySubtract \/ KeyToggle
    BY <1>2, <1>4 DEF KeyAdd, KeySubtract, KeyToggle, Selected
<1>5. CASE KeyFocus BY <1>0, <1>1, <1>5, CycleFocusFits, LayersStay DEF KeyFocus, Selected
<1>6. CASE KeyLayer BY <1>0, <1>1, <1>6, CycleLayerFits, LayersStay DEF KeyLayer, Selected
<1>7. CASE KeyGroup BY <1>0, <1>1, <1>7, GroupFits, LayersStay DEF KeyGroup, Selected
<1>8. CASE CancelSelection
    BY <1>0, <1>1, <1>8, ClearFits, LayersStay DEF CancelSelection, Selected
<1>9. ASSUME UNCHANGED sel PROVE SelectionInv' BY <1>9 DEF SelectionInv
<1>10. ASSUME \/ \E d \in Moves : Hover(d) \/ AddWaypoint(d)
              \/ RemoveWaypoint \/ MarkReady \/ Rejected \/ UNCHANGED vars
       PROVE  UNCHANGED sel
    BY <1>10 DEF Hover, AddWaypoint, RemoveWaypoint, MarkReady, Rejected, vars
<1> QED BY <1>3, <1>4, <1>5, <1>6, <1>7, <1>8, <1>9, <1>10 DEF Next

-----------------------------------------------------------------------------

(* Every click and key leaves refs of the unit selected in a layer that has *)
(* candidates, beside paths and groups of its models (_with_selected_refs,  *)
(* cycle_active_layer, with_translated_waypoint).                           *)
THEOREM WorkspaceTypes == Spec => []TypeOK
<1>1. IInv /\ SelectionInv => TypeOK
  BY ProfileIsOfUnit DEF IInv, DraftTypeOK, SelectionInv, Fits, SelectionState, TypeOK
<1> QED
  BY <1>1, InitInv, NextInv, SelectionStart, SelectionSteady, PTL DEF Spec

(* Groups and drafted paths agree, whatever the unit, the displacements and *)
(* the order of clicks and keys (_assignment_group_for_active_selection,    *)
(* remove_last_waypoint).                                                   *)
THEOREM GroupsFollowPaths == Spec => []GroupsAreOfPaths
<1>1. IInv => GroupsAreOfPaths
  BY DEF IInv
<1> QED
  BY <1>1, InitInv, NextInv, PTL DEF Spec

(* Initial states map to initial states, and every step to an edit, a       *)
(* review or a stutter: what is submitted is what was drawn when Enter was  *)
(* pressed (with_preview_waypoint, with_translated_waypoint, mark_ready).   *)
THEOREM DraftImplementsReview == Spec => ImplementsReview
<1>1. Init => Draft!Init
  <2> SUFFICES ASSUME Init PROVE Draft!Init
    OBVIOUS
  <2> QED
    BY InitInv, PreviewedIsPaths DEF IInv, Init, Draft!Init
<1>2. IInv /\ IInv' /\ [Next]_vars => [Draft!Next]_(Draft!vars)
  <2> SUFFICES ASSUME IInv, IInv', [Next]_vars PROVE [Draft!Next]_(Draft!vars)
    OBVIOUS
  <2>1. Previewed' \in Paths
    BY DEF IInv, Previewed, DraftTypeOK, Paths
  <2>2. ASSUME ready' = Nothing PROVE Draft!Edit
    BY <2>1, <2>2 DEF Draft!Edit
  <2>3. ASSUME NEW d \in Moves, Hover(d) PROVE [Draft!Next]_(Draft!vars)
    <3>1. CASE ready = Nothing
      BY <2>2, <2>3, <3>1 DEF Hover, Draft!Next
    <3>2. CASE ready # Nothing
      BY <2>3, <3>2 DEF Hover, Draft!vars, Previewed, Active, ActiveOf
    <3> QED
      BY <3>1, <3>2
  <2>4. CASE MarkReady /\ ready' # Nothing
    <3>1. ready' = path' /\ preview' = Nothing
      BY <2>4 DEF IInv, ReadyIsDrafted
    <3>2. path \in Paths /\ path' \in Paths
      BY DEF IInv, DraftTypeOK
    <3>3. Previewed' = path'
      BY <3>1, <3>2 DEF Previewed, Paths
    <3>4. path' = Previewed
      BY <2>4, <3>2 DEF MarkReady, Previewed, Extended, Paths
    <3> QED
      BY <3>1, <3>3, <3>4 DEF Draft!Review, Draft!Next
  <2>5. CASE UNCHANGED vars
    BY <2>5 DEF vars, Draft!vars, Previewed, Active, ActiveOf
  <2>6. ASSUME SelectionStep \/ RemoveWaypoint \/ \E d \in Moves : AddWaypoint(d)
        PROVE  ready' = Nothing
    BY <2>6 DEF SelectionStep, RemoveWaypoint, AddWaypoint
  <2> QED
    BY <2>2, <2>3, <2>4, <2>5, <2>6, SelectionSteps DEF Next, Draft!Next
<1> QED
  BY <1>1, <1>2, InitInv, NextInv, PTL DEF Spec, ImplementsReview, Draft!Spec

(* Of every draft that implements ReviewedDraft: whatever is ready to be    *)
(* submitted is on the screen (mark_ready, to_payload).                     *)
THEOREM ReviewIsShown == Draft!Spec => []Draft!ReviewedIsShown
<1>1. Draft!Init => Draft!ReviewedIsShown
  BY DEF Draft!Init, Draft!ReviewedIsShown
<1>2. Draft!ReviewedIsShown /\ [Draft!Next]_(Draft!vars) => Draft!ReviewedIsShown'
  BY DEF Draft!ReviewedIsShown, Draft!Next, Draft!Edit, Draft!Review, Draft!vars
<1> QED
  BY <1>1, <1>2, PTL DEF Draft!Spec

(* Through any sequence of clicks, keys, cancels and rejections a payload   *)
(* that is ready to be sent is the picture on the screen.                   *)
THEOREM SubmittedIsShown == Spec => []Draft!ReviewedIsShown
<1> QED
  BY DraftImplementsReview, ReviewIsShown, PTL DEF ImplementsReview
=============================================================================
