------------------------ MODULE PlacementWorkspaceProofs ------------------------
(***************************************************************************)
(* Theorems of PlacementWorkspace, for all requests and views: the draft   *)
(* implements ReviewedDraft, and its payload places the models of the      *)
(* request, each once.                                                     *)
(*                                                                         *)
(* A draft is only ever one that start_for_pending would yield, and while  *)
(* a payload is ready it is that of the poses: with what the lists of the  *)
(* request and of the views are made of, this is all the proofs need.      *)
(***************************************************************************)
EXTENDS PlacementWorkspace, ListLemmas

(* A ready payload is of the poses, and every model has one *)
ReadyIsOfPoses == ready # Nothing => Unplaced(spot) = << >> /\ ready = ToPayload

IInv == TypeOK /\ Startable(request, view) /\ ReadyIsOfPoses

-----------------------------------------------------------------------------

(* start_for_pending yields only drafts of some models, none of them twice. *)
LEMMA IdsAreModels ==
  ASSUME NEW q \in Requests, NEW v \in Views, Startable(q, v)
  PROVE  ModelIds(q, v) \in Seq(Models) /\ ModelIds(q, v) # << >> /\ IsInjective(ModelIds(q, v))
<1>1. q.models \in Seq(Models) /\ q.unit \in Units
  BY RequestsAssumption DEF RequestShape
<1>2. v.shown[q.unit] \in Seq(Models)
  BY <1>1, ViewsAssumption DEF ViewShape
<1>3. WholeReturn(q) => v.display.models \in Seq(Models)
  BY ViewsAssumption DEF ViewShape, Startable, WholeUnitAgrees, Displayed
<1> QED
  BY <1>1, <1>2, <1>3 DEF ModelIds, Startable, DraftAgrees

(* The models to place, each once. *)
LEMMA IdsAre ==
  ASSUME TypeOK, Startable(request, view)
  PROVE  Ids \in Seq(Models) /\ Ids # << >> /\ IsInjective(Ids)
  BY IdsAreModels DEF Ids, TypeOK

(* Those without a pose. *)
LEMMA UnplacedIs ==
  ASSUME TypeOK, Startable(request, view), NEW spots
  PROVE  /\ Unplaced(spots) \in Seq(Models)
         /\ ToSet(Unplaced(spots)) = {m \in ToSet(Ids) : spots[m] = Nothing}
<1>1. Ids \in Seq(Models)
  BY IdsAre
<1> DEFINE S == {m \in ToSet(Ids) : spots[m] = Nothing}
<1>2. ToSet(Filtered(Ids, S)) = ToSet(Ids) \cap S /\ Filtered(Ids, S) \in Seq(Models)
  BY <1>1, FilteredProperties
<1> QED
  BY <1>2 DEF Unplaced

(* The empty list is the one without elements. *)
LEMMA EmptyHasNone ==
  ASSUME NEW T, NEW s \in Seq(T)
  PROVE  s = << >> <=> ToSet(s) = {}
<1>1. s = << >> => ToSet(s) = {}
  BY DEF ToSet
<1>2. s # << >> => s[1] \in ToSet(s)
  BY DEF ToSet
<1> QED
  BY <1>1, <1>2

(* The next model to place is one of the draft. *)
LEMMA NextIsOfDraft ==
  ASSUME TypeOK, Startable(request, view), NEW spots
  PROVE  NextUnplaced(spots) \in ToSet(Ids)
<1>1. CASE Unplaced(spots) = << >>
  BY <1>1 DEF NextUnplaced, TypeOK
<1>2. CASE Unplaced(spots) # << >>
  <2>1. PICK u : u = Unplaced(spots)
    OBVIOUS
  <2>2. u \in Seq(Models) /\ u # << >> /\ ToSet(u) \subseteq ToSet(Ids)
    BY <1>2, <2>1, UnplacedIs
  <2>3. u[1] \in ToSet(u)
    BY <2>2 DEF ToSet
  <2> QED
    BY <1>2, <2>1, <2>2, <2>3 DEF NextUnplaced
<1> QED
  BY <1>1, <1>2

-----------------------------------------------------------------------------
(* The rows of a payload.                                                   *)

(* All rows there can be *)
Rows == {ModelRow(m) : m \in Models}

RowsOf(ids) == [i \in DOMAIN ids |-> ModelRow(ids[i])]

(* The rows of a payload are those of the models, each once. *)
LEMMA RowsAre ==
  ASSUME NEW ids \in Seq(Models), IsInjective(ids)
  PROVE  /\ RowsOf(ids) \in Seq(Rows)
         /\ ToSet(RowsOf(ids)) = {ModelRow(m) : m \in ToSet(ids)}
         /\ IsInjective(RowsOf(ids))
         /\ Len(RowsOf(ids)) = Len(ids)
<1>1. DOMAIN ids = 1 .. Len(ids) /\ Len(ids) \in Nat /\ \A i \in 1 .. Len(ids) : ids[i] \in Models
  OBVIOUS
<1>2. \A m \in Models : ModelRow(m) \in Rows
  BY DEF Rows
<1>3. RowsOf(ids) \in [1 .. Len(ids) -> Rows]
  BY <1>1, <1>2 DEF RowsOf
<1>4. RowsOf(ids) \in Seq(Rows) /\ Len(RowsOf(ids)) = Len(ids)
  BY <1>1, <1>3, IsASeq, LenProperties
<1>5. ToSet(RowsOf(ids)) = {ModelRow(m) : m \in ToSet(ids)}
  BY DEF RowsOf, ToSet
<1>6. \A m, n \in Models : ModelRow(m) = ModelRow(n) => m = n
  <2> SUFFICES ASSUME NEW m \in Models, NEW n \in Models, ModelRow(m) = ModelRow(n) PROVE m = n
    OBVIOUS
  <2>1. ModelRow(m).model = m /\ ModelRow(n).model = n
    BY DEF ModelRow
  <2> QED
    BY <2>1
<1>7. IsInjective(RowsOf(ids))
  <2> SUFFICES ASSUME NEW a \in DOMAIN ids, NEW b \in DOMAIN ids, ModelRow(ids[a]) = ModelRow(ids[b])
               PROVE  a = b
    BY DEF RowsOf, IsInjective
  <2>1. ids[a] = ids[b]
    BY <1>1, <1>6
  <2> QED
    BY <2>1 DEF IsInjective
<1> QED
  BY <1>4, <1>5, <1>7

(* The lists of rows of the ready payload *)
Lots(payload) == [r \in DOMAIN payload |-> payload[r].models]

Grouping == request.kind = "placement" /\ Grouped(request)

Of(unit) == Filtered(Ids, {m \in ToSet(Ids) : UnitOf(request, view, m) = unit})

(* The models of a unit, each once. *)
LEMMA OfUnitAre ==
  ASSUME TypeOK, Startable(request, view), NEW unit
  PROVE  /\ Of(unit) \in Seq(Models) /\ IsInjective(Of(unit))
         /\ ToSet(Of(unit)) = {m \in ToSet(Ids) : UnitOf(request, view, m) = unit}
<1>1. Ids \in Seq(Models) /\ IsInjective(Ids)
  BY IdsAre
<1> DEFINE S == {m \in ToSet(Ids) : UnitOf(request, view, m) = unit}
<1>2. ToSet(Filtered(Ids, S)) = ToSet(Ids) \cap S /\ Filtered(Ids, S) \in Seq(Models)
  BY <1>1, FilteredProperties
<1>3. IsInjective(Filtered(Ids, S))
  BY <1>1, FilteredDistinct
<1> QED
  BY <1>2, <1>3 DEF Of

(* One lot for each component, with its models *)
LEMMA LotsOfComponents ==
  ASSUME TypeOK, Startable(request, view), Grouping
  PROVE  /\ ToPayload = [c \in DOMAIN request.components |->
                            [unit |-> request.components[c], models |-> RowsOf(Of(request.components[c]))]]
         /\ Lots(ToPayload) = [c \in DOMAIN request.components |-> RowsOf(Of(request.components[c]))]
         /\ Apart(Lots(ToPayload), Rows)
         /\ UNION {ToSet(Lots(ToPayload)[c]) : c \in DOMAIN Lots(ToPayload)}
              = {ModelRow(m) : m \in ToSet(Ids)}
<1> DEFINE cs == request.components
           lot(c) == RowsOf(Of(cs[c]))
           lots == [c \in DOMAIN cs |-> lot(c)]
<1>1. cs \in Seq(Units) /\ DOMAIN cs = 1 .. Len(cs) /\ Len(cs) \in Nat
  BY RequestsAssumption DEF TypeOK, RequestShape
<1>2. IsInjective(cs) /\ {UnitOf(request, view, m) : m \in ToSet(Ids)} = ToSet(cs)
  BY DEF Startable, DraftAgrees, Grouping, Ids
<1>3. ToPayload = [c \in DOMAIN cs |-> [unit |-> cs[c], models |-> lot(c)]]
  BY DEF ToPayload, Grouping, RowOf, RowsOf, Of
<1>4. Lots(ToPayload) = lots
  BY <1>3 DEF Lots
<1>5. ASSUME NEW c \in DOMAIN cs
      PROVE  /\ lot(c) \in Seq(Rows) /\ IsInjective(lot(c))
             /\ ToSet(lot(c)) = {ModelRow(m) : m \in {n \in ToSet(Ids) : UnitOf(request, view, n) = cs[c]}}
  <2>1. Of(cs[c]) \in Seq(Models) /\ IsInjective(Of(cs[c]))
        /\ ToSet(Of(cs[c])) = {n \in ToSet(Ids) : UnitOf(request, view, n) = cs[c]}
    BY OfUnitAre
  <2> QED
    BY <2>1, RowsAre
<1> HIDE DEF lot
<1>6. lots \in Seq(Seq(Rows)) /\ DOMAIN lots = DOMAIN cs /\ Len(lots) = Len(cs)
  BY <1>1, <1>5, IsASeq, LenProperties
<1>7. \A c \in 1 .. Len(lots) : IsInjective(lots[c])
  BY <1>1, <1>5, <1>6
<1>8. \A m, n : ModelRow(m) = ModelRow(n) => m = n
  <2> SUFFICES ASSUME NEW m, NEW n, ModelRow(m) = ModelRow(n) PROVE m = n
    OBVIOUS
  <2>1. ModelRow(m).model = m /\ ModelRow(n).model = n
    BY DEF ModelRow
  <2> QED
    BY <2>1
<1>9. ASSUME NEW c \in 1 .. Len(lots), NEW d \in 1 .. Len(lots), c # d
      PROVE  ToSet(lots[c]) \cap ToSet(lots[d]) = {}
  <2>1. c \in DOMAIN cs /\ d \in DOMAIN cs /\ lots[c] = lot(c) /\ lots[d] = lot(d)
    BY <1>1, <1>6
  <2>2. cs[c] # cs[d]
    BY <1>2, <1>9, <2>1 DEF IsInjective
  <2> SUFFICES ASSUME NEW e \in ToSet(lot(c)), e \in ToSet(lot(d)) PROVE FALSE
    BY <2>1
  <2>3. PICK m \in ToSet(Ids) : UnitOf(request, view, m) = cs[c] /\ e = ModelRow(m)
    BY <1>5, <2>1
  <2>4. PICK n \in ToSet(Ids) : UnitOf(request, view, n) = cs[d] /\ e = ModelRow(n)
    BY <1>5, <2>1
  <2>5. m = n
    BY <1>8, <2>3, <2>4
  <2> QED
    BY <2>2, <2>3, <2>4, <2>5
<1>10. UNION {ToSet(lots[c]) : c \in DOMAIN lots} = {ModelRow(m) : m \in ToSet(Ids)}
  <2>1. ASSUME NEW c \in DOMAIN lots PROVE ToSet(lots[c]) \subseteq {ModelRow(m) : m \in ToSet(Ids)}
    BY <1>5, <1>6
  <2>2. ASSUME NEW m \in ToSet(Ids) PROVE \E c \in DOMAIN lots : ModelRow(m) \in ToSet(lots[c])
    <3>1. PICK c \in DOMAIN cs : cs[c] = UnitOf(request, view, m)
      BY <1>2 DEF ToSet
    <3>2. ModelRow(m) \in ToSet(lot(c))
      BY <1>5, <3>1
    <3> QED
      BY <1>6, <3>2
  <2> HIDE DEF lots
  <2> QED
    BY <2>1, <2>2
<1>11. Apart(lots, Rows)
  <2> HIDE DEF lots
  <2> QED
    BY <1>6, <1>7, <1>9 DEF Apart
<1>12. Lots(ToPayload) = [c \in DOMAIN cs |-> RowsOf(Of(cs[c]))]
  BY <1>4 DEF lot
<1>13. ToPayload = [c \in DOMAIN cs |-> [unit |-> cs[c], models |-> RowsOf(Of(cs[c]))]]
  BY <1>3 DEF lot
<1> HIDE DEF lots
<1>14. /\ Apart(Lots(ToPayload), Rows)
       /\ UNION {ToSet(Lots(ToPayload)[c]) : c \in DOMAIN Lots(ToPayload)}
            = {ModelRow(m) : m \in ToSet(Ids)}
  BY <1>4, <1>10, <1>11
<1> QED
  BY <1>12, <1>13, <1>14

(* One lot of all models *)
LEMMA LotOfUnit ==
  ASSUME TypeOK, Startable(request, view), ~Grouping
  PROVE  /\ ToPayload = <<[unit |-> request.unit, models |-> RowsOf(Ids)]>>
         /\ Lots(ToPayload) = <<RowsOf(Ids)>>
         /\ Apart(Lots(ToPayload), Rows)
         /\ UNION {ToSet(Lots(ToPayload)[c]) : c \in DOMAIN Lots(ToPayload)}
              = {ModelRow(m) : m \in ToSet(Ids)}
<1>1. Ids \in Seq(Models) /\ IsInjective(Ids)
  BY IdsAre
<1>2. ToPayload = <<[unit |-> request.unit, models |-> RowsOf(Ids)]>>
  BY DEF ToPayload, Grouping, RowOf, RowsOf
<1>3. PICK l : l = RowsOf(Ids)
  OBVIOUS
<1>4. l \in Seq(Rows) /\ IsInjective(l) /\ ToSet(l) = {ModelRow(m) : m \in ToSet(Ids)}
  BY <1>1, <1>3, RowsAre
<1>5. PICK p : p = <<[unit |-> request.unit, models |-> l]>>
  OBVIOUS
<1>6. Lots(p) = <<l>>
  BY <1>5 DEF Lots
<1>7. PICK s : s = <<l>>
  OBVIOUS
<1>8. s \in Seq(Seq(Rows)) /\ Len(s) = 1 /\ DOMAIN s = {1} /\ s[1] = l
  BY <1>4, <1>7
<1>9. Apart(s, Rows)
  BY <1>4, <1>8 DEF Apart
<1>10. UNION {ToSet(s[c]) : c \in DOMAIN s} = {ModelRow(m) : m \in ToSet(Ids)}
  <2>1. {ToSet(s[c]) : c \in DOMAIN s} = {ToSet(l)}
    BY <1>8
  <2> QED
    BY <1>4, <2>1
<1> QED
  BY <1>2, <1>3, <1>5, <1>6, <1>7, <1>9, <1>10

(* The rows of a ready payload are those of the models, each once. *)
LEMMA PlacementsAre ==
  ASSUME TypeOK, Startable(request, view), ready = ToPayload
  PROVE  /\ ToSet(Placements) = {ModelRow(m) : m \in ToSet(Ids)}
         /\ Len(Placements) = Len(Ids)
<1>1. PICK s : s = Lots(ToPayload)
  OBVIOUS
<1>2. Apart(s, Rows) /\ UNION {ToSet(s[c]) : c \in DOMAIN s} = {ModelRow(m) : m \in ToSet(Ids)}
  BY <1>1, LotsOfComponents, LotOfUnit
<1>3. Placements = FlattenSeq(s)
  BY <1>1 DEF Placements, Lots
<1>4. s \in Seq(Seq(Rows))
  BY <1>2 DEF Apart
<1>5. FlattenSeq(s) \in Seq(Rows) /\ ToSet(FlattenSeq(s)) = {ModelRow(m) : m \in ToSet(Ids)}
  BY <1>2, <1>4, FlattenKeeps
<1>6. IsInjective(FlattenSeq(s))
  BY <1>2, FlattenDistinct
<1>7. Ids \in Seq(Models) /\ IsInjective(Ids)
  BY IdsAre
<1>8. PICK l : l = RowsOf(Ids)
  OBVIOUS
<1>9. l \in Seq(Rows) /\ ToSet(l) = ToSet(FlattenSeq(s)) /\ IsInjective(l) /\ Len(l) = Len(Ids)
  BY <1>5, <1>7, <1>8, RowsAre
<1>10. Cardinality(ToSet(l)) = Len(l)
  BY <1>9, DistinctLength
<1>11. PICK f : f = FlattenSeq(s)
  OBVIOUS
<1>12. Cardinality(ToSet(f)) = Len(f)
  BY <1>5, <1>6, <1>11, DistinctLength
<1> QED
  BY <1>3, <1>5, <1>9, <1>10, <1>11, <1>12

-----------------------------------------------------------------------------

(* The invariant holds at first, *)
LEMMA InitIInv == Init => IInv
<1> SUFFICES ASSUME Init PROVE IInv
  OBVIOUS
<1>1. request \in Requests /\ view \in Views /\ Startable(request, view) /\ current = Ids[1]
  BY DEF Init, Ids
<1>2. Ids \in Seq(Models) /\ Ids # << >>
  BY <1>1, IdsAreModels DEF Ids
<1>3. current \in ToSet(Ids)
  BY <1>1, <1>2 DEF ToSet
<1> QED
  BY <1>1, <1>3 DEF Init, IInv, TypeOK, ReadyIsOfPoses

(* every step keeps it, *)
LEMMA NextIInv == IInv /\ [Next]_vars => IInv'
<1> SUFFICES ASSUME IInv, [Next]_vars PROVE IInv'
  OBVIOUS
<1>0. UNCHANGED <<request, view>>
  BY DEF Next, vars, Hover, Place, SelectNext, MarkReady
<1>1. Ids' = Ids /\ Startable(request, view)'
  BY <1>0 DEF Ids, IInv
<1>2. Ids \in Seq(Models)
  BY IdsAre DEF IInv
<1> USE DEF IInv
<1>3. ASSUME NEW p \in Spots, Hover(p) PROVE IInv'
  <2>1. TypeOK'
    BY <1>0, <1>1, <1>3 DEF Hover, TypeOK
  <2> QED
    BY <1>1, <1>3, <2>1 DEF Hover, ReadyIsOfPoses
<1>4. ASSUME NEW p \in Spots, Place(p) PROVE IInv'
  <2>1. current' \in ToSet(Ids)
    BY <1>4, NextIsOfDraft DEF Place
  <2>2. TypeOK'
    BY <1>0, <1>1, <1>4, <2>1 DEF Place, TypeOK
  <2> QED
    BY <1>1, <1>4, <2>2 DEF Place, ReadyIsOfPoses
<1>5. CASE SelectNext
  <2>1. current' \in ToSet(Ids)
    <3>1. PICK i \in DOMAIN Ids : current' = Ids[(i % Len(Ids)) + 1]
      BY <1>5 DEF SelectNext
    <3>2. Len(Ids) \in Nat \ {0} /\ i \in Nat /\ DOMAIN Ids = 1 .. Len(Ids)
      BY <1>2, <3>1
    <3>3. i % Len(Ids) \in 0 .. Len(Ids) - 1
      BY <3>2
    <3>4. (i % Len(Ids)) + 1 \in DOMAIN Ids
      BY <3>2, <3>3
    <3> QED
      BY <3>1, <3>4 DEF ToSet
  <2>2. TypeOK'
    BY <1>0, <1>1, <1>5, <2>1 DEF SelectNext, TypeOK
  <2> QED
    BY <1>1, <1>5, <2>2 DEF SelectNext, ReadyIsOfPoses
<1>6. CASE MarkReady
  <2>1. TypeOK'
    BY <1>0, <1>1, <1>6 DEF MarkReady, TypeOK
  <2>2. (ready' = IF Unplaced(spot) = << >> THEN ToPayload ELSE Nothing) /\ UNCHANGED <<request, view, spot>>
    BY <1>6 DEF MarkReady
  <2>3. Unplaced(spot)' = Unplaced(spot) /\ ToPayload' = ToPayload
    BY <2>2 DEF Unplaced, Ids, ToPayload, RowOf, ModelRow
  <2>4. ReadyIsOfPoses'
    BY <2>2, <2>3 DEF ReadyIsOfPoses
  <2> QED
    BY <1>1, <2>1, <2>4
<1>7. CASE UNCHANGED vars
  <2>1. UNCHANGED <<request, view, spot, current, preview, ready>>
    BY <1>7 DEF vars
  <2>2. Unplaced(spot)' = Unplaced(spot) /\ ToPayload' = ToPayload
    BY <2>1 DEF Unplaced, Ids, ToPayload, RowOf, ModelRow
  <2>3. TypeOK' /\ ReadyIsOfPoses'
    BY <1>1, <2>1, <2>2 DEF TypeOK, ReadyIsOfPoses
  <2> QED
    BY <1>1, <2>3
<1> QED
  BY <1>3, <1>4, <1>5, <1>6, <1>7 DEF Next

(* and so it always holds. *)
LEMMA SpecIInv == Spec => []IInv
  BY InitIInv, NextIInv, PTL DEF Spec

(* The poses, the selected model and the preview stay of their kinds, and   *)
(* only models of the draft have a pose (place_current_model, select_next). *)
THEOREM PlacementTypes == Spec => []TypeOK
<1>1. IInv => TypeOK
  BY DEF IInv
<1> QED
  BY <1>1, SpecIInv, PTL

(* What the invariant says of a payload. *)
LEMMA PayloadOfIInv == IInv => PayloadIsOfRequest
<1> SUFFICES ASSUME IInv, ready # Nothing PROVE PayloadIsOfRequest
  BY DEF PayloadIsOfRequest
<1>0. TypeOK /\ Startable(request, view) /\ ready = ToPayload
  BY DEF IInv, ReadyIsOfPoses
<1>1. ToSet(Placements) = {ModelRow(m) : m \in ToSet(Ids)} /\ Len(Placements) = Len(Ids)
  BY <1>0, PlacementsAre
<1>2. {e.model : e \in ToSet(Placements)} = ToSet(Ids)
  <2>1. \A m : ModelRow(m).model = m
    BY DEF ModelRow
  <2> QED
    BY <1>1, <2>1
<1>3. ASSUME NEW e \in ToSet(Placements)
      PROVE  /\ e.player = request.player
             /\ \A a \in ToSet(view.placed) : e.army = a
             /\ e.model \notin request.created /\ view.physical # Nothing =>
                 /\ view.physical[e.model].unit = e.unit
                 /\ view.physical[e.model].owner = e.player
                 /\ e.unit \in AllowedUnits(request)
  <2>1. PICK m \in ToSet(Ids) : e = ModelRow(m)
    BY <1>1
  <2>2. /\ e.player = request.player /\ e.army = ArmyOf(request, view)
        /\ e.model = m /\ e.unit = UnitOf(request, view, m)
    BY <2>1 DEF ModelRow
  <2>3. PoseAgrees(request, view, m)
    BY <1>0 DEF Startable, Ids
  <2>4. ASSUME e.model \notin request.created, view.physical # Nothing
        PROVE  /\ view.physical[e.model].unit = e.unit
               /\ view.physical[e.model].owner = e.player
               /\ e.unit \in AllowedUnits(request)
    BY <2>2, <2>3, <2>4 DEF PoseAgrees, UnitOf
  <2>5. ASSUME NEW a \in ToSet(view.placed) PROVE e.army = a
    <3>1. view.placed \in Seq(Armies) /\ request.army \in Armies \cup {Nothing}
      BY <1>0, ViewsAssumption, RequestsAssumption DEF TypeOK, ViewShape, RequestShape
    <3>2. ArmyAgrees(request, view) /\ Len(view.placed) <= 1
      BY <1>0 DEF Startable, ArmyAgrees, ArmyRowsAgree
    <3>3. view.placed # << >> /\ a = view.placed[1]
      BY <3>1, <3>2 DEF ToSet
    <3>4. PublicArmy(view) = a /\ a \in Armies /\ a # Nothing
      BY <3>1, <3>3, NothingAssumption DEF PublicArmy
    <3>5. CASE request.kind = "materialization"
      <4>1. ArmyOf(request, view) = request.army /\ request.army # Nothing
        BY <3>2, <3>5 DEF ArmyOf, ArmyAgrees
      <4> QED
        BY <2>2, <3>2, <3>4, <4>1 DEF ArmyAgrees
    <3>6. CASE request.kind # "materialization"
      BY <2>2, <3>4, <3>6 DEF ArmyOf
    <3> QED
      BY <3>5, <3>6
  <2> QED
    BY <2>2, <2>4, <2>5
<1>4. ASSUME request.kind = "placement", Grouped(request)
      PROVE  /\ [r \in DOMAIN ready |-> ready[r].unit] = request.components
             /\ \A r \in DOMAIN ready : \A e \in ToSet(ready[r].models) : e.unit = ready[r].unit
  <2> DEFINE cs == request.components
  <2>0. Grouping
    BY <1>4 DEF Grouping
  <2>1. ready = [c \in DOMAIN cs |-> [unit |-> cs[c], models |-> RowsOf(Of(cs[c]))]]
    BY <1>0, <2>0, LotsOfComponents
  <2>2. cs = [c \in DOMAIN cs |-> cs[c]]
    <3>1. cs \in Seq(Units)
      BY <1>0, RequestsAssumption DEF TypeOK, RequestShape
    <3> QED
      BY <3>1
  <2>3. [r \in DOMAIN ready |-> ready[r].unit] = cs
    BY <2>1, <2>2
  <2>4. ASSUME NEW c \in DOMAIN cs, NEW e \in ToSet(RowsOf(Of(cs[c]))) PROVE e.unit = cs[c]
    <3>1. Of(cs[c]) \in Seq(Models) /\ IsInjective(Of(cs[c]))
          /\ ToSet(Of(cs[c])) = {m \in ToSet(Ids) : UnitOf(request, view, m) = cs[c]}
      BY <1>0, OfUnitAre
    <3>2. PICK m \in ToSet(Of(cs[c])) : e = ModelRow(m)
      BY <3>1, RowsAre
    <3> QED
      BY <3>1, <3>2 DEF ModelRow
  <2>5. \A r \in DOMAIN ready : \A e \in ToSet(ready[r].models) : e.unit = ready[r].unit
    BY <2>1, <2>4
  <2> QED
    BY <2>3, <2>5
<1> QED
  BY <1>1, <1>2, <1>3, <1>4 DEF PayloadIsOfRequest

(* Whatever payload becomes ready places the models of the request, each    *)
(* once, in the unit and for the player the physical view gives them, with  *)
(* an army all views agree on (to_payload, start_for_pending).              *)
THEOREM PayloadsAreOfTheirRequest == Spec => []PayloadIsOfRequest
  BY PayloadOfIInv, SpecIInv, PTL

-----------------------------------------------------------------------------

(* A complete draft is drawn as its payload says. *)
LEMMA ReadyIsShown ==
  ASSUME IInv, ready # Nothing
  PROVE  Sent = Shown
<1>0. TypeOK /\ Startable(request, view) /\ ready = ToPayload /\ Unplaced(spot) = << >>
  BY DEF IInv, ReadyIsOfPoses
<1>1. ToSet(Placements) = {ModelRow(m) : m \in ToSet(Ids)}
  BY <1>0, PlacementsAre
<1>2. \A m \in ToSet(Ids) : spot[m] # Nothing
  <2>1. ToSet(Unplaced(spot)) = {m \in ToSet(Ids) : spot[m] = Nothing}
    BY <1>0, UnplacedIs
  <2>2. ToSet(<< >>) = {}
    BY DEF ToSet
  <2> QED
    BY <1>0, <2>1, <2>2
<1>3. ASSUME NEW m \in Models
      PROVE  (IF \E e \in ToSet(Placements) : e.model = m
              THEN (CHOOSE e \in ToSet(Placements) : e.model = m).spot ELSE Nothing) = spot[m]
  <2>1. CASE m \in ToSet(Ids)
    <3>1. ModelRow(m) \in ToSet(Placements) /\ ModelRow(m).model = m
      BY <1>1, <2>1 DEF ModelRow
    <3>2. PICK e \in ToSet(Placements) : e = (CHOOSE f \in ToSet(Placements) : f.model = m) /\ e.model = m
      BY <3>1
    <3>3. e = ModelRow(m)
      <4>1. PICK n \in ToSet(Ids) : e = ModelRow(n)
        BY <1>1, <3>2
      <4>2. n = m
        BY <3>2, <4>1 DEF ModelRow
      <4> QED
        BY <4>1, <4>2
    <3>4. e.spot = spot[m]
      BY <3>3 DEF ModelRow
    <3> QED
      BY <3>1, <3>2, <3>4
  <2>2. CASE m \notin ToSet(Ids)
    <3>1. ~ \E e \in ToSet(Placements) : e.model = m
      <4> SUFFICES ASSUME NEW n \in ToSet(Ids), ModelRow(n).model = m PROVE FALSE
        BY <1>1
      <4> QED
        BY <2>2 DEF ModelRow
    <3>2. spot[m] = Nothing
      BY <1>0, <2>2 DEF TypeOK
    <3> QED
      BY <3>1, <3>2
  <2> QED
    BY <2>1, <2>2
<1>4. Sent = [m \in Models |-> spot[m]]
  BY <1>3 DEF Sent
<1>5. current \in ToSet(Ids)
  BY <1>0 DEF TypeOK
<1>6. Shown = [m \in Models |-> spot[m]]
  BY <1>2, <1>5 DEF Shown
<1> QED
  BY <1>4, <1>6

SentIsShown == ready # Nothing => Sent = Shown

(* A ready payload places the models where they are shown. *)
LEMMA SentIsShownNext == IInv' => SentIsShown'
<1>1. IInv => SentIsShown
  BY ReadyIsShown DEF SentIsShown
<1> QED
  BY <1>1, PTL

(* What is shown is a picture: a place, or none, for each model. *)
LEMMA ShownIsPicture == TypeOK => Shown \in [Models -> Spots \cup {Nothing}]
  BY DEF TypeOK, Shown

(* Every step is an edit, a review or a stutter of the abstract draft, *)
LEMMA StepImplements == IInv /\ IInv' /\ [Next]_vars => [Draft!Next]_(Draft!vars)
<1> SUFFICES ASSUME IInv, IInv', [Next]_vars PROVE [Draft!Next]_(Draft!vars)
  OBVIOUS
<1>1. Shown' \in [Models -> Spots \cup {Nothing}]
  BY ShownIsPicture DEF IInv, TypeOK, Shown
<1>2. ready' = Nothing => Draft!Next
  BY <1>1 DEF Draft!Next, Draft!Edit, Sent
<1>3. ASSUME NEW p \in Spots, Hover(p) PROVE Draft!Next
  BY <1>2, <1>3 DEF Hover
<1>4. ASSUME NEW p \in Spots, Place(p) PROVE Draft!Next
  BY <1>2, <1>4 DEF Place
<1>5. CASE SelectNext
  BY <1>2, <1>5 DEF SelectNext
<1>6. CASE MarkReady
  <2>1. UNCHANGED <<spot, current, preview>>
    BY <1>6 DEF MarkReady
  <2>2. Shown' = Shown
    BY <2>1 DEF Shown
  <2>3. CASE ready' = Nothing
    BY <1>2, <2>3
  <2>4. CASE ready' # Nothing
    <3>1. Sent' = Shown'
      BY <2>4, SentIsShownNext DEF SentIsShown
    <3> QED
      BY <2>2, <3>1 DEF Draft!Next, Draft!Review
  <2> QED
    BY <2>3, <2>4
<1>7. CASE UNCHANGED vars
  <2>1. Shown' = Shown /\ Sent' = Sent
    BY <1>7 DEF vars, Shown, Sent, Placements
  <2> QED
    BY <2>1 DEF Draft!vars
<1> QED
  BY <1>3, <1>4, <1>5, <1>6, <1>7 DEF Next

(* which begins as this one does. *)
LEMMA InitImplements == Init => Draft!Init
<1> SUFFICES ASSUME Init PROVE Draft!Init
  OBVIOUS
<1>1. TypeOK /\ ready = Nothing
  BY InitIInv DEF IInv, Init
<1> QED
  BY <1>1, ShownIsPicture DEF Draft!Init, Sent

(* What Enter submits is where the models are drawn: the draft implements   *)
(* ReviewedDraft (mark_ready, to_payload, assignment_views).                *)
THEOREM PlacementImplementsReview == Spec => ImplementsReview
  BY InitImplements, StepImplements, SpecIInv, PTL DEF Spec, ImplementsReview, Draft!Spec
=============================================================================
