------------------------------ MODULE TableProofs ------------------------------
(***************************************************************************)
(* Theorems of the parts of the table, for every table at the start, every *)
(* number of requests, dice and bound: what is selected stays within the   *)
(* request's profile (SelectionInv), the dice tray shows the dice as they  *)
(* were rolled (DiceInv), and what the pointer and the keys select locally *)
(* fits what is there and obeys what the preference file was read into     *)
(* (PointerInv).  A step of one part leaves the others as they are, so     *)
(* each has an invariant of its own.                                       *)
(***************************************************************************)
EXTENDS Table, SelectionLemmas

(* A projection shows units of the table at the start, with models they had *)
OnTable(t) ==
    /\ t \in Tables
    /\ \A u \in ToSet(t) : \E v \in ToSet(Start) : u.id = v.id /\ ToSet(u.models) \subseteq ToSet(v.models)

(* A profile of the code, once a decision is pending *)
Built(p) ==
    /\ ProfileShape(p)
    /\ CandidateSet(p) \subseteq AllRefs
    /\ p.scope \in 1 .. MaxRequests \cup {Nothing}
    /\ p.scope = Nothing => p.max = Unlimited
    /\ p.max = 1 => Start # << >>

(* What the selection needs to stay within its profile: that the profile    *)
(* was built from a table, that the number a request allows is known from   *)
(* its scope when it is built again, and that no request has the scope None. *)
SelectionInv == OnTable(table) /\ Built(profile) /\ Fits(profile, sel)

-----------------------------------------------------------------------------

StartIds == [i \in DOMAIN Start |-> Start[i].id]

(* The table at the start is one of the tables, and its ids are those of    *)
(* its units.                                                               *)
LEMMA StartIdsType ==
    /\ OnTable(Start)
    /\ StartIds \in Seq(STRING)
    /\ ToSet(StartIds) = {u.id : u \in ToSet(Start)}
    /\ StartIds = << >> <=> Start = << >>
<1>1. Start \in Seq(UnitRow) BY StartAssumption DEF UnitRow
<1>2. DOMAIN Start = 1 .. Len(Start) /\ Len(Start) \in Nat BY <1>1
<1>3. ASSUME NEW i \in 1 .. Len(Start) PROVE Start[i].id \in STRING
  <2>1. Start[i] \in UnitRow BY <1>1
  <2> QED BY <2>1 DEF UnitRow
<1>4. StartIds \in Seq(STRING) /\ Len(StartIds) = Len(Start)
    BY <1>2, <1>3, IsASeq DEF StartIds
<1>5. ToSet(StartIds) = {u.id : u \in ToSet(Start)} BY DEF ToSet, StartIds
<1>6. OnTable(Start) BY <1>1 DEF OnTable, Tables
<1> QED BY <1>1, <1>4, <1>5, <1>6, EmptySeq

(* The refs of a table are refs of the table at the start. *)
LEMMA OnTableRefs ==
    ASSUME NEW t, OnTable(t), NEW u \in ToSet(t)
    PROVE  ToSet(RefsOf(u)) \subseteq AllRefs
<1>1. PICK v \in ToSet(Start) : u.id = v.id /\ ToSet(u.models) \subseteq ToSet(v.models)
    BY DEF OnTable
<1>2. u \in UnitRow
  <2>1. t \in Seq(UnitRow) BY DEF OnTable, Tables
  <2> QED BY <2>1 DEF ToSet
<1>3. v \in UnitRow
  <2>1. Start \in Seq(UnitRow) BY StartIdsType DEF OnTable, Tables
  <2> QED BY <2>1 DEF ToSet
<1>4. ToSet(RefsOf(u)) \subseteq ToSet(RefsOf(v)) BY <1>1, <1>2, <1>3, RefsOfAre
<1>5. ToSet(RefsOf(v)) \subseteq AllRefs BY DEF AllRefs, ToSet
<1> QED BY <1>4, <1>5

(* A projection that has lost a model is one. *)
LEMMA WithoutType ==
    ASSUME NEW t, OnTable(t), NEW m
    PROVE  OnTable(Without(t, m))
<1> DEFINE cut(u) == [u EXCEPT !.models = Filtered(@, ToSet(@) \ {m})]
           left == [i \in DOMAIN t |-> cut(t[i])]
<1>1. t \in Seq(UnitRow) /\ DOMAIN t = 1 .. Len(t) /\ Len(t) \in Nat BY DEF OnTable, Tables
<1>2. ASSUME NEW u \in UnitRow
      PROVE  cut(u) \in UnitRow /\ cut(u).id = u.id /\ ToSet(cut(u).models) \subseteq ToSet(u.models)
  <2> DEFINE kept == Filtered(u.models, ToSet(u.models) \ {m})
  <2>1. u.models \in Seq(STRING) BY DEF UnitRow
  <2>2. kept \in Seq(STRING) /\ ToSet(kept) = ToSet(u.models) \cap (ToSet(u.models) \ {m})
    BY <2>1, FilteredProperties
  <2>3. cut(u) = [u EXCEPT !.models = kept] OBVIOUS
  <2> HIDE DEF kept, cut
  <2> QED BY <2>2, <2>3 DEF UnitRow
<1>3. \A i \in 1 .. Len(t) : t[i] \in UnitRow BY <1>1
<1> HIDE DEF cut
<1>4. left \in Seq(UnitRow)
  <2>1. \A i \in 1 .. Len(t) : cut(t[i]) \in UnitRow BY <1>2, <1>3
  <2> QED BY <1>1, <2>1, IsASeq
<1>5. ASSUME NEW u \in ToSet(left)
      PROVE  \E v \in ToSet(Start) : u.id = v.id /\ ToSet(u.models) \subseteq ToSet(v.models)
  <2>1. PICK i \in 1 .. Len(t) : u = cut(t[i]) BY <1>1 DEF ToSet
  <2>2. t[i] \in UnitRow /\ t[i] \in ToSet(t) BY <1>1, <1>3 DEF ToSet
  <2>3. PICK v \in ToSet(Start) : t[i].id = v.id /\ ToSet(t[i].models) \subseteq ToSet(v.models)
    BY <2>2 DEF OnTable
  <2>4. u.id = t[i].id /\ ToSet(u.models) \subseteq ToSet(t[i].models) BY <1>2, <2>1, <2>2
  <2> QED BY <2>3, <2>4
<1> DEFINE S == {u \in ToSet(left) : u.models # << >>}
<1>6. Without(t, m) = Filtered(left, S) BY DEF Without, cut
<1> HIDE DEF left, S
<1>7. Filtered(left, S) \in Seq(UnitRow) /\ ToSet(Filtered(left, S)) = ToSet(left) \cap S
    BY <1>4, FilteredProperties
<1> QED BY <1>5, <1>6, <1>7 DEF OnTable, Tables

(* No limit is neither the limit of one nor that of none. *)
LEMMA UnlimitedIs == Unlimited # 1 /\ Unlimited # 0
  BY NothingAssumption DEF Unlimited

(* Each kind of profile is one of the code. *)
LEMMA InspectionBuilt ==
    ASSUME NEW t, OnTable(t), NEW p, p = InspectionProfile(t)
    PROVE  Built(p) /\ p.scope = Nothing /\ p.max = Unlimited
<1>1. /\ ProfileShape(p) /\ p.scope = Nothing /\ p.max = Unlimited
      /\ CandidateSet(p) = UNION {ToSet(RefsOf(u)) : u \in ToSet(t)}
    BY InspectionShape DEF OnTable
<1>2. CandidateSet(p) \subseteq AllRefs BY <1>1, OnTableRefs
<1> QED BY <1>1, <1>2, UnlimitedIs DEF Built

(* A profile without candidates shows nothing that is not on the table. *)
LEMMA UnsupportedBuilt ==
    ASSUME NEW scope \in 1 .. MaxRequests, NEW p, p = UnsupportedProfile(scope)
    PROVE  Built(p) /\ p.scope = scope
<1>1. scope # Nothing BY NothingAssumption, MaxRequestsAssumption
<1> QED BY <1>1, UnsupportedShape DEF Built

(* A movement profile shows the models and the unit of the mover as the     *)
(* table has them, any number of them.                                      *)
LEMMA MovementBuilt ==
    ASSUME NEW scope \in 1 .. MaxRequests, NEW t, OnTable(t), NEW u, NEW p,
           p = MovementProfile(scope, t, u)
    PROVE  Built(p) /\ p.scope = scope /\ p.max = Unlimited
<1>1. scope # Nothing BY NothingAssumption, MaxRequestsAssumption
<1>2. /\ ProfileShape(p) /\ p.scope = scope /\ p.max = Unlimited
      /\ CandidateSet(p) = UNION {ToSet(RefsOf(x)) : x \in {y \in ToSet(t) : y.id = u}}
    BY MovementShape DEF OnTable
<1>3. CandidateSet(p) \subseteq AllRefs BY <1>2, OnTableRefs
<1> QED BY <1>1, <1>2, <1>3, UnlimitedIs DEF Built

(* A finite profile offers units of the table, one at a time. *)
LEMMA FiniteUnitBuilt ==
    ASSUME NEW scope \in 1 .. MaxRequests, NEW t, OnTable(t), NEW p,
           p = FiniteUnitProfile(scope, t, StartIds)
    PROVE  Built(p) /\ p.scope = scope /\ (Start # << >> => p.max = 1)
<1>1. scope # Nothing BY NothingAssumption, MaxRequestsAssumption
<1>2. CASE Start = << >>
  <2>1. p = UnsupportedProfile(scope) BY <1>2, StartIdsType DEF FiniteUnitProfile
  <2> QED BY <1>2, <2>1, UnsupportedBuilt
<1>3. CASE Start # << >>
  <2>0. t \in Tables /\ StartIds \in Seq(STRING) /\ StartIds # << >>
    BY <1>3, StartIdsType DEF OnTable
  <2>1. /\ ProfileShape(p) /\ p.scope = scope /\ p.max = 1
        /\ CandidateSet(p) \subseteq {EntityRef("unit", id) : id \in ToSet(StartIds)}
    BY <2>0, FiniteUnitShape
  <2>2. ASSUME NEW u \in ToSet(Start) PROVE EntityRef("unit", u.id) \in AllRefs
    <3>1. Start \in Seq(UnitRow) BY StartIdsType DEF OnTable, Tables
    <3>2. u \in UnitRow BY <3>1 DEF ToSet
    <3>3. EntityRef("unit", u.id) \in ToSet(RefsOf(u)) BY <3>2, RefsOfAre
    <3> QED BY <3>3 DEF AllRefs, ToSet
  <2>3. CandidateSet(p) \subseteq AllRefs BY <2>1, <2>2, StartIdsType
  <2> QED BY <1>1, <1>3, <2>1, <2>3 DEF Built
<1> QED BY <1>2, <1>3

(* Whatever the request, its profile is built from the table and bears its  *)
(* scope.                                                                   *)
LEMMA ProfilesBuilt ==
    ASSUME NEW scope \in 1 .. MaxRequests, NEW t, OnTable(t), NEW p \in Profiles(scope, t)
    PROVE  Built(p) /\ (p.scope = scope \/ (p.scope = Nothing /\ p.max = Unlimited))
<1>1. \/ p = InspectionProfile(t) \/ p = UnsupportedProfile(scope)
      \/ \E u : p = MovementProfile(scope, t, u)
      \/ p = FiniteUnitProfile(scope, t, StartIds)
    BY DEF Profiles, StartIds
<1>2. CASE p = InspectionProfile(t) BY <1>2, InspectionBuilt
<1>3. CASE p = UnsupportedProfile(scope) BY <1>3, UnsupportedBuilt
<1>4. CASE \E u : p = MovementProfile(scope, t, u) BY <1>4, MovementBuilt
<1>5. CASE p = FiniteUnitProfile(scope, t, StartIds) BY <1>5, FiniteUnitBuilt
<1> QED BY <1>1, <1>2, <1>3, <1>4, <1>5

(* Built again for the same decision a profile allows as many as before. *)
LEMMA RebuiltFits ==
    ASSUME SelectionInv, NEW t, OnTable(t), NEW next, next = Rebuilt(profile, t)
    PROVE  Built(next) /\ next.scope = profile.scope /\ next.max \in {profile.max, Unlimited}
<1>0. Built(profile) /\ (profile.scope # Nothing => profile.scope \in 1 .. MaxRequests)
    BY DEF SelectionInv, Built
<1>1. CASE profile.scope = Nothing
  <2>1. next = InspectionProfile(t) BY <1>1 DEF Rebuilt
  <2> QED BY <1>1, <2>1, InspectionBuilt
<1>2. CASE profile.scope # Nothing /\ profile.layers = << >>
  <2>1. next = profile BY <1>2 DEF Rebuilt
  <2> QED BY <1>0, <2>1
<1>3. CASE profile.scope # Nothing /\ profile.layers # << >> /\ profile.max = 1
  <2>1. next = FiniteUnitProfile(profile.scope, t, StartIds) BY <1>3 DEF Rebuilt, StartIds
  <2>2. Start # << >> BY <1>0, <1>3 DEF Built
  <2> QED BY <1>0, <1>3, <2>1, <2>2, FiniteUnitBuilt
<1>4. CASE profile.scope # Nothing /\ profile.layers # << >> /\ profile.max # 1
  <2>1. PICK u : next = MovementProfile(profile.scope, t, u) BY <1>4 DEF Rebuilt
  <2> QED BY <1>0, <1>4, <2>1, MovementBuilt
<1> QED BY <1>1, <1>2, <1>3, <1>4

-----------------------------------------------------------------------------

(* The session starts with nothing selected. *)
LEMMA SelectionInit == Init => SelectionInv
<1> SUFFICES ASSUME Init PROVE SelectionInv
  OBVIOUS
<1>1. table = Start /\ profile \in Profiles(1, Start) /\ sel = InitialSelection(profile)
    BY DEF Init
<1>2. 1 \in 1 .. MaxRequests BY MaxRequestsAssumption
<1>3. Built(profile) BY <1>1, <1>2, ProfilesBuilt, StartIdsType
<1>4. Fits(profile, sel) BY <1>1, <1>3, InitialFits DEF Built
<1> QED BY <1>1, <1>3, <1>4, StartIdsType DEF SelectionInv

(* A command changes the selection only, and leaves one that fits. *)
LEMMA EditKeeps ==
    ASSUME SelectionInv, NEW s, Fits(profile, s), Edited(s)
    PROVE  SelectionInv'
<1>1. sel' = s /\ table' = table /\ profile' = profile BY DEF Edited
<1> QED BY <1>1 DEF SelectionInv

(* What a refresh with a profile of the code leaves. *)
LEMMA RefreshKeeps ==
    ASSUME SelectionInv, NEW t, OnTable(t), NEW next, Built(next), Refresh(t, next),
           profile.scope = next.scope => next.max \in {profile.max, Unlimited}
    PROVE  SelectionInv'
<1>1. table' = t /\ profile' = next /\ sel' = Reconciled(profile, sel, next) BY DEF Refresh
<1>2. ProfileShape(profile) /\ Fits(profile, sel) /\ ProfileShape(next) BY DEF SelectionInv, Built
<1>3. Fits(next, Reconciled(profile, sel, next))
    BY <1>2, ReconciledFits
<1> QED BY <1>1, <1>3 DEF SelectionInv

(* No step leaves the profile, and a new profile drops what it does not have. *)
LEMMA SelectionNext ==
    ASSUME SelectionInv, Next
    PROVE  SelectionInv'
<1>0. OnTable(table) /\ ProfileShape(profile) /\ Fits(profile, sel) BY DEF SelectionInv, Built
<1>1. ASSUME NEW ref \in AllRefs, Replace(ref) \/ Add(ref) \/ Subtract(ref) \/ Toggle(ref)
      PROVE  SelectionInv'
    BY <1>0, <1>1, EditsFit, EditKeeps DEF Replace, Add, Subtract, Toggle
<1>2. CASE Clear BY <1>0, <1>2, ClearFits, EditKeeps DEF Clear
<1>3. CASE NextFocus BY <1>0, <1>3, CycleFocusFits, EditKeeps DEF NextFocus
<1>4. CASE NextLayer BY <1>0, <1>4, CycleLayerFits, EditKeeps DEF NextLayer
<1>5. CASE TakeGroup BY <1>0, <1>5, GroupFits, EditKeeps DEF TakeGroup
<1>6. CASE LoseModel
  <2>1. PICK m : Refresh(Without(table, m), Rebuilt(profile, Without(table, m)))
    BY <1>6 DEF LoseModel
  <2> DEFINE t == Without(table, m)
             next == Rebuilt(profile, t)
  <2>2. OnTable(t) BY <1>0, WithoutType
  <2> HIDE DEF t
  <2>3. Built(next) /\ next.scope = profile.scope /\ next.max \in {profile.max, Unlimited}
    BY <2>2, RebuiltFits
  <2>4. Refresh(t, next) BY <2>1 DEF t
  <2> HIDE DEF next
  <2> QED BY <2>2, <2>3, <2>4, RefreshKeeps
<1>7. CASE NewRequest
  <2> DEFINE scope == IF profile.scope = Nothing THEN 1 ELSE profile.scope + 1
  <2>1. scope <= MaxRequests /\ \E next \in Profiles(scope, table) : Refresh(table, next)
    BY <1>7 DEF NewRequest
  <2>2. scope \in 1 .. MaxRequests /\ scope # profile.scope
    BY <2>1, NothingAssumption, MaxRequestsAssumption DEF SelectionInv, Built
  <2> HIDE DEF scope
  <2>3. PICK next \in Profiles(scope, table) : Refresh(table, next) BY <2>1
  <2>4. Built(next) /\ (next.scope = scope \/ (next.scope = Nothing /\ next.max = Unlimited))
    BY <1>0, <2>2, ProfilesBuilt
  <2>5. profile.scope = next.scope => next.max \in {profile.max, Unlimited} BY <2>2, <2>4
  <2> QED BY <1>0, <2>3, <2>4, <2>5, RefreshKeeps
<1> QED BY <1>1, <1>2, <1>3, <1>4, <1>5, <1>6, <1>7 DEF Next

(* Whatever the other parts of the table do, the selection stays within its *)
(* profile.                                                                 *)
LEMMA SelectionInvariant == TableSpec => []SelectionInv
<1>1. TableInit => SelectionInv BY SelectionInit DEF TableInit
<1>2. SelectionInv /\ [TableNext]_TableVars => SelectionInv'
  <2> SUFFICES ASSUME SelectionInv, [TableNext]_TableVars PROVE SelectionInv'
    OBVIOUS
  <2>1. CASE Next BY <2>1, SelectionNext
  <2>2. CASE UNCHANGED vars BY <2>2 DEF vars, SelectionInv
  <2> QED BY <2>1, <2>2 DEF TableNext, TableVars
<1> QED BY <1>1, <1>2, PTL DEF TableSpec

(* Whatever was clicked and whatever the projection lost meanwhile, only    *)
(* current candidates are selected or focused, no more of them than the     *)
(* request allows, in a layer that has candidates, on every table and over  *)
(* any number of requests (reconcile, _with_selected_refs).                 *)
THEOREM SelectionStaysWithin == TableSpec => []WithinProfile
<1>1. SelectionInv => WithinProfile
  <2> SUFFICES ASSUME SelectionInv PROVE WithinProfile
    OBVIOUS
  <2>1. Fits(profile, sel) /\ ProfileShape(profile) BY DEF SelectionInv, Built
  <2>2. AvailableLayers(profile) \in Seq(Layers) BY <2>1, ProfileLayerIs
  <2>3. sel.layer # Nothing => Contains(AvailableLayers(profile), sel.layer)
    <3>1. sel.layer \in ToSet(AvailableLayers(profile)) \cup {Nothing}
      BY <2>1 DEF Fits, SelectionState
    <3>2. DOMAIN AvailableLayers(profile) = 1 .. Len(AvailableLayers(profile)) BY <2>2
    <3> QED BY <3>1, <3>2 DEF ToSet, Contains
  <2> QED BY <2>1, <2>3 DEF Fits, SelectionState, WithinProfile
<1> QED BY <1>1, SelectionInvariant, PTL

-----------------------------------------------------------------------------
(* The dice tray *)

(* The faces of all the dice of a roll *)
IsDice(v) == v = [i \in 1 .. Dice |-> v[i]]

Replays(g, strict, original, records, n) ==
    g = [k \in 0 .. n |->
            IF k = 0 THEN original
            ELSE IF strict = 1 /\ ~(g[k - 1] # << >> /\ Tray!Fits(records[k], g[k - 1])) THEN << >>
                 ELSE Tray!Replaced(g[k - 1], records[k])]

(* The records of any number of rerolls can be replayed. *)
LEMMA ReplaysExist ==
    ASSUME NEW strict, NEW original, NEW records, NEW n \in Nat
    PROVE  \E g : Replays(g, strict, original, records, n)
<1> DEFINE Is(g, k) == Replays(g, strict, original, records, k)
           B == {k \in Nat : ~ \E g : Is(g, k)}
<1> SUFFICES ASSUME B # {} PROVE FALSE
  OBVIOUS
<1>1. PICK k \in B : \A j \in B : k <= j
  <2>1. B \subseteq Nat OBVIOUS
  <2> HIDE DEF B
  <2> QED BY <2>1, LeastExists
<1>0. k \in Nat /\ ~ \E g : Is(g, k) OBVIOUS
<1>2. CASE k = 0
  <2> DEFINE g == [i \in 0 .. 0 |-> original]
  <2>1. \A i \in 0 .. 0 : i = 0 OBVIOUS
  <2>2. Is(g, 0) BY <2>1 DEF Replays
  <2> QED BY <2>2, <1>2, <1>0
<1>3. CASE k # 0
  <2>1. k - 1 \in Nat /\ ~(k <= k - 1) BY <1>3, <1>0
  <2>2. PICK f : Is(f, k - 1) BY <2>1, <1>1
  <2> DEFINE After(v, i) ==
                IF strict = 1 /\ ~(v # << >> /\ Tray!Fits(records[i], v)) THEN << >>
                ELSE Tray!Replaced(v, records[i])
  <2>3. f = [i \in 0 .. k - 1 |-> IF i = 0 THEN original ELSE After(f[i - 1], i)]
    BY <2>2 DEF Replays
  <2>4. ASSUME NEW g, g = [i \in 0 .. k |-> IF i = 0 THEN original ELSE After(g[i - 1], i)] PROVE FALSE
    BY <2>4, <1>0 DEF Replays
  <2> HIDE DEF After, Is, B
  <2> DEFINE g == [i \in 0 .. k |-> IF i = k THEN After(f[k - 1], k) ELSE f[i]]
  <2>5. ASSUME NEW i \in 0 .. k
        PROVE  g[i] = IF i = 0 THEN original ELSE After(g[i - 1], i)
    <3>1. CASE i = k
      <4>1. k \in 0 .. k /\ k - 1 \in 0 .. k /\ k - 1 # k BY <1>3, <1>0
      <4>2. g[k] = After(f[k - 1], k) /\ g[k - 1] = f[k - 1] BY <4>1
      <4> QED BY <4>2, <3>1, <1>3
    <3>2. CASE i # k
      <4>1. i \in 0 .. k - 1 /\ (i # 0 => i - 1 \in 0 .. k /\ i - 1 # k) BY <3>2, <1>0
      <4>2. f[i] = IF i = 0 THEN original ELSE After(f[i - 1], i) BY <4>1, <2>3
      <4> QED BY <4>1, <4>2, <3>2
    <3> QED BY <3>1, <3>2
  <2>6. g = [i \in 0 .. k |-> IF i = 0 THEN original ELSE After(g[i - 1], i)]
    <3>1. g = [i \in 0 .. k |-> g[i]] OBVIOUS
    <3> HIDE DEF g
    <3> QED BY <3>1, <2>5
  <2> HIDE DEF g
  <2> QED BY <2>4, <2>6
<1> QED BY <1>2, <1>3

(* The faces on the table are the replay of all rerolls after the first     *)
(* throw.                                                                   *)
LEMMA FacesNowReplays ==
    ASSUME NEW throws, Len(Tail(throws)) \in Nat
    PROVE  \E g : /\ Replays(g, 0, throws[1].values, Tail(throws), Len(Tail(throws)))
                  /\ Tray!FacesNow(throws) = g[Len(Tail(throws))]
<1> DEFINE r == Tail(throws)
           N == Len(r)
           Is(g) == g = [n \in 0 .. N |->
                            IF n = 0 THEN throws[1].values ELSE Tray!Replaced(g[n - 1], r[n])]
<1>0. N \in Nat OBVIOUS
<1>1. Tray!FacesNow(throws) = (CHOOSE g : Is(g))[N] BY DEF Tray!FacesNow
<1>2. \A g : Is(g) <=> Replays(g, 0, throws[1].values, r, N) BY DEF Replays
<1> HIDE DEF r, N
<1>3. \E g : Replays(g, 0, throws[1].values, r, N) BY <1>0, ReplaysExist
<1> HIDE DEF Is
<1>4. Is(CHOOSE g : Is(g)) BY <1>2, <1>3
<1> QED BY <1>1, <1>2, <1>4 DEF r, N

(* The values shown are the strict replay of the records, which is broken   *)
(* by one that does not fit.                                                *)
LEMMA PhysicalReplays ==
    ASSUME NEW state, Len(state.rerolls) \in Nat
    PROVE  \E g : /\ Replays(g, 1, state.original, state.rerolls, Len(state.rerolls))
                  /\ Tray!PhysicalValues(state) = g[Len(state.rerolls)]
<1> DEFINE r == state.rerolls
           N == Len(r)
           Is(g) == g = [n \in 0 .. N |->
                            IF n = 0 THEN state.original
                            ELSE IF g[n - 1] # << >> /\ Tray!Fits(r[n], g[n - 1])
                                 THEN Tray!Replaced(g[n - 1], r[n])
                                 ELSE << >>]
<1>0. N \in Nat OBVIOUS
<1>1. Tray!PhysicalValues(state) = (CHOOSE g : Is(g))[N] BY DEF Tray!PhysicalValues
<1>2. ASSUME NEW g PROVE Is(g) <=> Replays(g, 1, state.original, r, N)
  <2>1. [n \in 0 .. N |-> IF n = 0 THEN state.original
                          ELSE IF g[n - 1] # << >> /\ Tray!Fits(r[n], g[n - 1])
                               THEN Tray!Replaced(g[n - 1], r[n]) ELSE << >>]
        = [n \in 0 .. N |-> IF n = 0 THEN state.original
                            ELSE IF 1 = 1 /\ ~(g[n - 1] # << >> /\ Tray!Fits(r[n], g[n - 1])) THEN << >>
                                 ELSE Tray!Replaced(g[n - 1], r[n])]
    OBVIOUS
  <2> QED BY <2>1 DEF Replays
<1> HIDE DEF r, N
<1>3. \E g : Replays(g, 1, state.original, r, N) BY <1>0, ReplaysExist
<1> HIDE DEF Is
<1>4. Is(CHOOSE g : Is(g)) BY <1>2, <1>3
<1> QED BY <1>1, <1>2, <1>4 DEF r, N

(* A record replaces dice by dice. *)
LEMMA ReplacedDice ==
    ASSUME NEW v, IsDice(v), NEW record
    PROVE  IsDice(Tray!Replaced(v, record))
<1>1. DOMAIN v = 1 .. Dice BY DEF IsDice
<1>2. Tray!Replaced(v, record)
        = [i \in 1 .. Dice |-> Tray!Replaced(v, record)[i]]
    BY <1>1 DEF Tray!Replaced
<1> QED BY <1>2 DEF IsDice

(* A throw of dice is a list of as many as there are, one more than its     *)
(* tail has.                                                                *)
LEMMA DiceAre ==
    ASSUME NEW v, IsDice(v)
    PROVE  v # << >> /\ Len(v) = Dice /\ DOMAIN v = 1 .. Dice /\ Len(Tail(v)) # Dice
<1>0. Dice \in Nat \ {0} BY DiceAssumption
<1> DEFINE T == {v[i] : i \in 1 .. Dice}
<1>1. v \in Seq(T) /\ Len(v) = Dice
  <2>1. \A i \in 1 .. Dice : v[i] \in T OBVIOUS
  <2> HIDE DEF T
  <2> QED BY <1>0, <2>1, IsASeq DEF IsDice
<1> HIDE DEF T
<1>2. v # << >> BY <1>0, <1>1
<1>3. Len(Tail(v)) = Dice - 1 BY <1>0, <1>1, <1>2
<1> QED BY <1>0, <1>1, <1>2, <1>3 DEF IsDice

(* A replay holds dice at every step, or nothing once a strict one broke. *)
LEMMA ReplaysDice ==
    ASSUME NEW g, NEW strict, NEW original, NEW records, NEW n \in Nat,
           Replays(g, strict, original, records, n), IsDice(original), NEW j \in 0 .. n
    PROVE  IsDice(g[j]) \/ (strict = 1 /\ g[j] = << >>)
<1> DEFINE Good(k) == IsDice(g[k]) \/ (strict = 1 /\ g[k] = << >>)
           B == {k \in 0 .. n : ~Good(k)}
<1> SUFFICES ASSUME B # {} PROVE FALSE
  OBVIOUS
<1>1. PICK k \in B : \A i \in B : k <= i
  <2>1. B \subseteq Nat OBVIOUS
  <2> HIDE DEF B
  <2> QED BY <2>1, LeastExists
<1>0. k \in 0 .. n /\ ~Good(k) OBVIOUS
<1>2. k # 0
  <2>1. k = 0 => g[k] = original BY <1>0 DEF Replays
  <2> QED BY <2>1, <1>0
<1>3. k - 1 \in 0 .. n /\ ~(k <= k - 1) BY <1>0, <1>2
<1>4. Good(k - 1) BY <1>1, <1>3
<1>5. \/ strict = 1 /\ g[k] = << >>
      \/ g[k - 1] # << >> /\ g[k] = Tray!Replaced(g[k - 1], records[k])
      \/ strict # 1 /\ g[k] = Tray!Replaced(g[k - 1], records[k])
  BY <1>0, <1>2 DEF Replays
<1>6. IsDice(g[k - 1]) \/ (strict = 1 /\ g[k] = << >>) BY <1>4, <1>5
<1> QED BY <1>0, <1>5, <1>6, ReplacedDice

(* As long as it is not broken, the strict replay shows what the other      *)
(* shows.                                                                   *)
LEMMA ReplaysAgree ==
    ASSUME NEW g, NEW h, NEW original, NEW records, NEW n \in Nat,
           Replays(g, 1, original, records, n), Replays(h, 0, original, records, n),
           NEW j \in 0 .. n
    PROVE  g[j] = << >> \/ g[j] = h[j]
<1> DEFINE Good(k) == g[k] = << >> \/ g[k] = h[k]
           B == {k \in 0 .. n : ~Good(k)}
<1> SUFFICES ASSUME B # {} PROVE FALSE
  OBVIOUS
<1>1. PICK k \in B : \A i \in B : k <= i
  <2>1. B \subseteq Nat OBVIOUS
  <2> HIDE DEF B
  <2> QED BY <2>1, LeastExists
<1>0. k \in 0 .. n /\ ~Good(k) OBVIOUS
<1>2. k # 0
  <2>1. k = 0 => g[k] = original /\ h[k] = original BY <1>0 DEF Replays
  <2> QED BY <2>1, <1>0
<1>3. k - 1 \in 0 .. n /\ ~(k <= k - 1) BY <1>0, <1>2
<1>4. Good(k - 1) BY <1>1, <1>3
<1>5. g[k] = << >> \/ (g[k - 1] # << >> /\ g[k] = Tray!Replaced(g[k - 1], records[k]))
  BY <1>0, <1>2 DEF Replays
<1>6. h[k] = Tray!Replaced(h[k - 1], records[k])
  BY <1>0, <1>2 DEF Replays
<1> QED BY <1>0, <1>4, <1>5, <1>6

(* There are always as many dice on the table as were thrown first. *)
LEMMA FacesNowDice ==
    ASSUME NEW throws, IsList(throws), throws # << >>, IsDice(throws[1].values)
    PROVE  IsDice(Tray!FacesNow(throws))
<1> DEFINE N == Len(Tail(throws))
<1>1. N \in Nat BY DEF IsList
<1>2. PICK g : Replays(g, 0, throws[1].values, Tail(throws), N) /\ Tray!FacesNow(throws) = g[N]
  BY <1>1, FacesNowReplays
<1> HIDE DEF N
<1> QED BY <1>1, <1>2, ReplaysDice

(* A state with all the records of a roll shows the dice as they lie, or    *)
(* none.                                                                    *)
LEMMA PhysicalIsFacesNow ==
    ASSUME NEW throws, IsList(throws), throws # << >>,
           NEW state, state.original = throws[1].values, state.rerolls = Tail(throws)
    PROVE  Tray!PhysicalValues(state) \in {<< >>, Tray!FacesNow(throws)}
<1> DEFINE N == Len(Tail(throws))
<1>1. N \in Nat BY DEF IsList
<1>2. PICK h : Replays(h, 0, throws[1].values, Tail(throws), N) /\ Tray!FacesNow(throws) = h[N]
  BY <1>1, FacesNowReplays
<1>3. PICK g : Replays(g, 1, throws[1].values, Tail(throws), N) /\ Tray!PhysicalValues(state) = g[N]
  BY <1>1, PhysicalReplays
<1> HIDE DEF N
<1> QED BY <1>1, <1>2, <1>3, ReplaysAgree

(* A record that fits no dice hides them all. *)
LEMMA DefectHidesDice ==
    ASSUME NEW throws, IsList(throws), throws # << >>, IsDice(throws[1].values),
           NEW bad,
           \A v : DOMAIN v = 1 .. Dice => ~Tray!Fits(bad, v),
           NEW state, state.original = throws[1].values,
           state.rerolls = Append(Tail(throws), bad)
    PROVE  Tray!PhysicalValues(state) = << >>
<1> DEFINE r == Append(Tail(throws), bad)
           N == Len(r)
<1>1. N \in Nat \ {0} /\ r[N] = bad
  <2>1. PICK T : throws \in Seq(T) BY DEF IsList
  <2>2. Tail(throws) \in Seq(T \cup {bad}) BY <2>1
  <2> DEFINE s == Tail(throws)
  <2> HIDE DEF s
  <2>3. s \in Seq(T \cup {bad}) BY <2>2 DEF s
  <2>4. Len(Append(s, bad)) = Len(s) + 1 /\ Append(s, bad)[Len(s) + 1] = bad /\ Len(s) \in Nat
    BY <2>3
  <2> QED BY <2>4 DEF s
<1>2. PICK g : Replays(g, 1, throws[1].values, r, N) /\ Tray!PhysicalValues(state) = g[N]
  BY <1>1, PhysicalReplays
<1> HIDE DEF r, N
<1>3. N - 1 \in 0 .. N /\ N \in 0 .. N /\ N # 0 BY <1>1
<1>4. IsDice(g[N - 1]) \/ g[N - 1] = << >> BY <1>1, <1>2, <1>3, ReplaysDice
<1>5. g[N] = IF ~(g[N - 1] # << >> /\ Tray!Fits(bad, g[N - 1])) THEN << >>
             ELSE Tray!Replaced(g[N - 1], bad)
  BY <1>1, <1>2, <1>3 DEF Replays
<1>6. CASE IsDice(g[N - 1])
  <2>1. DOMAIN g[N - 1] = 1 .. Dice BY <1>6 DEF IsDice
  <2> QED BY <2>1, <1>2, <1>5
<1> QED BY <1>2, <1>4, <1>5, <1>6

(* What keeping the newest of a list leaves *)
LEMMA TrimmedIs ==
    ASSUME NEW s, IsList(s)
    PROVE  /\ IsList(Tray!Trimmed(s))
           /\ Len(Tray!Trimmed(s)) <= MaxPayloads
           /\ \E d \in Nat :
                /\ Len(Tray!Trimmed(s)) = Len(s) - d
                /\ \A i \in 1 .. Len(Tray!Trimmed(s)) : Tray!Trimmed(s)[i] = s[i + d]
<1>0. PICK T : s \in Seq(T) BY DEF IsList
<1>1. MaxPayloads \in Nat /\ Len(s) \in Nat BY <1>0, DiceAssumption
<1>2. CASE Len(s) <= MaxPayloads
  <2>1. Tray!Trimmed(s) = s BY <1>2 DEF Tray!Trimmed
  <2>2. 0 \in Nat /\ Len(s) = Len(s) - 0 /\ \A i \in 1 .. Len(s) : i = i + 0 BY <1>1
  <2>3. \A i \in 1 .. Len(s) : s[i] = s[i + 0] BY <2>2
  <2> QED BY <1>2, <2>1, <2>2, <2>3
<1>3. CASE Len(s) > MaxPayloads
  <2> DEFINE d == Len(s) - MaxPayloads
             u == SubSeq(s, d + 1, Len(s))
  <2>1. Tray!Trimmed(s) = u BY <1>1, <1>3 DEF Tray!Trimmed
  <2>2. d \in Nat /\ d + 1 \in 1 .. Len(s) + 1 /\ Len(s) - (d + 1) + 1 = MaxPayloads BY <1>1, <1>3
  <2>3. u \in Seq(T) /\ Len(u) = MaxPayloads /\ \A i \in 1 .. MaxPayloads : u[i] = s[i + d]
    <3> HIDE DEF d
    <3>1. \A i \in d + 1 .. Len(s) : s[i] \in T BY <1>0, <2>2
    <3>2. u \in Seq(T) BY <1>0, <2>2, <3>1
    <3>3. Len(u) = MaxPayloads BY <1>0, <1>1, <2>2
    <3>4. \A i \in 1 .. MaxPayloads : u[i] = s[i + d] BY <1>0, <1>1, <2>2
    <3> QED BY <3>2, <3>3, <3>4
  <2>4. MaxPayloads = Len(s) - d BY <1>1
  <2> HIDE DEF d, u
  <2>5. IsList(u) BY <2>3 DEF IsList
  <2>6. d \in Nat /\ Len(u) = Len(s) - d /\ \A i \in 1 .. Len(u) : u[i] = s[i + d] BY <2>2, <2>3, <2>4
  <2>7. Len(u) <= MaxPayloads BY <1>1, <2>3
  <2> QED BY <2>1, <2>5, <2>6, <2>7
<1> QED BY <1>1, <1>2, <1>3

Telling(s) == {i \in DOMAIN s : Tray!Seen(s[i]).kind # "nothing"}

(* The tray shows the roll of the last event that tells of one. *)
LEMMA LatestIs ==
    ASSUME NEW s, IsList(s)
    PROVE  /\ Telling(s) = {} => Tray!LatestRoll(s) = Nothing
           /\ \A m \in Telling(s) :
                (\A y \in Telling(s) : m >= y) => Tray!LatestRoll(s) = Tray!Seen(s[m]).roll
           /\ Telling(s) # {} => \E m \in Telling(s) : \A y \in Telling(s) : m >= y
           /\ Telling(s) \subseteq 1 .. Len(s) /\ Len(s) \in Nat
<1>1. Telling(s) \subseteq 1 .. Len(s) /\ Len(s) \in Nat BY DEF Telling, IsList
<1>2. Telling(s) = {} => Tray!LatestRoll(s) = Nothing BY DEF Tray!LatestRoll, Telling
<1>3. ASSUME Telling(s) # {}
      PROVE  /\ Tray!LatestRoll(s) = Tray!Seen(s[Max(Telling(s))]).roll
             /\ Max(Telling(s)) \in Telling(s) /\ \A y \in Telling(s) : Max(Telling(s)) >= y
  <2>1. Max(Telling(s)) \in Telling(s) /\ \A y \in Telling(s) : Max(Telling(s)) >= y
    BY <1>1, <1>3, MaxIs
  <2>2. Tray!LatestRoll(s) = Tray!Seen(s[Tray!Max(Telling(s))]).roll
    BY <1>3 DEF Tray!LatestRoll, Telling
  <2>3. Tray!Max(Telling(s)) = Max(Telling(s)) BY DEF Tray!Max, Max
  <2> QED BY <2>1, <2>2, <2>3
<1>4. ASSUME NEW m \in Telling(s), \A y \in Telling(s) : m >= y
      PROVE  Tray!LatestRoll(s) = Tray!Seen(s[m]).roll
  <2>1. Max(Telling(s)) \in Telling(s) /\ Max(Telling(s)) >= m /\ m >= Max(Telling(s)) BY <1>3, <1>4
  <2>2. Max(Telling(s)) = m BY <1>1, <2>1
  <2> QED BY <1>3, <2>2
<1> QED BY <1>1, <1>2, <1>3, <1>4

(* The roll that is newest once an event was sent *)
LEMMA LatestOfSent ==
    ASSUME IsList(tail), NEW e, Tray!Sent(e)
    PROVE  /\ IsList(tail') /\ Len(tail') <= MaxPayloads
           /\ Tray!LatestRoll(tail') \in
                {Nothing} \cup IF Tray!Seen(e).kind = "nothing" THEN {Tray!LatestRoll(tail)}
                               ELSE {Tray!Seen(e).roll}
<1> DEFINE s == Append(tail, e)
           u == Tray!Trimmed(s)
<1>0. PICK T : tail \in Seq(T) BY DEF IsList
<1>1. tail \in Seq(T \cup {e}) BY <1>0
<1>2. /\ IsList(s) /\ Len(s) = Len(tail) + 1 /\ Len(tail) \in Nat
      /\ s[Len(tail) + 1] = e /\ \A i \in 1 .. Len(tail) : s[i] = tail[i]
  <2>1. s \in Seq(T \cup {e}) BY <1>1
  <2> QED BY <1>1, <2>1 DEF IsList
<1>3. tail' = u BY DEF Tray!Sent
<1> HIDE DEF s
<1>4. /\ IsList(u) /\ Len(u) <= MaxPayloads
      /\ \E d \in Nat : Len(u) = Len(s) - d /\ \A i \in 1 .. Len(u) : u[i] = s[i + d]
  BY <1>2, TrimmedIs
<1> HIDE DEF u
<1>5. PICK d \in Nat : Len(u) = Len(s) - d /\ \A i \in 1 .. Len(u) : u[i] = s[i + d] BY <1>4
<1>6. Telling(u) \subseteq 1 .. Len(u) /\ Len(u) \in Nat BY <1>4, LatestIs
<1>7. CASE Telling(u) = {}
  <2>1. Tray!LatestRoll(u) = Nothing BY <1>4, <1>7, LatestIs
  <2> QED BY <1>3, <1>4, <2>1
<1>8. CASE Telling(u) # {}
  <2>1. PICK m \in Telling(u) : \A y \in Telling(u) : m >= y BY <1>4, <1>8, LatestIs
  <2>2. Tray!LatestRoll(u) = Tray!Seen(u[m]).roll BY <1>4, <2>1, LatestIs
  <2>3. u[m] = s[m + d] /\ m + d \in 1 .. Len(tail) + 1 /\ m \in 1 .. Len(u) BY <1>2, <1>5, <1>6
  <2>4. Tray!Seen(s[m + d]).kind # "nothing" BY <2>1, <2>3 DEF Telling
  <2>5. DOMAIN u = 1 .. Len(u) BY <1>4 DEF IsList
  <2>6. CASE m + d = Len(tail) + 1
    <3>1. s[m + d] = e BY <1>2, <2>6
    <3> QED BY <1>3, <1>4, <2>2, <2>3, <2>4, <3>1
  <2>7. CASE m + d # Len(tail) + 1
    <3>1. m + d \in 1 .. Len(tail) /\ s[m + d] = tail[m + d] BY <1>2, <2>3, <2>7
    <3>2. DOMAIN tail = 1 .. Len(tail) BY <1>0
    <3>3. m + d \in Telling(tail) BY <2>4, <3>1, <3>2 DEF Telling
    <3>4. Tray!Seen(e).kind = "nothing"
      <4> SUFFICES ASSUME Tray!Seen(e).kind # "nothing" PROVE FALSE
        OBVIOUS
      <4>1. Len(u) \in 1 .. Len(u) /\ u[Len(u)] = s[Len(u) + d] /\ Len(u) + d = Len(tail) + 1
        BY <1>2, <1>5, <1>6, <2>3
      <4>2. Len(u) \in Telling(u) BY <1>2, <2>5, <4>1 DEF Telling
      <4>3. m >= Len(u) BY <2>1, <4>2
      <4> QED BY <2>3, <2>7, <4>1, <4>3
    <3>5. ASSUME NEW y \in Telling(tail) PROVE m + d >= y
      <4> SUFFICES ASSUME ~(m + d >= y) PROVE FALSE
        OBVIOUS
      <4>1. y \in 1 .. Len(tail) /\ Tray!Seen(tail[y]).kind # "nothing" BY <3>2 DEF Telling
      <4>2. y - d \in 1 .. Len(u) /\ (y - d) + d = y BY <1>2, <1>5, <2>3, <4>1
      <4>3. u[y - d] = tail[y] BY <1>2, <1>5, <4>1, <4>2
      <4>4. y - d \in Telling(u) BY <2>5, <4>1, <4>2, <4>3 DEF Telling
      <4>5. m >= y - d BY <2>1, <4>4
      <4> QED BY <2>3, <4>1, <4>2, <4>5
    <3>6. Tray!LatestRoll(tail) = Tray!Seen(tail[m + d]).roll BY <3>3, <3>5, LatestIs
    <3> QED BY <1>3, <1>4, <2>2, <2>3, <3>1, <3>4, <3>6
  <2> QED BY <2>6, <2>7
<1> QED BY <1>7, <1>8

(* The dice of a roll that is shown are the ones on the table *)
Shown(r, roll) ==
    \/ roll = Nothing
    \/ \E id \in RollIds : r[id] # << >> /\ \E a, x : roll = Tray!Roll(id, Tray!FacesNow(r[id]), a, x)

DiceInv ==
    /\ rolled = [id \in RollIds |-> rolled[id]]
    /\ \A id \in RollIds : IsList(rolled[id]) /\ (rolled[id] # << >> => IsDice(rolled[id][1].values))
    /\ asked # Nothing => asked.roll_id \in RollIds /\ rolled[asked.roll_id] # << >>
    /\ IsList(tail) /\ Len(tail) <= MaxPayloads
    /\ Shown(rolled, Tray!LatestRoll(tail))

(* An event with a roll state shows that state's dice, and nothing when the *)
(* state has none.                                                          *)
LEMMA SeenOfState ==
    ASSUME NEW e, e.kind \in {"advance_roll_resolved", "nested"}
    PROVE  /\ Tray!Seen(e).roll = Tray!RollFromState(e.state)
           /\ Tray!Seen(e).kind = "nothing" <=> e.state.original = << >>
<1>1. Tray!Seen(e) =
        [kind |-> IF e.state.original = << >> THEN "nothing"
                  ELSE IF Tray!RollFromState(e.state) = Nothing THEN "defect" ELSE "roll",
         roll |-> Tray!RollFromState(e.state)]
    BY DEF Tray!Seen
<1> DEFINE roll == Tray!RollFromState(e.state)
<1> HIDE DEF roll
<1>2. Tray!Seen(e) =
        [kind |-> IF e.state.original = << >> THEN "nothing" ELSE IF roll = Nothing THEN "defect" ELSE "roll",
         roll |-> roll]
    BY <1>1 DEF roll
<1> QED BY <1>2 DEF roll

(* A plain result always shows a roll. *)
LEMMA SeenOfResult ==
    ASSUME NEW e, e.kind = "dice_rolled"
    PROVE  /\ Tray!Seen(e).roll = Tray!RollFromResult(e.state)
           /\ Tray!Seen(e).kind # "nothing"
<1> DEFINE roll == Tray!RollFromResult(e.state)
<1>1. Tray!Seen(e) = [kind |-> IF roll = Nothing THEN "defect" ELSE "roll", roll |-> roll]
    BY DEF Tray!Seen
<1> HIDE DEF roll
<1> QED BY <1>1 DEF roll

(* Other events show none. *)
LEMMA SeenOfOthers ==
    ASSUME NEW e, e.kind \in {"other", "not_an_object"}
    PROVE  Tray!Seen(e).kind = "nothing" /\ Tray!Seen(e).roll = Nothing
  BY DEF Tray!Seen

(* A roll state whose records and result are read shows the dice as they    *)
(* lie on the table, or none.                                               *)
LEMMA StateShows ==
    ASSUME NEW r, NEW id \in RollIds, r[id] # << >>, NEW state, state.roll_id = id,
           Tray!PhysicalValues(state) \in {<< >>, Tray!FacesNow(r[id])}
    PROVE  Shown(r, Tray!RollFromState(state))
<1> DEFINE v == Tray!PhysicalValues(state)
<1>1. CASE v = << >> \/ Len(state.current) # Len(v)
  BY <1>1 DEF Tray!RollFromState, Shown
<1>2. CASE ~(v = << >> \/ Len(state.current) # Len(v))
  <2>1. Tray!RollFromState(state) = Tray!Roll(state.roll_id, v, state.current, Tray!RerolledIndices(state))
    BY <1>2 DEF Tray!RollFromState
  <2>2. v = Tray!FacesNow(r[id]) BY <1>2
  <2> QED BY <2>1, <2>2 DEF Shown
<1> QED BY <1>1, <1>2

(* One event later *)
LEMMA SentShows ==
    ASSUME DiceInv, NEW e, Tray!Sent(e), NEW r,
           Tray!Seen(e).kind # "nothing" => Shown(r, Tray!Seen(e).roll),
           Tray!Seen(e).kind = "nothing" => r = rolled
    PROVE  IsList(tail') /\ Len(tail') <= MaxPayloads /\ Shown(r, Tray!LatestRoll(tail'))
<1>1. /\ IsList(tail') /\ Len(tail') <= MaxPayloads
      /\ Tray!LatestRoll(tail') \in
           {Nothing} \cup IF Tray!Seen(e).kind = "nothing" THEN {Tray!LatestRoll(tail)}
                          ELSE {Tray!Seen(e).roll}
    BY LatestOfSent DEF DiceInv
<1>2. Shown(r, Nothing) BY DEF Shown
<1>3. Tray!Seen(e).kind = "nothing" => Shown(r, Tray!LatestRoll(tail)) BY DEF DiceInv
<1> QED BY <1>1, <1>2, <1>3

(* The invariant of the dice, step by step: a first throw, *)
LEMMA RollDiceKeeps ==
    ASSUME DiceInv, NEW id \in RollIds, Tray!RollDice(id)
    PROVE  DiceInv'
<1>1. PICK t \in Tray!Throws : rolled' = [rolled EXCEPT ![id] = <<[indices |-> [i \in 1 .. Dice |-> i], values |-> t]>>]
  BY DEF Tray!RollDice
<1>2. PICK throw : throw = [indices |-> [i \in 1 .. Dice |-> i], values |-> t] OBVIOUS
<1>3. PICK r : r = rolled' OBVIOUS
<1>4. r = [rolled EXCEPT ![id] = <<throw>>] BY <1>1, <1>2, <1>3
<1>5. /\ r = [x \in RollIds |-> r[x]] /\ r[id] = <<throw>>
      /\ \A x \in RollIds : x # id => r[x] = rolled[x]
  BY <1>4 DEF DiceInv
<1>6. IsDice(t) /\ throw.values = t
  <2>1. t = [i \in 1 .. Dice |-> t[i]] BY DEF Tray!Throws
  <2> QED BY <1>2, <2>1 DEF IsDice
<1>7. PICK throws : throws = <<throw>> OBVIOUS
<1>8. IsList(throws) /\ throws # << >> /\ throws[1] = throw /\ Tray!FacesNow(throws) = t
  <2>1. throws \in Seq({throw}) BY <1>7
  <2>2. IsList(throws) BY <2>1 DEF IsList
  <2>3. throws # << >> /\ throws[1] = throw /\ Len(Tail(throws)) = 0 BY <1>7
  <2>4. PICK g : Replays(g, 0, throws[1].values, Tail(throws), Len(Tail(throws))) /\ Tray!FacesNow(throws) = g[Len(Tail(throws))]
    BY <2>3, FacesNowReplays
  <2>5. g[0] = throws[1].values BY <2>3, <2>4 DEF Replays
  <2> QED BY <1>6, <2>2, <2>3, <2>4, <2>5
<1>9. PICK e :
        /\ e = [kind |-> "dice_rolled",
                state |-> [roll_id |-> id, original |-> rolled'[id][1].values, rerolls |-> << >>, current |-> << >>]]
        /\ Tray!Sent(e)
  BY DEF Tray!RollDice
<1>10. e.kind = "dice_rolled" /\ e.state.roll_id = id /\ e.state.original = t
  BY <1>3, <1>5, <1>6, <1>7, <1>8, <1>9
<1>11. Tray!Seen(e).kind # "nothing" /\ Tray!Seen(e).roll = Tray!Roll(id, t, t, {})
  <2>1. t # << >> BY <1>6, DiceAre
  <2>2. Tray!RollFromResult(e.state) = Tray!Roll(id, t, t, {}) BY <1>10, <2>1 DEF Tray!RollFromResult
  <2> QED BY <1>10, <2>2, SeenOfResult
<1>12. Shown(r, Tray!Seen(e).roll)
  <2>1. r[id] # << >> /\ t = Tray!FacesNow(r[id]) BY <1>5, <1>7, <1>8
  <2> QED BY <1>11, <2>1 DEF Shown
<1>13. IsList(tail') /\ Len(tail') <= MaxPayloads /\ Shown(r, Tray!LatestRoll(tail'))
  BY <1>9, <1>11, <1>12, SentShows
<1>14. asked' = asked /\ asked = Nothing BY DEF Tray!RollDice
<1>15. ASSUME NEW x \in RollIds
       PROVE  IsList(r[x]) /\ (r[x] # << >> => IsDice(r[x][1].values))
  BY <1>5, <1>6, <1>7, <1>8 DEF DiceInv
<1> QED BY <1>3, <1>5, <1>13, <1>14, <1>15 DEF DiceInv

(* a reroll that is told by either kind of event, *)
LEMMA RerollKeeps ==
    ASSUME DiceInv, NEW chosen, NEW kind \in {"advance_roll_resolved", "nested"}, Tray!Reroll(chosen, kind)
    PROVE  DiceInv'
<1> DEFINE id == asked.roll_id
<1>0. id \in RollIds /\ rolled[id] # << >> /\ asked' = Nothing
  BY DEF Tray!Reroll, DiceInv
<1>1. PICK throw : rolled' = [rolled EXCEPT ![id] = Append(@, throw)]
  BY DEF Tray!Reroll
<1>2. PICK throws : throws = Append(rolled[id], throw) OBVIOUS
<1>3. PICK r : r = rolled' OBVIOUS
<1>4. PICK e :
        /\ e = [kind |-> kind,
                state |-> [roll_id |-> id, original |-> rolled[id][1].values, rerolls |-> Tail(rolled'[id]),
                           current |-> Tray!FacesNow(rolled'[id])]]
        /\ Tray!Sent(e)
  BY DEF Tray!Reroll
<1> HIDE DEF id
<1>5. /\ r = [x \in RollIds |-> r[x]] /\ r[id] = throws
      /\ \A x \in RollIds : x # id => r[x] = rolled[x]
  BY <1>0, <1>1, <1>2, <1>3 DEF DiceInv
<1>6. IsList(throws) /\ throws # << >> /\ throws[1] = rolled[id][1]
  <2>1. PICK T : rolled[id] \in Seq(T) BY <1>0 DEF DiceInv, IsList
  <2>2. rolled[id] \in Seq(T \cup {throw}) BY <2>1
  <2>3. throws \in Seq(T \cup {throw}) /\ Len(throws) = Len(rolled[id]) + 1 BY <1>2, <2>2
  <2>4. 1 \in 1 .. Len(rolled[id]) BY <1>0, <2>1
  <2>5. throws[1] = rolled[id][1] BY <1>2, <2>2, <2>4
  <2> QED BY <2>1, <2>3, <2>5 DEF IsList
<1>7. IsDice(throws[1].values) BY <1>0, <1>6 DEF DiceInv
<1>8. /\ e.kind = kind /\ e.state.roll_id = id /\ e.state.original = throws[1].values
      /\ e.state.rerolls = Tail(throws)
  BY <1>3, <1>4, <1>5, <1>6
<1>9. Tray!Seen(e).kind # "nothing"
  <2>1. e.state.original # << >> BY <1>7, <1>8, DiceAre
  <2> QED BY <1>8, <2>1, SeenOfState
<1>10. Shown(r, Tray!Seen(e).roll)
  <2>1. Tray!PhysicalValues(e.state) \in {<< >>, Tray!FacesNow(throws)} BY <1>6, <1>8, PhysicalIsFacesNow
  <2>2. Shown(r, Tray!RollFromState(e.state)) BY <1>0, <1>5, <1>6, <1>8, <2>1, StateShows
  <2> QED BY <1>8, <2>2, SeenOfState
<1>11. IsList(tail') /\ Len(tail') <= MaxPayloads /\ Shown(r, Tray!LatestRoll(tail'))
  BY <1>4, <1>9, <1>10, SentShows
<1>12. ASSUME NEW x \in RollIds
       PROVE  IsList(r[x]) /\ (r[x] # << >> => IsDice(r[x][1].values))
  BY <1>5, <1>6, <1>7 DEF DiceInv
<1> QED BY <1>0, <1>3, <1>5, <1>11, <1>12 DEF DiceInv

(* and an event that tells of no roll, or of a defective one. *)
LEMMA ReportKeeps ==
    ASSUME DiceInv, Tray!Report
    PROVE  DiceInv'
<1>0. rolled' = rolled /\ asked' = asked BY DEF Tray!Report
<1>1. ASSUME NEW e, Tray!Sent(e), Tray!Seen(e).kind # "nothing" => Shown(rolled, Tray!Seen(e).roll)
      PROVE  DiceInv'
  <2>1. IsList(tail') /\ Len(tail') <= MaxPayloads /\ Shown(rolled, Tray!LatestRoll(tail'))
    BY <1>1, SentShows
  <2> QED BY <1>0, <2>1 DEF DiceInv
<1>2. ASSUME NEW kind \in {"other", "not_an_object"}, Tray!Sent([kind |-> kind, state |-> Nothing])
      PROVE  DiceInv'
  <2>1. PICK e : e = [kind |-> kind, state |-> Nothing] /\ Tray!Sent(e) BY <1>2
  <2>2. Tray!Seen(e).kind = "nothing" BY <2>1, SeenOfOthers
  <2> QED BY <1>1, <2>1, <2>2
<1>3. ASSUME NEW id \in RollIds,
             Tray!Sent([kind |-> "dice_rolled",
                        state |-> [roll_id |-> id, original |-> << >>, rerolls |-> << >>, current |-> << >>]])
      PROVE  DiceInv'
  <2>1. PICK e : /\ e = [kind |-> "dice_rolled",
                         state |-> [roll_id |-> id, original |-> << >>, rerolls |-> << >>, current |-> << >>]]
                 /\ Tray!Sent(e)
    BY <1>3
  <2>2. Tray!Seen(e).roll = Nothing BY <2>1, SeenOfResult DEF Tray!RollFromResult
  <2> QED BY <1>1, <2>1, <2>2 DEF Shown
<1>4. ASSUME NEW id \in RollIds, rolled[id] # << >>,
             NEW state \in Tray!Defective(Tray!StateOf(id)), Tray!Sent([kind |-> "nested", state |-> state])
      PROVE  DiceInv'
  <2>1. PICK e : e = [kind |-> "nested", state |-> state] /\ Tray!Sent(e) BY <1>4
  <2>2. PICK throws : throws = rolled[id] OBVIOUS
  <2>3. IsList(throws) /\ throws # << >> /\ IsDice(throws[1].values) BY <1>4, <2>2 DEF DiceInv
  <2>12. PICK whole : whole = Tray!StateOf(id) OBVIOUS
  <2>4. /\ whole = [roll_id |-> id, original |-> throws[1].values, rerolls |-> Tail(throws),
                    current |-> Tray!FacesNow(throws)]
        /\ whole.original = throws[1].values /\ whole.rerolls = Tail(throws)
        /\ whole.current = Tray!FacesNow(throws)
    BY <2>2, <2>12 DEF Tray!StateOf
  <2>5. ASSUME Tray!RollFromState(state) = Nothing PROVE DiceInv'
    <3>1. Tray!Seen(e).roll = Nothing BY <2>1, <2>5, SeenOfState
    <3> QED BY <1>1, <2>1, <3>1 DEF Shown
  <2>6. ASSUME NEW bad, \A v : DOMAIN v = 1 .. Dice => ~Tray!Fits(bad, v),
               state = [whole EXCEPT !.rerolls = Append(@, bad)]
        PROVE  DiceInv'
    <3>1. state.original = throws[1].values /\ state.rerolls = Append(Tail(throws), bad)
      BY <2>4, <2>6
    <3>2. Tray!PhysicalValues(state) = << >> BY <2>3, <2>6, <3>1, DefectHidesDice
    <3>3. Tray!RollFromState(state) = Nothing BY <3>2 DEF Tray!RollFromState
    <3> QED BY <2>5, <3>3
  <2>7. CASE state = [whole EXCEPT !.rerolls = Append(@, [indices |-> <<1>>, values |-> << >>])]
    <3>1. PICK bad : bad = [indices |-> <<1>>, values |-> << >>] OBVIOUS
    <3>2. Len(bad.indices) = 1 /\ Len(bad.values) = 0 BY <3>1
    <3>3. \A v : ~Tray!Fits(bad, v) BY <3>2 DEF Tray!Fits
    <3> QED BY <2>6, <2>7, <3>1, <3>3
  <2>8. CASE state = [whole EXCEPT !.rerolls = Append(@, [indices |-> <<1>>, values |-> <<1, 2>>])]
    <3>1. PICK bad : bad = [indices |-> <<1>>, values |-> <<1, 2>>] OBVIOUS
    <3>2. Len(bad.indices) = 1 /\ Len(bad.values) = 2 BY <3>1
    <3>3. \A v : ~Tray!Fits(bad, v) BY <3>2 DEF Tray!Fits
    <3> QED BY <2>6, <2>8, <3>1, <3>3
  <2>9. CASE state = [whole EXCEPT !.rerolls = Append(@, [indices |-> <<Dice + 1>>, values |-> <<1>>])]
    <3>1. PICK bad : bad = [indices |-> <<Dice + 1>>, values |-> <<1>>] OBVIOUS
    <3>2. Dice + 1 \notin 1 .. Dice BY DiceAssumption
    <3>3. Dice + 1 \in Tray!ToSet(bad.indices)
      <4>1. 1 \in DOMAIN bad.indices /\ bad.indices[1] = Dice + 1 BY <3>1
      <4> QED BY <4>1 DEF Tray!ToSet
    <3>4. \A v : DOMAIN v = 1 .. Dice => ~Tray!Fits(bad, v) BY <3>2, <3>3 DEF Tray!Fits
    <3> QED BY <2>6, <2>9, <3>1, <3>4
  <2>10. CASE state = [whole EXCEPT !.current = Tail(@)]
    <3>1. /\ state.original = throws[1].values /\ state.rerolls = Tail(throws)
          /\ state.current = Tail(Tray!FacesNow(throws))
      BY <2>4, <2>10
    <3>2. Tray!PhysicalValues(state) \in {<< >>, Tray!FacesNow(throws)} BY <2>3, <3>1, PhysicalIsFacesNow
    <3>3. Len(Tray!FacesNow(throws)) = Dice /\ Len(state.current) # Dice
      BY <2>3, <3>1, FacesNowDice, DiceAre
    <3>4. Tray!RollFromState(state) = Nothing BY <3>2, <3>3 DEF Tray!RollFromState
    <3> QED BY <2>5, <3>4
  <2>11. CASE state = [whole EXCEPT !.original = << >>]
    <3>1. state.original = << >> BY <2>4, <2>11
    <3>2. Tray!Seen(e).kind = "nothing" BY <2>1, <3>1, SeenOfState
    <3> QED BY <1>1, <2>1, <3>2
  <2> QED BY <1>4, <2>12, <2>7, <2>8, <2>9, <2>10, <2>11 DEF Tray!Defective
<1> QED BY <1>2, <1>3, <1>4 DEF Tray!Report

(* Whatever the other parts of the table do, the tray stays in step with    *)
(* the dice.                                                                *)
LEMMA DiceInvariant == TableSpec => []DiceInv
<1>1. TableInit => DiceInv
  <2> SUFFICES ASSUME TableInit PROVE DiceInv
    OBVIOUS
  <2>1. rolled = [id \in RollIds |-> << >>] /\ tail = << >> /\ asked = Nothing
    BY DEF TableInit, Tray!DiceInit
  <2>2. IsList(<< >>) /\ Len(<< >>) = 0
    <3>1. << >> \in Seq({}) OBVIOUS
    <3> QED BY <3>1 DEF IsList
  <2>3. Telling(<< >>) = {} BY DEF Telling
  <2>4. Tray!LatestRoll(<< >>) = Nothing BY <2>2, <2>3, LatestIs
  <2> QED BY <2>1, <2>2, <2>4, DiceAssumption DEF DiceInv, Shown
<1>2. DiceInv /\ [TableNext]_TableVars => DiceInv'
  <2> SUFFICES ASSUME DiceInv, [TableNext]_TableVars PROVE DiceInv'
    OBVIOUS
  <2>1. CASE UNCHANGED diceVars BY <2>1 DEF diceVars, DiceInv
  <2>2. CASE Tray!DiceNext
    <3>1. ASSUME NEW id \in RollIds, Tray!RollDice(id) PROVE DiceInv' BY <3>1, RollDiceKeeps
    <3>2. ASSUME NEW id \in RollIds, NEW allowed \in Selections, Tray!Offer(id, allowed) PROVE DiceInv'
      BY <3>2 DEF Tray!Offer, DiceInv
    <3>3. ASSUME NEW chosen, NEW kind \in {"advance_roll_resolved", "nested"}, Tray!Reroll(chosen, kind)
          PROVE  DiceInv'
      BY <3>3, RerollKeeps
    <3>4. CASE Tray!Decline BY <3>4 DEF Tray!Decline, DiceInv
    <3>5. CASE Tray!Report BY <3>5, ReportKeeps
    <3> QED BY <2>2, <3>1, <3>2, <3>3, <3>4, <3>5 DEF Tray!DiceNext
  <2> QED BY <2>1, <2>2 DEF TableNext, TableVars
<1> QED BY <1>1, <1>2, PTL DEF TableSpec

(* After any sequence of rolls, rerolls and unreadable records, the faces   *)
(* shown of a roll are those of its dice as they lie on the table, and each *)
(* die of a D6 counts in one column; while a reroll is pending they are the *)
(* faces of the roll it is for (build_dice_tray_view, _latest_roll,         *)
(* _physical_values_after_rerolls, _face_columns).                          *)
THEOREM FacesShownAreRolled == TableSpec => []FacesAreRolled
<1>1. asked # Nothing => Tray!Tray.roll.roll_id = asked.roll_id
  <2>1. Tray!Tray.roll = Tray!ActiveRoll(Tray!LatestRoll(tail), asked) BY DEF Tray!Tray
  <2> QED BY <2>1 DEF Tray!ActiveRoll, Tray!Placeholder
<1>2. DiceInv => FacesAreRolled
  <2> SUFFICES ASSUME DiceInv,
                      Tray!Tray.roll # Nothing, Tray!Tray.roll.values # << >>
               PROVE  LET roll == Tray!Tray.roll
                      IN  /\ roll.values = Tray!FacesNow(rolled[roll.roll_id])
                          /\ \A i \in DOMAIN roll.values :
                               {f \in Tray!FacesOfD6 : i \in Tray!Tray.faces[f].indices}
                                 = {roll.values[i]} \cap Tray!FacesOfD6
    BY <1>1 DEF FacesAreRolled, Tray!FacesAreRolled
  <2>1. Tray!Tray.roll = Tray!ActiveRoll(Tray!LatestRoll(tail), asked) BY DEF Tray!Tray
  <2>2. Tray!Tray.roll = Tray!LatestRoll(tail) BY <2>1 DEF Tray!ActiveRoll, Tray!Placeholder
  <2>3. PICK id \in RollIds : \E a, x : Tray!Tray.roll = Tray!Roll(id, Tray!FacesNow(rolled[id]), a, x)
    BY <2>2 DEF DiceInv, Shown
  <2>4. PICK a, x : Tray!Tray.roll = Tray!Roll(id, Tray!FacesNow(rolled[id]), a, x) BY <2>3
  <2>5. PICK roll : roll = Tray!Tray.roll OBVIOUS
  <2>6. PICK v : v = Tray!FacesNow(rolled[id]) OBVIOUS
  <2>7. roll.roll_id = id /\ roll.values = v /\ roll.components = [i \in DOMAIN v |-> Tray!Component(i, v, a, x)]
    BY <2>4, <2>5, <2>6 DEF Tray!Roll
  <2>8. Tray!Tray.faces = [f \in Tray!FacesOfD6 |-> Tray!Column(f, roll, Tray!SelectableIndices(asked))]
    BY <2>1, <2>5 DEF Tray!Tray
  <2>9. ASSUME NEW i \in DOMAIN v, NEW f \in Tray!FacesOfD6
        PROVE  i \in Tray!Tray.faces[f].indices <=> f = v[i]
    <3>1. Tray!Tray.faces[f].indices = {j \in DOMAIN roll.components : roll.components[j].value = f}
      BY <2>8 DEF Tray!Column
    <3>2. i \in DOMAIN roll.components /\ roll.components[i].value = v[i]
      BY <2>7 DEF Tray!Component
    <3> QED BY <3>1, <3>2
  <2> QED BY <2>5, <2>6, <2>7, <2>9
<1> QED BY <1>2, DiceInvariant, PTL

-----------------------------------------------------------------------------
(* The local selection *)

(* The list operators the pointer uses are those of Lists *)
LEMMA PointerLists ==
    /\ \A s : Pointer!ToSet(s) = ToSet(s) /\ Pointer!FlattenSeq(s) = FlattenSeq(s)
    /\ \A s, S : Pointer!Filtered(s, S) = Filtered(s, S)
    /\ \A f : Pointer!IsInjective(f) <=> IsInjective(f)
<1>1. \A s : Pointer!ToSet(s) = ToSet(s) BY DEF Pointer!ToSet, ToSet
<1>2. \A s : Pointer!FlattenSeq(s) = FlattenSeq(s) BY DEF Pointer!FlattenSeq, FlattenSeq
<1>3. \A s, S : Pointer!Filtered(s, S) = Filtered(s, S) BY <1>2 DEF Pointer!Filtered, Filtered
<1>4. \A f : Pointer!IsInjective(f) <=> IsInjective(f) BY DEF Pointer!IsInjective, IsInjective
<1> QED BY <1>1, <1>2, <1>3, <1>4

(* Dropping repeats leaves each element once. *)
LEMMA WithoutRepeatsIs ==
    ASSUME NEW T, NEW s \in Seq(T)
    PROVE  /\ Pointer!WithoutRepeats(s) \in Seq(T)
           /\ IsInjective(Pointer!WithoutRepeats(s))
<1> DEFINE one(i) == IF \E j \in 1 .. i - 1 : s[j] = s[i] THEN << >> ELSE <<s[i]>>
           seqs == [i \in DOMAIN s |-> one(i)]
<1>0. DOMAIN s = 1 .. Len(s) /\ Len(s) \in Nat /\ \A i \in 1 .. Len(s) : s[i] \in T OBVIOUS
<1>1. ASSUME NEW i \in 1 .. Len(s)
      PROVE  one(i) \in Seq(T) /\ IsInjective(one(i))
  BY <1>0 DEF IsInjective
<1>2. ASSUME NEW i \in 1 .. Len(s), NEW j \in 1 .. Len(s), i < j
      PROVE  ToSet(one(i)) \cap ToSet(one(j)) = {}
  <2>0. ToSet(<<s[i]>>) = {s[i]} /\ ToSet(<<s[j]>>) = {s[j]} /\ ToSet(<< >>) = {} BY DEF ToSet
  <2>1. CASE s[i] = s[j]
    <3>1. i \in 1 .. j - 1 BY <1>2
    <3>2. one(j) = << >> BY <2>1, <3>1
    <3> QED BY <2>0, <3>2
  <2>2. CASE s[i] # s[j] BY <2>0, <2>2
  <2> QED BY <2>1, <2>2
<1>3. Pointer!WithoutRepeats(s) = FlattenSeq(seqs) BY PointerLists DEF Pointer!WithoutRepeats
<1> HIDE DEF one
<1>4. DOMAIN seqs = DOMAIN s /\ Len(seqs) = Len(s) /\ seqs \in Seq(Seq(T)) BY <1>0, <1>1, IsASeq
<1>5. ASSUME NEW i \in 1 .. Len(s), NEW j \in 1 .. Len(s), i # j
      PROVE  ToSet(seqs[i]) \cap ToSet(seqs[j]) = {}
  <2>1. (i < j \/ j < i) /\ seqs[i] = one(i) /\ seqs[j] = one(j) BY <1>0, <1>5
  <2> QED BY <1>2, <2>1
<1>7. \A i \in 1 .. Len(s) : IsInjective(seqs[i]) BY <1>0, <1>1
<1> HIDE DEF seqs
<1>6. Apart(seqs, T) BY <1>4, <1>5, <1>7 DEF Apart
<1> HIDE DEF seqs
<1> QED BY <1>3, <1>4, <1>6, FlattenKeeps, FlattenDistinct

(* The active overlays of any list of ids are overlays of this build, each  *)
(* once.                                                                    *)
LEMMA ActiveIs ==
    ASSUME NEW ids, IsList(ids)
    PROVE  Pointer!Active(ids) \in Seq(Pointer!ActiveOverlays) /\ IsInjective(Pointer!Active(ids))
<1>1. Filtered(ids, Pointer!ActiveOverlays) \in Seq(Pointer!ActiveOverlays) BY FilteredProperties DEF IsList
<1>2. Pointer!Active(ids) = Pointer!WithoutRepeats(Filtered(ids, Pointer!ActiveOverlays))
  BY PointerLists DEF Pointer!Active
<1> QED BY <1>1, <1>2, WithoutRepeatsIs

(* and nothing is dropped where nothing is repeated. *)
LEMMA WithoutRepeatsAll ==
    ASSUME NEW T, NEW s \in Seq(T), IsInjective(s)
    PROVE  Pointer!WithoutRepeats(s) = s
<1>1. \A i \in DOMAIN s : ~ \E j \in 1 .. i - 1 : s[j] = s[i]
  <2>1. DOMAIN s = 1 .. Len(s) /\ Len(s) \in Nat OBVIOUS
  <2>2. \A i \in 1 .. Len(s), j \in 1 .. Len(s) : s[i] = s[j] => i = j BY <2>1 DEF IsInjective
  <2> QED BY <2>1, <2>2
<1>2. Pointer!WithoutRepeats(s) =
        FlattenSeq([i \in DOMAIN s |-> IF \E j \in 1 .. i - 1 : s[j] = s[i] THEN << >> ELSE <<s[i]>>])
  BY PointerLists DEF Pointer!WithoutRepeats
<1>3. [i \in DOMAIN s |-> IF \E j \in 1 .. i - 1 : s[j] = s[i] THEN << >> ELSE <<s[i]>>] = [i \in DOMAIN s |-> <<s[i]>>]
  BY <1>1
<1> QED BY <1>2, <1>3, FlattenSingles

-----------------------------------------------------------------------------
(* Preferences *)

(* A reading that reports no error *)
Clean(reading) == \A d \in reading.diagnostics : d.severity # "error"

(* What is of a type is neither missing nor of another type. *)
LEMMA Typed ==
    ASSUME NEW x, x \in Words \/ x \in Seq(Words) \/ x \in BOOLEAN \/ x \in Int \/ x \in Seq(Int)
    PROVE  Pointer!WellTyped(x)
  BY MarkersAssumption DEF Pointer!WellTyped

(* A reader keeps what is well typed, and otherwise falls back and says so. *)
LEMMA RequiredIs ==
    ASSUME NEW raw, NEW fallback, NEW code, NEW field
    PROVE  LET r == Pointer!Required(raw, fallback, code, field)
           IN  /\ r.value = IF Pointer!WellTyped(raw) THEN raw ELSE fallback
               /\ Clean(r) => Pointer!WellTyped(raw)
  BY DEF Pointer!Required, Pointer!Read, Pointer!Error, Clean

(* A list of strings is read without what is no string, *)
LEMMA StringsAre ==
    ASSUME NEW raw, NEW field, raw \in Seq(Words \cup {Wrong}) \/ ~Pointer!WellTyped(raw)
    PROVE  /\ Pointer!Strings(raw, field).value \in Seq(Words)
           /\ Clean(Pointer!Strings(raw, field)) => Pointer!WellTyped(raw) /\ Pointer!Strings(raw, field).value = raw
<1> DEFINE list == IF Pointer!WellTyped(raw) THEN raw ELSE << >>
           kept == Pointer!WellTypedOf(list)
           r    == Pointer!Strings(raw, field)
<1>1. list \in Seq(Words \cup {Wrong}) OBVIOUS
<1>2. Pointer!Required(raw, << >>, "invalid_list", field).value = list BY RequiredIs
<1>3. r.value = Filtered(list, kept)
  BY <1>2, PointerLists DEF Pointer!Strings, Pointer!Read
<1>4. kept = {x \in ToSet(list) : Pointer!WellTyped(x)} BY PointerLists DEF Pointer!WellTypedOf
<1>5. ToSet(list) \subseteq Words \cup {Wrong}
  <2> HIDE DEF list
  <2> QED BY <1>1 DEF ToSet
<1>6. kept \subseteq Words BY <1>4, <1>5 DEF Pointer!WellTyped
<1> HIDE DEF list, kept
<1>7. r.value \in Seq(Words)
  <2>1. Filtered(list, kept) \in Seq(kept) BY <1>1, FilteredProperties
  <2> QED BY <1>3, <1>6, <2>1
<1>8. ASSUME Clean(r) PROVE Pointer!WellTyped(raw) /\ r.value = raw
  <2>1. /\ Pointer!Required(raw, << >>, "invalid_list", field).diagnostics \subseteq r.diagnostics
        /\ Wrong \in ToSet(list) => Pointer!Error("invalid_string", field) \in r.diagnostics
    BY <1>2, PointerLists DEF Pointer!Strings, Pointer!Read
  <2>2. Pointer!WellTyped(raw)
    <3>1. Clean(Pointer!Required(raw, << >>, "invalid_list", field)) BY <1>8, <2>1 DEF Clean
    <3> QED BY <3>1, RequiredIs
  <2>3. Wrong \notin ToSet(list) BY <1>8, <2>1 DEF Clean, Pointer!Error
  <2>4. ToSet(list) \subseteq kept
    <3>1. ToSet(list) \subseteq Words BY <1>5, <2>3
    <3> QED BY <1>4, <3>1, Typed
  <2>5. Filtered(list, kept) = list BY <1>1, <2>4, FilteredAll
  <2> QED BY <1>3, <2>2, <2>5 DEF list
<1> QED BY <1>7, <1>8

(* and a list of nothing but strings as it is. *)
LEMMA StringsKept ==
    ASSUME NEW s \in Seq(Words), NEW field
    PROVE  Pointer!Strings(s, field).value = s
<1>1. Pointer!WellTyped(s) BY Typed
<1>2. Pointer!Strings(s, field).value = Filtered(s, Pointer!WellTypedOf(s))
  BY <1>1, RequiredIs, PointerLists DEF Pointer!Strings, Pointer!Read
<1>3. ToSet(s) \subseteq Pointer!WellTypedOf(s)
  <2>1. ToSet(s) \subseteq Words BY DEF ToSet
  <2> QED BY <2>1, Typed, PointerLists DEF Pointer!WellTypedOf
<1> QED BY <1>2, <1>3, FilteredAll

(* No key is unknown where none is reported, *)
LEMMA KnownKeys ==
    ASSUME NEW section, NEW known, NEW reading, Pointer!UnknownKeys(section, known) \subseteq reading.diagnostics,
           Clean(reading)
    PROVE  DOMAIN section \subseteq known
<1> SUFFICES ASSUME NEW k \in DOMAIN section, k \notin known PROVE FALSE
  OBVIOUS
<1>1. Pointer!Error("unknown_key", k) \in reading.diagnostics BY DEF Pointer!UnknownKeys
<1> QED BY <1>1 DEF Clean, Pointer!Error

(* and no field has an error where none of several has. *)
LEMMA CleanFields ==
    ASSUME NEW reads, NEW reading, Pointer!Diagnostics(reads) \subseteq reading.diagnostics, Clean(reading),
           NEW k \in DOMAIN reads
    PROVE  Clean(reads[k])
<1>1. reads[k].diagnostics \subseteq reading.diagnostics BY DEF Pointer!Diagnostics
<1> QED BY <1>1 DEF Clean

(* What each overlay list is read into *)
LEMMA OverlayListIs ==
    ASSUME NEW raw, NEW k
    PROVE  /\ Pointer!OverlayList(raw, k).value = Pointer!Strings(raw, k).value
           /\ Pointer!Strings(raw, k).diagnostics \subseteq Pointer!OverlayList(raw, k).diagnostics
  BY DEF Pointer!OverlayList, Pointer!Read

(* The overlay section is read into lists of strings, and is what it was    *)
(* where nothing is reported.                                               *)
LEMMA OverlaysAre ==
    ASSUME NEW raw, Pointer!WellTyped(raw) => IsOverlays(raw)
    PROVE  /\ Pointer!ReadOverlays(raw).value \in OverlayValues
           /\ Clean(Pointer!ReadOverlays(raw)) => Pointer!ReadOverlays(raw).value = raw
<1> DEFINE section == IF Pointer!WellTyped(raw) THEN raw ELSE << >>
           lists   == [k \in Pointer!OverlayLists |-> Pointer!OverlayList(Pointer!At(section, k), k)]
           r       == Pointer!ReadOverlays(raw)
<1>1. Pointer!Section(raw, "overlays").value = section BY RequiredIs DEF Pointer!Section
<1>2. /\ r.value = [k \in Pointer!OverlayLists |-> lists[k].value]
      /\ Pointer!Section(raw, "overlays").diagnostics \subseteq r.diagnostics
      /\ Pointer!UnknownKeys(section, Pointer!OverlayLists) \subseteq r.diagnostics
      /\ Pointer!Diagnostics(lists) \subseteq r.diagnostics
  BY <1>1 DEF Pointer!ReadOverlays, Pointer!Read, Pointer!Values
<1>3. ASSUME NEW k \in Pointer!OverlayLists
      PROVE  Pointer!At(section, k) \in Seq(Words \cup {Wrong}) \/ ~Pointer!WellTyped(Pointer!At(section, k))
  BY DEF IsOverlays, Holds, Pointer!At, Pointer!WellTyped
<1> HIDE DEF section
<1>4. ASSUME NEW k \in Pointer!OverlayLists
      PROVE  /\ lists[k].value \in Seq(Words)
             /\ Clean(lists[k]) => Pointer!WellTyped(Pointer!At(section, k)) /\ lists[k].value = Pointer!At(section, k)
  <2>1. PICK at : at = Pointer!At(section, k) OBVIOUS
  <2>2. PICK s : s = Pointer!Strings(at, k) OBVIOUS
  <2>3. s.value \in Seq(Words) /\ (Clean(s) => Pointer!WellTyped(at) /\ s.value = at)
    BY <1>3, <2>1, <2>2, StringsAre
  <2>4. lists[k].value = s.value /\ s.diagnostics \subseteq lists[k].diagnostics
    BY <2>1, <2>2, OverlayListIs
  <2>5. Clean(lists[k]) => Clean(s) BY <2>4 DEF Clean
  <2> QED BY <2>1, <2>3, <2>4, <2>5
<1>5. r.value \in OverlayValues BY <1>2, <1>4 DEF OverlayValues
<1>6. ASSUME Clean(r) PROVE r.value = raw
  <2>1. Pointer!WellTyped(raw)
    <3>1. Clean(Pointer!Section(raw, "overlays")) BY <1>2, <1>6 DEF Clean
    <3> QED BY <3>1, RequiredIs DEF Pointer!Section
  <2>2. section = raw /\ IsFunction(raw) BY <2>1 DEF section, IsOverlays
  <2>3. DOMAIN raw \subseteq Pointer!OverlayLists BY <1>2, <1>6, <2>2, KnownKeys
  <2>4. \A k \in Pointer!OverlayLists : Clean(lists[k]) BY <1>2, <1>6, CleanFields
  <2>5. \A k \in Pointer!OverlayLists : k \in DOMAIN raw /\ lists[k].value = raw[k]
    BY <1>4, <2>2, <2>4 DEF Pointer!At, Pointer!WellTyped
  <2>6. DOMAIN raw = Pointer!OverlayLists BY <2>3, <2>5
  <2>7. raw = [k \in Pointer!OverlayLists |-> raw[k]] BY <2>2, <2>6 DEF IsFunction
  <2> QED BY <1>2, <2>5, <2>7
<1> QED BY <1>5, <1>6

(* Such lists are read again as they are. *)
LEMMA OverlaysKept ==
    ASSUME NEW o \in OverlayValues
    PROVE  Pointer!ReadOverlays(o).value = o
<1>1. Pointer!WellTyped(o) BY MarkersAssumption DEF Pointer!WellTyped
<1>2. Pointer!Section(o, "overlays").value = o BY <1>1, RequiredIs DEF Pointer!Section
<1>3. Pointer!ReadOverlays(o).value = [k \in Pointer!OverlayLists |-> Pointer!OverlayList(Pointer!At(o, k), k).value]
  BY <1>2 DEF Pointer!ReadOverlays, Pointer!Read, Pointer!Values
<1>4. ASSUME NEW k \in Pointer!OverlayLists PROVE Pointer!OverlayList(Pointer!At(o, k), k).value = o[k]
  <2>1. Pointer!At(o, k) = o[k] /\ o[k] \in Seq(Words) BY DEF OverlayValues, Pointer!At
  <2> QED BY <2>1, OverlayListIs, StringsKept
<1>5. o = [k \in Pointer!OverlayLists |-> o[k]] BY DEF OverlayValues
<1> QED BY <1>3, <1>4, <1>5

-----------------------------------------------------------------------------

ModifierKeys == ToSet(Pointer!Modifiers)

(* What a binding is read into *)
Bindings ==
    {b \in [command_id : Words, key : Words, modifiers : Seq(ModifierKeys), overlay_id : Words \cup {Nothing}] :
        Lower(b.key) = b.key /\ IsInjective(b.modifiers)}

(* The modifiers of a binding are read into some of the modifiers there     *)
(* are, each once,                                                          *)
LEMMA ModifiersAre ==
    ASSUME NEW raw, NEW field, raw \in Seq(Words \cup {Wrong}) \/ ~Pointer!WellTyped(raw)
    PROVE  /\ Pointer!ModifierList(raw, field).value \in Seq(ModifierKeys)
           /\ IsInjective(Pointer!ModifierList(raw, field).value)
<1> DEFINE list == Pointer!Strings(raw, field).value
           lowered == [i \in DOMAIN list |-> Lower(list[i])]
<1>1. list \in Seq(Words) BY StringsAre
<1>2. Pointer!ModifierList(raw, field).value = Pointer!WithoutRepeats(Filtered(lowered, ModifierKeys))
  BY PointerLists DEF Pointer!ModifierList, Pointer!Read, ModifierKeys
<1> HIDE DEF list
<1>3. lowered \in Seq(Words)
  <2>1. Len(list) \in Nat /\ DOMAIN list = 1 .. Len(list) /\ \A i \in 1 .. Len(list) : list[i] \in Words BY <1>1
  <2>2. \A w \in Words : Lower(w) \in Words BY WordsAssumption
  <2>3. \A i \in 1 .. Len(list) : Lower(list[i]) \in Words BY <2>1, <2>2
  <2> QED BY <2>1, <2>3, IsASeq
<1> HIDE DEF lowered
<1>4. Filtered(lowered, ModifierKeys) \in Seq(ModifierKeys) BY <1>3, FilteredProperties
<1> QED BY <1>2, <1>4, WithoutRepeatsIs

(* which are read again as they are. *)
LEMMA ModifiersKept ==
    ASSUME NEW m \in Seq(ModifierKeys), IsInjective(m), NEW field
    PROVE  Pointer!ModifierList(m, field).value = m
<1>1. ModifierKeys \subseteq Words /\ \A x \in ModifierKeys : Lower(x) = x
  BY WordsAssumption DEF ModifierKeys
<1>2. m \in Seq(Words) BY <1>1
<1>3. Pointer!Strings(m, field).value = m BY <1>2, StringsKept
<1>4. [i \in DOMAIN m |-> Lower(m[i])] = m
  <2>1. \A i \in DOMAIN m : Lower(m[i]) = m[i] BY <1>1
  <2>2. m = [i \in DOMAIN m |-> m[i]] OBVIOUS
  <2> QED BY <2>1, <2>2
<1>5. Pointer!ModifierList(m, field).value = Pointer!WithoutRepeats(Filtered(m, ModifierKeys))
  BY <1>3, <1>4, PointerLists DEF Pointer!ModifierList, Pointer!Read, ModifierKeys
<1>6. Filtered(m, ModifierKeys) = m
  <2>1. ToSet(m) \subseteq ModifierKeys BY DEF ToSet
  <2> QED BY <2>1, FilteredAll
<1> QED BY <1>5, <1>6, WithoutRepeatsAll

(* A binding is read into one of the bindings, *)
LEMMA BindingIs ==
    ASSUME NEW raw, IsBinding(raw)
    PROVE  Pointer!ReadBinding(raw).value \in Bindings
<1> DEFINE Word(k) == IF Pointer!WellTyped(Pointer!At(raw, k)) THEN Pointer!At(raw, k) ELSE ""
           overlay == IF Pointer!At(raw, "overlay_id") = Wrong THEN Nothing ELSE Pointer!At(raw, "overlay_id")
           mods    == Pointer!ModifierList(Pointer!At(raw, "modifiers"), "hotkeys").value
           b       == Pointer!ReadBinding(raw).value
<1>1. \A k : Pointer!RequiredString(Pointer!At(raw, k), "hotkeys").value = Word(k)
  BY RequiredIs, ZenonT(60) DEF Pointer!RequiredString
<1>2. Pointer!OptionalString(Pointer!At(raw, "overlay_id"), "hotkeys").value = overlay
  BY DEF Pointer!OptionalString, Pointer!Read
<1>3. b = [command_id |-> Word("command_id"), key |-> Lower(Word("key")), modifiers |-> mods, overlay_id |-> overlay]
  BY <1>1, <1>2 DEF Pointer!ReadBinding, Pointer!Read
<1>4. Word("command_id") \in Words /\ Word("key") \in Words /\ overlay \in Words \cup {Nothing}
  BY WordsAssumption DEF IsBinding, Holds, Pointer!WellTyped
<1>5. Lower(Word("key")) \in Words /\ Lower(Lower(Word("key"))) = Lower(Word("key")) BY <1>4, WordsAssumption
<1>6. mods \in Seq(ModifierKeys) /\ IsInjective(mods)
  <2>1. PICK at : at = Pointer!At(raw, "modifiers") OBVIOUS
  <2>2. at \in Seq(Words \cup {Wrong}) \/ ~Pointer!WellTyped(at) BY <2>1 DEF IsBinding, Holds, Pointer!WellTyped
  <2> QED BY <2>1, <2>2, ModifiersAre
<1> HIDE DEF Word, overlay, mods, b
<1> QED BY <1>3, <1>4, <1>5, <1>6 DEF Bindings, b

(* which is written so that it is read again as it is. *)
LEMMA BindingKept ==
    ASSUME NEW b \in Bindings
    PROVE  /\ Pointer!BindingPayload(b) \in BindingPayloads
           /\ Pointer!ReadBinding(Pointer!BindingPayload(b)).value = b
<1> DEFINE p == Pointer!BindingPayload(b)
<1>1. /\ b.command_id \in Words /\ b.key \in Words /\ b.modifiers \in Seq(ModifierKeys)
      /\ b.overlay_id \in Words \cup {Nothing} /\ Lower(b.key) = b.key /\ IsInjective(b.modifiers)
      /\ b = [command_id |-> b.command_id, key |-> b.key, modifiers |-> b.modifiers, overlay_id |-> b.overlay_id]
  BY DEF Bindings
<1>2. b.modifiers \in Seq(Words)
  <2>1. ModifierKeys \subseteq Words BY WordsAssumption DEF ModifierKeys
  <2> QED BY <1>1, <2>1
<1>3. p = IF b.overlay_id = Nothing
          THEN [command_id |-> b.command_id, key |-> b.key, modifiers |-> b.modifiers]
          ELSE [command_id |-> b.command_id, key |-> b.key, modifiers |-> b.modifiers, overlay_id |-> b.overlay_id]
  BY DEF Pointer!BindingPayload
<1>4. p \in BindingPayloads BY <1>1, <1>2, <1>3 DEF BindingPayloads
<1>5. /\ Pointer!At(p, "command_id") = b.command_id /\ Pointer!At(p, "key") = b.key
      /\ Pointer!At(p, "modifiers") = b.modifiers /\ Pointer!At(p, "overlay_id") = b.overlay_id
  BY <1>3 DEF Pointer!At
<1> HIDE DEF p
<1>6. \A w \in Words : Pointer!RequiredString(w, "hotkeys").value = w BY Typed, RequiredIs DEF Pointer!RequiredString
<1>7. Pointer!OptionalString(b.overlay_id, "hotkeys").value = b.overlay_id
  <2>1. Wrong \notin Words BY MarkersAssumption
  <2> QED BY <1>1, <2>1 DEF Pointer!OptionalString, Pointer!Read
<1>8. Pointer!ModifierList(b.modifiers, "hotkeys").value = b.modifiers
  <2>1. PICK m \in Seq(ModifierKeys) : m = b.modifiers BY <1>1
  <2>2. IsInjective(m) BY <1>1, <2>1
  <2>3. Pointer!ModifierList(m, "hotkeys").value = m BY <2>2, ModifiersKept
  <2> QED BY <2>1, <2>3
<1>9. Pointer!ReadBinding(p).value =
        [command_id |-> b.command_id, key |-> Lower(b.key), modifiers |-> b.modifiers, overlay_id |-> b.overlay_id]
  BY <1>1, <1>5, <1>6, <1>7, <1>8 DEF Pointer!ReadBinding, Pointer!Read
<1> QED BY <1>1, <1>4, <1>9 DEF p

(* The hotkeys are read into bindings, and a repeated input is reported. *)
LEMMA HotkeysAre ==
    ASSUME NEW raw, Pointer!WellTyped(raw) => IsHotkeys(raw)
    PROVE  /\ Pointer!ReadHotkeys(raw).value \in Seq(Bindings)
           /\ Pointer!Duplicates(Pointer!ReadHotkeys(raw).value) \subseteq Pointer!ReadHotkeys(raw).diagnostics
<1> DEFINE list  == IF Pointer!WellTyped(raw) THEN raw ELSE << >>
           kept  == Pointer!WellTypedOf(list)
           given == Filtered(list, kept)
           reads == [i \in DOMAIN given |-> Pointer!ReadBinding(given[i])]
           r     == Pointer!ReadHotkeys(raw)
<1>1. Pointer!Required(raw, << >>, "invalid_hotkeys", "hotkeys").value = list BY RequiredIs
<1>2. /\ r.value = [i \in DOMAIN given |-> reads[i].value]
      /\ Pointer!Duplicates(r.value) \subseteq r.diagnostics
  <2>1. /\ r.value = Pointer!Values(reads)
        /\ Pointer!Duplicates(Pointer!Values(reads)) \subseteq r.diagnostics
    BY <1>1, PointerLists DEF Pointer!ReadHotkeys, Pointer!Read
  <2>2. Pointer!Values(reads) = [i \in DOMAIN given |-> reads[i].value] BY DEF Pointer!Values
  <2> QED BY <2>1, <2>2
<1>3. list \in Seq(ToSet(list)) /\ \A b \in ToSet(list) : Pointer!WellTyped(b) => IsBinding(b)
  <2>1. << >> \in Seq(ToSet(<< >>)) /\ \A b : b \notin ToSet(<< >>) BY DEF ToSet
  <2> QED BY <2>1 DEF IsHotkeys
<1> HIDE DEF list
<1>4. \A b \in kept : IsBinding(b) BY <1>3, PointerLists DEF Pointer!WellTypedOf
<1>5. given \in Seq(kept) BY <1>3, FilteredProperties
<1> HIDE DEF kept, given
<1>6. /\ Len(given) \in Nat /\ DOMAIN given = 1 .. Len(given)
      /\ \A i \in 1 .. Len(given) : reads[i].value \in Bindings
  <2>1. Len(given) \in Nat /\ DOMAIN given = 1 .. Len(given) /\ \A i \in 1 .. Len(given) : given[i] \in kept
    BY <1>5
  <2> QED BY <1>4, <2>1, BindingIs
<1> HIDE DEF reads
<1>7. [i \in 1 .. Len(given) |-> reads[i].value] \in Seq(Bindings) BY <1>6, IsASeq
<1> QED BY <1>2, <1>6, <1>7

(* What is written of bindings is read again as the same bindings. *)
LEMMA HotkeysKept ==
    ASSUME NEW hotkeys \in Seq(Bindings)
    PROVE  LET written == [i \in DOMAIN hotkeys |-> Pointer!BindingPayload(hotkeys[i])]
           IN  written \in Seq(BindingPayloads) /\ Pointer!ReadHotkeys(written).value = hotkeys
<1> DEFINE written == [i \in DOMAIN hotkeys |-> Pointer!BindingPayload(hotkeys[i])]
<1>1. Len(hotkeys) \in Nat /\ DOMAIN hotkeys = 1 .. Len(hotkeys) /\ \A i \in 1 .. Len(hotkeys) : hotkeys[i] \in Bindings
  OBVIOUS
<1>2. ASSUME NEW i \in 1 .. Len(hotkeys)
      PROVE  written[i] \in BindingPayloads /\ Pointer!ReadBinding(written[i]).value = hotkeys[i]
  BY <1>1, BindingKept
<1>3. written \in Seq(BindingPayloads) /\ DOMAIN written = 1 .. Len(hotkeys)
  <2> HIDE DEF written
  <2>1. written = [i \in 1 .. Len(hotkeys) |-> written[i]] BY <1>1 DEF written
  <2>2. \A i \in 1 .. Len(hotkeys) : written[i] \in BindingPayloads BY <1>2
  <2> QED BY <1>1, <2>1, <2>2, IsASeq
<1> HIDE DEF written
<1>4. \A x \in BindingPayloads : Pointer!WellTyped(x) BY MarkersAssumption DEF Pointer!WellTyped
<1>5. Pointer!Required(written, << >>, "invalid_hotkeys", "hotkeys").value = written
  <2>1. Pointer!WellTyped(written) BY <1>3, MarkersAssumption DEF Pointer!WellTyped
  <2> QED BY <2>1, RequiredIs
<1>6. Filtered(written, Pointer!WellTypedOf(written)) = written
  <2>1. ToSet(written) \subseteq BindingPayloads BY <1>3 DEF ToSet
  <2>2. ToSet(written) \subseteq Pointer!WellTypedOf(written) BY <1>4, <2>1, PointerLists DEF Pointer!WellTypedOf
  <2> QED BY <1>3, <2>2, FilteredAll
<1>7. Pointer!ReadHotkeys(written).value = Pointer!Values([i \in DOMAIN written |-> Pointer!ReadBinding(written[i])])
  BY <1>5, <1>6, PointerLists DEF Pointer!ReadHotkeys, Pointer!Read
<1>8. Pointer!ReadHotkeys(written).value = [i \in 1 .. Len(hotkeys) |-> Pointer!ReadBinding(written[i]).value]
  BY <1>3, <1>7 DEF Pointer!Values
<1>9. hotkeys = [i \in 1 .. Len(hotkeys) |-> hotkeys[i]] BY <1>1
<1>10. Pointer!ReadHotkeys(written).value = hotkeys BY <1>2, <1>8, <1>9
<1> QED BY <1>3, <1>10 DEF written

-----------------------------------------------------------------------------

(* A reading whose value is a function of the value only *)
LEMMA RangedIs ==
    ASSUME NEW read, NEW range, NEW code, NEW field
    PROVE  LET r == Pointer!Ranged(read, range, code, field)
           IN  r.value = read.value /\ read.diagnostics \subseteq r.diagnostics
  BY DEF Pointer!Ranged, Pointer!Read

(* What a reading of a field of a type is: a value of the type, and what was *)
(* there where nothing is reported                                           *)
ReadAs(r, section, k, type) ==
    /\ r.value \in type
    /\ Clean(r) => k \in DOMAIN section /\ r.value = section[k]

LEMMA FieldIs ==
    ASSUME NEW section, NEW k, NEW type, Holds(section, k, type), NEW fallback, fallback \in type, NEW code, NEW field
    PROVE  ReadAs(Pointer!Required(Pointer!At(section, k), fallback, code, field), section, k, type)
<1> DEFINE at == Pointer!At(section, k)
           r  == Pointer!Required(at, fallback, code, field)
<1>1. at \in type \/ ~Pointer!WellTyped(at)
  BY DEF Holds, Pointer!WellTyped
<1>2. Pointer!WellTyped(at) => k \in DOMAIN section /\ at = section[k]
  BY DEF Pointer!At, Pointer!WellTyped
<1>3. r.value = (IF Pointer!WellTyped(at) THEN at ELSE fallback) /\ (Clean(r) => Pointer!WellTyped(at)) BY RequiredIs
<1> HIDE DEF at, r
<1>4. ReadAs(r, section, k, type) BY <1>1, <1>2, <1>3 DEF ReadAs
<1> QED BY <1>4 DEF at, r

(* The section of the mouse is read into one of its values, *)
LEMMA SelectionIs ==
    ASSUME NEW raw, Pointer!WellTyped(raw) => IsSelection(raw)
    PROVE  /\ Pointer!ReadSelection(raw).value \in SelectionValues
           /\ Clean(Pointer!ReadSelection(raw)) => Pointer!ReadSelection(raw).value = raw
<1> DEFINE section == IF Pointer!WellTyped(raw) THEN raw ELSE << >>
           given   == Pointer!RequiredString(Pointer!At(section, "default_mouse_button"), "default_mouse_button")
           button  == Pointer!Ranged(given, Pointer!MouseButtons, "invalid_mouse_button", "default_mouse_button")
           cycle   == Pointer!Required(Pointer!At(section, "cycle_overlapping_bases"), FALSE, "invalid_bool",
                                       "cycle_overlapping_bases")
           r       == Pointer!ReadSelection(raw)
<1>1. Pointer!Section(raw, "selection").value = section BY RequiredIs DEF Pointer!Section
<1>2. /\ r.value = [default_mouse_button |-> button.value, cycle_overlapping_bases |-> cycle.value]
      /\ Pointer!Section(raw, "selection").diagnostics \subseteq r.diagnostics
      /\ button.diagnostics \subseteq r.diagnostics /\ cycle.diagnostics \subseteq r.diagnostics
      /\ Pointer!UnknownKeys(section, {"default_mouse_button", "cycle_overlapping_bases"}) \subseteq r.diagnostics
  BY <1>1 DEF Pointer!ReadSelection, Pointer!Read
<1>3. Holds(section, "default_mouse_button", Words) /\ Holds(section, "cycle_overlapping_bases", BOOLEAN)
  BY DEF IsSelection, Holds, Pointer!At
<1>4. button.value = given.value /\ given.diagnostics \subseteq button.diagnostics BY RangedIs
<1> HIDE DEF section
<1>5. ReadAs(given, section, "default_mouse_button", Words)
  <2>1. "" \in Words BY WordsAssumption
  <2> QED BY <1>3, <2>1, FieldIs DEF Pointer!RequiredString
<1>6. ReadAs(cycle, section, "cycle_overlapping_bases", BOOLEAN) BY <1>3, FieldIs
<1> HIDE DEF given, button, cycle
<1>7. r.value \in SelectionValues BY <1>2, <1>4, <1>5, <1>6 DEF SelectionValues, ReadAs
<1>8. ASSUME Clean(r) PROVE r.value = raw
  <2>1. Pointer!WellTyped(raw)
    <3>1. Clean(Pointer!Section(raw, "selection")) BY <1>2, <1>8 DEF Clean
    <3> QED BY <3>1, RequiredIs DEF Pointer!Section
  <2>2. section = raw /\ IsFunction(raw) BY <2>1 DEF section, IsSelection
  <2>3. Clean(given) /\ Clean(cycle) BY <1>2, <1>4, <1>8 DEF Clean
  <2>4. DOMAIN raw = {"default_mouse_button", "cycle_overlapping_bases"}
    <3>1. DOMAIN section \subseteq {"default_mouse_button", "cycle_overlapping_bases"} BY <1>2, <1>8, KnownKeys
    <3> QED BY <1>5, <1>6, <2>2, <2>3, <3>1 DEF ReadAs
  <2>5. raw = [k \in {"default_mouse_button", "cycle_overlapping_bases"} |-> raw[k]] BY <2>2, <2>4 DEF IsFunction
  <2>6. button.value = raw["default_mouse_button"] /\ cycle.value = raw["cycle_overlapping_bases"]
    BY <1>4, <1>5, <1>6, <2>2, <2>3 DEF ReadAs
  <2> QED BY <1>2, <2>5, <2>6
<1> QED BY <1>7, <1>8

(* each of which is read again as it is. *)
LEMMA SelectionKept ==
    ASSUME NEW s \in SelectionValues
    PROVE  Pointer!ReadSelection(s).value = s
<1> DEFINE given  == Pointer!RequiredString(Pointer!At(s, "default_mouse_button"), "default_mouse_button")
           button == Pointer!Ranged(given, Pointer!MouseButtons, "invalid_mouse_button", "default_mouse_button")
           cycle  == Pointer!Required(Pointer!At(s, "cycle_overlapping_bases"), FALSE, "invalid_bool",
                                      "cycle_overlapping_bases")
<1>1. Pointer!WellTyped(s) BY MarkersAssumption DEF Pointer!WellTyped
<1>2. Pointer!Section(s, "selection").value = s BY <1>1, RequiredIs DEF Pointer!Section
<1>3. /\ Pointer!At(s, "default_mouse_button") = s.default_mouse_button /\ s.default_mouse_button \in Words
      /\ Pointer!At(s, "cycle_overlapping_bases") = s.cycle_overlapping_bases /\ s.cycle_overlapping_bases \in BOOLEAN
  BY DEF SelectionValues, Pointer!At
<1>4. Pointer!WellTyped(s.default_mouse_button) /\ Pointer!WellTyped(s.cycle_overlapping_bases) BY <1>3, Typed
<1>5. Pointer!ReadSelection(s).value = [default_mouse_button |-> button.value, cycle_overlapping_bases |-> cycle.value]
  BY <1>2 DEF Pointer!ReadSelection, Pointer!Read
<1>6. button.value = given.value BY RangedIs
<1>7. given.value = s.default_mouse_button BY <1>3, <1>4 DEF Pointer!RequiredString, Pointer!Required, Pointer!Read
<1>8. cycle.value = s.cycle_overlapping_bases BY <1>3, <1>4 DEF Pointer!Required, Pointer!Read
<1> HIDE DEF given, button, cycle
<1> QED BY <1>5, <1>6, <1>7, <1>8 DEF SelectionValues

(* So is a zone, *)
LEMMA ZoneIs ==
    ASSUME NEW raw, Pointer!WellTyped(raw) => IsZone(raw), NEW z
    PROVE  /\ Pointer!ReadZone(raw, z).value \in ZoneValues
           /\ Clean(Pointer!ReadZone(raw, z)) => Pointer!ReadZone(raw, z).value = raw
<1> DEFINE section   == IF Pointer!WellTyped(raw) THEN raw ELSE << >>
           visible   == Pointer!Required(Pointer!At(section, "visible"), FALSE, "invalid_bool", z)
           collapsed == Pointer!Required(Pointer!At(section, "collapsed"), FALSE, "invalid_bool", z)
           given     == Pointer!Required(Pointer!At(section, "size_px"), 0, "invalid_integer", z)
           size      == Pointer!Ranged(given, Pointer!ZoneSizes[z], "invalid_hud_zone_size", z)
           fields    == [visible |-> visible, collapsed |-> collapsed, size_px |-> size]
           r         == Pointer!ReadZone(raw, z)
<1>1. Pointer!Section(raw, z).value = section BY RequiredIs DEF Pointer!Section
<1>2. /\ r.value = Pointer!Values(fields)
      /\ Pointer!Section(raw, z).diagnostics \subseteq r.diagnostics
      /\ Pointer!UnknownKeys(section, DOMAIN fields) \subseteq r.diagnostics
      /\ Pointer!Diagnostics(fields) \subseteq r.diagnostics
  BY <1>1 DEF Pointer!ReadZone, Pointer!Read
<1>3. Holds(section, "visible", BOOLEAN) /\ Holds(section, "collapsed", BOOLEAN) /\ Holds(section, "size_px", Int)
  BY DEF IsZone, Holds, Pointer!At
<1>4. size.value = given.value /\ given.diagnostics \subseteq size.diagnostics BY RangedIs
<1> HIDE DEF section
<1>5. ReadAs(visible, section, "visible", BOOLEAN)
  BY <1>3, FieldIs
<1>6. ReadAs(collapsed, section, "collapsed", BOOLEAN)
  BY <1>3, FieldIs
<1>7. ReadAs(given, section, "size_px", Int)
  BY <1>3, FieldIs
<1> HIDE DEF visible, collapsed, given, size
<1>8. r.value = [visible |-> visible.value, collapsed |-> collapsed.value, size_px |-> size.value]
  BY <1>2 DEF Pointer!Values
<1>9. r.value \in ZoneValues BY <1>4, <1>5, <1>6, <1>7, <1>8 DEF ZoneValues, ReadAs
<1>10. ASSUME Clean(r) PROVE r.value = raw
  <2>1. Pointer!WellTyped(raw)
    <3>1. Clean(Pointer!Section(raw, z)) BY <1>2, <1>10 DEF Clean
    <3> QED BY <3>1, RequiredIs DEF Pointer!Section
  <2>2. section = raw /\ IsFunction(raw) BY <2>1 DEF section, IsZone
  <2>3. Clean(visible) /\ Clean(collapsed) /\ Clean(given)
    <3>1. \A k \in DOMAIN fields : Clean(fields[k]) BY <1>2, <1>10, CleanFields
    <3>2. Clean(visible) /\ Clean(collapsed) /\ Clean(size) BY <3>1
    <3> QED BY <1>4, <3>2 DEF Clean
  <2>4. DOMAIN raw = {"visible", "collapsed", "size_px"}
    <3>1. DOMAIN section \subseteq DOMAIN fields BY <1>2, <1>10, KnownKeys
    <3>2. DOMAIN fields = {"visible", "collapsed", "size_px"} OBVIOUS
    <3> QED BY <1>5, <1>6, <1>7, <2>2, <2>3, <3>1, <3>2 DEF ReadAs
  <2>5. raw = [k \in {"visible", "collapsed", "size_px"} |-> raw[k]] BY <2>2, <2>4 DEF IsFunction
  <2>6. visible.value = raw["visible"] /\ collapsed.value = raw["collapsed"] /\ size.value = raw["size_px"]
    BY <1>4, <1>5, <1>6, <1>7, <2>2, <2>3 DEF ReadAs
  <2> QED BY <1>8, <2>5, <2>6
<1> QED BY <1>9, <1>10

(* which is read again as it is, *)
LEMMA ZoneKept ==
    ASSUME NEW s \in ZoneValues, NEW z
    PROVE  Pointer!ReadZone(s, z).value = s
<1> DEFINE visible   == Pointer!Required(Pointer!At(s, "visible"), FALSE, "invalid_bool", z)
           collapsed == Pointer!Required(Pointer!At(s, "collapsed"), FALSE, "invalid_bool", z)
           given     == Pointer!Required(Pointer!At(s, "size_px"), 0, "invalid_integer", z)
           size      == Pointer!Ranged(given, Pointer!ZoneSizes[z], "invalid_hud_zone_size", z)
<1>1. Pointer!WellTyped(s) BY MarkersAssumption DEF Pointer!WellTyped
<1>2. Pointer!Section(s, z).value = s BY <1>1, RequiredIs DEF Pointer!Section
<1>3. /\ Pointer!At(s, "visible") = s.visible /\ s.visible \in BOOLEAN
      /\ Pointer!At(s, "collapsed") = s.collapsed /\ s.collapsed \in BOOLEAN
      /\ Pointer!At(s, "size_px") = s.size_px /\ s.size_px \in Int
  BY DEF ZoneValues, Pointer!At
<1>4. Pointer!WellTyped(s.visible) /\ Pointer!WellTyped(s.collapsed) /\ Pointer!WellTyped(s.size_px) BY <1>3, Typed
<1>5. Pointer!ReadZone(s, z).value = Pointer!Values([visible |-> visible, collapsed |-> collapsed, size_px |-> size])
  BY <1>2 DEF Pointer!ReadZone, Pointer!Read
<1>6. visible.value = s.visible /\ collapsed.value = s.collapsed /\ given.value = s.size_px
  BY <1>3, <1>4 DEF Pointer!Required, Pointer!Read
<1>7. size.value = given.value BY RangedIs
<1> HIDE DEF visible, collapsed, given, size
<1>8. Pointer!ReadZone(s, z).value = [visible |-> visible.value, collapsed |-> collapsed.value, size_px |-> size.value]
  BY <1>5 DEF Pointer!Values
<1> QED BY <1>6, <1>7, <1>8 DEF ZoneValues

(* and so are the zones: those that are named as they are, the others by    *)
(* default,                                                                 *)
LEMMA DefaultZonesAre == Pointer!DefaultZones \in ZonesValues
<1>1. ASSUME NEW z \in DOMAIN Pointer!ZoneSizes
      PROVE  Pointer!DefaultZones[z] \in ZoneValues
  BY DEF Pointer!DefaultZones, Pointer!ZoneSizes, ZoneValues
<1> QED BY <1>1 DEF Pointer!DefaultZones, ZonesValues

LEMMA ZonesAre ==
    ASSUME NEW raw, Pointer!WellTyped(raw) => IsZones(raw)
    PROVE  LET r == Pointer!ReadZones(raw)
           IN  /\ r.value \in ZonesValues
               /\ Clean(r) => Pointer!WellTyped(raw) /\ \A z \in DOMAIN raw : r.value[z] = raw[z]
<1> DEFINE section == IF Pointer!WellTyped(raw) THEN raw ELSE << >>
           reads   == [z \in DOMAIN Pointer!ZoneSizes |->
                          IF z \in DOMAIN section THEN Pointer!ReadZone(section[z], z)
                                                  ELSE Pointer!Read(Pointer!DefaultZones[z], {})]
           r       == Pointer!ReadZones(raw)
<1>1. Pointer!Section(raw, "hud.zones").value = section BY RequiredIs DEF Pointer!Section
<1>2. /\ r.value = [z \in DOMAIN Pointer!ZoneSizes |-> reads[z].value]
      /\ Pointer!Section(raw, "hud.zones").diagnostics \subseteq r.diagnostics
      /\ Pointer!Diagnostics(reads) \subseteq r.diagnostics
      /\ \A z \in DOMAIN section \ DOMAIN Pointer!ZoneSizes : Pointer!Error("unknown_hud_zone_id", z) \in r.diagnostics
  BY <1>1 DEF Pointer!ReadZones, Pointer!Read, Pointer!Values
<1>3. \A z \in DOMAIN section : Pointer!WellTyped(section[z]) => IsZone(section[z])
  BY DEF IsZones
<1> HIDE DEF section
<1>4. ASSUME NEW z \in DOMAIN Pointer!ZoneSizes
      PROVE  reads[z].value \in ZoneValues /\ (z \in DOMAIN section /\ Clean(reads[z]) => reads[z].value = section[z])
  <2>1. CASE z \in DOMAIN section
    <3>1. reads[z] = Pointer!ReadZone(section[z], z) BY <2>1
    <3>2. Pointer!WellTyped(section[z]) => IsZone(section[z]) BY <1>3, <2>1
    <3> HIDE DEF reads
    <3> QED BY <3>1, <3>2, ZoneIs
  <2>2. CASE z \notin DOMAIN section
    <3>1. reads[z].value = Pointer!DefaultZones[z] BY <2>2 DEF Pointer!Read
    <3> QED BY <2>2, <3>1, DefaultZonesAre DEF ZonesValues
  <2> QED BY <2>1, <2>2
<1> HIDE DEF r
<1>5. r.value \in ZonesValues BY <1>2, <1>4 DEF ZonesValues
<1>7. ASSUME Clean(r) PROVE Pointer!WellTyped(raw)
  <2>1. Clean(Pointer!Section(raw, "hud.zones")) BY <1>2, <1>7 DEF Clean
  <2> QED BY <2>1, RequiredIs DEF Pointer!Section
<1>6. ASSUME Clean(r), NEW z \in DOMAIN raw PROVE r.value[z] = raw[z]
  <2>1. Pointer!WellTyped(raw) BY <1>6, <1>7
  <2>2. section = raw BY <2>1 DEF section
  <2>3. z \in DOMAIN Pointer!ZoneSizes
    <3> SUFFICES ASSUME z \notin DOMAIN Pointer!ZoneSizes PROVE FALSE
      OBVIOUS
    <3>1. Pointer!Error("unknown_hud_zone_id", z) \in r.diagnostics BY <1>2, <1>6, <2>2
    <3> HIDE DEF reads
    <3> QED BY <1>6, <3>1 DEF Clean, Pointer!Error
  <2>4. Clean(reads[z])
    <3>1. z \in DOMAIN reads BY <2>3
    <3> HIDE DEF reads
    <3> QED BY <1>2, <1>6, <3>1, CleanFields
  <2>5. reads[z].value = raw[z] BY <1>4, <1>6, <2>2, <2>3, <2>4
  <2> HIDE DEF reads
  <2> QED BY <1>2, <2>3, <2>5
<1> QED BY <1>5, <1>6, <1>7 DEF r

LEMMA ZonesKept ==
    ASSUME NEW zones \in ZonesValues
    PROVE  Pointer!ReadZones(zones).value = zones
<1> DEFINE reads == [z \in DOMAIN Pointer!ZoneSizes |->
                        IF z \in DOMAIN zones THEN Pointer!ReadZone(zones[z], z)
                                              ELSE Pointer!Read(Pointer!DefaultZones[z], {})]
<1>1. Pointer!WellTyped(zones) BY MarkersAssumption DEF Pointer!WellTyped
<1>2. Pointer!Section(zones, "hud.zones").value = zones BY <1>1, RequiredIs DEF Pointer!Section
<1>3. DOMAIN zones = DOMAIN Pointer!ZoneSizes /\ \A z \in DOMAIN zones : zones[z] \in ZoneValues BY DEF ZonesValues
<1>4. Pointer!ReadZones(zones).value = [z \in DOMAIN Pointer!ZoneSizes |-> reads[z].value]
  BY <1>2 DEF Pointer!ReadZones, Pointer!Read, Pointer!Values
<1>5. \A z \in DOMAIN Pointer!ZoneSizes : reads[z].value = zones[z] BY <1>3, ZoneKept
<1>6. zones = [z \in DOMAIN Pointer!ZoneSizes |-> zones[z]] BY DEF ZonesValues
<1> HIDE DEF reads
<1> QED BY <1>4, <1>5, <1>6

-----------------------------------------------------------------------------

Color == "assignment_target_highlight_color"

(* Each field of the HUD has one reader *)
LEMMA HudReaders ==
    ASSUME NEW raw
    PROVE  /\ \A f \in Pointer!Switches : Pointer!HudField(raw, f) = Pointer!Required(raw, FALSE, "invalid_bool", f)
           /\ \A f \in DOMAIN Pointer!Enumerations :
                 Pointer!HudField(raw, f) =
                    Pointer!OneOf(IF f = "movement_budget_ring_mode" /\ raw = Nothing THEN "total" ELSE raw,
                                  Pointer!Enumerations[f][1], Pointer!Enumerations[f][2], "invalid_choice", f)
           /\ \A f \in DOMAIN Pointer!Limits :
                 Pointer!HudField(raw, f) =
                    Pointer!Ranged(Pointer!Required(raw, 0, "invalid_number", f), Pointer!Limits[f], "out_of_range", f)
           /\ Pointer!HudField(raw, "composition_profile") = Pointer!OptionalString(raw, "composition_profile")
           /\ Pointer!HudField(raw, "zones") = Pointer!ReadZones(raw)
           /\ Pointer!HudField(raw, Color) =
                 IF raw = Nothing THEN Pointer!Read(Pointer!DefaultColor, {})
                                  ELSE Pointer!Required(raw, Pointer!DefaultColor, "invalid_rgba_color", Color)
<1>1. /\ \A f \in Pointer!Switches :
            /\ f \notin DOMAIN Pointer!Enumerations \cup DOMAIN Pointer!Limits
            /\ f # "composition_profile" /\ f # "zones" /\ f # Color
      /\ \A f \in DOMAIN Pointer!Enumerations :
            f \notin DOMAIN Pointer!Limits /\ f # "composition_profile" /\ f # "zones" /\ f # Color
      /\ \A f \in DOMAIN Pointer!Limits : f # "composition_profile" /\ f # "zones" /\ f # Color
      /\ {"composition_profile", "zones", Color} \cap Pointer!Switches = {}
  BY DEF Pointer!Switches, Pointer!Enumerations, Pointer!Limits, Color
<1>2. ASSUME NEW f \in Pointer!Switches
      PROVE  Pointer!HudField(raw, f) = Pointer!Required(raw, FALSE, "invalid_bool", f)
  BY <1>1 DEF Pointer!HudField, Color
<1>3. ASSUME NEW f \in DOMAIN Pointer!Enumerations
      PROVE  Pointer!HudField(raw, f) =
                Pointer!OneOf(IF f = "movement_budget_ring_mode" /\ raw = Nothing THEN "total" ELSE raw,
                              Pointer!Enumerations[f][1], Pointer!Enumerations[f][2], "invalid_choice", f)
  BY <1>1 DEF Pointer!HudField, Color
<1>4. ASSUME NEW f \in DOMAIN Pointer!Limits
      PROVE  Pointer!HudField(raw, f) =
                Pointer!Ranged(Pointer!Required(raw, 0, "invalid_number", f), Pointer!Limits[f], "out_of_range", f)
  BY <1>1 DEF Pointer!HudField, Color
<1>5. Pointer!HudField(raw, "composition_profile") = Pointer!OptionalString(raw, "composition_profile")
  BY <1>1 DEF Pointer!HudField, Color
<1>6. Pointer!HudField(raw, "zones") = Pointer!ReadZones(raw)
  BY <1>1 DEF Pointer!HudField, Color
<1>7. Pointer!HudField(raw, Color) =
        IF raw = Nothing THEN Pointer!Read(Pointer!DefaultColor, {})
                         ELSE Pointer!Required(raw, Pointer!DefaultColor, "invalid_rgba_color", Color)
  BY <1>1 DEF Pointer!HudField, Color
<1> QED BY <1>2, <1>3, <1>4, <1>5, <1>6, <1>7

(* What a field of the HUD is read into *)
HudType(f) ==
    IF f \in Pointer!Switches THEN BOOLEAN
    ELSE IF f \in DOMAIN Pointer!Enumerations THEN Pointer!Enumerations[f][1]
    ELSE IF f \in DOMAIN Pointer!Limits THEN Int
    ELSE IF f = "composition_profile" THEN Words \cup {Nothing}
    ELSE IF f = "zones" THEN ZonesValues ELSE Seq(Int)

HudReads == {h \in HudValues : \A f \in Pointer!HudFields : h[f] \in HudType(f)}

(* What a document may hold there *)
HudShape(f, raw) ==
    IF f = "zones" THEN Pointer!WellTyped(raw) => IsZones(raw)
    ELSE raw \in {Nothing, Wrong} \cup (IF f \in Pointer!Switches THEN BOOLEAN
                                        ELSE IF f \in DOMAIN Pointer!Limits THEN Int
                                        ELSE IF f = Color THEN Seq(Int) ELSE Words)

LEMMA HudClasses ==
    /\ Pointer!HudFields = Pointer!Switches \cup DOMAIN Pointer!Enumerations \cup DOMAIN Pointer!Limits
                           \cup {"composition_profile", "zones", Color}
    /\ \A f \in Pointer!Switches :
          /\ f \notin DOMAIN Pointer!Enumerations \cup DOMAIN Pointer!Limits
          /\ f # "composition_profile" /\ f # "zones" /\ f # Color
    /\ \A f \in DOMAIN Pointer!Enumerations :
          /\ f \notin DOMAIN Pointer!Limits /\ f # "composition_profile" /\ f # "zones" /\ f # Color
          /\ Pointer!Enumerations[f][2] \in Pointer!Enumerations[f][1]
          /\ f = "movement_budget_ring_mode" => Pointer!Enumerations[f][2] = "total"
    /\ \A f \in DOMAIN Pointer!Limits : f # "composition_profile" /\ f # "zones" /\ f # Color
    /\ {"composition_profile", "zones", Color} \cap (Pointer!Switches \cup DOMAIN Pointer!Limits) = {}
    /\ {"composition_profile", "zones", Color} \cap DOMAIN Pointer!Enumerations = {}
    /\ Pointer!DefaultColor \in Seq(Int)
  BY DEF Pointer!HudFields, Pointer!Switches, Pointer!Enumerations, Pointer!Limits, Color, Pointer!DefaultColor

(* A field of the HUD is read into its type, and is what it was, or missing, *)
(* where nothing is reported;                                                *)
HudReadAs(r, f, raw) ==
    /\ r.value \in HudType(f)
    /\ Clean(r) => IF f = "zones" THEN Pointer!WellTyped(raw) /\ \A z \in DOMAIN raw : r.value[z] = raw[z]
                                  ELSE raw \in {Nothing, r.value}

LEMMA HudFieldIs ==
    ASSUME NEW f \in Pointer!HudFields, NEW raw, HudShape(f, raw)
    PROVE  HudReadAs(Pointer!HudField(raw, f), f, raw)
<1>0. PICK r : r = Pointer!HudField(raw, f) OBVIOUS
<1> SUFFICES HudReadAs(r, f, raw)
  BY <1>0
<1>1. CASE f \in Pointer!Switches
  <2>1. r = Pointer!Required(raw, FALSE, "invalid_bool", f) BY <1>0, <1>1, HudReaders
  <2>2. raw \in BOOLEAN \/ ~Pointer!WellTyped(raw) BY <1>1, HudClasses DEF HudShape, Pointer!WellTyped
  <2>3. r.value = (IF Pointer!WellTyped(raw) THEN raw ELSE FALSE) /\ (Clean(r) => Pointer!WellTyped(raw))
    BY <2>1 DEF Pointer!Required, Pointer!Read, Pointer!Error, Clean
  <2>4. f # "zones" /\ HudType(f) = BOOLEAN BY <1>1, HudClasses DEF HudType
  <2> QED BY <2>2, <2>3, <2>4 DEF HudReadAs
<1>2. CASE f \in DOMAIN Pointer!Enumerations
  <2>0. PICK given : given = IF f = "movement_budget_ring_mode" /\ raw = Nothing THEN "total" ELSE raw OBVIOUS
  <2>1. r = Pointer!OneOf(given, Pointer!Enumerations[f][1], Pointer!Enumerations[f][2], "invalid_choice", f)
    BY <1>0, <1>2, <2>0, HudReaders
  <2>2. /\ r.value \in Pointer!Enumerations[f][1]
        /\ Clean(r) => r.value = given
    <3>1. Pointer!Enumerations[f][2] \in Pointer!Enumerations[f][1] BY <1>2, HudClasses
    <3> QED BY <2>1, <3>1 DEF Pointer!OneOf, Pointer!Read, Pointer!Error, Clean
  <2>3. f # "zones" /\ f \notin Pointer!Switches /\ HudType(f) = Pointer!Enumerations[f][1]
    BY <1>2, HudClasses DEF HudType
  <2> QED BY <2>0, <2>2, <2>3 DEF HudReadAs
<1>3. CASE f \in DOMAIN Pointer!Limits
  <2>0. PICK given : given = Pointer!Required(raw, 0, "invalid_number", f) OBVIOUS
  <2>1. r = Pointer!Ranged(given, Pointer!Limits[f], "out_of_range", f) BY <1>0, <1>3, <2>0, HudReaders
  <2>2. raw \in Int \/ ~Pointer!WellTyped(raw) BY <1>3, HudClasses DEF HudShape, Pointer!WellTyped
  <2>3. given.value = (IF Pointer!WellTyped(raw) THEN raw ELSE 0) /\ (Clean(given) => Pointer!WellTyped(raw))
    BY <2>0 DEF Pointer!Required, Pointer!Read, Pointer!Error, Clean
  <2>4. r.value = given.value /\ (Clean(r) => Clean(given)) BY <2>1, RangedIs DEF Clean
  <2>5. f # "zones" /\ HudType(f) = Int BY <1>3, HudClasses DEF HudType
  <2> QED BY <2>2, <2>3, <2>4, <2>5 DEF HudReadAs
<1>4. CASE f = "composition_profile"
  <2>1. r = Pointer!OptionalString(raw, f) BY <1>0, <1>4, HudReaders
  <2>2. raw \in Words \cup {Nothing, Wrong} BY <1>4, HudClasses DEF HudShape, Color
  <2>3. f # "zones" /\ HudType(f) = Words \cup {Nothing} BY <1>4, HudClasses DEF HudType
  <2>4. r.value = (IF raw = Wrong THEN Nothing ELSE raw) /\ (Clean(r) => raw # Wrong)
    BY <2>1 DEF Pointer!OptionalString, Pointer!Read, Pointer!Error, Clean
  <2> QED BY <2>2, <2>3, <2>4 DEF HudReadAs
<1>5. CASE f = "zones"
  <2>1. r = Pointer!ReadZones(raw) BY <1>0, <1>5, HudReaders
  <2>2. Pointer!WellTyped(raw) => IsZones(raw) BY <1>5 DEF HudShape
  <2>3. HudType(f) = ZonesValues BY <1>5, HudClasses DEF HudType
  <2>4. r.value \in ZonesValues /\ (Clean(r) => Pointer!WellTyped(raw) /\ \A z \in DOMAIN raw : r.value[z] = raw[z])
    BY <2>1, <2>2, ZonesAre
  <2> QED BY <1>5, <2>3, <2>4 DEF HudReadAs
<1>6. CASE f = Color
  <2>1. r = IF raw = Nothing THEN Pointer!Read(Pointer!DefaultColor, {})
                             ELSE Pointer!Required(raw, Pointer!DefaultColor, "invalid_rgba_color", Color)
    BY <1>0, <1>6, HudReaders
  <2>2. raw \in Seq(Int) \/ ~Pointer!WellTyped(raw)
    BY <1>6, HudClasses DEF HudShape, Pointer!WellTyped, Color
  <2>3. f # "zones" /\ HudType(f) = Seq(Int) BY <1>6, HudClasses DEF HudType, Color
  <2>4. /\ r.value = (IF Pointer!WellTyped(raw) THEN raw ELSE Pointer!DefaultColor)
        /\ Clean(r) => raw = Nothing \/ Pointer!WellTyped(raw)
    BY <2>1 DEF Pointer!Required, Pointer!Read, Pointer!Error, Clean, Pointer!WellTyped
  <2> QED BY <2>2, <2>3, <2>4, HudClasses DEF HudReadAs
<1> QED BY <1>1, <1>2, <1>3, <1>4, <1>5, <1>6, HudClasses

(* and a value of its type is read again as it is.                           *)
LEMMA HudFieldKept ==
    ASSUME NEW f \in Pointer!HudFields, NEW v \in HudType(f)
    PROVE  Pointer!HudField(v, f).value = v
<1>1. CASE f \in Pointer!Switches
  <2>1. v \in BOOLEAN BY <1>1, HudClasses DEF HudType
  <2>2. Pointer!WellTyped(v) BY <2>1, Typed
  <2>3. Pointer!HudField(v, f) = Pointer!Required(v, FALSE, "invalid_bool", f) BY <1>1, HudReaders
  <2> QED BY <2>2, <2>3 DEF Pointer!Required, Pointer!Read
<1>2. CASE f \in DOMAIN Pointer!Enumerations
  <2>1. v \in Pointer!Enumerations[f][1] BY <1>2, HudClasses DEF HudType
  <2>2. v \in Words BY <1>2, <2>1, WordsAssumption
  <2>3. Pointer!WellTyped(v) /\ v # Nothing BY <2>2, Typed DEF Pointer!WellTyped
  <2>4. Pointer!HudField(v, f) = Pointer!OneOf(v, Pointer!Enumerations[f][1], Pointer!Enumerations[f][2], "invalid_choice", f)
    BY <1>2, <2>3, HudReaders
  <2> QED BY <2>1, <2>3, <2>4 DEF Pointer!OneOf, Pointer!Read
<1>3. CASE f \in DOMAIN Pointer!Limits
  <2>1. v \in Int BY <1>3, HudClasses DEF HudType
  <2>2. Pointer!WellTyped(v) BY <2>1, Typed
  <2>3. PICK given : given = Pointer!Required(v, 0, "invalid_number", f) OBVIOUS
  <2>4. given.value = v BY <2>2, <2>3 DEF Pointer!Required, Pointer!Read
  <2>5. Pointer!HudField(v, f) = Pointer!Ranged(given, Pointer!Limits[f], "out_of_range", f) BY <1>3, <2>3, HudReaders
  <2> QED BY <2>4, <2>5, RangedIs
<1>4. CASE f = "composition_profile"
  <2>1. v \in Words \cup {Nothing} BY <1>4, HudClasses DEF HudType
  <2>2. Wrong \notin Words BY MarkersAssumption
  <2>3. Pointer!HudField(v, f) = Pointer!OptionalString(v, f) BY <1>4, HudReaders
  <2> QED BY <2>1, <2>2, <2>3 DEF Pointer!OptionalString, Pointer!Read
<1>5. CASE f = "zones"
  <2>1. v \in ZonesValues BY <1>5, HudClasses DEF HudType
  <2>2. Pointer!HudField(v, f) = Pointer!ReadZones(v) BY <1>5, HudReaders
  <2> QED BY <2>1, <2>2, ZonesKept
<1>6. CASE f = Color
  <2>1. v \in Seq(Int) BY <1>6, HudClasses DEF HudType, Color
  <2>2. Pointer!WellTyped(v) /\ v # Nothing BY <2>1, Typed DEF Pointer!WellTyped
  <2>3. Pointer!HudField(v, f) = Pointer!Required(v, Pointer!DefaultColor, "invalid_rgba_color", Color)
    BY <1>6, <2>2, HudReaders
  <2> QED BY <2>2, <2>3 DEF Pointer!Required, Pointer!Read
<1> QED BY <1>1, <1>2, <1>3, <1>4, <1>5, <1>6, HudClasses

(* The HUD's section is read into one of its values, which agrees with what *)
(* the document says where nothing is reported,                             *)
HudAgrees(h, raw) ==
    /\ Pointer!WellTyped(raw) /\ DOMAIN raw \subseteq Pointer!HudFields /\ "zones" \in DOMAIN raw
    /\ \A f \in DOMAIN raw \ {"zones"} : raw[f] \in {Nothing, h[f]}
    /\ \A z \in DOMAIN raw["zones"] : h["zones"][z] = raw["zones"][z]

LEMMA HudIs ==
    ASSUME NEW raw, Pointer!WellTyped(raw) => IsHud(raw)
    PROVE  /\ Pointer!ReadHud(raw).value \in HudReads
           /\ Clean(Pointer!ReadHud(raw)) => HudAgrees(Pointer!ReadHud(raw).value, raw)
<1> DEFINE section == IF Pointer!WellTyped(raw) THEN raw ELSE << >>
           fields  == [f \in Pointer!HudFields |-> Pointer!HudField(Pointer!At(section, f), f)]
           r       == Pointer!ReadHud(raw)
<1>1. Pointer!Section(raw, "hud").value = section BY RequiredIs DEF Pointer!Section
<1>2. /\ r.value = [f \in Pointer!HudFields |-> fields[f].value]
      /\ Pointer!Section(raw, "hud").diagnostics \subseteq r.diagnostics
      /\ Pointer!UnknownKeys(section, Pointer!HudFields) \subseteq r.diagnostics
      /\ Pointer!Diagnostics(fields) \subseteq r.diagnostics
  BY <1>1 DEF Pointer!ReadHud, Pointer!Read, Pointer!Values
<1>3. ASSUME NEW f \in Pointer!HudFields PROVE HudShape(f, Pointer!At(section, f))
  <2>1. CASE ~Pointer!WellTyped(raw)
    <3>1. Pointer!At(section, f) = Nothing BY <2>1 DEF Pointer!At
    <3> QED BY <3>1 DEF HudShape, Pointer!WellTyped
  <2>2. CASE Pointer!WellTyped(raw)
    <3>1. IsHud(raw) /\ section = raw BY <2>2
    <3>2. PICK at : at = Pointer!At(section, f) OBVIOUS
    <3>3. CASE f = "zones" BY <3>1, <3>2, <3>3 DEF IsHud, HudShape
    <3>4. CASE f # "zones"
      <4>1. f \in Pointer!Switches => at \in BOOLEAN \cup {Nothing, Wrong} BY <3>1, <3>2 DEF IsHud, Holds
      <4>2. f \in DOMAIN Pointer!Enumerations \cup {"composition_profile"} => at \in Words \cup {Nothing, Wrong}
        BY <3>1, <3>2 DEF IsHud, Holds
      <4>3. f \in DOMAIN Pointer!Limits => at \in Int \cup {Nothing, Wrong} BY <3>1, <3>2 DEF IsHud, Holds
      <4>4. f = Color => at \in Seq(Int) \cup {Nothing, Wrong} BY <3>1, <3>2 DEF IsHud, Holds, Color
      <4> QED BY <3>2, <3>4, <4>1, <4>2, <4>3, <4>4, HudClasses DEF HudShape
    <3> QED BY <3>3, <3>4
  <2> QED BY <2>1, <2>2
<1> HIDE DEF section, r
<1>4. ASSUME NEW f \in Pointer!HudFields PROVE HudReadAs(fields[f], f, Pointer!At(section, f))
  BY <1>3, HudFieldIs
<1> HIDE DEF fields
<1>5. r.value \in HudReads
  <2>1. \A f \in Pointer!HudFields : fields[f].value \in HudType(f) BY <1>4 DEF HudReadAs
  <2>2. \A f \in Pointer!HudFields :
           HudType(f) \subseteq BOOLEAN \cup Int \cup Words \cup {Nothing} \cup Seq(Int) \cup ZonesValues
    BY WordsAssumption DEF HudType
  <2>3. r.value \in HudValues BY <1>2, <2>1, <2>2 DEF HudValues
  <2> QED BY <1>2, <2>1, <2>3 DEF HudReads
<1>6. ASSUME Clean(r) PROVE HudAgrees(r.value, raw)
  <2>1. Pointer!WellTyped(raw)
    <3>1. Clean(Pointer!Section(raw, "hud")) BY <1>2, <1>6 DEF Clean
    <3> QED BY <3>1, RequiredIs DEF Pointer!Section
  <2>2. section = raw BY <2>1 DEF section
  <2>3. DOMAIN raw \subseteq Pointer!HudFields BY <1>2, <1>6, <2>2, KnownKeys
  <2>4. DOMAIN fields = Pointer!HudFields BY DEF fields
  <2>5. \A f \in Pointer!HudFields : Clean(fields[f]) BY <1>2, <1>6, <2>4, CleanFields
  <2>6. "zones" \in Pointer!HudFields BY HudClasses
  <2>7. /\ Pointer!WellTyped(Pointer!At(raw, "zones"))
        /\ \A z \in DOMAIN Pointer!At(raw, "zones") : r.value["zones"][z] = Pointer!At(raw, "zones")[z]
    BY <1>2, <1>4, <2>2, <2>5, <2>6 DEF HudReadAs
  <2>8. "zones" \in DOMAIN raw /\ Pointer!At(raw, "zones") = raw["zones"]
    BY <2>7 DEF Pointer!At, Pointer!WellTyped
  <2>9. ASSUME NEW f \in DOMAIN raw \ {"zones"} PROVE raw[f] \in {Nothing, r.value[f]}
    BY <1>2, <1>4, <2>2, <2>3, <2>5 DEF HudReadAs, Pointer!At
  <2> QED BY <2>1, <2>3, <2>7, <2>8, <2>9 DEF HudAgrees
<1> QED BY <1>5, <1>6 DEF r

(* and is read again as it is. *)
LEMMA HudKept ==
    ASSUME NEW h \in HudReads
    PROVE  Pointer!ReadHud(h).value = h
<1>1. h \in HudValues /\ DOMAIN h = Pointer!HudFields /\ \A f \in Pointer!HudFields : h[f] \in HudType(f)
  BY DEF HudReads, HudValues
<1>2. Pointer!WellTyped(h) BY <1>1, MarkersAssumption DEF Pointer!WellTyped
<1>3. Pointer!Section(h, "hud").value = h BY <1>2, RequiredIs DEF Pointer!Section
<1>4. Pointer!ReadHud(h).value = [f \in Pointer!HudFields |-> Pointer!HudField(Pointer!At(h, f), f).value]
  BY <1>3 DEF Pointer!ReadHud, Pointer!Read, Pointer!Values
<1>5. \A f \in Pointer!HudFields : Pointer!HudField(Pointer!At(h, f), f).value = h[f]
  BY <1>1, HudFieldKept DEF Pointer!At
<1>6. h = [f \in Pointer!HudFields |-> h[f]] BY <1>1 DEF HudValues
<1> QED BY <1>4, <1>5, <1>6

-----------------------------------------------------------------------------

(* A JSON object is read as it is, and a missing one as an empty one. *)
LEMMA KeptIs ==
    ASSUME NEW raw, raw \in Objects \cup {Nothing, Wrong}, NEW field
    PROVE  /\ Pointer!Kept(raw, field).value \in Objects
           /\ Clean(Pointer!Kept(raw, field)) => raw \in {Nothing, Pointer!Kept(raw, field).value}
           /\ raw \in Objects => Pointer!Kept(raw, field).value = raw
<1>1. << >> \in Objects /\ Wrong \notin Objects /\ Nothing \notin Objects BY MarkersAssumption
<1> QED BY <1>1 DEF Pointer!Kept, Pointer!Section, Pointer!Required, Pointer!Read, Pointer!Error, Pointer!WellTyped, Clean

ExperimentalReads == [planned_settings : Objects, extensions : Objects]

(* The experimental section and the extensions are read into the two *)
LEMMA ExperimentalIs ==
    ASSUME NEW raw, Pointer!WellTyped(raw) => IsExperimental(raw), NEW ext \in Objects \cup {Nothing, Wrong}
    PROVE  LET r == Pointer!ReadExperimental(raw, ext)
           IN  /\ r.value \in ExperimentalReads
               /\ Clean(r) => /\ Pointer!WellTyped(raw)
                              /\ Pointer!At(raw, "planned_settings") \in {Nothing, r.value.planned_settings}
                              /\ ext \in {Nothing, r.value.extensions}
<1> DEFINE section  == IF Pointer!WellTyped(raw) THEN raw ELSE << >>
           at       == Pointer!At(section, "planned_settings")
           planned  == Pointer!Kept(at, "planned_settings")
           extended == Pointer!Kept(ext, "extensions")
           r        == Pointer!ReadExperimental(raw, ext)
<1>1. Pointer!Section(raw, "experimental").value = section BY RequiredIs DEF Pointer!Section
<1>2. /\ r.value = [planned_settings |-> planned.value, extensions |-> extended.value]
      /\ Pointer!Section(raw, "experimental").diagnostics \subseteq r.diagnostics
      /\ planned.diagnostics \subseteq r.diagnostics /\ extended.diagnostics \subseteq r.diagnostics
  BY <1>1 DEF Pointer!ReadExperimental, Pointer!Read
<1>3. at \in Objects \cup {Nothing, Wrong} BY DEF IsExperimental, Holds, Pointer!At
<1> HIDE DEF at
<1>4. planned.value \in Objects /\ (Clean(planned) => at \in {Nothing, planned.value}) BY <1>3, KeptIs
<1>5. extended.value \in Objects /\ (Clean(extended) => ext \in {Nothing, extended.value}) BY KeptIs
<1> HIDE DEF planned, extended, r
<1>6. r.value \in ExperimentalReads BY <1>2, <1>4, <1>5 DEF ExperimentalReads
<1>7. ASSUME Clean(r) PROVE Pointer!WellTyped(raw)
  <2>1. Clean(Pointer!Section(raw, "experimental")) BY <1>2, <1>7 DEF Clean
  <2> QED BY <2>1, RequiredIs DEF Pointer!Section
<1>8. ASSUME Clean(r) PROVE at = Pointer!At(raw, "planned_settings") BY <1>7, <1>8 DEF at
<1>9. ASSUME Clean(r) PROVE Clean(planned) /\ Clean(extended) BY <1>2, <1>9 DEF Clean
<1>10. ASSUME Clean(r)
       PROVE  /\ Pointer!At(raw, "planned_settings") \in {Nothing, r.value.planned_settings}
              /\ ext \in {Nothing, r.value.extensions}
  BY <1>2, <1>4, <1>5, <1>8, <1>9, <1>10
<1> QED BY <1>6, <1>7, <1>10 DEF r

(* and are read again as they are. *)
LEMMA ExperimentalKept ==
    ASSUME NEW e \in ExperimentalReads
    PROVE  Pointer!ReadExperimental([planned_settings |-> e.planned_settings], e.extensions).value = e
<1>1. e.planned_settings \in Objects /\ e.extensions \in Objects BY DEF ExperimentalReads
<1> DEFINE written == [planned_settings |-> e.planned_settings]
<1>2. written \in PlannedValues BY <1>1 DEF PlannedValues
<1>3. Pointer!At(written, "planned_settings") = e.planned_settings BY DEF Pointer!At
<1> HIDE DEF written
<1>4. Pointer!WellTyped(written) BY <1>2, MarkersAssumption DEF Pointer!WellTyped
<1>5. Pointer!Section(written, "experimental").value = written BY <1>4, RequiredIs DEF Pointer!Section
<1>6. /\ Pointer!Kept(e.planned_settings, "planned_settings").value = e.planned_settings
      /\ Pointer!Kept(e.extensions, "extensions").value = e.extensions
  BY <1>1, KeptIs
<1>7. Pointer!ReadExperimental(written, e.extensions).value =
        [planned_settings |-> e.planned_settings, extensions |-> e.extensions]
  BY <1>3, <1>5, <1>6 DEF Pointer!ReadExperimental, Pointer!Read
<1> QED BY <1>7 DEF ExperimentalReads, written

-----------------------------------------------------------------------------

(* What a document is read into *)
Canonical ==
    [profile_name : Words, overlays : OverlayValues, hotkeys : Seq(Bindings), selection : SelectionValues,
     hud : HudReads, experimental : ExperimentalReads]

LEMMA CanonicalValues ==
    /\ Bindings \subseteq BindingValues /\ Canonical \subseteq PreferenceValues
    /\ Nothing \notin Bindings /\ Nothing \notin Canonical
<1>1. ModifierKeys \subseteq Words BY WordsAssumption DEF ModifierKeys
<1>2. Bindings \subseteq BindingValues
  <2> SUFFICES ASSUME NEW b \in Bindings PROVE b \in BindingValues
    OBVIOUS
  <2>1. b \in [command_id : Words, key : Words, modifiers : Seq(ModifierKeys), overlay_id : Words \cup {Nothing}]
    BY DEF Bindings
  <2>2. b.modifiers \in Seq(Words) BY <1>1, <2>1
  <2> QED BY <2>1, <2>2 DEF BindingValues
<1>3. Canonical \subseteq PreferenceValues
  <2> SUFFICES ASSUME NEW p \in Canonical PROVE p \in PreferenceValues
    OBVIOUS
  <2>1. p.hotkeys \in Seq(BindingValues) BY <1>2 DEF Canonical
  <2>2. p.hud \in HudValues BY DEF Canonical, HudReads
  <2> QED BY <2>1, <2>2 DEF Canonical, PreferenceValues, ExperimentalReads
<1> QED BY <1>2, <1>3, MarkersAssumption

(* What the preferences say where the document says something *)
Agrees(p, d) ==
    /\ p.overlays = d.overlays /\ p.selection = d.selection
    /\ Pointer!At(d.experimental, "planned_settings") \in {Nothing, p.experimental.planned_settings}
    /\ Pointer!At(d, "extensions") \in {Nothing, p.experimental.extensions}
    /\ \A f \in DOMAIN d.hud \ {"zones"} : d.hud[f] \in {Nothing, p.hud[f]}
    /\ \A z \in DOMAIN d.hud.zones : p.hud.zones[z] = d.hud.zones[z]

(* A document is read into such preferences or refused; an input bound twice *)
(* is reported; and a document in which nothing is reported is read as it    *)
(* stands.                                                                   *)
ReadsDocument(r, d) ==
    /\ r.value # Nothing => r.value \in Canonical /\ Pointer!Duplicates(r.value.hotkeys) \subseteq r.diagnostics
    /\ Clean(r) => r.value # Nothing /\ Agrees(r.value, d)

LEMMA ParseIs ==
    ASSUME NEW d, Pointer!WellTyped(d) => IsDocument(d)
    PROVE  ReadsDocument(Pointer!Parse(d), d)
<1>1. CASE ~Pointer!WellTyped(d)
  <2>1. Pointer!Parse(d) = Pointer!Read(Nothing, {Pointer!Error("invalid_document", "$")})
    BY <1>1 DEF Pointer!Parse
  <2>2. PICK e : e = Pointer!Error("invalid_document", "$") OBVIOUS
  <2>3. PICK r : r = Pointer!Parse(d) OBVIOUS
  <2>4. r.value = Nothing /\ r.diagnostics = {e} /\ e.severity = "error"
    BY <2>1, <2>2, <2>3 DEF Pointer!Read, Pointer!Error
  <2>5. ~Clean(r) BY <2>4 DEF Clean
  <2>6. ReadsDocument(r, d) BY <2>4, <2>5 DEF ReadsDocument
  <2> QED BY <2>3, <2>6
<1>2. CASE Pointer!WellTyped(d)
  <2>0. IsDocument(d) BY <1>2
  <2>1. PICK version : version = Pointer!RequiredString(Pointer!At(d, "schema_version"), "schema_version") OBVIOUS
  <2>2. PICK name : name = Pointer!RequiredString(Pointer!At(d, "profile_name"), "profile_name") OBVIOUS
  <2>3. PICK overlays : overlays = Pointer!ReadOverlays(Pointer!At(d, "overlays")) OBVIOUS
  <2>4. PICK hotkeys : hotkeys = Pointer!ReadHotkeys(Pointer!At(d, "hotkeys")) OBVIOUS
  <2>5. PICK selection : selection = Pointer!ReadSelection(Pointer!At(d, "selection")) OBVIOUS
  <2>6. PICK hud : hud = Pointer!ReadHud(Pointer!At(d, "hud")) OBVIOUS
  <2>7. PICK exp : exp = Pointer!ReadExperimental(Pointer!At(d, "experimental"), Pointer!At(d, "extensions")) OBVIOUS
  <2> DEFINE reads == [profile_name |-> name, overlays |-> overlays, hotkeys |-> hotkeys, selection |-> selection,
                       hud |-> hud, experimental |-> exp]
             r     == Pointer!Parse(d)
             p     == [profile_name |-> name.value, overlays |-> overlays.value, hotkeys |-> hotkeys.value,
                       selection |-> selection.value, hud |-> hud.value, experimental |-> exp.value]
  <2>8. /\ r.value = IF version.value = "1" THEN Pointer!Values(reads) ELSE Nothing
        /\ Pointer!Diagnostics(reads) \subseteq r.diagnostics
        /\ version.value # "1" =>
              Pointer!Error("unsupported_schema_version", "schema_version") \in r.diagnostics
    BY <1>2, <2>1, <2>2, <2>3, <2>4, <2>5, <2>6, <2>7 DEF Pointer!Parse, Pointer!Read
  <2>9. Pointer!Values(reads) = p BY DEF Pointer!Values
  <2>10. name.value \in Words
    <3>1. "" \in Words BY WordsAssumption
    <3>2. Holds(d, "profile_name", Words) BY <2>0 DEF IsDocument
    <3>3. ReadAs(name, d, "profile_name", Words) BY <2>2, <3>1, <3>2, FieldIs DEF Pointer!RequiredString
    <3> QED BY <3>3 DEF ReadAs
  <2>11. /\ overlays.value \in OverlayValues
         /\ Clean(overlays) => overlays.value = Pointer!At(d, "overlays")
    BY <2>0, <2>3, OverlaysAre DEF IsDocument
  <2>12. hotkeys.value \in Seq(Bindings) /\ Pointer!Duplicates(hotkeys.value) \subseteq hotkeys.diagnostics
    BY <2>0, <2>4, HotkeysAre DEF IsDocument
  <2>13. /\ selection.value \in SelectionValues
         /\ Clean(selection) => selection.value = Pointer!At(d, "selection")
    BY <2>0, <2>5, SelectionIs DEF IsDocument
  <2>14. hud.value \in HudReads /\ (Clean(hud) => HudAgrees(hud.value, Pointer!At(d, "hud")))
    BY <2>0, <2>6, HudIs DEF IsDocument
  <2>15. /\ exp.value \in ExperimentalReads
         /\ Clean(exp) => /\ Pointer!WellTyped(Pointer!At(d, "experimental"))
                          /\ Pointer!At(Pointer!At(d, "experimental"), "planned_settings")
                                \in {Nothing, exp.value.planned_settings}
                          /\ Pointer!At(d, "extensions") \in {Nothing, exp.value.extensions}
    <3>1. Pointer!At(d, "extensions") \in Objects \cup {Nothing, Wrong} BY <2>0 DEF IsDocument, Holds
    <3>2. Pointer!WellTyped(Pointer!At(d, "experimental")) => IsExperimental(Pointer!At(d, "experimental"))
      BY <2>0 DEF IsDocument
    <3>3. PICK e, x : e = Pointer!At(d, "experimental") /\ x = Pointer!At(d, "extensions") OBVIOUS
    <3> QED BY <2>7, <3>1, <3>2, <3>3, ExperimentalIs
  <2> HIDE DEF r
  <2>16. p \in Canonical BY <2>10, <2>11, <2>12, <2>13, <2>14, <2>15 DEF Canonical
  <2>17. Pointer!Duplicates(p.hotkeys) \subseteq r.diagnostics
    <3>1. reads["hotkeys"].diagnostics \subseteq Pointer!Diagnostics(reads) BY DEF Pointer!Diagnostics
    <3> QED BY <2>8, <2>12, <3>1
  <2>18. ASSUME Clean(r) PROVE r.value = p /\ Agrees(p, d)
    <3>1. version.value = "1" BY <2>8, <2>18 DEF Clean, Pointer!Error
    <3>2. Clean(overlays) /\ Clean(selection) /\ Clean(hud) /\ Clean(exp)
      <4>1. \A k \in DOMAIN reads : Clean(reads[k]) BY <2>8, <2>18, CleanFields
      <4> QED BY <4>1
    <3> HIDE DEF reads
    <3>3. ASSUME NEW k, Pointer!WellTyped(Pointer!At(d, k)) PROVE Pointer!At(d, k) = d[k]
      BY <3>3 DEF Pointer!At, Pointer!WellTyped
    <3>4. overlays.value = d["overlays"]
      <4>1. Pointer!WellTyped(Pointer!At(d, "overlays"))
        BY <2>11, <3>2, MarkersAssumption DEF Pointer!WellTyped
      <4> QED BY <2>11, <3>2, <3>3, <4>1
    <3>5. selection.value = d["selection"]
      <4>1. Pointer!WellTyped(Pointer!At(d, "selection"))
        BY <2>13, <3>2, MarkersAssumption DEF Pointer!WellTyped
      <4> QED BY <2>13, <3>2, <3>3, <4>1
    <3>6. HudAgrees(hud.value, d["hud"])
      <4>1. Pointer!WellTyped(Pointer!At(d, "hud")) BY <2>14, <3>2 DEF HudAgrees
      <4> QED BY <2>14, <3>2, <3>3, <4>1
    <3>7. Pointer!At(d, "experimental") = d["experimental"] BY <2>15, <3>2, <3>3
    <3>8. Agrees(p, d) BY <2>15, <3>2, <3>4, <3>5, <3>6, <3>7 DEF Agrees, HudAgrees
    <3> QED BY <2>8, <2>9, <3>1, <3>8
  <2> HIDE DEF p, reads
  <2>19. p # Nothing BY <2>16, CanonicalValues
  <2>20. ReadsDocument(r, d) BY <2>8, <2>9, <2>16, <2>17, <2>18, <2>19 DEF ReadsDocument
  <2> QED BY <2>20 DEF r
<1> QED BY <1>1, <1>2

(* What is written of preferences is read as the same preferences. *)
LEMMA ExportKept ==
    ASSUME NEW p \in Canonical
    PROVE  Pointer!Parse(Pointer!Exported(p)).value = p
<1>1. PICK hotkeys : hotkeys = [i \in DOMAIN p.hotkeys |-> Pointer!BindingPayload(p.hotkeys[i])] OBVIOUS
<1> DEFINE d == [schema_version |-> "1", profile_name |-> p.profile_name, overlays |-> p.overlays,
                 hotkeys |-> hotkeys, selection |-> p.selection, hud |-> p.hud,
                 experimental |-> [planned_settings |-> p.experimental.planned_settings],
                 extensions |-> p.experimental.extensions]
<1>2. Pointer!Exported(p) = d BY <1>1 DEF Pointer!Exported
<1>3. /\ p.profile_name \in Words /\ p.overlays \in OverlayValues /\ p.hotkeys \in Seq(Bindings)
      /\ p.selection \in SelectionValues /\ p.hud \in HudReads /\ p.experimental \in ExperimentalReads
      /\ p = [profile_name |-> p.profile_name, overlays |-> p.overlays, hotkeys |-> p.hotkeys,
              selection |-> p.selection, hud |-> p.hud, experimental |-> p.experimental]
  BY DEF Canonical
<1>4. hotkeys \in Seq(BindingPayloads) /\ Pointer!ReadHotkeys(hotkeys).value = p.hotkeys
  BY <1>1, <1>3, HotkeysKept
<1>5. d \in Payloads
  <2>1. p.hud \in HudValues BY <1>3 DEF HudReads
  <2>2. p.experimental.planned_settings \in Objects /\ p.experimental.extensions \in Objects
    BY <1>3 DEF ExperimentalReads
  <2> QED BY <1>3, <1>4, <2>1, <2>2 DEF Payloads, PlannedValues
<1>6. Pointer!WellTyped(d) BY <1>5, MarkersAssumption DEF Pointer!WellTyped
<1>7. /\ Pointer!At(d, "schema_version") = "1" /\ Pointer!At(d, "profile_name") = p.profile_name
      /\ Pointer!At(d, "overlays") = p.overlays /\ Pointer!At(d, "hotkeys") = hotkeys
      /\ Pointer!At(d, "selection") = p.selection /\ Pointer!At(d, "hud") = p.hud
      /\ Pointer!At(d, "experimental") = [planned_settings |-> p.experimental.planned_settings]
      /\ Pointer!At(d, "extensions") = p.experimental.extensions
  BY DEF Pointer!At
<1> HIDE DEF d
<1>8. ASSUME NEW w \in Words, NEW field PROVE Pointer!RequiredString(w, field).value = w
  <2>1. Pointer!WellTyped(w) BY Typed
  <2> QED BY <2>1 DEF Pointer!RequiredString, Pointer!Required, Pointer!Read
<1>9. "1" \in Words BY WordsAssumption
<1>10. PICK name : name = Pointer!RequiredString(p.profile_name, "profile_name") OBVIOUS
<1>11. PICK overlays : overlays = Pointer!ReadOverlays(p.overlays) OBVIOUS
<1>12. PICK keys : keys = Pointer!ReadHotkeys(hotkeys) OBVIOUS
<1>13. PICK selection : selection = Pointer!ReadSelection(p.selection) OBVIOUS
<1>14. PICK hud : hud = Pointer!ReadHud(p.hud) OBVIOUS
<1>15. PICK exp : exp = Pointer!ReadExperimental([planned_settings |-> p.experimental.planned_settings],
                                                 p.experimental.extensions) OBVIOUS
<1>16. Pointer!RequiredString("1", "schema_version").value = "1" BY <1>8, <1>9
<1>17. Pointer!Parse(d).value =
         Pointer!Values([profile_name |-> name, overlays |-> overlays, hotkeys |-> keys, selection |-> selection,
                         hud |-> hud, experimental |-> exp])
  BY <1>6, <1>7, <1>10, <1>11, <1>12, <1>13, <1>14, <1>15, <1>16 DEF Pointer!Parse, Pointer!Read
<1>18. /\ name.value = p.profile_name /\ overlays.value = p.overlays /\ keys.value = p.hotkeys
       /\ selection.value = p.selection /\ hud.value = p.hud /\ exp.value = p.experimental
  BY <1>3, <1>4, <1>8, <1>10, <1>11, <1>12, <1>13, <1>14, <1>15, OverlaysKept, SelectionKept, HudKept, ExperimentalKept
<1>19. Pointer!Parse(d).value =
         [profile_name |-> name.value, overlays |-> overlays.value, hotkeys |-> keys.value,
          selection |-> selection.value, hud |-> hud.value, experimental |-> exp.value]
  BY <1>17 DEF Pointer!Values
<1> QED BY <1>2, <1>3, <1>18, <1>19

-----------------------------------------------------------------------------

(* The defaults are such preferences, *)
LEMMA DefaultHotkeysAre == Pointer!DefaultPreferences.hotkeys \in Seq(Bindings)
<1> DEFINE Bound(c, k, mods) == [command_id |-> c, key |-> k, modifiers |-> mods, overlay_id |-> Nothing]
<1>1. ASSUME NEW c \in Pointer!Commands, NEW k \in Pointer!ValidKeys, NEW mods, mods = << >> \/ mods = <<"shift">>,
             NEW o \in Pointer!ActiveOverlays \cup {Nothing}
      PROVE  [command_id |-> c, key |-> k, modifiers |-> mods, overlay_id |-> o] \in Bindings
  <2>1. c \in Words /\ k \in Words /\ o \in Words \cup {Nothing} /\ Lower(k) = k BY WordsAssumption
  <2>2. "shift" \in ModifierKeys
    <3>1. Pointer!Modifiers[4] = "shift" /\ 4 \in DOMAIN Pointer!Modifiers BY DEF Pointer!Modifiers
    <3> QED BY <3>1 DEF ModifierKeys, ToSet
  <2>3. mods \in Seq(ModifierKeys)
    <3>1. \A m \in ModifierKeys : <<m>> \in Seq(ModifierKeys) OBVIOUS
    <3>2. << >> \in Seq(ModifierKeys) OBVIOUS
    <3> QED BY <1>1, <2>2, <3>1, <3>2
  <2>4. IsInjective(mods) BY <1>1 DEF IsInjective
  <2> QED BY <2>1, <2>3, <2>4 DEF Bindings
<1>2. ASSUME NEW c \in Pointer!Commands, NEW k \in Pointer!ValidKeys
      PROVE  Bound(c, k, << >>) \in Bindings /\ Bound(c, k, <<"shift">>) \in Bindings
  BY <1>1
<1>3. "movement_budget" \in Pointer!ActiveOverlays BY DEF Pointer!ActiveOverlays
<1>4. /\ {"cancel", "confirm", "cycle_selection", "open_selected_unit_actions", "cycle_entity_layer",
          "select_current_entity_group", "add_entity_selection", "subtract_entity_selection",
          "toggle_entity_selection", "toggle_overlay", "toggle_measure_mode", "toggle_action_summary",
          "review_action_summary"} \subseteq Pointer!Commands
      /\ {"escape", "enter", "tab", "space", "l", "g", "a", "s", "t", "b", "r", "v"} \subseteq Pointer!ValidKeys
  BY DEF Pointer!Commands, Pointer!ValidKeys, Pointer!NamedKeys
<1>5. PICK b10 : b10 = [command_id |-> "toggle_overlay", key |-> "b", modifiers |-> << >>, overlay_id |-> "movement_budget"]
  OBVIOUS
<1>6. b10 \in Bindings BY <1>1, <1>3, <1>4, <1>5
<1>7. [Bound("toggle_overlay", "b", << >>) EXCEPT !.overlay_id = "movement_budget"] = b10 BY <1>5
<1>8. Pointer!DefaultPreferences.hotkeys =
        <<Bound("cancel", "escape", << >>), Bound("confirm", "enter", << >>),
          Bound("cycle_selection", "tab", << >>), Bound("open_selected_unit_actions", "space", << >>),
          Bound("cycle_entity_layer", "l", << >>), Bound("select_current_entity_group", "g", << >>),
          Bound("add_entity_selection", "a", <<"shift">>), Bound("subtract_entity_selection", "s", <<"shift">>),
          Bound("toggle_entity_selection", "t", <<"shift">>), b10, Bound("toggle_measure_mode", "r", << >>),
          Bound("toggle_action_summary", "v", << >>), Bound("review_action_summary", "v", <<"shift">>)>>
  BY <1>7 DEF Pointer!DefaultPreferences
<1> HIDE DEF Bound
<1> QED BY <1>2, <1>4, <1>6, <1>8

LEMMA DefaultHudIs == Pointer!DefaultPreferences.hud \in HudReads
<1>1. PICK h : h = Pointer!DefaultPreferences.hud OBVIOUS
<1>2. h = [f \in Pointer!HudFields |->
             CASE f \in Pointer!Switches -> f # "high_contrast"
               [] f = "action_summary_default" -> "dim"
               [] f \in DOMAIN Pointer!Enumerations \ {"action_summary_default"} -> Pointer!Enumerations[f][2]
               [] f = "text_scale" -> 100
               [] f = "action_summary_max_labels" -> 6
               [] f = "composition_profile" -> "default-hud"
               [] f = "zones" -> Pointer!DefaultZones
               [] f = "assignment_target_highlight_color" -> Pointer!DefaultColor]
  BY <1>1 DEF Pointer!DefaultPreferences
<1>3. /\ "action_summary_default" \in DOMAIN Pointer!Enumerations
      /\ "dim" \in Pointer!Enumerations["action_summary_default"][1]
      /\ DOMAIN Pointer!Limits = {"text_scale", "action_summary_max_labels"}
  BY DEF Pointer!Enumerations, Pointer!Limits
<1>4. ASSUME NEW f \in Pointer!HudFields PROVE h[f] \in HudType(f)
  <2>1. CASE f \in Pointer!Switches
    <3>1. h[f] = (f # "high_contrast") BY <1>2, <1>3, <2>1, HudClasses DEF Color
    <3> QED BY <2>1, <3>1 DEF HudType
  <2>2. CASE f = "action_summary_default"
    <3>1. h[f] = "dim" BY <1>2, <1>3, <2>2, HudClasses DEF Color
    <3> QED BY <1>3, <2>2, <3>1, HudClasses DEF HudType
  <2>3. CASE f \in DOMAIN Pointer!Enumerations \ {"action_summary_default"}
    <3>1. h[f] = Pointer!Enumerations[f][2] BY <1>2, <1>3, <2>3, HudClasses DEF Color
    <3> QED BY <1>3, <2>3, <3>1, HudClasses DEF HudType
  <2>4. CASE f \in DOMAIN Pointer!Limits
    <3>1. h[f] \in Int BY <1>2, <1>3, <2>4, HudClasses DEF Color
    <3> QED BY <2>4, <3>1, HudClasses DEF HudType
  <2>5. CASE f = "composition_profile"
    <3>1. h[f] = "default-hud" BY <1>2, <1>3, <2>5, HudClasses DEF Color
    <3> QED BY <2>5, <3>1, HudClasses, WordsAssumption DEF HudType
  <2>6. CASE f = "zones"
    <3>1. h[f] = Pointer!DefaultZones BY <1>2, <1>3, <2>6, HudClasses DEF Color
    <3> QED BY <2>6, <3>1, HudClasses, DefaultZonesAre DEF HudType
  <2>7. CASE f = Color
    <3>1. h[f] = Pointer!DefaultColor BY <1>2, <1>3, <2>7, HudClasses DEF Color
    <3>2. HudType(f) = Seq(Int) BY <2>7, HudClasses DEF HudType, Color
    <3> QED BY <3>1, <3>2, HudClasses
  <2> QED BY <2>1, <2>2, <2>3, <2>4, <2>5, <2>6, <2>7, HudClasses
<1>5. \A f \in Pointer!HudFields :
         HudType(f) \subseteq BOOLEAN \cup Int \cup Words \cup {Nothing} \cup Seq(Int) \cup ZonesValues
  BY WordsAssumption DEF HudType
<1>6. h \in HudValues BY <1>2, <1>4, <1>5 DEF HudValues
<1> QED BY <1>1, <1>4, <1>6 DEF HudReads

LEMMA DefaultsAre == Pointer!DefaultPreferences \in Canonical
<1>1. PICK p : p = Pointer!DefaultPreferences OBVIOUS
<1>2. p = [profile_name |-> p.profile_name, overlays |-> p.overlays, hotkeys |-> p.hotkeys,
           selection |-> p.selection, hud |-> p.hud, experimental |-> p.experimental]
  BY <1>1 DEF Pointer!DefaultPreferences
<1>3. p.profile_name \in Words
  <2>1. p.profile_name = "default" BY <1>1 DEF Pointer!DefaultPreferences
  <2> QED BY <2>1, WordsAssumption
<1>4. p.overlays \in OverlayValues
  <2>1. p.overlays = [default_on_model_selection |-> <<"selected_model">>,
                      default_on_unit_selection  |-> <<"selected_unit">>,
                      default_on_movement_draft  |-> <<"movement_path_draft", "movement_budget">>,
                      enabled_by_default         |-> <<"debug_coordinates">>]
    BY <1>1 DEF Pointer!DefaultPreferences
  <2>2. /\ "selected_model" \in Words /\ "selected_unit" \in Words /\ "movement_path_draft" \in Words
        /\ "movement_budget" \in Words /\ "debug_coordinates" \in Words
    BY WordsAssumption DEF Pointer!ActiveOverlays
  <2>3. Pointer!OverlayLists = {"default_on_model_selection", "default_on_unit_selection",
                                "default_on_movement_draft", "enabled_by_default"}
    BY DEF Pointer!OverlayLists
  <2>4. \A w1, w2 \in Words : <<w1>> \in Seq(Words) /\ <<w1, w2>> \in Seq(Words) OBVIOUS
  <2>5. ASSUME NEW k \in Pointer!OverlayLists PROVE p.overlays[k] \in Seq(Words)
    <3>1. CASE k = "default_on_model_selection"
      <4>1. p.overlays[k] = <<"selected_model">> BY <2>1, <3>1
      <4> QED BY <2>2, <2>4, <4>1
    <3>2. CASE k = "default_on_unit_selection"
      <4>1. p.overlays[k] = <<"selected_unit">> BY <2>1, <3>2
      <4> QED BY <2>2, <2>4, <4>1
    <3>3. CASE k = "default_on_movement_draft"
      <4>1. p.overlays[k] = <<"movement_path_draft", "movement_budget">> BY <2>1, <3>3
      <4> QED BY <2>2, <2>4, <4>1
    <3>4. CASE k = "enabled_by_default"
      <4>1. p.overlays[k] = <<"debug_coordinates">> BY <2>1, <3>4
      <4> QED BY <2>2, <2>4, <4>1
    <3> QED BY <2>3, <3>1, <3>2, <3>3, <3>4
  <2>6. p.overlays = [k \in Pointer!OverlayLists |-> p.overlays[k]] BY <2>1, <2>3
  <2> QED BY <2>5, <2>6 DEF OverlayValues
<1>5. p.hotkeys \in Seq(Bindings) BY <1>1, DefaultHotkeysAre
<1>6. p.selection \in SelectionValues
  <2>1. p.selection = [default_mouse_button |-> "left", cycle_overlapping_bases |-> TRUE]
    BY <1>1 DEF Pointer!DefaultPreferences
  <2>2. "left" \in Words BY WordsAssumption DEF Pointer!MouseButtons
  <2> QED BY <2>1, <2>2 DEF SelectionValues
<1>7. p.hud \in HudReads BY <1>1, DefaultHudIs
<1>8. p.experimental \in ExperimentalReads
  <2>1. p.experimental = [planned_settings |-> << >>, extensions |-> << >>]
    BY <1>1 DEF Pointer!DefaultPreferences
  <2> QED BY <2>1, MarkersAssumption DEF ExperimentalReads
<1> QED BY <1>1, <1>2, <1>3, <1>4, <1>5, <1>6, <1>7, <1>8 DEF Canonical

-----------------------------------------------------------------------------
(* Files *)

(* What is loaded from a file there is: preferences that are written back so *)
(* that they are read the same; an input that is bound twice is reported, or *)
(* the defaults are used; and a file in which nothing is reported is used as *)
(* it stands.                                                                *)
LoadedWell(l) ==
    /\ Pointer!InUse(l) \in Canonical
    /\ Pointer!InUse(l) = Pointer!DefaultPreferences
       \/ Pointer!Duplicates(Pointer!InUse(l).hotkeys) \subseteq l.read.diagnostics
    /\ l.kind = "builtin" \/ ~Clean(l.read) \/ Agrees(Pointer!InUse(l), l.file.document)

LEMMA LoadIs ==
    ASSUME NEW named \in BOOLEAN, NEW file \in Files
    PROVE  LoadedWell(Pointer!Load(named, file))
<1>1. PICK l : l = Pointer!Load(named, file) OBVIOUS
<1> SUFFICES LoadedWell(l)
  BY <1>1
<1>2. /\ l.file = file
      /\ l.kind = IF named THEN "explicit_path" ELSE IF file.state = "missing" THEN "builtin" ELSE "user_default"
      /\ l.read = IF file.state = "missing"
                  THEN IF named THEN Pointer!Read(Nothing, {Pointer!Error("preferences_file_missing", "path")})
                                ELSE Pointer!Parse(Pointer!Exported(Pointer!DefaultPreferences))
                  ELSE IF file.state \in Pointer!FileErrors
                       THEN Pointer!Read(Nothing, {Pointer!Error(file.state, "path")})
                       ELSE Pointer!Parse(file.document)
  BY <1>1 DEF Pointer!Load
<1>3. Pointer!InUse(l) = IF l.read.value = Nothing THEN Pointer!DefaultPreferences ELSE l.read.value
  BY DEF Pointer!InUse
<1>4. ASSUME NEW code, l.read = Pointer!Read(Nothing, {Pointer!Error(code, "path")}) PROVE LoadedWell(l)
  <2>1. PICK e : e = Pointer!Error(code, "path") OBVIOUS
  <2>2. l.read.value = Nothing /\ l.read.diagnostics = {e} /\ e.severity = "error"
    BY <1>4, <2>1 DEF Pointer!Read, Pointer!Error
  <2>3. ~Clean(l.read) BY <2>2 DEF Clean
  <2> QED BY <1>3, <2>2, <2>3, DefaultsAre DEF LoadedWell
<1>5. CASE file.state = "missing" /\ named BY <1>2, <1>4, <1>5
<1>6. CASE file.state = "missing" /\ ~named
  <2>1. l.read = Pointer!Parse(Pointer!Exported(Pointer!DefaultPreferences)) /\ l.kind = "builtin" BY <1>2, <1>6
  <2>2. l.read.value = Pointer!DefaultPreferences BY <2>1, DefaultsAre, ExportKept
  <2> QED BY <1>3, <2>1, <2>2, DefaultsAre DEF LoadedWell
<1>7. CASE file.state \in Pointer!FileErrors
  <2>1. file.state # "missing" BY <1>7 DEF Pointer!FileErrors
  <2> QED BY <1>2, <1>4, <1>7, <2>1
<1>8. CASE file.state = "read" /\ (Pointer!WellTyped(file.document) => IsDocument(file.document))
  <2>1. "read" \notin Pointer!FileErrors BY DEF Pointer!FileErrors
  <2>2. l.read = Pointer!Parse(file.document) BY <1>2, <1>8, <2>1
  <2>3. ReadsDocument(l.read, file.document) BY <1>8, <2>2, ParseIs
  <2> QED BY <1>2, <1>3, <2>3, DefaultsAre DEF LoadedWell, ReadsDocument
<1> QED BY <1>5, <1>6, <1>7, <1>8, FilesAssumption

(* Then the file is read back and used as the code says. *)
LEMMA RoundTripsHold ==
    ASSUME LoadedWell(loaded)
    PROVE  Pointer!RoundTrips
<1>1. PICK p : p = Pointer!prefs OBVIOUS
<1>2. p \in Canonical BY <1>1 DEF LoadedWell, Pointer!prefs
<1>3. Pointer!Parse(Pointer!Exported(Pointer!prefs)).value = Pointer!prefs BY <1>1, <1>2, ExportKept
<1>4. \/ loaded.kind = "builtin" \/ (\E d \in loaded.read.diagnostics : d.severity = "error")
      \/ Agrees(Pointer!prefs, loaded.file.document)
  BY DEF LoadedWell, Clean, Pointer!prefs
<1> QED BY <1>3, <1>4 DEF Pointer!RoundTrips, Agrees

-----------------------------------------------------------------------------
(* Hotkeys *)

(* The four modifiers, however they are ordered *)
LEMMA ModifiersListed ==
    /\ ModifierKeys = {"ctrl", "alt", "shift", "meta"}
    /\ Pointer!Modifiers \in Seq(ModifierKeys)
    /\ <<"ctrl", "alt", "shift", "meta">> \in Seq(ModifierKeys)
    /\ ToSet(<<"ctrl", "alt", "shift", "meta">>) = ModifierKeys
<1> DEFINE order == <<"ctrl", "alt", "shift", "meta">>
           sorted == <<"alt", "ctrl", "meta", "shift">>
<1>1. /\ order[1] = "ctrl" /\ order[2] = "alt" /\ order[3] = "shift" /\ order[4] = "meta"
      /\ sorted[1] = "alt" /\ sorted[2] = "ctrl" /\ sorted[3] = "meta" /\ sorted[4] = "shift"
      /\ DOMAIN order = 1 .. 4 /\ DOMAIN sorted = 1 .. 4 /\ 1 .. 4 = {1, 2, 3, 4}
  OBVIOUS
<1>2. \A a, b, c, d : <<a, b, c, d>> \in Seq({a, b, c, d}) OBVIOUS
<1>3. order \in Seq({"ctrl", "alt", "shift", "meta"}) /\ sorted \in Seq({"alt", "ctrl", "meta", "shift"}) BY <1>2
<1>4. Pointer!Modifiers = sorted BY DEF Pointer!Modifiers
<1> HIDE DEF order, sorted
<1>5. ToSet(order) = {"ctrl", "alt", "shift", "meta"} BY <1>1 DEF ToSet
<1>6. ToSet(sorted) = {"alt", "ctrl", "meta", "shift"} BY <1>1 DEF ToSet
<1>7. {"alt", "ctrl", "meta", "shift"} = {"ctrl", "alt", "shift", "meta"} OBVIOUS
<1> QED BY <1>3, <1>4, <1>5, <1>6, <1>7 DEF ModifierKeys, order

(* The order in which held modifiers are named does not matter. *)
LEMMA HeldSorts ==
    ASSUME NEW m, m \in Seq(ModifierKeys)
    PROVE  Pointer!Sorted(Pointer!Held(m)) = Pointer!Sorted(m)
<1> DEFINE order == <<"ctrl", "alt", "shift", "meta">>
<1>1. Pointer!Held(m) = Filtered(order, ToSet(m)) BY PointerLists DEF Pointer!Held
<1>2. Pointer!Sorted(m) = Filtered(Pointer!Modifiers, ToSet(m)) BY PointerLists DEF Pointer!Sorted
<1>3. Pointer!Sorted(Pointer!Held(m)) = Filtered(Pointer!Modifiers, ToSet(Filtered(order, ToSet(m))))
  BY <1>1, PointerLists DEF Pointer!Sorted

<1>4. order \in Seq(ModifierKeys) /\ Pointer!Modifiers \in Seq(ModifierKeys) /\ ToSet(order) = ModifierKeys
  BY ModifiersListed
<1> HIDE DEF order
<1>5. ToSet(m) \subseteq ModifierKeys BY DEF ToSet
<1>6. ToSet(Filtered(order, ToSet(m))) = ToSet(m)
  <2>1. PICK o \in Seq(ModifierKeys) : o = order BY <1>4
  <2>2. PICK S : S = ToSet(m) OBVIOUS
  <2>3. ToSet(Filtered(o, S)) = ToSet(o) \cap S BY FilteredProperties
  <2> QED BY <1>4, <1>5, <2>1, <2>2, <2>3
<1> QED BY <1>2, <1>3, <1>6

(* Where no input is bound twice, a hotkey that is hinted runs its command. *)
Inputs(hotkeys) == [i \in DOMAIN hotkeys |-> Pointer!NormalizedInput(hotkeys[i])]

LEMMA HintRuns ==
    ASSUME NEW hotkeys \in Seq(Bindings), IsInjective(Inputs(hotkeys)), NEW c,
           NEW hinted, hinted = Pointer!HotkeyForCommand(hotkeys, c), hinted # Nothing
    PROVE  LET runs == Pointer!CommandForKey(hotkeys, hinted.key, Pointer!Held(hinted.modifiers))
           IN  runs # Nothing /\ runs.command_id = c
<1> DEFINE bound == {i \in DOMAIN hotkeys : hotkeys[i].command_id = c}
           runs  == Pointer!CommandForKey(hotkeys, hinted.key, Pointer!Held(hinted.modifiers))
<1>0. \A S : Pointer!Min(S) = Min(S) BY DEF Pointer!Min, Min
<1>1. Len(hotkeys) \in Nat /\ DOMAIN hotkeys = 1 .. Len(hotkeys) /\ \A i \in 1 .. Len(hotkeys) : hotkeys[i] \in Bindings
  OBVIOUS
<1>2. bound # {} /\ hinted = hotkeys[Min(bound)] BY <1>0 DEF Pointer!HotkeyForCommand
<1>3. PICK i \in bound : hinted = hotkeys[i]
  <2>1. bound \subseteq Nat BY <1>1
  <2> HIDE DEF bound
  <2> QED BY <1>2, <2>1, MinIs
<1>4. i \in DOMAIN hotkeys /\ hinted.command_id = c /\ hinted \in Bindings BY <1>1, <1>3
<1> HIDE DEF bound
<1> DEFINE input == <<Pointer!Sorted(Pointer!Held(hinted.modifiers)), Lower(hinted.key)>>
           same  == {j \in DOMAIN hotkeys : Pointer!NormalizedInput(hotkeys[j]) = input}
<1>5. input = Pointer!NormalizedInput(hinted)
  <2>1. hinted.modifiers \in Seq(ModifierKeys) BY <1>4 DEF Bindings
  <2>2. PICK m : m = hinted.modifiers OBVIOUS
  <2>3. Pointer!Sorted(Pointer!Held(m)) = Pointer!Sorted(m) BY <2>1, <2>2, HeldSorts
  <2> QED BY <2>2, <2>3 DEF Pointer!NormalizedInput
<1>6. runs = IF same = {} THEN Nothing ELSE hotkeys[Min(same)] BY <1>0 DEF Pointer!CommandForKey
<1> HIDE DEF input
<1>7. i \in same BY <1>3, <1>4, <1>5
<1>8. \A j \in same : j = i
  <2>1. \A j \in same : Inputs(hotkeys)[j] = Inputs(hotkeys)[i] BY <1>3, <1>4, <1>5 DEF Inputs
  <2>2. DOMAIN Inputs(hotkeys) = DOMAIN hotkeys /\ same \subseteq DOMAIN hotkeys BY DEF Inputs
  <2> QED BY <1>4, <2>1, <2>2 DEF IsInjective
<1>9. same \subseteq Nat BY <1>1
<1> HIDE DEF same, runs
<1>10. Min(same) = i BY <1>7, <1>8, <1>9, MinIs
<1>11. runs = hinted BY <1>3, <1>6, <1>7, <1>10
<1>12. runs # Nothing /\ runs.command_id = c BY <1>4, <1>11
<1> QED BY <1>12 DEF runs

(* The defaults bind no input twice: only "v" is bound twice, once with shift. *)
LEMMA DefaultsApart == IsInjective(Inputs(Pointer!DefaultPreferences.hotkeys))
<1>1. PICK hotkeys : hotkeys = Pointer!DefaultPreferences.hotkeys OBVIOUS
<1> DEFINE keys == <<"escape", "enter", "tab", "space", "l", "g", "a", "s", "t", "b", "r", "v", "v">>
           place == [escape |-> 1, enter |-> 2, tab |-> 3, space |-> 4, l |-> 5, g |-> 6, a |-> 7, s |-> 8, t |-> 9,
                     b |-> 10, r |-> 11, v |-> 12]
<1>2. /\ DOMAIN hotkeys = 1 .. 13 /\ \A i \in 1 .. 13 : hotkeys[i].key = keys[i]
      /\ hotkeys[12].modifiers = << >> /\ hotkeys[13].modifiers = <<"shift">>
  BY <1>1 DEF Pointer!DefaultPreferences
<1>3. \A i \in 1 .. 13 : place[keys[i]] = IF i = 13 THEN 12 ELSE i OBVIOUS
<1>4. \A i \in 1 .. 13 : Lower(keys[i]) = keys[i]
  <2>1. \A i \in 1 .. 13 : keys[i] \in Pointer!ValidKeys BY DEF Pointer!ValidKeys, Pointer!NamedKeys
  <2> QED BY <2>1, WordsAssumption
<1>5. \A i, j \in 1 .. 13 : keys[i] = keys[j] => i = j \/ (i = 12 /\ j = 13) \/ (i = 13 /\ j = 12)
  <2>1. ASSUME NEW i \in 1 .. 13, NEW j \in 1 .. 13, keys[i] = keys[j]
        PROVE  (IF i = 13 THEN 12 ELSE i) = (IF j = 13 THEN 12 ELSE j)
    <3> HIDE DEF keys, place
    <3> QED BY <1>3, <2>1
  <2> HIDE DEF keys, place
  <2> QED BY <2>1
<1> HIDE DEF keys, place
<1>6. Pointer!Sorted(<< >>) # Pointer!Sorted(<<"shift">>)
  <2>1. Pointer!Modifiers \in Seq(ModifierKeys) BY ModifiersListed
  <2>2. \A m : Pointer!Sorted(m) = Filtered(Pointer!Modifiers, ToSet(m)) BY PointerLists DEF Pointer!Sorted
  <2>3. ASSUME NEW m PROVE ToSet(Pointer!Sorted(m)) = ModifierKeys \cap ToSet(m)
    <3>1. PICK s \in Seq(ModifierKeys) : s = Pointer!Modifiers BY <2>1
    <3>2. PICK S : S = ToSet(m) OBVIOUS
    <3>3. ToSet(Filtered(s, S)) = ToSet(s) \cap S BY FilteredProperties
    <3> QED BY <2>2, <3>1, <3>2, <3>3 DEF ModifierKeys
  <2>4. ToSet(<< >>) = {} /\ ToSet(<<"shift">>) = {"shift"} /\ "shift" \in ModifierKeys
    BY ModifiersListed DEF ToSet
  <2>5. ToSet(Pointer!Sorted(<< >>)) = {} /\ ToSet(Pointer!Sorted(<<"shift">>)) = {"shift"} BY <2>3, <2>4
  <2> QED BY <2>5
<1>7. ASSUME NEW i \in 1 .. 13, NEW j \in 1 .. 13, Inputs(hotkeys)[i] = Inputs(hotkeys)[j]
      PROVE  i = j
  <2>1. /\ Pointer!Sorted(hotkeys[i].modifiers) = Pointer!Sorted(hotkeys[j].modifiers)
        /\ Lower(hotkeys[i].key) = Lower(hotkeys[j].key)
    BY <1>2, <1>7 DEF Inputs, Pointer!NormalizedInput
  <2>2. keys[i] = keys[j] BY <1>2, <1>4, <2>1
  <2> QED BY <1>2, <1>5, <1>6, <2>1, <2>2
<1>8. DOMAIN Inputs(hotkeys) = 1 .. 13 BY <1>2 DEF Inputs
<1> QED BY <1>1, <1>7, <1>8 DEF IsInjective

(* So the hints are true, or the reader has reported a binding. *)
LEMMA HintsHold ==
    ASSUME LoadedWell(loaded)
    PROVE  Pointer!HintsAreTrue
<1>1. PICK hotkeys : hotkeys = Pointer!prefs.hotkeys OBVIOUS
<1>2. hotkeys \in Seq(Bindings) BY <1>1 DEF LoadedWell, Canonical, Pointer!prefs
<1>3. IsInjective(Inputs(hotkeys)) \/ \E d \in loaded.read.diagnostics : d.code = "duplicate_hotkey"
  <2>1. CASE Pointer!prefs = Pointer!DefaultPreferences BY <1>1, <2>1, DefaultsApart
  <2>2. CASE Pointer!Duplicates(hotkeys) \subseteq loaded.read.diagnostics
    <3>1. CASE IsInjective(Inputs(hotkeys)) BY <3>1
    <3>2. CASE ~IsInjective(Inputs(hotkeys))
      <4>1. Pointer!Duplicates(hotkeys) = {Pointer!Error("duplicate_hotkey", "hotkeys")}
        BY <3>2, PointerLists DEF Pointer!Duplicates, Inputs
      <4>2. Pointer!Error("duplicate_hotkey", "hotkeys").code = "duplicate_hotkey" BY DEF Pointer!Error
      <4> QED BY <2>2, <4>1, <4>2
    <3> QED BY <3>1, <3>2
  <2> QED BY <1>1, <2>1, <2>2 DEF LoadedWell, Pointer!prefs
<1>4. ASSUME NEW c \in Pointer!HintedCommands, NEW hinted, hinted = Pointer!HotkeyForCommand(hotkeys, c),
             hinted # Nothing, IsInjective(Inputs(hotkeys))
      PROVE  LET runs == Pointer!CommandForKey(hotkeys, hinted.key, Pointer!Held(hinted.modifiers))
             IN  runs # Nothing /\ runs.command_id = c
  BY <1>2, <1>4, HintRuns
<1> QED BY <1>1, <1>3, <1>4 DEF Pointer!HintsAreTrue

(* The overlays in use are lists. *)
ListsInUse(l) == \A k \in Pointer!OverlayLists : IsList(Pointer!InUse(l).overlays[k])

LEMMA LoadedLists ==
    ASSUME NEW l, LoadedWell(l)
    PROVE  ListsInUse(l)
<1>1. Pointer!InUse(l).overlays \in OverlayValues BY DEF LoadedWell, Canonical
<1>2. \A k \in Pointer!OverlayLists : Pointer!InUse(l).overlays[k] \in Seq(Words) BY <1>1 DEF OverlayValues
<1> QED BY <1>2 DEF ListsInUse, IsList

-----------------------------------------------------------------------------

Units  == {pair[1] : pair \in Pointer!Pairs}
Models == {pair[2] : pair \in Pointer!Pairs}

LocalState ==
    [unit : Units \cup {Nothing}, model : Models \cup {Nothing}, overlays : Seq(Pointer!ActiveOverlays),
     menu : BOOLEAN, hits : Seq(Pointer!Pairs), index : Nat]

FitsLocal(l) ==
    /\ l \in LocalState
    /\ IsInjective(l.overlays)
    /\ l.menu => l.unit # Nothing
    /\ l.index \in {1} \cup DOMAIN l.hits

(* Selecting an entity, with what is under the point beside it, fits, *)
LEMMA SelectedFits ==
    ASSUME ListsInUse(loaded), NEW unit \in Units \cup {Nothing}, NEW model \in Models \cup {Nothing},
           NEW hits \in Seq(Pointer!Pairs), NEW index \in {1} \cup DOMAIN hits
    PROVE  FitsLocal(Pointer!Selected(unit, model, hits, index)) /\ Pointer!Selected(unit, model, hits, index).unit = unit
<1> DEFINE o == Pointer!prefs.overlays
           ids == o.enabled_by_default \o o.default_on_model_selection \o o.default_on_unit_selection
           s == Pointer!Selected(unit, model, hits, index)
<1>1. IsList(o.enabled_by_default) /\ IsList(o.default_on_model_selection) /\ IsList(o.default_on_unit_selection)
  BY DEF ListsInUse, Pointer!prefs, Pointer!OverlayLists
<1>2. IsList(ids)
  <2> HIDE DEF o
  <2>1. PICK T : o.enabled_by_default \in Seq(T) BY <1>1 DEF IsList
  <2>2. PICK U : o.default_on_model_selection \in Seq(U) BY <1>1 DEF IsList
  <2>3. PICK V : o.default_on_unit_selection \in Seq(V) BY <1>1 DEF IsList
  <2>4. o.enabled_by_default \in Seq(T \cup U \cup V) BY <2>1
  <2>5. o.default_on_model_selection \in Seq(T \cup U \cup V) BY <2>2
  <2>6. o.default_on_unit_selection \in Seq(T \cup U \cup V) BY <2>3
  <2>7. ids \in Seq(T \cup U \cup V) BY <2>4, <2>5, <2>6
  <2> QED BY <2>7 DEF IsList
<1>3. s = [unit |-> unit, model |-> model, menu |-> FALSE, hits |-> hits, index |-> index,
           overlays |-> Pointer!Active(ids)]
  BY DEF Pointer!Selected
<1> HIDE DEF ids, s
<1>4. Pointer!Active(ids) \in Seq(Pointer!ActiveOverlays) /\ IsInjective(Pointer!Active(ids)) BY <1>2, ActiveIs
<1>5. index \in Nat BY DEF Pointer!Pairs
<1>6. s \in LocalState BY <1>3, <1>4, <1>5 DEF LocalState
<1>7. FitsLocal(s) /\ s.unit = unit BY <1>3, <1>4, <1>6 DEF FitsLocal
<1> QED BY <1>7 DEF s

(* and so do the selection a window opens with, *)
LEMMA InitialLocalFits ==
    ASSUME ListsInUse(loaded)
    PROVE  FitsLocal(Pointer!InitialLocal) /\ Pointer!InitialLocal.unit = Nothing
<1> DEFINE ids == Pointer!prefs.overlays.enabled_by_default
           s == Pointer!InitialLocal
<1>1. IsList(ids) BY DEF ListsInUse, Pointer!prefs, Pointer!OverlayLists
<1>2. s = [unit |-> Nothing, model |-> Nothing, overlays |-> Pointer!Active(ids),
           menu |-> FALSE, hits |-> << >>, index |-> 1]
  BY DEF Pointer!InitialLocal
<1> HIDE DEF ids, s
<1>3. Pointer!Active(ids) \in Seq(Pointer!ActiveOverlays) /\ IsInjective(Pointer!Active(ids)) BY <1>1, ActiveIs
<1>4. << >> \in Seq(Pointer!Pairs) OBVIOUS
<1>5. s \in LocalState BY <1>2, <1>3, <1>4 DEF LocalState
<1>6. FitsLocal(s) /\ s.unit = Nothing BY <1>2, <1>3, <1>5 DEF FitsLocal
<1> QED BY <1>6 DEF s

(* Other overlays of the same selection *)
LEMMA OverlaysFit ==
    ASSUME NEW l, FitsLocal(l), NEW o \in Seq(Pointer!ActiveOverlays), IsInjective(o)
    PROVE  FitsLocal([l EXCEPT !.overlays = o]) /\ [l EXCEPT !.overlays = o].unit = l.unit
  BY DEF FitsLocal, LocalState

(* opening the menu of a selected unit and closing it, *)
LEMMA MenuFits ==
    ASSUME NEW l, FitsLocal(l)
    PROVE  /\ FitsLocal(Pointer!CloseMenu(l)) /\ Pointer!CloseMenu(l).unit = l.unit
           /\ l.unit # Nothing => FitsLocal([l EXCEPT !.menu = TRUE]) /\ [l EXCEPT !.menu = TRUE].unit = l.unit
  BY DEF FitsLocal, LocalState, Pointer!CloseMenu

(* and showing the overlays of a draft and hiding them again. *)
LEMMA DraftOverlaysFit ==
    ASSUME ListsInUse(loaded), NEW l, FitsLocal(l)
    PROVE  /\ FitsLocal(Pointer!WithDraftOverlays(l)) /\ Pointer!WithDraftOverlays(l).unit = l.unit
           /\ FitsLocal(Pointer!WithoutDraftOverlays(l)) /\ Pointer!WithoutDraftOverlays(l).unit = l.unit
<1> DEFINE o == Pointer!prefs.overlays.default_on_movement_draft
<1>1. IsList(o) BY DEF ListsInUse, Pointer!prefs, Pointer!OverlayLists
<1>2. l.overlays \in Seq(Pointer!ActiveOverlays) /\ IsInjective(l.overlays) BY DEF FitsLocal, LocalState
<1>3. Pointer!WithDraftOverlays(l) = [l EXCEPT !.overlays = Pointer!Active(l.overlays \o o)]
  BY DEF Pointer!WithDraftOverlays
<1>4. Pointer!WithoutDraftOverlays(l) = [l EXCEPT !.overlays = Filtered(l.overlays, ToSet(l.overlays) \ ToSet(o))]
  BY PointerLists DEF Pointer!WithoutDraftOverlays
<1> HIDE DEF o
<1>5. IsList(l.overlays \o o)
  <2>1. PICK T : o \in Seq(T) BY <1>1 DEF IsList
  <2>2. o \in Seq(T \cup Pointer!ActiveOverlays) /\ l.overlays \in Seq(T \cup Pointer!ActiveOverlays)
    BY <1>2, <2>1
  <2>3. l.overlays \o o \in Seq(T \cup Pointer!ActiveOverlays) BY <2>2
  <2> QED BY <2>3 DEF IsList
<1>6. Pointer!Active(l.overlays \o o) \in Seq(Pointer!ActiveOverlays) /\ IsInjective(Pointer!Active(l.overlays \o o))
  BY <1>5, ActiveIs
<1>7. /\ Filtered(l.overlays, ToSet(l.overlays) \ ToSet(o)) \in Seq(Pointer!ActiveOverlays)
      /\ IsInjective(Filtered(l.overlays, ToSet(l.overlays) \ ToSet(o)))
  BY <1>2, FilteredProperties, FilteredDistinct
<1> QED BY <1>3, <1>4, <1>6, <1>7, OverlaysFit

(* What is under a point is a list of entities. *)
LEMMA HitsAre ==
    ASSUME NEW p \in DOMAIN Under
    PROVE  Pointer!HitsAt(p) \in Seq(Pointer!Pairs)
<1>1. IsList(Under[p]) BY UnderAssumption DEF IsList
<1>2. Pointer!HitsAt(p) = Filtered(Under[p], Pointer!Pairs \ gone) BY PointerLists DEF Pointer!HitsAt
<1>3. Filtered(Under[p], Pointer!Pairs \ gone) \in Seq(Pointer!Pairs \ gone) BY <1>1, FilteredProperties DEF IsList
<1> DEFINE hits == Filtered(Under[p], Pointer!Pairs \ gone)
           P == Pointer!Pairs
           G == P \ gone
<1>4. hits \in Seq(G) /\ G \subseteq P BY <1>3
<1> HIDE DEF hits, P, G
<1>5. hits \in Seq(P) BY <1>4
<1> QED BY <1>2, <1>5 DEF hits, P

(* A click selects what is under it, or the next of what is. *)
LEMMA SelectAtFits ==
    ASSUME ListsInUse(loaded), FitsLocal(local), NEW p \in DOMAIN Under, NEW forced
    PROVE  FitsLocal(Pointer!SelectAt(p, forced))
<1> DEFINE hits == Pointer!HitsAt(p)
           again == /\ forced \/ (Pointer!prefs.selection.cycle_overlapping_bases /\ Len(hits) > 1)
                    /\ hits = local.hits
           i == IF again THEN (local.index % Len(hits)) + 1 ELSE 1
<1>1. hits \in Seq(Pointer!Pairs) BY HitsAre
<1>2. CASE hits = << >>
  <2>1. Pointer!SelectAt(p, forced) = Pointer!InitialLocal BY <1>2 DEF Pointer!SelectAt
  <2> QED BY <2>1, InitialLocalFits
<1>3. CASE hits # << >>
  <2>1. Pointer!SelectAt(p, forced) = Pointer!Selected(hits[i][1], hits[i][2], hits, i)
    BY <1>3 DEF Pointer!SelectAt
  <2>2. local.index \in Nat BY DEF FitsLocal, LocalState
  <2> HIDE DEF hits, again
  <2>3. Len(hits) \in Nat \ {0} /\ DOMAIN hits = 1 .. Len(hits) BY <1>1, <1>3
  <2>4. local.index % Len(hits) \in 0 .. Len(hits) - 1 BY <2>2, <2>3
  <2>5. i \in DOMAIN hits BY <2>3, <2>4
  <2> HIDE DEF i
  <2>6. hits[i] \in Pointer!Pairs BY <1>1, <2>5
  <2>7. hits[i][1] \in Units /\ hits[i][2] \in Models BY <2>6 DEF Units, Models
  <2> QED BY <1>1, <2>1, <2>5, <2>7, SelectedFits
<1> QED BY <1>2, <1>3

(* A key switches an overlay of this build, or none. *)
LEMMA ToggleFits ==
    ASSUME FitsLocal(local), NEW id
    PROVE  FitsLocal(Pointer!ToggleOverlay(id)) /\ Pointer!ToggleOverlay(id).unit = local.unit
<1> DEFINE o == local.overlays
<1>1. o \in Seq(Pointer!ActiveOverlays) /\ IsInjective(o) BY DEF FitsLocal, LocalState
<1>2. CASE id \notin Pointer!ActiveOverlays BY <1>2 DEF Pointer!ToggleOverlay
<1>3. CASE id \in Pointer!ActiveOverlays /\ Pointer!Contains(o, id)
  <2>1. Pointer!ToggleOverlay(id) = [local EXCEPT !.overlays = Filtered(o, ToSet(o) \ {id})]
    BY <1>3, PointerLists DEF Pointer!ToggleOverlay
  <2> HIDE DEF o
  <2>2. Filtered(o, ToSet(o) \ {id}) \in Seq(Pointer!ActiveOverlays) /\ IsInjective(Filtered(o, ToSet(o) \ {id}))
    BY <1>1, FilteredProperties, FilteredDistinct
  <2> QED BY <2>1, <2>2, OverlaysFit
<1>4. CASE id \in Pointer!ActiveOverlays /\ ~Pointer!Contains(o, id)
  <2>1. Pointer!ToggleOverlay(id) = [local EXCEPT !.overlays = Append(o, id)]
    BY <1>4 DEF Pointer!ToggleOverlay
  <2> HIDE DEF o
  <2> DEFINE u == Append(o, id)
  <2>2. u \in Seq(Pointer!ActiveOverlays) /\ Len(o) \in Nat BY <1>1, <1>4
  <2>3. DOMAIN o = 1 .. Len(o) /\ DOMAIN u = 1 .. Len(o) + 1 /\ u[Len(o) + 1] = id /\ \A i \in 1 .. Len(o) : u[i] = o[i]
    BY <1>1, <1>4
  <2>4. \A i \in 1 .. Len(o) : o[i] # id BY <1>4, <2>3 DEF Pointer!Contains
  <2> HIDE DEF u
  <2>5. ASSUME NEW a \in DOMAIN u, NEW b \in DOMAIN u, u[a] = u[b] PROVE a = b
    <3>1. CASE a \in 1 .. Len(o) /\ b \in 1 .. Len(o) BY <1>1, <2>3, <2>5, <3>1 DEF IsInjective
    <3>2. (a \in 1 .. Len(o) \/ a = Len(o) + 1) /\ (b \in 1 .. Len(o) \/ b = Len(o) + 1) BY <2>2, <2>3
    <3> QED BY <2>3, <2>4, <2>5, <3>1, <3>2
  <2>6. IsInjective(u) BY <2>5 DEF IsInjective
  <2> QED BY <2>1, <2>2, <2>6, OverlaysFit DEF u
<1> QED BY <1>2, <1>3, <1>4

-----------------------------------------------------------------------------

(* What the pointer and the keys select fits what is there, and what they   *)
(* obey is what was loaded.                                                 *)
PointerInv ==
    /\ LoadedWell(loaded)
    /\ FitsLocal(local)
    /\ draft # Nothing => draft = pending /\ draft = local.unit

(* What is left after a draft was looked for *)
LEMMA SyncedFits ==
    ASSUME ListsInUse(loaded), NEW l, FitsLocal(l), NEW left, NEW ask \in Units \cup {Nothing},
           Pointer!Synced(l, left, ask)
    PROVE  FitsLocal(local') /\ (draft' # Nothing => draft' = ask /\ draft' = local'.unit)
<1>1. CASE ask # Nothing /\ l.unit = ask
  <2>1. draft' = ask BY <1>1 DEF Pointer!Synced
  <2>2. PICK pair \in Pointer!Pairs : local' = Pointer!WithDraftOverlays(Pointer!SelectModelId(ask, pair[2]))
    BY <1>1 DEF Pointer!Synced
  <2>3. pair[2] \in Models BY DEF Models
  <2>4. PICK s : s = Pointer!SelectModelId(ask, pair[2]) OBVIOUS
  <2>5. FitsLocal(s) /\ s.unit = ask
    <3>1. << >> \in Seq(Pointer!Pairs) /\ 1 \in {1} \cup DOMAIN << >> OBVIOUS
    <3> QED BY <2>3, <2>4, <3>1, SelectedFits DEF Pointer!SelectModelId
  <2>6. local' = Pointer!WithDraftOverlays(s) BY <2>2, <2>4
  <2> QED BY <2>1, <2>5, <2>6, DraftOverlaysFit
<1>2. CASE ~(ask # Nothing /\ l.unit = ask)
  <2>1. draft' = Nothing /\ local' \in {l, Pointer!WithoutDraftOverlays(l)} BY <1>2 DEF Pointer!Synced
  <2> QED BY <2>1, DraftOverlaysFit
<1> QED BY <1>1, <1>2

(* Focusing the unit of a request fits, whatever was selected before. *)
LEMMA FocusedFits ==
    ASSUME ListsInUse(loaded), NEW l, FitsLocal(l), NEW left, NEW unit \in Units \cup {Nothing}
    PROVE  FitsLocal(Pointer!Focused(l, left, unit))
<1>1. Pointer!Focused(l, left, unit) \in {l, Pointer!InitialLocal, Pointer!SelectModelId(unit, Nothing)}
  BY DEF Pointer!Focused
<1>2. FitsLocal(Pointer!SelectModelId(unit, Nothing))
  <2>1. << >> \in Seq(Pointer!Pairs) /\ 1 \in {1} \cup DOMAIN << >> OBVIOUS
  <2> QED BY <2>1, SelectedFits DEF Pointer!SelectModelId
<1> QED BY <1>1, <1>2, InitialLocalFits

(* No click, key, request or projection breaks the fit, *)
LEMMA PointerSteps ==
    ASSUME PointerInv, Pointer!LocalNext
    PROVE  PointerInv'
<1>0. /\ LoadedWell(loaded) /\ ListsInUse(loaded) /\ FitsLocal(local)
      /\ draft # Nothing => draft = pending /\ draft = local.unit
  BY LoadedLists DEF PointerInv
<1>1. loaded' = loaded BY DEF Pointer!LocalNext, Pointer!MousePress, Pointer!KeyPress, Pointer!NextState
<1>2. LoadedWell(loaded') BY <1>0, <1>1
<1>3. ASSUME NEW ask \in Units \cup {Nothing}, NEW l, FitsLocal(l), NEW left, Pointer!Synced(l, left, ask), pending' = ask
      PROVE  PointerInv'
  <2>1. FitsLocal(local') /\ (draft' # Nothing => draft' = ask /\ draft' = local'.unit)
    BY <1>0, <1>3, SyncedFits
  <2> QED BY <1>2, <1>3, <2>1 DEF PointerInv
<1>4. ASSUME NEW button, NEW p \in DOMAIN Under, Pointer!MousePress(button, p)
      PROVE  PointerInv'
  <2>1. PICK l : l = Pointer!SelectAt(p, FALSE) OBVIOUS
  <2>2. FitsLocal(l) BY <1>0, <2>1, SelectAtFits
  <2>3. Pointer!Synced(l, Nothing, pending) /\ pending' = pending BY <1>4, <2>1 DEF Pointer!MousePress
  <2>4. FitsLocal(local') /\ (draft' # Nothing => draft' = pending /\ draft' = local'.unit)
    <3>1. CASE pending \in Units \cup {Nothing} BY <1>0, <2>2, <2>3, <3>1, SyncedFits
    <3>2. CASE ~(pending \in Units \cup {Nothing})
      <4>1. l.unit \in Units \cup {Nothing} BY <2>2 DEF FitsLocal, LocalState
      <4>2. draft' = Nothing /\ local' = l BY <2>3, <3>2, <4>1 DEF Pointer!Synced
      <4> QED BY <2>2, <4>2
    <3> QED BY <3>1, <3>2
  <2> QED BY <1>2, <2>3, <2>4 DEF PointerInv
<1>5. ASSUME NEW press, NEW p \in DOMAIN Under, Pointer!KeyPress(press, p)
      PROVE  PointerInv'
  <2>1. pending' = pending BY <1>5 DEF Pointer!KeyPress
  <2>2. \/ \E id : local' = Pointer!ToggleOverlay(id) /\ draft' = draft
        \/ local' = Pointer!OpenMenu /\ draft' = draft
        \/ local' = Pointer!CycleExistingAt(p) /\ draft = Nothing /\ draft' = draft
        \/ local' \in {Pointer!CloseMenu(local), Pointer!CloseMenu(Pointer!WithoutDraftOverlays(local))} /\ draft' = Nothing
    BY <1>5 DEF Pointer!KeyPress
  <2>3. ASSUME NEW id, local' = Pointer!ToggleOverlay(id), draft' = draft PROVE PointerInv'
    <3>1. FitsLocal(local') /\ local'.unit = local.unit BY <1>0, <2>3, ToggleFits
    <3> QED BY <1>0, <1>2, <2>1, <2>3, <3>1 DEF PointerInv
  <2>4. CASE local' = Pointer!OpenMenu /\ draft' = draft
    <3>1. FitsLocal(local') /\ local'.unit = local.unit BY <1>0, <2>4, MenuFits DEF Pointer!OpenMenu
    <3> QED BY <1>0, <1>2, <2>1, <2>4, <3>1 DEF PointerInv
  <2>5. CASE local' = Pointer!CycleExistingAt(p) /\ draft = Nothing /\ draft' = draft
    <3>1. FitsLocal(Pointer!SelectAt(p, TRUE)) BY <1>0, SelectAtFits
    <3>2. local' \in {local, Pointer!SelectAt(p, TRUE)} BY <2>5 DEF Pointer!CycleExistingAt
    <3>3. FitsLocal(local') BY <1>0, <3>1, <3>2
    <3> QED BY <1>2, <2>5, <3>3 DEF PointerInv
  <2>6. CASE local' \in {Pointer!CloseMenu(local), Pointer!CloseMenu(Pointer!WithoutDraftOverlays(local))} /\ draft' = Nothing
    <3>1. FitsLocal(local') BY <1>0, <2>6, MenuFits, DraftOverlaysFit
    <3> QED BY <1>2, <2>6, <3>1 DEF PointerInv
  <2> QED BY <2>2, <2>3, <2>4, <2>5, <2>6
<1>6. ASSUME NEW lost, NEW other \in BOOLEAN, NEW clears \in BOOLEAN,
             NEW ask \in Units \cup {Nothing}, NEW unit \in Units \cup {Nothing},
             Pointer!NextState(lost, other, clears, ask, unit)
      PROVE  PointerInv'
  <2> DEFINE start == IF other THEN Pointer!InitialLocal ELSE local
             left  == IF other \/ clears THEN Nothing ELSE draft
             base  == IF clears THEN Pointer!WithoutDraftOverlays(start) ELSE start
  <2>1. Pointer!Synced(Pointer!Focused(base, left, unit), left, ask) /\ pending' = ask
    BY <1>6 DEF Pointer!NextState
  <2>2. FitsLocal(start) BY <1>0, InitialLocalFits
  <2> HIDE DEF start, left
  <2>3. FitsLocal(base) BY <1>0, <2>2, DraftOverlaysFit
  <2> HIDE DEF base
  <2>4. PICK b, m : b = base /\ m = left OBVIOUS
  <2>5. FitsLocal(Pointer!Focused(b, m, unit)) BY <1>0, <2>3, <2>4, FocusedFits
  <2>6. PICK l : l = Pointer!Focused(b, m, unit) OBVIOUS
  <2>7. Pointer!Synced(l, m, ask) BY <2>1, <2>4, <2>6
  <2> QED BY <1>3, <2>1, <2>5, <2>6, <2>7
<1>7. Units = {pair[1] : pair \in Pointer!Pairs} BY DEF Units
<1> QED BY <1>4, <1>5, <1>6, <1>7 DEF Pointer!LocalNext

(* and nothing the other parts of the table do. *)
LEMMA PointerInvariant == TableSpec => []PointerInv
<1>1. TableInit => PointerInv
  <2> SUFFICES ASSUME TableInit PROVE PointerInv
    OBVIOUS
  <2>1. Pointer!LocalInit BY DEF TableInit
  <2>2. PICK named \in BOOLEAN, file \in Files : loaded = Pointer!Load(named, file) BY <2>1 DEF Pointer!LocalInit
  <2>3. LoadedWell(loaded) /\ ListsInUse(loaded) BY <2>2, LoadIs, LoadedLists
  <2>4. draft = Nothing /\ local = Pointer!InitialLocal BY <2>1 DEF Pointer!LocalInit
  <2> QED BY <2>3, <2>4, InitialLocalFits DEF PointerInv
<1>2. PointerInv /\ [TableNext]_TableVars => PointerInv'
  <2> SUFFICES ASSUME PointerInv, [TableNext]_TableVars PROVE PointerInv'
    OBVIOUS
  <2>1. CASE UNCHANGED pointerVars
    <3>1. loaded' = loaded /\ local' = local /\ draft' = draft /\ pending' = pending BY <2>1 DEF pointerVars
    <3> QED BY <3>1 DEF PointerInv
  <2>2. CASE Pointer!LocalNext BY <2>2, PointerSteps
  <2> QED BY <2>1, <2>2 DEF TableNext, TableVars
<1> QED BY <1>1, <1>2, PTL DEF TableSpec

(* Whatever the file lists and the keys name, only overlays of this build   *)
(* are on, each once, the menu is of a selected unit, and a movement draft  *)
(* is the pending proposal's, of the unit that is selected, however often   *)
(* the projection and the request changed (_active_overlay_ids,             *)
(* _sync_movement_draft).                                                   *)
THEOREM LocalSelectionFits == TableSpec => []SelectionFits
<1>1. PointerInv => SelectionFits
  <2> SUFFICES ASSUME PointerInv PROVE Pointer!SelectionFits
    BY DEF SelectionFits
  <2>1. /\ local.overlays \in Seq(Pointer!ActiveOverlays) /\ IsInjective(local.overlays)
        /\ local.menu => local.unit # Nothing
        /\ draft # Nothing => draft = pending /\ draft = local.unit
    BY DEF PointerInv, FitsLocal, LocalState
  <2>2. ToSet(local.overlays) \subseteq Pointer!ActiveOverlays BY <2>1 DEF ToSet
  <2> QED BY <2>1, <2>2, PointerLists DEF Pointer!SelectionFits
<1> QED BY <1>1, PointerInvariant, PTL

-----------------------------------------------------------------------------

(* The hotkey that is hinted for a command runs it, whichever of the table's *)
(* files was read: two bindings of one input, in whatever order they list    *)
(* their modifiers, have been reported, and the built-in ones have none      *)
(* (_hotkey_hints, command_for_key, _parse_hotkeys).                         *)
THEOREM HintsRunTheirCommand == TableSpec => []HintsAreTrue
<1>1. PointerInv => HintsAreTrue BY HintsHold DEF PointerInv, HintsAreTrue
<1> QED BY <1>1, PointerInvariant, PTL

(* What was read of any document is written so that it is read as the same   *)
(* preferences, and a document in which no error was found is used as it     *)
(* stands (parse_preferences_payload, to_payload).                           *)
THEOREM PreferencesRoundTrip == TableSpec => []RoundTrips
<1>1. PointerInv => RoundTrips BY RoundTripsHold DEF PointerInv, RoundTrips
<1> QED BY <1>1, PointerInvariant, PTL

-----------------------------------------------------------------------------

(* Every variable of the three parts keeps its type: references of the      *)
(* table at the start, a layer of the profile, a remembered hit that is     *)
(* among those at its point, no more payloads than are kept                 *)
(* (EntitySelectionState, SelectionState, _trim_event_payloads).            *)
THEOREM TableTypes == TableSpec => []TableTypeOK
<1>1. SelectionInv /\ DiceInv /\ PointerInv => TableTypeOK
  <2> SUFFICES ASSUME SelectionInv, DiceInv, PointerInv PROVE TableTypeOK
    OBVIOUS
  <2>1. TypeOK
    <3>1. Fits(profile, sel) /\ ProfileShape(profile) /\ CandidateSet(profile) \subseteq AllRefs
      BY DEF SelectionInv, Built
    <3>2. sel.refs \subseteq AllRefs /\ sel.focus \in AllRefs \cup {Nothing}
      BY <3>1 DEF Fits, SelectionState
    <3>3. sel.layer # Nothing => sel.layer \in ToSet(profile.layers)
      <4>1. ToSet(AvailableLayers(profile)) \subseteq ToSet(profile.layers)
        BY <3>1, AvailableIs DEF ProfileShape, AvailableLayers
      <4> QED BY <3>1, <4>1 DEF Fits, SelectionState
    <3> QED BY <3>2, <3>3 DEF TypeOK, SelectionInv, Built
  <2>2. local.unit \in Units \cup {Nothing} /\ local.index \in {1} \cup DOMAIN local.hits
    BY DEF PointerInv, FitsLocal, LocalState
  <2> QED BY <2>1, <2>2 DEF TableTypeOK, DiceInv, Units
<1> QED BY <1>1, SelectionInvariant, DiceInvariant, PointerInvariant, PTL
=============================================================================
