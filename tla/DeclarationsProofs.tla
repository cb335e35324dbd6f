--------------------------- MODULE DeclarationsProofs ---------------------------
(***************************************************************************)
(* Theorems of Declarations, for all requests of the engine: what is       *)
(* drafted stays within the request, a payload declares what the request   *)
(* offers, and a press changes one weapon or one model.                    *)
(*                                                                         *)
(* The inductive invariant says of the draft what the defaults and the     *)
(* presses have in common: the chosen declarations are of the request, one *)
(* per weapon or model, with all abilities filled in that have no          *)
(* alternative, and a payload is the draft.                                *)
(***************************************************************************)
EXTENDS Declarations, ListLemmas

Targets == Own \cup Enemy

Aims ==
    [weapon : STRING, target : Own \cup Enemy, legal : BOOLEAN, families : Abilities,
     bound : BOOLEAN, deck : STRING \cup {Nothing}]

Bares == [model : STRING, weapon : STRING, deck : STRING \cup {Nothing}, families : Abilities]

Shots ==
    [model : STRING, weapon : STRING, deck : STRING \cup {Nothing},
     target : Targets \cup {Nothing}, ids : Seq(STRING)]

(* The shots are of weapons of the request, one for each weapon *)
Shootable(q, shots) ==
    /\ shots \in Seq(Shots) /\ IsInjective(shots)
    /\ \A s, t \in ToSet(shots) : Source(s) = Source(t) => s = t
    /\ \A s \in ToSet(shots) : \E w \in ToSet(q.weapons) : Source(s) = Source(w)

(* What a shot of a payload may be *)
Drawn(q, s) == s \in ShootingChoices(q) \/ FromOtherDeck(q, s)

ShootingInv ==
    request.kind = "shooting" =>
        /\ Shootable(request, work.chosen)
        /\ \A s \in ToSet(work.chosen) : Fill(request, s) = s
        /\ work.payload # Nothing =>
            work.payload = work.chosen /\ \A s \in ToSet(work.chosen) : Drawn(request, s)

(* The fights are choices of the request, one for each model *)
Fightable(q, fights) ==
    /\ fights \in Seq(MeleeChoices(q)) /\ IsInjective(fights)
    /\ \A f, g \in ToSet(fights) : f.model = g.model => f = g

MeleeInv ==
    request.kind = "melee" =>
        /\ Fightable(request, work.chosen)
        /\ work.payload # Nothing =>
            /\ work.payload = work.chosen
            /\ \A c \in MeleeChoices(request) : \E f \in ToSet(work.chosen) : f.model = c.model

StratagemInv ==
    request.kind = "stratagem" =>
        \E target \in Own \cup {Nothing}, mode \in Modes(request) \cup {Nothing} :
            /\ target # Nothing => Selectable(request)
            /\ work = StratagemWork(request, target, mode)

IInv ==
    /\ request \in Requests
    /\ unit \in Own \cup Enemy \cup {Nothing}
    /\ ShootingInv /\ MeleeInv /\ StratagemInv

-----------------------------------------------------------------------------
(* Lists *)

(* The empty list is the one without elements. *)
LEMMA EmptyHasNone ==
  ASSUME NEW T, NEW s \in Seq(T)
  PROVE  /\ s = << >> <=> ToSet(s) = {}
         /\ s # << >> => s[1] \in ToSet(s)
<1>1. s = << >> => ToSet(s) = {}
  BY DEF ToSet
<1>2. s # << >> => s[1] \in ToSet(s)
  BY DEF ToSet
<1> QED
  BY <1>1, <1>2

(* The elements of a list are of its kind. *)
LEMMA ElementsAreOf ==
  ASSUME NEW T, NEW s \in Seq(T)
  PROVE  ToSet(s) \subseteq T
  BY DEF ToSet

(* Adding an element that is not there yet *)
LEMMA AppendDistinct ==
  ASSUME NEW T, NEW s \in Seq(T), NEW x \in T, IsInjective(s), x \notin ToSet(s)
  PROVE  /\ Append(s, x) \in Seq(T) /\ IsInjective(Append(s, x))
         /\ ToSet(Append(s, x)) = ToSet(s) \cup {x}
<1>1. PICK t : t = <<x>>
  OBVIOUS
<1>2. t \in Seq(T) /\ Len(t) = 1 /\ t[1] = x /\ DOMAIN t = {1}
  BY <1>1
<1>3. IsInjective(t) /\ ToSet(t) = {x}
  BY <1>2 DEF IsInjective, ToSet
<1>4. PICK a : a = s \o t
  OBVIOUS
<1>8. Append(s, x) = a
  BY <1>1, <1>4, AppendIsConcat
<1>9. a \in Seq(T)
  BY <1>2, <1>4, ConcatProperties
<1>5. IsInjective(s \o t)
  BY <1>2, <1>3, ConcatDistinct
<1>6. Range(s \o t) = Range(s) \cup Range(t)
  BY <1>2, RangeConcatenation
<1>7. ToSet(s \o t) = ToSet(s) \cup {x}
  BY <1>3, <1>6 DEF ToSet, Range
<1> QED
  BY <1>4, <1>5, <1>7, <1>8, <1>9

(* A set within a singleton has one element at most. *)
LEMMA AtMostOne ==
  ASSUME NEW S, NEW x, S \subseteq {x}
  PROVE  Cardinality(S) <= 1
<1>1. CASE S = {}
  BY <1>1, FS_EmptySet
<1>2. CASE S # {}
  <2>1. S = {x}
    BY <1>2
  <2> QED
    BY <2>1, FS_Singleton
<1> QED
  BY <1>1, <1>2

-----------------------------------------------------------------------------
(* Shooting: candidates and abilities *)

(* A request is of one of three kinds, each with its own shape. *)
LEMMA KindsOfRequest ==
  ASSUME NEW q \in Requests
  PROVE  /\ q.kind \in {"shooting", "melee", "stratagem"}
         /\ q.kind = "shooting" => q \in ShootingRequests
         /\ q.kind = "melee" => q \in MeleeRequests
         /\ q.kind = "stratagem" => q \in StratagemRequests
<1>1. q \in ShootingRequests => q.kind = "shooting"
  BY DEF ShootingRequests
<1>2. q \in MeleeRequests => q.kind = "melee"
  BY DEF MeleeRequests
<1>3. q \in StratagemRequests => q.kind = "stratagem"
  BY DEF StratagemRequests
<1> QED
  BY <1>1, <1>2, <1>3, RequestsAssumption

(* The lists of a shooting request. *)
LEMMA ShootingLists ==
  ASSUME NEW q \in ShootingRequests
  PROVE  q.weapons \in Seq(Armed) /\ q.targets \in Seq(Aims) /\ q.targetless \in Seq(Bares)
  BY DEF ShootingRequests, Aims, Bares

(* The targets of a weapon are the legal candidates of the request for it, *)
LEMMA LegalForIs ==
  ASSUME NEW q \in ShootingRequests, NEW weapon
  PROVE  /\ LegalFor(q, weapon) \in Seq(Aims)
         /\ ToSet(LegalFor(q, weapon)) = {c \in ToSet(q.targets) : c.legal /\ c.weapon = weapon}
<1>1. q.targets \in Seq(Aims)
  BY ShootingLists
<1> DEFINE S == {c \in ToSet(q.targets) : c.legal /\ c.weapon = weapon}
<1>2. Filtered(q.targets, S) \in Seq(Aims) /\ ToSet(Filtered(q.targets, S)) = ToSet(q.targets) \cap S
  BY <1>1, FilteredProperties
<1> QED
  BY <1>2 DEF LegalFor

(* and so are the candidates that need none. *)
LEMMA TargetlessForIs ==
  ASSUME NEW q \in ShootingRequests, NEW source
  PROVE  /\ TargetlessFor(q, source) \in Seq(Bares)
         /\ ToSet(TargetlessFor(q, source)) = {c \in ToSet(q.targetless) : Source(c) = source}
<1>1. q.targetless \in Seq(Bares)
  BY ShootingLists
<1> DEFINE S == {c \in ToSet(q.targetless) : Source(c) = source}
<1>2. /\ Filtered(q.targetless, S) \in Seq(Bares)
      /\ ToSet(Filtered(q.targetless, S)) = ToSet(q.targetless) \cap S
  BY <1>1, FilteredProperties
<1> QED
  BY <1>2 DEF TargetlessFor

(* The first candidate for a shot, if there is one *)
LEMMA CandidateIs ==
  ASSUME NEW q \in ShootingRequests, NEW s, CandidatesFor(q, s) # << >>
  PROVE  /\ CandidatesFor(q, s)[1].families \in Abilities
         /\ s.target = Nothing => CandidatesFor(q, s)[1] \in ToSet(TargetlessFor(q, Source(s)))
         /\ s.target # Nothing =>
              /\ CandidatesFor(q, s)[1] \in ToSet(LegalFor(q, s.weapon))
              /\ CandidatesFor(q, s)[1].target = s.target
<1>1. CASE s.target = Nothing
  <2>1. PICK l : l = TargetlessFor(q, Source(s))
    OBVIOUS
  <2>2. l = CandidatesFor(q, s) /\ l \in Seq(Bares) /\ l # << >>
    BY <1>1, <2>1, TargetlessForIs DEF CandidatesFor
  <2>3. l[1] \in ToSet(l) /\ l[1] \in Bares
    BY <2>2, EmptyHasNone, ElementsAreOf
  <2>4. l[1].families \in Abilities
    BY <2>3 DEF Bares
  <2> QED
    BY <1>1, <2>1, <2>2, <2>3, <2>4
<1>2. CASE s.target # Nothing
  <2>1. PICK l : l = LegalFor(q, s.weapon)
    OBVIOUS
  <2>2. l \in Seq(Aims)
    BY <2>1, LegalForIs
  <2> DEFINE S == {c \in ToSet(q.targets) : c.target = s.target}
  <2>3. PICK k : k = Filtered(l, S)
    OBVIOUS
  <2>4. k \in Seq(Aims) /\ ToSet(k) = ToSet(l) \cap S
    BY <2>2, <2>3, FilteredProperties
  <2>5. k = CandidatesFor(q, s) /\ k # << >>
    BY <1>2, <2>1, <2>3 DEF CandidatesFor
  <2>6. k[1] \in ToSet(k) /\ k[1] \in Aims
    BY <2>4, <2>5, EmptyHasNone, ElementsAreOf
  <2>7. k[1].families \in Abilities
    BY <2>6 DEF Aims
  <2> QED
    BY <1>2, <2>1, <2>4, <2>5, <2>6, <2>7
<1> QED
  BY <1>1, <1>2

(* What a shot may choose among are ability families. *)
LEMMA FamiliesAre ==
  ASSUME NEW q \in ShootingRequests, NEW s
  PROVE  Families(q, s) \in Abilities
<1>1. << >> \in Abilities
  BY DEF Abilities
<1> QED
  BY <1>1, CandidateIs DEF Families

(* Abilities that fit can be filled in, and then all are chosen. *)
LEMMA OptionsFilledAre ==
  ASSUME NEW families \in Abilities, NEW ids \in Seq(STRING), OptionsFit(families, ids)
  PROVE  /\ OptionsFilled(families, ids) \in Chosen(families)
         /\ OptionsFilled(families, ids) \in Seq(STRING)
         /\ OptionsFilled(families, OptionsFilled(families, ids)) = OptionsFilled(families, ids)
<1> DEFINE o == OptionsFilled(families, ids)
<1>1. DOMAIN families = 1 .. Len(families) /\ Len(families) \in Nat
  BY DEF Abilities
<1>2. \A i \in DOMAIN families : families[i] \subseteq STRING /\ IsFiniteSet(families[i])
  BY <1>1 DEF Abilities
<1>3. o = [i \in DOMAIN families |-> IF i <= Len(ids) THEN ids[i] ELSE CHOOSE x \in families[i] : TRUE]
  BY DEF OptionsFilled
<1>4. ASSUME NEW i \in DOMAIN families PROVE o[i] \in families[i]
  <2>1. CASE i <= Len(ids)
    BY <1>3, <2>1 DEF OptionsFit
  <2>2. CASE ~(i <= Len(ids))
    <3>1. Cardinality(families[i]) = 1
      BY <2>2 DEF OptionsFit
    <3>2. families[i] # {}
      <4>1. PICK x : x = families[i]
        OBVIOUS
      <4>2. IsFiniteSet(x) /\ Cardinality(x) = 1
        BY <1>2, <3>1, <4>1
      <4> QED
        BY <4>1, <4>2, FS_EmptySet
    <3> QED
      BY <1>3, <2>2, <3>2
  <2> QED
    BY <2>1, <2>2
<1> HIDE DEF o
<1>5. DOMAIN o = DOMAIN families
  BY <1>3
<1>6. ASSUME NEW i \in DOMAIN families PROVE o[i] \in UNION ToSet(families)
  BY <1>4 DEF ToSet
<1>7. o \in [DOMAIN families -> UNION ToSet(families)]
  BY <1>3, <1>6
<1>8. o \in Chosen(families)
  BY <1>4, <1>5, <1>7 DEF Chosen
<1>9. o \in Seq(STRING) /\ Len(o) = Len(families)
  <2>1. \A i \in 1 .. Len(families) : o[i] \in STRING
    BY <1>1, <1>2, <1>4
  <2>2. o = [i \in 1 .. Len(families) |-> o[i]]
    BY <1>1, <1>3
  <2> QED
    BY <1>1, <2>1, <2>2, IsASeq, LenProperties
<1>10. OptionsFilled(families, o) = o
  <2>1. \A i \in DOMAIN families : i <= Len(o)
    BY <1>1, <1>9
  <2>2. OptionsFilled(families, o) = [i \in DOMAIN families |-> o[i]]
    BY <2>1 DEF OptionsFilled
  <2> QED
    BY <1>3, <2>2
<1> QED
  BY <1>8, <1>9, <1>10 DEF o

(* Filling in changes nothing but the abilities, and nothing the next time. *)
LEMMA FillIs ==
  ASSUME NEW q \in ShootingRequests, NEW s \in Shots
  PROVE  /\ Fill(q, s) \in Shots
         /\ Source(Fill(q, s)) = Source(s)
         /\ Fill(q, Fill(q, s)) = Fill(q, s)
<1>1. CASE ~ShotFits(q, s)
  BY <1>1 DEF Fill
<1>2. CASE ShotFits(q, s)
  <2>1. PICK fam : fam = Families(q, s)
    OBVIOUS
  <2>2. fam \in Abilities /\ OptionsFit(fam, s.ids) /\ s.ids \in Seq(STRING)
    BY <1>2, <2>1, FamiliesAre DEF ShotFits, Shots
  <2>3. PICK ids : ids = OptionsFilled(fam, s.ids)
    OBVIOUS
  <2>4. ids \in Seq(STRING) /\ OptionsFilled(fam, ids) = ids
    BY <2>2, <2>3, OptionsFilledAre
  <2>5. PICK t : t = [s EXCEPT !.ids = ids]
    OBVIOUS
  <2>6. Fill(q, s) = t
    BY <1>2, <2>1, <2>3, <2>5 DEF Fill
  <2>7. /\ t \in Shots /\ t.ids = ids
        /\ t.model = s.model /\ t.weapon = s.weapon /\ t.deck = s.deck /\ t.target = s.target
    BY <2>4, <2>5 DEF Shots
  <2>8. Source(t) = Source(s)
    BY <2>7 DEF Source
  <2>9. Families(q, t) = fam
    <3>1. CandidatesFor(q, t) = CandidatesFor(q, s)
      BY <2>7, <2>8 DEF CandidatesFor
    <3> QED
      BY <2>1, <3>1 DEF Families
  <2>10. Fill(q, t) = t
    <3>1. [t EXCEPT !.ids = t.ids] = t
      BY <2>7 DEF Shots
    <3>2. OptionsFilled(Families(q, t), t.ids) = t.ids
      BY <2>4, <2>7, <2>9
    <3> QED
      BY <3>1, <3>2 DEF Fill
  <2> QED
    BY <2>6, <2>7, <2>8, <2>10
<1> QED
  BY <1>1, <1>2

(* A shot that fits is, filled in, one of the offered choices or drawn on a *)
(* target of another source.                                                *)
LEMMA FillIsDrawn ==
  ASSUME NEW q \in ShootingRequests, NEW s \in Shots, ShotFits(q, s)
  PROVE  Drawn(q, Fill(q, s))
<1>1. PICK i \in DOMAIN q.weapons : Source(q.weapons[i]) = Source(s)
  BY DEF ShotFits
<1>2. PICK w : w = q.weapons[i]
  OBVIOUS
<1>3. w.model = s.model /\ w.weapon = s.weapon /\ w.deck = s.deck
  BY <1>1, <1>2 DEF Source
<1>4. PICK fam : fam = Families(q, s)
  OBVIOUS
<1>5. fam \in Abilities /\ OptionsFit(fam, s.ids) /\ s.ids \in Seq(STRING)
  BY <1>4, FamiliesAre DEF ShotFits, Shots
<1>6. PICK ids : ids = OptionsFilled(fam, s.ids)
  OBVIOUS
<1>7. ids \in Chosen(fam)
  BY <1>5, <1>6, OptionsFilledAre
<1>8. Fill(q, s) = Shot(w, s.target, ids)
  <2>1. Fill(q, s) = [s EXCEPT !.ids = ids]
    BY <1>4, <1>6 DEF Fill
  <2> QED
    BY <1>3, <2>1 DEF Shot, Shots
<1>9. ASSUME NEW x \in ChoicesOf(q, w) PROVE x \in ShootingChoices(q)
  BY <1>2 DEF ShootingChoices, ToSet
<1>10. CASE CandidatesFor(q, s) # << >>
  <2>1. PICK c : c = CandidatesFor(q, s)[1]
    OBVIOUS
  <2>2. fam = c.families
    BY <1>4, <1>10, <2>1 DEF Families
  <2>3. CASE s.target # Nothing
    <3>1. c \in ToSet(LegalFor(q, w.weapon)) /\ c.target = s.target
      BY <1>3, <1>10, <2>1, <2>3, CandidateIs
    <3>2. CASE OfferedTo(c, w)
      <4>1. Shot(w, s.target, ids) \in ChoicesOf(q, w)
        BY <1>7, <2>2, <3>1, <3>2 DEF ChoicesOf
      <4> QED
        BY <1>8, <1>9, <4>1 DEF Drawn
    <3>3. CASE ~OfferedTo(c, w)
      <4>1. PICK t : t = Shot(w, s.target, ids)
        OBVIOUS
      <4>2. t.weapon = w.weapon /\ t.deck = w.deck /\ t.target = s.target /\ t.ids = ids
        BY <4>1 DEF Shot
      <4>3. ~OfferedTo(c, t)
        BY <3>3, <4>2 DEF OfferedTo
      <4>4. FromOtherDeck(q, t)
        BY <1>7, <2>2, <3>1, <4>2, <4>3 DEF FromOtherDeck
      <4> QED
        BY <1>8, <4>1, <4>4 DEF Drawn
    <3> QED
      BY <3>2, <3>3
  <2>4. CASE s.target = Nothing
    <3>1. c \in ToSet(TargetlessFor(q, Source(w)))
      BY <1>1, <1>2, <1>10, <2>1, <2>4, CandidateIs
    <3>2. Shot(w, s.target, ids) \in ChoicesOf(q, w)
      BY <1>7, <2>2, <2>4, <3>1 DEF ChoicesOf
    <3> QED
      BY <1>8, <1>9, <3>2 DEF Drawn
  <2> QED
    BY <2>3, <2>4
<1>11. CASE CandidatesFor(q, s) = << >>
  <2>1. s.target = Nothing /\ (q.typed \/ LegalFor(q, s.weapon) # << >>)
    BY <1>11 DEF ShotFits, Typed
  <2>2. PICK t : t = Shot(w, Nothing, << >>)
    OBVIOUS
  <2>3. TargetlessFor(q, Source(t)) = << >> /\ Typed(q, t)
    <3>1. Source(t) = Source(s) /\ t.target = Nothing /\ t.weapon = s.weapon
      BY <1>3, <2>2 DEF Source, Shot
    <3> QED
      BY <1>11, <2>1, <3>1 DEF CandidatesFor, Typed
  <2>4. ids = << >>
    <3>1. fam = << >>
      BY <1>4, <1>11 DEF Families
    <3> QED
      BY <1>6, <3>1 DEF OptionsFilled
  <2>5. t \in ChoicesOf(q, w)
    BY <2>2, <2>3 DEF ChoicesOf
  <2> QED
    BY <1>8, <1>9, <2>1, <2>2, <2>4, <2>5 DEF Drawn
<1> QED
  BY <1>10, <1>11

-----------------------------------------------------------------------------
(* Shooting: what is drafted *)

(* What is chosen of them is a list of ids. *)
LEMMA ChosenAre ==
  ASSUME NEW families \in Abilities, NEW ids \in Chosen(families)
  PROVE  ids \in Seq(STRING)
<1>1. DOMAIN families = 1 .. Len(families) /\ Len(families) \in Nat
  BY DEF Abilities
<1>2. \A i \in 1 .. Len(families) : families[i] \subseteq STRING
  BY <1>1 DEF Abilities
<1>3. ids \in [DOMAIN families -> UNION ToSet(families)]
  BY DEF Chosen
<1>4. \A i \in DOMAIN ids : ids[i] \in families[i]
  BY DEF Chosen
<1>5. DOMAIN ids = 1 .. Len(families) /\ ids = [i \in 1 .. Len(families) |-> ids[i]]
  BY <1>1, <1>3
<1>6. \A i \in 1 .. Len(families) : ids[i] \in STRING
  BY <1>2, <1>4, <1>5
<1> QED
  BY <1>1, <1>5, <1>6, IsASeq

(* A shot is a declaration of its weapon. *)
LEMMA ShotIsOf ==
  ASSUME NEW w \in Armed, NEW target \in Targets \cup {Nothing}, NEW ids \in Seq(STRING)
  PROVE  Shot(w, target, ids) \in Shots /\ Source(Shot(w, target, ids)) = Source(w)
  BY DEF Shot, Shots, Armed, Source

(* The choices of a request are shots of its weapons. *)
LEMMA ChoicesAreShots ==
  ASSUME NEW q \in ShootingRequests, NEW s \in ShootingChoices(q)
  PROVE  s \in Shots /\ \E w \in ToSet(q.weapons) : Source(s) = Source(w)
<1>1. PICK w \in ToSet(q.weapons) : s \in ChoicesOf(q, w)
  BY DEF ShootingChoices
<1>2. w \in Armed
  BY ShootingLists, ElementsAreOf
<1>3. ASSUME NEW c \in ToSet(LegalFor(q, w.weapon)), NEW f \in Chosen(c.families),
             s = Shot(w, c.target, f)
      PROVE  s \in Shots /\ Source(s) = Source(w)
  <2>1. c \in Aims
    BY LegalForIs, ElementsAreOf
  <2>2. c.families \in Abilities /\ c.target \in Targets
    BY <2>1 DEF Aims, Targets
  <2>3. f \in Seq(STRING)
    BY <2>2, ChosenAre
  <2> QED
    BY <1>2, <1>3, <2>2, <2>3, ShotIsOf
<1>4. ASSUME NEW c \in ToSet(TargetlessFor(q, Source(w))), NEW f \in Chosen(c.families),
             s = Shot(w, Nothing, f)
      PROVE  s \in Shots /\ Source(s) = Source(w)
  <2>1. c \in Bares
    BY TargetlessForIs, ElementsAreOf
  <2>2. c.families \in Abilities
    BY <2>1 DEF Bares
  <2>3. f \in Seq(STRING)
    BY <2>2, ChosenAre
  <2> QED
    BY <1>2, <1>4, <2>3, ShotIsOf
<1>5. ASSUME s = Shot(w, Nothing, << >>)
      PROVE  s \in Shots /\ Source(s) = Source(w)
  <2>1. << >> \in Seq(STRING)
    OBVIOUS
  <2> QED
    BY <1>2, <1>5, <2>1, ShotIsOf
<1> QED
  BY <1>1, <1>3, <1>4, <1>5 DEF ChoicesOf

(* Filling in the abilities keeps the shots, one for one. *)
LEMMA FilledAre ==
  ASSUME NEW q \in ShootingRequests, NEW shots, Shootable(q, shots)
  PROVE  /\ Shootable(q, Filled(q, shots))
         /\ ToSet(Filled(q, shots)) = {Fill(q, s) : s \in ToSet(shots)}
<1>1. shots \in Seq(Shots) /\ DOMAIN shots = 1 .. Len(shots) /\ Len(shots) \in Nat
  BY DEF Shootable
<1>2. \A i \in 1 .. Len(shots) : shots[i] \in Shots /\ shots[i] \in ToSet(shots)
  BY <1>1 DEF ToSet
<1>3. PICK filled : filled = Filled(q, shots)
  OBVIOUS
<1>4. filled = [i \in 1 .. Len(shots) |-> Fill(q, shots[i])]
  BY <1>1, <1>3 DEF Filled
<1>5. \A i \in 1 .. Len(shots) : Fill(q, shots[i]) \in Shots
  BY <1>2, FillIs
<1>6. filled \in Seq(Shots) /\ DOMAIN filled = DOMAIN shots
  BY <1>1, <1>4, <1>5, IsASeq
<1>7. ToSet(filled) = {Fill(q, s) : s \in ToSet(shots)}
  BY <1>1, <1>4 DEF ToSet
<1>8. \A s, t \in ToSet(shots) : Source(Fill(q, s)) = Source(Fill(q, t)) => s = t
  <2> SUFFICES ASSUME NEW s \in ToSet(shots), NEW t \in ToSet(shots), Source(Fill(q, s)) = Source(Fill(q, t))
               PROVE  s = t
    OBVIOUS
  <2>1. s \in Shots /\ t \in Shots
    BY <1>1, ElementsAreOf
  <2>2. Source(s) = Source(t)
    BY <2>1, FillIs
  <2> QED
    BY <2>2 DEF Shootable
<1>9. IsInjective(filled)
  <2> SUFFICES ASSUME NEW i \in DOMAIN shots, NEW j \in DOMAIN shots, filled[i] = filled[j] PROVE i = j
    BY <1>6 DEF IsInjective
  <2>1. Fill(q, shots[i]) = Fill(q, shots[j])
    BY <1>1, <1>4
  <2>2. shots[i] = shots[j]
    BY <1>1, <1>2, <1>8, <2>1
  <2> QED
    BY <2>2 DEF Shootable, IsInjective
<1>10. \A s \in ToSet(filled) : \E w \in ToSet(q.weapons) : Source(s) = Source(w)
  <2> SUFFICES ASSUME NEW s \in ToSet(shots)
               PROVE  \E w \in ToSet(q.weapons) : Source(Fill(q, s)) = Source(w)
    BY <1>7
  <2>1. s \in Shots
    BY <1>1, ElementsAreOf
  <2>2. Source(Fill(q, s)) = Source(s)
    BY <2>1, FillIs
  <2> QED
    BY <2>2 DEF Shootable
<1>11. \A s, t \in ToSet(filled) : Source(s) = Source(t) => s = t
  BY <1>7, <1>8
<1> QED
  BY <1>3, <1>6, <1>7, <1>9, <1>10, <1>11 DEF Shootable

(* Whatever is declared, the workspace drafts it soundly. *)
LEMMA ShootingWorkIs ==
  ASSUME NEW q \in ShootingRequests, NEW shots, Shootable(q, shots),
         NEW w, w = ShootingWork(q, shots)
  PROVE  /\ Shootable(q, w.chosen)
         /\ w.chosen = Filled(q, shots)
         /\ \A s \in ToSet(w.chosen) : Fill(q, s) = s
         /\ w.payload # Nothing => w.payload = w.chosen /\ \A s \in ToSet(w.chosen) : Drawn(q, s)
<1>1. shots \in Seq(Shots)
  BY DEF Shootable
<1>2. w.chosen = Filled(q, shots)
  BY DEF ShootingWork
<1>3. Shootable(q, w.chosen) /\ ToSet(w.chosen) = {Fill(q, s) : s \in ToSet(shots)}
  BY <1>2, FilledAre
<1>4. \A s \in ToSet(shots) : s \in Shots
  BY <1>1, ElementsAreOf
<1>5. \A s \in ToSet(w.chosen) : Fill(q, s) = s
  BY <1>3, <1>4, FillIs
<1>6. ASSUME w.payload # Nothing
      PROVE  w.payload = w.chosen /\ \A s \in ToSet(w.chosen) : Drawn(q, s)
  <2>1. ShootingReady(q, shots) /\ w.payload = Filled(q, shots)
    BY <1>6 DEF ShootingWork
  <2>2. \A s \in ToSet(shots) : ShotFits(q, s)
    BY <2>1 DEF ShootingReady, ToSet
  <2> QED
    BY <1>2, <1>3, <1>4, <2>1, <2>2, FillIsDrawn
<1> QED
  BY <1>2, <1>3, <1>5, <1>6

(* The defaults are of weapons of the request, each once. *)
LEMMA DefaultShootingIs ==
  ASSUME NEW q \in Requests, q.kind = "shooting"
  PROVE  Shootable(q, DefaultShooting(q))
<1>1. q \in ShootingRequests
  BY KindsOfRequest
<1>2. q.weapons \in Seq(Armed)
  BY <1>1, ShootingLists
<1> DEFINE S == {w \in ToSet(q.weapons) : LegalFor(q, w.weapon) # << >>}
<1>3. PICK armed : armed = Filtered(q.weapons, S)
  OBVIOUS
<1>4. armed \in Seq(Armed) /\ ToSet(armed) = ToSet(q.weapons) \cap S
  BY <1>2, <1>3, FilteredProperties
<1>5. IsInjective(q.weapons)
  BY <1>1, InventoryAssumption DEF IsInjective
<1>6. IsInjective(armed)
  BY <1>2, <1>3, <1>5, FilteredDistinct
<1>7. \A v, w \in ToSet(q.weapons) : Source(v) = Source(w) => v = w
  BY <1>1, InventoryAssumption DEF ToSet
<1>8. DOMAIN armed = 1 .. Len(armed) /\ Len(armed) \in Nat
  BY <1>4
<1>9. \A i \in 1 .. Len(armed) : armed[i] \in ToSet(armed) /\ armed[i] \in Armed
  BY <1>4, <1>8 DEF ToSet
<1>10. PICK shots : shots = DefaultShooting(q)
  OBVIOUS
<1>11. shots = [i \in 1 .. Len(armed) |-> Shot(armed[i], LegalFor(q, armed[i].weapon)[1].target, << >>)]
  BY <1>3, <1>8, <1>10 DEF DefaultShooting
<1>12. ASSUME NEW i \in 1 .. Len(armed)
       PROVE  shots[i] \in Shots /\ Source(shots[i]) = Source(armed[i])
  <2>1. armed[i] \in Armed /\ LegalFor(q, armed[i].weapon) # << >>
    BY <1>4, <1>9
  <2>2. PICK l : l = LegalFor(q, armed[i].weapon)
    OBVIOUS
  <2>3. l \in Seq(Aims) /\ l # << >>
    BY <1>1, <2>1, <2>2, LegalForIs
  <2>4. l[1] \in Aims
    BY <2>3, EmptyHasNone, ElementsAreOf
  <2>5. l[1].target \in Targets \cup {Nothing}
    BY <2>4 DEF Aims, Targets
  <2>6. << >> \in Seq(STRING)
    OBVIOUS
  <2>7. shots[i] = Shot(armed[i], l[1].target, << >>)
    BY <1>11, <2>2
  <2> QED
    BY <2>1, <2>5, <2>6, <2>7, ShotIsOf
<1>13. shots \in Seq(Shots) /\ DOMAIN shots = 1 .. Len(armed)
  <2>1. shots = [i \in 1 .. Len(armed) |-> shots[i]]
    BY <1>11
  <2> QED
    BY <1>8, <1>12, <2>1, IsASeq
<1>14. \A i, j \in 1 .. Len(armed) : Source(shots[i]) = Source(shots[j]) => i = j
  <2> SUFFICES ASSUME NEW i \in 1 .. Len(armed), NEW j \in 1 .. Len(armed),
                      Source(shots[i]) = Source(shots[j])
               PROVE  i = j
    OBVIOUS
  <2>1. Source(armed[i]) = Source(armed[j])
    BY <1>12
  <2>2. armed[i] \in ToSet(q.weapons) /\ armed[j] \in ToSet(q.weapons)
    BY <1>4, <1>9
  <2>3. armed[i] = armed[j]
    BY <1>7, <2>1, <2>2
  <2> QED
    BY <1>6, <1>8, <2>3 DEF IsInjective
<1>15. IsInjective(shots)
  BY <1>13, <1>14 DEF IsInjective
<1>16. \A s, t \in ToSet(shots) : Source(s) = Source(t) => s = t
  BY <1>13, <1>14 DEF ToSet
<1>17. \A s \in ToSet(shots) : \E w \in ToSet(q.weapons) : Source(s) = Source(w)
  <2> SUFFICES ASSUME NEW i \in 1 .. Len(armed)
               PROVE  \E w \in ToSet(q.weapons) : Source(shots[i]) = Source(w)
    BY <1>13 DEF ToSet
  <2> QED
    BY <1>4, <1>9, <1>12
<1> QED
  BY <1>10, <1>13, <1>15, <1>16, <1>17 DEF Shootable

(* Some of the shots are shots. *)
LEMMA SomeShotsAre ==
  ASSUME NEW q, NEW shots, Shootable(q, shots), NEW S
  PROVE  /\ Shootable(q, Filtered(shots, S))
         /\ ToSet(Filtered(shots, S)) = ToSet(shots) \cap S
<1>1. shots \in Seq(Shots) /\ IsInjective(shots)
  BY DEF Shootable
<1>2. PICK f : f = Filtered(shots, S)
  OBVIOUS
<1>3. f \in Seq(Shots) /\ ToSet(f) = ToSet(shots) \cap S
  BY <1>1, <1>2, FilteredProperties
<1>4. IsInjective(f)
  BY <1>1, <1>2, FilteredDistinct
<1> QED
  BY <1>2, <1>3, <1>4 DEF Shootable

(* A press takes the shot away or puts it in the place of one of its weapon. *)
LEMMA ToggledIs ==
  ASSUME NEW q \in ShootingRequests, NEW shots, Shootable(q, shots), NEW s \in ShootingChoices(q)
  PROVE  /\ Shootable(q, Toggled(shots, s))
         /\ ToSet(Toggled(shots, s)) =
                IF s \in ToSet(shots) THEN ToSet(shots) \ {s}
                ELSE {c \in ToSet(shots) : Source(c) # Source(s)} \cup {s}
<1>1. CASE s \in ToSet(shots)
  <2>1. Toggled(shots, s) = Filtered(shots, ToSet(shots) \ {s})
    BY <1>1 DEF Toggled
  <2>2. ToSet(Filtered(shots, ToSet(shots) \ {s})) = ToSet(shots) \cap (ToSet(shots) \ {s})
        /\ Shootable(q, Filtered(shots, ToSet(shots) \ {s}))
    BY SomeShotsAre
  <2> QED
    BY <1>1, <2>1, <2>2
<1>2. CASE s \notin ToSet(shots)
  <2> DEFINE S == {c \in ToSet(shots) : Source(c) # Source(s)}
  <2>1. PICK f : f = Filtered(shots, S)
    OBVIOUS
  <2>2. Shootable(q, f) /\ ToSet(f) = ToSet(shots) \cap S
    BY <2>1, SomeShotsAre
  <2>3. Toggled(shots, s) = Append(f, s)
    BY <1>2, <2>1 DEF Toggled
  <2>4. s \in Shots /\ \E w \in ToSet(q.weapons) : Source(s) = Source(w)
    BY ChoicesAreShots
  <2>5. f \in Seq(Shots) /\ IsInjective(f) /\ s \notin ToSet(f)
    BY <2>2 DEF Shootable
  <2>6. PICK t : t = Append(f, s)
    OBVIOUS
  <2>7. t \in Seq(Shots) /\ IsInjective(t) /\ ToSet(t) = ToSet(f) \cup {s}
    BY <2>4, <2>5, <2>6, AppendDistinct
  <2>8. \A a, b \in ToSet(t) : Source(a) = Source(b) => a = b
    BY <2>2, <2>7 DEF Shootable
  <2>9. \A a \in ToSet(t) : \E w \in ToSet(q.weapons) : Source(a) = Source(w)
    BY <2>2, <2>4, <2>7 DEF Shootable
  <2> QED
    BY <1>2, <2>2, <2>3, <2>6, <2>7, <2>8, <2>9 DEF Shootable
<1> QED
  BY <1>1, <1>2

-----------------------------------------------------------------------------
(* Melee *)

Blades ==
    [model : STRING, weapon : STRING, extra : BOOLEAN, engaged : Seq(Own \cup Enemy),
     families : Abilities]

(* The primary weapons of a melee request are weapons of it. *)
LEMMA PrimaryIs ==
  ASSUME NEW q \in MeleeRequests
  PROVE  Primary(q) \in Seq(Blades)
<1>1. q.weapons \in Seq(Blades)
  BY DEF MeleeRequests, Blades
<1> DEFINE S == {w \in ToSet(q.weapons) : ~w.extra}
<1>2. Filtered(q.weapons, S) \in Seq(Blades)
  BY <1>1, FilteredProperties
<1> QED
  BY <1>2 DEF Primary

(* The fights of a weapon are fights of the model that bears it. *)
LEMMA FightsAreOf ==
  ASSUME NEW w, NEW f \in Fights(w)
  PROVE  f.model = w.model
  BY DEF Fights

(* A weapon in reach with nothing to choose fights its first target in one way. *)
LEMMA ClearWeaponFights ==
  ASSUME NEW w \in Blades, w.engaged # << >>,
         \A k \in DOMAIN w.families : Cardinality(w.families[k]) = 1
  PROVE  \E f \in Fights(w) : f.target = w.engaged[1]
<1>1. PICK fam : fam = w.families
  OBVIOUS
<1>2. fam \in Abilities /\ \A k \in DOMAIN fam : Cardinality(fam[k]) = 1
  BY <1>1 DEF Blades
<1>3. PICK none : none = << >>
  OBVIOUS
<1>4. none \in Seq(STRING) /\ Len(none) = 0
  BY <1>3
<1>5. OptionsFit(fam, none)
  <2>1. DOMAIN fam = 1 .. Len(fam) /\ Len(fam) \in Nat
    BY <1>2 DEF Abilities
  <2>2. \A i \in DOMAIN fam : ~(i <= Len(none))
    BY <1>4, <2>1
  <2> QED
    BY <1>2, <1>4, <2>1, <2>2 DEF OptionsFit
<1>6. PICK ids : ids \in Chosen(fam)
  BY <1>2, <1>4, <1>5, OptionsFilledAre
<1>7. w.engaged[1] \in ToSet(w.engaged)
  <2>1. w.engaged \in Seq(Own \cup Enemy)
    BY DEF Blades
  <2> QED
    BY <2>1, EmptyHasNone
<1>8. [model |-> w.model, weapon |-> w.weapon, target |-> w.engaged[1], ids |-> ids] \in Fights(w)
  BY <1>1, <1>6, <1>7 DEF Fights
<1> QED
  BY <1>8

(* The defaults are choices of the request, one for each model. *)
LEMMA DefaultMeleeIs ==
  ASSUME NEW q \in MeleeRequests
  PROVE  Fightable(q, DefaultMelee(q))
<1>1. Primary(q) \in Seq(Blades)
  BY PrimaryIs
<1> DEFINE S == {w \in ToSet(q.weapons) : w.engaged # << >>}
           able == Filtered(Primary(q), S)
           first == {i \in DOMAIN able : \A j \in 1 .. i - 1 : able[j].model # able[i].model}
           clear == {i \in first : \A k \in DOMAIN able[i].families : Cardinality(able[i].families[k]) = 1}
           row == [i \in DOMAIN able |-> i]
           order == Filtered(row, clear)
           fights == DefaultMelee(q)
<1>12. fights = [k \in DOMAIN order |->
                    CHOOSE f \in Fights(able[order[k]]) : f.target = able[order[k]].engaged[1]]
  BY DEF DefaultMelee
<1>2. able = Filtered(Primary(q), S)
  OBVIOUS
<1>5. row = [i \in DOMAIN able |-> i]
  OBVIOUS
<1>7. order = Filtered(row, clear)
  OBVIOUS
<1> HIDE DEF able, row, order, fights
<1>3. able \in Seq(Blades) /\ ToSet(able) = ToSet(Primary(q)) \cap S
  BY <1>1, <1>2, FilteredProperties
<1>4. DOMAIN able = 1 .. Len(able) /\ Len(able) \in Nat
  BY <1>3
<1>6. row \in Seq(1 .. Len(able)) /\ ToSet(row) = 1 .. Len(able) /\ IsInjective(row)
  <2>1. \A i \in 1 .. Len(able) : i \in 1 .. Len(able)
    OBVIOUS
  <2>2. row \in Seq(1 .. Len(able))
    BY <1>4, <1>5, <2>1, IsASeq
  <2>3. ToSet(row) = 1 .. Len(able)
    BY <1>4, <1>5 DEF ToSet
  <2>4. IsInjective(row)
    BY <1>5 DEF IsInjective
  <2> QED
    BY <2>2, <2>3, <2>4
<1>8. order \in Seq(1 .. Len(able)) /\ ToSet(order) = ToSet(row) \cap clear /\ IsInjective(order)
  <2> HIDE DEF clear
  <2> QED
    BY <1>6, <1>7, FilteredProperties, FilteredDistinct
<1>9. ToSet(order) = clear
  BY <1>4, <1>6, <1>8
<1>10. DOMAIN order = 1 .. Len(order) /\ Len(order) \in Nat
       /\ \A k \in 1 .. Len(order) : order[k] \in clear
  BY SMTT(30), <1>8, <1>9 DEF ToSet
<1>13. ASSUME NEW k \in 1 .. Len(order)
       PROVE  /\ fights[k] \in Fights(able[order[k]])
              /\ fights[k] \in MeleeChoices(q)
              /\ fights[k].model = able[order[k]].model
  <2>1. PICK w : w = able[order[k]]
    OBVIOUS
  <2>2. order[k] \in clear /\ order[k] \in 1 .. Len(able)
    BY <1>4, <1>10
  <2>3. w \in Blades /\ w \in ToSet(able)
    BY <1>3, <1>4, <2>1, <2>2 DEF ToSet
  <2>4. w.engaged # << >> /\ w \in ToSet(Primary(q))
    BY <1>3, <2>3
  <2>5. \A n \in DOMAIN w.families : Cardinality(w.families[n]) = 1
    BY <2>1, <2>2
  <2>6. \E f \in Fights(w) : f.target = w.engaged[1]
    BY <2>3, <2>4, <2>5, ClearWeaponFights
  <2>7. fights[k] = CHOOSE f \in Fights(w) : f.target = w.engaged[1]
    BY <1>10, <1>12, <2>1
  <2>8. fights[k] \in Fights(w)
    BY <2>6, <2>7
  <2>9. fights[k] \in MeleeChoices(q)
    BY <2>4, <2>8 DEF MeleeChoices
  <2> QED
    BY <2>1, <2>8, <2>9, FightsAreOf
<1>14. fights \in Seq(MeleeChoices(q)) /\ DOMAIN fights = 1 .. Len(order)
  <2>1. fights = [k \in 1 .. Len(order) |-> fights[k]]
    BY <1>10, <1>12
  <2>2. \A k \in 1 .. Len(order) : fights[k] \in MeleeChoices(q)
    BY <1>13
  <2> QED
    BY <1>10, <2>1, <2>2, IsASeq
<1>15. ASSUME NEW k \in 1 .. Len(order), NEW l \in 1 .. Len(order), fights[k].model = fights[l].model
       PROVE  k = l
  <2>1. PICK i : i = order[k]
    OBVIOUS
  <2>2. PICK j : j = order[l]
    OBVIOUS
  <2>3. i \in first /\ j \in first /\ able[i].model = able[j].model
    BY <1>10, <1>13, <1>15, <2>1, <2>2
  <2>4. i \in 1 .. Len(able) /\ j \in 1 .. Len(able)
    BY <1>4, <2>3
  <2>5. ~(i < j)
    <3>1. i < j => i \in 1 .. j - 1
      BY <2>4
    <3> QED
      BY <2>3, <3>1
  <2>6. ~(j < i)
    <3>1. j < i => j \in 1 .. i - 1
      BY <2>4
    <3> QED
      BY <2>3, <3>1
  <2>7. order[k] = order[l]
    BY <2>1, <2>2, <2>4, <2>5, <2>6
  <2> QED
    BY <1>8, <1>10, <2>7 DEF IsInjective
<1>16. IsInjective(fights)
  BY <1>14, <1>15 DEF IsInjective
<1>17. \A f, g \in ToSet(fights) : f.model = g.model => f = g
  BY <1>14, <1>15 DEF ToSet
<1> QED
  BY <1>14, <1>16, <1>17 DEF Fightable, fights

(* A choice replaces the fight of its model and no other. *)
LEMMA WithMeleeIs ==
  ASSUME NEW q, NEW fights, Fightable(q, fights), NEW c \in MeleeChoices(q)
  PROVE  /\ Fightable(q, WithMelee(fights, c))
         /\ ToSet(WithMelee(fights, c)) = {f \in ToSet(fights) : f.model # c.model} \cup {c}
<1>1. fights \in Seq(MeleeChoices(q)) /\ IsInjective(fights)
  BY DEF Fightable
<1> DEFINE S == {f \in ToSet(fights) : f.model # c.model}
<1>2. PICK kept : kept = Filtered(fights, S)
  OBVIOUS
<1>3. kept \in Seq(MeleeChoices(q)) /\ ToSet(kept) = ToSet(fights) \cap S /\ IsInjective(kept)
  BY <1>1, <1>2, FilteredProperties, FilteredDistinct
<1>4. c \notin ToSet(kept)
  BY <1>3
<1>5. PICK t : t = Append(kept, c)
  OBVIOUS
<1>6. t \in Seq(MeleeChoices(q)) /\ IsInjective(t) /\ ToSet(t) = ToSet(kept) \cup {c}
  BY <1>3, <1>4, <1>5, AppendDistinct
<1>7. t = WithMelee(fights, c)
  BY <1>2, <1>5 DEF WithMelee
<1>8. \A f, g \in ToSet(t) : f.model = g.model => f = g
  BY <1>3, <1>6 DEF Fightable
<1> QED
  BY <1>3, <1>6, <1>7, <1>8 DEF Fightable

(* A payload is the chosen fights, and is there only when every model that  *)
(* can fight has one.                                                       *)
LEMMA MeleeWorkIs ==
  ASSUME NEW q, NEW fights, NEW w, w = MeleeWork(q, fights)
  PROVE  /\ w.chosen = fights
         /\ w.payload # Nothing =>
                /\ w.payload = fights
                /\ \A c \in MeleeChoices(q) : \E f \in ToSet(fights) : f.model = c.model
<1>1. w.chosen = fights
  BY DEF MeleeWork
<1>2. ASSUME w.payload # Nothing
      PROVE  /\ w.payload = fights
             /\ {c.model : c \in MeleeChoices(q)} \subseteq {f.model : f \in ToSet(fights)}
  BY <1>2 DEF MeleeWork
<1>3. ASSUME w.payload # Nothing, NEW c \in MeleeChoices(q)
      PROVE  \E f \in ToSet(fights) : f.model = c.model
  <2>1. c.model \in {f.model : f \in ToSet(fights)}
    BY <1>2, <1>3
  <2> QED
    BY <2>1
<1> QED
  BY <1>1, <1>2, <1>3

-----------------------------------------------------------------------------
(* The invariant *)

(* A new draft is sound. *)
LEMMA StartedIs ==
  ASSUME request \in Requests, NEW w, w = Started(request)
  PROVE  /\ request.kind = "shooting" => w = ShootingWork(request, DefaultShooting(request))
         /\ request.kind = "melee" => w = MeleeWork(request, DefaultMelee(request))
         /\ request.kind = "stratagem" => w = StratagemWork(request, Nothing, Nothing)
  BY DEF Started

(* What the defaults and the presses make of a draft satisfies the          *)
(* invariant,                                                               *)
LEMMA DraftsAreSound ==
  ASSUME request \in Requests, unit \in Own \cup Enemy \cup {Nothing},
         \/ /\ request.kind = "shooting"
            /\ \E shots : Shootable(request, shots) /\ work = ShootingWork(request, shots)
         \/ /\ request.kind = "melee"
            /\ \E fights : Fightable(request, fights) /\ work = MeleeWork(request, fights)
         \/ /\ request.kind = "stratagem"
            /\ \E target \in Own \cup {Nothing}, mode \in Modes(request) \cup {Nothing} :
                 (target # Nothing => Selectable(request)) /\ work = StratagemWork(request, target, mode)
  PROVE  IInv
<1>1. CASE request.kind = "shooting"
  <2>1. PICK shots : Shootable(request, shots) /\ work = ShootingWork(request, shots)
    BY <1>1
  <2>2. request \in ShootingRequests
    BY <1>1, KindsOfRequest
  <2> QED
    BY <1>1, <2>1, <2>2, ShootingWorkIs DEF IInv, ShootingInv, MeleeInv, StratagemInv
<1>2. CASE request.kind = "melee"
  <2>1. PICK fights : Fightable(request, fights) /\ work = MeleeWork(request, fights)
    BY <1>2
  <2> QED
    BY <1>2, <2>1, MeleeWorkIs DEF IInv, ShootingInv, MeleeInv, StratagemInv
<1>3. CASE request.kind = "stratagem"
  BY <1>3 DEF IInv, ShootingInv, MeleeInv, StratagemInv
<1> QED
  BY <1>1, <1>2, <1>3

(* and what a request starts with does. *)
LEMMA StartedIsSound ==
  ASSUME request \in Requests, unit \in Own \cup Enemy \cup {Nothing}, work = Started(request)
  PROVE  IInv
<1>1. request.kind \in {"shooting", "melee", "stratagem"}
  BY KindsOfRequest
<1>2. CASE request.kind = "shooting"
  BY <1>2, StartedIs, DefaultShootingIs, DraftsAreSound
<1>3. CASE request.kind = "melee"
  BY <1>3, StartedIs, DefaultMeleeIs, KindsOfRequest, DraftsAreSound
<1>4. CASE request.kind = "stratagem"
  BY <1>4, StartedIs, DraftsAreSound
<1> QED
  BY <1>1, <1>2, <1>3, <1>4

(* No shots at all are shots of any request. *)
LEMMA NoShots == \A q : Shootable(q, << >>)
<1>1. PICK none : none = << >>
  OBVIOUS
<1>2. none \in Seq(Shots) /\ DOMAIN none = {}
  BY <1>1
<1>3. ToSet(none) = {}
  BY <1>2 DEF ToSet
<1>4. IsInjective(none)
  BY <1>2 DEF IsInjective
<1> QED
  BY <1>1, <1>2, <1>3, <1>4 DEF Shootable

(* Named so that a lemma about states can be used of the next one *)
Sound ==
    /\ request \in Requests
    /\ unit \in Own \cup Enemy \cup {Nothing}
    /\ \/ /\ request.kind = "shooting"
          /\ \E shots : Shootable(request, shots) /\ work = ShootingWork(request, shots)
       \/ /\ request.kind = "melee"
          /\ \E fights : Fightable(request, fights) /\ work = MeleeWork(request, fights)
       \/ /\ request.kind = "stratagem"
          /\ \E target \in Own \cup {Nothing}, mode \in Modes(request) \cup {Nothing} :
               (target # Nothing => Selectable(request)) /\ work = StratagemWork(request, target, mode)
       \/ work = Started(request)

(* A draft that is one of those satisfies the invariant, *)
LEMMA SoundIsIInv == Sound => IInv
  BY DraftsAreSound, StartedIsSound DEF Sound

(* and so it does after a step. *)
LEMMA SoundNext == Sound' => IInv'
  BY SoundIsIInv, PTL

(* The invariant holds at first, *)
LEMMA InitIInv == Init => IInv
  BY SoundIsIInv DEF Init, Sound

(* every step keeps it, *)
LEMMA NextIInv == IInv /\ [Next]_vars => IInv'
<1> SUFFICES ASSUME IInv, [Next]_vars PROVE IInv'
  OBVIOUS
<1>0. request' = request
  BY DEF Next, vars, ToggleShooting, ChooseMelee, ChooseStratagem, SelectUnit, Clear
<1>1. CASE ToggleShooting
  <2>1. request.kind = "shooting" /\ request \in ShootingRequests
    BY <1>1, KindsOfRequest DEF ToggleShooting, IInv
  <2>2. PICK c \in ShootingChoices(request) :
            /\ work' = ShootingWork(request, Toggled(work.chosen, c))
            /\ unit' = IF c.target = Nothing THEN unit ELSE c.target
    BY <1>1 DEF ToggleShooting
  <2>3. Shootable(request, Toggled(work.chosen, c))
    BY <2>1, ToggledIs DEF IInv, ShootingInv
  <2>4. unit' \in Own \cup Enemy \cup {Nothing}
    BY <2>1, <2>2, ChoicesAreShots DEF IInv, Shots, Targets
  <2>5. Sound'
    BY <1>0, <2>1, <2>2, <2>3, <2>4 DEF Sound, IInv
  <2> QED
    BY <2>5, SoundNext
<1>2. CASE ChooseMelee
  <2>1. request.kind = "melee" /\ request \in MeleeRequests
    BY <1>2, KindsOfRequest DEF ChooseMelee, IInv
  <2>2. PICK c \in MeleeChoices(request) :
            work' = MeleeWork(request, WithMelee(work.chosen, c)) /\ unit' = c.target
    BY <1>2 DEF ChooseMelee
  <2>3. Fightable(request, WithMelee(work.chosen, c))
    BY <2>1, WithMeleeIs DEF IInv, MeleeInv
  <2>4. unit' \in Own \cup Enemy \cup {Nothing}
    <3>1. PICK w \in ToSet(Primary(request)) : c \in Fights(w)
      BY DEF MeleeChoices
    <3>2. w \in Blades
      BY <2>1, <3>1, PrimaryIs, ElementsAreOf
    <3>3. w.engaged \in Seq(Own \cup Enemy) /\ c.target \in ToSet(w.engaged)
      BY <3>1, <3>2 DEF Blades, Fights
    <3> QED
      BY <2>2, <3>3, ElementsAreOf
  <2>5. Sound'
    BY <1>0, <2>1, <2>2, <2>3, <2>4 DEF Sound, IInv
  <2> QED
    BY <2>5, SoundNext
<1>3. CASE ChooseStratagem
  <2>1. request.kind = "stratagem" /\ Selectable(request) /\ unit \in Own /\ unit' = unit
    BY <1>3 DEF ChooseStratagem
  <2>2. PICK mode \in ModeRows : work' = StratagemWork(request, unit, mode)
    BY <1>3 DEF ChooseStratagem
  <2>3. mode \in Modes(request) \cup {Nothing}
    BY <2>2 DEF ModeRows
  <2>4. Sound'
    BY <1>0, <2>1, <2>2, <2>3 DEF Sound, IInv
  <2> QED
    BY <2>4, SoundNext
<1>4. ASSUME NEW u \in Own \cup Enemy, SelectUnit(u) PROVE IInv'
  <2>1. UNCHANGED <<request, work>> /\ unit' = u
    BY <1>4 DEF SelectUnit
  <2> QED
    BY <2>1 DEF IInv, ShootingInv, MeleeInv, StratagemInv
<1>5. CASE Clear
  <2>1. unit' = unit
    BY <1>5 DEF Clear
  <2>2. CASE request.kind = "shooting"
    <3>1. work' = ShootingWork(request, << >>)
      BY <1>5, <2>2 DEF Clear
    <3>2. Shootable(request, << >>)
      BY NoShots
    <3>3. Sound'
      BY <1>0, <2>1, <2>2, <3>1, <3>2 DEF Sound, IInv
    <3> QED
      BY <3>3, SoundNext
  <2>3. CASE request.kind # "shooting"
    <3>1. work' = Started(request)
      BY <1>5, <2>3 DEF Clear
    <3>2. Sound'
      BY <1>0, <2>1, <3>1 DEF Sound, IInv
    <3> QED
      BY <3>2, SoundNext
  <2> QED
    BY <2>2, <2>3
<1>6. CASE UNCHANGED vars
  BY <1>6 DEF vars, IInv, ShootingInv, MeleeInv, StratagemInv
<1> QED
  BY <1>1, <1>2, <1>3, <1>4, <1>5, <1>6 DEF Next

(* and so it always holds. *)
LEMMA SpecIInv == Spec => []IInv
  BY InitIInv, NextIInv, PTL DEF Spec

-----------------------------------------------------------------------------
(* The theorems *)

(* What the invariant says of the types, *)
LEMMA TypesOfIInv == IInv => TypeOK
<1> SUFFICES ASSUME IInv PROVE TypeOK
  OBVIOUS
<1>1. request \in Requests /\ unit \in Own \cup Enemy \cup {Nothing}
  BY DEF IInv
<1>2. ASSUME request.kind = "shooting"
      PROVE  {Source(c) : c \in ToSet(work.chosen)} \subseteq {Source(w) : w \in ToSet(request.weapons)}
  <2>1. \A s \in ToSet(work.chosen) : \E w \in ToSet(request.weapons) : Source(s) = Source(w)
    BY <1>2 DEF IInv, ShootingInv, Shootable
  <2> QED
    BY <2>1
<1>3. ASSUME request.kind = "melee"
      PROVE  ToSet(work.chosen) \subseteq MeleeChoices(request)
  <2>1. work.chosen \in Seq(MeleeChoices(request))
    BY <1>3 DEF IInv, MeleeInv, Fightable
  <2> QED
    BY <2>1, ElementsAreOf
<1>4. ASSUME request.kind = "stratagem"
      PROVE  work.mode \in Modes(request) \cup {Nothing}
  BY <1>4 DEF IInv, StratagemInv, StratagemWork
<1> QED
  BY <1>1, <1>2, <1>3, <1>4 DEF TypeOK

(* A draft stays within its request: its weapons are those of the           *)
(* inventory, its fights and its mode are offered (_toggle_shooting_choice, *)
(* with_melee_selection, with_stratagem_intent).                            *)
THEOREM DeclarationTypes == Spec => []TypeOK
  BY TypesOfIInv, SpecIInv, PTL

(* of the targets of a weapon, *)
LEMMA OneTargetOfIInv == IInv => OneTargetPerWeapon
<1> SUFFICES ASSUME IInv, request.kind = "shooting",
                    NEW i \in DOMAIN work.chosen, NEW j \in DOMAIN work.chosen,
                    Source(work.chosen[i]) = Source(work.chosen[j])
             PROVE  i = j
  BY DEF OneTargetPerWeapon
<1>1. Shootable(request, work.chosen)
  BY DEF IInv, ShootingInv
<1>2. work.chosen[i] \in ToSet(work.chosen) /\ work.chosen[j] \in ToSet(work.chosen)
  BY DEF ToSet
<1>3. work.chosen[i] = work.chosen[j]
  BY <1>1, <1>2 DEF Shootable
<1> QED
  BY <1>1, <1>3 DEF Shootable, IsInjective

(* No weapon is ever assigned twice, by the defaults and by any sequence of *)
(* presses, for an inventory that lists every weapon once                   *)
(* (_toggle_shooting_choice).                                               *)
THEOREM EachWeaponHasOneTarget == Spec => []OneTargetPerWeapon
  BY OneTargetOfIInv, SpecIInv, PTL

(* of what a payload of shots declares, *)
LEMMA OfferedOfIInv == IInv => ShotsAreOffered
<1> SUFFICES ASSUME IInv, request.kind = "shooting", work.payload # Nothing PROVE ShotsAreOffered
  BY DEF ShotsAreOffered
<1>1. work.payload = work.chosen /\ \A s \in ToSet(work.chosen) : Drawn(request, s)
  BY DEF IInv, ShootingInv
<1>2. OneTargetPerWeapon
  BY OneTargetOfIInv
<1> QED
  BY <1>1, <1>2 DEF ShotsAreOffered, OneTargetPerWeapon, Drawn

(* A shooting payload declares only what the engine offered for the very    *)
(* request, with the abilities filled in, whether its shots are defaults or *)
(* pressed, or what it offered the same weapon of another firing deck       *)
(* source (_default_shooting_selection, _shooting_choices).                 *)
THEOREM PayloadShotsAreOffered == Spec => []ShotsAreOffered
  BY OfferedOfIInv, SpecIInv, PTL

(* of who fights, *)
LEMMA FightsOfIInv == IInv => EveryModelFights
<1> SUFFICES ASSUME IInv, request.kind = "melee" PROVE EveryModelFights
  BY DEF EveryModelFights
<1>1. ASSUME NEW c \in MeleeChoices(request)
      PROVE  Cardinality({f \in ToSet(work.chosen) : f.model = c.model}) <= 1
  <2> DEFINE S == {f \in ToSet(work.chosen) : f.model = c.model}
  <2>1. \A f, g \in S : f = g
    BY DEF IInv, MeleeInv, Fightable
  <2>2. PICK x : S # {} => x \in S
    OBVIOUS
  <2>3. S \subseteq {x}
    BY <2>1, <2>2
  <2> QED
    BY <2>3, AtMostOne
<1>2. ASSUME work.payload # Nothing, NEW c \in MeleeChoices(request)
      PROVE  \E f \in ToSet(work.payload) : f.model = c.model
  BY <1>2 DEF IInv, MeleeInv
<1> QED
  BY <1>1, <1>2 DEF EveryModelFights

(* Each model fights with at most one weapon, and in a payload each one     *)
(* that may fight does (with_melee_selection, _melee_workspace).            *)
THEOREM ModelsAllFight == Spec => []EveryModelFights
  BY FightsOfIInv, SpecIInv, PTL

(* and of the target of a stratagem. *)
LEMMA StratagemOfIInv == IInv => StratagemTargetIsOwn
<1> SUFFICES ASSUME IInv, request.kind = "stratagem", work.payload # Nothing
             PROVE  StratagemTargetIsOwn
  BY DEF StratagemTargetIsOwn
<1>1. PICK target \in Own \cup {Nothing}, mode \in Modes(request) \cup {Nothing} :
          (target # Nothing => Selectable(request)) /\ work = StratagemWork(request, target, mode)
  BY DEF IInv, StratagemInv
<1>2. PICK bound : bound = IF Selectable(request) /\ target # Nothing THEN target ELSE Binding(request)
  OBVIOUS
<1>3. PICK given : given = IF Modes(request) = {} THEN Nothing ELSE mode
  OBVIOUS
<1>4. /\ work.target = target /\ work.mode = mode
      /\ work.payload = [target |-> bound, mode |-> given]
      /\ Modes(request) # {} => mode \in Modes(request)
  BY <1>1, <1>2, <1>3 DEF StratagemWork
<1>5. work.payload.target = bound /\ work.payload.mode = given
  BY <1>4
<1>6. IF Modes(request) = {} THEN mode = Nothing /\ given = Nothing
      ELSE mode \in Modes(request) /\ given = mode
  BY <1>1, <1>3, <1>4
<1>7. IF target = Nothing THEN bound = Binding(request) ELSE bound = target /\ target \in Own
  BY <1>1, <1>2
<1> QED
  BY <1>4, <1>5, <1>6, <1>7 DEF StratagemTargetIsOwn

(* A Stratagem the player targets is sent for that own unit, any other for  *)
(* the binding of the request, and with the chosen mode, one of the source, *)
(* exactly if the source has modes (with_stratagem_intent).                 *)
THEOREM StratagemsAreOwn == Spec => []StratagemTargetIsOwn
  BY StratagemOfIInv, SpecIInv, PTL

-----------------------------------------------------------------------------

(* What one press loses and gains *)
Lost == ToSet(work.chosen) \ ToSet(work'.chosen)
Gained == ToSet(work'.chosen) \ ToSet(work.chosen)

OneChanges ==
    /\ Cardinality(Lost) <= 1 /\ Cardinality(Gained) <= 1
    /\ Cardinality({c.model : c \in Lost \cup Gained}) <= 1

(* A press in a shooting draft changes the shot of one weapon. *)
LEMMA ShootingPressChangesOne ==
  ASSUME IInv, ToggleShooting
  PROVE  OneChanges
<1>1. request.kind = "shooting" /\ request \in ShootingRequests
  BY KindsOfRequest DEF ToggleShooting, IInv
<1>2. PICK s \in ShootingChoices(request) : work' = ShootingWork(request, Toggled(work.chosen, s))
  BY DEF ToggleShooting
<1>3. PICK shots : shots = work.chosen
  OBVIOUS
<1>4. Shootable(request, shots) /\ \A c \in ToSet(shots) : Fill(request, c) = c
  BY <1>1, <1>3 DEF IInv, ShootingInv
<1>5. PICK toggled : toggled = Toggled(shots, s)
  OBVIOUS
<1>6. /\ Shootable(request, toggled)
      /\ ToSet(toggled) = IF s \in ToSet(shots) THEN ToSet(shots) \ {s}
                          ELSE {c \in ToSet(shots) : Source(c) # Source(s)} \cup {s}
  BY <1>1, <1>4, <1>5, ToggledIs
<1>7. work'.chosen = Filled(request, toggled)
  BY <1>2, <1>3, <1>5 DEF ShootingWork
<1>8. ToSet(work'.chosen) = {Fill(request, c) : c \in ToSet(toggled)}
  BY <1>1, <1>6, <1>7, FilledAre
<1>9. CASE s \in ToSet(shots)
  <2>1. ToSet(work'.chosen) = ToSet(shots) \ {s}
    BY <1>4, <1>6, <1>8, <1>9
  <2>2. Lost \subseteq {s} /\ Gained \subseteq {s}
    BY <1>3, <2>1 DEF Lost, Gained
  <2>3. {c.model : c \in Lost \cup Gained} \subseteq {s.model}
    BY <2>2
  <2> QED
    BY <2>2, <2>3, AtMostOne DEF OneChanges
<1>10. CASE s \notin ToSet(shots)
  <2>1. ToSet(work'.chosen) = {c \in ToSet(shots) : Source(c) # Source(s)} \cup {Fill(request, s)}
    BY <1>4, <1>6, <1>8, <1>10
  <2>2. Gained \subseteq {Fill(request, s)}
    BY <1>3, <2>1 DEF Gained
  <2>3. \A c \in Lost : c \in ToSet(shots) /\ Source(c) = Source(s)
    BY <1>3, <2>1 DEF Lost
  <2>4. PICK x : Lost # {} => x \in Lost
    OBVIOUS
  <2>5. Lost \subseteq {x}
    BY <1>4, <2>3, <2>4 DEF Shootable
  <2>6. s \in Shots
    BY <1>1, ChoicesAreShots
  <2>7. \A c \in Lost \cup Gained : Source(c) = Source(s)
    BY <1>1, <2>2, <2>3, <2>6, FillIs
  <2>8. \A c \in Lost \cup Gained : c.model = s.model
    BY <2>7 DEF Source
  <2>9. {c.model : c \in Lost \cup Gained} \subseteq {s.model}
    BY <2>8
  <2> QED
    BY <2>2, <2>5, <2>9, AtMostOne DEF OneChanges
<1> QED
  BY <1>9, <1>10

(* A press in a melee draft changes the fight of one model. *)
LEMMA MeleePressChangesOne ==
  ASSUME IInv, ChooseMelee
  PROVE  OneChanges
<1>1. request.kind = "melee"
  BY DEF ChooseMelee
<1>2. PICK f \in MeleeChoices(request) : work' = MeleeWork(request, WithMelee(work.chosen, f))
  BY DEF ChooseMelee
<1>3. Fightable(request, work.chosen)
  BY <1>1 DEF IInv, MeleeInv
<1>4. ToSet(work'.chosen) = {c \in ToSet(work.chosen) : c.model # f.model} \cup {f}
  BY <1>2, <1>3, WithMeleeIs, MeleeWorkIs
<1>5. Gained \subseteq {f}
  BY <1>4 DEF Gained
<1>6. \A c \in Lost : c \in ToSet(work.chosen) /\ c.model = f.model
  BY <1>4 DEF Lost
<1>7. PICK x : Lost # {} => x \in Lost
  OBVIOUS
<1>8. Lost \subseteq {x}
  BY <1>3, <1>6, <1>7 DEF Fightable
<1>9. {c.model : c \in Lost \cup Gained} \subseteq {f.model}
  BY <1>5, <1>6
<1> QED
  BY <1>5, <1>8, <1>9, AtMostOne DEF OneChanges

(* A press changes the declaration of one weapon, or of one model that      *)
(* fights, and keeps all the others, their abilities included: filling in   *)
(* what has no alternative (_selected_weapon_ability_ids) changes nothing   *)
(* that was filled in before.                                               *)
THEOREM PressesChangeOne == Spec => PressChangesOne
<1>1. IInv /\ [Next]_vars =>
        [ToggleShooting \/ ChooseMelee =>
            LET lost == ToSet(work.chosen) \ ToSet(work'.chosen)
                new  == ToSet(work'.chosen) \ ToSet(work.chosen)
            IN  /\ Cardinality(lost) <= 1 /\ Cardinality(new) <= 1
                /\ Cardinality({c.model : c \in lost \cup new}) <= 1]_vars
  BY ShootingPressChangesOne, MeleePressChangesOne DEF OneChanges, Lost, Gained
<1> QED
  BY <1>1, SpecIInv, PTL DEF Spec, PressChangesOne
=============================================================================
