----------------------------- MODULE Declarations -----------------------------
(***************************************************************************)
(* The declarations of state/assignment_workspace.py: which weapon shoots  *)
(* or fights whom and which unit a Stratagem targets, as drafted with the  *)
(* rows of the assignment panel.  AssignmentWorkspace keeps of all this    *)
(* only whether the declaration is complete.                               *)
(*                                                                         *)
(* A weapon stands for its instance, wargear and profile.  The fields the  *)
(* payload copies from the request are there or not (complete).            *)
(***************************************************************************)
EXTENDS Lists, Sequences, FiniteSetsExt

CONSTANTS
    Nothing,        \* Python's None
    Requests,       \* the assignment requests the engine may make
    Own, Enemy      \* the units of the acting player and of the other one

Armed == [model : STRING, weapon : STRING, deck : STRING \cup {Nothing}]

(* The options of each family of abilities *)
Abilities == Seq({options \in SUBSET STRING : IsFiniteSet(options)})

(* A target may be bound to one source: the weapon of that deck, or, at     *)
(* Nothing, the shooter's own.                                             *)
ShootingRequests ==
    [kind : {"shooting"}, complete : BOOLEAN, typed : BOOLEAN, history : BOOLEAN,
     cargo : SUBSET STRING, weapons : Seq(Armed),
     targets : Seq([weapon : STRING, target : Own \cup Enemy, legal : BOOLEAN, families : Abilities,
                    bound : BOOLEAN, deck : STRING \cup {Nothing}]),
     targetless : Seq([model : STRING, weapon : STRING, deck : STRING \cup {Nothing}, families : Abilities])]

MeleeRequests ==
    [kind : {"melee"}, complete : BOOLEAN,
     weapons : Seq([model : STRING, weapon : STRING, extra : BOOLEAN,
                    engaged : Seq(Own \cup Enemy), families : Abilities])]

StratagemRequests ==
    [kind : {"stratagem"}, complete : BOOLEAN, given : Own \cup Enemy \cup {Nothing},
     offered : Seq(Own \cup Enemy) \cup {Nothing}, heroic : BOOLEAN, modes : Seq(STRING),
     friendly : BOOLEAN]

(* Shooting: the sources are the available weapons, own or borrowed from a  *)
(* unit on the firing deck.                                                *)
Source(r) == [model |-> r.model, weapon |-> r.weapon, deck |-> r.deck]

ASSUME UnitsAssumption == Nothing \notin Own \cup Enemy
ASSUME RequestsAssumption ==
    Requests \subseteq ShootingRequests \cup MeleeRequests \cup StratagemRequests

(* The engine lists every physical weapon once. *)
ASSUME InventoryAssumption ==
    \A q \in Requests : q.kind = "shooting" =>
        \A i, j \in DOMAIN q.weapons : Source(q.weapons[i]) = Source(q.weapons[j]) => i = j

VARIABLES
    request,    \* the pending request
    work,       \* the workspace: selections, Stratagem intent and payload
    unit        \* the selected unit

vars == <<request, work, unit>>

-----------------------------------------------------------------------------

(* All ways to take one option of each family *)
Chosen(families) ==
    {f \in [DOMAIN families -> UNION ToSet(families)] : \A i \in DOMAIN f : f[i] \in families[i]}

(* _selected_weapon_ability_ids: an option not given must be the only one *)
OptionsFit(families, ids) ==
    /\ Len(ids) <= Len(families)
    /\ \A i \in DOMAIN families :
        IF i <= Len(ids) THEN ids[i] \in families[i] ELSE Cardinality(families[i]) = 1

OptionsFilled(families, ids) ==
    [i \in DOMAIN families |->
        IF i <= Len(ids) THEN ids[i] ELSE CHOOSE o \in families[i] : TRUE]

LegalFor(q, weapon) ==
    Filtered(q.targets, {c \in ToSet(q.targets) : c.legal /\ c.weapon = weapon})

TargetlessFor(q, source) ==
    Filtered(q.targetless, {c \in ToSet(q.targetless) : Source(c) = source})

(* mutant: any legal candidate with that target *)
CandidatesForTarget(q, s) ==
    IF s.target = Nothing THEN TargetlessFor(q, Source(s))
    ELSE Filtered(q.targets, {c \in ToSet(q.targets) : c.legal /\ c.target = s.target})

(* _shooting_candidate_for_selection takes the first of these *)
CandidatesFor(q, s) ==
    IF s.target = Nothing THEN TargetlessFor(q, Source(s))
    ELSE Filtered(LegalFor(q, s.weapon), {c \in ToSet(q.targets) : c.target = s.target})

(* _shooting_type_for_selection finds a type *)
Typed(q, s) ==
    \/ CandidatesFor(q, s) # << >>
    \/ s.target = Nothing /\ (q.typed \/ LegalFor(q, s.weapon) # << >>)

Families(q, s) == IF CandidatesFor(q, s) = << >> THEN << >> ELSE CandidatesFor(q, s)[1].families

Shot(w, target, ids) ==
    [model |-> w.model, weapon |-> w.weapon, deck |-> w.deck, target |-> target, ids |-> ids]

(* A target with the firing deck fields is for the weapon of that source.   *)
(* Only the choices ask: defaults (DefaultShooting) and abilities           *)
(* (CandidatesFor) take the first candidate, whatever its source.           *)
OfferedTo(c, w) == c.bound => c.deck = w.deck

(* _shooting_choices: every legal candidate and every targetless one, in    *)
(* every way; no target at all needs a type and no targetless candidate.    *)
ChoicesOf(q, w) ==
    (UNION {{Shot(w, c.target, f) : f \in Chosen(c.families)} :
                c \in {c \in ToSet(LegalFor(q, w.weapon)) : OfferedTo(c, w)}})
    \cup
    (UNION {{Shot(w, Nothing, f) : f \in Chosen(c.families)} :
                c \in ToSet(TargetlessFor(q, Source(w)))})
    \cup
    {s \in {Shot(w, Nothing, << >>)} : TargetlessFor(q, Source(s)) = << >> /\ Typed(q, s)}

ShootingChoices(q) == UNION {ChoicesOf(q, w) : w \in ToSet(q.weapons)}

(* _default_shooting_selection: each weapon at its first legal target *)
DefaultShooting(q) ==
    LET armed == Filtered(q.weapons, {w \in ToSet(q.weapons) : LegalFor(q, w.weapon) # << >>})
    IN  [i \in DOMAIN armed |-> Shot(armed[i], LegalFor(q, armed[i].weapon)[1].target, << >>)]

ShotFits(q, s) ==
    /\ \E i \in DOMAIN q.weapons : \A j \in DOMAIN q.weapons :
        Source(q.weapons[j]) = Source(s) <=> j = i
    /\ Typed(q, s)
    /\ OptionsFit(Families(q, s), s.ids)

(* _firing_deck_selection_preview *)
DeckFits(q, shots) ==
    \A i \in DOMAIN shots : shots[i].deck # Nothing => q.history /\ shots[i].deck \in q.cargo

(* The declarations: abilities without an alternative are filled in *)
Fill(q, s) ==
    IF ShotFits(q, s) THEN [s EXCEPT !.ids = OptionsFilled(Families(q, s), @)] ELSE s

Filled(q, shots) == [i \in DOMAIN shots |-> Fill(q, shots[i])]

(* No diagnostic was noted on the way *)
ShootingReady(q, shots) ==
    /\ q.complete
    /\ \A i \in DOMAIN shots : ShotFits(q, shots[i])
    /\ DeckFits(q, shots)

(* _shooting_workspace *)
ShootingWork(q, shots) ==
    [chosen |-> Filled(q, shots), target |-> Nothing, mode |-> Nothing,
     payload |-> IF ShootingReady(q, shots) THEN Filled(q, shots) ELSE Nothing]

(* mutant: the weapon keeps its former target beside the new one *)
ToggledBeside(shots, s) ==
    IF s \in ToSet(shots) THEN Filtered(shots, ToSet(shots) \ {s}) ELSE Append(shots, s)

(* mutant: the other weapons of the model are dropped *)
ToggledModel(shots, s) ==
    IF s \in ToSet(shots) THEN Filtered(shots, ToSet(shots) \ {s})
    ELSE Append(Filtered(shots, {c \in ToSet(shots) : c.model # s.model}), s)

(* _toggle_shooting_choice *)
Toggled(shots, s) ==
    IF s \in ToSet(shots) THEN Filtered(shots, ToSet(shots) \ {s})
    ELSE Append(Filtered(shots, {c \in ToSet(shots) : Source(c) # Source(s)}), s)

-----------------------------------------------------------------------------

(* Melee: one primary weapon per model, with one target *)
Primary(q) == Filtered(q.weapons, {w \in ToSet(q.weapons) : ~w.extra})

Fights(w) ==
    {[model |-> w.model, weapon |-> w.weapon, target |-> t, ids |-> f] :
        t \in ToSet(w.engaged), f \in Chosen(w.families)}

(* _melee_choices *)
MeleeChoices(q) == UNION {Fights(w) : w \in ToSet(Primary(q))}

(* mutant: a model without a primary weapon in reach uses an extra one *)
DefaultMeleeExtra(q) ==
    LET able == Filtered(q.weapons, {w \in ToSet(q.weapons) : w.engaged # << >> /\ w.families = << >>})
    IN  [k \in DOMAIN able |->
            CHOOSE f \in Fights(able[k]) : f.target = able[k].engaged[1]]

(* The first weapon of each model that can fight, if nothing is to be chosen *)
DefaultMelee(q) ==
    LET able  == Filtered(Primary(q), {w \in ToSet(q.weapons) : w.engaged # << >>})
        first == {i \in DOMAIN able : \A j \in 1 .. i - 1 : able[j].model # able[i].model}
        clear == {i \in first : \A k \in DOMAIN able[i].families : Cardinality(able[i].families[k]) = 1}
        order == Filtered([i \in DOMAIN able |-> i], clear)
    IN  [k \in DOMAIN order |->
            CHOOSE f \in Fights(able[order[k]]) : f.target = able[order[k]].engaged[1]]

FightFits(q, f) ==
    /\ f \in MeleeChoices(q)
    /\ \E i \in DOMAIN Primary(q) : \A j \in DOMAIN Primary(q) :
        (Primary(q)[j].model = f.model /\ Primary(q)[j].weapon = f.weapon) <=> j = i

(* _melee_workspace *)
MeleeWork(q, fights) ==
    LET models == {c.model : c \in MeleeChoices(q)}
        ready  == /\ q.complete
                  /\ fights # << >>
                  /\ \A i, j \in DOMAIN fights : fights[i].model = fights[j].model => i = j
                  /\ models \subseteq {f.model : f \in ToSet(fights)}
                  /\ \A i \in DOMAIN fights : FightFits(q, fights[i])
    IN  [chosen |-> fights, target |-> Nothing, mode |-> Nothing,
         payload |-> IF ready THEN fights ELSE Nothing]

(* mutant: a second weapon of the model is added *)
WithMeleeBeside(fights, f) == Append(fights, f)

(* with_melee_selection *)
WithMelee(fights, f) == Append(Filtered(fights, {c \in ToSet(fights) : c.model # f.model}), f)

-----------------------------------------------------------------------------

(* Stratagem: a binding of the request or one the player chooses.  A list   *)
(* of candidates is a binding only if it has one.                          *)
Ambiguous(q) == q.given = Nothing /\ q.offered # Nothing /\ Len(q.offered) # 1

Binding(q) ==
    IF q.given # Nothing THEN q.given
    ELSE IF q.offered # Nothing /\ Len(q.offered) = 1 THEN q.offered[1]
    ELSE Nothing

(* _heroic_source_modes: a list with a repetition offers none *)
MalformedModes(q) == q.heroic /\ (q.modes = << >> \/ ~IsInjective(q.modes))

Modes(q) == IF q.heroic /\ ~MalformedModes(q) THEN ToSet(q.modes) ELSE {}

Selectable(q) == Modes(q) # {} \/ (Binding(q) = Nothing /\ q.friendly)

(* _stratagem_workspace.  Without modes the effect is copied from the       *)
(* request, and the mode of the payload is Nothing.                        *)
StratagemWork(q, target, mode) ==
    LET bound == IF Selectable(q) /\ target # Nothing THEN target ELSE Binding(q)
        ready == /\ q.complete /\ ~Ambiguous(q) /\ ~MalformedModes(q)
                 /\ bound # Nothing
                 /\ Modes(q) # {} => mode \in Modes(q)
    IN  [chosen |-> << >>, target |-> target, mode |-> mode,
         payload |-> IF ready
                     THEN [target |-> bound, mode |-> IF Modes(q) = {} THEN Nothing ELSE mode]
                     ELSE Nothing]

(* start_for_pending *)
Started(q) ==
    CASE q.kind = "shooting"  -> ShootingWork(q, DefaultShooting(q))
      [] q.kind = "melee"     -> MeleeWork(q, DefaultMelee(q))
      [] q.kind = "stratagem" -> StratagemWork(q, Nothing, Nothing)

TypeOK ==
    /\ request \in Requests
    /\ unit \in Own \cup Enemy \cup {Nothing}
    /\ request.kind = "shooting" =>
        {Source(c) : c \in ToSet(work.chosen)} \subseteq {Source(w) : w \in ToSet(request.weapons)}
    /\ request.kind = "melee" => ToSet(work.chosen) \subseteq MeleeChoices(request)
    /\ request.kind = "stratagem" => work.mode \in Modes(request) \cup {Nothing}

Init ==
    /\ request \in Requests
    /\ work = Started(request)
    /\ unit \in Own \cup Enemy \cup {Nothing}

(* The board shows every unit: pressing a row selects its target *)
ToggleShooting ==
    /\ request.kind = "shooting"
    /\ \E c \in ShootingChoices(request) :
        /\ work' = ShootingWork(request, Toggled(work.chosen, c))
        /\ unit' = IF c.target = Nothing THEN unit ELSE c.target
    /\ UNCHANGED request

ChooseMelee ==
    /\ request.kind = "melee"
    /\ \E c \in MeleeChoices(request) :
        /\ work' = MeleeWork(request, WithMelee(work.chosen, c))
        /\ unit' = c.target
    /\ UNCHANGED request

(* The rows to press are those of the modes, if there are any *)
ModeRows == IF Modes(request) = {} THEN {Nothing} ELSE Modes(request)

(* mutant: the target may be anyone's unit *)
ChooseStratagemForAny ==
    /\ request.kind = "stratagem" /\ Selectable(request)
    /\ unit # Nothing
    /\ \E mode \in ModeRows :
        work' = StratagemWork(request, unit, mode)
    /\ UNCHANGED <<request, unit>>

(* _choose_stratagem_mode and _choose_stratagem_target *)
ChooseStratagem ==
    /\ request.kind = "stratagem" /\ Selectable(request)
    /\ unit \in Own
    /\ \E mode \in ModeRows :
        work' = StratagemWork(request, unit, mode)
    /\ UNCHANGED <<request, unit>>

SelectUnit(u) == unit' = u /\ UNCHANGED <<request, work>>

(* _clear_assignment_workspace: shooting is cleared to an empty declaration, *)
(* and a Stratagem with nothing to select is cancelled instead (UiSession).  *)
Clear ==
    /\ request.kind = "stratagem" => Selectable(request)
    /\ work' = IF request.kind = "shooting" THEN ShootingWork(request, << >>) ELSE Started(request)
    /\ UNCHANGED <<request, unit>>

Next ==
    \/ ToggleShooting \/ ChooseMelee \/ ChooseStratagem
    \/ \E u \in Own \cup Enemy : SelectUnit(u)
    \/ Clear

Spec == Init /\ [][Next]_vars

-----------------------------------------------------------------------------

(* The shot was taken from a legal target of the weapon, with its           *)
(* abilities, that is bound to another firing deck source.                  *)
FromOtherDeck(q, s) ==
    \E c \in ToSet(LegalFor(q, s.weapon)) :
        c.target = s.target /\ ~OfferedTo(c, s) /\ s.ids \in Chosen(c.families)

(* A shooting payload declares each physical weapon once, and in a way the  *)
(* engine offered for this very request, abilities included, with one       *)
(* exception: a shot may draw on a target bound to another firing deck      *)
(* source, which is not among the choices.  Defaults and toggling arrive at *)
(* a declaration by different code (_default_shooting_selection,            *)
(* _shooting_choices, _shooting_candidate_for_selection).                   *)
ShotsAreOffered ==
    request.kind = "shooting" /\ work.payload # Nothing =>
        /\ \A s \in ToSet(work.payload) :
            s \in ShootingChoices(request) \/ FromOtherDeck(request, s)
        /\ \A i, j \in DOMAIN work.payload :
            Source(work.payload[i]) = Source(work.payload[j]) => i = j

(* While a shooting declaration is drafted no weapon is assigned twice. *)
OneTargetPerWeapon ==
    request.kind = "shooting" =>
        \A i, j \in DOMAIN work.chosen :
            Source(work.chosen[i]) = Source(work.chosen[j]) => i = j

(* A melee payload has every model that may fight use one of its offered    *)
(* weapons (with_melee_selection, offered_models.difference).               *)
EveryModelFights ==
    request.kind = "melee" =>
        /\ \A c \in MeleeChoices(request) :
            Cardinality({f \in ToSet(work.chosen) : f.model = c.model}) <= 1
        /\ work.payload # Nothing =>
            \A c \in MeleeChoices(request) : \E f \in ToSet(work.payload) : f.model = c.model

(* A Stratagem the player targets is sent for that unit, one of the         *)
(* player's own, and any other for the binding of the request; and it is    *)
(* sent with the mode chosen for it, one of its source, exactly if its      *)
(* source has modes.                                                        *)
StratagemTargetIsOwn ==
    request.kind = "stratagem" /\ work.payload # Nothing =>
        /\ IF work.target = Nothing THEN work.payload.target = Binding(request)
           ELSE work.payload.target = work.target /\ work.target \in Own
        /\ work.payload.mode = work.mode
        /\ IF Modes(request) = {} THEN work.mode = Nothing ELSE work.mode \in Modes(request)

(* A press changes the declaration of one weapon, or of one model that      *)
(* fights, and keeps all the others.                                        *)
PressChangesOne ==
    [][ToggleShooting \/ ChooseMelee =>
        LET lost == ToSet(work.chosen) \ ToSet(work'.chosen)
            new  == ToSet(work'.chosen) \ ToSet(work.chosen)
        IN  /\ Cardinality(lost) <= 1 /\ Cardinality(new) <= 1
            /\ Cardinality({c.model : c \in lost \cup new}) <= 1]_vars
=============================================================================
