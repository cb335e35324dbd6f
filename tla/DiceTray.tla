------------------------------- MODULE DiceTray -------------------------------
(***************************************************************************)
(* The dice tray: what it shows of the newest viewer-visible roll and of a *)
(* pending reroll, from the bounded tail of event payloads the finite      *)
(* state keeps (dice_tray.py, finite_decision.py). The engine rolls and    *)
(* rerolls real dice beside it; its events carry the roll as the contract  *)
(* says, or with one of the defects the reader looks for.                  *)
(***************************************************************************)
EXTENDS Integers, SequencesExt

CONSTANTS
    NoRoll,         \* no roll, no request
    RollIds,        \* rolls the engine makes
    Dice, Faces,    \* how many dice a roll has, and what a die may show
    Selections,     \* the sets of selections a reroll request may allow
    MaxRerolls,     \* bound: rerolls of one roll
    MaxPayloads     \* MAX_RECENT_EVENT_PAYLOADS

VARIABLES
    rolled,     \* roll -> the faces each throw of it showed: <<original, rerolls...>>
    tail,       \* FiniteDecisionUiState.event_payloads
    asked       \* the pending dice reroll request, or NoRoll

diceVars == <<rolled, tail, asked>>

-----------------------------------------------------------------------------
(* One roll as a payload reads: the original result and the reroll records *)

FacesOfD6 == 1 .. 6

FitsTheFirst(record, values) ==
    /\ record.indices # << >>
    /\ Len(record.indices) <= Len(record.values)
    /\ ToSet(record.indices) \subseteq DOMAIN values

(* A record fits when it has indices, as many faces, and names dice of the roll *)
Fits(record, values) ==
    /\ record.indices # << >>
    /\ Len(record.indices) = Len(record.values)
    /\ ToSet(record.indices) \subseteq DOMAIN values

(* The dice after one record: the face of the last mention of an index *)
Replaced(values, record) ==
    [i \in DOMAIN values |->
        LET at == {k \in DOMAIN record.indices : record.indices[k] = i}
        IN  IF at = {} THEN values[i] ELSE record.values[Max(at)]]

(* _physical_values_after_rerolls: the recorded faces are replayed in order *)
(* or, when a record does not fit, none are shown                           *)
PhysicalValues(state) ==
    LET after[n \in 0 .. Len(state.rerolls)] ==
            IF n = 0 THEN state.original
            ELSE IF after[n - 1] # << >> /\ Fits(state.rerolls[n], after[n - 1])
                 THEN Replaced(after[n - 1], state.rerolls[n])
                 ELSE << >>
    IN  after[Len(state.rerolls)]

RerolledIndices(state) == UNION {ToSet(state.rerolls[k].indices) : k \in DOMAIN state.rerolls}

Component(i, values, assigned, rerolled) ==
    [index |-> i, value |-> values[i], assigned |-> assigned[i], rerolled |-> i \in rerolled]

Roll(id, values, assigned, rerolled) ==
    [roll_id |-> id, values |-> values,
     components |-> [i \in DOMAIN values |-> Component(i, values, assigned, rerolled)]]

(* _roll_from_roll_state_payload: no physical faces, or assigned values that *)
(* are not one for each die, and there is no roll                            *)
RollFromState(state) ==
    LET values == PhysicalValues(state)
    IN  IF values = << >> \/ Len(state.current) # Len(values) THEN NoRoll
        ELSE Roll(state.roll_id, values, state.current, RerolledIndices(state))

(* _roll_from_result_payload *)
RollFromResult(state) ==
    IF state.original = << >> THEN NoRoll ELSE Roll(state.roll_id, state.original, state.original, {})

-----------------------------------------------------------------------------
(* Events: a payload that is no object, a dice_rolled result, a roll state   *)
(* (of an advance, a charge or anything that nests one), or nothing of dice. *)

(* What one event says: the roll, a defect that hides every older roll, or   *)
(* nothing. A roll state whose own original result cannot be read is passed  *)
(* over without a diagnostic.                                                *)
Seen(event) ==
    CASE event.kind \in {"not_an_object", "other"} -> [kind |-> "nothing", roll |-> NoRoll]
      [] event.kind = "dice_rolled" ->
            LET roll == RollFromResult(event.state)
            IN  [kind |-> IF roll = NoRoll THEN "defect" ELSE "roll", roll |-> roll]
      [] event.kind \in {"advance_roll_resolved", "charge_roll_resolved", "nested"} ->
            LET roll == RollFromState(event.state)
            IN  [kind |-> IF event.state.original = << >> THEN "nothing"
                          ELSE IF roll = NoRoll THEN "defect" ELSE "roll",
                 roll |-> roll]

(* The newest event that says anything of a roll *)
LatestRoll(events) ==
    LET telling == {i \in DOMAIN events : Seen(events[i]).kind # "nothing"}
    IN  IF telling = {} THEN NoRoll ELSE Seen(events[Max(telling)]).roll

-----------------------------------------------------------------------------
(* The tray *)

(* _roll_from_pending_reroll: the request has no physical faces *)
Placeholder(request) == [roll_id |-> request.roll_id, values |-> << >>, components |-> << >>]

SelectableIndices(request) == IF request = NoRoll THEN {} ELSE UNION request.allowed

Column(face, roll, selectable) ==
    LET showing == {i \in DOMAIN roll.components : roll.components[i].value = face}
    IN  [count |-> Cardinality({i \in DOMAIN roll.values : roll.values[i] = face}),
         indices |-> showing, selectable |-> Cardinality(showing \cap selectable)]

NoFaces == [f \in FacesOfD6 |-> [count |-> 0, indices |-> {}, selectable |-> 0]]

ActiveAsSeen(roll, request) == IF roll = NoRoll /\ request # NoRoll THEN Placeholder(request) ELSE roll

(* While a reroll is pending only its own roll may show faces *)
ActiveRoll(roll, request) ==
    IF request # NoRoll /\ (roll = NoRoll \/ roll.roll_id # request.roll_id)
    THEN Placeholder(request) ELSE roll

Tray ==
    LET roll == ActiveRoll(LatestRoll(tail), asked)
    IN  [roll |-> roll,
         faces |-> IF roll = NoRoll THEN NoFaces
                   ELSE [f \in FacesOfD6 |-> Column(f, roll, SelectableIndices(asked))]]

-----------------------------------------------------------------------------
(* The engine and the events it sends this viewer *)

Throws == [1 .. Dice -> Faces]

(* The faces on the table: each throw of a reroll replaces the dice it names *)
FacesNow(throws) ==
    LET rerolls == Tail(throws)
        now[n \in 0 .. Len(rerolls)] ==
            IF n = 0 THEN throws[1].values ELSE Replaced(now[n - 1], rerolls[n])
    IN  now[Len(rerolls)]

StateOf(id) ==
    [roll_id |-> id, original |-> rolled[id][1].values, rerolls |-> Tail(rolled[id]),
     current |-> FacesNow(rolled[id])]

(* _trim_event_payloads *)
Trimmed(events) == IF Len(events) <= MaxPayloads THEN events ELSE SubSeq(events, Len(events) - MaxPayloads + 1, Len(events))

Sent(event) == tail' = Trimmed(Append(tail, event))

DiceInit ==
    /\ rolled = [id \in RollIds |-> << >>]
    /\ tail = << >>
    /\ asked = NoRoll

(* A roll: the dice fall, and the event of it says so *)
RollDice(id) ==
    /\ rolled[id] = << >> /\ asked = NoRoll
    /\ \E t \in Throws : rolled' = [rolled EXCEPT ![id] = <<[indices |-> [i \in 1 .. Dice |-> i], values |-> t]>>]
    /\ Sent([kind |-> "dice_rolled",
             state |-> [roll_id |-> id, original |-> rolled'[id][1].values, rerolls |-> << >>, current |-> << >>]])
    /\ UNCHANGED asked

Offer(id, allowed) ==
    /\ asked = NoRoll /\ rolled[id] # << >> /\ Len(rolled[id]) <= MaxRerolls
    /\ asked' = [roll_id |-> id, allowed |-> allowed]
    /\ UNCHANGED <<rolled, tail>>

(* The reroll that was chosen, and a roll state that records it *)
Reroll(chosen, kind) ==
    LET id == asked.roll_id
    IN  /\ asked # NoRoll
        /\ chosen \in asked.allowed
        /\ \E t \in [1 .. Cardinality(chosen) -> Faces] :
               rolled' = [rolled EXCEPT ![id] = Append(@, [indices |-> SetToSeq(chosen), values |-> t])]
        /\ asked' = NoRoll
        /\ Sent([kind |-> kind,
                 state |-> [roll_id |-> id, original |-> rolled[id][1].values, rerolls |-> Tail(rolled'[id]),
                            current |-> FacesNow(rolled'[id])]])

Decline ==
    /\ asked # NoRoll
    /\ asked' = NoRoll
    /\ UNCHANGED <<rolled, tail>>

(* Defects of a roll state: records that do not fit, assigned values that   *)
(* do not, a result that cannot be read                                     *)
Defective(state) ==
    {[state EXCEPT !.rerolls = Append(@, [indices |-> <<1>>, values |-> << >>])],
     [state EXCEPT !.rerolls = Append(@, [indices |-> <<1>>, values |-> <<1, 2>>])],
     [state EXCEPT !.rerolls = Append(@, [indices |-> <<Dice + 1>>, values |-> <<1>>])],
     [state EXCEPT !.current = Tail(@)],
     [state EXCEPT !.original = << >>]}

(* Another event: of no dice, or a roll state with a defect *)
Report ==
    /\ \/ \E kind \in {"other", "not_an_object"} : Sent([kind |-> kind, state |-> NoRoll])
       \/ \E id \in RollIds :
            /\ rolled[id] # << >>
            /\ \E state \in Defective(StateOf(id)) : Sent([kind |-> "nested", state |-> state])
       \/ \E id \in RollIds :
            Sent([kind |-> "dice_rolled", state |-> [roll_id |-> id, original |-> << >>, rerolls |-> << >>, current |-> << >>]])
    /\ UNCHANGED <<rolled, asked>>

DiceNext ==
    \/ \E id \in RollIds : RollDice(id)
    \/ \E id \in RollIds, allowed \in Selections : Offer(id, allowed)
    \/ \E chosen \in SUBSET (1 .. Dice), kind \in {"advance_roll_resolved", "nested"} : Reroll(chosen, kind)
    \/ Decline
    \/ Report

(* The faces shown of a roll are the ones on the table: every recorded      *)
(* throw is replayed on the die it was of, no defect of a record puts       *)
(* another face there, and each die of a D6 counts in one column; and while *)
(* a reroll is pending the roll is the one it is for, whatever was rolled   *)
(* or forgotten since (build_dice_tray_view, _latest_roll,                  *)
(* _physical_values_after_rerolls, _face_columns).                          *)
FacesAreRolled ==
    LET roll == Tray.roll
    IN  /\ roll # NoRoll /\ roll.values # << >> =>
            /\ roll.values = FacesNow(rolled[roll.roll_id])
            /\ \A i \in DOMAIN roll.values :
                   {f \in FacesOfD6 : i \in Tray.faces[f].indices} = {roll.values[i]} \cap FacesOfD6
        /\ asked # NoRoll => roll.roll_id = asked.roll_id
=============================================================================
