---------------------------- MODULE SetupDriver ----------------------------
(***************************************************************************)
(* The live smoke start (core_client/live_smoke.py): it starts the game,   *)
(* answers the decisions of the set-up with a fixed policy until the phase *)
(* the user asked to stop at, and hands the session over to the window.    *)
(* The engine may return any status of `Statuses` together with any        *)
(* projection of `Projections` at each step.                               *)
(***************************************************************************)
EXTENDS Naturals, Sequences, FiniteSets, SequencesExt, FiniteSetsExt

CONSTANTS
    None,           \* no actor, decision, pose or army
    Statuses,       \* what the engine may return
    Projections,    \* what the engine may project with it
    Stops,          \* the phases asked for
    MaxDecisions    \* _MAX_AUTOMATED_DECISIONS

ASSUME DriverAssumption == MaxDecisions \in Nat \ {0}

DefaultViewer == "player-a"

VARIABLES
    stop,        \* the phase to stop at
    status,      \* the last status of the engine
    projection,  \* what get_view, get_rules_catalog and get_support_profile return
    index,       \* the loop's index
    sent,        \* the last submission
    outcome,     \* driving, checkpoint, started, failed or died
    shown        \* what the startup hands to the window

driverVars == <<stop, status, projection, index, sent, outcome, shown>>

----------------------------------------------------------------------------
(* The policy.                                                             *)

SetupStops ==
    [setup                |-> "select_secondary_missions",
     secondary_missions   |-> "select_secondary_missions",
     reserve_declarations |-> "select_reserve_declaration",
     deployment           |-> "select_deployment_unit",
     redeploy             |-> "select_redeploy_unit",
     prebattle            |-> "select_prebattle_action",
     scout_move           |-> "submit_scout_move"]

BattleStops == {"movement", "shooting"}

StopPhases == DOMAIN SetupStops \cup BattleStops

(* _validated_stop_phase; and a decision with anything but options to       *)
(* choose is parameterised (UiDecision.from_payload).                       *)
ASSUME StopsAssumption == Stops \subseteq StopPhases

ASSUME DecisionAssumption ==
    \A s \in Statuses : s.decision # None /\ s.decision.kind # "option" => s.decision.parameterized
\* A checkpoint test that forgets the stage of the game.
IsCheckpointOfAnyStage(decision, view) ==
    IF stop \in DOMAIN SetupStops
    THEN decision.type = SetupStops[stop]
    ELSE view.phase = stop

IsCheckpoint(decision, view) ==
    IF stop \in DOMAIN SetupStops
    THEN decision.type = SetupStops[stop]
    ELSE view.stage = "battle" /\ view.phase = stop

(* The options the policy would take, the first one offered being taken:   *)
(* one for most types, one per actor for others, a list for deployment.    *)
Preferred(decision) ==
    CASE decision.type = "select_secondary_missions"  -> <<"fixed">>
      [] decision.type = "use_stratagem"              -> <<"decline">>
      [] decision.type = "select_reserve_declaration" -> <<"complete">>
      [] decision.type = "select_deployment_unit"     -> <<"beta-scout", "alpha-deep", "alpha-scout", "alpha-reserve">>
      [] decision.type \in {"select_redeploy_unit", "select_prebattle_action"} /\ decision.actor # None
                                                      -> <<decision.actor>>
      [] decision.type = "select_movement_unit" /\ decision.actor # None
                                                      -> <<decision.actor, "next">>
      [] decision.type = "select_movement_action"     -> <<"stationary">>
      [] OTHER                                        -> <<>>

Offered(decision) == SelectSeq(Preferred(decision), LAMBDA o : o \in decision.options)

Viewer(decision) == IF decision.actor = None THEN DefaultViewer ELSE decision.actor

----------------------------------------------------------------------------
(* The payloads the driver builds itself.                                  *)

(* The army of a player, from the placed armies and the mustering rows.    *)
PublicArmy(view, player) ==
    LET placed == view.placed[player]
        mustered == view.mustered[player]
        conflict == \/ Cardinality(placed) > 1
                    \/ Cardinality(mustered) > 1
                    \/ placed # {} /\ mustered # {} /\ placed # mustered
    IN IF view.profileGame # view.game \/ conflict \/ placed \cup mustered = {}
       THEN None ELSE CHOOSE a \in placed \cup mustered : TRUE

\* An inventory test that never asks whose model it is.
InventoryAgreesOnUnits(request, view) ==
    /\ request.models # {} /\ request.components # {}
    /\ \A m \in request.models : m \in DOMAIN view.models /\ view.models[m].unit \in request.components
    /\ {view.models[m].unit : m \in request.models} = request.components

(* Every model is projected, belongs to the player and to a component, and *)
(* the components met are all of the request's.                            *)
InventoryAgrees(request, view) ==
    /\ request.models # {} /\ request.components # {}
    /\ \A m \in request.models :
          /\ m \in DOMAIN view.models
          /\ view.models[m].unit \in request.components
          /\ view.models[m].owner = request.player
    /\ {view.models[m].unit : m \in request.models} = request.components

PoseOf(view, m) == IF view.models[m].pose = None THEN "slot" ELSE view.models[m].pose

PlacementPayload(request, view) ==
    IF InventoryAgrees(request, view) /\ PublicArmy(view, request.player) # None
    THEN {[m \in request.models |->
              [army |-> PublicArmy(view, request.player), player |-> request.player,
               unit |-> view.models[m].unit, poses |-> <<PoseOf(view, m)>>]]}
    ELSE {}

ScoutPayload(request, view) ==
    IF InventoryAgrees(request, view) /\ \A m \in request.models : view.models[m].pose # None
    THEN {[m \in request.models |->
              [army |-> None, player |-> request.player, unit |-> view.models[m].unit,
               poses |-> <<view.models[m].pose, "half", "inch">>]]}
    ELSE {}

(* The payload of a parameterised decision: none when the driver refuses.  *)
Payloads(decision, view) ==
    IF decision.variants # 1 THEN {}
    ELSE IF decision.type = "submit_stratagem_target_proposal"
    THEN IF decision.declinable THEN {"decline"} ELSE {}
    ELSE CASE decision.kind = "placement" -> PlacementPayload(decision.request, view)
           [] decision.kind = "scout_move" -> ScoutPayload(decision.request, view)
           [] OTHER -> {}

----------------------------------------------------------------------------
(* The loop.                                                               *)

Unusable(s) == s.kind \in {"unsupported", "invalid"}

(* start_game, and one advance when it returned "advanced" alone.          *)
DriverInit ==
    /\ stop \in Stops
    /\ status \in Statuses /\ projection \in Projections
    /\ index = 1 /\ sent = None /\ outcome = "driving" /\ shown = None

(* What the loop does with the current status.                             *)
Stuck ==
    \/ index > MaxDecisions
    \/ Unusable(status)
    \/ status.decision = None /\ status.kind # "advanced"
    \/ status.decision # None /\ status.kind # "waiting_for_decision"

Asked == ~Stuck /\ status.decision # None

Arrived == Asked /\ IsCheckpoint(status.decision, projection)

Answers(decision) ==
    IF decision.parameterized
    THEN Payloads(decision, projection)
    ELSE {Head(o) : o \in {Offered(decision)} \ {<<>>}}

EngineMoves ==
    /\ status' \in Statuses
    /\ projection' \in Projections
    /\ index' = index + 1
\* An advance that does not use up an index.
AdvanceForFree ==
    /\ outcome = "driving" /\ ~Stuck /\ status.decision = None
    /\ status' \in Statuses
    /\ projection' \in Projections
    /\ UNCHANGED <<stop, index, sent, outcome, shown>>

Advance ==
    /\ outcome = "driving" /\ ~Stuck /\ status.decision = None
    /\ EngineMoves
    /\ UNCHANGED <<stop, sent, outcome, shown>>

Answer ==
    /\ outcome = "driving" /\ Asked /\ ~Arrived
    /\ \E a \in Answers(status.decision) :
          sent' = [request |-> status.decision, answer |-> a, result |-> index]
    /\ EngineMoves
    /\ UNCHANGED <<stop, outcome, shown>>

Arrive ==
    /\ outcome = "driving" /\ Arrived
    /\ outcome' = "checkpoint"
    /\ UNCHANGED <<stop, status, projection, index, sent, shown>>

GiveUp ==
    /\ outcome = "driving"
    /\ Stuck \/ (Asked /\ ~Arrived /\ Answers(status.decision) = {})
    /\ outcome' = "failed"
    /\ UNCHANGED <<stop, status, projection, index, sent, shown>>

(* The handover: the view is drawn, the event log read from its start, the *)
(* catalog and the support profile compared with the view.                 *)
Consistent(view) ==
    /\ view.renders
    /\ view.reference = view.catalog
    /\ view.profileGame = view.game

Handover ==
    /\ outcome = "checkpoint"
    /\ IF Consistent(projection)
       THEN /\ outcome' = "started"
            /\ shown' = [viewer |-> Viewer(status.decision), decision |-> status.decision, view |-> projection]
       ELSE outcome' = "failed" /\ UNCHANGED shown
    /\ UNCHANGED <<stop, status, projection, index, sent>>

(* A call of the session raises something other than LiveCoreSmokeError.   *)
DriverRaises ==
    /\ outcome \in {"driving", "checkpoint"}
    /\ outcome' = "died"
    /\ UNCHANGED <<stop, status, projection, index, sent, shown>>

DriverNext == Advance \/ Answer \/ Arrive \/ GiveUp \/ Handover \/ DriverRaises

----------------------------------------------------------------------------
(* Properties.                                                             *)

(* What the window opens on is the decision asked for: of the wanted phase *)
(* seen by the player who acts, with the catalog and the profile the view  *)
(* refers to (_startup_from_status).                                       *)
CheckpointIsShown ==
    outcome = "started" =>
        /\ shown.decision = status.decision
        /\ stop \in BattleStops => shown.view.stage = "battle" /\ shown.view.phase = stop
        /\ stop \notin BattleStops => shown.decision.type = SetupStops[stop]
        /\ shown.view.catalog = shown.view.reference
        /\ shown.decision.actor \in {None, shown.viewer}

(* A payload the driver made up places every model of the request once,    *)
(* under its projected unit, for the player who was asked; a model with a  *)
(* pose stays there (_placement_payload, _scout_move_payload).             *)
PayloadIsOwned ==
    [][ sent' \notin {sent, None} /\ sent'.request.kind \in {"placement", "scout_move"}
          /\ sent'.request.type # "submit_stratagem_target_proposal" =>
        /\ DOMAIN sent'.answer = sent'.request.request.models
        /\ \A m \in DOMAIN sent'.answer :
              /\ projection.models[m].owner = sent'.answer[m].player
              /\ projection.models[m].unit = sent'.answer[m].unit
              /\ projection.models[m].pose \in {None, sent'.answer[m].poses[1]} ]_sent
=============================================================================
