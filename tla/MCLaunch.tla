------------------------------ MODULE MCLaunch ------------------------------
EXTENDS Launch

CONSTANTS a, b    \* the models of the placement requests

Decision ==
    [type |-> "select_movement_action", actor |-> "player-a", parameterized |-> FALSE,
     options |-> {"stationary", "advance"}, variants |-> 0, kind |-> "option", declinable |-> FALSE,
     request |-> [models |-> {}, components |-> {}, player |-> "player-a"]]

Placing(models, components) ==
    [Decision EXCEPT !.type = "submit_deployment_placement", !.parameterized = TRUE, !.variants = 1,
                     !.kind = "placement",
                     !.request = [models |-> models, components |-> components, player |-> "player-a"]]

Waiting(decision) == [kind |-> "waiting_for_decision", decision |-> decision]

MCStatuses ==
    {[kind |-> k, decision |-> None] : k \in {"advanced", "complete", "unsupported", "waiting_for_decision"}}
    \cup {[kind |-> "invalid", decision |-> Decision], [kind |-> "advanced", decision |-> Decision]}
    \cup {Waiting(d) : d \in
            {Decision,
             [Decision EXCEPT !.options = {"advance"}],
             [Decision EXCEPT !.type = "select_secondary_missions", !.options = {"fixed"}, !.actor = None],
             [Decision EXCEPT !.type = "select_deployment_unit", !.options = {"alpha-scout", "alpha-reserve"}],
             [Decision EXCEPT !.type = "select_prebattle_action", !.options = {"player-b"}],
             Placing({a, b}, {"u"}), Placing({a, b}, {"u", "v"}),
             [Placing({a}, {"u"}) EXCEPT !.type = "submit_scout_move", !.kind = "scout_move"],
             [Placing({a}, {"u"}) EXCEPT !.type = "submit_stratagem_target_proposal", !.declinable = TRUE],
             [Placing({a}, {"u"}) EXCEPT !.variants = 2]}}

Model(unit, owner, pose) == [unit |-> unit, owner |-> owner, pose |-> pose]

Projection ==
    [models |-> [m \in {a, b} |-> IF m = a THEN Model("u", "player-a", "here") ELSE Model("u", "player-a", None)],
     stage |-> "battle", phase |-> "movement", game |-> "g", profileGame |-> "g",
     placed |-> [p \in {"player-a"} |-> {"army"}], mustered |-> [p \in {"player-a"} |-> {"army"}],
     catalog |-> "c", reference |-> "c", renders |-> TRUE]

MCProjections ==
    {Projection,
     [Projection EXCEPT !.stage = "setup"],
     [Projection EXCEPT !.phase = "shooting", !.models[b].unit = "v", !.placed["player-a"] = {}],
     [Projection EXCEPT !.models[b].owner = "player-b", !.stage = "setup", !.phase = None],
     [Projection EXCEPT !.reference = None],
     [Projection EXCEPT !.mustered["player-a"] = {"other"}, !.stage = "setup", !.phase = None]}

Given(level, maxBytes, filter) ==
    [level |-> level, maxBytes |-> maxBytes, include |-> filter, exclude |-> filter,
     includeCategories |-> filter, excludeCategories |-> filter]

Nothing == Given(NotSet, NotSet, NotSet)

(* No option given: the command line has an empty filter for each. *)
NoOption == Given(NotSet, NotSet, {})

MCInputs ==
    {[cli |-> [NoOption EXCEPT !.level = "payload"], env |-> [Nothing EXCEPT !.maxBytes = 3], file |-> Nothing],
     [cli |-> NoOption, env |-> [Nothing EXCEPT !.level = Blank], file |-> [Nothing EXCEPT !.level = "summary"]],
     [cli |-> [NoOption EXCEPT !.level = "1", !.includeCategories = {"core_client"}],
      env |-> [Nothing EXCEPT !.level = "off", !.maxBytes = Blank, !.includeCategories = {"ui"}],
      file |-> [Nothing EXCEPT !.exclude = {<<"get_view", "request">>}]],
     [cli |-> NoOption,
      env |-> [Nothing EXCEPT !.level = "payload", !.include = {<<"submit_finite", "request">>}],
      file |-> [Nothing EXCEPT !.include = {<<"get_view", "response">>}]],
     [cli |-> NoOption, env |-> [Nothing EXCEPT !.level = "summary", !.maxBytes = 2, !.excludeCategories = {"ui"}],
      file |-> Nothing],
     [cli |-> [NoOption EXCEPT !.level = "loud"], env |-> Nothing, file |-> Nothing]}
=============================================================================
