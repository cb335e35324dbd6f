----------------------------- MODULE MCUiSession -----------------------------
(***************************************************************************)
(* Small instances of UiSession for TLC: the request forms each run lets   *)
(* the engine ask with.                                                    *)
(***************************************************************************)
EXTENDS UiSession

CONSTANTS p1, p2, u1, u2, o1, o2

MCAudiences == {{p1}, {p2}, {p1, p2}}

PublicOnly == {{p1, p2}}

Finite(actor, options) ==
    [HiddenForm EXCEPT !.actor = actor, !.interaction = "finite_option_list", !.options = options]

Physical(actor, interaction, proposal, unit) ==
    [HiddenForm EXCEPT !.actor = actor, !.interaction = interaction, !.parameterized = TRUE,
                       !.proposal = proposal, !.unit = unit]

Move(actor, unit)  == Physical(actor, "path_editor", "movement", unit)
Place(actor, unit) == Physical(actor, "model_pose_placement", "placement", unit)

Declare(actor, proposal) ==
    [Physical(actor, "entity_selection", proposal, None) EXCEPT !.complete = TRUE]

(* Which unit to activate, an opponent's reaction, a choice about one unit, *)
(* and one that belongs to nobody.                                         *)
FiniteForms ==
    {Finite(p1, <<u1, u2>>), Finite(p2, <<u1, o1>>), Finite(None, <<o1>>),
     [Finite(p1, <<o1, o2>>) EXCEPT !.unit = u1]}

(* A move, a Scout move that may stay in place, one that cannot be drafted, *)
(* and the other player's move.                                            *)
MovementForms ==
    {Move(p1, u1), [Move(p2, u2) EXCEPT !.scout = TRUE, !.noMove = TRUE],
     [Move(p1, u1) EXCEPT !.sound = FALSE], [Move(p1, u2) EXCEPT !.variants = 2]}

RetryForms == {Move(p1, u1)}

PlacementForms ==
    {Place(p1, u1), Place(p2, u2), [Place(p1, u2) EXCEPT !.sound = FALSE]}

AssignmentForms ==
    {[Declare(p1, "shooting") EXCEPT !.editable = TRUE],
     [Declare(p2, "melee") EXCEPT !.editable = TRUE, !.complete = FALSE],
     [Declare(p1, "stratagem") EXCEPT !.editable = TRUE, !.declinable = TRUE],
     [Declare(p1, "stratagem") EXCEPT !.declinable = TRUE]}

(* Every form that opens an editor *)
DraftForms == MovementForms \cup PlacementForms \cup AssignmentForms

MixedForms ==
    {Finite(p1, <<u1, o1>>), Move(p1, u1), Place(p2, u2),
     [Declare(p1, "stratagem") EXCEPT !.editable = TRUE, !.declinable = TRUE]}
=============================================================================
