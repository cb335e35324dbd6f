------------------------------- MODULE Protocol -------------------------------
(***************************************************************************)
(* What crosses the boundary between the rules engine and the UI           *)
(* (core_client/protocol.py), and which editor a pending decision is       *)
(* routed to (state/interaction_dispatch.py).                              *)
(*                                                                         *)
(* A decision is an id and a form.  The form stands for everything the     *)
(* engine says about the request; the engine never changes it under the    *)
(* same id, so the id also stands for the spatial context hash, the        *)
(* proposal context and the submission variant a draft is bound to.        *)
(***************************************************************************)
EXTENDS Naturals, Sequences

CONSTANTS
    None,       \* the absent value (Python's None)
    Player,     \* the player ids
    Unit,       \* the unit ids of the projected battlefield
    OptionId,   \* the finite option ids; some of them are units
    Forms,      \* the request forms the engine may ask with
    NModels     \* how many models a drafted unit has

Model == 1 .. NModels

(* interaction_kind of the descriptor; "hidden" stands for no descriptor *)
InteractionKinds ==
    {"finite_option_list", "entity_selection", "confirmation", "dice_selection",
     "path_editor", "battlefield_point_placement", "model_pose_placement",
     "weapon_allocation_matrix", "roster_construction", "hidden"}

ProposalKinds == {"none", "movement", "placement", "shooting", "melee", "stratagem"}

FormShape ==
    [actor : Player \cup {None},    \* who has to answer
     interaction : InteractionKinds,
     variants : 1 .. 2,             \* submission variants published
     parameterized : BOOLEAN,
     proposal : ProposalKinds,      \* the typed proposal the payload parses to
     options : Seq(OptionId),
     unit : Unit \cup {None},       \* the unit a physical proposal is about
     scout : BOOLEAN,               \* a submit_scout_move request
     noMove : BOOLEAN,              \* may be answered with no witness path
     complete : BOOLEAN,            \* the seeded assignment is already complete
     declinable : BOOLEAN,
     editable : BOOLEAN,
     sound : BOOLEAN]               \* FALSE: starting its editor raises

ASSUME FormsAssumption == Forms \subseteq FormShape
ASSUME ModelsAssumption == NModels \in Nat \ {0}
(* A typed proposal is parsed from a parameterized request only *)
ASSUME ProposalAssumption == \A f \in Forms : f.proposal # "none" => f.parameterized
ASSUME NothingAssumption == None \notin Player \cup Unit \cup OptionId \cup Model \cup Nat

Decision == [id : Nat \ {0}, form : Forms]

(* The pending decision in the projection of a viewer who is not its actor: *)
(* another id, no actor, no options, no interaction descriptor.             *)
HiddenForm ==
    [actor |-> None, interaction |-> "hidden", variants |-> 1, parameterized |-> FALSE,
     proposal |-> "none", options |-> << >>, unit |-> None, scout |-> FALSE,
     noMove |-> FALSE, complete |-> FALSE, declinable |-> FALSE, editable |-> FALSE,
     sound |-> TRUE]

HiddenDecision == [id |-> 0, form |-> HiddenForm]

VisibleDecision == Decision \cup {HiddenDecision, None}

ASSUME NoDecisionAssumption == None \notin Decision \cup {HiddenDecision}

StatusKinds == {"waiting_for_decision", "advanced", "invalid", "terminal", "unsupported"}

(* interaction_route: a finite and a parameterized entity_selection differ *)
EditorOf(form) ==
    CASE form.interaction = "hidden" -> "hidden"
      [] form.interaction = "path_editor" -> "movement"
      [] form.interaction \in {"battlefield_point_placement", "model_pose_placement"} -> "placement"
      [] form.interaction = "weapon_allocation_matrix" -> "assignment"
      [] form.interaction = "entity_selection" /\ form.parameterized -> "assignment"
      [] form.interaction = "dice_selection" -> "dice_tray"
      [] form.interaction = "roster_construction" -> "roster"
      [] OTHER -> "generic_finite"

(* A request with several variants, a roster or a free point placement has  *)
(* an editor by name but no working one.                                    *)
Supported(form) ==
    /\ form.interaction \notin {"hidden", "battlefield_point_placement"}
    /\ form.variants = 1
    /\ EditorOf(form) # "roster"

RoutedTo(d, editor) == d # None /\ EditorOf(d.form) = editor /\ Supported(d.form)

(* The last n elements of s *)
LastOf(s, n) == IF Len(s) <= n THEN s ELSE SubSeq(s, Len(s) - n + 1, Len(s))
=============================================================================
