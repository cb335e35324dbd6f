------------------------------ MODULE UiSession ------------------------------
(***************************************************************************)
(* One play session: the Arcade window (render/arcade_window.py) with its  *)
(* finite-decision state and its local editors, against the rules engine.  *)
(*                                                                         *)
(* Python runs every handler to completion, engine calls included, so one  *)
(* action is one handler.  What interleaves is the user (keys, mouse, HUD  *)
(* buttons of a frame drawn some time ago) with the engine's answers and   *)
(* the failures of any client call.                                        *)
(*                                                                         *)
(* Handlers are written as operators on the record ui, which holds the     *)
(* window's attributes, because they call one another.                     *)
(***************************************************************************)
EXTENDS FiniteDecision, MovementDraft, PlacementDraft, AssignmentWorkspace, EngineBoundary

CONSTANT MaxSends       \* bound: submissions in one session

ASSUME MaxSendsAssumption == MaxSends \in Nat \ {0}

VARIABLES
    ui,         \* the window
    engine,     \* the rules engine
    sent,       \* history: every submission made, in order
    logStart,   \* history: the cursor the shown event log starts from
    closed      \* the window was closed after a fatal error

vars == <<ui, engine, sent, logStart, closed>>

Views == [viewer : Player, rev : Nat \ {0}]

ASSUME NoViewAssumption == None \notin Views

ButtonKinds ==
    {"finite_option", "select_unit", "placement_submit", "placement_next_model",
     "placement_clear", "assignment_submit", "assignment_decline", "assignment_clear",
     "assignment_select"}

(* request_id of the region is kept as drawn; the handler ignores it *)
Buttons ==
    {b \in [kind : ButtonKinds, ref : OptionId \cup Unit \cup {None}, request : Nat] :
        b.kind = "select_unit" => b.ref \in Unit}

Window ==
    [fs : FiniteState,                          \* _finite_state
     viewer : Player \cup {None},               \* _viewer_player_id, None for "none"
     view : Views \cup {None},                  \* _last_game_view
     unit : Unit \cup {None},                   \* _selection_state.selected_unit_id
     model : Model \cup {None},                 \* _selection_state.selected_model_id
     movement : MovementDrafts \cup {None},     \* _movement_draft
     placement : PlacementDrafts \cup {None},   \* _placement_draft
     assignment : Workspaces \cup {None},       \* _assignment_workspace
     hudLines : Seq(Nat),                       \* _battlefield_view.hud.event_log_lines
     drawn : SUBSET Buttons,                    \* _hud_button_hit_regions, the enabled ones
     fatal : BOOLEAN]                           \* _fatal_exit_deadline_monotonic is set

(* What a submission carried: the id it answers, and what it was made from *)
Sends ==
    [result : Nat,                              \* ui-result-N
     request : Nat,                             \* request_id of the message
     draftedFor : Nat,                          \* request its content was drafted for
     draftedAt : Nat,                           \* projection its content was drafted on
     choice : OptionId \cup {None},             \* the finite option, or None for a payload
     viewer : Player \cup {None}]

TypeOK ==
    /\ ui \in Window
    /\ engine \in EngineState
    /\ sent \in Seq(Sends)
    /\ logStart \in Nat
    /\ closed \in BOOLEAN

-----------------------------------------------------------------------------
(* Synchronising the editors with the pending decision *)

ProjectionHash(u) == IF u.view = None THEN 0 ELSE u.view.rev

Selecting(u, unit, model) == [u EXCEPT !.unit = unit, !.model = model]

(* _sync_selection_to_highlighted_option: a highlighted unit is selected *)
FocusHighlighted(u) ==
    IF HighlightedOption(u.fs) \in Unit
    THEN Selecting(u, HighlightedOption(u.fs), None) ELSE u

WithMovement(u, draft) ==
    Selecting([u EXCEPT !.movement = draft, !.placement = None, !.assignment = None],
              draft.unit, FirstOf(draft.active))

SyncMovement(u) ==
    LET next == StartMovement(u.fs.pending, ProjectionHash(u), u.unit, u.model)
    IN  IF u.movement # None /\ IsForMovement(u.movement, u.unit, u.fs.pending, ProjectionHash(u))
        THEN u
        ELSE IF MovementStartRaises(u.fs.pending)
        THEN [u EXCEPT !.movement = None, !.fs = LocalInvalid(u.fs)]
        ELSE IF next # None THEN WithMovement(u, next)
        ELSE [u EXCEPT !.movement = None]

WithPlacement(u, draft) ==
    Selecting([u EXCEPT !.placement = draft, !.movement = None, !.assignment = None],
              draft.unit, draft.cur)

SyncPlacement(u) ==
    LET next == StartPlacement(u.fs.pending, ProjectionHash(u))
    IN  IF u.placement # None /\ MatchesPlacement(u.placement, u.fs.pending, ProjectionHash(u))
        THEN u
        ELSE IF PlacementStartRaises(u.fs.pending)
        THEN [u EXCEPT !.placement = None, !.fs = LocalInvalid(u.fs)]
        ELSE IF next # None THEN WithPlacement(u, next)
        ELSE [u EXCEPT !.placement = None]

SyncAssignment(u) ==
    LET next == StartAssignment(u.fs.pending)
    IN  IF u.assignment # None /\ IsForAssignment(u.assignment, u.fs.pending) THEN u
        ELSE IF next # None
        THEN [u EXCEPT !.assignment = next, !.movement = None, !.placement = None]
        ELSE [u EXCEPT !.assignment = None]

SyncEditors(u) == SyncAssignment(SyncPlacement(SyncMovement(u)))

(* The HUD keeps its old lines when the state has none *)
HudLines(old, fs) == IF fs.log = << >> THEN old ELSE fs.log

SetFinite(u, fs) ==
    SyncEditors(FocusHighlighted([u EXCEPT !.fs = fs, !.hudLines = HudLines(u.hudLines, fs)]))

(* _fatal_game_engine_state and what it clears, then the state is set *)
Fatal(u) ==
    SetFinite([u EXCEPT !.movement = None, !.placement = None, !.assignment = None,
                        !.unit = None, !.model = None, !.hudLines = << >>, !.view = None,
                        !.viewer = None, !.drawn = {}, !.fatal = TRUE],
              WithFatalError(WithoutEvents(u.fs)))

-----------------------------------------------------------------------------
(* Submitting, and refreshing the projection from the answer *)

(* mutant: the projection stays the last viewer's *)
RefreshSameViewer(decision, fallback) == fallback

(* The viewer whose projection is loaded: the actor of the next decision *)
RefreshViewer(decision, fallback) ==
    IF decision = None \/ decision.form.actor = None THEN fallback ELSE decision.form.actor

(* refresh_submission_projection, with e the engine at that time *)
Refreshed(fs, status, e, viewer) ==
    LET decision == StatusDecision(e, viewer)
        next     == RefreshViewer(decision, viewer)
        start    == IF next # viewer THEN WithoutEvents(fs) ELSE fs
        shown    == WithView(WithStatus(start, status, decision), ProjectedDecision(e, next))
    IN  [fs   |-> WithEvents(shown, EventsSince(e, shown.cursor, next), Len(e.stream[next])),
         view |-> [viewer |-> next, rev |-> e.rev]]

(* mutant: another viewer keeps the selection and the shown event lines *)
WithGameViewOnly(u, view, fs) ==
    [u EXCEPT !.view = view, !.viewer = view.viewer, !.hudLines = HudLines(u.hudLines, fs)]

(* _apply_refreshed_game_view: another viewer's selection and drafts go *)
WithGameView(u, view, fs) ==
    LET switched == u.view # None /\ u.view.viewer # view.viewer
        kept     == IF switched
                    THEN Selecting([u EXCEPT !.fs = fs, !.movement = None, !.placement = None,
                                             !.assignment = None], None, None)
                    ELSE u
    IN  [kept EXCEPT !.view = view, !.viewer = view.viewer,
                     !.hudLines = HudLines(IF switched THEN << >> ELSE u.hudLines, fs)]

(* A finite submission shows the first answer as it is *)
DirectAnswers(e) ==
    {[submitted |-> r.status, status |-> r.status, engine |-> r.engine] : r \in Responses(e)}

(* The answers a draft's submission may end with: an applied action is      *)
(* continued until the engine asks again or is done.                        *)
ContinuedAnswers(e) ==
    {[submitted |-> r.status, status |-> r.status, engine |-> r.engine] :
        r \in {q \in Responses(e) : q.status # "advanced"}}
    \cup UNION {{[submitted |-> "advanced", status |-> c.status, engine |-> c.engine] :
                    c \in Continuations(r.engine)} :
                r \in {q \in Responses(e) : q.status = "advanced"}}

KeepsRejectedMovement(u, a, r) ==
    /\ a.submitted = "invalid"
    /\ r.fs.pending # None
    /\ r.fs.pending.id = u.movement.req

AfterMovement(u, a) ==
    LET r == Refreshed(Submitting(u.fs), a.status, a.engine, u.viewer)
        v == WithGameView(u, r.view, r.fs)
        w == IF ~KeepsRejectedMovement(u, a, r) THEN [v EXCEPT !.movement = None]
             ELSE IF v.movement # None
                  THEN [v EXCEPT !.movement = MovementReadyCleared(v.movement)] ELSE v
    IN  SetFinite(w, r.fs)

(* The draft goes whatever the answer was *)
AfterPlacement(u, a) ==
    LET r == Refreshed(Submitting(u.fs), a.status, a.engine, u.viewer)
        v == WithGameView(u, r.view, r.fs)
    IN  SetFinite([v EXCEPT !.placement = None], r.fs)

AfterAssignment(u, a) ==
    LET r == Refreshed(Submitting(u.fs), a.status, a.engine, u.viewer)
        v == WithGameView(u, r.view, r.fs)
    IN  SetFinite(IF a.submitted = "invalid" THEN v ELSE [v EXCEPT !.assignment = None], r.fs)

AfterFinite(u, a) ==
    LET r == Refreshed(Submitting(u.fs), a.status, a.engine, u.viewer)
    IN  SetFinite(WithGameView(u, r.view, r.fs), r.fs)

(* A locally refused submission only shows a diagnostic *)
Refused(u) == SetFinite(u, LocalInvalid(u.fs))

(* The ladder of guards of prepare_movement_submission *)
MovementSendable(u) ==
    /\ u.movement # None
    /\ u.fs.pending # None
    /\ u.fs.pending.form.parameterized
    /\ RoutedTo(u.fs.pending, "movement")
    /\ MatchesMovement(u.movement, u.fs.pending, ProjectionHash(u))
    /\ MovementReady(u.movement)

PlacementSendable(u) ==
    /\ u.placement # None
    /\ u.fs.pending # None
    /\ u.fs.pending.form.parameterized
    /\ RoutedTo(u.fs.pending, "placement")
    /\ MatchesPlacement(u.placement, u.fs.pending, ProjectionHash(u))
    /\ PlacementReady(u.placement)

AssignmentSendable(u, decline) ==
    /\ u.assignment # None
    /\ u.fs.pending # None
    /\ u.fs.pending.form.parameterized
    /\ IsForAssignment(u.assignment, u.fs.pending)
    /\ IF decline THEN u.assignment.declinable ELSE u.assignment.complete

-----------------------------------------------------------------------------
(* What a client call may do to the window and the engine together         *)

(* A call that raises leaves the engine wherever it had got to: before the  *)
(* submission, or after it; the window gives up its game state.             *)
Failures(u, e, answers) ==
    {[ui |-> Fatal(u), engine |-> n] :
        n \in {e} \cup {a.engine : a \in answers} \cup Applied(e)}

MovementOutcomes(u, e) ==
    {[ui |-> AfterMovement(u, a), engine |-> a.engine] : a \in ContinuedAnswers(e)}
    \cup Failures(u, e, ContinuedAnswers(e))

PlacementOutcomes(u, e) ==
    {[ui |-> AfterPlacement(u, a), engine |-> a.engine] : a \in ContinuedAnswers(e)}
    \cup Failures(u, e, ContinuedAnswers(e))

AssignmentOutcomes(u, e) ==
    {[ui |-> AfterAssignment(u, a), engine |-> a.engine] : a \in ContinuedAnswers(e)}
    \cup Failures(u, e, ContinuedAnswers(e))

FiniteOutcomes(u, e) ==
    {[ui |-> AfterFinite(u, a), engine |-> a.engine] : a \in DirectAnswers(e)}
    \cup Failures(u, e, DirectAnswers(e))

-----------------------------------------------------------------------------
(* One form of step each for handlers that do not and that do submit       *)

(* Another viewer's log starts over *)
LogStartAfter(u, start) == IF u.viewer # ui.viewer THEN 0 ELSE start

Locally(u) ==
    /\ ui' = u
    /\ logStart' = LogStartAfter(u, logStart)
    /\ UNCHANGED <<engine, sent, closed>>

SendRecord(draftedFor, draftedAt, choice) ==
    [result |-> ui.fs.next, request |-> ui.fs.pending.id, draftedFor |-> draftedFor,
     draftedAt |-> draftedAt, choice |-> choice, viewer |-> ui.viewer]

Sent(record, outcomes) ==
    /\ Len(sent) < MaxSends
    /\ sent' = Append(sent, record)
    /\ \E o \in outcomes :
        /\ ui' = o.ui
        /\ engine' = o.engine
        /\ logStart' = LogStartAfter(o.ui, logStart)
    /\ UNCHANGED closed

SubmitMovement ==
    IF MovementSendable(ui)
    THEN Sent(SendRecord(ui.movement.req, ui.movement.rev, None), MovementOutcomes(ui, engine))
    ELSE Locally(Refused(ui))

SubmitPlacement ==
    IF PlacementSendable(ui)
    THEN Sent(SendRecord(ui.placement.req, ui.placement.rev, None),
              PlacementOutcomes(ui, engine))
    ELSE Locally(Refused(ui))

SubmitAssignment(decline) ==
    IF AssignmentSendable(ui, decline)
    THEN Sent(SendRecord(ui.assignment.req, 0, None), AssignmentOutcomes(ui, engine))
    ELSE Locally(Refused(ui))

(* choice None: the highlighted option.  Nothing pending, nothing happens. *)
SubmitFinite(choice) ==
    /\ ui.fs.pending # None
    /\ IF ChosenOption(ui.fs, choice) # None
       THEN Sent(SendRecord(ui.fs.pending.id, 0, ChosenOption(ui.fs, choice)),
                 FiniteOutcomes(ui, engine))
       ELSE Locally(Refused(ui))

-----------------------------------------------------------------------------
(* The session starts when the client has brought the engine to a decision, *)
(* shown to its actor: the log is empty and starts where the stream is.     *)

StartWindow(e, viewer) ==
    SyncAssignment(FocusHighlighted(
        [fs |-> InitFiniteState("waiting_for_decision", e.req, Len(e.stream[viewer])),
         viewer |-> viewer, view |-> [viewer |-> viewer, rev |-> e.rev],
         unit |-> None, model |-> None, movement |-> None, placement |-> None,
         assignment |-> None, hudLines |-> << >>, drawn |-> {}, fatal |-> FALSE]))

StartEngines ==
    {[req |-> [id |-> 1, form |-> f], issued |-> 1, rev |-> 1,
      recorded |-> 1, stream |-> [p \in Player |-> IF p \in a THEN <<1>> ELSE << >>],
      over |-> FALSE] : f \in Forms, a \in Audiences}

Init ==
    /\ engine \in StartEngines
    /\ \E viewer \in Player :
        /\ engine.req.form.actor \in {None, viewer}
        /\ ui = StartWindow(engine, viewer)
        /\ logStart = Len(engine.stream[viewer])
    /\ sent = << >>
    /\ closed = FALSE

-----------------------------------------------------------------------------
(* Keys: ignored once the window shows a fatal error                       *)

KeysListen == ~closed /\ ~ui.fatal

NoDraft == ui.movement = None /\ ui.placement = None

CycleSelection ==
    /\ KeysListen
    /\ \/ /\ FiniteOptions(ui.fs) # << >>
          /\ Locally(SetFinite(ui, CycledOption(ui.fs)))
       \/ /\ FiniteOptions(ui.fs) = << >>
          /\ ui.movement # None
          /\ Locally([ui EXCEPT !.movement = WithSelection(@, @.active)])
       \/ /\ FiniteOptions(ui.fs) = << >>
          /\ ui.movement = None /\ ui.placement # None
          /\ LET next == WithNextModel(ui.placement)
             IN  Locally(Selecting([ui EXCEPT !.placement = next], next.unit, next.cur))
       \/ /\ FiniteOptions(ui.fs) = << >>
          /\ NoDraft
          /\ \E u \in Unit, m \in Model : Locally(Selecting(ui, u, m))

(* Layer, group, add, subtract and toggle commands *)
SelectMovers(models) ==
    /\ KeysListen
    /\ ui.movement # None
    /\ Locally([ui EXCEPT !.movement = WithSelection(@, models)])

Confirm ==
    /\ KeysListen
    /\ \/ /\ ui.movement # None
          /\ MovementReady(ui.movement)
          /\ SubmitMovement
       \/ /\ ui.movement # None
          /\ ~MovementReady(ui.movement)
          /\ ui.movement.preview => HasRoom(ui.movement)
          /\ \E moves \in BOOLEAN : Locally([ui EXCEPT !.movement = MovementMarkedReady(@, moves)])
       \/ /\ ui.movement = None /\ ui.placement # None
          /\ IF PlacementReady(ui.placement)
             THEN SubmitPlacement
             ELSE Locally([ui EXCEPT !.placement = PlacementMarkedReady(@)])
       \/ /\ NoDraft
          /\ ui.assignment # None
          /\ SubmitAssignment(FALSE)
       \/ /\ NoDraft /\ ui.assignment = None
          /\ ui.fs.pending # None
          /\ ui.fs.pending.form.proposal = "movement"
          /\ LET u == SyncMovement(ui)
             IN  Locally(IF u.movement = None THEN Refused(u) ELSE u)
       \/ /\ NoDraft /\ ui.assignment = None
          /\ ui.fs.pending # None => ui.fs.pending.form.proposal # "movement"
          /\ SubmitFinite(None)

(* A first cancel clears the selection of a draft whose paths move *)
CancelledMovement(draft, moves) ==
    IF draft # None /\ HasAssignments(draft, moves) /\ draft.active # {}
    THEN WithSelection(draft, {}) ELSE None

Cancel ==
    /\ KeysListen
    /\ \E moves \in BOOLEAN :
          Locally([ui EXCEPT !.movement = CancelledMovement(@, moves), !.placement = None,
                             !.assignment = None])

-----------------------------------------------------------------------------
(* Mouse on the table: nothing of it asks whether the error is fatal       *)

MoveCursor ==
    /\ ~closed
    /\ ui.movement # None
    /\ Locally([ui EXCEPT !.movement = WithPreview(@)])

ClickMover(m) ==
    /\ ~closed
    /\ ui.movement # None
    /\ LET draft == ui.movement
       IN  \E models \in {{m}, draft.active \cup {m}, draft.active \ {m}} :
             Locally(Selecting([ui EXCEPT !.movement = WithSelection(draft, models)],
                               draft.unit, m))

AddWaypoint ==
    /\ ~closed
    /\ ui.movement # None
    /\ HasRoom(ui.movement)
    /\ Locally([ui EXCEPT !.movement = WithWaypoint(@)])

RemoveWaypoint ==
    /\ ~closed
    /\ ui.movement # None
    /\ Locally([ui EXCEPT !.movement = WithoutLastWaypoint(@)])

PlaceModel(spot) ==
    /\ ~closed
    /\ ui.movement = None /\ ui.placement # None
    /\ LET next == WithModelPlaced(ui.placement, spot)
       IN  Locally(Selecting([ui EXCEPT !.placement = next], next.unit, next.cur))

(* A click on a model, or on the empty table, with no draft in the way *)
SelectAt(unit, model) ==
    /\ ~closed
    /\ NoDraft
    /\ unit # None => ~ui.fatal
    /\ LET picked == Selecting(ui, unit, model)
       IN  Locally(SyncEditors([picked EXCEPT !.fs = WithHighlightForUnit(ui.fs, unit)]))

(* The selected unit's menu offers the options of a finite decision on it; *)
(* a disabled one is refused.                                              *)
ContextMenu(option) ==
    /\ ~closed
    /\ Offers(ui.fs, option)
    /\ ui.unit # None /\ ui.fs.pending.form.unit = ui.unit
    /\ SubmitFinite(option) \/ Locally(Refused(ui))

-----------------------------------------------------------------------------
(* HUD buttons: hit regions of the last frame, whatever has changed since  *)

Pressed(kind) == {b \in ui.drawn : b.kind = kind}

PressFiniteOption ==
    /\ ~closed
    /\ \E b \in Pressed("finite_option") : Locally(SetFinite(ui, WithHighlight(ui.fs, b.ref)))

(* mutant: the editors are not synchronised with the selection *)
SelectUnitOnly(u, unit) == Selecting(u, unit, None)

SelectUnitFromHud(u, unit) ==
    IF Offers(u.fs, unit)
    THEN SetFinite(Selecting(u, unit, None), WithHighlightForUnit(u.fs, unit))
    ELSE IF u.movement # None /\ u.movement.unit = unit
    THEN Selecting([u EXCEPT !.movement = WithSelection(@, {1})], unit, 1)
    ELSE SyncEditors(Selecting(u, unit, None))

PressSelectUnit ==
    /\ ~closed
    /\ \E b \in Pressed("select_unit") : Locally(SelectUnitFromHud(ui, b.ref))

PressPlacementSubmit ==
    /\ ~closed
    /\ ui.placement # None
    /\ Pressed("placement_submit") # {}
    /\ IF PlacementReady(ui.placement)
       THEN SubmitPlacement
       ELSE Locally([ui EXCEPT !.placement = PlacementMarkedReady(@)])

PressPlacementNext ==
    /\ ~closed
    /\ ui.placement # None
    /\ Pressed("placement_next_model") # {}
    /\ LET next == WithNextModel(ui.placement)
       IN  Locally(Selecting([ui EXCEPT !.placement = next], next.unit, next.cur))

PressPlacementClear ==
    /\ ~closed
    /\ Pressed("placement_clear") # {}
    /\ Locally([ui EXCEPT !.placement = None])

PressAssignmentSubmit ==
    /\ ~closed
    /\ Pressed("assignment_submit") # {}
    /\ SubmitAssignment(FALSE)

PressAssignmentDecline ==
    /\ ~closed
    /\ Pressed("assignment_decline") # {}
    /\ SubmitAssignment(TRUE)

EditsStratagem(work) == work.kind = "stratagem" /\ work.editable

ClearedAssignment(u, complete) ==
    IF u.assignment = None \/ u.fs.pending = None THEN None
    ELSE IF u.assignment.kind = "melee" \/ EditsStratagem(u.assignment)
    THEN StartAssignment(u.fs.pending)
    ELSE IF u.assignment.kind = "shooting" THEN WithChoice(u.assignment, complete)
    ELSE None

PressAssignmentClear ==
    /\ ~closed
    /\ Pressed("assignment_clear") # {}
    /\ \E complete \in BOOLEAN :
        Locally([ui EXCEPT !.assignment = ClearedAssignment(ui, complete)])

(* A row of another request is unknown.  A Stratagem's target is the        *)
(* selected unit, if friendly; another row may select its own target.       *)
PressAssignmentSelect ==
    /\ ~closed
    /\ \E b \in Pressed("assignment_select") :
       \/ /\ ui.assignment # None => b.request # ui.assignment.req
          /\ Locally(Refused(ui))
       \/ /\ ui.assignment # None
          /\ EditsStratagem(ui.assignment)
          /\ \/ Locally(Refused(ui))
             \/ /\ ui.unit # None
                /\ \E complete \in BOOLEAN :
                      Locally([ui EXCEPT !.assignment = WithChoice(@, complete)])
       \/ /\ ui.assignment # None
          /\ ~EditsStratagem(ui.assignment)
          /\ \E complete \in BOOLEAN, unit \in Unit \cup {ui.unit} :
                LET chosen == IF ui.assignment.kind = "stratagem"
                              THEN ui.assignment ELSE WithChoice(ui.assignment, complete)
                IN  Locally(Selecting([ui EXCEPT !.assignment = chosen], unit,
                                      IF unit = ui.unit THEN ui.model ELSE None))

-----------------------------------------------------------------------------
(* Frames and the end                                                      *)

Button(u, kind, ref) ==
    [kind |-> kind, ref |-> ref, request |-> IF u.fs.pending = None THEN 0 ELSE u.fs.pending.id]

PlacementButtons(u) ==
    {b \in {Button(u, k, None) : k \in {"placement_submit", "placement_next_model", "placement_clear"}} :
        /\ b.kind = "placement_submit" => AllPlaced(u.placement)
        /\ b.kind = "placement_next_model" => NModels > 1 /\ ~PlacementReady(u.placement)}

AssignmentButtons(u) ==
    {b \in {Button(u, k, None) : k \in {"assignment_submit", "assignment_decline",
                                        "assignment_clear", "assignment_select"}} :
        /\ b.kind = "assignment_submit" => u.assignment.complete
        /\ b.kind = "assignment_decline" => u.assignment.declinable
        /\ b.kind = "assignment_clear" => u.assignment.editable}

FiniteButtons(u) ==
    {Button(u, "finite_option", FiniteOptions(u.fs)[i]) : i \in DOMAIN FiniteOptions(u.fs)}

RosterButtons(u) == IF u.fatal THEN {} ELSE {Button(u, "select_unit", x) : x \in Unit}

ActionButtons(u) ==
    IF u.placement # None THEN PlacementButtons(u)
    ELSE IF u.assignment # None THEN AssignmentButtons(u)
    ELSE FiniteButtons(u)

Draw ==
    /\ ~closed
    /\ Locally([ui EXCEPT !.drawn = ActionButtons(ui) \cup RosterButtons(ui)])

(* mutant: the deadline is looked at only while a projection is loaded *)
CloseWithView ==
    /\ ~closed
    /\ ui.fatal /\ ui.view # None
    /\ closed' = TRUE
    /\ UNCHANGED <<ui, engine, sent, logStart>>

(* on_update, once the fatal error has been shown for its time *)
Close ==
    /\ ~closed
    /\ ui.fatal
    /\ closed' = TRUE
    /\ UNCHANGED <<ui, engine, sent, logStart>>

Next ==
    \/ CycleSelection
    \/ \E models \in SUBSET Model : SelectMovers(models)
    \/ Confirm
    \/ Cancel
    \/ MoveCursor
    \/ \E m \in Model : ClickMover(m)
    \/ AddWaypoint
    \/ RemoveWaypoint
    \/ \E spot \in Spot \ {0} : PlaceModel(spot)
    \/ \E u \in Unit, m \in Model : SelectAt(u, m)
    \/ SelectAt(None, None)
    \/ \E o \in OptionId : ContextMenu(o)
    \/ PressFiniteOption
    \/ PressSelectUnit
    \/ PressPlacementSubmit
    \/ PressPlacementNext
    \/ PressPlacementClear
    \/ PressAssignmentSubmit
    \/ PressAssignmentDecline
    \/ PressAssignmentClear
    \/ PressAssignmentSelect
    \/ Draw
    \/ Close

Spec == Init /\ [][Next]_vars

(* The window's clock calls on_update; nothing obliges the user to act *)
FairSpec == Spec /\ WF_vars(Close)

-----------------------------------------------------------------------------
(* What the session promises                                               *)

(* Outside a fatal error the window shows what the engine awaits, as the    *)
(* player who has to answer sees it, in its current state, with the events  *)
(* read up to now: refresh_submission_projection makes four client calls    *)
(* and follows the actor from viewer to viewer.                             *)
InStep ==
    ~ui.fatal =>
        /\ ui.fs.pending = engine.req
        /\ ui.view = [viewer |-> ui.viewer, rev |-> engine.rev]
        /\ ui.fs.cursor = Len(engine.stream[ui.viewer])

(* At most one local editor is open, and it is the one for the pending      *)
(* request and the shown projection; a movement draft is about the selected *)
(* unit.  Every handler that changes one side has to re-synchronise.        *)
EditorsBound ==
    /\ (ui.movement # None \/ ui.placement # None \/ ui.assignment # None) =>
        ui.fs.pending # None /\ ui.view # None
    /\ ui.movement # None =>
        /\ ui.placement = None /\ ui.assignment = None
        /\ ui.movement.req = ui.fs.pending.id
        /\ ui.movement.unit = ui.fs.pending.form.unit /\ ui.movement.unit = ui.unit
        /\ ui.movement.rev = ui.view.rev
    /\ ui.placement # None =>
        /\ ui.assignment = None
        /\ ui.placement.req = ui.fs.pending.id
        /\ ui.placement.unit = ui.fs.pending.form.unit
        /\ ui.placement.rev = ui.view.rev
    /\ ui.assignment # None =>
        /\ ui.assignment.req = ui.fs.pending.id
        /\ ui.assignment.kind = ui.fs.pending.form.proposal

(* What is submitted answers the request the engine awaits, for its actor,  *)
(* with an option it offers or a payload drafted for this very request and, *)
(* for a physical proposal, on the engine's current state.                  *)
AnswersCurrent ==
    [][sent' # sent =>
        LET s == sent'[Len(sent')]
        IN  /\ engine.req # None
            /\ s.request = engine.req.id /\ s.draftedFor = engine.req.id
            /\ engine.req.form.actor \in {None, s.viewer}
            /\ s.draftedAt \in {0, engine.rev}
            /\ s.choice # None =>
                  \E i \in DOMAIN engine.req.form.options : engine.req.form.options[i] = s.choice]_vars

(* No two submissions carry the same result id, although the counter is     *)
(* rolled back when a submission ends in a fatal error.                     *)
ResultIdsUnique ==
    \A i, j \in DOMAIN sent : sent[i].result = sent[j].result => i = j

(* The event log is the end of what the current viewer's own stream holds   *)
(* since the log began: nothing lost, doubled, or another viewer's; and the *)
(* HUD, which keeps old lines when a state has none, shows only its events. *)
ViewerEventsOnly ==
    /\ ui.fs.log = IF ui.fatal THEN << >>
                   ELSE LastOf(SubSeq(engine.stream[ui.viewer], logStart + 1, ui.fs.cursor), LogCap)
    /\ \A i \in DOMAIN ui.hudLines :
        /\ ~ui.fatal
        /\ \E k \in DOMAIN engine.stream[ui.viewer] : engine.stream[ui.viewer][k] = ui.hudLines[i]

(* After a fatal error no input reaches the engine or brings anything of    *)
(* the game back to the screen, though mouse handlers do not check for it.  *)
FatalIsQuiet ==
    [][ui.fatal => UNCHANGED <<ui, engine, sent>>]_vars

(* What Enter will send is what was reviewed: no edit, selection, cancel or *)
(* rejection leaves a payload behind that is not the drawn draft.           *)
PayloadIsShown ==
    /\ ui.movement # None /\ MovementReady(ui.movement) =>
        /\ ui.movement.payload = ui.movement.way
        /\ ~ui.movement.preview
        /\ HasPaths(ui.movement) \/ ui.movement.noMove
    /\ ui.placement # None /\ PlacementReady(ui.placement) =>
        /\ ui.placement.payload = ui.placement.pose
        /\ AllPlaced(ui.placement)

(* A rejected movement that leaves the request and the state as they were   *)
(* keeps the drafted paths, to be corrected and reviewed again.             *)
RejectedMovementKeepsPaths ==
    [][(sent' # sent /\ ui.movement # None /\ ~ui'.fatal
        /\ engine'.req = engine.req /\ engine'.rev = engine.rev) =>
            /\ ui'.movement # None
            /\ ui'.movement.way = ui.movement.way
            /\ ~MovementReady(ui'.movement)]_vars

(* While the same request stays pending, an answer of the engine leaves the *)
(* highlighted option, and so what Enter would send, where it was.          *)
RejectionKeepsHighlight ==
    [][(sent' # sent /\ ~ui'.fatal /\ ui'.fs.pending = ui.fs.pending) =>
            HighlightedOption(ui'.fs) = HighlightedOption(ui.fs)]_vars

(* The highlighted index is one of the options of the pending decision, or  *)
(* 0 when it has none, although it outlives presses, rejections and viewer  *)
(* switches: options[index] is read on every frame (highlighted_option).    *)
HighlightExists ==
    ui.fs.hl \in {0} \cup (0 .. Len(FiniteOptions(ui.fs)) - 1)

(* A request that becomes pending starts at its first option, wherever the  *)
(* highlight was in the one before: what Enter sends was never chosen for   *)
(* another request.                                                         *)
FocusStartsOver ==
    [][(ui'.fs.pending # None /\ (ui.fs.pending = None \/ ui'.fs.pending.id # ui.fs.pending.id)) =>
            ui'.fs.hl = 0]_vars

(* When the loaded projection becomes another player's, nothing the former  *)
(* one had selected stays selected.                                         *)
SwitchForgetsSelection ==
    [][(ui'.viewer # ui.viewer /\ ui'.unit # None) =>
            \/ ui'.unit = HighlightedOption(ui'.fs)
            \/ ui'.movement # None /\ ui'.movement.unit = ui'.unit
            \/ ui'.placement # None /\ ui'.placement.unit = ui'.unit]_vars

(* Drafted submissions are continued until the engine asks again or is      *)
(* done: it is left waiting to be advanced only by a finite submission.     *)
NeverStranded ==
    (Working(engine) /\ ~ui.fatal) => (sent # << >> /\ sent[Len(sent)].choice # None)

(* A finite submission is continued as well (the name of the test           *)
(* test_submission_continues_only_after_authoritative_advanced_status).     *)
AdvancedIsContinued == ~ui.fatal => ~Working(engine)

(* A fatal error closes the window.                                         *)
FatalCloses == ui.fatal ~> closed

(* Rejected placement poses stay for correction (finished phase 28 plan).   *)
RejectedPlacementKeepsPoses ==
    [][(sent' # sent /\ ui.placement # None /\ ~ui'.fatal
        /\ engine'.req = engine.req /\ engine'.rev = engine.rev) =>
            ui'.placement # None /\ ui'.placement.pose = ui.placement.pose]_vars

(* Rejected movement paths are taken over when the engine asks afresh for   *)
(* the same unit and move (architecture.md on phase 10).                    *)
RejectedPathsAreReused ==
    [][(sent' # sent /\ ui.movement # None /\ ~ui'.fatal /\ ui'.fs.status = "invalid"
        /\ engine'.req # None /\ engine'.req.form = engine.req.form
        /\ engine'.rev = engine.rev) =>
            ui'.movement # None /\ ui'.movement.way = ui.movement.way]_vars
=============================================================================
