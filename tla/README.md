# A TLA+ model of the Warhammer 40k Arcade UI

The program is a desktop client for a rules engine (`warhammer40k-core-v2`, another
package). It shows the engine's projection of a game for one player, lets that player
answer the decision the engine awaits, and follows the engine to the next decision and the
next player. The engine owns the rules and the state; the UI owns drafts, selection and
focus. What has to be right in the UI is therefore its *protocol*: that what it shows is what
the engine awaits, that what it sends was drafted for the request that is pending and reviewed
by the player, that none of it survives a rejection, a change of viewer or a failure in a
shape that is wrong, and that a launch ends in a window on the right decision or in a report
of what went wrong. This directory models that protocol.

All code is under `src/src/warhammer40k_arcade_ui/`; paths below are relative to it.

## 1. Inventory

| Part | State it keeps | Operations | Correct when |
|---|---|---|---|
| Rules engine (external) | awaited decision, state, event streams | start, submit, advance, view, events since a cursor | assumed, see section 5 |
| `core_client/local_session_client.py` | last viewer, rules catalog cache | one method per engine call; projects a status as its actor sees it | the status, the view and the events of one refresh belong together |
| `core_client/protocol.py` | none | strict parsing of payloads | refuses what it does not know; a refusal is a client call that raises |
| `state/interaction_dispatch.py` | none | decision to editor | every decision has one editor, unsupported ones none |
| `state/finite_decision.py` | pending decision, highlighted option, status line, event cursor and log, result counter | cycle, highlight, prepare, submit, apply status, view and events | focus survives exactly while the request does; ids are unique |
| `state/entity_selection.py` | selected refs, focus, active layer, the profile of a request | replace, add, subtract, toggle, cycle, reconcile | only candidates of the request, no more than it allows |
| `state/movement_draft.py` | paths, assignment groups, preview, reviewed payload | start, select, preview, add and remove waypoints, review | the payload is the drawn draft; groups follow the paths |
| `state/placement_draft.py` | poses, current model, reviewed payload | start from a request and two views, place, next, review | as above; owners, units and armies agree |
| `state/assignment_workspace.py` | declaration rows, payload, decline | start, choose, clear | offered choices, but for one default (section 4), one per weapon or model |
| `state/*_submission.py` | none | guards, submit, continue, refresh, keep or drop the draft | never sends a stale draft; ends at a decision or at the end of the game |
| `state/selection.py` | selected unit and model, overlays, context menu | select, cycle through overlapping bases, clear | known units and registered overlays, the draft's unit |
| `render/arcade_window.py` | all of the above, hit regions, fatal deadline | one handler per key, mouse and HUD event, `on_draw`, `on_update` | the parts agree after every handler |
| `hud/dice_tray.py` | none; reads the bounded tail of event payloads | the newest roll with its rerolls, a pending reroll | the faces shown are the faces rolled |
| `preferences/*` | parsed preferences | read with diagnostics, defaults, write back, hotkeys | reads what it writes; a hint names a key that works |
| `diagnostics/forensic_trace.py` | configuration, trace file and one rotated file, sequence number | resolve settings, filter, write a row, rotate, wrap the client | a row before and after every call, as far as the filters let them; the newest rows kept |
| `diagnostics/crash_report.py` | none | write a bundle with the tail of the trace | the tail ends with the failure |
| `core_client/live_smoke.py` | loop index, last status | plays the set-up to a checkpoint, then opens the window | hands over a decision of one game and its actor; always ends |
| `main.py`, `app.py` | crash hook, window | configure, start, open, fail | every failure after the hook has a report |
| `hud/*` otherwise, `render/*` otherwise | none between frames, except scroll offsets and camera | layout, drawing | |
| `core_client/fake_client.py`, `debug_fixtures.py`, `resources/`, `config.py` | none | tests, files | |

**How the parts interact.** Everything runs in one thread: Arcade calls a handler of the
window, the handler calls the state modules and the client synchronously, and returns. There is
no concurrency inside a handler. What makes the behaviour hard is that

* the *user* acts in any order, and HUD buttons are hit regions of the frame drawn last, which
  may be about a decision that is no longer pending;
* every submission is several client calls (submit, continue, view, events), the engine changes
  with the first of them and the viewer may change with each;
* any of these calls may raise, with the engine already changed, and the window then rolls its
  own state back to before the submission; the tracing wrapper around them may raise too,
  before or after the engine has taken the answer;
* an answer may be accepted, rejected with the request kept, rejected with a fresh request,
  accepted without the engine having been advanced, or the last of the game;
* three editors, the selection, the focus of the finite options, the projection, the HUD lines
  and the hit regions live in separate attributes that each handler has to keep consistent;
* a draft is edited in long sequences (layers, groups, previews, removals) and what is reviewed
  is computed by other code than what is drawn;
* the same fact is read from several places: the owner of a model from the request, the display
  and the physical view, the dice of a roll from the result and the reroll records.

The hazards that follow from this are listed, at their lines, in `PROJECT.json`.

## 2. Modules

The session, which composes the parts that change together:

| Module | Models | Constants |
|---|---|---|
| `Protocol` | `core_client/protocol.py`, `state/interaction_dispatch.py`: decisions, what a viewer sees of them, the editor they are routed to | players, units, options, request forms, models per unit |
| `FiniteDecision` | `FiniteDecisionUiState`, one operator per method | `LogCap` |
| `MovementDraft` | a movement draft as the session sees it: a path is its number of waypoints; whether one of them leads away from its start, which reviewing and cancelling ask, is left open (`MovementWorkspace` decides it from the positions) | `MaxWay` |
| `PlacementDraft` | a placement draft as the session sees it: a pose is one of a few spots | `MaxSpot` |
| `AssignmentWorkspace` | the workspace's binding to a request and whether its declaration is complete | |
| `EngineBoundary` | the engine as the client can see it (external), and the client's projections | `MaxRequests`, `MaxEvents`, `Audiences` |
| `UiSession` | the window composed with all of these: state, handlers, submissions, refresh, fatal error, properties | `MaxSends` |

The editors in detail, each for one request after another or for one request at a time:

| Module | Models | Constants |
|---|---|---|
| `ReviewedDraft` | abstract: a picture that is edited and reviewed; a change takes the review back | pictures |
| `EntitySelection` | `state/entity_selection.py`: profiles, layers, aliases, every selection operation | |
| `SelectionSession` | one selection over refreshes in which models and units go, and the next requests | the table at the start, `MaxRequests` |
| `MovementWorkspace` | `state/movement_draft.py` on top of `EntitySelection`: paths as displacements, assignment groups, preview, review; implements `ReviewedDraft` | the unit, `Moves`, `MaxWay`, `MaxGroups` |
| `PlacementWorkspace` | `state/placement_draft.py`: which requests and views a draft may be started from, poses, the payload of each decision type; implements `ReviewedDraft` | models, units, spots, requests, views |
| `Declarations` | `state/assignment_workspace.py` and its buttons: shooting, melee and Stratagem rows, payloads | requests, own and enemy units |

Around the session:

| Module | Models | Constants |
|---|---|---|
| `LocalSelection` | `state/selection.py`, `commands.py`, the pointer and key handlers: selected unit and model, overlays, menu, hotkeys | files, points, keys |
| `Preferences` | `preferences/schema.py`, `io.py`, `defaults.py`, `registries.py`: reading, diagnostics, defaults, writing back | the values of a wrong or absent field |
| `DiceTray` | `hud/dice_tray.py` and the bounded tail of payloads, beside an engine that rolls real dice | rolls, dice, faces, bounds |
| `SetupDriver` | `core_client/live_smoke.py`: the loop, its policy and payloads, the handover | statuses, projections, stops, `MaxDecisions` |
| `ForensicTrace` | `diagnostics/forensic_trace.py`: settings, filters, rows, rotation, the wrapped calls | calls, settings, sizes, `MaxCalls` |
| `Launch` | `main.py`, `app.py`, `diagnostics/crash_report.py`, composed with the driver and the trace | `TailRows` |

`Table` puts three parts that do not touch each other in the code, `SelectionSession`,
`LocalSelection` and `DiceTray`, beside each other: a behaviour is of one of them (`part`) and
leaves the others as they were, so their states add and do not multiply. It also says what a
preference file may hold (`IsDocument`): for each key that is read a value of its type, none, or one
that the reader reports. `MCUiSession`, `MCTable`, `MCMovementWorkspace`, `MCPlacementWorkspace`,
`MCDeclarations` and `MCLaunch` give TLC small instances. `UiSessionProofs`, `MovementWorkspaceProofs`,
`PlacementWorkspaceProofs`, `DeclarationsProofs`, `TableProofs` and `LaunchProofs` hold the
theorems, `ListLemmas` and `SelectionLemmas` the lemmas they share, and `Lists` the
comprehensions over tuples that the modules are written with.

**State and actions of the session.** The window's attributes are the fields of one record `ui`,
because its handlers call one another (`_submit_movement_draft` → `_apply_refreshed_game_view` →
`_set_finite_state` → the three `_sync_*` methods): a method is an operator from a window to
the next window, and a handler of the event loop is an action that applies it, whole. `engine`
is the engine and the client's view of it. `sent` and `logStart` are history variables: every
submission made, with what its content was drafted for, and the cursor the shown event log
starts from. `closed` is the end of `on_update`'s fatal countdown.

A submission is one action, since nothing runs between its client calls. Its outcome is chosen
among the answers the engine may give (`Responses`, `ContinuedAnswers`) and a failure of any of
the calls (`Failures`: the window after `_fatal_game_engine_state`, the engine wherever it had
got to). Handlers that do not submit go through `Locally`, those that do through `Sent`.

**What the session abstracts.** The content of a decision is a *form*: the fields the UI branches
on (actor, interaction kind, variants, options, proposal kind, unit and a few flags). The engine
does not change a request under its id, so the id also stands for the spatial context hash,
the proposal context and the variant that the drafts compare. Projection hashes are the engine's
revision number. Geometry, texts, tracing and drawing are left out. `sound = FALSE` stands for
a request whose editor raises when it is started. Whether a declaration made of chosen rows is
complete is nondeterministic here; `Declarations` says when it is.

**The fatal guard.** `on_key_press` looks at the fatal deadline, mouse handlers do not (only the
pick of a unit in `SelectAt` does); the model has the guard exactly where the code has it, and
`FatalIsQuiet` shows that what the fatal error cleared is enough for the others.

**The detailed editors.** `MovementWorkspace` keeps a path as the sequence of its displacements,
because the models of a selection are all moved by the same one; 0 is a click on the very mean of
their endpoints, which the code drafts as a segment that does not move. Its actions are the
commands of the keyboard and the mouse on the draft. `PlacementWorkspace` starts from every
request on every pair of views for which the code does not raise, views that disagree included.
`Declarations` rebuilds the whole declaration at each press, as the code does; its target
candidates say whether they carry the fields of a firing deck source (`bound`, `deck`). In
`SelectionSession` the refresh (`EntitySelectionState.reconcile`) is an operation of the public
interface of that class; the window starts selections afresh with each draft and does not call it.

**Launch.** The steps of `main` are actions: `Configure` (the trace settings, before the hook is
there), `Drive` (one turn of the driver's loop), `OpenWindow`, `OpenFailedWindow`, `Refuse`,
`DieStarting`, then a call of the session in two halves (`Trace` writes a row before the engine
takes it and one after), `InnerRaises`, `FatalReport`, `TraceFails` and `Hook`. The engine and
the projections it returns are external and arbitrary: any status with any projection at every
step.

## 3. Runs

| Run | Asks | Bounds |
|---|---|---|
| `finite` | finite decisions of both players and of nobody: in step with the engine, viewer's own events only, unique ids, focus on an option, kept exactly as long as the request, quiet after a failure | 3 requests, 3 events, 2 submissions, log of 2 |
| `drafts` | movement and placement of two models and the kinds of workspace, two in a row in any order, with stale buttons: types, payload is what is shown, submissions answer the awaited request, rejected paths kept | 2 waypoints per model, 2 spots, 2 requests, events and submissions |
| `mixed` | a request of each kind in any order, under fairness: editors bound to the request, nothing stranded, selection forgotten on a viewer switch, a fatal error closes the window | 3 requests, 2 events, 3 submissions, public events |
| `workspace` | a movement draft of two models in detail: groups follow paths, implements `ReviewedDraft` | displacements 0 and 1, 2 segments, 3 groups |
| `placement_workspace` | placement drafts for every kind of request on views that agree or do not: the payload is of the request, implements `ReviewedDraft` | 2 models, a rules unit of 2 components, 2 spots, 2 armies |
| `declarations` | declarations over small inventories, with targets bound to firing deck sources: offered choices but for one default, once per weapon or model, own Stratagem targets, a press changes one row | 2 shooting or 3 melee weapons, 2 targets, 2 ability options |
| `table` | the selection over refreshes and requests; the local selection under each preference file; the dice tray | 2 requests, 3 models; 23 documents, 5 key presses; 2 rolls of 2 dice, 1 reroll, tail of 2 |
| `launch` | a launch with every failure on the way: the checkpoint is what is shown, rows precede and follow calls, newest rows kept, the report ends with the failure, the start ends | 2 automated decisions, 2 calls, row sizes 1 and 2, tail of 2 rows |
| `finite_continuation`, `placement_retry`, `movement_retry`, `ctrl_click` | statements of the repository's documents that the code does not keep (section 6) | as above |

`CHECK_DEADLOCK FALSE` is stated where the system may stop: a window that was closed (session,
`launch`), and the parts of `table` whose bounds run out.

**Why the bounds are enough.** A hazard of the session spans at most two transitions of the
pending request: a draft made for one request meets the next, or the viewer switches and switches
back. Three requests give every ordered pair of forms, and the first player's return after the
second. Three events with a log of two overflow the log; events visible to one player only make
the two streams, and so the cursors, differ. Two waypoints per model tell "no path", "one" and
"more" apart, and with two models an edit of one from an edit of both. Two spots let a placed
model be placed elsewhere. Three submissions allow rejection, retry and acceptance. In
`workspace`, three groups let two models be drafted together, apart, and together again. In
`launch`, a file limit of 2 to 4 with rows of size 1 and 2 rotates at every possible place,
within a call and between calls, a tail of two rows is shorter than the file may be, and
two of the settings filter one side of a call only. In
`table`, a face of 8 is a die the columns of a D6 have no place for, and a tail of two forgets
the roll that a pending reroll is for.

**Fairness.** `FairSpec` of the session adds weak fairness of `Close` only: Arcade's clock calls
`on_update` again and again, and the deadline does not move. Nothing obliges a user to act, so
there is no fairness on any input, and nothing is claimed about it. `Launch` has weak fairness of
`Start`, because the start is one call of `main` that runs without waiting for anybody, and of the
report, which is the rest of a handler or of the hook.

**Mutants.** Every property has a plausible bug of a mapped definition that breaks it under the
run's own configuration; they are the definitions marked `mutant` beside the one they change.

## 4. Properties

The session:

* `InStep`: outside a fatal error the pending decision is the engine's awaited request, the
  loaded projection is its current state for the current viewer, and the cursor is at the end of
  that viewer's stream.
* `ViewerEventsOnly`: the event log is exactly the tail of the current viewer's stream since the
  log began, and the HUD, which keeps old lines when there are none, shows only that viewer's.
* `EditorsBound`: at most one editor is open; it is for the pending request, its unit and the
  shown projection.
* `AnswersCurrent`: whatever is sent answers the awaited request, for its actor, from content
  drafted for that very request on the engine's current state.
* `PayloadIsShown`: a payload that Enter would send is the draft as drawn.
* `RejectedMovementKeepsPaths`, `RejectionKeepsHighlight`: what a rejection leaves for the retry.
* `HighlightExists`, `FocusStartsOver`: the highlighted index points into the options of the pending
  decision, and a request that becomes pending starts at its first one.
* `SwitchForgetsSelection`: another player's projection starts with nothing of the former selection.
* `ResultIdsUnique`: submissions never share a result id, although a failure rolls the counter back.
* `FatalIsQuiet`, `FatalCloses`: a failed window reaches nothing and closes.
* `NeverStranded`: drafted submissions never leave the engine waiting to be advanced.

The editors:

* `ImplementsReview`: every step of a movement or placement draft is an edit that takes the review
  back, a review of exactly what is on the screen, the preview under the cursor included, or
  nothing that can be seen.
* `GroupsAreOfPaths`: a model is in an assignment group exactly while it has a path, and a new
  group's number is new.
* `PayloadIsOfRequest`: a placement payload has the models of the request, each once, under the
  unit and owner the physical view has, in an army both views agree on.
* `ShotsAreOffered`, `OneTargetPerWeapon`, `EveryModelFights`, `StratagemTargetIsOwn`,
  `PressChangesOne`: a declaration is made of offered choices, one per weapon or model, complete
  when it is sent, and a press changes no other row. Shots have one exception. The choices offer a
  target with firing deck fields only to the weapon of that source
  (`state/assignment_workspace.py:1049`, `OfferedTo`); the default (line 1171) and the lookup of a
  selection's candidate (line 1235) do not ask, so that a declaration can be ready with a shot that
  is not among the choices. `ShotsAreOffered` allows just that: a legal target of the weapon, with
  its abilities, bound to another source. A Stratagem is sent with one of the modes of its source,
  and without a mode where the source has none.
* `WithinProfile`: the selection holds current candidates of the request only, and no more than it
  allows.

Around the session:

* `SelectionFits`, `HintsAreTrue`, `RoundTrips`: overlays, menu and draft fit the selected unit; a
  hinted hotkey runs its command or the duplicate was reported; preferences read back as written,
  and a document without an error is used as it stands (what it may leave out is its default).
* `FacesAreRolled`: the tray shows dice as they lie on the table or none, and while a reroll is
  pending those of its roll.
* `CheckpointIsShown`, `PayloadIsOwned`: the window opens on the asked checkpoint, its actor and one
  game; the driver's payloads are of the models of the request.
* `NewestRowsKept`, `CallsAreTracedAhead`, `ReportEndsWithFailure`: the trace loses only its oldest
  rows, knows every call the engine took, and a report ends with what failed. A filter drops what it
  names: events are named `core.<call>.request` and `core.<call>.response`, so that a filter may
  keep one side only (`EventName`), and then the claim is about that side.
* `StartEnds`: the launch ends however the engine answers.

## 5. Proofs

The proof modules are checked by TLAPS for every value of the constants that satisfies the named
assumptions: any set of players, units and options, any number of models, weapons and dice, any
requests, views, settings, statuses and projections, any preference documents, points, entities and
keys, and all bounds.

| Module | Theorem | States |
|---|---|---|
| `UiSessionProofs` | `Invariance` | `IInv` holds in every reachable state |
| | `TypeCorrect` | `TypeOK` |
| | `SessionHighlightExists` | `HighlightExists` |
| | `SessionInStep` | `InStep` |
| | `SessionEditorsBound` | `EditorsBound` |
| | `SessionResultIdsUnique` | `ResultIdsUnique` |
| | `SessionViewerEventsOnly` | `ViewerEventsOnly` |
| | `SessionPayloadIsShown` | `PayloadIsShown` |
| | `SessionNeverStranded` | `NeverStranded` |
| | `SessionFatalIsQuiet` | the action property `FatalIsQuiet` |
| | `SessionAnswersCurrent` | the action property `AnswersCurrent` |
| | `SessionKeepsHighlight` | the action property `RejectionKeepsHighlight` |
| | `SessionStartsOver` | the action property `FocusStartsOver` |
| | `SessionKeepsPaths` | the action property `RejectedMovementKeepsPaths` |
| | `SessionForgetsSelection` | the action property `SwitchForgetsSelection` |
| `MovementWorkspaceProofs` | `WorkspaceTypes` | `TypeOK`, that of the selection included |
| | `GroupsFollowPaths` | `GroupsAreOfPaths` |
| | `DraftImplementsReview` | `ImplementsReview` |
| | `ReviewIsShown` | what is ready is on the screen, for every draft that implements `ReviewedDraft` |
| | `SubmittedIsShown` | a ready movement payload is the picture on the screen |
| `PlacementWorkspaceProofs` | `PlacementTypes` | `TypeOK` |
| | `PayloadsAreOfTheirRequest` | `PayloadIsOfRequest` |
| | `PlacementImplementsReview` | `ImplementsReview` |
| `DeclarationsProofs` | `DeclarationTypes` | `TypeOK` |
| | `EachWeaponHasOneTarget` | `OneTargetPerWeapon` |
| | `PayloadShotsAreOffered` | `ShotsAreOffered` |
| | `ModelsAllFight` | `EveryModelFights` |
| | `StratagemsAreOwn` | `StratagemTargetIsOwn` |
| | `PressesChangeOne` | the action property `PressChangesOne` |
| `TableProofs` | `SelectionStaysWithin` | `WithinProfile` |
| | `FacesShownAreRolled` | `FacesAreRolled` |
| | `LocalSelectionFits` | `SelectionFits` |
| | `HintsRunTheirCommand` | `HintsAreTrue` |
| | `PreferencesRoundTrip` | `RoundTrips` |
| | `TableTypes` | `TableTypeOK` |
| `LaunchProofs` | `TypeCorrect` | `TypeOK` |
| | `OpensOnTheCheckpoint` | `CheckpointIsShown` |
| | `DriverPayloadsAreOwned` | the action property `PayloadIsOwned` |
| | `CallsTracedAhead` | `CallsAreTracedAhead` |
| | `FilesHoldTheNewest` | `NewestRowsKept` |
| | `BundleEndsWithFailure` | `ReportEndsWithFailure` |

`ListLemmas` and `SelectionLemmas` hold the lemmas that several of them cite.

**Assumptions.** They are named in the modules, and TLC evaluates each of them on a run.

* `None` and `Nothing` are none of the values they are the absence of; bounds are natural numbers
  and, where nothing would happen otherwise, positive; audiences are sets of players.
* Inputs have the shape their parsers leave: `FormsAssumption`, `ProposalAssumption` (a typed
  proposal is parsed from a parameterized request only), `StartAssumption`, `MoverAssumption`,
  `RequestsAssumption`, `ViewsAssumption`, `StopsAssumption`, `DecisionAssumption`,
  `TraceAssumption`.
* `InventoryAssumption`: the engine lists every physical weapon of a shooting request once. Without
  it the defaults would draft both rows; the code only reports the duplicate beside the draft.
* `FilesAssumption`: a preference file is missing, unreadable, or holds JSON or YAML, in which each key
  the readers ask for has a value of its type, none, or another, which stands for all the values the
  reader reports (`Wrong`); keys nobody asks for hold anything. `MarkersAssumption` says that the two
  marks are no such values. `WordsAssumption` is about the program's own strings and `str.lower`:
  lowering twice is lowering once, and keys and modifiers are in lower case. `UnderAssumption`: what
  lies under a point is a list.
* `LimitAssumption`: a size limit of the trace is a natural number or not set. The code refuses any
  other before the trace exists.
* The engine answers as `EngineBoundary` says (section 2): one decision at a time, a rejection keeps
  the request or asks for the same again, the end of the game leaves no request, a stream only grows.

**The session's argument.** Hardly any of the properties is inductive. `InStep` needs to know that a
submission finds a request at the engine and a viewer in the window, which the window only has if
it was in step before; `EditorsBound` needs the types of the drafts and that the projection's
revision is the engine's; `AnswersCurrent` needs in addition that the loaded projection is the
actor's, which no handler checks before it submits; `ResultIdsUnique` needs that all ids sent so
far are below the counter, except after a fatal error, which rolls the counter back but ends the
submissions, and that is `FatalIsQuiet`, which needs to know everything the fatal error cleared
(`Quiet`). `ViewerEventsOnly` does not follow from the log itself once it has been cut to its
bound: `Followed` keeps where it began, and that every HUD line happened on the viewer's stream.
`IInv` puts them together: `Consistent` (types, a highlighted index within the options, editors
that match the pending request, step with the engine or quiet), `Followed` and `ResultsBelow`.

The proof follows the code. `SyncEditorsType` shows that whatever window it is given, synchronising
ends with every open editor bound; `SetFiniteType` and `RefreshedType` carry that to the end of
every submission (`AfterReturned`), with `AnswersReport` and `AnswersExtend` for what the engine
may answer and `FatalConsistent` for a call that fails. A handler that does not submit needs
`ShellStays` and one lemma for its edit. `FatalStutters` settles all handlers of a failed window at
once. `LastOfConcat` says that cutting a log and continuing it is the same as continuing and
cutting, and `LogContinues` that a continued log is the log of the grown stream. `NextInv` has one
step per action. That the highlighted index is a position of the options rests on the existence of
least elements (`LeastExists`, from well-founded induction over the naturals).

`SessionPayloadIsShown` has an invariant of its own, `Shown`, that needs neither the types nor the
engine: only that an open draft is a record whose ready payload is its drawn paths. Every handler
either edits the draft, which clears the payload, reviews it, which copies the paths, or leaves it
or drops it. `SessionNeverStranded`, `SessionAnswersCurrent` and the four theorems on what an
answer keeps and forgets read `IInv` before a submission against its possible outcomes: the
handlers that do not submit change neither the request nor the viewer, and of those that do, each
outcome is followed through the refresh to the attribute in question.

**Lists.** The code builds most of what it shows and sends by comprehensions. `Lists` and
the modules state them with the library's `FlattenSeq`, and `ListLemmas` proves what the others need
of it: which members a filtered or joined list has, and that lists without repeats stay so. The library
defines joining by a recursive function; that its values agree with the list of partial results
(`Joins`) is shown by the least position at which they would differ, which needs no induction
theorem.

**The selection.** `SelectionLemmas` shows of each operation of `EntitySelectionState` that it leaves
a selection which `Fits` the profile: candidates only, no more than it allows, in a layer that has
candidates. For `WithinProfile` over refreshes `SelectionInv` needs more: that the table shows units
of the one at the start with models they had, and that the profile was built from such a table
(`Built`), because reconciling builds the next profile anew and the number it allows must be that of
the same request. `MovementWorkspace` uses
the same lemmas for `WorkspaceTypes`; its other theorems need nothing about the selection, since
only models of the unit are moved whatever it holds (`ActiveIsMine`).

**Drafts and reviews.** `ReviewIsShown` is inductive. `DraftImplementsReview` needs that a ready
payload is drafted and without preview (`ReadyIsDrafted`): a step that changed neither would
otherwise not be an edit; the refinement maps the picture to the paths with the preview applied to
the active models. `GroupsFollowPaths` is inductive with the types. For placement the invariant is
that the draft is one its request may be started with on its view (`Startable`, the checks before
which the code raises) and that a ready payload is that of the poses with no model unplaced. That
the payload has each model once follows from the rows being made of lists without repeats; that its
unit, owner and army are right although it takes them from the request, the display or the physical
view, whichever is there, follows from the checks at the start.

**Declarations.** A press rebuilds the declaration from the defaults and the rows, so the invariant
(`ShootingInv`, `MeleeInv`, `StratagemInv`) says what the defaults and all presses have in common:
shots are of weapons of the request, one of each; fights are offered, one of each model; a
Stratagem target is a unit of the player the request is for; and the payload is the draft. The
theorems then read the payload against the request: a ready declaration has filled every shot from
the first candidate of its weapon and target (`Drawn`), and such a shot is a choice unless that
candidate is bound to another firing deck source.

**The dice tray.** `DiceInv` says that the newest roll the tray finds in the bounded tail of payloads
has the dice that lie on the table, and that a pending reroll is of a roll that was made. Each new
payload is either newer than what was found, and then replaying its reroll records gives the dice on
the table, or shows nothing, and then cutting the tail to its bound can only lose the roll.

**The pointer.** `PointerInv` says that what was loaded is well read (`LoadedWell`, below), that the
overlays are registered, each once, and a menu is only open of a selected unit (`FitsLocal`), and
that a movement draft is of the pending unit and of the selected one.

**Preferences.** `Canonical` is the set of preferences a document can be read into: every field of its
type, a closed one within its values, modifiers among the four and each once, keys in lower case.
Two facts are proved section by section and put together for a document. Whatever a section holds,
it is read into such a value, and if nothing is reported the value is what the document says
(`OverlaysAre`, `HotkeysAre`, `SelectionIs`, `ZonesAre`, `HudIs`, `ExperimentalIs`, then `ParseIs`).
And what is written of such a value is read again as that value (`OverlaysKept`, ...,
`ExportKept`). The nesting of a document is of fixed depth, so no induction over data is needed.
With the built-in preferences in `Canonical` (`DefaultsAre`), `LoadIs` gives `LoadedWell` for every
file: missing, unreadable, refused or read. `PreferencesRoundTrip` follows. For
`HintsRunTheirCommand`, sorting undoes the order in which held modifiers are named (`HeldSorts`), so
the hinted binding is among those its own keys look up; where no input is bound twice it is the
only one, and where one is, the reader said so. The built-in bindings have no two alike
(`DefaultsApart`: only "v" is bound twice, once with shift).

**Launch.** The invariant is a conjunction of three: `DriverInv` (a driver that ended at a checkpoint
satisfies its stop rule), `TraceInv` (the call in flight is the next or the last of the calls
taken, and the rows behind it are complete) and `BundleInv` (the last row of the file is the
failure's until the report is written). `NewestRowsKept` has its own, `FilesInv`: the rotated file
and the current one together are an end of all rows emitted by this session, place by place, and
the current file is within the limit unless one row alone exceeds it. It speaks of places because a
rotation moves rows without touching them, and a write that failed after a rotation leaves a
missing file that counts as empty.

**Only model-checked.** `FatalCloses` and `StartEnds` are liveness under fairness, which TLAPS does not
reach. Every invariant and action property of the runs, and both refinements, are proved.

## 6. Where code and documents disagree

* `placement_retry`: the phase 28 plan (`src/docs/plans/finished/phase-28-generic-placement-proposal-editor.md:295`)
  keeps a draft whose submission the engine rejects; `state/placement_submission.py:276` always
  clears it, and the poses are lost although the request is still pending.
* `movement_retry`: `src/architecture.md:288` lets rejected paths be reused when the engine emits a
  fresh request for the same move; `state/movement_submission.py:297` drops them.
* `finite_continuation`: "advance only when Core reports an applied action awaiting continuation"
  (`state/finite_decision.py:386`) is done by the three draft submissions and not by
  `submit_finite_option`, whose answer `advanced` leaves the engine unadvanced and the window with
  no decision. `core_client/live_smoke.py:136` and the tests treat `advanced` as a possible
  answer to a finite submission and advance themselves.
* `ctrl_click`: "Ctrl-click removes models from the active subset"
  (`src/docs/plans/finished/phase-09-movement-draft-model-assignments.md:56`);
  `state/entity_selection.py:399` removes only what the active layer resolves a click to, and what
  was selected in a layer that has been left stays selected.

## 7. Not modelled

* **Drawing** (`hud/toolkit_render.py`, `hud/view_models.py`, `hud/toolkit.py`, `hud/action_summary.py`,
  `render/primitives.py`, `render/view_models.py`, camera and scrolling): computed afresh in every
  frame in floating point; nothing reads it back except the enabled buttons, which `UiSession` has.
* **Parsing of payloads** (`core_client/protocol.py` beyond the fields the UI branches on): no state;
  a payload it refuses is one of the failing client calls.
* **Geometry**: distances, movement budgets, snapping, coherency. Drafts are kept at the level of
  paths and poses; whether one is legal is the engine's answer.
* **Attached Scout lookups** (`state/attached_scout_selection.py`): pure; their result is the list of
  components of a placement request.
* **Timestamps, digests, redaction and wording** of the trace and of reports; the rules catalog cache
  of the client; the comparison of contract versions; canned data of tests and the debug launch.
* **A HUD button or Enter that answers a decision no frame has shown yet**: the code has no guard
  against it that could be stated; what is checked is that even such an answer is drafted for the
  awaited request (`AnswersCurrent`).
* **A raise inside a handler** outside of the client calls and the trace: it would end the program.
  Input while Arcade is inside a handler is queued by Arcade, so nothing is lost by taking a handler
  as one step.
