---------------------------- MODULE LocalSelection ----------------------------
(***************************************************************************)
(* What the pointer and the keyboard select in one window: the selected    *)
(* unit and model, the advisory overlays, the context menu (selection.py), *)
(* and the hotkeys and defaults the preference file gives them             *)
(* (commands.py, ArcadeBattlefieldWindow). A movement draft is known by    *)
(* the unit it moves.                                                      *)
(***************************************************************************)
EXTENDS Preferences

CONSTANTS
    Files,            \* what is found where the preference file should be
    Under,            \* point -> the <<unit, model>> there, nearest first
    Presses           \* the keys pressed: <<key, modifiers>>

VARIABLES
    loaded,     \* what load_preferences returned
    gone,       \* the models the projection no longer shows
    pending,    \* the unit of the pending movement proposal, or Absent
    draft,      \* the unit of the movement draft, or Absent
    local       \* SelectionState

localVars == <<loaded, gone, pending, draft, local>>

prefs == InUse(loaded)

Pairs == UNION {ToSet(Under[p]) : p \in DOMAIN Under}

-----------------------------------------------------------------------------
(* SelectionState *)

(* Unknown and planned overlays, and repeats, never become active *)
Active(ids) == WithoutRepeats(Filtered(ids, ActiveOverlays))

InitialLocal ==
    [unit |-> Absent, model |-> Absent, overlays |-> Active(prefs.overlays.enabled_by_default),
     menu |-> FALSE, hits |-> << >>, index |-> 1]

Selected(unit, model, hits, index) ==
    [unit |-> unit, model |-> model, menu |-> FALSE, hits |-> hits, index |-> index,
     overlays |-> Active(prefs.overlays.enabled_by_default \o prefs.overlays.default_on_model_selection
                         \o prefs.overlays.default_on_unit_selection)]

SelectModelId(unit, model) == Selected(unit, model, << >>, 1)

HitsAt(point) == Filtered(Under[point], Pairs \ gone)

(* The nearest model, or the next one of the same overlap *)
SelectAt(point, forced) ==
    LET hits  == HitsAt(point)
        again == /\ forced \/ (prefs.selection.cycle_overlapping_bases /\ Len(hits) > 1)
                 /\ hits = local.hits
        i     == IF again THEN (local.index % Len(hits)) + 1 ELSE 1
    IN  IF hits = << >> THEN InitialLocal ELSE Selected(hits[i][1], hits[i][2], hits, i)

CycleExistingAt(point) ==
    IF HitsAt(point) = << >> \/ HitsAt(point) # local.hits THEN local ELSE SelectAt(point, TRUE)

ToggleOverlay(id) ==
    IF id \notin ActiveOverlays THEN local
    ELSE [local EXCEPT !.overlays = IF Contains(@, id) THEN Filtered(@, ToSet(@) \ {id}) ELSE Append(@, id)]

WithDraftOverlays(l) == [l EXCEPT !.overlays = Active(@ \o prefs.overlays.default_on_movement_draft)]

WithoutDraftOverlays(l) ==
    [l EXCEPT !.overlays = Filtered(@, ToSet(@) \ ToSet(prefs.overlays.default_on_movement_draft))]

OpenMenu  == IF local.unit = Absent THEN local ELSE [local EXCEPT !.menu = TRUE]
CloseMenu(l) == [l EXCEPT !.menu = FALSE]

(* The units a projection without these models still shows *)
Shown(without) == {pair[1] : pair \in Pairs \ without}

-----------------------------------------------------------------------------
(* Hotkeys: the first binding of an input, and the hint shown for a command *)

CommandForKey(hotkeys, key, modifiers) ==
    LET bound == {i \in DOMAIN hotkeys : NormalizedInput(hotkeys[i]) = <<Sorted(modifiers), Lower(key)>>}
    IN  IF bound = {} THEN Absent ELSE hotkeys[Min(bound)]

HintedCommands ==
    {"open_selected_unit_actions", "confirm", "cancel", "toggle_action_summary", "review_action_summary"}

HotkeyForCommand(hotkeys, command) ==
    LET bound == {i \in DOMAIN hotkeys : hotkeys[i].command_id = command}
    IN  IF bound = {} THEN Absent ELSE hotkeys[Min(bound)]

(* _modifier_names: the order in which held modifiers are named *)
Held(modifiers) == Filtered(<<"ctrl", "alt", "shift", "meta">>, ToSet(modifiers))

-----------------------------------------------------------------------------

LocalInit ==
    /\ \E named \in BOOLEAN, file \in Files : loaded = Load(named, file)
    /\ ~StopsLaunch(loaded)
    /\ gone = {} /\ pending = Absent /\ draft = Absent
    /\ local = InitialLocal

SyncedKeeping(l, left, ask) ==
    IF ask # Absent /\ l.unit = ask
    THEN /\ draft' = ask
         /\ \E pair \in Pairs \ gone' :
                /\ pair[1] = ask
                /\ local' = WithDraftOverlays(SelectModelId(ask, pair[2]))
    ELSE draft' = left /\ local' = l

(* _sync_movement_draft: a draft starts for the selected unit when its move *)
(* is asked for; one that is left of an earlier request takes its overlays  *)
(* with it                                                                  *)
Synced(l, left, ask) ==
    IF ask # Absent /\ l.unit = ask
    THEN /\ draft' = ask
         /\ \E pair \in Pairs \ gone' :
                /\ pair[1] = ask
                /\ local' = WithDraftOverlays(SelectModelId(ask, pair[2]))
    ELSE /\ draft' = Absent
         /\ local' = IF left = Absent THEN l ELSE WithoutDraftOverlays(l)

(* on_mouse_press off the HUD and the menu; while a draft is there it adds waypoints *)
MousePress(button, point) ==
    /\ button = prefs.selection.default_mouse_button
    /\ draft = Absent
    /\ UNCHANGED <<loaded, gone, pending>>
    /\ Synced(SelectAt(point, FALSE), Absent, pending)

(* on_key_press: the commands that change the selection, its overlays or its menu *)
KeyPress(press, point) ==
    LET bound == CommandForKey(prefs.hotkeys, press[1], Held(press[2]))
    IN  /\ bound # Absent
        /\ \/ /\ bound.command_id = "toggle_overlay" /\ bound.overlay_id # Absent
              /\ local' = ToggleOverlay(bound.overlay_id)
              /\ UNCHANGED draft
           \/ /\ bound.command_id = "open_selected_unit_actions"
              /\ local' = OpenMenu
              /\ UNCHANGED draft
           \/ /\ bound.command_id = "cycle_selection" /\ draft = Absent
              /\ local' = CycleExistingAt(point)
              /\ UNCHANGED draft
           \/ /\ bound.command_id = "cancel"
              /\ local' = CloseMenu(IF draft = Absent THEN local ELSE WithoutDraftOverlays(local))
              /\ draft' = Absent
        /\ UNCHANGED <<loaded, gone, pending>>

(* _sync_selection_to_highlighted_option: the unit of the highlighted option *)
(* is selected, and a selected unit that is gone is let go unless a draft     *)
(* still holds it                                                             *)
Focused(l, left, unit) ==
    IF unit # Absent
    THEN IF <<l.unit, l.model>> = <<unit, Absent>> THEN l ELSE SelectModelId(unit, Absent)
    ELSE IF l.unit # Absent /\ l.unit \notin Shown(gone') /\ left = Absent THEN InitialLocal ELSE l

(* An accepted answer: the refreshed projection, without some of the models  *)
(* and perhaps for the other player, then the next request, which asks for a *)
(* unit's move or offers options, one of them highlighted                    *)
NextState(lost, otherViewer, clears, ask, unit) ==
    /\ gone' = gone \cup lost
    /\ ask # Absent => ask \in Shown(gone') /\ unit = Absent
    /\ pending' = ask
    /\ LET start == IF otherViewer THEN InitialLocal ELSE local
           left  == IF otherViewer \/ clears THEN Absent ELSE draft
           base  == IF clears THEN WithoutDraftOverlays(start) ELSE start
       IN  Synced(Focused(base, left, unit), left, ask)
    /\ UNCHANGED loaded

LocalNext ==
    \/ \E button \in MouseButtons, p \in DOMAIN Under : MousePress(button, p)
    \/ \E press \in Presses, p \in DOMAIN Under : KeyPress(press, p)
    \/ \E lost \in {{pair} : pair \in Pairs \ gone} \cup {{}}, other, clears \in BOOLEAN,
          ask, unit \in {pair[1] : pair \in Pairs} \cup {Absent} :
            NextState(lost, other, clears, ask, unit)

(* Only registered overlays that are active in this build are ever on, each *)
(* once, whatever the file lists and the hotkeys name                       *)
(* (docs/ui-configuration.md:6); and a movement draft is always the one the *)
(* pending proposal asks for, of the unit that is selected                  *)
(* (_active_overlay_ids, _sync_movement_draft).                             *)
SelectionFits ==
    /\ ToSet(local.overlays) \subseteq ActiveOverlays /\ IsInjective(local.overlays)
    /\ local.menu => local.unit # Absent
    /\ draft # Absent => draft = pending /\ draft = local.unit

(* The hotkey hinted for a command runs that command, or the file's reader  *)
(* has reported a binding: held modifiers are named in another order than   *)
(* the file lists them (_hotkey_hints, command_for_key, _parse_hotkeys).    *)
HintsAreTrue ==
    \A c \in HintedCommands :
        LET hinted == HotkeyForCommand(prefs.hotkeys, c)
            runs   == CommandForKey(prefs.hotkeys, hinted.key, Held(hinted.modifiers))
        IN  \/ hinted = Absent
            \/ runs # Absent /\ runs.command_id = c
            \/ \E d \in loaded.read.diagnostics : d.code = "duplicate_hotkey"

(* What was read is written back so that it reads the same, planned         *)
(* settings and extensions included (docs/ui-configuration.md:71,239), and  *)
(* a file in which nothing is reported as an error is used as it stands     *)
(* (parse_preferences_payload, to_payload).                                 *)
RoundTrips ==
    /\ Parse(Exported(prefs)).value = prefs
    /\ \/ loaded.kind = "builtin" \/ \E d \in loaded.read.diagnostics : d.severity = "error"
       \/ LET document == loaded.file.document
          IN  /\ prefs.overlays = document.overlays /\ prefs.selection = document.selection
              /\ At(document.experimental, "planned_settings") \in {Absent, prefs.experimental.planned_settings}
              /\ At(document, "extensions") \in {Absent, prefs.experimental.extensions}
              /\ \A f \in DOMAIN document.hud \ {"zones"} : document.hud[f] \in {Absent, prefs.hud[f]}
              /\ \A z \in DOMAIN document.hud.zones : prefs.hud.zones[z] = document.hud.zones[z]
=============================================================================
