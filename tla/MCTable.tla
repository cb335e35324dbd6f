-------------------------------- MODULE MCTable --------------------------------
(***************************************************************************)
(* A small table: two units, some clicks and keys, and preference files    *)
(* with one thing about them changed.                                      *)
(***************************************************************************)
EXTENDS Table

(* A unit of two models and one of a single model, overlapping at a point *)
MCStart == <<[id |-> "u1", models |-> <<"a", "b">>], [id |-> "u2", models |-> <<"c">>]>>

MCUnder ==
    [overlap |-> << <<"u1", "a">>, <<"u2", "c">> >>, alone |-> << <<"u1", "b">> >>, empty |-> << >>]

MCLower(s) == IF s = "V" THEN "v" ELSE IF s = "Ctrl" THEN "ctrl" ELSE s

(* The program's own commands, keys, overlays and defaults *)
Schema == INSTANCE Preferences WITH Absent <- Nothing, Lower <- MCLower

MCWords ==
    Schema!Commands \cup Schema!ActiveOverlays \cup Schema!PlannedOverlays \cup Schema!MouseButtons
    \cup Schema!ValidKeys \cup ToSet(Schema!Modifiers) \cup {"", "1", "2", "default", "default-hud", "mine"}
    \cup UNION {Schema!Enumerations[f][1] : f \in DOMAIN Schema!Enumerations}
    \cup {"V", "Ctrl", "hyper", "plus", "no_command", "no_overlay", "thumb", "spiral"}

MCObjects == {<< >>, [x \in {"hud.minimap_enabled"} |-> TRUE], [no_setting |-> 1], [mine |-> "kept"]}

MCPresses == {<<"v", << >> >>, <<"v", <<"shift", "ctrl">> >>, <<"space", << >> >>, <<"tab", << >> >>, <<"escape", << >> >>}

-----------------------------------------------------------------------------

Bound(c, k, mods) == [command_id |-> c, key |-> k, modifiers |-> mods]

Document ==
    [schema_version |-> "1", profile_name |-> "mine",
     overlays |-> [default_on_model_selection |-> <<"selected_model">>,
                   default_on_unit_selection |-> <<"cover", "selected_unit">>,
                   default_on_movement_draft |-> <<"movement_budget", "selected_unit">>,
                   enabled_by_default |-> <<"debug_coordinates">>],
     hotkeys |-> <<Bound("cancel", "escape", << >>), Bound("cycle_selection", "tab", << >>),
                   Bound("open_selected_unit_actions", "space", << >>),
                   Bound("review_action_summary", "v", <<"shift", "ctrl">>),
                   [command_id |-> "toggle_overlay", key |-> "v", modifiers |-> << >>,
                    overlay_id |-> "movement_budget"]>>,
     selection |-> [default_mouse_button |-> "left", cycle_overlapping_bases |-> TRUE],
     hud |-> [f \in Schema!HudFields |->
                IF f = "zones" THEN [top_ribbon |-> [visible |-> FALSE, collapsed |-> TRUE, size_px |-> 40]]
                ELSE IF f = "text_scale" THEN 200
                ELSE IF f = "movement_budget_ring_mode" THEN "split"
                ELSE Schema!DefaultPreferences.hud[f]],
     experimental |-> [planned_settings |-> [x \in {"hud.minimap_enabled"} |-> TRUE]],
     extensions |-> [mine |-> "kept"]]

Added(bindings) == Document.hotkeys \o bindings

HotkeyLists ==
    {Wrong,
     Added(<<Bound("review_action_summary", "V", <<"Ctrl", "shift", "ctrl">>)>>),
     Added(<<Bound("cancel", "V", << >>), Bound("confirm", "v", <<"hyper">>)>>),
     Added(<<Bound("no_command", "plus", Wrong), Wrong, Bound("confirm", Wrong, << >>)>>),
     << [Document.hotkeys[5] EXCEPT !.overlay_id = "coherency"], Bound("cycle_selection", "tab", << >>) >>,
     << [Document.hotkeys[5] EXCEPT !.overlay_id = "no_overlay"], [Document.hotkeys[5] EXCEPT !.overlay_id = Wrong] >>}

MouseSelections ==
    {[default_mouse_button |-> "thumb", cycle_overlapping_bases |-> Wrong],
     [default_mouse_button |-> "middle", cycle_overlapping_bases |-> FALSE]}

Huds ==
    {<< >>,
     [Document.hud EXCEPT !.composition_profile = Nothing],
     [f \in DOMAIN Document.hud \ {"movement_budget_ring_mode", "assignment_target_highlight_color"} |-> Document.hud[f]],
     [Document.hud EXCEPT !.text_scale = 201, !.layout_preset = "spiral", !.action_summary_max_labels = Wrong],
     [Document.hud EXCEPT !.zones = [top_ribbon |-> [visible |-> Wrong, size_px |-> 39], attic |-> Wrong]],
     [Document.hud EXCEPT !.assignment_target_highlight_color = Wrong, !.zones = Wrong]}

FewOverlays == [x \in {"enabled_by_default"} |-> <<"no_overlay", Wrong, "cover", "movement_budget">>]

(* The document with one thing about it changed *)
Documents ==
    {Document, << >>, Wrong,
     [k \in DOMAIN Document \cup {"theme"} |-> IF k = "theme" THEN "dark" ELSE Document[k]],
     [k \in DOMAIN Document \ {"hud", "experimental"} |-> Document[k]],
     [Document EXCEPT !.schema_version = "2"],
     [Document EXCEPT !.overlays = FewOverlays],
     [Document EXCEPT !.experimental = [planned_settings |-> [no_setting |-> 1]], !.extensions = Wrong],
     [k \in DOMAIN Document \ {"extensions"} |-> IF k = "experimental" THEN << >> ELSE Document[k]]}
    \cup {[Document EXCEPT !.hotkeys = list] : list \in HotkeyLists}
    \cup {[Document EXCEPT !.selection = s] : s \in MouseSelections}
    \cup {[Document EXCEPT !.hud = h] : h \in Huds}

MCFiles ==
    {[state |-> s, document |-> << >>] : s \in {"missing"} \cup Schema!FileErrors}
    \cup {[state |-> "read", document |-> d] : d \in Documents}
=============================================================================
