------------------------------ MODULE Preferences ------------------------------
(***************************************************************************)
(* The user's preference file: how a document is read (schema.py), where   *)
(* it comes from (io.py), what is written back (to_payload) and what the   *)
(* window takes from it. A document is a function from field to value; a   *)
(* value is of its field's type, Absent, or Wrong (any other type, and the *)
(* empty string where a string is required).                               *)
(***************************************************************************)
EXTENDS Integers, Lists

CONSTANTS
    Absent, Wrong,
    Lower(_)          \* str.lower

-----------------------------------------------------------------------------
(* registries.py and the closed sets of schema.py *)

Commands ==
    {"toggle_overlay", "open_selected_unit_actions", "toggle_measure_mode", "confirm", "cancel",
     "cycle_selection", "add_entity_selection", "subtract_entity_selection",
     "toggle_entity_selection", "cycle_entity_layer", "select_current_entity_group",
     "toggle_action_summary", "review_action_summary"}

ActiveOverlays ==
    {"selected_model", "selected_unit", "debug_coordinates", "movement_budget", "movement_path_draft"}

PlannedOverlays ==
    {"objective_control_context", "engagement_range", "coherency", "line_of_sight", "cover"}

PlannedSettings ==
    {"hud.minimap_enabled", "input.keyboard_first_mode", "movement.auto_path_preview",
     "render.cached_text_objects", "selection.history_limit"}

NamedKeys ==
    {"escape", "enter", "tab", "space", "backspace", "delete", "up", "down", "left", "right",
     "pageup", "pagedown", "home", "end"}

ValidKeys ==
    NamedKeys
    \cup {"a", "b", "c", "d", "e", "f", "g", "h", "i", "j", "k", "l", "m", "n", "o", "p", "q", "r",
          "s", "t", "u", "v", "w", "x", "y", "z", "0", "1", "2", "3", "4", "5", "6", "7", "8", "9"}
    \cup {"f1", "f2", "f3", "f4", "f5", "f6", "f7", "f8", "f9", "f10", "f11", "f12"}

Modifiers == <<"alt", "ctrl", "meta", "shift">>    \* as sorted() orders them

MouseButtons == {"left", "right", "middle"}

OverlayLists ==
    {"default_on_model_selection", "default_on_unit_selection", "default_on_movement_draft",
     "enabled_by_default"}

(* zone -> the sizes it may have, and the size it has by default *)
ZoneSizes ==
    [top_ribbon |-> 40 .. 140, left_rail |-> 120 .. 360, right_inspector |-> 140 .. 420,
     bottom_workbench |-> 90 .. 260, left_player_bench |-> 140 .. 380,
     right_opponent_bench |-> 140 .. 380, bottom_command_bench |-> 120 .. 320]

DefaultZones ==
    [z \in DOMAIN ZoneSizes |->
        [visible |-> TRUE, collapsed |-> FALSE,
         size_px |-> [top_ribbon |-> 84, left_rail |-> 300, right_inspector |-> 276,
                      bottom_workbench |-> 156, left_player_bench |-> 240,
                      right_opponent_bench |-> 240, bottom_command_bench |-> 220][z]]]

Switches ==
    {"show_phase", "show_active_player", "show_event_log", "show_config_diagnostics",
     "show_assignment_hud", "show_assignment_warning_markers", "show_chain_breadcrumbs",
     "high_contrast"}

(* field -> <<the values it may have, the one it falls back to>> *)
Enumerations ==
    [layout_preset             |-> <<{"compass_ring", "command_bench"}, "compass_ring">>,
     assignment_hud_mode       |-> <<{"compact", "detailed"}, "compact">>,
     action_summary_default    |-> <<{"hidden", "dim", "review"}, "hidden">>,
     movement_budget_ring_mode |-> <<{"total", "split"}, "total">>]

(* numbers of the HUD, text_scale in hundredths *)
Limits == [text_scale |-> 50 .. 200, action_summary_max_labels |-> 0 .. 20]

DefaultColor == <<220, 54, 64, 72>>

HudFields ==
    Switches \cup DOMAIN Enumerations \cup DOMAIN Limits
    \cup {"composition_profile", "zones", "assignment_target_highlight_color"}

-----------------------------------------------------------------------------
(* Reading a value: what is kept and what is reported *)

Error(code, field) == [severity |-> "error", code |-> code, field |-> field]
Inactive(field)    == [severity |-> "warning", code |-> "inactive_planned_setting", field |-> field]

Read(value, diagnostics) == [value |-> value, diagnostics |-> diagnostics]

At(section, key) == IF key \in DOMAIN section THEN section[key] ELSE Absent

WellTyped(raw) == raw \notin {Absent, Wrong}

WellTypedOf(list) == {x \in ToSet(list) : WellTyped(x)}

(* _required_string, _required_bool, _required_int, _required_float, _string_list: *)
(* a value of another type falls back and is reported                              *)
Required(raw, fallback, code, field) ==
    IF WellTyped(raw) THEN Read(raw, {}) ELSE Read(fallback, {Error(code, field)})

RequiredString(raw, field) == Required(raw, "", "invalid_string", field)

(* _optional_string: absent and null are nothing, and only another type is reported *)
OptionalString(raw, field) ==
    Read(IF raw = Wrong THEN Absent ELSE raw, IF raw = Wrong THEN {Error("invalid_string", field)} ELSE {})

(* A value of a closed set falls back; a value out of its range is kept *)
OneOf(raw, valid, fallback, code, field) ==
    IF WellTyped(raw) /\ raw \in valid THEN Read(raw, {}) ELSE Read(fallback, {Error(code, field)})

Ranged(read, range, code, field) ==
    Read(read.value, read.diagnostics \cup IF read.value \in range THEN {} ELSE {Error(code, field)})

Section(raw, field) == Required(raw, << >>, "invalid_section", field)

UnknownKeys(section, known) == {Error("unknown_key", k) : k \in DOMAIN section \ known}

Diagnostics(reads) == UNION {reads[k].diagnostics : k \in DOMAIN reads}
Values(reads)      == [k \in DOMAIN reads |-> reads[k].value]

-----------------------------------------------------------------------------
(* Sections *)

(* An overlay that is not registered is reported and kept *)
OverlayDiagnostics(id, field) ==
    IF id \in ActiveOverlays THEN {}
    ELSE IF id \in PlannedOverlays THEN {Inactive(field)} ELSE {Error("unknown_overlay_id", field)}

Strings(raw, field) ==
    LET list == Required(raw, << >>, "invalid_list", field)
    IN  Read(Filtered(list.value, WellTypedOf(list.value)),
             list.diagnostics \cup IF Wrong \in ToSet(list.value) THEN {Error("invalid_string", field)} ELSE {})

OverlayList(raw, field) ==
    LET ids == Strings(raw, field)
    IN  Read(ids.value, ids.diagnostics \cup UNION {OverlayDiagnostics(id, field) : id \in ToSet(ids.value)})

ReadOverlays(raw) ==
    LET section == Section(raw, "overlays")
        lists   == [k \in OverlayLists |-> OverlayList(At(section.value, k), k)]
    IN  Read(Values(lists),
             section.diagnostics \cup UnknownKeys(section.value, OverlayLists) \cup Diagnostics(lists))

(* sorted() of the modifiers, then the key: what a press is compared with *)
AsGiven(modifiers) == modifiers

Sorted(modifiers) == Filtered(Modifiers, ToSet(modifiers))

NormalizedInput(binding) == <<Sorted(binding.modifiers), Lower(binding.key)>>

(* The first of each *)
WithoutRepeats(s) ==
    FlattenSeq([i \in DOMAIN s |-> IF \E j \in 1 .. i - 1 : s[j] = s[i] THEN << >> ELSE <<s[i]>>])

ModifierList(raw, field) ==
    LET list    == Strings(raw, field)
        lowered == [i \in DOMAIN list.value |-> Lower(list.value[i])]
        unknown == ToSet(lowered) \ ToSet(Modifiers)
    IN  Read(WithoutRepeats(Filtered(lowered, ToSet(Modifiers))),
             list.diagnostics \cup {Error("invalid_modifier", field) : m \in unknown})

ReadBinding(raw) ==
    LET command == RequiredString(At(raw, "command_id"), "hotkeys")
        key     == RequiredString(At(raw, "key"), "hotkeys")
        mods    == ModifierList(At(raw, "modifiers"), "hotkeys")
        overlay == OptionalString(At(raw, "overlay_id"), "hotkeys")
    IN  Read([command_id |-> command.value, key |-> Lower(key.value), modifiers |-> mods.value,
              overlay_id |-> overlay.value],
             command.diagnostics \cup key.diagnostics \cup mods.diagnostics \cup overlay.diagnostics
             \cup UnknownKeys(raw, {"command_id", "key", "modifiers", "overlay_id"})
             \cup (IF command.value \in Commands THEN {} ELSE {Error("unknown_command_id", "hotkeys")})
             \cup (IF Lower(key.value) \in ValidKeys THEN {} ELSE {Error("invalid_key_syntax", "hotkeys")})
             \cup (IF overlay.value = Absent THEN {} ELSE OverlayDiagnostics(overlay.value, "hotkeys")))

(* An input bound twice is reported, and both bindings stay *)
Duplicates(bindings) ==
    IF IsInjective([i \in DOMAIN bindings |-> NormalizedInput(bindings[i])]) THEN {}
    ELSE {Error("duplicate_hotkey", "hotkeys")}

ReadHotkeys(raw) ==
    LET list  == Required(raw, << >>, "invalid_hotkeys", "hotkeys")
        given == Filtered(list.value, WellTypedOf(list.value))
        reads == [i \in DOMAIN given |-> ReadBinding(given[i])]
    IN  Read(Values(reads),
             list.diagnostics \cup Diagnostics(reads) \cup Duplicates(Values(reads))
             \cup IF Len(given) = Len(list.value) THEN {} ELSE {Error("invalid_hotkey", "hotkeys")})

ReadSelection(raw) ==
    LET section == Section(raw, "selection")
        button  == Ranged(RequiredString(At(section.value, "default_mouse_button"), "default_mouse_button"),
                          MouseButtons, "invalid_mouse_button", "default_mouse_button")
        cycle   == Required(At(section.value, "cycle_overlapping_bases"), FALSE, "invalid_bool",
                            "cycle_overlapping_bases")
    IN  Read([default_mouse_button |-> button.value, cycle_overlapping_bases |-> cycle.value],
             section.diagnostics \cup button.diagnostics \cup cycle.diagnostics
             \cup UnknownKeys(section.value, {"default_mouse_button", "cycle_overlapping_bases"}))

ReadZone(raw, z) ==
    LET section == Section(raw, z)
        fields  == [visible   |-> Required(At(section.value, "visible"), FALSE, "invalid_bool", z),
                    collapsed |-> Required(At(section.value, "collapsed"), FALSE, "invalid_bool", z),
                    size_px   |-> Ranged(Required(At(section.value, "size_px"), 0, "invalid_integer", z),
                                         ZoneSizes[z], "invalid_hud_zone_size", z)]
    IN  Read(Values(fields),
             section.diagnostics \cup UnknownKeys(section.value, DOMAIN fields) \cup Diagnostics(fields))

(* Zones the document does not name keep their defaults *)
ReadZones(raw) ==
    LET section == Section(raw, "hud.zones")
        reads   == [z \in DOMAIN ZoneSizes |->
                        IF z \in DOMAIN section.value THEN ReadZone(section.value[z], z)
                                                      ELSE Read(DefaultZones[z], {})]
    IN  Read(Values(reads),
             section.diagnostics \cup Diagnostics(reads)
             \cup {Error("unknown_hud_zone_id", z) : z \in DOMAIN section.value \ DOMAIN ZoneSizes})

HudField(raw, f) ==
    CASE f \in Switches -> Required(raw, FALSE, "invalid_bool", f)
      [] f \in DOMAIN Enumerations ->
            OneOf(IF f = "movement_budget_ring_mode" /\ raw = Absent THEN "total" ELSE raw,
                  Enumerations[f][1], Enumerations[f][2], "invalid_choice", f)
      [] f \in DOMAIN Limits -> Ranged(Required(raw, 0, "invalid_number", f), Limits[f], "out_of_range", f)
      [] f = "composition_profile" -> OptionalString(raw, f)
      [] f = "zones" -> ReadZones(raw)
      [] f = "assignment_target_highlight_color" ->
            IF raw = Absent THEN Read(DefaultColor, {}) ELSE Required(raw, DefaultColor, "invalid_rgba_color", f)

ReadHud(raw) ==
    LET section == Section(raw, "hud")
        fields  == [f \in HudFields |-> HudField(At(section.value, f), f)]
    IN  Read(Values(fields),
             section.diagnostics \cup UnknownKeys(section.value, HudFields) \cup Diagnostics(fields))

(* A JSON object of values nobody here reads: kept as it is *)
Kept(raw, field) == IF raw = Absent THEN Read(<< >>, {}) ELSE Section(raw, field)

ReadExperimental(raw, extensions) ==
    LET section  == Section(raw, "experimental")
        planned  == Kept(At(section.value, "planned_settings"), "planned_settings")
        extended == Kept(extensions, "extensions")
    IN  Read([planned_settings |-> planned.value, extensions |-> extended.value],
             section.diagnostics \cup planned.diagnostics \cup extended.diagnostics
             \cup UnknownKeys(section.value, {"planned_settings"})
             \cup {IF s \in PlannedSettings THEN Inactive(s) ELSE Error("unknown_planned_setting", s) :
                     s \in DOMAIN planned.value})

-----------------------------------------------------------------------------
(* Documents and files *)

TopLevelKeys ==
    {"schema_version", "profile_name", "overlays", "hotkeys", "selection", "hud", "experimental", "extensions"}

(* parse_preferences_payload: only another schema version, or no object at all, is refused *)
Parse(document) ==
    IF ~WellTyped(document) THEN Read(Absent, {Error("invalid_document", "$")})
    ELSE LET version == RequiredString(At(document, "schema_version"), "schema_version")
             reads   == [profile_name |-> RequiredString(At(document, "profile_name"), "profile_name"),
                         overlays     |-> ReadOverlays(At(document, "overlays")),
                         hotkeys      |-> ReadHotkeys(At(document, "hotkeys")),
                         selection    |-> ReadSelection(At(document, "selection")),
                         hud          |-> ReadHud(At(document, "hud")),
                         experimental |-> ReadExperimental(At(document, "experimental"),
                                                           At(document, "extensions"))]
         IN  Read(IF version.value = "1" THEN Values(reads) ELSE Absent,
                  version.diagnostics \cup Diagnostics(reads) \cup UnknownKeys(document, TopLevelKeys)
                  \cup IF version.value = "1" THEN {} ELSE {Error("unsupported_schema_version", "schema_version")})

(* UiPreferences.to_payload *)
BindingPayload(b) ==
    [k \in {"command_id", "key", "modifiers"} \cup (IF b.overlay_id = Absent THEN {} ELSE {"overlay_id"}) |-> b[k]]

(* With the extensions left where they are read into *)
ExportedNested(p) ==
    [schema_version |-> "1", profile_name |-> p.profile_name, overlays |-> p.overlays,
     hotkeys |-> [i \in DOMAIN p.hotkeys |-> BindingPayload(p.hotkeys[i])],
     selection |-> p.selection, hud |-> p.hud, experimental |-> p.experimental]

Exported(p) ==
    [schema_version |-> "1", profile_name |-> p.profile_name, overlays |-> p.overlays,
     hotkeys |-> [i \in DOMAIN p.hotkeys |-> BindingPayload(p.hotkeys[i])],
     selection |-> p.selection, hud |-> p.hud,
     experimental |-> [planned_settings |-> p.experimental.planned_settings],
     extensions |-> p.experimental.extensions]

(* default_preferences; the packaged default.yaml is its export *)
DefaultPreferences ==
    LET Bound(c, k, mods) == [command_id |-> c, key |-> k, modifiers |-> mods, overlay_id |-> Absent]
    IN  [profile_name |-> "default",
         overlays     |-> [default_on_model_selection |-> <<"selected_model">>,
                           default_on_unit_selection  |-> <<"selected_unit">>,
                           default_on_movement_draft  |-> <<"movement_path_draft", "movement_budget">>,
                           enabled_by_default         |-> <<"debug_coordinates">>],
         hotkeys      |-> <<Bound("cancel", "escape", << >>), Bound("confirm", "enter", << >>),
                            Bound("cycle_selection", "tab", << >>),
                            Bound("open_selected_unit_actions", "space", << >>),
                            Bound("cycle_entity_layer", "l", << >>),
                            Bound("select_current_entity_group", "g", << >>),
                            Bound("add_entity_selection", "a", <<"shift">>),
                            Bound("subtract_entity_selection", "s", <<"shift">>),
                            Bound("toggle_entity_selection", "t", <<"shift">>),
                            [Bound("toggle_overlay", "b", << >>) EXCEPT !.overlay_id = "movement_budget"],
                            Bound("toggle_measure_mode", "r", << >>),
                            Bound("toggle_action_summary", "v", << >>),
                            Bound("review_action_summary", "v", <<"shift">>)>>,
         selection    |-> [default_mouse_button |-> "left", cycle_overlapping_bases |-> TRUE],
         hud          |-> [f \in HudFields |->
                             CASE f \in Switches -> f # "high_contrast"
                               [] f = "action_summary_default" -> "dim"
                               [] f \in DOMAIN Enumerations \ {"action_summary_default"} -> Enumerations[f][2]
                               [] f = "text_scale" -> 100
                               [] f = "action_summary_max_labels" -> 6
                               [] f = "composition_profile" -> "default-hud"
                               [] f = "zones" -> DefaultZones
                               [] f = "assignment_target_highlight_color" -> DefaultColor],
         experimental |-> [planned_settings |-> << >>, extensions |-> << >>]]

(* What reading a file may fail with, its suffix and its encoding included *)
FileErrors ==
    {"preferences_file_format_error", "preferences_file_read_error", "preferences_file_encoding_error",
     "json_parse_error", "yaml_parse_error"}

(* load_preferences: the named file, else the platform's one, else the packaged default *)
Load(named, file) ==
    [file |-> file,
     kind |-> IF named THEN "explicit_path" ELSE IF file.state = "missing" THEN "builtin" ELSE "user_default",
     read |-> IF file.state = "missing"
              THEN IF named THEN Read(Absent, {Error("preferences_file_missing", "path")})
                            ELSE Parse(Exported(DefaultPreferences))
              ELSE IF file.state \in FileErrors THEN Read(Absent, {Error(file.state, "path")})
              ELSE Parse(file.document)]

(* What the window uses: the defaults when nothing could be read. A platform *)
(* file that names no HUD composition stops the launch.                      *)
InUse(loaded) == IF loaded.read.value = Absent THEN DefaultPreferences ELSE loaded.read.value

StopsLaunch(loaded) ==
    loaded.kind = "user_default" /\ InUse(loaded).hud.composition_profile = Absent
=============================================================================
