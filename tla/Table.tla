--------------------------------- MODULE Table ---------------------------------
(***************************************************************************)
(* Three parts of the table that do not touch each other in the code: the  *)
(* request-scoped selection, the local selection with its preferences, and *)
(* the dice tray. A behaviour is of one of them and leaves the others at   *)
(* their first state, so that their states are not multiplied.             *)
(***************************************************************************)
EXTENDS SelectionSession

CONSTANTS
    Wrong,                                              \* see Preferences
    Words,                                              \* the strings that files and the program write
    Lower(_),                                           \* str.lower, on Words
    Objects,                                            \* JSON objects that are kept as they are
    Files, Under, Presses,                              \* see LocalSelection
    RollIds, Dice, Faces, Selections, MaxRerolls, MaxPayloads     \* see DiceTray

VARIABLES part, loaded, gone, pending, draft, local, rolled, tail, asked

Pointer == INSTANCE LocalSelection WITH Absent <- Nothing

Tray == INSTANCE DiceTray WITH NoRoll <- Nothing

ASSUME DiceAssumption == Dice \in Nat \ {0} /\ MaxPayloads \in Nat

ASSUME UnderAssumption == \A p \in DOMAIN Under : Under[p] \in Seq(ToSet(Under[p]))

-----------------------------------------------------------------------------
(* What a preference file may hold. JSON's null is Nothing where a reader   *)
(* takes it for a missing value, and Wrong where it reports it.             *)

IsFunction(f) == f = [k \in DOMAIN f |-> f[k]]

(* A section's value for a key: of its type, missing, or of another type *)
Holds(section, key, type) == Pointer!At(section, key) \in type \cup {Nothing, Wrong}

IsOverlays(o) == IsFunction(o) /\ \A k \in Pointer!OverlayLists : Holds(o, k, Seq(Words \cup {Wrong}))

IsBinding(b) ==
    /\ \A k \in {"command_id", "key", "overlay_id"} : Holds(b, k, Words)
    /\ Holds(b, "modifiers", Seq(Words \cup {Wrong}))

IsHotkeys(h) == h \in Seq(ToSet(h)) /\ \A b \in ToSet(h) : Pointer!WellTyped(b) => IsBinding(b)

IsSelection(s) ==
    IsFunction(s) /\ Holds(s, "default_mouse_button", Words) /\ Holds(s, "cycle_overlapping_bases", BOOLEAN)

IsZone(z) ==
    IsFunction(z) /\ Holds(z, "visible", BOOLEAN) /\ Holds(z, "collapsed", BOOLEAN) /\ Holds(z, "size_px", Int)

IsZones(zones) == \A z \in DOMAIN zones : Pointer!WellTyped(zones[z]) => IsZone(zones[z])

IsHud(h) ==
    /\ \A f \in Pointer!Switches : Holds(h, f, BOOLEAN)
    /\ \A f \in DOMAIN Pointer!Enumerations \cup {"composition_profile"} : Holds(h, f, Words)
    /\ \A f \in DOMAIN Pointer!Limits : Holds(h, f, Int)
    /\ Holds(h, "assignment_target_highlight_color", Seq(Int))
    /\ Pointer!WellTyped(Pointer!At(h, "zones")) => IsZones(Pointer!At(h, "zones"))
    /\ "movement_budget_ring_mode" \in DOMAIN h => h["movement_budget_ring_mode"] # Nothing

IsExperimental(e) == Holds(e, "planned_settings", Objects)

IsDocument(d) ==
    LET section(key) == Pointer!At(d, key)
        given(key)   == Pointer!WellTyped(section(key))
    IN  /\ Holds(d, "schema_version", Words) /\ Holds(d, "profile_name", Words)
        /\ given("overlays") => IsOverlays(section("overlays"))
        /\ given("hotkeys") => IsHotkeys(section("hotkeys"))
        /\ given("selection") => IsSelection(section("selection"))
        /\ given("hud") => IsHud(section("hud"))
        /\ given("experimental") => IsExperimental(section("experimental"))
        /\ Holds(d, "extensions", Objects)

(* A file is missing, cannot be read, or holds a document, or no object *)
ASSUME FilesAssumption ==
    \A file \in Files :
        \/ file.state \in {"missing"} \cup Pointer!FileErrors
        \/ file.state = "read" /\ (Pointer!WellTyped(file.document) => IsDocument(file.document))

(* The program's own strings are among the words, which lower() leaves      *)
(* words; what it has made of one, and the program's keys and modifiers, it *)
(* leaves as they are.                                                      *)
ASSUME WordsAssumption ==
    /\ Pointer!Commands \cup Pointer!ActiveOverlays \cup Pointer!MouseButtons \subseteq Words
    /\ Pointer!ValidKeys \cup ToSet(Pointer!Modifiers) \cup {"", "1", "default", "default-hud"} \subseteq Words
    /\ \A f \in DOMAIN Pointer!Enumerations : Pointer!Enumerations[f][1] \subseteq Words
    /\ \A w \in Words : Lower(w) \in Words /\ Lower(Lower(w)) = Lower(w)
    /\ \A w \in Pointer!ValidKeys \cup ToSet(Pointer!Modifiers) \cup {""} : Lower(w) = w

-----------------------------------------------------------------------------
(* The values a preference file is read into and written from *)

OverlayValues == [Pointer!OverlayLists -> Seq(Words)]

BindingPayloads ==
    [command_id : Words, key : Words, modifiers : Seq(Words)]
    \cup [command_id : Words, key : Words, modifiers : Seq(Words), overlay_id : Words]

SelectionValues == [default_mouse_button : Words, cycle_overlapping_bases : BOOLEAN]

ZoneValues == [visible : BOOLEAN, collapsed : BOOLEAN, size_px : Int]

ZonesValues == [DOMAIN Pointer!ZoneSizes -> ZoneValues]

HudValues == [Pointer!HudFields -> BOOLEAN \cup Int \cup Words \cup {Nothing} \cup Seq(Int) \cup ZonesValues]

PlannedValues == [planned_settings : Objects]

Payloads ==
    [schema_version : {"1"}, profile_name : Words, overlays : OverlayValues, hotkeys : Seq(BindingPayloads),
     selection : SelectionValues, hud : HudValues, experimental : PlannedValues, extensions : Objects]

BindingValues == [command_id : Words, key : Words, modifiers : Seq(Words), overlay_id : Words \cup {Nothing}]

PreferenceValues ==
    [profile_name : Words, overlays : OverlayValues, hotkeys : Seq(BindingValues), selection : SelectionValues,
     hud : HudValues, experimental : [planned_settings : Objects, extensions : Objects]]

(* The two that stand for no value are none of these *)
ASSUME MarkersAssumption ==
    /\ << >> \in Objects
    /\ \A x \in {Nothing, Wrong} :
          /\ x \notin Words /\ x \notin Seq(Words) /\ x \notin BOOLEAN /\ x \notin Int /\ x \notin Seq(Int)
          /\ x \notin OverlayValues /\ x \notin BindingPayloads /\ x \notin Seq(BindingPayloads)
          /\ x \notin SelectionValues /\ x \notin ZoneValues /\ x \notin ZonesValues /\ x \notin HudValues
          /\ x \notin Objects /\ x \notin PlannedValues /\ x \notin Payloads
          /\ x \notin BindingValues /\ x \notin PreferenceValues

-----------------------------------------------------------------------------

TableInit ==
    /\ part \in {"selection", "pointer", "dice"}
    /\ Init /\ (part # "selection" => profile = InspectionProfile(Start))
    /\ Tray!DiceInit
    /\ Pointer!LocalInit /\ (part # "pointer" => loaded.kind = "builtin")

pointerVars == <<loaded, gone, pending, draft, local>>
diceVars    == <<rolled, tail, asked>>

TableVars == <<part, vars, pointerVars, diceVars>>

TableNext ==
    \/ part = "selection" /\ Next /\ UNCHANGED <<part, pointerVars, diceVars>>
    \/ part = "pointer" /\ Pointer!LocalNext /\ UNCHANGED <<part, vars, diceVars>>
    \/ part = "dice" /\ Tray!DiceNext /\ UNCHANGED <<part, vars, pointerVars>>

TableSpec == TableInit /\ [][TableNext]_TableVars

(* Every variable of the three parts has its type: selections of known      *)
(* entities in known layers, a local selection of known models at an index  *)
(* of the hits it remembers, a bounded tail of payloads.                    *)
TableTypeOK ==
    /\ TypeOK
    /\ local.unit \in {pair[1] : pair \in Pointer!Pairs} \cup {Nothing}
    /\ local.index \in {1} \cup DOMAIN local.hits
    /\ Len(tail) <= MaxPayloads

(* See DiceTray: the faces shown are those on the table, of a pending reroll's roll. *)
FacesAreRolled == part = "dice" => Tray!FacesAreRolled

(* See LocalSelection: registered overlays, and the draft is of the selected unit. *)
SelectionFits == part = "pointer" => Pointer!SelectionFits

(* See LocalSelection: the hotkey hinted for a command runs it, or is reported. *)
HintsAreTrue == part = "pointer" => Pointer!HintsAreTrue

(* See LocalSelection: what was read is written back so that it reads the same. *)
RoundTrips == part = "pointer" => Pointer!RoundTrips
=============================================================================
