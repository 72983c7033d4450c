------------------------------- MODULE Settings -------------------------------
(***************************************************************************)
(* The settings of a profile on their way: imported from a Natro INI       *)
(* (core/src/legacy_ini.rs), projected for the desktop, edited there and   *)
(* applied to the profile again (src-tauri/src/bridge.rs), and read as the *)
(* movement environment of a script (daemon/src/legacy_service.rs).  The   *)
(* desktop always sends the whole form back: a page edits its part of what *)
(* was projected.  Pure functions, and the few steps that chain them.      *)
(***************************************************************************)
EXTENDS Integers, Sequences, FiniteSets

CONSTANTS
  Inis,        (* imported files: movement values, gather slots, quests,    *)
               (* collections, dice and a hotkey                            *)
  Edits,       (* what a user can do on a page: a page, an item and a value *)
  Lowest, Highest, Stock,  (* of each movement setting: range and default   *)
  Routes,      (* fields with a bundled route                               *)
  Executable,  (* patterns the compatibility worker can run                 *)
  DefaultPattern, ImportPattern,  (* "e_lol", and the importer's            *)
  Nowhere,     (* "none", an empty gather slot                              *)
  Absent, Invalid,  (* a value that a file lacks, or that does not parse    *)
  MaxFields, MaxMinutesPerField,
  Edited       (* bound: edits and saves of a behaviour                     *)

Keys == DOMAIN Stock
InRange(key, value) == value \in Lowest[key]..Highest[key]

(* The default of a setting lies in its range, a file is a list of slots,  *)
(* and a page edits values of its own kind.                                *)
ASSUME SettingsAssumption ==
  /\ \A key \in Keys : InRange(key, Stock[key])
  /\ MaxMinutesPerField \in Nat
  /\ \A ini \in Inis : /\ ini.quests \in BOOLEAN /\ ini.collections \in BOOLEAN
                       /\ ini.slots \in Seq({ini.slots[k] : k \in DOMAIN ini.slots})
  /\ \A edit \in Edits :
       \/ edit.page = "features" /\ edit.item \in {"quests", "scienceBear", "collect"}
          /\ edit.value \in BOOLEAN
       \/ edit.page = "gathering" /\ edit.item = "fields" /\ edit.value \in Seq(STRING)
       \/ edit.page = "gathering" /\ edit.item \in {"enabled", "pattern", "minutes"}
       \/ edit.page = "movement" /\ edit.item \in Keys
       \/ edit.page \in {"safety", "hotkeys"} /\ edit.item = "all"

VARIABLES
  profile,
  form,        (* the projection at hand, with the user's edits             *)
  touched,     (* the pages edited since it was projected                   *)
  imported,    (* an INI was imported                                       *)
  saved,       (* a form was saved since the import                         *)
  used,        (* the movement settings of the last script: values, Absent  *)
               (* before there is one, Invalid when they were refused       *)
  saves, edits

settingsVars == <<profile, form, touched, imported, saved, used, saves, edits>>

-----------------------------------------------------------------------------
(* import_legacy_ini_files.  A movement value is a number, Absent or       *)
(* Invalid; minutes and repetitions are numbers or Invalid.  Two functions *)
(* read the movement values of the files, and may find different ones: the *)
(* importer in nm_config.ini alone and in any spelling (ini.movement),     *)
(* harness_settings in every file, under the exact names of the section    *)
(* and of the key only (ini.exact).                                        *)

Number(value, default) == IF value = Invalid THEN default ELSE value
AtLeastOne(n) == IF n < 1 THEN 1 ELSE n

Rotation(slot) ==
  [field |-> slot.field,
   pattern |-> IF slot.pattern = Absent THEN ImportPattern ELSE slot.pattern,
   seconds |-> 60 * Number(slot.minutes, 10),
   repetitions |-> AtLeastOne(Number(slot.repetitions, 1))]
Filled(slots) == {k \in DOMAIN slots : slots[k].field # Nowhere}
FilledUpTo(slots, k) == Cardinality({j \in Filled(slots) : j <= k})
Rotations(slots) ==
  [n \in 1..Cardinality(Filled(slots)) |->
     Rotation(slots[CHOOSE k \in Filled(slots) : FilledUpTo(slots, k) = n])]

(* map_movement_settings: all of the values, or none of them.              *)
NotANumber(given, k) == given[k] = Invalid
Unsound(given, k) == given[k] # Absent /\ (given[k] = Invalid \/ ~InRange(k, given[k]))
Given(ini) == {k \in Keys : ini.movement[k] # Absent}
Calibrates(ini) == Given(ini) # {} /\ \A k \in Keys : ~Unsound(ini.movement, k)

Imported(ini) ==
  [movement |-> [k \in Keys |-> IF Calibrates(ini) /\ k \in Given(ini)
                                  THEN ini.movement[k] ELSE Stock[k]],
   configured |-> Calibrates(ini),
   snapshot |-> <<[movement |-> ini.movement, exact |-> ini.exact]>>,
   gathering |-> Rotations(ini.slots) # <<>>, rotations |-> Rotations(ini.slots),
   quests |-> ini.quests, collections |-> ini.collections,
   dice |-> IF ini.diceEnabled THEN Number(ini.dice, 0) ELSE 0,
   hotkey |-> ini.hotkey]

NewProfile ==
  [movement |-> Stock, configured |-> FALSE, snapshot |-> <<>>, gathering |-> FALSE,
   rotations |-> <<>>, quests |-> FALSE, collections |-> FALSE, dice |-> 0, hotkey |-> "F1"]

-----------------------------------------------------------------------------
(* project_profile and feature_map.  One flag shows as two features, and   *)
(* either of them sets it.                                                 *)

Features(p) == [quests |-> p.quests, scienceBear |-> p.quests, collect |-> p.collections]
ApplyFeatures(features, p) ==
  [p EXCEPT !.quests = features.quests \/ features.scienceBear, !.collections = features.collect]

MinutesOf(rotation) == AtLeastOne(rotation.seconds \div 60)

Project(p) ==
  [features |-> Features(p),
   gathering |-> [enabled |-> p.gathering,
                  fields |-> [k \in DOMAIN p.rotations |-> p.rotations[k].field],
                  pattern |-> IF p.rotations = <<>> THEN DefaultPattern
                              ELSE p.rotations[1].pattern,
                  minutes |-> IF p.rotations = <<>> THEN 1 ELSE MinutesOf(p.rotations[1])],
   safety |-> p.dice, hotkeys |-> p.hotkey, movement |-> p.movement]

(* UiAutomationSettings::validate.                                         *)
Accepts(f) ==
  /\ Len(f.gathering.fields) <= MaxFields
  /\ \A k \in DOMAIN f.gathering.fields : f.gathering.fields[k] \in Routes
  /\ f.gathering.fields # <<>> => f.gathering.pattern \in Executable
  /\ f.gathering.minutes \in 1..MaxMinutesPerField
  /\ \A k \in Keys : InRange(k, f.movement[k])

(* apply_to.  Rotations that differ from slot to slot survive a form that  *)
(* shows the Gather page as it is.                                         *)
SameSeconds(rotation, minutes) == rotation.seconds = minutes * 60
SameMinutes(rotation, minutes) == MinutesOf(rotation) = minutes

ShowsGathering(p, g) ==
  /\ p.gathering = g.enabled
  /\ [k \in DOMAIN p.rotations |-> p.rotations[k].field] = g.fields
  /\ p.rotations # <<>> => /\ p.rotations[1].pattern = g.pattern
                           /\ SameMinutes(p.rotations[1], g.minutes)

Uniform(g, k) ==
  [field |-> g.fields[k], pattern |-> g.pattern, seconds |-> g.minutes * 60, repetitions |-> 1]

Apply(f, p) ==
  [ApplyFeatures(f.features, p) EXCEPT
            !.gathering = f.gathering.enabled,
            !.rotations = IF ShowsGathering(p, f.gathering) THEN @
                          ELSE [k \in DOMAIN f.gathering.fields |-> Uniform(f.gathering, k)],
            !.hotkey = f.hotkeys, !.dice = f.safety,
            !.movement = f.movement, !.configured = TRUE]

(* harness_settings: the calibration, or before there is one the values it *)
(* finds in the import over it; one of them invalid, and there are no      *)
(* settings.                                                               *)
OpenImport(p) == ~p.configured /\ p.snapshot # <<>>
HarnessSettings(p) ==
  IF ~OpenImport(p) THEN p.movement
  ELSE LET given == p.snapshot[1].exact IN
       IF \E k \in Keys : Unsound(given, k) THEN Invalid
         ELSE [k \in Keys |-> IF given[k] = Absent THEN p.movement[k] ELSE given[k]]

-----------------------------------------------------------------------------
(* The steps.                                                              *)

Import ==
  /\ ~imported /\ imported' = TRUE /\ saved' = FALSE /\ used' = Absent
  /\ \E ini \in Inis : profile' = Imported(ini)
  /\ form' = Project(profile') /\ touched' = {}
  /\ UNCHANGED <<saves, edits>>

EditForm ==
  /\ edits < Edited /\ edits' = edits + 1
  /\ \E edit \in Edits :
       /\ form' = [form EXCEPT ![edit.page] =
                     IF edit.item = "all" THEN edit.value ELSE [@ EXCEPT ![edit.item] = edit.value]]
       /\ touched' = touched \cup {edit.page}
  /\ UNCHANGED <<profile, imported, saved, used, saves>>

Discard ==
  /\ touched # {} /\ form' = Project(profile) /\ touched' = {}
  /\ UNCHANGED <<profile, imported, saved, used, saves, edits>>

SaveForm ==
  /\ saves < Edited /\ Accepts(form)
  /\ profile' = Apply(form, profile) /\ saves' = saves + 1
  /\ form' = Project(profile') /\ touched' = {}
  /\ saved' = TRUE
  /\ UNCHANGED <<imported, used, edits>>

StartScript ==
  /\ used' = HarnessSettings(profile)
  /\ UNCHANGED <<profile, form, touched, imported, saved, saves, edits>>

SettingsInit ==
  /\ profile = NewProfile /\ form = Project(NewProfile) /\ touched = {}
  /\ imported = FALSE /\ saved = FALSE /\ used = Absent /\ saves = 0 /\ edits = 0
SettingsNext == Import \/ EditForm \/ Discard \/ SaveForm \/ StartScript
SettingsSpec == SettingsInit /\ [][SettingsNext]_settingsVars

-----------------------------------------------------------------------------
(* What was saved is what the desktop shows next (but for the pattern and  *)
(* the minutes of a Gather page without fields, which have no place in a   *)
(* profile, and for the two quest features, which are one flag), and a     *)
(* save leaves what its user did not edit: rotations that differ from slot *)
(* to slot, or whose time is no whole number of minutes, outlive a save    *)
(* from another page, and so do the settings of the next script.  With one *)
(* exception: an import whose movement values were refused is settled by a *)
(* save from any page, and what is on display takes the place of its       *)
(* values, or of the refusal, in the next script.                          *)
ShownAsSaved(shown) ==
  /\ shown.movement = form.movement /\ shown.safety = form.safety
  /\ shown.hotkeys = form.hotkeys /\ shown.features.collect = form.features.collect
  /\ shown.features.quests = (form.features.quests \/ form.features.scienceBear)
  /\ shown.gathering.enabled = form.gathering.enabled
  /\ shown.gathering.fields = form.gathering.fields
  /\ form.gathering.fields # <<>> => shown.gathering = form.gathering
MovementKept ==
  /\ profile'.movement = profile.movement
  /\ HarnessSettings(profile)' =
       IF OpenImport(profile) THEN profile.movement ELSE HarnessSettings(profile)
UntouchedKept ==
  /\ "gathering" \notin touched =>
       profile'.gathering = profile.gathering /\ profile'.rotations = profile.rotations
  /\ "movement" \notin touched => MovementKept
  /\ "features" \notin touched =>
       profile'.quests = profile.quests /\ profile'.collections = profile.collections
  /\ "safety" \notin touched => profile'.dice = profile.dice
  /\ "hotkeys" \notin touched => profile'.hotkey = profile.hotkey
  /\ profile'.snapshot = profile.snapshot
SavesAreExact ==
  [][saves' # saves => ShownAsSaved(Project(profile')) /\ UntouchedKept]_settingsVars

(* No script runs with a value out of its range, whatever was imported and *)
(* edited; and until a form is saved it runs with the values of the files, *)
(* all of one reading: what the importer took over from them, or what      *)
(* harness_settings itself finds, which may be less (a value the importer  *)
(* refused under another spelling is passed over).                         *)
ScriptsRunSoundValues ==
  used \notin {Absent, Invalid} =>
    /\ \A k \in Keys : InRange(k, used[k])
    /\ imported /\ ~saved =>
         \/ \A k \in Keys : profile.snapshot[1].movement[k] \in {Absent, used[k]}
         \/ \A k \in Keys : profile.snapshot[1].exact[k] \in {Absent, used[k]}
=============================================================================
