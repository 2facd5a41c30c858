----------------------------- MODULE LocalSettings -----------------------------
(***************************************************************************)
(* The preferences of this browser: SettingsLocalSection.tsx with the      *)
(* modules that keep each of them in localStorage.  A preference exists up *)
(* to three times: in storage, in the section while it is open, and where  *)
(* the rest of the client uses it.  A value is its place in the list of    *)
(* choices, 0 the default.  Storage may refuse everything (a private       *)
(* window), which every module swallows; one tab is open.                  *)
(***************************************************************************)
EXTENDS Integers

CONSTANTS
    FontSizes,      \* what may be typed in the font field; 0 stands for no number
    SliderStops,    \* positions of the font slider
    MaxLocalSteps   \* bound on the user's actions

ASSUME LocalAssumption == FontSizes \subseteq Int /\ SliderStops \subseteq Int

VARIABLES
    storable,       \* localStorage accepts values
    saved,          \* what it holds
    sectionState,   \* the states of the section, while mounted
    sectionOpen,
    live,           \* what the rest of the client goes by
    osTheme,        \* prefers-color-scheme: 1 light, 0 otherwise
    fontSaved, font, \* the font scale in storage, and the section's states of it
    fontApplied,    \* the font size of the document
    mapSaved, mapDraft, mapError, \* the text replacements: in storage, as edited, refused
    localSteps

prefVars  == <<saved, sectionState, live>>
fontVars  == <<fontSaved, font, fontApplied>>
mapVars   == <<mapSaved, mapDraft, mapError>>
localVars == <<storable, prefVars, sectionOpen, osTheme, fontVars, mapVars, localSteps>>

\* On/off preferences that announce a change to the components that show them,
\* and the sidebar's power mode, which does the same.
Announced == {"batteryPercent", "batteryVoltage", "repeaterPower", "repeaterTemperature", "statusDot"}
\* Preferences of a context, shared by reference.
SharedPrefs == {"distanceUnit", "richPayloads", "pathHopWidth"}
\* The two halves of the local label, handed to the shell.
LabelPrefs == {"labelText", "labelColor"}
\* Read from storage wherever they are used.
ReadAtUse == {"autoFocusInput", "textReplace"}
Prefs == Announced \cup SharedPrefs \cup LabelPrefs \cup ReadAtUse \cup {"theme"}

FollowOS == 2
PrefChoices(p) == IF p \in {"distanceUnit", "repeaterPower", "theme"} THEN 0..2 ELSE 0..1

DefaultFontScale == 100
MinFontScale == 25
MaxFontScale == 400
DefaultMap == "default"
ValidMaps == {DefaultMap, "other"}
MapTexts  == ValidMaps \cup {"re-expands", "no object", "no json"}

Defaults == [p \in Prefs |-> 0]

\* getBoolPreference, getSavedDistanceUnit, ...: the default where storage fails.
Getter(store) == IF storable THEN store ELSE Defaults
\* setBoolPreference, ...: nothing where storage fails.
Setter(p, v) == IF storable THEN [saved EXCEPT ![p] = v] ELSE saved

\* getEffectiveTheme: "Follow OS" stands for a concrete theme.
EffectiveTheme(t, os) == IF t = FollowOS THEN os ELSE t

NormalizeFontScale(n) ==
    IF n = 0 THEN DefaultFontScale
    ELSE IF n < MinFontScale THEN MinFontScale ELSE IF n > MaxFontScale THEN MaxFontScale ELSE n

FontOf(scale) == [scale |-> scale, slider |-> scale, input |-> scale]

LocalInit ==
    /\ storable \in BOOLEAN
    /\ saved = Defaults /\ sectionState = Defaults /\ sectionOpen = FALSE
    /\ osTheme \in {0, 1} /\ live = Defaults
    /\ fontSaved = DefaultFontScale /\ font = FontOf(DefaultFontScale) /\ fontApplied = DefaultFontScale
    /\ mapSaved = DefaultMap /\ mapDraft = DefaultMap /\ mapError = FALSE
    /\ localSteps = 0

LocalStep == localSteps < MaxLocalSteps /\ localSteps' = localSteps + 1
Editing == LocalStep /\ sectionOpen /\ UNCHANGED <<storable, sectionOpen, osTheme>>

(***************************************************************************)
(* Preferences.                                                            *)
(***************************************************************************)
\* Where the section says so, the components that show a preference re-read it.
MutAfterEvent(p, v) == [live EXCEPT ![p] = Getter(saved)[p]]
AfterEvent(p, v) == [live EXCEPT ![p] = IF storable THEN v ELSE 0]

AnnouncedChange(p, v) ==
    /\ sectionState' = [sectionState EXCEPT ![p] = v]
    /\ saved' = Setter(p, v)
    /\ live' = AfterEvent(p, v)

SharedChange(p, v) ==
    /\ live' = [live EXCEPT ![p] = v]
    /\ sectionState' = [sectionState EXCEPT ![p] = v]
    /\ saved' = Setter(p, v)

\* Either half of the label is stored and handed on with the other half as the
\* section has it.
LabelChange(p, v) ==
    LET label == [sectionState EXCEPT ![p] = v]
    IN  /\ sectionState' = label
        /\ saved' = IF storable THEN [q \in Prefs |-> IF q \in LabelPrefs THEN label[q] ELSE saved[q]] ELSE saved
        /\ live' = [q \in Prefs |-> IF q \in LabelPrefs THEN label[q] ELSE live[q]]

QuietChange(p, v) ==
    /\ sectionState' = [sectionState EXCEPT ![p] = v]
    /\ saved' = Setter(p, v)
    /\ live' = [live EXCEPT ![p] = IF storable THEN v ELSE 0]

\* ThemeSelector and applyTheme.
ThemeChange(v) ==
    /\ sectionState' = [sectionState EXCEPT !["theme"] = v]
    /\ saved' = Setter("theme", v)
    /\ live' = [live EXCEPT !["theme"] = EffectiveTheme(v, osTheme)]

Choose(p, v) ==
    /\ Editing /\ v \in PrefChoices(p) /\ v # sectionState[p]
    /\ CASE p \in Announced   -> AnnouncedChange(p, v)
         [] p \in SharedPrefs -> SharedChange(p, v)
         [] p \in LabelPrefs  -> LabelChange(p, v)
         [] p \in ReadAtUse   -> QuietChange(p, v)
         [] OTHER             -> ThemeChange(v)
    /\ UNCHANGED <<fontVars, mapVars>>

\* The system's colour scheme changes: initFollowOSListener.
OsThemeChanges ==
    /\ LocalStep /\ osTheme' = 1 - osTheme
    /\ live' = IF Getter(saved)["theme"] = FollowOS
               THEN [live EXCEPT !["theme"] = EffectiveTheme(FollowOS, osTheme')] ELSE live
    /\ UNCHANGED <<storable, saved, sectionState, sectionOpen, fontVars, mapVars>>

(***************************************************************************)
(* The font scale.                                                         *)
(***************************************************************************)
\* commitFontScale, with setSavedFontScale and applyFontScale.
CommitFontScale(n) ==
    LET scale == NormalizeFontScale(n)
    IN  /\ fontApplied' = scale /\ font' = FontOf(scale)
        /\ fontSaved' = IF storable THEN scale ELSE fontSaved

\* Dragging moves the slider and the field; letting go commits.
HandleSliderChange(n) ==
    /\ Editing /\ n \in SliderStops /\ n # font.slider
    /\ font' = [font EXCEPT !.slider = n, !.input = n]
    /\ UNCHANGED <<prefVars, fontSaved, fontApplied, mapVars>>

HandleSliderCommit ==
    /\ Editing /\ font.slider # font.scale
    /\ CommitFontScale(font.slider)
    /\ UNCHANGED <<prefVars, mapVars>>

\* Typing commits a number within the field's limits at once ...
TypeFontScale(n) ==
    /\ Editing /\ n \in FontSizes /\ n # font.input
    /\ IF n \in MinFontScale..MaxFontScale THEN CommitFontScale(n)
       ELSE font' = [font EXCEPT !.input = n] /\ UNCHANGED <<fontSaved, fontApplied>>
    /\ UNCHANGED <<prefVars, mapVars>>

\* ... and leaving the field, or Enter, any other number; what is no number is
\* replaced by the scale in force.
LeaveFontField ==
    /\ Editing /\ font.input # font.scale
    /\ IF font.input = 0 THEN font' = [font EXCEPT !.input = font.scale] /\ UNCHANGED <<fontSaved, fontApplied>>
       ELSE CommitFontScale(font.input)
    /\ UNCHANGED <<prefVars, mapVars>>

ResetFontScale ==
    /\ Editing /\ font.scale # DefaultFontScale
    /\ CommitFontScale(DefaultFontScale)
    /\ UNCHANGED <<prefVars, mapVars>>

(***************************************************************************)
(* The text replacements.                                                  *)
(***************************************************************************)
\* setTextReplaceMapJson refuses what is not an object of strings, or would
\* replace its own output; a storage that throws is reported as invalid too.
Refused(text) == text \notin ValidMaps \/ ~storable

\* The editor is offered while replacing is on.
EditMap(text) ==
    /\ Editing /\ sectionState["textReplace"] = 1 /\ text # mapDraft
    /\ mapDraft' = text /\ mapError' = Refused(text)
    /\ mapSaved' = IF Refused(text) THEN mapSaved ELSE text
    /\ UNCHANGED <<prefVars, fontVars>>

ResetMap ==
    /\ Editing /\ sectionState["textReplace"] = 1
    /\ mapDraft' = DefaultMap /\ mapError' = FALSE
    /\ mapSaved' = IF storable THEN DefaultMap ELSE mapSaved
    /\ UNCHANGED <<prefVars, fontVars>>

(***************************************************************************)
(* Opening and reloading.                                                  *)
(***************************************************************************)
\* The section mounts: its states are read from storage, but for those of a
\* context.
OpenLocal ==
    /\ LocalStep /\ ~sectionOpen /\ sectionOpen' = TRUE
    /\ sectionState' = [p \in Prefs |-> IF p \in SharedPrefs THEN live[p] ELSE Getter(saved)[p]]
    /\ font' = FontOf(IF storable THEN fontSaved ELSE DefaultFontScale)
    /\ mapDraft' = (IF storable THEN mapSaved ELSE DefaultMap) /\ mapError' = FALSE
    /\ UNCHANGED <<storable, saved, live, osTheme, fontSaved, fontApplied, mapSaved>>

\* It unmounts; what is not committed is gone.
CloseLocal ==
    /\ LocalStep /\ sectionOpen /\ sectionOpen' = FALSE
    /\ UNCHANGED <<storable, prefVars, osTheme, fontVars, mapVars>>

\* The page is loaded again and everything is read from storage.
ReloadPage ==
    /\ LocalStep /\ sectionOpen' = FALSE
    /\ live' = [Getter(saved) EXCEPT !["theme"] = EffectiveTheme(Getter(saved)["theme"], osTheme)]
    /\ fontApplied' = IF storable THEN fontSaved ELSE DefaultFontScale
    /\ UNCHANGED <<storable, saved, sectionState, osTheme, fontSaved, font, mapVars>>

LocalNext ==
    \/ \E p \in Prefs, v \in 0..2 : Choose(p, v)
    \/ \E n \in SliderStops : HandleSliderChange(n)
    \/ \E n \in FontSizes : TypeFontScale(n)
    \/ \E text \in MapTexts : EditMap(text)
    \/ OsThemeChanges \/ HandleSliderCommit \/ LeaveFontField \/ ResetFontScale
    \/ ResetMap \/ OpenLocal \/ CloseLocal \/ ReloadPage

(***************************************************************************)
(* Properties.                                                             *)
(***************************************************************************)
LocalTypeOK ==
    /\ \A p \in Prefs : {saved[p], sectionState[p], live[p]} \subseteq PrefChoices(p)
    /\ {storable, sectionOpen, mapError} \subseteq BOOLEAN /\ osTheme \in {0, 1}
    /\ {fontSaved, fontApplied, font.scale} \subseteq MinFontScale..MaxFontScale
    /\ mapSaved \in ValidMaps /\ mapDraft \in MapTexts

\* Where the browser stores anything, storage, the open section and the rest of
\* the client agree on every preference after every action, in whatever order
\* preferences, sections, reloads and the system's theme changed: nothing the
\* section shows as chosen is lost on reload, and a map of replacements that is
\* not the stored one is marked as not saved (SettingsLocalSection.tsx:593).
PreferencesStored ==
    storable =>
        /\ \A p \in Prefs \ {"theme"} : live[p] = saved[p]
        /\ live["theme"] = EffectiveTheme(saved["theme"], osTheme)
        /\ fontApplied = fontSaved
        /\ sectionOpen => /\ sectionState = saved /\ font.scale = fontSaved
                          /\ mapError = (mapDraft # mapSaved)

(***************************************************************************)
(* The inductive invariant: what is said above, with the shapes of the     *)
(* state it is said of.                                                    *)
(***************************************************************************)
LocalShapes ==
    /\ {saved, sectionState, live} \subseteq [Prefs -> 0..2]
    /\ font \in [scale : Int, slider : Int, input : Int]

LocalInv == LocalShapes /\ LocalTypeOK /\ PreferencesStored
================================================================================
