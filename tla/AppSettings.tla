------------------------------ MODULE AppSettings ------------------------------
(***************************************************************************)
(* The server's application settings in the web client: useAppSettings.ts, *)
(* the sections that edit them (messaging and advertising in               *)
(* SettingsRadioSection.tsx, SettingsRadioAppSection.tsx,                  *)
(* SettingsDatabaseSection.tsx) and the page that shows and hides those    *)
(* sections (SettingsModal.tsx).  Every answer that replaces appSettings   *)
(* resets every draft on the page.                                         *)
(***************************************************************************)
EXTENDS Integers, Sequences, FiniteSets

CONSTANTS
    Nodes,              \* contacts that can be blocked or tracked
    Routed,             \* nodes with a direct or routed path
    MaxCalls, MaxSettingsSteps    \* bounds of the model

VARIABLES
    server,             \* the stored settings: values, blocked, tracked
    app,                \* appSettings
    page,               \* open, mobile, the expanded sections, the desktop section
    settingsShown,              \* per section, how often it has been hidden
    drafts,             \* what the inputs show, per key
    flags,              \* busy buttons
    chains,             \* saveChainRef of each section: saves waiting for their turn
    calls,              \* requests under way
    telemetry,          \* the radio-app section's schedule and history
    settingsSteps

settingsVars == <<server, app, page, settingsShown, drafts, flags, chains, calls, telemetry, settingsSteps>>

\* "messaging" is flood scope, known regions, contact limit and send gap; "types"
\* the blocked node types and the interval.
KeysOf == [radio |-> {"messaging", "advert", "resend"}, app |-> {"types", "hourly"}, database |-> {"decrypt"}]
PageSections == DOMAIN KeysOf
SettingKeys == UNION {KeysOf[s] : s \in PageSections}
SettingsSectionOf(k) == CHOOSE s \in PageSections : k \in KeysOf[s]
Buttons == {"messaging", "advert", "clean", "purge"}
ButtonSection(b) == IF b \in {"messaging", "advert"} THEN "radio" ELSE "database"

NoSettings == [values |-> [k \in SettingKeys |-> 0], blocked |-> {}, tracked |-> {}]
NoTelemetry == [asked |-> FALSE, schedule |-> -1, history |-> "none"]

SettingsInit ==
    /\ server = NoSettings /\ app = server
    /\ page = [open |-> FALSE, mobile |-> FALSE, expanded |-> {}, desktop |-> "radio"]
    /\ settingsShown = [s \in PageSections |-> 0] /\ drafts = server.values /\ flags = {}
    /\ chains = [s \in PageSections |-> <<>>] /\ calls = {} /\ telemetry = NoTelemetry /\ settingsSteps = 0

SettingsUser == settingsSteps < MaxSettingsSteps /\ settingsSteps' = settingsSteps + 1

(***************************************************************************)
(* The page.                                                               *)
(***************************************************************************)
\* shouldRenderSection and isSectionVisible.
Visible(p) == IF ~p.open THEN {} ELSE IF p.mobile THEN p.expanded ELSE {p.desktop}
Showing(s) == s \in Visible(page)

Call(kind, key, value, section) ==
    [kind |-> kind, key |-> key, value |-> value, section |-> section, mount |-> settingsShown[section],
     stage |-> "send", answered |-> FALSE, ok |-> FALSE, settings |-> NoSettings]
\* fetchAppSettings on its own.
Fetch == Call("get", "messaging", 0, "radio")

\* A section that appears takes its inputs from appSettings, asks for the telemetry
\* schedule and history; one that goes loses drafts, flags, and its chain's tail is
\* no longer its own.
Turned(p) ==
    LET gone == Visible(page) \ Visible(p)
        come == Visible(p) \ Visible(page)
    IN  /\ page' = p
        /\ settingsShown' = [s \in PageSections |-> IF s \in gone THEN settingsShown[s] + 1 ELSE settingsShown[s]]
        /\ drafts' = [k \in SettingKeys |-> IF SettingsSectionOf(k) \in come THEN app.values[k] ELSE drafts[k]]
        /\ flags' = {b \in flags : ButtonSection(b) \notin gone}
        /\ telemetry' = IF "app" \in come
                        THEN [asked |-> TRUE, schedule |-> -1, history |-> IF app.tracked # {} THEN "asked" ELSE "none"]
                        ELSE IF "app" \in gone THEN NoTelemetry ELSE telemetry

OpenPage ==
    /\ ~page.open /\ SettingsUser /\ \E s \in PageSections : Turned([page EXCEPT !.open = TRUE, !.desktop = s])
    /\ calls' = calls \cup {Fetch} /\ UNCHANGED <<server, app, chains>>
ClosePage ==
    /\ page.open
    /\ Turned([page EXCEPT !.open = FALSE, !.expanded = {}])
    /\ UNCHANGED <<server, app, chains, calls, settingsSteps>>
\* The sidebar's navigation, the accordion of the narrow layout, the media query.
ShowSection ==
    /\ page.open /\ ~page.mobile /\ SettingsUser
    /\ \E s \in PageSections \ {page.desktop} : Turned([page EXCEPT !.desktop = s])
    /\ UNCHANGED <<server, app, chains, calls>>
ToggleSettingsSection ==
    /\ page.open /\ page.mobile /\ SettingsUser
    /\ \E s \in PageSections : Turned([page EXCEPT !.expanded = IF s \in @ THEN @ \ {s} ELSE @ \cup {s}])
    /\ UNCHANGED <<server, app, chains, calls>>
ChangeLayout ==
    /\ page.open /\ SettingsUser
    /\ Turned([page EXCEPT !.mobile = ~@])
    /\ UNCHANGED <<server, app, chains, calls>>

(***************************************************************************)
(* appSettings changes: the drafts follow, the schedule is asked for again *)
(* when what it depends on changed, and a history under way is dropped     *)
(* when the tracked list did; telemetryFetchedRef keeps it from being      *)
(* asked for again.                                                        *)
(***************************************************************************)
SetAppSettings(s) ==
    /\ app' = s
    /\ drafts' = s.values
    /\ telemetry' =
         IF ~Showing("app") THEN telemetry
         ELSE [asked |-> telemetry.asked
                         \/ Cardinality(s.tracked) # Cardinality(app.tracked)
                         \/ s.values["hourly"] # app.values["hourly"],
               schedule |-> telemetry.schedule,
               history |-> CASE telemetry.history = "none" /\ s.tracked # {} -> "asked"
                             [] telemetry.history = "asked" /\ s.tracked # app.tracked -> "dropped"
                             [] OTHER -> telemetry.history]

(***************************************************************************)
(* Editing.                                                                *)
(***************************************************************************)
\* Inputs that wait for their button; 2 is a send gap outside 0..30.
MessagingInputs == {[drafts EXCEPT !["messaging"] = v] : v \in 0..2}
AdvertInput     == {[drafts EXCEPT !["advert"] = v] : v \in 0..1}
EditDraft ==
    /\ Showing("radio") /\ SettingsUser
    /\ \E d \in (MessagingInputs \cup AdvertInput) \ {drafts} : drafts' = d
    /\ UNCHANGED <<server, app, page, settingsShown, flags, chains, calls, telemetry>>

CallAllowed == Cardinality(calls) < MaxCalls

\* handleSaveFloodSettings, handleSaveAdvertInterval: only a change is sent.
HandleSaveDraft(k) ==
    /\ Showing("radio") /\ k \notin flags /\ CallAllowed /\ SettingsUser
    /\ drafts[k] # 2 /\ drafts[k] # app.values[k]
    /\ flags' = flags \cup {k} /\ calls' = calls \cup {Call("save", k, drafts[k], "radio")}
    /\ UNCHANGED <<server, app, page, settingsShown, drafts, chains, telemetry>>

\* The auto-resend box saves at once.
ToggleResend ==
    /\ Showing("radio") /\ CallAllowed /\ SettingsUser
    /\ calls' = calls \cup {Call("save", "resend", 1 - app.values["resend"], "radio")}
    /\ UNCHANGED <<server, app, page, settingsShown, drafts, flags, chains, telemetry>>

\* handleAddDiscoveredRegions: regions a repeater reported are added to the draft.
AddDiscoveredRegions ==
    /\ Showing("radio") /\ SettingsUser /\ drafts["messaging"] = 0 /\ drafts' = [drafts EXCEPT !["messaging"] = 1]
    /\ UNCHANGED <<server, app, page, settingsShown, flags, chains, calls, telemetry>>

\* Inputs that save themselves: a save joins the chain.  Some show a draft, which
\* changes at once, others appSettings.
Drafted == {"types", "decrypt"}
Undrafted == {"hourly"}
AutoSaved == [app |-> {"types", "hourly"}, database |-> {"decrypt"}]
PersistAppSettings(s, k) ==
    LET now == IF k \in Undrafted THEN app.values[k] ELSE drafts[k]
    IN  /\ Showing(s) /\ Len(chains[s]) < MaxCalls /\ SettingsUser
        /\ drafts' = IF k \in Drafted THEN [drafts EXCEPT ![k] = 1 - now] ELSE drafts
        /\ chains' = [chains EXCEPT ![s] = Append(@, [key |-> k, value |-> 1 - now,
                                                            prev |-> now, mount |-> settingsShown[s]])]
        /\ UNCHANGED <<server, app, page, settingsShown, flags, calls, telemetry>>

\* The saves whose turn it is: each mount of a section has a chain of its own.
FirstOf(s, mount) == CHOOSE i \in DOMAIN chains[s] : /\ chains[s][i].mount = mount
                                                     /\ \A j \in 1..i-1 : chains[s][j].mount # mount
ChainAdvances(s) ==
    /\ \E i \in DOMAIN chains[s] :
         LET save == chains[s][i] IN
         /\ i = FirstOf(s, save.mount)
         /\ \A c \in calls : ~(c.kind = "chained" /\ c.section = s /\ c.mount = save.mount)
         /\ calls' = calls \cup {[Call("chained", save.key, save.value, s) EXCEPT !.mount = save.mount]}
    /\ UNCHANGED <<server, app, page, settingsShown, drafts, flags, chains, telemetry, settingsSteps>>

\* handleToggleBlockedKey and handleToggleTrackedTelemetry: shown at once.
Flip(S, n) == IF n \in S THEN S \ {n} ELSE S \cup {n}
HandleToggle(list, n) ==
    /\ CallAllowed /\ SettingsUser
    /\ SetAppSettings(IF list = "blocked" THEN [app EXCEPT !.blocked = Flip(@, n)]
                      ELSE [app EXCEPT !.tracked = Flip(@, n)])
    /\ calls' = calls \cup {Call(list, "types", n, "app")}
    /\ UNCHANGED <<server, page, settingsShown, flags, chains>>

\* The rows of the section: what can be unblocked or no longer tracked there.
RouteLabel(n) == IF n \in Routed THEN "direct" ELSE "flood"
TrackedRows == {[key |-> n, route |-> RouteLabel(n), latest |-> telemetry.history] : n \in app.tracked}
BlockedRows == app.blocked
RemoveRow ==
    /\ Showing("app")
    /\ \/ \E r \in TrackedRows : HandleToggle("tracked", r.key)
       \/ \E n \in BlockedRows : HandleToggle("blocked", n)
\* The panes of a contact and of a repeater add to the lists.
BlockNode == \E n \in Nodes \ app.blocked : HandleToggle("blocked", n)
TrackNode == \E n \in Nodes \ app.tracked : HandleToggle("tracked", n)

\* handleCleanup, handlePurgeDecryptedRawPackets.
RunMaintenance(b) ==
    /\ Showing("database") /\ b \notin flags /\ CallAllowed /\ SettingsUser
    /\ flags' = flags \cup {b} /\ calls' = calls \cup {Call("maintenance", b, 0, "database")}
    /\ UNCHANGED <<server, app, page, settingsShown, drafts, chains, telemetry>>

(***************************************************************************)
(* Requests.                                                               *)
(***************************************************************************)
Stored(c) ==
    CASE c.kind \in {"save", "chained"} -> [server EXCEPT !.values[c.key] = c.value]
      [] c.kind = "blocked" -> [server EXCEPT !.blocked = Flip(@, c.value)]
      [] c.kind = "tracked" -> [server EXCEPT !.tracked = Flip(@, c.value)]
      [] OTHER -> server

\* Answers that carry all of the settings; that of a tracked toggle has its list.
Reads(c) == c.kind = "get" \/ c.stage = "get" \/ c.kind = "blocked"

\* The server answers with the settings as they are after the request.
ServeSettings(c) ==
    /\ c \in calls /\ ~c.answered
    /\ \E ok \in BOOLEAN :
         LET s == IF ok /\ c.stage = "send" THEN Stored(c) ELSE server IN
         server' = s /\ calls' = (calls \ {c}) \cup {[c EXCEPT !.answered = TRUE, !.ok = ok,
                                                        !.settings = IF Reads(c) \/ c.kind = "tracked" THEN s ELSE @]}
    /\ UNCHANGED <<app, page, settingsShown, drafts, flags, chains, telemetry, settingsSteps>>

Unflagged(c) == IF c.mount = settingsShown[c.section] THEN flags \ {c.key} ELSE flags
Unchained(c) ==
    IF c.kind # "chained" THEN chains
    ELSE LET i == FirstOf(c.section, c.mount) IN
         [chains EXCEPT ![c.section] = SubSeq(@, 1, i - 1) \o SubSeq(@, i + 1, Len(@))]

\* A save that was accepted, and a toggle that was refused, read the settings again.
ReadsAgain(c) ==
    /\ c.stage = "send"
    /\ c.kind \in (IF c.ok THEN {"save", "chained"} ELSE {"blocked", "tracked"})
ReceiveSettings(c) ==
    /\ c \in calls /\ c.answered
    /\ \/ /\ ReadsAgain(c)
          /\ calls' = (calls \ {c}) \cup {[c EXCEPT !.stage = "get", !.answered = FALSE, !.ok = FALSE]}
          /\ UNCHANGED <<app, drafts, telemetry, flags, chains>>
       \/ /\ ~ReadsAgain(c) /\ calls' = calls \ {c} /\ flags' = Unflagged(c) /\ chains' = Unchained(c)
          /\ \/ c.ok /\ Reads(c) /\ SetAppSettings(c.settings)
             \/ c.ok /\ c.kind = "tracked" /\ c.stage = "send"
                /\ SetAppSettings([app EXCEPT !.tracked = c.settings.tracked])
             \/ /\ ~c.ok /\ c.kind = "chained" /\ c.stage = "send"
                /\ drafts' = IF c.key \in Undrafted \/ c.mount # settingsShown[c.section] THEN drafts
                             ELSE [drafts EXCEPT ![c.key] = chains[c.section][FirstOf(c.section, c.mount)].prev]
                /\ UNCHANGED <<app, telemetry>>
             \/ /\ c.kind = "maintenance" \/ (~c.ok /\ ~(c.kind = "chained" /\ c.stage = "send"))
                /\ UNCHANGED <<app, drafts, telemetry>>
    /\ UNCHANGED <<server, page, settingsShown, settingsSteps>>

\* Only the answer to the latest question is kept.
ScheduleArrives ==
    /\ Showing("app") /\ telemetry.asked
    /\ telemetry' = [telemetry EXCEPT !.asked = FALSE, !.schedule = Cardinality(server.tracked)]
    /\ UNCHANGED <<server, app, page, settingsShown, drafts, flags, chains, calls, settingsSteps>>
TelemetryHistoryArrives ==
    /\ Showing("app") /\ telemetry.history = "asked" /\ telemetry' = [telemetry EXCEPT !.history = "shown"]
    /\ UNCHANGED <<server, app, page, settingsShown, drafts, flags, chains, calls, settingsSteps>>

SettingsNext ==
    \/ OpenPage \/ ClosePage \/ ShowSection \/ ToggleSettingsSection \/ ChangeLayout
    \/ EditDraft \/ (\E k \in {"messaging", "advert"} : HandleSaveDraft(k)) \/ ToggleResend \/ AddDiscoveredRegions
    \/ (\E s \in DOMAIN AutoSaved : \E k \in AutoSaved[s] : PersistAppSettings(s, k))
    \/ (\E s \in PageSections : ChainAdvances(s))
    \/ RemoveRow \/ BlockNode \/ TrackNode \/ (\E b \in {"clean", "purge"} : RunMaintenance(b))
    \/ (\E c \in calls : ServeSettings(c) \/ ReceiveSettings(c))
    \/ ScheduleArrives \/ TelemetryHistoryArrives

SettingsTypeOK ==
    /\ app.values \in [SettingKeys -> 0..1] /\ app.blocked \subseteq Nodes /\ app.tracked \subseteq Nodes
    /\ server.values \in [SettingKeys -> 0..1] /\ server.blocked \subseteq Nodes /\ server.tracked \subseteq Nodes
    /\ drafts \in [SettingKeys -> 0..2] /\ flags \subseteq Buttons /\ page.expanded \subseteq PageSections
    /\ telemetry.history \in {"none", "asked", "shown", "dropped"}

\* A save button of the settings page that says "Saving" or "Deleting" has its
\* request under way, whichever sections were hidden and shown meanwhile; and a
\* section's chain moves only while one of its saves is at the server.
SettingsBusyEnds ==
    /\ \A b \in flags : \E c \in calls : c.key = b /\ c.section = ButtonSection(b) /\ c.mount = settingsShown[c.section]
    /\ \A c \in calls : c.kind = "chained" => chains[c.section] # <<>>

(***************************************************************************)
(* The inductive invariant: a save at the server is still in its chain,    *)
(* and no other save of that chain is at the server, so the save that      *)
(* leaves with its answer is its own.                                      *)
(***************************************************************************)
Settings == [values : [SettingKeys -> 0..1], blocked : SUBSET Nodes, tracked : SUBSET Nodes]
ChainedSaves == [key : {"types", "hourly", "decrypt"}, value : 0..1, prev : 0..1, mount : Nat]
SettingsCalls ==
    [kind : {"get", "save", "chained", "blocked", "tracked", "maintenance"}, key : SettingKeys \cup Buttons,
     value : 0..1 \cup Nodes, section : PageSections, mount : Nat, stage : {"send", "get"},
     answered : BOOLEAN, ok : BOOLEAN, settings : Settings]

SettingsTyped ==
    /\ {server, app} \subseteq Settings
    /\ drafts \in [SettingKeys -> 0..2] /\ \A k \in SettingKeys \ {"messaging"} : drafts[k] \in 0..1
    /\ page \in [open : BOOLEAN, mobile : BOOLEAN, expanded : SUBSET PageSections, desktop : PageSections]
    /\ settingsShown \in [PageSections -> Nat] /\ flags \subseteq Buttons
    /\ chains \in [PageSections -> Seq(ChainedSaves)]
    /\ DOMAIN telemetry = {"asked", "schedule", "history"}
    /\ telemetry.history \in {"none", "asked", "shown", "dropped"}
    /\ \A c \in calls : /\ c \in SettingsCalls
                        /\ c.kind \in {"save", "chained"} => c.key \in SettingKeys /\ c.value \in 0..1
                        /\ c.kind \in {"blocked", "tracked"} => c.value \in Nodes

CallsMade ==
    /\ \A b \in flags : \E c \in calls : c.key = b /\ c.section = ButtonSection(b) /\ c.mount = settingsShown[c.section]
    /\ \A c \in calls : c.kind = "chained" => \E i \in DOMAIN chains[c.section] : chains[c.section][i].mount = c.mount
    /\ \A c, d \in calls : c.kind = "chained" /\ d.kind = "chained" /\ c.section = d.section /\ c.mount = d.mount => c = d

SettingsInv == SettingsTyped /\ CallsMade
=============================================================================
