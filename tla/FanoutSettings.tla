----------------------------- MODULE FanoutSettings -----------------------------
(***************************************************************************)
(* The integrations page: SettingsFanoutSection.tsx.  Rows of the server   *)
(* are listed, created from recipes, edited, renamed in place, switched    *)
(* and deleted.  Requests of one handler run while the user goes on with   *)
(* the page, and each handler finishes with what it captured at its start. *)
(*                                                                         *)
(* A config maps the fields of its form to a value: what the recipe gives  *)
(* ("default"), "blank", text that is not a number in a number field       *)
(* ("junk"), "typed", a choice, or "on" and "off".  A scope holds the      *)
(* messages' mode with its two lists, and the raw packets.                 *)
(***************************************************************************)
EXTENDS Integers, FiniteSets

CONSTANTS
    DraftTypes,    \* the recipes of the create dialog that are offered
    RowIds,        \* identities the server can give (random ones, taken in order)
    ScopeKeys,     \* channels and contacts a scope can list
    MaxFanoutSteps \* bound on the user's interactions

Presets == {"mqtt_community_meshrank", "mqtt_community_letsmesh_us", "mqtt_community_letsmesh_eu"}
Types   == {"mqtt_private", "mqtt_ha", "mqtt_community", "webhook", "apprise", "sqs", "bot", "map_upload"}

ASSUME FanoutAssumption ==
    /\ DraftTypes \subseteq Types \cup Presets /\ "mqtt_private" \in DraftTypes
    /\ {1, 2} \subseteq RowIds /\ RowIds \subseteq Nat \ {0}

VARIABLES
    rows,          \* the server's integrations: a set of records
    lastId,        \* the last identity it gave; it gives none twice
    configs,       \* the client's copy
    editing,       \* editingId and draftType with the edit fields
    inline,        \* inlineEditingId and inlineEditName
    create,        \* createDialogOpen and selectedCreateType
    busy,          \* a save has not finished
    botsDisabled,  \* health.bots_disabled
    scopeLists,    \* the pickers of the scope have loaded their lists
    work,          \* requests on their way
    fanoutSteps

serverVars == <<rows, lastId>>
fanoutVars == <<serverVars, configs, editing, inline, create, busy, botsDisabled, scopeLists, work, fanoutSteps>>

(***************************************************************************)
(* Recipes.                                                                *)
(***************************************************************************)
Broker    == {"broker_host", "broker_port", "username", "password", "use_tls"}
Community == Broker \cup {"transport", "tls_verify", "auth_mode", "iata", "email", "token_audience",
                          "topic_template", "websocket_path"}

\* CREATE_INTEGRATION_DEFINITIONS: the type a recipe is saved as ...
SavedType(draft) == IF draft \in Presets THEN "mqtt_community" ELSE draft

\* ... the fields of its config, with websocket_path and the geofence's fields,
\* which only the editors add ...
FieldsOf(type) ==
    CASE type = "mqtt_private" -> Broker \cup {"tls_insecure", "topic_prefix"}
      [] type = "mqtt_ha"      -> Broker \cup {"tls_insecure", "topic_prefix", "tracked"}
      [] type = "mqtt_community" -> Community
      [] type = "webhook"      -> {"url", "method", "headers", "hmac_secret", "hmac_header"}
      [] type = "apprise"      -> {"urls", "preserve_identity", "include_outgoing", "markdown_format",
                                   "body_format_dm", "body_format_channel"}
      [] type = "sqs"          -> {"queue_url", "region_name", "endpoint_url", "access_key_id",
                                   "secret_access_key", "session_token"}
      [] type = "bot"          -> {"code", "timeout"}
      [] type = "map_upload"   -> {"api_url", "dry_run", "geofence_enabled", "geofence_radius_km"}

Switches == {"use_tls", "tls_insecure", "tls_verify", "preserve_identity", "include_outgoing",
             "markdown_format", "dry_run", "geofence_enabled"}

\* ... and its defaults: createCommunityConfigDefaults with the presets' overrides.
DefaultsOf(draft) ==
    LET type == SavedType(draft) IN
    [f \in FieldsOf(type) |->
        CASE f = "transport" -> IF draft = "mqtt_community_meshrank" THEN "tcp" ELSE "websockets"
          [] f = "auth_mode" -> IF draft = "mqtt_community_meshrank" THEN "none" ELSE "token"
          [] f = "use_tls"   -> IF type = "mqtt_community" THEN "on" ELSE "off"
          [] f \in {"tls_insecure", "include_outgoing", "geofence_enabled"} -> "off"
          [] f \in Switches \ {"use_tls", "tls_insecure", "include_outgoing", "geofence_enabled"} -> "on"
          [] f = "topic_template" /\ draft = "mqtt_community_meshrank" -> "blank"
          [] f \in {"broker_host"} /\ draft \in {"mqtt_private", "mqtt_ha"} -> "blank"
          [] OTHER -> "default"]

ScopeOf(mode, raw) == [mode |-> mode, listed |-> {}, raw |-> raw]
DefaultScope(draft) ==
    IF SavedType(draft) \in {"mqtt_community", "map_upload"} THEN ScopeOf("none", "all")
    ELSE ScopeOf("all", IF draft = "mqtt_private" THEN "all" ELSE "none")

(***************************************************************************)
(* The editors: what one interaction can make of a config.                 *)
(***************************************************************************)
Text(c, fields)   == {[c EXCEPT ![f] = v] : f \in fields, v \in {"blank", "typed"}}
Number(c, fields) == {[c EXCEPT ![f] = v] : f \in fields, v \in {"blank", "junk", "typed"}}
Switch(c, fields) == {[c EXCEPT ![f] = IF @ = "on" THEN "off" ELSE "on"] : f \in fields}
Choice(c, f, vs)  == {[c EXCEPT ![f] = v] : v \in vs}

MqttPrivateConfigEditor(c) ==
    Text(c, {"broker_host", "username", "password", "topic_prefix"}) \cup Number(c, {"broker_port"})
    \cup Switch(c, {"use_tls"} \cup IF c["use_tls"] = "on" THEN {"tls_insecure"} ELSE {})

\* The contacts and repeaters Home Assistant tracks are picked from lists.
HaBrokerFields(c) == MqttPrivateConfigEditor(c)
ToggleTracked(c)  == Choice(c, "tracked", {"default", "typed"})
MqttHaConfigEditor(c) == HaBrokerFields(c) \cup IF scopeLists THEN ToggleTracked(c) ELSE {}

MqttCommunityTransport(c) ==
    Text(c, {"broker_host"} \cup IF c["transport"] = "websockets" THEN {"websocket_path"} ELSE {})
    \cup Number(c, {"broker_port"})
    \cup Choice(c, "transport", {"websockets", "tcp"})
    \cup Choice(c, "auth_mode", {"token", "none", "password"})

MqttCommunityConfigEditor(c) ==
    MqttCommunityTransport(c)
    \cup Text(c, {"iata", "topic_template"}
                 \cup IF c["auth_mode"] = "token" THEN {"token_audience", "email"}
                      ELSE IF c["auth_mode"] = "password" THEN {"username", "password"} ELSE {})
    \cup Switch(c, {"use_tls"} \cup IF c["use_tls"] = "on" THEN {"tls_verify"} ELSE {})

MeshRankConfigEditor(c) == Text([c EXCEPT !["iata"] = "default"], {"topic_template"})

LetsMeshConfigEditor(c) ==
    Text([c EXCEPT !["broker_host"] = "default"], {"email"})
    \cup Text([c EXCEPT !["broker_host"] = "default", !["token_audience"] = "default"], {"iata"})

BotConfigEditor(c) == Text(c, {"code"}) \cup Choice(c, "code", {"default"}) \cup Number(c, {"timeout"})

MapUploadConfigEditor(c) ==
    Text(c, {"api_url"}) \cup Switch(c, {"dry_run", "geofence_enabled"})
    \cup IF c["geofence_enabled"] = "on" THEN Number(c, {"geofence_radius_km"}) ELSE {}

\* Switching markdown rewrites a format that is blank or the other default;
\* "plain" is the default of plain text.
MarkdownSwitched(c) ==
    LET on == c["markdown_format"] = "off"
        Reformat(v) == IF on THEN (IF v \in {"blank", "plain"} THEN "default" ELSE v)
                       ELSE IF v \in {"blank", "default"} THEN "plain" ELSE v
    IN  [c EXCEPT !["markdown_format"] = IF on THEN "on" ELSE "off",
                  !["body_format_dm"] = Reformat(@), !["body_format_channel"] = Reformat(@)]

AppriseFormats(c) ==
    LET formats == {"body_format_dm", "body_format_channel"}
    IN  {MarkdownSwitched(c)} \cup Text(c, formats)
        \cup {[c EXCEPT ![f] = IF c["markdown_format"] = "on" THEN "default" ELSE "plain"] : f \in formats}

AppriseConfigEditor(c) ==
    Text(c, {"urls"}) \cup Switch(c, {"preserve_identity", "include_outgoing"}) \cup AppriseFormats(c)

\* Headers that are not a JSON object are shown with an error and not kept.
HandleHeadersChange(c) == Choice(c, "headers", {"default", "typed"}) \cup {c}
WebhookConfigEditor(c) ==
    Text(c, {"url", "hmac_secret", "hmac_header"}) \cup Choice(c, "method", {"default", "typed"})
    \cup HandleHeadersChange(c)

SqsConfigEditor(c) == Text(c, FieldsOf("sqs"))

\* The detail view: one editor for each type or recipe.
EditorOf(detailType, c) ==
    CASE detailType = "mqtt_private" -> MqttPrivateConfigEditor(c)
      [] detailType = "mqtt_ha" -> MqttHaConfigEditor(c)
      [] detailType = "mqtt_community" -> MqttCommunityConfigEditor(c)
      [] detailType = "mqtt_community_meshrank" -> MeshRankConfigEditor(c)
      [] detailType \in {"mqtt_community_letsmesh_us", "mqtt_community_letsmesh_eu"} -> LetsMeshConfigEditor(c)
      [] detailType = "bot" -> BotConfigEditor(c)
      [] detailType = "apprise" -> AppriseConfigEditor(c)
      [] detailType = "webhook" -> WebhookConfigEditor(c)
      [] detailType = "sqs" -> SqsConfigEditor(c)
      [] detailType = "map_upload" -> MapUploadConfigEditor(c)

(***************************************************************************)
(* The scope's selector.                                                   *)
(***************************************************************************)
ScopeEditors == [mqtt_private |-> TRUE, sqs |-> TRUE, mqtt_ha |-> FALSE, apprise |-> FALSE, webhook |-> FALSE]

\* Where raw packets are not offered, "none" is shown as "all".
ScopeMode(s, showRaw) == IF ~showRaw /\ s.mode = "none" THEN "all" ELSE s.mode

HandleModeChange(s, showRaw) ==
    {[s EXCEPT !.mode = m, !.listed = {}] :
        m \in {"all", "only", "except"} \cup IF showRaw THEN {"none"} ELSE {}}

\* PillsSearchList: one key, all of a list or none, in the mode's own shape.
PillsSearchList(s) ==
    {[s EXCEPT !.listed = IF k \in @ THEN @ \ {k} ELSE @ \cup {k}] : k \in ScopeKeys}
    \cup {[s EXCEPT !.listed = ks] : ks \in {{}, ScopeKeys}}

ScopeSelector(s, showRaw) ==
    HandleModeChange(s, showRaw)
    \cup (IF showRaw THEN {[s EXCEPT !.raw = IF @ = "all" THEN "none" ELSE "all"]} ELSE {})
    \cup (IF ScopeMode(s, showRaw) \in {"only", "except"} /\ scopeLists THEN PillsSearchList(s) ELSE {})

(***************************************************************************)
(* What a save sends.                                                      *)
(***************************************************************************)
Given(c, f) == IF c[f] \in {"blank", "junk"} THEN "default" ELSE c[f]

NormalizeForSave(type, c) ==
    LET normal == CASE type = "mqtt_private"   -> {"broker_port", "topic_prefix"}
                    [] type = "mqtt_community" -> {"broker_host", "broker_port", "topic_template"}
                    [] type = "map_upload"     -> {"geofence_radius_km"}
                    [] OTHER -> {}
    IN  [f \in DOMAIN c |-> IF f \in normal THEN Given(c, f) ELSE c[f]]

\* normalizeDraftConfig: a preset puts its own values back.
NormalizeDraftConfig(draft, c) ==
    IF draft \notin Presets THEN NormalizeForSave(SavedType(draft), c)
    ELSE LET typed == IF draft = "mqtt_community_meshrank" THEN {"topic_template"}
                      ELSE {"email", "iata", "topic_template"}
         IN  NormalizeForSave("mqtt_community",
                 [f \in DOMAIN c |-> IF f \in typed \cup {"websocket_path"} THEN c[f] ELSE DefaultsOf(draft)[f]])

\* A MeshRank draft without a topic is not saved.
DraftRefused(draft, c) == draft = "mqtt_community_meshrank" /\ c["topic_template"] = "blank"

NormalizeDraftScope(draft, s) == IF SavedType(draft) = "mqtt_community" THEN ScopeOf("none", "all") ELSE s

(***************************************************************************)
(* The page.                                                               *)
(***************************************************************************)
Unset  == "none"
NoEditor == [id |-> 0, draft |-> Unset, name |-> "default", config |-> DefaultsOf("sqs"),
           scope |-> ScopeOf("all", "none")]
NoInline == [id |-> 0, name |-> "default"]
RowFor(id, draft, enabled) ==
    [id |-> id, type |-> SavedType(draft), name |-> "default", config |-> DefaultsOf(draft),
     scope |-> DefaultScope(draft), enabled |-> enabled]

EditedRow  == {r \in configs : r.id = editing.id}
DetailType == IF editing.draft # Unset THEN editing.draft
              ELSE IF EditedRow # {} THEN (CHOOSE r \in EditedRow : TRUE).type ELSE Unset
InList     == DetailType = Unset

\* What the detail view and a row of the list offer.
DetailControls == (IF InList THEN {} ELSE {"back", "form"})
                  \cup (IF InList \/ busy THEN {} ELSE {"save"})
                  \cup (IF editing.draft = Unset /\ EditedRow # {} THEN {"delete"} ELSE {})
RowControls(r) == IF ~InList THEN {}
                  ELSE {"toggle", "edit", IF inline.id = r.id THEN "name input" ELSE "name"}

\* availableCreateOptions, and the effect that keeps the dialog's selection
\* among them.
AvailableCreateOptions(disabled) == DraftTypes \ IF disabled THEN {"bot"} ELSE {}
SelectionKept(c, disabled) ==
    [c EXCEPT !.type = IF c.open /\ @ \notin AvailableCreateOptions(disabled) THEN "mqtt_private" ELSE @]

\* The list is requested when the page opens.
ListRequest(after) == [kind |-> "list", rows |-> rows, after |-> after]

FanoutInit ==
    /\ rows \in {{}, {RowFor(1, "webhook", TRUE), RowFor(2, "mqtt_community", FALSE)}}
    /\ lastId = IF rows = {} THEN 0 ELSE 2
    /\ configs = {} /\ editing = NoEditor /\ inline = NoInline
    /\ create = [open |-> FALSE, type |-> Unset]
    /\ busy = FALSE /\ botsDisabled = FALSE /\ scopeLists = FALSE
    /\ work = {ListRequest("mount")} /\ fanoutSteps = 0

FanoutUser == fanoutSteps < MaxFanoutSteps /\ fanoutSteps' = fanoutSteps + 1

\* The create dialog.
OpenCreate(open) ==
    /\ FanoutUser /\ InList /\ create.open # open
    /\ create' = SelectionKept([create EXCEPT !.open = open], botsDisabled)
    /\ UNCHANGED <<serverVars, configs, editing, inline, busy, botsDisabled, scopeLists, work>>

SelectCreate(t) ==
    /\ FanoutUser /\ InList /\ create.open /\ t \in AvailableCreateOptions(botsDisabled)
    /\ create' = [create EXCEPT !.type = t]
    /\ UNCHANGED <<serverVars, configs, editing, inline, busy, botsDisabled, scopeLists, work>>

HandleAddCreate ==
    /\ FanoutUser /\ InList /\ create.open
    /\ create' = [create EXCEPT !.open = FALSE]
    /\ editing' = [id |-> 0, draft |-> create.type, name |-> "default",
                   config |-> DefaultsOf(create.type), scope |-> DefaultScope(create.type)]
    /\ UNCHANGED <<serverVars, configs, inline, busy, botsDisabled, scopeLists, work>>

\* handleEdit, and a form of it that keeps the scope of the editor before.
MutHandleEdit(r) ==
    /\ FanoutUser /\ "edit" \in RowControls(r)
    /\ create' = [create EXCEPT !.open = FALSE] /\ inline' = NoInline
    /\ editing' = [editing EXCEPT !.id = r.id, !.draft = Unset, !.name = r.name, !.config = r.config]
    /\ UNCHANGED <<serverVars, configs, busy, botsDisabled, scopeLists, work>>

HandleEdit(r) ==
    /\ FanoutUser /\ "edit" \in RowControls(r)
    /\ create' = [create EXCEPT !.open = FALSE] /\ inline' = NoInline
    /\ editing' = [id |-> r.id, draft |-> Unset, name |-> r.name, config |-> r.config, scope |-> r.scope]
    /\ UNCHANGED <<serverVars, configs, busy, botsDisabled, scopeLists, work>>

\* One interaction with the editor that is shown.
EditForm ==
    /\ FanoutUser /\ "form" \in DetailControls
    /\ \/ \E c \in EditorOf(DetailType, editing.config) : editing' = [editing EXCEPT !.config = c]
       \/ \E n \in {"blank", "typed"} : editing' = [editing EXCEPT !.name = n]
       \/ /\ DetailType \in DOMAIN ScopeEditors
          /\ \E s \in ScopeSelector(editing.scope, ScopeEditors[DetailType]) :
                editing' = [editing EXCEPT !.scope = s]
    /\ UNCHANGED <<serverVars, configs, inline, create, busy, botsDisabled, scopeLists, work>>

ScopeListsArrive ==
    /\ ~scopeLists /\ scopeLists' = TRUE
    /\ UNCHANGED <<serverVars, configs, editing, inline, create, busy, botsDisabled, work, fanoutSteps>>

\* handleBackToList: a draft or a changed row is left once the user confirms.
HasUnsavedChanges ==
    \/ editing.draft # Unset
    \/ \E r \in EditedRow : <<r.name, r.config, r.scope>> # <<editing.name, editing.config, editing.scope>>

HandleBackToList ==
    /\ FanoutUser /\ "back" \in DetailControls
    /\ editing' \in IF HasUnsavedChanges THEN {NoEditor, editing} ELSE {NoEditor}
    /\ UNCHANGED <<serverVars, configs, inline, create, busy, botsDisabled, scopeLists, work>>

\* handleSave up to the server's answer.
SaveRequest(enabled) ==
    IF editing.draft # Unset
    THEN [kind |-> "create",
          row |-> [id |-> 0, type |-> SavedType(editing.draft),
                   name |-> IF editing.name = "blank" THEN "default" ELSE editing.name,
                   config |-> NormalizeDraftConfig(editing.draft, editing.config),
                   scope |-> NormalizeDraftScope(editing.draft, editing.scope), enabled |-> enabled]]
    ELSE [kind |-> "update",
          row |-> [id |-> editing.id, type |-> DetailType, name |-> editing.name,
                   config |-> NormalizeForSave(DetailType, editing.config),
                   scope |-> editing.scope, enabled |-> enabled]]

HandleSave(enabled) ==
    /\ FanoutUser /\ "save" \in DetailControls
    /\ IF editing.draft # Unset /\ DraftRefused(editing.draft, editing.config)
       THEN UNCHANGED <<busy, work>>
       ELSE busy' = TRUE /\ work' = work \cup {SaveRequest(enabled)}
    /\ UNCHANGED <<serverVars, configs, editing, inline, create, botsDisabled, scopeLists>>

\* The other requests: handleToggleEnabled, handleInlineNameSave, handleDelete.
HandleToggleEnabled(r) ==
    /\ FanoutUser /\ "toggle" \in RowControls(r)
    /\ work' = work \cup {[kind |-> "toggle", row |-> [r EXCEPT !.enabled = ~@]]}
    /\ UNCHANGED <<serverVars, configs, editing, inline, create, busy, botsDisabled, scopeLists>>

HandleStartInlineEdit(r) ==
    /\ FanoutUser /\ "name" \in RowControls(r) /\ inline = NoInline
    /\ inline' = [id |-> r.id, name |-> r.name] /\ create' = [create EXCEPT !.open = FALSE]
    /\ UNCHANGED <<serverVars, configs, editing, busy, botsDisabled, scopeLists, work>>

\* A name that is blank or the same ends the edit, and so does Escape.
HandleInlineNameSave(r, name) ==
    /\ FanoutUser /\ "name input" \in RowControls(r)
    /\ IF name \in {"blank", r.name}
       THEN inline' = NoInline /\ UNCHANGED work
       ELSE inline' = [inline EXCEPT !.name = name]
            /\ work' = work \cup {[kind |-> "rename", row |-> [r EXCEPT !.name = name]]}
    /\ UNCHANGED <<serverVars, configs, editing, create, busy, botsDisabled, scopeLists>>

HandleDeleteConfig(r) ==
    /\ FanoutUser /\ r \in EditedRow /\ "delete" \in DetailControls
    /\ work' = work \cup {[kind |-> "delete", row |-> r]}
    /\ UNCHANGED <<serverVars, configs, editing, inline, create, busy, botsDisabled, scopeLists>>

(***************************************************************************)
(* Answers.                                                                *)
(***************************************************************************)
FreeIds == {i \in RowIds : lastId < i}
NewId   == CHOOSE i \in FreeIds : TRUE

\* What the server makes of a request: only the fields sent are changed.
RowsAfter(w) ==
    LET Patch(q) == CASE w.kind = "update" -> w.row
                      [] w.kind = "toggle" -> [q EXCEPT !.enabled = w.row.enabled]
                      [] w.kind = "rename" -> [q EXCEPT !.name = w.row.name]
    IN  CASE w.kind = "create" -> rows \cup {[w.row EXCEPT !.id = NewId]}
          [] w.kind = "delete" -> {q \in rows : q.id # w.row.id}
          [] OTHER -> {IF q.id = w.row.id THEN Patch(q) ELSE q : q \in rows}
ServerTakes(w) ==
    IF w.kind = "create" THEN FreeIds # {}
    ELSE \E r \in rows : r.id = w.row.id

\* The answer: a save and a delete close whatever editor is open by then, and
\* each handler asks for the list again.
RequestSucceeds(w) ==
    /\ w \in work /\ w.kind # "list" /\ ServerTakes(w)
    /\ rows' = RowsAfter(w) /\ lastId' = IF w.kind = "create" THEN NewId ELSE lastId
    /\ editing' = IF w.kind \in {"create", "update", "delete"} THEN NoEditor ELSE editing
    /\ work' = (work \ {w}) \cup {[kind |-> "list", rows |-> rows', after |-> w.kind]}
    /\ UNCHANGED <<configs, inline, create, busy, botsDisabled, scopeLists, fanoutSteps>>

Saves == {"create", "update"}
RequestRefused(w) ==
    /\ w \in work /\ w.kind # "list" /\ work' = work \ {w}
    /\ busy' = (busy /\ w.kind \notin Saves)
    /\ inline' = IF w.kind = "rename" THEN NoInline ELSE inline
    /\ UNCHANGED <<serverVars, configs, editing, create, botsDisabled, scopeLists, fanoutSteps>>

\* loadConfigs returns, or fails and leaves the list as it is.
LoadConfigs(w) ==
    /\ w \in work /\ w.kind = "list" /\ work' = work \ {w}
    /\ configs' \in {w.rows, configs}
    /\ busy' = (busy /\ w.after \notin Saves)
    /\ inline' = IF w.after = "rename" THEN NoInline ELSE inline
    /\ UNCHANGED <<serverVars, editing, create, botsDisabled, scopeLists, fanoutSteps>>

\* The health refresh reports that bots are disabled, or no longer.
BotsSwitched ==
    /\ FanoutUser
    /\ botsDisabled' = ~botsDisabled /\ create' = SelectionKept(create, botsDisabled')
    /\ UNCHANGED <<serverVars, configs, editing, inline, busy, scopeLists, work>>

FanoutNext ==
    \/ \E open \in BOOLEAN : OpenCreate(open) \/ HandleSave(open)
    \/ \E t \in DraftTypes : SelectCreate(t)
    \/ HandleAddCreate \/ EditForm \/ ScopeListsArrive \/ HandleBackToList \/ BotsSwitched
    \/ \E r \in configs :
          \/ HandleEdit(r) \/ HandleToggleEnabled(r) \/ HandleStartInlineEdit(r) \/ HandleDeleteConfig(r)
          \/ \E n \in {"blank", "typed", "default"} : HandleInlineNameSave(r, n)
    \/ \E w \in work : RequestSucceeds(w) \/ RequestRefused(w) \/ LoadConfigs(w)

(***************************************************************************)
(* Properties.                                                             *)
(***************************************************************************)
FanoutTypeOK ==
    /\ rows \cup configs \subseteq
         {r \in rows \cup configs : r.id \in RowIds /\ DOMAIN r.config = FieldsOf(r.type)}
    /\ DOMAIN editing.config = FieldsOf(IF InList THEN "sqs" ELSE SavedType(DetailType)) \/ InList
    /\ {busy, botsDisabled, scopeLists, create.open} \subseteq BOOLEAN
    /\ create.type \in DraftTypes \cup {Unset}

\* Whatever sequence of drafts, edits and late answers led to it, what this page
\* has stored of a community integration shares no messages (the editor promises
\* "never decrypted messages", SettingsFanoutSection.tsx:1528), and the brokers
\* whose configs it normalizes have a port that is a number.
StoredAsPromised ==
    \A r \in rows :
        /\ r.type = "mqtt_community" => r.scope.mode = "none"
        /\ r.type \in {"mqtt_private", "mqtt_community"} => r.config["broker_port"] \notin {"blank", "junk"}

(***************************************************************************)
(* The inductive invariant: every row the client knows, asks for or will   *)
(* be sent is sound, rows with one identity have one type, and the editor  *)
(* holds what a row of that type may hold.                                 *)
(***************************************************************************)
Known == rows \cup configs \cup
         UNION {IF w.kind = "list" THEN w.rows ELSE IF w.kind = "update" THEN {w.row} ELSE {} : w \in work}

RowFields == {"id", "type", "name", "config", "scope", "enabled"}

Sound(r) ==
    /\ DOMAIN r = RowFields /\ r.type \in Types /\ DOMAIN r.config = FieldsOf(r.type)
    /\ r.type = "mqtt_community" => r.scope.mode = "none"
    /\ r.type \in {"mqtt_private", "mqtt_community"} => r.config["broker_port"] \notin {"blank", "junk"}

RowsSound == \A r \in Known : Sound(r) /\ r.id \in RowIds /\ r.id <= lastId
OneType   == \A r, q \in Known : r.id = q.id => r.type = q.type

WorkSound ==
    \A w \in work :
        /\ w.kind \in {"list", "create", "update", "toggle", "rename", "delete"}
        /\ w.kind = "create" => Sound(w.row)

EditorSound ==
    /\ DOMAIN editing = {"id", "draft", "name", "config", "scope"}
    /\ editing.draft # Unset => /\ editing.draft \in DraftTypes
                                /\ DOMAIN editing.config = FieldsOf(SavedType(editing.draft))
    /\ editing.id \in RowIds \cup {0} /\ editing.id <= lastId
    /\ editing.draft = Unset =>
          \A r \in Known : r.id = editing.id =>
             /\ DOMAIN editing.config = FieldsOf(r.type)
             /\ r.type = "mqtt_community" => editing.scope.mode = "none"

PageTyped ==
    /\ create \in [open : BOOLEAN, type : DraftTypes \cup {Unset}] /\ (create.open => create.type # Unset)
    /\ {busy, botsDisabled, scopeLists} \subseteq BOOLEAN /\ lastId \in Nat

FanoutInv == RowsSound /\ OneType /\ WorkSound /\ EditorSound /\ PageTyped
================================================================================
