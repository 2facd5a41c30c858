----------------------------- MODULE RadioSettings -----------------------------
(***************************************************************************)
(* The radio's settings in the web client: the form of                     *)
(* SettingsRadioSection.tsx and the hook behind it, useRadioControl.ts.    *)
(* Saving, changing the identity, importing a file, pausing the connection *)
(* and rebooting are chains of requests; the form closes, the connection   *)
(* drops and the configuration is read again while they are under way.     *)
(***************************************************************************)
EXTENDS Integers, Sequences, FiniteSets

CONSTANTS
    HashSupported,      \* the radio supports path_hash_mode
    ForeignFiles,       \* configuration files made elsewhere
    TypedKey,           \* the private key the user types into the form
    MaxPolls,           \* health polls after a reboot (30 in the code)
    MaxSectionMounts, MaxRadioJobs, MaxRadioSteps   \* bounds of the model

VARIABLES
    radio,              \* the server's radio: config, key, link
    hook,               \* the client's copies: config, health, prev (prevHealthRef), polls left, discovering
    radioSection,            \* the mounted form and its flags
    sectionMounts,      \* how often the form has been opened
    jobs,               \* chains of requests under way
    reading,            \* chosen files being read
    files,              \* files the user can choose
    consent,            \* keys the user has submitted or confirmed (history)
    radioSteps

radioVars == <<radio, hook, radioSection, sectionMounts, jobs, reading, files, consent, radioSteps>>

(***************************************************************************)
(* A configuration.  "place" is latitude and longitude, "modem" frequency, *)
(* bandwidth, spreading factor and coding rate, "sharing" the location     *)
(* source, the extra ACK and the telemetry modes.  In a form, 0 is text    *)
(* that is no number.                                                      *)
(***************************************************************************)
Numbers == {"place", "power", "modem"}
Options == {"sharing", "hash"}
Fields  == {"name"} \cup Numbers \cup Options
NoKey   == 0
Updates == UNION {[S -> 1..2] : S \in SUBSET Fields}
NoUpdate == [f \in {} |-> 1]
RadioFile == [config : Updates, key : Nat]

ASSUME RadioAssumption ==
    /\ TypedKey \in Nat /\ {MaxPolls, MaxSectionMounts, MaxRadioSteps} \subseteq Nat
    /\ ForeignFiles \subseteq RadioFile

Applied(update, config) == [f \in Fields |-> IF f \in DOMAIN update THEN update[f] ELSE config[f]]

\* radio_state with radio_connected.
Links == {"connected", "initializing", "connecting", "paused"}
Linked(l) == l \in {"connected", "initializing"}
HealthOf(l) == [state |-> l, connected |-> Linked(l)]

ClosedSection ==
    [mount |-> 0, form |-> [f \in Fields |-> 1], privateKey |-> NoKey,
     busy |-> FALSE, rebooting |-> FALSE, identityBusy |-> FALSE, connectionBusy |-> FALSE,
     locating |-> FALSE, advertising |-> FALSE, error |-> FALSE, dialog |-> FALSE, pending |-> {}]
Open == radioSection.mount > 0

RadioInit ==
    /\ radio = [config |-> [f \in Fields |-> 1], key |-> NoKey, link |-> "connected"]
    /\ hook = [config |-> radio.config, health |-> HealthOf("connected"), prev |-> "connected",
               polls |-> 0, discovering |-> {}]
    /\ radioSection = ClosedSection /\ sectionMounts = 0 /\ jobs = {} /\ reading = {} /\ files = ForeignFiles
    /\ consent = {NoKey} /\ radioSteps = 0

\* The user acts in the form; a dialog keeps the rest of it out of reach.
RadioUser == Open /\ ~radioSection.dialog /\ radioSteps < MaxRadioSteps /\ radioSteps' = radioSteps + 1

(***************************************************************************)
(* The form.                                                               *)
(***************************************************************************)
\* What one change of an input makes of the form.
Typed(form, field, values) == {[form EXCEPT ![field] = v] : v \in values}
IdentityInputs(form) == Typed(form, "name", 1..2)
\* handlePresetChange: value 1 is the preset, "custom" changes nothing.
HandlePresetChange(form) == {[form EXCEPT !["modem"] = 1]}
CurrentPreset(form) == IF form["modem"] = 1 THEN "preset" ELSE "custom"
ModemInputs(form) == Typed(form, "modem", 0..2) \cup Typed(form, "power", 0..2)
PathHashInput(form) == IF HashSupported THEN Typed(form, "hash", 1..2) ELSE {}
LocationInputs(form) == Typed(form, "place", 0..2) \cup Typed(form, "sharing", 1..2)
TelemetryInputs(form) == Typed(form, "sharing", 1..2)

EditRadioForm ==
    /\ RadioUser
    /\ \E form \in IdentityInputs(radioSection.form) \cup ModemInputs(radioSection.form) \cup PathHashInput(radioSection.form)
                   \cup LocationInputs(radioSection.form) \cup TelemetryInputs(radioSection.form)
                   \cup (IF CurrentPreset(radioSection.form) = "custom" THEN HandlePresetChange(radioSection.form) ELSE {}) :
         form # radioSection.form /\ radioSection' = [radioSection EXCEPT !.form = form]
    /\ UNCHANGED <<radio, hook, sectionMounts, jobs, reading, files, consent>>
TypeKey ==
    /\ Open /\ ~radioSection.dialog /\ radioSection.privateKey = NoKey
    /\ radioSection' = [radioSection EXCEPT !.privateKey = TypedKey]
    /\ UNCHANGED <<radio, hook, sectionMounts, jobs, reading, files, consent, radioSteps>>

\* What the buttons' disabled attributes leave.
SaveOffered       == ~radioSection.busy /\ ~radioSection.rebooting
SetKeyOffered     == ~radioSection.identityBusy /\ radioSection.privateKey # NoKey
LocationOffered   == ~radioSection.locating
ConnectionOffered == ~radioSection.connectionBusy
AdvertOffered     == ~radioSection.advertising /\ hook.health.connected
DiscoverOffered(what) == what \notin hook.discovering /\ hook.health.connected

\* buildUpdate: the name and the numbers always, an option only when it differs.
FormValid(form) == \A f \in Numbers : form[f] # 0
BuildUpdate(form) ==
    LET sent == {"name"} \cup Numbers
                \cup {f \in Options : form[f] # hook.config[f] /\ (f = "hash" => HashSupported)}
    IN  [f \in sent |-> form[f]]

(***************************************************************************)
(* Chains of requests.  Each job carries what it still has to ask and the  *)
(* answer on its way back; requests of different jobs interleave.          *)
(***************************************************************************)
NoAnswer == [f \in Fields |-> 1]
Job(kind, todo, update, key) ==
    [kind |-> kind, todo |-> todo, update |-> update, key |-> key, mount |-> radioSection.mount, answer |-> "none",
     config |-> NoAnswer, link |-> "connected"]
JobAllowed == Cardinality(jobs) < MaxRadioJobs

HandleSaveConfig(reboots) ==
    /\ SaveOffered /\ JobAllowed /\ RadioUser
    /\ IF ~FormValid(radioSection.form) THEN radioSection' = [radioSection EXCEPT !.error = TRUE] /\ UNCHANGED jobs
       ELSE /\ radioSection' = [radioSection EXCEPT !.error = FALSE, !.busy = TRUE]
            /\ jobs' = jobs \cup {Job("save", IF reboots THEN <<"update", "config", "reboot">> ELSE <<"update", "config">>,
                                      BuildUpdate(radioSection.form), NoKey)}
    /\ UNCHANGED <<radio, hook, sectionMounts, reading, files, consent>>

HandleSetPrivateKey ==
    /\ SetKeyOffered /\ JobAllowed /\ RadioUser
    /\ radioSection' = [radioSection EXCEPT !.identityBusy = TRUE]
    /\ jobs' = jobs \cup {Job("identity", <<"key", "config", "reboot">>, NoUpdate, radioSection.privateKey)}
    /\ consent' = consent \cup {radioSection.privateKey}
    /\ UNCHANGED <<radio, hook, sectionMounts, reading, files>>

\* Reading the private key may be switched off on the server.
HandleExportConfig ==
    /\ JobAllowed /\ RadioUser /\ jobs' = jobs \cup {Job("export", <<"read key">>, hook.config, NoKey)}
    /\ UNCHANGED <<radio, hook, radioSection, sectionMounts, reading, files, consent>>

\* populateFormFromImport and buildUpdateFromImport.
PopulateFormFromImport(form, f) == [x \in Fields |-> IF x \in DOMAIN f.config THEN f.config[x] ELSE form[x]]
BuildUpdateFromImport(f, config) ==
    LET sent == {"name"} \cup Numbers \cup {x \in Options \cap DOMAIN f.config : x = "hash" => HashSupported}
    IN  [x \in sent |-> IF x \in DOMAIN f.config THEN f.config[x] ELSE config[x]]

\* The requests of an import begun in the form of that mount, which may be gone.
ApplyImport(f, config, mount, s) ==
    /\ radioSection' = IF mount # s.mount THEN s
                  ELSE [s EXCEPT !.form = PopulateFormFromImport(s.form, f), !.busy = TRUE, !.rebooting = TRUE]
    /\ jobs' = jobs \cup {[Job("import", IF f.key # NoKey THEN <<"key", "config", "update", "config", "reboot">>
                                         ELSE <<"update", "config", "reboot">>,
                               BuildUpdateFromImport(f, config), f.key) EXCEPT !.mount = mount]}

ValidateImportData(f) == {"name", "modem"} \subseteq DOMAIN f.config

\* The handler keeps the configuration of the render in which the file was chosen.
ChooseFile ==
    /\ SaveOffered /\ RadioUser
    /\ \E f \in files : reading' = reading \cup {[file |-> f, config |-> hook.config, mount |-> radioSection.mount]}
    /\ UNCHANGED <<radio, hook, radioSection, sectionMounts, jobs, files, consent>>

MutHandleImportConfig(r) ==
    /\ r \in reading /\ reading' = reading \ {r}
    /\ IF ~ValidateImportData(r.file) THEN UNCHANGED <<radioSection, jobs>>
       ELSE JobAllowed /\ ApplyImport(r.file, r.config, r.mount, radioSection)
    /\ UNCHANGED <<radio, hook, sectionMounts, files, consent, radioSteps>>

\* The file has been read.  One with a private key waits for the dialog.
HandleImportConfig(r) ==
    /\ r \in reading /\ reading' = reading \ {r}
    /\ IF ~ValidateImportData(r.file) THEN UNCHANGED <<radioSection, jobs>>
       ELSE IF r.file.key # NoKey
       THEN /\ radioSection' = IF r.mount # radioSection.mount THEN radioSection
                          ELSE [radioSection EXCEPT !.pending = {r.file}, !.dialog = TRUE]
            /\ UNCHANGED jobs
       ELSE JobAllowed /\ ApplyImport(r.file, r.config, r.mount, radioSection)
    /\ UNCHANGED <<radio, hook, sectionMounts, files, consent, radioSteps>>

HandleConfirmKeyImport ==
    /\ radioSection.dialog /\ JobAllowed
    /\ \E f \in radioSection.pending :
         /\ ApplyImport(f, hook.config, radioSection.mount, [radioSection EXCEPT !.dialog = FALSE, !.pending = {}])
         /\ consent' = consent \cup {f.key}
    /\ UNCHANGED <<radio, hook, sectionMounts, reading, files, radioSteps>>
CancelKeyImport ==
    /\ radioSection.dialog /\ radioSection' = [radioSection EXCEPT !.dialog = FALSE, !.pending = {}]
    /\ UNCHANGED <<radio, hook, sectionMounts, jobs, reading, files, consent, radioSteps>>

\* The label of the button says which it is.
HandleConnectionAction ==
    /\ ConnectionOffered /\ JobAllowed /\ RadioUser
    /\ radioSection' = [radioSection EXCEPT !.connectionBusy = TRUE]
    /\ jobs' = jobs \cup {IF hook.health.state = "paused"
                           THEN Job("reconnect", <<"resume", "health">>, NoUpdate, NoKey)
                           ELSE Job("disconnect", <<"pause", "health">>, NoUpdate, NoKey)}
    /\ UNCHANGED <<radio, hook, sectionMounts, reading, files, consent>>

HandleAdvertise ==
    /\ AdvertOffered /\ JobAllowed /\ RadioUser /\ radioSection' = [radioSection EXCEPT !.advertising = TRUE]
    /\ jobs' = jobs \cup {Job("advert", <<"advert">>, NoUpdate, NoKey)}
    /\ UNCHANGED <<radio, hook, sectionMounts, reading, files, consent>>
\* handleDiscover and handleDiscoverRegions.
HandleDiscover(what) ==
    /\ DiscoverOffered(what) /\ JobAllowed /\ RadioUser /\ hook' = [hook EXCEPT !.discovering = @ \cup {what}]
    /\ jobs' = jobs \cup {Job("discover", <<what>>, NoUpdate, NoKey)}
    /\ UNCHANGED <<radio, radioSection, sectionMounts, reading, files, consent>>

\* The browser's position, not the server's.
HandleGetLocation ==
    /\ LocationOffered /\ RadioUser /\ radioSection' = [radioSection EXCEPT !.locating = TRUE]
    /\ UNCHANGED <<radio, hook, sectionMounts, jobs, reading, files, consent>>
PositionKnown(found) ==
    /\ radioSection.locating
    /\ radioSection' = [radioSection EXCEPT !.locating = FALSE, !.form["place"] = IF found THEN 2 ELSE @]
    /\ UNCHANGED <<radio, hook, sectionMounts, jobs, reading, files, consent, radioSteps>>

\* The server handles a request; it may fail before or after taking effect.
Serve(j) ==
    /\ j \in jobs /\ j.answer = "none"
    /\ \E done \in BOOLEAN, ok \in {"ok", "failed"} :
         LET step == Head(j.todo) IN
         /\ ok = "ok" => done
         /\ radio' = IF ~done THEN radio
                     ELSE CASE step = "update" -> [radio EXCEPT !.config = Applied(j.update, @)]
                            [] step = "key"    -> [radio EXCEPT !.key = j.key]
                            [] step = "reboot" -> [radio EXCEPT !.link = "connecting"]
                            [] step = "pause"  -> [radio EXCEPT !.link = "paused"]
                            [] step = "resume" -> [radio EXCEPT !.link = "connecting"]
                            [] OTHER           -> radio
         /\ (step \in {"config", "health", "advert", "mesh", "regions", "read key"} => done)
         /\ jobs' = (jobs \ {j}) \cup
                    {[j EXCEPT !.answer = ok,
                               !.config = IF step = "config" THEN radio.config ELSE @,
                               !.link   = IF step = "health" THEN radio.link ELSE @]}
    /\ UNCHANGED <<hook, radioSection, sectionMounts, reading, files, consent, radioSteps>>

Refresh == [Job("refresh", <<"config">>, NoUpdate, NoKey) EXCEPT !.mount = 0]

\* The finally blocks: the flags of the form that began the job, if it still stands.
Ended(s, j, failed) ==
    IF j.mount # s.mount THEN s
    ELSE CASE j.kind = "identity"   -> [s EXCEPT !.identityBusy = FALSE, !.error = @ \/ failed]
           [] j.kind \in {"reconnect", "disconnect"} -> [s EXCEPT !.connectionBusy = FALSE]
           [] j.kind = "advert"     -> [s EXCEPT !.advertising = FALSE]
           [] j.kind \in {"save", "import"} -> [s EXCEPT !.busy = FALSE, !.rebooting = FALSE, !.error = @ \/ failed]
           [] OTHER -> s

\* The answer arrives.  A failed read of the configuration is only logged.
Receive(j) ==
    /\ j \in jobs /\ j.answer # "none"
    /\ LET step == Head(j.todo)
           more == Tail(j.todo)
           thrown == j.answer = "failed" /\ step # "config"
           rest == IF thrown THEN <<>>
                   ELSE IF j.kind = "reconnect" /\ step = "health" /\ Linked(j.link) THEN <<"config">>
                   ELSE more
           fresh == step = "config" /\ j.answer = "ok"
           shown == IF fresh /\ Open THEN [radioSection EXCEPT !.form = j.config] ELSE radioSection
       IN  /\ jobs' = (jobs \ {j})
                      \cup (IF rest = <<>> THEN {} ELSE {[j EXCEPT !.todo = rest, !.answer = "none",
                                                                  !.config = NoAnswer, !.link = "connected"]})
           /\ radioSection' = IF rest = <<>> THEN Ended(shown, j, thrown)
                         ELSE IF j.kind = "save" /\ rest = <<"reboot">> /\ j.mount = radioSection.mount
                         THEN [shown EXCEPT !.rebooting = TRUE]
                         ELSE IF j.kind = "identity" /\ step = "key" /\ j.mount = radioSection.mount
                         THEN [shown EXCEPT !.privateKey = NoKey]
                         ELSE shown
           /\ hook' = [hook EXCEPT !.config = IF fresh THEN j.config ELSE @,
                                   !.health = IF j.answer # "ok" THEN @
                                              ELSE IF step = "health" THEN HealthOf(j.link)
                                              ELSE IF step = "reboot" THEN [@ EXCEPT !.connected = FALSE]
                                              ELSE @,
                                   !.polls = IF step = "reboot" /\ j.answer = "ok" THEN MaxPolls ELSE @,
                                   !.discovering = @ \ {step}]
           /\ files' = IF step # "read key" THEN files
                       ELSE files \cup {[config |-> j.update, key |-> IF j.answer = "ok" THEN radio.key ELSE NoKey]}
    /\ UNCHANGED <<radio, sectionMounts, reading, consent, radioSteps>>

(***************************************************************************)
(* Health.                                                                 *)
(***************************************************************************)
\* pollUntilReconnected; a later reboot starts the count again and its token
\* silences the earlier loop.
Poll ==
    /\ hook.polls > 0
    /\ \/ hook' = [hook EXCEPT !.polls = @ - 1] /\ UNCHANGED jobs
       \/ /\ hook' = [hook EXCEPT !.health = HealthOf(radio.link), !.polls = IF Linked(radio.link) THEN 0 ELSE @ - 1]
          /\ jobs' = IF Linked(radio.link) THEN jobs \cup {Refresh} ELSE jobs
    /\ UNCHANGED <<radio, radioSection, sectionMounts, reading, files, consent, radioSteps>>

\* The radio comes and goes.
LinkChanges ==
    /\ radioSteps < MaxRadioSteps /\ radioSteps' = radioSteps + 1 /\ radio.link # "paused"
    /\ \E l \in Links \ {"paused", radio.link} : radio' = [radio EXCEPT !.link = l]
    /\ UNCHANGED <<hook, radioSection, sectionMounts, jobs, reading, files, consent>>

\* onHealth, from the websocket.
OnHealth ==
    /\ hook.prev # radio.link \/ hook.health # HealthOf(radio.link)
    /\ hook' = [hook EXCEPT !.prev = radio.link, !.health = HealthOf(radio.link)]
    /\ jobs' = IF \/ ~Linked(hook.prev) /\ Linked(radio.link)
                  \/ hook.prev = "initializing" /\ radio.link = "connected"
               THEN jobs \cup {Refresh} ELSE jobs
    /\ UNCHANGED <<radio, radioSection, sectionMounts, reading, files, consent, radioSteps>>

\* The settings page shows the section while there is a configuration.
OpenRadio ==
    /\ ~Open /\ sectionMounts < MaxSectionMounts /\ sectionMounts' = sectionMounts + 1
    /\ radioSection' = [ClosedSection EXCEPT !.mount = sectionMounts + 1, !.form = hook.config]
    /\ UNCHANGED <<radio, hook, jobs, reading, files, consent, radioSteps>>
CloseRadio ==
    /\ Open /\ ~radioSection.dialog /\ radioSection' = ClosedSection
    /\ UNCHANGED <<radio, hook, sectionMounts, jobs, reading, files, consent, radioSteps>>

RadioNext ==
    \/ EditRadioForm \/ TypeKey \/ (\E b \in BOOLEAN : HandleSaveConfig(b)) \/ HandleSetPrivateKey
    \/ HandleExportConfig \/ ChooseFile \/ (\E r \in reading : HandleImportConfig(r))
    \/ HandleConfirmKeyImport \/ CancelKeyImport
    \/ HandleConnectionAction \/ HandleAdvertise \/ (\E w \in {"mesh", "regions"} : HandleDiscover(w))
    \/ HandleGetLocation \/ (\E b \in BOOLEAN : PositionKnown(b))
    \/ (\E j \in jobs : Serve(j) \/ Receive(j))
    \/ Poll \/ LinkChanges \/ OnHealth \/ OpenRadio \/ CloseRadio

(***************************************************************************)
(* Properties.                                                             *)
(***************************************************************************)
RadioTypeOK ==
    /\ radio \in [config : [Fields -> 1..2], key : Nat, link : Links]
    /\ hook.config \in [Fields -> 1..2] /\ hook.health.state \in Links /\ hook.prev \in Links
    /\ hook.polls \in 0..MaxPolls
    /\ radioSection.form \in [Fields -> 0..2] /\ radioSection.mount \in 0..MaxSectionMounts
    /\ radioSteps \in 0..MaxRadioSteps
    /\ \A j \in jobs : j.todo # <<>> /\ (\A f \in DOMAIN j.update : j.update[f] \in 1..2)

\* A job begun in the form that is mounted.
Working(kinds) == \E j \in jobs : j.kind \in kinds /\ j.mount = radioSection.mount

\* A form that says it is saving, rebooting, changing the identity or the
\* connection, or advertising has a job of its own under way, whatever else was
\* saved, imported or closed in between (the finally blocks of
\* SettingsRadioSection.tsx).
RadioBusyEnds ==
    /\ radioSection.busy \/ radioSection.rebooting => Working({"save", "import"})
    /\ radioSection.identityBusy => Working({"identity"})
    /\ radioSection.connectionBusy => Working({"reconnect", "disconnect"})
    /\ radioSection.advertising => Working({"advert"})
    /\ \A w \in hook.discovering : \E j \in jobs : j.todo = <<w>>

\* The radio only ever takes a private key the user typed and submitted, or one
\* whose file the user confirmed in the dialog (SettingsRadioSection.tsx:684):
\* no import, and no file read late, changes the radio's identity unasked.
KeyNeedsConsent == radio.key \in consent

\* Why they hold.  The names of a configuration's fields that are no numbers
\* are never left empty, and a job that has a key still to send was consented to.
Config == [Fields -> 1..2]
Kinds == {"save", "identity", "export", "import", "reconnect", "disconnect", "advert", "discover", "refresh"}
Requests == {"update", "config", "reboot", "key", "read key", "resume", "pause", "health", "advert", "mesh", "regions"}
SectionOK(s) ==
    /\ s \in
         [mount : 0..MaxSectionMounts, form : [Fields -> 0..2], privateKey : {NoKey, TypedKey},
          busy : BOOLEAN, rebooting : BOOLEAN, identityBusy : BOOLEAN, connectionBusy : BOOLEAN,
          locating : BOOLEAN, advertising : BOOLEAN, error : BOOLEAN, dialog : BOOLEAN,
          pending : SUBSET RadioFile]
    /\ \A f \in Fields \ Numbers : s.form[f] # 0
SectionTyped == SectionOK(radioSection) /\ sectionMounts \in 0..MaxSectionMounts
HookTyped ==
    hook \in [config : Config, health : [state : Links, connected : BOOLEAN], prev : Links,
              polls : 0..MaxPolls, discovering : SUBSET Requests]
FilesTyped ==
    /\ files \subseteq RadioFile
    /\ reading \subseteq [file : RadioFile, config : Config, mount : Nat]
JobOK(j, agreed) ==
    /\ j \in [kind : Kinds, todo : Seq(Requests), update : Updates, key : Nat, mount : Nat,
              answer : {"none", "ok", "failed"}, config : Config, link : Links]
    /\ j.todo # <<>>
    /\ \A i \in DOMAIN j.todo : j.todo[i] = "key" => j.key \in agreed
RadioInv ==
    /\ RadioTypeOK /\ SectionTyped /\ HookTyped /\ FilesTyped
    /\ \A j \in jobs : JobOK(j, consent)
    /\ RadioBusyEnds /\ KeyNeedsConsent

=============================================================================
