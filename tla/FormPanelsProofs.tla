--------------------------- MODULE FormPanelsProofs ---------------------------
(***************************************************************************)
(* Proofs about the panels that are forms and logins: a request carries    *)
(* what was agreed to, finds the panel that sent it or none, and what it   *)
(* stores is what the panel shows.                                         *)
(***************************************************************************)
EXTENDS NewConversation, BulkDelete, ServerDashboards, RoomServers, FanoutSettings,
        RadioSettings, LocalSettings, PushDevices, FiniteSetTheorems, SequenceTheorems, TLAPS

-----------------------------------------------------------------------------
(* The dialog of a new conversation                                         *)

\* Setting a field to what it is changes nothing.
LEMMA SameField == ASSUME NEW D, NEW R, NEW f \in [D -> R], NEW x \in D PROVE [f EXCEPT ![x] = f[x]] = f
OBVIOUS

LEMMA BlankIsForm ==
    /\ DOMAIN BlankForm = {"name", "contactType", "contactKey", "channelKey", "bulk", "historical", "extended"}
    /\ {} \in Pasted => \A f \in DOMAIN BlankForm : BlankForm[f] \in ValuesOf(f)
<1>1. DOMAIN BlankForm = {"name", "contactType", "contactKey", "channelKey", "bulk", "historical", "extended"}
  BY DEF BlankForm
<1>2. /\ BlankForm.name \in ValuesOf("name") /\ BlankForm.contactType \in ValuesOf("contactType")
      /\ {} \in Pasted => BlankForm.bulk \in ValuesOf("bulk")
      /\ BlankForm.contactKey \in ValuesOf("contactKey") /\ BlankForm.channelKey \in ValuesOf("channelKey")
      /\ BlankForm.historical \in ValuesOf("historical") /\ BlankForm.extended \in ValuesOf("extended")
  BY DEF BlankForm, ValuesOf
<1> QED
  BY <1>1, <1>2

LEMMA NewStarts == ASSUME NewInit PROVE NewInv
BY BlankIsForm, PastedAssumption DEF NewInit, NewInv, NewTypeOK, ClosedFormIsBlank, CreatingEnds, NewTabs

LEMMA NewStep ==
    ASSUME NewInv, [NewNext]_newVars
    PROVE  NewInv'
<1> USE DEF NewInv
<1> DEFINE Flags == {newOpen, bulkTab, newCreating, formError} \subseteq BOOLEAN
           FormOK == (\A f \in DOMAIN BlankForm : form[f] \in ValuesOf(f)) /\ DOMAIN form = DOMAIN BlankForm
<1>0. \A f \in DOMAIN BlankForm : BlankForm[f] \in ValuesOf(f)
  BY BlankIsForm, PastedAssumption
<1>1. CASE UNCHANGED newVars
  BY <1>1 DEF newVars, NewTypeOK, ClosedFormIsBlank, CreatingEnds
<1>2. ASSUME NEW alt \in BOOLEAN, OpenNewMessage(alt)
      PROVE  NewInv'
  <2>1. FormOK'
    <3>1. CASE alt
      <4>1. form' = [BlankForm EXCEPT !.contactType = form.contactType]
        BY <1>2, <3>1 DEF OpenNewMessage
      <4> QED
        BY <1>0, <4>1, BlankIsForm DEF NewTypeOK
    <3>2. CASE ~alt
      BY <1>2, <3>2 DEF OpenNewMessage, NewTypeOK
    <3> QED
      BY <3>1, <3>2
  <2>2. Flags' /\ newTab' \in NewTabs /\ UNCHANGED creates /\ newOpen' = TRUE /\ (newCreating' => newCreating)
    BY <1>2, Zenon DEF OpenNewMessage, NewTypeOK, NewTabs
  <2> QED
    BY <2>1, <2>2 DEF NewTypeOK, ClosedFormIsBlank, CreatingEnds
<1>3. ASSUME NEW n \in Names, OpenPrefilled(n)
      PROVE  NewInv'
  <2>1. form' = [BlankForm EXCEPT !.name = n, !.contactType = form.contactType]
    BY <1>3 DEF OpenPrefilled
  <2>2. FormOK'
    <3>1. n \in ValuesOf("name") /\ form.contactType \in ValuesOf("contactType")
      BY BlankIsForm DEF ValuesOf, NewTypeOK
    <3> QED
      BY <1>0, <2>1, <3>1, BlankIsForm
  <2>3. newOpen' = TRUE /\ bulkTab' = FALSE /\ newTab' = "hashtag" /\ formError' = FALSE /\ newCreating' = FALSE
        /\ UNCHANGED creates
    BY <1>3 DEF OpenPrefilled
  <2> QED
    BY <2>2, <2>3 DEF NewTypeOK, ClosedFormIsBlank, CreatingEnds, NewTabs
<1>4. CASE CancelNew
  BY <1>0, <1>4 DEF CancelNew, ResetForm, CloseNew, NewTypeOK, ClosedFormIsBlank, CreatingEnds
<1>5. ASSUME NEW t \in NewTabs, ChangeTab(t)
      PROVE  NewInv'
  BY <1>0, <1>5 DEF ChangeTab, InDialog, ResetForm, NewTypeOK, ClosedFormIsBlank, CreatingEnds
<1>6. ASSUME NEW f \in DOMAIN BlankForm, NEW v \in ValuesOf(f), EnterField(f, v)
      PROVE  NewInv'
  <2>1. FormOK'
    BY <1>6 DEF EnterField, NewTypeOK
  <2> QED
    BY <1>6, <2>1 DEF EnterField, InDialog, NewTypeOK, ClosedFormIsBlank, CreatingEnds
<1>7. ASSUME NEW again \in BOOLEAN, HandleCreateNew(again)
      PROVE  NewInv'
  <2>1. CASE Complete
    <3>1. Wanted # {}
      BY <2>1 DEF Complete, Wanted, NewTypeOK, NewTabs
    <3>2. PICK w : w = [id |-> newSteps, again |-> again, names |-> Wanted]
      OBVIOUS
    <3>3. creates' = creates \cup {w} /\ w.names # {} /\ w.again \in BOOLEAN /\ newCreating' = TRUE /\ formError' = FALSE
      BY <1>7, <2>1, <3>1, <3>2 DEF HandleCreateNew
    <3>4. UNCHANGED <<newOpen, bulkTab, newTab, form>>
      BY <1>7 DEF HandleCreateNew, InDialog
    <3> QED
      BY <3>3, <3>4 DEF NewTypeOK, ClosedFormIsBlank, CreatingEnds
  <2>2. CASE ~Complete
    BY <1>7, <2>2 DEF HandleCreateNew, InDialog, NewTypeOK, ClosedFormIsBlank, CreatingEnds
  <2> QED
    BY <2>1, <2>2
<1>8. ASSUME NEW c \in creates, NewCreated(c)
      PROVE  NewInv'
  <2>1. creates' \subseteq creates /\ newCreating' = FALSE /\ UNCHANGED newTab
    BY <1>8 DEF NewCreated
  <2>2. CASE ResetForm /\ CloseNew
    BY <1>0, <2>1, <2>2 DEF ResetForm, CloseNew, NewTypeOK, ClosedFormIsBlank, CreatingEnds
  <2>3. CASE form' = [form EXCEPT !.name = NoText] /\ UNCHANGED <<formError, newOpen, bulkTab>>
    <3>1. FormOK'
      BY <2>3, BlankIsForm DEF NewTypeOK, ValuesOf
    <3>2. ClosedFormIsBlank'
      <4>1. form = BlankForm => form' = BlankForm
        <5>1. [BlankForm EXCEPT !.name = NoText] = BlankForm
          <6>1. BlankForm \in [DOMAIN BlankForm -> {BlankForm[f] : f \in DOMAIN BlankForm}]
            BY DEF BlankForm
          <6>2. BlankForm = [BlankForm EXCEPT !.name = BlankForm.name]
            BY <6>1, SameField DEF BlankForm
          <6>3. BlankForm.name = NoText
            BY DEF BlankForm
          <6> QED
            BY <6>2, <6>3
        <5> QED
          BY <2>3, <5>1
      <4> QED
        BY <2>3, <4>1 DEF ClosedFormIsBlank
    <3> QED
      BY <2>1, <2>3, <3>1, <3>2 DEF NewTypeOK, CreatingEnds
  <2>4. CASE formError' = TRUE /\ UNCHANGED <<form, newOpen, bulkTab>>
    BY <2>1, <2>4 DEF NewTypeOK, ClosedFormIsBlank, CreatingEnds
  <2> QED
    BY <1>8, <2>2, <2>3, <2>4 DEF NewCreated
<1> QED
  BY <1>1, <1>2, <1>3, <1>4, <1>5, <1>6, <1>7, <1>8 DEF NewNext

-----------------------------------------------------------------------------
(* Deleting contacts in bulk                                                *)

LEMMA BulkStarts == ASSUME BulkInit PROVE BulkInv
BY DEF BulkInit, BulkInv, BulkTypeOK, SelectionIsOwn, DeletesOnlyPicked, BulkDeletingEnds, FirstSort, SortFields

\* What is done in the open dialog leaves the deletions alone.
LEMMA WithinDialog ==
    ASSUME BulkInv, Within, {selectedKeys', picked'} \subseteq SUBSET BulkContacts,
           lastClickedKey' \in BulkContacts \cup {0}, bulkStep' \in {"select", "confirm"},
           sorting' \in [field : SortFields, ascending : BOOLEAN],
           selectedKeys' \subseteq picked', bulkStep' = "confirm" => selectedKeys' # {}
    PROVE  BulkInv'
BY DEF BulkInv, BulkTypeOK, SelectionIsOwn, DeletesOnlyPicked, BulkDeletingEnds, Within

LEMMA BulkStep ==
    ASSUME BulkInv, [BulkNext]_bulkVars
    PROVE  BulkInv'
<1> USE DEF BulkInv, BulkTypeOK, SelectionIsOwn
<1>0. FilteredContacts \subseteq BulkContacts /\ 0 \notin BulkContacts
  BY BulkAssumption DEF FilteredContacts
<1>1. CASE UNCHANGED bulkVars
  BY <1>1 DEF bulkVars, dialogVars, DeletesOnlyPicked, BulkDeletingEnds
<1>2. CASE OpenBulk
  BY <1>2 DEF OpenBulk, DeletesOnlyPicked, BulkDeletingEnds
<1>3. CASE HandleSelectAll
  BY <1>0, <1>3, WithinDialog DEF HandleSelectAll, Selecting
<1>4. CASE HandleSelectNone
  BY <1>4, WithinDialog DEF HandleSelectNone, Selecting
<1>5. CASE Proceed
  BY <1>5, WithinDialog DEF Proceed, Selecting
<1>6. CASE Back
  BY <1>6, WithinDialog DEF Back
<1>7. CASE DismissBulk
  BY <1>7 DEF DismissBulk, ResetAndClose, DeletesOnlyPicked, BulkDeletingEnds, FirstSort, SortFields
<1>8. CASE HandleBulkDelete
  <2>1. UNCHANGED <<known, dialogVars>> /\ bulkDeleting' = TRUE
        /\ deletions' = deletions \cup {[keys |-> selectedKeys, picked |-> picked]}
        /\ selectedKeys # {} /\ selectedKeys \subseteq picked
    BY <1>8 DEF HandleBulkDelete
  <2>2. PICK d : d = [keys |-> selectedKeys, picked |-> picked]
    OBVIOUS
  <2>3. deletions' = deletions \cup {d} /\ d.keys # {} /\ d.keys \subseteq d.picked
    BY <2>1, <2>2
  <2>4. DeletesOnlyPicked' /\ BulkDeletingEnds'
    BY <2>3 DEF DeletesOnlyPicked, BulkDeletingEnds
  <2> QED
    BY <2>1, <2>4 DEF dialogVars
<1>9. ASSUME NEW f \in DOMAIN NoFilters, NEW v \in ContactTypes \cup Dates, SetFilter(f, v)
      PROVE  BulkInv'
  BY <1>9, WithinDialog DEF SetFilter, Selecting
<1>10. ASSUME NEW f \in SortFields, HandleSort(f)
       PROVE  BulkInv'
  <2>1. sorting' \in [field : SortFields, ascending : BOOLEAN]
    <3>1. CASE f = sorting.field
      BY <1>10, <3>1 DEF HandleSort
    <3>2. CASE f # sorting.field
      <4>1. sorting' = [field |-> f, ascending |-> f \in {"name", "key"}]
        BY <1>10, <3>2 DEF HandleSort
      <4> QED
        BY <4>1
    <3> QED
      BY <3>1, <3>2
  <2> QED
    BY <1>10, <2>1, WithinDialog DEF HandleSort, Selecting
<1>11. ASSUME NEW c \in BulkContacts, NEW shift \in BOOLEAN, HandleToggleRow(c, shift)
       PROVE  BulkInv'
  <2>1. PICK span : /\ span \subseteq BulkContacts /\ picked' = picked \cup span
                    /\ selectedKeys' \in {selectedKeys \ {c}, selectedKeys \cup span}
    <3> DEFINE range == shift /\ lastClickedKey \notin {0, c} /\ lastClickedKey \in FilteredContacts
               span  == IF range THEN RowsBetween(lastClickedKey, c) ELSE {c}
    <3>1. span \subseteq BulkContacts
      BY <1>0 DEF RowsBetween
    <3>2. /\ selectedKeys' = IF ~range /\ c \in selectedKeys THEN selectedKeys \ {c} ELSE selectedKeys \cup span
          /\ picked' = picked \cup span
      BY <1>11 DEF HandleToggleRow
    <3> HIDE DEF span, range
    <3> QED
      BY <3>1, <3>2
  <2>2. Selecting /\ lastClickedKey' = c /\ UNCHANGED <<bulkStep, filters, sorting>>
    BY <1>11 DEF HandleToggleRow
  <2> QED
    BY <2>1, <2>2, WithinDialog DEF Selecting
<1>12. ASSUME NEW c \in BulkContacts, ContactAnnounced(c)
       PROVE  BulkInv'
  BY <1>12 DEF ContactAnnounced, dialogVars, DeletesOnlyPicked, BulkDeletingEnds
<1>13. ASSUME NEW d \in deletions, BulkDeleteReturns(d)
       PROVE  BulkInv'
  <2>1. bulkDeleting' = FALSE /\ deletions' \subseteq deletions /\ known' \subseteq BulkContacts
    BY <1>13 DEF BulkDeleteReturns
  <2>2. UNCHANGED dialogVars \/ ResetAndClose
    BY <1>13 DEF BulkDeleteReturns
  <2>3. DeletesOnlyPicked' /\ BulkDeletingEnds'
    BY <2>1 DEF DeletesOnlyPicked, BulkDeletingEnds
  <2>4. CASE UNCHANGED dialogVars
    <3>1. UNCHANGED <<bulkOpen, bulkStep, selectedKeys, lastClickedKey, sorting, picked>>
      BY <2>4 DEF dialogVars
    <3> QED
      BY <2>1, <2>3, <3>1
  <2>5. CASE ResetAndClose
    BY <2>1, <2>3, <2>5 DEF ResetAndClose, FirstSort, SortFields
  <2> QED
    BY <2>2, <2>4, <2>5
<1> QED
  BY <1>1, <1>2, <1>3, <1>4, <1>5, <1>6, <1>7, <1>8, <1>9, <1>10, <1>11, <1>12, <1>13 DEF BulkNext

-----------------------------------------------------------------------------
(* The radio's settings                                                     *)

USE DEF NoKey

\* The configurations: what an update, a file or a form makes of another.
LEMMA FieldNames ==
    /\ Numbers = {"place", "power", "modem"} /\ Options = {"sharing", "hash"}
    /\ Fields = {"name", "place", "power", "modem", "sharing", "hash"}
BY DEF Fields, Numbers, Options

LEMMA UpdateTyped ==
    /\ \A S \in SUBSET Fields : [S -> 1..2] \subseteq Updates
    /\ \A u \in Updates : DOMAIN u \subseteq Fields /\ \A f \in DOMAIN u : u[f] \in 1..2
    /\ NoUpdate \in Updates /\ Config \subseteq Updates
<1>1. \A S \in SUBSET Fields : [S -> 1..2] \subseteq Updates
  BY DEF Updates
<1>2. \A u \in Updates : DOMAIN u \subseteq Fields /\ \A f \in DOMAIN u : u[f] \in 1..2
  BY DEF Updates
<1>3. NoUpdate \in [{} -> 1..2] /\ {} \in SUBSET Fields
  BY DEF NoUpdate
<1> QED
  BY <1>1, <1>2, <1>3 DEF Config

LEMMA AppliedTyped ==
    \A u \in Updates : \A c \in Config : Applied(u, c) \in Config
BY UpdateTyped DEF Applied, Config

LEMMA BuiltTyped ==
    ASSUME HookTyped, NEW inputs \in [Fields -> 0..2], \A f \in Fields \ Numbers : inputs[f] # 0, FormValid(inputs)
    PROVE  BuildUpdate(inputs) \in Updates
<1>1. PICK S : S \in SUBSET Fields /\ BuildUpdate(inputs) = [f \in S |-> inputs[f]]
  <2> DEFINE T == {"name"} \cup Numbers \cup {f \in Options : inputs[f] # hook.config[f] /\ (f = "hash" => HashSupported)}
  <2>1. T \in SUBSET Fields
    BY DEF Fields
  <2>2. BuildUpdate(inputs) = [f \in T |-> inputs[f]]
    BY DEF BuildUpdate
  <2> HIDE DEF T
  <2> QED
    BY <2>1, <2>2
<1>2. \A f \in S : inputs[f] \in 1..2
  BY <1>1 DEF FormValid
<1>3. [f \in S |-> inputs[f]] \in [S -> 1..2]
  BY <1>2
<1> QED
  BY <1>1, <1>3, UpdateTyped

LEMMA ImportTyped ==
    ASSUME NEW f \in RadioFile, NEW c \in Config
    PROVE  BuildUpdateFromImport(f, c) \in Updates
<1>0. f.config \in Updates
  BY DEF RadioFile
<1>1. PICK S : /\ S \in SUBSET Fields
               /\ BuildUpdateFromImport(f, c) = [x \in S |-> IF x \in DOMAIN f.config THEN f.config[x] ELSE c[x]]
  <2> DEFINE T == {"name"} \cup Numbers \cup {x \in Options \cap DOMAIN f.config : x = "hash" => HashSupported}
  <2>1. T \in SUBSET Fields
    BY DEF Fields
  <2>2. BuildUpdateFromImport(f, c) = [x \in T |-> IF x \in DOMAIN f.config THEN f.config[x] ELSE c[x]]
    BY DEF BuildUpdateFromImport
  <2> HIDE DEF T
  <2> QED
    BY <2>1, <2>2
<1>2. [x \in S |-> IF x \in DOMAIN f.config THEN f.config[x] ELSE c[x]] \in [S -> 1..2]
  BY <1>0, <1>1, UpdateTyped DEF Config
<1> QED
  BY <1>1, <1>2, UpdateTyped

LEMMA PopulatedTyped ==
    ASSUME NEW f \in RadioFile, NEW inputs \in [Fields -> 0..2], \A x \in Fields \ Numbers : inputs[x] # 0
    PROVE  LET g == PopulateFormFromImport(inputs, f)
           IN  g \in [Fields -> 0..2] /\ \A x \in Fields \ Numbers : g[x] # 0
<1>0. f.config \in Updates
  BY DEF RadioFile
<1> QED
  BY <1>0, UpdateTyped DEF PopulateFormFromImport

LEMMA HealthTyped ==
    \A l \in Links : HealthOf(l) \in [state : Links, connected : BOOLEAN]
BY DEF HealthOf, Linked

LEMMA RadioStarts == ASSUME RadioInit PROVE RadioInv
<1>1. [f \in Fields |-> 1] \in Config /\ "connected" \in Links
  BY DEF Config, Links
<1>2. radio \in [config : Config, key : Nat, link : Links] /\ radio.config = [f \in Fields |-> 1] /\ radio.key = 0
  BY <1>1 DEF RadioInit
<1>3. HookTyped
  BY <1>1, <1>2, HealthTyped, RadioAssumption DEF RadioInit, HookTyped
<1>4. SectionTyped
  BY RadioAssumption DEF SectionOK, RadioInit, ClosedSection, SectionTyped
<1>5. FilesTyped
  BY RadioAssumption DEF RadioInit, FilesTyped
<1>6. RadioTypeOK
  BY <1>2, <1>3, <1>4, RadioAssumption DEF SectionOK, RadioInit, RadioTypeOK, HookTyped, SectionTyped, Config
<1>7. RadioBusyEnds
  BY DEF RadioInit, RadioBusyEnds, ClosedSection
<1> QED
  BY <1>2, <1>3, <1>4, <1>5, <1>6, <1>7 DEF RadioInit, RadioInv, KeyNeedsConsent

\* What has to be shown of a step.
LEMMA RadioHolds ==
    ASSUME radio' \in [config : Config, key : Nat, link : Links], radioSteps' \in 0..MaxRadioSteps,
           SectionTyped', HookTyped', FilesTyped', \A j \in jobs' : JobOK(j, consent'), RadioBusyEnds', KeyNeedsConsent'
    PROVE  RadioInv'
<1>1. \A j \in jobs' : j.todo # <<>> /\ \A f \in DOMAIN j.update : j.update[f] \in 1..2
  BY UpdateTyped DEF JobOK
<1>2. /\ hook'.config \in Config /\ hook'.health.state \in Links /\ hook'.prev \in Links /\ hook'.polls \in 0..MaxPolls
      /\ radioSection'.form \in [Fields -> 0..2] /\ radioSection'.mount \in 0..MaxSectionMounts
  BY DEF SectionOK, SectionTyped, HookTyped
<1> QED
  BY <1>1, <1>2 DEF RadioInv, RadioTypeOK, Config

\* A form that claims no more than another of the same mount.
NoBusier(t, s) ==
    /\ t.mount = s.mount
    /\ t.busy \/ t.rebooting => s.busy \/ s.rebooting
    /\ t.identityBusy => s.identityBusy
    /\ t.connectionBusy => s.connectionBusy
    /\ t.advertising => s.advertising

LEMMA BusyKept ==
    ASSUME RadioBusyEnds, NoBusier(radioSection', radioSection), jobs \subseteq jobs',
           hook'.discovering \subseteq hook.discovering
    PROVE  RadioBusyEnds'
BY DEF RadioBusyEnds, NoBusier, Working

LEMMA JobsKept ==
    ASSUME \A j \in jobs : JobOK(j, consent), consent \subseteq consent', \A j \in jobs' \ jobs : JobOK(j, consent')
    PROVE  \A j \in jobs' : JobOK(j, consent')
BY DEF JobOK


LEMMA JobMade ==
    ASSUME SectionTyped, NEW kind \in Kinds, NEW todo \in Seq(Requests), NEW update \in Updates, NEW key \in Nat,
           todo # <<>>, NEW agreed, \A i \in DOMAIN todo : todo[i] = "key" => key \in agreed
    PROVE  /\ JobOK(Job(kind, todo, update, key), agreed)
           /\ Job(kind, todo, update, key).kind = kind /\ Job(kind, todo, update, key).todo = todo
           /\ Job(kind, todo, update, key).mount = radioSection.mount
<1>1. NoAnswer \in Config /\ "connected" \in Links /\ radioSection.mount \in Nat
  BY RadioAssumption DEF SectionOK, NoAnswer, Config, Links, SectionTyped
<1> QED
  BY <1>1 DEF Job, JobOK

\* A step of the form that begins no job and claims nothing new.
LEMMA FormStep ==
    ASSUME RadioInv, SectionTyped', NoBusier(radioSection', radioSection),
           UNCHANGED <<radio, hook, jobs, consent>>, FilesTyped', radioSteps' \in 0..MaxRadioSteps
    PROVE  RadioInv'
<1>1. RadioBusyEnds'
  BY BusyKept DEF RadioInv
<1>2. HookTyped' /\ KeyNeedsConsent' /\ (\A j \in jobs' : JobOK(j, consent'))
  BY DEF RadioInv, HookTyped, KeyNeedsConsent
<1>3. radio' \in [config : Config, key : Nat, link : Links]
  BY DEF RadioInv, RadioTypeOK, Config
<1> QED
  BY <1>1, <1>2, <1>3, RadioHolds

\* A step of the user is counted.
LEMMA StepCounted ==
    ASSUME RadioInv, RadioUser \/ UNCHANGED radioSteps
    PROVE  radioSteps' \in 0..MaxRadioSteps
BY RadioAssumption DEF RadioInv, RadioTypeOK, RadioUser

LEMMA FieldTyped ==
    ASSUME NEW inputs \in [Fields -> 0..2], \A f \in Fields \ Numbers : inputs[f] # 0,
           NEW field \in Fields, NEW v \in 0..2, field \in Numbers \/ v # 0
    PROVE  LET g == [inputs EXCEPT ![field] = v]
           IN  g \in [Fields -> 0..2] /\ \A f \in Fields \ Numbers : g[f] # 0
OBVIOUS

LEMMA FormSet ==
    ASSUME SectionTyped, NEW inputs \in [Fields -> 0..2], \A f \in Fields \ Numbers : inputs[f] # 0,
           radioSection' = [radioSection EXCEPT !.form = inputs], UNCHANGED sectionMounts
    PROVE  SectionTyped' /\ NoBusier(radioSection', radioSection)
<1>1. radioSection' \in
         [mount : 0..MaxSectionMounts, form : [Fields -> 0..2], privateKey : {NoKey, TypedKey},
          busy : BOOLEAN, rebooting : BOOLEAN, identityBusy : BOOLEAN, connectionBusy : BOOLEAN,
          locating : BOOLEAN, advertising : BOOLEAN, error : BOOLEAN, dialog : BOOLEAN,
          pending : SUBSET RadioFile]
  BY DEF SectionOK, SectionTyped
<1>2. radioSection'.form = inputs
  BY DEF SectionOK, SectionTyped
<1> QED
  BY <1>1, <1>2 DEF SectionOK, SectionTyped, NoBusier

LEMMA EditStep ==
    ASSUME RadioInv, EditRadioForm
    PROVE  RadioInv'
<1>1. PICK inputs : radioSection' = [radioSection EXCEPT !.form = inputs] /\ inputs \in [Fields -> 0..2]
                  /\ \A f \in Fields \ Numbers : inputs[f] # 0
  <2>0. radioSection.form \in [Fields -> 0..2] /\ (\A f \in Fields \ Numbers : radioSection.form[f] # 0)
    BY DEF SectionOK, RadioInv, SectionTyped
  <2>1. PICK inputs \in IdentityInputs(radioSection.form) \cup ModemInputs(radioSection.form) \cup PathHashInput(radioSection.form)
                   \cup LocationInputs(radioSection.form) \cup TelemetryInputs(radioSection.form)
                   \cup (IF CurrentPreset(radioSection.form) = "custom" THEN HandlePresetChange(radioSection.form) ELSE {}) :
         inputs # radioSection.form /\ radioSection' = [radioSection EXCEPT !.form = inputs]
    BY DEF EditRadioForm
  <2>2. PICK field \in Fields, v \in 0..2 : inputs = [radioSection.form EXCEPT ![field] = v] /\ (field \in Numbers \/ v # 0)
    <3>1. {"name", "modem", "power", "hash", "place", "sharing"} \subseteq Fields /\ {"modem", "power", "place"} \subseteq Numbers
      BY FieldNames
    <3>2. CASE inputs \in IdentityInputs(radioSection.form)
      BY <3>1, <3>2 DEF IdentityInputs, Typed
    <3>3. CASE inputs \in ModemInputs(radioSection.form)
      BY <3>1, <3>3 DEF ModemInputs, Typed
    <3>4. CASE inputs \in PathHashInput(radioSection.form)
      BY <3>1, <3>4 DEF PathHashInput, Typed
    <3>5. CASE inputs \in LocationInputs(radioSection.form) \cup TelemetryInputs(radioSection.form)
      BY <3>1, <3>5 DEF LocationInputs, TelemetryInputs, Typed
    <3>6. CASE inputs \in HandlePresetChange(radioSection.form)
      BY <3>1, <3>6 DEF HandlePresetChange
    <3> QED
      BY <2>1, <3>2, <3>3, <3>4, <3>5, <3>6
  <2>3. inputs \in [Fields -> 0..2] /\ (\A f \in Fields \ Numbers : inputs[f] # 0)
    BY <2>0, <2>2, FieldTyped
  <2> QED
    BY <2>1, <2>3
<1>2. SectionTyped /\ UNCHANGED <<radio, hook, sectionMounts, jobs, reading, files, consent>> /\ RadioUser
  BY DEF EditRadioForm, RadioInv
<1>3. SectionTyped' /\ NoBusier(radioSection', radioSection)
  BY <1>1, <1>2, FormSet
<1>4. FilesTyped'
  BY <1>2 DEF RadioInv, FilesTyped
<1> QED
  BY <1>2, <1>3, <1>4, FormStep, StepCounted

LEMMA SectionSet ==
    ASSUME SectionTyped, UNCHANGED sectionMounts, NEW b \in BOOLEAN, NEW c \in BOOLEAN
    PROVE  /\ radioSection' = radioSection => SectionTyped'
           /\ radioSection' = [radioSection EXCEPT !.privateKey = TypedKey] => SectionTyped'
           /\ radioSection' = [radioSection EXCEPT !.privateKey = NoKey] => SectionTyped'
           /\ radioSection' = [radioSection EXCEPT !.error = b] => SectionTyped'
           /\ radioSection' = [radioSection EXCEPT !.error = b, !.busy = c] => SectionTyped'
           /\ radioSection' = [radioSection EXCEPT !.identityBusy = b] => SectionTyped'
           /\ radioSection' = [radioSection EXCEPT !.connectionBusy = b] => SectionTyped'
           /\ radioSection' = [radioSection EXCEPT !.advertising = b] => SectionTyped'
           /\ radioSection' = [radioSection EXCEPT !.locating = b] => SectionTyped'
           /\ radioSection' = [radioSection EXCEPT !.rebooting = b] => SectionTyped'
BY DEF SectionOK, SectionTyped

\* A step that begins jobs.
LEMMA JobStep ==
    ASSUME RadioInv, UNCHANGED radio, radioSteps' \in 0..MaxRadioSteps, SectionTyped', HookTyped', FilesTyped',
           consent \subseteq consent', \A j \in jobs' \ jobs : JobOK(j, consent'), RadioBusyEnds'
    PROVE  RadioInv'
<1>1. \A j \in jobs' : JobOK(j, consent')
  BY JobsKept DEF RadioInv
<1>2. KeyNeedsConsent'
  BY DEF RadioInv, KeyNeedsConsent
<1>3. radio' \in [config : Config, key : Nat, link : Links]
  BY DEF RadioInv, RadioTypeOK, Config
<1> QED
  BY <1>1, <1>2, <1>3, RadioHolds

LEMMA FormActions ==
    ASSUME RadioInv, TypeKey \/ ChooseFile \/ CancelKeyImport \/ HandleGetLocation \/ (\E b \in BOOLEAN : PositionKnown(b))
                     \/ OpenRadio \/ CloseRadio
    PROVE  RadioInv'
<1>0. SectionTyped /\ HookTyped /\ FilesTyped /\ RadioBusyEnds
  BY DEF RadioInv
<1>1. CASE TypeKey
  <2>1. NoBusier(radioSection', radioSection)
    BY <1>0, <1>1 DEF SectionOK, TypeKey, NoBusier, SectionTyped
  <2>2. SectionTyped' /\ FilesTyped'
    BY <1>0, <1>1, SectionSet DEF TypeKey, FilesTyped
  <2> QED
    BY <1>1, <2>1, <2>2, FormStep, StepCounted DEF TypeKey
<1>2. CASE ChooseFile
  <2>1. NoBusier(radioSection', radioSection) /\ SectionTyped'
    BY <1>0, <1>2, SectionSet DEF ChooseFile, NoBusier
  <2>2. FilesTyped'
    <3>1. PICK f \in files : reading' = reading \cup {[file |-> f, config |-> hook.config, mount |-> radioSection.mount]}
      BY <1>2 DEF ChooseFile
    <3>2. [file |-> f, config |-> hook.config, mount |-> radioSection.mount] \in [file : RadioFile, config : Config, mount : Nat]
      BY <1>0, RadioAssumption DEF SectionOK, FilesTyped, HookTyped, SectionTyped
    <3> QED
      BY <1>0, <1>2, <3>1, <3>2 DEF FilesTyped, ChooseFile
  <2> QED
    BY <1>2, <2>1, <2>2, FormStep, StepCounted DEF ChooseFile
<1>3. CASE CancelKeyImport
  <2>1. NoBusier(radioSection', radioSection) /\ SectionTyped' /\ FilesTyped'
    BY <1>0, <1>3 DEF SectionOK, CancelKeyImport, NoBusier, SectionTyped, FilesTyped
  <2> QED
    BY <1>3, <2>1, FormStep, StepCounted DEF CancelKeyImport
<1>4. CASE HandleGetLocation
  <2>1. NoBusier(radioSection', radioSection) /\ SectionTyped' /\ FilesTyped'
    BY <1>0, <1>4 DEF SectionOK, HandleGetLocation, NoBusier, SectionTyped, FilesTyped
  <2> QED
    BY <1>4, <2>1, FormStep, StepCounted DEF HandleGetLocation
<1>5. ASSUME NEW hit \in BOOLEAN, PositionKnown(hit)
      PROVE  RadioInv'
  <2>1. PICK inputs : inputs = IF hit THEN [radioSection.form EXCEPT !["place"] = 2] ELSE [radioSection.form EXCEPT !["place"] = @]
    OBVIOUS
  <2>2. inputs \in [Fields -> 0..2] /\ (\A f \in Fields \ Numbers : inputs[f] # 0)
    BY <1>0, <2>1, FieldNames DEF SectionOK, SectionTyped
  <2>3. radioSection' = [radioSection EXCEPT !.locating = FALSE, !.form = inputs]
    BY <1>5, <2>1 DEF PositionKnown
  <2>4. NoBusier(radioSection', radioSection) /\ SectionTyped' /\ FilesTyped'
    BY <1>0, <1>5, <2>2, <2>3 DEF SectionOK, PositionKnown, NoBusier, SectionTyped, FilesTyped
  <2> QED
    BY <1>5, <2>4, FormStep, StepCounted DEF PositionKnown
<1>6. CASE OpenRadio
  <2>1. radioSection' = [ClosedSection EXCEPT !.mount = sectionMounts + 1, !.form = hook.config] /\ sectionMounts' = sectionMounts + 1
        /\ sectionMounts + 1 \in 0..MaxSectionMounts /\ hook.config \in Config
    BY <1>0, <1>6, RadioAssumption DEF SectionOK, OpenRadio, SectionTyped, HookTyped
  <2>2. SectionTyped'
    <3>1. hook.config \in [Fields -> 0..2] /\ \A f \in Fields \ Numbers : hook.config[f] # 0
      BY <2>1 DEF Config
    <3>2. radioSection' = [mount |-> sectionMounts + 1, form |-> hook.config, privateKey |-> NoKey,
             busy |-> FALSE, rebooting |-> FALSE, identityBusy |-> FALSE, connectionBusy |-> FALSE,
             locating |-> FALSE, advertising |-> FALSE, error |-> FALSE, dialog |-> FALSE, pending |-> {}]
      BY <2>1 DEF ClosedSection
    <3>3. radioSection' \in
         [mount : 0..MaxSectionMounts, form : [Fields -> 0..2], privateKey : {NoKey, TypedKey},
          busy : BOOLEAN, rebooting : BOOLEAN, identityBusy : BOOLEAN, connectionBusy : BOOLEAN,
          locating : BOOLEAN, advertising : BOOLEAN, error : BOOLEAN, dialog : BOOLEAN,
          pending : SUBSET RadioFile]
      <4>1. PICK m \in 0..MaxSectionMounts, inputs \in [Fields -> 0..2] :
               radioSection' = [mount |-> m, form |-> inputs, privateKey |-> NoKey,
                 busy |-> FALSE, rebooting |-> FALSE, identityBusy |-> FALSE, connectionBusy |-> FALSE,
                 locating |-> FALSE, advertising |-> FALSE, error |-> FALSE, dialog |-> FALSE, pending |-> {}]
        BY <2>1, <3>1, <3>2
      <4> QED
        BY <4>1
    <3>4. radioSection'.form = hook.config
      BY <3>2
    <3>5. sectionMounts' \in 0..MaxSectionMounts
      BY <2>1
    <3> QED
      BY <3>1, <3>3, <3>4, <3>5 DEF SectionOK, SectionTyped
  <2>3. RadioBusyEnds'
    <3>1. /\ ~radioSection'.busy /\ ~radioSection'.rebooting /\ ~radioSection'.identityBusy
          /\ ~radioSection'.connectionBusy /\ ~radioSection'.advertising
      BY <2>1 DEF ClosedSection
    <3>2. UNCHANGED <<hook, jobs>>
      BY <1>6 DEF OpenRadio
    <3> QED
      BY <1>0, <3>1, <3>2 DEF RadioBusyEnds
  <2>4. HookTyped' /\ FilesTyped' /\ UNCHANGED <<radio, consent, jobs, radioSteps>>
    BY <1>0, <1>6 DEF OpenRadio, HookTyped, FilesTyped
  <2> QED
    BY <2>2, <2>3, <2>4, JobStep, StepCounted
<1>7. CASE CloseRadio
  <2>1. SectionTyped'
    BY <1>0, <1>7, RadioAssumption DEF SectionOK, CloseRadio, SectionTyped, ClosedSection
  <2>2. RadioBusyEnds'
    BY <1>0, <1>7 DEF CloseRadio, ClosedSection, RadioBusyEnds
  <2>3. HookTyped' /\ FilesTyped' /\ UNCHANGED <<radio, consent, jobs, radioSteps>>
    BY <1>0, <1>7 DEF CloseRadio, HookTyped, FilesTyped
  <2> QED
    BY <2>1, <2>2, <2>3, JobStep, StepCounted
<1> QED
  BY <1>1, <1>2, <1>3, <1>4, <1>5, <1>6, <1>7

\* The chains of requests; two send a key.
Chain(s)   == s \in Seq(Requests) /\ s # <<>>
Keyless(s) == Chain(s) /\ \A i \in DOMAIN s : s[i] # "key"

LEMMA Chains ==
    /\ Keyless(<<"update", "config", "reboot">>) /\ Keyless(<<"update", "config">>)
    /\ Chain(<<"key", "config", "update", "config", "reboot">>) /\ Chain(<<"key", "config", "reboot">>)
    /\ Keyless(<<"read key">>) /\ Keyless(<<"resume", "health">>) /\ Keyless(<<"pause", "health">>)
    /\ Keyless(<<"advert">>) /\ Keyless(<<"config">>)
    /\ \A w \in {"mesh", "regions"} : Keyless(<<w>>)
<1>1. Keyless(<<"update", "config", "reboot">>) /\ Keyless(<<"update", "config">>)
  BY DEF Chain, Keyless, Requests
<1>2. Chain(<<"key", "config", "reboot">>)
  BY DEF Chain, Requests
<1>3. Chain(<<"key", "config", "update", "config", "reboot">>)
  BY DEF Chain, Requests
<1>4. Keyless(<<"resume", "health">>) /\ Keyless(<<"pause", "health">>)
  BY DEF Chain, Keyless, Requests
<1>5. ASSUME NEW w \in Requests, w # "key"
      PROVE  Keyless(<<w>>)
  BY <1>5 DEF Chain, Keyless
<1>6. {"read key", "advert", "config", "mesh", "regions"} \subseteq Requests \ {"key"}
  BY DEF Requests
<1> QED
  BY <1>1, <1>2, <1>3, <1>4, <1>5, <1>6

LEMMA ChainJob ==
    ASSUME SectionTyped, NEW kind \in Kinds, NEW todo, NEW update \in Updates, NEW k \in Nat, NEW agreed,
           Keyless(todo) \/ (Chain(todo) /\ k \in agreed)
    PROVE  /\ JobOK(Job(kind, todo, update, k), agreed)
           /\ Job(kind, todo, update, k).kind = kind /\ Job(kind, todo, update, k).todo = todo
           /\ Job(kind, todo, update, k).mount = radioSection.mount
<1>1. todo \in Seq(Requests) /\ todo # <<>> /\ \A i \in DOMAIN todo : todo[i] = "key" => k \in agreed
  BY DEF Chain, Keyless
<1> QED
  BY <1>1, JobMade

LEMMA SaveStep ==
    ASSUME RadioInv, NEW reboots \in BOOLEAN, HandleSaveConfig(reboots)
    PROVE  RadioInv'
<1>0. /\ SectionTyped /\ HookTyped /\ FilesTyped /\ RadioBusyEnds /\ RadioUser
      /\ UNCHANGED <<radio, hook, sectionMounts, reading, files, consent>>
  BY DEF RadioInv, HandleSaveConfig
<1>1. HookTyped' /\ FilesTyped'
  BY <1>0 DEF HookTyped, FilesTyped
<1>2. CASE ~FormValid(radioSection.form)
  <2>1. radioSection' = [radioSection EXCEPT !.error = TRUE] /\ UNCHANGED jobs
    BY <1>2 DEF HandleSaveConfig
  <2>2. SectionTyped' /\ NoBusier(radioSection', radioSection)
    BY <1>0, <2>1, SectionSet DEF SectionOK, NoBusier, SectionTyped
  <2> QED
    BY <1>0, <1>1, <2>1, <2>2, FormStep, StepCounted
<1>3. CASE FormValid(radioSection.form)
  <2>1. PICK todo : Keyless(todo) /\ jobs' = jobs \cup {Job("save", todo, BuildUpdate(radioSection.form), NoKey)}
                    /\ radioSection' = [radioSection EXCEPT !.error = FALSE, !.busy = TRUE]
    BY <1>3, Chains DEF HandleSaveConfig
  <2>2. BuildUpdate(radioSection.form) \in Updates
    BY <1>0, <1>3, BuiltTyped DEF SectionOK, SectionTyped
  <2>3. PICK j : /\ j = Job("save", todo, BuildUpdate(radioSection.form), NoKey) /\ JobOK(j, consent')
                 /\ j.kind = "save" /\ j.mount = radioSection.mount
    <3>1. PICK u \in Updates : u = BuildUpdate(radioSection.form)
      BY <2>2
    <3>2. JobOK(Job("save", todo, u, 0), consent') /\ Job("save", todo, u, 0).kind = "save"
          /\ Job("save", todo, u, 0).mount = radioSection.mount
      BY <1>0, <2>1, ChainJob DEF Kinds
    <3> QED
      BY <3>1, <3>2
  <2>4. SectionTyped'
    BY <1>0, <2>1, SectionSet
  <2>5. RadioBusyEnds'
    <3>1. /\ radioSection'.mount = radioSection.mount /\ radioSection'.identityBusy = radioSection.identityBusy
          /\ radioSection'.connectionBusy = radioSection.connectionBusy /\ radioSection'.advertising = radioSection.advertising
      BY <1>0, <2>1 DEF SectionOK, SectionTyped
    <3>2. j \in jobs' /\ jobs \subseteq jobs'
      BY <2>1, <2>3
    <3> QED
      BY <1>0, <2>3, <3>1, <3>2 DEF RadioBusyEnds, Working
  <2> QED
    BY <1>0, <1>1, <2>1, <2>3, <2>4, <2>5, JobStep, StepCounted
<1> QED
  BY <1>2, <1>3

\* A job of the mounted form accounts for the flag that was set with it.
LEMMA BusyBegins ==
    ASSUME SectionTyped, RadioBusyEnds, NEW j, j \in jobs', jobs \subseteq jobs', j.mount = radioSection.mount,
           UNCHANGED hook,
           \/ j.kind = "identity" /\ radioSection' = [radioSection EXCEPT !.identityBusy = TRUE]
           \/ j.kind \in {"reconnect", "disconnect"} /\ radioSection' = [radioSection EXCEPT !.connectionBusy = TRUE]
           \/ j.kind = "advert" /\ radioSection' = [radioSection EXCEPT !.advertising = TRUE]
    PROVE  RadioBusyEnds'
<1>1. CASE j.kind = "identity" /\ radioSection' = [radioSection EXCEPT !.identityBusy = TRUE]
  <2>1. /\ radioSection'.mount = radioSection.mount /\ radioSection'.busy = radioSection.busy
        /\ radioSection'.rebooting = radioSection.rebooting
        /\ radioSection'.connectionBusy = radioSection.connectionBusy /\ radioSection'.advertising = radioSection.advertising
    BY <1>1 DEF SectionOK, SectionTyped
  <2> QED
    BY <1>1, <2>1 DEF RadioBusyEnds, Working
<1>2. CASE j.kind \in {"reconnect", "disconnect"} /\ radioSection' = [radioSection EXCEPT !.connectionBusy = TRUE]
  <2>1. /\ radioSection'.mount = radioSection.mount /\ radioSection'.busy = radioSection.busy
        /\ radioSection'.rebooting = radioSection.rebooting
        /\ radioSection'.identityBusy = radioSection.identityBusy /\ radioSection'.advertising = radioSection.advertising
    BY <1>2 DEF SectionOK, SectionTyped
  <2>2. Working({"reconnect", "disconnect"})'
    BY <1>2, <2>1 DEF Working
  <2>3. \A kinds : Working(kinds) => Working(kinds)'
    BY <2>1 DEF Working
  <2>4. \A w \in hook'.discovering : \E k \in jobs' : k.todo = <<w>>
    BY DEF RadioBusyEnds
  <2> QED
    BY <2>1, <2>2, <2>3, <2>4 DEF RadioBusyEnds
<1>3. CASE j.kind = "advert" /\ radioSection' = [radioSection EXCEPT !.advertising = TRUE]
  <2>1. /\ radioSection'.mount = radioSection.mount /\ radioSection'.busy = radioSection.busy
        /\ radioSection'.rebooting = radioSection.rebooting
        /\ radioSection'.identityBusy = radioSection.identityBusy /\ radioSection'.connectionBusy = radioSection.connectionBusy
    BY <1>3 DEF SectionOK, SectionTyped
  <2> QED
    BY <1>3, <2>1 DEF RadioBusyEnds, Working
<1> QED
  BY <1>1, <1>2, <1>3

LEMMA IdentityStep ==
    ASSUME RadioInv, HandleSetPrivateKey
    PROVE  RadioInv'
<1>0. /\ SectionTyped /\ HookTyped /\ FilesTyped /\ RadioBusyEnds /\ RadioUser
      /\ UNCHANGED <<radio, hook, sectionMounts, reading, files>>
      /\ radioSection' = [radioSection EXCEPT !.identityBusy = TRUE]
      /\ jobs' = jobs \cup {Job("identity", <<"key", "config", "reboot">>, NoUpdate, radioSection.privateKey)}
      /\ consent' = consent \cup {radioSection.privateKey}
  BY DEF RadioInv, HandleSetPrivateKey
<1>1. PICK j : /\ j = Job("identity", <<"key", "config", "reboot">>, NoUpdate, radioSection.privateKey)
               /\ JobOK(j, consent') /\ j.kind = "identity" /\ j.mount = radioSection.mount
  <2>1. PICK k \in Nat : k = radioSection.privateKey
    BY <1>0, RadioAssumption DEF SectionOK, SectionTyped
  <2>2. /\ JobOK(Job("identity", <<"key", "config", "reboot">>, NoUpdate, k), consent')
        /\ Job("identity", <<"key", "config", "reboot">>, NoUpdate, k).kind = "identity"
        /\ Job("identity", <<"key", "config", "reboot">>, NoUpdate, k).mount = radioSection.mount
    <3>1. PICK s : s = <<"key", "config", "reboot">> /\ Chain(s)
      BY Chains
    <3>2. NoUpdate \in Updates /\ "identity" \in Kinds
      BY UpdateTyped DEF Kinds
    <3>3. k \in consent'
      BY <1>0, <2>1
    <3>4. SectionTyped
      BY <1>0
    <3>5. /\ JobOK(Job("identity", s, NoUpdate, k), consent')
          /\ Job("identity", s, NoUpdate, k).kind = "identity"
          /\ Job("identity", s, NoUpdate, k).mount = radioSection.mount
      BY <3>1, <3>2, <3>3, <3>4, ChainJob
    <3> QED
      BY <3>1, <3>5
  <2> QED
    BY <2>1, <2>2
<1>2. HookTyped' /\ FilesTyped' /\ SectionTyped'
  BY <1>0, SectionSet DEF HookTyped, FilesTyped
<1>3. RadioBusyEnds'
  BY <1>0, <1>1, BusyBegins
<1> QED
  BY <1>0, <1>1, <1>2, <1>3, JobStep, StepCounted

LEMMA ExportStep ==
    ASSUME RadioInv, HandleExportConfig
    PROVE  RadioInv'
<1>0. /\ SectionTyped /\ HookTyped /\ FilesTyped /\ RadioBusyEnds /\ RadioUser
      /\ UNCHANGED <<radio, hook, radioSection, sectionMounts, reading, files, consent>>
      /\ jobs' = jobs \cup {Job("export", <<"read key">>, hook.config, NoKey)}
  BY DEF RadioInv, HandleExportConfig
<1>1. JobOK(Job("export", <<"read key">>, hook.config, NoKey), consent')
  <2>1. hook.config \in Updates
    BY <1>0, UpdateTyped DEF HookTyped
  <2> QED
    BY <1>0, <2>1, Chains, ChainJob DEF Kinds
<1>2. HookTyped' /\ FilesTyped' /\ SectionTyped'
  BY <1>0, SectionSet DEF HookTyped, FilesTyped
<1>3. RadioBusyEnds'
  BY <1>0, BusyKept DEF NoBusier
<1> QED
  BY <1>0, <1>1, <1>2, <1>3, JobStep, StepCounted

LEMMA ConnectionStep ==
    ASSUME RadioInv, HandleConnectionAction
    PROVE  RadioInv'
<1>0. /\ SectionTyped /\ HookTyped /\ FilesTyped /\ RadioBusyEnds /\ RadioUser
      /\ UNCHANGED <<radio, hook, sectionMounts, reading, files, consent>>
      /\ radioSection' = [radioSection EXCEPT !.connectionBusy = TRUE]
  BY DEF RadioInv, HandleConnectionAction
<1>1. PICK j : /\ jobs' = jobs \cup {j} /\ JobOK(j, consent')
               /\ j.kind \in {"reconnect", "disconnect"} /\ j.mount = radioSection.mount
  <2>1. /\ JobOK(Job("reconnect", <<"resume", "health">>, NoUpdate, NoKey), consent')
        /\ Job("reconnect", <<"resume", "health">>, NoUpdate, NoKey).kind = "reconnect"
        /\ Job("reconnect", <<"resume", "health">>, NoUpdate, NoKey).mount = radioSection.mount
    <3>1. PICK s : s = <<"resume", "health">> /\ Keyless(s)
      BY Chains
    <3>2. NoUpdate \in Updates /\ "reconnect" \in Kinds
      BY UpdateTyped DEF Kinds
    <3> QED
      BY <1>0, <3>1, <3>2, ChainJob
  <2>2. /\ JobOK(Job("disconnect", <<"pause", "health">>, NoUpdate, NoKey), consent')
        /\ Job("disconnect", <<"pause", "health">>, NoUpdate, NoKey).kind = "disconnect"
        /\ Job("disconnect", <<"pause", "health">>, NoUpdate, NoKey).mount = radioSection.mount
    <3>1. PICK s : s = <<"pause", "health">> /\ Keyless(s)
      BY Chains
    <3>2. NoUpdate \in Updates /\ "disconnect" \in Kinds
      BY UpdateTyped DEF Kinds
    <3> QED
      BY <1>0, <3>1, <3>2, ChainJob
  <2> QED
    BY <2>1, <2>2 DEF HandleConnectionAction
<1>2. HookTyped' /\ FilesTyped' /\ SectionTyped'
  BY <1>0, SectionSet DEF HookTyped, FilesTyped
<1>3. RadioBusyEnds'
  BY <1>0, <1>1, BusyBegins
<1> QED
  BY <1>0, <1>1, <1>2, <1>3, JobStep, StepCounted

LEMMA AdvertStep ==
    ASSUME RadioInv, HandleAdvertise
    PROVE  RadioInv'
<1>0. /\ SectionTyped /\ HookTyped /\ FilesTyped /\ RadioBusyEnds /\ RadioUser
      /\ UNCHANGED <<radio, hook, sectionMounts, reading, files, consent>>
      /\ radioSection' = [radioSection EXCEPT !.advertising = TRUE]
      /\ jobs' = jobs \cup {Job("advert", <<"advert">>, NoUpdate, NoKey)}
  BY DEF RadioInv, HandleAdvertise
<1>1. PICK j : /\ j = Job("advert", <<"advert">>, NoUpdate, NoKey)
               /\ JobOK(j, consent') /\ j.kind = "advert" /\ j.mount = radioSection.mount
  <2>1. PICK s : s = <<"advert">> /\ Keyless(s)
    BY Chains
  <2>2. NoUpdate \in Updates /\ "advert" \in Kinds
    BY UpdateTyped DEF Kinds
  <2> QED
    BY <1>0, <2>1, <2>2, ChainJob
<1>2. HookTyped' /\ FilesTyped' /\ SectionTyped'
  BY <1>0, SectionSet DEF HookTyped, FilesTyped
<1>3. RadioBusyEnds'
  BY <1>0, <1>1, BusyBegins
<1> QED
  BY <1>0, <1>1, <1>2, <1>3, JobStep, StepCounted

LEMMA DiscoverStep ==
    ASSUME RadioInv, NEW w \in {"mesh", "regions"}, HandleDiscover(w)
    PROVE  RadioInv'
<1>0. /\ SectionTyped /\ HookTyped /\ FilesTyped /\ RadioBusyEnds /\ RadioUser
      /\ UNCHANGED <<radio, radioSection, sectionMounts, reading, files, consent>>
      /\ hook' = [hook EXCEPT !.discovering = @ \cup {w}]
      /\ jobs' = jobs \cup {Job("discover", <<w>>, NoUpdate, NoKey)}
  BY DEF RadioInv, HandleDiscover
<1>1. PICK j : /\ j = Job("discover", <<w>>, NoUpdate, NoKey)
               /\ JobOK(j, consent') /\ j.todo = <<w>>
  <2>1. PICK s : s = <<w>> /\ Keyless(s)
    BY Chains
  <2>2. NoUpdate \in Updates /\ "discover" \in Kinds
    BY UpdateTyped DEF Kinds
  <2> QED
    BY <1>0, <2>1, <2>2, ChainJob
<1>2. FilesTyped' /\ SectionTyped'
  BY <1>0, SectionSet DEF FilesTyped
<1>3. HookTyped' /\ hook'.discovering = hook.discovering \cup {w}
  BY <1>0 DEF HookTyped, Requests
<1>4. RadioBusyEnds'
  BY <1>0, <1>1, <1>3 DEF RadioBusyEnds, Working
<1> QED
  BY <1>0, <1>1, <1>2, <1>3, <1>4, JobStep, StepCounted

\* The requests of an import, whose key, if it has one, was agreed to.
LEMMA ImportBegins ==
    ASSUME RadioInv, NEW f \in RadioFile, NEW c \in Config, NEW m \in Nat, NEW s, ApplyImport(f, c, m, s),
           SectionOK(s), NoBusier(s, radioSection), f.key = NoKey \/ f.key \in consent', consent \subseteq consent',
           UNCHANGED <<radio, hook, sectionMounts, files>>, FilesTyped', radioSteps' \in 0..MaxRadioSteps
    PROVE  RadioInv'
<1>0. SectionTyped /\ HookTyped /\ RadioBusyEnds /\ HookTyped'
  BY DEF RadioInv, HookTyped
<1>1. PICK todo : /\ Keyless(todo) \/ (Chain(todo) /\ f.key \in consent')
                  /\ todo = IF f.key # NoKey THEN <<"key", "config", "update", "config", "reboot">>
                            ELSE <<"update", "config", "reboot">>
  BY Chains
<1>2. PICK u \in Updates : u = BuildUpdateFromImport(f, c)
  BY ImportTyped
<1>3. JobOK(Job("import", todo, u, f.key), consent') /\ Job("import", todo, u, f.key).kind = "import"
  <2>1. f.key \in Nat /\ "import" \in Kinds
    BY DEF RadioFile, Kinds
  <2> QED
    BY <1>0, <1>1, <2>1, ChainJob
<1>4. PICK j : j = [Job("import", todo, u, f.key) EXCEPT !.mount = m]
  OBVIOUS
<1>5. JobOK(j, consent') /\ j.kind = "import" /\ j.mount = m
  BY <1>3, <1>4 DEF JobOK
<1>6. jobs' = jobs \cup {j}
  BY <1>1, <1>2, <1>4 DEF ApplyImport
<1>7. CASE m # s.mount
  <2>1. radioSection' = s
    BY <1>7 DEF ApplyImport
  <2>2. SectionTyped'
    BY <1>0, <2>1 DEF SectionTyped
  <2>3. RadioBusyEnds'
    BY <1>0, <1>6, <2>1, BusyKept
  <2> QED
    BY <1>0, <1>5, <1>6, <2>2, <2>3, JobStep
<1>8. CASE m = s.mount
  <2>1. PICK g : g = PopulateFormFromImport(s.form, f)
    OBVIOUS
  <2>2. radioSection' = [s EXCEPT !.form = g, !.busy = TRUE, !.rebooting = TRUE]
    BY <1>8, <2>1 DEF ApplyImport
  <2>3. g \in [Fields -> 0..2] /\ \A x \in Fields \ Numbers : g[x] # 0
    BY <2>1, PopulatedTyped DEF SectionOK
  <2>4. SectionTyped'
    BY <1>0, <2>2, <2>3 DEF SectionOK, SectionTyped
  <2>5. /\ radioSection'.mount = s.mount /\ radioSection'.identityBusy = s.identityBusy
        /\ radioSection'.connectionBusy = s.connectionBusy /\ radioSection'.advertising = s.advertising
    BY <2>2 DEF SectionOK
  <2>6. /\ s.mount = radioSection.mount
        /\ s.identityBusy => radioSection.identityBusy
        /\ s.connectionBusy => radioSection.connectionBusy
        /\ s.advertising => radioSection.advertising
    BY DEF NoBusier
  <2>7. Working({"save", "import"})'
    BY <1>5, <1>6, <1>8, <2>5 DEF Working
  <2>8. \A kinds : Working(kinds) => Working(kinds)'
    BY <1>6, <2>5, <2>6 DEF Working
  <2>9. \A w \in hook'.discovering : \E k \in jobs' : k.todo = <<w>>
    BY <1>0, <1>6 DEF RadioBusyEnds
  <2>10. RadioBusyEnds'
    BY <1>0, <2>5, <2>6, <2>7, <2>8, <2>9 DEF RadioBusyEnds
  <2> QED
    BY <1>0, <1>5, <1>6, <2>4, <2>10, JobStep
<1> QED
  BY <1>7, <1>8

LEMMA ImportStep ==
    ASSUME RadioInv, NEW r \in reading, HandleImportConfig(r)
    PROVE  RadioInv'
<1>0. /\ SectionTyped /\ SectionOK(radioSection) /\ FilesTyped
      /\ UNCHANGED <<radio, hook, sectionMounts, files, consent, radioSteps>> /\ reading' \subseteq reading
  BY DEF RadioInv, SectionTyped, HandleImportConfig
<1>1. FilesTyped'
  BY <1>0 DEF FilesTyped
<1>2. CASE ~ValidateImportData(r.file)
  <2>1. UNCHANGED <<radioSection, jobs>>
    BY <1>2 DEF HandleImportConfig
  <2>2. SectionTyped' /\ NoBusier(radioSection', radioSection)
    BY <1>0, <2>1, SectionSet DEF NoBusier
  <2> QED
    BY <1>0, <1>1, <2>1, <2>2, FormStep, StepCounted
<1>3. CASE ValidateImportData(r.file) /\ r.file.key # NoKey
  <2>1. UNCHANGED jobs /\ \/ radioSection' = radioSection
                          \/ radioSection' = [radioSection EXCEPT !.pending = {r.file}, !.dialog = TRUE]
    BY <1>3 DEF HandleImportConfig
  <2>2. r.file \in RadioFile
    BY <1>0 DEF FilesTyped
  <2>3. SectionTyped' /\ NoBusier(radioSection', radioSection)
    <3>1. CASE radioSection' = radioSection
      BY <1>0, <3>1, SectionSet DEF NoBusier
    <3>2. CASE radioSection' = [radioSection EXCEPT !.pending = {r.file}, !.dialog = TRUE]
      <4>1. {r.file} \in SUBSET RadioFile
        BY <2>2
      <4> QED
        BY <1>0, <3>2, <4>1 DEF SectionTyped, SectionOK, NoBusier
    <3> QED
      BY <2>1, <3>1, <3>2
  <2> QED
    BY <1>0, <1>1, <2>1, <2>3, FormStep, StepCounted
<1>4. CASE ValidateImportData(r.file) /\ r.file.key = NoKey
  <2>1. ApplyImport(r.file, r.config, r.mount, radioSection)
    BY <1>4 DEF HandleImportConfig
  <2>2. r.file \in RadioFile /\ r.config \in Config /\ r.mount \in Nat
    BY <1>0 DEF FilesTyped
  <2>3. NoBusier(radioSection, radioSection) /\ radioSteps' \in 0..MaxRadioSteps
    BY <1>0, StepCounted DEF NoBusier
  <2> QED
    BY <1>0, <1>1, <1>4, <2>1, <2>2, <2>3, ImportBegins
<1> QED
  BY <1>2, <1>3, <1>4

LEMMA ConfirmStep ==
    ASSUME RadioInv, HandleConfirmKeyImport
    PROVE  RadioInv'
<1>0. /\ SectionTyped /\ SectionOK(radioSection) /\ FilesTyped /\ HookTyped
      /\ UNCHANGED <<radio, hook, sectionMounts, reading, files, radioSteps>>
  BY DEF RadioInv, SectionTyped, HandleConfirmKeyImport
<1>1. PICK f \in radioSection.pending :
         /\ ApplyImport(f, hook.config, radioSection.mount, [radioSection EXCEPT !.dialog = FALSE, !.pending = {}])
         /\ consent' = consent \cup {f.key}
  BY DEF HandleConfirmKeyImport
<1>2. PICK s : s = [radioSection EXCEPT !.dialog = FALSE, !.pending = {}]
  OBVIOUS
<1>3. SectionOK(s) /\ NoBusier(s, radioSection)
  BY <1>0, <1>2 DEF SectionOK, NoBusier
<1>4. f \in RadioFile /\ hook.config \in Config /\ radioSection.mount \in Nat
  BY <1>0, RadioAssumption DEF SectionOK, HookTyped
<1>5. FilesTyped' /\ radioSteps' \in 0..MaxRadioSteps
  BY <1>0, StepCounted DEF FilesTyped
<1>6. f.key \in consent' /\ consent \subseteq consent'
  BY <1>1
<1> QED
  BY <1>0, <1>1, <1>2, <1>3, <1>4, <1>5, <1>6, ImportBegins

\* The server handles a request of a job, which goes on as it was.
LEMMA ServeStep ==
    ASSUME RadioInv, NEW j \in jobs, Serve(j)
    PROVE  RadioInv'
<1>0. /\ SectionTyped /\ HookTyped /\ FilesTyped /\ RadioBusyEnds /\ KeyNeedsConsent /\ JobOK(j, consent)
      /\ radio \in [config : Config, key : Nat, link : Links]
      /\ UNCHANGED <<hook, radioSection, sectionMounts, reading, files, consent, radioSteps>>
  BY DEF RadioInv, RadioTypeOK, Config, Serve
<1>1. PICK done \in BOOLEAN, ok \in {"ok", "failed"} :
         LET step == Head(j.todo) IN
         /\ ok = "ok" => done
         /\ radio' = IF ~done THEN radio
                     ELSE CASE step = "update" -> [radio EXCEPT !.config = Applied(j.update, @)]
                            [] step = "key"    -> [radio EXCEPT !.key = j.key]
                            [] step = "reboot" -> [radio EXCEPT !.link = "connecting"]
                            [] step = "pause"  -> [radio EXCEPT !.link = "paused"]
                            [] step = "resume" -> [radio EXCEPT !.link = "connecting"]
                            [] OTHER           -> radio
         /\ (step \in {"config", "health", "advert", "mesh", "regions", "read key"} => done)
         /\ jobs' = (jobs \ {j}) \cup
                    {[j EXCEPT !.answer = ok,
                               !.config = IF step = "config" THEN radio.config ELSE @,
                               !.link   = IF step = "health" THEN radio.link ELSE @]}
  BY DEF Serve
<1>2. /\ j.update \in Updates /\ j.key \in Nat /\ j.config \in Config /\ j.link \in Links
      /\ j.todo \in Seq(Requests) /\ j.todo # <<>> /\ (Head(j.todo) = "key" => j.key \in consent)
  BY <1>0 DEF JobOK
<1>3. radio' \in [config : Config, key : Nat, link : Links] /\ radio'.key \in {radio.key} \cup {k \in {j.key} : j.key \in consent}
  <2>1. \/ radio' = radio
        \/ radio' = [radio EXCEPT !.config = Applied(j.update, @)]
        \/ radio' = [radio EXCEPT !.key = j.key] /\ Head(j.todo) = "key"
        \/ radio' = [radio EXCEPT !.link = "connecting"]
        \/ radio' = [radio EXCEPT !.link = "paused"]
    BY <1>1
  <2>2. Applied(j.update, radio.config) \in Config /\ {"connecting", "paused"} \subseteq Links
    BY <1>0, <1>2, AppliedTyped DEF Links
  <2> QED
    BY <1>0, <1>2, <2>1, <2>2
<1>20. PICK c \in Config, l \in Links : jobs' = (jobs \ {j}) \cup {[j EXCEPT !.answer = ok, !.config = c, !.link = l]}
  <2>1. radio.config \in Config /\ radio.link \in Links
    BY <1>0
  <2>2. PICK c : c = IF Head(j.todo) = "config" THEN radio.config ELSE j.config
    OBVIOUS
  <2>3. PICK l : l = IF Head(j.todo) = "health" THEN radio.link ELSE j.link
    OBVIOUS
  <2>4. jobs' = (jobs \ {j}) \cup {[j EXCEPT !.answer = ok, !.config = c, !.link = l]}
    BY <1>1, <2>2, <2>3
  <2> QED
    BY <1>2, <2>1, <2>2, <2>3, <2>4
<1>4. PICK k : k = [j EXCEPT !.answer = ok, !.config = c, !.link = l] /\ jobs' = (jobs \ {j}) \cup {k}
  BY <1>20
<1>5. JobOK(k, consent) /\ k.kind = j.kind /\ k.mount = j.mount /\ k.todo = j.todo
  BY <1>0, <1>4 DEF JobOK
<1>6. \A i \in jobs' : JobOK(i, consent')
  BY <1>0, <1>4, <1>5 DEF RadioInv
<1>7. RadioBusyEnds'
  <2>1. \A kinds : Working(kinds) => Working(kinds)'
    BY <1>0, <1>4, <1>5 DEF Working
  <2>2. \A w \in hook'.discovering : \E i \in jobs' : i.todo = <<w>>
    BY <1>0, <1>4, <1>5 DEF RadioBusyEnds
  <2> QED
    BY <1>0, <2>1, <2>2 DEF RadioBusyEnds
<1>8. KeyNeedsConsent'
  BY <1>0, <1>3 DEF KeyNeedsConsent
<1>9. SectionTyped' /\ HookTyped' /\ FilesTyped' /\ radioSteps' \in 0..MaxRadioSteps
  BY <1>0, StepCounted DEF SectionTyped, HookTyped, FilesTyped
<1> QED
  BY <1>3, <1>6, <1>7, <1>8, <1>9, RadioHolds

LEMMA RefreshMade == \A agreed : JobOK(Refresh, agreed)
<1> TAKE agreed
<1>1. PICK s : s = <<"config">> /\ Keyless(s)
  BY Chains
<1>2. PICK j : j = [kind |-> "refresh", todo |-> s, update |-> NoUpdate, key |-> 0, mount |-> 0, answer |-> "none",
                    config |-> NoAnswer, link |-> "connected"]
  OBVIOUS
<1>3. NoAnswer \in Config /\ "connected" \in Links /\ NoUpdate \in Updates /\ "refresh" \in Kinds
  BY UpdateTyped DEF NoAnswer, Config, Links, Kinds
<1>4. JobOK(j, agreed)
  BY <1>1, <1>2, <1>3 DEF JobOK, Keyless, Chain
<1>5. Refresh = j
  BY <1>1, <1>2 DEF Refresh, Job
<1> QED
  BY <1>4, <1>5

LEMMA HealthSteps ==
    ASSUME RadioInv, Poll \/ LinkChanges \/ OnHealth
    PROVE  RadioInv'
<1>0. /\ SectionTyped /\ HookTyped /\ FilesTyped /\ RadioBusyEnds /\ KeyNeedsConsent
      /\ radio \in [config : Config, key : Nat, link : Links]
      /\ UNCHANGED <<radioSection, sectionMounts, reading, files, consent>>
  BY DEF RadioInv, RadioTypeOK, Config, Poll, LinkChanges, OnHealth
<1>1. SectionTyped' /\ FilesTyped' /\ NoBusier(radioSection', radioSection)
  BY <1>0 DEF SectionTyped, FilesTyped, NoBusier
<1>2. HealthOf(radio.link) \in [state : Links, connected : BOOLEAN]
  BY <1>0, HealthTyped
<1>3. CASE Poll
  <2>1. HookTyped' /\ hook'.discovering = hook.discovering
    <3>1. hook.polls - 1 \in 0..MaxPolls /\ 0 \in 0..MaxPolls
      BY <1>0, <1>3, RadioAssumption DEF Poll, HookTyped
    <3>2. PICK h \in [state : Links, connected : BOOLEAN], n \in 0..MaxPolls : hook' = [hook EXCEPT !.health = h, !.polls = n]
      <4>1. CASE hook' = [hook EXCEPT !.polls = @ - 1]
        <5>1. hook.health \in [state : Links, connected : BOOLEAN] /\ hook' = [hook EXCEPT !.health = hook.health, !.polls = hook.polls - 1]
          BY <1>0, <4>1 DEF HookTyped
        <5> QED
          BY <3>1, <5>1
      <4>2. CASE hook' = [hook EXCEPT !.health = HealthOf(radio.link), !.polls = IF Linked(radio.link) THEN 0 ELSE @ - 1]
        <5>1. PICK n \in 0..MaxPolls : n = IF Linked(radio.link) THEN 0 ELSE hook.polls - 1
          BY <3>1
        <5> QED
          BY <1>2, <4>2, <5>1
      <4> QED
        BY <1>3, <4>1, <4>2 DEF Poll
    <3> QED
      BY <1>0, <3>2 DEF HookTyped
  <2>2. UNCHANGED <<radio, radioSteps>> /\ jobs \subseteq jobs' /\ jobs' \subseteq jobs \cup {Refresh}
    BY <1>3 DEF Poll
  <2>3. RadioBusyEnds'
    BY <1>0, <1>1, <2>1, <2>2, BusyKept
  <2> QED
    BY <1>0, <1>1, <2>1, <2>2, <2>3, RefreshMade, JobStep, StepCounted
<1>4. CASE OnHealth
  <2>1. HookTyped' /\ hook'.discovering = hook.discovering
    BY <1>0, <1>2, <1>4 DEF OnHealth, HookTyped
  <2>2. UNCHANGED <<radio, radioSteps>> /\ jobs \subseteq jobs' /\ jobs' \subseteq jobs \cup {Refresh}
    BY <1>4 DEF OnHealth
  <2>3. RadioBusyEnds'
    BY <1>0, <1>1, <2>1, <2>2, BusyKept
  <2> QED
    BY <1>0, <1>1, <2>1, <2>2, <2>3, RefreshMade, JobStep, StepCounted
<1>5. CASE LinkChanges
  <2>1. radio' \in [config : Config, key : Nat, link : Links] /\ radio'.key = radio.key
    BY <1>0, <1>5 DEF LinkChanges
  <2>2. HookTyped' /\ UNCHANGED <<hook, jobs>> /\ radioSteps' \in 0..MaxRadioSteps
    BY <1>0, <1>5, RadioAssumption DEF LinkChanges, HookTyped, RadioInv, RadioTypeOK
  <2>3. RadioBusyEnds'
    BY <1>0, <1>1, <2>2, BusyKept
  <2>4. KeyNeedsConsent' /\ \A j \in jobs' : JobOK(j, consent')
    BY <1>0, <2>1, <2>2 DEF KeyNeedsConsent, RadioInv
  <2> QED
    BY <1>1, <2>1, <2>2, <2>3, <2>4, RadioHolds
<1> QED
  BY <1>3, <1>4, <1>5

\* The finally blocks clear the flags of the job that ended, and no other.
LEMMA EndedTyped ==
    ASSUME NEW s, SectionOK(s), NEW j, NEW failed \in BOOLEAN
    PROVE  LET e == Ended(s, j, failed)
           IN  /\ SectionOK(e) /\ e.mount = s.mount
               /\ e.busy \/ e.rebooting => (s.busy \/ s.rebooting) /\ (j.mount # s.mount \/ j.kind \notin {"save", "import"})
               /\ e.identityBusy => s.identityBusy /\ (j.mount # s.mount \/ j.kind # "identity")
               /\ e.connectionBusy => s.connectionBusy /\ (j.mount # s.mount \/ j.kind \notin {"reconnect", "disconnect"})
               /\ e.advertising => s.advertising /\ (j.mount # s.mount \/ j.kind # "advert")
<1>1. CASE j.mount # s.mount
  BY <1>1 DEF Ended
<1>2. CASE j.mount = s.mount /\ j.kind = "identity"
  <2>1. Ended(s, j, failed) = [s EXCEPT !.identityBusy = FALSE, !.error = @ \/ failed]
    BY <1>2 DEF Ended
  <2>2. PICK e : e = [s EXCEPT !.identityBusy = FALSE, !.error = @ \/ failed]
    OBVIOUS
  <2>3. SectionOK(e) /\ e.mount = s.mount /\ e.busy = s.busy /\ e.rebooting = s.rebooting /\ e.identityBusy = FALSE
        /\ e.connectionBusy = s.connectionBusy /\ e.advertising = s.advertising
    BY <2>2 DEF SectionOK
  <2> QED
    BY <1>2, <2>1, <2>2, <2>3
<1>3. CASE j.mount = s.mount /\ j.kind \in {"reconnect", "disconnect"}
  <2>1. Ended(s, j, failed) = [s EXCEPT !.connectionBusy = FALSE]
    BY <1>3 DEF Ended
  <2>2. PICK e : e = [s EXCEPT !.connectionBusy = FALSE]
    OBVIOUS
  <2>3. SectionOK(e) /\ e.mount = s.mount /\ e.busy = s.busy /\ e.rebooting = s.rebooting /\ e.identityBusy = s.identityBusy
        /\ e.connectionBusy = FALSE /\ e.advertising = s.advertising
    BY <2>2 DEF SectionOK
  <2> QED
    BY <1>3, <2>1, <2>2, <2>3
<1>4. CASE j.mount = s.mount /\ j.kind = "advert"
  <2>1. Ended(s, j, failed) = [s EXCEPT !.advertising = FALSE]
    BY <1>4 DEF Ended
  <2>2. PICK e : e = [s EXCEPT !.advertising = FALSE]
    OBVIOUS
  <2>3. SectionOK(e) /\ e.mount = s.mount /\ e.busy = s.busy /\ e.rebooting = s.rebooting /\ e.identityBusy = s.identityBusy
        /\ e.connectionBusy = s.connectionBusy /\ e.advertising = FALSE
    BY <2>2 DEF SectionOK
  <2> QED
    BY <1>4, <2>1, <2>2, <2>3
<1>5. CASE j.mount = s.mount /\ j.kind \in {"save", "import"}
  <2>1. Ended(s, j, failed) = [s EXCEPT !.busy = FALSE, !.rebooting = FALSE, !.error = @ \/ failed]
    BY <1>5 DEF Ended
  <2>2. PICK e : e = [s EXCEPT !.busy = FALSE, !.rebooting = FALSE, !.error = @ \/ failed]
    OBVIOUS
  <2>3. SectionOK(e) /\ e.mount = s.mount /\ e.busy = FALSE /\ e.rebooting = FALSE /\ e.identityBusy = s.identityBusy
        /\ e.connectionBusy = s.connectionBusy /\ e.advertising = s.advertising
    BY <2>2 DEF SectionOK
  <2> QED
    BY <1>5, <2>1, <2>2, <2>3
<1>6. CASE j.mount = s.mount /\ j.kind \notin {"identity", "reconnect", "disconnect", "advert", "save", "import"}
  BY <1>6 DEF Ended
<1> QED
  BY <1>1, <1>2, <1>3, <1>4, <1>5, <1>6

LEMMA TailChain ==
    ASSUME NEW s \in Seq(Requests), s # <<>>
    PROVE  /\ Head(s) \in Requests /\ Tail(s) \in Seq(Requests)
           /\ \A i \in DOMAIN Tail(s) : i + 1 \in DOMAIN s /\ Tail(s)[i] = s[i + 1]
OBVIOUS

LEMMA ReceiveStep ==
    ASSUME RadioInv, NEW j \in jobs, Receive(j)
    PROVE  RadioInv'
<1> DEFINE step == Head(j.todo)
           thrown == j.answer = "failed" /\ step # "config"
           rest == IF thrown THEN <<>>
                   ELSE IF j.kind = "reconnect" /\ step = "health" /\ Linked(j.link) THEN <<"config">>
                   ELSE Tail(j.todo)
           fresh == step = "config" /\ j.answer = "ok"
           shown == IF fresh /\ Open THEN [radioSection EXCEPT !.form = j.config] ELSE radioSection
           next == [j EXCEPT !.todo = rest, !.answer = "none", !.config = NoAnswer, !.link = "connected"]
<1>0. /\ SectionTyped /\ SectionOK(radioSection) /\ HookTyped /\ FilesTyped /\ RadioBusyEnds /\ KeyNeedsConsent
      /\ JobOK(j, consent) /\ radio \in [config : Config, key : Nat, link : Links]
      /\ UNCHANGED <<radio, sectionMounts, reading, consent, radioSteps>>
  BY DEF RadioInv, RadioTypeOK, Config, SectionTyped, Receive
<1>1. /\ j.update \in Updates /\ j.key \in Nat /\ j.config \in Config /\ j.link \in Links
      /\ j.todo \in Seq(Requests) /\ j.todo # <<>> /\ j.kind \in Kinds /\ j.mount \in Nat
      /\ \A i \in DOMAIN j.todo : j.todo[i] = "key" => j.key \in consent
  BY <1>0 DEF JobOK
<1>2. /\ jobs' = (jobs \ {j}) \cup (IF rest = <<>> THEN {} ELSE {next})
      /\ radioSection' = IF rest = <<>> THEN Ended(shown, j, thrown)
                         ELSE IF j.kind = "save" /\ rest = <<"reboot">> /\ j.mount = radioSection.mount
                         THEN [shown EXCEPT !.rebooting = TRUE]
                         ELSE IF j.kind = "identity" /\ step = "key" /\ j.mount = radioSection.mount
                         THEN [shown EXCEPT !.privateKey = NoKey]
                         ELSE shown
      /\ hook' = [hook EXCEPT !.config = IF fresh THEN j.config ELSE @,
                              !.health = IF j.answer # "ok" THEN @
                                         ELSE IF step = "health" THEN HealthOf(j.link)
                                         ELSE IF step = "reboot" THEN [@ EXCEPT !.connected = FALSE]
                                         ELSE @,
                              !.polls = IF step = "reboot" /\ j.answer = "ok" THEN MaxPolls ELSE @,
                              !.discovering = @ \ {step}]
      /\ files' = IF step # "read key" THEN files
                  ELSE files \cup {[config |-> j.update, key |-> IF j.answer = "ok" THEN radio.key ELSE NoKey]}
  BY DEF Receive
<1>3. step \in Requests /\ thrown \in BOOLEAN
  BY <1>1, TailChain
<1>4. rest \in Seq(Requests) /\ \A i \in DOMAIN rest : rest[i] = "key" => j.key \in consent
  <2>1. PICK r : r = rest
    OBVIOUS
  <2>2. r = <<>> \/ r = <<"config">> \/ r = Tail(j.todo)
    BY <2>1
  <2> HIDE DEF rest
  <2>3. ASSUME r = <<>>
        PROVE  r \in Seq(Requests) /\ \A i \in DOMAIN r : r[i] = "key" => j.key \in consent
    BY <2>3
  <2>4. ASSUME r = <<"config">>
        PROVE  r \in Seq(Requests) /\ \A i \in DOMAIN r : r[i] = "key" => j.key \in consent
    BY <2>4, Chains DEF Keyless, Chain
  <2>5. ASSUME r = Tail(j.todo)
        PROVE  r \in Seq(Requests) /\ \A i \in DOMAIN r : r[i] = "key" => j.key \in consent
    <3>1. PICK s \in Seq(Requests) : s = j.todo
      BY <1>1
    <3>2. Tail(s) \in Seq(Requests) /\ \A i \in DOMAIN Tail(s) : i + 1 \in DOMAIN s /\ Tail(s)[i] = s[i + 1]
      BY <1>1, <3>1, TailChain
    <3>3. \A i \in DOMAIN s : s[i] = "key" => j.key \in consent
      BY <1>1, <3>1
    <3> QED
      BY <2>5, <3>1, <3>2, <3>3
  <2> QED
    BY <2>1, <2>2, <2>3, <2>4, <2>5
<1>5. SectionOK(shown) /\ NoBusier(shown, radioSection)
  <2>1. j.config \in [Fields -> 0..2] /\ \A f \in Fields \ Numbers : j.config[f] # 0
    BY <1>1 DEF Config
  <2>2. CASE fresh /\ Open
    <3>1. PICK s : s = [radioSection EXCEPT !.form = j.config]
      OBVIOUS
    <3>2. SectionOK(s) /\ NoBusier(s, radioSection)
      BY <1>0, <2>1, <3>1 DEF SectionOK, NoBusier
    <3> QED
      BY <2>2, <3>1, <3>2
  <2>3. CASE ~(fresh /\ Open)
    BY <1>0, <2>3 DEF NoBusier
  <2> QED
    BY <2>2, <2>3
<1>6. FilesTyped'
  <2>1. [config |-> j.update, key |-> IF j.answer = "ok" THEN radio.key ELSE 0] \in RadioFile
    BY <1>0, <1>1 DEF RadioFile
  <2> QED
    BY <1>0, <1>2, <2>1 DEF FilesTyped
<1>7. HookTyped' /\ hook'.discovering = hook.discovering \ {step}
  <2>1. PICK c \in Config : c = IF fresh THEN j.config ELSE hook.config
    BY <1>0, <1>1 DEF HookTyped
  <2>2. PICK h \in [state : Links, connected : BOOLEAN] :
           h = IF j.answer # "ok" THEN hook.health
               ELSE IF step = "health" THEN HealthOf(j.link)
               ELSE IF step = "reboot" THEN [hook.health EXCEPT !.connected = FALSE]
               ELSE hook.health
    BY <1>0, <1>1, HealthTyped DEF HookTyped
  <2>3. PICK n \in 0..MaxPolls : n = IF step = "reboot" /\ j.answer = "ok" THEN MaxPolls ELSE hook.polls
    BY <1>0, RadioAssumption DEF HookTyped
  <2>4. hook' = [hook EXCEPT !.config = c, !.health = h, !.polls = n, !.discovering = hook.discovering \ {step}]
    BY <1>0, <1>2, <2>1, <2>2, <2>3 DEF HookTyped
  <2> HIDE DEF step
  <2> QED
    BY <1>0, <2>4 DEF HookTyped
<1>8. radioSteps' \in 0..MaxRadioSteps /\ KeyNeedsConsent'
  BY <1>0, StepCounted DEF KeyNeedsConsent
<1>9. \A w \in hook'.discovering : \E i \in jobs \ {j} : i.todo = <<w>>
  <2> SUFFICES ASSUME NEW w \in hook'.discovering
               PROVE  \E i \in jobs \ {j} : i.todo = <<w>>
    OBVIOUS
  <2>1. w \in hook.discovering /\ w # Head(j.todo)
    BY <1>7
  <2>2. PICK i \in jobs : i.todo = <<w>>
    BY <1>0, <2>1 DEF RadioBusyEnds
  <2>3. Head(<<w>>) = w
    OBVIOUS
  <2> QED
    BY <2>1, <2>2, <2>3
<1> HIDE DEF step, thrown, rest, fresh, shown
<1>10. CASE rest = <<>>
  <2>1. radioSection' = Ended(shown, j, thrown) /\ jobs' = jobs \ {j}
    BY <1>2, <1>10
  <2>2. /\ SectionOK(radioSection') /\ radioSection'.mount = radioSection.mount
        /\ radioSection'.busy \/ radioSection'.rebooting =>
             (radioSection.busy \/ radioSection.rebooting) /\ (j.mount # radioSection.mount \/ j.kind \notin {"save", "import"})
        /\ radioSection'.identityBusy => radioSection.identityBusy /\ (j.mount # radioSection.mount \/ j.kind # "identity")
        /\ radioSection'.connectionBusy =>
             radioSection.connectionBusy /\ (j.mount # radioSection.mount \/ j.kind \notin {"reconnect", "disconnect"})
        /\ radioSection'.advertising => radioSection.advertising /\ (j.mount # radioSection.mount \/ j.kind # "advert")
    BY <1>3, <1>5, <2>1, EndedTyped DEF NoBusier
  <2>3. \A kinds : Working(kinds) /\ (j.mount # radioSection.mount \/ j.kind \notin kinds) => Working(kinds)'
    BY <2>1, <2>2 DEF Working
  <2>4. RadioBusyEnds'
    <3>1. \A w \in hook'.discovering : \E i \in jobs' : i.todo = <<w>>
      BY <1>9, <2>1
    <3> QED
      BY <1>0, <2>2, <2>3, <3>1 DEF RadioBusyEnds
  <2>5. SectionTyped' /\ \A i \in jobs' : JobOK(i, consent')
    BY <1>0, <2>1, <2>2 DEF SectionTyped, RadioInv
  <2> QED
    BY <1>0, <1>6, <1>7, <1>8, <2>4, <2>5, RadioHolds
<1>11. CASE rest # <<>>
  <2>1. JobOK(next, consent) /\ next.kind = j.kind /\ next.mount = j.mount
    <3>1. NoAnswer \in Config /\ "connected" \in Links
      BY DEF NoAnswer, Config, Links
    <3> QED
      BY <1>0, <1>4, <1>11, <3>1 DEF JobOK
  <2> HIDE DEF next
  <2>2. jobs' = (jobs \ {j}) \cup {next}
    BY <1>2, <1>11
  <2>3. /\ SectionOK(radioSection') /\ radioSection'.mount = radioSection.mount
        /\ radioSection'.busy \/ radioSection'.rebooting =>
             radioSection.busy \/ radioSection.rebooting \/ (j.mount = radioSection.mount /\ j.kind = "save")
        /\ radioSection'.identityBusy => radioSection.identityBusy
        /\ radioSection'.connectionBusy => radioSection.connectionBusy
        /\ radioSection'.advertising => radioSection.advertising
    <3>1. CASE j.kind = "save" /\ rest = <<"reboot">> /\ j.mount = radioSection.mount
      <4>1. radioSection' = [shown EXCEPT !.rebooting = TRUE]
        BY <1>2, <1>11, <3>1
      <4>2. SectionOK(radioSection') /\ NoBusier(radioSection', [shown EXCEPT !.busy = TRUE])
        BY <1>5, <4>1 DEF SectionOK, NoBusier
      <4>3. /\ radioSection'.mount = shown.mount /\ radioSection'.identityBusy = shown.identityBusy
            /\ radioSection'.connectionBusy = shown.connectionBusy /\ radioSection'.advertising = shown.advertising
        BY <1>5, <4>1 DEF SectionOK
      <4> QED
        BY <1>5, <3>1, <4>2, <4>3 DEF NoBusier
    <3>2. CASE radioSection' = [shown EXCEPT !.privateKey = NoKey] \/ radioSection' = shown
      <4>1. SectionOK(radioSection') /\ NoBusier(radioSection', shown)
        BY <1>5, <3>2 DEF SectionOK, NoBusier
      <4> QED
        BY <1>5, <4>1 DEF NoBusier
    <3> QED
      BY <1>2, <1>11, <3>1, <3>2
  <2>4. \A kinds : Working(kinds) => Working(kinds)'
    BY <2>1, <2>2, <2>3 DEF Working
  <2>5. j.mount = radioSection.mount /\ j.kind = "save" => Working({"save", "import"})'
    BY <2>1, <2>2, <2>3 DEF Working
  <2>6. RadioBusyEnds'
    <3>1. \A w \in hook'.discovering : \E i \in jobs' : i.todo = <<w>>
      BY <1>9, <2>2
    <3> QED
      BY <1>0, <2>3, <2>4, <2>5, <3>1 DEF RadioBusyEnds
  <2>7. SectionTyped' /\ \A i \in jobs' : JobOK(i, consent')
    BY <1>0, <2>1, <2>2, <2>3 DEF SectionTyped, RadioInv
  <2> QED
    BY <1>0, <1>6, <1>7, <1>8, <2>6, <2>7, RadioHolds
<1> QED
  BY <1>10, <1>11

LEMMA RadioStep ==
    ASSUME RadioInv, [RadioNext]_radioVars
    PROVE  RadioInv'
<1>1. CASE UNCHANGED radioVars
  BY <1>1 DEF radioVars, RadioInv, RadioTypeOK, SectionTyped, HookTyped, FilesTyped, RadioBusyEnds, Working, KeyNeedsConsent
<1>2. CASE RadioNext
  BY <1>2, EditStep, FormActions, SaveStep, IdentityStep, ExportStep, ImportStep, ConfirmStep, ConnectionStep,
     AdvertStep, DiscoverStep, ServeStep, ReceiveStep, HealthSteps DEF RadioNext
<1> QED
  BY <1>1, <1>2

-----------------------------------------------------------------------------
(* Room servers                                                             *)

LEMMA RoomStarts == ASSUME RoomInit PROVE RoomInv
<1> USE RoomAssumption DEF RoomInit
<1>1. Idle \in [loading : BOOLEAN, error : BOOLEAN, fetched : BOOLEAN]
  BY DEF Idle
<1>2. InitialRoom \in RoomEntries
  BY <1>1 DEF InitialRoom, RoomEntries
<1>3. room \in RoomPanels
  BY <1>2 DEF NoPanel, Panel, RoomPanels
<1>4. room.kept \in RoomEntries
  BY <1>3 DEF RoomPanels
<1>5. RoomTyped
  BY <1>3 DEF RoomTyped
<1>6. RoomTypeOK
  BY <1>4 DEF RoomTypeOK, RoomEntries, NoRoom
<1>7. StoppedRoomWaits /\ RequestsOwned /\ StoppedInCache
  BY DEF StoppedRoomWaits, RequestsOwned, StoppedInCache, NoRoom
<1> QED
  BY <1>5, <1>6, <1>7 DEF RoomInv

\* The entry of the cache moved to the end of the order, the oldest one gone.
LEMMA OrderKeepsType ==
    ASSUME RoomInv, NEW k
    PROVE  /\ OrderWithout(k) \in Seq(DOMAIN roomCache) /\ DOMAIN roomCache \subseteq Rooms
           /\ Len(OrderWithout(k)) <= Len(roomOrder)
<1>1. roomOrder \in Seq(Rooms) /\ DOMAIN roomCache = {roomOrder[i] : i \in DOMAIN roomOrder}
  BY DEF RoomInv, RoomTyped, RoomTypeOK
<1>2. roomOrder \in Seq(DOMAIN roomCache) /\ DOMAIN roomCache \subseteq Rooms
  BY <1>1
<1>3. CASE \E i \in DOMAIN roomOrder : roomOrder[i] = k
  <2>1. PICK at \in DOMAIN roomOrder : at = CHOOSE i \in DOMAIN roomOrder : roomOrder[i] = k
    BY <1>3
  <2>2. OrderWithout(k) = [i \in 1..(Len(roomOrder) - 1) |-> roomOrder[IF i < at THEN i ELSE i + 1]]
    BY <1>3, <2>1 DEF OrderWithout
  <2>3. PICK n \in Nat : n = Len(roomOrder) - 1
    BY <1>1, <1>3
  <2>4. \A i \in 1..n : roomOrder[IF i < at THEN i ELSE i + 1] \in DOMAIN roomCache
    BY <1>2, <2>3
  <2>5. PICK s : s = [i \in 1..n |-> roomOrder[IF i < at THEN i ELSE i + 1]]
    OBVIOUS
  <2>6. s \in Seq(DOMAIN roomCache) /\ Len(s) = n
    BY <2>4, <2>5
  <2> QED
    BY <1>1, <1>2, <2>2, <2>3, <2>5, <2>6
<1>4. CASE ~\E i \in DOMAIN roomOrder : roomOrder[i] = k
  BY <1>1, <1>2, <1>4 DEF OrderWithout
<1> QED
  BY <1>3, <1>4

LEMMA RoomCached ==
    ASSUME RoomInv, NEW k \in Rooms, NEW entry \in RoomEntries, CacheRoom(k, entry)
    PROVE  /\ roomOrder' \in Seq(Rooms) /\ Len(roomOrder') <= MaxCachedRooms
           /\ DOMAIN roomCache' = {roomOrder'[i] : i \in DOMAIN roomOrder'} /\ k \in DOMAIN roomCache'
           /\ DOMAIN roomCache' \subseteq DOMAIN roomCache \cup {k}
           /\ roomCache' = [j \in DOMAIN roomCache' |-> IF j = k THEN entry ELSE SavedRooms[j]]
<1> DEFINE order == Append(OrderWithout(k), k)
           left  == IF Len(order) > MaxCachedRooms THEN Tail(order) ELSE order
           Cached == DOMAIN roomCache \cup {k}
<1>1. PICK s \in Seq(DOMAIN roomCache) : s = OrderWithout(k) /\ Len(s) <= Len(roomOrder)
  BY OrderKeepsType
<1>2. Len(roomOrder) <= MaxCachedRooms /\ roomOrder \in Seq(Rooms) /\ Cached \subseteq Rooms
  BY OrderKeepsType DEF RoomInv, RoomTypeOK, RoomTyped
<1>3. order = Append(s, k)
  BY <1>1
<1>4. roomOrder' = left /\ roomCache' = [j \in {left[i] : i \in DOMAIN left} |-> IF j = k THEN entry ELSE SavedRooms[j]]
  BY DEF CacheRoom
<1>5. s \in Seq(Cached)
  BY <1>1
<1> HIDE DEF order, Cached
<1>6. order \in Seq(Cached) /\ Len(order) = Len(s) + 1 /\ order[Len(s) + 1] = k
  <2>1. k \in Cached
    BY DEF Cached
  <2> QED
    BY <1>3, <1>5, <2>1
<1>7. left \in Seq(Cached) /\ Len(left) <= MaxCachedRooms
  BY <1>1, <1>2, <1>6, RoomAssumption
<1>8. \E i \in DOMAIN left : left[i] = k
  <2>1. CASE Len(order) > MaxCachedRooms
    <3>1. Len(s) \in 1..Len(s) /\ Tail(order) \in Seq(Cached) /\ Len(Tail(order)) = Len(s) /\ Tail(order)[Len(s)] = k
      BY <1>1, <1>6, <2>1, RoomAssumption
    <3> QED
      BY <1>1, <2>1, <3>1
  <2>2. CASE ~(Len(order) > MaxCachedRooms)
    BY <1>1, <1>6, <2>2
  <2> QED
    BY <2>1, <2>2
<1> HIDE DEF left
<1>9. left \in Seq(Rooms) /\ {left[i] : i \in DOMAIN left} \subseteq Cached
  BY <1>2, <1>7
<1> QED
  BY <1>4, <1>7, <1>8, <1>9 DEF Cached

\* Saving the panel in the cache adds no entry and changes that of its room.
LEMMA RoomsSaved ==
    ASSUME RoomInv
    PROVE  /\ DOMAIN SavedRooms = DOMAIN roomCache /\ room.kept \in RoomEntries
           /\ \A j \in DOMAIN roomCache : SavedRooms[j] \in RoomEntries
                 /\ SavedRooms[j] = IF j = roomShown THEN room.kept ELSE roomCache[j]
<1>1. room.kept \in RoomEntries /\ roomCache \in [DOMAIN roomCache -> RoomEntries]
  BY DEF RoomInv, RoomTyped, RoomPanels
<1>2. NoRoom \notin DOMAIN roomCache
  BY RoomAssumption DEF RoomInv, RoomTyped, RoomTypeOK, NoRoom
<1> QED
  BY <1>1, <1>2 DEF SavedRooms

\* A post changes what an entry says of the attempt, never whether it is open.
LEMMA PostKeepsOpen ==
    ASSUME NEW e \in RoomEntries
    PROVE  /\ PostConfirms(e) \in RoomEntries /\ PostConfirms(e).authenticated = e.authenticated
           /\ [e EXCEPT !.heard = TRUE] \in RoomEntries /\ [e EXCEPT !.heard = TRUE].authenticated = e.authenticated
BY DEF PostConfirms, RoomEntries

LEMMA SyncTyped ==
    ASSUME RoomInv, NEW e, NEW k \in Rooms
    PROVE  /\ SyncAfter(k, e) \in [Rooms -> {"none", "fresh", "old"}]
           /\ [lastSync EXCEPT ![k] = "fresh"] \in [Rooms -> {"none", "fresh", "old"}]
BY DEF SyncAfter, RoomInv, RoomTypeOK

\* What a step within the mounted panel leaves alone and has to establish.
LEMMA RoomHolds ==
    ASSUME RoomInv, UNCHANGED <<roomShown, roomMount, roomOrder>>,
           DOMAIN roomCache' = DOMAIN roomCache,
           \A j \in DOMAIN roomCache : roomCache'[j] \in RoomEntries /\ roomCache'[j].authenticated = roomCache[j].authenticated,
           roomCache' \in [DOMAIN roomCache -> RoomEntries],
           lastSync' \in [Rooms -> {"none", "fresh", "old"}],
           roomPasswords' \in [Rooms -> [memory : BOOLEAN, disk : BOOLEAN]],
           room' \in RoomPanels, RequestsOwned',
           stopped' \subseteq stopped \cup ({roomShown} \ {NoRoom}),
           roomShown \in stopped' =>
              ~room'.kept.authenticated /\ ~room'.loginLoading /\ ~\E t \in roomTasks' : Awaited(t)'
    PROVE  RoomInv'
<1>1. RoomTypeOK'
  BY DEF RoomInv, RoomTypeOK, RoomTyped, RoomPanels, RoomEntries, NoRoom
<1>2. RoomTyped'
  BY DEF RoomInv, RoomTyped
<1>3. StoppedInCache'
  BY DEF RoomInv, StoppedInCache, NoRoom
<1>4. StoppedRoomWaits'
  BY DEF RoomInv, StoppedRoomWaits, StoppedInCache, AutoSyncs
<1> QED
  BY <1>1, <1>2, <1>3, <1>4 DEF RoomInv

LEMMA GivenUpOwned ==
    ASSUME RoomInv, NEW t \in GivenUp
    PROVE  /\ t \in RoomRequests /\ t.mount <= roomMount /\ (HeardRoom(t) => t.key = roomShown)
           /\ t.kind = "pane" => t.what \in RoomPanes
           /\ ~Awaited(t)
<1>1. PICK u \in roomTasks : t = IF u.kind = "login" /\ HeardRoom(u) THEN [u EXCEPT !.current = FALSE] ELSE u
  BY DEF GivenUp
<1>2. /\ u \in RoomRequests /\ u.mount <= roomMount /\ (HeardRoom(u) => u.key = roomShown)
      /\ u.kind = "pane" => u.what \in RoomPanes
  BY DEF RoomInv, RequestsOwned
<1>3. CASE u.kind = "login" /\ HeardRoom(u)
  <2>1. t = [u EXCEPT !.current = FALSE]
    BY <1>1, <1>3
  <2>2. t \in RoomRequests /\ t.mount = u.mount /\ t.key = u.key /\ t.kind = u.kind /\ t.what = u.what /\ t.current = FALSE
    BY <1>2, <2>1 DEF RoomRequests
  <2> QED
    BY <1>2, <1>3, <2>2 DEF HeardRoom, Awaited
<1>4. CASE ~(u.kind = "login" /\ HeardRoom(u))
  BY <1>1, <1>2, <1>4 DEF Awaited
<1> QED
  BY <1>3, <1>4

\* performLogin: the earlier login of the panel becomes deaf.
LEMMA LoginPerformed ==
    ASSUME RoomInv, roomShown # NoRoom, NEW persist \in BOOLEAN, NEW remember \in BOOLEAN, NEW panel \in RoomPanels,
           PerformLogin(persist, remember, panel)
    PROVE  RoomInv'
<1>1. roomShown \in Rooms /\ roomMount \in Nat
  BY RoomAssumption DEF RoomInv, RoomTypeOK
<1>2. PICK n : n = [RoomTask("login", "") EXCEPT !.persist = persist, !.remember = remember]
  OBVIOUS
<1>3. n \in RoomRequests /\ n.mount = roomMount /\ n.key = roomShown /\ n.kind = "login"
  BY <1>1, <1>2 DEF RoomTask, RoomRequests
<1>4. /\ room' = [panel EXCEPT !.loginLoading = TRUE, !.kept.error = FALSE]
      /\ roomTasks' = GivenUp \cup {n} /\ stopped' = stopped \ {roomShown}
      /\ UNCHANGED <<roomShown, roomMount, roomCache, roomOrder, lastSync, roomPasswords>>
  BY <1>2 DEF PerformLogin
<1>5. room' \in RoomPanels
  BY <1>4 DEF RoomPanels, RoomEntries
<1>6. RequestsOwned'
  <2>1. \A t : HeardRoom(t)' <=> HeardRoom(t)
    BY <1>4 DEF HeardRoom
  <2>2. \A t : Awaited(t)' <=> Awaited(t)
    BY <2>1 DEF Awaited
  <2> QED
    BY <1>1, <1>3, <1>4, <2>1, <2>2, GivenUpOwned DEF RequestsOwned
<1> QED
  BY <1>4, <1>5, <1>6, RoomHolds DEF RoomInv, RoomTyped, RoomTypeOK

\* A step that sends a request other than a login, or none.
LEMMA WithinRoom ==
    ASSUME RoomInv, roomShown # NoRoom, UNCHANGED <<roomShown, roomMount, roomCache, roomOrder, stopped>>,
           room' \in RoomPanels, room'.kept.authenticated => room.kept.authenticated, room'.loginLoading = room.loginLoading,
           lastSync' \in [Rooms -> {"none", "fresh", "old"}],
           roomPasswords' \in [Rooms -> [memory : BOOLEAN, disk : BOOLEAN]],
           \A t \in roomTasks' \ roomTasks : /\ t \in RoomRequests /\ t.mount = roomMount /\ t.key = roomShown
                                            /\ t.kind # "login" /\ (t.kind = "pane" => t.what \in RoomPanes)
    PROVE  RoomInv'
<1>1. roomMount \in Nat
  BY RoomAssumption DEF RoomInv, RoomTypeOK
<1>2. \A t : HeardRoom(t)' <=> HeardRoom(t)
  BY DEF HeardRoom
<1>3. \A t : Awaited(t)' <=> Awaited(t)
  BY <1>2 DEF Awaited
<1>4. \A t \in roomTasks' \ roomTasks : /\ t \in RoomRequests /\ t.mount = roomMount /\ t.key = roomShown
                                       /\ ~Awaited(t) /\ (t.kind = "pane" => t.what \in RoomPanes)
  BY DEF Awaited
<1>5. RequestsOwned'
  BY <1>1, <1>2, <1>3, <1>4 DEF RequestsOwned, RoomInv
<1>6. \A t \in roomTasks' : Awaited(t) => t \in roomTasks
  BY <1>4
<1> QED
  BY <1>3, <1>5, <1>6, RoomHolds DEF RoomInv, RoomTyped, StoppedRoomWaits, StoppedInCache

\* An answer that is not a login's: it leaves the login state of the panel alone.
LEMMA ToolAnswered ==
    ASSUME RoomInv, NEW t \in roomTasks, roomTasks' = roomTasks \ {t},
           UNCHANGED <<roomShown, roomMount, roomCache, roomOrder, lastSync, roomPasswords, stopped>>,
           room' \in RoomPanels, room'.kept.authenticated = room.kept.authenticated, room'.loginLoading = room.loginLoading
    PROVE  RoomInv'
<1>1. \A u : HeardRoom(u)' <=> HeardRoom(u)
  BY DEF HeardRoom
<1>2. \A u : Awaited(u)' <=> Awaited(u)
  BY <1>1 DEF Awaited
<1>3. RequestsOwned'
  BY <1>1, <1>2 DEF RequestsOwned, RoomInv
<1> QED
  BY <1>2, <1>3, RoomHolds DEF RoomInv, RoomTyped, RoomTypeOK, StoppedRoomWaits, StoppedInCache

LEMMA AnsweredTyped ==
    ASSUME RoomInv, NEW t \in RoomRequests, NEW result \in {"ok", "refused", "timeout", "error"}
    PROVE  Answered(t, result) \in RoomEntries /\ Answered(t, result).authenticated = (result # "refused")
<1>1. room.kept \in RoomEntries /\ t.heard \in BOOLEAN
  BY DEF RoomInv, RoomTyped, RoomPanels, RoomRequests
<1>2. PICK a : a = CASE result = "ok" -> "confirmed" [] result = "refused" -> "refused"
                     [] result = "timeout" -> "unanswered" [] result = "error" -> "failed"
  OBVIOUS
<1>3. a \in {"confirmed", "refused", "unanswered", "failed"}
  BY <1>2
<1>4. PICK o \in BOOLEAN : o = (result # "refused")
  OBVIOUS
<1>5. PICK f \in BOOLEAN : f = (result \in {"refused", "error"})
  <2>1. (result \in {"refused", "error"}) \in BOOLEAN
    OBVIOUS
  <2> QED
    BY <2>1
<1>6. Answered(t, result) = [room.kept EXCEPT !.attempt = a, !.heard = t.heard, !.authenticated = o, !.error = f]
  BY <1>2, <1>4, <1>5 DEF Answered
<1> QED
  BY <1>1, <1>3, <1>4, <1>5, <1>6 DEF RoomEntries

\* The answer of a login: only the one awaited changes what is shown, and no
\* login of a stopped room is awaited.
LEMMA LoginAnswered ==
    ASSUME RoomInv, NEW t \in roomTasks, NEW result \in {"ok", "refused", "timeout", "error"}, RoomLoginReturns(t, result)
    PROVE  RoomInv'
<1>1. /\ t \in RoomRequests /\ t.kind = "login" /\ (HeardRoom(t) => t.key = roomShown)
      /\ roomTasks' = roomTasks \ {t} /\ UNCHANGED <<roomShown, roomMount, roomCache, roomOrder>>
  BY DEF RoomInv, RequestsOwned, RoomLoginReturns
<1>2. t.key \in Rooms /\ t.remember \in BOOLEAN /\ t.heard \in BOOLEAN
  BY <1>1 DEF RoomRequests
<1>3. \A u : HeardRoom(u)' <=> HeardRoom(u)
  BY <1>1 DEF HeardRoom
<1>4. \A u : Awaited(u)' <=> Awaited(u)
  BY <1>3 DEF Awaited
<1>5. RequestsOwned'
  BY <1>1, <1>3, <1>4 DEF RequestsOwned, RoomInv
<1>6. roomPasswords' \in [Rooms -> [memory : BOOLEAN, disk : BOOLEAN]]
  BY <1>2 DEF RoomInv, RoomTyped, RoomLoginReturns, Persisted
<1>7. PICK e \in RoomEntries : e = Answered(t, result) /\ e.authenticated = (result # "refused")
  BY <1>1, AnsweredTyped
<1>8. lastSync' \in [Rooms -> {"none", "fresh", "old"}]
  <2>1. lastSync \in [Rooms -> {"none", "fresh", "old"}]
    BY DEF RoomInv, RoomTypeOK
  <2>2. lastSync' \in {[lastSync EXCEPT ![t.key] = "fresh"], SyncAfter(t.key, Answered(t, result)), lastSync}
    BY DEF RoomLoginReturns
  <2> QED
    BY <1>2, <2>1, <2>2, SyncTyped
<1>9. CASE HeardRoom(t) /\ t.current
  <2>1. /\ room' = [room EXCEPT !.loginLoading = FALSE, !.kept = PostConfirms(e)]
        /\ stopped' = IF result = "refused" THEN stopped \cup {t.key} ELSE stopped
    BY <1>7, <1>9 DEF RoomLoginReturns
  <2>2. room' \in RoomPanels /\ room'.loginLoading = FALSE /\ room'.kept.authenticated = (result # "refused")
    BY <1>7, <2>1, PostKeepsOpen DEF RoomInv, RoomTyped, RoomPanels
  <2>3. Awaited(t) /\ \A u \in roomTasks' : ~Awaited(u)
    BY <1>1, <1>9 DEF Awaited, RoomInv, RequestsOwned
  <2>4. roomShown \notin stopped /\ t.key = roomShown /\ roomShown # NoRoom
    BY <1>1, <1>9, <2>3 DEF RoomInv, StoppedInCache, HeardRoom
  <2>5. roomShown \in stopped' => ~room'.kept.authenticated
    BY <2>1, <2>2, <2>4
  <2> QED
    BY <1>1, <1>4, <1>5, <1>6, <1>8, <2>1, <2>2, <2>3, <2>4, <2>5, RoomHolds DEF RoomInv, RoomTyped
<1>10. CASE ~(HeardRoom(t) /\ t.current)
  <2>1. UNCHANGED <<room, stopped>>
    BY <1>10 DEF RoomLoginReturns
  <2> QED
    BY <1>1, <1>4, <1>5, <1>6, <1>8, <2>1, RoomHolds DEF RoomInv, RoomTyped, StoppedRoomWaits, StoppedInCache
<1> QED
  BY <1>9, <1>10

\* A post marks the logins of its room that wait, and is awaited no more for it.
LEMMA PostStep ==
    ASSUME RoomInv, NEW k \in Rooms, PostArrives(k)
    PROVE  RoomInv'
<1>1. UNCHANGED <<roomShown, roomMount, roomOrder, roomPasswords, stopped>>
  BY DEF PostArrives
<1>2. roomTasks' = {IF t.key = k /\ t.kind = "login" THEN [t EXCEPT !.heard = TRUE] ELSE t : t \in roomTasks}
  BY DEF PostArrives
<1>3. \A t : (HeardRoom(t)' <=> HeardRoom(t)) /\ (Awaited(t)' <=> Awaited(t))
  BY <1>1 DEF HeardRoom, Awaited
<1>4. \A t \in roomTasks' : \E u \in roomTasks :
         /\ t \in RoomRequests /\ t.mount = u.mount /\ t.key = u.key /\ t.kind = u.kind /\ t.what = u.what
         /\ t.current = u.current /\ t = IF u.key = k /\ u.kind = "login" THEN [u EXCEPT !.heard = TRUE] ELSE u
  <2> SUFFICES ASSUME NEW u \in roomTasks, NEW t, t = IF u.key = k /\ u.kind = "login" THEN [u EXCEPT !.heard = TRUE] ELSE u
               PROVE  /\ t \in RoomRequests /\ t.mount = u.mount /\ t.key = u.key /\ t.kind = u.kind /\ t.what = u.what
                      /\ t.current = u.current
    BY <1>2
  <2>1. u \in RoomRequests
    BY DEF RoomInv, RequestsOwned
  <2> QED
    BY <2>1 DEF RoomRequests
<1>5. RequestsOwned'
  <2> SUFFICES ASSUME NEW t \in roomTasks'
               PROVE  /\ t \in RoomRequests /\ t.mount <= roomMount /\ (HeardRoom(t) => t.key = roomShown)
                      /\ t.kind = "pane" => t.what \in RoomPanes
                      /\ \A v \in roomTasks' : Awaited(t) /\ Awaited(v) => t = v
    BY <1>1, <1>3 DEF RequestsOwned
  <2>1. PICK u \in roomTasks :
           /\ t \in RoomRequests /\ t.mount = u.mount /\ t.key = u.key /\ t.kind = u.kind /\ t.what = u.what
           /\ t.current = u.current /\ t = IF u.key = k /\ u.kind = "login" THEN [u EXCEPT !.heard = TRUE] ELSE u
    BY <1>4
  <2>2. ASSUME NEW v \in roomTasks', Awaited(t), Awaited(v)
        PROVE  t = v
    <3>1. PICK w \in roomTasks :
             /\ v.mount = w.mount /\ v.kind = w.kind /\ v.current = w.current
             /\ v = IF w.key = k /\ w.kind = "login" THEN [w EXCEPT !.heard = TRUE] ELSE w
      BY <1>4
    <3>2. Awaited(u) /\ Awaited(w)
      BY <2>1, <2>2, <3>1 DEF Awaited, HeardRoom
    <3>3. u = w
      BY <3>2 DEF RoomInv, RequestsOwned
    <3> QED
      BY <2>1, <3>1, <3>3
  <2> QED
    BY <2>1, <2>2 DEF RoomInv, RequestsOwned, HeardRoom
<1>6. roomShown \in stopped => ~\E t \in roomTasks' : Awaited(t)
  <2>1. \A t \in roomTasks' : Awaited(t) => \E u \in roomTasks : Awaited(u)
    BY <1>4 DEF Awaited, HeardRoom
  <2> QED
    BY <2>1 DEF RoomInv, StoppedInCache
<1>7. CASE k = roomShown
  <2>1. /\ room' = [room EXCEPT !.kept = PostConfirms([room.kept EXCEPT !.heard = TRUE])]
        /\ lastSync' = SyncAfter(k, [room.kept EXCEPT !.heard = TRUE]) /\ UNCHANGED roomCache
    BY <1>7 DEF PostArrives
  <2>2. PICK e \in RoomEntries : e = [room.kept EXCEPT !.heard = TRUE] /\ e.authenticated = room.kept.authenticated
    BY RoomsSaved, PostKeepsOpen
  <2>3. PICK p \in RoomEntries : p = PostConfirms(e) /\ p.authenticated = room.kept.authenticated
    BY <2>2, PostKeepsOpen
  <2>4. room' = [room EXCEPT !.kept = p]
    BY <2>1, <2>2, <2>3
  <2>5. room' \in RoomPanels /\ room'.kept.authenticated = room.kept.authenticated /\ room'.loginLoading = room.loginLoading
    BY <2>3, <2>4 DEF RoomInv, RoomTyped, RoomPanels
  <2>6. lastSync' \in [Rooms -> {"none", "fresh", "old"}]
    BY <2>1, SyncTyped
  <2> QED
    BY <1>1, <1>3, <1>5, <1>6, <2>1, <2>5, <2>6, RoomHolds DEF RoomInv, RoomTyped, StoppedRoomWaits
<1>8. CASE k # roomShown
  <2>1. /\ roomCache' = [j \in DOMAIN roomCache |-> IF j = k THEN [roomCache[j] EXCEPT !.heard = TRUE] ELSE roomCache[j]]
        /\ UNCHANGED <<room, lastSync>>
    BY <1>8 DEF PostArrives
  <2>2. \A j \in DOMAIN roomCache : roomCache[j] \in RoomEntries
    BY DEF RoomInv, RoomTyped
  <2>3. \A j \in DOMAIN roomCache : roomCache'[j] \in RoomEntries /\ roomCache'[j].authenticated = roomCache[j].authenticated
    BY <2>1, <2>2, PostKeepsOpen
  <2>4. DOMAIN roomCache' = DOMAIN roomCache /\ roomCache' \in [DOMAIN roomCache -> RoomEntries]
    BY <2>1, <2>3
  <2> QED
    BY <1>1, <1>3, <1>5, <1>6, <2>1, <2>3, <2>4, RoomHolds DEF RoomInv, RoomTyped, RoomTypeOK, StoppedRoomWaits
<1> QED
  BY <1>7, <1>8

LEMMA CloseStep ==
    ASSUME RoomInv, CloseRoom
    PROVE  RoomInv'
<1>1. /\ roomCache' = SavedRooms /\ roomShown' = NoRoom /\ room' = NoPanel /\ roomShown # NoRoom
      /\ UNCHANGED <<roomMount, roomOrder, lastSync, roomPasswords, roomTasks, stopped>>
  BY DEF CloseRoom
<1>2. room' \in RoomPanels
  <2>1. Idle \in [loading : BOOLEAN, error : BOOLEAN, fetched : BOOLEAN]
    BY DEF Idle
  <2>2. InitialRoom \in RoomEntries
    BY <2>1 DEF InitialRoom, RoomEntries
  <2> QED
    BY <1>1, <2>2 DEF NoPanel, Panel, RoomPanels
<1>3. DOMAIN roomCache' = DOMAIN roomCache /\ roomCache' \in [DOMAIN roomCache' -> RoomEntries]
  BY <1>1, RoomsSaved DEF SavedRooms
<1>4. \A k \in stopped : ~roomCache'[k].authenticated
  BY <1>1, RoomsSaved DEF RoomInv, StoppedInCache, StoppedRoomWaits
<1>5. NoRoom \notin stopped
  BY RoomAssumption DEF RoomInv, RoomTypeOK, NoRoom
<1>6. RoomTypeOK'
  BY <1>1, <1>2, <1>3 DEF RoomInv, RoomTypeOK, RoomPanels, RoomEntries
<1>7. RoomTyped'
  BY <1>1, <1>2, <1>3 DEF RoomInv, RoomTyped
<1>8. RequestsOwned'
  BY <1>1 DEF RoomInv, RequestsOwned, HeardRoom, Awaited
<1>9. StoppedInCache'
  BY <1>1, <1>3, <1>4, <1>5 DEF RoomInv, StoppedInCache
<1>10. StoppedRoomWaits'
  BY <1>1, <1>4, <1>5 DEF StoppedRoomWaits, AutoSyncs
<1> QED
  BY <1>6, <1>7, <1>8, <1>9, <1>10 DEF RoomInv

\* Opening a room: its cached entry is as it was left, so a stopped room opens
\* at its form and sends no login; no request is of the new mount but its own.
LEMMA OpenStep ==
    ASSUME RoomInv, NEW k \in Rooms, OpenRoom(k)
    PROVE  RoomInv'
<1> DEFINE entry == PostConfirms(OpensWith(k))
           stored == roomPasswords[k].memory \/ roomPasswords[k].disk
           panel == Panel(entry, stored, roomPasswords[k].disk)
           login == [RoomTask("login", "") EXCEPT !.mount = roomMount + 1, !.key = k]
<1>0. /\ roomMount \in Nat /\ MaxRoomMounts \in Nat /\ roomMount < MaxRoomMounts /\ k # roomShown /\ k # NoRoom
      /\ roomMount' = roomMount + 1 /\ roomShown' = k /\ UNCHANGED roomPasswords
      /\ CacheRoom(k, entry) /\ lastSync' = SyncAfter(k, OpensWith(k))
      /\ stopped' = stopped \cap (DOMAIN roomCache' \ (IF k \in DOMAIN roomCache THEN {} ELSE {k}))
      /\ room' = IF AutoSyncs(k) THEN [panel EXCEPT !.loginLoading = TRUE, !.kept.error = FALSE] ELSE panel
      /\ roomTasks' = roomTasks \cup (IF AutoSyncs(k) THEN {login} ELSE {})
  BY RoomAssumption DEF OpenRoom, RoomInv, RoomTypeOK, NoRoom
<1>1. OpensWith(k) \in RoomEntries /\ (k \in DOMAIN roomCache => OpensWith(k).authenticated = roomCache[k].authenticated)
  <2>1. CASE k \in DOMAIN roomCache
    <3>1. PICK c \in RoomEntries : c = roomCache[k]
      BY <2>1 DEF RoomInv, RoomTyped
    <3>2. PICK q : q = [p \in RoomPanes |-> [c.panes[p] EXCEPT !.loading = FALSE]]
      OBVIOUS
    <3>3. q \in [RoomPanes -> [loading : BOOLEAN, error : BOOLEAN, fetched : BOOLEAN]]
      BY <3>2 DEF RoomEntries
    <3>4. OpensWith(k) = [c EXCEPT !.panes = q]
      BY <2>1, <3>1, <3>2 DEF OpensWith
    <3> QED
      BY <3>1, <3>3, <3>4 DEF RoomEntries
  <2>2. CASE k \notin DOMAIN roomCache
    <3>1. Idle \in [loading : BOOLEAN, error : BOOLEAN, fetched : BOOLEAN]
      BY DEF Idle
    <3>2. InitialRoom \in RoomEntries
      BY <3>1 DEF InitialRoom, RoomEntries
    <3>3. PICK o \in BOOLEAN : o = (lastSync[k] # "none")
      OBVIOUS
    <3>4. OpensWith(k) = [InitialRoom EXCEPT !.authenticated = o]
      BY <2>2, <3>3 DEF OpensWith
    <3> QED
      BY <2>2, <3>2, <3>3, <3>4 DEF RoomEntries
  <2> QED
    BY <2>1, <2>2
<1>2. entry \in RoomEntries /\ (k \in DOMAIN roomCache => entry.authenticated = roomCache[k].authenticated)
  BY <1>1, PostKeepsOpen
<1> HIDE DEF entry
<1>3. panel \in RoomPanels /\ panel.loginLoading = FALSE /\ panel.kept = entry
  <2>1. stored \in BOOLEAN /\ roomPasswords[k].disk \in BOOLEAN
    BY DEF RoomInv, RoomTyped
  <2> HIDE DEF stored
  <2> QED
    BY <1>2, <2>1 DEF Panel, RoomPanels
<1> HIDE DEF panel
<1>4. room' \in RoomPanels
  BY <1>0, <1>3 DEF RoomPanels, RoomEntries
<1>5. login \in RoomRequests /\ login.mount = roomMount + 1 /\ login.key = k /\ login.kind = "login"
  <2>1. PICK t : t = RoomTask("login", "")
    OBVIOUS
  <2>2. t \in [kind : {"login", "pane", "command"}, what : RoomPanes \cup {""}, mount : Nat, key : {roomShown},
               current : BOOLEAN, heard : BOOLEAN, persist : BOOLEAN, remember : BOOLEAN] /\ t.kind = "login"
    BY <1>0, <2>1 DEF RoomTask
  <2>3. login = [t EXCEPT !.mount = roomMount + 1, !.key = k]
    BY <2>1
  <2>4. roomMount + 1 \in Nat
    BY <1>0
  <2> HIDE DEF login
  <2> QED
    BY <2>2, <2>3, <2>4 DEF RoomRequests
<1> HIDE DEF login
<1>6. \A t \in roomTasks' : (t \in roomTasks /\ ~HeardRoom(t)') \/ (t = login /\ AutoSyncs(k))
  <2>1. \A t \in roomTasks : t.mount \in Nat /\ t.mount <= roomMount
    BY DEF RoomInv, RequestsOwned, RoomRequests
  <2>2. \A t \in roomTasks : t.mount # roomMount'
    BY <1>0, <2>1
  <2>3. \A t \in roomTasks : ~HeardRoom(t)'
    BY <2>2 DEF HeardRoom
  <2>4. \A t \in roomTasks' : t \in roomTasks \/ (t = login /\ AutoSyncs(k))
    BY <1>0
  <2> QED
    BY <2>3, <2>4
<1>7. RequestsOwned'
  <2>1. \A t \in roomTasks : t \in RoomRequests /\ t.mount \in Nat /\ t.mount <= roomMount /\ (t.kind = "pane" => t.what \in RoomPanes)
    BY DEF RoomInv, RequestsOwned, RoomRequests
  <2>2. \A t \in roomTasks' : /\ t \in RoomRequests /\ t.mount <= roomMount' /\ (HeardRoom(t)' => t.key = roomShown')
                              /\ t.kind = "pane" => t.what \in RoomPanes
    BY <1>0, <1>5, <1>6, <2>1
  <2>3. \A t \in roomTasks' : Awaited(t)' => t = login
    BY <1>6 DEF Awaited
  <2>4. \A t \in roomTasks' : \A u \in roomTasks' : Awaited(t)' /\ Awaited(u)' => t = u
    BY <2>3, Zenon
  <2> QED
    BY <2>2, <2>4, Zenon DEF RequestsOwned
<1>8. /\ roomOrder' \in Seq(Rooms) /\ Len(roomOrder') <= MaxCachedRooms
      /\ DOMAIN roomCache' = {roomOrder'[i] : i \in DOMAIN roomOrder'} /\ k \in DOMAIN roomCache'
      /\ DOMAIN roomCache' \subseteq DOMAIN roomCache \cup {k}
      /\ roomCache' = [j \in DOMAIN roomCache' |-> IF j = k THEN entry ELSE SavedRooms[j]]
  BY <1>0, <1>2, RoomCached
<1>9. /\ roomCache' \in [DOMAIN roomCache' -> RoomEntries]
      /\ \A j \in stopped' \ {k} : ~roomCache'[j].authenticated
  <2>1. \A j \in DOMAIN roomCache' \ {k} : SavedRooms[j] \in RoomEntries /\ roomCache'[j] = SavedRooms[j]
    BY <1>8, RoomsSaved
  <2>2. \A j \in stopped : j \in DOMAIN roomCache /\ ~SavedRooms[j].authenticated
    BY RoomsSaved DEF RoomInv, StoppedInCache, StoppedRoomWaits
  <2> QED
    BY <1>0, <1>2, <1>8, <2>1, <2>2
<1>10. k \in stopped' =>
         ~room'.kept.authenticated /\ ~room'.loginLoading /\ ~\E t \in roomTasks' : Awaited(t)'
  <2> SUFFICES ASSUME k \in stopped'
               PROVE  ~room'.kept.authenticated /\ ~room'.loginLoading /\ ~\E t \in roomTasks' : Awaited(t)'
    OBVIOUS
  <2>1. k \in DOMAIN roomCache /\ ~roomCache[k].authenticated
    BY <1>0 DEF RoomInv, StoppedInCache
  <2>2. ~AutoSyncs(k)
    BY <2>1 DEF AutoSyncs
  <2>3. room' = panel
    BY <1>0, <2>2
  <2> QED
    BY <1>2, <1>3, <1>6, <2>1, <2>2, <2>3 DEF Awaited
<1>11. lastSync' \in [Rooms -> {"none", "fresh", "old"}]
  BY <1>0, SyncTyped
<1>12. RoomTypeOK'
  <2>1. roomMount' \in 0..MaxRoomMounts /\ roomShown' \in Rooms
    BY <1>0
  <2>2. /\ room'.kept.panes \in [RoomPanes -> [loading : BOOLEAN, error : BOOLEAN, fetched : BOOLEAN]]
        /\ room'.kept.attempt \in {"none", "confirmed", "refused", "unanswered", "failed"}
    BY <1>4 DEF RoomPanels, RoomEntries
  <2>3. stopped' \subseteq Rooms
    BY <1>0 DEF RoomInv, RoomTypeOK
  <2> QED
    BY <1>8, <1>11, <2>1, <2>2, <2>3 DEF RoomTypeOK
<1>13. RoomTyped'
  BY <1>0, <1>4, <1>8, <1>9 DEF RoomInv, RoomTyped
<1>14. StoppedInCache'
  BY <1>0, <1>8, <1>9, <1>10 DEF StoppedInCache
<1>15. StoppedRoomWaits'
  BY <1>0, <1>9, <1>10 DEF StoppedRoomWaits, AutoSyncs
<1> QED
  BY <1>7, <1>12, <1>13, <1>14, <1>15 DEF RoomInv

LEMMA RoomStep ==
    ASSUME RoomInv, [RoomNext]_roomVars
    PROVE  RoomInv'
<1>0. /\ room \in RoomPanels /\ lastSync \in [Rooms -> {"none", "fresh", "old"}]
      /\ roomPasswords \in [Rooms -> [memory : BOOLEAN, disk : BOOLEAN]]
      /\ roomShown # NoRoom => roomShown \in Rooms
      /\ roomMount \in Nat
  BY RoomAssumption DEF RoomInv, RoomTyped, RoomTypeOK
<1>1. CASE UNCHANGED roomVars
  BY <1>1 DEF roomVars, RoomInv, RoomTypeOK, StoppedRoomWaits, AutoSyncs, RoomTyped, RequestsOwned, HeardRoom, Awaited,
              StoppedInCache
<1>2. ASSUME NEW k \in Rooms, OpenRoom(k) PROVE RoomInv'
  BY <1>2, OpenStep
<1>3. ASSUME NEW k \in Rooms, PostArrives(k) PROVE RoomInv'
  BY <1>3, PostStep
<1>4. ASSUME NEW k \in Rooms, SyncAges(k) PROVE RoomInv'
  <2>1. /\ lastSync' \in [Rooms -> {"none", "fresh", "old"}]
        /\ UNCHANGED <<roomShown, roomMount, room, roomCache, roomOrder, roomPasswords, roomTasks, stopped>>
    BY <1>0, <1>4 DEF SyncAges
  <2>2. RequestsOwned' /\ \A t : Awaited(t)' <=> Awaited(t)
    BY <2>1 DEF RoomInv, RequestsOwned, HeardRoom, Awaited
  <2> QED
    BY <1>0, <2>1, <2>2, RoomHolds DEF RoomInv, RoomTyped, StoppedRoomWaits, StoppedInCache
<1>5. CASE CloseRoom
  BY <1>5, CloseStep
<1>6. CASE HandleLoginAsGuest
  <2>1. roomShown # NoRoom /\ PerformLogin(FALSE, FALSE, room)
    BY <1>6 DEF HandleLoginAsGuest, RoomControls
  <2> QED
    BY <1>0, <2>1, LoginPerformed
<1>7. CASE SyncNow
  <2>1. roomShown # NoRoom /\ PerformLogin(FALSE, FALSE, room)
    BY <1>7 DEF SyncNow, RoomControls
  <2> QED
    BY <1>0, <2>1, LoginPerformed
<1>8. ASSUME NEW remember \in BOOLEAN, HandleLogin(remember) PROVE RoomInv'
  <2>1. PICK panel : panel = [room EXCEPT !.password = TRUE, !.remember = remember]
    OBVIOUS
  <2>2. panel \in RoomPanels
    BY <1>0, <2>1 DEF RoomPanels
  <2>3. roomShown # NoRoom /\ PerformLogin(TRUE, remember, panel)
    BY <1>8, <2>1 DEF HandleLogin, RoomControls
  <2> QED
    BY <2>2, <2>3, LoginPerformed
<1>9. CASE HandleCancelLogin
  <2>1. /\ roomShown # NoRoom /\ room' = [room EXCEPT !.loginLoading = FALSE, !.kept.authenticated = FALSE]
        /\ roomTasks' = GivenUp /\ stopped' = stopped \cup {roomShown}
        /\ UNCHANGED <<roomShown, roomMount, roomCache, roomOrder, lastSync, roomPasswords>>
    BY <1>9 DEF HandleCancelLogin, RoomControls
  <2>2. room' \in RoomPanels /\ ~room'.kept.authenticated /\ ~room'.loginLoading
    BY <1>0, <2>1 DEF RoomPanels, RoomEntries
  <2>3. \A t : (HeardRoom(t)' <=> HeardRoom(t)) /\ (Awaited(t)' <=> Awaited(t))
    BY <2>1 DEF HeardRoom, Awaited
  <2>4. RequestsOwned' /\ ~\E t \in roomTasks' : Awaited(t)'
    BY <2>1, <2>3, GivenUpOwned DEF RequestsOwned
  <2> QED
    BY <1>0, <2>1, <2>2, <2>4, RoomHolds DEF RoomInv, RoomTyped
<1>10. CASE ChangePassword
  <2>1. /\ roomShown # NoRoom
        /\ roomPasswords' = [roomPasswords EXCEPT ![roomShown] = [memory |-> FALSE, disk |-> FALSE]]
        /\ lastSync' = [lastSync EXCEPT ![roomShown] = "none"]
        /\ room' = [room EXCEPT !.kept.authenticated = FALSE, !.kept.error = FALSE, !.kept.attempt = "none",
                                !.password = FALSE, !.remember = FALSE]
        /\ UNCHANGED <<roomShown, roomMount, roomCache, roomOrder, roomTasks, stopped>>
    BY <1>10 DEF ChangePassword, RoomControls
  <2>2. room' \in RoomPanels /\ ~room'.kept.authenticated /\ room'.loginLoading = room.loginLoading
    BY <1>0, <2>1 DEF RoomPanels, RoomEntries
  <2>3. /\ roomPasswords' \in [Rooms -> [memory : BOOLEAN, disk : BOOLEAN]]
        /\ lastSync' \in [Rooms -> {"none", "fresh", "old"}]
    BY <1>0, <2>1
  <2> QED
    BY <2>1, <2>2, <2>3, WithinRoom
<1>11. CASE ShowTools
  <2>1. /\ roomShown # NoRoom /\ room' = [room EXCEPT !.tools = ~@]
        /\ UNCHANGED <<roomShown, roomMount, roomCache, roomOrder, lastSync, roomPasswords, roomTasks, stopped>>
    BY <1>11 DEF ShowTools, RoomControls
  <2>2. room' \in RoomPanels /\ room'.kept = room.kept /\ room'.loginLoading = room.loginLoading
    BY <1>0, <2>1 DEF RoomPanels
  <2> QED
    BY <1>0, <2>1, <2>2, WithinRoom
<1>12. CASE HandleConsoleCommand
  <2>1. PICK t : t = RoomTask("command", "")
    OBVIOUS
  <2>2. /\ roomShown # NoRoom /\ room' = [room EXCEPT !.consoleLoading = TRUE] /\ roomTasks' = roomTasks \cup {t}
        /\ UNCHANGED <<roomShown, roomMount, roomCache, roomOrder, lastSync, roomPasswords, stopped>>
    BY <1>12, <2>1 DEF HandleConsoleCommand, RoomControls
  <2>3. t \in RoomRequests /\ t.mount = roomMount /\ t.key = roomShown /\ t.kind = "command"
    BY <1>0, <2>1, <2>2 DEF RoomTask, RoomRequests
  <2>4. room' \in RoomPanels /\ room'.kept = room.kept /\ room'.loginLoading = room.loginLoading
    BY <1>0, <2>2 DEF RoomPanels
  <2> QED
    BY <1>0, <2>2, <2>3, <2>4, WithinRoom
<1>13. ASSUME NEW p \in RoomPanes, RefreshRoomPane(p) PROVE RoomInv'
  <2>1. PICK t : t = RoomTask("pane", p)
    OBVIOUS
  <2>2. /\ roomShown # NoRoom /\ room' = [room EXCEPT !.kept.panes[p] = [@ EXCEPT !.loading = TRUE, !.error = FALSE]]
        /\ roomTasks' = roomTasks \cup {t}
        /\ UNCHANGED <<roomShown, roomMount, roomCache, roomOrder, lastSync, roomPasswords, stopped>>
    BY <1>13, <2>1 DEF RefreshRoomPane, RoomControls
  <2>3. t \in RoomRequests /\ t.mount = roomMount /\ t.key = roomShown /\ t.kind = "pane" /\ t.what = p
    BY <1>0, <2>1, <2>2 DEF RoomTask, RoomRequests
  <2>4. room' \in RoomPanels /\ room'.kept.authenticated = room.kept.authenticated /\ room'.loginLoading = room.loginLoading
    <3>1. room.kept \in RoomEntries /\ room.kept.panes[p] \in [loading : BOOLEAN, error : BOOLEAN, fetched : BOOLEAN]
      BY <1>0 DEF RoomPanels, RoomEntries
    <3>2. PICK q \in [loading : BOOLEAN, error : BOOLEAN, fetched : BOOLEAN] :
             q = [room.kept.panes[p] EXCEPT !.loading = TRUE, !.error = FALSE]
      BY <3>1
    <3>3. room' = [room EXCEPT !.kept.panes[p] = q]
      BY <2>2, <3>2
    <3> QED
      BY <1>0, <3>2, <3>3 DEF RoomPanels, RoomEntries
  <2> QED
    BY <1>0, <2>2, <2>3, <2>4, WithinRoom
<1>14. ASSUME NEW t \in roomTasks, NEW result \in {"ok", "refused", "timeout", "error"}, RoomLoginReturns(t, result)
       PROVE  RoomInv'
  BY <1>14, LoginAnswered
<1>15. ASSUME NEW t \in roomTasks, NEW ok \in BOOLEAN, RoomPaneReturns(t, ok) PROVE RoomInv'
  <2>1. t.what \in RoomPanes /\ roomTasks' = roomTasks \ {t}
        /\ UNCHANGED <<roomShown, roomMount, roomCache, roomOrder, lastSync, roomPasswords, stopped>>
    BY <1>15 DEF RoomInv, RequestsOwned, RoomPaneReturns
  <2>2. room' = IF HeardRoom(t)
                THEN [room EXCEPT !.kept.panes[t.what] =
                        [loading |-> FALSE, error |-> ~ok, fetched |-> @.fetched \/ ok]] ELSE room
    BY <1>15 DEF RoomPaneReturns
  <2>3. room' \in RoomPanels /\ room'.kept.authenticated = room.kept.authenticated /\ room'.loginLoading = room.loginLoading
    BY <1>0, <2>1, <2>2 DEF RoomPanels, RoomEntries
  <2> QED
    BY <2>1, <2>3, ToolAnswered
<1>16. ASSUME NEW t \in roomTasks, RoomCommandReturns(t) PROVE RoomInv'
  <2>1. /\ room' = (IF HeardRoom(t) THEN [room EXCEPT !.consoleLoading = FALSE] ELSE room) /\ roomTasks' = roomTasks \ {t}
        /\ UNCHANGED <<roomShown, roomMount, roomCache, roomOrder, lastSync, roomPasswords, stopped>>
    BY <1>16 DEF RoomCommandReturns
  <2>2. room' \in RoomPanels /\ room'.kept = room.kept /\ room'.loginLoading = room.loginLoading
    BY <1>0, <2>1 DEF RoomPanels
  <2> QED
    BY <2>1, <2>2, ToolAnswered
<1> QED
  BY <1>1, <1>2, <1>3, <1>4, <1>5, <1>6, <1>7, <1>8, <1>9, <1>10, <1>11, <1>12, <1>13, <1>14, <1>15, <1>16 DEF RoomNext

-----------------------------------------------------------------------------
(* Push and notifications                                                   *)

PushRecord ==
    [kind : {"subscribe", "refresh", "toggle", "delete", "permission"},
     stage : {"key", "register", "list", "reconcile", "ask", "answer"},
     key : PushKeys \cup {NoPushKey}, id : Int, read : SUBSET (Devices \cup PushKeys), mine : BOOLEAN]

\* What PushJobsOK says of one job.
PushCarries(j) ==
    /\ j \in PushRecord
    /\ j.read \subseteq IF j.kind = "toggle" THEN PushKeys ELSE Devices
    /\ (j.kind = "permission" \/ (j.stage = "ask" /\ j.kind = "toggle")) => j.key \in PushKeys
    /\ j.stage \in {"list", "reconcile"} => j.kind # "toggle"

\* The part of the state that no job carries.
PushStateOK ==
    /\ subscription \in {"none", "stale", "good"} /\ allSubscriptions \subseteq Devices
    /\ {pushConversations, notifying, notifyingStored, notified} \subseteq SUBSET PushKeys
    /\ currentSubscription \in BOOLEAN
    /\ pushServer \in [devices : SUBSET Devices, conversations : SUBSET PushKeys]
    /\ NotifyingStored

PushJobsGood ==
    /\ \A j \in pushJobs : PushCarries(j)
    /\ PushLoadingEnds /\ pushLoading \in BOOLEAN /\ started \in Nat

LEMMA PushParts == PushInv <=> PushStateOK /\ PushJobsGood
BY DEF PushInv, PushStateOK, PushJobsGood, PushTypeOK, PushJobsOK, PushCarries, PushRecord

LEMMA PushJobTyped ==
    ASSUME NEW kind \in {"subscribe", "refresh", "toggle", "delete", "permission"},
           NEW stage \in {"key", "register", "list", "reconcile", "ask", "answer"},
           NEW key \in PushKeys \cup {NoPushKey}, started \in Nat
    PROVE  LET j == PushJob(kind, stage, key)
           IN  /\ j \in PushRecord /\ j.kind = kind /\ j.stage = stage /\ j.key = key /\ j.read = {}
               /\ j.id = started + 1
<1>1. PICK j : j = PushJob(kind, stage, key)
  OBVIOUS
<1>2. j = [kind |-> kind, stage |-> stage, key |-> key, id |-> started + 1, read |-> {}, mine |-> FALSE]
  BY <1>1 DEF PushJob
<1>3. j \in PushRecord /\ j.kind = kind /\ j.stage = stage /\ j.key = key /\ j.read = {} /\ j.id = started + 1
  BY <1>2 DEF PushRecord
<1> QED
  BY <1>1, <1>3

LEMMA PushStarted ==
    ASSUME PushJobsGood, NEW job, PushCarries(job), PushStarts(job),
           UNCHANGED pushLoading \/ (pushLoading' = TRUE /\ job.kind = "subscribe")
    PROVE  PushJobsGood'
<1>1. pushJobs' = pushJobs \cup {job} /\ started' = started + 1
  BY DEF PushStarts
<1>2. (\A j \in pushJobs' : PushCarries(j)) /\ started' \in Nat
  BY <1>1 DEF PushJobsGood
<1>5. pushLoading' \in BOOLEAN
  BY Zenon DEF PushJobsGood
<1>3. job \in pushJobs' /\ pushJobs \subseteq pushJobs'
  BY <1>1
<1>4. PushLoadingEnds'
  BY <1>3, Zenon DEF PushJobsGood, PushLoadingEnds
<1> QED
  BY <1>2, <1>4, <1>5 DEF PushJobsGood, PushCarries

\* A job that goes on keeps its kind, so whoever waits for it still does.
LEMMA PushGoesOn ==
    ASSUME PushJobsGood, NEW j \in pushJobs, NEW next, PushCarries(next), next.kind = j.kind,
           GoOn(j, next), UNCHANGED <<pushLoading, started>>
    PROVE  PushJobsGood'
<1>1. pushJobs' = (pushJobs \ {j}) \cup {next}
  BY DEF GoOn
<1> QED
  BY <1>1 DEF PushJobsGood, PushLoadingEnds

LEMMA PushJobEnds ==
    ASSUME PushJobsGood, NEW j \in pushJobs, NEW worked \in BOOLEAN, Ends(j, worked), UNCHANGED started
    PROVE  PushJobsGood'
<1>1. CASE j.kind = "subscribe" /\ worked /\ j.key # NoPushKey
  <2>1. PICK next : next = [j EXCEPT !.kind = "toggle", !.stage = "ask", !.read = {}]
    OBVIOUS
  <2>2. j \in PushRecord
    BY DEF PushJobsGood, PushCarries
  <2>3. PushCarries(next)
    BY <1>1, <2>1, <2>2 DEF PushCarries, PushRecord
  <2>4. pushJobs' = (pushJobs \ {j}) \cup {next} /\ pushLoading' = FALSE
    BY <1>1, <2>1 DEF Ends, GoOn
  <2> QED
    BY <2>3, <2>4 DEF PushJobsGood, PushLoadingEnds
<1>2. CASE ~(j.kind = "subscribe" /\ worked /\ j.key # NoPushKey)
  <2>1. pushJobs' = pushJobs \ {j} /\ pushLoading' = (pushLoading /\ j.kind # "subscribe")
    BY <1>2 DEF Ends
  <2> QED
    BY <2>1, Zenon DEF PushJobsGood, PushLoadingEnds
<1> QED
  BY <1>1, <1>2

LEMMA PushStages ==
    ASSUME NEW j, PushCarries(j)
    PROVE  /\ \A s \in {"register", "reconcile", "list"} :
                 j.kind # "toggle" => PushCarries([j EXCEPT !.stage = s]) /\ [j EXCEPT !.stage = s].kind = j.kind
           /\ j.kind # "toggle" => \A d \in SUBSET Devices :
                 LET n == [j EXCEPT !.stage = "reconcile", !.read = d] IN PushCarries(n) /\ n.kind = j.kind
           /\ j.kind = "toggle" => \A c \in SUBSET PushKeys :
                 LET n == [j EXCEPT !.stage = "answer", !.read = c] IN PushCarries(n) /\ n.kind = j.kind
BY DEF PushCarries, PushRecord

LEMMA PushBegins == ASSUME PushInit PROVE PushInv
<1>0. started = 0 /\ started \in Nat
  BY DEF PushInit
<1>1. PICK a : a = PushJob("refresh", "list", NoPushKey)
  OBVIOUS
<1>2. PICK b : b = PushJob("toggle", "answer", NoPushKey)
  OBVIOUS
<1>3. a \in PushRecord /\ a.kind = "refresh" /\ a.stage = "list" /\ a.read = {}
  BY <1>0, <1>1, PushJobTyped
<1>4. b \in PushRecord /\ b.kind = "toggle" /\ b.stage = "answer" /\ b.read = {}
  BY <1>0, <1>2, PushJobTyped
<1>5. pushJobs = {[a EXCEPT !.id = 0], [b EXCEPT !.id = -1]}
  BY <1>1, <1>2 DEF PushInit
<1>6. PushCarries([a EXCEPT !.id = 0]) /\ PushCarries([b EXCEPT !.id = -1])
  BY <1>3, <1>4 DEF PushCarries, PushRecord
<1>7. PushJobsGood
  BY <1>0, <1>5, <1>6 DEF PushInit, PushJobsGood, PushLoadingEnds
<1>8. PushStateOK
  <2>1. PICK devices \in SUBSET Devices : pushServer = [devices |-> devices, conversations |-> {}]
    BY DEF PushInit
  <2>2. pushServer \in [devices : SUBSET Devices, conversations : SUBSET PushKeys]
    BY <2>1
  <2> QED
    BY <2>2 DEF PushInit, PushStateOK, NotifyingStored
<1> QED
  BY <1>7, <1>8, PushParts

LEMMA PushStep ==
    ASSUME PushInv, [PushNext]_pushVars
    PROVE  PushInv'
<1>0. PushStateOK /\ PushJobsGood /\ started \in Nat
  BY PushParts DEF PushJobsGood
<1>p. PushStateOK' /\ PushJobsGood' => PushInv'
  BY DEF PushInv, PushStateOK, PushJobsGood, PushTypeOK, PushJobsOK, PushCarries, PushRecord
<1>s. UNCHANGED <<pushDeviceVars, notifyVars>> => PushStateOK'
  BY <1>0 DEF pushDeviceVars, notifyVars, PushStateOK, NotifyingStored
<1>n. \A k \in PushKeys \cup {NoPushKey} :
        /\ PushCarries(PushJob("subscribe", "key", k)) /\ PushJob("subscribe", "key", k).kind = "subscribe"
        /\ PushCarries(PushJob("refresh", "list", k)) /\ PushJob("refresh", "list", k).kind = "refresh"
        /\ k \in PushKeys => PushCarries(PushJob("toggle", "ask", k)) /\ PushCarries(PushJob("permission", "ask", k))
  BY <1>0, PushJobTyped DEF PushCarries
<1>t. \A k \in PushKeys : pushServer.conversations \ {k} \subseteq PushKeys /\ pushServer.conversations \cup {k} \subseteq PushKeys
  BY <1>0 DEF PushStateOK
<1>1. CASE UNCHANGED pushVars
  BY <1>0, <1>1, <1>p, <1>s DEF pushVars, PushJobsGood, PushLoadingEnds
<1>2. CASE StartSubscribe
  BY <1>0, <1>2, <1>n, <1>p, <1>s, PushStarted DEF StartSubscribe
<1>3. CASE StartRefresh
  BY <1>0, <1>3, <1>n, <1>p, <1>s, PushStarted DEF StartRefresh
<1>4. ASSUME NEW k \in PushKeys, TogglePush(k)
      PROVE  PushInv'
  <2>1. PushJobsGood'
    <3>1. CASE k \notin pushConversations /\ ~currentSubscription
      BY <1>0, <1>4, <1>n, <3>1, PushStarted DEF TogglePush
    <3>2. CASE ~(k \notin pushConversations /\ ~currentSubscription)
      BY <1>0, <1>4, <1>n, <3>2, PushStarted DEF TogglePush
    <3> QED
      BY <3>1, <3>2
  <2> QED
    BY <1>4, <1>p, <1>s, <2>1 DEF TogglePush
<1>5. ASSUME NEW k \in PushKeys, RemoveConversation(k)
      PROVE  PushInv'
  BY <1>0, <1>5, <1>n, <1>p, <1>s, PushStarted DEF RemoveConversation
<1>6. ASSUME NEW k \in PushKeys, ToggleNotifications(k)
      PROVE  PushInv'
  <2>1. UNCHANGED <<pushDeviceVars, pushLoading, permission, notified>>
    BY <1>6 DEF ToggleNotifications
  <2>2. CASE k \in notifying
    <3>1. notifying' = notifying \ {k} /\ notifyingStored' = notifying' /\ UNCHANGED <<pushJobs, started>>
      BY <1>6, <2>2 DEF ToggleNotifications
    <3> QED
      BY <1>0, <1>p, <2>1, <3>1 DEF PushStateOK, PushJobsGood, PushLoadingEnds, NotifyingStored, pushDeviceVars
  <2>3. CASE k \notin notifying
    <3>1. PushStarts(PushJob("permission", "ask", k)) /\ UNCHANGED <<notifying, notifyingStored>>
      BY <1>6, <2>3 DEF ToggleNotifications
    <3>2. PushJobsGood'
      BY <1>0, <1>n, <2>1, <3>1, PushStarted
    <3> QED
      BY <1>p, <1>s, <2>1, <3>1, <3>2 DEF notifyVars
  <2> QED
    BY <2>2, <2>3
<1>7. ASSUME NEW k \in PushKeys, NotifyIncomingMessage(k)
      PROVE  PushInv'
  BY <1>0, <1>7, <1>p DEF NotifyIncomingMessage, PushStateOK, PushJobsGood, PushLoadingEnds, NotifyingStored, pushDeviceVars
<1>8. ASSUME NEW d \in Devices, StartDelete(d)
      PROVE  PushInv'
  <2>1. PICK b : b = PushJob("delete", "ask", NoPushKey)
    OBVIOUS
  <2>2. b \in PushRecord /\ b.kind = "delete" /\ b.stage = "ask"
    BY <1>0, <2>1, PushJobTyped
  <2>3. PICK mine \in BOOLEAN : mine = (d = Here /\ currentSubscription)
    OBVIOUS
  <2>4. PICK job : job = [b EXCEPT !.read = {d}, !.mine = mine]
    OBVIOUS
  <2>5. PushCarries(job)
    BY <2>2, <2>4 DEF PushCarries, PushRecord
  <2>6. PushStarts(job) /\ UNCHANGED <<pushDeviceVars, pushLoading, notifyVars>>
    BY <1>8, <2>1, <2>3, <2>4 DEF StartDelete
  <2> QED
    BY <1>0, <1>p, <1>s, <2>5, <2>6, PushStarted
<1>9. ASSUME NEW j \in pushJobs, SubscribeBrowser(j)
      PROVE  PushInv'
  <2>1. PushCarries(j) /\ j.kind = "subscribe"
    BY <1>0, <1>9 DEF SubscribeBrowser, PushJobsGood
  <2>2. PushJobsGood'
    BY <1>0, <1>9, <2>1, PushStages, PushGoesOn, PushJobEnds DEF SubscribeBrowser
  <2>3. PushStateOK'
    BY <1>0, <1>9 DEF SubscribeBrowser, PushStateOK, NotifyingStored, notifyVars
  <2> QED
    BY <1>p, <2>2, <2>3
<1>10. ASSUME NEW j \in pushJobs, SubscribeRegister(j)
       PROVE  PushInv'
  <2>1. PushCarries(j) /\ j.kind = "subscribe"
    BY <1>0, <1>10 DEF SubscribeRegister, PushJobsGood
  <2>2. PushJobsGood'
    BY <1>0, <1>10, <2>1, PushStages, PushGoesOn, PushJobEnds DEF SubscribeRegister
  <2>3. PushStateOK'
    <3>1. UNCHANGED <<subscription, allSubscriptions, pushConversations, notifyVars>>
      BY <1>10 DEF SubscribeRegister
    <3>2. PICK here \in SUBSET Devices : here = {Here}
      BY DEF Devices
    <3>3. \/ pushServer' = [pushServer EXCEPT !.devices = @ \cup here] /\ currentSubscription' = TRUE
          \/ UNCHANGED <<pushServer, currentSubscription>>
      BY <1>10, <3>2 DEF SubscribeRegister
    <3> QED
      BY <1>0, <3>1, <3>3 DEF PushStateOK, NotifyingStored, notifyVars
  <2> QED
    BY <1>p, <2>2, <2>3
<1>11. ASSUME NEW j \in pushJobs, RefreshRead(j)
       PROVE  PushInv'
  <2>1. PushCarries(j) /\ j.kind # "toggle" /\ pushServer.devices \in SUBSET Devices
    BY <1>0, <1>11 DEF RefreshRead, PushJobsGood, PushCarries, PushStateOK
  <2>2. PushJobsGood'
    BY <1>0, <1>11, <2>1, PushStages, PushGoesOn, PushJobEnds DEF RefreshRead
  <2> QED
    BY <1>11, <1>p, <1>s, <2>2 DEF RefreshRead
<1>12. ASSUME NEW j \in pushJobs, RefreshReconcile(j)
       PROVE  PushInv'
  <2>1. PushCarries(j) /\ j.read \subseteq Devices
    BY <1>0, <1>12 DEF RefreshReconcile, PushJobsGood, PushCarries
  <2>2. PushJobsGood'
    BY <1>0, <1>12, PushJobEnds DEF RefreshReconcile
  <2>3. PushStateOK'
    <3>1. UNCHANGED <<subscription, pushServer, pushConversations, notifyVars>>
      BY <1>12 DEF RefreshReconcile
    <3>2. allSubscriptions' \subseteq Devices /\ currentSubscription' \in BOOLEAN
      BY <1>0, <1>12, <2>1 DEF RefreshReconcile, Reconcile, PushStateOK
    <3> QED
      BY <1>0, <3>1, <3>2 DEF PushStateOK, NotifyingStored, notifyVars
  <2> QED
    BY <1>p, <2>2, <2>3
<1>13. ASSUME NEW j \in pushJobs, DeleteDevice(j)
       PROVE  PushInv'
  <2>1. PushCarries(j) /\ j.kind = "delete"
    BY <1>0, <1>13 DEF DeleteDevice, PushJobsGood
  <2>2. PushJobsGood'
    BY <1>0, <1>13, <2>1, PushStages, PushGoesOn, PushJobEnds DEF DeleteDevice
  <2>3. PushStateOK'
    <3>1. UNCHANGED <<allSubscriptions, pushConversations, notifyVars>>
      BY <1>13 DEF DeleteDevice
    <3>2. currentSubscription' \in BOOLEAN /\ subscription' \in {"none", subscription}
      BY <1>0, <1>13 DEF DeleteDevice, PushStateOK
    <3>3. pushServer' \in [devices : SUBSET Devices, conversations : SUBSET PushKeys]
      BY <1>0, <1>13 DEF DeleteDevice, PushStateOK
    <3> QED
      BY <1>0, <3>1, <3>2, <3>3 DEF PushStateOK, NotifyingStored, notifyVars
  <2> QED
    BY <1>p, <2>2, <2>3
<1>14. ASSUME NEW j \in pushJobs, ToggleAtServer(j)
       PROVE  PushInv'
  <2>1. PushCarries(j) /\ j.kind = "toggle" /\ j.key \in PushKeys
    BY <1>0, <1>14 DEF ToggleAtServer, PushJobsGood, PushCarries
  <2>2. UNCHANGED <<subscription, currentSubscription, allSubscriptions, pushConversations, started, notifyVars>>
    BY <1>14 DEF ToggleAtServer
  <2>3. CASE Ends(j, FALSE) /\ UNCHANGED pushServer
    <3>1. PushJobsGood'
      BY <1>0, <2>2, <2>3, PushJobEnds
    <3> QED
      BY <1>p, <1>s, <2>2, <2>3, <3>1 DEF pushDeviceVars
  <2>4. CASE \E new \in SUBSET PushKeys :
               /\ pushServer' = [pushServer EXCEPT !.conversations = new]
               /\ GoOn(j, [j EXCEPT !.stage = "answer", !.read = new]) /\ UNCHANGED pushLoading
    <3>1. PICK new \in SUBSET PushKeys :
               /\ pushServer' = [pushServer EXCEPT !.conversations = new]
               /\ GoOn(j, [j EXCEPT !.stage = "answer", !.read = new]) /\ UNCHANGED pushLoading
      BY <2>4
    <3>2. PushJobsGood'
      BY <1>0, <2>1, <2>2, <3>1, PushStages, PushGoesOn
    <3>3. PushStateOK'
      BY <1>0, <2>2, <3>1 DEF PushStateOK, NotifyingStored, notifyVars
    <3> QED
      BY <1>p, <3>2, <3>3
  <2> QED
    BY <1>14, <1>t, <2>1, <2>3, <2>4 DEF ToggleAtServer
<1>15. ASSUME NEW j \in pushJobs, ToggleAnswered(j)
       PROVE  PushInv'
  <2>1. PushCarries(j) /\ j.read \subseteq PushKeys
    BY <1>0, <1>15 DEF ToggleAnswered, PushJobsGood, PushCarries
  <2>2. PushJobsGood'
    BY <1>0, <1>15, PushJobEnds DEF ToggleAnswered
  <2>3. PushStateOK'
    BY <1>0, <1>15, <2>1 DEF ToggleAnswered, PushStateOK, NotifyingStored, notifyVars
  <2> QED
    BY <1>p, <2>2, <2>3
<1>16. ASSUME NEW j \in pushJobs, PermissionAnswered(j)
       PROVE  PushInv'
  <2>1. j.key \in PushKeys
    BY <1>0, <1>16 DEF PermissionAnswered, PushJobsGood, PushCarries
  <2>2. PushJobsGood'
    BY <1>0, <1>16, PushJobEnds DEF PermissionAnswered
  <2>3. PushStateOK'
    BY <1>0, <1>16, <2>1 DEF PermissionAnswered, PushStateOK, NotifyingStored, pushDeviceVars
  <2> QED
    BY <1>p, <2>2, <2>3
<1> QED
  BY <1>1, <1>2, <1>3, <1>4, <1>5, <1>6, <1>7, <1>8, <1>9, <1>10, <1>11, <1>12, <1>13, <1>14, <1>15, <1>16
     DEF PushNext

-----------------------------------------------------------------------------
(* Local preferences                                                        *)

LEMMA PrefFacts ==
    /\ "theme" \in Prefs /\ LabelPrefs \subseteq Prefs
    /\ \A p \in Prefs : 0 \in PrefChoices(p) /\ PrefChoices(p) \subseteq 0..2
    /\ PrefChoices("theme") = 0..2
    /\ "theme" \notin Announced \cup SharedPrefs \cup LabelPrefs \cup ReadAtUse
BY DEF Prefs, LabelPrefs, Announced, SharedPrefs, ReadAtUse, PrefChoices

\* A store that gives each preference one of its choices.
PrefStore(f) == f \in [Prefs -> 0..2] /\ \A p \in Prefs : f[p] \in PrefChoices(p)

\* Storage, the open section and the rest of the client, each preference by itself.
PrefsAgree ==
    storable =>
        /\ \A p \in Prefs \ {"theme"} : live[p] = saved[p]
        /\ live["theme"] = EffectiveTheme(saved["theme"], osTheme)
        /\ sectionOpen => sectionState = saved

PrefsGood ==
    /\ PrefStore(saved) /\ PrefStore(sectionState) /\ PrefStore(live) /\ PrefsAgree
    /\ storable \in BOOLEAN /\ sectionOpen \in BOOLEAN /\ osTheme \in {0, 1}

FontsGood ==
    /\ font \in [scale : Int, slider : Int, input : Int]
    /\ {fontSaved, fontApplied, font.scale} \subseteq MinFontScale..MaxFontScale
    /\ storable => fontApplied = fontSaved /\ (sectionOpen => font.scale = fontSaved)

MapsGood ==
    /\ mapSaved \in ValidMaps /\ mapDraft \in MapTexts /\ mapError \in BOOLEAN
    /\ storable /\ sectionOpen => mapError = (mapDraft # mapSaved)

LEMMA LocalParts == LocalInv <=> PrefsGood /\ FontsGood /\ MapsGood
<1>1. LocalInv => PrefsGood
  BY DEF LocalInv, LocalShapes, LocalTypeOK, PreferencesStored, PrefsGood, PrefStore, PrefsAgree
<1>2. LocalInv => FontsGood
  BY DEF LocalInv, LocalShapes, LocalTypeOK, PreferencesStored, FontsGood
<1>3. LocalInv => MapsGood
  BY DEF LocalInv, LocalTypeOK, PreferencesStored, MapsGood
<1>4. ASSUME PrefsGood, FontsGood, MapsGood
      PROVE  LocalInv
  <2>1. LocalShapes
    BY <1>4 DEF PrefsGood, PrefStore, FontsGood, LocalShapes
  <2>2. LocalTypeOK
    BY <1>4 DEF PrefsGood, PrefStore, FontsGood, MapsGood, LocalTypeOK
  <2>3. PreferencesStored
    BY <1>4 DEF PrefsGood, PrefsAgree, FontsGood, MapsGood, PreferencesStored
  <2> QED
    BY <2>1, <2>2, <2>3 DEF LocalInv
<1> QED
  BY <1>1, <1>2, <1>3, <1>4

LEMMA ScaleInRange ==
    ASSUME NEW n \in Int
    PROVE  NormalizeFontScale(n) \in MinFontScale..MaxFontScale
BY DEF NormalizeFontScale, MinFontScale, MaxFontScale, DefaultFontScale

LEMMA FontCommitted ==
    ASSUME FontsGood, NEW n \in Int, CommitFontScale(n), UNCHANGED <<storable, sectionOpen>>
    PROVE  FontsGood'
<1>1. PICK scale \in MinFontScale..MaxFontScale : scale = NormalizeFontScale(n)
  BY ScaleInRange
<1>2. scale \in Int
  BY DEF MinFontScale, MaxFontScale
<1>3. /\ fontApplied' = scale /\ font' = [scale |-> scale, slider |-> scale, input |-> scale]
      /\ fontSaved' = IF storable THEN scale ELSE fontSaved
  BY <1>1 DEF CommitFontScale, FontOf
<1> QED
  BY <1>2, <1>3 DEF FontsGood

\* A choice of the section puts one preference, or the label as the section has it, in all its places.
LEMMA ChoiceKept ==
    ASSUME PrefsGood, sectionOpen, NEW p \in Prefs, NEW v \in PrefChoices(p),
           UNCHANGED <<storable, sectionOpen, osTheme>>,
           sectionState' = [sectionState EXCEPT ![p] = v], saved' = Setter(p, v),
           p # "theme" => live' \in {[live EXCEPT ![p] = v], [live EXCEPT ![p] = IF storable THEN v ELSE 0]},
           p = "theme" => live' = [live EXCEPT ![p] = EffectiveTheme(v, osTheme)]
    PROVE  PrefsGood'
<1>1. PrefStore([sectionState EXCEPT ![p] = v]) /\ PrefStore([saved EXCEPT ![p] = v])
  BY PrefFacts DEF PrefsGood, PrefStore
<1>2. PrefStore(live')
  <2>1. p = "theme" => EffectiveTheme(v, osTheme) \in PrefChoices(p)
    BY PrefFacts DEF EffectiveTheme, PrefsGood
  <2>2. PICK w \in PrefChoices(p) : live' = [live EXCEPT ![p] = w]
    BY <2>1, PrefFacts
  <2> QED
    BY <2>2, PrefFacts DEF PrefsGood, PrefStore
<1>3. PrefsAgree'
  BY PrefFacts DEF PrefsGood, PrefsAgree, PrefStore, Setter
<1> QED
  BY <1>1, <1>2, <1>3 DEF PrefsGood, PrefStore, Setter

LEMMA LocalStarts == ASSUME LocalInit PROVE LocalInv
<1>1. Defaults \in [Prefs -> 0..2] /\ \A p \in Prefs : Defaults[p] = 0
  BY DEF Defaults
<1>2. PrefStore(Defaults)
  BY <1>1, PrefFacts DEF PrefStore
<1>3. PrefsGood
  <2>1. /\ saved = Defaults /\ sectionState = Defaults /\ live = Defaults
        /\ storable \in BOOLEAN /\ sectionOpen = FALSE /\ osTheme \in {0, 1}
    BY DEF LocalInit
  <2>2. EffectiveTheme(0, osTheme) = 0
    BY DEF EffectiveTheme, FollowOS
  <2>3. PrefsAgree
    BY <1>1, <2>1, <2>2, PrefFacts DEF PrefsAgree
  <2> QED
    BY <1>2, <2>1, <2>3 DEF PrefsGood
<1>4. FontsGood
  BY DEF LocalInit, FontsGood, FontOf, DefaultFontScale, MinFontScale, MaxFontScale
<1>5. MapsGood
  BY DEF LocalInit, MapsGood, ValidMaps, MapTexts
<1> QED
  BY <1>3, <1>4, <1>5, LocalParts

LEMMA LocalStepKeeps ==
    ASSUME LocalInv, [LocalNext]_localVars
    PROVE  LocalInv'
<1>0. PrefsGood /\ FontsGood /\ MapsGood
  BY LocalParts
<1>p. PrefsGood' /\ FontsGood' /\ MapsGood' => LocalInv'
  BY LocalParts, PTL
<1>f. UNCHANGED <<storable, sectionOpen, prefVars, osTheme>> => PrefsGood'
  BY <1>0 DEF PrefsGood, PrefStore, PrefsAgree, prefVars
<1>g. UNCHANGED <<storable, fontVars>> /\ (sectionOpen' => sectionOpen) => FontsGood'
  BY <1>0 DEF FontsGood, fontVars
<1>m. UNCHANGED <<storable, mapVars>> /\ (sectionOpen' => sectionOpen) => MapsGood'
  BY <1>0 DEF MapsGood, mapVars
<1>1. CASE UNCHANGED localVars
  BY <1>1, <1>f, <1>g, <1>m, <1>p DEF localVars
<1>2. ASSUME NEW p \in Prefs, NEW v \in 0..2, Choose(p, v)
      PROVE  LocalInv'
  <2>1. /\ sectionOpen /\ UNCHANGED <<storable, sectionOpen, osTheme>> /\ v \in PrefChoices(p)
        /\ UNCHANGED <<fontVars, mapVars>>
    BY <1>2 DEF Choose, Editing
  <2>2. \/ p \in Announced /\ AnnouncedChange(p, v)
        \/ p \in SharedPrefs /\ SharedChange(p, v)
        \/ p \in LabelPrefs /\ LabelChange(p, v)
        \/ p \in ReadAtUse /\ QuietChange(p, v)
        \/ p = "theme" /\ ThemeChange(v)
    BY <1>2 DEF Choose, Prefs, Announced, SharedPrefs, LabelPrefs, ReadAtUse
  <2>3. CASE p \in Announced /\ AnnouncedChange(p, v)
    BY <1>0, <2>1, <2>3, ChoiceKept, PrefFacts, <1>g, <1>m, <1>p DEF AnnouncedChange, AfterEvent
  <2>4. CASE p \in SharedPrefs /\ SharedChange(p, v)
    BY <1>0, <2>1, <2>4, ChoiceKept, PrefFacts, <1>g, <1>m, <1>p DEF SharedChange
  <2>5. CASE p \in LabelPrefs /\ LabelChange(p, v)
    <3>1. PICK label : label = [sectionState EXCEPT ![p] = v]
      OBVIOUS
    <3>2. /\ sectionState' = label
          /\ saved' = IF storable THEN [q \in Prefs |-> IF q \in LabelPrefs THEN label[q] ELSE saved[q]] ELSE saved
          /\ live' = [q \in Prefs |-> IF q \in LabelPrefs THEN label[q] ELSE live[q]]
      BY <2>5, <3>1 DEF LabelChange
    <3>3. PrefStore(label)
      BY <1>0, <2>1, <3>1, PrefFacts DEF PrefsGood, PrefStore
    <3>4. PrefStore(sectionState') /\ PrefStore(saved') /\ PrefStore(live')
      BY <1>0, <3>2, <3>3 DEF PrefsGood, PrefStore
    <3>5. PrefsAgree'
      BY <1>0, <2>1, <2>5, <3>1, <3>2, <3>3, PrefFacts DEF PrefsGood, PrefStore, PrefsAgree
    <3>6. PrefsGood'
      BY <1>0, <2>1, <3>4, <3>5 DEF PrefsGood, PrefStore
    <3> QED
      BY <2>1, <3>6, <1>g, <1>m, <1>p
  <2>6. CASE p \in ReadAtUse /\ QuietChange(p, v)
    BY <1>0, <2>1, <2>6, ChoiceKept, PrefFacts, <1>g, <1>m, <1>p DEF QuietChange
  <2>7. CASE p = "theme" /\ ThemeChange(v)
    BY <1>0, <2>1, <2>7, ChoiceKept, PrefFacts, <1>g, <1>m, <1>p DEF ThemeChange
  <2> QED
    BY <2>2, <2>3, <2>4, <2>5, <2>6, <2>7
<1>3. ASSUME NEW n \in SliderStops, HandleSliderChange(n)
      PROVE  LocalInv'
  <2>1. UNCHANGED <<storable, sectionOpen, osTheme, prefVars, fontSaved, fontApplied, mapVars>>
        /\ font' = [font EXCEPT !.slider = n, !.input = n] /\ n \in Int
    BY <1>3, LocalAssumption DEF HandleSliderChange, Editing
  <2>2. FontsGood'
    BY <1>0, <2>1 DEF FontsGood
  <2> QED
    BY <2>1, <2>2, <1>f, <1>m, <1>p
<1>4. CASE HandleSliderCommit
  <2>1. UNCHANGED <<storable, sectionOpen, osTheme, prefVars, mapVars>> /\ CommitFontScale(font.slider) /\ font.slider \in Int
    BY <1>0, <1>4 DEF HandleSliderCommit, Editing, FontsGood
  <2> QED
    BY <1>0, <2>1, FontCommitted, <1>f, <1>m, <1>p
<1>5. ASSUME NEW n \in FontSizes, TypeFontScale(n)
      PROVE  LocalInv'
  <2>1. UNCHANGED <<storable, sectionOpen, osTheme, prefVars, mapVars>> /\ n \in Int
    BY <1>5, LocalAssumption DEF TypeFontScale, Editing
  <2>2. CASE CommitFontScale(n)
    BY <1>0, <2>1, <2>2, FontCommitted, <1>f, <1>m, <1>p
  <2>3. CASE font' = [font EXCEPT !.input = n] /\ UNCHANGED <<fontSaved, fontApplied>>
    <3>1. FontsGood'
      BY <1>0, <2>1, <2>3 DEF FontsGood
    <3> QED
      BY <2>1, <3>1, <1>f, <1>m, <1>p
  <2> QED
    BY <1>5, <2>2, <2>3 DEF TypeFontScale
<1>6. CASE LeaveFontField
  <2>1. UNCHANGED <<storable, sectionOpen, osTheme, prefVars, mapVars>> /\ font.input \in Int
    BY <1>0, <1>6 DEF LeaveFontField, Editing, FontsGood
  <2>2. CASE CommitFontScale(font.input)
    BY <1>0, <2>1, <2>2, FontCommitted, <1>f, <1>m, <1>p
  <2>3. CASE font' = [font EXCEPT !.input = font.scale] /\ UNCHANGED <<fontSaved, fontApplied>>
    <3>1. FontsGood'
      BY <1>0, <2>1, <2>3 DEF FontsGood
    <3> QED
      BY <2>1, <3>1, <1>f, <1>m, <1>p
  <2> QED
    BY <1>6, <2>2, <2>3 DEF LeaveFontField
<1>7. CASE ResetFontScale
  <2>1. /\ UNCHANGED <<storable, sectionOpen, osTheme, prefVars, mapVars>>
        /\ CommitFontScale(DefaultFontScale) /\ DefaultFontScale \in Int
    BY <1>7 DEF ResetFontScale, Editing, DefaultFontScale
  <2> QED
    BY <1>0, <2>1, FontCommitted, <1>f, <1>m, <1>p
<1>8. ASSUME NEW text \in MapTexts, EditMap(text)
      PROVE  LocalInv'
  <2>1. UNCHANGED <<storable, sectionOpen, osTheme, prefVars, fontVars>>
    BY <1>8 DEF EditMap, Editing
  <2>2. /\ mapDraft' = text /\ mapError' = (text \notin ValidMaps \/ ~storable)
        /\ mapSaved' = IF text \notin ValidMaps \/ ~storable THEN mapSaved ELSE text
    BY <1>8 DEF EditMap, Refused
  <2>3. MapsGood'
    BY <1>0, <2>1, <2>2 DEF MapsGood
  <2> QED
    BY <2>1, <2>3, <1>f, <1>g, <1>p
<1>9. CASE ResetMap
  <2>1. /\ UNCHANGED <<storable, sectionOpen, osTheme, prefVars, fontVars>> /\ mapDraft' = DefaultMap /\ mapError' = FALSE
        /\ mapSaved' = IF storable THEN DefaultMap ELSE mapSaved
    BY <1>9 DEF ResetMap, Editing
  <2>2. MapsGood'
    BY <1>0, <2>1 DEF MapsGood, ValidMaps, MapTexts
  <2> QED
    BY <2>1, <2>2, <1>f, <1>g, <1>p
<1>10. CASE OsThemeChanges
  <2>1. /\ UNCHANGED <<storable, saved, sectionState, sectionOpen, fontVars, mapVars>> /\ osTheme' = 1 - osTheme
        /\ live' = IF Getter(saved)["theme"] = FollowOS
                   THEN [live EXCEPT !["theme"] = EffectiveTheme(FollowOS, osTheme')] ELSE live
    BY <1>10 DEF OsThemeChanges
  <2>2. osTheme' \in {0, 1} /\ EffectiveTheme(FollowOS, osTheme') = osTheme'
    BY <1>0, <2>1 DEF PrefsGood, EffectiveTheme
  <2>3. PrefStore(live')
    BY <1>0, <2>1, <2>2, PrefFacts DEF PrefsGood, PrefStore
  <2>4. PrefsAgree'
    BY <1>0, <2>1, <2>2, PrefFacts DEF PrefsGood, PrefStore, PrefsAgree, Getter, EffectiveTheme
  <2>5. PrefsGood'
    BY <1>0, <2>1, <2>2, <2>3, <2>4 DEF PrefsGood, PrefStore
  <2> QED
    BY <2>1, <2>5, <1>g, <1>m, <1>p
<1>11. CASE OpenLocal
  <2>1. /\ UNCHANGED <<storable, saved, live, osTheme, fontSaved, fontApplied, mapSaved>> /\ sectionOpen' = TRUE
        /\ sectionState' = [p \in Prefs |-> IF p \in SharedPrefs THEN live[p] ELSE Getter(saved)[p]]
        /\ font' = FontOf(IF storable THEN fontSaved ELSE DefaultFontScale)
        /\ mapDraft' = (IF storable THEN mapSaved ELSE DefaultMap) /\ mapError' = FALSE
    BY <1>11 DEF OpenLocal
  <2>2. PrefStore(sectionState')
    BY <1>0, <2>1, PrefFacts DEF PrefsGood, PrefStore, Getter, Defaults
  <2>3. PrefsAgree'
    BY <1>0, <2>1, PrefFacts DEF PrefsGood, PrefStore, PrefsAgree, Getter
  <2>4. PrefsGood'
    BY <1>0, <2>1, <2>2, <2>3 DEF PrefsGood, PrefStore
  <2>5. FontsGood'
    BY <1>0, <2>1 DEF FontsGood, FontOf, DefaultFontScale, MinFontScale, MaxFontScale
  <2>6. MapsGood'
    BY <1>0, <2>1 DEF MapsGood, ValidMaps, MapTexts
  <2> QED
    BY <2>4, <2>5, <2>6, <1>p
<1>12. CASE CloseLocal
  <2>1. UNCHANGED <<storable, prefVars, osTheme, fontVars, mapVars>> /\ sectionOpen' = FALSE
    BY <1>12 DEF CloseLocal
  <2>2. PrefsGood'
    BY <1>0, <2>1 DEF PrefsGood, PrefStore, PrefsAgree, prefVars
  <2> QED
    BY <2>1, <2>2, <1>g, <1>m, <1>p
<1>13. CASE ReloadPage
  <2>1. /\ UNCHANGED <<storable, saved, sectionState, osTheme, fontSaved, font, mapVars>> /\ sectionOpen' = FALSE
        /\ live' = [Getter(saved) EXCEPT !["theme"] = EffectiveTheme(Getter(saved)["theme"], osTheme)]
        /\ fontApplied' = IF storable THEN fontSaved ELSE DefaultFontScale
    BY <1>13 DEF ReloadPage
  <2>2. PrefStore(Getter(saved))
    BY <1>0, PrefFacts DEF PrefsGood, PrefStore, Getter, Defaults
  <2>3. EffectiveTheme(Getter(saved)["theme"], osTheme) \in 0..2
    BY <1>0, <2>2, PrefFacts DEF EffectiveTheme, PrefStore, PrefsGood
  <2>4. PrefStore(live')
    BY <2>1, <2>2, <2>3, PrefFacts DEF PrefStore
  <2>5. PrefsAgree'
    BY <1>0, <2>1, PrefFacts DEF PrefsGood, PrefStore, PrefsAgree, Getter
  <2>6. PrefsGood'
    BY <1>0, <2>1, <2>4, <2>5 DEF PrefsGood, PrefStore
  <2>7. FontsGood'
    BY <1>0, <2>1 DEF FontsGood, DefaultFontScale, MinFontScale, MaxFontScale
  <2> QED
    BY <2>1, <2>6, <2>7, <1>m, <1>p
<1> QED
  BY <1>1, <1>2, <1>3, <1>4, <1>5, <1>6, <1>7, <1>8, <1>9, <1>10, <1>11, <1>12, <1>13 DEF LocalNext

-----------------------------------------------------------------------------
(* The integrations page                                                    *)

(***************************************************************************)
(* What the editors and the saves make of a config.                        *)
(***************************************************************************)
LEMMA EditsKeepFields ==
    ASSUME NEW c, NEW F
    PROVE  /\ \A d \in Text(c, F) : DOMAIN d = DOMAIN c
           /\ \A d \in Number(c, F) : DOMAIN d = DOMAIN c
           /\ \A d \in Switch(c, F) : DOMAIN d = DOMAIN c
BY DEF Text, Number, Switch

LEMMA ChoiceKeepsFields ==
    ASSUME NEW c, NEW f, NEW vs
    PROVE  \A d \in Choice(c, f, vs) : DOMAIN d = DOMAIN c
BY DEF Choice

\* Whatever an editor makes of a config has the same fields.
LEMMA EditorKeepsFields ==
    ASSUME NEW t \in Types \cup Presets, NEW c, NEW d \in EditorOf(t, c)
    PROVE  DOMAIN d = DOMAIN c
<1> USE EditsKeepFields, ChoiceKeepsFields
<1>1. \A e \in MqttPrivateConfigEditor(c) : DOMAIN e = DOMAIN c
  BY DEF MqttPrivateConfigEditor
<1>2. \A e \in MqttHaConfigEditor(c) : DOMAIN e = DOMAIN c
  BY <1>1 DEF MqttHaConfigEditor, HaBrokerFields, ToggleTracked
<1>3. \A e \in MqttCommunityConfigEditor(c) : DOMAIN e = DOMAIN c
  BY DEF MqttCommunityConfigEditor, MqttCommunityTransport
<1>4. \A e \in MeshRankConfigEditor(c) : DOMAIN e = DOMAIN c
  <2>1. PICK b : b = [c EXCEPT !["iata"] = "default"]
    OBVIOUS
  <2>2. DOMAIN b = DOMAIN c /\ MeshRankConfigEditor(c) = Text(b, {"topic_template"})
    BY <2>1 DEF MeshRankConfigEditor
  <2> QED
    BY <2>2
<1>5. \A e \in LetsMeshConfigEditor(c) : DOMAIN e = DOMAIN c
  <2>1. PICK b : b = [c EXCEPT !["broker_host"] = "default"]
    OBVIOUS
  <2>2. PICK a : a = [c EXCEPT !["broker_host"] = "default", !["token_audience"] = "default"]
    OBVIOUS
  <2>3. DOMAIN b = DOMAIN c /\ DOMAIN a = DOMAIN c /\ LetsMeshConfigEditor(c) = Text(b, {"email"}) \cup Text(a, {"iata"})
    BY <2>1, <2>2 DEF LetsMeshConfigEditor
  <2> QED
    BY <2>3
<1>6. \A e \in BotConfigEditor(c) : DOMAIN e = DOMAIN c
  BY DEF BotConfigEditor
<1>7. \A e \in MapUploadConfigEditor(c) : DOMAIN e = DOMAIN c
  BY DEF MapUploadConfigEditor
<1>8. \A e \in AppriseConfigEditor(c) : DOMAIN e = DOMAIN c
  <2>1. DOMAIN MarkdownSwitched(c) = DOMAIN c
    BY DEF MarkdownSwitched
  <2>2. \A e \in AppriseFormats(c) : DOMAIN e = DOMAIN c
    BY <2>1 DEF AppriseFormats
  <2> QED
    BY <2>2 DEF AppriseConfigEditor
<1>9. \A e \in WebhookConfigEditor(c) : DOMAIN e = DOMAIN c
  BY DEF WebhookConfigEditor, HandleHeadersChange
<1>10. \A e \in SqsConfigEditor(c) : DOMAIN e = DOMAIN c
  BY DEF SqsConfigEditor
<1> QED
  BY <1>1, <1>2, <1>3, <1>4, <1>5, <1>6, <1>7, <1>8, <1>9, <1>10 DEF EditorOf, Types, Presets

LEMMA SavedTypes ==
    /\ \A draft \in DraftTypes : SavedType(draft) \in Types
    /\ \A t \in Types : SavedType(t) = t
    /\ Unset \notin Types \cup Presets
BY FanoutAssumption DEF SavedType, Types, Presets, Unset

LEMMA DefaultsOfType ==
    \A draft : DOMAIN DefaultsOf(draft) = FieldsOf(SavedType(draft))
BY DEF DefaultsOf

LEMMA BrokersHavePort ==
    \A t \in {"mqtt_private", "mqtt_community"} : "broker_port" \in FieldsOf(t)
BY DEF FieldsOf, Broker, Community

\* A save keeps the fields and leaves no broker without a port.
LEMMA SaveNormalizes ==
    ASSUME NEW t, NEW c
    PROVE  /\ DOMAIN NormalizeForSave(t, c) = DOMAIN c
           /\ t \in {"mqtt_private", "mqtt_community"} /\ DOMAIN c = FieldsOf(t) =>
                 NormalizeForSave(t, c)["broker_port"] \notin {"blank", "junk"}
<1>1. DOMAIN NormalizeForSave(t, c) = DOMAIN c
  BY DEF NormalizeForSave
<1>2. CASE t = "mqtt_private"
  BY <1>1, <1>2, BrokersHavePort DEF NormalizeForSave, Given
<1>3. CASE t = "mqtt_community"
  BY <1>1, <1>3, BrokersHavePort DEF NormalizeForSave, Given
<1> QED
  BY <1>1, <1>2, <1>3

LEMMA DraftNormalizes ==
    ASSUME NEW draft \in DraftTypes, NEW c, DOMAIN c = FieldsOf(SavedType(draft))
    PROVE  /\ DOMAIN NormalizeDraftConfig(draft, c) = DOMAIN c
           /\ SavedType(draft) \in {"mqtt_private", "mqtt_community"} =>
                 NormalizeDraftConfig(draft, c)["broker_port"] \notin {"blank", "junk"}
           /\ SavedType(draft) = "mqtt_community" => \A s : NormalizeDraftScope(draft, s).mode = "none"
<1>1. \A s : SavedType(draft) = "mqtt_community" => NormalizeDraftScope(draft, s).mode = "none"
  BY DEF NormalizeDraftScope, ScopeOf
<1>2. CASE draft \notin Presets
  BY <1>1, <1>2, SaveNormalizes DEF NormalizeDraftConfig
<1>3. CASE draft \in Presets
  <2>1. SavedType(draft) = "mqtt_community"
    BY <1>3 DEF SavedType
  <2>2. PICK d : DOMAIN d = DOMAIN c /\ NormalizeDraftConfig(draft, c) = NormalizeForSave("mqtt_community", d)
    BY <1>3 DEF NormalizeDraftConfig
  <2> QED
    BY <1>1, <2>1, <2>2, SaveNormalizes
<1> QED
  BY <1>2, <1>3

LEMMA KnownIs ==
    \A r : r \in Known <=> \/ r \in rows \/ r \in configs
                           \/ \E w \in work : \/ w.kind = "list" /\ r \in w.rows
                                              \/ w.kind = "update" /\ r = w.row
BY DEF Known

\* The editor closed is sound whatever is known.
LEMMA NoEditorSound ==
    /\ DOMAIN NoEditor = {"id", "draft", "name", "config", "scope"} /\ NoEditor.id = 0 /\ NoEditor.draft = Unset
    /\ 0 \notin RowIds
BY FanoutAssumption DEF NoEditor

\* Steps after which the client knows nothing new, with the editor kept or closed.
LEMMA NothingNew ==
    ASSUME FanoutInv, UNCHANGED serverVars, \A r \in configs' : r \in Known,
           \A w \in work' : w \in work \/ w.kind \in {"toggle", "rename", "delete"},
           editing' \in {editing, NoEditor}, PageTyped'
    PROVE  FanoutInv'
<1>1. \A r \in Known' : r \in Known
  <2>1. TAKE r \in Known'
  <2>2. \/ r \in rows' \/ r \in configs'
        \/ \E w \in work' : (w.kind = "list" /\ r \in w.rows) \/ (w.kind = "update" /\ r = w.row)
    BY DEF Known
  <2>3. rows' = rows
    BY DEF serverVars
  <2> QED
    BY <2>2, <2>3, KnownIs
<1>2. lastId' = lastId
  BY DEF serverVars
<1>3. RowsSound' /\ OneType'
  BY <1>1, <1>2 DEF FanoutInv, RowsSound, OneType, Sound
<1>4. WorkSound'
  BY DEF FanoutInv, WorkSound, Sound
<1>5. EditorSound'
  <2>1. CASE editing' = editing
    BY <1>1, <1>2, <2>1 DEF FanoutInv, EditorSound
  <2>2. CASE editing' = NoEditor
    BY <1>2, <1>3, <2>2, NoEditorSound DEF FanoutInv, EditorSound, RowsSound, PageTyped
  <2> QED
    BY <2>1, <2>2
<1> QED
  BY <1>3, <1>4, <1>5 DEF FanoutInv

\* Steps that change only the editor and its neighbours.
LEMMA EditorChanges ==
    ASSUME FanoutInv, UNCHANGED <<serverVars, configs, work>>, PageTyped',
           DOMAIN editing' = {"id", "draft", "name", "config", "scope"},
           editing'.draft # Unset => /\ editing'.draft \in DraftTypes
                                     /\ DOMAIN editing'.config = FieldsOf(SavedType(editing'.draft)),
           editing'.id \in RowIds \cup {0}, editing'.id <= lastId,
           editing'.draft = Unset =>
              \A r \in Known : r.id = editing'.id =>
                 /\ DOMAIN editing'.config = FieldsOf(r.type)
                 /\ r.type = "mqtt_community" => editing'.scope.mode = "none"
    PROVE  FanoutInv'
<1>1. Known' = Known /\ lastId' = lastId
  BY DEF Known, serverVars
<1>2. RowsSound' /\ OneType'
  BY <1>1 DEF FanoutInv, RowsSound, OneType, Sound
<1>3. WorkSound'
  BY DEF FanoutInv, WorkSound, Sound
<1>4. EditorSound'
  BY <1>1 DEF EditorSound
<1> QED
  BY <1>2, <1>3, <1>4 DEF FanoutInv

\* The type of what is edited, and what the editor holds of it.
LEMMA EditedType ==
    ASSUME FanoutInv, ~InList
    PROVE  /\ DetailType \in Types \cup Presets /\ DOMAIN editing.config = FieldsOf(SavedType(DetailType))
           /\ editing.draft # Unset => DetailType = editing.draft
           /\ editing.draft = Unset =>
                /\ DetailType \in Types /\ editing.id \in RowIds
                /\ \A r \in Known : r.id = editing.id => r.type = DetailType
                /\ DetailType = "mqtt_community" => editing.scope.mode = "none"
<1>1. CASE editing.draft # Unset
  BY <1>1, FanoutAssumption DEF FanoutInv, EditorSound, DetailType
<1>2. CASE editing.draft = Unset
  <2>1. EditedRow # {}
    BY <1>2 DEF InList, DetailType
  <2>2. PICK r \in EditedRow : DetailType = r.type
    BY <1>2, <2>1 DEF DetailType
  <2>3. r \in Known /\ r.id = editing.id
    BY KnownIs DEF EditedRow
  <2>4. r.type \in Types /\ r.id \in RowIds /\ \A q \in Known : q.id = r.id => q.type = r.type
    BY <2>3 DEF FanoutInv, RowsSound, OneType, Sound
  <2>5. DOMAIN editing.config = FieldsOf(r.type) /\ (r.type = "mqtt_community" => editing.scope.mode = "none")
    BY <1>2, <2>3 DEF FanoutInv, EditorSound
  <2>6. SavedType(DetailType) = r.type
    BY <2>2, <2>4, SavedTypes
  <2> QED
    BY <1>2, <2>2, <2>3, <2>4, <2>5, <2>6
<1> QED
  BY <1>1, <1>2

LEMMA RowForSound ==
    ASSUME NEW id, NEW draft \in Types, NEW enabled
    PROVE  Sound(RowFor(id, draft, enabled)) /\ RowFor(id, draft, enabled).id = id
                                             /\ RowFor(id, draft, enabled).type = draft
<1>1. PICK r : r = RowFor(id, draft, enabled)
  OBVIOUS
<1>2. r = [id |-> id, type |-> draft, name |-> "default", config |-> DefaultsOf(draft),
           scope |-> DefaultScope(draft), enabled |-> enabled]
  BY <1>1, SavedTypes DEF RowFor
<1>3. DOMAIN r = RowFields /\ r.id = id /\ r.type = draft /\ r.config = DefaultsOf(draft) /\ r.scope = DefaultScope(draft)
  BY <1>2 DEF RowFields
<1>4. DOMAIN r.config = FieldsOf(draft)
  BY <1>3, DefaultsOfType, SavedTypes
<1>5. draft = "mqtt_community" => r.scope.mode = "none"
  BY <1>3, SavedTypes DEF DefaultScope, ScopeOf
<1>6. draft \in {"mqtt_private", "mqtt_community"} => r.config["broker_port"] \notin {"blank", "junk"}
  BY <1>3, BrokersHavePort, SavedTypes DEF DefaultsOf, Switches
<1> QED
  BY <1>1, <1>3, <1>4, <1>5, <1>6 DEF Sound

LEMMA FanoutStarts == ASSUME FanoutInit PROVE FanoutInv
<1>1. rows \in {{}, {RowFor(1, "webhook", TRUE), RowFor(2, "mqtt_community", FALSE)}} /\ configs = {}
      /\ editing = NoEditor /\ lastId = (IF rows = {} THEN 0 ELSE 2) /\ work = {ListRequest("mount")}
  BY DEF FanoutInit
<1>2. \A r : r \in Known <=> r \in rows
  <2>1. ListRequest("mount").kind = "list" /\ ListRequest("mount").rows = rows
    BY DEF ListRequest
  <2> QED
    BY <1>1, <2>1, KnownIs
<1>3. \A r \in rows : /\ Sound(r)
                      /\ \/ r.id = 1 /\ r.type = "webhook"
                         \/ r.id = 2 /\ r.type = "mqtt_community"
  <2>0. PICK on, off : on = TRUE /\ off = FALSE
    OBVIOUS
  <2>1. PICK a : a = RowFor(1, "webhook", TRUE)
    OBVIOUS
  <2>2. PICK b : b = RowFor(2, "mqtt_community", FALSE)
    OBVIOUS
  <2>3. \A r \in rows : r = a \/ r = b
    BY <1>1, <2>1, <2>2
  <2>4. Sound(a) /\ a.id = 1 /\ a.type = "webhook" /\ Sound(b) /\ b.id = 2 /\ b.type = "mqtt_community"
    <3>1. "webhook" \in Types /\ "mqtt_community" \in Types
      BY DEF Types
    <3>2. Sound(a) /\ a.id = 1 /\ a.type = "webhook"
      <4>1. a = RowFor(1, "webhook", on)
        BY <2>0, <2>1
      <4> QED
        BY <3>1, <4>1, RowForSound
    <3>3. Sound(b) /\ b.id = 2 /\ b.type = "mqtt_community"
      <4>1. b = RowFor(2, "mqtt_community", off)
        BY <2>0, <2>2
      <4> QED
        BY <3>1, <4>1, RowForSound
    <3> QED
      BY <3>2, <3>3
  <2> QED
    BY <2>3, <2>4
<1>4. RowsSound /\ OneType
  BY <1>1, <1>2, <1>3, FanoutAssumption DEF RowsSound, OneType
<1>5. WorkSound
  BY <1>1 DEF WorkSound, ListRequest
<1>6. EditorSound
  BY <1>1, <1>4, NoEditorSound DEF EditorSound, RowsSound
<1>7. PageTyped
  <2>1. create = [open |-> FALSE, type |-> Unset] /\ ~busy /\ ~botsDisabled /\ ~scopeLists
        /\ {busy, botsDisabled, scopeLists} \subseteq BOOLEAN
    BY DEF FanoutInit
  <2> QED
    BY <1>1, <2>1 DEF PageTyped
<1> QED
  BY <1>4, <1>5, <1>6, <1>7 DEF FanoutInv

\* Opening the dialog or a report about bots leaves a recipe selected.
LEMMA SelectionTyped ==
    ASSUME NEW c \in [open : BOOLEAN, type : DraftTypes \cup {Unset}], NEW disabled
    PROVE  LET k == SelectionKept(c, disabled)
           IN  k \in [open : BOOLEAN, type : DraftTypes \cup {Unset}] /\ (k.open => k.type # Unset)
BY FanoutAssumption, SavedTypes DEF SelectionKept, AvailableCreateOptions

LEMMA SaveSent ==
    ASSUME FanoutInv, NEW enabled, HandleSave(enabled)
    PROVE  FanoutInv'
<1>1. /\ ~InList /\ UNCHANGED <<serverVars, configs, editing, inline, create, botsDisabled, scopeLists>>
      /\ \/ UNCHANGED <<busy, work>>
         \/ busy' = TRUE /\ work' = work \cup {SaveRequest(enabled)}
  BY DEF HandleSave, DetailControls
<1>2. PageTyped'
  BY <1>1 DEF FanoutInv, PageTyped, serverVars
<1>3. CASE UNCHANGED work
  BY <1>1, <1>2, <1>3, NothingNew, KnownIs
<1>4. CASE work' = work \cup {SaveRequest(enabled)}
  <2>1. PICK w : w = SaveRequest(enabled)
    OBVIOUS
  <2>2. CASE editing.draft # Unset
    <3>1. PICK config : config = NormalizeDraftConfig(editing.draft, editing.config)
      OBVIOUS
    <3>2. PICK scope : scope = NormalizeDraftScope(editing.draft, editing.scope)
      OBVIOUS
    <3>3. PICK type : type = SavedType(editing.draft)
      OBVIOUS
    <3>4. PICK name : name = IF editing.name = "blank" THEN "default" ELSE editing.name
      OBVIOUS
    <3>5. PICK row : row = [id |-> 0, type |-> type, name |-> name, config |-> config, scope |-> scope, enabled |-> enabled]
      OBVIOUS
    <3>6. w = [kind |-> "create", row |-> row]
      BY <2>1, <2>2, <3>1, <3>2, <3>3, <3>4, <3>5 DEF SaveRequest
    <3>7. DOMAIN row = RowFields /\ row.type = type /\ row.config = config /\ row.scope = scope
      BY <3>5 DEF RowFields
    <3>8. editing.draft \in DraftTypes /\ DOMAIN editing.config = FieldsOf(type) /\ type \in Types
      BY <2>2, <3>3, SavedTypes DEF FanoutInv, EditorSound
    <3>9. Sound(row)
      BY <3>1, <3>2, <3>3, <3>7, <3>8, DraftNormalizes DEF Sound
    <3>10. w.kind = "create" /\ w.row = row
      BY <3>6
    <3>11. Known' = Known
      <4>1. \A r : r \in Known' <=> \/ r \in rows' \/ r \in configs'
                                    \/ \E v \in work' : \/ v.kind = "list" /\ r \in v.rows
                                                        \/ v.kind = "update" /\ r = v.row
        BY DEF Known
      <4>2. rows' = rows /\ configs' = configs /\ work' = work \cup {w}
        BY <1>1, <1>4, <2>1 DEF serverVars
      <4>3. \A r : r \in Known' <=> r \in Known
        BY <3>10, <4>1, <4>2, KnownIs
      <4> QED
        BY <4>3
    <3>12. lastId' = lastId /\ editing' = editing
      BY <1>1 DEF serverVars
    <3>13. RowsSound' /\ OneType' /\ EditorSound'
      BY <3>11, <3>12 DEF FanoutInv, RowsSound, OneType, EditorSound, Sound
    <3>14. WorkSound'
      BY <1>4, <2>1, <3>9, <3>10 DEF FanoutInv, WorkSound, Sound
    <3> QED
      BY <1>2, <3>13, <3>14 DEF FanoutInv
  <2>3. CASE editing.draft = Unset
    <3>1. PICK config : config = NormalizeForSave(DetailType, editing.config)
      OBVIOUS
    <3>2. PICK row : row = [id |-> editing.id, type |-> DetailType, name |-> editing.name,
                            config |-> config, scope |-> editing.scope, enabled |-> enabled]
      OBVIOUS
    <3>3. w = [kind |-> "update", row |-> row]
      BY <2>1, <2>3, <3>1, <3>2 DEF SaveRequest
    <3>4. /\ DOMAIN row = RowFields /\ row.id = editing.id /\ row.type = DetailType /\ row.config = config
          /\ row.scope = editing.scope
      BY <3>2 DEF RowFields
    <3>5. w.kind = "update" /\ w.row = row
      BY <3>3
    <3>6. /\ DetailType \in Types /\ editing.id \in RowIds /\ editing.id <= lastId
          /\ DOMAIN editing.config = FieldsOf(DetailType)
          /\ \A r \in Known : r.id = editing.id => r.type = DetailType
          /\ DetailType = "mqtt_community" => editing.scope.mode = "none"
      BY <1>1, <2>3, EditedType, SavedTypes DEF FanoutInv, EditorSound
    <3>7. Sound(row)
      BY <3>1, <3>4, <3>6, SaveNormalizes DEF Sound
    <3>8. \A r \in Known' : r \in Known \/ r = row
      <4>1. \A r \in Known' : \/ r \in rows' \/ r \in configs'
                              \/ \E v \in work' : \/ v.kind = "list" /\ r \in v.rows
                                                  \/ v.kind = "update" /\ r = v.row
        BY DEF Known
      <4>2. rows' = rows /\ configs' = configs /\ work' = work \cup {w}
        BY <1>1, <1>4, <2>1 DEF serverVars
      <4> QED
        BY <3>5, <4>1, <4>2, KnownIs
    <3>9. lastId' = lastId /\ editing' = editing
      BY <1>1 DEF serverVars
    <3>10. RowsSound' /\ OneType'
      BY <3>4, <3>6, <3>7, <3>8, <3>9 DEF FanoutInv, RowsSound, OneType, Sound
    <3>11. WorkSound'
      BY <1>4, <2>1, <3>5 DEF FanoutInv, WorkSound, Sound
    <3>12. EditorSound'
      BY <2>3, <3>4, <3>6, <3>8, <3>9 DEF FanoutInv, EditorSound
    <3> QED
      BY <1>2, <3>10, <3>11, <3>12 DEF FanoutInv
  <2> QED
    BY <2>2, <2>3
<1> QED
  BY <1>1, <1>3, <1>4

\* What the server makes of a request is as sound as what was asked.
LEMMA RowsAfterSound ==
    ASSUME FanoutInv, NEW w \in work, w.kind # "list", ServerTakes(w)
    PROVE  /\ w.kind = "create" => /\ NewId \in RowIds /\ lastId < NewId
                                   /\ \A r \in RowsAfter(w) : \/ r \in Known
                                                              \/ Sound(r) /\ r.id = NewId
           /\ w.kind # "create" => \A r \in RowsAfter(w) :
                 Sound(r) /\ \E q \in Known : q.id = r.id /\ q.type = r.type
<1>0. lastId \in Nat /\ RowIds \subseteq Nat
  BY FanoutAssumption DEF FanoutInv, PageTyped
<1>1. w.kind \in {"create", "update", "toggle", "rename", "delete"} /\ (w.kind = "create" => Sound(w.row))
  BY DEF FanoutInv, WorkSound
<1>2. \A r \in rows : r \in Known /\ Sound(r)
  BY KnownIs DEF FanoutInv, RowsSound
<1>3. CASE w.kind = "create"
  <2>1. FreeIds # {} /\ FreeIds \subseteq Nat
    BY <1>0, <1>3 DEF ServerTakes, FreeIds
  <2>2. NewId \in FreeIds
    BY <2>1 DEF NewId
  <2>3. PICK new : new = [w.row EXCEPT !.id = NewId]
    OBVIOUS
  <2>4. RowsAfter(w) = rows \cup {new}
    BY <1>3, <2>3 DEF RowsAfter
  <2>5. Sound(new) /\ new.id = NewId
    BY <1>1, <1>3, <2>3 DEF Sound, RowFields
  <2> QED
    BY <1>2, <1>3, <2>2, <2>4, <2>5 DEF FreeIds
<1>4. CASE w.kind = "delete"
  <2>1. RowsAfter(w) = {q \in rows : q.id # w.row.id}
    BY <1>4 DEF RowsAfter
  <2> QED
    BY <1>2, <1>4, <2>1
<1>5. CASE w.kind = "update"
  <2>1. RowsAfter(w) = {IF q.id = w.row.id THEN w.row ELSE q : q \in rows}
    BY <1>5 DEF RowsAfter
  <2>2. w.row \in Known /\ Sound(w.row)
    BY <1>5, KnownIs DEF FanoutInv, RowsSound
  <2> QED
    BY <1>2, <1>5, <2>1, <2>2
<1>6. CASE w.kind = "toggle"
  <2>1. RowsAfter(w) = {IF q.id = w.row.id THEN [q EXCEPT !.enabled = w.row.enabled] ELSE q : q \in rows}
    BY <1>6 DEF RowsAfter
  <2>2. \A q \in rows : LET p == [q EXCEPT !.enabled = w.row.enabled] IN Sound(p) /\ p.id = q.id /\ p.type = q.type
    BY <1>2 DEF Sound, RowFields
  <2>3. ASSUME NEW r \in RowsAfter(w)
        PROVE  Sound(r) /\ \E q \in Known : q.id = r.id /\ q.type = r.type
    <3>1. PICK q \in rows : r = q \/ r = [q EXCEPT !.enabled = w.row.enabled]
      BY <2>1
    <3> QED
      BY <1>2, <2>2, <3>1
  <2> QED
    BY <1>6, <2>3
<1>7. CASE w.kind = "rename"
  <2>1. RowsAfter(w) = {IF q.id = w.row.id THEN [q EXCEPT !.name = w.row.name] ELSE q : q \in rows}
    BY <1>7 DEF RowsAfter
  <2>2. \A q \in rows : LET p == [q EXCEPT !.name = w.row.name] IN Sound(p) /\ p.id = q.id /\ p.type = q.type
    BY <1>2 DEF Sound, RowFields
  <2>3. ASSUME NEW r \in RowsAfter(w)
        PROVE  Sound(r) /\ \E q \in Known : q.id = r.id /\ q.type = r.type
    <3>1. PICK q \in rows : r = q \/ r = [q EXCEPT !.name = w.row.name]
      BY <2>1
    <3> QED
      BY <1>2, <2>2, <3>1
  <2> QED
    BY <1>7, <2>3
<1> QED
  BY <1>1, <1>3, <1>4, <1>5, <1>6, <1>7

LEMMA RequestTaken ==
    ASSUME FanoutInv, NEW w \in work, RequestSucceeds(w)
    PROVE  FanoutInv'
<1>1. /\ w.kind # "list" /\ ServerTakes(w) /\ rows' = RowsAfter(w)
      /\ lastId' = IF w.kind = "create" THEN NewId ELSE lastId
      /\ editing' \in {editing, NoEditor} /\ (w.kind = "create" => editing' = NoEditor)
      /\ work' = (work \ {w}) \cup {[kind |-> "list", rows |-> rows', after |-> w.kind]}
      /\ UNCHANGED <<configs, inline, create, busy, botsDisabled, scopeLists>>
  BY DEF RequestSucceeds
<1>2. lastId \in Nat /\ RowIds \subseteq Nat
  BY FanoutAssumption DEF FanoutInv, PageTyped
<1>3. \A r \in Known' : r \in Known \/ r \in RowsAfter(w)
  <2>1. PICK v : v = [kind |-> "list", rows |-> rows', after |-> w.kind]
    OBVIOUS
  <2>2. v.kind = "list" /\ v.rows = rows' /\ work' = (work \ {w}) \cup {v}
    BY <1>1, <2>1
  <2>3. \A r \in Known' : \/ r \in rows' \/ r \in configs'
                          \/ \E u \in work' : \/ u.kind = "list" /\ r \in u.rows
                                              \/ u.kind = "update" /\ r = u.row
    BY DEF Known
  <2> QED
    BY <1>1, <2>2, <2>3, KnownIs
<1>4. lastId' \in Nat /\ lastId <= lastId'
  BY <1>1, <1>2, RowsAfterSound
<1>5. \A r \in Known' : Sound(r) /\ r.id \in RowIds /\ r.id <= lastId'
  <2>1. \A q \in Known : Sound(q) /\ q.id \in RowIds /\ q.id <= lastId
    BY DEF FanoutInv, RowsSound
  <2>2. CASE w.kind = "create"
    BY <1>1, <1>2, <1>3, <1>4, <2>1, <2>2, RowsAfterSound
  <2>3. CASE w.kind # "create"
    BY <1>1, <1>2, <1>3, <1>4, <2>1, <2>3, RowsAfterSound
  <2> QED
    BY <2>2, <2>3
<1>6. OneType'
  <2>1. \A q \in Known : q.id \in RowIds /\ q.id <= lastId
    BY DEF FanoutInv, RowsSound
  <2>2. \A q, r \in Known : q.id = r.id => q.type = r.type
    BY DEF FanoutInv, OneType
  <2>3. CASE w.kind = "create"
    <3>1. \A r \in Known' : r \in Known \/ (r \in RowsAfter(w) /\ r.id = NewId)
      BY <1>1, <1>3, <2>3, RowsAfterSound
    <3>2. \A q \in Known : q.id # NewId
      BY <1>1, <1>2, <2>1, <2>3, RowsAfterSound
    <3>3. \A q, r \in RowsAfter(w) : q.id = NewId /\ r.id = NewId => q = r
      <4>1. RowsAfter(w) = rows \cup {[w.row EXCEPT !.id = NewId]}
        BY <2>3 DEF RowsAfter
      <4>2. \A q \in rows : q.id # NewId
        BY <3>2, KnownIs
      <4> QED
        BY <4>1, <4>2
    <3> QED
      BY <2>2, <3>1, <3>2, <3>3 DEF OneType
  <2>4. CASE w.kind # "create"
    <3>1. \A r \in Known' : \E q \in Known : q.id = r.id /\ q.type = r.type
      BY <1>1, <1>3, <2>4, RowsAfterSound
    <3> QED
      BY <2>2, <3>1 DEF OneType
  <2> QED
    BY <2>3, <2>4
<1>7. EditorSound'
  <2>1. CASE editing' = NoEditor
    BY <1>4, <1>5, <2>1, NoEditorSound DEF EditorSound
  <2>2. CASE w.kind # "create" /\ editing' = editing
    <3>1. \A r \in Known' : \E q \in Known : q.id = r.id /\ q.type = r.type
      BY <1>1, <1>3, <2>2, RowsAfterSound
    <3> QED
      BY <1>1, <2>2, <3>1 DEF FanoutInv, EditorSound
  <2> QED
    BY <1>1, <2>1, <2>2
<1>8. WorkSound'
  BY <1>1 DEF FanoutInv, WorkSound, Sound
<1>9. PageTyped'
  BY <1>1, <1>4 DEF FanoutInv, PageTyped
<1>10. RowsSound'
  BY <1>5 DEF RowsSound, Sound
<1> QED
  BY <1>6, <1>7, <1>8, <1>9, <1>10 DEF FanoutInv

LEMMA FormEdited ==
    ASSUME FanoutInv, EditForm
    PROVE  FanoutInv'
<1>1. ~InList /\ UNCHANGED <<serverVars, configs, inline, create, busy, botsDisabled, scopeLists, work>>
  BY DEF EditForm, DetailControls
<1>2. DOMAIN editing = {"id", "draft", "name", "config", "scope"} /\ editing.id \in RowIds \cup {0} /\ editing.id <= lastId
      /\ (editing.draft # Unset => editing.draft \in DraftTypes)
  BY DEF FanoutInv, EditorSound
<1>3. PageTyped'
  BY <1>1 DEF FanoutInv, PageTyped, serverVars
<1>4. /\ DOMAIN editing' = DOMAIN editing /\ editing'.id = editing.id /\ editing'.draft = editing.draft
      /\ DOMAIN editing'.config = DOMAIN editing.config
      /\ DetailType = "mqtt_community" => editing'.scope = editing.scope
  <2>1. CASE \E c \in EditorOf(DetailType, editing.config) : editing' = [editing EXCEPT !.config = c]
    <3>1. PICK c \in EditorOf(DetailType, editing.config) : editing' = [editing EXCEPT !.config = c]
      BY <2>1
    <3>2. DOMAIN c = DOMAIN editing.config
      BY <1>1, EditedType, EditorKeepsFields
    <3> QED
      BY <1>2, <3>1, <3>2
  <2>2. CASE \E n \in {"blank", "typed"} : editing' = [editing EXCEPT !.name = n]
    BY <1>2, <2>2
  <2>3. CASE DetailType \in DOMAIN ScopeEditors /\ \E s : editing' = [editing EXCEPT !.scope = s]
    <3>1. DetailType # "mqtt_community"
      BY <2>3 DEF ScopeEditors
    <3> QED
      BY <1>2, <2>3, <3>1
  <2> QED
    BY <2>1, <2>2, <2>3 DEF EditForm
<1>5. editing.draft # Unset => DOMAIN editing'.config = FieldsOf(SavedType(editing.draft))
  BY <1>1, <1>4, EditedType
<1>6. editing.draft = Unset => \A r \in Known : r.id = editing.id =>
         DOMAIN editing'.config = FieldsOf(r.type) /\ (r.type = "mqtt_community" => editing'.scope.mode = "none")
  BY <1>1, <1>4, EditedType, SavedTypes
<1> QED
  BY <1>1, <1>2, <1>3, <1>4, <1>5, <1>6, EditorChanges

LEMMA FanoutStep ==
    ASSUME FanoutInv, [FanoutNext]_fanoutVars
    PROVE  FanoutInv'
<1>0. PageTyped /\ (\A r \in configs : r \in Known) /\ (\A w \in work : w.kind = "list" => \A r \in w.rows : r \in Known)
  BY KnownIs DEF FanoutInv
<1>1. CASE UNCHANGED fanoutVars
  BY <1>0, <1>1, NothingNew DEF fanoutVars, serverVars, PageTyped
<1>2. ASSUME NEW open \in BOOLEAN, OpenCreate(open)
      PROVE  FanoutInv'
  <2>1. PICK c \in [open : BOOLEAN, type : DraftTypes \cup {Unset}] : create' = SelectionKept(c, botsDisabled)
    <3>1. [create EXCEPT !.open = open] \in [open : BOOLEAN, type : DraftTypes \cup {Unset}]
      BY <1>0 DEF PageTyped
    <3> QED
      BY <1>2, <3>1 DEF OpenCreate
  <2>2. UNCHANGED <<serverVars, configs, editing, inline, busy, botsDisabled, scopeLists, work>>
    BY <1>2 DEF OpenCreate
  <2>3. PageTyped'
    BY <1>0, <2>1, <2>2, SelectionTyped DEF PageTyped, serverVars
  <2> QED
    BY <1>0, <2>2, <2>3, NothingNew
<1>3. ASSUME NEW enabled \in BOOLEAN, HandleSave(enabled)
      PROVE  FanoutInv'
  BY <1>3, SaveSent
<1>4. ASSUME NEW t \in DraftTypes, SelectCreate(t)
      PROVE  FanoutInv'
  <2>1. create' = [create EXCEPT !.type = t]
        /\ UNCHANGED <<serverVars, configs, editing, inline, busy, botsDisabled, scopeLists, work>>
    BY <1>4 DEF SelectCreate
  <2>2. PageTyped'
    BY <1>0, <2>1, SavedTypes, FanoutAssumption DEF PageTyped, serverVars
  <2> QED
    BY <1>0, <2>1, <2>2, NothingNew
<1>5. CASE HandleAddCreate
  <2>1. /\ create.open /\ create' = [create EXCEPT !.open = FALSE]
        /\ UNCHANGED <<serverVars, configs, inline, busy, botsDisabled, scopeLists, work>>
    BY <1>5 DEF HandleAddCreate
  <2>2. PICK e : e = [id |-> 0, draft |-> create.type, name |-> "default",
                      config |-> DefaultsOf(create.type), scope |-> DefaultScope(create.type)]
    OBVIOUS
  <2>3. editing' = e
    BY <1>5, <2>2 DEF HandleAddCreate
  <2>4. /\ DOMAIN e = {"id", "draft", "name", "config", "scope"} /\ e.id = 0 /\ e.draft = create.type
        /\ e.config = DefaultsOf(create.type)
    BY <2>2
  <2>5. create.type \in DraftTypes /\ create.type # Unset /\ 0 <= lastId
    BY <1>0, <2>1 DEF PageTyped
  <2>6. PageTyped'
    BY <1>0, <2>1 DEF PageTyped, serverVars
  <2> QED
    BY <2>1, <2>3, <2>4, <2>5, <2>6, DefaultsOfType, EditorChanges
<1>6. CASE EditForm
  BY <1>6, FormEdited
<1>7. CASE ScopeListsArrive
  BY <1>0, <1>7, NothingNew DEF ScopeListsArrive, PageTyped, serverVars
<1>8. CASE HandleBackToList
  <2>1. editing' \in {NoEditor, editing} /\ UNCHANGED <<serverVars, configs, inline, create, busy, botsDisabled, scopeLists, work>>
    BY <1>8 DEF HandleBackToList
  <2> QED
    BY <1>0, <2>1, NothingNew DEF PageTyped, serverVars
<1>9. CASE BotsSwitched
  <2>1. /\ botsDisabled' = ~botsDisabled /\ create' = SelectionKept(create, botsDisabled')
        /\ UNCHANGED <<serverVars, configs, editing, inline, busy, scopeLists, work>>
    BY <1>9 DEF BotsSwitched
  <2>2. PageTyped'
    BY <1>0, <2>1, SelectionTyped DEF PageTyped, serverVars
  <2> QED
    BY <1>0, <2>1, <2>2, NothingNew
<1>10. ASSUME NEW r \in configs, HandleEdit(r)
       PROVE  FanoutInv'
  <2>1. /\ create' = [create EXCEPT !.open = FALSE]
        /\ UNCHANGED <<serverVars, configs, busy, botsDisabled, scopeLists, work>>
    BY <1>10 DEF HandleEdit
  <2>2. PICK e : e = [id |-> r.id, draft |-> Unset, name |-> r.name, config |-> r.config, scope |-> r.scope]
    OBVIOUS
  <2>3. editing' = e
    BY <1>10, <2>2 DEF HandleEdit
  <2>4. /\ DOMAIN e = {"id", "draft", "name", "config", "scope"} /\ e.id = r.id /\ e.draft = Unset
        /\ e.config = r.config /\ e.scope = r.scope
    BY <2>2
  <2>5. Sound(r) /\ r.id \in RowIds /\ r.id <= lastId /\ \A q \in Known : q.id = r.id => q.type = r.type
    BY <1>0 DEF FanoutInv, RowsSound, OneType
  <2>6. PageTyped'
    BY <1>0, <2>1 DEF PageTyped, serverVars
  <2>7. DOMAIN r.config = FieldsOf(r.type) /\ (r.type = "mqtt_community" => r.scope.mode = "none")
    BY <2>5 DEF Sound
  <2> QED
    BY <2>1, <2>3, <2>4, <2>5, <2>6, <2>7, EditorChanges
<1>11. ASSUME NEW r \in configs, HandleToggleEnabled(r)
       PROVE  FanoutInv'
  <2>1. /\ work' = work \cup {[kind |-> "toggle", row |-> [r EXCEPT !.enabled = ~@]]}
        /\ UNCHANGED <<serverVars, configs, editing, inline, create, busy, botsDisabled, scopeLists>>
    BY <1>11 DEF HandleToggleEnabled
  <2> QED
    BY <1>0, <2>1, NothingNew DEF PageTyped, serverVars
<1>12. ASSUME NEW r \in configs, HandleStartInlineEdit(r)
       PROVE  FanoutInv'
  <2>1. /\ create' = [create EXCEPT !.open = FALSE]
        /\ UNCHANGED <<serverVars, configs, editing, busy, botsDisabled, scopeLists, work>>
    BY <1>12 DEF HandleStartInlineEdit
  <2> QED
    BY <1>0, <2>1, NothingNew DEF PageTyped, serverVars
<1>13. ASSUME NEW r \in configs, NEW n \in {"blank", "typed", "default"}, HandleInlineNameSave(r, n)
       PROVE  FanoutInv'
  <2>1. /\ \A w \in work' : w \in work \/ w.kind = "rename"
        /\ UNCHANGED <<serverVars, configs, editing, create, busy, botsDisabled, scopeLists>>
    <3>1. PICK w : w = [kind |-> "rename", row |-> [r EXCEPT !.name = n]]
      OBVIOUS
    <3>2. w.kind = "rename" /\ (work' = work \/ work' = work \cup {w})
      BY <1>13, <3>1 DEF HandleInlineNameSave
    <3>3. UNCHANGED <<serverVars, configs, editing, create, busy, botsDisabled, scopeLists>>
      BY <1>13 DEF HandleInlineNameSave
    <3> QED
      BY <3>2, <3>3
  <2> QED
    BY <1>0, <2>1, NothingNew DEF PageTyped, serverVars
<1>14. ASSUME NEW r \in configs, HandleDeleteConfig(r)
       PROVE  FanoutInv'
  <2>1. /\ work' = work \cup {[kind |-> "delete", row |-> r]}
        /\ UNCHANGED <<serverVars, configs, editing, inline, create, busy, botsDisabled, scopeLists>>
    BY <1>14 DEF HandleDeleteConfig
  <2> QED
    BY <1>0, <2>1, NothingNew DEF PageTyped, serverVars
<1>15. ASSUME NEW w \in work, RequestSucceeds(w)
       PROVE  FanoutInv'
  BY <1>15, RequestTaken
<1>16. ASSUME NEW w \in work, RequestRefused(w)
       PROVE  FanoutInv'
  <2>1. /\ work' \subseteq work /\ (busy' = busy \/ busy' = FALSE)
        /\ UNCHANGED <<serverVars, configs, editing, create, botsDisabled, scopeLists>>
    <3>1. busy' = (busy /\ w.kind \notin Saves)
      BY <1>16 DEF RequestRefused
    <3>2. busy' = busy \/ busy' = FALSE
      BY <1>0, <3>1, Zenon DEF PageTyped
    <3> QED
      BY <1>16, <3>2 DEF RequestRefused
  <2> QED
    BY <1>0, <2>1, NothingNew DEF PageTyped, serverVars
<1>17. ASSUME NEW w \in work, LoadConfigs(w)
       PROVE  FanoutInv'
  <2>1. /\ work' \subseteq work /\ w.kind = "list" /\ configs' \in {w.rows, configs}
        /\ UNCHANGED <<serverVars, editing, create, botsDisabled, scopeLists>> /\ busy' = (busy /\ w.after \notin Saves)
    BY <1>17 DEF LoadConfigs
  <2>2. busy' \in BOOLEAN
    BY <2>1
  <2> QED
    BY <1>0, <2>1, <2>2, NothingNew DEF PageTyped, serverVars
<1> QED
  BY <1>1, <1>2, <1>3, <1>4, <1>5, <1>6, <1>7, <1>8, <1>9, <1>10, <1>11, <1>12, <1>13, <1>14, <1>15, <1>16, <1>17
     DEF FanoutNext

LEMMA FanoutTypes == ASSUME FanoutInv PROVE FanoutTypeOK
<1>1. \A r \in rows \cup configs : r.id \in RowIds /\ DOMAIN r.config = FieldsOf(r.type)
  BY KnownIs DEF FanoutInv, RowsSound, Sound
<1>2. DOMAIN editing.config = FieldsOf(IF InList THEN "sqs" ELSE SavedType(DetailType)) \/ InList
  BY EditedType
<1> QED
  BY <1>1, <1>2 DEF FanoutInv, PageTyped, FanoutTypeOK

-----------------------------------------------------------------------------
(* The dashboards of repeaters                                              *)

LEMMA PanesTyped ==
    ASSUME NEW panes \in [PaneNames -> PaneState]
    PROVE  /\ NormalizePaneStates(panes) \in [PaneNames -> PaneState]
           /\ \A p \in PaneNames : ~NormalizePaneStates(panes)[p].loading
<1>1. PICK off \in BOOLEAN : off = FALSE
  OBVIOUS
<1>2. \A p \in PaneNames : [panes[p] EXCEPT !.loading = off] \in PaneState /\ ~[panes[p] EXCEPT !.loading = off].loading
  BY <1>1 DEF PaneState
<1> QED
  BY <1>1, <1>2 DEF NormalizePaneStates

LEMMA InitialTyped ==
    /\ [p \in PaneNames |-> InitialPaneState] \in [PaneNames -> PaneState]
    /\ \A p \in PaneNames : ~[q \in PaneNames |-> InitialPaneState][p].loading
    /\ InitialEntry \in DashEntries /\ InitialEntry.panes = [p \in PaneNames |-> InitialPaneState]
<1>1. InitialPaneState \in PaneState /\ ~InitialPaneState.loading
  BY DashAssumption DEF InitialPaneState, PaneState
<1>2. [p \in PaneNames |-> InitialPaneState] \in [PaneNames -> PaneState]
  BY <1>1
<1> QED
  BY <1>1, <1>2 DEF InitialEntry, DashEntries

LEMMA DashStarts == ASSUME DashInit PROVE DashInv
<1> USE DashAssumption DEF DashInit
<1>1. dash \in DashStates
  BY InitialTyped DEF Unmounted, DashStates
<1>2. DashTyped /\ DashWorkSound
  BY <1>1 DEF DashTyped, DashWorkSound
<1>3. NoOrphanLoading
  BY DEF NoOrphanLoading
<1>4. DashTypeOK
  BY <1>1 DEF DashTypeOK, DashStates
<1> QED
  BY <1>2, <1>3, <1>4 DEF DashInv

(* The cache.                                                               *)

\* What an instance starts from has its type, and loads nothing.
LEMMA CachedTyped ==
    ASSUME DashInv, NEW k
    PROVE  CachedState(k) \in DashEntries /\ \A p \in PaneNames : ~CachedState(k).panes[p].loading
<1>1. CASE k \notin DOMAIN dashCache
  BY <1>1, InitialTyped DEF CachedState
<1>2. CASE k \in DOMAIN dashCache
  <2>1. dashCache[k] \in DashEntries
    BY <1>2 DEF DashInv, DashTyped
  <2>2. PICK panes : panes = NormalizePaneStates(dashCache[k].panes)
    OBVIOUS
  <2>3. panes \in [PaneNames -> PaneState] /\ \A p \in PaneNames : ~panes[p].loading
    BY <2>1, <2>2, PanesTyped DEF DashEntries
  <2>4. CachedState(k) = [dashCache[k] EXCEPT !.panes = panes]
    BY <1>2, <2>2 DEF CachedState
  <2> QED
    BY <2>1, <2>3, <2>4 DEF DashEntries
<1> QED
  BY <1>1, <1>2

LEMMA EntriesSaved ==
    ASSUME DashInv
    PROVE  /\ DOMAIN Saved = DOMAIN dashCache
           /\ \A j \in DOMAIN dashCache : Saved[j] \in DashEntries
           /\ Saved \in [DOMAIN dashCache -> DashEntries]
<1>1. dash \in DashStates /\ dashCache \in [DOMAIN dashCache -> DashEntries]
  BY DEF DashInv, DashTyped
<1>2. PICK panes : panes = NormalizePaneStates(dash.panes)
  OBVIOUS
<1>3. panes \in [PaneNames -> PaneState]
  BY <1>1, <1>2, PanesTyped DEF DashStates
<1>4. Entry \in DashEntries
  BY <1>1, <1>2, <1>3 DEF Entry, DashEntries, DashStates
<1> QED
  BY <1>1, <1>4 DEF Saved

\* The entry of the cache moved to the end of the order, the oldest one gone.
LEMMA DashOrderTyped ==
    ASSUME DashInv, NEW k
    PROVE  /\ DashOrderWithout(k) \in Seq(DOMAIN dashCache) /\ DOMAIN dashCache \subseteq Repeaters
           /\ Len(DashOrderWithout(k)) <= Len(dashOrder)
<1>1. dashOrder \in Seq(Repeaters) /\ DOMAIN dashCache = {dashOrder[i] : i \in DOMAIN dashOrder}
  BY DEF DashInv, DashTyped, DashTypeOK
<1>2. dashOrder \in Seq(DOMAIN dashCache) /\ DOMAIN dashCache \subseteq Repeaters
  BY <1>1
<1>3. CASE \E i \in DOMAIN dashOrder : dashOrder[i] = k
  <2>1. PICK at \in DOMAIN dashOrder : at = CHOOSE i \in DOMAIN dashOrder : dashOrder[i] = k
    BY <1>3
  <2>2. DashOrderWithout(k) = [i \in 1..(Len(dashOrder) - 1) |-> dashOrder[IF i < at THEN i ELSE i + 1]]
    BY <1>3, <2>1 DEF DashOrderWithout
  <2>3. PICK n \in Nat : n = Len(dashOrder) - 1
    BY <1>1, <1>3
  <2>4. \A i \in 1..n : dashOrder[IF i < at THEN i ELSE i + 1] \in DOMAIN dashCache
    BY <1>2, <2>3
  <2>5. PICK s : s = [i \in 1..n |-> dashOrder[IF i < at THEN i ELSE i + 1]]
    OBVIOUS
  <2>6. s \in Seq(DOMAIN dashCache) /\ Len(s) = n
    BY <2>4, <2>5
  <2> QED
    BY <1>1, <1>2, <2>2, <2>3, <2>5, <2>6
<1>4. CASE ~\E i \in DOMAIN dashOrder : dashOrder[i] = k
  BY <1>1, <1>2, <1>4 DEF DashOrderWithout
<1> QED
  BY <1>3, <1>4

LEMMA DashCached ==
    ASSUME DashInv, NEW k \in Repeaters, CacheState(k)
    PROVE  /\ dashOrder' \in Seq(Repeaters) /\ Len(dashOrder') <= MaxCached
           /\ DOMAIN dashCache' = {dashOrder'[i] : i \in DOMAIN dashOrder'}
           /\ dashCache' \in [DOMAIN dashCache' -> DashEntries]
<1> DEFINE order == Append(DashOrderWithout(k), k)
           kept  == IF Len(order) > MaxCached THEN Tail(order) ELSE order
           InCache == DOMAIN dashCache \cup {k}
<1>1. PICK s \in Seq(DOMAIN dashCache) : s = DashOrderWithout(k) /\ Len(s) <= Len(dashOrder)
  BY DashOrderTyped
<1>2. Len(dashOrder) <= MaxCached /\ dashOrder \in Seq(Repeaters) /\ InCache \subseteq Repeaters
  BY DashOrderTyped DEF DashInv, DashTypeOK, DashTyped
<1>3. order = Append(s, k)
  BY <1>1
<1>4. dashOrder' = kept /\ dashCache' = [j \in {kept[i] : i \in DOMAIN kept} |-> IF j = k THEN CachedState(k) ELSE Saved[j]]
  BY DEF CacheState
<1>5. s \in Seq(InCache)
  BY <1>1
<1> HIDE DEF order, InCache
<1>6. order \in Seq(InCache) /\ Len(order) = Len(s) + 1
  <2>1. k \in InCache
    BY DEF InCache
  <2> QED
    BY <1>3, <1>5, <2>1
<1>7. kept \in Seq(InCache) /\ Len(kept) <= MaxCached
  BY <1>1, <1>2, <1>6, DashAssumption
<1> HIDE DEF kept
<1>8. kept \in Seq(Repeaters) /\ {kept[i] : i \in DOMAIN kept} \subseteq InCache
  BY <1>2, <1>7
<1>9. \A j \in InCache : (IF j = k THEN CachedState(k) ELSE Saved[j]) \in DashEntries
  BY CachedTyped, EntriesSaved DEF InCache
<1> QED
  BY <1>4, <1>7, <1>8, <1>9

(* What a step within the mounted dashboard has to establish.               *)

Passwords == [Repeaters -> [memory : BOOLEAN, disk : BOOLEAN]]

LEMMA DashHolds ==
    ASSUME DashInv, UNCHANGED <<shownRepeater, mount, dashCache, dashOrder>>, dash' \in DashStates,
           remembered' \in Passwords, DashWorkSound', NoOrphanLoading'
    PROVE  DashInv'
<1>1. DashTypeOK'
  BY DEF DashInv, DashTypeOK, DashStates, Passwords
<1>2. DashTyped'
  BY DEF DashInv, DashTyped
<1> QED
  BY <1>1, <1>2 DEF DashInv

DashSound(t) ==
    /\ t \in DashWork /\ (t.kind = "load" => t.todo # <<>>)
    /\ t.kind = "pane" => t.pane \in PaneNames /\ (t.waiting => t.attempt < MaxRetries)

\* A step that only starts work: what it shows as loading is what it starts.
LEMMA DashAdds ==
    ASSUME DashInv, UNCHANGED <<shownRepeater, mount, dashCache, dashOrder>>, dash' \in DashStates,
           remembered' \in Passwords, dashTasks \subseteq dashTasks',
           \A t \in dashTasks' \ dashTasks : DashSound(t),
           \A p \in PaneNames : dash'.panes[p].loading =>
              dash.panes[p].loading \/ \E t \in dashTasks' : Heard(t) /\ t.kind = "pane" /\ t.pane = p,
           dash'.loginLoading => dash.loginLoading \/ \E t \in dashTasks' : Heard(t) /\ t.kind = "login",
           dash'.consoleLoading => dash.consoleLoading \/ \E t \in dashTasks' : Heard(t) /\ t.kind = "command"
    PROVE  DashInv'
<1>1. \A t : Heard(t)' <=> Heard(t)
  BY DEF Heard
<1>2. DashWorkSound'
  BY DEF DashInv, DashWorkSound, DashSound
<1>3. NoOrphanLoading'
  BY <1>1 DEF DashInv, NoOrphanLoading
<1> QED
  BY <1>2, <1>3, DashHolds

\* A step of a task t, which may be over: what it is heard for stops loading,
\* unless work that goes on is heard for it.
LEMMA DashMoves ==
    ASSUME DashInv, NEW t \in dashTasks, UNCHANGED <<shownRepeater, mount, dashCache, dashOrder>>,
           dash' \in DashStates, remembered' \in Passwords, dashTasks \ {t} \subseteq dashTasks',
           \A u \in dashTasks' \ dashTasks : DashSound(u),
           \A p \in PaneNames : shownRepeater # NoServer /\ dash'.panes[p].loading =>
              \/ dash.panes[p].loading /\ ~(Heard(t) /\ t.kind = "pane" /\ t.pane = p)
              \/ \E u \in dashTasks' : Heard(u) /\ u.kind = "pane" /\ u.pane = p,
           dash'.loginLoading => dash.loginLoading /\ ~(Heard(t) /\ t.kind = "login"),
           dash'.consoleLoading => dash.consoleLoading /\ ~(Heard(t) /\ t.kind = "command")
    PROVE  DashInv'
<1>1. \A u : Heard(u)' <=> Heard(u)
  BY DEF Heard
<1>2. DashWorkSound'
  BY DEF DashInv, DashWorkSound, DashSound
<1>3. \A p \in PaneNames : shownRepeater # NoServer /\ dash'.panes[p].loading =>
         \E u \in dashTasks' : Heard(u) /\ u.kind = "pane" /\ u.pane = p
  BY DEF DashInv, NoOrphanLoading
<1>4. shownRepeater # NoServer /\ dash'.loginLoading => \E u \in dashTasks' : Heard(u) /\ u.kind = "login"
  BY DEF DashInv, NoOrphanLoading
<1>5. shownRepeater # NoServer /\ dash'.consoleLoading => \E u \in dashTasks' : Heard(u) /\ u.kind = "command"
  BY DEF DashInv, NoOrphanLoading
<1>6. NoOrphanLoading'
  BY <1>1, <1>3, <1>4, <1>5 DEF NoOrphanLoading
<1> QED
  BY <1>2, <1>6, DashHolds

(* Tasks and attempts.                                                      *)

\* What a task starts from, before its dashboard is known to be mounted.
RawTasks == [kind : {"login", "load", "pane", "history", "command"}, mount : Nat, key : Repeaters \cup {NoServer},
             pane : PaneNames \cup {""}, attempt : 0..MaxRetries, waiting : BOOLEAN, prefetch : BOOLEAN,
             todo : Seq(PaneNames), password : BOOLEAN, remember : BOOLEAN]

LEMMA TaskShape ==
    ASSUME DashInv, NEW kind \in {"login", "command", "pane", "history"}
    PROVE  /\ Task(kind) \in RawTasks /\ Task(kind).kind = kind /\ Task(kind).mount = mount
           /\ Task(kind).key = shownRepeater /\ Task(kind).waiting = FALSE
<1>1. shownRepeater \in Repeaters \cup {NoServer} /\ mount \in Nat
  BY DashAssumption DEF DashInv, DashTypeOK
<1>2. <<>> \in Seq(PaneNames) /\ 0 \in 0..MaxRetries
  BY DashAssumption
<1> QED
  BY <1>1, <1>2 DEF Task, RawTasks

LEMMA TaskTyped ==
    ASSUME DashInv, shownRepeater # NoServer, NEW kind \in {"login", "command", "pane"}
    PROVE  /\ Task(kind) \in DashWork /\ Task(kind).kind = kind /\ Task(kind).mount = mount
           /\ Task(kind).waiting = FALSE
           /\ Heard(Task(kind))
<1>1. shownRepeater \in Repeaters
  BY DEF DashInv, DashTypeOK
<1>2. Task(kind) \in RawTasks /\ Task(kind).key = shownRepeater
  BY TaskShape
<1>3. Task(kind) \in DashWork
  BY <1>1, <1>2 DEF RawTasks, DashWork
<1> QED
  BY <1>3, TaskShape DEF Heard

LEMMA HistoryTyped ==
    ASSUME DashInv, NEW m \in Nat, NEW k \in Repeaters
    PROVE  DashSound(HistoryTask(m, k))
<1>1. PICK s \in RawTasks : s = Task("history") /\ s.kind = "history"
  BY TaskShape
<1>2. HistoryTask(m, k) = [s EXCEPT !.mount = m, !.key = k]
  BY <1>1 DEF HistoryTask
<1> QED
  BY <1>1, <1>2 DEF RawTasks, DashWork, DashSound

\* A login that the command palette starts, with the load that follows it.
LEMMA PaletteTyped ==
    ASSUME DashInv, NEW m \in Nat, NEW k \in Repeaters
    PROVE  LET t == [Task("login") EXCEPT !.mount = m, !.key = k, !.todo = PaneOrder]
           IN  DashSound(t) /\ t.kind = "login" /\ t.mount = m
<1>1. PICK s \in RawTasks : s = Task("login") /\ s.kind = "login"
  BY TaskShape
<1>2. PaneOrder \in Seq(PaneNames)
  BY DashAssumption
<1>3. PICK t : t = [s EXCEPT !.mount = m, !.key = k, !.todo = PaneOrder]
  OBVIOUS
<1>4. t \in DashWork /\ t.kind = "login" /\ t.mount = m
  BY <1>1, <1>2, <1>3 DEF RawTasks, DashWork
<1> QED
  BY <1>1, <1>3, <1>4 DEF DashSound

\* The attempt that begins with the first of the panes left.
LEMMA BegunSound ==
    ASSUME NEW t \in DashWork, t.todo # <<>>, NEW panes
    PROVE  /\ DashSound(Begun(t, panes)) /\ Begun(t, panes).kind = "pane"
           /\ Begun(t, panes).mount = t.mount /\ Begun(t, panes).pane \in PaneNames
<1>1. t.todo \in Seq(PaneNames) /\ Head(t.todo) \in PaneNames /\ Tail(t.todo) \in Seq(PaneNames)
  <2>1. PICK s \in Seq(PaneNames) : s = t.todo
    BY DEF DashWork
  <2>2. Head(s) \in PaneNames /\ Tail(s) \in Seq(PaneNames)
    BY <2>1, HeadTailProperties
  <2> QED
    BY <2>1, <2>2
<1>2. 1 \in 0..MaxRetries
  BY DashAssumption
<1>3. PICK off \in BOOLEAN : off = FALSE
  OBVIOUS
<1>4. PICK on \in BOOLEAN : on = TRUE
  OBVIOUS
<1>5. PICK b : b = Begun(t, panes)
  OBVIOUS
<1>6. \E p \in PaneNames, pre \in BOOLEAN, todo \in Seq(PaneNames) :
        b = [t EXCEPT !.kind = "pane", !.pane = p, !.attempt = 1, !.waiting = off, !.prefetch = pre, !.todo = todo]
  <2>1. CASE ~t.prefetch /\ NeedsNodeInfo(panes, Head(t.todo))
    <3>1. b = [t EXCEPT !.kind = "pane", !.pane = "nodeInfo", !.attempt = 1, !.waiting = off, !.prefetch = on]
      BY <1>3, <1>4, <1>5, <2>1 DEF Begun
    <3>2. b = [t EXCEPT !.kind = "pane", !.pane = "nodeInfo", !.attempt = 1, !.waiting = off, !.prefetch = on,
                        !.todo = t.todo]
      BY <3>1 DEF DashWork
    <3>3. "nodeInfo" \in PaneNames
      BY <2>1 DEF NeedsNodeInfo
    <3> QED
      BY <1>1, <3>2, <3>3
  <2>2. CASE ~(~t.prefetch /\ NeedsNodeInfo(panes, Head(t.todo)))
    <3>1. b = [t EXCEPT !.kind = "pane", !.pane = Head(t.todo), !.attempt = 1, !.waiting = off,
                        !.prefetch = off, !.todo = Tail(t.todo)]
      BY <1>3, <1>5, <2>2 DEF Begun
    <3> QED
      BY <1>1, <3>1
  <2> QED
    BY <2>1, <2>2
<1>7. PICK p \in PaneNames, pre \in BOOLEAN, todo \in Seq(PaneNames) :
        b = [t EXCEPT !.kind = "pane", !.pane = p, !.attempt = 1, !.waiting = off, !.prefetch = pre, !.todo = todo]
  BY <1>6
<1>8. b \in DashWork /\ b.kind = "pane" /\ b.pane = p /\ b.waiting = off /\ b.mount = t.mount
  BY <1>2, <1>7 DEF DashWork
<1> QED
  BY <1>3, <1>5, <1>8 DEF DashSound

\* An attempt makes its pane load, and no other.
LEMMA AttemptKeeps ==
    ASSUME NEW d \in DashStates, NEW p \in PaneNames, NEW n \in 0..MaxRetries, NEW e, NEW panes,
           panes = [d.panes EXCEPT ![p] = Trying(d.panes[p], n)],
           e = [d EXCEPT !.panes = panes]
    PROVE  /\ e \in DashStates /\ e.loginLoading = d.loginLoading /\ e.consoleLoading = d.consoleLoading
           /\ \A q \in PaneNames : e.panes[q].loading => q = p \/ d.panes[q].loading
<1>1. d.panes \in [PaneNames -> PaneState]
  BY DEF DashStates
<1>2. PICK on \in BOOLEAN : on = TRUE
  OBVIOUS
<1>3. PICK off \in BOOLEAN : off = FALSE
  OBVIOUS
<1>4. PICK one : one = [d.panes[p] EXCEPT !.loading = on, !.attempt = n, !.error = off]
  OBVIOUS
<1>5. one \in PaneState
  BY <1>1, <1>2, <1>3, <1>4 DEF PaneState
<1>6. panes = [d.panes EXCEPT ![p] = one]
  BY <1>2, <1>3, <1>4 DEF Trying
<1>7. panes \in [PaneNames -> PaneState] /\ \A q \in PaneNames : q # p => panes[q] = d.panes[q]
  BY <1>1, <1>5, <1>6
<1>8. e \in DashStates /\ e.panes = panes /\ e.loginLoading = d.loginLoading /\ e.consoleLoading = d.consoleLoading
  BY <1>7 DEF DashStates
<1> QED
  BY <1>7, <1>8

(* The steps.                                                               *)

LEMMA MountedTyped ==
    ASSUME DashInv, NEW k \in Repeaters
    PROVE  /\ Mounted(k) \in DashStates /\ ~Mounted(k).loginLoading /\ ~Mounted(k).consoleLoading
           /\ \A p \in PaneNames : ~Mounted(k).panes[p].loading
<1>1. PICK c \in DashEntries : c = CachedState(k) /\ \A p \in PaneNames : ~c.panes[p].loading
  BY CachedTyped
<1>2. PICK l : l = LoadInitialPassword(k)
  OBVIOUS
<1>3. l.password \in BOOLEAN /\ l.remember \in BOOLEAN
  <2>1. remembered[k] \in [memory : BOOLEAN, disk : BOOLEAN]
    BY DEF DashInv, DashTypeOK
  <2> QED
    BY <1>2, <2>1 DEF LoadInitialPassword
<1>4. PICK off \in BOOLEAN : off = FALSE
  OBVIOUS
<1>5. PICK src : src = IF "status" \in PaneNames /\ c.panes["status"].fetched THEN "live" ELSE "none"
  OBVIOUS
<1>6. src \in {"none", "live"}
  BY <1>5
<1>7. PICK d : d = Mounted(k)
  OBVIOUS
<1>8. d = [loggedIn |-> c.loggedIn, attempt |-> c.attempt, panes |-> c.panes,
           console |-> c.console, loginLoading |-> off, consoleLoading |-> off, confirmReboot |-> off,
           password |-> l.password, remember |-> l.remember, source |-> src]
  BY <1>1, <1>2, <1>4, <1>5, <1>7 DEF Mounted
<1>9. /\ c.loggedIn \in BOOLEAN /\ c.attempt \in LoginOutcomes \cup {"none"}
      /\ c.panes \in [PaneNames -> PaneState] /\ c.console \in Nat
  BY DEF DashEntries
<1>10. d \in DashStates /\ d.panes = c.panes /\ d.loginLoading = off /\ d.consoleLoading = off
  BY <1>3, <1>6, <1>8, <1>9 DEF DashStates
<1> QED
  BY <1>1, <1>4, <1>7, <1>10

LEMMA DashboardOpened ==
    ASSUME DashInv, NEW k \in Repeaters, NEW auto \in BOOLEAN, OpenDashboard(k, auto)
    PROVE  DashInv'
<1>1. /\ shownRepeater' = k /\ mount' = mount + 1 /\ mount < MaxMounts /\ CacheState(k) /\ remembered' = remembered
      /\ dash' = [Mounted(k) EXCEPT !.loginLoading = auto]
  BY DEF OpenDashboard
<1>2. mount \in Nat /\ mount + 1 \in Nat /\ mount + 1 \in 0..MaxMounts
  BY <1>1, DashAssumption DEF DashInv, DashTypeOK
<1>3. PICK d \in DashStates : d = Mounted(k) /\ ~d.consoleLoading /\ \A p \in PaneNames : ~d.panes[p].loading
  BY MountedTyped
<1>4. dash' \in DashStates /\ dash'.loginLoading = auto /\ ~dash'.consoleLoading /\ dash'.panes = d.panes
  BY <1>1, <1>3 DEF DashStates
<1>5. PICK login : login = [Task("login") EXCEPT !.mount = mount + 1, !.key = k, !.todo = PaneOrder]
  OBVIOUS
<1>6. DashSound(login) /\ login.kind = "login" /\ login.mount = mount + 1
  BY <1>2, <1>5, PaletteTyped
<1>7. DashSound(HistoryTask(mount + 1, k))
  BY <1>2, HistoryTyped
<1>8. /\ dashTasks' \subseteq dashTasks \cup {HistoryTask(mount + 1, k), login}
      /\ auto => login \in dashTasks'
  BY <1>5 DEF OpenDashboard
<1>9. DashWorkSound'
  BY <1>6, <1>7, <1>8 DEF DashInv, DashWorkSound, DashSound
<1>10. auto => Heard(login)'
  BY <1>1, <1>6, DashAssumption DEF Heard
<1>11. NoOrphanLoading'
  BY <1>3, <1>4, <1>6, <1>8, <1>10 DEF NoOrphanLoading
<1>12. /\ dashOrder' \in Seq(Repeaters) /\ Len(dashOrder') <= MaxCached
       /\ DOMAIN dashCache' = {dashOrder'[i] : i \in DOMAIN dashOrder'}
       /\ dashCache' \in [DOMAIN dashCache' -> DashEntries]
  BY <1>1, DashCached
<1>13. DashTypeOK'
  BY <1>1, <1>2, <1>4, <1>12 DEF DashInv, DashTypeOK, DashStates
<1> QED
  BY <1>4, <1>9, <1>11, <1>12, <1>13 DEF DashInv, DashTyped

LEMMA DashboardClosed ==
    ASSUME DashInv, CloseDashboard
    PROVE  DashInv'
<1>1. /\ dashCache' = Saved /\ shownRepeater' = NoServer /\ dash' = Unmounted
      /\ UNCHANGED <<dashOrder, mount, remembered, dashTasks>>
  BY DEF CloseDashboard
<1>2. dash' \in DashStates
  BY <1>1, InitialTyped DEF Unmounted, DashStates
<1>3. dashCache' \in [DOMAIN dashCache' -> DashEntries] /\ DOMAIN dashCache' = DOMAIN dashCache
  BY <1>1, EntriesSaved
<1>4. NoOrphanLoading'
  BY <1>1 DEF NoOrphanLoading
<1>5. DashWorkSound'
  BY <1>1 DEF DashInv, DashWorkSound
<1>6. DashTypeOK'
  BY <1>1, <1>2, <1>3 DEF DashInv, DashTypeOK, DashStates
<1> QED
  BY <1>1, <1>2, <1>3, <1>4, <1>5, <1>6 DEF DashInv, DashTyped

\* The pane of a task ends: it loads no more, the next one does.
LEMMA PaneDone ==
    ASSUME DashInv, NEW t \in dashTasks, t.kind = "pane", Heard(t),
           NEW panes \in [PaneNames -> PaneState], ~panes[t.pane].loading,
           \A q \in PaneNames : q # t.pane => panes[q].loading = dash.panes[q].loading,
           NEW source \in {"none", "preload", "live"}, PaneEnds(t, panes, source),
           UNCHANGED <<shownRepeater, mount, dashCache, dashOrder, remembered>>
    PROVE  DashInv'
<1>1. t \in DashWork /\ dash \in DashStates /\ remembered' \in Passwords
  BY DEF DashInv, DashWorkSound, DashTyped, DashTypeOK, Passwords
<1>2. PICK done : done = [dash EXCEPT !.panes = panes, !.source = source]
  OBVIOUS
<1>3. /\ done \in DashStates /\ done.panes = panes
      /\ done.loginLoading = dash.loginLoading /\ done.consoleLoading = dash.consoleLoading
  BY <1>1, <1>2 DEF DashStates
<1>4. CASE t.todo = <<>>
  <2>1. dashTasks' = dashTasks \ {t} /\ dash' = done
    BY <1>2, <1>4 DEF PaneEnds
  <2>2. \A p \in PaneNames : dash'.panes[p].loading => dash.panes[p].loading /\ ~(Heard(t) /\ t.kind = "pane" /\ t.pane = p)
    BY <1>3, <2>1
  <2> QED
    BY <1>1, <1>3, <2>1, <2>2, DashMoves
<1>5. CASE t.todo # <<>>
  <2>1. PICK b : b = Begun(t, panes)
    OBVIOUS
  <2>2. DashSound(b) /\ b.kind = "pane" /\ b.mount = t.mount /\ b.pane \in PaneNames
    BY <1>1, <1>5, <2>1, BegunSound
  <2>3. PICK next : next = [panes EXCEPT ![b.pane] = Trying(panes[b.pane], 1)]
    OBVIOUS
  <2>4. dashTasks' = (dashTasks \ {t}) \cup {b} /\ dash' = [done EXCEPT !.panes = next]
    BY <1>2, <1>3, <1>5, <2>1, <2>3 DEF PaneEnds
  <2>5. MaxRetries \in Nat \ {0}
    BY DashAssumption
  <2>6. 1 \in 0..MaxRetries
    BY <2>5
  <2>7. /\ dash' \in DashStates /\ dash'.loginLoading = done.loginLoading /\ dash'.consoleLoading = done.consoleLoading
        /\ \A q \in PaneNames : dash'.panes[q].loading => q = b.pane \/ done.panes[q].loading
    BY <1>3, <2>2, <2>3, <2>4, <2>6, AttemptKeeps
  <2>8. Heard(b)
    BY <2>2 DEF Heard
  <2>9. \A p \in PaneNames : dash'.panes[p].loading =>
           \/ dash.panes[p].loading /\ ~(Heard(t) /\ t.kind = "pane" /\ t.pane = p)
           \/ \E u \in dashTasks' : Heard(u) /\ u.kind = "pane" /\ u.pane = p
    BY <1>3, <2>2, <2>4, <2>7, <2>8
  <2> QED
    BY <1>1, <1>3, <2>2, <2>4, <2>7, <2>9, DashMoves
<1> QED
  BY <1>4, <1>5

LEMMA PaneAnswered ==
    ASSUME DashInv, NEW t \in dashTasks, NEW result, PaneReturns(t, result)
    PROVE  DashInv'
<1>1. /\ t.kind = "pane" /\ ~t.waiting /\ UNCHANGED <<shownRepeater, mount, dashCache, dashOrder, remembered>>
  BY DEF PaneReturns
<1>2. /\ t \in DashWork /\ t.pane \in PaneNames /\ dash \in DashStates /\ remembered' \in Passwords
      /\ dash.panes \in [PaneNames -> PaneState] /\ t.attempt \in 0..MaxRetries
  BY <1>1 DEF DashInv, DashWorkSound, DashTyped, DashTypeOK, Passwords, DashWork
<1>3. PICK on \in BOOLEAN : on = TRUE
  OBVIOUS
<1>4. PICK off \in BOOLEAN : off = FALSE
  OBVIOUS
<1>5. CASE ~Heard(t)
  <2>1. dashTasks' = dashTasks \ {t} /\ dash' = dash
    BY <1>5 DEF PaneReturns
  <2> QED
    BY <1>1, <1>2, <1>5, <2>1, DashMoves
<1>6. CASE Heard(t) /\ result = "ok"
  <2>1. PICK one : one = [loading |-> off, attempt |-> t.attempt, error |-> off, fetched |-> on]
    OBVIOUS
  <2>2. one \in PaneState /\ ~one.loading
    BY <1>2, <1>4, <2>1 DEF PaneState
  <2>3. PICK panes : panes = [dash.panes EXCEPT ![t.pane] = one]
    OBVIOUS
  <2>4. /\ panes \in [PaneNames -> PaneState] /\ ~panes[t.pane].loading
        /\ \A q \in PaneNames : q # t.pane => panes[q].loading = dash.panes[q].loading
    BY <1>2, <2>2, <2>3
  <2>5. PICK source : source = IF t.pane = "status" THEN "live" ELSE dash.source
    OBVIOUS
  <2>6. source \in {"none", "preload", "live"}
    BY <1>2, <2>5 DEF DashStates
  <2>7. PaneEnds(t, panes, source)
    BY <1>3, <1>4, <1>6, <2>1, <2>3, <2>5 DEF PaneReturns
  <2> QED
    BY <1>1, <1>6, <2>4, <2>6, <2>7, PaneDone
<1>7. CASE Heard(t) /\ result # "ok" /\ (result = "4xx" \/ t.attempt = MaxRetries)
  <2>1. PICK one : one = [dash.panes[t.pane] EXCEPT !.loading = off, !.attempt = t.attempt, !.error = on]
    OBVIOUS
  <2>2. one \in PaneState /\ ~one.loading
    BY <1>2, <1>4, <2>1 DEF PaneState
  <2>3. PICK panes : panes = [dash.panes EXCEPT ![t.pane] = one]
    OBVIOUS
  <2>4. /\ panes \in [PaneNames -> PaneState] /\ ~panes[t.pane].loading
        /\ \A q \in PaneNames : q # t.pane => panes[q].loading = dash.panes[q].loading
    BY <1>2, <2>2, <2>3
  <2>5. dash.source \in {"none", "preload", "live"}
    BY <1>2 DEF DashStates
  <2>6. PaneEnds(t, panes, dash.source)
    BY <1>3, <1>4, <1>7, <2>1, <2>3 DEF PaneReturns
  <2> QED
    BY <1>1, <1>7, <2>4, <2>5, <2>6, PaneDone
<1>8. CASE Heard(t) /\ result # "ok" /\ ~(result = "4xx" \/ t.attempt = MaxRetries)
  <2>1. PICK u : u = [t EXCEPT !.waiting = on]
    OBVIOUS
  <2>2. dashTasks' = (dashTasks \ {t}) \cup {u} /\ dash' = dash
    BY <1>3, <1>8, <2>1 DEF PaneReturns
  <2>3. u \in DashWork /\ u.kind = "pane" /\ u.pane = t.pane /\ u.mount = t.mount /\ u.attempt = t.attempt
    BY <1>1, <1>2, <2>1 DEF DashWork
  <2>4. MaxRetries \in Nat
    BY DashAssumption
  <2>5. t.attempt < MaxRetries
    BY <1>2, <1>8, <2>4
  <2>6. DashSound(u) /\ Heard(u)
    BY <1>2, <1>8, <2>3, <2>5 DEF DashSound, Heard
  <2>7. \A p \in PaneNames : dash'.panes[p].loading =>
           \/ dash.panes[p].loading /\ ~(Heard(t) /\ t.kind = "pane" /\ t.pane = p)
           \/ \E v \in dashTasks' : Heard(v) /\ v.kind = "pane" /\ v.pane = p
    BY <2>2, <2>3, <2>6
  <2> QED
    BY <1>1, <1>2, <2>2, <2>6, <2>7, DashMoves
<1> QED
  BY <1>5, <1>6, <1>7, <1>8

\* The next attempt of a pane, while the dashboard is there.
LEMMA RetryStep ==
    ASSUME DashInv, NEW t \in dashTasks, RetryTimer(t)
    PROVE  DashInv'
<1>1. t.kind = "pane" /\ t.waiting /\ UNCHANGED <<shownRepeater, mount, dashCache, dashOrder, remembered>>
  BY DEF RetryTimer
<1>2. /\ t \in DashWork /\ t.pane \in PaneNames /\ t.attempt < MaxRetries /\ dash \in DashStates
      /\ remembered' \in Passwords
  BY <1>1 DEF DashInv, DashWorkSound, DashTyped, DashTypeOK, Passwords
<1>3. CASE ~Heard(t)
  <2>1. dashTasks' = dashTasks \ {t} /\ dash' = dash
    BY <1>3 DEF RetryTimer
  <2> QED
    BY <1>1, <1>2, <1>3, <2>1, DashMoves
<1>4. CASE Heard(t)
  <2>1. MaxRetries \in Nat /\ t.attempt \in 0..MaxRetries
    BY <1>2, DashAssumption DEF DashWork
  <2>2. PICK n \in 0..MaxRetries : n = t.attempt + 1
    BY <1>2, <2>1
  <2>3. PICK off \in BOOLEAN : off = FALSE
    OBVIOUS
  <2>4. PICK u : u = [t EXCEPT !.waiting = off, !.attempt = n]
    OBVIOUS
  <2>5. u \in DashWork /\ u.kind = "pane" /\ u.pane = t.pane /\ u.mount = t.mount /\ ~u.waiting
    BY <1>1, <1>2, <2>3, <2>4 DEF DashWork
  <2>6. PICK panes : panes = [dash.panes EXCEPT ![t.pane] = Trying(dash.panes[t.pane], n)]
    OBVIOUS
  <2>7. dashTasks' = (dashTasks \ {t}) \cup {u}
    BY <1>4, <2>2, <2>3, <2>4 DEF RetryTimer
  <2>8. dash' = [dash EXCEPT !.panes = panes]
    BY <1>4, <2>2, <2>6 DEF RetryTimer, Attempting
  <2>9. /\ dash' \in DashStates /\ dash'.loginLoading = dash.loginLoading /\ dash'.consoleLoading = dash.consoleLoading
        /\ \A q \in PaneNames : dash'.panes[q].loading => q = t.pane \/ dash.panes[q].loading
    BY <1>2, <2>6, <2>8, AttemptKeeps
  <2>10. DashSound(u) /\ Heard(u)
    BY <1>2, <1>4, <2>5 DEF DashSound, Heard
  <2>11. \A p \in PaneNames : dash'.panes[p].loading =>
           \/ dash.panes[p].loading /\ ~(Heard(t) /\ t.kind = "pane" /\ t.pane = p)
           \/ \E v \in dashTasks' : Heard(v) /\ v.kind = "pane" /\ v.pane = p
    BY <2>5, <2>7, <2>9, <2>10
  <2> QED
    BY <1>1, <1>2, <2>7, <2>9, <2>10, <2>11, DashMoves
<1> QED
  BY <1>3, <1>4

LEMMA LoadStep ==
    ASSUME DashInv, NEW t \in dashTasks, LoadBegins(t)
    PROVE  DashInv'
<1>1. t.kind = "load" /\ UNCHANGED <<shownRepeater, mount, dashCache, dashOrder, remembered>>
  BY DEF LoadBegins
<1>2. t \in DashWork /\ t.todo # <<>> /\ dash \in DashStates /\ remembered' \in Passwords
  BY <1>1 DEF DashInv, DashWorkSound, DashTyped, DashTypeOK, Passwords
<1>3. CASE ~Heard(t)
  <2>1. dashTasks' = dashTasks \ {t} /\ dash' = dash
    BY <1>3 DEF LoadBegins
  <2> QED
    BY <1>1, <1>2, <1>3, <2>1, DashMoves
<1>4. CASE Heard(t)
  <2>1. PICK b : b = Begun(t, dash.panes)
    OBVIOUS
  <2>2. DashSound(b) /\ b.kind = "pane" /\ b.mount = t.mount /\ b.pane \in PaneNames
    BY <1>2, <2>1, BegunSound
  <2>3. PICK panes : panes = [dash.panes EXCEPT ![b.pane] = Trying(dash.panes[b.pane], 1)]
    OBVIOUS
  <2>4. dashTasks' = (dashTasks \ {t}) \cup {b} /\ dash' = [dash EXCEPT !.panes = panes]
    BY <1>4, <2>1, <2>3 DEF LoadBegins, Attempting
  <2>5. MaxRetries \in Nat \ {0}
    BY DashAssumption
  <2>6. 1 \in 0..MaxRetries
    BY <2>5
  <2>7. /\ dash' \in DashStates /\ dash'.loginLoading = dash.loginLoading /\ dash'.consoleLoading = dash.consoleLoading
        /\ \A q \in PaneNames : dash'.panes[q].loading => q = b.pane \/ dash.panes[q].loading
    BY <1>2, <2>2, <2>3, <2>4, <2>6, AttemptKeeps
  <2>8. Heard(b)
    BY <1>4, <2>2 DEF Heard
  <2>9. \A p \in PaneNames : dash'.panes[p].loading =>
           \/ dash.panes[p].loading /\ ~(Heard(t) /\ t.kind = "pane" /\ t.pane = p)
           \/ \E v \in dashTasks' : Heard(v) /\ v.kind = "pane" /\ v.pane = p
    BY <1>1, <2>2, <2>4, <2>7, <2>8
  <2> QED
    BY <1>1, <1>2, <2>2, <2>4, <2>7, <2>9, DashMoves
<1> QED
  BY <1>3, <1>4

\* A refresh, or Load All.
LEMMA RefreshStep ==
    ASSUME DashInv, NEW p \in PaneNames \cup {"all"}, RefreshPane(p)
    PROVE  DashInv'
<1>1. /\ shownRepeater # NoServer /\ UNCHANGED <<shownRepeater, mount, dashCache, dashOrder, remembered>>
      /\ dash \in DashStates /\ remembered' \in Passwords
  BY DEF RefreshPane, DashUser, DashInv, DashTyped, DashTypeOK, Passwords
<1>2. PICK todo : todo = IF p = "all" THEN PaneOrder ELSE <<p>>
  OBVIOUS
<1>3. todo \in Seq(PaneNames) /\ todo # <<>>
  <2>1. CASE p = "all"
    BY <1>2, <2>1, DashAssumption
  <2>2. CASE p # "all"
    <3>1. todo = <<p>> /\ p \in PaneNames
      BY <1>2, <2>2
    <3>2. todo \in Seq(PaneNames) /\ Len(todo) = 1
      BY <3>1
    <3> QED
      BY <3>2
  <2> QED
    BY <2>1, <2>2
<1>4. PICK s \in DashWork : s = Task("pane") /\ s.mount = mount
  BY <1>1, TaskTyped
<1>5. PICK w : w = [s EXCEPT !.todo = todo]
  OBVIOUS
<1>6. w \in DashWork /\ w.todo = todo /\ w.mount = mount
  BY <1>3, <1>4, <1>5 DEF DashWork
<1>7. PICK t : t = Begun(w, dash.panes)
  OBVIOUS
<1>8. DashSound(t) /\ t.kind = "pane" /\ t.mount = mount /\ t.pane \in PaneNames
  BY <1>3, <1>6, <1>7, BegunSound
<1>9. dashTasks' = dashTasks \cup {t} /\ dash' = Attempting(t.pane, 1)
  BY <1>2, <1>4, <1>5, <1>7 DEF RefreshPane
<1>10. PICK panes : panes = [dash.panes EXCEPT ![t.pane] = Trying(dash.panes[t.pane], 1)]
  OBVIOUS
<1>11. dash' = [dash EXCEPT !.panes = panes]
  BY <1>9, <1>10 DEF Attempting
<1>12. MaxRetries \in Nat \ {0}
  BY DashAssumption
<1>13. 1 \in 0..MaxRetries
  BY <1>12
<1>14. /\ dash' \in DashStates /\ dash'.loginLoading = dash.loginLoading /\ dash'.consoleLoading = dash.consoleLoading
       /\ \A q \in PaneNames : dash'.panes[q].loading => q = t.pane \/ dash.panes[q].loading
  BY <1>1, <1>8, <1>10, <1>11, <1>13, AttemptKeeps
<1>15. Heard(t)
  BY <1>1, <1>8 DEF Heard
<1> QED
  BY <1>1, <1>8, <1>9, <1>14, <1>15, DashAdds

LEMMA LoginBegins ==
    ASSUME DashInv, NEW how, Login(how)
    PROVE  DashInv'
<1>1. /\ shownRepeater # NoServer /\ UNCHANGED <<shownRepeater, mount, dashCache, dashOrder, remembered>>
      /\ dash \in DashStates /\ remembered' \in Passwords
  BY DEF Login, DashUser, DashInv, DashTyped, DashTypeOK, Passwords
<1>2. PICK s \in DashWork : s = Task("login") /\ s.mount = mount /\ s.kind = "login"
  BY <1>1, TaskTyped
<1>3. PICK p \in BOOLEAN : p = (how = "password" /\ dash.password)
  OBVIOUS
<1>4. PICK t : t = [s EXCEPT !.password = p, !.remember = dash.remember]
  OBVIOUS
<1>5. dashTasks' = dashTasks \cup {t} /\ dash' = [dash EXCEPT !.loginLoading = TRUE]
  BY <1>2, <1>3, <1>4 DEF Login
<1>6. t \in DashWork /\ t.mount = mount /\ t.kind = "login"
  BY <1>1, <1>2, <1>3, <1>4 DEF DashWork, DashStates
<1>7. DashSound(t) /\ Heard(t)
  BY <1>1, <1>6 DEF DashSound, Heard
<1>8. dash' \in DashStates /\ dash'.panes = dash.panes /\ dash'.consoleLoading = dash.consoleLoading
  BY <1>1, <1>5 DEF DashStates
<1> QED
  BY <1>1, <1>5, <1>6, <1>7, <1>8, DashAdds

LEMMA DashLoginAnswered ==
    ASSUME DashInv, NEW t \in dashTasks, NEW o \in LoginOutcomes, LoginReturns(t, o)
    PROVE  DashInv'
<1>1. t.kind = "login" /\ UNCHANGED <<shownRepeater, mount, dashCache, dashOrder>>
  BY DEF LoginReturns
<1>2. t \in DashWork /\ dash \in DashStates /\ remembered \in Passwords /\ mount \in Nat
  BY DashAssumption DEF DashInv, DashWorkSound, DashTyped, DashTypeOK, Passwords
<1>3. t.key \in Repeaters /\ t.remember \in BOOLEAN
  BY <1>2 DEF DashWork
<1>4. remembered' \in Passwords
  BY <1>2, <1>3 DEF LoginReturns, PersistAfterLogin, Passwords
<1>5. DashSound(HistoryTask(mount, t.key))
  BY <1>2, <1>3, HistoryTyped
<1>6. PICK u : u = [t EXCEPT !.kind = "load"]
  OBVIOUS
<1>7. t.todo # <<>> => DashSound(u)
  BY <1>2, <1>6 DEF DashSound, DashWork
<1>8. /\ dashTasks \ {t} \subseteq dashTasks'
      /\ dashTasks' \subseteq dashTasks \cup {HistoryTask(mount, t.key)} \cup (IF t.todo # <<>> THEN {u} ELSE {})
  BY <1>6 DEF LoginReturns
<1>9. \A v \in dashTasks' \ dashTasks : DashSound(v)
  BY <1>5, <1>7, <1>8
<1>10. /\ dash' \in DashStates /\ dash'.panes = dash.panes /\ dash'.consoleLoading = dash.consoleLoading
       /\ dash'.loginLoading => dash.loginLoading /\ ~Heard(t)
  <2>1. CASE Heard(t)
    <3>1. PICK src : src = IF dash.loggedIn THEN dash.source ELSE "none"
      OBVIOUS
    <3>2. dash' = [dash EXCEPT !.loggedIn = TRUE, !.loginLoading = FALSE, !.attempt = o, !.source = src]
      BY <2>1, <3>1 DEF LoginReturns, LoggedIn
    <3>3. src \in {"none", "preload", "live"}
      BY <1>2, <3>1 DEF DashStates
    <3> QED
      BY <1>2, <3>2, <3>3 DEF DashStates
  <2>2. CASE ~Heard(t)
    <3>1. dash' = dash
      BY <2>2 DEF LoginReturns
    <3> QED
      BY <1>2, <2>2, <3>1
  <2> QED
    BY <2>1, <2>2
<1> QED
  BY <1>1, <1>4, <1>8, <1>9, <1>10, DashMoves

LEMMA CommandSent ==
    ASSUME DashInv, NEW c, SendConsoleCommand(c)
    PROVE  DashInv'
<1>1. /\ shownRepeater # NoServer /\ UNCHANGED <<shownRepeater, mount, dashCache, dashOrder, remembered>>
      /\ dash \in DashStates /\ remembered' \in Passwords
  BY DEF SendConsoleCommand, DashUser, DashInv, DashTyped, DashTypeOK, Passwords
<1>2. CASE c = "reboot" /\ ~dash.confirmReboot
  <2>1. dash' = [dash EXCEPT !.confirmReboot = TRUE] /\ dashTasks' = dashTasks
    BY <1>2 DEF SendConsoleCommand
  <2>2. /\ dash' \in DashStates /\ dash'.panes = dash.panes
        /\ dash'.loginLoading = dash.loginLoading /\ dash'.consoleLoading = dash.consoleLoading
    BY <1>1, <2>1 DEF DashStates
  <2> QED
    BY <1>1, <2>1, <2>2, DashAdds
<1>3. CASE ~(c = "reboot" /\ ~dash.confirmReboot)
  <2>1. PICK t : t = Task("command")
    OBVIOUS
  <2>2. t \in DashWork /\ t.kind = "command" /\ Heard(t)
    BY <1>1, <2>1, TaskTyped
  <2>3. PICK b \in BOOLEAN : b = (dash.confirmReboot /\ c # "reboot")
    OBVIOUS
  <2>4. /\ dash' = [dash EXCEPT !.consoleLoading = TRUE, !.console = @ + 1, !.confirmReboot = b]
        /\ dashTasks' = dashTasks \cup {t}
    BY <1>3, <2>1, <2>3 DEF SendConsoleCommand
  <2>5. dash' \in DashStates /\ dash'.panes = dash.panes /\ dash'.loginLoading = dash.loginLoading
    <3>1. PICK on \in BOOLEAN : on = TRUE
      OBVIOUS
    <3>2. dash.console \in Nat
      BY <1>1 DEF DashStates
    <3>3. PICK n \in Nat : n = dash.console + 1
      BY <3>2
    <3>4. dash' = [dash EXCEPT !.consoleLoading = on, !.console = n, !.confirmReboot = b]
      BY <2>4, <3>1, <3>3
    <3> QED
      BY <1>1, <2>3, <3>4 DEF DashStates
  <2>6. DashSound(t)
    BY <2>2 DEF DashSound
  <2> QED
    BY <1>1, <2>2, <2>4, <2>5, <2>6, DashAdds
<1> QED
  BY <1>2, <1>3

LEMMA CommandAnswered ==
    ASSUME DashInv, NEW t \in dashTasks, CommandReturns(t)
    PROVE  DashInv'
<1>1. /\ t.kind = "command" /\ dashTasks' = dashTasks \ {t}
      /\ UNCHANGED <<shownRepeater, mount, dashCache, dashOrder, remembered>>
      /\ dash \in DashStates /\ remembered' \in Passwords
  BY DEF CommandReturns, DashInv, DashTyped, DashTypeOK, Passwords
<1>2. /\ dash' \in DashStates /\ dash'.panes = dash.panes /\ dash'.loginLoading = dash.loginLoading
      /\ dash'.consoleLoading => dash.consoleLoading /\ ~Heard(t)
  <2>1. CASE Heard(t)
    <3>1. dash' = [dash EXCEPT !.consoleLoading = FALSE, !.console = @ + 1]
      BY <2>1 DEF CommandReturns
    <3>2. PICK off \in BOOLEAN : off = FALSE
      OBVIOUS
    <3>3. dash.console \in Nat
      BY <1>1 DEF DashStates
    <3>4. PICK n \in Nat : n = dash.console + 1
      BY <3>3
    <3>5. dash' = [dash EXCEPT !.consoleLoading = off, !.console = n]
      BY <3>1, <3>2, <3>4
    <3> QED
      BY <1>1, <3>2, <3>5 DEF DashStates
  <2>2. CASE ~Heard(t)
    <3>1. dash' = dash
      BY <2>2 DEF CommandReturns
    <3> QED
      BY <1>1, <2>2, <3>1
  <2> QED
    BY <2>1, <2>2
<1> QED
  BY <1>1, <1>2, DashMoves

LEMMA HistoryStep ==
    ASSUME DashInv, NEW t \in dashTasks, HistoryArrives(t)
    PROVE  DashInv'
<1>1. /\ t.kind = "history" /\ dashTasks' = dashTasks \ {t}
      /\ UNCHANGED <<shownRepeater, mount, dashCache, dashOrder, remembered>>
      /\ dash \in DashStates /\ remembered' \in Passwords
  BY DEF HistoryArrives, DashInv, DashTyped, DashTypeOK, Passwords
<1>2. dash' = [dash EXCEPT !.source = "preload"] \/ dash' = dash
  BY DEF HistoryArrives
<1>3. /\ dash' \in DashStates /\ dash'.panes = dash.panes /\ dash'.loginLoading = dash.loginLoading
      /\ dash'.consoleLoading = dash.consoleLoading
  BY <1>1, <1>2 DEF DashStates
<1> QED
  BY <1>1, <1>3, DashMoves

\* The password is typed or forgotten, the question of a reboot expires.
LEMMA DashFormStep ==
    ASSUME DashInv,
           \/ \E typed, remember \in BOOLEAN : TypePassword(typed, remember)
           \/ HandleReenterPassword \/ ConfirmationExpires
    PROVE  DashInv'
<1>1. UNCHANGED <<shownRepeater, mount, dashCache, dashOrder, dashTasks>>
  BY DEF TypePassword, HandleReenterPassword, ConfirmationExpires
<1>2. dash \in DashStates /\ remembered \in Passwords
  BY DEF DashInv, DashTyped, DashTypeOK, Passwords
<1>3. PICK off \in BOOLEAN : off = FALSE
  OBVIOUS
<1>4. \/ \E typed, remember \in BOOLEAN : dash' = [dash EXCEPT !.password = typed, !.remember = remember]
      \/ dash' = [dash EXCEPT !.loggedIn = off, !.attempt = "none", !.password = off, !.remember = off, !.source = "none"]
      \/ dash' = [dash EXCEPT !.confirmReboot = off]
  BY <1>3 DEF TypePassword, HandleReenterPassword, ConfirmationExpires
<1>5. /\ dash' \in DashStates /\ dash'.panes = dash.panes
      /\ dash'.loginLoading = dash.loginLoading /\ dash'.consoleLoading = dash.consoleLoading
  BY <1>2, <1>4 DEF DashStates
<1>6. remembered' \in Passwords
  <2>1. \/ remembered' = remembered
        \/ remembered' = [remembered EXCEPT ![shownRepeater] = [memory |-> off, disk |-> off]]
    BY <1>3 DEF TypePassword, HandleReenterPassword, ConfirmationExpires
  <2> QED
    BY <1>2, <2>1 DEF Passwords
<1> QED
  BY <1>1, <1>5, <1>6, DashAdds

LEMMA DashStep ==
    ASSUME DashInv, [DashNext]_dashVars
    PROVE  DashInv'
<1>1. CASE UNCHANGED dashVars
  <2>1. /\ UNCHANGED <<shownRepeater, mount, dashCache, dashOrder, dash, dashTasks>>
        /\ dash' \in DashStates /\ remembered' \in Passwords
    BY <1>1 DEF dashVars, DashInv, DashTyped, DashTypeOK, Passwords
  <2> QED
    BY <2>1, DashAdds
<1>2. CASE DashNext
  BY <1>2, DashboardOpened, DashboardClosed, DashFormStep, LoginBegins, RefreshStep, CommandSent, DashLoginAnswered,
     PaneAnswered, HistoryStep, LoadStep, RetryStep, CommandAnswered DEF DashNext
<1> QED
  BY <1>1, <1>2

===============================================================================
