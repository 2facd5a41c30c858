---------------------------- MODULE NewConversation ----------------------------
(***************************************************************************)
(* The dialog that adds a contact or channels: NewMessageModal.tsx and the *)
(* handlers of App.tsx that open and close it.  It stays mounted while it  *)
(* is closed, so its form outlives it and the answer of a request comes    *)
(* back to whatever dialog is open by then.                                *)
(***************************************************************************)
EXTENDS Integers, FiniteSets

CONSTANTS
    Names,          \* what may be typed as a name; NoText is nothing
    PlainNames,     \* those of letters, digits and single dashes
    ShortNames,     \* those that fit the radio's 32 bytes
    Lower,          \* a name in lower case, by name
    Pasted,         \* what may be pasted for a bulk add: sets of names
    MaxNewSteps     \* bound on what the user does

ASSUME PastedAssumption == {} \in Pasted /\ \A s \in Pasted : s \subseteq Names

VARIABLES
    newOpen, bulkTab,   \* showNewMessage and showBulkAddChannelTab
    newTab, form, formError,
    newCreating,           \* the buttons are disabled
    creates,            \* requests in flight
    newSteps

newVars == <<newOpen, bulkTab, newTab, form, formError, newCreating, creates, newSteps>>

NoText == "none"
NewTabs == {"new-contact", "new-channel", "hashtag", "bulk-hashtag"}
BlankForm == [name |-> NoText, contactType |-> 1, contactKey |-> FALSE, channelKey |-> FALSE,
              bulk |-> {}, historical |-> FALSE, extended |-> FALSE]

NewInit ==
    /\ newOpen = FALSE /\ bulkTab = FALSE /\ newTab = "new-contact"
    /\ form = BlankForm /\ formError = FALSE
    /\ newCreating = FALSE /\ creates = {} /\ newSteps = 0

NewAct == newSteps < MaxNewSteps /\ newSteps' = newSteps + 1
InDialog == NewAct /\ newOpen /\ UNCHANGED <<newOpen, bulkTab>>

(***************************************************************************)
(* Opening and closing.                                                    *)
(***************************************************************************)
\* handleOpenNewMessage, with the alt key held or not: the bulk tab starts
\* over; otherwise nothing but the tab is set.
OpenNewMessage(alt) ==
    /\ NewAct /\ ~newOpen /\ newOpen' = TRUE /\ bulkTab' = alt
    /\ newTab' = IF alt THEN "bulk-hashtag" ELSE "new-contact"
    /\ form' = IF alt THEN [BlankForm EXCEPT !.contactType = form.contactType] ELSE form
    /\ formError' = (formError /\ ~alt)
    /\ newCreating' = (newCreating /\ ~alt)
    /\ UNCHANGED creates

\* handleChannelReferenceClick for a channel that is not known: its name is
\* filled in, and the buttons are enabled whatever is in flight.
OpenPrefilled(n) ==
    /\ NewAct /\ ~newOpen /\ newOpen' = TRUE /\ bulkTab' = FALSE /\ newTab' = "hashtag"
    /\ form' = [BlankForm EXCEPT !.name = n, !.contactType = form.contactType]
    /\ formError' = FALSE /\ newCreating' = FALSE /\ UNCHANGED creates

\* resetForm.
ResetForm == form' = BlankForm /\ formError' = FALSE

\* onClose.
CloseNew == newOpen' = FALSE /\ bulkTab' = FALSE

\* Cancel, or the dialog is dismissed, whatever is in flight.
MutCancelNew ==
    /\ NewAct /\ newOpen /\ CloseNew
    /\ UNCHANGED <<newTab, form, formError, newCreating, creates>>

CancelNew ==
    /\ NewAct /\ newOpen /\ ResetForm /\ CloseNew
    /\ UNCHANGED <<newTab, newCreating, creates>>

(***************************************************************************)
(* The form.                                                               *)
(***************************************************************************)
ChangeTab(t) ==
    /\ InDialog /\ t # newTab /\ (t = "bulk-hashtag" => bulkTab)
    /\ newTab' = t /\ ResetForm /\ UNCHANGED <<newCreating, creates>>

TabFields(t) ==
    CASE t = "new-contact" -> {"name", "contactKey", "contactType"}
      [] t = "new-channel" -> {"name", "channelKey"}
      [] t = "hashtag"     -> {"name", "extended"}
      [] OTHER             -> {"bulk", "extended"}

ValuesOf(f) ==
    CASE f = "name" -> Names \cup {NoText} [] f = "contactType" -> 1..3 [] f = "bulk" -> Pasted [] OTHER -> BOOLEAN

\* One field of the tab, or the option to decrypt stored packets.
EnterField(f, v) ==
    /\ InDialog /\ f \in TabFields(newTab) \cup {"historical"} /\ form[f] # v
    /\ form' = [form EXCEPT ![f] = v]
    /\ UNCHANGED <<newTab, formError, newCreating, creates>>

(***************************************************************************)
(* Creating.                                                               *)
(***************************************************************************)
\* validateHashtagName.
Valid(n, extended) == n \in Names /\ n \in ShortNames /\ (extended \/ n \in PlainNames)

Normalized(n, extended) == IF extended THEN n ELSE Lower[n]

\* parseBulkHashtagNames: names that are the same once normalised count once.
Parsed(f) == {Normalized(n, f.extended) : n \in {m \in f.bulk : Valid(m, f.extended)}}
Invalid(f) == {n \in f.bulk : ~Valid(n, f.extended)}

\* What the tab's checks ask of the form.
Complete ==
    CASE newTab = "new-contact" -> form.name # NoText /\ form.contactKey
      [] newTab = "new-channel" -> form.name # NoText /\ form.channelKey
      [] newTab = "hashtag"     -> Valid(form.name, form.extended)
      [] OTHER                  -> Parsed(form) # {} /\ Invalid(form) = {}

Wanted ==
    CASE newTab \in {"new-contact", "new-channel"} -> {form.name}
      [] newTab = "hashtag" -> {Normalized(form.name, form.extended)}
      [] OTHER -> Parsed(form)

\* handleCreate, and handleCreateAndAddAnother of the hashtag tab.
HandleCreateNew(again) ==
    /\ InDialog /\ ~newCreating /\ (again => newTab = "hashtag")
    /\ IF Complete
       THEN /\ newCreating' = TRUE /\ formError' = FALSE
            /\ creates' = creates \cup {[id |-> newSteps, again |-> again, names |-> Wanted]}
       ELSE newCreating' = FALSE /\ formError' = TRUE /\ UNCHANGED creates
    /\ UNCHANGED <<newTab, form>>

\* The answer: the dialog that is open now is reset and closed, or its name
\* is cleared, or it shows the error.
NewCreated(c) ==
    /\ c \in creates /\ creates' = creates \ {c} /\ newCreating' = FALSE
    /\ \/ ~c.again /\ ResetForm /\ CloseNew
       \/ c.again /\ form' = [form EXCEPT !.name = NoText] /\ UNCHANGED <<formError, newOpen, bulkTab>>
       \/ formError' = TRUE /\ UNCHANGED <<form, newOpen, bulkTab>>
    /\ UNCHANGED <<newTab, newSteps>>

NewNext ==
    \/ \E alt \in BOOLEAN : OpenNewMessage(alt)
    \/ \E n \in Names : OpenPrefilled(n)
    \/ CancelNew
    \/ \E t \in NewTabs : ChangeTab(t)
    \/ \E f \in DOMAIN BlankForm : \E v \in ValuesOf(f) : EnterField(f, v)
    \/ \E again \in BOOLEAN : HandleCreateNew(again)
    \/ \E c \in creates : NewCreated(c)

(***************************************************************************)
(* Properties.                                                             *)
(***************************************************************************)
NewTypeOK ==
    /\ newTab \in NewTabs /\ {newOpen, bulkTab, newCreating, formError} \subseteq BOOLEAN
    /\ \A f \in DOMAIN BlankForm : form[f] \in ValuesOf(f)
    /\ \A c \in creates : c.names # {} /\ c.again \in BOOLEAN

\* Nothing typed in one dialog is found in the next: a closed dialog's form
\* is blank, whichever way it was closed and whatever answer came after that
\* (NewMessageModal.tsx:121, :169).  Only the error of a request that failed
\* after the dialog was closed is still shown.
ClosedFormIsBlank == ~newOpen => form = BlankForm

\* The buttons are disabled only while a request is in flight
\* (NewMessageModal.tsx:221).
CreatingEnds == newCreating => creates # {}

\* Why they hold: the form is a record of its fields.
NewInv ==
    /\ NewTypeOK /\ DOMAIN form = DOMAIN BlankForm
    /\ ClosedFormIsBlank /\ CreatingEnds
================================================================================
