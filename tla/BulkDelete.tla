------------------------------ MODULE BulkDelete ------------------------------
(***************************************************************************)
(* Deleting many contacts at once: BulkDeleteContactsModal.tsx.  The       *)
(* dialog stays mounted while it is closed, so its states outlive it; the  *)
(* contacts change underneath it as the server announces them; a deletion  *)
(* in flight finishes in whatever dialog is open by then.                  *)
(***************************************************************************)
EXTENDS Integers, FiniteSets

CONSTANTS
    BulkContacts,  \* 1..n, in the order of the client's list, names and keys alike
    TypeOf, FirstSeen, LastSeen, \* by contact; 0 stands for a time that is not known
    Dates,         \* what may be entered as a date
    MaxBulkSteps   \* bound on what the user does and the server announces

ASSUME BulkAssumption == BulkContacts \subseteq Nat \ {0} /\ MaxBulkSteps \in Nat

VARIABLES
    known,         \* the client's contacts
    bulkOpen, bulkStep,
    selectedKeys, lastClickedKey,
    filters,       \* the type shown and the four dates; 0 is none
    sorting,       \* sortField and sortDir
    bulkDeleting,
    deletions,     \* requests in flight, each with what it asks for
    picked,        \* the contacts the user has picked since the dialog was opened
    bulkSteps

dialogVars == <<bulkOpen, bulkStep, selectedKeys, lastClickedKey, filters, sorting, picked>>
bulkVars   == <<dialogVars, known, bulkDeleting, deletions, bulkSteps>>

ContactTypes == 0..4
SortFields == {"name", "type", "key", "first_seen", "last_seen"}
NoFilters == [type |-> 0, createdAfter |-> 0, createdBefore |-> 0, heardAfter |-> 0, heardBefore |-> 0]
FirstSort == [field |-> "first_seen", ascending |-> FALSE]

BulkInit ==
    /\ known = BulkContacts
    /\ bulkOpen = FALSE /\ bulkStep = "select" /\ selectedKeys = {} /\ lastClickedKey = 0
    /\ filters = NoFilters /\ sorting = FirstSort /\ picked = {}
    /\ bulkDeleting = FALSE /\ deletions = {} /\ bulkSteps = 0

BulkAct == bulkSteps < MaxBulkSteps /\ bulkSteps' = bulkSteps + 1
Within == BulkAct /\ bulkOpen /\ UNCHANGED <<known, bulkOpen, bulkDeleting, deletions>>
Selecting == Within /\ bulkStep = "select"

(***************************************************************************)
(* The list.                                                               *)
(***************************************************************************)
\* filteredContacts: a time that is not known counts as the oldest.
FilteredContacts ==
    {c \in known :
        /\ filters.type \in {0, TypeOf[c]}
        /\ filters.createdAfter # 0 => FirstSeen[c] >= filters.createdAfter
        /\ filters.createdBefore # 0 => FirstSeen[c] <= filters.createdBefore
        /\ filters.heardAfter # 0 => LastSeen[c] >= filters.heardAfter
        /\ filters.heardBefore # 0 => LastSeen[c] <= filters.heardBefore}

SortValue(c) ==
    CASE sorting.field = "type" -> TypeOf[c]
      [] sorting.field = "first_seen" -> FirstSeen[c]
      [] sorting.field = "last_seen" -> LastSeen[c]
      [] OTHER -> c

\* The order of the rows; equal values keep the order of the list.
Above(a, b) ==
    \/ IF sorting.ascending THEN SortValue(a) < SortValue(b) ELSE SortValue(a) > SortValue(b)
    \/ SortValue(a) = SortValue(b) /\ a < b

\* The rows from one to the other.
RowsBetween(a, b) ==
    {c \in FilteredContacts : \/ c \in {a, b}
                              \/ Above(a, c) /\ Above(c, b)
                              \/ Above(b, c) /\ Above(c, a)}

\* What the confirmation lists.
SelectedContacts == known \cap selectedKeys

(***************************************************************************)
(* The user.                                                               *)
(***************************************************************************)
OpenBulk ==
    /\ BulkAct /\ ~bulkOpen /\ bulkOpen' = TRUE /\ picked' = {}
    /\ UNCHANGED <<known, bulkStep, selectedKeys, lastClickedKey, filters, sorting, bulkDeleting, deletions>>

\* The controls of the select step.
SetFilter(f, v) ==
    /\ Selecting /\ filters[f] # v
    /\ v \in IF f = "type" THEN ContactTypes ELSE Dates \cup {0}
    /\ filters' = [filters EXCEPT ![f] = v]
    /\ UNCHANGED <<bulkStep, selectedKeys, lastClickedKey, sorting, picked>>

\* handleSort.
HandleSort(f) ==
    /\ Selecting
    /\ sorting' = IF f = sorting.field THEN [sorting EXCEPT !.ascending = ~@]
                  ELSE [field |-> f, ascending |-> f \in {"name", "key"}]
    /\ UNCHANGED <<bulkStep, selectedKeys, lastClickedKey, filters, picked>>

\* handleToggle: with shift, the rows from the last one clicked are added, as
\* they are sorted and filtered now.
HandleToggleRow(c, shift) ==
    LET range == shift /\ lastClickedKey \notin {0, c} /\ lastClickedKey \in FilteredContacts
        rows  == IF range THEN RowsBetween(lastClickedKey, c) ELSE {c}
    IN  /\ Selecting /\ c \in FilteredContacts
        /\ selectedKeys' = IF ~range /\ c \in selectedKeys THEN selectedKeys \ {c} ELSE selectedKeys \cup rows
        /\ lastClickedKey' = c /\ picked' = picked \cup rows
        /\ UNCHANGED <<bulkStep, filters, sorting>>

HandleSelectAll ==
    /\ Selecting /\ selectedKeys' = FilteredContacts /\ picked' = picked \cup FilteredContacts
    /\ UNCHANGED <<bulkStep, lastClickedKey, filters, sorting>>

HandleSelectNone ==
    /\ Selecting /\ selectedKeys' = {}
    /\ UNCHANGED <<bulkStep, lastClickedKey, filters, sorting, picked>>

Proceed ==
    /\ Selecting /\ selectedKeys # {} /\ bulkStep' = "confirm"
    /\ UNCHANGED <<selectedKeys, lastClickedKey, filters, sorting, picked>>

Back ==
    /\ Within /\ bulkStep = "confirm" /\ ~bulkDeleting /\ bulkStep' = "select"
    /\ UNCHANGED <<selectedKeys, lastClickedKey, filters, sorting, picked>>

\* resetAndClose.
MutResetAndClose ==
    /\ bulkOpen' = FALSE /\ bulkStep' = "select" /\ lastClickedKey' = 0
    /\ filters' = NoFilters /\ sorting' = FirstSort /\ UNCHANGED <<selectedKeys, picked>>

ResetAndClose ==
    /\ bulkOpen' = FALSE /\ bulkStep' = "select" /\ selectedKeys' = {} /\ lastClickedKey' = 0
    /\ filters' = NoFilters /\ sorting' = FirstSort /\ UNCHANGED picked

\* Cancel, or the dialog is dismissed, even while it deletes.
DismissBulk ==
    /\ BulkAct /\ bulkOpen /\ ResetAndClose
    /\ UNCHANGED <<known, bulkDeleting, deletions>>

\* handleDelete: every selected key is asked for, listed or not.
HandleBulkDelete ==
    /\ BulkAct /\ bulkOpen /\ bulkStep = "confirm" /\ ~bulkDeleting
    /\ bulkDeleting' = TRUE
    /\ deletions' = deletions \cup {[keys |-> selectedKeys, picked |-> picked]}
    /\ UNCHANGED <<known, dialogVars>>

\* Its answer: the dialog that is open now is reset, then the flag; a failure
\* leaves the dialog.
BulkDeleteReturns(d) ==
    /\ d \in deletions /\ deletions' = deletions \ {d}
    /\ bulkDeleting' = FALSE
    /\ \/ known' = known \ d.keys /\ ResetAndClose
       \/ UNCHANGED <<known, dialogVars>>
    /\ UNCHANGED bulkSteps

\* The server announces a contact, or that one is gone.
ContactAnnounced(c) ==
    /\ BulkAct /\ known' = IF c \in known THEN known \ {c} ELSE known \cup {c}
    /\ UNCHANGED <<dialogVars, bulkDeleting, deletions>>

BulkNext ==
    \/ OpenBulk \/ HandleSelectAll \/ HandleSelectNone \/ Proceed \/ Back \/ DismissBulk \/ HandleBulkDelete
    \/ \E f \in DOMAIN NoFilters, v \in ContactTypes \cup Dates : SetFilter(f, v)
    \/ \E f \in SortFields : HandleSort(f)
    \/ \E c \in BulkContacts, shift \in BOOLEAN : HandleToggleRow(c, shift)
    \/ \E c \in BulkContacts : ContactAnnounced(c)
    \/ \E d \in deletions : BulkDeleteReturns(d)

(***************************************************************************)
(* Properties.                                                             *)
(***************************************************************************)
BulkTypeOK ==
    /\ {known, selectedKeys, picked} \subseteq SUBSET BulkContacts
    /\ lastClickedKey \in BulkContacts \cup {0} /\ bulkStep \in {"select", "confirm"}
    /\ sorting \in [field : SortFields, ascending : BOOLEAN]
    /\ {bulkOpen, bulkDeleting} \subseteq BOOLEAN

\* Only contacts the user picked since this dialog was opened are asked to be
\* deleted: no selection of an earlier dialog, of one a late answer closed, or
\* of rows a changed sort order put in between, is carried along
\* (BulkDeleteContactsModal.tsx:101, :221).
DeletesOnlyPicked == \A d \in deletions : d.keys # {} /\ d.keys \subseteq d.picked

\* The button is disabled only while a deletion is in flight
\* (BulkDeleteContactsModal.tsx:232).
BulkDeletingEnds == bulkDeleting => deletions # {}

\* Why they hold: a closed dialog has no selection, so what is selected was
\* picked in the dialog that is open, and there is something to confirm.
SelectionIsOwn ==
    /\ selectedKeys \subseteq picked
    /\ ~bulkOpen => selectedKeys = {} /\ bulkStep = "select"
    /\ bulkStep = "confirm" => selectedKeys # {}
BulkInv == BulkTypeOK /\ SelectionIsOwn /\ DeletesOnlyPicked /\ BulkDeletingEnds
================================================================================
