----------------------------- MODULE MessageScroll -----------------------------
(***************************************************************************)
(* Where the reader is in an open conversation: MessageList.tsx.  The rows *)
(* come from useConversationMessages (module ConversationMessages), the    *)
(* list decides after each change whether to follow the newest message,    *)
(* to go to a message asked for, or to put the reader back on the row that *)
(* was at the top.  The virtualizer keeps the position across rows added   *)
(* in front and scrolls when it is told to; its scroll events come after   *)
(* the change that caused them.  Rows are in the order of their numbers    *)
(* and of one height; positions are counted in rows.                       *)
(***************************************************************************)
EXTENDS Integers, FiniteSets, FiniteSetsExt

CONSTANTS
    LastRow,        \* messages are 1..LastRow, stored in this order
    FirstRows,      \* how many of them there are at the start
    RowPage,        \* rows of a page
    ViewRows,       \* rows that fit in the view
    Own,            \* outgoing channel messages
    Packets,        \* messages whose packet may be analysed
    Archived,       \* those whose raw packet is known to the client
    MaxScrollSteps  \* bound on what the user does and the mesh brings

ASSUME ScrollAssumption ==
    /\ LastRow \in Nat /\ LastRow >= 2 /\ FirstRows \in 0..LastRow
    /\ RowPage \in Nat \ {0} /\ ViewRows \in Nat \ {0}

VARIABLES
    last, gone,            \* the server's messages, and the blocked ones
    listRows, listLoading, older, newer, paging, \* what the list is given
    target,                \* the message to go to, 0 for none
    offset,                \* rows above the view
    atBottom, anchor,      \* atBottomRef and anchorRef, 0 for none
    event,                 \* a scroll event that is due: of the user's or of the list's
    toBottomShown,
    boundary, jumpShown, jumpDismissed, \* the first unread message, 0 for none
    offered, timers, aged, \* messages that can be sent again; their timers; those past 30 s
    inspector, fetched, fetching, \* what the packet dialog shows, and its packets
    readerAt,              \* the row the reader has scrolled to the top, 0 for none or
                           \* once too few rows below it are left to keep it there
    scrollSteps

scrollGivenVars   == <<last, gone, listRows, listLoading, older, newer, paging, target>>
placeVars   == <<offset, atBottom, anchor, event, toBottomShown>>
markerVars  == <<boundary, jumpShown, jumpDismissed>>
resendVars  == <<offered, timers, aged>>
packetVars  == <<inspector, fetched, fetching>>
scrollVars  == <<scrollGivenVars, placeVars, markerVars, resendVars, packetVars, readerAt, scrollSteps>>

Top(R) == IF R = {} THEN 0 ELSE Min(R)
End(R) == IF R = {} THEN 0 ELSE Max(R)
IndexOf(m, R) == Cardinality({r \in R : r < m})
RowAt(i, R) == CHOOSE r \in R : IndexOf(r, R) = i
MaxOffset(R) == IF Cardinality(R) > ViewRows THEN Cardinality(R) - ViewRows ELSE 0
Clamped(i, R) == IF i > MaxOffset(R) THEN MaxOffset(R) ELSE i
Shown(loading, R) == ~loading /\ R # {}

\* isPrependOf.
IsPrependOf(prev, next) ==
    LET added == Cardinality(next) - Cardinality(prev)
    IN  added > 0 /\ prev # {} /\ RowAt(added, next) = Min(prev) /\ Max(next) = Max(prev)

ScrollInit ==
    /\ last = FirstRows /\ gone = {} /\ listRows = {} /\ listLoading = TRUE
    /\ older = FALSE /\ newer = FALSE /\ paging = {} /\ target \in {0, 2}
    /\ offset = 0 /\ atBottom = TRUE /\ anchor = 0 /\ event = "none" /\ toBottomShown = FALSE
    /\ boundary \in {0, 1} /\ jumpShown = FALSE /\ jumpDismissed = FALSE
    /\ offered = {} /\ timers = {} /\ aged = {}
    /\ inspector = [kind |-> "closed", of |-> 0] /\ fetched = {} /\ fetching = {}
    /\ readerAt = 0 /\ scrollSteps = 0

ScrollAct == scrollSteps < MaxScrollSteps /\ scrollSteps' = scrollSteps + 1

(***************************************************************************)
(* The list changes.                                                       *)
(***************************************************************************)
\* Where the virtualizer leaves the view: a new one starts at the top, rows
\* added in front (`shift`) keep it, anything else keeps the offset.
Kept(R, loading) ==
    IF ~Shown(listLoading, listRows) \/ ~Shown(loading, R) THEN 0
    ELSE IF IsPrependOf(listRows, R) THEN Clamped(offset + Cardinality(R) - Cardinality(listRows), R)
    ELSE Clamped(offset, R)

\* Where the layout effect of the list then puts it.
MutPlaced(R, loading, more, wanted) ==
    IF ~Shown(loading, R) THEN Kept(R, loading)
    ELSE IF listRows = {} THEN (IF wanted = 0 THEN MaxOffset(R) ELSE Kept(R, loading))
    ELSE IF IsPrependOf(listRows, R) THEN Kept(R, loading)
    ELSE IF atBottom /\ ~more /\ wanted = 0 THEN MaxOffset(R)
    ELSE Kept(R, loading)

Placed(R, loading, more, wanted) ==
    IF ~Shown(loading, R) THEN Kept(R, loading)
    ELSE IF listRows = {} THEN (IF wanted = 0 THEN MaxOffset(R) ELSE Kept(R, loading))
    ELSE IF IsPrependOf(listRows, R) THEN Kept(R, loading)
    ELSE IF atBottom /\ ~more /\ wanted = 0
         THEN (IF Max(R) # Max(listRows) \/ Cardinality(R) # Cardinality(listRows) THEN MaxOffset(R) ELSE Kept(R, loading))
    ELSE IF anchor \in R /\ (anchor \notin listRows \/ IndexOf(anchor, R) # IndexOf(anchor, listRows))
         THEN Clamped(IndexOf(anchor, R), R)
    ELSE Kept(R, loading)

\* The target effect runs after it: a target that is there is centred once.
Reached(R, loading, wanted) == Shown(loading, R) /\ wanted \in R
Centred(m, R) == Clamped(IF IndexOf(m, R) > ViewRows \div 2 THEN IndexOf(m, R) - ViewRows \div 2 ELSE 0, R)

\* syncJumpToUnreadVisibility, for the rows R seen from offset o.
JumpVisible(m, R, o, dismissed) ==
    ~dismissed /\ m # 0 /\ (m \in R => IndexOf(m, R) \notin o..(o + ViewRows - 1))

\* The effects of rows R, of what is left to load and of a target: a change
\* of the marker's index brings the button back; the resend window is set up
\* anew, timers and all.
CommitRows(R, loading, more, wanted) ==
    LET reached == Reached(R, loading, wanted)
        place   == IF reached THEN Centred(wanted, R) ELSE Placed(R, loading, more, wanted)
        moved   == IndexOf(boundary, R) # IndexOf(boundary, listRows) \/ (boundary \in R) # (boundary \in listRows)
    IN  /\ listRows' = R /\ listLoading' = loading /\ newer' = more
        /\ target' = IF reached THEN 0 ELSE wanted
        /\ offset' = place
        /\ atBottom' = IF reached THEN FALSE
                       ELSE atBottom \/ (listRows = {} /\ Shown(loading, R) /\ wanted = 0)
        /\ event' = IF Shown(loading, R) /\ place # offset THEN "list" ELSE event
        /\ jumpDismissed' = (jumpDismissed /\ ~moved)
        /\ jumpShown' = (Shown(loading, R) /\ JumpVisible(boundary, R, place, jumpDismissed'))
        /\ offered' = (R \cap Own) \ aged /\ timers' = offered'
        /\ readerAt' = IF reached \/ ~Shown(loading, R) \/ readerAt \notin R \/ IndexOf(readerAt, R) > MaxOffset(R)
                       THEN 0 ELSE readerAt
        /\ UNCHANGED <<anchor, toBottomShown, boundary, aged, packetVars>>

LatestPage == {m \in 1..last \ gone : Cardinality({k \in m..last : k \notin gone}) <= RowPage}
Around(m) == {k \in (m - 1)..(m + 1) : k \in 1..last \ gone}

\* The first rows, the newest ones or those around the target; rows that
\* arrived while they were loaded are kept only by the former.
ListLoaded ==
    /\ listLoading
    /\ \E R \in {IF target = 0 THEN LatestPage \cup listRows ELSE Around(target)} :
         /\ older' = (\E m \in 1..last \ gone : m < Top(R))
         /\ CommitRows(R, FALSE, target # 0 /\ \E m \in 1..last \ gone : m > End(R), target)
    /\ paging' = {} /\ UNCHANGED <<last, gone, scrollSteps>>

\* A message arrives; it is shown unless newer rows are left to load.
RowArrives ==
    /\ ScrollAct /\ last < LastRow /\ last' = last + 1
    /\ CommitRows(IF newer THEN listRows ELSE listRows \cup {last + 1}, listLoading, newer, target)
    /\ UNCHANGED <<gone, older, paging>>

\* A page that was asked for: older rows in front, or newer ones behind.  The
\* last page of newer rows comes with the news that there are no more.
OlderArrive ==
    /\ "older" \in paging /\ ~listLoading /\ paging' = paging \ {"older"}
    /\ \E P \in {{m \in 1..(Top(listRows) - 1) \ gone :
                  Cardinality({k \in m..(Top(listRows) - 1) : k \notin gone}) <= RowPage}} :
         /\ older' = (Cardinality(P) >= RowPage)
         /\ CommitRows(listRows \cup P, listLoading, newer, target)
    /\ UNCHANGED <<last, gone, scrollSteps>>

NewerArrive ==
    /\ "newer" \in paging /\ ~listLoading /\ paging' = paging \ {"newer"}
    /\ \E P \in {{m \in (End(listRows) + 1)..last \ gone :
                  Cardinality({k \in (End(listRows) + 1)..m : k \notin gone}) <= RowPage}} :
         CommitRows(listRows \cup P, listLoading, Cardinality(P) >= RowPage, target)
    /\ UNCHANGED <<last, gone, older, scrollSteps>>

\* Somebody is blocked, or unblocked: rows go, or come back among the others.
RowsFiltered(m) ==
    /\ ScrollAct /\ m \in listRows /\ gone = {} /\ gone' = {m}
    /\ CommitRows(listRows \ {m}, listLoading, newer, target)
    /\ UNCHANGED <<last, older, paging>>

RowsReturn ==
    /\ ScrollAct /\ gone # {} /\ gone' = {}
    /\ CommitRows(listRows \cup {m \in gone : Top(listRows) < m /\ (newer => m < End(listRows)) /\ listRows # {}},
                  listLoading, newer, target)
    /\ UNCHANGED <<last, older, paging>>

(***************************************************************************)
(* The reader.                                                             *)
(***************************************************************************)
UserScrolls(o) ==
    /\ ScrollAct /\ Shown(listLoading, listRows) /\ o \in 0..MaxOffset(listRows) /\ o # offset
    /\ offset' = o /\ event' = "user" /\ readerAt' = 0
    /\ UNCHANGED <<scrollGivenVars, atBottom, anchor, toBottomShown, markerVars, resendVars, packetVars>>

\* handleScroll: the row at the top is noted, and pages are asked for at both
\* ends.
HandleScroll ==
    LET near == offset >= MaxOffset(listRows)
    IN  /\ event # "none" /\ Shown(listLoading, listRows) /\ event' = "none"
        /\ anchor' = RowAt(offset, listRows) /\ atBottom' = near /\ toBottomShown' = ~near
        /\ paging' = paging \cup (IF older /\ offset = 0 THEN {"older"} ELSE {})
                            \cup (IF newer /\ near THEN {"newer"} ELSE {})
        /\ jumpShown' = JumpVisible(boundary, listRows, offset, jumpDismissed)
        /\ readerAt' = IF near THEN 0 ELSE IF event = "user" THEN anchor' ELSE readerAt
        /\ UNCHANGED <<last, gone, listRows, listLoading, older, newer, target, offset, boundary, jumpDismissed,
                       resendVars, packetVars, scrollSteps>>

\* An event of a list that is no longer there does nothing.
EventLost ==
    /\ event # "none" /\ ~Shown(listLoading, listRows) /\ event' = "none"
    /\ UNCHANGED <<scrollGivenVars, offset, atBottom, anchor, toBottomShown, markerVars, resendVars, packetVars,
                   readerAt, scrollSteps>>

\* scrollToBottom: within the rows, or back to the newest page.
ScrollToBottom ==
    /\ ScrollAct /\ Shown(listLoading, listRows) /\ toBottomShown
    /\ IF newer
       THEN CommitRows({}, TRUE, FALSE, target) /\ paging' = {}
       ELSE /\ atBottom' = TRUE /\ offset' = MaxOffset(listRows) /\ readerAt' = 0
            /\ event' = IF offset' # offset THEN "list" ELSE event
            /\ UNCHANGED <<listRows, listLoading, newer, paging, target, anchor, toBottomShown,
                           markerVars, resendVars, packetVars>>
    /\ UNCHANGED <<last, gone, older>>

\* "Jump to unread": a boundary that is not loaded becomes the target, which
\* loads the rows around it.
JumpToUnread ==
    /\ ScrollAct /\ Shown(listLoading, listRows) /\ jumpShown
    /\ IF boundary \in listRows
       THEN /\ offset' = Centred(boundary, listRows) /\ event' = "user" /\ readerAt' = 0
            /\ jumpShown' = FALSE /\ jumpDismissed' = TRUE
            /\ UNCHANGED <<listRows, listLoading, newer, paging, target, atBottom, anchor, toBottomShown,
                           boundary, resendVars, packetVars>>
       ELSE CommitRows({}, TRUE, newer, boundary) /\ paging' = {}
    /\ UNCHANGED <<last, gone, older>>

DismissJump ==
    /\ ScrollAct /\ jumpShown /\ jumpShown' = FALSE /\ jumpDismissed' = TRUE
    /\ UNCHANGED <<scrollGivenVars, placeVars, boundary, resendVars, packetVars, readerAt>>

\* The divider is clicked away.
DismissDivider ==
    /\ ScrollAct /\ boundary \in listRows /\ Shown(listLoading, listRows)
    /\ boundary' = 0 /\ jumpShown' = FALSE /\ jumpDismissed' = FALSE
    /\ UNCHANGED <<scrollGivenVars, placeVars, resendVars, packetVars, readerAt>>

(***************************************************************************)
(* Sending again, and the packet of a message.                             *)
(***************************************************************************)
\* RESEND_WINDOW_SECONDS pass after a message was sent.
WindowCloses(m) ==
    /\ m \in (Own \cap 1..last) \ aged /\ aged' = aged \cup {m}
    /\ UNCHANGED <<scrollGivenVars, placeVars, markerVars, offered, timers, packetVars, readerAt, scrollSteps>>

ResendTimer(m) ==
    /\ m \in timers \cap aged /\ timers' = timers \ {m} /\ offered' = offered \ {m}
    /\ UNCHANGED <<scrollGivenVars, placeVars, markerVars, aged, packetVars, readerAt, scrollSteps>>

\* handleAnalyzePacket.
HandleAnalyzePacket(m) ==
    /\ ScrollAct /\ m \in listRows /\ Shown(listLoading, listRows) /\ inspector.kind = "closed"
    /\ inspector' = [kind |-> IF m \notin Archived THEN "unavailable" ELSE IF m \in fetched THEN "packet" ELSE "loading",
                     of |-> m]
    /\ fetching' = IF inspector'.kind = "loading" THEN fetching \cup {m} ELSE fetching
    /\ UNCHANGED <<scrollGivenVars, placeVars, markerVars, resendVars, fetched, readerAt>>

\* Its answer is shown whatever the dialog shows by then, and opens a closed one.
PacketArrives(m) ==
    /\ m \in fetching /\ fetching' = fetching \ {m}
    /\ \/ fetched' = fetched \cup {m} /\ inspector' = [kind |-> "packet", of |-> m]
       \/ UNCHANGED fetched /\ inspector' = [kind |-> "unavailable", of |-> m]
    /\ UNCHANGED <<scrollGivenVars, placeVars, markerVars, resendVars, readerAt, scrollSteps>>

CloseInspector ==
    /\ ScrollAct /\ inspector.kind # "closed" /\ inspector' = [kind |-> "closed", of |-> 0]
    /\ UNCHANGED <<scrollGivenVars, placeVars, markerVars, resendVars, fetched, fetching, readerAt>>

ScrollNext ==
    \/ ListLoaded \/ RowArrives \/ OlderArrive \/ NewerArrive \/ RowsReturn
    \/ HandleScroll \/ EventLost \/ ScrollToBottom \/ JumpToUnread \/ DismissJump \/ DismissDivider
    \/ CloseInspector
    \/ \E m \in 1..LastRow : RowsFiltered(m)
    \/ \E o \in 0..LastRow : UserScrolls(o)
    \/ \E m \in Own : WindowCloses(m) \/ ResendTimer(m)
    \/ \E m \in Packets : HandleAnalyzePacket(m)
    \/ \E m \in fetching : PacketArrives(m)

(***************************************************************************)
(* Properties.                                                             *)
(***************************************************************************)
ScrollTypeOK ==
    /\ listRows \subseteq 1..last /\ gone \subseteq 1..last /\ {target, anchor, boundary, readerAt} \subseteq 0..LastRow
    /\ paging \subseteq {"older", "newer"} /\ event \in {"none", "user", "list"}
    /\ Shown(listLoading, listRows) => offset \in 0..MaxOffset(listRows)
    /\ offered \subseteq Own /\ fetched \subseteq Archived /\ fetching \subseteq Archived
    /\ {listLoading, older, newer, atBottom, toBottomShown, jumpShown, jumpDismissed} \subseteq BOOLEAN

\* A reader who has scrolled up keeps the row at the top of the view, whatever
\* is loaded in front, arrives behind, or is blocked and unblocked in between
\* (MessageList.tsx:1106), as long as there are rows enough left below it.
ReaderStaysPut ==
    (readerAt # 0 /\ Shown(listLoading, listRows)) => RowAt(offset, listRows) = readerAt

\* The unread boundary is offered as long as it is not loaded, although pages
\* come and go (MessageList.tsx:1237).
BoundaryOffered ==
    (Shown(listLoading, listRows) /\ boundary # 0 /\ boundary \notin listRows /\ ~jumpDismissed) => jumpShown

\* A byte-perfect resend is offered only while the timer that ends the offer
\* runs (MessageList.tsx:1181), and the packet dialog says it is loading only
\* while a packet is being fetched (MessageList.tsx:1017).
OffersEnd ==
    /\ offered \subseteq timers
    /\ inspector.kind = "loading" => fetching # {}

(***************************************************************************)
(* Why they hold.                                                          *)
(***************************************************************************)
\* The reader's row is in the list, at the top of the view, and is the row the
\* list noted there; the list does not follow the newest message meanwhile.
ReaderHeld ==
    readerAt # 0 =>
        /\ Shown(listLoading, listRows) /\ readerAt \in listRows /\ IndexOf(readerAt, listRows) = offset
        /\ anchor = readerAt /\ ~atBottom

ScrollInv == ScrollTypeOK /\ last \in 0..LastRow /\ ReaderHeld /\ BoundaryOffered /\ OffersEnd
================================================================================
