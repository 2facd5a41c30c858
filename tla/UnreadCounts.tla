------------------------------ MODULE UnreadCounts ------------------------------
(***************************************************************************)
(* Unread counts, the mentions among them, the unread divider and the      *)
(* badge on the page's icon: useUnreadCounts.ts, conversationState.ts,     *)
(* useFaviconBadge.ts and the part of App.tsx that places the divider.     *)
(*                                                                         *)
(* Three sources race: events of the socket count one message at a time,   *)
(* answers to GET /unreads replace every count with what the server had    *)
(* when it was asked, and opening a conversation clears its own.           *)
(***************************************************************************)
EXTENDS Integers

CONSTANTS
    Room,        \* a channel
    Prefix,      \* a contact known by a prefix of its key ...
    Full,        \* ... and the same contact once its key is known
    FavoriteRoom, \* whether the channel is a favorite
    Mentioning,  \* the messages that name the user
    MaxMessages, MaxFetches, MaxOpens  \* bounds

ASSUME UnreadAssumption ==
    /\ Room # Prefix /\ Room # Full /\ Prefix # Full
    /\ FavoriteRoom \in BOOLEAN
    /\ MaxMessages \in Nat /\ MaxFetches \in Nat /\ MaxOpens \in Nat

VARIABLES
    unreadCounts, mentions, firstUnreadIds, \* by state key; 0 stands for no entry
    lastMessageTimes,      \* received_at of the last message, by state key
    open,                  \* the conversation shown
    absorbed,              \* the open conversation took over another's count
    marker,                \* the divider of the channel: -1 none, 0 without a message
    muted, muting,         \* the channel is muted as the client shows it, a toggle in flight
    unreads,               \* the server's unread messages by conversation
    unreadEvents,          \* broadcast and not yet handled
    answers,               \* answers to GET /unreads on their way
    marks,                 \* POST .../mark-read on their way
    icon, loads,           \* the page's icon, and loads of the image it is drawn on
    stored, fetches, opens

countVars  == <<unreadCounts, mentions, firstUnreadIds, lastMessageTimes>>
serverSide == <<unreads, stored>>
iconVars   == <<icon, loads>>
muteVars   == <<muted, muting>>
unreadVars == <<countVars, open, absorbed, marker, muteVars, serverSide, unreadEvents, answers, marks,
                iconVars, fetches, opens>>

Keys   == {Room, Prefix, Full}
Closed == "closed"
None   == [n |-> 0, first |-> 0, mention |-> FALSE, last |-> 0]
Read(row) == [None EXCEPT !.last = row.last]

Later(a, b) == IF a > b THEN a ELSE b

UnreadInit ==
    /\ unreadCounts = [k \in Keys |-> 0] /\ mentions = [k \in Keys |-> FALSE]
    /\ firstUnreadIds = [k \in Keys |-> 0] /\ lastMessageTimes = [k \in Keys |-> 0]
    /\ open = Closed /\ absorbed = FALSE /\ marker = -1 /\ muted = FALSE /\ muting = FALSE
    /\ unreads = [k \in Keys |-> None] /\ stored = 0
    /\ unreadEvents = {} /\ marks = {}
    /\ answers = {[data |-> [k \in Keys |-> None], marks |-> FALSE]}
    /\ icon = "none" /\ loads = {}
    /\ fetches = 0 /\ opens = 0

(***************************************************************************)
(* What follows from the counts.                                           *)
(***************************************************************************)
\* deriveFaviconBadgeState: red for a mention or a direct message, green for a
\* favorite channel.
Badge ==
    IF (\E k \in Keys : mentions[k]) \/ unreadCounts[Prefix] + unreadCounts[Full] > 0 THEN "red"
    ELSE IF FavoriteRoom /\ unreadCounts[Room] > 0 THEN "green"
    ELSE "none"

\* The effect of useFaviconBadge when the badge changes: what was loading is
\* cancelled, the plain icon is set at once, a badge once its image is loaded.
FaviconEffect ==
    IF Badge' = Badge THEN UNCHANGED iconVars
    ELSE IF Badge' = "none" THEN icon' = "none" /\ loads' = {[l EXCEPT !.live = FALSE] : l \in loads}
    ELSE /\ UNCHANGED icon
         /\ loads' = {[l EXCEPT !.live = FALSE] : l \in loads} \cup {[badge |-> Badge', live |-> TRUE]}

\* The divider of the open channel: created with what is unread, then held,
\* but for a boundary it did not have yet.
Marker(m, conv, count, first) ==
    IF conv # Room THEN -1
    ELSE IF m >= 0 THEN (IF m = 0 THEN first ELSE m)
    ELSE IF count > 0 THEN first ELSE -1

MarkerEffect == marker' = Marker(marker, open, unreadCounts'[Room], firstUnreadIds'[Room])

(***************************************************************************)
(* The hook's operations.                                                  *)
(***************************************************************************)
MutApplyUnreads(data) ==
    /\ unreadCounts' = [k \in Keys |-> data[k].n]
    /\ mentions' = [k \in Keys |-> data[k].mention]
    /\ firstUnreadIds' = [k \in Keys |-> data[k].first]
    /\ UNCHANGED lastMessageTimes

\* applyUnreads: the answer replaces the counts, but for the conversation the
\* user is looking at.
ApplyUnreads(data) ==
    /\ unreadCounts' = [k \in Keys |-> IF k = open THEN 0 ELSE data[k].n]
    /\ mentions' = [k \in Keys |-> k # open /\ data[k].mention]
    /\ firstUnreadIds' = [k \in Keys |-> data[k].first]
    /\ lastMessageTimes' = [k \in Keys |-> IF data[k].last > 0 THEN data[k].last ELSE lastMessageTimes[k]]

MutIncrementUnread(k, id) ==
    /\ unreadCounts' = [unreadCounts EXCEPT ![k] = @ + 1]
    /\ mentions' = [mentions EXCEPT ![k] = @ \/ id \in Mentioning]
    /\ UNCHANGED firstUnreadIds

\* incrementUnread: the first unread message is remembered once.
IncrementUnread(k, id) ==
    /\ unreadCounts' = [unreadCounts EXCEPT ![k] = @ + 1]
    /\ firstUnreadIds' = [firstUnreadIds EXCEPT ![k] = IF @ # 0 THEN @ ELSE id]
    /\ mentions' = [mentions EXCEPT ![k] = @ \/ id \in Mentioning]

\* recordMessageEvent.
RecordMessageEvent(k, id) ==
    /\ lastMessageTimes' = [lastMessageTimes EXCEPT ![k] = id]
    /\ IF k # open THEN IncrementUnread(k, id)
       ELSE UNCHANGED <<unreadCounts, firstUnreadIds, mentions>>

\* renameConversationState, with renameConversationTimeKey.
RenameConversationState(old, new) ==
    /\ unreadCounts' = [unreadCounts EXCEPT ![new] = @ + unreadCounts[old], ![old] = 0]
    /\ mentions' = [mentions EXCEPT ![new] = @ \/ mentions[old], ![old] = FALSE]
    /\ firstUnreadIds' = [firstUnreadIds EXCEPT ![new] = IF @ # 0 THEN @ ELSE firstUnreadIds[old],
                                               ![old] = 0]
    /\ lastMessageTimes' = [lastMessageTimes EXCEPT
                              ![new] = Later(@, lastMessageTimes[old]), ![old] = 0]

\* removeConversationState.
RemoveConversationState(k) ==
    /\ unreadCounts' = [unreadCounts EXCEPT ![k] = 0]
    /\ mentions' = [mentions EXCEPT ![k] = FALSE]
    /\ firstUnreadIds' = [firstUnreadIds EXCEPT ![k] = 0]

\* The effect that marks the conversation just opened as read.
Opened(k) ==
    /\ open' = k /\ absorbed' = FALSE
    /\ unreadCounts' = IF k = Closed THEN unreadCounts ELSE [unreadCounts EXCEPT ![k] = 0]
    /\ mentions' = IF k = Closed THEN mentions ELSE [mentions EXCEPT ![k] = FALSE]
    /\ marks' = IF k = Closed THEN marks ELSE marks \cup {k}
    /\ marker' = Marker(IF k = open THEN marker ELSE -1, k,
                        unreadCounts[Room], firstUnreadIds[Room])

(***************************************************************************)
(* The user.                                                               *)
(***************************************************************************)
\* A conversation is opened, or a view that is not one.
OpenConversation(k) ==
    /\ opens < MaxOpens /\ k # open
    /\ Opened(k) /\ opens' = opens + 1
    /\ FaviconEffect
    /\ UNCHANGED <<firstUnreadIds, lastMessageTimes, muteVars, serverSide, unreadEvents, answers, fetches>>

\* markAllRead; the sidebar offers it while something is unread.
MarkAllRead ==
    /\ \E k \in Keys : unreadCounts[k] > 0
    /\ opens < MaxOpens /\ opens' = opens + 1
    /\ unreadCounts' = [k \in Keys |-> 0] /\ mentions' = [k \in Keys |-> FALSE]
    /\ firstUnreadIds' = [k \in Keys |-> 0]
    /\ marks' = marks \cup Keys /\ absorbed' = FALSE
    /\ MarkerEffect /\ FaviconEffect
    /\ UNCHANGED <<lastMessageTimes, open, muteVars, serverSide, unreadEvents, answers, fetches>>

\* handleDismissUnreadMarker.
DismissMarker ==
    /\ marker >= 0 /\ marker' = -1
    /\ UNCHANGED <<countVars, open, absorbed, muteVars, serverSide, unreadEvents, answers, marks, iconVars,
                   fetches, opens>>

\* GET /unreads is sent: refreshUnreads after a reconnect, a change of the
\* block list or of the lists' lengths.  The server leaves out the count of a
\* channel it knows as muted.
ServerMuted == muted # muting
Answer(quiet) ==
    [data |-> IF quiet THEN [unreads EXCEPT ![Room] = Read(@)] ELSE unreads, marks |-> TRUE]
FetchUnreads ==
    /\ fetches < MaxFetches /\ fetches' = fetches + 1
    /\ answers' = answers \cup {Answer(ServerMuted)}
    /\ UNCHANGED <<countVars, open, absorbed, marker, muteVars, serverSide, unreadEvents, marks, iconVars,
                   opens>>

\* handleToggleMute: shown at once ...
HandleToggleMute ==
    /\ fetches < MaxFetches /\ fetches' = fetches + 1
    /\ ~muting /\ muting' = TRUE /\ muted' = ~muted
    /\ UNCHANGED <<countVars, open, absorbed, marker, serverSide, unreadEvents, answers, marks, iconVars,
                   opens>>

\* ... then kept and followed by a refresh, or taken back when the server fails.
MuteReturns ==
    /\ muting /\ muting' = FALSE
    /\ \/ answers' = answers \cup {Answer(muted)} /\ UNCHANGED muted
       \/ muted' = ~muted /\ UNCHANGED answers
    /\ UNCHANGED <<countVars, open, absorbed, marker, serverSide, unreadEvents, marks, iconVars, fetches,
                   opens>>

(***************************************************************************)
(* Answers and events.                                                     *)
(***************************************************************************)
\* fetchUnreads continues: the answer is applied and the open conversation is
\* marked read again; the fetch of the mounting page only applies it.
UnreadsArrive(a) ==
    /\ a \in answers /\ answers' = answers \ {a}
    /\ ApplyUnreads(a.data)
    /\ marks' = IF a.marks /\ open # Closed THEN marks \cup {open} ELSE marks
    /\ absorbed' = FALSE
    /\ MarkerEffect /\ FaviconEffect
    /\ UNCHANGED <<open, muteVars, serverSide, unreadEvents, fetches, opens>>

UnreadsFail(a) ==
    /\ a \in answers /\ answers' = answers \ {a}
    /\ marks' = IF a.marks /\ open # Closed THEN marks \cup {open} ELSE marks
    /\ UNCHANGED <<countVars, open, absorbed, marker, muteVars, serverSide, unreadEvents, iconVars, fetches, opens>>

\* onMessage for an incoming message that is new to the client.
OnUnreadMessage(e) ==
    /\ e \in unreadEvents /\ e.type = "message" /\ unreadEvents' = unreadEvents \ {e}
    /\ IF muted /\ e.k = Room
       THEN UNCHANGED <<countVars, marker, iconVars>>
       ELSE RecordMessageEvent(e.k, e.id) /\ MarkerEffect /\ FaviconEffect
    /\ UNCHANGED <<open, absorbed, muteVars, serverSide, answers, marks, fetches, opens>>

\* onContactResolved: the counts move to the full key; an open conversation
\* moves with its contact, and is marked read as it opens.
OnUnreadResolved(e) ==
    /\ e \in unreadEvents /\ e.type = "resolved" /\ unreadEvents' = unreadEvents \ {e}
    /\ IF open = Prefix
       THEN /\ open' = Full /\ marks' = marks \cup {Full} /\ absorbed' = FALSE
            /\ unreadCounts' = [unreadCounts EXCEPT ![Full] = 0, ![Prefix] = 0]
            /\ mentions' = [mentions EXCEPT ![Full] = FALSE, ![Prefix] = FALSE]
            /\ firstUnreadIds' = [firstUnreadIds EXCEPT
                                    ![Full] = IF @ # 0 THEN @ ELSE firstUnreadIds[Prefix], ![Prefix] = 0]
            /\ lastMessageTimes' = [lastMessageTimes EXCEPT ![Prefix] = 0, ![Full] =
                                      Later(@, lastMessageTimes[Prefix])]
       ELSE /\ RenameConversationState(Prefix, Full)
            /\ absorbed' = (absorbed \/ (open = Full /\ unreadCounts[Prefix] > 0))
            /\ UNCHANGED <<open, marks>>
    /\ FaviconEffect
    /\ UNCHANGED <<marker, muteVars, serverSide, answers, fetches, opens>>

\* onContactDeleted and onChannelDeleted: the state goes, and an open
\* conversation is closed.
OnUnreadDeleted(e) ==
    /\ e \in unreadEvents /\ e.type = "deleted" /\ unreadEvents' = unreadEvents \ {e}
    /\ RemoveConversationState(e.k)
    /\ IF open = e.k THEN open' = Closed /\ absorbed' = FALSE ELSE UNCHANGED <<open, absorbed>>
    /\ marker' = IF e.k = Room THEN -1 ELSE marker
    /\ FaviconEffect
    /\ UNCHANGED <<lastMessageTimes, muteVars, serverSide, answers, marks, fetches, opens>>

MutIconLoads(l) ==
    /\ l \in loads /\ loads' = loads \ {l}
    /\ icon' \in {l.badge, "failed"}
    /\ UNCHANGED <<countVars, open, absorbed, marker, muteVars, serverSide, unreadEvents, answers, marks,
                   fetches, opens>>

\* The base image of the icon has been loaded, or not; a load that was
\* cancelled changes nothing.
IconLoads(l) ==
    /\ l \in loads /\ loads' = loads \ {l}
    /\ icon' \in IF l.live THEN {l.badge, "failed"} ELSE {icon}
    /\ UNCHANGED <<countVars, open, absorbed, marker, muteVars, serverSide, unreadEvents, answers, marks,
                   fetches, opens>>

(***************************************************************************)
(* The server.                                                             *)
(***************************************************************************)
Least(a, b) == IF a = 0 \/ (b # 0 /\ b < a) THEN b ELSE a

\* A message is stored as unread and broadcast.
UnreadStored(k) ==
    /\ stored < MaxMessages /\ stored' = stored + 1
    /\ unreads' = [unreads EXCEPT ![k] = [n |-> @.n + 1, first |-> Least(@.first, stored + 1),
                                          mention |-> @.mention \/ stored + 1 \in Mentioning,
                                          last |-> stored + 1]]
    /\ unreadEvents' = unreadEvents \cup {[type |-> "message", k |-> k, id |-> stored + 1]}
    /\ UNCHANGED <<countVars, open, absorbed, marker, muteVars, answers, marks, iconVars, fetches, opens>>

\* The contact's full key becomes known: its messages move.
UnreadKeyLearned ==
    /\ stored < MaxMessages /\ stored' = stored + 1
    /\ unreads' = [unreads EXCEPT
                     ![Full] = [n |-> @.n + unreads[Prefix].n,
                                first |-> Least(@.first, unreads[Prefix].first),
                                mention |-> @.mention \/ unreads[Prefix].mention,
                                last |-> Later(@.last, unreads[Prefix].last)],
                     ![Prefix] = None]
    /\ unreadEvents' = unreadEvents \cup {[type |-> "resolved", k |-> Prefix, id |-> stored + 1]}
    /\ UNCHANGED <<countVars, open, absorbed, marker, muteVars, answers, marks, iconVars, fetches, opens>>

UnreadDeletedElsewhere(k) ==
    /\ stored < MaxMessages /\ stored' = stored + 1
    /\ unreads' = [unreads EXCEPT ![k] = None]
    /\ unreadEvents' = unreadEvents \cup {[type |-> "deleted", k |-> k, id |-> stored + 1]}
    /\ UNCHANGED <<countVars, open, absorbed, marker, muteVars, answers, marks, iconVars, fetches, opens>>

\* A mark-read is carried out, or lost.
MarkedRead(k) ==
    /\ k \in marks /\ marks' = marks \ {k}
    /\ unreads' \in {[unreads EXCEPT ![k] = Read(@)], unreads}
    /\ UNCHANGED <<countVars, open, absorbed, marker, muteVars, stored, unreadEvents, answers, iconVars,
                   fetches, opens>>

UnreadNext ==
    \/ \E k \in Keys \cup {Closed} : OpenConversation(k)
    \/ \E k \in Keys : UnreadStored(k) \/ UnreadDeletedElsewhere(k) \/ MarkedRead(k)
    \/ MarkAllRead \/ DismissMarker \/ FetchUnreads \/ HandleToggleMute \/ MuteReturns
    \/ \E a \in answers : UnreadsArrive(a) \/ UnreadsFail(a)
    \/ \E e \in unreadEvents : OnUnreadMessage(e) \/ OnUnreadResolved(e) \/ OnUnreadDeleted(e)
    \/ \E l \in loads : IconLoads(l)
    \/ UnreadKeyLearned

UnreadSpec == UnreadInit /\ [][UnreadNext]_unreadVars

(***************************************************************************)
(* Properties.                                                             *)
(***************************************************************************)
UnreadRow == [n : Nat, first : Nat, mention : BOOLEAN, last : Nat]

\* The counts, the server's rows and the answers on their way have their types.
UnreadTypeOK ==
    /\ unreadCounts \in [Keys -> Nat] /\ firstUnreadIds \in [Keys -> Nat]
    /\ mentions \in [Keys -> BOOLEAN] /\ lastMessageTimes \in [Keys -> Nat]
    /\ open \in Keys \cup {Closed} /\ absorbed \in BOOLEAN /\ marker \in Int
    /\ muted \in BOOLEAN /\ muting \in BOOLEAN
    /\ unreads \in [Keys -> UnreadRow] /\ stored \in Nat
    /\ \A a \in answers : a.data \in [Keys -> UnreadRow] /\ a.marks \in BOOLEAN
    /\ marks \subseteq Keys

\* A conversation with an unread count has a first unread message to draw the
\* divider at, whichever of the three sources counted last and whatever was
\* renamed or removed in between (useUnreadCounts.ts:182).
UnreadHasBoundary == \A k \in Keys : unreadCounts[k] > 0 => firstUnreadIds[k] # 0

\* The conversation the user is looking at shows no unread count, however late
\* an answer to GET /unreads arrives (useUnreadCounts.ts:61), with one exception:
\* a contact already open under its full key takes over the count of its prefix.
OpenIsRead == (open # Closed /\ ~absorbed) => unreadCounts[open] = 0

\* When nothing is loading, the page's icon wears the badge of the counts, in
\* whatever order badges changed and images arrived (useFaviconBadge.ts:178).
IconFollowsBadge ==
    (icon # "failed" /\ \A l \in loads : ~l.live) => icon = Badge

\* The inductive invariant: what is counted at the server has a boundary there
\* too, in the answers on their way as well, events name a conversation and a
\* message, and an image that is still to be drawn is of the badge of now.
Bounded(row) == row.n > 0 => row.first # 0
RowsBounded ==
    /\ \A k \in Keys : Bounded(unreads[k])
    /\ \A a \in answers : \A k \in Keys : Bounded(a.data[k])
EventsTyped == \A e \in unreadEvents : e.k \in Keys /\ e.id \in Nat \ {0}
LoadsCurrent == \A l \in loads : l \in [badge : {"red", "green"}, live : BOOLEAN] /\ (l.live => l.badge = Badge)
UnreadInv ==
    /\ UnreadTypeOK /\ RowsBounded /\ EventsTyped /\ LoadsCurrent
    /\ UnreadHasBoundary /\ OpenIsRead /\ IconFollowsBadge
================================================================================
