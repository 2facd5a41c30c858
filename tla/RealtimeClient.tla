--------------------------- MODULE RealtimeClient ---------------------------
(***************************************************************************)
(* The message list together with what feeds it: the server's rows, the    *)
(* event socket (frontend/src/useWebSocket.ts), its handlers               *)
(* (hooks/useRealtimeAppState.ts) and the user's sends                     *)
(* (hooks/useConversationActions.ts).                                      *)
(***************************************************************************)
EXTENDS ConversationMessages

CONSTANTS Prefix, Full, \* a contact heard under a key prefix, and its full key
          Rude,         \* ids of messages whose sender may be blocked
          MaxAck,       \* bound: ACK count of a message
          MaxWire,      \* bound: events on their way
          MaxMoves,     \* bound: messages, ACKs, resolutions, drops, failures, blocks, sends
          MaxVisits,    \* bound: conversations, views and search results opened
          Prompt        \* TRUE: React commits before the next event is handled

ASSUME ClientBounds ==
    /\ {Prefix, Full} \subseteq Convs /\ Prefix # Full /\ Rude \subseteq Nat
    /\ MaxAck \in Nat /\ MaxWire \in Nat /\ MaxMoves \in Nat /\ MaxVisits \in Nat
    /\ Prompt \in BOOLEAN

VARIABLES
    db,        \* the server's messages: key when stored, key now, ACKs, the send it is of
    blocked,   \* whether the senders of Rude are blocked
    wire,      \* events sent and not yet handled
    sock,      \* "closed", "waiting" (3 s timer), "open"
    connected, \* hasConnectedRef
    moves, visits, \* count against MaxMoves and MaxVisits
    sends,     \* pendingMessages, oldest first, with the server's verdict
    typed      \* nextPendingIdRef

envVars == <<db, blocked, wire, sock, connected, moves, visits, sends, typed>>
vars    == <<msgVars, envVars>>

Stored   == DOMAIN db
Hidden   == IF blocked THEN Rude ELSE {}
Visible(c) == {i \in Stored : db[i].c = c} \ Hidden
AcksOf(S)  == [i \in S |-> db[i].ack]

Ready == Prompt => ~Dirty
Move  == Ready /\ moves < MaxMoves /\ moves' = moves + 1
Visit == Ready /\ visits < MaxVisits /\ visits' = visits + 1

Init ==
    /\ MsgInit
    /\ db = <<>> /\ blocked = FALSE /\ wire = <<>> /\ sock = "closed" /\ connected = FALSE
    /\ moves = 0 /\ visits = 0 /\ sends = <<>> /\ typed = 0

(***************************************************************************)
(* The server                                                              *)
(***************************************************************************)
Emit(e) == wire' = IF sock = "open" THEN Append(wire, e) ELSE wire
Room    == Len(wire) < MaxWire
MsgEvent(c, i, n) == [t |-> "message", c |-> c, i |-> i, n |-> n]

\* A prefix has been resolved: its rows are filed under the full key.
Resolved == \E i \in Stored : db[i].k = Prefix /\ db[i].c = Full

\* The key under which the server files a contact's message now.
KeyNow(c) == IF Resolved /\ c = Prefix THEN Full ELSE c

MessageStored(c) ==
    /\ Len(db) < MaxMsg /\ Room /\ Move /\ c = KeyNow(c)
    /\ db' = Append(db, [k |-> c, c |-> c, ack |-> 0, by |-> 0])
    /\ Emit(MsgEvent(c, Len(db) + 1, 0))
    /\ UNCHANGED <<msgVars, blocked, sock, connected, visits, sends, typed>>

AckStored(i) ==
    /\ i \in Stored /\ db[i].ack < MaxAck /\ Room /\ Move
    /\ db' = [db EXCEPT ![i].ack = @ + 1]
    /\ Emit([t |-> "message_acked", c |-> db[i].c, i |-> i, n |-> db[i].ack + 1])
    /\ UNCHANGED <<msgVars, blocked, sock, connected, visits, sends, typed>>

ContactResolved ==
    /\ Room /\ Move /\ \E i \in Stored : db[i].c = Prefix
    /\ db' = [i \in Stored |-> IF db[i].c = Prefix THEN [db[i] EXCEPT !.c = Full] ELSE db[i]]
    /\ Emit([t |-> "contact_resolved", c |-> Full, i |-> 0, n |-> 0])
    /\ UNCHANGED <<msgVars, blocked, sock, connected, visits, sends, typed>>

\* What GET /messages and /messages/around return for a request.
ReplyRows(r) ==
    CASE r.k \in {"latest", "reconcile"} -> Newest(Visible(r.c), Page)
      [] r.k = "older"   -> Newest({i \in Visible(r.c) : i < r.a}, Page)
      [] r.k = "newer"   -> Oldest({i \in Visible(r.c) : i > r.a}, Page)
      [] r.k = "unblock" -> {i \in Visible(r.c) : i > r.a}
      [] r.k = "around"  -> Visible(r.c) \cap {r.a}

ServerReads(r) ==
    /\ r \in reqs /\ ~r.done /\ Ready
    /\ reqs' = (reqs \ {r}) \cup
               {[r EXCEPT !.done = TRUE,
                          !.data = [rows  |-> AcksOf(ReplyRows(r)),
                                    older |-> r.k = "around" /\ \E i \in Visible(r.c) : i < r.a,
                                    newer |-> r.k = "around" /\ \E i \in Visible(r.c) : i > r.a]]}
    /\ UNCHANGED <<active, wanted, listVars, flagVars, cache, envVars>>

(***************************************************************************)
(* useWebSocket                                                            *)
(***************************************************************************)

\* onopen: after the first connection every opening is a reconnection.
SocketOpens ==
    /\ sock = "closed" /\ Ready
    /\ connected => Free
    /\ sock' = "open" /\ connected' = TRUE
    /\ IF connected THEN ReconcileOnReconnect ELSE UNCHANGED msgVars
    /\ UNCHANGED <<db, blocked, wire, moves, visits, sends, typed>>

\* onclose: events on the way are lost; a timer will connect again.
SocketCloses ==
    /\ sock = "open" /\ Move
    /\ sock' = "waiting" /\ wire' = <<>>
    /\ UNCHANGED <<msgVars, db, blocked, connected, visits, sends, typed>>

ReconnectTimer ==
    /\ sock = "waiting" /\ Ready /\ sock' = "closed"
    /\ UNCHANGED <<msgVars, db, blocked, wire, connected, moves, visits, sends, typed>>

Handled(t) == wire # <<>> /\ Head(wire).t = t /\ Ready /\ wire' = Tail(wire)

\* A message of a blocked sender is not observed.
OnMessage ==
    /\ Handled("message")
    /\ IF Head(wire).i \in Hidden THEN UNCHANGED msgVars
       ELSE ObserveMessage(Head(wire).c, Head(wire).i, Head(wire).n)
    /\ UNCHANGED <<db, blocked, sock, connected, moves, visits, sends, typed>>

OnMessageAcked ==
    /\ Handled("message_acked")
    /\ ReceiveMessageAck(Head(wire).i, Head(wire).n)
    /\ UNCHANGED <<db, blocked, sock, connected, moves, visits, sends, typed>>

\* The cache entry moves to the full key, and so does the open conversation.
OnContactResolved ==
    /\ Handled("contact_resolved")
    /\ cache' = CacheRename(Prefix, Full)
    /\ wanted' = IF active.id = Prefix THEN [wanted EXCEPT !.id = Full] ELSE wanted
    /\ UNCHANGED <<active, listVars, flagVars, reqs, db, blocked, sock, connected, moves,
                   visits, sends, typed>>

(***************************************************************************)
(* The user                                                                *)
(***************************************************************************)
SelectConversation(c) ==
    /\ Visit /\ c # active.id
    /\ wanted' = [id |-> c, target |-> 0]
    /\ UNCHANGED <<active, listVars, flagVars, cache, reqs, db, blocked, wire, sock, connected, moves, sends, typed>>

\* A search result: the conversation and the message in it.
OpenAtMessage(i) ==
    /\ Visit /\ i \in Stored \ Hidden /\ active # [id |-> db[i].c, target |-> i]
    /\ wanted' = [id |-> db[i].c, target |-> i]
    /\ UNCHANGED <<active, listVars, flagVars, cache, reqs, db, blocked, wire, sock, connected, moves, sends, typed>>

\* The list has scrolled to the target.
TargetReached ==
    /\ Ready /\ active.target \in DOMAIN messages
    /\ wanted' = [active EXCEPT !.target = 0]
    /\ UNCHANGED <<active, listVars, flagVars, cache, reqs, envVars>>

ToggleBlocked ==
    /\ Move /\ (blocked => Free)
    /\ blocked' = ~blocked
    /\ ApplyBlockListChange(IF blocked THEN {} ELSE Rude, blocked)
    /\ UNCHANGED <<db, wire, sock, connected, visits, sends, typed>>

Browse ==
    /\ Ready /\ (FetchOlderMessages \/ FetchNewerMessages \/ JumpToBottom)
    /\ UNCHANGED envVars

\* handleSendMessage: the text joins the chain of sends.
HandleSendMessage ==
    /\ Move /\ IsMessageConversation(active.id)
    /\ typed' = typed + 1
    /\ sends' = Append(sends, [by |-> typed + 1, c |-> active.id, i |-> 0])
    /\ UNCHANGED <<msgVars, db, blocked, wire, sock, connected, visits>>

MutInFlight(k) == sends[k].i = 0

\* Each send starts when the one before it has ended, well or badly.
InFlight(k) == k = 1 /\ sends[k].i = 0

ServerAccepts(k) ==
    /\ k \in DOMAIN sends /\ InFlight(k) /\ Ready /\ Len(db) < MaxMsg /\ Room
    /\ LET c == KeyNow(sends[k].c) IN
       /\ db' = Append(db, [k |-> sends[k].c, c |-> c, ack |-> 0, by |-> sends[k].by])
       /\ Emit(MsgEvent(c, Len(db) + 1, 0))
    /\ sends' = [sends EXCEPT ![k].i = Len(db) + 1]
    /\ UNCHANGED <<msgVars, blocked, sock, connected, moves, visits, typed>>

\* The response: shown if its conversation is still open.
SendReturns ==
    /\ Ready /\ sends # <<>> /\ Head(sends).i # 0
    /\ IF active.id = Head(sends).c
       THEN ObserveMessage(db[Head(sends).i].c, Head(sends).i, 0)
       ELSE UNCHANGED msgVars
    /\ sends' = Tail(sends)
    /\ UNCHANGED <<db, blocked, wire, sock, connected, moves, visits, typed>>

\* Refused, or the response is lost: only the pending row goes.
SendFails ==
    /\ Ready /\ sends # <<>>
    /\ sends' = Tail(sends)
    /\ UNCHANGED <<msgVars, db, blocked, wire, sock, connected, moves, visits, typed>>

React ==
    /\ Commit \/ CommitTargetCleared \/ CommitToView \/ CommitToTarget \/ CommitToCached
       \/ CommitToUncached
    /\ UNCHANGED envVars

Failure ==
    /\ Move /\ \E r \in reqs : RequestFails(r)
    /\ UNCHANGED <<db, blocked, wire, sock, connected, visits, sends, typed>>

Answer == Ready /\ (\E r \in reqs : Arrives(r)) /\ UNCHANGED envVars

Next ==
    \/ React \/ Answer \/ Failure \/ Browse
    \/ \E r \in reqs : ServerReads(r)
    \/ \E c \in Convs : MessageStored(c)
    \/ \E i \in Stored : AckStored(i) \/ OpenAtMessage(i)
    \/ ContactResolved
    \/ SocketOpens \/ SocketCloses \/ ReconnectTimer
    \/ OnMessage \/ OnMessageAcked \/ OnContactResolved
    \/ \E c \in Convs \cup {"view"} : SelectConversation(c)
    \/ TargetReached \/ ToggleBlocked
    \/ HandleSendMessage \/ (\E k \in DOMAIN sends : ServerAccepts(k))
    \/ SendReturns \/ SendFails

Spec == Init /\ [][Next]_vars

\* Every variable has its type; the cache stays within its cap of conversations
\* (useConversationMessages.ts:60).
TypeOK ==
    /\ MsgTypeOK
    /\ Len(wire) <= MaxWire /\ sock \in {"closed", "waiting", "open"}
    /\ \A k \in DOMAIN sends : sends[k].i \in 0..MaxMsg

\* A row belongs to conversation c under the key it was stored with or under
\* the key its contact resolved to.
Of(i, c) == c \in {db[i].k, db[i].c}

\* Every row shown is of the open conversation, and every cached row of the
\* conversation it is cached for, whatever answers arrive after a switch
\* (useConversationMessages.ts:460, :502).
OwnConversation ==
    /\ \A i \in DOMAIN messages : Of(i, active.id)
    /\ \A k \in DOMAIN cache : \A i \in DOMAIN cache[k].rows : Of(i, cache[k].id)

\* The rows shown are in the deduplication set, which is all that keeps an
\* appended page from doubling them (useConversationMessages.ts:638).
SeenCoversShown == DOMAIN messages \subseteq seen

\* A spinner over the list is always owed to a first page still in flight, also
\* after switches that abort one (useConversationMessages.ts:480).
NoStuckSpinner ==
    messagesLoading => \E r \in reqs : r.k \in {"latest", "around"}

\* An ACK that came before its message is not forgotten: no row is shown with
\* fewer ACKs than are buffered for it (useConversationMessages.ts:360), unless
\* the row was filed under a prefix first: it may be cached under both keys, and
\* updateAck stops at the first entry that holds it (:93).
PendingAckShown ==
    \A i \in DOMAIN messages \cap DOMAIN pendingAcks :
        db[i].k = db[i].c => messages[i] >= pendingAcks[i]

\* Sends reach the server one at a time, in the order typed
\* (useConversationActions.ts:96).
SendsInOrder ==
    \A i, j \in Stored : i < j /\ db[i].by # 0 /\ db[j].by # 0 => db[i].by < db[j].by

\* The ACK count of a row that stays on screen never falls, as the hook's test
\* "keeps highest ACK state" has it (useConversationMessages.race.test.ts:149).
AckMonotone ==
    [][\A i \in DOMAIN messages \cap DOMAIN messages' :
          active' = active => messages'[i] >= messages[i]]_vars

\* The inductive invariant behind SendsInOrder: the sends that wait are in the
\* order typed, only the first may have reached the server, and each that has
\* not was typed after all the server has.
DbRow == [k : Convs, c : Convs, ack : Nat, by : Nat]
Send  == [by : Nat, c : Convs, i : Nat]
SendTypes == db \in Seq(DbRow) /\ sends \in Seq(Send) /\ typed \in Nat
TypedBound ==
    /\ \A i \in DOMAIN db : db[i].by <= typed
    /\ \A k \in DOMAIN sends : 0 < sends[k].by /\ sends[k].by <= typed
QueueInOrder == \A j, k \in DOMAIN sends : j < k => sends[j].by < sends[k].by
OnlyFirstSent == \A k \in DOMAIN sends : k # 1 => sends[k].i = 0
WaitingIsNewer == \A k \in DOMAIN sends, i \in DOMAIN db : sends[k].i = 0 => db[i].by < sends[k].by
SendInv ==
    /\ SendTypes /\ TypedBound /\ QueueInOrder /\ OnlyFirstSent /\ WaitingIsNewer /\ SendsInOrder

\* The inductive invariants behind the other properties of the list.  The
\* server's part: every row has the key it was stored with or the resolved one;
\* once resolved, nothing is filed under the prefix; an event names stored rows
\* of its conversation, and contact_resolved is sent after the rows have moved.
Event == [t : {"message", "message_acked", "contact_resolved"}, c : Convs, i : Nat, n : Nat]
FiledByKey ==
    /\ \A i \in Stored : db[i].k = db[i].c \/ (db[i].k = Prefix /\ db[i].c = Full)
    /\ Resolved => \A i \in Stored : db[i].c # Prefix
EventOK(e) ==
    /\ e.t # "contact_resolved" => e.i \in Stored
    /\ e.t = "message" => Of(e.i, e.c)
    /\ e.t = "contact_resolved" => Resolved
ServerInv ==
    /\ Len(db) <= MaxMsg /\ FiledByKey
    /\ wire \in Seq(Event) /\ Len(wire) <= MaxWire /\ \A k \in DOMAIN wire : EventOK(wire[k])
    /\ \A k \in DOMAIN sends : sends[k].i \in 0..Len(db)

\* The client's part: the rows shown, cached or fetched are of their conversation
\* and, outside a request, have the ACKs buffered for them.
RowSet  == UNION {[D -> Nat] : D \in SUBSET Ids}
View    == [id : Convs \cup {None, "view"}, target : 0..MaxMsg]
CacheEntry == [id : Convs, rows : RowSet, older : BOOLEAN]
GoodRows(f, c, acks) ==
    /\ f \in RowSet
    /\ \A i \in DOMAIN f :
          /\ i \in Stored /\ Of(i, c)
          /\ i \in DOMAIN acks /\ db[i].k = db[i].c => f[i] >= acks[i]
OneEntryPerKey(q) == \A j, k \in DOMAIN q : q[j].id = q[k].id => j = k
GoodCache(q, acks) ==
    /\ q \in Seq(CacheEntry) /\ Len(q) <= CacheCap /\ OneEntryPerKey(q)
    /\ \A k \in DOMAIN q : GoodRows(q[k].rows, q[k].id, acks)
GoodReq(r) ==
    /\ DOMAIN r = {"k", "c", "a", "id", "ab", "from", "done", "data"}
    /\ r.k \in {"latest", "reconcile", "older", "newer", "unblock", "around"}
    /\ r.c \in Convs /\ r.data.older \in BOOLEAN /\ r.data.newer \in BOOLEAN
    /\ GoodRows(r.data.rows, r.c, Empty)
ListTypes ==
    /\ active \in View /\ wanted \in View /\ reconcileId \in Nat
    /\ {hasOlder, hasOlderRef, hasNewer, hasNewerRef, messagesLoading, loadingOlder,
        loadingNewer, olderDone, pendingReconnect} \subseteq BOOLEAN
    /\ sock \in {"closed", "waiting", "open"}
ListRows ==
    /\ messagesRef \in RowSet /\ pendingAcks \in RowSet /\ seen \subseteq Ids
    /\ GoodRows(messages, active.id, pendingAcks)
    /\ active.id \notin Convs => messages = Empty
    /\ GoodCache(cache, pendingAcks)
    /\ \A r \in reqs : GoodReq(r)
    /\ SeenCoversShown
ListInv == ListTypes /\ ListRows
=============================================================================
