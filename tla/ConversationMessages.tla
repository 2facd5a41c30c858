------------------------ MODULE ConversationMessages ------------------------
(***************************************************************************)
(* The message list of the web client                                      *)
(* (frontend/src/hooks/useConversationMessages.ts): the open conversation, *)
(* the cache of the others, ACKs that came before their message, and the   *)
(* requests in flight.                                                     *)
(*                                                                         *)
(* A message is its database id; ids grow in the order of received_at.  A  *)
(* list of messages is a function from ids to ACK counts.                  *)
(* `messages` is React's state with every queued update applied;           *)
(* `messagesRef` is what the last commit copied into the ref.  Handlers     *)
(* read the ref, so what they see may be older than what they change.      *)
(***************************************************************************)
EXTENDS Integers, FiniteSets, Sequences, SequencesExt, FiniteSetsExt, TLC

CONSTANTS Convs,        \* keys of channels and contacts
          Page,         \* MESSAGE_PAGE_SIZE
          EntryCap,     \* MAX_MESSAGES_PER_ENTRY
          CacheCap,     \* MAX_CACHED_CONVERSATIONS
          MaxMsg,       \* bound: messages ever stored
          MaxReqs       \* bound: requests in flight

ASSUME MessageBounds ==
    /\ Page \in Nat \ {0} /\ EntryCap \in Nat \ {0} /\ CacheCap \in Nat \ {0}
    /\ MaxMsg \in Nat /\ MaxReqs \in Nat

VARIABLES
    active,           \* the committed conversation and target message
    wanted,           \* what the next commit will open
    messages, messagesRef,
    hasOlder, hasOlderRef, hasNewer, hasNewerRef,
    seen,             \* seenMessageContent
    pendingAcks,      \* pendingAcksRef
    messagesLoading, loadingOlder, loadingNewer,
    olderDone,        \* olderFetchedFromRef.current === messagesRef.current
    reconcileId,      \* latestReconcileRequestIdRef
    pendingReconnect, \* pendingReconnectReconcileRef
    cache,            \* conversationMessageCache, least recently used first
    reqs              \* requests in flight

listVars == <<messages, messagesRef, hasOlder, hasOlderRef, hasNewer, hasNewerRef,
              seen, pendingAcks>>
flagVars == <<messagesLoading, loadingOlder, loadingNewer, olderDone,
              reconcileId, pendingReconnect>>
msgVars  == <<active, wanted, listVars, flagVars, cache, reqs>>

Ids   == 1..MaxMsg
None  == "none"
Empty == [i \in {} |-> 0]
IsRows(f) == DOMAIN f \subseteq Ids /\ \A i \in DOMAIN f : f[i] \in Nat

Newest(S, n) == {i \in S : Cardinality({j \in S : j > i}) < n}
Oldest(S, n) == {i \in S : Cardinality({j \in S : j < i}) < n}
At(rows, S)  == [i \in S |-> rows[i]]
Row(i, n)    == [j \in {i} |-> n]
\* The rows of both; where both have one, that of f.
Over(f, g)   == [i \in DOMAIN f \cup DOMAIN g |-> IF i \in DOMAIN f THEN f[i] ELSE g[i]]

\* A view such as the map or the packet feed has no messages.
IsMessageConversation(id) == id \in Convs

(***************************************************************************)
(* ConversationMessageCache                                                *)
(***************************************************************************)
Slots(q, c)   == {k \in DOMAIN q : q[k].id = c}
EntryIn(q, c) == q[CHOOSE k \in Slots(q, c) : TRUE]
Cached(c)     == Slots(cache, c) # {}
EntryOf(c)    == EntryIn(cache, c)

\* A key has one entry at most, as in every Map (OneEntryPerKey).
CacheRemove(q, c) ==
    IF Slots(q, c) = {} THEN q ELSE RemoveAt(q, CHOOSE k \in Slots(q, c) : TRUE)

MutEvictOldest(q) == q

EvictOldest(q) == IF Len(q) > CacheCap THEN Tail(q) ELSE q

\* normalizeEntry: the newest EntryCap messages stay.
Normalize(e) ==
    IF Cardinality(DOMAIN e.rows) <= EntryCap THEN e
    ELSE [e EXCEPT !.rows = At(@, Newest(DOMAIN @, EntryCap)), !.older = TRUE]

CacheSet(q, e) == EvictOldest(Append(CacheRemove(q, e.id), Normalize(e)))

\* get: the entry becomes the one used last.
CacheGet(q, c) == Append(CacheRemove(q, c), EntryIn(q, c))

\* addMessage: a conversation that is not cached gets an entry of one message.
CacheAdd(c, i, n) ==
    IF ~Cached(c) THEN EvictOldest(Append(cache, [id |-> c, rows |-> Row(i, n), older |-> TRUE]))
    ELSE IF i \in DOMAIN EntryOf(c).rows THEN cache
    ELSE Append(CacheRemove(cache, c),
                Normalize([EntryOf(c) EXCEPT !.rows = Over(@, Row(i, n))]))

MutCacheAck(i, n) == cache

\* updateAck: the first entry that holds the message.
CacheAck(i, n) ==
    LET holders == {k \in DOMAIN cache : i \in DOMAIN cache[k].rows} IN
    IF holders = {} THEN cache
    ELSE [cache EXCEPT ![Min(holders)].rows[i] = IF n > @ THEN n ELSE @]

CacheRename(old, new) ==
    IF ~Cached(old) THEN cache
    ELSE IF ~Cached(new)
    THEN Append(CacheRemove(cache, old), [EntryOf(old) EXCEPT !.id = new])
    ELSE LET merged == Normalize([id    |-> new,
                                  rows  |-> Over(EntryOf(new).rows, EntryOf(old).rows),
                                  older |-> EntryOf(new).older \/ EntryOf(old).older])
         IN  [k \in DOMAIN CacheRemove(cache, old) |->
                IF CacheRemove(cache, old)[k].id = new THEN merged
                ELSE CacheRemove(cache, old)[k]]

(***************************************************************************)
(* Merging                                                                 *)
(***************************************************************************)

\* reconcileConversationMessages: the fetched rows replace the current ones.
NeedsUpdate(current, fetched) ==
    \E i \in DOMAIN fetched : i \notin DOMAIN current \/ current[i] # fetched[i]

Reconciled(current, fetched) ==
    IF NeedsUpdate(current, fetched) THEN Over(fetched, current) ELSE current

AppendUnique(current, incoming) == Over(current, incoming)

\* applyPendingAck on every row of an answer; the buffered counts are consumed.
WithPendingAcks(rows) ==
    [i \in DOMAIN rows |->
        IF i \in DOMAIN pendingAcks /\ pendingAcks[i] > rows[i] THEN pendingAcks[i] ELSE rows[i]]

AcksLeft(rows) == At(pendingAcks, DOMAIN pendingAcks \ DOMAIN rows)

\* setPendingAck with mergePendingAck: the higher count stays.
Buffered(i, n) ==
    IF i \in DOMAIN pendingAcks /\ pendingAcks[i] >= n THEN pendingAcks
    ELSE Over(Row(i, n), pendingAcks)

MutSeenOf(rows) == seen

\* syncSeenContent
SeenOf(rows) == DOMAIN rows

(***************************************************************************)
(* Requests.  `ab` says that a later switch aborts the request.            *)
(***************************************************************************)
NoData == [rows |-> Empty, older |-> FALSE, newer |-> FALSE]

Req(k, c, a, id, ab) ==
    [k |-> k, c |-> c, a |-> a, id |-> id, ab |-> ab, from |-> Empty,
     done |-> FALSE, data |-> NoData]

Free == Cardinality(reqs) < MaxReqs

MsgInit ==
    /\ active = [id |-> None, target |-> 0] /\ wanted = active
    /\ messages = Empty /\ messagesRef = Empty
    /\ hasOlder = FALSE /\ hasOlderRef = FALSE
    /\ hasNewer = FALSE /\ hasNewerRef = FALSE
    /\ seen = {} /\ pendingAcks = Empty
    /\ messagesLoading = FALSE /\ loadingOlder = FALSE /\ loadingNewer = FALSE
    /\ olderDone = FALSE /\ reconcileId = 0 /\ pendingReconnect = FALSE
    /\ cache = <<>> /\ reqs = {}

\* State that React has not committed yet.
Dirty == \/ wanted # active \/ messages # messagesRef
         \/ hasOlder # hasOlderRef \/ hasNewer # hasNewerRef

(***************************************************************************)
(* A commit.  The effects run in the order of the hook: the refs first,    *)
(* then, if the conversation or the target changed, the switch effect.     *)
(***************************************************************************)
CommitRefs ==
    /\ messagesRef' = messages /\ hasOlderRef' = hasOlder /\ hasNewerRef' = hasNewer

Commit ==
    /\ Dirty /\ wanted = active
    /\ CommitRefs
    /\ olderDone' = (olderDone /\ messages = messagesRef)
    /\ UNCHANGED <<active, wanted, messages, hasOlder, hasNewer, seen, pendingAcks,
                   messagesLoading, loadingOlder, loadingNewer, reconcileId, pendingReconnect,
                   cache, reqs>>

\* What the switch effect does first: abort, reset the reconcile guards.
Kept == {r \in reqs : ~r.ab}

MutLoadingAfterAbort == TRUE

\* An aborted first page ends in its finally block, after the effect has set
\* messagesLoading: the flag is lost for the request that replaces it.
LoadingAfterAbort == ~\E r \in reqs : r.ab /\ r.k \in {"latest", "around"}

\* The target was cleared on the same conversation: the loaded window stays.
CommitTargetCleared ==
    /\ wanted # active /\ wanted.id = active.id /\ wanted.target = 0
    /\ CommitRefs
    /\ olderDone' = (olderDone /\ messages = messagesRef)
    /\ active' = wanted /\ reqs' = Kept
    /\ reconcileId' = 0 /\ pendingReconnect' = FALSE
    /\ loadingOlder' = FALSE /\ loadingNewer' = FALSE
    /\ messagesLoading' = (messagesLoading /\ LoadingAfterAbort)
    /\ UNCHANGED <<wanted, messages, hasOlder, hasNewer, seen, pendingAcks, cache>>

\* The rows of the conversation being left go to the cache, unless they end
\* before its newest message.
Saved ==
    IF wanted.id # active.id /\ active.id # None /\ messages # Empty /\ ~hasNewer
    THEN CacheSet(cache, [id |-> active.id, rows |-> messages, older |-> hasOlder])
    ELSE cache

Switching ==
    /\ wanted # active /\ (wanted.id # active.id \/ wanted.target # 0)
    /\ CommitRefs
    /\ active' = wanted
    /\ loadingOlder' = FALSE /\ loadingNewer' = FALSE /\ olderDone' = FALSE
    /\ pendingReconnect' = FALSE
    /\ hasNewer' = (hasNewer /\ wanted.id = active.id)
    /\ UNCHANGED <<wanted, pendingAcks>>

CommitToView ==
    /\ Switching /\ ~IsMessageConversation(wanted.id)
    /\ messages' = Empty /\ hasOlder' = FALSE
    /\ cache' = Saved /\ reqs' = Kept /\ reconcileId' = 0
    /\ messagesLoading' = (messagesLoading /\ LoadingAfterAbort)
    /\ UNCHANGED seen

CommitToTarget ==
    /\ Switching /\ IsMessageConversation(wanted.id) /\ wanted.target # 0
    /\ messages' = Empty /\ cache' = Saved /\ reconcileId' = 0
    /\ messagesLoading' = LoadingAfterAbort
    /\ reqs' = Kept \cup {Req("around", wanted.id, wanted.target, 0, TRUE)}
    /\ UNCHANGED <<seen, hasOlder>>

\* A cached conversation is shown at once and compared with the server.
CommitToCached ==
    /\ Switching /\ IsMessageConversation(wanted.id) /\ wanted.target = 0
    /\ Slots(Saved, wanted.id) # {}
    /\ LET e == EntryIn(Saved, wanted.id) IN
       messages' = e.rows /\ seen' = SeenOf(e.rows) /\ hasOlder' = e.older
    /\ cache' = CacheGet(Saved, wanted.id)
    /\ messagesLoading' = FALSE
    /\ reconcileId' = 1
    /\ reqs' = Kept \cup {Req("reconcile", wanted.id, 0, 1, TRUE)}

CommitToUncached ==
    /\ Switching /\ IsMessageConversation(wanted.id) /\ wanted.target = 0
    /\ Slots(Saved, wanted.id) = {}
    /\ messages' = Empty /\ cache' = Saved /\ reconcileId' = 0
    /\ messagesLoading' = LoadingAfterAbort
    /\ reqs' = Kept \cup {Req("latest", wanted.id, 0, 0, TRUE)}
    /\ UNCHANGED <<seen, hasOlder>>

(***************************************************************************)
(* What the user asks of the list                                          *)
(***************************************************************************)
FetchOlderMessages ==
    /\ IsMessageConversation(active.id) /\ ~loadingOlder /\ hasOlderRef
    /\ ~olderDone /\ messagesRef # Empty /\ Free
    /\ loadingOlder' = TRUE
    /\ reqs' = reqs \cup {[Req("older", active.id, Min(DOMAIN messagesRef), 0, TRUE)
                           EXCEPT !.from = messagesRef]}
    /\ UNCHANGED <<active, wanted, listVars, messagesLoading, loadingNewer, olderDone,
                   reconcileId, pendingReconnect, cache>>

FetchNewerMessages ==
    /\ IsMessageConversation(active.id) /\ ~loadingNewer /\ hasNewerRef /\ messagesRef # Empty /\ Free
    /\ loadingNewer' = TRUE
    /\ reqs' = reqs \cup {Req("newer", active.id, Max(DOMAIN messagesRef), 0, TRUE)}
    /\ UNCHANGED <<active, wanted, listVars, messagesLoading, loadingOlder, olderDone,
                   reconcileId, pendingReconnect, cache>>

\* fetchLatestMessages(true) without a signal: no switch aborts it.
JumpToBottom ==
    /\ hasNewer /\ IsMessageConversation(active.id) /\ Free
    /\ hasNewer' = FALSE /\ messages' = Empty
    /\ cache' = CacheRemove(cache, active.id)
    /\ pendingReconnect' = FALSE /\ messagesLoading' = TRUE
    /\ reqs' = reqs \cup {Req("latest", active.id, 0, 0, FALSE)}
    /\ UNCHANGED <<active, wanted, messagesRef, hasOlder, hasOlderRef, hasNewerRef, seen,
                   pendingAcks, loadingOlder, loadingNewer, olderDone, reconcileId>>

(***************************************************************************)
(* Answers.  `r.data` holds the rows as the server read them.              *)
(***************************************************************************)
Answered(k, r) == r \in reqs /\ r.k = k /\ r.done
MutOurs(r) == TRUE

\* fetchingConversationIdRef.current !== conversationId
Ours(r) == r.c = active.id

\* The answer of a request for a conversation that is no longer open.
DropAnswer(r) ==
    /\ r \in reqs /\ r.done /\ ~Ours(r)
    /\ reqs' = reqs \ {r}
    /\ messagesLoading' = (messagesLoading /\ r.k \notin {"latest", "around"})
    /\ loadingOlder' = (loadingOlder /\ r.k # "older")
    /\ loadingNewer' = (loadingNewer /\ r.k # "newer")
    /\ UNCHANGED <<active, wanted, listVars, olderDone, reconcileId, pendingReconnect, cache>>

LatestArrives(r) ==
    /\ Answered("latest", r) /\ Ours(r)
    /\ LET next == Reconciled(messagesRef, WithPendingAcks(r.data.rows)) IN
       /\ messages' = IF next = messagesRef THEN messages ELSE next
       /\ seen' = SeenOf(next)
    /\ pendingAcks' = AcksLeft(r.data.rows)
    /\ hasOlder' = (Cardinality(DOMAIN r.data.rows) >= Page)
    /\ messagesLoading' = FALSE
    /\ reqs' = reqs \ {r}
    /\ UNCHANGED <<active, wanted, messagesRef, hasOlderRef, hasNewer, hasNewerRef,
                   loadingOlder, loadingNewer, olderDone, reconcileId, pendingReconnect, cache>>

\* Only the reconcile asked for last is applied.
ReconcileArrives(r) ==
    /\ Answered("reconcile", r) /\ Ours(r) /\ r.id = reconcileId
    /\ LET fetched == WithPendingAcks(r.data.rows) IN
       IF NeedsUpdate(messagesRef, fetched)
       THEN /\ messages' = Reconciled(messagesRef, fetched)
            /\ seen' = SeenOf(Reconciled(messagesRef, fetched))
       ELSE UNCHANGED <<messages, seen>>
    /\ pendingAcks' = AcksLeft(r.data.rows)
    /\ hasOlder' = (Cardinality(DOMAIN r.data.rows) >= Page)
    /\ reqs' = reqs \ {r}
    /\ UNCHANGED <<active, wanted, messagesRef, hasOlderRef, hasNewer, hasNewerRef,
                   flagVars, cache>>

ReconcileOutdated(r) ==
    /\ Answered("reconcile", r) /\ Ours(r) /\ r.id # reconcileId
    /\ reqs' = reqs \ {r}
    /\ UNCHANGED <<active, wanted, listVars, flagVars, cache>>

\* The merge runs at once, and moves the ref, only when React has no update
\* queued.
OlderArrives(r) ==
    /\ Answered("older", r) /\ Ours(r)
    /\ messages' = AppendUnique(messages, WithPendingAcks(r.data.rows))
    /\ IF ~Dirty /\ messages' # messages
       THEN messagesRef' = messages' /\ seen' = SeenOf(messages')
       ELSE UNCHANGED <<messagesRef, seen>>
    /\ olderDone' = (r.from = messagesRef /\ messagesRef' = messagesRef)
    /\ pendingAcks' = AcksLeft(r.data.rows)
    /\ hasOlder' = (Cardinality(DOMAIN r.data.rows) >= Page)
    /\ loadingOlder' = FALSE /\ reqs' = reqs \ {r}
    /\ UNCHANGED <<active, wanted, hasOlderRef, hasNewer, hasNewerRef, messagesLoading,
                   loadingNewer, reconcileId, pendingReconnect, cache>>

\* The page is appended without a look at ids: only `seen` keeps rows single.
\* A reconcile that a reconnect deferred runs once the tail is reached.
NewerArrives(r) ==
    LET rows == WithPendingAcks(r.data.rows)
        more == Cardinality(DOMAIN rows) >= Page
        due  == ~more /\ pendingReconnect
    IN  /\ Answered("newer", r) /\ Ours(r) /\ (due => Cardinality(reqs) <= MaxReqs)
        /\ messages' = Over(messages, At(rows, DOMAIN rows \ seen))
        /\ seen' = seen \cup DOMAIN rows
        /\ pendingAcks' = AcksLeft(rows)
        /\ hasNewer' = more /\ loadingNewer' = FALSE
        /\ pendingReconnect' = (pendingReconnect /\ more)
        /\ reconcileId' = IF due THEN reconcileId + 1 ELSE reconcileId
        /\ reqs' = (reqs \ {r}) \cup
                   (IF due THEN {Req("reconcile", active.id, 0, reconcileId + 1, FALSE)} ELSE {})
        /\ UNCHANGED <<active, wanted, messagesRef, hasOlder, hasOlderRef, hasNewerRef,
                       messagesLoading, loadingOlder, olderDone, cache>>

AroundArrives(r) ==
    /\ Answered("around", r) /\ Ours(r)
    /\ messages' = WithPendingAcks(r.data.rows) /\ seen' = SeenOf(r.data.rows)
    /\ pendingAcks' = AcksLeft(r.data.rows)
    /\ hasOlder' = r.data.older /\ hasNewer' = r.data.newer
    /\ messagesLoading' = FALSE /\ reqs' = reqs \ {r}
    /\ UNCHANGED <<active, wanted, messagesRef, hasOlderRef, hasNewerRef, loadingOlder,
                   loadingNewer, olderDone, reconcileId, pendingReconnect, cache>>

\* The refetch after an unblock; in jump mode rows past the window are left.
UnblockedArrives(r) ==
    /\ Answered("unblock", r) /\ Ours(r)
    /\ LET inWindow == {i \in DOMAIN r.data.rows : hasNewerRef => i <= r.id}
           merged   == AppendUnique(messagesRef, At(WithPendingAcks(r.data.rows), inWindow))
       IN  /\ IF merged # messagesRef
              THEN messages' = merged /\ messagesRef' = merged /\ seen' = SeenOf(merged)
              ELSE UNCHANGED <<messages, messagesRef, seen>>
           /\ pendingAcks' = AcksLeft(At(r.data.rows, inWindow))
    /\ olderDone' = (olderDone /\ messagesRef' = messagesRef)
    /\ reqs' = reqs \ {r}
    /\ UNCHANGED <<active, wanted, hasOlder, hasOlderRef, hasNewer, hasNewerRef, messagesLoading,
                   loadingOlder, loadingNewer, reconcileId, pendingReconnect, cache>>

\* A request that fails only ends its spinner.
RequestFails(r) ==
    /\ r \in reqs /\ ~r.done
    /\ reqs' = reqs \ {r}
    /\ messagesLoading' = (messagesLoading /\ r.k \notin {"latest", "around"})
    /\ loadingOlder' = (loadingOlder /\ r.k # "older")
    /\ loadingNewer' = (loadingNewer /\ r.k # "newer")
    /\ UNCHANGED <<active, wanted, listVars, olderDone, reconcileId, pendingReconnect, cache>>

Arrives(r) ==
    \/ DropAnswer(r) \/ LatestArrives(r) \/ ReconcileArrives(r) \/ ReconcileOutdated(r)
    \/ OlderArrives(r) \/ NewerArrives(r) \/ AroundArrives(r) \/ UnblockedArrives(r)

(***************************************************************************)
(* What the socket's handlers call                                         *)
(***************************************************************************)

\* receiveMessageAck: a row that is not loaded gets its count later.
ReceiveMessageAck(i, n) ==
    /\ IF i \in DOMAIN messagesRef /\ i \in DOMAIN messages
       THEN /\ messages' = [messages EXCEPT ![i] = IF n > @ THEN n ELSE @]
            /\ pendingAcks' = At(pendingAcks, DOMAIN pendingAcks \ {i})
       ELSE pendingAcks' = Buffered(i, n) /\ UNCHANGED messages
    /\ cache' = CacheAck(i, n)
    /\ UNCHANGED <<active, wanted, messagesRef, hasOlder, hasOlderRef, hasNewer, hasNewerRef,
                   seen, flagVars, reqs>>

\* observeMessage.  While the window ends before the newest message, a new one
\* is left to load-newer.
ObserveMessage(c, i, n) ==
    LET ack == WithPendingAcks(Row(i, n))[i] IN
    /\ pendingAcks' = AcksLeft(Row(i, n))
    /\ CASE c # active.id -> cache' = CacheAdd(c, i, ack) /\ UNCHANGED <<messages, seen>>
         [] c = active.id /\ (hasNewerRef \/ i \in seen) -> UNCHANGED <<cache, messages, seen>>
         [] OTHER -> /\ seen' = seen \cup {i}
                     /\ messages' = Over(messages, Row(i, ack))
                     /\ UNCHANGED cache
    /\ UNCHANGED <<active, wanted, messagesRef, hasOlder, hasOlderRef, hasNewer, hasNewerRef,
                   flagVars, reqs>>

\* While the window ends before the newest message the reconcile waits.
ReconcileOnReconnect ==
    /\ IF ~IsMessageConversation(active.id) THEN UNCHANGED <<reconcileId, pendingReconnect, reqs>>
       ELSE IF hasNewerRef THEN pendingReconnect' = TRUE /\ UNCHANGED <<reconcileId, reqs>>
       ELSE /\ pendingReconnect' = FALSE /\ reconcileId' = reconcileId + 1
            /\ reqs' = reqs \cup {Req("reconcile", active.id, 0, reconcileId + 1, FALSE)}
    /\ UNCHANGED <<active, wanted, listVars, messagesLoading, loadingOlder, loadingNewer,
                   olderDone, cache>>

\* applyBlockListChange: blocked rows leave the list, the cache is emptied, and
\* after an unblock the loaded window is fetched again.
ApplyBlockListChange(blockedIds, refetch) ==
    LET visible == At(messagesRef, DOMAIN messagesRef \ blockedIds) IN
    /\ cache' = <<>>
    /\ IF IsMessageConversation(active.id) /\ visible # messagesRef
       THEN messages' = visible /\ messagesRef' = visible /\ seen' = SeenOf(visible)
       ELSE UNCHANGED <<messages, messagesRef, seen>>
    /\ olderDone' = (olderDone /\ messagesRef' = messagesRef)
    /\ reqs' = IF IsMessageConversation(active.id) /\ refetch /\ visible # Empty
               THEN reqs \cup {Req("unblock", active.id, Min(DOMAIN visible),
                                   Max(DOMAIN visible), FALSE)}
               ELSE reqs
    /\ UNCHANGED <<active, wanted, hasOlder, hasOlderRef, hasNewer, hasNewerRef, pendingAcks,
                   messagesLoading, loadingOlder, loadingNewer, reconcileId, pendingReconnect>>

MsgTypeOK ==
    /\ active \in [id : Convs \cup {None, "view"}, target : 0..MaxMsg]
    /\ wanted \in [id : Convs \cup {None, "view"}, target : 0..MaxMsg]
    /\ IsRows(messages) /\ IsRows(messagesRef) /\ IsRows(pendingAcks)
    /\ seen \subseteq Ids /\ reconcileId \in Nat
    /\ {hasOlder, hasOlderRef, hasNewer, hasNewerRef, messagesLoading, loadingOlder,
        loadingNewer, olderDone, pendingReconnect} \subseteq BOOLEAN
    /\ Len(cache) <= CacheCap
    /\ \A k \in DOMAIN cache : cache[k].id \in Convs /\ IsRows(cache[k].rows)
    /\ \A r \in reqs : r.c \in Convs
=============================================================================
