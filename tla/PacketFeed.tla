------------------------------- MODULE PacketFeed -------------------------------
(***************************************************************************)
(* The raw packet feed: the buffer of packets and the statistics of the    *)
(* browser session that live outside the components (rawPacketStore.ts),   *)
(* what is computed from them (rawPacketStats.ts) and the view that shows  *)
(* both (RawPacketFeedView.tsx).  Packets are stamped by the server's      *)
(* clock, windows are cut by the browser's; the tasks that process two     *)
(* packets may finish in either order.                                     *)
(***************************************************************************)
EXTENDS Integers, Sequences, FiniteSets, SequencesExt, FiniteSetsExt, Selections

CONSTANTS
    Frames,           \* packets by what decoding them gives; see SourceInfo
    KnownTypes,       \* KNOWN_PAYLOAD_TYPES, cut down
    FeedContacts,     \* contacts the client may come to know
    StartsWith,       \* the contacts whose key begins with a source's, by source
    MaxBuffered,      \* MAX_RAW_PACKETS, cut down
    MaxObservations,  \* MAX_RAW_PACKET_STATS_OBSERVATIONS, cut down
    MaxRanked,        \* neighbours in a list, cut down
    Ticks,            \* seconds that may pass at once
    Skews,            \* how far the server's clock is ahead of the browser's
    StartWindows,     \* windows that may be chosen before the first packet
    MaxFeedSteps      \* bound on packets, ticks, faults and the user's steps

VARIABLES
    feedClock, skew,     \* the browser's clock, in seconds, and the server's lead
    nextObservation,     \* _raw_observation_counter; it starts again with the server
    inProcess,           \* packets the server has heard and not yet announced
    feedSocket,          \* the socket is open
    buffered,            \* packets of the store
    session,             \* statsSession of the store
    feedContacts,        \* contacts of the client
    feed,                \* the state of the view; Closed while it is not mounted
    announced,           \* every packet the client was sent in this session
    restarted,           \* the server has restarted in this session
    feedSteps

feedVars == <<feedClock, skew, nextObservation, inProcess, feedSocket, buffered, session,
              feedContacts, feed, announced, restarted, feedSteps>>

Windows == {"1m", "5m", "10m", "30m", "session"}
HexKinds == {"none", "hex", "invalid"}

ASSUME FeedAssumption ==
    /\ MaxBuffered \in Nat /\ MaxObservations \in Nat \ {0} /\ MaxRanked \in Nat
    /\ "Unknown" \in KnownTypes /\ StartWindows \subseteq Windows /\ Ticks \subseteq Nat /\ Skews \subseteq Int

WindowSeconds(w) == CASE w = "1m" -> 60 [] w = "5m" -> 300 [] w = "10m" -> 600 [] OTHER -> 1800
NoSource == <<>>
NoRssi == -999
Closed == [open |-> FALSE]
Opened(wide) ==
    [open |-> TRUE, statsOpen |-> wide, window |-> "10m", nowSec |-> feedClock, selected |-> 0,
     enabled |-> KnownTypes, hex |-> "none"]

\* The feed may be open, with a window chosen, before the first packet is heard.
FeedInit ==
    /\ feedClock = 0 /\ skew \in Skews /\ nextObservation = 1 /\ inProcess = {} /\ feedSocket = TRUE
    /\ buffered = <<>>
    /\ session = [startedAt |-> 0, total |-> 0, trimmed |-> 0, observations |-> <<>>]
    /\ feedContacts = {} /\ announced = <<>> /\ restarted = FALSE
    /\ feed \in {Closed} \cup {[Opened(TRUE) EXCEPT !.window = w] : w \in StartWindows}
    /\ feedSteps = 0

FeedAct == feedSteps < MaxFeedSteps /\ feedSteps' = feedSteps + 1

(***************************************************************************)
(* What is kept of a packet for the statistics.                            *)
(***************************************************************************)
\* getSourceInfo: who sent it, as a key, the hash of a key or a name.
SourceInfo(f) ==
    LET known   == IF f.contact # 0 THEN <<"key", f.contact>> ELSE NoSource
        orName  == IF f.contact # 0 THEN known ELSE IF f.sender # 0 THEN <<"name", f.sender>> ELSE NoSource
        orHash  == IF f.contact # 0 THEN known ELSE IF f.key # 0 THEN <<"hash", f.key>> ELSE NoSource
        fromKey == IF f.key # 0 THEN <<"key", f.key>> ELSE NoSource
    IN  CASE ~f.valid -> orName
          [] f.valid /\ f.type \in {"Advert", "AnonRequest"} -> fromKey
          [] f.valid /\ f.type \in {"TextMessage", "Request", "Response"} -> orHash
          [] f.valid /\ f.type = "GroupText" -> orName
          [] OTHER -> known

Summarize(p) ==
    LET f == p.frame IN
    [key |-> p.id, timestamp |-> p.timestamp, decrypted |-> f.decrypted, rssi |-> f.rssi,
     payloadType |-> IF f.valid THEN f.type ELSE f.stated,
     source |-> SourceInfo(f),
     hops |-> IF f.valid THEN f.hops ELSE 0, width |-> IF f.valid THEN f.width ELSE 0]

(***************************************************************************)
(* The store.                                                              *)
(***************************************************************************)
Newest(s, n) == IF Len(s) > n THEN SubSeq(s, Len(s) - n + 1, Len(s)) ELSE s

\* appendRawPacketUnique.
AppendUnique(p) ==
    IF \E i \in DOMAIN buffered : buffered[i].id = p.id THEN buffered
    ELSE Newest(Append(buffered, p), MaxBuffered)

\* observePacket: the oldest observations make room, and are counted.
ObservePacket(p) ==
    LET all == Append(session.observations, Summarize(p)) IN
    IF \E i \in DOMAIN session.observations : session.observations[i].key = p.id THEN session
    ELSE [session EXCEPT !.total = @ + 1,
                         !.observations = Newest(all, MaxObservations),
                         !.trimmed = @ + (Len(all) - Len(Newest(all, MaxObservations)))]

\* The effect of the view on packets and statistics that have changed.
FeedFollows ==
    feed' = IF feed.open /\ (buffered' # buffered \/ session' # session)
            THEN [feed EXCEPT !.nowSec = feedClock] ELSE feed

\* recordRawPacket, for each packet that is announced while the socket is open.
RecordRawPacket(p) ==
    /\ p \in inProcess /\ inProcess' = inProcess \ {p}
    /\ IF feedSocket
       THEN buffered' = AppendUnique(p) /\ session' = ObservePacket(p) /\ announced' = Append(announced, p)
       ELSE UNCHANGED <<buffered, session, announced>>
    /\ FeedFollows
    /\ UNCHANGED <<feedClock, skew, nextObservation, feedSocket, feedContacts, restarted, feedSteps>>

\* The radio hears a packet: the server numbers and stamps it.
HearPacket(f) ==
    /\ FeedAct
    /\ inProcess' = inProcess \cup {[id |-> nextObservation, timestamp |-> feedClock + skew, frame |-> f]}
    /\ nextObservation' = nextObservation + 1
    /\ UNCHANGED <<feedClock, skew, feedSocket, buffered, session, feedContacts, feed, announced, restarted>>

SocketCloses ==
    /\ FeedAct /\ feedSocket /\ feedSocket' = FALSE
    /\ UNCHANGED <<feedClock, skew, nextObservation, inProcess, buffered, session, feedContacts, feed,
                   announced, restarted>>

\* clearRawPackets: the statistics survive.
SocketReopens ==
    /\ ~feedSocket /\ feedSocket' = TRUE /\ buffered' = <<>> /\ UNCHANGED session /\ FeedFollows
    /\ UNCHANGED <<feedClock, skew, nextObservation, inProcess, feedContacts, announced, restarted, feedSteps>>

ServerRestarts ==
    /\ FeedAct /\ feedSocket' = FALSE /\ restarted' = TRUE
    /\ nextObservation' = 1 /\ inProcess' = {}
    /\ UNCHANGED <<feedClock, skew, buffered, session, feedContacts, feed, announced>>

TimePasses(t) ==
    /\ FeedAct /\ feedClock' = feedClock + t
    /\ UNCHANGED <<skew, nextObservation, inProcess, feedSocket, buffered, session, feedContacts, feed,
                   announced, restarted>>

ContactLearned(c) ==
    /\ c \notin feedContacts /\ feedContacts' = feedContacts \cup {c} /\ FeedAct
    /\ UNCHANGED <<feedClock, skew, nextObservation, inProcess, feedSocket, buffered, session, feed,
                   announced, restarted>>

(***************************************************************************)
(* buildRawPacketStatsSnapshot.                                            *)
(***************************************************************************)
WindowStart(w, now) == IF w = "session" THEN session.startedAt ELSE now - WindowSeconds(w)
InWindow(w, now) ==
    Picked(session.observations,
           {i \in DOMAIN session.observations : session.observations[i].timestamp >= WindowStart(w, now)})

\* The sum of the numbers a function gives.
Total(counts) == Cardinality(UNION {{x} \X (1..counts[x]) : x \in DOMAIN counts})

\* How often each label occurs, the labels that are always listed included.
CountsOf(labels, values) ==
    [l \in labels \cup ToSet(values) |-> Cardinality({i \in DOMAIN values : values[i] = l})]

PayloadCounts(obs) == CountsOf(KnownTypes, [i \in DOMAIN obs |-> obs[i].payloadType])

HopProfileBucket(n) ==
    CASE n <= 0 -> "0" [] n = 1 -> "1" [] n \in 2..5 -> "2-5" [] n \in 6..10 -> "6-10" [] n \in 11..15 -> "11-15"
      [] n \in 16..20 -> "16-20" [] n \in 21..31 -> "21-31" [] OTHER -> "32+"
HopBuckets == {"0", "1", "2-5", "6-10", "11-15", "16-20", "21-31", "32+"}
HopCounts(obs) == CountsOf(HopBuckets, [i \in DOMAIN obs |-> HopProfileBucket(obs[i].hops)])

\* Bytes per hop: 0 without a path, -1 for a width that is not 1, 2 or 3.
HopWidth(o) == CASE o.hops <= 0 -> 0 [] o.hops > 0 /\ o.width \in 1..3 -> o.width [] OTHER -> -1
HopWidthCounts(obs) == CountsOf(-1..3, [i \in DOMAIN obs |-> HopWidth(obs[i])])

RssiBucket(r) == CASE r > -70 -> "strong" [] r \in -85..-70 -> "okay" [] OTHER -> "weak"
RssiCounts(obs) ==
    LET heard == Picked(obs, {i \in DOMAIN obs : obs[i].rssi # NoRssi})
    IN  CountsOf({"strong", "okay", "weak"}, [i \in DOMAIN heard |-> RssiBucket(heard[i].rssi)])

\* The timeline: ten bins over the window; what is stamped after the browser's
\* clock falls into the last one.
TimelineSpan(w, now) == IF w = "session" THEN Max({60, now - session.startedAt}) ELSE WindowSeconds(w)
TimelineIndex(o, w, now) ==
    Max({0, Min({9, ((o.timestamp - WindowStart(w, now)) * 10) \div TimelineSpan(w, now)})})
Timeline(w, now) ==
    LET obs == InWindow(w, now)
    IN  [b \in 0..9 |-> Cardinality({i \in DOMAIN obs : TimelineIndex(obs[i], w, now) = b})]

\* Which part of the window the stored observations cover.
CoverageStart == IF session.trimmed > 0 THEN session.observations[1].timestamp ELSE session.startedAt
WindowFullyCovered(w, now) ==
    IF w = "session" THEN session.trimmed = 0 ELSE CoverageStart <= WindowStart(w, now)
CoverageTone(w, now) == IF WindowFullyCovered(w, now) THEN "default" ELSE "warning"

(***************************************************************************)
(* Neighbours: the senders in the window, ranked and cut; then those that  *)
(* belong to one contact are merged and ranked again.                      *)
(***************************************************************************)
Neighbor(key, obs) ==
    [key |-> key, count |-> Cardinality({i \in DOMAIN obs : obs[i].source = key}),
     bestRssi |-> Max({obs[i].rssi : i \in {j \in DOMAIN obs : obs[j].source = key}}),
     lastSeen |-> Max({obs[i].timestamp : i \in {j \in DOMAIN obs : obs[j].source = key}})]
Neighbors(obs) == {Neighbor(key, obs) : key \in {obs[i].source : i \in DOMAIN obs} \ {NoSource}}

RanksBefore(mode, a, b) ==
    CASE mode = "heard"  -> a.count > b.count \/ (a.count = b.count /\ a.lastSeen > b.lastSeen)
      [] mode = "signal" -> a.bestRssi > b.bestRssi \/ (a.bestRssi = b.bestRssi /\ a.count > b.count)
      [] OTHER           -> a.lastSeen > b.lastSeen \/ (a.lastSeen = b.lastSeen /\ a.count > b.count)

\* The rows that may be the first MaxRanked of a list: of rows that tie, either
\* may come first, since their labels, which decide it, are left out.
TopNeighbors(mode, obs) ==
    LET all == {n \in Neighbors(obs) : mode = "signal" => n.bestRssi # NoRssi}
    IN  {top \in SUBSET all : /\ Cardinality(top) = Min({MaxRanked, Cardinality(all)})
                              /\ \A a \in top, b \in all \ top : ~RanksBefore(mode, b, a)}

\* resolveContact: the only contact whose key begins with the source's.
CanonicalKey(key) ==
    LET matches == IF key \in DOMAIN StartsWith THEN StartsWith[key] \cap feedContacts ELSE {}
    IN  IF Cardinality(matches) = 1 THEN <<"contact", CHOOSE c \in matches : TRUE>> ELSE key

\* mergeResolvedNeighbors.
MergedNeighbor(key, items) ==
    [key |-> key, count |-> Total([n \in items |-> n.count]),
     bestRssi |-> Max({n.bestRssi : n \in items}), lastSeen |-> Max({n.lastSeen : n \in items})]
MergedNeighbors(items) ==
    {MergedNeighbor(key, {n \in items : CanonicalKey(n.key) = key}) : key \in {CanonicalKey(n.key) : n \in items}}
NeighborLists(mode, obs) == {MergedNeighbors(top) : top \in TopNeighbors(mode, obs)}

(***************************************************************************)
(* The view.                                                               *)
(***************************************************************************)
feedRest == <<feedClock, skew, nextObservation, inProcess, feedSocket, buffered, session, feedContacts,
              announced, restarted>>

OpenFeed(wide) ==
    /\ FeedAct /\ ~feed.open /\ feed' = Opened(wide) /\ UNCHANGED feedRest

LeaveFeed == FeedAct /\ feed.open /\ feed' = Closed /\ UNCHANGED feedRest

\* The interval of the view.
FeedInterval ==
    /\ feed.open /\ feed.nowSec # feedClock /\ feed' = [feed EXCEPT !.nowSec = feedClock]
    /\ UNCHANGED <<feedRest, feedSteps>>

ToggleStats ==
    /\ FeedAct /\ feed.open /\ feed' = [feed EXCEPT !.statsOpen = ~@] /\ UNCHANGED feedRest
SelectWindow(w) ==
    /\ FeedAct /\ feed.open /\ feed.statsOpen /\ feed' = [feed EXCEPT !.window = w] /\ UNCHANGED feedRest
HandleToggleAll ==
    /\ FeedAct /\ feed.open
    /\ feed' = [feed EXCEPT !.enabled = IF @ = KnownTypes THEN {} ELSE KnownTypes] /\ UNCHANGED feedRest
HandleToggleType(t) ==
    /\ FeedAct /\ feed.open
    /\ feed' = [feed EXCEPT !.enabled = IF t \in @ THEN @ \ {t} ELSE @ \cup {t}] /\ UNCHANGED feedRest
HandleOnly(t) ==
    /\ FeedAct /\ feed.open /\ feed' = [feed EXCEPT !.enabled = {t}] /\ UNCHANGED feedRest
\* A query that is empty, that is hex, or that is neither.
TypeHex(h) ==
    /\ FeedAct /\ feed.open /\ feed' = [feed EXCEPT !.hex = h] /\ UNCHANGED feedRest

\* filteredPackets.
PacketTypeName(f) == IF f.valid /\ f.type \in KnownTypes THEN f.type ELSE "Unknown"
Passes(p, enabled, hex) ==
    /\ hex # "invalid"
    /\ enabled = KnownTypes \/ PacketTypeName(p.frame) \in enabled
    /\ hex = "none" \/ p.frame.matches
FilteredPackets == SelectSeq(buffered, LAMBDA p : Passes(p, feed.enabled, feed.hex))

\* A packet of the list is inspected; it stays so when the buffer drops it.
SelectPacket(p) ==
    /\ FeedAct /\ feed.open /\ feed.selected = 0 /\ p \in ToSet(FilteredPackets)
    /\ feed' = [feed EXCEPT !.selected = p.id] /\ UNCHANGED feedRest
CloseInspected ==
    /\ FeedAct /\ feed.open /\ feed.selected # 0 /\ feed' = [feed EXCEPT !.selected = 0] /\ UNCHANGED feedRest

FeedNext ==
    \/ \E f \in Frames : HearPacket(f)
    \/ \E p \in inProcess : RecordRawPacket(p)
    \/ SocketCloses \/ SocketReopens \/ ServerRestarts
    \/ \E t \in Ticks : TimePasses(t)
    \/ \E c \in FeedContacts : ContactLearned(c)
    \/ \E wide \in BOOLEAN : OpenFeed(wide)
    \/ LeaveFeed \/ FeedInterval \/ ToggleStats \/ HandleToggleAll \/ CloseInspected
    \/ \E w \in Windows : SelectWindow(w)
    \/ \E t \in KnownTypes : HandleToggleType(t) \/ HandleOnly(t)
    \/ \E h \in HexKinds : TypeHex(h)
    \/ \E p \in ToSet(buffered) : SelectPacket(p)

(***************************************************************************)
(* Properties.                                                             *)
(***************************************************************************)
FeedTypeOK ==
    /\ Len(buffered) <= MaxBuffered /\ Len(session.observations) <= MaxObservations
    /\ feed.open => /\ feed.window \in Windows /\ feed.enabled \subseteq KnownTypes
                    /\ feed.nowSec \in 0..feedClock

\* Everything the client was sent is accounted for once: counted in the
\* session, stored or trimmed (rawPacketStore.ts:53); and each chart divides
\* up the packets of the window, whatever the clocks and the types it has no
\* name for (rawPacketStats.ts:375, :486).
PacketsAddUp ==
    /\ session.total = session.trimmed + Len(session.observations)
    /\ ~restarted => session.total = Len(announced)
    /\ IsInjective([i \in DOMAIN session.observations |-> session.observations[i].key])
    /\ IsInjective([i \in DOMAIN buffered |-> buffered[i].id])
    /\ feed.open /\ feed.statsOpen =>
         LET obs == InWindow(feed.window, feed.nowSec) IN
         /\ Total(PayloadCounts(obs)) = Len(obs) /\ Total(HopCounts(obs)) = Len(obs)
         /\ Total(HopWidthCounts(obs)) = Len(obs)
         /\ Total(RssiCounts(obs)) = Cardinality({i \in DOMAIN obs : obs[i].rssi # NoRssi})
         /\ Total(Timeline(feed.window, feed.nowSec)) = Len(obs)

\* Packets announced in the order of their stamps.
AnnouncedInOrder == \A i, j \in DOMAIN announced : i < j => announced[i].timestamp <= announced[j].timestamp

\* A window that is said to be covered counts every packet the client was sent
\* after the window's first second, although the oldest observations were
\* trimmed; the session's window counts all of them, unless the server's clock
\* is behind the browser's.  Packets that overtake each other on the way are
\* left out of the claim: the trimming takes the first to arrive for the oldest
\* (rawPacketStats.ts:461).
CoveredWindowIsWhole ==
    feed.open /\ feed.statsOpen /\ ~restarted /\ AnnouncedInOrder
    /\ CoverageTone(feed.window, feed.nowSec) = "default" =>
      LET obs == InWindow(feed.window, feed.nowSec) IN
      \A i \in DOMAIN announced :
        \/ announced[i].id \in {obs[j].key : j \in DOMAIN obs}
        \/ IF feed.window = "session" THEN skew < 0
           ELSE announced[i].timestamp <= WindowStart(feed.window, feed.nowSec)

\* A contact is one row of a neighbour list, with no more packets than the
\* window has of its senders; and unless the ranking was cut, every sender is
\* in a row, with all of its packets (RawPacketFeedView.tsx:283).
SentBy(key, obs) == {i \in DOMAIN obs : obs[i].source # NoSource /\ CanonicalKey(obs[i].source) = key}
RowsAddUp(rows, obs) == \A row \in rows : row.count <= Cardinality(SentBy(row.key, obs))
RowsComplete(rows, obs) ==
    /\ \A row \in rows : row.count = Cardinality(SentBy(row.key, obs))
    /\ \A i \in DOMAIN obs : obs[i].source # NoSource => \E row \in rows : row.key = CanonicalKey(obs[i].source)

NeighborsMergeRight ==
    feed.open /\ feed.statsOpen =>
      LET obs == InWindow(feed.window, feed.nowSec) IN
      \A mode \in {"heard", "signal", "recent"} : \A rows \in NeighborLists(mode, obs) :
        /\ \A row, other \in rows : row.key = other.key => row = other
        /\ RowsAddUp(rows, obs)
        /\ mode # "signal" /\ Cardinality(Neighbors(obs)) <= MaxRanked => RowsComplete(rows, obs)

\* Every packet of the buffer is under the checkbox of some type: none is
\* out of reach of the filters (RawPacketFeedView.tsx:56).
EveryPacketHasCheckbox ==
    \A i \in DOMAIN buffered : \E t \in KnownTypes : Passes(buffered[i], {t}, "none")

FeedTellsTruth == PacketsAddUp /\ CoveredWindowIsWhole /\ NeighborsMergeRight /\ EveryPacketHasCheckbox

(***************************************************************************)
(* The inductive invariant: the server gives no number twice until it      *)
(* restarts, so until then no packet is taken for another one and the      *)
(* observations are the newest of the packets that were announced.         *)
(***************************************************************************)
Packets == [id : Nat, timestamp : Int, frame : Frames]
Observations ==
    [key : Nat, timestamp : Int, decrypted : {f.decrypted : f \in Frames}, rssi : {f.rssi : f \in Frames},
     payloadType : {f.type : f \in Frames} \cup {f.stated : f \in Frames}, source : {SourceInfo(f) : f \in Frames},
     hops : {f.hops : f \in Frames} \cup {0}, width : {f.width : f \in Frames} \cup {0}]
OpenFeeds ==
    [open : {TRUE}, statsOpen : BOOLEAN, window : Windows, nowSec : Nat, selected : Nat,
     enabled : SUBSET KnownTypes, hex : HexKinds]

FeedShaped ==
    /\ feedClock \in Nat /\ skew \in Int /\ nextObservation \in Nat /\ inProcess \subseteq Packets
    /\ buffered \in Seq(Packets) /\ Len(buffered) <= MaxBuffered /\ announced \in Seq(Packets)
    /\ feed \in {Closed} \cup OpenFeeds /\ (feed.open => feed.nowSec <= feedClock)

SessionShaped ==
    /\ session \in [startedAt : {0}, total : Nat, trimmed : Nat, observations : Seq(Observations)]
    /\ Len(session.observations) <= MaxObservations
    /\ session.trimmed > 0 => Len(session.observations) = MaxObservations
    /\ session.total = session.trimmed + Len(session.observations)

IdsOnce ==
    /\ \A i, j \in DOMAIN buffered : buffered[i].id = buffered[j].id => i = j
    /\ \A i, j \in DOMAIN session.observations : session.observations[i].key = session.observations[j].key => i = j
    /\ \A p \in inProcess : p.id < nextObservation /\ p.timestamp >= skew
    /\ \A p, q \in inProcess : p.id = q.id => p = q

AnnouncedKept ==
    ~restarted =>
      /\ session.total = Len(announced)
      /\ \A i \in DOMAIN announced : announced[i].id < nextObservation /\ announced[i].timestamp >= skew
      /\ \A i, j \in DOMAIN announced : announced[i].id = announced[j].id => i = j
      /\ \A p \in inProcess : \A i \in DOMAIN announced : announced[i].id # p.id
      /\ \A n \in DOMAIN session.observations :
            session.observations[n] = Summarize(announced[session.trimmed + n])

FeedInv == FeedShaped /\ SessionShaped /\ IdsOnce /\ AnnouncedKept
=================================================================================
