----------------------------- MODULE ChannelFinder -----------------------------
(***************************************************************************)
(* The channel finder: CrackerPanel.tsx.  Undecrypted group packets wait   *)
(* in a queue; one at a time is searched for the name of its channel, and  *)
(* a chain of timers drives the search from one packet to the next while   *)
(* the user starts and stops it and packets come and go.                   *)
(***************************************************************************)
EXTENDS Integers, Sequences, FiniteSets, Selections

CONSTANTS
    PacketIds,          \* packets, numbered in the order they are heard
    PayloadOf,          \* payload of each packet; a repeated packet has the same
    KeyOf,              \* the channel key of each packet
    StoreLimit,         \* packets the raw packet store keeps
    LengthCap,          \* names are never searched beyond this length
    MaxFinderSteps      \* bound on what the user and the mesh do

ASSUME FinderAssumption ==
    PacketIds \subseteq Nat /\ StoreLimit \in Nat /\ LengthCap \in Nat \ {0}

VARIABLES
    lastHeard,          \* the newest packet
    storedPackets,             \* undecrypted group packets in the store
    finderQueue,        \* queue, in order of insertion
    seenPayloads, knownKeys,
    searches,           \* searches in flight
    finder,             \* running, aborted, processing; the settings; wordlistLoaded
    finderTimers,       \* scheduled calls of processNext
    finderSteps

finderVars == <<lastHeard, storedPackets, finderQueue, seenPayloads,
                knownKeys, searches, finder, finderTimers, finderSteps>>

FinderInit ==
    /\ lastHeard = 0 /\ storedPackets = {} /\ finderQueue = <<>> /\ seenPayloads = {} /\ knownKeys = {} /\ searches = {}
    /\ finder \in [running : {FALSE}, aborted : {FALSE}, processing : {FALSE},
                   maxLength : {1}, retry : {FALSE}, wordlist : {FALSE}, gpu : BOOLEAN]
    /\ finderTimers = 0 /\ finderSteps = 0

FinderUser == finderSteps < MaxFinderSteps /\ finderSteps' = finderSteps + 1

(***************************************************************************)
(* The queue.                                                              *)
(***************************************************************************)
\* The packets of the store that are new to the queue, by number; of those with
\* one payload only the first is taken.
Fresh(packets) ==
    {p \in packets : /\ \A i \in DOMAIN finderQueue : finderQueue[i].id # p
                     /\ PayloadOf[p] \notin seenPayloads
                     /\ \A q \in packets : PayloadOf[q] = PayloadOf[p] => q >= p}

\* The effect that fills the queue; it runs when the NUMBER of packets changes.
Enqueued(packets) ==
    IF Cardinality(packets) = Cardinality(storedPackets) THEN UNCHANGED <<finderQueue, seenPayloads>>
    ELSE LET new == Ascending(Fresh(packets)) IN
         /\ finderQueue' = finderQueue \o [i \in DOMAIN new |-> [id |-> new[i], status |-> "pending", length |-> 0]]
         /\ seenPayloads' = seenPayloads \cup {PayloadOf[p] : p \in Fresh(packets)}

Oldest(packets) == CHOOSE q \in packets : \A r \in packets : q <= r

\* recordRawPacket: a packet of the finder's kind is heard, and the oldest falls
\* out of a full store; or one of another kind is, and pushes the oldest out.
PacketHeard(p) ==
    /\ p = lastHeard + 1 /\ FinderUser /\ lastHeard' = p
    /\ LET packets == storedPackets \cup {p}
           kept    == IF Cardinality(packets) > StoreLimit THEN packets \ {Oldest(packets)} ELSE packets
       IN  storedPackets' = kept /\ Enqueued(kept)
    /\ UNCHANGED <<knownKeys, searches, finder, finderTimers>>
OtherPacketHeard ==
    /\ storedPackets # {} /\ FinderUser
    /\ LET kept == storedPackets \ {Oldest(storedPackets)} IN storedPackets' = kept /\ Enqueued(kept)
    /\ UNCHANGED <<lastHeard, knownKeys, searches, finder, finderTimers>>

\* clearRawPackets, after a reconnect.
ClearRawPackets ==
    /\ storedPackets # {} /\ FinderUser /\ storedPackets' = {} /\ Enqueued({})
    /\ UNCHANGED <<lastHeard, knownKeys, searches, finder, finderTimers>>

(***************************************************************************)
(* processNext.                                                            *)
(***************************************************************************)
\* The first pending packet; else, to retry, the failed one searched least far.
Pending == {i \in DOMAIN finderQueue : finderQueue[i].status = "pending"}
Failed  == {i \in DOMAIN finderQueue : finderQueue[i].status = "failed" /\ finderQueue[i].length < LengthCap}
NextItem ==
    IF Pending # {} THEN {i \in Pending : \A j \in Pending : i <= j}
    ELSE {i \in Failed : /\ finder.retry
                         /\ \A j \in Failed : \/ finderQueue[i].length < finderQueue[j].length
                                              \/ finderQueue[i].length = finderQueue[j].length /\ i <= j}

\* A retry goes one length further.
TargetLength(item) == IF item.length > 0 THEN item.length + 1 ELSE finder.maxLength

\* Called with the flags f and as many timers left.
ProcessNext(f, timers) ==
    IF f.processing \/ ~f.running
    THEN finder' = f /\ finderTimers' = timers /\ UNCHANGED <<finderQueue, searches>>
    ELSE IF NextItem = {}
    THEN finder' = f /\ finderTimers' = timers + 1 /\ UNCHANGED <<finderQueue, searches>>
    ELSE LET i == CHOOSE x \in NextItem : TRUE
             item == finderQueue[i]
         IN  IF item.id \notin storedPackets
             THEN /\ finderQueue' = Picked(finderQueue, {x \in DOMAIN finderQueue : finderQueue[x].id # item.id})
                  /\ finder' = f /\ finderTimers' = timers + 1 /\ UNCHANGED searches
             ELSE /\ finder' = [f EXCEPT !.processing = TRUE] /\ finderTimers' = timers
                  /\ searches' = searches \cup
                       {[id |-> item.id, length |-> TargetLength(item), saving |-> FALSE, cut |-> FALSE]}
                  /\ UNCHANGED finderQueue

TimerFires ==
    /\ finderTimers > 0 /\ ProcessNext(finder, finderTimers - 1)
    /\ UNCHANGED <<lastHeard, storedPackets, seenPayloads, knownKeys, finderSteps>>

\* The lock is released and the next call scheduled.
Unlocked(s) ==
    /\ searches' = searches \ {s}
    /\ finder' = [finder EXCEPT !.processing = FALSE]
    /\ finderTimers' = IF finder.running THEN finderTimers + 1 ELSE finderTimers

Marked(s, status) ==
    [i \in DOMAIN finderQueue |-> IF finderQueue[i].id = s.id
                                  THEN [finderQueue[i] EXCEPT !.status = status, !.length = s.length]
                                  ELSE finderQueue[i]]

\* crack returns: a name, none (as it does when cut short), or an error.
SearchReturns(s, result) ==
    /\ ~s.saving /\ (s.cut => result # "found")
    /\ \/ /\ finder.aborted
          /\ finder' = [finder EXCEPT !.aborted = FALSE, !.processing = FALSE]
          /\ searches' = searches \ {s} /\ UNCHANGED <<finderQueue, finderTimers>>
       \/ /\ ~finder.aborted /\ result = "found" /\ finderQueue' = Marked(s, "cracked")
          /\ IF KeyOf[s.id] \in knownKeys THEN Unlocked(s)
             ELSE searches' = (searches \ {s}) \cup {[s EXCEPT !.saving = TRUE]} /\ UNCHANGED <<finder, finderTimers>>
       \/ /\ ~finder.aborted /\ result \in {"none", "error"} /\ finderQueue' = Marked(s, "failed")
          /\ Unlocked(s)
    /\ UNCHANGED <<lastHeard, storedPackets, seenPayloads, knownKeys, finderSteps>>

\* onChannelCreate, and the request to decrypt old packets, return.
ChannelSaved(s, ok) ==
    /\ s.saving /\ Unlocked(s)
    /\ knownKeys' = IF ok THEN knownKeys \cup {KeyOf[s.id]} ELSE knownKeys
    /\ UNCHANGED <<lastHeard, storedPackets, finderQueue, seenPayloads, finderSteps>>

(***************************************************************************)
(* Controls.                                                               *)
(***************************************************************************)
\* The button, and what it does.
StartOffered == finder.wordlist /\ finder.gpu /\ ~finder.running
StopOffered  == finder.wordlist /\ finder.gpu /\ finder.running

MutHandleStart ==
    /\ StartOffered /\ FinderUser
    /\ ProcessNext([finder EXCEPT !.running = TRUE], finderTimers)
    /\ UNCHANGED <<lastHeard, storedPackets, seenPayloads, knownKeys>>
HandleStart ==
    /\ StartOffered /\ FinderUser
    /\ ProcessNext([finder EXCEPT !.running = TRUE, !.aborted = FALSE], finderTimers)
    /\ UNCHANGED <<lastHeard, storedPackets, seenPayloads, knownKeys>>

\* Stop: the search in flight is cut short and will find the flag.
HandleStop ==
    /\ StopOffered /\ FinderUser
    /\ finder' = [finder EXCEPT !.running = FALSE, !.aborted = TRUE]
    /\ searches' = {[s EXCEPT !.cut = ~s.saving] : s \in searches}
    /\ UNCHANGED <<lastHeard, storedPackets, finderQueue, seenPayloads, knownKeys, finderTimers>>

\* The wordlist arrives once the panel was visible.
WordlistArrives ==
    /\ ~finder.wordlist /\ finder' = [finder EXCEPT !.wordlist = TRUE]
    /\ UNCHANGED <<lastHeard, storedPackets, finderQueue, seenPayloads, knownKeys, searches, finderTimers, finderSteps>>

\* The length is clamped to 1..LengthCap.
ChangeFinderSettings(length, retry) ==
    /\ length \in 1..LengthCap /\ <<length, retry>> # <<finder.maxLength, finder.retry>> /\ FinderUser
    /\ finder' = [finder EXCEPT !.maxLength = length, !.retry = retry]
    /\ UNCHANGED <<lastHeard, storedPackets, finderQueue, seenPayloads, knownKeys, searches, finderTimers>>

FinderNext ==
    \/ \E p \in PacketIds : PacketHeard(p)
    \/ OtherPacketHeard \/ ClearRawPackets
    \/ TimerFires \/ HandleStart \/ HandleStop \/ WordlistArrives
    \/ \E length \in 1..LengthCap, retry \in BOOLEAN : ChangeFinderSettings(length, retry)
    \/ \E s \in searches :
          \/ \E result \in {"found", "none", "error"} : SearchReturns(s, result)
          \/ \E ok \in BOOLEAN : ChannelSaved(s, ok)

(***************************************************************************)
(* Properties.                                                             *)
(***************************************************************************)
FinderTypeOK ==
    /\ storedPackets \subseteq PacketIds /\ Cardinality(storedPackets) <= StoreLimit
    /\ \A i \in DOMAIN finderQueue : /\ finderQueue[i].status \in {"pending", "cracked", "failed"}
                                     /\ finderQueue[i].length \in 0..LengthCap
    /\ finder.maxLength \in 1..LengthCap /\ finderTimers \in Nat

\* One packet is searched at a time, under the lock; and a finder that runs
\* goes on: there is a search to come back or a timer to fire, however Stop and
\* Start fall between a search, its late return and the timers
\* (CrackerPanel.tsx:230, :311, :409).
FinderKeepsGoing ==
    /\ Cardinality(searches) <= 1
    /\ finder.processing <=> searches # {}
    /\ finder.running => finder.processing \/ finderTimers > 0

(***************************************************************************)
(* The inductive invariant: only a finder that was stopped has its search  *)
(* aborted, so a late return that releases the lock without scheduling the *)
(* next call leaves nothing undone; and no search goes beyond the cap,     *)
(* since a packet is retried only below it.                                *)
(***************************************************************************)
FinderStates == [running : BOOLEAN, aborted : BOOLEAN, processing : BOOLEAN, maxLength : 1..LengthCap,
                 retry : BOOLEAN, wordlist : BOOLEAN, gpu : BOOLEAN]
QueueItems ==
    {q \in [id : PacketIds, status : {"pending", "cracked", "failed"}, length : 0..LengthCap] :
        q.status = "pending" => q.length = 0}

PacketsKept ==
    /\ storedPackets \in SUBSET PacketIds /\ IsFiniteSet(storedPackets)
    /\ Cardinality(storedPackets) <= StoreLimit

QueueShaped == finderQueue \in Seq(QueueItems) /\ \A s \in searches : s.length \in 1..LengthCap

SearchLocked ==
    /\ finder \in FinderStates /\ finderTimers \in Nat
    /\ \A s, t \in searches : s = t
    /\ finder.processing <=> searches # {}
    /\ finder.running => (finder.processing \/ finderTimers > 0) /\ ~finder.aborted

FinderInv == PacketsKept /\ QueueShaped /\ SearchLocked
================================================================================
