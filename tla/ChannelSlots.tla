----------------------------- MODULE ChannelSlots -----------------------------
(***************************************************************************)
(* Channel sends through the radio's slots (app/radio.py, RadioManager's   *)
(* channel-slot cache; send_channel_message_with_effective_scope in        *)
(* app/services/message_send.py; sync_and_offload_channels and             *)
(* audit_channel_send_cache in app/radio_sync.py).                         *)
(*                                                                         *)
(* A channel message is sent by slot number: the radio encrypts it with    *)
(* whatever channel secret the slot holds.  The app remembers which        *)
(* channel it loaded where, so that a send can skip set_channel.  If the   *)
(* memory is wrong, the message goes out on another channel.               *)
(*                                                                         *)
(* Every operation holds the radio operation lock from its first command   *)
(* to its last, so at most one is under way: pc and the variables next to  *)
(* it are that operation's.  The radio, another client of the radio and    *)
(* the cancellation of the coroutine act between its commands.             *)
(***************************************************************************)
EXTENDS Integers, FiniteSets

CONSTANTS
    Keys,      \* channel keys, in their normalised (upper case) form
    NoKey,     \* the absence of a key: an empty slot
    Capacity   \* get_channel_send_cache_capacity: the radio's channel slots

ASSUME CapacityAssumption == Capacity \in Nat \ {0}
ASSUME KeysAssumption == NoKey \notin Keys
ASSUME FiniteKeysAssumption == IsFiniteSet(Keys)

Slots == 0 .. Capacity - 1
TEMP_RADIO_SLOT == 0
NoSlot == -1

VARIABLES
    reuse,    \* channel_slot_reuse_enabled(): fixed by transport and settings
    slotOf,   \* _channel_slot_by_key
    keyAt,    \* _channel_key_by_slot
    before,   \* <<j, k>>: j comes before k in the order of _channel_slot_by_key
    radio,    \* what the radio's slots hold
    pc,       \* step of the operation that holds the lock, "idle" if none
    key,      \* its channel key
    slot,     \* its radio slot
    evicted,  \* the key its plan evicts
    foreign,  \* observer: slots another client wrote since the app last did
    torn,     \* observer: slots whose set_channel was cancelled since
    latest    \* observer: the channel last loaded or sent on, while cached

cache    == <<slotOf, keyAt, before>>
op       == <<pc, key, slot, evicted>>
observer == <<foreign, torn, latest>>
vars     == <<reuse, slotOf, keyAt, before, radio, pc, key, slot, evicted,
              foreign, torn, latest>>

Cached == {k \in Keys : slotOf[k] # NoSlot}

Init ==
    /\ reuse \in BOOLEAN
    /\ slotOf = [k \in Keys |-> NoSlot]
    /\ keyAt = [s \in Slots |-> NoKey]
    /\ before = {}
    /\ radio \in [Slots -> Keys \cup {NoKey}]
    /\ pc = "idle" /\ key = NoKey /\ slot = NoSlot /\ evicted = NoKey
    /\ foreign = {} /\ torn = {} /\ latest = NoKey

-----------------------------------------------------------------------------
(* The cache operations of RadioManager                                     *)

\* the order without the keys of S
Drop(S) == {p \in before : p[1] \notin S /\ p[2] \notin S}

\* reset_channel_send_cache
ResetCache ==
    /\ slotOf' = [k \in Keys |-> NoSlot]
    /\ keyAt' = [s \in Slots |-> NoKey]
    /\ before' = {}
    /\ foreign' = {} /\ torn' = {} /\ latest' = NoKey

\* note_channel_slot_loaded: k leaves its previous slot, the key that s held
\* is displaced, and k goes to the end of the order
NoteLoaded(k, s) ==
    IF ~reuse THEN UNCHANGED cache
    ELSE /\ slotOf' = [j \in Keys |-> IF j = k THEN s
                                      ELSE IF j = keyAt[s] THEN NoSlot
                                      ELSE slotOf[j]]
         /\ keyAt' = [t \in Slots |-> IF t = s THEN k
                                      ELSE IF t = slotOf[k] THEN NoKey
                                      ELSE keyAt[t]]
         /\ before' = Drop({k, keyAt[s]}) \cup ((Cached \ {k, keyAt[s]}) \X {k})

\* mutant: a use does not renew the channel
MutNoteUsed(k) == UNCHANGED cache

\* note_channel_slot_used: move_to_end
NoteUsed(k) ==
    IF ~reuse \/ k \notin Cached THEN UNCHANGED cache
    ELSE /\ before' = Drop({k}) \cup ((Cached \ {k}) \X {k})
         /\ keyAt' = [keyAt EXCEPT ![slotOf[k]] = k]
         /\ UNCHANGED slotOf

\* mutant: only one of the two maps is updated
MutInvalidate(k) ==
    IF k \notin Cached THEN UNCHANGED cache
    ELSE /\ slotOf' = [slotOf EXCEPT ![k] = NoSlot]
         /\ before' = Drop({k})
         /\ UNCHANGED keyAt

\* invalidate_cached_channel_slot; NoKey (no eviction) is never cached
Invalidate(k) ==
    IF k \notin Cached THEN UNCHANGED cache
    ELSE /\ slotOf' = [slotOf EXCEPT ![k] = NoSlot]
         /\ keyAt' = [s \in Slots |-> IF s = slotOf[k] /\ keyAt[s] = k THEN NoKey
                                      ELSE keyAt[s]]
         /\ before' = Drop({k})

Unclaimed == {s \in Slots : keyAt[s] = NoKey}

\* mutant: the preferred slot is taken although it is in use
MutFirstFree(s) == s = TEMP_RADIO_SLOT

\* _find_first_free_channel_slot
FirstFree(s) ==
    \/ TEMP_RADIO_SLOT \in Unclaimed /\ s = TEMP_RADIO_SLOT
    \/ /\ TEMP_RADIO_SLOT \notin Unclaimed
       /\ s \in Unclaimed /\ \A t \in Unclaimed : s <= t
    \/ Unclaimed = {} /\ s = TEMP_RADIO_SLOT

\* the head of _channel_slot_by_key
Oldest(k) == k \in Cached /\ \A j \in Cached \ {k} : <<k, j>> \in before

-----------------------------------------------------------------------------
(* send_channel_message_with_effective_scope                                *)

\* what the plan leaves for the commands that follow
Planned(next, k, s, e) ==
    /\ pc = "idle"
    /\ pc' = next /\ key' = k /\ slot' = s /\ evicted' = e
    /\ UNCHANGED <<reuse, cache, radio, observer>>

\* plan_channel_send_slot, one action per outcome
PlanReconfigure(k) == ~reuse /\ Planned("configure", k, TEMP_RADIO_SLOT, NoKey)

PlanCached(k) == reuse /\ k \in Cached /\ Planned("transmit", k, slotOf[k], NoKey)

PlanFree(k) ==
    /\ reuse /\ k \notin Cached
    /\ Cardinality(Cached) < Capacity
    /\ \E s \in Slots : FirstFree(s) /\ Planned("configure", k, s, NoKey)

PlanEvict(k) ==
    /\ reuse /\ k \notin Cached
    /\ Cardinality(Cached) >= Capacity
    /\ \E e \in Keys : Oldest(e) /\ Planned("configure", k, slotOf[e], e)

Finished == pc' = "idle" /\ key' = NoKey /\ slot' = NoSlot /\ evicted' = NoKey

\* the radio's slot s holds v after a command whose outcome is unknown
MaybeWritten(s, v, applied) ==
    radio' = IF applied THEN [radio EXCEPT ![s] = v] ELSE radio

\* the latest channel, unless the step removed it from the cache
LatestKept == latest' = IF latest # NoKey /\ slotOf'[latest] = NoSlot THEN NoKey ELSE latest

\* set_channel succeeds
ConfigureOk ==
    /\ pc = "configure"
    /\ MaybeWritten(slot, key, TRUE)
    /\ NoteLoaded(key, slot)
    /\ pc' = "transmit"
    /\ foreign' = foreign \ {slot} /\ torn' = torn \ {slot}
    /\ latest' = IF reuse THEN key ELSE NoKey
    /\ UNCHANGED <<reuse, key, slot, evicted>>

\* mutant: the evicted key stays in the cache after a failed load
MutConfigureFails(applied) ==
    /\ pc = "configure"
    /\ MaybeWritten(slot, key, applied)
    /\ UNCHANGED cache
    /\ Finished
    /\ LatestKept
    /\ UNCHANGED <<reuse, foreign, torn>>

\* set_channel raises or returns an error, applied or not: the evicted key is
\* forgotten and the send fails
ConfigureFails(applied) ==
    /\ pc = "configure"
    /\ MaybeWritten(slot, key, applied)
    /\ Invalidate(evicted)
    /\ Finished
    /\ LatestKept
    /\ UNCHANGED <<reuse, foreign, torn>>

\* The coroutine is cancelled while it awaits set_channel (a bot is stopped
\* in the middle of its reply): CancelledError is not an Exception, so the
\* evicted key is not forgotten.
ConfigureCancelled(applied) ==
    /\ pc = "configure"
    /\ MaybeWritten(slot, key, applied)
    /\ Finished
    /\ torn' = torn \cup {slot}
    /\ UNCHANGED <<reuse, cache, foreign, latest>>

\* send_chan_msg is accepted: the radio transmits with radio[slot]
TransmitOk ==
    /\ pc = "transmit"
    /\ NoteUsed(key)
    /\ Finished
    /\ latest' = IF reuse THEN key ELSE NoKey
    /\ UNCHANGED <<reuse, radio, foreign, torn>>

\* send_chan_msg returns an error
TransmitError ==
    /\ pc = "transmit"
    /\ Invalidate(key)
    /\ Finished
    /\ LatestKept
    /\ UNCHANGED <<reuse, radio, foreign, torn>>

\* no response, an exception or a cancellation
TransmitUnknown ==
    /\ pc = "transmit"
    /\ Finished
    /\ UNCHANGED <<reuse, cache, radio, observer>>

-----------------------------------------------------------------------------
(* Synchronisation, audit and the connection                                *)

\* sync_and_offload_channels starts: the cache is reset before the first command
OffloadBegin ==
    /\ pc = "idle"
    /\ ResetCache
    /\ pc' = "offload" /\ slot' = 0
    /\ UNCHANGED <<reuse, radio, key, evicted>>

\* mutant: the loop visits one slot too many
MutOffloadSlot(cleared) ==
    /\ pc = "offload"
    /\ MaybeWritten(slot, NoKey, cleared)
    /\ IF slot \in Slots THEN pc' = "offload" /\ slot' = slot + 1
                         ELSE pc' = "idle" /\ slot' = NoSlot
    /\ UNCHANGED <<reuse, cache, key, evicted, observer>>

\* One slot of the offload loop.  get_channel may fail and an empty slot is
\* skipped; a channel found is cleared, which may fail with or without effect.
OffloadSlot(cleared) ==
    /\ pc = "offload"
    /\ MaybeWritten(slot, NoKey, cleared)
    /\ IF slot + 1 \in Slots THEN pc' = "offload" /\ slot' = slot + 1
                             ELSE pc' = "idle" /\ slot' = NoSlot
    /\ UNCHANGED <<reuse, cache, key, evicted, observer>>

\* an exception ends the loop early
OffloadAborts ==
    /\ pc = "offload"
    /\ Finished
    /\ UNCHANGED <<reuse, cache, radio, observer>>

Mismatch == \E k \in Cached : radio[slotOf[k]] # k

\* audit_channel_send_cache finds a mismatch; a failed get_channel or a
\* channel row that is gone or renamed counts as one too
AuditResets ==
    /\ pc = "idle"
    /\ reuse /\ Cached # {}
    /\ ResetCache
    /\ UNCHANGED <<reuse, radio, op>>

\* it finds every cached slot as expected
AuditPasses ==
    /\ pc = "idle"
    /\ ~reuse \/ ~Mismatch
    /\ UNCHANGED vars

\* mutant: the cache survives the connection
MutDisconnect(contents) ==
    /\ pc = "idle"
    /\ radio' = contents
    /\ UNCHANGED <<reuse, cache, op, observer>>

\* disconnect and a later connect, perhaps to another radio or to one that
\* other clients used: _reset_connected_runtime_state under the lock
Disconnect(contents) ==
    /\ pc = "idle"
    /\ ResetCache
    /\ radio' = contents
    /\ UNCHANGED <<reuse, op>>

\* another client of the radio writes a slot
ForeignWrite(s, v) ==
    /\ radio' = [radio EXCEPT ![s] = v]
    /\ foreign' = foreign \cup {s}
    /\ UNCHANGED <<reuse, cache, op, torn, latest>>

Contents == [Slots -> Keys \cup {NoKey}]

Plan(k) == PlanReconfigure(k) \/ PlanCached(k) \/ PlanFree(k) \/ PlanEvict(k)

Next ==
    \/ \E k \in Keys : Plan(k)
    \/ ConfigureOk
    \/ \E applied \in BOOLEAN : ConfigureFails(applied) \/ ConfigureCancelled(applied)
    \/ TransmitOk \/ TransmitError \/ TransmitUnknown
    \/ OffloadBegin \/ OffloadAborts
    \/ \E cleared \in BOOLEAN : OffloadSlot(cleared)
    \/ AuditResets \/ AuditPasses
    \/ \E contents \in Contents : Disconnect(contents)
    \/ \E s \in Slots, v \in Keys \cup {NoKey} : ForeignWrite(s, v)

Spec == Init /\ [][Next]_vars

-----------------------------------------------------------------------------
(* Properties                                                               *)

TypeOK ==
    /\ reuse \in BOOLEAN
    /\ slotOf \in [Keys -> Slots \cup {NoSlot}]
    /\ keyAt \in [Slots -> Keys \cup {NoKey}]
    /\ before \subseteq Keys \X Keys
    /\ radio \in Contents
    /\ pc \in {"idle", "configure", "transmit", "offload"}
    /\ key \in Keys \cup {NoKey}
    /\ slot \in Slots \cup {NoSlot}
    /\ evicted \in Keys \cup {NoKey}
    /\ foreign \subseteq Slots
    /\ torn \subseteq Slots
    /\ latest \in Keys \cup {NoKey}

(* _channel_slot_by_key and _channel_key_by_slot stay inverse of each other *)
(* through loads, displacements, evictions, failures and resets.            *)
MapsInverse ==
    /\ \A k \in Cached : keyAt[slotOf[k]] = k
    /\ \A s \in Slots : keyAt[s] # NoKey => slotOf[keyAt[s]] = s

(* A slot the cache names for a channel holds that channel's secret on the  *)
(* radio, unless another client wrote it or a set_channel on it was         *)
(* cancelled.                                                               *)
CacheCoherent ==
    \A k \in Cached : radio[slotOf[k]] = k \/ slotOf[k] \in foreign \cup torn

(* A channel message is handed to the radio on a slot that holds its own    *)
(* channel, under the same two exceptions: it never goes out on another     *)
(* channel because of an eviction, a failed load or a reset.                *)
SendsOnOwnChannel ==
    pc = "transmit" => radio[slot] = key \/ slot \in foreign \cup torn

(* With a free slot the plan takes one that no channel is cached in, and an *)
(* eviction takes exactly the slot of the evicted channel: loading a channel*)
(* never silently overwrites another one that the cache still names.        *)
LoadsClaimNoOther ==
    pc = "configure" /\ reuse => keyAt[slot] = evicted

(* With room for two channels, the channel last loaded or sent on is not the *)
(* one evicted: a conversation on two channels does not reload a slot for    *)
(* every message.                                                            *)
EvictsLeastRecent ==
    pc = "configure" /\ evicted # NoKey /\ Capacity > 1 => evicted # latest

-----------------------------------------------------------------------------
(* The inductive invariant behind the properties                            *)

\* What the operation under way relies on between its commands.
OperationInv ==
    /\ ~reuse => Cached = {}
    /\ pc \in {"configure", "transmit"} => key \in Keys /\ slot \in Slots
    /\ pc = "transmit" /\ reuse => slotOf[key] = slot
    /\ pc = "offload" => slot \in Slots /\ Cached = {}

\* The order relates cached channels, in one direction only, and ends with
\* the latest one.
OrderInv ==
    /\ \A j, k \in Keys : <<j, k>> \in before => j \in Cached /\ k \in Cached
    /\ \A j, k \in Keys : <<j, k>> \in before => <<k, j>> \notin before
    /\ latest # NoKey => latest \in Cached
    /\ \A j \in Cached : latest # NoKey /\ j # latest => <<j, latest>> \in before

SlotInv ==
    /\ TypeOK /\ MapsInverse /\ OperationInv /\ OrderInv
    /\ CacheCoherent /\ SendsOnOwnChannel /\ LoadsClaimNoOther /\ EvictsLeastRecent

(* A mismatch between the cache and the radio means that some other system  *)
(* updated the slot (the error text of audit_channel_send_cache).           *)
MismatchIsForeign ==
    \A k \in Cached : radio[slotOf[k]] = k \/ slotOf[k] \in foreign
=============================================================================
