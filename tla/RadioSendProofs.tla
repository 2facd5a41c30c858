-------------------------- MODULE RadioSendProofs -----------------------------
(***************************************************************************)
(* Safety of what a send has under the radio lock: its slot, for any set   *)
(* of channels and any number of slots, and its sender timestamp, for any  *)
(* number of concurrent requests and any clock readings.  The timestamps   *)
(* implement UniqueStamps.                                                 *)
(***************************************************************************)
EXTENDS ChannelSlots, OutgoingTimestamps, FiniteSetTheorems, TLAPS

-----------------------------------------------------------------------------
(* Channel slots                                                            *)


(* The slots are natural numbers, the preferred slot is one of them, and    *)
(* "no slot" is none of them.                                               *)
LEMMA SlotFacts ==
  /\ TEMP_RADIO_SLOT \in Slots /\ NoSlot \notin Slots /\ Slots \subseteq Nat
  /\ IsFiniteSet(Slots) /\ Cardinality(Slots) = Capacity
<1>1. /\ IsFiniteSet(0 .. Capacity - 1)
      /\ Cardinality(0 .. Capacity - 1) = IF 0 > Capacity - 1 THEN 0 ELSE Capacity - 1 - 0 + 1
  BY CapacityAssumption, FS_Interval
<1> QED
  BY <1>1, CapacityAssumption DEF Slots, TEMP_RADIO_SLOT, NoSlot

(* While fewer channels are cached than there are slots, some slot is       *)
(* unclaimed: the fallthrough of _find_first_free_channel_slot, which would *)
(* hand out a claimed slot, is never reached.                               *)
LEMMA FreeSlotExists ==
  ASSUME TypeOK, MapsInverse, Cardinality(Cached) < Capacity
  PROVE  Unclaimed # {}
<1> SUFFICES ASSUME Unclaimed = {} PROVE FALSE
  OBVIOUS
<1>1. \A s \in Slots : keyAt[s] \in Cached /\ slotOf[keyAt[s]] = s
  BY SlotFacts DEF Unclaimed, TypeOK, MapsInverse, Cached
<1>2. IsFiniteSet(Cached)
  BY FiniteKeysAssumption, FS_Subset DEF Cached
<1>3. keyAt \in [Slots -> Cached]
  BY <1>1 DEF TypeOK
<1>4. PICK s, t \in Slots : s # t /\ keyAt[s] = keyAt[t]
  BY <1>2, <1>3, SlotFacts, FS_PigeonHole
<1> QED
  BY <1>1, <1>4

(* The slot a plan takes is unclaimed.                                      *)
LEMMA FirstFreeUnclaimed ==
  ASSUME TypeOK, MapsInverse, Cardinality(Cached) < Capacity,
         NEW s \in Slots, FirstFree(s)
  PROVE  keyAt[s] = NoKey
BY FreeSlotExists DEF FirstFree, Unclaimed

(* The victim of an eviction is the latest channel only if it is alone.     *)
LEMMA VictimNotLatest ==
  ASSUME TypeOK, OrderInv, NEW e \in Keys, Oldest(e), Capacity > 1,
         Cardinality(Cached) >= Capacity
  PROVE  e # latest
<1> SUFFICES ASSUME e = latest PROVE FALSE
  OBVIOUS
<1>1. IsFiniteSet(Cached)
  BY FiniteKeysAssumption, FS_Subset DEF Cached
<1>2. Cached # {e}
  <2>1. Cardinality({e}) = 1
    BY FS_Singleton
  <2> QED
    BY <2>1, CapacityAssumption
<1>3. PICK j \in Cached : j # e
  BY <1>2 DEF Oldest
<1>4. j \in Keys /\ latest # NoKey
  BY KeysAssumption DEF Cached
<1>5. <<e, j>> \in before /\ <<j, e>> \in before
  BY <1>3, <1>4 DEF Oldest, OrderInv
<1> QED
  BY <1>4, <1>5 DEF OrderInv

-----------------------------------------------------------------------------
(* The cache operations                                                     *)

\* What every cache operation keeps of the two maps and of the order.
CacheInv ==
    /\ slotOf \in [Keys -> Slots \cup {NoSlot}]
    /\ keyAt \in [Slots -> Keys \cup {NoKey}]
    /\ before \subseteq Keys \X Keys
    /\ MapsInverse
    /\ \A j, k \in Keys : <<j, k>> \in before => j \in Cached /\ k \in Cached
    /\ \A j, k \in Keys : <<j, k>> \in before => <<k, j>> \notin before

(* An empty cache is consistent.                                            *)
LEMMA ResetKeeps ==
  ASSUME ResetCache
  PROVE  CacheInv' /\ Cached' = {}
BY KeysAssumption, SlotFacts DEF ResetCache, CacheInv, MapsInverse, Cached

(* note_channel_slot_loaded keeps the maps inverse, displaces what the slot *)
(* held and puts the loaded channel last.                                   *)
LEMMA LoadKeeps ==
  ASSUME CacheInv, NEW k \in Keys, NEW s \in Slots, reuse, NoteLoaded(k, s)
  PROVE  /\ CacheInv'
         /\ slotOf'[k] = s
         /\ \A j \in Cached' : j = k \/ (j \in Cached /\ slotOf'[j] = slotOf[j] /\ slotOf[j] # s)
         /\ \A j \in Cached' : j # k => <<j, k>> \in before'
<1> USE KeysAssumption, SlotFacts
<1>1. /\ slotOf' \in [Keys -> Slots \cup {NoSlot}]
      /\ keyAt' \in [Slots -> Keys \cup {NoKey}]
      /\ before' \subseteq Keys \X Keys
  BY DEF NoteLoaded, CacheInv, Drop, Cached
<1>2. slotOf'[k] = s /\ keyAt'[s] = k
  BY DEF NoteLoaded, CacheInv
<1>3. \A j \in Cached' : j = k \/ (j \in Cached /\ slotOf'[j] = slotOf[j] /\ slotOf[j] # s)
  BY DEF NoteLoaded, CacheInv, Cached, MapsInverse
<1>4. MapsInverse'
  <2>1. \A j \in Cached' : keyAt'[slotOf'[j]] = j
    <3> SUFFICES ASSUME NEW j \in Cached', j # k PROVE keyAt'[slotOf'[j]] = j
      BY <1>2
    <3>1. j \in Cached /\ slotOf'[j] = slotOf[j] /\ slotOf[j] # s
      BY <1>3
    <3>2. slotOf[j] \in Slots /\ keyAt[slotOf[j]] = j
      BY <3>1 DEF CacheInv, Cached, MapsInverse
    <3>3. slotOf[j] # slotOf[k]
      BY <3>2 DEF CacheInv, Cached, MapsInverse
    <3> QED
      BY <3>1, <3>2, <3>3 DEF NoteLoaded
  <2>2. \A t \in Slots : keyAt'[t] # NoKey => slotOf'[keyAt'[t]] = t
    <3> SUFFICES ASSUME NEW t \in Slots, keyAt'[t] # NoKey, t # s
                 PROVE  slotOf'[keyAt'[t]] = t
      BY <1>2
    <3>1. keyAt'[t] = keyAt[t] /\ t # slotOf[k]
      BY DEF NoteLoaded, CacheInv
    <3>2. keyAt[t] \in Keys /\ slotOf[keyAt[t]] = t
      BY <3>1 DEF CacheInv, MapsInverse
    <3>3. keyAt[t] # k /\ keyAt[t] # keyAt[s]
      BY <3>1, <3>2 DEF CacheInv, MapsInverse
    <3> QED
      BY <3>1, <3>2, <3>3 DEF NoteLoaded, CacheInv
  <2> QED
    BY <2>1, <2>2 DEF MapsInverse
<1>5. \A i, j \in Keys : <<i, j>> \in before' <=>
        \/ <<i, j>> \in before /\ i \notin {k, keyAt[s]} /\ j \notin {k, keyAt[s]}
        \/ i \in Cached /\ i \notin {k, keyAt[s]} /\ j = k
  BY DEF NoteLoaded, Drop
<1>6. \A j \in Keys : j \in Cached' <=> j = k \/ (j \in Cached /\ j # keyAt[s])
  BY DEF NoteLoaded, CacheInv, Cached
<1>7. \A i, j \in Keys : <<i, j>> \in before' => i \in Cached' /\ j \in Cached'
  BY <1>5, <1>6 DEF CacheInv
<1>8. \A i, j \in Keys : <<i, j>> \in before' => <<j, i>> \notin before'
  BY <1>5 DEF CacheInv
<1>9. \A j \in Cached' : j # k => <<j, k>> \in before'
  <2>1. \A j \in Cached' : j \in Keys
    BY DEF Cached
  <2> QED
    BY <2>1, <1>5, <1>6
<1> QED
  BY <1>1, <1>2, <1>3, <1>4, <1>7, <1>8, <1>9 DEF CacheInv

(* note_channel_slot_used changes no assignment and puts the channel last.  *)
LEMMA UseKeeps ==
  ASSUME CacheInv, NEW k \in Cached, reuse, NoteUsed(k)
  PROVE  /\ CacheInv'
         /\ slotOf' = slotOf
         /\ \A j \in Cached' : j # k => <<j, k>> \in before'
<1> USE KeysAssumption, SlotFacts
<1>1. slotOf' = slotOf /\ keyAt' = keyAt /\ k \in Keys /\ Cached' = Cached
  <2>1. slotOf[k] \in Slots /\ keyAt[slotOf[k]] = k /\ k \in Keys
    BY DEF CacheInv, MapsInverse, Cached
  <2>2. slotOf' = slotOf /\ keyAt' = [keyAt EXCEPT ![slotOf[k]] = k]
    BY DEF NoteUsed
  <2>3. keyAt' = keyAt
    BY <2>1, <2>2 DEF CacheInv
  <2> QED
    BY <2>1, <2>2, <2>3 DEF Cached
<1>2. before' \subseteq Keys \X Keys
  BY DEF NoteUsed, Drop, CacheInv, Cached
<1>3. \A i, j \in Keys : <<i, j>> \in before' <=>
        \/ <<i, j>> \in before /\ i # k /\ j # k
        \/ i \in Cached /\ i # k /\ j = k
  BY DEF NoteUsed, Drop
<1>4. \A i, j \in Keys : <<i, j>> \in before' => i \in Cached' /\ j \in Cached'
  BY <1>1, <1>3 DEF CacheInv
<1>5. \A i, j \in Keys : <<i, j>> \in before' => <<j, i>> \notin before'
  BY <1>3 DEF CacheInv
<1>6. \A j \in Cached' : j # k => <<j, k>> \in before'
  BY <1>1, <1>3 DEF Cached
<1>7. MapsInverse'
  BY <1>1 DEF CacheInv, MapsInverse
<1> QED
  BY <1>1, <1>2, <1>4, <1>5, <1>6, <1>7 DEF CacheInv

(* invalidate_cached_channel_slot removes exactly the channel it is given   *)
(* and keeps the order of the others.                                       *)
LEMMA InvalidateKeeps ==
  ASSUME CacheInv, NEW k \in Keys \cup {NoKey}, Invalidate(k)
  PROVE  /\ CacheInv'
         /\ Cached' = Cached \ {k}
         /\ \A j \in Cached' : slotOf'[j] = slotOf[j]
         /\ \A i, j \in Cached' : <<i, j>> \in before => <<i, j>> \in before'
<1> USE KeysAssumption, SlotFacts
<1>1. CASE k \notin Cached
  <2>1. slotOf' = slotOf /\ keyAt' = keyAt /\ before' = before
    BY <1>1 DEF Invalidate, cache
  <2> QED
    BY <1>1, <2>1 DEF CacheInv, MapsInverse, Cached
<1>2. CASE k \in Cached
  <2>1. k \in Keys /\ slotOf[k] \in Slots
    BY <1>2 DEF Cached, CacheInv
  <2>2. /\ slotOf' = [slotOf EXCEPT ![k] = NoSlot]
        /\ keyAt' = [t \in Slots |-> IF t = slotOf[k] /\ keyAt[t] = k THEN NoKey ELSE keyAt[t]]
        /\ before' = Drop({k})
    BY <1>2 DEF Invalidate
  <2>3. /\ slotOf' \in [Keys -> Slots \cup {NoSlot}]
        /\ keyAt' \in [Slots -> Keys \cup {NoKey}]
        /\ before' \subseteq Keys \X Keys
    BY <2>2 DEF CacheInv, Drop
  <2>4. Cached' = Cached \ {k} /\ \A j \in Cached' : slotOf'[j] = slotOf[j]
    BY <2>1, <2>2 DEF Cached, CacheInv
  <2>5. MapsInverse'
    BY <2>1, <2>2, <2>4 DEF CacheInv, MapsInverse, Cached
  <2>6. \A i, j \in Keys : <<i, j>> \in before' <=> <<i, j>> \in before /\ i # k /\ j # k
    BY <2>2 DEF Drop
  <2>7. \A i, j \in Cached' : <<i, j>> \in before => <<i, j>> \in before'
    BY <2>4, <2>6 DEF Cached
  <2> QED
    BY <2>3, <2>4, <2>5, <2>6, <2>7 DEF CacheInv
<1> QED
  BY <1>1, <1>2
-----------------------------------------------------------------------------
(* The steps                                                                *)

(* The invariant contains what the cache operations need.                   *)
LEMMA SlotInvCache == SlotInv => CacheInv
BY DEF SlotInv, TypeOK, MapsInverse, OrderInv, CacheInv

(* A plan takes a free slot, or the slot of a victim that is not the latest *)
(* channel, or the slot that already holds the channel.                     *)
LEMMA PlanStep ==
  ASSUME SlotInv, NEW k \in Keys, Plan(k)
  PROVE  SlotInv'
<1> USE SlotFacts, KeysAssumption
<1>1. /\ pc = "idle" /\ pc' \in {"configure", "transmit"} /\ key' = k
      /\ UNCHANGED <<reuse, cache, radio, observer>>
      /\ slot' \in Slots /\ evicted' \in Keys \cup {NoKey}
      /\ pc' = "transmit" => reuse /\ k \in Cached /\ slot' = slotOf[k]
      /\ pc' = "configure" /\ reuse => keyAt[slot'] = evicted'
      /\ evicted' # NoKey /\ Capacity > 1 => evicted' # latest
  <2>1. CASE PlanReconfigure(k)
    BY <2>1 DEF PlanReconfigure, Planned
  <2>2. CASE PlanCached(k)
    BY <2>2 DEF PlanCached, Planned, Cached, SlotInv, TypeOK
  <2>3. CASE PlanFree(k)
    <3>1. PICK s \in Slots : FirstFree(s) /\ Planned("configure", k, s, NoKey)
      BY <2>3 DEF PlanFree
    <3>2. keyAt[s] = NoKey
      BY <2>3, <3>1, FirstFreeUnclaimed DEF PlanFree, SlotInv
    <3> QED
      BY <3>1, <3>2 DEF Planned
  <2>4. CASE PlanEvict(k)
    <3>1. PICK e \in Keys : Oldest(e) /\ Planned("configure", k, slotOf[e], e)
      BY <2>4 DEF PlanEvict
    <3>2. Capacity > 1 => e # latest
      BY <2>4, <3>1, VictimNotLatest DEF PlanEvict, SlotInv
    <3>3. slotOf[e] \in Slots /\ keyAt[slotOf[e]] = e
      BY <3>1 DEF Oldest, Cached, SlotInv, TypeOK, MapsInverse
    <3> QED
      BY <3>1, <3>2, <3>3 DEF Planned
  <2> QED
    BY <2>1, <2>2, <2>3, <2>4 DEF Plan
<1>2. TypeOK'
  BY <1>1 DEF SlotInv, TypeOK, cache, observer, Contents
<1>3. MapsInverse' /\ OrderInv' /\ CacheCoherent' /\ Cached' = Cached
  BY <1>1 DEF SlotInv, MapsInverse, OrderInv, CacheCoherent, Cached, cache, observer
<1>4. OperationInv'
  BY <1>1, <1>3 DEF SlotInv, OperationInv, cache
<1>5. SendsOnOwnChannel'
  BY <1>1 DEF SlotInv, SendsOnOwnChannel, CacheCoherent, cache, observer
<1>6. LoadsClaimNoOther' /\ EvictsLeastRecent'
  BY <1>1 DEF LoadsClaimNoOther, EvictsLeastRecent, cache, observer
<1> QED
  BY <1>2, <1>3, <1>4, <1>5, <1>6 DEF SlotInv

(* A load that succeeds: the channel is in its slot and no cached channel   *)
(* was overwritten.                                                         *)
LEMMA ConfigureOkStep ==
  ASSUME SlotInv, ConfigureOk
  PROVE  SlotInv'
<1> USE SlotFacts, KeysAssumption
<1>1. key \in Keys /\ slot \in Slots /\ key' = key /\ slot' = slot /\ reuse' = reuse
      /\ pc' = "transmit" /\ evicted' = evicted
      /\ radio' = [radio EXCEPT ![slot] = key]
      /\ foreign' = foreign \ {slot} /\ torn' = torn \ {slot}
      /\ latest' = IF reuse THEN key ELSE NoKey
  BY DEF ConfigureOk, SlotInv, OperationInv, MaybeWritten
<1>2. radio' \in Contents /\ radio'[slot] = key /\ \A s \in Slots : s # slot => radio'[s] = radio[s]
  BY <1>1 DEF SlotInv, TypeOK, Contents
<1>3. CASE reuse
  <2>1. /\ CacheInv' /\ slotOf'[key] = slot
        /\ \A j \in Cached' : j = key \/ (j \in Cached /\ slotOf'[j] = slotOf[j] /\ slotOf[j] # slot)
        /\ \A j \in Cached' : j # key => <<j, key>> \in before'
    BY <1>1, <1>3, SlotInvCache, LoadKeeps DEF ConfigureOk
  <2>2. key \in Cached'
    BY <1>1, <2>1 DEF Cached
  <2>3. CacheCoherent'
    <3>1. \A j \in Cached' : j # key => slotOf[j] \in Slots
      BY <2>1 DEF Cached, SlotInv, TypeOK
    <3> QED
      BY <1>1, <1>2, <2>1, <3>1 DEF CacheCoherent, SlotInv
  <2>4. OrderInv'
    BY <1>1, <1>3, <2>1, <2>2 DEF OrderInv, CacheInv
  <2>5. TypeOK'
    BY <1>1, <1>2, <2>1 DEF TypeOK, SlotInv, CacheInv
  <2>6. OperationInv'
    BY <1>1, <1>3, <2>1 DEF OperationInv
  <2> QED
    BY <1>1, <1>2, <2>1, <2>3, <2>4, <2>5, <2>6
    DEF SlotInv, CacheInv, SendsOnOwnChannel, LoadsClaimNoOther, EvictsLeastRecent
<1>4. CASE ~reuse
  <2>1. slotOf' = slotOf /\ keyAt' = keyAt /\ before' = before /\ Cached' = {} /\ Cached = {}
    BY <1>4 DEF ConfigureOk, NoteLoaded, cache, SlotInv, OperationInv, Cached
  <2>2. TypeOK' /\ MapsInverse'
    BY <1>1, <1>2, <1>4, <2>1 DEF SlotInv, TypeOK, MapsInverse
  <2>3. OperationInv' /\ OrderInv' /\ CacheCoherent'
    BY <1>1, <1>4, <2>1 DEF SlotInv, OperationInv, OrderInv, CacheCoherent
  <2> QED
    BY <1>1, <1>2, <2>2, <2>3
    DEF SlotInv, SendsOnOwnChannel, LoadsClaimNoOther, EvictsLeastRecent
<1> QED
  BY <1>3, <1>4

(* A step that ends the operation, removes at most one channel e from the   *)
(* cache and writes no slot of the others keeps the invariant.              *)
LEMMA EndStep ==
  ASSUME SlotInv, NEW e \in Keys \cup {NoKey}, Invalidate(e), Finished, reuse' = reuse,
         LatestKept,
         radio' \in Contents, foreign' \subseteq Slots, torn' \subseteq Slots,
         \A j \in Cached \ {e} :
            \/ radio'[slotOf[j]] = j
            \/ slotOf[j] \in foreign' \cup torn'
  PROVE  SlotInv'
<1> USE SlotFacts, KeysAssumption
<1>1. /\ CacheInv' /\ Cached' = Cached \ {e}
      /\ \A j \in Cached' : slotOf'[j] = slotOf[j]
      /\ \A i, j \in Cached' : <<i, j>> \in before => <<i, j>> \in before'
  BY SlotInvCache, InvalidateKeeps
<1>2. latest' \in Keys \cup {NoKey} /\ (latest' # NoKey => latest' = latest /\ latest \in Cached')
  BY <1>1 DEF LatestKept, SlotInv, TypeOK, Cached
<1>3. TypeOK'
  BY <1>1, <1>2 DEF TypeOK, SlotInv, CacheInv, Finished
<1>4. OrderInv'
  BY <1>1, <1>2 DEF OrderInv, CacheInv, SlotInv
<1>5. CacheCoherent'
  BY <1>1 DEF CacheCoherent
<1>6. OperationInv'
  BY <1>1 DEF OperationInv, Finished, SlotInv
<1> QED
  BY <1>1, <1>3, <1>4, <1>5, <1>6
  DEF SlotInv, CacheInv, SendsOnOwnChannel, LoadsClaimNoOther, EvictsLeastRecent, Finished
(* A step that leaves the cache alone also removes NoKey from it, and keeps *)
(* the latest channel.                                                      *)
LEMMA CacheUntouched ==
  ASSUME SlotInv, UNCHANGED cache, latest' = latest
  PROVE  Invalidate(NoKey) /\ LatestKept
<1>1. NoKey \notin Cached
  BY KeysAssumption DEF Cached
<1>2. latest # NoKey => slotOf'[latest] # NoSlot
  BY DEF SlotInv, OrderInv, Cached, cache
<1> QED
  BY <1>1, <1>2 DEF Invalidate, LatestKept

(* A failed load forgets the evicted channel, whatever the radio did.       *)
LEMMA ConfigureFailsStep ==
  ASSUME SlotInv, NEW applied \in BOOLEAN, ConfigureFails(applied)
  PROVE  SlotInv'
<1> USE SlotFacts, KeysAssumption
<1>1. /\ key \in Keys /\ slot \in Slots /\ evicted \in Keys \cup {NoKey}
      /\ reuse => keyAt[slot] = evicted
  BY DEF ConfigureFails, SlotInv, OperationInv, TypeOK, LoadsClaimNoOther
<1>2. radio' \in Contents /\ \A s \in Slots : s # slot => radio'[s] = radio[s]
  BY <1>1 DEF ConfigureFails, MaybeWritten, SlotInv, TypeOK, Contents
<1>3. \A j \in Cached \ {evicted} : slotOf[j] \in Slots /\ slotOf[j] # slot
  BY <1>1 DEF SlotInv, OperationInv, TypeOK, MapsInverse, Cached
<1>4. \A j \in Cached \ {evicted} : radio'[slotOf[j]] = j \/ slotOf[j] \in foreign' \cup torn'
  BY <1>2, <1>3 DEF ConfigureFails, SlotInv, CacheCoherent
<1> QED
  BY <1>1, <1>2, <1>4, EndStep DEF ConfigureFails, SlotInv, TypeOK

(* A cancelled load marks its slot as torn.                                 *)
LEMMA ConfigureCancelledStep ==
  ASSUME SlotInv, NEW applied \in BOOLEAN, ConfigureCancelled(applied)
  PROVE  SlotInv'
<1> USE SlotFacts, KeysAssumption
<1>1. key \in Keys /\ slot \in Slots
  BY DEF ConfigureCancelled, SlotInv, OperationInv
<1>2. radio' \in Contents /\ \A s \in Slots : s # slot => radio'[s] = radio[s]
  BY <1>1 DEF ConfigureCancelled, MaybeWritten, SlotInv, TypeOK, Contents
<1>3. \A j \in Cached \ {NoKey} : radio'[slotOf[j]] = j \/ slotOf[j] \in foreign' \cup torn'
  BY <1>1, <1>2 DEF ConfigureCancelled, SlotInv, CacheCoherent, Cached, TypeOK
<1> QED
  BY <1>1, <1>2, <1>3, CacheUntouched, EndStep DEF ConfigureCancelled, SlotInv, TypeOK

(* The three outcomes of send_chan_msg.                                     *)
LEMMA TransmitStep ==
  ASSUME SlotInv, TransmitOk \/ TransmitError \/ TransmitUnknown
  PROVE  SlotInv'
<1> USE SlotFacts, KeysAssumption
<1>1. /\ key \in Keys /\ radio' = radio /\ radio \in Contents /\ reuse' = reuse
      /\ foreign' = foreign /\ torn' = torn
      /\ foreign \subseteq Slots /\ torn \subseteq Slots /\ Finished
  BY DEF TransmitOk, TransmitError, TransmitUnknown, observer, SlotInv, OperationInv, TypeOK
<1>2. \A j \in Cached : radio'[slotOf[j]] = j \/ slotOf[j] \in foreign' \cup torn'
  BY <1>1 DEF SlotInv, CacheCoherent
<1>3. CASE TransmitOk /\ reuse
  <2>1. key \in Cached
    BY <1>3 DEF TransmitOk, SlotInv, OperationInv, Cached
  <2>2. /\ CacheInv' /\ slotOf' = slotOf
        /\ \A j \in Cached' : j # key => <<j, key>> \in before'
    BY <1>3, <2>1, SlotInvCache, UseKeeps DEF TransmitOk
  <2>3. latest' = key /\ Cached' = Cached
    BY <1>3, <2>2 DEF TransmitOk, Cached
  <2>4. OrderInv'
    BY <2>1, <2>2, <2>3 DEF OrderInv, CacheInv
  <2>5. TypeOK'
    BY <1>1, <2>2, <2>3 DEF TypeOK, SlotInv, CacheInv, Finished
  <2>6. OperationInv' /\ CacheCoherent'
    BY <1>1, <1>2, <1>3, <2>2, <2>3 DEF OperationInv, CacheCoherent, Finished
  <2> QED
    BY <1>1, <2>2, <2>4, <2>5, <2>6
    DEF SlotInv, CacheInv, SendsOnOwnChannel, LoadsClaimNoOther, EvictsLeastRecent, Finished
<1>4. CASE TransmitOk /\ ~reuse
  <2>1. UNCHANGED cache /\ Cached = {}
    BY <1>4 DEF TransmitOk, NoteUsed, SlotInv, OperationInv
  <2>2. latest' = latest
    BY <1>4, <2>1 DEF TransmitOk, SlotInv, OrderInv
  <2> QED
    BY <1>1, <1>2, <2>1, <2>2, CacheUntouched, EndStep
<1>5. CASE TransmitError
  BY <1>1, <1>2, <1>5, EndStep DEF TransmitError
<1>6. CASE TransmitUnknown
  BY <1>1, <1>2, <1>6, CacheUntouched, EndStep DEF TransmitUnknown, observer
<1> QED
  BY <1>3, <1>4, <1>5, <1>6

(* With an empty cache and no send under way every other part of the        *)
(* invariant is immediate.                                                  *)
LEMMA EmptyCacheInv ==
  ASSUME CacheInv', Cached' = {}, reuse' \in BOOLEAN, radio' \in Contents,
         pc' \in {"idle", "offload"}, pc' = "offload" => slot' \in Slots,
         key' \in Keys \cup {NoKey}, slot' \in Slots \cup {NoSlot},
         evicted' \in Keys \cup {NoKey},
         foreign' \subseteq Slots, torn' \subseteq Slots, latest' = NoKey
  PROVE  SlotInv'
<1>1. TypeOK' /\ OperationInv' /\ OrderInv'
  BY DEF CacheInv, TypeOK, OperationInv, OrderInv
<1> QED
  BY <1>1 DEF SlotInv, CacheInv, CacheCoherent, SendsOnOwnChannel, LoadsClaimNoOther,
              EvictsLeastRecent

(* The offload, the audit and the connection.                               *)
LEMMA MaintenanceStep ==
  ASSUME SlotInv,
         \/ OffloadBegin \/ OffloadAborts \/ AuditResets
         \/ \E cleared \in BOOLEAN : OffloadSlot(cleared)
         \/ \E contents \in Contents : Disconnect(contents)
  PROVE  SlotInv'
<1> USE SlotFacts, KeysAssumption
<1>1. CASE OffloadBegin
  <2>1. 0 \in Slots
    BY DEF TEMP_RADIO_SLOT
  <2> QED
    BY <1>1, <2>1, ResetKeeps, EmptyCacheInv DEF OffloadBegin, ResetCache, SlotInv, TypeOK
<1>2. CASE AuditResets
  BY <1>2, ResetKeeps, EmptyCacheInv DEF AuditResets, ResetCache, op, SlotInv, TypeOK
<1>3. CASE \E contents \in Contents : Disconnect(contents)
  BY <1>3, ResetKeeps, EmptyCacheInv DEF Disconnect, ResetCache, op, SlotInv, TypeOK
<1>4. CASE OffloadAborts \/ \E cleared \in BOOLEAN : OffloadSlot(cleared)
  <2>1. Cached = {} /\ pc = "offload" /\ UNCHANGED <<reuse, cache, observer>>
    BY <1>4 DEF OffloadAborts, OffloadSlot, SlotInv, OperationInv
  <2>2. CacheInv' /\ Cached' = {}
    BY <2>1, SlotInvCache DEF cache, CacheInv, MapsInverse, Cached
  <2>3. latest' = NoKey
    BY <2>1 DEF SlotInv, OrderInv, observer
  <2>4. radio' \in Contents
    BY <1>4 DEF OffloadAborts, OffloadSlot, MaybeWritten, SlotInv, TypeOK, Contents
  <2>5. /\ pc' \in {"idle", "offload"} /\ (pc' = "offload" => slot' \in Slots)
        /\ key' \in Keys \cup {NoKey} /\ slot' \in Slots \cup {NoSlot}
        /\ evicted' \in Keys \cup {NoKey}
    BY <1>4 DEF OffloadAborts, OffloadSlot, Finished, SlotInv, TypeOK
  <2> QED
    BY <2>1, <2>2, <2>3, <2>4, <2>5, EmptyCacheInv DEF observer, SlotInv, TypeOK
<1> QED
  BY <1>1, <1>2, <1>3, <1>4

(* Another client's write is remembered in foreign.                         *)
LEMMA ForeignStep ==
  ASSUME SlotInv, NEW s \in Slots, NEW v \in Keys \cup {NoKey}, ForeignWrite(s, v)
  PROVE  SlotInv'
<1> USE SlotFacts
<1>1. UNCHANGED <<reuse, slotOf, keyAt, before, pc, key, slot, evicted, torn, latest>>
  BY DEF ForeignWrite, cache, op
<1>2. /\ radio' \in Contents /\ \A t \in Slots : t # s => radio'[t] = radio[t]
      /\ foreign' = foreign \cup {s}
  BY DEF ForeignWrite, SlotInv, TypeOK, Contents
<1>3. TypeOK' /\ MapsInverse' /\ OperationInv' /\ OrderInv'
  BY <1>1, <1>2 DEF SlotInv, TypeOK, MapsInverse, OperationInv, OrderInv, Cached
<1>4. CacheCoherent'
  BY <1>1, <1>2 DEF SlotInv, TypeOK, CacheCoherent, Cached
<1>5. SendsOnOwnChannel'
  BY <1>1, <1>2 DEF SlotInv, OperationInv, SendsOnOwnChannel
<1> QED
  BY <1>1, <1>3, <1>4, <1>5 DEF SlotInv, LoadsClaimNoOther, EvictsLeastRecent

-----------------------------------------------------------------------------
(* The theorems                                                             *)

(* The inductive invariant of the channel-slot cache and of the operation   *)
(* that holds the radio lock.                                               *)
THEOREM SlotInvariance == Spec => []SlotInv
<1>1. Init => SlotInv
  <2> SUFFICES ASSUME Init PROVE SlotInv
    OBVIOUS
  <2> USE SlotFacts, KeysAssumption
  <2>1. Cached = {}
    BY DEF Init, Cached
  <2>2. TypeOK
    BY DEF Init, TypeOK, Contents
  <2>3. MapsInverse /\ OperationInv /\ OrderInv
    BY <2>1 DEF Init, MapsInverse, OperationInv, OrderInv
  <2> QED
    BY <2>1, <2>2, <2>3 DEF Init, SlotInv, CacheCoherent, SendsOnOwnChannel,
                            LoadsClaimNoOther, EvictsLeastRecent
<1>2. SlotInv /\ [Next]_vars => SlotInv'
  <2> SUFFICES ASSUME SlotInv, [Next]_vars PROVE SlotInv'
    OBVIOUS
  <2>1. CASE UNCHANGED vars
    BY <2>1 DEF vars, SlotInv, TypeOK, MapsInverse, OperationInv, OrderInv, CacheCoherent,
                SendsOnOwnChannel, LoadsClaimNoOther, EvictsLeastRecent, Cached
  <2>2. CASE \E k \in Keys : Plan(k)
    BY <2>2, PlanStep
  <2>3. CASE ConfigureOk
    BY <2>3, ConfigureOkStep
  <2>4. CASE \E applied \in BOOLEAN : ConfigureFails(applied) \/ ConfigureCancelled(applied)
    BY <2>4, ConfigureFailsStep, ConfigureCancelledStep
  <2>5. CASE TransmitOk \/ TransmitError \/ TransmitUnknown
    BY <2>5, TransmitStep
  <2>6. CASE \/ OffloadBegin \/ OffloadAborts \/ AuditResets
             \/ \E cleared \in BOOLEAN : OffloadSlot(cleared)
             \/ \E contents \in Contents : Disconnect(contents)
    BY <2>6, MaintenanceStep
  <2>7. CASE \E s \in Slots, v \in Keys \cup {NoKey} : ForeignWrite(s, v)
    BY <2>7, ForeignStep
  <2>8. CASE AuditPasses
    BY <2>1, <2>8 DEF AuditPasses
  <2> QED
    BY <2>1, <2>2, <2>3, <2>4, <2>5, <2>6, <2>7, <2>8 DEF Next
<1> QED
  BY <1>1, <1>2, PTL DEF Spec

(* _channel_slot_by_key and _channel_key_by_slot are inverse of each other. *)
THEOREM CacheMapsInverse == Spec => []MapsInverse
<1>1. SlotInv => MapsInverse
  BY DEF SlotInv
<1> QED
  BY <1>1, SlotInvariance, PTL

(* A message is handed to the radio on a slot that holds its own channel,   *)
(* unless another client wrote the slot or a load of it was cancelled.      *)
THEOREM SentOnOwnChannel == Spec => []SendsOnOwnChannel
<1>1. SlotInv => SendsOnOwnChannel
  BY DEF SlotInv
<1> QED
  BY <1>1, SlotInvariance, PTL

(* A load never overwrites a channel the cache still names, other than the  *)
(* one it evicts.                                                           *)
THEOREM LoadOverwritesNoOther == Spec => []LoadsClaimNoOther
<1>1. SlotInv => LoadsClaimNoOther
  BY DEF SlotInv
<1> QED
  BY <1>1, SlotInvariance, PTL

(* The channel last used is never the one evicted.                          *)
THEOREM LatestNotEvicted == Spec => []EvictsLeastRecent
<1>1. SlotInv => EvictsLeastRecent
  BY DEF SlotInv
<1> QED
  BY <1>1, SlotInvariance, PTL

(* The cache, the slots and the operation under way keep their types.       *)
THEOREM SlotTypes == Spec => []TypeOK
<1>1. SlotInv => TypeOK
  BY DEF SlotInv
<1> QED
  BY <1>1, SlotInvariance, PTL

(* What the cache says of a slot is what the radio holds there, wherever no *)
(* other client wrote and no load was cancelled.                            *)
THEOREM CacheStaysCoherent == Spec => []CacheCoherent
<1>1. SlotInv => CacheCoherent
  BY DEF SlotInv
<1> QED
  BY <1>1, SlotInvariance, PTL

-----------------------------------------------------------------------------
(* Sender timestamps                                                        *)

(* The lock was free, so no other request is between its clock reading and its send.*)
LEMMA BeginStep ==
  ASSUME StampInv, NEW s \in Sends, Begin(s)
  PROVE  StampInv'
<1> USE NoSendAssumption, MaxNowAssumption
<1> USE DEF StampInv, Begin, Goto, Bump, Advance, Stored, Now
<1>1. StampTypeOK'
  BY DEF StampTypeOK, Steps
<1>2. LockInv'
  BY DEF StampTypeOK, LockInv
<1>3. RowFirst'
  BY DEF StampTypeOK, RowFirst
<1>4. FreeInv'
  BY DEF StampTypeOK, LockInv, FreeInv, HoldInv, Holding
<1>5. HoldInv'
  BY DEF StampTypeOK, LockInv, FreeInv, HoldInv, Holding
<1>6. AcceptedInv'
  BY DEF StampTypeOK, LockInv, AcceptedInv
<1>7. RowsDistinct'
  BY DEF StampTypeOK, RowsDistinct, HoldInv, Holding
<1>8. ReservedByOne'
  BY DEF StampTypeOK, ReservedByOne, HoldInv, FreeInv, Holding
<1> QED
  BY <1>1, <1>2, <1>3, <1>4, <1>5, <1>6, <1>7, <1>8

(* The first look at the reservations changes only the request itself.     *)
LEMMA CheckReservedStep ==
  ASSUME StampInv, NEW s \in Sends, CheckReserved(s)
  PROVE  StampInv'
<1> USE NoSendAssumption, MaxNowAssumption
<1> USE DEF StampInv, CheckReserved, Goto, Bump, Advance, Stored, Now
<1>1. StampTypeOK'
  BY DEF StampTypeOK, Steps
<1>2. LockInv'
  BY DEF StampTypeOK, LockInv
<1>3. RowFirst'
  BY DEF StampTypeOK, RowFirst
<1>4. FreeInv'
  BY DEF StampTypeOK, LockInv, FreeInv, HoldInv, Holding
<1>5. HoldInv'
  BY DEF StampTypeOK, LockInv, FreeInv, HoldInv, Holding
<1>6. AcceptedInv'
  BY DEF StampTypeOK, LockInv, AcceptedInv
<1>7. RowsDistinct'
  BY DEF StampTypeOK, RowsDistinct, HoldInv, Holding
<1>8. ReservedByOne'
  BY DEF StampTypeOK, ReservedByOne, HoldInv, FreeInv, Holding
<1> QED
  BY <1>1, <1>2, <1>3, <1>4, <1>5, <1>6, <1>7, <1>8

(* A candidate without a row is free, and so is its reservation.           *)
LEMMA LookupStep ==
  ASSUME StampInv, NEW s \in Sends, Lookup(s)
  PROVE  StampInv'
<1> USE NoSendAssumption, MaxNowAssumption
<1> USE DEF StampInv, Lookup, Goto, Bump, Advance, Stored, Now
<1>1. StampTypeOK'
  BY DEF StampTypeOK, Steps
<1>2. LockInv'
  BY DEF StampTypeOK, LockInv
<1>3. RowFirst'
  BY DEF StampTypeOK, RowFirst
<1>4. FreeInv'
  BY DEF StampTypeOK, LockInv, FreeInv, HoldInv, Holding
<1>5. HoldInv'
  BY DEF StampTypeOK, LockInv, FreeInv, HoldInv, Holding
<1>6. AcceptedInv'
  BY DEF StampTypeOK, LockInv, AcceptedInv
<1>7. RowsDistinct'
  BY DEF StampTypeOK, RowsDistinct, HoldInv, Holding
<1>8. ReservedByOne'
  BY DEF StampTypeOK, ReservedByOne, HoldInv, FreeInv, Holding
<1> QED
  BY <1>1, <1>2, <1>3, <1>4, <1>5, <1>6, <1>7, <1>8

(* A free candidate becomes the request's own.                             *)
LEMMA ReserveStep ==
  ASSUME StampInv, NEW s \in Sends, Reserve(s)
  PROVE  StampInv'
<1> USE NoSendAssumption, MaxNowAssumption
<1> USE DEF StampInv, Reserve, Goto, Bump, Advance, Stored, Now
<1>1. StampTypeOK'
  <2>1. cand[s] \in Nat /\ cand' \in [Sends -> Nat]
    BY DEF StampTypeOK
  <2>2. step' \in [Sends -> Steps] /\ reserved' \subseteq Nat
    BY <2>1 DEF StampTypeOK, Steps
  <2> QED
    BY <2>1, <2>2 DEF StampTypeOK
<1>2. LockInv'
  BY DEF StampTypeOK, LockInv
<1>3. RowFirst'
  BY DEF StampTypeOK, RowFirst
<1>4. FreeInv'
  BY DEF StampTypeOK, LockInv, FreeInv, HoldInv, Holding
<1>5. HoldInv'
  BY DEF StampTypeOK, LockInv, FreeInv, HoldInv, Holding
<1>6. AcceptedInv'
  BY DEF StampTypeOK, LockInv, AcceptedInv
<1>7. RowsDistinct'
  BY DEF StampTypeOK, RowsDistinct, HoldInv, Holding
<1>8. ReservedByOne'
  <2>1. cand[s] \notin reserved
    BY DEF FreeInv
  <2>2. /\ step'[s] \in Holding /\ cand' = cand /\ step[s] = "reserve"
        /\ \A u \in Sends \ {s} : step'[u] = step[u]
        /\ reserved' = reserved \cup {cand[s]}
    BY <2>1 DEF StampTypeOK, Holding
  <2>3. \A u \in Sends \ {s} : step'[u] \in Holding => cand'[u] # cand[s]
    BY <2>1, <2>2 DEF HoldInv
  <2>4. \A t \in reserved : \E u \in Sends \ {s} :
           /\ step'[u] \in Holding /\ cand'[u] = t
           /\ \A v \in Sends \ {u} : step'[v] \in Holding => cand'[v] # t
    BY <2>1, <2>2 DEF ReservedByOne, Holding
  <2> QED
    BY <2>2, <2>3, <2>4 DEF ReservedByOne
<1> QED
  BY <1>1, <1>2, <1>3, <1>4, <1>5, <1>6, <1>7, <1>8

(* The row carries a timestamp that the request holds.                     *)
LEMMA StoreChannelStep ==
  ASSUME StampInv, NEW s \in Sends, StoreChannel(s)
  PROVE  StampInv'
<1> USE NoSendAssumption, MaxNowAssumption
<1> USE DEF StampInv, StoreChannel, Goto, Bump, Advance, Stored, Now
<1>1. StampTypeOK'
  BY DEF StampTypeOK, Steps
<1>2. LockInv'
  BY DEF StampTypeOK, LockInv
<1>3. RowFirst'
  BY DEF StampTypeOK, RowFirst
<1>4. FreeInv'
  BY DEF StampTypeOK, LockInv, FreeInv, HoldInv, Holding
<1>5. HoldInv'
  BY DEF StampTypeOK, LockInv, FreeInv, HoldInv, Holding
<1>6. AcceptedInv'
  BY DEF StampTypeOK, LockInv, AcceptedInv
<1>7. RowsDistinct'
  BY DEF StampTypeOK, RowsDistinct, HoldInv, Holding
<1>8. ReservedByOne'
  BY DEF StampTypeOK, ReservedByOne, HoldInv, FreeInv, Holding
<1> QED
  BY <1>1, <1>2, <1>3, <1>4, <1>5, <1>6, <1>7, <1>8

(* The radio accepts a send whose timestamp is held.                       *)
LEMMA SendAcceptedStep ==
  ASSUME StampInv, NEW s \in Sends, SendAccepted(s)
  PROVE  StampInv'
<1> USE NoSendAssumption, MaxNowAssumption
<1> USE DEF StampInv, SendAccepted, Goto, Bump, Advance, Stored, Now
<1>1. StampTypeOK'
  BY DEF StampTypeOK, Steps
<1>2. LockInv'
  BY DEF StampTypeOK, LockInv
<1>3. RowFirst'
  BY DEF StampTypeOK, RowFirst
<1>4. FreeInv'
  BY DEF StampTypeOK, LockInv, FreeInv, HoldInv, Holding
<1>5. HoldInv'
  BY DEF StampTypeOK, LockInv, FreeInv, HoldInv, Holding
<1>6. AcceptedInv'
  <2> SUFFICES ASSUME NEW u \in accepted'
               PROVE  \/ step'[u] = "store" /\ direct'
                      \/ step'[u] \in {"release", "done"} /\ <<u, cand'[u]>> \in rows'
    BY DEF AcceptedInv
  <2>1. CASE u # s
    BY <2>1 DEF StampTypeOK, AcceptedInv
  <2>2. CASE u = s /\ direct
    BY <2>2 DEF StampTypeOK
  <2>3. CASE u = s /\ ~direct
    BY <2>3 DEF StampTypeOK, RowFirst
  <2> QED
    BY <2>1, <2>2, <2>3 DEF StampTypeOK
<1>7. RowsDistinct'
  BY DEF StampTypeOK, RowsDistinct, HoldInv, Holding
<1>8. ReservedByOne'
  BY DEF StampTypeOK, ReservedByOne, HoldInv, FreeInv, Holding
<1> QED
  BY <1>1, <1>2, <1>3, <1>4, <1>5, <1>6, <1>7, <1>8

(* A failed send gives nothing up but the radio lock.                      *)
LEMMA SendFailsStep ==
  ASSUME StampInv, NEW s \in Sends, SendFails(s)
  PROVE  StampInv'
<1> USE NoSendAssumption, MaxNowAssumption
<1> USE DEF StampInv, SendFails, Goto, Bump, Advance, Stored, Now
<1>1. StampTypeOK'
  BY DEF StampTypeOK, Steps
<1>2. LockInv'
  BY DEF StampTypeOK, LockInv
<1>3. RowFirst'
  BY DEF StampTypeOK, RowFirst
<1>4. FreeInv'
  BY DEF StampTypeOK, LockInv, FreeInv, HoldInv, Holding
<1>5. HoldInv'
  BY DEF StampTypeOK, LockInv, FreeInv, HoldInv, Holding
<1>6. AcceptedInv'
  BY DEF StampTypeOK, LockInv, AcceptedInv
<1>7. RowsDistinct'
  BY DEF StampTypeOK, RowsDistinct, HoldInv, Holding
<1>8. ReservedByOne'
  BY DEF StampTypeOK, ReservedByOne, HoldInv, FreeInv, Holding
<1> QED
  BY <1>1, <1>2, <1>3, <1>4, <1>5, <1>6, <1>7, <1>8

(* The row of a direct message carries a timestamp that the request still holds.*)
LEMMA StoreDirectStep ==
  ASSUME StampInv, NEW s \in Sends, StoreDirect(s)
  PROVE  StampInv'
<1> USE NoSendAssumption, MaxNowAssumption
<1> USE DEF StampInv, StoreDirect, Goto, Bump, Advance, Stored, Now
<1>1. StampTypeOK'
  BY DEF StampTypeOK, Steps
<1>2. LockInv'
  BY DEF StampTypeOK, LockInv
<1>3. RowFirst'
  BY DEF StampTypeOK, RowFirst
<1>4. FreeInv'
  BY DEF StampTypeOK, LockInv, FreeInv, HoldInv, Holding
<1>5. HoldInv'
  BY DEF StampTypeOK, LockInv, FreeInv, HoldInv, Holding
<1>6. AcceptedInv'
  BY DEF StampTypeOK, LockInv, AcceptedInv
<1>7. RowsDistinct'
  BY DEF StampTypeOK, RowsDistinct, HoldInv, Holding
<1>8. ReservedByOne'
  BY DEF StampTypeOK, ReservedByOne, HoldInv, FreeInv, Holding
<1> QED
  BY <1>1, <1>2, <1>3, <1>4, <1>5, <1>6, <1>7, <1>8

(* A failed channel send deletes its own row only.                         *)
LEMMA DeleteRowStep ==
  ASSUME StampInv, NEW s \in Sends, DeleteRow(s)
  PROVE  StampInv'
<1> USE NoSendAssumption, MaxNowAssumption
<1> USE DEF StampInv, DeleteRow, Goto, Bump, Advance, Stored, Now
<1>1. StampTypeOK'
  BY DEF StampTypeOK, Steps
<1>2. LockInv'
  BY DEF StampTypeOK, LockInv
<1>3. RowFirst'
  BY DEF StampTypeOK, RowFirst
<1>4. FreeInv'
  BY DEF StampTypeOK, LockInv, FreeInv, HoldInv, Holding
<1>5. HoldInv'
  BY DEF StampTypeOK, LockInv, FreeInv, HoldInv, Holding
<1>6. AcceptedInv'
  BY DEF StampTypeOK, LockInv, AcceptedInv
<1>7. RowsDistinct'
  BY DEF StampTypeOK, RowsDistinct, HoldInv, Holding
<1>8. ReservedByOne'
  BY DEF StampTypeOK, ReservedByOne, HoldInv, FreeInv, Holding
<1> QED
  BY <1>1, <1>2, <1>3, <1>4, <1>5, <1>6, <1>7, <1>8

(* A reservation is given up by the request that holds it.                 *)
LEMMA ReleaseStep ==
  ASSUME StampInv, NEW s \in Sends, Release(s)
  PROVE  StampInv'
<1> USE NoSendAssumption, MaxNowAssumption
<1> USE DEF StampInv, Release, Goto, Bump, Advance, Stored, Now
<1>1. StampTypeOK'
  BY DEF StampTypeOK, Steps
<1>2. LockInv'
  BY DEF StampTypeOK, LockInv
<1>3. RowFirst'
  BY DEF StampTypeOK, RowFirst
<1>4. FreeInv'
  BY DEF StampTypeOK, LockInv, FreeInv, HoldInv, Holding
<1>5. HoldInv'
  BY DEF StampTypeOK, LockInv, FreeInv, HoldInv, Holding
<1>6. AcceptedInv'
  BY DEF StampTypeOK, LockInv, AcceptedInv
<1>7. RowsDistinct'
  BY DEF StampTypeOK, RowsDistinct, HoldInv, Holding
<1>8. ReservedByOne'
  BY DEF StampTypeOK, ReservedByOne, HoldInv, FreeInv, Holding
<1> QED
  BY <1>1, <1>2, <1>3, <1>4, <1>5, <1>6, <1>7, <1>8

(* A cancelled request keeps at most a row with a timestamp it holds.       *)
LEMMA CancelStep ==
  ASSUME StampInv, NEW s \in Sends, NEW made \in BOOLEAN, Cancel(s, made)
  PROVE  StampInv'
<1> USE NoSendAssumption
<1> USE DEF StampInv, Cancel, Goto, Advance
<1>1. /\ rows' \subseteq rows \cup {<<s, cand[s]>>}
      /\ rows \ {<<s, cand[s]>>} \subseteq rows'
      /\ rows' # rows => step[s] \in {"store", "delete"}
      /\ step[s] = "send" => rows' = rows
  BY DEF RowsAfterCancel
<1>2. StampTypeOK'
  BY <1>1 DEF StampTypeOK, Steps
<1>3. LockInv'
  BY DEF StampTypeOK, LockInv
<1>4. RowFirst'
  BY <1>1 DEF StampTypeOK, RowFirst
<1>5. FreeInv'
  BY <1>1 DEF StampTypeOK, FreeInv, HoldInv, Holding
<1>6. HoldInv'
  BY <1>1 DEF StampTypeOK, HoldInv, Holding
<1>7. AcceptedInv'
  BY <1>1 DEF StampTypeOK, AcceptedInv
<1>8. RowsDistinct'
  BY <1>1 DEF StampTypeOK, RowsDistinct, HoldInv, Holding
<1>9. ReservedByOne'
  BY DEF StampTypeOK, ReservedByOne, HoldInv, FreeInv, Holding
<1> QED
  BY <1>2, <1>3, <1>4, <1>5, <1>6, <1>7, <1>8, <1>9

-----------------------------------------------------------------------------

(* The inductive invariant of the reservations.                             *)
THEOREM StampInvariance == StampSpec => []StampInv
<1>1. StampInit => StampInv
  BY DEF StampInit, StampInv, StampTypeOK, Steps, LockInv, RowFirst, FreeInv, HoldInv, Holding, AcceptedInv,
         RowsDistinct, ReservedByOne
<1>2. StampInv /\ [StampNext]_stampVars => StampInv'
  <2> SUFFICES ASSUME StampInv, [StampNext]_stampVars PROVE StampInv'
    OBVIOUS
  <2>1. CASE UNCHANGED stampVars
    BY <2>1 DEF stampVars, StampInv, StampTypeOK, LockInv, RowFirst, FreeInv, HoldInv, AcceptedInv,
                RowsDistinct, ReservedByOne
  <2>2. CASE \E s \in Sends : Begin(s) \/ SendStep(s)
    BY <2>2, BeginStep, CheckReservedStep, LookupStep, ReserveStep, StoreChannelStep,
       SendAcceptedStep, SendFailsStep, StoreDirectStep, DeleteRowStep, ReleaseStep DEF SendStep
  <2>3. CASE \E s \in Sends, made \in BOOLEAN : Cancel(s, made)
    BY <2>3, CancelStep
  <2>4. CASE \E t \in Now : IncomingRow(t)
    BY <2>4, MaxNowAssumption
    DEF IncomingRow, Now, StampInv, StampTypeOK, LockInv, RowFirst, FreeInv, HoldInv, AcceptedInv,
        RowsDistinct, ReservedByOne
  <2> QED
    BY <2>1, <2>2, <2>3, <2>4 DEF StampNext
<1> QED
  BY <1>1, <1>2, PTL DEF StampSpec

(* No two outgoing rows share text, conversation and timestamp.             *)
THEOREM OutgoingRowsDistinct == StampSpec => []RowsDistinct
<1>1. StampInv => RowsDistinct
  BY DEF StampInv
<1> QED
  BY <1>1, StampInvariance, PTL

(* Every reservation belongs to exactly one request under way.              *)
THEOREM ReservationsOwned == StampSpec => []ReservedByOne
<1>1. StampInv => ReservedByOne
  BY DEF StampInv
<1> QED
  BY <1>1, StampInvariance, PTL

-----------------------------------------------------------------------------
(* The refinement of UniqueStamps                                           *)

(* A step that changes neither the accepted sends nor their timestamps is   *)
(* no step of UniqueStamps.                                                 *)
LEMMA StampKept ==
  ASSUME accepted' = accepted, \A s \in accepted : cand'[s] = cand[s]
  PROVE  Stamp' = Stamp
BY DEF Stamp

(* The steps of a request before and after the radio's answer.              *)
LEMMA QuietStep ==
  ASSUME StampInv, NEW s \in Sends,
         \/ Begin(s) \/ CheckReserved(s) \/ Lookup(s) \/ Reserve(s) \/ StoreChannel(s)
         \/ SendFails(s) \/ StoreDirect(s) \/ DeleteRow(s) \/ Release(s)
  PROVE  Stamp' = Stamp
<1>1. accepted' = accepted
  BY DEF Begin, CheckReserved, Lookup, Reserve, StoreChannel, SendFails, StoreDirect, DeleteRow,
         Release
<1>2. \A u \in accepted : cand'[u] = cand[u]
  <2>1. \/ cand' = cand
        \/ /\ step[s] \in {"idle", "check", "lookup", "reserve"}
           /\ \A u \in Sends \ {s} : cand'[u] = cand[u]
    BY DEF Begin, CheckReserved, Lookup, Reserve, StoreChannel, SendFails, StoreDirect, DeleteRow,
           Release, Bump, Advance, StampInv, StampTypeOK
  <2> QED
    BY <2>1 DEF StampInv, StampTypeOK, AcceptedInv
<1> QED
  BY <1>1, <1>2, StampKept

(* The radio accepts a send: its timestamp is nobody else's.                *)
LEMMA AcceptTakes ==
  ASSUME StampInv, NEW s \in Sends, SendAccepted(s)
  PROVE  Stamps!Take(s)
<1>1. s \notin accepted /\ cand' = cand /\ accepted' = accepted \cup {s} /\ cand[s] \in Nat
  BY DEF SendAccepted, Advance, StampInv, StampTypeOK, AcceptedInv
<1>2. \A u \in accepted : cand[u] # cand[s]
  <2> SUFFICES ASSUME NEW u \in accepted, cand[u] = cand[s] PROVE FALSE
    OBVIOUS
  <2>1. u \in Sends /\ u # s /\ step[s] = "send"
    BY <1>1 DEF SendAccepted, StampInv, StampTypeOK
  <2>2. CASE step[u] = "store"
    BY <2>1, <2>2 DEF StampInv, HoldInv, Holding
  <2>3. CASE <<u, cand[u]>> \in rows
    BY <2>1, <2>3 DEF StampInv, HoldInv, Holding
  <2> QED
    BY <2>2, <2>3 DEF StampInv, AcceptedInv
<1>3. Stamp[s] = -1 /\ Stamp'[s] = cand[s] /\ \A u \in Sends \ {s} : Stamp'[u] = Stamp[u]
  BY <1>1 DEF Stamp
<1>4. Stamp' = [Stamp EXCEPT ![s] = Stamp'[s]]
  BY <1>3 DEF Stamp
<1>5. Stamp'[s] \in Nat \ Stamps!Owned
  BY <1>1, <1>2, <1>3 DEF Stamp, Stamps!Owned, Stamps!NoStamp, StampInv, StampTypeOK
<1> QED
  BY <1>3, <1>4, <1>5 DEF Stamps!Take, Stamps!NoStamp

(* A cancelled request abandons its timestamp, or keeps it with its row.    *)
LEMMA CancelAbandons ==
  ASSUME StampInv, NEW s \in Sends, NEW made \in BOOLEAN, Cancel(s, made)
  PROVE  Stamp' = Stamp \/ Stamps!Abandon(s)
<1>1. cand' = cand /\ cand[s] \in Nat /\ (accepted' = accepted \/ accepted' = accepted \ {s})
  BY DEF Cancel, Advance, StampInv, StampTypeOK
<1>2. CASE accepted' = accepted
  BY <1>1, <1>2, StampKept
<1>3. CASE accepted' = accepted \ {s} /\ s \in accepted
  <2>1. Stamp[s] = cand[s] /\ cand[s] # -1
    BY <1>1, <1>3 DEF Stamp
  <2>2. \A u \in Sends : Stamp'[u] = IF u = s THEN -1 ELSE Stamp[u]
    BY <1>1, <1>3 DEF Stamp
  <2>3. Stamp' = [Stamp EXCEPT ![s] = -1]
    BY <2>2 DEF Stamp
  <2> QED
    BY <2>1, <2>3 DEF Stamps!Abandon, Stamps!NoStamp
<1> QED
  BY <1>1, <1>2, <1>3

(* The allocation implements UniqueStamps: a send that the radio accepted   *)
(* owns its timestamp for good.                                             *)
THEOREM StampsRefined == StampSpec => StampsUnique
<1>1. StampInit => Stamps!Init
  BY DEF StampInit, Stamps!Init, Stamps!NoStamp, Stamp
<1>2. StampInv /\ [StampNext]_stampVars => [Stamps!Next]_Stamp
  <2> SUFFICES ASSUME StampInv, [StampNext]_stampVars PROVE Stamps!Next \/ Stamp' = Stamp
    OBVIOUS
  <2>1. CASE UNCHANGED stampVars
    BY <2>1 DEF stampVars, Stamp
  <2>2. CASE \E s \in Sends : Begin(s) \/ SendStep(s)
    BY <2>2, QuietStep, AcceptTakes DEF SendStep, Stamps!Next
  <2>3. CASE \E s \in Sends, made \in BOOLEAN : Cancel(s, made)
    BY <2>3, CancelAbandons DEF Stamps!Next
  <2>4. CASE \E t \in Now : IncomingRow(t)
    BY <2>4, StampKept DEF IncomingRow
  <2> QED
    BY <2>1, <2>2, <2>3, <2>4 DEF StampNext
<1> QED
  BY <1>1, <1>2, StampInvariance, PTL DEF StampSpec, StampsUnique, Stamps!Spec

(* The lock, the requests, the reservations and the rows keep their types.  *)
THEOREM StampTypes == StampSpec => []StampTypeOK
<1>1. StampInv => StampTypeOK
  BY DEF StampInv
<1> QED
  BY <1>1, StampInvariance, PTL
===============================================================================
