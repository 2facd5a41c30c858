--------------------------- MODULE DmDeliveryProofs ---------------------------
(***************************************************************************)
(* Safety of DmDelivery for any number of messages, attempts and window    *)
(* lengths.                                                                *)
(***************************************************************************)
EXTENDS DmDelivery, FiniteSetTheorems, TLAPS

(* A code names one of the messages and one of its attempts.               *)
LEMMA CodeParts ==
  /\ \A c \in Codes : c[1] \in Msgs /\ c[2] \in Attempts /\ c = <<c[1], c[2]>>
  /\ \A m \in Msgs, a \in Attempts : <<m, a>> \in Codes /\ <<m, a>>[1] = m /\ <<m, a>>[2] = a
BY DEF Codes

(* The loop head of the retry task keeps the types of its own state.       *)
LEMMA NextAttemptTypes ==
  ASSUME TypeOK, NEW m \in Msgs, NEW a \in 0 .. DM_SEND_MAX_ATTEMPTS, NextAttempt(m, a)
  PROVE  /\ pc' \in [Msgs -> PCs] /\ att' \in [Msgs -> 0 .. DM_SEND_MAX_ATTEMPTS]
         /\ timer' \in [Msgs -> 0 .. RetryWait]
<1>1. att' \in [Msgs -> 0 .. DM_SEND_MAX_ATTEMPTS]
  BY DEF NextAttempt, TypeOK
<1>2. RetryWait \in 0 .. RetryWait
  BY WindowAssumption
<1>3. CASE a < DM_SEND_MAX_ATTEMPTS
  BY <1>1, <1>2, <1>3 DEF NextAttempt, TypeOK, PCs
<1>4. CASE ~(a < DM_SEND_MAX_ATTEMPTS)
  BY <1>1, <1>4 DEF NextAttempt, TypeOK, PCs
<1> QED
  BY <1>3, <1>4

(* Registering a code keeps the types, whether its ACK was buffered or not. *)
LEMMA TrackTypes ==
  ASSUME TypeOK, NEW c \in Codes, TrackMatched(c) \/ TrackPending(c),
         UNCHANGED <<acked, inflight, mesh>>
  PROVE  TypeOK'
<1> USE AttemptsAssumption, WindowAssumption, HeardAssumption, CodeParts
<1> USE DEF TypeOK, Ages, Cap, None, PCs, mesh
<1>1. reg' \subseteq Codes /\ due' \subseteq Codes /\ clk' \in [Codes -> 0 .. Cap]
  <2>1. Register(c)
    BY DEF TrackMatched, TrackPending
  <2>2. 0 \in 0 .. Cap
    OBVIOUS
  <2> QED
    BY <2>1, <2>2 DEF Register
<1>2. pending' \in [Codes -> Ages \cup {None}] /\ buffered' \in [Codes -> Ages \cup {None}]
  <2>1. CASE TrackMatched(c)
    BY <2>1 DEF TrackMatched, WithoutSiblings
  <2>2. CASE TrackPending(c)
    BY <2>2 DEF TrackPending
  <2> QED
    BY <2>1, <2>2
<1>3. c[1] \in Msgs /\ c[2] + 1 \in 0 .. DM_SEND_MAX_ATTEMPTS
  BY DEF Attempts
<1>4. /\ pc' \in [Msgs -> PCs] /\ att' \in [Msgs -> 0 .. DM_SEND_MAX_ATTEMPTS]
      /\ timer' \in [Msgs -> 0 .. RetryWait]
  <2>1. CASE TrackMatched(c)
    BY <1>3, <2>1 DEF TrackMatched
  <2>2. CASE TrackPending(c)
    BY <1>3, <2>2, NextAttemptTypes DEF TrackPending
  <2> QED
    BY <2>1, <2>2
<1> QED
  BY <1>1, <1>2, <1>4

(* Every step keeps the types.  A retry transmits only attempts below       *)
(* DM_SEND_MAX_ATTEMPTS, which is what AttemptInv is needed for.            *)
LEMMA StepTypes ==
  ASSUME TypeOK, AttemptInv, [Next]_vars
  PROVE  TypeOK'
<1> USE AttemptsAssumption, WindowAssumption, HeardAssumption
<1> USE DEF TypeOK, Ages, Cap, None, PCs, tracker, task, mesh, observer
<1>1. ASSUME NEW m \in Msgs, TaskStep(m) PROVE TypeOK'
  <2>0. <<m, 0>> \in Codes
    BY DEF Codes, Attempts
  <2>a. pc[m] \in {"waiting", "radio", "result", "track"} =>
          <<m, att[m]>> \in Codes /\ att[m] + 1 \in 0 .. DM_SEND_MAX_ATTEMPTS
    BY DEF AttemptInv, Codes, Attempts
  <2>1. ASSUME SendOk(m) PROVE TypeOK'
    BY <2>0, <2>1 DEF SendOk, Transmit
  <2>2. ASSUME StoreRow(m) PROVE TypeOK'
    BY <2>2 DEF StoreRow
  <2>3. ASSUME SendTracks(m) PROVE TypeOK'
    BY <2>0, <2>3, TrackTypes DEF SendTracks
  <2>4. ASSUME SendUntracked(m) PROVE TypeOK'
    BY <2>4 DEF SendUntracked
  <2>5. ASSUME IncrementOwn(m) PROVE TypeOK'
    BY <2>5 DEF IncrementOwn
  <2>6. ASSUME RetryWakes(m) PROVE TypeOK'
    BY <2>6 DEF RetryWakes
  <2>7. ASSUME RetrySends(m) PROVE TypeOK'
    BY <2>a, <2>7 DEF RetrySends, Transmit
  <2>8. ASSUME RetryRechecks(m) PROVE TypeOK'
    BY <2>8 DEF RetryRechecks
  <2>9. ASSUME RetryTracks(m) PROVE TypeOK'
    BY <2>a, <2>9, TrackTypes DEF RetryTracks
  <2>10. ASSUME RetryUntracked(m) PROVE TypeOK'
    BY <2>a, <2>10, NextAttemptTypes DEF RetryUntracked
  <2>11. ASSUME NEW leaves \in BOOLEAN, SendFails(m, leaves) PROVE TypeOK'
    BY <2>0, <2>11 DEF SendFails, Transmit
  <2>12. ASSUME NEW leaves \in BOOLEAN, RetryFails(m, leaves) PROVE TypeOK'
    <3>1. NextAttempt(m, att[m] + 1) /\ pc[m] = "radio"
      BY <2>12 DEF RetryFails
    <3>2. /\ pc' \in [Msgs -> PCs] /\ att' \in [Msgs -> 0 .. DM_SEND_MAX_ATTEMPTS]
          /\ timer' \in [Msgs -> 0 .. RetryWait]
      BY <2>a, <3>1, NextAttemptTypes
    <3> QED
      BY <2>a, <2>12, <3>1, <3>2 DEF RetryFails, Transmit
  <2> QED
    BY <1>1, <2>1, <2>2, <2>3, <2>4, <2>5, <2>6, <2>7, <2>8, <2>9, <2>10, <2>11, <2>12
       DEF TaskStep
<1>2. ASSUME NEW m \in Msgs, IncrementAck(m) PROVE TypeOK'
  BY <1>2 DEF IncrementAck
<1>3. ASSUME NEW c \in Codes, Hear(c) PROVE
        /\ heard' \subseteq Codes /\ rx' \in 0 .. MaxHeard /\ due' \subseteq Codes
        /\ clk' \in [Codes -> 0 .. Cap] /\ onAir' = onAir /\ reg' = reg
  BY <1>3 DEF Hear
<1>4. ASSUME NEW c \in Codes, AckMatched(c) PROVE TypeOK'
  BY <1>3, <1>4, CodeParts DEF AckMatched, DropOlder, WithoutSiblings
<1>5. ASSUME NEW c \in Codes, AckUnmatched(c) PROVE TypeOK'
  BY <1>3, <1>5, CodeParts DEF AckUnmatched, DropOlder
<1>6. ASSUME Cleanup PROVE TypeOK'
  BY <1>6 DEF Cleanup, DropOlder
<1>7. ASSUME Tick PROVE TypeOK'
  BY <1>7 DEF Tick, Older
<1>8. ASSUME UNCHANGED vars PROVE TypeOK'
  BY <1>8 DEF vars
<1> QED
  BY <1>1, <1>2, <1>4, <1>5, <1>6, <1>7, <1>8 DEF Next

(* A step that touches neither the tracker, the counts nor the observer, and*)
(* starts or ends no increment, keeps everything but AttemptInv.            *)
LEMMA QuietStep ==
  ASSUME DeliveryInv, TypeOK', AttemptInv',
         UNCHANGED <<pending, buffered, acked, inflight, heard, reg, clk, due>>,
         \A m \in Msgs : pc'[m] = "incr" <=> pc[m] = "incr"
  PROVE  DeliveryInv'
<1> USE CodeParts
<1>1. \A m \in Msgs : Counted(m)' <=> Counted(m)
  BY DEF Counted
<1>2. \A m \in Msgs : Increments(m)' = Increments(m) /\ Spent(m)' = Spent(m)
  BY DEF Increments, Spent
<1>3. TrackerInv'
  BY <1>1 DEF DeliveryInv, TrackerInv
<1>4. DueAckCounted' /\ CountedOncePerCode'
  BY <1>1, <1>2 DEF DeliveryInv, DueAckCounted, CountedOncePerCode, TypeOK
<1> QED
  BY <1>3, <1>4 DEF DeliveryInv

(* Increments moved from in flight to stored are still counted.             *)
LEMMA StoredStep ==
  ASSUME DeliveryInv, TypeOK', NEW m \in Msgs, IncrementAck(m) \/ IncrementOwn(m)
  PROVE  DeliveryInv'
<1> USE CodeParts
<1>0. UNCHANGED <<pending, buffered, heard, reg, clk, due, att>>
  BY DEF IncrementAck, IncrementOwn, tracker, task, mesh, observer
<1>a. TypeOK
  BY DEF DeliveryInv
<1>b. ASSUME IncrementAck(m), NEW n \in Msgs
      PROVE  (Counted(n) => Counted(n)') /\ Increments(n)' = Increments(n)
  <2>1. pc' = pc /\ acked \in [Msgs -> Nat] /\ inflight \in [Msgs -> Nat]
    BY <1>a, <1>b DEF IncrementAck, TypeOK, task
  <2>2. acked'[n] + inflight'[n] = acked[n] + inflight[n]
    BY <1>b, <2>1 DEF IncrementAck
  <2>3. acked[n] > 0 \/ inflight[n] > 0 => acked'[n] > 0 \/ inflight'[n] > 0
    BY <1>b, <2>1 DEF IncrementAck
  <2> QED
    BY <2>1, <2>2, <2>3 DEF Counted, Increments
<1>c. ASSUME IncrementOwn(m), NEW n \in Msgs
      PROVE  (Counted(n) => Counted(n)') /\ Increments(n)' = Increments(n)
  BY <1>a, <1>c DEF Counted, Increments, IncrementOwn, TypeOK, PCs
<1>1. \A n \in Msgs : Counted(n) => Counted(n)'
  BY <1>b, <1>c
<1>2. \A n \in Msgs : Increments(n)' = Increments(n)
  BY <1>b, <1>c
<1>3. \A n \in Msgs : Spent(n)' = Spent(n)
  BY <1>0 DEF Spent
<1>4. TrackerInv' /\ DueAckCounted'
  BY <1>0, <1>1 DEF DeliveryInv, TrackerInv, DueAckCounted, TypeOK
<1>5. AttemptInv'
  BY <1>0 DEF DeliveryInv, AttemptInv, IncrementAck, IncrementOwn, TypeOK, task
<1>6. CountedOncePerCode'
  BY <1>2, <1>3 DEF DeliveryInv, CountedOncePerCode
<1> QED
  BY <1>4, <1>5, <1>6 DEF DeliveryInv

(* Spent is a finite set of attempts, so its size is a number that grows    *)
(* with it, by one for every attempt added.                                 *)
LEMMA SpentSize ==
  ASSUME NEW S \in SUBSET Attempts, NEW T \in SUBSET Attempts, S \subseteq T
  PROVE  /\ Cardinality(S) \in Nat /\ Cardinality(T) \in Nat
         /\ Cardinality(S) <= Cardinality(T)
         /\ \A a \in T : a \notin S => Cardinality(S) + 1 <= Cardinality(T)
<1>1. IsFiniteSet(Attempts)
  BY AttemptsAssumption, FS_Interval DEF Attempts
<1>2. IsFiniteSet(S) /\ IsFiniteSet(T)
  BY <1>1, FS_Subset
<1>3. Cardinality(S) \in Nat /\ Cardinality(T) \in Nat /\ Cardinality(S) <= Cardinality(T)
  BY <1>2, FS_CardinalityType, FS_Subset
<1>4. ASSUME NEW a \in T, a \notin S PROVE Cardinality(S) + 1 <= Cardinality(T)
  <2>1. IsFiniteSet(S \cup {a}) /\ Cardinality(S \cup {a}) = Cardinality(S) + 1
    BY <1>2, <1>4, FS_AddElement
  <2>2. S \cup {a} \subseteq T
    BY <1>4
  <2> QED
    BY <1>2, <2>1, <2>2, FS_Subset
<1> QED
  BY <1>3, <1>4

(* A counted ACK stays counted and the spent codes only grow: what is left  *)
(* to show of a step that keeps acked is the tracker and the new increment. *)
LEMMA AckMatchedStep ==
  ASSUME DeliveryInv, TypeOK', NEW c \in Codes, AckMatched(c)
  PROVE  DeliveryInv'
<1> USE CodeParts, WindowAssumption
<1> USE DEF None
<1>0. TypeOK /\ AttemptInv /\ TrackerInv /\ DueAckCounted /\ CountedOncePerCode
  BY DEF DeliveryInv
<1>1. /\ UNCHANGED <<pc, att, timer, acked, reg>> /\ heard' = heard \cup {c}
      /\ pending' = WithoutSiblings(DropOlder(pending, AckWindow), c[1])
      /\ buffered' = DropOlder(buffered, BufferTTL)
      /\ inflight' = [inflight EXCEPT ![c[1]] = @ + 1]
  BY DEF AckMatched, Hear, task
<1>2. c \in reg /\ pending[c] # None /\ clk' = clk /\ due' \subseteq due \cup {c}
  BY <1>0 DEF AckMatched, DropOlder, TrackerInv, TypeOK, Hear
<1>3. \A n \in Msgs : (Counted(n) => Counted(n)') /\ (n = c[1] => Counted(n)')
  BY <1>0, <1>1 DEF Counted, TypeOK
<1>4. DueAckCounted'
  BY <1>0, <1>2, <1>3 DEF DueAckCounted, TypeOK
<1>5. AttemptInv'
  BY <1>0, <1>1 DEF AttemptInv
<1>6. TrackerInv'
  <2> SUFFICES ASSUME NEW d \in Codes PROVE
        /\ pending'[d] # None => d \in reg' /\ pending'[d] = clk'[d]
        /\ buffered'[d] # None => d \in heard'
        /\ d \in reg' /\ pending'[d] = None => Counted(d[1])' \/ clk'[d] > AckWindow
        /\ d \notin reg' /\ buffered'[d] # None => buffered'[d] = clk'[d]
        /\ d \notin reg' /\ d \in heard' /\ buffered'[d] = None => clk'[d] > BufferTTL
    BY DEF TrackerInv
  <2>1. /\ pending'[d] = IF d[1] = c[1] \/ pending[d] > AckWindow THEN None ELSE pending[d]
        /\ buffered'[d] = IF buffered[d] > BufferTTL THEN None ELSE buffered[d]
    BY <1>1 DEF WithoutSiblings, DropOlder
  <2>2. d[1] \in Msgs /\ clk[d] \in Int /\ pending[d] \in Int /\ buffered[d] \in Int
    BY <1>0 DEF TypeOK, Ages
  <2> QED
    BY <1>0, <1>1, <1>2, <1>3, <2>1, <2>2 DEF TrackerInv
<1>7. CountedOncePerCode'
  <2> SUFFICES ASSUME NEW n \in Msgs PROVE Increments(n)' <= Cardinality(Spent(n)')
    BY DEF CountedOncePerCode
  <2>1. Spent(n) \subseteq Spent(n)' /\ Spent(n) \subseteq Attempts /\ Spent(n)' \subseteq Attempts
    BY <1>1 DEF Spent, WithoutSiblings, DropOlder
  <2>2. n = c[1] => c[2] \in Spent(n)' /\ c[2] \notin Spent(n)
    BY <1>1, <1>2 DEF Spent, WithoutSiblings
  <2>3. Increments(n)' = Increments(n) + IF n = c[1] THEN 1 ELSE 0
    <3>1. inflight'[n] = IF n = c[1] THEN inflight[n] + 1 ELSE inflight[n]
      BY <1>0, <1>1 DEF TypeOK
    <3>2. inflight[n] \in Nat /\ acked[n] \in Nat /\ acked'[n] = acked[n] /\ pc'[n] = pc[n]
      BY <1>0, <1>1 DEF TypeOK
    <3> QED
      BY <3>1, <3>2 DEF Increments
  <2>4. Increments(n) \in Nat /\ Increments(n) <= Cardinality(Spent(n))
    BY <1>0 DEF CountedOncePerCode, Increments, TypeOK
  <2> QED
    BY <2>1, <2>2, <2>3, <2>4, SpentSize
<1> QED
  BY <1>4, <1>5, <1>6, <1>7 DEF DeliveryInv

LEMMA AckUnmatchedStep ==
  ASSUME DeliveryInv, TypeOK', NEW c \in Codes, AckUnmatched(c)
  PROVE  DeliveryInv'
<1> USE CodeParts, WindowAssumption
<1> USE DEF None
<1>0. TypeOK /\ AttemptInv /\ TrackerInv /\ DueAckCounted /\ CountedOncePerCode
  BY DEF DeliveryInv
<1>1. /\ UNCHANGED <<pc, att, timer, acked, inflight, reg>> /\ heard' = heard \cup {c}
      /\ pending' = DropOlder(pending, AckWindow)
      /\ buffered' = [DropOlder(buffered, BufferTTL) EXCEPT ![c] = 0]
      /\ DropOlder(pending, AckWindow)[c] = None
  BY DEF AckUnmatched, Hear, task
<1>2. \A d \in Codes : pending[d] \in Int /\ buffered[d] \in Int /\ clk[d] \in Int
  BY <1>0 DEF TypeOK, Ages
<1>3. \A n \in Msgs : Counted(n)' <=> Counted(n)
  BY <1>1 DEF Counted
<1>4. c \in reg /\ clk[c] <= AckWindow => Counted(c[1])
  BY <1>0, <1>1, <1>2 DEF DropOlder, TrackerInv
<1>5. DueAckCounted'
  BY <1>0, <1>3, <1>4 DEF DueAckCounted, AckUnmatched, Hear, TypeOK
<1>6. AttemptInv'
  BY <1>0, <1>1 DEF AttemptInv
<1>7. TrackerInv'
  <2> SUFFICES ASSUME NEW d \in Codes PROVE
        /\ pending'[d] # None => d \in reg' /\ pending'[d] = clk'[d]
        /\ buffered'[d] # None => d \in heard'
        /\ d \in reg' /\ pending'[d] = None => Counted(d[1])' \/ clk'[d] > AckWindow
        /\ d \notin reg' /\ buffered'[d] # None => buffered'[d] = clk'[d]
        /\ d \notin reg' /\ d \in heard' /\ buffered'[d] = None => clk'[d] > BufferTTL
    BY DEF TrackerInv
  <2>1. /\ pending'[d] = IF pending[d] > AckWindow THEN None ELSE pending[d]
        /\ buffered'[d] = IF d = c THEN 0
                          ELSE IF buffered[d] > BufferTTL THEN None ELSE buffered[d]
    BY <1>1 DEF DropOlder
  <2>2. clk'[d] = IF d = c /\ c \notin reg THEN 0 ELSE clk[d]
    BY <1>0 DEF AckUnmatched, Hear, TypeOK
  <2> QED
    BY <1>0, <1>1, <1>2, <1>3, <2>1, <2>2 DEF TrackerInv
<1>8. CountedOncePerCode'
  <2> SUFFICES ASSUME NEW n \in Msgs PROVE Increments(n)' <= Cardinality(Spent(n)')
    BY DEF CountedOncePerCode
  <2>1. Spent(n) \subseteq Spent(n)' /\ Spent(n) \subseteq Attempts /\ Spent(n)' \subseteq Attempts
    BY <1>1 DEF Spent, DropOlder
  <2>2. Increments(n)' = Increments(n)
    BY <1>1 DEF Increments
  <2>3. Increments(n) \in Nat /\ Increments(n) <= Cardinality(Spent(n))
    BY <1>0 DEF CountedOncePerCode, Increments, TypeOK
  <2> QED
    BY <2>1, <2>2, <2>3, SpentSize
<1> QED
  BY <1>5, <1>6, <1>7, <1>8 DEF DeliveryInv

(* Registering the code of the attempt just made: a buffered ACK is counted *)
(* at once, and an ACK that is neither buffered nor counted was too early.  *)
LEMMA TrackStep ==
  ASSUME DeliveryInv, TypeOK', NEW c \in Codes,
         TrackMatched(c) \/ TrackPending(c), UNCHANGED <<acked, inflight, mesh>>,
         c \notin reg, \A a \in Attempts : <<c[1], a>> \in reg => a < c[2],
         pc[c[1]] # "incr"
  PROVE  DeliveryInv'
<1> USE CodeParts, WindowAssumption, AttemptsAssumption
<1> USE DEF None
<1>0. TypeOK /\ AttemptInv /\ TrackerInv /\ DueAckCounted /\ CountedOncePerCode
  BY DEF DeliveryInv
<1>1. /\ Register(c) /\ heard' = heard /\ pending[c] = None
      /\ \A n \in Msgs : n # c[1] => pc'[n] = pc[n] /\ att'[n] = att[n]
  BY <1>0 DEF TrackMatched, TrackPending, NextAttempt, mesh, TypeOK, TrackerInv
<1>2. \A d \in Codes : /\ pending[d] \in Int /\ buffered[d] \in Int /\ clk[d] \in Int
                       /\ clk'[d] = IF d = c THEN 0 ELSE clk[d]
  BY <1>0, <1>1 DEF TypeOK, Ages, Register
<1>3. \A n \in Msgs : Counted(n) => Counted(n)'
  BY <1>1 DEF Counted
<1>4. TrackMatched(c) => pc'[c[1]] = "incr" /\ Counted(c[1])'
  BY <1>0 DEF TrackMatched, Counted, TypeOK
<1>5. TrackPending(c) => due' = due /\ pc'[c[1]] # "incr"
  BY <1>0, <1>1, <1>2 DEF TrackPending, Register, TrackerInv, NextAttempt, TypeOK
<1>6. DueAckCounted'
  <2>1. due' \subseteq due \cup {c}
    BY <1>1 DEF Register
  <2> QED
    BY <1>0, <1>3, <1>4, <1>5, <2>1 DEF DueAckCounted, TypeOK
<1>7. AttemptInv'
  <2>1. \A n \in Msgs, a \in Attempts : n # c[1] => (<<n, a>> \in reg' <=> <<n, a>> \in reg)
    BY <1>1 DEF Register
  <2>2. \A a \in Attempts : <<c[1], a>> \in reg' => a <= c[2]
    BY <1>1 DEF Register, Attempts
  <2>3. \/ pc'[c[1]] \in {"incr", "done"}
        \/ pc'[c[1]] = "waiting" /\ att'[c[1]] = c[2] + 1 /\ c[2] + 1 \in Attempts
    BY <1>0 DEF TrackMatched, TrackPending, NextAttempt, TypeOK, Attempts
  <2>4. \A n \in Msgs : n # c[1] =>
          /\ pc'[n] \in {"idle", "sent", "stored"} =>
                \A a \in Attempts : <<n, a>> \notin reg'
          /\ pc'[n] \in {"waiting", "radio", "result", "track"} =>
                /\ att'[n] \in Attempts
                /\ \A a \in Attempts : <<n, a>> \in reg' => a < att'[n]
    BY <1>0, <1>1, <2>1 DEF AttemptInv
  <2>5. pc'[c[1]] = "waiting" =>
          att'[c[1]] \in Attempts /\ \A a \in Attempts : <<c[1], a>> \in reg' => a < att'[c[1]]
    BY <2>2, <2>3 DEF Attempts
  <2> QED
    BY <2>3, <2>4, <2>5 DEF AttemptInv
<1>8. TrackerInv'
  <2> SUFFICES ASSUME NEW d \in Codes PROVE
        /\ pending'[d] # None => d \in reg' /\ pending'[d] = clk'[d]
        /\ buffered'[d] # None => d \in heard'
        /\ d \in reg' /\ pending'[d] = None => Counted(d[1])' \/ clk'[d] > AckWindow
        /\ d \notin reg' /\ buffered'[d] # None => buffered'[d] = clk'[d]
        /\ d \notin reg' /\ d \in heard' /\ buffered'[d] = None => clk'[d] > BufferTTL
    BY DEF TrackerInv
  <2>1. reg' = reg \cup {c}
    BY <1>1 DEF Register
  <2>2. CASE TrackMatched(c)
    <3>1. /\ pending'[d] = IF d[1] = c[1] THEN None ELSE pending[d]
          /\ buffered'[d] = IF d = c THEN None ELSE buffered[d]
      BY <1>0, <2>2 DEF TrackMatched, WithoutSiblings, TypeOK
    <3> QED
      BY <1>0, <1>1, <1>2, <1>3, <1>4, <2>1, <2>2, <3>1 DEF TrackerInv
  <2>3. CASE TrackPending(c)
    <3>1. /\ pending'[d] = IF d = c THEN 0 ELSE pending[d]
          /\ buffered'[d] = buffered[d]
      BY <1>0, <2>3 DEF TrackPending, TypeOK
    <3> QED
      BY <1>0, <1>1, <1>2, <1>3, <2>1, <3>1 DEF TrackerInv
  <2> QED
    BY <2>2, <2>3
<1>9. CountedOncePerCode'
  <2> SUFFICES ASSUME NEW n \in Msgs PROVE Increments(n)' <= Cardinality(Spent(n)')
    BY DEF CountedOncePerCode
  <2>1. Spent(n) \subseteq Attempts /\ Spent(n)' \subseteq Attempts
    BY DEF Spent
  <2>2. Spent(n) \subseteq Spent(n)'
    <3> SUFFICES ASSUME NEW a \in Attempts, <<n, a>> \in reg, <<n, a>> \in heard,
                        pending[<<n, a>>] = None
                 PROVE  a \in Spent(n)'
      BY DEF Spent
    <3>1. <<n, a>> \in Codes /\ <<n, a>> # c
      OBVIOUS
    <3>2. pending'[<<n, a>>] = None
      BY <1>0, <3>1 DEF TrackMatched, TrackPending, WithoutSiblings, TypeOK
    <3> QED
      BY <1>1, <3>2 DEF Spent, Register
  <2>3. Increments(n) \in Nat /\ Increments(n) <= Cardinality(Spent(n))
    BY <1>0 DEF CountedOncePerCode, Increments, TypeOK
  <2>4. n # c[1] \/ TrackPending(c) => Increments(n)' = Increments(n)
    BY <1>1, <1>5 DEF Increments
  <2>5. CASE n = c[1] /\ TrackMatched(c)
    <3>1. Increments(n)' = Increments(n) + 1
      BY <1>0, <1>4, <2>5 DEF Increments, TypeOK
    <3>2. c[2] \notin Spent(n)
      BY <2>5 DEF Spent
    <3>3. c \in heard
      BY <1>0, <2>5 DEF TrackMatched, TrackerInv
    <3>4. c[2] \in Spent(n)'
      BY <1>1, <2>5, <3>3 DEF Spent, Register, TrackMatched, WithoutSiblings
    <3> QED
      BY <2>1, <2>2, <2>3, <3>1, <3>2, <3>4, SpentSize
  <2> QED
    BY <2>1, <2>2, <2>3, <2>4, <2>5, SpentSize
<1> QED
  BY <1>6, <1>7, <1>8, <1>9 DEF DeliveryInv

(* Expiry and the passing of time: entries leave the tracker only when the  *)
(* true age is past the window.                                             *)
LEMMA TimeStep ==
  ASSUME DeliveryInv, TypeOK', Cleanup \/ Tick
  PROVE  DeliveryInv'
<1> USE CodeParts, WindowAssumption
<1> USE DEF None
<1>0. TypeOK /\ AttemptInv /\ TrackerInv /\ DueAckCounted /\ CountedOncePerCode
  BY DEF DeliveryInv
<1>1. UNCHANGED <<pc, att, acked, inflight, heard, reg, due>>
  BY DEF Cleanup, Tick, task, mesh, observer
<1>2. \A n \in Msgs : (Counted(n)' <=> Counted(n)) /\ Increments(n)' = Increments(n)
  BY <1>1 DEF Counted, Increments
<1>3. DueAckCounted' /\ AttemptInv'
  BY <1>0, <1>1, <1>2 DEF DueAckCounted, AttemptInv, TypeOK
<1>4. \A d \in Codes : /\ pending[d] \in Int /\ buffered[d] \in Int /\ clk[d] \in Int
                       /\ clk[d] >= 0
                       /\ pending[d] <= Cap /\ buffered[d] <= Cap /\ clk[d] <= Cap
  BY <1>0 DEF TypeOK, Ages, Cap
<1>5. TrackerInv'
  <2> SUFFICES ASSUME NEW d \in Codes PROVE
        /\ pending'[d] # None => d \in reg' /\ pending'[d] = clk'[d]
        /\ buffered'[d] # None => d \in heard'
        /\ d \in reg' /\ pending'[d] = None => Counted(d[1])' \/ clk'[d] > AckWindow
        /\ d \notin reg' /\ buffered'[d] # None => buffered'[d] = clk'[d]
        /\ d \notin reg' /\ d \in heard' /\ buffered'[d] = None => clk'[d] > BufferTTL
    BY DEF TrackerInv
  <2>1. CASE Cleanup
    <3>1. /\ pending'[d] = IF pending[d] > AckWindow THEN None ELSE pending[d]
          /\ buffered'[d] = IF buffered[d] > BufferTTL THEN None ELSE buffered[d]
          /\ clk'[d] = clk[d]
      BY <2>1 DEF Cleanup, DropOlder, observer
    <3> QED
      BY <1>0, <1>1, <1>2, <1>4, <3>1 DEF TrackerInv
  <2>2. CASE Tick
    <3>1. /\ pending'[d] = IF pending[d] # None /\ pending[d] < Cap THEN pending[d] + 1 ELSE pending[d]
          /\ buffered'[d] = IF buffered[d] # None /\ buffered[d] < Cap THEN buffered[d] + 1 ELSE buffered[d]
          /\ clk'[d] = IF clk[d] < Cap THEN clk[d] + 1 ELSE clk[d]
      BY <1>4, <2>2 DEF Tick, Older
    <3>2. Cap \in Int /\ Cap > AckWindow /\ Cap > BufferTTL
      BY DEF Cap
    <3> QED
      BY <1>0, <1>1, <1>2, <1>4, <3>1, <3>2 DEF TrackerInv
  <2> QED
    BY <2>1, <2>2
<1>6. CountedOncePerCode'
  <2> SUFFICES ASSUME NEW n \in Msgs PROVE Increments(n)' <= Cardinality(Spent(n)')
    BY DEF CountedOncePerCode
  <2>1. Spent(n) \subseteq Spent(n)' /\ Spent(n) \subseteq Attempts /\ Spent(n)' \subseteq Attempts
    BY <1>1 DEF Spent, Cleanup, Tick, DropOlder, Older
  <2>2. Increments(n) \in Nat /\ Increments(n) <= Cardinality(Spent(n))
    BY <1>0 DEF CountedOncePerCode, Increments, TypeOK
  <2> QED
    BY <1>2, <2>1, <2>2, SpentSize
<1> QED
  BY <1>3, <1>5, <1>6 DEF DeliveryInv

(* The steps of a send request or a retry task.                             *)
LEMMA TaskStepInv ==
  ASSUME DeliveryInv, TypeOK', NEW m \in Msgs, TaskStep(m)
  PROVE  DeliveryInv'
<1> USE AttemptsAssumption, CodeParts
<1>0. TypeOK /\ AttemptInv
  BY DEF DeliveryInv
<1>1. CASE SendTracks(m)
  <2>1. <<m, 0>> \in Codes /\ 0 \in Attempts
    BY DEF Attempts
  <2>2. <<m, 0>> \notin reg /\ \A a \in Attempts : <<m, a>> \notin reg
    BY <1>0, <1>1, <2>1 DEF SendTracks, AttemptInv
  <2> QED
    BY <1>1, <2>1, <2>2, TrackStep DEF SendTracks
<1>2. CASE RetryTracks(m)
  <2>1. <<m, att[m]>> \in Codes /\ att[m] \in Attempts /\ pc[m] = "track"
    BY <1>0, <1>2 DEF RetryTracks, AttemptInv
  <2>2. <<m, att[m]>> \notin reg /\ \A a \in Attempts : <<m, a>> \in reg => a < att[m]
    BY <1>0, <1>2, <2>1 DEF RetryTracks, AttemptInv, Attempts
  <2> QED
    BY <1>2, <2>1, <2>2, TrackStep DEF RetryTracks
<1>3. CASE IncrementOwn(m)
  BY <1>3, StoredStep
<1>4. ASSUME /\ UNCHANGED <<pending, buffered, acked, inflight, heard, reg, clk, due>>
             /\ \A n \in Msgs \ {m} : pc'[n] = pc[n] /\ att'[n] = att[n]
             /\ pc[m] # "incr" /\ pc'[m] # "incr"
             /\ pc'[m] \in {"idle", "sent", "stored"} => pc[m] \in {"idle", "sent", "stored"}
             /\ pc'[m] \in {"waiting", "radio", "result", "track"} =>
                  /\ pc[m] \in {"waiting", "radio", "result", "track"}
                  /\ att'[m] \in Attempts /\ att[m] <= att'[m]
      PROVE  DeliveryInv'
  <2>1. AttemptInv'
    BY <1>0, <1>4 DEF AttemptInv, Attempts
  <2>2. \A n \in Msgs : pc'[n] = "incr" <=> pc[n] = "incr"
    BY <1>4
  <2> QED
    BY <1>4, <2>1, <2>2, QuietStep
<1> USE DEF TypeOK, tracker, mesh, observer, Transmit
<1>5. CASE SendOk(m)
  BY <1>0, <1>4, <1>5 DEF SendOk
<1>6. CASE StoreRow(m)
  BY <1>0, <1>4, <1>6 DEF StoreRow
<1>7. CASE SendUntracked(m)
  BY <1>0, <1>4, <1>7 DEF SendUntracked
<1>8. CASE RetryWakes(m)
  BY <1>0, <1>4, <1>8 DEF RetryWakes, AttemptInv, Attempts
<1>9. CASE RetrySends(m)
  BY <1>0, <1>4, <1>9 DEF RetrySends, AttemptInv, Attempts
<1>10. CASE RetryRechecks(m)
  BY <1>0, <1>4, <1>10 DEF RetryRechecks, AttemptInv, Attempts
<1>11. CASE RetryUntracked(m)
  BY <1>0, <1>4, <1>11 DEF RetryUntracked, NextAttempt, AttemptInv, Attempts
<1>12. CASE \E leaves \in BOOLEAN : SendFails(m, leaves)
  BY <1>0, <1>4, <1>12 DEF SendFails
<1>13. CASE \E leaves \in BOOLEAN : RetryFails(m, leaves)
  BY <1>0, <1>4, <1>13 DEF RetryFails, NextAttempt, AttemptInv, Attempts
<1> QED
  BY <1>1, <1>2, <1>3, <1>5, <1>6, <1>7, <1>8, <1>9, <1>10, <1>11, <1>12, <1>13 DEF TaskStep

(* The inductive invariant holds in every reachable state.                  *)
THEOREM DeliveryInvariance == Spec => []DeliveryInv
<1>1. Init => DeliveryInv
  <2> SUFFICES ASSUME Init PROVE DeliveryInv
    OBVIOUS
  <2> USE AttemptsAssumption, WindowAssumption, HeardAssumption, CodeParts
  <2>1. TypeOK
    BY DEF Init, TypeOK, Ages, Cap, None, PCs, Attempts
  <2>2. AttemptInv /\ TrackerInv /\ DueAckCounted
    BY DEF Init, AttemptInv, TrackerInv, DueAckCounted, None
  <2>3. ASSUME NEW m \in Msgs PROVE Increments(m) <= Cardinality(Spent(m))
    <3>1. Increments(m) = 0
      BY DEF Init, Increments
    <3>2. Spent(m) = {}
      BY DEF Init, Spent
    <3> QED
      BY <3>1, <3>2, FS_EmptySet
  <2> QED
    BY <2>1, <2>2, <2>3 DEF DeliveryInv, CountedOncePerCode
<1>2. DeliveryInv /\ [Next]_vars => DeliveryInv'
  <2> SUFFICES ASSUME DeliveryInv, [Next]_vars PROVE DeliveryInv'
    OBVIOUS
  <2>1. TypeOK'
    BY StepTypes DEF DeliveryInv
  <2>2. ASSUME NEW m \in Msgs, TaskStep(m) PROVE DeliveryInv'
    BY <2>1, <2>2, TaskStepInv
  <2>3. ASSUME NEW m \in Msgs, IncrementAck(m) PROVE DeliveryInv'
    BY <2>1, <2>3, StoredStep
  <2>4. ASSUME NEW c \in Codes, AckMatched(c) PROVE DeliveryInv'
    BY <2>1, <2>4, AckMatchedStep
  <2>5. ASSUME NEW c \in Codes, AckUnmatched(c) PROVE DeliveryInv'
    BY <2>1, <2>5, AckUnmatchedStep
  <2>6. ASSUME Cleanup \/ Tick PROVE DeliveryInv'
    BY <2>1, <2>6, TimeStep
  <2>7. ASSUME UNCHANGED vars PROVE DeliveryInv'
    <3>1. UNCHANGED <<pending, buffered, acked, inflight, heard, reg, clk, due, pc, att>>
      BY <2>7 DEF vars
    <3>2. AttemptInv'
      BY <3>1 DEF DeliveryInv, AttemptInv
    <3> QED
      BY <2>1, <3>1, <3>2, QuietStep
  <2> QED
    BY <2>2, <2>3, <2>4, <2>5, <2>6, <2>7 DEF Next
<1> QED
  BY <1>1, <1>2, PTL DEF Spec

(* The tracker, the tasks and the observer keep their types.                *)
THEOREM TypeCorrect == Spec => []TypeOK
BY DeliveryInvariance, PTL DEF DeliveryInv

(* No ACK that is heard within its window is lost, for any number of        *)
(* messages, attempts and window lengths.                                   *)
THEOREM NoDueAckLost == Spec => []DueAckCounted
BY DeliveryInvariance, PTL DEF DeliveryInv

(* However often and by however many routes an ACK is heard, it is counted  *)
(* at most once.                                                            *)
THEOREM AckCountedOncePerCode == Spec => []CountedOncePerCode
BY DeliveryInvariance, PTL DEF DeliveryInv
=============================================================================
