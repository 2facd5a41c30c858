--------------------------- MODULE SendPacingProofs ---------------------------
(* Proofs about SendPacing, for any messages, gap, delays and window.       *)
EXTENDS SendPacing, TLAPS

\* The three tasks of a message, and of different messages, differ.
LEMMA TaskFacts ==
    /\ \A m \in Msgs : /\ {Send(m), Resend(m), Watchdog(m)} \subseteq Tasks
                       /\ Send(m)[1] = "send" /\ Send(m)[2] = m
                       /\ Resend(m)[1] = "resend" /\ Resend(m)[2] = m
                       /\ Watchdog(m)[1] = "watchdog" /\ Watchdog(m)[2] = m
    /\ \A t \in Tasks : /\ t[2] \in Msgs
                        /\ \/ t[1] = "send" /\ t = Send(t[2])
                           \/ t[1] = "resend" /\ t = Resend(t[2])
                           \/ t[1] = "watchdog" /\ t = Watchdog(t[2])
    /\ \A m, n \in Msgs : /\ Send(m) # Resend(n) /\ Send(m) # Watchdog(n) /\ Resend(m) # Watchdog(n)
                          /\ m # n => Send(m) # Send(n) /\ Watchdog(m) # Watchdog(n)
BY DEF Tasks, Send, Resend, Watchdog

\* The steps of the tasks stay well typed.
LEMMA GotoTyped ==
    ASSUME TypeOK, NEW t \in Tasks, NEW next, Goto(t, next),
           next \in {"off", "queued", "wait", "air", "sleep", "listen", "read", "go",
                         "locked", "done", "failed"}
    PROVE  pc' \in [Tasks -> {"off", "queued", "wait", "air", "sleep", "listen", "read", "go",
                         "locked", "done", "failed"}]
BY DEF TypeOK, Goto

\* A task t goes to a step other than a transmission, and time stands
\* still: everything but TypeOK and Exclusive is preserved.
LEMMA TaskMoves ==
    ASSUME PacingInv, NEW t \in Tasks,
           \A u \in Tasks \ {t} : pc'[u] = pc[u],
           pc'[t] \notin {"air", "sleep", "listen"},
           pc'[t] = "wait" => IF clear' THEN lastAge = Gap ELSE left' = Gap - lastAge,
           \A u \in Tasks \ {t} : pc[u] = "wait" => left' = left /\ clear' = clear,
           \A m \in Msgs : t = Watchdog(m) => pc[Send(m)] = "done" /\ m \notin noisy,
           \A m \in Msgs : t = Send(m) => pc[Watchdog(m)] = "off",
           UNCHANGED <<age, timer, lastAge, noisy, grounds>>
    PROVE  WaitInv' /\ LifeInv' /\ AgeInv' /\ NoisyInv' /\ Spaced' /\ NoisyNoResend'
<1>0. noisy \subseteq Msgs
  BY DEF PacingInv, TypeOK
<1>1. WaitInv'
  BY DEF PacingInv, WaitInv
<1>2. LifeInv'
  BY TaskFacts DEF PacingInv, LifeInv
<1>3. AgeInv'
  BY TaskFacts DEF PacingInv, AgeInv
<1>4. NoisyInv'
  <2> SUFFICES ASSUME NEW m \in noisy
               PROVE  pc'[Watchdog(m)] \in {"read", "done"} /\ age[m] = OldAge
    BY DEF NoisyInv
  <2>1. t # Watchdog(m) /\ Watchdog(m) \in Tasks
    BY <1>0, TaskFacts
  <2> QED
    BY <2>1 DEF PacingInv, NoisyInv
<1>5. Spaced'
  BY DEF PacingInv, Spaced, Paced
<1>6. NoisyNoResend'
  BY <1>4, TaskFacts DEF NoisyNoResend, NoisyInv
<1> QED
  BY <1>1, <1>2, <1>3, <1>4, <1>5, <1>6

\* A task queues at the end of the waiters of _send_gap_lock.
LEMMA Appended ==
    ASSUME TypeOK, Exclusive, NEW t \in Tasks,
           ~InSection(t), pc[t] # "queued",
           queue' = Append(queue, t), holder' = holder, pc'[t] = "queued",
           \A u \in Tasks \ {t} : pc'[u] = pc[u]
    PROVE  Exclusive'
<1>1. /\ queue \in Seq(Tasks)
      /\ DOMAIN queue' = 1 .. Len(queue) + 1 /\ DOMAIN queue = 1 .. Len(queue) /\ Len(queue) \in Nat
      /\ queue'[Len(queue) + 1] = t
      /\ \A i \in 1 .. Len(queue) : queue'[i] = queue[i] /\ queue[i] # t /\ queue[i] \in Tasks
  BY DEF TypeOK, Exclusive
<1>2. \A u \in Tasks : InSection(u)' <=> holder' = u
  BY DEF Exclusive, InSection
<1>3. \A u \in Tasks : pc'[u] = "queued" <=> \E i \in DOMAIN queue' : queue'[i] = u
  <2> SUFFICES ASSUME NEW u \in Tasks
               PROVE  pc'[u] = "queued" <=> \E i \in DOMAIN queue' : queue'[i] = u
    OBVIOUS
  <2>1. CASE u = t
    BY <1>1, <2>1
  <2>2. CASE u # t
    <3>1. pc'[u] = "queued" <=> \E i \in 1 .. Len(queue) : queue[i] = u
      BY <1>1, <2>2 DEF Exclusive
    <3>2. (\E i \in 1 .. Len(queue) : queue[i] = u) <=> \E i \in 1 .. Len(queue) + 1 : queue'[i] = u
      BY <1>1, <2>2
    <3> QED
      BY <1>1, <3>1, <3>2
  <2> QED
    BY <2>1, <2>2
<1>4. \A i, j \in DOMAIN queue' : queue'[i] = queue'[j] => i = j
  <2> SUFFICES ASSUME NEW i \in 1 .. Len(queue) + 1, NEW j \in 1 .. Len(queue) + 1,
                      queue'[i] = queue'[j]
               PROVE  i = j
    BY <1>1
  <2>1. CASE i \in 1 .. Len(queue) /\ j \in 1 .. Len(queue)
    BY <1>1, <2>1 DEF Exclusive
  <2>2. CASE ~(i \in 1 .. Len(queue) /\ j \in 1 .. Len(queue))
    BY <1>1, <2>2
  <2> QED
    BY <2>1, <2>2
<1> QED
  BY <1>2, <1>3, <1>4 DEF Exclusive

\* What _wait_for_send_gap sets when it begins.
LEMMA WaitBegins ==
    ASSUME TypeOK, NEW t \in Tasks, BeginWait(t)
    PROVE  /\ left' \in 0 .. Gap /\ clear' \in BOOLEAN
           /\ IF clear' THEN lastAge = Gap ELSE left' = Gap - lastAge
           /\ holder' = t /\ pc' = [pc EXCEPT ![t] = "wait"] /\ pc'[t] = "wait"
           /\ \A u \in Tasks \ {t} : pc'[u] = pc[u]
<1>1. lastAge \in 0 .. Gap /\ Gap \in Nat
  BY TimesAssumption DEF TypeOK, OldTx
<1>2. CASE lastAge < Gap
  <2>1. left' = Gap - lastAge /\ clear' = FALSE
    BY <1>2 DEF BeginWait, InGap
  <2> QED
    BY <1>1, <2>1 DEF TypeOK, BeginWait, Goto
<1>3. CASE ~(lastAge < Gap)
  <2>1. ~InGap /\ lastAge = Gap
    BY <1>1, <1>3 DEF InGap
  <2>2. left' = Gap
    BY <2>1 DEF BeginWait
  <2>3. clear' = TRUE
    BY <2>1, Zenon DEF BeginWait
  <2> QED
    BY <1>1, <2>1, <2>2, <2>3 DEF TypeOK, BeginWait, Goto
<1> QED
  BY <1>2, <1>3

\* A task enters paced_send.
LEMMA EnterStep ==
    ASSUME PacingInv, NEW t \in Tasks, t[1] # "watchdog", pc[t] = "off", Enter(t),
           UNCHANGED <<timer, airLeft, age, acked, gap, rxAge, lastTx, grounds, noisy>>
    PROVE  PacingInv'
<1>0. TypeOK /\ Exclusive /\ LifeInv
  BY DEF PacingInv
<1>a. /\ \A m \in Msgs : t # Watchdog(m)
      /\ \A m \in Msgs : t = Send(m) => pc[Watchdog(m)] = "off"
  BY <1>0, TaskFacts DEF LifeInv
<1>1. CASE holder = None /\ queue = <<>>
  <2>0. BeginWait(t) /\ queue' = queue
    BY <1>1 DEF Enter
  <2>1. /\ left' \in 0 .. Gap /\ clear' \in BOOLEAN
        /\ IF clear' THEN lastAge = Gap ELSE left' = Gap - lastAge
        /\ holder' = t /\ pc' = [pc EXCEPT ![t] = "wait"] /\ pc'[t] = "wait"
        /\ \A u \in Tasks \ {t} : pc'[u] = pc[u]
    BY <1>0, <2>0, WaitBegins
  <2>2. lastAge' = lastAge /\ lastId' = lastId
    BY DEF gap
  <2>4. TypeOK'
    BY <1>0, <2>0, <2>1, <2>2 DEF TypeOK
  <2>5. Exclusive'
    BY <1>0, <1>1, <2>0, <2>1, NoneAssumption DEF Exclusive, InSection
  <2>7. \A u \in Tasks : pc[u] # "wait"
    BY <1>0, <1>1, NoneAssumption DEF Exclusive, InSection
  <2>8. WaitInv' /\ LifeInv' /\ AgeInv' /\ NoisyInv' /\ Spaced' /\ NoisyNoResend'
    BY <1>a, <2>1, <2>2, <2>7, TaskMoves
  <2> QED
    BY <2>4, <2>5, <2>8 DEF PacingInv
<1>2. CASE ~(holder = None /\ queue = <<>>)
  <2>0. queue' = Append(queue, t) /\ holder' = holder /\ left' = left /\ clear' = clear
    BY <1>2 DEF Enter, wait
  <2>1. /\ pc' = [pc EXCEPT ![t] = "queued"]
        /\ pc'[t] = "queued"
        /\ \A u \in Tasks \ {t} : pc'[u] = pc[u]
    BY <1>0, <1>2 DEF TypeOK, Enter, Goto
  <2>2. lastAge' = lastAge /\ lastId' = lastId
    BY DEF gap
  <2>3. TypeOK'
    BY <1>0, <2>0, <2>1, <2>2 DEF TypeOK
  <2>4. Exclusive'
    BY <1>0, <2>0, <2>1, Appended DEF InSection
  <2>5. WaitInv' /\ LifeInv' /\ AgeInv' /\ NoisyInv' /\ Spaced' /\ NoisyNoResend'
    BY <1>a, <2>0, <2>1, <2>2, TaskMoves
  <2> QED
    BY <2>3, <2>4, <2>5 DEF PacingInv
<1> QED
  BY <1>1, <1>2

\* Request preserves the invariant.
LEMMA RequestStep ==
    ASSUME PacingInv, NEW m \in Msgs, Request(m)
    PROVE  PacingInv'
BY TaskFacts, EnterStep DEF Request

\* RequestResend preserves the invariant.
LEMMA RequestResendStep ==
    ASSUME PacingInv, NEW m \in Msgs, RequestResend(m)
    PROVE  PacingInv'
BY TaskFacts, EnterStep DEF RequestResend

\* Grant preserves the invariant.
LEMMA GrantStep ==
    ASSUME PacingInv, NEW t \in Tasks, Grant(t)
    PROVE  PacingInv'
<1>0. TypeOK /\ Exclusive /\ LifeInv /\ NoisyInv
  BY DEF PacingInv
<1>1. /\ queue \in Seq(Tasks) /\ Len(queue) \in Nat /\ Len(queue) >= 1
      /\ DOMAIN queue = 1 .. Len(queue) /\ queue[1] = t
      /\ queue' \in Seq(Tasks) /\ DOMAIN queue' = 1 .. Len(queue) - 1
      /\ \A i \in 1 .. Len(queue) - 1 : queue'[i] = queue[i + 1]
  BY <1>0 DEF TypeOK, Grant
<1>2. pc[t] = "queued"
  BY <1>0, <1>1 DEF Exclusive
<1>3. \A u \in Tasks : ~InSection(u)
  BY <1>0, NoneAssumption DEF Exclusive, Grant
<1>4. holder' = t /\ pc'[t] \in {"wait", "locked"} /\ \A u \in Tasks \ {t} : pc'[u] = pc[u]
  BY <1>0 DEF TypeOK, Grant, BeginWait, Goto
<1>5. \A i \in DOMAIN queue' : queue'[i] # t
  <2> SUFFICES ASSUME NEW i \in 1 .. Len(queue) - 1, queue'[i] = t
               PROVE  FALSE
    BY <1>1
  <2>1. i + 1 \in DOMAIN queue /\ 1 \in DOMAIN queue /\ i + 1 # 1
    BY <1>1
  <2>2. queue[i + 1] = queue[1]
    BY <1>1
  <2> QED
    BY <1>0, <2>1, <2>2 DEF Exclusive
<1>6. Exclusive'
  <2>1. \A u \in Tasks : InSection(u)' <=> holder' = u
    BY <1>3, <1>4 DEF InSection
  <2>2. \A u \in Tasks \ {t} : (\E i \in 1 .. Len(queue) : queue[i] = u)
                               <=> \E i \in 1 .. Len(queue) - 1 : queue'[i] = u
    <3> SUFFICES ASSUME NEW u \in Tasks \ {t}
                 PROVE  (\E i \in 1 .. Len(queue) : queue[i] = u)
                          <=> \E i \in 1 .. Len(queue) - 1 : queue'[i] = u
      OBVIOUS
    <3>1. ASSUME NEW i \in 1 .. Len(queue), queue[i] = u
          PROVE  i - 1 \in 1 .. Len(queue) - 1 /\ queue'[i - 1] = u
      BY <1>1, <3>1
    <3>2. ASSUME NEW i \in 1 .. Len(queue) - 1, queue'[i] = u
          PROVE  i + 1 \in 1 .. Len(queue) /\ queue[i + 1] = u
      BY <1>1, <3>2
    <3> QED
      BY <3>1, <3>2
  <2>3. \A u \in Tasks : pc'[u] = "queued" <=> \E i \in DOMAIN queue' : queue'[i] = u
    <3> SUFFICES ASSUME NEW u \in Tasks
                 PROVE  pc'[u] = "queued" <=> \E i \in DOMAIN queue' : queue'[i] = u
      OBVIOUS
    <3>1. CASE u = t
      BY <1>4, <1>5, <3>1
    <3>2. CASE u # t
      <4>1. pc'[u] = pc[u]
        BY <1>4, <3>2
      <4>2. pc[u] = "queued" <=> \E i \in 1 .. Len(queue) : queue[i] = u
        BY <1>0, <1>1 DEF Exclusive
      <4> QED
        BY <1>1, <2>2, <3>2, <4>1, <4>2
    <3> QED
      BY <3>1, <3>2
  <2>4. ASSUME NEW i \in DOMAIN queue', NEW j \in DOMAIN queue', queue'[i] = queue'[j]
        PROVE  i = j
    <3>1. /\ i + 1 \in DOMAIN queue /\ j + 1 \in DOMAIN queue /\ i \in Nat /\ j \in Nat
          /\ queue[i + 1] = queue[j + 1]
      BY <1>1, <2>4
    <3>2. i + 1 = j + 1
      BY <1>0, <3>1 DEF Exclusive
    <3> QED
      BY <3>1, <3>2
  <2> QED
    BY <2>1, <2>3, <2>4 DEF Exclusive
<1>7. /\ \A m \in Msgs : t = Watchdog(m) => pc[Send(m)] = "done" /\ m \notin noisy
      /\ \A m \in Msgs : t = Send(m) => pc[Watchdog(m)] = "off"
  BY <1>0, <1>2 DEF LifeInv, NoisyInv
<1>8. lastAge' = lastAge /\ lastId' = lastId
  BY DEF Grant, gap
<1>9. UNCHANGED <<timer, airLeft, age, acked, rxAge, lastTx, grounds, noisy>>
  BY DEF Grant
<1>10. \A u \in Tasks : pc[u] # "wait"
  BY <1>3 DEF InSection
<1>11. CASE t[1] # "watchdog"
  <2>0. BeginWait(t)
    BY <1>11 DEF Grant
  <2>1. /\ left' \in 0 .. Gap /\ clear' \in BOOLEAN
        /\ IF clear' THEN lastAge = Gap ELSE left' = Gap - lastAge
        /\ pc' = [pc EXCEPT ![t] = "wait"] /\ pc'[t] = "wait"
    BY <1>0, <2>0, WaitBegins
  <2>2. TypeOK'
    BY <1>0, <1>1, <1>4, <1>8, <1>9, <2>1 DEF TypeOK
  <2>3. WaitInv' /\ LifeInv' /\ AgeInv' /\ NoisyInv' /\ Spaced' /\ NoisyNoResend'
    BY <1>4, <1>7, <1>8, <1>9, <1>10, <2>1, TaskMoves
  <2> QED
    BY <1>6, <2>2, <2>3 DEF PacingInv
<1>12. CASE t[1] = "watchdog"
  <2>1. pc' = [pc EXCEPT ![t] = "locked"] /\ left' = left /\ clear' = clear
    BY <1>12 DEF Grant, Goto, wait
  <2>2. pc'[t] = "locked"
    BY <1>0, <2>1 DEF TypeOK
  <2>3. TypeOK'
    BY <1>0, <1>1, <1>4, <1>8, <1>9, <2>1 DEF TypeOK
  <2>4. WaitInv' /\ LifeInv' /\ AgeInv' /\ NoisyInv' /\ Spaced' /\ NoisyNoResend'
    BY <1>4, <1>7, <1>8, <1>9, <1>10, <2>2, TaskMoves
  <2> QED
    BY <1>6, <2>3, <2>4 DEF PacingInv
<1> QED
  BY <1>11, <1>12

\* CancelQueued preserves the invariant.
LEMMA CancelQueuedStep ==
    ASSUME PacingInv, NEW m \in Msgs, CancelQueued(m)
    PROVE  PacingInv'
<1> DEFINE t == Send(m)
<1>0. TypeOK /\ Exclusive /\ LifeInv /\ t \in Tasks /\ pc[t] = "queued"
  BY TaskFacts DEF PacingInv, CancelQueued
<1>a. PICK k \in DOMAIN queue : queue[k] = t /\ queue' = Without(k)
  BY DEF CancelQueued
<1> HIDE DEF t
<1>1. /\ queue \in Seq(Tasks) /\ Len(queue) \in Nat /\ k \in 1 .. Len(queue)
      /\ DOMAIN queue = 1 .. Len(queue)
      /\ DOMAIN queue' = 1 .. Len(queue) - 1
      /\ \A i \in 1 .. Len(queue) - 1 : queue'[i] = IF i < k THEN queue[i] ELSE queue[i + 1]
  BY <1>0, <1>a DEF TypeOK, Without
<1>2. queue' \in Seq(Tasks)
  <2>1. \A i \in 1 .. Len(queue) - 1 : queue[i] \in Tasks /\ queue[i + 1] \in Tasks
    BY <1>1
  <2>2. Len(queue) - 1 \in Nat
    BY <1>1
  <2>3. queue' \in [1 .. Len(queue) - 1 -> Tasks]
    BY <1>1, <1>a, <2>1 DEF Without
  <2> QED
    BY <2>2, <2>3
<1>3. /\ pc' = [pc EXCEPT ![t] = "failed"] /\ pc'[t] = "failed"
      /\ \A u \in Tasks \ {t} : pc'[u] = pc[u]
  BY <1>0 DEF TypeOK, CancelQueued, Goto, t
<1>4. UNCHANGED <<holder, left, clear, timer, airLeft, age, acked, lastAge, lastId, rxAge, lastTx,
                  grounds, noisy>>
  BY DEF CancelQueued, wait, gap
<1>5. TypeOK'
  BY <1>0, <1>2, <1>3, <1>4 DEF TypeOK
<1>6. Exclusive'
  <2>1. \A u \in Tasks : InSection(u)' <=> holder' = u
    BY <1>0, <1>3, <1>4 DEF Exclusive, InSection
  <2>2. \A i \in DOMAIN queue' : queue'[i] # t
    BY <1>0, <1>1, <1>a DEF Exclusive
  <2>3. ASSUME NEW u \in Tasks
        PROVE  pc'[u] = "queued" <=> \E i \in DOMAIN queue' : queue'[i] = u
    <3>1. CASE u = t
      BY <1>3, <2>2, <3>1
    <3>2. CASE u # t
      <4>1. ASSUME NEW i \in 1 .. Len(queue), queue[i] = u
            PROVE  \E j \in 1 .. Len(queue) - 1 : queue'[j] = u
        <5>1. CASE i < k
          BY <1>1, <4>1, <5>1
        <5>2. CASE i > k
          <6>1. i - 1 \in 1 .. Len(queue) - 1 /\ ~(i - 1 < k) /\ (i - 1) + 1 = i
            BY <1>1, <5>2
          <6> QED
            BY <1>1, <4>1, <6>1
        <5>3. i # k
          BY <1>a, <3>2, <4>1
        <5> QED
          BY <1>1, <5>1, <5>2, <5>3
      <4>2. ASSUME NEW i \in 1 .. Len(queue) - 1, queue'[i] = u
            PROVE  \E j \in 1 .. Len(queue) : queue[j] = u
        <5>1. i \in 1 .. Len(queue) /\ i + 1 \in 1 .. Len(queue)
          BY <1>1
        <5> QED
          BY <1>1, <4>2, <5>1
      <4>3. pc'[u] = pc[u]
        BY <1>3, <3>2
      <4>4. pc[u] = "queued" <=> \E i \in 1 .. Len(queue) : queue[i] = u
        BY <1>0, <1>1 DEF Exclusive
      <4> QED
        BY <1>1, <4>1, <4>2, <4>3, <4>4
    <3> QED
      BY <3>1, <3>2
  <2>4. ASSUME NEW i \in DOMAIN queue', NEW j \in DOMAIN queue', queue'[i] = queue'[j]
        PROVE  i = j
    <3> DEFINE at(n) == IF n < k THEN n ELSE n + 1
    <3>1. /\ at(i) \in DOMAIN queue /\ at(j) \in DOMAIN queue
          /\ queue[at(i)] = queue[at(j)]
      BY <1>1, <2>4
    <3>2. at(i) = at(j)
      BY <1>0, <3>1 DEF Exclusive
    <3> QED
      BY <1>1, <3>2
  <2> QED
    BY <2>1, <2>3, <2>4 DEF Exclusive
<1>7. /\ \A n \in Msgs : t = Watchdog(n) => pc[Send(n)] = "done" /\ n \notin noisy
      /\ \A n \in Msgs : t = Send(n) => pc[Watchdog(n)] = "off"
  BY <1>0, TaskFacts DEF LifeInv, t
<1>8. WaitInv' /\ LifeInv' /\ AgeInv' /\ NoisyInv' /\ Spaced' /\ NoisyNoResend'
  BY <1>0, <1>3, <1>4, <1>7, TaskMoves
<1> QED
  BY <1>5, <1>6, <1>8 DEF PacingInv

\* WatchdogGoes preserves the invariant.
LEMMA WatchdogGoesStep ==
    ASSUME PacingInv, NEW m \in Msgs, WatchdogGoes(m)
    PROVE  PacingInv'
<1> DEFINE t == Watchdog(m)
<1>0. TypeOK /\ Exclusive /\ LifeInv /\ NoisyInv /\ t \in Tasks /\ pc[t] = "go"
  BY TaskFacts DEF PacingInv, WatchdogGoes
<1>1. UNCHANGED <<left, clear, timer, airLeft, age, acked, lastAge, lastId, rxAge, lastTx,
                  grounds, noisy>>
  BY DEF WatchdogGoes, wait, gap
<1>2. /\ \A n \in Msgs : t = Watchdog(n) => pc[Send(n)] = "done" /\ n \notin noisy
      /\ \A n \in Msgs : t = Send(n) => pc[Watchdog(n)] = "off"
  BY <1>0, TaskFacts DEF LifeInv, NoisyInv
<1>3. PICK s \in {"done", "locked", "queued"} :
         /\ pc' = [pc EXCEPT ![t] = s]
         /\ s = "done" => holder' = holder /\ queue' = queue
         /\ s = "locked" => holder = None /\ holder' = t /\ queue' = queue
         /\ s = "queued" => holder' = holder /\ queue' = Append(queue, t)
  BY DEF WatchdogGoes, Goto, lock
<1> HIDE DEF t
<1>4. pc'[t] = s /\ \A u \in Tasks \ {t} : pc'[u] = pc[u]
  BY <1>0, <1>3 DEF TypeOK
<1>5. TypeOK'
  <2>0. Append(queue, t) \in Seq(Tasks) /\ queue \in Seq(Tasks) /\ holder \in Tasks \cup {None}
    BY <1>0 DEF TypeOK
  <2>1. queue' \in Seq(Tasks) /\ holder' \in Tasks \cup {None}
    BY <1>0, <1>3, <2>0
  <2> QED
    BY <1>0, <1>1, <1>3, <2>1 DEF TypeOK
<1>6. Exclusive'
  <2>1. CASE s = "done"
    BY <1>0, <1>3, <1>4, <2>1 DEF Exclusive, InSection
  <2>2. CASE s = "locked"
    BY <1>0, <1>3, <1>4, <2>2, NoneAssumption DEF Exclusive, InSection
  <2>3. CASE s = "queued"
    BY <1>0, <1>3, <1>4, <2>3, Appended DEF InSection
  <2> QED
    BY <2>1, <2>2, <2>3
<1>7. WaitInv' /\ LifeInv' /\ AgeInv' /\ NoisyInv' /\ Spaced' /\ NoisyNoResend'
  BY <1>0, <1>1, <1>2, <1>4, TaskMoves
<1> QED
  BY <1>5, <1>6, <1>7 DEF PacingInv

\* StartPaced preserves the invariant.
LEMMA StartPacedStep ==
    ASSUME PacingInv, NEW t \in Tasks, StartPaced(t)
    PROVE  PacingInv'
<1>0. /\ TypeOK /\ WaitInv /\ LifeInv /\ AgeInv /\ NoisyInv /\ Exclusive
      /\ pc[t] = "wait" /\ t[1] # "watchdog" /\ t[2] \in Msgs
  BY TaskFacts DEF PacingInv, StartPaced
<1>1. /\ pc' = [pc EXCEPT ![t] = "air"] /\ pc'[t] = "air"
      /\ \A u \in Tasks \ {t} : pc'[u] = pc[u]
  BY <1>0 DEF TypeOK, StartPaced, Transmit, Goto
<1>2. UNCHANGED <<holder, queue, timer, acked, lastAge, lastId, rxAge, noisy>>
  BY DEF StartPaced, lock, gap
<1>3. left' = 0 /\ clear' = FALSE /\ airLeft' = SendTime /\ lastTx' = t[2]
  BY DEF StartPaced, WaitEnds, Transmit
<1>4. /\ grounds' \subseteq {"gap", "echo", "own"}
      /\ lastAge >= Gap => "gap" \in grounds'
      /\ PreviousEchoed /\ rxAge >= Quiet => "echo" \in grounds'
  BY <1>0, TimesAssumption DEF StartPaced, Transmit, InGap, TypeOK, OldTx
<1>5. /\ age' \in [Msgs -> 0 .. OldAge]
      /\ \A m \in Msgs : t # Send(m) => age'[m] = age[m]
  BY <1>0, TaskFacts, TimesAssumption DEF StartPaced, TypeOK, OldAge
<1>6. \A m \in Msgs : /\ t # Watchdog(m)
                      /\ t = Send(m) => pc[Watchdog(m)] = "off"
  BY <1>0, TaskFacts DEF LifeInv
<1>7. TypeOK'
  <2>1. /\ pc' \in [Tasks -> {"off", "queued", "wait", "air", "sleep", "listen", "read", "go",
                           "locked", "done", "failed"}]
        /\ left' \in 0 .. Gap /\ airLeft' \in 0 .. SendTime
    BY <1>0, <1>1, <1>3, TimesAssumption DEF TypeOK
  <2>2. clear' \in BOOLEAN
    BY <1>3
  <2> QED
    BY <1>0, <1>2, <1>3, <1>4, <1>5, <2>1, <2>2 DEF TypeOK, OldAge, OldTx, OldRx
<1>8. Exclusive'
  BY <1>0, <1>1, <1>2 DEF Exclusive, InSection
<1>9. WaitInv'
  BY <1>0, <1>1 DEF Exclusive, InSection, WaitInv
<1>10. Spaced'
  <2>1. lastAge >= Gap \/ (PreviousEchoed /\ rxAge >= Quiet)
    <3>1. WaitOver
      BY DEF StartPaced
    <3>2. lastAge \in 0 .. Gap /\ Gap \in Nat /\ left \in 0 .. Gap
      BY <1>0, TimesAssumption DEF TypeOK, OldTx
    <3>3. IF clear THEN lastAge = Gap ELSE left = Gap - lastAge
      BY <1>0 DEF WaitInv
    <3> QED
      BY <3>1, <3>2, <3>3 DEF WaitOver
  <2>2. grounds' \cap {"gap", "echo"} # {}
    BY <1>4, <2>1
  <2> QED
    BY <2>2 DEF Spaced
<1>11. LifeInv'
  BY <1>0, <1>1, <1>6, TaskFacts DEF LifeInv
<1>12. AgeInv'
  <2> SUFFICES ASSUME NEW m \in Msgs
               PROVE  /\ pc'[Watchdog(m)] = "sleep" =>
                            age'[m] = OldAge \/ age'[m] + timer'[m] >= WatchdogDelay
                      /\ pc'[Watchdog(m)] = "listen" =>
                            age'[m] = OldAge \/ age'[m] + timer'[m] >= WatchdogDelay + Window
    BY DEF AgeInv
  <2>0. Watchdog(m) \in Tasks /\ t # Watchdog(m)
    BY <1>6, TaskFacts
  <2>1. pc'[Watchdog(m)] = pc[Watchdog(m)]
    BY <1>1, <2>0
  <2>2. pc[Watchdog(m)] # "off" => age'[m] = age[m]
    <3>1. t = Send(m) => pc[Watchdog(m)] = "off"
      BY <1>6
    <3>2. t # Send(m) => age'[m] = age[m]
      BY <1>5
    <3> QED
      BY <3>1, <3>2
  <2> QED
    BY <1>0, <1>2, <2>1, <2>2 DEF AgeInv
<1>13. NoisyInv'
  <2> SUFFICES ASSUME NEW m \in noisy
               PROVE  pc'[Watchdog(m)] \in {"read", "done"} /\ age'[m] = OldAge
    BY <1>2 DEF NoisyInv
  <2>1. m \in Msgs /\ Watchdog(m) \in Tasks
    BY <1>0, TaskFacts DEF TypeOK
  <2>2. pc[Watchdog(m)] \in {"read", "done"} /\ age[m] = OldAge
    BY <1>0 DEF NoisyInv
  <2>3. t # Watchdog(m) /\ t # Send(m)
    BY <1>6, <2>1, <2>2
  <2>4. pc'[Watchdog(m)] = pc[Watchdog(m)]
    BY <1>1, <2>1, <2>3
  <2>5. age'[m] = age[m]
    BY <1>5, <2>1, <2>3
  <2> QED
    BY <2>2, <2>4, <2>5
<1>14. NoisyNoResend'
  BY <1>13 DEF NoisyNoResend, NoisyInv
<1> QED
  BY <1>7, <1>8, <1>9, <1>10, <1>11, <1>12, <1>13, <1>14 DEF PacingInv

\* SendOk preserves the invariant.
LEMMA SendOkStep ==
    ASSUME PacingInv, NEW m \in Msgs, NEW watched \in BOOLEAN, SendOk(m, watched)
    PROVE  PacingInv'
<1> DEFINE next == IF watched THEN "sleep" ELSE "off"
<1>0. /\ TypeOK /\ WaitInv /\ LifeInv /\ AgeInv /\ NoisyInv /\ Exclusive /\ Spaced
      /\ pc[Send(m)] = "air" /\ Send(m) \in Tasks /\ Watchdog(m) \in Tasks
      /\ Send(m) # Watchdog(m)
  BY TaskFacts DEF PacingInv, SendOk
<1>1. pc[Watchdog(m)] = "off" /\ m \notin noisy
  BY <1>0 DEF LifeInv, NoisyInv
<1>2. /\ pc' = [pc EXCEPT ![Send(m)] = "done", ![Watchdog(m)] = next]
      /\ pc'[Send(m)] = "done" /\ pc'[Watchdog(m)] = next
      /\ \A u \in Tasks \ {Send(m), Watchdog(m)} : pc'[u] = pc[u]
  BY <1>0 DEF TypeOK, SendOk
<1>3. /\ UNCHANGED <<queue, left, clear, airLeft, age, acked, rxAge, lastTx, grounds, noisy>>
      /\ holder' = None /\ lastAge' = 0 /\ lastId' = m
  BY DEF SendOk, Leave, wait
<1>4. /\ timer' \in [Msgs -> 0 .. WatchdogDelay + Window]
      /\ \A n \in Msgs : n # m => timer'[n] = timer[n]
      /\ watched => timer'[m] = WatchdogDelay
  BY <1>0, TimesAssumption DEF TypeOK, SendOk
<1> HIDE DEF next
<1>5. next \in {"sleep", "off"} /\ (next = "sleep" => watched)
  BY DEF next
<1>6. TypeOK'
  <2>1. pc' \in [Tasks -> {"off", "queued", "wait", "air", "sleep", "listen", "read", "go",
                           "locked", "done", "failed"}]
    BY <1>0, <1>2, <1>5 DEF TypeOK
  <2>2. holder' \in Tasks \cup {None} /\ lastAge' \in 0 .. OldTx /\ lastId' \in Msgs \cup {None}
    BY <1>3, TimesAssumption DEF OldTx
  <2> QED
    BY <1>0, <1>3, <1>4, <2>1, <2>2 DEF TypeOK, OldAge, OldTx, OldRx
<1>7. holder = Send(m) /\ \A u \in Tasks \ {Send(m)} : ~InSection(u)
  BY <1>0 DEF Exclusive, InSection
<1>8. Exclusive'
  <2>1. \A u \in Tasks : InSection(u)' <=> holder' = u
    BY <1>2, <1>3, <1>5, <1>7, NoneAssumption DEF InSection
  <2>2. \A u \in Tasks : pc'[u] = "queued" <=> pc[u] = "queued"
    BY <1>0, <1>1, <1>2, <1>5
  <2> QED
    BY <1>0, <1>3, <2>1, <2>2 DEF Exclusive
<1>9. \A u \in Tasks : pc'[u] # "wait" /\ pc'[u] # "air"
  BY <1>2, <1>5, <1>7 DEF InSection
<1>10. WaitInv' /\ Spaced'
  BY <1>9 DEF WaitInv, Spaced
<1>11. \A n \in Msgs : n # m => /\ pc'[Send(n)] = pc[Send(n)]
                                /\ pc'[Watchdog(n)] = pc[Watchdog(n)]
  <2> SUFFICES ASSUME NEW n \in Msgs, n # m
               PROVE  pc'[Send(n)] = pc[Send(n)] /\ pc'[Watchdog(n)] = pc[Watchdog(n)]
    OBVIOUS
  <2>1. {Send(n), Watchdog(n)} \subseteq Tasks \ {Send(m), Watchdog(m)}
    BY TaskFacts
  <2> QED
    BY <1>2, <2>1
<1>12. LifeInv'
  BY <1>0, <1>2, <1>11 DEF LifeInv
<1>13. AgeInv'
  <2> SUFFICES ASSUME NEW n \in Msgs
               PROVE  /\ pc'[Watchdog(n)] = "sleep" =>
                            age[n] = OldAge \/ age[n] + timer'[n] >= WatchdogDelay
                      /\ pc'[Watchdog(n)] = "listen" =>
                            age[n] = OldAge \/ age[n] + timer'[n] >= WatchdogDelay + Window
    BY <1>3 DEF AgeInv
  <2>1. CASE n = m
    <3>1. age[n] \in Nat /\ WatchdogDelay \in Nat
      BY <1>0, TimesAssumption DEF TypeOK, OldAge
    <3> QED
      BY <1>2, <1>4, <1>5, <2>1, <3>1
  <2>2. CASE n # m
    BY <1>0, <1>4, <1>11, <2>2 DEF AgeInv
  <2> QED
    BY <2>1, <2>2
<1>14. NoisyInv'
  <2> SUFFICES ASSUME NEW n \in noisy
               PROVE  pc'[Watchdog(n)] \in {"read", "done"} /\ age[n] = OldAge
    BY <1>3 DEF NoisyInv
  <2>1. n # m /\ n \in Msgs
    BY <1>0, <1>1 DEF TypeOK
  <2> QED
    BY <1>0, <1>11, <2>1 DEF NoisyInv
<1>15. NoisyNoResend'
  BY <1>9, TaskFacts DEF NoisyNoResend
<1> QED
  BY <1>6, <1>8, <1>10, <1>12, <1>13, <1>14, <1>15 DEF PacingInv

\* SendFails preserves the invariant.
LEMMA SendFailsStep ==
    ASSUME PacingInv, NEW m \in Msgs, SendFails(m)
    PROVE  PacingInv'
<1>0. /\ TypeOK /\ WaitInv /\ LifeInv /\ AgeInv /\ NoisyInv
      /\ Exclusive /\ Spaced /\ NoisyNoResend
  BY DEF PacingInv
<1>1. TypeOK'
  <2>1. Send(m) \in Tasks /\ Goto(Send(m), "failed")
    BY TaskFacts DEF SendFails
  <2>2. pc' \in [Tasks -> {"off", "queued", "wait", "air", "sleep", "listen", "read", "go",
                         "locked", "done", "failed"}]
    BY <1>0, <2>1, GotoTyped
  <2>3. holder' \in Tasks \cup {None} /\ lastAge' \in 0 .. OldTx /\ lastId' \in Msgs \cup {None}
    BY <1>0, TimesAssumption DEF TypeOK, SendFails, Leave, OldTx
  <2>4. UNCHANGED <<queue, left, clear, timer, airLeft, age, acked, rxAge,
                    lastTx, grounds, noisy>>
    BY DEF SendFails, wait
  <2> QED
    BY <1>0, <2>2, <2>3, <2>4 DEF TypeOK, OldAge, OldTx, OldRx
<1>2. Exclusive'
  BY <1>0, TaskFacts, NoneAssumption DEF TypeOK, Exclusive, InSection, SendFails, Leave, Goto
<1>3. WaitInv'
  BY <1>0, TaskFacts DEF Exclusive, InSection, WaitInv, SendFails, Goto
<1>4. Spaced'
  BY <1>0 DEF Spaced, SendFails, Goto
<1>5. LifeInv'
  BY <1>0, TaskFacts DEF LifeInv, SendFails, Goto
<1>6. AgeInv'
  BY <1>0 DEF AgeInv, SendFails, Leave, Goto
<1>7. NoisyInv'
  BY <1>0, TaskFacts DEF NoisyInv, SendFails, Goto
<1>8. NoisyNoResend'
  BY <1>7 DEF NoisyNoResend, NoisyInv
<1> QED
  BY <1>1, <1>2, <1>3, <1>4, <1>5, <1>6, <1>7, <1>8 DEF PacingInv

\* ResendEnds preserves the invariant.
LEMMA ResendEndsStep ==
    ASSUME PacingInv, NEW m \in Msgs, ResendEnds(m)
    PROVE  PacingInv'
<1>0. /\ TypeOK /\ WaitInv /\ LifeInv /\ AgeInv /\ NoisyInv
      /\ Exclusive /\ Spaced /\ NoisyNoResend
  BY DEF PacingInv
<1>1. TypeOK'
  <2>1. Resend(m) \in Tasks /\ Goto(Resend(m), "done")
    BY TaskFacts DEF ResendEnds
  <2>2. pc' \in [Tasks -> {"off", "queued", "wait", "air", "sleep", "listen", "read", "go",
                         "locked", "done", "failed"}]
    BY <1>0, <2>1, GotoTyped
  <2>3. holder' \in Tasks \cup {None} /\ lastAge' \in 0 .. OldTx /\ lastId' \in Msgs \cup {None}
    BY <1>0, TimesAssumption DEF TypeOK, ResendEnds, Leave, OldTx
  <2>4. UNCHANGED <<queue, left, clear, timer, airLeft, age, acked, rxAge,
                    lastTx, grounds, noisy>>
    BY DEF ResendEnds, wait
  <2> QED
    BY <1>0, <2>2, <2>3, <2>4 DEF TypeOK, OldAge, OldTx, OldRx
<1>2. Exclusive'
  BY <1>0, TaskFacts, NoneAssumption DEF TypeOK, Exclusive, InSection, ResendEnds, Leave, Goto
<1>3. WaitInv'
  BY <1>0, TaskFacts DEF Exclusive, InSection, WaitInv, ResendEnds, Goto
<1>4. Spaced'
  BY <1>0 DEF Spaced, ResendEnds, Goto
<1>5. LifeInv'
  BY <1>0 DEF LifeInv, ResendEnds, Goto
<1>6. AgeInv'
  BY <1>0 DEF AgeInv, ResendEnds, Leave, Goto
<1>7. NoisyInv'
  BY <1>0, TaskFacts DEF NoisyInv, ResendEnds, Goto
<1>8. NoisyNoResend'
  BY <1>7 DEF NoisyNoResend, NoisyInv
<1> QED
  BY <1>1, <1>2, <1>3, <1>4, <1>5, <1>6, <1>7, <1>8 DEF PacingInv

\* CancelWait preserves the invariant.
LEMMA CancelWaitStep ==
    ASSUME PacingInv, NEW m \in Msgs, CancelWait(m)
    PROVE  PacingInv'
<1>0. /\ TypeOK /\ WaitInv /\ LifeInv /\ AgeInv /\ NoisyInv
      /\ Exclusive /\ Spaced /\ NoisyNoResend
  BY DEF PacingInv
<1>1. TypeOK'
  <2>1. /\ pc' \in [Tasks -> {"off", "queued", "wait", "air", "sleep", "listen", "read", "go",
                           "locked", "done", "failed"}]
        /\ left' \in 0 .. Gap /\ holder' \in Tasks \cup {None}
    BY <1>0, TaskFacts, TimesAssumption DEF TypeOK, CancelWait, WaitEnds, Goto
  <2>2. clear' \in BOOLEAN
    BY DEF CancelWait, WaitEnds
  <2>3. UNCHANGED <<queue, timer, airLeft, age, acked, lastAge, lastId, rxAge,
                    lastTx, grounds, noisy>>
    BY DEF CancelWait, gap
  <2> QED
    BY <1>0, <2>1, <2>2, <2>3 DEF TypeOK, OldAge, OldTx, OldRx
<1>2. Exclusive'
  BY <1>0, TaskFacts, NoneAssumption DEF TypeOK, Exclusive, InSection, CancelWait, WaitEnds, Goto
<1>3. WaitInv'
  BY <1>0, TaskFacts DEF TypeOK, Exclusive, InSection, WaitInv, CancelWait, Goto
<1>4. Spaced'
  BY <1>0 DEF Spaced, CancelWait, Goto
<1>5. LifeInv'
  BY <1>0, TaskFacts DEF LifeInv, CancelWait, Goto
<1>6. AgeInv'
  BY <1>0 DEF AgeInv, CancelWait, WaitEnds, Goto
<1>7. NoisyInv'
  BY <1>0, TaskFacts DEF NoisyInv, CancelWait, Goto
<1>8. NoisyNoResend'
  BY <1>7 DEF NoisyNoResend, NoisyInv
<1> QED
  BY <1>1, <1>2, <1>3, <1>4, <1>5, <1>6, <1>7, <1>8 DEF PacingInv

\* WatchdogWakes preserves the invariant.
LEMMA WatchdogWakesStep ==
    ASSUME PacingInv, NEW m \in Msgs, WatchdogWakes(m)
    PROVE  PacingInv'
<1>0. /\ TypeOK /\ WaitInv /\ LifeInv /\ AgeInv /\ NoisyInv
      /\ Exclusive /\ Spaced /\ NoisyNoResend
  BY DEF PacingInv
<1>1. TypeOK'
  <2>1. Watchdog(m) \in Tasks /\ Goto(Watchdog(m), "listen")
    BY TaskFacts DEF WatchdogWakes
  <2>2. pc' \in [Tasks -> {"off", "queued", "wait", "air", "sleep", "listen", "read", "go",
                         "locked", "done", "failed"}]
    BY <1>0, <2>1, GotoTyped
  <2>3. timer' \in [Msgs -> 0 .. WatchdogDelay + Window]
    BY <1>0, TimesAssumption DEF TypeOK, WatchdogWakes
  <2>4. UNCHANGED <<holder, queue, left, clear, airLeft, age, acked, lastAge, lastId,
                    rxAge, lastTx, grounds, noisy>>
    BY DEF WatchdogWakes, lock, wait, gap
  <2> QED
    BY <1>0, <2>2, <2>3, <2>4 DEF TypeOK, OldAge, OldTx, OldRx
<1>2. Exclusive'
  BY <1>0, TaskFacts, NoneAssumption DEF TypeOK, Exclusive, InSection, WatchdogWakes, Goto, lock
<1>3. WaitInv'
  BY <1>0 DEF WaitInv, WatchdogWakes, Goto, wait, gap
<1>4. Spaced'
  BY <1>0 DEF Spaced, WatchdogWakes, Goto
<1>5. LifeInv'
  BY <1>0, TaskFacts DEF LifeInv, WatchdogWakes, Goto
<1>6. AgeInv'
  <2> SUFFICES ASSUME NEW n \in Msgs
               PROVE  /\ pc'[Watchdog(n)] = "sleep" =>
                            age[n] = OldAge \/ age[n] + timer'[n] >= WatchdogDelay
                      /\ pc'[Watchdog(n)] = "listen" =>
                            age[n] = OldAge \/ age[n] + timer'[n] >= WatchdogDelay + Window
    BY DEF AgeInv, WatchdogWakes
  <2>1. CASE n = m
    <3>1. age[m] = OldAge \/ age[m] >= WatchdogDelay
      BY <1>0, TimesAssumption DEF AgeInv, WatchdogWakes, TypeOK, OldAge
    <3>2. timer'[m] = Window /\ pc'[Watchdog(m)] = "listen"
      BY <1>0, TaskFacts DEF WatchdogWakes, Goto, TypeOK
    <3>3. age[m] \in Nat /\ Window \in Nat /\ WatchdogDelay \in Nat
      BY <1>0, TimesAssumption DEF TypeOK, OldAge
    <3> QED
      BY <2>1, <3>1, <3>2, <3>3
  <2>2. CASE n # m
    <3>1. timer'[n] = timer[n] /\ pc'[Watchdog(n)] = pc[Watchdog(n)]
      BY <1>0, <2>2, TaskFacts DEF WatchdogWakes, Goto, TypeOK
    <3> QED
      BY <1>0, <3>1 DEF AgeInv
  <2> QED
    BY <2>1, <2>2
<1>7. NoisyInv'
  BY <1>0, TaskFacts DEF NoisyInv, WatchdogWakes, Goto
<1>8. NoisyNoResend'
  BY <1>7 DEF NoisyNoResend, NoisyInv
<1> QED
  BY <1>1, <1>2, <1>3, <1>4, <1>5, <1>6, <1>7, <1>8 DEF PacingInv

\* WatchdogListens preserves the invariant.
LEMMA WatchdogListensStep ==
    ASSUME PacingInv, NEW m \in Msgs, WatchdogListens(m)
    PROVE  PacingInv'
<1>0. /\ TypeOK /\ WaitInv /\ LifeInv /\ AgeInv /\ NoisyInv
      /\ Exclusive /\ Spaced /\ NoisyNoResend
  BY DEF PacingInv
<1>1. TypeOK'
  BY <1>0 DEF TypeOK, WatchdogListens, Goto, lock, wait, gap
<1>2. Exclusive'
  BY <1>0, TaskFacts, NoneAssumption DEF TypeOK, Exclusive, InSection, WatchdogListens, Goto, lock
<1>3. WaitInv'
  BY <1>0 DEF WaitInv, WatchdogListens, Goto, wait, gap
<1>4. Spaced'
  BY <1>0 DEF Spaced, WatchdogListens, Goto
<1>5. LifeInv'
  BY <1>0, TaskFacts DEF LifeInv, WatchdogListens, Goto
<1>6. AgeInv'
  BY <1>0 DEF AgeInv, WatchdogListens, Goto, lock, wait, gap
<1>7. NoisyInv'
  BY <1>0, TaskFacts, TimesAssumption, DelayAssumption DEF TypeOK, AgeInv, NoisyInv, WatchdogListens, Goto, OldAge
<1>8. NoisyNoResend'
  BY <1>7 DEF NoisyNoResend, NoisyInv
<1> QED
  BY <1>1, <1>2, <1>3, <1>4, <1>5, <1>6, <1>7, <1>8 DEF PacingInv

\* WatchdogReads preserves the invariant.
LEMMA WatchdogReadsStep ==
    ASSUME PacingInv, NEW m \in Msgs, NEW found \in BOOLEAN, WatchdogReads(m, found)
    PROVE  PacingInv'
<1>0. /\ TypeOK /\ WaitInv /\ LifeInv /\ AgeInv /\ NoisyInv
      /\ Exclusive /\ Spaced /\ NoisyNoResend
  BY DEF PacingInv
<1>1. TypeOK'
  BY <1>0 DEF TypeOK, WatchdogReads, Goto, lock, wait, gap
<1>2. Exclusive'
  BY <1>0 DEF Exclusive, InSection, WatchdogReads, Goto, lock
<1>3. WaitInv'
  BY <1>0 DEF WaitInv, WatchdogReads, Goto, wait, gap
<1>4. Spaced'
  BY <1>0 DEF Spaced, WatchdogReads, Goto
<1>5. LifeInv'
  BY <1>0 DEF LifeInv, WatchdogReads, Goto
<1>6. AgeInv'
  BY <1>0, TaskFacts, TimesAssumption DEF AgeInv, WatchdogReads, Goto
<1>7. NoisyInv'
  BY <1>0, TaskFacts, TimesAssumption DEF TypeOK, NoisyInv, WatchdogReads, Goto, OldAge
<1>8. NoisyNoResend'
  BY <1>7 DEF NoisyNoResend, NoisyInv
<1> QED
  BY <1>1, <1>2, <1>3, <1>4, <1>5, <1>6, <1>7, <1>8 DEF PacingInv

\* ResendNow preserves the invariant.
LEMMA ResendNowStep ==
    ASSUME PacingInv, NEW m \in Msgs, ResendNow(m)
    PROVE  PacingInv'
<1>0. /\ TypeOK /\ WaitInv /\ LifeInv /\ AgeInv /\ NoisyInv
      /\ Exclusive /\ Spaced /\ NoisyNoResend
  BY DEF PacingInv
<1>1. TypeOK'
  <2>1. Watchdog(m) \in Tasks /\ Goto(Watchdog(m), "air")
    BY TaskFacts DEF ResendNow, Transmit
  <2>2. pc' \in [Tasks -> {"off", "queued", "wait", "air", "sleep", "listen", "read", "go",
                         "locked", "done", "failed"}]
    BY <1>0, <2>1, GotoTyped
  <2>3. /\ airLeft' \in 0 .. SendTime /\ lastTx' \in Msgs \cup {None}
        /\ grounds' \subseteq {"gap", "echo", "own"}
    BY <1>0, TimesAssumption DEF ResendNow, Transmit, Watchdog
  <2>4. UNCHANGED <<holder, queue, left, clear, timer, age, acked, lastAge, lastId,
                    rxAge, noisy>>
    BY DEF ResendNow, lock, wait, gap
  <2> QED
    BY <1>0, <2>2, <2>3, <2>4 DEF TypeOK, OldAge, OldTx, OldRx
<1>2. Exclusive'
  BY <1>0, TaskFacts, NoneAssumption DEF TypeOK, Exclusive, InSection, ResendNow, Transmit, Goto, lock
<1>3. WaitInv'
  BY <1>0 DEF WaitInv, ResendNow, Transmit, Goto, wait, gap
<1>4. Spaced'
  BY <1>0, TaskFacts DEF Exclusive, InSection, Spaced, Paced, ResendNow, Transmit, Goto
<1>5. LifeInv'
  BY <1>0, TaskFacts DEF LifeInv, ResendNow, Transmit, Goto
<1>6. AgeInv'
  BY <1>0 DEF AgeInv, ResendNow, Transmit, Goto
<1>7. NoisyInv'
  BY <1>0, TaskFacts DEF NoisyInv, ResendNow, Transmit, Goto
<1>8. NoisyNoResend'
  BY <1>7 DEF NoisyNoResend, NoisyInv
<1> QED
  BY <1>1, <1>2, <1>3, <1>4, <1>5, <1>6, <1>7, <1>8 DEF PacingInv

\* ResendBusy preserves the invariant.
LEMMA ResendBusyStep ==
    ASSUME PacingInv, NEW m \in Msgs, ResendBusy(m)
    PROVE  PacingInv'
<1>0. /\ TypeOK /\ WaitInv /\ LifeInv /\ AgeInv /\ NoisyInv
      /\ Exclusive /\ Spaced /\ NoisyNoResend
  BY DEF PacingInv
<1>1. TypeOK'
  BY <1>0 DEF TypeOK, ResendBusy, Goto, wait, gap
<1>2. Exclusive'
  BY <1>0, TaskFacts, NoneAssumption DEF TypeOK, Exclusive, InSection, ResendBusy, Goto
<1>3. WaitInv'
  BY <1>0 DEF WaitInv, ResendBusy, Goto, wait, gap
<1>4. Spaced'
  BY <1>0 DEF Spaced, ResendBusy, Goto
<1>5. LifeInv'
  BY <1>0, TaskFacts DEF LifeInv, ResendBusy, Goto
<1>6. AgeInv'
  BY <1>0 DEF AgeInv, ResendBusy, Goto
<1>7. NoisyInv'
  BY <1>0, TaskFacts DEF NoisyInv, ResendBusy, Goto
<1>8. NoisyNoResend'
  BY <1>7 DEF NoisyNoResend, NoisyInv
<1> QED
  BY <1>1, <1>2, <1>3, <1>4, <1>5, <1>6, <1>7, <1>8 DEF PacingInv

\* WatchdogEnds preserves the invariant.
LEMMA WatchdogEndsStep ==
    ASSUME PacingInv, NEW m \in Msgs, NEW raised \in BOOLEAN, WatchdogEnds(m, raised)
    PROVE  PacingInv'
<1>0. /\ TypeOK /\ WaitInv /\ LifeInv /\ AgeInv /\ NoisyInv
      /\ Exclusive /\ Spaced /\ NoisyNoResend
  BY DEF PacingInv
<1>1. TypeOK'
  <2>1. Watchdog(m) \in Tasks /\ Goto(Watchdog(m), "done")
    BY TaskFacts DEF WatchdogEnds
  <2>2. pc' \in [Tasks -> {"off", "queued", "wait", "air", "sleep", "listen", "read", "go",
                         "locked", "done", "failed"}]
    BY <1>0, <2>1, GotoTyped
  <2>3. holder' \in Tasks \cup {None} /\ lastAge' \in 0 .. OldTx
    BY <1>0, TimesAssumption DEF TypeOK, WatchdogEnds, OldTx
  <2>4. UNCHANGED <<queue, left, clear, timer, airLeft, age, acked, lastId, rxAge,
                    lastTx, grounds, noisy>>
    BY DEF WatchdogEnds, wait
  <2> QED
    BY <1>0, <2>2, <2>3, <2>4 DEF TypeOK, OldAge, OldTx, OldRx
<1>2. Exclusive'
  BY <1>0, TaskFacts, NoneAssumption DEF TypeOK, Exclusive, InSection, WatchdogEnds, Goto
<1>3. WaitInv'
  BY <1>0, TaskFacts DEF Exclusive, InSection, WaitInv, WatchdogEnds, Goto
<1>4. Spaced'
  BY <1>0 DEF Spaced, WatchdogEnds, Goto
<1>5. LifeInv'
  BY <1>0 DEF LifeInv, WatchdogEnds, Goto
<1>6. AgeInv'
  BY <1>0, TaskFacts DEF AgeInv, WatchdogEnds, Goto
<1>7. NoisyInv'
  BY <1>0 DEF NoisyInv, WatchdogEnds, Goto
<1>8. NoisyNoResend'
  BY <1>7 DEF NoisyNoResend, NoisyInv
<1> QED
  BY <1>1, <1>2, <1>3, <1>4, <1>5, <1>6, <1>7, <1>8 DEF PacingInv

\* Echo preserves the invariant.
LEMMA EchoStep ==
    ASSUME PacingInv, NEW m \in Msgs, Echo(m)
    PROVE  PacingInv'
<1>0. /\ TypeOK /\ WaitInv /\ LifeInv /\ AgeInv /\ NoisyInv
      /\ Exclusive /\ Spaced /\ NoisyNoResend
  BY DEF PacingInv
<1>1. TypeOK'
  <2>1. UNCHANGED <<holder, queue, pc, left, clear, timer, airLeft, age,
                    lastAge, lastId, lastTx, grounds, noisy>>
    BY DEF Echo, lock, wait, gap
  <2>2. rxAge' \in 0 .. OldRx /\ acked' \subseteq Msgs
    BY <1>0, TimesAssumption DEF Echo, TypeOK, OldRx
  <2> QED
    BY <1>0, <2>1, <2>2 DEF TypeOK, OldAge, OldTx, OldRx
<1>2. Exclusive'
  BY <1>0 DEF Exclusive, InSection, Echo, lock
<1>3. WaitInv'
  BY <1>0 DEF WaitInv, Echo, wait, gap
<1>4. Spaced'
  BY <1>0 DEF Spaced, Echo
<1>5. LifeInv'
  BY <1>0 DEF LifeInv, Echo
<1>6. AgeInv'
  BY <1>0 DEF AgeInv, Echo
<1>7. NoisyInv'
  BY <1>0 DEF NoisyInv, Echo
<1>8. NoisyNoResend'
  BY <1>7 DEF NoisyNoResend, NoisyInv
<1> QED
  BY <1>1, <1>2, <1>3, <1>4, <1>5, <1>6, <1>7, <1>8 DEF PacingInv

\* Noise preserves the invariant.
LEMMA NoiseStep ==
    ASSUME PacingInv, Noise
    PROVE  PacingInv'
<1>0. /\ TypeOK /\ WaitInv /\ LifeInv /\ AgeInv /\ NoisyInv
      /\ Exclusive /\ Spaced /\ NoisyNoResend
  BY DEF PacingInv
<1>1. TypeOK'
  <2>1. UNCHANGED <<holder, queue, pc, left, clear, timer, airLeft, age,
                    lastAge, lastId, lastTx, grounds, noisy>>
    BY DEF Noise, lock, wait, gap
  <2>2. rxAge' \in 0 .. OldRx /\ acked' \subseteq Msgs
    BY <1>0, TimesAssumption DEF Noise, TypeOK, OldRx
  <2> QED
    BY <1>0, <2>1, <2>2 DEF TypeOK, OldAge, OldTx, OldRx
<1>2. Exclusive'
  BY <1>0 DEF Exclusive, InSection, Noise, lock
<1>3. WaitInv'
  BY <1>0 DEF WaitInv, Noise, wait, gap
<1>4. Spaced'
  BY <1>0 DEF Spaced, Noise
<1>5. LifeInv'
  BY <1>0 DEF LifeInv, Noise
<1>6. AgeInv'
  BY <1>0 DEF AgeInv, Noise
<1>7. NoisyInv'
  BY <1>0 DEF NoisyInv, Noise
<1>8. NoisyNoResend'
  BY <1>7 DEF NoisyNoResend, NoisyInv
<1> QED
  BY <1>1, <1>2, <1>3, <1>4, <1>5, <1>6, <1>7, <1>8 DEF PacingInv

\* Tick preserves the invariant.
LEMMA TickStep ==
    ASSUME PacingInv, Tick
    PROVE  PacingInv'
<1>0. /\ TypeOK /\ WaitInv /\ LifeInv /\ AgeInv /\ NoisyInv
      /\ Exclusive /\ Spaced /\ NoisyNoResend
  BY DEF PacingInv
<1>1. TypeOK'
  <2>1. /\ left' \in 0 .. Gap /\ airLeft' \in 0 .. SendTime
        /\ lastAge' \in 0 .. OldTx /\ rxAge' \in 0 .. OldRx
    BY <1>0, TimesAssumption DEF TypeOK, Tick, Less, Older, OldTx, OldRx
  <2>2. timer' \in [Msgs -> 0 .. WatchdogDelay + Window]
    BY <1>0, TimesAssumption DEF TypeOK, Tick, Less
  <2>3. age' \in [Msgs -> 0 .. OldAge]
    <3>1. OldAge \in Nat
      BY TimesAssumption DEF OldAge
    <3>2. \A m \in Msgs : Older(age[m], OldAge) \in 0 .. OldAge
      BY <1>0, <3>1 DEF TypeOK, Older
    <3> QED
      BY <3>2 DEF Tick
  <2>4. UNCHANGED <<holder, queue, pc, clear, acked, lastId, lastTx, grounds, noisy>>
    BY DEF Tick, lock
  <2> QED
    BY <1>0, <2>1, <2>2, <2>3, <2>4 DEF TypeOK
<1>2. Exclusive'
  BY <1>0 DEF Exclusive, InSection, Tick, lock
<1>3. WaitInv'
  BY <1>0, TimesAssumption DEF TypeOK, WaitInv, Tick, Older, Less, OldTx
<1>4. Spaced'
  BY <1>0 DEF Spaced, Tick
<1>5. LifeInv'
  BY <1>0 DEF LifeInv, Tick
<1>6. AgeInv'
  <2> SUFFICES ASSUME NEW m \in Msgs
               PROVE  /\ pc[Watchdog(m)] = "sleep" =>
                            age'[m] = OldAge \/ age'[m] + timer'[m] >= WatchdogDelay
                      /\ pc[Watchdog(m)] = "listen" =>
                            age'[m] = OldAge \/ age'[m] + timer'[m] >= WatchdogDelay + Window
    BY DEF AgeInv, Tick
  <2>1. /\ age[m] \in 0 .. OldAge /\ timer[m] \in 0 .. WatchdogDelay + Window
        /\ OldAge \in Nat /\ WatchdogDelay \in Nat /\ Window \in Nat
    BY <1>0, TimesAssumption DEF TypeOK, OldAge
  <2>2. /\ age'[m] = Older(age[m], OldAge) /\ timer'[m] = Less(timer[m])
    BY DEF Tick
  <2>3. age'[m] = OldAge \/ age'[m] + timer'[m] >= age[m] + timer[m]
    BY <2>1, <2>2 DEF Older, Less
  <2>4. age[m] = OldAge => age'[m] = OldAge
    BY <2>1, <2>2 DEF Older
  <2>5. age'[m] \in Nat /\ timer'[m] \in Nat
    BY <2>1, <2>2 DEF Older, Less
  <2> QED
    BY <1>0, <2>1, <2>3, <2>4, <2>5 DEF AgeInv
<1>7. NoisyInv'
  BY <1>0 DEF TypeOK, NoisyInv, Tick, Older
<1>8. NoisyNoResend'
  BY <1>7 DEF NoisyNoResend, NoisyInv
<1> QED
  BY <1>1, <1>2, <1>3, <1>4, <1>5, <1>6, <1>7, <1>8 DEF PacingInv

-----------------------------------------------------------------------------
(* The invariant and the theorems                                           *)

\* The invariant holds before the first send.
LEMMA InitInv ==
    ASSUME Init
    PROVE  PacingInv
<1>1. TypeOK
  <2>1. clear \in BOOLEAN
    BY DEF Init
  <2>2. queue \in Seq(Tasks)
    BY DEF Init
  <2> QED
    BY <2>1, <2>2, TimesAssumption DEF Init, TypeOK, OldAge, OldTx, OldRx
<1>2. \A t \in Tasks : pc[t] = "off"
  BY DEF Init
<1>3. WaitInv /\ Spaced
  BY <1>2 DEF WaitInv, Spaced
<1>4. LifeInv /\ AgeInv /\ NoisyNoResend
  BY <1>2, TaskFacts DEF LifeInv, AgeInv, NoisyNoResend
<1>5. NoisyInv
  BY DEF Init, NoisyInv
<1>6. Exclusive
  <2>1. holder = None /\ DOMAIN queue = {}
    BY DEF Init
  <2> QED
    BY <1>2, <2>1, NoneAssumption DEF Exclusive, InSection
<1> QED
  BY <1>1, <1>3, <1>4, <1>5, <1>6 DEF PacingInv

\* a step of a task that was started
LEMMA RunStep ==
    ASSUME PacingInv, NEW m \in Msgs, Run(m)
    PROVE  PacingInv'
BY StartPacedStep, GrantStep, SendOkStep, SendFailsStep, ResendEndsStep,
   WatchdogWakesStep, WatchdogListensStep, WatchdogGoesStep, WatchdogReadsStep,
   ResendNowStep, ResendBusyStep, WatchdogEndsStep DEF Run

\* A stuttering step preserves the invariant.
LEMMA StutterStep ==
    ASSUME PacingInv, UNCHANGED vars
    PROVE  PacingInv'
BY DEF PacingInv, vars, TypeOK, WaitInv, LifeInv, AgeInv, NoisyInv, Exclusive, Spaced,
       NoisyNoResend, InSection, Paced

\* Every step preserves the invariant.
LEMMA StepInv ==
    ASSUME PacingInv, [Next]_vars
    PROVE  PacingInv'
BY RequestStep, RequestResendStep, CancelQueuedStep, CancelWaitStep, RunStep,
   EchoStep, NoiseStep, TickStep, StutterStep DEF Next

(* PacingInv holds in every reachable state, for any set of messages and    *)
(* any gap, quiet time, watchdog delay, resend window and length of a send. *)
THEOREM PacingInvariance == Spec => []PacingInv
<1>1. Init => PacingInv
  BY InitInv
<1>2. PacingInv /\ [Next]_vars => PacingInv'
  BY StepInv
<1> QED
  BY <1>1, <1>2, PTL DEF Spec

(* Sends, resends and echo watchdogs exclude each other: whoever waits out  *)
(* the gap or transmits is the holder of _send_gap_lock, and the waiters of *)
(* the lock are exactly the queued tasks.                                   *)
THEOREM TasksExclude == Spec => []Exclusive
<1>1. PacingInv => Exclusive
  BY DEF PacingInv
<1> QED
  BY <1>1, PacingInvariance, PTL

(* A paced transmission starts only after the gap since the last one noted, *)
(* or once that one was heard again and the air is quiet (paced_send and    *)
(* _wait_for_send_gap).                                                     *)
THEOREM SendsSpaced == Spec => []Spaced
<1>1. PacingInv => Spaced
  BY DEF PacingInv
<1> QED
  BY <1>1, PacingInvariance, PTL

(* The echo watchdog never resends a message after listening in vain for    *)
(* quiet air: by then the resend window is over (_channel_echo_watchdog).   *)
THEOREM WatchdogKeepsQuiet == Spec => []NoisyNoResend
<1>1. PacingInv => NoisyNoResend
  BY DEF PacingInv
<1> QED
  BY <1>1, PacingInvariance, PTL

(* The clock, the lock and every task keep their types.                     *)
THEOREM PacingTypes == Spec => []TypeOK
<1>1. PacingInv => TypeOK
  BY DEF PacingInv
<1> QED
  BY <1>1, PacingInvariance, PTL
=============================================================================
