------------------------------ MODULE SendPacing ------------------------------
(***************************************************************************)
(* Pacing of outgoing transmissions (app/services/message_send.py:         *)
(* paced_send, _wait_for_send_gap and _channel_echo_watchdog; the send and *)
(* resend endpoints of app/routers/messages.py).                           *)
(*                                                                         *)
(* A repeater cannot hear while it repeats, so transmissions are spaced:   *)
(* the next one waits for an echo (or ACK) of the previous one and for     *)
(* quiet air, or for the gap.  The tasks are the send of a message, the    *)
(* user's byte-perfect resend of it, and the watchdog that resends it once *)
(* if no echo was heard.  They share _send_gap_lock, an asyncio lock: its  *)
(* waiters are served in order, and after a release it is unlocked until   *)
(* the first waiter runs.                                                  *)
(*                                                                         *)
(* Time is counted in ticks and passes only when no task is ready to run.  *)
(* An age is kept only as far as the code compares it.                     *)
(***************************************************************************)
EXTENDS Integers, Sequences

CONSTANTS
    Msgs,          \* messages
    None,          \* no task, no message
    Gap,           \* the send_gap_seconds setting
    Quiet,         \* SEND_GAP_QUIET_SECONDS
    WatchdogDelay, \* ECHO_WATCHDOG_DELAY_SECONDS
    Window,        \* RESEND_WINDOW_SECONDS
    SendTime       \* bound: longest time a radio send takes

Send(m) == <<"send", m>>
Resend(m) == <<"resend", m>>
Watchdog(m) == <<"watchdog", m>>
Tasks == {"send", "resend", "watchdog"} \X Msgs

ASSUME TimesAssumption ==
    /\ Gap \in Nat /\ Quiet \in Nat
    /\ WatchdogDelay \in Nat /\ Window \in Nat /\ SendTime \in Nat
ASSUME NoneAssumption == None \notin Tasks
ASSUME DelayAssumption == WatchdogDelay > 0

\* bounds of the ages: the greatest values the code tells apart
OldAge == Window + 1
OldTx == Gap
OldRx == Quiet

VARIABLES
    holder,   \* the task that holds _send_gap_lock
    queue,    \* the tasks that wait for it, in order
    pc,       \* step of each task
    left,     \* time to the deadline of the holder's wait
    clear,    \* the holder found nothing of ours in flight
    timer,    \* what is left of the sleep or the listening of a watchdog
    airLeft,  \* longest time left of the radio send under way
    age,      \* time since sender_timestamp of each message, OldAge before it
    acked,    \* messages with an echo or ACK stored
    lastAge,  \* time since _last_send_monotonic
    lastId,   \* _last_send_message_id
    rxAge,    \* time since _last_rx_monotonic
    lastTx,   \* observer: message of the last transmission
    grounds,  \* observer: what held when the transmission under way began
    noisy     \* observer: messages whose watchdog never found quiet air

lock   == <<holder, queue>>
wait   == <<left, clear>>
gap    == <<lastAge, lastId>>
vars   == <<holder, queue, pc, left, clear, timer, airLeft, age, acked, lastAge, lastId,
            rxAge, lastTx, grounds, noisy>>

Init ==
    /\ holder = None /\ queue = <<>>
    /\ pc = [t \in Tasks |-> "off"]
    /\ left = 0 /\ clear = FALSE /\ airLeft = 0
    /\ timer = [m \in Msgs |-> 0]
    /\ age = [m \in Msgs |-> OldAge]
    /\ acked = {}
    /\ lastAge = OldTx /\ lastId = None /\ rxAge = OldRx
    /\ lastTx = None /\ grounds = {} /\ noisy = {}

Goto(t, next) == pc' = [pc EXCEPT ![t] = next]

-----------------------------------------------------------------------------
(* _send_gap_lock and _wait_for_send_gap                                    *)

InGap == lastAge < Gap

\* mutant: the gap after the previous send is not looked at
MutBeginWait(t) ==
    holder' = t /\ left' = Gap /\ clear' = TRUE /\ Goto(t, "wait")

\* the lock is acquired and the wait begins
BeginWait(t) ==
    /\ holder' = t
    /\ left' = IF InGap THEN Gap - lastAge ELSE Gap
    /\ clear' = ~InGap
    /\ Goto(t, "wait")

\* async with paced_send(): at once if the lock is free and nobody waits
Enter(t) ==
    IF holder = None /\ queue = <<>>
    THEN BeginWait(t) /\ UNCHANGED queue
    ELSE Goto(t, "queued") /\ queue' = Append(queue, t) /\ UNCHANGED <<holder, wait>>

PreviousEchoed == lastId # None /\ lastId \in acked

\* the loop of _wait_for_send_gap ends
WaitOver == left = 0 \/ ((clear \/ PreviousEchoed) /\ rxAge >= Quiet)

\* the locals of the wait are gone
WaitEnds == left' = 0 /\ clear' = FALSE

\* a radio send of m begins, and what the observer notes of it
Transmit(t) ==
    /\ Goto(t, "air")
    /\ airLeft' = SendTime
    /\ lastTx' = t[2]
    /\ grounds' = {g \in {"gap", "echo", "own"} :
                     \/ g = "gap" /\ ~InGap
                     \/ g = "echo" /\ PreviousEchoed /\ rxAge >= Quiet
                     \/ g = "own" /\ lastTx \in acked}

\* the wait is over: the message is sent, or sent again
StartPaced(t) ==
    /\ t[1] # "watchdog" /\ pc[t] = "wait" /\ WaitOver
    /\ Transmit(t)
    /\ age' = IF t[1] = "send" THEN [age EXCEPT ![t[2]] = 0] ELSE age
    /\ WaitEnds
    /\ UNCHANGED <<lock, timer, acked, gap, rxAge, noisy>>

\* the first waiter gets the lock; a watchdog then tries the radio (ResendNow)
Grant(t) ==
    /\ holder = None /\ queue # <<>> /\ Head(queue) = t
    /\ queue' = Tail(queue)
    /\ IF t[1] # "watchdog" THEN BeginWait(t)
       ELSE Goto(t, "locked") /\ holder' = t /\ UNCHANGED wait
    /\ UNCHANGED <<timer, airLeft, age, acked, gap, rxAge, lastTx, grounds, noisy>>

\* the finally clause of paced_send
Leave(id) == holder' = None /\ lastAge' = 0 /\ lastId' = id

-----------------------------------------------------------------------------
(* The endpoints                                                            *)

\* send_channel_message or send_direct_message
Request(m) ==
    /\ pc[Send(m)] = "off"
    /\ Enter(Send(m))
    /\ UNCHANGED <<timer, airLeft, age, acked, gap, rxAge, lastTx, grounds, noisy>>

\* the radio took the message; with auto_resend_channel a watchdog is started
SendOk(m, watched) ==
    /\ pc[Send(m)] = "air"
    /\ Leave(m)
    /\ pc' = [pc EXCEPT ![Send(m)] = "done",
                        ![Watchdog(m)] = IF watched THEN "sleep" ELSE "off"]
    /\ timer' = IF watched THEN [timer EXCEPT ![m] = WatchdogDelay] ELSE timer
    /\ UNCHANGED <<queue, wait, airLeft, age, acked, rxAge, lastTx, grounds, noisy>>

\* mutant: a failed send keeps the lock
MutSendFails(m) ==
    /\ pc[Send(m)] = "air"
    /\ Goto(Send(m), "failed")
    /\ UNCHANGED <<lock, wait, timer, airLeft, age, acked, gap, rxAge, lastTx, grounds, noisy>>

\* the send fails: no row is left, and no id
SendFails(m) ==
    /\ pc[Send(m)] = "air"
    /\ Leave(None)
    /\ Goto(Send(m), "failed")
    /\ UNCHANGED <<queue, wait, timer, airLeft, age, acked, rxAge, lastTx, grounds, noisy>>

\* resend_channel_message: the window is checked before the task queues
RequestResend(m) ==
    /\ pc[Send(m)] = "done" /\ pc[Resend(m)] = "off"
    /\ age[m] <= Window
    /\ Enter(Resend(m))
    /\ UNCHANGED <<timer, airLeft, age, acked, gap, rxAge, lastTx, grounds, noisy>>

\* paced by time only: no id is noted, whether the resend succeeds or fails
ResendEnds(m) ==
    /\ pc[Resend(m)] = "air"
    /\ Leave(None)
    /\ Goto(Resend(m), "done")
    /\ UNCHANGED <<queue, wait, timer, airLeft, age, acked, rxAge, lastTx, grounds, noisy>>

\* the queue without its i-th waiter
Without(i) == [j \in 1 .. Len(queue) - 1 |-> IF j < i THEN queue[j] ELSE queue[j + 1]]

\* A bot is stopped while its reply queues or waits.  The finally clause of
\* paced_send is not reached yet: nothing is noted.  (In the air a cancelled
\* send is a failed one.)
CancelQueued(m) ==
    /\ pc[Send(m)] = "queued"
    /\ \E i \in DOMAIN queue : queue[i] = Send(m) /\ queue' = Without(i)
    /\ Goto(Send(m), "failed")
    /\ UNCHANGED <<holder, wait, timer, airLeft, age, acked, gap, rxAge, lastTx, grounds, noisy>>

CancelWait(m) ==
    /\ pc[Send(m)] = "wait"
    /\ holder' = None
    /\ WaitEnds
    /\ Goto(Send(m), "failed")
    /\ UNCHANGED <<queue, timer, airLeft, age, acked, gap, rxAge, lastTx, grounds, noisy>>

-----------------------------------------------------------------------------
(* _channel_echo_watchdog                                                   *)

\* the delay is over: wait for quiet air, at most Window long
WatchdogWakes(m) ==
    /\ pc[Watchdog(m)] = "sleep" /\ timer[m] = 0
    /\ Goto(Watchdog(m), "listen")
    /\ timer' = [timer EXCEPT ![m] = Window]
    /\ UNCHANGED <<lock, wait, airLeft, age, acked, gap, rxAge, lastTx, grounds, noisy>>

WatchdogListens(m) ==
    /\ pc[Watchdog(m)] = "listen"
    /\ timer[m] = 0 \/ rxAge >= Quiet
    /\ Goto(Watchdog(m), "read")
    /\ noisy' = IF rxAge >= Quiet THEN noisy ELSE noisy \cup {m}
    /\ UNCHANGED <<lock, wait, timer, airLeft, age, acked, gap, rxAge, lastTx, grounds>>

\* mutant: the resend window is not checked
MutWatchdogReads(m, found) ==
    /\ pc[Watchdog(m)] = "read"
    /\ Goto(Watchdog(m), IF found /\ m \notin acked THEN "go" ELSE "done")
    /\ UNCHANGED <<lock, wait, timer, airLeft, age, acked, gap, rxAge, lastTx, grounds, noisy>>

\* The row and the channel are read.  A missing one, an echo, or the end of
\* the resend window ends the watchdog.
WatchdogReads(m, found) ==
    /\ pc[Watchdog(m)] = "read"
    /\ Goto(Watchdog(m), IF found /\ m \notin acked /\ age[m] <= Window THEN "go" ELSE "done")
    /\ UNCHANGED <<lock, wait, timer, airLeft, age, acked, gap, rxAge, lastTx, grounds, noisy>>

\* mutant: the lock is looked at and not taken
MutWatchdogGoes(m) ==
    /\ pc[Watchdog(m)] = "go"
    /\ Goto(Watchdog(m), IF holder # None THEN "done" ELSE "locked")
    /\ UNCHANGED <<lock, wait, timer, airLeft, age, acked, gap, rxAge, lastTx, grounds, noisy>>

\* A locked _send_gap_lock ends the watchdog; an
\* unlocked one is taken, unless a waiter is about to: then it queues.
WatchdogGoes(m) ==
    /\ pc[Watchdog(m)] = "go"
    /\ \/ /\ holder # None
          /\ Goto(Watchdog(m), "done") /\ UNCHANGED lock
       \/ /\ holder = None /\ queue = <<>>
          /\ Goto(Watchdog(m), "locked") /\ holder' = Watchdog(m) /\ UNCHANGED queue
       \/ /\ holder = None /\ queue # <<>>
          /\ Goto(Watchdog(m), "queued") /\ queue' = Append(queue, Watchdog(m)) /\ UNCHANGED holder
    /\ UNCHANGED <<wait, timer, airLeft, age, acked, gap, rxAge, lastTx, grounds, noisy>>

\* the radio lock is free, and the message is sent again
ResendNow(m) ==
    /\ pc[Watchdog(m)] = "locked"
    /\ Transmit(Watchdog(m))
    /\ UNCHANGED <<lock, wait, timer, age, acked, gap, rxAge, noisy>>

\* the radio is busy: the watchdog gives up
ResendBusy(m) ==
    /\ pc[Watchdog(m)] = "locked"
    /\ Goto(Watchdog(m), "done")
    /\ holder' = None
    /\ UNCHANGED <<queue, wait, timer, airLeft, age, acked, gap, rxAge, lastTx, grounds, noisy>>

\* the resend returns: only _last_send_monotonic is noted; after an exception
\* not even that
WatchdogEnds(m, raised) ==
    /\ pc[Watchdog(m)] = "air"
    /\ Goto(Watchdog(m), "done")
    /\ holder' = None
    /\ lastAge' = IF raised THEN lastAge ELSE 0
    /\ UNCHANGED <<queue, wait, timer, airLeft, age, acked, lastId, rxAge, lastTx, grounds, noisy>>

-----------------------------------------------------------------------------
(* The mesh and time                                                        *)

\* an echo (or ACK) of m is heard and stored
Echo(m) ==
    /\ pc[Send(m)] \in {"air", "done"}
    /\ acked' = acked \cup {m}
    /\ rxAge' = 0
    /\ UNCHANGED <<lock, pc, wait, timer, airLeft, age, gap, lastTx, grounds, noisy>>

\* any other packet is heard
Noise ==
    /\ rxAge # 0
    /\ rxAge' = 0
    /\ UNCHANGED <<lock, pc, wait, timer, airLeft, age, acked, gap, lastTx, grounds, noisy>>

\* the task can go on without time passing
Ready(t) ==
    \/ pc[t] = "queued" /\ holder = None /\ Head(queue) = t
    \/ pc[t] = "wait" /\ WaitOver
    \/ pc[t] = "sleep" /\ timer[t[2]] = 0
    \/ pc[t] = "listen" /\ (timer[t[2]] = 0 \/ rxAge >= Quiet)
    \/ pc[t] \in {"read", "go", "locked"}
    \/ pc[t] = "air" /\ airLeft = 0

Older(a, old) == IF a < old THEN a + 1 ELSE old
\* mutant: a deadline that has passed is slept past
MutLess(n) == n - 1
Less(n) == IF n > 0 THEN n - 1 ELSE 0

Tick ==
    /\ \A t \in Tasks : ~Ready(t)
    /\ left' = Less(left)
    /\ timer' = [m \in Msgs |-> Less(timer[m])]
    /\ airLeft' = Less(airLeft)
    /\ age' = [m \in Msgs |-> Older(age[m], OldAge)]
    /\ lastAge' = Older(lastAge, OldTx)
    /\ rxAge' = Older(rxAge, OldRx)
    /\ UNCHANGED <<lock, pc, clear, acked, lastId, lastTx, grounds, noisy>>

\* what the tasks do once they are started
Run(m) ==
    \/ \E t \in Tasks : t[2] = m /\ (StartPaced(t) \/ Grant(t))
    \/ \E watched \in BOOLEAN : SendOk(m, watched)
    \/ SendFails(m) \/ ResendEnds(m)
    \/ WatchdogWakes(m) \/ WatchdogListens(m) \/ WatchdogGoes(m)
    \/ \E found \in BOOLEAN : WatchdogReads(m, found)
    \/ ResendNow(m) \/ ResendBusy(m)
    \/ \E raised \in BOOLEAN : WatchdogEnds(m, raised)

Next ==
    \/ \E m \in Msgs : Request(m) \/ RequestResend(m) \/ CancelQueued(m) \/ CancelWait(m) \/ Run(m) \/ Echo(m)
    \/ Noise
    \/ Tick

Spec == Init /\ [][Next]_vars

(* The event loop runs ready tasks, radio sends end, and time goes on.      *)
FairSpec == Spec /\ WF_vars(Tick) /\ \A m \in Msgs : WF_vars(Run(m))

-----------------------------------------------------------------------------
(* Properties                                                               *)

TypeOK ==
    /\ holder \in Tasks \cup {None}
    /\ queue \in Seq(Tasks)
    /\ pc \in [Tasks -> {"off", "queued", "wait", "air", "sleep", "listen", "read", "go",
                         "locked", "done", "failed"}]
    /\ left \in 0 .. Gap /\ clear \in BOOLEAN /\ airLeft \in 0 .. SendTime
    /\ timer \in [Msgs -> 0 .. WatchdogDelay + Window]
    /\ age \in [Msgs -> 0 .. OldAge]
    /\ acked \subseteq Msgs /\ noisy \subseteq Msgs
    /\ lastAge \in 0 .. OldTx /\ rxAge \in 0 .. OldRx
    /\ lastId \in Msgs \cup {None} /\ lastTx \in Msgs \cup {None}
    /\ grounds \subseteq {"gap", "echo", "own"}

InSection(t) == pc[t] \in {"wait", "locked", "air"}
Paced(t) == t[1] # "watchdog"

(* Sends, resends and watchdogs exclude each other: the task that waits out *)
(* the gap or uses the radio is the one that holds _send_gap_lock, and the  *)
(* waiters of the lock are the queued tasks, each once.                     *)
Exclusive ==
    /\ \A t \in Tasks : InSection(t) <=> holder = t
    /\ \A t \in Tasks : pc[t] = "queued" <=> \E i \in DOMAIN queue : queue[i] = t
    /\ \A i, j \in DOMAIN queue : queue[i] = queue[j] => i = j

(* A paced transmission begins only when the gap since _last_send_monotonic *)
(* is over or the message last noted was heard again and the air is quiet,  *)
(* whatever the watchdogs did while it queued and waited.                   *)
Spaced ==
    \A t \in Tasks : Paced(t) /\ pc[t] = "air" => grounds \cap {"gap", "echo"} # {}

(* "Resend only into quiet air": a watchdog that listened in vain until its *)
(* deadline never resends (only the resend window stops it).                *)
NoisyNoResend == \A m \in Msgs : pc[Watchdog(m)] = "air" => m \notin noisy

(* Whatever traffic is heard and whatever resends compete for the lock, a   *)
(* send that queues for it gets its turn and ends.                          *)
RequestServed ==
    \A m \in Msgs : pc[Send(m)] = "queued" ~> pc[Send(m)] \in {"done", "failed"}

(* "The next send waits for the previous one's first echo/ACK": one that    *)
(* does not wait for the gap follows an echo of the message last sent, by   *)
(* whichever task.                                                          *)
EchoIsPrevious ==
    \A t \in Tasks : Paced(t) /\ pc[t] = "air" => grounds \cap {"gap", "own"} # {}

-----------------------------------------------------------------------------
(* The inductive invariant behind the safety properties                     *)

\* The deadline of a wait is the end of the gap, unless the gap is over.
WaitInv ==
    \A t \in Tasks : pc[t] = "wait" =>
        IF clear THEN lastAge = Gap ELSE left = Gap - lastAge

\* A watchdog belongs to a message that was sent, and will not be sent anew.
LifeInv == \A m \in Msgs : pc[Watchdog(m)] # "off" => pc[Send(m)] = "done"

\* The message grows older while its watchdog sleeps and listens.
AgeInv ==
    \A m \in Msgs :
        /\ pc[Watchdog(m)] = "sleep" =>
              age[m] = OldAge \/ age[m] + timer[m] >= WatchdogDelay
        /\ pc[Watchdog(m)] = "listen" =>
              age[m] = OldAge \/ age[m] + timer[m] >= WatchdogDelay + Window

\* A watchdog that listened in vain did so until the window was over.
NoisyInv ==
    \A m \in noisy : pc[Watchdog(m)] \in {"read", "done"} /\ age[m] = OldAge

PacingInv ==
    /\ TypeOK /\ WaitInv /\ LifeInv /\ AgeInv /\ NoisyInv
    /\ Exclusive /\ Spaced /\ NoisyNoResend
=============================================================================
