------------------------------ MODULE DmDelivery ------------------------------
(***************************************************************************)
(* Delivery of outgoing direct messages: the send request, the background  *)
(* retry task and the ACK tracker they share (app/services/message_send.py,*)
(* dm_ack_tracker.py and dm_ack_apply.py).                                  *)
(*                                                                         *)
(* The server is one asyncio event loop, so a coroutine is interrupted only*)
(* where it awaits; one action is what a coroutine does between two awaits *)
(* that matter here.  A DM is transmitted up to DM_SEND_MAX_ATTEMPTS times *)
(* and every transmission has an ACK code of its own (the firmware hashes  *)
(* the attempt number into it), so a code is a pair <<message, attempt>>.  *)
(* An ACK can be heard before its code is registered, many times (the host *)
(* control frame, the raw ACK packet and the ACK bundled in a PATH packet  *)
(* all end in apply_dm_ack_code), or never.                                *)
(*                                                                         *)
(* Time is kept as ages in ticks, which saturate at Cap: past it every     *)
(* comparison the code makes has the same outcome.                         *)
(***************************************************************************)
EXTENDS Integers, FiniteSets

CONSTANTS
    Msgs,                  \* the direct messages the user sends
    DM_SEND_MAX_ATTEMPTS,  \* transmissions per message, the first included
    RetryWait,             \* sleep before a retry: 1.2 * suggested_timeout
    AckWindow,             \* life of a pending code: 2 * suggested_timeout
    BufferTTL,             \* BUFFERED_ACK_TTL_SECONDS
    MaxHeard               \* bound: ACK receptions, repeated ones included

ASSUME AttemptsAssumption == DM_SEND_MAX_ATTEMPTS \in Nat \ {0}
ASSUME WindowAssumption ==
    /\ RetryWait \in Nat /\ AckWindow \in Nat /\ BufferTTL \in Nat
    /\ RetryWait < AckWindow
ASSUME HeardAssumption == MaxHeard \in Nat

Attempts == 0 .. DM_SEND_MAX_ATTEMPTS - 1
Codes == Msgs \X Attempts
None == -1
Cap == AckWindow + BufferTTL + 1

VARIABLES
    pending,   \* _pending_acks: age of the entry of each code, or None
    buffered,  \* _buffered_acks: age of the entry of each code, or None
    acked,     \* messages.acked of each message's row
    inflight,  \* apply_dm_ack_code calls awaiting their database increment
    pc,        \* where the send request, then the retry task, of a message is
    att,       \* the attempt it makes or will make next
    timer,     \* what is left of the retry task's sleep
    onAir,     \* codes of the transmissions that left the radio
    heard,     \* codes whose ACK was heard
    rx,        \* ACK receptions so far
    reg,       \* observer: codes track_pending_ack was called for
    clk,       \* observer: age of the registration, or before it of the last ACK
    due        \* observer: codes whose ACK was heard within its window

tracker  == <<pending, buffered>>
task     == <<pc, att, timer>>
mesh     == <<onAir, heard, rx>>
observer == <<reg, clk, due>>
vars     == <<pending, buffered, acked, inflight, pc, att, timer, onAir, heard, rx,
              reg, clk, due>>

Ages == 0 .. Cap
PCs == {"idle", "sent", "stored", "incr", "waiting", "radio", "result", "track",
        "done", "failed"}

Init ==
    /\ pending = [c \in Codes |-> None]
    /\ buffered = [c \in Codes |-> None]
    /\ acked = [m \in Msgs |-> 0]
    /\ inflight = [m \in Msgs |-> 0]
    /\ pc = [m \in Msgs |-> "idle"]
    /\ att = [m \in Msgs |-> 0]
    /\ timer = [m \in Msgs |-> 0]
    /\ onAir = {}
    /\ heard = {}
    /\ rx = 0
    /\ reg = {}
    /\ clk = [c \in Codes |-> Cap]
    /\ due = {}

-----------------------------------------------------------------------------
(* dm_ack_tracker.py                                                        *)

\* cleanup_expired_acks, one of its two dictionaries
DropOlder(f, ttl) == [c \in Codes |-> IF f[c] > ttl THEN None ELSE f[c]]

\* mutant: the codes of every message are cleared
MutWithoutSiblings(f, m) == [c \in Codes |-> None]

\* clear_pending_acks_for_message
WithoutSiblings(f, m) == [c \in Codes |-> IF c[1] = m THEN None ELSE f[c]]

\* mutant: nothing expires
MutCleanup == UNCHANGED vars

\* cleanup_expired_acks, as the periodic sync task calls it
Cleanup ==
    /\ pending' = DropOlder(pending, AckWindow)
    /\ buffered' = DropOlder(buffered, BufferTTL)
    /\ UNCHANGED <<acked, inflight, task, mesh, observer>>

-----------------------------------------------------------------------------
(* dm_ack_apply.py: apply_dm_ack_code, up to the awaited increment          *)

\* What the observer notes when the ACK of c is heard.
Hear(c) ==
    /\ c \in onAir
    /\ rx < MaxHeard
    /\ heard' = heard \cup {c}
    /\ rx' = rx + 1
    /\ due' = IF c \in reg /\ clk[c] <= AckWindow THEN due \cup {c} ELSE due
    /\ clk' = IF c \in reg THEN clk ELSE [clk EXCEPT ![c] = 0]
    /\ UNCHANGED <<onAir, reg>>

\* mutant: the matched code stays pending
MutAckMatched(c) ==
    /\ Hear(c)
    /\ DropOlder(pending, AckWindow)[c] # None
    /\ pending' = DropOlder(pending, AckWindow)
    /\ buffered' = DropOlder(buffered, BufferTTL)
    /\ inflight' = [inflight EXCEPT ![c[1]] = @ + 1]
    /\ UNCHANGED <<acked, task>>

\* the code is pending: it is popped with its siblings, the increment is awaited
AckMatched(c) ==
    /\ Hear(c)
    /\ DropOlder(pending, AckWindow)[c] # None
    /\ pending' = WithoutSiblings(DropOlder(pending, AckWindow), c[1])
    /\ buffered' = DropOlder(buffered, BufferTTL)
    /\ inflight' = [inflight EXCEPT ![c[1]] = @ + 1]
    /\ UNCHANGED <<acked, task>>

\* no message waits for the code: the ACK is buffered for a late registration
AckUnmatched(c) ==
    /\ Hear(c)
    /\ DropOlder(pending, AckWindow)[c] = None
    /\ pending' = DropOlder(pending, AckWindow)
    /\ buffered' = [DropOlder(buffered, BufferTTL) EXCEPT ![c] = 0]
    /\ UNCHANGED <<acked, inflight, task>>

\* mutant: the increment is dropped
MutIncrementAck(m) ==
    /\ inflight[m] > 0
    /\ inflight' = [inflight EXCEPT ![m] = @ - 1]
    /\ UNCHANGED <<tracker, acked, task, mesh, observer>>

\* increment_ack_and_broadcast of an apply_dm_ack_code call commits
IncrementAck(m) ==
    /\ inflight[m] > 0
    /\ inflight' = [inflight EXCEPT ![m] = @ - 1]
    /\ acked' = [acked EXCEPT ![m] = @ + 1]
    /\ UNCHANGED <<tracker, task, mesh, observer>>

-----------------------------------------------------------------------------
(* message_send.py                                                          *)

\* track_pending_ack(code) called by the task of message c[1]
\* and what the observer notes of it
Register(c) ==
    /\ reg' = reg \cup {c}
    /\ due' = IF c \in heard /\ clk[c] <= BufferTTL THEN due \cup {c} ELSE due
    /\ clk' = [clk EXCEPT ![c] = 0]

\* _apply_direct_message_ack_tracking when the ACK came first: the siblings
\* are cleared and the increment is awaited
TrackMatched(c) ==
    /\ buffered[c] # None
    /\ buffered' = [buffered EXCEPT ![c] = None]
    /\ pending' = WithoutSiblings(pending, c[1])
    /\ pc' = [pc EXCEPT ![c[1]] = "incr"]
    /\ UNCHANGED <<att, timer>>
    /\ Register(c)

\* mutant: one attempt too many
MutNextAttempt(m, a) ==
    /\ att' = [att EXCEPT ![m] = a]
    /\ IF a <= DM_SEND_MAX_ATTEMPTS
       THEN /\ pc' = [pc EXCEPT ![m] = "waiting"]
            /\ timer' = [timer EXCEPT ![m] = RetryWait]
       ELSE /\ pc' = [pc EXCEPT ![m] = "done"]
            /\ timer' = timer

\* the loop head of _retry_direct_message_until_acked with attempt a
NextAttempt(m, a) ==
    /\ att' = [att EXCEPT ![m] = a]
    /\ IF a < DM_SEND_MAX_ATTEMPTS
       THEN /\ pc' = [pc EXCEPT ![m] = "waiting"]
            /\ timer' = [timer EXCEPT ![m] = RetryWait]
       ELSE /\ pc' = [pc EXCEPT ![m] = "done"]
            /\ timer' = timer

\* _apply_direct_message_ack_tracking when no ACK was heard yet
TrackPending(c) ==
    /\ buffered[c] = None
    /\ pending' = [pending EXCEPT ![c] = 0]
    /\ UNCHANGED buffered
    /\ NextAttempt(c[1], c[2] + 1)
    /\ Register(c)

\* send_msg of attempt a leaves the radio, or does not
Transmit(m, a, leaves) ==
    /\ onAir' = IF leaves THEN onAir \cup {<<m, a>>} ELSE onAir
    /\ UNCHANGED <<heard, rx>>

\* send_direct_message_to_contact: the radio takes the message
SendOk(m) ==
    /\ pc[m] = "idle"
    /\ Transmit(m, 0, TRUE)
    /\ pc' = [pc EXCEPT ![m] = "sent"]
    /\ UNCHANGED <<tracker, acked, inflight, att, timer, observer>>

\* No response, an error, or the radio went away: the request fails and no
\* row is stored, although the message may have been transmitted.
SendFails(m, leaves) ==
    /\ pc[m] = "idle"
    /\ Transmit(m, 0, leaves)
    /\ pc' = [pc EXCEPT ![m] = "failed"]
    /\ UNCHANGED <<tracker, acked, inflight, att, timer, observer>>

\* create_outgoing_direct_message, after the radio lock was released
StoreRow(m) ==
    /\ pc[m] = "sent"
    /\ pc' = [pc EXCEPT ![m] = "stored"]
    /\ UNCHANGED <<tracker, acked, inflight, att, timer, mesh, observer>>

\* the request registers its expected ACK and schedules the retry task
SendTracks(m) ==
    /\ pc[m] = "stored"
    /\ TrackMatched(<<m, 0>>) \/ TrackPending(<<m, 0>>)
    /\ UNCHANGED <<acked, inflight, mesh>>

\* the radio named no expected ACK: nothing to track and no retry task
SendUntracked(m) ==
    /\ pc[m] = "stored"
    /\ pc' = [pc EXCEPT ![m] = "done"]
    /\ UNCHANGED <<tracker, acked, inflight, att, timer, mesh, observer>>

\* increment_ack_and_broadcast awaited by the request or by the retry task
IncrementOwn(m) ==
    /\ pc[m] = "incr"
    /\ acked' = [acked EXCEPT ![m] = @ + 1]
    /\ pc' = [pc EXCEPT ![m] = "done"]
    /\ UNCHANGED <<tracker, inflight, att, timer, mesh, observer>>

\* the retry task wakes, _is_message_acked: it ends, or goes for the radio
RetryWakes(m) ==
    /\ pc[m] = "waiting"
    /\ timer[m] = 0
    /\ pc' = [pc EXCEPT ![m] = IF acked[m] > 0 THEN "done" ELSE "radio"]
    /\ UNCHANGED <<tracker, acked, inflight, att, timer, mesh, observer>>

\* the retry transmission is accepted by the radio
RetrySends(m) ==
    /\ pc[m] = "radio"
    /\ Transmit(m, att[m], TRUE)
    /\ pc' = [pc EXCEPT ![m] = "result"]
    /\ UNCHANGED <<tracker, acked, inflight, att, timer, observer>>

\* mutant: a failed attempt is not used up
MutRetryFails(m, leaves) ==
    /\ pc[m] = "radio"
    /\ Transmit(m, att[m], leaves)
    /\ NextAttempt(m, att[m])
    /\ UNCHANGED <<tracker, acked, inflight, observer>>

\* an exception, no response or an error: the attempt is used up
RetryFails(m, leaves) ==
    /\ pc[m] = "radio"
    /\ Transmit(m, att[m], leaves)
    /\ NextAttempt(m, att[m] + 1)
    /\ UNCHANGED <<tracker, acked, inflight, observer>>

\* the second _is_message_acked: what the read returned is acted on later,
\* when the coroutine is resumed (RetryTracks, RetryUntracked)
RetryRechecks(m) ==
    /\ pc[m] = "result"
    /\ pc' = [pc EXCEPT ![m] = IF acked[m] > 0 THEN "done" ELSE "track"]
    /\ UNCHANGED <<tracker, acked, inflight, att, timer, mesh, observer>>

RetryTracks(m) ==
    /\ pc[m] = "track"
    /\ TrackMatched(<<m, att[m]>>) \/ TrackPending(<<m, att[m]>>)
    /\ UNCHANGED <<acked, inflight, mesh>>

\* the radio named no expected ACK for the retry
RetryUntracked(m) ==
    /\ pc[m] = "track"
    /\ NextAttempt(m, att[m] + 1)
    /\ UNCHANGED <<tracker, acked, inflight, mesh, observer>>

-----------------------------------------------------------------------------

Older(f) == [c \in Codes |-> IF f[c] # None /\ f[c] < Cap THEN f[c] + 1 ELSE f[c]]

\* time passes
Tick ==
    /\ pending' = Older(pending)
    /\ buffered' = Older(buffered)
    /\ clk' = Older(clk)
    /\ timer' = [m \in Msgs |-> IF timer[m] > 0 THEN timer[m] - 1 ELSE 0]
    /\ UNCHANGED <<acked, inflight, pc, att, mesh, reg, due>>

\* the steps of the request and of the retry task of m
TaskStep(m) ==
    \/ SendOk(m) \/ StoreRow(m) \/ SendTracks(m) \/ SendUntracked(m)
    \/ IncrementOwn(m) \/ RetryWakes(m) \/ RetrySends(m) \/ RetryRechecks(m)
    \/ RetryTracks(m) \/ RetryUntracked(m)
    \/ \E leaves \in BOOLEAN : SendFails(m, leaves) \/ RetryFails(m, leaves)

Next ==
    \/ \E m \in Msgs : TaskStep(m) \/ IncrementAck(m)
    \/ \E c \in Codes : AckMatched(c) \/ AckUnmatched(c)
    \/ Cleanup
    \/ Tick

Spec == Init /\ [][Next]_vars

(* The event loop runs every task that is ready and time goes on; the       *)
(* periodic sync task runs Cleanup for ever.  Nothing is assumed of the     *)
(* mesh, nor of the user: SendOk and SendFails are never forced.            *)
Fairness ==
    /\ \A m \in Msgs : WF_vars(TaskStep(m) /\ pc[m] # "idle")
    /\ \A m \in Msgs : WF_vars(IncrementAck(m))
    /\ WF_vars(Cleanup)
    /\ WF_vars(Tick)

FairSpec == Spec /\ Fairness

-----------------------------------------------------------------------------
(* Properties                                                               *)

TypeOK ==
    /\ pending \in [Codes -> Ages \cup {None}]
    /\ buffered \in [Codes -> Ages \cup {None}]
    /\ acked \in [Msgs -> Nat]
    /\ inflight \in [Msgs -> Nat]
    /\ pc \in [Msgs -> PCs]
    /\ att \in [Msgs -> 0 .. DM_SEND_MAX_ATTEMPTS]
    /\ timer \in [Msgs -> 0 .. RetryWait]
    /\ onAir \subseteq Codes
    /\ heard \subseteq Codes
    /\ rx \in 0 .. MaxHeard
    /\ reg \subseteq Codes
    /\ clk \in [Codes -> Ages]
    /\ due \subseteq Codes

\* An ACK of m was counted, or its increment is on its way to the database.
Counted(m) == acked[m] > 0 \/ inflight[m] > 0 \/ pc[m] = "incr"

\* Increments of m made or under way.
Increments(m) == acked[m] + inflight[m] + IF pc[m] = "incr" THEN 1 ELSE 0

\* Codes of m that were registered, heard, and are no longer waited for.
Spent(m) == {a \in Attempts : /\ <<m, a>> \in reg
                              /\ <<m, a>> \in heard
                              /\ pending[<<m, a>>] = None}

(* No ACK is lost: one heard no later than 2 * suggested_timeout after its  *)
(* code was registered, or at most BUFFERED_ACK_TTL_SECONDS before it, is   *)
(* counted for its message, whatever the cleanup task and the ACKs of       *)
(* other messages did in between.                                           *)
DueAckCounted == \A c \in due : Counted(c[1])

(* An ACK that reaches the server by several routes (control frame, raw ACK *)
(* packet, PATH packet) is counted once: a message is never credited with   *)
(* more ACKs than it has distinct codes that were heard.                    *)
CountedOncePerCode == \A m \in Msgs : Increments(m) <= Cardinality(Spent(m))

(* Every tracked ACK code leaves the tracker: it is matched, cleared with a *)
(* sibling or expires, so _pending_acks does not grow for ever.             *)
PendingDrains == \A c \in Codes : pending[c] # None ~> pending[c] = None

(* The retry task of a message ends, by an ACK or by using up its attempts. *)
RetryEnds == \A m \in Msgs : pc[m] = "waiting" ~> pc[m] = "done"

(* An ACK heard within its window reaches the message's row.                *)
DueAckStored == \A c \in Codes : c \in due ~> acked[c[1]] > 0

-----------------------------------------------------------------------------
(* The inductive invariant behind DueAckCounted and CountedOncePerCode      *)

\* A task registers a code at most once: before the first registration there
\* is none, and the retry task has only registered earlier attempts.
AttemptInv ==
    \A m \in Msgs :
        /\ pc[m] \in {"idle", "sent", "stored"} =>
              \A a \in Attempts : <<m, a>> \notin reg
        /\ pc[m] \in {"waiting", "radio", "result", "track"} =>
              /\ att[m] \in Attempts
              /\ \A a \in Attempts : <<m, a>> \in reg => a < att[m]

\* What the tracker holds, told from the outside: a code missing from
\* _pending_acks was counted or is too old, an ACK missing from _buffered_acks
\* was consumed or is too old, and the ages are the true ones.
TrackerInv ==
    \A c \in Codes :
        /\ pending[c] # None => c \in reg /\ pending[c] = clk[c]
        /\ buffered[c] # None => c \in heard
        /\ c \in reg /\ pending[c] = None => Counted(c[1]) \/ clk[c] > AckWindow
        /\ c \notin reg /\ buffered[c] # None => buffered[c] = clk[c]
        /\ c \notin reg /\ c \in heard /\ buffered[c] = None => clk[c] > BufferTTL

DeliveryInv ==
    TypeOK /\ AttemptInv /\ TrackerInv /\ DueAckCounted /\ CountedOncePerCode

(* A DM should stop at ack_count = 1 even if retry ACK codes arrive later   *)
(* (tests/test_event_handlers.py).                                          *)
AckedAtMostOnce == \A m \in Msgs : acked[m] <= 1
=============================================================================
