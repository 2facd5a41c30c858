-------------------------- MODULE OutgoingTimestamps --------------------------
(***************************************************************************)
(* Sender timestamps of outgoing messages (app/services/message_send.py:   *)
(* allocate_outgoing_sender_timestamp, release_outgoing_sender_timestamp   *)
(* and the two sends that use them, send_direct_message_to_contact and     *)
(* send_channel_message_to_channel; a resend with a new timestamp is a     *)
(* channel send).                                                          *)
(*                                                                         *)
(* Reservations are kept per (type, conversation, text).  Keys do not      *)
(* interact, so the module has one: Sends are the requests with that key.  *)
(* An allocation awaits between the reservation check, the database lookup *)
(* and the reservation itself, and a direct message is stored after the    *)
(* radio lock was released.  The requests are not assumed to be paced.     *)
(***************************************************************************)
EXTENDS Integers, FiniteSets

CONSTANTS
    Sends,     \* send requests with the same text and conversation
    NoSend,    \* the radio lock is free
    MaxNow     \* bound: time.time() of a request, and of incoming rows

ASSUME NoSendAssumption == NoSend \notin Sends
ASSUME MaxNowAssumption == MaxNow \in Nat

Now == 0 .. MaxNow

VARIABLES
    direct,    \* the key is of type PRIV (else CHAN)
    lock,      \* holder of the radio operation lock
    reserved,  \* _pending_outgoing_timestamp_reservations of the key
    rows,      \* <<send, sender_timestamp>> of the outgoing rows of the key
    incoming,  \* sender_timestamp of the incoming rows of the key
    step,      \* step of each request
    cand,      \* its candidate, then its sender_timestamp
    accepted   \* requests the radio accepted, unless cancelled before the row

stampVars == <<direct, lock, reserved, rows, incoming, step, cand, accepted>>

\* sender_timestamps of the rows that get_by_content can find
Stored == {r[2] : r \in rows} \cup incoming

StampInit ==
    /\ direct \in BOOLEAN
    /\ lock = NoSend
    /\ reserved = {} /\ rows = {} /\ incoming = {}
    /\ step = [s \in Sends |-> "idle"]
    /\ cand = [s \in Sends |-> 0]
    /\ accepted = {}

Goto(s, next) == step' = [step EXCEPT ![s] = next]

-----------------------------------------------------------------------------
(* allocate_outgoing_sender_timestamp, inside the radio operation           *)

\* mutant: the timestamp is allocated outside the radio lock
MutBegin(s) ==
    /\ step[s] = "idle"
    /\ \E now \in Now : cand' = [cand EXCEPT ![s] = now]
    /\ Goto(s, "check")
    /\ UNCHANGED <<direct, lock, reserved, rows, incoming, accepted>>

\* the radio lock is acquired and the clock is read
Begin(s) ==
    /\ step[s] = "idle" /\ lock = NoSend
    /\ lock' = s
    /\ \E now \in Now : cand' = [cand EXCEPT ![s] = now]
    /\ Goto(s, "check")
    /\ UNCHANGED <<direct, reserved, rows, incoming, accepted>>

\* mutant: the candidate goes down
MutBump(s) == cand' = [cand EXCEPT ![s] = @ - 1] /\ Goto(s, "check")

\* candidate += 1; continue
Bump(s) == cand' = [cand EXCEPT ![s] = @ + 1] /\ Goto(s, "check")

Advance(s, next) == Goto(s, next) /\ UNCHANGED cand

\* the first look at the reservations
CheckReserved(s) ==
    /\ step[s] = "check"
    /\ IF cand[s] \in reserved THEN Bump(s) ELSE Advance(s, "lookup")
    /\ UNCHANGED <<direct, lock, reserved, rows, incoming, accepted>>

\* mutant: the database is not asked
MutLookup(s) ==
    /\ step[s] = "lookup"
    /\ Advance(s, "reserve")
    /\ UNCHANGED <<direct, lock, reserved, rows, incoming, accepted>>

\* mutant: a taken candidate is tried again
MutLookupRetries(s) ==
    /\ step[s] = "lookup"
    /\ IF cand[s] \in Stored THEN Advance(s, "check") ELSE Advance(s, "reserve")
    /\ UNCHANGED <<direct, lock, reserved, rows, incoming, accepted>>

\* get_by_content; the task acts on the answer in a later step
Lookup(s) ==
    /\ step[s] = "lookup"
    /\ IF cand[s] \in Stored THEN Bump(s) ELSE Advance(s, "reserve")
    /\ UNCHANGED <<direct, lock, reserved, rows, incoming, accepted>>

\* the second look, and the reservation; a channel message is stored before
\* it is sent, a direct message after
Reserve(s) ==
    /\ step[s] = "reserve"
    /\ IF cand[s] \in reserved
       THEN Bump(s) /\ UNCHANGED reserved
       ELSE /\ Advance(s, IF direct THEN "send" ELSE "store")
            /\ reserved' = reserved \cup {cand[s]}
    /\ UNCHANGED <<direct, lock, rows, incoming, accepted>>

-----------------------------------------------------------------------------
(* The send                                                                 *)

\* create_outgoing_channel_message: the unique index of channel messages
\* refuses a second row, and the request fails before anything is sent
StoreChannel(s) ==
    /\ ~direct /\ step[s] = "store"
    /\ IF cand[s] \in Stored
       THEN /\ Advance(s, "release") /\ lock' = NoSend /\ UNCHANGED rows
       ELSE /\ Advance(s, "send") /\ rows' = rows \cup {<<s, cand[s]>>} /\ UNCHANGED lock
    /\ UNCHANGED <<direct, reserved, incoming, accepted>>

\* the radio accepts the message and the radio lock is released
SendAccepted(s) ==
    /\ step[s] = "send"
    /\ accepted' = accepted \cup {s}
    /\ lock' = NoSend
    /\ Advance(s, IF direct THEN "store" ELSE "release")
    /\ UNCHANGED <<direct, reserved, rows, incoming>>

\* an error, no response, or an exception: a channel message's row is deleted
SendFails(s) ==
    /\ step[s] = "send"
    /\ lock' = NoSend
    /\ Advance(s, IF direct THEN "release" ELSE "delete")
    /\ UNCHANGED <<direct, reserved, rows, incoming, accepted>>

\* create_outgoing_direct_message: no index covers outgoing direct messages
StoreDirect(s) ==
    /\ direct /\ step[s] = "store"
    /\ rows' = rows \cup {<<s, cand[s]>>}
    /\ Advance(s, "release")
    /\ UNCHANGED <<direct, lock, reserved, incoming, accepted>>

\* mutant: a failed send keeps its reservation
MutDeleteRow(s) ==
    /\ step[s] = "delete"
    /\ rows' = rows \ {<<s, cand[s]>>}
    /\ Advance(s, "done")
    /\ UNCHANGED <<direct, lock, reserved, incoming, accepted>>

\* delete_by_id in the handler of a failed channel send
DeleteRow(s) ==
    /\ step[s] = "delete"
    /\ rows' = rows \ {<<s, cand[s]>>}
    /\ Advance(s, "release")
    /\ UNCHANGED <<direct, lock, reserved, incoming, accepted>>

\* release_outgoing_sender_timestamp in the finally clause
Release(s) ==
    /\ step[s] = "release"
    /\ reserved' = reserved \ {cand[s]}
    /\ Advance(s, "done")
    /\ UNCHANGED <<direct, lock, rows, incoming, accepted>>

\* What the database holds after a write of s that was awaited when the task
\* was cancelled: the write was made or not.
RowsAfterCancel(s, made) ==
    CASE step[s] = "store" /\ made /\ (direct \/ cand[s] \notin Stored) -> rows \cup {<<s, cand[s]>>}
      [] step[s] = "delete" /\ made -> rows \ {<<s, cand[s]>>}
      [] OTHER -> rows

\* The task is cancelled while it awaits.  Before the allocation returned
\* there is nothing to release; afterwards the finally clause releases the
\* reservation.  CancelledError is not an Exception: a channel row stays.
Cancel(s, made) ==
    /\ step[s] \in {"check", "lookup", "reserve", "store", "send", "delete"}
    /\ Advance(s, IF step[s] \in {"check", "lookup", "reserve"} THEN "done" ELSE "release")
    /\ lock' = IF lock = s THEN NoSend ELSE lock
    /\ rows' = RowsAfterCancel(s, made)
    /\ accepted' = IF <<s, cand[s]>> \in rows' THEN accepted ELSE accepted \ {s}
    /\ UNCHANGED <<direct, reserved, incoming>>

\* An incoming message of the key is stored: for a channel, an echo of a send
\* whose row was deleted or a message of a namesake, unless a row has it
IncomingRow(t) ==
    /\ direct \/ t \notin Stored
    /\ incoming' = incoming \cup {t}
    /\ UNCHANGED <<direct, lock, reserved, rows, step, cand, accepted>>

SendStep(s) ==
    \/ CheckReserved(s) \/ Lookup(s) \/ Reserve(s)
    \/ StoreChannel(s) \/ SendAccepted(s) \/ SendFails(s)
    \/ StoreDirect(s) \/ DeleteRow(s) \/ Release(s)

StampNext ==
    \/ \E s \in Sends : Begin(s) \/ SendStep(s)
    \/ \E s \in Sends, made \in BOOLEAN : Cancel(s, made)
    \/ \E t \in Now : IncomingRow(t)

StampSpec == StampInit /\ [][StampNext]_stampVars

(* The event loop runs a task whose await completed; radio commands end, by *)
(* an answer or by the client library's timeout.                            *)
FairStampSpec == StampSpec /\ \A s \in Sends : WF_stampVars(SendStep(s))

-----------------------------------------------------------------------------
(* Properties                                                               *)

Steps == {"idle", "check", "lookup", "reserve", "store", "send", "delete", "release", "done"}
\* the request holds a reservation
Holding == {"store", "send", "delete", "release"}

StampTypeOK ==
    /\ direct \in BOOLEAN
    /\ lock \in Sends \cup {NoSend}
    /\ reserved \subseteq Nat
    /\ rows \subseteq Sends \X Nat
    /\ incoming \subseteq Nat
    /\ step \in [Sends -> Steps]
    /\ cand \in [Sends -> Nat]
    /\ accepted \subseteq Sends

(* Two rows of outgoing messages never have the same text, conversation and *)
(* timestamp, although for direct messages no index of the database forbids *)
(* it and their rows are stored after the radio lock was released.          *)
RowsDistinct == \A q, r \in rows : q[2] = r[2] => q = r

(* A reservation belongs to exactly one request under way: none is shared   *)
(* by two requests, and none stays behind when its request fails or is      *)
(* cancelled.                                                               *)
ReservedByOne ==
    \A t \in reserved :
        \E s \in Sends : /\ step[s] \in Holding /\ cand[s] = t
                         /\ \A u \in Sends \ {s} : step[u] \in Holding => cand[u] # t

\* the timestamp of each accepted send
Stamp == [s \in Sends |-> IF s \in accepted THEN cand[s] ELSE -1]

Stamps == INSTANCE UniqueStamps WITH stamp <- Stamp

(* The timestamps of accepted sends are owned for good: no later send of    *)
(* the text, in whatever order the requests check, look up, store and       *)
(* release, is accepted with a timestamp that an accepted send has.         *)
StampsUnique == Stamps!Spec

(* The search for a free timestamp ends, and with it the request.           *)
SendEnds == \A s \in Sends : step[s] = "check" ~> step[s] = "done"

-----------------------------------------------------------------------------
(* The inductive invariant behind the properties                            *)

\* From the clock reading to the send (for a channel, the row included) the
\* request holds the radio lock.
LockInv ==
    \A s \in Sends :
        step[s] \in {"check", "lookup", "reserve", "send"} \/ (step[s] = "store" /\ ~direct)
            => lock = s

\* A candidate that was found free stays free until it is reserved, because
\* the requests without the radio lock only give up reservations, and store
\* rows with timestamps they reserved.
FreeInv ==
    \A s \in Sends :
        /\ step[s] \in {"lookup", "reserve"} => cand[s] \notin reserved
        /\ step[s] = "reserve" => \A r \in rows : r[2] # cand[s]

\* A reserved timestamp is in nobody else's hands and in nobody else's row.
HoldInv ==
    \A s \in Sends : step[s] \in Holding =>
        /\ cand[s] \in reserved
        /\ \A u \in Sends \ {s} : step[u] \in Holding => cand[u] # cand[s]
        /\ \A r \in rows : r[2] = cand[s] => r[1] = s

\* A channel message has its row before it is sent.
RowFirst == \A s \in Sends : step[s] = "send" /\ ~direct => <<s, cand[s]>> \in rows

\* An accepted send has its row, or is a direct message about to store it.
AcceptedInv ==
    \A s \in accepted :
        \/ step[s] = "store" /\ direct
        \/ step[s] \in {"release", "done"} /\ <<s, cand[s]>> \in rows

StampInv ==
    /\ StampTypeOK /\ LockInv /\ FreeInv /\ HoldInv /\ RowFirst /\ AcceptedInv
    /\ RowsDistinct /\ ReservedByOne
=============================================================================
