----------------------------- MODULE UniqueStamps -----------------------------
(***************************************************************************)
(* What allocate_outgoing_sender_timestamp promises for the sends of one   *)
(* text in one conversation: a send that the radio accepted owns its       *)
(* timestamp for good.  A MeshCore packet is identified by its contents,   *)
(* so two sends of the same text in the same second would be one packet to *)
(* every repeater, and one row to the message store.                       *)
(***************************************************************************)
EXTENDS Integers

CONSTANT Sends   \* send requests with the same text and conversation

VARIABLE stamp   \* timestamp of each accepted send, or NoStamp

NoStamp == -1
Owned == {stamp[s] : s \in Sends} \ {NoStamp}

Init == stamp = [s \in Sends |-> NoStamp]

\* the radio accepts s with a timestamp that no other accepted send has
Take(s) ==
    /\ stamp[s] = NoStamp
    /\ stamp'[s] \in Nat \ Owned
    /\ stamp' = [stamp EXCEPT ![s] = stamp'[s]]

\* an accepted send is cancelled before its row is stored
Abandon(s) ==
    /\ stamp[s] # NoStamp
    /\ stamp' = [stamp EXCEPT ![s] = NoStamp]

Next == \E s \in Sends : Take(s) \/ Abandon(s)

Spec == Init /\ [][Next]_stamp
=============================================================================
