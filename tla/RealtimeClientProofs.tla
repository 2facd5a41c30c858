-------------------------- MODULE RealtimeClientProofs --------------------------
(***************************************************************************)
(* Proofs about RealtimeClient: the messages a user sends reach the server *)
(* in the order typed (SendInv); rows stay in their conversation, are seen *)
(* when shown and keep the ACKs buffered for them (ServerInv, ListInv);    *)
(* the spinner is owed to a page in flight (SpinnerInv).  Each invariant   *)
(* has one lemma per action that can disturb it, and one for the actions   *)
(* that leave its variables alone.                                         *)
(***************************************************************************)
EXTENDS RealtimeClient, SequenceTheorems, TLAPS

sendVars == <<db, sends, typed>>

LEMMA SendsKept ==
    ASSUME SendInv, UNCHANGED sendVars
    PROVE  SendInv'
BY DEF SendInv, SendTypes, TypedBound, QueueInOrder, OnlyFirstSent, WaitingIsNewer, SendsInOrder,
       Stored, sendVars

-----------------------------------------------------------------------------
(* The server                                                               *)

LEMMA KeyNowFact ==
    ASSUME NEW c \in Convs
    PROVE  KeyNow(c) \in Convs
BY ClientBounds DEF KeyNow

LEMMA RowFields ==
    ASSUME NEW row \in DbRow
    PROVE  row.by \in Nat /\ row.ack \in Nat
BY DEF DbRow

LEMMA RowsFields ==
    ASSUME SendInv
    PROVE  /\ \A i \in DOMAIN db : db[i] \in DbRow /\ db[i].by \in Nat
           /\ \A k \in DOMAIN sends : sends[k] \in Send /\ sends[k].by \in Nat
<1>1. db \in Seq(DbRow) /\ sends \in Seq(Send)
  BY DEF SendInv, SendTypes
<1>2. \A i \in DOMAIN db : db[i] \in DbRow
  BY <1>1
<1>3. \A k \in DOMAIN sends : sends[k] \in Send
  BY <1>1
<1>4. \A send \in Send : send.by \in Nat
  BY DEF Send
<1> QED
  BY <1>2, <1>3, <1>4, RowFields

\* A row is added: nobody's, or that of the send that is newer than all rows.
LEMMA RowAdded ==
    ASSUME SendInv, NEW row \in DbRow, db' = Append(db, row), row.by <= typed,
           row.by # 0 => \A i \in DOMAIN db : db[i].by < row.by
    PROVE  /\ db' \in Seq(DbRow) /\ \A i \in DOMAIN db' : db'[i].by <= typed
           /\ SendsInOrder'
           /\ \A i \in DOMAIN db' : (i \in DOMAIN db /\ db'[i] = db[i]) \/ db'[i] = row
<1>1. /\ db \in Seq(DbRow) /\ SendsInOrder /\ typed \in Nat
      /\ \A i \in DOMAIN db : db[i].by <= typed
  BY DEF SendInv, SendTypes, TypedBound
<1>2. db' \in Seq(DbRow) /\ Len(db') = Len(db) + 1 /\ Len(db) \in Nat
  BY <1>1
<1>3. /\ DOMAIN db = 1..Len(db) /\ DOMAIN db' = 1..(Len(db) + 1)
      /\ \A i \in DOMAIN db : db'[i] = db[i]
      /\ db'[Len(db) + 1] = row
  BY <1>1, <1>2
<1>4. \A i \in DOMAIN db' : (i \in DOMAIN db /\ db'[i] = db[i]) \/ (i = Len(db) + 1 /\ db'[i] = row)
  BY <1>2, <1>3
<1>5. \A i \in DOMAIN db : db[i].by \in Nat
  BY RowsFields
<1>6. row.by \in Nat
  BY DEF DbRow
<1>7. SendsInOrder'
  <2> SUFFICES ASSUME NEW i \in DOMAIN db', NEW j \in DOMAIN db', i < j, db'[i].by # 0, db'[j].by # 0
               PROVE  db'[i].by < db'[j].by
    BY DEF SendsInOrder, Stored
  <2>1. i \in DOMAIN db /\ db'[i] = db[i]
    BY <1>2, <1>3, <1>4
  <2>2. CASE j \in DOMAIN db /\ db'[j] = db[j]
    BY <1>1, <2>1, <2>2 DEF SendsInOrder, Stored
  <2>3. CASE db'[j] = row
    BY <2>1, <2>3
  <2> QED
    BY <1>4, <2>2, <2>3
<1> QED
  BY <1>1, <1>2, <1>4, <1>7

LEMMA StoredStep ==
    ASSUME SendInv, NEW c \in Convs, MessageStored(c)
    PROVE  SendInv'
<1> DEFINE row == [k |-> c, c |-> c, ack |-> 0, by |-> 0]
<1>1. row \in DbRow /\ row.by = 0
  BY DEF DbRow
<1>2. db' = Append(db, row) /\ sends' = sends /\ typed' = typed /\ typed \in Nat
  BY DEF MessageStored, SendInv, SendTypes
<1> HIDE DEF row
<1>3. /\ db' \in Seq(DbRow) /\ \A i \in DOMAIN db' : db'[i].by <= typed
      /\ SendsInOrder'
      /\ \A i \in DOMAIN db' : (i \in DOMAIN db /\ db'[i] = db[i]) \/ db'[i] = row
  BY <1>1, <1>2, RowAdded
<1>4. WaitingIsNewer'
  BY <1>1, <1>2, <1>3 DEF SendInv, WaitingIsNewer, TypedBound
<1> QED
  BY <1>2, <1>3, <1>4 DEF SendInv, SendTypes, TypedBound, QueueInOrder, OnlyFirstSent

\* The rows change, not what they are of: an ACK is counted, a key learned.
LEMMA RowsRewritten ==
    ASSUME SendInv, db' \in Seq(DbRow), DOMAIN db' = DOMAIN db, sends' = sends, typed' = typed,
           \A i \in DOMAIN db : db'[i].by = db[i].by
    PROVE  SendInv'
BY DEF SendInv, SendTypes, TypedBound, QueueInOrder, OnlyFirstSent, WaitingIsNewer, SendsInOrder, Stored

LEMMA AckStep ==
    ASSUME SendInv, NEW i \in Stored, AckStored(i)
    PROVE  SendInv'
<1>1. db \in Seq(DbRow) /\ i \in DOMAIN db /\ db[i] \in DbRow
  BY DEF SendInv, SendTypes, Stored
<1>2. db' = [db EXCEPT ![i].ack = @ + 1] /\ sends' = sends /\ typed' = typed
  BY DEF AckStored
<1> DEFINE row == [db[i] EXCEPT !.ack = @ + 1]
<1>3. row \in DbRow /\ row.by = db[i].by
  <2>1. db[i].ack + 1 \in Nat
    BY <1>1, RowFields
  <2>2. \A r \in DbRow, n \in Nat : [r EXCEPT !.ack = n] \in DbRow /\ [r EXCEPT !.ack = n].by = r.by
    BY DEF DbRow
  <2> QED
    BY <1>1, <2>1, <2>2
<1>4. db' = [db EXCEPT ![i] = row]
  BY <1>2
<1> HIDE DEF row
<1>5. /\ db' \in Seq(DbRow) /\ DOMAIN db' = DOMAIN db
      /\ \A j \in DOMAIN db : db'[j].by = db[j].by
  BY <1>1, <1>3, <1>4
<1> QED
  BY <1>2, <1>5, RowsRewritten

LEMMA ResolvedStep ==
    ASSUME SendInv, ContactResolved
    PROVE  SendInv'
<1>1. db \in Seq(DbRow)
  BY DEF SendInv, SendTypes
<1>2. /\ db' = [i \in DOMAIN db |-> IF db[i].c = Prefix THEN [db[i] EXCEPT !.c = Full] ELSE db[i]]
      /\ sends' = sends /\ typed' = typed
  BY DEF ContactResolved, Stored
<1>3. Full \in Convs
  BY ClientBounds
<1>4. \A row \in DbRow : [row EXCEPT !.c = Full] \in DbRow /\ [row EXCEPT !.c = Full].by = row.by
  BY <1>3 DEF DbRow
<1>5. DOMAIN db' = DOMAIN db /\ \A i \in DOMAIN db : db'[i] \in DbRow /\ db'[i].by = db[i].by
  BY <1>1, <1>2, <1>4
<1>6. db' \in Seq(DbRow)
  <2>1. DOMAIN db = 1..Len(db) /\ Len(db) \in Nat
    BY <1>1
  <2>2. db' \in [1..Len(db) -> DbRow]
    BY <1>2, <1>5, <2>1
  <2> QED
    BY <2>1, <2>2
<1> QED
  BY <1>2, <1>5, <1>6, RowsRewritten

-----------------------------------------------------------------------------
(* The sends                                                                *)

LEMMA TypeStep ==
    ASSUME SendInv, HandleSendMessage
    PROVE  SendInv'
<1> DEFINE new == [by |-> typed + 1, c |-> active.id, i |-> 0]
<1>1. /\ db \in Seq(DbRow) /\ sends \in Seq(Send) /\ typed \in Nat
      /\ TypedBound /\ QueueInOrder /\ OnlyFirstSent /\ WaitingIsNewer /\ SendsInOrder
  BY DEF SendInv, SendTypes
<1>2. new \in Send /\ new.by = typed + 1 /\ new.i = 0
  BY <1>1 DEF HandleSendMessage, IsMessageConversation, Send
<1>3. sends' = Append(sends, new) /\ typed' = typed + 1 /\ db' = db
  BY DEF HandleSendMessage
<1> HIDE DEF new
<1>4. /\ sends' \in Seq(Send) /\ Len(sends) \in Nat
      /\ DOMAIN sends = 1..Len(sends) /\ DOMAIN sends' = 1..(Len(sends) + 1)
      /\ \A k \in DOMAIN sends : sends'[k] = sends[k]
      /\ sends'[Len(sends) + 1] = new
  BY <1>1, <1>2, <1>3
<1>5. \A k \in DOMAIN sends' : \/ k \in DOMAIN sends /\ sends'[k] = sends[k]
                               \/ k = Len(sends) + 1 /\ sends'[k] = new
  BY <1>4
<1>6. \A k \in DOMAIN sends : sends[k].by \in Nat
  BY RowsFields
<1>7. \A i \in DOMAIN db : db[i].by \in Nat
  BY RowsFields
<1>8. TypedBound'
  BY <1>1, <1>2, <1>3, <1>5, <1>6, <1>7 DEF TypedBound
<1>9. QueueInOrder'
  BY <1>1, <1>2, <1>4, <1>5, <1>6 DEF TypedBound, QueueInOrder
<1>10. OnlyFirstSent'
  BY <1>1, <1>2, <1>5 DEF OnlyFirstSent
<1>11. WaitingIsNewer'
  BY <1>1, <1>2, <1>3, <1>5, <1>7 DEF TypedBound, WaitingIsNewer
<1>12. SendTypes' /\ SendsInOrder'
  BY <1>1, <1>3, <1>4 DEF SendTypes, SendsInOrder, Stored
<1> QED
  BY <1>8, <1>9, <1>10, <1>11, <1>12 DEF SendInv

LEMMA AcceptStep ==
    ASSUME SendInv, NEW k \in DOMAIN sends, ServerAccepts(k)
    PROVE  SendInv'
<1> DEFINE row == [k |-> sends[k].c, c |-> KeyNow(sends[k].c), ack |-> 0, by |-> sends[k].by]
           sent == [sends[k] EXCEPT !.i = Len(db) + 1]
<1>1. /\ db \in Seq(DbRow) /\ sends \in Seq(Send) /\ typed \in Nat
      /\ TypedBound /\ QueueInOrder /\ OnlyFirstSent /\ WaitingIsNewer /\ SendsInOrder
  BY DEF SendInv, SendTypes
<1>2. k = 1 /\ sends[k].i = 0 /\ sends[k] \in Send /\ Len(db) \in Nat
  BY <1>1 DEF ServerAccepts, InFlight
<1>3. row \in DbRow /\ row.by = sends[k].by
  BY <1>2, KeyNowFact DEF Send, DbRow
<1>4. sent \in Send /\ sent.by = sends[k].by /\ sent.i # 0
  BY <1>2 DEF Send
<1>5. db' = Append(db, row) /\ sends' = [sends EXCEPT ![k] = sent] /\ typed' = typed
  BY DEF ServerAccepts
<1> HIDE DEF row, sent
<1>6. row.by <= typed /\ \A i \in DOMAIN db : db[i].by < row.by
  BY <1>1, <1>2, <1>3 DEF TypedBound, WaitingIsNewer
<1>7. /\ db' \in Seq(DbRow) /\ \A i \in DOMAIN db' : db'[i].by <= typed
      /\ SendsInOrder'
      /\ \A i \in DOMAIN db' : (i \in DOMAIN db /\ db'[i] = db[i]) \/ db'[i] = row
  BY <1>3, <1>5, <1>6, RowAdded
<1>8. /\ sends' \in Seq(Send) /\ DOMAIN sends' = DOMAIN sends /\ DOMAIN sends \subseteq Nat
      /\ sends'[1] = sent
      /\ \A j \in DOMAIN sends : j # 1 => sends'[j] = sends[j]
      /\ \A j \in DOMAIN sends : sends'[j].by = sends[j].by
  BY <1>1, <1>2, <1>4, <1>5
<1>9. TypedBound' /\ QueueInOrder' /\ OnlyFirstSent'
  BY <1>1, <1>5, <1>7, <1>8 DEF TypedBound, QueueInOrder, OnlyFirstSent
<1>10. WaitingIsNewer'
  <2> SUFFICES ASSUME NEW j \in DOMAIN sends', NEW i \in DOMAIN db', sends'[j].i = 0
               PROVE  db'[i].by < sends'[j].by
    BY DEF WaitingIsNewer
  <2>1. j \in DOMAIN sends /\ j # 1 /\ sends'[j] = sends[j] /\ sends[1].by < sends[j].by
    <3>1. j \in DOMAIN sends /\ j # 1 /\ sends'[j] = sends[j]
      BY <1>4, <1>8
    <3>2. 1 < j /\ 1 \in DOMAIN sends
      BY <1>1, <1>2, <3>1
    <3> QED
      BY <1>1, <3>1, <3>2 DEF QueueInOrder
  <2>2. CASE i \in DOMAIN db /\ db'[i] = db[i]
    BY <1>1, <2>1, <2>2 DEF WaitingIsNewer
  <2>3. CASE db'[i] = row
    BY <1>2, <1>3, <2>1, <2>3
  <2> QED
    BY <1>7, <2>2, <2>3
<1> QED
  BY <1>1, <1>5, <1>7, <1>8, <1>9, <1>10 DEF SendInv, SendTypes

\* The first send of the chain has ended, well or badly.
LEMMA FirstEnds ==
    ASSUME SendInv, sends # <<>>, sends' = Tail(sends), db' = db, typed' = typed
    PROVE  SendInv'
<1>1. /\ db \in Seq(DbRow) /\ sends \in Seq(Send) /\ typed \in Nat
      /\ TypedBound /\ QueueInOrder /\ OnlyFirstSent /\ WaitingIsNewer /\ SendsInOrder
  BY DEF SendInv, SendTypes
<1>2. /\ sends' \in Seq(Send) /\ Len(sends) \in Nat /\ DOMAIN sends = 1..Len(sends)
      /\ DOMAIN sends' = 1..(Len(sends) - 1)
      /\ \A k \in DOMAIN sends' : k + 1 \in DOMAIN sends /\ k + 1 # 1 /\ sends'[k] = sends[k + 1]
  BY <1>1
<1>3. TypedBound' /\ OnlyFirstSent' /\ WaitingIsNewer'
  BY <1>1, <1>2 DEF TypedBound, OnlyFirstSent, WaitingIsNewer
<1>4. QueueInOrder'
  BY <1>1, <1>2 DEF QueueInOrder
<1> QED
  BY <1>1, <1>2, <1>3, <1>4 DEF SendInv, SendTypes, SendsInOrder, Stored

-----------------------------------------------------------------------------
(* The theorems                                                             *)

LEMMA NextStep ==
    ASSUME SendInv, Next
    PROVE  SendInv'
<1>1. CASE React \/ Answer \/ Browse
  BY <1>1, SendsKept DEF React, Answer, Browse, envVars, sendVars
<1>2. CASE Failure \/ TargetReached \/ ToggleBlocked
  BY <1>2, SendsKept DEF Failure, TargetReached, ToggleBlocked, envVars, sendVars
<1>3. CASE \E r \in reqs : ServerReads(r)
  BY <1>3, SendsKept DEF ServerReads, envVars, sendVars
<1>4. CASE SocketOpens \/ SocketCloses \/ ReconnectTimer
  BY <1>4, SendsKept DEF SocketOpens, SocketCloses, ReconnectTimer, sendVars
<1>5. CASE OnMessage \/ OnMessageAcked \/ OnContactResolved
  BY <1>5, SendsKept DEF OnMessage, OnMessageAcked, OnContactResolved, sendVars
<1>6. CASE \E c \in Convs \cup {"view"} : SelectConversation(c)
  BY <1>6, SendsKept DEF SelectConversation, sendVars
<1>7. CASE \E i \in Stored : AckStored(i) \/ OpenAtMessage(i)
  BY <1>7, AckStep, SendsKept DEF OpenAtMessage, sendVars
<1>8. CASE SendReturns \/ SendFails
  BY <1>8, FirstEnds DEF SendReturns, SendFails
<1> QED
  BY <1>1, <1>2, <1>3, <1>4, <1>5, <1>6, <1>7, <1>8, StoredStep, ResolvedStep, TypeStep, AcceptStep DEF Next

(* SendInv holds in every reachable state, for any conversations and        *)
(* whatever the bounds.                                                     *)
THEOREM SendInvariance == Spec => []SendInv
<1>1. Init => SendInv
  BY DEF Init, SendInv, SendTypes, TypedBound, QueueInOrder, OnlyFirstSent, WaitingIsNewer, SendsInOrder, Stored
<1>2. SendInv /\ [Next]_vars => SendInv'
  BY NextStep, SendsKept DEF vars, envVars, sendVars
<1> QED
  BY <1>1, <1>2, PTL DEF Spec

(* A user's messages are stored in the order typed, although sends fail,    *)
(* answers are lost and conversations change between them                   *)
(* (handleSendMessage chains each send to the one before it).               *)
THEOREM MessagesSentInOrder == Spec => []SendsInOrder
<1>1. SendInv => SendsInOrder
  BY DEF SendInv
<1> QED
  BY <1>1, SendInvariance, PTL

-----------------------------------------------------------------------------
(* Lists of messages, as functions from ids to ACK counts                   *)

LEMMA RowSetFact ==
    ASSUME NEW f
    PROVE  f \in RowSet <=> /\ f = [i \in DOMAIN f |-> f[i]]
                            /\ DOMAIN f \subseteq Ids /\ \A i \in DOMAIN f : f[i] \in Nat
BY DEF RowSet

LEMMA EmptyRows == Empty \in RowSet /\ DOMAIN Empty = {}
BY RowSetFact DEF Empty

LEMMA RowFact ==
    ASSUME NEW i \in Ids, NEW n \in Nat
    PROVE  Row(i, n) \in RowSet /\ DOMAIN Row(i, n) = {i} /\ Row(i, n)[i] = n
BY RowSetFact DEF Row

LEMMA OverFact ==
    ASSUME NEW f \in RowSet, NEW g \in RowSet
    PROVE  /\ Over(f, g) \in RowSet /\ DOMAIN Over(f, g) = DOMAIN f \cup DOMAIN g
           /\ \A i \in DOMAIN f : Over(f, g)[i] = f[i]
           /\ \A i \in DOMAIN g \ DOMAIN f : Over(f, g)[i] = g[i]
BY RowSetFact DEF Over

LEMMA AtFact ==
    ASSUME NEW f \in RowSet, NEW S, S \subseteq DOMAIN f
    PROVE  At(f, S) \in RowSet /\ DOMAIN At(f, S) = S /\ \A i \in S : At(f, S)[i] = f[i]
BY RowSetFact DEF At

LEMMA AckFact ==
    ASSUME NEW f \in RowSet, NEW i, NEW n \in Nat
    PROVE  LET g == [f EXCEPT ![i] = IF n > @ THEN n ELSE @]
           IN  /\ g \in RowSet /\ DOMAIN g = DOMAIN f
               /\ \A j \in DOMAIN f : g[j] >= f[j]
               /\ i \in DOMAIN f => g[i] >= n
BY RowSetFact

-----------------------------------------------------------------------------
LEMMA GoodNatural ==
    ASSUME NEW f, NEW c, NEW p, GoodRows(f, c, p)
    PROVE  \A i \in DOMAIN f : f[i] \in Nat
BY RowSetFact DEF GoodRows

LEMMA GoodEmpty ==
    ASSUME NEW c, NEW p
    PROVE  GoodRows(Empty, c, p)
BY EmptyRows DEF GoodRows

LEMMA GoodWithLess ==
    ASSUME NEW f, NEW c, NEW p, NEW q, GoodRows(f, c, p),
           \A i \in DOMAIN f \cap DOMAIN q : i \in DOMAIN p /\ q[i] = p[i]
    PROVE  GoodRows(f, c, q)
BY DEF GoodRows

LEMMA GoodOver ==
    ASSUME NEW f, NEW g, NEW c, NEW p, GoodRows(f, c, p), GoodRows(g, c, p)
    PROVE  GoodRows(Over(f, g), c, p)
<1>1. f \in RowSet /\ g \in RowSet
  BY DEF GoodRows
<1>2. /\ Over(f, g) \in RowSet /\ DOMAIN Over(f, g) = DOMAIN f \cup DOMAIN g
      /\ \A i \in DOMAIN f : Over(f, g)[i] = f[i]
      /\ \A i \in DOMAIN g \ DOMAIN f : Over(f, g)[i] = g[i]
  BY <1>1, OverFact
<1> QED
  BY <1>2 DEF GoodRows

LEMMA GoodAt ==
    ASSUME NEW f, NEW S, NEW c, NEW p, GoodRows(f, c, p), S \subseteq DOMAIN f
    PROVE  GoodRows(At(f, S), c, p)
BY AtFact DEF GoodRows

LEMMA AcksLeftFact ==
    ASSUME NEW f, pendingAcks \in RowSet
    PROVE  /\ AcksLeft(f) \in RowSet /\ DOMAIN AcksLeft(f) = DOMAIN pendingAcks \ DOMAIN f
           /\ \A i \in DOMAIN AcksLeft(f) : AcksLeft(f)[i] = pendingAcks[i]
BY AtFact DEF AcksLeft

LEMMA WithPendingAcksFact ==
    ASSUME NEW f, NEW c, GoodRows(f, c, Empty), pendingAcks \in RowSet
    PROVE  /\ GoodRows(WithPendingAcks(f), c, pendingAcks)
           /\ DOMAIN WithPendingAcks(f) = DOMAIN f
<1>1. /\ f \in RowSet /\ \A i \in DOMAIN f : f[i] \in Nat
      /\ \A i \in DOMAIN f : i \in Stored /\ Of(i, c)
  BY GoodNatural DEF GoodRows
<1>2. \A i \in DOMAIN pendingAcks : pendingAcks[i] \in Nat
  BY RowSetFact
<1>3. WithPendingAcks(f) \in RowSet /\ DOMAIN WithPendingAcks(f) = DOMAIN f
  BY <1>1, <1>2, RowSetFact DEF WithPendingAcks
<1>4. \A i \in DOMAIN f \cap DOMAIN pendingAcks : WithPendingAcks(f)[i] >= pendingAcks[i]
  BY <1>1, <1>2 DEF WithPendingAcks
<1> QED
  BY <1>1, <1>3, <1>4 DEF GoodRows

-----------------------------------------------------------------------------
(* The cache as a sequence of entries                                       *)

LEMMA RemoveAtFact ==
    ASSUME NEW S, NEW q \in Seq(S), NEW k \in 1..Len(q)
    PROVE  /\ RemoveAt(q, k) \in Seq(S) /\ Len(RemoveAt(q, k)) = Len(q) - 1
           /\ \A j \in 1..(Len(q) - 1) : RemoveAt(q, k)[j] = IF j < k THEN q[j] ELSE q[j + 1]
<1> DEFINE a == SubSeq(q, 1, k - 1)
           b == SubSeq(q, k + 1, Len(q))
<1>1. a \in Seq(S) /\ Len(a) = k - 1 /\ \A j \in 1..(k - 1) : a[j] = q[j]
  OBVIOUS
<1>2. b \in Seq(S) /\ Len(b) = Len(q) - k /\ \A j \in 1..(Len(q) - k) : b[j] = q[j + k]
  OBVIOUS
<1> HIDE DEF a, b
<1>3. /\ a \o b \in Seq(S) /\ Len(a \o b) = Len(q) - 1
      /\ \A j \in 1..(Len(q) - 1) : (a \o b)[j] = IF j <= k - 1 THEN a[j] ELSE b[j - (k - 1)]
  <2>1. /\ a \o b \in Seq(S) /\ Len(a \o b) = Len(a) + Len(b)
        /\ \A j \in 1..(Len(a) + Len(b)) : (a \o b)[j] = IF j <= Len(a) THEN a[j] ELSE b[j - Len(a)]
    BY <1>1, <1>2, ConcatProperties
  <2> QED
    BY <1>1, <1>2, <2>1
<1>4. \A j \in 1..(Len(q) - 1) : (a \o b)[j] = IF j < k THEN q[j] ELSE q[j + 1]
  <2> TAKE j \in 1..(Len(q) - 1)
  <2>1. CASE j < k
    BY <1>1, <1>3, <2>1
  <2>2. CASE ~(j < k)
    <3>1. j - (k - 1) \in 1..(Len(q) - k) /\ (j - (k - 1)) + k = j + 1 /\ ~(j <= k - 1)
      BY <2>2
    <3>2. (a \o b)[j] = b[j - (k - 1)]
      BY <1>3, <3>1
    <3>3. b[j - (k - 1)] = q[(j - (k - 1)) + k]
      BY <1>2, <3>1
    <3> QED BY <2>2, <3>1, <3>2, <3>3
  <2> QED BY <2>1, <2>2
<1> QED
  BY <1>3, <1>4 DEF RemoveAt, a, b

LEMMA CacheRemoveFact ==
    ASSUME NEW q \in Seq(CacheEntry), OneEntryPerKey(q), NEW c
    PROVE  /\ CacheRemove(q, c) \in Seq(CacheEntry)
           /\ Len(CacheRemove(q, c)) <= Len(q)
           /\ Slots(q, c) # {} => Len(CacheRemove(q, c)) = Len(q) - 1
           /\ OneEntryPerKey(CacheRemove(q, c))
           /\ \A k \in DOMAIN CacheRemove(q, c) : CacheRemove(q, c)[k].id # c
           /\ \A k \in DOMAIN CacheRemove(q, c) : \E j \in DOMAIN q : CacheRemove(q, c)[k] = q[j]
<1>1. CASE Slots(q, c) = {}
  BY <1>1 DEF CacheRemove, Slots
<1>2. CASE Slots(q, c) # {}
  <2> DEFINE k == CHOOSE k \in Slots(q, c) : TRUE
             z == RemoveAt(q, k)
  <2>1. k \in Slots(q, c)
    BY <1>2
  <2>2. k \in 1..Len(q) /\ q[k].id = c /\ Len(q) \in Nat
    BY <2>1 DEF Slots
  <2>3. CacheRemove(q, c) = z
    BY <1>2 DEF CacheRemove
  <2> HIDE DEF k
  <2>4. /\ z \in Seq(CacheEntry) /\ Len(z) = Len(q) - 1
        /\ \A j \in 1..(Len(q) - 1) : z[j] = IF j < k THEN q[j] ELSE q[j + 1]
    BY <2>2, RemoveAtFact
  <2> HIDE DEF z
  <2> DEFINE from(j) == IF j < k THEN j ELSE j + 1
  <2>5. \A j \in DOMAIN z : from(j) \in DOMAIN q /\ from(j) # k /\ z[j] = q[from(j)]
    BY <2>2, <2>4
  <2>6. \A i, j \in DOMAIN z : from(i) = from(j) => i = j
    BY <2>2, <2>4
  <2> HIDE DEF from
  <2>7. OneEntryPerKey(z)
    BY <2>5, <2>6 DEF OneEntryPerKey
  <2>8. \A j \in DOMAIN z : z[j].id # c
    BY <2>2, <2>5 DEF OneEntryPerKey
  <2> QED
    BY <2>2, <2>3, <2>4, <2>5, <2>7, <2>8
<1> QED
  BY <1>1, <1>2

LEMMA AppendFact ==
    ASSUME NEW q \in Seq(CacheEntry), OneEntryPerKey(q), NEW e \in CacheEntry,
           \A k \in DOMAIN q : q[k].id # e.id
    PROVE  /\ Append(q, e) \in Seq(CacheEntry) /\ Len(Append(q, e)) = Len(q) + 1
           /\ OneEntryPerKey(Append(q, e))
           /\ \A k \in DOMAIN Append(q, e) :
                 Append(q, e)[k] = e \/ \E j \in DOMAIN q : Append(q, e)[k] = q[j]
<1>1. /\ Append(q, e) \in Seq(CacheEntry) /\ Len(Append(q, e)) = Len(q) + 1 /\ Len(q) \in Nat
      /\ \A k \in 1..Len(q) : Append(q, e)[k] = q[k]
      /\ Append(q, e)[Len(q) + 1] = e
  OBVIOUS
<1>2. DOMAIN q = 1..Len(q) /\ DOMAIN Append(q, e) = 1..(Len(q) + 1)
  BY <1>1
<1>3. \A k \in DOMAIN Append(q, e) : k \in DOMAIN q \/ k = Len(q) + 1
  BY <1>1, <1>2
<1>4. OneEntryPerKey(Append(q, e))
  BY <1>1, <1>2, <1>3 DEF OneEntryPerKey
<1> QED
  BY <1>1, <1>2, <1>3, <1>4

\* The oldest entry goes when there are too many.
LEMMA EvictFact ==
    ASSUME NEW q \in Seq(CacheEntry), OneEntryPerKey(q), Len(q) <= CacheCap + 1
    PROVE  /\ EvictOldest(q) \in Seq(CacheEntry) /\ Len(EvictOldest(q)) <= CacheCap
           /\ OneEntryPerKey(EvictOldest(q))
           /\ \A k \in DOMAIN EvictOldest(q) : \E j \in DOMAIN q : EvictOldest(q)[k] = q[j]
<1>0. CacheCap \in Nat /\ CacheCap > 0 /\ Len(q) \in Nat
  BY MessageBounds
<1>1. CASE Len(q) > CacheCap
  <2>1. q # <<>>
    BY <1>0, <1>1
  <2>2. /\ Tail(q) \in Seq(CacheEntry) /\ Len(Tail(q)) = Len(q) - 1
        /\ \A k \in 1..(Len(q) - 1) : Tail(q)[k] = q[k + 1]
    BY <2>1
  <2>3. \A k \in DOMAIN Tail(q) : k + 1 \in DOMAIN q /\ Tail(q)[k] = q[k + 1] /\ k \in Int
    BY <1>0, <2>2
  <2>4. OneEntryPerKey(Tail(q))
    BY <2>3 DEF OneEntryPerKey
  <2> QED
    BY <1>0, <1>1, <2>2, <2>3, <2>4 DEF EvictOldest
<1>2. CASE ~(Len(q) > CacheCap)
  BY <1>0, <1>2 DEF EvictOldest
<1> QED
  BY <1>1, <1>2

-----------------------------------------------------------------------------
(* What the cache's operations keep                                         *)

LEMMA GoodFrom ==
    ASSUME NEW q, NEW z \in Seq(CacheEntry), NEW p, GoodCache(q, p), Len(z) <= CacheCap,
           OneEntryPerKey(z), \A k \in DOMAIN z : \E j \in DOMAIN q : z[k] = q[j]
    PROVE  GoodCache(z, p)
BY DEF GoodCache

LEMMA EntryFields ==
    ASSUME NEW e \in CacheEntry
    PROVE  /\ e.id \in Convs /\ e.rows \in RowSet /\ e.older \in BOOLEAN
           /\ \A f \in RowSet : [e EXCEPT !.rows = f] \in CacheEntry
           /\ \A f \in RowSet : [e EXCEPT !.rows = f].rows = f /\ [e EXCEPT !.rows = f].id = e.id
           /\ \A c \in Convs : [e EXCEPT !.id = c] \in CacheEntry
           /\ \A c \in Convs : [e EXCEPT !.id = c].rows = e.rows /\ [e EXCEPT !.id = c].id = c
BY DEF CacheEntry

LEMMA NormalizeFact ==
    ASSUME NEW e \in CacheEntry, NEW p, GoodRows(e.rows, e.id, p)
    PROVE  /\ Normalize(e) \in CacheEntry /\ Normalize(e).id = e.id
           /\ GoodRows(Normalize(e).rows, e.id, p)
<1> DEFINE S == Newest(DOMAIN e.rows, EntryCap)
           f == At(e.rows, S)
<1>1. S \subseteq DOMAIN e.rows
  BY DEF Newest
<1>2. GoodRows(f, e.id, p)
  BY <1>1, GoodAt
<1>3. f \in RowSet
  BY <1>2 DEF GoodRows
<1>4. Normalize(e) = e \/ Normalize(e) = [e EXCEPT !.rows = f, !.older = TRUE]
  BY DEF Normalize
<1> HIDE DEF f
<1>5. /\ [e EXCEPT !.rows = f, !.older = TRUE] \in CacheEntry
      /\ [e EXCEPT !.rows = f, !.older = TRUE].rows = f
      /\ [e EXCEPT !.rows = f, !.older = TRUE].id = e.id
  <2>1. \A g \in RowSet, o \in BOOLEAN :
           /\ [e EXCEPT !.rows = g, !.older = o] \in CacheEntry
           /\ [e EXCEPT !.rows = g, !.older = o].rows = g
           /\ [e EXCEPT !.rows = g, !.older = o].id = e.id
    BY DEF CacheEntry
  <2> QED
    BY <1>3, <2>1
<1> QED
  BY <1>2, <1>4, <1>5

LEMMA GoodEntry ==
    ASSUME NEW q, NEW p, GoodCache(q, p), NEW c, Slots(q, c) # {}
    PROVE  /\ EntryIn(q, c) \in CacheEntry /\ EntryIn(q, c).id = c
           /\ GoodRows(EntryIn(q, c).rows, c, p)
           /\ \E j \in DOMAIN q : EntryIn(q, c) = q[j]
<1>1. (CHOOSE k \in Slots(q, c) : TRUE) \in Slots(q, c)
  OBVIOUS
<1>2. PICK k \in DOMAIN q : EntryIn(q, c) = q[k] /\ q[k].id = c
  BY <1>1 DEF EntryIn, Slots
<1> QED
  BY <1>2 DEF GoodCache

LEMMA GoodCacheRemove ==
    ASSUME NEW q, NEW p, GoodCache(q, p), NEW c
    PROVE  GoodCache(CacheRemove(q, c), p)
<1> DEFINE z == CacheRemove(q, c)
<1>1. q \in Seq(CacheEntry) /\ Len(q) <= CacheCap /\ OneEntryPerKey(q) /\ Len(q) \in Nat
  BY DEF GoodCache
<1>2. /\ z \in Seq(CacheEntry) /\ Len(z) <= Len(q) /\ OneEntryPerKey(z)
      /\ \A k \in DOMAIN z : \E j \in DOMAIN q : z[k] = q[j]
  BY <1>1, CacheRemoveFact
<1>3. Len(z) <= CacheCap
  BY <1>1, <1>2, MessageBounds
<1> HIDE DEF z
<1>4. GoodCache(z, p)
  BY <1>2, <1>3, GoodFrom
<1> QED
  BY <1>4 DEF z

\* An entry joins at the end, in the place of the one with its key.
LEMMA GoodReplace ==
    ASSUME NEW q, NEW p, GoodCache(q, p), NEW e \in CacheEntry, GoodRows(e.rows, e.id, p)
    PROVE  LET z == Append(CacheRemove(q, e.id), e)
           IN  /\ z \in Seq(CacheEntry) /\ OneEntryPerKey(z) /\ Len(z) <= Len(q) + 1
               /\ Slots(q, e.id) # {} => Len(z) <= CacheCap
               /\ \A k \in DOMAIN z : GoodRows(z[k].rows, z[k].id, p)
<1> DEFINE y == CacheRemove(q, e.id)
           z == Append(y, e)
<1>1. q \in Seq(CacheEntry) /\ Len(q) <= CacheCap /\ OneEntryPerKey(q) /\ Len(q) \in Nat
  BY DEF GoodCache
<1>2. /\ y \in Seq(CacheEntry) /\ Len(y) <= Len(q) /\ OneEntryPerKey(y)
      /\ \A k \in DOMAIN y : y[k].id # e.id
      /\ \A k \in DOMAIN y : \E j \in DOMAIN q : y[k] = q[j]
      /\ Slots(q, e.id) # {} => Len(y) = Len(q) - 1
  BY <1>1, CacheRemoveFact
<1>3. \A k \in DOMAIN y : GoodRows(y[k].rows, y[k].id, p)
  BY <1>2 DEF GoodCache
<1> HIDE DEF y
<1>4. /\ z \in Seq(CacheEntry) /\ Len(z) = Len(y) + 1 /\ OneEntryPerKey(z) /\ Len(y) \in Nat
      /\ \A k \in DOMAIN z : z[k] = e \/ \E j \in DOMAIN y : z[k] = y[j]
  BY <1>2, AppendFact
<1> HIDE DEF z
<1>5. \A k \in DOMAIN z : GoodRows(z[k].rows, z[k].id, p)
  BY <1>3, <1>4
<1>6. Len(z) <= Len(q) + 1 /\ (Slots(q, e.id) # {} => Len(z) <= CacheCap)
  BY <1>1, <1>2, <1>4, MessageBounds
<1> QED
  BY <1>4, <1>5, <1>6 DEF z, y

LEMMA GoodEvict ==
    ASSUME NEW z \in Seq(CacheEntry), NEW p, OneEntryPerKey(z), Len(z) <= CacheCap + 1,
           \A k \in DOMAIN z : GoodRows(z[k].rows, z[k].id, p)
    PROVE  GoodCache(EvictOldest(z), p)
<1> DEFINE y == EvictOldest(z)
<1>1. /\ y \in Seq(CacheEntry) /\ Len(y) <= CacheCap /\ OneEntryPerKey(y)
      /\ \A k \in DOMAIN y : \E j \in DOMAIN z : y[k] = z[j]
  BY EvictFact
<1> HIDE DEF y
<1> QED
  BY <1>1 DEF GoodCache, y

LEMMA GoodCacheSet ==
    ASSUME NEW q, NEW p, GoodCache(q, p), NEW e \in CacheEntry, GoodRows(e.rows, e.id, p)
    PROVE  GoodCache(CacheSet(q, e), p)
<1> DEFINE m == Normalize(e)
           z == Append(CacheRemove(q, m.id), m)
<1>1. m \in CacheEntry /\ m.id = e.id /\ GoodRows(m.rows, m.id, p)
  BY NormalizeFact
<1> HIDE DEF m
<1>2. /\ z \in Seq(CacheEntry) /\ OneEntryPerKey(z) /\ Len(z) <= Len(q) + 1
      /\ \A k \in DOMAIN z : GoodRows(z[k].rows, z[k].id, p)
  BY <1>1, GoodReplace
<1>3. Len(z) <= CacheCap + 1
  <2>1. q \in Seq(CacheEntry) /\ Len(q) <= CacheCap /\ Len(q) \in Nat
    BY DEF GoodCache
  <2>2. Len(z) \in Nat
    BY <1>2
  <2> HIDE DEF z
  <2> QED
    BY <1>2, <2>1, <2>2, MessageBounds
<1>4. CacheSet(q, e) = EvictOldest(z)
  BY <1>1 DEF CacheSet, m
<1> HIDE DEF z
<1> QED
  BY <1>2, <1>3, <1>4, GoodEvict

LEMMA GoodCacheGet ==
    ASSUME NEW q, NEW p, GoodCache(q, p), NEW c, Slots(q, c) # {}
    PROVE  GoodCache(CacheGet(q, c), p)
<1> DEFINE e == EntryIn(q, c)
           z == Append(CacheRemove(q, e.id), e)
<1>1. e \in CacheEntry /\ e.id = c /\ GoodRows(e.rows, e.id, p)
  BY GoodEntry
<1> HIDE DEF e
<1>2. /\ z \in Seq(CacheEntry) /\ OneEntryPerKey(z) /\ Len(z) <= CacheCap
      /\ \A k \in DOMAIN z : GoodRows(z[k].rows, z[k].id, p)
  BY <1>1, GoodReplace
<1>3. CacheGet(q, c) = z
  BY <1>1 DEF CacheGet, e
<1> HIDE DEF z
<1> QED
  BY <1>2, <1>3 DEF GoodCache

LEMMA GoodCacheAdd ==
    ASSUME NEW p, GoodCache(cache, p), NEW c \in Convs, NEW i, NEW n, GoodRows(Row(i, n), c, p)
    PROVE  GoodCache(CacheAdd(c, i, n), p)
<1>0. cache \in Seq(CacheEntry) /\ Len(cache) <= CacheCap /\ OneEntryPerKey(cache) /\ Len(cache) \in Nat
  BY DEF GoodCache
<1>1. CASE ~Cached(c)
  <2> DEFINE e == [id |-> c, rows |-> Row(i, n), older |-> TRUE]
             z == Append(cache, e)
  <2>1. e \in CacheEntry /\ e.id = c /\ GoodRows(e.rows, e.id, p)
    BY DEF CacheEntry, GoodRows
  <2>2. CacheAdd(c, i, n) = EvictOldest(z)
    BY <1>1 DEF CacheAdd
  <2> HIDE DEF e
  <2>3. \A k \in DOMAIN cache : cache[k].id # e.id
    BY <1>1, <2>1 DEF Cached, Slots
  <2>4. /\ z \in Seq(CacheEntry) /\ Len(z) = Len(cache) + 1 /\ OneEntryPerKey(z)
        /\ \A k \in DOMAIN z : z[k] = e \/ \E j \in DOMAIN cache : z[k] = cache[j]
    BY <1>0, <2>1, <2>3, AppendFact
  <2> HIDE DEF z
  <2>5. \A k \in DOMAIN z : GoodRows(z[k].rows, z[k].id, p)
    BY <2>1, <2>4 DEF GoodCache
  <2>6. Len(z) <= CacheCap + 1
    BY <1>0, <2>4, MessageBounds
  <2> QED
    BY <2>2, <2>4, <2>5, <2>6, GoodEvict
<1>2. CASE Cached(c) /\ i \notin DOMAIN EntryOf(c).rows
  <2> DEFINE old == EntryIn(cache, c)
             f == Over(old.rows, Row(i, n))
             e == [old EXCEPT !.rows = f]
             m == Normalize(e)
             z == Append(CacheRemove(cache, m.id), m)
  <2>1. old \in CacheEntry /\ old.id = c /\ GoodRows(old.rows, c, p)
    BY <1>2, GoodEntry DEF Cached
  <2>2. GoodRows(f, c, p)
    BY <2>1, GoodOver
  <2>3. f \in RowSet
    BY <2>2 DEF GoodRows
  <2> HIDE DEF old, f
  <2>4. e \in CacheEntry /\ e.rows = f /\ e.id = c
    BY <2>1, <2>3, EntryFields
  <2>5. m \in CacheEntry /\ m.id = c /\ GoodRows(m.rows, m.id, p)
    BY <2>2, <2>4, NormalizeFact
  <2>6. CacheAdd(c, i, n) = z
    BY <1>2, <2>5 DEF CacheAdd, EntryOf, old, f
  <2> HIDE DEF m
  <2>7. Slots(cache, m.id) # {}
    BY <1>2, <2>5 DEF Cached
  <2>8. /\ z \in Seq(CacheEntry) /\ OneEntryPerKey(z) /\ Len(z) <= CacheCap
        /\ \A k \in DOMAIN z : GoodRows(z[k].rows, z[k].id, p)
    BY <2>5, <2>7, GoodReplace
  <2> HIDE DEF z
  <2> QED
    BY <2>6, <2>8 DEF GoodCache
<1>3. CASE Cached(c) /\ i \in DOMAIN EntryOf(c).rows
  BY <1>3 DEF CacheAdd
<1> QED
  BY <1>1, <1>2, <1>3

\* updateAck: the row of the first entry that holds the message gets the count;
\* a message whose key never changed is in no other entry.
LEMMA GoodCacheAck ==
    ASSUME NEW p, GoodCache(cache, pendingAcks), pendingAcks \in RowSet, NEW i, NEW n \in Nat,
           \A j \in DOMAIN p : \/ j \in DOMAIN pendingAcks /\ p[j] = pendingAcks[j]
                               \/ j = i /\ p[j] = n
    PROVE  GoodCache(CacheAck(i, n), p)
<1> DEFINE holders == {k \in DOMAIN cache : i \in DOMAIN cache[k].rows}
           m == Min(holders)
           f == [cache[m].rows EXCEPT ![i] = IF n > @ THEN n ELSE @]
           e == [cache[m] EXCEPT !.rows = f]
           z == [cache EXCEPT ![m] = e]
<1>0. /\ cache \in Seq(CacheEntry) /\ Len(cache) <= CacheCap /\ OneEntryPerKey(cache)
      /\ \A k \in DOMAIN cache : /\ cache[k] \in CacheEntry /\ cache[k].rows \in RowSet
                                 /\ GoodRows(cache[k].rows, cache[k].id, pendingAcks)
  BY DEF GoodCache, GoodRows
<1>1. \A j, k \in holders : db[i].k = db[i].c => j = k
  <2> SUFFICES ASSUME NEW j \in holders, NEW k \in holders, db[i].k = db[i].c
               PROVE  j = k
    OBVIOUS
  <2>1. Of(i, cache[j].id) /\ Of(i, cache[k].id)
    BY <1>0 DEF GoodRows
  <2>2. cache[j].id = cache[k].id
    BY <2>1 DEF Of
  <2> QED
    BY <1>0, <2>2 DEF OneEntryPerKey
<1>2. \A k \in DOMAIN cache : k \notin holders => GoodRows(cache[k].rows, cache[k].id, p)
  BY <1>0 DEF GoodRows
<1>3. CASE holders = {}
  BY <1>0, <1>2, <1>3 DEF CacheAck, GoodCache
<1>4. CASE holders # {}
  <2>0. CacheAck(i, n) = z
    BY <1>4 DEF CacheAck
  <2>1. CASE m \notin DOMAIN cache
    <3>1. z = cache
      BY <1>0, <2>1
    <3>2. ~(db[i].k = db[i].c)
      <4> SUFFICES ASSUME db[i].k = db[i].c PROVE FALSE
        OBVIOUS
      <4>1. PICK k \in holders : TRUE
        BY <1>4
      <4>2. holders = {k} /\ k \in Int
        BY <1>0, <1>1, <4>1
      <4>3. Min({k}) = k
        BY <4>2 DEF Min
      <4> QED
        BY <2>1, <4>1, <4>2, <4>3
    <3>3. \A k \in DOMAIN cache : GoodRows(cache[k].rows, cache[k].id, p)
      BY <1>0, <3>2 DEF GoodRows
    <3> QED
      BY <1>0, <2>0, <3>1, <3>3 DEF GoodCache
  <2>2. CASE m \in DOMAIN cache
    <3>1. /\ f \in RowSet /\ DOMAIN f = DOMAIN cache[m].rows
          /\ \A j \in DOMAIN f : f[j] >= cache[m].rows[j]
          /\ i \in DOMAIN f => f[i] >= n
      BY <1>0, <2>2, AckFact
    <3> HIDE DEF f
    <3>2. e \in CacheEntry /\ e.rows = f /\ e.id = cache[m].id
      BY <1>0, <2>2, <3>1, EntryFields
    <3>3. GoodRows(f, e.id, p)
      <4>1. /\ \A j \in DOMAIN cache[m].rows : cache[m].rows[j] \in Nat
            /\ \A j \in DOMAIN f : f[j] \in Nat
        BY <1>0, <2>2, <3>1, RowSetFact
      <4>2. \A j \in DOMAIN f : j \in Stored /\ Of(j, e.id)
        BY <1>0, <2>2, <3>1, <3>2 DEF GoodRows
      <4>3. \A j \in DOMAIN f : j \in DOMAIN pendingAcks /\ db[j].k = db[j].c
                                   => cache[m].rows[j] >= pendingAcks[j]
        BY <1>0, <2>2, <3>1 DEF GoodRows
      <4>4. \A j \in DOMAIN f : j \in DOMAIN p /\ db[j].k = db[j].c => f[j] >= p[j]
        <5> SUFFICES ASSUME NEW j \in DOMAIN f, j \in DOMAIN p, db[j].k = db[j].c
                     PROVE  f[j] >= p[j]
          OBVIOUS
        <5>1. CASE j \in DOMAIN pendingAcks /\ p[j] = pendingAcks[j]
          <6>1. cache[m].rows[j] >= p[j] /\ f[j] >= cache[m].rows[j]
            BY <4>3, <3>1, <5>1
          <6>2. p[j] \in Nat
            BY <5>1, RowSetFact
          <6> QED
            BY <4>1, <3>1, <6>1, <6>2
        <5>2. CASE j = i /\ p[j] = n
          BY <3>1, <5>2
        <5> QED
          BY <5>1, <5>2
      <4> QED
        BY <3>1, <4>2, <4>4 DEF GoodRows
    <3> HIDE DEF e
    <3>4. /\ z \in Seq(CacheEntry) /\ Len(z) = Len(cache) /\ DOMAIN z = DOMAIN cache
          /\ z[m] = e /\ \A k \in DOMAIN cache : k # m => z[k] = cache[k]
      BY <1>0, <2>2, <3>2
    <3>5. OneEntryPerKey(z)
      BY <1>0, <3>2, <3>4 DEF OneEntryPerKey
    <3>6. \A k \in DOMAIN cache : k # m => GoodRows(cache[k].rows, cache[k].id, p)
      <4> SUFFICES ASSUME NEW k \in holders, k # m
                   PROVE  GoodRows(cache[k].rows, cache[k].id, p)
        BY <1>2
      <4>1. ~(db[i].k = db[i].c)
        <5> SUFFICES ASSUME db[i].k = db[i].c PROVE FALSE
          OBVIOUS
        <5>1. holders = {k} /\ k \in Int
          BY <1>0, <1>1
        <5>2. Min({k}) = k
          BY <5>1 DEF Min
        <5> QED
          BY <5>1, <5>2
      <4> QED
        BY <1>0, <4>1 DEF GoodRows
    <3>7. \A k \in DOMAIN z : GoodRows(z[k].rows, z[k].id, p)
      BY <3>2, <3>3, <3>4, <3>6
    <3> HIDE DEF z
    <3> QED
      BY <1>0, <2>0, <3>4, <3>5, <3>7 DEF GoodCache
  <2> QED
    BY <2>1, <2>2
<1> QED
  BY <1>3, <1>4

\* rename: what is cached for the prefix goes to the full key, where the server
\* has moved all of it.
LEMMA GoodCacheRename ==
    ASSUME NEW p, GoodCache(cache, p), FiledByKey, Resolved
    PROVE  GoodCache(CacheRename(Prefix, Full), p)
<1>0. /\ cache \in Seq(CacheEntry) /\ Len(cache) <= CacheCap /\ OneEntryPerKey(cache)
      /\ Prefix # Full /\ Full \in Convs
  BY ClientBounds DEF GoodCache
<1>1. \A f : GoodRows(f, Prefix, p) => GoodRows(f, Full, p)
  BY DEF GoodRows, Of, FiledByKey
<1>2. CASE ~Cached(Prefix)
  BY <1>2 DEF CacheRename
<1>3. CASE Cached(Prefix)
  <2> DEFINE old == EntryIn(cache, Prefix)
             q   == CacheRemove(cache, Prefix)
  <2>1. /\ old \in CacheEntry /\ GoodRows(old.rows, Full, p)
    BY <1>1, <1>3, GoodEntry DEF Cached
  <2>2. /\ q \in Seq(CacheEntry) /\ OneEntryPerKey(q) /\ Len(q) = Len(cache) - 1
        /\ \A k \in DOMAIN q : \E j \in DOMAIN cache : q[k] = cache[j]
    BY <1>0, <1>3, CacheRemoveFact DEF Cached
  <2>3. GoodCache(q, p)
    BY GoodCacheRemove
  <2>4. Len(cache) \in Nat /\ Len(q) \in Nat
    BY <1>0, <2>2
  <2>5. old.older \in BOOLEAN /\ old.rows \in RowSet
    BY <2>1, EntryFields
  <2>6. CASE ~Cached(Full)
    <3> DEFINE e == [old EXCEPT !.id = Full]
               z == Append(q, e)
    <3>1. CacheRename(Prefix, Full) = z
      BY <1>3, <2>6 DEF CacheRename, EntryOf
    <3> HIDE DEF old, q
    <3>2. e \in CacheEntry /\ e.id = Full /\ e.rows = old.rows
      BY <1>0, <2>1, EntryFields
    <3> HIDE DEF e
    <3>3. \A k \in DOMAIN q : q[k].id # e.id
      BY <2>2, <2>6, <3>2 DEF Cached, Slots
    <3>4. /\ z \in Seq(CacheEntry) /\ Len(z) = Len(q) + 1 /\ OneEntryPerKey(z)
          /\ \A k \in DOMAIN z : z[k] = e \/ \E j \in DOMAIN q : z[k] = q[j]
      BY <2>2, <3>2, <3>3, AppendFact
    <3> HIDE DEF z
    <3>5. \A k \in DOMAIN z : GoodRows(z[k].rows, z[k].id, p)
      BY <2>1, <2>3, <3>2, <3>4 DEF GoodCache
    <3>6. Len(z) <= CacheCap
      BY <1>0, <2>2, <2>4, <3>4, MessageBounds
    <3> QED
      BY <3>1, <3>4, <3>5, <3>6 DEF GoodCache
  <2>7. CASE Cached(Full)
    <3> DEFINE new == EntryIn(cache, Full)
               f   == Over(new.rows, old.rows)
               e   == [id |-> Full, rows |-> f, older |-> new.older \/ old.older]
               m   == Normalize(e)
               z   == [k \in DOMAIN q |-> IF q[k].id = Full THEN m ELSE q[k]]
    <3>1. new \in CacheEntry /\ GoodRows(new.rows, Full, p)
      BY <2>7, GoodEntry DEF Cached
    <3>2. CacheRename(Prefix, Full) = z
      BY <1>3, <2>7 DEF CacheRename, EntryOf
    <3>3. GoodRows(f, Full, p) /\ f \in RowSet
      <4>1. GoodRows(f, Full, p)
        BY <2>1, <3>1, GoodOver
      <4> QED
        BY <4>1 DEF GoodRows
    <3>4. new.older \in BOOLEAN
      BY <3>1, EntryFields
    <3> HIDE DEF new, old, f, q
    <3>5. e \in CacheEntry /\ e.id = Full /\ e.rows = f
      BY <1>0, <3>3 DEF CacheEntry
    <3> HIDE DEF e
    <3>6. m \in CacheEntry /\ m.id = Full /\ GoodRows(m.rows, Full, p)
      BY <3>3, <3>5, NormalizeFact
    <3> HIDE DEF m
    <3>7. \A k \in DOMAIN q : q[k] \in CacheEntry
      BY <2>2
    <3>8. \A k \in 1..Len(q) : z[k] \in CacheEntry /\ z[k].id = q[k].id
      BY <2>2, <3>6, <3>7
    <3>9. DOMAIN z = 1..Len(q) /\ DOMAIN q = 1..Len(q)
      BY <2>2
    <3>10. z \in Seq(CacheEntry) /\ Len(z) = Len(q)
      BY <2>4, <3>8, <3>9
    <3>11. OneEntryPerKey(z)
      BY <2>2, <3>8, <3>9 DEF OneEntryPerKey
    <3>12. \A k \in DOMAIN z : GoodRows(z[k].rows, z[k].id, p)
      BY <2>3, <3>6, <3>9 DEF GoodCache
    <3>13. Len(z) <= CacheCap
      BY <1>0, <2>2, <2>4, <3>10, MessageBounds
    <3> HIDE DEF z
    <3> QED
      BY <3>2, <3>10, <3>11, <3>12, <3>13 DEF GoodCache
  <2> QED
    BY <2>6, <2>7
<1> QED
  BY <1>2, <1>3

-----------------------------------------------------------------------------
(* The server's rows and events                                             *)

\* How the server's rows may change: rows join, and a key moves from the prefix
\* to the full key.
RowsMove ==
    /\ DOMAIN db \subseteq DOMAIN db'
    /\ \A i \in DOMAIN db : /\ db'[i].k = db[i].k
                            /\ db'[i].c = db[i].c \/ (db[i].c = Prefix /\ db'[i].c = Full)

LEMMA KeysStay ==
    ASSUME FiledByKey, RowsMove
    PROVE  /\ Resolved => Resolved'
           /\ \A i \in Stored : \A c : Of(i, c) => Of(i, c)'
           /\ \A i \in Stored : db'[i].k = db'[i].c => db[i].k = db[i].c
<1>0. Prefix # Full
  BY ClientBounds
<1>1. Resolved => Resolved'
  BY <1>0 DEF Resolved, RowsMove, Stored
<1>2. \A i \in Stored : \A c : Of(i, c) => Of(i, c)'
  BY <1>0 DEF Of, FiledByKey, RowsMove, Stored
<1>3. \A i \in Stored : db'[i].k = db'[i].c => db[i].k = db[i].c
  BY <1>0 DEF FiledByKey, RowsMove, Stored
<1> QED
  BY <1>1, <1>2, <1>3

LEMMA EventStays ==
    ASSUME FiledByKey, RowsMove, NEW e \in Event, EventOK(e)
    PROVE  EventOK(e)'
<1>1. e.i \in Stored => e.i \in Stored'
  BY DEF RowsMove, Stored
<1>2. Resolved => Resolved'
  BY KeysStay
<1>3. e.t = "message" => e.i \in Stored /\ Of(e.i, e.c)
  BY DEF EventOK
<1>4. e.t = "message" => Of(e.i, e.c)'
  BY <1>3, KeysStay
<1> QED
  BY <1>1, <1>2, <1>4 DEF EventOK

LEMMA WireTypes ==
    ASSUME ServerInv
    PROVE  /\ wire \in Seq(Event) /\ Len(wire) \in Nat /\ DOMAIN wire = 1..Len(wire)
           /\ \A k \in DOMAIN wire : wire[k] \in Event /\ EventOK(wire[k])
BY DEF ServerInv

\* The rows move and an event is emitted.
LEMMA Emitted ==
    ASSUME ServerInv, RowsMove, Room, NEW e \in Event, Emit(e), EventOK(e)'
    PROVE  /\ wire' \in Seq(Event) /\ Len(wire') <= MaxWire
           /\ \A k \in DOMAIN wire' : EventOK(wire[k])'
<1>1. /\ wire \in Seq(Event) /\ Len(wire) < MaxWire /\ Len(wire) \in Nat
      /\ DOMAIN wire = 1..Len(wire)
  BY DEF ServerInv, Room
<1>2. \A k \in DOMAIN wire : EventOK(wire[k])
  BY DEF ServerInv
<1>3. \A d \in Event : EventOK(d) => EventOK(d)'
  BY EventStays DEF ServerInv
<1>4. CASE wire' = wire
  <2>1. \A k \in DOMAIN wire : wire[k] \in Event
    BY <1>1
  <2>2. \A k \in DOMAIN wire : EventOK(wire[k])'
    BY <1>2, <1>3, <1>4, <2>1 DEF EventOK
  <2> QED
    BY <1>1, <1>4, <2>2, ClientBounds
<1>5. CASE wire' = Append(wire, e)
  <2>1. /\ wire' \in Seq(Event) /\ Len(wire') = Len(wire) + 1 /\ DOMAIN wire' = 1..(Len(wire) + 1)
        /\ \A k \in 1..Len(wire) : wire'[k] = wire[k]
        /\ wire'[Len(wire) + 1] = e
    BY <1>1, <1>5
  <2>2. \A k \in DOMAIN wire' : k \in 1..Len(wire) \/ k = Len(wire) + 1
    BY <1>1, <2>1
  <2>3. \A k \in DOMAIN wire : wire[k] \in Event
    BY <1>1
  <2>4. \A k \in DOMAIN wire' : EventOK(wire[k])'
    BY <1>1, <1>2, <1>3, <2>1, <2>2, <2>3 DEF EventOK
  <2>5. Len(wire') <= MaxWire
    BY <1>1, <2>1, ClientBounds
  <2> QED
    BY <2>1, <2>4, <2>5
<1> QED
  BY <1>4, <1>5 DEF Emit

LEMMA DbTypes ==
    ASSUME SendInv
    PROVE  /\ db \in Seq(DbRow) /\ Len(db) \in Nat /\ DOMAIN db = 1..Len(db)
           /\ sends \in Seq(Send) /\ Len(sends) \in Nat /\ DOMAIN sends = 1..Len(sends)
           /\ \A i \in DOMAIN db : db[i] \in DbRow /\ db[i].k \in Convs /\ db[i].c \in Convs /\ db[i].ack \in Nat
           /\ \A k \in DOMAIN sends : sends[k] \in Send /\ sends[k].c \in Convs /\ sends[k].i \in Nat
<1>1. db \in Seq(DbRow) /\ sends \in Seq(Send)
  BY DEF SendInv, SendTypes
<1>2. /\ \A row \in DbRow : row.k \in Convs /\ row.c \in Convs /\ row.ack \in Nat
      /\ \A send \in Send : send.c \in Convs /\ send.i \in Nat
  BY DEF DbRow, Send
<1> QED
  BY <1>1, <1>2

\* A row joins under the key it is filed by now.
LEMMA RowFiled ==
    ASSUME SendInv, ServerInv, NEW row \in DbRow, db' = Append(db, row), Len(db) < MaxMsg,
           row.c = KeyNow(row.k)
    PROVE  /\ RowsMove /\ FiledByKey' /\ Len(db') <= MaxMsg /\ Len(db') = Len(db) + 1
           /\ Len(db) + 1 \in Stored' /\ db'[Len(db) + 1] = row
<1>1. /\ db \in Seq(DbRow) /\ Len(db) \in Nat /\ DOMAIN db = 1..Len(db)
      /\ FiledByKey
  BY DbTypes DEF ServerInv
<1>2. /\ Len(db') = Len(db) + 1 /\ DOMAIN db' = 1..(Len(db) + 1)
      /\ \A i \in DOMAIN db : db'[i] = db[i]
      /\ db'[Len(db) + 1] = row
  BY <1>1
<1>3. RowsMove
  BY <1>1, <1>2 DEF RowsMove
<1>4. \A i \in DOMAIN db' : i \in DOMAIN db \/ i = Len(db) + 1
  BY <1>1, <1>2
<1>5. \A i \in Stored' : db'[i].k = db'[i].c \/ (db'[i].k = Prefix /\ db'[i].c = Full)
  BY <1>1, <1>2, <1>4 DEF FiledByKey, KeyNow, Stored
<1>6. Resolved' => (Resolved \/ (row.k = Prefix /\ row.c = Full))
  BY <1>1, <1>2, <1>4 DEF Resolved, Stored
<1>7. Resolved' => Resolved
  BY <1>6, ClientBounds DEF KeyNow
<1>8. Resolved => row.c # Prefix
  BY ClientBounds DEF KeyNow
<1>9. Resolved' => \A i \in Stored' : db'[i].c # Prefix
  BY <1>1, <1>2, <1>4, <1>7, <1>8 DEF FiledByKey, Stored
<1>10. FiledByKey'
  BY <1>5, <1>9 DEF FiledByKey
<1>11. Len(db') <= MaxMsg
  BY <1>1, <1>2, MessageBounds
<1> QED
  BY <1>1, <1>2, <1>3, <1>10, <1>11 DEF Stored

LEMMA StoredServer ==
    ASSUME SendInv, ServerInv, NEW c \in Convs, MessageStored(c)
    PROVE  ServerInv' /\ RowsMove
<1> DEFINE row == [k |-> c, c |-> c, ack |-> 0, by |-> 0]
           e == MsgEvent(c, Len(db) + 1, 0)
<1>0. Len(db) \in Nat
  BY DbTypes
<1>1. row \in DbRow /\ row.k = c /\ row.c = c /\ c = KeyNow(c)
  BY DEF DbRow, MessageStored
<1>2. /\ db' = Append(db, row) /\ Len(db) < MaxMsg /\ Room /\ Emit(e) /\ sends' = sends
  BY DEF MessageStored
<1>3. e \in Event /\ e.t = "message" /\ e.i = Len(db) + 1 /\ e.c = c
  BY <1>0 DEF Event, MsgEvent
<1> HIDE DEF row, e
<1>4. /\ RowsMove /\ FiledByKey' /\ Len(db') <= MaxMsg /\ Len(db') = Len(db) + 1
      /\ Len(db) + 1 \in Stored' /\ db'[Len(db) + 1] = row
  BY <1>1, <1>2, RowFiled
<1>d. PICK d \in Event : d = e
  BY <1>3
<1>5. EventOK(d)'
  BY <1>1, <1>3, <1>4, <1>d DEF EventOK, Of
<1>6. /\ wire' \in Seq(Event) /\ Len(wire') <= MaxWire
      /\ \A k \in DOMAIN wire' : EventOK(wire[k])'
  BY <1>2, <1>4, <1>5, <1>d, Emitted
<1>7. \A k \in DOMAIN sends' : sends'[k].i \in 0..Len(db')
  BY <1>0, <1>2, <1>4 DEF ServerInv
<1> QED
  BY <1>4, <1>6, <1>7 DEF ServerInv

LEMMA AckServer ==
    ASSUME SendInv, ServerInv, NEW i \in Stored, AckStored(i)
    PROVE  ServerInv' /\ RowsMove
<1> DEFINE row == [db[i] EXCEPT !.ack = @ + 1]
           e == [t |-> "message_acked", c |-> db[i].c, i |-> i, n |-> db[i].ack + 1]
<1>1. /\ db \in Seq(DbRow) /\ i \in DOMAIN db /\ db[i] \in DbRow /\ i \in Nat
      /\ db[i].ack \in Nat /\ db[i].c \in Convs
  BY DbTypes DEF Stored
<1>2. db' = [db EXCEPT ![i] = row] /\ Room /\ Emit(e) /\ sends' = sends
  BY DEF AckStored
<1>3. row.k = db[i].k /\ row.c = db[i].c
  BY <1>1 DEF DbRow
<1>4. e \in Event /\ e.t = "message_acked" /\ e.i = i
  BY <1>1 DEF Event
<1> HIDE DEF row, e
<1>5. /\ DOMAIN db' = DOMAIN db /\ Len(db') = Len(db)
      /\ \A j \in DOMAIN db : db'[j].k = db[j].k /\ db'[j].c = db[j].c
  BY <1>1, <1>2, <1>3
<1>6. RowsMove
  BY <1>5 DEF RowsMove
<1>7. FiledByKey'
  BY <1>5 DEF ServerInv, FiledByKey, Resolved, Stored
<1>d. PICK d \in Event : d = e
  BY <1>4
<1>8. EventOK(d)'
  BY <1>1, <1>4, <1>5, <1>d DEF EventOK, Stored
<1>9. /\ wire' \in Seq(Event) /\ Len(wire') <= MaxWire
      /\ \A k \in DOMAIN wire' : EventOK(wire[k])'
  BY <1>2, <1>6, <1>8, <1>d, Emitted
<1> QED
  BY <1>2, <1>5, <1>6, <1>7, <1>9 DEF ServerInv

LEMMA ResolvedServer ==
    ASSUME SendInv, ServerInv, ContactResolved
    PROVE  ServerInv' /\ RowsMove
<1> DEFINE e == [t |-> "contact_resolved", c |-> Full, i |-> 0, n |-> 0]
<1>0. Full \in Convs /\ Prefix # Full
  BY ClientBounds
<1>1. /\ db \in Seq(DbRow) /\ DOMAIN db = 1..Len(db) /\ Len(db) \in Nat
      /\ \A i \in DOMAIN db : db[i] \in DbRow
  BY DbTypes
<1>2. /\ db' = [i \in DOMAIN db |-> IF db[i].c = Prefix THEN [db[i] EXCEPT !.c = Full] ELSE db[i]]
      /\ Room /\ Emit(e) /\ sends' = sends
  BY DEF ContactResolved, Stored
<1>3. e \in Event /\ e.t = "contact_resolved"
  BY <1>0 DEF Event
<1> HIDE DEF e
<1>4. \A row \in DbRow : [row EXCEPT !.c = Full].k = row.k /\ [row EXCEPT !.c = Full].c = Full
  BY DEF DbRow
<1>5. /\ DOMAIN db' = DOMAIN db
      /\ \A i \in DOMAIN db : db'[i].k = db[i].k /\ db'[i].c = IF db[i].c = Prefix THEN Full ELSE db[i].c
  BY <1>1, <1>2, <1>4
<1>6. Len(db') = Len(db)
  <2>1. db' \in Seq(DbRow)
    BY ResolvedStep DEF SendInv, SendTypes
  <2>2. DOMAIN db' = 1..Len(db') /\ Len(db') \in Nat
    BY <2>1
  <2> QED
    BY <1>1, <1>5, <2>2
<1>7. RowsMove
  BY <1>5 DEF RowsMove
<1>8. \A i \in Stored' : db'[i].c # Prefix
  BY <1>0, <1>5 DEF Stored
<1>9. \A i \in Stored' : db'[i].k = db'[i].c \/ (db'[i].k = Prefix /\ db'[i].c = Full)
  BY <1>5 DEF ServerInv, FiledByKey, Stored
<1>10. FiledByKey'
  BY <1>8, <1>9 DEF FiledByKey
<1>11. Resolved'
  <2>1. PICK i \in Stored : db[i].c = Prefix
    BY DEF ContactResolved
  <2>2. db[i].k = Prefix
    BY <1>0, <2>1 DEF ServerInv, FiledByKey
  <2> QED
    BY <1>5, <2>1, <2>2 DEF Resolved, Stored
<1>12. EventOK(e)'
  BY <1>3, <1>11 DEF EventOK
<1>13. /\ wire' \in Seq(Event) /\ Len(wire') <= MaxWire
       /\ \A k \in DOMAIN wire' : EventOK(wire[k])'
  BY <1>2, <1>3, <1>7, <1>12, Emitted
<1> QED
  BY <1>2, <1>6, <1>7, <1>10, <1>13 DEF ServerInv

LEMMA AcceptServer ==
    ASSUME SendInv, ServerInv, NEW k \in DOMAIN sends, ServerAccepts(k)
    PROVE  ServerInv' /\ RowsMove
<1> DEFINE row == [k |-> sends[k].c, c |-> KeyNow(sends[k].c), ack |-> 0, by |-> sends[k].by]
           sent == [sends[k] EXCEPT !.i = Len(db) + 1]
           e == MsgEvent(KeyNow(sends[k].c), Len(db) + 1, 0)
<1>0. /\ Len(db) \in Nat /\ sends \in Seq(Send) /\ sends[k] \in Send
      /\ sends[k].c \in Convs /\ KeyNow(sends[k].c) \in Convs
  BY DbTypes, KeyNowFact
<1>1. row \in DbRow /\ row.k = sends[k].c /\ row.c = KeyNow(row.k)
  BY <1>0 DEF DbRow, Send
<1>2. /\ db' = Append(db, row) /\ Len(db) < MaxMsg /\ Room /\ Emit(e)
      /\ sends' = [sends EXCEPT ![k] = sent]
  BY DEF ServerAccepts
<1>3. e \in Event /\ e.t = "message" /\ e.i = Len(db) + 1 /\ e.c = row.c
  BY <1>0 DEF Event, MsgEvent
<1>4. sent.i = Len(db) + 1
  BY <1>0 DEF Send
<1> HIDE DEF row, e, sent
<1>5. /\ RowsMove /\ FiledByKey' /\ Len(db') <= MaxMsg /\ Len(db') = Len(db) + 1
      /\ Len(db) + 1 \in Stored' /\ db'[Len(db) + 1] = row
  BY <1>1, <1>2, RowFiled
<1>d. PICK d \in Event : d = e
  BY <1>3
<1>6. EventOK(d)'
  BY <1>3, <1>5, <1>d DEF EventOK, Of
<1>7. /\ wire' \in Seq(Event) /\ Len(wire') <= MaxWire
      /\ \A j \in DOMAIN wire' : EventOK(wire[j])'
  BY <1>2, <1>5, <1>6, <1>d, Emitted
<1>8. DOMAIN sends' = DOMAIN sends /\ \A j \in DOMAIN sends : sends'[j] = sends[j] \/ sends'[j] = sent
  BY <1>0, <1>2
<1>9. \A j \in DOMAIN sends' : sends'[j].i \in 0..Len(db')
  BY <1>0, <1>4, <1>5, <1>8 DEF ServerInv
<1> QED
  BY <1>5, <1>7, <1>9 DEF ServerInv

-----------------------------------------------------------------------------
LEMMA ServerKept ==
    ASSUME ServerInv, UNCHANGED <<db, wire, sends>>
    PROVE  ServerInv'
BY DEF ServerInv, FiledByKey, EventOK, Of, Resolved, Stored

\* Events are lost or handled in order.
LEMMA EventsGone ==
    ASSUME ServerInv, UNCHANGED <<db, sends>>, wire' = <<>> \/ (wire # <<>> /\ wire' = Tail(wire))
    PROVE  ServerInv'
<1>1. /\ wire \in Seq(Event) /\ Len(wire) \in Nat /\ DOMAIN wire = 1..Len(wire)
      /\ Len(wire) <= MaxWire /\ \A k \in DOMAIN wire : EventOK(wire[k])
  BY DEF ServerInv
<1>2. /\ wire' \in Seq(Event) /\ Len(wire') <= MaxWire
      /\ \A k \in DOMAIN wire' : \E j \in DOMAIN wire : wire'[k] = wire[j]
  <2>1. CASE wire' = <<>>
    BY <1>1, <2>1, ClientBounds
  <2>2. CASE wire # <<>> /\ wire' = Tail(wire)
    <3>1. /\ wire' \in Seq(Event) /\ Len(wire') = Len(wire) - 1 /\ DOMAIN wire' = 1..(Len(wire) - 1)
          /\ \A k \in 1..(Len(wire) - 1) : wire'[k] = wire[k + 1] /\ k + 1 \in 1..Len(wire)
      BY <1>1, <2>2
    <3> QED
      BY <1>1, <3>1, ClientBounds
  <2> QED
    BY <2>1, <2>2
<1>3. \A k \in DOMAIN wire' : EventOK(wire[k])'
  BY <1>1, <1>2 DEF EventOK, Of, Resolved, Stored
<1> QED
  BY <1>2, <1>3 DEF ServerInv, FiledByKey, Resolved, Stored

LEMMA SendQueued ==
    ASSUME SendInv, ServerInv, HandleSendMessage
    PROVE  ServerInv'
<1> DEFINE new == [by |-> typed + 1, c |-> active.id, i |-> 0]
<1>1. sends \in Seq(Send) /\ Len(sends) \in Nat /\ DOMAIN sends = 1..Len(sends) /\ Len(db) \in Nat
  BY DbTypes
<1>2. sends' = Append(sends, new) /\ UNCHANGED <<db, wire>> /\ new.i = 0
  BY DEF HandleSendMessage
<1>2a. new \in Send
  BY DEF HandleSendMessage, IsMessageConversation, Send, SendInv, SendTypes
<1> HIDE DEF new
<1>3. DOMAIN sends' = 1..(Len(sends) + 1) /\ \A k \in DOMAIN sends' : sends'[k] = new \/ (k \in DOMAIN sends /\ sends'[k] = sends[k])
  BY <1>1, <1>2, <1>2a
<1>4. \A k \in DOMAIN sends' : sends'[k].i \in 0..Len(db')
  BY <1>1, <1>2, <1>3 DEF ServerInv
<1> QED
  BY <1>2, <1>4 DEF ServerInv, FiledByKey, EventOK, Of, Resolved, Stored

LEMMA SendEnds ==
    ASSUME SendInv, ServerInv, sends # <<>>, sends' = Tail(sends), UNCHANGED <<db, wire>>
    PROVE  ServerInv'
<1>1. sends \in Seq(Send) /\ Len(sends) \in Nat /\ DOMAIN sends = 1..Len(sends)
  BY DbTypes
<1>2. \A k \in DOMAIN sends' : k + 1 \in DOMAIN sends /\ sends'[k] = sends[k + 1]
  BY <1>1
<1>3. \A k \in DOMAIN sends' : sends'[k].i \in 0..Len(db')
  BY <1>2 DEF ServerInv
<1> QED
  BY <1>3 DEF ServerInv, FiledByKey, EventOK, Of, Resolved, Stored

LEMMA ServerNext ==
    ASSUME SendInv, ServerInv, Next
    PROVE  ServerInv'
<1>1. CASE React \/ Answer \/ Browse
  BY <1>1, ServerKept DEF React, Answer, Browse, envVars
<1>2. CASE Failure \/ TargetReached \/ ToggleBlocked
  BY <1>2, ServerKept DEF Failure, TargetReached, ToggleBlocked, envVars
<1>3. CASE \E r \in reqs : ServerReads(r)
  BY <1>3, ServerKept DEF ServerReads, envVars
<1>4. CASE SocketOpens \/ ReconnectTimer
  BY <1>4, ServerKept DEF SocketOpens, ReconnectTimer
<1>5. CASE SocketCloses \/ OnMessage \/ OnMessageAcked \/ OnContactResolved
  BY <1>5, EventsGone DEF SocketCloses, OnMessage, OnMessageAcked, OnContactResolved, Handled
<1>6. CASE \E c \in Convs \cup {"view"} : SelectConversation(c)
  BY <1>6, ServerKept DEF SelectConversation
<1>7. CASE \E i \in Stored : AckStored(i) \/ OpenAtMessage(i)
  BY <1>7, AckServer, ServerKept DEF OpenAtMessage
<1>8. CASE SendReturns \/ SendFails
  BY <1>8, SendEnds DEF SendReturns, SendFails
<1> QED
  BY <1>1, <1>2, <1>3, <1>4, <1>5, <1>6, <1>7, <1>8, StoredServer, ResolvedServer, SendQueued, AcceptServer DEF Next

(* The server's invariant: rows are filed by key, once resolved nothing is   *)
(* filed under the prefix, and each event on the socket names stored rows of *)
(* its conversation.                                                        *)
THEOREM ServerInvariance == Spec => []ServerInv
<1>1. Init => ServerInv
  BY ClientBounds, MessageBounds DEF Init, ServerInv, FiledByKey, Resolved, Stored
<1>2. SendInv /\ ServerInv /\ [Next]_vars => ServerInv'
  BY ServerNext, ServerKept DEF vars, envVars
<1> QED
  BY <1>1, <1>2, SendInvariance, PTL DEF Spec

-----------------------------------------------------------------------------
(* The types of the list                                                    *)

LEMMA ViewFacts ==
    ASSUME NEW v \in View
    PROVE  /\ v.id \in Convs \cup {None, "view"} /\ v.target \in 0..MaxMsg
           /\ [v EXCEPT !.target = 0] \in View /\ [v EXCEPT !.id = Full] \in View
BY MessageBounds, ClientBounds DEF View

LEMMA SavedFact ==
    ASSUME ListInv
    PROVE  GoodCache(Saved, pendingAcks)
<1> DEFINE e == [id |-> active.id, rows |-> messages, older |-> hasOlder]
<1>1. GoodCache(cache, pendingAcks) /\ GoodRows(messages, active.id, pendingAcks) /\ hasOlder \in BOOLEAN
  BY DEF ListInv, ListTypes, ListRows
<1>2. CASE messages # Empty
  <2>1. e \in CacheEntry /\ e.id = active.id /\ e.rows = messages
    BY <1>1, <1>2 DEF ListInv, ListRows, GoodRows, CacheEntry
  <2> HIDE DEF e
  <2>2. GoodCache(CacheSet(cache, e), pendingAcks)
    BY <1>1, <2>1, GoodCacheSet
  <2>3. Saved = cache \/ Saved = CacheSet(cache, e)
    BY DEF Saved, e
  <2> QED
    BY <1>1, <2>2, <2>3
<1>3. CASE messages = Empty
  BY <1>1, <1>3 DEF Saved
<1> QED
  BY <1>2, <1>3

LEMMA CommitTypes ==
    ASSUME ListInv, React
    PROVE  ListTypes'
<1>1. CASE Commit
  BY <1>1 DEF React, Commit, CommitRefs, ListInv, ListTypes, envVars
<1>2. CASE CommitTargetCleared
  BY <1>2 DEF React, CommitTargetCleared, CommitRefs, LoadingAfterAbort, ListInv, ListTypes, envVars
<1>3. CASE CommitToView
  BY <1>3 DEF React, CommitToView, Switching, CommitRefs, LoadingAfterAbort, ListInv, ListTypes, envVars
<1>4. CASE CommitToTarget
  BY <1>4 DEF React, CommitToTarget, Switching, CommitRefs, LoadingAfterAbort, ListInv, ListTypes, envVars
<1>5. CASE CommitToUncached
  BY <1>5 DEF React, CommitToUncached, Switching, CommitRefs, LoadingAfterAbort, ListInv, ListTypes, envVars
<1>6. CASE CommitToCached
  <2>1. GoodCache(Saved, pendingAcks) /\ Slots(Saved, wanted.id) # {}
    BY <1>6, SavedFact DEF CommitToCached
  <2>2. EntryIn(Saved, wanted.id) \in CacheEntry
    BY <2>1, GoodEntry
  <2>3. hasOlder' = EntryIn(Saved, wanted.id).older
    BY <1>6 DEF CommitToCached
  <2>4. hasOlder' \in BOOLEAN
    BY <2>2, <2>3, EntryFields
  <2>5. /\ active' = wanted /\ wanted' = wanted /\ messagesLoading' = FALSE /\ reconcileId' = 1
        /\ loadingOlder' = FALSE /\ loadingNewer' = FALSE /\ olderDone' = FALSE
        /\ pendingReconnect' = FALSE /\ hasOlderRef' = hasOlder /\ hasNewerRef' = hasNewer
        /\ hasNewer' = (hasNewer /\ wanted.id = active.id) /\ sock' = sock
    BY <1>6 DEF React, CommitToCached, Switching, CommitRefs, envVars
  <2> QED
    BY <2>4, <2>5 DEF ListInv, ListTypes
<1> QED
  BY <1>1, <1>2, <1>3, <1>4, <1>5, <1>6 DEF React

LEMMA AnswerTypes ==
    ASSUME ListInv, NEW r \in reqs, Arrives(r), UNCHANGED sock
    PROVE  ListTypes'
<1>0. r.data.older \in BOOLEAN /\ r.data.newer \in BOOLEAN
  BY DEF ListInv, ListRows, GoodReq
<1>1. CASE DropAnswer(r)
  BY <1>1 DEF DropAnswer, ListInv, ListTypes, listVars
<1>2. CASE LatestArrives(r)
  <2>1. /\ hasOlder' \in BOOLEAN /\ messagesLoading' = FALSE
        /\ UNCHANGED <<active, wanted, hasOlderRef, hasNewer, hasNewerRef, loadingOlder,
                       loadingNewer, olderDone, reconcileId, pendingReconnect>>
    BY <1>2 DEF LatestArrives
  <2> QED
    BY <2>1 DEF ListInv, ListTypes
<1>3. CASE ReconcileArrives(r)
  BY <1>3 DEF ReconcileArrives, ListInv, ListTypes, flagVars
<1>4. CASE ReconcileOutdated(r)
  BY <1>4 DEF ReconcileOutdated, ListInv, ListTypes, flagVars, listVars
<1>5. CASE OlderArrives(r)
  <2>1. /\ hasOlder' \in BOOLEAN /\ olderDone' \in BOOLEAN /\ loadingOlder' = FALSE
        /\ UNCHANGED <<active, wanted, hasOlderRef, hasNewer, hasNewerRef, messagesLoading,
                       loadingNewer, reconcileId, pendingReconnect>>
    BY <1>5 DEF OlderArrives
  <2> QED
    BY <2>1 DEF ListInv, ListTypes
<1>6. CASE NewerArrives(r)
  <2>0. reconcileId \in Nat
    BY DEF ListInv, ListTypes
  <2>1. /\ hasNewer' \in BOOLEAN /\ pendingReconnect' \in BOOLEAN /\ loadingNewer' = FALSE
        /\ UNCHANGED <<active, wanted, hasOlder, hasOlderRef, hasNewerRef, messagesLoading,
                       loadingOlder, olderDone>>
    BY <1>6 DEF NewerArrives
  <2>2. reconcileId' = reconcileId + 1 \/ reconcileId' = reconcileId
    BY <1>6 DEF NewerArrives
  <2>3. reconcileId' \in Nat
    BY <2>0, <2>2
  <2> QED
    BY <2>1, <2>3 DEF ListInv, ListTypes
<1>7. CASE AroundArrives(r)
  BY <1>0, <1>7 DEF AroundArrives, ListInv, ListTypes
<1>8. CASE UnblockedArrives(r)
  BY <1>8 DEF UnblockedArrives, ListInv, ListTypes
<1> QED
  BY <1>1, <1>2, <1>3, <1>4, <1>5, <1>6, <1>7, <1>8 DEF Arrives

typeVars == <<active, wanted, reconcileId, hasOlder, hasOlderRef, hasNewer, hasNewerRef,
              messagesLoading, loadingOlder, loadingNewer, olderDone, pendingReconnect, sock>>

LEMMA TypesKept ==
    ASSUME ListInv, UNCHANGED typeVars
    PROVE  ListTypes'
BY DEF ListInv, ListTypes, typeVars

LEMMA BrowseTypes ==
    ASSUME ListInv, Browse
    PROVE  ListTypes'
<1>1. CASE FetchOlderMessages
  <2>1. /\ loadingOlder' = TRUE
        /\ UNCHANGED <<active, wanted, reconcileId, hasOlder, hasOlderRef, hasNewer, hasNewerRef,
                       messagesLoading, loadingNewer, olderDone, pendingReconnect, sock>>
    BY <1>1 DEF Browse, FetchOlderMessages, listVars, envVars
  <2> QED
    BY <2>1 DEF ListInv, ListTypes
<1>2. CASE FetchNewerMessages
  <2>1. /\ loadingNewer' = TRUE
        /\ UNCHANGED <<active, wanted, reconcileId, hasOlder, hasOlderRef, hasNewer, hasNewerRef,
                       messagesLoading, loadingOlder, olderDone, pendingReconnect, sock>>
    BY <1>2 DEF Browse, FetchNewerMessages, listVars, envVars
  <2> QED
    BY <2>1 DEF ListInv, ListTypes
<1>3. CASE JumpToBottom
  <2>1. /\ hasNewer' = FALSE /\ pendingReconnect' = FALSE /\ messagesLoading' = TRUE
        /\ UNCHANGED <<active, wanted, reconcileId, hasOlder, hasOlderRef, hasNewerRef,
                       loadingOlder, loadingNewer, olderDone, sock>>
    BY <1>3 DEF Browse, JumpToBottom, envVars
  <2> QED
    BY <2>1 DEF ListInv, ListTypes
<1> QED
  BY <1>1, <1>2, <1>3 DEF Browse

LEMMA ReconnectTypes ==
    ASSUME ListInv, SocketOpens
    PROVE  ListTypes'
<1>1. /\ sock' = "open"
      /\ UNCHANGED <<active, wanted, hasOlder, hasOlderRef, hasNewer, hasNewerRef,
                     messagesLoading, loadingOlder, loadingNewer, olderDone>>
  BY DEF SocketOpens, ReconcileOnReconnect, msgVars, listVars, flagVars
<1>2. pendingReconnect' \in BOOLEAN
  BY DEF SocketOpens, ReconcileOnReconnect, msgVars, listVars, flagVars, ListInv, ListTypes
<1>3. reconcileId' = reconcileId \/ reconcileId' = reconcileId + 1
  BY DEF SocketOpens, ReconcileOnReconnect, msgVars, listVars, flagVars
<1>4. reconcileId' \in Nat
  BY <1>3 DEF ListInv, ListTypes
<1> QED
  BY <1>1, <1>2, <1>4 DEF ListInv, ListTypes

LEMMA OpenTypes ==
    ASSUME SendInv, ServerInv, ListInv, wanted' \in View, active' = active,
           UNCHANGED <<listVars, flagVars, sock>>
    PROVE  ListTypes'
BY DEF ListInv, ListTypes, listVars, flagVars

LEMMA TypesNext ==
    ASSUME SendInv, ServerInv, ListInv, Next
    PROVE  ListTypes'
<1>0. active \in View /\ wanted \in View
  BY DEF ListInv, ListTypes
<1>1. CASE React
  BY <1>1, CommitTypes
<1>2. CASE Answer
  BY <1>2, AnswerTypes DEF Answer, envVars
<1>3. CASE Failure
  <2>1. PICK r \in reqs : RequestFails(r)
    BY <1>3 DEF Failure
  <2> QED
    BY <1>3, <2>1 DEF Failure, RequestFails, listVars, ListInv, ListTypes
<1>4. CASE Browse
  BY <1>4, BrowseTypes
<1>5. CASE \E r \in reqs : ServerReads(r)
  BY <1>5, TypesKept DEF ServerReads, listVars, flagVars, envVars, typeVars
<1>6. CASE \E c \in Convs : MessageStored(c)
  BY <1>6, TypesKept DEF MessageStored, msgVars, listVars, flagVars, typeVars
<1>7. CASE \E i \in Stored : AckStored(i)
  BY <1>7, TypesKept DEF AckStored, msgVars, listVars, flagVars, typeVars
<1>8. CASE \E i \in Stored : OpenAtMessage(i)
  <2>1. PICK i \in Stored : OpenAtMessage(i)
    BY <1>8
  <2>2. i \in 0..MaxMsg /\ db[i].c \in Convs
    <3>1. /\ Len(db) \in Nat /\ DOMAIN db = 1..Len(db) /\ Len(db) <= MaxMsg
          /\ \A j \in DOMAIN db : db[j].c \in Convs
      BY DbTypes DEF ServerInv
    <3> QED
      BY <3>1, MessageBounds DEF Stored
  <2>3. wanted' \in View
    BY <2>1, <2>2 DEF OpenAtMessage, View
  <2> QED
    BY <2>1, <2>3, OpenTypes DEF OpenAtMessage
<1>9. CASE ContactResolved
  BY <1>9, TypesKept DEF ContactResolved, msgVars, listVars, flagVars, typeVars
<1>10. CASE SocketOpens
  BY <1>10, ReconnectTypes
<1>11. CASE SocketCloses \/ ReconnectTimer
  <2>1. sock' \in {"waiting", "closed"} /\ UNCHANGED msgVars
    BY <1>11 DEF SocketCloses, ReconnectTimer
  <2> QED
    BY <2>1 DEF ListInv, ListTypes, msgVars, listVars, flagVars
<1>12. CASE OnMessage
  BY <1>12, TypesKept DEF OnMessage, ObserveMessage, msgVars, listVars, flagVars, typeVars
<1>13. CASE OnMessageAcked
  BY <1>13, TypesKept DEF OnMessageAcked, ReceiveMessageAck, flagVars, typeVars
<1>14. CASE OnContactResolved
  <2>1. wanted' \in View
    BY <1>0, <1>14, ViewFacts DEF OnContactResolved
  <2> QED
    BY <1>14, <2>1, OpenTypes DEF OnContactResolved
<1>15. CASE \E c \in Convs \cup {"view"} : SelectConversation(c)
  <2>1. PICK c \in Convs \cup {"view"} : SelectConversation(c)
    BY <1>15
  <2>2. wanted' \in View
    BY <2>1, MessageBounds DEF SelectConversation, View
  <2> QED
    BY <2>1, <2>2, OpenTypes DEF SelectConversation
<1>16. CASE TargetReached
  <2>1. wanted' \in View
    BY <1>0, <1>16, ViewFacts DEF TargetReached
  <2> QED
    BY <1>16, <2>1, OpenTypes DEF TargetReached, envVars
<1>17. CASE ToggleBlocked
  <2>1. /\ olderDone' \in BOOLEAN
        /\ UNCHANGED <<active, wanted, reconcileId, hasOlder, hasOlderRef, hasNewer, hasNewerRef,
                       messagesLoading, loadingOlder, loadingNewer, pendingReconnect, sock>>
    BY <1>17 DEF ToggleBlocked, ApplyBlockListChange
  <2> QED
    BY <2>1 DEF ListInv, ListTypes
<1>18. CASE HandleSendMessage
  BY <1>18, TypesKept DEF HandleSendMessage, msgVars, listVars, flagVars, typeVars
<1>19. CASE \E k \in DOMAIN sends : ServerAccepts(k)
  BY <1>19, TypesKept DEF ServerAccepts, msgVars, listVars, flagVars, typeVars
<1>20. CASE SendReturns
  BY <1>20, TypesKept DEF SendReturns, ObserveMessage, msgVars, listVars, flagVars, typeVars
<1>21. CASE SendFails
  BY <1>21, TypesKept DEF SendFails, msgVars, listVars, flagVars, typeVars
<1> QED
  BY <1>1, <1>2, <1>3, <1>4, <1>5, <1>6, <1>7, <1>8, <1>9, <1>10, <1>11, <1>12, <1>13, <1>14,
     <1>15, <1>16, <1>17, <1>18, <1>19, <1>20, <1>21 DEF Next

-----------------------------------------------------------------------------
(* The rows of the list                                                     *)

LEMMA GoodCacheLess ==
    ASSUME NEW q, NEW p, NEW s, GoodCache(q, p),
           \A i \in DOMAIN s : i \in DOMAIN p /\ s[i] = p[i]
    PROVE  GoodCache(q, s)
BY GoodWithLess DEF GoodCache

\* The rows the server keeps move, the client's stay good.
LEMMA GoodRowsMoved ==
    ASSUME FiledByKey, RowsMove, NEW f, NEW c, NEW p, GoodRows(f, c, p)
    PROVE  GoodRows(f, c, p)'
<1>1. \A i \in DOMAIN f : i \in Stored /\ Of(i, c)
  BY DEF GoodRows
<1>2. \A i \in DOMAIN f : i \in Stored' /\ Of(i, c)'
  BY <1>1, KeysStay DEF RowsMove, Stored
<1>3. \A i \in DOMAIN f : db'[i].k = db'[i].c => db[i].k = db[i].c
  BY <1>1, KeysStay
<1> QED
  BY <1>2, <1>3 DEF GoodRows

clientVars == <<active, messages, messagesRef, pendingAcks, seen, cache, reqs>>

LEMMA RowsMoved ==
    ASSUME ServerInv, ListInv, RowsMove, UNCHANGED clientVars
    PROVE  ListRows'
<1>1. \A f, c, p : GoodRows(f, c, p) => GoodRows(f, c, p)'
  BY GoodRowsMoved DEF ServerInv
<1>2. GoodRows(messages, active.id, pendingAcks)'
  BY <1>1 DEF ListInv, ListRows, clientVars
<1>3. GoodCache(cache, pendingAcks)'
  <2>1. GoodCache(cache, pendingAcks) /\ cache' = cache /\ pendingAcks' = pendingAcks
    BY DEF ListInv, ListRows, clientVars
  <2>2. \A k \in DOMAIN cache : GoodRows(cache[k].rows, cache[k].id, pendingAcks)
    BY <2>1 DEF GoodCache
  <2>3. \A k \in DOMAIN cache' : GoodRows(cache[k].rows, cache[k].id, pendingAcks)'
    BY <1>1, <2>1, <2>2
  <2> QED
    BY <2>1, <2>3 DEF GoodCache, OneEntryPerKey
<1>4. \A r \in reqs' : GoodReq(r)'
  <2>1. Empty' = Empty /\ reqs' = reqs /\ \A r \in reqs : GoodReq(r)
    BY DEF Empty, ListInv, ListRows, clientVars
  <2>2. ASSUME NEW r, GoodReq(r) PROVE GoodReq(r)'
    <3>1. GoodRows(r.data.rows, r.c, Empty)
      BY <2>2 DEF GoodReq
    <3>2. GoodRows(r.data.rows, r.c, Empty)'
      BY <1>1, <2>1, <3>1
    <3> QED
      BY <2>2, <3>2 DEF GoodReq
  <2> QED
    BY <2>1, <2>2
<1> QED
  BY <1>2, <1>3, <1>4 DEF ListInv, ListRows, SeenCoversShown, clientVars

\* Only the client moves.
LEMMA ClientMoved ==
    ASSUME UNCHANGED db, messagesRef' \in RowSet, pendingAcks' \in RowSet, seen' \subseteq Ids,
           GoodRows(messages', active'.id, pendingAcks'), DOMAIN messages' \subseteq seen',
           active'.id \notin Convs => messages' = Empty,
           GoodCache(cache', pendingAcks'), \A r \in reqs' : GoodReq(r)
    PROVE  ListRows'
<1>1. Stored' = Stored /\ \A i, c : Of(i, c)' <=> Of(i, c)
  BY DEF Stored, Of
<1>2. \A f, c, p : GoodRows(f, c, p)' <=> GoodRows(f, c, p)
  BY <1>1 DEF GoodRows
<1>3. GoodRows(messages, active.id, pendingAcks)'
  BY <1>2
<1>4. GoodCache(cache, pendingAcks)'
  BY <1>2 DEF GoodCache, OneEntryPerKey
<1>5. \A r \in reqs' : GoodReq(r)'
  <2>1. Empty' = Empty
    BY DEF Empty
  <2>2. ASSUME NEW r, GoodReq(r) PROVE GoodReq(r)'
    <3>1. GoodRows(r.data.rows, r.c, Empty)
      BY <2>2 DEF GoodReq
    <3>2. GoodRows(r.data.rows, r.c, Empty)'
      BY <1>2, <2>1, <3>1
    <3> QED
      BY <2>2, <3>2 DEF GoodReq
  <2> QED
    BY <2>2
<1> QED
  BY <1>3, <1>4, <1>5 DEF ListRows, SeenCoversShown

LEMMA RowsKept ==
    ASSUME ListInv, UNCHANGED <<clientVars, db>>
    PROVE  ListRows'
BY ClientMoved DEF ListInv, ListRows, clientVars, SeenCoversShown

LEMMA RowsIds ==
    ASSUME NEW f, NEW c, NEW p, GoodRows(f, c, p)
    PROVE  f \in RowSet /\ DOMAIN f \subseteq Ids
BY RowSetFact DEF GoodRows

LEMMA NewReq ==
    ASSUME NEW k \in {"latest", "reconcile", "older", "newer", "unblock", "around"},
           NEW c \in Convs, NEW a, NEW id, NEW ab
    PROVE  GoodReq(Req(k, c, a, id, ab))
<1>1. /\ Req(k, c, a, id, ab).k = k /\ Req(k, c, a, id, ab).c = c
      /\ Req(k, c, a, id, ab).data = NoData
      /\ DOMAIN Req(k, c, a, id, ab) = {"k", "c", "a", "id", "ab", "from", "done", "data"}
  BY DEF Req
<1>2. NoData.rows = Empty /\ NoData.older \in BOOLEAN /\ NoData.newer \in BOOLEAN
  BY DEF NoData
<1>3. GoodRows(Empty, c, Empty)
  BY GoodEmpty
<1> QED
  BY <1>1, <1>2, <1>3 DEF GoodReq

-----------------------------------------------------------------------------
(* React's commits                                                          *)

LEMMA CommitRows ==
    ASSUME ListInv, React
    PROVE  ListRows'
<1>0. /\ GoodRows(messages, active.id, pendingAcks) /\ GoodCache(cache, pendingAcks)
      /\ DOMAIN messages \subseteq seen /\ seen \subseteq Ids /\ pendingAcks \in RowSet
      /\ (active.id \notin Convs => messages = Empty) /\ \A r \in reqs : GoodReq(r)
      /\ messages \in RowSet /\ wanted \in View
  BY DEF ListInv, ListTypes, ListRows, SeenCoversShown, GoodRows
<1>1. UNCHANGED <<db, pendingAcks>> /\ messagesRef' = messages
  BY DEF React, Commit, CommitTargetCleared, CommitToView, CommitToTarget, CommitToCached,
         CommitToUncached, Switching, CommitRefs, envVars
<1>2. CASE Commit
  <2>1. UNCHANGED <<active, messages, seen, cache, reqs>>
    BY <1>2 DEF Commit
  <2> QED
    BY <1>0, <1>1, <2>1, ClientMoved
<1>3. CASE CommitTargetCleared
  <2>1. UNCHANGED <<messages, seen, cache>> /\ active'.id = active.id /\ \A r \in reqs' : r \in reqs
    BY <1>3 DEF CommitTargetCleared, Kept
  <2> QED
    BY <1>0, <1>1, <2>1, ClientMoved
<1>4. GoodCache(Saved, pendingAcks)
  BY SavedFact
<1>5. DOMAIN Empty \subseteq seen /\ \A c : GoodRows(Empty, c, pendingAcks)
  BY EmptyRows, GoodEmpty
<1>6. CASE CommitToView
  <2>1. messages' = Empty /\ cache' = Saved /\ seen' = seen /\ \A r \in reqs' : r \in reqs
    BY <1>6 DEF CommitToView, Kept
  <2> QED
    BY <1>0, <1>1, <1>4, <1>5, <2>1, ClientMoved
<1>7. CASE CommitToTarget
  <2>1. messages' = Empty /\ cache' = Saved /\ seen' = seen /\ wanted.id \in Convs
    BY <1>7 DEF CommitToTarget, IsMessageConversation
  <2>2. \A r \in reqs' : r \in reqs \/ r = Req("around", wanted.id, wanted.target, 0, TRUE)
    BY <1>7 DEF CommitToTarget, Kept
  <2>3. \A r \in reqs' : GoodReq(r)
    BY <1>0, <2>1, <2>2, NewReq
  <2> QED
    BY <1>0, <1>1, <1>4, <1>5, <2>1, <2>3, ClientMoved
<1>8. CASE CommitToUncached
  <2>1. messages' = Empty /\ cache' = Saved /\ seen' = seen /\ wanted.id \in Convs
    BY <1>8 DEF CommitToUncached, IsMessageConversation
  <2>2. \A r \in reqs' : r \in reqs \/ r = Req("latest", wanted.id, 0, 0, TRUE)
    BY <1>8 DEF CommitToUncached, Kept
  <2>3. \A r \in reqs' : GoodReq(r)
    BY <1>0, <2>1, <2>2, NewReq
  <2> QED
    BY <1>0, <1>1, <1>4, <1>5, <2>1, <2>3, ClientMoved
<1>9. CASE CommitToCached
  <2> DEFINE e == EntryIn(Saved, wanted.id)
  <2>1. /\ messages' = e.rows /\ seen' = DOMAIN e.rows /\ cache' = CacheGet(Saved, wanted.id)
        /\ active' = wanted /\ wanted.id \in Convs /\ Slots(Saved, wanted.id) # {}
    BY <1>9 DEF CommitToCached, Switching, IsMessageConversation, SeenOf
  <2>2. \A r \in reqs' : r \in reqs \/ r = Req("reconcile", wanted.id, 0, 1, TRUE)
    BY <1>9 DEF CommitToCached, Kept
  <2>3. \A r \in reqs' : GoodReq(r)
    BY <1>0, <2>1, <2>2, NewReq
  <2>4. GoodRows(e.rows, wanted.id, pendingAcks)
    BY <1>4, <2>1, GoodEntry
  <2>5. GoodCache(cache', pendingAcks)
    BY <1>4, <2>1, GoodCacheGet
  <2>6. DOMAIN e.rows \subseteq Ids
    BY <2>4, RowsIds
  <2> HIDE DEF e
  <2> QED
    BY <1>0, <1>1, <2>1, <2>3, <2>4, <2>5, <2>6, ClientMoved
<1> QED
  BY <1>2, <1>3, <1>6, <1>7, <1>8, <1>9 DEF React

LEMMA ListFacts ==
    ASSUME ListInv
    PROVE  /\ GoodRows(messages, active.id, pendingAcks) /\ GoodCache(cache, pendingAcks)
           /\ DOMAIN messages \subseteq seen /\ seen \subseteq Ids /\ pendingAcks \in RowSet
           /\ messages \in RowSet /\ messagesRef \in RowSet
           /\ (active.id \notin Convs => messages = Empty) /\ \A r \in reqs : GoodReq(r)
BY DEF ListInv, ListRows, SeenCoversShown, GoodRows

\* Under Prompt, whatever is not a commit starts from committed state.
LEMMA CommittedFirst ==
    ASSUME Prompt, Ready
    PROVE  messages = messagesRef /\ ~Dirty
BY DEF Ready, Dirty

-----------------------------------------------------------------------------
(* Answers                                                                  *)

\* What an answer of the open conversation has to do.
LEMMA AnswerApplied ==
    ASSUME ListInv, NEW r \in reqs, Ours(r), UNCHANGED <<active, cache, db>>,
           NEW g, pendingAcks' = AcksLeft(g), GoodRows(messages', active.id, pendingAcks),
           messagesRef' \in RowSet, DOMAIN messages' \subseteq seen', seen' \subseteq Ids,
           \A s \in reqs' : GoodReq(s)
    PROVE  ListRows'
<1>1. /\ GoodCache(cache, pendingAcks) /\ pendingAcks \in RowSet /\ active.id \in Convs
  BY ListFacts DEF Ours, GoodReq
<1>2. pendingAcks' \in RowSet /\ \A i \in DOMAIN pendingAcks' : i \in DOMAIN pendingAcks /\ pendingAcks'[i] = pendingAcks[i]
  BY <1>1, AcksLeftFact
<1>3. GoodCache(cache', pendingAcks')
  BY <1>1, <1>2, GoodCacheLess
<1>4. GoodRows(messages', active'.id, pendingAcks')
  BY <1>2, GoodWithLess
<1> QED
  BY <1>1, <1>2, <1>3, <1>4, ClientMoved

LEMMA ReconciledFact ==
    ASSUME NEW f, NEW g, NEW c, NEW p, GoodRows(f, c, p), GoodRows(g, c, p)
    PROVE  GoodRows(Reconciled(f, g), c, p)
BY GoodOver DEF Reconciled

LEMMA AnswerRows ==
    ASSUME Prompt, ListInv, Ready, UNCHANGED db, NEW r \in reqs, Arrives(r)
    PROVE  ListRows'
<1> DEFINE rows    == r.data.rows
           fetched == WithPendingAcks(rows)
<1>0. /\ GoodRows(messages, active.id, pendingAcks) /\ GoodCache(cache, pendingAcks)
      /\ DOMAIN messages \subseteq seen /\ seen \subseteq Ids /\ pendingAcks \in RowSet
      /\ messages \in RowSet /\ messagesRef \in RowSet
      /\ (active.id \notin Convs => messages = Empty) /\ \A s \in reqs : GoodReq(s)
      /\ messagesRef = messages /\ ~Dirty
  BY ListFacts, CommittedFirst
<1>1. GoodRows(rows, r.c, Empty)
  BY <1>0 DEF GoodReq
<1>2. GoodRows(fetched, r.c, pendingAcks) /\ DOMAIN fetched = DOMAIN rows
  BY <1>0, <1>1, WithPendingAcksFact
<1> HIDE DEF rows, fetched
<1>3. CASE DropAnswer(r)
  <2>1. UNCHANGED <<active, messages, messagesRef, pendingAcks, seen, cache>> /\ \A s \in reqs' : s \in reqs
    BY <1>3 DEF DropAnswer, listVars
  <2> QED
    BY <1>0, <2>1, ClientMoved
<1>4. CASE LatestArrives(r)
  <2> DEFINE next == Reconciled(messagesRef, fetched)
  <2>1. /\ messages' = (IF next = messagesRef THEN messages ELSE next) /\ seen' = DOMAIN next
        /\ pendingAcks' = AcksLeft(rows) /\ \A s \in reqs' : s \in reqs
        /\ UNCHANGED <<active, messagesRef, cache>> /\ Ours(r) /\ r.c = active.id
    BY <1>4 DEF LatestArrives, SeenOf, rows, fetched, Ours
  <2>2. GoodRows(next, active.id, pendingAcks)
    BY <1>0, <1>2, <2>1, ReconciledFact
  <2>3. DOMAIN next \subseteq Ids
    BY <2>2, RowsIds
  <2> HIDE DEF next
  <2>4. messages' = next
    BY <1>0, <2>1
  <2> QED
    BY <1>0, <2>1, <2>2, <2>3, <2>4, AnswerApplied
<1>5. CASE ReconcileArrives(r)
  <2> DEFINE next == Reconciled(messagesRef, fetched)
  <2>1. /\ pendingAcks' = AcksLeft(rows) /\ \A s \in reqs' : s \in reqs
        /\ UNCHANGED <<active, messagesRef, cache>> /\ Ours(r) /\ r.c = active.id
        /\ (messages' = next /\ seen' = DOMAIN next) \/ UNCHANGED <<messages, seen>>
    BY <1>5 DEF ReconcileArrives, SeenOf, rows, fetched, Ours
  <2>2. GoodRows(next, active.id, pendingAcks)
    BY <1>0, <1>2, <2>1, ReconciledFact
  <2>3. DOMAIN next \subseteq Ids
    BY <2>2, RowsIds
  <2> HIDE DEF next
  <2>4. /\ GoodRows(messages', active.id, pendingAcks) /\ DOMAIN messages' \subseteq seen'
        /\ seen' \subseteq Ids
    BY <1>0, <2>1, <2>2, <2>3
  <2> QED
    BY <1>0, <2>1, <2>4, AnswerApplied
<1>6. CASE ReconcileOutdated(r)
  <2>1. UNCHANGED <<active, messages, messagesRef, pendingAcks, seen, cache>> /\ \A s \in reqs' : s \in reqs
    BY <1>6 DEF ReconcileOutdated, listVars
  <2> QED
    BY <1>0, <2>1, ClientMoved
<1>7. CASE OlderArrives(r)
  <2> DEFINE next == AppendUnique(messages, fetched)
  <2>1. /\ pendingAcks' = AcksLeft(rows) /\ \A s \in reqs' : s \in reqs
        /\ UNCHANGED <<active, cache>> /\ Ours(r) /\ r.c = active.id
        /\ messages' = next
        /\ IF next # messages THEN messagesRef' = next /\ seen' = DOMAIN next
           ELSE UNCHANGED <<messagesRef, seen>>
    BY <1>0, <1>7 DEF OlderArrives, SeenOf, rows, fetched, Ours
  <2>2. GoodRows(next, active.id, pendingAcks)
    BY <1>0, <1>2, <2>1, GoodOver DEF AppendUnique
  <2>3. next \in RowSet /\ DOMAIN next \subseteq Ids
    BY <2>2, RowsIds
  <2> HIDE DEF next
  <2>4. messagesRef' \in RowSet /\ DOMAIN messages' \subseteq seen' /\ seen' \subseteq Ids
    BY <1>0, <2>1, <2>3
  <2> QED
    BY <1>0, <2>1, <2>2, <2>4, AnswerApplied
<1>8. CASE NewerArrives(r)
  <2> DEFINE fresh == At(fetched, DOMAIN fetched \ seen)
             next  == Over(messages, fresh)
  <2>1. /\ pendingAcks' = AcksLeft(fetched) /\ messages' = next
        /\ seen' = seen \cup DOMAIN fetched
        /\ UNCHANGED <<active, messagesRef, cache>> /\ Ours(r) /\ r.c = active.id
    BY <1>8 DEF NewerArrives, rows, fetched, Ours
  <2>2. \A s \in reqs' : s \in reqs \/ s = Req("reconcile", active.id, 0, reconcileId + 1, FALSE)
    BY <1>8 DEF NewerArrives
  <2>3. active.id \in Convs
    BY <1>0, <2>1 DEF GoodReq
  <2>4. \A s \in reqs' : GoodReq(s)
    BY <1>0, <2>2, <2>3, NewReq
  <2>5. GoodRows(fresh, active.id, pendingAcks)
    BY <1>2, <2>1, GoodAt
  <2>6. GoodRows(next, active.id, pendingAcks)
    BY <1>0, <2>5, GoodOver
  <2>7. fetched \in RowSet /\ DOMAIN fetched \subseteq Ids
    BY <1>2, RowsIds
  <2>8. DOMAIN next = DOMAIN messages \cup (DOMAIN fetched \ seen)
    <3>1. fresh \in RowSet /\ DOMAIN fresh = DOMAIN fetched \ seen
      BY <2>7, AtFact
    <3> QED
      BY <1>0, <3>1, OverFact
  <2> HIDE DEF next, fresh
  <2>9. DOMAIN messages' \subseteq seen' /\ seen' \subseteq Ids
    BY <1>0, <2>1, <2>7, <2>8
  <2> QED
    BY <1>0, <2>1, <2>4, <2>6, <2>9, AnswerApplied
<1>9. CASE AroundArrives(r)
  <2>1. /\ pendingAcks' = AcksLeft(rows) /\ \A s \in reqs' : s \in reqs
        /\ UNCHANGED <<active, messagesRef, cache>> /\ Ours(r) /\ r.c = active.id
        /\ messages' = fetched /\ seen' = DOMAIN rows
    BY <1>9 DEF AroundArrives, SeenOf, rows, fetched, Ours
  <2>2. DOMAIN fetched \subseteq Ids
    BY <1>2, RowsIds
  <2> QED
    BY <1>0, <1>2, <2>1, <2>2, AnswerApplied
<1>10. CASE UnblockedArrives(r)
  <2> DEFINE inWindow == {i \in DOMAIN rows : hasNewerRef => i <= r.id}
             part == At(fetched, inWindow)
             merged == AppendUnique(messagesRef, part)
  <2>1. /\ pendingAcks' = AcksLeft(At(rows, inWindow)) /\ \A s \in reqs' : s \in reqs
        /\ UNCHANGED <<active, cache>> /\ Ours(r) /\ r.c = active.id
        /\ IF merged # messagesRef THEN messages' = merged /\ messagesRef' = merged /\ seen' = DOMAIN merged
           ELSE UNCHANGED <<messages, messagesRef, seen>>
    BY <1>10 DEF UnblockedArrives, SeenOf, rows, fetched, Ours
  <2>2. inWindow \subseteq DOMAIN fetched
    BY <1>2
  <2> HIDE DEF inWindow
  <2>3. GoodRows(part, active.id, pendingAcks)
    BY <1>2, <2>1, <2>2, GoodAt
  <2>4. GoodRows(merged, active.id, pendingAcks)
    BY <1>0, <2>3, GoodOver DEF AppendUnique
  <2>5. merged \in RowSet /\ DOMAIN merged \subseteq Ids
    BY <2>4, RowsIds
  <2> HIDE DEF merged
  <2>6. /\ GoodRows(messages', active.id, pendingAcks) /\ messagesRef' \in RowSet
        /\ DOMAIN messages' \subseteq seen' /\ seen' \subseteq Ids
    BY <1>0, <2>1, <2>4, <2>5
  <2> QED
    BY <1>0, <2>1, <2>6, AnswerApplied
<1> QED
  BY <1>3, <1>4, <1>5, <1>6, <1>7, <1>8, <1>9, <1>10 DEF Arrives

LEMMA ReplyFact ==
    ASSUME SendInv, ServerInv, NEW r, GoodReq(r)
    PROVE  GoodRows(AcksOf(ReplyRows(r)), r.c, Empty)
<1> DEFINE S == ReplyRows(r)
           f == AcksOf(S)
<1>1. S \subseteq Visible(r.c)
  BY DEF ReplyRows, GoodReq, Newest, Oldest
<1>2. \A i \in S : i \in Stored /\ db[i].c = r.c
  BY <1>1 DEF Visible
<1>3. Stored \subseteq Ids /\ \A i \in Stored : db[i].ack \in Nat
  BY DbTypes, MessageBounds DEF ServerInv, Stored, Ids
<1> HIDE DEF S
<1>4. f \in RowSet /\ DOMAIN f = S
  BY <1>2, <1>3, RowSetFact DEF AcksOf
<1>5. DOMAIN Empty = {}
  BY EmptyRows
<1> HIDE DEF f
<1>6. GoodRows(f, r.c, Empty)
  BY <1>2, <1>4, <1>5 DEF GoodRows, Of
<1> QED
  BY <1>6 DEF f, S

LEMMA ReadRows ==
    ASSUME SendInv, ServerInv, ListInv, NEW r \in reqs, ServerReads(r)
    PROVE  ListRows'
<1> DEFINE data == [rows  |-> AcksOf(ReplyRows(r)),
                    older |-> r.k = "around" /\ \E i \in Visible(r.c) : i < r.a,
                    newer |-> r.k = "around" /\ \E i \in Visible(r.c) : i > r.a]
           s == [r EXCEPT !.done = TRUE, !.data = data]
<1>1. GoodReq(r)
  BY ListFacts
<1>2. /\ data.rows = AcksOf(ReplyRows(r)) /\ data.older \in BOOLEAN /\ data.newer \in BOOLEAN
  OBVIOUS
<1>3. \A q \in reqs' : q \in reqs \/ q = s
  BY DEF ServerReads
<1> HIDE DEF data
<1>4. s.k = r.k /\ s.c = r.c /\ s.data = data /\ DOMAIN s = DOMAIN r
  BY <1>1 DEF GoodReq
<1> HIDE DEF s
<1>5. GoodReq(s)
  BY <1>1, <1>2, <1>4, ReplyFact DEF GoodReq
<1>6. \A q \in reqs' : GoodReq(q)
  BY <1>3, <1>5, ListFacts
<1>7. UNCHANGED <<active, messages, messagesRef, pendingAcks, seen, cache, db>>
  BY DEF ServerReads, listVars, envVars
<1> QED
  BY <1>6, <1>7, ListFacts, ClientMoved

LEMMA BrowseRows ==
    ASSUME ListInv, Browse
    PROVE  ListRows'
<1>0. UNCHANGED <<db, active, seen, pendingAcks, messagesRef>> /\ active.id \in Convs
  BY DEF Browse, FetchOlderMessages, FetchNewerMessages, JumpToBottom, IsMessageConversation,
         envVars, listVars
<1>1. CASE FetchOlderMessages
  <2> DEFINE new == Req("older", active.id, Min(DOMAIN messagesRef), 0, TRUE)
             s == [new EXCEPT !.from = messagesRef]
  <2>1. UNCHANGED <<messages, cache>> /\ \A q \in reqs' : q \in reqs \/ q = s
    BY <1>1 DEF FetchOlderMessages, listVars
  <2>2. GoodReq(new)
    BY <1>0, NewReq
  <2> HIDE DEF new
  <2>3. GoodReq(s)
    <3>1. s.k = new.k /\ s.c = new.c /\ s.data = new.data /\ DOMAIN s = DOMAIN new
      BY <2>2 DEF GoodReq
    <3> HIDE DEF s
    <3> QED
      BY <2>2, <3>1 DEF GoodReq
  <2> QED
    BY <1>0, <2>1, <2>3, ListFacts, ClientMoved
<1>2. CASE FetchNewerMessages
  <2> DEFINE new == Req("newer", active.id, Max(DOMAIN messagesRef), 0, TRUE)
  <2>1. UNCHANGED <<messages, cache>> /\ \A q \in reqs' : q \in reqs \/ q = new
    BY <1>2 DEF FetchNewerMessages, listVars
  <2>2. GoodReq(new)
    BY <1>0, NewReq
  <2> QED
    BY <1>0, <2>1, <2>2, ListFacts, ClientMoved
<1>3. CASE JumpToBottom
  <2> DEFINE new == Req("latest", active.id, 0, 0, FALSE)
  <2>1. messages' = Empty /\ cache' = CacheRemove(cache, active.id) /\ \A q \in reqs' : q \in reqs \/ q = new
    BY <1>3 DEF JumpToBottom
  <2>2. GoodReq(new)
    BY <1>0, NewReq
  <2>3. GoodRows(Empty, active.id, pendingAcks) /\ DOMAIN Empty = {}
    BY GoodEmpty, EmptyRows
  <2>4. GoodCache(cache', pendingAcks)
    BY <2>1, ListFacts, GoodCacheRemove
  <2> HIDE DEF new
  <2> QED
    BY <1>0, <2>1, <2>2, <2>3, <2>4, ListFacts, ClientMoved
<1> QED
  BY <1>1, <1>2, <1>3 DEF Browse

LEMMA ReconnectRows ==
    ASSUME ListInv, SocketOpens
    PROVE  ListRows'
<1> DEFINE new == Req("reconcile", active.id, 0, reconcileId + 1, FALSE)
<1>1. UNCHANGED <<db, active, messages, messagesRef, pendingAcks, seen, cache>>
  BY DEF SocketOpens, ReconcileOnReconnect, msgVars, listVars
<1>2. \A q \in reqs' : q \in reqs \/ (q = new /\ active.id \in Convs)
  BY DEF SocketOpens, ReconcileOnReconnect, msgVars, IsMessageConversation
<1>3. active.id \in Convs => GoodReq(new)
  BY NewReq
<1> HIDE DEF new
<1> QED
  BY <1>1, <1>2, <1>3, ListFacts, ClientMoved

LEMMA BlockRows ==
    ASSUME Prompt, ListInv, ToggleBlocked
    PROVE  ListRows'
<1> DEFINE ids == IF blocked THEN {} ELSE Rude
           visible == At(messagesRef, DOMAIN messagesRef \ ids)
           new == Req("unblock", active.id, Min(DOMAIN visible), Max(DOMAIN visible), FALSE)
<1>0. messagesRef = messages
  BY CommittedFirst DEF ToggleBlocked, Move
<1>1. /\ UNCHANGED <<db, active, pendingAcks>> /\ cache' = <<>>
      /\ \/ /\ messages' = visible /\ messagesRef' = visible /\ seen' = DOMAIN visible
            /\ active.id \in Convs
         \/ UNCHANGED <<messages, messagesRef, seen>>
      /\ \A q \in reqs' : q \in reqs \/ (q = new /\ active.id \in Convs)
  BY DEF ToggleBlocked, ApplyBlockListChange, IsMessageConversation, SeenOf
<1>2. active.id \in Convs => GoodReq(new)
  BY NewReq
<1>3. GoodRows(visible, active.id, pendingAcks)
  BY <1>0, ListFacts, GoodAt
<1>4. visible \in RowSet /\ DOMAIN visible \subseteq Ids
  BY <1>3, RowsIds
<1>5. GoodCache(cache', pendingAcks)
  BY <1>1, MessageBounds DEF GoodCache, OneEntryPerKey
<1> HIDE DEF new, visible
<1>6. \A q \in reqs' : GoodReq(q)
  BY <1>1, <1>2, ListFacts
<1> QED
  BY <1>1, <1>3, <1>4, <1>5, <1>6, ListFacts, ClientMoved

\* observeMessage on a row the server has stored for conversation c.
LEMMA ObserveRows ==
    ASSUME SendInv, ServerInv, ListInv, UNCHANGED db, NEW c \in Convs, NEW i \in Stored, Of(i, c),
           NEW n \in Nat, ObserveMessage(c, i, n)
    PROVE  ListRows'
<1> DEFINE one  == Row(i, n)
           ack  == WithPendingAcks(one)[i]
           row  == Row(i, ack)
           left == AcksLeft(one)
<1>0. /\ GoodRows(messages, active.id, pendingAcks) /\ GoodCache(cache, pendingAcks)
      /\ DOMAIN messages \subseteq seen /\ seen \subseteq Ids /\ pendingAcks \in RowSet
      /\ messages \in RowSet /\ messagesRef \in RowSet
      /\ (active.id \notin Convs => messages = Empty) /\ \A r \in reqs : GoodReq(r)
  BY ListFacts
<1>1. i \in Ids
  BY DbTypes, MessageBounds DEF ServerInv, Stored, Ids
<1>2. one \in RowSet /\ DOMAIN one = {i} /\ one[i] = n
  BY <1>1, RowFact
<1>3. GoodRows(one, c, Empty)
  BY <1>2, EmptyRows DEF GoodRows
<1>4. left \in RowSet /\ DOMAIN left = DOMAIN pendingAcks \ {i} /\ \A j \in DOMAIN left : left[j] = pendingAcks[j]
  BY <1>0, <1>2, AcksLeftFact
<1>5. ack \in Nat
  <2>1. GoodRows(WithPendingAcks(one), c, pendingAcks) /\ DOMAIN WithPendingAcks(one) = DOMAIN one
    BY <1>0, <1>3, WithPendingAcksFact
  <2> QED
    BY <1>2, <2>1, GoodNatural
<1> HIDE DEF ack
<1>6. row \in RowSet /\ DOMAIN row = {i}
  BY <1>1, <1>5, RowFact
<1>7. GoodRows(row, c, left)
  BY <1>4, <1>6 DEF GoodRows
<1>8. /\ pendingAcks' = left /\ UNCHANGED <<active, messagesRef, reqs>>
      /\ \/ c # active.id /\ cache' = CacheAdd(c, i, ack) /\ UNCHANGED <<messages, seen>>
         \/ UNCHANGED <<cache, messages, seen>>
         \/ /\ c = active.id /\ seen' = seen \cup {i}
            /\ messages' = Over(messages, row) /\ cache' = cache
  BY DEF ObserveMessage, ack
<1> HIDE DEF one, left, row
<1>9. GoodCache(cache, left) /\ GoodRows(messages, active.id, left)
  BY <1>0, <1>4, GoodCacheLess, GoodWithLess
<1>10. CASE c # active.id /\ cache' = CacheAdd(c, i, ack) /\ UNCHANGED <<messages, seen>>
  <2>1. GoodCache(cache', left)
    BY <1>7, <1>9, <1>10, GoodCacheAdd DEF row
  <2> QED
    BY <1>0, <1>4, <1>8, <1>9, <1>10, <2>1, ClientMoved
<1>11. CASE UNCHANGED <<cache, messages, seen>>
  BY <1>0, <1>4, <1>8, <1>9, <1>11, ClientMoved
<1>12. CASE /\ c = active.id /\ seen' = seen \cup {i}
            /\ messages' = Over(messages, row) /\ cache' = cache
  <2>1. GoodRows(messages', active.id, left)
    BY <1>7, <1>9, <1>12, GoodOver
  <2>2. DOMAIN messages' = DOMAIN messages \cup {i}
    <3>1. DOMAIN Over(messages, row) = DOMAIN messages \cup DOMAIN row
      BY <1>0, <1>6, OverFact
    <3> QED
      BY <1>6, <1>12, <3>1
  <2>3. DOMAIN messages' \subseteq seen' /\ seen' \subseteq Ids
    BY <1>0, <1>1, <1>12, <2>2
  <2> QED
    BY <1>0, <1>4, <1>8, <1>9, <1>12, <2>1, <2>3, ClientMoved
<1> QED
  BY <1>8, <1>10, <1>11, <1>12

\* receiveMessageAck: the row shown, else the buffer, and the cache.
LEMMA AckRows ==
    ASSUME Prompt, Ready, SendInv, ServerInv, ListInv, UNCHANGED db, NEW i \in Stored, NEW n \in Nat,
           ReceiveMessageAck(i, n)
    PROVE  ListRows'
<1>0. /\ GoodRows(messages, active.id, pendingAcks) /\ GoodCache(cache, pendingAcks)
      /\ DOMAIN messages \subseteq seen /\ seen \subseteq Ids /\ pendingAcks \in RowSet
      /\ messages \in RowSet /\ messagesRef \in RowSet
      /\ (active.id \notin Convs => messages = Empty) /\ \A r \in reqs : GoodReq(r)
      /\ messagesRef = messages
  BY ListFacts, CommittedFirst
<1>1. i \in Ids
  BY DbTypes, MessageBounds DEF ServerInv, Stored, Ids
<1>2. UNCHANGED <<active, messagesRef, seen, reqs>> /\ cache' = CacheAck(i, n)
  BY DEF ReceiveMessageAck
<1>3. CASE i \in DOMAIN messages
  <2> DEFINE f == [messages EXCEPT ![i] = IF n > @ THEN n ELSE @]
             left == At(pendingAcks, DOMAIN pendingAcks \ {i})
  <2>1. messages' = f /\ pendingAcks' = left
    BY <1>0, <1>3 DEF ReceiveMessageAck
  <2>2. /\ f \in RowSet /\ DOMAIN f = DOMAIN messages
        /\ \A j \in DOMAIN messages : f[j] >= messages[j]
    BY <1>0, AckFact
  <2>3. /\ left \in RowSet /\ DOMAIN left = DOMAIN pendingAcks \ {i}
        /\ \A j \in DOMAIN left : left[j] = pendingAcks[j]
    BY <1>0, AtFact
  <2> HIDE DEF f, left
  <2>4. GoodCache(cache', left)
    BY <1>0, <1>2, <2>3, GoodCacheAck
  <2>5. GoodRows(f, active.id, left)
    <3>1. /\ \A j \in DOMAIN f : f[j] \in Nat /\ messages[j] \in Nat
          /\ \A j \in DOMAIN left : left[j] \in Nat
      BY <1>0, <2>2, <2>3, RowSetFact
    <3>2. \A j \in DOMAIN f : j \in DOMAIN left /\ db[j].k = db[j].c => messages[j] >= left[j]
      BY <1>0, <2>2, <2>3 DEF GoodRows
    <3>3. \A j \in DOMAIN f : j \in DOMAIN left /\ db[j].k = db[j].c => f[j] >= left[j]
      BY <2>2, <3>1, <3>2
    <3> QED
      BY <1>0, <2>2, <3>3 DEF GoodRows
  <2>6. active.id \in Convs
    <3>1. messages # Empty
      BY <1>3, EmptyRows
    <3> QED
      BY <1>0, <3>1
  <2> QED
    BY <1>0, <1>2, <2>1, <2>2, <2>3, <2>4, <2>5, <2>6, ClientMoved
<1>4. CASE i \notin DOMAIN messages
  <2> DEFINE p == Buffered(i, n)
  <2>1. messages' = messages /\ pendingAcks' = p
    BY <1>0, <1>4 DEF ReceiveMessageAck
  <2>2. /\ p \in RowSet
        /\ \A j \in DOMAIN p : \/ j \in DOMAIN pendingAcks /\ p[j] = pendingAcks[j]
                               \/ j = i /\ p[j] = n
    <3>1. Row(i, n) \in RowSet /\ DOMAIN Row(i, n) = {i} /\ Row(i, n)[i] = n
      BY <1>1, RowFact
    <3> DEFINE w == Over(Row(i, n), pendingAcks)
    <3>2. /\ w \in RowSet /\ DOMAIN w = {i} \cup DOMAIN pendingAcks /\ w[i] = n
          /\ \A j \in DOMAIN pendingAcks \ {i} : w[j] = pendingAcks[j]
      BY <1>0, <3>1, OverFact
    <3> HIDE DEF w
    <3>3. p = pendingAcks \/ p = w
      BY DEF Buffered, w
    <3> HIDE DEF p
    <3> QED
      BY <1>0, <3>2, <3>3
  <2> HIDE DEF p
  <2>3. GoodCache(cache', p)
    BY <1>0, <1>2, <2>2, GoodCacheAck
  <2>4. GoodRows(messages, active.id, p)
    BY <1>0, <1>4, <2>2, GoodWithLess
  <2> QED
    BY <1>0, <1>2, <2>1, <2>2, <2>3, <2>4, ClientMoved
<1> QED
  BY <1>3, <1>4

LEMMA HeadEvent ==
    ASSUME ServerInv, wire # <<>>
    PROVE  /\ Head(wire) \in Event /\ EventOK(Head(wire))
           /\ Head(wire).c \in Convs /\ Head(wire).n \in Nat
<1>1. wire \in Seq(Event) /\ 1 \in DOMAIN wire /\ Head(wire) = wire[1] /\ wire[1] \in Event
  BY DEF ServerInv
<1>2. EventOK(wire[1])
  BY <1>1 DEF ServerInv
<1>3. wire[1].c \in Convs /\ wire[1].n \in Nat
  BY <1>1 DEF Event
<1> QED
  BY <1>1, <1>2, <1>3

LEMMA RowsNext ==
    ASSUME Prompt, SendInv, ServerInv, ListInv, Next
    PROVE  ListRows'
<1>1. CASE React
  BY <1>1, CommitRows
<1>2. CASE Answer
  BY <1>2, AnswerRows DEF Answer, envVars
<1>3. CASE Failure
  <2>1. UNCHANGED <<active, messages, messagesRef, pendingAcks, seen, cache, db>> /\ \A q \in reqs' : q \in reqs
    BY <1>3 DEF Failure, RequestFails, listVars
  <2> QED
    BY <2>1, ListFacts, ClientMoved
<1>4. CASE Browse
  BY <1>4, BrowseRows
<1>5. CASE \E r \in reqs : ServerReads(r)
  BY <1>5, ReadRows
<1>6. CASE \E c \in Convs : MessageStored(c)
  BY <1>6, StoredServer, RowsMoved DEF MessageStored, msgVars, listVars, clientVars
<1>7. CASE \E i \in Stored : AckStored(i)
  BY <1>7, AckServer, RowsMoved DEF AckStored, msgVars, listVars, clientVars
<1>8. CASE \E i \in Stored : OpenAtMessage(i)
  BY <1>8, RowsKept DEF OpenAtMessage, listVars, clientVars
<1>9. CASE ContactResolved
  BY <1>9, ResolvedServer, RowsMoved DEF ContactResolved, msgVars, listVars, clientVars
<1>10. CASE SocketOpens
  BY <1>10, ReconnectRows
<1>11. CASE SocketCloses \/ ReconnectTimer
  BY <1>11, RowsKept DEF SocketCloses, ReconnectTimer, msgVars, listVars, clientVars
<1>12. CASE OnMessage
  <2>1. UNCHANGED db /\ wire # <<>> /\ Head(wire).t = "message"
    BY <1>12 DEF OnMessage, Handled
  <2>2. Head(wire).i \in Stored /\ Of(Head(wire).i, Head(wire).c) /\ Head(wire).c \in Convs /\ Head(wire).n \in Nat
    BY <2>1, HeadEvent DEF EventOK
  <2>3. CASE UNCHANGED msgVars
    BY <2>1, <2>3, RowsKept DEF msgVars, listVars, clientVars
  <2>4. CASE ObserveMessage(Head(wire).c, Head(wire).i, Head(wire).n)
    BY <2>1, <2>2, <2>4, ObserveRows
  <2> QED
    BY <1>12, <2>3, <2>4 DEF OnMessage
<1>13. CASE OnMessageAcked
  <2>1. UNCHANGED db /\ wire # <<>> /\ Head(wire).t = "message_acked" /\ Ready
        /\ ReceiveMessageAck(Head(wire).i, Head(wire).n)
    BY <1>13 DEF OnMessageAcked, Handled
  <2>2. Head(wire).i \in Stored /\ Head(wire).n \in Nat
    BY <2>1, HeadEvent DEF EventOK
  <2> QED
    BY <2>1, <2>2, AckRows
<1>14. CASE OnContactResolved
  <2>1. /\ UNCHANGED <<db, active, messages, messagesRef, pendingAcks, seen, reqs>>
        /\ wire # <<>> /\ Head(wire).t = "contact_resolved" /\ cache' = CacheRename(Prefix, Full)
    BY <1>14 DEF OnContactResolved, Handled, listVars
  <2>2. Resolved /\ FiledByKey
    BY <2>1, HeadEvent DEF EventOK, ServerInv
  <2>3. GoodCache(cache', pendingAcks)
    BY <2>1, <2>2, ListFacts, GoodCacheRename
  <2> QED
    BY <2>1, <2>3, ListFacts, ClientMoved
<1>15. CASE \E c \in Convs \cup {"view"} : SelectConversation(c)
  BY <1>15, RowsKept DEF SelectConversation, listVars, clientVars
<1>16. CASE TargetReached
  BY <1>16, RowsKept DEF TargetReached, listVars, clientVars, envVars
<1>17. CASE ToggleBlocked
  BY <1>17, BlockRows
<1>18. CASE HandleSendMessage
  BY <1>18, RowsKept DEF HandleSendMessage, msgVars, listVars, clientVars
<1>19. CASE \E k \in DOMAIN sends : ServerAccepts(k)
  BY <1>19, AcceptServer, RowsMoved DEF ServerAccepts, msgVars, listVars, clientVars
<1>20. CASE SendReturns
  <2>1. UNCHANGED db /\ sends # <<>> /\ Head(sends).i # 0
    BY <1>20 DEF SendReturns
  <2>2. Head(sends) = sends[1] /\ 1 \in DOMAIN sends /\ sends[1].i \in 0..Len(db)
    BY <2>1, DbTypes DEF ServerInv
  <2>3. Head(sends).i \in Stored
    BY <2>1, <2>2, DbTypes DEF Stored
  <2>4. db[Head(sends).i].c \in Convs /\ Of(Head(sends).i, db[Head(sends).i].c)
    BY <2>3, DbTypes DEF Of, Stored
  <2>5. CASE UNCHANGED msgVars
    BY <2>1, <2>5, RowsKept DEF msgVars, listVars, clientVars
  <2>6. CASE ObserveMessage(db[Head(sends).i].c, Head(sends).i, 0)
    BY <2>1, <2>3, <2>4, <2>6, ObserveRows
  <2> QED
    BY <1>20, <2>5, <2>6 DEF SendReturns
<1>21. CASE SendFails
  BY <1>21, RowsKept DEF SendFails, msgVars, listVars, clientVars
<1> QED
  BY <1>1, <1>2, <1>3, <1>4, <1>5, <1>6, <1>7, <1>8, <1>9, <1>10, <1>11, <1>12, <1>13, <1>14,
     <1>15, <1>16, <1>17, <1>18, <1>19, <1>20, <1>21 DEF Next

(* The client's invariant, where React commits before the next event is      *)
(* handled: rows shown, cached and fetched are of their conversation and     *)
(* have the ACKs buffered for them, and the cache has one entry per key.    *)
THEOREM ListInvariance ==
    ASSUME Prompt
    PROVE  Spec => []ListInv
<1>1. Init => ListInv
  <2> SUFFICES ASSUME Init PROVE ListInv
    OBVIOUS
  <2>1. /\ active = [id |-> None, target |-> 0] /\ wanted = active /\ messages = Empty /\ messagesRef = Empty
        /\ seen = {} /\ pendingAcks = Empty /\ cache = <<>> /\ reqs = {}
    BY DEF Init, MsgInit
  <2>2. ListTypes
    <3>1. active \in View /\ wanted \in View
      BY <2>1, MessageBounds DEF View
    <3>2. /\ hasOlder = FALSE /\ hasOlderRef = FALSE /\ hasNewer = FALSE /\ hasNewerRef = FALSE
          /\ messagesLoading = FALSE /\ loadingOlder = FALSE /\ loadingNewer = FALSE
          /\ olderDone = FALSE /\ pendingReconnect = FALSE /\ reconcileId = 0 /\ sock = "closed"
      BY DEF Init, MsgInit
    <3> QED
      BY <3>1, <3>2 DEF ListTypes
  <2>3. GoodCache(cache, pendingAcks)
    BY <2>1, MessageBounds DEF GoodCache, OneEntryPerKey
  <2>4. ListRows
    BY <2>1, <2>3, EmptyRows, GoodEmpty DEF ListRows, SeenCoversShown
  <2> QED
    BY <2>2, <2>4 DEF ListInv
<1>2. SendInv /\ ServerInv /\ ListInv /\ [Next]_vars => ListInv'
  <2> SUFFICES ASSUME SendInv, ServerInv, ListInv, [Next]_vars PROVE ListInv'
    OBVIOUS
  <2>1. CASE Next
    BY <2>1, TypesNext, RowsNext DEF ListInv
  <2>2. CASE UNCHANGED vars
    BY <2>2, TypesKept, RowsKept DEF ListInv, vars, msgVars, listVars, flagVars, envVars, typeVars, clientVars
  <2> QED
    BY <2>1, <2>2
<1> QED
  BY <1>1, <1>2, SendInvariance, ServerInvariance, PTL DEF Spec

(* Every variable keeps its type and the cache its cap (messageCache's       *)
(* MAX_CACHED_CONVERSATIONS).                                               *)
THEOREM ListTypeCorrect ==
    ASSUME Prompt
    PROVE  Spec => []TypeOK
<1>1. SendInv /\ ServerInv /\ ListInv => TypeOK
  <2> SUFFICES ASSUME SendInv, ServerInv, ListInv PROVE TypeOK
    OBVIOUS
  <2>1. \A f \in RowSet : IsRows(f)
    BY RowSetFact DEF IsRows
  <2>2. \A k \in DOMAIN cache : cache[k].id \in Convs /\ IsRows(cache[k].rows)
    <3>1. \A k \in DOMAIN cache : cache[k] \in CacheEntry
      BY ListFacts DEF GoodCache
    <3> QED
      BY <2>1, <3>1, EntryFields
  <2>3. Len(cache) <= CacheCap /\ \A r \in reqs : r.c \in Convs
    BY ListFacts DEF GoodCache, GoodReq
  <2>4. MsgTypeOK
    BY <2>1, <2>2, <2>3, ListFacts DEF MsgTypeOK, ListInv, ListTypes, View
  <2>5. \A k \in DOMAIN sends : sends[k].i \in 0..MaxMsg
    BY DbTypes, MessageBounds DEF ServerInv
  <2> QED
    BY <2>4, <2>5 DEF TypeOK, ServerInv, ListInv, ListTypes
<1> QED
  BY <1>1, SendInvariance, ServerInvariance, ListInvariance, PTL

(* No row is shown or cached in a conversation it is not of, whatever        *)
(* answers, events and resolutions arrive after a switch: the guard on      *)
(* fetchingConversationIdRef is enough.                                     *)
THEOREM RowsOwnConversation ==
    ASSUME Prompt
    PROVE  Spec => []OwnConversation
<1>1. ListInv => OwnConversation
  BY DEF ListInv, ListRows, OwnConversation, GoodCache, GoodRows
<1> QED
  BY <1>1, ListInvariance, PTL

(* The rows shown are always in seenMessageContent, so a page that           *)
(* load-newer appends never doubles one.                                    *)
THEOREM ShownIsSeen ==
    ASSUME Prompt
    PROVE  Spec => []SeenCoversShown
<1>1. ListInv => SeenCoversShown
  BY DEF ListInv, ListRows
<1> QED
  BY <1>1, ListInvariance, PTL

(* A row whose contact's key never changed is never shown with fewer ACKs    *)
(* than pendingAcksRef holds for it: list, cache and buffer agree.          *)
THEOREM BufferedAcksAreShown ==
    ASSUME Prompt
    PROVE  Spec => []PendingAckShown
<1>1. ListInv => PendingAckShown
  BY DEF ListInv, ListRows, PendingAckShown, GoodRows
<1> QED
  BY <1>1, ListInvariance, PTL

-----------------------------------------------------------------------------
(* The spinner                                                              *)

ReqShape(r) == DOMAIN r = {"k", "c", "a", "id", "ab", "from", "done", "data"}
FirstPage(r) == r.k \in {"latest", "around"}
SpinnerInv == NoStuckSpinner /\ \A r \in reqs : ReqShape(r)

LEMMA ShapeOfReq ==
    ASSUME NEW k, NEW c, NEW a, NEW id, NEW ab
    PROVE  ReqShape(Req(k, c, a, id, ab)) /\ Req(k, c, a, id, ab).k = k
BY DEF ReqShape, Req

\* A first page stays in flight unless the spinner goes with it.
LEMMA SpinnerMoves ==
    ASSUME SpinnerInv, \A r \in reqs' : r \in reqs \/ ReqShape(r),
           messagesLoading' => \/ \E r \in reqs' : FirstPage(r)
                               \/ /\ messagesLoading
                                  /\ \A r \in reqs : FirstPage(r) => r \in reqs'
    PROVE  SpinnerInv'
<1>1. \A r \in reqs' : ReqShape(r)
  BY DEF SpinnerInv
<1>2. messagesLoading' => \E r \in reqs' : FirstPage(r)
  BY DEF SpinnerInv, NoStuckSpinner, FirstPage
<1> QED
  BY <1>1, <1>2 DEF SpinnerInv, NoStuckSpinner, FirstPage, ReqShape

LEMMA SpinnerKept ==
    ASSUME SpinnerInv, UNCHANGED <<messagesLoading, reqs>>
    PROVE  SpinnerInv'
BY SpinnerMoves

LEMMA SpinnerCommit ==
    ASSUME SpinnerInv, React
    PROVE  SpinnerInv'
<1>0. LoadingAfterAbort => \A r \in reqs : FirstPage(r) => r \in Kept
  BY DEF LoadingAfterAbort, FirstPage, Kept
<1>1. CASE Commit
  BY <1>1, SpinnerKept DEF Commit
<1>2. CASE CommitTargetCleared \/ CommitToView
  <2>1. messagesLoading' = (messagesLoading /\ LoadingAfterAbort) /\ reqs' = Kept
    BY <1>2 DEF CommitTargetCleared, CommitToView
  <2>2. \A r \in reqs' : r \in reqs
    BY <2>1 DEF Kept
  <2> QED
    BY <1>0, <2>1, <2>2, SpinnerMoves
<1>3. CASE CommitToTarget
  <2> DEFINE new == Req("around", wanted.id, wanted.target, 0, TRUE)
  <2>1. reqs' = Kept \cup {new}
    BY <1>3 DEF CommitToTarget
  <2>2. ReqShape(new) /\ new.k = "around"
    BY DEF ReqShape, Req
  <2> HIDE DEF new
  <2> QED
    BY <2>1, <2>2, SpinnerMoves DEF Kept, FirstPage
<1>4. CASE CommitToUncached
  <2> DEFINE new == Req("latest", wanted.id, 0, 0, TRUE)
  <2>1. reqs' = Kept \cup {new}
    BY <1>4 DEF CommitToUncached
  <2>2. ReqShape(new) /\ new.k = "latest"
    BY DEF ReqShape, Req
  <2> HIDE DEF new
  <2> QED
    BY <2>1, <2>2, SpinnerMoves DEF Kept, FirstPage
<1>5. CASE CommitToCached
  <2> DEFINE new == Req("reconcile", wanted.id, 0, 1, TRUE)
  <2>1. reqs' = Kept \cup {new} /\ messagesLoading' = FALSE
    BY <1>5 DEF CommitToCached
  <2>2. ReqShape(new)
    BY ShapeOfReq
  <2> HIDE DEF new
  <2> QED
    BY <2>1, <2>2, SpinnerMoves DEF Kept
<1> QED
  BY <1>1, <1>2, <1>3, <1>4, <1>5 DEF React

\* A request ends: with it goes the spinner, if it was a first page.
LEMMA SpinnerEnds ==
    ASSUME SpinnerInv, NEW r \in reqs, reqs' = reqs \ {r},
           messagesLoading' => messagesLoading /\ ~FirstPage(r)
    PROVE  SpinnerInv'
BY SpinnerMoves

LEMMA SpinnerAnswer ==
    ASSUME SpinnerInv, NEW r \in reqs, Arrives(r)
    PROVE  SpinnerInv'
<1>1. CASE DropAnswer(r)
  BY <1>1, SpinnerEnds DEF DropAnswer, FirstPage
<1>2. CASE LatestArrives(r)
  BY <1>2, SpinnerEnds DEF LatestArrives
<1>3. CASE ReconcileArrives(r)
  BY <1>3, SpinnerEnds DEF ReconcileArrives, Answered, FirstPage, flagVars
<1>4. CASE ReconcileOutdated(r)
  BY <1>4, SpinnerEnds DEF ReconcileOutdated, Answered, FirstPage, flagVars
<1>5. CASE OlderArrives(r)
  BY <1>5, SpinnerEnds DEF OlderArrives, Answered, FirstPage
<1>6. CASE NewerArrives(r)
  <2> DEFINE new == Req("reconcile", active.id, 0, reconcileId + 1, FALSE)
  <2>1. /\ messagesLoading' = messagesLoading /\ ~FirstPage(r) /\ reqs \ {r} \subseteq reqs'
        /\ \A s \in reqs' : s \in reqs \/ s = new
    BY <1>6 DEF NewerArrives, Answered, FirstPage
  <2>2. ReqShape(new)
    BY ShapeOfReq
  <2> HIDE DEF new
  <2> QED
    BY <2>1, <2>2, SpinnerMoves
<1>7. CASE AroundArrives(r)
  BY <1>7, SpinnerEnds DEF AroundArrives
<1>8. CASE UnblockedArrives(r)
  BY <1>8, SpinnerEnds DEF UnblockedArrives, Answered, FirstPage
<1> QED
  BY <1>1, <1>2, <1>3, <1>4, <1>5, <1>6, <1>7, <1>8 DEF Arrives

\* A request is added and the spinner is not.
LEMMA SpinnerAdds ==
    ASSUME SpinnerInv, messagesLoading' = messagesLoading, reqs \subseteq reqs',
           \A r \in reqs' : r \in reqs \/ ReqShape(r)
    PROVE  SpinnerInv'
BY SpinnerMoves

LEMMA SpinnerBrowse ==
    ASSUME SpinnerInv, Browse
    PROVE  SpinnerInv'
<1>1. CASE FetchOlderMessages
  <2> DEFINE new == Req("older", active.id, Min(DOMAIN messagesRef), 0, TRUE)
             s == [new EXCEPT !.from = messagesRef]
  <2>1. reqs' = reqs \cup {s} /\ messagesLoading' = messagesLoading
    BY <1>1 DEF FetchOlderMessages
  <2>2. ReqShape(new)
    BY ShapeOfReq
  <2> HIDE DEF new
  <2>3. ReqShape(s)
    BY <2>2 DEF ReqShape
  <2> HIDE DEF s
  <2> QED
    BY <2>1, <2>3, SpinnerAdds
<1>2. CASE FetchNewerMessages
  <2> DEFINE new == Req("newer", active.id, Max(DOMAIN messagesRef), 0, TRUE)
  <2>1. reqs' = reqs \cup {new} /\ messagesLoading' = messagesLoading
    BY <1>2 DEF FetchNewerMessages
  <2>2. ReqShape(new)
    BY ShapeOfReq
  <2> HIDE DEF new
  <2> QED
    BY <2>1, <2>2, SpinnerAdds
<1>3. CASE JumpToBottom
  <2> DEFINE new == Req("latest", active.id, 0, 0, FALSE)
  <2>1. reqs' = reqs \cup {new}
    BY <1>3 DEF JumpToBottom
  <2>2. ReqShape(new) /\ new.k = "latest"
    BY DEF ReqShape, Req
  <2> HIDE DEF new
  <2> QED
    BY <2>1, <2>2, SpinnerMoves DEF FirstPage
<1> QED
  BY <1>1, <1>2, <1>3 DEF Browse

LEMMA SpinnerRead ==
    ASSUME SpinnerInv, NEW r \in reqs, ServerReads(r)
    PROVE  SpinnerInv'
<1> DEFINE data == [rows  |-> AcksOf(ReplyRows(r)),
                    older |-> r.k = "around" /\ \E i \in Visible(r.c) : i < r.a,
                    newer |-> r.k = "around" /\ \E i \in Visible(r.c) : i > r.a]
           s == [r EXCEPT !.done = TRUE, !.data = data]
<1>1. reqs' = (reqs \ {r}) \cup {s} /\ messagesLoading' = messagesLoading
  BY DEF ServerReads, flagVars
<1>2. ReqShape(r)
  BY DEF SpinnerInv
<1> HIDE DEF data
<1>3. ReqShape(s) /\ s.k = r.k
  BY <1>2 DEF ReqShape
<1> HIDE DEF s
<1>4. messagesLoading => \E q \in reqs' : FirstPage(q)
  BY <1>1, <1>3 DEF SpinnerInv, NoStuckSpinner, FirstPage
<1> QED
  BY <1>1, <1>3, <1>4, SpinnerMoves

LEMMA SpinnerReconnect ==
    ASSUME SpinnerInv, SocketOpens
    PROVE  SpinnerInv'
<1> DEFINE new == Req("reconcile", active.id, 0, reconcileId + 1, FALSE)
<1>1. messagesLoading' = messagesLoading /\ reqs \subseteq reqs' /\ \A r \in reqs' : r \in reqs \/ r = new
  BY DEF SocketOpens, ReconcileOnReconnect, msgVars, flagVars
<1>2. ReqShape(new)
  BY ShapeOfReq
<1> HIDE DEF new
<1> QED
  BY <1>1, <1>2, SpinnerAdds

LEMMA SpinnerBlock ==
    ASSUME SpinnerInv, ToggleBlocked
    PROVE  SpinnerInv'
<1> DEFINE visible == At(messagesRef, DOMAIN messagesRef \ (IF blocked THEN {} ELSE Rude))
           new == Req("unblock", active.id, Min(DOMAIN visible), Max(DOMAIN visible), FALSE)
<1>1. messagesLoading' = messagesLoading /\ reqs \subseteq reqs' /\ \A r \in reqs' : r \in reqs \/ r = new
  BY DEF ToggleBlocked, ApplyBlockListChange
<1>2. ReqShape(new)
  BY ShapeOfReq
<1> HIDE DEF new
<1> QED
  BY <1>1, <1>2, SpinnerAdds

LEMMA SpinnerNext ==
    ASSUME SpinnerInv, Next
    PROVE  SpinnerInv'
<1>1. CASE React
  BY <1>1, SpinnerCommit
<1>2. CASE Answer
  BY <1>2, SpinnerAnswer DEF Answer
<1>3. CASE Failure
  <2>1. PICK r \in reqs : RequestFails(r)
    BY <1>3 DEF Failure
  <2> QED
    BY <2>1, SpinnerEnds DEF RequestFails, FirstPage
<1>4. CASE Browse
  BY <1>4, SpinnerBrowse
<1>5. CASE \E r \in reqs : ServerReads(r)
  BY <1>5, SpinnerRead
<1>6. CASE SocketOpens
  BY <1>6, SpinnerReconnect
<1>7. CASE ToggleBlocked
  BY <1>7, SpinnerBlock
<1>8. CASE (\E c \in Convs : MessageStored(c)) \/ ContactResolved
  BY <1>8, SpinnerKept DEF MessageStored, ContactResolved, msgVars, flagVars
<1>9. CASE \E i \in Stored : AckStored(i) \/ OpenAtMessage(i)
  BY <1>9, SpinnerKept DEF AckStored, OpenAtMessage, msgVars, flagVars
<1>10. CASE SocketCloses \/ ReconnectTimer
  BY <1>10, SpinnerKept DEF SocketCloses, ReconnectTimer, msgVars, flagVars
<1>11. CASE OnMessage \/ SendReturns
  BY <1>11, SpinnerKept DEF OnMessage, SendReturns, ObserveMessage, msgVars, flagVars
<1>12. CASE OnMessageAcked \/ OnContactResolved
  BY <1>12, SpinnerKept DEF OnMessageAcked, ReceiveMessageAck, OnContactResolved, flagVars
<1>13. CASE (\E c \in Convs \cup {"view"} : SelectConversation(c)) \/ TargetReached
  BY <1>13, SpinnerKept DEF SelectConversation, TargetReached, flagVars
<1>14. CASE HandleSendMessage \/ (\E k \in DOMAIN sends : ServerAccepts(k)) \/ SendFails
  BY <1>14, SpinnerKept DEF HandleSendMessage, ServerAccepts, SendFails, msgVars, flagVars
<1> QED
  BY <1>1, <1>2, <1>3, <1>4, <1>5, <1>6, <1>7, <1>8, <1>9, <1>10, <1>11, <1>12, <1>13, <1>14 DEF Next

(* The spinner over the list is owed to a first page in flight, also when a  *)
(* switch aborts one whose finally block runs late; no assumption on when   *)
(* React commits.                                                           *)
THEOREM SpinnerIsOwed == Spec => []NoStuckSpinner
<1>1. Init => SpinnerInv
  BY DEF Init, MsgInit, SpinnerInv, NoStuckSpinner
<1>2. SpinnerInv /\ [Next]_vars => SpinnerInv'
  BY SpinnerNext, SpinnerKept DEF vars, msgVars, flagVars
<1>3. SpinnerInv => NoStuckSpinner
  BY DEF SpinnerInv
<1> QED
  BY <1>1, <1>2, <1>3, PTL DEF Spec
=============================================================================
