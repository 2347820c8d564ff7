-------------------------- MODULE ServerStoreProofs --------------------------
(***************************************************************************)
(* What the operations of the store, of the signal queue and of the        *)
(* queues of responses preserve, stated once for the proofs about the four *)
(* server methods.                                                         *)
(***************************************************************************)
EXTENDS ServerStore, TLAPS

Signal == [kind : {"data", "dataEnd"}, tag : Tags, value : Payloads \cup {EmptyPayload}]

\* The store starts empty, with no tag handed out and no signal queued.
LEMMA StoreInitType == StoreInit => StoreTypeOK
BY StoreAssumption DEF StoreInit, StoreTypeOK, Tags

\* A signal built for a tag that was handed out is well formed.
LEMMA SignalTypes ==
  ASSUME NEW t \in Tags, NEW v \in Payloads
  PROVE  DataOf(t, v) \in Signal /\ DataEndOf(t) \in Signal
BY DEF Signal, DataOf, DataEndOf

\* Queueing well-formed signals keeps the store's types (data and dataEnd of
\* the IO thread).
LEMMA EmitType ==
  ASSUME StoreTypeOK, NEW s \in Seq(Signal), Emit(s)
  PROVE  StoreTypeOK'
<1>1. signals \in Seq(Signal)
  BY DEF StoreTypeOK, Signal
<1>2. signals' \in Seq(Signal)
  BY <1>1 DEF Emit
<1> QED
  BY <1>2 DEF StoreTypeOK, Emit, Signal, Tags

\* CallDataStore::store with the data signal under the new tag keeps them,
\* and the tag is a new one.
LEMMA StoreAndEmitType ==
  ASSUME StoreTypeOK, NEW c \in Calls, NEW v \in Payloads, StoreAndEmit(c, v)
  PROVE  StoreTypeOK' /\ lastTag' = lastTag + 1 /\ lastTag' \in Tags
<1>1. lastTag' = lastTag + 1 /\ lastTag' \in Tags
  BY StoreAssumption DEF StoreTypeOK, StoreAndEmit, Tags
<1>2. signals \in Seq(Signal) /\ DataOf(lastTag', v) \in Signal
  BY <1>1, SignalTypes DEF StoreTypeOK, Signal
<1>3. signals' \in Seq(Signal)
  BY <1>2 DEF StoreAndEmit
<1> QED
  BY <1>1, <1>3 DEF StoreTypeOK, StoreAndEmit, Signal, Tags

\* CallDataStore::remove keeps them.
LEMMA RemoveType ==
  ASSUME StoreTypeOK, NEW t \in Tags, Remove(t)
  PROVE  StoreTypeOK'
BY DEF StoreTypeOK, Remove, Tags

\* Delivering a signal keeps them and does not touch the store.
LEMMA DeliverType ==
  ASSUME StoreTypeOK, Deliver
  PROVE  StoreTypeOK' /\ UNCHANGED <<store, lastTag>>
<1>1. signals \in Seq(Signal)
  BY DEF StoreTypeOK, Signal
<1>2. signals # <<>> /\ signals' = Tail(signals) /\ UNCHANGED <<store, lastTag>>
  BY DEF Deliver, DeliverData, DeliverDataEnd
<1>3. Head(signals) \in Signal /\ signals' \in Seq(Signal)
  BY <1>1, <1>2
<1>4. Head(signals).tag \in Tags
  BY <1>3 DEF Signal
<1>5. known' \subseteq Tags /\ ended' \subseteq Tags
  BY <1>4 DEF Deliver, DeliverData, DeliverDataEnd, StoreTypeOK
<1> QED
  BY <1>2, <1>3, <1>5 DEF StoreTypeOK, Signal, Tags

-----------------------------------------------------------------------------
(* The queues of the streaming methods, for any set of elements.           *)

\* Moving the head of the queue to what was handed over loses nothing.
LEMMA MoveHead ==
  ASSUME NEW S, NEW a \in Seq(S), NEW q \in Seq(S), q # <<>>
  PROVE  /\ Append(a, Head(q)) \o Tail(q) = a \o q
         /\ Head(q) \in S /\ Tail(q) \in Seq(S) /\ Append(a, Head(q)) \in Seq(S)
OBVIOUS

\* An empty queue adds nothing.
LEMMA ConcatEmpty ==
  ASSUME NEW S, NEW a \in Seq(S)
  PROVE  a \o <<>> = a
OBVIOUS

\* The first element of the queue is the next one of the whole.
LEMMA NextIsHead ==
  ASSUME NEW S, NEW a \in Seq(S), NEW q \in Seq(S), q # <<>>
  PROVE  Len(a) < Len(a \o q) /\ (a \o q)[Len(a) + 1] = Head(q)
OBVIOUS

Holds(q, x) == \E i \in 1..Len(q) : q[i] = x

\* Where a queue holds an element after an append, and before its head left.
LEMMA HoldsOf ==
  ASSUME NEW S, NEW q \in Seq(S), NEW x
  PROVE  /\ ~Holds(<<>>, x)
         /\ \A r \in S : Holds(Append(q, r), x) <=> Holds(q, x) \/ r = x
         /\ q # <<>> => (Head(q) = x => Holds(q, x)) /\ (Holds(Tail(q), x) => Holds(q, x))
<1>1. ~Holds(<<>>, x)
  BY DEF Holds
<1>2. ASSUME NEW r \in S PROVE Holds(Append(q, r), x) <=> Holds(q, x) \/ r = x
  <2>1. Len(Append(q, r)) = Len(q) + 1 /\ Append(q, r)[Len(q) + 1] = r
    OBVIOUS
  <2>2. \A i \in 1..Len(q) : Append(q, r)[i] = q[i]
    OBVIOUS
  <2>3. 1..Len(Append(q, r)) = (1..Len(q)) \cup {Len(q) + 1}
    BY <2>1
  <2> QED
    BY <2>1, <2>2, <2>3 DEF Holds
<1>3. ASSUME q # <<>> PROVE (Head(q) = x => Holds(q, x)) /\ (Holds(Tail(q), x) => Holds(q, x))
  <2>1. Len(q) >= 1 /\ Len(Tail(q)) = Len(q) - 1 /\ Head(q) = q[1]
    BY <1>3
  <2>2. \A i \in 1..Len(Tail(q)) : Tail(q)[i] = q[i + 1] /\ i + 1 \in 1..Len(q)
    BY <1>3, <2>1
  <2> QED
    BY <2>1, <2>2 DEF Holds
<1> QED
  BY <1>1, <1>2, <1>3
=============================================================================
