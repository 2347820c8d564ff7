--------------------------- MODULE ServerBidiProofs ---------------------------
(***************************************************************************)
(* Memory safety, lock order and message order of the bidirectional server *)
(* method, for any number of call objects, messages and operations.        *)
(*                                                                         *)
(* The invariants checked by TLC are not inductive.  What they lack:       *)
(*   Storing     the call that the IO thread stores is live, reading and   *)
(*               has no tag yet, so nobody else can reach it;              *)
(*   Removed     abort() and end() have taken their tag out of the store;  *)
(*   EndQueued   a call with its end queued cannot be reached any more, so *)
(*               nobody uses it when the IO thread finishes it;            *)
(*   EndHanded   only a call that is DONE may have handed its end to gRPC; *)
(*   TagsOld     a tag in use was handed out before, so a new tag does not *)
(*               bring a removed one back;                                 *)
(*   Fresh       an object that does not exist yet will start clean.       *)
(***************************************************************************)
EXTENDS ServerBidi, ServerStoreProofs

\* What the handler wrote goes to gRPC in order, and a FROZEN call has nothing
\* left to send.
HandedInOrder ==
  \A c \in Calls :
    /\ accepted[c] = handed[c] \o queue[c]
    /\ status[c] = "FROZEN" => queue[c] = <<>>

Storing ==
  io # AtNext => memory[io.call] = "live" /\ status[io.call] = "READ" /\ tag[io.call] = 0

Removed ==
  /\ qml.op \in {"abort", "end"} => store[qml.tag] = NoCall /\ qml.response = Null
  /\ qml.op = "respond" => qml.response \in Messages

Ends(s) == Holds(s, Null)

\* Where a queue of responses contains the end marker.
LEMMA EndsOf ==
  ASSUME NEW q \in Seq(Responses)
  PROVE  /\ ~Ends(<<>>)
         /\ \A r \in Responses : Ends(Append(q, r)) <=> Ends(q) \/ r = Null
         /\ q # <<>> => (Head(q) = Null => Ends(q)) /\ (Ends(Tail(q)) => Ends(q))
BY HoldsOf DEF Ends

\* What is appended to the queue is appended to the whole.
LEMMA AppendConcat ==
  ASSUME NEW a \in Seq(Responses), NEW q \in Seq(Responses), NEW r \in Responses
  PROVE  Append(a \o q, r) = a \o Append(q, r)
OBVIOUS

EndQueued ==
  \A c \in Calls : Ends(queue[c]) =>
    /\ qml.call # c
    /\ \A t \in Tags : store[t] # c

EndHanded == \A c \in Calls : Ends(handed[c]) => status[c] = "DONE"

TagsOld == \A c \in Calls : tag[c] <= lastTag

Fresh ==
  \A c \in Calls :
    /\ memory[c] = "none" => status[c] = "REQUEST" /\ refCount[c] = 1
    /\ tag[c] = 0 => queue[c] = <<>>

IInv ==
  /\ TypeOK
  /\ RefCountExact
  /\ PointersLive
  /\ OneLiveCall
  /\ HandedInOrder
  /\ Storing
  /\ Removed
  /\ EndQueued
  /\ EndHanded
  /\ TagsOld
  /\ Fresh

-----------------------------------------------------------------------------
\* The first call object satisfies the invariant.
LEMMA InitIInv == Init => IInv
<1> SUFFICES ASSUME Init PROVE IInv
  OBVIOUS
<1> USE StoreAssumption, BidiAssumption
<1>1. PICK c \in Calls : /\ memory = [d \in Calls |-> IF d = c THEN "live" ELSE "none"]
                         /\ outstanding = [d \in Calls |-> IF d = c THEN 1 ELSE 0]
  BY DEF Init
<1>2. TypeOK
  <2>1. StoreTypeOK
    BY StoreInitType DEF Init
  <2>2. memory \in [Calls -> {"none", "live", "freed"}] /\ outstanding \in [Calls -> Nat]
    BY <1>1
  <2>3. queue \in [Calls -> Seq(Responses)] /\ accepted \in [Calls -> Seq(Responses)]
        /\ handed \in [Calls -> Seq(Responses)]
    BY DEF Init
  <2>4. /\ tag \in [Calls -> Tags \cup {0}] /\ status \in [Calls -> Statuses]
        /\ refCount \in [Calls -> Nat] /\ reads \in [Calls -> 0..MaxReads]
    BY DEF Init, Statuses
  <2>5. down \in BOOLEAN /\ qml = Idle /\ io = AtNext
    BY DEF Init
  <2> QED
    BY <2>1, <2>2, <2>3, <2>4, <2>5 DEF TypeOK
<1>3. RefCountExact /\ OneLiveCall
  BY <1>1 DEF Init, RefCountExact, OneLiveCall
<1>4. PointersLive /\ Storing /\ Removed
  BY DEF Init, StoreInit, PointersLive, Storing, Removed, Idle
<1>5. HandedInOrder
  BY ConcatEmpty DEF Init, HandedInOrder
<1>6. EndQueued /\ EndHanded
  <2>1. ~Ends(<<>>)
    BY DEF Ends, Holds
  <2> QED
    BY <2>1 DEF Init, EndQueued, EndHanded
<1>7. TagsOld /\ Fresh
  BY DEF Init, StoreInit, TagsOld, Fresh
<1> QED
  BY <1>2, <1>3, <1>4, <1>5, <1>6, <1>7 DEF IInv

-----------------------------------------------------------------------------
(* One lemma for each action of Next, after two for what the actions share. *)

\* A step that leaves every call and pointer as it is.
LEMMA QuietIInv ==
  ASSUME IInv, StoreTypeOK', UNCHANGED <<store, lastTag, callVars, qml, io>>,
         down \in BOOLEAN, down' \in {down, TRUE}
  PROVE  IInv'
<1>1. UNCHANGED <<store, lastTag, memory, tag, status, queue, refCount, outstanding, reads,
                  accepted, handed, qml, io>>
  BY DEF callVars
<1>2. TypeOK'
  BY <1>1 DEF IInv, TypeOK
<1>3. RefCountExact' /\ OneLiveCall' /\ PointersLive' /\ HandedInOrder'
  <2>1. RefCountExact'
    BY <1>1 DEF IInv, RefCountExact
  <2>2. OneLiveCall'
    BY <1>1 DEF IInv, OneLiveCall
  <2>3. PointersLive'
    BY <1>1 DEF IInv, PointersLive, Finishable
  <2>4. HandedInOrder'
    BY <1>1 DEF IInv, HandedInOrder
  <2> QED
    BY <2>1, <2>2, <2>3, <2>4
<1>4. Storing' /\ Removed' /\ EndQueued' /\ EndHanded' /\ TagsOld' /\ Fresh'
  BY <1>1 DEF IInv, Storing, Removed, EndQueued, EndHanded, TagsOld, Fresh
<1> QED
  BY <1>2, <1>3, <1>4 DEF IInv

\* A call that has no tag, waits for a client or is finishing is not the one
\* the QML thread uses, and no tag names it.
LEMMA Untagged ==
  ASSUME IInv, NEW c \in Calls, tag[c] = 0 \/ status[c] \in {"REQUEST", "DONE"}
  PROVE  qml.call # c /\ \A t \in Tags : store[t] # c
<1>1. 0 \notin Tags
  BY DEF Tags
<1>2. \A t \in Tags : store[t] # c
  BY <1>1, StoreAssumption DEF IInv, PointersLive, Finishable
<1>3. qml = Idle \/ qml.tag \in Tags
  BY DEF IInv, TypeOK
<1>4. qml # Idle => qml.call # c
  BY <1>1, <1>3 DEF IInv, PointersLive, Finishable
<1> QED
  BY <1>2, <1>4, StoreAssumption DEF Idle

\* respond() looks a call up: it is not one whose end is queued.
LEMMA BeginRespondIInv ==
  ASSUME IInv, NEW t \in Tags, NEW m \in Messages, BeginRespond(t, m)
  PROVE  IInv'
<1> USE StoreAssumption, BidiAssumption
<1>1. /\ store[t] \in Calls
      /\ qml' = [op |-> "respond", tag |-> t, call |-> store[t], response |-> m]
      /\ UNCHANGED <<store, lastTag, signals, known, ended, memory, tag, status, queue, refCount,
                     outstanding, reads, accepted, handed, down, io>>
  BY DEF IInv, TypeOK, StoreTypeOK, BeginRespond, storeVars, callVars
<1>2. TypeOK'
  BY <1>1 DEF IInv, TypeOK, StoreTypeOK, Responses
<1>3. RefCountExact' /\ OneLiveCall' /\ HandedInOrder'
  BY <1>1 DEF IInv, RefCountExact, OneLiveCall, HandedInOrder
<1>4. PointersLive' /\ Removed'
  BY <1>1 DEF IInv, PointersLive, Finishable, Removed
<1>5. EndQueued'
  BY <1>1 DEF IInv, EndQueued
<1>6. Storing' /\ EndHanded' /\ TagsOld' /\ Fresh'
  BY <1>1 DEF IInv, Storing, EndHanded, TagsOld, Fresh
<1> QED
  BY <1>2, <1>3, <1>4, <1>5, <1>6 DEF IInv

\* abort() and end() take the tag away: only the QML thread has the call now.
LEMMA BeginRemoveIInv ==
  ASSUME IInv, NEW t \in Tags, NEW op \in {"abort", "end"}, BeginRemove(op, t)
  PROVE  IInv'
<1> USE StoreAssumption, BidiAssumption
<1>1. /\ store[t] \in Calls
      /\ qml' = [op |-> op, tag |-> t, call |-> store[t], response |-> Null]
      /\ store' = [store EXCEPT ![t] = NoCall]
      /\ store \in [Tags -> Calls \cup {NoCall}]
      /\ UNCHANGED <<lastTag, memory, tag, status, queue, refCount,
                     outstanding, reads, accepted, handed, down, io>>
  BY DEF IInv, TypeOK, StoreTypeOK, BeginRemove, Remove, callVars
<1>2. StoreTypeOK'
  BY RemoveType DEF IInv, TypeOK, BeginRemove
<1>3. TypeOK'
  BY <1>1, <1>2 DEF IInv, TypeOK, Responses
<1>4. RefCountExact' /\ OneLiveCall' /\ HandedInOrder'
  BY <1>1 DEF IInv, RefCountExact, OneLiveCall, HandedInOrder
<1>5. PointersLive' /\ Removed'
  BY <1>1 DEF IInv, PointersLive, Finishable, Removed
<1>6. EndQueued'
  BY <1>1 DEF IInv, EndQueued
<1>7. Storing' /\ EndHanded' /\ TagsOld' /\ Fresh'
  BY <1>1 DEF IInv, Storing, EndHanded, TagsOld, Fresh
<1> QED
  BY <1>3, <1>4, <1>5, <1>6, <1>7 DEF IInv

\* write() and writesDone(): at once if FROZEN, else behind what is queued.
LEMMA EndRespondIInv ==
  ASSUME IInv, EndRespond
  PROVE  IInv'
<1> USE StoreAssumption, BidiAssumption
<1> DEFINE c == qml.call
           r == qml.response
<1>1. /\ c \in Calls /\ r \in Responses /\ qml.tag \in Tags /\ qml # Idle
      /\ qml.op \in {"respond", "end"} /\ qml' = Idle
      /\ accepted' = [accepted EXCEPT ![c] = Append(@, r)]
      /\ UNCHANGED <<store, lastTag, signals, known, ended, memory, tag, refCount, reads,
                     down, io>>
  BY DEF IInv, TypeOK, Idle, EndRespond, Using, Accept, storeVars
<1>2. /\ memory[c] = "live" /\ tag[c] = qml.tag /\ status[c] \in Statuses
      /\ status[c] \notin {"REQUEST", "DONE"}
      /\ \A t \in Tags : store[t] = c => t = qml.tag
  BY <1>1 DEF IInv, TypeOK, PointersLive, Finishable
<1>3. r = Null => \A t \in Tags : store[t] # c
  BY <1>1, <1>2 DEF IInv, Removed
<1>4. tag[c] # 0
  BY <1>1, <1>2 DEF Tags
<1>5. ~Ends(queue[c]) /\ queue[c] \in Seq(Responses) /\ handed[c] \in Seq(Responses)
      /\ accepted[c] \in Seq(Responses) /\ ~Ends(handed[c])
  BY <1>1, <1>2 DEF IInv, TypeOK, EndQueued, EndHanded
<1>6. /\ OneLiveCall' /\ TagsOld' /\ Removed' /\ StoreTypeOK'
      /\ accepted' \in [Calls -> Seq(Responses)]
  BY <1>1, <1>5 DEF IInv, TypeOK, OneLiveCall, TagsOld, Removed, Idle, StoreTypeOK
<1>7. CASE status[c] = "FROZEN"
  <2>1. /\ status' = [status EXCEPT ![c] = IF r = Null THEN "DONE" ELSE "WRITE"]
        /\ handed' = [handed EXCEPT ![c] = Append(@, r)]
        /\ outstanding' = [outstanding EXCEPT ![c] = @ + 1]
        /\ queue' = queue
    BY <1>7 DEF EndRespond, Hand
  <2>2. TypeOK'
    <3>1. handed' \in [Calls -> Seq(Responses)] /\ outstanding' \in [Calls -> Nat]
          /\ status' \in [Calls -> Statuses]
      BY <1>5, <1>1, <2>1 DEF IInv, TypeOK, Statuses
    <3> QED
      BY <1>1, <1>6, <2>1, <3>1 DEF IInv, TypeOK
  <2>3. RefCountExact'
    BY <1>1, <1>2, <1>7, <2>1 DEF IInv, TypeOK, RefCountExact
  <2>4. PointersLive'
    BY <1>1, <1>3, <2>1 DEF IInv, TypeOK, StoreTypeOK, PointersLive, Finishable
  <2>5. HandedInOrder'
    <3>1. queue[c] = <<>> /\ accepted[c] = handed[c]
      BY <1>1, <1>5, <1>7, ConcatEmpty DEF IInv, HandedInOrder
    <3>2. accepted'[c] = Append(handed[c], r) /\ handed'[c] = Append(handed[c], r)
      BY <1>1, <2>1, <3>1 DEF IInv, TypeOK
    <3>3. accepted'[c] = handed'[c] \o queue'[c]
      BY <1>1, <1>5, <2>1, <3>1, <3>2, ConcatEmpty
    <3> QED
      BY <1>1, <2>1, <3>1, <3>3 DEF IInv, TypeOK, HandedInOrder
  <2>6. Storing' /\ EndQueued' /\ Fresh'
    BY <1>1, <1>2, <1>4, <1>7, <2>1 DEF IInv, TypeOK, Storing, EndQueued, Fresh, Idle
  <2>7. EndHanded'
    BY <1>1, <1>5, <2>1, EndsOf DEF IInv, TypeOK, EndHanded
  <2> QED
    BY <1>6, <2>2, <2>3, <2>4, <2>5, <2>6, <2>7 DEF IInv
<1>8. CASE status[c] # "FROZEN"
  <2>1. queue' = [queue EXCEPT ![c] = Append(@, r)] /\ UNCHANGED <<status, outstanding, handed>>
    BY <1>8 DEF EndRespond
  <2>2. TypeOK'
    <3>1. queue' \in [Calls -> Seq(Responses)]
      BY <1>1, <1>5, <2>1 DEF IInv, TypeOK
    <3> QED
      BY <1>1, <1>6, <2>1, <3>1 DEF IInv, TypeOK
  <2>3. RefCountExact'
    BY <1>1, <2>1 DEF IInv, RefCountExact
  <2>4. PointersLive'
    BY <1>1, <2>1 DEF IInv, PointersLive, Finishable
  <2>5. HandedInOrder'
    <3>1. accepted'[c] = Append(accepted[c], r) /\ queue'[c] = Append(queue[c], r)
      BY <1>1, <2>1 DEF IInv, TypeOK
    <3>2. accepted[c] = handed[c] \o queue[c]
      BY <1>1 DEF IInv, HandedInOrder
    <3>3. Append(handed[c] \o queue[c], r) = handed[c] \o Append(queue[c], r)
      BY <1>1, <1>5, AppendConcat
    <3>4. accepted'[c] = handed'[c] \o queue'[c]
      BY <2>1, <3>1, <3>2, <3>3
    <3> QED
      BY <1>1, <1>8, <2>1, <3>4 DEF IInv, TypeOK, HandedInOrder
  <2>6. EndQueued'
    <3>1. Ends(queue'[c]) => r = Null
      BY <1>1, <1>5, <2>1, EndsOf DEF IInv, TypeOK
    <3> QED
      BY <1>1, <1>3, <2>1, <3>1 DEF IInv, TypeOK, EndQueued, Idle
  <2>7. Storing' /\ Fresh' /\ EndHanded'
    BY <1>1, <1>4, <2>1 DEF IInv, TypeOK, Storing, Fresh, EndHanded
  <2> QED
    BY <1>6, <2>2, <2>3, <2>4, <2>5, <2>6, <2>7 DEF IInv
<1> QED
  BY <1>7, <1>8

\* abort(): one reference for each operation gRPC still has to complete.
LEMMA EndAbortIInv ==
  ASSUME IInv, EndAbort
  PROVE  IInv'
<1> USE StoreAssumption, BidiAssumption
<1> DEFINE c == qml.call
<1>1. /\ c \in Calls /\ qml.tag \in Tags /\ qml # Idle /\ qml.op = "abort" /\ qml' = Idle
      /\ refCount' = [refCount EXCEPT ![c] = IF status[c] # "FROZEN" THEN @ + 1 ELSE @]
      /\ status' = [status EXCEPT ![c] = "DONE"]
      /\ outstanding' = [outstanding EXCEPT ![c] = @ + 1]
      /\ UNCHANGED <<store, lastTag, signals, known, ended, memory, tag, queue, reads,
                     accepted, handed, down, io>>
  BY DEF IInv, TypeOK, Idle, EndAbort, Using, storeVars
<1>2. memory[c] = "live" /\ tag[c] = qml.tag /\ status[c] \notin {"REQUEST", "DONE"}
  BY <1>1 DEF IInv, PointersLive, Finishable
<1>3. \A t \in Tags : store[t] # c
  BY <1>1, <1>2 DEF IInv, PointersLive, Finishable, Removed
<1>4. io.call # c
  BY DEF EndAbort, Using
<1>5. refCount[c] = 1 /\ outstanding[c] = IF status[c] = "FROZEN" THEN 0 ELSE 1
  BY <1>1, <1>2 DEF IInv, RefCountExact
<1>6. TypeOK'
  <2>1. /\ refCount' \in [Calls -> Nat] /\ outstanding' \in [Calls -> Nat]
        /\ status' \in [Calls -> Statuses]
    BY <1>1, <1>5 DEF IInv, TypeOK, Statuses
  <2> QED
    BY <1>1, <2>1 DEF IInv, TypeOK, StoreTypeOK
<1>7. RefCountExact'
  BY <1>1, <1>2, <1>5 DEF IInv, TypeOK, RefCountExact
<1>8. PointersLive' /\ Removed'
  BY <1>1, <1>2, <1>3 DEF IInv, TypeOK, PointersLive, Finishable, Removed, Idle
<1>9. OneLiveCall' /\ TagsOld'
  BY <1>1 DEF IInv, OneLiveCall, TagsOld
<1>10. HandedInOrder' /\ EndHanded'
  BY <1>1 DEF IInv, TypeOK, HandedInOrder, EndHanded
<1>11. Storing' /\ EndQueued' /\ Fresh'
  BY <1>1, <1>2, <1>3, <1>4 DEF IInv, TypeOK, Storing, EndQueued, Fresh, Idle
<1> QED
  BY <1>6, <1>7, <1>8, <1>9, <1>10, <1>11 DEF IInv

\* A signal is delivered.
LEMMA QmlDeliverIInv ==
  ASSUME IInv, QmlDeliver
  PROVE  IInv'
<1>1. StoreTypeOK' /\ UNCHANGED <<store, lastTag>>
  BY DeliverType DEF IInv, TypeOK, QmlDeliver
<1> QED
  BY <1>1, QuietIInv DEF IInv, TypeOK, QmlDeliver

\* The server goes down.
LEMMA ShutdownIInv ==
  ASSUME IInv, Shutdown
  PROVE  IInv'
<1>1. StoreTypeOK' /\ UNCHANGED <<store, lastTag>>
  BY DEF IInv, TypeOK, Shutdown, StoreTypeOK, storeVars
<1> QED
  BY <1>1, QuietIInv DEF IInv, TypeOK, Shutdown

\* The IO thread goes on with the queue when a Read or a Write is complete.
LEMMA HandleQueuedIInv ==
  ASSUME IInv, NEW c \in Calls, outstanding[c] > 0, status[c] \in {"READ", "WRITE"},
         handleQueuedMessages(c), StoreTypeOK',
         UNCHANGED <<store, lastTag, memory, tag, refCount, reads, accepted, down, qml, io>>,
         io = AtNext
  PROVE  IInv'
<1> USE StoreAssumption, BidiAssumption
<1>1. memory[c] = "live" /\ outstanding[c] = 1 /\ refCount[c] = 1
  BY DEF IInv, TypeOK, RefCountExact
<1>2. queue[c] \in Seq(Responses) /\ handed[c] \in Seq(Responses) /\ ~Ends(handed[c])
  BY DEF IInv, TypeOK, EndHanded
<1>3. OneLiveCall' /\ TagsOld' /\ Removed' /\ Storing'
  BY DEF IInv, OneLiveCall, TagsOld, Removed, Storing
<1>4. CASE queue[c] = <<>>
  <2>1. /\ status' = [status EXCEPT ![c] = "FROZEN"]
        /\ outstanding' = [outstanding EXCEPT ![c] = @ - 1]
        /\ UNCHANGED <<queue, handed>>
    BY <1>4 DEF handleQueuedMessages
  <2>2. TypeOK'
    <3>1. outstanding' \in [Calls -> Nat] /\ status' \in [Calls -> Statuses]
      BY <1>1, <2>1 DEF IInv, TypeOK, Statuses
    <3> QED
      BY <2>1, <3>1 DEF IInv, TypeOK
  <2>3. RefCountExact'
    BY <1>1, <2>1 DEF IInv, TypeOK, RefCountExact
  <2>4. PointersLive' /\ EndQueued' /\ EndHanded'
    BY <1>2, <2>1 DEF IInv, TypeOK, StoreTypeOK, PointersLive, Finishable, EndQueued, EndHanded
  <2>5. HandedInOrder' /\ Fresh'
    BY <1>1, <1>4, <2>1 DEF IInv, TypeOK, HandedInOrder, Fresh
  <2> QED
    BY <1>3, <2>2, <2>3, <2>4, <2>5 DEF IInv
<1>5. CASE queue[c] # <<>>
  <2> DEFINE r == Head(queue[c])
  <2>1. /\ queue' = [queue EXCEPT ![c] = Tail(@)]
        /\ status' = [status EXCEPT ![c] = IF r = Null THEN "DONE" ELSE "WRITE"]
        /\ handed' = [handed EXCEPT ![c] = Append(@, r)]
        /\ outstanding' = outstanding
    BY <1>5 DEF handleQueuedMessages, Hand
  <2>2. /\ Append(handed[c], r) \o Tail(queue[c]) = handed[c] \o queue[c]
        /\ r \in Responses /\ Tail(queue[c]) \in Seq(Responses)
        /\ Append(handed[c], r) \in Seq(Responses)
    BY <1>2, <1>5, MoveHead
  <2>3. /\ r = Null => Ends(queue[c])
        /\ Ends(Tail(queue[c])) => Ends(queue[c])
        /\ Ends(Append(handed[c], r)) => r = Null
    BY <1>2, <1>5, <2>2, EndsOf
  <2>4. TypeOK'
    <3>1. /\ status' \in [Calls -> Statuses] /\ queue' \in [Calls -> Seq(Responses)]
          /\ handed' \in [Calls -> Seq(Responses)]
      BY <2>1, <2>2 DEF IInv, TypeOK, Statuses
    <3> QED
      BY <2>1, <3>1 DEF IInv, TypeOK
  <2>5. RefCountExact'
    BY <1>1, <2>1 DEF IInv, TypeOK, RefCountExact
  <2>6. r = Null => qml.call # c /\ \A t \in Tags : store[t] # c
    BY <2>3 DEF IInv, EndQueued
  <2>7. PointersLive'
    BY <2>1, <2>6 DEF IInv, TypeOK, StoreTypeOK, PointersLive, Finishable
  <2>8. HandedInOrder'
    BY <2>1, <2>2 DEF IInv, TypeOK, HandedInOrder
  <2>9. EndQueued' /\ EndHanded'
    BY <2>1, <2>3 DEF IInv, TypeOK, EndQueued, EndHanded
  <2>10. Fresh'
    BY <1>1, <1>5, <2>1 DEF IInv, TypeOK, Fresh
  <2> QED
    BY <1>3, <2>4, <2>5, <2>7, <2>8, <2>9, <2>10 DEF IInv
<1> QED
  BY <1>4, <1>5

\* The last reference of a call that nothing points to frees it, and another
\* object may take its place.
LEMMA DecrementRefIInv ==
  ASSUME IInv, NEW c \in Calls, NEW terminate \in BOOLEAN, terminate => down,
         outstanding[c] > 0, status[c] \in {"REQUEST", "DONE"}, decrementRef(c, terminate),
         UNCHANGED <<storeVars, tag, status, queue, reads, accepted, handed, down, qml, io>>,
         io = AtNext
  PROVE  IInv'
<1> USE StoreAssumption, BidiAssumption
<1>1. memory[c] = "live" /\ refCount[c] = outstanding[c] /\ outstanding[c] \in Nat
      /\ refCount' = [refCount EXCEPT ![c] = @ - 1]
  BY DEF IInv, TypeOK, RefCountExact, decrementRef
<1>2. UNCHANGED <<store, lastTag, signals, known, ended>>
  BY DEF storeVars
<1>3. qml.call # c /\ \A t \in Tags : store[t] # c
  BY Untagged
<1>4. /\ HandedInOrder' /\ EndQueued' /\ EndHanded' /\ TagsOld' /\ Removed' /\ Storing'
      /\ StoreTypeOK'
  BY <1>2 DEF IInv, TypeOK, HandedInOrder, EndQueued, EndHanded, TagsOld, Removed, Storing,
              StoreTypeOK
<1>5. refCount' \in [Calls -> Nat]
  BY <1>1 DEF IInv, TypeOK
<1>6. CASE refCount[c] # 1 /\ outstanding' = [outstanding EXCEPT ![c] = @ - 1]
           /\ memory' = memory
  <2>1. outstanding' \in [Calls -> Nat]
    BY <1>1, <1>6 DEF IInv, TypeOK
  <2>2. TypeOK'
    BY <1>2, <1>4, <1>5, <1>6, <2>1 DEF IInv, TypeOK
  <2>3. RefCountExact'
    BY <1>1, <1>6 DEF IInv, TypeOK, RefCountExact
  <2>4. PointersLive' /\ OneLiveCall' /\ Fresh'
    BY <1>1, <1>2, <1>6 DEF IInv, TypeOK, PointersLive, Finishable, OneLiveCall, Fresh
  <2> QED
    BY <1>4, <2>2, <2>3, <2>4 DEF IInv
<1>7. CASE /\ refCount[c] = 1
           /\ terminate \/ {d \in Calls : memory[d] = "none"} = {}
           /\ memory' = [memory EXCEPT ![c] = "freed"]
           /\ outstanding' = [outstanding EXCEPT ![c] = @ - 1]
  <2>1. outstanding[c] = 1
    BY <1>1, <1>7
  <2>2. TypeOK'
    <3>1. outstanding' \in [Calls -> Nat] /\ memory' \in [Calls -> {"none", "live", "freed"}]
      BY <1>7, <2>1 DEF IInv, TypeOK
    <3> QED
      BY <1>2, <1>4, <1>5, <3>1 DEF IInv, TypeOK
  <2>3. RefCountExact'
    BY <1>1, <1>7, <2>1 DEF IInv, TypeOK, RefCountExact
  <2>4. PointersLive' /\ Fresh'
    BY <1>1, <1>2, <1>3, <1>7 DEF IInv, TypeOK, StoreTypeOK, PointersLive, Finishable, Fresh
  <2>5. OneLiveCall'
    <3>1. \A d \in Calls \ {c} : memory[d] # "live"
      BY <1>1 DEF IInv, OneLiveCall
    <3> QED
      BY <1>7, <3>1 DEF IInv, TypeOK, OneLiveCall
  <2> QED
    BY <1>4, <2>2, <2>3, <2>4, <2>5 DEF IInv
<1>8. CASE refCount[c] = 1 /\ \E d \in {d \in Calls : memory[d] = "none"} :
             /\ memory' = [memory EXCEPT ![c] = "freed", ![d] = "live"]
             /\ outstanding' = [outstanding EXCEPT ![c] = @ - 1, ![d] = 1]
  <2>1. PICK d \in Calls :
          /\ memory[d] = "none"
          /\ memory' = [memory EXCEPT ![c] = "freed", ![d] = "live"]
          /\ outstanding' = [outstanding EXCEPT ![c] = @ - 1, ![d] = 1]
    BY <1>8
  <2>2. d # c /\ status[d] = "REQUEST" /\ refCount[d] = 1 /\ outstanding[c] = 1
    BY <1>1, <1>8, <2>1 DEF IInv, Fresh
  <2>3. TypeOK'
    <3>1. memory' \in [Calls -> {"none", "live", "freed"}]
      BY <2>1 DEF IInv, TypeOK
    <3>2. outstanding' \in [Calls -> Nat]
      <4>1. outstanding \in [Calls -> Nat] /\ outstanding[c] - 1 \in Nat
        BY <2>2 DEF IInv, TypeOK
      <4> QED
        BY <2>1, <4>1
    <3> QED
      BY <1>2, <1>4, <1>5, <3>1, <3>2 DEF IInv, TypeOK
  <2>4. RefCountExact'
    BY <1>1, <2>1, <2>2 DEF IInv, TypeOK, RefCountExact
  <2>5. PointersLive'
    BY <1>2, <1>3, <2>1 DEF IInv, TypeOK, StoreTypeOK, PointersLive, Finishable
  <2>6. OneLiveCall' /\ Fresh'
    BY <1>1, <2>1, <2>2 DEF IInv, TypeOK, OneLiveCall, Fresh
  <2> QED
    BY <1>4, <2>3, <2>4, <2>5, <2>6 DEF IInv
<1> QED
  BY <1>6, <1>7, <1>8 DEF decrementRef

\* A request arrives, or the server goes down while a call waits for one.
LEMMA ProcessRequestIInv ==
  ASSUME IInv, NEW c \in Calls, NEW ok \in BOOLEAN, ProcessRequest(c, ok)
  PROVE  IInv'
<1> USE StoreAssumption, BidiAssumption
<1>1. /\ io = AtNext /\ outstanding[c] > 0 /\ status[c] = "REQUEST" /\ (ok <=> ~down)
      /\ UNCHANGED <<storeVars, tag, queue, reads, accepted, handed, down, qml, io>>
  BY DEF ProcessRequest, Completes, IInv, TypeOK
<1>2. CASE /\ ok /\ status' = [status EXCEPT ![c] = "READ"]
           /\ UNCHANGED <<memory, refCount, outstanding>>
  <2>1. UNCHANGED <<store, lastTag, signals, known, ended>> /\ memory[c] = "live"
    BY <1>1 DEF storeVars, IInv, TypeOK, RefCountExact
  <2>2. status' \in [Calls -> Statuses]
    BY <1>2 DEF IInv, TypeOK, Statuses
  <2>3. TypeOK'
    BY <1>1, <1>2, <2>1, <2>2 DEF IInv, TypeOK, StoreTypeOK
  <2>4. RefCountExact' /\ OneLiveCall'
    BY <1>1, <1>2 DEF IInv, TypeOK, RefCountExact, OneLiveCall
  <2>5. PointersLive' /\ Removed'
    BY <1>1, <1>2, <2>1 DEF IInv, TypeOK, StoreTypeOK, PointersLive, Finishable, Removed
  <2>6. HandedInOrder' /\ EndQueued' /\ EndHanded'
    BY <1>1, <1>2, <2>1 DEF IInv, TypeOK, HandedInOrder, EndQueued, EndHanded
  <2>7. Storing' /\ TagsOld' /\ Fresh'
    BY <1>1, <1>2, <2>1 DEF IInv, TypeOK, Storing, TagsOld, Fresh
  <2> QED
    BY <2>3, <2>4, <2>5, <2>6, <2>7 DEF IInv
<1>3. CASE ~ok /\ decrementRef(c, TRUE) /\ status' = status
  BY <1>1, <1>3, DecrementRefIInv
<1> QED
  BY <1>2, <1>3 DEF ProcessRequest

\* A message: the data signal, or a call that waits to be stored.
LEMMA ProcessReadIInv ==
  ASSUME IInv, NEW c \in Calls, ProcessRead(c)
  PROVE  IInv'
<1> USE StoreAssumption, BidiAssumption
<1>1. /\ io = AtNext /\ outstanding[c] > 0 /\ status[c] = "READ" /\ reads[c] < MaxReads
      /\ reads' = [reads EXCEPT ![c] = @ + 1]
      /\ UNCHANGED <<memory, tag, status, queue, refCount, outstanding, accepted, handed, down, qml>>
  BY DEF ProcessRead, Completes
<1>2. memory[c] = "live" /\ reads' \in [Calls -> 0..MaxReads]
  BY <1>1 DEF IInv, TypeOK, RefCountExact
<1>3. PICK v \in Payloads :
        \/ tag[c] # 0 /\ Emit(<<DataOf(tag[c], v)>>) /\ io' = io
        \/ tag[c] = 0 /\ io' = [pc |-> "store", call |-> c, value |-> v] /\ UNCHANGED storeVars
  BY DEF ProcessRead
<1>4. StoreTypeOK' /\ UNCHANGED <<store, lastTag>>
  <2>1. CASE tag[c] # 0 /\ Emit(<<DataOf(tag[c], v)>>)
    <3>1. tag[c] \in Tags
      BY <2>1 DEF IInv, TypeOK
    <3>2. <<DataOf(tag[c], v)>> \in Seq(Signal)
      BY <3>1, SignalTypes
    <3> QED
      BY <2>1, <3>2, EmitType DEF Emit, IInv, TypeOK
  <2>2. CASE UNCHANGED storeVars
    BY <2>2 DEF storeVars, StoreTypeOK, IInv, TypeOK
  <2> QED
    BY <1>3, <2>1, <2>2
<1>5. TypeOK'
  BY <1>1, <1>2, <1>3, <1>4 DEF IInv, TypeOK
<1>6. RefCountExact' /\ OneLiveCall' /\ PointersLive' /\ HandedInOrder'
  BY <1>1, <1>4 DEF IInv, RefCountExact, OneLiveCall, PointersLive, Finishable, HandedInOrder
<1>7. Storing'
  BY <1>1, <1>2, <1>3 DEF IInv, Storing, AtNext
<1>8. Removed' /\ EndQueued' /\ EndHanded' /\ TagsOld' /\ Fresh'
  BY <1>1, <1>4 DEF IInv, Removed, EndQueued, EndHanded, TagsOld, Fresh
<1> QED
  BY <1>5, <1>6, <1>7, <1>8 DEF IInv

\* The call that waits to be stored gets a tag that nobody has used before.
LEMMA ProcessStoreIInv ==
  ASSUME IInv, ProcessStore
  PROVE  IInv'
<1> USE StoreAssumption, BidiAssumption
<1> DEFINE c == io.call
           t == lastTag'
<1>1. /\ io # AtNext /\ c \in Calls /\ io.value \in Payloads /\ StoreAndEmit(c, io.value)
      /\ tag' = [tag EXCEPT ![c] = t] /\ io' = AtNext
      /\ UNCHANGED <<memory, status, queue, refCount, outstanding, reads, accepted, handed,
                     down, qml>>
  BY DEF ProcessStore, AtNext, IInv, TypeOK
<1>2. memory[c] = "live" /\ status[c] = "READ" /\ tag[c] = 0 /\ queue[c] = <<>>
  BY <1>1 DEF IInv, Storing, Fresh
<1>3. StoreTypeOK' /\ t = lastTag + 1 /\ t \in Tags
  BY <1>1, StoreAndEmitType DEF IInv, TypeOK
<1>4. /\ store' = [store EXCEPT ![t] = c] /\ store \in [Tags -> Calls \cup {NoCall}]
      /\ tag \in [Calls -> Tags \cup {0}] /\ lastTag \in Nat
  BY <1>1 DEF StoreAndEmit, IInv, TypeOK, StoreTypeOK
<1>5. qml.call # c /\ \A s \in Tags : store[s] # c
  BY <1>1, <1>2, Untagged
<1>6. qml # Idle => qml.call \in Calls /\ qml.tag \in Tags /\ qml.tag # t
  <2>1. \A s \in Tags : s \in Nat
    BY DEF Tags
  <2>2. \A d \in Calls : tag[d] <= lastTag /\ tag[d] \in Nat
    BY <1>4, <2>1 DEF IInv, TagsOld
  <2>3. \A d \in Calls : tag[d] # t
    BY <1>3, <1>4, <2>2
  <2>4. qml # Idle => qml.call \in Calls /\ qml.tag \in Tags
    BY DEF IInv, TypeOK
  <2> QED
    BY <2>3, <2>4 DEF IInv, PointersLive, Finishable
<1>7. TypeOK'
  <2>1. tag' \in [Calls -> Tags \cup {0}]
    BY <1>1, <1>3, <1>4
  <2> QED
    BY <1>1, <1>3, <2>1 DEF IInv, TypeOK
<1>8. RefCountExact' /\ OneLiveCall' /\ HandedInOrder' /\ EndHanded'
  BY <1>1 DEF IInv, RefCountExact, OneLiveCall, HandedInOrder, EndHanded
<1>9. PointersLive'
  <2>1. ASSUME NEW s \in Tags, store'[s] # NoCall
        PROVE  /\ memory'[store'[s]] = "live" /\ tag'[store'[s]] = s
               /\ status'[store'[s]] \notin {"REQUEST", "DONE"}
    <3>1. CASE s = t
      BY <1>1, <1>2, <1>4, <3>1
    <3>2. CASE s # t
      <4>1. store'[s] = store[s] /\ store[s] \in Calls \ {c}
        BY <1>4, <1>5, <2>1, <3>2
      <4> QED
        BY <1>1, <1>4, <2>1, <4>1 DEF IInv, PointersLive, Finishable
    <3> QED
      BY <3>1, <3>2
  <2>2. qml # Idle => /\ memory'[qml.call] = "live" /\ tag'[qml.call] = qml.tag
                      /\ status'[qml.call] \notin {"REQUEST", "DONE"}
    BY <1>1, <1>4, <1>5, <1>6 DEF IInv, PointersLive, Finishable
  <2> QED
    BY <1>1, <2>1, <2>2 DEF PointersLive, Finishable
<1>10. Removed'
  BY <1>1, <1>4, <1>6 DEF IInv, TypeOK, Removed, Idle
<1>11. EndQueued'
  <2>1. ~Ends(queue[c])
    BY <1>2 DEF Ends, Holds
  <2> QED
    BY <1>1, <1>4, <2>1 DEF IInv, EndQueued
<1>12. TagsOld'
  <2>1. \A s \in Tags : s \in Nat
    BY DEF Tags
  <2>2. \A d \in Calls : tag[d] <= lastTag /\ tag[d] \in Nat
    BY <1>4, <2>1 DEF IInv, TagsOld
  <2> QED
    BY <1>1, <1>3, <1>4, <2>2 DEF TagsOld
<1>13. Storing' /\ Fresh'
  BY <1>1, <1>2, <1>3, <1>4 DEF IInv, Storing, Fresh
<1> QED
  BY <1>7, <1>8, <1>9, <1>10, <1>11, <1>12, <1>13 DEF IInv

\* The client's end is signalled, then the queue goes on.
LEMMA ProcessReadEndIInv ==
  ASSUME IInv, NEW c \in Calls, ProcessReadEnd(c)
  PROVE  IInv'
<1>1. /\ io = AtNext /\ outstanding[c] > 0 /\ status[c] = "READ" /\ handleQueuedMessages(c)
      /\ UNCHANGED <<memory, tag, refCount, reads, accepted, down, qml, io>>
  BY DEF ProcessReadEnd, Completes
<1>2. StoreTypeOK' /\ UNCHANGED <<store, lastTag>>
  <2>1. CASE tag[c] # 0
    <3>1. tag[c] \in Tags
      BY <2>1 DEF IInv, TypeOK
    <3>2. <<DataEndOf(tag[c])>> \in Seq(Signal)
      BY <3>1 DEF DataEndOf, Signal
    <3>3. Emit(<<DataEndOf(tag[c])>>)
      BY <2>1 DEF ProcessReadEnd
    <3> QED
      BY <3>2, <3>3, EmitType DEF Emit, IInv, TypeOK
  <2>2. CASE tag[c] = 0
    <3>1. UNCHANGED storeVars
      BY <2>2 DEF ProcessReadEnd
    <3> QED
      BY <3>1 DEF storeVars, StoreTypeOK, IInv, TypeOK
  <2> QED
    BY <2>1, <2>2
<1> QED
  BY <1>1, <1>2, HandleQueuedIInv

\* A Write is complete.
LEMMA ProcessWriteIInv ==
  ASSUME IInv, NEW c \in Calls, ProcessWrite(c)
  PROVE  IInv'
<1>1. /\ io = AtNext /\ outstanding[c] > 0 /\ status[c] = "WRITE" /\ handleQueuedMessages(c)
      /\ UNCHANGED <<storeVars, memory, tag, refCount, reads, accepted, down, qml, io>>
  BY DEF ProcessWrite, Completes
<1>2. StoreTypeOK' /\ UNCHANGED <<store, lastTag>>
  BY <1>1 DEF storeVars, StoreTypeOK, IInv, TypeOK
<1> QED
  BY <1>1, <1>2, HandleQueuedIInv

\* A completion of a call that is finishing.
LEMMA ProcessDoneIInv ==
  ASSUME IInv, NEW c \in Calls, ProcessDone(c)
  PROVE  IInv'
BY DecrementRefIInv DEF ProcessDone, Completes

\* Nothing happens.
LEMMA StutterIInv ==
  ASSUME IInv, UNCHANGED vars
  PROVE  IInv'
<1>1. StoreTypeOK' /\ UNCHANGED <<store, lastTag, callVars, qml, io, down>>
  BY DEF IInv, TypeOK, vars, storeVars, StoreTypeOK
<1> QED
  BY <1>1, QuietIInv DEF IInv, TypeOK

-----------------------------------------------------------------------------
\* Every step keeps the invariant.
LEMMA NextIInv ==
  ASSUME IInv, [Next]_vars
  PROVE  IInv'
<1>1. CASE QmlNext
  BY <1>1, BeginRespondIInv, BeginRemoveIInv, EndRespondIInv, EndAbortIInv, QmlDeliverIInv,
     ShutdownIInv DEF QmlNext
<1>2. CASE IoNext
  BY <1>2, ProcessRequestIInv, ProcessReadIInv, ProcessStoreIInv, ProcessReadEndIInv,
     ProcessWriteIInv, ProcessDoneIInv DEF IoNext, Process
<1>3. CASE UNCHANGED vars
  BY <1>3, StutterIInv
<1> QED
  BY <1>1, <1>2, <1>3 DEF Next

\* The invariant holds in every state of the bidirectional method.
THEOREM Invariance == Spec => []IInv
<1>1. IInv /\ [Next]_vars => IInv'
  BY NextIInv
<1> QED
  BY <1>1, InitIInv, PTL DEF Spec

\* Every variable of the bidirectional method stays within its type.
THEOREM TypeCorrect == Spec => []TypeOK
<1>1. IInv => TypeOK
  BY DEF IInv
<1> QED
  BY <1>1, Invariance, PTL

\* The reference count of a finishing call is the number of completions to
\* come, whatever abort() found in flight: no double delete, and no
\* completion for a deleted call.
THEOREM RefCountAlways == Spec => []RefCountExact
<1>1. IInv => RefCountExact
  BY DEF IInv
<1> QED
  BY <1>1, Invariance, PTL

\* A pointer that the QML thread takes from the store is good until it is
\* done with it.
THEOREM PointersAlways == Spec => []PointersLive
<1>1. IInv => PointersLive
  BY DEF IInv
<1> QED
  BY <1>1, Invariance, PTL

\* The opposite lock orders do not deadlock: respond() waits for the mutex of
\* a call that has a tag, and the IO thread waits for the store's lock only
\* with the mutex of a call that has none.
THEOREM NoDeadlock == Spec => []NoLockCycle
<1>1. IInv => NoLockCycle
  <2> SUFFICES ASSUME IInv, qml.op = "respond", io.pc = "store", io.call = qml.call
               PROVE  FALSE
    BY DEF NoLockCycle
  <2>1. qml # Idle /\ qml.tag \in Tags /\ tag[qml.call] = qml.tag
    BY DEF IInv, TypeOK, PointersLive, Finishable, Idle
  <2>2. tag[io.call] = 0
    BY DEF IInv, Storing, AtNext
  <2> QED
    BY <2>1, <2>2 DEF Tags
<1> QED
  BY <1>1, Invariance, PTL

\* The method always has exactly one call object, until it goes down.
THEOREM OneLiveCallAlways == Spec => []OneLiveCall
<1>1. IInv => OneLiveCall
  BY DEF IInv
<1> QED
  BY <1>1, Invariance, PTL

\* Reference count, pointers and the one live call, together.
THEOREM CallsSafeAlways == Spec => []CallsSafe
<1>1. IInv => CallsSafe
  BY DEF IInv, CallsSafe
<1> QED
  BY <1>1, Invariance, PTL

-----------------------------------------------------------------------------
(* The responses of a call form an OutgoingStream.                         *)

\* A call that is not DONE has an open stream.
LEMMA StreamOpen ==
  ASSUME IInv, NEW c \in Calls, status[c] # "DONE"
  PROVE  Stream!Open(c)
<1>1. handed[c] \in Seq(Responses) /\ ~Ends(handed[c])
  BY DEF IInv, TypeOK, EndHanded
<1>2. handed[c] # <<>> => Len(handed[c]) \in 1..Len(handed[c])
  BY <1>1
<1> QED
  BY <1>1, <1>2 DEF Stream!Open, Ends, Holds

\* write() and end() are Accept, or AcceptAndHandOver when FROZEN.
LEMMA EndRespondStream ==
  ASSUME IInv, EndRespond
  PROVE  Stream!Next
<1> DEFINE c == qml.call
           r == qml.response
<1>1. /\ c \in Calls /\ r \in Responses
      /\ accepted' = [accepted EXCEPT ![c] = Append(@, r)]
  BY DEF IInv, TypeOK, Idle, EndRespond, Using, Accept
<1>2. CASE status[c] = "FROZEN"
  <2>1. handed' = [handed EXCEPT ![c] = Append(@, r)]
    BY <1>2 DEF EndRespond, Hand
  <2>2. handed[c] = accepted[c]
    <3>1. handed[c] \in Seq(Responses)
      BY <1>1 DEF IInv, TypeOK
    <3>2. accepted[c] = handed[c] \o <<>>
      BY <1>1, <1>2 DEF IInv, HandedInOrder
    <3> QED
      BY <3>1, <3>2, ConcatEmpty
  <2>3. Stream!Open(c)
    BY <1>1, <1>2, StreamOpen
  <2> QED
    BY <1>1, <2>1, <2>2, <2>3 DEF Stream!Next, Stream!AcceptAndHandOver
<1>3. CASE status[c] # "FROZEN"
  <2>1. handed' = handed
    BY <1>3 DEF EndRespond
  <2> QED
    BY <1>1, <2>1 DEF Stream!Next, Stream!Accept
<1> QED
  BY <1>2, <1>3

\* The IO thread hands over the next accepted response, or none.
LEMMA HandleQueuedStream ==
  ASSUME IInv, NEW c \in Calls, status[c] # "DONE", handleQueuedMessages(c),
         accepted' = accepted
  PROVE  Stream!Next \/ UNCHANGED <<accepted, handed>>
<1>1. CASE queue[c] = <<>>
  BY <1>1 DEF handleQueuedMessages
<1>2. CASE queue[c] # <<>>
  <2>1. handed' = [handed EXCEPT ![c] = Append(@, Head(queue[c]))]
    BY <1>2 DEF handleQueuedMessages, Hand
  <2>2. accepted[c] = handed[c] \o queue[c]
    BY DEF IInv, HandedInOrder
  <2>3. queue[c] \in Seq(Responses) /\ handed[c] \in Seq(Responses)
    BY DEF IInv, TypeOK
  <2>4. Len(handed[c]) < Len(accepted[c]) /\ accepted[c][Len(handed[c]) + 1] = Head(queue[c])
    BY <1>2, <2>2, <2>3, NextIsHead
  <2>5. Stream!HandOver(c)
    BY <2>1, <2>4, StreamOpen DEF Stream!HandOver
  <2> QED
    BY <2>5 DEF Stream!Next
<1> QED
  BY <1>1, <1>2

\* The bidirectional method implements OutgoingStream: gRPC is given what the
\* handler wrote, in order, nothing twice and nothing after the end.
THEOREM Refinement == Spec => ImplementsStream
<1>1. Init => Stream!Init
  BY DEF Init, Stream!Init
<1>2. ASSUME IInv, [Next]_vars PROVE Stream!Next \/ UNCHANGED <<accepted, handed>>
  <2>1. CASE EndRespond
    BY <1>2, <2>1, EndRespondStream
  <2>2. CASE QmlNext /\ ~EndRespond
    BY <2>2 DEF QmlNext, BeginRespond, BeginRemove, EndAbort, QmlDeliver, Shutdown, callVars
  <2>3. ASSUME NEW c \in Calls, Process(c) PROVE Stream!Next \/ UNCHANGED <<accepted, handed>>
    <3>1. CASE ProcessReadEnd(c) \/ ProcessWrite(c)
      BY <1>2, <3>1, HandleQueuedStream DEF ProcessReadEnd, ProcessWrite, Completes
    <3>2. CASE (\E ok \in BOOLEAN : ProcessRequest(c, ok)) \/ ProcessRead(c) \/ ProcessDone(c)
      BY <3>2 DEF ProcessRequest, ProcessRead, ProcessDone
    <3> QED
      BY <2>3, <3>1, <3>2 DEF Process
  <2>4. CASE ProcessStore
    BY <2>4 DEF ProcessStore
  <2>5. CASE UNCHANGED vars
    BY <2>5 DEF vars, callVars
  <2> QED
    BY <1>2, <2>1, <2>2, <2>3, <2>4, <2>5 DEF Next, IoNext
<1>3. IInv /\ [Next]_vars => [Stream!Next]_<<accepted, handed>>
  BY <1>2
<1> QED
  BY <1>1, <1>3, Invariance, PTL DEF Spec, ImplementsStream, Stream!Spec
=============================================================================
