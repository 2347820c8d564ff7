-------------------------- MODULE ServerWriterProofs --------------------------
(***************************************************************************)
(* Memory safety, message order and the only way to lose a call of the     *)
(* server-streaming method, for any number of call objects, messages and   *)
(* operations.                                                             *)
(*                                                                         *)
(* The invariants checked by TLC are not inductive.  What they lack:       *)
(*   HandedInOrder  nothing is lost between write() and gRPC;              *)
(*   Serving     the call whose request the IO thread processes has its    *)
(*               tag and has not left READ: abort() did nothing to it;     *)
(*   Looked      abort() and end() have taken their tag out of the store,  *)
(*               and respond(), which holds the store's lock, still finds  *)
(*               its call there;                                           *)
(*   EndQueued   a call with its end queued cannot be reached any more, so *)
(*               nobody uses it when the IO thread finishes it;            *)
(*   EndHanded   only a call that is DONE may have handed its end to gRPC; *)
(*   TagsOld     a tag in use was handed out before, to one call, so a new *)
(*               tag does not bring a removed one back;                    *)
(*   Fresh       an object that does not exist yet will start clean, and a *)
(*               call gets its tag once.                                   *)
(***************************************************************************)
EXTENDS ServerWriter, ServerStoreProofs

\* What the handler wrote goes to gRPC in order, and a FROZEN call has nothing
\* left to send.
HandedInOrder ==
  \A c \in Calls :
    /\ accepted[c] = handed[c] \o queue[c]
    /\ status[c] = "FROZEN" => queue[c] = <<>>

Serving == io # NoCall => memory[io] = "live" /\ status[io] = "READ" /\ tagOf[io] # 0

Looked ==
  /\ qml.op \in {"abort", "end"} => store[qml.tag] = NoCall /\ qml.response = Null
  /\ qml.op = "respond" => store[qml.tag] = qml.call /\ qml.response \in Messages

Ends(s) == Holds(s, Null)

EndQueued ==
  \A c \in Calls : Ends(queue[c]) =>
    /\ qml.call # c
    /\ \A t \in Tags : store[t] # c

EndHanded == \A c \in Calls : Ends(handed[c]) => status[c] = "DONE"

TagsOld ==
  /\ \A c \in Calls : tagOf[c] <= lastTag
  /\ \A c, d \in Calls : tagOf[c] = tagOf[d] /\ tagOf[c] # 0 => c = d

Fresh ==
  \A c \in Calls :
    /\ memory[c] = "none" => tagOf[c] = 0
    /\ tagOf[c] = 0 => status[c] = "READ" /\ queue[c] = <<>>
    /\ status[c] = "READ" => tagOf[c] = 0 \/ io = c

IInv ==
  /\ TypeOK
  /\ OneOperation
  /\ PointersLive
  /\ HandedInOrder
  /\ Serving
  /\ Looked
  /\ EndQueued
  /\ EndHanded
  /\ TagsOld
  /\ Fresh
  /\ LostOnlyByAbort

-----------------------------------------------------------------------------
\* Where a queue of responses contains the end marker.
LEMMA EndsOf ==
  ASSUME NEW q \in Seq(Responses)
  PROVE  /\ ~Ends(<<>>)
         /\ \A r \in Responses : Ends(Append(q, r)) <=> Ends(q) \/ r = Null
         /\ q # <<>> => (Head(q) = Null => Ends(q)) /\ (Ends(Tail(q)) => Ends(q))
BY HoldsOf DEF Ends

\* What is appended to the queue is appended to the whole.
LEMMA AppendConcat ==
  ASSUME NEW a \in Seq(Responses), NEW q \in Seq(Responses), NEW r \in Responses
  PROVE  Append(a \o q, r) = a \o Append(q, r)
OBVIOUS

\* The end marker stays the last of a queue until it is the head.
LEMMA LastOf ==
  ASSUME NEW q \in Seq(Responses)
  PROVE  /\ \A r \in Responses : Append(q, r) # <<>> /\ Append(q, r)[Len(Append(q, r))] = r
         /\ q # <<>> /\ q[Len(q)] = Null =>
              \/ Head(q) = Null
              \/ Tail(q) # <<>> /\ Tail(q)[Len(Tail(q))] = Null
<1>1. \A r \in Responses : Append(q, r) # <<>> /\ Append(q, r)[Len(Append(q, r))] = r
  OBVIOUS
<1>2. ASSUME q # <<>>, q[Len(q)] = Null, Head(q) # Null
      PROVE  Tail(q) # <<>> /\ Tail(q)[Len(Tail(q))] = Null
  <2> DEFINE n == Len(q)
  <2>1. n \in Nat /\ n # 0 /\ n # 1
    BY <1>2
  <2>2. Len(Tail(q)) = n - 1 /\ \A i \in 1..(n - 1) : Tail(q)[i] = q[i + 1]
    BY <1>2
  <2>3. n - 1 \in 1..(n - 1) /\ (n - 1) + 1 = n
    <3>1. \A k \in Nat : k # 0 /\ k # 1 => k - 1 \in 1..(k - 1) /\ (k - 1) + 1 = k
      OBVIOUS
    <3> HIDE DEF n
    <3> QED
      BY <2>1, <3>1
  <2>4. Tail(q)[n - 1] = q[n]
    BY <2>2, <2>3
  <2>5. Tail(q) # <<>>
    <3>1. n - 1 # 0
      BY <2>1
    <3>2. Len(Tail(q)) # Len(<<>>)
      BY <2>2, <3>1
    <3> QED
      BY <3>2
  <2> QED
    BY <1>2, <2>2, <2>4, <2>5
<1> QED
  BY <1>1, <1>2

-----------------------------------------------------------------------------
\* The first call object satisfies the invariant.
LEMMA InitIInv == Init => IInv
<1> SUFFICES ASSUME Init PROVE IInv
  OBVIOUS
<1> USE StoreAssumption, WriterAssumption
<1>1. PICK c \in Calls : /\ memory = [d \in Calls |-> IF d = c THEN "live" ELSE "none"]
                         /\ outstanding = [d \in Calls |-> IF d = c THEN 1 ELSE 0]
  BY DEF Init
<1>2. TypeOK
  <2>1. StoreTypeOK
    BY StoreInitType DEF Init
  <2>2. memory \in [Calls -> {"none", "live", "freed"}] /\ outstanding \in [Calls -> Nat]
    BY <1>1
  <2>3. queue \in [Calls -> Seq(Responses)] /\ accepted \in [Calls -> Seq(Responses)]
        /\ handed \in [Calls -> Seq(Responses)]
    BY DEF Init
  <2>4. tagOf \in [Calls -> Tags \cup {0}] /\ status \in [Calls -> Statuses]
    BY DEF Init, Statuses
  <2>5. down \in BOOLEAN /\ qml = Idle /\ io \in Calls \cup {NoCall} /\ aborted \subseteq Calls
    BY DEF Init
  <2> QED
    BY <2>1, <2>2, <2>3, <2>4, <2>5 DEF TypeOK
<1>3. OneOperation
  BY <1>1 DEF Init, OneOperation
<1>4. PointersLive /\ Serving /\ Looked
  BY DEF Init, StoreInit, PointersLive, Serving, Looked, Idle
<1>5. HandedInOrder
  BY ConcatEmpty DEF Init, HandedInOrder
<1>6. EndQueued /\ EndHanded
  <2>1. ~Ends(<<>>)
    BY DEF Ends, Holds
  <2> QED
    BY <2>1 DEF Init, EndQueued, EndHanded
<1>7. TagsOld /\ Fresh /\ LostOnlyByAbort
  BY DEF Init, StoreInit, TagsOld, Fresh, LostOnlyByAbort
<1> QED
  BY <1>2, <1>3, <1>4, <1>5, <1>6, <1>7 DEF IInv

-----------------------------------------------------------------------------
(* One lemma for each action of Next, after two for what the actions share. *)

\* A step that leaves every call and pointer as it is.
LEMMA QuietIInv ==
  ASSUME IInv, StoreTypeOK', UNCHANGED <<store, lastTag, callVars, qml, io>>,
         down \in BOOLEAN, down' \in {down, TRUE}
  PROVE  IInv'
<1>1. UNCHANGED <<store, lastTag, memory, tagOf, status, queue, outstanding, aborted,
                  accepted, handed, qml, io>>
  BY DEF callVars
<1>2. TypeOK'
  BY <1>1 DEF IInv, TypeOK
<1>3. OneOperation' /\ PointersLive' /\ HandedInOrder' /\ Serving' /\ Looked'
  BY <1>1 DEF IInv, OneOperation, PointersLive, Finishable, HandedInOrder, Serving, Looked
<1>4. EndQueued' /\ EndHanded' /\ TagsOld' /\ Fresh' /\ LostOnlyByAbort'
  BY <1>1 DEF IInv, EndQueued, EndHanded, TagsOld, Fresh, LostOnlyByAbort
<1> QED
  BY <1>2, <1>3, <1>4 DEF IInv

\* A call that has no tag or is finishing is not the one the QML thread uses,
\* and no tag names it.
LEMMA Untagged ==
  ASSUME IInv, NEW c \in Calls, tagOf[c] = 0 \/ status[c] = "DONE"
  PROVE  qml.call # c /\ \A t \in Tags : store[t] # c
<1>1. 0 \notin Tags
  BY DEF Tags
<1>2. \A t \in Tags : store[t] # c
  BY <1>1, StoreAssumption DEF IInv, PointersLive, Finishable
<1>3. qml = Idle \/ qml.tag \in Tags
  BY DEF IInv, TypeOK
<1>4. qml # Idle => qml.call # c
  BY <1>1, <1>3 DEF IInv, PointersLive, Finishable
<1> QED
  BY <1>2, <1>4, StoreAssumption DEF Idle

\* respond() looks a call up: it is not one whose end is queued.
LEMMA BeginRespondIInv ==
  ASSUME IInv, NEW t \in Tags, NEW m \in Messages, BeginRespond(t, m)
  PROVE  IInv'
<1> USE StoreAssumption, WriterAssumption
<1>1. /\ store[t] \in Calls /\ qml = Idle
      /\ qml' = [op |-> "respond", tag |-> t, call |-> store[t], response |-> m]
      /\ UNCHANGED <<store, lastTag, signals, known, ended, memory, tagOf, status, queue,
                     outstanding, aborted, accepted, handed, down, io>>
  BY DEF IInv, TypeOK, StoreTypeOK, BeginRespond, storeVars, callVars
<1>2. TypeOK'
  BY <1>1 DEF IInv, TypeOK, StoreTypeOK, Responses
<1>3. OneOperation' /\ HandedInOrder' /\ Serving'
  BY <1>1 DEF IInv, OneOperation, HandedInOrder, Serving
<1>4. PointersLive' /\ Looked'
  BY <1>1 DEF IInv, PointersLive, Finishable, Looked
<1>5. EndQueued' /\ EndHanded' /\ TagsOld' /\ Fresh'
  BY <1>1 DEF IInv, EndQueued, EndHanded, TagsOld, Fresh
<1>6. LostOnlyByAbort'
  BY <1>1 DEF IInv, LostOnlyByAbort, Idle
<1> QED
  BY <1>2, <1>3, <1>4, <1>5, <1>6 DEF IInv

\* abort() and end() take the tag away: only the QML thread has the call now.
LEMMA BeginRemoveIInv ==
  ASSUME IInv, NEW t \in Tags, NEW op \in {"abort", "end"}, BeginRemove(op, t)
  PROVE  IInv'
<1> USE StoreAssumption, WriterAssumption
<1>1. /\ store[t] \in Calls /\ qml = Idle
      /\ qml' = [op |-> op, tag |-> t, call |-> store[t], response |-> Null]
      /\ store' = [store EXCEPT ![t] = NoCall]
      /\ store \in [Tags -> Calls \cup {NoCall}]
      /\ UNCHANGED <<lastTag, memory, tagOf, status, queue, outstanding, aborted,
                     accepted, handed, down, io>>
  BY DEF IInv, TypeOK, StoreTypeOK, BeginRemove, Remove, callVars
<1>2. StoreTypeOK'
  BY RemoveType DEF IInv, TypeOK, BeginRemove
<1>3. TypeOK'
  BY <1>1, <1>2 DEF IInv, TypeOK, Responses
<1>4. OneOperation' /\ HandedInOrder' /\ Serving'
  BY <1>1 DEF IInv, OneOperation, HandedInOrder, Serving
<1>5. PointersLive' /\ Looked'
  BY <1>1 DEF IInv, PointersLive, Finishable, Looked
<1>6. EndQueued' /\ EndHanded' /\ TagsOld' /\ Fresh'
  BY <1>1 DEF IInv, EndQueued, EndHanded, TagsOld, Fresh
<1>7. LostOnlyByAbort'
  <2>1. tagOf[store[t]] = t /\ t # 0 /\ tagOf \in [Calls -> Tags \cup {0}]
    BY <1>1 DEF IInv, TypeOK, PointersLive, Finishable, Tags
  <2>2. ASSUME NEW c \in Calls, c # store[t], tagOf[c] # 0, store'[tagOf[c]] = NoCall
        PROVE  store[tagOf[c]] = NoCall
    <3>1. tagOf[c] # t
      BY <1>1, <2>1, <2>2 DEF IInv, TagsOld
    <3> QED
      BY <1>1, <2>1, <2>2, <3>1
  <2> QED
    BY <1>1, <2>2 DEF IInv, LostOnlyByAbort, Idle
<1> QED
  BY <1>3, <1>4, <1>5, <1>6, <1>7 DEF IInv

\* write() and end(): at once if FROZEN, else behind what is queued.
LEMMA EndRespondIInv ==
  ASSUME IInv, EndRespond
  PROVE  IInv'
<1> USE StoreAssumption, WriterAssumption
<1> DEFINE c == qml.call
           r == qml.response
<1>1. /\ c \in Calls /\ r \in Responses /\ qml.tag \in Tags /\ qml # Idle
      /\ qml.op \in {"respond", "end"} /\ qml' = Idle /\ io # c
      /\ accepted' = [accepted EXCEPT ![c] = Append(@, r)]
      /\ UNCHANGED <<store, lastTag, signals, known, ended, memory, tagOf, aborted, down, io>>
  BY DEF IInv, TypeOK, Idle, EndRespond, storeVars
<1>2. /\ memory[c] = "live" /\ tagOf[c] = qml.tag /\ status[c] \in Statuses
      /\ status[c] # "DONE" /\ tagOf[c] # 0
      /\ \A t \in Tags : store[t] = c => t = qml.tag
  BY <1>1 DEF IInv, TypeOK, PointersLive, Finishable, Tags
<1>3. /\ r = Null => \A t \in Tags : store[t] # c
      /\ r # Null => store[tagOf[c]] = c
  BY <1>1, <1>2 DEF IInv, Looked
<1>4. ~Ends(queue[c]) /\ queue[c] \in Seq(Responses) /\ handed[c] \in Seq(Responses)
      /\ accepted[c] \in Seq(Responses) /\ ~Ends(handed[c])
  BY <1>1, <1>2 DEF IInv, TypeOK, EndQueued, EndHanded
<1>5. /\ TagsOld' /\ Looked' /\ StoreTypeOK'
      /\ accepted' \in [Calls -> Seq(Responses)]
  BY <1>1, <1>4 DEF IInv, TypeOK, TagsOld, Looked, Idle, StoreTypeOK
<1>6. CASE status[c] = "FROZEN"
  <2>1. /\ status' = [status EXCEPT ![c] = IF r = Null THEN "DONE" ELSE "WRITE"]
        /\ handed' = [handed EXCEPT ![c] = Append(@, r)]
        /\ outstanding' = [outstanding EXCEPT ![c] = @ + 1]
        /\ queue' = queue
    BY <1>6 DEF EndRespond, Hand
  <2>2. TypeOK'
    <3>1. handed' \in [Calls -> Seq(Responses)] /\ outstanding' \in [Calls -> Nat]
          /\ status' \in [Calls -> Statuses]
      BY <1>4, <1>1, <2>1 DEF IInv, TypeOK, Statuses
    <3> QED
      BY <1>1, <1>5, <2>1, <3>1 DEF IInv, TypeOK
  <2>3. OneOperation'
    BY <1>1, <1>2, <1>6, <2>1 DEF IInv, TypeOK, OneOperation
  <2>4. PointersLive'
    BY <1>1, <1>3, <2>1 DEF IInv, TypeOK, StoreTypeOK, PointersLive, Finishable
  <2>5. HandedInOrder'
    <3>1. queue[c] = <<>> /\ accepted[c] = handed[c]
      BY <1>1, <1>4, <1>6, ConcatEmpty DEF IInv, HandedInOrder
    <3>2. accepted'[c] = Append(handed[c], r) /\ handed'[c] = Append(handed[c], r)
      BY <1>1, <2>1, <3>1 DEF IInv, TypeOK
    <3>3. accepted'[c] = handed'[c] \o queue'[c]
      BY <1>1, <1>4, <2>1, <3>1, <3>2, ConcatEmpty
    <3> QED
      BY <1>1, <2>1, <3>1, <3>3 DEF IInv, TypeOK, HandedInOrder
  <2>6. Serving' /\ EndQueued' /\ Fresh'
    BY <1>1, <1>2, <1>6, <2>1 DEF IInv, TypeOK, Serving, EndQueued, Fresh, Idle
  <2>7. EndHanded'
    BY <1>1, <1>4, <2>1, EndsOf DEF IInv, TypeOK, EndHanded
  <2>8. LostOnlyByAbort'
    BY <1>1, <1>3, <2>1 DEF IInv, TypeOK, LostOnlyByAbort
  <2> QED
    BY <1>5, <2>2, <2>3, <2>4, <2>5, <2>6, <2>7, <2>8 DEF IInv
<1>7. CASE status[c] # "FROZEN"
  <2>1. queue' = [queue EXCEPT ![c] = Append(@, r)] /\ UNCHANGED <<status, outstanding, handed>>
    BY <1>7 DEF EndRespond, enqueue
  <2>2. TypeOK'
    <3>1. queue' \in [Calls -> Seq(Responses)]
      BY <1>1, <1>4, <2>1 DEF IInv, TypeOK
    <3> QED
      BY <1>1, <1>5, <2>1, <3>1 DEF IInv, TypeOK
  <2>3. OneOperation' /\ Serving'
    BY <1>1, <2>1 DEF IInv, OneOperation, Serving
  <2>4. PointersLive'
    BY <1>1, <2>1 DEF IInv, PointersLive, Finishable
  <2>5. HandedInOrder'
    <3>1. accepted'[c] = Append(accepted[c], r) /\ queue'[c] = Append(queue[c], r)
      BY <1>1, <2>1 DEF IInv, TypeOK
    <3>2. accepted[c] = handed[c] \o queue[c]
      BY <1>1 DEF IInv, HandedInOrder
    <3>3. Append(handed[c] \o queue[c], r) = handed[c] \o Append(queue[c], r)
      BY <1>1, <1>4, AppendConcat
    <3>4. accepted'[c] = handed'[c] \o queue'[c]
      BY <2>1, <3>1, <3>2, <3>3
    <3> QED
      BY <1>1, <1>7, <2>1, <3>4 DEF IInv, TypeOK, HandedInOrder
  <2>6. EndQueued'
    <3>1. Ends(queue'[c]) => r = Null
      BY <1>1, <1>4, <2>1, EndsOf DEF IInv, TypeOK
    <3> QED
      BY <1>1, <1>3, <2>1, <3>1 DEF IInv, TypeOK, EndQueued, Idle
  <2>7. Fresh' /\ EndHanded'
    BY <1>1, <1>2, <2>1 DEF IInv, TypeOK, Fresh, EndHanded
  <2>8. LostOnlyByAbort'
    <3>1. r = Null => queue'[c] # <<>> /\ queue'[c][Len(queue'[c])] = Null
      BY <1>1, <1>4, <2>1, LastOf DEF IInv, TypeOK
    <3>2. \A d \in Calls \ {c} : queue'[d] = queue[d]
      BY <1>1, <2>1 DEF IInv, TypeOK
    <3> QED
      BY <1>1, <1>3, <2>1, <3>1, <3>2 DEF IInv, LostOnlyByAbort
  <2> QED
    BY <1>5, <2>2, <2>3, <2>4, <2>5, <2>6, <2>7, <2>8 DEF IInv
<1> QED
  BY <1>6, <1>7

\* abort(): the only step after which a call may be lost, unless it is FROZEN.
LEMMA EndAbortIInv ==
  ASSUME IInv, EndAbort
  PROVE  IInv'
<1> USE StoreAssumption, WriterAssumption
<1> DEFINE c == qml.call
<1>1. /\ c \in Calls /\ qml.tag \in Tags /\ qml # Idle /\ qml.op = "abort" /\ qml' = Idle
      /\ aborted' = aborted \cup {c}
      /\ UNCHANGED <<store, lastTag, signals, known, ended, memory, tagOf, queue,
                     accepted, handed, down, io>>
  BY DEF IInv, TypeOK, Idle, EndAbort, storeVars
<1>2. memory[c] = "live" /\ tagOf[c] = qml.tag /\ status[c] # "DONE" /\ tagOf[c] # 0
  BY <1>1 DEF IInv, PointersLive, Finishable, Tags
<1>3. \A t \in Tags : store[t] # c
  BY <1>1, <1>2 DEF IInv, PointersLive, Finishable, Looked
<1>4. StoreTypeOK' /\ aborted' \subseteq Calls /\ Looked' /\ TagsOld'
  BY <1>1 DEF IInv, TypeOK, StoreTypeOK, Looked, TagsOld, Idle
<1>5. CASE status[c] # "FROZEN" /\ UNCHANGED <<status, outstanding>>
  <2>1. TypeOK'
    BY <1>1, <1>4, <1>5 DEF IInv, TypeOK
  <2>2. OneOperation' /\ PointersLive' /\ HandedInOrder' /\ Serving'
    BY <1>1, <1>5 DEF IInv, OneOperation, PointersLive, Finishable, HandedInOrder, Serving
  <2>3. EndQueued' /\ EndHanded' /\ Fresh'
    BY <1>1, <1>3, <1>5 DEF IInv, EndQueued, EndHanded, Fresh, Idle
  <2>4. LostOnlyByAbort'
    BY <1>1, <1>5 DEF IInv, LostOnlyByAbort
  <2> QED
    BY <1>4, <2>1, <2>2, <2>3, <2>4 DEF IInv
<1>6. CASE /\ status[c] = "FROZEN"
           /\ status' = [status EXCEPT ![c] = "DONE"]
           /\ outstanding' = [outstanding EXCEPT ![c] = @ + 1]
  <2>1. TypeOK'
    <3>1. outstanding' \in [Calls -> Nat] /\ status' \in [Calls -> Statuses]
      BY <1>1, <1>6 DEF IInv, TypeOK, Statuses
    <3> QED
      BY <1>1, <1>4, <3>1 DEF IInv, TypeOK
  <2>2. OneOperation'
    BY <1>1, <1>2, <1>6 DEF IInv, TypeOK, OneOperation
  <2>3. PointersLive'
    BY <1>1, <1>3, <1>6 DEF IInv, TypeOK, StoreTypeOK, PointersLive, Finishable, Idle
  <2>4. HandedInOrder' /\ EndHanded'
    BY <1>1, <1>6 DEF IInv, TypeOK, HandedInOrder, EndHanded
  <2>5. Serving' /\ EndQueued' /\ Fresh'
    BY <1>1, <1>2, <1>3, <1>6 DEF IInv, TypeOK, Serving, EndQueued, Fresh, Idle
  <2>6. LostOnlyByAbort'
    BY <1>1, <1>6 DEF IInv, TypeOK, LostOnlyByAbort
  <2> QED
    BY <1>4, <2>1, <2>2, <2>3, <2>4, <2>5, <2>6 DEF IInv
<1> QED
  BY <1>5, <1>6 DEF EndAbort

\* A signal is delivered.
LEMMA QmlDeliverIInv ==
  ASSUME IInv, QmlDeliver
  PROVE  IInv'
<1>1. StoreTypeOK' /\ UNCHANGED <<store, lastTag>>
  BY DeliverType DEF IInv, TypeOK, QmlDeliver
<1> QED
  BY <1>1, QuietIInv DEF IInv, TypeOK, QmlDeliver

\* The server goes down.
LEMMA ShutdownIInv ==
  ASSUME IInv, Shutdown
  PROVE  IInv'
<1>1. StoreTypeOK' /\ UNCHANGED <<store, lastTag>>
  BY DEF IInv, TypeOK, Shutdown, StoreTypeOK, storeVars
<1> QED
  BY <1>1, QuietIInv DEF IInv, TypeOK, Shutdown

\* The IO thread goes on with the queue when a request was signalled or a
\* Write is complete.
LEMMA ProcessQueuedIInv ==
  ASSUME IInv, NEW c \in Calls, outstanding[c] > 0, tagOf[c] # 0,
         \/ status[c] = "READ" /\ io = c /\ io' = NoCall
         \/ status[c] = "WRITE" /\ io = NoCall /\ io' = io,
         processQueuedData(c),
         UNCHANGED <<storeVars, memory, tagOf, aborted, accepted, down, qml>>
  PROVE  IInv'
<1> USE StoreAssumption, WriterAssumption
<1>1. memory[c] = "live" /\ outstanding[c] = 1
  BY DEF IInv, TypeOK, OneOperation
<1>2. queue[c] \in Seq(Responses) /\ handed[c] \in Seq(Responses) /\ ~Ends(handed[c])
  BY DEF IInv, TypeOK, EndHanded
<1>3. UNCHANGED <<store, lastTag, signals, known, ended>>
  BY DEF storeVars
<1>4. StoreTypeOK' /\ TagsOld' /\ Looked' /\ Serving' /\ io' \in Calls \cup {NoCall}
  BY <1>3 DEF IInv, TypeOK, StoreTypeOK, TagsOld, Looked, Serving
<1>5. CASE queue[c] = <<>>
  <2>1. /\ status' = [status EXCEPT ![c] = "FROZEN"]
        /\ outstanding' = [outstanding EXCEPT ![c] = @ - 1]
        /\ UNCHANGED <<queue, handed>>
    BY <1>5 DEF processQueuedData
  <2>2. TypeOK'
    <3>1. outstanding' \in [Calls -> Nat] /\ status' \in [Calls -> Statuses]
      BY <1>1, <2>1 DEF IInv, TypeOK, Statuses
    <3> QED
      BY <1>4, <2>1, <3>1 DEF IInv, TypeOK
  <2>3. OneOperation'
    BY <1>1, <2>1 DEF IInv, TypeOK, OneOperation
  <2>4. PointersLive' /\ EndQueued' /\ EndHanded'
    BY <1>2, <1>3, <2>1 DEF IInv, TypeOK, StoreTypeOK, PointersLive, Finishable, EndQueued,
                            EndHanded
  <2>5. HandedInOrder' /\ Fresh'
    BY <1>1, <1>5, <2>1 DEF IInv, TypeOK, HandedInOrder, Fresh
  <2>6. LostOnlyByAbort'
    BY <1>3, <1>5, <2>1 DEF IInv, TypeOK, LostOnlyByAbort
  <2> QED
    BY <1>4, <2>2, <2>3, <2>4, <2>5, <2>6 DEF IInv
<1>6. CASE queue[c] # <<>>
  <2> DEFINE r == Head(queue[c])
  <2>1. /\ queue' = [queue EXCEPT ![c] = Tail(@)]
        /\ status' = [status EXCEPT ![c] = IF r = Null THEN "DONE" ELSE "WRITE"]
        /\ handed' = [handed EXCEPT ![c] = Append(@, r)]
        /\ outstanding' = outstanding
    BY <1>6 DEF processQueuedData, Hand
  <2>2. /\ Append(handed[c], r) \o Tail(queue[c]) = handed[c] \o queue[c]
        /\ r \in Responses /\ Tail(queue[c]) \in Seq(Responses)
        /\ Append(handed[c], r) \in Seq(Responses)
    BY <1>2, <1>6, MoveHead
  <2>3. /\ r = Null => Ends(queue[c])
        /\ Ends(Tail(queue[c])) => Ends(queue[c])
        /\ Ends(Append(handed[c], r)) => r = Null
    BY <1>2, <1>6, <2>2, EndsOf
  <2>4. TypeOK'
    <3>1. /\ status' \in [Calls -> Statuses] /\ queue' \in [Calls -> Seq(Responses)]
          /\ handed' \in [Calls -> Seq(Responses)]
      BY <2>1, <2>2 DEF IInv, TypeOK, Statuses
    <3> QED
      BY <1>4, <2>1, <3>1 DEF IInv, TypeOK
  <2>5. OneOperation'
    BY <1>1, <2>1 DEF IInv, TypeOK, OneOperation
  <2>6. r = Null => qml.call # c /\ \A t \in Tags : store[t] # c
    BY <2>3 DEF IInv, EndQueued
  <2>7. PointersLive'
    BY <1>3, <2>1, <2>6 DEF IInv, TypeOK, StoreTypeOK, PointersLive, Finishable
  <2>8. HandedInOrder'
    BY <2>1, <2>2 DEF IInv, TypeOK, HandedInOrder
  <2>9. EndQueued' /\ EndHanded'
    BY <1>3, <2>1, <2>3 DEF IInv, TypeOK, EndQueued, EndHanded
  <2>10. Fresh'
    BY <1>1, <1>6, <2>1 DEF IInv, TypeOK, Fresh
  <2>11. LostOnlyByAbort'
    <3>1. queue[c][Len(queue[c])] = Null =>
            \/ status'[c] = "DONE"
            \/ queue'[c] # <<>> /\ queue'[c][Len(queue'[c])] = Null
      <4>1. queue[c][Len(queue[c])] = Null =>
              \/ r = Null
              \/ Tail(queue[c]) # <<>> /\ Tail(queue[c])[Len(Tail(queue[c]))] = Null
        BY <1>2, <1>6, LastOf
      <4>2. queue'[c] = Tail(queue[c]) /\ (r = Null => status'[c] = "DONE")
        BY <2>1 DEF IInv, TypeOK
      <4> QED
        BY <4>1, <4>2
    <3>2. \A d \in Calls \ {c} : queue'[d] = queue[d] /\ status'[d] = status[d]
      BY <2>1 DEF IInv, TypeOK
    <3> QED
      BY <1>3, <3>1, <3>2 DEF IInv, LostOnlyByAbort
  <2> QED
    BY <1>4, <2>4, <2>5, <2>7, <2>8, <2>9, <2>10, <2>11 DEF IInv
<1> QED
  BY <1>5, <1>6

\* A call that nothing points to is deleted, and another object may take its
\* place.
LEMMA DeleteIInv ==
  ASSUME IInv, NEW c \in Calls, outstanding[c] > 0, io = NoCall,
         tagOf[c] = 0 \/ status[c] = "DONE",
         \/ /\ memory' = [memory EXCEPT ![c] = "freed"]
            /\ outstanding' = [outstanding EXCEPT ![c] = @ - 1]
         \/ \E d \in Calls :
              /\ memory[d] = "none"
              /\ memory' = [memory EXCEPT ![c] = "freed", ![d] = "live"]
              /\ outstanding' = [outstanding EXCEPT ![c] = @ - 1, ![d] = 1],
         UNCHANGED <<storeVars, tagOf, status, queue, aborted, accepted, handed, down, qml, io>>
  PROVE  IInv'
<1> USE StoreAssumption, WriterAssumption
<1>1. memory[c] = "live" /\ outstanding[c] = 1 /\ status[c] # "FROZEN"
  BY DEF IInv, TypeOK, OneOperation
<1>2. UNCHANGED <<store, lastTag, signals, known, ended>>
  BY DEF storeVars
<1>3. qml.call # c /\ \A t \in Tags : store[t] # c
  BY Untagged
<1>4. /\ HandedInOrder' /\ EndQueued' /\ EndHanded' /\ TagsOld' /\ Looked' /\ Serving'
      /\ StoreTypeOK'
  <2>1. HandedInOrder' /\ EndHanded'
    BY DEF IInv, HandedInOrder, EndHanded
  <2>2. EndQueued' /\ TagsOld' /\ Looked'
    BY <1>2 DEF IInv, EndQueued, TagsOld, Looked
  <2>3. Serving' /\ StoreTypeOK'
    BY <1>2 DEF IInv, TypeOK, Serving, StoreTypeOK
  <2> QED
    BY <2>1, <2>2, <2>3
<1>5. CASE /\ memory' = [memory EXCEPT ![c] = "freed"]
           /\ outstanding' = [outstanding EXCEPT ![c] = @ - 1]
  <2>1. TypeOK'
    <3>1. outstanding' \in [Calls -> Nat] /\ memory' \in [Calls -> {"none", "live", "freed"}]
      BY <1>1, <1>5 DEF IInv, TypeOK
    <3> QED
      BY <1>2, <1>4, <3>1 DEF IInv, TypeOK
  <2>2. OneOperation'
    BY <1>1, <1>5 DEF IInv, TypeOK, OneOperation
  <2>3. PointersLive' /\ Fresh'
    BY <1>1, <1>2, <1>3, <1>5 DEF IInv, TypeOK, StoreTypeOK, PointersLive, Finishable, Fresh
  <2>4. LostOnlyByAbort'
    BY <1>1, <1>2, <1>5 DEF IInv, TypeOK, LostOnlyByAbort
  <2> QED
    BY <1>4, <2>1, <2>2, <2>3, <2>4 DEF IInv
<1>6. ASSUME NEW d \in Calls, memory[d] = "none",
             memory' = [memory EXCEPT ![c] = "freed", ![d] = "live"],
             outstanding' = [outstanding EXCEPT ![c] = @ - 1, ![d] = 1]
      PROVE  IInv'
  <2>1. d # c /\ status[d] = "READ" /\ tagOf[d] = 0
    BY <1>1, <1>6 DEF IInv, Fresh
  <2>2. TypeOK'
    <3>1. memory' \in [Calls -> {"none", "live", "freed"}]
      BY <1>6 DEF IInv, TypeOK
    <3>2. outstanding' \in [Calls -> Nat]
      <4>1. outstanding \in [Calls -> Nat] /\ outstanding[c] - 1 \in Nat
        BY <1>1 DEF IInv, TypeOK
      <4> QED
        BY <1>6, <4>1
    <3> QED
      BY <1>2, <1>4, <3>1, <3>2 DEF IInv, TypeOK
  <2>3. OneOperation'
    BY <1>1, <1>6, <2>1 DEF IInv, TypeOK, OneOperation
  <2>4. PointersLive'
    BY <1>2, <1>3, <1>6 DEF IInv, TypeOK, StoreTypeOK, PointersLive, Finishable
  <2>5. Fresh' /\ LostOnlyByAbort'
    BY <1>1, <1>2, <1>6, <2>1 DEF IInv, TypeOK, Fresh, LostOnlyByAbort
  <2> QED
    BY <1>4, <2>2, <2>3, <2>4, <2>5 DEF IInv
<1> QED
  BY <1>5, <1>6

\* The server goes down while a call waits for a request.
LEMMA ProcessShutdownIInv ==
  ASSUME IInv, NEW c \in Calls, ProcessShutdown(c)
  PROVE  IInv'
<1>1. io = NoCall /\ tagOf[c] = 0
  BY StoreAssumption DEF ProcessShutdown, Completes, IInv, Fresh
<1> QED
  BY <1>1, DeleteIInv DEF ProcessShutdown, Completes

\* The call that a request arrives for gets a tag that nobody has used before.
LEMMA ProcessRequestIInv ==
  ASSUME IInv, NEW c \in Calls, ProcessRequest(c)
  PROVE  IInv'
<1> USE StoreAssumption, WriterAssumption
<1> DEFINE t == lastTag'
<1>1. PICK v \in Payloads : StoreAndEmit(c, v)
  BY DEF ProcessRequest
<1>2. /\ io = NoCall /\ outstanding[c] > 0 /\ status[c] = "READ" /\ qml.op # "respond"
      /\ tagOf' = [tagOf EXCEPT ![c] = t] /\ io' = c
      /\ UNCHANGED <<memory, status, queue, outstanding, aborted, accepted, handed, down, qml>>
  BY DEF ProcessRequest, Completes
<1>3. memory[c] = "live" /\ tagOf[c] = 0 /\ queue[c] = <<>>
  BY <1>2 DEF IInv, TypeOK, OneOperation, Fresh
<1>4. StoreTypeOK' /\ t = lastTag + 1 /\ t \in Tags /\ t # 0
  BY <1>1, StoreAndEmitType DEF IInv, TypeOK, Tags
<1>5. /\ store' = [store EXCEPT ![t] = c] /\ store \in [Tags -> Calls \cup {NoCall}]
      /\ tagOf \in [Calls -> Tags \cup {0}] /\ lastTag \in Nat
  BY <1>1 DEF StoreAndEmit, IInv, TypeOK, StoreTypeOK
<1>6. qml.call # c /\ \A s \in Tags : store[s] # c
  BY <1>3, Untagged
<1>7. \A d \in Calls : tagOf[d] <= lastTag /\ tagOf[d] \in Nat /\ tagOf[d] # t
  <2>1. \A s \in Tags : s \in Nat
    BY DEF Tags
  <2>2. \A d \in Calls : tagOf[d] <= lastTag /\ tagOf[d] \in Nat
    BY <1>5, <2>1 DEF IInv, TagsOld
  <2> QED
    BY <1>4, <1>5, <2>2
<1>8. qml # Idle => qml.call \in Calls /\ qml.tag \in Tags /\ qml.tag # t
  BY <1>7 DEF IInv, TypeOK, PointersLive, Finishable
<1>9. TypeOK'
  <2>1. tagOf' \in [Calls -> Tags \cup {0}]
    BY <1>2, <1>4, <1>5
  <2> QED
    BY <1>2, <1>4, <2>1 DEF IInv, TypeOK
<1>10. OneOperation' /\ HandedInOrder' /\ EndHanded'
  BY <1>2 DEF IInv, OneOperation, HandedInOrder, EndHanded
<1>11. PointersLive'
  <2>1. ASSUME NEW s \in Tags, store'[s] # NoCall
        PROVE  memory'[store'[s]] = "live" /\ tagOf'[store'[s]] = s /\ status'[store'[s]] # "DONE"
    <3>1. CASE s = t
      BY <1>2, <1>3, <1>5, <3>1
    <3>2. CASE s # t
      <4>1. store'[s] = store[s] /\ store[s] \in Calls \ {c}
        BY <1>5, <1>6, <2>1, <3>2
      <4> QED
        BY <1>2, <1>5, <2>1, <4>1 DEF IInv, PointersLive, Finishable
    <3> QED
      BY <3>1, <3>2
  <2>2. qml # Idle => /\ memory'[qml.call] = "live" /\ tagOf'[qml.call] = qml.tag
                      /\ status'[qml.call] # "DONE"
    BY <1>2, <1>5, <1>6, <1>8 DEF IInv, PointersLive, Finishable
  <2> QED
    BY <1>2, <2>1, <2>2 DEF PointersLive, Finishable
<1>12. Looked'
  BY <1>2, <1>5, <1>8 DEF IInv, TypeOK, Looked, Idle
<1>13. EndQueued'
  <2>1. ~Ends(queue[c])
    BY <1>3 DEF Ends, Holds
  <2> QED
    BY <1>2, <1>5, <2>1 DEF IInv, EndQueued
<1>14. TagsOld'
  BY <1>2, <1>4, <1>5, <1>7 DEF IInv, TagsOld
<1>15. Serving' /\ Fresh'
  BY <1>2, <1>3, <1>4, <1>5 DEF IInv, Serving, Fresh
<1>16. LostOnlyByAbort'
  <2>1. store'[tagOf'[c]] = c
    BY <1>2, <1>4, <1>5
  <2>2. ASSUME NEW d \in Calls, d # c, tagOf[d] # 0
        PROVE  tagOf'[d] = tagOf[d] /\ store'[tagOf'[d]] = store[tagOf[d]]
    BY <1>2, <1>5, <1>7, <2>2
  <2>3. ASSUME NEW d \in Calls, d # c, tagOf'[d] # 0
        PROVE  tagOf[d] # 0
    BY <1>2, <1>5, <2>3
  <2> QED
    BY <1>2, <2>1, <2>2, <2>3 DEF IInv, LostOnlyByAbort
<1> QED
  BY <1>9, <1>10, <1>11, <1>12, <1>13, <1>14, <1>15, <1>16 DEF IInv

\* The queue goes on after the request was signalled.
LEMMA ProcessRequestedIInv ==
  ASSUME IInv, ProcessRequested
  PROVE  IInv'
<1>1. io \in Calls /\ memory[io] = "live" /\ status[io] = "READ" /\ tagOf[io] # 0
  BY DEF ProcessRequested, IInv, TypeOK, Serving
<1>2. outstanding[io] > 0
  BY <1>1 DEF IInv, OneOperation
<1> QED
  BY <1>1, <1>2, ProcessQueuedIInv DEF ProcessRequested

\* A Write is complete.
LEMMA ProcessWriteIInv ==
  ASSUME IInv, NEW c \in Calls, ProcessWrite(c)
  PROVE  IInv'
<1>1. tagOf[c] # 0
  BY DEF ProcessWrite, Completes, IInv, Fresh
<1> QED
  BY <1>1, ProcessQueuedIInv DEF ProcessWrite, Completes

\* Finish is complete.
LEMMA ProcessDoneIInv ==
  ASSUME IInv, NEW c \in Calls, ProcessDone(c)
  PROVE  IInv'
BY DeleteIInv DEF ProcessDone, Completes

\* Nothing happens.
LEMMA StutterIInv ==
  ASSUME IInv, UNCHANGED vars
  PROVE  IInv'
<1>1. StoreTypeOK' /\ UNCHANGED <<store, lastTag, callVars, qml, io, down>>
  BY DEF IInv, TypeOK, vars, storeVars, StoreTypeOK
<1> QED
  BY <1>1, QuietIInv DEF IInv, TypeOK

-----------------------------------------------------------------------------
\* Every step keeps the invariant.
LEMMA NextIInv ==
  ASSUME IInv, [Next]_vars
  PROVE  IInv'
<1>1. CASE QmlNext
  BY <1>1, BeginRespondIInv, BeginRemoveIInv, EndRespondIInv, EndAbortIInv, QmlDeliverIInv,
     ShutdownIInv DEF QmlNext
<1>2. CASE IoNext
  BY <1>2, ProcessShutdownIInv, ProcessRequestIInv, ProcessRequestedIInv, ProcessWriteIInv,
     ProcessDoneIInv DEF IoNext, Process
<1>3. CASE UNCHANGED vars
  BY <1>3, StutterIInv
<1> QED
  BY <1>1, <1>2, <1>3 DEF Next

\* The invariant holds in every state of the server-streaming method.
THEOREM Invariance == Spec => []IInv
<1>1. IInv /\ [Next]_vars => IInv'
  BY NextIInv
<1> QED
  BY <1>1, InitIInv, PTL DEF Spec

\* No call of the server-streaming method is used after its deletion, and
\* gRPC is given one operation at a time, although abort() takes no lock.
THEOREM CallsSafeAlways == Spec => []CallsSafe
<1>1. IInv => CallsSafe
  BY DEF IInv, CallsSafe
<1> QED
  BY <1>1, Invariance, PTL

\* A call that can no longer be reached is finishing or will finish once its
\* queue is written, unless abort() gave it up.
THEOREM LostOnlyByAbortAlways == Spec => []LostOnlyByAbort
<1>1. IInv => LostOnlyByAbort
  BY DEF IInv
<1> QED
  BY <1>1, Invariance, PTL

-----------------------------------------------------------------------------
(* The responses of a call form an OutgoingStream.                         *)

\* A call that is not DONE has an open stream.
LEMMA StreamOpen ==
  ASSUME IInv, NEW c \in Calls, status[c] # "DONE"
  PROVE  Stream!Open(c)
<1>1. handed[c] \in Seq(Responses) /\ ~Ends(handed[c])
  BY DEF IInv, TypeOK, EndHanded
<1>2. handed[c] # <<>> => Len(handed[c]) \in 1..Len(handed[c])
  BY <1>1
<1> QED
  BY <1>1, <1>2 DEF Stream!Open, Ends, Holds

\* write() and end() are Accept, or AcceptAndHandOver when FROZEN.
LEMMA EndRespondStream ==
  ASSUME IInv, EndRespond
  PROVE  Stream!Next
<1> DEFINE c == qml.call
           r == qml.response
<1>1. /\ c \in Calls /\ r \in Responses
      /\ accepted' = [accepted EXCEPT ![c] = Append(@, r)]
  BY DEF IInv, TypeOK, Idle, EndRespond
<1>2. CASE status[c] = "FROZEN"
  <2>1. handed' = [handed EXCEPT ![c] = Append(@, r)]
    BY <1>2 DEF EndRespond, Hand
  <2>2. handed[c] = accepted[c]
    <3>1. handed[c] \in Seq(Responses)
      BY <1>1 DEF IInv, TypeOK
    <3>2. accepted[c] = handed[c] \o <<>>
      BY <1>1, <1>2 DEF IInv, HandedInOrder
    <3> QED
      BY <3>1, <3>2, ConcatEmpty
  <2>3. Stream!Open(c)
    BY <1>1, <1>2, StreamOpen
  <2> QED
    BY <1>1, <2>1, <2>2, <2>3 DEF Stream!Next, Stream!AcceptAndHandOver
<1>3. CASE status[c] # "FROZEN"
  <2>1. handed' = handed
    BY <1>3 DEF EndRespond
  <2> QED
    BY <1>1, <2>1 DEF Stream!Next, Stream!Accept
<1> QED
  BY <1>2, <1>3

\* The IO thread hands over the next accepted response, or none.
LEMMA ProcessQueuedStream ==
  ASSUME IInv, NEW c \in Calls, status[c] # "DONE", processQueuedData(c),
         accepted' = accepted
  PROVE  Stream!Next \/ UNCHANGED <<accepted, handed>>
<1>1. CASE queue[c] = <<>>
  BY <1>1 DEF processQueuedData
<1>2. CASE queue[c] # <<>>
  <2>1. handed' = [handed EXCEPT ![c] = Append(@, Head(queue[c]))]
    BY <1>2 DEF processQueuedData, Hand
  <2>2. accepted[c] = handed[c] \o queue[c]
    BY DEF IInv, HandedInOrder
  <2>3. queue[c] \in Seq(Responses) /\ handed[c] \in Seq(Responses)
    BY DEF IInv, TypeOK
  <2>4. Len(handed[c]) < Len(accepted[c]) /\ accepted[c][Len(handed[c]) + 1] = Head(queue[c])
    BY <1>2, <2>2, <2>3, NextIsHead
  <2>5. Stream!HandOver(c)
    BY <2>1, <2>4, StreamOpen DEF Stream!HandOver
  <2> QED
    BY <2>5 DEF Stream!Next
<1> QED
  BY <1>1, <1>2

\* The server-streaming method implements OutgoingStream: gRPC is given what
\* the handler wrote, in order, nothing twice and nothing after the end.
THEOREM Refinement == Spec => ImplementsStream
<1>1. Init => Stream!Init
  BY DEF Init, Stream!Init
<1>2. ASSUME IInv, [Next]_vars PROVE Stream!Next \/ UNCHANGED <<accepted, handed>>
  <2>1. CASE EndRespond
    BY <1>2, <2>1, EndRespondStream
  <2>2. CASE QmlNext /\ ~EndRespond
    BY <2>2 DEF QmlNext, BeginRespond, BeginRemove, EndAbort, QmlDeliver, Shutdown, callVars
  <2>3. ASSUME NEW c \in Calls, Process(c) PROVE Stream!Next \/ UNCHANGED <<accepted, handed>>
    <3>1. CASE ProcessWrite(c)
      BY <1>2, <3>1, ProcessQueuedStream DEF ProcessWrite, Completes
    <3>2. CASE ProcessShutdown(c) \/ ProcessRequest(c) \/ ProcessDone(c)
      BY <3>2 DEF ProcessShutdown, ProcessRequest, ProcessDone
    <3> QED
      BY <2>3, <3>1, <3>2 DEF Process
  <2>4. CASE ProcessRequested
    <3>1. io \in Calls /\ status[io] # "DONE"
      BY <1>2, <2>4 DEF ProcessRequested, IInv, TypeOK, Serving
    <3> QED
      BY <1>2, <2>4, <3>1, ProcessQueuedStream DEF ProcessRequested
  <2>5. CASE UNCHANGED vars
    BY <2>5 DEF vars, callVars
  <2> QED
    BY <1>2, <2>1, <2>2, <2>3, <2>4, <2>5 DEF Next, IoNext
<1>3. IInv /\ [Next]_vars => [Stream!Next]_<<accepted, handed>>
  BY <1>2
<1> QED
  BY <1>1, <1>3, Invariance, PTL DEF Spec, ImplementsStream, Stream!Spec
=============================================================================
