------------------------- MODULE ServerReaderProofs -------------------------
(***************************************************************************)
(* Safety of the client-streaming server method, for any number of call    *)
(* objects, messages and reads, although its two threads share the status  *)
(* without a lock: an answer can be thrown away, and that is the worst     *)
(* that can happen.                                                        *)
(*                                                                         *)
(* PointersLive is not inductive: the QML thread must be the only one to   *)
(* know the call it answers (Alone), a new call must start afresh (Fresh)  *)
(* and a call without a tag must not have lost an answer (DroppedHadTag).  *)
(* EndIInv, further down, is what says when an answer can be thrown away.  *)
(***************************************************************************)
EXTENDS ServerReader, ServerStoreProofs

\* The call the QML thread is about to answer had a tag and has lost it.
Alone == qml # NoCall => tag[qml] # 0 /\ \A t \in Tags : store[t] # qml

\* An object that does not exist yet will wait for a request.
Fresh == \A c \in Calls : memory[c] = "none" => status[c] = "FIRST_READ"

\* Only a call that was stored can lose its answer.
DroppedHadTag == \A c \in dropped : tag[c] # 0

IInv == TypeOK /\ OneOperation /\ PointersLive /\ Alone /\ Fresh /\ DroppedHadTag

\* The first call object waits for a request, and no tag names it.
LEMMA InitIInv == Init => IInv
<1> SUFFICES ASSUME Init PROVE IInv
  OBVIOUS
<1> USE StoreAssumption, ReaderAssumption
<1>1. PICK c \in Calls : /\ memory = [d \in Calls |-> IF d = c THEN "live" ELSE "none"]
                         /\ outstanding = [d \in Calls |-> IF d = c THEN 1 ELSE 0]
  BY DEF Init
<1>2. TypeOK
  <2>1. StoreTypeOK
    BY StoreInitType DEF Init
  <2>2. memory \in [Calls -> {"none", "live", "freed"}] /\ outstanding \in [Calls -> Nat]
    BY <1>1
  <2>3. tag \in [Calls -> Tags \cup {0}] /\ status \in [Calls -> Statuses]
    BY DEF Init, Statuses
  <2>4. reads \in [Calls -> 0..MaxReads]
    BY DEF Init
  <2>5. down \in BOOLEAN /\ qml \in Calls \cup {NoCall} /\ dropped \subseteq Calls
    BY DEF Init
  <2> QED
    BY <2>1, <2>2, <2>3, <2>4, <2>5 DEF TypeOK
<1>3. OneOperation /\ Fresh
  BY <1>1 DEF Init, OneOperation, Fresh
<1>4. PointersLive /\ Alone /\ DroppedHadTag
  BY DEF Init, StoreInit, PointersLive, Alone, DroppedHadTag
<1> QED
  BY <1>2, <1>3, <1>4 DEF IInv

-----------------------------------------------------------------------------
(* One lemma for each action of Next.                                      *)

\* The handler answers a tag: from now on only the QML thread knows the call.
LEMMA BeginAnswerIInv ==
  ASSUME IInv, NEW t \in Tags, BeginAnswer(t)
  PROVE  IInv'
<1> USE StoreAssumption
<1>1. /\ store[t] \in Calls /\ Remove(t) /\ qml' = store[t]
      /\ UNCHANGED <<memory, tag, status, outstanding, reads, down, dropped>>
  BY DEF IInv, TypeOK, StoreTypeOK, BeginAnswer, callVars
<1>2. store' = [store EXCEPT ![t] = NoCall] /\ store \in [Tags -> Calls \cup {NoCall}]
  BY <1>1 DEF Remove, IInv, TypeOK, StoreTypeOK
<1>3. Answerable(store[t]) /\ tag[store[t]] = t
  BY <1>1 DEF IInv, PointersLive
<1>4. TypeOK'
  BY <1>1, RemoveType DEF IInv, TypeOK
<1>5. OneOperation' /\ Fresh'
  BY <1>1 DEF IInv, OneOperation, Fresh
<1>6. PointersLive'
  BY <1>1, <1>2, <1>3 DEF IInv, PointersLive, Answerable
<1>7. Alone' /\ DroppedHadTag'
  BY <1>1, <1>2, <1>3 DEF IInv, PointersLive, Alone, DroppedHadTag, Tags
<1> QED
  BY <1>4, <1>5, <1>6, <1>7 DEF IInv

\* The call is finished if it is FROZEN, and the answer is lost if it is not;
\* no pointer to it is left either way.
LEMMA EndAnswerIInv ==
  ASSUME IInv, EndAnswer
  PROVE  IInv'
<1> USE StoreAssumption
<1>1. /\ qml \in Calls /\ qml' = NoCall /\ Answerable(qml)
      /\ UNCHANGED <<store, memory, tag, reads, down>> /\ StoreTypeOK'
  BY DEF IInv, TypeOK, StoreTypeOK, PointersLive, EndAnswer, storeVars
<1>2. \A t \in Tags : store[t] # qml
  BY <1>1 DEF IInv, Alone
<1>3. CASE /\ status[qml] = "FROZEN"
           /\ status' = [status EXCEPT ![qml] = "DONE"]
           /\ outstanding' = [outstanding EXCEPT ![qml] = @ + 1]
           /\ UNCHANGED dropped
  <2>1. TypeOK'
    BY <1>1, <1>3 DEF IInv, TypeOK, Statuses
  <2>2. OneOperation'
    BY <1>1, <1>3 DEF IInv, TypeOK, OneOperation, Answerable
  <2>3. PointersLive' /\ Alone' /\ DroppedHadTag'
    BY <1>1, <1>2, <1>3 DEF IInv, TypeOK, PointersLive, Answerable, Alone, DroppedHadTag
  <2>4. Fresh'
    BY <1>1, <1>3 DEF IInv, TypeOK, Fresh, Answerable
  <2> QED
    BY <2>1, <2>2, <2>3, <2>4 DEF IInv
<1>4. CASE /\ status[qml] # "FROZEN"
           /\ dropped' = dropped \cup {qml}
           /\ UNCHANGED <<status, outstanding>>
  <2>1. TypeOK'
    BY <1>1, <1>4 DEF IInv, TypeOK
  <2>2. OneOperation' /\ Fresh'
    BY <1>1, <1>4 DEF IInv, OneOperation, Fresh
  <2>3. PointersLive' /\ Alone' /\ DroppedHadTag'
    BY <1>1, <1>2, <1>4 DEF IInv, TypeOK, PointersLive, Answerable, Alone, DroppedHadTag
  <2> QED
    BY <2>1, <2>2, <2>3 DEF IInv
<1> QED
  BY <1>3, <1>4 DEF EndAnswer

\* Neither a signal nor the shutdown touches a call.
LEMMA QuietIInv ==
  ASSUME IInv, QmlDeliver \/ Shutdown
  PROVE  IInv'
<1>1. UNCHANGED <<store, lastTag, memory, tag, status, outstanding, reads, qml, dropped>> /\ StoreTypeOK'
  BY DeliverType
  DEF IInv, TypeOK, QmlDeliver, Shutdown, storeVars, callVars, StoreTypeOK
<1>2. TypeOK'
  BY <1>1 DEF IInv, TypeOK, QmlDeliver, Shutdown
<1> QED
  BY <1>1, <1>2 DEF IInv, OneOperation, PointersLive, Answerable, Alone, DroppedHadTag, Fresh

\* A call without a request has no tag: nobody misses it.
LEMMA ProcessShutdownIInv ==
  ASSUME IInv, NEW c \in Calls, ProcessShutdown(c)
  PROVE  IInv'
<1>1. /\ outstanding[c] > 0 /\ status[c] = "FIRST_READ"
      /\ memory' = [memory EXCEPT ![c] = "freed"]
      /\ outstanding' = [outstanding EXCEPT ![c] = @ - 1]
      /\ UNCHANGED <<storeVars, tag, status, reads, down, qml, dropped>>
  BY DEF ProcessShutdown, Completes
<1>2. memory[c] = "live" /\ outstanding[c] = 1
  BY <1>1 DEF IInv, OneOperation
<1>3. TypeOK'
  BY <1>1, <1>2 DEF IInv, TypeOK, StoreTypeOK, storeVars
<1>4. OneOperation' /\ Fresh'
  BY <1>1, <1>2 DEF IInv, TypeOK, OneOperation, Fresh
<1>5. PointersLive' /\ Alone' /\ DroppedHadTag'
  BY <1>1 DEF IInv, TypeOK, StoreTypeOK, PointersLive, Answerable, Alone,
       DroppedHadTag, storeVars
<1> QED
  BY <1>3, <1>4, <1>5 DEF IInv

\* A request: the same operation count, for the first Read.
LEMMA ProcessRequestIInv ==
  ASSUME IInv, NEW c \in Calls, ProcessRequest(c)
  PROVE  IInv'
<1>1. /\ outstanding[c] > 0 /\ status[c] = "FIRST_READ"
      /\ status' = [status EXCEPT ![c] = "READ"]
      /\ UNCHANGED <<storeVars, memory, tag, outstanding, reads, down, qml, dropped>>
  BY DEF ProcessRequest, Completes
<1>2. memory[c] = "live"
  BY <1>1 DEF IInv, OneOperation
<1>3. TypeOK'
  BY <1>1 DEF IInv, TypeOK, StoreTypeOK, Statuses, storeVars
<1>4. OneOperation' /\ Fresh'
  BY <1>1, <1>2 DEF IInv, TypeOK, OneOperation, Fresh
<1>5. PointersLive' /\ Alone' /\ DroppedHadTag'
  BY <1>1 DEF IInv, TypeOK, StoreTypeOK, PointersLive, Answerable, Alone,
       DroppedHadTag, storeVars
<1> QED
  BY <1>3, <1>4, <1>5 DEF IInv

\* A message: the first one gives the call its tag, and the store its only
\* pointer to it.
LEMMA ProcessReadIInv ==
  ASSUME IInv, NEW c \in Calls, ProcessRead(c)
  PROVE  IInv'
<1> USE StoreAssumption, ReaderAssumption
<1>1. /\ outstanding[c] > 0 /\ status[c] = "READ" /\ reads[c] < MaxReads
      /\ reads' = [reads EXCEPT ![c] = @ + 1]
      /\ UNCHANGED <<memory, status, outstanding, down, qml, dropped>>
  BY DEF ProcessRead, Completes
<1>2. memory[c] = "live" /\ reads' \in [Calls -> 0..MaxReads]
  BY <1>1 DEF IInv, TypeOK, OneOperation
<1>3. OneOperation' /\ Fresh'
  BY <1>1 DEF IInv, OneOperation, Fresh
<1>4. CASE tag[c] = 0 /\ \E v \in Payloads : StoreAndEmit(c, v) /\ tag' = [tag EXCEPT ![c] = lastTag']
  <2>1. StoreTypeOK' /\ lastTag' \in Tags
    BY <1>4, StoreAndEmitType DEF IInv, TypeOK
  <2>2. /\ store' = [store EXCEPT ![lastTag'] = c] /\ tag' = [tag EXCEPT ![c] = lastTag']
        /\ store \in [Tags -> Calls \cup {NoCall}] /\ tag \in [Calls -> Tags \cup {0}]
    BY <1>4 DEF StoreAndEmit, IInv, TypeOK, StoreTypeOK
  <2>3. qml # c /\ \A t \in Tags : store[t] # c
    BY <1>4 DEF IInv, PointersLive, Alone, Tags
  <2>4. c \notin dropped
    BY <1>4 DEF IInv, DroppedHadTag
  <2>5. TypeOK'
    BY <1>1, <1>2, <2>1, <2>2 DEF IInv, TypeOK
  <2>6. PointersLive' /\ Alone' /\ DroppedHadTag'
    BY <1>1, <1>2, <2>1, <2>2, <2>3, <2>4 DEF IInv, TypeOK, PointersLive, Answerable, Alone,
       DroppedHadTag, Tags
  <2> QED
    BY <1>3, <2>5, <2>6 DEF IInv
<1>5. CASE tag[c] # 0 /\ \E v \in Payloads : Emit(<<DataOf(tag[c], v)>>) /\ UNCHANGED tag
  <2>1. PICK v \in Payloads : Emit(<<DataOf(tag[c], v)>>)
    BY <1>5
  <2>2. DataOf(tag[c], v) \in Signal
    BY <1>5, SignalTypes DEF IInv, TypeOK
  <2>3. <<DataOf(tag[c], v)>> \in Seq(Signal)
    BY <2>2
  <2>4. StoreTypeOK'
    BY <2>1, <2>3, EmitType DEF IInv, TypeOK
  <2>5. TypeOK'
    BY <1>1, <1>2, <1>5, <2>4 DEF IInv, TypeOK
  <2>6. PointersLive' /\ Alone' /\ DroppedHadTag'
    BY <1>1, <1>5, <2>1 DEF IInv, PointersLive, Answerable, Alone, DroppedHadTag, Emit
  <2> QED
    BY <1>3, <2>5, <2>6 DEF IInv
<1> QED
  BY <1>4, <1>5 DEF ProcessRead

\* The end of the messages freezes the call.
LEMMA ProcessReadEndIInv ==
  ASSUME IInv, NEW c \in Calls, ProcessReadEnd(c)
  PROVE  IInv'
<1>1. /\ outstanding[c] > 0 /\ status[c] = "READ"
      /\ status' = [status EXCEPT ![c] = "FROZEN"]
      /\ outstanding' = [outstanding EXCEPT ![c] = @ - 1]
      /\ UNCHANGED <<memory, tag, reads, down, qml, dropped>>
      /\ UNCHANGED store
  BY DEF ProcessReadEnd, Completes, Emit, storeVars
<1>2. memory[c] = "live" /\ outstanding[c] = 1
  BY <1>1 DEF IInv, OneOperation
<1>3. StoreTypeOK'
  <2>1. CASE tag[c] # 0
    <3>1. DataEndOf(tag[c]) \in Signal
      BY <2>1 DEF IInv, TypeOK, Signal, DataEndOf
    <3>2. <<DataEndOf(tag[c])>> \in Seq(Signal)
      BY <3>1
    <3> QED
      BY <2>1, <3>2, EmitType DEF ProcessReadEnd, IInv, TypeOK
  <2>2. CASE tag[c] = 0
    BY <2>2 DEF ProcessReadEnd, IInv, TypeOK, StoreTypeOK, storeVars
  <2> QED
    BY <2>1, <2>2
<1>4. TypeOK'
  BY <1>1, <1>2, <1>3 DEF IInv, TypeOK, Statuses
<1>5. OneOperation' /\ Fresh'
  BY <1>1, <1>2 DEF IInv, TypeOK, OneOperation, Fresh
<1>6. PointersLive' /\ Alone' /\ DroppedHadTag'
  BY <1>1 DEF IInv, TypeOK, StoreTypeOK, PointersLive, Answerable, Alone, DroppedHadTag
<1> QED
  BY <1>4, <1>5, <1>6 DEF IInv

\* A finished call is deleted; nobody can reach it, and its successor starts.
LEMMA ProcessDoneIInv ==
  ASSUME IInv, NEW c \in Calls, ProcessDone(c)
  PROVE  IInv'
<1> USE StoreAssumption
<1>1. /\ outstanding[c] > 0 /\ status[c] = "DONE"
      /\ UNCHANGED <<storeVars, tag, status, reads, down, qml, dropped>>
  BY DEF ProcessDone, Completes
<1>2. memory[c] = "live" /\ outstanding[c] = 1
  BY <1>1 DEF IInv, OneOperation
<1>3. qml # c /\ \A t \in Tags : store[t] # c
  BY <1>1 DEF IInv, PointersLive, Answerable
<1>4. CASE /\ memory' = [memory EXCEPT ![c] = "freed"]
           /\ outstanding' = [outstanding EXCEPT ![c] = @ - 1]
  <2>1. TypeOK'
    BY <1>1, <1>2, <1>4 DEF IInv, TypeOK, StoreTypeOK, storeVars
  <2>2. OneOperation' /\ Fresh'
    BY <1>1, <1>2, <1>4 DEF IInv, TypeOK, OneOperation, Fresh
  <2>3. PointersLive' /\ Alone' /\ DroppedHadTag'
    BY <1>1, <1>3, <1>4 DEF IInv, TypeOK, StoreTypeOK, PointersLive, Answerable, Alone,
       DroppedHadTag, storeVars
  <2> QED
    BY <2>1, <2>2, <2>3 DEF IInv
<1>5. CASE \E d \in Calls :
             /\ memory[d] = "none"
             /\ memory' = [memory EXCEPT ![c] = "freed", ![d] = "live"]
             /\ outstanding' = [outstanding EXCEPT ![c] = @ - 1, ![d] = 1]
  <2>1. PICK d \in Calls :
          /\ memory[d] = "none"
          /\ memory' = [memory EXCEPT ![c] = "freed", ![d] = "live"]
          /\ outstanding' = [outstanding EXCEPT ![c] = @ - 1, ![d] = 1]
    BY <1>5
  <2>2. d # c /\ status[d] = "FIRST_READ"
    BY <1>2, <2>1 DEF IInv, Fresh
  <2>3. TypeOK'
    <3>1. memory' \in [Calls -> {"none", "live", "freed"}]
      BY <2>1 DEF IInv, TypeOK
    <3>2. outstanding' \in [Calls -> Nat]
      BY <1>2, <2>1 DEF IInv, TypeOK
    <3> QED
      BY <1>1, <3>1, <3>2 DEF IInv, TypeOK, StoreTypeOK, storeVars
  <2>4. OneOperation' /\ Fresh'
    BY <1>1, <1>2, <2>1, <2>2 DEF IInv, TypeOK, OneOperation, Fresh
  <2>5. PointersLive' /\ Alone' /\ DroppedHadTag'
    BY <1>1, <1>3, <2>1 DEF IInv, TypeOK, StoreTypeOK, PointersLive, Answerable, Alone,
       DroppedHadTag, storeVars
  <2> QED
    BY <2>3, <2>4, <2>5 DEF IInv
<1> QED
  BY <1>4, <1>5 DEF ProcessDone

-----------------------------------------------------------------------------
\* The invariant holds in every state of the client-streaming method.
THEOREM Invariance == Spec => []IInv
<1>1. IInv /\ [Next]_vars => IInv'
  <2> SUFFICES ASSUME IInv, [Next]_vars PROVE IInv'
    OBVIOUS
  <2>1. CASE QmlNext
    BY <2>1, BeginAnswerIInv, EndAnswerIInv, QuietIInv DEF QmlNext
  <2>2. CASE IoNext
    BY <2>2, ProcessShutdownIInv, ProcessRequestIInv, ProcessReadIInv, ProcessReadEndIInv,
       ProcessDoneIInv DEF IoNext, Process
  <2>3. CASE UNCHANGED vars
    BY <2>3 DEF IInv, TypeOK, StoreTypeOK, OneOperation, PointersLive, Answerable, Alone,
                DroppedHadTag, Fresh, vars, storeVars, callVars
  <2> QED
    BY <2>1, <2>2, <2>3 DEF Next
<1> QED
  BY <1>1, InitIInv, PTL DEF Spec

\* No call is used after its deletion, and gRPC gets one operation at a time:
\* resume() and abort() may run while process() does (server_reader.cpp).
THEOREM CallsSafeAlways == Spec => []CallsSafe
<1>1. IInv => CallsSafe
  BY DEF IInv, CallsSafe
<1> QED
  BY <1>1, Invariance, PTL

-----------------------------------------------------------------------------
(* When an answer is thrown away.  Only EndAnswer throws one away, of a    *)
(* call that is not FROZEN.  That the handler cannot have heard the end of *)
(* such a call needs that an "end" on its way or arrived belongs to a call *)
(* that was frozen (EndedIsClosed), and that no two calls share a tag      *)
(* (OneTagEach).                                                           *)

\* The end of the messages of tag t was sent to the QML thread.
EndSignal(t, v) == [kind |-> "dataEnd", tag |-> t, value |-> v]
EndQueued(t) == \E v \in Payloads \cup {EmptyPayload} : Holds(signals, EndSignal(t, v))
Ending(t) == t \in ended \/ EndQueued(t)

Closed(c) == status[c] \in {"FROZEN", "DONE"}

TagsHandedOut == \A c \in Calls : tag[c] <= lastTag
OneTagEach == \A c, d \in Calls : tag[c] # 0 /\ tag[c] = tag[d] => c = d
EndedIsClosed == \A t \in Tags : Ending(t) => \E c \in Calls : tag[c] = t /\ Closed(c)

EndIInv == TagsHandedOut /\ OneTagEach /\ EndedIsClosed

\* A step that gives no tag, reopens no call and announces no end keeps them.
LEMMA NoNewEnd ==
  ASSUME EndIInv, UNCHANGED <<tag, lastTag>>,
         \A t \in Tags : Ending(t)' => Ending(t),
         \A c \in Calls : Closed(c) => Closed(c)'
  PROVE  EndIInv'
<1>1. TagsHandedOut' /\ OneTagEach'
  BY DEF EndIInv, TagsHandedOut, OneTagEach
<1>2. EndedIsClosed'
  <2> SUFFICES ASSUME NEW t \in Tags, Ending(t)' PROVE \E c \in Calls : tag'[c] = t /\ Closed(c)'
    BY DEF EndedIsClosed, Tags
  <2>1. PICK c \in Calls : tag[c] = t /\ Closed(c)
    BY DEF EndIInv, EndedIsClosed
  <2> QED
    BY <2>1
<1> QED
  BY <1>1, <1>2 DEF EndIInv

\* At the start no tag was handed out and no end was sent.
LEMMA InitEndIInv == Init => EndIInv
<1> SUFFICES ASSUME Init PROVE EndIInv
  OBVIOUS
<1>1. TagsHandedOut /\ OneTagEach
  BY DEF Init, StoreInit, TagsHandedOut, OneTagEach
<1>2. signals \in Seq(Signal) /\ signals = <<>> /\ ended = {}
  BY DEF Init, StoreInit
<1>3. EndedIsClosed
  BY <1>2, HoldsOf DEF EndedIsClosed, Ending, EndQueued
<1> QED
  BY <1>1, <1>3 DEF EndIInv

\* A signal that is delivered leaves the queue; only its own tag can end.
LEMMA DeliverEnds ==
  ASSUME StoreTypeOK, Deliver
  PROVE  \A t \in Tags : Ending(t)' => Ending(t)
<1>1. signals \in Seq(Signal) /\ signals # <<>> /\ signals' = Tail(signals)
  BY DEF StoreTypeOK, Signal, Deliver, DeliverData, DeliverDataEnd
<1>2. Head(signals) \in Signal
  BY <1>1
<1> SUFFICES ASSUME NEW t \in Tags, Ending(t)' PROVE Ending(t)
  BY DEF Tags
<1>3. CASE EndQueued(t)'
  <2>1. PICK v \in Payloads \cup {EmptyPayload} : Holds(Tail(signals), EndSignal(t, v))
    BY <1>1, <1>3 DEF EndQueued, EndSignal
  <2>2. Holds(signals, EndSignal(t, v))
    BY <1>1, <2>1, HoldsOf
  <2> QED
    BY <2>2 DEF Ending, EndQueued
<1>4. CASE t \in ended
  BY <1>4 DEF Ending
<1>5. CASE t \in ended' /\ t \notin ended
  <2>1. Head(signals).kind = "dataEnd" /\ Head(signals).tag = t
    BY <1>5 DEF Deliver, DeliverData, DeliverDataEnd
  <2>2. PICK v \in Payloads \cup {EmptyPayload} : Head(signals) = EndSignal(t, v)
    BY <1>2, <2>1 DEF Signal, EndSignal
  <2>3. Holds(signals, EndSignal(t, v))
    BY <1>1, <2>2, HoldsOf
  <2> QED
    BY <2>3 DEF Ending, EndQueued
<1> QED
  BY <1>3, <1>4, <1>5 DEF Ending

\* The signal x joins the queue: it ends the tag t only if it is an end of t.
LEMMA QueuedEnds ==
  ASSUME StoreTypeOK, NEW x \in Signal, signals' = Append(signals, x), ended' = ended
  PROVE  \A t \in Tags : Ending(t)' => Ending(t) \/ (x.kind = "dataEnd" /\ x.tag = t)
<1>1. signals \in Seq(Signal)
  BY DEF StoreTypeOK, Signal
<1> SUFFICES ASSUME NEW t \in Tags, EndQueued(t)' PROVE EndQueued(t) \/ (x.kind = "dataEnd" /\ x.tag = t)
  BY DEF Ending, Tags
<1>2. PICK v \in Payloads \cup {EmptyPayload} : Holds(Append(signals, x), EndSignal(t, v))
  BY DEF EndQueued, EndSignal
<1>3. Holds(signals, EndSignal(t, v)) \/ x = EndSignal(t, v)
  BY <1>1, <1>2, HoldsOf
<1> QED
  BY <1>3 DEF EndQueued, EndSignal

\* The first message gives the call a tag of its own, whose end is not sent;
\* a later one changes nothing here.
LEMMA ProcessReadEnds ==
  ASSUME IInv, EndIInv, NEW c \in Calls, ProcessRead(c)
  PROVE  EndIInv'
<1> USE StoreAssumption
<1>1. UNCHANGED status /\ StoreTypeOK
  BY DEF ProcessRead, IInv, TypeOK
<1>2. CASE tag[c] = 0 /\ \E v \in Payloads : StoreAndEmit(c, v) /\ tag' = [tag EXCEPT ![c] = lastTag']
  <2>1. PICK v \in Payloads : StoreAndEmit(c, v)
    BY <1>2
  <2>2. lastTag' = lastTag + 1 /\ lastTag' \in Tags
    BY <1>1, <2>1, StoreAndEmitType
  <2>3. /\ tag' = [tag EXCEPT ![c] = lastTag'] /\ tag \in [Calls -> Tags \cup {0}]
        /\ lastTag \in Nat /\ \A d \in Calls : tag[d] \in Nat /\ tag[d] <= lastTag
    BY <1>1, <1>2 DEF IInv, TypeOK, StoreTypeOK, EndIInv, TagsHandedOut, Tags
  <2>4. TagsHandedOut'
    BY <2>2, <2>3 DEF TagsHandedOut
  <2>5. OneTagEach'
    BY <2>2, <2>3 DEF OneTagEach, EndIInv
  <2>6. \A t \in Tags : Ending(t)' => Ending(t)
    <3>1. DataOf(lastTag', v) \in Signal
      BY <2>2, SignalTypes
    <3> QED
      BY <1>1, <2>1, <3>1, QueuedEnds DEF StoreAndEmit, DataOf
  <2>7. EndedIsClosed'
    <3> SUFFICES ASSUME NEW t \in Tags, Ending(t)' PROVE \E d \in Calls : tag'[d] = t /\ Closed(d)'
      BY DEF EndedIsClosed, Tags
    <3>1. PICK d \in Calls : tag[d] = t /\ Closed(d)
      BY <2>6 DEF EndIInv, EndedIsClosed
    <3>2. d # c
      BY <1>2, <3>1 DEF Tags
    <3> QED
      BY <1>1, <2>3, <3>1, <3>2 DEF Closed
  <2> QED
    BY <2>4, <2>5, <2>7 DEF EndIInv
<1>3. CASE tag[c] # 0 /\ \E v \in Payloads : Emit(<<DataOf(tag[c], v)>>) /\ UNCHANGED tag
  <2>1. PICK v \in Payloads : Emit(<<DataOf(tag[c], v)>>) /\ UNCHANGED tag
    BY <1>3
  <2>2. DataOf(tag[c], v) \in Signal /\ signals \in Seq(Signal)
    BY <1>3, SignalTypes DEF IInv, TypeOK, StoreTypeOK, Signal
  <2>3. signals' = Append(signals, DataOf(tag[c], v))
    BY <2>1, <2>2 DEF Emit
  <2>4. \A t \in Tags : Ending(t)' => Ending(t)
    BY <1>1, <2>1, <2>2, <2>3, QueuedEnds DEF Emit, DataOf
  <2> QED
    BY <1>1, <2>1, <2>4, NoNewEnd DEF Closed, Emit
<1> QED
  BY <1>2, <1>3 DEF ProcessRead

\* The end is sent in the step that freezes the call.
LEMMA ProcessReadEndEnds ==
  ASSUME IInv, EndIInv, NEW c \in Calls, ProcessReadEnd(c)
  PROVE  EndIInv'
<1>1. /\ status' = [status EXCEPT ![c] = "FROZEN"] /\ status \in [Calls -> Statuses]
      /\ UNCHANGED <<tag, lastTag>> /\ StoreTypeOK
  BY DEF ProcessReadEnd, Emit, storeVars, IInv, TypeOK
<1>2. Closed(c)' /\ \A d \in Calls : Closed(d) => Closed(d)'
  BY <1>1 DEF Closed
<1>3. CASE tag[c] = 0
  <2>1. \A t \in Tags : Ending(t)' => Ending(t)
    BY <1>3 DEF ProcessReadEnd, storeVars, Ending, EndQueued
  <2> QED
    BY <1>1, <1>2, <2>1, NoNewEnd
<1>4. CASE tag[c] # 0
  <2>1. /\ DataEndOf(tag[c]) \in Signal /\ signals \in Seq(Signal)
        /\ signals' = signals \o <<DataEndOf(tag[c])>> /\ ended' = ended
    BY <1>4 DEF ProcessReadEnd, Emit, IInv, TypeOK, StoreTypeOK, Signal, DataEndOf
  <2>2. signals' = Append(signals, DataEndOf(tag[c]))
    BY <2>1
  <2>3. \A t \in Tags : Ending(t)' => Ending(t) \/ tag[c] = t
    BY <1>1, <2>1, <2>2, QueuedEnds DEF DataEndOf
  <2>4. EndedIsClosed'
    <3> SUFFICES ASSUME NEW t \in Tags, Ending(t)' PROVE \E d \in Calls : tag'[d] = t /\ Closed(d)'
      BY DEF EndedIsClosed, Tags
    <3> QED
      BY <1>1, <1>2, <2>3 DEF EndIInv, EndedIsClosed
  <2> QED
    BY <1>1, <2>4 DEF EndIInv, TagsHandedOut, OneTagEach
<1> QED
  BY <1>3, <1>4

\* The same, for a step that leaves the queue alone.
LEMMA OtherEnds ==
  ASSUME EndIInv, UNCHANGED <<tag, lastTag, signals, ended>>,
         \A c \in Calls : Closed(c) => Closed(c)'
  PROVE  EndIInv'
<1>1. \A t \in Tags : Ending(t)' => Ending(t)
  BY DEF Ending, EndQueued
<1> QED
  BY <1>1, NoNewEnd

\* Only the two steps of a Read touch the tags or send an end; and no step takes
\* a call back from FROZEN or DONE.
LEMMA NextEnds == IInv /\ EndIInv /\ [Next]_vars => EndIInv'
<1> SUFFICES ASSUME IInv, EndIInv, [Next]_vars PROVE EndIInv'
  OBVIOUS
<1>1. status \in [Calls -> Statuses] /\ StoreTypeOK
  BY DEF IInv, TypeOK
<1>2. ASSUME NEW t \in Tags, BeginAnswer(t) PROVE EndIInv'
  BY <1>2, OtherEnds DEF Closed, BeginAnswer, Remove, callVars
<1>3. CASE EndAnswer
  <2>1. UNCHANGED <<tag, lastTag, signals, ended>>
    BY <1>3 DEF EndAnswer, storeVars
  <2>2. status' = status \/ status' = [status EXCEPT ![qml] = "DONE"]
    BY <1>3 DEF EndAnswer
  <2> QED
    BY <1>1, <2>1, <2>2, OtherEnds DEF Closed
<1>4. CASE QmlDeliver
  <2>1. UNCHANGED <<tag, lastTag, status>>
    BY <1>1, <1>4, DeliverType DEF QmlDeliver, callVars
  <2> QED
    BY <1>1, <1>4, <2>1, DeliverEnds, NoNewEnd DEF QmlDeliver, Closed
<1>5. CASE Shutdown
  BY <1>5, OtherEnds DEF Closed, Shutdown, storeVars, callVars
<1>6. ASSUME NEW c \in Calls, ProcessShutdown(c) \/ ProcessDone(c) PROVE EndIInv'
  BY <1>6, OtherEnds DEF Closed, ProcessShutdown, ProcessDone, storeVars
<1>7. ASSUME NEW c \in Calls, ProcessRequest(c) PROVE EndIInv'
  BY <1>1, <1>7, OtherEnds DEF Closed, ProcessRequest, Completes, storeVars
<1>8. CASE UNCHANGED vars
  BY <1>8, OtherEnds DEF Closed, vars, storeVars, callVars
<1> QED
  BY <1>2, <1>3, <1>4, <1>5, <1>6, <1>7, <1>8, ProcessReadEnds, ProcessReadEndEnds
  DEF Next, QmlNext, IoNext, Process

\* An answer is thrown away only if the handler gives it before its "end"
\* event: respond() removes the tag and resume() looks at the status later, but
\* the "end" was sent after the status was set (server_reader.cpp).
THEOREM DroppedOnlyIfEarlyAlways == Spec => DroppedOnlyIfEarly
<1>1. ASSUME IInv, EndIInv, [Next]_vars, NEW c \in dropped' \ dropped
      PROVE  tag[c] \notin ended
  <2>1. EndAnswer
    BY <1>1 DEF Next, QmlNext, IoNext, Process, BeginAnswer, QmlDeliver, Shutdown, ProcessShutdown,
         ProcessRequest, ProcessRead, ProcessReadEnd, ProcessDone, vars
  <2>2. c = qml /\ qml \in Calls /\ status[qml] = "READ" /\ tag[qml] # 0
    BY <1>1, <2>1 DEF EndAnswer, IInv, TypeOK, PointersLive, Answerable, Alone
  <2>3. \A d \in Calls : tag[d] = tag[qml] => d = qml
    BY <1>1, <2>2 DEF EndIInv, OneTagEach
  <2>4. tag[qml] \in Tags
    BY <1>1, <2>2 DEF IInv, TypeOK
  <2>5. ~Ending(tag[qml])
    BY <1>1, <2>2, <2>3, <2>4 DEF EndIInv, EndedIsClosed, Closed
  <2> QED
    BY <2>2, <2>5 DEF Ending
<1>2. IInv /\ EndIInv /\ [Next]_vars => [\A c \in dropped' \ dropped : tag[c] \notin ended]_vars
  BY <1>1
<1> QED
  BY <1>2, InitEndIInv, NextEnds, Invariance, PTL DEF Spec, DroppedOnlyIfEarly
=============================================================================
