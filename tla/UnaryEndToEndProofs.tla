------------------------- MODULE UnaryEndToEndProofs -------------------------
(***************************************************************************)
(* Safety of the unary server method alone, and then of the composed unary *)
(* call, for any number of calls and call objects and any messages.  The   *)
(* composition implements the server of ServerUnary and the client of      *)
(* ClientUnary, so that what is proved of each alone holds of the two      *)
(* together, and a callback hears its own handler's answer.                *)
(***************************************************************************)
EXTENDS UnaryEndToEnd, ServerStoreProofs

-----------------------------------------------------------------------------
(* The server alone.  OneOperation and AlwaysFrozen are not inductive:     *)
(* that an answer leaves no second tag behind for the call it finishes     *)
(* needs Unshared, and that a successor starts with one operation needs    *)
(* Fresh.                                                                  *)

\* A call is reachable in one way only: by one tag, or by the QML thread.
Unshared ==
  /\ \A s, t \in Tags : store[s] # NoCall /\ store[s] = store[t] => s = t
  /\ qml # NoCall => \A t \in Tags : store[t] # qml

\* An object that does not exist yet will start in READ.
Fresh == \A c \in Calls : memory[c] = "none" => status[c] = "READ"

IInv ==
  /\ TypeOK
  /\ OneOperation
  /\ AlwaysFrozen
  /\ OneLiveCall
  /\ Unshared
  /\ Fresh

\* The first call object satisfies the invariant.
LEMMA InitIInv == Init => IInv
<1> SUFFICES ASSUME Init PROVE IInv
  OBVIOUS
<1> USE StoreAssumption
<1>1. PICK c \in Calls : /\ memory = [d \in Calls |-> IF d = c THEN "live" ELSE "none"]
                         /\ outstanding = [d \in Calls |-> IF d = c THEN 1 ELSE 0]
  BY DEF Init
<1>2. TypeOK
  <2>1. StoreTypeOK
    BY StoreInitType DEF Init
  <2>2. memory \in [Calls -> {"none", "live", "freed"}] /\ outstanding \in [Calls -> Nat]
    BY <1>1
  <2> QED
    BY <2>1, <2>2 DEF Init, TypeOK, Statuses
<1>3. OneOperation
  BY <1>1 DEF Init, OneOperation
<1>4. AlwaysFrozen /\ Unshared
  BY DEF Init, StoreInit, AlwaysFrozen, Unshared
<1>5. OneLiveCall
  BY <1>1 DEF OneLiveCall
<1>6. Fresh
  BY DEF Init, Fresh
<1> QED
  BY <1>2, <1>3, <1>4, <1>5, <1>6 DEF IInv

-----------------------------------------------------------------------------
(* One lemma for each action of Next.                                      *)

\* A call found in the store is reachable by that tag alone, and then by the
\* QML thread alone.
LEMMA BeginAnswerIInv ==
  ASSUME IInv, NEW t \in Tags, BeginAnswer(t)
  PROVE  IInv'
<1> USE StoreAssumption
<1>1. store[t] \in Calls /\ Remove(t) /\ qml' = store[t] /\ qml = NoCall
  BY DEF IInv, TypeOK, StoreTypeOK, BeginAnswer
<1>2. store' = [store EXCEPT ![t] = NoCall] /\ store \in [Tags -> Calls \cup {NoCall}]
  BY <1>1 DEF Remove, IInv, TypeOK, StoreTypeOK
<1>3. UNCHANGED <<memory, status, outstanding, down>>
  BY DEF BeginAnswer, callVars
<1>4. StoreTypeOK'
  BY <1>1, RemoveType DEF IInv, TypeOK
<1>5. TypeOK'
  BY <1>1, <1>3, <1>4 DEF IInv, TypeOK, BeginAnswer
<1>6. OneOperation' /\ OneLiveCall' /\ Fresh'
  BY <1>3 DEF IInv, OneOperation, OneLiveCall, Fresh
<1>7. AlwaysFrozen'
  BY <1>1, <1>2, <1>3 DEF IInv, AlwaysFrozen
<1>8. Unshared'
  BY <1>1, <1>2 DEF IInv, Unshared
<1> QED
  BY <1>5, <1>6, <1>7, <1>8 DEF IInv

\* The answer finds its call FROZEN and is the only way to it.
LEMMA EndAnswerIInv ==
  ASSUME IInv, EndAnswer
  PROVE  IInv'
<1> USE StoreAssumption
<1>1. qml \in Calls /\ qml' = NoCall /\ UNCHANGED <<storeVars, memory, down, answered>>
  BY DEF IInv, TypeOK, EndAnswer
<1>2. memory[qml] = "live" /\ status[qml] = "FROZEN"
  BY <1>1 DEF IInv, AlwaysFrozen
<1>3. /\ status' = [status EXCEPT ![qml] = "DONE"]
      /\ outstanding' = [outstanding EXCEPT ![qml] = @ + 1]
  BY <1>2 DEF EndAnswer
<1>4. TypeOK'
  BY <1>1, <1>3 DEF IInv, TypeOK, StoreTypeOK, storeVars, Statuses
<1>5. OneOperation'
  BY <1>1, <1>2, <1>3 DEF IInv, TypeOK, OneOperation
<1>6. AlwaysFrozen' /\ Unshared'
  BY <1>1, <1>3 DEF IInv, TypeOK, StoreTypeOK, AlwaysFrozen, Unshared, storeVars
<1>7. OneLiveCall' /\ Fresh'
  BY <1>1, <1>2, <1>3 DEF IInv, TypeOK, OneLiveCall, Fresh
<1> QED
  BY <1>4, <1>5, <1>6, <1>7 DEF IInv

\* A signal is delivered: no call changes.
LEMMA QmlDeliverIInv ==
  ASSUME IInv, QmlDeliver
  PROVE  IInv'
<1>1. UNCHANGED <<store, lastTag, callVars, down, qml, answered>> /\ StoreTypeOK'
  BY DeliverType DEF IInv, TypeOK, QmlDeliver
<1>2. TypeOK'
  BY <1>1 DEF IInv, TypeOK, callVars
<1> QED
  BY <1>1, <1>2 DEF IInv, OneOperation, AlwaysFrozen, OneLiveCall, Unshared, Fresh, callVars

\* The server goes down: no call changes yet.
LEMMA ShutdownIInv ==
  ASSUME IInv, Shutdown
  PROVE  IInv'
<1>1. UNCHANGED <<storeVars, callVars, qml, answered>> /\ down' = TRUE
  BY DEF Shutdown
<1>2. TypeOK'
  BY <1>1 DEF IInv, TypeOK, StoreTypeOK, storeVars, callVars
<1> QED
  BY <1>1, <1>2 DEF IInv, OneOperation, AlwaysFrozen, OneLiveCall, Unshared, Fresh,
                    storeVars, callVars

\* A call whose request completes while the server goes down is deleted: no
\* tag names it.
LEMMA ProcessShutdownIInv ==
  ASSUME IInv, NEW c \in Calls, ProcessShutdown(c)
  PROVE  IInv'
<1> USE StoreAssumption
<1>1. /\ outstanding[c] > 0 /\ status[c] = "READ" /\ down
      /\ memory' = [memory EXCEPT ![c] = "freed"]
      /\ outstanding' = [outstanding EXCEPT ![c] = @ - 1]
      /\ UNCHANGED <<storeVars, status, down, qml, answered>>
  BY DEF ProcessShutdown, Completes
<1>2. memory[c] = "live" /\ outstanding[c] = 1
  BY <1>1 DEF IInv, OneOperation
<1>3. TypeOK'
  BY <1>1, <1>2 DEF IInv, TypeOK, StoreTypeOK, storeVars
<1>4. OneOperation'
  BY <1>1, <1>2 DEF IInv, TypeOK, OneOperation
<1>5. AlwaysFrozen' /\ Unshared'
  BY <1>1 DEF IInv, TypeOK, StoreTypeOK, AlwaysFrozen, Unshared, storeVars
<1>6. OneLiveCall' /\ Fresh'
  BY <1>1 DEF IInv, TypeOK, OneLiveCall, Fresh
<1> QED
  BY <1>3, <1>4, <1>5, <1>6 DEF IInv

\* A request freezes the call and gives it the one tag that names it.
LEMMA ProcessRequestIInv ==
  ASSUME IInv, NEW c \in Calls, ProcessRequest(c)
  PROVE  IInv'
<1> USE StoreAssumption
<1>1. /\ outstanding[c] > 0 /\ status[c] = "READ"
      /\ status' = [status EXCEPT ![c] = "FROZEN"]
      /\ outstanding' = [outstanding EXCEPT ![c] = @ - 1]
      /\ UNCHANGED <<memory, down, qml, answered>>
  BY DEF ProcessRequest, Completes
<1>2. PICK v \in Payloads : StoreAndEmit(c, v)
  BY DEF ProcessRequest
<1>3. memory[c] = "live" /\ outstanding[c] = 1
  BY <1>1 DEF IInv, OneOperation
<1>4. StoreTypeOK' /\ lastTag' \in Tags
  BY <1>2, StoreAndEmitType DEF IInv, TypeOK
<1>5. store' = [store EXCEPT ![lastTag'] = c] /\ store \in [Tags -> Calls \cup {NoCall}]
  BY <1>2 DEF StoreAndEmit, IInv, TypeOK, StoreTypeOK
<1>6. qml # c /\ \A t \in Tags : store[t] # c
  BY <1>1 DEF IInv, AlwaysFrozen
<1>7. TypeOK'
  BY <1>1, <1>3, <1>4 DEF IInv, TypeOK, Statuses
<1>8. OneOperation'
  BY <1>1, <1>3 DEF IInv, TypeOK, OneOperation
<1>9. AlwaysFrozen' /\ Unshared'
  BY <1>1, <1>3, <1>4, <1>5, <1>6 DEF IInv, TypeOK, AlwaysFrozen, Unshared
<1>10. OneLiveCall' /\ Fresh'
  BY <1>1, <1>3 DEF IInv, TypeOK, OneLiveCall, Fresh
<1> QED
  BY <1>7, <1>8, <1>9, <1>10 DEF IInv

\* A finished call is deleted, and a fresh one takes its place if there is one.
LEMMA ProcessDoneIInv ==
  ASSUME IInv, NEW c \in Calls, ProcessDone(c)
  PROVE  IInv'
<1> USE StoreAssumption
<1>1. /\ outstanding[c] > 0 /\ status[c] = "DONE"
      /\ UNCHANGED <<storeVars, status, down, qml, answered>>
  BY DEF ProcessDone, Completes
<1>2. memory[c] = "live" /\ outstanding[c] = 1
  BY <1>1 DEF IInv, OneOperation
<1>3. qml # c /\ \A t \in Tags : store[t] # c
  BY <1>1 DEF IInv, AlwaysFrozen
<1>4. CASE /\ {d \in Calls : memory[d] = "none"} = {}
           /\ memory' = [memory EXCEPT ![c] = "freed"]
           /\ outstanding' = [outstanding EXCEPT ![c] = @ - 1]
  <2>1. TypeOK'
    BY <1>1, <1>2, <1>4 DEF IInv, TypeOK, StoreTypeOK, storeVars
  <2>2. OneOperation' /\ Fresh'
    BY <1>1, <1>2, <1>4 DEF IInv, TypeOK, OneOperation, Fresh
  <2>3. AlwaysFrozen' /\ Unshared'
    BY <1>1, <1>3, <1>4 DEF IInv, TypeOK, StoreTypeOK, AlwaysFrozen, Unshared, storeVars
  <2>4. OneLiveCall'
    <3>1. \A d \in Calls \ {c} : memory[d] = "freed"
      BY <1>2, <1>4 DEF IInv, TypeOK, OneLiveCall
    <3> QED
      BY <1>4, <3>1 DEF IInv, TypeOK, OneLiveCall
  <2> QED
    BY <2>1, <2>2, <2>3, <2>4 DEF IInv
<1>5. CASE \E d \in {d \in Calls : memory[d] = "none"} :
             /\ memory' = [memory EXCEPT ![c] = "freed", ![d] = "live"]
             /\ outstanding' = [outstanding EXCEPT ![c] = @ - 1, ![d] = 1]
  <2>1. PICK d \in Calls :
          /\ memory[d] = "none"
          /\ memory' = [memory EXCEPT ![c] = "freed", ![d] = "live"]
          /\ outstanding' = [outstanding EXCEPT ![c] = @ - 1, ![d] = 1]
    BY <1>5
  <2>2. d # c /\ status[d] = "READ"
    BY <1>2, <2>1 DEF IInv, Fresh
  <2>3. TypeOK'
    <3>1. memory' \in [Calls -> {"none", "live", "freed"}]
      BY <2>1 DEF IInv, TypeOK
    <3>2. outstanding' \in [Calls -> Nat]
      BY <1>2, <2>1 DEF IInv, TypeOK
    <3> QED
      BY <1>1, <3>1, <3>2 DEF IInv, TypeOK, StoreTypeOK, storeVars
  <2>4. OneOperation' /\ Fresh'
    BY <1>1, <1>2, <2>1, <2>2 DEF IInv, TypeOK, OneOperation, Fresh
  <2>5. AlwaysFrozen' /\ Unshared'
    BY <1>1, <1>3, <2>1 DEF IInv, TypeOK, StoreTypeOK, AlwaysFrozen, Unshared, storeVars
  <2>6. OneLiveCall'
    BY <1>2, <2>1, <2>2 DEF IInv, TypeOK, OneLiveCall
  <2> QED
    BY <2>3, <2>4, <2>5, <2>6 DEF IInv
<1> QED
  BY <1>4, <1>5 DEF ProcessDone

\* Nothing happens.
LEMMA StutterIInv == IInv /\ UNCHANGED vars => IInv'
BY DEF IInv, TypeOK, StoreTypeOK, OneOperation, AlwaysFrozen, OneLiveCall, Unshared, Fresh,
       vars, storeVars, callVars

-----------------------------------------------------------------------------
\* The invariant holds in every state of the unary method.
THEOREM Invariance == Spec => []IInv
<1>1. IInv /\ [Next]_vars => IInv'
  <2> SUFFICES ASSUME IInv, [Next]_vars PROVE IInv'
    OBVIOUS
  <2>1. CASE QmlNext
    BY <2>1, BeginAnswerIInv, EndAnswerIInv, QmlDeliverIInv, ShutdownIInv DEF QmlNext
  <2>2. CASE IoNext
    BY <2>2, ProcessShutdownIInv, ProcessRequestIInv, ProcessDoneIInv DEF IoNext, Process
  <2>3. CASE UNCHANGED vars
    BY <2>3, StutterIInv
  <2> QED
    BY <2>1, <2>2, <2>3 DEF Next
<1> QED
  BY <1>1, InitIInv, PTL DEF Spec

\* Every variable of the unary method stays within its type.
THEOREM TypeCorrect == Spec => []TypeOK
<1>1. IInv => TypeOK
  BY DEF IInv
<1> QED
  BY <1>1, Invariance, PTL

\* However often and whenever the handler calls back, no call object is given
\* to gRPC twice and none is completed after its deletion.
THEOREM OneOperationAlways == Spec => []OneOperation
<1>1. IInv => OneOperation
  BY DEF IInv
<1> QED
  BY <1>1, Invariance, PTL

\* The assertions of resume() and abort() (server_unary.cpp:94 and 108) hold.
THEOREM FrozenAlways == Spec => []AlwaysFrozen
<1>1. IInv => AlwaysFrozen
  BY DEF IInv
<1> QED
  BY <1>1, Invariance, PTL

\* The method always has exactly one call object, until it goes down.
THEOREM OneLiveCallAlways == Spec => []OneLiveCall
<1>1. IInv => OneLiveCall
  BY DEF IInv
<1> QED
  BY <1>1, Invariance, PTL

-----------------------------------------------------------------------------
(* The client alone.  That no callback is forgotten before it is called    *)
(* depends on the order of the queued signals (Awaited), and on a tag      *)
(* having no signal before its call completes (Untold).                    *)

\* What the composition gives the client satisfies its assumption.
LEMMA ClientAssumption == MaxCalls \in Nat /\ EmptyPayload \in Responses /\ None \notin Responses
BY JointAssumption

\* A tag that was not handed out has no call, and a call that is waiting has
\* its callback and no signal yet.
Untold ==
  \A t \in C!Tags :
    /\ t > clientTag => clientStatus[t] = "none"
    /\ clientStatus[t] # "freed" => \A i \in DOMAIN clientSignals : clientSignals[i].tag # t
    /\ clientStatus[t] # "freed" => t \notin unwinding
    /\ clientStatus[t] = "DONE" => t \in callbacks

\* The result of t is on its way, and nothing of t's before it.
OnItsWay(t) ==
  \E i \in DOMAIN clientSignals :
    /\ clientSignals[i] = C!DataOf(t, result[t])
    /\ \A j \in 1..(i - 1) : clientSignals[j].tag # t

\* A callback not called yet is there for the result that is on its way.
Awaited ==
  \A t \in C!Tags :
    clientStatus[t] = "freed" /\ heard[t] = <<>> /\ result[t] \notin {EmptyPayload, C!Failed} =>
      t \in callbacks \ unwinding /\ OnItsWay(t)

ClientIInv == C!TypeOK /\ Untold /\ Awaited

\* No call yet.
LEMMA ClientInitIInv == C!Init => ClientIInv
<1> SUFFICES ASSUME C!Init PROVE ClientIInv
  OBVIOUS
<1>1. C!TypeOK
  BY ClientAssumption DEF C!Init, C!CallbackInit, C!TypeOK, C!CallbackTypeOK, C!Tags
<1>2. Untold /\ Awaited
  BY DEF C!Init, C!CallbackInit, Untold, Awaited
<1> QED
  BY <1>1, <1>2 DEF ClientIInv

\* A call takes the next tag, of which nothing was heard.
LEMMA ClientCallIInv ==
  ASSUME ClientIInv, C!Call
  PROVE  ClientIInv'
<1> USE ClientAssumption
<1>1. /\ clientTag \in Nat /\ clientTag' = clientTag + 1 /\ clientTag' \in C!Tags
      /\ callbacks' = callbacks \cup {clientTag'}
      /\ clientStatus' = [clientStatus EXCEPT ![clientTag'] = "DONE"]
      /\ UNCHANGED <<clientSignals, heard, unwinding, result>>
  BY DEF ClientIInv, C!TypeOK, C!CallbackTypeOK, C!Call, C!NewTag, C!Tags
<1>2. clientStatus[clientTag'] = "none"
  BY <1>1 DEF ClientIInv, Untold
<1>3. C!TypeOK'
  BY <1>1 DEF ClientIInv, C!TypeOK, C!CallbackTypeOK, C!Tags
<1>4. Untold'
  BY <1>1, <1>2 DEF ClientIInv, C!TypeOK, Untold, C!Tags
<1>5. Awaited'
  BY <1>1, <1>2 DEF ClientIInv, C!TypeOK, Awaited, OnItsWay
<1> QED
  BY <1>3, <1>4, <1>5 DEF ClientIInv

\* A refused call uses up a tag.
LEMMA ClientCallRefusedIInv ==
  ASSUME ClientIInv, C!CallRefused
  PROVE  ClientIInv'
<1>1. C!TypeOK'
  BY ClientAssumption DEF ClientIInv, C!TypeOK, C!CallbackTypeOK, C!CallRefused
<1>2. Untold'
  BY ClientAssumption DEF ClientIInv, C!TypeOK, C!CallbackTypeOK, Untold, C!CallRefused, C!Tags
<1>3. Awaited'
  BY DEF ClientIInv, Awaited, OnItsWay, C!CallRefused
<1> QED
  BY <1>1, <1>2, <1>3 DEF ClientIInv

\* The signals of a completion, result first, follow those there are.
LEMMA ClientProcessIInv ==
  ASSUME ClientIInv, NEW t \in C!Tags, NEW ok \in BOOLEAN, NEW r \in Responses \cup {C!Failed},
         C!Process(t, ok, r)
  PROVE  ClientIInv'
<1> USE ClientAssumption
<1> DEFINE first == IF ok THEN C!DataOf(t, IF r = C!Failed THEN EmptyPayload ELSE r)
                          ELSE C!EventOf("error", t)
           last == C!EventOf("closed", t)
<1>1. /\ clientStatus[t] = "DONE" /\ (~ok => r = C!Failed)
      /\ result' = [result EXCEPT ![t] = r]
      /\ clientStatus' = [clientStatus EXCEPT ![t] = "freed"]
      /\ clientSignals' = clientSignals \o <<first, last>>
      /\ UNCHANGED <<clientTag, callbacks, heard, unwinding>>
  BY DEF C!Process, C!Emit
<1>2. clientSignals \in Seq(C!Signal) /\ first \in C!Signal /\ last \in C!Signal
  BY DEF ClientIInv, C!TypeOK, C!CallbackTypeOK, C!Signal, C!SignalKinds, C!DataOf, C!EventOf
<1>3. first.tag = t /\ last.tag = t /\ (ok /\ r # C!Failed => first = C!DataOf(t, r))
  BY DEF C!DataOf, C!EventOf
<1> HIDE DEF first, last
<1>4. /\ clientSignals' \in Seq(C!Signal) /\ Len(clientSignals') = Len(clientSignals) + 2 /\ Len(clientSignals) \in Nat
      /\ \A i \in 1..Len(clientSignals) : clientSignals'[i] = clientSignals[i]
      /\ clientSignals'[Len(clientSignals) + 1] = first /\ clientSignals'[Len(clientSignals) + 2] = last
  BY <1>1, <1>2
<1>5. DOMAIN clientSignals = 1..Len(clientSignals) /\ DOMAIN clientSignals' = 1..(Len(clientSignals) + 2)
  BY <1>2, <1>4
<1>6. C!TypeOK'
  BY <1>1, <1>4 DEF ClientIInv, C!TypeOK, C!CallbackTypeOK
<1>7. Untold'
  <2> SUFFICES ASSUME NEW u \in C!Tags, clientStatus'[u] # "freed"
               PROVE  \A i \in DOMAIN clientSignals' : clientSignals'[i].tag # u
    BY <1>1 DEF ClientIInv, C!TypeOK, Untold
  <2>1. u # t /\ \A i \in 1..Len(clientSignals) : clientSignals[i].tag # u
    BY <1>1, <1>5 DEF ClientIInv, C!TypeOK, Untold
  <2> QED
    BY <2>1, <1>3, <1>4, <1>5
<1>8. Awaited'
  <2> SUFFICES ASSUME NEW u \in C!Tags, clientStatus'[u] = "freed", heard'[u] = <<>>,
                      result'[u] \notin {EmptyPayload, C!Failed}
               PROVE  (u \in callbacks \ unwinding /\ OnItsWay(u))'
    BY DEF Awaited
  <2>1. CASE u = t
    <3>0. result \in [C!Tags -> Responses \cup {C!Pending, C!Failed}]
      BY DEF ClientIInv, C!TypeOK
    <3>1. result'[t] = r
      BY <3>0, <1>1
    <3>4. r # C!Failed /\ first = C!DataOf(t, r)
      BY <2>1, <3>1, <1>1, <1>3 DEF C!Failed
    <3>2. \A j \in 1..((Len(clientSignals) + 1) - 1) : clientSignals'[j].tag # t
      <4>1. \A i \in 1..Len(clientSignals) : clientSignals[i].tag # t
        BY <1>1, <1>5 DEF ClientIInv, Untold
      <4>2. (Len(clientSignals) + 1) - 1 = Len(clientSignals)
        BY <1>4
      <4> QED
        BY <4>1, <4>2, <1>4
    <3>3. OnItsWay(t)'
      BY <3>1, <3>2, <3>4, <1>4, <1>5 DEF OnItsWay, C!DataOf
    <3> QED
      BY <2>1, <3>3, <1>1 DEF ClientIInv, Untold
  <2>2. CASE u # t
    <3>1. u \in callbacks \ unwinding /\ OnItsWay(u) /\ result'[u] = result[u]
      BY <2>2, <1>1 DEF ClientIInv, C!TypeOK, Awaited
    <3>2. PICK i \in 1..Len(clientSignals) : /\ clientSignals[i] = C!DataOf(u, result[u])
                                       /\ \A j \in 1..(i - 1) : clientSignals[j].tag # u
      BY <3>1, <1>5 DEF OnItsWay
    <3>3. OnItsWay(u)'
      BY <3>1, <3>2, <1>4, <1>5 DEF OnItsWay, C!DataOf
    <3> QED
      BY <3>1, <3>3, <1>1
  <2> QED
    BY <2>1, <2>2
<1> QED
  BY <1>6, <1>7, <1>8 DEF ClientIInv

\* What the delivery of the oldest signal does to those behind it.
LEMMA TakeBehind ==
  ASSUME ClientIInv, clientSignals # <<>>, clientSignals' = Tail(clientSignals)
  PROVE  /\ C!Oldest \in C!Signal /\ clientSignals' \in Seq(C!Signal) /\ Len(clientSignals) \in Nat
         /\ DOMAIN clientSignals = 1..Len(clientSignals) /\ DOMAIN clientSignals' = 1..(Len(clientSignals) - 1)
         /\ C!Oldest = clientSignals[1] /\ \A i \in DOMAIN clientSignals' : clientSignals'[i] = clientSignals[i + 1]
BY DEF ClientIInv, C!TypeOK, C!CallbackTypeOK, C!Oldest

\* A signal of another tag, or one that is not the result, leaves the result
\* on its way.
LEMMA StillOnItsWay ==
  ASSUME ClientIInv, clientSignals # <<>>, clientSignals' = Tail(clientSignals), NEW t \in C!Tags, OnItsWay(t),
         C!Oldest # C!DataOf(t, result[t]), UNCHANGED result
  PROVE  C!Oldest.tag # t /\ OnItsWay(t)'
<1>1. PICK i \in DOMAIN clientSignals : /\ clientSignals[i] = C!DataOf(t, result[t])
                                  /\ \A j \in 1..(i - 1) : clientSignals[j].tag # t
  BY DEF OnItsWay
<1>2. i \in Nat /\ i > 1 /\ i <= Len(clientSignals) /\ Len(clientSignals) \in Nat
  BY <1>1, TakeBehind
<1>3. C!Oldest.tag # t
  BY <1>1, <1>2, TakeBehind
<1>4. i - 1 \in DOMAIN clientSignals' /\ clientSignals'[i - 1] = C!DataOf(t, result[t])
  BY <1>1, <1>2, TakeBehind
<1>5. \A j \in 1..((i - 1) - 1) : clientSignals'[j].tag # t
  BY <1>1, <1>2, TakeBehind
<1>6. OnItsWay(t)'
  BY <1>4, <1>5 DEF OnItsWay, C!DataOf
<1> QED
  BY <1>3, <1>6

\* No signal of a tag that has none appears by delivering one.
LEMMA TakeUntold ==
  ASSUME ClientIInv, clientSignals # <<>>, clientSignals' = Tail(clientSignals), UNCHANGED <<clientTag, clientStatus>>
  PROVE  \A t \in C!Tags : clientStatus[t] # "freed" =>
           /\ C!Oldest.tag # t
           /\ \A i \in DOMAIN clientSignals' : clientSignals'[i].tag # t
BY TakeBehind DEF ClientIInv, Untold

\* A callback that is called has heard something, and the others what they had.
LEMMA HearsMore ==
  ASSUME heard \in [C!Tags -> Seq(C!Event)], NEW t \in C!Tags,
         NEW k \in {"data", "end", "error", "failed"}, NEW v \in Responses \cup {None},
         C!Hears(t, k, v)
  PROVE  /\ heard' \in [C!Tags -> Seq(C!Event)]
         /\ \A u \in C!Tags : heard'[u] = <<>> => heard[u] = <<>>
         /\ heard'[t] # <<>>
<1> DEFINE e == [kind |-> k, value |-> v]
<1>1. e \in C!Event
  BY DEF C!Event
<1> HIDE DEF e
<1>2. heard' = [heard EXCEPT ![t] = Append(@, e)]
  BY DEF C!Hears, e
<1>3. Append(heard[t], e) \in Seq(C!Event) /\ Append(heard[t], e) # <<>>
  BY <1>1
<1> QED
  BY <1>2, <1>3

\* The oldest signal is delivered, or a callback returns.
LEMMA ClientDeliverIInv ==
  ASSUME ClientIInv, C!QmlDeliver
  PROVE  ClientIInv'
<1>0. UNCHANGED <<clientStatus, result>>
  BY DEF C!QmlDeliver
<1>1. CASE C!DeliverData
  <2>1. /\ clientSignals # <<>> /\ clientSignals' = Tail(clientSignals) /\ unwinding = {}
        /\ C!Oldest.kind = "data" /\ UNCHANGED <<clientTag, callbacks, unwinding>>
    BY <1>1 DEF C!DeliverData, C!Take
  <2>2. C!Oldest \in C!Signal /\ C!Oldest.tag \in C!Tags
    BY <2>1, TakeBehind DEF C!Signal
  <2>3. heard' \in [C!Tags -> Seq(C!Event)] /\ \A t \in C!Tags : heard'[t] = <<>> => heard[t] = <<>>
    <3>1. heard \in [C!Tags -> Seq(C!Event)] /\ C!Oldest.value \in Responses \cup {None}
      BY <2>2 DEF ClientIInv, C!TypeOK, C!CallbackTypeOK, C!Signal
    <3>2. CASE UNCHANGED heard
      BY <3>1, <3>2
    <3>3. CASE C!Hears(C!Oldest.tag, "data", C!Oldest.value)
      BY <2>2, <3>1, <3>3, HearsMore
    <3> QED
      BY <1>1, <3>2, <3>3 DEF C!DeliverData
  <2>4. C!TypeOK'
    BY <1>0, <2>1, <2>3, TakeBehind DEF ClientIInv, C!TypeOK, C!CallbackTypeOK
  <2>5. Untold'
    BY <1>0, <2>1, TakeUntold DEF ClientIInv, Untold
  <2>6. Awaited'
    <3> SUFFICES ASSUME NEW t \in C!Tags, clientStatus[t] = "freed", heard'[t] = <<>>,
                        result[t] \notin {EmptyPayload, C!Failed}
                 PROVE  t \in callbacks \ unwinding /\ OnItsWay(t)'
      BY <1>0, <2>1 DEF Awaited
    <3>1. heard[t] = <<>>
      BY <2>3
    <3>2. t \in callbacks \ unwinding /\ OnItsWay(t)
      BY <3>1 DEF ClientIInv, Awaited
    <3>3. C!Oldest # C!DataOf(t, result[t])
      <4> SUFFICES ASSUME C!Oldest = C!DataOf(t, result[t]) PROVE FALSE
        OBVIOUS
      <4>1. C!Oldest.tag = t /\ C!Oldest.value = result[t]
        BY DEF C!DataOf
      <4>2. C!Hears(t, "data", result[t])
        BY <4>1, <3>2, <1>1 DEF C!DeliverData
      <4>3. heard \in [C!Tags -> Seq(C!Event)] /\ result[t] \in Responses \cup {None}
        BY <4>1, <2>2 DEF ClientIInv, C!TypeOK, C!CallbackTypeOK, C!Signal
      <4> QED
        BY <4>2, <4>3, HearsMore
    <3> QED
      BY <3>2, <3>3, <1>0, <2>1, StillOnItsWay
  <2> QED
    BY <2>4, <2>5, <2>6 DEF ClientIInv
<1>2. CASE C!DeliverDataEnd \/ C!DeliverError \/ C!DeliverClosed
  <2>1. /\ clientSignals # <<>> /\ clientSignals' = Tail(clientSignals) /\ unwinding = {}
        /\ C!Oldest.kind # "data" /\ UNCHANGED clientTag
        /\ callbacks' \in {callbacks, callbacks \ {C!Oldest.tag}}
        /\ unwinding' \in {{}, {C!Oldest.tag}}
    BY <1>2 DEF C!DeliverDataEnd, C!DeliverError, C!DeliverClosed, C!Take
  <2>2. C!Oldest \in C!Signal /\ C!Oldest.tag \in C!Tags
    BY <2>1, TakeBehind DEF C!Signal
  <2>3. heard' \in [C!Tags -> Seq(C!Event)] /\ \A t \in C!Tags : heard'[t] = <<>> => heard[t] = <<>>
    <3>1. heard \in [C!Tags -> Seq(C!Event)]
      BY DEF ClientIInv, C!TypeOK, C!CallbackTypeOK
    <3>2. CASE UNCHANGED heard
      BY <3>1, <3>2
    <3>3. CASE C!Hears(C!Oldest.tag, "end", None) \/ C!Hears(C!Oldest.tag, "error", None)
      BY <2>2, <3>1, <3>3, HearsMore
    <3> QED
      BY <1>2, <3>2, <3>3 DEF C!DeliverDataEnd, C!DeliverError, C!DeliverClosed
  <2>4. C!TypeOK'
    BY <1>0, <2>1, <2>2, <2>3, TakeBehind DEF ClientIInv, C!TypeOK, C!CallbackTypeOK
  <2>5. Untold'
    BY <1>0, <2>1, TakeUntold DEF ClientIInv, Untold
  <2>6. Awaited'
    <3> SUFFICES ASSUME NEW t \in C!Tags, clientStatus[t] = "freed", heard'[t] = <<>>,
                        result[t] \notin {EmptyPayload, C!Failed}
                 PROVE  t \in callbacks' \ unwinding' /\ OnItsWay(t)'
      BY <1>0 DEF Awaited
    <3>1. t \in callbacks \ unwinding /\ OnItsWay(t)
      BY <2>3 DEF ClientIInv, Awaited
    <3>2. C!Oldest # C!DataOf(t, result[t])
      BY <2>1 DEF C!DataOf
    <3>3. C!Oldest.tag # t /\ OnItsWay(t)'
      BY <3>1, <3>2, <1>0, <2>1, StillOnItsWay
    <3> QED
      BY <3>1, <3>3, <2>1
  <2> QED
    BY <2>4, <2>5, <2>6 DEF ClientIInv
<1>3. CASE C!Unwind
  <2>1. PICK u \in unwinding : /\ callbacks' = callbacks \ {u} /\ unwinding' = unwinding \ {u}
                               /\ UNCHANGED <<clientTag, clientSignals, heard>>
    BY <1>3 DEF C!Unwind
  <2>2. C!TypeOK'
    BY <1>0, <2>1 DEF ClientIInv, C!TypeOK, C!CallbackTypeOK
  <2>3. Untold' /\ Awaited'
    BY <1>0, <2>1 DEF ClientIInv, Untold, Awaited, OnItsWay
  <2> QED
    BY <2>2, <2>3 DEF ClientIInv
<1> QED
  BY <1>1, <1>2, <1>3 DEF C!QmlDeliver, C!Deliver

-----------------------------------------------------------------------------
\* The invariant holds in every state of the client's unary method.
THEOREM ClientInvariance == C!Spec => []ClientIInv
<1>1. ClientIInv /\ [C!Next]_(C!vars) => ClientIInv'
  <2> SUFFICES ASSUME ClientIInv, [C!Next]_(C!vars) PROVE ClientIInv'
    OBVIOUS
  <2>1. CASE UNCHANGED (C!vars)
    BY <2>1 DEF ClientIInv, C!TypeOK, C!CallbackTypeOK, Untold, Awaited, OnItsWay, C!vars, C!callbackVars
  <2>2. CASE C!Next
    BY <2>2, ClientCallIInv, ClientCallRefusedIInv, ClientProcessIInv, ClientDeliverIInv DEF C!Next, C!ProcessAny
  <2> QED
    BY <2>1, <2>2
<1> QED
  BY <1>1, ClientInitIInv, PTL DEF C!Spec

\* Every variable of the unary call stays within its type.
THEOREM ClientTypeCorrect == C!Spec => []C!TypeOK
<1>1. ClientIInv => C!TypeOK
  BY DEF ClientIInv
<1> QED
  BY <1>1, ClientInvariance, PTL

\* A callback is forgotten only after it was called, unless the call failed or
\* the response has no field set: closed, which erases it, is emitted behind
\* the result (unary.cpp:73-84).
THEOREM SilentAlways == C!Spec => []C!SilentOnlyIfEmpty
<1>1. ClientIInv => C!SilentOnlyIfEmpty
  BY DEF ClientIInv, Awaited, C!SilentOnlyIfEmpty
<1> QED
  BY <1>1, ClientInvariance, PTL

-----------------------------------------------------------------------------
(* The server in the composition.                                          *)

\* Every step of the composition is one of the server's, or leaves it alone.
LEMMA ServerStep == [JointNext]_allVars => [Next]_vars
<1> SUFFICES ASSUME JointNext PROVE [Next]_vars
  BY DEF allVars
<1>1. CASE ClientCall \/ ClientLocal \/ \E n \in Rpcs : Arrives(n) \/ Fails(n)
  BY <1>1 DEF ClientCall, ClientLocal, Arrives, Fails
<1>2. CASE \E c \in Calls, n \in Rpcs : Accept(c, n)
  BY <1>2 DEF Accept, Next, IoNext, Process
<1>3. CASE \E t \in Tags, r \in Answers : Answer(t, r)
  BY <1>3 DEF Answer, Next, QmlNext
<1>4. CASE Finish \/ ServerLocal
  BY <1>4 DEF Finish, ServerLocal, Next, QmlNext
<1>5. CASE \E c \in Calls : ServerIo(c)
  BY <1>5 DEF ServerIo, Next, IoNext, Process
<1> QED
  BY <1>1, <1>2, <1>3, <1>4, <1>5 DEF JointNext

\* The composition implements ServerUnary.
THEOREM ServerSpec == JointSpec => Spec
<1>1. JointInit => Init
  BY DEF JointInit
<1> QED
  BY <1>1, ServerStep, PTL DEF JointSpec, Spec

\* The server's invariant holds in the composition.
LEMMA ServerInvariance == JointSpec => []IInv
BY ServerSpec, Invariance, PTL

-----------------------------------------------------------------------------
(* What gRPC carries.                                                      *)

JointTypeOK ==
  /\ clientTag \in 0..MaxCalls
  /\ clientStatus \in [Rpcs -> {"none", "DONE", "freed"}]
  /\ rpc \in [Rpcs -> {"none", "sent", "accepted", "answered", "over"}]
  /\ serves \in [Calls -> 0..MaxCalls]
  /\ reply \in [Calls -> Answers \cup {C!Pending}]
  /\ stored \in [Tags -> 0..MaxCalls]
  /\ given \in [Tags -> Answers \cup {C!Pending}]

\* gRPC has only calls that were made.
Numbered == \A n \in Rpcs : n > clientTag => rpc[n] = "none" /\ clientStatus[n] = "none"

\* A call object serves one call, and no call is served by two.
Served ==
  \A c \in Calls : serves[c] # 0 =>
    /\ rpc[serves[c]] \notin {"none", "sent"}
    /\ \A d \in Calls : serves[d] = serves[c] => d = c

\* A call is finished with an answer of the handler.
Replied ==
  /\ qml # NoCall => reply[qml] \in Answers
  /\ \A c \in Calls : serves[c] # 0 /\ rpc[serves[c]] = "answered" => reply[c] \in Answers

\* An unanswered tag has its call's number; tags and objects not in use have
\* no answer.
Unanswered ==
  /\ \A t \in Tags : store[t] # NoCall =>
       /\ t <= lastTag /\ stored[t] = serves[store[t]]
       /\ given[t] = C!Pending /\ reply[store[t]] = C!Pending
  /\ \A t \in Tags : t > lastTag => given[t] = C!Pending
  /\ \A c \in Calls : status[c] = "READ" => reply[c] = C!Pending

\* The handler gave v for the call n.
Told(n, v) == \E t \in Tags : stored[t] = n /\ given[t] = v

Answering == \A c \in Calls : reply[c] # C!Pending => Told(serves[c], reply[c])

JointInv == JointTypeOK /\ Numbered /\ Served /\ Replied /\ Unanswered /\ Answering

\* Neither an answer nor a new tag hides what the handler told before.
ToldStays == \A n \in Rpcs, v \in Answers : Told(n, v) => Told(n, v)'

LEMMA InitJoint == JointInit => JointInv
<1> SUFFICES ASSUME JointInit PROVE JointInv
  OBVIOUS
<1>1. clientTag = 0 /\ clientStatus = [n \in Rpcs |-> "none"]
  BY DEF JointInit, C!Init, C!CallbackInit, C!Tags, Rpcs
<1>2. JointTypeOK
  BY <1>1, JointAssumption DEF JointInit, JointTypeOK, Rpcs
<1>3. Numbered
  BY <1>1 DEF JointInit, Numbered
<1>4. Served /\ Replied /\ Unanswered /\ Answering
  BY StoreAssumption DEF JointInit, Init, StoreInit, Served, Replied, Unanswered, Answering
<1> QED
  BY <1>2, <1>3, <1>4 DEF JointInv

\* A call of the client is one gRPC has not had yet.
LEMMA ClientCallJoint ==
  ASSUME JointInv, ClientCall
  PROVE  JointInv' /\ ToldStays
<1> USE JointAssumption
<1>1. /\ clientTag' = clientTag + 1 /\ clientTag' \in Rpcs
      /\ clientStatus' = [clientStatus EXCEPT ![clientTag'] = "DONE"]
      /\ rpc' = [rpc EXCEPT ![clientTag'] = "sent"]
      /\ UNCHANGED <<vars, serves, reply, stored, given>>
  BY DEF ClientCall, C!Call, C!NewTag, historyVars, JointInv, JointTypeOK, Rpcs
<1>2. UNCHANGED <<store, lastTag, status, qml>>
  BY <1>1 DEF vars, storeVars, callVars
<1>3. rpc[clientTag'] = "none"
  BY <1>1 DEF JointInv, JointTypeOK, Numbered
<1>4. JointTypeOK' /\ Numbered'
  BY <1>1 DEF JointInv, JointTypeOK, Numbered, Rpcs
<1>5. \A c \in Calls : serves[c] # 0 => serves[c] # clientTag' /\ serves[c] \in Rpcs
  BY <1>1, <1>3 DEF JointInv, JointTypeOK, Served, Rpcs
<1>6. Served' /\ Replied'
  BY <1>1, <1>2, <1>5 DEF JointInv, JointTypeOK, Served, Replied
<1>7. Unanswered' /\ Answering' /\ ToldStays
  BY <1>1, <1>2 DEF JointInv, Unanswered, Answering, ToldStays, Told
<1> QED
  BY <1>4, <1>6, <1>7 DEF JointInv

\* The client hears of a call, or refuses one.
LEMMA ClientLocalJoint ==
  ASSUME JointInv, ClientLocal
  PROVE  JointInv' /\ ToldStays
<1> USE JointAssumption
<1>1. /\ UNCHANGED <<vars, wireVars, historyVars, clientStatus>>
      /\ clientTag' = clientTag \/ (clientTag < MaxCalls /\ clientTag' = clientTag + 1)
  BY DEF ClientLocal, C!CallRefused, C!QmlDeliver, C!Deliver, C!DeliverData, C!DeliverDataEnd,
         C!DeliverError, C!DeliverClosed, C!Unwind, C!Take
<1>2. UNCHANGED <<store, lastTag, status, qml, rpc, serves, reply, stored, given>>
  BY <1>1 DEF vars, storeVars, callVars, wireVars, historyVars
<1>3. JointTypeOK' /\ Numbered'
  BY <1>1, <1>2 DEF JointInv, JointTypeOK, Numbered, Rpcs
<1>4. Served' /\ Replied' /\ Unanswered' /\ Answering' /\ ToldStays
  BY <1>1, <1>2 DEF JointInv, Served, Replied, Unanswered, Answering, ToldStays, Told
<1> QED
  BY <1>3, <1>4 DEF JointInv

\* A call is over for the client; it was made before.
LEMMA OverJoint ==
  ASSUME JointInv, NEW n \in Rpcs, Arrives(n) \/ Fails(n)
  PROVE  JointInv' /\ ToldStays
<1> USE JointAssumption
<1>1. /\ clientStatus[n] = "DONE" /\ clientStatus' = [clientStatus EXCEPT ![n] = "freed"]
      /\ rpc' = [rpc EXCEPT ![n] = "over"]
      /\ UNCHANGED <<vars, serves, reply, stored, given, clientTag>>
  BY DEF Arrives, Fails, C!Process, C!Emit, historyVars
<1>2. UNCHANGED <<store, lastTag, status, qml>>
  BY <1>1 DEF vars, storeVars, callVars
<1>3. JointTypeOK' /\ Numbered'
  BY <1>1 DEF JointInv, JointTypeOK, Numbered
<1>4. Served' /\ Replied'
  BY <1>1, <1>2 DEF JointInv, JointTypeOK, Served, Replied, Rpcs
<1>5. Unanswered' /\ Answering' /\ ToldStays
  BY <1>1, <1>2 DEF JointInv, Unanswered, Answering, ToldStays, Told
<1> QED
  BY <1>3, <1>4, <1>5 DEF JointInv

\* The server gets a call: an object without a reply and a new tag.
LEMMA AcceptJoint ==
  ASSUME IInv, JointInv, NEW c \in Calls, NEW n \in Rpcs, Accept(c, n)
  PROVE  JointInv' /\ ToldStays
<1> USE JointAssumption, StoreAssumption
<1>1. /\ rpc[n] = "sent" /\ rpc' = [rpc EXCEPT ![n] = "accepted"]
      /\ serves' = [serves EXCEPT ![c] = n]
      /\ stored' = [stored EXCEPT ![lastTag'] = n]
      /\ UNCHANGED <<clientTag, clientStatus, reply, given>>
  BY DEF Accept, clientVars
<1>2. /\ outstanding[c] > 0 /\ status[c] = "READ" /\ status' = [status EXCEPT ![c] = "FROZEN"]
      /\ lastTag' = lastTag + 1 /\ lastTag < MaxTag
      /\ store' = [store EXCEPT ![lastTag'] = c] /\ qml' = qml
  BY DEF Accept, ProcessRequest, Completes, StoreAndEmit
<1>3. lastTag \in Nat /\ lastTag' \in Tags /\ \A t \in Tags : store[t] # c
  BY <1>2 DEF IInv, TypeOK, StoreTypeOK, AlwaysFrozen, Tags
<1>4. given[lastTag'] = C!Pending /\ reply[c] = C!Pending
  BY <1>2, <1>3 DEF JointInv, Unanswered
<1>5. JointTypeOK' /\ Numbered'
  BY <1>1, <1>3 DEF JointInv, JointTypeOK, Numbered, Rpcs
<1>6. n # 0 /\ \A d \in Calls : serves[d] # n
  BY <1>1 DEF JointInv, Served, Rpcs
<1>7. Served'
  BY <1>1, <1>6 DEF JointInv, JointTypeOK, Served, Rpcs
<1>8. Replied'
  BY <1>1, <1>2, <1>6 DEF JointInv, JointTypeOK, Replied, Rpcs
<1>9. Unanswered'
  <2>1. \A t \in Tags : store'[t] # NoCall =>
          /\ t <= lastTag' /\ stored'[t] = serves'[store'[t]]
          /\ given'[t] = C!Pending /\ reply'[store'[t]] = C!Pending
    BY <1>1, <1>2, <1>3, <1>4 DEF JointInv, JointTypeOK, Unanswered, IInv, TypeOK, StoreTypeOK, Tags
  <2>2. \A t \in Tags : t > lastTag' => given'[t] = C!Pending
    BY <1>1, <1>2, <1>3 DEF JointInv, Unanswered, Tags
  <2>3. \A d \in Calls : status'[d] = "READ" => reply'[d] = C!Pending
    BY <1>1, <1>2 DEF JointInv, Unanswered, IInv, TypeOK
  <2> QED
    BY <2>1, <2>2, <2>3 DEF Unanswered
<1>10. \A m \in 0..MaxCalls, v \in Answers : Told(m, v) => Told(m, v)'
  <2> SUFFICES ASSUME NEW m \in 0..MaxCalls, NEW v \in Answers, Told(m, v) PROVE Told(m, v)'
    OBVIOUS
  <2>1. PICK t \in Tags : stored[t] = m /\ given[t] = v
    BY DEF Told
  <2>2. t # lastTag'
    BY <2>1, <1>4 DEF Answers, C!Failed, C!Pending
  <2> QED
    BY <2>1, <2>2, <1>1 DEF Told, JointInv, JointTypeOK
<1>11. Answering'
  BY <1>1, <1>4, <1>10 DEF JointInv, JointTypeOK, Answering
<1> QED
  BY <1>5, <1>7, <1>8, <1>9, <1>10, <1>11 DEF JointInv, ToldStays, Rpcs

\* The handler answers a tag, for the first time.
LEMMA AnswerJoint ==
  ASSUME IInv, JointInv, NEW t \in Tags, NEW r \in Answers, Answer(t, r)
  PROVE  JointInv' /\ ToldStays
<1> USE JointAssumption, StoreAssumption
<1>1. /\ store[t] \in Calls /\ qml' = store[t]
      /\ reply' = [reply EXCEPT ![qml'] = r]
      /\ store' = [store EXCEPT ![t] = NoCall]
      /\ UNCHANGED <<lastTag, status, clientTag, clientStatus, rpc, serves, stored>>
  BY DEF Answer, BeginAnswer, Remove, clientVars, callVars, IInv, TypeOK, StoreTypeOK
<1>2. given[t] = C!Pending /\ reply[qml'] = C!Pending /\ stored[t] = serves[qml']
  BY <1>1 DEF JointInv, Unanswered
<1>3. given' = [given EXCEPT ![t] = r] /\ r # C!Pending
  BY <1>2 DEF Answer, Answers, C!Failed, C!Pending
<1>4. status[qml'] = "FROZEN" /\ t <= lastTag /\ lastTag \in Nat
  BY <1>1 DEF IInv, AlwaysFrozen, TypeOK, StoreTypeOK, JointInv, Unanswered
<1>5. JointTypeOK' /\ Numbered'
  BY <1>1, <1>3 DEF JointInv, JointTypeOK, Numbered
<1>6. Served' /\ Replied'
  BY <1>1 DEF JointInv, JointTypeOK, Served, Replied
<1>7. Unanswered'
  <2>1. \A s \in Tags \ {t} : store[s] # qml'
    BY <1>1 DEF IInv, Unshared
  <2>2. \A s \in Tags : store'[s] # NoCall =>
          s # t /\ store'[s] = store[s] /\ store[s] \in Calls \ {qml'}
    BY <1>1, <2>1 DEF IInv, TypeOK, StoreTypeOK
  <2>3. \A s \in Tags : store'[s] # NoCall =>
          /\ s <= lastTag' /\ stored'[s] = serves'[store'[s]]
          /\ given'[s] = C!Pending /\ reply'[store'[s]] = C!Pending
    BY <1>1, <1>3, <2>2 DEF JointInv, JointTypeOK, Unanswered
  <2>4. \A s \in Tags : s > lastTag' => given'[s] = C!Pending
    BY <1>1, <1>3, <1>4 DEF JointInv, JointTypeOK, Unanswered, Tags
  <2>5. \A c \in Calls : status'[c] = "READ" => reply'[c] = C!Pending
    BY <1>1, <1>4 DEF JointInv, JointTypeOK, Unanswered
  <2> QED
    BY <2>3, <2>4, <2>5 DEF Unanswered
<1>8. \A m \in 0..MaxCalls, v \in Answers : Told(m, v) => Told(m, v)'
  <2> SUFFICES ASSUME NEW m \in 0..MaxCalls, NEW v \in Answers, Told(m, v) PROVE Told(m, v)'
    OBVIOUS
  <2>1. PICK s \in Tags : stored[s] = m /\ given[s] = v
    BY DEF Told
  <2>2. s # t
    BY <2>1, <1>2 DEF Answers, C!Failed, C!Pending
  <2> QED
    BY <2>1, <2>2, <1>1, <1>3 DEF Told, JointInv, JointTypeOK
<1>9. \E s \in Tags : stored'[s] = serves'[qml'] /\ given'[s] = r
  BY <1>1, <1>2, <1>3 DEF JointInv, JointTypeOK
<1>10. Answering'
  <2> SUFFICES ASSUME NEW c \in Calls, reply'[c] # C!Pending
               PROVE  \E s \in Tags : stored'[s] = serves'[c] /\ given'[s] = reply'[c]
    BY DEF Answering, Told
  <2>1. CASE c = qml'
    BY <2>1, <1>1, <1>9 DEF JointInv, JointTypeOK
  <2>2. CASE c # qml'
    <3>1. reply'[c] = reply[c] /\ serves'[c] = serves[c] /\ reply[c] \in Answers
      BY <2>2, <1>1 DEF JointInv, JointTypeOK
    <3>2. Told(serves[c], reply[c])'
      BY <3>1, <1>8 DEF JointInv, JointTypeOK, Answering
    <3> QED
      BY <3>1, <3>2, <1>1 DEF Told
  <2> QED
    BY <2>1, <2>2
<1> QED
  BY <1>5, <1>6, <1>7, <1>8, <1>10 DEF JointInv, ToldStays, Rpcs

\* The answer is on its way, unless the client has given up on the call.
LEMMA FinishJoint ==
  ASSUME IInv, JointInv, Finish
  PROVE  JointInv' /\ ToldStays
<1> USE JointAssumption, StoreAssumption
<1>1. /\ qml \in Calls /\ qml' = NoCall /\ status[qml] = "FROZEN"
      /\ status' = [status EXCEPT ![qml] = "DONE"]
      /\ UNCHANGED <<store, lastTag, clientTag, clientStatus, serves, reply, stored, given>>
  BY DEF Finish, EndAnswer, IInv, TypeOK, AlwaysFrozen, storeVars, clientVars, historyVars
<1>2. \/ rpc' = rpc
      \/ rpc[serves[qml]] = "accepted" /\ rpc' = [rpc EXCEPT ![serves[qml]] = "answered"]
  BY DEF Finish
<1>3. JointTypeOK' /\ Numbered'
  BY <1>1, <1>2 DEF JointInv, JointTypeOK, Numbered, Rpcs
<1>4. reply[qml] \in Answers
  BY <1>1 DEF JointInv, Replied
<1>5. Served'
  BY <1>1, <1>2 DEF JointInv, JointTypeOK, Served, Rpcs
<1>6. Replied'
  BY <1>1, <1>2, <1>4 DEF JointInv, JointTypeOK, Served, Replied, Rpcs
<1>7. Unanswered' /\ Answering' /\ ToldStays
  BY <1>1 DEF JointInv, Unanswered, Answering, ToldStays, Told, IInv, TypeOK
<1> QED
  BY <1>3, <1>5, <1>6, <1>7 DEF JointInv

\* The other steps of the server concern no call of the client.
LEMMA ServerLocalJoint ==
  ASSUME IInv, JointInv, ServerLocal \/ \E c \in Calls : ServerIo(c)
  PROVE  JointInv' /\ ToldStays
<1>1. UNCHANGED <<store, lastTag, status, qml, clientTag, clientStatus, rpc, serves, reply, stored, given>>
  BY DEF ServerLocal, ServerIo, QmlDeliver, Deliver, DeliverData, DeliverDataEnd, Shutdown,
         ProcessShutdown, ProcessDone, storeVars, callVars, clientVars, wireVars, historyVars
<1> QED
  BY <1>1 DEF JointInv, JointTypeOK, Numbered, Served, Replied, Unanswered, Answering, ToldStays, Told

LEMMA StutterJoint == JointInv /\ UNCHANGED allVars => JointInv' /\ ToldStays
BY DEF JointInv, JointTypeOK, Numbered, Served, Replied, Unanswered, Answering, ToldStays, Told,
       allVars, vars, storeVars, callVars, clientVars, wireVars, historyVars

LEMMA NextJoint == IInv /\ JointInv /\ [JointNext]_allVars => JointInv' /\ ToldStays
BY ClientCallJoint, ClientLocalJoint, OverJoint, AcceptJoint, AnswerJoint, FinishJoint,
   ServerLocalJoint, StutterJoint DEF JointNext

LEMMA JointInvariance == JointSpec => []JointInv
BY ServerInvariance, InitJoint, NextJoint, PTL DEF JointSpec

-----------------------------------------------------------------------------
(* The client.                                                             *)

\* What gRPC completes a call with is what ClientUnary expects of it.
LEMMA ClientStep == JointInv /\ [JointNext]_allVars => [C!Next]_(C!vars)
<1> USE DEF C!vars, C!callbackVars, clientVars, allVars
<1> SUFFICES ASSUME JointInv, JointNext PROVE [C!Next]_(C!vars)
  OBVIOUS
<1>1. CASE ClientCall
  BY <1>1 DEF ClientCall, C!Next
<1>2. CASE ClientLocal
  BY <1>2 DEF ClientLocal, C!Next
<1>3. CASE \E n \in Rpcs : Arrives(n) \/ Fails(n)
  <2>1. PICK n \in Rpcs, ok \in BOOLEAN, r \in Answers : C!Process(n, ok, r)
    <3>1. PICK n \in Rpcs : Arrives(n) \/ Fails(n)
      BY <1>3
    <3>2. CASE Arrives(n)
      <4>1. PICK c \in Calls : serves[c] = n /\ rpc[n] = "answered" /\ C!Process(n, TRUE, reply[c])
        BY <3>2 DEF Arrives
      <4>2. reply[c] \in Answers
        BY <4>1 DEF JointInv, Replied, Rpcs
      <4> QED
        BY <4>1, <4>2
    <3>3. CASE Fails(n)
      BY <3>3 DEF Fails, Answers
    <3> QED
      BY <3>1, <3>2, <3>3
  <2> QED
    BY <2>1 DEF C!Next, C!ProcessAny, C!Tags, Rpcs, Answers
<1>4. CASE \/ \E c \in Calls, n \in Rpcs : Accept(c, n)
           \/ \E t \in Tags, r \in Answers : Answer(t, r)
           \/ Finish \/ ServerLocal \/ \E c \in Calls : ServerIo(c)
  BY <1>4 DEF Accept, Answer, Finish, ServerLocal, ServerIo
<1> QED
  BY <1>1, <1>2, <1>3, <1>4 DEF JointNext

\* The composition implements ClientUnary.
THEOREM ClientSpec == JointSpec => C!Spec
<1>1. JointInit => C!Init
  BY DEF JointInit
<1> QED
  BY <1>1, ClientStep, JointInvariance, PTL DEF JointSpec, C!Spec

\* The client's invariant holds in the composition.
LEMMA ClientInJoint == JointSpec => []ClientIInv
BY ClientInvariance, ClientSpec, PTL

-----------------------------------------------------------------------------
(* What the callbacks hear.                                                *)

\* The messages on their way to the callbacks were told by the handler.
QueuedTold ==
  \A i \in DOMAIN clientSignals :
    clientSignals[i].kind = "data" /\ clientSignals[i].value # EmptyPayload =>
      clientSignals[i].value \in Responses /\ Told(clientSignals[i].tag, clientSignals[i].value)

\* And so were those that arrived.
HeardTold ==
  \A n \in Rpcs : \A i \in DOMAIN heard[n] : heard[n][i].kind = "data" =>
    heard[n][i].value \in Responses /\ Told(n, heard[n][i].value)

Honest == QueuedTold /\ HeardTold

\* Every queued signal of the client has the tag of a call.
LEMMA QueuedTags ==
  ASSUME ClientIInv
  PROVE  /\ clientSignals \in Seq(C!Signal)
         /\ \A i \in DOMAIN clientSignals : clientSignals[i].tag \in Rpcs
         /\ Responses \subseteq Answers
<1>1. clientSignals \in Seq(C!Signal)
  BY DEF ClientIInv, C!TypeOK, C!CallbackTypeOK
<1>2. \A i \in DOMAIN clientSignals : clientSignals[i] \in C!Signal
  BY <1>1
<1>3. \A i \in DOMAIN clientSignals : clientSignals[i].tag \in Rpcs
  BY <1>2 DEF C!Signal, C!Tags, Rpcs
<1> QED
  BY <1>1, <1>3 DEF Answers

\* What was heard stays told.
LEMMA HeardStays ==
  ASSUME HeardTold, ToldStays, UNCHANGED heard
  PROVE  HeardTold'
<1> SUFFICES ASSUME NEW n \in Rpcs, NEW i \in DOMAIN heard[n], heard[n][i].kind = "data"
             PROVE  heard[n][i].value \in Responses /\ Told(n, heard[n][i].value)'
  BY DEF HeardTold
<1>1. heard[n][i].value \in Responses /\ Told(n, heard[n][i].value)
  BY DEF HeardTold
<1> QED
  BY <1>1 DEF ToldStays, Answers

\* A message that was told stays so.
LEMMA HonestStays ==
  ASSUME ClientIInv, Honest, ToldStays, UNCHANGED <<clientSignals, heard>>
  PROVE  Honest'
<1>1. /\ \A i \in DOMAIN clientSignals : clientSignals[i].tag \in Rpcs
      /\ Responses \subseteq Answers
  BY QueuedTags
<1>2. QueuedTold'
  BY <1>1 DEF Honest, QueuedTold, ToldStays
<1>3. HeardTold'
  BY HeardStays DEF Honest
<1> QED
  BY <1>2, <1>3 DEF Honest

\* The result of a call is the handler's answer to it.
LEMMA ResultHonest ==
  ASSUME ClientIInv, JointInv, Honest, ToldStays, NEW n \in Rpcs, Arrives(n) \/ Fails(n)
  PROVE  Honest'
<1> USE JointAssumption
<1>1. PICK ok \in BOOLEAN, r \in Answers :
        C!Process(n, ok, r) /\ (r = C!Failed \/ Told(n, r))
  <2>1. CASE Arrives(n)
    <3>1. PICK c \in Calls : serves[c] = n /\ rpc[n] = "answered" /\ C!Process(n, TRUE, reply[c])
      BY <2>1 DEF Arrives
    <3>2. reply[c] \in Answers
      BY <3>1 DEF JointInv, Replied, Rpcs
    <3>3. Told(n, reply[c])
      BY <3>1, <3>2 DEF JointInv, Answering, Answers, C!Failed, C!Pending
    <3> QED
      BY <3>1, <3>2, <3>3
  <2>2. CASE Fails(n)
    BY <2>2 DEF Fails, Answers
  <2> QED
    BY <2>1, <2>2
<1> DEFINE first == IF ok THEN C!DataOf(n, IF r = C!Failed THEN EmptyPayload ELSE r)
                          ELSE C!EventOf("error", n)
           last == C!EventOf("closed", n)
<1>2. clientSignals' = clientSignals \o <<first, last>> /\ heard' = heard
  BY <1>1 DEF C!Process, C!Emit
<1>3. /\ first.kind = "data" /\ first.value # EmptyPayload =>
           first.tag = n /\ first.value = r /\ r \in Responses /\ Told(n, r)
      /\ last.kind # "data"
  BY <1>1 DEF C!DataOf, C!EventOf, Answers
<1>4. clientSignals \in Seq(C!Signal)
  BY DEF ClientIInv, C!TypeOK, C!CallbackTypeOK
<1>5. first \in C!Signal /\ last \in C!Signal
  BY <1>1 DEF C!Signal, C!SignalKinds, C!Tags, Rpcs, Answers, C!DataOf, C!EventOf
<1> HIDE DEF first, last
<1>6. /\ Len(clientSignals) \in Nat
      /\ DOMAIN clientSignals = 1..Len(clientSignals)
      /\ DOMAIN clientSignals' = 1..(Len(clientSignals) + 2)
      /\ \A i \in 1..Len(clientSignals) : clientSignals'[i] = clientSignals[i]
      /\ clientSignals'[Len(clientSignals) + 1] = first
      /\ clientSignals'[Len(clientSignals) + 2] = last
  BY <1>2, <1>4, <1>5
<1>7. /\ \A i \in DOMAIN clientSignals : clientSignals[i].tag \in Rpcs
      /\ Responses \subseteq Answers
  BY QueuedTags
<1>8. QueuedTold'
  <2> SUFFICES ASSUME NEW i \in DOMAIN clientSignals', clientSignals'[i].kind = "data",
                      clientSignals'[i].value # EmptyPayload
               PROVE  /\ clientSignals'[i].value \in Responses
                      /\ Told(clientSignals[i].tag, clientSignals[i].value)'
    BY DEF QueuedTold
  <2>1. CASE i \in 1..Len(clientSignals)
    BY <2>1, <1>6, <1>7 DEF Honest, QueuedTold, ToldStays
  <2>2. CASE i = Len(clientSignals) + 1
    BY <2>2, <1>3, <1>6, <1>7 DEF ToldStays
  <2>3. CASE i = Len(clientSignals) + 2
    BY <2>3, <1>3, <1>6
  <2> QED
    BY <2>1, <2>2, <2>3, <1>6
<1>9. HeardTold'
  BY <1>2, HeardStays DEF Honest
<1> QED
  BY <1>8, <1>9 DEF Honest

\* A callback hears what was queued for it.
LEMMA DeliverHonest ==
  ASSUME ClientIInv, Honest, ToldStays, ClientLocal
  PROVE  Honest'
<1> USE JointAssumption
<1>1. CASE C!CallRefused \/ C!Unwind \/ UNCHANGED <<clientSignals, heard>>
  BY <1>1, HonestStays DEF C!CallRefused, C!Unwind
<1>2. CASE clientSignals # <<>> /\ clientSignals' = Tail(clientSignals)
  <2> DEFINE e == Head(clientSignals)
  <2>1. /\ clientSignals \in Seq(C!Signal)
        /\ heard \in [Rpcs -> Seq(C!Event)]
    BY DEF ClientIInv, C!TypeOK, C!CallbackTypeOK, C!Tags, Rpcs
  <2>2. e \in C!Signal /\ e.tag \in Rpcs /\ e = clientSignals[1] /\ 1 \in DOMAIN clientSignals
    <3>1. e \in C!Signal /\ e = clientSignals[1] /\ 1 \in DOMAIN clientSignals
      BY <1>2, <2>1
    <3> QED
      BY <3>1 DEF C!Signal, C!Tags, Rpcs
  <2>3. \A i \in DOMAIN clientSignals' :
          i + 1 \in DOMAIN clientSignals /\ clientSignals'[i] = clientSignals[i + 1]
    BY <1>2, <2>1
  <2>4. /\ \A i \in DOMAIN clientSignals : clientSignals[i].tag \in Rpcs
        /\ Responses \subseteq Answers
    BY QueuedTags
  <2>5. QueuedTold'
    BY <2>3, <2>4 DEF Honest, QueuedTold, ToldStays
  <2>6. PICK k \in {"data", "end", "error"}, v \in Responses \cup {None} :
          /\ k = "data" => e.kind = "data" /\ e.value # EmptyPayload /\ v = e.value
          /\ heard' = heard \/ heard' = [heard EXCEPT ![e.tag] = Append(@, [kind |-> k, value |-> v])]
    <3>1. e.value \in Responses \cup {None}
      BY <2>2 DEF C!Signal
    <3>2. C!CallRefused \/ C!QmlDeliver
      BY DEF ClientLocal
    <3>3. CASE heard' = heard
      BY <3>3
    <3>4. CASE C!DeliverData /\ heard' # heard
      BY <3>1, <3>4 DEF C!DeliverData, C!Take, C!Oldest, C!Hears
    <3>5. CASE (C!DeliverDataEnd \/ C!DeliverError) /\ heard' # heard
      BY <3>5 DEF C!DeliverDataEnd, C!DeliverError, C!Oldest, C!Hears
    <3> QED
      BY <3>2, <3>3, <3>4, <3>5
      DEF C!CallRefused, C!QmlDeliver, C!Deliver, C!DeliverClosed, C!Unwind
  <2> DEFINE x == [kind |-> k, value |-> v]
  <2>7. x \in C!Event /\ x.kind = k /\ x.value = v
    BY DEF C!Event
  <2>8. k = "data" => v \in Responses /\ Told(e.tag, v)
    BY <2>2, <2>6 DEF Honest, QueuedTold
  <2> HIDE DEF e, x
  <2>9. HeardTold'
    <3>1. CASE heard' = heard
      BY <3>1, HeardStays DEF Honest
    <3>2. CASE heard' = [heard EXCEPT ![e.tag] = Append(@, x)]
      <4> SUFFICES ASSUME NEW n \in Rpcs, NEW i \in DOMAIN heard'[n], heard'[n][i].kind = "data"
                   PROVE  heard'[n][i].value \in Responses /\ Told(n, heard[n][i].value)'
        BY DEF HeardTold
      <4>1. CASE n = e.tag
        <5>1. /\ heard'[n] = Append(heard[n], x) /\ heard[n] \in Seq(C!Event)
          BY <4>1, <3>2, <2>1
        <5>2. CASE i \in DOMAIN heard[n]
          <6>1. heard'[n][i] = heard[n][i]
            BY <5>1, <5>2, <2>7
          <6> QED
            BY <6>1, <5>2, <2>4 DEF Honest, HeardTold, ToldStays
        <5>3. CASE i \notin DOMAIN heard[n]
          <6>1. heard'[n][i] = x
            BY <5>1, <5>3, <2>7
          <6> QED
            BY <6>1, <4>1, <2>4, <2>7, <2>8 DEF ToldStays
        <5> QED
          BY <5>2, <5>3
      <4>2. CASE n # e.tag
        <5>1. heard'[n] = heard[n]
          BY <4>2, <3>2, <2>1
        <5> QED
          BY <5>1, <2>4 DEF Honest, HeardTold, ToldStays
      <4> QED
        BY <4>1, <4>2
    <3> QED
      BY <3>1, <3>2, <2>6 DEF x, e
  <2> QED
    BY <2>5, <2>9 DEF Honest
<1>3. \/ C!CallRefused \/ C!Unwind
      \/ clientSignals # <<>> /\ clientSignals' = Tail(clientSignals)
  BY DEF ClientLocal, C!QmlDeliver, C!Deliver, C!DeliverData, C!DeliverDataEnd, C!DeliverError,
         C!DeliverClosed, C!Take
<1> QED
  BY <1>1, <1>2, <1>3

LEMMA NextHonest == ClientIInv /\ JointInv /\ Honest /\ ToldStays /\ [JointNext]_allVars => Honest'
<1> SUFFICES ASSUME ClientIInv, JointInv, Honest, ToldStays, [JointNext]_allVars PROVE Honest'
  OBVIOUS
<1>1. CASE ClientLocal
  BY <1>1, DeliverHonest
<1>2. CASE \E n \in Rpcs : Arrives(n) \/ Fails(n)
  BY <1>2, ResultHonest
<1>3. CASE UNCHANGED <<clientSignals, heard>>
  BY <1>3, HonestStays
<1>4. CASE ClientCall
  BY <1>4, <1>3 DEF ClientCall, C!Call, C!NewTag
<1>5. CASE \/ \E c \in Calls, n \in Rpcs : Accept(c, n)
           \/ \E t \in Tags, r \in Answers : Answer(t, r)
           \/ Finish \/ ServerLocal \/ (\E c \in Calls : ServerIo(c)) \/ UNCHANGED allVars
  BY <1>5, <1>3 DEF Accept, Answer, Finish, ServerLocal, ServerIo, clientVars, allVars
<1> QED
  BY <1>1, <1>2, <1>4, <1>5 DEF JointNext

-----------------------------------------------------------------------------
\* No call object of the server is given to gRPC twice, completed after its
\* deletion or answered twice, whatever the clients do (server_unary.cpp).
THEOREM CallsSafeAlways == JointSpec => []CallsSafe
<1>1. IInv => CallsSafe
  BY DEF IInv, CallsSafe
<1> QED
  BY <1>1, ServerInvariance, PTL

\* A callback hears its own handler's first answer, and is not forgotten
\* before it hears it unless the call failed or the response is empty.
THEOREM HearsItsAnswerAlways == JointSpec => []HearsItsAnswer
<1>1. JointInit => Honest
  BY DEF JointInit, C!Init, C!CallbackInit, C!Tags, Rpcs, Honest, QueuedTold, HeardTold
<1>2. Honest /\ ClientIInv => HearsItsAnswer
  <2> SUFFICES ASSUME Honest, ClientIInv PROVE HearsItsAnswer
    OBVIOUS
  <2>1. \A n \in Rpcs : \A i \in DOMAIN heard[n] : heard[n][i].kind = "data" =>
          \E t \in Tags : stored[t] = n /\ given[t] = heard[n][i].value
    BY DEF Honest, HeardTold, Told
  <2>2. C!TypeOK /\ C!SilentOnlyIfEmpty
    BY DEF ClientIInv, Awaited, C!SilentOnlyIfEmpty
  <2> QED
    BY <2>1, <2>2 DEF HearsItsAnswer
<1> QED
  BY <1>1, <1>2, ServerInvariance, JointInvariance, ClientInJoint, NextJoint, NextHonest, PTL
  DEF JointSpec
=============================================================================
