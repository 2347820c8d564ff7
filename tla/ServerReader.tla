---------------------------- MODULE ServerReader ----------------------------
(***************************************************************************)
(* A client-streaming method of the server: ServerReaderMethod, its        *)
(* ServerReaderCallData objects and ServerReaderMethod.qml.                *)
(*                                                                         *)
(* The call data has no lock.  respond() and abort() remove the tag from   *)
(* the store (under the store's lock) and then run resume() or abort() on  *)
(* the object: two steps, between which process() can run on the IO        *)
(* thread.  The status is read and written by both threads without         *)
(* synchronisation; every access is taken as atomic.                       *)
(***************************************************************************)
EXTENDS ServerStore

CONSTANT MaxReads   \* bound: the messages a client sends in one call

ASSUME ReaderAssumption == MaxReads \in Nat

VARIABLES
  memory,       \* of each object: "none" until new, "live", "freed" by delete
  tag,          \* ServerReaderCallData::tag, 0 until it is stored
  status,       \* status_ (INIT is left within the constructor)
  outstanding,  \* operations gRPC has not completed yet
  reads,        \* messages received
  down,         \* the server was shut down
  qml,          \* the call the QML thread is about to answer
  dropped       \* history: the calls whose answer was thrown away

callVars == <<memory, tag, status, outstanding, reads>>
vars == <<storeVars, callVars, down, qml, dropped>>

Statuses == {"FIRST_READ", "READ", "FROZEN", "DONE"}

TypeOK ==
  /\ StoreTypeOK
  /\ memory \in [Calls -> {"none", "live", "freed"}]
  /\ tag \in [Calls -> Tags \cup {0}]
  /\ status \in [Calls -> Statuses]
  /\ outstanding \in [Calls -> Nat]
  /\ reads \in [Calls -> 0..MaxReads]
  /\ down \in BOOLEAN
  /\ qml \in Calls \cup {NoCall}
  /\ dropped \subseteq Calls

\* startProcessing() has made the first call object, which waits for a request.
Init ==
  /\ StoreInit
  /\ \E c \in Calls :
       /\ memory = [d \in Calls |-> IF d = c THEN "live" ELSE "none"]
       /\ outstanding = [d \in Calls |-> IF d = c THEN 1 ELSE 0]
  /\ tag = [c \in Calls |-> 0]
  /\ status = [c \in Calls |-> "FIRST_READ"]
  /\ reads = [c \in Calls |-> 0]
  /\ down = FALSE
  /\ qml = NoCall
  /\ dropped = {}

-----------------------------------------------------------------------------
(* QML thread: the callback given to the handler, called with a response or *)
(* an error, at any time after the handler was called with the first        *)
(* message.  Without an entry in the store it returns false.                *)

\* GrpcServer::shutdown has not returned: on the QML thread, it waits until
\* gRPC has finished every call.
InShutdown == down /\ \E c \in Calls : memory[c] = "live"

\* Slip: the tag is looked up and not removed.
BeginAnswer_Kept(t) ==
  /\ qml = NoCall /\ ~InShutdown
  /\ t \in known
  /\ store[t] # NoCall
  /\ qml' = store[t]
  /\ UNCHANGED <<storeVars, callVars, down, dropped>>

BeginAnswer(t) ==
  /\ qml = NoCall /\ ~InShutdown
  /\ t \in known
  /\ store[t] # NoCall
  /\ qml' = store[t]
  /\ Remove(t)
  /\ UNCHANGED <<callVars, down, dropped>>

\* resume() and abort(), which differ in the status Finish sends: both give
\* up, in silence, unless FROZEN.
EndAnswer ==
  /\ qml # NoCall
  /\ \/ /\ status[qml] = "FROZEN"
        /\ status' = [status EXCEPT ![qml] = "DONE"]
        /\ outstanding' = [outstanding EXCEPT ![qml] = @ + 1]
        /\ UNCHANGED dropped
     \/ /\ status[qml] # "FROZEN"
        /\ dropped' = dropped \cup {qml}
        /\ UNCHANGED <<status, outstanding>>
  /\ qml' = NoCall
  /\ UNCHANGED <<storeVars, memory, tag, reads, down>>

-----------------------------------------------------------------------------
(* IO thread: a completion for call c.                                     *)

Completes(c, s) == outstanding[c] > 0 /\ status[c] = s

ProcessShutdown(c) ==
  /\ Completes(c, "FIRST_READ")
  /\ down
  /\ memory' = [memory EXCEPT ![c] = "freed"]
  /\ outstanding' = [outstanding EXCEPT ![c] = @ - 1]
  /\ UNCHANGED <<storeVars, tag, status, reads, down, qml, dropped>>

\* A client calls the method: the first Read.
ProcessRequest(c) ==
  /\ Completes(c, "FIRST_READ")
  /\ ~down
  /\ status' = [status EXCEPT ![c] = "READ"]
  /\ UNCHANGED <<storeVars, memory, tag, outstanding, reads, down, qml, dropped>>

\* onData, which stores the call the first time, and the next Read.
ProcessRead(c) ==
  /\ Completes(c, "READ")
  /\ reads[c] < MaxReads
  /\ reads' = [reads EXCEPT ![c] = @ + 1]
  /\ \E v \in Payloads :
       \/ /\ tag[c] = 0
          /\ StoreAndEmit(c, v)
          /\ tag' = [tag EXCEPT ![c] = lastTag']
       \/ /\ tag[c] # 0
          /\ Emit(<<DataOf(tag[c], v)>>)
          /\ UNCHANGED tag
  /\ UNCHANGED <<memory, status, outstanding, down, qml, dropped>>

\* Slip: the call is not frozen.
ProcessReadEnd_NoFreeze(c) ==
  /\ Completes(c, "READ")
  /\ outstanding' = [outstanding EXCEPT ![c] = @ - 1]
  /\ IF tag[c] # 0 THEN Emit(<<DataEndOf(tag[c])>>) ELSE UNCHANGED storeVars
  /\ UNCHANGED <<memory, tag, status, reads, down, qml, dropped>>

\* The client is done, or gone.
ProcessReadEnd(c) ==
  /\ Completes(c, "READ")
  /\ status' = [status EXCEPT ![c] = "FROZEN"]
  /\ outstanding' = [outstanding EXCEPT ![c] = @ - 1]
  /\ IF tag[c] # 0 THEN Emit(<<DataEndOf(tag[c])>>) ELSE UNCHANGED storeVars
  /\ UNCHANGED <<memory, tag, reads, down, qml, dropped>>

\* Slip: no `delete this'.
ProcessDone_NoDelete(c) ==
  /\ Completes(c, "DONE")
  /\ \E d \in Calls :
       /\ memory[d] = "none"
       /\ memory' = [memory EXCEPT ![d] = "live"]
       /\ outstanding' = [outstanding EXCEPT ![c] = @ - 1, ![d] = 1]
  /\ UNCHANGED <<storeVars, tag, status, reads, down, qml, dropped>>

\* A new object waits for the next request (while there is memory for it) and
\* this one is deleted.
ProcessDone(c) ==
  LET unused == {d \in Calls : memory[d] = "none"}
  IN /\ Completes(c, "DONE")
     /\ \/ /\ unused = {}
           /\ memory' = [memory EXCEPT ![c] = "freed"]
           /\ outstanding' = [outstanding EXCEPT ![c] = @ - 1]
        \/ \E d \in unused :
             /\ memory' = [memory EXCEPT ![c] = "freed", ![d] = "live"]
             /\ outstanding' = [outstanding EXCEPT ![c] = @ - 1, ![d] = 1]
     /\ UNCHANGED <<storeVars, tag, status, reads, down, qml, dropped>>

\* GrpcServer::shutdown is called.
Shutdown ==
  /\ qml = NoCall
  /\ ~down
  /\ down' = TRUE
  /\ UNCHANGED <<storeVars, callVars, qml, dropped>>

-----------------------------------------------------------------------------
QmlDeliver ==
  /\ qml = NoCall /\ ~InShutdown
  /\ Deliver
  /\ UNCHANGED <<callVars, down, qml, dropped>>

QmlNext ==
  \/ \E t \in Tags : BeginAnswer(t)
  \/ EndAnswer
  \/ QmlDeliver
  \/ Shutdown

Process(c) ==
  \/ ProcessShutdown(c)
  \/ ProcessRequest(c)
  \/ ProcessRead(c)
  \/ ProcessReadEnd(c)
  \/ ProcessDone(c)

IoNext == \E c \in Calls : Process(c)

Next == QmlNext \/ IoNext

Spec == Init /\ [][Next]_vars

\* gRPC completes what it was given (a client sends at most MaxReads messages
\* and then half-closes or goes away) and both threads keep running.  When and
\* whether the handler answers is its own choice.
Fairness ==
  /\ \A c \in Calls : WF_vars(Process(c))
  /\ WF_vars(EndAnswer) /\ WF_vars(QmlDeliver)

FairSpec == Spec /\ Fairness

-----------------------------------------------------------------------------
(* Properties.                                                             *)

\* A live call has one operation in flight, or none when FROZEN, although
\* the two threads share the status without a lock; and no completion can
\* arrive for a call that is not live.
OneOperation ==
  \A c \in Calls :
    outstanding[c] = IF memory[c] = "live" /\ status[c] # "FROZEN" THEN 1 ELSE 0

\* A call the store still holds, or that the QML thread has just removed from
\* it, is alive and unanswered: whoever answers it is the only one, and the
\* IO thread does not delete it in between.
Answerable(c) == memory[c] = "live" /\ status[c] \in {"READ", "FROZEN"} /\ c \notin dropped

PointersLive ==
  /\ \A t \in Tags : store[t] # NoCall => Answerable(store[t]) /\ tag[store[t]] = t
  /\ qml # NoCall => Answerable(qml)

\* No call is used after its deletion, and gRPC gets one operation at a time.
CallsSafe == TypeOK /\ OneOperation /\ PointersLive

\* An answer is thrown away only if the handler gives it before its "end"
\* event: respond() removes the tag first and looks at the status second, and
\* between the two the client may or may not have half-closed.
DroppedOnlyIfEarly ==
  [][\A c \in dropped' \ dropped : tag[c] \notin ended]_vars

\* A call that the handler answers after its "end" event is finished and
\* deleted, so that the method takes the next client.
AnsweredIsFreed ==
  \A c \in Calls :
    (tag[c] # 0 /\ store[tag[c]] = NoCall /\ tag[c] \in ended) ~>
      (memory[c] = "freed" \/ c \in dropped)
=============================================================================
