---------------------------- MODULE ServerWriter ----------------------------
(***************************************************************************)
(* A server-streaming method of the server: ServerWriterMethod, its        *)
(* ServerWriterCallData objects and ServerWriterMethod.qml.                *)
(*                                                                         *)
(* As in ServerBidi, respond() holds the store's lock while it waits for   *)
(* mutex_, and abort() and end() remove the tag first: two steps each.     *)
(* process() holds mutex_; it is two steps when a request arrives, because *)
(* the handler learns the tag before processQueuedData leaves READ, and    *)
(* abort(), which takes no lock, can run in between.                       *)
(***************************************************************************)
EXTENDS ServerStore

CONSTANTS
  Messages,   \* the responses the handler writes
  Null,       \* the null response that stands for end() in queue_
  MaxWrites   \* bound: the responses a handler writes in one call

ASSUME WriterAssumption ==
  /\ Null \notin Messages
  /\ MaxWrites \in Nat

VARIABLES
  memory,       \* of each object: "none" until new, "live", "freed" by delete
  tagOf,        \* the tag the call was stored under, 0 before that
  status,       \* status_ (INIT is left within the constructor)
  queue,        \* queue_
  outstanding,  \* operations gRPC has not completed yet
  down,         \* the server was shut down
  qml,          \* what the QML thread does between lookup and use
  io,           \* the call whose request the IO thread is processing
  aborted,      \* history: the calls for which abort() returned true
  accepted,     \* history: every response respond() and end() took, in order
  handed        \* history: everything handed to gRPC, in order

callVars == <<memory, tagOf, status, queue, outstanding, aborted, accepted, handed>>
vars == <<storeVars, callVars, down, qml, io>>

Statuses == {"READ", "FROZEN", "WRITE", "DONE"}
Responses == Messages \cup {Null}

Idle == [op |-> "idle", tag |-> 0, call |-> NoCall, response |-> Null]

TypeOK ==
  /\ StoreTypeOK
  /\ memory \in [Calls -> {"none", "live", "freed"}]
  /\ tagOf \in [Calls -> Tags \cup {0}]
  /\ status \in [Calls -> Statuses]
  /\ queue \in [Calls -> Seq(Responses)]
  /\ outstanding \in [Calls -> Nat]
  /\ down \in BOOLEAN
  /\ qml = Idle \/ qml \in [op : {"respond", "abort", "end"}, tag : Tags, call : Calls,
                            response : Responses]
  /\ io \in Calls \cup {NoCall}
  /\ aborted \subseteq Calls
  /\ accepted \in [Calls -> Seq(Responses)]
  /\ handed \in [Calls -> Seq(Responses)]

\* startProcessing() has made the first call object, which waits for a request.
Init ==
  /\ StoreInit
  /\ \E c \in Calls :
       /\ memory = [d \in Calls |-> IF d = c THEN "live" ELSE "none"]
       /\ outstanding = [d \in Calls |-> IF d = c THEN 1 ELSE 0]
  /\ tagOf = [c \in Calls |-> 0]
  /\ status = [c \in Calls |-> "READ"]
  /\ queue = [c \in Calls |-> <<>>]
  /\ down = FALSE
  /\ qml = Idle
  /\ io = NoCall
  /\ aborted = {}
  /\ accepted = [c \in Calls |-> <<>>]
  /\ handed = [c \in Calls |-> <<>>]

-----------------------------------------------------------------------------
(* QML thread.  The handler acts on tags it was called with, at any time.  *)

\* GrpcServer::shutdown has not returned: on the QML thread, it waits until
\* gRPC has finished every call.
InShutdown == down /\ \E c \in Calls : memory[c] = "live"

BeginRespond(t, m) ==
  /\ qml = Idle /\ ~InShutdown
  /\ t \in known
  /\ store[t] # NoCall
  /\ Len(accepted[store[t]]) < MaxWrites
  /\ qml' = [op |-> "respond", tag |-> t, call |-> store[t], response |-> m]
  /\ UNCHANGED <<storeVars, callVars, down, io>>

\* Slip: the tag is looked up and not removed.
BeginRemove_Kept(op, t) ==
  /\ qml = Idle /\ ~InShutdown
  /\ t \in known
  /\ store[t] # NoCall
  /\ qml' = [op |-> op, tag |-> t, call |-> store[t], response |-> Null]
  /\ UNCHANGED <<storeVars, callVars, down, io>>

\* abort() and end(): remove(tag).  Without an entry they return false.
BeginRemove(op, t) ==
  /\ qml = Idle /\ ~InShutdown
  /\ t \in known
  /\ store[t] # NoCall
  /\ qml' = [op |-> op, tag |-> t, call |-> store[t], response |-> Null]
  /\ Remove(t)
  /\ UNCHANGED <<callVars, down, io>>

\* writer_.Write(r), or writer_.Finish(OK) for Null.
Hand(c, r) ==
  /\ status' = [status EXCEPT ![c] = IF r = Null THEN "DONE" ELSE "WRITE"]
  /\ handed' = [handed EXCEPT ![c] = Append(@, r)]

\* Slip: a null response is ignored, as enqueueData ignores one.
enqueue_NotNull(c, r) == queue' = IF r = Null THEN queue ELSE [queue EXCEPT ![c] = Append(@, r)]

\* enqueueData(r), or the poison pill of end() for Null.
enqueue(c, r) == queue' = [queue EXCEPT ![c] = Append(@, r)]

\* ServerWriterCallData::write and end, under mutex_, which the IO thread
\* holds from the arrival of the request to the end of processQueuedData.
EndRespond ==
  LET c == qml.call
  IN /\ qml.op \in {"respond", "end"}
     /\ io # c
     /\ accepted' = [accepted EXCEPT ![c] = Append(@, qml.response)]
     /\ \/ /\ status[c] = "FROZEN"
           /\ Hand(c, qml.response)
           /\ outstanding' = [outstanding EXCEPT ![c] = @ + 1]
           /\ UNCHANGED queue
        \/ /\ status[c] # "FROZEN"
           /\ enqueue(c, qml.response)
           /\ UNCHANGED <<status, outstanding, handed>>
     /\ qml' = Idle
     /\ UNCHANGED <<storeVars, memory, tagOf, aborted, down, io>>

\* ServerWriterCallData::abort does nothing, in silence, unless FROZEN.
EndAbort ==
  LET c == qml.call
  IN /\ qml.op = "abort"
     /\ aborted' = aborted \cup {c}
     /\ \/ /\ status[c] # "FROZEN"
           /\ UNCHANGED <<status, outstanding>>
        \/ /\ status[c] = "FROZEN"
           /\ status' = [status EXCEPT ![c] = "DONE"]
           /\ outstanding' = [outstanding EXCEPT ![c] = @ + 1]
     /\ qml' = Idle
     /\ UNCHANGED <<storeVars, memory, tagOf, queue, accepted, handed, down, io>>

-----------------------------------------------------------------------------
(* IO thread: a completion for call c.                                     *)

Completes(c, s) ==
  /\ io = NoCall
  /\ outstanding[c] > 0
  /\ status[c] = s

\* Slip: back() and pop() of a queue that is a stack.
processQueuedData_Stack(c) ==
  LET n == Len(queue[c])
  IN \/ /\ n = 0
        /\ status' = [status EXCEPT ![c] = "FROZEN"]
        /\ outstanding' = [outstanding EXCEPT ![c] = @ - 1]
        /\ UNCHANGED <<queue, handed>>
     \/ /\ n > 0
        /\ queue' = [queue EXCEPT ![c] = SubSeq(@, 1, n - 1)]
        /\ Hand(c, queue[c][n])
        /\ UNCHANGED outstanding

processQueuedData(c) ==
  \/ /\ queue[c] = <<>>
     /\ status' = [status EXCEPT ![c] = "FROZEN"]
     /\ outstanding' = [outstanding EXCEPT ![c] = @ - 1]
     /\ UNCHANGED <<queue, handed>>
  \/ /\ queue[c] # <<>>
     /\ queue' = [queue EXCEPT ![c] = Tail(@)]
     /\ Hand(c, Head(queue[c]))
     /\ UNCHANGED outstanding

\* The server is going down: delete this, and no successor.
ProcessShutdown(c) ==
  /\ Completes(c, "READ")
  /\ down
  /\ memory' = [memory EXCEPT ![c] = "freed"]
  /\ outstanding' = [outstanding EXCEPT ![c] = @ - 1]
  /\ UNCHANGED <<storeVars, tagOf, status, queue, aborted, accepted, handed, down, qml, io>>

\* onRequest: store() and the data signal, mutex_ held.
ProcessRequest(c) ==
  /\ Completes(c, "READ")
  /\ ~down
  /\ qml.op # "respond"
  /\ \E v \in Payloads : StoreAndEmit(c, v)
  /\ tagOf' = [tagOf EXCEPT ![c] = lastTag']
  /\ io' = c
  /\ UNCHANGED <<memory, status, queue, outstanding, aborted, accepted, handed, down, qml>>

\* processQueuedData(), and mutex_ is released.
ProcessRequested ==
  /\ io # NoCall
  /\ processQueuedData(io)
  /\ io' = NoCall
  /\ UNCHANGED <<storeVars, memory, tagOf, aborted, accepted, down, qml>>

\* A failed Write is reported (under a tag that names no call) and the queue
\* goes on.
ProcessWrite(c) ==
  /\ Completes(c, "WRITE")
  /\ processQueuedData(c)
  /\ UNCHANGED <<storeVars, memory, tagOf, aborted, accepted, down, qml, io>>

\* A new object waits for the next request (while there is memory for it) and
\* this one is deleted.
ProcessDone(c) ==
  LET unused == {d \in Calls : memory[d] = "none"}
  IN /\ Completes(c, "DONE")
     /\ \/ /\ unused = {}
           /\ memory' = [memory EXCEPT ![c] = "freed"]
           /\ outstanding' = [outstanding EXCEPT ![c] = @ - 1]
        \/ \E d \in unused :
             /\ memory' = [memory EXCEPT ![c] = "freed", ![d] = "live"]
             /\ outstanding' = [outstanding EXCEPT ![c] = @ - 1, ![d] = 1]
     /\ UNCHANGED <<storeVars, tagOf, status, queue, aborted, accepted, handed, down, qml, io>>

\* GrpcServer::shutdown is called.
Shutdown ==
  /\ qml = Idle
  /\ ~down
  /\ down' = TRUE
  /\ UNCHANGED <<storeVars, callVars, qml, io>>

-----------------------------------------------------------------------------
QmlDeliver ==
  /\ qml = Idle /\ ~InShutdown
  /\ Deliver
  /\ UNCHANGED <<callVars, down, qml, io>>

QmlNext ==
  \/ \E t \in Tags : \E m \in Messages : BeginRespond(t, m)
  \/ \E t \in Tags : BeginRemove("abort", t) \/ BeginRemove("end", t)
  \/ EndRespond
  \/ EndAbort
  \/ QmlDeliver
  \/ Shutdown

Process(c) ==
  \/ ProcessShutdown(c)
  \/ ProcessRequest(c)
  \/ ProcessWrite(c)
  \/ ProcessDone(c)

IoNext == (\E c \in Calls : Process(c)) \/ ProcessRequested

Next == QmlNext \/ IoNext

Spec == Init /\ [][Next]_vars

\* gRPC completes what it was given and both threads keep running.  That the
\* handler writes, ends or aborts is its own choice.
Fairness ==
  /\ \A c \in Calls : WF_vars(Process(c))
  /\ WF_vars(ProcessRequested)
  /\ WF_vars(EndRespond) /\ WF_vars(EndAbort) /\ WF_vars(QmlDeliver)

FairSpec == Spec /\ Fairness

-----------------------------------------------------------------------------
(* Properties.                                                             *)

\* A live call has one operation in flight, or none when FROZEN, although
\* abort() and process() are not synchronised; and no completion can arrive
\* for a call that is not live.
OneOperation ==
  \A c \in Calls :
    outstanding[c] = IF memory[c] = "live" /\ status[c] # "FROZEN" THEN 1 ELSE 0

\* What the QML thread finds in the store, or still uses after removing the
\* tag, is alive, is the call the tag was given to, and is not finishing.
Finishable(c, t) == memory[c] = "live" /\ tagOf[c] = t /\ status[c] # "DONE"

PointersLive ==
  /\ \A t \in Tags : store[t] # NoCall => Finishable(store[t], t)
  /\ qml # Idle => Finishable(qml.call, qml.tag)

\* No call is used after its deletion, and gRPC gets one operation at a time.
CallsSafe == TypeOK /\ OneOperation /\ PointersLive

\* A live call that can no longer be reached through the store is finishing,
\* or has its end queued behind responses still being written, unless abort()
\* was called on it: abort() removes the tag before it looks at the status,
\* and a call it then leaves alone blocks the method for good.
LostOnlyByAbort ==
  \A c \in Calls :
    memory[c] = "live" /\ tagOf[c] # 0 /\ store[tagOf[c]] = NoCall /\ qml.call # c
      => \/ status[c] = "DONE"
         \/ queue[c] # <<>> /\ queue[c][Len(queue[c])] = Null
         \/ c \in aborted

\* The responses of a call form an OutgoingStream.
Stream == INSTANCE OutgoingStream WITH Streams <- Calls, Items <- Responses, End <- Null
ImplementsStream == Stream!Spec

\* A call whose handler called end() is eventually deleted.
EndedIsFreed ==
  \A c \in Calls :
    (\E i \in 1..Len(accepted[c]) : accepted[c][i] = Null) ~> (memory[c] = "freed")
=============================================================================
