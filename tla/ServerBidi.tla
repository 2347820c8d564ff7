----------------------------- MODULE ServerBidi -----------------------------
(***************************************************************************)
(* A bidirectional-streaming method of the server: ServerBidiMethod, its   *)
(* ServerBidiCallData objects and ServerReaderWriterMethod.qml.            *)
(*                                                                         *)
(* Two locks are modelled, because the two threads take them in opposite   *)
(* orders.  respond() holds the store's lock while it waits for the call's *)
(* mutex_; process() holds mutex_ while store() waits for the store's      *)
(* lock.  So respond() is two steps, the store's lock being held between   *)
(* them, and process() is two steps when it has to store the call.  abort  *)
(* and end remove the tag and only then take mutex_: two steps, no lock    *)
(* held between them.  Everything else process() does is one step.         *)
(*                                                                         *)
(* gRPC is external: each operation completes once and the completion      *)
(* names only the call, so the operations in flight are counted.           *)
(***************************************************************************)
EXTENDS ServerStore

CONSTANTS
  Messages,   \* the responses the handler writes
  Null,       \* the null response that stands for end() in queue_
  MaxReads,   \* bound: the messages a client sends in one call
  MaxWrites   \* bound: the responses a handler writes in one call

ASSUME BidiAssumption ==
  /\ Null \notin Messages
  /\ MaxReads \in Nat
  /\ MaxWrites \in Nat

VARIABLES
  memory,       \* of each object: "none" until new, "live", "freed" by delete
  tag,          \* ServerBidiCallData::tag, 0 until it is stored
  status,       \* status_ (INIT is left within the constructor)
  queue,        \* queue_
  refCount,     \* ref_count_
  outstanding,  \* operations gRPC has not completed yet
  reads,        \* messages received
  down,         \* the server was shut down
  qml,          \* what the QML thread does between lookup and use
  io,           \* the IO thread inside process(), waiting to store a call
  accepted,     \* history: every response respond() and end() took, in order
  handed        \* history: everything handed to gRPC, in order

callVars == <<memory, tag, status, queue, refCount, outstanding, reads, accepted, handed>>
vars == <<storeVars, callVars, down, qml, io>>

Statuses == {"REQUEST", "READ", "FROZEN", "WRITE", "DONE"}
Responses == Messages \cup {Null}

Idle == [op |-> "idle", tag |-> 0, call |-> NoCall, response |-> Null]
AtNext == [pc |-> "next", call |-> NoCall, value |-> EmptyPayload]

TypeOK ==
  /\ StoreTypeOK
  /\ memory \in [Calls -> {"none", "live", "freed"}]
  /\ tag \in [Calls -> Tags \cup {0}]
  /\ status \in [Calls -> Statuses]
  /\ queue \in [Calls -> Seq(Responses)]
  /\ refCount \in [Calls -> Nat]
  /\ outstanding \in [Calls -> Nat]
  /\ reads \in [Calls -> 0..MaxReads]
  /\ down \in BOOLEAN
  /\ qml = Idle \/ qml \in [op : {"respond", "abort", "end"}, tag : Tags, call : Calls,
                            response : Responses]
  /\ io = AtNext \/ io \in [pc : {"store"}, call : Calls, value : Payloads]
  /\ accepted \in [Calls -> Seq(Responses)]
  /\ handed \in [Calls -> Seq(Responses)]

\* startProcessing() has made the first call object, which waits for a request.
Init ==
  /\ StoreInit
  /\ \E c \in Calls :
       /\ memory = [d \in Calls |-> IF d = c THEN "live" ELSE "none"]
       /\ outstanding = [d \in Calls |-> IF d = c THEN 1 ELSE 0]
  /\ tag = [c \in Calls |-> 0]
  /\ status = [c \in Calls |-> "REQUEST"]
  /\ queue = [c \in Calls |-> <<>>]
  /\ refCount = [c \in Calls |-> 1]
  /\ reads = [c \in Calls |-> 0]
  /\ down = FALSE
  /\ qml = Idle
  /\ io = AtNext
  /\ accepted = [c \in Calls |-> <<>>]
  /\ handed = [c \in Calls |-> <<>>]

-----------------------------------------------------------------------------
(* QML thread.  The handler acts on tags it was called with, at any time.  *)

\* GrpcServer::shutdown has not returned: on the QML thread, it waits until
\* gRPC has finished every call.
InShutdown == down /\ \E c \in Calls : memory[c] = "live"

BeginRespond(t, m) ==
  /\ qml = Idle /\ ~InShutdown
  /\ t \in known
  /\ store[t] # NoCall
  /\ Len(accepted[store[t]]) < MaxWrites
  /\ qml' = [op |-> "respond", tag |-> t, call |-> store[t], response |-> m]
  /\ UNCHANGED <<storeVars, callVars, down, io>>

\* Slip: the tag is looked up and not removed.
BeginRemove_Kept(op, t) ==
  /\ qml = Idle /\ ~InShutdown
  /\ t \in known
  /\ store[t] # NoCall
  /\ qml' = [op |-> op, tag |-> t, call |-> store[t], response |-> Null]
  /\ UNCHANGED <<storeVars, callVars, down, io>>

\* abort() and end(): remove(tag).  Without an entry they return false.
BeginRemove(op, t) ==
  /\ qml = Idle /\ ~InShutdown
  /\ t \in known
  /\ store[t] # NoCall
  /\ qml' = [op |-> op, tag |-> t, call |-> store[t], response |-> Null]
  /\ Remove(t)
  /\ UNCHANGED <<callVars, down, io>>

\* mutex_ is free: the IO thread keeps it only while it waits to store.
Using(op) == qml.op = op /\ io.call # qml.call

Accept(c, r) == accepted' = [accepted EXCEPT ![c] = Append(@, r)]

\* stream_.Write(r), or stream_.Finish(OK) for Null.
Hand(c, r) ==
  /\ status' = [status EXCEPT ![c] = IF r = Null THEN "DONE" ELSE "WRITE"]
  /\ handed' = [handed EXCEPT ![c] = Append(@, r)]

\* ServerBidiCallData::write and writesDone, which differ in the response.
EndRespond ==
  LET c == qml.call
  IN /\ \E op \in {"respond", "end"} : Using(op)
     /\ Accept(c, qml.response)
     /\ \/ /\ status[c] = "FROZEN"
           /\ Hand(c, qml.response)
           /\ outstanding' = [outstanding EXCEPT ![c] = @ + 1]
           /\ UNCHANGED queue
        \/ /\ status[c] # "FROZEN"
           /\ queue' = [queue EXCEPT ![c] = Append(@, qml.response)]
           /\ UNCHANGED <<status, outstanding, handed>>
     /\ qml' = Idle
     /\ UNCHANGED <<storeVars, memory, tag, refCount, reads, down, io>>

\* Slip: a reference also for a call in which nothing is in flight.
EndAbort_AlwaysRef ==
  LET c == qml.call
  IN /\ Using("abort")
     /\ refCount' = [refCount EXCEPT ![c] = @ + 1]
     /\ status' = [status EXCEPT ![c] = "DONE"]
     /\ outstanding' = [outstanding EXCEPT ![c] = @ + 1]
     /\ qml' = Idle
     /\ UNCHANGED <<storeVars, memory, tag, queue, reads, accepted, handed, down, io>>

\* ServerBidiCallData::abort: Finish(error) on top of what is in flight.
EndAbort ==
  LET c == qml.call
  IN /\ Using("abort")
     /\ refCount' = [refCount EXCEPT ![c] = IF status[c] # "FROZEN" THEN @ + 1 ELSE @]
     /\ status' = [status EXCEPT ![c] = "DONE"]
     /\ outstanding' = [outstanding EXCEPT ![c] = @ + 1]
     /\ qml' = Idle
     /\ UNCHANGED <<storeVars, memory, tag, queue, reads, accepted, handed, down, io>>

-----------------------------------------------------------------------------
(* IO thread: a completion for call c.                                     *)

Completes(c, s) ==
  /\ io = AtNext
  /\ outstanding[c] > 0
  /\ status[c] = s

\* Slip: back() and pop() of a queue that is a stack.
handleQueuedMessages_Stack(c) ==
  LET n == Len(queue[c])
  IN \/ /\ n = 0
        /\ status' = [status EXCEPT ![c] = "FROZEN"]
        /\ outstanding' = [outstanding EXCEPT ![c] = @ - 1]
        /\ UNCHANGED <<queue, handed>>
     \/ /\ n > 0
        /\ queue' = [queue EXCEPT ![c] = SubSeq(@, 1, n - 1)]
        /\ Hand(c, queue[c][n])
        /\ UNCHANGED outstanding

handleQueuedMessages(c) ==
  \/ /\ queue[c] = <<>>
     /\ status' = [status EXCEPT ![c] = "FROZEN"]
     /\ outstanding' = [outstanding EXCEPT ![c] = @ - 1]
     /\ UNCHANGED <<queue, handed>>
  \/ /\ queue[c] # <<>>
     /\ queue' = [queue EXCEPT ![c] = Tail(@)]
     /\ Hand(c, Head(queue[c]))
     /\ UNCHANGED outstanding

\* The last reference frees the object and, unless the server is going down,
\* a new one waits for the next request (while there is memory for it).
decrementRef(c, terminate) ==
  LET unused == {d \in Calls : memory[d] = "none"}
  IN /\ refCount' = [refCount EXCEPT ![c] = @ - 1]
     /\ \/ /\ refCount[c] # 1
           /\ outstanding' = [outstanding EXCEPT ![c] = @ - 1]
           /\ UNCHANGED memory
        \/ /\ refCount[c] = 1
           /\ terminate \/ unused = {}
           /\ memory' = [memory EXCEPT ![c] = "freed"]
           /\ outstanding' = [outstanding EXCEPT ![c] = @ - 1]
        \/ /\ refCount[c] = 1
           /\ ~terminate
           /\ \E d \in unused :
                /\ memory' = [memory EXCEPT ![c] = "freed", ![d] = "live"]
                /\ outstanding' = [outstanding EXCEPT ![c] = @ - 1, ![d] = 1]

\* A client calls the method, or the server is going down.
ProcessRequest(c, ok) ==
  /\ Completes(c, "REQUEST")
  /\ ok = ~down
  /\ \/ /\ ok
        /\ status' = [status EXCEPT ![c] = "READ"]
        /\ UNCHANGED <<memory, refCount, outstanding>>
     \/ /\ ~ok
        /\ decrementRef(c, TRUE)
        /\ UNCHANGED status
  /\ UNCHANGED <<storeVars, tag, queue, reads, accepted, handed, down, qml, io>>

\* Slip: every message stores the call.
ProcessRead_Store(c) ==
  /\ Completes(c, "READ")
  /\ reads[c] < MaxReads
  /\ reads' = [reads EXCEPT ![c] = @ + 1]
  /\ \E v \in Payloads : io' = [pc |-> "store", call |-> c, value |-> v]
  /\ UNCHANGED <<storeVars, memory, tag, status, queue, refCount, outstanding, accepted,
                 handed, down, qml>>

\* onData for a call that has a tag, and the next Read.
ProcessRead(c) ==
  /\ Completes(c, "READ")
  /\ reads[c] < MaxReads
  /\ reads' = [reads EXCEPT ![c] = @ + 1]
  /\ \E v \in Payloads :
       \/ /\ tag[c] # 0
          /\ Emit(<<DataOf(tag[c], v)>>)
          /\ UNCHANGED io
       \/ /\ tag[c] = 0
          /\ io' = [pc |-> "store", call |-> c, value |-> v]
          /\ UNCHANGED storeVars
  /\ UNCHANGED <<memory, tag, status, queue, refCount, outstanding, accepted, handed, down, qml>>

\* onData for the first message: store() needs the lock respond() holds.
ProcessStore ==
  /\ io.pc = "store"
  /\ qml.op # "respond"
  /\ StoreAndEmit(io.call, io.value)
  /\ tag' = [tag EXCEPT ![io.call] = lastTag']
  /\ io' = AtNext
  /\ UNCHANGED <<memory, status, queue, refCount, outstanding, reads, accepted, handed, down, qml>>

\* The client is done, or gone: onDataEnd, then the queued responses.
ProcessReadEnd(c) ==
  /\ Completes(c, "READ")
  /\ IF tag[c] # 0 THEN Emit(<<DataEndOf(tag[c])>>) ELSE UNCHANGED storeVars
  /\ handleQueuedMessages(c)
  /\ UNCHANGED <<memory, tag, refCount, reads, accepted, down, qml, io>>

\* Whether the Write succeeded is not looked at.
ProcessWrite(c) ==
  /\ Completes(c, "WRITE")
  /\ handleQueuedMessages(c)
  /\ UNCHANGED <<storeVars, memory, tag, refCount, reads, accepted, down, qml, io>>

ProcessDone(c) ==
  /\ Completes(c, "DONE")
  /\ decrementRef(c, FALSE)
  /\ UNCHANGED <<storeVars, tag, status, queue, reads, accepted, handed, down, qml, io>>

\* GrpcServer::shutdown is called.
Shutdown ==
  /\ qml = Idle
  /\ ~down
  /\ down' = TRUE
  /\ UNCHANGED <<storeVars, callVars, qml, io>>

-----------------------------------------------------------------------------
QmlDeliver ==
  /\ qml = Idle /\ ~InShutdown
  /\ Deliver
  /\ UNCHANGED <<callVars, down, qml, io>>

QmlNext ==
  \/ \E t \in Tags : \E m \in Messages : BeginRespond(t, m)
  \/ \E t \in Tags : BeginRemove("abort", t) \/ BeginRemove("end", t)
  \/ EndRespond
  \/ EndAbort
  \/ QmlDeliver
  \/ Shutdown

Process(c) ==
  \/ \E ok \in BOOLEAN : ProcessRequest(c, ok)
  \/ ProcessRead(c)
  \/ ProcessReadEnd(c)
  \/ ProcessWrite(c)
  \/ ProcessDone(c)

IoNext == (\E c \in Calls : Process(c)) \/ ProcessStore

Next == QmlNext \/ IoNext

Spec == Init /\ [][Next]_vars

\* gRPC completes what it was given (a client sends at most MaxReads messages
\* and then half-closes or goes away) and both threads keep running.  That the
\* handler writes, ends or aborts is its own choice.
Fairness ==
  /\ \A c \in Calls : WF_vars(Process(c))
  /\ WF_vars(ProcessStore)
  /\ WF_vars(EndRespond) /\ WF_vars(EndAbort) /\ WF_vars(QmlDeliver)

FairSpec == Spec /\ Fairness

-----------------------------------------------------------------------------
(* Properties.                                                             *)

\* ref_count_ "avoids deleting twice in the completion queue thread"
\* (server_bidi.cpp:180): a finishing call holds one reference for each
\* completion still to come, whether or not abort() found a Read or a Write
\* in flight; any other live call has one operation in flight, or none when
\* FROZEN; and no completion can arrive for a call that is not live.
RefCountExact ==
  \A c \in Calls :
    /\ memory[c] # "live" => outstanding[c] = 0
    /\ memory[c] = "live" /\ status[c] = "DONE" => refCount[c] = outstanding[c] /\ outstanding[c] > 0
    /\ memory[c] = "live" /\ status[c] # "DONE" =>
         /\ refCount[c] = 1
         /\ outstanding[c] = IF status[c] = "FROZEN" THEN 0 ELSE 1

\* What the QML thread finds in the store it can use: the call behind a tag,
\* and the call an operation is still working on after abort() or end()
\* removed the tag, is alive, is the one the tag was given to, and is not
\* finishing, in every interleaving with the IO thread that deletes it.
Finishable(c, t) == memory[c] = "live" /\ tag[c] = t /\ status[c] \notin {"REQUEST", "DONE"}

PointersLive ==
  /\ \A t \in Tags : store[t] # NoCall => Finishable(store[t], t)
  /\ qml # Idle => Finishable(qml.call, qml.tag)

\* The two lock orders never meet: while respond() holds the store's lock and
\* waits for mutex_, the IO thread does not wait for the store's lock with
\* that mutex_ held.
NoLockCycle == ~(qml.op = "respond" /\ io.pc = "store" /\ io.call = qml.call)

\* A method serves one call at a time, and always has a call object serving
\* or waiting for a client, until the server is shut down or the model runs
\* out of objects.
OneLiveCall ==
  /\ \A c, d \in Calls : memory[c] = "live" /\ memory[d] = "live" => c = d
  /\ \/ \E c \in Calls : memory[c] = "live"
     \/ down
     \/ \A c \in Calls : memory[c] = "freed"

\* No call is used after its deletion, deleted twice or lost with its method:
\* by the IO thread, the handler and gRPC together.
CallsSafe == RefCountExact /\ PointersLive /\ OneLiveCall

\* The responses of a call form an OutgoingStream.
Stream == INSTANCE OutgoingStream WITH Streams <- Calls, Items <- Responses, End <- Null
ImplementsStream == Stream!Spec

\* A call whose handler has called end() or error() is eventually deleted,
\* whatever is in flight at that time.
EndedIsFreed ==
  \A c \in Calls :
    (tag[c] # 0 /\ store[tag[c]] = NoCall) ~> (memory[c] = "freed")

\* GrpcServer::shutdown blocks the QML thread until every call is deleted, so
\* nobody can end a call meanwhile.  It returns if each live call waits for a
\* client, is finishing, or has its end accepted already.
ShutdownReturns ==
  (down /\ \A c \in Calls : memory[c] = "live" =>
       \/ status[c] \in {"REQUEST", "DONE"}
       \/ \E i \in 1..Len(accepted[c]) : accepted[c][i] = Null)
    ~> (\A c \in Calls : memory[c] # "live")
=============================================================================
